------------------------------ MODULE ProgLoad ------------------------------
(***************************************************************************)
(* Programs into the kernel and information about them back out: the tries   *)
(* of load_program (libbpf/src/libbpf.c) and bpf_load_program_xattr          *)
(* (bpf.c), the probes of libbpf_probes.c that use them, and                 *)
(* bpf_program__get_prog_info_linear.                                        *)
(*                                                                         *)
(* A program is [type, insns_cnt, log_level, kern_version, info, rec]: info  *)
(* has the func and line records, sequences of words, rec their sizes.  A    *)
(* kernel is [types, valid, rec, log, says, version]: the program types it   *)
(* knows, those for which it accepts the program, the record sizes it knows, *)
(* the length of its log, who writes there (a device's firmware or the       *)
(* verifier), the version a kprobe needs (0: any).  An answer is             *)
(* [ok, errno, attr]; attr.text is what log_buf holds.                       *)
(***************************************************************************)
EXTENDS Integers, Sequences, FiniteSets, SequencesExt

MAXINSNS == 8
LOG_BUF_SIZE == 2
NoBuf == [null |-> TRUE, size |-> 0, text |-> ""]
Infos == {"func", "line"}

(* External: BPF_PROG_LOAD.  Bytes of a record that the kernel does not know *)
(* must be zero; if not, it says how many it knows.  A log that does not fit *)
(* is an error of its own.                                                   *)
KernelLoad(k, a) ==
  LET Err(e) == [ok |-> FALSE, errno |-> e, attr |-> a]
      Long(w) == \E r \in ToSet(a.info[w]) : \E i \in k.rec[w] + 1 .. Len(r) : r[i] # 0
      accepted == a.type \in k.valid
  IN  CASE a.insns_cnt > MAXINSNS -> Err("E2BIG")
        [] a.type \notin k.types -> Err("EINVAL")
        [] a.type = "KPROBE" /\ k.version \notin {0, a.kern_version} -> Err("EINVAL")
        [] Long("func") -> [Err("E2BIG") EXCEPT !.attr.rec.func = k.rec.func]
        [] Long("line") -> [Err("E2BIG") EXCEPT !.attr.rec.line = k.rec.line]
        [] a.log_level > 0 /\ a.log_size < k.log -> [Err("ENOSPC") EXCEPT !.attr.text = k.says]
        [] ~accepted -> [Err("EACCES") EXCEPT !.attr.text = IF a.log_level > 0 THEN k.says ELSE @]
        [] OTHER -> [ok |-> TRUE, errno |-> "", attr |-> [a EXCEPT !.text = IF a.log_level > 0 THEN k.says ELSE @]]

(* Mutant: the bytes the kernel does not know are copied.                    *)
TailKept(recs, known) == recs
(* alloc_zero_tailing_info.                                                  *)
ZeroTail(recs, known) == [i \in DOMAIN recs |-> [w \in DOMAIN recs[i] |-> IF w <= known THEN recs[i][w] ELSE 0]]

(* The loop of bpf_load_program_xattr on E2BIG: the func records are         *)
(* corrected first, then the line records, each at most once.  mem: which of *)
(* the two copies can be allocated.                                          *)
RECURSIVE LoadCorrected(_, _, _, _, _)
LoadCorrected(k, load, r, mem, fixed) ==
  LET Short(w) == w \notin fixed /\ load.info[w] # <<>> /\ r.attr.rec[w] < load.rec[w]
      w == IF Short("func") THEN "func" ELSE "line"
      copy == [r.attr EXCEPT !.info[w] = ZeroTail(load.info[w], r.attr.rec[w]), !.rec[w] = load.rec[w]]
  IN  IF r.ok \/ r.errno # "E2BIG" \/ ~(Short("func") \/ Short("line")) THEN r
      ELSE IF w \notin mem THEN [r EXCEPT !.errno = "ENOMEM"]
      ELSE LoadCorrected(k, load, KernelLoad(k, copy), mem, fixed \cup {w})
(* bpf_load_program_xattr: a load without a log is repeated with one when    *)
(* there is a buffer, unless a copy could not be allocated.  EAGAIN never    *)
(* gets here (sys_bpf_prog_load).  A refused argument leaves errno alone.    *)
LoadProgramXattr(k, load, buf, mem) ==
  LET attr == [type |-> load.type, insns_cnt |-> load.insns_cnt, kern_version |-> load.kern_version, info |-> load.info,
               rec |-> load.rec, log_level |-> load.log_level, text |-> buf.text,
               log_size |-> IF load.log_level > 0 THEN buf.size ELSE 0]
      r == LoadCorrected(k, load, KernelLoad(k, attr), mem, {})
  IN  IF buf.null # (buf.size = 0) \/ load.log_level > 7 \/ (load.log_level > 0 /\ buf.null)
        THEN [ok |-> FALSE, errno |-> "unchanged", attr |-> attr]
      ELSE IF r.ok \/ r.errno = "ENOMEM" \/ load.log_level > 0 \/ buf.null THEN r
      ELSE KernelLoad(k, [r.attr EXCEPT !.log_level = 1, !.log_size = buf.size, !.text = ""])

(* load_program: a log buffer twice as large after ENOSPC.  m.max is the     *)
(* largest buffer malloc gives, m.junk what it holds; without a buffer the   *)
(* size is still passed on, which is refused.                                *)
RECURSIVE RetryLoad(_, _, _, _)
RetryLoad(k, prog, size, m) ==
  LET buf == [null |-> size > m.max, size |-> size, text |-> m.junk]
      r == LoadProgramXattr(k, prog, buf, m.mem)
  IN  IF buf.null THEN [r EXCEPT !.errno = "ENOMEM", !.attr.text = ""]
      ELSE IF ~r.ok /\ r.errno = "ENOSPC" THEN RetryLoad(k, prog, 2 * size, m)
      ELSE r
(* Then the reason: the log, also one that nobody wrote; the number of       *)
(* instructions; a type the kernel does not know, if a kprobe would load.    *)
LoadProgram(k, prog, m) ==
  LET r == RetryLoad(k, prog, LOG_BUF_SIZE, m)
      err == CASE r.ok -> ""
               [] r.attr.text # "" -> "VERIFY"
               [] prog.insns_cnt >= MAXINSNS -> "PROG2BIG"
               [] prog.type # "KPROBE" /\ LoadProgramXattr(k, [prog EXCEPT !.type = "KPROBE"], NoBuf, m.mem).ok -> "PROGTYPE"
               [] OTHER -> r.errno
  IN  [err |-> err, attr |-> r.attr]
-----------------------------------------------------------------------------
(* probe_load: two instructions; only a kprobe has a version, which is 0     *)
(* when uname's release has another form.                                    *)
ProbeLoad(k, type, buf, uname) ==
  LoadProgramXattr(k, [type |-> type, insns_cnt |-> 2, log_level |-> 0, kern_version |-> IF type = "KPROBE" THEN uname ELSE 0,
                       info |-> [w \in Infos |-> <<>>], rec |-> [w \in Infos |-> 0]], buf, {})
(* bpf_probe_prog_type looks at errno, which was 0, bpf_probe_helper at the  *)
(* log.  The program of the second calls the helper: k.valid says for which  *)
(* types it exists.  What a firmware says is understood only of the device's *)
(* vendor it looks for (get_vendor_id); dev is "none" without an ifindex.    *)
ProbeProgType(k, type, uname) == ProbeLoad(k, type, NoBuf, uname).errno \notin {"EINVAL", "EOPNOTSUPP"}
ProbeHelper(k, type, uname, dev) ==
  LET text == ProbeLoad(k, type, [null |-> FALSE, size |-> 4096, text |-> ""], uname).attr.text
  IN  text # "verifier" /\ (dev = "netronome" => text # "firmware")

(* bpf_probe_map_type: the shape of the map it tries; sk_storage needs BTF,  *)
(* a map of maps an inner map.                                               *)
Shape(key, value, entries, flags, btf, inner) ==
  [key |-> key, value |-> value, entries |-> entries, flags |-> flags, btf |-> btf, inner |-> inner]
ProbeShape(type) ==
  CASE type = "STACK_TRACE" -> Shape(4, 8, 1, {}, FALSE, FALSE)
    [] type = "LPM_TRIE" -> Shape(8, 8, 1, {"NO_PREALLOC"}, FALSE, FALSE)
    [] type = "CGROUP_STORAGE" -> Shape(16, 8, 0, {}, FALSE, FALSE)
    [] type \in {"QUEUE", "STACK"} -> Shape(0, 4, 1, {}, FALSE, FALSE)
    [] type = "SK_STORAGE" -> Shape(4, 8, 0, {"NO_PREALLOC"}, TRUE, FALSE)
    [] type = "ARRAY_OF_MAPS" -> Shape(4, 4, 1, {}, FALSE, TRUE)
    [] OTHER -> Shape(4, 4, 1, {}, FALSE, FALSE)
(* External: what map_alloc_check asks of a type.                            *)
KernelShape(type, s) ==
  CASE type = "STACK_TRACE" -> s.key = 4 /\ s.value >= 8 /\ s.value % 8 = 0 /\ s.entries > 0
    [] type = "LPM_TRIE" -> s.key > 4 /\ s.value > 0 /\ s.entries > 0 /\ "NO_PREALLOC" \in s.flags
    [] type = "CGROUP_STORAGE" -> s.key = 16 /\ s.value > 0 /\ s.entries = 0
    [] type \in {"QUEUE", "STACK"} -> s.key = 0 /\ s.value > 0 /\ s.entries > 0
    [] type = "SK_STORAGE" -> s.key = 4 /\ s.value > 0 /\ s.entries = 0 /\ "NO_PREALLOC" \in s.flags /\ s.btf
    [] type = "ARRAY_OF_MAPS" -> s.key = 4 /\ s.value = 4 /\ s.entries > 0 /\ s.inner
    [] OTHER -> s.key = 4 /\ s.value > 0 /\ s.entries > 0
(* The answer.  A failing step is "btf" or "inner"; a map of maps is never   *)
(* tried on a device.                                                        *)
ProbeMapType(maps, type, offload, fail) ==
  LET s == ProbeShape(type)
  IN  /\ ~(s.btf /\ fail = "btf") /\ ~(s.inner /\ (offload \/ fail = "inner"))
      /\ type \in maps /\ KernelShape(type, s)
-----------------------------------------------------------------------------
(* bpf_prog_info_array_desc: offsets in struct bpf_prog_info; a negative     *)
(* size is the size itself.                                                  *)
Desc(array, count, size) == [array |-> array, count |-> count, size |-> size]
ArrayDesc == <<Desc(24, 16, -1), Desc(32, 20, -1), Desc(56, 52, -4), Desc(112, 104, -8), Desc(120, 108, -4),
               Desc(136, 144, 132), Desc(152, 148, 172), Desc(160, 168, 176), Desc(184, 180, -8)>>
ArrayIds == 1 .. Len(ArrayDesc)

(* Step 1 to 4: the arrays whose fields the kernel's info_len covers, their  *)
(* dimensions, and where they go, one behind the other.  info has the count  *)
(* and the record size of each array.                                        *)
Included(arrays, info_len) ==
  {i \in arrays : LET d == ArrayDesc[i]
                  IN  info_len >= d.array + 4 /\ info_len >= d.count + 4 /\ (d.size > 0 => info_len >= d.size)}
CountOf(info, i) == IF ArrayDesc[i].count + 4 <= info.len THEN info.count[i] ELSE 0
SizeOf(info, i) == IF ArrayDesc[i].size < 0 THEN -ArrayDesc[i].size
                   ELSE IF ArrayDesc[i].size + 4 <= info.len THEN info.rec[i] ELSE 0
BytesBefore(info, arrays, i) ==
  FoldLeft(LAMBDA n, j : IF j \in arrays THEN n + CountOf(info, j) * SizeOf(info, j) ELSE n, 0, [j \in 1 .. i - 1 |-> j])
(* bpf_program__get_prog_info_linear at address base.  fail is the step that *)
(* fails, if any.  The second query may find fewer elements (again), which   *)
(* is only reported.                                                         *)
GetProgInfoLinear(info, again, arrays, base, fail) ==
  LET inc == Included(arrays, info.len)
      bytes == BytesBefore(info, inc, Len(ArrayDesc) + 1)
  IN  IF ~(arrays \subseteq ArrayIds) THEN [err |-> "EINVAL"]
      ELSE IF fail \in {"query", "again"} THEN [err |-> "EFAULT"]
      ELSE IF fail = "malloc" THEN [err |-> "ENOMEM"]
      ELSE [err |-> "", arrays |-> inc, data |-> base, data_len |-> ((bytes + 7) \div 8) * 8,
            at |-> [i \in inc |-> base + BytesBefore(info, inc, i)],
            count |-> [i \in inc |-> CountOf(again, i)], size |-> [i \in inc |-> SizeOf(info, i)]]
(* bpf_program__bpil_addr_to_offs and _offs_to_addr, at the present address  *)
(* of the data.                                                              *)
AddrToOffs(l) == [l EXCEPT !.at = [i \in l.arrays |-> @[i] - l.data]]
OffsToAddr(l) == [l EXCEPT !.at = [i \in l.arrays |-> @[i] + l.data]]
=============================================================================
