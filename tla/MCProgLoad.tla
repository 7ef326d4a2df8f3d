----------------------------- MODULE MCProgLoad -----------------------------
(* Programs and kernels for ProgLoad, and what must be true of the answers.  *)
EXTENDS ProgLoad

Rec(n) == [w \in 1 .. n |-> w]
LoadCases ==
  [what : {"load"},
   prog : [type : {"XDP", "KPROBE"}, insns_cnt : {1, MAXINSNS, MAXINSNS + 1}, log_level : {0, 1}, kern_version : {1},
           info : {[func |-> <<>>, line |-> <<>>], [func |-> <<Rec(3), Rec(3)>>, line |-> <<>>],
                   [func |-> <<Rec(3), Rec(3)>>, line |-> <<Rec(3)>>]},
           rec : {[func |-> 3, line |-> 3]}],
   k : [types : {{"XDP"}, {"XDP", "KPROBE"}, {"KPROBE"}}, valid : SUBSET {"XDP", "KPROBE"},
        rec : [Infos -> {1, 3}], log : {1, 5}, says : {"verifier"}, version : {0}],
   m : [max : {0, 2, 64}, junk : {"", "junk"}, mem : {{}, {"func"}, Infos}]]
ProbeCases ==
  [what : {"probe"}, type : {"XDP", "KPROBE"}, uname : {0, 1}, dev : {"none", "netronome", "other"},
   k : [types : SUBSET {"XDP", "KPROBE"}, valid : SUBSET {"XDP", "KPROBE"}, rec : {[func |-> 1, line |-> 1]},
        log : {1}, says : {"verifier", "firmware"}, version : {0, 1}]]
MapTypes == {"HASH", "STACK_TRACE", "LPM_TRIE", "CGROUP_STORAGE", "QUEUE", "STACK", "SK_STORAGE", "ARRAY_OF_MAPS"}
MapCases == [what : {"map"}, maps : {{}, MapTypes}, type : MapTypes, offload : BOOLEAN, fail : {"none", "btf", "inner"}]
(* The sizes struct bpf_prog_info had in released kernels.                   *)
InfoCases ==
  [what : {"info"}, len : {40, 80, 104, 128, 152, 184, 192, 208}, count : {0, 3}, hidden : BOOLEAN,
   arrays : {ArrayIds} \cup {ArrayIds \ {i} : i \in ArrayIds} \cup {{i} : i \in ArrayIds}, fail : {"none"}]
    \cup [what : {"info"}, len : {80, 208}, count : {3}, hidden : BOOLEAN, arrays : {ArrayIds, ArrayIds \cup {Len(ArrayDesc) + 1}},
           fail : {"none", "query", "malloc", "again"}]
ProgCases == LoadCases \cup ProbeCases \cup MapCases \cup InfoCases

(* A program is loaded if and only if the kernel would take it, whatever it  *)
(* knows of the records, unless memory is short; it then has what the kernel *)
(* knows of them unchanged.  With a log of our own the reason is the true    *)
(* one, for a program of exactly MAXINSNS instructions excepted.             *)
LoadRight(c) ==
  LET r == LoadProgram(c.k, c.prog, c.m)
      good == c.prog.insns_cnt <= MAXINSNS /\ c.prog.type \in c.k.types \cap c.k.valid
      Needs(w) == c.prog.info[w] # <<>> /\ c.k.rec[w] < 3
      memory == c.m.max = 64 /\ {w \in Infos : Needs(w)} \subseteq c.m.mem
      kprobe == c.prog.type # "KPROBE" /\ "KPROBE" \in c.k.types \cap c.k.valid
  IN  /\ r.err = "" => good /\ \A w \in Infos : ZeroTail(r.attr.info[w], c.k.rec[w]) = ZeroTail(c.prog.info[w], c.k.rec[w])
      /\ memory /\ good => r.err = ""
      /\ memory /\ ~good /\ c.prog.log_level = 0 /\ c.prog.insns_cnt # MAXINSNS =>
           r.err = CASE c.prog.insns_cnt > MAXINSNS -> "PROG2BIG"
                     [] c.prog.type \in c.k.types -> "VERIFY"
                     [] OTHER -> IF kprobe THEN "PROGTYPE" ELSE "EINVAL"

(* A probe says yes to what the kernel has; it says no to a type that is not *)
(* there, and to a helper that a type which is there does not have, unless   *)
(* the firmware of a vendor that is not looked for refuses it.               *)
ProbeRight(c) ==
  LET known == c.type \in c.k.types /\ (c.type = "KPROBE" => c.k.version \in {0, c.uname})
  IN  /\ ProbeProgType(c.k, c.type, c.uname) = known
      /\ known /\ (c.k.says = "firmware" => c.dev = "netronome") =>
           ProbeHelper(c.k, c.type, c.uname, c.dev) = (c.type \in c.k.valid)
(* A map probe says yes exactly to a type the kernel has, unless it could    *)
(* not prepare it.                                                           *)
MapRight(c) ==
  LET prepared == /\ c.type = "SK_STORAGE" => c.fail # "btf"
                  /\ c.type = "ARRAY_OF_MAPS" => c.fail # "inner" /\ ~c.offload
  IN  ProbeMapType(c.maps, c.type, c.offload, c.fail) = (c.type \in c.maps /\ prepared)

(* Nothing is returned for an array that does not exist or when a step       *)
(* fails.  Otherwise every array that was asked for and that the kernel      *)
(* knows is there, inside the data, and no two overlap; the arrays are found *)
(* again after the data was saved and loaded elsewhere.                      *)
InfoRight(c) ==
  LET info == [len |-> c.len, count |-> [i \in ArrayIds |-> c.count * i], rec |-> [i \in ArrayIds |-> 8]]
      again == IF c.hidden THEN [info EXCEPT !.count = [i \in ArrayIds |-> IF i \in {1, 4, 5, 8} THEN 0 ELSE @[i]]] ELSE info
      l == GetProgInfoLinear(info, again, c.arrays, 1000, c.fail)
      Knows(i) == LET d == ArrayDesc[i] IN d.array + 8 <= c.len /\ d.count + 4 <= c.len /\ (d.size > 0 => d.size + 4 <= c.len)
      End(i) == l.at[i] + l.count[i] * l.size[i]
      elsewhere == OffsToAddr([AddrToOffs(l) EXCEPT !.data = 5000])
  IN  /\ l.err = "" <=> c.fail = "none" /\ c.arrays \subseteq ArrayIds
      /\ l.err = "" =>
           /\ l.arrays = {i \in c.arrays : Knows(i)}
           /\ \A i \in l.arrays : l.data <= l.at[i] /\ End(i) <= l.data + l.data_len
           /\ \A i, j \in l.arrays : i < j => End(i) <= l.at[j]
           /\ \A i \in l.arrays : elsewhere.at[i] - 5000 = l.at[i] - 1000

ProgRight(c) ==
  CASE c.what = "load" -> LoadRight(c) [] c.what = "probe" -> ProbeRight(c)
    [] c.what = "map" -> MapRight(c) [] OTHER -> InfoRight(c)
=============================================================================
