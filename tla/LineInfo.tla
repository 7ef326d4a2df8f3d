------------------------------ MODULE LineInfo ------------------------------
(***************************************************************************)
(* bpf_prog_linfo.c: which source line an instruction of a loaded program    *)
(* comes from.  A record of line information is its number; linfo holds the  *)
(* instruction each begins at, jited the address of its machine code.        *)
(***************************************************************************)
EXTENDS Naturals, Sequences

(* dissect_jited_func after record i: function f is looked for next.  Only   *)
(* lines before the last function are compared with their predecessor.       *)
RECURSIVE Dissect(_, _, _)
Dissect(info, i, s) ==
  LET jited == info.jited
      ksyms == info.ksyms
      found == ksyms[s.f] = jited[i]
  IN  IF s.err \/ i > Len(jited) \/ s.f > Len(ksyms) THEN s
      ELSE IF found THEN
        Dissect(info, i + 1,
          [err |-> jited[i - 1] + 1 > info.lens[s.f - 1] + ksyms[s.f - 1] \/ jited[i - 1] + 1 < ksyms[s.f - 1],
           f |-> s.f + 1, prev |-> i, idx |-> Append(s.idx, i), nr |-> Append(s.nr, i - s.prev)])
      ELSE Dissect(info, i + 1, [s EXCEPT !.err = jited[i] <= jited[i - 1]])
DissectJitedFunc(info) ==
  LET s == Dissect(info, 2, [err |-> info.ksyms[1] # info.jited[1], f |-> 2, prev |-> 1, idx |-> <<1>>, nr |-> <<>>])
  IN  IF s.err \/ s.f # Len(info.ksyms) + 1 THEN [err |-> TRUE, idx |-> <<>>, nr |-> <<>>]
      ELSE [err |-> FALSE, idx |-> s.idx, nr |-> Append(s.nr, Len(info.jited) + 1 - s.prev)]

(* bpf_prog_linfo__new: records too short for the instruction, a malloc that *)
(* fails and wrong information leave nothing; without matching information   *)
(* about the machine code, or with records too short for its addresses,      *)
(* there are no functions.                                                   *)
NoLinfo == [linfo |-> <<>>, jited |-> <<>>, idx |-> <<>>, nr |-> <<>>]
LinfoNew(info) ==
  LET plain == [NoLinfo EXCEPT !.linfo = info.linfo]
      jit == DissectJitedFunc(info)
  IN  IF info.linfo = <<>> \/ info.rec_size < 4 \/ info.fail = "linfo" THEN NoLinfo
      ELSE IF info.ksyms = <<>> \/ Len(info.jited) # Len(info.linfo) \/ info.jited_rec_size < 8
                \/ Len(info.lens) # Len(info.ksyms) THEN plain
      ELSE IF info.fail = "jited" \/ jit.err THEN NoLinfo
      ELSE [linfo |-> info.linfo, jited |-> info.jited, idx |-> jit.idx, nr |-> jit.nr]

(* The number of records from start on, at most n, up to the first that      *)
(* begins behind at.                                                         *)
RECURSIVE Walk(_, _, _, _)
Walk(starts, start, n, at) ==
  IF n = 0 \/ at < starts[start] THEN start ELSE Walk(starts, start + 1, n - 1, at)
(* bpf_prog_linfo__lfind_addr_func and bpf_prog_linfo__lfind: a record, 0 if *)
(* there is none.                                                            *)
LfindAddrFunc(pl, addr, func_idx, nr_skip) ==
  IF func_idx > Len(pl.idx) \/ nr_skip >= pl.nr[func_idx] THEN 0
  ELSE LET start == pl.idx[func_idx] + nr_skip
       IN  IF addr < pl.jited[start] THEN 0 ELSE Walk(pl.jited, start, pl.nr[func_idx] - nr_skip, addr) - 1
Lfind(pl, insn_off, nr_skip) ==
  IF nr_skip >= Len(pl.linfo) \/ insn_off < pl.linfo[nr_skip + 1] THEN 0
  ELSE Walk(pl.linfo, nr_skip + 1, Len(pl.linfo) - nr_skip, insn_off) - 1
=============================================================================
