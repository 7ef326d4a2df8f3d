----------------------------- MODULE CoreReloc -----------------------------
(***************************************************************************)
(* CO-RE relocations (bpf_core in libbpf/src/libbpf.c): an instruction that   *)
(* holds the offset, size, ... of a field of a local type gets that of the   *)
(* field of the same name in the running kernel's type.                      *)
(*                                                                         *)
(* Types are those of Btf; a member also has its bitfield size bits, and of  *)
(* an INT kflag says that it is signed and index is its bit offset.  A       *)
(* specification is [acc, raw, off]: the accessors [id, idx, name] that are  *)
(* array indices (name "") or named fields, every index on the way, and the  *)
(* bit offset.  An access string is the sequence of its numbers.             *)
(***************************************************************************)
EXTENDS Btf, Functions

SpecMaxLen == 64
FieldBits(t, m) == IF t.kflag THEN m.bits ELSE 0

(* bpf_core_essential_name_len: a name without what follows its last ___.    *)
Flavors == [S___local |-> "S", S___2 |-> "S", E___2 |-> "E"]
EssentialName(name) == IF name \in DOMAIN Flavors THEN Flavors[name] ELSE name

RECURSIVE SkipMods(_, _)
SkipMods(types, id) ==
  LET t == TypeById(types, id) IN IF t.kind \in Mods \cup {"TYPEDEF"} THEN SkipMods(types, t.type) ELSE id

(* One more index of an access string; s is [err, acc, raw, off, id].        *)
ParseStep(types, s, idx) ==
  LET id == SkipMods(types, s.id)
      t == TypeById(types, id)
      m == t.elems[idx + 1]
      elem == SkipMods(types, t.type)
      size == ResolveSize(types, elem)
      raw == Append(s.raw, idx)
  IN  IF s.err # "" THEN s
      ELSE IF t.kind \in Composite THEN
        IF idx >= Len(t.elems) THEN [s EXCEPT !.err = "EINVAL"]
        ELSE [s EXCEPT !.off = @ + m.off, !.id = m.type, !.raw = raw,
                       !.acc = IF m.name = "" THEN @ ELSE Append(@, [id |-> id, idx |-> idx, name |-> m.name])]
      ELSE IF t.kind # "ARRAY" \/ idx >= t.nelems \/ IsError(size) THEN [s EXCEPT !.err = "EINVAL"]
      ELSE [s EXCEPT !.off = @ + idx * size.size * 8, !.id = elem, !.raw = raw,
                     !.acc = Append(@, [id |-> elem, idx |-> idx, name |-> ""])]
(* bpf_core_spec_parse.                                                      *)
SpecParse(types, type_id, access) ==
  LET id == SkipMods(types, type_id)
      size == ResolveSize(types, id)
      first == [err |-> "", acc |-> <<[id |-> id, idx |-> access[1], name |-> ""]>>,
                raw |-> <<access[1]>>, off |-> access[1] * size.size * 8, id |-> id]
  IN  IF access = <<>> THEN Error("EINVAL")
      ELSE IF Len(access) > SpecMaxLen THEN Error("E2BIG")
      ELSE IF IsError(size) THEN size
      ELSE LET s == FoldLeft(LAMBDA a, i : ParseStep(types, a, i), first, Tail(access))
           IN  IF s.err # "" THEN Error(s.err) ELSE [acc |-> s.acc, raw |-> s.raw, off |-> s.off]

(* bpf_core_find_cands.  The array is grown to len + 1 bytes and not to      *)
(* len + 1 ids; the smallest block of glibc's realloc has 24 bytes, and the  *)
(* id behind CandRoom is written behind the block.  What that does is        *)
(* undefined: the outcome "overrun" says that it was reached.                *)
CandRoom == 6
FindCands(local, type_id, targ) ==
  SelectSeq([i \in DOMAIN targ |-> i],
            LAMBDA i : targ[i].name # "" /\ EssentialName(targ[i].name) = EssentialName(local[type_id].name))

(* bpf_core_fields_are_compat.                                               *)
RECURSIVE FieldsAreCompat(_, _, _, _)
FieldsAreCompat(local, lid, targ, tid) ==
  LET l == TypeById(local, SkipMods(local, lid))
      t == TypeById(targ, SkipMods(targ, tid))
  IN  \/ l.kind \in Composite /\ t.kind \in Composite
      \/ /\ l.kind = t.kind
         /\ \/ l.kind = "PTR"
            \/ l.kind \in {"FWD", "ENUM"} /\ (l.name = "" \/ t.name = "" \/ EssentialName(l.name) = EssentialName(t.name))
            \/ l.kind = "INT" /\ l.index = 0 /\ t.index = 0
            \/ l.kind = "ARRAY" /\ FieldsAreCompat(local, l.type, targ, t.type)

(* bpf_core_match_member: res is "found", "no" or an error; a field of that  *)
(* name ends the search, compatible or not.                                  *)
RECURSIVE MatchMember(_, _, _, _, _)
MatchMember(local, acc, targ, targ_id, spec) ==
  LET id == SkipMods(targ, targ_id)
      t == TypeById(targ, id)
      lm == local[acc.id].elems[acc.idx + 1]
      Try(s, i) ==
        LET m == t.elems[i]
            here == [s.spec EXCEPT !.off = @ + m.off, !.raw = Append(@, i - 1)]
            deep == MatchMember(local, acc, targ, m.type, here)
        IN  IF s.res # "" THEN s
            ELSE IF Len(s.spec.raw) = SpecMaxLen THEN [s EXCEPT !.res = "E2BIG"]
            ELSE IF m.name = "" THEN
              IF deep.res # "no" THEN deep
              ELSE [s EXCEPT !.spec = [deep.spec EXCEPT !.off = @ - m.off, !.raw = Front(@)]]
            ELSE IF m.name # lm.name THEN s
            ELSE IF FieldsAreCompat(local, lm.type, targ, m.type) THEN
              [res |-> "found", next |-> m.type,
               spec |-> [here EXCEPT !.acc = Append(@, [id |-> id, idx |-> i - 1, name |-> m.name])]]
            ELSE [res |-> "no", next |-> m.type, spec |-> here]
      r == FoldLeft(Try, [res |-> "", next |-> 0, spec |-> spec], [i \in DOMAIN t.elems |-> i])
  IN  IF t.kind \notin Composite \/ r.res = "" THEN [r EXCEPT !.res = "no"] ELSE r

(* bpf_core_spec_match: [res, spec].                                         *)
SpecMatch(local, lspec, targ, cand) ==
  LET Step(s, i) ==
        LET acc == lspec.acc[i]
            id == SkipMods(targ, s.next)
            t == TypeById(targ, id)
            elem == IF i = 1 THEN id ELSE SkipMods(targ, t.type)
            size == ResolveSize(targ, elem)
        IN  IF s.res # "found" THEN s
            ELSE IF acc.name # "" THEN MatchMember(local, acc, targ, id, s.spec)
            ELSE IF i > 1 /\ (t.kind # "ARRAY" \/ acc.idx >= t.nelems) THEN [s EXCEPT !.res = "no"]
            ELSE IF Len(s.spec.raw) = SpecMaxLen THEN [s EXCEPT !.res = "E2BIG"]
            ELSE IF IsError(size) THEN [s EXCEPT !.res = size.err]
            ELSE [s EXCEPT !.next = elem,
                           !.spec = [acc |-> Append(@.acc, [id |-> elem, idx |-> acc.idx, name |-> ""]),
                                     raw |-> Append(@.raw, acc.idx), off |-> @.off + acc.idx * size.size * 8]]
  IN  FoldLeft(Step, [res |-> "found", next |-> cand, spec |-> [acc |-> <<>>, raw |-> <<>>, off |-> 0]],
               [i \in DOMAIN lspec.acc |-> i])

(* The smallest aligned integer, of size bytes or more, that holds a         *)
(* bitfield; size 0 if eight bytes do not.                                   *)
RECURSIVE LoadWindow(_, _, _)
LoadWindow(bit_off, bit_sz, size) ==
  LET off == ((bit_off \div 8) \div size) * size
  IN  IF bit_off + bit_sz - off * 8 <= size * 8 THEN [off |-> off, size |-> size]
      ELSE IF size >= 8 THEN [off |-> 0, size |-> 0] ELSE LoadWindow(bit_off, bit_sz, size * 2)

(* bpf_core_calc_field_relo: [val, validate] or an error.                    *)
CalcFieldRelo(types, kind, spec) ==
  LET acc == Last(spec.acc)
      t == TypeById(types, acc.id)
      m == t.elems[acc.idx + 1]
      mt == TypeById(types, SkipMods(types, m.type))
      size == ResolveSize(types, IF acc.name = "" THEN acc.id ELSE m.type)
      bitfield == FieldBits(t, m) > 0
      window == IF bitfield THEN LoadWindow(spec.off, FieldBits(t, m), mt.size)
                ELSE [off |-> spec.off \div 8, size |-> size.size]
      bit_sz == IF bitfield THEN FieldBits(t, m) ELSE window.size * 8
      Val(v, validate) == [val |-> v, validate |-> validate]
  IN  IF acc.name = "" THEN
        CASE kind = "BYTE_OFFSET" -> Val(spec.off \div 8, TRUE)
          [] kind = "BYTE_SIZE" -> IF IsError(size) THEN Error("EINVAL") ELSE Val(size.size, TRUE)
          [] OTHER -> Error("EINVAL")
      ELSE IF ~bitfield /\ IsError(size) THEN Error("EINVAL")
      ELSE IF window.size = 0 /\ bitfield THEN Error("E2BIG")
      ELSE CASE kind = "BYTE_OFFSET" -> Val(window.off, ~bitfield)
             [] kind = "BYTE_SIZE" -> Val(window.size, ~bitfield)
             [] kind = "SIGNED" -> Val(IF mt.kind = "ENUM" \/ mt.kflag THEN 1 ELSE 0, TRUE)
             [] kind = "LSHIFT_U64" -> Val(64 - (spec.off + bit_sz - window.off * 8), ~bitfield)
             [] kind = "RSHIFT_U64" -> Val(64 - bit_sz, TRUE)
             [] OTHER -> Error("EINVAL")

None == [acc |-> <<>>]
(* bpf_core_reloc_insn: insn is [alu, imm].  The new instruction, or an      *)
(* error; without a target the value is -1.                                  *)
RelocInsn(local, targ, relo, lspec, tspec, insn) ==
  LET exists == [val |-> IF tspec = None THEN 0 ELSE 1]
      orig == CalcFieldRelo(local, relo.kind, lspec)
      new == CalcFieldRelo(targ, relo.kind, tspec)
      Patch(val) == IF insn.alu THEN [insn EXCEPT !.imm = val] ELSE Error("EINVAL")
  IN  IF relo.kind = "EXISTS" THEN IF insn.imm # 1 THEN Error("EINVAL") ELSE Patch(exists.val)
      ELSE IF tspec = None THEN Patch(-1)
      ELSE IF IsError(orig) THEN orig ELSE IF IsError(new) THEN new
      ELSE IF orig.validate /\ insn.imm # orig.val THEN Error("EINVAL")
      ELSE Patch(new.val)

(* Mutant: the candidates that did not match stay in the list.               *)
KeepAll(cands, matched) == cands
(* What is left of the candidates for the relocations that follow.           *)
Prune(cands, matched) == IF matched = <<>> THEN cands ELSE matched

(* bpf_core_reloc_field, of the program prog: s is [err, insns, cache], with *)
(* the instructions of every program; cache holds the candidates of local    *)
(* types, for all programs.                                                  *)
RelocField(s, prog, relo, local, targ, relaxed) ==
  LET lspec == SpecParse(local, relo.type_id, relo.access)
      cached == relo.type_id \in DOMAIN s.cache
      cands == IF cached THEN s.cache[relo.type_id] ELSE FindCands(local, relo.type_id, targ)
      Match(a, cand) ==
        LET m == SpecMatch(local, lspec, targ, cand)
        IN  IF a.err # "" \/ m.res = "no" THEN a
            ELSE IF m.res # "found" THEN [a EXCEPT !.err = m.res]
            ELSE IF a.ids # <<>> /\ m.spec.off # a.spec.off THEN [a EXCEPT !.err = "EINVAL"]
            ELSE [err |-> "", ids |-> Append(a.ids, m.spec.acc[1].id), spec |-> IF a.ids = <<>> THEN m.spec ELSE a.spec]
      r == FoldLeft(Match, [err |-> "", ids |-> <<>>, spec |-> None], cands)
      insn == RelocInsn(local, targ, relo, lspec, r.spec, s.insns[prog][relo.insn])
      after == [s EXCEPT !.cache = (relo.type_id :> Prune(cands, r.ids)) @@ @]
  IN  IF s.err # "" THEN s
      ELSE IF TypeById(local, relo.type_id) = Null \/ local[relo.type_id].name = "" \/ IsError(lspec)
        THEN [s EXCEPT !.err = "EINVAL"]
      ELSE IF ~cached /\ Len(cands) > CandRoom THEN [s EXCEPT !.err = "overrun"]
      ELSE IF r.err # "" THEN [s EXCEPT !.err = r.err]
      ELSE IF r.ids = <<>> /\ ~relaxed /\ relo.kind # "EXISTS" THEN [s EXCEPT !.err = "ESRCH"]
      ELSE IF IsError(insn) THEN [after EXCEPT !.err = "EINVAL"]
      ELSE [after EXCEPT !.insns[prog][relo.insn] = insn]

(* btf_load_raw: a file of which all can be read.                            *)
LoadRaw(f) == IF f.stat /\ f.open /\ f.whole THEN f.types ELSE <<>>
(* bpf_core_find_kernel_btf: the first place with type information that can  *)
(* be read; the first place holds it raw, the others in an ELF file.         *)
FindKernelBtf(places) ==
  LET Load(i) == IF i = 1 THEN LoadRaw(places[i]) ELSE places[i].types
      at == SelectInSeq([i \in DOMAIN places |-> i], LAMBDA i : places[i].access /\ Load(i) # <<>>)
  IN  IF at = 0 THEN <<>> ELSE Load(at)

(* bpf_core_reloc_fields: secs are the sections [title, relos] of            *)
(* field_reloc_info, insns the programs by their titles.  The target's types *)
(* come from the file of targ_btf_path if there is one, else from the        *)
(* kernel's places.                                                          *)
RelocSec(s, sec, local, targ, relaxed) ==
  IF s.err # "" THEN s
  ELSE IF sec.title \notin DOMAIN s.insns THEN [s EXCEPT !.err = "EINVAL"]
  ELSE FoldLeft(LAMBDA a, r : RelocField(a, sec.title, r, local, targ, relaxed), s, sec.relos)
RelocFields(insns, secs, local, path, places, relaxed) ==
  LET targ == IF path # Null THEN path.types ELSE FindKernelBtf(places)
      new == [err |-> "", insns |-> insns, cache |-> <<>>]
  IN  IF targ = <<>> THEN [new EXCEPT !.err = IF path # Null THEN "ENOENT" ELSE "ESRCH"]
      ELSE FoldLeft(LAMBDA s, sec : RelocSec(s, sec, local, targ, relaxed), new, secs)
=============================================================================
