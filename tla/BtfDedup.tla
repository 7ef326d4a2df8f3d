------------------------------ MODULE BtfDedup ------------------------------
(***************************************************************************)
(* btf__dedup (libbpf/src/btf.c): one descriptor for each C type of several  *)
(* compilation units whose type information was concatenated.                *)
(*                                                                         *)
(* The state of a run is                                                     *)
(*   types    the types, void not listed                                     *)
(*   map      for each id the id it stands for, Unprocessed or InProgress    *)
(*   table    candidates [h, id] in the order a chain of the hash map shows  *)
(*            them                                                           *)
(*   hypot    the hypothetical mapping, hlist the ids in it in order         *)
(*   dont     dont_resolve_fwds; collide: all signatures have one hash       *)
(* A hash is the tuple that is hashed: without collide two different tuples  *)
(* never share one.                                                          *)
(***************************************************************************)
EXTENDS Btf

Unprocessed == -1
InProgress == -2
Mapped(d, id) == d.map[id] >= 0
TypeOf(d, id) == TypeById(d.types, id)
Ids(d) == [i \in DOMAIN d.types |-> i]

(* btf_dedup_new.                                                            *)
DedupNew(types, dont, collide) ==
  [types |-> types, dont |-> dont, collide |-> collide, table |-> <<>>, hlist |-> <<>>,
   map |-> [i \in 0 .. Len(types) |->
              IF i = 0 THEN 0 ELSE IF types[i].kind \in {"VAR", "DATASEC"} THEN i ELSE Unprocessed],
   hypot |-> [i \in 0 .. Len(types) |-> Unprocessed]]

(* btf_dedup_table_add: an append to the hash map; growing turns the chains  *)
(* round.                                                                    *)
TableCap(sz) == IF sz = 0 THEN 0 ELSE CHOOSE c \in {4, 8, 16, 32} : (sz * 4) \div 3 <= c /\
                                        \A b \in {4, 8, 16, 32} : (sz * 4) \div 3 <= b => c <= b
TableAdd(d, h, id) ==
  LET n == Len(d.table)
      old == IF TableCap(n + 1) # TableCap(n) THEN Reverse(d.table) ELSE d.table
  IN  [d EXCEPT !.table = <<[h |-> h, id |-> id]>> \o old]
Candidates(d, h) == SelectSeq(d.table, LAMBDA e : e.h = h)

(* Signatures and comparisons.  type and size share a word.                  *)
Info(t) == <<t.kind, t.kflag, Len(t.elems)>>
Common(t) == <<t.name, Info(t), t.size, t.type>>
NamesAndOffsets(t) == [i \in DOMAIN t.elems |-> <<t.elems[i].name, t.elems[i].off>>]
NamesAndTypes(t) == [i \in DOMAIN t.elems |-> <<t.elems[i].name, t.elems[i].type>>]
HashCommon(t) == <<Common(t), <<>>>>
HashInt(t) == <<Common(t), <<t.nelems>>>>
HashEnum(t) == <<Common([t EXCEPT !.elems = <<>>]), <<>>>>
HashStruct(t) == <<Common(t), NamesAndOffsets(t)>>
HashArray(t) == <<Common(t), <<t.type, t.index, t.nelems>>>>
HashFnproto(t) == <<Common(t), NamesAndTypes(t)>>
Hash(d, sig) == IF d.collide THEN <<>> ELSE sig
EqualCommon(a, b) == Common(a) = Common(b)
EqualInt(a, b) == EqualCommon(a, b) /\ a.nelems = b.nelems
EqualEnum(a, b) == EqualCommon(a, b) /\ NamesAndOffsets(a) = NamesAndOffsets(b)
EnumFwd(t) == t.kind = "ENUM" /\ t.elems = <<>>
CompatEnum(a, b) == IF EnumFwd(a) \/ EnumFwd(b) THEN HashEnum(a) = HashEnum(b) ELSE EqualEnum(a, b)
ShallowEqualStruct(a, b) == EqualCommon(a, b) /\ NamesAndOffsets(a) = NamesAndOffsets(b)
(* btf_array keeps its element type outside the common word.                 *)
EqualArray(a, b) == a.kind = b.kind /\ HashArray(a) = HashArray(b)
CompatArray(a, b) == a.kind = b.kind /\ a.nelems = b.nelems
EqualFnproto(a, b) == HashFnproto(a) = HashFnproto(b)
CompatFnproto(a, b) ==
  a.name = b.name /\ Info(a) = Info(b)
    /\ [i \in DOMAIN a.elems |-> a.elems[i].name] = [i \in DOMAIN b.elems |-> b.elems[i].name]

(* The first candidate that passes the test, or the type itself.             *)
FirstOr(d, cands, id, Test(_)) ==
  LET i == SelectInSeq(cands, LAMBDA e : Test(TypeOf(d, e.id)))
  IN  IF i = 0 THEN id ELSE cands[i].id
SetCanonical(d, h, id, new) ==
  LET e == [d EXCEPT !.map[id] = new] IN IF id = new THEN TableAdd(e, h, id) ELSE e

(* btf_dedup_prim_type.  A full enum replaces every forward declaration of   *)
(* it met before an equal enum is.                                           *)
DedupEnum(d, id) ==
  LET t == d.types[id]
      cands == Candidates(d, Hash(d, HashEnum(t)))
      Stops(c) == EqualEnum(t, c) \/ (~d.dont /\ CompatEnum(t, c) /\ EnumFwd(t))
      end == SelectInSeq(cands, LAMBDA e : Stops(TypeOf(d, e.id)))
      passed == ToSet(IF end = 0 THEN cands ELSE SubSeq(cands, 1, end - 1))
      fwds == {e.id : e \in {x \in passed : ~d.dont /\ CompatEnum(t, TypeOf(d, x.id))}}
      linked == [d EXCEPT !.map = [i \in DOMAIN @ |-> IF i \in fwds THEN id ELSE @[i]]]
  IN  SetCanonical(linked, Hash(d, HashEnum(t)), id, IF end = 0 THEN id ELSE cands[end].id)
DedupPrimType(d, id) ==
  LET t == d.types[id]
      hi == Hash(d, HashInt(t))
      hf == Hash(d, HashCommon(t))
  IN  CASE t.kind = "INT" -> SetCanonical(d, hi, id, FirstOr(d, Candidates(d, hi), id, LAMBDA c : EqualInt(t, c)))
        [] t.kind = "ENUM" -> DedupEnum(d, id)
        [] t.kind = "FWD" -> SetCanonical(d, hf, id, FirstOr(d, Candidates(d, hf), id, LAMBDA c : EqualCommon(t, c)))
        [] OTHER -> d
RECURSIVE DedupPrimTypes(_, _)
DedupPrimTypes(d, i) == IF i > Len(d.types) THEN d ELSE DedupPrimTypes(DedupPrimType(d, i), i + 1)

(* resolve_type_id follows the map; Loop if it would go on for ever.         *)
Loop == -3
RECURSIVE FollowMap(_, _, _)
FollowMap(d, id, steps) ==
  IF ~Mapped(d, id) \/ d.map[id] = id THEN id
  ELSE IF steps = 0 THEN Loop ELSE FollowMap(d, d.map[id], steps - 1)
ResolveTypeId(d, id) == FollowMap(d, id, Len(d.types))
ResolveFwdId(d, id) ==
  LET r == ResolveTypeId(d, id)
  IN  IF TypeOf(d, id).kind # "FWD" \/ TypeOf(d, r).kind = "FWD" THEN id ELSE r
FwdKind(t) == IF t.kflag THEN "UNION" ELSE "STRUCT"

(* Mutant: a type met before counts as equivalent.                           *)
MetIsEnough(d, cand_id, canon_id) == TRUE
(* A type of the canonical graph stands for one type of the candidate's.     *)
SamePartner(d, cand_id, canon_id) == d.hypot[canon_id] = cand_id

(* btf_dedup_is_equiv: d with the hypothetical mapping, and whether the      *)
(* graphs of cand and canon are equivalent.  EquivAll goes through pairs     *)
(* until two types are not.                                                  *)
RECURSIVE IsEquiv(_, _, _)
EquivAll(d, pairs) ==
  FoldLeft(LAMBDA s, p : IF s.eq THEN IsEquiv(s.d, p[1], p[2]) ELSE s, [d |-> d, eq |-> TRUE], pairs)
ElemPairs(a, b) == [i \in DOMAIN a.elems |-> <<a.elems[i].type, b.elems[i].type>>]
IsEquiv(d, cand_id, canon_id0) ==
  LET canon_id == ResolveFwdId(d, canon_id0)
      e == [d EXCEPT !.hypot[canon_id] = cand_id, !.hlist = Append(@, canon_id)]
      cand == TypeOf(d, cand_id)
      canon == TypeOf(d, canon_id)
      Is(b) == [d |-> e, eq |-> b]
      Both(ok, pairs) == IF ok THEN EquivAll(e, pairs) ELSE Is(FALSE)
  IN  IF ResolveTypeId(d, cand_id) = ResolveTypeId(d, canon_id0) THEN [d |-> d, eq |-> TRUE]
      ELSE IF d.hypot[canon_id] # Unprocessed THEN [d |-> d, eq |-> SamePartner(d, cand_id, canon_id)]
      ELSE IF cand.name # canon.name THEN Is(FALSE)
      ELSE IF ~d.dont /\ cand.kind # canon.kind /\ "FWD" \in {cand.kind, canon.kind}
        THEN Is(IF cand.kind = "FWD" THEN FwdKind(cand) = canon.kind ELSE FwdKind(canon) = cand.kind)
      ELSE IF cand.kind # canon.kind THEN Is(FALSE)
      ELSE CASE cand.kind = "INT" -> Is(EqualInt(cand, canon))
             [] cand.kind = "ENUM" -> Is(IF d.dont THEN EqualEnum(cand, canon) ELSE CompatEnum(cand, canon))
             [] cand.kind = "FWD" -> Is(EqualCommon(cand, canon))
             [] cand.kind \in Mods \cup {"PTR", "TYPEDEF", "FUNC"} ->
                  Both(Info(cand) = Info(canon), <<<<cand.type, canon.type>>>>)
             [] cand.kind = "ARRAY" ->
                  Both(CompatArray(cand, canon), <<<<cand.index, canon.index>>, <<cand.type, canon.type>>>>)
             [] cand.kind \in Composite -> Both(ShallowEqualStruct(cand, canon), ElemPairs(cand, canon))
             [] cand.kind = "FUNC_PROTO" ->
                  Both(CompatFnproto(cand, canon), <<<<cand.type, canon.type>>>> \o ElemPairs(cand, canon))

(* btf_dedup_merge_hypot_map: forward declarations of both graphs are        *)
(* resolved, and structs of the candidate whose partner is canonical.        *)
MergeHypotMap(d0) ==
  LET Step(d, x) ==
        LET t_id == ResolveTypeId(d, d.hypot[x])
            c_id == ResolveTypeId(d, x)
            t_kind == TypeOf(d, t_id).kind
            c_kind == TypeOf(d, c_id).kind
            fwd == IF t_kind # "FWD" /\ c_kind = "FWD" THEN [d EXCEPT !.map[c_id] = t_id]
                   ELSE IF t_kind = "FWD" /\ c_kind # "FWD" THEN [d EXCEPT !.map[t_id] = c_id] ELSE d
        IN  IF t_kind \in Composite /\ c_kind # "FWD" /\ Mapped(fwd, c_id) /\ ~Mapped(fwd, t_id)
              THEN [fwd EXCEPT !.map[t_id] = c_id] ELSE fwd
  IN  FoldLeft(Step, d0, d0.hlist)

(* btf_dedup_struct_type: the first candidate with an equivalent graph.      *)
ClearHypotMap(d) == [d EXCEPT !.hypot = [i \in DOMAIN @ |-> Unprocessed], !.hlist = <<>>]
DedupStructType(d0, id) ==
  LET t == d0.types[id]
      h == Hash(d0, HashStruct(t))
      Try(s, c) ==
        IF s.new # id \/ ~ShallowEqualStruct(t, TypeOf(s.d, c.id)) THEN s
        ELSE LET r == IsEquiv(ClearHypotMap(s.d), id, c.id)
             IN  IF r.eq THEN [d |-> MergeHypotMap(r.d), new |-> c.id] ELSE [s EXCEPT !.d = r.d]
      found == FoldLeft(Try, [d |-> d0, new |-> id], Candidates(d0, h))
  IN  IF Mapped(d0, id) \/ t.kind \notin Composite THEN d0 ELSE SetCanonical(found.d, h, id, found.new)
RECURSIVE DedupStructTypes(_, _)
DedupStructTypes(d, i) == IF i > Len(d.types) THEN d ELSE DedupStructTypes(DedupStructType(d, i), i + 1)

(* btf_dedup_ref_type: the types it refers to first, then itself.  s is      *)
(* [d, id]; id is the canonical type, or an error.                           *)
ELOOP == -40
EINVAL == -22
RECURSIVE DedupRefType(_, _)
(* elems of a FUNC_PROTO, replaced one by one.                               *)
DedupParams(s0, id) ==
  FoldLeft(LAMBDA s, i : IF s.id < 0 THEN s
                         ELSE LET r == DedupRefType(s.d, s.d.types[id].elems[i].type)
                              IN  IF r.id < 0 THEN r ELSE [r EXCEPT !.d.types[id].elems[i].type = r.id],
           s0, [i \in DOMAIN s0.d.types[id].elems |-> i])
DedupRefType(d, id) ==
  LET t == d.types[id]
      busy == [d EXCEPT !.map[id] = InProgress]
      first == DedupRefType(busy, t.type)
      typed == [first EXCEPT !.d.types[id].type = first.id]
      second == IF t.kind = "ARRAY" THEN DedupRefType(typed.d, t.index) ELSE DedupParams(typed, id)
      all == IF first.id < 0 THEN first
             ELSE IF t.kind = "ARRAY" /\ second.id >= 0 THEN [second EXCEPT !.d.types[id].index = second.id]
             ELSE second
      u == all.d.types[id]
      h == Hash(d, CASE t.kind = "ARRAY" -> HashArray(u) [] t.kind = "FUNC_PROTO" -> HashFnproto(u)
                     [] OTHER -> HashCommon(u))
      Equal(c) == CASE t.kind = "ARRAY" -> EqualArray(u, c) [] t.kind = "FUNC_PROTO" -> EqualFnproto(u, c)
                    [] OTHER -> EqualCommon(u, c)
      new == FirstOr(all.d, Candidates(all.d, h), id, Equal)
  IN  IF d.map[id] = InProgress THEN [d |-> d, id |-> ELOOP]
      ELSE IF Mapped(d, id) THEN [d |-> d, id |-> ResolveTypeId(d, id)]
      ELSE IF t.kind \notin Mods \cup {"PTR", "TYPEDEF", "FUNC", "ARRAY", "FUNC_PROTO"} THEN [d |-> busy, id |-> EINVAL]
      ELSE IF all.id < 0 THEN all
      ELSE [d |-> SetCanonical(all.d, h, id, new), id |-> new]
RECURSIVE DedupRefTypes(_, _)
DedupRefTypes(s, i) ==
  IF s.id < 0 \/ i > Len(s.d.types) THEN s ELSE DedupRefTypes(DedupRefType(s.d, i), i + 1)

(* btf_dedup_compact_types: the new ids of the canonical types.              *)
CompactTypes(d) == SelectSeq(Ids(d), LAMBDA i : d.map[i] = i)
(* btf_dedup_remap_type_id, -22 for a type that has none.                    *)
RemapTypeId(d, kept, id) ==
  LET r == ResolveTypeId(d, id)
  IN  IF r = 0 THEN 0 ELSE IF r > 0 /\ Contains(kept, r) THEN SelectInSeq(kept, LAMBDA k : k = r) ELSE EINVAL
(* btf_dedup_remap_type.                                                     *)
RemapType(d, kept, t) ==
  [t EXCEPT !.type = RemapTypeId(d, kept, @), !.index = RemapTypeId(d, kept, @),
            !.elems = [i \in DOMAIN @ |-> [@[i] EXCEPT !.type = RemapTypeId(d, kept, @)]]]
RemapTypes(d, kept) == [n \in DOMAIN kept |-> RemapType(d, kept, d.types[kept[n]])]

(* btf_dedup_strings.  strs is the string section; content n stands for a    *)
(* string of n bytes and is before n + 1 in strcmp's order.  refs are the    *)
(* offsets btf_for_each_str_off visits, those of the types and of the line   *)
(* information; only one where a string begins can be found again.  ext are  *)
(* the offsets in .BTF.ext's func_info and field_reloc, which are neither    *)
(* marked as used nor rewritten.                                             *)
StrOff(strs, i) == FoldLeft(LAMBDA a, s : a + s + 1, 0, SubSeq(strs, 1, i - 1))
StrAt(strs, off) == SelectInSeq([i \in DOMAIN strs |-> StrOff(strs, i)], LAMBDA o : o = off)
DedupStrings(strs, refs, ext) ==
  LET used == {strs[1]} \cup {strs[i] : i \in {j \in DOMAIN strs : Contains(refs, StrOff(strs, j))}}
      new == SetToSortSeq(used, <)
      NewOff(off) == IF off = 0 THEN 0
                     ELSE StrOff(new, SelectInSeq(new, LAMBDA s : s = strs[StrAt(strs, off)]))
  IN  IF \E off \in ToSet(refs) : off # 0 /\ StrAt(strs, off) = 0 THEN Error("EINVAL")
      ELSE [strs |-> new, refs |-> [i \in DOMAIN refs |-> NewOff(refs[i])], ext |-> ext]

(* btf__dedup, after the strings.                                            *)
Dedup(types, dont, collide) ==
  LET prims == DedupPrimTypes(DedupNew(types, dont, collide), 1)
      structs == DedupStructTypes(prims, 1)
      s == DedupRefTypes([d |-> structs, id |-> 0], 1)
      kept == CompactTypes(s.d)
  IN  IF s.id < 0 THEN Error(s.id)
      ELSE [types |-> RemapTypes(s.d, kept), newid |-> [i \in 0 .. Len(types) |-> RemapTypeId(s.d, kept, i)]]
=============================================================================
