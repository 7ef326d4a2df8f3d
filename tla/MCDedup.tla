------------------------------ MODULE MCDedup ------------------------------
(***************************************************************************)
(* Compilation units for BtfDedup, and what must be true of the result.      *)
(* Every unit has struct S with a member that leads to X, and an enum E; it  *)
(* differs in what it knows of X and E and in the order of its types.  The   *)
(* types of one unit are distinct, as a compiler emits them.                 *)
(***************************************************************************)
EXTENDS BtfDedup

El(name, off, type) == [name |-> name, off |-> off, type |-> type]
With(t, elems) == [t EXCEPT !.elems = elems]
(* What the unit says of X; S is type 5, PTR to S type 6, int type 1.        *)
XTypes ==
  {Type("FWD", "X", 0, 0), [Type("FWD", "X", 0, 0) EXCEPT !.kflag = TRUE],
   With(Type("STRUCT", "X", 4, 0), <<El("v", 0, 1)>>), With(Type("STRUCT", "X", 4, 0), <<El("w", 0, 1)>>),
   With(Type("UNION", "X", 4, 0), <<El("v", 0, 1)>>), With(Type("STRUCT", "X", 8, 0), <<El("s", 0, 6)>>)}
ETypes == {Type("ENUM", "E", 4, 0), With(Type("ENUM", "E", 4, 0), <<El("A", 0, 0)>>),
           With(Type("ENUM", "E", 4, 0), <<El("A", 1, 0)>>)}
(* Between S and X: a pointer, an array of pointers or a function.  Two      *)
(* units with S of the same layout may still differ in a member's type.      *)
Ways == {"PTR", "ARRAY", "FUNC", "SAME"}
Other(way) == IF way = "SAME" THEN "OTHER" ELSE way
Rest(way) ==
  CASE way \in {"PTR", "SAME", "OTHER"} -> <<Type("CONST", "", 0, 3), Type("TYPEDEF", "x_t", 0, 7)>>
    [] way = "ARRAY" -> <<[Type("ARRAY", "", 0, 3) EXCEPT !.nelems = 2, !.index = 1],
                          [Type("VAR", "var", 0, 7) EXCEPT !.kflag = TRUE]>>
    [] way = "FUNC" -> <<With(Type("FUNC_PROTO", "", 0, 0), <<El("a", 0, 3), El("b", 0, 4)>>), Type("FUNC", "f", 0, 7)>>
Unit(x, e, way) ==
  <<Type("INT", "int", 4, 0), x, Type("PTR", "", 0, 2), e,
    With(Type("STRUCT", "S", 16, 0), 
           <<El("p", 0, IF way \in {"PTR", "ARRAY"} THEN 7 ELSE 3),
             El("q", 8, IF way = "SAME" THEN 3 ELSE IF way = "OTHER" THEN 6 ELSE 4)>>),
    Type("PTR", "", 0, 5)>> \o Rest(way)

(* Type i of the unit moves to place n + 1 - i, and all ids by base.         *)
Shifted(unit, base, flip) ==
  LET n == Len(unit)
      Id(i) == IF i = 0 THEN 0 ELSE base + (IF flip THEN n + 1 - i ELSE i)
      Moved(t) == [t EXCEPT !.type = Id(@), !.index = Id(@),
                            !.elems = [i \in DOMAIN @ |-> [@[i] EXCEPT !.type = Id(@)]]]
      moved == [i \in 1 .. n |-> Moved(unit[i])]
  IN  IF flip THEN Reverse(moved) ELSE moved
Link(a, b, flip) == Shifted(a, 0, FALSE) \o Shifted(b, Len(a), flip)

Options == {[dont |-> FALSE, collide |-> FALSE], [dont |-> FALSE, collide |-> TRUE], [dont |-> TRUE, collide |-> FALSE]}
DedupCases ==
  {c \in [what : {"types"}, x1 : XTypes, x2 : XTypes, e1 : ETypes, e2 : ETypes, way : Ways, flip : BOOLEAN,
          opt : Options] : (c.e1 = c.e2 /\ c.e1 = CHOOSE e \in ETypes : e.elems # <<>>) \/ (c.x1 = c.x2 /\ c.way = "PTR")}
  \cup {[what |-> "strings", strs |-> <<0>> \o s, refs |-> r, ext |-> <<x>>] :
          s \in [1 .. 3 -> {0, 1, 3}] \cup [1 .. 2 -> {1, 3}], r \in [1 .. 2 -> 0 .. 9], x \in {1, 3}}

(* What the result must keep of a type: all of it, with the ids it refers to *)
(* renamed; a forward declaration may have become the type it declares.      *)
Represents(old, new, NewId(_)) ==
  \/ new = [old EXCEPT !.type = NewId(@), !.index = NewId(@),
                       !.elems = [i \in DOMAIN @ |-> [@[i] EXCEPT !.type = NewId(@)]]]
  \/ old.kind = "FWD" /\ new.kind = FwdKind(old) /\ new.name = old.name
  \/ EnumFwd(old) /\ HashEnum(old) = HashEnum(new)

(* Types that look the same to any depth, as a function to the least of      *)
(* them: refined from "all the same" until nothing changes.                  *)
Renamed(t, f) ==
  LET Cls(id) == IF id = 0 THEN 0 ELSE f[id]
  IN  [t EXCEPT !.type = Cls(@), !.index = Cls(@), !.elems = [i \in DOMAIN @ |-> [@[i] EXCEPT !.type = Cls(@)]]]
RECURSIVE Classes(_, _)
Classes(types, f) ==
  LET g == [i \in DOMAIN types |-> SelectInSeq(types, LAMBDA t : Renamed(t, f) = Renamed(types[i], f))]
  IN  IF g = f THEN f ELSE Classes(types, g)

TypesRight(c) ==
  LET types == Link(Unit(c.x1, c.e1, c.way), Unit(c.x2, c.e2, Other(c.way)), c.flip)
      r == Dedup(types, c.opt.dont, c.opt.collide)
      new == r.types
      cls == Classes(new, [i \in DOMAIN new |-> 1])
      NewId(i) == r.newid[i]
      complete == c.opt.dont \/ ("FWD" \notin {c.x1.kind, c.x2.kind} /\ ~EnumFwd(c.e1) /\ ~EnumFwd(c.e2))
  IN  /\ ~IsError(r)
      /\ \A i \in DOMAIN types : NewId(i) > 0 /\ Represents(types[i], new[NewId(i)], NewId)
      /\ complete => \A i, j \in DOMAIN new :
                       i # j /\ cls[i] = cls[j] => {new[i].kind, new[j].kind} \subseteq {"VAR", "DATASEC"}

(* Every reference of a type or of the line information still names its      *)
(* string, and no string is there twice.  A reference of func_info or of     *)
(* field_reloc does so only if the whole section stayed as it was: they are  *)
(* not visited, although btf.c:1092-1094 says that all of .BTF.ext is.       *)
StringsRight(c) ==
  LET r == DedupStrings(c.strs, c.refs, c.ext)
      At(strs, off) == strs[StrAt(strs, off)]
  IN  IF IsError(r) THEN \E i \in DOMAIN c.refs : StrAt(c.strs, c.refs[i]) = 0
      ELSE /\ \A i \in DOMAIN c.refs : At(r.strs, r.refs[i]) = At(c.strs, c.refs[i])
           /\ r.strs = c.strs => \A i \in DOMAIN c.ext :
                StrAt(c.strs, c.ext[i]) # 0 => At(r.strs, r.ext[i]) = At(c.strs, c.ext[i])
           /\ Cardinality(ToSet(r.strs)) = Len(r.strs) /\ r.strs[1] = 0

(* btf__dedup loses nothing and merges whatever is the same: every type of   *)
(* the input has a descriptor that says of it what the input said, with the  *)
(* types it refers to replaced by their descriptors, whatever the order of   *)
(* the types and also if signatures collide; and two descriptors never       *)
(* describe the same type, forward declarations apart.                       *)
DedupRight(c) == IF c.what = "types" THEN TypesRight(c) ELSE StringsRight(c)
=============================================================================
