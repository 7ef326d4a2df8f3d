------------------------------- MODULE MCCore -------------------------------
(***************************************************************************)
(* Local types, kernels and relocations for CoreReloc, and what must be true *)
(* of the patched instructions.                                              *)
(***************************************************************************)
EXTENDS CoreReloc

Fld(name, off, type, bits) == [name |-> name, off |-> off, type |-> type, bits |-> bits]
Struct(name, size, fields) == [Type("STRUCT", name, size, 0) EXCEPT !.elems = fields, !.kflag = TRUE]
Arr(type, n) == [Type("ARRAY", "", 0, type) EXCEPT !.nelems = n, !.index = 1]

(* struct S___local { int x; struct { int y[2]; }; int z : 5; }              *)
Local == <<Type("INT", "int", 4, 0), Arr(1, 2), Struct("", 8, <<Fld("y", 0, 2, 0)>>),
           Struct("S___local", 16, <<Fld("x", 0, 1, 0), Fld("", 32, 3, 0), Fld("z", 96, 1, 5)>>),
           Type("TYPEDEF", "S", 0, 4)>>
(* What a kernel may have made of S: fields moved, in or out of an unnamed   *)
(* union, missing, of another type, or with another bitfield.                *)
KernelHead == <<Type("INT", "int", 4, 0), Arr(1, 2), Arr(1, 1), Type("PTR", "", 0, 1),
                [Type("UNION", "", 8, 0) EXCEPT !.elems = <<Fld("w", 0, 1, 0), Fld("y", 0, 2, 0)>>],
                Struct("", 4, <<Fld("x", 0, 1, 0)>>), Type("CONST", "", 0, 1)>>
SVariants ==
  {<<Fld("x", 0, 1, 0), Fld("y", 32, 2, 0), Fld("z", 96, 1, 5)>>,
   <<Fld("y", 0, 2, 0), Fld("z", 64, 1, 7), Fld("x", 96, 7, 0)>>,
   <<Fld("", 0, 5, 0), Fld("", 64, 6, 0)>>,
   <<Fld("x", 0, 1, 0), Fld("y", 32, 3, 0)>>,
   <<Fld("x", 0, 4, 0), Fld("y", 64, 2, 0), Fld("z", 128, 1, 0)>>,
   <<Fld("z", 30, 1, 5), Fld("y", 64, 2, 0)>>}
(* Other types of that name: a forward declaration, a typedef, or copies of  *)
(* S, with which its candidates just fit in, or overrun, the array.          *)
Extras == {"none", "fwd", "typedef", "copies"}
Kernel(c) ==
  KernelHead \o <<Struct("S", 24, c.s1), Struct(c.name2, 24, c.s2)>>
    \o (CASE c.extra = "none" -> <<>> [] c.extra = "fwd" -> <<Type("FWD", "S", 0, 0)>>
          [] c.extra = "typedef" -> <<Type("TYPEDEF", "S", 0, 8)>>
          [] c.extra = "copies" -> [i \in 1 .. CandRoom - 1 |-> Struct("S", 24, c.s1)])

(* A field by the names and indices that lead to it.                         *)
Accesses == {<<0, 0>>, <<1, 0>>, <<0, 1, 0, 1>>, <<0, 2>>}
Path(access) ==
  CASE access = <<0, 0>> -> <<0, "x", -1>> [] access = <<1, 0>> -> <<1, "x", -1>>
    [] access = <<0, 1, 0, 1>> -> <<0, "y", 1>> [] access = <<0, 2>> -> <<0, "z", -1>>
Kinds == {"BYTE_OFFSET", "BYTE_SIZE", "EXISTS", "RSHIFT_U64"}
Relos == {[kind |-> k, access |-> a] : k \in Kinds, a \in Accesses}
GoodFile(types) == [access |-> TRUE, stat |-> TRUE, open |-> TRUE, whole |-> TRUE, types |-> types]
FileSets == {"sysfs", "boot", "short", "none", "path", "badpath"}
Old == GoodFile(<<Struct("S", 4, <<Fld("x", 0, 1, 0)>>)>>)
Places(c) ==
  LET good == GoodFile(Kernel(c))
  IN  CASE c.files \in {"sysfs", "badpath"} -> <<good, Old>>
        [] c.files = "boot" -> <<[Old EXCEPT !.access = FALSE], [Old EXCEPT !.types = <<>>], good, Old>>
        [] c.files = "short" -> <<[Old EXCEPT !.whole = FALSE], good>>
        [] c.files = "none" -> <<[Old EXCEPT !.access = FALSE]>>
        [] c.files = "path" -> <<Old>>
TargPath(c) ==
  CASE c.files = "path" -> GoodFile(Kernel(c)) [] c.files = "badpath" -> GoodFile(<<>>) [] OTHER -> Null
(* Both relocations in one program, one in each of two, or the second in a   *)
(* section that is no program's.                                             *)
Splits == {"one", "two", "unknown"}
Usual == [extra |-> "none", root |-> 4, relaxed |-> FALSE, files |-> "sysfs", split |-> "one"]
CoreCases ==
  {c \in [what : {"relocs"}, s1 : SVariants, s2 : SVariants, name2 : {"S___2", "U"}, extra : Extras,
          r1 : Relos, r2 : Relos, root : {4, 5}, relaxed : BOOLEAN, files : FileSets, split : Splits] :
     /\ c.name2 = "U" => c.s1 = c.s2
     /\ c.name2 # "U" => c.r1.kind \in {"BYTE_OFFSET", "EXISTS"} /\ c.r2.kind = "BYTE_OFFSET"
     /\ (\E f \in DOMAIN Usual : c[f] # Usual[f]) =>
          c.r1.kind \in {"BYTE_OFFSET", "EXISTS"} /\ c.r2.kind = "BYTE_OFFSET" /\ c.r2.access = <<0, 1, 0, 1>>
     /\ Cardinality({f \in DOMAIN Usual : c[f] # Usual[f]}) < 2}
  \cup [what : {"bits"}, off : 0 .. 70, size : {1, 2, 4, 8}, bits : {1, 3, 8, 9, 31, 33}]

(* The offset, size and bits of the field a path leads to in type id: a      *)
(* field of that name, in the struct or in an unnamed member of it.          *)
NoField == [off |-> -1, type |-> 0, bits |-> 0]
RECURSIVE Named(_, _, _)
Named(types, id, name) ==
  UNION {IF m.name = name THEN {[off |-> m.off, type |-> m.type, bits |-> m.bits]}
         ELSE IF m.name = "" THEN {[f EXCEPT !.off = @ + m.off] : f \in Named(types, m.type, name)}
         ELSE {} : m \in ToSet(types[id].elems)}
FieldAt(types, id, path) ==
  LET fields == Named(types, id, path[2])
      f == CHOOSE g \in fields : TRUE
      kind == TypeById(types, SkipMods(types, f.type)).kind
      base == path[1] * types[id].size * 8
  IN  IF fields = {} \/ kind # (IF path[2] = "y" THEN "ARRAY" ELSE "INT") THEN NoField
      ELSE IF path[3] < 0 THEN [f EXCEPT !.off = @ + base]
      ELSE IF path[3] >= types[f.type].nelems THEN NoField
      ELSE [off |-> f.off + base + path[3] * 32, type |-> 1, bits |-> 0]
(* What a relocation may put into its instruction when S is type id.         *)
Wanted(types, id, relo) ==
  LET f == FieldAt(types, id, Path(relo.access))
      size == IF f.bits = 0 THEN 4 ELSE IF (f.off % 32) + f.bits > 32 THEN 8 ELSE 4
  IN  CASE relo.kind = "EXISTS" -> IF f = NoField THEN 0 ELSE 1
        [] f = NoField -> -1
        [] relo.kind = "BYTE_OFFSET" -> IF f.bits = 0 THEN f.off \div 8 ELSE ((f.off \div 8) \div size) * size
        [] relo.kind = "BYTE_SIZE" -> size
        [] relo.kind = "RSHIFT_U64" -> IF f.bits = 0 THEN 32 ELSE 64 - f.bits

LocalValue(relo) ==
  LET v == CalcFieldRelo(Local, relo.kind, SpecParse(Local, 4, relo.access))
  IN  IF relo.kind = "EXISTS" THEN 1 ELSE IF IsError(v) THEN 0 ELSE v.val
(* Two relocations of one local type, in the order of the records.  If they  *)
(* are carried out, there is one type of the kernel, called S, from which    *)
(* both instructions read: what one found is where the other looked.  A      *)
(* kernel in which all structs S are the same and have both fields is not    *)
(* refused, with two exceptions: if it also declares S forward, every        *)
(* relocation is refused, since the declaration is a candidate without a     *)
(* size (libbpf.c:2924-2926, 3367-3371), although the comment at 3277-3280   *)
(* calls several candidates no error; and with more than CandRoom candidates *)
(* the array is overrun.                                                     *)
RelocsRight(c) ==
  LET relos == <<[insn |-> 1, kind |-> c.r1.kind, access |-> c.r1.access, type_id |-> c.root],
                 [insn |-> 2, kind |-> c.r2.kind, access |-> c.r2.access, type_id |-> c.root]>>
      prog == IF c.split = "one" THEN <<"p", "p">> ELSE <<"p", "q">>
      secs == CASE c.split = "one" -> <<[title |-> "p", relos |-> relos]>>
                [] c.split = "two" -> <<[title |-> "p", relos |-> <<relos[1]>>], [title |-> "q", relos |-> <<relos[2]>>]>>
                [] c.split = "unknown" -> <<[title |-> "p", relos |-> <<relos[1]>>], [title |-> "r", relos |-> <<relos[2]>>]>>
      insns == [i \in 1 .. 2 |-> [alu |-> TRUE, imm |-> LocalValue(relos[i])]]
      r == RelocFields([t \in {"p", "q"} |-> insns], secs, Local, TargPath(c), Places(c), c.relaxed)
      kernel == Kernel(c)
      roots == {i \in DOMAIN kernel : kernel[i].kind = "STRUCT" /\ EssentialName(kernel[i].name) = "S"}
      same == \A i, j \in roots : kernel[i].elems = kernel[j].elems
  IN  /\ r.err = "" => \E id \in roots : \A i \in 1 .. 2 : r.insns[prog[i]][i].imm = Wanted(kernel, id, relos[i])
      /\ c.files \in {"none", "badpath"} => r.err \in {"ESRCH", "ENOENT"}
      /\ c.split = "unknown" => r.err # ""
      /\ c.files \notin {"none", "badpath"} =>
           /\ c.extra = "fwd" => r.err = "EINVAL"
           /\ r.err = "overrun" <=> Cardinality(roots) > CandRoom
           /\ same /\ c.extra # "fwd" /\ Cardinality(roots) <= CandRoom /\ c.split # "unknown" =>
                (r.err = "" <=> \A i \in 1 .. 2 : /\ c.relaxed \/ Wanted(kernel, 8, relos[i]) # -1
                                                  /\ relos[i].kind = "RSHIFT_U64" => relos[i].access # <<0, 1, 0, 1>>)
(* A bitfield is all of, and nothing but, what is left of the integer that   *)
(* is loaded after both shifts.                                              *)
BitsRight(c) ==
  LET types == <<Type("INT", "i", c.size, 0), Struct("S", 24, <<Fld("f", c.off, 1, c.bits)>>)>>
      Val(kind) == CalcFieldRelo(types, kind, [acc |-> <<[id |-> 2, idx |-> 0, name |-> "f"]>>, off |-> c.off])
      At(bit) == bit - 8 * Val("BYTE_OFFSET").val + Val("LSHIFT_U64").val - Val("RSHIFT_U64").val
  IN  IF IsError(Val("BYTE_SIZE")) THEN \E k \in 1 .. 8 : c.off < 64 * k /\ c.off + c.bits > 64 * k
      ELSE /\ At(c.off) = 0
           /\ Val("LSHIFT_U64").val >= 0 /\ Val("RSHIFT_U64").val = 64 - c.bits
           /\ c.off >= 8 * Val("BYTE_OFFSET").val
           /\ c.off + c.bits <= 8 * (Val("BYTE_OFFSET").val + Val("BYTE_SIZE").val)
           /\ Val("BYTE_OFFSET").val % Val("BYTE_SIZE").val = 0
CoreRight(c) == IF c.what = "relocs" THEN RelocsRight(c) ELSE BitsRight(c)
=============================================================================
