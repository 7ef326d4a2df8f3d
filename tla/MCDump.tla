------------------------------- MODULE MCDump -------------------------------
(***************************************************************************)
(* Type graphs, declarators and struct layouts for BtfDump, and a reader of  *)
(* C that says what the printed declarations mean.                           *)
(***************************************************************************)
EXTENDS BtfDump

Mem(name, off, type, bits) == [name |-> name, off |-> off, type |-> type, bits |-> bits]
Elems(t, elems) == [t EXCEPT !.elems = elems]
-----------------------------------------------------------------------------
(* Reading a declaration.  A declarator's operators from the outermost to    *)
(* the innermost: what follows a name binds before what precedes it.         *)
Suffix == {"ARRAY", "FUNC_PROTO"}
RECURSIVE Declarator(_)
Declarator(toks) ==
  IF toks = <<>> THEN <<>>
  ELSE IF Head(toks).t \in Mods \cup {"PTR"} THEN Append(Declarator(Tail(toks)), Head(toks))
  ELSE IF Last(toks).t \in Suffix THEN Append(Declarator(Front(toks)), Last(toks))
  ELSE IF Head(toks).t = "(" THEN Declarator(SubSeq(toks, 2, Len(toks) - 1))
  ELSE <<>>
BaseAt(toks) == SelectInSeq(toks, LAMBDA k : k.t \notin Mods)
Base(toks) == toks[BaseAt(toks)]
(* All of a declaration: operators, then qualifiers, then the base.          *)
Meaning(toks) ==
  Declarator(SubSeq(toks, BaseAt(toks) + 1, Len(toks))) \o Reverse(SubSeq(toks, 1, BaseAt(toks) - 1))
    \o <<Base(toks)>>
ByValue(toks) == \A k \in ToSet(Meaning(toks)) : k.t \notin {"PTR", "FUNC_PROTO"}

(* What a compiler knows: tags declared and tags complete, and for each      *)
(* typedef the tags that must be complete before it is embedded; ids are the *)
(* typedefs and enumerators in the order they were declared.                 *)
Start == [seen |-> {}, complete |-> {}, typedefs |-> (<<"__builtin_va_list", 1>> :> {}), ids |-> <<>>]
TagOf(k) == <<k.kind, k.name>>
Embeds(env, toks) ==
  IF ~ByValue(toks) THEN {}
  ELSE CASE Base(toks).t = "tag" -> {TagOf(Base(toks))}
         [] Base(toks).t = "TYPEDEF" -> env.typedefs[Base(toks).name]
         [] OTHER -> {}

(* Everything a declaration names is known where it is named, in parameters  *)
(* and inline definitions too; inside is the tag it is part of.              *)
RECURSIVE Reads(_, _, _), FieldsRead(_, _, _)
Reads(env, toks, inside) ==
  LET b == Base(toks)
  IN  /\ CASE b.t = "tag" -> TagOf(b) \in (IF b.kind = "ENUM" THEN env.complete ELSE env.seen \cup inside)
           [] b.t = "TYPEDEF" -> b.name \in DOMAIN env.typedefs
           [] b.t = "def" -> FieldsRead(env, b.fields, inside)
           [] OTHER -> TRUE
      /\ \A k \in ToSet(toks) : k.t = "FUNC_PROTO" =>
           \A a \in ToSet(k.args) : Head(a).t = "..." \/ Reads(env, a, inside)
FieldsRead(env, fields, inside) ==
  \A f \in ToSet(fields) : f.toks # <<>> => Reads(env, f.toks, inside) /\ Embeds(env, f.toks) \subseteq env.complete

RECURSIVE Enumerators(_)
Enumerators(toks) ==
  LET b == Base(toks)
  IN  CASE b.t = "enum" -> b.vals
        [] b.t = "def" -> FlattenSeq([i \in DOMAIN b.fields |->
                                        IF b.fields[i].toks = <<>> THEN <<>> ELSE Enumerators(b.fields[i].toks)])
        [] OTHER -> <<>>

(* The compiler after a declaration; ok says that it accepted it.            *)
Compile(s, o) ==
  LET b == Base(o.toks)
      tag == IF b.t \in {"tag", "def"} THEN TagOf(b) ELSE <<"ENUM", b.name>>
      env == s.env
      ids == Enumerators(o.toks)
  IN  IF o.def # NoName THEN
        [ok |-> s.ok /\ Reads(env, o.toks, {}),
         env |-> [env EXCEPT !.typedefs = (o.def :> Embeds(env, o.toks)) @@ @,
                             !.ids = @ \o ids \o <<o.def>>]]
      ELSE CASE b.t = "tag" -> [ok |-> s.ok, env |-> [env EXCEPT !.seen = @ \cup {tag}]]
             [] b.t = "enum" -> [ok |-> s.ok /\ (b.name = NoName \/ tag \notin env.complete),
                                 env |-> [env EXCEPT !.seen = @ \cup {tag}, !.complete = @ \cup {tag}, !.ids = @ \o ids]]
             [] b.t = "def" -> [ok |-> s.ok /\ tag \notin env.complete /\ FieldsRead(env, b.fields, {tag}),
                                env |-> [env EXCEPT !.seen = @ \cup {tag}, !.complete = @ \cup {tag}, !.ids = @ \o ids]]
Compiled(out) == FoldLeft(Compile, [ok |-> TRUE, env |-> Start], out)
-----------------------------------------------------------------------------
(* Graphs: structs A and B, typedef T, and a type Y between them.  A and B   *)
(* may share a name, as types of different units do.                         *)
YTypes == {"PTR", "ARRAY", "anon", "FUNC", "TYPEDEF", "UNION", "CONST"}
Graph(c) ==
  <<Type("INT", "int", 4, 0),
    Elems(Type("STRUCT", "A", 16, 0), <<Mem("a", 0, c.a1, 0), Mem("b", 64, c.a2, 0)>>),
    Elems(Type("STRUCT", c.b, 16, 0), <<Mem("c", 0, c.b1, 0)>>),
    Type("TYPEDEF", "T", 0, c.t),
    Type("PTR", "", 0, c.p),
    CASE c.k = "PTR" -> Type("PTR", "", 0, c.y)
      [] c.k = "CONST" -> Type("CONST", "", 0, c.y)
      [] c.k = "TYPEDEF" -> Type("TYPEDEF", "T", 0, c.y)
      [] c.k = "ARRAY" -> [Type("ARRAY", "", 0, c.y) EXCEPT !.nelems = 2, !.index = 1]
      [] c.k = "FUNC" -> Elems(Type("FUNC_PROTO", "", 0, 1), <<Mem("x", 0, c.y, 0), Mem("", 0, 0, 0)>>)
      [] c.k = "anon" -> Elems(Type("STRUCT", "", 16, 0), <<Mem("m", 0, c.y, 0), Mem("e", 64, 8, 0)>>)
      [] c.k = "UNION" -> Elems(Type("UNION", "A", 16, 0), <<Mem("m", 0, c.y, 0)>>),
    Elems(Type("ENUM", "E", 4, 0), <<Mem("T", 0, 0, 0)>>),
    Elems(Type("ENUM", "", 4, 0), <<Mem("V", 0, 0, 0)>>),
    [Type("FWD", "F", 0, 0) EXCEPT !.kflag = TRUE]>>

(* What has to be declared before what: a node is a type and whether it was  *)
(* reached through a pointer.  A named struct or union behind a pointer      *)
(* needs nothing.                                                            *)
Targets(t) == ({t.type} \cup {m.type : m \in ToSet(t.elems)}) \ {0}
Uses(g) == UNION {{i} \X Targets(g[i]) : i \in DOMAIN g}
After(g, n) ==
  LET t == g[n[1]]
  IN  IF t.kind \in Composite THEN IF n[2] /\ t.name # "" THEN {} ELSE Targets(t) \X {FALSE}
      ELSE Targets(t) \X {n[2] \/ t.kind = "PTR"}
(* Nothing is left when what leads nowhere is taken away, again and again.   *)
RECURSIVE Acyclic(_, _)
Acyclic(nodes, edges) ==
  LET rest == {e[1] : e \in {d \in edges : d[1] \in nodes /\ d[2] \in nodes}}
  IN  IF nodes = {} THEN TRUE ELSE IF rest = nodes THEN FALSE ELSE Acyclic(rest, edges)
(* C can name a type before it is declared only through a struct's tag, and  *)
(* has no arrays or members of function type or of unknown size.             *)
WellFormed(g) ==
  LET nodes == (DOMAIN g) \X BOOLEAN
      size == {e \in Uses(g) : g[e[1]].kind \notin {"PTR", "FUNC_PROTO"}}
  IN  /\ \A e \in size : g[e[2]].kind \in {"FUNC_PROTO", "FWD"} => g[e[1]].kind = "TYPEDEF"
      /\ Acyclic(DOMAIN g, {e \in Uses(g) : g[e[1]].name = "" \/ g[e[1]].kind = "TYPEDEF"})
      /\ Acyclic(nodes, UNION {{m} \X After(g, m) : m \in nodes})
GraphCases ==
  {c \in [what : {"graph"}, b : {"A", "B"}, a1 : {3, 4, 5}, a2 : {5, 7, 6}, b1 : {2, 4, 5}, t : {2, 3, 6},
          p : {2, 4, 6, 9}, k : YTypes, y : {2, 3, 5}, first : {1, 4}] :
     (c.b = "A" => c.first = 1) /\ WellFormed(Graph(c))}
(* The dump of every type, in the order of their ids from `first' on, and    *)
(* then of the rest.                                                         *)
DumpAll(types, first) ==
  FoldLeft(LAMBDA s, i : IF s.err THEN s ELSE DumpType(s.d, i), [err |-> FALSE, d |-> DumpNew(types)],
           [i \in 1 .. Len(types) |-> ((i + first - 2) % Len(types)) + 1])
(* Every type C could have declared is printed, once, and so that a compiler *)
(* accepts it.                                                               *)
GraphRight(c) ==
  LET g == Graph(c)
      r == DumpAll(g, c.first)
      s == Compiled(r.d.out)
      defs == SelectSeq(r.d.out, LAMBDA o : o.def # NoName \/ Base(o.toks).t \in {"def", "enum"})
      named == {i \in DOMAIN g : g[i].name # "" /\ g[i].kind \in Composite \cup {"TYPEDEF", "ENUM"}}
  IN  /\ ~r.err
      /\ s.ok
      /\ Cardinality(ToSet(s.env.ids)) = Len(s.env.ids)
      /\ Len(SelectSeq(defs, LAMBDA o : o.def # NoName \/ Base(o.toks).name # NoName)) = Cardinality(named)
-----------------------------------------------------------------------------
(* Declarators: up to four operators over a base, outermost first.           *)
Ops == {"PTR", "CONST", "ARRAY", "FUNC_PROTO"}
Bases == {"INT", "VOID", "STRUCT", "anon"}
(* C has no arrays of functions or of void, no functions that return arrays  *)
(* or functions, no qualified functions, and no qualifier twice.             *)
Pairs == [PTR |-> Ops \cup Bases, CONST |-> {"PTR", "ARRAY"} \cup Bases,
          ARRAY |-> {"PTR", "CONST", "ARRAY", "INT", "STRUCT", "anon"},
          FUNC_PROTO |-> {"PTR", "CONST"} \cup Bases]
DeclCases ==
  {c \in [what : {"decl"}, ops : SeqOf(Ops, 4), base : Bases, params : 0 .. 2, fname : {NoName, <<"f", 1>>}] :
     LET chain == Append(c.ops, c.base)
     IN  /\ \A i \in DOMAIN c.ops : chain[i + 1] \in Pairs[chain[i]]
         /\ c.params > 0 => "FUNC_PROTO" \in ToSet(c.ops)}
(* Type i is operator i, over type i + 1 or the base; the types after those  *)
(* are int, struct S, an unnamed struct and a pointer to the first type.     *)
Decl(c) ==
  LET n == Len(c.ops)
      base == [INT |-> n + 1, VOID |-> 0, STRUCT |-> n + 2, anon |-> n + 3][c.base]
      params == SubSeq(<<Mem("x", 0, n + 4, 0), Mem("", 0, 0, 0)>>, 1, c.params)
  IN  [i \in 1 .. n |-> [Type(c.ops[i], "", 0, IF i = n THEN base ELSE i + 1)
                          EXCEPT !.nelems = i, !.elems = IF c.ops[i] = "FUNC_PROTO" THEN params ELSE <<>>]]
      \o <<Type("INT", "int", 4, 0), Type("STRUCT", "S", 0, 0),
           Elems(Type("STRUCT", "", 4, 0), <<Mem("i", 0, n + 1, 0)>>), Type("PTR", "", 0, n + 1)>>
(* The declaration means the type: the operators are read back in their      *)
(* order, but for a qualifier of an array, and so are the parameters.        *)
DeclRight(c) ==
  LET types == Decl(c)
      n == Len(c.ops)
      toks == EmitTypeDecl(DumpNew(types), IF n = 0 THEN n + 1 ELSE 1, c.fname).toks
      m == Meaning(toks)
      kept == SelectSeq([i \in 1 .. n |-> i], LAMBDA i : ~(c.ops[i] = "CONST" /\ i < n /\ c.ops[i + 1] = "ARRAY"))
  IN  /\ Len(m) = Len(kept) + 1
      /\ \A i \in DOMAIN kept :
           /\ m[i].t = c.ops[kept[i]]
           /\ m[i].t = "ARRAY" => m[i].n = kept[i]
           /\ m[i].t = "FUNC_PROTO" =>
                /\ Len(m[i].args) = c.params
                /\ c.params > 0 => [j \in 1 .. 2 |-> Meaning(m[i].args[1])[j].t] = <<"PTR", "INT">>
                /\ c.params = 2 => Head(m[i].args[2]).t = "..."
      /\ n > 0 => Last(m).t = [INT |-> "INT", VOID |-> "VOID", STRUCT |-> "tag", anon |-> "def"][c.base]
-----------------------------------------------------------------------------
(* Layouts.  A source field has a type (1 to 4: an integer of 1, 2, 4 or 8   *)
(* bytes; 5: a packed struct of 5 bytes; 6: an array of 3 shorts), an        *)
(* alignment of its own and the bits of a bitfield.  zero: a zero-width int  *)
(* bitfield comes before it.                                                 *)
Inner == <<Type("INT", "char", 1, 0), Type("INT", "short", 2, 0), Type("INT", "int", 4, 0), Type("INT", "long", 8, 0),
           Elems(Type("STRUCT", "P", 5, 0), <<Mem("c", 0, 1, 0), Mem("i", 8, 3, 0)>>),
           [Type("ARRAY", "", 0, 2) EXCEPT !.nelems = 3, !.index = 3]>>
Natural == <<1, 2, 4, 8, 1, 2>>
Bytes == <<1, 2, 4, 8, 5, 6>>
Up(off, to) == ((off + to - 1) \div to) * to
Larger(a, b) == IF a > b THEN a ELSE b
(* The x86-64 rules: a field begins at its alignment; a bitfield begins at   *)
(* the next bit unless it would cross a unit of its type, and aligns the     *)
(* struct only if it is named.                                               *)
Place1(s, type, align, bits, packed) ==
  LET unit == 8 * Bytes[type]
      from == IF bits = 0 THEN Up(s.off, 8 * align)
              ELSE IF ~packed /\ (s.off % unit) + bits > unit THEN Up(s.off, unit) ELSE s.off
  IN  [at |-> Append(s.at, from), off |-> from + (IF bits = 0 THEN unit ELSE bits), align |-> Larger(s.align, align)]
NoFields == [at |-> <<>>, off |-> 0, align |-> 1]
Source(c) ==
  FoldLeft(LAMBDA s, f :
             Place1(IF f.zero THEN [s EXCEPT !.off = Up(@, 32)] ELSE s, f.type,
                    IF c.packed THEN f.align ELSE Larger(f.align, Natural[f.type]), f.bits, c.packed), NoFields, c.fields)
SourceType(c) ==
  LET s == Source(c)
  IN  [Elems(Type("STRUCT", "S", Up(s.off, 8 * s.align) \div 8, 0),
             [i \in DOMAIN c.fields |-> Mem("m", s.at[i], c.fields[i].type, c.fields[i].bits)]) EXCEPT !.kflag = TRUE]
SourceFields ==
  {f \in [type : 1 .. 6, align : {1, 4, 16}, bits : {0, 3, 7}, zero : BOOLEAN] :
     /\ f.bits # 0 => f.type \in {1, 3} /\ f.align = 1
     /\ f.zero => f.bits # 0}
(* btf_align_of takes a packed member for aligned, so that a struct that has *)
(* one and an over-aligned member may lose its trailing padding; and a       *)
(* bitfield that only a packed struct can have is not seen as one.  Both are *)
(* left out.                                                                 *)
Crosses(c) == \E i \in DOMAIN c.fields : LET unit == 8 * Bytes[c.fields[i].type]
                                        IN  (Source(c).at[i] % unit) + c.fields[i].bits > unit
LayoutCases ==
  {c \in [what : {"layout"}, packed : BOOLEAN,
          fields : SeqOf(SourceFields, 2) \cup [1 .. 3 -> {f \in SourceFields : f.type \in {1, 3}}]] :
     /\ (\E f \in ToSet(c.fields) : f.type = 5) => \A f \in ToSet(c.fields) : f.align = 1
     /\ c.packed => ~Crosses(c)}
(* What the printed struct lays out, padding included.                       *)
Printed1(s, f) ==
  LET type == IF f.unit = 0 THEN f.id ELSE SelectInSeq(Bytes, LAMBDA n : 8 * n = f.unit)
      r == Place1(s, type, IF f.packed THEN 1 ELSE Natural[type], f.bits, f.packed)
  IN  IF f.unit = 0 THEN r ELSE [r EXCEPT !.at = s.at, !.align = s.align]
(* Every member is where it was, and the struct is as large.                 *)
LayoutRight(c) ==
  LET t == SourceType(c)
      def == EmitStructDef(Empty(DumpNew(Append(Inner, t))), Len(Inner) + 1).toks[1]
      real == SelectSeq([i \in DOMAIN def.fields |-> i], LAMBDA i : def.fields[i].unit = 0)
      Id(i) == IF def.fields[i].unit = 0 THEN t.elems[SelectInSeq(real, LAMBDA j : j = i)].type ELSE 0
      s == FoldLeft(LAMBDA a, i : Printed1(a, [id |-> Id(i), unit |-> def.fields[i].unit, bits |-> def.fields[i].bits,
                                               packed |-> def.packed]),
                    NoFields, [i \in DOMAIN def.fields |-> i])
  IN  /\ s.at = [i \in DOMAIN t.elems |-> t.elems[i].off]
      /\ Up(s.off, 8 * s.align) = 8 * t.size
-----------------------------------------------------------------------------
DumpCases == GraphCases \cup DeclCases \cup LayoutCases
(* What btf_dump prints means what the type information says: a compiler     *)
(* accepts the declarations in their order, a declarator reads back as its   *)
(* chain of types, and a printed struct has its members where they were.     *)
DumpRight(c) == CASE c.what = "graph" -> GraphRight(c) [] c.what = "decl" -> DeclRight(c) [] OTHER -> LayoutRight(c)
=============================================================================
