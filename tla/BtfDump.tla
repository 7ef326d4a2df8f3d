------------------------------ MODULE BtfDump ------------------------------
(***************************************************************************)
(* btf_dump (libbpf/src/btf_dump.c): C declarations from type information.   *)
(*                                                                         *)
(* The state d of a dump is                                                  *)
(*   types    the types, as in Btf; a member also has its bitfield size bits *)
(*   ref      ids another type refers to                                     *)
(*   order    NOT_ORDERED, ORDERING or ORDERED, queue: the emit queue        *)
(*   emit     NOT_EMITTED, EMITTING or EMITTED, fwd: ids declared forward    *)
(*   tnames   how often a tag, inames: an identifier was used                *)
(*   cached   the number each named type got with its name                   *)
(*   out      the declarations printed so far                                *)
(* A declaration is [def, toks]: what it defines ("" for a tag, else the     *)
(* typedef's name) and its C tokens.  A name is <<name, number>>; number n   *)
(* above 1 prints as name___n.  Space is left out.                           *)
(***************************************************************************)
EXTENDS Btf, Functions

Tok(t) == [t |-> t]
PtrBytes == 8
NoName == <<"", 0>>
Plain(name) == IF name = "" THEN NoName ELSE <<name, 1>>

(* btf_dump_mark_referenced; what a function returns is not marked.          *)
References(t) ==
  CASE t.kind \in Mods \cup {"PTR", "TYPEDEF", "FUNC", "VAR"} -> {t.type}
    [] t.kind = "ARRAY" -> {t.type, t.index}
    [] t.kind \in Composite \cup {"FUNC_PROTO", "DATASEC"} -> {m.type : m \in ToSet(t.elems)}
    [] OTHER -> {}
MarkReferenced(types) == UNION {References(t) : t \in ToSet(types)}

(* btf_dump__new and the first btf_dump__dump_type.                          *)
DumpNew(types) ==
  [types |-> types, ref |-> MarkReferenced(types), queue |-> <<>>, fwd |-> {}, out |-> <<>>,
   order |-> [i \in 0 .. Len(types) |-> IF i = 0 THEN "ORDERED" ELSE "NOT_ORDERED"],
   emit |-> [i \in 0 .. Len(types) |-> IF i = 0 THEN "EMITTED" ELSE "NOT_EMITTED"],
   tnames |-> <<>>, inames |-> <<>>, cached |-> <<>>]

(* btf_dump_add_emit_queue_id.                                               *)
AddEmitQueueId(d, id) == [d EXCEPT !.queue = Append(@, id)]

(* Mutant: a struct behind a pointer has to be ordered too.                  *)
OnlyDeclared(t, through_ptr) == FALSE
(* A named struct or union behind a pointer only has to be declared.         *)
Declarable(t, through_ptr) == through_ptr /\ t.name # ""

(* btf_dump_order_type: [d, r], r is 1 on a strong link, 0 on a weak one and *)
(* -1 for a cycle no declaration can break.                                  *)
RECURSIVE OrderType(_, _, _)
OrderType(d, id, through_ptr) ==
  LET t == TypeById(d.types, id)
      Ret(e, v) == [d |-> e, r |-> v]
      Mark(e) == [e EXCEPT !.order[id] = "ORDERED"]
      next == OrderType(d, t.type, through_ptr \/ t.kind = "PTR")
      members == FoldLeft(LAMBDA s, m : IF s.r < 0 THEN s ELSE OrderType(s.d, m.type, FALSE),
                          Ret([d EXCEPT !.order[id] = "ORDERING"], 0), t.elems)
      params == FoldLeft(LAMBDA s, p :
                           IF s.r < 0 THEN s
                           ELSE LET n == OrderType(s.d, p.type, through_ptr)
                                IN  IF n.r = 0 THEN Ret(n.d, s.r) ELSE n,
                         next, t.elems)
      toplevel == t.name # "" \/ id \notin d.ref
  IN  CASE d.order[id] = "ORDERED" -> Ret(d, 1)
        [] d.order[id] = "ORDERING" ->
             Ret(d, IF t.kind \in Composite /\ through_ptr /\ t.name # "" THEN 0 ELSE -1)
        [] OTHER ->
      CASE t.kind \in {"INT", "FUNC", "VAR", "DATASEC"} -> Ret(Mark(d), 0)
        [] t.kind = "PTR" -> Ret(Mark(next.d), next.r)
        [] t.kind \in Mods \cup {"ARRAY"} -> next
        [] t.kind \in Composite ->
             IF Declarable(t, through_ptr) THEN Ret(d, 0)
             ELSE IF members.r < 0 THEN members
             ELSE Ret(Mark(IF t.name # "" THEN AddEmitQueueId(members.d, id) ELSE members.d), 1)
        [] t.kind \in {"ENUM", "FWD"} ->
             Ret(Mark(IF toplevel THEN AddEmitQueueId(d, id) ELSE d), 1)
        [] t.kind = "TYPEDEF" ->
             IF next.r < 0 \/ (through_ptr /\ next.r = 0) THEN next
             ELSE Ret(Mark(AddEmitQueueId(next.d, id)), 1)
        [] t.kind = "FUNC_PROTO" -> params
        [] OTHER -> Ret(d, -1)
-----------------------------------------------------------------------------
(* Names.  btf_dump_name_dups counts the uses of a name in a map.            *)
Dups(names, name) == (IF name \in DOMAIN names THEN names[name] ELSE 0) + 1
Counted(names, name) == (name :> Dups(names, name)) @@ names

(* btf_dump_resolve_name: the number is given once and kept; [d, name].      *)
TypeName(d, id) ==
  LET name == d.types[id].name
      n == IF id \in DOMAIN d.cached THEN d.cached[id] ELSE Dups(d.tnames, name)
  IN  IF name = "" THEN [d |-> d, name |-> NoName]
      ELSE IF id \in DOMAIN d.cached THEN [d |-> d, name |-> <<name, n>>]
      ELSE [d |-> [d EXCEPT !.cached = (id :> n) @@ @, !.tnames = Counted(@, name)], name |-> <<name, n>>]
IdentName(d, id) ==
  LET name == d.types[id].name
      n == IF id \in DOMAIN d.cached THEN d.cached[id] ELSE Dups(d.inames, name)
  IN  IF id \in DOMAIN d.cached THEN [d |-> d, name |-> <<name, n>>]
      ELSE [d |-> [d EXCEPT !.cached = (id :> n) @@ @, !.inames = Counted(@, name)], name |-> <<name, n>>]
-----------------------------------------------------------------------------
(* Layout.  btf_align_of, in bytes.                                          *)
RECURSIVE AlignOf(_, _)
AlignOf(types, id) ==
  LET t == TypeById(types, id)
      Larger(a, b) == IF a > b THEN a ELSE b
  IN  CASE t.kind \in {"INT", "ENUM"} -> IF t.size < PtrBytes THEN t.size ELSE PtrBytes
        [] t.kind = "PTR" -> PtrBytes
        [] t.kind \in Mods \cup {"TYPEDEF", "ARRAY"} -> AlignOf(types, t.type)
        [] t.kind \in Composite -> FoldLeft(LAMBDA a, m : Larger(a, AlignOf(types, m.type)), 1, t.elems)
        [] OTHER -> 1

MemberBits(t, m) == IF t.kflag THEN m.bits ELSE 0
(* btf_is_struct_packed.                                                     *)
IsStructPacked(types, id) ==
  LET t == types[id]
  IN  \/ t.size % AlignOf(types, id) # 0
      \/ \E i \in DOMAIN t.elems : /\ MemberBits(t, t.elems[i]) = 0
                                   /\ t.elems[i].off % (8 * AlignOf(types, t.elems[i].type)) # 0

ChipAwayBits(total, at_most) == IF total % at_most = 0 THEN at_most ELSE total % at_most
Field(toks, unit, bits) == [toks |-> toks, unit |-> unit, bits |-> bits]
(* Unnamed bitfields until the gap is closed; unit is the bits of the type.  *)
RECURSIVE Pads(_)
Pads(gap) ==
  IF gap <= 0 THEN <<>>
  ELSE LET unit == IF gap > 32 THEN 64 ELSE IF gap > 16 THEN 32 ELSE IF gap > 8 THEN 16 ELSE 8
           bits == ChipAwayBits(gap, unit)
       IN  <<Field(<<>>, unit, bits)>> \o Pads(gap - bits)
(* btf_dump_emit_bit_padding: a gap alignment leaves by itself needs none.   *)
EmitBitPadding(cur_off, m_off, m_bit_sz, align) ==
  IF m_bit_sz = 0 /\ m_off - cur_off < align * 8 THEN <<>> ELSE Pads(m_off - cur_off)
-----------------------------------------------------------------------------
(* btf_dump_emit_type_decl: the ids from a type to the one that ends the     *)
(* declarator.                                                               *)
RECURSIVE DeclStack(_, _)
DeclStack(types, id) ==
  LET t == TypeById(types, id)
  IN  IF t.kind \in Mods \cup {"PTR", "FUNC_PROTO", "ARRAY"} THEN <<id>> \o DeclStack(types, t.type) ELSE <<id>>

(* Printing has the state and the tokens so far: p is [d, toks].             *)
Put(p, tok) == [p EXCEPT !.toks = Append(@, tok)]
PutName(p, name) == IF name = NoName THEN p ELSE Put(p, [t |-> "name", name |-> name])
TagTok(kind, name) == [t |-> "tag", kind |-> kind, name |-> name]

IsMod(d, id) == TypeById(d.types, id).kind \in Mods
RECURSIVE PopMods(_, _)
PopMods(d, stack) == IF stack # <<>> /\ IsMod(d, Last(stack)) THEN PopMods(d, Front(stack)) ELSE stack
(* btf_dump_emit_mods.                                                       *)
RECURSIVE EmitMods(_, _)
EmitMods(p, stack) ==
  IF stack # <<>> /\ IsMod(p.d, Last(stack))
  THEN EmitMods(Put(p, Tok(p.d.types[Last(stack)].kind)), Front(stack)) ELSE p

EmitStructFwd(p, id) ==
  LET n == TypeName(p.d, id) IN [d |-> n.d, toks |-> Append(p.toks, TagTok(p.d.types[id].kind, n.name))]
EmitEnumFwd(p, id) == EmitStructFwd(p, id)
(* btf_dump_emit_fwd_def.                                                    *)
EmitFwdDef(p, id) ==
  LET n == TypeName(p.d, id)
  IN  [d |-> n.d, toks |-> Append(p.toks, TagTok(IF p.d.types[id].kflag THEN "UNION" ELSE "STRUCT", n.name))]
(* btf_dump_emit_enum_def: enumerators are identifiers.                      *)
EmitEnumDef(p, id) ==
  LET n == TypeName(p.d, id)
      t == p.d.types[id]
      r == FoldLeft(LAMBDA s, e : [d |-> [s.d EXCEPT !.inames = Counted(@, e.name)],
                                   vals |-> Append(s.vals, <<e.name, Dups(s.d.inames, e.name)>>)],
                    [d |-> n.d, vals |-> <<>>], t.elems)
  IN  [d |-> r.d, toks |-> Append(p.toks, [t |-> "enum", name |-> n.name, vals |-> r.vals])]

RECURSIVE EmitTypeChain(_, _, _), EmitTypeDecl(_, _, _), EmitStructDef(_, _)
(* btf_dump_emit_type_decl: the tokens of one declaration, [d, toks].        *)
EmitTypeDecl(d, id, fname) == EmitTypeChain([d |-> d, toks |-> <<>>], DeclStack(d.types, id), fname)

(* btf_dump_emit_struct_def.                                                 *)
EmitStructDef(p, id) ==
  LET t == p.d.types[id]
      types == p.d.types
      packed == t.kind = "STRUCT" /\ IsStructPacked(types, id)
      Align(m) == IF packed THEN 1 ELSE AlignOf(types, m)
      n == TypeName(p.d, id)
      Member(s, m) ==
        LET bits == MemberBits(t, m)
            decl == EmitTypeDecl(s.d, m.type, Plain(m.name))
            size == ResolveSize(types, m.type)
        IN  [d |-> decl.d,
             off |-> m.off + (IF bits # 0 THEN bits ELSE IF IsError(size) THEN 0 ELSE size.size * 8),
             fields |-> s.fields \o EmitBitPadding(s.off, m.off, bits, Align(m.type))
                          \o <<Field(decl.toks, 0, bits)>>]
      r == FoldLeft(Member, [d |-> n.d, off |-> 0, fields |-> <<>>], t.elems)
      last == IF t.kind = "STRUCT" THEN EmitBitPadding(r.off, t.size * 8, 0, Align(id)) ELSE <<>>
  IN  [d |-> r.d, toks |-> Append(p.toks, [t |-> "def", kind |-> t.kind, name |-> n.name, packed |-> packed,
                                           fields |-> r.fields \o last])]

(* The type that ends a declarator.                                          *)
EmitBase(p, id) ==
  LET t == TypeById(p.d.types, id)
      n == IdentName(p.d, id)
  IN  CASE t.kind = "VOID" -> Put(p, Tok("VOID"))
        [] t.kind = "INT" -> Put(p, [t |-> "INT", name |-> t.name])
        [] t.kind \in Composite -> IF t.name = "" THEN EmitStructDef(p, id) ELSE EmitStructFwd(p, id)
        [] t.kind = "ENUM" -> IF t.name = "" THEN EmitEnumDef(p, id) ELSE EmitEnumFwd(p, id)
        [] t.kind = "FWD" -> EmitFwdDef(p, id)
        [] t.kind = "TYPEDEF" -> [d |-> n.d, toks |-> Append(p.toks, [t |-> "TYPEDEF", name |-> n.name])]

(* The parameters of a function: one void is none, a last one is "...".      *)
EmitParams(d, params) ==
  IF Len(params) = 1 /\ params[1].type = 0 THEN [d |-> d, args |-> <<>>]
  ELSE FoldLeft(LAMBDA s, i :
                  IF i = Len(params) /\ params[i].type = 0 THEN [s EXCEPT !.args = Append(@, <<Tok("...")>>)]
                  ELSE LET a == EmitTypeDecl(s.d, params[i].type, Plain(params[i].name))
                       IN  [d |-> a.d, args |-> Append(s.args, a.toks)],
                [d |-> d, args |-> <<>>], [i \in DOMAIN params |-> i])

(* Mutant: parentheses are left out before an array.                         *)
NoParens(d, stack) == TRUE
(* An array of arrays needs no parentheses.                                  *)
Multidim(d, stack) == TypeById(d.types, Last(stack)).kind = "ARRAY"

(* btf_dump_emit_type_chain: the stack is popped from its end; an array and  *)
(* a function print what is left of it, then themselves.                     *)
EmitTypeChain(p, stack, fname) ==
  LET id == Last(stack)
      rest == Front(stack)
      t == TypeById(p.d.types, id)
      left == PopMods(p.d, rest)
      dim == [t |-> "ARRAY", n |-> t.nelems]
      inner == EmitTypeChain(Put(p, Tok("(")), left, fname)
      f == IF left = <<>> THEN PutName(EmitMods(p, rest), fname)
           ELSE Put(EmitTypeChain(Put(EmitMods(p, rest), Tok("(")), left, fname), Tok(")"))
      args == EmitParams(f.d, t.elems)
  IN  IF stack = <<>> THEN PutName(p, fname)
      ELSE CASE t.kind \in Mods \cup {"PTR"} -> EmitTypeChain(Put(p, Tok(t.kind)), rest, fname)
             [] t.kind = "ARRAY" ->
                  IF left = <<>> THEN Put(PutName(p, fname), dim)
                  ELSE IF Multidim(p.d, left) THEN Put(EmitTypeChain(p, left, fname), dim)
                  ELSE Put(Put(inner, Tok(")")), dim)
             [] t.kind = "FUNC_PROTO" -> Put([f EXCEPT !.d = args.d], [t |-> "FUNC_PROTO", args |-> args.args])
             [] t.kind \in {"FUNC", "VAR", "DATASEC", "null"} -> p
             [] OTHER -> EmitTypeChain(EmitBase(EmitMods(p, rest), id), left, fname)
-----------------------------------------------------------------------------
(* A declaration is complete: it goes to the output.                         *)
Printed(d, def, p) == [p.d EXCEPT !.out = Append(@, [def |-> def, toks |-> p.toks])]
Empty(d) == [d |-> d, toks |-> <<>>]
Declare(d, id) == LET e == Printed(d, NoName, EmitStructFwd(Empty(d), id)) IN [e EXCEPT !.fwd = @ \cup {id}]

(* btf_dump_is_blacklisted.                                                  *)
IsBlacklisted(d, id) == d.types[id].name = "__builtin_va_list"
(* btf_dump_emit_typedef_def, unless blacklisted; a __gnuc_va_list of void   *)
(* is made one of __builtin_va_list.                                         *)
EmitTypedefDef(d, id) ==
  LET n == IdentName(d, id)
      t == d.types[id]
      va == [d |-> n.d, toks |-> <<[t |-> "TYPEDEF", name |-> <<"__builtin_va_list", 1>>]>>]
  IN  IF IsBlacklisted(d, id) THEN d
      ELSE IF t.type = 0 /\ n.name = <<"__gnuc_va_list", 1>> THEN Printed(d, n.name, va)
      ELSE Printed(d, n.name, EmitTypeDecl(n.d, t.type, n.name))

(* btf_dump_emit_type for a type that is being emitted: a forward            *)
(* declaration, once; a typedef is one of itself.                            *)
EmitAgain(d, id, cont_id) ==
  LET t == d.types[id]
  IN  IF id \in d.fwd THEN d
      ELSE CASE t.kind \in Composite -> IF id = cont_id \/ t.name = "" THEN d ELSE Declare(d, id)
             [] t.kind = "TYPEDEF" -> LET e == EmitTypedefDef(d, id) IN [e EXCEPT !.fwd = @ \cup {id}]
             [] OTHER -> d

(* btf_dump_emit_type; cont_id is the definition the type is part of, 0 at   *)
(* the top level.                                                            *)
RECURSIVE EmitType(_, _, _)
EmitType(d, id, cont_id) ==
  LET t == TypeById(d.types, id)
      top == cont_id = 0
      State(e, s) == [e EXCEPT !.emit[id] = s]
      begun == State(d, "EMITTING")
      Elems(e, c) == FoldLeft(LAMBDA s, m : EmitType(s, m.type, c), e, t.elems)
      typedef == EmitType(begun, t.type, id)
      members == IF top \/ t.name = "" THEN Elems(begun, IF t.name = "" THEN cont_id ELSE id)
                 ELSE IF id \notin d.fwd /\ id # cont_id THEN Declare(begun, id) ELSE begun
  IN  CASE d.emit[id] = "EMITTED" -> d
        [] d.emit[id] = "EMITTING" -> EmitAgain(d, id, cont_id)
        [] OTHER ->
      CASE t.kind = "INT" -> State(d, "EMITTED")
        [] t.kind = "ENUM" ->
             State(IF top THEN Printed(d, NoName, EmitEnumDef(Empty(d), id)) ELSE d, "EMITTED")
        [] t.kind \in Mods \cup {"PTR", "ARRAY"} -> EmitType(d, t.type, cont_id)
        [] t.kind = "FWD" -> State(Printed(d, NoName, EmitFwdDef(Empty(d), id)), "EMITTED")
        [] t.kind = "TYPEDEF" ->
             State(IF id \notin typedef.fwd THEN EmitTypedefDef(typedef, id) ELSE typedef, "EMITTED")
        [] t.kind \in Composite ->
             IF top THEN State(Printed(members, NoName, EmitStructDef(Empty(members), id)), "EMITTED")
             ELSE State(members, "NOT_EMITTED")
        [] t.kind = "FUNC_PROTO" -> Elems(EmitType(d, t.type, cont_id), cont_id)
        [] OTHER -> d

(* btf_dump__dump_type: [err, d].                                            *)
DumpType(d, id) ==
  LET o == OrderType([d EXCEPT !.queue = <<>>], id, FALSE)
  IN  IF o.r < 0 THEN [err |-> TRUE, d |-> o.d]
      ELSE [err |-> FALSE, d |-> FoldLeft(LAMBDA s, i : EmitType(s, i, 0), o.d, o.d.queue)]
=============================================================================
