------------------------------- MODULE MCElf -------------------------------
(***************************************************************************)
(* Object files for ElfObject, and what must be true of the loaded program. *)
(* A case says how the sections are ordered, in which order the symbol      *)
(* table lists the two maps A and B, where the function called is, which    *)
(* symbols the relocations name, whether the call is one within the object, *)
(* and what the BTF says of the section .maps; Elf(c) is the object file.   *)
(***************************************************************************)
EXTENDS ElfObject

Place(layout, kind) == SelectInSeq(layout, LAMBDA k : k = kind)
Insn(op, imm) == [op |-> op, imm |-> imm, src |-> ""]
XdpInsns(off, src) ==
  <<Insn("ld_imm64", 7), Insn("second", 0), [Insn("call", off - 1) EXCEPT !.src = src], Insn("exit", 0)>>
TextInsns == <<Insn("exit", 1), Insn("ld_imm64", 0), Insn("second", 0), Insn("exit", 2)>>
MapField3 == <<[name |-> "type", val |-> 1, ok |-> TRUE],
               [name |-> "key_size", val |-> 4, ok |-> TRUE], [name |-> "value", val |-> 4, ok |-> TRUE]>>
BtfVar(name, off, fields) ==
  [name |-> name, offset |-> off, size |-> 24, kind |-> "VAR", linkage |-> "global",
   struct |-> TRUE, def_size |-> 24, fields |-> fields]

SectionOf(layout, kind) ==
  LET S(name, type, exec, size, info) ==
        [name |-> name, type |-> type, exec |-> exec, size |-> size, info |-> info]
  IN  CASE kind = "text" -> S(".text", "PROGBITS", TRUE, 32, 0)
        [] kind = "xdp" -> S("xdp_sock", "PROGBITS", TRUE, 32, 0)
        [] kind = "maps" -> S("maps", "PROGBITS", FALSE, 40, 0)
        [] kind = "btfmaps" -> S(".maps", "PROGBITS", FALSE, 48, 0)
        [] kind = "data" -> S(".data", "PROGBITS", FALSE, 8, 0)
        [] kind = "BTF" -> S(".BTF", "PROGBITS", FALSE, 8, 0)
        [] kind = "symtab" -> S(".symtab", "SYMTAB", FALSE, 8, 0)
        [] kind = "relxdp" -> S(".relxdp", "REL", FALSE, 32, Place(layout, "xdp"))
        [] kind = "reltext" -> S(".rel.text", "REL", FALSE, 16, Place(layout, "text"))

Elf(c) ==
  LET layout == c.layout
      off == c.off
      sec(kind) == Place(layout, kind)
      mapsec == IF sec("maps") # 0 THEN sec("maps") ELSE sec("btfmaps")
      size == IF sec("maps") # 0 THEN 20 ELSE 24
      Sym(name, sh, v, g) == [name |-> name, shndx |-> sh, value |-> v, global |-> g]
      mapsyms == <<Sym("A", mapsec, 0, TRUE), Sym("B", mapsec, size, TRUE)>>
      syms == (IF c.flip THEN <<mapsyms[2], mapsyms[1]>> ELSE mapsyms)
                \o <<Sym("local", sec("data"), 0, FALSE), Sym("global", sec("data"), 0, TRUE),
                     Sym("func", sec("text"), off * 8, TRUE), Sym("undef", 0, 0, TRUE),
                     Sym("prog", sec("xdp"), 0, TRUE)>>
      index(name) == SelectInSeq(syms, LAMBDA s : s.name = name)
      vars == IF sec("maps") = 0 /\ c.datasec = "full" THEN <<BtfVar("A", 0, c.fields), BtfVar("B", 24, MapField3)>> ELSE <<>>
  IN  [secs |-> [i \in DOMAIN layout |-> SectionOf(layout, layout[i])],
       syms |-> syms, vars |-> IF c.flip THEN Reverse(vars) ELSE vars,
       datasec |-> c.datasec # "none",
       insns |-> [i \in DOMAIN layout |-> IF layout[i] = "text" THEN TextInsns ELSE XdpInsns(off, c.src)],
       rels |-> [i \in DOMAIN layout |->
                   IF layout[i] = "relxdp" THEN <<[insn |-> 0, sym |-> index(c.ld)],
                                                  [insn |-> 2, sym |-> index(c.call)]>>
                   ELSE <<[insn |-> 1, sym |-> index(c.text)]>>],
       kinds |-> {"INT", "VAR", "DATASEC", "FUNC"}, btf |-> "ok", btf_ext |-> "ok", extra |-> FALSE,
       heap |-> [err |-> OK, type |-> c.heap, insn_idx |-> 0, map_idx |-> 1]]

Layouts ==
  {l \o t : l \in SetToSeqs({"text", "xdp", "maps", "data"}),
            t \in {<<"symtab", "relxdp", "reltext">>, <<"reltext", "relxdp", "symtab">>}}
  \cup {l \o <<"symtab", "BTF", "relxdp">> : l \in SetToSeqs({"text", "xdp", "btfmaps"})}
  \cup {<<"xdp", "maps", "data", "symtab", "relxdp">>, <<"symtab", "xdp", "btfmaps", "relxdp">>,
        <<"xdp", "maps", "relxdp">>}

Fields == {MapField3, Append(MapField3, [name |-> "key", val |-> 8, ok |-> TRUE]),
           Append(MapField3, [name |-> "pinning", val |-> 1, ok |-> TRUE]), Tail(MapField3)}

ElfCases ==
  {c \in [layout : Layouts, flip : BOOLEAN, off : {0, 1}, text : {"A", "B"}, call : {"func", "undef"},
          ld : {"A", "B", "local", "global", "func", "undef"}, fields : Fields,
          heap : {"none", "RELO_LD64"}, src : {"PSEUDO_CALL", ""}, datasec : {"full", "empty", "none"},
          caps : {[global_data |-> g, btf_datasec |-> g, btf_func |-> f] : g, f \in BOOLEAN}] :
     /\ c.fields # MapField3 => Place(c.layout, "btfmaps") # 0 /\ c.call = "func"
     /\ c.call = "undef" \/ ~c.caps.btf_func => c.ld \in {"A", "local"} /\ c.text = "A"
     /\ c.heap # "none" => c.ld \in {"func", "undef"} /\ c.datasec = "full"
     /\ c.src = "" => c.datasec = "full" /\ c.call = "func" /\ c.ld = "A" /\ c.off = 0
     /\ c.datasec # "full" => /\ Place(c.layout, "btfmaps") # 0 /\ c.fields = MapField3
                              /\ c.call = "func" /\ c.ld \in {"A", "func"} /\ c.off = 0}

Fd(i) == 100 + i
(* Collecting the sections, then the relocations, then relocating with the  *)
(* maps' file descriptors.                                                  *)
OpenAndRelocate(e, caps) ==
  LET obj == ElfCollect(e, caps, TRUE)
      rel == CollectRelocs(e, obj, caps)
      out == Relocate(obj, rel.descs, [i \in DOMAIN obj.maps |-> Fd(i)])
  IN  IF obj.err # OK THEN [err |-> obj.err]
      ELSE IF rel.err # OK THEN [err |-> rel.err]
      ELSE IF out.err # OK THEN [err |-> out.err]
      ELSE [err |-> OK, obj |-> obj, progs |-> out.progs]

FdsOf(r, name) == {Fd(i) : i \in {j \in DOMAIN r.obj.maps : r.obj.maps[j].name = name}}

(* Relocation rel of program p, as it shows in the instructions of program  *)
(* q, which is p or has a copy of p = .text behind its own instructions.    *)
Resolved(e, r, q, at, rel) ==
  LET s == e.syms[rel.sym]
      insns == r.progs[q].insns
  IN  CASE insns[at].op = "call" -> at + 1 + insns[at].imm = r.progs[q].main_prog_cnt + s.value \div InsnSize + 1
        [] s.name \in {"A", "B"} -> insns[at].imm \in FdsOf(r, s.name) /\ insns[at].src = "MAP_FD"
        [] s.name = "local" -> insns[at].imm \in FdsOf(r, "DATA") /\ insns[at + 1].imm = 7
        [] OTHER -> TRUE

(* Well-formed BTF is never what an old kernel refuses an object for, and   *)
(* a section .maps with no variables is no reason to refuse it either.  In  *)
(* an object that loads, the maps are in the order of their definitions     *)
(* whatever the order of the symbol table; an instruction that loads a map  *)
(* has the descriptor of the map its symbol names, also in the copy of      *)
(* .text a program carries if .text comes before the program; and a call    *)
(* lands on the function's first instruction in that copy.  An ld_imm64 of  *)
(* a function or of an undefined symbol is not among these: its descriptor  *)
(* may be garbage.                                                          *)
RelocatedRight(c) ==
  LET e == Elf(c)
      r == OpenAndRelocate(e, c.caps)
      RelsOf(idx) == UNION {ToSet(e.rels[k]) : k \in {m \in DOMAIN e.secs : e.secs[m].type = "REL"
                                                                        /\ e.secs[m].info = idx}}
      text == SelectInSeq(r.progs, LAMBDA p : p.section_name = ".text")
  IN  /\ r.err # "BTF" \/ Place(c.layout, "BTF") = 0
      /\ r.err = "ENOENT" => c.datasec = "none"
      /\ r.err = OK =>
        /\ c.src = "PSEUDO_CALL"
        /\ c.datasec = "full" \/ (c.datasec = "empty" /\ r.obj.maps = <<>>)
        /\ \A i, j \in DOMAIN r.obj.maps : i < j => MapBefore(r.obj.maps[i], r.obj.maps[j])
        /\ \A p \in DOMAIN r.progs : \A rel \in RelsOf(r.progs[p].idx) : Resolved(e, r, p, rel.insn + 1, rel)
        /\ \A p \in DOMAIN r.progs :
             r.progs[p].main_prog_cnt # 0 /\ text < p =>
               \A rel \in RelsOf(r.progs[text].idx) :
                 Resolved(e, r, p, r.progs[p].main_prog_cnt + rel.insn + 1, rel)
=============================================================================
