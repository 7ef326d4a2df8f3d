------------------------------ MODULE ElfObject ------------------------------
(***************************************************************************)
(* How libbpf reads an eBPF object file (libbpf/src/libbpf.c, from          *)
(* bpf_object__elf_collect to bpf_program__collect_reloc): which sections   *)
(* become programs, maps, BTF and relocations, and which map or function a  *)
(* relocation of an instruction names.                                      *)
(*                                                                         *)
(* An object file is a record                                               *)
(*   secs    sequence of [name, type, exec, size, info]; info is the        *)
(*           section a REL section applies to; a section's index is its     *)
(*           position (section 0 of ELF is not listed)                      *)
(*   syms    sequence of [name, shndx, value, global]                       *)
(*   vars    variables of the BTF section .maps, [name, offset, size, kind, *)
(*           linkage, struct, def_size, fields]; fields is a sequence of    *)
(*           [name, val, ok], ok: the type has the shape the field needs    *)
(*   datasec the BTF has a DATASEC .maps                                    *)
(*   insns   for each program section, a sequence of [op, imm, src]; the    *)
(*           second half of an ld_imm64 has op "second", and the src of a   *)
(*           call within the object is "PSEUDO_CALL"                        *)
(*   rels    for each REL section, a sequence of [insn, sym]; instructions  *)
(*           count from 0                                                   *)
(*   btf, btf_ext   "ok", or "corrupt"; kinds: the kinds of the BTF types   *)
(*   extra   the bytes of a map definition beyond struct bpf_map_def are    *)
(*           not zero                                                       *)
(*   heap    what malloc's memory holds where a descriptor goes             *)
(* and err is "" or what the function returns.  Sizes are in bytes; a     *)
(* failing malloc is BpfObject's.                                           *)
(***************************************************************************)
EXTENDS Integers, Sequences, FiniteSets, SequencesExt

NoSection == 0
OK == ""
InsnSize == 8

(* struct bpf_object after bpf_object__new: what the section loop fills in. *)
NewObject ==
  [err |-> OK, maps_shndx |-> NoSection, btf_maps_shndx |-> NoSection,
   data_shndx |-> NoSection, rodata_shndx |-> NoSection, bss_shndx |-> NoSection,
   text_shndx |-> NoSection, symtab |-> FALSE, btf_data |-> FALSE, btf_ext_data |-> FALSE,
   programs |-> <<>>, reloc |-> <<>>]

(* section_have_execinstr: a section index out of range has no flags.       *)
HaveExecInstr(elf, idx) == idx \in DOMAIN elf.secs /\ elf.secs[idx].exec

(* bpf_object__init_kversion; bpf_object__init_license accepts anything.    *)
InitKversion(s, obj) == IF s.size # 4 THEN [obj EXCEPT !.err = "FORMAT"] ELSE obj

(* bpf_object__add_program, with bpf_program__init.                         *)
AddProgram(elf, obj, idx) ==
  IF elf.secs[idx].size % InsnSize # 0 THEN [obj EXCEPT !.err = "EINVAL"]
  ELSE [obj EXCEPT !.programs = Append(@, [idx |-> idx, section_name |-> elf.secs[idx].name,
                                           insns |-> elf.insns[idx], main_prog_cnt |-> 0])]

(* One turn of the loop over the sections.  A section is classified by its  *)
(* name first, then by its type.                                            *)
CollectSection(elf, obj, idx) ==
  LET s == elf.secs[idx]
  IN  CASE obj.err # OK -> obj
        [] s.name = "license" -> obj
        [] s.name = "version" -> InitKversion(s, obj)
        [] s.name = "maps" -> [obj EXCEPT !.maps_shndx = idx]
        [] s.name = ".maps" -> [obj EXCEPT !.btf_maps_shndx = idx]
        [] s.name = ".BTF" -> [obj EXCEPT !.btf_data = TRUE]
        [] s.name = ".BTF.ext" -> [obj EXCEPT !.btf_ext_data = TRUE]
        [] s.type = "SYMTAB" -> IF obj.symtab THEN [obj EXCEPT !.err = "FORMAT"] ELSE [obj EXCEPT !.symtab = TRUE]
        [] s.type = "PROGBITS" /\ s.size > 0 /\ s.exec ->
             AddProgram(elf, IF s.name = ".text" THEN [obj EXCEPT !.text_shndx = idx] ELSE obj, idx)
        [] s.type = "PROGBITS" /\ s.size > 0 /\ s.name = ".data" -> [obj EXCEPT !.data_shndx = idx]
        [] s.type = "PROGBITS" /\ s.size > 0 /\ s.name = ".rodata" -> [obj EXCEPT !.rodata_shndx = idx]
        [] s.type = "REL" /\ HaveExecInstr(elf, s.info) -> [obj EXCEPT !.reloc = Append(@, idx)]
        [] s.type = "NOBITS" /\ s.name = ".bss" -> [obj EXCEPT !.bss_shndx = idx]
        [] OTHER -> obj

(* The whole loop, and the check of the string table index, which is set    *)
(* with the symbol table.                                                   *)
CollectSections(elf) ==
  LET obj == FoldLeftDomain(LAMBDA o, i : CollectSection(elf, o, i), NewObject, elf.secs)
  IN  IF obj.err = OK /\ ~obj.symtab THEN [obj EXCEPT !.err = "FORMAT"] ELSE obj
-----------------------------------------------------------------------------
(* bpf_object__init_btf: BTF is mandatory when there is a section .maps;    *)
(* otherwise corrupt BTF is dropped, and with it .BTF.ext.                  *)
InitBtf(elf, obj) ==
  LET btf == obj.btf_data /\ elf.btf = "ok"
      ext == btf /\ obj.btf_ext_data /\ elf.btf_ext = "ok"
  IN  [btf |-> btf, btf_ext |-> ext,
       err |-> IF obj.btf_maps_shndx # NoSection /\ ~btf THEN "BTF" ELSE OK]

UserMap(name, sec, off) ==
  [name |-> name, libbpf_type |-> "UNSPEC", sec_idx |-> sec, sec_offset |-> off,
   type |-> 0, key_size |-> 0, value_size |-> 0, max_entries |-> 0, map_flags |-> 0,
   pin |-> FALSE]

(* bpf_object__init_user_maps: every symbol of the section "maps" is a map, *)
(* in the order of the symbol table.  All definitions are taken to have the *)
(* same size, the section's size divided by the number of symbols.          *)
InitUserMaps(elf, obj, strict) ==
  LET mine == SelectSeq(elf.syms, LAMBDA s : s.shndx = obj.maps_shndx)
      size == elf.secs[obj.maps_shndx].size
  IN  IF obj.maps_shndx = NoSection THEN [err |-> OK, maps |-> <<>>]
      ELSE IF size = 0 \/ mine = <<>> \/ size % Len(mine) # 0 THEN [err |-> "EINVAL", maps |-> <<>>]
      ELSE LET bad == SelectInSeq(mine, LAMBDA s : \/ s.value + size \div Len(mine) > size
                                                   \/ elf.extra /\ strict)
           IN  [err |-> IF bad = 0 THEN OK ELSE "EINVAL",
                maps |-> [i \in DOMAIN mine |->
                            [UserMap(mine[i].name, obj.maps_shndx, mine[i].value)
                               EXCEPT !.type = 1, !.key_size = 1, !.value_size = 1]]]

(* get_map_field_int: an integer is the length of an array that a pointer   *)
(* points to; pinning BY_NAME is 1 and builds the path from the map's name. *)
IntField(m, f, field) == IF f.ok THEN [m EXCEPT ![field] = f.val] ELSE [m EXCEPT !.err = "EINVAL"]
PinPath(m, f) == IF f.val = 1 THEN [m EXCEPT !.pin = TRUE] ELSE m

(* One field of a BTF map definition.  A size that is given twice, as a     *)
(* size and by a type, must be the same.                                    *)
MapField(strict, m, f) ==
  LET Size(field) == IF ~f.ok \/ (m[field] # 0 /\ m[field] # f.val)
                       THEN [m EXCEPT !.err = "EINVAL"] ELSE [m EXCEPT ![field] = f.val]
  IN  CASE m.err # OK -> m
        [] f.name \in {"key_size", "key"} -> Size("key_size")
        [] f.name \in {"value_size", "value"} -> Size("value_size")
        [] f.name \in {"type", "max_entries", "map_flags"} ->
             IntField(m, f, f.name)
        [] f.name = "pinning" -> IF ~f.ok \/ f.val \notin {0, 1} THEN [m EXCEPT !.err = "EINVAL"]
                                 ELSE PinPath(m, f)
        [] OTHER -> IF strict THEN [m EXCEPT !.err = "ENOTSUP"] ELSE m

(* bpf_object__init_user_btf_map: the checks on the variable, the fields of *)
(* its structure in order, and a type in the end.                           *)
InitUserBtfMap(elf, obj, v, strict) ==
  LET m == [err |-> OK] @@ UserMap(v.name, obj.btf_maps_shndx, v.offset)
      filled == FoldLeft(LAMBDA a, f : MapField(strict, a, f), m, v.fields)
  IN  CASE v.name = "" -> [m EXCEPT !.err = "EINVAL"]
        [] v.offset + v.size > elf.secs[obj.btf_maps_shndx].size -> [m EXCEPT !.err = "EINVAL"]
        [] v.kind # "VAR" -> [m EXCEPT !.err = "EINVAL"]
        [] v.linkage \notin {"global", "static"} -> [m EXCEPT !.err = "EOPNOTSUPP"]
        [] ~v.struct \/ v.def_size > v.size -> [m EXCEPT !.err = "EINVAL"]
        [] OTHER -> IF filled.err = OK /\ filled.type = 0 THEN [filled EXCEPT !.err = "EINVAL"]
                    ELSE filled

(* bpf_object__init_user_btf_maps stops at the first variable it rejects;   *)
(* a DATASEC without variables gives no map, and is no error.               *)
InitUserBtfMaps(elf, obj, strict) ==
  LET all == [i \in DOMAIN elf.vars |-> InitUserBtfMap(elf, obj, elf.vars[i], strict)]
      bad == SelectInSeq(all, LAMBDA m : m.err # OK)
  IN  IF obj.btf_maps_shndx = NoSection THEN [err |-> OK, maps |-> <<>>]
      ELSE IF ~elf.datasec THEN [err |-> "ENOENT", maps |-> <<>>]
      ELSE [err |-> IF bad = 0 THEN OK ELSE all[bad].err,
            maps |-> [i \in DOMAIN all |-> [f \in DOMAIN all[i] \ {"err"} |-> all[i][f]]]]

(* bpf_object__init_global_data_maps: one internal map for each of .data,   *)
(* .rodata and .bss, if the kernel can do it.                               *)
GlobalDataMaps(elf, obj, caps) ==
  LET Internal(type, sec) ==
        IF sec = NoSection \/ ~caps.global_data THEN <<>>
        ELSE <<[UserMap(type, sec, 0) EXCEPT !.libbpf_type = type, !.type = 2, !.key_size = 1,
                                             !.value_size = elf.secs[sec].size]>>
  IN  Internal("DATA", obj.data_shndx) \o Internal("RODATA", obj.rodata_shndx)
        \o Internal("BSS", obj.bss_shndx)

(* compare_bpf_map, the order of qsort.                                     *)
MapBefore(a, b) ==
  a.sec_idx < b.sec_idx \/ (a.sec_idx = b.sec_idx /\ a.sec_offset < b.sec_offset)

(* bpf_object__init_maps: the three kinds of maps, then the sort.  Equal    *)
(* elements, two names for one definition, keep their order here.           *)
InitMaps(elf, obj, caps, strict) ==
  LET user == InitUserMaps(elf, obj, strict)
      btf == InitUserBtfMaps(elf, obj, strict)
      all == user.maps \o btf.maps \o GlobalDataMaps(elf, obj, caps)
      Rank(i) == Cardinality({j \in DOMAIN all : \/ MapBefore(all[j], all[i])
                                                 \/ ~MapBefore(all[i], all[j]) /\ j <= i})
  IN  IF user.err # OK THEN [err |-> user.err, maps |-> <<>>]
      ELSE IF btf.err # OK THEN [err |-> btf.err, maps |-> <<>>]
      ELSE [err |-> OK, maps |-> [r \in DOMAIN all |-> all[CHOOSE i \in DOMAIN all : Rank(i) = r]]]

(* bpf_object__sanitize_btf replaces the kinds an old kernel does not know. *)
SanitizeKind(kind, caps) ==
  CASE ~caps.btf_datasec /\ kind = "VAR" -> "INT"
    [] ~caps.btf_datasec /\ kind = "DATASEC" -> "STRUCT"
    [] ~caps.btf_func /\ kind = "FUNC_PROTO" -> "ENUM"
    [] ~caps.btf_func /\ kind = "FUNC" -> "TYPEDEF"
    [] OTHER -> kind

(* External: the kinds the kernel accepts.                                  *)
KernelKinds(caps) ==
  {"INT", "STRUCT", "ENUM", "TYPEDEF"} \cup (IF caps.btf_datasec THEN {"VAR", "DATASEC"} ELSE {})
    \cup (IF caps.btf_func THEN {"FUNC", "FUNC_PROTO"} ELSE {})

(* bpf_object__sanitize_and_load_btf: .BTF.ext needs function information;  *)
(* when the kernel refuses the BTF both are dropped, and that is an error   *)
(* only for an object with a section .maps.                                 *)
LoadBtf(elf, obj, btf, caps) ==
  LET accepted == \A k \in elf.kinds : SanitizeKind(k, caps) \in KernelKinds(caps)
  IN  [btf |-> btf.btf /\ accepted,
       btf_ext |-> btf.btf /\ accepted /\ btf.btf_ext /\ caps.btf_func,
       err |-> IF btf.btf /\ ~accepted /\ obj.btf_maps_shndx # NoSection THEN "BTF" ELSE OK]

(* bpf_object__init_prog_names: the first global symbol of the section.     *)
ProgName(elf, obj, p) ==
  LET i == SelectInSeq(elf.syms, LAMBDA s : s.shndx = p.idx /\ s.global)
  IN  IF i # 0 THEN elf.syms[i].name ELSE IF p.idx = obj.text_shndx THEN ".text" ELSE ""

(* bpf_object__elf_collect.                                                 *)
ElfCollect(elf, caps, strict) ==
  LET obj == CollectSections(elf)
      btf == InitBtf(elf, obj)
      maps == InitMaps(elf, obj, caps, strict)
      loaded == LoadBtf(elf, obj, btf, caps)
      names == [i \in DOMAIN obj.programs |-> ProgName(elf, obj, obj.programs[i])]
      err == CASE obj.err # OK -> obj.err
               [] btf.err # OK -> btf.err
               [] maps.err # OK -> maps.err
               [] loaded.err # OK -> loaded.err
               [] "" \in ToSet(names) -> "EINVAL"
               [] OTHER -> OK
  IN  IF err # OK THEN [NewObject EXCEPT !.err = err]
      ELSE obj @@ [maps |-> maps.maps, names |-> names, btf |-> loaded.btf,
                   btf_ext |-> loaded.btf_ext]
-----------------------------------------------------------------------------
IsData(obj, shndx) == shndx \in {obj.data_shndx, obj.rodata_shndx, obj.bss_shndx} \ {NoSection}
IsMaps(obj, shndx) == shndx \in {obj.maps_shndx, obj.btf_maps_shndx} \ {NoSection}
(* text_shndx is not set to -1 like the others: without a section .text it  *)
(* is 0, the section of an undefined symbol.                                *)
KnownSection(obj, shndx) ==
  shndx = obj.text_shndx \/ IsMaps(obj, shndx) \/ IsData(obj, shndx)
SectionMapType(obj, shndx) ==
  CASE ~IsData(obj, shndx) -> "UNSPEC"
    [] shndx = obj.data_shndx -> "DATA"
    [] shndx = obj.bss_shndx -> "BSS"
    [] OTHER -> "RODATA"

(* Mutant: the offset of the symbol is not compared.                        *)
FindMapOfSection(obj, s) ==
  LET type == SectionMapType(obj, s.shndx)
  IN  SelectInSeq(obj.maps, LAMBDA m : m.libbpf_type = type /\ m.sec_idx = s.shndx)

(* The map of a relocation to symbol s: the first one of the symbol's kind; *)
(* a map that is not internal must also have the symbol's place.            *)
FindMap(obj, s) ==
  LET type == SectionMapType(obj, s.shndx)
  IN  SelectInSeq(obj.maps, LAMBDA m :
        /\ m.libbpf_type = type
        /\ type # "UNSPEC" \/ (m.sec_idx = s.shndx /\ m.sec_offset = s.value))

(* bpf_program__collect_reloc for one relocation: the error, or the         *)
(* descriptor.  An ld_imm64 of an address in .text passes every check and   *)
(* leaves the descriptor as malloc returned it.                             *)
CollectReloc(elf, obj, caps, prog, rel) ==
  LET Fail(e) == [err |-> e, type |-> "none", insn_idx |-> rel.insn, map_idx |-> 0]
      s == elf.syms[rel.sym]
      insn == prog.insns[rel.insn + 1]
      type == SectionMapType(obj, s.shndx)
      map == FindMap(obj, s)
  IN  CASE rel.sym \notin DOMAIN elf.syms -> Fail("FORMAT")
        [] ~KnownSection(obj, s.shndx) -> Fail("RELOC")
        [] insn.op = "call" /\ insn.src # "PSEUDO_CALL" -> Fail("RELOC")
        [] insn.op = "call" -> [Fail(OK) EXCEPT !.type = "RELO_CALL"]
        [] insn.op # "ld_imm64" -> Fail("RELOC")
        [] ~IsMaps(obj, s.shndx) /\ ~IsData(obj, s.shndx) -> elf.heap
        [] type # "UNSPEC" /\ (s.global \/ ~caps.global_data) -> Fail("RELOC")
        [] map = 0 -> Fail("RELOC")
        [] OTHER -> [Fail(OK) EXCEPT !.type = IF type = "UNSPEC" THEN "RELO_LD64" ELSE "RELO_DATA",
                                     !.map_idx = map]

(* bpf_object__collect_reloc: every REL section in order; descs gives each  *)
(* program the descriptors of its section, or <<>> when it has none.        *)
CollectRelocs(elf, obj, caps) ==
  LET ProgOf(r) == SelectInSeq(obj.programs, LAMBDA p : p.idx = elf.secs[r].info)
      Descs(r) == [i \in DOMAIN elf.rels[r] |->
                     CollectReloc(elf, obj, caps, obj.programs[ProgOf(r)], elf.rels[r][i])]
      One(a, r) == IF a.err # OK THEN a
                   ELSE IF ProgOf(r) = 0 THEN [a EXCEPT !.err = "RELOC"]
                   ELSE LET bad == SelectInSeq(Descs(r), LAMBDA d : d.err # OK)
                        IN  IF bad # 0 THEN [a EXCEPT !.err = Descs(r)[bad].err]
                            ELSE [a EXCEPT !.descs[ProgOf(r)] = Descs(r)]
  IN  FoldLeft(One, [err |-> OK, descs |-> [i \in DOMAIN obj.programs |-> <<>>]], obj.reloc)

(* bpf_program__reloc_text: the first call appends the instructions of      *)
(* .text, as they are at that moment, to the program.                       *)
RelocText(obj, progs, p, d) ==
  LET t == SelectInSeq(progs, LAMBDA q : q.idx = obj.text_shndx)
      prog == progs[p]
      grown == IF prog.main_prog_cnt # 0 THEN prog
               ELSE [prog EXCEPT !.insns = @ \o progs[t].insns, !.main_prog_cnt = Len(prog.insns)]
  IN  IF prog.idx = obj.text_shndx \/ (prog.main_prog_cnt = 0 /\ t = 0) THEN [err |-> "RELOC", prog |-> prog]
      ELSE [err |-> OK, prog |-> [grown EXCEPT !.insns[d.insn_idx + 1].imm =
                                    @ + grown.main_prog_cnt - d.insn_idx]]

(* bpf_program__relocate for one descriptor of program p; fd gives the file *)
(* descriptor of each map.                                                  *)
RelocateOne(obj, fd, a, p, d) ==
  LET n == d.insn_idx + 1
      text == RelocText(obj, a.progs, p, d)
  IN  CASE a.err # OK -> a
        [] d.type \in {"RELO_LD64", "RELO_DATA"} /\ n + 1 > Len(a.progs[p].insns) ->
             [a EXCEPT !.err = "RELOC"]
        [] d.type = "RELO_LD64" ->
             [a EXCEPT !.progs[p].insns[n] = [@ EXCEPT !.src = "MAP_FD", !.imm = fd[d.map_idx]]]
        [] d.type = "RELO_DATA" ->
             [a EXCEPT !.progs[p].insns[n] = [@ EXCEPT !.src = "MAP_VALUE", !.imm = fd[d.map_idx]],
                       !.progs[p].insns[n + 1].imm = a.progs[p].insns[n].imm]
        [] d.type = "RELO_CALL" -> [err |-> text.err, progs |-> [a.progs EXCEPT ![p] = text.prog]]
        [] OTHER -> a

(* bpf_object__relocate: the programs in the order of their sections.       *)
Relocate(obj, descs, fd) ==
  LET Prog(a, p) == FoldLeft(LAMBDA b, d : RelocateOne(obj, fd, b, p, d), a, descs[p])
  IN  FoldLeftDomain(Prog, [err |-> OK, progs |-> obj.programs], obj.programs)
=============================================================================
