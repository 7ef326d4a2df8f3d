-------------------------------- MODULE Btf --------------------------------
(***************************************************************************)
(* BTF type information as libbpf reads it (libbpf/src/btf.c up to           *)
(* btf__dedup, and its callers in libbpf.c): the header, sizes of types, the *)
(* key and value types of a map, data sections, and the function and line   *)
(* information of .BTF.ext that follows the instructions of a program.       *)
(*                                                                         *)
(* A type is [kind, name, kflag, size, type, nelems, index, elems]; elems is *)
(* a sequence of [name, off, type]: members, parameters, enumerators (off is *)
(* the value) or variables of a section.  C keeps size and type in one word. *)
(* Type 0 is void.  Names are values, not offsets of strings.                *)
(***************************************************************************)
EXTENDS Integers, Sequences, FiniteSets, SequencesExt

CONSTANT UintMax     \* stands for UINT32_MAX
ASSUME BtfAssumption == UintMax \in Nat \ {0}

Error(e) == [err |-> e]
IsError(r) == "err" \in DOMAIN r
Null == [kind |-> "null"]
Type(kind, name, size, type) ==
  [kind |-> kind, name |-> name, kflag |-> FALSE, size |-> size, type |-> type,
   nelems |-> 0, index |-> 0, elems |-> <<>>]
Void == Type("VOID", "", 0, 0)
Mods == {"CONST", "VOLATILE", "RESTRICT"}
Composite == {"STRUCT", "UNION"}

(* btf_add_type: nr types fit an array of cap entries, void included.       *)
MaxTypes == 2147483647
AddType(nr, cap) ==
  LET Larger(a, b) == IF a > b THEN a ELSE b
      Smaller(a, b) == IF a < b THEN a ELSE b
  IN  IF cap - nr >= 2 THEN [nr |-> nr + 1, cap |-> cap]
      ELSE IF cap = MaxTypes THEN Error("E2BIG")
      ELSE [nr |-> nr + 1, cap |-> Smaller(MaxTypes, cap + Larger(cap \div 4, 16))]

(* btf_parse_hdr: h is [magic, version, flags, type_off, str_off], size that *)
(* of the data, the header included.  Only bit 1 of type_off is tested.      *)
HdrLen == 24
ParseHdr(h, size) ==
  LET left == size - HdrLen
  IN  IF size < HdrLen \/ ~h.magic THEN "EINVAL"
      ELSE IF h.version # 1 \/ h.flags # 0 THEN "ENOTSUP"
      ELSE IF left = 0 \/ left < h.type_off \/ left < h.str_off \/ h.type_off >= h.str_off
                \/ (h.type_off \div 2) % 2 = 1 THEN "EINVAL"
      ELSE ""
(* btf_parse_str_sec: the first and the last byte are zero.  strs is what    *)
(* memory holds in the str_len bytes from str_off on; that they end within   *)
(* the data is not checked.                                                  *)
ParseStrSec(strs) == IF strs # <<>> /\ Head(strs) = 0 /\ Last(strs) = 0 THEN "" ELSE "EINVAL"

(* btf_type_size.                                                            *)
TypeSize(t) ==
  LET n == Len(t.elems)
  IN  CASE t.kind \in Mods \cup {"FWD", "PTR", "TYPEDEF", "FUNC"} -> 12
        [] t.kind \in {"INT", "VAR"} -> 16
        [] t.kind \in {"ENUM", "FUNC_PROTO"} -> 12 + 8 * n
        [] t.kind = "ARRAY" -> 24
        [] t.kind \in Composite \cup {"DATASEC"} -> 12 + 12 * n
        [] OTHER -> -1
(* btf_parse_type_sec: types one after the other while one begins before the *)
(* strings; the array that holds them grows.                                 *)
ParseTypeSec(types, len) ==
  FoldLeft(LAMBDA s, t :
             IF IsError(s) \/ s.at >= len THEN s
             ELSE IF TypeSize(t) < 0 THEN Error("EINVAL")
             ELSE LET a == AddType(s.nr, s.cap)
                  IN  IF IsError(a) THEN a ELSE [nr |-> a.nr, cap |-> a.cap, at |-> s.at + TypeSize(t)],
           [nr |-> 0, cap |-> 0, at |-> 0], types)

TypeById(types, id) == IF id > Len(types) THEN Null ELSE IF id = 0 THEN Void ELSE types[id]
VoidOrNull(t) == t.kind \in {"null", "VOID", "FWD"}

MaxResolveDepth == 32
Steps == [i \in 1 .. MaxResolveDepth |-> i]
(* Mutant: the product is taken without looking for an overflow.             *)
FitsAlways(nelems, n) == TRUE
(* nelems * n stays below 2^32.                                              *)
Fits(nelems, n) == nelems = 0 \/ n <= UintMax \div nelems
(* btf__resolve_size.                                                        *)
ResolveSize(types, id) ==
  LET Step(s, i) ==
        LET t == TypeById(types, s.id)
        IN  IF IsError(s) \/ s.size >= 0 \/ VoidOrNull(t) THEN s
            ELSE CASE t.kind \in Composite \cup {"INT", "ENUM", "DATASEC"} -> [s EXCEPT !.size = t.size]
                   [] t.kind = "PTR" -> [s EXCEPT !.size = 8]
                   [] t.kind \in Mods \cup {"TYPEDEF", "VAR"} -> [s EXCEPT !.id = t.type]
                   [] t.kind = "ARRAY" ->
                        IF ~Fits(s.nelems, t.nelems) THEN Error("E2BIG")
                        ELSE [s EXCEPT !.id = t.type, !.nelems = (@ * t.nelems) % (UintMax + 1)]
                   [] OTHER -> Error("EINVAL")
      r == FoldLeft(Step, [id |-> id, nelems |-> 1, size |-> -1], Steps)
  IN  IF IsError(r) THEN r
      ELSE IF r.size < 0 THEN Error("EINVAL")
      ELSE IF ~Fits(r.nelems, r.size) THEN Error("E2BIG")
      ELSE [size |-> (r.nelems * r.size) % (UintMax + 1)]

(* btf__resolve_type: past modifiers, typedefs and variables.                *)
ResolveType(types, id) ==
  LET Skip(t) == t.kind \in Mods \cup {"TYPEDEF", "VAR"}
      Step(s, i) == LET t == TypeById(types, s.id)
                    IN  IF Skip(t) THEN [id |-> t.type, depth |-> s.depth + 1] ELSE s
      r == FoldLeft(Step, [id |-> id, depth |-> 0], Steps)
  IN  IF r.depth = MaxResolveDepth \/ VoidOrNull(TypeById(types, r.id)) THEN -1 ELSE r.id

(* btf__find_by_name: the first type of that name, 0 for void, -1 for none.  *)
FindByName(types, name) ==
  IF name = "void" THEN 0
  ELSE LET i == SelectInSeq(types, LAMBDA t : t.name = name) IN IF i = 0 THEN -1 ELSE i

(* btf__get_map_kv_tids: types of the first two members of the struct        *)
(* ____btf_map_<name>, if their sizes are the ones the map defines.          *)
GetMapKvTids(types, container, ksize, vsize) ==
  LET id == FindByName(types, container)
      t == types[id]
      SizeError(e, size) ==
        LET r == ResolveSize(types, e.type)
        IN  IF IsError(r) THEN r.err ELSE IF r.size # size THEN "EINVAL" ELSE ""
  IN  IF id < 0 THEN Error("ENOENT")
      ELSE IF t.kind # "STRUCT" \/ Len(t.elems) < 2 THEN Error("EINVAL")
      ELSE IF SizeError(t.elems[1], ksize) # "" THEN Error(SizeError(t.elems[1], ksize))
      ELSE IF SizeError(t.elems[2], vsize) # "" THEN Error(SizeError(t.elems[2], vsize))
      ELSE [key |-> t.elems[1].type, value |-> t.elems[2].type]

(* bpf_map_find_btf_info: m is [name, btf_defined, internal, key_size,       *)
(* value_size].                                                              *)
MapFindBtfInfo(types, m) ==
  LET id == FindByName(types, m.name)
  IN  IF m.btf_defined THEN [key |-> 0, value |-> 0]
      ELSE IF ~m.internal THEN GetMapKvTids(types, m.name, m.key_size, m.value_size)
      ELSE IF id < 0 THEN Error("ENOENT") ELSE [key |-> 0, value |-> id]

(* btf_fixup_datasec: the size is the ELF section's, offsets of variables    *)
(* that are not static come from the symbol table, and the variables are     *)
(* sorted.  secs and syms map names to sizes and offsets.  A type id that    *)
(* nothing has is not checked: its type is NULL, and the test of its kind    *)
(* crashes.                                                                  *)
FixupDatasec(types, t, secs, syms) ==
  LET var(e) == TypeById(types, e.type)
      static(e) == var(e).kflag       \* linkage of a VAR
      bad == SelectInSeq(t.elems, LAMBDA e : var(e).kind # "VAR"
                                               \/ ~(static(e) \/ var(e).name \in DOMAIN syms))
      moved == [i \in DOMAIN t.elems |->
                  IF static(t.elems[i]) THEN t.elems[i]
                  ELSE [t.elems[i] EXCEPT !.off = syms[var(t.elems[i]).name]]]
  IN  IF t.name \notin DOMAIN secs THEN Error("ENOENT")
      ELSE IF secs[t.name] = 0 \/ (t.size # 0 /\ t.size # secs[t.name]) THEN Error("ENOENT")
      ELSE IF bad # 0 THEN Error(CASE var(t.elems[bad]) = Null -> "crash"
                                   [] var(t.elems[bad]).kind \notin {"null", "VAR"} -> "EINVAL"
                                   [] OTHER -> "ENOENT")
      ELSE [t EXCEPT !.size = secs[t.name], !.elems = SortSeq(moved, LAMBDA a, b : a.off < b.off)]
(* btf__finalize_data: every section, up to the first error.                 *)
FinalizeData(types, secs, syms) ==
  FoldLeft(LAMBDA s, i :
             IF s.err # "" \/ s.types[i].kind # "DATASEC" THEN s
             ELSE LET t == FixupDatasec(s.types, s.types[i], secs, syms)
                  IN  IF IsError(t) THEN [s EXCEPT !.err = t.err] ELSE [s EXCEPT !.types[i] = t],
           [err |-> "", types |-> types], [i \in DOMAIN types |-> i])

(* btf__get_from_id: the kernel says how large the BTF is, and is asked once *)
(* more with a buffer of that size.  k is [fd, alloc, err1, size1, err2,     *)
(* size2, errno, valid]: the allocation that fails, both answers, what an    *)
(* earlier call left in errno, and whether btf__new takes the data.  The     *)
(* error is errno also when no call failed and the BTF is too large.         *)
Errno == [EINVAL |-> 22, ENOMEM |-> 12]
GetFromId(k) ==
  LET again == k.err1 = 0 /\ k.size1 > 4096
      err == IF again THEN k.err2 ELSE k.err1
      size == IF again THEN k.size2 ELSE k.size1
      room == IF again THEN k.size1 ELSE 4096
      Failed(e) == [err |-> e, btf |-> FALSE]
  IN  IF k.fd < 0 THEN Failed(0)
      ELSE IF k.alloc = "malloc" \/ (again /\ k.alloc = "realloc") THEN Failed(-Errno.ENOMEM)
      ELSE IF err # 0 THEN Failed(Errno.EINVAL)
      ELSE IF size > room THEN Failed(k.errno)
      ELSE IF ~k.valid THEN Failed(-Errno.EINVAL)
      ELSE [err |-> 0, btf |-> TRUE]
-----------------------------------------------------------------------------
(* .BTF.ext.  An info section is [off, len, rec_size, secs]; secs is what    *)
(* its bytes say: [name, num, recs], recs with the instruction offset in     *)
(* bytes.                                                                    *)
SecHdrLen == 8
InsnBytes == 8

(* btf_ext_setup_info, for a section of which `room' bytes are in the data.  *)
ExtSetupInfo(info, min_rec_size, room) ==
  LET left == FoldLeft(LAMBDA n, s :
                         LET total == SecHdrLen + s.num * info.rec_size
                         IN  IF n <= 0 THEN n ELSE IF s.num = 0 \/ n < total THEN -1 ELSE n - total,
                       info.len - 4, info.secs)
  IN  IF info.len = 0 THEN [rec_size |-> 0, secs |-> <<>>]
      ELSE IF info.off % 4 # 0 \/ room < info.len \/ info.len < 4 THEN Error("EINVAL")
      ELSE IF info.rec_size < min_rec_size \/ info.rec_size % 4 # 0 THEN Error("EINVAL")
      ELSE IF info.len = 4 \/ left # 0 THEN Error("EINVAL")
      ELSE [rec_size |-> info.rec_size, secs |-> info.secs]
ExtSetupFuncInfo(ext) == ExtSetupInfo(ext.func, 8, ext.size - ext.hdr_len - ext.func.off)
ExtSetupLineInfo(ext) == ExtSetupInfo(ext.line, 16, ext.size - ext.hdr_len - ext.line.off)
ExtSetupFieldReloc(ext) == ExtSetupInfo(ext.reloc, 16, ext.size - ext.hdr_len - ext.reloc.off)

ExtParseHdr(ext) ==
  IF ext.size < 8 \/ ext.size < ext.hdr_len \/ ~ext.magic THEN "EINVAL"
  ELSE IF ext.version # 1 \/ ext.flags # 0 THEN "ENOTSUP"
  ELSE IF ext.size = ext.hdr_len THEN "EINVAL" ELSE ""

(* btf_ext__new: an older header has no field relocations, or no information *)
(* at all.                                                                   *)
ExtNew(ext) ==
  LET none == [rec_size |-> 0, secs |-> <<>>]
      func == IF ext.hdr_len < 24 THEN none ELSE ExtSetupFuncInfo(ext)
      line == IF ext.hdr_len < 24 THEN none ELSE ExtSetupLineInfo(ext)
      reloc == IF ext.hdr_len < 32 THEN none ELSE ExtSetupFieldReloc(ext)
  IN  IF ExtParseHdr(ext) # "" THEN Error(ExtParseHdr(ext))
      ELSE IF IsError(func) \/ IsError(line) \/ IsError(reloc) THEN Error("EINVAL")
      ELSE [func |-> func, line |-> line, reloc |-> reloc]

(* btf_ext_reloc_info: the records of the section are appended, with byte    *)
(* offsets made instruction offsets behind the insns_cnt there are already.  *)
ExtRelocInfo(info, sec_name, insns_cnt, recs) ==
  LET i == SelectInSeq(info.secs, LAMBDA s : s.name = sec_name)
      new == info.secs[i].recs
  IN  IF i = 0 THEN Error("ENOENT")
      ELSE [recs |-> recs \o [j \in DOMAIN new |-> [new[j] EXCEPT !.insn = @ \div InsnBytes + insns_cnt]]]

(* check_btf_ext_reloc_err: a section without records is an error only when  *)
(* others had some.                                                          *)
ExtRelocErr(err, recs) == IF err = "ENOENT" /\ recs = <<>> THEN "" ELSE err

(* bpf_program_reloc_btf_ext for a section whose instructions begin at       *)
(* insn_offset of the program; p is [func, line].                            *)
RelocBtfExt(p, ext, sec_name, insn_offset) ==
  LET Wanted(recs) == insn_offset = 0 \/ recs # <<>>
      Keep(recs) == [recs |-> recs]
      func == IF Wanted(p.func) THEN ExtRelocInfo(ext.func, sec_name, insn_offset, p.func) ELSE Keep(p.func)
      line == IF Wanted(p.line) THEN ExtRelocInfo(ext.line, sec_name, insn_offset, p.line) ELSE Keep(p.line)
  IN  IF IsError(func) THEN [err |-> ExtRelocErr(func.err, p.func), prog |-> p]
      ELSE IF IsError(line) THEN [err |-> ExtRelocErr(line.err, p.line), prog |-> [p EXCEPT !.func = func.recs]]
      ELSE [err |-> "", prog |-> [func |-> func.recs, line |-> line.recs]]
=============================================================================
