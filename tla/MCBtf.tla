------------------------------- MODULE MCBtf -------------------------------
(***************************************************************************)
(* Type information for Btf, and what must be true of the answers; line      *)
(* information for LineInfo at the end.  A case of type information          *)
(* is about sizes and map types, about data sections, or about the function  *)
(* and line information of a program with a copy of .text behind it.         *)
(***************************************************************************)
EXTENDS Btf, LineInfo

TypedefChain(n) == [i \in 1 .. n |-> IF i = n THEN Type("INT", "int", 4, 0) ELSE Type("TYPEDEF", "t", 0, i + 1)]
Array(n, of) == [Type("ARRAY", "", 0, of) EXCEPT !.nelems = n]
Elem(name, off, type) == [name |-> name, off |-> off, type |-> type]
Container == "____btf_map_m"
SizedTypes == {Type("INT", "int", 4, 0), Type("STRUCT", "s", 100, 0), Type("PTR", "", 0, 0),
               Type("FWD", "f", 0, 0), Type("FUNC", "g", 0, 0)}
TypeShapes == SizedTypes \cup {Type("CONST", "", 0, i) : i \in 0 .. 4}
                         \cup {Array(n, i) : n \in {0, 3, 100}, i \in 1 .. 3}
KvStruct == [Type("STRUCT", Container, 16, 0) EXCEPT !.elems = <<Elem("key", 0, 1), Elem("value", 0, 2)>>]
SizeCases ==
  {[what |-> "size", types |-> <<a, b, c, KvStruct>>] : a, b, c \in TypeShapes}
  \cup {[what |-> "size", types |-> Append(TypedefChain(n), KvStruct)] : n \in {31, 32, 33}}

Var(name, static) == [Type("VAR", name, 0, 1) EXCEPT !.kflag = static]
DataTypes(size, offs, static, second) ==
  <<Type("INT", "int", 4, 0), Var("x", static), Var("y", FALSE),
    [Type("DATASEC", ".data", size, 0) EXCEPT !.elems = <<Elem("", offs[1], 2), Elem("", offs[2], second)>>]>>
DataCases ==
  {[what |-> "data", types |-> DataTypes(size, offs, static, second), secs |-> secs, syms |-> syms] :
     size \in {0, 8, 9}, offs \in {<<0, 0>>, <<4, 0>>}, static \in BOOLEAN, second \in {3, 1, 9},
     secs \in {[s \in {".data"} |-> 8], [s \in {".data"} |-> 0], [s \in {".bss"} |-> 8]},
     syms \in UNION {[D -> {0, 4}] : D \in SUBSET {"x", "y"}}}

InfoSec(names, at) ==
  [off |-> 0, rec_size |-> 16, len |-> 4 + Len(names) * 40,
   secs |-> [i \in DOMAIN names |-> [name |-> names[i], num |-> 2,
                                      recs |-> <<[insn |-> 0], [insn |-> at * InsnBytes]>>]]]
NameLists == {<<>>, <<"xdp">>, <<".text">>, <<"xdp", ".text">>, <<".text", "xdp">>}
ExtCases ==
  {[what |-> "ext", func |-> f, line |-> l, main |-> m, hdr_len |-> h, short |-> s] :
     f, l \in NameLists, m \in {2, 5}, h \in {24, 32}, s \in {0, 4}}

HdrCases ==
  {[what |-> "hdr", size |-> n, strs |-> strs,
    hdr |-> [magic |-> m, version |-> v, flags |-> 0, type_off |-> t, str_off |-> s]] :
     n \in {23, 24, 40, 64}, m \in BOOLEAN, v \in {1, 2}, t \in {0, 2, 4, 16}, s \in {0, 4, 16, 40},
     strs \in {<<>>, <<0>>, <<0, 1>>, <<0, 1, 0>>}}
  \cup {[what |-> "kernel", fd |-> fd, alloc |-> a, err1 |-> e1, size1 |-> n, err2 |-> e2, size2 |-> n + more,
           errno |-> e, valid |-> v] :
          fd \in {-1, 3}, a \in {"ok", "malloc", "realloc"}, e1, e2 \in {0, -1}, n \in {24, 4096, 4097, 9000},
          more \in {0, 1}, e \in {0, Errno.EINVAL}, v \in BOOLEAN}
BtfCases == SizeCases \cup DataCases \cup ExtCases \cup HdrCases

(* The size a type has, -1 if it has none; no limit on depth or range.       *)
RECURSIVE TrueSize(_, _, _)
TrueSize(types, id, seen) ==
  LET t == TypeById(types, id)
      inner == TrueSize(types, t.type, seen \cup {id})
  IN  IF VoidOrNull(t) \/ id \in seen \/ t.kind = "FUNC" THEN -1
      ELSE IF t.kind = "PTR" THEN 8
      ELSE IF t.kind \in {"INT", "STRUCT"} THEN t.size
      ELSE IF t.kind = "ARRAY" /\ inner >= 0 THEN t.nelems * inner
      ELSE inner

(* A size is returned only if it is the size; an answer about a map's types  *)
(* names types of the map's sizes.                                           *)
SizesRight(types) ==
  LET r == ResolveSize(types, 1)
      true == TrueSize(types, 1, {})
      kv == MapFindBtfInfo(types, [name |-> Container, btf_defined |-> FALSE, internal |-> FALSE,
                                   key_size |-> 4, value_size |-> 12])
      id == ResolveType(types, 1)
      parsed == ParseTypeSec(types, 16 * Len(types))
  IN  /\ IsError(r) => true < 0 \/ true > UintMax \/ Len(types) >= MaxResolveDepth
                         \/ \E i \in DOMAIN types : types[i].kind = "ARRAY" /\ types[i].nelems = 0
      /\ ~IsError(r) => r.size = true /\ true <= UintMax
      /\ ~IsError(kv) => TrueSize(types, kv.key, {}) = 4 /\ TrueSize(types, kv.value, {}) = 12
      /\ id >= 0 => TrueSize(types, id, {}) = true
      /\ ~IsError(parsed) => parsed.nr < parsed.cap

(* After the fix-up every variable is still there, at the offset of its      *)
(* symbol, and they are in the order of their offsets.  Only an entry that   *)
(* names no variable is invalid or makes the fix-up crash.                   *)
DataRight(c) ==
  LET r == FinalizeData(c.types, c.secs, c.syms)
      d == r.types[4]
      old == c.types[4]
  IN  /\ r.err \in {"crash", "EINVAL"} => old.elems[2].type # 3
      /\ r.err = "" =>
        /\ d.size = c.secs[d.name] /\ d.size > 0
        /\ {e.type : e \in ToSet(d.elems)} = {2, 3} /\ Len(d.elems) = 2
        /\ d.elems[1].off <= d.elems[2].off
        /\ \A e \in ToSet(d.elems) :
             LET v == c.types[e.type]
             IN  e.off = IF v.kflag THEN old.elems[e.type - 1].off ELSE c.syms[v.name]

(* A program's records are none, or all of its own and of .text's, each at   *)
(* the instruction it describes, in ascending order.                         *)
ExtRight(c) ==
  LET ext == [size |-> c.hdr_len + 84 - c.short, hdr_len |-> c.hdr_len, magic |-> TRUE, version |-> 1, flags |-> 0,
              func |-> InfoSec(c.func, 1), line |-> InfoSec(c.line, 1), reloc |-> InfoSec(<<>>, 0)]
      new == ExtNew([ext EXCEPT !.reloc.len = 0])
      main == RelocBtfExt([func |-> <<>>, line |-> <<>>], new, "xdp", 0)
      both == RelocBtfExt(main.prog, new, ".text", c.main)
      Complete(recs) == recs = <<>> \/ [i \in DOMAIN recs |-> recs[i].insn] = <<0, 1, c.main, c.main + 1>>
  IN  ~IsError(new) =>
        /\ main.err = ""
        /\ both.err = "" => Complete(both.prog.func) /\ Complete(both.prog.line)
        /\ both.err = "" /\ both.prog.line # <<>> => both.prog.func # <<>>

(* An accepted header leaves a type section before the strings and inside   *)
(* the data.  The strings may run over the end of the data: str_len is not   *)
(* compared with it (btf.c:131-135).                                         *)
HdrRight(c) ==
  ParseHdr(c.hdr, c.size) = "" =>
    /\ c.hdr.type_off < c.hdr.str_off /\ HdrLen + c.hdr.str_off <= c.size
    /\ ParseStrSec(c.strs) = "" => c.strs \in {<<0>>, <<0, 1, 0>>}
(* No error means that there is a BTF, unless the id is unknown, or the BTF  *)
(* was larger the second time and errno happened to be 0 (btf.c:678-679).    *)
KernelRight(c) ==
  LET r == GetFromId(c)
  IN  /\ r.btf => r.err = 0
      /\ r.err = 0 /\ ~r.btf => c.fd < 0 \/ (c.errno = 0 /\ c.size2 > c.size1)

TypeInfoRight(c) ==
  CASE c.what = "size" -> SizesRight(c.types)
    [] c.what = "data" -> DataRight(c)
    [] c.what = "ext" -> ExtRight(c)
    [] c.what = "hdr" -> HdrRight(c)
    [] c.what = "kernel" -> KernelRight(c)

(***************************************************************************)
(* Line information for LineInfo: two functions of the machine code, the     *)
(* first at address 4 or 1, the second at 1 or 4, each with up to two lines. *)
(***************************************************************************)
LineCases ==
  [linfo : {<<0, 1, 3, 4>>}, jited : [1 .. 4 -> 1 .. 6], ksyms : {<<4, 1>>, <<1, 4>>, <<1>>}, lens : {<<3, 3>>, <<2, 3>>, <<6>>},
   rec_size : {16}, jited_rec_size : {8}, fail : {"none"}]
    \cup [linfo : {<<>>, <<0, 2>>}, jited : {<<>>, <<1, 2>>, <<1, 4>>}, ksyms : {<<>>, <<1>>}, lens : {<<>>, <<3>>},
           rec_size : {0, 4, 16}, jited_rec_size : {4, 8}, fail : {"none", "linfo", "jited"}]

(* The lines of function f are consecutive, begin with the function, grow,   *)
(* and lie in it: there is one way to cut the lines.                         *)
Cuts(c) == {cut \in [1 .. Len(c.ksyms) + 1 -> 1 .. Len(c.jited) + 1] :
              /\ cut[1] = 1 /\ cut[Len(cut)] = Len(c.jited) + 1
              /\ \A f \in 1 .. Len(c.ksyms) :
                   /\ cut[f] < cut[f + 1] /\ c.jited[cut[f]] = c.ksyms[f]
                   /\ \A i \in cut[f] .. cut[f + 1] - 1 :
                        c.jited[i] < c.ksyms[f] + c.lens[f] /\ (i > cut[f] => c.jited[i] > c.jited[i - 1])}
LastOf(S) == IF S = {} THEN 0 ELSE CHOOSE i \in S : \A j \in S : j <= i

(* The functions of well formed information are found, and the line of an    *)
(* address is the last one of its function that does not begin behind it.    *)
(* Other information is refused, or gives lines of the function asked for.   *)
LineRight(c) ==
  LET pl == LinfoNew(c)
      whole == c.linfo # <<>> /\ c.rec_size >= 4 /\ c.jited_rec_size >= 8 /\ c.ksyms # <<>> /\ Len(c.jited) = Len(c.linfo) /\ Len(c.lens) = Len(c.ksyms)
      good == whole /\ c.fail = "none" /\ Cuts(c) # {}
  IN  /\ \A off \in 0 .. 5, skip \in 0 .. 3 :
           Lfind(pl, off, skip) = LastOf({i \in skip + 1 .. Len(pl.linfo) : pl.linfo[i] <= off})
      /\ pl.linfo \in {<<>>, c.linfo} /\ (good => pl.idx # <<>>)
      /\ c.rec_size < 4 => pl = NoLinfo
      /\ pl.idx # <<>> =>
           /\ whole /\ pl.idx[1] = 1
           /\ \A f \in DOMAIN pl.idx :
                /\ pl.nr[f] > 0 /\ c.jited[pl.idx[f]] = c.ksyms[f]
                /\ pl.idx[f] + pl.nr[f] = IF f = Len(pl.idx) THEN Len(c.jited) + 1 ELSE pl.idx[f + 1]
           /\ \A f \in DOMAIN pl.idx, addr \in 0 .. 7, skip \in 0 .. 2 :
                LET lines == pl.idx[f] + skip .. pl.idx[f] + pl.nr[f] - 1
                    r == LfindAddrFunc(pl, addr, f, skip)
                IN  /\ r = 0 \/ (r \in lines /\ pl.jited[r] <= addr)
                    /\ good \/ f < Len(pl.idx) => r = LastOf({i \in lines : pl.jited[i] <= addr})
=============================================================================
