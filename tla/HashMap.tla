------------------------------ MODULE HashMap ------------------------------
(***************************************************************************)
(* The hash map of libbpf (libbpf/src/hashmap.c, hashmap.h): 2^bits chains,  *)
(* a new entry at the head of its chain, growth when more than three         *)
(* quarters are used.  A map is [bits, buckets, sz]; buckets is <<>> before  *)
(* the first growth.  An entry is [key, value].                              *)
(***************************************************************************)
EXTENDS Integers, Sequences, FiniteSets, SequencesExt

(* A key is a number and its hash its remainder by 16; hash_bits takes the   *)
(* upper bits of the hash.                                                   *)
HashWidth == 4
Pow(bits) == 2 ^ bits
HashBits(key, bits) == (key % Pow(HashWidth)) \div Pow(HashWidth - bits) + 1

EmptyMap == [bits |-> 0, buckets |-> <<>>, sz |-> 0]
Cap(map) == Len(map.buckets)
NeedsToGrow(map) == Cap(map) = 0 \/ ((map.sz + 1) * 4) \div 3 > Cap(map)
AddEntry(buckets, b, e) == [buckets EXCEPT ![b] = <<e>> \o @]

(* Mutant: the entries are spread over the buckets of the old size.          *)
NewBucketOld(key, bits) == HashBits(key, bits - 1)
(* Where an entry goes when the map grows to 2^bits buckets.                 *)
NewBucket(key, bits) == HashBits(key, bits)

(* hashmap_grow: every entry moves to the head of its new chain, which turns *)
(* round the order of entries that stay together.                            *)
Grow(map) ==
  LET bits == IF map.bits + 1 < 2 THEN 2 ELSE map.bits + 1
  IN  [map EXCEPT !.bits = bits,
                  !.buckets = FoldLeft(LAMBDA bs, e : AddEntry(bs, NewBucket(e.key, bits), e),
                                       [b \in 1 .. Pow(bits) |-> <<>>], FlattenSeq(map.buckets))]

(* hashmap_find_entry: the place in its chain of the first entry with that   *)
(* key, 0 for none.                                                          *)
Chain(map, key) == IF map.buckets = <<>> THEN <<>> ELSE map.buckets[HashBits(key, map.bits)]
FindEntry(map, key) == SelectInSeq(Chain(map, key), LAMBDA e : e.key = key)

(* hashmap__insert; memory says whether the two allocations succeed.         *)
Insert(map, key, value, strategy, memory) ==
  LET i == FindEntry(map, key)
      e == [key |-> key, value |-> value]
      grown == IF NeedsToGrow(map) THEN Grow(map) ELSE map
      Result(m, err, old) == [map |-> m, err |-> err, old |-> old]
  IN  IF strategy # "APPEND" /\ i # 0
        THEN LET old == Chain(map, key)[i]
             IN  IF strategy = "ADD" THEN Result(map, "EEXIST", old)
                 ELSE Result([map EXCEPT !.buckets[HashBits(key, map.bits)][i] = e], "", old)
      ELSE IF strategy = "UPDATE" THEN Result(map, "ENOENT", <<>>)
      ELSE IF NeedsToGrow(map) /\ ~memory[1] THEN Result(map, "ENOMEM", <<>>)
      ELSE IF ~memory[2] THEN Result(grown, "ENOMEM", <<>>)
      ELSE Result([grown EXCEPT !.buckets = AddEntry(@, HashBits(key, grown.bits), e), !.sz = @ + 1], "", <<>>)

Find(map, key) ==
  IF FindEntry(map, key) = 0 THEN [found |-> FALSE]
  ELSE [found |-> TRUE, value |-> Chain(map, key)[FindEntry(map, key)].value]

Delete(map, key) ==
  IF FindEntry(map, key) = 0 THEN map
  ELSE [map EXCEPT !.buckets[HashBits(key, map.bits)] = RemoveAt(@, FindEntry(map, key)), !.sz = @ - 1]

(* hashmap__for_each_key_entry.                                              *)
EntriesOf(map, key) == SelectSeq(Chain(map, key), LAMBDA e : e.key = key)
=============================================================================
