----------------------------- MODULE MCHashMap -----------------------------
(***************************************************************************)
(* A hash map under use, next to the multiset of pairs it should hold.       *)
(* Keys 1 and 17 have the same hash, 1 and 3 share a bucket until the map    *)
(* has 16 of them.  The map is empty at first or has three entries, so that  *)
(* the growths to 8 and to 16 buckets are near.                              *)
(***************************************************************************)
EXTENDS HashMap

CONSTANT MaxMapOps
ASSUME MaxMapOpsAssumption == MaxMapOps \in Nat

VARIABLES
  table,      \* the map
  pairs,      \* the pairs inserted and not deleted, oldest first
  mapOps
hmvars == <<table, pairs, mapOps>>

Keys == {1, 3, 17}
Fill == <<1, 10, 1>>
Filled(n) == FoldLeft(LAMBDA m, i : Insert(m, Fill[i], i, "APPEND", <<TRUE, TRUE>>).map, EmptyMap, [i \in 1 .. n |-> i])

HmInit ==
  \E n \in {0, Len(Fill)} :
    /\ table = Filled(n) /\ pairs = [i \in 1 .. n |-> [key |-> Fill[i], value |-> i]]
    /\ mapOps = 0
HmIdle == table = EmptyMap /\ pairs = <<>> /\ mapOps = MaxMapOps

InsertPair(key, strategy, memory) ==
  LET e == [key |-> key, value |-> 100 + mapOps]
      r == Insert(table, key, e.value, strategy, memory)
      at == SelectInSeq(pairs, LAMBDA p : p = r.old)
  IN  /\ mapOps < MaxMapOps /\ mapOps' = mapOps + 1
      /\ table' = r.map
      /\ pairs' = IF r.err # "" THEN pairs
                  ELSE IF at = 0 THEN Append(pairs, e) ELSE [pairs EXCEPT ![at] = e]
DeletePair(key) ==
  LET r == Find(table, key)
  IN  /\ mapOps < MaxMapOps /\ mapOps' = mapOps + 1 /\ r.found
      /\ table' = Delete(table, key)
      /\ pairs' = RemoveFirst(pairs, [key |-> key, value |-> r.value])
HmNext ==
  \/ \E key \in Keys, strategy \in {"ADD", "SET", "UPDATE", "APPEND"}, memory \in BOOLEAN \X BOOLEAN :
       InsertPair(key, strategy, memory)
  \/ \E key \in Keys : DeletePair(key)

HmSpec == HmInit /\ [][HmNext]_hmvars

(* Whatever was inserted, replaced, appended and deleted, and whichever      *)
(* allocations failed: every pair is in the map once, in the bucket its hash *)
(* selects at the present size; a key is found exactly if it has a pair, and *)
(* iterating over a key visits each of its pairs once.  The pair found is    *)
(* the last one inserted, as hashmap.h:77-79 says, only as long as the map   *)
(* has its first four buckets: hashmap_grow turns the chains round.          *)
HashMapExact ==
  /\ table.sz = Len(pairs) /\ table.sz <= Cap(table)
  /\ \A key \in Keys \cup {10} :
       LET mine == SelectSeq(pairs, LAMBDA p : p.key = key)
           visited == EntriesOf(table, key)
       IN  /\ ToSet(visited) = ToSet(mine) /\ Len(visited) = Len(mine)
           /\ Find(table, key).found = (mine # <<>>)
           /\ mine # <<>> => [key |-> key, value |-> Find(table, key).value] \in ToSet(mine)
           /\ mine # <<>> /\ table.bits <= 2 => Find(table, key).value = Last(mine).value
=============================================================================
