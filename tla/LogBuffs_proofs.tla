-------------------------- MODULE LogBuffs_proofs --------------------------
(***************************************************************************)
(* Lemmas about the timestamp logs, for every size of log and buffer.       *)
(***************************************************************************)
EXTENDS LogBuffs, TLAPS

(* Integer division by the size of a log buffer keeps the order of uids     *)
(* below MAX_LOG_ENTRY, because MAX_LOG_ENTRY is a multiple of that size.   *)
LEMMA DivLess ==
  ASSUME NEW u \in Nat, NEW m \in Nat, NEW b \in Nat \ {0},
         m % b = 0, u < m
  PROVE  u \div b < m \div b
  OBVIOUS

(* The cell of a uid that passes the bounds check is inside log_buffs.      *)
LEMMA CellInLog ==
  ASSUME NEW u \in Nat, InLog(u)
  PROVE  Cell(u) \in Cells
  <1>1. u \div MAX_ENTRIES_PER_LOG_BUFF < NUM_LOG_BUFF
    BY DivLess, LogAssumption DEF InLog, NUM_LOG_BUFF
  <1>2. /\ u \div MAX_ENTRIES_PER_LOG_BUFF \in Nat
        /\ u % MAX_ENTRIES_PER_LOG_BUFF \in 0 .. MAX_ENTRIES_PER_LOG_BUFF - 1
        /\ NUM_LOG_BUFF \in Nat
    BY LogAssumption DEF NUM_LOG_BUFF
  <1> QED
    BY <1>1, <1>2 DEF Cell, Cells

(* A log stays a log when timestamps are stored, and no entry is lost.      *)
LEMMA StampType ==
  ASSUME NEW log \in [Cells -> BOOLEAN], NEW uids
  PROVE  /\ Stamp(log, uids) \in [Cells -> BOOLEAN]
         /\ \A c \in Cells : log[c] => Stamp(log, uids)[c]
  BY Zenon DEF Stamp

(* The entries of the stamped uids are set.                                 *)
LEMMA StampSets ==
  ASSUME NEW log \in [Cells -> BOOLEAN], NEW uids, NEW u \in uids,
         u \in Nat, InLog(u)
  PROVE  Stamp(log, uids)[Cell(u)]
  BY CellInLog, Zenon DEF Stamp

(* Different uids have different cells.                                     *)
LEMMA CellInjective ==
  ASSUME NEW u \in Nat, NEW v \in Nat, Cell(u) = Cell(v)
  PROVE  u = v
  <1> DEFINE b == MAX_ENTRIES_PER_LOG_BUFF
  <1>1. b \in Nat \ {0}
    BY LogAssumption
  <1>2. u \div b = v \div b /\ u % b = v % b
    BY DEF Cell
  <1>3. u = b * (u \div b) + (u % b) /\ v = b * (v \div b) + (v % b)
    BY <1>1
  <1> QED
    BY <1>2, <1>3

(* A stamped log has the entries it had and those of the stamped uids.      *)
LEMMA StampOnly ==
  ASSUME NEW log \in [Cells -> BOOLEAN], NEW uids, NEW c \in Cells,
         Stamp(log, uids)[c]
  PROVE  log[c] \/ \E u \in uids : InLog(u) /\ Cell(u) = c
  BY Zenon DEF Stamp

=============================================================================
