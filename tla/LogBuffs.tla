------------------------------ MODULE LogBuffs ------------------------------
(***************************************************************************)
(* The timestamp log every measuring program keeps: NUM_LOG_BUFF buffers of *)
(* MAX_ENTRIES_PER_LOG_BUFF entries each, indexed by the uid of a packet    *)
(* (mymodule/common.h; the static log_buffs arrays of intercept-module.c,   *)
(* user-processing.c, server.c and ebpf_measure_user.c).                    *)
(*                                                                         *)
(* A log is a function from cells to BOOLEAN: TRUE is "a timestamp has been *)
(* stored here".  The timestamps themselves are left out; what the scripts  *)
(* distinguish is a zero entry from a non-zero one.                         *)
(***************************************************************************)
EXTENDS Naturals

CONSTANTS
  MAX_LOG_ENTRY,             \* number of uids a run measures
  MAX_ENTRIES_PER_LOG_BUFF   \* entries in one allocation of 2^PAGES_ORDER pages

(* Both are powers of two in common.h and MAX_LOG_ENTRY is not the smaller  *)
(* one, so the integer division that gives NUM_LOG_BUFF is exact.           *)
ASSUME LogAssumption ==
  /\ MAX_LOG_ENTRY \in Nat \ {0}
  /\ MAX_ENTRIES_PER_LOG_BUFF \in Nat \ {0}
  /\ MAX_LOG_ENTRY % MAX_ENTRIES_PER_LOG_BUFF = 0

NUM_LOG_BUFF == MAX_LOG_ENTRY \div MAX_ENTRIES_PER_LOG_BUFF

Cells == (0 .. NUM_LOG_BUFF - 1) \X (0 .. MAX_ENTRIES_PER_LOG_BUFF - 1)

(* log_buffs[uid / MAX_ENTRIES_PER_LOG_BUFF][uid % MAX_ENTRIES_PER_LOG_BUFF] *)
Cell(uid) == <<uid \div MAX_ENTRIES_PER_LOG_BUFF,
               uid % MAX_ENTRIES_PER_LOG_BUFF>>

(* The bounds check in front of every store to a log.                      *)
InLog(uid) == uid < MAX_LOG_ENTRY

(* The log after a timestamp has been stored for each uid of the set uids.  *)
Stamp(log, uids) ==
  [c \in Cells |-> log[c] \/ \E u \in uids : InLog(u) /\ Cell(u) = c]

EmptyLog == [c \in Cells |-> FALSE]

=============================================================================
