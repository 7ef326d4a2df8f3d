----------------------- MODULE InterceptBuffer_proofs -----------------------
(***************************************************************************)
(* Theorems about the packet cache, for every number of slots, entries,     *)
(* packets and CPUs.                                                        *)
(***************************************************************************)
EXTENDS InterceptInvariants, LogBuffs_proofs, FiniteSetTheorems, TLAPS

(* The successor of a slot is a slot, and it is one further on the ring.    *)
LEMMA SuccStep ==
  ASSUME NEW i \in Slots
  PROVE  /\ Succ(i) \in Slots
         /\ Succ(i) = IF i + 1 = MAX_PKT THEN 0 ELSE i + 1
  <1>1. CASE i + 1 = MAX_PKT
    BY <1>1, RingAssumption DEF Succ, Slots
  <1>2. CASE i + 1 # MAX_PKT
    BY <1>2, RingAssumption DEF Succ, Slots
  <1> QED
    BY <1>1, <1>2

-----------------------------------------------------------------------------
(* Type correctness                                                         *)

USE DEF globals, handlers, readLocals, user, rxHistory, userHistory, reader

(* The initial state has the types of TypeOK.                               *)
LEMMA InitType == Init => TypeInv
  <1> SUFFICES ASSUME Init PROVE TypeInv
    OBVIOUS
  <1>1. EmptyLog \in [Cells -> BOOLEAN]
    BY Zenon DEF EmptyLog
  <1>2. TypeOK
    BY <1>1, RingAssumption DEF Init, TypeOK, Slots, Contents, Entries,
       EmptyBuff, ZeroUids, Fields, RxPcs, ReadPcs, NoIndex
  <1>3. LocalsOK
    BY <1>2 DEF Init, TypeOK, LocalsOK
  <1> QED
    BY <1>2, <1>3 DEF TypeInv

(* Every step of the handler keeps the types.                               *)
LEMMA RxType ==
  ASSUME TypeInv, NEW c \in Cpus,
         (\E p \in Packets : RxPass(c, p) \/ RxArrive(c, p)) \/ RxStep(c)
  PROVE  TypeInv'
  <1> USE RingAssumption, PacketAssumption
  <1>0. TypeOK /\ LocalsOK
    BY DEF TypeInv
  <1>1. ASSUME NEW p \in Packets, RxPass(c, p) PROVE TypeInv'
    <2>1. TypeOK'
      BY <1>0, <1>1 DEF TypeOK, LocalsOK, RxPass, RxPcs,
         Contents, Slots
    <2>2. LocalsOK'
      BY <1>0, <1>1 DEF TypeOK, LocalsOK, RxPass, RxPcs, Scanning
    <2> QED
      BY <2>1, <2>2 DEF TypeInv
  <1>2. ASSUME NEW p \in Packets, RxArrive(c, p) PROVE TypeInv'
    <2>1. TypeOK'
      BY <1>0, <1>2 DEF TypeOK, LocalsOK, RxArrive, RxPcs,
         Contents, Slots
    <2>2. LocalsOK'
      BY <1>0, <1>2 DEF TypeOK, LocalsOK, RxArrive, RxPcs, Scanning
    <2> QED
      BY <2>1, <2>2 DEF TypeInv
  <1>3. CASE RxCount(c)
    <2>1. klog' \in [Cells -> BOOLEAN]
      BY <1>0, <1>3, StampType DEF TypeOK, RxCount
    <2>2. sawFull' \subseteq Packets
      BY <1>0, <1>3 DEF TypeOK, LocalsOK, RxCount
    <2>3. TypeOK'
      <3>1. count_pkt' \in Nat
        BY <1>0, <1>3 DEF TypeOK, RxCount
      <3>2. rxpc' \in [Cpus -> RxPcs]
        BY <1>0, <1>3 DEF TypeOK, RxCount, RxPcs
      <3>3. /\ try' \in [Cpus -> 0 .. KM_FIND_BUFF_SLOT_MAX_TRY]
            /\ write_index' \in [Cpus -> Slots]
        BY <1>0, <1>3 DEF TypeOK, RxCount
      <3> QED
        BY <1>0, <1>3, <2>1, <2>2, <3>1, <3>2, <3>3 DEF TypeOK, RxCount
    <2>4. LocalsOK'
      BY <1>0, <1>3 DEF TypeOK, LocalsOK, RxCount, RxPcs, Scanning
    <2> QED
      BY <2>3, <2>4 DEF TypeInv
  <1>4. CASE RxFree(c)
    <2>1. TypeOK'
      BY <1>0, <1>4 DEF TypeOK, LocalsOK, RxFree, RxPcs,
         Contents, Slots, Fields
    <2>2. LocalsOK'
      BY <1>0, <1>4 DEF TypeOK, LocalsOK, RxFree, RxPcs, Scanning
    <2> QED
      BY <2>1, <2>2 DEF TypeInv
  <1>5. CASE RxOccupied(c)
    <2>1. TypeOK'
      <3>1. Succ(write_index[c]) \in Slots
        BY <1>0, SuccStep DEF TypeOK
      <3>2. try[c] + 1 \in 0 .. KM_FIND_BUFF_SLOT_MAX_TRY
        BY <1>0, <1>5 DEF TypeOK, LocalsOK, RxOccupied
      <3> QED
        BY <1>0, <1>5, <3>1, <3>2 DEF TypeOK, RxOccupied, RxPcs
    <2>2. LocalsOK'
      BY <1>0, <1>5 DEF TypeOK, LocalsOK, RxOccupied, RxPcs, Scanning
    <2> QED
      BY <2>1, <2>2 DEF TypeInv
  <1>6. CASE RxDrop(c)
    <2>1. TypeOK'
      <3>1. /\ rxpc' \in [Cpus -> RxPcs] /\ pkt' \in [Cpus -> Contents]
            /\ loaded' \in [Cpus -> Nat] /\ write_index' \in [Cpus -> Slots]
            /\ try' \in [Cpus -> 0 .. KM_FIND_BUFF_SLOT_MAX_TRY]
            /\ chunk' \in [Cpus -> 0 .. Span] /\ half' \in [Cpus -> Fields \cup {"none"}]
        BY <1>0, <1>6 DEF TypeOK, RxDrop, RxReturn, RxPcs, Contents, Slots
      <3>2. count_pkt_overflow' \in Nat /\ dropped' \subseteq Packets
        BY <1>0, <1>6 DEF TypeOK, LocalsOK, RxDrop
      <3> QED
        BY <1>0, <1>6, <3>1, <3>2 DEF TypeOK, RxDrop
    <2>2. LocalsOK'
      BY <1>0, <1>6 DEF TypeOK, LocalsOK, RxDrop, RxReturn, RxPcs, Scanning
    <2> QED
      BY <2>1, <2>2 DEF TypeInv
  <1>7. CASE RxCopy(c)
    <2>1. TypeOK'
      <3>1. chunk[c] + 1 \in 0 .. Span
        BY <1>0, <1>7 DEF TypeOK, LocalsOK, RxCopy
      <3>2. pkt[c] \in Packets
        BY <1>0, <1>7 DEF LocalsOK, RxCopy
      <3>3. data' \in [Slots -> Contents]
        BY <1>0, <1>7, <3>2 DEF TypeOK, RxCopy, Contents
      <3>uid. data_uid' \in [Slots -> Nat]
        BY <1>0, <1>7, <3>2 DEF TypeOK, RxCopy
      <3>half. half' \in [Cpus -> Fields \cup {"none"}]
        BY <1>0, <1>7 DEF TypeOK, RxCopy, Fields
      <3>pc. rxpc' \in [Cpus -> RxPcs] /\ chunk' \in [Cpus -> 0 .. Span]
        BY <1>0, <1>7, <3>1 DEF TypeOK, RxCopy, RxPcs
      <3>4. overwritten' \subseteq Packets
        BY <1>0, <1>7 DEF TypeOK, RxCopy, Contents
      <3> QED
        BY <1>0, <1>7, <3>3, <3>4, <3>uid, <3>half, <3>pc DEF TypeOK, RxCopy
    <2>2. LocalsOK'
      BY <1>0, <1>7 DEF TypeOK, LocalsOK, RxCopy, RxPcs, Scanning
    <2> QED
      BY <2>1, <2>2 DEF TypeInv
  <1>8. CASE RxPublish(c)
    <2>1. TypeOK'
      BY <1>0, <1>8 DEF TypeOK, LocalsOK, RxPublish, RxPcs,
         Contents, Slots
    <2>2. LocalsOK'
      BY <1>0, <1>8 DEF TypeOK, LocalsOK, RxPublish, RxPcs, Scanning
    <2> QED
      BY <2>1, <2>2 DEF TypeInv
  <1>9. CASE RxAdvance(c)
    <2>1. Succ(write_index[c]) \in Slots
      BY <1>0, SuccStep DEF TypeOK
    <2>2. 0 \in Slots
      BY DEF Slots
    <2>3. TypeOK'
      BY <1>0, <1>9, <2>1, <2>2 DEF TypeOK, RxAdvance, RxReturn, RxPcs,
         Contents, Fields
    <2>4. LocalsOK'
      BY <1>0, <1>9 DEF TypeOK, LocalsOK, RxAdvance, RxReturn, RxPcs, Scanning
    <2> QED
      BY <2>3, <2>4 DEF TypeInv
  <1> QED
    BY <1>1, <1>2, <1>3, <1>4, <1>5, <1>6, <1>7, <1>8, <1>9 DEF RxStep

(* So does every step of read() and of the user program.                    *)
LEMMA ReaderType ==
  ASSUME TypeInv, ReaderStep \/ Sigint \/ SigintAgain
  PROVE  TypeInv'
  <1> USE RingAssumption, PacketAssumption
  <1>0. TypeOK /\ LocalsOK
    BY DEF TypeInv
  <1>1. CASE ReadCall
    <2>1. TypeOK'
      BY <1>0, <1>1 DEF TypeOK, LocalsOK, ReadCall, ReadPcs, EmptyBuff, ZeroUids, Contents,
         NoIndex
    <2>2. LocalsOK'
      BY <1>0, <1>1 DEF TypeOK, LocalsOK, ReadCall, Scanning
    <2> QED
      BY <2>1, <2>2 DEF TypeInv
  <1>2. CASE ReadSkip
    <2>1. TypeOK'
      BY <1>0, <1>2, SuccStep DEF TypeOK, LocalsOK, ReadSkip, ReadPcs, Scanning
    <2>2. LocalsOK'
      BY <1>0, <1>2 DEF TypeOK, LocalsOK, ReadSkip, Scanning
    <2> QED
      BY <2>1, <2>2 DEF TypeInv
  <1>3. CASE ReadFound
    <2>1. TypeOK'
      BY <1>0, <1>3 DEF TypeOK, LocalsOK, ReadFound, ReadPcs, Scanning
    <2>2. LocalsOK'
      BY <1>0, <1>3 DEF TypeOK, LocalsOK, ReadFound, Scanning
    <2> QED
      BY <2>1, <2>2 DEF TypeInv
  <1>4. CASE ReadGrab
    <2>1. TypeOK'
      <3>1. copied_pkts \in Entries /\ copied_pkts' \in 0 .. PKTS_PER_BUFFER
            /\ rtry' \in 0 .. MAX_PKT
        BY <1>0, <1>4 DEF TypeOK, LocalsOK, ReadGrab, Scanning, Entries
      <3>2. ci' \in Slots /\ data[ci] \in Contents /\ data_uid[ci] \in Nat
        BY <1>0, <1>4, SuccStep DEF TypeOK, ReadGrab
      <3>3. /\ buff_temp' \in [Entries -> Contents]
            /\ temp_uid' \in [Entries -> Nat]
            /\ copied_index' \in [Entries -> Slots \cup {NoIndex}]
        BY <1>0, <1>4, <3>2 DEF TypeOK, ReadGrab
      <3> QED
        BY <1>0, <1>4, <3>1, <3>2, <3>3 DEF TypeOK, ReadGrab, ReadPcs
    <2>2. LocalsOK'
      BY <1>0, <1>4 DEF TypeOK, LocalsOK, ReadGrab, Scanning
    <2> QED
      BY <2>1, <2>2 DEF TypeInv
  <1>5. CASE CopyToUser
    <2>1. TypeOK'
      BY <1>0, <1>5 DEF TypeOK, LocalsOK, CopyToUser, ReadPcs
    <2>2. LocalsOK'
      BY <1>0, <1>5 DEF TypeOK, LocalsOK, CopyToUser, Scanning
    <2> QED
      BY <2>1, <2>2 DEF TypeInv
  <1>6. CASE CopyToUserFault
    <2>1. TypeOK'
      BY <1>0, <1>6 DEF TypeOK, LocalsOK, CopyToUserFault, ReadPcs, PacketsIn, Contents
    <2>2. LocalsOK'
      BY <1>0, <1>6 DEF TypeOK, LocalsOK, CopyToUserFault, Scanning
    <2> QED
      BY <2>1, <2>2 DEF TypeInv
  <1>7. CASE Clean
    <2>1. TypeOK'
      BY <1>0, <1>7 DEF TypeOK, LocalsOK, Clean, ReadPcs, Entries, Contents
    <2>2. LocalsOK'
      BY <1>0, <1>7 DEF TypeOK, LocalsOK, Clean, Scanning
    <2> QED
      BY <2>1, <2>2 DEF TypeInv
  <1>8. CASE Release
    <2>1. TypeOK'
      BY <1>0, <1>8 DEF TypeOK, LocalsOK, Release, ReadPcs, Entries
    <2>2. LocalsOK'
      BY <1>0, <1>8 DEF TypeOK, LocalsOK, Release, Scanning
    <2> QED
      BY <2>1, <2>2 DEF TypeInv
  <1>9. CASE CleanSkip
    <2>1. TypeOK'
      BY <1>0, <1>9 DEF TypeOK, LocalsOK, CleanSkip, ReadPcs
    <2>2. LocalsOK'
      BY <1>0, <1>9 DEF TypeOK, LocalsOK, CleanSkip, Scanning
    <2> QED
      BY <2>1, <2>2 DEF TypeInv
  <1>10. CASE ReadReturn
    <2>1. TypeOK'
      BY <1>0, <1>10 DEF TypeOK, LocalsOK, ReadReturn, ReadPcs
    <2>2. LocalsOK'
      BY <1>0, <1>10 DEF TypeOK, LocalsOK, ReadReturn, Scanning
    <2> QED
      BY <2>1, <2>2 DEF TypeInv
  <1>11. CASE UserProcess
    <2>1. ulog' \in [Cells -> BOOLEAN]
      BY <1>0, <1>11, StampType DEF TypeOK, UserProcess
    <2>2. TypeOK'
      BY <1>0, <1>11, <2>1 DEF TypeOK, LocalsOK, UserProcess, ReadPcs, PacketsIn, Contents
    <2>3. LocalsOK'
      BY <1>0, <1>11 DEF TypeOK, LocalsOK, UserProcess, Scanning
    <2> QED
      BY <2>2, <2>3 DEF TypeInv
  <1>12. CASE UserStop
    <2>1. TypeOK'
      BY <1>0, <1>12 DEF TypeOK, LocalsOK, UserStop, ReadPcs
    <2>2. LocalsOK'
      BY <1>0, <1>12 DEF TypeOK, LocalsOK, UserStop, Scanning
    <2> QED
      BY <2>1, <2>2 DEF TypeInv
  <1>kill. CASE SigintAgain
    <2>1. TypeOK'
      BY <1>0, <1>kill DEF TypeOK, LocalsOK, SigintAgain, ReadPcs
    <2>2. LocalsOK'
      BY <1>0, <1>kill DEF TypeOK, LocalsOK, SigintAgain, Scanning
    <2> QED
      BY <2>1, <2>2 DEF TypeInv
  <1>13. CASE Sigint
    <2>1. TypeOK'
      BY <1>0, <1>13 DEF TypeOK, LocalsOK, Sigint, ReadPcs
    <2>2. LocalsOK'
      BY <1>0, <1>13 DEF TypeOK, LocalsOK, Sigint, Scanning
    <2> QED
      BY <2>1, <2>2 DEF TypeInv
  <1> QED
    BY <1>1, <1>2, <1>3, <1>4, <1>5, <1>6, <1>7, <1>8, <1>9, <1>10, <1>11,
       <1>12, <1>13, <1>kill DEF ReaderStep

(* Every step keeps the types, and what the program counters say about the  *)
(* locals.                                                                  *)
LEMMA TypeStep ==
  ASSUME TypeInv, [Next]_vars
  PROVE  TypeInv'
  <1>1. CASE Next
    BY <1>1, RxType, ReaderType DEF Next
  <1>2. CASE UNCHANGED vars
    BY <1>2 DEF TypeInv, TypeOK, LocalsOK, Scanning, vars
  <1> QED
    BY <1>1, <1>2

(* The types, with what the program counters say about the locals.          *)
LEMMA TypeInvariant == Spec => []TypeInv
  <1>1. TypeInv /\ [Next]_vars => TypeInv'
    BY TypeStep
  <1> QED
    BY InitType, <1>1, PTL DEF Spec

(* Every variable keeps its type and every index stays inside its array,    *)
(* for any number of CPUs that run the handler at the same time.            *)
THEOREM TypeCorrect == Spec => []TypeOK
  <1>1. TypeInv => TypeOK
    BY DEF TypeInv
  <1> QED
    BY TypeInvariant, <1>1, PTL

-----------------------------------------------------------------------------
(* The two logs                                                             *)

(* What has been logged stays logged: only rxhPacketIn writes the kernel    *)
(* log, and it clears no entry.                                             *)
LEMMA KernelLogGrows ==
  ASSUME TypeInv, [Next]_vars
  PROVE  /\ \A cell \in Cells : klog[cell] => klog'[cell]
         /\ Logged \subseteq Logged'
  <1> USE PacketAssumption
  <1>1. (klog' = klog) \/ \E c \in Cpus : RxCount(c)
    BY DEF Next, vars, RxPass, RxArrive, RxStep, RxFree, RxOccupied, RxDrop,
       RxCopy, RxPublish, RxAdvance, ReaderStep, ReadCall, ReadSkip,
       ReadFound, ReadGrab, CopyToUser, CopyToUserFault, Clean, Release,
       CleanSkip, ReadReturn, UserProcess, UserStop, Sigint,
       SigintAgain
  <1>2. \A cell \in Cells : klog[cell] => klog'[cell]
    <2>1. klog \in [Cells -> BOOLEAN]
      BY DEF TypeInv, TypeOK
    <2>2. ASSUME NEW c \in Cpus, RxCount(c)
          PROVE  klog' = Stamp(klog, {Uid[pkt[c]]})
      BY <2>2 DEF RxCount
    <2> QED
      BY <1>1, <2>1, <2>2, StampType
  <1> QED
    BY <1>2, CellInLog DEF Logged

(* The handler has logged its packet when it starts to look for a slot.     *)
LEMMA CountLogs ==
  ASSUME TypeInv, NEW c \in Cpus, RxCount(c)
  PROVE  pkt[c] \in Logged'
  <1>1. pkt[c] \in Packets /\ Uid[pkt[c]] \in Nat
    BY PacketAssumption DEF TypeInv, LocalsOK, RxCount
  <1>2. klog' = Stamp(klog, {Uid[pkt[c]]}) /\ klog \in [Cells -> BOOLEAN]
    BY DEF TypeInv, TypeOK, RxCount
  <1>3. InLog(Uid[pkt[c]]) => klog'[Cell(Uid[pkt[c]])]
    BY <1>1, <1>2, StampSets
  <1> QED
    BY <1>1, <1>3 DEF Logged

(* Every step preserves LogInv: what is in the handler's hands, in a slot   *)
(* or in a buffer has been logged by the kernel module.                     *)
LEMMA LogStep ==
  ASSUME TypeInv, LogInv, [Next]_vars
  PROVE  LogInv'
  <1> USE RingAssumption, PacketAssumption
  <1>1. Logged \subseteq Logged' /\ \A x \in Logged : x \in Logged'
    BY KernelLogGrows
  <1>3. TypeOK /\ LocalsOK
    BY DEF TypeInv
  <1>4. ASSUME NEW c \in Cpus, NEW p \in Packets, RxPass(c, p) PROVE LogInv'
    BY <1>1, <1>3, <1>4 DEF LogInv, RxPass, TypeOK
  <1>5. ASSUME NEW c \in Cpus, NEW p \in Packets, RxArrive(c, p) PROVE LogInv'
    BY <1>1, <1>3, <1>5 DEF LogInv, RxArrive, TypeOK
  <1>6. ASSUME NEW c \in Cpus, RxCount(c) PROVE LogInv'
    BY <1>1, <1>3, <1>6, CountLogs DEF LogInv, RxCount, TypeOK
  <1>7. ASSUME NEW c \in Cpus, RxFree(c) PROVE LogInv'
    BY <1>1, <1>3, <1>7 DEF LogInv, RxFree, TypeOK
  <1>8. ASSUME NEW c \in Cpus, RxOccupied(c) PROVE LogInv'
    BY <1>1, <1>3, <1>8 DEF LogInv, RxOccupied, TypeOK
  <1>9. ASSUME NEW c \in Cpus, RxDrop(c) PROVE LogInv'
    BY <1>1, <1>3, <1>9 DEF LogInv, RxDrop, RxReturn, TypeOK
  <1>10. ASSUME NEW c \in Cpus, RxCopy(c) PROVE LogInv'
    BY <1>1, <1>3, <1>10 DEF LogInv, RxCopy, TypeOK
  <1>11. ASSUME NEW c \in Cpus, RxPublish(c) PROVE LogInv'
    BY <1>1, <1>3, <1>11 DEF LogInv, RxPublish, TypeOK
  <1>12. ASSUME NEW c \in Cpus, RxAdvance(c) PROVE LogInv'
    BY <1>1, <1>3, <1>12 DEF LogInv, RxAdvance, RxReturn, TypeOK
  <1>13. CASE ReadCall
    BY <1>1, <1>3, <1>13 DEF LogInv, ReadCall, TypeOK, EmptyBuff
  <1>14. CASE ReadSkip
    BY <1>1, <1>3, <1>14 DEF LogInv, ReadSkip, TypeOK
  <1>15. CASE ReadFound
    BY <1>1, <1>3, <1>15 DEF LogInv, ReadFound, TypeOK
  <1>16. CASE ReadGrab
    BY <1>1, <1>3, <1>16 DEF LogInv, ReadGrab, TypeOK, Scanning, LocalsOK, Entries
  <1>17. CASE CopyToUser
    BY <1>1, <1>3, <1>17 DEF LogInv, CopyToUser, TypeOK
  <1>18. CASE CopyToUserFault
    BY <1>1, <1>3, <1>18 DEF LogInv, CopyToUserFault, TypeOK
  <1>19. CASE Clean
    BY <1>1, <1>3, <1>19 DEF LogInv, Clean, TypeOK
  <1>20. CASE Release
    BY <1>1, <1>3, <1>20 DEF LogInv, Release, TypeOK
  <1>21. CASE CleanSkip
    BY <1>1, <1>3, <1>21 DEF LogInv, CleanSkip, TypeOK
  <1>22. CASE ReadReturn
    BY <1>1, <1>3, <1>22 DEF LogInv, ReadReturn, TypeOK
  <1>23. CASE UserProcess
    BY <1>1, <1>3, <1>23 DEF LogInv, UserProcess, TypeOK
  <1>24. CASE UserStop
    BY <1>1, <1>3, <1>24 DEF LogInv, UserStop, TypeOK
  <1>kill. CASE SigintAgain
    BY <1>1, <1>3, <1>kill DEF LogInv, SigintAgain, TypeOK
  <1>25. CASE Sigint
    BY <1>1, <1>3, <1>25 DEF LogInv, Sigint, TypeOK
  <1>26. CASE UNCHANGED vars
    BY <1>1, <1>26 DEF LogInv, vars
  <1> QED
    BY <1>4, <1>5, <1>6, <1>7, <1>8, <1>9, <1>10, <1>11, <1>12, <1>13,
       <1>14, <1>15, <1>16, <1>17, <1>18, <1>19, <1>20, <1>21,
       <1>22, <1>23, <1>24, <1>25, <1>26, <1>kill
    DEF Next, RxStep, ReaderStep

-----------------------------------------------------------------------------
(* A packet is discarded only if the cache is full                          *)

(* How far away a slot is when the scan moves on by one.                    *)
LEMMA DistSucc ==
  ASSUME NEW i \in Slots, NEW s \in Slots
  PROVE  /\ Dist(i, s) \in 0 .. MAX_PKT - 1
         /\ s # i => Dist(i, s) > 0 /\ Dist(Succ(i), s) = Dist(i, s) - 1
         /\ Dist(Succ(i), i) = MAX_PKT - 1
         /\ Dist(i, i) = 0
  <1>1. Succ(i) = IF i + 1 = MAX_PKT THEN 0 ELSE i + 1
    BY SuccStep
  <1> QED
    BY <1>1, RingAssumption DEF Dist, Slots

(* Every step preserves DropInv: while the handler searches, slots can only *)
(* become free.                                                             *)
LEMMA DropStep ==
  ASSUME SingleCpu, SearchCoversCache, TypeInv, DropInv, [Next]_vars
  PROVE  DropInv'
  <1> USE RingAssumption, PacketAssumption DEF SingleCpu, SearchCoversCache
  <1>1. TypeOK /\ LocalsOK
    BY DEF TypeInv
  <1>2. ASSUME NEW c \in Cpus, NEW p \in Packets, RxPass(c, p) PROVE DropInv'
    BY <1>1, <1>2, DistSucc DEF DropInv, DropOnlyIfFull, RxPass, TypeOK
  <1>3. ASSUME NEW c \in Cpus, NEW p \in Packets, RxArrive(c, p) PROVE DropInv'
    BY <1>1, <1>3, DistSucc DEF DropInv, DropOnlyIfFull, RxArrive, TypeOK
  <1>4. ASSUME NEW c \in Cpus, RxCount(c) PROVE DropInv'
    BY <1>1, <1>4, DistSucc DEF DropInv, DropOnlyIfFull, RxCount, TypeOK
  <1>5. ASSUME NEW c \in Cpus, RxFree(c) PROVE DropInv'
    BY <1>1, <1>5, DistSucc DEF DropInv, DropOnlyIfFull, RxFree, TypeOK
  <1>6. ASSUME NEW c \in Cpus, RxOccupied(c) PROVE DropInv'
    <2>1. /\ write_index[c] \in Slots /\ try[c] \in Nat
          /\ write_index'[c] = Succ(write_index[c]) /\ try'[c] = try[c] + 1
          /\ UNCHANGED <<status, pkt, sawFull, dropped>>
          /\ rxpc[c] = "probe" /\ status[write_index[c]] # 0
          /\ rxpc'[c] \in {"probe", "overflow"}
          /\ rxpc'[c] = "overflow" => try[c] + 1 >= MAX_PKT
      BY <1>1, <1>6 DEF RxOccupied, TypeOK
    <2>2. CASE pkt[c] \in sawFull
      BY <2>1, <2>2 DEF DropInv, DropOnlyIfFull
    <2>3. CASE pkt[c] \notin sawFull
      <3>1. PICK s \in Slots : status[s] = 0 /\ Dist(write_index[c], s) + try[c] < MAX_PKT
        BY <2>1, <2>3 DEF DropInv
      <3>2. /\ Dist(write_index[c], s) > 0 /\ Dist(write_index[c], s) \in Nat
            /\ Dist(write_index'[c], s) = Dist(write_index[c], s) - 1
        BY <2>1, <3>1, DistSucc
      <3>3. rxpc'[c] = "probe" /\ Dist(write_index'[c], s) + try'[c] < MAX_PKT
        BY <2>1, <3>1, <3>2
      <3> QED
        BY <2>1, <3>1, <3>3 DEF DropInv, DropOnlyIfFull
    <2> QED
      BY <2>2, <2>3
  <1>7. ASSUME NEW c \in Cpus, RxDrop(c) PROVE DropInv'
    BY <1>1, <1>7, DistSucc DEF DropInv, DropOnlyIfFull, RxDrop, RxReturn, TypeOK
  <1>8. ASSUME NEW c \in Cpus, RxCopy(c) PROVE DropInv'
    BY <1>1, <1>8, DistSucc DEF DropInv, DropOnlyIfFull, RxCopy, TypeOK
  <1>9. ASSUME NEW c \in Cpus, RxPublish(c) PROVE DropInv'
    BY <1>1, <1>9, DistSucc DEF DropInv, DropOnlyIfFull, RxPublish, TypeOK
  <1>10. ASSUME NEW c \in Cpus, RxAdvance(c) PROVE DropInv'
    BY <1>1, <1>10, DistSucc DEF DropInv, DropOnlyIfFull, RxAdvance, RxReturn, TypeOK
  <1>11. CASE ReadCall
    BY <1>1, <1>11 DEF DropInv, DropOnlyIfFull, ReadCall, TypeOK
  <1>12. CASE ReadSkip
    BY <1>1, <1>12 DEF DropInv, DropOnlyIfFull, ReadSkip, TypeOK
  <1>13. CASE ReadFound
    BY <1>1, <1>13 DEF DropInv, DropOnlyIfFull, ReadFound, TypeOK
  <1>14. CASE ReadGrab
    BY <1>1, <1>14 DEF DropInv, DropOnlyIfFull, ReadGrab, TypeOK
  <1>15. CASE CopyToUser
    BY <1>1, <1>15 DEF DropInv, DropOnlyIfFull, CopyToUser, TypeOK
  <1>16. CASE CopyToUserFault
    BY <1>1, <1>16 DEF DropInv, DropOnlyIfFull, CopyToUserFault, TypeOK
  <1>17. CASE Clean
    BY <1>1, <1>17 DEF DropInv, DropOnlyIfFull, Clean, TypeOK
  <1>18. CASE Release
    BY <1>1, <1>18 DEF DropInv, DropOnlyIfFull, Release, TypeOK
  <1>19. CASE CleanSkip
    BY <1>1, <1>19 DEF DropInv, DropOnlyIfFull, CleanSkip, TypeOK
  <1>20. CASE ReadReturn
    BY <1>1, <1>20 DEF DropInv, DropOnlyIfFull, ReadReturn, TypeOK
  <1>21. CASE UserProcess
    BY <1>1, <1>21 DEF DropInv, DropOnlyIfFull, UserProcess, TypeOK
  <1>22. CASE UserStop
    BY <1>1, <1>22 DEF DropInv, DropOnlyIfFull, UserStop, TypeOK
  <1>kill. CASE SigintAgain
    BY <1>1, <1>kill DEF DropInv, DropOnlyIfFull, SigintAgain, TypeOK
  <1>23. CASE Sigint
    BY <1>1, <1>23 DEF DropInv, DropOnlyIfFull, Sigint, TypeOK
  <1>24. CASE UNCHANGED vars
    BY <1>24 DEF DropInv, DropOnlyIfFull, vars
  <1> QED
    BY <1>2, <1>3, <1>4, <1>5, <1>6, <1>7, <1>8, <1>9, <1>10, <1>11, <1>12,
       <1>13, <1>14, <1>15, <1>16, <1>17, <1>18, <1>19, <1>20,
       <1>21, <1>22, <1>23, <1>24, <1>kill DEF Next, RxStep, ReaderStep

(* With one receiving CPU, rxhPacketIn discards a packet only if every slot *)
(* was occupied when its search began, for every size of the cache and      *)
(* whatever read() releases during the search.                              *)
THEOREM DropsOnlyWhenFull ==
  ASSUME SingleCpu, SearchCoversCache
  PROVE  Spec => []DropOnlyIfFull
  <1>1. Init => DropInv
    BY DEF Init, DropInv, DropOnlyIfFull
  <1>2. DropInv => DropOnlyIfFull
    BY DEF DropInv
  <1>3. TypeInv /\ DropInv /\ [Next]_vars => DropInv'
    BY DropStep
  <1> QED
    BY <1>1, <1>2, <1>3, TypeInvariant, PTL DEF Spec

-----------------------------------------------------------------------------
(* The handler and read() keep out of each other's slots                    *)

(* Every step preserves SlotInv.                                            *)
LEMMA SlotStep ==
  ASSUME SingleCpu, TypeInv, SlotInv, [Next]_vars
  PROVE  SlotInv'
  <1> USE RingAssumption, PacketAssumption DEF SingleCpu, InUse, Entries,
        NoIndex
  <1>1. TypeOK /\ LocalsOK
    BY DEF TypeInv
  <1>2. ASSUME NEW c \in Cpus, NEW p \in Packets, RxPass(c, p) PROVE SlotInv'
    BY <1>1, <1>2 DEF SlotInv, RxPass, TypeOK
  <1>3. ASSUME NEW c \in Cpus, NEW p \in Packets, RxArrive(c, p) PROVE SlotInv'
    BY <1>1, <1>3 DEF SlotInv, RxArrive, TypeOK
  <1>4. ASSUME NEW c \in Cpus, RxCount(c) PROVE SlotInv'
    BY <1>1, <1>4 DEF SlotInv, RxCount, TypeOK
  <1>5. ASSUME NEW c \in Cpus, RxFree(c) PROVE SlotInv'
    BY <1>1, <1>5 DEF SlotInv, RxFree, TypeOK
  <1>6. ASSUME NEW c \in Cpus, RxOccupied(c) PROVE SlotInv'
    BY <1>1, <1>6 DEF SlotInv, RxOccupied, TypeOK
  <1>7. ASSUME NEW c \in Cpus, RxDrop(c) PROVE SlotInv'
    BY <1>1, <1>7 DEF SlotInv, RxDrop, RxReturn, TypeOK
  <1>8. ASSUME NEW c \in Cpus, RxCopy(c) PROVE SlotInv'
    BY <1>1, <1>8 DEF SlotInv, RxCopy, TypeOK
  <1>9. ASSUME NEW c \in Cpus, RxPublish(c) PROVE SlotInv'
    BY <1>1, <1>9 DEF SlotInv, RxPublish, TypeOK
  <1>10. ASSUME NEW c \in Cpus, RxAdvance(c) PROVE SlotInv'
    BY <1>1, <1>10 DEF SlotInv, RxAdvance, RxReturn, TypeOK
  <1>11. CASE ReadCall
    BY <1>1, <1>11 DEF SlotInv, ReadCall, TypeOK
  <1>12. CASE ReadSkip
    <2>1. \A j \in Entries : j < copied_pkts =>
            /\ copied_index[j] \in Slots
            /\ copied_index[j] # ci
      BY <1>1, <1>12 DEF SlotInv, ReadSkip, TypeOK
    <2>2. \A j \in Entries : j < copied_pkts =>
            Dist(ci', copied_index[j]) + rtry' >= MAX_PKT
      <3> SUFFICES ASSUME NEW j \in Entries, j < copied_pkts
                   PROVE  Dist(ci', copied_index[j]) + rtry' >= MAX_PKT
        OBVIOUS
      <3>1. ci \in Slots /\ ci' = Succ(ci) /\ rtry' = rtry + 1 /\ rtry \in Nat
        BY <1>1, <1>12 DEF ReadSkip, TypeOK
      <3>2. Dist(ci, copied_index[j]) + rtry >= MAX_PKT
        BY <1>12 DEF SlotInv, ReadSkip
      <3>3. /\ Dist(Succ(ci), copied_index[j]) = Dist(ci, copied_index[j]) - 1
            /\ Dist(ci, copied_index[j]) \in Nat
        BY <2>1, <3>1, DistSucc
      <3> QED
        BY <3>1, <3>2, <3>3
    <2> QED
      BY <1>1, <1>12, <2>2 DEF SlotInv, ReadSkip, TypeOK
  <1>13. CASE ReadFound
    BY <1>1, <1>13 DEF SlotInv, ReadFound, TypeOK, LocalsOK, Scanning
  <1>14. CASE ReadGrab
    <2>1. rtry < MAX_PKT /\ copied_pkts \in Entries /\ ci \in Slots
      BY <1>1, <1>14 DEF ReadGrab, LocalsOK, Scanning, TypeOK
    <2>2. \A j \in Entries : j < copied_pkts =>
            /\ copied_index[j] \in Slots
            /\ copied_index[j] # ci
      <3> SUFFICES ASSUME NEW j \in Entries, j < copied_pkts
                   PROVE  copied_index[j] \in Slots /\ copied_index[j] # ci
        OBVIOUS
      <3>1. copied_index[j] \in Slots /\ Dist(ci, copied_index[j]) + rtry >= MAX_PKT
        BY <1>14 DEF SlotInv, ReadGrab
      <3>2. Dist(ci, ci) = 0 /\ rtry \in Nat
        BY <1>1, <2>1, DistSucc DEF TypeOK
      <3> QED
        BY <2>1, <3>1, <3>2
    <2>3. copied_index' = [copied_index EXCEPT ![copied_pkts] = ci]
      BY <1>14 DEF ReadGrab
    <2>4. \A j \in Entries : j < copied_pkts' =>
            Dist(ci', copied_index'[j]) + rtry' >= MAX_PKT
      <3> SUFFICES ASSUME NEW j \in Entries, j < copied_pkts'
                   PROVE  Dist(ci', copied_index'[j]) + rtry' >= MAX_PKT
        OBVIOUS
      <3>1. CASE j = copied_pkts
        BY <1>1, <1>14, <2>1, <2>3, <3>1, DistSucc DEF ReadGrab, TypeOK
      <3>2. CASE j # copied_pkts
        <4>1. j < copied_pkts /\ copied_index'[j] = copied_index[j]
          BY <1>1, <1>14, <2>3, <3>2 DEF ReadGrab, TypeOK
        <4>2. Dist(ci, copied_index[j]) + rtry >= MAX_PKT
          BY <1>14, <4>1 DEF SlotInv, ReadGrab
        <4>3. copied_index[j] \in Slots /\ copied_index[j] # ci
          BY <2>2, <4>1
        <4>4. /\ Dist(Succ(ci), copied_index[j]) = Dist(ci, copied_index[j]) - 1
              /\ Dist(ci, copied_index[j]) \in Nat
          BY <2>1, <4>3, DistSucc
        <4>5. ci' = Succ(ci) /\ rtry' = rtry + 1 /\ rtry \in Nat
          BY <1>1, <1>14 DEF ReadGrab, TypeOK
        <4> QED
          BY <4>1, <4>2, <4>4, <4>5, RingAssumption
      <3> QED
        BY <3>1, <3>2
    <2>5. \A j \in Entries : ~(j < copied_pkts') => copied_index'[j] = NoIndex
      BY <1>1, <1>14, <2>1, <2>3 DEF SlotInv, ReadGrab, TypeOK
    <2>6. \A j \in Entries : j < copied_pkts' =>
            copied_index'[j] \in Slots /\ status[copied_index'[j]] = 1
      BY <1>1, <1>14, <2>1, <2>3 DEF SlotInv, ReadGrab, TypeOK
    <2>7. \A j, k \in Entries :
            j < copied_pkts' /\ k < copied_pkts' /\ j # k =>
              copied_index'[j] # copied_index'[k]
      BY <1>1, <1>14, <2>1, <2>2, <2>3 DEF SlotInv, ReadGrab, TypeOK
    <2> QED
      BY <1>1, <1>14, <2>4, <2>5, <2>6, <2>7 DEF SlotInv, ReadGrab, TypeOK
  <1>15. CASE CopyToUser
    BY <1>1, <1>15 DEF SlotInv, CopyToUser, TypeOK
  <1>16. CASE CopyToUserFault
    BY <1>1, <1>16 DEF SlotInv, CopyToUserFault, TypeOK
  <1>17. CASE Clean
    BY <1>1, <1>17 DEF SlotInv, Clean, TypeOK
  <1>18. CASE Release
    BY <1>1, <1>18 DEF SlotInv, Release, TypeOK, LocalsOK, Scanning
  <1>19. CASE CleanSkip
    BY <1>1, <1>19 DEF SlotInv, CleanSkip, TypeOK
  <1>20. CASE ReadReturn
    BY <1>1, <1>20 DEF SlotInv, ReadReturn, TypeOK
  <1>21. CASE UserProcess
    BY <1>1, <1>21 DEF SlotInv, UserProcess, TypeOK
  <1>22. CASE UserStop
    BY <1>1, <1>22 DEF SlotInv, UserStop, TypeOK
  <1>kill. CASE SigintAgain
    BY <1>1, <1>kill DEF SlotInv, SigintAgain, TypeOK
  <1>23. CASE Sigint
    BY <1>1, <1>23 DEF SlotInv, Sigint, TypeOK
  <1>24. CASE UNCHANGED vars
    BY <1>24 DEF SlotInv, vars
  <1> QED
    BY <1>2, <1>3, <1>4, <1>5, <1>6, <1>7, <1>8, <1>9, <1>10, <1>11, <1>12,
       <1>13, <1>14, <1>15, <1>16, <1>17, <1>18, <1>19, <1>20,
       <1>21, <1>22, <1>23, <1>24, <1>kill DEF Next, RxStep, ReaderStep

(* The slot invariant holds in every state of a cache with one receiving    *)
(* CPU.                                                                     *)
LEMMA SlotInvariant ==
  ASSUME SingleCpu
  PROVE  Spec => []SlotInv
  <1>1. Init => SlotInv
    BY DEF Init, SlotInv, InUse
  <1>2. TypeInv /\ SlotInv /\ [Next]_vars => SlotInv'
    BY SlotStep
  <1> QED
    BY <1>1, <1>2, TypeInvariant, PTL DEF Spec

(* With one receiving CPU and payloads that fit a slot the handler and      *)
(* read() never work on the same slot: the unlocked status words are enough *)
(* to keep them apart.  (The tail of a larger payload is copied over slots  *)
(* whose status was not looked at.)                                         *)
THEOREM SlotsExclusive ==
  ASSUME SingleCpu, Span = 1
  PROVE  Spec => []NoDataRace
  <1>1. TypeInv /\ SlotInv => NoDataRace
    <2> SUFFICES ASSUME TypeInv, SlotInv PROVE NoDataRace
      OBVIOUS
    <2>1. \A s \in ReaderSlot : s \in Slots /\ status[s] = 1
      <3>1. CASE rpc = "grab"
        BY <3>1 DEF ReaderSlot, SlotInv, TypeInv, TypeOK
      <3>2. CASE rpc = "clean" /\ ix < PKTS_PER_BUFFER
        <4>1. ReaderSlot = {copied_index[ix]} \ {NoIndex} /\ ix \in Entries
          BY <3>2, RingAssumption DEF ReaderSlot, TypeInv, TypeOK, Entries
        <4>2. copied_index[ix] # NoIndex => InUse(ix)
          BY <3>2, <4>1 DEF InUse, TypeInv, TypeOK
        <4> QED
          BY <4>1, <4>2 DEF SlotInv
      <3>3. CASE rpc = "release"
        <4>1. ReaderSlot = {copied_index[ix]} /\ ix \in Entries
          BY <3>3, RingAssumption DEF ReaderSlot, TypeInv, TypeOK, LocalsOK, Entries
        <4>2. InUse(ix)
          BY <3>3, <4>1 DEF InUse, TypeInv, TypeOK, LocalsOK
        <4> QED
          BY <4>1, <4>2 DEF SlotInv
      <3>4. CASE /\ rpc # "grab"
                 /\ ~(rpc = "clean" /\ ix < PKTS_PER_BUFFER)
                 /\ rpc # "release"
        BY <3>4 DEF ReaderSlot
      <3> QED
        BY <3>1, <3>2, <3>3, <3>4
    <2>2. \A c \in Cpus : \A s \in HandlerSlots(c) : status[s] = 0
      <3> SUFFICES ASSUME NEW c \in Cpus, NEW s \in HandlerSlots(c) PROVE status[s] = 0
        OBVIOUS
      <3>1. rxpc[c] = "copy" => write_index[c] + chunk[c] = write_index[c]
        BY DEF TypeInv, TypeOK, LocalsOK, Slots
      <3>2. rxpc[c] \in {"copy", "publish"} /\ s = write_index[c]
        BY <3>1 DEF HandlerSlots
      <3> QED
        BY <3>2 DEF SlotInv
    <2> QED
      BY <2>1, <2>2 DEF NoDataRace
  <1> QED
    BY <1>1, TypeInvariant, SlotInvariant, PTL

(* With one receiving CPU and a payload that fits a slot, no packet that    *)
(* waits in the cache is ever overwritten.                                  *)
THEOREM FittingPayloadOverwritesNothing ==
  ASSUME SingleCpu, Span = 1
  PROVE  Spec => []NothingOverwritten
  <1>1. Init => NothingOverwritten
    BY DEF Init, NothingOverwritten
  <1>2. TypeInv /\ SlotInv /\ NothingOverwritten /\ [Next]_vars
          => NothingOverwritten'
    <2> SUFFICES ASSUME TypeInv, SlotInv, NothingOverwritten, [Next]_vars
                 PROVE  NothingOverwritten'
      OBVIOUS
    <2>1. ASSUME NEW c \in Cpus, RxCopy(c) PROVE NothingOverwritten'
      <3>1. chunk[c] = 0 /\ write_index[c] + chunk[c] = write_index[c]
        BY <2>1 DEF RxCopy, TypeInv, TypeOK, LocalsOK, Slots
      <3>2. status[write_index[c]] = 0
        BY <2>1 DEF RxCopy, SlotInv
      <3> QED
        BY <2>1, <3>1, <3>2 DEF RxCopy, NothingOverwritten
    <2>2. overwritten' = overwritten \/ \E c \in Cpus : RxCopy(c)
      BY DEF Next, vars, RxPass, RxArrive, RxStep, RxCount, RxFree, RxOccupied,
         RxDrop, RxPublish, RxAdvance, ReaderStep, ReadCall, ReadSkip,
         ReadFound, ReadGrab, CopyToUser, CopyToUserFault, Clean, Release,
         CleanSkip, ReadReturn, UserProcess, UserStop, Sigint,
       SigintAgain
    <2> QED
      BY <2>1, <2>2 DEF NothingOverwritten
  <1> QED
    BY <1>1, <1>2, TypeInvariant, SlotInvariant, PTL DEF Spec

-----------------------------------------------------------------------------
(* No packet vanishes                                                       *)

(* Every step preserves DataInv.                                            *)
LEMMA DataStep ==
  ASSUME SingleCpu, TypeInv, SlotInv, DataInv, [Next]_vars
  PROVE  DataInv'
  <1> USE RingAssumption, PacketAssumption DEF SingleCpu, InUse, Entries,
        NoIndex
  <1>1. TypeOK /\ LocalsOK
    BY DEF TypeInv
  <1>2. ASSUME NEW c \in Cpus,
               \/ \E p \in Packets : RxPass(c, p) \/ RxArrive(c, p)
               \/ RxCount(c) \/ RxFree(c) \/ RxOccupied(c) \/ RxDrop(c) \/ RxAdvance(c)
        PROVE  DataInv'
    <2>1. UNCHANGED <<data, rpc, copied_pkts, copied_index, ix, buff_temp, buff_read, handled>>
      BY <1>2 DEF RxPass, RxArrive, RxCount, RxFree, RxOccupied, RxDrop, RxAdvance
    <2>2. \A d \in Cpus :
            (rxpc'[d] = "copy" /\ (chunk'[d] > 0 \/ half'[d] = "checked"))
              \/ rxpc'[d] = "publish" =>
              /\ (rxpc[d] = "copy" /\ (chunk[d] > 0 \/ half[d] = "checked")) \/ rxpc[d] = "publish"
              /\ write_index'[d] = write_index[d] /\ pkt'[d] = pkt[d]
      <3>1. CASE \E p \in Packets : RxPass(c, p) \/ RxArrive(c, p)
        BY <1>1, <3>1 DEF RxPass, RxArrive, TypeOK
      <3>2. CASE RxCount(c) \/ RxOccupied(c)
        BY <1>1, <3>2 DEF RxCount, RxOccupied, TypeOK
      <3>3. CASE RxFree(c)
        BY <1>1, <3>3 DEF RxFree, TypeOK
      <3>4. CASE RxDrop(c) \/ RxAdvance(c)
        BY <1>1, <3>4 DEF RxDrop, RxAdvance, RxReturn, TypeOK
      <3> QED
        BY <1>2, <3>1, <3>2, <3>3, <3>4
    <2> QED
      BY <2>1, <2>2 DEF DataInv, PacketsIn
  <1>8. ASSUME NEW c \in Cpus, RxCopy(c) PROVE DataInv'
    <2>1. write_index[c] \in Slots /\ status[write_index[c]] = 0
      BY <1>1, <1>8 DEF RxCopy, SlotInv, TypeOK
    <2>2. \A s \in Slots : status[s] = 1 => data'[s] \in {data[s], NoPacket}
      BY <1>1, <1>8, <2>1 DEF RxCopy, TypeOK, Slots
    <2>3. chunk'[c] > 0 \/ half'[c] = "checked" \/ rxpc'[c] = "publish"
            => data'[write_index[c]] = pkt[c]
      <3>1. CASE chunk[c] = 0
        BY <1>1, <1>8, <2>1, <3>1 DEF RxCopy, TypeOK, Slots, Fields, DataInv
      <3>2. CASE chunk[c] > 0
        <4>1. write_index[c] # write_index[c] + chunk[c]
          BY <1>1, <2>1, <3>2 DEF TypeOK, Slots
        <4>2. data[write_index[c]] = pkt[c]
          BY <1>8, <3>2 DEF DataInv, RxCopy
        <4> QED
          BY <1>8, <2>1, <4>1, <4>2 DEF RxCopy
      <3> QED
        BY <1>1, <3>1, <3>2 DEF TypeOK
    <2>4. \A j \in Entries : InUse(j) =>
            /\ copied_index[j] \in Slots
            /\ status[copied_index[j]] = 1
      BY DEF SlotInv
    <2>5. UNCHANGED <<rpc, copied_pkts, copied_index, ix, buff_temp, buff_read,
                      handled, write_index, pkt>>
      BY <1>8 DEF RxCopy
    <2>6. rpc = "release" => InUse(ix) /\ ix \in Entries
      BY <1>1 DEF LocalsOK, TypeOK
    <2> QED
      BY <1>1, <2>2, <2>3, <2>4, <2>5, <2>6 DEF DataInv, PacketsIn
  <1>9. ASSUME NEW c \in Cpus, RxPublish(c) PROVE DataInv'
    <2>1. UNCHANGED <<data, rpc, copied_pkts, copied_index, ix, buff_temp,
                      buff_read, handled, write_index, pkt, chunk, half>>
      BY <1>9 DEF RxPublish
    <2>2. \A d \in Cpus : rxpc'[d] \in {rxpc[d], "advance"}
      BY <1>1, <1>9 DEF RxPublish, TypeOK
    <2> QED
      BY <2>1, <2>2 DEF DataInv, PacketsIn
  <1>11. CASE ReadCall
    BY <1>1, <1>11 DEF DataInv, PacketsIn, EmptyBuff, ReadCall, TypeOK
  <1>12. CASE ReadSkip
    BY <1>1, <1>12 DEF DataInv, SlotInv, PacketsIn, ReadSkip, TypeOK, LocalsOK, Scanning
  <1>13. CASE ReadFound
    BY <1>1, <1>13 DEF DataInv, SlotInv, PacketsIn, ReadFound, TypeOK, LocalsOK, Scanning
  <1>14. CASE ReadGrab
    BY <1>1, <1>14 DEF DataInv, SlotInv, PacketsIn, ReadGrab, TypeOK, LocalsOK, Scanning
  <1>15. CASE CopyToUser
    BY <1>1, <1>15 DEF DataInv, SlotInv, PacketsIn, CopyToUser, TypeOK
  <1>16. CASE CopyToUserFault
    BY <1>1, <1>16 DEF DataInv, SlotInv, PacketsIn, CopyToUserFault, TypeOK
  <1>17. CASE Clean
    BY <1>1, <1>17 DEF DataInv, SlotInv, PacketsIn, Clean, TypeOK, LocalsOK, Scanning
  <1>18. CASE Release
    BY <1>1, <1>18 DEF DataInv, SlotInv, PacketsIn, Release, TypeOK, LocalsOK, Scanning
  <1>19. CASE CleanSkip
    BY <1>1, <1>19 DEF DataInv, SlotInv, PacketsIn, CleanSkip, TypeOK
  <1>20. CASE ReadReturn
    BY <1>1, <1>20 DEF DataInv, SlotInv, PacketsIn, ReadReturn, TypeOK
  <1>21. CASE UserProcess
    BY <1>1, <1>21 DEF DataInv, SlotInv, PacketsIn, UserProcess, TypeOK
  <1>22. CASE UserStop
    BY <1>1, <1>22 DEF DataInv, SlotInv, PacketsIn, UserStop, TypeOK
  <1>kill. CASE SigintAgain
    BY <1>1, <1>kill DEF DataInv, SlotInv, PacketsIn, SigintAgain, TypeOK
  <1>23. CASE Sigint
    BY <1>1, <1>23 DEF DataInv, SlotInv, PacketsIn, Sigint, TypeOK
  <1>24. CASE UNCHANGED vars
    BY <1>24 DEF DataInv, PacketsIn, vars
  <1> QED
    BY <1>2, <1>8, <1>9, <1>11, <1>12,
       <1>13, <1>14, <1>15, <1>16, <1>17, <1>18, <1>19, <1>20,
       <1>21, <1>22, <1>23, <1>24, <1>kill DEF Next, RxStep, ReaderStep

(* Every step preserves Conservation.                                       *)
LEMMA ConservationStep ==
  ASSUME SingleCpu, TypeInv, SlotInv, DataInv, Conservation, [Next]_vars
  PROVE  Conservation'
  <1> USE RingAssumption, PacketAssumption DEF Conservation, Arrived, InHandler,
        InSlots, PacketsIn
  <1>1. TypeOK /\ LocalsOK
    BY DEF TypeInv
  <1>2. ASSUME NEW c \in Cpus, NEW p \in Packets, RxPass(c, p) PROVE Conservation'
    BY <1>1, <1>2 DEF RxPass, TypeOK
  <1>3. ASSUME NEW c \in Cpus, NEW p \in Packets, RxArrive(c, p) PROVE Conservation'
    BY <1>1, <1>3 DEF RxArrive, TypeOK
  <1>4. ASSUME NEW c \in Cpus, RxCount(c) PROVE Conservation'
    BY <1>1, <1>4 DEF RxCount, TypeOK
  <1>5. ASSUME NEW c \in Cpus, RxFree(c) PROVE Conservation'
    BY <1>1, <1>5 DEF RxFree, TypeOK
  <1>6. ASSUME NEW c \in Cpus, RxOccupied(c) PROVE Conservation'
    BY <1>1, <1>6 DEF RxOccupied, TypeOK
  <1>7. ASSUME NEW c \in Cpus, RxDrop(c) PROVE Conservation'
    BY <1>1, <1>7 DEF RxDrop, RxReturn, TypeOK
  <1>8. ASSUME NEW c \in Cpus, RxCopy(c) PROVE Conservation'
    BY <1>1, <1>8 DEF RxCopy, TypeOK
  <1>9. ASSUME NEW c \in Cpus, RxPublish(c) PROVE Conservation'
    <2>1. data[write_index[c]] = pkt[c] /\ write_index[c] \in Slots
      BY <1>1, <1>9 DEF DataInv, RxPublish, TypeOK
    <2>2. pkt[c] \in Packets
      BY <1>1, <1>9 DEF LocalsOK, RxPublish
    <2>3. pkt[c] \in InSlots'
      BY <1>1, <1>9, <2>1, <2>2 DEF RxPublish, TypeOK
    <2>4. InSlots \subseteq InSlots'
      BY <1>1, <1>9 DEF RxPublish, TypeOK
    <2>5. InHandler \subseteq InHandler' \cup {pkt[c]}
      BY <1>1, <1>9 DEF RxPublish, TypeOK
    <2> QED
      BY <1>9, <2>3, <2>4, <2>5 DEF RxPublish
  <1>10. ASSUME NEW c \in Cpus, RxAdvance(c) PROVE Conservation'
    BY <1>1, <1>10 DEF RxAdvance, RxReturn, TypeOK
  <1>11. CASE ReadCall
    <2>1. PacketsIn(buff_read) \subseteq handled
      BY <1>11 DEF DataInv, ReadCall
    <2> QED
      BY <1>11, <2>1 DEF ReadCall
  <1>12. CASE ReadSkip
    BY <1>1, <1>12 DEF ReadSkip, TypeOK
  <1>13. CASE ReadFound
    BY <1>1, <1>13 DEF ReadFound, TypeOK
  <1>14. CASE ReadGrab
    BY <1>1, <1>14 DEF ReadGrab, TypeOK
  <1>15. CASE CopyToUser
    <2>1. PacketsIn(buff_read) \subseteq handled
      BY <1>15 DEF DataInv, CopyToUser
    <2> QED
      BY <1>15, <2>1 DEF CopyToUser
  <1>16. CASE CopyToUserFault
    <2>1. PacketsIn(buff_read) \subseteq handled
      BY <1>16 DEF DataInv, CopyToUserFault
    <2> QED
      BY <1>16, <2>1 DEF CopyToUserFault
  <1>17. CASE Clean
    <2>1. ix \in Entries /\ InUse(ix)
      BY <1>1, <1>17 DEF Clean, TypeOK, InUse, Entries
    <2>2. data[copied_index[ix]] \in PacketsIn(buff_read) \cup {NoPacket}
      BY <1>17, <2>1 DEF DataInv, Clean
    <2>3. InSlots \subseteq InSlots' \cup {data[copied_index[ix]]}
      BY <1>1, <1>17 DEF Clean, TypeOK
    <2> QED
      BY <1>17, <2>2, <2>3 DEF Clean
  <1>18. CASE Release
    <2>1. data[copied_index[ix]] = NoPacket
      BY <1>18 DEF DataInv, Release
    <2>2. InSlots \subseteq InSlots'
      BY <1>1, <1>18, <2>1 DEF Release, TypeOK
    <2> QED
      BY <1>18, <2>2 DEF Release
  <1>19. CASE CleanSkip
    BY <1>1, <1>19 DEF CleanSkip, TypeOK
  <1>20. CASE ReadReturn
    BY <1>1, <1>20 DEF ReadReturn, TypeOK
  <1>21. CASE UserProcess
    BY <1>1, <1>21 DEF UserProcess, TypeOK
  <1>22. CASE UserStop
    BY <1>1, <1>22 DEF UserStop, TypeOK
  <1>kill. CASE SigintAgain
    BY <1>1, <1>kill DEF SigintAgain, TypeOK
  <1>23. CASE Sigint
    BY <1>1, <1>23 DEF Sigint, TypeOK
  <1>24. CASE UNCHANGED vars
    BY <1>24 DEF vars
  <1> QED
    BY <1>2, <1>3, <1>4, <1>5, <1>6, <1>7, <1>8, <1>9, <1>10, <1>11, <1>12,
       <1>13, <1>14, <1>15, <1>16, <1>17, <1>18, <1>19, <1>20,
       <1>21, <1>22, <1>23, <1>24, <1>kill DEF Next, RxStep, ReaderStep

(* Nothing has been copied and no packet has arrived.                       *)
LEMMA InitData == Init => DataInv /\ Conservation
  BY PacketAssumption DEF Init, DataInv, Conservation, Arrived, InUse, PacketsIn,
     EmptyBuff

(* With one receiving CPU no packet vanishes without a trace: for every     *)
(* size of the cache and of the payload, a packet the handler was called    *)
(* for is on its way, in the cache, delivered, discarded with the overflow  *)
(* counter, or overwritten by the tail of a later payload.                  *)
THEOREM PacketsConserved ==
  ASSUME SingleCpu
  PROVE  Spec => []Conservation
  <1>1. Init => DataInv /\ Conservation
    BY InitData
  <1>2. TypeInv /\ SlotInv /\ DataInv /\ [Next]_vars => DataInv'
    BY DataStep
  <1>3. TypeInv /\ SlotInv /\ DataInv /\ Conservation /\ [Next]_vars
          => Conservation'
    BY ConservationStep
  <1> QED
    BY <1>1, <1>2, <1>3, TypeInvariant, SlotInvariant, PTL DEF Spec

-----------------------------------------------------------------------------
(* The two logs                                                             *)

(* What the handler's memcpy does to a slot: it is one field of one slot.   *)
LEMMA CopyEffect ==
  ASSUME TypeInv, SlotInv, NEW c \in Cpus, RxCopy(c), NEW s \in Slots, status[s] = 1
  PROVE  \/ data'[s] = data[s] /\ data_uid'[s] = data_uid[s]
         \/ data'[s] = NoPacket
         \/ /\ data'[s] = data[s] /\ data_uid'[s] = 0
            /\ data[s] = NoPacket \/ data[s] \in overwritten'
  <1> DEFINE target == write_index[c] + chunk[c]
  <1>1. write_index[c] \in Slots /\ s # write_index[c] /\ chunk[c] \in Nat
    BY DEF TypeInv, TypeOK, SlotInv, RxCopy
  <1>2. CASE s # target
    BY <1>2 DEF RxCopy
  <1>3. CASE s = target
    <2>1. chunk[c] # 0
      BY <1>1, <1>3 DEF Slots
    <2>2. data[s] = NoPacket \/ data[s] \in overwritten'
      BY <1>3 DEF RxCopy
    <2> QED
      BY <1>3, <2>1, <2>2 DEF RxCopy, Fields
  <1> QED
    BY <1>2, <1>3

(* The packets a memcpy has gone over stay known.                           *)
LEMMA OverwrittenGrows ==
  ASSUME [Next]_vars
  PROVE  overwritten \subseteq overwritten'
  BY DEF Next, vars, RxPass, RxArrive, RxStep, RxCount, RxFree, RxOccupied, RxDrop,
     RxCopy, RxPublish, RxAdvance, ReaderStep, ReadCall, ReadSkip, ReadFound, ReadGrab,
     CopyToUser, CopyToUserFault, Clean, Release, CleanSkip, ReadReturn, UserProcess,
     UserStop, Sigint, SigintAgain

(* The user program logs the uids that are in the kernel's log, or 0 for a  *)
(* packet that was overwritten while read() copied it.                      *)
LEMMA ProcessLogs ==
  ASSUME TypeInv, LogInv, UidInv, UserProcess
  PROVE  UserLogWithinKernelLog'
  <1> DEFINE uids == {read_uid[j] : j \in DataEntries}
  <1>1. klog' = klog /\ ulog' = Stamp(ulog, uids) /\ overwritten' = overwritten
    BY DEF UserProcess
  <1> SUFFICES ASSUME NEW cell \in Cells, ulog'[cell]
               PROVE  klog[cell] \/ (cell = Cell(0) /\ overwritten # {})
    BY <1>1 DEF UserLogWithinKernelLog
  <1>2. CASE ulog[cell]
    BY <1>2 DEF UidInv, UserLogWithinKernelLog
  <1>3. CASE ~ulog[cell]
    <2>1. PICK u \in uids : InLog(u) /\ Cell(u) = cell
      BY <1>1, <1>3 DEF Stamp
    <2>2. PICK j \in Entries : u = read_uid[j] /\ buff_read[j] # NoPacket
      BY <2>1, PacketAssumption DEF DataEntries
    <2>3. buff_read[j] \in Logged /\ Belongs(buff_read[j], u)
      BY <2>2 DEF LogInv, UidInv
    <2> QED
      BY <2>1, <2>2, <2>3 DEF Logged, Belongs
  <1> QED
    BY <1>2, <1>3

(* Every step preserves UidInv.                                             *)
LEMMA UidStep ==
  ASSUME SingleCpu, TypeInv, LogInv, SlotInv, DataInv, UidInv, [Next]_vars
  PROVE  UidInv'
  <1> USE RingAssumption, PacketAssumption DEF SingleCpu
  <1>1. TypeOK /\ LocalsOK
    BY DEF TypeInv
  <1>2. ulog' = ulog => UserLogWithinKernelLog'
    BY KernelLogGrows, OverwrittenGrows DEF UidInv, UserLogWithinKernelLog
  <1>3. \A p, u : Belongs(p, u) => Belongs(p, u)'
    BY OverwrittenGrows DEF Belongs
  <1>4. ASSUME NEW c \in Cpus, RxCopy(c) PROVE UidInv'
    <2>1. UNCHANGED <<status, write_index, pkt, buff_temp, temp_uid, buff_read, read_uid, ulog>>
      BY <1>4 DEF RxCopy
    <2>2. write_index[c] \in Slots /\ chunk[c] \in Nat
      BY <1>1 DEF TypeOK
    <2>3. chunk'[c] > 0 \/ half'[c] = "uid" \/ rxpc'[c] = "publish"
            => data_uid'[write_index[c]] = Uid[pkt[c]]
      <3>1. CASE chunk[c] = 0
        BY <1>1, <1>4, <2>2, <3>1 DEF RxCopy, TypeOK, Slots, Fields, UidInv
      <3>2. CASE chunk[c] # 0
        <4>1. write_index[c] # write_index[c] + chunk[c]
          BY <2>2, <3>2 DEF Slots
        <4>2. data_uid[write_index[c]] = Uid[pkt[c]]
          BY <1>4, <2>2, <3>2 DEF UidInv, RxCopy
        <4> QED
          BY <1>4, <2>2, <4>1, <4>2 DEF RxCopy
      <3> QED
        BY <3>1, <3>2
    <2>4. \A s \in Slots : status[s] = 1 => Belongs(data[s], data_uid[s])'
      BY <1>3, <1>4, CopyEffect DEF UidInv, Belongs
    <2> QED
      BY <1>1, <1>2, <1>3, <2>1, <2>3, <2>4 DEF UidInv
  <1>5. ASSUME NEW c \in Cpus, RxPublish(c) PROVE UidInv'
    <2>1. UNCHANGED <<data, data_uid, write_index, pkt, chunk, half, buff_temp, temp_uid,
                      buff_read, read_uid, ulog>>
      BY <1>5 DEF RxPublish
    <2>2. \A d \in Cpus : rxpc'[d] \in {rxpc[d], "advance"}
      BY <1>1, <1>5 DEF RxPublish, TypeOK
    <2>3. \A s \in Slots : status'[s] = 1 => status[s] = 1 \/ s = write_index[c]
      BY <1>1, <1>5 DEF RxPublish, TypeOK
    <2>4. Belongs(data[write_index[c]], data_uid[write_index[c]])
      BY <1>5 DEF RxPublish, UidInv, DataInv, Belongs
    <2> QED
      BY <1>2, <1>3, <2>1, <2>2, <2>3, <2>4 DEF UidInv
  <1>6. ASSUME NEW c \in Cpus,
               \/ \E p \in Packets : RxPass(c, p) \/ RxArrive(c, p)
               \/ RxCount(c) \/ RxFree(c) \/ RxOccupied(c) \/ RxDrop(c) \/ RxAdvance(c)
        PROVE  UidInv'
    <2>1. UNCHANGED <<status, data, data_uid, buff_temp, temp_uid, buff_read, read_uid, ulog>>
      BY <1>6 DEF RxPass, RxArrive, RxCount, RxFree, RxOccupied, RxDrop, RxAdvance
    <2>2. \A d \in Cpus :
            (rxpc'[d] = "copy" /\ (chunk'[d] > 0 \/ half'[d] = "uid"))
              \/ rxpc'[d] = "publish" =>
              /\ (rxpc[d] = "copy" /\ (chunk[d] > 0 \/ half[d] = "uid")) \/ rxpc[d] = "publish"
              /\ write_index'[d] = write_index[d] /\ pkt'[d] = pkt[d]
      BY <1>1, <1>6 DEF RxPass, RxArrive, RxCount, RxFree, RxOccupied, RxDrop, RxAdvance,
         RxReturn, TypeOK
    <2> QED
      BY <1>2, <1>3, <2>1, <2>2 DEF UidInv
  <1>7. CASE ReadGrab
    <2>1. Belongs(data[ci], data_uid[ci])
      BY <1>1, <1>7 DEF ReadGrab, SlotInv, UidInv, TypeOK
    <2>2. \A j \in Entries : \/ buff_temp'[j] = data[ci] /\ temp_uid'[j] = data_uid[ci]
                             \/ buff_temp'[j] = buff_temp[j] /\ temp_uid'[j] = temp_uid[j]
      <3>1. /\ buff_temp' = [buff_temp EXCEPT ![copied_pkts] = data[ci]]
            /\ temp_uid' = [temp_uid EXCEPT ![copied_pkts] = data_uid[ci]]
        BY <1>7 DEF ReadGrab
      <3>2. buff_temp \in [Entries -> Contents] /\ temp_uid \in [Entries -> Nat]
        BY <1>1 DEF TypeOK
      <3> QED
        BY <3>1, <3>2
    <2>3. UNCHANGED <<status, data, data_uid, rxpc, chunk, half, write_index, pkt, buff_read,
                      read_uid, ulog>>
      BY <1>7 DEF ReadGrab
    <2> QED
      BY <1>2, <1>3, <2>1, <2>2, <2>3 DEF UidInv
  <1>8. CASE ReadCall \/ CopyToUser \/ CopyToUserFault
    <2>1. UNCHANGED <<status, data, data_uid, rxpc, chunk, half, write_index, pkt, ulog>>
      BY <1>8 DEF ReadCall, CopyToUser, CopyToUserFault
    <2>2. \A j \in Entries : \/ buff_temp'[j] = NoPacket
                             \/ buff_temp'[j] = buff_temp[j] /\ temp_uid'[j] = temp_uid[j]
      <3>1. CASE ReadCall
        BY <3>1 DEF ReadCall, EmptyBuff
      <3>2. CASE CopyToUser \/ CopyToUserFault
        BY <3>2 DEF CopyToUser, CopyToUserFault
      <3> QED
        BY <1>8, <3>1, <3>2
    <2>3. \A j \in Entries : \/ buff_read'[j] = NoPacket
                             \/ buff_read'[j] = buff_temp[j] /\ read_uid'[j] = temp_uid[j]
      <3>1. CASE ReadCall
        BY <3>1 DEF ReadCall, EmptyBuff
      <3>2. CASE CopyToUser
        BY <3>2 DEF CopyToUser
      <3>3. CASE CopyToUserFault
        <4>1. PICK n \in Entries :
                /\ buff_read' = [j \in Entries |-> IF j < n THEN buff_temp[j] ELSE NoPacket]
                /\ read_uid' = [j \in Entries |-> IF j < n THEN temp_uid[j] ELSE 0]
          BY <3>3 DEF CopyToUserFault
        <4> QED
          BY <4>1
      <3> QED
        BY <1>8, <3>1, <3>2, <3>3
    <2> QED
      BY <1>2, <1>3, <2>1, <2>2, <2>3 DEF UidInv, Belongs
  <1>9. CASE Clean
    <2>1. UNCHANGED <<status, rxpc, chunk, half, write_index, pkt, buff_temp, temp_uid,
                      buff_read, read_uid, ulog>>
      BY <1>9 DEF Clean
    <2>2. ix \in Entries /\ InUse(ix)
      BY <1>1, <1>9 DEF Clean, TypeOK, InUse, Entries
    <2>3. \A s \in Slots : \/ s = copied_index[ix] /\ data'[s] = NoPacket
                           \/ data'[s] = data[s] /\ data_uid'[s] = data_uid[s]
      <3>1. /\ data' = [data EXCEPT ![copied_index[ix]] = NoPacket]
            /\ data_uid' = [data_uid EXCEPT ![copied_index[ix]] = 0]
        BY <1>9 DEF Clean
      <3>2. data \in [Slots -> Contents] /\ data_uid \in [Slots -> Nat]
        BY <1>1 DEF TypeOK
      <3> QED
        BY <3>1, <3>2
    <2>4. \A c \in Cpus : rxpc[c] \in {"copy", "publish"} => write_index[c] # copied_index[ix]
      BY <2>2 DEF SlotInv
    <2>5. \A c \in Cpus : write_index[c] \in Slots
      BY <1>1 DEF TypeOK
    <2> QED
      BY <1>2, <1>3, <2>1, <2>3, <2>4, <2>5 DEF UidInv, Belongs
  <1>10. CASE Release
    <2>1. \A s \in Slots : status'[s] = 1 => status[s] = 1
      BY <1>1, <1>10 DEF Release, TypeOK
    <2>2. UNCHANGED <<data, data_uid, rxpc, chunk, half, write_index, pkt, buff_temp,
                      temp_uid, buff_read, read_uid, ulog>>
      BY <1>10 DEF Release
    <2> QED
      BY <1>2, <1>3, <2>1, <2>2 DEF UidInv
  <1>11. CASE UserProcess
    <2>1. UNCHANGED <<status, data, data_uid, rxpc, chunk, half, write_index, pkt, buff_temp,
                      temp_uid, buff_read, read_uid>>
      BY <1>11 DEF UserProcess
    <2> QED
      BY <1>3, <1>11, <2>1, ProcessLogs DEF UidInv
  <1>12. CASE ReadSkip \/ ReadFound \/ CleanSkip \/ ReadReturn \/ UserStop \/ Sigint
             \/ SigintAgain \/ UNCHANGED vars
    <2>1. UNCHANGED <<status, data, data_uid, rxpc, chunk, half, write_index, pkt, buff_temp,
                      temp_uid, buff_read, read_uid, ulog>>
      BY <1>12 DEF ReadSkip, ReadFound, CleanSkip, ReadReturn, UserStop, Sigint,
         SigintAgain, vars
    <2> QED
      BY <1>2, <1>3, <2>1 DEF UidInv
  <1> QED
    BY <1>4, <1>5, <1>6, <1>7, <1>8, <1>9, <1>10, <1>11, <1>12 DEF Next, RxStep, ReaderStep

(* Nothing has been copied and nothing logged.                              *)
LEMMA InitUid == Init => LogInv /\ UidInv
  BY DEF Init, LogInv, UidInv, Belongs, UserLogWithinKernelLog, EmptyLog, EmptyBuff

(* UidInv and the parts it rests on hold in every state of a cache with one *)
(* receiving CPU.                                                           *)
LEMMA UidInvariant ==
  ASSUME SingleCpu
  PROVE  Spec => [](LogInv /\ DataInv /\ UidInv)
  <1>1. Init => LogInv /\ DataInv /\ UidInv
    BY InitUid, InitData
  <1>2. TypeInv /\ SlotInv /\ LogInv /\ DataInv /\ UidInv /\ [Next]_vars
          => LogInv' /\ DataInv' /\ UidInv'
    BY LogStep, DataStep, UidStep
  <1> QED
    BY <1>1, <1>2, TypeInvariant, SlotInvariant, PTL DEF Spec

(* With one receiving CPU, a uid the user program has logged was logged by  *)
(* the kernel module before, for every size of the cache and of the payload *)
(* and although the two memcpys may run at the same time on one slot.  Uid  *)
(* 0 is the one exception, after the tail of a payload has overwritten a    *)
(* packet: it may be what read() found of a uid field.                      *)
THEOREM LogsNested ==
  ASSUME SingleCpu
  PROVE  Spec => []UserLogWithinKernelLog
  <1>1. UidInv => UserLogWithinKernelLog
    BY DEF UidInv
  <1> QED
    BY <1>1, UidInvariant, PTL

(* If the payloads fit a slot there is no exception: the difference of the  *)
(* two timestamps of a uid is always one of a packet both have seen.        *)
THEOREM FittingLogsNested ==
  ASSUME SingleCpu, Span = 1
  PROVE  Spec => []LogsWithin
  <1>1. UserLogWithinKernelLog /\ NothingOverwritten => LogsWithin
    BY DEF UserLogWithinKernelLog, NothingOverwritten, LogsWithin
  <1> QED
    BY <1>1, LogsNested, FittingPayloadOverwritesNothing, PTL

-----------------------------------------------------------------------------
(* The counters                                                             *)

(* Every step preserves ArrivedInv: a packet gets into the cache, into the  *)
(* buffers of read() and to the user program only through the handler.      *)
LEMMA ArrivedStep ==
  ASSUME SingleCpu, TypeInv, ArrivedInv, [Next]_vars
  PROVE  ArrivedInv'
  <1> USE PacketAssumption DEF SingleCpu, ArrivedInv, Arrived
  <1>1. TypeOK /\ LocalsOK
    BY DEF TypeInv
  <1>2. ASSUME NEW c \in Cpus, NEW p \in Packets, RxPass(c, p) PROVE ArrivedInv'
    BY <1>1, <1>2 DEF RxPass, TypeOK
  <1>3. ASSUME NEW c \in Cpus, NEW p \in Packets, RxArrive(c, p) PROVE ArrivedInv'
    BY <1>1, <1>3 DEF RxArrive, TypeOK
  <1>4. ASSUME NEW c \in Cpus, RxCount(c) PROVE ArrivedInv'
    BY <1>1, <1>4 DEF RxCount, TypeOK
  <1>5. ASSUME NEW c \in Cpus, RxFree(c) PROVE ArrivedInv'
    BY <1>1, <1>5 DEF RxFree, TypeOK
  <1>6. ASSUME NEW c \in Cpus, RxOccupied(c) PROVE ArrivedInv'
    BY <1>1, <1>6 DEF RxOccupied, TypeOK
  <1>7. ASSUME NEW c \in Cpus, RxDrop(c) PROVE ArrivedInv'
    BY <1>1, <1>7 DEF RxDrop, RxReturn, TypeOK
  <1>8. ASSUME NEW c \in Cpus, RxCopy(c) PROVE ArrivedInv'
    BY <1>1, <1>8 DEF RxCopy, TypeOK
  <1>9. ASSUME NEW c \in Cpus, RxPublish(c) PROVE ArrivedInv'
    BY <1>1, <1>9 DEF RxPublish, TypeOK
  <1>10. ASSUME NEW c \in Cpus, RxAdvance(c) PROVE ArrivedInv'
    BY <1>1, <1>10 DEF RxAdvance, RxReturn, TypeOK
  <1>11. CASE ReaderStep \/ Sigint \/ SigintAgain
    <2>1. CASE ReadCall
      BY <1>1, <2>1 DEF ReadCall, EmptyBuff, TypeOK
    <2>2. CASE ReadGrab
      BY <1>1, <2>2 DEF ReadGrab, TypeOK
    <2>3. CASE CopyToUser
      BY <1>1, <2>3 DEF CopyToUser, TypeOK
    <2>4. CASE CopyToUserFault
      BY <1>1, <2>4 DEF CopyToUserFault, TypeOK
    <2>5. CASE Clean
      BY <1>1, <2>5 DEF Clean, TypeOK
    <2>6. CASE UserProcess
      BY <1>1, <2>6 DEF UserProcess, PacketsIn, TypeOK
    <2>7. CASE ReadSkip \/ ReadFound \/ Release \/ CleanSkip \/ ReadReturn \/ UserStop
               \/ Sigint \/ SigintAgain
      BY <2>7 DEF ReadSkip, ReadFound, Release, CleanSkip, ReadReturn, UserStop,
         Sigint, SigintAgain
    <2> QED
      BY <1>11, <2>1, <2>2, <2>3, <2>4, <2>5, <2>6, <2>7 DEF ReaderStep
  <1>12. CASE UNCHANGED vars
    BY <1>12 DEF vars
  <1> QED
    BY <1>2, <1>3, <1>4, <1>5, <1>6, <1>7, <1>8, <1>9, <1>10, <1>11, <1>12
       DEF Next, RxStep

(* Arrived and dropped are finite, and one more packet counts one more.     *)
LEMMA CountOneMore ==
  ASSUME TypeInv, NEW S \in SUBSET Packets, NEW p \in Packets, p \notin S
  PROVE  /\ Cardinality(S) \in Nat
         /\ Cardinality(S \cup {p}) = Cardinality(S) + 1
  <1>1. IsFiniteSet(S)
    BY FS_Subset, PacketAssumption
  <1> QED
    BY <1>1, FS_AddElement, FS_CardinalityType

(* Every step preserves CountInv.                                           *)
LEMMA CountStep ==
  ASSUME SingleCpu, TypeInv, ArrivedInv, CountInv, [Next]_vars
  PROVE  CountInv'
  <1> USE PacketAssumption DEF SingleCpu, CountInv
  <1>1. TypeOK /\ LocalsOK
    BY DEF TypeInv
  <1>2. ASSUME NEW c \in Cpus, NEW p \in Packets, RxPass(c, p) PROVE CountInv'
    <2>1. Arrived' = Arrived
      BY <1>2 DEF RxPass, Arrived
    <2> QED
      BY <1>2, <2>1 DEF RxPass
  <1>3. ASSUME NEW c \in Cpus, NEW p \in Packets, RxArrive(c, p) PROVE CountInv'
    <2>1. Arrived' = Arrived \cup {p} /\ p \notin Arrived /\ Arrived \subseteq Packets
      BY <1>1, <1>3 DEF RxArrive, Arrived, TypeOK
    <2>2. Cardinality(Arrived') = Cardinality(Arrived) + 1
      BY <2>1, CountOneMore
    <2>3. count_pkt = Cardinality(Arrived)
      BY <1>3 DEF RxArrive
    <2> QED
      BY <1>1, <1>3, <2>2, <2>3 DEF RxArrive, TypeOK
  <1>4. ASSUME NEW c \in Cpus, RxCount(c) PROVE CountInv'
    BY <1>1, <1>4 DEF RxCount, TypeOK, Arrived
  <1>5. ASSUME NEW c \in Cpus, RxFree(c) PROVE CountInv'
    BY <1>1, <1>5 DEF RxFree, TypeOK, Arrived
  <1>6. ASSUME NEW c \in Cpus, RxOccupied(c) PROVE CountInv'
    BY <1>1, <1>6 DEF RxOccupied, TypeOK, Arrived
  <1>7. ASSUME NEW c \in Cpus, RxDrop(c) PROVE CountInv'
    <2>1. pkt[c] \in Packets /\ pkt[c] \notin dropped /\ dropped \subseteq Packets
      BY <1>1, <1>7 DEF RxDrop, ArrivedInv, LocalsOK, TypeOK
    <2>2. Cardinality(dropped') = Cardinality(dropped) + 1
      BY <1>7, <2>1, CountOneMore DEF RxDrop
    <2> QED
      BY <1>1, <1>7, <2>2 DEF RxDrop, RxReturn, TypeOK, Arrived
  <1>8. ASSUME NEW c \in Cpus, RxCopy(c) \/ RxPublish(c) \/ RxAdvance(c) PROVE CountInv'
    BY <1>1, <1>8 DEF RxCopy, RxPublish, RxAdvance, RxReturn, TypeOK, Arrived
  <1>9. CASE ReaderStep \/ Sigint \/ SigintAgain \/ UNCHANGED vars
    <2>1. UNCHANGED <<rxpc, loaded, count_pkt, count_pkt_overflow, wire, dropped>>
      BY <1>9 DEF ReaderStep, ReadCall, ReadSkip, ReadFound, ReadGrab, CopyToUser,
         CopyToUserFault, Clean, Release, CleanSkip, ReadReturn, UserProcess,
         UserStop, Sigint, SigintAgain, vars
    <2> QED
      BY <2>1 DEF Arrived
  <1> QED
    BY <1>2, <1>3, <1>4, <1>5, <1>6, <1>7, <1>8, <1>9 DEF Next, RxStep

(* No packet has arrived and none was counted.                              *)
LEMMA InitCount == Init => ArrivedInv /\ CountInv
  <1> SUFFICES ASSUME Init PROVE ArrivedInv /\ CountInv
    OBVIOUS
  <1>1. Arrived = {}
    BY PacketAssumption DEF Init, Arrived
  <1> QED
    BY <1>1, FS_EmptySet DEF Init, ArrivedInv, CountInv, EmptyBuff

(* With one receiving CPU the unlocked counters are exact: between two      *)
(* packets count_pkt is the number of packets the handler was called for    *)
(* and count_pkt_overflow the number it discarded.                          *)
THEOREM CountersExact ==
  ASSUME SingleCpu
  PROVE  Spec => []Accounting
  <1>1. Init => ArrivedInv /\ CountInv
    BY InitCount
  <1>2. TypeInv /\ ArrivedInv /\ CountInv /\ [Next]_vars => ArrivedInv' /\ CountInv'
    BY ArrivedStep, CountStep
  <1>3. CountInv => Accounting
    BY DEF CountInv, Accounting
  <1> QED
    BY <1>1, <1>2, <1>3, TypeInvariant, PTL DEF Spec

(* Every step preserves HandledInv: an entry of a packet that was not       *)
(* overwritten has that packet's uid.                                       *)
LEMMA HandledStep ==
  ASSUME TypeInv, UidInv, HandledInv, [Next]_vars
  PROVE  HandledInv'
  <1> USE PacketAssumption DEF HandledInv
  <1>1. TypeOK
    BY DEF TypeInv
  <1>2. CASE UserProcess
    <2> DEFINE uids == {read_uid[j] : j \in DataEntries}
    <2>1. /\ ulog' = Stamp(ulog, uids) /\ handled' = handled \cup PacketsIn(buff_read)
          /\ overwritten' = overwritten
      BY <1>2 DEF UserProcess
    <2>2. ASSUME NEW p \in (handled' \cap DataPackets) \ overwritten, InLog(Uid[p])
          PROVE  ulog'[Cell(Uid[p])]
      <3>1. ulog \in [Cells -> BOOLEAN] /\ Uid[p] \in Nat
        BY <1>1 DEF TypeOK
      <3>2. CASE p \in handled
        BY <2>1, <2>2, <3>1, <3>2, StampType, CellInLog
      <3>3. CASE p \in PacketsIn(buff_read)
        <4>1. PICK j \in Entries : buff_read[j] = p
          BY <3>3 DEF PacketsIn
        <4>2. read_uid[j] = Uid[p]
          BY <2>2, <4>1 DEF UidInv, Belongs
        <4>3. Uid[p] \in uids
          BY <2>2, <4>1, <4>2 DEF DataEntries
        <4> QED
          BY <2>1, <2>2, <3>1, <4>3, StampSets
      <3> QED
        BY <2>1, <2>2, <3>2, <3>3
    <2> QED
      BY <2>1, <2>2
  <1>3. CASE ~UserProcess
    <2>1. UNCHANGED <<ulog, handled>> /\ overwritten \subseteq overwritten'
      BY <1>3 DEF Next, RxStep, RxPass, RxArrive, RxCount, RxFree, RxOccupied,
         RxDrop, RxCopy, RxPublish, RxAdvance, ReaderStep, ReadCall, ReadSkip,
         ReadFound, ReadGrab, CopyToUser, CopyToUserFault, Clean, Release, CleanSkip,
         ReadReturn, UserStop, Sigint, SigintAgain, vars
    <2> QED
      BY <2>1
  <1> QED
    BY <1>2, <1>3

-----------------------------------------------------------------------------
(* No packet is seen twice                                                  *)

(* Every step preserves HandlerAlone.                                       *)
LEMMA HandlerAloneStep ==
  ASSUME SingleCpu, TypeInv, SlotInv, ArrivedInv, HandlerAlone, [Next]_vars
  PROVE  HandlerAlone'
  <1> USE PacketAssumption DEF SingleCpu, HandlerAlone
  <1>1. TypeOK /\ LocalsOK
    BY DEF TypeInv
  <1>2. ASSUME NEW c \in Cpus, NEW p \in Packets, RxPass(c, p) PROVE HandlerAlone'
    BY <1>2 DEF RxPass
  <1>3. ASSUME NEW c \in Cpus, NEW p \in Packets, RxArrive(c, p) PROVE HandlerAlone'
    <2>1. p \notin Arrived /\ p # NoPacket
      BY <1>3 DEF RxArrive, Arrived
    <2> QED
      BY <1>1, <1>3, <2>1 DEF RxArrive, ArrivedInv, TypeOK
  <1>4. ASSUME NEW c \in Cpus, RxCount(c) PROVE HandlerAlone'
    BY <1>1, <1>4 DEF RxCount, TypeOK
  <1>5. ASSUME NEW c \in Cpus, RxFree(c) PROVE HandlerAlone'
    BY <1>1, <1>5 DEF RxFree, TypeOK
  <1>6. ASSUME NEW c \in Cpus, RxOccupied(c) PROVE HandlerAlone'
    BY <1>1, <1>6 DEF RxOccupied, TypeOK
  <1>7. ASSUME NEW c \in Cpus, RxDrop(c) \/ RxAdvance(c) PROVE HandlerAlone'
    BY <1>1, <1>7 DEF RxDrop, RxAdvance, RxReturn, TypeOK
  <1>8. ASSUME NEW c \in Cpus, RxCopy(c) PROVE HandlerAlone'
    <2>1. pkt[c] # NoPacket /\ rxpc'[c] \in {"copy", "publish"}
      BY <1>1, <1>8 DEF RxCopy, LocalsOK, TypeOK
    <2>2. \A s \in Slots : data'[s] = pkt[c] => s = write_index[c]
      <3>1. \A s \in Slots : data[s] = pkt[c] => s = write_index[c]
        BY <1>8 DEF RxCopy
      <3>2. \A s \in Slots : \/ data'[s] = data[s] \/ data'[s] = NoPacket
                             \/ s = write_index[c] + chunk[c] /\ chunk[c] = 0
        BY <1>8 DEF RxCopy
      <3>3. write_index[c] \in Int
        BY <1>1 DEF TypeOK, Slots
      <3> QED
        BY <2>1, <3>1, <3>2, <3>3
    <2> QED
      BY <1>1, <1>8, <2>1, <2>2 DEF RxCopy, TypeOK
  <1>9. ASSUME NEW c \in Cpus, RxPublish(c) PROVE HandlerAlone'
    BY <1>1, <1>9 DEF RxPublish, TypeOK
  <1>10. CASE ReadCall
    BY <1>1, <1>10 DEF ReadCall, EmptyBuff, LocalsOK
  <1>11. CASE ReadGrab
    <2>1. \A c \in Cpus : rxpc[c] \notin {"idle", "advance"} => data[ci] # pkt[c]
      BY <1>1, <1>11 DEF ReadGrab, SlotInv, TypeOK
    <2> QED
      BY <1>1, <1>11, <2>1 DEF ReadGrab, TypeOK
  <1>12. CASE CopyToUser
    BY <1>1, <1>12 DEF CopyToUser
  <1>13. CASE CopyToUserFault
    BY <1>1, <1>13 DEF CopyToUserFault, LocalsOK
  <1>14. CASE Clean
    BY <1>1, <1>14 DEF Clean, LocalsOK, TypeOK
  <1>15. CASE UserProcess
    BY <1>1, <1>15 DEF UserProcess, PacketsIn, LocalsOK
  <1>16. CASE ReadSkip \/ ReadFound \/ Release \/ CleanSkip \/ ReadReturn \/ UserStop
             \/ Sigint \/ SigintAgain \/ UNCHANGED vars
    BY <1>16 DEF ReadSkip, ReadFound, Release, CleanSkip, ReadReturn, UserStop, Sigint,
       SigintAgain, vars
  <1> QED
    BY <1>2, <1>3, <1>4, <1>5, <1>6, <1>7, <1>8, <1>9, <1>10, <1>11, <1>12, <1>13,
       <1>14, <1>15, <1>16 DEF Next, RxStep, ReaderStep

(* What a step does to the slots: the handler may put its packet in its     *)
(* slot, and any slot may be wiped.                                         *)
LEMMA SlotsChange ==
  ASSUME TypeInv, [Next]_vars
  PROVE  \A s \in Slots :
           \/ data'[s] \in {data[s], NoPacket}
           \/ \E c \in Cpus : /\ RxCopy(c) /\ rxpc[c] = "copy"
                              /\ s = write_index[c] /\ data'[s] = pkt[c]
  <1>1. TypeOK /\ LocalsOK
    BY DEF TypeInv
  <1>2. ASSUME NEW c \in Cpus, RxCopy(c), NEW s \in Slots
        PROVE  \/ data'[s] \in {data[s], NoPacket}
               \/ s = write_index[c] /\ data'[s] = pkt[c]
    BY <1>1, <1>2 DEF RxCopy, TypeOK, Slots
  <1>3. CASE Clean
    BY <1>1, <1>3 DEF Clean, TypeOK
  <1>4. CASE ~Clean /\ \A c \in Cpus : ~RxCopy(c)
    <2>1. data' = data
      BY <1>4 DEF Next, RxStep, RxPass, RxArrive, RxCount, RxFree, RxOccupied, RxDrop,
         RxPublish, RxAdvance, ReaderStep, ReadCall, ReadSkip, ReadFound, ReadGrab,
         CopyToUser, CopyToUserFault, Release, CleanSkip, ReadReturn, UserProcess,
         UserStop, Sigint, SigintAgain, vars
    <2> QED
      BY <2>1
  <1> QED
    BY <1>2, <1>3, <1>4 DEF RxCopy

(* Every step preserves SlotsDistinct.                                      *)
LEMMA SlotsDistinctStep ==
  ASSUME SingleCpu, TypeInv, HandlerAlone, SlotsDistinct, [Next]_vars
  PROVE  SlotsDistinct'
  <1> SUFFICES ASSUME NEW s \in Slots, NEW t \in Slots, s # t, data'[s] = data'[t],
                      data'[s] # NoPacket
               PROVE  FALSE
    BY DEF SlotsDistinct, Slots
  <1>1. CASE data'[s] = data[s] /\ data'[t] = data[t]
    BY <1>1 DEF SlotsDistinct
  <1>2. ASSUME NEW c \in Cpus, RxCopy(c), rxpc[c] = "copy"
        PROVE  \A x \in Slots : data[x] = pkt[c] => x = write_index[c]
    BY <1>2 DEF HandlerAlone
  <1> QED
    BY <1>1, <1>2, SlotsChange DEF SingleCpu

(* Every step preserves ScanDistinct.                                       *)
LEMMA ScanDistinctStep ==
  ASSUME TypeInv, SlotInv, HandlerAlone, SlotsDistinct, ScanDistinct,
         \A s \in Slots : data[s] \in handled => data[s] \in faulted,
         [Next]_vars
  PROVE  ScanDistinct'
  <1> USE PacketAssumption, RingAssumption
  <1>1. TypeOK /\ LocalsOK
    BY DEF TypeInv
  <1>2. CASE ReadCall
    BY <1>1, <1>2 DEF ReadCall, EmptyBuff, ScanDistinct, TypeOK
  <1>3. CASE ReadGrab
    <2>1. copied_pkts \in Entries /\ ci \in Slots /\ rtry < MAX_PKT
      BY <1>1, <1>3 DEF ReadGrab, LocalsOK, Scanning, TypeOK, Entries
    <2>2. \A j \in Entries : j < copied_pkts =>
             copied_index[j] \in Slots /\ copied_index[j] # ci
      <3> SUFFICES ASSUME NEW j \in Entries, j < copied_pkts
                   PROVE  copied_index[j] \in Slots /\ copied_index[j] # ci
        OBVIOUS
      <3>1. copied_index[j] \in Slots /\ Dist(ci, copied_index[j]) + rtry >= MAX_PKT
        BY <1>3 DEF ReadGrab, SlotInv, InUse
      <3>2. Dist(ci, ci) = 0 /\ rtry \in Nat
        BY <1>1, <2>1, DistSucc DEF TypeOK
      <3> QED
        BY <2>1, <3>1, <3>2
    <2>3. \A j \in Entries : buff_temp[j] # NoPacket => buff_temp[j] # data[ci]
      BY <1>1, <1>3, <2>1, <2>2 DEF ReadGrab, ScanDistinct, TypeOK, Entries
    <2>4. /\ buff_temp' = [buff_temp EXCEPT ![copied_pkts] = data[ci]]
          /\ copied_index' = [copied_index EXCEPT ![copied_pkts] = ci]
          /\ copied_pkts' = copied_pkts + 1
          /\ UNCHANGED <<data, handled, faulted>>
          /\ rpc = "grab"
      BY <1>3 DEF ReadGrab
    <2>5. \A j \in Entries : buff_temp'[j] = IF j = copied_pkts THEN data[ci] ELSE buff_temp[j]
      BY <1>1, <2>4 DEF TypeOK
    <2>6. \A j \in Entries : copied_index'[j] = IF j = copied_pkts THEN ci ELSE copied_index[j]
      BY <1>1, <2>4 DEF TypeOK
    <2>7. \A j \in Entries : j >= copied_pkts' => j # copied_pkts /\ j >= copied_pkts
      BY <2>1, <2>4 DEF Entries
    <2>8. \A s \in Slots : data[s] = data[ci] /\ data[ci] # NoPacket => s = ci
      BY <2>1 DEF SlotsDistinct
    <2> QED
      BY <2>1, <2>3, <2>4, <2>5, <2>6, <2>7, <2>8 DEF ScanDistinct
  <1>4. CASE UserProcess \/ CopyToUser \/ CopyToUserFault
    BY <1>4 DEF UserProcess, CopyToUser, CopyToUserFault, ScanDistinct
  <1>5. CASE ~(ReadCall \/ ReadGrab \/ UserProcess \/ CopyToUser \/ CopyToUserFault)
    <2>1. /\ UNCHANGED <<handled, faulted>>
          /\ rpc' \in {"scan", "grab"} =>
               /\ rpc \in {"scan", "grab"}
               /\ UNCHANGED <<buff_temp, copied_pkts, copied_index>>
      BY <1>5 DEF Next, RxStep, RxPass, RxArrive, RxCount, RxFree, RxOccupied, RxDrop,
         RxCopy, RxPublish, RxAdvance, ReaderStep, ReadSkip, ReadFound, Clean, Release,
         CleanSkip, ReadReturn, UserStop, Sigint, SigintAgain, vars
    <2>2. ASSUME NEW c \in Cpus, rxpc[c] = "copy", NEW j \in Entries
          PROVE  pkt[c] # buff_temp[j]
      BY <2>2 DEF HandlerAlone
    <2> QED
      BY <2>1, <2>2, SlotsChange DEF ScanDistinct
  <1> QED
    BY <1>2, <1>3, <1>4, <1>5

(* Every step preserves UserDistinct.                                       *)
LEMMA UserDistinctStep ==
  ASSUME TypeInv, SlotInv, DataInv, HandlerAlone, ScanDistinct, UserDistinct,
         [Next]_vars
  PROVE  UserDistinct'
  <1> USE PacketAssumption, RingAssumption
  <1>1. TypeOK /\ LocalsOK
    BY DEF TypeInv
  <1>2. CASE CopyToUser
    <2>1. \A j \in Entries : buff_temp[j] # NoPacket => copied_index[j] # NoIndex
      BY <1>1, <1>2 DEF CopyToUser, ScanDistinct, SlotInv, InUse, TypeOK, Entries, Slots,
         NoIndex
    <2>2. ix' = 0 /\ rpc' = "clean" /\ buff_read' = buff_temp
          /\ UNCHANGED <<data, handled, faulted, copied_index>>
      BY <1>2 DEF CopyToUser
    <2>3. ScanDistinct /\ rpc = "scan"
      BY <1>2 DEF CopyToUser
    <2>4. \A j \in Entries : copied_index[j] # NoIndex => InUse(j)'
      BY <2>2 DEF InUse, Entries
    <2> QED
      BY <2>1, <2>2, <2>3, <2>4 DEF UserDistinct, ScanDistinct
  <1>3. CASE CopyToUserFault
    <2>1. \A j \in Entries : buff_read'[j] \in {buff_temp[j], NoPacket}
      BY <1>3 DEF CopyToUserFault
    <2>2. \A j \in Entries : buff_temp[j] # NoPacket => buff_temp[j] \in faulted'
      BY <1>3 DEF CopyToUserFault, PacketsIn
    <2>3. ScanDistinct /\ rpc = "scan" /\ rpc' = "process" /\ UNCHANGED <<data, handled>>
      BY <1>3 DEF CopyToUserFault
    <2>4. NoPacket \notin handled
      BY <1>1 DEF TypeOK
    <2> QED
      BY <2>1, <2>2, <2>3, <2>4 DEF UserDistinct, ScanDistinct
  <1>4. CASE Clean
    BY <1>1, <1>4, SlotsChange DEF Clean, UserDistinct, InUse, TypeOK
  <1>5. CASE Release
    <2>1. data[copied_index[ix]] = NoPacket
      BY <1>5 DEF Release, DataInv
    <2> QED
      BY <1>1, <1>5, <2>1 DEF Release, UserDistinct, InUse, TypeOK, Entries
  <1>6. CASE CleanSkip
    BY <1>1, <1>6 DEF CleanSkip, UserDistinct, InUse, TypeOK, Entries
  <1>7. CASE ReadReturn
    BY <1>1, <1>7 DEF ReadReturn, UserDistinct, InUse, TypeOK, Entries
  <1>8. CASE ReadCall \/ ReadSkip \/ ReadFound \/ ReadGrab \/ UserProcess \/ UserStop
             \/ SigintAgain
    BY <1>8 DEF ReadCall, ReadSkip, ReadFound, ReadGrab, UserProcess, UserStop,
       SigintAgain, UserDistinct
  <1>9. CASE ~(ReaderStep \/ SigintAgain)
    <2>1. UNCHANGED <<rpc, ix, copied_pkts, copied_index, buff_read, handled, faulted>>
      BY <1>9 DEF Next, RxStep, RxPass, RxArrive, RxCount, RxFree, RxOccupied, RxDrop,
         RxCopy, RxPublish, RxAdvance, Sigint, vars
    <2>2. ASSUME NEW c \in Cpus, rxpc[c] = "copy", NEW j \in Entries
          PROVE  pkt[c] # buff_read[j]
      BY <2>2 DEF HandlerAlone
    <2> QED
      BY <2>1, <2>2, SlotsChange DEF UserDistinct, InUse
  <1> QED
    BY <1>2, <1>3, <1>4, <1>5, <1>6, <1>7, <1>8, <1>9 DEF ReaderStep

(* Every step preserves UniqueInv.                                          *)
LEMMA UniqueStep ==
  ASSUME SingleCpu, TypeInv, SlotInv, DataInv, ArrivedInv, UniqueInv, [Next]_vars
  PROVE  UniqueInv'
  <1> USE PacketAssumption
  <1>1. TypeOK /\ LocalsOK
    BY DEF TypeInv
  <1>2. (HandlerAlone /\ SlotsDistinct /\ ScanDistinct /\ UserDistinct)'
    BY HandlerAloneStep, SlotsDistinctStep, ScanDistinctStep, UserDistinctStep
       DEF UniqueInv
  <1>3. CASE UserProcess
    <2>1. \A j \in Entries : buff_read[j] \in handled => buff_read[j] \in faulted
      BY <1>3 DEF UserProcess, UniqueInv, UserDistinct
    <2>2. \A j, k \in Entries :
             j # k /\ buff_read[j] = buff_read[k] => buff_read[j] = NoPacket
      BY <1>3 DEF UserProcess, UniqueInv, UserDistinct
    <2>3. repeated' \subseteq faulted
      BY <1>3, <2>1, <2>2 DEF UserProcess, UniqueInv, NoDuplicate, PacketsIn
    <2>4. \A s \in Slots : data[s] \in PacketsIn(buff_read) => data[s] \in faulted
      BY <1>3 DEF UserProcess, UniqueInv, UserDistinct, PacketsIn
    <2>5. /\ handled' = handled \cup PacketsIn(buff_read)
          /\ UNCHANGED <<data, faulted>>
      BY <1>3 DEF UserProcess
    <2> QED
      BY <1>2, <2>3, <2>4, <2>5 DEF UniqueInv, NoDuplicate
  <1>4. CASE ~UserProcess
    <2>1. UNCHANGED <<handled, repeated>> /\ faulted \subseteq faulted'
      BY <1>4 DEF Next, RxStep, RxPass, RxArrive, RxCount, RxFree, RxOccupied, RxDrop,
         RxCopy, RxPublish, RxAdvance, ReaderStep, ReadCall, ReadSkip, ReadFound,
         ReadGrab, CopyToUser, CopyToUserFault, Clean, Release, CleanSkip, ReadReturn,
         UserStop, Sigint, SigintAgain, vars
    <2>2. ASSUME NEW c \in Cpus, rxpc[c] = "copy"
          PROVE  pkt[c] \notin handled
      BY <2>2 DEF UniqueInv, HandlerAlone
    <2>3. NoPacket \notin handled
      BY <1>1 DEF TypeOK
    <2> QED
      BY <1>2, <2>1, <2>2, <2>3, SlotsChange DEF UniqueInv, NoDuplicate
  <1> QED
    BY <1>3, <1>4

(* The initial state satisfies ArrivedInv and UniqueInv: nothing is anywhere. *)
LEMMA InitUnique == Init => ArrivedInv /\ UniqueInv
  <1> SUFFICES ASSUME Init PROVE ArrivedInv /\ UniqueInv
    OBVIOUS
  <1>1. ArrivedInv
    BY PacketAssumption DEF Init, ArrivedInv, EmptyBuff
  <1>2. HandlerAlone /\ SlotsDistinct /\ ScanDistinct /\ UserDistinct
    BY DEF Init, HandlerAlone, SlotsDistinct, ScanDistinct, UserDistinct
  <1>3. NoDuplicate /\ \A s \in Slots : data[s] \notin handled
    BY DEF Init, NoDuplicate
  <1> QED
    BY <1>1, <1>2, <1>3 DEF UniqueInv

(* A packet the user program has seen more than once was in a buffer that   *)
(* copy_to_user failed to deliver: with one receiving CPU nothing else      *)
(* makes read() return a packet again, for every size of the cache, of the  *)
(* batch and of the payload.                                                *)
THEOREM SeenOnce ==
  ASSUME SingleCpu
  PROVE  Spec => []NoDuplicate
  <1>1. Init => DataInv /\ ArrivedInv /\ UniqueInv
    BY InitUnique, InitData
  <1>2. TypeInv /\ SlotInv /\ DataInv /\ ArrivedInv /\ UniqueInv /\ [Next]_vars
          => DataInv' /\ ArrivedInv' /\ UniqueInv'
    BY DataStep, ArrivedStep, UniqueStep
  <1>3. UniqueInv => NoDuplicate
    BY DEF UniqueInv
  <1> QED
    BY <1>1, <1>2, <1>3, TypeInvariant, SlotInvariant, PTL DEF Spec

(* A drained cache with everybody at rest has logged every data packet that *)
(* was neither discarded nor overwritten: what is missing from the user     *)
(* program's log was really lost.                                           *)
THEOREM DrainedLog ==
  ASSUME SingleCpu
  PROVE  Spec => []DrainedLogComplete
  <1>1. Init => HandledInv
    BY DEF Init, HandledInv
  <1>2. TypeInv /\ UidInv /\ HandledInv /\ [Next]_vars => HandledInv'
    BY HandledStep
  <1>3. TypeInv /\ DataInv /\ Conservation /\ HandledInv => DrainedLogComplete
    <2> SUFFICES ASSUME TypeInv, DataInv, Conservation, HandledInv, Drained,
                        NEW p \in (Arrived \cap DataPackets) \ (dropped \cup overwritten),
                        InLog(Uid[p])
                 PROVE  ulog[Cell(Uid[p])]
      BY DEF DrainedLogComplete
    <2>1. InHandler = {} /\ InSlots = {}
      BY DEF Drained, InHandler, InSlots
    <2>2. PacketsIn(buff_read) \subseteq handled
      BY DEF Drained, DataInv
    <2> QED
      BY <2>1, <2>2 DEF Conservation, HandledInv
  <1> QED
    BY <1>1, <1>2, <1>3, TypeInvariant, UidInvariant, PacketsConserved, PTL DEF Spec

-----------------------------------------------------------------------------
(* The parts together are the inductive invariant that the model checker    *)
(* evaluates on the small instance: it holds of every cache with one        *)
(* receiving CPU whose handler looks at every slot.                         *)
THEOREM CacheInvariant ==
  ASSUME SingleCpu, SearchCoversCache
  PROVE  Spec => []IInv
  <1>1. Init => IInv
    <2>1. Init => DropInv /\ SlotInv
      BY DEF Init, DropInv, DropOnlyIfFull, SlotInv, InUse
    <2>2. Init => HandledInv
      BY DEF Init, HandledInv
    <2> QED
      BY <2>1, <2>2, InitType, InitData, InitUid, InitCount, InitUnique DEF IInv
  <1>2. IInv /\ [Next]_vars => IInv'
    <2>1. TypeInv /\ [Next]_vars => TypeInv'
      BY TypeStep
    <2> QED
      BY <2>1, LogStep, DropStep, SlotStep, DataStep, ConservationStep, UidStep,
         ArrivedStep, CountStep, UniqueStep, HandledStep DEF IInv
  <1> QED
    BY <1>1, <1>2, PTL DEF Spec

=============================================================================
