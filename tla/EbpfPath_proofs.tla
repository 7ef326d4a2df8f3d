--------------------------- MODULE EbpfPath_proofs ---------------------------
(***************************************************************************)
(* Theorems about the eBPF application, for every number of uids, packets   *)
(* and CPUs.                                                                *)
(***************************************************************************)
EXTENDS EbpfInvariants, LogBuffs_proofs, TLAPS

USE DEF maps, xdp, fetch, files

(* The initial state satisfies the whole invariant.                         *)
LEMMA InitFetch == Init => FetchInv
  <1> SUFFICES ASSUME Init PROVE FetchInv
    OBVIOUS
  <1>1. EmptyLog \in [Cells -> BOOLEAN] /\ \A c \in Cells : ~EmptyLog[c]
    BY Zenon DEF EmptyLog
  <1>2. TypeOK
    <2>1. parts \in [Cpus -> SUBSET Parts] /\ unread \subseteq Parts
      BY DEF Init
    <2>2. /\ pl_uid \in [Keys -> Keys]
          /\ \A k \in Keys : pl_uid[k] \in {0, k}
          /\ next_uid \in 0 .. MAX_LOG_ENTRY + 1
          /\ map_uid \in Keys
      BY LogAssumption DEF Init, Keys
    <2>3. /\ uid_timestamps \in [Keys -> BOOLEAN]
          /\ pl_valid \in [Keys -> BOOLEAN]
          /\ map_valid \in BOOLEAN
          /\ global_exit \in BOOLEAN
          /\ attached \in BOOLEAN
          /\ ulog \in [Cells -> BOOLEAN]
      BY <1>1 DEF Init
    <2>4. file_kern \in Seq(BOOLEAN) /\ Len(file_kern) <= MAX_LOG_ENTRY
      BY LogAssumption DEF Init, NoFile
    <2> QED
      BY <2>1, <2>2, <2>3, <2>4 DEF Init, TypeOK
  <1>3. MapInv
    BY LogAssumption DEF Init, MapInv, Keys
  <1>4. PrefixInv
    <2>1. \A k \in Keys : InLog(k) => ~ulog[Cell(k)]
      BY <1>1, CellInLog DEF Init, Keys
    <2> QED
      BY <1>1, <2>1 DEF Init, PrefixInv, Keys, ExportNested
  <1> QED
    BY <1>2, <1>3, <1>4 DEF FetchInv

(* Only the XDP program writes uid_timestamps, and it clears no entry.      *)
LEMMA StampsGrow ==
  ASSUME TypeOK, [Next]_vars
  PROVE  \A k \in Keys : uid_timestamps[k] => uid_timestamps'[k]
  <1>1. (uid_timestamps' = uid_timestamps)
          \/ \E c \in Cpus, p \in Packets : XdpStamp(c, p)
    BY DEF Next, vars, XdpPass, XdpStep, XdpUpdate, XdpDone, UserStep,
       FetchCall, FetchCopy, FetchProcess, ExportUser, ExportKern, Detach,
       Sigint
  <1> QED
    BY <1>1 DEF TypeOK, XdpStamp

(* The lines the user program writes are those of its log.                  *)
LEMMA UserLines ==
  ASSUME TypeOK, ExportUser
  PROVE  /\ file_us' \in [1 .. MAX_LOG_ENTRY -> BOOLEAN]
         /\ \A i \in 1 .. MAX_LOG_ENTRY :
              /\ i - 1 \in Keys /\ InLog(i - 1)
              /\ file_us'[i] => ulog[Cell(i - 1)]
  <1>1. ASSUME NEW i \in 1 .. MAX_LOG_ENTRY
        PROVE  /\ i - 1 \in Keys /\ InLog(i - 1)
               /\ ulog[Cell(i - 1)] \in BOOLEAN
    <2>1. i - 1 \in Nat /\ i - 1 \in Keys /\ InLog(i - 1)
      BY LogAssumption DEF Keys, InLog
    <2> QED
      BY <2>1, CellInLog DEF TypeOK
  <1>2. file_us' = [i \in 1 .. MAX_LOG_ENTRY |-> ulog[Cell(i - 1)]]
    BY DEF ExportUser
  <1> QED
    BY <1>1, <1>2, Zenon

(* A step keeps the types.                                                  *)
LEMMA TypeStep ==
  ASSUME TypeOK, MapInv, [Next]_vars
  PROVE  TypeOK'
  <1> USE LogAssumption, PacketAssumption
  <1>1. ASSUME NEW c \in Cpus, NEW p \in Packets, XdpPass(c, p)
        PROVE  TypeOK'
    BY <1>1 DEF TypeOK, XdpPass
  <1>2. ASSUME NEW c \in Cpus, NEW p \in Packets, XdpStamp(c, p)
        PROVE  TypeOK'
    BY <1>2 DEF TypeOK, XdpStamp
  <1>3. ASSUME NEW c \in Cpus, NEW part \in Parts, XdpUpdate(c, part)
        PROVE  TypeOK'
    <2>1. pkt[c] \in Packets /\ Uid[pkt[c]] \in Nat
      BY <1>3 DEF MapInv, XdpUpdate
    <2>2. parts' \in [Cpus -> SUBSET Parts]
      BY <1>3 DEF TypeOK, XdpUpdate
    <2>3. pl_uid' \in [Keys -> Keys] /\ \A k \in Keys : pl_uid'[k] \in {0, k}
      <3>1. pl_uid \in [Keys -> Keys] /\ \A k \in Keys : pl_uid[k] \in {0, k}
        BY DEF TypeOK
      <3> QED
        BY <1>3, <2>1, <3>1 DEF XdpUpdate
    <2>4. pl_valid' \in [Keys -> BOOLEAN]
      <3>1. CASE part = "uid"
        BY <1>3, <3>1 DEF TypeOK, XdpUpdate
      <3>2. CASE part # "uid"
        <4> DEFINE F(k) == IF k = Uid[pkt[c]] THEN pkt[c] \in DataPackets
                           ELSE pl_valid[k]
        <4>1. pl_valid' = [k \in Keys |-> F(k)]
          BY <1>3, <3>2, Zenon DEF XdpUpdate
        <4>2. ASSUME NEW k \in Keys PROVE F(k) \in BOOLEAN
          <5>1. (pkt[c] \in DataPackets) \in BOOLEAN
            OBVIOUS
          <5>2. pl_valid[k] \in BOOLEAN
            BY DEF TypeOK
          <5> QED
            BY <5>1, <5>2
        <4> HIDE DEF F
        <4> QED
          BY <4>1, <4>2, Zenon
      <3> QED
        BY <3>1, <3>2
    <2> QED
      BY <1>3, <2>2, <2>3, <2>4 DEF TypeOK, XdpUpdate
  <1>4. ASSUME NEW c \in Cpus, XdpDone(c)
        PROVE  TypeOK'
    BY <1>4 DEF TypeOK, MapInv, XdpDone
  <1>5. CASE FetchCall
    BY <1>5 DEF TypeOK, FetchCall
  <1>6. ASSUME NEW part \in Parts, FetchCopy(part)
        PROVE  TypeOK'
    BY <1>6 DEF TypeOK, MapInv, FetchCopy
  <1>7. CASE FetchProcess
    <2>1. ulog' \in [Cells -> BOOLEAN]
      BY <1>7, StampType DEF TypeOK, FetchProcess
    <2>2. next_uid' \in 0 .. MAX_LOG_ENTRY + 1
      BY <1>7 DEF TypeOK, MapInv, FetchProcess, NextUid, Keys
    <2>3. map_uid' = 0 /\ map_valid' = FALSE
      BY <1>7, Zenon DEF FetchProcess
    <2>4. 0 \in Keys
      BY DEF Keys
    <2> QED
      BY <1>7, <2>1, <2>2, <2>3, <2>4 DEF TypeOK, FetchProcess
  <1>8. CASE Sigint
    BY <1>8 DEF TypeOK, Sigint
  <1>9. CASE ExportUser
    <2>1. file_us' \in [1 .. MAX_LOG_ENTRY -> BOOLEAN]
      BY <1>9, UserLines
    <2> QED
      BY <1>9, <2>1 DEF TypeOK, ExportUser
  <1>10. CASE ExportKern
    <2>1. Len(file_kern) \in Nat
      BY DEF TypeOK
    <2>2. NextLine \in BOOLEAN
      BY <1>10, <2>1 DEF TypeOK, ExportKern, NextLine, Keys
    <2>3. file_kern' \in Seq(BOOLEAN) /\ Len(file_kern') <= MAX_LOG_ENTRY
      BY <1>10, <2>1, <2>2 DEF TypeOK, ExportKern
    <2> QED
      BY <1>10, <2>3 DEF TypeOK, ExportKern
  <1>11. CASE Detach
    BY <1>11 DEF TypeOK, Detach
  <1>12. CASE UNCHANGED vars
    BY <1>12 DEF TypeOK, vars
  <1> QED
    BY <1>1, <1>2, <1>3, <1>4, <1>5, <1>6, <1>7, <1>8, <1>9, <1>10, <1>11,
       <1>12 DEF Next, XdpStep, UserStep

(* A step keeps the order of timestamp and payload.                         *)
LEMMA MapStep ==
  ASSUME TypeOK, MapInv, [Next]_vars
  PROVE  MapInv'
  <1> USE LogAssumption, PacketAssumption
  <1>1. ASSUME NEW c \in Cpus, NEW p \in Packets, XdpPass(c, p)
        PROVE  MapInv'
    BY <1>1 DEF TypeOK, MapInv, XdpPass
  <1>2. ASSUME NEW c \in Cpus, NEW p \in Packets, XdpStamp(c, p)
        PROVE  MapInv'
    BY <1>2 DEF TypeOK, MapInv, XdpStamp, Keys
  <1>3. ASSUME NEW c \in Cpus, NEW part \in Parts, XdpUpdate(c, part)
        PROVE  MapInv'
    <2>1. \A k \in Keys : pl_valid'[k] => uid_timestamps'[k]
      <3>1. /\ \A k \in Keys : pl_valid[k] => uid_timestamps[k]
            /\ Uid[pkt[c]] \in Keys => uid_timestamps[Uid[pkt[c]]]
        BY <1>3 DEF MapInv, XdpUpdate
      <3> QED
        BY <1>3, <3>1 DEF XdpUpdate
    <2> QED
      BY <1>3, <2>1 DEF TypeOK, MapInv, XdpUpdate
  <1>4. ASSUME NEW c \in Cpus, XdpDone(c)
        PROVE  MapInv'
    BY <1>4 DEF TypeOK, MapInv, XdpDone
  <1>5. CASE FetchCall
    BY <1>5 DEF TypeOK, MapInv, FetchCall
  <1>6. ASSUME NEW part \in Parts, FetchCopy(part)
        PROVE  MapInv'
    BY <1>6 DEF TypeOK, MapInv, FetchCopy
  <1>7. CASE FetchProcess
    BY <1>7 DEF TypeOK, MapInv, FetchProcess, NextUid
  <1>8. CASE Sigint
    BY <1>8 DEF TypeOK, MapInv, Sigint
  <1>9. CASE ExportUser
    BY <1>9, UserLines DEF TypeOK, MapInv, ExportUser
  <1>10. CASE ExportKern
    BY <1>10 DEF TypeOK, MapInv, ExportKern
  <1>11. CASE Detach
    BY <1>11 DEF TypeOK, MapInv, Detach
  <1>12. CASE UNCHANGED vars
    BY <1>12 DEF MapInv, vars
  <1> QED
    BY <1>1, <1>2, <1>3, <1>4, <1>5, <1>6, <1>7, <1>8, <1>9, <1>10, <1>11,
       <1>12 DEF Next, XdpStep, UserStep

(* What the user program logs has been stamped, is the uid it asked for or  *)
(* uid 0, and lies below next_uid afterwards.                               *)
LEMMA ProcessStep ==
  ASSUME FetchInv, FetchProcess
  PROVE  PrefixInv'
  <1> USE LogAssumption
  <1> DEFINE logged == map_valid /\ InLog(map_uid)
  <1>1. TypeOK /\ MapInv /\ PrefixInv
    BY DEF FetchInv
  <1>2. UNCHANGED <<uid_timestamps, file_us, file_kern>>
    BY DEF FetchProcess
  <1>3. CASE ~logged
    <2>1. next_uid' = next_uid /\ ulog' = ulog
      BY <1>3 DEF FetchProcess, NextUid
    <2> QED
      BY <1>1, <1>2, <2>1 DEF PrefixInv, ExportNested
  <1>4. CASE logged
    <2>1. /\ next_uid' = next_uid + 1
          /\ ulog' = Stamp(ulog, {map_uid})
      BY <1>4 DEF FetchProcess, NextUid
    <2>2. next_uid \in Keys /\ map_uid \in Keys /\ map_uid \in {0, next_uid}
      BY <1>1, <1>4 DEF TypeOK, MapInv, FetchProcess
    <2>3. uid_timestamps[next_uid]
      BY <1>1, <1>4 DEF MapInv
    <2>4. \A j \in Keys : j < next_uid' => uid_timestamps'[j]
      BY <1>1, <1>2, <2>1, <2>2, <2>3 DEF PrefixInv, Keys
    <2>5. ASSUME NEW k \in Keys, InLog(k), ulog'[Cell(k)]
          PROVE  k < next_uid'
      <3>1. Cell(k) \in Cells
        BY <2>5, CellInLog DEF Keys
      <3>2. ulog[Cell(k)] \/ Cell(map_uid) = Cell(k)
        BY <1>1, <2>1, <2>5, <3>1, StampOnly DEF TypeOK
      <3>3. CASE ulog[Cell(k)]
        BY <1>1, <2>1, <2>2, <2>5, <3>3 DEF PrefixInv, Keys
      <3>4. CASE Cell(map_uid) = Cell(k)
        BY <2>1, <2>2, <3>4, CellInjective DEF Keys
      <3> QED
        BY <3>2, <3>3, <3>4
    <2> QED
      BY <1>1, <1>2, <2>4, <2>5 DEF PrefixInv, ExportNested
  <1> QED
    BY <1>3, <1>4

(* The lines of the first file are those of stamped uids.                   *)
LEMMA ExportUserStep ==
  ASSUME FetchInv, ExportUser
  PROVE  PrefixInv'
  <1>1. TypeOK /\ MapInv /\ PrefixInv
    BY DEF FetchInv
  <1>2. UNCHANGED <<uid_timestamps, next_uid, ulog, file_kern>>
    BY DEF ExportUser
  <1>3. Len(file_kern) = 0
    BY <1>1 DEF MapInv, ExportUser, NoFile
  <1>4. ASSUME NEW i \in 1 .. MAX_LOG_ENTRY, file_us'[i]
        PROVE  uid_timestamps'[i - 1]
    BY <1>1, <1>2, <1>4, UserLines DEF PrefixInv
  <1> QED
    BY <1>1, <1>2, <1>3, <1>4 DEF PrefixInv, ExportNested

(* A line of the second file is read after the first file was written.      *)
LEMMA ExportKernStep ==
  ASSUME FetchInv, ExportKern
  PROVE  PrefixInv'
  <1> USE LogAssumption
  <1> DEFINE n == Len(file_kern)
  <1>1. TypeOK /\ MapInv /\ PrefixInv
    BY DEF FetchInv
  <1>2. UNCHANGED <<uid_timestamps, next_uid, ulog, file_us>>
    BY DEF ExportKern
  <1>3. n \in Nat /\ n < MAX_LOG_ENTRY /\ file_us # NoFile
    <2>1. n \in Nat /\ n < MAX_LOG_ENTRY
      BY <1>1 DEF TypeOK, ExportKern
    <2>2. DOMAIN file_us = 1 .. MAX_LOG_ENTRY
      BY <1>1 DEF MapInv, ExportKern
    <2>3. DOMAIN NoFile = 1 .. 0
      BY DEF NoFile
    <2> QED
      BY <2>1, <2>2, <2>3
  <1>4. /\ Len(file_kern') = n + 1
        /\ file_kern'[n + 1] = uid_timestamps[n]
        /\ \A i \in 1 .. n : file_kern'[i] = file_kern[i]
    BY <1>1 DEF TypeOK, ExportKern, NextLine
  <1>5. ASSUME NEW i \in 1 .. n + 1, file_us[i]
        PROVE  file_kern'[i]
    <2>1. CASE i = n + 1
      BY <1>1, <1>3, <1>4, <1>5, <2>1 DEF PrefixInv
    <2>2. CASE i # n + 1
      BY <1>1, <1>3, <1>4, <1>5, <2>2 DEF PrefixInv, ExportNested
    <2> QED
      BY <2>1, <2>2
  <1> QED
    BY <1>1, <1>2, <1>4, <1>5 DEF PrefixInv, ExportNested

(* A step keeps the prefix of stamped uids.                                 *)
LEMMA PrefixStep ==
  ASSUME FetchInv, [Next]_vars
  PROVE  PrefixInv'
  <1>1. TypeOK /\ PrefixInv
    BY DEF FetchInv
  <1>2. \A k \in Keys : uid_timestamps[k] => uid_timestamps'[k]
    BY <1>1, StampsGrow
  <1>3. CASE UNCHANGED <<next_uid, ulog, file_us, file_kern>>
    <2>1. \A i \in 1 .. MAX_LOG_ENTRY : i - 1 \in Keys
      BY LogAssumption DEF Keys
    <2> QED
      BY <1>1, <1>2, <1>3, <2>1 DEF PrefixInv, ExportNested
  <1>4. CASE FetchProcess
    BY <1>4, ProcessStep
  <1>5. CASE ExportUser
    BY <1>5, ExportUserStep
  <1>6. CASE ExportKern
    BY <1>6, ExportKernStep
  <1> QED
    BY <1>3, <1>4, <1>5, <1>6 DEF Next, vars, XdpPass, XdpStamp, XdpStep,
       XdpUpdate, XdpDone, UserStep, FetchCall, FetchCopy, Detach, Sigint

(* The inductive invariant holds in every reachable state.                  *)
THEOREM FetchInvariant == Spec => []FetchInv
  <1>1. FetchInv /\ [Next]_vars => FetchInv'
    BY TypeStep, MapStep, PrefixStep DEF FetchInv
  <1> QED
    BY InitFetch, <1>1, PTL DEF Spec

(* Every variable keeps its type: an element of pkt_payload carries no uid  *)
(* but its own, and next_uid never runs more than one past the maps.        *)
THEOREM EbpfTypeCorrect == Spec => []TypeOK
  <1>1. FetchInv => TypeOK
    BY DEF FetchInv
  <1> QED
    BY FetchInvariant, <1>1, PTL

(* A uid is in the user program's log only if it and every smaller uid has  *)
(* reached the XDP program, even though payloads are copied without a lock  *)
(* on any number of CPUs.                                                   *)
THEOREM LogIsStampedPrefix == Spec => []LoggedPrefixArrived
  <1>1. FetchInv => LoggedPrefixArrived
    <2> SUFFICES ASSUME FetchInv, NEW k \in Keys, InLog(k), ulog[Cell(k)],
                        NEW j \in 0 .. k
                 PROVE  uid_timestamps[j]
      BY DEF LoggedPrefixArrived
    <2>1. k < next_uid /\ next_uid \in Nat
      BY DEF FetchInv, PrefixInv, TypeOK
    <2> QED
      BY <2>1, LogAssumption DEF FetchInv, PrefixInv, Keys
  <1> QED
    BY FetchInvariant, <1>1, PTL

(* The user program's exported log is contained in the exported log of the  *)
(* XDP program.                                                             *)
THEOREM ExportedLogsNested == Spec => []ExportNested
  <1>1. FetchInv => ExportNested
    BY DEF FetchInv, PrefixInv
  <1> QED
    BY FetchInvariant, <1>1, PTL

=============================================================================
