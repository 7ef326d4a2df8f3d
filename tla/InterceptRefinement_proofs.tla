--------------------- MODULE InterceptRefinement_proofs ---------------------
(***************************************************************************)
(* The packet cache implements the bounded buffer of PacketBuffer: proofs.  *)
(***************************************************************************)
EXTENDS InterceptRefinement, InterceptBuffer_proofs

USE DEF globals, handlers, readLocals, user, rxHistory, userHistory, reader

(* When a payload fits its slot an occupied slot always holds a packet,     *)
(* unless read() has just wiped it, and buff_temp holds what the slots hold *)
(* that read() is going to release.                                         *)
FitInv ==
  /\ \A s \in Slots :
       status[s] = 1 => \/ data[s] # NoPacket
                        \/ rpc = "release" /\ s = copied_index[ix]
  /\ rpc \in {"scan", "grab"} =>
       \A j \in Entries :
         j < copied_pkts =>
           buff_temp[j] = data[copied_index[j]] /\ buff_temp[j] # NoPacket
  /\ rpc \in {"clean", "release"} =>
       /\ buff_read = buff_temp
       /\ \A j \in Entries :
            IF copied_index[j] = NoIndex
              THEN buff_temp[j] = NoPacket
              ELSE /\ buff_temp[j] # NoPacket
                   /\ InUse(j) =>
                        \/ data[copied_index[j]] = buff_temp[j]
                        \/ rpc = "release" /\ j = ix

(* Every step preserves FitInv.                                             *)
LEMMA FitStep ==
  ASSUME SingleCpu, Span = 1, TypeInv, SlotInv, DataInv, ScanDistinct, FitInv,
         [Next]_vars
  PROVE  FitInv'
  <1> USE PacketAssumption, RingAssumption
  <1>1. TypeOK /\ LocalsOK
    BY DEF TypeInv
  <1>2. ASSUME NEW c \in Cpus, RxCopy(c) PROVE FitInv'
    <2>1. chunk[c] = 0 /\ write_index[c] \in Slots /\ status[write_index[c]] = 0
      BY <1>1, <1>2 DEF RxCopy, LocalsOK, SlotInv, TypeOK
    <2>2. \A s \in Slots : status[s] = 1 => data'[s] = data[s]
      BY <1>1, <1>2, <2>1 DEF RxCopy, TypeOK, Slots
    <2>3. UNCHANGED <<status, rpc, ix, copied_pkts, copied_index, buff_temp, buff_read>>
      BY <1>2 DEF RxCopy
    <2>4. \A j \in Entries : InUse(j) =>
             copied_index[j] \in Slots /\ status[copied_index[j]] = 1
      BY DEF SlotInv
    <2> QED
      BY <2>2, <2>3, <2>4 DEF FitInv, InUse
  <1>3. ASSUME NEW c \in Cpus, RxPublish(c) PROVE FitInv'
    <2>1. data[write_index[c]] = pkt[c] /\ pkt[c] # NoPacket
      BY <1>1, <1>3 DEF RxPublish, DataInv, LocalsOK
    <2> QED
      BY <1>1, <1>3, <2>1 DEF RxPublish, FitInv, InUse, TypeOK
  <1>4. CASE ReadCall
    BY <1>4 DEF ReadCall, FitInv, Entries
  <1>5. CASE ReadSkip \/ ReadFound
    BY <1>5 DEF ReadSkip, ReadFound, FitInv
  <1>6. CASE ReadGrab
    <2>1. data[ci] # NoPacket
      BY <1>1, <1>6 DEF ReadGrab, SlotInv, FitInv, TypeOK
    <2>2. \A j \in Entries : j < copied_pkts' => j < copied_pkts \/ j = copied_pkts
      BY <1>1, <1>6 DEF ReadGrab, TypeOK, Entries
    <2>3. \A j \in Entries :
             /\ j = copied_pkts => buff_temp'[j] = data[ci] /\ copied_index'[j] = ci
             /\ j # copied_pkts =>
                  buff_temp'[j] = buff_temp[j] /\ copied_index'[j] = copied_index[j]
      BY <1>1, <1>6 DEF ReadGrab, TypeOK
    <2> QED
      BY <1>6, <2>1, <2>2, <2>3 DEF ReadGrab, FitInv
  <1>7. CASE CopyToUser
    <2>1. \A j \in Entries : j < copied_pkts => copied_index[j] # NoIndex
      BY <1>1, <1>7 DEF CopyToUser, SlotInv, InUse, Slots, NoIndex
    <2>2. \A j \in Entries : ~(j < copied_pkts) =>
             copied_index[j] = NoIndex /\ buff_temp[j] = NoPacket
      BY <1>1, <1>7 DEF CopyToUser, SlotInv, ScanDistinct, TypeOK, Entries
    <2> QED
      BY <1>7, <2>1, <2>2 DEF CopyToUser, FitInv
  <1>8. CASE CopyToUserFault
    BY <1>8 DEF CopyToUserFault, FitInv
  <1>9. CASE Clean
    <2>1. ix \in Entries /\ copied_index[ix] \in Slots /\ InUse(ix)
      BY <1>1, <1>9 DEF Clean, TypeOK, Entries, InUse
    <2>2. \A j \in Entries : InUse(j) /\ j # ix =>
             copied_index[j] \in Slots /\ copied_index[j] # copied_index[ix]
      BY <2>1 DEF SlotInv
    <2>3. \A s \in Slots : s # copied_index[ix] => data'[s] = data[s]
      BY <1>1, <1>9 DEF Clean, TypeOK
    <2> QED
      BY <1>1, <1>9, <2>1, <2>2, <2>3 DEF Clean, FitInv, InUse
  <1>10. CASE Release
    <2>1. \A s \in Slots : s # copied_index[ix] => status'[s] = status[s]
      BY <1>1, <1>10 DEF Release, TypeOK
    <2>2. ix \in Entries /\ copied_index[ix] \in Slots
      BY <1>1, <1>10 DEF Release, LocalsOK, TypeOK, Entries
    <2>3. status'[copied_index[ix]] = 0
      BY <1>1, <1>10, <2>2 DEF Release, TypeOK
    <2>4. \A j \in Entries : InUse(j)' => InUse(j) /\ j # ix
      BY <1>1, <1>10 DEF Release, InUse, TypeOK, Entries
    <2> QED
      BY <1>10, <2>1, <2>3, <2>4 DEF Release, FitInv
  <1>11. CASE CleanSkip
    <2>1. \A j \in Entries : InUse(j)' => InUse(j)
      BY <1>1, <1>11 DEF CleanSkip, InUse, TypeOK, Entries
    <2> QED
      BY <1>11, <2>1 DEF CleanSkip, FitInv
  <1>12. CASE ReadReturn \/ UserProcess \/ UserStop \/ SigintAgain
    BY <1>12 DEF ReadReturn, UserProcess, UserStop, SigintAgain, FitInv
  <1>13. CASE \/ \E c \in Cpus, p \in Packets : RxPass(c, p) \/ RxArrive(c, p)
              \/ \E c \in Cpus : RxCount(c) \/ RxFree(c) \/ RxOccupied(c) \/ RxDrop(c)
                                   \/ RxAdvance(c)
              \/ Sigint \/ UNCHANGED vars
    <2>1. UNCHANGED <<status, data, rpc, ix, copied_pkts, copied_index, buff_temp,
                      buff_read>>
      BY <1>13 DEF RxPass, RxArrive, RxCount, RxFree, RxOccupied, RxDrop, RxAdvance,
         RxReturn, Sigint, vars
    <2> QED
      BY <2>1 DEF FitInv, InUse
  <1> QED
    BY <1>2, <1>3, <1>4, <1>5, <1>6, <1>7, <1>8, <1>9, <1>10, <1>11, <1>12, <1>13
       DEF Next, RxStep, ReaderStep

(* A function that is injective on a finite set keeps its cardinality.      *)
LEMMA InjectiveImage ==
  ASSUME NEW S, IsFiniteSet(S), NEW f,
         \A x, y \in S : f[x] = f[y] => x = y
  PROVE  /\ IsFiniteSet({f[x] : x \in S})
         /\ Cardinality({f[x] : x \in S}) = Cardinality(S)
  <1> DEFINE T == {f[x] : x \in S}
             g == [x \in S |-> f[x]]
  <1>1. g \in Bijection(S, T)
    BY DEF Bijection, Injection, Surjection, IsInjective
  <1>2. ExistsBijection(S, T)
    BY <1>1 DEF ExistsBijection
  <1> QED
    BY <1>2, FS_Bijection

(* The cardinality of the bounded buffer's module is that of FiniteSets.    *)
LEMMA BufferCardinality ==
  ASSUME NEW S PROVE Buffer!Cardinality(S) = Cardinality(S)
  BY DEF Buffer!Cardinality, Cardinality

(* The slots that hold a packet, or whose packet read() has just wiped.     *)
OccupiedSlots == {s \in Slots : status[s] = 1}

(* The entries of Leaving are those in use while read() cleans up; a        *)
(* pending slot holds a packet.                                             *)
LEMMA MappedSets ==
  ASSUME TypeInv, SlotInv, FitInv
  PROVE  /\ Leaving \subseteq Entries
         /\ \A j \in Leaving : /\ rpc \in {"clean", "release"} /\ InUse(j)
                               /\ copied_index[j] \in OccupiedSlots
                               /\ buff_temp[j] # NoPacket
                               /\ buff_read[j] = buff_temp[j]
         /\ \A s \in PendingSlots : s \in OccupiedSlots /\ data[s] # NoPacket
  <1>1. TypeOK /\ LocalsOK
    BY DEF TypeInv
  <1>2. \A j \in Leaving : j \in Entries /\ rpc \in {"clean", "release"} /\ InUse(j)
    BY <1>1 DEF Leaving, InUse, TypeOK, Entries
  <1>3. \A j \in Leaving : copied_index[j] \in OccupiedSlots /\ copied_index[j] # NoIndex
    BY <1>2 DEF SlotInv, OccupiedSlots, Leaving
  <1>4. \A j \in Leaving : buff_temp[j] # NoPacket /\ buff_read[j] = buff_temp[j]
    BY <1>2, <1>3 DEF FitInv
  <1>5. rpc = "release" => ix \in Leaving
    BY <1>1, RingAssumption DEF LocalsOK, Leaving, TypeOK, Entries
  <1>6. \A s \in PendingSlots : s \in OccupiedSlots /\ data[s] # NoPacket
    BY <1>5 DEF PendingSlots, OccupiedSlots, FitInv
  <1> QED
    BY <1>2, <1>3, <1>4, <1>6

(* The buffer is as full as the cache: every occupied slot is that of one   *)
(* packet, pending or leaving.                                              *)
LEMMA OccupiedCount ==
  ASSUME IInv, FitInv
  PROVE  /\ Buffer!Occupied = Cardinality(OccupiedSlots)
         /\ IsFiniteSet(Slots) /\ Cardinality(Slots) = MAX_PKT
  <1> USE RingAssumption, PacketAssumption
  <1>1. TypeInv /\ TypeOK /\ SlotInv /\ SlotsDistinct /\ UserDistinct
    BY DEF IInv, TypeInv, UniqueInv
  <1> DEFINE LeavingSlots == {copied_index[j] : j \in Leaving}
  <1>2. IsFiniteSet(Slots) /\ Cardinality(Slots) = MAX_PKT
    BY FS_Interval DEF Slots
  <1>3. IsFiniteSet(Entries)
    BY FS_Interval DEF Entries
  <1>4. IsFiniteSet(PendingSlots) /\ IsFiniteSet(Leaving)
    BY <1>1, <1>2, <1>3, FS_Subset, MappedSets DEF PendingSlots
  <1>5. Cardinality({data[s] : s \in PendingSlots}) = Cardinality(PendingSlots)
    <2>1. \A s, t \in PendingSlots : data[s] = data[t] => s = t
      BY <1>1, MappedSets DEF SlotsDistinct, OccupiedSlots
    <2> QED
      BY <1>4, <2>1, InjectiveImage
  <1>6. Cardinality({buff_temp[j] : j \in Leaving}) = Cardinality(Leaving)
    <2>1. \A j, k \in Leaving : buff_temp[j] = buff_temp[k] => j = k
      BY <1>1, MappedSets DEF UserDistinct
    <2> QED
      BY <1>4, <2>1, InjectiveImage
  <1>7. Cardinality(LeavingSlots) = Cardinality(Leaving) /\ IsFiniteSet(LeavingSlots)
    <2>1. \A j, k \in Leaving : copied_index[j] = copied_index[k] => j = k
      BY <1>1, MappedSets DEF SlotInv
    <2> QED
      BY <1>4, <2>1, InjectiveImage
  <1>8. /\ OccupiedSlots = PendingSlots \cup LeavingSlots
        /\ PendingSlots \cap LeavingSlots = {}
    BY <1>1, MappedSets DEF OccupiedSlots, PendingSlots
  <1>9. Cardinality(OccupiedSlots) = Cardinality(PendingSlots) + Cardinality(LeavingSlots)
    <2>1. Cardinality(PendingSlots \cap LeavingSlots) = 0
      BY <1>8, FS_EmptySet
    <2>2. Cardinality(PendingSlots) \in Nat /\ Cardinality(LeavingSlots) \in Nat
      BY <1>4, <1>7, FS_CardinalityType
    <2>3. Cardinality(PendingSlots \cup LeavingSlots)
            = Cardinality(PendingSlots) + Cardinality(LeavingSlots)
                - Cardinality(PendingSlots \cap LeavingSlots)
      BY <1>4, <1>7, FS_Union
    <2> QED
      BY <1>8, <2>1, <2>2, <2>3
  <1> QED
    BY <1>2, <1>5, <1>6, <1>7, <1>9, BufferCardinality DEF Buffer!Occupied

-----------------------------------------------------------------------------
(* The steps of the handler                                                 *)

(* With one receiving CPU the packet of a busy handler is the only one.     *)
LEMMA TheHandler ==
  ASSUME SingleCpu, NEW c \in Cpus
  PROVE  InHandler = IF rxpc[c] \in {"idle", "advance"} THEN {} ELSE {pkt[c]}
  BY DEF SingleCpu, InHandler

(* A step that leaves the slots, the read() and the user program alone      *)
(* changes neither pending nor leaving nor delivered.                       *)
LEMMA ReaderFrame ==
  ASSUME UNCHANGED <<status, data, reader>>
  PROVE  /\ {data[s] : s \in PendingSlots}' = {data[s] : s \in PendingSlots}
         /\ {buff_temp[j] : j \in Leaving}' = {buff_temp[j] : j \in Leaving}
         /\ (handled \cup InUserBuffer)' = handled \cup InUserBuffer
  BY DEF PendingSlots, Leaving, InUserBuffer, PacketsIn

(* A step of rxhPacketIn is a step of the bounded buffer or a stutter.      *)
LEMMA RxRefines ==
  ASSUME SingleCpu, Span = 1, IInv, FitInv, NEW c \in Cpus,
         (\E p \in Packets : RxPass(c, p) \/ RxArrive(c, p)) \/ RxStep(c)
  PROVE  [Buffer!Next]_(Buffer!vars)
  <1> USE RingAssumption, PacketAssumption
  <1>0. /\ TypeInv /\ TypeOK /\ LocalsOK /\ DropInv /\ SlotInv /\ DataInv
        /\ ArrivedInv /\ UniqueInv
    BY DEF IInv, TypeInv
  <1>1. InHandler = IF rxpc[c] \in {"idle", "advance"} THEN {} ELSE {pkt[c]}
    BY TheHandler
  <1>2. InHandler' = IF rxpc'[c] \in {"idle", "advance"} THEN {} ELSE {pkt'[c]}
    BY DEF SingleCpu, InHandler
  <1>3. ASSUME NEW p \in Packets, RxPass(c, p) PROVE UNCHANGED Buffer!vars
    BY <1>3, ReaderFrame DEF RxPass, Buffer!vars, InHandler
  <1>4. ASSUME NEW p \in Packets, RxArrive(c, p) PROVE Buffer!Offer(p) /\ p \in Intercepted
    <2>1. p \notin Arrived /\ p \in Intercepted /\ p # NoPacket
      BY <1>4 DEF RxArrive, Arrived
    <2>2. InHandler = {} /\ InHandler' = {p}
      BY <1>0, <1>1, <1>2, <1>4 DEF RxArrive, TypeOK
    <2>3. p \notin {data[s] : s \in PendingSlots}
      BY <1>0, <2>1 DEF ArrivedInv, PendingSlots
    <2>4. p \notin handled \cup InUserBuffer /\ p \notin dropped
      BY <1>0, <2>1 DEF ArrivedInv, InUserBuffer, PacketsIn
    <2> QED
      BY <1>4, <2>1, <2>2, <2>3, <2>4, ReaderFrame DEF RxArrive, Buffer!Offer
  <1>5. CASE RxCount(c)
    <2>1. InHandler = {pkt[c]} /\ InHandler' = InHandler
      BY <1>0, <1>1, <1>2, <1>5 DEF RxCount, TypeOK
    <2>2. CASE \A s \in Slots : status[s] = 1
      <3>1. Buffer!Occupied = MAX_PKT
        <4>1. OccupiedSlots = Slots
          BY <2>2 DEF OccupiedSlots
        <4> QED
          BY <4>1, OccupiedCount
      <3>2. pkt[c] \in Intercepted
        BY <1>0, <1>5 DEF RxCount, ArrivedInv, Arrived
      <3>3. Buffer!MeetFull(pkt[c])
        BY <1>5, <2>1, <2>2, <3>1, ReaderFrame DEF RxCount, Buffer!MeetFull
      <3> QED
        BY <3>2, <3>3 DEF Buffer!Next
    <2>3. CASE ~\A s \in Slots : status[s] = 1
      BY <1>5, <2>1, <2>3, ReaderFrame DEF RxCount, Buffer!vars
    <2> QED
      BY <2>2, <2>3
  <1>6. CASE RxFree(c) \/ RxOccupied(c)
    <2>1. InHandler' = InHandler
      BY <1>0, <1>1, <1>2, <1>6 DEF RxFree, RxOccupied, TypeOK
    <2> QED
      BY <1>6, <2>1, ReaderFrame DEF RxFree, RxOccupied, Buffer!vars
  <1>7. CASE RxDrop(c)
    <2>1. InHandler = {pkt[c]} /\ InHandler' = {}
      BY <1>0, <1>1, <1>2, <1>7 DEF RxDrop, RxReturn, TypeOK
    <2>2. pkt[c] \in sawFull /\ pkt[c] \in Intercepted
      BY <1>0, <1>7 DEF RxDrop, DropInv, ArrivedInv, Arrived
    <2>3. Buffer!Refuse(pkt[c])
      BY <1>7, <2>1, <2>2, ReaderFrame DEF RxDrop, Buffer!Refuse
    <2> QED
      BY <2>2, <2>3 DEF Buffer!Next
  <1>8. CASE RxCopy(c)
    <2>1. InHandler' = InHandler
      BY <1>0, <1>1, <1>2, <1>8 DEF RxCopy, TypeOK
    <2>2. status[write_index[c]] = 0 /\ write_index[c] \in Slots /\ chunk[c] = 0
      BY <1>0, <1>8 DEF RxCopy, SlotInv, LocalsOK, TypeOK
    <2>3. PendingSlots' = PendingSlots
      BY <1>8 DEF RxCopy, PendingSlots, Leaving
    <2>4. \A s \in PendingSlots : data'[s] = data[s]
      BY <1>0, <1>8, <2>2 DEF RxCopy, PendingSlots, TypeOK, Slots
    <2>5. {data[s] : s \in PendingSlots}' = {data[s] : s \in PendingSlots}
      BY <2>3, <2>4
    <2>6. UNCHANGED <<sawFull, rpc, ix, copied_index, buff_temp, buff_read, handled, dropped>>
      BY <1>8 DEF RxCopy
    <2> QED
      BY <2>1, <2>5, <2>6 DEF Buffer!vars, Leaving, InUserBuffer, PacketsIn
  <1>9. CASE RxPublish(c)
    <2>1. InHandler = {pkt[c]} /\ InHandler' = {}
      BY <1>0, <1>1, <1>2, <1>9 DEF RxPublish, TypeOK
    <2>2. /\ status[write_index[c]] = 0 /\ write_index[c] \in Slots
          /\ data[write_index[c]] = pkt[c] /\ pkt[c] \in Intercepted
      BY <1>0, <1>9 DEF RxPublish, SlotInv, DataInv, ArrivedInv, Arrived, TypeOK
    <2>3. Leaving' = Leaving
      BY <1>9 DEF RxPublish, Leaving
    <2>4. \A j \in Leaving : copied_index[j] # write_index[c]
      BY <1>0, <2>2, MappedSets DEF OccupiedSlots
    <2>5. PendingSlots' = PendingSlots \cup {write_index[c]}
      BY <1>0, <1>9, <2>2, <2>3, <2>4 DEF RxPublish, PendingSlots, TypeOK
    <2>6. {data[s] : s \in PendingSlots}' = {data[s] : s \in PendingSlots} \cup {pkt[c]}
      BY <1>9, <2>2, <2>5 DEF RxPublish
    <2>7. Buffer!Occupied < MAX_PKT
      <3>1. OccupiedSlots \subseteq Slots /\ OccupiedSlots # Slots
        BY <2>2 DEF OccupiedSlots
      <3> QED
        BY <3>1, OccupiedCount, FS_Subset, FS_CardinalityType
    <2>8. PICK p \in Intercepted : p = pkt[c]
      BY <2>2
    <2>9. Buffer!Accept(p)
      BY <1>9, <2>1, <2>3, <2>6, <2>7, <2>8 DEF RxPublish, Buffer!Accept, InUserBuffer,
         PacketsIn
    <2> QED
      BY <2>9 DEF Buffer!Next
  <1>10. CASE RxAdvance(c)
    <2>1. InHandler' = InHandler
      BY <1>0, <1>1, <1>2, <1>10 DEF RxAdvance, RxReturn, TypeOK
    <2> QED
      BY <1>10, <2>1, ReaderFrame DEF RxAdvance, Buffer!vars
  <1> QED
    BY <1>3, <1>4, <1>5, <1>6, <1>7, <1>8, <1>9, <1>10 DEF RxStep, Buffer!Next

-----------------------------------------------------------------------------
(* The steps of read() and of the user program                              *)

(* Unless read() is cleaning up nothing is leaving and every occupied slot  *)
(* is pending.                                                              *)
LEMMA NothingLeaves ==
  ASSUME rpc \notin {"clean", "release"}
  PROVE  Leaving = {} /\ PendingSlots = OccupiedSlots
  BY DEF Leaving, PendingSlots, OccupiedSlots

(* A buffer of n entries holds at most n packets.                           *)
LEMMA BatchBound ==
  ASSUME NEW n \in Nat, NEW buff,
         \A j \in Entries : j >= n => buff[j] = NoPacket
  PROVE  /\ IsFiniteSet(PacketsIn(buff))
         /\ Cardinality(PacketsIn(buff)) <= n
  <1> USE RingAssumption
  <1> DEFINE I == {j \in Entries : buff[j] # NoPacket}
             f == [j \in I |-> buff[j]]
  <1>1. I \subseteq 0 .. n - 1
    BY DEF Entries
  <1>2. IsFiniteSet(0 .. n - 1) /\ Cardinality(0 .. n - 1) = n
    BY FS_Interval
  <1>3. IsFiniteSet(I) /\ Cardinality(I) <= n
    BY <1>1, <1>2, FS_Subset
  <1>4. f \in Surjection(I, PacketsIn(buff))
    BY DEF Surjection, PacketsIn
  <1>5. IsFiniteSet(PacketsIn(buff)) /\ Cardinality(PacketsIn(buff)) <= Cardinality(I)
    BY <1>3, <1>4, FS_Surjection
  <1> QED
    BY <1>3, <1>5, FS_CardinalityType

(* A successful copy_to_user delivers what buff_temp holds.                 *)
LEMMA DeliverRefines ==
  ASSUME Span = 1, IInv, FitInv, CopyToUser
  PROVE  Buffer!Next
  <1> USE RingAssumption, PacketAssumption
  <1>0. TypeInv /\ TypeOK /\ SlotInv /\ ScanDistinct
    BY DEF IInv, TypeInv, UniqueInv
  <1>1. /\ rpc = "scan" /\ rpc' = "clean" /\ ix' = 0 /\ buff_read' = buff_temp
        /\ UNCHANGED <<status, data, copied_pkts, copied_index, buff_temp, rxpc, pkt,
                       handled, dropped, sawFull>>
    BY DEF CopyToUser
  <1>2. PICK S : S = PacketsIn(buff_temp)
    OBVIOUS
  <1>3. Leaving = {} /\ PendingSlots = OccupiedSlots
    BY <1>1, NothingLeaves
  <1>4. \A j \in Entries :
           IF j < copied_pkts
           THEN /\ copied_index[j] \in OccupiedSlots
                /\ data[copied_index[j]] = buff_temp[j]
                /\ buff_temp[j] # NoPacket
           ELSE copied_index[j] = NoIndex /\ buff_temp[j] = NoPacket
    BY <1>0, <1>1 DEF SlotInv, InUse, FitInv, ScanDistinct, OccupiedSlots, TypeOK, Entries
  <1>5. Leaving' = {j \in Entries : j < copied_pkts}
    <2>1. \A j \in Entries : j < copied_pkts => copied_index[j] # NoIndex
      BY <1>4 DEF OccupiedSlots, Slots, NoIndex
    <2>2. \A j \in Entries : j >= ix'
      BY <1>1 DEF Entries
    <2> QED
      BY <1>1, <1>4, <2>1, <2>2 DEF Leaving
  <1>6. S = {buff_temp[j] : j \in Leaving'}
    BY <1>2, <1>4, <1>5 DEF PacketsIn
  <1>7. {buff_temp[j] : j \in Leaving}' = S
    BY <1>1, <1>6
  <1>8. S \subseteq {data[s] : s \in PendingSlots}
    BY <1>3, <1>4, <1>5, <1>6
  <1>9. {data[s] : s \in PendingSlots}' = {data[s] : s \in PendingSlots} \ S
    <2>1. PendingSlots' = {s \in OccupiedSlots : \A j \in Leaving' : copied_index[j] # s}
      BY <1>1 DEF PendingSlots, OccupiedSlots
    <2>2. ASSUME NEW s \in OccupiedSlots, NEW j \in Leaving'
          PROVE  data[s] = buff_temp[j] <=> s = copied_index[j]
      <3>1. j \in Entries /\ j < copied_pkts /\ s \in Slots
        BY <1>5, <2>2 DEF OccupiedSlots
      <3> QED
        BY <1>0, <1>1, <1>4, <3>1 DEF ScanDistinct
    <2>3. \A s \in OccupiedSlots : s \in PendingSlots' <=> data[s] \notin S
      BY <1>6, <2>1, <2>2
    <2>4. {data[s] : s \in PendingSlots}' = {data[s] : s \in PendingSlots'}
      BY <1>1
    <2>5. PendingSlots' = {s \in OccupiedSlots : data[s] \notin S}
      BY <2>1, <2>3
    <2>6. {data[s] : s \in {t \in OccupiedSlots : data[t] \notin S}}
            = {data[s] : s \in OccupiedSlots} \ S
      OBVIOUS
    <2> QED
      BY <1>3, <2>4, <2>5, <2>6
  <1>10. (handled \cup InUserBuffer)' = handled \cup InUserBuffer \cup S
    BY <1>1, <1>2 DEF InUserBuffer, PacketsIn
  <1>11. Buffer!Cardinality(S) <= PKTS_PER_BUFFER
    <2>1. \A j \in Entries : j >= PKTS_PER_BUFFER => buff_temp[j] = NoPacket
      BY DEF Entries
    <2> QED
      BY <1>2, <2>1, BatchBound, BufferCardinality
  <1>12. InHandler' = InHandler
    BY <1>1 DEF InHandler
  <1>13. {buff_temp[j] : j \in Leaving} = {}
    BY <1>3
  <1>14. Buffer!Deliver(S)
    BY <1>1, <1>7, <1>8, <1>9, <1>10, <1>11, <1>12, <1>13 DEF Buffer!Deliver
  <1> QED
    BY <1>8, <1>14 DEF Buffer!Next

(* A copy_to_user that fails delivers a part and gives up no slot.          *)
LEMMA FaultRefines ==
  ASSUME Span = 1, IInv, FitInv, CopyToUserFault
  PROVE  Buffer!Next
  <1> USE RingAssumption, PacketAssumption
  <1>0. TypeInv /\ TypeOK /\ SlotInv /\ ScanDistinct
    BY DEF IInv, TypeInv, UniqueInv
  <1>1. /\ rpc = "scan" /\ rpc' = "process"
        /\ UNCHANGED <<status, data, copied_index, rxpc, pkt, handled, dropped, sawFull>>
    BY DEF CopyToUserFault
  <1>2. PICK n \in Entries :
          buff_read' = [j \in Entries |-> IF j < n THEN buff_temp[j] ELSE NoPacket]
    BY DEF CopyToUserFault
  <1>3. PICK S : S = PacketsIn(buff_read')
    OBVIOUS
  <1>4. /\ Leaving = {} /\ PendingSlots = OccupiedSlots
        /\ Leaving' = {} /\ PendingSlots' = OccupiedSlots
    BY <1>1 DEF Leaving, PendingSlots, OccupiedSlots
  <1>5. S \subseteq {data[s] : s \in PendingSlots}
    <2>1. \A j \in Entries : buff_temp[j] # NoPacket =>
             /\ copied_index[j] \in OccupiedSlots
             /\ data[copied_index[j]] = buff_temp[j]
      BY <1>0, <1>1 DEF SlotInv, InUse, FitInv, ScanDistinct, OccupiedSlots, TypeOK,
         Entries
    <2>2. \A x \in S : \E j \in Entries : buff_temp[j] = x /\ x # NoPacket
      BY <1>2, <1>3 DEF PacketsIn
    <2> QED
      BY <1>4, <2>1, <2>2
  <1>6. Buffer!Cardinality(S) < PKTS_PER_BUFFER
    <2>1. n \in Nat /\ n < PKTS_PER_BUFFER
      BY DEF Entries
    <2>2. \A j \in Entries : j >= n => buff_read'[j] = NoPacket
      BY <1>2, <2>1 DEF Entries
    <2>3. PICK buff : buff = buff_read'
      OBVIOUS
    <2>4. IsFiniteSet(S) /\ Cardinality(S) <= n
      BY <1>3, <2>1, <2>2, <2>3, BatchBound
    <2> QED
      BY <2>1, <2>4, BufferCardinality, FS_CardinalityType
  <1>7. /\ (handled \cup InUserBuffer)' = handled \cup InUserBuffer \cup S
        /\ InHandler' = InHandler
    BY <1>1, <1>3 DEF InUserBuffer, PacketsIn, InHandler
  <1>8. /\ {data[s] : s \in PendingSlots}' = {data[s] : s \in PendingSlots}
        /\ {buff_temp[j] : j \in Leaving}' = {buff_temp[j] : j \in Leaving}
    BY <1>1, <1>4
  <1>9. Buffer!DeliverPart(S)
    BY <1>1, <1>5, <1>6, <1>7, <1>8 DEF Buffer!DeliverPart
  <1> QED
    BY <1>5, <1>9 DEF Buffer!Next

(* A step of read() or of the user program is a step of the bounded buffer  *)
(* or a stutter.                                                            *)
LEMMA ReaderRefines ==
  ASSUME Span = 1, IInv, FitInv, ReaderStep \/ Sigint \/ SigintAgain
  PROVE  [Buffer!Next]_(Buffer!vars)
  <1> USE RingAssumption, PacketAssumption
  <1>0. TypeInv /\ TypeOK /\ LocalsOK /\ SlotInv /\ DataInv /\ UniqueInv
    BY DEF IInv, TypeInv
  <1>1. CASE CopyToUser
    BY <1>1, DeliverRefines
  <1>2. CASE CopyToUserFault
    BY <1>2, FaultRefines
  <1>3. CASE Release
    <2>1. /\ rpc = "release" /\ rpc' = "clean" /\ ix' = ix + 1
          /\ status' = [status EXCEPT ![copied_index[ix]] = 0]
          /\ UNCHANGED <<data, copied_index, buff_temp, buff_read, rxpc, pkt, handled,
                         dropped, sawFull>>
      BY <1>3 DEF Release
    <2>2. ix \in Leaving /\ ix \in Entries
      BY <1>0, <2>1 DEF LocalsOK, Leaving, TypeOK, Entries
    <2>3. Leaving' = Leaving \ {ix}
      BY <1>0, <2>1 DEF Leaving, TypeOK, Entries
    <2>4. PendingSlots' = PendingSlots
      BY <1>0, <2>1, <2>2, <2>3 DEF PendingSlots, TypeOK
    <2>5. {data[s] : s \in PendingSlots}' = {data[s] : s \in PendingSlots}
      BY <2>1, <2>4
    <2>6. \A j \in Leaving : j # ix => buff_temp[j] # buff_temp[ix]
      BY <1>0, <2>1, <2>2, MappedSets DEF UniqueInv, UserDistinct
    <2>7. {buff_temp[j] : j \in Leaving}' = {buff_temp[j] : j \in Leaving} \ {buff_temp[ix]}
      BY <2>1, <2>2, <2>3, <2>6
    <2>8. buff_temp[ix] \in Intercepted
      <3>1. buff_read[ix] = buff_temp[ix] /\ buff_temp[ix] # NoPacket
        BY <1>0, <2>2, MappedSets
      <3> QED
        BY <2>2, <3>1 DEF IInv, ArrivedInv, Arrived
    <2>9. PICK p \in Intercepted : p = buff_temp[ix]
      BY <2>8
    <2>10. Buffer!Free(p)
      BY <2>1, <2>2, <2>5, <2>7, <2>9 DEF Buffer!Free, InHandler, InUserBuffer, PacketsIn
    <2> QED
      BY <2>10 DEF Buffer!Next
  <1>4. CASE Clean
    <2>1. /\ rpc = "clean" /\ rpc' = "release"
          /\ data' = [data EXCEPT ![copied_index[ix]] = NoPacket]
          /\ UNCHANGED <<status, ix, copied_index, buff_temp, buff_read, rxpc, pkt,
                         handled, dropped, sawFull>>
      BY <1>4 DEF Clean
    <2>2. ix \in Leaving
      BY <1>0, <1>4 DEF Clean, Leaving, TypeOK, Entries
    <2>3. Leaving' = Leaving /\ PendingSlots' = PendingSlots
      BY <2>1 DEF Leaving, PendingSlots
    <2>4. \A s \in PendingSlots : data'[s] = data[s]
      BY <1>0, <2>1, <2>2 DEF PendingSlots, TypeOK
    <2>5. {data[s] : s \in PendingSlots}' = {data[s] : s \in PendingSlots}
      BY <2>3, <2>4
    <2> QED
      BY <2>1, <2>3, <2>5 DEF Buffer!vars, InHandler, InUserBuffer, PacketsIn
  <1>5. CASE CleanSkip
    <2>1. Leaving' = Leaving
      BY <1>0, <1>5 DEF CleanSkip, Leaving, TypeOK, Entries
    <2> QED
      BY <1>5, <2>1 DEF CleanSkip, Buffer!vars, InHandler, PendingSlots, InUserBuffer,
         PacketsIn
  <1>6. CASE ReadReturn
    <2>1. Leaving = {} /\ Leaving' = {}
      BY <1>0, <1>6 DEF ReadReturn, Leaving, TypeOK, Entries
    <2> QED
      BY <1>6, <2>1 DEF ReadReturn, Buffer!vars, InHandler, PendingSlots, InUserBuffer,
         PacketsIn
  <1>7. CASE \/ ReadCall \/ ReadSkip \/ ReadFound \/ ReadGrab \/ UserProcess
             \/ UserStop \/ SigintAgain
    <2>1. rpc \notin {"clean", "release"} /\ rpc' \notin {"clean", "release"}
      BY <1>7 DEF ReadCall, ReadSkip, ReadFound, ReadGrab, UserProcess, UserStop,
         SigintAgain
    <2>2. UNCHANGED <<status, data, rxpc, pkt, dropped, sawFull>>
      BY <1>7 DEF ReadCall, ReadSkip, ReadFound, ReadGrab, UserProcess, UserStop,
         SigintAgain
    <2>3. Leaving = {} /\ Leaving' = {} /\ PendingSlots' = PendingSlots
      BY <2>1, <2>2 DEF Leaving, PendingSlots
    <2>4. (handled \cup InUserBuffer)' = handled \cup InUserBuffer
      <3>1. CASE UserProcess
        BY <3>1 DEF UserProcess, InUserBuffer, PacketsIn
      <3>2. CASE SigintAgain
        BY <1>0, <3>2 DEF SigintAgain, InUserBuffer, PacketsIn, DataInv
      <3>3. CASE ReadCall \/ ReadSkip \/ ReadFound \/ ReadGrab \/ UserStop
        BY <3>3 DEF ReadCall, ReadSkip, ReadFound, ReadGrab, UserStop, InUserBuffer
      <3> QED
        BY <1>7, <3>1, <3>2, <3>3
    <2> QED
      BY <2>2, <2>3, <2>4 DEF Buffer!vars, InHandler
  <1>8. CASE Sigint
    BY <1>8 DEF Sigint, Buffer!vars, InHandler, Leaving, PendingSlots, InUserBuffer,
       PacketsIn
  <1> QED
    BY <1>1, <1>2, <1>3, <1>4, <1>5, <1>6, <1>7, <1>8 DEF ReaderStep

-----------------------------------------------------------------------------
(* The cache is a bounded buffer: with one receiving CPU, a search that     *)
(* comes past every slot and payloads that fit their slot, every step of    *)
(* rxhPacketIn, of read() and of the user program is a step of PacketBuffer *)
(* or changes nothing there.  So a packet is accepted into a free slot or   *)
(* refused after it met a full cache, it is delivered in batches, and it    *)
(* gives up its slot only after it was delivered, for every size of the     *)
(* cache and of the batch.                                                  *)
THEOREM CacheIsBuffer ==
  ASSUME SingleCpu, SearchCoversCache, Span = 1
  PROVE  Spec => ImplementsPacketBuffer
  <1>1. Init => Buffer!Init
    BY DEF Init, Buffer!Init, InHandler, PendingSlots, Leaving, InUserBuffer
  <1>2. Init => FitInv
    BY DEF Init, FitInv
  <1>3. IInv /\ FitInv /\ [Next]_vars => FitInv'
    BY FitStep DEF IInv, UniqueInv
  <1>4. IInv /\ FitInv /\ [Next]_vars => [Buffer!Next]_(Buffer!vars)
    <2> SUFFICES ASSUME IInv, FitInv, [Next]_vars
                 PROVE  [Buffer!Next]_(Buffer!vars)
      OBVIOUS
    <2>1. CASE UNCHANGED vars
      BY <2>1 DEF vars, Buffer!vars, InHandler, Leaving, PendingSlots, InUserBuffer,
         PacketsIn
    <2> QED
      BY <2>1, RxRefines, ReaderRefines DEF Next
  <1> QED
    BY <1>1, <1>2, <1>3, <1>4, CacheInvariant, PTL
       DEF Spec, ImplementsPacketBuffer, Buffer!Spec

=============================================================================
