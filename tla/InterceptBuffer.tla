--------------------------- MODULE InterceptBuffer ---------------------------
(***************************************************************************)
(* The packet cache of the kernel module and the program that drains it     *)
(* (mymodule/kernel_module/intercept-module.c and user-processing.c).       *)
(*                                                                         *)
(* The receive handler rxhPacketIn runs in softirq context on the CPU that  *)
(* received the packet.  It counts and logs the packet, looks for a slot    *)
(* whose status is 0, copies the payload there, sets the status and moves   *)
(* current_index.  The user program calls read() on the proc file in a      *)
(* loop: read() collects up to PKTS_PER_BUFFER occupied slots, copies them  *)
(* to user space, and then wipes and releases them.  No lock protects       *)
(* status, the slots, current_index or the counters, so every access to one *)
(* of them is a step of its own here.                                       *)
(*                                                                         *)
(* A payload is a model value.  The slots hold PKT_BUFFER_SIZE bytes and    *)
(* the handler copies the whole UDP payload; Span is the number of slots    *)
(* that one copy covers (sizeof(struct Payload) / PKT_BUFFER_SIZE, rounded  *)
(* up).  The header is in the first slot; what follows it in struct Payload *)
(* is data[], which the client leaves zeroed.  A copy is not atomic: the    *)
(* uid field and the fields that user-processing.c checks (client_uid, type *)
(* and created_time) are written one after the other, in any order.  What   *)
(* another copy can see of a header is its fields in any mixture of old and *)
(* new; an entry with a checked field that is zero is not logged and counts *)
(* as empty.                                                                *)
(***************************************************************************)
EXTENDS LogBuffs, Integers, FiniteSets

CONSTANTS
  Packets,                    \* the packets that reach the network device
  Intercepted,                \* those that are IPv4, UDP and to port 8080
  DataPackets,                \* those that pass the check of user-processing.c
  Uid,                        \* the uid field of each payload
  NoPacket,                   \* the contents of a zeroed slot
  Cpus,                       \* CPUs that run the receive handler
  MAX_PKT,                    \* slots in the cache
  PKTS_PER_BUFFER,            \* slots one read() can return
  KM_FIND_BUFF_SLOT_MAX_TRY,  \* slots the handler looks at
  Span,                       \* slots covered by the handler's memcpy
  MaxFaults                   \* bound on the failures of copy_to_user

ASSUME PacketAssumption ==
  /\ IsFiniteSet(Packets)
  /\ Intercepted \subseteq Packets
  /\ DataPackets \subseteq Packets
  /\ Uid \in [Packets -> Nat]
  /\ NoPacket \notin Packets

ASSUME RingAssumption ==
  /\ MAX_PKT \in Nat \ {0}
  /\ PKTS_PER_BUFFER \in Nat \ {0}
  /\ KM_FIND_BUFF_SLOT_MAX_TRY \in Nat \ {0}
  /\ Span \in Nat \ {0}
  /\ MaxFaults \in Nat

VARIABLES
  (* globals of intercept-module.c *)
  (* data[s] is the packet whose checked fields are in slot s, data_uid[s]  *)
  (* the uid field there; so are temp_uid and read_uid for the two buffers  *)
  status, data, data_uid, current_index, count_pkt, count_pkt_overflow, klog,
  (* locals of rxhPacketIn, for each CPU: loaded is the register of a       *)
  (* counter's read-modify-write, chunk the slots its memcpy has written,   *)
  (* half the field it has written of the next one                          *)
  rxpc, pkt, loaded, write_index, try, chunk, half,
  (* read(): its locals, and buff_temp, which only read() uses *)
  rpc, ci, rtry, copied_pkts, copied_index, buff_temp, temp_uid, ix,
  (* user-processing.c *)
  buff_read, read_uid, ulog, keep_running, faults,
  (* history: packets that have not arrived yet; packets discarded; packets *)
  (* whose scan began when every slot was occupied; packets overwritten     *)
  (* while they waited in a slot; packets the user program has seen, has    *)
  (* seen more than once, and was handed by a read() that failed            *)
  wire, dropped, sawFull, overwritten, handled, repeated, faulted

globals == <<status, data, data_uid, current_index, count_pkt, count_pkt_overflow, klog>>
handlers == <<rxpc, pkt, loaded, write_index, try, chunk, half>>
readLocals == <<rpc, ci, rtry, copied_pkts, copied_index, buff_temp, temp_uid, ix>>
user == <<buff_read, read_uid, ulog, keep_running, faults>>
rxHistory == <<wire, dropped, sawFull, overwritten>>
userHistory == <<handled, repeated, faulted>>
reader == <<readLocals, user, userHistory>>
vars == <<globals, handlers, readLocals, user, rxHistory, userHistory>>

Slots == 0 .. MAX_PKT - 1
Entries == 0 .. PKTS_PER_BUFFER - 1
Contents == Packets \cup {NoPacket}
NoIndex == -1
(* Mutant: no wrap at the end of the ring.                                  *)
SuccNoWrap(i) == i + 1
Succ(i) == (i + 1) % MAX_PKT

EmptyBuff == [j \in Entries |-> NoPacket]
ZeroUids == [j \in Entries |-> 0]
Fields == {"uid", "checked"}
PacketsIn(buff) == {buff[j] : j \in Entries} \ {NoPacket}
Arrived == Intercepted \ wire

-----------------------------------------------------------------------------
(* myinit: the slots and every status are zero, but the log pages come from *)
(* __get_free_pages as they are: an entry may hold anything.                *)
Init ==
  /\ status = [s \in Slots |-> 0]
  /\ data = [s \in Slots |-> NoPacket]
  /\ data_uid = [s \in Slots |-> 0]
  /\ current_index = 0
  /\ count_pkt = 0
  /\ count_pkt_overflow = 0
  /\ klog \in [Cells -> BOOLEAN]
  /\ rxpc = [c \in Cpus |-> "idle"]
  /\ pkt = [c \in Cpus |-> NoPacket]
  /\ loaded = [c \in Cpus |-> 0]
  /\ write_index = [c \in Cpus |-> 0]
  /\ try = [c \in Cpus |-> 0]
  /\ chunk = [c \in Cpus |-> 0]
  /\ half = [c \in Cpus |-> "none"]
  /\ rpc = "user"
  /\ ci = 0
  /\ rtry = 0
  /\ copied_pkts = 0
  /\ copied_index = [j \in Entries |-> NoIndex]
  /\ buff_temp = EmptyBuff
  /\ temp_uid = ZeroUids
  /\ ix = 0
  /\ buff_read = EmptyBuff
  /\ read_uid = ZeroUids
  /\ ulog = EmptyLog
  /\ keep_running = TRUE
  /\ faults = 0
  /\ wire = Packets
  /\ dropped = {}
  /\ sawFull = {}
  /\ overwritten = {}
  /\ handled = {}
  /\ repeated = {}
  /\ faulted = {}

-----------------------------------------------------------------------------
(* rxhPacketIn                                                              *)

(* A packet that is not IPv4, not UDP or not for port 8080 is passed on.    *)
RxPass(c, p) ==
  /\ rxpc[c] = "idle"
  /\ p \in wire \ Intercepted
  /\ wire' = wire \ {p}
  /\ UNCHANGED <<globals, handlers, reader, dropped, sawFull, overwritten>>

(* The handler is called for packet p: the load of count_pkt += 1.          *)
RxArrive(c, p) ==
  /\ rxpc[c] = "idle"
  /\ p \in wire \cap Intercepted
  /\ rxpc' = [rxpc EXCEPT ![c] = "count"]
  /\ pkt' = [pkt EXCEPT ![c] = p]
  /\ loaded' = [loaded EXCEPT ![c] = count_pkt]
  /\ wire' = wire \ {p}
  /\ UNCHANGED <<globals, write_index, try, chunk, half, reader, dropped, sawFull,
                 overwritten>>

(* Mutant: the timestamp is not stored.                                     *)
RxCountNoLog(c) ==
  /\ rxpc[c] = "count"
  /\ rxpc' = [rxpc EXCEPT ![c] = "probe"]
  /\ count_pkt' = loaded[c] + 1
  /\ write_index' = [write_index EXCEPT ![c] = current_index]
  /\ try' = [try EXCEPT ![c] = 0]
  /\ UNCHANGED <<status, data, data_uid, current_index, count_pkt_overflow, klog, pkt,
                 loaded, chunk, half, reader, wire, dropped, sawFull, overwritten>>

(* The store of count_pkt += 1, the timestamp in the kernel log, and the    *)
(* start of the search at current_index.                                    *)
RxCount(c) ==
  /\ rxpc[c] = "count"
  /\ rxpc' = [rxpc EXCEPT ![c] = "probe"]
  /\ count_pkt' = loaded[c] + 1
  /\ klog' = Stamp(klog, {Uid[pkt[c]]})
  /\ write_index' = [write_index EXCEPT ![c] = current_index]
  /\ try' = [try EXCEPT ![c] = 0]
  /\ sawFull' = IF \A s \in Slots : status[s] = 1
                THEN sawFull \cup {pkt[c]}
                ELSE sawFull
  /\ UNCHANGED <<status, data, data_uid, current_index, count_pkt_overflow, pkt, loaded,
                 chunk, half, reader, wire, dropped, overwritten>>

(* Mutant: the slot is taken whatever its status.                           *)
RxFreeUnchecked(c) ==
  /\ rxpc[c] = "probe"
  /\ rxpc' = [rxpc EXCEPT ![c] = "copy"]
  /\ chunk' = [chunk EXCEPT ![c] = 0]
  /\ half' = [half EXCEPT ![c] = "none"]
  /\ UNCHANGED <<globals, pkt, loaded, write_index, try, reader, rxHistory>>

(* Mutant: the status is set before the payload is copied.                  *)
RxFreePublishEarly(c) ==
  /\ rxpc[c] = "probe"
  /\ status[write_index[c]] = 0
  /\ status' = [status EXCEPT ![write_index[c]] = 1]
  /\ rxpc' = [rxpc EXCEPT ![c] = "copy"]
  /\ chunk' = [chunk EXCEPT ![c] = 0]
  /\ half' = [half EXCEPT ![c] = "none"]
  /\ UNCHANGED <<data, data_uid, current_index, count_pkt, count_pkt_overflow, klog, pkt,
                 loaded, write_index, try, reader, rxHistory>>

(* One look at status[write_index]: a free slot is taken ...                *)
RxFree(c) ==
  /\ rxpc[c] = "probe"
  /\ status[write_index[c]] = 0
  /\ rxpc' = [rxpc EXCEPT ![c] = "copy"]
  /\ chunk' = [chunk EXCEPT ![c] = 0]
  /\ half' = [half EXCEPT ![c] = "none"]
  /\ UNCHANGED <<globals, pkt, loaded, write_index, try, reader, rxHistory>>

(* Mutant: the search gives up one slot early.                              *)
RxOccupiedShort(c) ==
  /\ rxpc[c] = "probe"
  /\ status[write_index[c]] # 0
  /\ write_index' = [write_index EXCEPT ![c] = Succ(@)]
  /\ try' = [try EXCEPT ![c] = @ + 1]
  /\ IF try[c] + 2 = KM_FIND_BUFF_SLOT_MAX_TRY
     THEN /\ rxpc' = [rxpc EXCEPT ![c] = "overflow"]
          /\ loaded' = [loaded EXCEPT ![c] = count_pkt_overflow]
     ELSE UNCHANGED <<rxpc, loaded>>
  /\ UNCHANGED <<globals, pkt, chunk, half, reader, rxHistory>>

(* ... and an occupied one is passed over; after the last try the packet is *)
(* given up and the load of count_pkt_overflow += 1 follows.                *)
RxOccupied(c) ==
  /\ rxpc[c] = "probe"
  /\ status[write_index[c]] # 0
  /\ write_index' = [write_index EXCEPT ![c] = Succ(@)]
  /\ try' = [try EXCEPT ![c] = @ + 1]
  /\ IF try[c] + 1 = KM_FIND_BUFF_SLOT_MAX_TRY
     THEN /\ rxpc' = [rxpc EXCEPT ![c] = "overflow"]
          /\ loaded' = [loaded EXCEPT ![c] = count_pkt_overflow]
     ELSE UNCHANGED <<rxpc, loaded>>
  /\ UNCHANGED <<globals, pkt, chunk, half, reader, rxHistory>>

(* The handler returns and its locals are gone.                             *)
RxReturn(c) ==
  /\ rxpc' = [rxpc EXCEPT ![c] = "idle"]
  /\ pkt' = [pkt EXCEPT ![c] = NoPacket]
  /\ loaded' = [loaded EXCEPT ![c] = 0]
  /\ write_index' = [write_index EXCEPT ![c] = 0]
  /\ try' = [try EXCEPT ![c] = 0]
  /\ chunk' = [chunk EXCEPT ![c] = 0]
  /\ half' = [half EXCEPT ![c] = "none"]

(* Mutant: a discarded packet is not counted.                               *)
RxDropUncounted(c) ==
  /\ rxpc[c] = "overflow"
  /\ dropped' = dropped \cup {pkt[c]}
  /\ RxReturn(c)
  /\ UNCHANGED <<globals, reader, wire, sawFull, overwritten>>

RxDrop(c) ==
  /\ rxpc[c] = "overflow"
  /\ count_pkt_overflow' = loaded[c] + 1
  /\ dropped' = dropped \cup {pkt[c]}
  /\ RxReturn(c)
  /\ UNCHANGED <<status, data, data_uid, current_index, count_pkt, klog, reader, wire,
                 sawFull, overwritten>>

(* The memcpy of the payload, slot by slot and field by field: the header   *)
(* goes to the chosen slot and zeroes to the Span - 1 slots behind it,      *)
(* whatever their status.  What it writes past the last slot stays in the   *)
(* slack of the kmalloc'ed block.                                           *)
RxCopy(c) ==
  LET target == write_index[c] + chunk[c]
      first == half[c] = "none"
      Store(words, new) == [s \in Slots |-> IF s = target THEN new ELSE words[s]]
  IN
  /\ rxpc[c] = "copy"
  /\ \E field \in Fields \ {half[c]} :
       /\ data' = IF field = "checked"
                  THEN Store(data, IF chunk[c] = 0 THEN pkt[c] ELSE NoPacket)
                  ELSE data
       /\ data_uid' = IF field = "uid"
                      THEN Store(data_uid, IF chunk[c] = 0 THEN Uid[pkt[c]] ELSE 0)
                      ELSE data_uid
       /\ half' = [half EXCEPT ![c] = IF first THEN field ELSE "none"]
  /\ overwritten' = IF target \in Slots /\ status[target] = 1
                    THEN overwritten \cup ({data[target]} \ {NoPacket})
                    ELSE overwritten
  /\ chunk' = [chunk EXCEPT ![c] = IF first THEN @ ELSE @ + 1]
  /\ rxpc' = [rxpc EXCEPT ![c] = IF ~first /\ chunk[c] + 1 = Span THEN "publish" ELSE @]
  /\ UNCHANGED <<status, current_index, count_pkt, count_pkt_overflow, klog,
                 pkt, loaded, write_index, try, reader, wire, dropped, sawFull>>

(* status[write_index] = 1                                                  *)
RxPublish(c) ==
  /\ rxpc[c] = "publish"
  /\ status' = [status EXCEPT ![write_index[c]] = 1]
  /\ rxpc' = [rxpc EXCEPT ![c] = "advance"]
  /\ UNCHANGED <<data, data_uid, current_index, count_pkt, count_pkt_overflow, klog, pkt,
                 loaded, write_index, try, chunk, half, reader, rxHistory>>

(* current_index = (write_index + 1) % MAX_PKT; break                       *)
RxAdvance(c) ==
  /\ rxpc[c] = "advance"
  /\ current_index' = Succ(write_index[c])
  /\ RxReturn(c)
  /\ UNCHANGED <<status, data, data_uid, count_pkt, count_pkt_overflow, klog, reader,
                 rxHistory>>

RxStep(c) ==
  \/ RxCount(c)
  \/ RxFree(c)
  \/ RxOccupied(c)
  \/ RxDrop(c)
  \/ RxCopy(c)
  \/ RxPublish(c)
  \/ RxAdvance(c)

-----------------------------------------------------------------------------
(* read(), called by user-processing.c with offset 0                        *)

(* The user program clears buff_read and calls pread(); read() clears       *)
(* buff_temp and starts to scan at current_index.                           *)
ReadCall ==
  /\ rpc = "user"
  /\ keep_running
  /\ rpc' = "scan"
  /\ buff_read' = EmptyBuff
  /\ read_uid' = ZeroUids
  /\ buff_temp' = EmptyBuff
  /\ temp_uid' = ZeroUids
  /\ ci' = current_index
  /\ rtry' = 0
  /\ copied_pkts' = 0
  /\ copied_index' = [j \in Entries |-> NoIndex]
  /\ UNCHANGED <<globals, handlers, rxHistory, ix, ulog, keep_running, faults,
                 userHistory>>

(* Mutants: the scan looks at one slot too many, or at one too few.         *)
ScanningTooFar == copied_pkts < PKTS_PER_BUFFER /\ rtry <= MAX_PKT
ScanningShort == copied_pkts < PKTS_PER_BUFFER /\ rtry < MAX_PKT - 1

Scanning == copied_pkts < PKTS_PER_BUFFER /\ rtry < MAX_PKT

(* One look at status[ci]: an empty slot is passed over ...                 *)
ReadSkip ==
  /\ rpc = "scan"
  /\ Scanning
  /\ status[ci] = 0
  /\ ci' = Succ(ci)
  /\ rtry' = rtry + 1
  /\ UNCHANGED <<globals, handlers, rxHistory, rpc, copied_pkts, copied_index,
                 buff_temp, temp_uid, ix, user, userHistory>>

ReadFound ==
  /\ rpc = "scan"
  /\ Scanning
  /\ status[ci] # 0
  /\ rpc' = "grab"
  /\ UNCHANGED <<globals, handlers, rxHistory, ci, rtry, copied_pkts,
                 copied_index, buff_temp, temp_uid, ix, user, userHistory>>

(* ... and an occupied one is copied to buff_temp and remembered.  The      *)
(* copy sees the fields as a memcpy of the handler has left them so far.    *)
(* While one CPU receives, the slot is occupied and that memcpy can only be *)
(* the zero tail of a payload: as it writes the fields in any order, one    *)
(* step of the reader meets every mixture that a longer copy could.         *)
ReadGrab ==
  /\ rpc = "grab"
  /\ rpc' = "scan"
  /\ buff_temp' = [buff_temp EXCEPT ![copied_pkts] = data[ci]]
  /\ temp_uid' = [temp_uid EXCEPT ![copied_pkts] = data_uid[ci]]
  /\ copied_index' = [copied_index EXCEPT ![copied_pkts] = ci]
  /\ copied_pkts' = copied_pkts + 1
  /\ ci' = Succ(ci)
  /\ rtry' = rtry + 1
  /\ UNCHANGED <<globals, handlers, rxHistory, ix, user, userHistory>>

(* copy_to_user succeeds: the slots it returned are cleaned up next.        *)
CopyToUser ==
  /\ rpc = "scan"
  /\ ~Scanning
  /\ buff_read' = buff_temp
  /\ read_uid' = temp_uid
  /\ rpc' = "clean"
  /\ ix' = 0
  /\ UNCHANGED <<globals, handlers, rxHistory, ci, rtry, copied_pkts,
                 copied_index, buff_temp, temp_uid, ulog, keep_running, faults,
                 userHistory>>

(* Mutant: the slots are cleaned up although copy_to_user failed.           *)
CopyToUserFaultCleans ==
  /\ rpc = "scan"
  /\ ~Scanning
  /\ faults < MaxFaults
  /\ \E n \in Entries :
       /\ buff_read' = [j \in Entries |-> IF j < n THEN buff_temp[j] ELSE NoPacket]
       /\ read_uid' = [j \in Entries |-> IF j < n THEN temp_uid[j] ELSE 0]
  /\ faults' = faults + 1
  /\ faulted' = faulted \cup PacketsIn(buff_temp)
  /\ rpc' = "clean"
  /\ ix' = 0
  /\ UNCHANGED <<globals, handlers, rxHistory, ci, rtry, copied_pkts,
                 copied_index, buff_temp, temp_uid, ulog, keep_running, handled,
                 repeated>>

(* copy_to_user fails after n whole entries: nothing is cleaned up, and     *)
(* read() still returns BUFFER_SIZE, so the caller does not notice.  An     *)
(* entry of which only part arrived fails the user program's check, or has  *)
(* all the fields it reads: it counts as absent or as whole.                *)
CopyToUserFault ==
  /\ rpc = "scan"
  /\ ~Scanning
  /\ faults < MaxFaults
  /\ \E n \in Entries :
       /\ buff_read' = [j \in Entries |-> IF j < n THEN buff_temp[j] ELSE NoPacket]
       /\ read_uid' = [j \in Entries |-> IF j < n THEN temp_uid[j] ELSE 0]
  /\ faults' = faults + 1
  /\ faulted' = faulted \cup PacketsIn(buff_temp)
  /\ rpc' = "process"
  /\ UNCHANGED <<globals, handlers, rxHistory, ci, rtry, copied_pkts,
                 copied_index, buff_temp, temp_uid, ix, ulog, keep_running, handled,
                 repeated>>

(* The clean-up loop over copied_index: memset of the slot, ...             *)
Clean ==
  /\ rpc = "clean"
  /\ ix < PKTS_PER_BUFFER
  /\ copied_index[ix] # NoIndex
  /\ data' = [data EXCEPT ![copied_index[ix]] = NoPacket]
  /\ data_uid' = [data_uid EXCEPT ![copied_index[ix]] = 0]
  /\ rpc' = "release"
  /\ UNCHANGED <<status, current_index, count_pkt, count_pkt_overflow, klog,
                 handlers, rxHistory, ci, rtry, copied_pkts, copied_index,
                 buff_temp, temp_uid, ix, user, userHistory>>

(* ... status = 0, ...                                                      *)
Release ==
  /\ rpc = "release"
  /\ status' = [status EXCEPT ![copied_index[ix]] = 0]
  /\ ix' = ix + 1
  /\ rpc' = "clean"
  /\ UNCHANGED <<data, data_uid, current_index, count_pkt, count_pkt_overflow, klog,
                 handlers, rxHistory, ci, rtry, copied_pkts, copied_index,
                 buff_temp, temp_uid, user, userHistory>>

(* ... and nothing for an entry that is still -1.                           *)
CleanSkip ==
  /\ rpc = "clean"
  /\ ix < PKTS_PER_BUFFER
  /\ copied_index[ix] = NoIndex
  /\ ix' = ix + 1
  /\ UNCHANGED <<globals, handlers, rxHistory, rpc, ci, rtry, copied_pkts,
                 copied_index, buff_temp, temp_uid, user, userHistory>>

ReadReturn ==
  /\ rpc = "clean"
  /\ ix = PKTS_PER_BUFFER
  /\ rpc' = "process"
  /\ UNCHANGED <<globals, handlers, rxHistory, ci, rtry, copied_pkts,
                 copied_index, buff_temp, temp_uid, ix, user, userHistory>>

-----------------------------------------------------------------------------
(* user-processing.c                                                        *)

(* Mutant: the loop over the entries stops one short.                       *)
DataEntriesShort ==
  {j \in 0 .. PKTS_PER_BUFFER - 2 : buff_read[j] \in DataPackets}

(* The entries that pass the check of the user program.                     *)
DataEntries == {j \in Entries : buff_read[j] \in DataPackets}

(* The loop over buff_read: an entry that starts with a zero byte is        *)
(* skipped, one that passes the check is logged, others are only printed.   *)
UserProcess ==
  LET seen == PacketsIn(buff_read)
      twice == {p \in seen : \E j, k \in Entries :
                              j # k /\ buff_read[j] = p /\ buff_read[k] = p}
  IN
  /\ rpc = "process"
  /\ ulog' = Stamp(ulog, {read_uid[j] : j \in DataEntries})
  /\ handled' = handled \cup seen
  /\ repeated' = repeated \cup (handled \cap seen) \cup twice
  /\ rpc' = "user"
  /\ UNCHANGED <<globals, handlers, rxHistory, ci, rtry, copied_pkts,
                 copied_index, buff_temp, temp_uid, ix, buff_read, read_uid,
                 keep_running, faults, faulted>>

(* Ctrl+C: sig_handler clears keep_running, whatever the program is doing.  *)
(* With _XOPEN_SOURCE, signal() resets the action to its default.           *)
Sigint ==
  /\ keep_running
  /\ keep_running' = FALSE
  /\ UNCHANGED <<globals, handlers, rxHistory, readLocals, buff_read, read_uid, ulog,
                 faults, userHistory>>

(* A second Ctrl+C therefore kills the program, once it is not in read(),   *)
(* and its log is lost.                                                     *)
SigintAgain ==
  /\ ~keep_running
  /\ rpc \in {"user", "process"}
  /\ rpc' = "killed"
  /\ UNCHANGED <<globals, handlers, rxHistory, ci, rtry, copied_pkts,
                 copied_index, buff_temp, temp_uid, ix, user, userHistory>>

(* The loop condition is false: the program exports its log and ends.       *)
UserStop ==
  /\ rpc = "user"
  /\ ~keep_running
  /\ rpc' = "stopped"
  /\ UNCHANGED <<globals, handlers, rxHistory, ci, rtry, copied_pkts,
                 copied_index, buff_temp, temp_uid, ix, user, userHistory>>

ReaderStep ==
  \/ ReadCall
  \/ ReadSkip
  \/ ReadFound
  \/ ReadGrab
  \/ CopyToUser
  \/ CopyToUserFault
  \/ Clean
  \/ Release
  \/ CleanSkip
  \/ ReadReturn
  \/ UserProcess
  \/ UserStop

-----------------------------------------------------------------------------
Next ==
  \/ \E c \in Cpus : \E p \in Packets : RxPass(c, p) \/ RxArrive(c, p)
  \/ \E c \in Cpus : RxStep(c)
  \/ ReaderStep
  \/ Sigint
  \/ SigintAgain

Spec == Init /\ [][Next]_vars

(* A handler that has been called runs to its end in softirq context, and   *)
(* the user program's loop is scheduled; neither a packet nor Ctrl+C has to *)
(* come.                                                                    *)
FairSpec ==
  /\ Spec
  /\ \A c \in Cpus : WF_vars(RxStep(c))
  /\ WF_vars(ReaderStep)

-----------------------------------------------------------------------------
(* Properties                                                               *)

RxPcs == {"idle", "count", "probe", "overflow", "copy", "publish", "advance"}
ReadPcs == {"user", "scan", "grab", "clean", "release", "process", "stopped",
            "killed"}

(* Every variable keeps its type; in particular write_index, ci and the     *)
(* indexes remembered in copied_index never leave the array status.         *)
TypeOK ==
  /\ status \in [Slots -> {0, 1}]
  /\ data \in [Slots -> Contents]
  /\ data_uid \in [Slots -> Nat]
  /\ current_index \in Slots
  /\ count_pkt \in Nat
  /\ count_pkt_overflow \in Nat
  /\ klog \in [Cells -> BOOLEAN]
  /\ rxpc \in [Cpus -> RxPcs]
  /\ pkt \in [Cpus -> Contents]
  /\ loaded \in [Cpus -> Nat]
  /\ write_index \in [Cpus -> Slots]
  /\ try \in [Cpus -> 0 .. KM_FIND_BUFF_SLOT_MAX_TRY]
  /\ chunk \in [Cpus -> 0 .. Span]
  /\ half \in [Cpus -> Fields \cup {"none"}]
  /\ rpc \in ReadPcs
  /\ ci \in Slots
  /\ rtry \in 0 .. MAX_PKT
  /\ copied_pkts \in 0 .. PKTS_PER_BUFFER
  /\ copied_index \in [Entries -> Slots \cup {NoIndex}]
  /\ buff_temp \in [Entries -> Contents]
  /\ temp_uid \in [Entries -> Nat]
  /\ ix \in 0 .. PKTS_PER_BUFFER
  /\ buff_read \in [Entries -> Contents]
  /\ read_uid \in [Entries -> Nat]
  /\ ulog \in [Cells -> BOOLEAN]
  /\ keep_running \in BOOLEAN
  /\ faults \in 0 .. MaxFaults
  /\ wire \subseteq Packets
  /\ dropped \subseteq Packets
  /\ sawFull \subseteq Packets
  /\ overwritten \subseteq Packets
  /\ handled \subseteq Packets
  /\ repeated \subseteq Packets
  /\ faulted \subseteq Packets

(* The slots a handler works on: the one it has taken and not yet published *)
(* and the one its memcpy is at; and the slot that read() is about to copy, *)
(* wipe or release.                                                         *)
HandlerSlots(c) ==
  CASE rxpc[c] = "copy" -> {write_index[c], write_index[c] + chunk[c]}
    [] rxpc[c] = "publish" -> {write_index[c]}
    [] OTHER -> {}
ReaderSlot ==
  CASE rpc = "grab" -> {ci}
    [] rpc = "clean" /\ ix < PKTS_PER_BUFFER -> {copied_index[ix]} \ {NoIndex}
    [] rpc = "release" -> {copied_index[ix]}
    [] OTHER -> {}

(* The handler and read() are never at work on the same slot, although only *)
(* the status words, read and written without a lock, keep them apart, if   *)
(* the payload fits its slot.  (A larger one is copied over slots that      *)
(* read() is at.)                                                           *)
NoDataRace == \A c \in Cpus : HandlerSlots(c) \cap ReaderSlot = {}

(* A packet that waits in an occupied slot is not replaced by a later one   *)
(* (intercept-module.c, the comment on discarding, asks whether it should). *)
NothingOverwritten == overwritten = {}

InHandler ==
  {pkt[c] : c \in {d \in Cpus : rxpc[d] \notin {"idle", "advance"}}}
InSlots == {data[s] : s \in {t \in Slots : status[t] = 1}} \ {NoPacket}

(* No packet vanishes between rxhPacketIn and the user program: it is in    *)
(* the handler's hands, in an occupied slot, in the buffer read() returned, *)
(* seen by the user program, discarded with the overflow counter, or the    *)
(* tail of a later packet's memcpy went over it.                            *)
Conservation ==
  Arrived \subseteq InHandler \cup InSlots \cup PacketsIn(buff_read)
                    \cup handled \cup dropped \cup overwritten

(* The user program sees a packet a second time only when copy_to_user      *)
(* failed for it, because read() then keeps the slots.                      *)
NoDuplicate == repeated \subseteq faulted

(* rxhPacketIn discards a packet only if no slot was free when its search   *)
(* began: a search of KM_FIND_BUFF_SLOT_MAX_TRY slots misses none, even     *)
(* when read() releases slots meanwhile.                                    *)
DropOnlyIfFull == dropped \subseteq sawFull

(* Between two packets the module's counters equal the packets that came    *)
(* and the packets that were discarded.                                     *)
Accounting ==
  (\A c \in Cpus : rxpc[c] = "idle") =>
    /\ count_pkt = Cardinality(Arrived)
    /\ count_pkt_overflow = Cardinality(dropped)

(* The scripts subtract the kernel's timestamp from the user program's: a   *)
(* uid in the user program's log is in the kernel's log as well.  The one   *)
(* exception is uid 0, once the tail of a memcpy has overwritten a packet:  *)
(* read() may then have copied a header whose uid was already zero and the  *)
(* rest was not.                                                            *)
UserLogWithinKernelLog ==
  \A cell \in Cells : ulog[cell] => klog[cell] \/ (cell = Cell(0) /\ overwritten # {})

(* When the cache is drained and nobody is at work, every data packet whose *)
(* uid has an entry is in the user program's log, unless it was discarded   *)
(* or overwritten: a zero entry next to a kernel timestamp is a real loss.  *)
Drained ==
  /\ rpc = "user"
  /\ \A c \in Cpus : rxpc[c] = "idle"
  /\ \A s \in Slots : status[s] = 0
DrainedLogComplete ==
  Drained => \A p \in (Arrived \cap DataPackets) \ (dropped \cup overwritten) :
               InLog(Uid[p]) => ulog[Cell(Uid[p])]

(* Every packet the handler was called for is in the end seen by the user   *)
(* program, discarded or overwritten, if the user program is not stopped:   *)
(* as no packet comes back, there is always a later moment when all that    *)
(* have arrived are settled.                                                *)
EveryPacketSettled ==
  []<>(Arrived \subseteq handled \cup dropped \cup overwritten \/ ~keep_running)

=============================================================================
