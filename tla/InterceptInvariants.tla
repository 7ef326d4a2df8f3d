------------------------ MODULE InterceptInvariants ------------------------
(***************************************************************************)
(* The inductive invariant behind the safety properties of InterceptBuffer, *)
(* in parts: each part is inductive together with the ones before it.       *)
(***************************************************************************)
EXTENDS InterceptBuffer

(* One CPU runs the receive handler: the device has one receive queue.      *)
SingleCpu == \A c, d \in Cpus : c = d

(* The handler's search comes past every slot.                              *)
SearchCoversCache == KM_FIND_BUFF_SLOT_MAX_TRY >= MAX_PKT

(* What the program counters say about the locals.                          *)
LocalsOK ==
  /\ \A c \in Cpus :
       /\ rxpc[c] # "idle" => pkt[c] \in Packets
       /\ rxpc[c] = "probe" => try[c] < KM_FIND_BUFF_SLOT_MAX_TRY
       /\ rxpc[c] = "copy" => chunk[c] < Span
  /\ rpc = "grab" => Scanning
  /\ rpc = "release" =>
       ix < PKTS_PER_BUFFER /\ copied_index[ix] # NoIndex

TypeInv == TypeOK /\ LocalsOK

(* The packets whose uid is in the kernel log, or has no entry there.       *)
Logged == {p \in Packets : InLog(Uid[p]) => klog[Cell(Uid[p])]}

(* The handler logs a packet before it puts it anywhere, so whatever the    *)
(* reader can come across has been logged.                                  *)
LogInv ==
  /\ \A c \in Cpus : rxpc[c] \notin {"idle", "count"} => pkt[c] \in Logged
  /\ \A s \in Slots : data[s] \in Logged \cup {NoPacket}
  /\ \A j \in Entries : buff_temp[j] \in Logged \cup {NoPacket}
  /\ \A j \in Entries : buff_read[j] \in Logged \cup {NoPacket}

(* Steps of the scan from slot i to slot s.                                 *)
Dist(i, s) == IF s >= i THEN s - i ELSE s - i + MAX_PKT

(* A search that began with a free slot has one ahead of it.                *)
DropInv ==
  /\ \A c \in Cpus :
       rxpc[c] = "probe" /\ pkt[c] \notin sawFull =>
         \E s \in Slots : /\ status[s] = 0
                          /\ Dist(write_index[c], s) + try[c] < MAX_PKT
  /\ \A c \in Cpus : rxpc[c] = "overflow" => pkt[c] \in sawFull
  /\ DropOnlyIfFull

(* The entries of copied_index that are in use: while read() scans, those   *)
(* it has filled; while it cleans up, those it has not yet released.        *)
InUse(j) ==
  \/ rpc \in {"scan", "grab"} /\ j < copied_pkts
  \/ rpc \in {"clean", "release"} /\ ix <= j /\ copied_index[j] # NoIndex

(* The handler takes free slots only and read() holds occupied slots only:  *)
(* a slot read() has found stays occupied until read() releases it, because *)
(* it finds a slot at most once in a scan.                                  *)
SlotInv ==
  /\ \A c \in Cpus :
       rxpc[c] \in {"copy", "publish"} => status[write_index[c]] = 0
  /\ rpc = "grab" => status[ci] = 1
  /\ \A j \in Entries :
       InUse(j) => copied_index[j] \in Slots /\ status[copied_index[j]] = 1
  /\ \A j, k \in Entries :
       InUse(j) /\ InUse(k) /\ j # k => copied_index[j] # copied_index[k]
  /\ rpc \in {"scan", "grab"} =>
       \A j \in Entries :
         IF j < copied_pkts
         THEN Dist(ci, copied_index[j]) + rtry >= MAX_PKT
         ELSE copied_index[j] = NoIndex

(* A slot read() has copied holds what read() copied, unless the tail of a  *)
(* handler's memcpy has zeroed it since; what is in the handler's slot is   *)
(* the handler's packet.                                                    *)
DataInv ==
  /\ \A c \in Cpus :
       (rxpc[c] = "copy" /\ (chunk[c] > 0 \/ half[c] = "checked")) \/ rxpc[c] = "publish" =>
         data[write_index[c]] = pkt[c]
  /\ rpc \in {"scan", "grab"} =>
       \A j \in Entries :
         j < copied_pkts =>
           data[copied_index[j]] \in {buff_temp[j], NoPacket}
  /\ rpc \in {"clean", "release"} =>
       \A j \in Entries :
         InUse(j) => data[copied_index[j]] \in {buff_read[j], NoPacket}
  /\ rpc = "release" => data[copied_index[ix]] = NoPacket
  /\ rpc \in {"user", "scan", "grab", "stopped"} =>
       PacketsIn(buff_read) \subseteq handled

(* A uid field goes with the packet whose checked fields stand beside it,   *)
(* or was zeroed by the tail of a memcpy that was not yet at those.         *)
Belongs(p, uid) == p = NoPacket \/ uid = Uid[p] \/ (uid = 0 /\ p \in overwritten)

(* Every header that read() can come across, has copied or has delivered is *)
(* such a one.                                                              *)
UidInv ==
  /\ \A c \in Cpus :
       (rxpc[c] = "copy" /\ (chunk[c] > 0 \/ half[c] = "uid")) \/ rxpc[c] = "publish" =>
         data_uid[write_index[c]] = Uid[pkt[c]]
  /\ \A s \in Slots : status[s] = 1 => Belongs(data[s], data_uid[s])
  /\ \A j \in Entries : /\ Belongs(buff_temp[j], temp_uid[j])
                        /\ Belongs(buff_read[j], read_uid[j])
  /\ UserLogWithinKernelLog

(* Every entry of the user program's log is one of the kernel's.            *)
LogsWithin == \A cell \in Cells : ulog[cell] => klog[cell]

(* The packets that have arrived and where they can be.                     *)
ArrivedInv ==
  /\ \A c \in Cpus : rxpc[c] # "idle" => pkt[c] \in Arrived \ dropped
  /\ \A s \in Slots : data[s] \in Arrived \cup {NoPacket}
  /\ \A j \in Entries : buff_temp[j] \in Arrived \cup {NoPacket}
  /\ \A j \in Entries : buff_read[j] \in Arrived \cup {NoPacket}
  /\ handled \cup dropped \subseteq Arrived

(* The counters are exact but for the increment under way, whose load is    *)
(* still good when it is stored.                                            *)
CountInv ==
  /\ \A c \in Cpus :
       /\ rxpc[c] = "count" =>
            loaded[c] = count_pkt /\ Cardinality(Arrived) = count_pkt + 1
       /\ rxpc[c] = "overflow" => loaded[c] = count_pkt_overflow
  /\ (\A c \in Cpus : rxpc[c] # "count") => count_pkt = Cardinality(Arrived)
  /\ count_pkt_overflow = Cardinality(dropped)

(* A packet is in one place only.  The handler's packet is nowhere else ... *)
HandlerAlone ==
  \A c \in Cpus :
    rxpc[c] \notin {"idle", "advance"} =>
      /\ pkt[c] \notin handled
      /\ \A j \in Entries : pkt[c] \notin {buff_temp[j], buff_read[j]}
      /\ \A s \in Slots :
           data[s] = pkt[c] =>
             s = write_index[c] /\ rxpc[c] \in {"copy", "publish"}

(* ... two slots never hold the same packet ...                             *)
SlotsDistinct ==
  \A s, t \in Slots : s # t /\ data[s] = data[t] => data[s] = NoPacket

(* ... and what read() copies or has copied is distinct too, and is in no   *)
(* slot but the one it came from.  When the user program gets to it, it is  *)
(* in a slot, or has been seen before, only if copy_to_user failed for it.  *)
ScanDistinct ==
  rpc \in {"scan", "grab"} =>
    /\ \A j \in Entries : j >= copied_pkts => buff_temp[j] = NoPacket
    /\ \A j, k \in Entries :
         j # k /\ buff_temp[j] = buff_temp[k] => buff_temp[j] = NoPacket
    /\ \A j \in Entries, s \in Slots :
         data[s] = buff_temp[j] /\ buff_temp[j] # NoPacket =>
           s = copied_index[j]
    /\ \A j \in Entries : buff_temp[j] \in handled => buff_temp[j] \in faulted
UserDistinct ==
  rpc \in {"clean", "release", "process"} =>
    /\ \A j, k \in Entries :
         j # k /\ buff_read[j] = buff_read[k] => buff_read[j] = NoPacket
    /\ \A j \in Entries, s \in Slots :
         data[s] = buff_read[j] /\ buff_read[j] # NoPacket =>
           \/ rpc # "process" /\ InUse(j) /\ s = copied_index[j]
           \/ rpc = "process" /\ buff_read[j] \in faulted
    /\ \A j \in Entries : buff_read[j] \in handled => buff_read[j] \in faulted

UniqueInv ==
  /\ HandlerAlone
  /\ SlotsDistinct
  /\ ScanDistinct
  /\ UserDistinct
  /\ \A s \in Slots : data[s] \in handled => data[s] \in faulted
  /\ NoDuplicate

(* The user program has logged what it has seen, unless it was overwritten. *)
HandledInv ==
  \A p \in (handled \cap DataPackets) \ overwritten : InLog(Uid[p]) => ulog[Cell(Uid[p])]

(* The whole invariant of a cache with one receiving CPU.                   *)
IInv ==
  /\ TypeInv /\ LogInv /\ DropInv /\ SlotInv /\ DataInv /\ Conservation
  /\ UidInv /\ ArrivedInv /\ CountInv /\ UniqueInv /\ HandledInv

=============================================================================
