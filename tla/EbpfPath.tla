------------------------------ MODULE EbpfPath ------------------------------
(***************************************************************************)
(* The eBPF application of the experiment: the XDP program and its maps     *)
(* (eBPF_app/eBPF_measure/ebpf_measure_kern.c) and the program that fetches *)
(* the payloads from the map (ebpf_measure_user.c).                         *)
(*                                                                         *)
(* The XDP program stores a timestamp in uid_timestamps[uid] and the        *)
(* payload in pkt_payload[uid].  The user program polls pkt_payload for one *)
(* uid after the other.  Both sides copy a payload with memcpy and without  *)
(* a lock, so a copy takes two steps here, in either order: the uid field,  *)
(* and the fields the user program checks (client_uid, type, created_time). *)
(* Uids are below 2^32: the maps use the low half of uid as their key.      *)
(***************************************************************************)
EXTENDS LogBuffs, Sequences

CONSTANTS
  Packets,     \* packets that reach the network device
  Accepted,    \* those that pass the parsing and the length check
  DataPackets, \* those with client_uid, created_time and type PL_DATA
  Uid,         \* the uid field of each payload
  NoPacket,    \* no packet in the XDP program
  Cpus         \* CPUs that run the XDP program

ASSUME PacketAssumption ==
  /\ Accepted \subseteq Packets
  /\ DataPackets \subseteq Packets
  /\ Uid \in [Packets -> Nat]
  /\ NoPacket \notin Packets

VARIABLES
  (* the maps: uid_timestamps (TRUE: not zero) and the two parts of the     *)
  (* elements of pkt_payload                                                *)
  uid_timestamps, pl_uid, pl_valid,
  (* xdp_sock_prog on each CPU; parts are those its memcpy has still to copy *)
  xpc, pkt, parts,
  (* ebpf_measure_user: map_pl is the local copy of a payload *)
  upc, next_uid, map_uid, map_valid, unread, ulog, global_exit, attached,
  (* the lines of the exported files; TRUE is a non-zero timestamp *)
  file_us, file_kern,
  (* history: packets that have not arrived, and packets whose payload is   *)
  (* in the map                                                             *)
  wire, stored

maps == <<uid_timestamps, pl_uid, pl_valid>>
xdp == <<xpc, pkt, parts>>
fetch == <<upc, next_uid, map_uid, map_valid, unread, ulog, attached>>
files == <<file_us, file_kern>>
vars == <<maps, xdp, fetch, global_exit, files, wire, stored>>

Parts == {"uid", "fields"}
(* max_entries of both maps is 1 + MAX_LOG_ENTRY.                           *)
Keys == 0 .. MAX_LOG_ENTRY
(* No line has been written yet.                                            *)
NoFile == <<>>

Init ==
  /\ uid_timestamps = [k \in Keys |-> FALSE]
  /\ pl_uid = [k \in Keys |-> 0]
  /\ pl_valid = [k \in Keys |-> FALSE]
  /\ xpc = [c \in Cpus |-> "idle"]
  /\ pkt = [c \in Cpus |-> NoPacket]
  /\ parts = [c \in Cpus |-> {}]
  /\ upc = "fetch"
  /\ next_uid = 0
  /\ map_uid = 0
  /\ map_valid = FALSE
  /\ unread = {}
  /\ ulog = EmptyLog
  /\ global_exit = FALSE
  /\ attached = TRUE
  /\ file_us = NoFile
  /\ file_kern = NoFile
  /\ wire = Packets
  /\ stored = {}

-----------------------------------------------------------------------------
(* xdp_sock_prog                                                            *)

(* Another kind of packet: XDP_PASS.                                        *)
XdpPass(c, p) ==
  /\ xpc[c] = "idle"
  /\ p \in wire \ Accepted
  /\ wire' = wire \ {p}
  /\ UNCHANGED <<maps, xdp, fetch, global_exit, files, stored>>

(* Mutant: the timestamp is not stored.                                     *)
XdpStampMissing(c, p) ==
  /\ xpc[c] = "idle"
  /\ attached
  /\ p \in wire \cap Accepted
  /\ wire' = wire \ {p}
  /\ xpc' = [xpc EXCEPT ![c] = "update"]
  /\ pkt' = [pkt EXCEPT ![c] = p]
  /\ parts' = [parts EXCEPT ![c] = Parts]
  /\ UNCHANGED <<maps, fetch, global_exit, files, stored>>

(* The timestamp is stored if the lookup finds an element for the uid.      *)
XdpStamp(c, p) ==
  /\ xpc[c] = "idle"
  /\ attached
  /\ p \in wire \cap Accepted
  /\ wire' = wire \ {p}
  /\ uid_timestamps' = [k \in Keys |-> uid_timestamps[k] \/ k = Uid[p]]
  /\ xpc' = [xpc EXCEPT ![c] = "update"]
  /\ pkt' = [pkt EXCEPT ![c] = p]
  /\ parts' = [parts EXCEPT ![c] = Parts]
  /\ UNCHANGED <<pl_uid, pl_valid, fetch, global_exit, files, stored>>

(* Mutant: the element next to the one of the uid is written.               *)
XdpUpdateMisplaced(c, part) ==
  /\ xpc[c] = "update"
  /\ part \in parts[c]
  /\ parts' = [parts EXCEPT ![c] = @ \ {part}]
  /\ pl_uid' = [k \in Keys |-> IF k = Uid[pkt[c]] + 1 THEN Uid[pkt[c]]
                               ELSE pl_uid[k]]
  /\ pl_valid' = [k \in Keys |-> pl_valid[k] \/ k = Uid[pkt[c]] + 1]
  /\ UNCHANGED <<uid_timestamps, xpc, pkt, fetch, global_exit, files, wire,
                 stored>>

(* bpf_map_update_elem copies the payload into the element, part by part;   *)
(* for a uid past the end of the map it fails and changes nothing.          *)
XdpUpdate(c, part) ==
  LET p == pkt[c] IN
  /\ xpc[c] = "update"
  /\ part \in parts[c]
  /\ parts' = [parts EXCEPT ![c] = @ \ {part}]
  /\ IF part = "uid"
     THEN /\ pl_uid' = [k \in Keys |-> IF k = Uid[p] THEN Uid[p] ELSE pl_uid[k]]
          /\ pl_valid' = pl_valid
     ELSE /\ pl_valid' = [k \in Keys |-> IF k = Uid[p] THEN p \in DataPackets
                                         ELSE pl_valid[k]]
          /\ pl_uid' = pl_uid
  /\ UNCHANGED <<uid_timestamps, xpc, pkt, fetch, global_exit, files, wire,
                 stored>>

(* The per-CPU count, which nothing else reads, and XDP_PASS.               *)
XdpDone(c) ==
  /\ xpc[c] = "update"
  /\ parts[c] = {}
  /\ xpc' = [xpc EXCEPT ![c] = "idle"]
  /\ pkt' = [pkt EXCEPT ![c] = NoPacket]
  /\ stored' = stored \cup {pkt[c]}
  /\ UNCHANGED <<maps, parts, fetch, global_exit, files, wire>>

-----------------------------------------------------------------------------
(* ebpf_measure_user                                                        *)

(* while (!global_exit): fetch_and_process_packet(next_uid) begins its      *)
(* lookup.  For a key past the end of the map the lookup fails and the loop *)
(* goes on without effect.                                                  *)
FetchCall ==
  /\ upc = "fetch"
  /\ ~global_exit
  /\ next_uid \in Keys
  /\ upc' = "lookup"
  /\ unread' = Parts
  /\ UNCHANGED <<maps, xdp, next_uid, map_uid, map_valid, ulog, attached,
                 global_exit, files, wire, stored>>

(* The lookup copies the element to map_pl, part by part.                   *)
FetchCopy(part) ==
  /\ upc = "lookup"
  /\ part \in unread
  /\ unread' = unread \ {part}
  /\ IF part = "uid"
     THEN map_uid' = pl_uid[next_uid] /\ map_valid' = map_valid
     ELSE map_valid' = pl_valid[next_uid] /\ map_uid' = map_uid
  /\ UNCHANGED <<maps, xdp, upc, next_uid, ulog, attached, global_exit, files,
                 wire, stored>>

(* Mutants: next_uid moves on whatever was fetched, or never.               *)
NextUidAlways(logged) == next_uid + 1
NextUidNever(logged) == next_uid
(* if (fetch_and_process_packet(next_uid)) next_uid++                       *)
NextUid(logged) == IF logged THEN next_uid + 1 ELSE next_uid

(* A payload that passes the check and has an entry in the log is logged    *)
(* under the uid it carries, and the program moves on to the next uid; with *)
(* any other it tries again.                                                *)
FetchProcess ==
  LET logged == map_valid /\ InLog(map_uid) IN
  /\ upc = "lookup"
  /\ unread = {}
  /\ upc' = "fetch"
  /\ ulog' = IF logged THEN Stamp(ulog, {map_uid}) ELSE ulog
  /\ next_uid' = NextUid(logged)
  /\ map_uid' = 0
  /\ map_valid' = FALSE
  /\ UNCHANGED <<maps, xdp, unread, attached, global_exit, files, wire, stored>>

(* Ctrl+C: exit_application.                                                *)
Sigint ==
  /\ ~global_exit
  /\ global_exit' = TRUE
  /\ UNCHANGED <<maps, xdp, fetch, files, wire, stored>>

(* The log of the user program is exported first ...                        *)
ExportUser ==
  /\ upc = "fetch"
  /\ global_exit
  /\ file_us' = [i \in 1 .. MAX_LOG_ENTRY |-> ulog[Cell(i - 1)]]
  /\ upc' = "export"
  /\ UNCHANGED <<maps, xdp, next_uid, map_uid, map_valid, unread, ulog,
                 attached, global_exit, file_kern, wire, stored>>

(* Mutant: the lines start with uid 1.                                      *)
NextLineShifted == uid_timestamps[Len(file_kern) + 1]
(* The next line of the file is the timestamp of the next uid, from 0.      *)
NextLine == uid_timestamps[Len(file_kern)]

(* ... and then the timestamps, one lookup per line, in a map to which the  *)
(* XDP program still writes: ...                                            *)
ExportKern ==
  /\ upc = "export"
  /\ Len(file_kern) < MAX_LOG_ENTRY
  /\ file_kern' = Append(file_kern, NextLine)
  /\ UNCHANGED <<maps, xdp, fetch, global_exit, file_us, wire, stored>>

(* ... it is detached only after that.                                      *)
Detach ==
  /\ upc = "export"
  /\ Len(file_kern) = MAX_LOG_ENTRY
  /\ attached' = FALSE
  /\ upc' = "stopped"
  /\ UNCHANGED <<maps, xdp, next_uid, map_uid, map_valid, unread, ulog,
                 global_exit, files, wire, stored>>

-----------------------------------------------------------------------------
XdpStep(c) == XdpDone(c) \/ \E part \in Parts : XdpUpdate(c, part)
UserStep ==
  \/ FetchCall
  \/ \E part \in Parts : FetchCopy(part)
  \/ FetchProcess
  \/ ExportUser
  \/ ExportKern
  \/ Detach

Next ==
  \/ \E c \in Cpus : \E p \in Packets : XdpPass(c, p) \/ XdpStamp(c, p)
  \/ \E c \in Cpus : XdpStep(c)
  \/ UserStep
  \/ Sigint

Spec == Init /\ [][Next]_vars

(* The XDP program runs to its end; the user program is scheduled.          *)
FairSpec ==
  /\ Spec
  /\ \A c \in Cpus : WF_vars(XdpStep(c))
  /\ WF_vars(UserStep)

-----------------------------------------------------------------------------
(* Properties                                                               *)

(* Every variable keeps its type; an element of pkt_payload carries no uid  *)
(* but its own.                                                             *)
TypeOK ==
  /\ uid_timestamps \in [Keys -> BOOLEAN]
  /\ pl_uid \in [Keys -> Keys]
  /\ \A k \in Keys : pl_uid[k] \in {0, k}
  /\ pl_valid \in [Keys -> BOOLEAN]
  /\ xpc \in [Cpus -> {"idle", "update"}]
  /\ pkt \in [Cpus -> Packets \cup {NoPacket}]
  /\ parts \in [Cpus -> SUBSET Parts]
  /\ upc \in {"fetch", "lookup", "export", "stopped"}
  /\ next_uid \in 0 .. MAX_LOG_ENTRY + 1
  /\ map_uid \in Keys
  /\ map_valid \in BOOLEAN
  /\ unread \subseteq Parts
  /\ ulog \in [Cells -> BOOLEAN]
  /\ global_exit \in BOOLEAN
  /\ attached \in BOOLEAN
  /\ file_us \in {NoFile} \cup [1 .. MAX_LOG_ENTRY -> BOOLEAN]
  /\ file_kern \in Seq(BOOLEAN)
  /\ Len(file_kern) <= MAX_LOG_ENTRY
  /\ wire \subseteq Packets
  /\ stored \subseteq Packets

(* The user program is strictly sequential: a uid is in its log only if     *)
(* that uid and every smaller one has reached the XDP program.  One lost    *)
(* packet therefore hides all later ones from the user program's log.       *)
LoggedPrefixArrived ==
  \A k \in Keys : InLog(k) /\ ulog[Cell(k)] =>
    \A j \in 0 .. k : uid_timestamps[j]

(* A uid in the exported log of the user program is in the exported log of  *)
(* the XDP program as well, although that map is written to while it is     *)
(* exported.                                                                *)
ExportNested ==
  \A i \in 1 .. Len(file_kern) : file_us[i] => file_kern[i]

(* If the payloads of all uids up to u are in the map, the user program     *)
(* fetches them, unless it is told to end.  (A packet that is no data       *)
(* packet may replace a payload the user program has not fetched yet: the   *)
(* uids up to u have none.)                                                 *)
PrefixStored(u) ==
  \A v \in 0 .. u : \E p \in stored \cap DataPackets : Uid[p] = v
StoredPrefixFetched ==
  \A u \in 0 .. MAX_LOG_ENTRY - 1 :
    (\A p \in Accepted : Uid[p] <= u => p \in DataPackets) =>
      (PrefixStored(u) ~> next_uid > u \/ global_exit)

(* The user program has logged every uid it has moved past: what it takes   *)
(* from the map under a key is the payload with that uid.  (The check in    *)
(* ebpf_measure_user.c:248-250 calls a zero entry of the exported log       *)
(* something that went wrong, and its loop counts them in zeroed.)          *)
NoGapBelowNext ==
  \A k \in Keys : k < next_uid /\ InLog(k) => ulog[Cell(k)]

=============================================================================
