--------------------------- MODULE EbpfInvariants ---------------------------
(***************************************************************************)
(* The inductive invariant behind the safety properties of EbpfPath.        *)
(***************************************************************************)
EXTENDS EbpfPath

(* The XDP program stores the timestamp of a uid before its payload, so an  *)
(* element with valid fields, and a copy of one, belongs to a stamped uid.  *)
(* The timestamps are exported last.                                        *)
MapInv ==
  /\ \A c \in Cpus :
       xpc[c] = "update" =>
         /\ pkt[c] \in Packets
         /\ Uid[pkt[c]] \in Keys => uid_timestamps[Uid[pkt[c]]]
  /\ \A k \in Keys : pl_valid[k] => uid_timestamps[k]
  /\ upc = "lookup" => next_uid \in Keys
  /\ map_valid => upc = "lookup" /\ uid_timestamps[next_uid]
  /\ map_uid \in {0, next_uid}
  /\ IF upc \in {"fetch", "lookup"}
     THEN file_kern = NoFile
     ELSE file_us \in [1 .. MAX_LOG_ENTRY -> BOOLEAN]

(* The user program moves past stamped uids only, has logged none but those *)
(* it moved past, and its file has the lines of stamped uids only.          *)
PrefixInv ==
  /\ \A j \in Keys : j < next_uid => uid_timestamps[j]
  /\ \A k \in Keys : InLog(k) /\ ulog[Cell(k)] => k < next_uid
  /\ file_us # NoFile =>
       \A i \in 1 .. MAX_LOG_ENTRY : file_us[i] => uid_timestamps[i - 1]
  /\ ExportNested

FetchInv == TypeOK /\ MapInv /\ PrefixInv

=============================================================================
