----------------------------- MODULE MCEbpfPath -----------------------------
(***************************************************************************)
(* Small instances of EbpfPath.  Packet 0 is not for the XDP program,       *)
(* packets 1 and 2 carry the uids 0 and 1, packet 4 is the client's last    *)
(* one, whose uid is in the maps but not in the logs, packet 3 is no data   *)
(* packet and has the uid of packet 4, and that of packet 5 is in neither.  *)
(***************************************************************************)
EXTENDS EbpfInvariants

CONSTANT NPackets

MCPackets == 0 .. NPackets
MCAccepted == 1 .. NPackets
MCDataPackets == MCPackets \ {3}
MCUid == [p \in MCPackets |-> CASE p = 0 -> 0
                               [] p \in 1 .. 2 -> p - 1
                               [] p = 3 -> MAX_LOG_ENTRY
                               [] p >= 4 -> MAX_LOG_ENTRY + p - 4]

=============================================================================
