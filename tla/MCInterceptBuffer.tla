------------------------- MODULE MCInterceptBuffer -------------------------
(***************************************************************************)
(* Small instances of InterceptBuffer: packets are numbers, packet 3 is no  *)
(* data packet and its uid is past the end of the logs, like that of the    *)
(* last packet client.c sends.  No packet has uid 0: an entry for it in the *)
(* user program's log comes from a torn copy.  For the refinement the       *)
(* packets are interchangeable and data for one uid, but for one that is    *)
(* passed on.                                                               *)
(***************************************************************************)
EXTENDS InterceptInvariants, InterceptRefinement, TLC

CONSTANT NPackets   \* intercepted packets

MCPackets == 1 .. NPackets
MCDataPackets == MCPackets \ {3}
MCUid == [p \in MCPackets |-> p]

SameUid == [p \in Packets |-> 0]
PacketSymmetry == Permutations(Intercepted)

=============================================================================
