------------------------ MODULE InterceptRefinement ------------------------
(***************************************************************************)
(* The packet cache implements the bounded buffer of PacketBuffer.  Slots   *)
(* that read() has delivered and not yet released still take up room.       *)
(***************************************************************************)
EXTENDS InterceptBuffer

(* The entries of copied_index whose slots read() has still to release.     *)
Leaving ==
  IF rpc \in {"clean", "release"}
  THEN {j \in Entries : j >= ix /\ copied_index[j] # NoIndex}
  ELSE {}

PendingSlots ==
  {s \in Slots : status[s] = 1 /\ \A j \in Leaving : copied_index[j] # s}

InUserBuffer ==
  IF rpc \in {"clean", "release", "process", "killed"}
  THEN PacketsIn(buff_read)
  ELSE {}

Buffer == INSTANCE PacketBuffer WITH
  Packets   <- Intercepted,
  Capacity  <- MAX_PKT,
  Batch     <- PKTS_PER_BUFFER,
  incoming  <- InHandler,
  metFull   <- sawFull,
  pending   <- {data[s] : s \in PendingSlots},
  leaving   <- {buff_temp[j] : j \in Leaving},
  delivered <- handled \cup InUserBuffer,
  refused   <- dropped

(* rxhPacketIn and read() together behave like the bounded buffer: whatever *)
(* their interleaving, a packet is accepted only into a free slot, delivered*)
(* in batches, and gives up its slot only after it has been delivered.      *)
ImplementsPacketBuffer == Buffer!Spec

=============================================================================
