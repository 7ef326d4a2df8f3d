---------------------------- MODULE PacketBuffer ----------------------------
(***************************************************************************)
(* What the packet cache promises: a bounded buffer that hands every packet *)
(* it accepts to the user program, refuses one only if it met a full buffer *)
(* and hands one over twice only when a delivery failed.                    *)
(* InterceptBuffer implements it when one CPU receives and a payload fits a *)
(* slot.                                                                    *)
(***************************************************************************)
EXTENDS Naturals, FiniteSets

CONSTANTS Packets, Capacity, Batch

VARIABLES
  incoming,   \* offered, not yet accepted or refused
  metFull,    \* packets that were offered to a full buffer
  pending,    \* accepted, not yet delivered
  leaving,    \* delivered, but still taking up room
  delivered,  \* delivered at least once
  refused

vars == <<incoming, metFull, pending, leaving, delivered, refused>>

Init ==
  /\ incoming = {}
  /\ metFull = {}
  /\ pending = {}
  /\ leaving = {}
  /\ delivered = {}
  /\ refused = {}

Occupied == Cardinality(pending) + Cardinality(leaving)

(* A packet arrives that the buffer has never seen ...                      *)
Offer(p) ==
  /\ p \notin incoming \cup pending \cup delivered \cup refused
  /\ incoming' = incoming \cup {p}
  /\ UNCHANGED <<metFull, pending, leaving, delivered, refused>>

(* ... it may find the buffer full ...                                      *)
MeetFull(p) ==
  /\ p \in incoming
  /\ Occupied = Capacity
  /\ metFull' = metFull \cup {p}
  /\ UNCHANGED <<incoming, pending, leaving, delivered, refused>>

(* ... and is accepted if there is room, ...                                *)
Accept(p) ==
  /\ p \in incoming
  /\ Occupied < Capacity
  /\ incoming' = incoming \ {p}
  /\ pending' = pending \cup {p}
  /\ UNCHANGED <<metFull, leaving, delivered, refused>>

(* ... or refused if it has met a full buffer.                              *)
Refuse(p) ==
  /\ p \in incoming \cap metFull
  /\ incoming' = incoming \ {p}
  /\ refused' = refused \cup {p}
  /\ UNCHANGED <<metFull, pending, leaving, delivered>>

(* A batch of packets is delivered; each then gives up its room.            *)
Deliver(S) ==
  /\ S \subseteq pending
  /\ Cardinality(S) <= Batch
  /\ leaving = {}
  /\ pending' = pending \ S
  /\ leaving' = S
  /\ delivered' = delivered \cup S
  /\ UNCHANGED <<incoming, metFull, refused>>

Free(p) ==
  /\ p \in leaving
  /\ leaving' = leaving \ {p}
  /\ UNCHANGED <<incoming, metFull, pending, delivered, refused>>

(* A delivery fails half-way: the packets stay and will be delivered again. *)
DeliverPart(S) ==
  /\ S \subseteq pending
  /\ Cardinality(S) < Batch
  /\ delivered' = delivered \cup S
  /\ UNCHANGED <<incoming, metFull, pending, leaving, refused>>

Next ==
  \/ \E p \in Packets :
       Offer(p) \/ MeetFull(p) \/ Accept(p) \/ Refuse(p) \/ Free(p)
  \/ \E S \in SUBSET pending : Deliver(S) \/ DeliverPart(S)

Spec == Init /\ [][Next]_vars

=============================================================================
