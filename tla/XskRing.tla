------------------------------ MODULE XskRing ------------------------------
(***************************************************************************)
(* The single-producer single-consumer rings of an AF_XDP socket             *)
(* (libbpf/src/xsk.h), and the frames that travel over two of them: the      *)
(* application gives frames to the kernel on the fill ring and gets them     *)
(* back, with a packet, on the receive ring.                                 *)
(*                                                                         *)
(* The indices are words of IndexRange values and only grow; each side       *)
(* keeps a copy of both, which may be old.  The kernel's side is external.   *)
(***************************************************************************)
EXTENDS Naturals, Sequences, FiniteSets

CONSTANTS IndexRange, RingSize, MaxBatch
ASSUME RingAssumption == /\ RingSize \in Nat \ {0} /\ MaxBatch \in 1 .. RingSize
                         /\ IndexRange \in Nat /\ IndexRange % RingSize = 0 /\ IndexRange > RingSize
Frames == 1 .. RingSize + 1

VARIABLES fill,     \* xsk_ring_prod: cached_prod, cached_cons, and the shared producer, consumer and ring
          recv,     \* xsk_ring_cons: the same
          app,      \* frames of the application, and what it is doing
          kernel    \* frames the kernel received packets into
rvars == <<fill, recv, app, kernel>>

Idx(i) == i % IndexRange
Minus(a, b) == (a + IndexRange - b) % IndexRange

(* Mutant: one entry too many is free.                                       *)
OneMore(r) == [r EXCEPT !.cached_cons = Idx(r.consumer + RingSize + 1)]
(* The copy of the consumer index is RingSize ahead of it.                   *)
RefreshCons(r) == [r EXCEPT !.cached_cons = Idx(r.consumer + RingSize)]
(* xsk_prod_nb_free: the ring afterwards.                                    *)
ProdNbFree(r, nb) == IF Minus(r.cached_cons, r.cached_prod) >= nb THEN r ELSE RefreshCons(r)
(* xsk_cons_nb_avail: the ring afterwards.                                   *)
ConsNbAvail(r) == IF r.cached_prod = r.cached_cons THEN [r EXCEPT !.cached_prod = r.producer] ELSE r

(* xsk_umem__create_v0_0_4 sets up both rings.                               *)
RingInit ==
  LET ring(cons) == [producer |-> 0, consumer |-> 0, cached_prod |-> 0, cached_cons |-> cons,
                     slots |-> [i \in 0 .. RingSize - 1 |-> 0]]
  IN  /\ fill = ring(RingSize) /\ recv = ring(0)
      /\ app = [frames |-> Frames, at |-> 0, reserved |-> 0, filling |-> <<>>, reading |-> 0, got |-> <<>>]
      /\ kernel = {}
RingIdle == RingInit

(* xsk_ring_prod__reserve: all or nothing.                                   *)
Reserve(nb) ==
  LET r == ProdNbFree(fill, nb)
      free == Minus(r.cached_cons, r.cached_prod)
  IN  /\ app.reserved = 0 /\ app.reading = 0 /\ nb <= Cardinality(app.frames)
      /\ IF free < nb THEN fill' = r /\ UNCHANGED app
         ELSE /\ fill' = [r EXCEPT !.cached_prod = Idx(@ + nb)]
              /\ app' = [app EXCEPT !.at = r.cached_prod, !.reserved = nb]
      /\ UNCHANGED <<recv, kernel>>
(* xsk_ring_prod__fill_addr: the address of a frame goes into the next       *)
(* reserved entry.                                                           *)
FillAddr(f) ==
  /\ Len(app.filling) < app.reserved /\ f \in app.frames
  /\ fill' = [fill EXCEPT !.slots[Idx(app.at + Len(app.filling)) % RingSize] = f]
  /\ app' = [app EXCEPT !.filling = Append(@, f), !.frames = @ \ {f}]
  /\ UNCHANGED <<recv, kernel>>
(* xsk_ring_prod__submit.                                                    *)
Submit ==
  /\ app.reserved > 0 /\ Len(app.filling) = app.reserved
  /\ fill' = [fill EXCEPT !.producer = Idx(@ + app.reserved)]
  /\ app' = [app EXCEPT !.reserved = 0, !.filling = <<>>]
  /\ UNCHANGED <<recv, kernel>>

(* The kernel takes a frame of the fill ring, and returns one with a packet  *)
(* when the receive ring has room.                                           *)
KernelTake ==
  /\ fill.consumer # fill.producer
  /\ kernel' = kernel \cup {fill.slots[fill.consumer % RingSize]}
  /\ fill' = [fill EXCEPT !.consumer = Idx(@ + 1)]
  /\ UNCHANGED <<recv, app>>
KernelReceive(f) ==
  /\ f \in kernel /\ Minus(recv.producer, recv.consumer) < RingSize
  /\ recv' = [recv EXCEPT !.slots[recv.producer % RingSize] = f, !.producer = Idx(@ + 1)]
  /\ kernel' = kernel \ {f}
  /\ UNCHANGED <<fill, app>>

(* xsk_ring_cons__peek: at most nb entries.                                  *)
Peek(nb) ==
  LET r == ConsNbAvail(recv)
      avail == Minus(r.cached_prod, r.cached_cons)
      n == IF avail > nb THEN nb ELSE avail
  IN  /\ app.reserved = 0 /\ app.reading = 0
      /\ recv' = [r EXCEPT !.cached_cons = Idx(@ + n)]
      /\ app' = [app EXCEPT !.at = IF n = 0 THEN @ ELSE r.cached_cons, !.reading = n]
      /\ UNCHANGED <<fill, kernel>>
(* xsk_ring_cons__rx_desc: the next entry is read.                           *)
RxDesc ==
  /\ Len(app.got) < app.reading
  /\ app' = [app EXCEPT !.got = Append(@, recv.slots[Idx(app.at + Len(@)) % RingSize])]
  /\ UNCHANGED <<fill, recv, kernel>>
(* xsk_ring_cons__release: the frames are the application's again.           *)
Release ==
  /\ app.reading > 0 /\ Len(app.got) = app.reading
  /\ recv' = [recv EXCEPT !.consumer = Idx(@ + app.reading)]
  /\ app' = [app EXCEPT !.frames = @ \cup {app.got[i] : i \in DOMAIN app.got}, !.reading = 0, !.got = <<>>]
  /\ UNCHANGED <<fill, kernel>>

RingNext ==
  \/ \E nb \in 1 .. MaxBatch : Reserve(nb) \/ Peek(nb)
  \/ \E f \in Frames : FillAddr(f) \/ KernelReceive(f)
  \/ Submit \/ KernelTake \/ RxDesc \/ Release
RingSpec == RingInit /\ [][RingNext]_rvars

(* What is on a ring: the entries between the shared indices.                *)
On(r) == [i \in 1 .. Minus(r.producer, r.consumer) |-> r.slots[Idx(r.consumer + i - 1) % RingSize]]
Entries(s) == {s[i] : i \in DOMAIN s}
(* Also across an overflow of the indices, and whatever is old in either     *)
(* side's copies: every frame is in one place, with the application, written *)
(* for submission, on a ring or with the kernel; a ring never holds more     *)
(* than its size; an entry that is being read is not overwritten.            *)
FramesConserved ==
  LET all == app.frames \cup kernel \cup Entries(app.filling) \cup Entries(On(fill)) \cup Entries(On(recv))
  IN  /\ Minus(fill.producer, fill.consumer) <= RingSize /\ Minus(recv.producer, recv.consumer) <= RingSize
      /\ all = Frames
      /\ Cardinality(app.frames) + Cardinality(kernel) + Len(app.filling) + Len(On(fill)) + Len(On(recv))
           = Cardinality(Frames)
      /\ \A i \in DOMAIN app.got : app.got[i] = On(recv)[i]
=============================================================================
