--------------------------- MODULE Library_proofs ---------------------------
(***************************************************************************)
(* libbpf: proofs about the AF_XDP rings, umem and sockets, and the perf     *)
(* buffers and links, three components that share no state.                  *)
(***************************************************************************)
EXTENDS XskRing, XskSocket, PerfBuffer, Integers, FiniteSetTheorems, TLAPS

-----------------------------------------------------------------------------
(* The rings of AF_XDP                                                      *)

(* Ring indices, what a slot may hold, and a ring.                          *)
Index == 0 .. IndexRange - 1
Contents == 0 .. RingSize + 1
RingRecord == [producer : Index, consumer : Index, cached_prod : Index, cached_cons : Index,
               slots : [0 .. RingSize - 1 -> Contents]]
AppRecord == [frames : SUBSET Frames, at : Index, reserved : Nat, filling : Seq(Frames),
              reading : Nat, got : Seq(Contents)]
(* The types of the state of the rings.                                     *)
RingTypeOK ==
  /\ fill \in RingRecord /\ recv \in RingRecord
  /\ app \in AppRecord
  /\ kernel \in SUBSET Frames

(* How far an index of a ring is ahead of the shared consumer index.         *)
Ahead(r, i) == Minus(i, r.consumer)
(* The entry k behind the consumer index.                                    *)
Entry(r, k) == r.slots[(r.consumer + k) % RingSize]

(* The indices of the fill ring, from the consumer on: what is submitted,   *)
(* what is reserved, and what the application believes to be free.          *)
FillOrdered ==
  /\ Ahead(fill, fill.cached_prod) = Ahead(fill, fill.producer) + app.reserved
  /\ Ahead(fill, fill.cached_prod) <= Ahead(fill, fill.cached_cons)
  /\ Ahead(fill, fill.cached_cons) <= RingSize
  /\ app.reserved > 0 => app.at = fill.producer
(* The descriptors written so far are in the first reserved slots.          *)
FillPrepared ==
  /\ Len(app.filling) <= app.reserved
  /\ \A i \in 1 .. Len(app.filling) : Entry(fill, Ahead(fill, fill.producer) + i - 1) = app.filling[i]
(* The indices of the receive ring, from the consumer on: what is being     *)
(* read, what the application has seen, and what the kernel has produced.   *)
RecvOrdered ==
  /\ Ahead(recv, recv.cached_cons) = app.reading
  /\ app.reading <= Ahead(recv, recv.cached_prod)
  /\ Ahead(recv, recv.cached_prod) <= Ahead(recv, recv.producer)
  /\ Ahead(recv, recv.producer) <= RingSize
  /\ app.reading > 0 => app.at = recv.consumer
(* The descriptors read so far are the first ones that are not released.    *)
RecvRead ==
  /\ Len(app.got) <= app.reading
  /\ \A i \in 1 .. Len(app.got) : app.got[i] = Entry(recv, i - 1)
(* No entry occurs twice.                                                   *)
Once(s) == \A i, j \in DOMAIN s : s[i] = s[j] => i = j
(* Every frame is in one place: with the application, with the kernel, in a *)
(* descriptor being prepared, or on one of the two rings, once.             *)
FramesApart ==
  LET f == Entries(app.filling)
      p == Entries(On(fill))
      c == Entries(On(recv))
  IN  /\ app.frames \cup kernel \cup f \cup p \cup c = Frames
      /\ app.frames \cap kernel = {} /\ app.frames \cap f = {} /\ app.frames \cap p = {} /\ app.frames \cap c = {}
      /\ kernel \cap f = {} /\ kernel \cap p = {} /\ kernel \cap c = {}
      /\ f \cap p = {} /\ f \cap c = {} /\ p \cap c = {}
      /\ Once(app.filling) /\ Once(On(fill)) /\ Once(On(recv))
(* The inductive invariant of the rings.                                    *)
RingInv == RingTypeOK /\ FillOrdered /\ FillPrepared /\ RecvOrdered /\ RecvRead /\ FramesApart

(* Division with remainder.                                                 *)
LEMMA ModForm ==
  ASSUME NEW n \in Nat \ {0}, NEW a \in Int
  PROVE  a % n \in 0 .. n - 1 /\ a = n * (a \div n) + (a % n) /\ a \div n \in Int
  <1>1. a \div n \in Int /\ a % n \in Int
    OBVIOUS
  <1>2. a = n * (a \div n) + (a % n)
    OBVIOUS
  <1>3. a % n \in 0 .. n - 1
    OBVIOUS
  <1> QED
    BY <1>1, <1>2, <1>3
(* The remainder is the only one.                                           *)
LEMMA ModUnique ==
  ASSUME NEW n \in Nat \ {0}, NEW q \in Int, NEW r \in 0 .. n - 1
  PROVE  (n * q + r) % n = r
  <1> DEFINE a == n * q + r
  <1>1. a \in Int
    OBVIOUS
  <1>2. PICK p \in Int, t \in 0 .. n - 1 : a = n * p + t /\ t = a % n
    BY <1>1, ModForm
  <1>3. n * (q - p) = t - r
    BY <1>2
  <1>4. q - p = 0
    <2>1. CASE q - p >= 1
      <3>1. n * (q - p) >= n
        BY <2>1
      <3> QED
        BY <1>3, <3>1
    <2>2. CASE q - p <= -1
      <3>1. n * (q - p) <= -n
        BY <2>2
      <3> QED
        BY <1>3, <3>1
    <2> QED
      BY <2>1, <2>2
  <1> QED
    BY <1>2, <1>3, <1>4

(* What the assumption on the constants says of the sizes.                  *)
LEMMA RingNumbers == RingSize \in Nat \ {0} /\ IndexRange \in Nat /\ IndexRange >= 2 * RingSize
                     /\ MaxBatch \in 1 .. RingSize
  <1>1. RingSize \in Nat \ {0} /\ IndexRange \in Nat /\ IndexRange % RingSize = 0 /\ IndexRange > RingSize
        /\ MaxBatch \in 1 .. RingSize
    BY RingAssumption
  <1>2. PICK q \in Int : IndexRange = RingSize * q
    BY <1>1, ModForm
  <1>3. q >= 2
    <2>1. SUFFICES ASSUME q <= 1 PROVE FALSE
      BY <1>2
    <2>2. RingSize * q <= RingSize
      BY <1>1, <2>1
    <2> QED
      BY <1>1, <1>2, <2>2
  <1>4. RingSize * q >= 2 * RingSize
    BY <1>1, <1>3
  <1> QED
    BY <1>1, <1>2, <1>4

(* A sum of two indices wraps at most once.                                 *)
LEMMA IdxIs ==
  ASSUME NEW x \in 0 .. 2 * IndexRange - 1
  PROVE  Idx(x) = (IF x < IndexRange THEN x ELSE x - IndexRange) /\ Idx(x) \in Index
  <1>1. IndexRange \in Nat \ {0}
    BY RingNumbers
  <1>2. CASE x < IndexRange
    <2>1. (IndexRange * 0 + x) % IndexRange = x
      BY <1>1, <1>2, ModUnique
    <2> QED
      BY <1>1, <1>2, <2>1 DEF Idx, Index
  <1>3. CASE x >= IndexRange
    <2>1. (IndexRange * 1 + (x - IndexRange)) % IndexRange = x - IndexRange
      BY <1>1, <1>3, ModUnique
    <2> QED
      BY <1>1, <1>3, <2>1 DEF Idx, Index
  <1> QED
    BY <1>1, <1>2, <1>3

(* So does a difference.                                                    *)
LEMMA MinusIs ==
  ASSUME NEW a \in Index, NEW b \in Index
  PROVE  /\ Minus(a, b) = (IF a >= b THEN a - b ELSE a - b + IndexRange)
         /\ Minus(a, b) \in Index
  <1>1. IndexRange \in Nat \ {0}
    BY RingNumbers
  <1>2. a + IndexRange - b \in 0 .. 2 * IndexRange - 1
    BY <1>1 DEF Index
  <1>3. Minus(a, b) = Idx(a + IndexRange - b)
    BY DEF Minus, Idx
  <1> QED
    BY <1>1, <1>2, <1>3, IdxIs DEF Index

(* An index is no distance from itself.                                     *)
LEMMA MinusSelf ==
  ASSUME NEW a \in Index
  PROVE  Minus(a, a) = 0
  <1>1. IndexRange \in Nat \ {0}
    BY RingNumbers
  <1>2. a \in Int
    BY <1>1 DEF Index
  <1>3. Minus(a, a) = (IF a >= a THEN a - a ELSE a - a + IndexRange)
    BY MinusIs
  <1> QED
    BY <1>2, <1>3

(* Advancing an index by k takes it k further from one behind it.           *)
LEMMA AheadAdd ==
  ASSUME NEW a \in Index, NEW b \in Index, NEW k \in Nat, Minus(b, a) + k < IndexRange
  PROVE  Idx(b + k) \in Index /\ Minus(Idx(b + k), a) = Minus(b, a) + k
  <1>1. IndexRange \in Nat \ {0}
    BY RingNumbers
  <1>2. Minus(b, a) = (IF b >= a THEN b - a ELSE b - a + IndexRange)
    BY MinusIs
  <1>3. Idx(b + k) = (IF b + k < IndexRange THEN b + k ELSE b + k - IndexRange) /\ Idx(b + k) \in Index
    BY <1>1, <1>2, IdxIs DEF Index
  <1>4. Minus(Idx(b + k), a) = (IF Idx(b + k) >= a THEN Idx(b + k) - a ELSE Idx(b + k) - a + IndexRange)
    BY <1>3, MinusIs
  <1> QED
    BY <1>1, <1>2, <1>3, <1>4 DEF Index

(* Advancing the index behind by k brings it k closer.                      *)
LEMMA BehindAdd ==
  ASSUME NEW a \in Index, NEW b \in Index, NEW k \in Nat, k <= Minus(b, a)
  PROVE  Idx(a + k) \in Index /\ Minus(b, Idx(a + k)) = Minus(b, a) - k
  <1>1. IndexRange \in Nat \ {0}
    BY RingNumbers
  <1>2. Minus(b, a) = (IF b >= a THEN b - a ELSE b - a + IndexRange)
    BY MinusIs
  <1>3. Idx(a + k) = (IF a + k < IndexRange THEN a + k ELSE a + k - IndexRange) /\ Idx(a + k) \in Index
    BY <1>1, <1>2, IdxIs DEF Index
  <1>4. Minus(b, Idx(a + k)) = (IF b >= Idx(a + k) THEN b - Idx(a + k) ELSE b - Idx(a + k) + IndexRange)
    BY <1>3, MinusIs
  <1> QED
    BY <1>1, <1>2, <1>3, <1>4 DEF Index

(* Distances along the ring add up.                                         *)
LEMMA Between ==
  ASSUME NEW a \in Index, NEW b \in Index, NEW c \in Index, Minus(b, a) <= Minus(c, a)
  PROVE  Minus(c, b) = Minus(c, a) - Minus(b, a)
  <1>1. IndexRange \in Nat \ {0}
    BY RingNumbers
  <1>2. Minus(b, a) = (IF b >= a THEN b - a ELSE b - a + IndexRange)
    BY MinusIs
  <1>3. Minus(c, a) = (IF c >= a THEN c - a ELSE c - a + IndexRange)
    BY MinusIs
  <1>4. Minus(c, b) = (IF c >= b THEN c - b ELSE c - b + IndexRange)
    BY MinusIs
  <1> QED
    BY <1>1, <1>2, <1>3, <1>4 DEF Index

(* The range of the indices is a multiple of the size of the ring, so that  *)
(* the slot of an index does not change when the index wraps.               *)
LEMMA SlotShift ==
  ASSUME NEW x \in Int
  PROVE  (x - IndexRange) % RingSize = x % RingSize
  <1>1. RingSize \in Nat \ {0} /\ IndexRange \in Nat /\ IndexRange % RingSize = 0
    BY RingAssumption
  <1>2. PICK q \in Int : IndexRange = RingSize * q
    BY <1>1, ModForm
  <1>3. PICK p \in Int : x = RingSize * p + (x % RingSize) /\ x % RingSize \in 0 .. RingSize - 1
    BY <1>1, ModForm
  <1>4. x - IndexRange = RingSize * (p - q) + (x % RingSize)
    BY <1>1, <1>2, <1>3
  <1>5. (RingSize * (p - q) + (x % RingSize)) % RingSize = x % RingSize
    <2>1. p - q \in Int
      OBVIOUS
    <2> QED
      BY <1>1, <1>3, <2>1, ModUnique, Zenon
  <1> QED
    BY <1>4, <1>5

(* The slot of an advanced index, counted from an index behind it.          *)
LEMMA SlotFrom ==
  ASSUME NEW a \in Index, NEW b \in Index, NEW k \in 0 .. RingSize
  PROVE  /\ Idx(b + k) % RingSize = (a + (Minus(b, a) + k)) % RingSize
         /\ Idx(b + k) % RingSize \in 0 .. RingSize - 1
  <1>1. IndexRange \in Nat \ {0} /\ RingSize \in Nat \ {0} /\ IndexRange >= 2 * RingSize
    BY RingNumbers
  <1>2. Idx(b + k) = (IF b + k < IndexRange THEN b + k ELSE b + k - IndexRange) /\ Idx(b + k) \in Index
    BY <1>1, IdxIs DEF Index
  <1>3. Minus(b, a) = (IF b >= a THEN b - a ELSE b - a + IndexRange)
    BY MinusIs
  <1> DEFINE x == a + (Minus(b, a) + k)
  <1>4. x \in Int /\ (Idx(b + k) = x \/ Idx(b + k) = x - IndexRange \/ Idx(b + k) = x - IndexRange - IndexRange)
    BY <1>1, <1>2, <1>3 DEF Index
  <1>5. x - IndexRange \in Int
    BY <1>1, <1>4
  <1>6. (x - IndexRange) % RingSize = x % RingSize /\ (x - IndexRange - IndexRange) % RingSize = x % RingSize
    BY <1>4, <1>5, SlotShift
  <1>7. Idx(b + k) % RingSize \in 0 .. RingSize - 1
    <2>1. Idx(b + k) \in Int
      BY <1>2 DEF Index
    <2> QED
      BY <1>1, <2>1, ModForm, Zenon
  <1> HIDE DEF x
  <1>8. Idx(b + k) % RingSize = x % RingSize
    BY <1>4, <1>6
  <1> QED
    BY <1>7, <1>8 DEF x

(* Entries that are less than a ring apart have different slots.            *)
LEMMA SlotsApart ==
  ASSUME NEW a \in Int, NEW i \in Int, NEW j \in Int, i < j, j - i < RingSize
  PROVE  (a + i) % RingSize # (a + j) % RingSize
  <1>1. RingSize \in Nat \ {0}
    BY RingNumbers
  <1>0. a + i \in Int /\ a + j \in Int
    OBVIOUS
  <1>2. PICK p \in Int : a + i = RingSize * p + ((a + i) % RingSize)
    BY <1>1, <1>0, ModForm, Zenon
  <1>3. PICK q \in Int : a + j = RingSize * q + ((a + j) % RingSize)
    BY <1>1, <1>0, ModForm, Zenon
  <1>4. SUFFICES ASSUME (a + i) % RingSize = (a + j) % RingSize PROVE FALSE
    OBVIOUS
  <1>5. (a + i) % RingSize \in Int
    BY <1>1, ModForm
  <1>6. RingSize * (q - p) = j - i
    BY <1>1, <1>2, <1>3, <1>4, <1>5
  <1>7. CASE q - p <= 0
    <2>1. RingSize * (q - p) <= 0
      BY <1>1, <1>7
    <2> QED
      BY <1>6, <2>1
  <1>8. CASE q - p >= 1
    <2>1. RingSize * (q - p) >= RingSize
      BY <1>1, <1>8
    <2> QED
      BY <1>1, <1>6, <2>1
  <1> QED
    BY <1>7, <1>8

(* What is on a ring, entry by entry.                                       *)
LEMMA OnIs ==
  ASSUME NEW r \in RingRecord, Ahead(r, r.producer) <= RingSize
  PROVE  /\ On(r) = [i \in 1 .. Ahead(r, r.producer) |-> Entry(r, i - 1)]
         /\ Ahead(r, r.producer) \in Nat
         /\ DOMAIN On(r) = 1 .. Ahead(r, r.producer)
         /\ \A i \in 1 .. Ahead(r, r.producer) : On(r)[i] = Entry(r, i - 1)
  <1>1. r.producer \in Index /\ r.consumer \in Index
    BY DEF RingRecord
  <1>2. RingSize \in Nat \ {0} /\ IndexRange \in Nat
    BY RingNumbers
  <1>3. Ahead(r, r.producer) \in Nat
    <2>1. Minus(r.producer, r.consumer) \in Index
      BY <1>1, MinusIs
    <2> QED
      BY <2>1, <1>2 DEF Ahead, Index
  <1>4. ASSUME NEW i \in 1 .. Ahead(r, r.producer)
        PROVE  r.slots[Idx(r.consumer + i - 1) % RingSize] = Entry(r, i - 1)
    <2>1. i - 1 \in 0 .. RingSize /\ r.consumer + i - 1 = r.consumer + (i - 1)
      BY <1>1, <1>2, <1>3 DEF Index
    <2>2. Minus(r.consumer, r.consumer) = 0
      BY <1>1, MinusSelf
    <2>3. Idx(r.consumer + (i - 1)) % RingSize = (r.consumer + (0 + (i - 1))) % RingSize
      BY <1>1, <2>1, <2>2, SlotFrom
    <2> QED
      BY <2>1, <2>3, <1>2 DEF Entry
  <1> QED
    BY <1>3, <1>4 DEF On, Ahead

(* Indices equally far from a third are equal.                              *)
LEMMA AheadSame ==
  ASSUME NEW a \in Index, NEW b \in Index, NEW c \in Index, Minus(b, a) = Minus(c, a)
  PROVE  b = c
  <1>1. IndexRange \in Nat \ {0}
    BY RingNumbers
  <1>2. Minus(b, a) = (IF b >= a THEN b - a ELSE b - a + IndexRange)
    BY MinusIs
  <1>3. Minus(c, a) = (IF c >= a THEN c - a ELSE c - a + IndexRange)
    BY MinusIs
  <1>4. a \in Int /\ b \in Int /\ c \in Int /\ b < IndexRange /\ c < IndexRange /\ b >= 0 /\ c >= 0
    BY <1>1 DEF Index
  <1>5. (IF b >= a THEN b - a ELSE b - a + IndexRange) = (IF c >= a THEN c - a ELSE c - a + IndexRange)
    BY <1>2, <1>3
  <1> QED
    BY <1>1, <1>4, <1>5

(* s is u followed by t.                                                    *)
Joined(s, u, t) ==
  \E m, k \in Nat : /\ DOMAIN s = 1 .. m + k /\ DOMAIN u = 1 .. m /\ DOMAIN t = 1 .. k
                    /\ \A i \in 1 .. m : u[i] = s[i]
                    /\ \A i \in 1 .. k : t[i] = s[m + i]
(* The entries of a sequence in two parts, and when none occurs twice.      *)
LEMMA Split ==
  ASSUME NEW s, NEW u, NEW t, Joined(s, u, t)
  PROVE  /\ Entries(s) = Entries(u) \cup Entries(t)
         /\ Once(s) <=> (Once(u) /\ Once(t) /\ Entries(u) \cap Entries(t) = {})
  <1>0. PICK m \in Nat, k \in Nat :
          /\ DOMAIN s = 1 .. m + k /\ DOMAIN u = 1 .. m /\ DOMAIN t = 1 .. k
          /\ \A i \in 1 .. m : u[i] = s[i]
          /\ \A i \in 1 .. k : t[i] = s[m + i]
    BY DEF Joined
  <1>1. \A i \in 1 .. m + k : i \in 1 .. m \/ (i - m \in 1 .. k /\ i = m + (i - m))
    OBVIOUS
  <1>2. \A i \in 1 .. k : m + i \in 1 .. m + k
    OBVIOUS
  <1>3. \A i \in 1 .. m : i \in 1 .. m + k
    OBVIOUS
  <1>4. ASSUME NEW x PROVE x \in Entries(s) <=> (x \in Entries(u) \/ x \in Entries(t))
    <2>1. ASSUME x \in Entries(s) PROVE x \in Entries(u) \/ x \in Entries(t)
      <3>1. PICK i \in 1 .. m + k : x = s[i]
        BY <1>0, <2>1 DEF Entries
      <3>2. CASE i \in 1 .. m
        BY <1>0, <3>1, <3>2 DEF Entries
      <3>3. CASE i - m \in 1 .. k /\ i = m + (i - m)
        BY <1>0, <3>1, <3>3 DEF Entries
      <3> QED
        BY <1>0, <1>1, <3>2, <3>3
    <2>2. ASSUME x \in Entries(u) \/ x \in Entries(t) PROVE x \in Entries(s)
      BY <1>0, <2>2, <1>2, <1>3 DEF Entries
    <2> QED
      BY <1>0, <2>1, <2>2
  <1>5. ASSUME Once(s) PROVE Once(u) /\ Once(t) /\ Entries(u) \cap Entries(t) = {}
    <2>1. Once(u)
      BY <1>0, <1>3, <1>5 DEF Once
    <2>2. Once(t)
      BY <1>0, <1>2, <1>5 DEF Once
    <2>3. ASSUME NEW i \in 1 .. m, NEW j \in 1 .. k PROVE u[i] # t[j]
      <3>1. i \in 1 .. m + k /\ m + j \in 1 .. m + k /\ i # m + j
        OBVIOUS
      <3> QED
        BY <1>0, <3>1, <1>5 DEF Once
    <2>4. \A x : ~(x \in Entries(u) /\ x \in Entries(t))
      BY <1>0, <2>3 DEF Entries
    <2> QED
      BY <1>0, <2>1, <2>2, <2>4
  <1>6. ASSUME Once(u), Once(t), Entries(u) \cap Entries(t) = {} PROVE Once(s)
    <2>1. SUFFICES ASSUME NEW i \in 1 .. m + k, NEW j \in 1 .. m + k, s[i] = s[j] PROVE i = j
      BY <1>0 DEF Once
    <2>2. \A h \in 1 .. m, l \in 1 .. k : u[h] # t[l]
      BY <1>0, <1>6 DEF Entries
    <2>3. CASE i \in 1 .. m /\ j \in 1 .. m
      BY <1>0, <2>1, <2>3, <1>6 DEF Once
    <2>4. CASE i \in 1 .. m /\ j - m \in 1 .. k
      <3>1. j = m + (j - m)
        OBVIOUS
      <3> QED
        BY <1>0, <2>1, <2>4, <2>2, <3>1
    <2>5. CASE i - m \in 1 .. k /\ j \in 1 .. m
      <3>1. i = m + (i - m)
        OBVIOUS
      <3> QED
        BY <1>0, <2>1, <2>5, <2>2, <3>1
    <2>6. CASE i - m \in 1 .. k /\ j - m \in 1 .. k
      <3>1. i = m + (i - m) /\ j = m + (j - m)
        OBVIOUS
      <3>2. t[i - m] = t[j - m]
        BY <1>0, <2>1, <2>6, <3>1
      <3>3. i - m = j - m
        BY <1>0, <2>6, <3>2, <1>6 DEF Once
      <3> QED
        BY <1>0, <3>3
    <2> QED
      BY <1>0, <1>1, <2>3, <2>4, <2>5, <2>6
  <1> QED
    BY <1>0, <1>4, <1>5, <1>6

(* A sequence of one entry, and an empty one.                               *)
LEMMA Alone ==
  ASSUME NEW f
  PROVE  DOMAIN <<f>> = 1 .. 1 /\ <<f>>[1] = f /\ Entries(<<f>>) = {f} /\ Once(<<f>>)
  <1>1. DOMAIN <<f>> = 1 .. 1 /\ <<f>>[1] = f
    OBVIOUS
  <1>2. \A i \in 1 .. 1 : i = 1
    OBVIOUS
  <1>3. 1 \in 1 .. 1
    OBVIOUS
  <1> QED
    BY <1>1, <1>2, <1>3 DEF Entries, Once

(* An empty sequence has no entries.                                        *)
LEMMA Void ==
  ASSUME NEW s, DOMAIN s = 1 .. 0
  PROVE  Entries(s) = {} /\ Once(s)
  BY DEF Entries, Once

(* The types and bounds every step of the rings uses.                       *)
LEMMA RingTypes ==
  ASSUME RingTypeOK, FillOrdered, RecvOrdered
  PROVE  /\ fill.producer \in Index /\ fill.consumer \in Index
         /\ fill.cached_prod \in Index /\ fill.cached_cons \in Index
         /\ recv.producer \in Index /\ recv.consumer \in Index
         /\ recv.cached_prod \in Index /\ recv.cached_cons \in Index
         /\ fill.slots \in [0 .. RingSize - 1 -> Contents] /\ recv.slots \in [0 .. RingSize - 1 -> Contents]
         /\ app.frames \in SUBSET Frames /\ app.at \in Index /\ app.reserved \in Nat /\ app.filling \in Seq(Frames)
         /\ app.reading \in Nat /\ app.got \in Seq(Contents)
         /\ Ahead(fill, fill.producer) \in 0 .. RingSize /\ Ahead(fill, fill.cached_prod) \in 0 .. RingSize
         /\ Ahead(fill, fill.cached_cons) \in 0 .. RingSize
         /\ Ahead(recv, recv.producer) \in 0 .. RingSize /\ Ahead(recv, recv.cached_prod) \in 0 .. RingSize
         /\ Ahead(recv, recv.cached_cons) \in 0 .. RingSize
  <1>1. /\ fill.producer \in Index /\ fill.consumer \in Index
        /\ fill.cached_prod \in Index /\ fill.cached_cons \in Index
        /\ recv.producer \in Index /\ recv.consumer \in Index
        /\ recv.cached_prod \in Index /\ recv.cached_cons \in Index
        /\ fill.slots \in [0 .. RingSize - 1 -> Contents] /\ recv.slots \in [0 .. RingSize - 1 -> Contents]
    BY DEF RingTypeOK, RingRecord
  <1>2. /\ app.frames \in SUBSET Frames /\ app.at \in Index /\ app.reserved \in Nat /\ app.filling \in Seq(Frames)
        /\ app.reading \in Nat /\ app.got \in Seq(Contents)
    BY DEF RingTypeOK, AppRecord
  <1>3. RingSize \in Nat \ {0} /\ IndexRange \in Nat
    BY RingNumbers
  <1>4. /\ Ahead(fill, fill.producer) \in Index /\ Ahead(fill, fill.cached_prod) \in Index
        /\ Ahead(fill, fill.cached_cons) \in Index
        /\ Ahead(recv, recv.producer) \in Index /\ Ahead(recv, recv.cached_prod) \in Index
        /\ Ahead(recv, recv.cached_cons) \in Index
    BY <1>1, MinusIs DEF Ahead
  <1>5. \A x \in Index : x \in Int /\ x >= 0
    BY <1>3 DEF Index
  <1>6. /\ Ahead(fill, fill.producer) \in 0 .. RingSize /\ Ahead(fill, fill.cached_prod) \in 0 .. RingSize
        /\ Ahead(fill, fill.cached_cons) \in 0 .. RingSize
    <2>1. /\ Ahead(fill, fill.producer) \in Int /\ Ahead(fill, fill.producer) >= 0
          /\ Ahead(fill, fill.cached_prod) \in Int /\ Ahead(fill, fill.cached_prod) >= 0
          /\ Ahead(fill, fill.cached_cons) \in Int /\ Ahead(fill, fill.cached_cons) >= 0
      BY <1>4, <1>5
    <2> QED
      BY <1>2, <1>3, <2>1 DEF FillOrdered
  <1>7. /\ Ahead(recv, recv.producer) \in 0 .. RingSize /\ Ahead(recv, recv.cached_prod) \in 0 .. RingSize
        /\ Ahead(recv, recv.cached_cons) \in 0 .. RingSize
    <2>1. /\ Ahead(recv, recv.producer) \in Int /\ Ahead(recv, recv.producer) >= 0
          /\ Ahead(recv, recv.cached_prod) \in Int /\ Ahead(recv, recv.cached_prod) >= 0
          /\ Ahead(recv, recv.cached_cons) \in Int /\ Ahead(recv, recv.cached_cons) >= 0
      BY <1>4, <1>5
    <2> QED
      BY <1>2, <1>3, <2>1 DEF RecvOrdered
  <1> QED
    BY <1>1, <1>2, <1>6, <1>7

(* At first the application has all the frames.                             *)
LEMMA RingInitInv == RingInit => RingInv
  <1> SUFFICES ASSUME RingInit PROVE RingInv
    OBVIOUS
  <1>1. RingSize \in Nat \ {0} /\ IndexRange \in Nat /\ IndexRange >= 2 * RingSize
    BY RingNumbers
  <1>2. 0 \in Index /\ RingSize \in Index /\ 0 \in Contents
    BY <1>1 DEF Index, Contents
  <1>3. /\ fill.producer = 0 /\ fill.consumer = 0 /\ fill.cached_prod = 0 /\ fill.cached_cons = RingSize
        /\ recv.producer = 0 /\ recv.consumer = 0 /\ recv.cached_prod = 0 /\ recv.cached_cons = 0
        /\ app.frames = Frames /\ app.at = 0 /\ app.reserved = 0 /\ app.filling = <<>>
        /\ app.reading = 0 /\ app.got = <<>> /\ kernel = {}
    BY DEF RingInit
  <1>4. RingTypeOK
    BY <1>2 DEF RingInit, RingTypeOK, AppRecord, RingRecord
  <1>5. Minus(0, 0) = 0 /\ Minus(RingSize, 0) = RingSize
    <2>1. Minus(0, 0) = 0
      BY <1>2, MinusIs
    <2>2. Minus(RingSize, 0) = RingSize
      BY <1>1, <1>2, MinusIs
    <2> QED
      BY <2>1, <2>2
  <1>6. Len(app.filling) = 0 /\ Len(app.got) = 0 /\ DOMAIN app.filling = 1 .. 0
    BY <1>3
  <1>7. FillOrdered /\ RecvOrdered
    BY <1>1, <1>3, <1>5 DEF FillOrdered, RecvOrdered, Ahead
  <1>8. FillPrepared /\ RecvRead
    BY <1>3, <1>6 DEF FillPrepared, RecvRead
  <1>9. DOMAIN On(fill) = 1 .. 0 /\ DOMAIN On(recv) = 1 .. 0
    BY <1>3, <1>5 DEF On
  <1>10. FramesApart
    <2>1. Entries(app.filling) = {} /\ Entries(On(fill)) = {} /\ Entries(On(recv)) = {}
          /\ Once(app.filling) /\ Once(On(fill)) /\ Once(On(recv))
      BY <1>6, <1>9, Void
    <2> QED
      BY <1>3, <2>1 DEF FramesApart
  <1> QED
    BY <1>4, <1>7, <1>8, <1>10 DEF RingInv

(* xsk_prod_nb_free changes the cached consumer index only, and leaves it   *)
(* between the reserved entries and the end of the ring.                    *)
LEMMA ProdNbFreeIs ==
  ASSUME RingTypeOK, FillOrdered, RecvOrdered, NEW nb \in 1 .. MaxBatch
  PROVE  LET r == ProdNbFree(fill, nb)
         IN  /\ r \in RingRecord
             /\ r.producer = fill.producer /\ r.consumer = fill.consumer /\ r.slots = fill.slots
             /\ r.cached_prod = fill.cached_prod
             /\ Ahead(fill, fill.cached_prod) <= Ahead(fill, r.cached_cons)
             /\ Ahead(fill, r.cached_cons) \in 0 .. RingSize
  <1>1. RingSize \in Nat \ {0} /\ IndexRange \in Nat /\ IndexRange >= 2 * RingSize
    BY RingNumbers
  <1>2. /\ fill \in RingRecord /\ fill.consumer \in Index
        /\ Ahead(fill, fill.cached_prod) \in 0 .. RingSize /\ Ahead(fill, fill.cached_cons) \in 0 .. RingSize
    BY RingTypes DEF RingTypeOK
  <1>3. Idx(fill.consumer + RingSize) \in Index
        /\ Ahead(fill, Idx(fill.consumer + RingSize)) = RingSize
    <2>1. Minus(fill.consumer, fill.consumer) = 0
      BY <1>2, MinusSelf
    <2> QED
      BY <1>1, <1>2, <2>1, AheadAdd DEF Ahead
  <1>4. CASE ProdNbFree(fill, nb) = fill
    BY <1>2, <1>4 DEF FillOrdered
  <1>5. CASE ProdNbFree(fill, nb) = RefreshCons(fill)
    <2>1. RefreshCons(fill) \in RingRecord
          /\ RefreshCons(fill).producer = fill.producer /\ RefreshCons(fill).consumer = fill.consumer
          /\ RefreshCons(fill).slots = fill.slots /\ RefreshCons(fill).cached_prod = fill.cached_prod
          /\ RefreshCons(fill).cached_cons = Idx(fill.consumer + RingSize)
      BY <1>2, <1>3 DEF RefreshCons, RingRecord
    <2> QED
      BY <1>1, <1>2, <1>3, <1>5, <2>1
  <1> QED
    BY <1>4, <1>5 DEF ProdNbFree

(* What is on a ring depends on its shared indices and slots only.          *)
LEMMA Alike ==
  ASSUME NEW q, NEW r, q.producer = r.producer, q.consumer = r.consumer, q.slots = r.slots
  PROVE  On(q) = On(r) /\ (\A k : Entry(q, k) = Entry(r, k)) /\ (\A i : Ahead(q, i) = Ahead(r, i))
  BY DEF On, Entry, Ahead

(* xsk_ring_prod__reserve.                                                  *)
LEMMA ReserveStep ==
  ASSUME RingInv, NEW nb \in 1 .. MaxBatch, Reserve(nb)
  PROVE  RingInv'
  <1> DEFINE r == ProdNbFree(fill, nb)
             free == Minus(r.cached_cons, r.cached_prod)
  <1>1. RingSize \in Nat \ {0} /\ IndexRange \in Nat /\ IndexRange >= 2 * RingSize /\ nb \in Nat \ {0}
    BY RingNumbers
  <1>2. RingTypeOK /\ FillOrdered /\ FillPrepared /\ RecvOrdered /\ RecvRead /\ FramesApart
    BY DEF RingInv
  <1>3. /\ r \in RingRecord
        /\ r.producer = fill.producer /\ r.consumer = fill.consumer /\ r.slots = fill.slots
        /\ r.cached_prod = fill.cached_prod
        /\ Ahead(fill, fill.cached_prod) <= Ahead(fill, r.cached_cons)
        /\ Ahead(fill, r.cached_cons) \in 0 .. RingSize
    BY <1>2, ProdNbFreeIs
  <1> HIDE DEF r
  <1>4. /\ fill.producer \in Index /\ fill.consumer \in Index /\ fill.cached_prod \in Index
        /\ r.cached_cons \in Index /\ app.reserved = 0 /\ app.reading = 0
        /\ app.frames \in SUBSET Frames /\ app.at \in Index /\ app.filling \in Seq(Frames) /\ app.got \in Seq(Contents)
        /\ Ahead(fill, fill.cached_prod) \in 0 .. RingSize /\ Ahead(fill, fill.producer) \in 0 .. RingSize
        /\ app \in [frames : SUBSET Frames, at : Index, reserved : Nat, filling : Seq(Frames),
                    reading : Nat, got : Seq(Contents)]
        /\ recv' = recv /\ kernel' = kernel
    BY <1>2, <1>3, RingTypes DEF RingTypeOK, AppRecord, RingRecord, Reserve
  <1>5. free = Ahead(fill, r.cached_cons) - Ahead(fill, fill.cached_prod)
    BY <1>3, <1>4, Between DEF Ahead
  <1> HIDE DEF free
  <1>6. /\ fill' \in RingRecord /\ fill'.producer = fill.producer /\ fill'.consumer = fill.consumer
        /\ fill'.slots = fill.slots /\ fill'.cached_cons = r.cached_cons
        /\ app' \in [frames : SUBSET Frames, at : Index, reserved : Nat, filling : Seq(Frames),
                     reading : Nat, got : Seq(Contents)]
        /\ app'.frames = app.frames /\ app'.filling = app.filling /\ app'.reading = 0 /\ app'.got = app.got
        /\ Ahead(fill, fill'.cached_prod) = Ahead(fill, fill.producer) + app'.reserved
        /\ Ahead(fill, fill'.cached_prod) <= Ahead(fill, r.cached_cons)
        /\ app'.reserved > 0 => app'.at = fill.producer
    <2>1. Ahead(fill, fill.cached_prod) = Ahead(fill, fill.producer)
      BY <1>2, <1>4 DEF FillOrdered
    <2>2. fill.cached_prod = fill.producer
      BY <1>4, <2>1, AheadSame DEF Ahead
    <2>3. CASE free < nb
      <3>1. fill' = r /\ app' = app
        BY <2>3 DEF Reserve, r, free
      <3> QED
        BY <3>1, <1>3, <1>4, <2>1
    <2>4. CASE ~(free < nb)
      <3>1. /\ fill' = [r EXCEPT !.cached_prod = Idx(fill.cached_prod + nb)]
            /\ app' = [app EXCEPT !.at = fill.cached_prod, !.reserved = nb]
        BY <2>4, <1>3 DEF Reserve, r, free
      <3>2. Minus(fill.cached_prod, fill.consumer) + nb < IndexRange
        BY <2>4, <1>1, <1>3, <1>4, <1>5 DEF Ahead
      <3>3. Idx(fill.cached_prod + nb) \in Index
            /\ Ahead(fill, Idx(fill.cached_prod + nb)) = Ahead(fill, fill.cached_prod) + nb
        BY <1>1, <1>4, <3>2, AheadAdd DEF Ahead
      <3>4. /\ fill' \in RingRecord /\ fill'.producer = fill.producer /\ fill'.consumer = fill.consumer
            /\ fill'.slots = fill.slots /\ fill'.cached_cons = r.cached_cons
            /\ fill'.cached_prod = Idx(fill.cached_prod + nb)
        BY <1>3, <3>1, <3>3 DEF RingRecord
      <3>5. /\ app' \in [frames : SUBSET Frames, at : Index, reserved : Nat, filling : Seq(Frames),
                         reading : Nat, got : Seq(Contents)]
            /\ app'.frames = app.frames /\ app'.filling = app.filling /\ app'.reading = 0 /\ app'.got = app.got
            /\ app'.reserved = nb /\ app'.at = fill.cached_prod
        BY <1>1, <1>4, <3>1
      <3>6. Ahead(fill, fill.cached_prod) + nb <= Ahead(fill, r.cached_cons)
        BY <2>4, <1>1, <1>3, <1>4, <1>5
      <3> QED
        BY <2>1, <2>2, <3>3, <3>4, <3>5, <3>6
    <2> QED
      BY <2>3, <2>4
  <1>7. RingTypeOK'
    BY <1>2, <1>4, <1>6 DEF RingTypeOK, AppRecord
  <1>8. On(fill') = On(fill) /\ (\A k : Entry(fill', k) = Entry(fill, k)) /\ (\A i : Ahead(fill', i) = Ahead(fill, i))
    BY <1>6, Alike
  <1>9. FillOrdered'
    BY <1>3, <1>6, <1>8 DEF FillOrdered
  <1>10. FillPrepared'
    <2>1. Len(app.filling) = 0
      BY <1>2, <1>4 DEF FillPrepared
    <2>2. app'.reserved >= 0 /\ Len(app'.filling) = 0
      BY <1>6, <2>1
    <2> QED
      BY <2>2 DEF FillPrepared
  <1>11. RecvOrdered' /\ RecvRead'
    BY <1>2, <1>4, <1>6 DEF RecvOrdered, RecvRead
  <1>12. FramesApart'
    BY <1>2, <1>4, <1>6, <1>8 DEF FramesApart
  <1> QED
    BY <1>7, <1>9, <1>10, <1>11, <1>12 DEF RingInv

(* xsk_ring_prod__fill_addr: the slot it writes holds no submitted entry.   *)
LEMMA FillAddrStep ==
  ASSUME RingInv, NEW f \in Frames, FillAddr(f)
  PROVE  RingInv'
  <1> DEFINE n == Len(app.filling)
             p == Ahead(fill, fill.producer)
             at == (fill.consumer + (p + n)) % RingSize
  <1>1. RingSize \in Nat \ {0} /\ IndexRange \in Nat /\ IndexRange >= 2 * RingSize
    BY RingNumbers
  <1>2. RingTypeOK /\ FillOrdered /\ FillPrepared /\ RecvOrdered /\ RecvRead /\ FramesApart
    BY DEF RingInv
  <1>3. /\ fill \in RingRecord /\ fill.producer \in Index /\ fill.consumer \in Index
        /\ fill.slots \in [0 .. RingSize - 1 -> Contents]
        /\ app \in AppRecord /\ app.reserved \in Nat /\ app.filling \in Seq(Frames) /\ app.frames \in SUBSET Frames
        /\ p \in 0 .. RingSize /\ Ahead(fill, fill.cached_prod) \in 0 .. RingSize
        /\ recv' = recv /\ kernel' = kernel /\ n \in Nat /\ n < app.reserved /\ f \in app.frames
        /\ f \in Contents
    BY <1>2, RingTypes DEF RingTypeOK, FillAddr, AppRecord, Frames, Contents
  <1>4. app.at = fill.producer /\ p + app.reserved <= RingSize
    BY <1>2, <1>3 DEF FillOrdered
  <1>5. at \in 0 .. RingSize - 1 /\ Idx(app.at + n) % RingSize = at /\ p + n < RingSize
    <2>1. n \in 0 .. RingSize /\ p + n < RingSize
      BY <1>1, <1>3, <1>4
    <2>2. /\ Idx(fill.producer + n) % RingSize = (fill.consumer + (Minus(fill.producer, fill.consumer) + n)) % RingSize
          /\ Idx(fill.producer + n) % RingSize \in 0 .. RingSize - 1
      BY <1>3, <2>1, SlotFrom
    <2> QED
      BY <1>4, <2>1, <2>2 DEF Ahead
  <1> HIDE DEF at
  <1>6. /\ fill' = [fill EXCEPT !.slots[at] = f]
        /\ app' = [app EXCEPT !.filling = Append(app.filling, f), !.frames = app.frames \ {f}]
    BY <1>5 DEF FillAddr
  <1>7. /\ fill' \in RingRecord /\ fill'.producer = fill.producer /\ fill'.consumer = fill.consumer
        /\ fill'.cached_prod = fill.cached_prod /\ fill'.cached_cons = fill.cached_cons
        /\ fill'.slots = [fill.slots EXCEPT ![at] = f]
    BY <1>3, <1>5, <1>6 DEF RingRecord
  <1>8. /\ app' \in AppRecord /\ app'.frames = app.frames \ {f} /\ app'.at = app.at /\ app'.reserved = app.reserved
        /\ app'.filling = Append(app.filling, f) /\ app'.reading = app.reading /\ app'.got = app.got
    <2>1. Append(app.filling, f) \in Seq(Frames) /\ app.frames \ {f} \in SUBSET Frames
      BY <1>3
    <2> QED
      BY <1>3, <1>6, <2>1 DEF AppRecord
  <1>9. \A i : Ahead(fill', i) = Ahead(fill, i)
    BY <1>7 DEF Ahead
  <1>10. ASSUME NEW k \in 0 .. p + n - 1 PROVE Entry(fill', k) = Entry(fill, k)
    <2>0. p \in Int /\ n \in Int /\ RingSize \in Int /\ p + n < RingSize
      BY <1>1, <1>3, <1>5
    <2>c. fill.consumer \in Int
      BY <1>1, <1>3 DEF Index
    <2> HIDE DEF p, n
    <2>1. k < p + n /\ p + n - k < RingSize /\ k \in Int /\ p + n \in Int /\ fill.consumer \in Int
      BY <2>0, <2>c
    <2>2. (fill.consumer + k) % RingSize # at
      <3> DEFINE c == fill.consumer
                 j == p + n
      <3>1. c \in Int /\ j \in Int /\ k \in Int /\ k < j /\ j - k < RingSize
        BY <2>0, <2>1
      <3> HIDE DEF c, j
      <3>2. (c + k) % RingSize # (c + j) % RingSize
        BY <3>1, SlotsApart
      <3> QED
        BY <3>2 DEF at, c, j
    <2>3. fill.consumer + k \in Int
      BY <2>1
    <2>4. (fill.consumer + k) % RingSize \in 0 .. RingSize - 1
      BY <1>1, <2>3, ModForm, Zenon
    <2> QED
      BY <1>3, <1>7, <2>2, <2>4 DEF Entry
  <1>11. Entry(fill', p + n) = f
    BY <1>3, <1>5, <1>7 DEF Entry, at
  <1>12. RingTypeOK'
    BY <1>2, <1>3, <1>7, <1>8 DEF RingTypeOK, AppRecord
  <1>13. FillOrdered'
    BY <1>2, <1>7, <1>8, <1>9 DEF FillOrdered
  <1>14. Len(app'.filling) = n + 1 /\ (\A i \in 1 .. n : app'.filling[i] = app.filling[i]) /\ app'.filling[n + 1] = f
         /\ DOMAIN app'.filling = 1 .. n + 1 /\ DOMAIN app.filling = 1 .. n
    BY <1>3, <1>8 DEF Frames
  <1>15. FillPrepared'
    <2>1. SUFFICES ASSUME NEW i \in 1 .. n + 1 PROVE Entry(fill', p + i - 1) = app'.filling[i]
      BY <1>3, <1>7, <1>8, <1>9, <1>14 DEF FillPrepared
    <2>2. CASE i \in 1 .. n
      <3>1. p + i - 1 \in 0 .. p + n - 1
        BY <1>3, <2>2
      <3> QED
        BY <1>2, <1>10, <1>14, <2>2, <3>1 DEF FillPrepared
    <2>3. CASE i = n + 1
      <3>1. p + i - 1 = p + n
        BY <1>3, <2>3
      <3> QED
        BY <1>11, <1>14, <2>3, <3>1
    <2> QED
      BY <1>3, <2>2, <2>3
  <1>16. RecvOrdered' /\ RecvRead'
    BY <1>2, <1>3, <1>8, <1>4 DEF RecvOrdered, RecvRead
  <1>17. On(fill') = On(fill)
    <2>1. On(fill) = [i \in 1 .. p |-> Entry(fill, i - 1)]
      BY <1>3, OnIs
    <2>2. On(fill') = [i \in 1 .. p |-> Entry(fill', i - 1)]
      BY <1>3, <1>7, <1>9, OnIs
    <2>3. \A i \in 1 .. p : Entry(fill', i - 1) = Entry(fill, i - 1)
      BY <1>3, <1>10
    <2> QED
      BY <2>1, <2>2, <2>3
  <1>18. FramesApart'
    <2>1. /\ Entries(app'.filling) = Entries(app.filling) \cup Entries(<<f>>)
          /\ Once(app'.filling) <=> (Once(app.filling) /\ Once(<<f>>) /\ Entries(app.filling) \cap Entries(<<f>>) = {})
      <3>1. DOMAIN <<f>> = 1 .. 1 /\ <<f>>[1] = f
        BY Alone
      <3>2. \A i \in 1 .. 1 : i = 1
        OBVIOUS
      <3>3. \A i \in 1 .. 1 : <<f>>[i] = app'.filling[n + i]
        BY <1>14, <3>1, <3>2
      <3>4. Joined(app'.filling, app.filling, <<f>>)
        BY <1>3, <1>14, <3>1, <3>3 DEF Joined
      <3> QED
        BY <3>4, Split
    <2>2. Entries(<<f>>) = {f} /\ Once(<<f>>)
      BY Alone
    <2> QED
      BY <1>2, <1>3, <1>8, <1>17, <2>1, <2>2 DEF FramesApart
  <1> QED
    BY <1>12, <1>13, <1>15, <1>16, <1>18 DEF RingInv

(* xsk_ring_prod__submit: the prepared frames go on the ring.               *)
LEMMA SubmitStep ==
  ASSUME RingInv, Submit
  PROVE  RingInv'
  <1> DEFINE n == Len(app.filling)
             p == Ahead(fill, fill.producer)
  <1>1. RingSize \in Nat \ {0} /\ IndexRange \in Nat /\ IndexRange >= 2 * RingSize
    BY RingNumbers
  <1>2. RingTypeOK /\ FillOrdered /\ FillPrepared /\ RecvOrdered /\ RecvRead /\ FramesApart
    BY DEF RingInv
  <1>3. /\ fill \in RingRecord /\ fill.producer \in Index /\ fill.consumer \in Index
        /\ app \in AppRecord /\ app.reserved \in Nat /\ app.filling \in Seq(Frames)
        /\ p \in 0 .. RingSize /\ Ahead(fill, fill.cached_prod) \in 0 .. RingSize
        /\ recv' = recv /\ kernel' = kernel /\ n \in Nat /\ n = app.reserved
        /\ fill' = [fill EXCEPT !.producer = Idx(fill.producer + n)]
        /\ app' = [app EXCEPT !.reserved = 0, !.filling = <<>>]
    BY <1>2, RingTypes DEF RingTypeOK, Submit, AppRecord
  <1>4. p + n <= RingSize /\ Ahead(fill, fill.cached_prod) = p + n
    BY <1>2, <1>3 DEF FillOrdered
  <1>5. Idx(fill.producer + n) \in Index /\ Ahead(fill, Idx(fill.producer + n)) = p + n
    <2>1. Minus(fill.producer, fill.consumer) + n < IndexRange
      BY <1>1, <1>3, <1>4 DEF Ahead
    <2> QED
      BY <1>3, <2>1, AheadAdd DEF Ahead
  <1>6. /\ fill' \in RingRecord /\ fill'.producer = Idx(fill.producer + n) /\ fill'.consumer = fill.consumer
        /\ fill'.cached_prod = fill.cached_prod /\ fill'.cached_cons = fill.cached_cons
        /\ fill'.slots = fill.slots
    BY <1>3, <1>5 DEF RingRecord
  <1>7. /\ app' \in AppRecord /\ app'.frames = app.frames /\ app'.at = app.at /\ app'.reserved = 0
        /\ app'.filling = <<>> /\ app'.reading = app.reading /\ app'.got = app.got
    <2>1. <<>> \in Seq(Frames)
      OBVIOUS
    <2> QED
      BY <1>3, <2>1 DEF AppRecord
  <1>8. (\A i : Ahead(fill', i) = Ahead(fill, i)) /\ (\A k : Entry(fill', k) = Entry(fill, k))
    BY <1>6 DEF Ahead, Entry
  <1>9. RingTypeOK'
    BY <1>2, <1>3, <1>6, <1>7 DEF RingTypeOK, AppRecord
  <1>10. FillOrdered'
    BY <1>2, <1>3, <1>4, <1>5, <1>6, <1>7, <1>8 DEF FillOrdered
  <1>11. Len(app'.filling) = 0 /\ DOMAIN app'.filling = 1 .. 0 /\ DOMAIN app.filling = 1 .. n
    BY <1>3, <1>7
  <1>12. FillPrepared'
    BY <1>7, <1>11 DEF FillPrepared
  <1>13. RecvOrdered' /\ RecvRead'
    BY <1>2, <1>3, <1>7 DEF RecvOrdered, RecvRead
  <1>14. FramesApart'
    <2>1. DOMAIN On(fill) = 1 .. p /\ \A i \in 1 .. p : On(fill)[i] = Entry(fill, i - 1)
      BY <1>3, OnIs
    <2>2. DOMAIN On(fill') = 1 .. p + n /\ \A i \in 1 .. p + n : On(fill')[i] = Entry(fill, i - 1)
      <3>1. Ahead(fill', fill'.producer) = p + n
        BY <1>5, <1>6, <1>8
      <3> HIDE DEF p, n
      <3> QED
        BY <1>4, <1>6, <1>8, <3>1, OnIs
    <2>a. \A i \in 1 .. p : i \in 1 .. p + n
      BY <1>3
    <2>3. \A i \in 1 .. p : On(fill)[i] = On(fill')[i]
      BY <2>1, <2>2, <2>a
    <2>4. ASSUME NEW i \in 1 .. n PROVE app.filling[i] = On(fill')[p + i]
      <3>1. p + i \in 1 .. p + n /\ (p + i) - 1 = p + i - 1
        BY <1>3
      <3> QED
        BY <1>2, <2>2, <3>1 DEF FillPrepared
    <2>5. p \in Nat /\ n \in Nat
      BY <1>3
    <2> HIDE DEF p, n
    <2>6. Joined(On(fill'), On(fill), app.filling)
      BY <1>11, <2>1, <2>2, <2>3, <2>4, <2>5 DEF Joined
    <2>8. /\ Entries(On(fill')) = Entries(On(fill)) \cup Entries(app.filling)
          /\ Once(On(fill')) <=> (Once(On(fill)) /\ Once(app.filling) /\ Entries(On(fill)) \cap Entries(app.filling) = {})
      BY <2>6, Split
    <2>9. Entries(app'.filling) = {} /\ Once(app'.filling)
      BY <1>11, Void
    <2> QED
      BY <1>2, <1>3, <1>7, <2>8, <2>9 DEF FramesApart
  <1> QED
    BY <1>9, <1>10, <1>12, <1>13, <1>14 DEF RingInv

(* The kernel takes the oldest frame off the fill ring.                     *)
LEMMA KernelTakeStep ==
  ASSUME RingInv, KernelTake
  PROVE  RingInv'
  <1> DEFINE p == Ahead(fill, fill.producer)
             x == fill.slots[fill.consumer % RingSize]
  <1>1. RingSize \in Nat \ {0} /\ IndexRange \in Nat /\ IndexRange >= 2 * RingSize
    BY RingNumbers
  <1>2. RingTypeOK /\ FillOrdered /\ FillPrepared /\ RecvOrdered /\ RecvRead /\ FramesApart
    BY DEF RingInv
  <1>3. /\ fill \in RingRecord /\ fill.producer \in Index /\ fill.consumer \in Index
        /\ fill.cached_prod \in Index /\ fill.cached_cons \in Index
        /\ app.reserved \in Nat /\ app.filling \in Seq(Frames)
        /\ p \in 0 .. RingSize /\ Ahead(fill, fill.cached_prod) \in 0 .. RingSize
        /\ Ahead(fill, fill.cached_cons) \in 0 .. RingSize
        /\ recv' = recv /\ app' = app /\ fill.consumer # fill.producer
        /\ kernel' = kernel \cup {x}
        /\ fill' = [fill EXCEPT !.consumer = Idx(fill.consumer + 1)]
    BY <1>2, RingTypes DEF RingTypeOK, KernelTake
  <1>4. p >= 1
    <2>1. Minus(fill.consumer, fill.consumer) = 0
      BY <1>3, MinusSelf
    <2>2. Minus(fill.producer, fill.consumer) # 0
      BY <1>3, <2>1, AheadSame
    <2> QED
      BY <1>3, <2>2 DEF Ahead
  <1>5. Ahead(fill, fill.cached_prod) >= 1 /\ Ahead(fill, fill.cached_cons) >= 1
    BY <1>2, <1>3, <1>4 DEF FillOrdered
  <1>6. /\ Idx(fill.consumer + 1) \in Index
        /\ Minus(fill.producer, Idx(fill.consumer + 1)) = p - 1
        /\ Minus(fill.cached_prod, Idx(fill.consumer + 1)) = Ahead(fill, fill.cached_prod) - 1
        /\ Minus(fill.cached_cons, Idx(fill.consumer + 1)) = Ahead(fill, fill.cached_cons) - 1
    BY <1>3, <1>4, <1>5, BehindAdd DEF Ahead
  <1>7. /\ fill' \in RingRecord /\ fill'.producer = fill.producer /\ fill'.consumer = Idx(fill.consumer + 1)
        /\ fill'.cached_prod = fill.cached_prod /\ fill'.cached_cons = fill.cached_cons
        /\ fill'.slots = fill.slots
    BY <1>3, <1>6 DEF RingRecord
  <1>8. /\ Ahead(fill', fill'.producer) = p - 1
        /\ Ahead(fill', fill'.cached_prod) = Ahead(fill, fill.cached_prod) - 1
        /\ Ahead(fill', fill'.cached_cons) = Ahead(fill, fill.cached_cons) - 1
    BY <1>6, <1>7 DEF Ahead
  <1>9. ASSUME NEW k \in Nat PROVE Entry(fill', k) = Entry(fill, k + 1)
    <2>1. fill.consumer \in Int
      BY <1>1, <1>3 DEF Index
    <2>2. Idx(fill.consumer + 1) = fill.consumer + 1 \/ Idx(fill.consumer + 1) = fill.consumer + 1 - IndexRange
      <3>1. fill.consumer + 1 \in 0 .. 2 * IndexRange - 1
        <4> DEFINE c == fill.consumer
        <4>1. c \in 0 .. IndexRange - 1
          BY <1>3 DEF Index
        <4> HIDE DEF c
        <4>2. c + 1 \in 0 .. 2 * IndexRange - 1
          BY <1>1, <4>1
        <4> QED
          BY <4>2 DEF c
      <3>2. Idx(fill.consumer + 1) = fill.consumer + 1 \/ Idx(fill.consumer + 1) = (fill.consumer + 1) - IndexRange
        BY <3>1, IdxIs
      <3> QED
        BY <1>1, <2>1, <3>2
    <2>3. fill.consumer + (k + 1) \in Int
      BY <2>1
    <2>4. (fill.consumer + (k + 1) - IndexRange) % RingSize = (fill.consumer + (k + 1)) % RingSize
      <3> DEFINE y == fill.consumer + (k + 1)
      <3>1. (y - IndexRange) % RingSize = y % RingSize
        <4>1. y \in Int
          BY <2>3
        <4> HIDE DEF y
        <4> QED
          BY <4>1, SlotShift
      <3>2. y - IndexRange = fill.consumer + (k + 1) - IndexRange
        BY <1>1, <2>1
      <3> QED
        BY <3>1, <3>2
    <2>5. Idx(fill.consumer + 1) + k = fill.consumer + (k + 1)
          \/ Idx(fill.consumer + 1) + k = fill.consumer + (k + 1) - IndexRange
      BY <1>1, <2>1, <2>2
    <2>6. (Idx(fill.consumer + 1) + k) % RingSize = (fill.consumer + (k + 1)) % RingSize
      BY <2>4, <2>5
    <2> QED
      BY <1>7, <2>6 DEF Entry
  <1>10. x = Entry(fill, 0)
    BY <1>1, <1>3 DEF Entry, Index
  <1>11. DOMAIN On(fill) = 1 .. p /\ \A i \in 1 .. p : On(fill)[i] = Entry(fill, i - 1)
    BY <1>3, OnIs
  <1>12. DOMAIN On(fill') = 1 .. p - 1 /\ \A i \in 1 .. p - 1 : On(fill')[i] = Entry(fill', i - 1)
    <2>1. Ahead(fill', fill'.producer) <= RingSize
      BY <1>1, <1>3, <1>8
    <2> QED
      BY <1>7, <1>8, <2>1, OnIs
  <1>13. Joined(On(fill), <<x>>, On(fill'))
    <2>1. DOMAIN <<x>> = 1 .. 1 /\ <<x>>[1] = x
      BY Alone
    <2>2. \A i \in 1 .. 1 : <<x>>[i] = On(fill)[i]
      <3>1. \A i \in 1 .. 1 : i = 1 /\ i \in 1 .. p
        BY <1>3, <1>4
      <3>2. On(fill)[1] = Entry(fill, 0)
        BY <1>3, <1>4, <1>11
      <3> QED
        BY <1>10, <2>1, <3>1, <3>2
    <2>3. ASSUME NEW i \in 1 .. p - 1 PROVE On(fill')[i] = On(fill)[1 + i]
      <3>1. i - 1 \in Nat /\ 1 + i \in 1 .. p /\ (i - 1) + 1 = i /\ (1 + i) - 1 = i
        BY <1>3
      <3>2. On(fill')[i] = Entry(fill, (i - 1) + 1)
        BY <1>9, <1>12, <3>1
      <3>3. On(fill)[1 + i] = Entry(fill, (1 + i) - 1)
        BY <1>11, <3>1
      <3> QED
        BY <3>1, <3>2, <3>3
    <2>4. p - 1 \in Nat /\ 1 + (p - 1) = p /\ 1 \in Nat
      BY <1>3, <1>4
    <2> HIDE DEF p, x
    <2> QED
      BY <1>11, <1>12, <2>1, <2>2, <2>3, <2>4 DEF Joined
  <1>14. /\ Entries(On(fill)) = {x} \cup Entries(On(fill'))
         /\ Once(On(fill')) /\ {x} \cap Entries(On(fill')) = {}
    <2>1. Entries(<<x>>) = {x}
      BY Alone
    <2>2. Once(On(fill))
      BY <1>2 DEF FramesApart
    <2> HIDE DEF x
    <2> QED
      BY <1>13, <2>1, <2>2, Split
  <1> HIDE DEF x
  <1>15. x \in Frames
    BY <1>2, <1>14 DEF FramesApart
  <1>16. RingTypeOK'
    BY <1>2, <1>3, <1>7, <1>15 DEF RingTypeOK
  <1>17. FillOrdered'
    <2>1. /\ Ahead(fill, fill.cached_prod) = p + app.reserved
          /\ Ahead(fill, fill.cached_prod) <= Ahead(fill, fill.cached_cons)
          /\ Ahead(fill, fill.cached_cons) <= RingSize
          /\ app.reserved > 0 => app.at = fill.producer
      BY <1>2 DEF FillOrdered
    <2>2. /\ Ahead(fill', fill'.cached_prod) = (p - 1) + app.reserved
          /\ Ahead(fill', fill'.cached_prod) <= Ahead(fill', fill'.cached_cons)
          /\ Ahead(fill', fill'.cached_cons) <= RingSize
      <3>1. /\ p \in Int /\ app.reserved \in Int /\ RingSize \in Int
            /\ Ahead(fill, fill.cached_prod) \in Int /\ Ahead(fill, fill.cached_cons) \in Int
        BY <1>1, <1>3
      <3> HIDE DEF p
      <3>2. Ahead(fill, fill.cached_prod) - 1 = (p - 1) + app.reserved
        BY <2>1, <3>1
      <3>3. Ahead(fill, fill.cached_prod) - 1 <= Ahead(fill, fill.cached_cons) - 1
            /\ Ahead(fill, fill.cached_cons) - 1 <= RingSize
        BY <2>1, <3>1
      <3> QED
        BY <1>8, <3>2, <3>3
    <2> QED
      BY <2>1, <2>2, <1>3, <1>7, <1>8 DEF FillOrdered
  <1>18. FillPrepared'
    <2>1. SUFFICES ASSUME NEW i \in 1 .. Len(app.filling)
                   PROVE  Entry(fill', (p - 1) + i - 1) = app.filling[i]
      BY <1>2, <1>3, <1>8 DEF FillPrepared
    <2>2. Len(app.filling) \in Nat
      BY <1>3
    <2>3. (p - 1) + i - 1 \in Nat /\ ((p - 1) + i - 1) + 1 = p + i - 1
      BY <1>3, <1>4, <2>2
    <2>4. Entry(fill, p + i - 1) = app.filling[i]
      BY <1>2 DEF FillPrepared
    <2> QED
      BY <1>9, <2>3, <2>4
  <1>19. RecvOrdered' /\ RecvRead'
    BY <1>2, <1>3 DEF RecvOrdered, RecvRead
  <1>20. FramesApart'
    BY <1>2, <1>3, <1>14 DEF FramesApart
  <1> QED
    BY <1>16, <1>17, <1>18, <1>19, <1>20 DEF RingInv

(* The kernel puts a frame on the receive ring.                             *)
LEMMA KernelReceiveStep ==
  ASSUME RingInv, NEW f \in Frames, KernelReceive(f)
  PROVE  RingInv'
  <1> DEFINE p == Ahead(recv, recv.producer)
             at == (recv.consumer + p) % RingSize
  <1>1. RingSize \in Nat \ {0} /\ IndexRange \in Nat /\ IndexRange >= 2 * RingSize
    BY RingNumbers
  <1>2. RingTypeOK /\ FillOrdered /\ FillPrepared /\ RecvOrdered /\ RecvRead /\ FramesApart
    BY DEF RingInv
  <1>3. /\ recv \in RingRecord /\ recv.producer \in Index /\ recv.consumer \in Index
        /\ recv.slots \in [0 .. RingSize - 1 -> Contents]
        /\ app.reading \in Nat /\ app.got \in Seq(Contents)
        /\ p \in 0 .. RingSize /\ Ahead(recv, recv.cached_prod) \in 0 .. RingSize
        /\ fill' = fill /\ app' = app /\ kernel' = kernel \ {f} /\ f \in kernel /\ p < RingSize
        /\ f \in Contents
    BY <1>2, RingTypes DEF RingTypeOK, KernelReceive, Frames, Contents, Ahead
  <1>4. at \in 0 .. RingSize - 1 /\ recv.producer % RingSize = at
    <2>1. /\ Idx(recv.producer + 0) % RingSize = (recv.consumer + (Minus(recv.producer, recv.consumer) + 0)) % RingSize
          /\ Idx(recv.producer + 0) % RingSize \in 0 .. RingSize - 1
      <3>1. 0 \in 0 .. RingSize
        BY <1>1
      <3> QED
        BY <1>3, <3>1, SlotFrom, Zenon
    <2>2. Idx(recv.producer + 0) = recv.producer
      BY <1>1, <1>3, IdxIs DEF Index
    <2>3. Minus(recv.producer, recv.consumer) + 0 = p
      BY <1>3 DEF Ahead
    <2> QED
      BY <2>1, <2>2, <2>3
  <1> HIDE DEF at
  <1>5. Idx(recv.producer + 1) \in Index /\ Minus(Idx(recv.producer + 1), recv.consumer) = p + 1
    <2>1. Minus(recv.producer, recv.consumer) + 1 < IndexRange
      BY <1>1, <1>3 DEF Ahead
    <2> QED
      BY <1>3, <2>1, AheadAdd DEF Ahead
  <1>6. /\ recv' \in RingRecord /\ recv'.producer = Idx(recv.producer + 1) /\ recv'.consumer = recv.consumer
        /\ recv'.cached_prod = recv.cached_prod /\ recv'.cached_cons = recv.cached_cons
        /\ recv'.slots = [recv.slots EXCEPT ![at] = f]
    <2>1. recv' = [recv EXCEPT !.slots[at] = f, !.producer = Idx(recv.producer + 1)]
      BY <1>4 DEF KernelReceive
    <2> QED
      BY <1>3, <1>4, <1>5, <2>1 DEF RingRecord
  <1>7. (\A i : Ahead(recv', i) = Ahead(recv, i)) /\ Ahead(recv', recv'.producer) = p + 1
    BY <1>5, <1>6 DEF Ahead
  <1>8. ASSUME NEW k \in 0 .. p - 1 PROVE Entry(recv', k) = Entry(recv, k)
    <2>1. recv.consumer \in Int
      BY <1>1, <1>3 DEF Index
    <2>2. k \in Int /\ p \in Int /\ k < p /\ p - k < RingSize
      BY <1>1, <1>3
    <2>3. (recv.consumer + k) % RingSize # at
      <3> DEFINE c == recv.consumer
      <3>1. c \in Int
        BY <2>1
      <3> HIDE DEF c, p
      <3>2. (c + k) % RingSize # (c + p) % RingSize
        BY <2>2, <3>1, SlotsApart
      <3> QED
        BY <3>2 DEF at, c
    <2>4. recv.consumer + k \in Int
      BY <2>1, <2>2
    <2>5. (recv.consumer + k) % RingSize \in 0 .. RingSize - 1
      BY <1>1, <2>4, ModForm, Zenon
    <2> QED
      BY <1>3, <1>6, <2>3, <2>5 DEF Entry
  <1>9. Entry(recv', p) = f
    BY <1>3, <1>4, <1>6 DEF Entry, at
  <1>10. RingTypeOK'
    BY <1>2, <1>3, <1>6 DEF RingTypeOK
  <1>11. RecvOrdered'
    BY <1>1, <1>2, <1>3, <1>6, <1>7 DEF RecvOrdered
  <1>12. RecvRead'
    <2>1. app.reading <= p
      BY <1>2, <1>3 DEF RecvOrdered
    <2>2. Len(app.got) \in Nat /\ Len(app.got) <= app.reading
      BY <1>2, <1>3 DEF RecvRead
    <2>3. SUFFICES ASSUME NEW i \in 1 .. Len(app.got) PROVE app.got[i] = Entry(recv', i - 1)
      BY <1>3, <2>2 DEF RecvRead
    <2>4. i - 1 \in 0 .. p - 1
      BY <1>3, <2>1, <2>2
    <2>5. app.got[i] = Entry(recv, i - 1)
      BY <1>2 DEF RecvRead
    <2> QED
      BY <1>8, <2>4, <2>5
  <1>13. DOMAIN On(recv) = 1 .. p /\ \A i \in 1 .. p : On(recv)[i] = Entry(recv, i - 1)
    BY <1>3, OnIs
  <1>14. DOMAIN On(recv') = 1 .. p + 1 /\ \A i \in 1 .. p + 1 : On(recv')[i] = Entry(recv', i - 1)
    <2>1. p + 1 <= RingSize
      BY <1>1, <1>3
    <2> HIDE DEF p
    <2> QED
      BY <1>6, <1>7, <2>1, OnIs
  <1>15. Joined(On(recv'), On(recv), <<f>>)
    <2>1. DOMAIN <<f>> = 1 .. 1 /\ <<f>>[1] = f
      BY Alone
    <2>2. \A i \in 1 .. 1 : <<f>>[i] = On(recv')[p + i]
      <3>1. \A i \in 1 .. 1 : i = 1
        OBVIOUS
      <3>2. On(recv')[p + 1] = Entry(recv', (p + 1) - 1) /\ (p + 1) - 1 = p
        BY <1>3, <1>14
      <3> QED
        BY <1>9, <2>1, <3>1, <3>2
    <2>3. ASSUME NEW i \in 1 .. p PROVE On(recv)[i] = On(recv')[i]
      <3>1. i - 1 \in 0 .. p - 1 /\ i \in 1 .. p + 1
        BY <1>3
      <3> QED
        BY <1>8, <1>13, <1>14, <3>1
    <2>4. p \in Nat /\ 1 \in Nat
      BY <1>3
    <2> HIDE DEF p
    <2> QED
      BY <1>13, <1>14, <2>1, <2>2, <2>3, <2>4 DEF Joined
  <1>16. /\ Entries(On(recv')) = Entries(On(recv)) \cup {f}
         /\ Once(On(recv')) <=> (Once(On(recv)) /\ Entries(On(recv)) \cap {f} = {})
    BY <1>15, Split, Alone
  <1>17. FramesApart'
    BY <1>2, <1>3, <1>16 DEF FramesApart
  <1>18. FillOrdered' /\ FillPrepared'
    BY <1>2, <1>3 DEF FillOrdered, FillPrepared
  <1> QED
    BY <1>10, <1>11, <1>12, <1>17, <1>18 DEF RingInv

(* xsk_ring_cons__peek.                                                     *)
LEMMA PeekStep ==
  ASSUME RingInv, NEW nb \in 1 .. MaxBatch, Peek(nb)
  PROVE  RingInv'
  <1> DEFINE r == ConsNbAvail(recv)
             avail == Minus(r.cached_prod, r.cached_cons)
             n == IF avail > nb THEN nb ELSE avail
  <1>1. RingSize \in Nat \ {0} /\ IndexRange \in Nat /\ IndexRange >= 2 * RingSize /\ nb \in Nat \ {0}
    BY RingNumbers
  <1>2. RingTypeOK /\ FillOrdered /\ FillPrepared /\ RecvOrdered /\ RecvRead /\ FramesApart
    BY DEF RingInv
  <1>3. /\ recv \in RingRecord /\ recv.producer \in Index /\ recv.consumer \in Index
        /\ recv.cached_prod \in Index /\ recv.cached_cons \in Index
        /\ app \in AppRecord /\ app.reserved = 0 /\ app.reading = 0 /\ app.at \in Index /\ app.got \in Seq(Contents)
        /\ Ahead(recv, recv.producer) \in 0 .. RingSize /\ Ahead(recv, recv.cached_prod) \in 0 .. RingSize
        /\ fill' = fill /\ kernel' = kernel
    BY <1>2, RingTypes DEF RingTypeOK, Peek, AppRecord
  <1>4. Ahead(recv, recv.cached_cons) = 0 /\ recv.cached_cons = recv.consumer
    <2>1. Ahead(recv, recv.cached_cons) = 0
      BY <1>2, <1>3 DEF RecvOrdered
    <2>2. Minus(recv.consumer, recv.consumer) = 0
      BY <1>3, MinusSelf
    <2> QED
      BY <1>3, <2>1, <2>2, AheadSame DEF Ahead
  <1>5. /\ r \in RingRecord /\ r.producer = recv.producer /\ r.consumer = recv.consumer /\ r.slots = recv.slots
        /\ r.cached_cons = recv.consumer /\ r.cached_prod \in Index
        /\ Ahead(recv, r.cached_prod) \in 0 .. RingSize /\ Ahead(recv, r.cached_prod) <= Ahead(recv, recv.producer)
    <2>1. CASE r = recv
      BY <1>2, <1>3, <1>4, <2>1 DEF RecvOrdered
    <2>2. CASE r = [recv EXCEPT !.cached_prod = recv.producer]
      <3>1. /\ r \in RingRecord /\ r.producer = recv.producer /\ r.consumer = recv.consumer /\ r.slots = recv.slots
            /\ r.cached_cons = recv.cached_cons /\ r.cached_prod = recv.producer
        BY <1>3, <2>2 DEF RingRecord
      <3> HIDE DEF r
      <3> QED
        BY <1>1, <1>3, <1>4, <3>1
    <2> QED
      BY <2>1, <2>2 DEF ConsNbAvail
  <1> HIDE DEF r
  <1>6. avail = Ahead(recv, r.cached_prod) /\ n \in 0 .. RingSize /\ n <= Ahead(recv, r.cached_prod)
    <2>1. avail = Ahead(recv, r.cached_prod)
      BY <1>5 DEF Ahead
    <2> HIDE DEF avail
    <2> QED
      BY <1>1, <1>5, <2>1
  <1>7. /\ recv' = [r EXCEPT !.cached_cons = Idx(recv.consumer + n)]
        /\ app' = [app EXCEPT !.at = IF n = 0 THEN app.at ELSE recv.consumer, !.reading = n]
    BY <1>5 DEF Peek, r
  <1> HIDE DEF n, avail
  <1>8. Idx(recv.consumer + n) \in Index /\ Minus(Idx(recv.consumer + n), recv.consumer) = n
    <2>1. Minus(recv.consumer, recv.consumer) = 0
      BY <1>4 DEF Ahead
    <2>2. n \in Nat /\ 0 + n < IndexRange /\ 0 + n = n
      BY <1>1, <1>6
    <2> QED
      BY <1>3, <2>1, <2>2, AheadAdd
  <1>9. /\ recv' \in RingRecord /\ recv'.producer = recv.producer /\ recv'.consumer = recv.consumer
        /\ recv'.slots = recv.slots /\ recv'.cached_prod = r.cached_prod
        /\ recv'.cached_cons = Idx(recv.consumer + n)
    BY <1>5, <1>7, <1>8 DEF RingRecord
  <1>10. /\ app' \in AppRecord /\ app'.frames = app.frames /\ app'.reserved = 0 /\ app'.filling = app.filling
         /\ app'.reading = n /\ app'.got = app.got /\ (n > 0 => app'.at = recv.consumer)
    <2>1. n \in Nat /\ (n > 0 => n # 0)
      BY <1>6
    <2> QED
      BY <1>3, <1>7, <2>1 DEF AppRecord
  <1>11. RingTypeOK'
    BY <1>2, <1>3, <1>9, <1>10 DEF RingTypeOK, AppRecord
  <1>12. On(recv') = On(recv) /\ (\A k : Entry(recv', k) = Entry(recv, k)) /\ (\A i : Ahead(recv', i) = Ahead(recv, i))
    BY <1>9, Alike
  <1>13. RecvOrdered'
    <2>1. Ahead(recv, recv'.cached_cons) = n /\ n <= Ahead(recv, recv'.cached_prod)
          /\ Ahead(recv, recv'.cached_prod) <= Ahead(recv, recv'.producer) /\ Ahead(recv, recv'.producer) <= RingSize
      BY <1>3, <1>5, <1>6, <1>8, <1>9 DEF Ahead
    <2> QED
      BY <1>9, <1>10, <1>12, <2>1 DEF RecvOrdered
  <1>14. RecvRead'
    <2>1. Len(app.got) = 0
      BY <1>2, <1>3 DEF RecvRead
    <2>2. Len(app'.got) = 0 /\ app'.reading >= 0
      BY <1>6, <1>10, <2>1
    <2> QED
      BY <2>2 DEF RecvRead
  <1>15. FillOrdered' /\ FillPrepared'
    BY <1>2, <1>3, <1>10 DEF FillOrdered, FillPrepared
  <1>16. FramesApart'
    BY <1>2, <1>3, <1>10, <1>12 DEF FramesApart
  <1> QED
    BY <1>11, <1>13, <1>14, <1>15, <1>16 DEF RingInv

(* xsk_ring_cons__rx_desc.                                                  *)
LEMMA RxDescStep ==
  ASSUME RingInv, RxDesc
  PROVE  RingInv'
  <1> DEFINE n == Len(app.got)
             x == recv.slots[Idx(app.at + n) % RingSize]
  <1>1. RingSize \in Nat \ {0} /\ IndexRange \in Nat /\ IndexRange >= 2 * RingSize
    BY RingNumbers
  <1>2. RingTypeOK /\ FillOrdered /\ FillPrepared /\ RecvOrdered /\ RecvRead /\ FramesApart
    BY DEF RingInv
  <1>3. /\ recv.consumer \in Index /\ recv.slots \in [0 .. RingSize - 1 -> Contents]
        /\ app \in AppRecord /\ app.reading \in Nat /\ app.got \in Seq(Contents) /\ n \in Nat /\ n < app.reading
        /\ Ahead(recv, recv.cached_cons) \in 0 .. RingSize
        /\ fill' = fill /\ recv' = recv /\ kernel' = kernel /\ app' = [app EXCEPT !.got = Append(app.got, x)]
    BY <1>2, RingTypes DEF RingTypeOK, RxDesc, AppRecord
  <1>4. app.at = recv.consumer /\ n \in 0 .. RingSize
    BY <1>1, <1>2, <1>3 DEF RecvOrdered
  <1>5. x = Entry(recv, n) /\ x \in Contents
    <2>1. Minus(recv.consumer, recv.consumer) = 0
      BY <1>3, MinusSelf
    <2>2. /\ Idx(recv.consumer + n) % RingSize = (recv.consumer + (Minus(recv.consumer, recv.consumer) + n)) % RingSize
          /\ Idx(recv.consumer + n) % RingSize \in 0 .. RingSize - 1
      BY <1>3, <1>4, SlotFrom, Zenon
    <2>3. 0 + n = n
      BY <1>3
    <2> QED
      BY <1>3, <1>4, <2>1, <2>2, <2>3 DEF Entry
  <1> HIDE DEF x
  <1>6. /\ app' \in AppRecord /\ app'.frames = app.frames /\ app'.at = app.at /\ app'.reserved = app.reserved
        /\ app'.filling = app.filling /\ app'.reading = app.reading /\ app'.got = Append(app.got, x)
    <2>1. Append(app.got, x) \in Seq(Contents)
      BY <1>3, <1>5
    <2> QED
      BY <1>3, <2>1 DEF AppRecord
  <1>7. Len(app'.got) = n + 1 /\ (\A i \in 1 .. n : app'.got[i] = app.got[i]) /\ app'.got[n + 1] = x
    BY <1>3, <1>5, <1>6
  <1>8. RecvRead'
    <2>1. SUFFICES ASSUME NEW i \in 1 .. n + 1 PROVE app'.got[i] = Entry(recv, i - 1)
      BY <1>3, <1>6, <1>7 DEF RecvRead
    <2>2. CASE i \in 1 .. n
      BY <1>2, <1>7, <2>2 DEF RecvRead
    <2>3. CASE i = n + 1
      <3>1. i - 1 = n
        BY <1>3, <2>3
      <3> QED
        BY <1>5, <1>7, <2>3, <3>1
    <2> QED
      BY <1>3, <2>2, <2>3
  <1>9. RingTypeOK'
    BY <1>2, <1>3, <1>6 DEF RingTypeOK, AppRecord
  <1>10. FillOrdered' /\ FillPrepared' /\ RecvOrdered'
    BY <1>2, <1>3, <1>6 DEF FillOrdered, FillPrepared, RecvOrdered
  <1>11. FramesApart'
    BY <1>2, <1>3, <1>6 DEF FramesApart
  <1> QED
    BY <1>8, <1>9, <1>10, <1>11 DEF RingInv

(* xsk_ring_cons__release: the frames read are the application's.           *)
LEMMA ReleaseStep ==
  ASSUME RingInv, Release
  PROVE  RingInv'
  <1> DEFINE n == app.reading
             p == Ahead(recv, recv.producer)
  <1>1. RingSize \in Nat \ {0} /\ IndexRange \in Nat /\ IndexRange >= 2 * RingSize
    BY RingNumbers
  <1>2. RingTypeOK /\ FillOrdered /\ FillPrepared /\ RecvOrdered /\ RecvRead /\ FramesApart
    BY DEF RingInv
  <1>3. /\ recv \in RingRecord /\ recv.producer \in Index /\ recv.consumer \in Index
        /\ recv.cached_prod \in Index /\ recv.cached_cons \in Index
        /\ app \in AppRecord /\ app.frames \in SUBSET Frames /\ n \in Nat /\ app.got \in Seq(Contents) /\ Len(app.got) = n
        /\ p \in 0 .. RingSize /\ Ahead(recv, recv.cached_prod) \in 0 .. RingSize
        /\ fill' = fill /\ kernel' = kernel
        /\ recv' = [recv EXCEPT !.consumer = Idx(recv.consumer + n)]
        /\ app' = [app EXCEPT !.frames = app.frames \cup Entries(app.got), !.reading = 0, !.got = <<>>]
    BY <1>2, RingTypes DEF RingTypeOK, Release, AppRecord, Entries
  <1>4. Ahead(recv, recv.cached_cons) = n /\ n <= Ahead(recv, recv.cached_prod) /\ n <= p
        /\ Ahead(recv, recv.cached_prod) <= p
    BY <1>2, <1>3 DEF RecvOrdered
  <1>5. /\ Idx(recv.consumer + n) \in Index
        /\ Minus(recv.producer, Idx(recv.consumer + n)) = p - n
        /\ Minus(recv.cached_prod, Idx(recv.consumer + n)) = Ahead(recv, recv.cached_prod) - n
        /\ Minus(recv.cached_cons, Idx(recv.consumer + n)) = n - n
    <2>1. n <= Minus(recv.producer, recv.consumer) /\ n <= Minus(recv.cached_prod, recv.consumer)
          /\ n <= Minus(recv.cached_cons, recv.consumer)
      BY <1>3, <1>4 DEF Ahead
    <2> HIDE DEF n
    <2> QED
      BY <1>3, <1>4, <2>1, BehindAdd DEF Ahead
  <1>6. /\ recv' \in RingRecord /\ recv'.producer = recv.producer /\ recv'.consumer = Idx(recv.consumer + n)
        /\ recv'.cached_prod = recv.cached_prod /\ recv'.cached_cons = recv.cached_cons
        /\ recv'.slots = recv.slots
    BY <1>3, <1>5 DEF RingRecord
  <1>7. /\ Ahead(recv', recv'.producer) = p - n
        /\ Ahead(recv', recv'.cached_prod) = Ahead(recv, recv.cached_prod) - n
        /\ Ahead(recv', recv'.cached_cons) = n - n
    BY <1>5, <1>6 DEF Ahead
  <1>8. ASSUME NEW k \in Nat PROVE Entry(recv', k) = Entry(recv, n + k)
    <2> DEFINE c == recv.consumer
    <2>1. c \in Int /\ c + n \in 0 .. 2 * IndexRange - 1
      <3>1. c \in 0 .. IndexRange - 1
        BY <1>3 DEF Index
      <3>2. n \in Int /\ 0 <= n /\ n <= RingSize
        BY <1>1, <1>3, <1>4
      <3> HIDE DEF c, n
      <3> QED
        BY <1>1, <3>1, <3>2
    <2> HIDE DEF c
    <2>2. Idx(c + n) = c + n \/ Idx(c + n) = (c + n) - IndexRange
      BY <2>1, IdxIs
    <2>3. n \in Int /\ k \in Int
      BY <1>3
    <2> HIDE DEF n
    <2> DEFINE y == c + (n + k)
    <2>4. y \in Int
      BY <2>1, <2>3
    <2>5. Idx(c + n) + k = y \/ Idx(c + n) + k = y - IndexRange
      BY <1>1, <2>1, <2>2, <2>3
    <2> HIDE DEF y
    <2>6. (Idx(c + n) + k) % RingSize = y % RingSize
      BY <2>4, <2>5, SlotShift
    <2> QED
      BY <1>6, <2>6 DEF Entry, y, c
  <1>9. DOMAIN On(recv) = 1 .. p /\ \A i \in 1 .. p : On(recv)[i] = Entry(recv, i - 1)
    BY <1>3, OnIs
  <1>10. DOMAIN On(recv') = 1 .. p - n /\ \A i \in 1 .. p - n : On(recv')[i] = Entry(recv', i - 1)
    <2>1. Ahead(recv', recv'.producer) <= RingSize
      BY <1>1, <1>3, <1>4, <1>7
    <2> QED
      BY <1>6, <1>7, <2>1, OnIs
  <1>11. Joined(On(recv), app.got, On(recv'))
    <2>1. DOMAIN app.got = 1 .. n
      BY <1>3
    <2>2. ASSUME NEW i \in 1 .. n PROVE app.got[i] = On(recv)[i]
      <3>1. i \in 1 .. p
        BY <1>3, <1>4
      <3>2. app.got[i] = Entry(recv, i - 1)
        BY <1>2, <1>3 DEF RecvRead
      <3> QED
        BY <1>9, <3>1, <3>2
    <2>3. ASSUME NEW i \in 1 .. p - n PROVE On(recv')[i] = On(recv)[n + i]
      <3>1. i - 1 \in Nat /\ n + i \in 1 .. p /\ n + (i - 1) = (n + i) - 1
        <4>1. n \in Int /\ p \in Int /\ n >= 0 /\ n <= p
          BY <1>3, <1>4
        <4> HIDE DEF n, p
        <4> QED
          BY <4>1
      <3>2. On(recv')[i] = Entry(recv, n + (i - 1))
        BY <1>8, <1>10, <3>1
      <3>3. On(recv)[n + i] = Entry(recv, (n + i) - 1)
        BY <1>9, <3>1
      <3> QED
        BY <3>1, <3>2, <3>3
    <2>4. n \in Nat /\ p - n \in Nat /\ n + (p - n) = p
      BY <1>3, <1>4
    <2> HIDE DEF p, n
    <2> QED
      BY <1>9, <1>10, <2>1, <2>2, <2>3, <2>4 DEF Joined
  <1>12. /\ Entries(On(recv)) = Entries(app.got) \cup Entries(On(recv'))
         /\ Once(On(recv')) /\ Entries(app.got) \cap Entries(On(recv')) = {}
    BY <1>2, <1>11, Split DEF FramesApart
  <1>13. Entries(app.got) \subseteq Frames
    BY <1>2, <1>12 DEF FramesApart
  <1>14. /\ app' \in AppRecord /\ app'.frames = app.frames \cup Entries(app.got) /\ app'.reserved = app.reserved
         /\ app'.filling = app.filling /\ app'.reading = 0 /\ app'.got = <<>> /\ app'.at = app.at
    <2>1. <<>> \in Seq(Contents) /\ app.frames \cup Entries(app.got) \in SUBSET Frames
      BY <1>3, <1>13
    <2> QED
      BY <1>3, <2>1 DEF AppRecord
  <1>15. RingTypeOK'
    BY <1>2, <1>3, <1>6, <1>14 DEF RingTypeOK, AppRecord
  <1>16. RecvOrdered'
    <2>1. n - n = 0 /\ 0 <= Ahead(recv, recv.cached_prod) - n /\ Ahead(recv, recv.cached_prod) - n <= p - n
          /\ p - n <= RingSize
      BY <1>1, <1>3, <1>4
    <2>2. ~(app'.reading > 0)
      BY <1>14
    <2> HIDE DEF p, n
    <2> QED
      BY <1>7, <1>14, <2>1, <2>2 DEF RecvOrdered
  <1>17. RecvRead'
    <2>1. Len(app'.got) = 0
      BY <1>14
    <2> QED
      BY <1>14, <2>1 DEF RecvRead
  <1>18. FillOrdered' /\ FillPrepared'
    BY <1>2, <1>3, <1>14 DEF FillOrdered, FillPrepared
  <1>19. FramesApart'
    BY <1>2, <1>3, <1>12, <1>14 DEF FramesApart
  <1> QED
    BY <1>15, <1>16, <1>17, <1>18, <1>19 DEF RingInv

(* A sequence without repetitions has as many entries as it is long.        *)
LEMMA EntriesCount ==
  ASSUME NEW s, NEW n \in Nat, DOMAIN s = 1 .. n, Once(s)
  PROVE  IsFiniteSet(Entries(s)) /\ Cardinality(Entries(s)) = n
  <1> DEFINE b == [i \in 1 .. n |-> s[i]]
  <1>1. b \in Bijection(1 .. n, Entries(s))
    <2>1. b \in [1 .. n -> Entries(s)]
      BY DEF Entries
    <2>2. \A i, j \in 1 .. n : b[i] = b[j] => i = j
      BY DEF Once
    <2>3. \A x \in Entries(s) : \E i \in 1 .. n : b[i] = x
      BY DEF Entries
    <2> HIDE DEF b
    <2> QED
      BY <2>1, <2>2, <2>3 DEF Bijection, Injection, Surjection, IsInjective
  <1>2. ExistsBijection(1 .. n, Entries(s))
    BY <1>1 DEF ExistsBijection
  <1> QED
    BY <1>2, FS_CountingElements, FS_NatBijection

(* The size of two sets that have nothing in common.                        *)
LEMMA ApartCount ==
  ASSUME NEW S, NEW T, IsFiniteSet(S), IsFiniteSet(T), S \cap T = {}
  PROVE  IsFiniteSet(S \cup T) /\ Cardinality(S \cup T) = Cardinality(S) + Cardinality(T)
  <1>1. IsFiniteSet(S \cup T) /\ Cardinality(S \cup T) = Cardinality(S) + Cardinality(T) - Cardinality(S \cap T)
    BY FS_Union
  <1>2. Cardinality(S \cap T) = 0
    BY FS_EmptySet
  <1>3. Cardinality(S) \in Nat /\ Cardinality(T) \in Nat
    BY FS_CardinalityType
  <1> QED
    BY <1>1, <1>2, <1>3

(* What the invariant says is what FramesConserved counts.                  *)
LEMMA FramesCount ==
  ASSUME RingInv
  PROVE  FramesConserved
  <1>1. RingTypeOK /\ FillOrdered /\ RecvOrdered /\ RecvRead /\ FramesApart
    BY DEF RingInv
  <1>2. /\ fill \in RingRecord /\ recv \in RingRecord /\ app.frames \in SUBSET Frames /\ kernel \in SUBSET Frames
        /\ app.filling \in Seq(Frames) /\ app.got \in Seq(Contents) /\ app.reading \in Nat
        /\ Ahead(fill, fill.producer) \in 0 .. RingSize /\ Ahead(recv, recv.producer) \in 0 .. RingSize
        /\ Ahead(recv, recv.cached_prod) \in 0 .. RingSize
    BY <1>1, RingTypes DEF RingTypeOK
  <1>3. /\ Ahead(fill, fill.producer) \in Nat /\ DOMAIN On(fill) = 1 .. Ahead(fill, fill.producer)
        /\ Ahead(recv, recv.producer) \in Nat /\ DOMAIN On(recv) = 1 .. Ahead(recv, recv.producer)
        /\ \A i \in 1 .. Ahead(recv, recv.producer) : On(recv)[i] = Entry(recv, i - 1)
    BY <1>2, OnIs
  <1>4. Len(On(fill)) = Ahead(fill, fill.producer) /\ Len(On(recv)) = Ahead(recv, recv.producer)
        /\ Len(app.filling) \in Nat /\ DOMAIN app.filling = 1 .. Len(app.filling)
    <2>1. Len(app.filling) \in Nat /\ DOMAIN app.filling = 1 .. Len(app.filling)
      BY <1>2
    <2>2. Len(On(fill)) = Ahead(fill, fill.producer)
      <3>1. On(fill) = [i \in 1 .. Ahead(fill, fill.producer) |-> Entry(fill, i - 1)]
        BY <1>2, OnIs
      <3> QED
        BY <1>3, <3>1
    <2>3. Len(On(recv)) = Ahead(recv, recv.producer)
      <3>1. On(recv) = [i \in 1 .. Ahead(recv, recv.producer) |-> Entry(recv, i - 1)]
        BY <1>2, OnIs
      <3> QED
        BY <1>3, <3>1
    <2> QED
      BY <2>1, <2>2, <2>3
  <1> DEFINE a == app.frames
             f == Entries(app.filling)
             p == Entries(On(fill))
             c == Entries(On(recv))
  <1>5. /\ a \cup kernel \cup f \cup p \cup c = Frames
        /\ a \cap kernel = {} /\ (a \cup kernel) \cap f = {} /\ (a \cup kernel \cup f) \cap p = {}
        /\ (a \cup kernel \cup f \cup p) \cap c = {}
        /\ Once(app.filling) /\ Once(On(fill)) /\ Once(On(recv))
    BY <1>1 DEF FramesApart
  <1>6. /\ IsFiniteSet(f) /\ Cardinality(f) = Len(app.filling)
        /\ IsFiniteSet(p) /\ Cardinality(p) = Len(On(fill))
        /\ IsFiniteSet(c) /\ Cardinality(c) = Len(On(recv))
    BY <1>3, <1>4, <1>5, EntriesCount
  <1>7. IsFiniteSet(a) /\ IsFiniteSet(kernel)
    <2>1. IsFiniteSet(Frames)
      BY RingNumbers, FS_Interval DEF Frames
    <2> QED
      BY <1>2, <2>1, FS_Subset
  <1> HIDE DEF a, f, p, c
  <1>8. /\ IsFiniteSet(a \cup kernel) /\ Cardinality(a \cup kernel) = Cardinality(a) + Cardinality(kernel)
    BY <1>5, <1>7, ApartCount
  <1>9. /\ IsFiniteSet(a \cup kernel \cup f)
        /\ Cardinality(a \cup kernel \cup f) = Cardinality(a) + Cardinality(kernel) + Cardinality(f)
    BY <1>5, <1>6, <1>8, ApartCount
  <1>10. /\ IsFiniteSet(a \cup kernel \cup f \cup p)
         /\ Cardinality(a \cup kernel \cup f \cup p)
              = Cardinality(a) + Cardinality(kernel) + Cardinality(f) + Cardinality(p)
    BY <1>5, <1>6, <1>9, ApartCount
  <1>11. Cardinality(Frames)
              = Cardinality(a) + Cardinality(kernel) + Cardinality(f) + Cardinality(p) + Cardinality(c)
    BY <1>5, <1>6, <1>10, ApartCount
  <1>12. ASSUME NEW i \in DOMAIN app.got PROVE app.got[i] = On(recv)[i]
    <2>1. i \in 1 .. Len(app.got) /\ Len(app.got) \in Nat
      BY <1>2
    <2>2. Len(app.got) <= Ahead(recv, recv.producer)
      BY <1>1, <1>2, <2>1 DEF RecvOrdered, RecvRead
    <2>3. i \in 1 .. Ahead(recv, recv.producer)
      BY <1>3, <2>1, <2>2
    <2> QED
      BY <1>1, <1>3, <2>1, <2>3 DEF RecvRead
  <1>13. Minus(fill.producer, fill.consumer) <= RingSize /\ Minus(recv.producer, recv.consumer) <= RingSize
    BY <1>2, RingNumbers DEF Ahead
  <1> QED
    BY <1>5, <1>6, <1>11, <1>12, <1>13 DEF FramesConserved, a, f, p, c

(* The producer and consumer operations of the AF_XDP rings lose, duplicate *)
(* and corrupt no frame, and never have more entries on a ring than it      *)
(* holds, for every size of the ring, every width of the indices that wrap  *)
(* around, every batch size and every interleaving of application and       *)
(* kernel.                                                                  *)
THEOREM RingFrames == RingSpec => []FramesConserved
  <1>1. RingInit => RingInv
    BY RingInitInv
  <1>2. RingInv /\ [RingNext]_rvars => RingInv'
    <2> SUFFICES ASSUME RingInv, [RingNext]_rvars PROVE RingInv'
      OBVIOUS
    <2>1. CASE UNCHANGED rvars
      BY <2>1 DEF rvars, RingInv, RingTypeOK, FillOrdered, FillPrepared, RecvOrdered, RecvRead, FramesApart
    <2>2. CASE RingNext
      BY <2>2, ReserveStep, PeekStep, FillAddrStep, KernelReceiveStep, SubmitStep, KernelTakeStep, RxDescStep,
         ReleaseStep DEF RingNext
    <2> QED
      BY <2>1, <2>2
  <1>3. RingInv => FramesConserved
    BY FramesCount
  <1> QED
    BY <1>1, <1>2, <1>3, PTL DEF RingSpec

-----------------------------------------------------------------------------
(* Umem and sockets                                                         *)

(* What the parts of the state are.                                         *)
XskTypeOK ==
  /\ umem \in [live : BOOLEAN, refcount : Nat]
  /\ socks = [s \in DOMAIN socks |-> socks[s]] /\ DOMAIN socks \subseteq XskSockets
  /\ \A s \in DOMAIN socks :
       socks[s] \in [rx : BOOLEAN, tx : BOOLEAN, fd : {UmemFd, Fd("sock", s)},
                     prog : {{}, {Fd("prog", s), Fd("map", s)}}]
  /\ dev \in [channels : {0, 2}, prog : {"none", "other", "xsk"}, entries : Nat, xsks_map : SUBSET XskSockets]
  /\ lost \in [refs : Nat, maps : SUBSET ({"fill", "comp", "rx", "tx"} \X Nat)]

(* What is open and what is mapped, as in XskExact.                         *)
FdsExact ==
  \A f :
    f \in xfds <=>
      \/ umem.live /\ f = UmemFd
      \/ \E s \in DOMAIN socks : f \in socks[s].prog \cup {socks[s].fd}
(* The mappings: the fill and completion ring of the umem, the rings of the *)
(* sockets, and those that were lost.                                       *)
MapsExact ==
  \A m :
    m \in xmaps <=>
      \/ umem.live /\ m \in UmemRings
      \/ \E s \in DOMAIN socks : m \in Rings(s, socks[s])
      \/ m \in lost.maps
(* The reference count of the umem, and that a user keeps it alive.         *)
RefsExact ==
  /\ umem.refcount = (IF umem.live THEN Cardinality(DOMAIN socks) + lost.refs ELSE 0)
  /\ DOMAIN socks # {} \/ lost.refs > 0 => umem.live

(* A mapping that is in use is not among the lost ones.                     *)
LostApart ==
  /\ umem.live => lost.maps \cap UmemRings = {}
  /\ \A s \in DOMAIN socks : lost.maps \cap Rings(s, socks[s]) = {}

(* The xsks_map of the attached program has the queues of the sockets that  *)
(* receive there and have a program; without it no socket has one.          *)
QueuesExact ==
  /\ dev.prog = "xsk" => dev.xsks_map = {s \in DOMAIN socks : socks[s].rx /\ socks[s].prog # {}}
  /\ dev.prog # "xsk" => \A s \in DOMAIN socks : socks[s].prog = {}

(* The inductive invariant of umem and sockets.                             *)
XskInv == XskTypeOK /\ FdsExact /\ MapsExact /\ RefsExact /\ LostApart /\ QueuesExact

(* What the XDP program libbpf attaches does with a packet of queue q.      *)
LEMMA ProgramDecides ==
  ASSUME XskTypeOK, QueuesExact, dev.prog = "xsk", NEW q \in XskSockets, NEW old \in BOOLEAN
  PROVE  XdpSockProg(old, q) = IF q \in DOMAIN socks /\ socks[q].rx /\ socks[q].prog # {} THEN 4 ELSE 2
  BY DEF XdpSockProg, QueuesExact, XskTypeOK

(* The offsets of an old kernel, converted, are those of a new one.         *)
LEMMA OffsetsAlikeHolds == OffsetsAlike
  <1> SUFFICES ASSUME NEW n \in 1 .. 16 PROVE MmapOffsetsV1(Answer(3))[n] = Answer(4)[n]
    BY DEF OffsetsAlike, GetMmapOffsets, MmapOffsetsV1, Answer
  <1> DEFINE ring == (n - 1) \div 4
             field == ((n - 1) % 4) + 1
  <1>1. ring \in 0 .. 3 /\ field \in 1 .. 4 /\ n = 4 * ring + field
    OBVIOUS
  <1>2. Answer(4)[n] = <<RingNames[ring + 1], field>>
    BY DEF Answer
  <1>3. \A k \in 1 .. 3 : Answer(3)[3 * ring + k] = <<RingNames[ring + 1], k>>
    <2> SUFFICES ASSUME NEW k \in 1 .. 3 PROVE Answer(3)[3 * ring + k] = <<RingNames[ring + 1], k>>
      OBVIOUS
    <2> HIDE DEF ring
    <2>1. PICK m \in 1 .. 12 : m = 3 * ring + k
      BY <1>1
    <2>2. (m - 1) \div 3 = ring /\ (m - 1) % 3 = k - 1
      BY <1>1, <2>1
    <2>3. Answer(3)[m] = <<RingNames[((m - 1) \div 3) + 1], ((m - 1) % 3) + 1>>
      BY <2>1 DEF Answer
    <2>4. (k - 1) + 1 = k
      OBVIOUS
    <2> QED
      BY <2>1, <2>2, <2>3, <2>4
  <1> QED
    BY <1>1, <1>2, <1>3 DEF MmapOffsetsV1

(* The invariant implies what the run checks.                               *)
LEMMA XskInvSuffices == XskInv => XskExact
  <1> SUFFICES ASSUME XskInv PROVE XskExact
    OBVIOUS
  <1>1. xfds = (IF umem.live THEN {UmemFd} ELSE {})
                 \cup UNION {socks[s].prog \cup {socks[s].fd} : s \in DOMAIN socks}
    BY DEF XskInv, FdsExact
  <1>2. xmaps = (IF umem.live THEN UmemRings ELSE {})
                  \cup (UNION {Rings(s, socks[s]) : s \in DOMAIN socks}) \cup lost.maps
    <2> DEFINE used == UNION {Rings(s, socks[s]) : s \in DOMAIN socks}
    <2>1. ASSUME NEW m
          PROVE  m \in used <=> \E s \in DOMAIN socks : m \in Rings(s, socks[s])
      BY Zenon
    <2> HIDE DEF used
    <2>2. ASSUME NEW m
          PROVE  m \in xmaps <=> m \in (IF umem.live THEN UmemRings ELSE {}) \cup used \cup lost.maps
      BY <2>1 DEF XskInv, MapsExact
    <2>3. xmaps = (IF umem.live THEN UmemRings ELSE {}) \cup used \cup lost.maps
      BY <2>2, Zenon
    <2> QED
      BY <2>3 DEF used
  <1> QED
    BY <1>1, <1>2, ProgramDecides, OffsetsAlikeHolds DEF XskInv, XskExact, RefsExact

(* At first there is nothing.                                               *)
LEMMA XskInitInv == XskInit => XskInv
  <1> SUFFICES ASSUME XskInit PROVE XskInv
    OBVIOUS
  <1>1. DOMAIN socks = {} /\ socks = [s \in DOMAIN socks |-> socks[s]]
    BY DEF XskInit
  <1>2. XskTypeOK
    BY <1>1 DEF XskInit, XskTypeOK
  <1>3. FdsExact /\ MapsExact /\ RefsExact
    BY <1>1 DEF XskInit, FdsExact, MapsExact, RefsExact
  <1> QED
    BY <1>1, <1>2, <1>3 DEF XskInit, XskInv, LostApart, QueuesExact

(* xsk_umem__create, wherever it fails.                                     *)
LEMMA UmemCreateStep ==
  ASSUME XskInv, NEW fail \in UmemFails, UmemCreate(fail)
  PROVE  XskInv'
  <1> USE DEF XskInv
  <1>1. DOMAIN socks = {} /\ ~umem.live /\ socks' = socks /\ dev' = dev
    BY DEF RefsExact, UmemCreate
  <1>5. xmaps = lost.maps /\ lost.refs = 0 /\ Cardinality(DOMAIN socks) = 0
    <2>1. \A m : m \in xmaps <=> m \in lost.maps
      BY <1>1 DEF MapsExact
    <2>2. xmaps = lost.maps
      BY <2>1, Zenon
    <2> QED
      BY <1>1, <2>2, FS_EmptySet DEF RefsExact, XskTypeOK
  <1>2. CASE fail = "none"
    <2>1. /\ umem' = [live |-> TRUE, refcount |-> 0]
          /\ xfds' = xfds \cup {UmemFd} /\ xmaps' = xmaps \cup UmemRings
          /\ lost' = [lost EXCEPT !.maps = @ \ UmemRings]
      BY <1>2 DEF UmemCreate
    <2>2. lost'.maps = lost.maps \ UmemRings /\ lost'.refs = lost.refs
      BY <2>1 DEF XskTypeOK
    <2>3. XskTypeOK'
      BY <1>1, <2>1 DEF XskTypeOK
    <2>4. FdsExact'
      BY <1>1, <2>1 DEF FdsExact
    <2>5. MapsExact'
      BY <1>1, <1>5, <2>1, <2>2 DEF MapsExact
    <2>6. RefsExact'
      BY <1>1, <1>5, <2>1, <2>2 DEF RefsExact
    <2> QED
      BY <1>1, <2>1, <2>2, <2>3, <2>4, <2>5, <2>6 DEF LostApart, QueuesExact
  <1>3. CASE fail = "mmap_comp"
    <2>1. /\ UNCHANGED <<umem, xfds>>
          /\ xmaps' = xmaps \cup {<<"fill", 0>>}
          /\ lost' = [lost EXCEPT !.maps = @ \cup {<<"fill", 0>>}]
      BY <1>3 DEF UmemCreate
    <2>2. lost'.maps = lost.maps \cup {<<"fill", 0>>} /\ lost'.refs = lost.refs
      BY <2>1 DEF XskTypeOK
    <2>3. XskTypeOK'
      BY <1>1, <2>1 DEF XskTypeOK
    <2>4. MapsExact'
      BY <1>1, <1>5, <2>1, <2>2 DEF MapsExact
    <2> QED
      BY <1>1, <1>5, <2>1, <2>2, <2>3, <2>4 DEF FdsExact, RefsExact, LostApart, QueuesExact
  <1>4. CASE fail \notin {"none", "mmap_comp"}
    <2>1. UNCHANGED xvars
      BY <1>4 DEF UmemCreate, xvars, UmemFails
    <2> QED
      BY <2>1 DEF xvars, XskTypeOK, FdsExact, MapsExact, RefsExact, LostApart, QueuesExact
  <1> QED
    BY <1>2, <1>3, <1>4

(* xsk_umem__delete.                                                        *)
LEMMA UmemDeleteStep ==
  ASSUME XskInv, NEW fail \in {"none", "offsets"}, UmemDelete(fail)
  PROVE  XskInv'
  <1> USE DEF XskInv
  <1>1. IsFiniteSet(DOMAIN socks)
    BY XskAssumption, FS_Subset DEF XskTypeOK
  <1>2. Cardinality(DOMAIN socks) \in Nat /\ Cardinality(DOMAIN socks) = 0 /\ lost.refs = 0
    BY <1>1, FS_CardinalityType DEF RefsExact, UmemDelete, XskTypeOK
  <1>3. DOMAIN socks = {} /\ umem.live
    BY <1>1, <1>2, FS_EmptySet DEF UmemDelete
  <1>4. /\ umem' = [live |-> FALSE, refcount |-> 0] /\ xfds' = xfds \ {UmemFd}
        /\ socks' = socks /\ dev' = dev
    BY DEF UmemDelete
  <1>5. lost'.refs = lost.refs /\ xmaps' = lost'.maps
    <2>1. xmaps = UmemRings \cup lost.maps /\ lost.maps \cap UmemRings = {}
      BY <1>3 DEF MapsExact, LostApart
    <2> QED
      BY <2>1 DEF UmemDelete, XskTypeOK
  <1>6. XskTypeOK'
    BY <1>3, <1>4 DEF XskTypeOK, UmemDelete, UmemRings
  <1>7. FdsExact'
    BY <1>3, <1>4 DEF FdsExact
  <1>8. MapsExact'
    BY <1>3, <1>4, <1>5 DEF MapsExact
  <1>9. RefsExact'
    BY <1>2, <1>3, <1>4, <1>5 DEF RefsExact
  <1>10. LostApart' /\ QueuesExact'
    BY <1>3, <1>4 DEF LostApart, QueuesExact
  <1> QED
    BY <1>6, <1>7, <1>8, <1>9, <1>10

(* A socket is added.                                                       *)
LEMMA SocketAddStep ==
  ASSUME XskInv, NEW s \in XskSockets, s \notin DOMAIN socks, umem.live,
         NEW x \in [rx : BOOLEAN, tx : BOOLEAN, fd : {UmemFd, Fd("sock", s)},
                    prog : {{}, {Fd("prog", s), Fd("map", s)}}],
         umem' = [umem EXCEPT !.refcount = @ + 1],
         socks' = [t \in DOMAIN socks \cup {s} |-> IF t = s THEN x ELSE socks[t]],
         xfds' = xfds \cup {x.fd} \cup x.prog,
         xmaps' = xmaps \cup Rings(s, x),
         lost' = [lost EXCEPT !.maps = @ \ Rings(s, x)],
         dev' \in [channels : {0, 2}, prog : {"none", "other", "xsk"}, entries : Nat,
                   xsks_map : SUBSET XskSockets],
         QueuesExact'
  PROVE  XskInv'
  <1> USE DEF XskInv
  <1>1. /\ DOMAIN socks' = DOMAIN socks \cup {s}
        /\ \A t \in DOMAIN socks' : socks'[t] = IF t = s THEN x ELSE socks[t]
        /\ socks' = [t \in DOMAIN socks' |-> socks'[t]]
    OBVIOUS
  <1>2. /\ lost'.maps = lost.maps \ Rings(s, x) /\ lost'.refs = lost.refs
        /\ umem'.live = umem.live /\ umem'.refcount = umem.refcount + 1
    BY DEF XskTypeOK
  <1>11. /\ lost' \in [refs : Nat, maps : SUBSET ({"fill", "comp", "rx", "tx"} \X Nat)]
         /\ umem' \in [live : BOOLEAN, refcount : Nat]
    BY DEF XskTypeOK
  <1>3. XskTypeOK'
    BY <1>1, <1>11 DEF XskTypeOK
  <1>5. FdsExact'
    <2> SUFFICES ASSUME NEW f
                 PROVE  f \in xfds' <=> \/ umem'.live /\ f = UmemFd
                                        \/ \E t \in DOMAIN socks' : f \in socks'[t].prog \cup {socks'[t].fd}
      BY DEF FdsExact
    <2>1. f \in xfds' <=> f \in xfds \/ f \in x.prog \cup {x.fd}
      OBVIOUS
    <2>2. (\E t \in DOMAIN socks' : f \in socks'[t].prog \cup {socks'[t].fd})
            <=> \/ \E t \in DOMAIN socks : f \in socks[t].prog \cup {socks[t].fd}
                \/ f \in x.prog \cup {x.fd}
      BY <1>1
    <2> QED
      BY <1>2, <2>1, <2>2 DEF FdsExact
  <1>7. MapsExact'
    BY <1>1, <1>2 DEF MapsExact
  <1>8. IsFiniteSet(DOMAIN socks) /\ Cardinality(DOMAIN socks') = Cardinality(DOMAIN socks) + 1
    BY <1>1, XskAssumption, FS_Subset, FS_AddElement DEF XskTypeOK
  <1>9. RefsExact'
    BY <1>1, <1>2, <1>8, FS_CardinalityType DEF RefsExact, XskTypeOK
  <1>10. LostApart'
    BY <1>1, <1>2 DEF LostApart, UmemRings
  <1> QED
    BY <1>3, <1>5, <1>7, <1>9, <1>10

(* xsk_setup_xdp_prog: the program is there and has just this queue more,   *)
(* or it is not, or nothing has changed but a fresh program.                *)
LEMMA SetupResult ==
  ASSUME XskTypeOK, QueuesExact, NEW s \in XskSockets, s \notin DOMAIN socks,
         NEW rx \in BOOLEAN, NEW fail \in SocketFails
  PROVE  LET r == SetupXdpProg(s, rx, fail) IN
         /\ r.err \in BOOLEAN
         /\ r.dev \in [channels : {0, 2}, prog : {"none", "other", "xsk"}, entries : Nat,
                        xsks_map : SUBSET XskSockets]
         /\ r.dev.prog = "xsk" =>
              /\ r.dev.xsks_map = {t \in DOMAIN socks : socks[t].rx /\ socks[t].prog # {}}
                                    \cup (IF rx /\ ~r.err THEN {s} ELSE {})
         /\ ~r.err => r.dev.prog = "xsk"
         /\ r.dev.prog # "xsk" => r.dev = dev
  <1> DEFINE D == [channels : {0, 2}, prog : {"none", "other", "xsk"}, entries : Nat,
                   xsks_map : SUBSET XskSockets]
             Q == {t \in DOMAIN socks : socks[t].rx /\ socks[t].prog # {}}
             fresh == dev.prog = "none"
             attached == IF fresh THEN LoadXdpProg(CreateBpfMaps(fail), fail) ELSE dev
             ready == IF fresh THEN CreateBpfMaps(fail) > 0 /\ attached.prog = "xsk"
                      ELSE fail # "get_fd" /\ LookupBpfMaps(fail)
             r == SetupXdpProg(s, rx, fail)
  <1>1. CreateBpfMaps(fail) \in Nat
    BY DEF CreateBpfMaps, MaxQueues, XskTypeOK
  <1>2. attached \in D
    BY <1>1 DEF LoadXdpProg, XskTypeOK
  <1>3. ready => attached.prog = "xsk" /\ attached.xsks_map = Q
    BY DEF LoadXdpProg, LookupBpfMaps, QueuesExact, XskTypeOK
  <1>4. s \notin Q
    OBVIOUS
  <1> HIDE DEF attached, ready, Q, D
  <1>5. r = IF fail = "get_link" \/ ~ready THEN [err |-> TRUE, dev |-> dev]
            ELSE IF ~rx THEN [err |-> FALSE, dev |-> attached]
            ELSE IF SetBpfMaps(attached, s, fail)
              THEN [err |-> FALSE, dev |-> [attached EXCEPT !.xsks_map = @ \cup {s}]]
            ELSE [err |-> TRUE, dev |-> DeleteBpfMaps(attached, s)]
    BY DEF SetupXdpProg, attached, ready
  <1> HIDE DEF r
  <1>6. CASE fail = "get_link" \/ ~ready
    <2>1. r = [err |-> TRUE, dev |-> dev]
      BY <1>5, <1>6
    <2> QED
      BY <2>1 DEF XskTypeOK, QueuesExact, r
  <1>7. CASE fail # "get_link" /\ ready /\ rx /\ ~SetBpfMaps(attached, s, fail)
    <2>1. r = [err |-> TRUE, dev |-> DeleteBpfMaps(attached, s)]
      BY <1>5, <1>7
    <2>2. DeleteBpfMaps(attached, s) = attached
      BY <1>2, <1>3, <1>4, <1>7 DEF DeleteBpfMaps, D
    <2>3. r.err /\ r.dev = attached
      BY <2>1, <2>2
    <2>4. r.err \in BOOLEAN
      BY <2>1
    <2>5. r.dev \in D /\ r.dev.prog = "xsk" /\ r.dev.xsks_map = Q
      BY <1>2, <1>3, <1>7, <2>3
    <2> QED
      BY <2>3, <2>4, <2>5 DEF D, Q, r
  <1>8. CASE fail # "get_link" /\ ready /\ rx /\ SetBpfMaps(attached, s, fail)
    <2>1. r = [err |-> FALSE, dev |-> [attached EXCEPT !.xsks_map = @ \cup {s}]]
      BY <1>5, <1>8
    <2>2. ~r.err /\ r.err \in BOOLEAN /\ r.dev = [attached EXCEPT !.xsks_map = @ \cup {s}]
      BY <2>1
    <2>3. r.dev \in D /\ r.dev.prog = "xsk" /\ r.dev.xsks_map = Q \cup {s}
      BY <1>2, <1>3, <1>8, <2>2 DEF D
    <2> QED
      BY <1>8, <2>2, <2>3 DEF D, Q, r
  <1>9. CASE fail # "get_link" /\ ready /\ ~rx
    <2>1. r = [err |-> FALSE, dev |-> attached]
      BY <1>5, <1>9
    <2> QED
      BY <1>2, <1>3, <1>9, <2>1 DEF D, Q, r
  <1> QED
    BY <1>6, <1>7, <1>8, <1>9

(* xsk_socket__create, wherever it fails.                                   *)
LEMMA SocketCreateStep ==
  ASSUME XskInv, NEW s \in XskSockets, NEW c \in [rx : BOOLEAN, tx : BOOLEAN, inhibit : BOOLEAN],
         NEW fail \in SocketFails, SocketCreate(s, c, fail)
  PROVE  XskInv'
  <1> USE DEF XskInv
  <1> DEFINE shared == umem.refcount > 0
             fd == IF shared THEN Fd("sock", s) ELSE UmemFd
             setup == SetupXdpProg(s, c.rx, fail)
             prog == IF c.inhibit THEN {} ELSE {Fd("prog", s), Fd("map", s)}
             label == FailureLabel(c, fail, setup)
             x == [rx |-> c.rx, tx |-> c.tx, fd |-> fd, prog |-> prog]
  <1>1. umem.live /\ s \notin DOMAIN socks
    BY DEF SocketCreate
  <1>2. CASE UNCHANGED xvars
    BY <1>2 DEF xvars, XskTypeOK, FdsExact, MapsExact, RefsExact, LostApart, QueuesExact
  <1>3. CASE /\ umem' = [umem EXCEPT !.refcount = @ + 1] /\ lost' = [lost EXCEPT !.refs = @ + 1]
             /\ UNCHANGED <<socks, xfds, xmaps, dev>>
    <2>1. /\ umem'.live = umem.live /\ umem'.refcount = umem.refcount + 1
          /\ lost'.maps = lost.maps /\ lost'.refs = lost.refs + 1
      BY <1>3 DEF XskTypeOK
    <2>2. XskTypeOK'
      BY <1>3 DEF XskTypeOK
    <2>3. Cardinality(DOMAIN socks) \in Nat
      BY XskAssumption, FS_Subset, FS_CardinalityType DEF XskTypeOK
    <2>4. RefsExact'
      BY <1>1, <1>3, <2>1, <2>3 DEF RefsExact, XskTypeOK
    <2> QED
      BY <1>3, <2>1, <2>2, <2>4 DEF FdsExact, MapsExact, LostApart, QueuesExact
  <1>4. CASE /\ label # "none"
             /\ xmaps' = xmaps \cup (MappedBefore(s, c, fail) \ UnmappedFrom(s, c, label))
             /\ xfds' = IF CloseAtOut(umem.refcount) THEN xfds \ {fd} ELSE xfds
             /\ dev' = IF label = "out_mmap_tx" /\ fail # "bind" THEN setup.dev ELSE dev
             /\ UNCHANGED <<umem, socks, lost>>
    <2>0. xmaps' = xmaps
      <3>1. MappedBefore(s, c, fail) \subseteq UnmappedFrom(s, c, label)
        <4> HIDE DEF setup
        <4> QED
          BY <1>4 DEF MappedBefore, UnmappedFrom, FailureLabel
      <3> QED
        BY <1>4, <3>1
    <2>1. xfds' = xfds
      <3>1. CASE CloseAtOut(umem.refcount)
        <4>1. fd = Fd("sock", s)
          BY <3>1 DEF CloseAtOut
        <4>2. fd \notin xfds
          BY <1>1, <4>1 DEF FdsExact, XskTypeOK, UmemFd, Fd
        <4> QED
          BY <1>4, <4>2
      <3> QED
        BY <1>4, <3>1
    <2>2. dev' = dev \/ (setup.err /\ dev' = setup.dev)
      <3> HIDE DEF setup
      <3> QED
        BY <1>4 DEF FailureLabel
    <2>3. /\ dev' \in [channels : {0, 2}, prog : {"none", "other", "xsk"}, entries : Nat,
                         xsks_map : SUBSET XskSockets]
          /\ QueuesExact'
      <3>1. CASE dev' = dev
        BY <1>4, <3>1 DEF XskTypeOK, QueuesExact
      <3>2. CASE setup.err /\ dev' = setup.dev
        BY <1>1, <1>4, <3>2, SetupResult DEF XskTypeOK, QueuesExact
      <3> QED
        BY <2>2, <3>1, <3>2
    <2> QED
      <3>1. UNCHANGED <<umem, socks, xfds, xmaps, lost>>
        BY <1>4, <2>0, <2>1
      <3> QED
        BY <2>3, <3>1 DEF XskTypeOK, FdsExact, MapsExact, RefsExact, LostApart
  <1>5. CASE /\ ~(~c.inhibit /\ setup.err) /\ (c.inhibit \/ ~shared)
             /\ umem' = [umem EXCEPT !.refcount = @ + 1]
             /\ socks' = [t \in DOMAIN socks \cup {s} |-> IF t = s THEN x ELSE socks[t]]
             /\ xfds' = xfds \cup {fd} \cup prog /\ xmaps' = xmaps \cup Rings(s, c)
             /\ lost' = [lost EXCEPT !.maps = @ \ Rings(s, c)]
             /\ dev' = IF c.inhibit THEN dev ELSE setup.dev
    <2>1. x \in [rx : BOOLEAN, tx : BOOLEAN, fd : {UmemFd, Fd("sock", s)},
                  prog : {{}, {Fd("prog", s), Fd("map", s)}}]
      OBVIOUS
    <2>2. x.fd = fd /\ x.prog = prog /\ x.rx = c.rx /\ Rings(s, x) = Rings(s, c)
      BY DEF Rings
    <2> HIDE DEF x, prog, fd, setup
    <2>3. /\ DOMAIN socks' = DOMAIN socks \cup {s}
          /\ \A t \in DOMAIN socks' : socks'[t] = IF t = s THEN x ELSE socks[t]
      BY <1>5
    <2>4. /\ dev' \in [channels : {0, 2}, prog : {"none", "other", "xsk"}, entries : Nat,
                         xsks_map : SUBSET XskSockets]
          /\ QueuesExact'
      <3>1. CASE c.inhibit
        <4>1. dev' = dev /\ x.prog = {}
          BY <1>5, <2>2, <3>1 DEF prog
        <4>2. {t \in DOMAIN socks' : socks'[t].rx /\ socks'[t].prog # {}}
                = {t \in DOMAIN socks : socks[t].rx /\ socks[t].prog # {}}
          BY <1>1, <2>3, <4>1
        <4> QED
          BY <2>3, <4>1, <4>2 DEF XskTypeOK, QueuesExact
      <3>2. CASE ~c.inhibit
        <4>1. ~setup.err /\ dev' = setup.dev /\ prog # {}
          BY <1>5, <3>2, SetupResult DEF prog
        <4>2. /\ dev' \in [channels : {0, 2}, prog : {"none", "other", "xsk"}, entries : Nat,
                             xsks_map : SUBSET XskSockets]
              /\ dev'.prog = "xsk"
              /\ dev'.xsks_map = {t \in DOMAIN socks : socks[t].rx /\ socks[t].prog # {}}
                                    \cup (IF c.rx THEN {s} ELSE {})
          BY <1>1, <4>1, SetupResult DEF setup
        <4>3. dev'.xsks_map = {t \in DOMAIN socks' : socks'[t].rx /\ socks'[t].prog # {}}
          BY <1>1, <2>2, <2>3, <4>1, <4>2
        <4> QED
          BY <4>2, <4>3 DEF QueuesExact
      <3> QED
        BY <3>1, <3>2
    <2> QED
      BY <1>1, <1>5, <2>1, <2>2, <2>4, SocketAddStep
  <1>6. label = "none" => ~(~c.inhibit /\ setup.err)
    <2> HIDE DEF setup
    <2> QED
      BY DEF FailureLabel
  <1> QED
    <2> HIDE DEF setup, prog, fd, label
    <2> QED
      BY <1>2, <1>3, <1>4, <1>5, <1>6 DEF SocketCreate, setup, prog, fd, label

(* xsk_socket__delete.                                                      *)
LEMMA SocketDeleteStep ==
  ASSUME XskInv, NEW s \in XskSockets, NEW fail \in {"none", "offsets"}, SocketDelete(s, fail)
  PROVE  XskInv'
  <1> USE DEF XskInv
  <1> DEFINE x == socks[s]
             own == IF x.fd # UmemFd THEN {x.fd} ELSE {}
  <1>1. /\ s \in DOMAIN socks /\ umem.live
        /\ dev' = (IF x.prog = {} THEN dev ELSE DeleteBpfMaps(dev, s))
        /\ xfds' = xfds \ (x.prog \cup own)
        /\ umem' = [umem EXCEPT !.refcount = @ - 1]
        /\ socks' = [t \in DOMAIN socks \ {s} |-> socks[t]]
    BY DEF SocketDelete, RefsExact, Restrict
  <1>2. DOMAIN socks' = DOMAIN socks \ {s} /\ \A t \in DOMAIN socks' : socks'[t] = socks[t]
    BY <1>1
  <1>3. /\ IsFiniteSet(DOMAIN socks) /\ Cardinality(DOMAIN socks) \in Nat
        /\ Cardinality(DOMAIN socks') = Cardinality(DOMAIN socks) - 1
    BY <1>1, <1>2, XskAssumption, FS_Subset, FS_CardinalityType, FS_RemoveElement DEF XskTypeOK
  <1>4. /\ lost'.refs = lost.refs
        /\ lost' \in [refs : Nat, maps : SUBSET ({"fill", "comp", "rx", "tx"} \X Nat)]
        /\ \/ lost'.maps = lost.maps \cup Rings(s, x) /\ xmaps' = xmaps
           \/ lost'.maps = lost.maps /\ xmaps' = xmaps \ Rings(s, x)
    BY XskAssumption DEF SocketDelete, XskTypeOK, Rings
  <1>5. umem'.live = umem.live /\ umem'.refcount = umem.refcount - 1
    BY <1>1 DEF XskTypeOK
  <1>6. RefsExact' /\ umem'.refcount \in Nat
    <2>1. Cardinality(DOMAIN socks') \in Nat
      BY <1>2, <1>3, FS_Subset, FS_CardinalityType
    <2> QED
      BY <1>1, <1>2, <1>3, <1>4, <1>5, <2>1 DEF RefsExact, XskTypeOK
  <1>7. XskTypeOK' /\ QueuesExact'
    <2>1. /\ dev' \in [channels : {0, 2}, prog : {"none", "other", "xsk"}, entries : Nat,
                         xsks_map : SUBSET XskSockets]
          /\ dev'.prog = dev.prog
          /\ dev'.xsks_map = IF x.prog = {} THEN dev.xsks_map ELSE dev.xsks_map \ {s}
      BY <1>1 DEF XskTypeOK, DeleteBpfMaps
    <2>2. QueuesExact'
      BY <1>1, <1>2, <2>1 DEF QueuesExact
    <2>3. umem' \in [live : BOOLEAN, refcount : Nat]
      BY <1>1, <1>5, <1>6 DEF XskTypeOK
    <2> QED
      BY <1>1, <1>2, <1>4, <2>1, <2>2, <2>3 DEF XskTypeOK
  <1>8. FdsExact'
    <2> SUFFICES ASSUME NEW f
                 PROVE  f \in xfds' <=> \/ umem'.live /\ f = UmemFd
                                        \/ \E t \in DOMAIN socks' : f \in socks'[t].prog \cup {socks'[t].fd}
      BY DEF FdsExact
    <2>1. \A t \in DOMAIN socks' : socks[t].prog \cap (x.prog \cup own) = {} /\ socks[t].fd \notin x.prog \cup own
      BY <1>1, <1>2 DEF XskTypeOK, UmemFd, Fd
    <2>2. UmemFd \notin x.prog \cup own
      BY <1>1 DEF XskTypeOK, UmemFd, Fd
    <2> HIDE DEF own
    <2>3. f \in x.prog \cup {x.fd} => f \in x.prog \cup own \/ f = UmemFd
      BY DEF own
    <2> QED
      BY <1>1, <1>2, <1>5, <2>1, <2>2, <2>3 DEF FdsExact
  <1>9. MapsExact' /\ LostApart'
    <2>1. \A t \in DOMAIN socks' : Rings(t, socks[t]) \cap Rings(s, x) = {}
      BY <1>1, <1>2 DEF Rings
    <2>2. UmemRings \cap Rings(s, x) = {} /\ lost.maps \cap Rings(s, x) = {}
      BY <1>1 DEF UmemRings, Rings, LostApart
    <2> HIDE DEF x
    <2>3. MapsExact'
      <3> SUFFICES ASSUME NEW m
                   PROVE  m \in xmaps' <=> \/ umem'.live /\ m \in UmemRings
                                           \/ \E t \in DOMAIN socks' : m \in Rings(t, socks'[t])
                                           \/ m \in lost'.maps
        BY DEF MapsExact
      <3>1. (\E t \in DOMAIN socks : m \in Rings(t, socks[t]))
              <=> \/ \E t \in DOMAIN socks' : m \in Rings(t, socks'[t])
                  \/ m \in Rings(s, x)
        BY <1>1, <1>2 DEF x
      <3> QED
        BY <1>2, <1>4, <1>5, <2>1, <2>2, <3>1 DEF MapsExact
    <2>4. LostApart'
      BY <1>2, <1>4, <1>5, <2>1, <2>2 DEF LostApart
    <2> QED
      BY <2>3, <2>4
  <1> QED
    BY <1>6, <1>7, <1>8, <1>9

(* The descriptors, the mappings and the references of umem and sockets are *)
(* accounted for after every call, whichever system call failed in it, and  *)
(* a packet of a queue goes to the socket of that queue: for any number of  *)
(* sockets and any sequence of calls.                                       *)
THEOREM XskResources == XskSpec => []XskExact
  <1>1. XskInv /\ [XskNext]_xvars => XskInv'
    <2> SUFFICES ASSUME XskInv, [XskNext]_xvars PROVE XskInv'
      OBVIOUS
    <2>1. CASE UNCHANGED xvars
      BY <2>1 DEF XskInv, xvars, XskTypeOK, FdsExact, MapsExact, RefsExact, LostApart, QueuesExact
    <2> QED
      BY <2>1, UmemCreateStep, UmemDeleteStep, SocketCreateStep, SocketDeleteStep DEF XskNext
  <1> QED
    BY <1>1, XskInitInv, XskInvSuffices, PTL DEF XskSpec

-----------------------------------------------------------------------------
(* Perf buffers and links                                                   *)

(* The word at a position, and whether CPU c has a buffer.                  *)
Word(r, x) == r.words[x % RingWords]
Live(c) == pb.open /\ c < pb.cpu_cnt
(* Where the reader of CPU c is.                                             *)
Pos(c) == IF poll.cpu = c THEN poll.tail ELSE prings[c].data_tail
(* The types of records.                                                    *)
WordTypes == {"sample", "other", "lost"}

(* The words from one position to another are those of whole records.        *)
Tiled(r, from, to) ==
  \A x \in from .. to - 1 :
    LET w == Word(r, x)
    IN  /\ w[1] \in WordTypes /\ w[2] \in Nat /\ w[3] \in Nat /\ w[4] \in 1 .. w[3]
        /\ from <= x - w[4] + 1 /\ x - w[4] + 1 + w[3] <= to
        /\ \A j \in 1 .. w[3] : Word(r, x - w[4] + j) = <<w[1], w[2], w[3], j>>
(* A record of lost ones is one word long and not the last.                 *)
LostNext(r, from, to) ==
  \A x \in from .. to - 1 :
    Word(r, x)[1] = "lost" =>
      Word(r, x)[3] = 1 /\ x + 1 < to /\ Word(r, x + 1)[1] # "lost" /\ Word(r, x + 1)[4] = 1
(* What is at position x goes on from record id; last is the last record    *)
(* the kernel put there.                                                    *)
Follows(r, x, to, id, last) ==
  IF x = to THEN id = last
  ELSE IF Word(r, x)[1] # "lost" THEN Word(r, x)[2] = id + 1
  ELSE Word(r, x + 1)[2] = id + Word(r, x)[2] + 1
(* Each record goes on from the one before it.                              *)
Numbered(r, from, to, last) ==
  \A x \in from .. to - 1 :
    Word(r, x)[4] = 1 /\ Word(r, x)[1] # "lost" =>
      Follows(r, x + Word(r, x)[3], to, Word(r, x)[2], last)
(* From one position to another there are whole records, one after the      *)
(* other without a gap that is not accounted for.                           *)
Ordered(r, from, to, n, last) ==
  Tiled(r, from, to) /\ LostNext(r, from, to) /\ Numbered(r, from, to, last) /\ Follows(r, from, to, n, last)
(* A record begins at x, or nothing does yet.                               *)
Boundary(r, x, to) == x = to \/ Word(r, x)[4] = 1

(* A ring whose reader is at a position and has accounted for n records.     *)
InOrder(r, pos, n, last) ==
  /\ pos \in Nat /\ r.data_tail <= pos /\ pos <= r.data_head /\ r.data_head - r.data_tail <= RingWords
  /\ Ordered(r, pos, r.data_head, n, last)
(* The ring of CPU c.                                                       *)
RingInOrder(c) == InOrder(prings[c], Pos(c), seen[c], kern[c].made - kern[c].lost)

(* What a ring is made of.                                                   *)
IsRing(r) ==
  /\ DOMAIN r = {"data_head", "data_tail", "words", "buf_size"} /\ DOMAIN r.words = 0 .. RingWords - 1
  /\ r.data_head \in Nat /\ r.data_tail \in Nat

(* The types of the state of a perf buffer.                                 *)
PerfTypeOK ==
  /\ pb.open \in BOOLEAN
  /\ kern \in [Cpus -> [made : Nat, lost : Nat]] /\ seen \in [Cpus -> Nat]
  /\ prings = [c \in Cpus |-> prings[c]] /\ pmap = [c \in Cpus |-> pmap[c]]
  /\ \A c \in Cpus : IsRing(prings[c])
(* The reader is at one of the rings, and has the others still to do.        *)
Reading(p, rings) ==
  /\ p \in [todo : Seq(Cpus), cpu : Cpus, head : Nat, tail : Nat, ret : {CONT, "done", "error"}]
  /\ Live(p.cpu) /\ \A i \in DOMAIN p.todo : p.todo[i] # p.cpu /\ Live(p.todo[i])
  /\ \A i, j \in DOMAIN p.todo : p.todo[i] = p.todo[j] => i = j
  /\ p.tail <= p.head /\ p.head <= rings[p.cpu].data_head
  /\ Boundary(rings[p.cpu], p.head, rings[p.cpu].data_head)
(* The poll, the rings, and the resources.                                  *)
PollInv == poll = NotPolling \/ Reading(poll, prings)
RingsInv == \A c \in Cpus : IF Live(c) THEN RingInOrder(c) ELSE prings[c] = NoRing
ResourcesInv ==
  /\ intact
  /\ pfds = IF pb.open THEN {<<"epoll", 0>>} \cup {<<"perf", c>> : c \in 0 .. pb.cpu_cnt - 1} ELSE {}
  /\ \A c \in Cpus : pmap[c] = "mine" <=> Live(c)
  /\ links = {n \in DOMAIN events : events[n] = "enabled"}
(* The inductive invariant of perf buffers and links.                       *)
PerfInv == PerfTypeOK /\ PollInv /\ RingsInv /\ ResourcesInv

(* A ring has words.                                                        *)
LEMMA WordsNumber == RingWords \in Nat \ {0}
  BY PerfAssumption

(* The slot of position h + k is k behind that of h.                         *)
LEMMA SlotBehind ==
  ASSUME NEW h \in Nat, NEW x \in Nat, NEW k \in 0 .. RingWords - 1, x = h + k \/ x = h + k - RingWords
  PROVE  ((x % RingWords) + RingWords - (h % RingWords)) % RingWords = k
  <1> DEFINE n == RingWords
             a == h % n
             b == x % n
             p == h \div n
             s == x \div n
  <1>0. n \in Nat \ {0} /\ h \in Int /\ x \in Int
    BY WordsNumber
  <1>1. a \in 0 .. n - 1 /\ h = n * p + a /\ p \in Int
    BY <1>0, ModForm
  <1>2. b \in 0 .. n - 1 /\ x = n * s + b /\ s \in Int
    BY <1>0, ModForm
  <1> HIDE DEF a, b, p, s, n
  <1>3. PICK q \in Int : x = h + n * q + k /\ k \in 0 .. n - 1
    <2>1. n * 0 = 0 /\ n * (-1) = -n
      BY <1>0
    <2>2. CASE x = h + k
      BY <1>0, <2>1, <2>2 DEF n
    <2>3. CASE x = h + k - n
      BY <1>0, <2>1, <2>3 DEF n
    <2> QED
      BY <2>2, <2>3 DEF n
  <1> DEFINE z == p + q - s + 1
  <1>4. z \in Int /\ b + n - a = n * z + k
    <2>1. n * s + b = n * p + a + n * q + k
      BY <1>1, <1>2, <1>3
    <2>2. n * z = n * p + n * q - n * s + n
      BY <1>0, <1>1, <1>2
    <2> HIDE DEF z
    <2> QED
      <3>1. z \in Int
        BY <1>1, <1>2 DEF z
      <3> QED
        BY <1>0, <1>1, <1>2, <1>3, <2>1, <2>2, <3>1
  <1> HIDE DEF z
  <1>5. (n * z + k) % n = k
    BY <1>0, <1>3, <1>4, ModUnique
  <1> QED
    BY <1>4, <1>5 DEF n, a, b

(* What the kernel writes, and that it keeps the words that are not a full  *)
(* ring behind.                                                             *)
LEMMA WrittenIs ==
  ASSUME NEW r, IsRing(r), NEW type, NEW id, NEW size \in 1 .. RingWords
  PROVE  LET s == Written(r, type, id, size)
             h == r.data_head
         IN  /\ IsRing(s) /\ s.data_head = h + size /\ s.data_tail = r.data_tail
             /\ \A x \in h .. h + size - 1 : Word(s, x) = <<type, id, size, x - h + 1>>
             /\ \A x \in Nat : h + size - RingWords <= x /\ x < h => Word(s, x) = Word(r, x)
  <1> DEFINE s == Written(r, type, id, size)
             h == r.data_head
             At(i) == (i + RingWords - (h % RingWords)) % RingWords
  <1>0. RingWords \in Nat \ {0} /\ h \in Nat /\ size \in Nat
    BY WordsNumber DEF IsRing
  <1>1. s.words = [i \in 0 .. RingWords - 1 |-> IF At(i) < size THEN <<type, id, size, At(i) + 1>> ELSE r.words[i]]
    BY DEF Written, IsRing
  <1>2. s.data_head = h + size /\ s.data_tail = r.data_tail /\ s.buf_size = r.buf_size
    BY DEF Written, IsRing
  <1>3. IsRing(s)
    <2>1. DOMAIN s = {"data_head", "data_tail", "words", "buf_size"}
      BY DEF Written, IsRing
    <2>2. DOMAIN s.words = 0 .. RingWords - 1
      BY <1>1
    <2>3. s.data_head \in Nat /\ s.data_tail \in Nat
      BY <1>0, <1>2 DEF IsRing
    <2> QED
      BY <2>1, <2>2, <2>3 DEF IsRing
  <1> HIDE DEF h, s
  <1>4. ASSUME NEW x \in h .. h + size - 1 PROVE Word(s, x) = <<type, id, size, x - h + 1>>
    <2> DEFINE k == x - h
    <2>1. k \in 0 .. RingWords - 1 /\ x = h + k /\ k < size /\ x \in Nat
      BY <1>0
    <2>2. x % RingWords \in 0 .. RingWords - 1
      BY <1>0, ModForm
    <2> HIDE DEF k
    <2>3. At(x % RingWords) = k
      BY <1>0, <2>1, SlotBehind
    <2>4. s.words[x % RingWords] = <<type, id, size, k + 1>>
      <3> HIDE DEF At
      <3> QED
        BY <1>1, <2>1, <2>2, <2>3
    <2> QED
      BY <2>4 DEF Word, k
  <1>5. ASSUME NEW x \in Nat, h + size - RingWords <= x, x < h PROVE Word(s, x) = Word(r, x)
    <2> DEFINE k == x - h + RingWords
    <2>1. k \in 0 .. RingWords - 1 /\ x = h + k - RingWords /\ ~(k < size)
      BY <1>0, <1>5
    <2>2. x % RingWords \in 0 .. RingWords - 1
      BY <1>0, ModForm
    <2> HIDE DEF k
    <2>3. At(x % RingWords) = k
      BY <1>0, <2>1, SlotBehind
    <2>4. s.words[x % RingWords] = r.words[x % RingWords]
      <3> HIDE DEF At
      <3> QED
        BY <1>1, <2>1, <2>2, <2>3
    <2> QED
      BY <2>4 DEF Word
  <1> QED
    BY <1>2, <1>3, <1>4, <1>5 DEF s, h

(* s is r with a record behind position h.                                   *)
Grown(r, s, from, h, type, id, size) ==
  /\ from \in Nat /\ h \in Nat /\ from <= h /\ size \in Nat \ {0} /\ type \in WordTypes /\ id \in Nat
  /\ \A x \in h .. h + size - 1 : Word(s, x) = <<type, id, size, x - h + 1>>
  /\ \A x \in from .. h - 1 : Word(s, x) = Word(r, x)

(* With a record behind whole records there are whole records.              *)
LEMMA TiledMore ==
  ASSUME NEW r, NEW s, NEW from, NEW h, NEW type, NEW id, NEW size,
         Grown(r, s, from, h, type, id, size), Tiled(r, from, h)
  PROVE  Tiled(s, from, h + size)
  <1>0. from \in Nat /\ h \in Nat /\ from <= h /\ size \in Nat \ {0} /\ type \in WordTypes /\ id \in Nat
    BY DEF Grown
  <1> SUFFICES ASSUME NEW x \in from .. (h + size) - 1
               PROVE  LET w == Word(s, x)
                      IN  /\ w[1] \in WordTypes /\ w[2] \in Nat /\ w[3] \in Nat /\ w[4] \in 1 .. w[3]
                          /\ from <= x - w[4] + 1 /\ x - w[4] + 1 + w[3] <= h + size
                          /\ \A j \in 1 .. w[3] : Word(s, x - w[4] + j) = <<w[1], w[2], w[3], j>>
    BY DEF Tiled
  <1>1. CASE x < h
    <2> DEFINE w == Word(r, x)
    <2>1. x \in from .. h - 1 /\ Word(s, x) = w
      BY <1>0, <1>1 DEF Grown
    <2>2. /\ w[1] \in WordTypes /\ w[2] \in Nat /\ w[3] \in Nat /\ w[4] \in 1 .. w[3]
          /\ from <= x - w[4] + 1 /\ x - w[4] + 1 + w[3] <= h
          /\ \A j \in 1 .. w[3] : Word(r, x - w[4] + j) = <<w[1], w[2], w[3], j>>
      BY <2>1 DEF Tiled
    <2> HIDE DEF w
    <2>3. ASSUME NEW j \in 1 .. w[3] PROVE Word(s, x - w[4] + j) = <<w[1], w[2], w[3], j>>
      <3>1. x - w[4] + j \in from .. h - 1
        BY <1>0, <2>1, <2>2
      <3>2. Word(s, x - w[4] + j) = Word(r, x - w[4] + j)
        BY <3>1 DEF Grown
      <3> QED
        BY <2>2, <3>2
    <2>4. x - w[4] + 1 + w[3] <= h + size
      BY <1>0, <2>1, <2>2
    <2> QED
      BY <2>1, <2>2, <2>3, <2>4
  <1>2. CASE x >= h
    <2> DEFINE k == x - h + 1
    <2>1. x \in h .. h + size - 1 /\ k \in 1 .. size /\ x - k + 1 = h /\ \A j : j \in Nat => x - k + j = h + j - 1
      BY <1>0, <1>2
    <2>2. Word(s, x) = <<type, id, size, k>>
      BY <2>1 DEF Grown
    <2>3. ASSUME NEW j \in 1 .. size PROVE Word(s, x - k + j) = <<type, id, size, j>>
      <3>1. h + j - 1 \in h .. h + size - 1 /\ (h + j - 1) - h + 1 = j /\ x - k + j = h + j - 1
        BY <1>0, <2>1
      <3>2. Word(s, h + j - 1) = <<type, id, size, (h + j - 1) - h + 1>>
        BY <3>1 DEF Grown
      <3> HIDE DEF k
      <3> QED
        BY <3>1, <3>2
    <2> HIDE DEF k
    <2>4. Word(s, x)[1] = type /\ Word(s, x)[2] = id /\ Word(s, x)[3] = size /\ Word(s, x)[4] = k
      BY <2>2
    <2>5. from <= x - k + 1 /\ x - k + 1 + size <= h + size
      BY <1>0, <2>1
    <2> QED
      BY <1>0, <2>1, <2>3, <2>4, <2>5
  <1> QED
    BY <1>0, <1>1, <1>2

(* What the record at the end says.                                          *)
LEMMA GrownAt ==
  ASSUME NEW r, NEW s, NEW from, NEW h, NEW type, NEW id, NEW size, Grown(r, s, from, h, type, id, size)
  PROVE  /\ \A x \in h .. h + size - 1 : Word(s, x)[1] = type /\ Word(s, x)[2] = id /\ Word(s, x)[3] = size
                                         /\ Word(s, x)[4] = x - h + 1
         /\ Word(s, h)[1] = type /\ Word(s, h)[2] = id /\ Word(s, h)[3] = size /\ Word(s, h)[4] = 1
  <1>1. ASSUME NEW x \in h .. h + size - 1
        PROVE  Word(s, x)[1] = type /\ Word(s, x)[2] = id /\ Word(s, x)[3] = size /\ Word(s, x)[4] = x - h + 1
    <2> DEFINE k == x - h + 1
    <2> HIDE DEF k
    <2>1. Word(s, x) = <<type, id, size, k>>
      BY DEF Grown, k
    <2>2. Word(s, x)[1] = type /\ Word(s, x)[2] = id /\ Word(s, x)[3] = size /\ Word(s, x)[4] = k
      BY <2>1
    <2> QED
      BY <2>2 DEF k
  <1>2. h \in h .. h + size - 1 /\ h - h + 1 = 1
    BY DEF Grown
  <1> QED
    BY <1>1, <1>2

(* A record behind the others, and no record was lost before it.             *)
LEMMA FollowsMore ==
  ASSUME NEW r, NEW s, NEW from, NEW h, NEW type, NEW id, NEW size,
         Grown(r, s, from, h, type, id, size), type # "lost", LostNext(r, from, h),
         NEW x \in from .. h, NEW n \in Nat, Follows(r, x, h, n, id - 1)
  PROVE  Follows(s, x, h + size, n, id)
  <1>0. from \in Nat /\ h \in Nat /\ from <= h /\ size \in Nat \ {0} /\ type \in WordTypes /\ id \in Nat
    BY DEF Grown
  <1>1. x # h + size /\ x \in Nat
    BY <1>0
  <1>2. CASE x = h
    <2>1. n = id - 1
      BY <1>2 DEF Follows
    <2>2. Word(s, x)[1] # "lost" /\ Word(s, x)[2] = n + 1
      BY <1>0, <1>2, <2>1, GrownAt
    <2> QED
      BY <1>1, <2>2 DEF Follows
  <1>3. CASE x # h
    <2>1. x \in from .. h - 1 /\ Word(s, x) = Word(r, x)
      BY <1>0, <1>3 DEF Grown
    <2>2. CASE Word(r, x)[1] # "lost"
      BY <1>1, <1>3, <2>1, <2>2 DEF Follows
    <2>3. CASE Word(r, x)[1] = "lost"
      <3>1. x + 1 \in from .. h - 1
        BY <1>0, <2>1, <2>3 DEF LostNext
      <3>2. Word(s, x + 1) = Word(r, x + 1)
        BY <3>1 DEF Grown
      <3> QED
        BY <1>1, <1>3, <2>1, <2>3, <3>2 DEF Follows
    <2> QED
      BY <2>2, <2>3
  <1> QED
    BY <1>2, <1>3

(* Where the record that begins at x ends.                                  *)
LEMMA RecordEnd ==
  ASSUME NEW r, NEW from \in Nat, NEW to \in Nat, Tiled(r, from, to), NEW x \in from .. to - 1, Word(r, x)[4] = 1
  PROVE  Word(r, x)[3] \in Nat \ {0} /\ x + Word(r, x)[3] \in from .. to /\ Word(r, x)[2] \in Nat
  <1> DEFINE w == Word(r, x)
  <1>1. w[2] \in Nat /\ w[3] \in Nat /\ w[4] \in 1 .. w[3] /\ x - w[4] + 1 + w[3] <= to /\ w[4] = 1
    BY DEF Tiled
  <1> HIDE DEF w
  <1>2. w[3] \in Nat \ {0} /\ x + w[3] \in from .. to
    BY <1>1
  <1> QED
    BY <1>1, <1>2 DEF w

(* A record behind the others, when none was lost before it.                *)
LEMMA OrderedMore ==
  ASSUME NEW r, NEW s, NEW from, NEW h, NEW type, NEW id, NEW size, NEW n \in Nat,
         Grown(r, s, from, h, type, id, size), type # "lost", Ordered(r, from, h, n, id - 1)
  PROVE  Ordered(s, from, h + size, n, id)
  <1>0. from \in Nat /\ h \in Nat /\ from <= h /\ size \in Nat \ {0} /\ type \in WordTypes /\ id \in Nat
    BY DEF Grown
  <1>1. Tiled(r, from, h) /\ LostNext(r, from, h) /\ Numbered(r, from, h, id - 1) /\ Follows(r, from, h, n, id - 1)
    BY DEF Ordered
  <1>2. Tiled(s, from, h + size)
    BY <1>1, TiledMore
  <1>3. Follows(s, from, h + size, n, id)
    BY <1>0, <1>1, FollowsMore
  <1>4. LostNext(s, from, h + size)
    <2> SUFFICES ASSUME NEW x \in from .. (h + size) - 1, Word(s, x)[1] = "lost"
                 PROVE  Word(s, x)[3] = 1 /\ x + 1 < h + size /\ Word(s, x + 1)[1] # "lost" /\ Word(s, x + 1)[4] = 1
      BY DEF LostNext
    <2>1. x \in from .. h - 1
      <3>1. ASSUME x >= h PROVE FALSE
        <4>1. x \in h .. h + size - 1
          BY <1>0, <3>1
        <4>2. Word(s, x)[1] = type
          BY <4>1, GrownAt
        <4> QED
          BY <4>2
      <3> QED
        BY <1>0, <3>1
    <2>2. Word(s, x) = Word(r, x)
      BY <2>1 DEF Grown
    <2>3. Word(r, x)[3] = 1 /\ x + 1 < h /\ Word(r, x + 1)[1] # "lost" /\ Word(r, x + 1)[4] = 1
      BY <1>1, <2>1, <2>2 DEF LostNext
    <2>4. Word(s, x + 1) = Word(r, x + 1) /\ x + 1 < h + size
      BY <1>0, <2>1, <2>3 DEF Grown
    <2> QED
      BY <2>2, <2>3, <2>4
  <1>5. Numbered(s, from, h + size, id)
    <2> SUFFICES ASSUME NEW x \in from .. (h + size) - 1, Word(s, x)[4] = 1, Word(s, x)[1] # "lost"
                 PROVE  Follows(s, x + Word(s, x)[3], h + size, Word(s, x)[2], id)
      BY DEF Numbered
    <2>1. CASE x < h
      <3>1. x \in from .. h - 1 /\ Word(s, x) = Word(r, x)
        BY <1>0, <2>1 DEF Grown
      <3>2. x + Word(r, x)[3] \in from .. h /\ Word(r, x)[2] \in Nat
        BY <1>0, <1>1, <3>1, RecordEnd
      <3>3. Follows(r, x + Word(r, x)[3], h, Word(r, x)[2], id - 1)
        BY <1>1, <3>1 DEF Numbered
      <3> QED
        BY <1>1, <3>1, <3>2, <3>3, FollowsMore
    <2>2. CASE x >= h
      <3>1. x \in h .. h + size - 1
        BY <1>0, <2>2
      <3>2. Word(s, x)[2] = id /\ Word(s, x)[3] = size /\ Word(s, x)[4] = x - h + 1
        BY <3>1, GrownAt
      <3>3. x = h
        BY <1>0, <3>1, <3>2
      <3> QED
        BY <3>2, <3>3 DEF Follows
    <2> QED
      BY <1>0, <2>1, <2>2
  <1> QED
    BY <1>2, <1>3, <1>4, <1>5 DEF Ordered

(* A record that tells of lost ones, and one behind it.                      *)
Told(r, t, s, from, h, k, type, id, size) ==
  /\ Grown(r, t, from, h, "lost", k, 1) /\ Grown(t, s, from, h + 1, type, id, size) /\ type # "lost"

(* What the two records say.                                                *)
LEMMA ToldAt ==
  ASSUME NEW r, NEW t, NEW s, NEW from, NEW h, NEW k, NEW type, NEW id, NEW size,
         Told(r, t, s, from, h, k, type, id, size)
  PROVE  /\ from \in Nat /\ h \in Nat /\ from <= h /\ size \in Nat \ {0} /\ k \in Nat /\ id \in Nat
         /\ \A x \in from .. h - 1 : Word(s, x) = Word(r, x)
         /\ Word(s, h)[1] = "lost" /\ Word(s, h)[2] = k /\ Word(s, h)[3] = 1 /\ Word(s, h)[4] = 1
         /\ Word(s, h + 1)[1] = type /\ Word(s, h + 1)[2] = id /\ Word(s, h + 1)[3] = size /\ Word(s, h + 1)[4] = 1
         /\ \A x \in h + 1 .. (h + 1 + size) - 1 : Word(s, x)[1] = type /\ Word(s, x)[4] = x - (h + 1) + 1
  <1>0. from \in Nat /\ h \in Nat /\ from <= h /\ size \in Nat \ {0} /\ k \in Nat /\ id \in Nat
    BY DEF Told, Grown
  <1>1. Grown(r, t, from, h, "lost", k, 1) /\ Grown(t, s, from, h + 1, type, id, size)
    BY DEF Told
  <1>2. ASSUME NEW x \in from .. h - 1 PROVE Word(s, x) = Word(r, x)
    <2>1. x \in from .. (h + 1) - 1
      BY <1>0
    <2> QED
      BY <1>1, <2>1 DEF Grown
  <1>3. Word(s, h) = Word(t, h)
    <2>1. h \in from .. (h + 1) - 1
      BY <1>0
    <2> QED
      BY <1>1, <2>1 DEF Grown
  <1>4. Word(t, h)[1] = "lost" /\ Word(t, h)[2] = k /\ Word(t, h)[3] = 1 /\ Word(t, h)[4] = 1
    BY <1>1, GrownAt
  <1>5. Word(s, h + 1)[1] = type /\ Word(s, h + 1)[2] = id /\ Word(s, h + 1)[3] = size /\ Word(s, h + 1)[4] = 1
    BY <1>1, GrownAt
  <1>6. ASSUME NEW x \in h + 1 .. (h + 1 + size) - 1 PROVE Word(s, x)[1] = type /\ Word(s, x)[4] = x - (h + 1) + 1
    <2>1. x \in h + 1 .. (h + 1) + size - 1
      BY <1>0
    <2> QED
      BY <1>1, <2>1, GrownAt
  <1> QED
    BY <1>0, <1>2, <1>3, <1>4, <1>5, <1>6

(* What follows a position, when the record of lost ones is written.        *)
LEMMA FollowsTold ==
  ASSUME NEW r, NEW t, NEW s, NEW from, NEW h, NEW k, NEW type, NEW id, NEW size,
         Told(r, t, s, from, h, k, type, id, size), LostNext(r, from, h),
         NEW x \in from .. h, NEW n \in Nat, Follows(r, x, h, n, id - 1 - k)
  PROVE  Follows(s, x, h + 1 + size, n, id)
  <1>0. from \in Nat /\ h \in Nat /\ from <= h /\ size \in Nat \ {0} /\ k \in Nat /\ id \in Nat
    BY ToldAt
  <1>1. x # h + 1 + size /\ x \in Nat
    BY <1>0
  <1>2. CASE x = h
    <2>1. n = id - 1 - k
      BY <1>2 DEF Follows
    <2>2. Word(s, x)[1] = "lost" /\ Word(s, x + 1)[2] = id /\ Word(s, x)[2] = k
      BY <1>2, ToldAt
    <2>3. id = n + k + 1
      BY <1>0, <2>1
    <2> QED
      BY <1>1, <2>2, <2>3 DEF Follows
  <1>3. CASE x # h
    <2>1. x \in from .. h - 1
      BY <1>0, <1>3
    <2>2. Word(s, x) = Word(r, x)
      BY <2>1, ToldAt
    <2>3. CASE Word(r, x)[1] # "lost"
      BY <1>1, <1>3, <2>2, <2>3 DEF Follows
    <2>4. CASE Word(r, x)[1] = "lost"
      <3>1. x + 1 \in from .. h - 1
        BY <1>0, <2>1, <2>4 DEF LostNext
      <3>2. Word(s, x + 1) = Word(r, x + 1)
        BY <3>1, ToldAt
      <3> QED
        BY <1>1, <1>3, <2>2, <2>4, <3>2 DEF Follows
    <2> QED
      BY <2>3, <2>4
  <1> QED
    BY <1>2, <1>3

(* A record behind one that tells of the k that were lost.                  *)
LEMMA OrderedTold ==
  ASSUME NEW r, NEW t, NEW s, NEW from, NEW h, NEW k, NEW type, NEW id, NEW size, NEW n \in Nat,
         Told(r, t, s, from, h, k, type, id, size), Ordered(r, from, h, n, id - 1 - k)
  PROVE  Ordered(s, from, h + 1 + size, n, id)
  <1>0. from \in Nat /\ h \in Nat /\ from <= h /\ size \in Nat \ {0} /\ k \in Nat /\ id \in Nat /\ type # "lost"
    BY ToldAt DEF Told
  <1> DEFINE to == h + 1 + size
  <1>1. Tiled(r, from, h) /\ LostNext(r, from, h) /\ Numbered(r, from, h, id - 1 - k) /\ Follows(r, from, h, n, id - 1 - k)
    BY DEF Ordered
  <1>2. Tiled(s, from, to)
    <2>1. Tiled(t, from, h + 1)
      BY <1>1, TiledMore DEF Told
    <2> QED
      BY <2>1, TiledMore DEF Told
  <1>3. Follows(s, from, to, n, id)
    BY <1>0, <1>1, FollowsTold
  <1>t. to \in Nat /\ to - 1 = h + size
    BY <1>0
  <1>4. LostNext(s, from, to)
    <2> SUFFICES ASSUME NEW x \in from .. to - 1, Word(s, x)[1] = "lost"
                 PROVE  Word(s, x)[3] = 1 /\ x + 1 < to /\ Word(s, x + 1)[1] # "lost" /\ Word(s, x + 1)[4] = 1
      BY DEF LostNext
    <2>1. CASE x < h
      <3>1. x \in from .. h - 1
        BY <1>0, <1>t, <2>1
      <3>2. Word(s, x) = Word(r, x)
        BY <3>1, ToldAt
      <3>3. Word(r, x)[3] = 1 /\ x + 1 < h /\ Word(r, x + 1)[1] # "lost" /\ Word(r, x + 1)[4] = 1
        BY <1>1, <3>1, <3>2 DEF LostNext
      <3>4. x + 1 \in from .. h - 1 /\ x + 1 < to
        BY <1>0, <3>1, <3>3
      <3>5. Word(s, x + 1) = Word(r, x + 1)
        BY <3>4, ToldAt
      <3> QED
        BY <3>2, <3>3, <3>4, <3>5
    <2>2. CASE x = h
      <3>1. x + 1 < to
        BY <1>0, <2>2
      <3> QED
        BY <1>0, <2>2, <3>1, ToldAt
    <2>3. CASE x > h
      <3>1. x \in h + 1 .. (h + 1 + size) - 1
        BY <1>0, <1>t, <2>3
      <3>2. Word(s, x)[1] = type
        BY <3>1, ToldAt
      <3> QED
        BY <1>0, <3>2
    <2> QED
      BY <1>0, <1>t, <2>1, <2>2, <2>3
  <1>5. Numbered(s, from, to, id)
    <2> SUFFICES ASSUME NEW x \in from .. to - 1, Word(s, x)[4] = 1, Word(s, x)[1] # "lost"
                 PROVE  Follows(s, x + Word(s, x)[3], to, Word(s, x)[2], id)
      BY DEF Numbered
    <2>1. CASE x < h
      <3>1. x \in from .. h - 1
        BY <1>0, <1>t, <2>1
      <3>2. Word(s, x) = Word(r, x)
        BY <3>1, ToldAt
      <3>3. x + Word(r, x)[3] \in from .. h /\ Word(r, x)[2] \in Nat
        BY <1>0, <1>1, <3>1, <3>2, RecordEnd
      <3>4. Follows(r, x + Word(r, x)[3], h, Word(r, x)[2], id - 1 - k)
        BY <1>1, <3>1, <3>2 DEF Numbered
      <3> QED
        BY <1>1, <3>2, <3>3, <3>4, FollowsTold
    <2>2. CASE x = h
      BY <2>2, ToldAt
    <2>3. CASE x > h
      <3>1. x \in h + 1 .. (h + 1 + size) - 1
        BY <1>0, <1>t, <2>3
      <3>2. Word(s, x)[4] = x - (h + 1) + 1
        BY <3>1, ToldAt
      <3>3. x = h + 1
        BY <1>0, <3>1, <3>2
      <3>4. Word(s, x)[2] = id /\ Word(s, x)[3] = size
        BY <3>3, ToldAt
      <3> QED
        BY <3>3, <3>4 DEF Follows
    <2> QED
      BY <1>0, <1>t, <2>1, <2>2, <2>3
  <1> QED
    BY <1>2, <1>3, <1>4, <1>5 DEF Ordered

(* What the kernel makes of a ring that has room.                            *)
Output(r, k, type, size) ==
  Written(IF k.lost > 0 THEN Written(r, "lost", k.lost, 1) ELSE r, type, k.made + 1, size)

(* s is r with more behind it.                                              *)
Longer(r, s, pos, n, last) ==
  /\ IsRing(s) /\ InOrder(s, pos, n, last) /\ r.data_head < s.data_head
  /\ Word(s, r.data_head)[4] = 1 /\ \A x \in pos .. r.data_head - 1 : Word(s, x) = Word(r, x)

(* The kernel keeps the ring in order.                                      *)
LEMMA OutputOrdered ==
  ASSUME NEW r, IsRing(r), NEW k, k.made \in Nat, k.lost \in Nat, NEW type \in {"sample", "other"}, NEW size \in Nat \ {0},
         NEW pos, NEW n \in Nat, InOrder(r, pos, n, k.made - k.lost),
         r.data_head + (size + (IF k.lost > 0 THEN 1 ELSE 0)) - r.data_tail <= RingWords
  PROVE  Longer(r, Output(r, k, type, size), pos, n, k.made + 1)
  <1> DEFINE s == Output(r, k, type, size)
             h == r.data_head
             l == r.data_tail
             id == k.made + 1
  <1>0. /\ RingWords \in Nat \ {0} /\ h \in Nat /\ l \in Nat /\ pos \in Nat /\ id \in Nat /\ l <= pos /\ pos <= h
        /\ Ordered(r, pos, h, n, k.made - k.lost) /\ type \in WordTypes /\ type # "lost"
    BY WordsNumber DEF IsRing, InOrder, WordTypes
  <1>1. CASE k.lost = 0
    <2>1. s = Written(r, type, id, size) /\ h + size - RingWords <= l /\ size \in 1 .. RingWords
      BY <1>0, <1>1 DEF Output
    <2>2. /\ IsRing(s) /\ s.data_head = h + size /\ s.data_tail = l
          /\ \A x \in h .. h + size - 1 : Word(s, x) = <<type, id, size, x - h + 1>>
          /\ \A x \in Nat : h + size - RingWords <= x /\ x < h => Word(s, x) = Word(r, x)
      BY <2>1, WrittenIs
    <2> HIDE DEF s, h, l, id
    <2>3. \A x \in pos .. h - 1 : Word(s, x) = Word(r, x)
      BY <1>0, <2>1, <2>2
    <2>4. Grown(r, s, pos, h, type, id, size)
      BY <1>0, <2>2, <2>3 DEF Grown
    <2>5. k.made - k.lost = id - 1
      BY <1>1 DEF id
    <2>6. Ordered(s, pos, h + size, n, id)
      BY <1>0, <2>4, <2>5, OrderedMore
    <2>7. Word(s, h)[4] = 1
      BY <2>4, GrownAt
    <2>8. h < s.data_head /\ pos <= s.data_head /\ s.data_head - s.data_tail <= RingWords
      BY <1>0, <2>1, <2>2
    <2>9. InOrder(s, pos, n, id)
      BY <1>0, <2>2, <2>6, <2>8 DEF InOrder
    <2> QED
      BY <2>2, <2>3, <2>7, <2>8, <2>9 DEF s, h, id, Longer
  <1>2. CASE k.lost > 0
    <2> DEFINE t == Written(r, "lost", k.lost, 1)
    <2>1. s = Written(t, type, id, size) /\ h + 1 + size - RingWords <= l /\ size \in 1 .. RingWords /\ 1 \in 1 .. RingWords
      BY <1>0, <1>2 DEF Output
    <2>2. /\ IsRing(t) /\ t.data_head = h + 1 /\ t.data_tail = l
          /\ \A x \in h .. h + 1 - 1 : Word(t, x) = <<"lost", k.lost, 1, x - h + 1>>
          /\ \A x \in Nat : h + 1 - RingWords <= x /\ x < h => Word(t, x) = Word(r, x)
      BY <2>1, WrittenIs
    <2> HIDE DEF t
    <2>3. /\ IsRing(s) /\ s.data_head = t.data_head + size /\ s.data_tail = t.data_tail
          /\ \A x \in t.data_head .. t.data_head + size - 1 : Word(s, x) = <<type, id, size, x - t.data_head + 1>>
          /\ \A x \in Nat : t.data_head + size - RingWords <= x /\ x < t.data_head => Word(s, x) = Word(t, x)
      BY <2>1, <2>2, WrittenIs
    <2> HIDE DEF s, h, l, id
    <2>4. Grown(r, t, pos, h, "lost", k.lost, 1)
      <3>1. \A x \in pos .. h - 1 : Word(t, x) = Word(r, x)
        BY <1>0, <2>1, <2>2
      <3> QED
        BY <1>0, <2>2, <3>1 DEF Grown, WordTypes
    <2>5. Grown(t, s, pos, h + 1, type, id, size)
      <3>1. \A x \in pos .. (h + 1) - 1 : Word(s, x) = Word(t, x)
        BY <1>0, <2>1, <2>2, <2>3
      <3>2. \A x \in h + 1 .. (h + 1) + size - 1 : Word(s, x) = <<type, id, size, x - (h + 1) + 1>>
        BY <2>2, <2>3
      <3> QED
        BY <1>0, <3>1, <3>2 DEF Grown
    <2>6. Told(r, t, s, pos, h, k.lost, type, id, size)
      BY <1>0, <2>4, <2>5 DEF Told
    <2>7. k.made - k.lost = id - 1 - k.lost
      BY DEF id
    <2>8. Ordered(s, pos, h + 1 + size, n, id)
      BY <1>0, <2>6, <2>7, OrderedTold
    <2>9. Word(s, h)[4] = 1 /\ \A x \in pos .. h - 1 : Word(s, x) = Word(r, x)
      BY <2>6, ToldAt
    <2>10. h < s.data_head /\ pos <= s.data_head /\ s.data_head - s.data_tail <= RingWords
      BY <1>0, <2>1, <2>2, <2>3
    <2>11. InOrder(s, pos, n, id)
      BY <1>0, <2>2, <2>3, <2>8, <2>10 DEF InOrder
    <2> QED
      BY <2>3, <2>9, <2>10, <2>11 DEF s, h, id, Longer
  <1> QED
    BY <1>1, <1>2

(* What the reader finds at its position.                                    *)
LEMMA RecordRead ==
  ASSUME NEW r, IsRing(r), NEW from \in Nat, NEW to \in Nat, from < to, to - from <= RingWords, Tiled(r, from, to)
  PROVE  LET w == Word(r, from)
             rec == RecordAt(r, from)
         IN  /\ w[1] \in WordTypes /\ w[2] \in Nat /\ w[3] \in Nat \ {0} /\ w[4] = 1 /\ from + w[3] <= to
             /\ rec = [i \in 1 .. w[3] |-> <<w[1], w[2], w[3], i>>]
             /\ \A i \in 1 .. w[3] : Word(r, from + i - 1) = <<w[1], w[2], w[3], i>>
  <1> DEFINE w == Word(r, from)
             start == from % RingWords
             n == RingWords
             At(i) == IF start + w[3] > n /\ i > n - start THEN r.words[i - (n - start) - 1] ELSE r.words[start + i - 1]
  <1>0. n \in Nat \ {0} /\ from \in from .. to - 1
    BY WordsNumber
  <1>1. /\ w[1] \in WordTypes /\ w[2] \in Nat /\ w[3] \in Nat /\ w[4] \in 1 .. w[3]
        /\ from <= from - w[4] + 1 /\ from - w[4] + 1 + w[3] <= to
        /\ \A j \in 1 .. w[3] : Word(r, from - w[4] + j) = <<w[1], w[2], w[3], j>>
    BY <1>0 DEF Tiled
  <1>2. RecordAt(r, from) = [i \in 1 .. w[3] |-> At(i)]
    BY DEF RecordAt, Word
  <1>3. start \in 0 .. n - 1 /\ from = n * (from \div n) + start /\ from \div n \in Int
    BY <1>0, ModForm
  <1> DEFINE q == from \div n
  <1> HIDE DEF w, start, q, n
  <1>4. w[4] = 1 /\ w[3] \in Nat \ {0} /\ from + w[3] <= to /\ w[3] <= n
    BY <1>0, <1>1 DEF n
  <1>5. ASSUME NEW i \in 1 .. w[3] PROVE Word(r, from + i - 1) = <<w[1], w[2], w[3], i>> /\ At(i) = Word(r, from + i - 1)
    <2>1. Word(r, from - w[4] + i) = <<w[1], w[2], w[3], i>> /\ from - w[4] + i = from + i - 1
      BY <1>1, <1>4
    <2>2. CASE start + i - 1 < n
      <3>1. start + i - 1 \in 0 .. n - 1 /\ from + i - 1 = n * q + (start + i - 1) /\ ~(i > n - start) /\ n * q \in Int
        BY <1>0, <1>3, <1>4, <2>2 DEF q
      <3>2. (n * q + (start + i - 1)) % n = start + i - 1
        BY <1>0, <1>3, <3>1, ModUnique DEF q
      <3>3. Word(r, from + i - 1) = r.words[start + i - 1]
        BY <3>1, <3>2 DEF Word, n
      <3> QED
        BY <2>1, <3>1, <3>3
    <2>3. CASE start + i - 1 >= n
      <3> DEFINE k == start + i - 1 - n
                 p == q + 1
      <3>1. k \in 0 .. n - 1 /\ i > n - start /\ start + w[3] > n /\ i - (n - start) - 1 = k
        BY <1>0, <1>3, <1>4, <2>3
      <3>2. p \in Int /\ n * p = n * q + n /\ from + i - 1 = n * p + k
        BY <1>0, <1>3, <1>4 DEF q
      <3> HIDE DEF k, p
      <3>3. (n * p + k) % n = k
        BY <1>0, <3>1, <3>2, ModUnique
      <3>4. Word(r, from + i - 1) = r.words[k]
        BY <3>2, <3>3 DEF Word, n
      <3> QED
        BY <2>1, <3>1, <3>4
    <2> QED
      BY <1>0, <1>3, <1>4, <2>2, <2>3
  <1>6. RecordAt(r, from) = [i \in 1 .. w[3] |-> <<w[1], w[2], w[3], i>>]
    <2> HIDE DEF At
    <2> QED
      BY <1>2, <1>5
  <1> QED
    BY <1>1, <1>4, <1>5, <1>6 DEF w

(* A record that begins behind the first one begins behind all of it.        *)
LEMMA OrderedNext ==
  ASSUME NEW r, IsRing(r), NEW from \in Nat, NEW to \in Nat, from < to, to - from <= RingWords,
         NEW n \in Nat, NEW last, Ordered(r, from, to, n, last)
  PROVE  LET w == Word(r, from)
             m == n + (IF w[1] = "lost" THEN w[2] ELSE 1)
         IN  m \in Nat /\ (w[1] # "lost" => w[2] = n + 1) /\ Ordered(r, from + w[3], to, m, last)
  <1> DEFINE w == Word(r, from)
             m == n + (IF w[1] = "lost" THEN w[2] ELSE 1)
             next == from + w[3]
  <1>0. Tiled(r, from, to) /\ LostNext(r, from, to) /\ Numbered(r, from, to, last) /\ Follows(r, from, to, n, last)
    BY DEF Ordered
  <1>1. /\ w[1] \in WordTypes /\ w[2] \in Nat /\ w[3] \in Nat \ {0} /\ w[4] = 1 /\ from + w[3] <= to
        /\ \A i \in 1 .. w[3] : Word(r, from + i - 1) = <<w[1], w[2], w[3], i>>
    BY <1>0, RecordRead
  <1>2. from \in from .. to - 1 /\ from # to
    OBVIOUS
  <1>3. Follows(r, next, to, m, last) /\ (w[1] # "lost" => w[2] = n + 1)
    <2>1. CASE w[1] # "lost"
      <3>1. w[2] = n + 1
        BY <1>0, <1>2, <2>1 DEF Follows
      <3>2. Follows(r, from + w[3], to, w[2], last)
        BY <1>0, <1>1, <1>2, <2>1 DEF Numbered
      <3> QED
        BY <2>1, <3>1, <3>2
    <2>2. CASE w[1] = "lost"
      <3>1. w[3] = 1 /\ from + 1 < to /\ Word(r, from + 1)[1] # "lost"
        BY <1>0, <1>2, <2>2 DEF LostNext
      <3>2. Word(r, from + 1)[2] = n + w[2] + 1
        BY <1>0, <1>2, <2>2 DEF Follows
      <3>3. from + 1 # to /\ next = from + 1 /\ m = n + w[2]
        BY <2>2, <3>1
      <3> QED
        BY <2>2, <3>1, <3>2, <3>3 DEF Follows
    <2> QED
      BY <2>1, <2>2
  <1>4. m \in Nat /\ next \in Nat /\ next > from
    BY <1>1
  <1>5. LostNext(r, next, to) /\ Numbered(r, next, to, last)
    <2>1. \A x \in next .. to - 1 : x \in from .. to - 1
      BY <1>4
    <2> HIDE DEF next
    <2> QED
      BY <1>0, <2>1 DEF LostNext, Numbered
  <1>6. Tiled(r, next, to)
    <2> SUFFICES ASSUME NEW x \in next .. to - 1
                 PROVE  LET v == Word(r, x)
                        IN  /\ v[1] \in WordTypes /\ v[2] \in Nat /\ v[3] \in Nat /\ v[4] \in 1 .. v[3]
                            /\ next <= x - v[4] + 1 /\ x - v[4] + 1 + v[3] <= to
                            /\ \A j \in 1 .. v[3] : Word(r, x - v[4] + j) = <<v[1], v[2], v[3], j>>
      BY DEF Tiled
    <2> DEFINE v == Word(r, x)
               b == x - v[4] + 1
    <2>1. x \in from .. to - 1
      BY <1>4
    <2>2. /\ v[1] \in WordTypes /\ v[2] \in Nat /\ v[3] \in Nat /\ v[4] \in 1 .. v[3]
          /\ from <= x - v[4] + 1 /\ x - v[4] + 1 + v[3] <= to
          /\ \A j \in 1 .. v[3] : Word(r, x - v[4] + j) = <<v[1], v[2], v[3], j>>
      BY <1>0, <2>1 DEF Tiled
    <2>3. ASSUME b < next PROVE FALSE
      <3> DEFINE i == b - from + 1
      <3>1. i \in 1 .. w[3] /\ from + i - 1 = b /\ 1 \in 1 .. v[3] /\ b \in Nat
        BY <1>1, <2>1, <2>2, <2>3
      <3> HIDE DEF i, b
      <3>2. Word(r, b) = <<w[1], w[2], w[3], i>>
        BY <1>1, <3>1
      <3>3. Word(r, b) = <<v[1], v[2], v[3], 1>>
        BY <2>2, <3>1 DEF b
      <3>4. i = 1 /\ v[3] = w[3]
        <4> HIDE DEF w, v
        <4> QED
          BY <3>2, <3>3
      <3>5. b = from
        BY <3>1, <3>4
      <3>6. x < b + v[3]
        BY <2>1, <2>2 DEF b
      <3> QED
        BY <1>4, <3>4, <3>5, <3>6
    <2> HIDE DEF v, next
    <2>4. next <= x - v[4] + 1
      BY <1>4, <2>1, <2>2, <2>3
    <2> QED
      BY <2>2, <2>4 DEF v
  <1> QED
    BY <1>3, <1>4, <1>5, <1>6 DEF Ordered

(* A record does not go over a boundary.                                     *)
LEMMA WholeRecords ==
  ASSUME NEW r, IsRing(r), NEW from \in Nat, NEW head \in Nat, NEW to \in Nat, from < head, head <= to, to - from <= RingWords,
         Tiled(r, from, to), Boundary(r, head, to)
  PROVE  from + Word(r, from)[3] <= head
  <1> DEFINE w == Word(r, from)
             i == head - from + 1
  <1>1. /\ w[1] \in WordTypes /\ w[2] \in Nat /\ w[3] \in Nat \ {0} /\ w[4] = 1 /\ from + w[3] <= to
        /\ \A j \in 1 .. w[3] : Word(r, from + j - 1) = <<w[1], w[2], w[3], j>>
    <2>1. from < to
      OBVIOUS
    <2> QED
      BY <2>1, RecordRead
  <1> HIDE DEF w
  <1>2. ASSUME head < from + w[3] PROVE FALSE
    <2>1. i \in 1 .. w[3] /\ from + i - 1 = head /\ i # 1 /\ head # to
      BY <1>1, <1>2
    <2> HIDE DEF i
    <2>2. Word(r, head) = <<w[1], w[2], w[3], i>>
      BY <1>1, <2>1
    <2>3. Word(r, head)[4] = i
      BY <2>2
    <2> QED
      BY <2>1, <2>3 DEF Boundary
  <1> QED
    BY <1>1, <1>2 DEF w

(* The reader's place in a ring that it is not at is the ring's tail.        *)
LEMMA PollIs ==
  ASSUME PollInv
  PROVE  /\ poll = NotPolling => \A c \in Cpus : Pos(c) = prings[c].data_tail
         /\ poll # NotPolling =>
              /\ poll.cpu \in Cpus /\ poll.head \in Nat /\ poll.tail \in Nat /\ poll.todo \in Seq(Cpus)
              /\ poll = [todo |-> poll.todo, cpu |-> poll.cpu, head |-> poll.head, tail |-> poll.tail, ret |-> poll.ret]
  <1>1. PerfCpus \notin Cpus
    BY PerfAssumption DEF Cpus
  <1>2. CASE poll = NotPolling
    <2>1. poll.cpu = PerfCpus
      BY <1>2 DEF NotPolling
    <2> QED
      BY <1>1, <1>2, <2>1 DEF Pos
  <1>3. CASE poll # NotPolling
    BY <1>3 DEF PollInv, Reading
  <1> QED
    BY <1>2, <1>3

(* A record is made: it is written, or lost.                                *)
LEMMA KernelStep ==
  ASSUME PerfInv, NEW c \in Cpus, NEW type \in {"sample", "other"}, NEW size \in Nat \ {0}, KernelOutput(c, type, size)
  PROVE  PerfInv'
  <1> DEFINE r == prings[c]
             k == kern[c]
             s == Output(r, k, type, size)
  <1>0. /\ Live(c) /\ IsRing(r) /\ k.made \in Nat /\ k.lost \in Nat /\ seen[c] \in Nat /\ RingInOrder(c)
        /\ UNCHANGED <<pb, poll, pfds, pmap, seen, intact, events, links>>
    BY DEF PerfInv, PerfTypeOK, RingsInv, KernelOutput, Live, linkvars
  <1>1. PollInv /\ ResourcesInv' /\ \A d \in Cpus : Live(d)' <=> Live(d)
    BY <1>0 DEF PerfInv, ResourcesInv, Live
  <1>2. CASE prings' = prings /\ kern' = [kern EXCEPT ![c] = [made |-> @.made + 1, lost |-> @.lost + 1]]
    <2>1. kern' \in [Cpus -> [made : Nat, lost : Nat]] /\ \A d \in Cpus : kern'[d].made - kern'[d].lost = kern[d].made - kern[d].lost
      <3>1. kern \in [Cpus -> [made : Nat, lost : Nat]]
        BY DEF PerfInv, PerfTypeOK
      <3> QED
        BY <1>2, <3>1
    <2>2. PerfTypeOK'
      BY <1>0, <1>2, <2>1 DEF PerfInv, PerfTypeOK
    <2>3. PollInv'
      BY <1>0, <1>2 DEF PerfInv, PollInv, Reading, Live
    <2>4. RingsInv'
      BY <1>0, <1>2, <2>1 DEF PerfInv, RingsInv, RingInOrder, Live, Pos
    <2> QED
      BY <1>1, <2>2, <2>3, <2>4 DEF PerfInv
  <1>3. CASE /\ ~(r.data_head + (size + (IF k.lost > 0 THEN 1 ELSE 0)) - r.data_tail > RingWords)
             /\ prings' = [prings EXCEPT ![c] = s] /\ kern' = [kern EXCEPT ![c] = [made |-> @.made + 1, lost |-> 0]]
    <2>1. r.data_head + (size + (IF k.lost > 0 THEN 1 ELSE 0)) - r.data_tail <= RingWords
      <3>1. r.data_head \in Nat /\ r.data_tail \in Nat /\ RingWords \in Nat
        BY <1>0, WordsNumber DEF IsRing
      <3> QED
        BY <1>3, <3>1
    <2>2. InOrder(r, Pos(c), seen[c], k.made - k.lost)
      BY <1>0 DEF RingInOrder
    <2>3. /\ IsRing(s) /\ InOrder(s, Pos(c), seen[c], k.made + 1) /\ r.data_head < s.data_head
          /\ Word(s, r.data_head)[4] = 1 /\ \A x \in Pos(c) .. r.data_head - 1 : Word(s, x) = Word(r, x)
      <3> HIDE DEF r, k
      <3>1. Longer(r, Output(r, k, type, size), Pos(c), seen[c], k.made + 1)
        BY <1>0, <2>1, <2>2, OutputOrdered
      <3> QED
        BY <3>1 DEF Longer
    <2> HIDE DEF s
    <2>4. /\ prings'[c] = s /\ kern'[c].made = k.made + 1 /\ kern'[c].lost = 0
          /\ kern' \in [Cpus -> [made : Nat, lost : Nat]]
          /\ \A d \in Cpus \ {c} : prings'[d] = prings[d] /\ kern'[d] = kern[d]
          /\ prings' = [d \in Cpus |-> prings'[d]]
      <3>1. kern \in [Cpus -> [made : Nat, lost : Nat]] /\ prings = [d \in Cpus |-> prings[d]]
        BY DEF PerfInv, PerfTypeOK
      <3>2. prings' = [prings EXCEPT ![c] = s]
        BY <1>3
      <3>3. prings'[c] = s /\ prings' = [d \in Cpus |-> prings'[d]] /\ \A d \in Cpus \ {c} : prings'[d] = prings[d]
        <4> HIDE DEF r, k
        <4> QED
          BY <3>1, <3>2
      <3>4. kern' = [kern EXCEPT ![c] = [made |-> kern[c].made + 1, lost |-> 0]]
        BY <1>3
      <3>5. /\ kern'[c].made = k.made + 1 /\ kern'[c].lost = 0 /\ kern' \in [Cpus -> [made : Nat, lost : Nat]]
            /\ \A d \in Cpus \ {c} : kern'[d] = kern[d]
        BY <3>1, <3>4
      <3> QED
        BY <3>3, <3>5
    <2>5. PerfTypeOK'
      BY <1>0, <2>3, <2>4 DEF PerfInv, PerfTypeOK
    <2>6. s.data_tail = r.data_tail
      <3> HIDE DEF r, k
      <3>1. IsRing(r) /\ 1 \in 1 .. RingWords /\ size \in 1 .. RingWords
        <4>1. r.data_head \in Nat /\ r.data_tail \in Nat /\ RingWords \in Nat \ {0} /\ r.data_tail <= r.data_head
          BY <1>0, <2>2, WordsNumber DEF IsRing, InOrder
        <4> QED
          BY <1>0, <2>1, <4>1
      <3> DEFINE told == IF k.lost > 0 THEN Written(r, "lost", k.lost, 1) ELSE r
      <3>2. IsRing(told) /\ told.data_tail = r.data_tail
        BY <3>1, WrittenIs
      <3> HIDE DEF told
      <3>3. Written(told, type, k.made + 1, size).data_tail = told.data_tail
        BY <3>1, <3>2, WrittenIs
      <3> QED
        BY <3>2, <3>3 DEF s, Output, told
    <2>7. \A d \in Cpus : Pos(d)' = Pos(d)
      BY <1>0, <2>4, <2>6 DEF Pos
    <2>8. PollInv'
      <3>1. CASE poll = NotPolling
        BY <1>0, <3>1 DEF PollInv, Reading, NotPolling
      <3>2. CASE poll # NotPolling /\ poll.cpu # c
        <4>1. poll.cpu \in Cpus /\ prings'[poll.cpu] = prings[poll.cpu]
          BY <1>1, <2>4, <3>2, PollIs
        <4> QED
          BY <1>0, <1>1, <3>2, <4>1 DEF PollInv, Reading, Live
      <3>3. CASE poll # NotPolling /\ poll.cpu = c
        <4>1. /\ Pos(c) = poll.tail /\ poll.tail <= poll.head /\ poll.head <= r.data_head /\ Boundary(r, poll.head, r.data_head)
              /\ poll.tail \in Nat /\ poll.head \in Nat /\ r.data_head \in Nat /\ s.data_head \in Nat
          BY <1>0, <1>1, <2>3, <3>3 DEF PollInv, Reading, Pos, IsRing
        <4>2. poll.head <= s.data_head
          BY <2>3, <4>1
        <4>3. Word(s, poll.head)[4] = 1
          <5>1. CASE poll.head = r.data_head
            BY <2>3, <5>1
          <5>2. CASE poll.head # r.data_head
            <6>1. poll.head \in Pos(c) .. r.data_head - 1
              <7> HIDE DEF r
              <7> QED
                BY <4>1, <5>2
            <6> QED
              BY <2>3, <4>1, <5>2, <6>1 DEF Boundary
          <5> QED
            BY <5>1, <5>2
        <4> QED
          BY <1>0, <1>1, <2>4, <3>3, <4>1, <4>2, <4>3 DEF PollInv, Reading, Live, Boundary
      <3> QED
        BY <3>1, <3>2, <3>3
    <2>9. RingsInv'
      <3> SUFFICES ASSUME NEW d \in Cpus PROVE IF Live(d)' THEN RingInOrder(d)' ELSE prings'[d] = NoRing
        BY DEF RingsInv, NoRing
      <3>1. CASE d = c
        <4>1. kern'[c].made - kern'[c].lost = k.made + 1
          BY <1>0, <2>4
        <4> QED
          BY <1>0, <1>1, <2>3, <2>4, <2>7, <3>1, <4>1 DEF RingInOrder
      <3>2. CASE d # c
        BY <1>0, <1>1, <2>4, <2>7, <3>2 DEF PerfInv, RingsInv, RingInOrder
      <3> QED
        BY <3>1, <3>2
    <2> QED
      BY <1>1, <2>5, <2>8, <2>9 DEF PerfInv
  <1> QED
    BY <1>2, <1>3 DEF KernelOutput, Output

(* What a poll begins with, and goes on with.                                *)
LEMMA EnterIs ==
  ASSUME PerfTypeOK, RingsInv, NEW todo \in Seq(Cpus), \A i \in DOMAIN todo : Live(todo[i]),
         \A i, j \in DOMAIN todo : todo[i] = todo[j] => i = j
  PROVE  /\ todo = <<>> => Enter(todo) = NotPolling
         /\ todo # <<>> => /\ Reading(Enter(todo), prings) /\ Enter(todo).cpu = todo[1]
                           /\ Enter(todo).tail = prings[todo[1]].data_tail
  <1>1. CASE todo = <<>>
    BY <1>1 DEF Enter
  <1>2. CASE todo # <<>>
    <2> DEFINE p == Enter(todo)
               c == todo[1]
               r == prings[c]
    <2>1. Head(todo) = c /\ c \in Cpus /\ Tail(todo) \in Seq(Cpus) /\ 1 \in DOMAIN todo
          /\ DOMAIN Tail(todo) = 1 .. Len(todo) - 1 /\ DOMAIN todo = 1 .. Len(todo) /\ Len(todo) \in Nat
          /\ \A i \in DOMAIN Tail(todo) : Tail(todo)[i] = todo[i + 1]
      BY <1>2
    <2>2. Live(c) /\ IsRing(r) /\ RingInOrder(c)
      BY <2>1 DEF PerfTypeOK, RingsInv
    <2>3. r.data_head \in Nat /\ r.data_tail \in Nat /\ r.data_tail <= r.data_head
      BY <2>2 DEF IsRing, RingInOrder, InOrder
    <2>4. p = [todo |-> Tail(todo), cpu |-> c, head |-> r.data_head, tail |-> r.data_tail, ret |-> CONT]
      BY <1>2, <2>1 DEF Enter
    <2> HIDE DEF p
    <2>5. /\ p.todo = Tail(todo) /\ p.cpu = c /\ p.head = r.data_head /\ p.tail = r.data_tail
          /\ p \in [todo : Seq(Cpus), cpu : Cpus, head : Nat, tail : Nat, ret : {CONT, "done", "error"}]
      BY <2>1, <2>3, <2>4
    <2>6. \A i \in DOMAIN Tail(todo) : i + 1 \in DOMAIN todo /\ i + 1 # 1 /\ i \in Nat
      BY <2>1
    <2>7. \A i \in DOMAIN Tail(todo) : Tail(todo)[i] # c /\ Live(Tail(todo)[i])
      BY <2>1, <2>6
    <2>8. \A i, j \in DOMAIN Tail(todo) : Tail(todo)[i] = Tail(todo)[j] => i = j
      BY <2>1, <2>6
    <2>9. Reading(p, prings)
      BY <2>2, <2>3, <2>5, <2>7, <2>8 DEF Reading, Boundary
    <2> QED
      BY <1>2, <2>5, <2>9 DEF p
  <1> QED
    BY <1>1, <1>2

(* perf_buffer__poll starts.                                                *)
LEMMA PollStartStep ==
  ASSUME PerfInv, NEW todo \in Seq(Cpus), PollStart(todo)
  PROVE  PerfInv'
  <1>1. /\ PerfTypeOK /\ RingsInv /\ PollInv /\ poll = NotPolling /\ todo # <<>> /\ poll' = Enter(todo)
        /\ UNCHANGED <<pb, prings, kern, pfds, pmap, seen, intact, events, links>>
        /\ \A i, j \in DOMAIN todo : todo[i] = todo[j] => i = j
    BY DEF PerfInv, PollStart, linkvars
  <1>2. ASSUME NEW i \in DOMAIN todo PROVE Live(todo[i])
    <2>1. todo[i] \in Cpus /\ prings[todo[i]].data_head # prings[todo[i]].data_tail
      BY DEF PollStart
    <2>2. NoRing.data_head = NoRing.data_tail
      BY DEF NoRing
    <2> QED
      BY <1>1, <2>1, <2>2 DEF RingsInv
  <1>3. Reading(Enter(todo), prings) /\ Enter(todo).tail = prings[Enter(todo).cpu].data_tail
    BY <1>1, <1>2, EnterIs
  <1>4. PollInv'
    BY <1>1, <1>3 DEF PollInv, Reading, Live
  <1>5. \A c \in Cpus : Pos(c)' = Pos(c)
    <2>1. \A c \in Cpus : Pos(c) = prings[c].data_tail
      BY <1>1, PollIs
    <2>2. poll'.tail = prings[poll'.cpu].data_tail
      BY <1>1, <1>3
    <2> QED
      BY <1>1, <2>1, <2>2 DEF Pos
  <1>6. RingsInv'
    BY <1>1, <1>5 DEF RingsInv, RingInOrder, Live
  <1>7. PerfTypeOK' /\ ResourcesInv'
    BY <1>1 DEF PerfInv, PerfTypeOK, ResourcesInv, Live
  <1> QED
    BY <1>4, <1>6, <1>7 DEF PerfInv

(* Order is a matter of the words of a ring.                                 *)
LEMMA SameWords ==
  ASSUME NEW r, NEW s, s.words = r.words, NEW from, NEW to, NEW n, NEW last
  PROVE  /\ Ordered(r, from, to, n, last) => Ordered(s, from, to, n, last)
         /\ Boundary(r, from, to) => Boundary(s, from, to)
  BY DEF Ordered, Tiled, LostNext, Numbered, Follows, Boundary, Word

(* The end of bpf_perf_event_read_simple for one ring.                      *)
LEMMA WriteTailStep ==
  ASSUME PerfInv, WriteTail
  PROVE  PerfInv'
  <1> DEFINE c == poll.cpu
             r == prings[c]
             s == [r EXCEPT !.data_tail = poll.tail]
  <1>1. /\ PerfTypeOK /\ RingsInv /\ PollInv /\ poll # NotPolling /\ Reading(poll, prings)
        /\ UNCHANGED <<pb, kern, pfds, pmap, seen, intact, events, links>>
        /\ poll' \in {NotPolling, Enter(poll.todo)}
    BY DEF PerfInv, PollInv, WriteTail, linkvars
  <1>2. c \in Cpus /\ IsRing(r) /\ Live(c) /\ RingInOrder(c) /\ Pos(c) = poll.tail /\ poll.tail \in Nat
    BY <1>1 DEF Reading, PerfTypeOK, RingsInv, Pos
  <1>3. prings' = [prings EXCEPT ![c] = s] /\ prings = [d \in Cpus |-> prings[d]]
    BY <1>1 DEF WriteTail, PerfTypeOK
  <1>4. s.words = r.words /\ s.data_head = r.data_head /\ s.data_tail = poll.tail /\ IsRing(s)
    BY <1>2 DEF IsRing
  <1> HIDE DEF s
  <1>5. prings'[c] = s /\ prings' = [d \in Cpus |-> prings'[d]] /\ \A d \in Cpus \ {c} : prings'[d] = prings[d]
    BY <1>2, <1>3
  <1>6. PerfTypeOK' /\ ResourcesInv' /\ \A d \in Cpus : Live(d)' <=> Live(d)
    BY <1>1, <1>4, <1>5 DEF PerfInv, PerfTypeOK, ResourcesInv, Live
  <1>7. poll' = NotPolling \/ (Reading(poll', prings) /\ poll'.cpu # c /\ poll'.tail = prings[poll'.cpu].data_tail)
    <2>1. CASE poll' = NotPolling
      BY <2>1
    <2>2. CASE poll' = Enter(poll.todo) /\ poll' # NotPolling
      <3>1. poll.todo \in Seq(Cpus) /\ (\A i \in DOMAIN poll.todo : Live(poll.todo[i]) /\ poll.todo[i] # c)
            /\ \A i, j \in DOMAIN poll.todo : poll.todo[i] = poll.todo[j] => i = j
        BY <1>1 DEF Reading
      <3>2. poll.todo # <<>> /\ Reading(Enter(poll.todo), prings) /\ Enter(poll.todo).cpu = poll.todo[1]
            /\ Enter(poll.todo).tail = prings[poll.todo[1]].data_tail
        BY <1>1, <2>2, <3>1, EnterIs
      <3>3. 1 \in DOMAIN poll.todo
        BY <3>1, <3>2
      <3> QED
        BY <2>2, <3>1, <3>2, <3>3
    <2> QED
      BY <1>1, <2>1, <2>2
  <1>8. PollInv'
    <2>1. CASE poll' = NotPolling
      BY <2>1 DEF PollInv, NotPolling
    <2>2. CASE poll' # NotPolling
      <3>1. prings'[poll'.cpu] = prings[poll'.cpu]
        BY <1>5, <1>7, <2>2 DEF Reading
      <3> QED
        BY <1>1, <1>7, <2>2, <3>1 DEF PollInv, Reading, Live
    <2> QED
      BY <2>1, <2>2
  <1>9. ASSUME NEW d \in Cpus PROVE Pos(d)' = Pos(d)
    <2>1. Pos(d)' = prings'[d].data_tail
      <3>1. CASE poll' = NotPolling
        <4>1. poll'.cpu # d
          BY <3>1, PerfAssumption DEF NotPolling, Cpus
        <4> QED
          BY <4>1 DEF Pos
      <3>2. CASE poll' # NotPolling
        <4>1. prings'[poll'.cpu] = prings[poll'.cpu]
          BY <1>5, <1>7, <3>2 DEF Reading
        <4> QED
          BY <1>7, <3>2, <4>1 DEF Pos
      <3> QED
        BY <3>1, <3>2
    <2> QED
      BY <1>2, <1>4, <1>5, <2>1 DEF Pos
  <1>10. RingsInv'
    <2> SUFFICES ASSUME NEW d \in Cpus PROVE IF Live(d)' THEN RingInOrder(d)' ELSE prings'[d] = NoRing
      BY DEF RingsInv, NoRing
    <2>1. CASE d = c
      <3>1. InOrder(r, poll.tail, seen[c], kern[c].made - kern[c].lost)
        BY <1>2 DEF RingInOrder
      <3>2. poll.tail <= r.data_head /\ r.data_head - poll.tail <= RingWords
        <4>1. /\ r.data_tail <= poll.tail /\ poll.tail <= r.data_head /\ r.data_head - r.data_tail <= RingWords
              /\ r.data_head \in Nat /\ r.data_tail \in Nat
          BY <1>2, <3>1 DEF InOrder, IsRing
        <4> HIDE DEF r
        <4> QED
          BY <1>2, <4>1, WordsNumber
      <3>3. InOrder(s, poll.tail, seen[c], kern[c].made - kern[c].lost)
        BY <1>2, <1>4, <3>1, <3>2, SameWords DEF InOrder
      <3> QED
        BY <1>1, <1>2, <1>5, <1>6, <1>9, <2>1, <3>3 DEF RingInOrder
    <2>2. CASE d # c
      BY <1>1, <1>5, <1>6, <1>9, <2>2 DEF RingsInv, RingInOrder
    <2> QED
      BY <2>1, <2>2
  <1> QED
    BY <1>6, <1>8, <1>10 DEF PerfInv

(* One turn of its loop: the record it finds is the next one, complete, and *)
(* ends before the head it has read.                                        *)
LEMMA ReadRecordStep ==
  ASSUME PerfInv, ReadRecord
  PROVE  PerfInv'
  <1> DEFINE c == poll.cpu
             r == prings[c]
             from == poll.tail
             to == r.data_head
             w == Word(r, from)
             m == seen[c] + (IF w[1] = "lost" THEN w[2] ELSE 1)
             last == kern[c].made - kern[c].lost
             rec == RecordAt(r, from)
  <1>1. /\ PerfTypeOK /\ RingsInv /\ PollInv /\ poll # NotPolling /\ Reading(poll, prings) /\ poll.tail # poll.head
        /\ UNCHANGED <<pb, kern, pfds, pmap, events, links>>
    BY DEF PerfInv, PollInv, ReadRecord, linkvars
  <1>2. /\ c \in Cpus /\ IsRing(r) /\ Live(c) /\ InOrder(r, from, seen[c], last) /\ Pos(c) = from
        /\ seen \in [Cpus -> Nat] /\ seen[c] \in Nat
    BY <1>1 DEF Reading, PerfTypeOK, RingsInv, Pos, RingInOrder
  <1>3. /\ from \in Nat /\ poll.head \in Nat /\ to \in Nat /\ from < poll.head /\ poll.head <= to /\ from < to
        /\ to - from <= RingWords /\ r.data_tail \in Nat /\ r.data_tail <= from
    <2>1. /\ from \in Nat /\ poll.head \in Nat /\ to \in Nat /\ from <= poll.head /\ poll.head <= to
          /\ to - r.data_tail <= RingWords /\ r.data_tail \in Nat /\ r.data_tail <= from
      BY <1>1, <1>2 DEF Reading, IsRing, InOrder
    <2> HIDE DEF r, from, to
    <2> QED
      BY <1>1, <2>1, WordsNumber DEF from
  <1>4. Ordered(r, from, to, seen[c], last) /\ Tiled(r, from, to) /\ Boundary(r, poll.head, to)
    BY <1>1, <1>2 DEF InOrder, Ordered, Reading
  <1> HIDE DEF from, to
  <1>5. /\ w[1] \in WordTypes /\ w[2] \in Nat /\ w[3] \in Nat \ {0} /\ w[4] = 1 /\ from + w[3] <= to
        /\ rec = [i \in 1 .. w[3] |-> <<w[1], w[2], w[3], i>>]
    BY <1>2, <1>3, <1>4, RecordRead
  <1>6. m \in Nat /\ (w[1] # "lost" => w[2] = seen[c] + 1) /\ Ordered(r, from + w[3], to, m, last)
    BY <1>2, <1>3, <1>4, OrderedNext
  <1>7. from + w[3] <= poll.head
    BY <1>2, <1>3, <1>4, WholeRecords
  <1> HIDE DEF w, rec
  <1>8. Len(rec) = w[3] /\ rec[1][1] = w[1] /\ rec[1][2] = w[2]
    <2>1. 1 \in 1 .. w[3]
      BY <1>5
    <2>2. rec[1] = <<w[1], w[2], w[3], 1>>
      BY <1>5, <2>1
    <2>3. Len(rec) = w[3]
      BY <1>5
    <2> QED
      BY <2>2, <2>3
  \* The ring keeps its words and its ends.
  <1>9. ASSUME NEW b, prings' = [prings EXCEPT ![c].buf_size = b]
        PROVE  /\ PerfTypeOK' <=> seen' \in [Cpus -> Nat]
               /\ prings'[c].words = r.words /\ prings'[c].data_head = to /\ prings'[c].data_tail = r.data_tail
               /\ \A d \in Cpus \ {c} : prings'[d] = prings[d]
    <2> DEFINE s == [r EXCEPT !.buf_size = b]
    <2>1. prings' = [prings EXCEPT ![c] = s] /\ prings = [d \in Cpus |-> prings[d]]
      BY <1>1, <1>9 DEF PerfTypeOK
    <2>2. s.words = r.words /\ s.data_head = to /\ s.data_tail = r.data_tail /\ IsRing(s)
      BY <1>2 DEF IsRing, to
    <2> HIDE DEF s
    <2>3. prings'[c] = s /\ prings' = [d \in Cpus |-> prings'[d]] /\ \A d \in Cpus \ {c} : prings'[d] = prings[d]
      BY <1>2, <2>1
    <2>4. PerfTypeOK' <=> seen' \in [Cpus -> Nat]
      BY <1>1, <2>2, <2>3 DEF PerfTypeOK
    <2> QED
      BY <2>2, <2>3, <2>4
  <1>10. \A d \in Cpus : Live(d)' <=> Live(d)
    BY <1>1 DEF Live
  <1>11. ASSUME NEW b, prings' = [prings EXCEPT ![c].buf_size = b], NEW pos \in Nat, from <= pos, pos <= poll.head,
                NEW ret \in {CONT, "done", "error"}, poll' = [poll EXCEPT !.tail = pos, !.ret = ret],
                NEW n \in Nat, seen' = [seen EXCEPT ![c] = n], Ordered(r, pos, to, n, last), intact' = TRUE
         PROVE  PerfInv'
    <2>1. /\ prings'[c].words = r.words /\ prings'[c].data_head = to /\ prings'[c].data_tail = r.data_tail
          /\ \A d \in Cpus \ {c} : prings'[d] = prings[d]
      BY <1>9, <1>11
    <2>2. seen' \in [Cpus -> Nat] /\ seen'[c] = n /\ \A d \in Cpus \ {c} : seen'[d] = seen[d]
      BY <1>2, <1>11
    <2>3. PerfTypeOK'
      BY <1>9, <1>11, <2>2
    <2>4. ResourcesInv'
      BY <1>1, <1>10, <1>11 DEF PerfInv, ResourcesInv, Live
    <2>5. /\ poll'.todo = poll.todo /\ poll'.cpu = c /\ poll'.head = poll.head /\ poll'.tail = pos
          /\ poll' \in [todo : Seq(Cpus), cpu : Cpus, head : Nat, tail : Nat, ret : {CONT, "done", "error"}]
      BY <1>1, <1>11 DEF Reading
    <2>6. PollInv'
      <3>1. Boundary(prings'[c], poll.head, to)
        BY <1>4, <2>1, SameWords
      <3> QED
        BY <1>1, <1>3, <1>11, <2>1, <2>5, <3>1 DEF PollInv, Reading, Live
    <2>7. \A d \in Cpus \ {c} : Pos(d)' = Pos(d)
      BY <2>1, <2>5 DEF Pos
    <2>8. RingsInv'
      <3> SUFFICES ASSUME NEW d \in Cpus PROVE IF Live(d)' THEN RingInOrder(d)' ELSE prings'[d] = NoRing
        BY DEF RingsInv, NoRing
      <3>1. CASE d = c
        <4>1. Ordered(prings'[c], pos, to, n, last)
          <5> DEFINE s == prings'[c]
          <5>1. s.words = r.words /\ Ordered(r, pos, to, n, last)
            BY <1>11, <2>1
          <5> HIDE DEF s, r, last
          <5>2. Ordered(s, pos, to, n, last)
            BY <5>1, SameWords
          <5> QED
            BY <5>2 DEF s
        <4>2. r.data_tail <= pos /\ pos <= to
          BY <1>3, <1>11
        <4>3. to - r.data_tail <= RingWords
          BY <1>2 DEF InOrder, to
        <4>4. InOrder(prings'[c], pos, n, last)
          BY <1>11, <2>1, <4>1, <4>2, <4>3 DEF InOrder
        <4>5. Pos(d)' = pos
          BY <2>5, <3>1 DEF Pos
        <4>6. kern'[d].made - kern'[d].lost = last /\ Live(d)'
          BY <1>1, <1>2, <1>10, <3>1
        <4>7. RingInOrder(d)'
          <5> HIDE DEF last
          <5> QED
            BY <2>2, <3>1, <4>4, <4>5, <4>6 DEF RingInOrder
        <4> QED
          BY <3>1, <4>6, <4>7
      <3>2. CASE d # c
        BY <1>1, <1>10, <2>1, <2>2, <2>7, <3>2 DEF RingsInv, RingInOrder
      <3> QED
        BY <3>1, <3>2
    <2> QED
      BY <2>3, <2>4, <2>6, <2>8 DEF PerfInv
  <1>12. intact
    BY DEF PerfInv, ResourcesInv
  <1>13. CASE /\ \E ret \in ProcessRecord(rec[1][1]) : poll' = [poll EXCEPT !.tail = TailAfter(@, Len(rec), ret), !.ret = ret]
              /\ \E b : prings' = [prings EXCEPT ![c].buf_size = b]
              /\ seen' = [seen EXCEPT ![c] = @ + (IF rec[1][1] = "lost" THEN rec[1][2] ELSE 1)]
              /\ intact' = (intact /\ rec = [i \in 1 .. Len(rec) |-> <<rec[1][1], rec[1][2], Len(rec), i>>]
                                   /\ (rec[1][1] # "lost" => rec[1][2] = seen[c] + 1))
    <2>1. PICK b : prings' = [prings EXCEPT ![c].buf_size = b]
      BY <1>13
    <2>2. PICK ret \in ProcessRecord(rec[1][1]) : poll' = [poll EXCEPT !.tail = TailAfter(@, Len(rec), ret), !.ret = ret]
      BY <1>13
    <2>3. ret \in {CONT, "done", "error"}
      BY <2>2 DEF ProcessRecord
    <2>4. poll' = [poll EXCEPT !.tail = from + w[3], !.ret = ret]
      BY <1>8, <2>2 DEF TailAfter, from
    <2>5. seen' = [seen EXCEPT ![c] = m]
      BY <1>2, <1>8, <1>13
    <2>6. intact' = TRUE
      BY <1>5, <1>6, <1>8, <1>12, <1>13
    <2>7. from + w[3] \in Nat /\ from <= from + w[3]
      BY <1>3, <1>5
    <2> HIDE DEF m
    <2> QED
      BY <1>6, <1>7, <1>11, <2>1, <2>3, <2>4, <2>5, <2>6, <2>7
  <1>14. CASE /\ poll' = [poll EXCEPT !.ret = "error"] /\ prings' = [prings EXCEPT ![c].buf_size = 0] /\ UNCHANGED <<seen, intact>>
    <2>1. poll' = [poll EXCEPT !.tail = from, !.ret = "error"]
      <3>1. poll \in [todo : Seq(Cpus), cpu : Cpus, head : Nat, tail : Nat, ret : {CONT, "done", "error"}]
        BY <1>1 DEF Reading
      <3> QED
        BY <1>14, <3>1 DEF from
    <2>2. seen' = [seen EXCEPT ![c] = seen[c]] /\ intact' = TRUE
      BY <1>2, <1>12, <1>14
    <2>3. from <= from /\ from <= poll.head
      BY <1>3
    <2> QED
      BY <1>2, <1>3, <1>4, <1>11, <1>14, <2>1, <2>2, <2>3
  <1> QED
    BY <1>13, <1>14 DEF ReadRecord, rec, from

(* A ring in which nothing was ever written.                                 *)
LEMMA EmptyRing ==
  /\ IsRing(NoRing) /\ NoRing.data_head = 0 /\ NoRing.data_tail = 0
  /\ \A n \in Nat : InOrder(NoRing, 0, n, n)
  <1>1. IsRing(NoRing) /\ NoRing.data_head = 0 /\ NoRing.data_tail = 0
    BY DEF IsRing, NoRing
  <1>2. ASSUME NEW n \in Nat PROVE Ordered(NoRing, 0, 0, n, n)
    <2>1. \A x \in 0 .. 0 - 1 : FALSE
      OBVIOUS
    <2> QED
      BY <2>1 DEF Ordered, Tiled, LostNext, Numbered, Follows
  <1>3. 0 - 0 <= RingWords
    BY WordsNumber
  <1> QED
    BY <1>1, <1>2, <1>3 DEF InOrder

(* When there is no buffer all the rings are empty, and no entry is its own. *)
LEMMA NothingOpen ==
  ASSUME PerfTypeOK, poll = NotPolling, ~pb.open, prings = [c \in Cpus |-> NoRing], pfds = {}, intact,
         \A c \in Cpus : pmap[c] # "mine", links = {n \in DOMAIN events : events[n] = "enabled"}
  PROVE  PerfInv
  <1>1. RingsInv
    BY DEF RingsInv, Live
  <1>2. PollInv /\ ResourcesInv
    BY DEF PollInv, ResourcesInv, Live
  <1> QED
    BY <1>1, <1>2 DEF PerfInv

(* At first there is no buffer.                                             *)
LEMMA PerfStart == PerfInit => PerfInv
  <1> SUFFICES ASSUME PerfInit PROVE PerfInv
    OBVIOUS
  <1>1. PerfTypeOK
    <2>1. prings = [c \in Cpus |-> prings[c]] /\ pmap = [c \in Cpus |-> pmap[c]] /\ \A c \in Cpus : prings[c] = NoRing
      BY DEF PerfInit
    <2> QED
      BY <2>1, EmptyRing DEF PerfInit, PerfTypeOK, NoPb
  <1>2. \A c \in Cpus : pmap[c] # "mine"
    BY DEF PerfInit
  <1>3. links = {n \in DOMAIN events : events[n] = "enabled"}
    BY DEF PerfInit
  <1> QED
    BY <1>1, <1>2, <1>3, NothingOpen DEF PerfInit, NoPb

(* Freeing a buffer.                                                        *)
LEMMA FreeStep ==
  ASSUME PerfInv, NEW n, FreeBuf(n), poll = NotPolling, UNCHANGED <<poll, intact, events, links>>,
         \A c \in Cpus : ~(c < n) => pmap[c] # "mine",
         kern' \in [Cpus -> [made : Nat, lost : Nat]], seen' \in [Cpus -> Nat]
  PROVE  PerfInv'
  <1>1. pb' = NoPb /\ pfds' = {} /\ prings' = [c \in Cpus |-> NoRing] /\ ~pb'.open /\ pb'.open \in BOOLEAN
    BY DEF FreeBuf, NoPb
  <1>2. pmap' = [c \in Cpus |-> IF c < n THEN "none" ELSE pmap[c]]
    BY DEF FreeBuf
  <1>3. \A c \in Cpus : pmap'[c] # "mine"
    BY <1>2
  <1>4. prings' = [c \in Cpus |-> prings'[c]] /\ \A c \in Cpus : prings'[c] = NoRing
    BY <1>1
  <1>5. PerfTypeOK'
    <2>1. pmap' = [c \in Cpus |-> pmap'[c]]
      BY <1>2
    <2>2. \A c \in Cpus : IsRing(prings'[c])
      BY <1>4, EmptyRing
    <2> QED
      BY <1>1, <1>4, <2>1, <2>2 DEF PerfTypeOK
  <1>6. RingsInv'
    BY <1>1, <1>4 DEF RingsInv, Live, NoRing
  <1>7. PollInv' /\ ResourcesInv'
    BY <1>1, <1>3 DEF PollInv, ResourcesInv, Live, PerfInv, NotPolling
  <1> QED
    BY <1>5, <1>6, <1>7 DEF PerfInv

(* __perf_buffer__new, wherever it fails.                                   *)
LEMMA NewStep ==
  ASSUME PerfInv, NEW raw, NEW entries, NEW file, PerfBufferNew(raw, entries, file)
  PROVE  PerfInv'
  <1> DEFINE cnt == IF raw THEN entries ELSE Least(NumPossibleCpus(file), entries)
  <1> HIDE DEF cnt
  <1>1. /\ ~pb.open /\ poll = NotPolling /\ UNCHANGED <<poll, intact, events, links>>
        /\ kern' = [c \in Cpus |-> [kern[c] EXCEPT !.lost = 0]] /\ seen' = [c \in Cpus |-> kern[c].made]
    BY DEF PerfBufferNew, linkvars
  <1>2. /\ kern' \in [Cpus -> [made : Nat, lost : Nat]] /\ seen' \in [Cpus -> Nat]
        /\ \A c \in Cpus : kern'[c].made = seen'[c] /\ kern'[c].lost = 0 /\ seen'[c] \in Nat
    <2>1. kern \in [Cpus -> [made : Nat, lost : Nat]]
      BY DEF PerfInv, PerfTypeOK
    <2> QED
      BY <1>1, <2>1
  <1>3. (\A c \in Cpus : pmap[c] # "mine") /\ \A c \in Cpus : prings[c] = NoRing
    BY <1>1 DEF PerfInv, ResourcesInv, RingsInv, Live
  <1>4. CASE /\ pb' = [open |-> TRUE, raw |-> raw, cpu_cnt |-> cnt]
             /\ pfds' = {<<"epoll", 0>>} \cup {<<"perf", c>> : c \in 0 .. cnt - 1}
             /\ pmap' = [c \in Cpus |-> IF c < cnt THEN "mine" ELSE pmap[c]]
             /\ UNCHANGED prings
    <2>1. pb'.open = TRUE /\ pb'.cpu_cnt = cnt
      BY <1>4
    <2>2. PerfTypeOK'
      <3>1. pmap' = [c \in Cpus |-> pmap'[c]]
        BY <1>4
      <3> QED
        BY <1>2, <1>4, <2>1, <3>1 DEF PerfInv, PerfTypeOK
    <2>3. PollInv'
      BY <1>1 DEF PollInv, NotPolling
    <2>4. RingsInv'
      <3> SUFFICES ASSUME NEW c \in Cpus PROVE IF Live(c)' THEN RingInOrder(c)' ELSE prings'[c] = NoRing
        BY DEF RingsInv, NoRing
      <3>1. prings'[c] = NoRing /\ Pos(c)' = 0
        <4>1. poll'.cpu # c
          BY <1>1, PerfAssumption DEF NotPolling, Cpus
        <4> QED
          BY <1>3, <1>4, <4>1, EmptyRing DEF Pos
      <3>2. kern'[c].made - kern'[c].lost = seen'[c]
        BY <1>2
      <3> QED
        BY <1>2, <3>1, <3>2, EmptyRing DEF RingInOrder
    <2>5. ResourcesInv'
      <3>1. \A c \in Cpus : (pmap'[c] = "mine") <=> (c < cnt)
        BY <1>3, <1>4
      <3> QED
        BY <1>1, <1>4, <2>1, <3>1 DEF PerfInv, ResourcesInv, Live
    <2> QED
      BY <2>2, <2>3, <2>4, <2>5 DEF PerfInv
  <1>5. ASSUME NEW n, FreeBuf(n) PROVE PerfInv'
    BY <1>1, <1>2, <1>3, <1>5, FreeStep
  <1> QED
    BY <1>4, <1>5 DEF PerfBufferNew, cnt

(* Attaching and destroying links.                                          *)
LEMMA LinkStep ==
  ASSUME PerfInv, LinkNext
  PROVE  PerfInv'
  <1> DEFINE Running == {n \in DOMAIN events : events[n] = "enabled"}
  <1>1. links = Running
    BY DEF PerfInv, ResourcesInv
  <1>2. ASSUME NEW n, n \notin DOMAIN events, NEW state, events' = With(n, state),
               links' = IF state = "enabled" THEN links \cup {n} ELSE links
        PROVE  links' = Running'
    <2>1. DOMAIN events' = DOMAIN events \cup {n} /\ events'[n] = state /\ \A e \in DOMAIN events : events'[e] = events[e]
      BY <1>2 DEF With
    <2> QED
      BY <1>1, <1>2, <2>1
  <1>3. ASSUME NEW n, events' = Restrict(events, DOMAIN events \ {n}), links' = links \ {n}
        PROVE  links' = Running'
    <2>1. DOMAIN events' = DOMAIN events \ {n} /\ \A e \in DOMAIN events \ {n} : events'[e] = events[e]
      BY <1>3 DEF Restrict
    <2> QED
      BY <1>1, <1>3, <2>1
  <1>4. UNCHANGED bufvars /\ links' = Running'
    <2>1. ASSUME NEW n, NEW opened, NEW fail, Attached(n, opened, fail) PROVE UNCHANGED bufvars /\ links' = Running'
      BY <1>1, <1>2, <2>1 DEF Attached, linkvars
    <2>2. ASSUME NEW n, NEW fail, AttachOwn(n, fail) PROVE UNCHANGED bufvars /\ links' = Running'
      BY <1>2, <2>2 DEF AttachOwn
    <2>3. ASSUME NEW n, NEW fail, AttachRawTracepoint(n, fail) PROVE UNCHANGED bufvars /\ links' = Running'
      BY <1>1, <1>2, <2>3 DEF AttachRawTracepoint
    <2>4. ASSUME NEW n, CloseOwn(n) PROVE UNCHANGED bufvars /\ links' = Running'
      <3>1. links' = links \ {n}
        BY <2>4 DEF CloseOwn
      <3> QED
        BY <1>3, <2>4, <3>1 DEF CloseOwn
    <2>5. ASSUME NEW n, LinkDestroy(n) PROVE UNCHANGED bufvars /\ links' = Running'
      BY <1>3, <2>5 DEF LinkDestroy
    <2> QED
      BY <2>1, <2>2, <2>3, <2>4, <2>5 DEF LinkNext, AttachProbe, AttachTracepoint
  <1>5. PerfTypeOK' /\ PollInv'
    BY <1>4 DEF PerfInv, PerfTypeOK, PollInv, Reading, Live, bufvars
  <1>6. RingsInv'
    BY <1>4 DEF PerfInv, RingsInv, RingInOrder, Live, Pos, bufvars
  <1>7. ResourcesInv'
    BY <1>4 DEF PerfInv, ResourcesInv, Live, bufvars
  <1> QED
    BY <1>5, <1>6, <1>7 DEF PerfInv

(* Every step keeps the invariant.                                          *)
LEMMA PerfNext == PerfInv /\ [BufferNext \/ LinkNext]_pvars => PerfInv'
  <1> SUFFICES ASSUME PerfInv, [BufferNext \/ LinkNext]_pvars PROVE PerfInv'
    OBVIOUS
  <1>1. ASSUME NEW raw, NEW entries, NEW file, PerfBufferNew(raw, entries, file) PROVE PerfInv'
    BY <1>1, NewStep
  <1>2. CASE PerfBufferFree
    <2>1. kern \in [Cpus -> [made : Nat, lost : Nat]] /\ seen \in [Cpus -> Nat] /\ \A c \in Cpus : ~Live(c) => pmap[c] # "mine"
      BY DEF PerfInv, PerfTypeOK, ResourcesInv
    <2> QED
      BY <1>2, <2>1, FreeStep DEF PerfBufferFree, linkvars, Live
  <1>3. ASSUME NEW c \in Cpus, NEW size \in 1 .. 2, KernelOutput(c, "sample", size) \/ KernelOutput(c, "other", 1)
        PROVE  PerfInv'
    BY <1>3, KernelStep
  <1>4. ASSUME NEW k \in 1 .. PerfCpus, NEW todo \in [1 .. k -> Cpus], PollStart(todo) PROVE PerfInv'
    BY <1>4, PollStartStep
  <1>5. CASE UNCHANGED pvars
    <2>1. PerfTypeOK' /\ PollInv'
      BY <1>5 DEF PerfInv, PerfTypeOK, PollInv, Reading, Live, pvars, bufvars
    <2>2. RingsInv'
      BY <1>5 DEF PerfInv, RingsInv, RingInOrder, Live, Pos, pvars, bufvars
    <2>3. ResourcesInv'
      BY <1>5 DEF PerfInv, ResourcesInv, Live, pvars, bufvars, linkvars
    <2> QED
      BY <2>1, <2>2, <2>3 DEF PerfInv
  <1>6. ASSUME BufferNext PROVE PerfInv'
    <2>1. ASSUME NEW c \in Cpus, KernelOutput(c, "other", 1) PROVE PerfInv'
      <3>1. 1 \in 1 .. 2
        OBVIOUS
      <3> QED
        BY <1>3, <2>1, <3>1
    <2> QED
      BY <1>1, <1>2, <1>3, <1>4, <1>6, <2>1, ReadRecordStep, WriteTailStep DEF BufferNext
  <1> QED
    BY <1>5, <1>6, LinkStep

(* The invariant implies what the run checks.                               *)
LEMMA PerfInvExact == PerfInv => PerfExact
  <1> SUFFICES ASSUME PerfInv PROVE PerfExact
    OBVIOUS
  <1>1. ASSUME NEW c \in Cpus
        PROVE  LET r == prings[c]
               IN  /\ r.data_tail <= r.data_head /\ r.data_head - r.data_tail <= RingWords
                   /\ pb.open /\ c < pb.cpu_cnt /\ r.data_tail = r.data_head /\ poll = NotPolling =>
                        seen[c] + kern[c].lost = kern[c].made
    <2> DEFINE r == prings[c]
    <2>1. CASE ~Live(c)
      <3>1. r = NoRing
        BY <2>1 DEF PerfInv, RingsInv
      <3> QED
        BY <2>1, <3>1, EmptyRing, WordsNumber DEF Live
    <2>2. CASE Live(c)
      <3>1. /\ r.data_tail \in Nat /\ r.data_head \in Nat /\ Pos(c) \in Nat /\ r.data_tail <= Pos(c) /\ Pos(c) <= r.data_head
            /\ r.data_head - r.data_tail <= RingWords /\ Follows(r, Pos(c), r.data_head, seen[c], kern[c].made - kern[c].lost)
        BY <2>2 DEF PerfInv, PerfTypeOK, IsRing, RingsInv, RingInOrder, InOrder, Ordered
      <3>2. r.data_tail <= r.data_head
        BY <3>1
      <3>3. ASSUME r.data_tail = r.data_head, poll = NotPolling PROVE seen[c] + kern[c].lost = kern[c].made
        <4>1. Pos(c) = r.data_head
          BY <3>3, PollIs DEF PerfInv
        <4>2. seen[c] = kern[c].made - kern[c].lost
          BY <3>1, <4>1 DEF Follows
        <4>3. kern[c].made \in Nat /\ kern[c].lost \in Nat
          BY DEF PerfInv, PerfTypeOK
        <4> QED
          BY <4>2, <4>3
      <3> QED
        BY <3>1, <3>2, <3>3
    <2> QED
      BY <2>1, <2>2
  <1>2. {c \in Cpus : pmap[c] = "mine"} = {c \in Cpus : pb.open /\ c < pb.cpu_cnt}
    BY DEF PerfInv, ResourcesInv, Live
  <1> QED
    BY <1>1, <1>2 DEF PerfExact, PerfInv, ResourcesInv

(* Every record of a CPU comes out of its ring once, complete and in order, *)
(* also around the end of the ring and when a callback or a malloc stops    *)
(* the reader; what did not fit is accounted for; the descriptors, the map  *)
(* entries and the links are exact.  For every number of CPUs and links,    *)
(* every ring size, any number of records and every interleaving of kernel  *)
(* and reader.                                                              *)
THEOREM PerfBufferExact == PerfSpec => []PerfExact
  <1>1. PerfInit => PerfInv
    BY PerfStart
  <1>2. PerfInv /\ [BufferNext \/ LinkNext]_pvars => PerfInv'
    BY PerfNext
  <1>3. PerfInv => PerfExact
    BY PerfInvExact
  <1> QED
    BY <1>1, <1>2, <1>3, PTL DEF PerfSpec

=============================================================================
