------------------------ MODULE SocketServer_proofs ------------------------
(***************************************************************************)
(* Safety of the packet generator and the socket server: proofs.            *)
(***************************************************************************)
EXTENDS SocketServer, LogBuffs_proofs, SequenceTheorems, TLAPS

USE DEF client, server, history

-----------------------------------------------------------------------------
(* The inductive invariant                                                  *)

(* Every variable has its type.                                             *)
ServerTypeOK ==
  /\ uid \in 0 .. MAX_LOG_ENTRY + 1
  /\ cpc \in {"sending", "done"}
  /\ net \in Seq(Uids)
  /\ rcvbuf \in Seq(Uids) /\ Len(rcvbuf) <= RCVBUF
  /\ spc \in {"loop", "recv", "export", "stopped", "killed"}
  /\ slog \in [Cells -> BOOLEAN]
  /\ keep_running \in BOOLEAN
  /\ file # NoFile => file \in [Cells -> BOOLEAN]
  /\ lost \subseteq Uids
  /\ dups \in Nat
  /\ reordered \in BOOLEAN
  /\ late \in Nat

(* The server can still be in recvfrom when Ctrl+Z clears keep_running, but *)
(* then no packet was received since.                                       *)
LateInv ==
  /\ AtMostOneLate
  /\ keep_running \/ spc = "recv" => late = 0

(* Nothing was lost or overtaken so far.                                    *)
Ordered == lost = {} /\ ~reordered

Received(u) == \E j \in 1 .. Len(rcvbuf) : rcvbuf[j] = u
Travelling(u) == \E j \in 1 .. Len(net) : net[j] = u

(* A uid that was sent and is not logged is on its way, and in front of a   *)
(* packet everything smaller is logged or in front of it.                   *)
OrderInv ==
  Ordered =>
    /\ \A v \in 0 .. uid - 1 :
         InLog(v) => slog[Cell(v)] \/ Received(v) \/ Travelling(v)
    /\ \A i \in 1 .. Len(net) : \A v \in 0 .. net[i] - 1 :
         slog[Cell(v)] \/ Received(v) \/ \E j \in 1 .. i - 1 : net[j] = v
    /\ \A i \in 1 .. Len(rcvbuf) : \A v \in 0 .. rcvbuf[i] - 1 :
         slog[Cell(v)] \/ \E j \in 1 .. i - 1 : rcvbuf[j] = v

(* When the server leaves its loop by itself its log is complete, and so is *)
(* the file it writes.                                                      *)
ExportInv ==
  Ordered /\ keep_running =>
    /\ spc = "export" => \A c \in Cells : slog[c]
    /\ file # NoFile => \A c \in Cells : file[c]

ServerInv == ServerTypeOK /\ LateInv /\ OrderInv /\ ExportInv

-----------------------------------------------------------------------------
(* Queues and logs                                                          *)

(* A queue without its i-th packet; without the first, the others move up.  *)
LEMMA RemoveAtType ==
  ASSUME NEW S, NEW s \in Seq(S), NEW i \in 1 .. Len(s)
  PROVE  /\ RemoveAt(s, i) \in Seq(S)
         /\ i = 1 => /\ Len(RemoveAt(s, i)) = Len(s) - 1
                     /\ \A j \in 1 .. Len(s) - 1 : RemoveAt(s, i)[j] = s[j + 1]
  <1>1. SubSeq(s, 1, i - 1) \in Seq(S) /\ SubSeq(s, i + 1, Len(s)) \in Seq(S)
    OBVIOUS
  <1>2. RemoveAt(s, i) \in Seq(S)
    BY <1>1 DEF RemoveAt
  <1>3. ASSUME i = 1
        PROVE  /\ Len(RemoveAt(s, i)) = Len(s) - 1
               /\ \A j \in 1 .. Len(s) - 1 : RemoveAt(s, i)[j] = s[j + 1]
    <2>1. Len(SubSeq(s, 1, 0)) = 0 /\ SubSeq(s, 1, 0) \in Seq(S)
      OBVIOUS
    <2>2. /\ Len(SubSeq(s, 2, Len(s))) = Len(s) - 1
          /\ \A j \in 1 .. Len(s) - 1 : SubSeq(s, 2, Len(s))[j] = s[j + 1]
      <3>1. s # <<>>
        OBVIOUS
      <3>2. SubSeq(s, 2, Len(s)) = Tail(s)
        BY <3>1, TailIsSubSeq
      <3> QED
        BY <3>1, <3>2, HeadTailProperties
    <2>3. RemoveAt(s, i) = SubSeq(s, 1, 0) \o SubSeq(s, 2, Len(s))
      BY <1>3 DEF RemoveAt
    <2> QED
      BY <1>1, <1>3, <2>1, <2>2, <2>3
  <1> QED
    BY <1>2, <1>3

(* A quotient and a remainder belong to one number.                         *)
LEMMA DivMod ==
  ASSUME NEW b \in Nat \ {0}, NEW q \in Nat, NEW r \in 0 .. b - 1
  PROVE  (b * q + r) \div b = q /\ (b * q + r) % b = r
  <1> DEFINE u == b * q + r
             d == u \div b
             m == u % b
  <1>1. u \in Nat
    OBVIOUS
  <1>2. d \in Nat /\ m \in 0 .. b - 1 /\ u = b * d + m
    BY <1>1
  <1> HIDE DEF u, d, m
  <1>3. b * q + r = b * d + m
    BY <1>2 DEF u
  <1>4. ~(d < q)
    <2>1. ASSUME d < q PROVE b * (d + 1) <= b * q
      BY <1>2, <2>1
    <2>2. b * (d + 1) = b * d + b
      BY <1>2
    <2> QED
      BY <1>2, <1>3, <2>1, <2>2
  <1>5. ~(q < d)
    <2>1. ASSUME q < d PROVE b * (q + 1) <= b * d
      BY <1>2, <2>1
    <2>2. b * (q + 1) = b * q + b
      OBVIOUS
    <2> QED
      BY <1>2, <1>3, <2>1, <2>2
  <1>6. d = q
    BY <1>2, <1>4, <1>5
  <1>7. m = r
    BY <1>2, <1>3, <1>6
  <1> QED
    BY <1>6, <1>7 DEF u, d, m

(* Every cell of the log is the cell of a uid.                              *)
LEMMA CellCovered ==
  ASSUME NEW c \in Cells
  PROVE  \E u \in 0 .. MAX_LOG_ENTRY - 1 : Cell(u) = c
  <1> DEFINE b == MAX_ENTRIES_PER_LOG_BUFF
  <1> DEFINE u == b * c[1] + c[2]
  <1>1. b \in Nat \ {0} /\ NUM_LOG_BUFF \in Nat /\ MAX_LOG_ENTRY = b * NUM_LOG_BUFF
    BY LogAssumption DEF NUM_LOG_BUFF
  <1>2. /\ c[1] \in 0 .. NUM_LOG_BUFF - 1 /\ c[2] \in 0 .. b - 1
        /\ c = <<c[1], c[2]>>
    BY DEF Cells
  <1>3. b * (c[1] + 1) <= b * NUM_LOG_BUFF
    BY <1>1, <1>2
  <1>4. u \in 0 .. MAX_LOG_ENTRY - 1
    BY <1>1, <1>2, <1>3
  <1>5. u \div b = c[1] /\ u % b = c[2]
    BY <1>1, <1>2, DivMod
  <1> QED
    BY <1>2, <1>4, <1>5 DEF Cell

-----------------------------------------------------------------------------
(* Types                                                                    *)

(* Every step preserves ServerTypeOK.                                       *)
LEMMA ServerTypeStep ==
  ASSUME ServerTypeOK, [Next]_vars
  PROVE  ServerTypeOK'
  <1> USE DEF ServerTypeOK
  <1>1. CASE ClientSend
    <2>1. uid \in Uids /\ uid' \in 0 .. MAX_LOG_ENTRY + 1
      BY <1>1, LogAssumption DEF ClientSend, LastSent, Uids
    <2> QED
      BY <1>1, <2>1 DEF ClientSend
  <1>2. CASE ClientDone
    BY <1>2 DEF ClientDone
  <1>3. ASSUME NEW i \in 1 .. Len(net), NetLose(i) PROVE ServerTypeOK'
    BY <1>3, RemoveAtType DEF NetLose
  <1>4. ASSUME NEW i \in 1 .. Len(net), NetDuplicate(i) PROVE ServerTypeOK'
    BY <1>4 DEF NetDuplicate
  <1>5. ASSUME NEW i \in 1 .. Len(net), NetDeliver(i) PROVE ServerTypeOK'
    <2>1. net' \in Seq(Uids) /\ net[i] \in Uids
      BY <1>5, RemoveAtType DEF NetDeliver
    <2>2. reordered' \in BOOLEAN
      BY <1>5 DEF NetDeliver
    <2>3. \/ rcvbuf' = rcvbuf
          \/ rcvbuf' = Append(rcvbuf, net[i]) /\ Len(rcvbuf) < RCVBUF
      BY <1>5 DEF NetDeliver
    <2>4. rcvbuf' \in Seq(Uids) /\ Len(rcvbuf') <= RCVBUF
      <3>1. CASE rcvbuf' = rcvbuf
        BY <3>1
      <3>2. CASE rcvbuf' = Append(rcvbuf, net[i]) /\ Len(rcvbuf) < RCVBUF
        <4>1. rcvbuf' \in Seq(Uids) /\ Len(rcvbuf') = Len(rcvbuf) + 1
          BY <2>1, <3>2, AppendProperties
        <4> QED
          BY <3>2, <4>1, ServerAssumption
      <3> QED
        BY <2>3, <3>1, <3>2
    <2>5. lost' \subseteq Uids
      BY <1>5, <2>1 DEF NetDeliver
    <2>6. UNCHANGED <<client, server, dups, late>>
      BY <1>5 DEF NetDeliver
    <2> QED
      BY <2>1, <2>2, <2>4, <2>5, <2>6
  <1>6. CASE ServerLoop
    BY <1>6 DEF ServerLoop
  <1>7. CASE ServerRecv
    <2>1. rcvbuf' \in Seq(Uids) /\ Len(rcvbuf') <= RCVBUF
      BY <1>7, ServerAssumption DEF ServerRecv
    <2>2. slog' \in [Cells -> BOOLEAN]
      BY <1>7, StampType DEF ServerRecv
    <2>3. late' \in Nat /\ spc' \in {"export", "loop"}
      BY <1>7 DEF ServerRecv
    <2>4. UNCHANGED <<client, net, keep_running, file, lost, dups, reordered>>
      BY <1>7 DEF ServerRecv
    <2> QED
      BY <2>1, <2>2, <2>3, <2>4
  <1>8. CASE ServerExport
    BY <1>8 DEF ServerExport
  <1>9. CASE Sigtstp \/ Sigint
    <2>1. keep_running' \in BOOLEAN
      BY <1>9, Zenon DEF Sigtstp, Sigint
    <2> QED
      BY <1>9, <2>1 DEF Sigtstp, Sigint
  <1>10. CASE UNCHANGED vars
    BY <1>10 DEF vars
  <1> QED
    BY <1>1, <1>2, <1>3, <1>4, <1>5, <1>6, <1>7, <1>8, <1>9, <1>10
       DEF Next, ClientStep, NetStep, ServerStep

-----------------------------------------------------------------------------
(* Ctrl+Z                                                                   *)

(* Every step preserves LateInv.                                            *)
LEMMA LateStep ==
  ASSUME ServerTypeOK, LateInv, [Next]_vars
  PROVE  LateInv'
  <1> USE DEF ServerTypeOK, LateInv, AtMostOneLate
  <1>1. CASE ClientStep \/ NetStep \/ UNCHANGED vars
    <2>1. UNCHANGED <<spc, keep_running, late>>
      BY <1>1 DEF ClientStep, ClientSend, ClientDone, NetStep, NetLose, NetDuplicate,
         NetDeliver, vars
    <2> QED
      BY <2>1
  <1>2. CASE ServerLoop
    BY <1>2 DEF ServerLoop
  <1>3. CASE ServerRecv
    BY <1>3 DEF ServerRecv
  <1>4. CASE ServerExport
    BY <1>4 DEF ServerExport
  <1>5. CASE Sigtstp \/ Sigint
    BY <1>5 DEF Sigtstp, Sigint
  <1> QED
    BY <1>1, <1>2, <1>3, <1>4, <1>5 DEF Next, ServerStep

-----------------------------------------------------------------------------
(* The order of the packets                                                 *)

(* What was lost or overtaken stays so, and Ctrl+Z is not taken back.       *)
LEMMA OrderedBefore ==
  ASSUME ServerTypeOK, [Next]_vars
  PROVE  (Ordered' => Ordered) /\ (keep_running' => keep_running)
  <1>1. Ordered' => Ordered
    BY DEF Next, ClientStep, ClientSend, ClientDone, NetStep, NetLose, NetDuplicate,
       NetDeliver, ServerStep, ServerLoop, ServerRecv, ServerExport, Sigtstp, Sigint,
       vars, Ordered
  <1>2. keep_running' => keep_running
    BY DEF Next, ClientStep, ClientSend, ClientDone, NetStep, NetLose, NetDuplicate,
       NetDeliver, ServerStep, ServerLoop, ServerRecv, ServerExport, Sigtstp, Sigint,
       vars
  <1> QED
    BY <1>1, <1>2

(* Every step preserves OrderInv.                                           *)
LEMMA OrderStep ==
  ASSUME ServerTypeOK, ServerTypeOK', OrderInv, [Next]_vars
  PROVE  OrderInv'
  <1>1. SUFFICES ASSUME Ordered' PROVE OrderInv'
    BY DEF OrderInv
  <1>2. Ordered
    BY <1>1, OrderedBefore
  <1>types. /\ \A i \in 1 .. Len(net) : net[i] \in Uids
        /\ \A i \in 1 .. Len(rcvbuf) : rcvbuf[i] \in Uids
        /\ Len(net) \in Nat /\ Len(rcvbuf) \in Nat
        /\ Len(net') \in Nat /\ Len(rcvbuf') \in Nat
    BY DEF ServerTypeOK
  <1>3. CASE ClientSend
    <2>1. /\ net' = Append(net, uid) /\ uid' = uid + 1 /\ UNCHANGED <<rcvbuf, slog>>
          /\ uid \in 0 .. MAX_LOG_ENTRY
      BY <1>3 DEF ClientSend, LastSent, ServerTypeOK
    <2>2. /\ Len(net') = Len(net) + 1 /\ net'[Len(net) + 1] = uid
          /\ \A j \in 1 .. Len(net) : net'[j] = net[j]
      BY <2>1 DEF ServerTypeOK
    <2>3. \A v : (Received(v)' <=> Received(v)) /\ (Travelling(v)' <=> Travelling(v) \/ v = uid)
      BY <2>1, <2>2 DEF Received, Travelling, ServerTypeOK
    <2>4. \A v \in 0 .. uid' - 1 : InLog(v) => slog'[Cell(v)] \/ Received(v)' \/ Travelling(v)'
      BY <1>2, <2>1, <2>3 DEF OrderInv
    <2>5. ASSUME NEW i \in 1 .. Len(net'), NEW v \in 0 .. net'[i] - 1
          PROVE  slog'[Cell(v)] \/ Received(v)' \/ \E j \in 1 .. i - 1 : net'[j] = v
      <3>1. CASE i = Len(net) + 1
        <4>1. net'[i] = uid /\ MAX_LOG_ENTRY \in Nat
          BY <2>2, <3>1, LogAssumption
        <4>2. v \in 0 .. uid - 1 /\ InLog(v)
          BY <2>1, <4>1 DEF InLog
        <4>3. slog[Cell(v)] \/ Received(v) \/ Travelling(v)
          BY <1>2, <4>2 DEF OrderInv
        <4> QED
          BY <1>types, <2>1, <2>2, <2>3, <3>1, <4>3 DEF Travelling
      <3>2. CASE i # Len(net) + 1
        <4>1. i \in 1 .. Len(net) /\ net'[i] = net[i]
          BY <2>2, <3>2 DEF ServerTypeOK
        <4> QED
          BY <1>2, <2>1, <2>2, <2>3, <4>1 DEF OrderInv
      <3> QED
        BY <3>1, <3>2
    <2> QED
      BY <1>2, <2>1, <2>4, <2>5 DEF OrderInv
  <1>4. ASSUME NEW i \in 1 .. Len(net), NetLose(i) PROVE FALSE
    BY <1>1, <1>4 DEF NetLose, Ordered
  <1>5. ASSUME NEW n \in 1 .. Len(net), NetDuplicate(n) PROVE OrderInv'
    <2>1. net' = Append(net, net[n]) /\ UNCHANGED <<uid, rcvbuf, slog>>
      BY <1>5 DEF NetDuplicate
    <2>2. /\ Len(net') = Len(net) + 1 /\ net'[Len(net) + 1] = net[n]
          /\ \A j \in 1 .. Len(net) : net'[j] = net[j]
      BY <2>1 DEF ServerTypeOK
    <2>3. \A v : (Received(v)' <=> Received(v)) /\ (Travelling(v) => Travelling(v)')
      BY <2>1, <2>2 DEF Received, Travelling, ServerTypeOK
    <2>4. ASSUME NEW i \in 1 .. Len(net'), NEW v \in 0 .. net'[i] - 1
          PROVE  slog'[Cell(v)] \/ Received(v)' \/ \E j \in 1 .. i - 1 : net'[j] = v
      <3>1. PICK k \in 1 .. Len(net) : k <= i /\ net'[i] = net[k]
        <4>1. CASE i = Len(net) + 1
          BY <1>types, <2>2, <4>1
        <4>2. CASE i # Len(net) + 1
          BY <1>types, <2>2, <4>2
        <4> QED
          BY <4>1, <4>2
      <3>2. slog[Cell(v)] \/ Received(v) \/ \E j \in 1 .. k - 1 : net[j] = v
        BY <1>2, <3>1 DEF OrderInv
      <3> QED
        BY <2>1, <2>2, <2>3, <3>1, <3>2
    <2> QED
      BY <1>2, <2>1, <2>3, <2>4 DEF OrderInv
  <1>6. ASSUME NEW n \in 1 .. Len(net), NetDeliver(n) PROVE OrderInv'
    <2>1. n = 1 /\ net' = RemoveAt(net, n)
      BY <1>1, <1>6 DEF NetDeliver, Ordered
    <2>2. rcvbuf' = Append(rcvbuf, net[1]) /\ UNCHANGED <<uid, slog>>
      BY <1>1, <1>6, <2>1 DEF NetDeliver, Ordered
    <2>3. Len(net') = Len(net) - 1 /\ \A j \in 1 .. Len(net) - 1 : net'[j] = net[j + 1]
      BY <2>1, RemoveAtType DEF ServerTypeOK
    <2>4. /\ Len(rcvbuf') = Len(rcvbuf) + 1 /\ rcvbuf'[Len(rcvbuf) + 1] = net[1]
          /\ \A j \in 1 .. Len(rcvbuf) : rcvbuf'[j] = rcvbuf[j]
      BY <2>2 DEF ServerTypeOK
    <2>5. \A v : Received(v)' <=> Received(v) \/ v = net[1]
      BY <1>types, <2>4 DEF Received
    <2>6. \A v : Travelling(v) => Travelling(v)' \/ v = net[1]
      <3>1. ASSUME NEW j \in 1 .. Len(net), j # 1
            PROVE  j - 1 \in 1 .. Len(net') /\ net'[j - 1] = net[j]
        BY <2>3, <3>1 DEF ServerTypeOK
      <3> QED
        BY <3>1 DEF Travelling
    <2>7. \A v \in 0 .. uid' - 1 : InLog(v) => slog'[Cell(v)] \/ Received(v)' \/ Travelling(v)'
      BY <1>2, <2>2, <2>5, <2>6 DEF OrderInv
    <2>8. ASSUME NEW i \in 1 .. Len(net'), NEW v \in 0 .. net'[i] - 1
          PROVE  slog'[Cell(v)] \/ Received(v)' \/ \E j \in 1 .. i - 1 : net'[j] = v
      <3>1. i + 1 \in 1 .. Len(net) /\ net'[i] = net[i + 1]
        BY <2>3 DEF ServerTypeOK
      <3>2. slog[Cell(v)] \/ Received(v) \/ \E j \in 1 .. i : net[j] = v
        BY <1>2, <3>1 DEF OrderInv
      <3>3. ASSUME NEW j \in 1 .. i, net[j] = v, j # 1
            PROVE  j - 1 \in 1 .. i - 1 /\ net'[j - 1] = v
        BY <1>types, <2>3, <3>3
      <3> QED
        BY <2>2, <2>5, <3>2, <3>3
    <2>9. ASSUME NEW i \in 1 .. Len(rcvbuf'), NEW v \in 0 .. rcvbuf'[i] - 1
          PROVE  slog'[Cell(v)] \/ \E j \in 1 .. i - 1 : rcvbuf'[j] = v
      <3>1. CASE i = Len(rcvbuf) + 1
        <4>1. v \in 0 .. net[1] - 1 /\ 1 \in 1 .. Len(net)
          BY <2>1, <2>4, <3>1
        <4>2. slog[Cell(v)] \/ Received(v)
          BY <1>2, <4>1 DEF OrderInv
        <4> QED
          BY <2>2, <2>4, <3>1, <4>2 DEF Received, ServerTypeOK
      <3>2. CASE i # Len(rcvbuf) + 1
        <4>1. i \in 1 .. Len(rcvbuf) /\ rcvbuf'[i] = rcvbuf[i]
          BY <2>4, <3>2 DEF ServerTypeOK
        <4> QED
          BY <1>2, <2>2, <2>4, <4>1 DEF OrderInv
      <3> QED
        BY <3>1, <3>2
    <2> QED
      BY <2>7, <2>8, <2>9 DEF OrderInv
  <1>7. CASE ServerRecv
    <2> DEFINE h == rcvbuf[1]
    <2>1. /\ rcvbuf # <<>> /\ rcvbuf' = Tail(rcvbuf) /\ slog' = Stamp(slog, {h})
          /\ UNCHANGED <<uid, net>>
      BY <1>7 DEF ServerRecv, ServerTypeOK
    <2>2. /\ Len(rcvbuf') = Len(rcvbuf) - 1 /\ 1 \in 1 .. Len(rcvbuf)
          /\ \A j \in 1 .. Len(rcvbuf) - 1 : rcvbuf'[j] = rcvbuf[j + 1]
      BY <2>1 DEF ServerTypeOK
    <2>3. h \in Nat
      BY <2>2, LogAssumption DEF ServerTypeOK, Uids
    <2>4. ASSUME NEW v \in Nat, InLog(v), slog[Cell(v)] \/ v = h PROVE slog'[Cell(v)]
      <3>1. Cell(v) \in Cells
        BY <2>4, CellInLog
      <3> QED
        BY <2>1, <2>3, <2>4, <3>1, StampType, StampSets DEF ServerTypeOK
    <2>5. \A v : Received(v) => Received(v)' \/ v = h
      <3>1. ASSUME NEW j \in 1 .. Len(rcvbuf), j # 1
            PROVE  j - 1 \in 1 .. Len(rcvbuf') /\ rcvbuf'[j - 1] = rcvbuf[j]
        BY <2>2, <3>1 DEF ServerTypeOK
      <3> QED
        BY <3>1 DEF Received
    <2>6. \A v : Travelling(v)' <=> Travelling(v)
      BY <2>1 DEF Travelling
    <2>7. ASSUME NEW v \in 0 .. uid' - 1, InLog(v)
          PROVE  slog'[Cell(v)] \/ Received(v)' \/ Travelling(v)'
      <3>1. v \in Nat /\ v \in 0 .. uid - 1
        BY <2>1 DEF ServerTypeOK
      <3>2. slog[Cell(v)] \/ Received(v) \/ Travelling(v)
        BY <1>2, <2>7, <3>1 DEF OrderInv
      <3> QED
        BY <2>4, <2>5, <2>6, <2>7, <3>1, <3>2
    <2>8. ASSUME NEW i \in 1 .. Len(net'), NEW v \in 0 .. net'[i] - 1
          PROVE  slog'[Cell(v)] \/ Received(v)' \/ \E j \in 1 .. i - 1 : net'[j] = v
      <3>1. net[i] \in 0 .. MAX_LOG_ENTRY /\ i \in 1 .. Len(net) /\ v \in 0 .. net[i] - 1
        BY <1>types, <2>1 DEF Uids
      <3>2. v \in Nat /\ InLog(v)
        BY <3>1, LogAssumption DEF InLog
      <3>3. slog[Cell(v)] \/ Received(v) \/ \E j \in 1 .. i - 1 : net[j] = v
        BY <1>2, <3>1 DEF OrderInv
      <3> QED
        BY <2>1, <2>4, <2>5, <3>2, <3>3
    <2>9. ASSUME NEW i \in 1 .. Len(rcvbuf'), NEW v \in 0 .. rcvbuf'[i] - 1
          PROVE  slog'[Cell(v)] \/ \E j \in 1 .. i - 1 : rcvbuf'[j] = v
      <3>1. i + 1 \in 1 .. Len(rcvbuf) /\ rcvbuf'[i] = rcvbuf[i + 1]
        BY <2>2 DEF ServerTypeOK
      <3>2. rcvbuf[i + 1] \in 0 .. MAX_LOG_ENTRY
        BY <1>types, <3>1 DEF Uids
      <3>3. v \in Nat /\ InLog(v)
        BY <3>1, <3>2, LogAssumption DEF InLog
      <3>4. slog[Cell(v)] \/ \E j \in 1 .. i : rcvbuf[j] = v
        BY <1>2, <3>1 DEF OrderInv
      <3>5. ASSUME NEW j \in 1 .. i, rcvbuf[j] = v, j # 1
            PROVE  j - 1 \in 1 .. i - 1 /\ rcvbuf'[j - 1] = v
        BY <1>types, <2>2, <3>5
      <3> QED
        BY <2>4, <3>3, <3>4, <3>5
    <2> QED
      BY <2>7, <2>8, <2>9 DEF OrderInv
  <1>8. CASE ClientDone \/ ServerLoop \/ ServerExport \/ Sigtstp \/ Sigint \/ UNCHANGED vars
    <2>1. UNCHANGED <<uid, net, rcvbuf, slog>>
      BY <1>8 DEF ClientDone, ServerLoop, ServerExport, Sigtstp, Sigint, vars
    <2> QED
      BY <1>2, <2>1 DEF OrderInv, Received, Travelling
  <1> QED
    BY <1>3, <1>4, <1>5, <1>6, <1>7, <1>8 DEF Next, ClientStep, NetStep, ServerStep

-----------------------------------------------------------------------------
(* The export                                                               *)

(* Every step preserves ExportInv.                                          *)
LEMMA ExportStep ==
  ASSUME ServerTypeOK, OrderInv, ExportInv, [Next]_vars
  PROVE  ExportInv'
  <1>1. SUFFICES ASSUME Ordered', keep_running'
        PROVE  /\ spc' = "export" => \A c \in Cells : slog'[c]
               /\ file' # NoFile => \A c \in Cells : file'[c]
    BY DEF ExportInv
  <1>2. /\ Ordered /\ keep_running
        /\ spc = "export" => \A c \in Cells : slog[c]
        /\ file # NoFile => \A c \in Cells : file[c]
    BY <1>1, OrderedBefore DEF ExportInv
  <1>3. CASE ServerRecv
    <2> DEFINE h == rcvbuf[1]
    <2>1. /\ rcvbuf # <<>> /\ slog' = Stamp(slog, {h}) /\ file' = file
          /\ spc' = "export" => h = MAX_LOG_ENTRY - 1
      BY <1>3 DEF ServerRecv, ServerTypeOK, LastUid
    <2>2. ASSUME spc' = "export", NEW c \in Cells PROVE slog'[c]
      <3>1. PICK u \in 0 .. MAX_LOG_ENTRY - 1 : Cell(u) = c
        BY CellCovered
      <3>2. u \in Nat /\ InLog(u)
        BY LogAssumption DEF InLog
      <3>3. CASE u = h
        BY <2>1, <3>1, <3>2, <3>3, StampSets DEF ServerTypeOK
      <3>4. CASE u # h
        <4>1. 1 \in 1 .. Len(rcvbuf) /\ u \in 0 .. rcvbuf[1] - 1
          BY <2>1, <2>2, <3>4, LogAssumption DEF ServerTypeOK
        <4>2. slog[Cell(u)]
          BY <1>2, <4>1 DEF OrderInv
        <4> QED
          BY <2>1, <3>1, <4>2, StampType DEF ServerTypeOK
      <3> QED
        BY <3>3, <3>4
    <2> QED
      BY <1>2, <2>1, <2>2
  <1>4. CASE ServerLoop
    BY <1>2, <1>4 DEF ServerLoop
  <1>5. CASE ServerExport
    BY <1>2, <1>5 DEF ServerExport
  <1>6. CASE ClientStep \/ NetStep \/ Sigtstp \/ Sigint \/ UNCHANGED vars
    <2>1. UNCHANGED <<slog, file>> /\ (spc' = spc \/ spc' = "killed")
      BY <1>6 DEF ClientStep, ClientSend, ClientDone, NetStep, NetLose, NetDuplicate,
         NetDeliver, Sigtstp, Sigint, vars
    <2> QED
      BY <1>2, <2>1
  <1> QED
    BY <1>3, <1>4, <1>5, <1>6 DEF Next, ServerStep

-----------------------------------------------------------------------------
(* The theorems                                                             *)

(* Before the client sends its first packet.                                *)
LEMMA ServerInit == Init => ServerInv
  <1> SUFFICES ASSUME Init PROVE ServerInv
    OBVIOUS
  <1> USE DEF Init
  <1>1. keep_running \in BOOLEAN /\ reordered \in BOOLEAN
    BY Zenon
  <1>2. slog \in [Cells -> BOOLEAN]
    BY DEF EmptyLog
  <1>3. ServerTypeOK
    BY <1>1, <1>2, LogAssumption, ServerAssumption DEF ServerTypeOK
  <1>4. LateInv /\ ExportInv
    BY DEF LateInv, AtMostOneLate, ExportInv
  <1>5. OrderInv
    BY DEF OrderInv
  <1> QED
    BY <1>3, <1>4, <1>5 DEF ServerInv

(* The inductive invariant of the experiment with the socket server: as     *)
(* long as nothing is lost or overtaken, a uid that was sent is logged or   *)
(* on its way, and what is in front of a packet has no gap; and a server    *)
(* still in recvfrom after Ctrl+Z has logged nothing since.                 *)
THEOREM ServerInvariant == Spec => []ServerInv
  <1>1. ServerInv /\ [Next]_vars => ServerInv'
    BY ServerTypeStep, LateStep, OrderStep, ExportStep DEF ServerInv
  <1> QED
    BY <1>1, ServerInit, PTL DEF Spec

(* Leaving the loop at uid MAX_LOG_ENTRY - 1 skips nothing when the network *)
(* lost nothing and kept the order, for every length of the experiment,     *)
(* every size of the receive buffer and any number of duplicates.           *)
THEOREM OrderedExport == Spec => []OrderedExportComplete
  <1>1. ServerInv => OrderedExportComplete
    BY DEF ServerInv, ExportInv, Ordered, OrderedExportComplete
  <1> QED
    BY <1>1, ServerInvariant, PTL

(* After Ctrl+Z the server logs at most the one packet its recvfrom was     *)
(* waiting for.                                                             *)
THEOREM OneLatePacket == Spec => []AtMostOneLate
  <1>1. ServerInv => AtMostOneLate
    BY DEF ServerInv, LateInv
  <1> QED
    BY <1>1, ServerInvariant, PTL


=============================================================================
