---------------------------- MODULE SocketServer ----------------------------
(***************************************************************************)
(* The packet generator, the network and the socket server of the           *)
(* experiment (mymodule/helper/client.c and server.c).                      *)
(*                                                                         *)
(* The client sends one UDP packet per uid, from 0 to MAX_LOG_ENTRY, and    *)
(* ends.  The network and the server's socket buffer may lose a packet, the *)
(* network may also reorder and duplicate.  The server logs what it         *)
(* receives and leaves its loop after uid MAX_LOG_ENTRY - 1, or on Ctrl+Z;  *)
(* then it exports its log.  A packet is its uid.                           *)
(***************************************************************************)
EXTENDS LogBuffs, Sequences, SequencesExt, FiniteSets

CONSTANTS
  RCVBUF,    \* packets the socket's receive buffer holds
  MaxLost,   \* bound on the packets the network loses
  MaxDup     \* bound on the packets the network duplicates

ASSUME ServerAssumption ==
  RCVBUF \in Nat \ {0} /\ MaxLost \in Nat /\ MaxDup \in Nat

VARIABLES
  uid, cpc,                       \* client.c
  net, rcvbuf,                    \* packets on their way, in sending order
  spc, slog, keep_running, file,  \* server.c; file is the exported log
  lost, dups, reordered, late     \* history

client == <<uid, cpc>>
server == <<spc, slog, keep_running, file>>
history == <<lost, dups, reordered, late>>
vars == <<client, net, rcvbuf, server, history>>

Uids == 0 .. MAX_LOG_ENTRY
NoFile == <<>>

Init ==
  /\ uid = 0
  /\ cpc = "sending"
  /\ net = <<>>
  /\ rcvbuf = <<>>
  /\ spc = "loop"
  /\ slog = EmptyLog
  /\ keep_running = TRUE
  /\ file = NoFile
  /\ lost = {}
  /\ dups = 0
  /\ reordered = FALSE
  /\ late = 0

-----------------------------------------------------------------------------
(* client.c                                                                 *)

(* The loop ends when uid is past MAX_LOG_ENTRY, not when it reaches it.    *)
LastSent == MAX_LOG_ENTRY

ClientSend ==
  /\ cpc = "sending"
  /\ uid <= LastSent
  /\ net' = Append(net, uid)
  /\ uid' = uid + 1
  /\ UNCHANGED <<cpc, rcvbuf, server, history>>

ClientDone ==
  /\ cpc = "sending"
  /\ uid > LastSent
  /\ cpc' = "done"
  /\ UNCHANGED <<uid, net, rcvbuf, server, history>>

-----------------------------------------------------------------------------
(* The network and the socket (UDP)                                         *)

NetLose(i) ==
  /\ Cardinality(lost) < MaxLost
  /\ lost' = lost \cup {net[i]}
  /\ net' = RemoveAt(net, i)
  /\ UNCHANGED <<client, rcvbuf, server, dups, reordered, late>>

NetDuplicate(i) ==
  /\ dups < MaxDup
  /\ dups' = dups + 1
  /\ net' = Append(net, net[i])
  /\ UNCHANGED <<client, rcvbuf, server, lost, reordered, late>>

(* A packet reaches the host; a full receive buffer, or a socket that the   *)
(* server has closed by ending, drops it.                                   *)
NetDeliver(i) ==
  /\ net' = RemoveAt(net, i)
  /\ reordered' = (reordered \/ i # 1)
  /\ IF Len(rcvbuf) < RCVBUF /\ spc \notin {"stopped", "killed"}
     THEN rcvbuf' = Append(rcvbuf, net[i]) /\ lost' = lost
     ELSE rcvbuf' = rcvbuf /\ lost' = lost \cup {net[i]}
  /\ UNCHANGED <<client, server, dups, late>>

NetStep == \E i \in 1 .. Len(net) : NetLose(i) \/ NetDuplicate(i) \/ NetDeliver(i)

-----------------------------------------------------------------------------
(* server.c                                                                 *)

(* Mutant: while (1)                                                        *)
ServerLoopForever ==
  /\ spc = "loop"
  /\ spc' = "recv"
  /\ UNCHANGED <<client, net, rcvbuf, slog, keep_running, file, history>>

(* while (keep_running)                                                     *)
ServerLoop ==
  /\ spc = "loop"
  /\ spc' = IF keep_running THEN "recv" ELSE "export"
  /\ UNCHANGED <<client, net, rcvbuf, slog, keep_running, file, history>>

(* Mutants: the server stops one packet early, or waits for a packet that   *)
(* the client never sends.                                                  *)
LastUidEarly == MAX_LOG_ENTRY - 2
LastUidNever == MAX_LOG_ENTRY + 1
(* The uid after which the server leaves its loop.                          *)
LastUid == MAX_LOG_ENTRY - 1

(* recvfrom blocks until there is a packet.  A signal does not wake it up:  *)
(* glibc's signal() installs the handler with SA_RESTART.                   *)
ServerRecv ==
  LET u == Head(rcvbuf) IN
  /\ spc = "recv"
  /\ rcvbuf # <<>>
  /\ rcvbuf' = Tail(rcvbuf)
  /\ slog' = Stamp(slog, {u})
  /\ spc' = IF u = LastUid THEN "export" ELSE "loop"
  /\ late' = IF keep_running THEN late ELSE late + 1
  /\ UNCHANGED <<client, net, keep_running, file, lost, dups, reordered>>

ServerExport ==
  /\ spc = "export"
  /\ file' = slog
  /\ spc' = "stopped"
  /\ UNCHANGED <<client, net, rcvbuf, slog, keep_running, history>>

(* Ctrl+Z: sig_handler.  Ctrl+C has its default effect.                     *)
Sigtstp ==
  /\ spc \in {"loop", "recv", "export"}
  /\ keep_running
  /\ keep_running' = FALSE
  /\ UNCHANGED <<client, net, rcvbuf, spc, slog, file, history>>

Sigint ==
  /\ spc \in {"loop", "recv", "export"}
  /\ spc' = "killed"
  /\ UNCHANGED <<client, net, rcvbuf, slog, keep_running, file, history>>

-----------------------------------------------------------------------------
ClientStep == ClientSend \/ ClientDone
ServerStep == ServerLoop \/ ServerRecv \/ ServerExport

Next == ClientStep \/ NetStep \/ ServerStep \/ Sigtstp \/ Sigint

Spec == Init /\ [][Next]_vars

(* The client and the server are scheduled, and a packet does not stay on   *)
(* the network for ever.                                                    *)
FairSpec ==
  /\ Spec
  /\ WF_vars(ClientStep)
  /\ WF_vars(ServerStep)
  /\ WF_vars(\E i \in 1 .. Len(net) : NetDeliver(i))

-----------------------------------------------------------------------------
(* Properties                                                               *)

(* If no packet was lost or overtaken and nobody pressed Ctrl+Z, the file   *)
(* the server exports has a timestamp for every uid: leaving the loop at    *)
(* uid MAX_LOG_ENTRY - 1 skips nothing.                                     *)
OrderedExportComplete ==
  file # NoFile /\ lost = {} /\ ~reordered /\ keep_running =>
    \A c \in Cells : file[c]

(* After Ctrl+Z the server logs at most the one packet its recvfrom was     *)
(* waiting for.                                                             *)
AtMostOneLate == late <= 1

(* Once the client is done the server ends by itself and exports its log,   *)
(* unless the packet with uid MAX_LOG_ENTRY - 1 was lost or the server was  *)
(* killed.                                                                  *)
ExportsUnlessLastLost ==
  cpc = "done" ~> \/ spc = "stopped" /\ file # NoFile
                  \/ MAX_LOG_ENTRY - 1 \in lost
                  \/ spc = "killed"

(* readme.md: "After the client had done sending, the server will           *)
(* automatically terminate and export the log file."                        *)
ExportsAfterClient ==
  cpc = "done" ~> (spc = "stopped" /\ file # NoFile) \/ spc = "killed"

(* server.c: "Ctrl+Z to break while()".                                     *)
CtrlZBreaksLoop == ~keep_running ~> spc \notin {"loop", "recv"}

=============================================================================
