----------------------- MODULE KernelLifecycle_proofs -----------------------
(***************************************************************************)
(* Safety of loading and unloading the kernel module: proofs.               *)
(***************************************************************************)
EXTENDS KernelLifecycle, LogBuffs_proofs, FiniteSetTheorems, SequenceTheorems,
        WellFoundedInduction, TLAPS

USE DEF module, procs, history

-----------------------------------------------------------------------------
(* The inductive invariant                                                  *)

(* myinit has allocated everything and myexit has not yet freed anything.   *)
AllAllocated ==
  {"proc", "registerRxHandlers", "register", "live", "unregisterRxHandlers",
   "unregister", "export", "remove_proc_entry", "rundown", "kfree"}
(* The part of it in which the proc entry may be there.                     *)
EntryMayExist == AllAllocated \ {"proc", "kfree"}
Pcs == AllAllocated \cup {"absent", "kmalloc", "pages", "oops"}

Allocations ==
  ({"buff_from_here", "buff_temp"} \X {0} \X Nat)
    \cup ({"log_buffs"} \X (0 .. NUM_LOG_BUFF - 1) \X Nat)
    \cup ({"mmap_info"} \X Processes \X Nat)

(* Every variable but the text of the log file has its type, and nothing is *)
(* of a load that is still to come.                                         *)
LifecycleTypeOK ==
  /\ pc \in Pcs
  /\ load \in Nat
  /\ mem \subseteq Allocations /\ \A m \in mem : m[3] <= load
  /\ log \in [Cells -> BOOLEAN]
  /\ procEntry \in 0 .. load
  /\ rundown \in BOOLEAN
  /\ handler \in {"none", "ours", "other", "nodev"}
  /\ fd \in [Processes -> {"none", "open", "mapped", "stale", "staleMapped"}]
  /\ opened \in [Processes -> Nat]
  /\ call \in [Processes -> {"none", "open", "read", "write", "dead"}]
  /\ netdev \in {"idle", "rtnl", "both"}
  /\ netdevOps \in Nat
  /\ misuse \subseteq {"handler", "call", "buffer", "mapping"}
  /\ earlyExit \in BOOLEAN /\ initFailed \in BOOLEAN

(* The log pages of the current load.                                       *)
LogsOf == {m \in mem : m[1] = "log_buffs" /\ m[3] = load}

(* The handler is registered only while everything it uses is allocated;    *)
(* while myinit allocates the log, the first few log buffers are there.     *)
HandlerInv ==
  /\ handler = "ours" => pc \in {"live", "unregisterRxHandlers", "unregister"}
  /\ pc \in AllAllocated => Buffers \cup LogPages(NUM_LOG_BUFF) \subseteq mem
  /\ pc = "kmalloc" => LogsOf = LogPages(0)
  /\ pc = "pages" =>
       /\ Buffers \subseteq mem
       /\ \E k \in 0 .. NUM_LOG_BUFF - 1 : LogsOf = LogPages(k)

(* An open file was opened through the entry that is there, its mmap_info   *)
(* is live, and a call under way keeps the entry; the entry is that of the  *)
(* module that is loaded, unless an earlier myexit left it behind.          *)
EntryInv ==
  /\ rundown <=> pc = "rundown"
  /\ pc = "rundown" => procEntry # 0
  /\ \A p \in Processes :
       /\ fd[p] \in {"open", "mapped"} =>
            procEntry # 0 /\ opened[p] = procEntry /\ Info(p) \in mem
       /\ call[p] \in {"open", "read", "write"} => procEntry # 0
       /\ call[p] \in {"read", "write"} => fd[p] \in {"open", "mapped"}
  /\ ~earlyExit /\ procEntry # 0 => procEntry = load /\ pc \in EntryMayExist

(* Unless an error path was taken, memory holds what the module thread has  *)
(* allocated in this load and the mmap_info of the open files.              *)
MemInv ==
  ~earlyExit /\ ~initFailed =>
    \A m \in mem :
      \/ /\ pc \in AllAllocated \cup {"pages", "oops"}
         /\ m \in Buffers \cup LogPages(NUM_LOG_BUFF)
      \/ \E p \in Processes : fd[p] \in {"open", "mapped"} /\ m = Info(p)

LifecycleInv ==
  LifecycleTypeOK /\ HandlerInv /\ EntryInv /\ MemInv /\ NoUseAfterFree

-----------------------------------------------------------------------------
(* There is at least one log buffer.                                        *)
LEMMA SomeLogBuff == NUM_LOG_BUFF \in Nat \ {0}
  <1>1. 0 \div MAX_ENTRIES_PER_LOG_BUFF < MAX_LOG_ENTRY \div MAX_ENTRIES_PER_LOG_BUFF
    BY DivLess, LogAssumption
  <1>2. 0 \div MAX_ENTRIES_PER_LOG_BUFF = 0
    BY LogAssumption
  <1>3. MAX_LOG_ENTRY \div MAX_ENTRIES_PER_LOG_BUFF \in Nat
    BY LogAssumption
  <1> QED
    BY <1>1, <1>2, <1>3 DEF NUM_LOG_BUFF

(* The counter of myinit's loop is the number of log buffers it has.        *)
LEMMA LogsCounted ==
  ASSUME NEW k \in Nat, LogsOf = LogPages(k)
  PROVE  LogsAllocated = k
  <1> DEFINE f == [i \in 0 .. k - 1 |-> <<"log_buffs", i, load>>]
  <1>1. f \in Bijection(0 .. k - 1, LogPages(k))
    BY DEF Bijection, Injection, Surjection, IsInjective, LogPages
  <1>2. ExistsBijection(0 .. k - 1, LogPages(k))
    BY <1>1 DEF ExistsBijection
  <1>3. IsFiniteSet(0 .. k - 1) /\ Cardinality(0 .. k - 1) = k
    BY FS_Interval
  <1>4. Cardinality(LogPages(k)) = k
    BY <1>2, <1>3, FS_Bijection
  <1> QED
    BY <1>4 DEF LogsOf, LogsAllocated

(* The step of myinit that asks for a log buffer: after k of them it gets   *)
(* the next one, or frees the k it has.                                     *)
LEMMA AllocLogStep ==
  ASSUME LifecycleTypeOK, HandlerInv, AllocLog
  PROVE  \E k \in 0 .. NUM_LOG_BUFF - 1 :
           /\ LogsOf = LogPages(k) /\ Buffers \subseteq mem
           /\ \/ /\ mem' = mem \cup LogPages(k + 1)
                 /\ pc' = IF k + 1 = NUM_LOG_BUFF THEN "proc" ELSE "pages"
                 /\ UNCHANGED initFailed
              \/ mem' = mem \ LogPages(k) /\ pc' = "absent" /\ initFailed'
  <1>1. pc = "pages"
    BY DEF AllocLog
  <1>2. PICK k \in 0 .. NUM_LOG_BUFF - 1 : LogsOf = LogPages(k)
    BY <1>1 DEF HandlerInv
  <1>3. LogsAllocated = k
    BY <1>2, LogsCounted, SomeLogBuff
  <1> QED
    BY <1>1, <1>2, <1>3, SomeLogBuff DEF AllocLog, HandlerInv

-----------------------------------------------------------------------------
(* Types                                                                    *)

(* What the allocations of a load are.                                      *)
LEMMA AllocationKinds ==
  ASSUME LifecycleTypeOK
  PROVE  /\ Buffers \subseteq Allocations /\ \A m \in Buffers : m[3] = load
         /\ \A k \in 0 .. NUM_LOG_BUFF :
              LogPages(k) \subseteq Allocations /\ \A m \in LogPages(k) : m[3] = load
         /\ \A p \in Processes : <<"mmap_info", p, procEntry>> \in Allocations
         /\ \A p \in Processes : \A n :
              <<"mmap_info", p, n>> \notin Buffers \cup LogPages(NUM_LOG_BUFF)
  <1>1. load \in Nat /\ procEntry \in Nat /\ procEntry <= load
    BY DEF LifecycleTypeOK
  <1>2. Buffers \subseteq Allocations /\ \A m \in Buffers : m[3] = load
    BY <1>1 DEF Buffers, Allocations
  <1>3. ASSUME NEW k \in 0 .. NUM_LOG_BUFF
        PROVE  LogPages(k) \subseteq Allocations /\ \A m \in LogPages(k) : m[3] = load
    BY <1>1, SomeLogBuff DEF LogPages, Allocations
  <1>4. \A p \in Processes : <<"mmap_info", p, procEntry>> \in Allocations
    BY <1>1 DEF Allocations
  <1>5. \A p \in Processes : \A n :
           <<"mmap_info", p, n>> \notin Buffers \cup LogPages(NUM_LOG_BUFF)
    BY DEF Buffers, LogPages
  <1> QED
    BY <1>2, <1>3, <1>4, <1>5

(* Every step preserves LifecycleTypeOK.                                    *)
LEMMA LifecycleTypeStep ==
  ASSUME LifecycleTypeOK, HandlerInv, [Next]_vars
  PROVE  LifecycleTypeOK'
  <1> USE DEF LifecycleTypeOK
  <1>1. CASE InsMod
    <2>1. \A m \in mem : m[3] \in Nat
      BY DEF Allocations
    <2>2. \A m \in mem : m[3] <= load + 1
      BY <2>1
    <2>3. procEntry \in 0 .. load + 1
      OBVIOUS
    <2> QED
      BY <1>1, <2>2, <2>3 DEF InsMod, Pcs
  <1>2. CASE AllocBuffers
    <2>1. mem' \subseteq mem \cup Buffers /\ pc' \in Pcs
      BY <1>2 DEF AllocBuffers, Pcs, AllAllocated, Buffers
    <2> QED
      BY <1>2, <2>1, AllocationKinds DEF AllocBuffers
  <1>3. CASE AllocLog
    <2>1. PICK k \in 0 .. NUM_LOG_BUFF - 1 : mem' \subseteq mem \cup LogPages(k + 1)
      BY <1>3, AllocLogStep
    <2>2. k + 1 \in 0 .. NUM_LOG_BUFF
      BY SomeLogBuff
    <2>3. mem' \subseteq Allocations /\ \A m \in mem' : m[3] <= load
      BY <2>1, <2>2, AllocationKinds
    <2>4. pc' \in Pcs /\ log' \in [Cells -> BOOLEAN] /\ initFailed' \in BOOLEAN
      BY <1>3 DEF AllocLog, Pcs, AllAllocated
    <2> QED
      BY <1>3, <2>3, <2>4 DEF AllocLog
  <1>4. CASE CreateProc \/ ReadLock \/ Register \/ RmMod \/ Unregister
    <2>1. CASE CreateProc
      BY <2>1 DEF CreateProc, Pcs, AllAllocated
    <2>2. CASE ReadLock
      BY <2>2 DEF ReadLock, Pcs, AllAllocated
    <2>3. CASE Register \/ RmMod \/ Unregister
      BY <2>3 DEF Register, RmMod, Unregister, Pcs, AllAllocated
    <2> QED
      BY <1>4, <2>1, <2>2, <2>3
  <1>5. CASE ExportLog \/ RemoveProcEntry \/ FreeAll
    BY <1>5 DEF ExportLog, RemoveProcEntry, FreeAll, Pcs, AllAllocated
  <1>6. CASE Rundown
    <2>1. mem' \subseteq mem /\ pc' \in Pcs
      BY <1>6 DEF Rundown, Pcs, AllAllocated
    <2>2. fd' \in [Processes -> {"none", "open", "mapped", "stale", "staleMapped"}]
      BY <1>6 DEF Rundown
    <2>3. misuse' \subseteq {"handler", "call", "buffer", "mapping"}
      BY <1>6 DEF Rundown
    <2>4. procEntry' = 0 /\ rundown' = FALSE
          /\ UNCHANGED <<load, log, handler, opened, call, netdev, netdevOps, earlyExit,
                         initFailed>>
      BY <1>6 DEF Rundown
    <2>5. mem' \subseteq Allocations /\ \A m \in mem' : m[3] <= load'
      BY <2>1, <2>4
    <2>6. procEntry' \in 0 .. load'
      BY <2>4
    <2>7. rundown' \in BOOLEAN
      BY <2>4, Zenon
    <2> QED
      BY <2>1, <2>2, <2>3, <2>4, <2>5, <2>6, <2>7
  <1>7. ASSUME NEW uid \in 0 .. MAX_LOG_ENTRY - 1, Receive(uid) PROVE LifecycleTypeOK'
    <2>1. Stamp(log, {uid}) \in [Cells -> BOOLEAN]
      BY StampType
    <2>2. log' \in [Cells -> BOOLEAN]
      BY <1>7, <2>1 DEF Receive
    <2>3. misuse' \subseteq {"handler", "call", "buffer", "mapping"}
      BY <1>7 DEF Receive
    <2> QED
      BY <1>7, <2>2, <2>3 DEF Receive
  <1>8. ASSUME NEW p \in Processes, OpenStart(p) PROVE LifecycleTypeOK'
    BY <1>8 DEF OpenStart, Enter
  <1>9. ASSUME NEW p \in Processes, OpenEnd(p) PROVE LifecycleTypeOK'
    <2>1. mem' \subseteq mem \cup {<<"mmap_info", p, procEntry>>}
      BY <1>9 DEF OpenEnd
    <2>2. mem' \subseteq Allocations /\ \A m \in mem' : m[3] <= load
      BY <2>1, AllocationKinds
    <2> QED
      BY <1>9, <2>2 DEF OpenEnd
  <1>10. ASSUME NEW p \in Processes, NEW op \in {"read", "write"}, ReadWriteStart(p, op)
         PROVE  LifecycleTypeOK'
    BY <1>10 DEF ReadWriteStart, Enter
  <1>11. ASSUME NEW p \in Processes, ReadWriteEnd(p) PROVE LifecycleTypeOK'
    BY <1>11 DEF ReadWriteEnd
  <1>12. ASSUME NEW p \in Processes, Mmap(p) \/ VmFault(p) \/ VmClose(p)
         PROVE  LifecycleTypeOK'
    BY <1>12 DEF Mmap, VmFault, VmClose
  <1>13. ASSUME NEW p \in Processes, Release(p) PROVE LifecycleTypeOK'
    BY <1>13 DEF Release
  <1>14. CASE NetdevRtnl \/ Netdev
    <2>1. netdev' \in {"idle", "rtnl", "both"} /\ netdevOps' \in Nat
      BY <1>14 DEF NetdevRtnl, Netdev, NetdevList, NetdevUnlock
    <2>2. UNCHANGED <<module, procs, history>>
      BY <1>14 DEF NetdevRtnl, Netdev, NetdevList, NetdevUnlock
    <2> QED
      BY <2>1, <2>2
  <1>15. CASE UNCHANGED vars
    BY <1>15 DEF vars
  <1> QED
    BY <1>1, <1>2, <1>3, <1>4, <1>5, <1>6, <1>7, <1>8, <1>9, <1>10, <1>11, <1>12,
       <1>13, <1>14, <1>15 DEF Next, ModuleThread, CallEnd

-----------------------------------------------------------------------------
(* The receive handler and its memory                                       *)

(* A step of a process touches no buffer and no log page.                   *)
LEMMA ProcessesLeaveBuffers ==
  ASSUME LifecycleTypeOK, NEW p \in Processes,
         \/ OpenStart(p) \/ CallEnd(p) \/ Mmap(p) \/ VmFault(p) \/ VmClose(p) \/ Release(p)
         \/ \E op \in {"read", "write"} : ReadWriteStart(p, op)
  PROVE  /\ UNCHANGED <<pc, load, handler, procEntry, rundown, earlyExit, initFailed>>
         /\ Buffers' = Buffers /\ LogPages(NUM_LOG_BUFF)' = LogPages(NUM_LOG_BUFF)
         /\ \A m : m[1] # "mmap_info" => (m \in mem' <=> m \in mem)
  <1>1. UNCHANGED <<pc, load, handler, procEntry, rundown, earlyExit, initFailed>>
    BY DEF OpenStart, CallEnd, OpenEnd, ReadWriteEnd, Mmap, VmFault, VmClose, Release,
       ReadWriteStart
  <1>2. \/ mem' = mem
        \/ \E n : mem' = mem \cup {<<"mmap_info", p, n>>}
        \/ \E n : mem' = mem \ {<<"mmap_info", p, n>>}
    BY DEF OpenStart, CallEnd, OpenEnd, ReadWriteEnd, Mmap, VmFault, VmClose, Release,
       ReadWriteStart, Info
  <1>3. \A n : <<"mmap_info", p, n>>[1] = "mmap_info"
    OBVIOUS
  <1> QED
    BY <1>1, <1>2, <1>3 DEF Buffers, LogPages

(* Every step preserves HandlerInv.                                         *)
LEMMA HandlerStep ==
  ASSUME LifecycleTypeOK, HandlerInv, [Next]_vars
  PROVE  HandlerInv'
  <1> USE DEF LifecycleTypeOK
  <1>1. CASE InsMod
    <2>1. LogsOf' = {}
      <3>1. \A m \in mem : m[3] \in Nat /\ m[3] # load + 1
        BY DEF Allocations
      <3> QED
        BY <1>1, <3>1 DEF InsMod, LogsOf
    <2>2. LogPages(0)' = {}
      BY DEF LogPages
    <2>3. handler # "ours"
      BY <1>1 DEF HandlerInv, InsMod
    <2> QED
      BY <1>1, <2>1, <2>2, <2>3 DEF HandlerInv, InsMod, AllAllocated
  <1>2. CASE AllocBuffers
    <2>1. UNCHANGED <<load, handler>> /\ pc = "kmalloc" /\ handler # "ours"
      BY <1>2 DEF AllocBuffers, HandlerInv
    <2>2. CASE pc' = "pages"
      <3>1. mem' = mem \cup Buffers /\ Buffers' = Buffers
        BY <1>2, <2>1, <2>2 DEF AllocBuffers, Buffers
      <3>2. LogsOf' = LogsOf
        BY <2>1, <3>1 DEF LogsOf, Buffers
      <3>3. LogPages(0)' = LogPages(0)
        BY <2>1 DEF LogPages
      <3>4. LogsOf' = LogPages(0)' /\ 0 \in 0 .. NUM_LOG_BUFF - 1
        BY <2>1, <3>2, <3>3, SomeLogBuff DEF HandlerInv
      <3> QED
        BY <2>1, <2>2, <3>1, <3>4 DEF HandlerInv, AllAllocated
    <2>3. CASE pc' = "oops"
      BY <2>1, <2>3 DEF HandlerInv, AllAllocated
    <2> QED
      BY <1>2, <2>2, <2>3 DEF AllocBuffers
  <1>3. CASE AllocLog
    <2>1. UNCHANGED <<load, handler>> /\ handler # "ours"
      BY <1>3 DEF AllocLog, HandlerInv
    <2>2. PICK k \in 0 .. NUM_LOG_BUFF - 1 :
            /\ LogsOf = LogPages(k) /\ Buffers \subseteq mem
            /\ \/ /\ mem' = mem \cup LogPages(k + 1)
                  /\ pc' = IF k + 1 = NUM_LOG_BUFF THEN "proc" ELSE "pages"
               \/ pc' = "absent"
      BY <1>3, AllocLogStep
    <2>3. CASE pc' = "absent"
      BY <2>1, <2>3 DEF HandlerInv, AllAllocated
    <2>4. CASE pc' # "absent"
      <3>1. mem' = mem \cup LogPages(k + 1) /\ Buffers' = Buffers
        BY <2>1, <2>2, <2>4 DEF Buffers
      <3>2. \A n : LogPages(n)' = LogPages(n)
        BY <2>1 DEF LogPages
      <3>3. CASE k + 1 = NUM_LOG_BUFF
        BY <2>1, <2>2, <2>4, <3>1, <3>2, <3>3 DEF HandlerInv, AllAllocated
      <3>4. CASE k + 1 # NUM_LOG_BUFF
        <4>1. k + 1 \in 0 .. NUM_LOG_BUFF - 1
          BY <3>4, SomeLogBuff
        <4>2. LogPages(k) \subseteq LogPages(k + 1)
          BY SomeLogBuff DEF LogPages
        <4>3. \A m \in LogPages(k + 1) : m[1] = "log_buffs" /\ m[3] = load
          BY DEF LogPages
        <4>4. LogsOf' = LogPages(k + 1)'
          BY <2>1, <2>2, <3>1, <3>2, <4>2, <4>3 DEF LogsOf
        <4>5. pc' = "pages" /\ Buffers' \subseteq mem'
          BY <2>2, <2>4, <3>1, <3>4
        <4> QED
          BY <2>1, <4>1, <4>4, <4>5 DEF HandlerInv, AllAllocated
      <3> QED
        BY <3>3, <3>4
    <2> QED
      BY <2>3, <2>4
  <1>4. CASE CreateProc \/ ReadLock \/ Register \/ RmMod \/ Unregister \/ ExportLog
             \/ RemoveProcEntry
    <2>1. UNCHANGED <<load, mem>>
      BY <1>4 DEF CreateProc, ReadLock, Register, RmMod, Unregister, ExportLog,
         RemoveProcEntry
    <2>2. pc \in AllAllocated /\ pc' \in AllAllocated \cup {"absent"}
      BY <1>4 DEF CreateProc, ReadLock, Register, RmMod, Unregister, ExportLog,
         RemoveProcEntry, AllAllocated
    <2>3. handler' = "ours" => pc' \in {"live", "unregisterRxHandlers", "unregister"}
      BY <1>4 DEF CreateProc, ReadLock, Register, RmMod, Unregister, ExportLog,
         RemoveProcEntry, HandlerInv
    <2>4. Buffers' = Buffers /\ LogPages(NUM_LOG_BUFF)' = LogPages(NUM_LOG_BUFF)
      BY <2>1 DEF Buffers, LogPages
    <2> QED
      BY <2>1, <2>2, <2>3, <2>4 DEF HandlerInv, AllAllocated
  <1>5. CASE Rundown
    <2>1. \A m \in Buffers \cup LogPages(NUM_LOG_BUFF) : m[1] # "mmap_info"
      BY DEF Buffers, LogPages
    <2>2. \A m \in mem : m[1] # "mmap_info" => m \in mem'
      BY <1>5 DEF Rundown, Info
    <2>3. /\ Buffers' = Buffers /\ LogPages(NUM_LOG_BUFF)' = LogPages(NUM_LOG_BUFF)
          /\ pc = "rundown" /\ pc' = "kfree" /\ handler' = handler
      BY <1>5 DEF Rundown, Buffers, LogPages
    <2> QED
      BY <2>1, <2>2, <2>3 DEF HandlerInv, AllAllocated
  <1>6. CASE FreeAll
    BY <1>6 DEF FreeAll, HandlerInv, AllAllocated
  <1>7. ASSUME NEW p \in Processes,
               \/ OpenStart(p) \/ CallEnd(p) \/ Mmap(p) \/ VmFault(p) \/ VmClose(p)
               \/ Release(p) \/ \E op \in {"read", "write"} : ReadWriteStart(p, op)
        PROVE  HandlerInv'
    <2>1. /\ UNCHANGED <<pc, load, handler>>
          /\ Buffers' = Buffers /\ LogPages(NUM_LOG_BUFF)' = LogPages(NUM_LOG_BUFF)
          /\ \A m : m[1] # "mmap_info" => (m \in mem' <=> m \in mem)
      BY <1>7, ProcessesLeaveBuffers
    <2>2. \A m \in Buffers \cup LogPages(NUM_LOG_BUFF) : m[1] # "mmap_info"
      BY DEF Buffers, LogPages
    <2>3. LogsOf' = LogsOf /\ \A n : LogPages(n)' = LogPages(n)
      BY <2>1 DEF LogsOf, LogPages
    <2> QED
      BY <2>1, <2>2, <2>3 DEF HandlerInv
  <1>8. CASE (\E uid \in 0 .. MAX_LOG_ENTRY - 1 : Receive(uid)) \/ NetdevRtnl \/ Netdev
             \/ UNCHANGED vars
    <2>1. UNCHANGED <<pc, load, mem, handler>>
      BY <1>8 DEF Receive, NetdevRtnl, Netdev, NetdevList, NetdevUnlock, vars
    <2> QED
      BY <2>1 DEF HandlerInv, Buffers, LogPages, LogsOf
  <1> QED
    BY <1>1, <1>2, <1>3, <1>4, <1>5, <1>6, <1>7, <1>8 DEF Next, ModuleThread

-----------------------------------------------------------------------------
(* The proc entry and its open files                                        *)

(* Every step preserves EntryInv.                                           *)
LEMMA EntryStep ==
  ASSUME LifecycleTypeOK, HandlerInv, EntryInv, [Next]_vars
  PROVE  EntryInv'
  <1> USE DEF LifecycleTypeOK
  <1>1. CASE InsMod
    <2>1. procEntry = 0 \/ earlyExit
      BY <1>1 DEF InsMod, EntryInv, EntryMayExist, AllAllocated
    <2> QED
      BY <1>1, <2>1 DEF InsMod, EntryInv, Info
  <1>2. CASE AllocBuffers
    <2>1. mem \subseteq mem' /\ pc # "rundown" /\ pc' # "rundown"
          /\ UNCHANGED <<load, procEntry, rundown, procs, history>>
      BY <1>2 DEF AllocBuffers
    <2>2. procEntry = 0 \/ earlyExit
      BY <1>2 DEF AllocBuffers, EntryInv, EntryMayExist, AllAllocated
    <2> QED
      BY <2>1, <2>2 DEF EntryInv, Info
  <1>3. CASE AllocLog
    <2>1. PICK k \in 0 .. NUM_LOG_BUFF - 1 :
            \/ mem \subseteq mem'
            \/ mem' = mem \ LogPages(k)
      BY <1>3, AllocLogStep
    <2>2. \A p \in Processes : Info(p) \in mem => Info(p) \in mem'
      BY <2>1 DEF Info, LogPages
    <2>3. procEntry = 0 \/ earlyExit
      BY <1>3 DEF AllocLog, EntryInv, EntryMayExist, AllAllocated
    <2>4. pc # "rundown" /\ pc' # "rundown"
          /\ UNCHANGED <<load, procEntry, rundown, procs, earlyExit>>
      BY <1>3 DEF AllocLog
    <2> QED
      BY <2>2, <2>3, <2>4 DEF EntryInv, Info
  <1>4. CASE CreateProc
    BY <1>4 DEF CreateProc, EntryInv, Info, EntryMayExist, AllAllocated
  <1>5. CASE ReadLock \/ Register \/ RmMod \/ Unregister
    <2>1. /\ UNCHANGED <<load, mem, procEntry, rundown, procs, history>>
          /\ pc # "rundown" /\ pc' # "rundown" /\ pc' \in EntryMayExist
      BY <1>5 DEF ReadLock, Register, RmMod, Unregister, EntryMayExist, AllAllocated
    <2> QED
      BY <2>1 DEF EntryInv, Info
  <1>6. CASE ExportLog
    <2>1. /\ UNCHANGED <<load, mem, procEntry, rundown, procs>>
          /\ pc # "rundown" /\ pc' # "rundown"
          /\ earlyExit' = TRUE \/ (pc' \in EntryMayExist /\ UNCHANGED earlyExit)
      BY <1>6 DEF ExportLog, EntryMayExist, AllAllocated
    <2> QED
      BY <2>1 DEF EntryInv, Info
  <1>7. CASE RemoveProcEntry
    <2>1. UNCHANGED <<load, mem, procEntry, procs, history>>
      BY <1>7 DEF RemoveProcEntry
    <2>2. (rundown' <=> pc' = "rundown") /\ (pc' = "rundown" => procEntry # 0)
      BY <1>7 DEF RemoveProcEntry
    <2>3. procEntry # 0 => pc' \in EntryMayExist
      BY <1>7 DEF RemoveProcEntry, EntryMayExist, AllAllocated
    <2> QED
      BY <2>1, <2>2, <2>3 DEF EntryInv, Info
  <1>8. CASE Rundown
    <2>1. procEntry' = 0 /\ ~rundown' /\ pc' = "kfree" /\ call' = call
      BY <1>8 DEF Rundown
    <2>2. \A p \in Processes : fd'[p] \notin {"open", "mapped"} /\ call[p] = "none"
      BY <1>8 DEF Rundown
    <2> QED
      BY <2>1, <2>2 DEF EntryInv
  <1>9. CASE FreeAll
    <2>1. \A p \in Processes : Info(p) \in mem => Info(p) \in mem'
      BY <1>9 DEF FreeAll, Info, Buffers, LogPages
    <2>2. procEntry = 0 \/ earlyExit
      BY <1>9 DEF FreeAll, EntryInv, EntryMayExist, AllAllocated
    <2> QED
      BY <1>9, <2>1, <2>2 DEF FreeAll, EntryInv, Info
  <1>10. CASE (\E uid \in 0 .. MAX_LOG_ENTRY - 1 : Receive(uid)) \/ NetdevRtnl \/ Netdev
              \/ UNCHANGED vars
    <2>1. UNCHANGED <<pc, load, mem, procEntry, rundown, procs, earlyExit>>
      BY <1>10 DEF Receive, NetdevRtnl, Netdev, NetdevList, NetdevUnlock, vars
    <2> QED
      BY <2>1 DEF EntryInv, Info
  <1>11. ASSUME NEW p \in Processes, OpenStart(p) PROVE EntryInv'
    BY <1>11 DEF OpenStart, Enter, EntryInv, Info
  <1>12. ASSUME NEW p \in Processes, OpenEnd(p) PROVE EntryInv'
    BY <1>12 DEF OpenEnd, EntryInv, Info
  <1>13. ASSUME NEW p \in Processes, NEW op \in {"read", "write"}, ReadWriteStart(p, op)
         PROVE  EntryInv'
    BY <1>13 DEF ReadWriteStart, Enter, EntryInv, Info
  <1>14. ASSUME NEW p \in Processes, ReadWriteEnd(p) PROVE EntryInv'
    BY <1>14 DEF ReadWriteEnd, EntryInv, Info
  <1>15. ASSUME NEW p \in Processes, Mmap(p) PROVE EntryInv'
    BY <1>15 DEF Mmap, EntryInv, Info
  <1>16. ASSUME NEW p \in Processes, VmFault(p) PROVE EntryInv'
    BY <1>16 DEF VmFault, EntryInv, Info
  <1>17. ASSUME NEW p \in Processes, VmClose(p) PROVE EntryInv'
    BY <1>17 DEF VmClose, EntryInv, Info
  <1>18. ASSUME NEW p \in Processes, Release(p) PROVE EntryInv'
    <2>1. \A q \in Processes : q # p => Info(q) # Info(p)
      BY DEF Info
    <2> QED
      BY <1>18, <2>1 DEF Release, EntryInv, Info
  <1> QED
    BY <1>1, <1>2, <1>3, <1>4, <1>5, <1>6, <1>7, <1>8, <1>9, <1>10, <1>11, <1>12,
       <1>13, <1>14, <1>15, <1>16, <1>17, <1>18 DEF Next, ModuleThread, CallEnd

-----------------------------------------------------------------------------
(* What memory holds                                                        *)

(* Every step preserves MemInv.                                             *)
LEMMA MemStep ==
  ASSUME LifecycleTypeOK, HandlerInv, EntryInv, MemInv, [Next]_vars
  PROVE  MemInv'
  <1> USE DEF LifecycleTypeOK
  <1>1. SUFFICES ASSUME ~earlyExit', ~initFailed'
        PROVE  \A m \in mem' :
                 \/ /\ pc' \in AllAllocated \cup {"pages", "oops"}
                    /\ m \in (Buffers \cup LogPages(NUM_LOG_BUFF))'
                 \/ \E p \in Processes : fd'[p] \in {"open", "mapped"} /\ m = Info(p)'
    BY DEF MemInv
  <1>2. ~earlyExit /\ ~initFailed
    BY <1>1 DEF Next, ModuleThread, CallEnd, Netdev, InsMod, RmMod, AllocBuffers,
       AllocLog, CreateProc, ReadLock, Register, Unregister, ExportLog, RemoveProcEntry,
       Rundown, FreeAll, Receive, OpenStart, OpenEnd, ReadWriteStart, ReadWriteEnd, Mmap,
       VmFault, VmClose, Release, NetdevRtnl, NetdevList, NetdevUnlock, vars
  <1>3. \A m \in mem :
          \/ /\ pc \in AllAllocated \cup {"pages", "oops"}
             /\ m \in Buffers \cup LogPages(NUM_LOG_BUFF)
          \/ \E p \in Processes : fd[p] \in {"open", "mapped"} /\ m = Info(p)
    BY <1>2 DEF MemInv
  <1>4. ASSUME UNCHANGED <<load, procs>>, mem' \subseteq mem,
               pc' \in AllAllocated \cup {"pages", "oops"}
        PROVE  MemInv'
    BY <1>3, <1>4 DEF MemInv, Buffers, LogPages, Info
  <1>5. CASE InsMod
    <2>1. pc = "absent" /\ UNCHANGED <<mem, procs>>
      BY <1>5 DEF InsMod
    <2> QED
      BY <1>3, <2>1 DEF Info, AllAllocated
  <1>6. CASE AllocBuffers
    <2>1. /\ pc = "kmalloc" /\ pc' \in {"pages", "oops"}
          /\ mem' \subseteq mem \cup Buffers /\ UNCHANGED <<load, procs>>
      BY <1>6 DEF AllocBuffers, Buffers
    <2>2. Buffers' = Buffers
      BY <2>1 DEF Buffers
    <2> QED
      BY <1>3, <2>1, <2>2 DEF Info, AllAllocated
  <1>7. CASE AllocLog
    <2>1. PICK k \in 0 .. NUM_LOG_BUFF - 1 :
            mem' = mem \cup LogPages(k + 1) /\ pc' \in {"proc", "pages"}
      BY <1>1, <1>7, AllocLogStep
    <2>2. pc = "pages" /\ UNCHANGED <<load, procs>>
      BY <1>7 DEF AllocLog
    <2>3. LogPages(k + 1) \subseteq LogPages(NUM_LOG_BUFF)
      BY SomeLogBuff DEF LogPages
    <2>4. Buffers' = Buffers /\ LogPages(NUM_LOG_BUFF)' = LogPages(NUM_LOG_BUFF)
      BY <2>2 DEF Buffers, LogPages
    <2> QED
      BY <1>3, <2>1, <2>2, <2>3, <2>4 DEF Info, AllAllocated
  <1>8. CASE CreateProc \/ ReadLock \/ Register \/ RmMod \/ Unregister \/ RemoveProcEntry
    <2>1. UNCHANGED <<load, procs, mem>> /\ pc' \in AllAllocated
      BY <1>8 DEF CreateProc, ReadLock, Register, RmMod, Unregister, RemoveProcEntry,
         AllAllocated
    <2> QED
      BY <1>1, <1>4, <2>1 DEF MemInv
  <1>9. CASE ExportLog
    <2>1. UNCHANGED <<load, procs, mem>> /\ pc' \in AllAllocated
      BY <1>1, <1>9 DEF ExportLog, AllAllocated
    <2> QED
      BY <1>1, <1>4, <2>1 DEF MemInv
  <1>10. CASE Rundown
    <2>1. /\ pc = "rundown" /\ pc' = "kfree" /\ UNCHANGED <<load, opened>>
          /\ mem' = mem \ {Info(p) : p \in {q \in Processes : fd[q] \in {"open", "mapped"}}}
      BY <1>10 DEF Rundown
    <2>2. Buffers' = Buffers /\ LogPages(NUM_LOG_BUFF)' = LogPages(NUM_LOG_BUFF)
      BY <2>1 DEF Buffers, LogPages
    <2> QED
      BY <1>3, <2>1, <2>2 DEF AllAllocated
  <1>11. CASE FreeAll
    BY <1>3, <1>11 DEF FreeAll, Info
  <1>12. ASSUME NEW q \in Processes, OpenEnd(q) PROVE MemInv'
    <2>1. /\ UNCHANGED <<pc, load>> /\ call[q] = "open"
          /\ \/ /\ fd' = [fd EXCEPT ![q] = "open"]
                /\ opened' = [opened EXCEPT ![q] = procEntry]
                /\ mem' = mem \cup {<<"mmap_info", q, procEntry>>}
             \/ UNCHANGED <<fd, opened, mem>>
      BY <1>12 DEF OpenEnd
    <2>2. Buffers' = Buffers /\ LogPages(NUM_LOG_BUFF)' = LogPages(NUM_LOG_BUFF)
      BY <2>1 DEF Buffers, LogPages
    <2>3. CASE UNCHANGED <<fd, opened, mem>>
      BY <1>3, <2>1, <2>2, <2>3 DEF MemInv, Info
    <2>4. CASE /\ fd' = [fd EXCEPT ![q] = "open"]
               /\ opened' = [opened EXCEPT ![q] = procEntry]
               /\ mem' = mem \cup {<<"mmap_info", q, procEntry>>}
      <3>1. fd[q] \in {"open", "mapped"} => opened[q] = procEntry
        BY DEF EntryInv
      <3>2. \A p \in Processes : fd[p] \in {"open", "mapped"} =>
              fd'[p] \in {"open", "mapped"} /\ Info(p)' = Info(p)
        BY <2>4, <3>1 DEF Info
      <3>3. fd'[q] \in {"open", "mapped"} /\ Info(q)' = <<"mmap_info", q, procEntry>>
        BY <2>4 DEF Info
      <3> QED
        BY <1>3, <2>1, <2>2, <2>4, <3>2, <3>3 DEF MemInv
    <2> QED
      BY <2>1, <2>3, <2>4
  <1>13. ASSUME NEW q \in Processes, Release(q) PROVE MemInv'
    <2>1. /\ UNCHANGED <<pc, load, opened>> /\ fd' = [fd EXCEPT ![q] = "none"]
          /\ \/ fd[q] = "open" /\ mem' = mem \ {Info(q)}
             \/ fd[q] = "stale" /\ mem' = mem
      BY <1>13 DEF Release
    <2>2. Buffers' = Buffers /\ LogPages(NUM_LOG_BUFF)' = LogPages(NUM_LOG_BUFF)
      BY <2>1 DEF Buffers, LogPages
    <2>3. \A p \in Processes : Info(p)' = Info(p) /\ (p # q => fd'[p] = fd[p])
      BY <2>1 DEF Info
    <2> QED
      BY <1>3, <2>1, <2>2, <2>3 DEF MemInv
  <1>14. ASSUME NEW q \in Processes,
                \/ OpenStart(q) \/ ReadWriteEnd(q) \/ VmFault(q)
                \/ \E op \in {"read", "write"} : ReadWriteStart(q, op)
         PROVE  MemInv'
    <2>1. UNCHANGED <<pc, load, mem, fd, opened>>
      BY <1>14 DEF OpenStart, ReadWriteEnd, VmFault, ReadWriteStart
    <2> QED
      BY <1>3, <2>1 DEF MemInv, Buffers, LogPages, Info
  <1>15. ASSUME NEW q \in Processes, Mmap(q) \/ VmClose(q) PROVE MemInv'
    <2>1. /\ UNCHANGED <<pc, load, mem, opened>>
          /\ \A p \in Processes : fd[p] \in {"open", "mapped"} => fd'[p] \in {"open", "mapped"}
      BY <1>15 DEF Mmap, VmClose
    <2> QED
      BY <1>3, <2>1 DEF MemInv, Buffers, LogPages, Info
  <1>16. CASE (\E uid \in 0 .. MAX_LOG_ENTRY - 1 : Receive(uid)) \/ NetdevRtnl \/ Netdev
              \/ UNCHANGED vars
    <2>1. UNCHANGED <<pc, load, mem, procs>>
      BY <1>16 DEF Receive, NetdevRtnl, Netdev, NetdevList, NetdevUnlock, vars
    <2> QED
      BY <1>3, <2>1 DEF Buffers, LogPages, Info
  <1> QED
    BY <1>1, <1>5, <1>6, <1>7, <1>8, <1>9, <1>10, <1>11, <1>12, <1>13, <1>14, <1>15,
       <1>16 DEF Next, ModuleThread, CallEnd, MemInv

-----------------------------------------------------------------------------
(* Nobody uses what is gone                                                 *)

(* Every step preserves NoUseAfterFree.                                     *)
LEMMA MisuseStep ==
  ASSUME LifecycleTypeOK, HandlerInv, EntryInv, NoUseAfterFree, [Next]_vars
  PROVE  NoUseAfterFree'
  <1> USE DEF LifecycleTypeOK
  <1>1. procEntry # 0 /\ ~earlyExit => TextPresent(procEntry)
    BY DEF EntryInv, EntryMayExist, AllAllocated, TextPresent
  <1>2. CASE \E uid \in 0 .. MAX_LOG_ENTRY - 1 : Receive(uid)
    <2>1. PICK uid \in 0 .. MAX_LOG_ENTRY - 1 : Receive(uid)
      BY <1>2
    <2>2. TextPresent(load) /\ LogPages(NUM_LOG_BUFF) \cup Buffers \subseteq mem
      BY <2>1 DEF Receive, HandlerInv, TextPresent, AllAllocated
    <2> QED
      BY <2>1, <2>2 DEF Receive, NoUseAfterFree
  <1>3. ASSUME NEW p \in Processes,
               \/ OpenStart(p) \/ Mmap(p)
               \/ \E op \in {"read", "write"} : ReadWriteStart(p, op)
        PROVE  NoUseAfterFree'
    <2>1. procEntry # 0 /\ earlyExit' = earlyExit
          /\ misuse' = IF TextPresent(procEntry) THEN misuse ELSE misuse \cup {"call"}
      BY <1>3 DEF OpenStart, Mmap, ReadWriteStart, Enter
    <2> QED
      BY <1>1, <2>1 DEF NoUseAfterFree
  <1>4. ASSUME NEW p \in Processes, ReadWriteEnd(p) PROVE NoUseAfterFree'
    <2>1. procEntry # 0 /\ Info(p) \in mem
      BY <1>4 DEF ReadWriteEnd, EntryInv
    <2>2. ~earlyExit => Buffers \subseteq mem
      BY <2>1 DEF EntryInv, EntryMayExist, HandlerInv
    <2>3. earlyExit' = earlyExit /\ (misuse' = misuse \/ misuse' = misuse \cup {"buffer"})
      BY <1>4 DEF ReadWriteEnd
    <2>4. ~earlyExit => misuse' = misuse
      BY <1>4, <2>1, <2>2 DEF ReadWriteEnd
    <2> QED
      BY <2>3, <2>4 DEF NoUseAfterFree
  <1>5. ASSUME NEW p \in Processes, VmFault(p) \/ VmClose(p) PROVE NoUseAfterFree'
    <2>1. earlyExit' = earlyExit /\ (misuse' = misuse \/ misuse' = misuse \cup {"mapping"})
      BY <1>5 DEF VmFault, VmClose
    <2> QED
      BY <2>1 DEF NoUseAfterFree
  <1>6. ASSUME NEW p \in Processes, Release(p) PROVE NoUseAfterFree'
    <2>1. fd[p] = "open" => procEntry # 0 /\ opened[p] = procEntry
      BY DEF EntryInv
    <2>2. earlyExit' = earlyExit /\ (misuse' = misuse \/ misuse' = misuse \cup {"call"})
      BY <1>6 DEF Release
    <2>3. ~earlyExit => misuse' = misuse
      BY <1>1, <1>6, <2>1 DEF Release
    <2> QED
      BY <2>2, <2>3 DEF NoUseAfterFree
  <1>7. CASE Rundown
    <2>1. ~earlyExit => procEntry = load
      BY <1>7 DEF Rundown, EntryInv
    <2>2. earlyExit' = earlyExit /\ (misuse' = misuse \/ misuse' = misuse \cup {"call"})
      BY <1>7 DEF Rundown
    <2>3. ~earlyExit => misuse' = misuse
      BY <1>7, <2>1 DEF Rundown
    <2> QED
      BY <2>2, <2>3 DEF NoUseAfterFree
  <1>8. ASSUME NEW p \in Processes, OpenEnd(p) PROVE NoUseAfterFree'
    BY <1>8 DEF OpenEnd, NoUseAfterFree
  <1>9. CASE \/ InsMod \/ RmMod \/ AllocBuffers \/ AllocLog \/ CreateProc \/ ReadLock
             \/ Register \/ Unregister \/ ExportLog \/ RemoveProcEntry \/ FreeAll
             \/ NetdevRtnl \/ Netdev \/ UNCHANGED vars
    <2>1. misuse' = misuse /\ (earlyExit => earlyExit')
      BY <1>9 DEF InsMod, RmMod, AllocBuffers, AllocLog, CreateProc, ReadLock, Register,
         Unregister, ExportLog, RemoveProcEntry, FreeAll, NetdevRtnl, Netdev, NetdevList,
         NetdevUnlock, vars
    <2> QED
      BY <2>1 DEF NoUseAfterFree
  <1> QED
    BY <1>2, <1>3, <1>4, <1>5, <1>6, <1>7, <1>8, <1>9 DEF Next, ModuleThread, CallEnd

-----------------------------------------------------------------------------
(* The theorems                                                             *)

(* A machine on which the module was never loaded.                          *)
LEMMA LifecycleInit == Init => LifecycleInv
  <1> SUFFICES ASSUME Init PROVE LifecycleInv
    OBVIOUS
  <1> USE DEF Init
  <1>1. log \in [Cells -> BOOLEAN]
    BY DEF EmptyLog
  <1>2. rundown \in BOOLEAN /\ earlyExit \in BOOLEAN /\ initFailed \in BOOLEAN
    BY Zenon
  <1>3. LifecycleTypeOK
    BY <1>1, <1>2 DEF LifecycleTypeOK, Pcs
  <1>4. HandlerInv
    BY DEF HandlerInv, AllAllocated
  <1>5. EntryInv /\ MemInv /\ NoUseAfterFree
    BY DEF EntryInv, MemInv, NoUseAfterFree
  <1> QED
    BY <1>3, <1>4, <1>5 DEF LifecycleInv

(* The inductive invariant of loading and unloading: the receive handler is *)
(* registered only while its buffers are allocated, an open file and a call *)
(* under way keep their proc entry, and, unless an error path of myinit or  *)
(* myexit was taken, memory holds exactly what the current load and the     *)
(* open files account for.                                                  *)
THEOREM LifecycleInvariant == Spec => []LifecycleInv
  <1>1. LifecycleInv /\ [Next]_vars => LifecycleInv'
    BY LifecycleTypeStep, HandlerStep, EntryStep, MemStep, MisuseStep DEF LifecycleInv
  <1> QED
    BY <1>1, LifecycleInit, PTL DEF Spec

(* myexit takes things down in an order in which nobody uses what is gone,  *)
(* for any number of processes, loads, log buffers and registrations of     *)
(* other devices: what is left is a mapping that outlives the module, and   *)
(* what an earlier myexit left behind at the error path of filp_open.       *)
THEOREM UnloadIsSafe == Spec => []NoUseAfterFree
  <1>1. LifecycleInv => NoUseAfterFree
    BY DEF LifecycleInv
  <1> QED
    BY <1>1, LifecycleInvariant, PTL

(* A module that is gone has left nothing behind, unless __get_free_pages   *)
(* failed in myinit or the log file could not be opened in myexit.          *)
THEOREM UnloadIsClean == Spec => []CleanUnload
  <1>1. ASSUME LifecycleInv PROVE CleanUnload
    <2> USE <1>1 DEF LifecycleInv
    <2>1. pc = "absent" => handler # "ours"
      BY DEF HandlerInv
    <2>2. pc = "absent" /\ ~earlyExit => procEntry = 0
      BY DEF EntryInv, EntryMayExist, AllAllocated
    <2>3. pc = "absent" /\ ~earlyExit /\ ~initFailed => mem = {}
      BY <2>2 DEF MemInv, EntryInv, AllAllocated
    <2> QED
      BY <2>1, <2>2, <2>3 DEF CleanUnload
  <1> QED
    BY <1>1, LifecycleInvariant, PTL

-----------------------------------------------------------------------------
(* The log file                                                             *)

(* A set of numbers has a smallest one.                                     *)
LEMMA SmallestNumber ==
  ASSUME NEW S \in SUBSET Nat, S # {}
  PROVE  \E p \in S : \A q \in S : p <= q
  <1>1. PICK p \in S : \A q \in S : ~(<<q, p>> \in OpToRel(<, Nat))
    BY NatLessThanWellFounded, WFMin
  <1>2. ASSUME NEW q \in S PROVE p <= q
    <2>1. <<q, p>> \in Nat \X Nat /\ q \in Nat /\ p \in Nat
      OBVIOUS
    <2>2. ~(q < p)
      BY <1>1, <2>1 DEF OpToRel
    <2> QED
      BY <2>1, <2>2
  <1> QED
    BY <1>2

(* t is the text of the first m entries of the log l, as the loop makes it.  *)
TextTo(t, l, m) ==
  t = [n \in 0 .. m |-> IF n = 0 THEN <<>> ELSE t[n - 1] \o Line(l[Cell(n - 1)])]
(* The text of the export of log l.                                         *)
TextOf(l) == CHOOSE t : t = [n \in 0 .. MAX_LOG_ENTRY |-> IF n = 0 THEN <<>> ELSE t[n - 1] \o Line(l[Cell(n - 1)])]

(* The recursion of Text has a solution.                                    *)
LEMMA TextExists ==
  ASSUME NEW l
  PROVE  TextTo(TextOf(l), l, MAX_LOG_ENTRY)
  <1> DEFINE Bad == {m \in 0 .. MAX_LOG_ENTRY : ~ \E t : TextTo(t, l, m)}
  <1>0. MAX_LOG_ENTRY \in Nat
    BY LogAssumption
  <1>1. ASSUME Bad # {} PROVE FALSE
    <2>1. PICK m \in Bad : \A q \in Bad : m <= q
      <3>1. Bad \in SUBSET Nat
        BY <1>0
      <3> HIDE DEF Bad
      <3> QED
        BY <1>1, <3>1, SmallestNumber
    <2>2. m \in Nat /\ m \in 0 .. MAX_LOG_ENTRY
      BY <1>0
    <2>3. CASE m = 0
      <3> DEFINE t == [n \in 0 .. 0 |-> <<>>]
      <3>1. TextTo(t, l, 0)
        <4>1. \A n \in 0 .. 0 : n = 0
          OBVIOUS
        <4> QED
          BY <4>1 DEF TextTo
      <3> QED
        BY <2>3, <3>1
    <2>4. CASE m > 0
      <3>1. m - 1 \in 0 .. MAX_LOG_ENTRY /\ ~(m <= m - 1)
        BY <1>0, <2>2, <2>4
      <3>2. PICK t : TextTo(t, l, m - 1)
        BY <2>1, <3>1
      <3> DEFINE step == t[m - 1] \o Line(l[Cell(m - 1)])
                 u == [n \in 0 .. m |-> IF n = m THEN step ELSE t[n]]
      <3> HIDE DEF step
      <3>3. ASSUME NEW n \in 0 .. m PROVE u[n] = IF n = 0 THEN <<>> ELSE u[n - 1] \o Line(l[Cell(n - 1)])
        <4>1. CASE n = m
          <5>1. n # 0 /\ n - 1 \in 0 .. m /\ n - 1 # m
            BY <2>2, <2>4, <4>1
          <5>2. u[n] = step /\ u[n - 1] = t[n - 1]
            BY <4>1, <5>1
          <5> HIDE DEF u
          <5> QED
            BY <4>1, <5>1, <5>2 DEF step
        <4>2. CASE n # m
          <5>1. n \in 0 .. m - 1
            BY <2>2, <4>2
          <5>2. t[n] = IF n = 0 THEN <<>> ELSE t[n - 1] \o Line(l[Cell(n - 1)])
            BY <3>2, <5>1 DEF TextTo
          <5>3. u[n] = t[n] /\ (n # 0 => u[n - 1] = t[n - 1])
            <6>1. n # 0 => n - 1 \in 0 .. m /\ n - 1 # m
              BY <2>2, <5>1
            <6> QED
              BY <4>2, <5>1, <6>1
          <5> HIDE DEF u
          <5> QED
            BY <5>2, <5>3
        <4> QED
          BY <4>1, <4>2
      <3>4. u = [n \in 0 .. m |-> u[n]]
        OBVIOUS
      <3> HIDE DEF u
      <3>5. TextTo(u, l, m)
        BY <3>3, <3>4 DEF TextTo
      <3> QED
        BY <3>5
    <2> QED
      BY <2>2, <2>3, <2>4
  <1>2. \E t : TextTo(t, l, MAX_LOG_ENTRY)
    BY <1>0, <1>1
  <1> QED
    BY <1>2 DEF TextTo, TextOf

(* The characters of the export.                                            *)
Chars == {"0", "1", "9", "\n"}
(* A text of n lines, the last of which is complete.                        *)
Newlines(s) == {i \in DOMAIN s : s[i] = "\n"}
(* A text that ends with a whole line; and one of n lines.                  *)
Ended(s) == s # <<>> => s[Len(s)] = "\n"
TextOfLines(s, n) == s \in Seq(Chars) /\ Lines(s) = n /\ Ended(s) /\ (n > 0 => s # <<>>)

(* The newlines of a text can be counted.                                   *)
LEMMA NewlinesFinite ==
  ASSUME NEW s \in Seq(Chars)
  PROVE  IsFiniteSet(Newlines(s)) /\ Lines(s) = Cardinality(Newlines(s)) /\ Newlines(s) \subseteq 1 .. Len(s) /\ Lines(s) \in Nat
  <1>1. DOMAIN s = 1 .. Len(s) /\ Len(s) \in Nat
    OBVIOUS
  <1>2. IsFiniteSet(1 .. Len(s))
    BY <1>1, FS_Interval
  <1>3. Newlines(s) \in SUBSET (1 .. Len(s))
    BY <1>1 DEF Newlines
  <1>4. IsFiniteSet(Newlines(s))
    BY <1>2, <1>3, FS_Subset
  <1> QED
    BY <1>3, <1>4, FS_CardinalityType DEF Lines, Newlines

(* One more entry is one more line.                                         *)
LEMMA OneLineMore ==
  ASSUME NEW s, NEW n \in Nat, TextOfLines(s, n), NEW stamped
  PROVE  TextOfLines(s \o Line(stamped), n + 1)
  <1> DEFINE u == Line(stamped)
             t == s \o u
  <1>0. s \in Seq(Chars) /\ Lines(s) = n /\ Len(s) \in Nat /\ DOMAIN s = 1 .. Len(s)
    BY DEF TextOfLines
  <1>1. u \in Seq(Chars) /\ Len(u) \in {2, 3} /\ \A i \in 1 .. Len(u) : (u[i] = "\n") <=> (i = Len(u))
    <2>1. CASE stamped
      <3>1. u = <<"1", "9", "\n">>
        BY <2>1 DEF Line
      <3>2. Len(u) = 3 /\ u[1] = "1" /\ u[2] = "9" /\ u[3] = "\n" /\ u \in Seq(Chars)
        BY <3>1 DEF Chars
      <3> HIDE DEF u
      <3> QED
        BY <3>2
    <2>2. CASE ~stamped
      <3>1. u = <<"0", "\n">>
        BY <2>2 DEF Line
      <3>2. Len(u) = 2 /\ u[1] = "0" /\ u[2] = "\n" /\ u \in Seq(Chars)
        BY <3>1 DEF Chars
      <3> HIDE DEF u
      <3> QED
        BY <3>2
    <2> QED
      BY <2>1, <2>2
  <1> HIDE DEF u
  <1>2. /\ t \in Seq(Chars) /\ Len(t) = Len(s) + Len(u) /\ DOMAIN t = 1 .. Len(t)
        /\ \A i \in 1 .. Len(s) + Len(u) : t[i] = IF i <= Len(s) THEN s[i] ELSE u[i - Len(s)]
    BY <1>0, <1>1, ConcatProperties, LenProperties
  <1> HIDE DEF t
  <1> DEFINE last == Len(s) + Len(u)
  <1>3. last \in Nat /\ last > Len(s) /\ last - Len(s) = Len(u) /\ Len(u) \in 1 .. Len(u)
    BY <1>0, <1>1
  <1>4. t[last] = "\n"
    <2>1. last \in 1 .. Len(s) + Len(u) /\ ~(last <= Len(s))
      BY <1>0, <1>3
    <2>2. t[last] = u[last - Len(s)]
      BY <1>2, <2>1
    <2> HIDE DEF last
    <2> QED
      BY <1>1, <1>3, <2>2
  <1>5. ASSUME NEW i \in 1 .. last PROVE i \in Newlines(t) <=> i \in Newlines(s) \/ i = last
    <2>1. CASE i <= Len(s)
      BY <1>0, <1>2, <1>3, <2>1 DEF Newlines
    <2>2. CASE i > Len(s)
      <3>1. i - Len(s) \in 1 .. Len(u) /\ (i - Len(s) = Len(u) <=> i = last) /\ i \notin DOMAIN s /\ ~(i <= Len(s))
        BY <1>0, <1>1, <2>2
      <3>2. t[i] = u[i - Len(s)]
        BY <1>2, <3>1
      <3> QED
        BY <1>1, <1>2, <3>1, <3>2 DEF Newlines
    <2> QED
      BY <1>0, <2>1, <2>2
  <1>6. Newlines(t) = Newlines(s) \cup {last}
    <2>1. 1 .. Len(s) \subseteq 1 .. last /\ last \in 1 .. last /\ Len(t) = last
      BY <1>0, <1>2, <1>3
    <2>2. Newlines(t) \subseteq 1 .. last /\ Newlines(s) \subseteq 1 .. last
      BY <1>0, <1>2, <2>1 DEF Newlines
    <2> HIDE DEF last
    <2> QED
      BY <1>5, <2>1, <2>2
  <1>7. last \notin Newlines(s)
    BY <1>0, <1>3 DEF Newlines
  <1>8. Lines(t) = n + 1
    BY <1>0, <1>2, <1>6, <1>7, NewlinesFinite, FS_AddElement
  <1>9. t # <<>>
    BY <1>2, <1>3
  <1> QED
    BY <1>2, <1>4, <1>8, <1>9 DEF TextOfLines, Ended, t, u

(* The export has a line for each entry.                                    *)
LEMMA TextLines ==
  ASSUME NEW l
  PROVE  TextOfLines(TextOf(l)[MAX_LOG_ENTRY], MAX_LOG_ENTRY)
  <1> DEFINE t == TextOf(l)
             Bad == {m \in 0 .. MAX_LOG_ENTRY : ~TextOfLines(t[m], m)}
  <1>0. MAX_LOG_ENTRY \in Nat
    BY LogAssumption
  <1>1. \A n \in 0 .. MAX_LOG_ENTRY : t[n] = IF n = 0 THEN <<>> ELSE t[n - 1] \o Line(l[Cell(n - 1)])
    BY TextExists DEF TextTo
  <1> HIDE DEF t
  <1>2. ASSUME Bad # {} PROVE FALSE
    <2>1. PICK m \in Bad : \A q \in Bad : m <= q
      <3>1. Bad \in SUBSET Nat
        BY <1>0
      <3> HIDE DEF Bad
      <3> QED
        BY <1>2, <3>1, SmallestNumber
    <2>2. m \in Nat /\ m \in 0 .. MAX_LOG_ENTRY
      BY <1>0
    <2>3. CASE m = 0
      <3>1. t[0] = <<>>
        BY <1>1, <2>2, <2>3
      <3>2. <<>> \in Seq(Chars) /\ Len(<<>>) = 0
        OBVIOUS
      <3>3. Lines(<<>>) = 0
        <4>1. {i \in DOMAIN <<>> : <<>>[i] = "\n"} = {}
          OBVIOUS
        <4> QED
          BY <4>1, FS_EmptySet DEF Lines
      <3>4. TextOfLines(<<>>, 0)
        BY <3>2, <3>3 DEF TextOfLines, Ended
      <3> QED
        BY <2>3, <3>1, <3>4
    <2>4. CASE m > 0
      <3> DEFINE k == m - 1
      <3>1. k \in 0 .. MAX_LOG_ENTRY /\ ~(m <= k) /\ k + 1 = m /\ k \in Nat
        BY <1>0, <2>2, <2>4
      <3>2. TextOfLines(t[k], k)
        BY <2>1, <3>1
      <3>3. t[m] = t[k] \o Line(l[Cell(k)])
        <4>1. m # 0
          BY <2>4
        <4> QED
          BY <1>1, <2>2, <4>1
      <3> HIDE DEF k
      <3> QED
        BY <3>1, <3>2, <3>3, OneLineMore
    <2> QED
      BY <2>2, <2>3, <2>4
  <1> QED
    BY <1>0, <1>2 DEF t

(* Export is the text of the log.                                           *)
LEMMA ExportIs == Export = TextOf(log)[MAX_LOG_ENTRY]
  BY DEF Export, Text, TextOf

(* What the export leaves in the file.                                      *)
LEMMA Overwritten ==
  ASSUME NEW s, NEW n \in Nat \ {0}, TextOfLines(s, n), NEW old \in Seq(Chars), Ended(old)
  PROVE  LET new == s \o SubSeq(old, Len(s) + 1, Len(old))
         IN  /\ new \in Seq(Chars) /\ Ended(new) /\ Len(new) >= Len(s) /\ SubSeq(new, 1, Len(s)) = s
             /\ Lines(new) = n => new = s
  <1> DEFINE rest == SubSeq(old, Len(s) + 1, Len(old))
             new == s \o rest
  <1>0. /\ s \in Seq(Chars) /\ Lines(s) = n /\ Len(s) \in Nat \ {0} /\ s[Len(s)] = "\n" /\ DOMAIN s = 1 .. Len(s)
        /\ Len(old) \in Nat /\ DOMAIN old = 1 .. Len(old)
    <2>1. s \in Seq(Chars) /\ Lines(s) = n /\ s # <<>> /\ s[Len(s)] = "\n"
      BY DEF TextOfLines, Ended
    <2> QED
      BY <2>1
  <1>1. /\ rest \in Seq(Chars) /\ Len(rest) = IF Len(s) + 1 <= Len(old) THEN Len(old) - (Len(s) + 1) + 1 ELSE 0
        /\ \A i \in 1 .. Len(old) - (Len(s) + 1) + 1 : rest[i] = old[Len(s) + 1 + i - 1]
    <2>1. \A i \in Len(s) + 1 .. Len(old) : old[i] \in Chars
      BY <1>0, ElementOfSeq
    <2>2. Len(s) + 1 \in Int /\ Len(old) \in Int
      BY <1>0
    <2> QED
      BY <2>1, <2>2, SubSeqProperties
  <1> HIDE DEF rest
  <1>2. /\ new \in Seq(Chars) /\ Len(new) = Len(s) + Len(rest) /\ DOMAIN new = 1 .. Len(new)
        /\ \A i \in 1 .. Len(s) + Len(rest) : new[i] = IF i <= Len(s) THEN s[i] ELSE rest[i - Len(s)]
    BY <1>0, <1>1, ConcatProperties, LenProperties
  <1>3. Len(rest) \in Nat /\ Len(new) \in Nat /\ Len(new) >= Len(s)
    <2>1. Len(rest) \in Nat
      BY <1>1, LenProperties
    <2> HIDE DEF new
    <2> QED
      BY <1>0, <1>2, <2>1
  <1>4. rest # <<>> => Len(rest) > 0 /\ rest[Len(rest)] = "\n"
    <2> SUFFICES ASSUME rest # <<>> PROVE Len(rest) > 0 /\ rest[Len(rest)] = "\n"
      OBVIOUS
    <2>1. Len(rest) > 0
      BY <1>1, <1>3
    <2>2. Len(s) + 1 <= Len(old) /\ Len(rest) = Len(old) - (Len(s) + 1) + 1
      BY <1>1, <2>1
    <2>3. /\ Len(rest) \in 1 .. Len(old) - (Len(s) + 1) + 1 /\ Len(s) + 1 + Len(rest) - 1 = Len(old) /\ old # <<>>
      BY <1>0, <1>3, <2>1, <2>2
    <2>4. rest[Len(rest)] = old[Len(old)]
      BY <1>1, <2>3
    <2> QED
      BY <2>1, <2>3, <2>4 DEF Ended
  <1>5. SubSeq(new, 1, Len(s)) = s
    <2> DEFINE c == SubSeq(new, 1, Len(s))
    <2>1. \A i \in 1 .. Len(s) : new[i] \in Chars /\ new[i] = s[i]
      BY <1>0, <1>2, <1>3, ElementOfSeq
    <2>2. c \in Seq(Chars) /\ Len(c) = Len(s) /\ \A i \in 1 .. Len(s) : c[i] = s[i]
      <3>1. /\ c \in Seq(Chars) /\ Len(c) = IF 1 <= Len(s) THEN Len(s) - 1 + 1 ELSE 0
            /\ \A i \in 1 .. Len(s) - 1 + 1 : c[i] = new[1 + i - 1]
        BY <1>0, <2>1, SubSeqProperties
      <3> HIDE DEF c
      <3>2. 1 <= Len(s) /\ Len(s) - 1 + 1 = Len(s) /\ \A i \in 1 .. Len(s) : 1 + i - 1 = i
        BY <1>0
      <3> HIDE DEF new
      <3> QED
        BY <2>1, <3>1, <3>2
    <2> HIDE DEF c
    <2>3. c = s
      BY <1>0, <2>2
    <2> QED
      BY <2>3 DEF c
  <1>6. Ended(new) /\ (rest # <<>> => Len(new) > Len(s) /\ new[Len(new)] = "\n")
    <2> HIDE DEF new
    <2>1. CASE rest = <<>>
      <3>1. Len(rest) = 0 /\ Len(new) = Len(s) /\ Len(s) \in 1 .. Len(s) + Len(rest) /\ Len(s) <= Len(s)
        BY <1>0, <1>2, <2>1
      <3>2. new[Len(s)] = s[Len(s)]
        BY <1>2, <3>1
      <3> QED
        BY <1>0, <2>1, <3>1, <3>2 DEF Ended
    <2>2. CASE rest # <<>>
      <3>1. Len(new) \in 1 .. Len(s) + Len(rest) /\ ~(Len(new) <= Len(s)) /\ Len(new) - Len(s) = Len(rest)
        BY <1>0, <1>2, <1>3, <1>4, <2>2
      <3>2. new[Len(new)] = rest[Len(rest)]
        BY <1>2, <3>1
      <3> QED
        BY <1>0, <1>3, <1>4, <2>2, <3>1, <3>2 DEF Ended
    <2> QED
      BY <2>1, <2>2
  <1>7. ASSUME Lines(new) = n PROVE new = s
    <2>1. CASE rest = <<>>
      BY <1>0, <2>1, ConcatEmptySeq
    <2>2. CASE rest # <<>>
      <3> HIDE DEF new
      <3>1. Newlines(s) \cup {Len(new)} \subseteq Newlines(new)
        <4>1. Len(new) \in Newlines(new)
          BY <1>0, <1>2, <1>3, <1>6, <2>2 DEF Newlines
        <4>2. ASSUME NEW i \in Newlines(s) PROVE i \in Newlines(new)
          <5>1. i \in 1 .. Len(s) /\ s[i] = "\n"
            BY <1>0 DEF Newlines
          <5>2. i \in 1 .. Len(s) + Len(rest) /\ i <= Len(s)
            BY <1>0, <1>3, <5>1
          <5> QED
            BY <1>2, <5>1, <5>2 DEF Newlines
        <4> QED
          BY <4>1, <4>2
      <3>2. Len(new) \notin Newlines(s)
        BY <1>0, <1>3, <1>6, <2>2 DEF Newlines
      <3>3. Cardinality(Newlines(s) \cup {Len(new)}) = n + 1
        <4>1. IsFiniteSet(Newlines(s)) /\ Cardinality(Newlines(s)) = n
          BY <1>0, NewlinesFinite
        <4> QED
          BY <3>2, <4>1, FS_AddElement
      <3>4. IsFiniteSet(Newlines(new)) /\ Cardinality(Newlines(new)) = n
        BY <1>2, <1>7, NewlinesFinite
      <3>5. n + 1 <= n
        BY <3>1, <3>3, <3>4, FS_Subset
      <3> QED
        BY <3>5
    <2> QED
      BY <2>1, <2>2
  <1> QED
    BY <1>2, <1>3, <1>5, <1>6, <1>7 DEF rest

(* The file is empty or ends with a whole line.                             *)
FileInv == file \in Seq(Chars) /\ Ended(file)
(* The inductive invariant of the log file.                                 *)
ExportInv == FileInv /\ ExportFaithful

(* Every step keeps it: the file is written in one place, and afterwards    *)
(* the handler is off and the log does not change.                          *)
LEMMA ExportStep == LifecycleInv /\ ExportInv /\ [Next]_vars => ExportInv'
  <1> SUFFICES ASSUME LifecycleInv, ExportInv, [Next]_vars PROVE ExportInv'
    OBVIOUS
  <1>0. MAX_LOG_ENTRY \in Nat \ {0}
    BY LogAssumption
  <1>1. CASE ExportLog
    <2> DEFINE e == TextOf(log)[MAX_LOG_ENTRY]
    <2>1. log' = log /\ Export = e
      BY <1>1, ExportIs DEF ExportLog
    <2>2. Export' = e
      <3>1. Export' = TextOf(log')[MAX_LOG_ENTRY]
        BY DEF Export, Text, TextOf
      <3> QED
        BY <2>1, <3>1
    <2>3. TextOfLines(e, MAX_LOG_ENTRY)
      BY TextLines
    <2>4. CASE pc' = "absent" /\ file' = file
      BY <2>4 DEF ExportInv, FileInv, ExportFaithful
    <2>5. CASE file' = e \o SubSeq(file, Len(e) + 1, Len(file))
      <3> HIDE DEF e
      <3>1. /\ file' \in Seq(Chars) /\ Ended(file') /\ Len(file') >= Len(e) /\ SubSeq(file', 1, Len(e)) = e
            /\ Lines(file') = MAX_LOG_ENTRY => file' = e
        BY <1>0, <2>3, <2>5, Overwritten DEF ExportInv, FileInv
      <3>2. FileInv'
        BY <3>1 DEF FileInv, Ended
      <3>3. ExportFaithful'
        BY <2>2, <3>1 DEF ExportFaithful, Lines
      <3> QED
        BY <3>2, <3>3 DEF ExportInv
    <2> QED
      BY <1>1, <2>1, <2>4, <2>5 DEF ExportLog
  <1>2. CASE ~ExportLog
    <2> DEFINE After == {"remove_proc_entry", "rundown", "kfree"}
    <2> DEFINE Kept == file' = file /\ (pc' \in After => pc \in After /\ log' = log)
    <2>1. Kept
      <3>1. CASE InsMod
        BY <3>1 DEF InsMod
      <3>2. CASE RmMod
        BY <3>2 DEF RmMod
      <3>3. CASE AllocBuffers
        BY <3>3 DEF AllocBuffers
      <3>4. CASE AllocLog
        BY <3>4 DEF AllocLog
      <3>5. CASE CreateProc
        BY <3>5 DEF CreateProc
      <3>6. CASE ReadLock
        BY <3>6 DEF ReadLock
      <3>7. CASE Register
        BY <3>7 DEF Register
      <3>8. CASE Unregister
        BY <3>8 DEF Unregister
      <3>9. CASE RemoveProcEntry
        BY <3>9 DEF RemoveProcEntry
      <3>10. CASE Rundown
        BY <3>10 DEF Rundown
      <3>11. CASE FreeAll
        BY <3>11 DEF FreeAll
      <3>12. CASE NetdevRtnl
        BY <3>12 DEF NetdevRtnl
      <3>13. CASE NetdevList
        BY <3>13 DEF NetdevList
      <3>14. CASE NetdevUnlock
        BY <3>14 DEF NetdevUnlock
      <3>15. ASSUME NEW uid, Receive(uid) PROVE Kept
        BY <3>15 DEF Receive, LifecycleInv, HandlerInv
      <3>16. ASSUME NEW p, NEW op, OpenStart(p) \/ CallEnd(p) \/ Mmap(p) \/ VmFault(p) \/ VmClose(p) \/ Release(p) \/ ReadWriteStart(p, op)
            PROVE  Kept
        BY <3>16 DEF OpenStart, CallEnd, OpenEnd, ReadWriteEnd, Mmap, VmFault, VmClose, Release, ReadWriteStart
      <3>17. CASE UNCHANGED vars
        BY <3>17 DEF vars
      <3> HIDE DEF Kept
      <3> QED
        BY <1>2, <3>1, <3>2, <3>3, <3>4, <3>5, <3>6, <3>7, <3>8, <3>9, <3>10, <3>11, <3>12, <3>13, <3>14, <3>15, <3>16, <3>17 DEF Next, ModuleThread, Netdev
    <2>2. log' = log => Export' = Export
      <3>1. Export' = TextOf(log')[MAX_LOG_ENTRY]
        BY DEF Export, Text, TextOf
      <3> QED
        BY <3>1, ExportIs
    <2>3. FileInv'
      BY <2>1 DEF ExportInv, FileInv, Ended
    <2>4. ExportFaithful'
      BY <2>1, <2>2 DEF ExportInv, ExportFaithful, Lines
    <2> QED
      BY <2>3, <2>4 DEF ExportInv
  <1> QED
    BY <1>1, <1>2

(* From the export to the end of myexit the log file begins with the log as *)
(* it is, and is nothing but the log when it has one line for each entry,   *)
(* whatever an earlier, longer export left in the file: for every size of   *)
(* the log, any number of loads, and pages with any contents.               *)
THEOREM ExportIsFaithful == Spec => []ExportFaithful
  <1>1. Init => ExportInv
    BY DEF Init, ExportInv, FileInv, Ended, ExportFaithful
  <1>2. ExportInv => ExportFaithful
    BY DEF ExportInv
  <1> QED
    BY <1>1, <1>2, ExportStep, LifecycleInvariant, PTL DEF Spec

=============================================================================
