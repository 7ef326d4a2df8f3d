--------------------------- MODULE KernelLifecycle ---------------------------
(***************************************************************************)
(* Loading and unloading the kernel module, and the file operations of its  *)
(* proc entry (mymodule/kernel_module/intercept-module.c).  myinit and      *)
(* myexit run in the thread of insmod and rmmod; meanwhile the device       *)
(* delivers packets, processes use /proc/intercept_mmap, and the kernel     *)
(* registers other network devices (the pair rtnl, dev_base_lock).          *)
(*                                                                         *)
(* Memory is the set mem of live allocations <<kind, index, load>>; load    *)
(* numbers the times the module was loaded.  Whoever uses an allocation     *)
(* that is not in mem, or module text that has been unmapped, is recorded   *)
(* in misuse.  What read() does with the cache is InterceptBuffer's; here   *)
(* it is a call that needs both buffers from its start to its end.          *)
(***************************************************************************)
EXTENDS LogBuffs, Sequences, FiniteSets

CONSTANTS
  Processes,      \* processes that use the proc file
  MaxLoads,       \* bound on the number of insmods
  MaxNetdevOps    \* bound on the registrations of other network devices

VARIABLES
  pc,          \* where the module's thread is; "absent": not loaded
  load,        \* number of the current or last load
  mem,         \* live allocations
  log,         \* log_buffs
  procEntry,   \* load that created the proc entry, 0: there is none
  rundown,     \* remove_proc_entry has closed the entry to new calls
  handler,     \* rx_handler of ens33: "none", "ours", "other"; "nodev": no ens33
  file,        \* the log file path_km, a sequence of characters
  fd,          \* of each process: "none", "open", "mapped", "stale", "staleMapped"
  opened,      \* of each process: the load whose open() made its mmap_info
  call,        \* of each process: the file operation it is in
  netdev,      \* the task that registers a device: "idle", "rtnl", "both"
  netdevOps,
  misuse, earlyExit, initFailed   \* history

module == <<pc, load, mem, log, procEntry, rundown, handler, file>>
procs == <<fd, opened, call>>
history == <<misuse, earlyExit, initFailed>>
vars == <<module, procs, netdev, netdevOps, history>>

Buffers == {<<"buff_from_here", 0, load>>, <<"buff_temp", 0, load>>}
LogPages(n) == {<<"log_buffs", i, load>> : i \in 0 .. n - 1}
Info(p) == <<"mmap_info", p, opened[p]>>

(* Module text is mapped from insmod to the end of myexit.                  *)
TextPresent(l) == l = load /\ pc # "absent"
(* The next log buffer myinit asks for.                                     *)
LogsAllocated == Cardinality({m \in mem : m[1] = "log_buffs" /\ m[3] = load})

(* snprintf("%lu\n"): a zero entry takes one digit, a timestamp several.    *)
Line(stamped) == IF stamped THEN <<"1", "9", "\n">> ELSE <<"0", "\n">>
(* The text of the first n entries, in the order of the export loop.        *)
Text[n \in 0 .. MAX_LOG_ENTRY] ==
  IF n = 0 THEN <<>> ELSE Text[n - 1] \o Line(log[Cell(n - 1)])
Export == Text[MAX_LOG_ENTRY]
Lines(s) == Cardinality({i \in DOMAIN s : s[i] = "\n"})
-----------------------------------------------------------------------------
(* insmod.                                                                  *)
InsMod ==
  /\ pc = "absent" /\ load < MaxLoads
  /\ pc' = "kmalloc" /\ load' = load + 1
  /\ UNCHANGED <<mem, log, procEntry, rundown, handler, file, procs, netdev, netdevOps, history>>

(* Both kmallocs of myinit.  Their results are not tested: the memset of a  *)
(* NULL pointer is an oops, insmod dies and the module stays half loaded.   *)
AllocBuffers ==
  /\ pc = "kmalloc"
  /\ \/ mem' = mem \cup Buffers /\ pc' = "pages"
     \/ mem' \in {mem, mem \cup {<<"buff_from_here", 0, load>>}} /\ pc' = "oops"
  /\ UNCHANGED <<load, log, procEntry, rundown, handler, file, procs, netdev, netdevOps, history>>

(* __get_free_pages, which does not clear the pages: after the last one the *)
(* log holds whatever the pages held.  On failure myinit frees the earlier  *)
(* log buffers, but neither of the kmalloced ones, and returns -1.          *)
AllocLog ==
  /\ pc = "pages"
  /\ \/ /\ mem' = mem \cup LogPages(LogsAllocated + 1)
        /\ IF LogsAllocated + 1 = NUM_LOG_BUFF
             THEN pc' = "proc" /\ log' \in [Cells -> BOOLEAN]
             ELSE pc' = pc /\ log' = log
        /\ UNCHANGED initFailed
     \/ /\ mem' = mem \ LogPages(LogsAllocated)
        /\ pc' = "absent" /\ initFailed' = TRUE
        /\ UNCHANGED log
  /\ UNCHANGED <<load, procEntry, rundown, handler, file, procs, netdev, netdevOps, misuse, earlyExit>>

(* proc_create, whose result is ignored; it fails when the name exists.     *)
CreateProc ==
  /\ pc = "proc"
  /\ \/ procEntry = 0 /\ procEntry' = load
     \/ UNCHANGED procEntry
  /\ pc' = "registerRxHandlers"
  /\ UNCHANGED <<load, mem, log, rundown, handler, file, procs, netdev, netdevOps, history>>

(* read_lock(&dev_base_lock), then the walk to ens33.  The lock is held     *)
(* when pc is "register" or "unregister".                                   *)
ReadLock ==
  /\ netdev # "both"
  /\ \/ pc = "registerRxHandlers" /\ pc' = IF handler = "nodev" THEN "live" ELSE "register"
     \/ pc = "unregisterRxHandlers" /\ pc' = IF handler = "nodev" THEN "export" ELSE "unregister"
  /\ UNCHANGED <<load, mem, log, procEntry, rundown, handler, file, procs, netdev, netdevOps, history>>

(* Mutant: device is not set to NULL once ens33 was found.                  *)
RegisterLoops ==
  /\ pc = "register" /\ netdev = "idle"
  /\ handler' = IF handler = "none" THEN "ours" ELSE handler
  /\ UNCHANGED <<pc, load, mem, log, procEntry, rundown, file, procs, netdev, netdevOps, history>>

(* rtnl_lock inside the read lock, netdev_rx_handler_register, both unlocks.*)
(* A device that has a handler answers -EBUSY, which is only printed.       *)
Register ==
  /\ pc = "register" /\ netdev = "idle"
  /\ handler' = IF handler = "none" THEN "ours" ELSE handler
  /\ pc' = "live"
  /\ UNCHANGED <<load, mem, log, procEntry, rundown, file, procs, netdev, netdevOps, history>>

(* The handler stores a timestamp (rxhPacketIn, modelled in InterceptBuffer)*)
Receive(uid) ==
  /\ handler = "ours" /\ InLog(uid)
  /\ IF TextPresent(load) /\ LogPages(NUM_LOG_BUFF) \cup Buffers \subseteq mem
       THEN log' = Stamp(log, {uid}) /\ UNCHANGED misuse
       ELSE misuse' = misuse \cup {"handler"} /\ UNCHANGED log
  /\ UNCHANGED <<pc, load, mem, procEntry, rundown, handler, file, procs, netdev, netdevOps,
                 earlyExit, initFailed>>

(* Mutant: myexit exports the log with the handler still registered.        *)
RmModExportsFirst ==
  /\ pc = "live" /\ pc' = "export"
  /\ UNCHANGED <<load, mem, log, procEntry, rundown, handler, file, procs, netdev, netdevOps, history>>

(* rmmod: the module's reference count does not include open proc files.    *)
RmMod ==
  /\ pc = "live" /\ pc' = "unregisterRxHandlers"
  /\ UNCHANGED <<load, mem, log, procEntry, rundown, handler, file, procs, netdev, netdevOps, history>>

(* netdev_rx_handler_unregister takes off whatever handler is there and     *)
(* waits for the calls of the handler that are under way.                   *)
Unregister ==
  /\ pc = "unregister" /\ netdev = "idle"
  /\ handler' = "none" /\ pc' = "export"
  /\ UNCHANGED <<load, mem, log, procEntry, rundown, file, procs, netdev, netdevOps, history>>

(* filp_open without O_TRUNC and the loop of vfs_writes: the export         *)
(* replaces the beginning of the file.  When the file cannot be opened      *)
(* myexit returns at once and the module is unmapped.                       *)
ExportLog ==
  /\ pc = "export"
  /\ \/ /\ file' = Export \o SubSeq(file, Len(Export) + 1, Len(file))
        /\ pc' = "remove_proc_entry"
        /\ UNCHANGED earlyExit
     \/ /\ pc' = "absent" /\ earlyExit' = TRUE
        /\ UNCHANGED file
  /\ UNCHANGED <<load, mem, log, procEntry, rundown, handler, procs, netdev, netdevOps,
                 misuse, initFailed>>

(* Mutant: the buffers are freed before the proc entry is removed.          *)
KfreeFirst ==
  /\ pc = "remove_proc_entry"
  /\ pc' = IF procEntry = 0 THEN "kfree" ELSE "rundown"
  /\ rundown' = (procEntry # 0)
  /\ mem' = mem \ (Buffers \cup LogPages(NUM_LOG_BUFF))
  /\ UNCHANGED <<load, log, procEntry, handler, file, procs, netdev, netdevOps, history>>

(* remove_proc_entry: no new call is let in ...                             *)
RemoveProcEntry ==
  /\ pc = "remove_proc_entry"
  /\ pc' = IF procEntry = 0 THEN "kfree" ELSE "rundown"
  /\ rundown' = (procEntry # 0)
  /\ UNCHANGED <<load, mem, log, procEntry, handler, file, procs, netdev, netdevOps, history>>

(* ... the calls under way are waited for, and release() is called for each *)
(* file that is still open.  A mapping of the file outlives it.             *)
Rundown ==
  /\ pc = "rundown"
  /\ \A p \in Processes : call[p] = "none"
  /\ LET open == {p \in Processes : fd[p] \in {"open", "mapped"}}
     IN  /\ mem' = mem \ {Info(p) : p \in open}
         /\ fd' = [p \in Processes |-> IF p \notin open THEN fd[p]
                                       ELSE IF fd[p] = "open" THEN "stale" ELSE "staleMapped"]
         /\ misuse' = IF open # {} /\ procEntry # load THEN misuse \cup {"call"} ELSE misuse
  /\ procEntry' = 0 /\ rundown' = FALSE
  /\ pc' = "kfree"
  /\ UNCHANGED <<load, log, handler, file, opened, call, netdev, netdevOps, earlyExit, initFailed>>

(* Mutant: buff_temp is not freed.                                          *)
FreeAllButTemp ==
  /\ pc = "kfree"
  /\ mem' = mem \ ({<<"buff_from_here", 0, load>>} \cup LogPages(NUM_LOG_BUFF))
  /\ pc' = "absent"
  /\ UNCHANGED <<load, log, procEntry, rundown, handler, file, procs, netdev, netdevOps, history>>

(* The kfrees and free_pages at the end of myexit.                          *)
FreeAll ==
  /\ pc = "kfree"
  /\ mem' = mem \ (Buffers \cup LogPages(NUM_LOG_BUFF))
  /\ pc' = "absent"
  /\ UNCHANGED <<load, log, procEntry, rundown, handler, file, procs, netdev, netdevOps, history>>
-----------------------------------------------------------------------------
(* A file operation starts: the proc file system lets it in while the entry *)
(* is there and not in rundown.  It runs text of the load that created it.  *)
Enter(p, op) ==
  /\ call[p] = "none" /\ procEntry # 0 /\ ~rundown
  /\ call' = [call EXCEPT ![p] = op]
  /\ misuse' = IF TextPresent(procEntry) THEN misuse ELSE misuse \cup {"call"}

(* open(): kmalloc and get_zeroed_page, both unchecked; with either NULL    *)
(* the process dies inside the call.                                        *)
OpenStart(p) ==
  /\ fd[p] = "none" /\ Enter(p, "open")
  /\ UNCHANGED <<module, fd, opened, netdev, netdevOps, earlyExit, initFailed>>
OpenEnd(p) ==
  /\ call[p] = "open"
  /\ \/ /\ call' = [call EXCEPT ![p] = "none"]
        /\ fd' = [fd EXCEPT ![p] = "open"]
        /\ opened' = [opened EXCEPT ![p] = procEntry]
        /\ mem' = mem \cup {<<"mmap_info", p, procEntry>>}
     \/ /\ call' = [call EXCEPT ![p] = "dead"]
        /\ UNCHANGED <<fd, opened, mem>>
  /\ UNCHANGED <<pc, load, log, procEntry, rundown, handler, file, netdev, netdevOps, history>>

(* read() uses both buffers, write() the page of its own mmap_info.         *)
ReadWriteStart(p, op) ==
  /\ fd[p] \in {"open", "mapped"} /\ Enter(p, op)
  /\ UNCHANGED <<module, fd, opened, netdev, netdevOps, earlyExit, initFailed>>
ReadWriteEnd(p) ==
  /\ call[p] \in {"read", "write"}
  /\ misuse' = IF (IF call[p] = "read" THEN Buffers ELSE {Info(p)}) \subseteq mem
                 THEN misuse ELSE misuse \cup {"buffer"}
  /\ call' = [call EXCEPT ![p] = "none"]
  /\ UNCHANGED <<module, fd, opened, netdev, netdevOps, earlyExit, initFailed>>

(* mmap() hands the mmap_info to the mapping.                               *)
Mmap(p) ==
  /\ fd[p] = "open" /\ call[p] = "none" /\ procEntry # 0 /\ ~rundown
  /\ fd' = [fd EXCEPT ![p] = "mapped"]
  /\ misuse' = IF TextPresent(procEntry) THEN misuse ELSE misuse \cup {"call"}
  /\ UNCHANGED <<module, opened, call, netdev, netdevOps, earlyExit, initFailed>>

(* vm_fault() follows vm_private_data, vm_close() is called on munmap: no   *)
(* proc entry guards either.                                                *)
VmFault(p) ==
  /\ fd[p] \in {"mapped", "staleMapped"} /\ call[p] = "none"
  /\ misuse' = IF TextPresent(opened[p]) /\ Info(p) \in mem
                 THEN misuse ELSE misuse \cup {"mapping"}
  /\ UNCHANGED <<module, procs, netdev, netdevOps, earlyExit, initFailed>>
VmClose(p) ==
  /\ fd[p] \in {"mapped", "staleMapped"} /\ call[p] = "none"
  /\ fd' = [fd EXCEPT ![p] = IF fd[p] = "mapped" THEN "open" ELSE "stale"]
  /\ misuse' = IF TextPresent(opened[p]) THEN misuse ELSE misuse \cup {"mapping"}
  /\ UNCHANGED <<module, opened, call, netdev, netdevOps, earlyExit, initFailed>>

(* close(): release() frees page and mmap_info, unless the rundown did.     *)
Release(p) ==
  /\ call[p] = "none"
  /\ \/ /\ fd[p] = "open" /\ ~rundown
        /\ mem' = mem \ {Info(p)}
        /\ misuse' = IF TextPresent(opened[p]) THEN misuse ELSE misuse \cup {"call"}
     \/ fd[p] = "stale" /\ UNCHANGED <<mem, misuse>>
  /\ fd' = [fd EXCEPT ![p] = "none"]
  /\ UNCHANGED <<pc, load, log, procEntry, rundown, handler, file, opened, call, netdev,
                 netdevOps, earlyExit, initFailed>>
-----------------------------------------------------------------------------
(* Outside the sources: the kernel registers another network device; it     *)
(* takes rtnl, then dev_base_lock for writing.                              *)
NetdevRtnl ==
  /\ netdev = "idle" /\ netdevOps < MaxNetdevOps
  /\ netdev' = "rtnl" /\ netdevOps' = netdevOps + 1
  /\ UNCHANGED <<module, procs, history>>
NetdevList ==
  /\ netdev = "rtnl" /\ pc \notin {"register", "unregister"}
  /\ netdev' = "both"
  /\ UNCHANGED <<module, procs, netdevOps, history>>
NetdevUnlock ==
  /\ netdev = "both" /\ netdev' = "idle"
  /\ UNCHANGED <<module, procs, netdevOps, history>>
-----------------------------------------------------------------------------
Init ==
  /\ pc = "absent" /\ load = 0 /\ mem = {} /\ log = EmptyLog
  /\ procEntry = 0 /\ rundown = FALSE
  /\ handler \in {"none", "other", "nodev"}
  /\ file = <<>>
  /\ fd = [p \in Processes |-> "none"]
  /\ opened = [p \in Processes |-> 0]
  /\ call = [p \in Processes |-> "none"]
  /\ netdev = "idle" /\ netdevOps = 0
  /\ misuse = {} /\ earlyExit = FALSE /\ initFailed = FALSE

ModuleThread ==
  \/ AllocBuffers \/ AllocLog \/ CreateProc \/ ReadLock \/ Register
  \/ Unregister \/ ExportLog \/ RemoveProcEntry \/ Rundown \/ FreeAll
CallEnd(p) == OpenEnd(p) \/ ReadWriteEnd(p)
Netdev == NetdevList \/ NetdevUnlock

Next ==
  \/ InsMod \/ RmMod \/ ModuleThread
  \/ \E uid \in 0 .. MAX_LOG_ENTRY - 1 : Receive(uid)
  \/ \E p \in Processes :
       \/ OpenStart(p) \/ CallEnd(p) \/ Mmap(p) \/ VmFault(p) \/ VmClose(p) \/ Release(p)
       \/ \E op \in {"read", "write"} : ReadWriteStart(p, op)
  \/ NetdevRtnl \/ Netdev

Spec == Init /\ [][Next]_vars

(* The threads of insmod and rmmod, a file operation that has begun and a   *)
(* task that holds rtnl are scheduled; nothing makes anyone start one.      *)
FairSpec ==
  /\ Spec
  /\ WF_vars(ModuleThread) /\ WF_vars(Netdev)
  /\ \A p \in Processes : WF_vars(CallEnd(p))
-----------------------------------------------------------------------------
(* myexit takes things down in an order in which nobody uses what is gone:  *)
(* the receive handler never runs without its buffers, read() and write()   *)
(* never meet a freed buffer, and the proc entry never leads into unmapped  *)
(* text, unless an earlier myexit returned at the error path of filp_open.  *)
(* What is left is a mapping that outlives the module.                      *)
NoUseAfterFree ==
  misuse \subseteq {"mapping"} \cup (IF earlyExit THEN {"call", "buffer"} ELSE {})

(* A module that is gone has left nothing behind, no allocation, no proc    *)
(* entry and no receive handler, unless __get_free_pages failed in myinit   *)
(* or the log file could not be opened in myexit.                           *)
CleanUnload ==
  pc = "absent" =>
    /\ handler # "ours"
    /\ ~earlyExit => procEntry = 0 /\ (~initFailed => mem = {})

(* The log file begins with the log as it was when the last packet was      *)
(* received, and what a longer, older file leaves behind it shows: a file   *)
(* with one line for each entry is the export and nothing else.  (The       *)
(* scripts compare the number of lines before they compare the logs.)       *)
ExportFaithful ==
  pc \in {"remove_proc_entry", "rundown", "kfree"} =>
    /\ Len(file) >= Len(Export) /\ SubSeq(file, 1, Len(Export)) = Export
    /\ Lines(file) = MAX_LOG_ENTRY => file = Export

(* Two tasks wait for each other: the module sleeps in rtnl_lock with       *)
(* dev_base_lock held, the owner of rtnl waits for dev_base_lock.           *)
LockOrderDeadlock == pc \in {"register", "unregister"} /\ netdev = "rtnl"

(* An rmmod ends, and so does an insmod, unless the two locks taken in      *)
(* opposite orders stop it or a process has died inside a file operation.   *)
LoadAndUnloadEnd ==
  (pc \notin {"absent", "live", "oops"})
     ~> (pc \in {"absent", "live", "oops"} \/ LockOrderDeadlock
           \/ \E p \in Processes : call[p] = "dead")
=============================================================================
