---------------------------- MODULE MeasureMain ----------------------------
(***************************************************************************)
(* The measuring program from start to exit (main of                        *)
(* eBPF_measure/ebpf_measure_user.c, with load_bpf_and_xdp_attach,          *)
(* xdp_link_attach and xdp_link_detach of common/common_user_bpf_xdp.c),    *)
(* run several times on one device: command line, loading (BpfObject),      *)
(* attaching, the loop, the export and detaching, while other processes     *)
(* attach and detach programs of their own, system calls fail, Ctrl+C       *)
(* arrives at any moment and the process may be killed.  What the loop does *)
(* with packets is EbpfPath's.                                              *)
(*                                                                         *)
(* The second client of BpfObject, "api", is any program that uses the      *)
(* library's calls in any order.                                            *)
(***************************************************************************)
EXTENDS BpfObject, XdpLink, CmdLine

CONSTANTS
  CmdLines,      \* the command lines the program is started with
  MaxRuns, MaxKills, MaxLinkOps

ASSUME MeasureMainAssumption ==
  CmdLines \subseteq Seq(STRING) /\ {MaxRuns, MaxKills, MaxLinkOps} \subseteq Nat

VARIABLES
  client,        \* "measure" or "api"
  mpc,           \* where main is; "off": no process
  argv, cfg, global_exit, code,
  link, native,  \* the device's programs; its driver has an XDP hook
  run, asked,    \* which run this is; the flags each run attached with
  disturbed,     \* another process changed the link after main attached
  missed,        \* the detach of this run met an error, or several modes at once
  kills, linkOps

mainvars == <<client, mpc, argv, cfg, global_exit, code, link, native, run, asked, disturbed, missed,
              kills, linkOps>>
vars == <<objvars, mainvars>>
runvars == <<client, argv, native, run, kills, linkOps>>

Foreign == MaxRuns + 1   \* a program of another process; those of main are numbered by its runs
NotRun == -1
EXIT_FAIL == 1
EXIT_FAIL_OPTION == 2
EXIT_FAIL_XDP == 30
EXIT_FAIL_BPF == 40
Crashed == 139

(* The maps of ebpf_measure_kern.c are not pinned; other.o has neither.     *)
ObjectFile == [f \in {"measure.o", "other.o"} |->
                 LET plain == [type |-> "UNSPEC", btf |-> FALSE, pin_path |-> NoPath]
                 IN  IF f = "measure.o" THEN <<plain, plain>> ELSE <<plain>>]

(* The process ends: the kernel closes its descriptors and leaves the link. *)
Exit(c) ==
  /\ mpc' = "off" /\ code' = c /\ global_exit' = FALSE
  /\ obj' = [Closed EXCEPT !.st = "none"]
  /\ proc' = [fds |-> [fd \in 1 .. MaxFds |-> Free], bad |-> FALSE, leaked |-> {}]
  /\ pc' = [op |-> "idle", call |-> "", i |-> 0, dir |-> None, err |-> OK]
  /\ calls' = 0 /\ before' = fs /\ touched' = {} /\ stuck' = FALSE
  /\ UNCHANGED <<runvars, cfg, fs, others>>

At(from) == client = "measure" /\ mpc = from
To(to) == mpc' = to /\ UNCHANGED <<runvars, global_exit, code>>
-----------------------------------------------------------------------------
Start(a) ==
  /\ At("off") /\ run < MaxRuns
  /\ mpc' = "boot" /\ argv' = a /\ run' = run + 1 /\ code' = NotRun
  /\ missed' = FALSE /\ disturbed' = FALSE
  /\ UNCHANGED <<objvars, client, cfg, global_exit, link, native, asked, kills, linkOps>>

InstallHandler ==
  /\ At("boot") /\ To("parse")
  /\ UNCHANGED <<objvars, cfg, link, asked, disturbed, missed>>

(* Reading behind the option table finds a terminator or does not.          *)
Parse ==
  /\ At("parse")
  /\ LET c == ParseCmdline(argv)
     IN  \/ c.exit = "none" /\ cfg' = c /\ To("check") /\ UNCHANGED <<objvars, link, asked, disturbed, missed>>
         \/ /\ c.exit # "none"
            /\ \/ Exit(EXIT_FAIL_OPTION) /\ UNCHANGED <<faults, link, asked, disturbed, missed>>
               \/ c.exit = "overrun" /\ Exit(Crashed) /\ UNCHANGED <<faults, link, asked, disturbed, missed>>

(* Without --dev: usage.  -U: only detach.  Without --filename nothing is   *)
(* loaded, and the loop looks at descriptor 0.                              *)
Check ==
  /\ At("check")
  /\ \/ cfg.ifindex = -1 /\ Exit(EXIT_FAIL_OPTION) /\ UNCHANGED <<faults, link>>
     \/ /\ cfg.ifindex # -1
        /\ To(IF cfg.do_unload THEN "detach" ELSE IF cfg.filename # "" THEN "open" ELSE "malloc")
        /\ UNCHANGED <<objvars, cfg, link>>
  /\ UNCHANGED <<asked, disturbed, missed>>

OpenObject ==
  /\ At("open") /\ To("opening")
  /\ \E f \in DOMAIN ObjectFile : f = cfg.filename /\ Open(ObjectFile[f])
  /\ UNCHANGED <<cfg, link, asked, disturbed, missed>>

(* With -M load_bpf_object_file_reuse_maps looks for the pinned maps in     *)
(* pin_dir, which no option sets: "/uid_timestamps" is not a pinned map.    *)
LoadObject ==
  /\ At("opening") /\ pc.op = "idle"
  /\ \/ (pc.err # OK \/ cfg.reuse_maps) /\ Exit(EXIT_FAIL_BPF) /\ UNCHANGED faults
     \/ pc.err = OK /\ ~cfg.reuse_maps /\ LoadCall /\ To("loading") /\ UNCHANGED cfg
  /\ UNCHANGED <<link, asked, disturbed, missed>>

(* bpf_prog_load_xattr closes the object when the load failed.              *)
LoadFailed ==
  /\ At("loading") /\ pc.op = "idle"
  /\ pc.err # OK /\ CloseCall /\ To("notloaded")
  /\ UNCHANGED <<cfg, link, asked, disturbed, missed>>
GiveUp ==
  /\ At("notloaded") /\ Exit(EXIT_FAIL_BPF)
  /\ UNCHANGED <<faults, link, asked, disturbed, missed>>
(* The program is looked up by its section.                                 *)
FindProgram ==
  /\ At("loading") /\ pc.op = "idle"
  /\ \/ /\ pc.err = OK /\ cfg.progsec # "xdp_sock" /\ Exit(EXIT_FAIL_BPF) /\ UNCHANGED faults
     \/ /\ pc.err = OK /\ cfg.progsec = "xdp_sock" /\ To("attach") /\ UNCHANGED <<objvars, cfg>>
  /\ UNCHANGED <<link, asked, disturbed, missed>>

(* One request to the link.  onExist is where main goes when the answer is  *)
(* EEXIST; "exit", as for every other error, ends the program.              *)
Request(prog, flags, onOk, onExist) ==
  \E r \in SetLinkXdpFd(link, native, prog, flags) :
    /\ Fault(r.faults) /\ link' = r.link
    /\ LET next == CASE r.err = "" -> onOk [] r.err = "EEXIST" -> onExist [] OTHER -> "exit"
       IN  IF next = "exit" THEN Exit(EXIT_FAIL_XDP)
           ELSE To(next) /\ UNCHANGED <<pc, obj, proc, fs, calls, others, before, touched, stuck, cfg>>

(* xdp_link_attach: when the other mode is taken, it is freed, whoever had  *)
(* it, and the request is repeated.                                         *)
Attach ==
  /\ At("attach")
  /\ Request(run, cfg.xdp_flags, "maps",
             IF "UPDATE_IF_NOEXIST" \notin cfg.xdp_flags THEN "remove" ELSE "exit")
  /\ asked' = [asked EXCEPT ![run] = cfg.xdp_flags] /\ disturbed' = FALSE
  /\ UNCHANGED missed
RemoveOpposite ==
  /\ At("remove") /\ Request(0, OppositeFlags(cfg.xdp_flags), "again", "exit")
  /\ UNCHANGED <<asked, disturbed, missed>>
AttachAgain ==
  /\ At("again") /\ Request(run, RetryFlags(cfg.xdp_flags), "maps", "exit")
  /\ disturbed' = FALSE /\ UNCHANGED <<asked, missed>>

(* bpf_object__find_map_by_name: an object without the two maps, and a      *)
(* malloc that fails, end the program with the XDP program attached.        *)
FindMaps ==
  /\ At("maps")
  /\ \/ cfg.filename # "measure.o" /\ Exit(EXIT_FAIL) /\ UNCHANGED faults
     \/ cfg.filename = "measure.o" /\ To("malloc") /\ UNCHANGED <<objvars, cfg>>
  /\ UNCHANGED <<link, asked, disturbed, missed>>
AllocLogs ==
  /\ At("malloc")
  /\ \/ To("loop") /\ UNCHANGED <<objvars, cfg>>
     \/ Fault(1) /\ Exit(255)
  /\ UNCHANGED <<link, asked, disturbed, missed>>

(* Mutant: the loop does not look at global_exit.                           *)
LeaveLoopNever ==
  /\ At("loop") /\ FALSE
  /\ UNCHANGED vars
(* The loop ends when global_exit is set.                                   *)
LeaveLoop ==
  /\ At("loop") /\ global_exit /\ To("export")
  /\ UNCHANGED <<objvars, cfg, link, asked, disturbed, missed>>

(* Both log files; fopen's result is not tested.                            *)
ExportLogs ==
  /\ At("export")
  /\ \/ To("detach") /\ UNCHANGED <<objvars, cfg>>
     \/ Fault(1) /\ Exit(Crashed)
  /\ UNCHANGED <<link, asked, disturbed, missed>>

(* xdp_link_detach with expected id 0: first the question which program is  *)
(* attached ...  The result counts only for -U.                             *)
DetachResult(c) == IF cfg.do_unload THEN c ELSE 0
DetachQuery ==
  /\ At("detach")
  /\ \E q \in {GetLinkXdpId(link, cfg.xdp_flags)} :
         \/ /\ q.err = OK /\ q.id # 0 /\ To("removing") /\ UNCHANGED <<objvars, cfg, missed>>
         \/ /\ q.err = OK /\ q.id = 0 /\ Exit(DetachResult(0)) /\ UNCHANGED faults
            /\ missed' = (Cardinality({m \in Modes : link[m] # 0}) > 1)
         \/ /\ q.err # OK /\ Exit(DetachResult(EXIT_FAIL_XDP)) /\ UNCHANGED faults /\ missed' = TRUE
         \/ /\ Fault(1) /\ Exit(DetachResult(EXIT_FAIL_XDP)) /\ missed' = TRUE
  /\ UNCHANGED <<link, asked, disturbed>>
(* ... then the request to remove what is attached by then.                 *)
DetachRemove ==
  /\ At("removing")
  /\ \E r \in SetLinkXdpFd(link, native, 0, cfg.xdp_flags) :
       /\ Fault(r.faults) /\ link' = r.link
       /\ missed' = (r.err # "")
       /\ Exit(DetachResult(IF r.err = "" THEN 0 ELSE EXIT_FAIL_XDP))
  /\ UNCHANGED <<asked, disturbed>>
-----------------------------------------------------------------------------
(* Ctrl+C kills the process until the handler is installed.                 *)
Sigint ==
  /\ client = "measure" /\ mpc # "off" /\ ~global_exit
  /\ IF mpc = "boot" THEN Exit(130) /\ UNCHANGED faults
     ELSE global_exit' = TRUE /\ UNCHANGED <<objvars, runvars, mpc, cfg, code>>
  /\ UNCHANGED <<link, asked, disturbed, missed>>
Kill ==
  /\ client = "measure" /\ mpc # "off" /\ kills < MaxKills
  /\ mpc' = "off" /\ code' = 137 /\ global_exit' = FALSE /\ kills' = kills + 1
  /\ obj' = [Closed EXCEPT !.st = "none"]
  /\ proc' = [fds |-> [fd \in 1 .. MaxFds |-> Free], bad |-> FALSE, leaked |-> {}]
  /\ pc' = [op |-> "idle", call |-> "", i |-> 0, dir |-> None, err |-> OK]
  /\ calls' = 0 /\ before' = fs /\ touched' = {} /\ stuck' = FALSE
  /\ UNCHANGED <<client, argv, cfg, link, native, run, asked, disturbed, missed, linkOps, fs, faults, others>>

(* Another process attaches or removes a program.                           *)
OtherLink(prog, flags) ==
  /\ client = "measure" /\ linkOps < MaxLinkOps
  /\ linkOps' = linkOps + 1
  /\ KernelSet(link, native, prog, flags).link # link
  /\ link' = KernelSet(link, native, prog, flags).link
  /\ disturbed' = TRUE
  /\ UNCHANGED <<objvars, client, mpc, argv, cfg, global_exit, code, native, run, asked, missed, kills>>

Init ==
  /\ ObjInit
  /\ client \in {"measure", "api"}
  /\ mpc = "off" /\ argv = <<>> /\ cfg = DefaultConfig /\ global_exit = FALSE /\ code = NotRun
  /\ link = EmptyLink /\ native \in BOOLEAN
  /\ client = "api" => native
  /\ run = 0 /\ asked = [r \in 1 .. MaxRuns |-> {"none"}] /\ disturbed = FALSE /\ missed = FALSE
  /\ kills = 0 /\ linkOps = 0

MainStep ==
  \/ InstallHandler \/ Parse \/ Check \/ OpenObject \/ LoadObject \/ FindProgram \/ LoadFailed \/ GiveUp
  \/ Attach \/ RemoveOpposite \/ AttachAgain \/ FindMaps \/ AllocLogs \/ LeaveLoop \/ ExportLogs
  \/ DetachRemove
  \/ client = "measure" /\ Internal /\ UNCHANGED mainvars

Next ==
  \/ MainStep \/ DetachQuery
  \/ \E a \in CmdLines : Start(a)
  \/ Sigint \/ Kill
  \/ \E prog \in {0, Foreign}, flags \in {{"SKB"}, {"DRV"}, {"HW"}} : OtherLink(prog, flags)
  \/ client = "api" /\ ApiNext /\ UNCHANGED mainvars

Spec == Init /\ [][Next]_vars

(* The process is scheduled as long as it can run.  The last conjunct is    *)
(* weak fairness of DetachQuery, which is enabled as long as main is there. *)
FairSpec == Spec /\ WF_vars(MainStep) /\ []<>(mpc # "detach")
-----------------------------------------------------------------------------
(* While main looks for its maps and fetches packets, its own program is    *)
(* attached in the mode that the last of the options -A, -S and -N names    *)
(* (the driver's hook if there is one for -A or none of them), also when a  *)
(* program of the opposite mode had to be removed first; unless another     *)
(* process changed the link since.                                          *)
AttachedAsAsked ==
  mpc \in {"maps", "loop", "export"} /\ cfg.filename # "" /\ ~disturbed =>
    LET modes == {i \in DOMAIN argv : argv[i] \in {"A", "S", "N"}}
        mode == IF modes = {} THEN "A" ELSE argv[CHOOSE i \in modes : \A j \in modes : j <= i]
    IN  link[CASE mode = "S" -> "SKB" [] mode = "N" -> "DRV"
               [] OTHER -> IF native THEN "DRV" ELSE "SKB"] = run

(* After a run that ended with success nothing that this or an earlier run  *)
(* attached with the same flags is on the device any more, also if that     *)
(* earlier run was killed or left through an error; unless the detach met   *)
(* an error, which main drops, or several modes at once.                    *)
CleanAfterSuccess ==
  mpc = "off" /\ code = 0 /\ ~missed =>
    \A r \in 1 .. run : asked[r] = cfg.xdp_flags => \A m \in Modes : link[m] # r

(* After Ctrl+C the program ends, wherever it is.                           *)
SigintEnds == global_exit ~> mpc = "off"
=============================================================================
