----------------------------- MODULE BpfObject -----------------------------
(***************************************************************************)
(* The life of one struct bpf_object (libbpf/src/libbpf.c): opening, loading *)
(* (reusing pinned maps, creating maps, auto-pinning, loading programs),     *)
(* pinning, unpinning, unloading and closing, with system calls that fail    *)
(* and another process that pins and unlinks maps in the same directory of   *)
(* the BPF file system.  A step is what happens between two accesses to that *)
(* file system.                                                              *)
(*                                                                         *)
(* What a section or an instruction says is ElfObject's.  A kernel object is *)
(* named by who made it: "map" and "prog" by this object, "compat" and       *)
(* "other" by another process, with and without the attributes this object   *)
(* expects of its map.                                                       *)
(***************************************************************************)
EXTENDS Integers, Sequences, FiniteSets, SequencesExt

CONSTANTS
  MapShapes,     \* the maps an object file defines: sets of sequences of [type, btf, pin_path]
  Instances,     \* programs of the object, and how many instances each has
  Dirs,          \* directories of the BPF file system
  MaxFds, MaxFaults, MaxCalls, MaxOther

ASSUME BpfObjectAssumption ==
  /\ \A shape \in MapShapes : shape \in Seq(ToSet(shape))
  /\ Instances \in Seq(Nat \ {0})
  /\ {MaxFds, MaxFaults, MaxCalls, MaxOther} \subseteq Nat

VARIABLES
  pc,       \* the library call under way: [op, call, i, dir, err]
  obj,      \* struct bpf_object: [st, loaded, maps, progs]; maps[i] has fd, pin_path, pinned, reused
  proc,     \* the process: [fds, bad, leaked]
  fs,       \* what each path of the BPF file system holds
  faults, calls, others,
  before, touched, stuck   \* history of the call: fs at its start, paths others changed, failed unlinks

objvars == <<pc, obj, proc, fs, faults, calls, others, before, touched, stuck>>

OK == ""
NoFd == 0
None == "none"
NoPath == <<>>
Free == "free"
MapPath(dir, i) == <<dir, "map", i>>
ProgPath(dir, p) == <<dir, "prog", p>>
MapPaths == {MapPath(d, i) : d \in Dirs, i \in UNION {DOMAIN shape : shape \in MapShapes}}
Paths == MapPaths \cup {ProgPath(d, p) : d \in Dirs, p \in DOMAIN Instances}

(* A descriptor is the lowest free number; closing one that is not open is  *)
(* remembered.  zclose skips a negative descriptor.                         *)
Lowest(p) == CHOOSE fd \in 1 .. MaxFds : p.fds[fd] = Free /\ \A e \in 1 .. fd - 1 : p.fds[e] # Free
Alloc(p, what) == [p EXCEPT !.fds[Lowest(p)] = what]
Close(p, fd) ==
  IF fd = NoFd THEN p ELSE [p EXCEPT !.fds[fd] = Free, !.bad = @ \/ p.fds[fd] = Free]
CloseAll(p, s) == FoldLeft(Close, p, s)
Leak(p, what) == [Alloc(p, what) EXCEPT !.leaked = @ \cup {Lowest(p)}]

MapFds(maps) == [i \in DOMAIN maps |-> maps[i].fd]
ProgFds(progs) == FlattenSeq(progs)
(* What a path holds; a map without a path has nothing to reuse.           *)
Held(path) == IF path = NoPath THEN None ELSE fs[path]
Reachable == (ToSet(MapFds(obj.maps)) \cup ToSet(ProgFds(obj.progs))) \ {NoFd}

(* A system call that may fail uses up one of the faults.                   *)
Fault(k) == faults + k <= MaxFaults /\ faults' = faults + k
NewMap(shape) ==
  [type |-> shape.type, btf |-> shape.btf, pin_path |-> shape.pin_path,
   fd |-> NoFd, pinned |-> FALSE, reused |-> FALSE]
InstancesBefore(p) == FoldLeft(LAMBDA a, n : a + n, 0, SubSeq(Instances, 1, p - 1))
NoPrograms == [p \in DOMAIN Instances |-> <<>>]
Closed == [st |-> "closed", loaded |-> FALSE, maps |-> <<>>, progs |-> NoPrograms]

Goto(op, i) == pc' = [pc EXCEPT !.op = op, !.i = i]
Return(err) == pc' = [pc EXCEPT !.op = "idle", !.i = 0, !.err = err]
Enter(call, op, dir) ==
  /\ pc.op = "idle" /\ calls < MaxCalls
  /\ pc' = [op |-> op, call |-> call, i |-> 1, dir |-> dir, err |-> OK]
  /\ calls' = calls + 1 /\ before' = fs /\ touched' = {} /\ stuck' = FALSE
-----------------------------------------------------------------------------
(* __bpf_object__open: the descriptor of the file lives until elf_finish.   *)
(* When elf_begin fails, elf_finish finds no elf and returns before it      *)
(* closes the descriptor.  Every later error goes through close.            *)
Open(shape) ==
  /\ obj.st = "none" /\ Enter("open", "opening", None)
  /\ \/ /\ obj' = [obj EXCEPT !.st = "open", !.maps = [i \in DOMAIN shape |-> NewMap(shape[i])]]
        /\ UNCHANGED <<proc, faults>>
     \/ Fault(1) /\ obj' = Closed /\ proc' \in {proc, Leak(proc, "elf")}
  /\ UNCHANGED <<fs, others>>
Opened ==
  /\ pc.op = "opening" /\ Return(IF obj.st = "open" THEN OK ELSE "open")
  /\ UNCHANGED <<obj, proc, fs, faults, calls, others, before, touched, stuck>>

(* bpf_map__reuse_fd: what becomes of the process and the map.  The first   *)
(* open only reserves a number; when dup3 fails it is lost.                 *)
ReuseFd(p, m, fd) ==
  LET new == Alloc(p, p.fds[fd])
  IN  {[p |-> Close(new, m.fd), m |-> [m EXCEPT !.fd = Lowest(p), !.reused = TRUE], err |-> OK],
       [p |-> p, m |-> m, err |-> "info or open"],
       [p |-> Leak(p, "/"), m |-> m, err |-> "dup3"]}

(* bpf_map__pin and bpf_map__unpin: the map and the file system afterwards. *)
(* path is NoPath or where the caller wants it.                               *)
Pin(m, path) ==
  LET at == IF m.pin_path # NoPath THEN m.pin_path ELSE path
      named == [m EXCEPT !.pin_path = at]
      Is(m2, f, e) == {[m |-> m2, fs |-> f, err |-> e, faults |-> 0]}
  IN  IF at = NoPath \/ (path # NoPath /\ path # at) THEN Is(m, fs, "EINVAL")
      ELSE IF m.pinned THEN Is(m, fs, IF m.pin_path # NoPath THEN OK ELSE "EEXIST")
      ELSE {[m |-> named, fs |-> fs, err |-> "mkdir, statfs or pin", faults |-> 1]}
           \cup (IF m.fd = NoFd THEN Is(named, fs, "EBADF")
                 ELSE IF fs[at] # None THEN Is(named, fs, "EEXIST")
                 ELSE Is([named EXCEPT !.pinned = TRUE], [fs EXCEPT ![at] = proc.fds[m.fd]], OK))
Unpin(m, path) ==
  LET at == IF m.pin_path # NoPath THEN m.pin_path ELSE path
      Is(m2, f, e) == {[m |-> m2, fs |-> f, err |-> e, faults |-> 0]}
  IN  IF at = NoPath \/ (path # NoPath /\ path # at) THEN Is(m, fs, "EINVAL")
      ELSE {[m |-> m, fs |-> fs, err |-> "statfs or unlink", faults |-> 1]}
           \cup (IF fs[at] = None THEN Is(m, fs, "ENOENT")
                 ELSE Is([m EXCEPT !.pinned = FALSE], [fs EXCEPT ![at] = None], OK))
-----------------------------------------------------------------------------
(* bpf_object__load_xattr: loaded is set first, also if the load fails.     *)
LoadCall ==
  /\ obj.st = "open" /\ Enter("load", IF obj.loaded THEN "twice" ELSE "reuse", None)
  /\ obj' = [obj EXCEPT !.loaded = TRUE]
  /\ UNCHANGED <<proc, fs, faults, others>>
LoadTwice ==
  /\ pc.op = "twice" /\ Return("EINVAL")
  /\ UNCHANGED <<obj, proc, fs, faults, calls, others, before, touched, stuck>>

(* bpf_object__reuse_map for map i.  A pinned map with other attributes is  *)
(* refused.  After a successful reuse nobody closes pin_fd.                 *)
ReuseMap ==
  /\ pc.op = "reuse" /\ pc.i <= Len(obj.maps)
  /\ LET i == pc.i
         m == obj.maps[i]
     IN  \/ /\ Held(m.pin_path) = None
            /\ Goto("create", i) /\ UNCHANGED <<obj, proc, faults>>
         \/ /\ m.pin_path # NoPath /\ Fault(1) /\ Goto("undo", 1) /\ UNCHANGED <<obj, proc>>
         \/ /\ Held(m.pin_path) \notin {None, "map", "compat"}
            /\ Goto("undo", 1) /\ UNCHANGED <<obj, proc, faults>>
         \/ /\ Held(m.pin_path) \in {"map", "compat"}
            /\ \E r \in ReuseFd(Leak(proc, Held(m.pin_path)), m, Lowest(proc)) :
                 IF r.err = OK
                   THEN /\ proc' = r.p /\ Goto("create", i) /\ UNCHANGED faults
                        /\ obj' = [obj EXCEPT !.maps[i] = [r.m EXCEPT !.pinned = TRUE]]
                   ELSE /\ Fault(1) /\ Goto("undo", 1) /\ UNCHANGED obj
                        /\ proc' = [Close(r.p, Lowest(proc)) EXCEPT !.leaked = @ \ {Lowest(proc)}]
  /\ UNCHANGED <<fs, calls, others, before, touched, stuck>>

(* Mutant: the descriptors closed on the way out keep their numbers.        *)
CreateFailedClosesOnly(maps, i) == maps
(* When map i cannot be created, the descriptors of the maps before it are  *)
(* closed, and set to -1 so that the unload does not close them again.      *)
CreateFailed(maps, i) == [j \in DOMAIN maps |-> IF j < i THEN [maps[j] EXCEPT !.fd = NoFd] ELSE maps[j]]

(* bpf_object__create_maps for map i: a map with a descriptor is skipped;   *)
(* a map with BTF gets a second chance without; an internal map is filled   *)
(* (.bss is zero already), and a failing freeze of .rodata is ignored.      *)
CreateMap ==
  /\ pc.op = "create"
  /\ LET i == pc.i
         m == obj.maps[i]
     IN  \/ m.fd # NoFd /\ Goto("reuse", i + 1) /\ UNCHANGED <<obj, proc, faults>>
         \/ /\ m.fd = NoFd
            /\ proc' = Alloc(proc, "map")
            /\ obj' = [obj EXCEPT !.maps[i].fd = Lowest(proc)]
            /\ IF m.pin_path # NoPath /\ ~m.pinned THEN Goto("autopin", i) ELSE Goto("reuse", i + 1)
            /\ UNCHANGED faults
         \/ /\ m.fd = NoFd
            /\ \/ Fault(IF m.btf THEN 2 ELSE 1)
               \/ m.type \in {"DATA", "RODATA"} /\ Fault(1)
            /\ proc' = CloseAll(proc, SubSeq(MapFds(obj.maps), 1, i - 1))
            /\ obj' = [obj EXCEPT !.maps = CreateFailed(@, i)]
            /\ Goto("undo", 1)
  /\ UNCHANGED <<fs, calls, others, before, touched, stuck>>

AutoPin ==
  /\ pc.op = "autopin"
  /\ \E r \in Pin(obj.maps[pc.i], NoPath) :
       /\ Fault(r.faults) /\ fs' = r.fs /\ obj' = [obj EXCEPT !.maps[pc.i] = r.m]
       /\ IF r.err = OK THEN Goto("reuse", pc.i + 1) ELSE Goto("undo", 1)
  /\ UNCHANGED <<proc, calls, others, before, touched, stuck>>

(* load_program: the buffer for the verifier's log grows until it suffices;  *)
(* the descriptor of the second try, as a KPROBE, is closed at once.         *)
LoadProgram(p) == Alloc(p, "prog")

(* bpf_object__relocate and bpf_object__load_progs: after the last map, the *)
(* relocation fails, or the programs are loaded one instance after the      *)
(* other until one is refused.                                              *)
LoadPrograms ==
  /\ pc.op = "reuse" /\ pc.i > Len(obj.maps)
  /\ \E loaded \in 0 .. InstancesBefore(Len(Instances) + 1) :
       LET p2 == FoldLeft(LAMBDA p, k : LoadProgram(p), proc, [k \in 1 .. loaded |-> k])
           new == SelectSeq([fd \in 1 .. MaxFds |-> fd], LAMBDA fd : p2.fds[fd] # proc.fds[fd])
           Fd(n) == IF n <= loaded THEN new[n] ELSE NoFd
       IN  /\ proc' = p2
           /\ obj' = [obj EXCEPT !.progs = [p \in DOMAIN Instances |->
                        [k \in 1 .. Instances[p] |-> Fd(InstancesBefore(p) + k)]]]
           /\ IF loaded = InstancesBefore(Len(Instances) + 1) THEN Return(OK) /\ UNCHANGED faults
              ELSE Fault(1) /\ Goto("undo", 1)
  /\ UNCHANGED <<fs, calls, others, before, touched, stuck>>

(* Mutant: a failing load also unpins the maps it reused.                   *)
UndoAll(m) == m.pinned
(* The maps a failing load unpins: those it pinned itself.                  *)
UndoPin(m) == m.pinned /\ ~m.reused

(* bpf_object__unload.                                                      *)
Unload(p, o) == CloseAll(p, MapFds(o.maps) \o ProgFds(o.progs))
Unloaded(o) ==
  [o EXCEPT !.maps = [i \in DOMAIN @ |-> [@[i] EXCEPT !.fd = NoFd]], !.progs = NoPrograms]

UndoLoad ==
  /\ pc.op = "undo"
  /\ IF pc.i > Len(obj.maps)
       THEN /\ proc' = Unload(proc, obj) /\ obj' = Unloaded(obj)
            /\ Return("load") /\ UNCHANGED <<fs, faults, stuck>>
       ELSE /\ IF ~UndoPin(obj.maps[pc.i]) THEN UNCHANGED <<obj, fs, faults, stuck>>
               ELSE \E r \in Unpin(obj.maps[pc.i], NoPath) :
                      /\ Fault(r.faults) /\ fs' = r.fs /\ obj' = [obj EXCEPT !.maps[pc.i] = r.m]
                      /\ stuck' = (stuck \/ r.err # OK)
            /\ Goto("undo", pc.i + 1) /\ UNCHANGED proc
  /\ UNCHANGED <<calls, others, before, touched>>
-----------------------------------------------------------------------------
(* bpf_object__pin_maps and bpf_object__pin.  dir is None when every map    *)
(* goes to its own path.                                                    *)
PinCall(call, dir) ==
  /\ obj.st = "open" /\ call = "pin" => dir # None
  /\ Enter(call, IF obj.loaded THEN "pinmaps" ELSE "notloaded", dir)
  /\ UNCHANGED <<obj, proc, fs, faults, others>>
NotLoaded ==
  /\ pc.op = "notloaded" /\ Return("ENOENT")
  /\ UNCHANGED <<obj, proc, fs, faults, calls, others, before, touched, stuck>>

Wanted(i) == IF pc.dir = None THEN NoPath ELSE MapPath(pc.dir, i)
PinMap ==
  /\ pc.op = "pinmaps"
  /\ IF pc.i > Len(obj.maps)
       THEN /\ IF pc.call = "pin" THEN Goto("pinprogs", 1) ELSE Return(OK)
            /\ UNCHANGED <<obj, fs, faults>>
       ELSE IF pc.dir = None /\ obj.maps[pc.i].pin_path = NoPath
       THEN Goto("pinmaps", pc.i + 1) /\ UNCHANGED <<obj, fs, faults>>
       ELSE \E r \in Pin(obj.maps[pc.i], Wanted(pc.i)) :
              /\ Fault(r.faults) /\ fs' = r.fs /\ obj' = [obj EXCEPT !.maps[pc.i] = r.m]
              /\ IF r.err = OK THEN Goto("pinmaps", pc.i + 1) ELSE Goto("unpinback", pc.i - 1)
  /\ UNCHANGED <<proc, calls, others, before, touched, stuck>>

(* err_unpin_maps: back over the maps before the one that failed; those     *)
(* that were pinned before the call are unpinned as well.                   *)
UnpinBack ==
  /\ pc.op = "unpinback"
  /\ IF pc.i = 0 THEN Return("pin") /\ UNCHANGED <<obj, fs, faults, stuck>>
     ELSE /\ Goto("unpinback", pc.i - 1)
          /\ IF obj.maps[pc.i].pin_path = NoPath THEN UNCHANGED <<obj, fs, faults, stuck>>
             ELSE \E r \in Unpin(obj.maps[pc.i], NoPath) :
                    /\ Fault(r.faults) /\ fs' = r.fs /\ obj' = [obj EXCEPT !.maps[pc.i] = r.m]
                    /\ stuck' = (stuck \/ r.err # OK)
  /\ UNCHANGED <<proc, calls, others, before, touched>>

(* bpf_program__pin and bpf_program__unpin: whether they can succeed.  A     *)
(* program with one instance is pinned at its path, one with more in a       *)
(* directory of that name; a failing pin removes the instances before it.    *)
PinnableProgram(p, path) == obj.progs[p] # <<>> /\ NoFd \notin ToSet(obj.progs[p]) /\ fs[path] = None
UnpinnableProgram(p, path) == obj.progs[p] # <<>> /\ fs[path] # None

(* bpf_object__pin_programs: it is all or nothing, except that unpinning  *)
(* on the way back may fail.  When it fails inside bpf_object__pin the maps *)
(* are unpinned.                                                            *)
PinPrograms ==
  /\ pc.op = "pinprogs"
  /\ LET path(p) == ProgPath(pc.dir, p)
         bad == {p \in DOMAIN Instances : ~PinnableProgram(p, path(p))}
         failed == IF pc.call = "pin" THEN Goto("unpinmaps", 1) ELSE Return("pin")
     IN  \/ /\ bad = {}
            /\ fs' = [x \in Paths |-> IF \E p \in DOMAIN Instances : x = path(p) THEN "prog" ELSE fs[x]]
            /\ Return(OK) /\ UNCHANGED <<faults, stuck>>
         \/ /\ bad # {} /\ failed /\ UNCHANGED <<fs, faults, stuck>>
         \/ /\ Fault(1) /\ failed /\ UNCHANGED <<fs, stuck>>
         \/ /\ \E p \in DOMAIN Instances \ bad :
                 /\ Fault(IF \E q \in bad : q > p THEN 1 ELSE 2)
                 /\ fs' = [fs EXCEPT ![path(p)] = "prog"]
            /\ failed /\ stuck' = TRUE
  /\ UNCHANGED <<obj, proc, calls, others, before, touched>>

PinProgramsCall(dir) ==
  /\ obj.st = "open" /\ Enter("pin_programs", IF obj.loaded THEN "pinprogs" ELSE "notloaded", dir)
  /\ UNCHANGED <<obj, proc, fs, faults, others>>

(* bpf_object__unpin_maps stops at the first error; inside bpf_object__pin  *)
(* its result is dropped.                                                   *)
UnpinCall(dir) ==
  /\ obj.st = "open" /\ Enter("unpin_maps", "unpinmaps", dir)
  /\ UNCHANGED <<obj, proc, fs, faults, others>>
UnpinMaps ==
  /\ pc.op = "unpinmaps"
  /\ IF pc.i > Len(obj.maps)
       THEN Return(IF pc.call = "pin" THEN "pin" ELSE OK) /\ UNCHANGED <<obj, fs, faults, stuck>>
       ELSE IF pc.dir = None /\ obj.maps[pc.i].pin_path = NoPath
       THEN Goto("unpinmaps", pc.i + 1) /\ UNCHANGED <<obj, fs, faults, stuck>>
       ELSE \E r \in Unpin(obj.maps[pc.i], Wanted(pc.i)) :
              /\ Fault(r.faults) /\ fs' = r.fs /\ obj' = [obj EXCEPT !.maps[pc.i] = r.m]
              /\ IF r.err = OK THEN Goto("unpinmaps", pc.i + 1) ELSE Return(r.err)
              /\ stuck' = (stuck \/ r.err # OK)
  /\ UNCHANGED <<proc, calls, others, before, touched>>

(* bpf_object__unpin_programs: up to the first program that is not pinned.  *)
UnpinProgramsCall(dir) ==
  /\ obj.st = "open" /\ Enter("unpin_programs", "unpinprogs", dir)
  /\ UNCHANGED <<obj, proc, fs, faults, others>>
UnpinPrograms ==
  /\ pc.op = "unpinprogs"
  /\ LET path(p) == ProgPath(pc.dir, p)
         gone == {p \in DOMAIN Instances : ~UnpinnableProgram(p, path(p))}
         first == IF gone = {} THEN Len(Instances) ELSE (CHOOSE p \in gone : \A q \in gone : p <= q) - 1
     IN  \E n \in 0 .. first :
           /\ fs' = [x \in Paths |-> IF \E p \in 1 .. n : x = path(p) THEN None ELSE fs[x]]
           /\ Fault(IF n < first THEN 1 ELSE 0)
           /\ stuck' = (stuck \/ n < Len(Instances))
           /\ Return(IF n = Len(Instances) THEN OK ELSE "unpin")
  /\ UNCHANGED <<obj, proc, calls, others, before, touched>>

(* reuse_maps of common_user_bpf_xdp.c: every map is taken from the         *)
(* directory, before the load; pinned_map_fd is never closed, and an error  *)
(* in the middle leaves the earlier maps reused.                            *)
ReuseMapsCall(dir) ==
  /\ obj.st = "open" /\ ~obj.loaded /\ Enter("reuse_maps", "reusemaps", dir)
  /\ UNCHANGED <<obj, proc, fs, faults, others>>
ReuseMapsStep ==
  /\ pc.op = "reusemaps"
  /\ IF pc.i > Len(obj.maps) THEN Return(OK) /\ UNCHANGED <<obj, proc, faults>>
     ELSE IF fs[Wanted(pc.i)] = None THEN Return("ENOENT") /\ UNCHANGED <<obj, proc, faults>>
     ELSE \E r \in ReuseFd(Leak(proc, fs[Wanted(pc.i)]), obj.maps[pc.i], Lowest(proc)) :
            /\ proc' = r.p /\ obj' = [obj EXCEPT !.maps[pc.i] = r.m]
            /\ IF r.err = OK THEN Goto("reusemaps", pc.i + 1) /\ UNCHANGED faults
               ELSE Return(r.err) /\ Fault(1)
  /\ UNCHANGED <<fs, calls, others, before, touched, stuck>>

(* bpf_object__unload and bpf_object__close called by the application.      *)
UnloadCall ==
  /\ obj.st = "open" /\ Enter("unload", "idle", None)
  /\ proc' = Unload(proc, obj) /\ obj' = Unloaded(obj)
  /\ UNCHANGED <<fs, faults, others>>
CloseCall ==
  /\ obj.st = "open" /\ pc.op = "idle"
  /\ pc' = [pc EXCEPT !.call = "close", !.err = OK]
  /\ proc' = Unload(proc, obj) /\ obj' = Closed
  /\ UNCHANGED <<fs, faults, calls, others, before, touched, stuck>>
-----------------------------------------------------------------------------
(* Another process pins or unlinks a map in the same directory.             *)
OtherPin(path, what) ==
  /\ others < MaxOther /\ others' = others + 1
  /\ fs' = [fs EXCEPT ![path] = IF @ = None THEN what ELSE None]
  /\ touched' = touched \cup {path}
  /\ UNCHANGED <<pc, obj, proc, faults, calls, before, stuck>>

Internal ==
  \/ Opened \/ LoadTwice \/ ReuseMap \/ CreateMap \/ AutoPin \/ LoadPrograms \/ UndoLoad
  \/ NotLoaded \/ PinMap \/ UnpinBack \/ PinPrograms \/ UnpinMaps \/ UnpinPrograms
  \/ ReuseMapsStep

ObjInit ==
  /\ pc = [op |-> "idle", call |-> "", i |-> 0, dir |-> None, err |-> OK]
  /\ obj = [Closed EXCEPT !.st = "none"]
  /\ proc = [fds |-> [fd \in 1 .. MaxFds |-> Free], bad |-> FALSE, leaked |-> {}]
  /\ fs = [x \in Paths |-> None]
  /\ faults = 0 /\ calls = 0 /\ others = 0
  /\ before = fs /\ touched = {} /\ stuck = FALSE

ApiNext ==
  \/ Internal
  \/ \E shape \in MapShapes : Open(shape)
  \/ LoadCall
  \/ \E dir \in Dirs \cup {None} : PinCall("pin_maps", dir) \/ UnpinCall(dir)
  \/ \E dir \in Dirs : PinCall("pin", dir) \/ PinProgramsCall(dir) \/ UnpinProgramsCall(dir)
                         \/ ReuseMapsCall(dir)
  \/ UnloadCall \/ CloseCall
  \/ \E path \in MapPaths, what \in {"compat", "other"} : OtherPin(path, what)
-----------------------------------------------------------------------------
(* Between two calls the open descriptors of the process are exactly those  *)
(* the object holds and the ones known to be lost (pin_fd of a reused map,  *)
(* the reserved number when dup3 fails, the file when elf_begin fails), no  *)
(* two maps or programs share one, and none was closed twice: whatever      *)
(* failed, in a load, a pin or a reuse.                                     *)
DescriptorsExact ==
  pc.op = "idle" =>
    /\ ~proc.bad
    /\ {fd \in 1 .. MaxFds : proc.fds[fd] # Free} = Reachable \cup proc.leaked
    /\ Reachable \cap proc.leaked = {}
    /\ LET held == SelectSeq(MapFds(obj.maps) \o ProgFds(obj.progs), LAMBDA fd : fd # NoFd)
       IN  Cardinality(Reachable) = Len(held)

(* A load that fails leaves the BPF file system as it found it: the maps it *)
(* pinned are unpinned, and those it only reused stay.  A failing pin call  *)
(* leaves no pin of its own behind.  Paths another process changed in the   *)
(* meantime and an unlink that itself failed are excepted, and a map that a *)
(* load created and pinned although an earlier reuse, ended by an unload,   *)
(* had marked it as reused: nothing takes the mark off.                     *)
FailedCallUndone ==
  pc.op = "idle" /\ pc.err # OK /\ ~stuck =>
    \A x \in Paths \ touched :
      \/ fs[x] = before[x]
      \/ pc.call \in {"pin_maps", "pin", "unpin_maps"} /\ fs[x] = None
      \/ /\ pc.call = "load" /\ before[x] = None
         /\ \E i \in DOMAIN obj.maps :
              obj.maps[i].pin_path = x /\ obj.maps[i].pinned /\ obj.maps[i].reused
=============================================================================
