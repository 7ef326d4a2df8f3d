-------------------------- MODULE MeasureMain_proofs ------------------------
(***************************************************************************)
(* The measuring program and the library it loads its program with: proofs.  *)
(* Failing library calls undo what they did to the BPF file system, for both *)
(* clients of BpfObject, the one that makes the calls in any order and main, *)
(* which may be interrupted and killed between any two steps; main's own     *)
(* program is the one attached; a successful run leaves nothing attached.    *)
(***************************************************************************)
EXTENDS MeasureMain, WellFoundedInduction, FiniteSetTheorems, TLAPS

-----------------------------------------------------------------------------
(* The inductive invariant                                                  *)

IsSequence(s) == s \in Seq(ToSet(s))
MapFields == {"type", "btf", "pin_path", "fd", "pinned", "reused"}
LoadOps == {"reuse", "create", "autopin", "undo"}

(* The shape of the structures, and which call each step belongs to.        *)
ShapeInv ==
  /\ DOMAIN pc = {"op", "call", "i", "dir", "err"} /\ pc.i \in Nat
  /\ DOMAIN obj = {"st", "loaded", "maps", "progs"}
  /\ IsSequence(obj.maps)
  /\ \A i \in DOMAIN obj.maps : DOMAIN obj.maps[i] = MapFields
  /\ DOMAIN fs = Paths
  /\ pc.op \in LoadOps => pc.call = "load"
  /\ pc.op \in {"pinmaps", "unpinback"} => pc.call \in {"pin_maps", "pin"}
  /\ pc.op = "pinprogs" => pc.call \in {"pin", "pin_programs"}
  /\ pc.op = "unpinmaps" => pc.call \in {"pin", "unpin_maps"}
  /\ pc.op \in LoadOps \cup {"pinmaps", "unpinmaps", "reusemaps"} => pc.i >= 1
  /\ pc.op \in {"create", "autopin", "unpinback"} => pc.i <= Len(obj.maps)

(* Only a load and the pin calls, which need a load before them, pin a map. *)
PinnedInv ==
  /\ pc.op \in LoadOps \cup {"pinmaps"} => obj.loaded
  /\ ~obj.loaded => \A i \in DOMAIN obj.maps : ~obj.maps[i].pinned

Same(x) == fs[x] = before[x]
Gone(x) == fs[x] = None
PathIs(i, x) == obj.maps[i].pin_path = x

(* These steps come before the first change of a path.                      *)
UnchangedInv ==
  (\/ pc.op \in {"opening", "twice", "notloaded", "reusemaps"}
   \/ pc.op = "pinprogs" /\ pc.call = "pin_programs") =>
    \A x \in Paths \ touched : Same(x)

(* During a load: a path that changed was empty and is that of a map that   *)
(* is now pinned.  What UndoLoad has passed is not pinned by this load.     *)
LoadInv ==
  pc.op \in LoadOps =>
    /\ \A x \in Paths \ touched :
         \/ Same(x)
         \/ before[x] = None /\ \E i \in DOMAIN obj.maps : PathIs(i, x) /\ obj.maps[i].pinned
    /\ \A x \in Paths \ touched, i \in DOMAIN obj.maps :
         PathIs(i, x) /\ UndoPin(obj.maps[i]) => before[x] = None
    /\ pc.op = "undo" /\ ~stuck => \A i \in 1 .. pc.i - 1 : ~UndoPin(obj.maps[i])

(* During a pin call: a path with a new pin is that of a map the call has   *)
(* been at, and on the way back of one that it has still to come to.        *)
PinInv ==
  ~stuck => \A x \in Paths \ touched :
    /\ pc.op = "pinmaps" => Same(x) \/ Gone(x) \/ \E j \in 1 .. pc.i - 1 :
                              j \in DOMAIN obj.maps /\ PathIs(j, x)
    /\ pc.op = "unpinback" => Same(x) \/ Gone(x) \/ \E j \in 1 .. pc.i : PathIs(j, x)
    /\ pc.op = "pinprogs" => Same(x) \/ Gone(x) \/ \E j \in DOMAIN obj.maps : PathIs(j, x)
    /\ pc.op = "unpinmaps" => Same(x) \/ Gone(x) \/ \E j \in DOMAIN obj.maps :
                                j >= pc.i /\ PathIs(j, x)

UndoInv == ShapeInv /\ PinnedInv /\ UnchangedInv /\ LoadInv /\ PinInv /\ FailedCallUndone

-----------------------------------------------------------------------------
(* Sequences, records and paths                                             *)

(* The domain and the length of a sequence.                                 *)
LEMMA SeqFacts ==
  ASSUME NEW s, IsSequence(s)
  PROVE  Len(s) \in Nat /\ DOMAIN s = 1 .. Len(s)
  BY DEF IsSequence

(* A sequence is one of its own elements.                                   *)
LEMMA OwnElements ==
  ASSUME NEW S, NEW s \in Seq(S)
  PROVE  IsSequence(s)
  <1>1. Len(s) \in Nat /\ s \in [1 .. Len(s) -> ToSet(s)]
    BY DEF ToSet
  <1> QED
    BY <1>1 DEF IsSequence

(* What has the domain of a sequence is one, of the same length.            *)
LEMMA SeqSame ==
  ASSUME NEW s, IsSequence(s), NEW t, t = [i \in DOMAIN s |-> t[i]]
  PROVE  IsSequence(t) /\ Len(t) = Len(s) /\ DOMAIN t = DOMAIN s
  <1>1. Len(s) \in Nat /\ DOMAIN s = 1 .. Len(s)
    BY SeqFacts
  <1>2. DOMAIN t = 1 .. Len(s) /\ t \in [1 .. Len(s) -> ToSet(t)]
    BY <1>1 DEF ToSet
  <1>3. t \in Seq(ToSet(t))
    BY <1>1, <1>2
  <1> QED
    BY <1>1, <1>2, <1>3 DEF IsSequence

(* Goto moves the program counter and leaves the call alone.                *)
LEMMA GotoFacts ==
  ASSUME ShapeInv, NEW op, NEW i, Goto(op, i)
  PROVE  /\ DOMAIN pc' = DOMAIN pc /\ pc'.op = op /\ pc'.i = i
         /\ pc'.call = pc.call /\ pc'.dir = pc.dir /\ pc'.err = pc.err
  BY DEF ShapeInv, Goto

(* Return ends the call and keeps its error.                                *)
LEMMA ReturnFacts ==
  ASSUME ShapeInv, NEW err, Return(err)
  PROVE  /\ DOMAIN pc' = DOMAIN pc /\ pc'.op = "idle" /\ pc'.i = 0
         /\ pc'.call = pc.call /\ pc'.dir = pc.dir /\ pc'.err = err
  BY DEF ShapeInv, Return

(* One map is replaced.                                                     *)
LEMMA MapReplaced ==
  ASSUME ShapeInv, NEW i \in DOMAIN obj.maps, NEW m, DOMAIN m = MapFields,
         obj' = [obj EXCEPT !.maps[i] = m]
  PROVE  /\ DOMAIN obj' = DOMAIN obj /\ obj'.loaded = obj.loaded
         /\ IsSequence(obj'.maps) /\ Len(obj'.maps) = Len(obj.maps)
         /\ DOMAIN obj'.maps = DOMAIN obj.maps
         /\ obj'.maps[i] = m /\ \A j \in DOMAIN obj.maps : j # i => obj'.maps[j] = obj.maps[j]
         /\ \A j \in DOMAIN obj.maps : DOMAIN obj'.maps[j] = MapFields
  <1>1. DOMAIN obj = {"st", "loaded", "maps", "progs"}
    BY DEF ShapeInv
  <1>2. /\ DOMAIN obj' = DOMAIN obj /\ obj'.loaded = obj.loaded
        /\ obj'.maps = [obj.maps EXCEPT ![i] = m]
    BY <1>1
  <1>3. obj'.maps = [j \in DOMAIN obj.maps |-> obj'.maps[j]]
    BY <1>2
  <1>4. IsSequence(obj'.maps) /\ Len(obj'.maps) = Len(obj.maps)
        /\ DOMAIN obj'.maps = DOMAIN obj.maps
    BY <1>3, SeqSame DEF ShapeInv
  <1>5. obj'.maps[i] = m /\ \A j \in DOMAIN obj.maps : j # i => obj'.maps[j] = obj.maps[j]
    BY <1>2
  <1> QED
    BY <1>2, <1>4, <1>5 DEF ShapeInv

(* What the file system is about stays the same in every map.               *)
MapsKept ==
  /\ DOMAIN obj' = DOMAIN obj /\ obj'.loaded = obj.loaded
  /\ IsSequence(obj'.maps) /\ Len(obj'.maps) = Len(obj.maps)
  /\ DOMAIN obj'.maps = DOMAIN obj.maps
  /\ \A j \in DOMAIN obj.maps :
       /\ DOMAIN obj'.maps[j] = MapFields
       /\ obj'.maps[j].pin_path = obj.maps[j].pin_path
       /\ obj'.maps[j].pinned = obj.maps[j].pinned
       /\ obj'.maps[j].reused = obj.maps[j].reused

(* An object that does not change keeps them.                               *)
LEMMA UnchangedMapsKept ==
  ASSUME ShapeInv, obj' = obj
  PROVE  MapsKept
  BY DEF ShapeInv, MapsKept

(* The empty path is no path of the file system.                            *)
LEMMA NoPathOutside == NoPath \notin Paths
  BY DEF NoPath, Paths, MapPaths, MapPath, ProgPath

(* bpf_map__pin makes one path refer to the map, an empty one, or nothing.  *)
LEMMA PinResult ==
  ASSUME NEW m, DOMAIN m = MapFields, NEW path, NEW r \in Pin(m, path)
  PROVE  /\ DOMAIN r.m = MapFields /\ r.m.reused = m.reused
         /\ r.m.pin_path = m.pin_path \/ (m.pin_path = NoPath /\ r.m.pin_path = path)
         /\ \/ r.fs = fs /\ r.m.pinned = m.pinned
            \/ /\ r.m.pinned /\ r.err = OK /\ fs[r.m.pin_path] = None
               /\ ~m.pinned
               /\ \E v : r.fs = [fs EXCEPT ![r.m.pin_path] = v]
  <1> DEFINE at == IF m.pin_path # NoPath THEN m.pin_path ELSE path
             named == [m EXCEPT !.pin_path = at]
  <1>1. /\ DOMAIN named = MapFields /\ named.reused = m.reused
        /\ named.pinned = m.pinned /\ named.pin_path = at
    BY DEF MapFields
  <1>2. /\ DOMAIN [named EXCEPT !.pinned = TRUE] = MapFields
        /\ [named EXCEPT !.pinned = TRUE].reused = m.reused
        /\ [named EXCEPT !.pinned = TRUE].pinned = TRUE
        /\ [named EXCEPT !.pinned = TRUE].pin_path = at
    BY <1>1 DEF MapFields
  <1>3. \/ r.m = m /\ r.fs = fs
        \/ r.m = named /\ r.fs = fs
        \/ /\ r.m = [named EXCEPT !.pinned = TRUE] /\ r.err = OK /\ fs[at] = None
           /\ ~m.pinned /\ r.fs = [fs EXCEPT ![at] = proc.fds[m.fd]]
    <2> DEFINE pinnedm == [named EXCEPT !.pinned = TRUE]
               newfs == [fs EXCEPT ![at] = proc.fds[m.fd]]
               Is(m2, f, e) == {[m |-> m2, fs |-> f, err |-> e, faults |-> 0]}
               some == [m |-> named, fs |-> fs, err |-> "mkdir, statfs or pin", faults |-> 1]
    <2>1. r \in IF at = NoPath \/ (path # NoPath /\ path # at) THEN Is(m, fs, "EINVAL")
               ELSE IF m.pinned THEN Is(m, fs, IF m.pin_path # NoPath THEN OK ELSE "EEXIST")
               ELSE {some} \cup (IF m.fd = NoFd THEN Is(named, fs, "EBADF")
                               ELSE IF fs[at] # None THEN Is(named, fs, "EEXIST")
                               ELSE Is(pinnedm, newfs, OK))
      BY DEF Pin
    <2> HIDE DEF named, at, pinnedm, newfs
    <2>2. \/ r.m = m /\ r.fs = fs
          \/ r.m = named /\ r.fs = fs
          \/ r.m = pinnedm /\ r.err = OK /\ fs[at] = None /\ ~m.pinned /\ r.fs = newfs
      <3>1. CASE r = some
        BY <3>1
      <3>2. CASE r # some
        <4>1. \/ \E e : r = [m |-> m, fs |-> fs, err |-> e, faults |-> 0]
              \/ \E e : r = [m |-> named, fs |-> fs, err |-> e, faults |-> 0]
              \/ /\ r = [m |-> pinnedm, fs |-> newfs, err |-> OK, faults |-> 0]
                 /\ fs[at] = None /\ ~m.pinned
          <5> HIDE DEF some
          <5> QED
            BY <2>1, <3>2
        <4> QED
          BY <4>1
      <3> QED
        BY <3>1, <3>2
    <2> QED
      BY <2>2 DEF pinnedm, newfs
  <1>4. at = m.pin_path \/ (m.pin_path = NoPath /\ at = path)
    OBVIOUS
  <1>5. CASE r.m = m /\ r.fs = fs
    BY <1>5
  <1>6. CASE r.m = named /\ r.fs = fs
    BY <1>1, <1>4, <1>6
  <1>7. CASE /\ r.m = [named EXCEPT !.pinned = TRUE] /\ r.err = OK /\ fs[at] = None
             /\ ~m.pinned /\ r.fs = [fs EXCEPT ![at] = proc.fds[m.fd]]
    <2> HIDE DEF named, at
    <2>1. \E v : r.fs = [fs EXCEPT ![r.m.pin_path] = v]
      BY <1>2, <1>7
    <2> QED
      BY <1>2, <1>4, <1>7, <2>1
  <1> QED
    BY <1>3, <1>5, <1>6, <1>7

(* bpf_map__unpin empties one path, or changes nothing and says so.         *)
LEMMA UnpinResult ==
  ASSUME NEW m, DOMAIN m = MapFields, NEW path, NEW r \in Unpin(m, path)
  PROVE  /\ DOMAIN r.m = MapFields /\ r.m.reused = m.reused /\ r.m.pin_path = m.pin_path
         /\ \/ r.err # OK /\ r.m = m /\ r.fs = fs
            \/ /\ r.err = OK /\ ~r.m.pinned
               /\ \E at : /\ at = IF m.pin_path # NoPath THEN m.pin_path ELSE path
                          /\ r.fs = [fs EXCEPT ![at] = None]
  <1> DEFINE at == IF m.pin_path # NoPath THEN m.pin_path ELSE path
             free == [m EXCEPT !.pinned = FALSE]
  <1>1. /\ DOMAIN free = MapFields /\ free.reused = m.reused
        /\ free.pinned = FALSE /\ free.pin_path = m.pin_path
    BY DEF MapFields
  <1>2. \/ r.err # OK /\ r.m = m /\ r.fs = fs
        \/ r.err = OK /\ r.m = free /\ r.fs = [fs EXCEPT ![at] = None]
    <2> DEFINE newfs == [fs EXCEPT ![at] = None]
               Is(m2, f, e) == {[m |-> m2, fs |-> f, err |-> e, faults |-> 0]}
    <2>1. r \in IF at = NoPath \/ (path # NoPath /\ path # at) THEN Is(m, fs, "EINVAL")
               ELSE {[m |-> m, fs |-> fs, err |-> "statfs or unlink", faults |-> 1]}
                    \cup (IF fs[at] = None THEN Is(m, fs, "ENOENT") ELSE Is(free, newfs, OK))
      BY DEF Unpin
    <2> HIDE DEF at, free, newfs
    <2>2. \/ r.err # OK /\ r.m = m /\ r.fs = fs
          \/ r.err = OK /\ r.m = free /\ r.fs = newfs
      <3>1. \/ r = [m |-> m, fs |-> fs, err |-> "EINVAL", faults |-> 0]
            \/ r = [m |-> m, fs |-> fs, err |-> "statfs or unlink", faults |-> 1]
            \/ r = [m |-> m, fs |-> fs, err |-> "ENOENT", faults |-> 0]
            \/ r = [m |-> free, fs |-> newfs, err |-> OK, faults |-> 0]
        BY <2>1, Zenon
      <3>2. CASE r = [m |-> m, fs |-> fs, err |-> "EINVAL", faults |-> 0]
        BY <3>2 DEF OK
      <3>3. CASE r = [m |-> m, fs |-> fs, err |-> "statfs or unlink", faults |-> 1]
        BY <3>3 DEF OK
      <3>4. CASE r = [m |-> m, fs |-> fs, err |-> "ENOENT", faults |-> 0]
        BY <3>4 DEF OK
      <3>5. CASE r = [m |-> free, fs |-> newfs, err |-> OK, faults |-> 0]
        BY <3>5
      <3> QED
        BY <3>1, <3>2, <3>3, <3>4, <3>5
    <2> QED
      BY <2>2 DEF newfs
  <1>3. CASE r.err # OK /\ r.m = m /\ r.fs = fs
    BY <1>3
  <1>4. CASE r.err = OK /\ r.m = free /\ r.fs = [fs EXCEPT ![at] = None]
    <2> HIDE DEF free
    <2> QED
      BY <1>1, <1>4
  <1> QED
    BY <1>2, <1>3, <1>4

(* A file system that changed at one place.                                 *)
LEMMA FsAt ==
  ASSUME ShapeInv, NEW at, NEW v, fs' = [fs EXCEPT ![at] = v]
  PROVE  /\ DOMAIN fs' = Paths
         /\ \A x \in Paths : IF x = at THEN fs'[x] = v ELSE fs'[x] = fs[x]
  BY DEF ShapeInv

-----------------------------------------------------------------------------
(* The beginning of a call                                                  *)

(* A call starts with nothing changed and no error.                         *)
LEMMA EnterFacts ==
  ASSUME NEW call, NEW op, NEW dir, Enter(call, op, dir), fs' = fs
  PROVE  /\ DOMAIN pc' = {"op", "call", "i", "dir", "err"}
         /\ pc'.op = op /\ pc'.call = call /\ pc'.i = 1 /\ pc'.dir = dir /\ pc'.err = OK
         /\ before' = fs' /\ UnchangedInv' /\ PinInv' /\ FailedCallUndone'
  <1>1. /\ DOMAIN pc' = {"op", "call", "i", "dir", "err"}
        /\ pc'.op = op /\ pc'.call = call /\ pc'.i = 1 /\ pc'.dir = dir /\ pc'.err = OK
        /\ before' = fs'
    BY DEF Enter
  <1>2. \A x : Same(x)'
    BY <1>1 DEF Same
  <1>3. UnchangedInv' /\ PinInv'
    BY <1>2 DEF UnchangedInv, PinInv
  <1>4. FailedCallUndone'
    BY <1>1 DEF FailedCallUndone
  <1> QED
    BY <1>1, <1>3, <1>4

(* The calls other than open and load leave the maps as they are.           *)
LEMMA EnterKept ==
  ASSUME UndoInv, NEW call, NEW op, NEW dir, Enter(call, op, dir), fs' = fs, MapsKept,
         \/ op \in {"idle", "notloaded", "unpinprogs", "reusemaps"}
         \/ op = "pinmaps" /\ call \in {"pin_maps", "pin"} /\ obj.loaded
         \/ op = "pinprogs" /\ call = "pin_programs"
         \/ op = "unpinmaps" /\ call = "unpin_maps"
  PROVE  UndoInv'
  <1>1. /\ DOMAIN pc' = {"op", "call", "i", "dir", "err"}
        /\ pc'.op = op /\ pc'.call = call /\ pc'.i = 1
        /\ UnchangedInv' /\ PinInv' /\ FailedCallUndone'
    BY EnterFacts
  <1>2. ShapeInv'
    BY <1>1 DEF UndoInv, ShapeInv, MapsKept, LoadOps
  <1>3. PinnedInv'
    BY <1>1 DEF UndoInv, PinnedInv, MapsKept, LoadOps
  <1>4. LoadInv'
    BY <1>1 DEF LoadInv, LoadOps
  <1> QED
    BY <1>1, <1>2, <1>3, <1>4 DEF UndoInv

(* bpf_object__unload closes descriptors and leaves the rest of a map.      *)
LEMMA UnloadedKept ==
  ASSUME ShapeInv, obj' = Unloaded(obj)
  PROVE  MapsKept
  <1>1. DOMAIN obj = {"st", "loaded", "maps", "progs"}
    BY DEF ShapeInv
  <1>2. /\ DOMAIN obj' = DOMAIN obj /\ obj'.loaded = obj.loaded
        /\ obj'.maps = [i \in DOMAIN obj.maps |-> [obj.maps[i] EXCEPT !.fd = NoFd]]
    BY <1>1 DEF Unloaded
  <1>3. /\ IsSequence(obj'.maps) /\ Len(obj'.maps) = Len(obj.maps)
        /\ DOMAIN obj'.maps = DOMAIN obj.maps
    BY <1>2, SeqSame DEF ShapeInv
  <1>4. ASSUME NEW j \in DOMAIN obj.maps
        PROVE  /\ DOMAIN obj'.maps[j] = MapFields
               /\ obj'.maps[j].pin_path = obj.maps[j].pin_path
               /\ obj'.maps[j].pinned = obj.maps[j].pinned
               /\ obj'.maps[j].reused = obj.maps[j].reused
    <2>1. DOMAIN obj.maps[j] = MapFields /\ obj'.maps[j] = [obj.maps[j] EXCEPT !.fd = NoFd]
      BY <1>2 DEF ShapeInv
    <2> QED
      BY <2>1 DEF MapFields
  <1> QED
    BY <1>2, <1>3, <1>4 DEF MapsKept

(* The calls that start with the maps as they are.                          *)
LEMMA OtherCalls ==
  ASSUME UndoInv,
         \/ \E dir : \/ PinCall("pin_maps", dir) \/ PinCall("pin", dir) \/ UnpinCall(dir)
                     \/ PinProgramsCall(dir) \/ UnpinProgramsCall(dir) \/ ReuseMapsCall(dir)
         \/ UnloadCall
  PROVE  UndoInv'
  <1>0. ShapeInv
    BY DEF UndoInv
  <1>1. CASE UnloadCall
    BY <1>0, <1>1, UnloadedKept, EnterKept DEF UnloadCall
  <1>2. ASSUME NEW dir, PinCall("pin_maps", dir) PROVE UndoInv'
    BY <1>0, <1>2, UnchangedMapsKept, EnterKept DEF PinCall
  <1>3. ASSUME NEW dir, PinCall("pin", dir) PROVE UndoInv'
    BY <1>0, <1>3, UnchangedMapsKept, EnterKept DEF PinCall
  <1>4. ASSUME NEW dir, UnpinCall(dir) PROVE UndoInv'
    BY <1>0, <1>4, UnchangedMapsKept, EnterKept DEF UnpinCall
  <1>5. ASSUME NEW dir, PinProgramsCall(dir) PROVE UndoInv'
    BY <1>0, <1>5, UnchangedMapsKept, EnterKept DEF PinProgramsCall
  <1>6. ASSUME NEW dir, UnpinProgramsCall(dir) PROVE UndoInv'
    BY <1>0, <1>6, UnchangedMapsKept, EnterKept DEF UnpinProgramsCall
  <1>7. ASSUME NEW dir, ReuseMapsCall(dir) PROVE UndoInv'
    BY <1>0, <1>7, UnchangedMapsKept, EnterKept DEF ReuseMapsCall
  <1> QED
    BY <1>1, <1>2, <1>3, <1>4, <1>5, <1>6, <1>7

(* A first load finds no map pinned.                                        *)
LEMMA LoadCallStep ==
  ASSUME UndoInv, LoadCall
  PROVE  UndoInv'
  <1> DEFINE op == IF obj.loaded THEN "twice" ELSE "reuse"
  <1>0. ShapeInv /\ PinnedInv /\ Enter("load", op, None) /\ fs' = fs
    BY DEF UndoInv, LoadCall
  <1>1. /\ DOMAIN pc' = {"op", "call", "i", "dir", "err"}
        /\ pc'.op = op /\ pc'.call = "load" /\ pc'.i = 1
        /\ before' = fs' /\ UnchangedInv' /\ PinInv' /\ FailedCallUndone'
    BY <1>0, EnterFacts
  <1>2. obj'.loaded = TRUE /\ obj'.maps = obj.maps /\ DOMAIN obj' = DOMAIN obj
    BY <1>0 DEF LoadCall, ShapeInv
  <1>3. ShapeInv'
    BY <1>0, <1>1, <1>2 DEF ShapeInv, LoadOps
  <1>4. PinnedInv'
    BY <1>2 DEF PinnedInv
  <1>5. LoadInv'
    <2>1. CASE obj.loaded
      BY <1>1, <2>1 DEF LoadInv, LoadOps
    <2>2. CASE ~obj.loaded
      <3>1. \A i \in DOMAIN obj'.maps : ~UndoPin(obj'.maps[i])
        BY <1>0, <1>2, <2>2 DEF PinnedInv, UndoPin
      <3>2. \A x : Same(x)'
        BY <1>1 DEF Same
      <3>3. pc'.op # "undo"
        BY <1>1
      <3> QED
        BY <3>1, <3>2, <3>3 DEF LoadInv
    <2> QED
      BY <2>1, <2>2
  <1> QED
    BY <1>1, <1>3, <1>4, <1>5 DEF UndoInv

(* An opened object has the maps of the file, none of them pinned.          *)
LEMMA OpenStep ==
  ASSUME UndoInv, NEW shape, IsSequence(shape), Open(shape)
  PROVE  UndoInv'
  <1>0. ShapeInv /\ Enter("open", "opening", None) /\ fs' = fs
    BY DEF UndoInv, Open
  <1>1. /\ DOMAIN pc' = {"op", "call", "i", "dir", "err"}
        /\ pc'.op = "opening" /\ pc'.i = 1
        /\ UnchangedInv' /\ PinInv' /\ FailedCallUndone'
    BY <1>0, EnterFacts
  <1>2. /\ DOMAIN obj' = DOMAIN obj /\ IsSequence(obj'.maps)
        /\ \A i \in DOMAIN obj'.maps : DOMAIN obj'.maps[i] = MapFields /\ ~obj'.maps[i].pinned
    <2>1. CASE obj' = Closed
      BY <1>0, <2>1 DEF Closed, ShapeInv, IsSequence
    <2>2. CASE obj' = [obj EXCEPT !.st = "open", !.maps = [i \in DOMAIN shape |-> NewMap(shape[i])]]
      <3>1. /\ DOMAIN obj' = DOMAIN obj
            /\ obj'.maps = [i \in DOMAIN shape |-> NewMap(shape[i])]
        BY <1>0, <2>2 DEF ShapeInv
      <3>2. IsSequence(obj'.maps)
        BY <3>1, SeqSame
      <3>3. \A i \in DOMAIN obj'.maps : DOMAIN obj'.maps[i] = MapFields /\ ~obj'.maps[i].pinned
        BY <3>1 DEF NewMap, MapFields
      <3> QED
        BY <3>1, <3>2, <3>3
    <2> QED
      BY <2>1, <2>2 DEF Open
  <1>3. ShapeInv'
    BY <1>0, <1>1, <1>2 DEF ShapeInv, LoadOps
  <1>4. PinnedInv' /\ LoadInv'
    BY <1>1, <1>2 DEF PinnedInv, LoadInv, LoadOps
  <1> QED
    BY <1>1, <1>3, <1>4 DEF UndoInv

(* Closing frees the object and touches no path.                            *)
LEMMA CloseStep ==
  ASSUME UndoInv, CloseCall
  PROVE  UndoInv'
  <1>0. ShapeInv
    BY DEF UndoInv
  <1>1. DOMAIN pc' = DOMAIN pc /\ pc'.op = "idle" /\ pc'.i = pc.i /\ pc'.err = OK
    BY <1>0 DEF CloseCall, ShapeInv
  <1>2. DOMAIN obj' = DOMAIN obj /\ obj'.maps = <<>> /\ fs' = fs
    BY <1>0 DEF CloseCall, Closed, ShapeInv
  <1>3. ShapeInv'
    BY <1>0, <1>1, <1>2 DEF ShapeInv, LoadOps, IsSequence
  <1>4. PinnedInv' /\ LoadInv' /\ UnchangedInv' /\ PinInv' /\ FailedCallUndone'
    BY <1>1, <1>2 DEF PinnedInv, LoadInv, LoadOps, UnchangedInv, PinInv, FailedCallUndone
  <1> QED
    BY <1>3, <1>4 DEF UndoInv
-----------------------------------------------------------------------------
(* Steps that change no path                                                *)

(* The end of a call, whatever it found.                                    *)
LEMMA ReturnStep ==
  ASSUME UndoInv, NEW err, Return(err), MapsKept, DOMAIN fs' = Paths,
         pc'.call = pc.call /\ err # OK => FailedCallUndone'
  PROVE  UndoInv'
  <1>1. DOMAIN pc' = DOMAIN pc /\ pc'.op = "idle" /\ pc'.i = 0 /\ pc'.call = pc.call /\ pc'.err = err
    BY ReturnFacts DEF UndoInv
  <1>2. ShapeInv'
    BY <1>1 DEF UndoInv, ShapeInv, MapsKept, LoadOps
  <1>3. PinnedInv'
    BY <1>1 DEF UndoInv, PinnedInv, MapsKept, LoadOps
  <1>4. UnchangedInv' /\ LoadInv' /\ PinInv'
    BY <1>1 DEF UnchangedInv, LoadInv, PinInv, LoadOps
  <1>5. FailedCallUndone'
    BY <1>1 DEF FailedCallUndone
  <1> QED
    BY <1>2, <1>3, <1>4, <1>5 DEF UndoInv

(* A call that changed no path returns.                                     *)
LEMMA ReturnUnchanged ==
  ASSUME UndoInv, NEW err, Return(err), MapsKept, UNCHANGED <<fs, before, touched>>,
         \A x \in Paths \ touched : Same(x)
  PROVE  UndoInv'
  <1>1. DOMAIN fs' = Paths
    BY DEF UndoInv, ShapeInv
  <1>2. FailedCallUndone'
    BY DEF FailedCallUndone, Same
  <1> QED
    BY <1>1, <1>2, ReturnStep

(* Calls that find nothing to do return at once.                            *)
LEMMA SimpleReturns ==
  ASSUME UndoInv, Opened \/ LoadTwice \/ NotLoaded
  PROVE  UndoInv'
  <1>1. pc.op \in {"opening", "twice", "notloaded"} /\ UNCHANGED <<obj, fs, before, touched>>
    BY DEF Opened, LoadTwice, NotLoaded
  <1>2. \E err : Return(err)
    BY DEF Opened, LoadTwice, NotLoaded
  <1>3. MapsKept
    BY <1>1, UnchangedMapsKept DEF UndoInv
  <1>4. \A x \in Paths \ touched : Same(x)
    BY <1>1 DEF UndoInv, UnchangedInv
  <1> QED
    BY <1>1, <1>2, <1>3, <1>4, ReturnUnchanged

(* bpf_map__reuse_fd marks the map as reused, or leaves it alone.           *)
LEMMA ReuseFdResult ==
  ASSUME NEW p, NEW m, DOMAIN m = MapFields, NEW fd, NEW r \in ReuseFd(p, m, fd)
  PROVE  \/ /\ r.err = OK /\ DOMAIN r.m = MapFields /\ r.m.reused = TRUE
            /\ r.m.pinned = m.pinned /\ r.m.pin_path = m.pin_path
         \/ r.err # OK /\ r.m = m
  <1> DEFINE kept == [m EXCEPT !.fd = Lowest(p), !.reused = TRUE]
  <1>1. /\ DOMAIN kept = MapFields /\ kept.reused = TRUE
        /\ kept.pinned = m.pinned /\ kept.pin_path = m.pin_path
    BY DEF MapFields
  <1>2. \/ \E q : r = [p |-> q, m |-> kept, err |-> OK]
        \/ r = [p |-> p, m |-> m, err |-> "info or open"]
        \/ \E q : r = [p |-> q, m |-> m, err |-> "dup3"]
    BY DEF ReuseFd
  <1> HIDE DEF kept
  <1>3. CASE \E q : r = [p |-> q, m |-> kept, err |-> OK]
    BY <1>1, <1>3
  <1>4. CASE r = [p |-> p, m |-> m, err |-> "info or open"]
    BY <1>4 DEF OK
  <1>5. CASE \E q : r = [p |-> q, m |-> m, err |-> "dup3"]
    BY <1>5 DEF OK
  <1> QED
    BY <1>2, <1>3, <1>4, <1>5

(* A map that replaces itself.                                              *)
LEMMA SelfReplacedKept ==
  ASSUME ShapeInv, NEW i \in DOMAIN obj.maps, NEW m, m = obj.maps[i],
         obj' = [obj EXCEPT !.maps[i] = m]
  PROVE  MapsKept
  <1>1. DOMAIN m = MapFields
    BY DEF ShapeInv
  <1> QED
    BY <1>1, MapReplaced DEF ShapeInv, MapsKept

(* reuse_maps takes descriptors and pins nothing.                           *)
LEMMA ReuseMapsSteps ==
  ASSUME UndoInv, ReuseMapsStep
  PROVE  UndoInv'
  <1> DEFINE i == pc.i
  <1>0. ShapeInv /\ pc.op = "reusemaps" /\ UNCHANGED <<fs, before, touched>> /\ i \in Nat
    BY DEF UndoInv, ReuseMapsStep, ShapeInv
  <1>1. \A x \in Paths \ touched : Same(x)
    BY <1>0 DEF UndoInv, UnchangedInv
  <1>2. CASE \E err : Return(err) /\ MapsKept
    BY <1>0, <1>1, <1>2, ReturnUnchanged
  <1>3. CASE /\ i <= Len(obj.maps) /\ ~(fs[Wanted(i)] = None)
    <2>1. Len(obj.maps) \in Nat /\ DOMAIN obj.maps = 1 .. Len(obj.maps)
      BY <1>0, SeqFacts DEF ShapeInv
    <2>2. PICK r \in ReuseFd(Leak(proc, fs[Wanted(i)]), obj.maps[i], Lowest(proc)) :
            /\ obj' = [obj EXCEPT !.maps[i] = r.m]
            /\ IF r.err = OK THEN Goto("reusemaps", i + 1) ELSE Return(r.err)
      <3>1. ~(i > Len(obj.maps))
        BY <1>0, <1>3, <2>1
      <3> QED
        BY <1>3, <3>1 DEF ReuseMapsStep
    <2>3. i \in DOMAIN obj.maps /\ DOMAIN obj.maps[i] = MapFields
      BY <1>0, <1>3, <2>1 DEF ShapeInv
    <2>4. \/ /\ r.err = OK /\ DOMAIN r.m = MapFields
             /\ r.m.pinned = obj.maps[i].pinned /\ r.m.pin_path = obj.maps[i].pin_path
          \/ r.err # OK /\ r.m = obj.maps[i]
      <3> DEFINE m == obj.maps[i]
                 p == Leak(proc, fs[Wanted(i)])
                 fd == Lowest(proc)
      <3>1. r \in ReuseFd(p, m, fd) /\ DOMAIN m = MapFields
        BY <2>3
      <3> HIDE DEF m, p, fd
      <3>2. \/ /\ r.err = OK /\ DOMAIN r.m = MapFields
               /\ r.m.pinned = m.pinned /\ r.m.pin_path = m.pin_path
            \/ r.err # OK /\ r.m = m
        BY <3>1, ReuseFdResult
      <3> QED
        BY <3>2 DEF m
    <2>5. CASE r.err # OK
      <3>1. r.m = obj.maps[i]
        BY <2>4, <2>5
      <3> QED
        BY <1>0, <1>2, <2>2, <2>3, <2>5, <3>1, SelfReplacedKept
    <2>6. CASE r.err = OK
      <3>1. /\ DOMAIN r.m = MapFields
            /\ r.m.pinned = obj.maps[i].pinned /\ r.m.pin_path = obj.maps[i].pin_path
        BY <2>4, <2>6
      <3>2. /\ DOMAIN pc' = DOMAIN pc /\ pc'.op = "reusemaps" /\ pc'.i = i + 1
            /\ pc'.call = pc.call
        BY <1>0, <2>2, <2>6, GotoFacts
      <3>3. /\ DOMAIN obj' = DOMAIN obj /\ obj'.loaded = obj.loaded
            /\ IsSequence(obj'.maps) /\ DOMAIN obj'.maps = DOMAIN obj.maps
            /\ obj'.maps[i] = r.m
            /\ \A j \in DOMAIN obj.maps : j # i => obj'.maps[j] = obj.maps[j]
            /\ \A j \in DOMAIN obj.maps : DOMAIN obj'.maps[j] = MapFields
        BY <1>0, <2>2, <2>3, <3>1, MapReplaced
      <3>4. ShapeInv'
        BY <1>0, <3>2, <3>3 DEF ShapeInv, LoadOps
      <3>5. PinnedInv'
        BY <3>1, <3>2, <3>3 DEF UndoInv, PinnedInv, LoadOps
      <3>6. UnchangedInv' /\ LoadInv' /\ PinInv' /\ FailedCallUndone'
        BY <1>0, <1>1, <3>2 DEF UnchangedInv, LoadInv, PinInv, FailedCallUndone, LoadOps, Same
      <3> QED
        BY <3>4, <3>5, <3>6 DEF UndoInv
    <2> QED
      BY <2>5, <2>6
  <1> QED
    BY <1>0, <1>2, <1>3, UnchangedMapsKept DEF ReuseMapsStep
-----------------------------------------------------------------------------
(* The steps of a load                                                      *)

(* The structure of the object stays.                                       *)
ShapeKept ==
  /\ DOMAIN obj' = DOMAIN obj /\ obj'.loaded = obj.loaded
  /\ IsSequence(obj'.maps) /\ Len(obj'.maps) = Len(obj.maps)
  /\ DOMAIN obj'.maps = DOMAIN obj.maps
  /\ \A j \in DOMAIN obj.maps : DOMAIN obj'.maps[j] = MapFields

(* From one step of a load to the next: what is left to show is LoadInv.    *)
LEMMA LoadGoto ==
  ASSUME UndoInv, pc.op \in LoadOps, NEW op \in LoadOps, NEW i \in Nat, i >= 1, Goto(op, i),
         op \in {"create", "autopin"} => i <= Len(obj.maps),
         ShapeKept, DOMAIN fs' = Paths, LoadInv'
  PROVE  UndoInv'
  <1>1. DOMAIN pc' = DOMAIN pc /\ pc'.op = op /\ pc'.i = i /\ pc'.call = pc.call
    BY GotoFacts DEF UndoInv
  <1>2. ShapeInv'
    BY <1>1 DEF UndoInv, ShapeInv, ShapeKept, LoadOps
  <1>3. PinnedInv'
    BY <1>1 DEF UndoInv, PinnedInv, ShapeKept
  <1>4. UnchangedInv' /\ PinInv' /\ FailedCallUndone'
    BY <1>1 DEF UnchangedInv, PinInv, FailedCallUndone, LoadOps
  <1> QED
    BY <1>2, <1>3, <1>4 DEF UndoInv

(* A step that changes neither a path nor what is pinned.                   *)
LEMMA LoadKept ==
  ASSUME UndoInv, pc.op \in LoadOps, NEW op \in LoadOps, NEW i \in Nat, i >= 1, Goto(op, i),
         op \in {"create", "autopin"} => i <= Len(obj.maps), MapsKept,
         UNCHANGED <<fs, before, touched>>,
         op = "undo" => i = 1
  PROVE  UndoInv'
  <1>1. pc'.op = op /\ pc'.i = i
    BY GotoFacts DEF UndoInv
  <1>2. ShapeKept
    BY DEF MapsKept, ShapeKept
  <1>3. DOMAIN fs' = Paths
    BY DEF UndoInv, ShapeInv
  <1>4. LoadInv'
    <2>1. \A x \in Paths \ touched :
             \/ Same(x)
             \/ before[x] = None /\ \E k \in DOMAIN obj.maps : PathIs(k, x) /\ obj.maps[k].pinned
      BY DEF UndoInv, LoadInv
    <2>2. \A x \in Paths \ touched, k \in DOMAIN obj.maps :
            PathIs(k, x) /\ UndoPin(obj.maps[k]) => before[x] = None
      BY DEF UndoInv, LoadInv
    <2>3. \A x \in Paths \ touched :
             \/ Same(x)'
             \/ before'[x] = None /\ \E k \in DOMAIN obj'.maps : PathIs(k, x)' /\ obj'.maps[k].pinned
      BY <2>1 DEF MapsKept, Same, PathIs
    <2>4. \A x \in Paths \ touched, k \in DOMAIN obj'.maps :
            PathIs(k, x)' /\ UndoPin(obj.maps[k])' => before'[x] = None
      BY <2>2 DEF MapsKept, PathIs, UndoPin
    <2>5. (pc.op = "undo" /\ ~stuck => \A k \in 1 .. pc.i - 1 : ~UndoPin(obj.maps[k]))'
      BY <1>1
    <2> QED
      BY <2>3, <2>4, <2>5 DEF LoadInv
  <1> QED
    BY <1>2, <1>3, <1>4, LoadGoto

(* The map a step of a load is at.                                          *)
LEMMA LoadAt ==
  ASSUME ShapeInv, pc.op \in LoadOps, pc.i <= Len(obj.maps)
  PROVE  /\ pc.i \in Nat /\ pc.i >= 1 /\ Len(obj.maps) \in Nat
         /\ DOMAIN obj.maps = 1 .. Len(obj.maps)
         /\ pc.i \in DOMAIN obj.maps /\ DOMAIN obj.maps[pc.i] = MapFields
  BY SeqFacts DEF ShapeInv

(* CreateFailed and the descriptor of a new map are not about pins.         *)
LEMMA CreateFailedKept ==
  ASSUME ShapeInv, NEW i, obj' = [obj EXCEPT !.maps = CreateFailed(@, i)]
  PROVE  MapsKept
  <1>1. /\ DOMAIN obj' = DOMAIN obj /\ obj'.loaded = obj.loaded
        /\ obj'.maps = CreateFailed(obj.maps, i)
    BY DEF ShapeInv
  <1>2. obj'.maps = [j \in DOMAIN obj.maps |-> IF j < i THEN [obj.maps[j] EXCEPT !.fd = NoFd]
                                               ELSE obj.maps[j]]
    BY <1>1 DEF CreateFailed
  <1>3. /\ IsSequence(obj'.maps) /\ Len(obj'.maps) = Len(obj.maps)
        /\ DOMAIN obj'.maps = DOMAIN obj.maps
    BY <1>2, SeqSame DEF ShapeInv
  <1>4. ASSUME NEW j \in DOMAIN obj.maps
        PROVE  /\ DOMAIN obj'.maps[j] = MapFields
               /\ obj'.maps[j].pin_path = obj.maps[j].pin_path
               /\ obj'.maps[j].pinned = obj.maps[j].pinned
               /\ obj'.maps[j].reused = obj.maps[j].reused
    <2>1. /\ DOMAIN obj.maps[j] = MapFields
          /\ obj'.maps[j] \in {obj.maps[j], [obj.maps[j] EXCEPT !.fd = NoFd]}
      BY <1>2 DEF ShapeInv
    <2> QED
      BY <2>1 DEF MapFields
  <1> QED
    BY <1>1, <1>3, <1>4 DEF MapsKept

(* A new descriptor changes nothing else of a map.                          *)
LEMMA NewFdKept ==
  ASSUME ShapeInv, NEW i \in DOMAIN obj.maps, NEW fd, obj' = [obj EXCEPT !.maps[i].fd = fd]
  PROVE  MapsKept
  <1> DEFINE m == [obj.maps[i] EXCEPT !.fd = fd]
  <1>1. DOMAIN obj.maps[i] = MapFields
    BY DEF ShapeInv
  <1>2. /\ DOMAIN m = MapFields /\ m.pin_path = obj.maps[i].pin_path
        /\ m.pinned = obj.maps[i].pinned /\ m.reused = obj.maps[i].reused
    BY <1>1 DEF MapFields
  <1>3. obj' = [obj EXCEPT !.maps[i] = m]
    BY DEF ShapeInv
  <1> HIDE DEF m
  <1>4. /\ DOMAIN obj' = DOMAIN obj /\ obj'.loaded = obj.loaded
        /\ IsSequence(obj'.maps) /\ Len(obj'.maps) = Len(obj.maps)
        /\ DOMAIN obj'.maps = DOMAIN obj.maps
        /\ obj'.maps[i] = m /\ \A j \in DOMAIN obj.maps : j # i => obj'.maps[j] = obj.maps[j]
        /\ \A j \in DOMAIN obj.maps : DOMAIN obj'.maps[j] = MapFields
    BY <1>2, <1>3, MapReplaced
  <1> QED
    BY <1>2, <1>4 DEF MapsKept

(* Creating a map or failing to changes no path.                            *)
LEMMA CreateStep ==
  ASSUME UndoInv, CreateMap
  PROVE  UndoInv'
  <1>0. ShapeInv /\ pc.op = "create" /\ pc.op \in LoadOps /\ pc.i <= Len(obj.maps)
        /\ UNCHANGED <<fs, before, touched>>
    BY DEF UndoInv, ShapeInv, CreateMap, LoadOps
  <1>1. /\ pc.i \in Nat /\ pc.i >= 1 /\ Len(obj.maps) \in Nat
        /\ pc.i \in DOMAIN obj.maps
    BY <1>0, LoadAt
  <1>2. pc.i + 1 \in Nat /\ pc.i + 1 >= 1 /\ 1 \in Nat /\ 1 >= 1
        /\ {"reuse", "autopin", "undo"} \subseteq LoadOps
    BY <1>1 DEF LoadOps
  <1>3. /\ \/ Goto("reuse", pc.i + 1) \/ Goto("autopin", pc.i) \/ Goto("undo", 1)
        /\ \/ obj' = obj
           \/ \E fd : obj' = [obj EXCEPT !.maps[pc.i].fd = fd]
           \/ obj' = [obj EXCEPT !.maps = CreateFailed(@, pc.i)]
    BY DEF CreateMap
  <1>4. MapsKept
    BY <1>0, <1>1, <1>3, UnchangedMapsKept, NewFdKept, CreateFailedKept
  <1>5. CASE Goto("reuse", pc.i + 1)
    BY <1>0, <1>2, <1>4, <1>5, LoadKept
  <1>6. CASE Goto("autopin", pc.i)
    BY <1>0, <1>1, <1>2, <1>4, <1>6, LoadKept
  <1>7. CASE Goto("undo", 1)
    BY <1>0, <1>2, <1>4, <1>7, LoadKept
  <1> QED
    BY <1>3, <1>5, <1>6, <1>7

(* Loading the programs concerns no map.                                    *)
LEMMA LoadProgramsStep ==
  ASSUME UndoInv, LoadPrograms
  PROVE  UndoInv'
  <1>0. ShapeInv /\ pc.op \in LoadOps /\ UNCHANGED <<fs, before, touched>>
    BY DEF UndoInv, LoadPrograms, LoadOps
  <1>1. (Return(OK) \/ Goto("undo", 1)) /\ \E progs : obj' = [obj EXCEPT !.progs = progs]
    BY DEF LoadPrograms
  <1>2. MapsKept
    <2>1. DOMAIN obj' = DOMAIN obj /\ obj'.loaded = obj.loaded /\ obj'.maps = obj.maps
      BY <1>0, <1>1 DEF ShapeInv
    <2> QED
      BY <1>0, <2>1 DEF ShapeInv, MapsKept
  <1>3. CASE Return(OK)
    <2>1. DOMAIN fs' = Paths
      BY <1>0 DEF ShapeInv
    <2> QED
      BY <1>2, <1>3, <2>1, ReturnStep
  <1>4. CASE Goto("undo", 1)
    <2>1. 1 \in Nat /\ 1 >= 1 /\ "undo" \in LoadOps
      BY DEF LoadOps
    <2> QED
      BY <1>0, <1>2, <1>4, <2>1, LoadKept
  <1> QED
    BY <1>1, <1>3, <1>4
(* A map that is reused is not one that the load has to unpin.              *)
LEMMA ReuseStep ==
  ASSUME UndoInv, ReuseMap
  PROVE  UndoInv'
  <1> DEFINE i == pc.i
             m == obj.maps[i]
  <1>0. ShapeInv /\ pc.op = "reuse" /\ pc.op \in LoadOps /\ i <= Len(obj.maps)
        /\ UNCHANGED <<fs, before, touched>>
    BY DEF UndoInv, ReuseMap, LoadOps
  <1>1. /\ i \in Nat /\ i >= 1 /\ Len(obj.maps) \in Nat
        /\ i \in DOMAIN obj.maps /\ DOMAIN m = MapFields
    BY <1>0, LoadAt
  <1>2. 1 \in Nat /\ 1 >= 1 /\ "create" \in LoadOps /\ "undo" \in LoadOps
    BY DEF LoadOps
  <1>3. CASE obj' = obj /\ (Goto("create", i) \/ Goto("undo", 1))
    <2>1. MapsKept
      BY <1>0, <1>3, UnchangedMapsKept
    <2>2. CASE Goto("create", i)
      BY <1>0, <1>1, <1>2, <2>1, <2>2, LoadKept
    <2>3. CASE Goto("undo", 1)
      BY <1>0, <1>2, <2>1, <2>3, LoadKept
    <2> QED
      BY <1>3, <2>2, <2>3
  <1>4. ASSUME NEW p, NEW fd, NEW r \in ReuseFd(p, m, fd), r.err = OK, Goto("create", i),
               obj' = [obj EXCEPT !.maps[i] = [r.m EXCEPT !.pinned = TRUE]]
        PROVE  UndoInv'
    <2> HIDE DEF m
    <2>1. DOMAIN r.m = MapFields /\ r.m.reused = TRUE /\ r.m.pin_path = m.pin_path
      BY <1>1, <1>4, ReuseFdResult
    <2> DEFINE new == [r.m EXCEPT !.pinned = TRUE]
    <2>2. /\ DOMAIN new = MapFields /\ new.reused = TRUE /\ new.pinned = TRUE
          /\ new.pin_path = m.pin_path
      BY <2>1 DEF MapFields
    <2> HIDE DEF new
    <2>3. obj' = [obj EXCEPT !.maps[i] = new]
      BY <1>4 DEF new
    <2>4. /\ DOMAIN obj' = DOMAIN obj /\ obj'.loaded = obj.loaded
          /\ IsSequence(obj'.maps) /\ Len(obj'.maps) = Len(obj.maps)
          /\ DOMAIN obj'.maps = DOMAIN obj.maps
          /\ obj'.maps[i] = new
          /\ \A j \in DOMAIN obj.maps : j # i => obj'.maps[j] = obj.maps[j]
          /\ \A j \in DOMAIN obj.maps : DOMAIN obj'.maps[j] = MapFields
      BY <1>0, <1>1, <2>2, <2>3, MapReplaced
    <2>5. ShapeKept /\ DOMAIN fs' = Paths
      BY <1>0, <2>4 DEF ShapeKept, ShapeInv
    <2>6. pc'.op = "create"
      BY <1>0, <1>4, GotoFacts
    <2>7. \A x \in Paths \ touched :
             \/ Same(x)'
             \/ before'[x] = None /\ \E k \in DOMAIN obj'.maps : PathIs(k, x)' /\ obj'.maps[k].pinned
      <3>1. \A x \in Paths \ touched :
             \/ Same(x)
             \/ before[x] = None /\ \E k \in DOMAIN obj.maps : PathIs(k, x) /\ obj.maps[k].pinned
        BY <1>0 DEF UndoInv, LoadInv
      <3> QED
        BY <1>0, <1>1, <2>2, <2>4, <3>1 DEF Same, PathIs, m
    <2>8. \A x \in Paths \ touched, k \in DOMAIN obj'.maps :
            PathIs(k, x)' /\ UndoPin(obj.maps[k])' => before'[x] = None
      <3>1. \A x \in Paths \ touched, k \in DOMAIN obj.maps :
              PathIs(k, x) /\ UndoPin(obj.maps[k]) => before[x] = None
        BY <1>0 DEF UndoInv, LoadInv
      <3> QED
        BY <1>0, <2>2, <2>4, <3>1 DEF UndoPin, PathIs
    <2>9. LoadInv'
      BY <1>0, <2>6, <2>7, <2>8 DEF LoadInv
    <2> QED
      BY <1>0, <1>1, <1>2, <1>4, <2>5, <2>9, LoadGoto
  <1>5. \/ obj' = obj /\ (Goto("create", i) \/ Goto("undo", 1))
        \/ \E p, fd : \E r \in ReuseFd(p, m, fd) :
             /\ r.err = OK /\ Goto("create", i)
             /\ obj' = [obj EXCEPT !.maps[i] = [r.m EXCEPT !.pinned = TRUE]]
    BY DEF ReuseMap
  <1> QED
    BY <1>3, <1>4, <1>5

(* A pin goes to an empty path: it was empty at the start of the load.      *)
LEMMA AutoPinStep ==
  ASSUME UndoInv, AutoPin
  PROVE  UndoInv'
  <1> DEFINE i == pc.i
             m == obj.maps[i]
  <1>0. ShapeInv /\ pc.op = "autopin" /\ pc.op \in LoadOps /\ i <= Len(obj.maps)
        /\ UNCHANGED <<before, touched>>
    BY DEF UndoInv, ShapeInv, AutoPin, LoadOps
  <1>1. /\ i \in Nat /\ i >= 1 /\ Len(obj.maps) \in Nat
        /\ i \in DOMAIN obj.maps /\ DOMAIN m = MapFields
    BY <1>0, LoadAt
  <1>2. PICK r \in Pin(m, NoPath) :
          /\ fs' = r.fs /\ obj' = [obj EXCEPT !.maps[i] = r.m]
          /\ IF r.err = OK THEN Goto("reuse", i + 1) ELSE Goto("undo", 1)
    BY DEF AutoPin
  <1> HIDE DEF m
  <1>3. /\ DOMAIN r.m = MapFields /\ r.m.reused = m.reused /\ r.m.pin_path = m.pin_path
        /\ \/ r.fs = fs /\ r.m.pinned = m.pinned
           \/ /\ r.m.pinned /\ fs[r.m.pin_path] = None
              /\ \E v : r.fs = [fs EXCEPT ![r.m.pin_path] = v]
    <2>1. /\ DOMAIN r.m = MapFields /\ r.m.reused = m.reused
          /\ r.m.pin_path = m.pin_path \/ (m.pin_path = NoPath /\ r.m.pin_path = NoPath)
          /\ \/ r.fs = fs /\ r.m.pinned = m.pinned
             \/ /\ r.m.pinned /\ r.err = OK /\ fs[r.m.pin_path] = None
                /\ ~m.pinned
                /\ \E v : r.fs = [fs EXCEPT ![r.m.pin_path] = v]
      BY <1>1, PinResult
    <2> QED
      BY <2>1
  <1>4. /\ DOMAIN obj' = DOMAIN obj /\ obj'.loaded = obj.loaded
        /\ IsSequence(obj'.maps) /\ Len(obj'.maps) = Len(obj.maps)
        /\ DOMAIN obj'.maps = DOMAIN obj.maps
        /\ obj'.maps[i] = r.m
        /\ \A j \in DOMAIN obj.maps : j # i => obj'.maps[j] = obj.maps[j]
        /\ \A j \in DOMAIN obj.maps : DOMAIN obj'.maps[j] = MapFields
    BY <1>0, <1>1, <1>2, <1>3, MapReplaced
  <1>5. PICK op \in LoadOps, k \in Nat :
          Goto(op, k) /\ k >= 1 /\ op \in {"reuse", "undo"} /\ (op = "undo" => k = 1)
    <2>1. CASE r.err = OK
      BY <1>1, <1>2, <2>1 DEF LoadOps
    <2>2. CASE r.err # OK
      BY <1>2, <2>2 DEF LoadOps
    <2> QED
      BY <2>1, <2>2
  <1>6. pc'.op = op /\ pc'.i = k
    BY <1>0, <1>5, GotoFacts
  <1>7. \A x \in Paths \ touched :
           \/ Same(x)
           \/ before[x] = None /\ \E j \in DOMAIN obj.maps : PathIs(j, x) /\ obj.maps[j].pinned
    BY <1>0 DEF UndoInv, LoadInv
  <1>8. \A x \in Paths \ touched, j \in DOMAIN obj.maps :
          PathIs(j, x) /\ UndoPin(obj.maps[j]) => before[x] = None
    BY <1>0 DEF UndoInv, LoadInv
  <1>9. /\ DOMAIN fs' = Paths
        /\ \A x \in Paths \ touched :
             \/ Same(x)'
             \/ before'[x] = None /\ \E j \in DOMAIN obj'.maps : PathIs(j, x)' /\ obj'.maps[j].pinned
        /\ \A x \in Paths \ touched, j \in DOMAIN obj'.maps :
             PathIs(j, x)' /\ UndoPin(obj.maps[j])' => before'[x] = None
    <2>1. CASE fs' = fs /\ r.m.pinned = m.pinned
      <3>1. DOMAIN fs' = Paths
        BY <1>0, <2>1 DEF ShapeInv
      <3>2. \A j \in DOMAIN obj.maps :
              /\ obj'.maps[j].pin_path = obj.maps[j].pin_path
              /\ obj'.maps[j].pinned = obj.maps[j].pinned
              /\ obj'.maps[j].reused = obj.maps[j].reused
        BY <1>3, <1>4, <2>1 DEF m
      <3> QED
        BY <1>0, <1>4, <1>7, <1>8, <2>1, <3>1, <3>2 DEF Same, PathIs, UndoPin
    <2>2. CASE /\ r.m.pinned /\ fs[r.m.pin_path] = None
               /\ \E v : fs' = [fs EXCEPT ![r.m.pin_path] = v]
      <3>1. PICK v : fs' = [fs EXCEPT ![r.m.pin_path] = v]
        BY <2>2
      <3>2. /\ DOMAIN fs' = Paths
            /\ \A x \in Paths : x # r.m.pin_path => fs'[x] = fs[x]
        BY <1>0, <3>1, FsAt
      <3>3. \A x \in Paths \ touched : x = r.m.pin_path => before[x] = None
        BY <1>7, <2>2 DEF Same
      <3>4. obj'.maps[i].pin_path = r.m.pin_path /\ obj'.maps[i].pinned
        BY <1>4, <2>2
      <3>5. \A x \in Paths \ touched :
             \/ Same(x)'
             \/ before'[x] = None /\ \E j \in DOMAIN obj'.maps : PathIs(j, x)' /\ obj'.maps[j].pinned
        <4>1. SUFFICES ASSUME NEW x \in Paths \ touched
                       PROVE  \/ fs'[x] = before[x]
                              \/ /\ before[x] = None
                                 /\ \E j \in DOMAIN obj.maps :
                                      obj'.maps[j].pin_path = x /\ obj'.maps[j].pinned
          BY <1>0, <1>4 DEF Same, PathIs
        <4>2. CASE x = r.m.pin_path
          BY <1>1, <3>3, <3>4, <4>2
        <4>3. CASE x # r.m.pin_path
          BY <1>3, <1>4, <1>7, <3>2, <4>3 DEF Same, PathIs, m
        <4> QED
          BY <4>2, <4>3
      <3>6. \A x \in Paths \ touched, j \in DOMAIN obj'.maps :
             PathIs(j, x)' /\ UndoPin(obj.maps[j])' => before'[x] = None
        BY <1>0, <1>4, <1>8, <3>3 DEF PathIs, UndoPin
      <3> QED
        BY <3>2, <3>5, <3>6
    <2> QED
      BY <1>2, <1>3, <2>1, <2>2
  <1>10. LoadInv'
    BY <1>0, <1>5, <1>6, <1>9 DEF LoadInv
  <1>11. ShapeKept
    BY <1>4 DEF ShapeKept
  <1> QED
    BY <1>0, <1>5, <1>9, <1>10, <1>11, LoadGoto
(* Unpinning map i, which is at path x or at none, empties x only.          *)
LEMMA UnpinOne ==
  ASSUME ShapeInv, NEW i \in DOMAIN obj.maps, NEW path, NEW r \in Unpin(obj.maps[i], path),
         fs' = r.fs, obj' = [obj EXCEPT !.maps[i] = r.m]
  PROVE  /\ ShapeKept /\ DOMAIN fs' = Paths
         /\ \A j \in DOMAIN obj.maps :
              /\ obj'.maps[j].pin_path = obj.maps[j].pin_path
              /\ obj'.maps[j].reused = obj.maps[j].reused
              /\ j # i => obj'.maps[j].pinned = obj.maps[j].pinned
         /\ r.err # OK => MapsKept /\ fs' = fs
         /\ r.err = OK =>
              /\ ~obj'.maps[i].pinned
              /\ \A x \in Paths : PathIs(i, x) => fs'[x] = None
              /\ \A x \in Paths : fs'[x] = fs[x] \/ fs'[x] = None
              /\ path = NoPath => \A x \in Paths : ~PathIs(i, x) => fs'[x] = fs[x]
  <1> DEFINE m == obj.maps[i]
             at == IF m.pin_path # NoPath THEN m.pin_path ELSE path
  <1>0. DOMAIN m = MapFields
    BY DEF ShapeInv
  <1> HIDE DEF m
  <1>1. /\ DOMAIN r.m = MapFields /\ r.m.reused = m.reused /\ r.m.pin_path = m.pin_path
        /\ \/ r.err # OK /\ r.m = m /\ r.fs = fs
           \/ r.err = OK /\ ~r.m.pinned /\ r.fs = [fs EXCEPT ![at] = None]
    <2>1. r \in Unpin(m, path)
      BY DEF m
    <2> HIDE DEF at
    <2>2. /\ DOMAIN r.m = MapFields /\ r.m.reused = m.reused /\ r.m.pin_path = m.pin_path
          /\ \/ r.err # OK /\ r.m = m /\ r.fs = fs
             \/ /\ r.err = OK /\ ~r.m.pinned
                /\ \E a : /\ a = IF m.pin_path # NoPath THEN m.pin_path ELSE path
                          /\ r.fs = [fs EXCEPT ![a] = None]
      BY <1>0, <2>1, UnpinResult
    <2> QED
      BY <2>2 DEF at
  <1>2. /\ DOMAIN obj' = DOMAIN obj /\ obj'.loaded = obj.loaded
        /\ IsSequence(obj'.maps) /\ Len(obj'.maps) = Len(obj.maps)
        /\ DOMAIN obj'.maps = DOMAIN obj.maps
        /\ obj'.maps[i] = r.m
        /\ \A j \in DOMAIN obj.maps : j # i => obj'.maps[j] = obj.maps[j]
        /\ \A j \in DOMAIN obj.maps : DOMAIN obj'.maps[j] = MapFields
    BY <1>1, MapReplaced
  <1>3. ShapeKept
    BY <1>2 DEF ShapeKept
  <1>4. \A j \in DOMAIN obj.maps :
          /\ obj'.maps[j].pin_path = obj.maps[j].pin_path
          /\ obj'.maps[j].reused = obj.maps[j].reused
          /\ j # i => obj'.maps[j].pinned = obj.maps[j].pinned
    BY <1>1, <1>2 DEF m
  <1>5. CASE r.err # OK
    <2>1. r.m = m /\ fs' = fs
      BY <1>1, <1>5
    <2>2. MapsKept
      BY <2>1, SelfReplacedKept DEF m
    <2>3. DOMAIN fs' = Paths
      BY <2>1 DEF ShapeInv
    <2> QED
      BY <1>3, <1>4, <1>5, <2>1, <2>2, <2>3
  <1>6. CASE r.err = OK
    <2>1. ~r.m.pinned /\ fs' = [fs EXCEPT ![at] = None]
      BY <1>1, <1>6
    <2> HIDE DEF at
    <2>2. /\ DOMAIN fs' = Paths
          /\ \A x \in Paths : IF x = at THEN fs'[x] = None ELSE fs'[x] = fs[x]
      BY <2>1, FsAt
    <2>3. \A x \in Paths : PathIs(i, x) => x = at
      BY NoPathOutside DEF at, PathIs, m
    <2>4. path = NoPath => \A x \in Paths : x = at => PathIs(i, x)
      BY NoPathOutside DEF at, PathIs, m
    <2> QED
      BY <1>2, <1>3, <1>4, <1>6, <2>1, <2>2, <2>3, <2>4
  <1> QED
    BY <1>5, <1>6

(* The same for a map that is unpinned from its own path.                   *)
LEMMA UnpinOwn ==
  ASSUME ShapeInv, NEW i \in DOMAIN obj.maps, NEW r \in Unpin(obj.maps[i], NoPath),
         fs' = r.fs, obj' = [obj EXCEPT !.maps[i] = r.m]
  PROVE  /\ ShapeKept /\ DOMAIN fs' = Paths
         /\ \A j \in DOMAIN obj.maps :
              /\ obj'.maps[j].pin_path = obj.maps[j].pin_path
              /\ obj'.maps[j].reused = obj.maps[j].reused
              /\ j # i => obj'.maps[j].pinned = obj.maps[j].pinned
         /\ r.err # OK => MapsKept /\ fs' = fs
         /\ r.err = OK =>
              /\ ~obj'.maps[i].pinned
              /\ \A x \in Paths : PathIs(i, x) => fs'[x] = None
              /\ \A x \in Paths : ~PathIs(i, x) => fs'[x] = fs[x]
  <1> DEFINE path == NoPath
  <1>1. r \in Unpin(obj.maps[i], path)
    OBVIOUS
  <1> HIDE DEF path
  <1>2. /\ ShapeKept /\ DOMAIN fs' = Paths
        /\ \A j \in DOMAIN obj.maps :
             /\ obj'.maps[j].pin_path = obj.maps[j].pin_path
             /\ obj'.maps[j].reused = obj.maps[j].reused
             /\ j # i => obj'.maps[j].pinned = obj.maps[j].pinned
        /\ r.err # OK => MapsKept /\ fs' = fs
        /\ r.err = OK =>
             /\ ~obj'.maps[i].pinned
             /\ \A x \in Paths : PathIs(i, x) => fs'[x] = None
             /\ \A x \in Paths : fs'[x] = fs[x] \/ fs'[x] = None
             /\ path = NoPath => \A x \in Paths : ~PathIs(i, x) => fs'[x] = fs[x]
    BY <1>1, UnpinOne, Zenon
  <1> QED
    BY <1>2, Zenon DEF path

(* The way back of a failing load takes the pins of this load one by one.   *)
LEMMA UndoStep ==
  ASSUME UndoInv, UndoLoad
  PROVE  UndoInv'
  <1> DEFINE i == pc.i
  <1>0. ShapeInv /\ pc.op = "undo" /\ pc.op \in LoadOps /\ pc.call = "load"
        /\ UNCHANGED <<before, touched>> /\ i \in Nat /\ i >= 1
    BY DEF UndoInv, ShapeInv, UndoLoad, LoadOps
  <1>1. Len(obj.maps) \in Nat /\ DOMAIN obj.maps = 1 .. Len(obj.maps)
    BY <1>0, SeqFacts DEF ShapeInv
  <1>2. \A x \in Paths \ touched :
           \/ Same(x)
           \/ before[x] = None /\ \E j \in DOMAIN obj.maps : PathIs(j, x) /\ obj.maps[j].pinned
    BY <1>0 DEF UndoInv, LoadInv
  <1>3. \A x \in Paths \ touched, j \in DOMAIN obj.maps :
          PathIs(j, x) /\ UndoPin(obj.maps[j]) => before[x] = None
    BY <1>0 DEF UndoInv, LoadInv
  <1>4. ~stuck => \A j \in 1 .. i - 1 : ~UndoPin(obj.maps[j])
    BY <1>0 DEF UndoInv, LoadInv
  <1>5. CASE i > Len(obj.maps)
    <2>1. obj' = Unloaded(obj) /\ Return("load") /\ UNCHANGED <<fs, stuck>>
      BY <1>5 DEF UndoLoad
    <2>2. MapsKept /\ DOMAIN fs' = Paths
      BY <1>0, <2>1, UnloadedKept DEF ShapeInv
    <2>3. ~stuck => \A j \in DOMAIN obj.maps : ~UndoPin(obj.maps[j])
      BY <1>0, <1>1, <1>4, <1>5
    <2>4. pc'.call = "load"
      BY <1>0, <2>1, ReturnFacts
    <2>5. FailedCallUndone'
      <3>1. SUFFICES ASSUME ~stuck, NEW x \in Paths \ touched
                     PROVE  \/ fs[x] = before[x]
                            \/ /\ before[x] = None
                               /\ \E j \in DOMAIN obj.maps :
                                    /\ obj'.maps[j].pin_path = x
                                    /\ obj'.maps[j].pinned /\ obj'.maps[j].reused
        BY <1>0, <2>1, <2>2, <2>4 DEF FailedCallUndone, MapsKept
      <3> QED
        BY <1>2, <2>2, <2>3, <3>1 DEF Same, PathIs, UndoPin, MapsKept
    <2> QED
      BY <2>1, <2>2, <2>5, ReturnStep
  <1>6. CASE ~(i > Len(obj.maps))
    <2>1. i \in DOMAIN obj.maps /\ i + 1 \in Nat /\ i + 1 >= 1 /\ "undo" \in LoadOps
      BY <1>0, <1>1, <1>6 DEF LoadOps
    <2>2. Goto("undo", i + 1)
      BY <1>6 DEF UndoLoad
    <2>3. pc'.op = "undo" /\ pc'.i = i + 1
      BY <1>0, <2>2, GotoFacts
    <2>4. SUFFICES ShapeKept /\ DOMAIN fs' = Paths /\ LoadInv'
      BY <1>0, <2>1, <2>2, LoadGoto
    <2>5. CASE ~UndoPin(obj.maps[i])
      <3>1. UNCHANGED <<obj, fs, stuck>>
        BY <1>6, <2>5 DEF UndoLoad
      <3>2. ShapeKept /\ DOMAIN fs' = Paths
        BY <1>0, <3>1 DEF ShapeInv, ShapeKept
      <3>3. ~stuck => \A j \in 1 .. i : ~UndoPin(obj.maps[j])
        BY <1>0, <1>4, <2>5
      <3>4. i + 1 - 1 = i
        BY <1>0
      <3>5. LoadInv'
        BY <1>0, <1>2, <1>3, <2>3, <3>1, <3>3, <3>4 DEF LoadInv, Same, PathIs
      <3> QED
        BY <3>2, <3>5
    <2>6. CASE UndoPin(obj.maps[i])
      <3>1. PICK r \in Unpin(obj.maps[i], NoPath) :
              /\ fs' = r.fs /\ obj' = [obj EXCEPT !.maps[i] = r.m]
              /\ stuck' = (stuck \/ r.err # OK)
        BY <1>6, <2>6 DEF UndoLoad
      <3>2. /\ ShapeKept /\ DOMAIN fs' = Paths
            /\ \A j \in DOMAIN obj.maps :
                 /\ obj'.maps[j].pin_path = obj.maps[j].pin_path
                 /\ obj'.maps[j].reused = obj.maps[j].reused
                 /\ j # i => obj'.maps[j].pinned = obj.maps[j].pinned
            /\ r.err # OK => MapsKept /\ fs' = fs
            /\ r.err = OK =>
                 /\ ~obj'.maps[i].pinned
                 /\ \A x \in Paths : PathIs(i, x) => fs'[x] = None
                 /\ \A x \in Paths : ~PathIs(i, x) => fs'[x] = fs[x]
        BY <1>0, <2>1, <3>1, UnpinOwn
      <3>3. \A x \in Paths \ touched :
             \/ Same(x)'
             \/ before'[x] = None /\ \E j \in DOMAIN obj'.maps : PathIs(j, x)' /\ obj'.maps[j].pinned
        <4>1. SUFFICES ASSUME NEW x \in Paths \ touched
                       PROVE  \/ fs'[x] = before[x]
                              \/ /\ before[x] = None
                                 /\ \E j \in DOMAIN obj.maps :
                                      obj'.maps[j].pin_path = x /\ obj'.maps[j].pinned
          BY <1>0, <3>2 DEF Same, PathIs, ShapeKept
        <4>2. CASE r.err # OK
          BY <1>2, <3>2, <4>2 DEF Same, PathIs, MapsKept
        <4>3. CASE r.err = OK /\ PathIs(i, x)
          BY <1>3, <2>1, <2>6, <3>2, <4>3
        <4>4. CASE r.err = OK /\ ~PathIs(i, x)
          BY <1>2, <2>1, <3>2, <4>4 DEF Same, PathIs
        <4> QED
          BY <4>2, <4>3, <4>4
      <3>4. \A j \in DOMAIN obj.maps : UndoPin(obj.maps[j])' => UndoPin(obj.maps[j])
        BY <2>6, <3>2 DEF UndoPin
      <3>5. \A x \in Paths \ touched, j \in DOMAIN obj'.maps :
             PathIs(j, x)' /\ UndoPin(obj.maps[j])' => before'[x] = None
        BY <1>0, <1>3, <3>2, <3>4 DEF PathIs, ShapeKept
      <3>6. ~stuck' => \A j \in 1 .. i : ~UndoPin(obj.maps[j])'
        <4>1. SUFFICES ASSUME ~stuck', NEW j \in 1 .. i PROVE ~UndoPin(obj.maps[j])'
          OBVIOUS
        <4>2. ~stuck /\ r.err = OK
          BY <3>1, <4>1, Zenon
        <4>. j \in DOMAIN obj.maps
          BY <1>0, <1>1, <1>6
        <4>3. CASE j = i
          BY <3>2, <4>2, <4>3 DEF UndoPin
        <4>4. CASE j # i
          <5>1. j \in 1 .. i - 1
            BY <1>0, <4>4
          <5> QED
            BY <1>4, <3>4, <4>2, <5>1
        <4> QED
          BY <4>3, <4>4
      <3>7. i + 1 - 1 = i
        BY <1>0
      <3>8. LoadInv'
        BY <1>0, <2>3, <3>3, <3>5, <3>6, <3>7 DEF LoadInv
      <3> QED
        BY <3>2, <3>8
    <2> QED
      BY <2>5, <2>6
  <1> QED
    BY <1>5, <1>6
-----------------------------------------------------------------------------
(* The steps of the pin and unpin calls                                     *)

(* From one step of a pin or unpin call to the next: PinInv is left.        *)
LEMMA PinGoto ==
  ASSUME UndoInv, NEW op, NEW i \in Nat, Goto(op, i),
         \/ op \in {"pinmaps", "unpinback"} /\ pc.op \in {"pinmaps", "unpinback"}
         \/ op = "pinprogs" /\ pc.call = "pin"
         \/ op = "unpinmaps" /\ pc.call \in {"pin", "unpin_maps"},
         op = "pinmaps" => obj.loaded,
         op \in {"pinmaps", "unpinmaps"} => i >= 1,
         op = "unpinback" => i <= Len(obj.maps),
         ShapeKept, ~obj.loaded => \A j \in DOMAIN obj.maps : ~obj'.maps[j].pinned,
         DOMAIN fs' = Paths, PinInv'
  PROVE  UndoInv'
  <1>1. DOMAIN pc' = DOMAIN pc /\ pc'.op = op /\ pc'.i = i /\ pc'.call = pc.call
    BY GotoFacts DEF UndoInv
  <1>2. ShapeInv'
    BY <1>1 DEF UndoInv, ShapeInv, ShapeKept, LoadOps
  <1>3. PinnedInv'
    BY <1>1 DEF PinnedInv, ShapeKept, LoadOps
  <1>4. UnchangedInv' /\ LoadInv' /\ FailedCallUndone'
    BY <1>1 DEF UndoInv, ShapeInv, UnchangedInv, LoadInv, FailedCallUndone, LoadOps
  <1> QED
    BY <1>2, <1>3, <1>4 DEF UndoInv

(* A pin call moves over the maps; what it fails at sends it back.          *)
LEMMA PinMapStep ==
  ASSUME UndoInv, PinMap
  PROVE  UndoInv'
  <1>i. PICK i : i = pc.i
    OBVIOUS
  <1> DEFINE m == obj.maps[i]
  <1>0. /\ ShapeInv /\ pc.op = "pinmaps" /\ pc.call \in {"pin_maps", "pin"}
        /\ UNCHANGED <<before, touched, stuck>> /\ i \in Nat /\ i >= 1
    BY <1>i DEF UndoInv, ShapeInv, PinMap
  <1>1. Len(obj.maps) \in Nat /\ DOMAIN obj.maps = 1 .. Len(obj.maps)
    BY <1>0, SeqFacts DEF ShapeInv
  <1>2. obj.loaded
    BY <1>0 DEF UndoInv, PinnedInv
  <1>3. ~stuck => \A x \in Paths \ touched :
          Same(x) \/ Gone(x) \/ \E j \in 1 .. i - 1 : j \in DOMAIN obj.maps /\ PathIs(j, x)
    BY <1>i, <1>0 DEF UndoInv, PinInv
  <1>4. CASE /\ obj' = obj /\ fs' = fs
             /\ \/ Return(OK)
                \/ Goto("pinprogs", 1) /\ pc.call = "pin"
                \/ Goto("pinmaps", i + 1)
    <2>1. MapsKept /\ ShapeKept /\ DOMAIN fs' = Paths
      BY <1>0, <1>4 DEF ShapeInv, MapsKept, ShapeKept
    <2>2. CASE Return(OK)
      BY <2>1, <2>2, ReturnStep
    <2>3. CASE Goto("pinprogs", 1) /\ pc.call = "pin"
      <3>1. pc'.op = "pinprogs"
        BY <1>0, <2>3, GotoFacts
      <3>2. PinInv'
        BY <1>0, <1>3, <1>4, <3>1 DEF PinInv, Same, Gone, PathIs
      <3> QED
        BY <1>2, <2>1, <2>3, <3>2, PinGoto
    <2>4. CASE Goto("pinmaps", i + 1)
      <3>1. pc'.op = "pinmaps" /\ pc'.i = i + 1 /\ i + 1 \in Nat /\ i + 1 >= 1
        BY <1>0, <2>4, GotoFacts
      <3>2. \A j \in 1 .. i - 1 : j \in 1 .. (i + 1) - 1
        BY <1>0
      <3>3. PinInv'
        BY <1>0, <1>3, <1>4, <3>1, <3>2 DEF PinInv, Same, Gone, PathIs
      <3> QED
        BY <1>0, <1>2, <2>1, <2>4, <3>1, <3>3, PinGoto
    <2> QED
      BY <1>4, <2>2, <2>3, <2>4
  <1>5. ASSUME i <= Len(obj.maps), NEW path, NEW r \in Pin(m, path),
               fs' = r.fs, obj' = [obj EXCEPT !.maps[i] = r.m],
               IF r.err = OK THEN Goto("pinmaps", i + 1) ELSE Goto("unpinback", i - 1)
        PROVE  UndoInv'
    <2>1. i \in DOMAIN obj.maps /\ DOMAIN m = MapFields
      BY <1>0, <1>1, <1>5 DEF ShapeInv
    <2> HIDE DEF m
    <2>2. /\ DOMAIN r.m = MapFields /\ r.m.reused = m.reused
          /\ r.m.pin_path = m.pin_path \/ (m.pin_path = NoPath /\ r.m.pin_path = path)
          /\ \/ r.fs = fs /\ r.m.pinned = m.pinned
             \/ /\ r.m.pinned /\ r.err = OK /\ fs[r.m.pin_path] = None
                /\ ~m.pinned
                /\ \E v : r.fs = [fs EXCEPT ![r.m.pin_path] = v]
      BY <2>1, PinResult
    <2>3. /\ DOMAIN obj' = DOMAIN obj /\ obj'.loaded = obj.loaded
          /\ IsSequence(obj'.maps) /\ Len(obj'.maps) = Len(obj.maps)
          /\ DOMAIN obj'.maps = DOMAIN obj.maps
          /\ obj'.maps[i] = r.m
          /\ \A j \in DOMAIN obj.maps : j # i => obj'.maps[j] = obj.maps[j]
          /\ \A j \in DOMAIN obj.maps : DOMAIN obj'.maps[j] = MapFields
      BY <1>0, <1>5, <2>1, <2>2, MapReplaced
    <2>4. ShapeKept
      BY <2>3 DEF ShapeKept
    <2>5. \A x \in Paths : \A j \in 1 .. i - 1 : j \in DOMAIN obj.maps /\ PathIs(j, x) => PathIs(j, x)'
      <3>1. \A j \in 1 .. i - 1 : j # i
        BY <1>0
      <3> QED
        BY <2>3, <3>1 DEF PathIs
    <2>6. /\ DOMAIN fs' = Paths
          /\ \A x \in Paths : fs'[x] = fs[x] \/ (r.err = OK /\ PathIs(i, x)')
      <3>1. CASE fs' = fs
        BY <1>0, <3>1 DEF ShapeInv
      <3>2. CASE r.err = OK /\ \E v : fs' = [fs EXCEPT ![r.m.pin_path] = v]
        <4>1. /\ DOMAIN fs' = Paths
              /\ \A x \in Paths : x # r.m.pin_path => fs'[x] = fs[x]
          BY <1>0, <3>2, FsAt
        <4> QED
          BY <2>3, <3>2, <4>1 DEF PathIs
      <3> QED
        BY <1>5, <2>2, <3>1, <3>2
    <2>7. CASE r.err = OK
      <3>1. Goto("pinmaps", i + 1)
        BY <1>5, <2>7
      <3>2. pc'.op = "pinmaps" /\ pc'.i = i + 1 /\ i + 1 \in Nat /\ i + 1 >= 1
        BY <1>0, <3>1, GotoFacts
      <3>3. (\A j \in 1 .. i - 1 : j \in 1 .. (i + 1) - 1) /\ i \in 1 .. (i + 1) - 1
        BY <1>0
      <3>4. PinInv'
        <4>1. SUFFICES ASSUME ~stuck, NEW x \in Paths \ touched
                       PROVE  Same(x)' \/ Gone(x)' \/ \E j \in 1 .. (i + 1) - 1 :
                                j \in DOMAIN obj'.maps /\ PathIs(j, x)'
          BY <1>0, <3>2 DEF PinInv
        <4>2. CASE fs'[x] = fs[x]
          <5>1. Same(x) \/ Gone(x) \/ \E j \in 1 .. i - 1 : j \in DOMAIN obj.maps /\ PathIs(j, x)
            BY <1>3, <4>1
          <5> QED
            BY <1>0, <2>3, <2>5, <3>3, <4>2, <5>1 DEF Same, Gone
        <4>3. CASE PathIs(i, x)'
          BY <2>1, <2>3, <3>3, <4>3
        <4> QED
          BY <2>6, <4>2, <4>3
      <3> QED
        BY <1>0, <1>2, <2>4, <2>6, <3>1, <3>2, <3>4, PinGoto
    <2>8. CASE r.err # OK
      <3>1. Goto("unpinback", i - 1)
        BY <1>5, <2>8
      <3>2. pc'.op = "unpinback" /\ pc'.i = i - 1
        BY <1>0, <3>1, GotoFacts
      <3>3. i - 1 \in Nat /\ i - 1 <= Len(obj.maps)
        BY <1>0, <1>1, <1>5
      <3>4. PinInv'
        <4>1. SUFFICES ASSUME ~stuck, NEW x \in Paths \ touched
                       PROVE  Same(x)' \/ Gone(x)' \/ \E j \in 1 .. i - 1 : PathIs(j, x)'
          BY <1>0, <3>2 DEF PinInv
        <4>2. fs'[x] = fs[x]
          BY <2>6, <2>8
        <4>3. Same(x) \/ Gone(x) \/ \E j \in 1 .. i - 1 : j \in DOMAIN obj.maps /\ PathIs(j, x)
          BY <1>3, <4>1
        <4> QED
          BY <1>0, <2>5, <4>2, <4>3 DEF Same, Gone
      <3> QED
        BY <1>0, <1>2, <2>4, <2>6, <3>1, <3>3, <3>4, PinGoto
    <2> QED
      BY <2>7, <2>8
  <1>6. \/ /\ obj' = obj /\ fs' = fs
           /\ \/ Return(OK)
              \/ Goto("pinprogs", 1) /\ pc.call = "pin"
              \/ Goto("pinmaps", i + 1)
        \/ /\ i <= Len(obj.maps)
           /\ \E path : \E r \in Pin(m, path) :
                /\ fs' = r.fs /\ obj' = [obj EXCEPT !.maps[i] = r.m]
                /\ IF r.err = OK THEN Goto("pinmaps", i + 1) ELSE Goto("unpinback", i - 1)
    <2>1. CASE i > Len(obj.maps)
      BY <1>i, <2>1 DEF PinMap
    <2>2. CASE ~(i > Len(obj.maps))
      <3>1. i <= Len(obj.maps)
        BY <1>0, <1>1, <2>2
      <3> QED
        BY <1>i, <2>2, <3>1 DEF PinMap
    <2> QED
      BY <2>1, <2>2
  <1> QED
    BY <1>4, <1>5, <1>6
(* On the way back a path is emptied before its map is passed.              *)
LEMMA UnpinBackStep ==
  ASSUME UndoInv, UnpinBack
  PROVE  UndoInv'
  <1>i. PICK i : i = pc.i
    OBVIOUS
  <1>0. /\ ShapeInv /\ PinnedInv /\ pc.op = "unpinback" /\ pc.call \in {"pin_maps", "pin"}
        /\ UNCHANGED <<before, touched>> /\ i \in Nat /\ i <= Len(obj.maps)
    BY <1>i DEF UndoInv, ShapeInv, UnpinBack
  <1>1. Len(obj.maps) \in Nat /\ DOMAIN obj.maps = 1 .. Len(obj.maps)
    BY <1>0, SeqFacts DEF ShapeInv
  <1>2. ~stuck => \A x \in Paths \ touched :
          Same(x) \/ Gone(x) \/ \E j \in 1 .. i : PathIs(j, x)
    BY <1>i, <1>0 DEF UndoInv, PinInv
  <1>3. CASE i = 0
    <2>1. Return("pin") /\ UNCHANGED <<obj, fs, stuck>>
      BY <1>i, <1>3 DEF UnpinBack
    <2>2. MapsKept /\ DOMAIN fs' = Paths
      BY <1>0, <2>1 DEF ShapeInv, MapsKept
    <2>3. 1 .. i = {}
      BY <1>3
    <2>4. pc'.call = pc.call
      BY <1>0, <2>1, ReturnFacts
    <2>5. FailedCallUndone'
      BY <1>0, <1>2, <2>1, <2>3, <2>4 DEF FailedCallUndone, Same, Gone
    <2> QED
      BY <2>1, <2>2, <2>5, ReturnStep
  <1>4. CASE i # 0
    <2>1. i \in DOMAIN obj.maps /\ i - 1 \in Nat /\ i - 1 <= Len(obj.maps)
      BY <1>0, <1>1, <1>4
    <2>2. Goto("unpinback", i - 1)
      BY <1>i, <1>4 DEF UnpinBack
    <2>3. pc'.op = "unpinback" /\ pc'.i = i - 1
      BY <1>0, <2>2, GotoFacts
    <2>4. \A j \in 1 .. i : j # i => j \in 1 .. i - 1
      BY <1>0
    <2>5. SUFFICES /\ ShapeKept /\ DOMAIN fs' = Paths /\ PinInv'
                   /\ ~obj.loaded => \A j \in DOMAIN obj.maps : ~obj'.maps[j].pinned
      BY <1>0, <2>1, <2>2, PinGoto
    <2>6. CASE obj.maps[i].pin_path = NoPath
      <3>1. UNCHANGED <<obj, fs, stuck>>
        BY <1>i, <1>4, <2>6 DEF UnpinBack
      <3>2. ShapeKept /\ DOMAIN fs' = Paths
        BY <1>0, <3>1 DEF ShapeInv, ShapeKept
      <3>3. \A x \in Paths : ~PathIs(i, x)
        BY <2>6, NoPathOutside DEF PathIs
      <3>4. PinInv'
        BY <1>0, <1>2, <2>3, <2>4, <3>1, <3>3 DEF PinInv, Same, Gone, PathIs
      <3> QED
        BY <1>0, <3>1, <3>2, <3>4 DEF PinnedInv
    <2>7. CASE obj.maps[i].pin_path # NoPath
      <3>1. PICK r \in Unpin(obj.maps[i], NoPath) :
              /\ fs' = r.fs /\ obj' = [obj EXCEPT !.maps[i] = r.m]
              /\ stuck' = (stuck \/ r.err # OK)
        BY <1>i, <1>4, <2>7 DEF UnpinBack
      <3>2. /\ ShapeKept /\ DOMAIN fs' = Paths
            /\ \A j \in DOMAIN obj.maps :
                 /\ obj'.maps[j].pin_path = obj.maps[j].pin_path
                 /\ obj'.maps[j].reused = obj.maps[j].reused
                 /\ j # i => obj'.maps[j].pinned = obj.maps[j].pinned
            /\ r.err # OK => MapsKept /\ fs' = fs
            /\ r.err = OK =>
                 /\ ~obj'.maps[i].pinned
                 /\ \A x \in Paths : PathIs(i, x) => fs'[x] = None
                 /\ \A x \in Paths : ~PathIs(i, x) => fs'[x] = fs[x]
        BY <1>0, <2>1, <3>1, UnpinOwn
      <3>3. PinInv'
        <4>1. SUFFICES ASSUME ~stuck', NEW x \in Paths \ touched
                       PROVE  Same(x)' \/ Gone(x)' \/ \E j \in 1 .. i - 1 : PathIs(j, x)'
          BY <1>0, <2>3 DEF PinInv
        <4>2. ~stuck /\ r.err = OK
          BY <3>1, <4>1, Zenon
        <4>3. CASE PathIs(i, x)
          BY <3>2, <4>2, <4>3 DEF Gone
        <4>4. CASE ~PathIs(i, x)
          <5>1. fs'[x] = fs[x]
            BY <3>2, <4>2, <4>4
          <5>2. Same(x) \/ Gone(x) \/ \E j \in 1 .. i : PathIs(j, x)
            BY <1>2, <4>2
          <5>3. CASE Same(x) \/ Gone(x)
            BY <1>0, <5>1, <5>3 DEF Same, Gone
          <5>4. CASE \E j \in 1 .. i : PathIs(j, x)
            <6>1. PICK j \in 1 .. i : PathIs(j, x)
              BY <5>4
            <6>2. j \in 1 .. i - 1
              BY <2>4, <4>4, <6>1
            <6>3. j \in DOMAIN obj.maps
              BY <1>0, <1>1, <6>1
            <6> QED
              BY <3>2, <6>1, <6>2, <6>3 DEF PathIs
          <5> QED
            BY <5>2, <5>3, <5>4
        <4> QED
          BY <4>3, <4>4
      <3>4. ~obj.loaded => \A j \in DOMAIN obj.maps : ~obj'.maps[j].pinned
        BY <1>0, <2>1, <3>2 DEF PinnedInv, MapsKept
      <3> QED
        BY <3>2, <3>3, <3>4
    <2> QED
      BY <2>6, <2>7
  <1> QED
    BY <1>3, <1>4

(* The same upwards: bpf_object__unpin_maps, alone or after a failing pin.  *)
LEMMA UnpinMapsStep ==
  ASSUME UndoInv, UnpinMaps
  PROVE  UndoInv'
  <1>i. PICK i : i = pc.i
    OBVIOUS
  <1>0. /\ ShapeInv /\ PinnedInv /\ pc.op = "unpinmaps" /\ pc.call \in {"pin", "unpin_maps"}
        /\ UNCHANGED <<before, touched>> /\ i \in Nat /\ i >= 1
    BY <1>i DEF UndoInv, ShapeInv, UnpinMaps
  <1>1. Len(obj.maps) \in Nat /\ DOMAIN obj.maps = 1 .. Len(obj.maps)
    BY <1>0, SeqFacts DEF ShapeInv
  <1>2. ~stuck => \A x \in Paths \ touched :
          Same(x) \/ Gone(x) \/ \E j \in DOMAIN obj.maps : j >= i /\ PathIs(j, x)
    BY <1>i, <1>0 DEF UndoInv, PinInv
  <1>3. CASE i > Len(obj.maps)
    <2>1. (\E err : Return(err)) /\ UNCHANGED <<obj, fs, stuck>>
      BY <1>i, <1>3 DEF UnpinMaps
    <2>2. MapsKept /\ DOMAIN fs' = Paths
      BY <1>0, <2>1 DEF ShapeInv, MapsKept
    <2>3. \A j \in DOMAIN obj.maps : ~(j >= i)
      BY <1>0, <1>1, <1>3
    <2>4. pc'.call = pc.call
      BY <1>0, <2>1, ReturnFacts
    <2>5. FailedCallUndone'
      BY <1>0, <1>2, <2>1, <2>3, <2>4 DEF FailedCallUndone, Same, Gone
    <2> QED
      BY <2>1, <2>2, <2>5, ReturnStep
  <1>4. CASE ~(i > Len(obj.maps))
    <2>1. i \in DOMAIN obj.maps /\ i + 1 \in Nat /\ i + 1 >= 1
      BY <1>0, <1>1, <1>4
    <2>2. \A j \in DOMAIN obj.maps : j >= i /\ j # i => j >= i + 1
      BY <1>0, <1>1
    <2>3. CASE obj.maps[i].pin_path = NoPath /\ pc.dir = None
      <3>1. Goto("unpinmaps", i + 1) /\ UNCHANGED <<obj, fs, stuck>>
        BY <1>i, <1>4, <2>3 DEF UnpinMaps
      <3>2. ShapeKept /\ DOMAIN fs' = Paths
        BY <1>0, <3>1 DEF ShapeInv, ShapeKept
      <3>3. \A x \in Paths : ~PathIs(i, x)
        BY <2>3, NoPathOutside DEF PathIs
      <3>4. pc'.op = "unpinmaps" /\ pc'.i = i + 1
        BY <1>0, <3>1, GotoFacts
      <3>5. PinInv'
        BY <1>0, <1>2, <2>2, <3>1, <3>3, <3>4 DEF PinInv, Same, Gone, PathIs
      <3>6. ~obj.loaded => \A j \in DOMAIN obj.maps : ~obj'.maps[j].pinned
        BY <1>0, <3>1 DEF PinnedInv
      <3> QED
        BY <1>0, <2>1, <3>1, <3>2, <3>5, <3>6, PinGoto
    <2>4. CASE ~(obj.maps[i].pin_path = NoPath /\ pc.dir = None)
      <3>w. PICK path : path = Wanted(i)
        OBVIOUS
      <3>1. PICK r \in Unpin(obj.maps[i], path) :
              /\ fs' = r.fs /\ obj' = [obj EXCEPT !.maps[i] = r.m]
              /\ IF r.err = OK THEN Goto("unpinmaps", i + 1) ELSE Return(r.err)
              /\ stuck' = (stuck \/ r.err # OK)
        BY <1>i, <1>4, <2>4, <3>w DEF UnpinMaps
      <3>2. /\ ShapeKept /\ DOMAIN fs' = Paths
            /\ \A j \in DOMAIN obj.maps :
                 /\ obj'.maps[j].pin_path = obj.maps[j].pin_path
                 /\ j # i => obj'.maps[j].pinned = obj.maps[j].pinned
            /\ r.err # OK => MapsKept
            /\ r.err = OK =>
                 /\ ~obj'.maps[i].pinned
                 /\ \A x \in Paths : PathIs(i, x) => fs'[x] = None
                 /\ \A x \in Paths : fs'[x] = fs[x] \/ fs'[x] = None
        BY <1>0, <2>1, <3>1, UnpinOne
      <3>3. CASE r.err # OK
        <4>1. Return(r.err) /\ MapsKept
          BY <3>1, <3>2, <3>3
        <4>2. stuck'
          BY <3>1, <3>3, Zenon
        <4>3. FailedCallUndone'
          BY <4>2 DEF FailedCallUndone
        <4> QED
          BY <3>2, <4>1, <4>3, ReturnStep
      <3>4. CASE r.err = OK
        <4>1. Goto("unpinmaps", i + 1)
          BY <3>1, <3>4
        <4>2. pc'.op = "unpinmaps" /\ pc'.i = i + 1
          BY <1>0, <4>1, GotoFacts
        <4>3. PinInv'
          <5>1. SUFFICES ASSUME ~stuck', NEW x \in Paths \ touched
                         PROVE  \/ Same(x)' \/ Gone(x)'
                                \/ \E j \in DOMAIN obj'.maps : j >= i + 1 /\ PathIs(j, x)'
            BY <1>0, <4>2 DEF PinInv
          <5>2. ~stuck
            BY <3>1, <5>1, Zenon
          <5>3. CASE fs'[x] = None
            BY <5>3 DEF Gone
          <5>4. CASE fs'[x] = fs[x] /\ ~PathIs(i, x)
            <6>1. Same(x) \/ Gone(x) \/ \E j \in DOMAIN obj.maps : j >= i /\ PathIs(j, x)
              BY <1>2, <5>2
            <6>2. CASE Same(x) \/ Gone(x)
              BY <1>0, <5>4, <6>2 DEF Same, Gone
            <6>3. CASE \E j \in DOMAIN obj.maps : j >= i /\ PathIs(j, x)
              <7>1. PICK j \in DOMAIN obj.maps : j >= i /\ PathIs(j, x)
                BY <6>3
              <7>2. j >= i + 1
                BY <2>2, <5>4, <7>1
              <7>3. PathIs(j, x)' /\ j \in DOMAIN obj'.maps
                BY <3>2, <7>1 DEF PathIs, ShapeKept
              <7> QED
                BY <7>2, <7>3
            <6> QED
              BY <6>1, <6>2, <6>3
          <5> QED
            BY <3>2, <3>4, <5>3, <5>4
        <4>4. ~obj.loaded => \A j \in DOMAIN obj.maps : ~obj'.maps[j].pinned
          BY <1>0, <3>2, <3>4 DEF PinnedInv
        <4> QED
          BY <1>0, <2>1, <3>2, <4>1, <4>3, <4>4, PinGoto
      <3> QED
        BY <3>3, <3>4
    <2> QED
      BY <2>3, <2>4
  <1> QED
    BY <1>3, <1>4
(* The programs of an object are pinned all together or not at all.         *)
LEMMA PinProgramsStep ==
  ASSUME UndoInv, PinPrograms
  PROVE  UndoInv'
  <1>0. /\ ShapeInv /\ PinnedInv /\ pc.op = "pinprogs" /\ pc.call \in {"pin", "pin_programs"}
        /\ UNCHANGED <<obj, before, touched>>
    BY DEF UndoInv, ShapeInv, PinPrograms
  <1>1. MapsKept /\ ShapeKept
    BY <1>0 DEF ShapeInv, MapsKept, ShapeKept
  <1>2. /\ \/ Return(OK)
           \/ IF pc.call = "pin" THEN Goto("unpinmaps", 1) ELSE Return("pin")
        /\ \/ UNCHANGED <<fs, stuck>>
           \/ stuck' /\ \E x : fs' = [fs EXCEPT ![x] = "prog"]
           \/ Return(OK) /\ DOMAIN fs' = Paths
    BY DEF PinPrograms
  <1>3. DOMAIN fs' = Paths
    BY <1>0, <1>2 DEF ShapeInv
  <1>4. CASE Return(OK)
    BY <1>1, <1>3, <1>4, ReturnStep
  <1>5. CASE pc.call = "pin" /\ Goto("unpinmaps", 1) /\ ~Return(OK)
    <2>1. pc'.op = "unpinmaps" /\ pc'.i = 1
      BY <1>0, <1>5, GotoFacts
    <2>2. \A j \in DOMAIN obj.maps : j >= 1
      BY <1>0, SeqFacts DEF ShapeInv
    <2>3. PinInv'
      <3>1. CASE stuck'
        BY <3>1 DEF PinInv
      <3>2. CASE UNCHANGED <<fs, stuck>>
        <4>1. ~stuck => \A x \in Paths \ touched :
                Same(x) \/ Gone(x) \/ \E j \in DOMAIN obj.maps : PathIs(j, x)
          BY <1>0 DEF UndoInv, PinInv
        <4> QED
          BY <1>0, <2>1, <2>2, <3>2, <4>1 DEF PinInv, Same, Gone, PathIs
      <3> QED
        BY <1>2, <1>5, <3>1, <3>2
    <2>4. ~obj.loaded => \A j \in DOMAIN obj.maps : ~obj'.maps[j].pinned
      BY <1>0 DEF PinnedInv
    <2> QED
      BY <1>0, <1>1, <1>3, <1>5, <2>3, <2>4, PinGoto
  <1>6. CASE pc.call = "pin_programs" /\ Return("pin") /\ ~Return(OK)
    <2>1. \A x \in Paths \ touched : Same(x)
      BY <1>0, <1>6 DEF UndoInv, UnchangedInv
    <2>2. FailedCallUndone'
      <3>1. CASE stuck'
        BY <3>1 DEF FailedCallUndone
      <3>2. CASE UNCHANGED <<fs, stuck>>
        BY <1>0, <2>1, <3>2 DEF FailedCallUndone, Same
      <3> QED
        BY <1>2, <1>6, <3>1, <3>2
    <2> QED
      BY <1>1, <1>3, <1>6, <2>2, ReturnStep
  <1> QED
    BY <1>0, <1>2, <1>4, <1>5, <1>6

(* A set of indices that is not empty has a smallest one.                   *)
LEMMA SmallestIndex ==
  ASSUME NEW n \in Nat, NEW S \in SUBSET (1 .. n), S # {}
  PROVE  (CHOOSE p \in S : \A q \in S : p <= q) \in S
  <1>1. S \subseteq Nat
    OBVIOUS
  <1>2. PICK p \in S : \A q \in S : ~(<<q, p>> \in OpToRel(<, Nat))
    BY <1>1, NatLessThanWellFounded, WFMin
  <1>3. \A q \in S : p <= q
    <2>1. SUFFICES ASSUME NEW q \in S PROVE p <= q
      OBVIOUS
    <2>2. <<q, p>> \in Nat \X Nat /\ q \in Nat /\ p \in Nat
      BY <1>1
    <2>3. ~(q < p)
      BY <1>2, <2>2 DEF OpToRel
    <2> QED
      BY <2>2, <2>3
  <1> QED
    BY <1>3

(* Unpinning programs stops early only with an error of its own.            *)
LEMMA UnpinProgramsStep ==
  ASSUME UndoInv, UnpinPrograms
  PROVE  UndoInv'
  <1> DEFINE gone == {p \in DOMAIN Instances : ~UnpinnableProgram(p, ProgPath(pc.dir, p))}
             first == IF gone = {} THEN Len(Instances)
                      ELSE (CHOOSE p \in gone : \A q \in gone : p <= q) - 1
  <1>0. ShapeInv /\ UNCHANGED obj
    BY DEF UndoInv, UnpinPrograms
  <1>1. MapsKept
    BY <1>0, UnchangedMapsKept
  <1>2. PICK n \in 0 .. first :
          /\ fs' = [x \in Paths |-> IF \E p \in 1 .. n : x = ProgPath(pc.dir, p) THEN None ELSE fs[x]]
          /\ stuck' = (stuck \/ n < Len(Instances))
          /\ Return(IF n = Len(Instances) THEN OK ELSE "unpin")
    BY DEF UnpinPrograms
  <1>3. Len(Instances) \in Nat /\ DOMAIN Instances = 1 .. Len(Instances)
    BY BpfObjectAssumption
  <1>4. n = Len(Instances) \/ n < Len(Instances)
    <2>1. gone \in SUBSET (1 .. Len(Instances))
      BY <1>3
    <2> HIDE DEF gone
    <2>2. first \in Int /\ first <= Len(Instances)
      <3>1. CASE gone = {}
        BY <1>3, <3>1
      <3>2. CASE gone # {}
        <4> DEFINE least == CHOOSE p \in gone : \A q \in gone : p <= q
        <4>1. least \in 1 .. Len(Instances)
          BY <1>3, <2>1, <3>2, SmallestIndex
        <4> HIDE DEF least
        <4>2. first = least - 1
          BY <3>2 DEF least
        <4> QED
          BY <1>3, <4>1, <4>2
      <3> QED
        BY <3>1, <3>2
    <2> HIDE DEF first
    <2>3. n \in Int /\ n <= first
      BY <2>2
    <2>4. n <= Len(Instances)
      BY <1>3, <2>2, <2>3
    <2>5. \A a, b \in Int : a <= b => a = b \/ a < b
      OBVIOUS
    <2>6. Len(Instances) \in Int
      BY <1>3
    <2> QED
      BY <2>3, <2>4, <2>5, <2>6, Zenon
  <1>5. DOMAIN fs' = Paths
    BY <1>2
  <1>6. CASE n = Len(Instances)
    BY <1>1, <1>2, <1>5, <1>6, ReturnStep
  <1>7. CASE n # Len(Instances)
    <2>1. stuck'
      BY <1>2, <1>4, <1>7, Zenon
    <2>2. FailedCallUndone'
      BY <2>1 DEF FailedCallUndone
    <2> QED
      BY <1>1, <1>2, <1>5, <2>2, ReturnStep
  <1> QED
    BY <1>6, <1>7

-----------------------------------------------------------------------------
(* The other process                                                        *)

(* What another process does concerns a path that is touched from then on.  *)
LEMMA OtherStep ==
  ASSUME UndoInv, NEW path \in MapPaths, NEW what, OtherPin(path, what)
  PROVE  UndoInv'
  <1>1. UNCHANGED <<pc, obj, before, stuck>> /\ touched' = touched \cup {path}
    BY DEF OtherPin
  <1>2. DOMAIN fs' = Paths /\ \A x \in Paths : x # path => fs'[x] = fs[x]
    BY DEF UndoInv, ShapeInv, OtherPin
  <1>3. \A x \in Paths \ touched' : x \in Paths \ touched /\ fs'[x] = fs[x]
    BY <1>1, <1>2
  <1>4. ShapeInv' /\ PinnedInv'
    BY <1>1, <1>2 DEF UndoInv, ShapeInv, PinnedInv
  <1>5. UnchangedInv'
    BY <1>1, <1>3 DEF UndoInv, UnchangedInv, Same
  <1>6. LoadInv'
    BY <1>1, <1>3 DEF UndoInv, LoadInv, Same, PathIs
  <1>7. PinInv'
    BY <1>1, <1>3 DEF UndoInv, PinInv, Same, Gone, PathIs
  <1>8. FailedCallUndone'
    BY <1>1, <1>3 DEF UndoInv, FailedCallUndone
  <1> QED
    BY <1>4, <1>5, <1>6, <1>7, <1>8 DEF UndoInv

-----------------------------------------------------------------------------
(* The library's calls in any order                                         *)

(* Initially nothing is open and nothing is pinned.                         *)
LEMMA UndoInit ==
  ASSUME ObjInit
  PROVE  UndoInv
  <1>1. /\ DOMAIN pc = {"op", "call", "i", "dir", "err"}
        /\ pc.op = "idle" /\ pc.i = 0 /\ pc.err = OK
    BY DEF ObjInit
  <1>2. /\ DOMAIN obj = {"st", "loaded", "maps", "progs"} /\ obj.maps = <<>>
        /\ DOMAIN fs = Paths
    BY DEF ObjInit, Closed
  <1>3. ShapeInv
    BY <1>1, <1>2 DEF ShapeInv, IsSequence, LoadOps
  <1>4. PinnedInv /\ UnchangedInv /\ LoadInv /\ PinInv /\ FailedCallUndone
    BY <1>1, <1>2 DEF PinnedInv, UnchangedInv, LoadInv, PinInv, FailedCallUndone, LoadOps
  <1> QED
    BY <1>3, <1>4 DEF UndoInv

(* The invariant is about six of the variables only.                        *)
LEMMA UndoUnchanged ==
  ASSUME UndoInv, UNCHANGED <<pc, obj, fs, before, touched, stuck>>
  PROVE  UndoInv'
  BY DEF UndoInv, ShapeInv, PinnedInv, UnchangedInv, LoadInv, PinInv, FailedCallUndone,
         Same, Gone, PathIs

(* Every step of a library call, of any client, keeps it.                   *)
LEMMA UndoNext ==
  ASSUME UndoInv, ApiNext
  PROVE  UndoInv'
  <1>1. CASE Internal
    BY <1>1, SimpleReturns, ReuseStep, CreateStep, AutoPinStep, LoadProgramsStep, UndoStep,
       PinMapStep, UnpinBackStep, PinProgramsStep, UnpinMapsStep, UnpinProgramsStep,
       ReuseMapsSteps DEF Internal
  <1>2. CASE \E shape \in MapShapes : Open(shape)
    BY <1>2, OpenStep, BpfObjectAssumption DEF IsSequence
  <1>3. CASE LoadCall
    BY <1>3, LoadCallStep
  <1>4. CASE \E path \in MapPaths, what \in {"compat", "other"} : OtherPin(path, what)
    BY <1>4, OtherStep
  <1>5. CASE CloseCall
    BY <1>5, CloseStep
  <1>6. CASE \/ \E dir : \/ PinCall("pin_maps", dir) \/ PinCall("pin", dir) \/ UnpinCall(dir)
                         \/ PinProgramsCall(dir) \/ UnpinProgramsCall(dir) \/ ReuseMapsCall(dir)
             \/ UnloadCall
    BY <1>6, OtherCalls
  <1> QED
    BY <1>1, <1>2, <1>3, <1>4, <1>5, <1>6 DEF ApiNext

-----------------------------------------------------------------------------
(* The measuring program                                                    *)

(* A process that ends leaves an object that does not exist.                *)
LEMMA UndoIdle ==
  ASSUME DOMAIN pc' = {"op", "call", "i", "dir", "err"},
         pc'.op = "idle", pc'.i = 0, pc'.err = OK,
         DOMAIN obj' = {"st", "loaded", "maps", "progs"}, obj'.maps = <<>>, DOMAIN fs' = Paths
  PROVE  UndoInv'
  <1>1. ShapeInv'
    BY DEF ShapeInv, IsSequence, LoadOps
  <1>2. PinnedInv' /\ UnchangedInv' /\ LoadInv' /\ PinInv' /\ FailedCallUndone'
    BY DEF PinnedInv, UnchangedInv, LoadInv, PinInv, FailedCallUndone, LoadOps
  <1> QED
    BY <1>1, <1>2 DEF UndoInv

(* So do the end of the process and a kill ...                              *)
LEMMA UndoReset ==
  ASSUME UndoInv, fs' = fs,
         obj' = [Closed EXCEPT !.st = "none"],
         pc' = [op |-> "idle", call |-> "", i |-> 0, dir |-> None, err |-> OK]
  PROVE  UndoInv'
  <1>1. /\ DOMAIN pc' = {"op", "call", "i", "dir", "err"}
        /\ pc'.op = "idle" /\ pc'.i = 0 /\ pc'.err = OK
    OBVIOUS
  <1>2. /\ DOMAIN obj' = {"st", "loaded", "maps", "progs"} /\ obj'.maps = <<>>
        /\ DOMAIN fs' = Paths
    BY DEF Closed, UndoInv, ShapeInv
  <1> QED
    BY <1>1, <1>2, UndoIdle

(* ... whatever the exit code.                                              *)
LEMMA UndoExit ==
  ASSUME UndoInv, NEW c, Exit(c)
  PROVE  UndoInv'
  BY UndoReset DEF Exit

(* main's own calls are calls of the library; its other steps change none   *)
(* of what the invariant is about, or end the process.                      *)
LEMMA MainUndo ==
  ASSUME UndoInv, MainStep \/ DetachQuery
  PROVE  UndoInv'
  <1> DEFINE kept == UNCHANGED <<pc, obj, fs, before, touched, stuck>>
  <1>1. CASE kept
    BY <1>1, UndoUnchanged
  <1>2. CASE \E c : Exit(c)
    BY <1>2, UndoExit
  <1> HIDE DEF kept
  <1>3. UNCHANGED objvars => kept
    BY DEF objvars, kept
  <1>4. ASSUME NEW prog, NEW flags, NEW onOk, NEW onExist, Request(prog, flags, onOk, onExist)
        PROVE  UndoInv'
    <2>1. kept \/ \E c : Exit(c)
      BY <1>4 DEF Request, kept
    <2> QED
      BY <1>1, <1>2, <2>1
  <1>5. CASE OpenObject
    <2>1. PICK f \in DOMAIN ObjectFile : Open(ObjectFile[f])
      BY <1>5 DEF OpenObject
    <2>2. IsSequence(ObjectFile[f])
      <3>1. PICK S : ObjectFile[f] \in Seq(S)
        <4> DEFINE plain == [type |-> "UNSPEC", btf |-> FALSE, pin_path |-> NoPath]
        <4>1. ObjectFile[f] = <<plain, plain>> \/ ObjectFile[f] = <<plain>>
          BY DEF ObjectFile
        <4> HIDE DEF plain
        <4>2. <<plain, plain>> \in Seq({plain}) /\ <<plain>> \in Seq({plain})
          OBVIOUS
        <4> QED
          BY <4>1, <4>2, Zenon
      <3> QED
        BY <3>1, OwnElements
    <2> QED
      BY <2>1, <2>2, OpenStep
  <1>6. CASE LoadObject
    BY <1>2, <1>6, LoadCallStep DEF LoadObject
  <1>7. CASE LoadFailed
    BY <1>7, CloseStep DEF LoadFailed
  <1>8. CASE Internal
    BY <1>8, UndoNext DEF ApiNext
  <1>9. CASE Attach \/ RemoveOpposite \/ AttachAgain
    BY <1>4, <1>9 DEF Attach, RemoveOpposite, AttachAgain
  <1>10. CASE InstallHandler \/ LeaveLoop
    BY <1>1, <1>3, <1>10 DEF InstallHandler, LeaveLoop
  <1>11. CASE Parse
    BY <1>1, <1>2, <1>3, <1>11 DEF Parse
  <1>12. CASE Check
    BY <1>1, <1>2, <1>3, <1>12 DEF Check
  <1>13. CASE FindProgram \/ FindMaps \/ AllocLogs \/ ExportLogs
    BY <1>1, <1>2, <1>3, <1>13 DEF FindProgram, FindMaps, AllocLogs, ExportLogs
  <1>14. CASE GiveUp \/ DetachRemove
    BY <1>2, <1>14 DEF GiveUp, DetachRemove
  <1>15. CASE DetachQuery
    BY <1>1, <1>2, <1>3, <1>15 DEF DetachQuery
  <1> QED
    BY <1>5, <1>6, <1>7, <1>8, <1>9, <1>10, <1>11, <1>12, <1>13, <1>14, <1>15 DEF MainStep

(* Every step of the whole system keeps the invariant.                      *)
LEMMA MeasureUndo ==
  ASSUME UndoInv, Next
  PROVE  UndoInv'
  <1>1. CASE MainStep \/ DetachQuery
    BY <1>1, MainUndo
  <1>2. CASE \E a \in CmdLines : Start(a)
    BY <1>2, UndoUnchanged DEF Start, objvars
  <1>3. CASE Sigint
    BY <1>3, UndoUnchanged, UndoExit DEF Sigint, objvars
  <1>4. CASE Kill
    BY <1>4, UndoReset DEF Kill
  <1>5. CASE \E prog \in {0, Foreign}, flags \in {{"SKB"}, {"DRV"}, {"HW"}} : OtherLink(prog, flags)
    BY <1>5, UndoUnchanged DEF OtherLink, objvars
  <1>6. CASE ApiNext
    BY <1>6, UndoNext
  <1> QED
    BY <1>1, <1>2, <1>3, <1>4, <1>5, <1>6 DEF Next

(* A library call that returned an error has undone what it did to the BPF  *)
(* file system, as FailedCallUndone states it: under any sequence of calls, *)
(* while the measuring program is started, interrupted and killed, with     *)
(* failing system calls and other processes in the same directory and at    *)
(* the same link; for any number of maps, programs, calls, faults, runs and *)
(* steps of the others.                                                     *)
THEOREM FailedCallsUndone == Spec => []FailedCallUndone
  <1>1. Init => UndoInv
    BY UndoInit DEF Init
  <1>2. UndoInv /\ [Next]_vars => UndoInv'
    BY MeasureUndo, UndoUnchanged DEF vars, objvars
  <1>3. UndoInv => FailedCallUndone
    BY DEF UndoInv
  <1> QED
    BY <1>1, <1>2, <1>3, PTL DEF Spec

-----------------------------------------------------------------------------
(* The program that is attached                                             *)

(* A set of numbers has a smallest one.                                     *)
LEMMA SmallestNat ==
  ASSUME NEW S \in SUBSET Nat, S # {}
  PROVE  \E p \in S : \A q \in S : p <= q
  <1>1. PICK p \in S : \A q \in S : ~(<<q, p>> \in OpToRel(<, Nat))
    BY NatLessThanWellFounded, WFMin
  <1>2. \A q \in S : p <= q
    <2>1. SUFFICES ASSUME NEW q \in S PROVE p <= q
      OBVIOUS
    <2>2. <<q, p>> \in Nat \X Nat /\ q \in Nat /\ p \in Nat
      OBVIOUS
    <2>3. ~(q < p)
      BY <1>1, <2>2 DEF OpToRel
    <2> QED
      BY <2>2, <2>3
  <1> QED
    BY <1>2

(* The options that choose a mode, and the flags they stand for.            *)
ModeOptions == {"A", "S", "N"}
(* o is the last mode option among the first n arguments, "A" if none is.    *)
LastOption(args, n, o) ==
  \/ o = "A" /\ \A i \in 1 .. n : args[i] \notin ModeOptions
  \/ o \in ModeOptions /\ \E i \in 1 .. n : args[i] = o /\ \A j \in (i + 1) .. n : args[j] \notin ModeOptions
ModeFlags(o) == IF o = "S" THEN {"SKB"} ELSE IF o = "N" THEN {"DRV"} ELSE {}

(* What holds of cfg after n turns of the loop.                              *)
ParsedTo(c, args, n) ==
  /\ DOMAIN c = DOMAIN DefaultConfig
  /\ c.exit = "none" => \E o : LastOption(args, n, o) /\ c.xdp_flags = ModeFlags(o)

(* One turn of the loop of parse_cmdline_args.                              *)
LEMMA ParseTurn ==
  ASSUME NEW args, NEW n \in Nat, NEW c, ParsedTo(c, args, n)
  PROVE  ParsedTo(ParseOption(c, args[n + 1]), args, n + 1)
  <1> DEFINE d == ParseOption(c, args[n + 1])
             opt == args[n + 1]
  <1>1. DOMAIN d = DOMAIN c
    BY DEF ParseOption
  <1>2. ASSUME d.exit = "none" PROVE \E o : LastOption(args, n + 1, o) /\ d.xdp_flags = ModeFlags(o)
    <2>1. c.exit = "none"
      BY <1>2 DEF ParseOption
    <2>2. PICK o : LastOption(args, n, o) /\ c.xdp_flags = ModeFlags(o)
      BY <2>1 DEF ParsedTo
    <2>3. CASE opt \in ModeOptions
      <3>1. LastOption(args, n + 1, opt)
        <4>1. n + 1 \in 1 .. n + 1 /\ \A j \in (n + 1 + 1) .. n + 1 : FALSE
          OBVIOUS
        <4> QED
          BY <2>3, <4>1 DEF LastOption
      <3>2. d.xdp_flags = ModeFlags(opt)
        BY <2>1, <2>2, <2>3 DEF ParseOption, ModeFlags, XDP_FLAGS_MODES, ModeOptions, ParsedTo, DefaultConfig
      <3> QED
        BY <3>1, <3>2
    <2>4. CASE opt \notin ModeOptions
      <3>1. LastOption(args, n + 1, o)
        <4>1. \A j \in 1 .. n + 1 : j \in 1 .. n \/ j = n + 1
          OBVIOUS
        <4>2. \A i \in 1 .. n : i \in 1 .. n + 1 /\ \A j \in (i + 1) .. n + 1 : j \in (i + 1) .. n \/ j = n + 1
          OBVIOUS
        <4> QED
          BY <2>2, <2>4, <4>1, <4>2 DEF LastOption
      <3>2. d.xdp_flags = ModeFlags(o)
        <4>1. ModeFlags(o) \ {"UPDATE_IF_NOEXIST"} = ModeFlags(o)
          BY DEF ModeFlags
        <4> QED
          BY <1>2, <2>1, <2>2, <2>4, <4>1 DEF ParseOption, ModeOptions, ParsedTo, DefaultConfig
      <3> QED
        BY <3>1, <3>2
    <2> QED
      BY <2>3, <2>4
  <1> QED
    BY <1>1, <1>2 DEF ParsedTo

(* f is what the loop makes of the arguments.                               *)
Loop(args, n, f) ==
  f = [i \in 0 .. n |-> IF i = 0 THEN DefaultConfig ELSE ParseOption(f[i - 1], args[i])]

(* There is such a function, whatever the arguments.                        *)
LEMMA LoopRuns ==
  ASSUME NEW args, NEW n \in Nat
  PROVE  \E f : Loop(args, n, f) /\ ParsedTo(f[n], args, n)
  <1> DEFINE Good(m) == \E f : Loop(args, m, f) /\ ParsedTo(f[m], args, m)
             bad == {m \in Nat : ~Good(m)}
  <1>1. SUFFICES ASSUME bad # {} PROVE FALSE
    OBVIOUS
  <1>2. PICK m \in bad : \A q \in bad : m <= q
    <2>1. bad \in SUBSET Nat
      OBVIOUS
    <2> HIDE DEF bad
    <2> QED
      BY <1>1, <2>1, SmallestNat
  <1>3. CASE m = 0
    <2> DEFINE f == [i \in 0 .. 0 |-> DefaultConfig]
    <2>1. Loop(args, 0, f)
      <3>1. f = [i \in 0 .. 0 |-> IF i = 0 THEN DefaultConfig ELSE ParseOption(f[i - 1], args[i])]
        OBVIOUS
      <3> QED
        BY <3>1 DEF Loop
    <2>2. ParsedTo(f[0], args, 0)
      <3>1. f[0] = DefaultConfig
        OBVIOUS
      <3>2. LastOption(args, 0, "A") /\ ModeFlags("A") = {}
        BY DEF LastOption, ModeFlags
      <3>3. ParsedTo(DefaultConfig, args, 0)
        BY <3>2 DEF ParsedTo, DefaultConfig
      <3> QED
        BY <3>1, <3>3
    <2>3. Good(0)
      BY <2>1, <2>2
    <2> QED
      BY <1>3, <2>3
  <1>4. CASE m # 0
    <2>1. m - 1 \in Nat /\ (m - 1) + 1 = m
      BY <1>4
    <2>2. Good(m - 1)
      <3>1. m - 1 \notin bad
        BY <1>2, <2>1
      <3> QED
        BY <2>1, <3>1
    <2>3. PICK f : Loop(args, m - 1, f) /\ ParsedTo(f[m - 1], args, m - 1)
      BY <2>2
    <2> DEFINE g == [i \in 0 .. m |-> IF i = m THEN ParseOption(f[m - 1], args[m]) ELSE f[i]]
    <2>4. Loop(args, m, g)
      <3>1. \A i \in 0 .. m : g[i] = (IF i = 0 THEN DefaultConfig ELSE ParseOption(g[i - 1], args[i]))
        <4>1. SUFFICES ASSUME NEW i \in 0 .. m
                       PROVE  g[i] = (IF i = 0 THEN DefaultConfig ELSE ParseOption(g[i - 1], args[i]))
          OBVIOUS
        <4>2. CASE i = m
          <5>1. m - 1 \in 0 .. m /\ m - 1 # m /\ m \in 0 .. m
            BY <2>1
          <5>2. g[m] = ParseOption(f[m - 1], args[m]) /\ g[m - 1] = f[m - 1]
            BY <5>1
          <5> HIDE DEF g
          <5> QED
            BY <1>4, <4>2, <5>2
        <4>3. CASE i # m
          <5>1. i \in 0 .. m - 1
            BY <2>1, <4>3
          <5>2. g[i] = f[i]
            BY <4>3
          <5>3. f[i] = (IF i = 0 THEN DefaultConfig ELSE ParseOption(f[i - 1], args[i]))
            BY <2>3, <5>1 DEF Loop
          <5>4. i # 0 => i - 1 \in 0 .. m /\ i - 1 # m
            BY <2>1, <5>1
          <5>5. i # 0 => g[i - 1] = f[i - 1]
            BY <5>4
          <5> HIDE DEF g
          <5> QED
            BY <5>2, <5>3, <5>5
        <4> QED
          BY <4>2, <4>3
      <3>2. DOMAIN g = 0 .. m /\ g = [i \in 0 .. m |-> g[i]]
        OBVIOUS
      <3> HIDE DEF g
      <3>3. g = [i \in 0 .. m |-> IF i = 0 THEN DefaultConfig ELSE ParseOption(g[i - 1], args[i])]
        BY <3>1, <3>2
      <3> QED
        BY <3>3 DEF Loop
    <2>5. ParsedTo(g[m], args, m)
      <3>1. ParsedTo(ParseOption(f[m - 1], args[(m - 1) + 1]), args, (m - 1) + 1)
        BY <2>1, <2>3, ParseTurn
      <3>2. g[m] = ParseOption(f[m - 1], args[m])
        BY <2>1
      <3> HIDE DEF g
      <3> QED
        BY <2>1, <3>1, <3>2
    <2>6. Good(m)
      BY <2>4, <2>5
    <2> QED
      BY <2>6
  <1> QED
    BY <1>3, <1>4

(* There is one.                                                            *)
LEMMA LoopUnique ==
  ASSUME NEW args, NEW n \in Nat, NEW f, NEW g, Loop(args, n, f), Loop(args, n, g)
  PROVE  f[n] = g[n]
  <1> DEFINE bad == {i \in 0 .. n : f[i] # g[i]}
  <1>1. SUFFICES ASSUME bad # {} PROVE FALSE
    OBVIOUS
  <1>2. PICK m \in bad : \A q \in bad : m <= q
    <2>1. bad \in SUBSET Nat
      OBVIOUS
    <2> HIDE DEF bad
    <2> QED
      BY <1>1, <2>1, SmallestNat
  <1>3. /\ f[m] = (IF m = 0 THEN DefaultConfig ELSE ParseOption(f[m - 1], args[m]))
        /\ g[m] = (IF m = 0 THEN DefaultConfig ELSE ParseOption(g[m - 1], args[m]))
    BY DEF Loop
  <1>4. m # 0 => f[m - 1] = g[m - 1]
    <2>1. SUFFICES ASSUME m # 0 PROVE f[m - 1] = g[m - 1]
      OBVIOUS
    <2>2. m - 1 \in 0 .. n /\ ~(m <= m - 1)
      BY <2>1
    <2> QED
      BY <1>2, <2>2
  <1> QED
    BY <1>3, <1>4

(* What the command line comes to.                                          *)
LEMMA ParseCmdlineIs ==
  ASSUME NEW args \in Seq(STRING)
  PROVE  ParsedTo(ParseCmdline(args), args, Len(args))
  <1> DEFINE n == Len(args)
             after == CHOOSE f : f = [i \in 0 .. n |-> IF i = 0 THEN DefaultConfig ELSE ParseOption(f[i - 1], args[i])]
  <1>1. n \in Nat
    OBVIOUS
  <1>2. PICK f : Loop(args, n, f) /\ ParsedTo(f[n], args, n)
    BY <1>1, LoopRuns
  <1>3. Loop(args, n, after)
    BY <1>2 DEF Loop
  <1>4. ParseCmdline(args) = after[n]
    BY DEF ParseCmdline
  <1> QED
    BY <1>1, <1>2, <1>3, <1>4, LoopUnique

(* The mode flags of a parsed command line name the mode of its last option. *)
LEMMA ModeAsked ==
  ASSUME NEW args \in Seq(STRING), ParseCmdline(args).exit = "none", NEW hook \in BOOLEAN
  PROVE  LET modes == {i \in DOMAIN args : args[i] \in {"A", "S", "N"}}
             mode == IF modes = {} THEN "A" ELSE args[CHOOSE i \in modes : \A j \in modes : j <= i]
         IN  (CASE mode = "S" -> "SKB" [] mode = "N" -> "DRV" [] OTHER -> IF hook THEN "DRV" ELSE "SKB")
               = (IF mode = "N" THEN "DRV" ELSE KernelMode(ParseCmdline(args).xdp_flags, hook))
             /\ ParseCmdline(args).xdp_flags = ModeFlags(mode)
  <1> DEFINE modes == {i \in DOMAIN args : args[i] \in {"A", "S", "N"}}
             mode == IF modes = {} THEN "A" ELSE args[CHOOSE i \in modes : \A j \in modes : j <= i]
  <1>1. PICK o : LastOption(args, Len(args), o) /\ ParseCmdline(args).xdp_flags = ModeFlags(o)
    BY ParseCmdlineIs DEF ParsedTo
  <1>2. Len(args) \in Nat /\ DOMAIN args = 1 .. Len(args)
    OBVIOUS
  <1>3. mode = o
    <2>1. CASE o = "A" /\ \A i \in 1 .. Len(args) : args[i] \notin ModeOptions
      BY <1>2, <2>1 DEF ModeOptions
    <2>2. CASE o \in ModeOptions /\ \E i \in 1 .. Len(args) : args[i] = o /\ \A j \in (i + 1) .. Len(args) : args[j] \notin ModeOptions
      <3>1. PICK i \in 1 .. Len(args) : args[i] = o /\ \A j \in (i + 1) .. Len(args) : args[j] \notin ModeOptions
        BY <2>2
      <3>2. i \in modes
        BY <1>2, <2>2, <3>1 DEF ModeOptions
      <3>3. \A j \in modes : j <= i
        BY <1>2, <3>1 DEF ModeOptions
      <3>4. \A k \in modes : (\A j \in modes : j <= k) => k = i
        BY <1>2, <3>2, <3>3
      <3> HIDE DEF modes
      <3>5. (CHOOSE k \in modes : \A j \in modes : j <= k) = i
        BY <3>2, <3>3, <3>4
      <3> QED
        BY <3>1, <3>2, <3>5
    <2> QED
      BY <1>1, <2>1, <2>2 DEF LastOption
  <1> HIDE DEF mode, modes
  <1>4. o \in {"A", "S", "N"}
    BY <1>1 DEF LastOption, ModeOptions
  <1>5. (CASE o = "S" -> "SKB" [] o = "N" -> "DRV" [] OTHER -> IF hook THEN "DRV" ELSE "SKB")
               = (IF o = "N" THEN "DRV" ELSE KernelMode(ModeFlags(o), hook))
    BY <1>4 DEF KernelMode, ModeFlags
  <1> QED
    BY <1>1, <1>3, <1>5 DEF mode, modes

(* The command line has been read.                                          *)
Parsed == mpc \notin {"off", "boot", "parse"}
(* cfg is what the command line says; link is one program for each mode.     *)
ConfigInv ==
  /\ link \in [Modes -> Nat] /\ native \in BOOLEAN /\ run \in Nat
  /\ mpc # "off" => argv \in Seq(STRING)
  /\ Parsed => cfg = ParseCmdline(argv) /\ cfg.exit = "none"
(* What main attached is there until another process changes the link.       *)
AskedMode == KernelMode(cfg.xdp_flags, native)
(* From the maps on, the program of this run is attached as asked, unless   *)
(* somebody else changed the link.                                          *)
AttachedInv ==
  mpc \in {"maps", "malloc", "loop", "export"} /\ cfg.filename # "" /\ ~disturbed =>
    /\ link[AskedMode] = run
    /\ ~native => "DRV" \notin cfg.xdp_flags
(* The inductive invariant.                                                 *)
AskedInv == ConfigInv /\ AttachedInv

(* It implies what the run checks.                                          *)
LEMMA AskedImplies ==
  ASSUME AskedInv
  PROVE  AttachedAsAsked
  <1>1. SUFFICES ASSUME mpc \in {"maps", "loop", "export"}, cfg.filename # "", ~disturbed
                 PROVE  LET modes == {i \in DOMAIN argv : argv[i] \in {"A", "S", "N"}}
                            mode == IF modes = {} THEN "A" ELSE argv[CHOOSE i \in modes : \A j \in modes : j <= i]
                        IN  link[CASE mode = "S" -> "SKB" [] mode = "N" -> "DRV"
                                   [] OTHER -> IF native THEN "DRV" ELSE "SKB"] = run
    BY DEF AttachedAsAsked
  <1> DEFINE modes == {i \in DOMAIN argv : argv[i] \in {"A", "S", "N"}}
             mode == IF modes = {} THEN "A" ELSE argv[CHOOSE i \in modes : \A j \in modes : j <= i]
  <1>2. /\ argv \in Seq(STRING) /\ cfg = ParseCmdline(argv) /\ cfg.exit = "none" /\ native \in BOOLEAN
        /\ link[AskedMode] = run /\ (~native => "DRV" \notin cfg.xdp_flags)
    BY <1>1 DEF AskedInv, ConfigInv, AttachedInv, Parsed
  <1>3. /\ (CASE mode = "S" -> "SKB" [] mode = "N" -> "DRV" [] OTHER -> IF native THEN "DRV" ELSE "SKB")
               = (IF mode = "N" THEN "DRV" ELSE KernelMode(cfg.xdp_flags, native))
        /\ cfg.xdp_flags = ModeFlags(mode)
    BY <1>2, ModeAsked
  <1> HIDE DEF mode, modes
  <1>4. CASE mode # "N"
    BY <1>2, <1>3, <1>4 DEF mode, modes, AskedMode
  <1>5. CASE mode = "N"
    <2>1. cfg.xdp_flags = {"DRV"}
      BY <1>3, <1>5 DEF ModeFlags
    <2>2. KernelMode(cfg.xdp_flags, native) = "DRV"
      BY <1>2, <2>1 DEF KernelMode
    <2> QED
      BY <1>2, <1>3, <1>5, <2>2 DEF mode, modes, AskedMode
  <1> QED
    BY <1>4, <1>5

(* What the kernel makes of a request: types.                               *)
LEMMA KernelSetIs ==
  ASSUME NEW l \in [Modes -> Nat], NEW hook \in BOOLEAN, NEW prog \in Nat, NEW flags
  PROVE  /\ KernelSet(l, hook, prog, flags).link \in [Modes -> Nat]
         /\ KernelMode(flags, hook) \in Modes
  <1>1. KernelMode(flags, hook) \in Modes
    BY DEF KernelMode, Modes
  <1>2. [l EXCEPT ![KernelMode(flags, hook)] = prog] \in [Modes -> Nat]
    BY <1>1
  <1> QED
    BY <1>1, <1>2 DEF KernelSet

(* Program prog attached in mode m.                                         *)
Put(l, m, prog) == [l EXCEPT ![m] = prog]
(* A request that succeeds attaches its program in its mode.                *)
LEMMA KernelSetOk ==
  ASSUME NEW l \in [Modes -> Nat], NEW hook \in BOOLEAN, NEW prog \in Nat, NEW flags,
         KernelSet(l, hook, prog, flags).err = ""
  PROVE  KernelSet(l, hook, prog, flags).link = Put(l, KernelMode(flags, hook), prog)
  BY DEF KernelSet, Put

(* One that fails changes nothing.                                          *)
LEMMA KernelSetErr ==
  ASSUME NEW l \in [Modes -> Nat], NEW hook \in BOOLEAN, NEW prog \in Nat, NEW flags,
         KernelSet(l, hook, prog, flags).err # ""
  PROVE  KernelSet(l, hook, prog, flags).link = l
  BY DEF KernelSet

(* Without a hook in the driver no request for it succeeds.                 *)
LEMMA KernelSetHook ==
  ASSUME NEW l \in [Modes -> Nat], NEW hook \in BOOLEAN, NEW prog \in Nat, NEW flags,
         KernelSet(l, hook, prog, flags).err = "", ~hook
  PROVE  "DRV" \notin flags
  <1>1. "DRV" \in flags => flags \cap {"DRV", "HW"} # {}
    OBVIOUS
  <1> QED
    BY <1>1 DEF KernelSet

(* What a netlink request of main leads to.                                 *)
LEMMA RequestResult ==
  ASSUME ConfigInv, NEW prog \in Nat, NEW flags, NEW onOk, NEW onExist, Request(prog, flags, onOk, onExist)
  PROVE  /\ link' \in [Modes -> Nat]
         /\ \/ mpc' = "off" /\ cfg' = cfg /\ UNCHANGED runvars
            \/ /\ mpc' = onOk /\ cfg' = cfg /\ UNCHANGED runvars /\ onOk # "exit"
               /\ link' = [link EXCEPT ![KernelMode(flags, native)] = prog]
               /\ ~native => "DRV" \notin flags
            \/ mpc' = onExist /\ cfg' = cfg /\ UNCHANGED runvars /\ onExist # "exit"
  <1> DEFINE k == KernelSet(link, native, prog, flags)
  <1>1. PICK r \in SetLinkXdpFd(link, native, prog, flags) :
          /\ link' = r.link
          /\ LET next == CASE r.err = "" -> onOk [] r.err = "EEXIST" -> onExist [] OTHER -> "exit"
             IN  IF next = "exit" THEN Exit(EXIT_FAIL_XDP)
                 ELSE To(next) /\ UNCHANGED <<pc, obj, proc, fs, calls, others, before, touched, stuck, cfg>>
    BY DEF Request
  <1>0. link \in [Modes -> Nat] /\ native \in BOOLEAN
    BY DEF ConfigInv
  <1>2. /\ k.link \in [Modes -> Nat]
        /\ k.err = "" => /\ k.link = [link EXCEPT ![KernelMode(flags, native)] = prog]
                         /\ ~native => "DRV" \notin flags
        /\ k.err # "" => k.link = link
    <2>1. k.link \in [Modes -> Nat]
      BY <1>0, KernelSetIs
    <2>2. k.err # "" => k.link = link
      BY <1>0, KernelSetErr
    <2>3. k.err = "" => (~native => "DRV" \notin flags)
      BY <1>0, KernelSetHook
    <2>4. k.err = "" => k.link = [link EXCEPT ![KernelMode(flags, native)] = prog]
      <3>1. k.err = "" => k.link = Put(link, KernelMode(flags, native), prog)
        BY <1>0, KernelSetOk
      <3> HIDE DEF k
      <3> QED
        BY <3>1 DEF Put
    <2> QED
      BY <2>1, <2>2, <2>3, <2>4
  <1> HIDE DEF k
  <1>3. \/ r = [link |-> k.link, err |-> k.err, faults |-> 0]
        \/ r = [link |-> link, err |-> "socket", faults |-> 1]
        \/ r = [link |-> k.link, err |-> "recv", faults |-> 1]
    BY DEF SetLinkXdpFd, k
  <1>4. r.link \in [Modes -> Nat] /\ (r.err = "" => r.link = k.link /\ k.err = "")
    <2>1. CASE r = [link |-> k.link, err |-> k.err, faults |-> 0]
      BY <1>2, <2>1
    <2>2. CASE r = [link |-> link, err |-> "socket", faults |-> 1]
      BY <1>0, <2>2
    <2>3. CASE r = [link |-> k.link, err |-> "recv", faults |-> 1]
      BY <1>2, <2>3
    <2> QED
      BY <1>3, <2>1, <2>2, <2>3
  <1>5. CASE r.err = "" /\ onOk # "exit"
    BY <1>1, <1>2, <1>4, <1>5 DEF To
  <1>6. CASE r.err = "EEXIST" /\ onExist # "exit"
    BY <1>1, <1>4, <1>6 DEF To
  <1>7. CASE ~(r.err = "" /\ onOk # "exit") /\ ~(r.err = "EEXIST" /\ onExist # "exit")
    BY <1>1, <1>4, <1>7 DEF Exit
  <1> QED
    BY <1>5, <1>6, <1>7

(* At first nothing runs.                                                   *)
LEMMA AskedInit ==
  ASSUME Init
  PROVE  AskedInv
  <1>1. link \in [Modes -> Nat] /\ native \in BOOLEAN /\ run = 0 /\ mpc = "off"
    BY DEF Init, EmptyLink
  <1> QED
    BY <1>1 DEF AskedInv, ConfigInv, AttachedInv, Parsed

(* A step of main that leaves the link alone, or ends the program.           *)
LEMMA AskedQuiet ==
  ASSUME AskedInv, link' \in [Modes -> Nat], native' = native, run' = run, argv' = argv, cfg' = cfg,
         \/ mpc' = "off"
         \/ /\ Parsed /\ mpc' # "parse" /\ mpc' # "boot"
            /\ \/ mpc' \notin {"maps", "malloc", "loop", "export"}
               \/ /\ mpc \in {"maps", "malloc", "loop", "export"} /\ link' = link
                  /\ (~disturbed' => ~disturbed)
               \/ mpc' = "malloc" /\ cfg.filename = ""
               \/ link'[AskedMode] = run /\ (~native => "DRV" \notin cfg.xdp_flags)
  PROVE  AskedInv'
  <1>1. ConfigInv'
    BY DEF AskedInv, ConfigInv, Parsed
  <1>2. AttachedInv'
    BY DEF AskedInv, AttachedInv, AskedMode
  <1> QED
    BY <1>1, <1>2 DEF AskedInv

(* An exit.                                                                 *)
LEMMA AskedExit ==
  ASSUME AskedInv, NEW c, Exit(c), link' \in [Modes -> Nat]
  PROVE  AskedInv'
  <1>1. mpc' = "off" /\ native' = native /\ run' = run /\ argv' = argv /\ cfg' = cfg
    BY DEF Exit, runvars
  <1> QED
    BY <1>1, AskedQuiet

(* xdp_link_attach: the first try, the removal of the program in the        *)
(* opposite mode, the second try.                                           *)
LEMMA AskedAttach ==
  ASSUME AskedInv, Attach \/ RemoveOpposite \/ AttachAgain
  PROVE  AskedInv'
  <1>1. ConfigInv /\ run \in Nat /\ link \in [Modes -> Nat] /\ Parsed /\ KernelMode(cfg.xdp_flags, native) \in Modes
    BY DEF AskedInv, ConfigInv, Attach, RemoveOpposite, AttachAgain, At, Parsed, KernelMode, Modes
  <1>2. CASE Attach \/ AttachAgain
    <2>1. /\ link' \in [Modes -> Nat]
          /\ \/ mpc' = "off" /\ cfg' = cfg /\ UNCHANGED runvars
             \/ /\ mpc' = "maps" /\ cfg' = cfg /\ UNCHANGED runvars
                /\ link' = [link EXCEPT ![KernelMode(cfg.xdp_flags, native)] = run]
                /\ ~native => "DRV" \notin cfg.xdp_flags
             \/ mpc' = "remove" /\ cfg' = cfg /\ UNCHANGED runvars
      <3>1. CASE Attach
        BY <1>1, <3>1, RequestResult DEF Attach
      <3>2. CASE AttachAgain
        BY <1>1, <3>2, RequestResult DEF AttachAgain, RetryFlags
      <3> QED
        BY <1>2, <3>1, <3>2
    <2>2. native' = native /\ run' = run /\ argv' = argv /\ cfg' = cfg
      BY <2>1 DEF runvars
    <2>3. link' = [link EXCEPT ![KernelMode(cfg.xdp_flags, native)] = run] => link'[AskedMode] = run
      BY <1>1 DEF AskedMode
    <2> QED
      BY <1>1, <2>1, <2>2, <2>3, AskedQuiet
  <1>3. CASE RemoveOpposite
    <2>1. /\ link' \in [Modes -> Nat] /\ cfg' = cfg /\ UNCHANGED runvars
          /\ mpc' = "off" \/ mpc' = "again"
      <3>1. 0 \in Nat
        OBVIOUS
      <3> QED
        BY <1>1, <1>3, <3>1, RequestResult DEF RemoveOpposite
    <2> QED
      BY <1>1, <2>1, AskedQuiet DEF runvars
  <1> QED
    BY <1>2, <1>3

(* The steps of main between loading and detaching.                         *)
LEMMA AskedMain ==
  ASSUME AskedInv, MainStep \/ DetachQuery
  PROVE  AskedInv'
  <1>0. link \in [Modes -> Nat] /\ native \in BOOLEAN
    BY DEF AskedInv, ConfigInv
  <1>1. CASE InstallHandler
    <2>1. mpc = "boot" /\ mpc' = "parse" /\ UNCHANGED <<runvars, cfg, link>>
      BY <1>1 DEF InstallHandler, At, To
    <2> QED
      BY <2>1 DEF AskedInv, ConfigInv, AttachedInv, Parsed, runvars
  <1>2. CASE Parse
    <2>1. CASE ParseCmdline(argv).exit = "none" /\ cfg' = ParseCmdline(argv) /\ To("check") /\ link' = link
      <3>1. mpc = "parse"
        BY <1>2 DEF Parse, At
      <3> QED
        BY <2>1, <3>1 DEF To, AskedInv, ConfigInv, AttachedInv, Parsed, runvars
    <2>2. CASE \E c : Exit(c) /\ link' = link
      BY <1>0, <2>2, AskedExit
    <2> QED
      BY <1>2, <2>1, <2>2 DEF Parse
  <1>3. CASE Check
    <2>1. CASE \E c : Exit(c) /\ link' = link
      BY <1>0, <2>1, AskedExit
    <2>2. CASE /\ To(IF cfg.do_unload THEN "detach" ELSE IF cfg.filename # "" THEN "open" ELSE "malloc")
               /\ UNCHANGED <<cfg, link>>
      <3>1. mpc = "check" /\ UNCHANGED runvars
            /\ (mpc' = "detach" \/ mpc' = "open" \/ (mpc' = "malloc" /\ cfg.filename = ""))
        BY <1>3, <2>2 DEF Check, At, To
      <3> QED
        BY <1>0, <2>2, <3>1, AskedQuiet DEF Parsed, runvars
    <2> QED
      BY <1>3, <2>1, <2>2 DEF Check
  <1>4. CASE OpenObject \/ LoadFailed
    <2>1. Parsed /\ UNCHANGED <<runvars, cfg, link>> /\ mpc' \in {"opening", "notloaded"}
      BY <1>4 DEF OpenObject, LoadFailed, At, To, Parsed
    <2> QED
      BY <1>0, <2>1, AskedQuiet DEF runvars
  <1>5. CASE LoadObject \/ FindProgram
    <2>1. CASE \E c : Exit(c) /\ link' = link
      BY <1>0, <2>1, AskedExit
    <2>2. CASE Parsed /\ UNCHANGED <<runvars, cfg, link>> /\ mpc' \in {"loading", "attach"}
      BY <1>0, <2>2, AskedQuiet DEF runvars
    <2> QED
      BY <1>5, <2>1, <2>2 DEF LoadObject, FindProgram, At, To, Parsed
  <1>6. CASE GiveUp
    BY <1>0, <1>6, AskedExit DEF GiveUp
  <1>7. CASE Attach \/ RemoveOpposite \/ AttachAgain
    BY <1>7, AskedAttach
  <1>8. CASE FindMaps \/ AllocLogs \/ ExportLogs \/ LeaveLoop
    <2>1. CASE \E c : Exit(c) /\ link' = link
      BY <1>0, <2>1, AskedExit
    <2>2. CASE /\ mpc \in {"maps", "malloc", "loop", "export"} /\ UNCHANGED <<runvars, cfg, link, disturbed>>
               /\ mpc' \in {"malloc", "loop", "export", "detach"}
      BY <1>0, <2>2, AskedQuiet DEF runvars, Parsed
    <2> QED
      BY <1>8, <2>1, <2>2 DEF FindMaps, AllocLogs, ExportLogs, LeaveLoop, At, To
  <1>9. CASE DetachRemove
    <2>1. PICK r \in SetLinkXdpFd(link, native, 0, cfg.xdp_flags) : link' = r.link /\ \E c : Exit(c)
      BY <1>9 DEF DetachRemove
    <2>2. r.link \in [Modes -> Nat]
      <3>1. KernelSet(link, native, 0, cfg.xdp_flags).link \in [Modes -> Nat]
        BY <1>0, KernelSetIs
      <3> QED
        BY <1>0, <3>1 DEF SetLinkXdpFd
    <2> QED
      BY <2>1, <2>2, AskedExit
  <1>10. CASE DetachQuery
    <2>1. CASE \E c : Exit(c) /\ link' = link
      BY <1>0, <2>1, AskedExit
    <2>2. CASE Parsed /\ UNCHANGED <<runvars, cfg, link>> /\ mpc' = "removing"
      BY <1>0, <2>2, AskedQuiet DEF runvars
    <2> QED
      BY <1>10, <2>1, <2>2 DEF DetachQuery, At, To, Parsed
  <1>11. CASE UNCHANGED mainvars
    BY <1>11 DEF mainvars, AskedInv, ConfigInv, AttachedInv, AskedMode, Parsed
  <1> QED
    BY <1>1, <1>2, <1>3, <1>4, <1>5, <1>6, <1>7, <1>8, <1>9, <1>10, <1>11 DEF MainStep

(* Every step keeps the invariant.                                          *)
LEMMA AskedNext ==
  ASSUME AskedInv, Next
  PROVE  AskedInv'
  <1>0. link \in [Modes -> Nat] /\ native \in BOOLEAN /\ MaxRuns \in Nat
    BY MeasureMainAssumption DEF AskedInv, ConfigInv
  <1>1. CASE MainStep \/ DetachQuery
    BY <1>1, AskedMain
  <1>2. ASSUME NEW a \in CmdLines, Start(a) PROVE AskedInv'
    <2>1. a \in Seq(STRING)
      BY MeasureMainAssumption
    <2>2. mpc' = "boot" /\ argv' = a /\ run' = run + 1 /\ UNCHANGED <<link, native>>
      BY <1>2 DEF Start
    <2>3. run + 1 \in Nat
      BY DEF AskedInv, ConfigInv
    <2>4. ConfigInv'
      BY <1>0, <2>1, <2>2, <2>3 DEF ConfigInv, Parsed
    <2> QED
      BY <2>2, <2>4 DEF AskedInv, AttachedInv
  <1>3. CASE Sigint
    <2>1. CASE \E c : Exit(c) /\ link' = link
      BY <1>0, <2>1, AskedExit
    <2>2. CASE UNCHANGED <<runvars, mpc, cfg, link, disturbed>>
      BY <2>2 DEF runvars, AskedInv, ConfigInv, AttachedInv, AskedMode, Parsed
    <2> QED
      BY <1>3, <2>1, <2>2 DEF Sigint
  <1>4. CASE Kill
    BY <1>0, <1>4, AskedQuiet DEF Kill
  <1>5. ASSUME NEW prog \in {0, Foreign}, NEW flags, OtherLink(prog, flags) PROVE AskedInv'
    <2>1. prog \in Nat
      BY <1>0 DEF Foreign
    <2>2. link' \in [Modes -> Nat]
      BY <1>0, <1>5, <2>1, KernelSetIs DEF OtherLink
    <2>3. disturbed' = TRUE /\ UNCHANGED <<native, run, argv, cfg, mpc>>
      BY <1>5 DEF OtherLink
    <2> QED
      BY <2>2, <2>3 DEF AskedInv, ConfigInv, AttachedInv, Parsed
  <1>6. CASE UNCHANGED mainvars
    BY <1>6 DEF mainvars, AskedInv, ConfigInv, AttachedInv, AskedMode, Parsed
  <1> QED
    BY <1>1, <1>2, <1>3, <1>4, <1>5, <1>6 DEF Next

(* While main looks for its maps, fetches packets and exports its log, its  *)
(* own program is attached, in the mode of the last mode option on its      *)
(* command line, also when a program of the opposite mode had to be removed *)
(* first, unless another process changed the link since: for all command    *)
(* lines and any number of runs one after the other.                        *)
THEOREM OwnProgramAttached == Spec => []AttachedAsAsked
  <1>1. Init => AskedInv
    BY AskedInit
  <1>2. AskedInv /\ [Next]_vars => AskedInv'
    <2>1. CASE UNCHANGED vars
      BY <2>1 DEF vars, mainvars, AskedInv, ConfigInv, AttachedInv, AskedMode, Parsed
    <2> QED
      BY <2>1, AskedNext
  <1>3. AskedInv => AttachedAsAsked
    BY AskedImplies
  <1> QED
    BY <1>1, <1>2, <1>3, PTL DEF Spec

-----------------------------------------------------------------------------
(* What bpf_get_link_xdp_id reads out of the kernel's answer                *)

(* Only mode m of the device has a program.                                  *)
OnlyOn(l, m) == m \in Modes /\ l[m] # 0 /\ \A k \in Modes : k # m => l[k] = 0
(* The attributes in the nested one: an id, and the mode.                   *)
IdAttr(t, v) == [type |-> t, len |-> 8, val |-> v, nul |-> FALSE]
ModeAttr(m) == [type |-> 1, len |-> 5, val |-> m, nul |-> FALSE]

(* The modes that have a program.                                           *)
LEMMA OneModeOn ==
  ASSUME NEW l \in [Modes -> Nat], NEW m, OnlyOn(l, m)
  PROVE  ModesOn(l) = <<m>>
  <1>1. "SKB" \in Modes /\ "DRV" \in Modes /\ "HW" \in Modes /\ m \in {"SKB", "DRV", "HW"}
    BY DEF Modes, OnlyOn
  <1>2. <<m>> \o <<>> = <<m>> /\ <<>> \o <<m>> = <<m>> /\ <<>> \o <<>> = <<>>
    OBVIOUS
  <1> DEFINE Only(k) == IF l[k] # 0 THEN <<k>> ELSE <<>>
  <1>3. ModesOn(l) = Only("SKB") \o Only("DRV") \o Only("HW")
    BY DEF ModesOn
  <1>4. \A k \in Modes : Only(k) = IF k = m THEN <<m>> ELSE <<>>
    BY DEF OnlyOn
  <1> HIDE DEF Only
  <1>5. CASE m = "SKB"
    <2>1. Only("SKB") = <<m>> /\ Only("DRV") = <<>> /\ Only("HW") = <<>>
      BY <1>1, <1>4, <1>5
    <2> QED
      BY <1>2, <1>3, <2>1, Zenon
  <1>6. CASE m = "DRV"
    <2>1. Only("SKB") = <<>> /\ Only("DRV") = <<m>> /\ Only("HW") = <<>>
      BY <1>1, <1>4, <1>6
    <2> QED
      BY <1>2, <1>3, <2>1, Zenon
  <1>7. CASE m = "HW"
    <2>1. Only("SKB") = <<>> /\ Only("DRV") = <<>> /\ Only("HW") = <<m>>
      BY <1>1, <1>4, <1>7
    <2> QED
      BY <1>2, <1>3, <2>1, Zenon
  <1> QED
    BY <1>1, <1>5, <1>6, <1>7

(* A sequence and one more entry.                                           *)
LEMMA ConcatOne ==
  ASSUME NEW S, NEW s \in Seq(S), NEW b \in S
  PROVE  /\ s \o <<b>> \in Seq(S) /\ Len(s \o <<b>>) = Len(s) + 1 /\ (s \o <<b>>)[Len(s) + 1] = b
         /\ \A i \in 1 .. Len(s) : (s \o <<b>>)[i] = s[i]
  OBVIOUS

(* The nested attribute of a device with one program.                       *)
LEMMA OneModeNest ==
  ASSUME NEW l, NEW m
  PROVE  LET nest == XdpNest(l, <<m>>)
         IN  /\ nest \in Seq({IdAttr(MODE_PROG_ID[m], l[m]), ModeAttr(m), IdAttr(2, l[m])})
             /\ Len(nest) = 3 /\ nest[1] = IdAttr(MODE_PROG_ID[m], l[m])
             /\ nest[2] = ModeAttr(m) /\ nest[3] = IdAttr(2, l[m])
  <1> DEFINE a == IdAttr(MODE_PROG_ID[m], l[m])
             b == ModeAttr(m)
             c == IdAttr(2, l[m])
             S == {a, b, c}
             s == [i \in DOMAIN <<m>> |-> IdAttr(MODE_PROG_ID[<<m>>[i]], l[<<m>>[i]])]
  <1>1. Len(<<m>>) = 1 /\ <<m>>[1] = m /\ DOMAIN <<m>> = 1 .. 1
    OBVIOUS
  <1>2. s \in Seq(S) /\ Len(s) = 1 /\ s[1] = a
    BY <1>1
  <1>3. XdpNest(l, <<m>>) = s \o <<b>> \o <<c>>
    BY <1>1 DEF XdpNest, IdAttr, ModeAttr, NLA_HDRLEN, ATTACHED, PROG_ID
  <1>4. a \in S /\ b \in S /\ c \in S
    OBVIOUS
  <1> HIDE DEF a, b, c, S, s
  <1>5. s \o <<b>> \in Seq(S) /\ Len(s \o <<b>>) = 2 /\ (s \o <<b>>)[1] = a /\ (s \o <<b>>)[2] = b
    <2>1. /\ s \o <<b>> \in Seq(S) /\ Len(s \o <<b>>) = Len(s) + 1 /\ (s \o <<b>>)[Len(s) + 1] = b
          /\ \A i \in 1 .. Len(s) : (s \o <<b>>)[i] = s[i]
      <3>1. s \in Seq(S)
        BY <1>2
      <3>2. b \in S
        BY <1>4
      <3> QED
        BY <3>1, <3>2, ConcatOne, ZenonT(60)
    <2> DEFINE u == s \o <<b>>
    <2> HIDE DEF u
    <2>2. u \in Seq(S) /\ Len(u) = Len(s) + 1 /\ u[Len(s) + 1] = b /\ \A i \in 1 .. Len(s) : u[i] = s[i]
      BY <2>1, Zenon DEF u
    <2>3. Len(u) = 2 /\ u[1] = a /\ u[2] = b
      BY <1>2, <2>2
    <2> QED
      BY <2>2, <2>3, Zenon DEF u
  <1>6. (s \o <<b>>) \o <<c>> \in Seq(S)
    BY <1>4, <1>5
  <1>7. Len((s \o <<b>>) \o <<c>>) = 3 /\ ((s \o <<b>>) \o <<c>>)[1] = a
        /\ ((s \o <<b>>) \o <<c>>)[2] = b /\ ((s \o <<b>>) \o <<c>>)[3] = c
    BY <1>4, <1>5, ConcatOne
  <1> QED
    BY <1>3, <1>6, <1>7 DEF a, b, c, S

(* Nothing behind a sequence.                                               *)
LEMMA NoJunk ==
  ASSUME NEW S, NEW s \in Seq(S)
  PROVE  s \o <<>> = s
  OBVIOUS

(* How nla_parse begins.                                                    *)
ParseStart(len, maxtype) ==
  [rem |-> len, at |-> 0, tb |-> [t \in 0 .. maxtype |-> <<>>], stop |-> FALSE, err |-> FALSE, beyond |-> FALSE]

(* nla_parse of two attributes is two steps ...                             *)
LEMMA ParseTwo ==
  ASSUME NEW S, NEW s \in Seq(S), Len(s) = 2, NEW len, NEW maxtype
  PROVE  NlaParse(s, len, maxtype, <<>>, <<>>)
           = NlaStep(NlaStep(ParseStart(len, maxtype), s[1], len, maxtype, <<>>), s[2], len, maxtype, <<>>)
  <1> DEFINE Step(x, a) == NlaStep(x, a, len, maxtype, <<>>)
             t0 == ParseStart(len, maxtype)
             t1 == Step(t0, s[1])
             t2 == Step(t1, s[2])
             g == [i \in 0 .. 2 |-> IF i = 0 THEN t0 ELSE IF i = 1 THEN t1 ELSE t2]
             f == CHOOSE f : f = [i \in 0 .. 2 |-> IF i = 0 THEN t0 ELSE Step(f[i - 1], s[i])]
  <1>1. NlaParse(s, len, maxtype, <<>>, <<>>) = f[2]
    <2>1. s \o <<>> = s
      BY NoJunk
    <2> QED
      BY <2>1 DEF NlaParse, ParseStart
  <1> HIDE DEF Step, t0
  <1>2. g = [i \in 0 .. 2 |-> IF i = 0 THEN t0 ELSE Step(g[i - 1], s[i])]
    <2>1. \A i \in 0 .. 2 : i = 0 \/ i = 1 \/ i = 2
      OBVIOUS
    <2>2. g[0] = t0 /\ g[1] = t1 /\ g[2] = t2 /\ 1 - 1 = 0 /\ 2 - 1 = 1
      OBVIOUS
    <2> HIDE DEF t1, t2
    <2>3. \A i \in 0 .. 2 : g[i] = IF i = 0 THEN t0 ELSE Step(g[i - 1], s[i])
      <3> HIDE DEF g
      <3> QED
        BY <2>1, <2>2 DEF t1, t2
    <2> QED
      BY <2>3
  <1>3. f = [i \in 0 .. 2 |-> IF i = 0 THEN t0 ELSE Step(f[i - 1], s[i])]
    BY <1>2
  <1> HIDE DEF f
  <1>4. f[0] = t0
    BY <1>3
  <1>5. f[1] = t1
    BY <1>3, <1>4
  <1>6. f[2] = t2
    BY <1>3, <1>5
  <1> QED
    BY <1>1, <1>6 DEF Step, t0

(* ... and of three, three.                                                 *)
LEMMA ParseThree ==
  ASSUME NEW S, NEW s \in Seq(S), Len(s) = 3, NEW len, NEW maxtype
  PROVE  NlaParse(s, len, maxtype, <<>>, <<>>)
           = NlaStep(NlaStep(NlaStep(ParseStart(len, maxtype), s[1], len, maxtype, <<>>), s[2], len, maxtype, <<>>),
                     s[3], len, maxtype, <<>>)
  <1> DEFINE Step(x, a) == NlaStep(x, a, len, maxtype, <<>>)
             t0 == ParseStart(len, maxtype)
             t1 == Step(t0, s[1])
             t2 == Step(t1, s[2])
             t3 == Step(t2, s[3])
             g == [i \in 0 .. 3 |-> IF i = 0 THEN t0 ELSE IF i = 1 THEN t1 ELSE IF i = 2 THEN t2 ELSE t3]
             f == CHOOSE f : f = [i \in 0 .. 3 |-> IF i = 0 THEN t0 ELSE Step(f[i - 1], s[i])]
  <1>1. NlaParse(s, len, maxtype, <<>>, <<>>) = f[3]
    <2>1. s \o <<>> = s
      BY NoJunk
    <2> QED
      BY <2>1 DEF NlaParse, ParseStart
  <1> HIDE DEF Step, t0
  <1>2. g = [i \in 0 .. 3 |-> IF i = 0 THEN t0 ELSE Step(g[i - 1], s[i])]
    <2>1. \A i \in 0 .. 3 : i = 0 \/ i = 1 \/ i = 2 \/ i = 3
      OBVIOUS
    <2>2. g[0] = t0 /\ g[1] = t1 /\ g[2] = t2 /\ g[3] = t3 /\ 1 - 1 = 0 /\ 2 - 1 = 1 /\ 3 - 1 = 2
      OBVIOUS
    <2> HIDE DEF t1, t2, t3
    <2>3. \A i \in 0 .. 3 : g[i] = IF i = 0 THEN t0 ELSE Step(g[i - 1], s[i])
      <3> HIDE DEF g
      <3> QED
        BY <2>1, <2>2 DEF t1, t2, t3
    <2> QED
      BY <2>3
  <1>3. f = [i \in 0 .. 3 |-> IF i = 0 THEN t0 ELSE Step(f[i - 1], s[i])]
    BY <1>2
  <1> HIDE DEF f
  <1>4. f[0] = t0
    BY <1>3
  <1>5. f[1] = t1
    BY <1>3, <1>4
  <1>6. f[2] = t2
    BY <1>3, <1>5
  <1>7. f[3] = t3
    BY <1>3, <1>6
  <1> QED
    BY <1>1, <1>7 DEF Step, t0

(* nla_parse has met no error and not stopped; and a table entry.           *)
Running(s) == DOMAIN s = {"rem", "at", "tb", "stop", "err", "beyond"} /\ s.stop = FALSE /\ s.err = FALSE
Set(tb, i, x) == [tb EXCEPT ![i] = x]

(* An attribute that fits is entered in the table.                          *)
LEMMA StepTakes ==
  ASSUME NEW s, Running(s), NEW a, NlaOk(a, s.rem), NEW len, NEW maxtype, ~(a.type > maxtype)
  PROVE  LET r == NlaStep(s, a, len, maxtype, <<>>)
         IN  Running(r) /\ r.rem = s.rem - Align(a.len) /\ r.tb = Set(s.tb, a.type, <<a>>)
  <1> DEFINE n == [s EXCEPT !.rem = @ - Align(a.len), !.at = @ + Align(a.len)]
             r == [n EXCEPT !.tb[a.type] = <<a>>, !.beyond = @ \/ s.at + a.len > len]
  <1>1. DOMAIN n = DOMAIN s /\ n.stop = FALSE /\ n.err = FALSE /\ n.rem = s.rem - Align(a.len) /\ n.tb = s.tb
    BY DEF Running
  <1>2. NlaStep(s, a, len, maxtype, <<>>) = r
    BY DEF NlaStep, Running
  <1> HIDE DEF n
  <1>3. DOMAIN r = DOMAIN n /\ r.stop = n.stop /\ r.err = n.err /\ r.rem = n.rem
        /\ r.tb = [n.tb EXCEPT ![a.type] = <<a>>]
    BY <1>1 DEF Running
  <1> QED
    BY <1>1, <1>2, <1>3 DEF Running, Set

(* The lengths that occur.                                                  *)
LEMMA AlignIs == Align(9) = 12 /\ Align(28) = 28 /\ Align(8) = 8 /\ Align(5) = 8
  BY DEF Align

(* The nested attribute, parsed.                                            *)
LEMMA NestParsed ==
  ASSUME NEW l, NEW m \in Modes
  PROVE  LET tb == NlaParse(XdpNest(l, <<m>>), 24, IFLA_XDP_MAX, <<>>, <<>>).tb
         IN  tb[1] = <<ModeAttr(m)>> /\ tb[2] = <<IdAttr(2, l[m])>>
  <1> DEFINE nest == XdpNest(l, <<m>>)
             a == IdAttr(MODE_PROG_ID[m], l[m])
             b == ModeAttr(m)
             c == IdAttr(2, l[m])
             k == MODE_PROG_ID[m]
             Step(s, x) == NlaStep(s, x, 24, IFLA_XDP_MAX, <<>>)
             t0 == ParseStart(24, IFLA_XDP_MAX)
             t1 == Step(t0, a)
             t2 == Step(t1, b)
             t3 == Step(t2, c)
  <1>1. /\ nest \in Seq({a, b, c}) /\ Len(nest) = 3 /\ nest[1] = a /\ nest[2] = b /\ nest[3] = c
    BY OneModeNest
  <1>2. k \in 3 .. 5
    BY DEF MODE_PROG_ID, Modes
  <1>3. /\ a.type = k /\ a.len = 8 /\ b.type = 1 /\ b.len = 5 /\ c.type = 2 /\ c.len = 8
    BY DEF IdAttr, ModeAttr
  <1>4. NlaParse(nest, 24, IFLA_XDP_MAX, <<>>, <<>>) = t3
    <2> HIDE DEF nest, a, b, c
    <2> QED
      BY <1>1, ParseThree
  <1>5. Running(t0) /\ t0.rem = 24 /\ t0.tb = [t \in 0 .. 5 |-> <<>>]
    BY DEF ParseStart, Running, IFLA_XDP_MAX
  <1> HIDE DEF nest, a, b, c, k, t0
  <1>6. Running(t1) /\ t1.rem = 16 /\ t1.tb = Set(t0.tb, k, <<a>>)
    <2>1. NlaOk(a, t0.rem) /\ ~(a.type > IFLA_XDP_MAX)
      BY <1>2, <1>3, <1>5 DEF NlaOk, NLA_HDRLEN, IFLA_XDP_MAX
    <2>2. Running(t1) /\ t1.rem = t0.rem - Align(a.len) /\ t1.tb = Set(t0.tb, a.type, <<a>>)
      BY <1>5, <2>1, StepTakes
    <2> QED
      BY <1>3, <1>5, <2>2, AlignIs
  <1> HIDE DEF t1
  <1>7. Running(t2) /\ t2.rem = 8 /\ t2.tb = Set(t1.tb, 1, <<b>>)
    <2>1. NlaOk(b, t1.rem) /\ ~(b.type > IFLA_XDP_MAX)
      BY <1>3, <1>6 DEF NlaOk, NLA_HDRLEN, IFLA_XDP_MAX
    <2>2. Running(t2) /\ t2.rem = t1.rem - Align(b.len) /\ t2.tb = Set(t1.tb, b.type, <<b>>)
      BY <1>6, <2>1, StepTakes
    <2> QED
      BY <1>3, <1>6, <2>2, AlignIs
  <1> HIDE DEF t2
  <1>8. t3.tb = Set(t2.tb, 2, <<c>>)
    <2>1. NlaOk(c, t2.rem) /\ ~(c.type > IFLA_XDP_MAX)
      BY <1>3, <1>7 DEF NlaOk, NLA_HDRLEN, IFLA_XDP_MAX
    <2>2. t3.tb = Set(t2.tb, c.type, <<c>>)
      BY <1>7, <2>1, StepTakes
    <2> QED
      BY <1>3, <2>2
  <1>9. DOMAIN t0.tb = 0 .. 5 /\ DOMAIN t1.tb = 0 .. 5 /\ DOMAIN t2.tb = 0 .. 5
    BY <1>5, <1>6, <1>7 DEF Set
  <1> HIDE DEF t3
  <1>10. t3.tb[1] = <<b>> /\ t3.tb[2] = <<c>>
    BY <1>7, <1>8, <1>9 DEF Set
  <1> QED
    BY <1>4, <1>10 DEF nest, b, c

(* The attributes of a device with one program.                             *)
NameAttr == [type |-> 2, len |-> 9, val |-> 0, nul |-> TRUE]
NestAttr(l, m) == [type |-> 1, len |-> 28, val |-> XdpNest(l, <<m>>), nul |-> FALSE]

(* There are two.                                                           *)
LEMMA OneModeAttrs ==
  ASSUME NEW l \in [Modes -> Nat], NEW m, OnlyOn(l, m)
  PROVE  LET s == LinkAttrs(l)
         IN  s \in Seq({NameAttr, NestAttr(l, m)}) /\ Len(s) = 2 /\ s[1] = NameAttr /\ s[2] = NestAttr(l, m)
  <1>1. LinkAttrs(l) = <<NameAttr, NestAttr(l, m)>>
    <2>1. ModesOn(l) = <<m>>
      BY OneModeOn
    <2>2. Len(XdpNest(l, <<m>>)) = 3
      BY OneModeNest
    <2>3. 4 + 8 * 3 = 28 /\ 4 + 5 = 9
      OBVIOUS
    <2> QED
      BY <2>1, <2>2, <2>3 DEF LinkAttrs, NameAttr, NestAttr, NLA_HDRLEN, IFLA_XDP
  <1> QED
    BY <1>1

(* The table has the nested attribute.                                      *)
LEMMA AttrsParsed ==
  ASSUME NEW l \in [Modes -> Nat], NEW m, OnlyOn(l, m)
  PROVE  NlaParse(LinkAttrs(l), 40, IFLA_MAX, <<>>, <<>>).tb[1] = <<NestAttr(l, m)>>
  <1> DEFINE s == LinkAttrs(l)
             a == NameAttr
             b == NestAttr(l, m)
             Step(u, x) == NlaStep(u, x, 40, IFLA_MAX, <<>>)
             t0 == ParseStart(40, IFLA_MAX)
             t1 == Step(t0, a)
             t2 == Step(t1, b)
  <1>1. s \in Seq({a, b}) /\ Len(s) = 2 /\ s[1] = a /\ s[2] = b
    BY OneModeAttrs
  <1>2. a.type = 2 /\ a.len = 9 /\ b.type = 1 /\ b.len = 28
    BY DEF NameAttr, NestAttr
  <1>3. NlaParse(s, 40, IFLA_MAX, <<>>, <<>>) = t2
    <2> HIDE DEF s, a, b
    <2> QED
      BY <1>1, ParseTwo
  <1>4. Running(t0) /\ t0.rem = 40 /\ t0.tb = [t \in 0 .. 2 |-> <<>>]
    BY DEF ParseStart, Running, IFLA_MAX
  <1> HIDE DEF s, a, b, t0
  <1>5. Running(t1) /\ t1.rem = 28 /\ t1.tb = Set(t0.tb, 2, <<a>>)
    <2>1. NlaOk(a, t0.rem) /\ ~(a.type > IFLA_MAX)
      BY <1>2, <1>4 DEF NlaOk, NLA_HDRLEN, IFLA_MAX
    <2>2. Running(t1) /\ t1.rem = t0.rem - Align(a.len) /\ t1.tb = Set(t0.tb, a.type, <<a>>)
      BY <1>4, <2>1, StepTakes
    <2> QED
      BY <1>2, <1>4, <2>2, AlignIs
  <1> HIDE DEF t1
  <1>6. t2.tb = Set(t1.tb, 1, <<b>>)
    <2>1. NlaOk(b, t1.rem) /\ ~(b.type > IFLA_MAX)
      BY <1>2, <1>5 DEF NlaOk, NLA_HDRLEN, IFLA_MAX
    <2>2. t2.tb = Set(t1.tb, b.type, <<b>>)
      BY <1>5, <2>1, StepTakes
    <2> QED
      BY <1>2, <2>2
  <1>7. DOMAIN t1.tb = 0 .. 2
    BY <1>4, <1>5 DEF Set
  <1> HIDE DEF t2
  <1>8. t2.tb[1] = <<b>>
    BY <1>6, <1>7 DEF Set
  <1> QED
    BY <1>3, <1>8 DEF s, b

(* The fields of the records the netlink code returns.                      *)
LEMMA ResultFields ==
  ASSUME NEW x, NEW e, NEW y, x = [err |-> e, acc |-> y]
  PROVE  x.err = e /\ x.acc = y
  OBVIOUS

(* Those of libbpf_netlink_recv.                                            *)
LEMMA RecvFields ==
  ASSUME NEW x, NEW e, NEW a, NEW b, x = [err |-> e, acc |-> a, blocks |-> b]
  PROVE  x.blocks = b /\ x.err = e /\ x.acc = a
  OBVIOUS

(* Those of bpf_get_link_xdp_id.                                            *)
LEMMA IdFields ==
  ASSUME NEW x, NEW e, NEW i, x = [err |-> e, id |-> i]
  PROVE  x.err = e /\ x.id = i
  OBVIOUS

(* A sequence of one entry.                                                 *)
LEMMA Single ==
  ASSUME NEW x, NEW s, s = <<x>>
  PROVE  s # <<>> /\ s[1] = x
  OBVIOUS

(* The answer for the device asked for.                                      *)
LEMMA InfoRead ==
  ASSUME NEW l \in [Modes -> Nat], NEW m, OnlyOn(l, m), NEW info
  PROVE  LET r == GetXdpInfo(info, 1, LinkMsg(1, l))
         IN  r.err = "" /\ r.acc.attach_mode = m /\ r.acc.prog_id = l[m]
  <1> DEFINE msg == LinkMsg(1, l)
             tb == NlaParse(msg.attrs, msg.len, IFLA_MAX, <<>>, <<>>).tb
             nest == tb[IFLA_XDP][1]
             xdp == NlaParse(nest.val, nest.len - NLA_HDRLEN, IFLA_XDP_MAX, <<>>, <<>>).tb
  <1>1. msg.attrs = LinkAttrs(l) /\ msg.len = 40 /\ msg.ifindex = 1
    <2>1. LinkAttrs(l)[1].len = 9 /\ LinkAttrs(l)[2].len = 28
      <3>1. LinkAttrs(l)[1] = NameAttr /\ LinkAttrs(l)[2] = NestAttr(l, m)
        BY OneModeAttrs
      <3> QED
        BY <3>1 DEF NameAttr, NestAttr
    <2> QED
      BY <2>1, AlignIs DEF LinkMsg
  <1>2. tb[1] = <<NestAttr(l, m)>>
    BY <1>1, AttrsParsed
  <1>3. nest = NestAttr(l, m) /\ tb[IFLA_XDP] # <<>>
    BY <1>2, Single DEF IFLA_XDP
  <1>4. nest.val = XdpNest(l, <<m>>) /\ nest.len - NLA_HDRLEN = 24
    BY <1>3 DEF NestAttr, NLA_HDRLEN
  <1>5. m \in Modes
    BY DEF OnlyOn
  <1> HIDE DEF nest
  <1>6. xdp[1] = <<ModeAttr(m)>> /\ xdp[2] = <<IdAttr(2, l[m])>>
    BY <1>4, <1>5, NestParsed
  <1>7. xdp[1] # <<>> /\ xdp[1][1].val = m /\ xdp[2] # <<>> /\ xdp[2][1].val = l[m] /\ m # "" /\ m # "NONE"
    <2>1. xdp[1] # <<>> /\ xdp[1][1] = ModeAttr(m) /\ xdp[2] # <<>> /\ xdp[2][1] = IdAttr(2, l[m])
      BY <1>6, Single
    <2>2. ModeAttr(m).val = m /\ IdAttr(2, l[m]).val = l[m]
      BY DEF ModeAttr, IdAttr
    <2>3. m # "" /\ m # "NONE"
      BY <1>5 DEF Modes
    <2> HIDE DEF xdp
    <2> QED
      BY <2>1, <2>2, <2>3
  <1> DEFINE Val(t, else) == IF xdp[t] = <<>> THEN else ELSE xdp[t][1].val
             res == [attach_mode |-> m, prog_id |-> l[m], DRV |-> Val(MODE_PROG_ID["DRV"], info.DRV),
                     SKB |-> Val(MODE_PROG_ID["SKB"], info.SKB), HW |-> Val(MODE_PROG_ID["HW"], info.HW)]
  <1> HIDE DEF xdp, tb, msg
  <1>8. GetXdpInfo(info, 1, msg) = [err |-> "", acc |-> res]
    BY <1>1, <1>3, <1>7 DEF GetXdpInfo, xdp, tb, nest, ATTACHED, PROG_ID
  <1> QED
    <2>1. res.attach_mode = m /\ res.prog_id = l[m]
      OBVIOUS
    <2> HIDE DEF res
    <2>2. GetXdpInfo(info, 1, msg).err = "" /\ GetXdpInfo(info, 1, msg).acc = res
      BY <1>8, ResultFields, Zenon
    <2>3. GetXdpInfo(info, 1, msg).acc.attach_mode = m /\ GetXdpInfo(info, 1, msg).acc.prog_id = l[m]
      BY <2>1, <2>2, Zenon
    <2> QED
      BY <2>2, <2>3, Zenon DEF msg

(* The messages of a dump: another device's leaves the answer alone, the     *)
(* device's own is read, and the last one ends the dump.                     *)
LEMMA OtherDevice ==
  ASSUME NEW info, NEW l
  PROVE  LET r == GetXdpInfo(info, 1, LinkMsg(2, l)) IN r.err = "" /\ r.acc = info
  <1>1. LinkMsg(2, l).ifindex = 2
    BY DEF LinkMsg
  <1> DEFINE msg == LinkMsg(2, l)
             dumped == GetXdpInfo(info, 1, msg).acc
  <1>0. msg.ifindex = 2 /\ 1 # 0 /\ 1 # 2
    BY <1>1
  <1> HIDE DEF msg
  <1>2. GetXdpInfo(info, 1, msg).err = ""
    BY DEF GetXdpInfo
  <1>3. GetXdpInfo(info, 1, msg).acc = info
    BY <1>0, Zenon DEF GetXdpInfo
  <1> QED
    BY <1>2, <1>3, Zenon DEF msg

(* libbpf_netlink_recv has met no error and no end.                         *)
Receiving(s) ==
  DOMAIN s = {"multipart", "done", "err", "acc"} /\ s.multipart \in BOOLEAN /\ s.done = FALSE /\ s.err = ""

(* More datagrams are to come, and acc is what was read so far.              *)
SoFar(s, acc) == Receiving(s) /\ s.multipart = TRUE /\ s.acc = acc

(* A message about a device is read.                                        *)
LEMMA LinkRead ==
  ASSUME NEW s, Receiving(s), NEW i, NEW l, NEW acc,
         GetXdpInfo(s.acc, 1, LinkMsg(i, l)).err = "", GetXdpInfo(s.acc, 1, LinkMsg(i, l)).acc = acc
  PROVE  SoFar(NetlinkMsg(s, LinkMsg(i, l), 1, 1, 1), acc)
  <1> DEFINE m == LinkMsg(i, l)
             u == [s EXCEPT !.multipart = @ \/ m.multi]
             g == GetXdpInfo(s.acc, 1, m)
             r == [u EXCEPT !.acc = g.acc]
  <1>1. m.pid = 1 /\ m.seq = 1 /\ m.multi = TRUE /\ m.type = "LINK"
    BY DEF LinkMsg
  <1> HIDE DEF m, g
  <1>2. g.err = "" /\ g.acc = acc
    BY DEF g, m
  <1>3. NetlinkMsg(s, m, 1, 1, 1) = r
    BY <1>1, <1>2 DEF NetlinkMsg, Receiving, g
  <1>4. Receiving(u) /\ u.multipart = TRUE
    BY <1>1 DEF Receiving
  <1> HIDE DEF u
  <1>5. SoFar(r, acc)
    BY <1>2, <1>4 DEF Receiving, SoFar
  <1> QED
    BY <1>3, <1>5, Zenon DEF m

(* The message that ends the answer.                                        *)
LEMMA DoneRead ==
  ASSUME NEW s, Receiving(s)
  PROVE  LET r == NetlinkMsg(s, DoneMsg, 1, 1, 1) IN r.done = TRUE /\ r.err = "" /\ r.acc = s.acc
  <1> DEFINE u == [s EXCEPT !.multipart = @ \/ DoneMsg.multi]
             r == [u EXCEPT !.done = TRUE]
  <1>1. DoneMsg.pid = 1 /\ DoneMsg.seq = 1 /\ DoneMsg.type = "DONE"
    BY DEF DoneMsg, LinkMsg
  <1>2. NetlinkMsg(s, DoneMsg, 1, 1, 1) = r
    BY <1>1 DEF NetlinkMsg, Receiving
  <1>3. DOMAIN u = DOMAIN s /\ u.err = "" /\ u.acc = s.acc
    BY DEF Receiving
  <1> HIDE DEF u
  <1>4. r.done = TRUE /\ r.err = "" /\ r.acc = s.acc
    BY <1>3 DEF Receiving
  <1> QED
    BY <1>2, <1>4

(* A datagram with one message.                                              *)
Begin(s) == [s EXCEPT !.multipart = FALSE]

(* A datagram with one message.                                             *)
LEMMA DatagramOne ==
  ASSUME NEW s, Receiving(s), s.multipart = TRUE, NEW m
  PROVE  /\ NetlinkDatagram(s, <<m>>, 1, 1, 1) = NetlinkMsg(Begin(s), m, 1, 1, 1)
         /\ Receiving(Begin(s)) /\ Begin(s).acc = s.acc
  <1> DEFINE t0 == Begin(s)
             t1 == NetlinkMsg(t0, m, 1, 1, 1)
             g == [i \in 0 .. 1 |-> IF i = 0 THEN t0 ELSE t1]
             f == CHOOSE f : f = [i \in 0 .. 1 |-> IF i = 0 THEN t0 ELSE NetlinkMsg(f[i - 1], <<m>>[i], 1, 1, 1)]
  <1>1. Len(<<m>>) = 1 /\ <<m>>[1] = m /\ <<m>> # <<>>
    OBVIOUS
  <1>2. NetlinkDatagram(s, <<m>>, 1, 1, 1) = f[1]
    BY <1>1 DEF NetlinkDatagram, Receiving, Begin
  <1> HIDE DEF t0
  <1>3. g = [i \in 0 .. 1 |-> IF i = 0 THEN t0 ELSE NetlinkMsg(g[i - 1], <<m>>[i], 1, 1, 1)]
    <2>1. \A i \in 0 .. 1 : i = 0 \/ i = 1
      OBVIOUS
    <2>2. g[0] = t0 /\ g[1] = t1 /\ 1 - 1 = 0
      OBVIOUS
    <2>3. \A i \in 0 .. 1 : g[i] = IF i = 0 THEN t0 ELSE NetlinkMsg(g[i - 1], <<m>>[i], 1, 1, 1)
      <3> HIDE DEF g
      <3> QED
        BY <1>1, <2>1, <2>2
    <2> QED
      BY <2>3
  <1>4. f = [i \in 0 .. 1 |-> IF i = 0 THEN t0 ELSE NetlinkMsg(f[i - 1], <<m>>[i], 1, 1, 1)]
    BY <1>3
  <1> HIDE DEF f
  <1>5. f[0] = t0
    BY <1>4
  <1>6. f[1] = t1
    BY <1>1, <1>4, <1>5
  <1>7. Receiving(Begin(s)) /\ Begin(s).acc = s.acc
    BY DEF Begin, Receiving
  <1> QED
    BY <1>2, <1>6, <1>7, Zenon DEF t0

(* How libbpf_netlink_recv begins.                                          *)
Started == [multipart |-> TRUE, done |-> FALSE, err |-> "", acc |-> NoInfo]

(* An answer of three datagrams.                                            *)
LEMMA RecvThree ==
  ASSUME NEW d, Len(d) = 3
  PROVE  LET t3 == NetlinkDatagram(NetlinkDatagram(NetlinkDatagram(Started, d[1], 1, 1, 1), d[2], 1, 1, 1),
                                   d[3], 1, 1, 1)
         IN  NetlinkRecv(d, 1, 1, 1) = [err |-> t3.err, acc |-> t3.acc, blocks |-> ~t3.done /\ t3.multipart]
  <1> DEFINE Step(x, a) == NetlinkDatagram(x, a, 1, 1, 1)
             t0 == Started
             t1 == Step(t0, d[1])
             t2 == Step(t1, d[2])
             t3 == Step(t2, d[3])
             g == [i \in 0 .. 3 |-> IF i = 0 THEN t0 ELSE IF i = 1 THEN t1 ELSE IF i = 2 THEN t2 ELSE t3]
             f == CHOOSE f : f = [i \in 0 .. 3 |-> IF i = 0 THEN t0 ELSE Step(f[i - 1], d[i])]
  <1>1. NetlinkRecv(d, 1, 1, 1) = [err |-> f[3].err, acc |-> f[3].acc, blocks |-> ~f[3].done /\ f[3].multipart]
    BY DEF NetlinkRecv, Started
  <1> HIDE DEF Step, t0
  <1>2. g = [i \in 0 .. 3 |-> IF i = 0 THEN t0 ELSE Step(g[i - 1], d[i])]
    <2>1. \A i \in 0 .. 3 : i = 0 \/ i = 1 \/ i = 2 \/ i = 3
      OBVIOUS
    <2>2. g[0] = t0 /\ g[1] = t1 /\ g[2] = t2 /\ g[3] = t3 /\ 1 - 1 = 0 /\ 2 - 1 = 1 /\ 3 - 1 = 2
      OBVIOUS
    <2> HIDE DEF t1, t2, t3
    <2>3. \A i \in 0 .. 3 : g[i] = IF i = 0 THEN t0 ELSE Step(g[i - 1], d[i])
      <3> HIDE DEF g
      <3> QED
        BY <2>1, <2>2 DEF t1, t2, t3
    <2> QED
      BY <2>3
  <1>3. f = [i \in 0 .. 3 |-> IF i = 0 THEN t0 ELSE Step(f[i - 1], d[i])]
    BY <1>2
  <1> HIDE DEF f
  <1>4. f[0] = t0
    BY <1>3
  <1>5. f[1] = t1
    BY <1>3, <1>4
  <1>6. f[2] = t2
    BY <1>3, <1>5
  <1>7. f[3] = t3
    BY <1>3, <1>6
  <1> QED
    BY <1>1, <1>7 DEF Step, t0

(* With a program in one mode the question finds it.                         *)
LEMMA OneModeId ==
  ASSUME NEW l \in [Modes -> Nat], NEW m, OnlyOn(l, m), NEW flags, GetLinkXdpId(l, flags).err = ""
  PROVE  GetLinkXdpId(l, flags).id = l[m]
  <1> DEFINE other == [EmptyLink EXCEPT !.SKB = 7]
             dump == <<<<LinkMsg(2, other)>>, <<LinkMsg(1, l)>>, <<DoneMsg>>>>
             Dg(s, d) == NetlinkDatagram(s, d, 1, 1, 1)
             t1 == Dg(Started, <<LinkMsg(2, other)>>)
             t2 == Dg(t1, <<LinkMsg(1, l)>>)
             t3 == Dg(t2, <<DoneMsg>>)
  <1> HIDE DEF other
  <1>1. Receiving(t1) /\ t1.multipart = TRUE
    <2>1. Receiving(Started) /\ Started.multipart = TRUE
      BY DEF Started, Receiving
    <2>2. t1 = NetlinkMsg(Begin(Started), LinkMsg(2, other), 1, 1, 1) /\ Receiving(Begin(Started))
      BY <2>1, DatagramOne
    <2> QED
      <3> DEFINE b == Begin(Started)
      <3> HIDE DEF b
      <3>1. GetXdpInfo(b.acc, 1, LinkMsg(2, other)).err = "" /\ GetXdpInfo(b.acc, 1, LinkMsg(2, other)).acc = b.acc
        BY OtherDevice, Zenon
      <3>2. Receiving(b) /\ t1 = NetlinkMsg(b, LinkMsg(2, other), 1, 1, 1)
        BY <2>2, Zenon DEF b
      <3> DEFINE n == NetlinkMsg(b, LinkMsg(2, other), 1, 1, 1)
      <3>3. SoFar(n, b.acc)
        BY <3>1, <3>2, LinkRead, Zenon
      <3> HIDE DEF n, t1
      <3> QED
        BY <3>2, <3>3 DEF n, SoFar
  <1> HIDE DEF t1
  <1>2. Receiving(t2) /\ t2.multipart = TRUE /\ t2.acc.attach_mode = m /\ t2.acc.prog_id = l[m]
    <2>1. t2 = NetlinkMsg(Begin(t1), LinkMsg(1, l), 1, 1, 1) /\ Receiving(Begin(t1))
      BY <1>1, DatagramOne
    <2> DEFINE r == GetXdpInfo(Begin(t1).acc, 1, LinkMsg(1, l))
    <2>2. r.err = "" /\ r.acc.attach_mode = m /\ r.acc.prog_id = l[m]
      BY InfoRead
    <2>3. Receiving(t2) /\ t2.acc = r.acc /\ t2.multipart = TRUE
      <3> DEFINE b == Begin(t1)
      <3> HIDE DEF b
      <3>1. GetXdpInfo(b.acc, 1, LinkMsg(1, l)).err = "" /\ GetXdpInfo(b.acc, 1, LinkMsg(1, l)).acc = r.acc
        BY <2>2, Zenon DEF b
      <3>2. Receiving(b) /\ t2 = NetlinkMsg(b, LinkMsg(1, l), 1, 1, 1)
        BY <2>1, Zenon DEF b
      <3> HIDE DEF r
      <3> DEFINE n == NetlinkMsg(b, LinkMsg(1, l), 1, 1, 1)
      <3>3. SoFar(n, r.acc)
        BY <3>1, <3>2, LinkRead, Zenon
      <3> HIDE DEF n, t2
      <3> QED
        BY <3>2, <3>3 DEF n, SoFar
    <2> QED
      BY <2>2, <2>3
  <1> HIDE DEF t2
  <1>3. t3.done = TRUE /\ t3.err = "" /\ t3.acc = t2.acc
    <2>1. t3 = NetlinkMsg(Begin(t2), DoneMsg, 1, 1, 1) /\ Receiving(Begin(t2)) /\ Begin(t2).acc = t2.acc
      BY <1>2, DatagramOne
    <2> QED
      BY <2>1, DoneRead
  <1> HIDE DEF t3
  <1>4. NetlinkRecv(dump, 1, 1, 1) = [err |-> t3.err, acc |-> t3.acc, blocks |-> ~t3.done /\ t3.multipart]
    <2>1. Len(dump) = 3 /\ dump[1] = <<LinkMsg(2, other)>> /\ dump[2] = <<LinkMsg(1, l)>> /\ dump[3] = <<DoneMsg>>
      OBVIOUS
    <2> HIDE DEF dump
    <2> QED
      BY <2>1, RecvThree DEF t3, t2, t1
  <1> DEFINE r == NetlinkRecv(dump, 1, 1, 1)
             q == GetLinkXdpInfo(dump, 1, flags)
  <1>5. r.blocks = FALSE /\ r.err = "" /\ r.acc = t2.acc
    <2>2. (~t3.done /\ t3.multipart) = FALSE
      BY <1>3
    <2>3. r = [err |-> "", acc |-> t2.acc, blocks |-> FALSE]
      BY <1>3, <1>4, <2>2
    <2> HIDE DEF r
    <2> QED
      BY <2>3, RecvFields, Zenon
  <1>6. GetLinkXdpId(l, flags) = [err |-> q.err, id |-> GetXdpId(q.info, flags)]
    BY DEF GetLinkXdpId, other
  <1> HIDE DEF dump
  <1>7. q.err = "" /\ GetLinkXdpId(l, flags).id = GetXdpId(q.info, flags)
    <2>1. GetLinkXdpId(l, flags).err = q.err /\ GetLinkXdpId(l, flags).id = GetXdpId(q.info, flags)
      <3> HIDE DEF q
      <3> QED
        BY <1>6, IdFields, Zenon
    <2> QED
      BY <2>1
  <1> HIDE DEF r
  <1>8. q.info = r.acc
    BY <1>5, <1>7 DEF GetLinkXdpInfo, r
  <1>9. q.info.attach_mode # "MULTI" /\ q.info.prog_id = l[m]
    BY <1>2, <1>5, <1>8 DEF OnlyOn, Modes
  <1> HIDE DEF q
  <1> QED
    BY <1>7, <1>9 DEF GetXdpId

-----------------------------------------------------------------------------
(* What a successful run leaves behind                                      *)

(* Where main has not yet attached its program.                             *)
BeforeAttach == {"boot", "parse", "check", "open", "opening", "loading", "notloaded", "attach"}
(* The types, and the number of the run.                                    *)
RunsInv ==
  /\ link \in [Modes -> Nat] /\ native \in BOOLEAN /\ run \in 0 .. MaxRuns
  /\ mpc # "off" => run \in 1 .. MaxRuns
  /\ asked = [r \in 1 .. MaxRuns |-> asked[r]]
(* A program of main is in the mode that its flags choose.                   *)
OwnedInv == \A m \in Modes : link[m] \in 1 .. MaxRuns => link[m] <= run /\ m = KernelMode(asked[link[m]], native)
(* The program of this run is not attached before the request, and asked     *)
(* has its flags after it.                                                   *)
FreshInv ==
  /\ mpc \in BeforeAttach => \A m \in Modes : link[m] # run
  /\ mpc \in {"remove", "again"} => asked[run] = cfg.xdp_flags
(* The inductive invariant.                                                 *)
CleanInv == RunsInv /\ OwnedInv /\ FreshInv /\ CleanAfterSuccess

(* At first nothing runs.                                                   *)
LEMMA CleanInit ==
  ASSUME Init
  PROVE  CleanInv
  <1>1. /\ link = [m \in Modes |-> 0] /\ native \in BOOLEAN /\ run = 0 /\ mpc = "off" /\ code = -1
        /\ asked = [r \in 1 .. MaxRuns |-> {"none"}] /\ MaxRuns \in Nat
    BY MeasureMainAssumption DEF Init, EmptyLink, NotRun
  <1>2. \A m \in Modes : link[m] = 0
    BY <1>1
  <1> QED
    BY <1>1, <1>2 DEF CleanInv, RunsInv, OwnedInv, FreshInv, BeforeAttach, CleanAfterSuccess

(* A step that leaves the link alone, of a run that does not end with 0.     *)
LEMMA CleanQuiet ==
  ASSUME CleanInv, UNCHANGED <<link, native, run, asked>>, mpc # "off",
         mpc' = "off" => code' # 0,
         mpc' \in BeforeAttach => mpc \in BeforeAttach,
         mpc' \notin {"remove", "again"} \/ (cfg' = cfg /\ mpc' = mpc)
  PROVE  CleanInv'
  <1>1. RunsInv' /\ OwnedInv'
    BY DEF CleanInv, RunsInv, OwnedInv
  <1>2. FreshInv'
    BY DEF CleanInv, FreshInv
  <1>3. CleanAfterSuccess'
    BY DEF CleanAfterSuccess
  <1> QED
    BY <1>1, <1>2, <1>3 DEF CleanInv

(* An exit with an error.                                                   *)
LEMMA CleanExit ==
  ASSUME CleanInv, NEW c, c # 0, Exit(c), link' = link, asked' = asked, mpc # "off"
  PROVE  CleanInv'
  <1>1. UNCHANGED <<link, native, run, asked>> /\ mpc' = "off" /\ code' # 0
    BY DEF Exit, runvars
  <1> QED
    BY <1>1, CleanQuiet DEF BeforeAttach

(* A link with one mode changed.                                            *)
LEMMA PutIs ==
  ASSUME NEW l \in [Modes -> Nat], NEW k \in Modes, NEW prog \in Nat
  PROVE  /\ Put(l, k, prog) \in [Modes -> Nat]
         /\ \A m \in Modes : Put(l, k, prog)[m] = IF m = k THEN prog ELSE l[m]
  BY DEF Put

(* What the kernel makes of a request.                                      *)
LEMMA KernelResult ==
  ASSUME RunsInv, NEW prog \in Nat, NEW flags
  PROVE  LET k == KernelSet(link, native, prog, flags)
         IN  IF k.err = "" THEN k.link = Put(link, KernelMode(flags, native), prog) ELSE k.link = link
  <1>1. link \in [Modes -> Nat] /\ native \in BOOLEAN
    BY DEF RunsInv
  <1>2. KernelSet(link, native, prog, flags).err # "" => KernelSet(link, native, prog, flags).link = link
    BY <1>1, KernelSetErr
  <1>3. KernelSet(link, native, prog, flags).err = ""
          => KernelSet(link, native, prog, flags).link = Put(link, KernelMode(flags, native), prog)
    BY <1>1, KernelSetOk
  <1> QED
    BY <1>2, <1>3, Zenon

(* Whatever answer a request gets.                                           *)
LEMMA SetResult ==
  ASSUME RunsInv, NEW prog \in Nat, NEW flags, NEW r \in SetLinkXdpFd(link, native, prog, flags)
  PROVE  /\ r.link = link \/ r.link = Put(link, KernelMode(flags, native), prog)
         /\ r.err = "EEXIST" => r.link = link
         /\ r.err = "" => r.link = Put(link, KernelMode(flags, native), prog)
  <1> DEFINE k == KernelSet(link, native, prog, flags)
             p == Put(link, KernelMode(flags, native), prog)
  <1>1. IF k.err = "" THEN k.link = p ELSE k.link = link
    BY KernelResult
  <1>2. \/ r = [link |-> k.link, err |-> k.err, faults |-> 0]
        \/ r = [link |-> link, err |-> "socket", faults |-> 1]
        \/ r = [link |-> k.link, err |-> "recv", faults |-> 1]
    BY DEF SetLinkXdpFd
  <1> HIDE DEF k, p
  <1>3. CASE r = [link |-> k.link, err |-> k.err, faults |-> 0]
    BY <1>1, <1>3 DEF p
  <1>4. CASE r = [link |-> link, err |-> "socket", faults |-> 1]
    BY <1>4
  <1>5. CASE r = [link |-> k.link, err |-> "recv", faults |-> 1]
    BY <1>1, <1>5 DEF p
  <1> QED
    BY <1>2, <1>3, <1>4, <1>5

(* What a netlink request of main does to the link.                         *)
LEMMA RequestLink ==
  ASSUME RunsInv, NEW prog \in Nat, NEW flags, NEW onOk, NEW onExist, Request(prog, flags, onOk, onExist)
  PROVE  /\ link' = link \/ link' = Put(link, KernelMode(flags, native), prog)
         /\ UNCHANGED <<native, run, cfg>>
         /\ \/ mpc' = "off" /\ code' # 0
            \/ mpc' = onOk /\ onOk # "exit"
            \/ mpc' = onExist /\ onExist # "exit" /\ link' = link
  <1>1. PICK r \in SetLinkXdpFd(link, native, prog, flags) :
          /\ link' = r.link
          /\ LET next == CASE r.err = "" -> onOk [] r.err = "EEXIST" -> onExist [] OTHER -> "exit"
             IN  IF next = "exit" THEN Exit(EXIT_FAIL_XDP)
                 ELSE To(next) /\ UNCHANGED <<pc, obj, proc, fs, calls, others, before, touched, stuck, cfg>>
    BY DEF Request
  <1>6. /\ r.link = link \/ r.link = Put(link, KernelMode(flags, native), prog)
        /\ r.err = "EEXIST" => r.link = link
    BY SetResult
  <1>7. link' = link \/ link' = Put(link, KernelMode(flags, native), prog)
    BY <1>1, <1>6
  <1>8. CASE r.err = "" /\ onOk # "exit"
    <2>1. To(onOk) /\ cfg' = cfg
      BY <1>1, <1>8
    <2> QED
      BY <1>7, <1>8, <2>1 DEF To, runvars
  <1>9. CASE r.err = "EEXIST" /\ onExist # "exit"
    <2>1. To(onExist) /\ cfg' = cfg /\ link' = link
      BY <1>1, <1>6, <1>9
    <2> QED
      BY <1>9, <2>1 DEF To, runvars
  <1>10. CASE ~(r.err = "" /\ onOk # "exit") /\ ~(r.err = "EEXIST" /\ onExist # "exit")
    <2>1. Exit(EXIT_FAIL_XDP)
      BY <1>1, <1>10
    <2>2. UNCHANGED <<native, run, cfg>> /\ mpc' = "off" /\ code' = EXIT_FAIL_XDP
      BY <2>1 DEF Exit, runvars
    <2> QED
      BY <1>7, <2>2 DEF EXIT_FAIL_XDP
  <1> QED
    BY <1>8, <1>9, <1>10

(* One program put where its flags say, or taken away, keeps OwnedInv.       *)
LEMMA OwnedPut ==
  ASSUME RunsInv, NEW k \in Modes, NEW prog \in Nat,
         link' = Put(link, k, prog), UNCHANGED <<native, run>>,
         \A m \in Modes : link[m] \in 1 .. MaxRuns => link[m] <= run /\ m = KernelMode(asked'[link[m]], native),
         prog \in 1 .. MaxRuns => prog = run /\ k = KernelMode(asked'[run], native)
  PROVE  link' \in [Modes -> Nat] /\ OwnedInv'
  <1>1. /\ link' \in [Modes -> Nat]
        /\ \A m \in Modes : link'[m] = IF m = k THEN prog ELSE link[m]
    <2>1. link \in [Modes -> Nat]
      BY DEF RunsInv
    <2> QED
      BY <2>1, PutIs
  <1>2. run \in Nat
    BY MeasureMainAssumption DEF RunsInv
  <1> SUFFICES ASSUME NEW m \in Modes, link'[m] \in 1 .. MaxRuns
               PROVE  link'[m] <= run' /\ m = KernelMode(asked'[link'[m]], native')
    BY <1>1 DEF OwnedInv
  <1>3. CASE m = k
    BY <1>1, <1>2, <1>3
  <1>4. CASE m # k
    BY <1>1, <1>4
  <1> QED
    BY <1>3, <1>4

(* xdp_link_attach.                                                         *)
LEMMA CleanAttach ==
  ASSUME CleanInv, Attach \/ RemoveOpposite \/ AttachAgain
  PROVE  CleanInv'
  <1>1. /\ RunsInv /\ run \in Nat /\ run \in 1 .. MaxRuns /\ link \in [Modes -> Nat] /\ native \in BOOLEAN
        /\ \A f : KernelMode(f, native) \in Modes
    BY MeasureMainAssumption DEF CleanInv, RunsInv, Attach, RemoveOpposite, AttachAgain, At, KernelMode, Modes
  <1>2. CASE Attach
    <2>0. mpc = "attach" /\ \A m \in Modes : link[m] # run
      BY <1>2 DEF Attach, At, CleanInv, FreshInv, BeforeAttach
    <2>1. /\ link' = link \/ link' = Put(link, KernelMode(cfg.xdp_flags, native), run)
          /\ UNCHANGED <<native, run, cfg>>
          /\ \/ mpc' = "off" /\ code' # 0
             \/ mpc' = "maps" \/ mpc' = "remove"
      BY <1>1, <1>2, RequestLink DEF Attach
    <2>2. /\ asked' = [asked EXCEPT ![run] = cfg.xdp_flags]
          /\ asked'[run] = cfg.xdp_flags /\ \A r \in 1 .. MaxRuns : r # run => asked'[r] = asked[r]
          /\ asked' = [r \in 1 .. MaxRuns |-> asked'[r]]
      BY <1>1, <1>2 DEF Attach, RunsInv
    <2>3. \A m \in Modes : link[m] \in 1 .. MaxRuns => link[m] <= run /\ m = KernelMode(asked'[link[m]], native)
      BY <2>0, <2>2 DEF CleanInv, OwnedInv
    <2>4. link' \in [Modes -> Nat] /\ OwnedInv'
      <3>1. CASE link' = link
        BY <1>1, <2>1, <2>3, <3>1 DEF OwnedInv
      <3>2. CASE link' = Put(link, KernelMode(cfg.xdp_flags, native), run)
        BY <1>1, <2>1, <2>2, <2>3, <3>2, OwnedPut
      <3> QED
        BY <2>1, <3>1, <3>2
    <2>5. RunsInv'
      BY <1>1, <2>1, <2>2, <2>4 DEF RunsInv
    <2>6. FreshInv'
      BY <2>1, <2>2 DEF FreshInv, BeforeAttach
    <2>7. CleanAfterSuccess'
      BY <2>1 DEF CleanAfterSuccess
    <2> QED
      BY <2>4, <2>5, <2>6, <2>7 DEF CleanInv
  <1>3. CASE RemoveOpposite \/ AttachAgain
    <2>0. asked[run] = cfg.xdp_flags /\ asked' = asked
      BY <1>3 DEF RemoveOpposite, AttachAgain, At, CleanInv, FreshInv
    <2>1. /\ \/ link' = link
             \/ link' = Put(link, KernelMode(OppositeFlags(cfg.xdp_flags), native), 0)
             \/ link' = Put(link, KernelMode(cfg.xdp_flags, native), run)
          /\ UNCHANGED <<native, run, cfg>>
          /\ \/ mpc' = "off" /\ code' # 0
             \/ mpc' = "maps" \/ mpc' = "again"
      <3>1. CASE RemoveOpposite
        BY <1>1, <3>1, RequestLink DEF RemoveOpposite
      <3>2. CASE AttachAgain
        BY <1>1, <3>2, RequestLink DEF AttachAgain, RetryFlags
      <3> QED
        BY <1>3, <3>1, <3>2
    <2>3. \A m \in Modes : link[m] \in 1 .. MaxRuns => link[m] <= run /\ m = KernelMode(asked'[link[m]], native)
      BY <2>0 DEF CleanInv, OwnedInv
    <2>4. link' \in [Modes -> Nat] /\ OwnedInv'
      <3>1. CASE link' = link
        BY <1>1, <2>1, <2>3, <3>1 DEF OwnedInv
      <3>2. CASE link' = Put(link, KernelMode(cfg.xdp_flags, native), run)
        BY <1>1, <2>0, <2>1, <2>3, <3>2, OwnedPut
      <3>3. CASE link' = Put(link, KernelMode(OppositeFlags(cfg.xdp_flags), native), 0)
        <4>1. 0 \in Nat /\ 0 \notin 1 .. MaxRuns
          OBVIOUS
        <4> QED
          BY <1>1, <2>1, <2>3, <3>3, <4>1, OwnedPut
      <3> QED
        BY <2>1, <3>1, <3>2, <3>3
    <2>5. RunsInv'
      BY <1>1, <2>0, <2>1, <2>4 DEF RunsInv
    <2>6. FreshInv'
      BY <2>0, <2>1 DEF FreshInv, BeforeAttach
    <2>7. CleanAfterSuccess'
      BY <2>1 DEF CleanAfterSuccess
    <2> QED
      BY <2>4, <2>5, <2>6, <2>7 DEF CleanInv
  <1> QED
    BY <1>2, <1>3

(* The steps that leave the link alone.                                     *)
LEMMA CleanLoading ==
  ASSUME CleanInv,
         \/ InstallHandler \/ Parse \/ Check \/ OpenObject \/ LoadObject \/ FindProgram \/ LoadFailed \/ GiveUp
         \/ FindMaps \/ AllocLogs \/ LeaveLoop \/ ExportLogs
  PROVE  CleanInv'
  <1>1. mpc # "off" /\ link' = link /\ asked' = asked
    BY DEF InstallHandler, Parse, Check, OpenObject, LoadObject, FindProgram, LoadFailed, GiveUp,
           FindMaps, AllocLogs, LeaveLoop, ExportLogs, At
  <1>2. CASE \E c : c # 0 /\ Exit(c)
    BY <1>1, <1>2, CleanExit
  <1>3. CASE /\ UNCHANGED runvars
             /\ mpc' \in {"parse", "check", "open", "opening", "loading", "notloaded", "attach"} => mpc \in BeforeAttach
             /\ mpc' \in {"parse", "check", "open", "opening", "loading", "notloaded", "attach",
                          "malloc", "loop", "export", "detach"}
    BY <1>1, <1>3, CleanQuiet DEF BeforeAttach, runvars
  <1>4. CASE InstallHandler \/ OpenObject \/ LoadFailed \/ LeaveLoop
    BY <1>3, <1>4 DEF InstallHandler, OpenObject, LoadFailed, LeaveLoop, At, To, BeforeAttach
  <1>5. CASE Parse
    BY <1>2, <1>3, <1>5 DEF Parse, At, To, BeforeAttach, EXIT_FAIL_OPTION, Crashed
  <1>6. CASE Check
    <2>1. CASE Exit(EXIT_FAIL_OPTION)
      BY <1>2, <2>1 DEF EXIT_FAIL_OPTION
    <2>2. CASE To(IF cfg.do_unload THEN "detach" ELSE IF cfg.filename # "" THEN "open" ELSE "malloc")
      <3>1. mpc = "check" /\ UNCHANGED runvars /\ mpc' \in {"detach", "open", "malloc"}
        BY <1>6, <2>2 DEF Check, At, To
      <3> QED
        BY <1>3, <3>1 DEF BeforeAttach
    <2> QED
      BY <1>6, <2>1, <2>2 DEF Check
  <1>7. CASE LoadObject \/ FindProgram \/ GiveUp
    BY <1>2, <1>3, <1>7 DEF LoadObject, FindProgram, GiveUp, At, To, BeforeAttach, EXIT_FAIL_BPF
  <1>8. CASE FindMaps \/ AllocLogs \/ ExportLogs
    BY <1>2, <1>3, <1>8 DEF FindMaps, AllocLogs, ExportLogs, At, To, BeforeAttach, EXIT_FAIL, Crashed
  <1> QED
    BY <1>4, <1>5, <1>6, <1>7, <1>8

(* Two modes with a program are more than one.                              *)
LEMMA TwoOn ==
  ASSUME NEW l, NEW m \in Modes, NEW k \in Modes, k # m, l[m] # 0, l[k] # 0
  PROVE  Cardinality({x \in Modes : l[x] # 0}) > 1
  <1> DEFINE on == {x \in Modes : l[x] # 0}
  <1>1. IsFiniteSet(Modes)
    <2>1. IsFiniteSet({"SKB"}) /\ IsFiniteSet({"DRV"}) /\ IsFiniteSet({"HW"})
      BY FS_Singleton
    <2>2. IsFiniteSet({"SKB"} \cup {"DRV"})
      BY <2>1, FS_Union
    <2>3. IsFiniteSet(({"SKB"} \cup {"DRV"}) \cup {"HW"})
      BY <2>1, <2>2, FS_Union
    <2>4. ({"SKB"} \cup {"DRV"}) \cup {"HW"} = Modes
      BY DEF Modes
    <2> QED
      BY <2>3, <2>4
  <1>2. IsFiniteSet(on) /\ {m} \cup {k} \subseteq on
    BY <1>1, FS_Subset
  <1> HIDE DEF on
  <1>3. IsFiniteSet({m}) /\ Cardinality({m}) = 1
    BY FS_Singleton
  <1>4. Cardinality({m} \cup {k}) = Cardinality({m}) + 1
    BY <1>3, FS_AddElement
  <1>5. Cardinality({m} \cup {k}) <= Cardinality(on) /\ Cardinality(on) \in Nat
    BY <1>2, FS_Subset, FS_CardinalityType
  <1>6. Cardinality(on) > 1
    BY <1>3, <1>4, <1>5
  <1> QED
    BY <1>6 DEF on

(* What the question finds when it finds nothing.                            *)
LEMMA NothingOn ==
  ASSUME RunsInv, NEW flags, GetLinkXdpId(link, flags).err = "", GetLinkXdpId(link, flags).id = 0,
         ~(Cardinality({x \in Modes : link[x] # 0}) > 1)
  PROVE  \A m \in Modes : link[m] = 0
  <1>1. SUFFICES ASSUME NEW m \in Modes, link[m] # 0 PROVE FALSE
    OBVIOUS
  <1>2. OnlyOn(link, m)
    BY <1>1, TwoOn DEF OnlyOn
  <1>3. GetLinkXdpId(link, flags).id = link[m]
    BY <1>2, OneModeId DEF RunsInv
  <1> QED
    BY <1>1, <1>3

(* xdp_link_detach: the id it is given is that of the only program there    *)
(* is, which it takes off in the mode of its own flags.                     *)
LEMMA CleanDetach ==
  ASSUME CleanInv, DetachQuery \/ DetachRemove
  PROVE  CleanInv'
  <1>1. /\ RunsInv /\ run \in Nat /\ run \in 1 .. MaxRuns /\ link \in [Modes -> Nat] /\ native \in BOOLEAN
        /\ asked' = asked /\ mpc # "off" /\ mpc \notin BeforeAttach /\ mpc \notin {"remove", "again"}
    <2>1. asked' = asked /\ mpc \in {"detach", "removing"}
      BY DEF DetachQuery, DetachRemove, At
    <2> QED
      BY <2>1, MeasureMainAssumption DEF CleanInv, RunsInv, BeforeAttach
  <1>2. CASE DetachQuery
    <2> DEFINE q == GetLinkXdpId(link, cfg.xdp_flags)
    <2>0. link' = link
      BY <1>2 DEF DetachQuery
    <2>1. CASE To("removing")
      <3>1. UNCHANGED <<native, run>> /\ mpc' = "removing"
        BY <2>1 DEF To, runvars
      <3> QED
        BY <1>1, <2>0, <3>1, CleanQuiet DEF BeforeAttach
    <2>2. CASE (\E c : Exit(c)) /\ missed' = TRUE
      <3>1. UNCHANGED <<native, run>> /\ mpc' = "off"
        BY <2>2 DEF Exit, runvars
      <3>2. RunsInv' /\ OwnedInv' /\ FreshInv'
        BY <1>1, <2>0, <3>1 DEF CleanInv, RunsInv, OwnedInv, FreshInv, BeforeAttach
      <3> QED
        BY <2>2, <3>2 DEF CleanInv, CleanAfterSuccess
    <2>3. CASE /\ q.err = OK /\ q.id = 0 /\ \E c : Exit(c)
               /\ missed' = (Cardinality({m \in Modes : link[m] # 0}) > 1)
      <3>1. UNCHANGED <<native, run>> /\ mpc' = "off"
        BY <2>3 DEF Exit, runvars
      <3>2. RunsInv' /\ OwnedInv' /\ FreshInv'
        BY <1>1, <2>0, <3>1 DEF CleanInv, RunsInv, OwnedInv, FreshInv, BeforeAttach
      <3>3. ~missed' => \A m \in Modes : link[m] = 0
        BY <1>1, <2>3, NothingOn DEF OK
      <3>4. CleanAfterSuccess'
        BY <2>0, <3>3 DEF CleanAfterSuccess
      <3> QED
        BY <3>2, <3>4 DEF CleanInv
    <2> QED
      BY <1>2, <2>1, <2>2, <2>3 DEF DetachQuery
  <1>3. CASE DetachRemove
    <2> DEFINE mode == KernelMode(cfg.xdp_flags, native)
    <2>1. PICK r \in SetLinkXdpFd(link, native, 0, cfg.xdp_flags) :
            link' = r.link /\ missed' = (r.err # "") /\ \E c : Exit(c)
      BY <1>3 DEF DetachRemove
    <2>2. UNCHANGED <<native, run, cfg>> /\ mpc' = "off"
      BY <2>1 DEF Exit, runvars
    <2>6. (r.link = link \/ r.link = Put(link, mode, 0)) /\ (r.err = "" => r.link = Put(link, mode, 0))
      <3>1. 0 \in Nat
        OBVIOUS
      <3> QED
        BY <1>1, <3>1, SetResult
    <2>7. (link' = link \/ link' = Put(link, mode, 0)) /\ (~missed' => link' = Put(link, mode, 0))
      BY <2>1, <2>6
    <2>8. mode \in Modes
      BY DEF KernelMode, Modes
    <2> HIDE DEF mode
    <2>9. link' \in [Modes -> Nat] /\ OwnedInv'
      <3>1. \A m \in Modes : link[m] \in 1 .. MaxRuns => link[m] <= run /\ m = KernelMode(asked'[link[m]], native)
        BY <1>1 DEF CleanInv, OwnedInv
      <3>2. CASE link' = link
        BY <1>1, <2>2, <3>1, <3>2 DEF OwnedInv
      <3>3. CASE link' = Put(link, mode, 0)
        <4>1. 0 \in Nat /\ 0 \notin 1 .. MaxRuns
          OBVIOUS
        <4> QED
          BY <1>1, <2>2, <2>8, <3>1, <3>3, <4>1, OwnedPut
      <3> QED
        BY <2>7, <3>2, <3>3
    <2>10. CleanAfterSuccess'
      <3> SUFFICES ASSUME ~missed', NEW r0 \in 1 .. run, asked[r0] = cfg.xdp_flags, NEW m \in Modes, link'[m] = r0
                   PROVE  FALSE
        BY <1>1, <2>2 DEF CleanAfterSuccess
      <3>1. link'[m] = IF m = mode THEN 0 ELSE link[m]
        <4>1. 0 \in Nat
          OBVIOUS
        <4> QED
          BY <1>1, <2>7, <2>8, <4>1, PutIs
      <3>2. r0 \in 1 .. MaxRuns /\ r0 # 0
        BY <1>1, MeasureMainAssumption
      <3>3. m # mode /\ link[m] = r0
        BY <3>1, <3>2
      <3>4. m = KernelMode(asked[r0], native)
        BY <3>2, <3>3 DEF CleanInv, OwnedInv
      <3> QED
        BY <3>3, <3>4 DEF mode
    <2> QED
      BY <1>1, <2>2, <2>9, <2>10 DEF CleanInv, RunsInv, FreshInv, BeforeAttach
  <1> QED
    BY <1>2, <1>3

(* Every step keeps the invariant.                                          *)
LEMMA CleanNext ==
  ASSUME CleanInv, Next
  PROVE  CleanInv'
  <1>0. link \in [Modes -> Nat] /\ native \in BOOLEAN /\ MaxRuns \in Nat /\ run \in 0 .. MaxRuns /\ RunsInv
    BY MeasureMainAssumption DEF CleanInv, RunsInv
  <1>1. CASE Attach \/ RemoveOpposite \/ AttachAgain
    BY <1>1, CleanAttach
  <1>2. CASE DetachQuery \/ DetachRemove
    BY <1>2, CleanDetach
  <1>3. CASE UNCHANGED mainvars
    BY <1>3 DEF mainvars, CleanInv, RunsInv, OwnedInv, FreshInv, CleanAfterSuccess
  <1>4. CASE MainStep
    BY <1>1, <1>2, <1>3, <1>4, CleanLoading DEF MainStep
  <1>5. ASSUME NEW a \in CmdLines, Start(a) PROVE CleanInv'
    <2>1. run < MaxRuns /\ mpc' = "boot" /\ run' = run + 1 /\ UNCHANGED <<link, native, asked>>
      BY <1>5 DEF Start
    <2>2. RunsInv'
      BY <1>0, <2>1 DEF RunsInv
    <2>3. OwnedInv'
      BY <1>0, <2>1 DEF CleanInv, OwnedInv
    <2>4. \A m \in Modes : link'[m] # run'
      BY <1>0, <2>1 DEF CleanInv, OwnedInv
    <2>5. FreshInv' /\ CleanAfterSuccess'
      BY <2>1, <2>4 DEF FreshInv, CleanAfterSuccess
    <2> QED
      BY <2>2, <2>3, <2>5 DEF CleanInv
  <1>6. CASE Sigint
    <2>1. CASE Exit(130)
      BY <1>6, <2>1, CleanExit DEF Sigint
    <2>2. CASE UNCHANGED <<runvars, mpc, cfg, code, link, asked, missed>>
      BY <2>2 DEF runvars, CleanInv, RunsInv, OwnedInv, FreshInv, CleanAfterSuccess
    <2> QED
      BY <1>6, <2>1, <2>2 DEF Sigint
  <1>7. CASE Kill
    <2>1. mpc # "off" /\ mpc' = "off" /\ code' = 137 /\ UNCHANGED <<link, native, run, asked>>
      BY <1>7 DEF Kill
    <2> QED
      BY <2>1, CleanQuiet DEF BeforeAttach
  <1>8. ASSUME NEW prog \in {0, Foreign}, NEW flags, OtherLink(prog, flags) PROVE CleanInv'
    <2> DEFINE mode == KernelMode(flags, native)
    <2>1. prog \in Nat /\ prog \notin 1 .. MaxRuns /\ \A r \in 1 .. run : prog # r
      BY <1>0 DEF Foreign
    <2>2. mode \in Modes
      BY DEF KernelMode, Modes
    <2>3. link' = Put(link, mode, prog)
      <3>1. link' = KernelSet(link, native, prog, flags).link /\ link' # link
        BY <1>8 DEF OtherLink
      <3>2. KernelSet(link, native, prog, flags).link = Put(link, mode, prog)
            \/ KernelSet(link, native, prog, flags).link = link
        BY <1>0, <2>1, KernelResult
      <3> QED
        BY <3>1, <3>2
    <2>4. UNCHANGED <<native, run, asked, mpc, cfg, code, missed>>
      BY <1>8 DEF OtherLink
    <2> HIDE DEF mode
    <2>5. link' \in [Modes -> Nat] /\ OwnedInv'
      <3>1. \A m \in Modes : link[m] \in 1 .. MaxRuns => link[m] <= run /\ m = KernelMode(asked'[link[m]], native)
        BY <2>4 DEF CleanInv, OwnedInv
      <3> QED
        BY <1>0, <2>1, <2>2, <2>3, <2>4, <3>1, OwnedPut
    <2>6. \A m \in Modes : link'[m] = prog \/ link'[m] = link[m]
      BY <1>0, <2>1, <2>2, <2>3, PutIs
    <2>7. RunsInv'
      BY <2>4, <2>5 DEF CleanInv, RunsInv
    <2>8. FreshInv'
      <3>1. mpc \in BeforeAttach => run \in 1 .. run
        BY <1>0 DEF RunsInv, BeforeAttach
      <3> QED
        BY <2>1, <2>4, <2>6, <3>1 DEF CleanInv, FreshInv
    <2>9. CleanAfterSuccess'
      BY <2>1, <2>4, <2>6 DEF CleanInv, CleanAfterSuccess
    <2> QED
      BY <2>5, <2>7, <2>8, <2>9 DEF CleanInv
  <1> QED
    BY <1>2, <1>3, <1>4, <1>5, <1>6, <1>7, <1>8 DEF Next

(* After a run that ended with success nothing that it or an earlier run    *)
(* with the same flags attached is on the device, unless the detach met an  *)
(* error, which main drops, or several modes at once: for all command lines *)
(* and any number of runs one after the other, killed or not, with requests *)
(* that fail and another process that attaches and detaches programs of its *)
(* own.                                                                     *)
THEOREM NothingLeftAttached == Spec => []CleanAfterSuccess
  <1>1. Init => CleanInv
    BY CleanInit
  <1>2. CleanInv /\ [Next]_vars => CleanInv'
    <2>1. CASE UNCHANGED vars
      BY <2>1 DEF vars, mainvars, CleanInv, RunsInv, OwnedInv, FreshInv, CleanAfterSuccess
    <2> QED
      BY <2>1, CleanNext
  <1>3. CleanInv => CleanAfterSuccess
    BY DEF CleanInv
  <1> QED
    BY <1>1, <1>2, <1>3, PTL DEF Spec

=============================================================================
