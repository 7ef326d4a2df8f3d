----------------------------- MODULE PerfBuffer -----------------------------
(***************************************************************************)
(* libbpf's perf buffers and links (libbpf/src/libbpf.c): one ring per CPU,  *)
(* which the kernel fills while the application polls, and the links that    *)
(* attach a program to a perf event.                                         *)
(*                                                                         *)
(* A ring has RingWords words and is addressed modulo its size; head and     *)
(* tail are 64 bit and do not overflow.  A record is its words: each is      *)
(* <<type, id, size of the record, number of the word>>.                     *)
(***************************************************************************)
EXTENDS Naturals, Sequences, Functions

CONSTANTS PerfCpus, RingWords, MaxRecords, MaxLinks
ASSUME PerfAssumption == /\ RingWords \in Nat \ {0} /\ \E n \in 0 .. RingWords : RingWords = 2 ^ n
                         /\ {PerfCpus, MaxRecords, MaxLinks} \subseteq Nat

VARIABLES pb,       \* struct perf_buffer: open, raw (event_cb is given), cpu_cnt
          prings,   \* of each CPU: data_head, data_tail, words, and buf_size of perf_cpu_buf
          poll,     \* perf_buffer__poll: CPUs still to do, the CPU at hand, its head and tail, ret
          kern,     \* the kernel of each CPU: records made, records it could not write
          pfds,     \* descriptors of the perf buffer; pmap: the perf event array
          pmap,
          events,   \* other perf events: "bare", with a program "set", and "enabled"
          links,    \* live links; link n is of event n
          seen, intact   \* history: records accounted for on each CPU; nothing came out wrong
bufvars == <<pb, prings, poll, kern, pfds, pmap, seen, intact>>
linkvars == <<events, links>>
pvars == <<bufvars, linkvars>>

Cpus == 0 .. PerfCpus - 1
CONT == "cont"
NotPolling == [todo |-> <<>>, cpu |-> PerfCpus, head |-> 0, tail |-> 0, ret |-> CONT]
NoRing == [data_head |-> 0, data_tail |-> 0, words |-> [i \in 0 .. RingWords - 1 |-> <<"none", 0, 0, 0>>], buf_size |-> 0]
NoPb == [open |-> FALSE, raw |-> FALSE, cpu_cnt |-> 0]

(* libbpf_num_possible_cpus: the file lists ranges of CPUs; one without an   *)
(* end is a single CPU.                                                      *)
NumPossibleCpus(ranges) ==
  LET n[i \in 0 .. Len(ranges)] ==
        IF i = 0 THEN 0 ELSE n[i - 1] + (IF Len(ranges[i]) = 1 THEN 1 ELSE ranges[i][2] + 1 - ranges[i][1])
  IN  n[Len(ranges)]
PossibleFiles == {<<<<0, PerfCpus - 1>>>>, [c \in 1 .. PerfCpus |-> <<c - 1>>]}

PerfInit ==
  /\ pb = NoPb /\ prings = [c \in Cpus |-> NoRing] /\ poll = NotPolling
  /\ kern = [c \in Cpus |-> [made |-> 0, lost |-> 0]]
  /\ pfds = {} /\ pmap \in {[c \in Cpus |-> "none"], [c \in Cpus |-> "other"]} /\ events = <<>> /\ links = {}
  /\ seen = [c \in Cpus |-> 0] /\ intact = TRUE
PerfIdle == PerfInit /\ pmap = [c \in Cpus |-> "none"]

Least(a, b) == IF a < b THEN a ELSE b
(* perf_buffer__free_cpu_buf and perf_buffer__free: the map entries of the   *)
(* first n CPUs and everything that is open.                                 *)
FreeBuf(n) ==
  /\ pb' = NoPb /\ pfds' = {} /\ prings' = [c \in Cpus |-> NoRing]
  /\ pmap' = [c \in Cpus |-> IF c < n THEN "none" ELSE pmap[c]]
(* perf_buffer__open_cpu_buf: whether there is a buffer.                     *)
OpenCpuBuf(fail) == fail \notin {"calloc", "open", "mmap", "enable"}
(* __perf_buffer__new, for a map with entries elements.  It may fail before  *)
(* the first buffer, or at CPU n; when its buffer cannot go into the map or  *)
(* to epoll, the entry of that CPU is deleted as well.                       *)
PerfBufferNew(raw, entries, file) ==
  LET cnt == IF raw THEN entries ELSE Least(NumPossibleCpus(file), entries)
  IN  /\ ~pb.open /\ poll = NotPolling
      /\ \/ /\ pb' = [open |-> TRUE, raw |-> raw, cpu_cnt |-> cnt]
            /\ pfds' = {<<"epoll", 0>>} \cup {<<"perf", c>> : c \in 0 .. cnt - 1}
            /\ pmap' = [c \in Cpus |-> IF c < cnt THEN "mine" ELSE pmap[c]]
            /\ UNCHANGED prings
         \/ FreeBuf(0)
         \/ \E n \in 0 .. cnt - 1, fail \in {"calloc", "open", "mmap", "enable", "map", "epoll"} :
              FreeBuf(IF OpenCpuBuf(fail) THEN n + 1 ELSE n)
      /\ kern' = [c \in Cpus |-> [kern[c] EXCEPT !.lost = 0]]
      /\ seen' = [c \in Cpus |-> kern[c].made]
      /\ UNCHANGED <<poll, intact>> /\ UNCHANGED linkvars
PerfBufferFree ==
  /\ pb.open /\ poll = NotPolling /\ FreeBuf(pb.cpu_cnt)
  /\ UNCHANGED <<poll, kern, seen, intact>> /\ UNCHANGED linkvars

(* The kernel makes a record on CPU c, of the given type and size.  When     *)
(* the ring has no room it is lost; the next one that fits is preceded by a  *)
(* record of how many were.                                                  *)
Written(r, type, id, size) ==
  [r EXCEPT !.data_head = @ + size,
            !.words = [i \in DOMAIN @ |->
              LET k == (i + RingWords - (r.data_head % RingWords)) % RingWords
              IN  IF k < size THEN <<type, id, size, k + 1>> ELSE @[i]]]
KernelOutput(c, type, size) ==
  LET r == prings[c]
      k == kern[c]
      need == size + (IF k.lost > 0 THEN 1 ELSE 0)
      told == IF k.lost > 0 THEN Written(r, "lost", k.lost, 1) ELSE r
  IN  /\ pb.open /\ c < pb.cpu_cnt /\ FoldFunction(LAMBDA x, n : x.made + n, 0, kern) < MaxRecords
      /\ IF r.data_head + need - r.data_tail > RingWords
           THEN kern' = [kern EXCEPT ![c] = [made |-> @.made + 1, lost |-> @.lost + 1]] /\ UNCHANGED prings
           ELSE /\ kern' = [kern EXCEPT ![c] = [made |-> @.made + 1, lost |-> 0]]
                /\ prings' = [prings EXCEPT ![c] = Written(told, type, k.made + 1, size)]
      /\ UNCHANGED <<pb, poll, pfds, pmap, seen, intact>> /\ UNCHANGED linkvars

(* The next ring: its head is read once, its tail is the reader's own.       *)
Enter(todo) ==
  IF todo = <<>> THEN NotPolling
  ELSE [todo |-> Tail(todo), cpu |-> Head(todo), head |-> prings[Head(todo)].data_head,
        tail |-> prings[Head(todo)].data_tail, ret |-> CONT]
(* perf_buffer__poll: epoll reports the rings that have something, in any    *)
(* order.                                                                    *)
PollStart(todo) ==
  /\ pb.open /\ poll = NotPolling /\ todo # <<>>
  /\ \A i \in DOMAIN todo : prings[todo[i]].data_head # prings[todo[i]].data_tail
  /\ \A i, j \in DOMAIN todo : todo[i] = todo[j] => i = j
  /\ poll' = Enter(todo)
  /\ UNCHANGED <<pb, prings, kern, pfds, pmap, seen, intact>> /\ UNCHANGED linkvars

(* A record that goes over the end of the ring is put together from its two  *)
(* parts.                                                                    *)
RecordAt(r, tail) ==
  LET start == tail % RingWords
      size == r.words[start][3]
      len_first == RingWords - start
  IN  [i \in 1 .. size |-> IF start + size > RingWords /\ i > len_first THEN r.words[i - len_first - 1]
                           ELSE r.words[start + i - 1]]
(* perf_buffer__process_record: what it may return for a record.             *)
ProcessRecord(type) ==
  IF pb.raw THEN {CONT, "done", "error"} ELSE IF type \in {"sample", "lost"} THEN {CONT} ELSE {"error"}

(* Mutant: the record at which the callback stops stays in the ring.         *)
StopKeeps(tail, size, ret) == IF ret = CONT THEN tail + size ELSE tail
(* A record the callback has seen is consumed, whatever it returned.         *)
TailAfter(tail, size, ret) == tail + size

(* One turn of the loop of bpf_perf_event_read_simple.                       *)
ReadRecord ==
  LET c == poll.cpu
      r == prings[c]
      rec == RecordAt(r, poll.tail)
      size == Len(rec)
      wraps == (poll.tail % RingWords) + size > RingWords
      type == rec[1][1]
  IN  /\ poll # NotPolling /\ poll.ret = CONT /\ poll.tail # poll.head
      /\ \/ /\ \E ret \in ProcessRecord(type) :
                 poll' = [poll EXCEPT !.tail = TailAfter(@, size, ret), !.ret = ret]
            /\ prings' = [prings EXCEPT ![c].buf_size = IF wraps /\ @ < size THEN size ELSE @]
            /\ seen' = [seen EXCEPT ![c] = @ + (IF type = "lost" THEN rec[1][2] ELSE 1)]
            /\ intact' = (intact /\ rec = [i \in 1 .. size |-> <<type, rec[1][2], size, i>>]
                                 /\ (type # "lost" => rec[1][2] = seen[c] + 1))
         \/ /\ wraps /\ r.buf_size < size      \* malloc fails
            /\ poll' = [poll EXCEPT !.ret = "error"]
            /\ prings' = [prings EXCEPT ![c].buf_size = 0]
            /\ UNCHANGED <<seen, intact>>
      /\ UNCHANGED <<pb, kern, pfds, pmap>> /\ UNCHANGED linkvars
(* Its end: the tail goes to the kernel; an error ends the poll.  "done" is  *)
(* LIBBPF_PERF_EVENT_DONE, which is 0 and so no error to the poll: it goes   *)
(* on with the next ring, as after CONT, which becomes 0 on the way.         *)
WriteTail ==
  /\ poll # NotPolling /\ (poll.ret # CONT \/ poll.tail = poll.head)
  /\ prings' = [prings EXCEPT ![poll.cpu].data_tail = poll.tail]
  /\ poll' = IF poll.ret = "error" THEN NotPolling ELSE Enter(poll.todo)
  /\ UNCHANGED <<pb, kern, pfds, pmap, seen, intact>> /\ UNCHANGED linkvars

(* bpf_program__attach_perf_event: how far it gets with the event.           *)
AttachPerfEvent(fail) ==
  CASE fail \in {"no program", "malloc", "set_bpf"} -> "bare" [] fail = "enable" -> "set" [] OTHER -> "enabled"
(* perf_event_open_probe and perf_event_open_tracepoint: whether there is an *)
(* event; the type of a probe, the bit of a return probe and the id of a     *)
(* tracepoint are read from a file.                                          *)
OpenProbe(retprobe, fail) == fail \notin {"type", "open"} /\ ~(retprobe /\ fail = "retprobe")
OpenTracepoint(fail) == fail \notin {"id", "open"}

With(n, state) == [e \in DOMAIN events \cup {n} |-> IF e = n THEN state ELSE events[e]]
(* An event that was opened for a program is closed when it cannot be        *)
(* attached.                                                                 *)
Attached(n, opened, fail) ==
  /\ n \notin DOMAIN events
  /\ IF opened /\ AttachPerfEvent(fail) = "enabled"
       THEN events' = With(n, "enabled") /\ links' = links \cup {n}
       ELSE UNCHANGED linkvars
  /\ UNCHANGED bufvars
(* bpf_program__attach_kprobe and _uprobe; bpf_program__attach_tracepoint.   *)
AttachProbe(n, retprobe, fail) == Attached(n, OpenProbe(retprobe, fail), fail)
AttachTracepoint(n, fail) == Attached(n, OpenTracepoint(fail), fail)
(* Attaching to an event of the application: when it fails the event is      *)
(* still the application's, which closes it.                                 *)
AttachOwn(n, fail) ==
  /\ n \notin DOMAIN events
  /\ events' = With(n, AttachPerfEvent(fail))
  /\ links' = IF AttachPerfEvent(fail) = "enabled" THEN links \cup {n} ELSE links
  /\ UNCHANGED bufvars
CloseOwn(n) ==
  /\ n \in DOMAIN events \ links /\ events' = Restrict(events, DOMAIN events \ {n})
  /\ UNCHANGED <<bufvars, links>>
(* bpf_program__attach_raw_tracepoint.                                       *)
AttachRawTracepoint(n, fail) ==
  /\ n \notin DOMAIN events
  /\ IF fail \in {"no program", "malloc", "open"} THEN UNCHANGED <<events, links>>
     ELSE events' = With(n, "enabled") /\ links' = links \cup {n}
  /\ UNCHANGED bufvars
(* bpf_link__destroy, of either kind: the event is closed also when it       *)
(* cannot be disabled.                                                       *)
LinkDestroy(n) ==
  /\ n \in links /\ links' = links \ {n} /\ events' = Restrict(events, DOMAIN events \ {n})
  /\ UNCHANGED bufvars

AttachFails == {"none", "type", "retprobe", "id", "open", "no program", "malloc", "set_bpf", "enable"}
BufferNext ==
  \/ \E raw \in BOOLEAN, entries \in 1 .. PerfCpus, file \in PossibleFiles : PerfBufferNew(raw, entries, file)
  \/ PerfBufferFree
  \/ \E c \in Cpus, size \in 1 .. 2 : KernelOutput(c, "sample", size)
  \/ \E c \in Cpus : KernelOutput(c, "other", 1)
  \/ \E todo \in UNION {[1 .. k -> Cpus] : k \in 1 .. PerfCpus} : PollStart(todo)
  \/ ReadRecord \/ WriteTail
LinkNext ==
  \/ \E n \in 1 .. MaxLinks, fail \in AttachFails :
       \/ \E retprobe \in BOOLEAN : AttachProbe(n, retprobe, fail)
       \/ AttachTracepoint(n, fail) \/ AttachOwn(n, fail) \/ AttachRawTracepoint(n, fail)
  \/ \E n \in 1 .. MaxLinks : CloseOwn(n) \/ LinkDestroy(n)
PerfSpec == PerfInit /\ [][BufferNext \/ LinkNext]_pvars

(* Every record of a CPU comes out of its ring once, complete and in the     *)
(* order it was made, also one that goes over the end of the ring, and also  *)
(* when a callback or a malloc stops the reader; those that did not fit are  *)
(* accounted for before the next one.  The descriptors and the entries of    *)
(* the event array are those of a live buffer, and every event that has a    *)
(* program running is a live link's.                                         *)
PerfExact ==
  /\ intact
  /\ \A c \in Cpus : LET r == prings[c] IN
       /\ r.data_tail <= r.data_head /\ r.data_head - r.data_tail <= RingWords
       /\ pb.open /\ c < pb.cpu_cnt /\ r.data_tail = r.data_head /\ poll = NotPolling =>
            seen[c] + kern[c].lost = kern[c].made
  /\ pfds = IF pb.open THEN {<<"epoll", 0>>} \cup {<<"perf", c>> : c \in 0 .. pb.cpu_cnt - 1} ELSE {}
  /\ {c \in Cpus : pmap[c] = "mine"} = {c \in Cpus : pb.open /\ c < pb.cpu_cnt}
  /\ links = {n \in DOMAIN events : events[n] = "enabled"}
=============================================================================
