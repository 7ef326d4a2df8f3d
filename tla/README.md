# TLA+ models of the in-kernel processing experiment

The repository holds the programs of an experiment that measures how fast a
packet gets from the network device to a user program, along three paths: a
kernel module with a receive handler and a proc file, an XDP program with eBPF
maps, and an ordinary UDP socket. A client sends numbered packets; every
program writes the time at which it met a packet into a log indexed by the
packet's uid, and exports the log when it ends. Scripts then pair the lines of
the exported files. What the experiment shows is only as good as this: a packet
that a program handled is in its log, a zero line is a packet that was really
lost, and a program that is told to end exports its log.

The XDP path stands on a copy of libbpf that is part of the repository and is
built with it: it reads the object file, creates the maps, relocates and loads
the program and talks to the device.

This directory models those programs and the library, checks them with TLC on
small instances and proves with TLAPS, for instances of any size, the safety
properties of the three receiving paths, the refinement of the packet cache, the
life cycle and the export of the kernel module, the attaching and detaching of
the measuring program, the rollback of the library's failed calls, and the
library's rings, sockets and perf buffers.

## Inventory

| Component | Source | State | Operations | Hard part |
|---|---|---|---|---|
| Packet cache of the kernel module | `mymodule/kernel_module/intercept-module.c` | `status`, the slots, `current_index`, the counters, the kernel log | `rxhPacketIn` (softirq), `read` (system call) | no lock between them; payload larger than a slot; copy_to_user may fail |
| User-space processing | `mymodule/kernel_module/user-processing.c` | `buff_read`, its log, `keep_running` | read loop, Ctrl+C, export | signals at any point; a failed read looks like a good one |
| Timestamp logs | `mymodule/common.h` and all programs | `log_buffs` | store, export | index arithmetic, uid one past the end |
| Client | `mymodule/helper/client.c` | `uid` | send loop | sends `MAX_LOG_ENTRY + 1` packets |
| Socket server | `mymodule/helper/server.c` | its log, `keep_running` | receive loop, Ctrl+Z, export | loss, reordering, duplication, blocking `recvfrom` |
| XDP program | `eBPF_app/eBPF_measure/ebpf_measure_kern.c` | maps `uid_timestamps`, `pkt_payload` | one run per packet and CPU | unlocked map elements |
| eBPF measuring program | `eBPF_app/eBPF_measure/ebpf_measure_user.c` | `next_uid`, its log, `global_exit` | fetch loop, two exports, detach | torn copies, head-of-line blocking, export during traffic |
| Life cycle of the module | `intercept-module.c`, `myinit`, `myexit`, registration | allocations, proc entry, handler, the exported file | insmod, rmmod | partial failure, early return, lock order |
| Proc file | `intercept-module.c`, `fops`, `vm_ops` | open files and mappings | open, mmap, fault, read, write, release | calls under way while the module is removed |
| XDP loading and attaching | `eBPF_app/common/common_user_bpf_xdp.c` | program on the device | attach, detach | other processes, error exits |
| Command line | `eBPF_app/common/common_params.c` | `struct config` | option parsing | flag combinations |
| Header parsing and rewriting | `eBPF_app/common/parsing_helpers.h`, `rewrite_helpers.h` | none | parsers, VLAN push and pop, swaps | bounds, fixed payload offset |
| libbpf: object files | `libbpf.c`, to `bpf_program__relocate` | sections, symbols, maps, relocations | open, collect, relocate | any order of sections and symbols |
| libbpf: life of an object | `libbpf.c` | descriptors, pins | open, load, reuse, pin, unpin, unload, close | one of many system calls fails |
| libbpf: program loading | `libbpf.c`, `bpf.c`, `libbpf_probes.c` | log buffer, records | load, probe, `get_prog_info_linear` | retries that change the request |
| libbpf: type information | `btf.c` | types, `.BTF.ext` | sizes, map types, data sections, records | cycles, overflow |
| libbpf: deduplication | `btf.c` | canonical and hypothetical mappings | `btf__dedup` | equivalence of cyclic graphs, collisions |
| libbpf: C output | `btf_dump.c` | order and emit states, names | `btf_dump__dump_type` | circles, declarators, padding |
| libbpf: CO-RE | `libbpf.c`, `bpf_core_*` | candidate lists | relocate a field | narrowing from one relocation to the next |
| libbpf: hash map | `hashmap.c` | buckets | insert, find, delete, grow | growth that fails |
| libbpf: AF_XDP | `xsk.h`, `xsk.c` | rings, references, mappings | reserve, submit, peek, release; create, delete | stale indices, partial failure |
| libbpf: perf buffers, links | `libbpf.c` | rings, events | new, poll, free; attach, destroy | reader stopped between records |
| libbpf: netlink | `netlink.c`, `nlattr.c` | none | set and query XDP | multipart answers, missing attributes |
| libbpf: line information | `bpf_prog_linfo.c` | index of functions | find by instruction, by address | lines cut into functions |
| Scripts | `mymodule/scripts/*.py` | none | pairing of log lines, statistics | zero lines |

How they interact: the client's packets reach either the receive handler or the
XDP program, and then the socket. Handler and `read` share the cache, XDP
program and measuring program share the maps, and all of them share nothing but
the uid with the server. The logs meet in the scripts.

The measuring program opens, loads and attaches through `BpfObject`'s and
`XdpLink`'s operations; `libbpf`'s other parts are called from there
(`ElfObject`, `Btf` and `CoreReloc` while opening and loading) or stand alone.
`headers` and `lkmc` are third-party declarations, and no program updates
`xdp_stats_kern.h`'s counters.

## Modules

| Module | What it is |
|---|---|
| `LogBuffs` | sizes, cells, bounds check and store of the timestamp logs |
| `InterceptBuffer` | the packet cache, `rxhPacketIn`, `read` and `user-processing.c` |
| `PacketBuffer` | the abstract specification: a bounded buffer of packets |
| `InterceptRefinement` | the refinement mapping from `InterceptBuffer` to `PacketBuffer` |
| `InterceptInvariants` | the inductive invariant of the cache, in parts |
| `SocketServer` | client, network, receive buffer, server and its signals |
| `EbpfPath` | XDP program, maps and measuring program |
| `EbpfInvariants` | the inductive invariant of the eBPF application |
| `LogBuffs_proofs`, `InterceptBuffer_proofs`, `InterceptRefinement_proofs`, `SocketServer_proofs`, `EbpfPath_proofs`, `KernelLifecycle_proofs`, `MeasureMain_proofs`, `Library_proofs` | 29 theorems and their proofs |
| `KernelLifecycle` | insmod, rmmod, registration, the export and the proc file's operations |
| `MeasureMain` | the measuring program from start to exit, several times on one device |
| `BpfObject` | the life of a `struct bpf_object`, its descriptors and its pins |
| `XdpLink`, `Netlink` | the device's XDP hook, the requests to it and how answers are read |
| `CmdLine` | options to configuration |
| `PacketParse` | header parsers, `xdp_sock_prog`'s decision, rewriting helpers |
| `ElfObject`, `Btf`, `CoreReloc`, `BtfDedup`, `BtfDump`, `LineInfo`, `ProgLoad` | libbpf's algorithms as operators |
| `HashMap`, `XskRing`, `XskSocket`, `PerfBuffer` | libbpf's parts with state |
| `MCInterceptBuffer`, `MCEbpfPath`, `MCEbpfSetup` | small instances for TLC |
| `MCElf`, `MCBtf`, `MCCore`, `MCDedup`, `MCDump`, `MCPacket`, `MCProgLoad`, `MCHashMap` | bounded inputs of an algorithm, and the reference definition its answer is compared with; line information is in `MCBtf` |
| `MCLibrary` | all of these and the four machines in one specification |

`MeasureMain` composes `BpfObject`, `XdpLink` (which uses `Netlink`) and
`CmdLine`. `EbpfPath` begins where `MeasureMain` is in its loop, and
`PacketParse` says which packets are `EbpfPath`'s set `Accepted`.
`KernelLifecycle` treats `read` as a call that needs both buffers;
`InterceptBuffer` says what it does with them.

An operator whose comment begins with "Mutant" is a deliberately wrong version
of the definition that follows it. It is used by no specification; putting it in
the place of that definition must make the property named in `PROJECT.json`
fail.

### InterceptBuffer

Variables carry the names of the code's variables. Every access to `status`, a
slot, `current_index` or a counter by one side that the other side can observe
is a step of its own: the handler's look at a status word (`RxFree`,
`RxOccupied`), each field and each slot of its `memcpy` (`RxCopy`), the store to
`status` (`RxPublish`) and to `current_index` (`RxAdvance`), the load and the
store of each counter (`RxArrive`/`RxCount`, `RxOccupied`/`RxDrop`); the
reader's look at a status word (`ReadSkip`, `ReadFound`), its copy of a slot
(`ReadGrab`), the wipe (`Clean`) and the release (`Release`). The steps are
sequentially consistent: on the x86 machine of the experiment the stores to the
slot and to `status` are not reordered.

A header has two parts that matter: the uid (`data_uid`) and the fields that
`user-processing.c` checks (`data`). `RxCopy` writes one part of one slot, in
either order, so that `ReadGrab` can meet a header of which only a part is there.
With payloads that fit a slot the status words keep the two `memcpy`s apart
(`SlotsExclusive`). With larger ones nothing does: the tail is copied over slots
that `read` is at, and a packet may reach the user program with its uid already
zero. `UserLogWithinKernelLog` says so: uid 0 is excepted once a packet was
overwritten, and no other uid is. One step of `ReadGrab` is enough, because with
one CPU a slot that `read` copies is written with zeroes only.

A payload is a model value with a uid. `Span` is the number of slots that one
`memcpy` of the payload covers: 1 for a payload that fits its slot, 8 for the
1024 bytes of `struct Payload` and the 128 bytes of a slot in `common.h`. The
first slot gets the header; the others get `data[]`, which the client leaves
zero. A copy that starts in the last slots runs past the end of the array; the
allocation of 25600 bytes is rounded up to 32768 by `kmalloc`, so these bytes
hit nothing.

`copy_to_user` may fail after any number of entries; `read` then keeps the slots
but returns `BUFFER_SIZE` all the same. `Sigint` is the first Ctrl+C;
`SigintAgain` is the second, which kills the program because `signal` resets the
handler when `_XOPEN_SOURCE` is defined. The kernel log starts with arbitrary
contents (`__get_free_pages` clears nothing), the user's log with zeroes (blocks
of this size come fresh from `mmap`).

### SocketServer

A packet is its uid. The network loses at most `MaxLost` and duplicates at most
`MaxDup` packets and delivers in any order; the socket's buffer holds `RCVBUF`
packets and drops what does not fit. The server's `recvfrom` is not interrupted
by Ctrl+Z: glibc's `signal` installs handlers with `SA_RESTART` (the Makefile
compiles `server.c` without feature macros). The network and the socket are
modelled from how the two programs use them.

### EbpfPath

The header checks of the XDP program are the set `Accepted`. An element of
`pkt_payload` has two parts, the uid field and the fields that the measuring
program checks; the update and the lookup copy the parts separately and in any
order, because the kernel copies array elements with a plain `memcpy`. The
second export reads the map line by line while the XDP program still runs; the
program is detached at the end.

### KernelLifecycle

`pc` is the place of the thread that runs `myinit` or `myexit`. Memory is the set
of live allocations, each with the load that made it, so that a later load does
not hide what an earlier one left. File operations have a start and an end:
`remove_proc_entry` lets no new call in and waits for those under way, and calls
`release` for the files still open, but a mapping outlives all of it. The pair
`rtnl`, `dev_base_lock` is taken by the module in one order and by a task that
registers a device in the other. The unchecked `kmalloc`s make insmod or the
process inside `open` die. The exported file is kept character by character,
because a file opened without `O_TRUNC` keeps the tail of a longer one.

### MeasureMain, BpfObject, XdpLink, Netlink, CmdLine

A behaviour belongs to one of two clients of the library. `measure` is the
measuring program: options, loading, attaching (with the removal of the
opposite mode), the maps, the loop, the exports and the detach, any number of
times, with an error exit wherever the code has one. Ctrl+C may arrive at every
step, and so may a kill. `api` is any program that calls open, load, pin, unpin,
unload and close in any order. Meanwhile other processes use the same link and
the same directory. A step of a library call is what happens between two
accesses to the BPF file system; at most `MaxFaults` system calls fail.
Descriptors are numbers, allocated as the kernel does, lowest first, so that a
double close is seen. The answers of the kernel to a link dump are built as
netlink attributes and read by the translated parser.

### The library's algorithms

`ElfObject`, `Btf`, `CoreReloc`, `BtfDedup`, `BtfDump`, `LineInfo`, `ProgLoad` and
`PacketParse` are operators over abstract inputs: sections, symbols, types and
words instead of bytes. Each has an MC module with a set of bounded inputs and a
definition, written independently of the code, of what the answer must mean: a
size without limits on depth and range; equality of type graphs by refinement
from "all the same"; a reader of C that parses the printed declarators back and
lays the printed structs out; the field a path of names leads to. `MCLibrary`
chooses an input and does the job; the property of that job is a property of the
step that does it.

`HashMap`, `XskRing`, `XskSocket` and `PerfBuffer` are machines with actions; in
`MCLibrary` a behaviour runs one of them.

What the code does and the properties except, so that everything else is still
checked:

* `bpf_map__reuse_fd` succeeds and `pin_fd` stays open; the reserved number when
  `dup3` fails and the file when `elf_begin` fails are lost (`proc.leaked`).
* A load leaves the pin of a map behind when the map was marked as reused by an
  earlier load: `bpf_map__reuse_fd` sets the mark, `bpf_object__unload` does not
  clear it, and the error path of `bpf_object__load_xattr` spares reused maps (`libbpf.c:4049`) although the next load may have created
  and pinned this one. It takes another process that fills the path and empties
  it again.
* `xsk_socket__create` keeps its reference when `socket()` fails;
  `xsk_umem__create` leaves the fill ring mapped when the second `mmap` fails;
  deleting without ring offsets unmaps nothing (`lost`).
* `load_program` says "continue without log" when `malloc` fails, but the kernel
  refuses a log size without a buffer; with a caller's log level it reads a
  buffer that may not have been written; a program of exactly `BPF_MAXINSNS`
  instructions that fails is called too long.
* `bpf_probe_helper` says yes for a program type the kernel does not know.
* A program that comes before `.text` gets its copy of `.text` before that was
  relocated (`libbpf.c:3538`): `MapRelocations` claims nothing of such a copy.
* An `ld_imm64` of a function's address leaves its relocation descriptor as
  `malloc` returned it.
* `btf__get_from_id` returns whatever `errno` held when the kernel's BTF grew
  between two requests (`btf.c:678`), success included; `btf_parse_str_sec` does
  not compare the end of the strings with the data (`btf.c:131-135`); a data
  section with a variable of an unknown type id is a crash (`btf.c:529-532`).
* `btf__dedup` visits only the line records of `.BTF.ext` (`btf.c:1505-1532`)
  although `btf.c:1092-1094` promises all of its strings: the names in
  `func_info` and `field_reloc` are right only if no string moved.
* `btf_dump`: `btf_align_of` takes a packed member for aligned, so that a struct
  with one and an over-aligned member may lose its trailing padding, and a
  bitfield that only a packed struct can have is not seen as one. These two
  layouts are not among `MCDump`'s inputs.
* A kernel that also declares the type forward is always refused: the declaration
  is a candidate whose size cannot be computed (`libbpf.c:2924-2926`,
  `3367-3371`), although the comment at `3277-3280` calls several candidates no
  error. `bpf_core_find_cands` grows its array to `len + 1` bytes instead of
  `len + 1` ids (`libbpf.c:2691`): from the seventh candidate on (`CandRoom`) it
  writes behind the smallest block that `realloc` hands out. `CoreConsistent`
  states both outcomes.
* Growing a hash map reverses the chains, so that `hashmap__find` returns the last
  inserted value (`hashmap.h:77-79`) only until the first growth of a filled map.
* `vlan_tag_pop` returns the whole tag, priority included, where
  `rewrite_helpers.h:19-20` says that it returns the popped VLAN ID:
  `PacketsParsed` claims the ID of the lower 12 bits only.
* The payload is read at offset 42, also behind VLAN tags and IP options: what is
  stored of such a packet is inside the packet and never the payload.
* A second myexit after one that returned early meets the old proc entry.
* The option table has no terminating entry, `--force` changes nothing, and
  `-M` reuses maps from an empty directory name.

## Runs

| Run | Configuration | States | Result |
|---|---|---|---|
| `cache_safety` | 3 packets, 2 slots, reads of 2 entries, `Span` 2, 1 CPU, 1 fault, 3 log buffers | 818 000 | all invariants hold, the inductive invariant among them; every packet is settled |
| `cache_refinement` | 4 interchangeable packets and one that is passed on, 3 slots, reads of 2, `Span` 1, 1 fault | 712 000 | the cache implements `PacketBuffer`, no data race, nothing overwritten |
| `cache_overlap` | as `cache_safety` | | counterexample: `NothingOverwritten` |
| `cache_two_cpus` | 2 CPUs, `Span` 1 | | counterexample: `Conservation` |
| `module_lifecycle` | 2 loads, 1 process, 2 log entries in 2 buffers, 1 other registration | 82 000 | no use after free, clean unload, faithful export, insmod and rmmod end |
| `server` | 3 uids, receive buffer of 2, 1 loss, 1 duplicate | 79 000 | complete export, one late packet at most, the server ends |
| `server_waits_forever` | 2 uids, 1 loss | | counterexample: `ExportsAfterClient` |
| `server_ctrl_z` | 2 uids, no loss | | counterexample: `CtrlZBreaksLoop` |
| `ebpf_safety` | 5 packets, 2 logged uids, 2 CPUs | 327 000 | logged prefix, nested exports, inductive invariant; stored prefixes are fetched |
| `ebpf_torn` | 2 packets, 1 CPU | | counterexample: `NoGapBelowNext` |
| `ebpf_setup` | 16 command lines, 2 runs, 1 kill, 1 foreign link operation; 2 maps, 2 programs with 1 and 2 instances, 4 calls, 2 faults, 2 foreign pin operations | 328 000 | descriptors, rollback, attach, detach, Ctrl+C |
| `library` | the inputs of the MC modules; 4 map operations, rings of 2 with indices modulo 4, 2 sockets, 2 CPUs with rings of 4 words and 4 records, 2 links | 434 000 | all eleven properties |

Why the bounds are enough. With two slots and three packets the cache runs full,
wraps around, discards, and reuses a slot while `read` is at work; `Span` 2
makes a copy hit a neighbour and run off the end; with a batch as large as the
ring, one scan can fill it. Three slots and batches of two (`cache_refinement`)
add scans that stop because the batch is full, so that `current_index` and `ci`
drift apart. One fault is enough for a packet to be handed out twice. Packet 3
of `MCInterceptBuffer` is no data packet and has a uid past the end of the
log; no packet has uid 0, so that an entry there comes from a torn copy. In the
server's model a buffer of two overflows with the four packets sent. In the eBPF
model packets 1 and 2 are the prefix that `StoredPrefixFetched` is about, packet
4 is the client's last (in the maps but not in the log), packet 3 overwrites its
payload with one that fails the check, and packet 5 is outside the maps.

Two loads let an early return of the first myexit meet the second, and two
entries in two buffers make the export cross a buffer and a shorter log follow
a longer one. Two runs of the measuring program let one find what a killed or
failed one left; two faults let the rollback of a failed call fail too; two
operations of another process let a path be filled, reused and emptied; the
two map shapes have a pinned map before and behind an unpinned one and a map of
the data section. Ring indices modulo twice the ring's size are the smallest
that overflow and still tell full from empty. A ring of four words with records
of one and two words, and a lost record before the next, wraps inside a record. `UintMax` 255 stands for 2^32 - 1 in
sizes of types. The hash map starts empty or with three entries, next to a growth, and keys are
chosen to collide always, or until the second growth. Larger instances of the
two receiving paths are the business of the proofs. Deadlock is not checked:
every program here may end.

### Properties

* `Conservation`: no packet vanishes between handler and user program. It says
  where each packet is at every moment, across both sides' locals.
* `NoDataRace`, `ImplementsPacketBuffer`: status words alone keep handler and
  reader apart, and the two together are a bounded buffer.
* `NothingOverwritten`: holds when the payload fits its slot.
* `DropOnlyIfFull`: a search misses no free slot even when slots are released
  during it.
* `NoDuplicate`: a packet is seen twice only after a failed `copy_to_user`.
* `Accounting`: the module's counters are exact between packets.
* `UserLogWithinKernelLog`, `DrainedLogComplete`: what the scripts rely on, also
  while a payload is copied over a slot that is being read.
* `EveryPacketSettled`: liveness of the cache.
* `OrderedExportComplete`, `AtMostOneLate`, `ExportsUnlessLastLost`: the server.
* `LoggedPrefixArrived`, `ExportNested`, `StoredPrefixFetched`: the eBPF path.
* `NoUseAfterFree`, `CleanUnload`: the order of myexit against handlers, calls and
  open files, and what is left when a step of myinit or myexit fails. The early
  return at line 380 and a mapping that outlives the module are their exceptions.
* `ExportFaithful`: a file with the right number of lines is this load's log.
* `LoadAndUnloadEnd`: insmod and rmmod end, but for the lock order named there.
* `DescriptorsExact`, `FailedCallUndone`: whatever fails in a call of the library,
  descriptors are held once or known to be lost, and the BPF file system is as
  it was (but for what an unpin removed, and the stale mark above).
* `AttachedAsAsked`, `CleanAfterSuccess`: the program is on the hook the options
  ask for and gone after a successful run, also the one an earlier run left.
* `SigintEnds`: Ctrl+C ends the measuring program wherever it arrives.
* `MapRelocations`, `LoadedIfAcceptable`, `CoreConsistent`: what is loaded is what
  was compiled, whatever the file's order, the kernel's age and the retries.
* `DebugInfo`, `DedupLossless`, `DumpFaithful`: type information keeps its meaning.
* `PacketsParsed`: exactly the measured datagrams are stored, nothing is read
  beyond the packet.
* `HashMapExact`, `FramesConserved`, `XskExact`, `PerfExact`: conservation in the
  library's containers, rings and reference counts under failure and overflow.

### What the counterexamples show

* `cache_overlap`: with the constants of `common.h` the handler's `memcpy` zeroes
  the headers of packets that wait in the seven slots behind the chosen one. The
  user program skips zero headers, so they are lost without a count.
* `cache_two_cpus`: handlers on two CPUs can take the same slot. This needs a
  device with several receive queues.
* `server_waits_forever`: the server needs the packet `MAX_LOG_ENTRY - 1`.
* `server_ctrl_z`: Ctrl+Z takes effect only with the next packet.
* `ebpf_torn`: a lookup that overlaps an update yields a payload with uid 0; the
  measuring program logs it under uid 0 and never returns to the right uid.

### Fairness

`cache_safety` assumes that a handler that was called goes on (a softirq runs
to its end) and that the user program's loop is scheduled (it never blocks:
`read` returns at once). Neither packets nor signals have to come, and
`copy_to_user` does not have to fail. `server` assumes that client and server
are scheduled and that a packet does not stay in the network for ever; it may
still be lost. `ebpf_safety` assumes the same of the XDP program and of the
measuring program's busy loop. `module_lifecycle` assumes that the thread of
insmod and rmmod, the task that registers a device and a file operation under
way are scheduled; new calls, packets and loads need not come. `ebpf_setup`
assumes that the measuring program's process is scheduled. The conjunct
`[]<>(mpc # "detach")` is weak fairness of its query to the device, which is
enabled as long as the program is there. The other machines claim safety only.

## Proofs

Constants are arbitrary, under the assumptions named in the modules: finitely
many packets, at least one slot, entry and try, and a log whose size is a
multiple of its buffers' size (both are powers of two in `common.h`). A log uid
then never leaves `log_buffs` (`CellInLog`), and different uids have different
cells (`CellInjective`).

`InterceptBuffer_proofs`:

1. `TypeCorrect` holds for any number of CPUs. Types need `LocalsOK` (what a
   program counter says about the locals: a search is below its last try, a
   release has an index).
2. `DropsOnlyWhenFull` is for one receiving CPU and
   `KM_FIND_BUFF_SLOT_MAX_TRY >= MAX_PKT`. `DropInv` says that a search which
   began with a free slot has one ahead of it: `Dist(write_index, s) + try <
   MAX_PKT`. Only the handler itself occupies slots, so with one CPU a free slot
   stays free.
3. `SlotsExclusive` and `FittingPayloadOverwritesNothing` rest on `SlotInv`: a
   slot the handler has taken is free, a slot the reader holds is occupied and
   held once. The last part needs the distance of the scan again: a slot already
   found is at least `MAX_PKT - rtry` steps away.
   Both are for payloads that fit a slot: the tail of a larger one is copied
   over slots whose status nobody looked at.
4. `PacketsConserved` adds `DataInv`: a slot that is about to be wiped holds
   what was delivered, or was zeroed by the tail of a larger payload.
   `LogsNested` is for one CPU and any payload. `LogInv` says that the handler
   logs a packet before it puts it anywhere, so that every slot and buffer holds
   logged packets only; `UidInv` that next to a packet's checked fields there is
   its uid, or zero if the packet was overwritten meanwhile. `FittingLogsNested`
   combines it with `FittingPayloadOverwritesNothing`: without overwriting there
   is no exception for uid 0.

Each part is inductive together with the ones before it, `IInv` is their
conjunction, and the run `cache_safety` checks it. That one CPU is necessary is
what `cache_two_cpus` shows, and that a fitting payload is necessary is what
`cache_overlap` shows.

5. `CountersExact`: the counters are loaded and stored in two steps.
   `ArrivedInv` says who has been called for what, `CountInv` that a counter is
   the cardinality of the set of packets it stands for, minus one while an
   increment is between its load and its store.
6. `SeenOnce` rests on `UniqueInv`: a packet is in the handler, in one slot, in
   one place of the scan's result or of the user's buffer, or seen, unless it is
   one of those a failed copy left in its slot. `DrainedLog` rests on `HandledInv`: a
   packet that was seen and has a log entry has been handled by the user
   program's loop.
7. `CacheInvariant` is `IInv` itself.

`InterceptRefinement_proofs`: `CacheIsBuffer`, the cache implements `PacketBuffer`
with one CPU, payloads that fit and a search as long as the ring. Besides `IInv`
it needs `FitInv`: an occupied slot holds a packet unless `read` has just wiped
it, and `buff_temp` agrees with the slots it was filled from. `RxArrive` is
the abstract `Offer`, `RxCount` (where the search begins) `MeetFull` if the cache
is full, `RxPublish` is `Accept`, `RxDrop` is `Refuse`, `CopyToUser` is `Deliver`,
`CopyToUserFault` is `DeliverPart` and `Release` is `Free`; every other step
changes nothing there.

`SocketServer_proofs`: `ServerInv` has, besides types, `LateInv` (a server still
in `recvfrom` after Ctrl+Z has logged nothing since), `OrderInv` (while nothing
is lost or overtaken, a uid that was sent is logged or on its way, and in front
of a packet in the queue there is no gap) and `ExportInv` (what the file has
when the export is over). `OrderedExport` and `OneLatePacket` follow.

`EbpfPath_proofs` holds for any number of CPUs. `FetchInv` says that the
timestamp of a uid is stored before its payload can be seen, that a fetched uid
is 0 or the one asked for, that every uid below `next_uid` is stamped, and that
nothing at or above `next_uid` is logged. `EbpfTypeCorrect`,
`LogIsStampedPrefix` and `ExportedLogsNested` follow.

`KernelLifecycle_proofs`: `LifecycleInv` has `HandlerInv` (where the handler is
registered, its buffers are allocated), `EntryInv` (open files and calls under
way keep their proc entry, which is that of the module that is loaded unless an
earlier myexit left it behind) and
`MemInv` (unless an error path was taken, memory holds exactly what the load and
the open files account for). `UnloadIsSafe` and `UnloadIsClean` follow, for any
number of processes, loads, log buffers and registrations.

`ExportIsFaithful` is about the exported text, which is a recursion over the
entries of the log. `ExportInv` is `ExportFaithful` together with `FileInv`: the
file, whatever export it is from, ends with the end of a line. If more lay behind
the text of this export it would end in a newline of its own, and the file would
have a line too many. That the text has one line for each entry is a lemma about
the recursion, shown at the smallest entry where it would fail (`SmallestNumber`,
from the library's `WFMin`). After the export the handler is off (`LifecycleInv`),
so that the log stays what was written.

`MeasureMain_proofs`: `FailedCallsUndone` for both clients of the library, for
objects with any maps and programs. The property speaks about the end of a
call, so the invariant `UndoInv` has to say what holds on the way:

* `ShapeInv`: the shape of the structures, which call a step belongs to, and that
  its index is inside the list it runs over;
* `PinnedInv`: only a load and the pin calls, which need a load before them, pin a
  map;
* `UnchangedInv`: the steps before a call's first change of a path find the paths
  as they were when the call began;
* `LoadInv`: during a load, a path that differs was empty and belongs to a map
  that is pinned now; what the rollback has passed is not pinned by this load;
* `PinInv`: during a pin call, a new pin belongs to something the call has been
  at, and on the way back to something it has still to come to.

It needs the assumption that the maps of an object are a sequence and the numbers
of program instances a sequence of positive numbers, as in every object. The attempt to prove the
property without its last disjunct failed for a reason: it led to the stale
reuse mark listed above, which the run had not met with one foreign operation.

`OwnProgramAttached` needs two facts about the way from the command line to the
hook. `ConfigInv` says that once the options are read `cfg` is what
`parse_cmdline_args` makes of `argv`; a lemma about the turns of that loop, again
by a smallest counterexample, says that the flags have the mode of the last mode
option. `AttachedInv` says that from the lookup of the maps on the mode the
kernel chooses for these flags holds this run's program, unless another process
used the link since. The proof goes through both requests of `xdp_link_attach`
and through the removal between them.

`NothingLeftAttached` is about several runs: `RunsInv` numbers them, `OwnedInv`
says that a program of an earlier run is where that run's flags put it, and
`FreshInv` that a run's own program is not attached before its request. The
detach first asks the kernel which program is there, so the proof computes what
`libbpf_nla_parse` and `bpf_netlink_recv` make of the kernel's answer, attribute
by attribute: with at most one mode in use it is that mode's program
(`OneModeId`). `CmdLines` is assumed to be a set of sequences of option names, and
the programs of `main` and of other processes have different numbers.

`Library_proofs` has three components that share no state.

* `RingFrames`, for every ring size and every index width that is a multiple of
  it. Indices are compared by how far they are ahead of the shared consumer index
  (`Ahead`), so that overflow disappears from the statements. `FillOrdered` and
  `RecvOrdered` order the real and the cached indices of a ring; `FillPrepared`
  and `RecvRead` say which slots the application is at; `FramesApart` says that
  every frame is in exactly one place. A full ring and a stale cached index are the
  cases where the order matters: a reservation that trusts `cached_cons` is
  inside what the kernel has really released.
* `XskResources`: `FdsExact`, `MapsExact` and `RefsExact` account for every
  descriptor, mapping and reference by the umem and the sockets that own it,
  `LostApart` keeps what an error path lost apart from what is in use, and
  `QueuesExact` says that the map of the attached program has the queues of the
  sockets that receive.
* `PerfBufferExact`: `RingsInv` says that the words between tail and head are cut
  into whole records (`Tiled`), that a record of lost ones is followed by another
  record (`LostNext`), and that the numbers of the records go on from the last
  one delivered (`Numbered`, `Follows`); `PollInv` says that the
  reader's copy of the head is the end of a record, also after the kernel has
  written more; `ResourcesInv` accounts for descriptors, map entries and links.

The invariants of the receiving paths that have a name in `InterceptInvariants` and
`EbpfInvariants` are checked by the runs; the others were checked by TLC on the
runs' instances before they were proved.

Only model-checked:

* the liveness properties (`EveryPacketSettled`, `ExportsUnlessLastLost`,
  `StoredPrefixFetched`, `LoadAndUnloadEnd`, `SigintEnds`): fairness is out of the
  prover's reach;
* the properties of the library's algorithms (`MapRelocations`,
  `LoadedIfAcceptable`, `DebugInfo`, `DedupLossless`, `DumpFaithful`,
  `CoreConsistent`, `PacketsParsed`): they compare what a recursion over data
  computes with a reference definition;
* `HashMapExact`, which compares folds over the chains of fixed keys and hashes;
* `DescriptorsExact`, which counts descriptors with folds over the maps and the
  program instances. Its theorem would need besides that the numbers up to
  `MaxFds` never run out, which depends on the objects of the instance.

## Not modelled

* The scripts (statistics in floating point) and the exported files of the user
  programs as sequences of lines.
* The start-up of `user-processing.c` and the statistics map of the XDP program.
* Of libbpf: the one-call wrappers of `bpf.c`, name tables, error strings, the
  traffic-control requests of `netlink.c`, BTF of foreign endianness, the
  alignment of packed structs with bitfields in `btf_dump.c`. Decoding of ELF
  is libelf's and the verifier is the kernel's.
* `bpf_prog_load_xattr_maps` of `common_libbpf.c`, which nothing calls.
* Headers that only declare the kernel's interface.

Timestamps are reduced to "zero or not", printing is left out unless a property
is about it, and uids of 2^32 and more (which the client never sends) are
excluded from the eBPF model, whose keys have four bytes.

## Plan

Done, in this order: `LogBuffs`, `InterceptBuffer` with its abstract
specification and proofs, `SocketServer`, `EbpfPath` with its proofs,
`KernelLifecycle`, `XdpLink`, `BpfObject` and `MeasureMain`, the library; proofs of
the refinement, the server, the life cycle, the rollback, the export, attaching
and detaching, and the library's rings, sockets and perf buffers.

Next:

1. `LogExport` and `LogStats`: the user programs' exported files as sequences of
   lines, a kill between two lines, and what the scripts conclude from zero
   lines.
2. `Experiment`: client, one receiving path and the server composed.
3. A bound on the descriptors an object needs, and with it a proof of
   `DescriptorsExact`.
