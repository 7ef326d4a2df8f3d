----------------------------- MODULE XskSocket -----------------------------
(***************************************************************************)
(* AF_XDP sockets and their packet memory (libbpf/src/xsk.c): what a call    *)
(* takes from the kernel, and what it gives back when one of its steps       *)
(* fails.                                                                    *)
(*                                                                         *)
(* A call is one action; it names the step that fails, "none" if none does.  *)
(* A file descriptor or mapping is <<what, socket>>, 0 for the memory's.     *)
(* Socket s is bound to queue s.                                             *)
(***************************************************************************)
EXTENDS Naturals, Sequences, FiniteSets, Functions

CONSTANTS XskSockets, MaxLost
ASSUME XskAssumption == XskSockets \subseteq Nat \ {0} /\ IsFiniteSet(XskSockets) /\ MaxLost \in Nat

VARIABLES umem,     \* xsk_umem: live, refcount
          socks,    \* the xsk_socket of each live socket: rx, tx, fd, prog
          xfds,     \* open file descriptors
          xmaps,    \* mapped rings
          dev,      \* the device: channels, its program, "none", "xsk" or "other", and its xsks_map
          lost      \* what failed calls left behind: references, mappings
xvars == <<umem, socks, xfds, xmaps, dev, lost>>

Fd(what, s) == <<what, s>>
UmemFd == Fd("umem", 0)
Rings(s, c) == (IF c.rx THEN {<<"rx", s>>} ELSE {}) \cup (IF c.tx THEN {<<"tx", s>>} ELSE {})
UmemRings == {<<"fill", 0>>, <<"comp", 0>>}

XskInit ==
  /\ umem = [live |-> FALSE, refcount |-> 0] /\ socks = <<>> /\ xfds = {} /\ xmaps = {}
  /\ dev \in [channels : {0, 2}, prog : {"none", "other"}, entries : {0}, xsks_map : {{}}]
  /\ lost = [refs |-> 0, maps |-> {}]
XskIdle == XskInit /\ dev.channels = 0 /\ dev.prog = "none"

(* xsk_umem__create_v0_0_4: when the second ring cannot be mapped the result *)
(* of that mmap is unmapped, and the first ring stays.                       *)
UmemCreate(fail) ==
  /\ ~umem.live
  /\ CASE fail = "none" ->
            /\ umem' = [live |-> TRUE, refcount |-> 0]
            /\ xfds' = xfds \cup {UmemFd} /\ xmaps' = xmaps \cup UmemRings /\ lost' = [lost EXCEPT !.maps = @ \ UmemRings]
       [] fail = "mmap_comp" ->
            /\ xmaps' = xmaps \cup {<<"fill", 0>>} /\ lost' = [lost EXCEPT !.maps = @ \cup {<<"fill", 0>>}]
            /\ UNCHANGED <<umem, xfds>>
       [] OTHER -> UNCHANGED <<umem, xfds, xmaps, lost>>
  /\ UNCHANGED <<socks, dev>>
UmemFails == {"none", "socket", "reg", "offsets", "mmap_fill", "mmap_comp"}

(* xsk_umem__delete: EBUSY while a socket refers to it; without the offsets  *)
(* the rings stay mapped.                                                    *)
UmemDelete(fail) ==
  /\ umem.live /\ umem.refcount = 0
  /\ umem' = [live |-> FALSE, refcount |-> 0] /\ xfds' = xfds \ {UmemFd}
  /\ IF fail = "offsets" THEN lost' = [lost EXCEPT !.maps = @ \cup UmemRings] /\ UNCHANGED xmaps
     ELSE xmaps' = xmaps \ UmemRings /\ UNCHANGED lost
  /\ UNCHANGED <<socks, dev>>

(* xsk_get_max_queues: a device without channels has one stream.             *)
MaxQueues(channels) == IF channels = 0 THEN 1 ELSE channels
(* xsk_create_bpf_maps and xsk_load_xdp_prog: a new program has a new        *)
(* xsks_map with an entry for every queue.                                   *)
CreateBpfMaps(fail) == IF fail \in {"max_queues", "create_map"} THEN 0 ELSE MaxQueues(dev.channels)
LoadXdpProg(entries, fail) ==
  IF fail \in {"load", "set_link"} THEN dev ELSE [dev EXCEPT !.prog = "xsk", !.entries = entries, !.xsks_map = {}]
(* xsk_lookup_bpf_maps: whether the program on the device has an xsks_map;   *)
(* a map that is gone is passed over.                                        *)
LookupBpfMaps(fail) == dev.prog = "xsk" /\ fail \notin {"info", "map_gone"}
(* xsk_set_bpf_maps: not beyond the last entry.                              *)
SetBpfMaps(d, s, fail) == s <= d.entries /\ fail # "set_maps"
(* xsk_delete_bpf_maps: the entry of the queue.                              *)
DeleteBpfMaps(d, s) == [d EXCEPT !.xsks_map = @ \ {s}]

(* xsk_setup_xdp_prog: err, and the device afterwards.  Every failure closes *)
(* the program and the map; after set_maps the program stays attached.       *)
SetupXdpProg(s, rx, fail) ==
  LET fresh == dev.prog = "none"
      attached == IF fresh THEN LoadXdpProg(CreateBpfMaps(fail), fail) ELSE dev
      ready == IF fresh THEN CreateBpfMaps(fail) > 0 /\ attached.prog = "xsk"
               ELSE fail # "get_fd" /\ LookupBpfMaps(fail)
  IN  IF fail = "get_link" \/ ~ready THEN [err |-> TRUE, dev |-> dev]
      ELSE IF ~rx THEN [err |-> FALSE, dev |-> attached]
      ELSE IF SetBpfMaps(attached, s, fail) THEN [err |-> FALSE, dev |-> [attached EXCEPT !.xsks_map = @ \cup {s}]]
      ELSE [err |-> TRUE, dev |-> DeleteBpfMaps(attached, s)]

(* The instructions of xsk_load_xdp_prog, for a packet on queue q: a kernel  *)
(* that knows no default action answers 0 to the first redirect.             *)
XdpSockProg(old, q) ==
  LET redirect(default) == IF old /\ default # 0 THEN 0 ELSE IF q \in dev.xsks_map THEN 4 ELSE default
      ret == redirect(2)
  IN  IF ret > 0 THEN ret ELSE IF q \in dev.xsks_map THEN redirect(0) ELSE 2

(* The kernel's answer to XDP_MMAP_OFFSETS: three or four words for each of  *)
(* rx, tx, fr, cr, in the place of sixteen.                                  *)
RingNames == <<"rx", "tx", "fr", "cr">>
Answer(words) == [n \in 1 .. 16 |-> IF n > 4 * words THEN <<"old", n>>
                                   ELSE <<RingNames[((n - 1) \div words) + 1], ((n - 1) % words) + 1>>]
(* xsk_mmap_offsets_v1: the words are moved to their new places, the flags   *)
(* come after the consumer.                                                  *)
MmapOffsetsV1(off) ==
  [n \in 1 .. 16 |-> LET ring == (n - 1) \div 4  field == ((n - 1) % 4) + 1
                    IN  IF field < 4 THEN off[3 * ring + field] ELSE <<off[3 * ring + 2][1], 4>>]
(* xsk_get_mmap_offsets.                                                     *)
GetMmapOffsets(words) == IF words = 3 THEN MmapOffsetsV1(Answer(3)) ELSE Answer(words)
OffsetsAlike == GetMmapOffsets(3) = GetMmapOffsets(4)

(* Mutant: a failed call always closes its socket.                           *)
AlwaysClose(refcount) == TRUE
(* At out_socket: the first socket is the memory's own, which stays open.    *)
CloseAtOut(refcount) == refcount > 0

(* Where xsk_socket__create goes when it fails after it has its socket, and  *)
(* what is mapped by then and unmapped on the way from there.                *)
FailureLabel(c, fail, setup) ==
  IF fail \in {"nametoindex", "ring", "offsets"} \/ (fail = "mmap_rx" /\ c.rx) THEN "out_socket"
  ELSE IF fail = "mmap_tx" /\ c.tx THEN "out_mmap_rx"
  ELSE IF fail = "bind" \/ (~c.inhibit /\ setup.err) THEN "out_mmap_tx"
  ELSE "none"
MappedBefore(s, c, fail) ==
  CASE fail \in {"nametoindex", "ring", "offsets"} \/ (fail = "mmap_rx" /\ c.rx) -> {}
    [] fail = "mmap_tx" /\ c.tx -> Rings(s, [c EXCEPT !.tx = FALSE])
    [] OTHER -> Rings(s, c)
UnmappedFrom(s, c, label) ==
  CASE label = "out_mmap_tx" -> Rings(s, c) [] label = "out_mmap_rx" -> Rings(s, [c EXCEPT !.tx = FALSE]) [] OTHER -> {}

(* xsk_socket__create; inhibit is XSK_LIBBPF_FLAGS__INHIBIT_PROG_LOAD.  When *)
(* socket() fails the reference that was just taken stays; later failures    *)
(* give it back.                                                             *)
SocketCreate(s, c, fail) ==
  LET shared == umem.refcount > 0
      fd == IF shared THEN Fd("sock", s) ELSE UmemFd
      setup == SetupXdpProg(s, c.rx, fail)
      prog == IF c.inhibit THEN {} ELSE {Fd("prog", s), Fd("map", s)}
      label == FailureLabel(c, fail, setup)
  IN  /\ umem.live /\ s \notin DOMAIN socks /\ (c.rx \/ c.tx)
      /\ fail = "socket" => shared /\ lost.refs < MaxLost
      /\ IF fail = "config" \/ (shared /\ ~c.inhibit) THEN UNCHANGED xvars
         ELSE IF fail = "socket" THEN
           /\ umem' = [umem EXCEPT !.refcount = @ + 1] /\ lost' = [lost EXCEPT !.refs = @ + 1]
           /\ UNCHANGED <<socks, xfds, xmaps, dev>>
         ELSE IF label # "none" THEN
           /\ xmaps' = xmaps \cup (MappedBefore(s, c, fail) \ UnmappedFrom(s, c, label))
           /\ xfds' = IF CloseAtOut(umem.refcount) THEN xfds \ {fd} ELSE xfds
           /\ dev' = IF label = "out_mmap_tx" /\ fail # "bind" THEN setup.dev ELSE dev
           /\ UNCHANGED <<umem, socks, lost>>
         ELSE
           /\ umem' = [umem EXCEPT !.refcount = @ + 1]
           /\ socks' = [t \in DOMAIN socks \cup {s} |->
                          IF t = s THEN [rx |-> c.rx, tx |-> c.tx, fd |-> fd, prog |-> prog] ELSE socks[t]]
           /\ xfds' = xfds \cup {fd} \cup prog /\ xmaps' = xmaps \cup Rings(s, c)
           /\ lost' = [lost EXCEPT !.maps = @ \ Rings(s, c)]
           /\ dev' = IF c.inhibit THEN dev ELSE setup.dev
SocketFails == {"none", "config", "socket", "nametoindex", "ring", "offsets", "mmap_rx", "mmap_tx", "bind",
                "get_link", "get_fd", "max_queues", "create_map", "load", "set_link", "info", "map_gone", "set_maps"}

(* xsk_socket__delete.                                                       *)
SocketDelete(s, fail) ==
  LET x == socks[s]
      own == IF x.fd # UmemFd THEN {x.fd} ELSE {}
  IN  /\ s \in DOMAIN socks
      /\ dev' = IF x.prog = {} THEN dev ELSE DeleteBpfMaps(dev, s)
      /\ xfds' = xfds \ (x.prog \cup own)
      /\ IF fail = "offsets" THEN lost' = [lost EXCEPT !.maps = @ \cup Rings(s, x)] /\ UNCHANGED xmaps
         ELSE xmaps' = xmaps \ Rings(s, x) /\ UNCHANGED lost
      /\ umem' = [umem EXCEPT !.refcount = @ - 1]
      /\ socks' = Restrict(socks, DOMAIN socks \ {s})

XskNext ==
  \/ \E fail \in UmemFails : UmemCreate(fail)
  \/ \E fail \in {"none", "offsets"} : UmemDelete(fail)
  \/ \E s \in XskSockets, c \in [rx : BOOLEAN, tx : BOOLEAN, inhibit : BOOLEAN], fail \in SocketFails :
       SocketCreate(s, c, fail)
  \/ \E s \in XskSockets, fail \in {"none", "offsets"} : SocketDelete(s, fail)
XskSpec == XskInit /\ [][XskNext]_xvars

(* Whatever failed before: what is open and mapped is what the live objects  *)
(* use, and the mappings lost by known failures; the memory has a reference  *)
(* for each socket, so that it is never deleted below one; a packet goes to  *)
(* a socket when the socket receives on its queue and has a program, and to  *)
(* the stack otherwise, on old and on new kernels, whose two answers for the *)
(* ring offsets are read alike.                                              *)
XskExact ==
  /\ xfds = (IF umem.live THEN {UmemFd} ELSE {}) \cup UNION {socks[s].prog \cup {socks[s].fd} : s \in DOMAIN socks}
  /\ xmaps = (IF umem.live THEN UmemRings ELSE {}) \cup (UNION {Rings(s, socks[s]) : s \in DOMAIN socks}) \cup lost.maps
  /\ umem.refcount = (IF umem.live THEN Cardinality(DOMAIN socks) + lost.refs ELSE 0)
  /\ DOMAIN socks # {} => umem.live
  /\ \A q \in XskSockets, old \in BOOLEAN :
       dev.prog = "xsk" =>
         XdpSockProg(old, q) = IF q \in DOMAIN socks /\ socks[q].rx /\ socks[q].prog # {} THEN 4 ELSE 2
  /\ OffsetsAlike
=============================================================================
