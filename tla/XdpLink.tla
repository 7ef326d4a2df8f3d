------------------------------ MODULE XdpLink ------------------------------
(***************************************************************************)
(* The XDP hook of a network device.  The hook itself is the kernel's and   *)
(* external; the requests to it are those of bpf_set_link_xdp_fd            *)
(* (libbpf/src/netlink.c), xdp_link_attach and xdp_link_detach              *)
(* (common/common_user_bpf_xdp.c).  A program is a number, 0 is none.       *)
(***************************************************************************)
EXTENDS Netlink

EmptyLink == [m \in Modes |-> 0]

(* External: the mode a request is about.  Without a mode flag the driver's *)
(* own hook is used if there is one.                                        *)
KernelMode(flags, native) ==
  IF "HW" \in flags THEN "HW"
  ELSE IF "SKB" \in flags \/ ~native THEN "SKB" ELSE "DRV"

(* External: do_setlink and dev_change_xdp_fd, for a device whose driver    *)
(* has an XDP hook of its own or not (native).  prog 0 removes a program.   *)
KernelSet(link, native, prog, flags) ==
  LET mode == KernelMode(flags, native)
      opposite == IF mode = "SKB" THEN "DRV" ELSE "SKB"
      Err(e) == [link |-> link, err |-> e]
  IN  IF Cardinality(flags \cap Modes) > 1 THEN Err("EINVAL")
      ELSE IF ~native /\ flags \cap {"DRV", "HW"} # {} THEN Err("EOPNOTSUPP")
      ELSE IF prog # 0 /\ mode # "HW" /\ link[opposite] # 0 THEN Err("EEXIST")
      ELSE IF prog # 0 /\ "UPDATE_IF_NOEXIST" \in flags /\ link[mode] # 0 THEN Err("EBUSY")
      ELSE [link |-> [link EXCEPT ![mode] = prog], err |-> ""]

(* bpf_set_link_xdp_fd: the socket or the request may fail before the       *)
(* kernel acts, and reading the acknowledgement after it has.               *)
SetLinkXdpFd(link, native, prog, flags) ==
  LET k == KernelSet(link, native, prog, flags)
  IN  {[link |-> k.link, err |-> k.err, faults |-> 0],
       [link |-> link, err |-> "socket", faults |-> 1],
       [link |-> k.link, err |-> "recv", faults |-> 1]}

(* Mutant: the second try uses the flags the removal used.                  *)
RetryFlagsChanged(flags) == (flags \ Modes) \cup {IF "SKB" \in flags THEN "DRV" ELSE "SKB"}
(* xdp_link_attach: the flags to remove a program of the opposite mode, and *)
(* those of the second try.                                                 *)
OppositeFlags(flags) == (flags \ Modes) \cup {IF "SKB" \in flags THEN "DRV" ELSE "SKB"}
RetryFlags(flags) == flags

(* bpf_get_link_xdp_id: the dump has a datagram for each other device, then *)
(* the one asked for, then the end of the dump.                             *)
GetLinkXdpId(link, flags) ==
  LET dump == <<<<LinkMsg(2, [EmptyLink EXCEPT !.SKB = 7])>>, <<LinkMsg(1, link)>>, <<DoneMsg>>>>
      Id(r) == [err |-> r.err, id |-> GetXdpId(r.info, flags)]
  IN  Id(GetLinkXdpInfo(dump, 1, flags))
=============================================================================
