------------------------------ MODULE Netlink ------------------------------
(***************************************************************************)
(* What libbpf asks the kernel about the XDP programs of a device, and how  *)
(* it reads the answer (libbpf/src/netlink.c, nlattr.c, nlattr.h).          *)
(*                                                                         *)
(* An attribute is [type, len, val]; len counts the header.  A datagram is  *)
(* a sequence of messages [pid, seq, multi, type, error, ifindex, attrs,    *)
(* len].  Flags are sets of names.  An error is "" or what is returned.     *)
(***************************************************************************)
EXTENDS Integers, Sequences, FiniteSets

NLA_HDRLEN == 4
Modes == {"SKB", "DRV", "HW"}

Align(n) == ((n + 3) \div 4) * 4

(* nla_ok.  remaining is an int compared with an unsigned sizeof: once the  *)
(* padding of the last attribute has made it negative the first test always *)
(* holds, and only the last one, between two ints, ends the loop.           *)
NlaOk(a, rem) ==
  (rem < 0 \/ rem >= NLA_HDRLEN) /\ a.len >= NLA_HDRLEN /\ a.len <= rem

(* validate_nla with a policy [type, minlen, maxlen] for each type.         *)
MinLen == [UNSPEC |-> 0, U8 |-> 1, U16 |-> 2, U32 |-> 4, U64 |-> 8, STRING |-> 1, FLAG |-> 0]
ValidateNla(a, maxtype, policy) ==
  LET pt == policy[a.type]
      min == IF pt.minlen # 0 THEN pt.minlen ELSE MinLen[pt.type]
      len == a.len - NLA_HDRLEN
  IN  \/ a.type > maxtype
      \/ /\ len >= min
         /\ pt.maxlen = 0 \/ len <= pt.maxlen
         /\ pt.type = "STRING" => a.nul

(* libbpf_nla_parse: tb gives each type its last attribute.  policy is <<>> *)
(* when there is none.  beyond: an attribute reaches behind the stream.     *)
(* What memory holds behind the stream is junk.  s: where the loop is.      *)
NlaStep(s, a, len, maxtype, policy) ==
  LET next == [s EXCEPT !.rem = @ - Align(a.len), !.at = @ + Align(a.len)]
  IN  IF s.stop \/ s.err THEN s
      ELSE IF ~NlaOk(a, s.rem) THEN [s EXCEPT !.stop = TRUE]
      ELSE IF a.type > maxtype THEN next
      ELSE IF policy # <<>> /\ ~ValidateNla(a, maxtype, policy) THEN [s EXCEPT !.err = TRUE]
      ELSE [next EXCEPT !.tb[a.type] = <<a>>, !.beyond = @ \/ s.at + a.len > len]
NlaParse(attrs, len, maxtype, policy, junk) ==
  LET start == [rem |-> len, at |-> 0, tb |-> [t \in 0 .. maxtype |-> <<>>],
                stop |-> FALSE, err |-> FALSE, beyond |-> FALSE]
      all == attrs \o junk
      after[i \in 0 .. Len(all)] == IF i = 0 THEN start ELSE NlaStep(after[i - 1], all[i], len, maxtype, policy)
  IN  after[Len(all)]

(* Attribute numbers: IFLA_XDP of a link, and IFLA_XDP_* inside it.         *)
IFLA_MAX == 2
IFLA_XDP == 1
IFLA_XDP_MAX == 5
ATTACHED == 1
PROG_ID == 2
MODE_PROG_ID == [DRV |-> 3, SKB |-> 4, HW |-> 5]

NoInfo == [attach_mode |-> "NONE", prog_id |-> 0, DRV |-> 0, SKB |-> 0, HW |-> 0]

(* get_xdp_info, called by __dump_link_nlmsg with the parsed attributes: an *)
(* attribute that is missing leaves its field alone.                        *)
GetXdpInfo(info, ifindex, m) ==
  LET Nested(nest) == NlaParse(nest.val, nest.len - NLA_HDRLEN, IFLA_XDP_MAX, <<>>, <<>>).tb
      Read(xdp) ==
        LET Val(t, else) == IF xdp[t] = <<>> THEN else ELSE xdp[t][1].val
            mode == Val(ATTACHED, "")
        IN  CASE mode = "" -> info
              [] mode = "NONE" -> [info EXCEPT !.attach_mode = mode]
              [] OTHER -> [attach_mode |-> mode, prog_id |-> Val(PROG_ID, info.prog_id),
                           DRV |-> Val(MODE_PROG_ID["DRV"], info.DRV),
                           SKB |-> Val(MODE_PROG_ID["SKB"], info.SKB),
                           HW |-> Val(MODE_PROG_ID["HW"], info.HW)]
      Dump(tb) ==
        IF (ifindex # 0 /\ ifindex # m.ifindex) \/ tb[IFLA_XDP] = <<>> THEN info
        ELSE Read(Nested(tb[IFLA_XDP][1]))
  IN  [err |-> "", acc |-> Dump(NlaParse(m.attrs, m.len, IFLA_MAX, <<>>, <<>>).tb)]

(* bpf_netlink_recv: datagrams are read as long as one of the last one's    *)
(* messages had NLM_F_MULTI.  The callback on a link is GetXdpInfo.         *)
(* blocks: everything was read and recv waits for more.                     *)
NetlinkMsg(s, m, pid, seq, ifindex) ==
  LET Called(t, r) == IF r.err # "" THEN [t EXCEPT !.done = TRUE, !.err = r.err] ELSE [t EXCEPT !.acc = r.acc]
      multi == [s EXCEPT !.multipart = @ \/ m.multi]
  IN  IF s.done THEN s
      ELSE IF m.pid # pid THEN [s EXCEPT !.done = TRUE, !.err = "WRNGPID"]
      ELSE IF m.seq # seq THEN [s EXCEPT !.done = TRUE, !.err = "INVSEQ"]
      ELSE CASE m.type = "ERROR" -> IF m.error = "" THEN multi ELSE [multi EXCEPT !.done = TRUE, !.err = m.error]
             [] m.type = "DONE" -> [multi EXCEPT !.done = TRUE]
             [] OTHER -> Called(multi, GetXdpInfo(s.acc, ifindex, m))
NetlinkDatagram(s, d, pid, seq, ifindex) ==
  LET start == [s EXCEPT !.multipart = FALSE]
      after[i \in 0 .. Len(d)] == IF i = 0 THEN start ELSE NetlinkMsg(after[i - 1], d[i], pid, seq, ifindex)
  IN  IF s.done \/ ~s.multipart THEN s
      ELSE IF d = <<>> THEN [s EXCEPT !.done = TRUE]
      ELSE after[Len(d)]
NetlinkRecv(datagrams, pid, seq, ifindex) ==
  LET start == [multipart |-> TRUE, done |-> FALSE, err |-> "", acc |-> NoInfo]
      after[i \in 0 .. Len(datagrams)] ==
        IF i = 0 THEN start ELSE NetlinkDatagram(after[i - 1], datagrams[i], pid, seq, ifindex)
      Result(s) == [err |-> s.err, acc |-> s.acc, blocks |-> ~s.done /\ s.multipart]
  IN  Result(after[Len(datagrams)])

(* bpf_get_link_xdp_info and libbpf_nl_get_link: at most one mode may be    *)
(* asked for; the dump answers for every device.                            *)
GetLinkXdpInfo(datagrams, ifindex, flags) ==
  LET Answer(r) == IF r.blocks THEN [err |-> "blocks", info |-> NoInfo] ELSE [err |-> r.err, info |-> r.acc]
  IN  IF Cardinality(flags \cap Modes) > 1 THEN [err |-> "EINVAL", info |-> NoInfo]
      ELSE Answer(NetlinkRecv(datagrams, 1, 1, ifindex))

(* Mutant: only the flags decide.                                           *)
GetXdpIdByFlags(info, flags) ==
  CASE "DRV" \in flags -> info.DRV [] "HW" \in flags -> info.HW
    [] "SKB" \in flags -> info.SKB [] OTHER -> 0
(* get_xdp_id: with programs in several modes the flags decide, and without *)
(* a mode among them the answer is 0.                                       *)
GetXdpId(info, flags) ==
  IF info.attach_mode # "MULTI" THEN info.prog_id
  ELSE IF "DRV" \in flags THEN info.DRV
  ELSE IF "HW" \in flags THEN info.HW
  ELSE IF "SKB" \in flags THEN info.SKB
  ELSE 0
-----------------------------------------------------------------------------
(* External: rtnl_fill_ifinfo of the kernel for a device whose programs are *)
(* link (mode -> id).  IFLA_XDP_PROG_ID is there for a single mode only.    *)
(* Each attribute of the nest takes 8 bytes.                                *)
ModesOn(link) ==
  LET Only(m) == IF link[m] # 0 THEN <<m>> ELSE <<>>
  IN  Only("SKB") \o Only("DRV") \o Only("HW")
XdpNest(link, on) ==
  LET mode == IF Len(on) = 0 THEN "NONE" ELSE IF Len(on) = 1 THEN on[1] ELSE "MULTI"
      U32(t, v) == [type |-> t, len |-> NLA_HDRLEN + 4, val |-> v, nul |-> FALSE]
  IN  [i \in DOMAIN on |-> U32(MODE_PROG_ID[on[i]], link[on[i]])]
        \o <<[type |-> ATTACHED, len |-> NLA_HDRLEN + 1, val |-> mode, nul |-> FALSE]>>
        \o (IF Len(on) = 1 THEN <<U32(PROG_ID, link[on[1]])>> ELSE <<>>)
LinkAttrs(link) ==
  LET nest == XdpNest(link, ModesOn(link))
  IN  <<[type |-> 2, len |-> NLA_HDRLEN + 5, val |-> 0, nul |-> TRUE],
        [type |-> IFLA_XDP, len |-> NLA_HDRLEN + 8 * Len(nest), val |-> nest, nul |-> FALSE]>>

LinkMsg(ifindex, link) ==
  LET attrs == LinkAttrs(link)
  IN  [pid |-> 1, seq |-> 1, multi |-> TRUE, type |-> "LINK", error |-> "", ifindex |-> ifindex,
       attrs |-> attrs, len |-> Align(attrs[1].len) + Align(attrs[2].len)]
DoneMsg == [LinkMsg(0, [m \in Modes |-> 0]) EXCEPT !.type = "DONE"]
=============================================================================
