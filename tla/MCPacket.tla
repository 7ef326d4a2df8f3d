------------------------------ MODULE MCPacket ------------------------------
(* Packets for PacketParse: every combination of headers below, whole, with  *)
(* padding, and cut off at every place.                                      *)
EXTENDS PacketParse, FiniteSets

Layers ==
  [tags : {<<>>, <<ETH_P_8021Q>>, <<ETH_P_8021AD, ETH_P_8021Q>>, <<ETH_P_8021AD, ETH_P_8021AD, ETH_P_8021Q>>},
   type : {ETH_P_IP, 34525}, ihl : {0, 4, 5, 6}, proto : {IPPROTO_UDP, 6}, len : {0, 7, 8 + 2 * PayloadWords},
   dest : {DEST_PORT, 68}]
(* No more than one layer differs from a measured packet, and the number of  *)
(* tags or options.                                                          *)
Typical(p) ==
  Cardinality({f \in {"type", "proto", "len", "dest"} :
                 p[f] # [type |-> ETH_P_IP, proto |-> IPPROTO_UDP, len |-> 8 + 2 * PayloadWords, dest |-> DEST_PORT][f]}) <= 1

(* The words of such a packet; tag n has the id n and a priority.            *)
Bytes(p) ==
  LET types == Append(p.tags, p.type)
      n == Len(p.tags)
      tags == [i \in 1 .. 2 * n |-> IF i % 2 = 1 THEN 8192 + (i + 1) \div 2 ELSE types[(i \div 2) + 1]]
      ip == <<(64 + p.ihl) * 256, 0, 0, 0, 64 * 256 + p.proto, 0, 31, 32, 33, 34>>
            \o [i \in 1 .. (IF p.ihl > 5 THEN 2 * p.ihl - IpSize ELSE 0) |-> 1]
  IN  <<11, 12, 13, 21, 22, 23, types[1]>> \o tags \o ip \o <<40, p.dest, p.len, 0>> \o [i \in 1 .. PayloadWords |-> 50 + i]

PacketCases ==
  UNION {{[p |-> p, cut |-> c] : c \in 0 .. Len(Bytes(p)) + 1} : p \in {q \in Layers : Typical(q)}}
Data(c) == LET b == Bytes(c.p) IN IF c.cut > Len(b) THEN b \o <<0, 0>> ELSE SubSeq(b, 1, c.cut)

(* Where the layers begin, from how the packet was made.                     *)
IpAt(p) == EthSize + 2 * Len(p.tags)
UdpAt(p) == IpAt(p) + 2 * p.ihl

(* A parser that accepts a header puts the cursor behind it and not behind   *)
(* the packet, and returns a field of that header.                           *)
ParsersRight(c) ==
  LET d == Data(c)
      p == c.p
      eth == ParseEthhdrVlan(d, 0)
      Sound(r) == r.pos <= Len(d) /\ r.ret # Beyond
      at == Len(eth.ids)
  IN  /\ IF Len(d) < EthSize THEN eth = Error(0)
         ELSE /\ eth.pos = EthSize + VlanSize * at
              /\ eth.ret = Append(p.tags, p.type)[at + 1] /\ eth.ids = [i \in 1 .. at |-> i]
              /\ at < 2 /\ at < Len(p.tags) => eth.pos + VlanSize > Len(d)
      /\ \A pos \in {EthSize, IpAt(p), UdpAt(p)} :
           /\ pos <= Len(d) =>
                \A r \in {ParseIphdr(d, pos), ParseIp6hdr(d, pos), ParseIcmphdr(d, pos, TRUE), ParseIcmphdr(d, pos, FALSE),
                          ParseUdphdr(d, pos), ParseTcphdr(d, pos)} :
                  Sound(r) /\ (r.ret # -1 => r.pos > pos)
      /\ LET ip == ParseIphdr(d, IpAt(p))
         IN  ip.ret # -1 <=> p.ihl >= 5 /\ UdpAt(p) <= Len(d)

(* Without tags and options the program stores the payload of exactly the    *)
(* datagrams that are measured and whole.  A packet that is not measured     *)
(* makes it store nothing.  Tags and options move the payload, and the       *)
(* program still reads at FixedOffset: of such a measured packet it stores   *)
(* something as soon as the UDP header and 42 bytes and a payload's length   *)
(* are there, cut off or not, and what it stores is never the payload.       *)
StoredRight(c) ==
  LET d == Data(c)
      p == c.p
      stored == XdpSockProg(d)
      payload == [i \in 1 .. PayloadWords |-> 50 + i]
      measured == /\ p.type = ETH_P_IP /\ p.proto = IPPROTO_UDP /\ p.dest = DEST_PORT
                  /\ p.len = 8 + 2 * PayloadWords /\ Len(p.tags) <= 2 /\ p.ihl >= 5
      plain == p.tags = <<>> /\ p.ihl = 5
      whole == Len(d) >= UdpAt(p) + UdpSize + PayloadWords
  IN  /\ ~measured => stored = <<>>
      /\ measured /\ plain => stored = IF whole THEN payload ELSE <<>>
      /\ measured /\ ~plain =>
           /\ stored # <<>> <=> Len(d) >= UdpAt(p) + UdpSize /\ Len(d) >= EthSize + IpSize + UdpSize + PayloadWords
           /\ stored # payload
      /\ \A i \in DOMAIN stored : stored[i] # Beyond

(* A tag that is pushed is the first that is parsed, moves the rest by its   *)
(* size, and pop takes it off and returns its VLAN ID in the low 12 bits.    *)
(* The comment at rewrite_helpers.h:19-20 promises the ID itself; the code   *)
(* returns all of the tag's first word (line 41), which is the ID only of a  *)
(* tag without priority.  The swaps undo themselves and move nothing else.   *)
RewritesRight(c) ==
  LET d == Data(c)
      eth == ParseEthhdrVlan(d, 0)
      Pushed(vlid) == VlanTagPush(d, vlid, TRUE).d
      Popped(vlid) == VlanTagPop(Pushed(vlid), TRUE)
      eth2 == ParseEthhdrVlan(Pushed(8192 + 5), 0)
  IN  Len(d) >= EthSize =>
        /\ \A vlid \in {5, 8192 + 5} : Popped(vlid).d = d /\ Popped(vlid).ret % (VLAN_VID_MASK + 1) = 5
        /\ Popped(5).ret = 5
        /\ Head(eth2.ids) = 5 /\ (Len(eth.ids) < 2 => eth2.pos = eth.pos + VlanSize /\ eth2.ret = eth.ret)
        /\ SwapMac(SwapMac(d)) = d /\ ParseEthhdrVlan(SwapMac(d), 0) = eth
        /\ Len(d) >= IpAt(c.p) + IpSize =>
             LET s == SwapIpv4(d, IpAt(c.p))
             IN  SwapIpv4(s, IpAt(c.p)) = d /\ ParseIphdr(s, IpAt(c.p)) = ParseIphdr(d, IpAt(c.p)) /\ s # d

PacketRight(c) == ParsersRight(c) /\ StoredRight(c) /\ RewritesRight(c)
=============================================================================
