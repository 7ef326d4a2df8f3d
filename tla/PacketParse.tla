---------------------------- MODULE PacketParse ----------------------------
(***************************************************************************)
(* How the XDP program takes a packet apart (common/parsing_helpers.h and    *)
(* xdp_sock_prog), and the helpers that rewrite one (rewrite_helpers.h).     *)
(*                                                                         *)
(* A packet is its sequence of 16 bit words in host order, from data to      *)
(* data_end; a position counts words.  All headers have an even size.  The   *)
(* payload is shortened: four words of fields, of which the second is uid,   *)
(* and two words of data.                                                    *)
(***************************************************************************)
EXTENDS Integers, Sequences

ETH_P_IP == 2048
ETH_P_8021Q == 33024
ETH_P_8021AD == 34984
IPPROTO_UDP == 17
DEST_PORT == 8080
VLAN_MAX_DEPTH == 2
VLAN_VID_MASK == 4095
EthSize == 7
VlanSize == 2
IpSize == 10
UdpSize == 4
TcpSize == 10
FieldWords == 4
PayloadWords == 6
(* What a read behind data_end gives: no word has this value.                *)
Beyond == 65536
Word(d, pos) == IF pos < Len(d) THEN d[pos + 1] ELSE Beyond
Error(pos) == [pos |-> pos, ret |-> -1, ids |-> <<>>]

proto_is_vlan(p) == p \in {ETH_P_8021Q, ETH_P_8021AD}

(* The tags behind the Ethernet header, at most VLAN_MAX_DEPTH; a tag that   *)
(* is cut off stays where it is.                                             *)
SkipTag(d, at) ==
  IF ~proto_is_vlan(at.ret) \/ at.pos + VlanSize > Len(d) THEN at
  ELSE [pos |-> at.pos + VlanSize, ret |-> Word(d, at.pos + 1), ids |-> Append(at.ids, Word(d, at.pos) % (VLAN_VID_MASK + 1))]
ParseEthhdrVlan(d, pos) ==
  IF pos + EthSize > Len(d) THEN Error(pos)
  ELSE LET tags[i \in 0 .. VLAN_MAX_DEPTH] ==
             IF i = 0 THEN [pos |-> pos + EthSize, ret |-> Word(d, pos + EthSize - 1), ids |-> <<>>]
             ELSE SkipTag(d, tags[i - 1])
       IN  tags[VLAN_MAX_DEPTH]

(* Mutant: the length in the header is believed.                             *)
AnyIhl(d, pos) ==
  LET hdrsize == 2 * ((Word(d, pos) \div 256) % 16)
  IN  IF pos + IpSize > Len(d) \/ pos + hdrsize > Len(d) THEN Error(pos)
      ELSE [pos |-> pos + hdrsize, ret |-> Word(d, pos + 4) % 256, ids |-> <<>>]
ParseIphdr(d, pos) ==
  LET hdrsize == 2 * ((Word(d, pos) \div 256) % 16)
  IN  IF pos + IpSize > Len(d) \/ hdrsize < IpSize \/ pos + hdrsize > Len(d) THEN Error(pos)
      ELSE [pos |-> pos + hdrsize, ret |-> Word(d, pos + 4) % 256, ids |-> <<>>]

(* A header of fixed size: parse_ip6hdr, parse_icmp6hdr, parse_icmphdr and   *)
(* parse_icmphdr_common, with their size and what they return of the header. *)
ParseFixed(d, pos, size, ret) ==
  IF pos + size > Len(d) THEN Error(pos) ELSE [pos |-> pos + size, ret |-> ret, ids |-> <<>>]
ParseIp6hdr(d, pos) == ParseFixed(d, pos, 20, Word(d, pos + 3) \div 256)
ParseIcmphdr(d, pos, common) == ParseFixed(d, pos, IF common THEN 2 ELSE 4, Word(d, pos) \div 256)

(* The length of the UDP payload as the header has it.                       *)
ParseUdphdr(d, pos) ==
  LET len == Word(d, pos + 2) - 2 * UdpSize
  IN  IF pos + UdpSize > Len(d) THEN Error(pos)
      ELSE [pos |-> pos + UdpSize, ret |-> IF len < 0 THEN -1 ELSE len, ids |-> <<>>]
ParseTcphdr(d, pos) ==
  LET len == 2 * ((Word(d, pos + 6) \div 4096) % 16)
  IN  IF pos + TcpSize > Len(d) \/ len < TcpSize \/ pos + len > Len(d) THEN Error(pos)
      ELSE [pos |-> pos + len, ret |-> 2 * len, ids |-> <<>>]

(* xdp_sock_prog: the words stored as the payload, none for a packet that is *)
(* only passed on.  The payload is read at a fixed distance from data,       *)
(* wherever the UDP header was found.                                        *)
FixedOffset == EthSize + IpSize + UdpSize
XdpSockProg(d) ==
  LET eth == ParseEthhdrVlan(d, 0)
      ip == ParseIphdr(d, eth.pos)
      udp == ParseUdphdr(d, ip.pos)
      measured == /\ eth.ret = ETH_P_IP /\ ip.ret = IPPROTO_UDP /\ udp.ret = 2 * PayloadWords
                  /\ Word(d, ip.pos + 1) = DEST_PORT
                  /\ Len(d) >= FixedOffset + FieldWords /\ Len(d) >= FixedOffset + PayloadWords
  IN  IF measured THEN [i \in 1 .. PayloadWords |-> Word(d, FixedOffset + i - 1)] ELSE <<>>

(* vlan_tag_push and vlan_tag_pop: the packet afterwards and what they       *)
(* return; pop returns all of the tag's first word.  room says whether       *)
(* bpf_xdp_adjust_head finds any.                                            *)
VlanTagPush(d, vlid, room) ==
  IF ~room THEN [d |-> d, ret |-> -1]
  ELSE [d |-> SubSeq(d, 1, EthSize - 1) \o <<ETH_P_8021Q, vlid, d[EthSize]>> \o SubSeq(d, EthSize + 1, Len(d)), ret |-> 0]
VlanTagPop(d, room) ==
  IF ~proto_is_vlan(d[EthSize]) \/ EthSize + VlanSize > Len(d) \/ ~room THEN [d |-> d, ret |-> -1]
  ELSE [d |-> SubSeq(d, 1, EthSize - 1) \o <<d[EthSize + VlanSize]>> \o SubSeq(d, EthSize + VlanSize + 1, Len(d)),
        ret |-> d[EthSize + 1]]

(* swap_src_dst_mac, swap_src_dst_ipv4: two fields of size words from at.    *)
SwapFields(d, at, size) ==
  SubSeq(d, 1, at) \o SubSeq(d, at + size + 1, at + 2 * size) \o SubSeq(d, at + 1, at + size)
    \o SubSeq(d, at + 2 * size + 1, Len(d))
SwapMac(d) == SwapFields(d, 0, 3)
SwapIpv4(d, pos) == SwapFields(d, pos + 6, 2)
=============================================================================
