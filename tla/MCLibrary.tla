----------------------------- MODULE MCLibrary -----------------------------
(***************************************************************************)
(* The parts of libbpf and of the common headers that stand alone, checked   *)
(* in one run.  A behaviour has one job.  A job on a pure part takes one     *)
(* input and does it; a job on a part with state runs that part's machine    *)
(* from its initial states.  Everything else stays idle.                     *)
(***************************************************************************)
EXTENDS MCBtf, MCHashMap, XskRing, XskSocket, PerfBuffer

Elf == INSTANCE MCElf
Dedup == INSTANCE MCDedup
Dump == INSTANCE MCDump
Core == INSTANCE MCCore
Packet == INSTANCE MCPacket
Prog == INSTANCE MCProgLoad

VARIABLES job, input, done
libvars == <<job, input, done>>

Machines == {"hashmap", "rings", "sockets", "perf", "links"}
Inputs ==
  [elf |-> Elf!ElfCases, btf |-> BtfCases, line |-> LineCases, dedup |-> Dedup!DedupCases,
   dump |-> Dump!DumpCases, core |-> Core!CoreCases, packet |-> Packet!PacketCases,
   prog |-> Prog!ProgCases]

Init ==
  \/ /\ job \in DOMAIN Inputs /\ input \in Inputs[job] /\ done = FALSE
     /\ HmIdle /\ RingIdle /\ XskIdle /\ PerfIdle
  \/ /\ job \in Machines /\ input = <<>> /\ done = FALSE
     /\ IF job = "hashmap" THEN HmInit ELSE HmIdle
     /\ IF job = "rings" THEN RingInit ELSE RingIdle
     /\ IF job = "sockets" THEN XskInit ELSE XskIdle
     /\ IF job \in {"perf", "links"} THEN PerfInit ELSE PerfIdle

(* A pure part does its job on the input.                                    *)
Do ==
  /\ job \in DOMAIN Inputs /\ ~done /\ done' = TRUE
  /\ UNCHANGED <<job, input, hmvars, rvars, xvars, pvars>>
Next ==
  \/ Do
  \/ job = "hashmap" /\ HmNext /\ UNCHANGED <<libvars, rvars, xvars, pvars>>
  \/ job = "rings" /\ RingNext /\ UNCHANGED <<libvars, hmvars, xvars, pvars>>
  \/ job = "sockets" /\ XskNext /\ UNCHANGED <<libvars, hmvars, rvars, pvars>>
  \/ job = "perf" /\ BufferNext /\ UNCHANGED <<libvars, hmvars, rvars, xvars>>
  \/ job = "links" /\ LinkNext /\ UNCHANGED <<libvars, hmvars, rvars, xvars>>
Spec == Init /\ [][Next]_<<libvars, hmvars, rvars, xvars, pvars>>

(* However the sections of an object file are ordered, whatever its symbol   *)
(* table lists first and whatever the kernel lacks: in an object that loads  *)
(* an instruction that refers to a map has the descriptor of the map its     *)
(* symbol names, and a call lands on its function.  The copy of .text that a *)
(* program carries is right too if .text comes before the program; otherwise *)
(* it is copied before it was relocated (libbpf.c:3538) and nothing is       *)
(* claimed of it (bpf_object__elf_collect, _create_maps,                     *)
(* bpf_program__relocate).                                                   *)
MapRelocations == [][done' /\ job = "elf" => Elf!RelocatedRight(input)]_libvars

(* Whatever the kernel knows of the func and line records and however long   *)
(* its log: load_program loads the programs it would take and names the true *)
(* reason for the others, unless memory is short or the caller wants a log;  *)
(* a probe answers for what the kernel has; and the arrays of                *)
(* bpf_program__get_prog_info_linear are in the data, apart, and found again *)
(* after the data was moved.                                                 *)
LoadedIfAcceptable == [][done' /\ job = "prog" => Prog!ProgRight(input)]_libvars

(* A size that btf__resolve_size returns is the size of the type, for type   *)
(* graphs with cycles and sizes beyond 32 bits too; the fix-up of a data     *)
(* section keeps every variable at the offset of its symbol; a program's     *)
(* line and function records are complete after .text was appended; and the  *)
(* line found for an address is the last of its function that does not begin *)
(* behind it.  btf__get_from_id returns the kernel's bytes or one of its     *)
(* failures; a read that fails without setting errno returns whatever errno  *)
(* held, success included (btf.c:678), and a data section with a variable of *)
(* an unknown type is a crash (btf.c, bpf_prog_linfo.c).                     *)
DebugInfo ==
  [][/\ done' /\ job = "btf" => TypeInfoRight(input)
     /\ done' /\ job = "line" => LineRight(input)]_libvars

(* btf__dedup loses nothing and merges what is the same, whatever the order  *)
(* of the types and whichever hashes collide: every type has a descriptor    *)
(* that says of it what the input said, no two describe the same type, and   *)
(* every string reference of a type or of the line information still names   *)
(* its string; those of func_info and field_reloc need not.                  *)
DedupLossless == [][done' /\ job = "dedup" => Dedup!DedupRight(input)]_libvars

(* What btf_dump prints means what the type information says: a compiler     *)
(* accepts the declarations in their order, also of types that refer to      *)
(* each other in a circle, a declarator reads back as its chain of types,    *)
(* and a printed struct has its members where they were.                     *)
DumpFaithful == [][done' /\ job = "dump" => Dump!DumpRight(input)]_libvars

(* CO-RE relocations of one local type, in any order of the records, that    *)
(* succeed have found their fields in one and the same type of the kernel    *)
(* (bpf_core_reloc_field narrows the candidates from one to the next).  A    *)
(* kernel whose types S are alike and have the fields is not refused, unless *)
(* it also declares S forward, when it always is, or has more candidates     *)
(* than the array bpf_core_find_cands grows (libbpf.c:2691) has room for.  A *)
(* relocated bitfield is all of, and nothing but, what its shifts leave.     *)
CoreConsistent == [][done' /\ job = "core" => Core!CoreRight(input)]_libvars

(* A header parser that accepts leaves the cursor behind the header and      *)
(* inside the packet; the XDP program never stores a word beyond the packet, *)
(* stores the payload of exactly the measured datagrams, and of one with     *)
(* tags or IP options other words than the payload.  A pushed tag is parsed  *)
(* first and popped again; vlan_tag_pop returns the tag with its priority,   *)
(* of which only the lower 12 bits are the ID its comment promises           *)
(* (parsing_helpers.h, rewrite_helpers.h, ebpf_measure_kern.c).              *)
PacketsParsed == [][done' /\ job = "packet" => Packet!PacketRight(input)]_libvars
=============================================================================
