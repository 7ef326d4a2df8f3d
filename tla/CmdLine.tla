------------------------------ MODULE CmdLine ------------------------------
(***************************************************************************)
(* The command line of the measuring program (common/common_params.c and    *)
(* the option table of eBPF_measure/ebpf_measure_user.c).  An argument is   *)
(* named by its option; "dev" is --dev with the name of a device, "nodev"   *)
(* with a name nobody has or that is too long, "r" and "nor" are -r with    *)
(* the same, "long" an option that the table does not list exactly, so that *)
(* getopt_long looks at all of it.  --offload-mode is not in the table.     *)
(***************************************************************************)
EXTENDS Integers, Sequences

XDP_FLAGS_MODES == {"SKB", "DRV", "HW"}

(* struct config as main initialises it; the other fields are zero.         *)
DefaultConfig ==
  [xdp_flags |-> {}, ifindex |-> -1, do_unload |-> FALSE, reuse_maps |-> FALSE, filename |-> "",
   progsec |-> "xdp_sock", xsk_bind_flags |-> {}, queue |-> 0, poll |-> FALSE, verbose |-> TRUE,
   redirect_ifindex |-> 0, src_mac |-> "", dest_mac |-> "", exit |-> "none"]

(* One turn of the loop in parse_cmdline_args.  -c, -S and -z and the bind  *)
(* flag they clear: "&= XDP_ZEROCOPY" keeps exactly the flag it was meant   *)
(* to clear.  -F clears a flag that nothing sets.  The copy of the option   *)
(* table has no terminating entry: a name that is not in it exactly sends   *)
(* getopt_long past the end of the allocation.                              *)
ParseOption(cfg, opt) ==
  IF cfg.exit # "none" THEN cfg
  ELSE CASE opt = "dev" -> [cfg EXCEPT !.ifindex = 1]
    [] opt = "nodev" -> [cfg EXCEPT !.ifindex = 0, !.exit = "usage"]
    [] opt = "r" -> [cfg EXCEPT !.redirect_ifindex = 1]
    [] opt = "nor" -> [cfg EXCEPT !.redirect_ifindex = 0, !.exit = "usage"]
    [] opt = "A" -> [cfg EXCEPT !.xdp_flags = @ \ XDP_FLAGS_MODES]
    [] opt = "S" -> [cfg EXCEPT !.xdp_flags = (@ \ XDP_FLAGS_MODES) \cup {"SKB"},
                                !.xsk_bind_flags = (@ \cap {"ZEROCOPY"}) \cup {"COPY"}]
    [] opt = "N" -> [cfg EXCEPT !.xdp_flags = (@ \ XDP_FLAGS_MODES) \cup {"DRV"}]
    [] opt = "F" -> [cfg EXCEPT !.xdp_flags = @ \ {"UPDATE_IF_NOEXIST"}]
    [] opt = "M" -> [cfg EXCEPT !.reuse_maps = TRUE]
    [] opt = "U" -> [cfg EXCEPT !.do_unload = TRUE]
    [] opt = "p" -> [cfg EXCEPT !.poll = TRUE]
    [] opt = "q" -> [cfg EXCEPT !.verbose = FALSE]
    [] opt = "Q" -> [cfg EXCEPT !.queue = 1]
    [] opt \in {"measure.o", "other.o"} -> [cfg EXCEPT !.filename = opt]
    [] opt = "progsec" -> [cfg EXCEPT !.progsec = "elsewhere"]
    [] opt = "L" -> [cfg EXCEPT !.src_mac = "mac"]
    [] opt = "R" -> [cfg EXCEPT !.dest_mac = "mac"]
    [] opt = "c" -> [cfg EXCEPT !.xsk_bind_flags = (@ \cap {"ZEROCOPY"}) \cup {"COPY"}]
    [] opt = "z" -> [cfg EXCEPT !.xsk_bind_flags = (@ \cap {"COPY"}) \cup {"ZEROCOPY"}]
    [] opt = "long" -> [cfg EXCEPT !.exit = "overrun"]
    [] OTHER -> [cfg EXCEPT !.exit = "usage"]

(* parse_cmdline_args, with option_wrappers_to_options: after[i] is cfg      *)
(* after i turns of the loop.                                                *)
ParseCmdline(argv) ==
  LET after[i \in 0 .. Len(argv)] == IF i = 0 THEN DefaultConfig ELSE ParseOption(after[i - 1], argv[i])
  IN  after[Len(argv)]
=============================================================================
