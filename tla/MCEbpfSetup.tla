---------------------------- MODULE MCEbpfSetup ----------------------------
(* Object files, command lines and paths for MeasureMain.                   *)
EXTENDS MeasureMain

MCMapShapes ==
  {<<[type |-> "UNSPEC", btf |-> FALSE, pin_path |-> NoPath],
     [type |-> "UNSPEC", btf |-> TRUE, pin_path |-> MapPath("a", 2)]>>,
   <<[type |-> "UNSPEC", btf |-> FALSE, pin_path |-> MapPath("a", 1)],
     [type |-> "DATA", btf |-> FALSE, pin_path |-> NoPath]>>}

MCInstances == <<1, 2>>

MCCmdLines ==
  {<<"dev", "measure.o">>, <<"dev", "measure.o", "S">>, <<"N", "S", "dev", "measure.o">>,
   <<"dev", "S", "N", "measure.o">>, <<"S", "A", "F", "dev", "measure.o">>,
   <<"dev", "U">>, <<"dev", "U", "S">>, <<"dev", "r", "L", "R", "q", "p", "Q", "z", "c">>,
   <<"dev", "M", "measure.o">>, <<"dev", "other.o">>, <<"dev", "measure.o", "progsec">>,
   <<"nodev">>, <<"dev", "nor">>, <<"F">>, <<"dev", "h">>, <<"dev", "long">>}
=============================================================================
