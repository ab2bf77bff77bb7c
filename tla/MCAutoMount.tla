------------------------------ MODULE MCAutoMount ------------------------------
(***************************************************************************)
(* Instances of AutoMount for TLC: no fault, the faults the code handles,  *)
(* files that cannot be removed, and torn writes and crashes.              *)
(***************************************************************************)
EXTENDS AutoMount

FaultCases ==
    {{}, {"uac", "save"}, {"uac", "remove"}, {"uac", "save", "write", "crash"}}

=============================================================================
