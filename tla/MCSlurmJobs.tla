---------------------------- MODULE MCSlurmJobs ----------------------------
(***************************************************************************)
(* Two jobs, of different sizes or, after the rule was started twice, of   *)
(* the same size.                                                          *)
(***************************************************************************)
EXTENDS SlurmJobs

TwoJobs == {"j", "k"}
TwoSizes == {"s", "l"}
TwoLaunches == {[j |-> "s", k |-> "l"], [j |-> "s", k |-> "s"]}
=============================================================================
