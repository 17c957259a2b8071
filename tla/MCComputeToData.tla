-------------------------- MODULE MCComputeToData --------------------------
(***************************************************************************)
(* Instances of ComputeToData: the commands of task_config.json, without   *)
(* the chown; the last one may fail as configured, or also the first, and  *)
(* -3 excuses the second one in the verdict only.                          *)
(***************************************************************************)
EXTENDS ComputeToData

ConfigCommands   == <<"prepare", "clear", "write", "exit">>
ConfigAllowances == { {-1}, {0, -1}, {}, {-3} }
=============================================================================
