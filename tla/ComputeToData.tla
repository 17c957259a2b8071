--------------------------- MODULE ComputeToData ---------------------------
(***************************************************************************)
(* Compute to data (advanced/hpc_compute_to_data): container_dispatch      *)
(* picks an input that no task has stamped, stamps it, runs the configured *)
(* commands in a container over the vault directories of input and output, *)
(* stops the container and registers the output directory as a collection  *)
(* of the task.  It is launched by hand, any number of times, and launches *)
(* may overlap.                                                            *)
(*                                                                         *)
(* Every task mounts the vault directory of dst_collection itself, as its  *)
(* output_locator is dst_collection/.task_id, so the tasks share one       *)
(* output directory.  It holds one product for each input, and one report, *)
(* the html that nbconvert makes, which all tasks write.  Docker and the   *)
(* iRODS server are not in the repository.                                 *)
(***************************************************************************)
EXTENDS Integers, Sequences

CONSTANTS
  Inputs,      \* data objects of src_collection
  Report,      \* /outputs/lowpass_filter_processing.html
  Tasks,       \* launches of container_dispatch, each with its own task_id
  Commands,    \* config["container"]["commands"]: what each command does
  Allowances,  \* possible allowable_command_indices_for_nonzero_exit_code:
               \* sets of integers, any of them
  Remote,      \* inputs without a replica on resc_for_data
  MaxFaults,   \* number of exceptions, failed kills and crashes (bound)
  Earlier,     \* the task_id of launches before the first one looked at
  NoInput, NoTask

Roles == {"prepare", "clear", "write", "exit"}
L     == Len(Commands)
Index == 0 .. L - 1
Outputs == Inputs \cup {Report}

ASSUME ComputeAssumption ==
  /\ Commands \in Seq(Roles) /\ L > 0
  /\ Allowances \subseteq SUBSET Int
  /\ Remote \subseteq Inputs
  /\ MaxFaults \in Nat
  /\ Report \notin Inputs /\ NoInput \notin Inputs /\ Earlier \notin Tasks /\ NoTask \notin Tasks \cup {Earlier}

VARIABLES
  stamp,      \* stamp[o]: value of the AVU irods::compute_to_data_task
  local,      \* inputs with a replica on resc_for_data
  product,    \* product[o]: the output file of input o, or the report: "none",
              \* "partial" or "whole"
  registered, \* registered[t]: products in the collection of t, each with its state
  pc,         \* pc[t]: next operation of t
  allow,      \* i_allow_nonzero
  eligible,   \* eligible[t]: eligible_inputs
  this_input, \* this_input[t]
  running,    \* tasks whose container runs
  codes,      \* codes[t]: command_returncodes
  raised,     \* tasks with an exception, a failed kill or a crash (history)
  met,        \* pairs of tasks that were between query and stamp at once (history)
  faults      \* exceptions, failed kills and crashes so far

catalog == <<stamp, local, registered>>
docker  == <<product, running, codes>>
blame   == <<raised, faults>>
vars    == <<catalog, docker, pc, allow, eligible, this_input, met, blame>>

Ended == {"done", "registered"}
Goto(t, l) == pc' = [pc EXCEPT ![t] = l]

Init ==
  /\ stamp \in [Inputs -> {NoTask, Earlier}]
  /\ local = Inputs \ Remote
  /\ product \in [Outputs -> {"none", "partial", "whole"}]
  /\ \A o \in Inputs : stamp[o] = NoTask => product[o] = "none"
  /\ registered = [t \in Tasks |-> {}]
  /\ pc = [t \in Tasks |-> "query"]
  /\ allow \in Allowances
  /\ eligible = [t \in Tasks |-> {}]
  /\ this_input = [t \in Tasks |-> NoInput]
  /\ running = {}
  /\ codes = [t \in Tasks |-> <<>>]
  /\ raised = {}
  /\ met = {}
  /\ faults = 0

-----------------------------------------------------------------------------
(* get_first_eligible_input: two queries, then the stamp, in three calls.  *)
(* The queried set has no order, so any eligible input may come first.     *)

UnstampedNever == Inputs

Unstamped == {o \in Inputs : stamp[o] = NoTask}

Query(t) ==
  /\ pc[t] = "query"
  /\ eligible' = [eligible EXCEPT ![t] = Unstamped]
  /\ Goto(t, "stamp")
  /\ met' = met \cup {{t, u} : u \in {v \in Tasks \ {t} : pc[v] = "stamp"}}
  /\ UNCHANGED <<catalog, docker, allow, this_input, blame>>

Stamp(t) ==
  /\ pc[t] = "stamp"
  /\ \E o \in eligible[t] :
       /\ stamp' = [stamp EXCEPT ![o] = t]
       /\ this_input' = [this_input EXCEPT ![t] = o]
  /\ Goto(t, "paths")
  /\ UNCHANGED <<local, registered, docker, allow, eligible, met, blame>>

(* Without an input split_irods_path(None) raises before "no input found". *)
NoInputFound(t) ==
  /\ pc[t] = "stamp" /\ eligible[t] = {}
  /\ Goto(t, "done")
  /\ UNCHANGED <<catalog, docker, allow, eligible, this_input, met, blame>>

-----------------------------------------------------------------------------
(* data_object_physical_path_in_vault of input and output, the collection  *)
(* of the task, and the container.                                         *)

PathsExisting(t) ==
  /\ pc[t] = "paths"
  /\ Goto(t, "run")
  /\ UNCHANGED <<catalog, docker, allow, eligible, this_input, met, blame>>

Paths(t) ==
  /\ pc[t] = "paths"
  /\ local' = local \cup {this_input[t]}
  /\ Goto(t, "run")
  /\ UNCHANGED <<stamp, registered, docker, allow, eligible, this_input, met, blame>>

Run(t) ==
  /\ pc[t] = "run"
  /\ running' = running \cup {t}
  /\ Goto(t, "exec")
  /\ UNCHANGED <<catalog, product, codes, allow, eligible, this_input, met, blame>>

-----------------------------------------------------------------------------
(* exec_commands_in_container.                                             *)

Command(t) == Commands[Len(codes[t]) + 1]

(* A command starts: it removes the product of the input, or writes it and *)
(* the report from their start.  The first form does not wait for its end. *)
Outs(t) == IF this_input[t] = NoInput THEN {} ELSE {this_input[t], Report}
Started(t, o) ==
  CASE Command(t) = "clear" /\ o = this_input[t] -> "none"
    [] Command(t) = "write" /\ o \in Outs(t)     -> "partial"
    [] OTHER                                     -> product[o]

ExecDetached(t) ==
  /\ pc[t] = "exec"
  /\ product' = [o \in Outputs |-> Started(t, o)]
  /\ codes' = [codes EXCEPT ![t] = Append(@, 0)]
  /\ Goto(t, IF Len(codes'[t]) = L THEN "stop" ELSE "exec")
  /\ UNCHANGED <<catalog, running, allow, eligible, this_input, met, blame>>

Exec(t) ==
  /\ pc[t] = "exec"
  /\ product' = [o \in Outputs |-> Started(t, o)]
  /\ Goto(t, "wait")
  /\ UNCHANGED <<catalog, running, codes, allow, eligible, this_input, met, blame>>

(* Which exit codes end the loop: nonnegative indices only are excused.    *)
Breaks(t, code) == code # 0 /\ Len(codes[t]) \notin {i \in allow : i >= 0}

(* A command ends.  What it wrote is complete then, unless another task is *)
(* still writing the same file.  The end of the last one lets the main     *)
(* process of the container end, which may take the command with it.       *)
Writing(t)   == pc[t] = "wait" /\ Command(t) = "write"
Completed(t) ==
  {o \in Outs(t) : Writing(t) /\ product[o] # "none"
                     /\ \A u \in Tasks \ {t} : ~(Writing(u) /\ o \in Outs(u))}

ExecEnd(t) ==
  /\ pc[t] = "wait"
  /\ \E code \in {0, 1} :
       /\ codes' = [codes EXCEPT ![t] = Append(@, code)]
       /\ product' = [o \in Outputs |->
                        IF code = 0 /\ o \in Completed(t) THEN "whole" ELSE product[o]]
       /\ Goto(t, IF Breaks(t, code) \/ Len(codes'[t]) = L THEN "stop" ELSE "exec")
       /\ running' \in (IF Command(t) = "exit" THEN {running \ {t}} ELSE {running})
                       \cup (IF code = 0 THEN {} ELSE {running})
  /\ UNCHANGED <<catalog, allow, eligible, this_input, met, blame>>

-----------------------------------------------------------------------------
(* The rest of container_dispatch.                                         *)

any_errors_outside_allowableNoMod(t) ==
  \E i \in 0 .. Len(codes[t]) - 1 : codes[t][i + 1] # 0 /\ i \notin allow

(* Python's % is never negative: -1 stands for the last command, and every *)
(* integer for some command.                                               *)
any_errors_outside_allowable(t) ==
  \E i \in 0 .. Len(codes[t]) - 1 : codes[t][i + 1] # 0 /\ i \notin {j % L : j \in allow}

StopAfterVerdict(t) ==
  /\ pc[t] = "stop"
  /\ running' = IF any_errors_outside_allowable(t) THEN running ELSE running \ {t}
  /\ Goto(t, "verdict")
  /\ UNCHANGED <<catalog, product, codes, allow, eligible, this_input, met, blame>>

(* docker_stop. *)
Stop(t) ==
  /\ pc[t] = "stop"
  /\ running' = running \ {t}
  /\ Goto(t, "verdict")
  /\ UNCHANGED <<catalog, product, codes, allow, eligible, this_input, met, blame>>

Fault(t) == faults < MaxFaults /\ faults' = faults + 1 /\ raised' = raised \cup {t}

(* It swallows every error, and its result is ignored.                     *)
StopFails(t) ==
  /\ pc[t] = "stop" /\ Fault(t)
  /\ Goto(t, "verdict")
  /\ UNCHANGED <<catalog, docker, allow, eligible, this_input, met>>

Reject(t) ==
  /\ pc[t] = "verdict" /\ any_errors_outside_allowable(t)
  /\ Goto(t, "done")
  /\ UNCHANGED <<catalog, docker, allow, eligible, this_input, met, blame>>

(* msiregister_as_admin registers the directory: every file of it that is  *)
(* not in the catalog yet, and possibly those that are.  Whether those of  *)
(* earlier launches are, the report included, is not known.                *)
Files == {o \in Outputs : product[o] # "none"}
Unregistered ==
  {o \in Files \ {Report} : stamp[o] # Earlier /\ \A t \in Tasks : \A r \in registered[t] : r[1] # o}

RegisterAlways(t) ==
  /\ pc[t] = "verdict"
  /\ \E new \in SUBSET Files :
       /\ Unregistered \subseteq new
       /\ registered' = [registered EXCEPT ![t] = {<<o, product[o]>> : o \in new}]
  /\ Goto(t, "registered")
  /\ UNCHANGED <<stamp, local, docker, allow, eligible, this_input, met, blame>>

Register(t) ==
  /\ pc[t] = "verdict" /\ ~any_errors_outside_allowable(t)
  /\ \E new \in SUBSET Files :
       /\ Unregistered \subseteq new
       /\ registered' = [registered EXCEPT ![t] = {<<o, product[o]>> : o \in new}]
  /\ Goto(t, "registered")
  /\ UNCHANGED <<stamp, local, docker, allow, eligible, this_input, met, blame>>

(* An exception from any call, or a crash.  Nothing catches it: the stamp  *)
(* stays, and so does a container that runs.                               *)
Raise(t) ==
  /\ pc[t] \notin Ended /\ Fault(t)
  /\ Goto(t, "done")
  /\ UNCHANGED <<catalog, docker, allow, eligible, this_input, met>>

-----------------------------------------------------------------------------
container_dispatch(t) ==
  \/ Query(t) \/ Stamp(t) \/ NoInputFound(t) \/ Paths(t) \/ Run(t)
  \/ Exec(t) \/ ExecEnd(t) \/ Stop(t) \/ StopFails(t)
  \/ Reject(t) \/ Register(t) \/ Raise(t)

Next == \E t \in Tasks : container_dispatch(t)

Spec == Init /\ [][Next]_vars

-----------------------------------------------------------------------------
(* Every variable has its type; a task has an input once it has stamped,   *)
(* and a container runs only for a task that started it.                   *)
TypeOK ==
  /\ stamp \in [Inputs -> Tasks \cup {Earlier, NoTask}]
  /\ local \subseteq Inputs
  /\ product \in [Outputs -> {"none", "partial", "whole"}]
  /\ registered \in [Tasks -> SUBSET (Outputs \X {"partial", "whole"})]
  /\ pc \in [Tasks -> {"query", "stamp", "paths", "run", "exec", "wait", "stop", "verdict"} \cup Ended]
  /\ allow \in Allowances
  /\ eligible \in [Tasks -> SUBSET Inputs]
  /\ this_input \in [Tasks -> Inputs \cup {NoInput}]
  /\ running \subseteq {t \in Tasks : pc[t] \notin {"query", "stamp", "paths", "run"}}
  /\ codes \in [Tasks -> Seq({0, 1})]
  /\ raised \subseteq Tasks
  /\ met \subseteq SUBSET Tasks
  /\ faults \in 0 .. MaxFaults
  /\ \A t \in Tasks :
       /\ pc[t] \notin {"query", "stamp"} \cup Ended => this_input[t] # NoInput
       /\ pc[t] \in {"run", "exec", "wait"} => this_input[t] \in local
       /\ pc[t] \in {"query", "stamp", "paths", "run"} => codes[t] = <<>>
       /\ pc[t] \in {"exec", "wait"} => Len(codes[t]) < L

(* An input is processed by one task only, unless two tasks were between   *)
(* the query and the stamp of get_first_eligible_input at the same time:   *)
(* failures, crashes and everything after the stamp never free an input.   *)
OneTaskPerInput ==
  \A t \in Tasks : \A u \in Tasks \ {t} :
    this_input[t] # NoInput /\ this_input[t] = this_input[u] => {t, u} \in met

(* Results are registered if and only if every command that has to succeed *)
(* was run and did.  An allowed index counts as in Python, from the end    *)
(* when it is negative.  The two readings of the code agree on that for    *)
(* the indices -1 .. L-1 only: the loop of exec_commands_in_container      *)
(* knows no negative index, and container_dispatch takes all modulo L.  So *)
(* results are registered although commands have failed or were not run    *)
(* only if the failed one is excused by an index outside of that range.    *)
Excused(i) == i \in allow \/ i - L \in allow
Succeeded(t) == \A i \in Index : Excused(i) \/ (Len(codes[t]) > i /\ codes[t][i + 1] = 0)
Strayed(t) ==
  \E j \in allow \ (-1 .. L - 1) : Len(codes[t]) > j % L /\ codes[t][(j % L) + 1] # 0
VerdictRight ==
  [][\A t \in Tasks : pc[t] = "verdict" /\ faults' = faults =>
       /\ Succeeded(t) => pc'[t] \in {"verdict", "registered"}
       /\ ~Succeeded(t) /\ ~Strayed(t) => pc'[t] \in {"verdict", "done"}]_vars

(* When a task registers, the product of its input is complete, unless     *)
(* another task has the same input and is at work on the same file, or the *)
(* commands ended before their time at a failure that such an index        *)
(* excused.                                                                *)
OwnProductWhole ==
  [][\A t \in Tasks : pc[t] = "verdict" /\ pc'[t] = "registered" =>
       \/ product[this_input[t]] = "whole" \/ Strayed(t)
       \/ \E u \in Tasks \ {t} : this_input[u] = this_input[t]]_vars

(* A task registers the whole directory that all tasks share.  What it     *)
(* finds incomplete there, the report that all of them write included, is  *)
(* of an earlier launch, or of a task that is writing it at this moment,   *)
(* was hit by an exception or had a command fail or given up: a task that  *)
(* went well never leaves a file cut short for itself or others to         *)
(* register (container_dispatch, msiregister_as_admin).                    *)
Hampered(u) ==
  \/ Writing(u) \/ u \in raised \/ Strayed(u)
  \/ \E i \in 1 .. Len(codes[u]) : codes[u][i] # 0 /\ ~Excused(i - 1)
OfEarlier(o) == o \in Inputs /\ stamp[o] = Earlier
PartialExplained ==
  [][\A t \in Tasks : pc[t] = "verdict" /\ pc'[t] = "registered" =>
       \A o \in Outputs : <<o, "partial">> \in registered'[t] =>
         OfEarlier(o) \/ \E u \in Tasks : o \in Outs(u) /\ Hampered(u)]_vars

(* No container is left running by a task that ended, unless an exception  *)
(* or a failed kill was in its way.                                        *)
NoContainerLeft == \A t \in running : pc[t] \in Ended => t \in raised
=============================================================================
