------------------------ MODULE ComputeToDataProofs ------------------------
(***************************************************************************)
(* Theorems about ComputeToData for any number of tasks and inputs, any    *)
(* commands and any allowed indices.                                       *)
(***************************************************************************)
EXTENDS ComputeToData, TLAPS

(* Pairs of one element with others of a set are sets of its elements.     *)
LEMMA PairsOf ==
  ASSUME NEW S, NEW t \in S, NEW D, D \subseteq S
  PROVE  {{t, u} : u \in D} \subseteq SUBSET S
<1> SUFFICES ASSUME NEW s \in {{t, u} : u \in D}
             PROVE  s \subseteq S
  OBVIOUS
<1>1. PICK u \in D : s = {t, u}
  OBVIOUS
<1> QED BY <1>1

(* A task that still runs its commands has one left.                       *)
LEMMA CommandLeft ==
  ASSUME TypeOK, NEW t \in Tasks, pc[t] \in {"exec", "wait"}
  PROVE  Command(t) \in Roles
<1>1. Commands \in Seq(Roles) /\ Len(codes[t]) \in Nat /\ Len(codes[t]) < Len(Commands)
  BY ComputeAssumption DEF TypeOK, L
<1> QED BY <1>1 DEF Command

(* Every variable keeps its type.                                          *)
THEOREM TypeCorrect == Spec => []TypeOK
<1>1. Init => TypeOK
  BY ComputeAssumption DEF Init, TypeOK, Ended
<1>2. TypeOK /\ [Next]_vars => TypeOK'
  <2> SUFFICES ASSUME TypeOK, [Next]_vars PROVE TypeOK'
    OBVIOUS
  <2> USE DEF TypeOK, Ended, Goto, catalog, docker, blame
  <2>1. CASE UNCHANGED vars
    BY <2>1 DEF vars
  <2>2. ASSUME NEW t \in Tasks, Query(t) PROVE TypeOK'
    <3>0. {{t, u} : u \in {v \in Tasks \ {t} : pc[v] = "stamp"}} \subseteq SUBSET Tasks
      BY PairsOf, {v \in Tasks \ {t} : pc[v] = "stamp"} \subseteq Tasks
    <3>1. met' \subseteq SUBSET Tasks
      BY <2>2, <3>0 DEF Query
    <3> QED BY <2>2, <3>1 DEF Query, Unstamped
  <2>3. ASSUME NEW t \in Tasks, Stamp(t) PROVE TypeOK'
    BY <2>3, ComputeAssumption DEF Stamp
  <2>4. ASSUME NEW t \in Tasks, NoInputFound(t) PROVE TypeOK'
    BY <2>4 DEF NoInputFound
  <2>5. ASSUME NEW t \in Tasks, Paths(t) PROVE TypeOK'
    BY <2>5 DEF Paths
  <2>6. ASSUME NEW t \in Tasks, Run(t) PROVE TypeOK'
    BY <2>6, ComputeAssumption DEF Run, L
  <2>7. ASSUME NEW t \in Tasks, Exec(t) PROVE TypeOK'
    <3>1. \A o \in Outputs : Started(t, o) \in {"none", "partial", "whole"}
      BY DEF Started
    <3> QED BY <2>7, <3>1, CommandLeft DEF Exec
  <2>8. ASSUME NEW t \in Tasks, ExecEnd(t) PROVE TypeOK'
    BY <2>8, ComputeAssumption DEF ExecEnd, L
  <2>9. ASSUME NEW t \in Tasks, Stop(t) PROVE TypeOK'
    BY <2>9 DEF Stop
  <2>10. ASSUME NEW t \in Tasks, StopFails(t) PROVE TypeOK'
    BY <2>10, ComputeAssumption DEF StopFails, Fault
  <2>11. ASSUME NEW t \in Tasks, Reject(t) PROVE TypeOK'
    BY <2>11 DEF Reject
  <2>12. ASSUME NEW t \in Tasks, Register(t) PROVE TypeOK'
    BY <2>12 DEF Register, Files
  <2>13. ASSUME NEW t \in Tasks, Raise(t) PROVE TypeOK'
    BY <2>13, ComputeAssumption DEF Raise, Fault
  <2> QED
    BY <2>1, <2>2, <2>3, <2>4, <2>5, <2>6, <2>7, <2>8, <2>9, <2>10, <2>11, <2>12, <2>13
       DEF Next, container_dispatch
<1> QED BY <1>1, <1>2, PTL DEF Spec

-----------------------------------------------------------------------------
(* Why two tasks have the same input only if they met: an input that is    *)
(* taken is stamped, a task lists it as eligible only if it was not when   *)
(* the task made its query, and two tasks that both stand before the stamp *)
(* have met.                                                               *)
Taken(t, o)  == this_input[t] = o
TakenStamped == \A t \in Tasks, o \in Inputs : Taken(t, o) => stamp[o] # NoTask
BothMet      == \A t \in Tasks, u \in Tasks :
                  t # u /\ pc[t] = "stamp" /\ pc[u] = "stamp" => {t, u} \in met
TakenMet     == \A t \in Tasks, u \in Tasks : \A o \in eligible[u] :
                  t # u /\ Taken(t, o) /\ pc[u] = "stamp" => {t, u} \in met
OneTaskInv   == TakenStamped /\ BothMet /\ TakenMet /\ OneTaskPerInput

(* A step keeps what tasks have taken, listed and met, or it is a query or *)
(* a stamp.                                                                *)
LEMMA PickSteps ==
  ASSUME TypeOK, [Next]_vars
  PROVE  \/ \E t \in Tasks : Query(t) \/ Stamp(t)
         \/ /\ UNCHANGED <<stamp, eligible, this_input, met>>
            /\ \A t \in Tasks : pc'[t] = "stamp" => pc[t] = "stamp"
<1> USE DEF TypeOK, Goto, catalog
<1>1. CASE UNCHANGED vars
  BY <1>1 DEF vars
<1>2. ASSUME NEW t \in Tasks, NoInputFound(t) \/ Paths(t) \/ Run(t) \/ Exec(t)
      PROVE  /\ UNCHANGED <<stamp, eligible, this_input, met>>
             /\ \A u \in Tasks : pc'[u] = "stamp" => pc[u] = "stamp"
  BY <1>2 DEF NoInputFound, Paths, Run, Exec
<1>3. ASSUME NEW t \in Tasks, ExecEnd(t)
      PROVE  /\ UNCHANGED <<stamp, eligible, this_input, met>>
             /\ \A u \in Tasks : pc'[u] = "stamp" => pc[u] = "stamp"
  BY <1>3 DEF ExecEnd
<1>4. ASSUME NEW t \in Tasks, Stop(t) \/ StopFails(t) \/ Reject(t) \/ Register(t) \/ Raise(t)
      PROVE  /\ UNCHANGED <<stamp, eligible, this_input, met>>
             /\ \A u \in Tasks : pc'[u] = "stamp" => pc[u] = "stamp"
  BY <1>4 DEF Stop, StopFails, Reject, Register, Raise
<1> QED BY <1>1, <1>2, <1>3, <1>4 DEF Next, container_dispatch

(* One step keeps the invariant.                                           *)
LEMMA OneTaskStep ==
  ASSUME TypeOK, TypeOK', OneTaskInv, [Next]_vars
  PROVE  OneTaskInv'
<1> USE DEF TypeOK, Taken
<1>1. ASSUME NEW t \in Tasks, Query(t) PROVE OneTaskInv'
  <2> USE <1>1 DEF Query, Goto, catalog
  <2>1. \A u \in Tasks : u # t /\ pc[u] = "stamp" => {t, u} \in met'
    OBVIOUS
  <2>2. \A u \in Tasks : pc'[u] = "stamp" => u = t \/ pc[u] = "stamp"
    OBVIOUS
  <2>3. met \subseteq met' /\ UNCHANGED <<stamp, this_input>>
    OBVIOUS
  <2>4. TakenStamped'
    BY <2>3 DEF OneTaskInv, TakenStamped
  <2>5. BothMet'
    <3> SUFFICES ASSUME NEW u \in Tasks, NEW v \in Tasks, u # v, pc'[u] = "stamp", pc'[v] = "stamp"
                 PROVE  {u, v} \in met'
      BY DEF BothMet
    <3>1. {u, v} = {v, u}
      OBVIOUS
    <3> QED BY <2>1, <2>2, <2>3, <3>1 DEF OneTaskInv, BothMet
  <2>6. TakenMet'
    <3> SUFFICES ASSUME NEW u \in Tasks, NEW v \in Tasks, NEW o \in eligible'[v],
                        u # v, this_input'[u] = o, pc'[v] = "stamp"
                 PROVE  {u, v} \in met'
      BY DEF TakenMet
    <3>1. v # t
      BY <2>3 DEF OneTaskInv, TakenStamped, Unstamped
    <3> QED BY <2>2, <2>3, <3>1 DEF OneTaskInv, TakenMet
  <2>7. OneTaskPerInput'
    BY <2>3 DEF OneTaskInv, OneTaskPerInput
  <2> QED BY <2>4, <2>5, <2>6, <2>7 DEF OneTaskInv
<1>2. ASSUME NEW t \in Tasks, Stamp(t) PROVE OneTaskInv'
  <2> USE <1>2 DEF Stamp, Goto
  <2>1. PICK o \in eligible[t] : stamp' = [stamp EXCEPT ![o] = t]
                                 /\ this_input' = [this_input EXCEPT ![t] = o]
    OBVIOUS
  <2>2. o \in Inputs /\ o # NoInput /\ t # NoTask
    BY ComputeAssumption
  <2>3. UNCHANGED <<eligible, met>> /\ pc[t] = "stamp" /\ pc' = [pc EXCEPT ![t] = "paths"]
    OBVIOUS
  <2>4. TakenStamped'
    BY <2>1, <2>2 DEF OneTaskInv, TakenStamped
  <2>5. BothMet'
    BY <2>3 DEF OneTaskInv, BothMet
  <2>6. TakenMet'
    <3> SUFFICES ASSUME NEW u \in Tasks, NEW v \in Tasks, NEW p \in eligible[v],
                        u # v, this_input'[u] = p, pc'[v] = "stamp"
                 PROVE  {u, v} \in met
      BY <2>3 DEF TakenMet
    <3>1. pc[v] = "stamp" /\ v # t
      BY <2>3
    <3>2. CASE u = t
      BY <2>3, <3>1, <3>2 DEF OneTaskInv, BothMet
    <3>3. CASE u # t
      BY <2>1, <3>1, <3>3 DEF OneTaskInv, TakenMet
    <3> QED BY <3>2, <3>3
  <2>7. OneTaskPerInput'
    <3> SUFFICES ASSUME NEW u \in Tasks, NEW v \in Tasks \ {u},
                        this_input'[u] # NoInput, this_input'[u] = this_input'[v]
                 PROVE  {u, v} \in met
      BY <2>3 DEF OneTaskPerInput
    <3>1. CASE u # t /\ v # t
      BY <2>1, <3>1 DEF OneTaskInv, OneTaskPerInput
    <3>2. CASE u = t
      <4>1. this_input[v] = o /\ v # t
        BY <2>1, <3>2
      <4>2. {v, t} \in met
        BY <2>3, <4>1 DEF OneTaskInv, TakenMet
      <4>3. {v, t} = {t, v}
        OBVIOUS
      <4> QED BY <3>2, <4>2, <4>3
    <3>3. CASE v = t
      <4>1. this_input[u] = o /\ u # t
        BY <2>1, <3>3
      <4> QED BY <2>3, <3>3, <4>1 DEF OneTaskInv, TakenMet
    <3> QED BY <3>1, <3>2, <3>3
  <2> QED BY <2>4, <2>5, <2>6, <2>7 DEF OneTaskInv
<1>3. CASE /\ UNCHANGED <<stamp, eligible, this_input, met>>
           /\ \A t \in Tasks : pc'[t] = "stamp" => pc[t] = "stamp"
  BY <1>3 DEF OneTaskInv, TakenStamped, BothMet, TakenMet, OneTaskPerInput
<1> QED BY <1>1, <1>2, <1>3, PickSteps

(* Two tasks process the same input only if both were between the query    *)
(* and the stamp at the same time, whatever fails or crashes.              *)
THEOREM OneTask == Spec => []OneTaskPerInput
<1>1. Init => OneTaskInv
  BY ComputeAssumption
     DEF Init, OneTaskInv, Taken, TakenStamped, BothMet, TakenMet, OneTaskPerInput
<1>2. TypeOK /\ TypeOK' /\ OneTaskInv /\ [Next]_vars => OneTaskInv'
  BY OneTaskStep
<1>3. OneTaskInv => OneTaskPerInput
  BY DEF OneTaskInv
<1> QED BY <1>1, <1>2, <1>3, TypeCorrect, PTL DEF Spec

-----------------------------------------------------------------------------
(* A container of a task that is past docker_stop runs only if something   *)
(* was raised or the kill failed.                                          *)
StoppedInv == \A t \in running : pc[t] \in {"verdict"} \cup Ended => t \in raised

(* One step keeps the invariant.                                           *)
LEMMA StoppedStep ==
  ASSUME TypeOK, TypeOK', StoppedInv, [Next]_vars
  PROVE  StoppedInv'
<1> USE DEF TypeOK, StoppedInv, Ended, Goto, catalog, docker, blame
<1>1. CASE UNCHANGED vars
  BY <1>1 DEF vars
<1>2. ASSUME NEW t \in Tasks, Query(t) \/ Stamp(t) \/ Paths(t)
      PROVE  StoppedInv'
  BY <1>2 DEF Query, Stamp, Paths
<1>3. ASSUME NEW t \in Tasks, NoInputFound(t) \/ Run(t) \/ Exec(t)
      PROVE  StoppedInv'
  BY <1>3 DEF NoInputFound, Run, Exec
<1>4. ASSUME NEW t \in Tasks, ExecEnd(t) PROVE StoppedInv'
  <2>1. running' \subseteq running /\ raised' = raised
    BY <1>4 DEF ExecEnd
  <2>2. \A u \in Tasks : u # t => pc'[u] = pc[u]
    BY <1>4 DEF ExecEnd
  <2>3. pc'[t] \in {"stop", "exec"}
    BY <1>4 DEF ExecEnd
  <2> QED BY <2>1, <2>2, <2>3
<1>5. ASSUME NEW t \in Tasks, Stop(t) \/ StopFails(t) \/ Raise(t) PROVE StoppedInv'
  BY <1>5 DEF Stop, StopFails, Raise, Fault
<1>6. ASSUME NEW t \in Tasks, Reject(t) \/ Register(t) PROVE StoppedInv'
  BY <1>6 DEF Reject, Register
<1> QED BY <1>1, <1>2, <1>3, <1>4, <1>5, <1>6 DEF Next, container_dispatch

(* A task that ended leaves no running container, unless an exception, a   *)
(* crash or a failed kill was in its way.                                  *)
THEOREM ContainersStopped == Spec => []NoContainerLeft
<1>1. Init => StoppedInv
  BY DEF Init, StoppedInv
<1>2. TypeOK /\ TypeOK' /\ StoppedInv /\ [Next]_vars => StoppedInv'
  BY StoppedStep
<1>3. StoppedInv => NoContainerLeft
  BY DEF StoppedInv, NoContainerLeft
<1> QED BY <1>1, <1>2, <1>3, TypeCorrect, PTL DEF Spec

-----------------------------------------------------------------------------
(* What the codes say when the commands are over: each has one, or the     *)
(* last one is an error that the loop did not excuse.                      *)
LastCode(t)  == codes[t][Len(codes[t])]
CodesDone(t) == \/ Len(codes[t]) = L
                \/ Len(codes[t]) > 0 /\ LastCode(t) # 0 /\ Len(codes[t]) - 1 \notin allow
CodesInv ==
  \A t \in Tasks :
    /\ Len(codes[t]) <= L
    /\ pc[t] \in {"stop", "verdict"} => CodesDone(t)

(* The writes that a task has ended went well.                             *)
WritesWell(t) ==
  \A i \in 1 .. Len(codes[t]) : Commands[i] = "write" => codes[t][i] = 0

(* Who has left a file incomplete: a task that is writing it, was hit by   *)
(* an exception or had its write fail.  Otherwise an earlier launch has,   *)
(* and the report is of one until a task of now has written it.            *)
LeftPartial(t) == Writing(t) \/ t \in raised \/ ~WritesWell(t)
HasWritten(t)  == \E i \in 1 .. Len(codes[t]) : Commands[i] = "write"
OfOld(o) == IF o = Report THEN \A t \in Tasks : ~HasWritten(t) ELSE stamp[o] = Earlier
PartialInv ==
  \A o \in Outputs : product[o] = "partial" =>
    OfOld(o) \/ \E t \in Tasks : o \in Outs(t) /\ LeftPartial(t)

(* Only inputs without a stamp are listed, and no task changes its input.  *)
ListedInv ==
  \A t \in Tasks :
    /\ \A o \in eligible[t] : stamp[o] # Earlier
    /\ pc[t] \in {"query", "stamp"} => this_input[t] = NoInput

(* The commands make the product with command w and do not remove it after *)
(* that, as those of task_config.json.                                     *)
MakesProduct(w) ==
  /\ w \in 1 .. L /\ Commands[w] = "write"
  /\ \A i \in w .. L : Commands[i] # "clear"

(* The exit code of a write counts, as in task_config.json.                *)
WritesCount ==
  \A a \in Allowances, i \in Index : Commands[i + 1] = "write" => {i, i - L} \cap a = {}

(* What a task knows of the product, if no other task has its input.       *)
Alone(t) == \A u \in Tasks \ {t} : this_input[u] # this_input[t]
OwnInv(w) ==
  \A t \in Tasks : Alone(t) /\ pc[t] \in {"exec", "wait", "stop", "verdict"} =>
    /\ Writing(t) => product[this_input[t]] = "partial"
    /\ ~Writing(t) /\ Len(codes[t]) >= w /\ WritesWell(t) => product[this_input[t]] = "whole"

-----------------------------------------------------------------------------
(* Python's % on the indices that name a command, and on all others.       *)
LEMMA Modulo ==
  ASSUME NEW l \in Nat \ {0}, NEW j \in Int
  PROVE  /\ j % l \in 0 .. l - 1
         /\ j \in 0 .. l - 1 => j % l = j
         /\ j \in -l .. -1 => j % l = j + l
<1>1. j % l \in 0 .. l - 1
  OBVIOUS
<1>2. ASSUME j \in 0 .. l - 1 PROVE j % l = j
  BY <1>2
<1>3. ASSUME j \in -l .. -1 PROVE j % l = j + l
  BY <1>3
<1> QED BY <1>1, <1>2, <1>3

(* The number of commands, and what is allowed.                            *)
LEMMA Constants ==
  ASSUME TypeOK
  PROVE  L \in Nat \ {0} /\ L = Len(Commands) /\ Commands \in Seq(Roles) /\ allow \subseteq Int
  BY ComputeAssumption DEF TypeOK, L

(* container_dispatch excuses the commands that it is to excuse, and those *)
(* that an index outside of -1 .. L-1 selects.                             *)
LEMMA Allowed ==
  ASSUME TypeOK, NEW i \in Index
  PROVE  /\ Excused(i) => i \in {j % L : j \in allow}
         /\ i \in {j % L : j \in allow} =>
              Excused(i) \/ \E j \in allow \ (-1 .. L - 1) : j % L = i
         /\ i # L - 1 /\ i \notin allow /\ i \in {j % L : j \in allow} =>
              \E j \in allow \ (-1 .. L - 1) : j % L = i
<1>1. L \in Nat \ {0} /\ allow \subseteq Int /\ i \in 0 .. L - 1
  BY Constants DEF Index
<1>2. ASSUME Excused(i) PROVE i \in {j % L : j \in allow}
  <2>1. i \in allow => i = i % L
    BY <1>1, Modulo
  <2>2. i - L \in allow => i = (i - L) % L
    <3>1. i - L \in -L .. -1 /\ (i - L) + L = i
      BY <1>1
    <3> QED BY <1>1, <3>1, Modulo
  <2> QED BY <1>2, <2>1, <2>2 DEF Excused
<1>3. ASSUME NEW j \in allow, i = j % L, j \in -1 .. L - 1
      PROVE  i = j \/ (i = L - 1 /\ i - L \in allow)
  <2>1. CASE j = -1
    <3>0. j \in -L .. -1 /\ j \in Int
      BY <1>1, <2>1
    <3>1. j % L = j + L
      BY <1>1, <3>0, Modulo
    <3>2. i = L - 1 /\ i - L = j
      BY <1>1, <1>3, <2>1, <3>1
    <3> QED BY <3>2
  <2>2. CASE j # -1
    <3>1. j \in 0 .. L - 1
      BY <1>1, <1>3, <2>2
    <3> QED BY <1>1, <1>3, <3>1, Modulo
  <2> QED BY <2>1, <2>2
<1> QED BY <1>2, <1>3 DEF Excused

(* When a task comes to its verdict, the two readings agree, but for the   *)
(* indices outside of that range.                                          *)
LEMMA ErrorsRight ==
  ASSUME TypeOK, NEW t \in Tasks, Len(codes[t]) <= L, CodesDone(t)
  PROVE  /\ Succeeded(t) => ~any_errors_outside_allowable(t)
         /\ ~Succeeded(t) /\ ~Strayed(t) => any_errors_outside_allowable(t)
<1>1. /\ L \in Nat \ {0} /\ codes[t] \in Seq({0, 1}) /\ Len(codes[t]) \in Nat
      /\ \A i \in 0 .. Len(codes[t]) - 1 : i \in Index
  BY Constants DEF TypeOK, Index
<1>2. ASSUME any_errors_outside_allowable(t) PROVE ~Succeeded(t)
  <2>1. PICK i \in 0 .. Len(codes[t]) - 1 : codes[t][i + 1] # 0 /\ i \notin {j % L : j \in allow}
    BY <1>2 DEF any_errors_outside_allowable
  <2>2. i \in Index /\ ~Excused(i)
    BY <1>1, <2>1, Allowed
  <2> QED BY <2>1, <2>2 DEF Succeeded
<1>3. ASSUME ~any_errors_outside_allowable(t), ~Strayed(t) PROVE Succeeded(t)
  <2>0. ASSUME NEW i \in 0 .. Len(codes[t]) - 1, codes[t][i + 1] # 0,
               NEW j \in allow \ (-1 .. L - 1), j % L = i
        PROVE  FALSE
    BY <1>1, <1>3, <2>0 DEF Strayed
  <2>1. \A i \in 0 .. Len(codes[t]) - 1 : codes[t][i + 1] = 0 \/ i \in {j % L : j \in allow}
    BY <1>3 DEF any_errors_outside_allowable
  <2>2. \A i \in 0 .. Len(codes[t]) - 1 : codes[t][i + 1] = 0 \/ Excused(i)
    BY <1>1, <2>0, <2>1, Allowed
  <2>3. Len(codes[t]) = L
    <3> SUFFICES ASSUME Len(codes[t]) > 0, LastCode(t) # 0, Len(codes[t]) - 1 \notin allow,
                        Len(codes[t]) # L
                 PROVE  FALSE
      BY DEF CodesDone
    <3> DEFINE n == Len(codes[t]) - 1
    <3>1. n \in 0 .. Len(codes[t]) - 1 /\ n + 1 = Len(codes[t]) /\ n \in Index /\ n # L - 1
      BY <1>1
    <3>2. n \notin allow /\ codes[t][n + 1] # 0
      BY <3>1 DEF LastCode
    <3> HIDE DEF n
    <3>3. \E j \in allow \ (-1 .. L - 1) : j % L = n
      BY <2>1, <3>1, <3>2, Allowed
    <3> QED BY <2>0, <3>1, <3>2, <3>3
  <2>4. \A i \in Index : i \in 0 .. Len(codes[t]) - 1 /\ Len(codes[t]) > i
    BY <1>1, <2>3 DEF Index
  <2> QED BY <2>2, <2>4 DEF Succeeded
<1> QED BY <1>2, <1>3

(* What a task does to the others: nothing but to the catalog, the         *)
(* directory and docker.                                                   *)
LEMMA TaskAlone ==
  ASSUME TypeOK, NEW u \in Tasks, container_dispatch(u), NEW t \in Tasks \ {u}
  PROVE  /\ pc'[t] = pc[t] /\ codes'[t] = codes[t] /\ this_input'[t] = this_input[t]
         /\ eligible'[t] = eligible[t] /\ (t \in raised' <=> t \in raised)
  BY DEF TypeOK, container_dispatch, Query, Stamp, NoInputFound, Paths, Run, Exec, ExecEnd, Stop,
     StopFails, Reject, Register, Raise, Fault, Goto, catalog, docker, blame

(* What it does to itself, unless a command starts or ends.                *)
LEMMA OwnSteps ==
  ASSUME TypeOK, NEW t \in Tasks, container_dispatch(t), ~Exec(t), ~ExecEnd(t)
  PROVE  /\ UNCHANGED <<codes, product>>
         /\ pc'[t] \notin {"wait", "stop"}
         /\ pc'[t] = "exec" => pc[t] = "run"
         /\ pc'[t] = "verdict" => pc[t] = "stop"
         /\ pc[t] = "wait" => t \in raised'
         /\ raised \subseteq raised'
<1> USE DEF TypeOK, Goto, Ended, docker, blame
<1>1. CASE Query(t) \/ Stamp(t) \/ NoInputFound(t) \/ Paths(t) \/ Run(t)
  BY <1>1 DEF Query, Stamp, NoInputFound, Paths, Run
<1>2. CASE Stop(t) \/ StopFails(t) \/ Reject(t) \/ Register(t) \/ Raise(t)
  BY <1>2 DEF Stop, StopFails, Reject, Register, Raise, Fault
<1> QED BY <1>1, <1>2 DEF container_dispatch

(* The end of a command.                                                   *)
LEMMA EndOfCommand ==
  ASSUME TypeOK, NEW t \in Tasks, ExecEnd(t)
  PROVE  \E code \in {0, 1} :
           /\ codes'[t] = Append(codes[t], code)
           /\ product' = [o \in Outputs |->
                IF code = 0 /\ o \in Completed(t) THEN "whole" ELSE product[o]]
           /\ pc'[t] \in {"exec", "stop"}
           /\ pc'[t] = "stop" => Breaks(t, code) \/ Len(codes'[t]) = L
           /\ pc[t] = "wait" /\ UNCHANGED <<stamp, eligible, this_input, raised>>
<1>1. PICK code \in {0, 1} :
        /\ codes' = [codes EXCEPT ![t] = Append(@, code)]
        /\ product' = [o \in Outputs |->
             IF code = 0 /\ o \in Completed(t) THEN "whole" ELSE product[o]]
        /\ Goto(t, IF Breaks(t, code) \/ Len(codes'[t]) = L THEN "stop" ELSE "exec")
  BY DEF ExecEnd
<1>2. codes'[t] = Append(codes[t], code)
  BY <1>1 DEF TypeOK
<1>3. /\ pc'[t] \in {"exec", "stop"}
      /\ pc'[t] = "stop" => Breaks(t, code) \/ Len(codes'[t]) = L
  BY <1>1 DEF TypeOK, Goto
<1> QED BY <1>1, <1>2, <1>3 DEF ExecEnd, catalog, blame

(* The codes after one more.                                               *)
LEMMA OneMore ==
  ASSUME NEW s \in Seq({0, 1}), NEW code \in {0, 1}
  PROVE  /\ Len(Append(s, code)) = Len(s) + 1 /\ Append(s, code)[Len(s) + 1] = code
         /\ \A i \in 1 .. Len(s) : Append(s, code)[i] = s[i]
  OBVIOUS

(* Each step keeps CodesInv.                                               *)
LEMMA CodesNext ==
  ASSUME TypeOK, TypeOK', CodesInv, [Next]_vars
  PROVE  CodesInv'
<1> SUFFICES ASSUME NEW t \in Tasks
             PROVE  /\ Len(codes'[t]) <= L
                    /\ pc'[t] \in {"stop", "verdict"} => CodesDone(t)'
  BY DEF CodesInv
<1>1. Len(codes[t]) <= L /\ (pc[t] \in {"stop", "verdict"} => CodesDone(t))
  BY DEF CodesInv
<1>2. allow' = allow
  BY DEF Next, container_dispatch, Query, Stamp, NoInputFound, Paths, Run, Exec, ExecEnd, Stop,
     StopFails, Reject, Register, Raise, vars
<1>3. CASE codes'[t] = codes[t] /\ (pc'[t] \in {"stop", "verdict"} => pc[t] \in {"stop", "verdict"})
  BY <1>1, <1>2, <1>3 DEF CodesDone, LastCode
<1>4. CASE ExecEnd(t)
  <2>1. PICK code \in {0, 1} :
          /\ codes'[t] = Append(codes[t], code) /\ pc'[t] \in {"exec", "stop"}
          /\ pc'[t] = "stop" => Breaks(t, code) \/ Len(codes'[t]) = L
          /\ pc[t] = "wait"
    BY <1>4, EndOfCommand
  <2>2. codes[t] \in Seq({0, 1}) /\ Len(codes[t]) \in Nat /\ Len(codes[t]) < L /\ L \in Nat
    BY <2>1, Constants DEF TypeOK
  <2>3. Len(codes'[t]) = Len(codes[t]) + 1 /\ codes'[t][Len(codes[t]) + 1] = code
    BY <2>1, <2>2, OneMore
  <2>4. Breaks(t, code) => CodesDone(t)'
    <3> SUFFICES ASSUME Breaks(t, code) PROVE CodesDone(t)'
      OBVIOUS
    <3>1. code # 0 /\ Len(codes[t]) \notin allow
      BY <2>2 DEF Breaks
    <3>2. Len(codes'[t]) - 1 = Len(codes[t]) /\ Len(codes'[t]) > 0
      BY <2>2, <2>3
    <3> QED BY <1>2, <2>3, <3>1, <3>2 DEF CodesDone, LastCode
  <2>5. Len(codes'[t]) = L => CodesDone(t)'
    BY DEF CodesDone
  <2> QED BY <2>1, <2>2, <2>3, <2>4, <2>5
<1>5. CASE Exec(t)
  BY <1>1, <1>5, <1>3 DEF Exec, Goto, TypeOK
<1>6. CASE container_dispatch(t) /\ ~Exec(t) /\ ~ExecEnd(t)
  BY <1>3, <1>6, OwnSteps
<1>7. CASE ~container_dispatch(t)
  <2>1. CASE UNCHANGED vars
    BY <1>3, <2>1 DEF vars, docker
  <2>2. ASSUME NEW u \in Tasks, container_dispatch(u)
        PROVE  pc'[t] = pc[t] /\ codes'[t] = codes[t]
    BY <1>7, <2>2, TaskAlone
  <2> QED BY <1>3, <2>1, <2>2 DEF Next
<1> QED BY <1>4, <1>5, <1>6, <1>7

(* A task at its verdict ends as it has succeeded ...                      *)
VerdictOf(t) ==
  /\ Succeeded(t) => pc'[t] \in {"verdict", "registered"}
  /\ ~Succeeded(t) /\ ~Strayed(t) => pc'[t] \in {"verdict", "done"}

(* ... if nothing raises.                                                  *)
LEMMA VerdictStep ==
  ASSUME TypeOK, CodesInv, [Next]_vars, NEW t \in Tasks, pc[t] = "verdict", faults' = faults
  PROVE  VerdictOf(t)
<1>1. /\ Succeeded(t) => ~any_errors_outside_allowable(t)
      /\ ~Succeeded(t) /\ ~Strayed(t) => any_errors_outside_allowable(t)
  BY ErrorsRight DEF CodesInv
<1>2. CASE pc'[t] = pc[t]
  BY <1>2 DEF VerdictOf
<1>3. ASSUME NEW u \in Tasks \ {t}, container_dispatch(u) PROVE pc'[t] = pc[t]
  BY <1>3, TaskAlone
<1>4. CASE container_dispatch(t)
  <2>1. faults \in Int
    BY ComputeAssumption DEF TypeOK
  <2>2. ~Raise(t)
    BY <2>1 DEF Raise, Fault
  <2>3. Reject(t) \/ Register(t)
    BY <1>4, <2>2 DEF container_dispatch, Query, Stamp, NoInputFound, Paths, Run, Exec, ExecEnd, Stop,
       StopFails
  <2>4. Reject(t) => pc'[t] = "done" /\ ~Succeeded(t)
    BY <1>1 DEF Reject, Goto, TypeOK
  <2>5. Register(t) => pc'[t] = "registered" /\ (Succeeded(t) \/ Strayed(t))
    BY <1>1 DEF Register, Goto, TypeOK
  <2> QED BY <2>3, <2>4, <2>5 DEF VerdictOf
<1> QED BY <1>2, <1>3, <1>4 DEF Next, vars

(* CodesInv holds.                                                         *)
THEOREM CodesInvariant == Spec => []CodesInv
<1>1. Init => CodesInv
  BY ComputeAssumption DEF Init, CodesInv, L
<1>2. TypeOK /\ TypeOK' /\ CodesInv /\ [Next]_vars => CodesInv'
  BY CodesNext
<1> QED BY <1>1, <1>2, TypeCorrect, PTL DEF Spec

(* A task registers its results if and only if every command that has to   *)
(* succeed was run and did, unless one has failed that an index outside of *)
(* -1 .. L-1 excuses: for any commands and any sets of allowed integers.   *)
THEOREM VerdictIsRight == Spec => VerdictRight
<1>1. TypeOK /\ CodesInv /\ [Next]_vars
        => [\A t \in Tasks : pc[t] = "verdict" /\ faults' = faults =>
              /\ Succeeded(t) => pc'[t] \in {"verdict", "registered"}
              /\ ~Succeeded(t) /\ ~Strayed(t) => pc'[t] \in {"verdict", "done"}]_vars
  BY VerdictStep DEF VerdictOf
<1> QED BY <1>1, TypeCorrect, CodesInvariant, PTL DEF Spec, VerdictRight

-----------------------------------------------------------------------------
(* A write that failed is not excused by what the configuration allows.    *)
LEMMA WriteCounts ==
  ASSUME TypeOK, WritesCount, NEW t \in Tasks, Succeeded(t)
  PROVE  /\ \A w \in 1 .. L : Commands[w] = "write" => Len(codes[t]) >= w
         /\ Len(codes[t]) <= L => WritesWell(t)
<1>1. L \in Nat /\ Len(codes[t]) \in Nat /\ allow \in Allowances
  BY Constants DEF TypeOK
<1>2. ASSUME NEW w \in 1 .. L, Commands[w] = "write"
      PROVE  Len(codes[t]) >= w /\ codes[t][w] = 0
  <2> DEFINE i == w - 1
  <2>1. i \in Index /\ i + 1 = w
    BY <1>1 DEF Index
  <2>2. {i, i - L} \cap allow = {}
    BY <1>1, <1>2, <2>1 DEF WritesCount
  <2>3. ~Excused(i)
    BY <2>2 DEF Excused
  <2>4. Len(codes[t]) > i /\ codes[t][i + 1] = 0
    BY <2>1, <2>3 DEF Succeeded
  <2> QED BY <1>1, <2>1, <2>4
<1>3. Len(codes[t]) <= L => WritesWell(t)
  BY <1>1, <1>2 DEF WritesWell
<1> QED BY <1>2, <1>3

(* Each step keeps ListedInv.                                              *)
LEMMA ListedNext ==
  ASSUME TypeOK, ListedInv, [Next]_vars
  PROVE  ListedInv'
<1> USE DEF ListedInv, TypeOK, Goto, catalog
<1>1. CASE UNCHANGED vars
  BY <1>1 DEF vars
<1>2. ASSUME NEW t \in Tasks, Query(t) PROVE ListedInv'
  BY <1>2, ComputeAssumption DEF Query, Unstamped
<1>3. ASSUME NEW t \in Tasks, Stamp(t) PROVE ListedInv'
  BY <1>3, ComputeAssumption DEF Stamp
<1>4. ASSUME NEW t \in Tasks, NoInputFound(t) \/ Paths(t) \/ Run(t) \/ Exec(t) PROVE ListedInv'
  BY <1>4 DEF NoInputFound, Paths, Run, Exec
<1>5. ASSUME NEW t \in Tasks, ExecEnd(t) PROVE ListedInv'
  <2>1. UNCHANGED <<stamp, eligible, this_input>>
    BY <1>5 DEF ExecEnd
  <2>2. \A u \in Tasks : pc'[u] \in {"query", "stamp"} => pc[u] = pc'[u]
    BY <1>5 DEF ExecEnd
  <2> QED BY <2>1, <2>2
<1>6. ASSUME NEW t \in Tasks, Stop(t) \/ StopFails(t) \/ Reject(t) \/ Register(t) \/ Raise(t)
      PROVE  ListedInv'
  BY <1>6 DEF Stop, StopFails, Reject, Register, Raise
<1> QED BY <1>1, <1>2, <1>3, <1>4, <1>5, <1>6 DEF Next, container_dispatch

(* A task keeps its input, and an input the stamp of an earlier launch.    *)
LEMMA InputKept ==
  ASSUME TypeOK, ListedInv, [Next]_vars
  PROVE  /\ \A t \in Tasks : this_input[t] # NoInput => this_input'[t] = this_input[t]
         /\ \A o \in Inputs : stamp[o] = Earlier => stamp'[o] = Earlier
<1>1. ASSUME NEW t \in Tasks, Stamp(t)
      PROVE  /\ \A u \in Tasks : this_input[u] # NoInput => this_input'[u] = this_input[u]
             /\ \A o \in Inputs : stamp[o] = Earlier => stamp'[o] = Earlier
  BY <1>1 DEF Stamp, ListedInv, TypeOK
<1>2. UNCHANGED <<this_input, stamp>> \/ \E t \in Tasks : Stamp(t)
  BY DEF Next, container_dispatch, Query, NoInputFound, Paths, Run, Exec, ExecEnd, Stop, StopFails,
     Reject, Register, Raise, vars, catalog
<1> QED BY <1>1, <1>2

(* Who has left a file incomplete stays responsible, unless it ends its    *)
(* writing.                                                                *)
LEMMA LeftKept ==
  ASSUME TypeOK, CodesInv, [Next]_vars, NEW t \in Tasks, LeftPartial(t),
         ~(ExecEnd(t) /\ Writing(t))
  PROVE  LeftPartial(t)'
<1>c. codes[t] \in Seq({0, 1}) /\ Len(codes[t]) \in Nat
  BY DEF TypeOK
<1>1. CASE pc'[t] = pc[t] /\ codes'[t] = codes[t] /\ (t \in raised => t \in raised')
  BY <1>1 DEF LeftPartial, Writing, WritesWell, Command
<1>2. CASE ExecEnd(t)
  <2>1. PICK code \in {0, 1} :
          codes'[t] = Append(codes[t], code) /\ pc[t] = "wait" /\ UNCHANGED raised
    BY <1>2, EndOfCommand
  <2>2. /\ Len(codes'[t]) = Len(codes[t]) + 1
        /\ \A i \in 1 .. Len(codes[t]) : codes'[t][i] = codes[t][i]
    BY <2>1, <1>c, OneMore
  <2>3. CASE t \in raised
    BY <2>1, <2>3 DEF LeftPartial
  <2>4. CASE ~WritesWell(t)
    <3>1. PICK i \in 1 .. Len(codes[t]) : Commands[i] = "write" /\ codes[t][i] # 0
      BY <2>4 DEF WritesWell
    <3>2. i \in 1 .. Len(codes'[t]) /\ codes'[t][i] # 0
      BY <1>c, <2>2, <3>1
    <3> QED BY <3>1, <3>2 DEF LeftPartial, WritesWell
  <2> QED BY <1>2, <2>3, <2>4 DEF LeftPartial
<1>3. CASE Exec(t)
  <2>1. codes' = codes /\ raised' = raised /\ ~Writing(t)
    BY <1>3 DEF Exec, blame, Writing
  <2> QED BY <2>1 DEF LeftPartial, WritesWell
<1>4. CASE container_dispatch(t) /\ ~Exec(t) /\ ~ExecEnd(t)
  BY <1>4, OwnSteps DEF LeftPartial, Writing, WritesWell
<1>5. CASE ~container_dispatch(t)
  <2>1. CASE UNCHANGED vars
    BY <1>1, <2>1 DEF vars, docker, blame
  <2>2. ASSUME NEW u \in Tasks, container_dispatch(u)
        PROVE  pc'[t] = pc[t] /\ codes'[t] = codes[t] /\ (t \in raised => t \in raised')
    BY <1>5, <2>2, TaskAlone
  <2> QED BY <1>1, <2>1, <2>2 DEF Next
<1> QED BY <1>2, <1>3, <1>4, <1>5

(* What a task that ends its writing leaves incomplete, it has failed to   *)
(* write, or another task is writing it.                                   *)
LEMMA EndsToWrite ==
  ASSUME TypeOK, ListedInv, [Next]_vars, NEW t \in Tasks, ExecEnd(t), Writing(t),
         NEW o \in Outputs, o \in Outs(t), product'[o] = "partial"
  PROVE  \E u \in Tasks : o \in Outs(u)' /\ LeftPartial(u)'
<1>1. PICK code \in {0, 1} :
        /\ codes'[t] = Append(codes[t], code)
        /\ product' = [p \in Outputs |-> IF code = 0 /\ p \in Completed(t) THEN "whole" ELSE product[p]]
        /\ UNCHANGED this_input
  BY EndOfCommand
<1>2. CASE code = 1
  <2>1. codes[t] \in Seq({0, 1}) /\ Len(codes[t]) \in Nat
    BY DEF TypeOK
  <2>2. Len(codes'[t]) = Len(codes[t]) + 1 /\ codes'[t][Len(codes[t]) + 1] = code
    BY <1>1, <2>1, OneMore
  <2>3. Len(codes[t]) + 1 \in 1 .. Len(codes'[t]) /\ codes'[t][Len(codes[t]) + 1] # 0
    BY <1>2, <2>1, <2>2
  <2>4. LeftPartial(t)'
    BY <2>3 DEF LeftPartial, WritesWell, Writing, Command
  <2> QED BY <1>1, <2>4 DEF Outs
<1>3. CASE code = 0
  <2>1. product[o] = "partial" /\ o \notin Completed(t)
    BY <1>1, <1>3
  <2>2. PICK u \in Tasks \ {t} : Writing(u) /\ o \in Outs(u)
    BY <2>1 DEF Completed
  <2>3. pc'[u] = pc[u] /\ codes'[u] = codes[u]
    BY TaskAlone DEF container_dispatch
  <2> QED BY <1>1, <2>2, <2>3 DEF LeftPartial, Writing, Command, Outs
<1> QED BY <1>2, <1>3

(* A task has written more only when it ends its writing.                  *)
LEMMA NewlyWritten ==
  ASSUME TypeOK, [Next]_vars, NEW t \in Tasks, HasWritten(t)', ~HasWritten(t)
  PROVE  ExecEnd(t) /\ Writing(t)
<1>c. codes[t] \in Seq({0, 1}) /\ Len(codes[t]) \in Nat
  BY DEF TypeOK
<1>1. codes'[t] # codes[t]
  BY DEF HasWritten
<1>2. container_dispatch(t)
  <2>1. ASSUME NEW u \in Tasks \ {t}, container_dispatch(u) PROVE FALSE
    BY <1>1, <2>1, TaskAlone
  <2> QED BY <1>1, <2>1 DEF Next, vars, docker
<1>3. ExecEnd(t)
  <2>1. ~Exec(t)
    BY <1>1 DEF Exec
  <2> QED BY <1>1, <1>2, <2>1, OwnSteps
<1>4. PICK code \in {0, 1} : codes'[t] = Append(codes[t], code) /\ pc[t] = "wait"
  BY <1>3, EndOfCommand
<1>5. Len(codes'[t]) = Len(codes[t]) + 1
  BY <1>c, <1>4, OneMore
<1>6. PICK i \in 1 .. Len(codes'[t]) : Commands[i] = "write"
  BY DEF HasWritten
<1>7. i = Len(codes[t]) + 1
  BY <1>c, <1>5, <1>6 DEF HasWritten
<1> QED BY <1>3, <1>4, <1>6, <1>7 DEF Writing, Command

(* A file becomes incomplete only when a task begins to write it.          *)
LEMMA BeginsToWrite ==
  ASSUME TypeOK, [Next]_vars, NEW o \in Outputs, product'[o] = "partial", product[o] # "partial"
  PROVE  \E t \in Tasks : o \in Outs(t)' /\ Writing(t)'
<1>1. ASSUME NEW t \in Tasks, Exec(t)
      PROVE  o \in Outs(t)' /\ Writing(t)'
  <2>1. product'[o] = Started(t, o) /\ UNCHANGED <<codes, this_input>> /\ pc'[t] = "wait"
    BY <1>1 DEF Exec, Goto, TypeOK
  <2>2. Command(t) = "write" /\ o \in Outs(t)
    BY <2>1 DEF Started
  <2> QED BY <2>1, <2>2 DEF Writing, Command, Outs
<1>2. ASSUME NEW t \in Tasks, ExecEnd(t) PROVE FALSE
  <2>1. PICK code \in {0, 1} :
          product' = [p \in Outputs |-> IF code = 0 /\ p \in Completed(t) THEN "whole" ELSE product[p]]
    BY <1>2, EndOfCommand
  <2>2. product'[o] \in {product[o], "whole"}
    BY <2>1
  <2> QED BY <2>2
<1>3. ASSUME NEW t \in Tasks, container_dispatch(t), ~Exec(t), ~ExecEnd(t) PROVE FALSE
  BY <1>3, OwnSteps
<1>4. \E t \in Tasks : container_dispatch(t)
  BY DEF Next, vars, docker
<1> QED BY <1>1, <1>2, <1>3, <1>4

(* Each step keeps PartialInv.                                             *)
LEMMA PartialNext ==
  ASSUME TypeOK, CodesInv, ListedInv, PartialInv, [Next]_vars
  PROVE  PartialInv'
<1> SUFFICES ASSUME NEW o \in Outputs, product'[o] = "partial", ~OfOld(o)'
             PROVE  \E t \in Tasks : o \in Outs(t)' /\ LeftPartial(t)'
  BY DEF PartialInv
<1>1. CASE product[o] # "partial"
  BY <1>1, BeginsToWrite DEF LeftPartial
<1>2. CASE product[o] = "partial" /\ OfOld(o)
  <2>1. o = Report
    BY <1>2, InputKept DEF OfOld, Outputs
  <2>2. PICK t \in Tasks : HasWritten(t)' /\ ~HasWritten(t)
    BY <1>2, <2>1 DEF OfOld
  <2>3. ExecEnd(t) /\ Writing(t)
    BY <2>2, NewlyWritten
  <2>4. Report \in Outs(t)
    BY <2>3 DEF Writing, Outs, TypeOK, Ended
  <2> QED BY <2>1, <2>3, <2>4, EndsToWrite
<1>3. ASSUME NEW t \in Tasks, o \in Outs(t), LeftPartial(t)
      PROVE  \E u \in Tasks : o \in Outs(u)' /\ LeftPartial(u)'
  <2>1. CASE ExecEnd(t) /\ Writing(t)
    BY <1>3, <2>1, EndsToWrite
  <2>2. CASE ~(ExecEnd(t) /\ Writing(t))
    <3>1. LeftPartial(t)'
      BY <1>3, <2>2, LeftKept
    <3>2. o \in Outs(t)'
      BY <1>3, InputKept DEF Outs
    <3> QED BY <3>1, <3>2
  <2> QED BY <2>1, <2>2
<1> QED BY <1>1, <1>2, <1>3 DEF PartialInv

(* What a task finds incomplete when it registers has its explanation.     *)
LEMMA PartialStep ==
  ASSUME TypeOK, CodesInv, PartialInv, [Next]_vars,
         WritesCount, NEW w \in 1 .. L, Commands[w] = "write",
         NEW t \in Tasks, pc[t] = "verdict", pc'[t] = "registered",
         NEW o \in Outputs, <<o, "partial">> \in registered'[t]
  PROVE  OfEarlier(o) \/ \E u \in Tasks : o \in Outs(u) /\ Hampered(u)
<1>1. Register(t)
  <2>1. ASSUME NEW u \in Tasks \ {t}, container_dispatch(u) PROVE FALSE
    BY <2>1, TaskAlone
  <2>2. container_dispatch(t)
    BY <2>1 DEF Next, vars
  <2> QED BY <2>2 DEF container_dispatch, Query, Stamp, NoInputFound, Paths, Run, Exec, ExecEnd, Stop,
       StopFails, Reject, Raise, Goto, TypeOK
<1>2. PICK new \in SUBSET Files : registered' = [registered EXCEPT ![t] = {<<p, product[p]>> : p \in new}]
  BY <1>1 DEF Register
<1>3. <<o, "partial">> \in {<<p, product[p]>> : p \in new}
  BY <1>2 DEF TypeOK
<1>4. product[o] = "partial"
  BY <1>3
<1>5. ASSUME NEW u \in Tasks, LeftPartial(u) PROVE Hampered(u)
  <2> SUFFICES ASSUME ~WritesWell(u)
               PROVE  \E i \in 1 .. Len(codes[u]) : codes[u][i] # 0 /\ ~Excused(i - 1)
    BY <1>5 DEF LeftPartial, Hampered
  <2>1. PICK i \in 1 .. Len(codes[u]) : Commands[i] = "write" /\ codes[u][i] # 0
    BY DEF WritesWell
  <2>2. Len(codes[u]) \in Nat /\ Len(codes[u]) <= L /\ L \in Nat /\ allow \in Allowances
    BY Constants DEF CodesInv, TypeOK
  <2>3. i - 1 \in Index /\ (i - 1) + 1 = i
    BY <2>2 DEF Index
  <2>4. {i - 1, i - 1 - L} \cap allow = {}
    BY <2>1, <2>2, <2>3 DEF WritesCount
  <2> QED BY <2>1, <2>4 DEF Excused
<1>6. ASSUME o = Report, OfOld(o) PROVE Report \in Outs(t) /\ Hampered(t)
  <2>1. ~HasWritten(t) /\ Len(codes[t]) \in Nat /\ L \in Nat
    BY <1>6, Constants DEF OfOld, TypeOK
  <2>2. ~(Len(codes[t]) >= w)
    BY <2>1 DEF HasWritten
  <2>3. ~Succeeded(t)
    BY <2>2, WriteCounts
  <2>4. Strayed(t)
    BY <1>1, <2>3, ErrorsRight DEF CodesInv, Register
  <2>5. this_input[t] # NoInput
    BY DEF TypeOK, Ended
  <2> QED BY <2>4, <2>5 DEF Hampered, Outs
<1>7. ASSUME o # Report, OfOld(o) PROVE OfEarlier(o)
  BY <1>7 DEF OfOld, OfEarlier, Outputs
<1> QED BY <1>4, <1>5, <1>6, <1>7 DEF PartialInv

(* PartialInv holds, with what it rests on.                                *)
THEOREM PartialInvariant == Spec => [](ListedInv /\ PartialInv)
<1>1. Init => ListedInv /\ PartialInv
  BY ComputeAssumption DEF Init, ListedInv, PartialInv, OfOld, HasWritten, Outputs
<1>2. TypeOK /\ CodesInv /\ ListedInv /\ PartialInv /\ [Next]_vars => (ListedInv /\ PartialInv)'
  BY ListedNext, PartialNext
<1> QED BY <1>1, <1>2, TypeCorrect, CodesInvariant, PTL DEF Spec

(* A task that went well never leaves a file incomplete, its product or    *)
(* the report of all, for itself or the others to register: whatever the   *)
(* other commands are, if one writes and its exit code counts.             *)
THEOREM PartialIsExplained ==
  ASSUME WritesCount, NEW w \in 1 .. L, Commands[w] = "write"
  PROVE  Spec => PartialExplained
<1>1. TypeOK /\ CodesInv /\ ListedInv /\ PartialInv /\ [Next]_vars
        => [\A t \in Tasks : pc[t] = "verdict" /\ pc'[t] = "registered" =>
              \A o \in Outputs : <<o, "partial">> \in registered'[t] =>
                OfEarlier(o) \/ \E u \in Tasks : o \in Outs(u) /\ Hampered(u)]_vars
  BY PartialStep
<1> QED BY <1>1, TypeCorrect, CodesInvariant, PartialInvariant, PTL DEF Spec, PartialExplained

-----------------------------------------------------------------------------
(* The product of an input changes by the tasks that have this input only. *)
LEMMA ProductAlone ==
  ASSUME TypeOK, NEW u \in Tasks, container_dispatch(u), NEW o \in Inputs, this_input[u] # o
  PROVE  product'[o] = product[o]
<1>1. CASE Exec(u)
  BY <1>1, ComputeAssumption DEF Exec, Started, Outs, Outputs
<1>2. CASE ExecEnd(u)
  <2>1. PICK code \in {0, 1} :
          product' = [p \in Outputs |-> IF code = 0 /\ p \in Completed(u) THEN "whole" ELSE product[p]]
    BY <1>2, EndOfCommand
  <2>2. o \in Outputs /\ o \notin Completed(u)
    BY ComputeAssumption DEF Completed, Outs, Outputs
  <2> QED BY <2>1, <2>2
<1>3. CASE ~Exec(u) /\ ~ExecEnd(u)
  BY <1>3, OwnSteps
<1> QED BY <1>1, <1>2, <1>3

(* Each step keeps OwnInv: the only command that can undo a write comes    *)
(* before the last one.                                                    *)
LEMMA OwnNext ==
  ASSUME TypeOK, TypeOK', ListedInv, NEW w \in Nat, MakesProduct(w), OwnInv(w), [Next]_vars
  PROVE  OwnInv(w)'
<1> DEFINE At == {"exec", "wait", "stop", "verdict"}
           Knows(t) == /\ Writing(t) => product[this_input[t]] = "partial"
                       /\ ~Writing(t) /\ Len(codes[t]) >= w /\ WritesWell(t)
                            => product[this_input[t]] = "whole"
<1> SUFFICES ASSUME NEW t \in Tasks, Alone(t)', pc'[t] \in At
             PROVE  Knows(t)'
  BY DEF OwnInv
<1>1. w \in 1 .. L /\ Commands[w] = "write" /\ \A i \in w .. L : Commands[i] # "clear"
  BY DEF MakesProduct
<1>2. L \in Nat \ {0} /\ codes[t] \in Seq({0, 1}) /\ Len(codes[t]) \in Nat
  BY Constants DEF TypeOK
<1>3. Alone(t) /\ pc[t] \in At => Knows(t)
  BY DEF OwnInv
<1> HIDE DEF Knows
<1>4. ASSUME pc[t] \in At \cup {"run"}
      PROVE  Alone(t) /\ this_input[t] \in Inputs /\ this_input'[t] = this_input[t]
             /\ \A u \in Tasks \ {t} : this_input[u] # this_input[t]
  <2>1. this_input[t] \in Inputs /\ this_input[t] # NoInput
    BY <1>4 DEF TypeOK, Ended
  <2>2. \A u \in Tasks : this_input[u] # NoInput => this_input'[u] = this_input[u]
    BY InputKept
  <2>3. ASSUME NEW u \in Tasks \ {t}, this_input[u] = this_input[t] PROVE FALSE
    BY <2>1, <2>2, <2>3 DEF Alone
  <2> QED BY <2>1, <2>2, <2>3 DEF Alone
<1>5. CASE Exec(t)
  <2>1. /\ pc[t] = "exec" /\ pc'[t] = "wait" /\ UNCHANGED <<codes, this_input>>
        /\ \A o \in Outputs : product'[o] = Started(t, o)
    BY <1>5 DEF Exec, Goto, TypeOK
  <2>2. Knows(t) /\ this_input[t] \in Outputs /\ this_input[t] \in Outs(t)
    BY <1>3, <1>4, <2>1, ComputeAssumption DEF Outputs, Outs
  <2>3. ~Writing(t) /\ WritesWell(t)' = WritesWell(t) /\ Command(t)' = Command(t)
    BY <2>1 DEF Writing, WritesWell, Command
  <2>4. CASE Command(t) = "write"
    <3>1. product'[this_input[t]] = "partial"
      BY <2>1, <2>2, <2>4 DEF Started
    <3> QED BY <2>1, <2>3, <2>4, <3>1 DEF Knows, Writing
  <2>5. CASE Command(t) = "clear"
    <3>1. Len(codes[t]) < w
      <4>1. Len(codes[t]) + 1 <= L
        BY <1>2, <2>1 DEF TypeOK
      <4> QED BY <1>1, <1>2, <2>5, <4>1 DEF Command
    <3> QED BY <1>1, <1>2, <2>1, <2>3, <2>5, <3>1 DEF Knows, Writing
  <2>6. CASE Command(t) \notin {"write", "clear"}
    <3>1. product'[this_input[t]] = product[this_input[t]]
      BY <2>1, <2>2, <2>6 DEF Started
    <3> QED BY <2>1, <2>2, <2>3, <2>6, <3>1 DEF Knows, Writing
  <2> QED BY <2>4, <2>5, <2>6
<1>6. CASE ExecEnd(t)
  <2>1. PICK code \in {0, 1} :
          /\ codes'[t] = Append(codes[t], code)
          /\ product' = [o \in Outputs |->
               IF code = 0 /\ o \in Completed(t) THEN "whole" ELSE product[o]]
          /\ pc'[t] \in {"exec", "stop"} /\ pc[t] = "wait" /\ UNCHANGED this_input
    BY <1>6, EndOfCommand
  <2>2. /\ Len(codes'[t]) = Len(codes[t]) + 1 /\ codes'[t][Len(codes[t]) + 1] = code
        /\ \A i \in 1 .. Len(codes[t]) : codes'[t][i] = codes[t][i]
    BY <2>1, <1>2, OneMore
  <2>3. /\ Knows(t) /\ this_input[t] \in Outputs
        /\ Writing(t) /\ product[this_input[t]] # "none" => this_input[t] \in Completed(t)
        /\ ~Writing(t) => Completed(t) = {}
    BY <1>3, <1>4, <2>1, ComputeAssumption DEF Outputs, Outs, Completed
  <2>4. ~Writing(t)'
    BY <2>1 DEF Writing
  <2>5. SUFFICES ASSUME Len(codes'[t]) >= w, WritesWell(t)'
                 PROVE  product'[this_input[t]] = "whole"
    BY <2>1, <2>4 DEF Knows
  <2>6. WritesWell(t) /\ (Command(t) = "write" => code = 0)
    <3>1. \A i \in 1 .. Len(codes[t]) + 1 : Commands[i] = "write" => codes'[t][i] = 0
      BY <2>2, <2>5 DEF WritesWell
    <3>2. Len(codes[t]) \in Nat
      BY <1>2
    <3>3. WritesWell(t)
      BY <2>2, <3>1, <3>2 DEF WritesWell
    <3>4. Command(t) = "write" => code = 0
      <4>1. Len(codes[t]) + 1 \in 1 .. Len(codes[t]) + 1
        BY <3>2
      <4> QED BY <2>2, <3>1, <4>1 DEF Command
    <3> QED BY <3>3, <3>4
  <2>7. CASE Command(t) = "write"
    <3>1. product[this_input[t]] = "partial" /\ code = 0 /\ Writing(t)
      BY <2>1, <2>3, <2>6, <2>7 DEF Knows, Writing
    <3>2. this_input[t] \in Completed(t) /\ this_input[t] \in Outputs
      BY <2>3, <3>1
    <3>3. product'[this_input[t]] =
            IF code = 0 /\ this_input[t] \in Completed(t) THEN "whole" ELSE product[this_input[t]]
      BY <2>1, <3>2
    <3> QED BY <3>1, <3>2, <3>3
  <2>8. CASE Command(t) # "write"
    <3>1. Len(codes[t]) + 1 # w
      BY <1>1, <2>8 DEF Command
    <3>2. Len(codes[t]) >= w
      BY <1>1, <1>2, <2>2, <2>5, <3>1
    <3>3. product[this_input[t]] = "whole"
      BY <2>3, <2>6, <2>8, <3>2 DEF Knows, Writing
    <3> QED BY <2>1, <2>3, <2>8, <3>3 DEF Writing
  <2> QED BY <2>7, <2>8
<1>7. CASE container_dispatch(t) /\ ~Exec(t) /\ ~ExecEnd(t)
  <2>1. /\ UNCHANGED <<codes, product>> /\ pc'[t] \in {"exec", "verdict"}
        /\ pc'[t] = "exec" => pc[t] = "run"
        /\ pc'[t] = "verdict" => pc[t] = "stop"
    BY <1>7, OwnSteps
  <2>2. pc[t] \in {"run", "stop"} /\ this_input'[t] = this_input[t] /\ ~Writing(t)'
    BY <1>4, <2>1 DEF Writing
  <2>3. CASE pc[t] = "run"
    <3>1. codes[t] = <<>>
      BY <2>3 DEF TypeOK
    <3> QED BY <1>1, <2>1, <2>2, <3>1 DEF Knows
  <2>4. CASE pc[t] = "stop"
    <3>1. Knows(t) /\ ~Writing(t)
      BY <1>3, <1>4, <2>4 DEF Writing
    <3> QED BY <2>1, <2>2, <3>1 DEF Knows, WritesWell
  <2> QED BY <2>2, <2>3, <2>4
<1>8. CASE ~container_dispatch(t)
  <2>1. pc'[t] = pc[t] /\ codes'[t] = codes[t]
    <3>1. ASSUME NEW u \in Tasks, container_dispatch(u) PROVE pc'[t] = pc[t] /\ codes'[t] = codes[t]
      BY <1>8, <3>1, TaskAlone
    <3> QED BY <3>1 DEF Next, vars, docker
  <2>2. Knows(t) /\ this_input[t] \in Inputs /\ this_input'[t] = this_input[t]
    BY <1>3, <1>4, <2>1
  <2>3. product'[this_input[t]] = product[this_input[t]]
    <3>1. ASSUME NEW u \in Tasks, container_dispatch(u)
          PROVE  product'[this_input[t]] = product[this_input[t]]
      <4>1. this_input[u] # this_input[t]
        BY <1>4, <1>8, <2>1, <3>1
      <4> QED BY <2>2, <3>1, <4>1, ProductAlone
    <3> QED BY <3>1 DEF Next, vars, docker
  <2> QED BY <2>1, <2>2, <2>3 DEF Knows, Writing, WritesWell, Command
<1> QED BY <1>5, <1>6, <1>7, <1>8

(* When a task registers, its own product is complete.                     *)
LEMMA OwnStep ==
  ASSUME TypeOK, CodesInv, WritesCount, NEW w \in Nat, MakesProduct(w), OwnInv(w), [Next]_vars,
         NEW t \in Tasks, pc[t] = "verdict", pc'[t] = "registered", Alone(t), ~Strayed(t)
  PROVE  product[this_input[t]] = "whole"
<1>1. Register(t)
  <2>1. ASSUME NEW u \in Tasks \ {t}, container_dispatch(u) PROVE FALSE
    BY <2>1, TaskAlone
  <2>2. container_dispatch(t)
    BY <2>1 DEF Next, vars
  <2> QED BY <2>2 DEF container_dispatch, Query, Stamp, NoInputFound, Paths, Run, Exec, ExecEnd, Stop,
       StopFails, Reject, Raise, Goto, TypeOK
<1>2. Succeeded(t)
  BY <1>1, ErrorsRight DEF CodesInv, Register
<1>3. Len(codes[t]) >= w /\ WritesWell(t)
  BY <1>2, WriteCounts DEF CodesInv, MakesProduct
<1>4. ~Writing(t)
  BY DEF Writing
<1> QED BY <1>3, <1>4 DEF OwnInv

(* When a task registers, the product of its input is complete, unless     *)
(* another task has the same input or an index outside of -1 .. L-1        *)
(* excused a failure: whatever the other commands are, if one whose exit   *)
(* code counts makes the product and none after it removes it.             *)
THEOREM OwnProductIsWhole ==
  ASSUME WritesCount, NEW w \in Nat, MakesProduct(w)
  PROVE  Spec => OwnProductWhole
<1>1. Init => OwnInv(w)
  BY DEF Init, OwnInv
<1>2. TypeOK /\ TypeOK' /\ ListedInv /\ OwnInv(w) /\ [Next]_vars => OwnInv(w)'
  BY OwnNext
<1>3. TypeOK /\ CodesInv /\ OwnInv(w) /\ [Next]_vars
        => [\A t \in Tasks : pc[t] = "verdict" /\ pc'[t] = "registered" =>
              \/ product[this_input[t]] = "whole" \/ Strayed(t)
              \/ \E u \in Tasks \ {t} : this_input[u] = this_input[t]]_vars
  BY OwnStep DEF Alone
<1> QED BY <1>1, <1>2, <1>3, TypeCorrect, CodesInvariant, PartialInvariant, PTL DEF Spec, OwnProductWhole
=============================================================================
