------------------------ MODULE StorageTieringProofs ------------------------
(***************************************************************************)
(* Theorems about StorageTiering for every set of objects, resources,      *)
(* groups, sweeps and rule slots.                                          *)
(***************************************************************************)
EXTENDS StorageTiering, TLAPS

(* Finishing a migration resets the three variables of its mover.          *)
LEMMA FinishType ==
  ASSUME TypeOK, NEW m \in Movers, Finish(m)
  PROVE  /\ pc' \in [Movers -> {"idle", "queued", "read", "repl", "check", "unlink"}]
         /\ task' \in [Movers -> Task \cup {NoTask}]
         /\ \A k \in Movers : (pc'[k] = "idle") <=> (task'[k] = NoTask)
         /\ num' \in [Movers -> Nat \cup {NoNum}]
         /\ look' \in [Movers -> SUBSET Leaves]
         /\ \A k \in Movers : (pc'[k] \in {"read", "check"}) <=> (look'[k] # {})
         /\ \A k \in Movers : pc[k] = "idle" => pc'[k] = "idle"
  BY DEF TypeOK, Finish

(* A sweep that reads rows is at a tier that has a next one.               *)
LEMMA TierResources ==
  ASSUME NEW g \in Groups, NEW i \in Nat, 1 <= i, i < Len(Tiers[g])
  PROVE  Tiers[g][i] \in Resources /\ Tiers[g][i + 1] \in Resources
<1>1. Tiers[g] \in Seq(Resources)
  BY ConstantsAssumption
<1> QED BY <1>1

(* Stopping a sweep resets its cursor.                                     *)
LEMMA StopType ==
  ASSUME TypeOK, NEW s \in Sweeps, Stop(s)
  PROVE  /\ at' \in [Sweeps -> {"idle", "tier", "leaves", "rows"}]
         /\ todo' \in [Sweeps -> SUBSET Groups]
         /\ group' \in [Sweeps -> Groups]
         /\ idx' \in [Sweeps -> Nat]
         /\ leaves' \in [Sweeps -> SUBSET Leaves]
         /\ rows' \in [Sweeps -> SUBSET Objects]
         /\ offset' \in [Sweeps -> Nat \cup {NoTime}]
         /\ at'[s] = "idle"
         /\ \A t \in Sweeps \ {s} : at'[t] = at[t] /\ idx'[t] = idx[t] /\ group'[t] = group[t]
<1>1. SomeGroup \in Groups
  BY ConstantsAssumption DEF SomeGroup
<1> QED BY <1>1 DEF TypeOK, Stop

(* Setting the access time, or failing to, keeps the types of what it      *)
(* writes.                                                                 *)
LEMMA AccessTimeType ==
  ASSUME TypeOK, NEW o \in Objects, UpdateAccessTime(o)
  PROVE  age' \in [Objects -> (0 .. MaxAge) \cup {NoTime}] /\ faults' \in 0 .. MaxFaults
<1>1. MaxAge \in Nat /\ MaxFaults \in Nat /\ faults \in 0 .. MaxFaults
      /\ age \in [Objects -> (0 .. MaxAge) \cup {NoTime}]
  BY ConstantsAssumption DEF TypeOK
<1>2. CASE msiset_avu(o)
  BY <1>1, <1>2 DEF msiset_avu
<1>3. CASE AccessTimeFails
  BY <1>1, <1>3 DEF AccessTimeFails, Fault
<1> QED BY <1>2, <1>3 DEF UpdateAccessTime

-----------------------------------------------------------------------------
(* Type correctness: every variable of the tiering policy keeps its type,  *)
(* and a sweep's cursor stays on a tier that has a successor.              *)
THEOREM TypeCorrect == Spec => []TypeOK
<1>1. Init => TypeOK
  <2>1. SomeGroup \in Groups
    BY ConstantsAssumption DEF SomeGroup
  <2>2. ASSUME Init PROVE TypeOK
    <3>1. replicas \in [Objects -> SUBSET Replica] /\ age \in [Objects -> (0 .. MaxAge) \cup {NoTime}]
      BY <2>2, ConstantsAssumption DEF Init
    <3> QED BY <2>1, <2>2, <3>1, ConstantsAssumption DEF Init, TypeOK, Movers
  <2> QED BY <2>2
<1>2. TypeOK /\ [Next]_vars => TypeOK'
  <2> SUFFICES ASSUME TypeOK, [Next]_vars PROVE TypeOK'
    OBVIOUS
  <2>1. ASSUME NEW o \in Objects, Put(o) \/ Overwrite(o) \/ Close(o) \/ GetNoRestage(o)
        PROVE  TypeOK'
    <3>1. CASE Put(o)
      BY <3>1, AccessTimeType, ConstantsAssumption DEF Put, TypeOK, Replica, migs, cursor
    <3>2. CASE Overwrite(o)
      <4>1. PICK x \in replicas[o] :
              replicas' = [replicas EXCEPT ![o] =
                {[num |-> y.num, leaf |-> y.leaf, good |-> (y = x)] : y \in @}]
        BY <3>2 DEF Overwrite
      <4>2. ASSUME NEW y \in replicas[o], NEW b \in BOOLEAN
            PROVE  [num |-> y.num, leaf |-> y.leaf, good |-> b] \in Replica
        BY DEF TypeOK, Replica
      <4>3. \A y \in replicas[o] : [num |-> y.num, leaf |-> y.leaf, good |-> (y = x)] \in Replica
        <5> TAKE y \in replicas[o]
        <5>1. (y = x) \in BOOLEAN
          OBVIOUS
        <5> QED BY <4>2, <5>1
      <4>4. replicas' \in [Objects -> SUBSET Replica]
        BY <4>1, <4>3 DEF TypeOK
      <4> QED BY <3>2, <4>4, AccessTimeType DEF Overwrite, TypeOK, migs, cursor
    <3>3. CASE Close(o)
      BY <3>3, AccessTimeType DEF Close, TypeOK, migs, cursor
    <3>4. CASE GetNoRestage(o)
      <4>1. UpdateAccessTime(o) /\ gets' \in 0 .. MaxGets
        BY <3>4, ConstantsAssumption DEF GetNoRestage, UpdateAccessTime, TypeOK
      <4>2. UNCHANGED <<replicas, migs, cursor>>
        BY <3>4 DEF GetNoRestage
      <4> QED BY <4>1, <4>2, AccessTimeType DEF TypeOK, migs, cursor
    <3> QED BY <2>1, <3>1, <3>2, <3>3, <3>4
  <2>2. ASSUME NEW o \in Objects, NEW d \in Rules, Get(o, d) PROVE TypeOK'
    <3>1. PICK x \in replicas[o] : \E g \in GroupsOf(x.leaf) :
            task' = [task EXCEPT ![d] = RestageTask(o, x, g)]
      BY <2>2 DEF Get
    <3>0. PICK g \in GroupsOf(x.leaf) :
            task' = [task EXCEPT ![d] = RestageTask(o, x, g)]
      BY <3>1
    <3>2. x.leaf \in Resources /\ Tiers[g][1] \in Resources
      <4>1. Tiers[g] \in Seq(Resources) /\ Tiers[g] # << >> /\ x.leaf \in Leaves
        BY ConstantsAssumption DEF TypeOK, Replica, GroupsOf, migs, cursor, counts
      <4> QED BY <4>1, ConstantsAssumption
    <3>3. d \in Movers /\ d \notin Sweeps
      BY ConstantsAssumption DEF Movers
    <3>4. RestageTask(o, x, g) \in Task
      BY <3>2 DEF Task, RestageTask
    <3> QED BY <2>2, <3>0, <3>3, <3>4, ConstantsAssumption DEF msiset_avu, Get, TypeOK, migs, cursor, counts
  <2>3. CASE Tick
    BY <2>3, ConstantsAssumption DEF Tick, TypeOK, migs, cursor, counts
  <2>4. ASSUME NEW m \in Movers, Migrate(m) PROVE TypeOK'
    <3>0. ASSUME StartCheck(m), pc[m] # "idle"
          PROVE  /\ pc' \in [Movers -> {"idle", "queued", "read", "repl", "check", "unlink"}]
                 /\ look' \in [Movers -> SUBSET Leaves]
                 /\ \A k \in Movers : (pc'[k] \in {"read", "check"}) <=> (look'[k] # {})
                 /\ \A k \in Movers : (pc'[k] = "idle") <=> (pc[k] = "idle")
      <4>1. task[m].dst \in Resources
        BY <3>0 DEF TypeOK, Task
      <4>2. LeavesOf[task[m].dst] \in SUBSET Leaves /\ LeavesOf[task[m].dst] # {}
        BY <4>1, ConstantsAssumption
      <4> QED BY <3>0, <4>2 DEF StartCheck, TypeOK
    <3>1. CASE ReadNum(m)
      <4>1. PICK l \in look[m] :
              /\ \E n \in NumbersRead(task[m].obj, l, num[m]) : num' = [num EXCEPT ![m] = n]
              /\ look' = [look EXCEPT ![m] = @ \ {l}]
              /\ pc' = [pc EXCEPT ![m] = IF look[m] = {l} THEN "repl" ELSE "read"]
        BY <3>1 DEF ReadNum
      <4>2. NumbersRead(task[m].obj, l, num[m]) \subseteq Nat \cup {NoNum}
        BY <3>1 DEF ReadNum, NumbersRead, TypeOK, At, Replica, Task
      <4>3. num' \in [Movers -> Nat \cup {NoNum}]
        BY <4>1, <4>2 DEF TypeOK
      <4>4. look[m] \ {l} = {} <=> look[m] = {l}
        BY <4>1
      <4>5. /\ look' \in [Movers -> SUBSET Leaves]
            /\ \A k \in Movers : (pc'[k] \in {"read", "check"}) <=> (look'[k] # {})
        BY <3>1, <4>1, <4>4 DEF TypeOK
      <4> QED BY <3>1, <4>1, <4>3, <4>5 DEF ReadNum, TypeOK, cursor, counts
    <3>2. CASE ReplNew(m)
      <4>1. task[m].obj \in Objects /\ task[m].dst \in Resources
        BY <3>2 DEF ReplNew, TypeOK, Task, migs, cursor, counts
      <4>2. PICK l \in LeavesOf[task[m].dst], top \in replicas[task[m].obj] :
              replicas' = [replicas EXCEPT ![task[m].obj] =
                             @ \cup {[num |-> top.num + 1, leaf |-> l, good |-> TRUE]}]
        BY <3>2 DEF ReplNew
      <4>3. [num |-> top.num + 1, leaf |-> l, good |-> TRUE] \in Replica
        BY <4>1, ConstantsAssumption DEF TypeOK, Replica
      <4>4. replicas' \in [Objects -> SUBSET Replica]
        <5>1. replicas \in [Objects -> SUBSET Replica]
          BY DEF TypeOK
        <5>2. replicas[task[m].obj] \cup {[num |-> top.num + 1, leaf |-> l, good |-> TRUE]}
                \in SUBSET Replica
          BY <4>1, <4>3, <5>1
        <5> QED BY <4>2, <5>1, <5>2
      <4>5. StartCheck(m) /\ pc[m] # "idle" /\ UNCHANGED <<age, task, num, cursor, counts>>
        BY <3>2 DEF ReplNew
      <4>6. \A k \in Movers : (pc'[k] = "idle") <=> (pc[k] = "idle")
        BY <3>0, <4>5
      <4>7. \A s \in Sweeps : at'[s] # "rows" => pc'[s] = "idle"
        BY <4>5, <4>6 DEF TypeOK, Movers, cursor
      <4> QED BY <3>0, <4>4, <4>5, <4>6, <4>7 DEF TypeOK, cursor, counts
    <3>3. CASE ReplStale(m)
      <4>1. task[m].obj \in Objects /\ task[m].dst \in Resources
        BY <3>3 DEF ReplStale, TypeOK, Task, migs, cursor, counts
      <4>2. PICK x \in replicas[task[m].obj] :
              replicas' = [replicas EXCEPT ![task[m].obj] =
                             (@ \ {x}) \cup {[num |-> x.num, leaf |-> x.leaf, good |-> TRUE]}]
        BY <3>3 DEF ReplStale, On
      <4>3. [num |-> x.num, leaf |-> x.leaf, good |-> TRUE] \in Replica
        BY <4>1 DEF TypeOK, Replica
      <4>4. replicas' \in [Objects -> SUBSET Replica]
        BY <4>1, <4>2, <4>3 DEF TypeOK
      <4> QED BY <3>0, <3>3, <4>4 DEF ReplStale, TypeOK, Movers, cursor, counts
    <3>4. CASE ReplNoop(m)
      BY <3>0, <3>4 DEF ReplNoop, TypeOK, Movers, cursor, counts
    <3>5. CASE ReplRefused(m) \/ ReplFault(m) \/ CheckFails(m) \/ UnlinkRefused(m) \/ UnlinkFault(m)
      <4>1. /\ Finish(m)
            /\ UNCHANGED <<replicas, age, cursor, gets>>
            /\ faults' \in 0 .. MaxFaults
        BY <3>5, ConstantsAssumption DEF ReplRefused, ReplFault, CheckFails, UnlinkRefused, UnlinkFault, Fault, TypeOK, migs, cursor, counts
      <4> QED BY <4>1, FinishType DEF TypeOK, Movers, migs, cursor, counts
    <3>6. CASE CheckOk(m)
      BY <3>6 DEF CheckOk, TypeOK, cursor, counts
    <3>8. CASE CheckNext(m)
      <4>1. PICK l \in look[m] : look[m] # {l} /\ look' = [look EXCEPT ![m] = @ \ {l}]
        BY <3>8 DEF CheckNext
      <4>2. look[m] \ {l} # {}
        BY <4>1
      <4> QED BY <3>8, <4>1, <4>2 DEF CheckNext, TypeOK, cursor, counts
    <3>7. CASE Unlink(m)
      <4>1. replicas' \in [Objects -> SUBSET Replica]
        BY <3>7 DEF Unlink, TypeOK, migs, cursor, counts
      <4>2. Finish(m) /\ UNCHANGED <<age, cursor, counts>>
        BY <3>7 DEF Unlink
      <4> QED BY <4>1, <4>2, FinishType DEF TypeOK, Movers, migs, cursor, counts
    <3> QED BY <2>4, <3>1, <3>2, <3>3, <3>4, <3>5, <3>6, <3>7, <3>8 DEF Migrate
  <2>5. ASSUME NEW s \in Sweeps, SweepStep(s) PROVE TypeOK'
    <3> s \in Movers BY DEF Movers
    <3>1. CASE Launch(s)
      BY <3>1 DEF Launch, TypeOK, migs, counts
    <3>2. CASE NextGroup(s)
      BY <3>2 DEF NextGroup, TypeOK, migs, counts
    <3>3. CASE SweepDone(s) \/ NoOffset(s)
      <4>1. Stop(s) /\ UNCHANGED <<replicas, age, migs, counts>> /\ pc[s] = "idle"
        BY <3>3 DEF SweepDone, NoOffset, TypeOK
      <4> QED BY <4>1, StopType DEF TypeOK, migs, counts
    <3>4. CASE EnterTier(s) \/ EnterTierByQuery(s)
      <4>0. idx[s] < Len(Tiers[group[s]])
        <5>1. Tiers[group[s]] \in Seq(Resources)
          BY ConstantsAssumption DEF TypeOK
        <5> QED BY <3>4, <5>1 DEF EnterTier, EnterTierByQuery, LastTier, TypeOK
      <4>1. SrcOf(s) \in Resources
        <5>1. group[s] \in Groups /\ idx[s] \in Nat /\ 1 <= idx[s]
          BY <3>4 DEF EnterTier, EnterTierByQuery, TypeOK
        <5> QED BY <5>1, <4>0, TierResources DEF SrcOf
      <4>2. OffsetFor(SrcOf(s), offset[s]) \in Nat \cup {NoTime}
        BY <4>1, ConstantsAssumption DEF OffsetFor, TypeOK
      <4>3. LeavesOf[SrcOf(s)] \in SUBSET Leaves
        BY <4>1, ConstantsAssumption
      <4>4. Violating(QueryOf[SrcOf(s)], OffsetFor(SrcOf(s), offset[s])) \in SUBSET Objects
        BY DEF Violating
      <4>6. CASE EnterTier(s)
        BY <4>6, <4>2, <4>3, <4>0 DEF EnterTier, TypeOK, migs, counts
      <4>7. CASE EnterTierByQuery(s)
        BY <4>7, <4>2, <4>4, <4>0 DEF EnterTierByQuery, TypeOK, migs, counts
      <4> QED BY <3>4, <4>6, <4>7
    <3>6. CASE QueryLeaf(s)
      <4>1. \A ls, off : Violating(ls, off) \in SUBSET Objects
        BY DEF Violating
      <4> QED BY <3>6, <4>1 DEF QueryLeaf, TypeOK, migs, counts
    <3>7. CASE NextTier(s)
      BY <3>7 DEF NextTier, TypeOK, migs, counts
    <3>8. CASE TakeRow(s)
      <4>1. SrcOf(s) \in Resources /\ DstOf(s) \in Resources
        BY <3>8, TierResources DEF TakeRow, SrcOf, DstOf, TypeOK
      <4>2. PICK o \in rows[s] :
              /\ rows' = [rows EXCEPT ![s] = @ \ {o}]
              /\ task' = [task EXCEPT ![s] = [obj |-> o, src |-> SrcOf(s), dst |-> DstOf(s)]]
        BY <3>8 DEF TakeRow
      <4>3. [obj |-> o, src |-> SrcOf(s), dst |-> DstOf(s)] \in Task
        BY <4>1 DEF Task, TypeOK
      <4>4. LeavesOf[SrcOf(s)] \in SUBSET Leaves /\ LeavesOf[SrcOf(s)] # {}
        BY <4>1, ConstantsAssumption
      <4> QED BY <3>8, <4>2, <4>3, <4>4, ConstantsAssumption DEF TakeRow, TypeOK, counts
    <3>9. CASE RowsDone(s)
      BY <3>9 DEF RowsDone, TypeOK, migs, counts
    <3> QED BY <2>5, <3>1, <3>2, <3>3, <3>4, <3>6, <3>7, <3>8, <3>9 DEF SweepStep
  <2>6. ASSUME NEW s \in Sweeps, CrashSweep(s) PROVE TypeOK'
    <3>1. s \in Movers BY DEF Movers
    <3>2. /\ Finish(s) /\ Stop(s) /\ UNCHANGED <<replicas, age, gets>>
          /\ faults' \in 0 .. MaxFaults
      BY <2>6, ConstantsAssumption DEF CrashSweep, Fault, TypeOK
    <3>3. pc'[s] = "idle"
      BY <3>1, <3>2 DEF Finish, TypeOK
    <3>4. ASSUME NEW t \in Sweeps
          PROVE  /\ at'[t] # "idle" => idx'[t] >= 1
                 /\ at'[t] \in {"leaves", "rows"} => idx'[t] < Len(Tiers[group'[t]])
                 /\ at'[t] # "rows" => pc'[t] = "idle"
      <4>1. t \in Movers BY DEF Movers
      <4>2. CASE t = s
        BY <3>2, <3>3, <4>2, StopType
      <4>3. CASE t # s
        BY <3>1, <3>2, <4>1, <4>3, FinishType, StopType DEF TypeOK
      <4> QED BY <4>2, <4>3
    <3>5. /\ pc' \in [Movers -> {"idle", "queued", "read", "repl", "check", "unlink"}]
          /\ task' \in [Movers -> Task \cup {NoTask}]
          /\ \A k \in Movers : (pc'[k] = "idle") <=> (task'[k] = NoTask)
          /\ num' \in [Movers -> Nat \cup {NoNum}]
          /\ look' \in [Movers -> SUBSET Leaves]
          /\ \A k \in Movers : (pc'[k] \in {"read", "check"}) <=> (look'[k] # {})
      BY <3>1, <3>2, FinishType
    <3> QED BY <3>2, <3>4, <3>5, StopType DEF TypeOK
  <2>7. ASSUME NEW d \in Rules, StartRule(d) \/ CrashRule(d) PROVE TypeOK'
    <3>1. d \in Movers /\ d \notin Sweeps
      BY ConstantsAssumption DEF Movers
    <3>2. CASE StartRule(d)
      <4>1. task[d].src \in Resources
        BY <3>1, <3>2 DEF StartRule, TypeOK, Task
      <4>2. LeavesOf[task[d].src] \in SUBSET Leaves /\ LeavesOf[task[d].src] # {}
        BY <4>1, ConstantsAssumption
      <4> QED BY <3>1, <3>2, <4>2 DEF StartRule, TypeOK, cursor, counts
    <3>3. CASE CrashRule(d)
      <4>1. faults' \in 0 .. MaxFaults
        BY <3>3, ConstantsAssumption DEF CrashRule, Fault, TypeOK
      <4> QED BY <3>1, <3>3, <4>1 DEF CrashRule, TypeOK, cursor
    <3> QED BY <2>7, <3>2, <3>3
  <2>8. CASE UNCHANGED vars
    BY <2>8 DEF vars, migs, cursor, counts, TypeOK
  <2> QED BY <2>1, <2>2, <2>3, <2>4, <2>5, <2>6, <2>7, <2>8 DEF Next, Client
<1> QED BY <1>1, <1>2, PTL DEF Spec

-----------------------------------------------------------------------------
(* The safety theorems hold where msiDataObjRepl refuses to replicate onto *)
(* a good replica and clients do not overwrite objects; without either TLC *)
(* finds the object lost or stale.                                         *)
Cautious == "ok" \notin ReplOnGoodCopy /\ ~MayOverwrite

(* The three ways in which the catalog changes.                            *)
PutStep ==
  \E o \in Objects, l \in PutLeaves :
    /\ replicas[o] = {}
    /\ replicas' = [replicas EXCEPT ![o] = {[num |-> 0, leaf |-> l, good |-> TRUE]}]
CopyStep ==
  \E o \in Objects, l \in Leaves : \E top \in replicas[o] :
    /\ IsTop(o, top) /\ At(o, l) = {}
    /\ replicas' = [replicas EXCEPT
                      ![o] = @ \cup {[num |-> top.num + 1, leaf |-> l, good |-> TRUE]}]
TrimStep ==
  \E o \in Objects : \E gone \in SUBSET replicas[o] :
    /\ \A x \in gone : ~IsTop(o, x)
    /\ replicas' = [replicas EXCEPT ![o] = @ \ gone]

(* Every step of the specification changes the catalog in one of these     *)
(* ways or not at all.                                                     *)
LEMMA CatalogSteps ==
  ASSUME Cautious, TypeOK, TopSafe, [Next]_vars
  PROVE  UNCHANGED replicas \/ PutStep \/ CopyStep \/ TrimStep
<1>1. ASSUME NEW o \in Objects, Put(o) \/ Overwrite(o) \/ Close(o) \/ GetNoRestage(o)
      PROVE  UNCHANGED replicas \/ PutStep
  BY <1>1, ConstantsAssumption DEF Put, Overwrite, Close, GetNoRestage, PutStep, Cautious
<1>2. ASSUME NEW m \in Movers, ReplNew(m) PROVE CopyStep
  <2>1. task[m].obj \in Objects /\ LeavesOf[task[m].dst] \subseteq Leaves
    BY <1>2, ConstantsAssumption DEF ReplNew, TypeOK, Task
  <2> QED BY <1>2, <2>1 DEF ReplNew, CopyStep, IsTop
<1>3. ASSUME NEW m \in Movers, ReplStale(m) PROVE FALSE
  <2>1. task[m].obj \in Objects
    BY <1>3 DEF ReplStale, TypeOK, Task
  <2> QED BY <1>3, <2>1 DEF ReplStale, TopSafe, AllGood, On
<1>4. ASSUME NEW m \in Movers, Unlink(m) PROVE TrimStep
  <2> DEFINE o == task[m].obj
             gone == Numbered(o, num[m])
  <2>1. o \in Objects
    BY <1>4 DEF Unlink, TypeOK, Task
  <2>2. gone \in SUBSET replicas[o] /\ replicas' = [replicas EXCEPT ![o] = @ \ gone]
    BY <1>4 DEF Unlink, Numbered
  <2>3. ASSUME NEW x \in gone, IsTop(o, x) PROVE FALSE
    <3>1. num[m] < x.num /\ 0 < x.num
      BY <1>4, <2>2, <2>3 DEF Unlink, TopSafe, BelowTop
    <3>2. x.num = num[m] \/ x.num = 0
      BY <2>3 DEF Numbered
    <3>3. x.num \in Nat /\ num[m] \in Int
      BY <2>1, <2>2 DEF TypeOK, Replica, NoNum
    <3> QED BY <3>1, <3>2, <3>3
  <2> QED BY <2>1, <2>2, <2>3 DEF TrimStep
<1>5. ASSUME NEW m \in Movers, Migrate(m)
      PROVE  UNCHANGED replicas \/ CopyStep \/ TrimStep
  BY <1>2, <1>3, <1>4, <1>5 DEF Migrate, ReadNum, ReplNoop, ReplRefused, ReplFault,
     CheckOk, CheckNext, CheckFails, UnlinkRefused, UnlinkFault
<1>6. ASSUME NEW s \in Sweeps, SweepStep(s) \/ CrashSweep(s) PROVE UNCHANGED replicas
  BY <1>6 DEF SweepStep, CrashSweep, Launch, NextGroup, SweepDone, NoOffset, EnterTier,
     EnterTierByQuery, QueryLeaf, NextTier, TakeRow, RowsDone
<1>7. ASSUME NEW d \in Rules, StartRule(d) \/ CrashRule(d) PROVE UNCHANGED replicas
  BY <1>7 DEF StartRule, CrashRule
<1>8. ASSUME NEW o \in Objects, NEW d \in Rules, Get(o, d) PROVE UNCHANGED replicas
  BY <1>8 DEF Get
<1> QED BY <1>1, <1>5, <1>6, <1>7, <1>8 DEF Next, Client, Tick, vars

(* What such a change keeps: all replicas good, a replica with the highest *)
(* number, at least one replica, and a highest number that only grows.     *)
LEMMA CatalogKept ==
  ASSUME TypeOK, AllGood, HasTop,
         UNCHANGED replicas \/ PutStep \/ CopyStep \/ TrimStep
  PROVE  /\ AllGood' /\ HasTop'
         /\ \A o \in Objects : replicas[o] # {} =>
              /\ replicas'[o] # {}
              /\ \A x \in replicas[o], y \in replicas'[o] :
                   IsTop(o, x) /\ IsTop(o, y)' => x.num <= y.num
<1>1. CASE UNCHANGED replicas
  BY <1>1 DEF AllGood, HasTop, IsTop, TypeOK, Replica
<1>2. CASE PutStep
  <2>1. PICK o \in Objects, l \in PutLeaves :
          /\ replicas[o] = {}
          /\ replicas' = [replicas EXCEPT ![o] = {[num |-> 0, leaf |-> l, good |-> TRUE]}]
    BY <1>2 DEF PutStep
  <2> DEFINE first == [num |-> 0, leaf |-> l, good |-> TRUE]
  <2>2. replicas'[o] = {first} /\ \A p \in Objects \ {o} : replicas'[p] = replicas[p]
    BY <2>1 DEF TypeOK
  <2>3. first.good /\ IsTop(o, first)'
    BY <2>2 DEF IsTop
  <2>4. AllGood' /\ HasTop'
    BY <2>2, <2>3 DEF AllGood, HasTop, IsTop
  <2>5. \A p \in Objects : replicas[p] # {} => replicas'[p] = replicas[p]
    BY <2>1, <2>2
  <2>6. \A p \in Objects : \A x \in replicas[p], y \in replicas'[p] :
          IsTop(p, x) /\ IsTop(p, y)' => x.num <= y.num
    BY <2>5 DEF IsTop
  <2> QED BY <2>4, <2>5, <2>6
<1>3. CASE CopyStep
  <2>0. PICK o \in Objects, l \in Leaves : \E top \in replicas[o] :
          /\ IsTop(o, top)
          /\ replicas' = [replicas EXCEPT
                            ![o] = @ \cup {[num |-> top.num + 1, leaf |-> l, good |-> TRUE]}]
    BY <1>3 DEF CopyStep
  <2>1. PICK top \in replicas[o] :
          /\ IsTop(o, top)
          /\ replicas' = [replicas EXCEPT
                            ![o] = @ \cup {[num |-> top.num + 1, leaf |-> l, good |-> TRUE]}]
    BY <2>0
  <2> DEFINE new == [num |-> top.num + 1, leaf |-> l, good |-> TRUE]
  <2>2. top.num \in Nat /\ \A x \in replicas[o] : x.num \in Nat /\ x.num < new.num
    BY <2>1 DEF IsTop, TypeOK, Replica
  <2>3. replicas'[o] = replicas[o] \cup {new} /\ \A p \in Objects \ {o} : replicas'[p] = replicas[p]
    BY <2>1 DEF TypeOK
  <2>4. IsTop(o, new)'
    BY <2>2, <2>3 DEF IsTop
  <2>5. AllGood' /\ HasTop'
    BY <2>3, <2>4 DEF AllGood, HasTop, IsTop
  <2>6. ASSUME NEW x \in replicas[o], NEW y \in replicas'[o], IsTop(o, y)' PROVE x.num <= y.num
    BY <2>3, <2>6 DEF IsTop
  <2>7. ASSUME NEW p \in Objects \ {o}, NEW x \in replicas[p], NEW y \in replicas'[p], IsTop(p, y)'
        PROVE  x.num <= y.num
    BY <2>3, <2>7 DEF IsTop
  <2> QED BY <2>3, <2>5, <2>6, <2>7
<1>4. CASE TrimStep
  <2>0. PICK o \in Objects : \E gone \in SUBSET replicas[o] :
          /\ \A x \in gone : ~IsTop(o, x)
          /\ replicas' = [replicas EXCEPT ![o] = @ \ gone]
    BY <1>4 DEF TrimStep
  <2>1. PICK gone \in SUBSET replicas[o] :
          /\ \A x \in gone : ~IsTop(o, x)
          /\ replicas' = [replicas EXCEPT ![o] = @ \ gone]
    BY <2>0
  <2>2. replicas'[o] = replicas[o] \ gone /\ \A p \in Objects \ {o} : replicas'[p] = replicas[p]
    BY <2>1 DEF TypeOK
  <2>3. \A p \in Objects : \A x \in replicas[p] : IsTop(p, x) => IsTop(p, x)'
    BY <2>1, <2>2 DEF IsTop
  <2>4. AllGood' /\ HasTop' /\ \A p \in Objects : replicas[p] # {} => replicas'[p] # {}
    BY <2>2, <2>3 DEF AllGood, HasTop, IsTop
  <2>5. ASSUME NEW p \in Objects, NEW x \in replicas[p], NEW y \in replicas'[p],
               IsTop(p, x), IsTop(p, y)'
        PROVE  x.num <= y.num
    BY <2>3, <2>5 DEF IsTop
  <2> QED BY <2>4, <2>5
<1> QED BY <1>1, <1>2, <1>3, <1>4

-----------------------------------------------------------------------------
(* A mover stays where it was in this step, has begun or ended without a   *)
(* number, or has just read one, made the copy or found it.                *)
LEMMA MoverSteps ==
  ASSUME Cautious, TypeOK, AllGood, Unread, [Next]_vars, NEW k \in Movers
  PROVE  \/ pc'[k] = pc[k] /\ task'[k] = task[k] /\ num'[k] = num[k]
         \/ num'[k] = NoNum /\ pc'[k] \notin {"check", "unlink"}
         \/ ReadNum(k) \/ ReplNew(k) \/ CheckOk(k)
<1> DEFINE Same == pc'[k] = pc[k] /\ task'[k] = task[k] /\ num'[k] = num[k]
           Bare == num'[k] = NoNum /\ pc'[k] \notin {"check", "unlink"}
<1>1. ASSUME NEW o \in Objects,
             \/ Put(o) \/ Overwrite(o) \/ Close(o) \/ GetNoRestage(o)
             \/ \E d \in Rules : Get(o, d)
      PROVE  Same \/ Bare
  <2>1. CASE Put(o) \/ Overwrite(o) \/ Close(o) \/ GetNoRestage(o)
    BY <2>1 DEF Put, Overwrite, Close, GetNoRestage, migs
  <2>2. ASSUME NEW d \in Rules, Get(o, d) PROVE Same \/ Bare
    <3>1. d \in Movers BY DEF Movers
    <3> QED BY <2>2, <3>1 DEF Get, TypeOK, Unread
  <2> QED BY <1>1, <2>1, <2>2
<1>2. ASSUME NEW m \in Movers, Migrate(m)
      PROVE  Same \/ Bare \/ ReadNum(k) \/ ReplNew(k) \/ CheckOk(k)
  <2>1. ~ReplStale(m)
    BY DEF ReplStale, AllGood, TypeOK, Task, On
  <2>2. ~ReplNoop(m)
    BY DEF ReplNoop, Cautious
  <2>3. CASE Finish(m)
    BY <2>3 DEF Finish, TypeOK
  <2>4. CASE m # k /\ (ReadNum(m) \/ ReplNew(m) \/ CheckOk(m))
    BY <2>4 DEF ReadNum, ReplNew, StartCheck, CheckOk, TypeOK
  <2>5. CASE CheckNext(m)
    BY <2>5 DEF CheckNext
  <2> QED BY <1>2, <2>1, <2>2, <2>3, <2>4, <2>5 DEF Migrate, ReplRefused, ReplFault, CheckFails,
          Unlink, UnlinkRefused, UnlinkFault
<1>3. ASSUME NEW s \in Sweeps, SweepStep(s) \/ CrashSweep(s) PROVE Same \/ Bare
  <2> s \in Movers BY DEF Movers
  <2>1. CASE TakeRow(s)
    BY <2>1 DEF TakeRow, TypeOK, Unread
  <2>2. CASE CrashSweep(s)
    BY <2>2 DEF CrashSweep, Finish, TypeOK
  <2> QED BY <1>3, <2>1, <2>2 DEF SweepStep, Launch, NextGroup, SweepDone, NoOffset,
          EnterTier, EnterTierByQuery, QueryLeaf, NextTier, RowsDone, migs
<1>4. ASSUME NEW d \in Rules, StartRule(d) \/ CrashRule(d) PROVE Same \/ Bare
  <2> d \in Movers BY DEF Movers
  <2> QED BY <1>4 DEF StartRule, CrashRule, TypeOK, Unread
<1> QED BY <1>1, <1>2, <1>3, <1>4 DEF Next, Client, Tick, vars, migs

(* A mover that is busy after a step was busy with the same object before, *)
(* or has just been given an object that is in the catalog.                *)
LEMMA TaskSteps ==
  ASSUME TypeOK, RowsHeld, [Next]_vars, NEW k \in Movers, pc'[k] # "idle"
  PROVE  \/ pc[k] # "idle" /\ task'[k] = task[k]
         \/ task'[k].obj \in Objects /\ replicas[task'[k].obj] # {}
<1> DEFINE Same == pc[k] # "idle" /\ task'[k] = task[k]
           Given == task'[k].obj \in Objects /\ replicas[task'[k].obj] # {}
<1>1. ASSUME NEW o \in Objects, Put(o) \/ Overwrite(o) \/ Close(o) \/ GetNoRestage(o) PROVE Same
  BY <1>1 DEF Put, Overwrite, Close, GetNoRestage, migs
<1>2. ASSUME NEW o \in Objects, NEW d \in Rules, Get(o, d) PROVE Same \/ Given
  <2>1. d \in Movers BY DEF Movers
  <2>2. CASE d = k
    <3>1. replicas[o] # {} /\ task'[d].obj = o
      BY <1>2, <2>1 DEF Get, RestageTask, TypeOK
    <3> QED BY <2>2, <3>1
  <2>3. CASE d # k
    BY <1>2, <2>1, <2>3 DEF Get, TypeOK
  <2> QED BY <2>2, <2>3
<1>3. ASSUME NEW m \in Movers, Migrate(m) PROVE Same
  <2>1. CASE Finish(m)
    BY <1>3, <2>1 DEF Finish, TypeOK
  <2> QED BY <1>3, <2>1 DEF Migrate, ReadNum, ReplNew, ReplStale, ReplNoop, StartCheck, ReplRefused,
          ReplFault, CheckOk, CheckNext, CheckFails, Unlink, UnlinkRefused, UnlinkFault, TypeOK
<1>4. ASSUME NEW s \in Sweeps, SweepStep(s) \/ CrashSweep(s) PROVE Same \/ Given
  <2> s \in Movers BY DEF Movers
  <2>1. CASE TakeRow(s)
    <3>1. CASE s = k
      <4>1. PICK o \in rows[s] : task'[s].obj = o
        BY <2>1 DEF TakeRow, TypeOK
      <4> QED BY <3>1, <4>1 DEF RowsHeld, TypeOK
    <3>2. CASE s # k
      BY <2>1, <3>2 DEF TakeRow, TypeOK
    <3> QED BY <3>1, <3>2
  <2>2. CASE CrashSweep(s)
    BY <2>2 DEF CrashSweep, Finish, TypeOK
  <2> QED BY <1>4, <2>1, <2>2 DEF SweepStep, Launch, NextGroup, SweepDone, NoOffset,
          EnterTier, EnterTierByQuery, QueryLeaf, NextTier, RowsDone, migs
<1>5. ASSUME NEW d \in Rules, StartRule(d) \/ CrashRule(d) PROVE Same
  <2> d \in Movers BY DEF Movers
  <2> QED BY <1>5 DEF StartRule, CrashRule, TypeOK
<1> QED BY <1>1, <1>2, <1>3, <1>4, <1>5 DEF Next, Client, Tick, vars, migs

(* The rows of a sweep are rows it had, or objects with a replica.         *)
LEMMA RowSteps ==
  ASSUME TypeOK, [Next]_vars, NEW s \in Sweeps, NEW o \in rows'[s]
  PROVE  o \in rows[s] \/ (o \in Objects /\ replicas[o] # {})
<1>1. CASE UNCHANGED cursor
  BY <1>1 DEF cursor
<1>2. ASSUME NEW t \in Sweeps, SweepStep(t) \/ CrashSweep(t)
      PROVE  o \in rows[s] \/ (o \in Objects /\ replicas[o] # {})
  <2>1. \A ls, off : \A p \in Violating(ls, off) : p \in Objects /\ replicas[p] # {}
    BY DEF Violating
  <2>2. CASE EnterTierByQuery(t)
    BY <2>1, <2>2 DEF EnterTierByQuery, TypeOK
  <2>3. CASE QueryLeaf(t)
    BY <2>1, <2>3 DEF QueryLeaf, TypeOK
  <2>4. CASE TakeRow(t)
    BY <2>4 DEF TakeRow, TypeOK
  <2>5. CASE Stop(t)
    BY <2>5 DEF Stop, TypeOK
  <2> QED BY <1>2, <2>2, <2>3, <2>4, <2>5 DEF SweepStep, CrashSweep, Launch, NextGroup, SweepDone,
          NoOffset, EnterTier, NextTier, RowsDone
<1>3. UNCHANGED cursor \/ \E t \in Sweeps : SweepStep(t) \/ CrashSweep(t)
  BY DEF Next, Client, Put, Overwrite, Close, GetNoRestage, Get, Tick, Migrate, ReadNum, ReplNew,
     ReplStale, ReplNoop, ReplRefused, ReplFault, CheckOk, CheckNext, CheckFails, Unlink, UnlinkRefused,
     UnlinkFault, StartRule, CrashRule, vars
<1> QED BY <1>1, <1>2, <1>3

-----------------------------------------------------------------------------
(* The inductive step: one step keeps the replica with the highest number  *)
(* of every object out of the reach of every migration under way.          *)
LEMMA TopSafeStep ==
  ASSUME Cautious, TypeOK, TypeOK', TopSafe, [Next]_vars
  PROVE  /\ TopSafe'
         /\ \A o \in Objects : replicas[o] # {} => replicas'[o] # {}
<1>1. /\ AllGood' /\ HasTop'
      /\ \A o \in Objects : replicas[o] # {} =>
           /\ replicas'[o] # {}
           /\ \A x \in replicas[o], y \in replicas'[o] :
                IsTop(o, x) /\ IsTop(o, y)' => x.num <= y.num
  BY CatalogSteps, CatalogKept DEF TopSafe
<1>2. \A k \in Movers : pc[k] # "idle" => task[k].obj \in Objects
  BY DEF TypeOK, Task
<1>3. TaskHeld'
  <2> SUFFICES ASSUME NEW k \in Movers, pc'[k] # "idle" PROVE replicas'[task'[k].obj] # {}
    BY DEF TaskHeld
  <2> QED BY <1>1, <1>2, TaskSteps DEF TopSafe, TaskHeld
<1>4. RowsHeld'
  <2> SUFFICES ASSUME NEW s \in Sweeps, NEW o \in rows'[s] PROVE replicas'[o] # {}
    BY DEF RowsHeld
  <2>1. o \in Objects
    BY DEF TypeOK
  <2> QED BY <1>1, <2>1, RowSteps DEF TopSafe, RowsHeld
<1>5. BelowTop'
  <2> SUFFICES ASSUME NEW k \in Movers, pc'[k] # "idle",
                      NEW y \in replicas'[task'[k].obj],
                      \A z \in replicas'[task'[k].obj] : z.num <= y.num
               PROVE  /\ num'[k] <= y.num
                      /\ pc'[k] \in {"check", "unlink"} => num'[k] < y.num /\ 0 < y.num
    BY DEF BelowTop, IsTop
  <2>00. PICK o \in Objects : o = task'[k].obj
    BY DEF TypeOK, Task
  <2>0. y \in replicas'[o] /\ IsTop(o, y)' /\ \A z \in replicas'[o] : z.num <= y.num
    BY <2>00 DEF IsTop
  <2>1. num'[k] \in Int /\ y.num \in Nat /\ num[k] \in Int
    BY <2>0 DEF TypeOK, Replica, NoNum
  <2>2. \A x \in replicas[o] : x.num \in Nat
    BY DEF TypeOK, Replica
  <2>3. CASE pc'[k] = pc[k] /\ task'[k] = task[k] /\ num'[k] = num[k]
    <3>1. PICK x \in replicas[o] : IsTop(o, x)
      BY <2>00, <2>0, <2>1, <2>3 DEF TopSafe, TaskHeld, HasTop
    <3>2. /\ num[k] <= x.num
          /\ pc[k] \in {"check", "unlink"} => num[k] < x.num /\ 0 < x.num
      BY <2>00, <2>0, <2>3, <3>1 DEF TopSafe, BelowTop
    <3>3. x.num <= y.num
      BY <2>00, <2>0, <1>1, <3>1
    <3> QED BY <2>1, <2>2, <2>3, <3>2, <3>3
  <2>4. CASE ReadNum(k)
    <3>1. PICK l \in look[k] :
            /\ \E n \in NumbersRead(task[k].obj, l, num[k]) : num' = [num EXCEPT ![k] = n]
            /\ pc' = [pc EXCEPT ![k] = IF look[k] = {l} THEN "repl" ELSE "read"]
      BY <2>4 DEF ReadNum
    <3>2. /\ replicas' = replicas /\ task' = task /\ pc[k] = "read"
          /\ pc'[k] \in {"read", "repl"}
          /\ num'[k] \in NumbersRead(o, l, num[k])
      BY <2>00, <2>4, <3>1 DEF ReadNum, TypeOK
    <3>3. num'[k] = num[k] \/ \E x \in replicas[o] : num'[k] = x.num
      BY <3>2 DEF NumbersRead, At
    <3>4. num[k] <= y.num
      BY <2>00, <2>0, <3>2 DEF TopSafe, BelowTop, IsTop
    <3> QED BY <2>0, <3>2, <3>3, <3>4
  <2>5. CASE ReplNew(k)
    <3>1. task' = task /\ num' = num /\ pc'[k] = "check" /\ pc[k] = "repl"
      BY <2>00, <2>0, <2>5 DEF ReplNew, StartCheck, TypeOK
    <3>2. PICK top \in replicas[o] :
            /\ \A x \in replicas[o] : x.num <= top.num
            /\ \E z \in replicas'[o] : z.num = top.num + 1
      <4>1. PICK l \in LeavesOf[task[k].dst] : \E top \in replicas[o] :
              /\ \A x \in replicas[o] : x.num <= top.num
              /\ replicas' = [replicas EXCEPT
                                ![o] = @ \cup {[num |-> top.num + 1, leaf |-> l, good |-> TRUE]}]
        BY <2>00, <2>0, <2>5, <3>1 DEF ReplNew
      <4>2. PICK top \in replicas[o] :
              /\ \A x \in replicas[o] : x.num <= top.num
              /\ replicas' = [replicas EXCEPT
                                ![o] = @ \cup {[num |-> top.num + 1, leaf |-> l, good |-> TRUE]}]
        BY <4>1
      <4>3. [num |-> top.num + 1, leaf |-> l, good |-> TRUE] \in replicas'[o]
        BY <4>2 DEF TypeOK
      <4>4. [num |-> top.num + 1, leaf |-> l, good |-> TRUE].num = top.num + 1
        OBVIOUS
      <4> QED BY <4>2, <4>3, <4>4
    <3>3. num[k] <= top.num
      BY <2>00, <2>0, <3>1, <3>2 DEF TopSafe, BelowTop, IsTop
    <3>4. top.num + 1 <= y.num
      BY <2>0, <3>2
    <3> QED BY <2>1, <2>2, <3>1, <3>2, <3>3, <3>4
  <2>6. CASE CheckOk(k)
    <3>1. UNCHANGED <<replicas, task, num>> /\ pc[k] = "check"
      BY <2>00, <2>0, <2>6 DEF CheckOk
    <3>2. y \in replicas[o] /\ IsTop(o, y)
      BY <2>0, <3>1 DEF IsTop
    <3> QED BY <2>00, <2>0, <3>1, <3>2 DEF TopSafe, BelowTop
  <2>7. CASE num'[k] = NoNum /\ pc'[k] \notin {"check", "unlink"}
    BY <2>1, <2>7 DEF NoNum
  <2> QED BY <2>3, <2>4, <2>5, <2>6, <2>7, MoverSteps DEF TopSafe
<1>6. Unread'
  <2> SUFFICES ASSUME NEW k \in Movers, pc'[k] \in {"idle", "queued"} PROVE num'[k] = NoNum
    BY DEF Unread
  <2>1. ~ReadNum(k) /\ ~ReplNew(k) /\ ~CheckOk(k)
    BY DEF ReadNum, ReplNew, StartCheck, CheckOk, TypeOK
  <2> QED BY <2>1, MoverSteps DEF TopSafe, Unread
<1> QED BY <1>1, <1>3, <1>4, <1>5, <1>6 DEF TopSafe

(* The inductive invariant holds: no sweep, restage rule, failure or       *)
(* re-executed rule can reach the replica with the highest number.         *)
THEOREM TopSafeInvariant == ASSUME Cautious PROVE Spec => []TopSafe
<1>1. Init => TopSafe
  BY DEF Init, TopSafe, AllGood, HasTop, TaskHeld, RowsHeld, Unread, BelowTop
<1>2. TypeOK /\ TypeOK' /\ TopSafe /\ [Next]_vars => TopSafe'
  BY TopSafeStep
<1> QED BY <1>1, <1>2, TypeCorrect, PTL DEF Spec

(* No step of the specification removes the last replica of an object.     *)
THEOREM DataKept == ASSUME Cautious PROVE Spec => NoDataLoss
<1>1. TypeOK /\ TypeOK' /\ TopSafe /\ [Next]_vars
        => [\A o \in Objects : replicas[o] # {} => replicas'[o] # {}]_vars
  BY TopSafeStep
<1> QED BY <1>1, TypeCorrect, TopSafeInvariant, PTL DEF Spec, NoDataLoss

(* Every stored object keeps a replica with its latest data.               *)
THEOREM LatestIsKept == ASSUME Cautious PROVE Spec => []LatestKept
<1>1. TopSafe => LatestKept
  BY DEF TopSafe, AllGood, LatestKept
<1> QED BY <1>1, TopSafeInvariant, PTL

=============================================================================
