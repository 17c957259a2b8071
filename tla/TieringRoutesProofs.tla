------------------------ MODULE TieringRoutesProofs ------------------------
(***************************************************************************)
(* Theorems about the routes of data in StorageTiering: which objects a    *)
(* sweep lists for which tier, and from where to where replicas are made.  *)
(* They need neither of the conditions on the server and the clients that  *)
(* StorageTieringProofs needs for the data to be safe.                     *)
(***************************************************************************)
EXTENDS StorageTieringProofs

(* A stored query asks for objects on its own tier: the query is text that *)
(* an administrator wrote, and the rule base runs it as it is.             *)
QueriesOwn == \A r \in Resources : QueryOf[r] \subseteq LeavesOf[r]

(* What precedes a leaf in its hierarchy has the leaf below it.            *)
ParentsHold == \A l \in Leaves : ParentOf[l] \in Resources => l \in LeavesOf[ParentOf[l]]

(* While a sweep works on a tier, the leaves it has still to query are of  *)
(* that tier, and *time_offset is the tier's own time, or that of a tier   *)
(* passed before; between tiers no leaves are left, and between launches   *)
(* no time either.                                                         *)
CursorOK(s) ==
  /\ at[s] = "idle" => offset[s] = NoTime
  /\ at[s] # "idle" => group[s] \notin todo[s]
  /\ offset[s] = NoTime \/ PassedTime(s, offset[s])
  /\ IF at[s] \in {"leaves", "rows"}
       THEN /\ leaves[s] \subseteq LeavesOf[SrcOf(s)]
            /\ offset[s] # NoTime
            /\ TierTime[SrcOf(s)] # NoTime => offset[s] = TierTime[SrcOf(s)]
       ELSE leaves[s] = {}

CursorInv == \A s \in Sweeps : CursorOK(s)

(* A migration goes to the next tier of a group, or from a leaf of a tier  *)
(* to the lowest one.                                                      *)
Route(k) ==
  \E g \in Groups : \E i \in DOMAIN Tiers[g] :
    /\ k.dst = Tiers[g][i]
    /\ \/ i - 1 \in DOMAIN Tiers[g] /\ k.src = Tiers[g][i - 1]
       \/ i = 1 /\ \E j \in DOMAIN Tiers[g] : LeavesOf[k.src] \subseteq LeavesOf[Tiers[g][j]]

RouteInv == \A m \in Movers : pc[m] # "idle" => Route(task[m])

-----------------------------------------------------------------------------
(* The tier of a sweep has a time.                                         *)
LEMMA TimeType ==
  ASSUME NEW r \in Resources
  PROVE  TierTime[r] \in Int /\ (TierTime[r] # NoTime => TierTime[r] \in Nat)
  BY ConstantsAssumption DEF NoTime

(* At a tier that has a next one, the sweep's source is a resource.        *)
LEMMA SrcType ==
  ASSUME TypeOK, NEW s \in Sweeps, at[s] # "idle", idx[s] < Len(Tiers[group[s]])
  PROVE  SrcOf(s) \in Resources
  BY TierResources DEF TypeOK, SrcOf

(* A sweep that is not at its last tier has a next one.                    *)
LEMMA NotLast ==
  ASSUME TypeOK, NEW s \in Sweeps, ~LastTier(s)
  PROVE  idx[s] < Len(Tiers[group[s]])
<1>1. Tiers[group[s]] \in Seq(Resources) /\ idx[s] \in Nat
  BY ConstantsAssumption DEF TypeOK
<1> QED BY <1>1 DEF LastTier

(* The cursor of a sweep changes by its own steps only.                    *)
LEMMA CursorAlone ==
  ASSUME TypeOK, [Next]_vars, NEW s \in Sweeps, ~(SweepStep(s) \/ CrashSweep(s))
  PROVE  /\ at'[s] = at[s] /\ leaves'[s] = leaves[s] /\ offset'[s] = offset[s]
         /\ idx'[s] = idx[s] /\ group'[s] = group[s] /\ rows'[s] = rows[s]
         /\ todo'[s] = todo[s]
<1>1. ASSUME NEW t \in Sweeps, SweepStep(t) \/ CrashSweep(t), t # s
      PROVE  /\ at'[s] = at[s] /\ leaves'[s] = leaves[s] /\ offset'[s] = offset[s]
             /\ idx'[s] = idx[s] /\ group'[s] = group[s] /\ rows'[s] = rows[s]
             /\ todo'[s] = todo[s]
         /\ todo'[s] = todo[s]
  <2>1. CASE CrashSweep(t)
    BY <1>1, <2>1 DEF TypeOK, CrashSweep, Stop
  <2>2. CASE SweepStep(t)
    <3>1. CASE Launch(t) \/ NextGroup(t) \/ SweepDone(t) \/ NoOffset(t)
      BY <1>1, <3>1 DEF TypeOK, Launch, NextGroup, SweepDone, NoOffset, Stop
    <3>2. CASE EnterTier(t) \/ EnterTierByQuery(t)
      BY <1>1, <3>2 DEF TypeOK, EnterTier, EnterTierByQuery
    <3>3. CASE QueryLeaf(t) \/ NextTier(t) \/ TakeRow(t) \/ RowsDone(t)
      BY <1>1, <3>3 DEF TypeOK, QueryLeaf, NextTier, TakeRow, RowsDone
    <3> QED BY <2>2, <3>1, <3>2, <3>3 DEF SweepStep
  <2> QED BY <1>1, <2>1, <2>2
<1>2. ASSUME NEW m \in Movers, Migrate(m) PROVE UNCHANGED cursor
  BY <1>2 DEF Migrate, ReadNum, ReplNew, ReplStale, ReplNoop, StartCheck, ReplRefused, ReplFault, CheckOk, CheckNext,
     CheckFails, Unlink, UnlinkRefused, UnlinkFault
<1>3. UNCHANGED cursor \/ \E t \in Sweeps : SweepStep(t) \/ CrashSweep(t)
  BY <1>2 DEF Next, Client, Put, Overwrite, Close, GetNoRestage, Get, Tick, StartRule, CrashRule, vars
<1> QED BY <1>1, <1>3 DEF cursor

(* A step of the sweep keeps its cursor on its tier.                       *)
LEMMA CursorOwn ==
  ASSUME TypeOK, NEW s \in Sweeps, CursorOK(s), SweepStep(s) \/ CrashSweep(s)
  PROVE  CursorOK(s)'
<1> USE DEF CursorOK
<1>t. /\ at \in [Sweeps -> {"idle", "tier", "leaves", "rows"}]
      /\ leaves \in [Sweeps -> SUBSET Leaves] /\ offset \in [Sweeps -> Nat \cup {NoTime}]
      /\ idx \in [Sweeps -> Nat] /\ group \in [Sweeps -> Groups] /\ todo \in [Sweeps -> SUBSET Groups]
      /\ \A g \in Groups : Tiers[g] \in Seq(Resources)
  BY ConstantsAssumption DEF TypeOK
<1>1. CASE Launch(s)
  BY <1>1, <1>t DEF Launch
<1>2. CASE SweepDone(s) \/ NoOffset(s) \/ CrashSweep(s)
  BY <1>2, <1>t DEF SweepDone, NoOffset, CrashSweep, Stop
<1>3. CASE NextGroup(s)
  <2>1. PICK g \in todo[s] : group'[s] = g /\ todo'[s] = todo[s] \ {g}
    BY <1>3, <1>t DEF NextGroup
  <2>2. /\ at[s] = "tier" /\ at'[s] = "tier" /\ leaves'[s] = {} /\ offset'[s] = offset[s]
        /\ g \in Groups
    BY <1>3, <1>t, <2>1 DEF NextGroup
  <2>3. PassedTime(s, offset[s]) => PassedTime(s, offset[s])'
    <3> SUFFICES ASSUME PassedTime(s, offset[s]) PROVE PassedTime(s, offset[s])'
      OBVIOUS
    <3>1. PICK k \in Groups \ todo[s] : \E i \in 1 .. Len(Tiers[k]) - 1 :
            offset[s] = TierTime[Tiers[k][i]]
      BY DEF PassedTime
    <3>2. k \in Groups \ todo'[s] /\ k # group'[s]
      BY <2>1, <3>1
    <3> QED BY <2>2, <3>1, <3>2 DEF PassedTime
  <2> QED BY <2>1, <2>2, <2>3
<1>4. CASE EnterTier(s) \/ EnterTierByQuery(s)
  <2> DEFINE off == OffsetFor(SrcOf(s), offset[s])
  <2>1. /\ at[s] = "tier" /\ ~LastTier(s) /\ off # NoTime
        /\ UNCHANGED <<idx, group, todo>>
        /\ offset' = [offset EXCEPT ![s] = off]
    BY <1>4 DEF EnterTier, EnterTierByQuery
  <2>2. 1 <= idx[s] /\ idx[s] < Len(Tiers[group[s]])
    BY <2>1, NotLast DEF TypeOK
  <2>3. TierTime[SrcOf(s)] # NoTime => off = TierTime[SrcOf(s)]
    BY DEF OffsetFor
  <2>4. PassedTime(s, off)
    <3>1. CASE TierTime[SrcOf(s)] = NoTime
      BY <2>1, <3>1 DEF OffsetFor
    <3>2. CASE TierTime[SrcOf(s)] # NoTime
      <4>1. group[s] \in Groups \ todo[s] /\ idx[s] \in 1 .. Len(Tiers[group[s]]) - 1
        BY <1>t, <2>1, <2>2
      <4>2. off = TierTime[Tiers[group[s]][idx[s]]] /\ idx[s] <= idx[s]
        BY <1>t, <2>3, <3>2 DEF SrcOf
      <4> HIDE DEF off
      <4> QED BY <2>1, <4>1, <4>2 DEF PassedTime
    <3> QED BY <3>1, <3>2
  <2>5. leaves'[s] \subseteq LeavesOf[SrcOf(s)]
    BY <1>4, <1>t DEF EnterTier, EnterTierByQuery
  <2>6. SrcOf(s)' = SrcOf(s) /\ at'[s] \in {"leaves", "rows"}
    BY <1>4, <1>t, <2>1 DEF EnterTier, EnterTierByQuery, SrcOf
  <2>7. \A t : PassedTime(s, t)' <=> PassedTime(s, t)
    BY <2>1 DEF PassedTime
  <2> HIDE DEF off
  <2>8. offset'[s] = off
    BY <2>1, <1>t
  <2> QED BY <2>1, <2>3, <2>4, <2>5, <2>6, <2>7, <2>8
<1>5. CASE QueryLeaf(s) \/ TakeRow(s) \/ RowsDone(s)
  <2>1. /\ at[s] \in {"leaves", "rows"} /\ at'[s] \in {"leaves", "rows"}
        /\ leaves'[s] \subseteq leaves[s] /\ UNCHANGED <<idx, group, todo, offset>>
    <3>1. CASE QueryLeaf(s)
      BY <3>1, <1>t DEF QueryLeaf
    <3>2. CASE TakeRow(s)
      BY <3>2, <1>t DEF TakeRow
    <3>3. CASE RowsDone(s)
      BY <3>3, <1>t DEF RowsDone
    <3> QED BY <1>5, <3>1, <3>2, <3>3
  <2>2. SrcOf(s)' = SrcOf(s) /\ offset'[s] = offset[s]
    BY <2>1 DEF SrcOf
  <2>3. PassedTime(s, offset[s])' <=> PassedTime(s, offset[s])
    BY <2>1 DEF PassedTime
  <2> QED BY <2>1, <2>2, <2>3
<1>6. CASE NextTier(s)
  <2>1. /\ at[s] = "leaves" /\ leaves[s] = {} /\ UNCHANGED <<todo, group, leaves, offset>>
        /\ at'[s] = "tier" /\ idx'[s] = idx[s] + 1
    BY <1>6, <1>t DEF NextTier
  <2>2. PassedTime(s, offset[s]) => PassedTime(s, offset[s])'
    <3> SUFFICES ASSUME PassedTime(s, offset[s]) PROVE PassedTime(s, offset[s])'
      OBVIOUS
    <3>1. PICK k \in Groups \ todo[s] : \E i \in 1 .. Len(Tiers[k]) - 1 :
            (k = group[s] => i <= idx[s]) /\ offset[s] = TierTime[Tiers[k][i]]
      BY DEF PassedTime
    <3>2. PICK i \in 1 .. Len(Tiers[k]) - 1 :
            (k = group[s] => i <= idx[s]) /\ offset[s] = TierTime[Tiers[k][i]]
      BY <3>1
    <3>3. k = group'[s] => i <= idx'[s]
      <4>1. i \in Int /\ idx[s] \in Nat
        BY <1>t
      <4> QED BY <2>1, <3>2, <4>1
    <3> QED BY <2>1, <3>1, <3>2, <3>3 DEF PassedTime
  <2> QED BY <2>1, <2>2
<1> QED BY <1>1, <1>2, <1>3, <1>4, <1>5, <1>6 DEF SweepStep

(* Every step keeps CursorInv.                                             *)
LEMMA CursorNext ==
  ASSUME TypeOK, CursorInv, [Next]_vars
  PROVE  CursorInv'
<1> SUFFICES ASSUME NEW s \in Sweeps PROVE CursorOK(s)'
  BY DEF CursorInv
<1>1. CursorOK(s)
  BY DEF CursorInv
<1>2. CASE SweepStep(s) \/ CrashSweep(s)
  BY <1>1, <1>2, CursorOwn
<1>3. CASE ~(SweepStep(s) \/ CrashSweep(s))
  BY <1>1, <1>3, CursorAlone DEF CursorOK, SrcOf, PassedTime
<1> QED BY <1>2, <1>3

(* What a sweep lists has aged on its tier.                                *)
LEMMA ListedOwn ==
  ASSUME QueriesOwn, TypeOK, CursorInv, [Next]_vars,
         NEW s \in Sweeps, NEW o \in rows'[s] \ rows[s]
  PROVE  /\ On(o, SrcOf(s)) # {}
         /\ IF TierTime[SrcOf(s)] # NoTime THEN age[o] > TierTime[SrcOf(s)]
            ELSE \E t \in 0 .. MaxAge : PassedTime(s, t) /\ age[o] > t
<1> DEFINE Goal == /\ On(o, SrcOf(s)) # {}
                   /\ IF TierTime[SrcOf(s)] # NoTime THEN age[o] > TierTime[SrcOf(s)]
                      ELSE \E t \in 0 .. MaxAge : PassedTime(s, t) /\ age[o] > t
<1>t. /\ rows \in [Sweeps -> SUBSET Objects] /\ offset \in [Sweeps -> Nat \cup {NoTime}]
      /\ age \in [Objects -> (0 .. MaxAge) \cup {NoTime}] /\ MaxAge \in Nat
  BY ConstantsAssumption DEF TypeOK
<1>1. SweepStep(s) \/ CrashSweep(s)
  BY CursorAlone
<1>2. ASSUME NEW ls, NEW off \in Nat, ls \subseteq LeavesOf[SrcOf(s)],
             TierTime[SrcOf(s)] # NoTime => off = TierTime[SrcOf(s)],
             TierTime[SrcOf(s)] = NoTime => PassedTime(s, off),
             o \in Violating(ls, off)
      PROVE  Goal
  <2>1. o \in Objects /\ age[o] > off /\ On(o, SrcOf(s)) # {}
    BY <1>2 DEF Violating, On
  <2>2. off \in 0 .. MaxAge
    BY <1>t, <2>1 DEF NoTime
  <2> QED BY <1>2, <2>1, <2>2
<1>3. CASE EnterTierByQuery(s)
  <2> DEFINE off == OffsetFor(SrcOf(s), offset[s])
  <2>1. at[s] = "tier" /\ ~LastTier(s) /\ off # NoTime
        /\ rows' = [rows EXCEPT ![s] = Violating(QueryOf[SrcOf(s)], off)]
    BY <1>3 DEF EnterTierByQuery
  <2>2. SrcOf(s) \in Resources
    BY <2>1, NotLast, SrcType
  <2>3. /\ off \in Nat
        /\ TierTime[SrcOf(s)] # NoTime => off = TierTime[SrcOf(s)]
        /\ TierTime[SrcOf(s)] = NoTime => off = offset[s]
    BY <2>1, <2>2, <1>t, TimeType DEF OffsetFor
  <2>4. o \in Violating(QueryOf[SrcOf(s)], off)
    BY <2>1, <1>t
  <2>5. TierTime[SrcOf(s)] = NoTime => PassedTime(s, off)
    BY <2>1, <2>3 DEF CursorInv, CursorOK
  <2>6. QueryOf[SrcOf(s)] \subseteq LeavesOf[SrcOf(s)]
    BY <2>2 DEF QueriesOwn
  <2> HIDE DEF off
  <2> QED BY <1>2, <2>3, <2>4, <2>5, <2>6
<1>4. CASE QueryLeaf(s)
  <2>1. PICK l \in leaves[s] : rows' = [rows EXCEPT ![s] = Violating({l}, offset[s])]
    BY <1>4 DEF QueryLeaf
  <2>2. at[s] = "leaves"
    BY <1>4 DEF QueryLeaf
  <2>3. /\ {l} \subseteq LeavesOf[SrcOf(s)] /\ offset[s] # NoTime
        /\ TierTime[SrcOf(s)] # NoTime => offset[s] = TierTime[SrcOf(s)]
        /\ PassedTime(s, offset[s])
    BY <2>1, <2>2 DEF CursorInv, CursorOK
  <2>4. o \in Violating({l}, offset[s]) /\ offset[s] \in Nat
    BY <2>1, <2>3, <1>t
  <2> QED BY <1>2, <2>3, <2>4
<1>5. ~EnterTierByQuery(s) /\ ~QueryLeaf(s) => rows'[s] \subseteq rows[s]
  BY <1>1, <1>t DEF SweepStep, CrashSweep, Launch, NextGroup, SweepDone, NoOffset, EnterTier,
     NextTier, TakeRow, RowsDone, Stop
<1> QED BY <1>3, <1>4, <1>5

(* The inductive invariant of the cursor.                                  *)
THEOREM CursorInvariant == Spec => []CursorInv
<1>1. Init => CursorInv
  BY DEF Init, CursorInv, CursorOK
<1>2. TypeOK /\ CursorInv /\ [Next]_vars => CursorInv'
  BY CursorNext
<1> QED BY <1>1, <1>2, TypeCorrect, PTL DEF Spec

(* A sweep only lists what is on the tier it works on and has not been     *)
(* accessed for longer than this tier's own time, or, for a tier that has  *)
(* none, than the time of a tier the same launch passed before.            *)
THEOREM ListedByTime == ASSUME QueriesOwn PROVE Spec => TierTimeApplied
<1>1. TypeOK /\ CursorInv /\ [Next]_vars
        => [\A s \in Sweeps : \A o \in rows'[s] \ rows[s] :
              /\ On(o, SrcOf(s)) # {}
              /\ IF TierTime[SrcOf(s)] # NoTime THEN age[o] > TierTime[SrcOf(s)]
                 ELSE \E t \in 0 .. MaxAge : PassedTime(s, t) /\ age[o] > t]_vars
  BY ListedOwn
<1> QED BY <1>1, TypeCorrect, CursorInvariant, PTL DEF Spec, TierTimeApplied

-----------------------------------------------------------------------------
(* The migrations of a sweep go to the next tier.                          *)
LEMMA SweepRoute ==
  ASSUME TypeOK, NEW s \in Sweeps, at[s] = "rows", NEW o
  PROVE  Route([obj |-> o, src |-> SrcOf(s), dst |-> DstOf(s)])
<1>1. group[s] \in Groups /\ Tiers[group[s]] \in Seq(Resources)
  BY ConstantsAssumption DEF TypeOK
<1>2. idx[s] \in Nat /\ 1 <= idx[s] /\ idx[s] < Len(Tiers[group[s]])
  BY DEF TypeOK
<1> DEFINE g == group[s]
           i == idx[s] + 1
<1>3. i \in DOMAIN Tiers[g] /\ i - 1 \in DOMAIN Tiers[g] /\ i - 1 = idx[s]
  BY <1>1, <1>2
<1>4. DstOf(s) = Tiers[g][i] /\ SrcOf(s) = Tiers[g][i - 1]
  BY <1>3 DEF DstOf, SrcOf
<1> HIDE DEF g, i
<1>5. g \in Groups
  BY <1>1 DEF g
<1> QED BY <1>3, <1>4, <1>5 DEF Route

(* Those of a restage rule start from a leaf of a tier of the group.       *)
LEMMA RestageRoute ==
  ASSUME ParentsHold, NEW o, NEW x \in Replica, NEW g \in GroupsOf(x.leaf)
  PROVE  Route(RestageTask(o, x, g))
<1>1. g \in Groups /\ x.leaf \in Leaves /\ Tiers[g] \in Seq(Resources) /\ Tiers[g] # << >>
  BY ConstantsAssumption DEF GroupsOf, Replica
<1>2. PICK j \in DOMAIN Tiers[g] : Tiers[g][j] = ParentOf[x.leaf]
  BY DEF GroupsOf
<1>3. Tiers[g][j] \in Resources
  BY <1>1, <1>2
<1>4. x.leaf \in LeavesOf[Tiers[g][j]]
  BY <1>1, <1>2, <1>3 DEF ParentsHold
<1>5. LeavesOf[x.leaf] = {x.leaf}
  BY <1>1, ConstantsAssumption
<1>6. 1 \in DOMAIN Tiers[g]
  BY <1>1
<1>7. RestageTask(o, x, g).src = x.leaf /\ RestageTask(o, x, g).dst = Tiers[g][1]
  BY DEF RestageTask
<1>8. LeavesOf[RestageTask(o, x, g).src] \subseteq LeavesOf[Tiers[g][j]]
  BY <1>4, <1>5, <1>7
<1> QED BY <1>1, <1>6, <1>7, <1>8 DEF Route

(* A mover keeps its task, drops it, or gets one with a route.             *)
LEMMA TaskOrigin ==
  ASSUME ParentsHold, TypeOK, [Next]_vars, NEW m \in Movers
  PROVE  task'[m] \in {task[m], NoTask} \/ Route(task'[m])
<1>t. task \in [Movers -> Task \cup {NoTask}]
  BY DEF TypeOK
<1>1. ASSUME NEW o \in Objects, NEW d \in Rules, Get(o, d)
      PROVE  task'[m] = task[m] \/ Route(task'[m])
  <2>1. PICK x \in replicas[o] : \E g \in GroupsOf(x.leaf) :
          task' = [task EXCEPT ![d] = RestageTask(o, x, g)]
    BY <1>1 DEF Get
  <2>2. PICK g \in GroupsOf(x.leaf) : task' = [task EXCEPT ![d] = RestageTask(o, x, g)]
    BY <2>1
  <2>3. x \in Replica
    BY DEF TypeOK
  <2>4. Route(RestageTask(o, x, g))
    BY <2>3, RestageRoute
  <2>5. task'[m] = task[m] \/ task'[m] = RestageTask(o, x, g)
    BY <2>2, <1>t
  <2> QED BY <2>4, <2>5
<1>2. ASSUME NEW s \in Sweeps, TakeRow(s)
      PROVE  task'[m] = task[m] \/ Route(task'[m])
  <2>1. PICK o \in rows[s] :
          task' = [task EXCEPT ![s] = [obj |-> o, src |-> SrcOf(s), dst |-> DstOf(s)]]
    BY <1>2 DEF TakeRow
  <2>2. Route([obj |-> o, src |-> SrcOf(s), dst |-> DstOf(s)])
    BY <1>2, SweepRoute DEF TakeRow
  <2>3. task'[m] = task[m] \/ task'[m] = [obj |-> o, src |-> SrcOf(s), dst |-> DstOf(s)]
    BY <2>1, <1>t
  <2> QED BY <2>2, <2>3
<1>3. ASSUME NEW k \in Movers, Migrate(k) PROVE task'[m] \in {task[m], NoTask}
  BY <1>3, <1>t DEF Migrate, ReadNum, ReplNew, ReplStale, ReplNoop, StartCheck, ReplRefused, ReplFault, CheckOk, CheckNext,
     CheckFails, Unlink, UnlinkRefused, UnlinkFault, Finish
<1>4. ASSUME NEW s \in Sweeps, SweepStep(s) \/ CrashSweep(s), ~TakeRow(s)
      PROVE  task'[m] \in {task[m], NoTask}
  BY <1>4, <1>t DEF SweepStep, CrashSweep, Launch, NextGroup, SweepDone, NoOffset, EnterTier,
     EnterTierByQuery, QueryLeaf, NextTier, RowsDone, Finish, migs
<1>5. \/ task' = task
      \/ \E o \in Objects, d \in Rules : Get(o, d)
      \/ \E k \in Movers : Migrate(k)
      \/ \E s \in Sweeps : SweepStep(s) \/ CrashSweep(s)
  BY DEF Next, Client, Put, Overwrite, Close, GetNoRestage, Tick, StartRule, CrashRule, vars, migs
<1> QED BY <1>1, <1>2, <1>3, <1>4, <1>5

(* A leaf gains a replica only by a copy of a migration, from a replica on *)
(* its source to a leaf of its destination.                                *)
LEMMA GainedByCopy ==
  ASSUME TypeOK, [Next]_vars, NEW o \in Objects, replicas[o] # {},
         NEW x \in replicas'[o], At(o, x.leaf) = {}
  PROVE  \E m \in Movers :
           /\ pc[m] = "repl" /\ task[m].obj = o /\ HasSource(m)
           /\ x.leaf \in LeavesOf[task[m].dst]
<1>t. replicas \in [Objects -> SUBSET Replica]
  BY DEF TypeOK
<1>0. x \notin replicas[o] /\ \A y \in replicas[o] : y.leaf # x.leaf
  BY DEF At
<1>1. ASSUME NEW p \in Objects, Put(p) \/ Overwrite(p) PROVE FALSE
  <2>1. CASE Put(p)
    BY <1>0, <1>t, <2>1 DEF Put
  <2>2. CASE Overwrite(p)
    <3>1. PICK z \in replicas[p] : replicas' = [replicas EXCEPT ![p] =
            {[num |-> y.num, leaf |-> y.leaf, good |-> (y = z)] : y \in @}]
      BY <2>2 DEF Overwrite
    <3>2. p = o
      BY <1>0, <1>t, <3>1
    <3>3. x \in {[num |-> y.num, leaf |-> y.leaf, good |-> (y = z)] : y \in replicas[o]}
      BY <1>t, <3>1, <3>2
    <3>4. PICK y \in replicas[o] : x = [num |-> y.num, leaf |-> y.leaf, good |-> (y = z)]
      BY <3>3
    <3> QED BY <1>0, <3>4
  <2> QED BY <1>1, <2>1, <2>2
<1>2. ASSUME NEW m \in Movers, ReplNew(m)
      PROVE  /\ pc[m] = "repl" /\ task[m].obj = o /\ HasSource(m)
             /\ x.leaf \in LeavesOf[task[m].dst]
  <2>1. PICK l \in LeavesOf[task[m].dst] : \E top \in replicas[task[m].obj] :
          replicas' = [replicas EXCEPT ![task[m].obj] =
                         @ \cup {[num |-> top.num + 1, leaf |-> l, good |-> TRUE]}]
    BY <1>2 DEF ReplNew
  <2>2. PICK top \in replicas[task[m].obj] :
          replicas' = [replicas EXCEPT ![task[m].obj] =
                         @ \cup {[num |-> top.num + 1, leaf |-> l, good |-> TRUE]}]
    BY <2>1
  <2>3. task[m].obj = o
    BY <1>0, <1>t, <2>2
  <2>4. x = [num |-> top.num + 1, leaf |-> l, good |-> TRUE]
    BY <1>0, <1>t, <2>2, <2>3
  <2> QED BY <1>2, <2>1, <2>3, <2>4 DEF ReplNew
<1>3. ASSUME NEW m \in Movers, ReplStale(m) PROVE FALSE
  <2>1. PICK y \in On(task[m].obj, task[m].dst) :
          replicas' = [replicas EXCEPT ![task[m].obj] =
                         (@ \ {y}) \cup {[num |-> y.num, leaf |-> y.leaf, good |-> TRUE]}]
    BY <1>3 DEF ReplStale
  <2>2. y \in replicas[task[m].obj]
    BY DEF On
  <2>3. task[m].obj = o
    BY <1>0, <1>t, <2>1
  <2>4. x = [num |-> y.num, leaf |-> y.leaf, good |-> TRUE]
    BY <1>0, <1>t, <2>1, <2>3
  <2> QED BY <1>0, <2>2, <2>3, <2>4
<1>4. ASSUME NEW m \in Movers, Unlink(m) PROVE FALSE
  BY <1>0, <1>4, <1>t DEF Unlink
<1>5. ASSUME NEW m \in Movers, Migrate(m), ~ReplNew(m) PROVE replicas' = replicas
  BY <1>3, <1>4, <1>5 DEF Migrate, ReadNum, ReplNoop, ReplRefused, ReplFault, CheckOk, CheckNext, CheckFails,
     UnlinkRefused, UnlinkFault
<1>6. ASSUME NEW s \in Sweeps, SweepStep(s) \/ CrashSweep(s) PROVE replicas' = replicas
  BY <1>6 DEF SweepStep, CrashSweep, Launch, NextGroup, SweepDone, NoOffset, EnterTier,
     EnterTierByQuery, QueryLeaf, NextTier, TakeRow, RowsDone
<1>7. \/ replicas' = replicas
      \/ \E p \in Objects : Put(p) \/ Overwrite(p)
      \/ \E m \in Movers : ReplNew(m)
  BY <1>5, <1>6 DEF Next, Client, Close, GetNoRestage, Get, Tick, StartRule, CrashRule, vars
<1> QED BY <1>0, <1>1, <1>2, <1>7

(* Such a copy follows the route of its migration.                         *)
LEMMA GainedAlong ==
  ASSUME TypeOK, RouteInv, [Next]_vars, NEW o \in Objects, replicas[o] # {},
         NEW x \in replicas'[o], At(o, x.leaf) = {}
  PROVE  \E g \in Groups : \E i \in DOMAIN Tiers[g] :
           /\ x.leaf \in LeavesOf[Tiers[g][i]]
           /\ OnTier(o, g, i - 1) \/ (i = 1 /\ \E j \in DOMAIN Tiers[g] : OnTier(o, g, j))
<1>1. PICK m \in Movers :
        /\ pc[m] = "repl" /\ task[m].obj = o /\ HasSource(m)
        /\ x.leaf \in LeavesOf[task[m].dst]
  BY GainedByCopy
<1>2. PICK y \in replicas[o] : y.leaf \in LeavesOf[task[m].src]
  BY <1>1 DEF HasSource, On
<1>3. Route(task[m])
  BY <1>1 DEF RouteInv
<1>4. PICK g \in Groups : \E i \in DOMAIN Tiers[g] :
        /\ task[m].dst = Tiers[g][i]
        /\ \/ i - 1 \in DOMAIN Tiers[g] /\ task[m].src = Tiers[g][i - 1]
           \/ i = 1 /\ \E j \in DOMAIN Tiers[g] : LeavesOf[task[m].src] \subseteq LeavesOf[Tiers[g][j]]
  BY <1>3 DEF Route
<1>5. PICK i \in DOMAIN Tiers[g] :
        /\ task[m].dst = Tiers[g][i]
        /\ \/ i - 1 \in DOMAIN Tiers[g] /\ task[m].src = Tiers[g][i - 1]
           \/ i = 1 /\ \E j \in DOMAIN Tiers[g] : LeavesOf[task[m].src] \subseteq LeavesOf[Tiers[g][j]]
  BY <1>4
<1>6. OnTier(o, g, i - 1) \/ (i = 1 /\ \E j \in DOMAIN Tiers[g] : OnTier(o, g, j))
  BY <1>2, <1>5 DEF OnTier, On
<1> QED BY <1>1, <1>5, <1>6

(* The inductive invariant of the tasks.                                   *)
THEOREM RouteInvariant == ASSUME ParentsHold PROVE Spec => []RouteInv
<1>1. Init => RouteInv
  BY DEF Init, RouteInv
<1>2. TypeOK /\ TypeOK' /\ RouteInv /\ [Next]_vars => RouteInv'
  <2> SUFFICES ASSUME TypeOK, TypeOK', RouteInv, [Next]_vars, NEW m \in Movers, pc'[m] # "idle"
               PROVE  Route(task'[m])
    BY DEF RouteInv, Route
  <2>1. task'[m] # NoTask
    BY DEF TypeOK
  <2>2. task'[m] = task[m] => pc[m] # "idle"
    BY <2>1 DEF TypeOK
  <2> QED BY <2>1, <2>2, TaskOrigin DEF RouteInv
<1> QED BY <1>1, <1>2, TypeCorrect, PTL DEF Spec

(* Data only moves along its group: to the next tier, or to the lowest one *)
(* of a group that has it, whatever the server answers and whoever writes. *)
THEOREM MovesAlongTiers == ASSUME ParentsHold PROVE Spec => AlongTiers
<1>1. TypeOK /\ RouteInv /\ [Next]_vars
        => [\A o \in Objects : replicas[o] # {} =>
              \A x \in replicas'[o] : At(o, x.leaf) # {} \/
                \E g \in Groups : \E i \in DOMAIN Tiers[g] :
                  /\ x.leaf \in LeavesOf[Tiers[g][i]]
                  /\ OnTier(o, g, i - 1) \/ (i = 1 /\ \E j \in DOMAIN Tiers[g] : OnTier(o, g, j))]_vars
  BY GainedAlong
<1> QED BY <1>1, TypeCorrect, RouteInvariant, PTL DEF Spec, AlongTiers

-----------------------------------------------------------------------------
(* The leaves of a set of one replica ...                                  *)
LEMMA LeavesOfOne ==
  ASSUME NEW r PROVE {x.leaf : x \in {r}} = {r.leaf}
  OBVIOUS

(* ... and with one added to others.                                       *)
LEMMA LeavesOfMore ==
  ASSUME NEW R, NEW r PROVE {x.leaf : x \in R \cup {r}} = {x.leaf : x \in R} \cup {r.leaf}
  OBVIOUS

(* The abstract variables of TieredReplicas for one object.                *)
LEMMA PlaceOf ==
  ASSUME HasTop, NEW o \in Objects
  PROVE  /\ \A l : l \in Holders[o] <=> At(o, l) # {}
         /\ replicas[o] = {} => Home[o] = NoResource /\ Holders[o] = {}
         /\ replicas[o] # {} => \E x \in Tops(o) : Home[o] = x.leaf /\ Home[o] \in Holders[o]
<1>1. \A l : l \in Holders[o] <=> At(o, l) # {}
  BY DEF Holders, At
<1>2. ASSUME replicas[o] # {} PROVE \E x \in Tops(o) : Home[o] = x.leaf /\ Home[o] \in Holders[o]
  <2>1. Tops(o) # {}
    BY <1>2 DEF HasTop, Tops
  <2>2. (CHOOSE x \in Tops(o) : TRUE) \in Tops(o)
    BY <2>1
  <2>3. Home[o] = (CHOOSE x \in Tops(o) : TRUE).leaf
    BY <1>2 DEF Home
  <2>4. \A x \in Tops(o) : x.leaf \in Holders[o]
    BY DEF Tops, Holders
  <2> QED BY <2>2, <2>3, <2>4
<1> QED BY <1>1, <1>2 DEF Holders, Home

(* The state functions of an object whose replicas do not change stay.     *)
LEMMA PlaceSame ==
  ASSUME NEW o \in Objects, replicas'[o] = replicas[o]
  PROVE  Holders'[o] = Holders[o] /\ Home'[o] = Home[o]
<1>1. Tops(o)' = Tops(o)
  BY DEF Tops, IsTop
<1> QED BY <1>1 DEF Holders, Home

(* An object that gains a copy above all others has its home there.        *)
LEMMA PlaceCopied ==
  ASSUME NEW o \in Objects, NEW new, replicas'[o] = replicas[o] \cup {new},
         new.num \in Nat, \A x \in replicas[o] : x.num \in Nat /\ x.num < new.num
  PROVE  Holders'[o] = Holders[o] \cup {new.leaf} /\ Home'[o] = new.leaf
<1>1. Tops(o)' = {new}
  <2>1. \A x \in Tops(o)' : x = new
    BY DEF Tops, IsTop
  <2>2. new \in Tops(o)'
    BY DEF Tops, IsTop
  <2> QED BY <2>1, <2>2
<1>2. (CHOOSE x \in {new} : TRUE) = new
  OBVIOUS
<1>3. Home'[o] = new.leaf
  BY <1>1, <1>2 DEF Home
<1>4. Holders'[o] = {x.leaf : x \in replicas[o] \cup {new}} /\ Holders[o] = {x.leaf : x \in replicas[o]}
  BY DEF Holders
<1> QED BY <1>3, <1>4, LeavesOfMore

(* An object that loses copies below the highest keeps its home.           *)
LEMMA PlaceTrimmed ==
  ASSUME TypeOK, NEW o \in Objects, HasTop, NEW gone \in SUBSET replicas[o],
         \A x \in gone : ~IsTop(o, x), replicas'[o] = replicas[o] \ gone
  PROVE  /\ Holders'[o] \subseteq Holders[o] /\ Home'[o] = Home[o]
         /\ Holders[o] = {} \/ Home[o] \in Holders'[o]
<1>1. Tops(o) \subseteq replicas'[o]
  BY DEF Tops
<1>2. Tops(o)' = Tops(o)
  <2>1. \A x \in Tops(o) : x \in Tops(o)'
    BY <1>1 DEF Tops, IsTop
  <2>2. ASSUME NEW x \in Tops(o)' PROVE x \in Tops(o)
    <3>1. x \in replicas[o] /\ \A y \in replicas'[o] : y.num <= x.num
      BY <2>2 DEF Tops, IsTop
    <3>2. PICK z \in replicas[o] : IsTop(o, z)
      BY <3>1 DEF HasTop
    <3>3. z \in replicas'[o] /\ z \in Tops(o)'
      BY <3>2, <2>1 DEF Tops, IsTop
    <3>4. z.num <= x.num /\ \A y \in replicas[o] : y.num <= z.num
      BY <3>1, <3>2, <3>3 DEF IsTop
    <3>5. \A y \in replicas[o] : y.num \in Nat
      BY DEF TypeOK, Replica
    <3> QED BY <3>1, <3>4, <3>5 DEF Tops, IsTop
  <2> QED BY <2>1, <2>2
<1>3. replicas[o] = {} <=> replicas'[o] = {}
  BY <1>1 DEF HasTop, Tops, IsTop
<1>4. replicas[o] # {} => \E x \in replicas'[o] : Home[o] = x.leaf
  BY <1>1, PlaceOf
<1>5. Home'[o] = Home[o]
  BY <1>2, <1>3 DEF Home
<1>6. Holders[o] = {x.leaf : x \in replicas[o]} /\ Holders'[o] = {x.leaf : x \in replicas'[o]}
  BY DEF Holders
<1> QED BY <1>4, <1>5, <1>6

(* A copy that a migration makes is a staging or a restaging.              *)
LEMMA PlaceRoute ==
  ASSUME TypeOK, HasTop, RouteInv, [Next]_vars, NEW o \in Objects, replicas[o] # {},
         NEW x \in replicas'[o], At(o, x.leaf) = {},
         x.leaf \notin Holders[o],
         Holders' = [Holders EXCEPT ![o] = @ \cup {x.leaf}], Home' = [Home EXCEPT ![o] = x.leaf]
  PROVE  Place!Stage(o) \/ Place!Restage(o)
<1>1. PICK g \in Groups : \E i \in DOMAIN Tiers[g] :
        /\ x.leaf \in LeavesOf[Tiers[g][i]]
        /\ OnTier(o, g, i - 1) \/ (i = 1 /\ \E j \in DOMAIN Tiers[g] : OnTier(o, g, j))
  BY GainedAlong
<1>2. PICK i \in DOMAIN Tiers[g] :
        /\ x.leaf \in LeavesOf[Tiers[g][i]]
        /\ OnTier(o, g, i - 1) \/ (i = 1 /\ \E j \in DOMAIN Tiers[g] : OnTier(o, g, j))
  BY <1>1
<1>3. \A j : OnTier(o, g, j) => Place!OnTier(o, g, j)
  BY DEF OnTier, On, Place!OnTier, Holders
<1>4. Place!CopyTo(o, x.leaf)
  BY DEF Place!CopyTo
<1> QED BY <1>2, <1>3, <1>4 DEF Place!Stage, Place!Restage

(* The tiering policy implements TieredReplicas: data is created on a leaf *)
(* for new objects, staged to the next tier of its group or restaged to    *)
(* the lowest one, and trimmed only where it was before its latest copy.   *)
THEOREM PlaceRefinement == ASSUME Cautious, ParentsHold PROVE Spec => PlaceSpec
<1>1. Init => Place!Init
  BY DEF Init, Place!Init, Holders, Home
<1>2. TypeOK /\ TypeOK' /\ TopSafe /\ RouteInv /\ [Next]_vars => [Place!Next]_<<Holders, Home>>
  <2> SUFFICES ASSUME TypeOK, TypeOK', TopSafe, RouteInv, [Next]_vars
               PROVE  [Place!Next]_<<Holders, Home>>
    OBVIOUS
  <2> HasTop
    BY DEF TopSafe
  <2>0. /\ Holders = [p \in Objects |-> Holders[p]] /\ Holders' = [p \in Objects |-> Holders'[p]]
        /\ Home = [p \in Objects |-> Home[p]] /\ Home' = [p \in Objects |-> Home'[p]]
    BY DEF Holders, Home
  <2>1. ASSUME NEW o \in Objects, \A p \in Objects \ {o} : replicas'[p] = replicas[p]
        PROVE  /\ Holders' = [Holders EXCEPT ![o] = Holders'[o]]
               /\ Home' = [Home EXCEPT ![o] = Home'[o]]
    <3>1. \A p \in Objects \ {o} : Holders'[p] = Holders[p] /\ Home'[p] = Home[p]
      BY <2>1, PlaceSame
    <3> QED BY <2>0, <3>1
  <2>2. CASE UNCHANGED replicas
    <3>1. \A p \in Objects : Holders'[p] = Holders[p] /\ Home'[p] = Home[p]
      BY <2>2, PlaceSame
    <3> QED BY <2>0, <3>1
  <2>3. CASE PutStep
    <3>1. PICK o \in Objects, l \in PutLeaves :
            /\ replicas[o] = {}
            /\ replicas' = [replicas EXCEPT ![o] = {[num |-> 0, leaf |-> l, good |-> TRUE]}]
      BY <2>3 DEF PutStep
    <3> DEFINE first == [num |-> 0, leaf |-> l, good |-> TRUE]
    <3>2. /\ replicas'[o] = replicas[o] \cup {first}
          /\ \A p \in Objects \ {o} : replicas'[p] = replicas[p]
      BY <3>1 DEF TypeOK
    <3>3. first.leaf = l /\ first.num \in Nat
      OBVIOUS
    <3> HIDE DEF first
    <3>4. Holders'[o] = Holders[o] \cup {l} /\ Home'[o] = l
      BY <3>1, <3>2, <3>3, PlaceCopied
    <3>5. Holders[o] = {}
      BY <3>1, PlaceOf
    <3>6. Holders' = [Holders EXCEPT ![o] = @ \cup {l}] /\ Home' = [Home EXCEPT ![o] = l]
      BY <2>1, <3>2, <3>4
    <3> QED BY <3>5, <3>6 DEF Place!Next, Place!Create, Place!CopyTo
  <2>4. CASE CopyStep
    <3>1. PICK o \in Objects, l \in Leaves : \E top \in replicas[o] :
            /\ IsTop(o, top) /\ At(o, l) = {}
            /\ replicas' = [replicas EXCEPT
                              ![o] = @ \cup {[num |-> top.num + 1, leaf |-> l, good |-> TRUE]}]
      BY <2>4 DEF CopyStep
    <3>2. PICK top \in replicas[o] :
            /\ IsTop(o, top) /\ At(o, l) = {}
            /\ replicas' = [replicas EXCEPT
                              ![o] = @ \cup {[num |-> top.num + 1, leaf |-> l, good |-> TRUE]}]
      BY <3>1
    <3> DEFINE new == [num |-> top.num + 1, leaf |-> l, good |-> TRUE]
    <3>3. /\ replicas'[o] = replicas[o] \cup {new}
          /\ \A p \in Objects \ {o} : replicas'[p] = replicas[p]
      BY <3>2 DEF TypeOK
    <3>4. \A x \in replicas[o] : x.num \in Nat /\ x.num <= top.num
      BY <3>2 DEF IsTop, TypeOK, Replica
    <3>5. new.leaf = l /\ new.num \in Nat /\ \A x \in replicas[o] : x.num < new.num
      BY <3>4
    <3> HIDE DEF new
    <3>6. Holders'[o] = Holders[o] \cup {new.leaf} /\ Home'[o] = new.leaf
      BY <3>3, <3>4, <3>5, PlaceCopied
    <3>7. new \in replicas'[o] /\ At(o, new.leaf) = {} /\ new.leaf \notin Holders[o] /\ replicas[o] # {}
      BY <3>2, <3>3, <3>5, PlaceOf
    <3>8. Holders' = [Holders EXCEPT ![o] = @ \cup {new.leaf}] /\ Home' = [Home EXCEPT ![o] = new.leaf]
      BY <2>1, <3>3, <3>6
    <3>9. Place!Stage(o) \/ Place!Restage(o)
      BY <3>7, <3>8, PlaceRoute
    <3> QED BY <3>9 DEF Place!Next
  <2>5. CASE TrimStep
    <3>1. PICK o \in Objects : \E gone \in SUBSET replicas[o] :
            /\ \A x \in gone : ~IsTop(o, x)
            /\ replicas' = [replicas EXCEPT ![o] = @ \ gone]
      BY <2>5 DEF TrimStep
    <3>2. PICK gone \in SUBSET replicas[o] :
            /\ \A x \in gone : ~IsTop(o, x)
            /\ replicas' = [replicas EXCEPT ![o] = @ \ gone]
      BY <3>1
    <3>3. /\ replicas'[o] = replicas[o] \ gone
          /\ \A p \in Objects \ {o} : replicas'[p] = replicas[p]
      BY <3>2 DEF TypeOK
    <3>4. Holders'[o] \subseteq Holders[o] /\ Home'[o] = Home[o] /\ (Holders[o] = {} \/ Home[o] \in Holders'[o])
      BY <3>2, <3>3, PlaceTrimmed
    <3> DEFINE trimmed == Holders[o] \ Holders'[o]
    <3>5. trimmed \in SUBSET (Holders[o] \ {Home[o]}) /\ Holders'[o] = Holders[o] \ trimmed
      BY <3>4
    <3>6. Holders' = [Holders EXCEPT ![o] = @ \ trimmed] /\ Home' = Home
      BY <2>0, <2>1, <3>3, <3>4, <3>5
    <3> QED BY <3>5, <3>6 DEF Place!Next, Place!Trim
  <2> QED BY <2>2, <2>3, <2>4, <2>5, CatalogSteps
<1>3. [Place!Next]_<<Holders, Home>> => [Place!Next]_Place!vars
  BY DEF Place!vars
<1> QED BY <1>1, <1>2, <1>3, TypeCorrect, TopSafeInvariant, RouteInvariant, PTL DEF Spec, PlaceSpec, Place!Spec
=============================================================================
