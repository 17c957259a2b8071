--------------------------- MODULE StorageTiering ---------------------------
(***************************************************************************)
(* The storage tiering rule bases (advanced/storage_tiering): the policy   *)
(* sweep that moves data objects down the tiers of their group, the        *)
(* post-PEPs that record accesses and queue a delayed rule to restage an   *)
(* object to its lowest tier, and the migration both of them run one       *)
(* micro-service at a time against the shared catalog.                     *)
(*                                                                         *)
(* The data server and the micro-services of the iRODS core are not in the *)
(* repository.  They are modelled from how the rules call them, and what   *)
(* the rules cannot know of them is a constant (ReplOnGoodCopy) or a       *)
(* nondeterministic choice (the leaf a resource votes for).                *)
(***************************************************************************)
EXTENDS Integers, Sequences, FiniteSets

CONSTANTS
  Objects,         \* data objects
  Leaves,          \* leaf storage resources
  Resources,       \* the resources rules name: the leaves and the tier roots
  LeavesOf,        \* [Resources -> non-empty sets of leaves]
  Groups,          \* tier groups
  Tiers,           \* [Groups -> Seq(Resources)], by increasing position
  ParentOf,        \* [Leaves -> Resources \cup {NoResource}]: what is left of
                   \* a leaf's hierarchy before the last ";"
  TierTime,        \* [Resources -> Nat \cup {NoTime}]: storage_tier_time
  QueryOf,         \* [Resources -> sets of leaves]: the leaves a stored
                   \* storage_tier_query names, {} when there is none
  PutLeaves,       \* leaves new objects may be created on
  Sweeps,          \* concurrent executions of apply_storage_tiering_policy
  Rules,           \* slots for delayed restage rules (bound)
  MaxAge,          \* ages saturate here (bound)
  MaxGets,         \* number of client gets (bound)
  MaxFaults,       \* number of injected failures (bound)
  ReplOnGoodCopy,  \* answers of msiDataObjRepl when the chosen destination
                   \* leaf already has a good replica: subset of {"ok","fail"}
  MayOverwrite,    \* whether clients overwrite objects (put -f)
  NoResource, NoTask

NoTime == -1
NoNum  == -1

Movers == Sweeps \cup Rules

Replica == [num : Nat, leaf : Leaves, good : BOOLEAN]
Task    == [obj : Objects, src : Resources, dst : Resources]

ASSUME ConstantsAssumption ==
  /\ Leaves \subseteq Resources
  /\ LeavesOf \in [Resources -> SUBSET Leaves]
  /\ \A r \in Resources : LeavesOf[r] # {}
  /\ \A l \in Leaves : LeavesOf[l] = {l}
  /\ Groups # {}
  /\ Tiers \in [Groups -> Seq(Resources)]
  /\ \A g \in Groups : Tiers[g] # << >>
  /\ NoResource \notin Resources
  /\ ParentOf \in [Leaves -> Resources \cup {NoResource}]
  /\ MaxAge \in Nat /\ MaxGets \in Nat /\ MaxFaults \in Nat
  /\ TierTime \in [Resources -> (0 .. MaxAge - 1) \cup {NoTime}]
  /\ QueryOf \in [Resources -> SUBSET Leaves]
  /\ PutLeaves \subseteq Leaves
  /\ Sweeps \cap Rules = {}
  /\ ReplOnGoodCopy \subseteq {"ok", "fail"}
  /\ MayOverwrite \in BOOLEAN
  /\ NoTask \notin Task

VARIABLES
  replicas,   \* replicas[o]: the replicas of o in the catalog
  age,        \* age[o]: time since the access_time AVU of o was set, NoTime without it
  pc,         \* pc[m]: next micro-service of mover m's migration
  task,       \* task[m]: the object it migrates, from where, to where
  num,        \* num[m]: the *repl_num it has read
  look,       \* look[m]: the leaves its query loop has still to look at
  at,         \* at[s]: which loop of the policy sweep s is in
  todo,       \* todo[s]: the rest of *group_list
  group,      \* group[s]: the tier group it processes
  idx,        \* idx[s]: the tier in it, counted from 1
  leaves,     \* leaves[s]: the leaves of the tier still to query
  rows,       \* rows[s]: the rows of the last query still to migrate
  offset,     \* offset[s]: the variable *time_offset
  gets,       \* client gets so far
  faults      \* injected failures so far

migs   == <<pc, task, num, look>>
cursor == <<at, todo, group, idx, leaves, rows, offset>>
counts == <<gets, faults>>
vars   == <<replicas, age, migs, cursor, counts>>

On(o, r) == {x \in replicas[o] : x.leaf \in LeavesOf[r]}

-----------------------------------------------------------------------------
SomeGroup == CHOOSE g \in Groups : TRUE   \* group[s] of an idle sweep

SrcOf(s) == Tiers[group[s]][idx[s]]
DstOf(s) == Tiers[group[s]][idx[s] + 1]

(* find_violating_storage_objects_*: atime < now - offset, that is         *)
(* age > offset, for the objects with a replica on one of the leaves.      *)
Violating(ls, off) ==
  {o \in Objects : age[o] > off /\ \E x \in replicas[o] : x.leaf \in ls}

(* get_resource_storage_tier_time assigns *time only when there is a row.  *)
OffsetKept(r, old) == IF old # NoTime THEN old ELSE TierTime[r]

OffsetFor(r, old) == IF TierTime[r] = NoTime THEN old ELSE TierTime[r]

-----------------------------------------------------------------------------
Init ==
  /\ replicas = [o \in Objects |-> {}]
  /\ age = [o \in Objects |-> NoTime]
  /\ pc = [m \in Movers |-> "idle"]
  /\ task = [m \in Movers |-> NoTask]
  /\ num = [m \in Movers |-> NoNum]
  /\ look = [m \in Movers |-> {}]
  /\ at = [s \in Sweeps |-> "idle"]
  /\ todo = [s \in Sweeps |-> {}]
  /\ group = [s \in Sweeps |-> SomeGroup]
  /\ idx = [s \in Sweeps |-> 0]
  /\ leaves = [s \in Sweeps |-> {}]
  /\ rows = [s \in Sweeps |-> {}]
  /\ offset = [s \in Sweeps |-> NoTime]
  /\ gets = 0
  /\ faults = 0

-----------------------------------------------------------------------------
(* Clients and time.  A put, a close and a get each set the access time in *)
(* their post-PEP (update_access_time_for_data_object).  When that fails   *)
(* the client gets an error, but what it did to the data stays done.       *)

Fault == faults < MaxFaults /\ faults' = faults + 1

msiset_avu(o) == age' = [age EXCEPT ![o] = 0] /\ UNCHANGED faults

AccessTimeFails == UNCHANGED age /\ Fault

UpdateAccessTime(o) == msiset_avu(o) \/ AccessTimeFails

Put(o) ==
  /\ replicas[o] = {}
  /\ \E l \in PutLeaves :
       replicas' = [replicas EXCEPT ![o] = {[num |-> 0, leaf |-> l, good |-> TRUE]}]
  /\ UpdateAccessTime(o)
  /\ UNCHANGED <<migs, cursor, gets>>

(* put -f writes one existing replica; the others become stale. *)
Overwrite(o) ==
  /\ MayOverwrite
  /\ \E x \in replicas[o] :
       replicas' = [replicas EXCEPT ![o] = {[num |-> y.num, leaf |-> y.leaf, good |-> (y = x)] : y \in @}]
  /\ UpdateAccessTime(o)
  /\ UNCHANGED <<migs, cursor, gets>>

Close(o) ==
  /\ replicas[o] # {}
  /\ UpdateAccessTime(o)
  /\ UNCHANGED <<replicas, migs, cursor, gets>>

(* get_tier_group_for_resource: a group the parent of the leaf read is a   *)
(* tier of (the last row when there are several).                          *)
GroupsOf(l) == {g \in Groups : \E i \in DOMAIN Tiers[g] : Tiers[g][i] = ParentOf[l]}

(* restage_object_to_lowest_tier: from the leaf that was read to the first *)
(* tier of the group, also when the leaf belongs to that tier.             *)
RestageToLast(o, x, g) == [obj |-> o, src |-> x.leaf, dst |-> Tiers[g][Len(Tiers[g])]]

RestageTask(o, x, g) == [obj |-> o, src |-> x.leaf, dst |-> Tiers[g][1]]

(* pep_api_data_obj_get_post; without the access time there is no restage. *)
GetNoRestage(o) ==
  /\ gets < MaxGets
  /\ \/ (\E x \in replicas[o] : x.good /\ GroupsOf(x.leaf) = {}) /\ msiset_avu(o)
     \/ (\E x \in replicas[o] : x.good) /\ AccessTimeFails
  /\ gets' = gets + 1
  /\ UNCHANGED <<replicas, migs, cursor>>

Get(o, d) ==
  /\ gets < MaxGets
  /\ pc[d] = "idle"
  /\ \E x \in replicas[o] : \E g \in GroupsOf(x.leaf) :
       /\ x.good
       /\ task' = [task EXCEPT ![d] = RestageTask(o, x, g)]
  /\ pc' = [pc EXCEPT ![d] = "queued"]
  /\ msiset_avu(o)
  /\ gets' = gets + 1
  /\ UNCHANGED <<replicas, num, look, cursor>>

Tick ==
  /\ \E o \in Objects : age[o] \in 0 .. MaxAge - 1
  /\ age' = [o \in Objects |-> IF age[o] \in 0 .. MaxAge - 1 THEN age[o] + 1 ELSE age[o]]
  /\ UNCHANGED <<replicas, migs, cursor, counts>>

-----------------------------------------------------------------------------
(* migrate_storage_object, one catalog or data operation at a time.  When  *)
(* it ends, with or without an error, its caller goes on: the sweep logs   *)
(* the error and takes the next row, the delayed rule logs it and is done. *)

FinishKeepsTask(m) ==
  /\ pc' = [pc EXCEPT ![m] = "idle"]
  /\ num' = [num EXCEPT ![m] = NoNum]
  /\ look' = [look EXCEPT ![m] = {}]
  /\ UNCHANGED task

Finish(m) ==
  /\ pc' = [pc EXCEPT ![m] = "idle"]
  /\ task' = [task EXCEPT ![m] = NoTask]
  /\ num' = [num EXCEPT ![m] = NoNum]
  /\ look' = [look EXCEPT ![m] = {}]

(* The delay server runs a queued rule. *)
StartRule(d) ==
  /\ pc[d] = "queued"
  /\ pc' = [pc EXCEPT ![d] = "read"]
  /\ look' = [look EXCEPT ![d] = LeavesOf[task[d].src]]
  /\ UNCHANGED <<replicas, age, task, num, cursor, counts>>

At(o, l) == {x \in replicas[o] : x.leaf = l}

(* get_replica_number_for_resource: one query for each leaf of the source, *)
(* and every row found overwrites *repl_num, which keeps "" when there is  *)
(* none.  The order of the leaves is the resource's.                       *)
NumbersRead(o, l, old) ==
  IF At(o, l) = {} THEN {old} ELSE {x.num : x \in At(o, l)}

ReadNum(m) ==
  /\ pc[m] = "read"
  /\ \E l \in look[m] :
       /\ \E n \in NumbersRead(task[m].obj, l, num[m]) : num' = [num EXCEPT ![m] = n]
       /\ look' = [look EXCEPT ![m] = @ \ {l}]
       /\ pc' = [pc EXCEPT ![m] = IF look[m] = {l} THEN "repl" ELSE "read"]
  /\ UNCHANGED <<replicas, age, task, cursor, counts>>

(* The stat of the new replica begins: all leaves of the destination.      *)
StartCheck(m) ==
  /\ pc' = [pc EXCEPT ![m] = "check"]
  /\ look' = [look EXCEPT ![m] = LeavesOf[task[m].dst]]

(* msiDataObjRepl reads a good replica on the source resource and writes   *)
(* leaf l of the destination, the resource's choice.                       *)
HasAnySource(m) == \E x \in replicas[task[m].obj] : x.good

HasSource(m) == \E x \in On(task[m].obj, task[m].src) : x.good

ReplNew(m) ==
  /\ pc[m] = "repl" /\ HasSource(m)
  /\ LET o == task[m].obj IN
     \E l \in LeavesOf[task[m].dst], top \in replicas[o] :
       /\ At(o, l) = {}
       /\ \A x \in replicas[o] : x.num <= top.num
       /\ replicas' = [replicas EXCEPT
                         ![o] = @ \cup {[num |-> top.num + 1, leaf |-> l, good |-> TRUE]}]
  /\ StartCheck(m)
  /\ UNCHANGED <<age, task, num, cursor, counts>>

(* A stale replica on the destination is updated in place. *)
ReplStale(m) ==
  /\ pc[m] = "repl" /\ HasSource(m)
  /\ LET o == task[m].obj IN
     \E x \in On(o, task[m].dst) :
       /\ ~x.good
       /\ replicas' = [replicas EXCEPT ![o] = (@ \ {x}) \cup {[num |-> x.num, leaf |-> x.leaf, good |-> TRUE]}]
  /\ StartCheck(m)
  /\ UNCHANGED <<age, task, num, cursor, counts>>

(* A good replica is there already: whether that is an error depends on    *)
(* the server.                                                             *)
GoodAtDestination(m) == \E x \in On(task[m].obj, task[m].dst) : x.good

ReplNoop(m) ==
  /\ pc[m] = "repl" /\ HasSource(m)
  /\ "ok" \in ReplOnGoodCopy /\ GoodAtDestination(m)
  /\ StartCheck(m)
  /\ UNCHANGED <<replicas, age, task, num, cursor, counts>>

ReplRefusedIgnored(m) ==
  /\ pc[m] = "repl"
  /\ ~HasSource(m) \/ ("fail" \in ReplOnGoodCopy /\ GoodAtDestination(m))
  /\ StartCheck(m)
  /\ UNCHANGED <<replicas, age, task, num, cursor, counts>>

ReplRefusedRetry(m) ==
  /\ pc[m] = "repl"
  /\ ~HasSource(m) \/ ("fail" \in ReplOnGoodCopy /\ GoodAtDestination(m))
  /\ pc' = [pc EXCEPT ![m] = "read"]
  /\ look' = [look EXCEPT ![m] = LeavesOf[task[m].src]]
  /\ UNCHANGED <<replicas, age, task, num, cursor, counts>>

ReplRefused(m) ==
  /\ pc[m] = "repl"
  /\ ~HasSource(m) \/ ("fail" \in ReplOnGoodCopy /\ GoodAtDestination(m))
  /\ Finish(m)
  /\ UNCHANGED <<replicas, age, cursor, counts>>

ReplFaultIgnored(m) ==
  /\ pc[m] = "repl" /\ Fault
  /\ StartCheck(m)
  /\ UNCHANGED <<replicas, age, task, num, cursor, gets>>

ReplFault(m) ==
  /\ pc[m] = "repl" /\ Fault
  /\ Finish(m)
  /\ UNCHANGED <<replicas, age, cursor, gets>>

(* check_for_replica queries the leaves of the destination one by one; the *)
(* first row found makes *safe_flg true, and the queries of the leaves     *)
(* after it change nothing any more.                                       *)
CheckOk(m) ==
  /\ pc[m] = "check"
  /\ \E l \in look[m] : At(task[m].obj, l) # {}
  /\ pc' = [pc EXCEPT ![m] = "unlink"]
  /\ look' = [look EXCEPT ![m] = {}]
  /\ UNCHANGED <<replicas, age, task, num, cursor, counts>>

CheckNext(m) ==
  /\ pc[m] = "check"
  /\ \E l \in look[m] :
       /\ At(task[m].obj, l) = {} /\ look[m] # {l}
       /\ look' = [look EXCEPT ![m] = @ \ {l}]
  /\ UNCHANGED <<replicas, age, pc, task, num, cursor, counts>>

CheckFails(m) ==
  /\ pc[m] = "check"
  /\ \E l \in look[m] : At(task[m].obj, l) = {} /\ look[m] = {l}
  /\ Finish(m)
  /\ UNCHANGED <<replicas, age, cursor, counts>>

(* msiDataObjUnlink with replNum=*repl_num removes the replica with that   *)
(* number, wherever it is by now.  An empty number is an error or, read as *)
(* an integer, number 0.                                                   *)
Numbered(o, n) == {x \in replicas[o] : x.num = (IF n = NoNum THEN 0 ELSE n)}

Unlink(m) ==
  /\ pc[m] = "unlink"
  /\ LET o == task[m].obj IN
     /\ Numbered(o, num[m]) # {}
     /\ replicas' = [replicas EXCEPT ![o] = @ \ Numbered(o, num[m])]
  /\ Finish(m)
  /\ UNCHANGED <<age, cursor, counts>>

UnlinkRefused(m) ==
  /\ pc[m] = "unlink"
  /\ num[m] = NoNum \/ Numbered(task[m].obj, num[m]) = {}
  /\ Finish(m)
  /\ UNCHANGED <<replicas, age, cursor, counts>>

UnlinkFault(m) ==
  /\ pc[m] = "unlink" /\ Fault
  /\ Finish(m)
  /\ UNCHANGED <<replicas, age, cursor, gets>>

Migrate(m) ==
  \/ ReadNum(m)
  \/ ReplNew(m) \/ ReplStale(m) \/ ReplNoop(m) \/ ReplRefused(m) \/ ReplFault(m)
  \/ CheckOk(m) \/ CheckNext(m) \/ CheckFails(m)
  \/ Unlink(m) \/ UnlinkRefused(m) \/ UnlinkFault(m)

-----------------------------------------------------------------------------
(* apply_storage_tiering_policy: for every group, for every tier but the   *)
(* last, for every leaf of the tier (or once, with a stored query), for    *)
(* every row of the query, migrate_storage_object to the next tier.        *)

Stop(s) ==
  /\ at' = [at EXCEPT ![s] = "idle"]
  /\ todo' = [todo EXCEPT ![s] = {}]
  /\ idx' = [idx EXCEPT ![s] = 0]
  /\ leaves' = [leaves EXCEPT ![s] = {}]
  /\ rows' = [rows EXCEPT ![s] = {}]
  /\ offset' = [offset EXCEPT ![s] = NoTime]
  /\ group' = [group EXCEPT ![s] = SomeGroup]

Launch(s) ==
  /\ at[s] = "idle"
  /\ at' = [at EXCEPT ![s] = "tier"]
  /\ \E g \in Groups : group' = [group EXCEPT ![s] = g] /\ todo' = [todo EXCEPT ![s] = Groups \ {g}]
  /\ idx' = [idx EXCEPT ![s] = 1]
  /\ UNCHANGED <<replicas, age, migs, leaves, rows, offset, counts>>

LastTierEarly(s) == idx[s] >= Len(Tiers[group[s]]) - 1

LastTier(s) == idx[s] >= Len(Tiers[group[s]])

NextGroup(s) ==
  /\ at[s] = "tier" /\ LastTier(s)
  /\ \E g \in todo[s] : group' = [group EXCEPT ![s] = g] /\ todo' = [todo EXCEPT ![s] = @ \ {g}]
  /\ idx' = [idx EXCEPT ![s] = 1]
  /\ UNCHANGED <<replicas, age, migs, at, leaves, rows, offset, counts>>

SweepDone(s) ==
  /\ at[s] = "tier" /\ LastTier(s) /\ todo[s] = {}
  /\ Stop(s)
  /\ UNCHANGED <<replicas, age, migs, counts>>

(* int() of a *time_offset that was never assigned fails the policy. *)
NoOffsetLoops(s) ==
  /\ at[s] = "tier" /\ ~LastTier(s)
  /\ OffsetFor(SrcOf(s), offset[s]) = NoTime
  /\ UNCHANGED vars

NoOffset(s) ==
  /\ at[s] = "tier" /\ ~LastTier(s)
  /\ OffsetFor(SrcOf(s), offset[s]) = NoTime
  /\ Stop(s)
  /\ UNCHANGED <<replicas, age, migs, counts>>

EnterTier(s) ==
  /\ at[s] = "tier" /\ ~LastTier(s)
  /\ QueryOf[SrcOf(s)] = {}
  /\ OffsetFor(SrcOf(s), offset[s]) # NoTime
  /\ offset' = [offset EXCEPT ![s] = OffsetFor(SrcOf(s), @)]
  /\ leaves' = [leaves EXCEPT ![s] = LeavesOf[SrcOf(s)]]
  /\ at' = [at EXCEPT ![s] = "leaves"]
  /\ UNCHANGED <<replicas, age, migs, todo, group, idx, rows, counts>>

(* A stored query replaces the queries of the leaves. *)
EnterTierByQuery(s) ==
  /\ at[s] = "tier" /\ ~LastTier(s)
  /\ QueryOf[SrcOf(s)] # {}
  /\ OffsetFor(SrcOf(s), offset[s]) # NoTime
  /\ offset' = [offset EXCEPT ![s] = OffsetFor(SrcOf(s), @)]
  /\ rows' = [rows EXCEPT ![s] = Violating(QueryOf[SrcOf(s)], OffsetFor(SrcOf(s), offset[s]))]
  /\ at' = [at EXCEPT ![s] = "rows"]
  /\ UNCHANGED <<replicas, age, migs, todo, group, idx, leaves, counts>>

QueryLeaf(s) ==
  /\ at[s] = "leaves"
  /\ \E l \in leaves[s] :
       /\ leaves' = [leaves EXCEPT ![s] = @ \ {l}]
       /\ rows' = [rows EXCEPT ![s] = Violating({l}, offset[s])]
  /\ at' = [at EXCEPT ![s] = "rows"]
  /\ UNCHANGED <<replicas, age, migs, todo, group, idx, offset, counts>>

NextTier(s) ==
  /\ at[s] = "leaves" /\ leaves[s] = {}
  /\ at' = [at EXCEPT ![s] = "tier"]
  /\ idx' = [idx EXCEPT ![s] = @ + 1]
  /\ UNCHANGED <<replicas, age, migs, todo, group, leaves, rows, offset, counts>>

TakeRow(s) ==
  /\ at[s] = "rows" /\ pc[s] = "idle"
  /\ \E o \in rows[s] :
       /\ rows' = [rows EXCEPT ![s] = @ \ {o}]
       /\ task' = [task EXCEPT ![s] = [obj |-> o, src |-> SrcOf(s), dst |-> DstOf(s)]]
  /\ pc' = [pc EXCEPT ![s] = "read"]
  /\ look' = [look EXCEPT ![s] = LeavesOf[SrcOf(s)]]
  /\ UNCHANGED <<replicas, age, num, at, todo, group, idx, leaves, offset, counts>>

RowsDone(s) ==
  /\ at[s] = "rows" /\ pc[s] = "idle" /\ rows[s] = {}
  /\ at' = [at EXCEPT ![s] = "leaves"]
  /\ UNCHANGED <<replicas, age, migs, todo, group, idx, leaves, rows, offset, counts>>

SweepStep(s) ==
  \/ Launch(s) \/ NextGroup(s) \/ SweepDone(s) \/ NoOffset(s)
  \/ EnterTier(s) \/ EnterTierByQuery(s) \/ QueryLeaf(s) \/ NextTier(s) \/ TakeRow(s) \/ RowsDone(s)

-----------------------------------------------------------------------------
(* A sweep that dies is gone; a delayed rule stays in the catalog until it *)
(* has been executed, and is executed again from its start.                *)

CrashSweep(s) ==
  /\ at[s] # "idle" /\ Fault
  /\ Stop(s)
  /\ Finish(s)
  /\ UNCHANGED <<replicas, age, gets>>

CrashRule(d) ==
  /\ pc[d] \notin {"idle", "queued"} /\ Fault
  /\ pc' = [pc EXCEPT ![d] = "queued"]
  /\ num' = [num EXCEPT ![d] = NoNum]
  /\ look' = [look EXCEPT ![d] = {}]
  /\ UNCHANGED <<replicas, age, task, cursor, gets>>

-----------------------------------------------------------------------------
Client ==
  \/ \E o \in Objects : Put(o) \/ Overwrite(o) \/ Close(o) \/ GetNoRestage(o)
  \/ \E o \in Objects, d \in Rules : Get(o, d)

Next ==
  \/ Client
  \/ Tick
  \/ \E m \in Movers : Migrate(m)
  \/ \E s \in Sweeps : SweepStep(s) \/ CrashSweep(s)
  \/ \E d \in Rules : StartRule(d) \/ CrashRule(d)

(* Time passes, the administrator launches the policy again and again, the *)
(* delay server takes queued rules, and a started rule goes on running.    *)
Fairness ==
  /\ WF_vars(Tick)
  /\ \A m \in Movers : WF_vars(Migrate(m))
  /\ \A s \in Sweeps : WF_vars(SweepStep(s))
  /\ \A d \in Rules : WF_vars(StartRule(d))

Spec == Init /\ [][Next]_vars
FairSpec == Spec /\ Fairness

-----------------------------------------------------------------------------
(* Every variable has its type; the bounds on gets and faults are kept.    *)
TypeOK ==
  /\ replicas \in [Objects -> SUBSET Replica]
  /\ age \in [Objects -> (0 .. MaxAge) \cup {NoTime}]
  /\ pc \in [Movers -> {"idle", "queued", "read", "repl", "check", "unlink"}]
  /\ task \in [Movers -> Task \cup {NoTask}]
  /\ \A m \in Movers : (pc[m] = "idle") <=> (task[m] = NoTask)
  /\ num \in [Movers -> Nat \cup {NoNum}]
  /\ look \in [Movers -> SUBSET Leaves]
  /\ \A m \in Movers : (pc[m] \in {"read", "check"}) <=> (look[m] # {})
  /\ at \in [Sweeps -> {"idle", "tier", "leaves", "rows"}]
  /\ todo \in [Sweeps -> SUBSET Groups]
  /\ group \in [Sweeps -> Groups]
  /\ idx \in [Sweeps -> Nat]
  /\ leaves \in [Sweeps -> SUBSET Leaves]
  /\ rows \in [Sweeps -> SUBSET Objects]
  /\ offset \in [Sweeps -> Nat \cup {NoTime}]
  /\ \A s \in Sweeps :
       /\ at[s] # "idle" => idx[s] >= 1
       /\ at[s] \in {"leaves", "rows"} => idx[s] < Len(Tiers[group[s]])
       /\ at[s] # "rows" => pc[s] = "idle"
  /\ gets \in 0 .. MaxGets
  /\ faults \in 0 .. MaxFaults

(* Tiering never removes the last replica of an object, however sweeps,    *)
(* restage rules, failures and re-executed rules interleave: the stat that *)
(* precedes the unlink (apply_storage_tiering.re, migrate_storage_object)  *)
(* is there for this.                                                      *)
NoDataLoss ==
  [][\A o \in Objects : replicas[o] # {} => replicas'[o] # {}]_vars

(* Some replica of every stored object holds its latest data: trimming the *)
(* source never leaves only stale replicas (migrate_storage_object).       *)
LatestKept ==
  \A o \in Objects : replicas[o] # {} => \E x \in replicas[o] : x.good

(* Why no replica is lost when msiDataObjRepl refuses good copies and      *)
(* nobody overwrites: the replica with the highest number is never a       *)
(* target, as the number a migration has read (get_replica_number_for_     *)
(* resource) is below it from the moment the copy is made.                 *)
IsTop(o, x) == x \in replicas[o] /\ \A y \in replicas[o] : y.num <= x.num

AllGood   == \A o \in Objects : \A x \in replicas[o] : x.good
HasTop    == \A o \in Objects : replicas[o] # {} => \E x \in replicas[o] : IsTop(o, x)
TaskHeld  == \A m \in Movers : pc[m] # "idle" => replicas[task[m].obj] # {}
RowsHeld  == \A s \in Sweeps : \A o \in rows[s] : replicas[o] # {}
Unread    == \A m \in Movers : pc[m] \in {"idle", "queued"} => num[m] = NoNum
BelowTop  == \A m \in Movers : pc[m] # "idle" =>
               \A x \in replicas[task[m].obj] : IsTop(task[m].obj, x) =>
                 /\ num[m] <= x.num
                 /\ pc[m] \in {"check", "unlink"} => num[m] < x.num /\ 0 < x.num
TopSafe   == AllGood /\ HasTop /\ TaskHeld /\ RowsHeld /\ Unread /\ BelowTop

(* Data only moves along its group: a leaf that gains a replica belongs to *)
(* the tier below one that holds the object, or to the lowest tier of a    *)
(* group that holds it, although the rows a sweep works through are stale  *)
(* (apply_storage_tiering_policy, restage_object_to_lowest_tier).          *)
OnTier(o, g, i) == i \in DOMAIN Tiers[g] /\ On(o, Tiers[g][i]) # {}
AlongTiers ==
  [][\A o \in Objects : replicas[o] # {} =>
       \A x \in replicas'[o] : At(o, x.leaf) # {} \/
         \E g \in Groups : \E i \in DOMAIN Tiers[g] :
           /\ x.leaf \in LeavesOf[Tiers[g][i]]
           /\ OnTier(o, g, i - 1) \/ (i = 1 /\ \E j \in DOMAIN Tiers[g] : OnTier(o, g, j))]_vars

(* The time t is that of a tier the launch has come to, in a group before  *)
(* or in this one up to the tier it works on.                              *)
PassedTime(s, t) ==
  /\ t # NoTime
  /\ \E g \in Groups \ todo[s] : \E i \in 1 .. Len(Tiers[g]) - 1 :
       (g = group[s] => i <= idx[s]) /\ t = TierTime[Tiers[g][i]]

(* A sweep only lists an object for migration when it is on the tier being *)
(* processed and has not been accessed for longer than this tier's time.   *)
(* The README wants a time on each tier.  Objects on a tier that has none  *)
(* are migrated all the same: *time_offset is then still the value of a    *)
(* tier the same launch passed before, maybe one of another group, never   *)
(* that of an earlier launch or none (get_resource_storage_tier_time).     *)
TierTimeApplied ==
  [][\A s \in Sweeps : \A o \in rows'[s] \ rows[s] :
       /\ On(o, SrcOf(s)) # {}
       /\ IF TierTime[SrcOf(s)] # NoTime THEN age[o] > TierTime[SrcOf(s)]
          ELSE \E t \in 0 .. MaxAge : PassedTime(s, t) /\ age[o] > t]_vars

(* README: an object that stays unaccessed is staged to the next tier and  *)
(* trimmed from the previous one.  So an object that nobody reads any more *)
(* ends up on the last tier of a group and nowhere else, as long as no     *)
(* call fails.                                                             *)
OnLastTier(o) ==
  \E g \in Groups : \A x \in replicas[o] : x.leaf \in LeavesOf[Tiers[g][Len(Tiers[g])]]
Settles ==
  \A o \in Objects :
    [](faults = 0 /\ gets = 0) /\ <>[](age[o] = MaxAge) => <>[]OnLastTier(o)

(* Every launch of the policy ends, whatever the migrations it performs    *)
(* meet, and so does every delayed restage rule.                           *)
PolicyEnds == \A s \in Sweeps : (at[s] # "idle") ~> (at[s] = "idle")
RulesEnd   == \A d \in Rules : (pc[d] # "idle") ~> (pc[d] = "idle")

(* get_restage_delay_parameters asks for the rule to be tried until it     *)
(* succeeds, up to 6 times: with fewer failures than that, an object whose *)
(* restage is queued is staged to the lowest tier of its group.            *)
RestageDone ==
  \A d \in Rules, o \in Objects, r \in Resources :
    (pc[d] = "queued" /\ task[d].obj = o /\ task[d].dst = r) ~> (On(o, r) # {})

(* The place of the data behaves as TieredReplicas promises, with the leaf *)
(* of the replica that has the highest number as the object's home: what   *)
(* migrations leave behind, in any interleaving, is a chain of stagings    *)
(* along the group and of trims that spare the latest copy.                *)
Tops(o) == {x \in replicas[o] : IsTop(o, x)}
Holders == [o \in Objects |-> {x.leaf : x \in replicas[o]}]
Home    == [o \in Objects |-> IF replicas[o] = {} THEN NoResource
                              ELSE (CHOOSE x \in Tops(o) : TRUE).leaf]
Place == INSTANCE TieredReplicas WITH holders <- Holders, home <- Home
PlaceSpec == Place!Spec
=============================================================================
