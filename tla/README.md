# Verification of the iRODS training rule bases

This directory holds TLA+ models of the policy code of the iRODS training
repository, the TLC configurations that check them, and proofs checked by
TLAPS.  Paths below are relative to `src/`.

## 1. The system

The repository is a set of policies for an iRODS data grid: rules in the iRODS
rule language and in Python, C++ micro-service and rule-engine plugins, and
shell scripts around a Slurm cluster.  Each policy is run by the iRODS server:
as a policy enforcement point (PEP) in the agent of a client, as a delayed rule
that the delay server takes from the catalog, or as a rule launched by an
administrator.  They share only the catalog (replicas, AVUs), the storage
resources and the file systems; the servers give them no locks, so two
policies interleave at every micro-service call.

| Component | State | Operations | What is hard |
|---|---|---|---|
| Storage tiering (`advanced/storage_tiering`) | replicas of data objects, access-time AVUs, tier AVUs of resources, the rule variables of a running sweep, queued delayed rules | put/close/get post-PEPs, restage rule, policy sweep, migration | sweep, restage rules and clients interleave; failures between copy and trim; re-executed rules |
| Tier catalog reading (same directory) | `*indicies`, `*resources`, shared by all groups of a sweep | group list, rows of a group, sort, stored query | stale map entries, order of positions |
| Landing zone (`advanced/landing_zone_microservices`) | files in two directories, data objects in the grid | glob and stability check, put, metadata, rename | writers that are still writing, failures between put and rename, overlapping ingests |
| Storage balancing (`advanced/irods_rule_engine_plugin_storage_balancing`, `*storage_balancing.*`) | bytes used per resource, context strings | vote of each child for a create | concurrent creates vote on the same usage; unsigned sums with unknown sizes, sums cut to an int; storage further below; one PEP that raises |
| Compute to data (`advanced/hpc_compute_to_data`) | input objects, their stamps, containers, registered results | pick input, stamp, run commands, stop, register | two dispatchers pick the same input; all write one report; failures after the stamp |
| Data to compute (`advanced/hpc_data_to_compute`) | replicas on archive, compute and long-term resources, Slurm jobs, their descriptors in the catalog | prolog, job, epilog, replicate, register, trim | a job that fails between prolog and epilog; jobs that share a directory; lists and snapshots that are old when a trim acts on them |
| Archive sync, EXIF ingest (`advanced/training.re`, `advanced/core.py`, `beginner`) | delayed rule per put, AVUs | put post-PEP | retry of the delayed rule |
| API example (`advanced/irods_api_example`) | connection, agent, the answer's pointer | connect, login, request, operation between two PEPs, disconnect | failures on every call, early exits, policies that skip the operation |
| Micro-service templates | none | parameter parsing | none beyond memory handling |

How they interact: the put/get/close PEPs of several components fire on the
same client calls; storage tiering, compute to data and data to compute all
move replicas through `msiDataObjRepl`, unlink or trim; storage balancing
decides on which leaf a create of any of them lands.  Their common interface
is the set of replicas of an object, and `StorageTiering` models it.

What makes each component correct:

* Storage tiering: no interleaving of a sweep, restage rules, client calls and
  failures loses the last replica or the last good replica; data moves along
  its group only, and the latest copy is never the one trimmed; no object leaves
  a tier before that tier's time, and a tier without a time uses one of a tier
  that the same launch passed before; every launch ends; an unaccessed object
  gets to the last tier and nowhere else; a restage that was asked for is done.
* Tier catalog reading: each group is processed with its own resources, all of
  them, in the numeric order of their positions.
* Landing zone: a file that is moved to the processed directory is stored,
  with its final content; a stable file is ingested at some time.
* Storage balancing: a resource without space votes zero; usage stays within
  the limit when creates do not overlap, and by how much it does not when they do.
* Compute to data: each input is processed at most once, and once for good; what
  is registered of a task that went well is whole.
* Data to compute: a product in the catalog keeps a whole good replica; results
  of a successful job are registered and stored long-term, whole; a job leaves
  no descriptor behind.
* API example: values are printed only if the operation ran; nobody calls
  without a login; no agent stays behind.

## 2. Modules

| Module | What it is | Source |
|---|---|---|
| `TieredReplicas` | abstract specification: staging to the next tier, restaging to the lowest, trimming all but the latest copy | what `storage_tiering/README.md` promises |
| `StorageTiering` | PEPs, delayed restage rules, policy sweep and migration, one micro-service at a time | `apply_storage_tiering.re`, `example_tiering_policy.re`, `apply_access_time.re`, `storage_tiering_configuration.re` |
| `StorageTieringProofs` | theorems about `StorageTiering`: no data is lost | |
| `TieringRoutesProofs` | theorems about `StorageTiering`: where data goes, what a sweep lists, and that `TieredReplicas` is implemented | |
| `TieringHelpers` | the pure functions of the rule base (`sort`, `replace`, leaves and parents of a hierarchy) | `apply_storage_tiering.re`, `msiget_leaf_resources.cpp` |
| `MCStorageTiering` | catalogs for TLC, computed from hierarchies and AVUs by `TieringHelpers` | |
| `TierGroups`, `MCTierGroups` | reading the tier groups of the catalog row by row | `apply_storage_tiering.re` |
| `TierGroupsProofs` | theorems about `TierGroups` | |
| `StoredQuery` | reference definition for `replace` | |
| `LandingZone`, `MCLandingZone` | writers, stability check, put, metadata, rename; overlapping ingests | `landing_zone.r` and its three micro-services |
| `LandingZoneProofs` | theorems about `LandingZone` | |
| `StorageBalancing`, `MCStorageBalancing` | votes of passthru resources for creates, in three implementations | C++ plugin, `storage_balancing.re`, `python_storage_balancing.py` |
| `StorageBalancingProofs` | theorems about `StorageBalancing` | |
| `ComputeToData`, `MCComputeToData` | tasks that pick, stamp, run, stop, register | `compute_to_data.py`, `compute_to_data_support.py`, `lib-microservice-register_as_admin.cpp` |
| `ComputeToDataProofs` | theorems about `ComputeToData` | |
| `ReplicaMoves` | the catalog of data to compute and `replicate_data_objects`, row by row | `compute_to_data_support.py` |
| `SlurmJobs`, `MCSlurmJobs` | jobs from the prolog to the epilog, over `ReplicaMoves` | `hpc_data_to_compute`: `slurm_prolog`, `slurm_epilog`, `convert.SLURM`, `irods_compute_functions`, `common.py`, `spawn_remote_slurm_jobs.r` |
| `SlurmJobsProofs` | theorems about `ReplicaMoves` and `SlurmJobs` | |
| `HelloApi`, `MCHelloApi` | client and plugin of the API example | `iapi_example.cpp`, `libapi-example.cpp` |
| `HelloApiProofs` | theorems about `HelloApi` | |

`MCStorageTiering` composes `StorageTiering` with `TieringHelpers`;
`StorageTiering` instantiates `TieredReplicas` under the mapping
`holders <- Holders`, the leaves of an object's replicas, and `home <- Home`, the
leaf of its replica with the highest number; `MCTierGroups` composes
`TierGroups` with `TieringHelpers`, whose order and sort it gives to
`TierGroups` as constants, and with `StoredQuery`; `SlurmJobs` extends
`ReplicaMoves`, so that epilogs and moves act on one catalog.

### 2.1 State and actions of `StorageTiering`

* `replicas`, `age` are the catalog: replicas with number, leaf and status, and
  the time since the access-time AVU was set (`NoTime` for an object without
  it).  `Put`, `Overwrite`, `Close`, `Get` and `GetNoRestage` are the client
  calls with their post-PEPs; `Get` queues a delayed rule for the group of the
  replica that was read.  Each PEP calls `msiset_avu`, or fails to
  (`AccessTimeFails`): what the client did stays, and a get queues nothing.
* A *mover* is a sweep or a restage rule.  `pc`, `task`, `num` are its place in
  `migrate_storage_object` and the rule variable `*repl_num`; `look` are the
  leaves that the loop around a query has still to ask for.  `ReadNum`, `Repl...`,
  `CheckOk`/`CheckNext`/`CheckFails`, `Unlink...` are the calls of
  `migrate_storage_object` in their order; each call, and each query of one leaf
  of a resource, is one step, as nothing locks the catalog between them.  Every error path (refused, failed, missing
  replica) is an action; `migrate_storage_object` swallows errors, so they end
  the migration and not the sweep.
* `at`, `todo`, `group`, `idx`, `leaves`, `rows`, `offset` are the loops and
  variables of `apply_storage_tiering_policy`.  `QueryLeaf` and
  `EnterTierByQuery` take the rows of a query at once, and `TakeRow` migrates
  them one by one, so rows become stale.  `offset` survives from one tier to the
  next, as the rule variable does; `NoOffset` is the failure of `int()` on a
  variable that was never assigned.  `PassedTime(s, t)` says that `t` is the time
  of a tier this launch has come to, and `TierTimeApplied` that a tier is left by its
  own time, or by such a one if it has none.
* `CrashSweep` ends a launch; `CrashRule` puts a delayed rule back in the queue.

### 2.2 State and actions of `TierGroups`

`avus` is the catalog; `ListGroups`, `StartGroup`, `ReadRow`, `SortIndicies` and
`UseGroup` are the steps of reading it.  `indicies` starts empty for every
group, `resources` does not.  Rows come in any order.  `SortUnits` and
`UnitLess`, the sort and the order of the positions, are constant operators:
`TierGroupsAssumption` says what `TierGroups` needs of them, and `MCTierGroups`
gives them the translations in `TieringHelpers`, `sort` and `StringLess`, for
which TLC evaluates the assumption.  Those are recursive, and so kept out of the
module that the proofs are about.  They say what the code does; what it should do
is the numeric order of `storage_tiering/README.md`, and `Position` is the number
that a unit stands for: `NumericTiers`, which the run `tier_positions` refutes, and
`SameDigitsTiers`, where the two orders agree.

### 2.3 State and actions of `LandingZone`

* `entry`, `size`, `quiet` are the file system, `stored`, `tagged` the grid.
  `Begin`, `Write` and `Close` are a writer, `Tick` is time in units of the sleep.
* For each execution of the rule: `globbed`, `sizes`, `slept` belong to
  `msiget_filepaths_from_glob` (`Glob`, `Check`, `CheckDone`), `listed`, `cur`,
  `real` are rule variables, `left` are the files `put_all_the_files` has still
  to put.
* `Connect`, `PutAFile`, `PutDone`, `GatherMeta`, `Rename` are the
  calls on the path without errors.  Every call can fail (`...Fails`,
  `PutRefused`, `PutGone`, `Throws`, `Crash`), in the way the code handles it:
  an entry that another execution has moved away is an exception of
  `fs::canonical` before its first file or after its last one, and an error in
  between.
  `hushed` is a history variable: entries with a failure that the code answers
  as success.

### 2.4 State and actions of `StorageBalancing`

`used` is what is stored below a passthru, `max_bytes` the context string,
`deep` says below which the storage is not a direct child, so that
`BytesUsed`, like the query, finds nothing.  A client creates an object
(`Create`, with a size that it may announce as -1), every passthru votes
(`Vote`), the root decides (`Resolve`, `Refuse`), and only then is the data
written and counted (`Register`, `WriteFails`).  In Python the bytes used are an
`int()` of the rule language, which wraps around (`AsInt`).  `VoteRaises` is a limit that
cannot be parsed, or that Python divides by; `QueryFails` a query that fails;
both end the create.  `Extend` and `Remove` change objects without a vote.
Weights are exact fractions instead of doubles, and the plugin's unsigned sum
is taken modulo `Modulus`.  `roomy` and `grown` are history variables.

### 2.5 State and actions of `ComputeToData`

`stamp`, `local`, `registered` are the catalog, `product` is the output directory
that all tasks share, with a product for each input and the `Report` that all of
them write (`task_config.json:16`), `running` are the containers.  A file is whole
when a command that wrote it ends and no other task is writing it (`Completed`).
The allowed indices are any integers, as in Python; `Strayed` are tasks with a
failed command that only an index outside `-1 .. L-1` excuses.  `Query`, `Stamp`, `Paths`,
`Run`, `Exec`, `ExecEnd`, `Stop`, `Reject`, `Register` are `container_dispatch`
in its order; `Raise` is an exception or a crash anywhere, which nothing
catches; `StopFails` is an error that `docker_stop` swallows.  `raised` and
`met` are history variables.

### 2.6 State and actions of `ReplicaMoves` and `SlurmJobs`

* `replicas` and `file` are the catalog and the files that registered replicas
  stand for.  A mover is one execution of `replicate_data_objects`: `StartMove`
  reads all rows, `AlreadyThere`, `CopyRow`, `SkipRow` and `RowRaises` are the
  branches of its loop, `TrimRow` the trim after a copy.  `CopyRowFails` and
  `TrimRowFails` are calls that raise, which nothing catches: the rule ends
  with the rows that are left ("failed").  `status` is `new_replication_status`,
  which some paths read before it is assigned ("raised").
* A job goes through `Prolog`, `SetSize`, `StartConvert`, `EndConvert`, and its
  epilog through `ReadSize`, `Register`, `Get`, `ReplicateProduct`, `GetAgain`,
  `TrimProduct` or `NothingTrimmed`, `Destroy`; `snap` is what the epilog read
  last and acts upon.  `CallFails` is an exception of a query, a registration or a trim,
  which ends the script.  `Cancel` takes it from anywhere to its epilog.  `desc`
  and `tmp` are the job descriptor in the catalog and the files in `/tmp`.
* `hit` and `spoiled` are history variables: jobs that a failure has hit, and
  products whose job was cancelled while it wrote or which another job's
  epilog registered.

### 2.7 State and actions of `HelloApi`

`pc`, `code`, `printed` are a run of `main`; `conn` is its connection and how it
ended; `agent`, `out`, `reply` are the agent, `*_out` and its answer, and `seen`
is the out parameter as each PEP got it.  `Connect`, `Login`, `Request`,
`Show`, `Disconnect` are the calls of `main`, `ConnectFails`, `LoginFails` and
`RequestFails` its early ends.  `PrePep`, `rs_hello_world`, `PostPep` are the call
in the agent.  `Break` and `Kill` are connections that break and clients that
are killed.

## 3. What is assumed of code outside the repository

* `msiDataObjRepl` onto a leaf without a replica adds a replica with the next
  number, onto a stale replica refreshes it; onto a good replica it answers as
  `ReplOnGoodCopy` says: "ok" without a change, or "fail".  `msiDataObjUnlink`
  removes the replica of a number; an empty number is an error or read as 0.
* A resource hierarchy may choose any of its leaves for a new replica.
* The delay server starts a queued rule at some time, again after a crash.
* The root resource creates on a child with the highest positive vote.
* A writer pauses at most `Pause` between two writes, and `Pause` is less than
  the sleep; every name is dropped once.
* A passthru resource has one child.  `int()` of the rule language holds the
  numbers of an integer type and wraps around; `double()` is exact for sums of bytes.
* `msiDataObjTrim` keeps the number of good replicas its caller asks for and
  deletes the file of a registered replica it trims; a copy is made from any
  good replica.  A call of either that fails raises an exception in a Python rule,
  and may have left a replica that is not good.
* Slurm runs the prolog before a job and the epilog after it, also after one
  that was cancelled or failed.
* A PEP before an operation may let it run, fail the call, or skip the
  operation, which leaves a null answer; one after it may fail the call.  The
  socket of a process that ends is closed, and its agent then ends.
* A registered directory brings every file in it that is not in the catalog,
  and perhaps those that are.

## 4. Runs

| Run | Question | Bounds and why they are enough |
|---|---|---|
| `tiering_safety` | Is data lost, does the inductive invariant hold, is `TieredReplicas` implemented, does an unaccessed object reach the last tier, and only that? | one object, three tiers and a spare resource, one sweep, two restage rules, one failure or crash: three movers on one object are what a wrong replica number needs; fair |
| `tiering_tree` | Does data move only along its groups, under which time is it listed, does every launch and every delayed rule end? | two groups that share an archive, one with three tiers, a root with leaves of different depth and a stored query, one with a first tier without `storage_tier_time`; overwrites, one read, one failure, both answers to a copy onto a good replica; fair |
| `tiering_overwrite` | Is a good replica kept under overwrites? (violated) | one object, one sweep |
| `tiering_restage_dropped` | Is a queued restage done, with one failure? (violated) | one rule |
| `tier_groups` | Is each group processed with its own resources, all of them, and in numeric order when its positions have the same number of digits? | two groups, two resources, four rows, positions of one and two digits |
| `tier_positions` | Is each group processed in numeric order? (violated) | the same with two rows |
| `landing_zone` | Is only complete data stored, nothing lost and everything ingested? | an image that grows once and a directory that grows by two files, two overlapping executions, one failure of any kind, fair |
| `landing_lost` | Is everything that was moved away in the grid? (violated) | one execution, one failure |
| `storage_balancing` | How far is a resource overfilled, and is a create refused without need? | two interchangeable clients, two resources, five pairs of limits (none, 0, unreadable, ordinary, and storage further below), sizes 1 and 2, known or not, one extension, three implementations; the plugin's sums wrap at 64, far above what is stored, and those of Python at 6, which an extension reaches |
| `compute_to_data` | When is an input processed twice, who registers, what is left behind? | two tasks, two inputs that earlier launches may have stamped, four commands, one report for all, allowed indices none, {-1}, {0, -1} or {-3}, two exceptions or failed kills |
| `slurm_jobs` | Does a product keep a whole good replica, are copies whole, do moves leave rows out, do jobs clean up, do products arrive? | two jobs of two sizes or of one, one call of `replicate_data_objects` with any arguments, one failing call or cancellation, fair; two jobs and one mover are what an old list and an old snapshot need |
| `hello_api` | What does a client print, who calls, which agents stay behind? | two clients, the plugin on any side, two failures, fair |

Ages, gets, failures and sizes are bounded in the guards (`MaxAge`, `MaxGets`,
`MaxFaults`, `MaxSize`); ages and quiet times saturate instead of stopping time.

Deadlock is checked everywhere but in `tier_groups`, `tier_positions`,
`compute_to_data`, `slurm_jobs` and `hello_api`, where what was started ends and is not started
again.

### 4.1 What the runs show

* With a server that refuses a copy onto a good replica, and without overwrites,
  no interleaving loses a replica that is needed.  This rests on replica
  numbers: a migration trims a number that is below the highest one
  (`TopSafe`), as replication hands out increasing numbers.
* Under the same conditions every step is one of `TieredReplicas`: data is staged
  to the next tier of a group that holds it or restaged to the lowest one, and
  what is trimmed is never the latest copy, whichever movers overlap.
* Data only moves along its groups even with overwrites and both answers.
* A tier is left by its own time.  `storage_tiering/README.md` wants one on each
  tier; on a tier without one an object goes by the time of a tier that the
  same launch passed before, perhaps in another group, or the launch fails
  (`TierTimeApplied`).
* `Settles` is about objects that nobody reads, while no call fails.  A single
  failed unlink is never repaired, as the next sweep's copy is refused and its
  trim not reached; a restage in the middle of a sweep can leave two replicas
  for the same reason.
* A landing zone entry is lost only by a failure that
  `msiput_dataobj_or_coll` answers as success; two executions of the rule, a
  crash and all other failures are harmless.  An incomplete file is stored only
  if its writer pauses for longer than the sleep: the age of a file is compared
  with the sleep, as `libmsiget_filepaths_from_glob.cpp:68` parses it from
  `_seconds_delay`, so `*file_age_seconds` (`landing_zone.r:4`) has no effect.
* A put whose access time cannot be set leaves an object that no query lists: it
  stays on its tier until an access sets the time (`TierTimeApplied`).
* One create alone never reaches `max_bytes`; each further client that was
  granted before the data of the others was written adds one object.  Python
  leaves the new object out of the sum and so exceeds the limit by one more, and
  so does the announced size -1.  In the plugin -1 onto an empty resource is the
  largest number, and the resource refuses the object although it has room.
  Storage that is not a direct child, and objects that grow, are not limited.
  In Python, an object that grows past the largest int makes the resource look
  empty, and nothing limits it from then on.
* An input is processed twice only if two tasks were between the query and the
  stamp at once.  Exactly the tasks whose mandatory commands succeeded register, but
  for an allowed index outside `-1 .. L-1`: with it the loop over the commands stops at
  one that the verdict excuses, and results are registered although the commands
  after it were not run (`VerdictRight`).  All tasks share one directory, which is
  registered whole: a task takes along a file cut short only of an earlier launch, or
  of a task that is writing or failed (`PartialExplained`); for the shared report
  that may be any task.
* No interleaving of epilogs and moves takes the last whole copy of a product,
  although both act on what they read before: trims keep one good copy, and a copy
  that fails part way is not good (`WholeKept`).  A copy is cut short
  only if a job was cancelled while it wrote, if two jobs make the same size, or
  if a failed query made an epilog register another job's product.  A move that
  names its source never meets the unassigned `new_replication_status` and leaves
  no row out (`MovesComplete`); it does stop half way when a call raises.
* The client of the API example leaves its agent without `rcDisconnect` only
  after a failed request, with exit status 0 (`iapi_example.cpp:83-85`).

### 4.2 Fairness

* `StorageTiering`: the policy is launched again and again by an administrator or
  a scheduler (`launch_storage_tiering.r`), a started launch or rule goes on
  running, the delay server takes queued rules, time passes.
* `LandingZone`: writers finish, time passes, and the rule is started again and
  again.  `landing_zone.r:2` holds the delay clause for that ("5m REPEAT FOR
  EVER") in a comment; without it an administrator starts the rule.
* `SlurmJobs`: Slurm runs every job to its end.  Cancelling a job and calling a
  mover are not fair.
* `HelloApi`: processes that can go on do; breaking and killing are not fair.
* The other components have safety properties only, and no fairness.

### 4.3 Findings

1. `apply_storage_tiering.re:190` takes a stale replica for a copy; an overwrite
   during a migration leads to the loss of the only good replica.
2. `apply_storage_tiering.re:265` catches the error that should make the delay
   server try a restage again.
3. `apply_storage_tiering.re:42` compares positions as strings, so that a group
   with the positions 2 and 10 is processed as 10, 2; `storage_tiering/README.md:45`
   says the unit is a numeric position.
4. `libmsiput_dataobj_or_coll.cpp` answers success when connecting, creating a
   collection or putting a nested file failed; the rule then moves the entry away.

Seen while reading, without a run of their own:

* a restage queued by a get from the lowest tier migrates from a tier to itself,
  and only the refusal of `msiDataObjRepl` keeps the data;
* in Python, `max_bytes` of "0" is divided by (`python_storage_balancing.py:28`);
* an allowed index below -1 excuses a command in the verdict although the
  commands after it were not run (`compute_to_data.py:24,289`);
* findBytesUsed takes `int()` of a number of bytes
  (`python_storage_balancing.re:18`), where `storage_balancing.re:18` takes `double()`;
* `new_replication_status` may be unassigned (`compute_to_data_support.py:251`);
  `MovesComplete` says when;
* `*file_age_seconds` is parsed from the wrong parameter, see 4.1;
* a name that is dropped into the landing zone a second time is refused
  (`libmsiput_dataobj_or_coll.cpp:76` passes no `forceFlag`), and of a directory
  the refusal is answered as success.

## 5. Proofs

Every safety property that a passing run checks is also a theorem, for all sets
of objects, resources, tasks, clients and so on, and for all bounds.  The
constants are as the `ASSUME`s of the modules say; TLC evaluates those on every
run.  What else a theorem needs is its hypothesis, and is in the last column.

| Module | Theorem | States | Needs |
|---|---|---|---|
| `StorageTieringProofs` | `TypeCorrect` | `Spec => []TypeOK` | |
| | `TopSafeInvariant` | `Spec => []TopSafe` | `Cautious` |
| | `DataKept` | `Spec => NoDataLoss` | `Cautious` |
| | `LatestIsKept` | `Spec => []LatestKept` | `Cautious` |
| `TieringRoutesProofs` | `ListedByTime` | `Spec => TierTimeApplied` | `QueriesOwn` |
| | `MovesAlongTiers` | `Spec => AlongTiers` | `ParentsHold` |
| | `PlaceRefinement` | `Spec => PlaceSpec` | `Cautious`, `ParentsHold` |
| `TierGroupsProofs` | `RowsAllKept` | `Spec => []PositionsKept` | |
| | `OwnResources` | `Spec => []GroupTiers` | |
| | `NumericOrder` | `Spec => []SameDigitsTiers` | |
| `LandingZoneProofs` | `TypeCorrect` | `Spec => []TypeOK` | |
| | `StoredWhole` | `Spec => []Whole` | `Pause < Delay` |
| | `LostOnly` | `Spec => []LostOnlyByHush` | `Pause < Delay` |
| `StorageBalancingProofs` | `TypeCorrect` | `Spec => []TypeOK` | |
| | `RefusedOnlyWhenFull` | `Spec => []RefusedWhenFull` | |
| | `FilledToCeiling` | `Spec => []Filled` | |
| `ComputeToDataProofs` | `TypeCorrect` | `Spec => []TypeOK` | |
| | `OneTask` | `Spec => []OneTaskPerInput` | |
| | `ContainersStopped` | `Spec => []NoContainerLeft` | |
| | `VerdictIsRight` | `Spec => VerdictRight` | |
| | `PartialIsExplained` | `Spec => PartialExplained` | `WritesCount`, a command that writes |
| | `OwnProductIsWhole` | `Spec => OwnProductWhole` | `WritesCount`, `MakesProduct` |
| `SlurmJobsProofs` | `TypeCorrect` | `Spec => []TypeOK` | |
| | `ProductsKept` | `Spec => WholeKept` | |
| | `MovesHandleAll` | `Spec => []MovesComplete` | |
| | `CopiesAreWhole` | `Spec => []CopiesWhole` | |
| | `JobsEndClean` | `Spec => []CleanEnd` | |
| `HelloApiProofs` | `TypeCorrect` | `Spec => []TypeOK` | |
| | `PrintedHasRun` | `Spec => []PrintedRan` | |
| | `CallersKnown` | `Spec => []CallsKnown` | |
| | `LeftOnlyAfterFailure` | `Spec => []LeftAfterFailure` | |

The proofs have one form: an inductive invariant that TLC has found to hold on
the instance of the component's run, a lemma for each group of actions that says
what they leave of it, and a theorem that puts the lemmas together.

### 5.1 The hypotheses

* `Cautious`: `msiDataObjRepl` refuses to replicate onto a good replica, and
  clients do not overwrite.  Both are needed: with overwrites the run
  `tiering_overwrite` loses the good replica, and without the refusal a migration
  from the lowest tier to itself trims what it found.  The routes of data need
  neither.
* `QueriesOwn`: a query stored on a tier names leaves of that tier.  It is text
  that an administrator wrote, which the rule base runs as it is; the example
  of `storage_tiering/README.md:77` names the leaves of its own tier.
* `ParentsHold`: the resource found in front of a leaf has that leaf below it, as
  `ParentOfHier` finds it in a hierarchy.
* `Pause < Delay`: a writer pauses for less than `*delay_seconds` between two
  writes.  Nothing else tells the rule that a file is finished.
* `WritesCount`: no allowed index excuses a command that writes, as in the shipped
  `task_config.json`.
* `MakesProduct(w)`: command `w` writes the product and no later one removes it, as
  in the shipped `task_config.json`.

### 5.2 The invariants

**Storage tiering, data.**  "No step removes the last replica" is not inductive:
the step that could is an unlink whose number was read several steps before.
`TopSafe` says why it is safe.  All replicas are good (`AllGood`), each stored
object has one with the highest number (`HasTop`), what a mover works on or a
sweep has listed is stored (`TaskHeld`, `RowsHeld`), and the number a mover has
read is at most the highest one, and below it from the copy on (`BelowTop`).

**Storage tiering, routes.**  `CursorInv`: while a sweep works on a tier, the
leaves it has still to query are of that tier, and `*time_offset` is the tier's own
time, or that of a tier passed before if it has none.  `RouteInv`: a task goes from a
tier of a group to the next, or to the lowest tier of a group from a leaf of one of its
tiers.  The refinement of `TieredReplicas` puts `TopSafe` and `RouteInv` together: the
copy a migration makes gets the highest number and is the new home, on a tier that
`Route` allows, and the number it trims is below it.

**Tier groups.**  `GroupsInv`: while a group is read, `*indicies` holds one position
for each row read so far, and `*resources` has for each of them an entry that
such a row wrote, so entries of earlier groups are not looked at.  The sort takes
a list and gives a permutation in the order of strings (`TierGroupsAssumption`); as
the positions of the group are distinct, this order is strict, and among
positions of the same number of digits it is the numeric one.

**Landing zone.**  `Recorded`: a recorded size is at most the present one; an entry
whose files still have the recorded sizes has been quiet for as long as the
ingest has slept; an open entry has been quiet for at most `Pause`.  With
`Pause < Delay` what is listed is finished (`ListedFinished`), and `Whole` follows.
`PutSoFar` follows an entry through put, metadata and rename: what is not in
`left` is in the grid, unless the entry is hushed.

**Storage balancing.**  `RefusalInv`: resources counted as roomy have room for as
long as the create lasts, and each of them that has voted has voted positively,
in each implementation, unless the plugin was given no size (`RoomyVotes`).
`FilledInv`: per resource that the PEP can count, what is stored and what is granted
but not written is below the limit plus the largest size times the number of clients that can have been
granted at once (`AllFit`, `LastFits`).  An order of the grants is not needed,
as each was given on what was stored at that time and usage only grows by them.
The constants need a largest size and a modulus that sums of known sizes do not
reach.  `BytesFound`: `int()` never makes a sum larger, and below its largest number
leaves it as it is.

**Compute to data.**  `OneTaskInv` adds to `OneTaskPerInput` that a taken input is
stamped, that two tasks that both stand before the stamp have met, and that a task
with a taken input on its list has met the taker.  `StoppedInv` adds to
`NoContainerLeft` the moment between `docker_stop` and the verdict.  `CodesInv`: at
the end each command has a code, or the last code is an error that the loop did not
excuse; from it and the remainders of Python (`Modulo`) both readings of the allowed
indices agree on `-1 .. L-1`.  `PartialInv`: who left a product or the report
incomplete is an earlier launch, or a task that writes it, was hit by an exception or
had its write fail.  `OwnInv`: a task without a rival on its
input finds the product whole once its command `w` is done.

**Moves and jobs.**  `CatalogInv`: the replicas of an object are `WellFormed`: numbers
are unique and bounded, so a new number is new, a trim by number removes one replica
and leaves a good one, and a replica that stands for a file has its file.
`MovesInv`: a mover with a named source has one row of each object (`OneRowEach`).
`CopiesInv`: a product that no cancelled job and no other job has touched is never a part
once it is made, in its file and in any good replica.  With `WellFormed` that is a whole
good replica for every object in the catalog, which is `WholeKept`.  `MadeInv`: from the
end of a job that nothing has hit its product is in the catalog or in its file.  `DescInv` and `ProductInv` say for each point of a job that no
failure has hit what it has in the catalog and in `/tmp`.

**API example.**  `HelloInv` follows a call: before it is sent nothing of it has
happened, the operation runs between the two PEPs, and who is past the login is
public or known.

### 5.3 What is only model-checked

* Liveness: `Settles`, `PolicyEnds`, `RulesEnd`, `Ingested`, `Arrives`,
  `AgentsEnd`.  The prover does not reason about fairness and `ENABLED`.
* The recursive functions of `TieringHelpers`: that `sort` and `StringLess` meet
  `TierGroupsAssumption`, and that `replace` meets `EveryMarkerReplaced`
  (`ReplaceAssumption`), are checked on all lists of at most four positions and
  all queries of at most eight tokens.  A proof is an induction over data, which the
  prover cannot do.
* The four properties that are violated.

## 6. Not modelled

* `do_replicate_input` of the job scripts: with the shipped `job_params.json` it
  hands a list to the replication as the name of a resource, and the
  configuration lacks `input_repl_wait`, so it fails before it changes anything.
* A second drop of a name into the landing zone, and nested directories in it.
* More than one child of a passthru resource.
* Archive sync and EXIF ingest: one call per put; the retry of delayed rules is
  in `StorageTiering`.
* Micro-service templates: no state.  The image metadata is a constant string;
  that it is attached to the right object is in `LandingZone`.
* Cluster installation, build files, course text.
* Access checks of `container_dispatch`, plugin registration, query plumbing, the
  search for a host of `spawn_remote_slurm_jobs.r`, parsing of parameters,
  logging.

## 7. Plan

Modelled: tier catalog and storage tiering, landing zone, storage balancing,
compute to data, moves of replicas and Slurm jobs, the API example.

All their safety properties are proved.  Left to do:

1. An abstract specification of what `LandingZone` and `SlurmJobs` promise (an
   entry is nowhere, arriving, stored; a product is nowhere, at `img`, long-term),
   with the refinements, checked and proved over `LandingInv` and `ProductInv`.
2. `TopSafe` without `Cautious`, restricted to objects that nobody overwrites.
