---------------------------- MODULE LandingZone ----------------------------
(***************************************************************************)
(* The landing zone (advanced/landing_zone_microservices): writers drop    *)
(* files and directories into a directory; the rule ingest_rule, started   *)
(* again and again, looks for entries that have stopped growing, puts them *)
(* into the grid, attaches metadata to images and moves the entry to the   *)
(* directory of processed ones.  Several executions of the rule may        *)
(* overlap.  Time is counted in units of the sleep; every name is dropped  *)
(* once.                                                                   *)
(*                                                                         *)
(* Writers and the iRODS server are not in the repository.  A writer is    *)
(* assumed to pause at most Pause units between two writes.                *)
(***************************************************************************)
EXTENDS Naturals, FiniteSets

CONSTANTS
  Entries,    \* what the glob can match: files and directories
  Dirs,       \* those that are directories
  Images,     \* files whose extension is that of an image
  Files,      \* the regular files
  FilesOf,    \* [Entries -> SUBSET Files]; a plain entry is one file
  Ingests,    \* concurrent executions of ingest_rule
  Delay,      \* *delay_seconds
  Pause,      \* longest pause of a writer
  MaxSize,    \* [Files -> Nat]: how far the files grow (bound)
  Failures,   \* what may fail (see Fail)
  MaxFaults,  \* number of failures (bound)
  NoFile, NoEntry

MaxQuiet == (IF Pause > Delay THEN Pause ELSE Delay) + 1   \* quiet saturates here
Kinds    == {"mkcoll", "connect", "coll", "put_file", "put_nested", "meta", "crash"}

ASSUME LandingAssumption ==
  /\ Dirs \subseteq Entries /\ Images \subseteq Entries \ Dirs
  /\ FilesOf \in [Entries -> SUBSET Files]
  /\ \A e \in Entries \ Dirs : \E f \in Files : FilesOf[e] = {f}
  /\ \A e, d \in Entries : e # d => FilesOf[e] \cap FilesOf[d] = {}
  /\ Delay \in Nat \ {0} /\ Pause \in Nat \ {0}
  /\ MaxSize \in [Files -> Nat] /\ MaxFaults \in Nat
  /\ Failures \subseteq Kinds
  /\ NoFile \notin Nat /\ NoEntry \notin Entries

VARIABLES
  entry,    \* entry[e]: "absent", "open" (being written), "closed", "processed"
  size,     \* size[f]: size of the file, NoFile before it is created
  quiet,    \* quiet[e]: time since e was last written
  stored,   \* stored[f]: what the data object of f holds
  tagged,   \* images whose data object has its metadata
  pc,       \* pc[i]: next operation of ingest i
  globbed,  \* globbed[i]: matched entries still to check
  sizes,    \* sizes[i]: sizes recorded before the sleep
  slept,    \* slept[i]: time slept
  listed,   \* listed[i]: the rest of *the_files
  cur,      \* cur[i]: *f
  left,     \* left[i]: files of *f still to put
  real,     \* real[i]: *real_path
  hushed,   \* entries one of whose failures was answered as success (history)
  faults    \* failures so far

disk   == <<entry, size, quiet>>
grid   == <<stored, tagged>>
scan   == <<globbed, sizes, slept>>
ingest == <<pc, listed, cur, left, real>>
blame  == <<hushed, faults>>
vars   == <<disk, grid, scan, ingest, blame>>

Present == {e \in Entries : entry[e] \in {"open", "closed"}}
OnDisk(e) == {f \in FilesOf[e] : size[f] # NoFile}
NoSizes == [f \in Files |-> NoFile]

-----------------------------------------------------------------------------
Init ==
  /\ entry = [e \in Entries |-> "absent"]
  /\ size = NoSizes
  /\ quiet = [e \in Entries |-> 0]
  /\ stored = NoSizes
  /\ tagged = {}
  /\ pc = [i \in Ingests |-> "idle"]
  /\ globbed = [i \in Ingests |-> {}]
  /\ sizes = [i \in Ingests |-> NoSizes]
  /\ slept = [i \in Ingests |-> 0]
  /\ listed = [i \in Ingests |-> {}]
  /\ cur = [i \in Ingests |-> NoEntry]
  /\ left = [i \in Ingests |-> {}]
  /\ real = [i \in Ingests |-> NoEntry]
  /\ hushed = {}
  /\ faults = 0

-----------------------------------------------------------------------------
(* Writers and time.                                                       *)

Begin(e) ==
  /\ entry[e] = "absent"
  /\ entry' = [entry EXCEPT ![e] = "open"]
  /\ size' = [f \in Files |-> IF f \in FilesOf[e] /\ e \notin Dirs THEN 0 ELSE size[f]]
  /\ quiet' = [quiet EXCEPT ![e] = 0]
  /\ UNCHANGED <<grid, scan, ingest, blame>>

(* A file is created in a directory, or grows. *)
Write(e) ==
  /\ entry[e] = "open"
  /\ \E f \in FilesOf[e] :
       /\ size[f] # MaxSize[f]
       /\ size' = [size EXCEPT ![f] = IF @ = NoFile THEN 0 ELSE @ + 1]
  /\ quiet' = [quiet EXCEPT ![e] = 0]
  /\ UNCHANGED <<entry, grid, scan, ingest, blame>>

Close(e) ==
  /\ entry[e] = "open"
  /\ entry' = [entry EXCEPT ![e] = "closed"]
  /\ UNCHANGED <<size, quiet, grid, scan, ingest, blame>>

Tick ==
  /\ \A e \in Entries : entry[e] = "open" => quiet[e] < Pause
  /\ quiet' = [e \in Entries |-> IF e \in Present /\ quiet[e] < MaxQuiet THEN quiet[e] + 1 ELSE quiet[e]]
  /\ slept' = [i \in Ingests |-> IF pc[i] = "sleep" /\ slept[i] < Delay THEN slept[i] + 1 ELSE slept[i]]
  /\ UNCHANGED <<entry, size, grid, globbed, sizes, ingest, blame>>

-----------------------------------------------------------------------------
(* msiget_filepaths_from_glob.                                             *)

Fail(kind) == kind \in Failures /\ faults < MaxFaults /\ faults' = faults + 1
Hush(i)    == hushed' = hushed \cup {cur[i]}

(* add_file_sizes; without any regular file there is nothing to do.        *)
Glob(i) ==
  /\ pc[i] = "idle"
  /\ \E e \in Present : OnDisk(e) # {}
  /\ globbed' = [globbed EXCEPT ![i] = Present]
  /\ sizes' = [sizes EXCEPT ![i] =
                 [f \in Files |-> IF \E e \in Present : f \in FilesOf[e] THEN size[f] ELSE NoFile]]
  /\ slept' = [slept EXCEPT ![i] = 0]
  /\ pc' = [pc EXCEPT ![i] = "sleep"]
  /\ UNCHANGED <<disk, grid, listed, cur, left, real, blame>>

(* is_it_done: every file that is there has the size recorded for it.      *)
IsItDoneInverted(i, e) == \A f \in OnDisk(e) : sizes[i][f] # size[f]

IsItDone(i, e) == \A f \in OnDisk(e) : sizes[i][f] = size[f]

(* A plain file must also be older than second_proc_wait, which is read    *)
(* from the parameter _seconds_delay, not from _second_proc_wait: the rule *)
(* passes *file_age_seconds in vain.                                       *)
second_proc_wait == Delay

RipeByAge(i, e) == e \in Dirs \/ quiet[e] > second_proc_wait

Ripe(i, e) == IsItDone(i, e) /\ (e \in Dirs \/ quiet[e] > second_proc_wait)

Check(i) ==
  /\ pc[i] = "sleep" /\ slept[i] = Delay
  /\ \E e \in globbed[i] :
       /\ globbed' = [globbed EXCEPT ![i] = @ \ {e}]
       /\ listed' = [listed EXCEPT ![i] = IF e \in Present /\ Ripe(i, e) THEN @ \cup {e} ELSE @]
  /\ UNCHANGED <<disk, grid, sizes, slept, pc, cur, left, real, blame>>

CheckDone(i) ==
  /\ pc[i] = "sleep" /\ slept[i] = Delay /\ globbed[i] = {}
  /\ pc' = [pc EXCEPT ![i] = "next"]
  /\ sizes' = [sizes EXCEPT ![i] = NoSizes]
  /\ slept' = [slept EXCEPT ![i] = 0]
  /\ UNCHANGED <<disk, grid, globbed, listed, cur, left, real, blame>>

-----------------------------------------------------------------------------
(* ingest_rule: the loop over *the_files, with msiput_dataobj_or_coll.     *)

Goto(i, l) == pc' = [pc EXCEPT ![i] = l]

(* The body of the loop ends for *f. *)
EndEntry(i) == Goto(i, "next") /\ cur' = [cur EXCEPT ![i] = NoEntry]

NextEntry(i) ==
  /\ pc[i] = "next"
  /\ \E e \in listed[i] :
       /\ cur' = [cur EXCEPT ![i] = e]
       /\ listed' = [listed EXCEPT ![i] = @ \ {e}]
  /\ Goto(i, "connect")
  /\ UNCHANGED <<disk, grid, scan, left, real, blame>>

Stop(i) ==
  /\ Goto(i, "idle")
  /\ globbed' = [globbed EXCEPT ![i] = {}]
  /\ sizes' = [sizes EXCEPT ![i] = NoSizes]
  /\ slept' = [slept EXCEPT ![i] = 0]
  /\ listed' = [listed EXCEPT ![i] = {}]
  /\ cur' = [cur EXCEPT ![i] = NoEntry]
  /\ left' = [left EXCEPT ![i] = {}]
  /\ real' = [real EXCEPT ![i] = NoEntry]

IngestDone(i) ==
  /\ pc[i] = "next" /\ listed[i] = {}
  /\ Stop(i)
  /\ UNCHANGED <<disk, grid, blame>>

(* rsMkCollR of the target collection changes nothing but when it fails;   *)
(* its error is returned.                                                  *)
MakeCollFails(i) ==
  /\ pc[i] = "connect" /\ Fail("mkcoll")
  /\ EndEntry(i)
  /\ UNCHANGED <<disk, grid, scan, listed, left, real, hushed>>

Connect(i) ==
  /\ pc[i] = "connect" /\ cur[i] \in Present
  /\ left' = [left EXCEPT ![i] = OnDisk(cur[i])]
  /\ Goto(i, "put")
  /\ UNCHANGED <<disk, grid, scan, listed, cur, real, blame>>

(* An entry, plain or not, that another ingest has moved before the first  *)
(* of its files is looked at, or after the last, makes fs::canonical throw *)
(* where nothing catches it.                                               *)
Throws(i) ==
  /\ \/ pc[i] \in {"connect", "rename"}
     \/ pc[i] = "put" /\ left[i] \in {{}, OnDisk(cur[i])}
  /\ cur[i] \notin Present
  /\ Stop(i)
  /\ UNCHANGED <<disk, grid, blame>>

(* rcConnect or clientLogin fails, and status 0 is returned: the rule goes *)
(* on as after a put, with the *real_path of the entry before.             *)
ConnectFails(i) ==
  /\ pc[i] = "connect" /\ Fail("connect") /\ Hush(i)
  /\ Goto(i, "meta")
  /\ UNCHANGED <<disk, grid, scan, listed, cur, left, real>>

(* rcCollCreate fails: this is logged, the files are left out and the      *)
(* result is SUCCESS.                                                      *)
CollCreateFails(i) ==
  /\ pc[i] = "put" /\ cur[i] \in Present \cap Dirs /\ left[i] = OnDisk(cur[i])
  /\ Fail("coll") /\ Hush(i)
  /\ left' = [left EXCEPT ![i] = {}]
  /\ UNCHANGED <<disk, grid, scan, pc, listed, cur, real>>

PutAFile(i) ==
  /\ pc[i] = "put" /\ cur[i] \in Present
  /\ \E f \in left[i] :
       /\ stored[f] = NoFile
       /\ stored' = [stored EXCEPT ![f] = size[f]]
       /\ left' = [left EXCEPT ![i] = @ \ {f}]
  /\ UNCHANGED <<disk, tagged, scan, pc, listed, cur, real, blame>>

(* rcDataObjPut fails, or refuses to overwrite an object as the options of *)
(* the rule are not passed on.  In a directory the error is dropped and    *)
(* the next file is tried; a plain entry ends with an error.               *)
PutRefusedIgnored(i) ==
  /\ pc[i] = "put" /\ cur[i] \in Present
  /\ \E f \in left[i] : left' = [left EXCEPT ![i] = @ \ {f}]
  /\ Fail("put_file")
  /\ UNCHANGED <<disk, grid, scan, pc, listed, cur, real, hushed>>

PutRefused(i) ==
  /\ pc[i] = "put" /\ cur[i] \in Present
  /\ \E f \in left[i] :
       /\ \/ stored[f] # NoFile /\ UNCHANGED blame
          \/ stored[f] = NoFile /\ cur[i] \in Dirs /\ Fail("put_nested") /\ Hush(i)
          \/ stored[f] = NoFile /\ cur[i] \notin Dirs /\ Fail("put_file") /\ UNCHANGED hushed
       /\ left' = [left EXCEPT ![i] = @ \ {f}]
  /\ IF cur[i] \in Dirs THEN UNCHANGED <<pc, cur>> ELSE EndEntry(i)
  /\ UNCHANGED <<disk, grid, scan, listed, real>>

(* The entry is gone when one of its files is about to be put: the         *)
(* exception is caught, or the put fails, and an error is returned.        *)
PutGoneKeepsLeft(i) ==
  /\ pc[i] = "put" /\ cur[i] \notin Present /\ left[i] # {}
  /\ EndEntry(i)
  /\ UNCHANGED <<disk, grid, scan, listed, left, real, blame>>

PutGone(i) ==
  /\ pc[i] = "put" /\ cur[i] \notin Present /\ left[i] # {}
  /\ left' = [left EXCEPT ![i] = {}]
  /\ EndEntry(i)
  /\ UNCHANGED <<disk, grid, scan, listed, real, blame>>

PutDone(i) ==
  /\ pc[i] = "put" /\ cur[i] \in Present /\ left[i] = {}
  /\ real' = [real EXCEPT ![i] = cur[i]]
  /\ Goto(i, "meta")
  /\ UNCHANGED <<disk, grid, scan, listed, cur, left, blame>>

(* An image gets its metadata, on the object *real_path names.             *)
GatherMeta(i) ==
  /\ pc[i] = "meta"
  /\ cur[i] \in Images => real[i] # NoEntry
  /\ tagged' = IF cur[i] \in Images THEN tagged \cup {real[i]} ELSE tagged
  /\ Goto(i, "rename")
  /\ UNCHANGED <<disk, stored, scan, listed, cur, left, real, blame>>

(* An error here is not caught and ends the rule.                          *)
MetaFails(i) ==
  /\ pc[i] = "meta" /\ cur[i] \in Images
  /\ \/ real[i] = NoEntry /\ UNCHANGED faults
     \/ Fail("meta")
  /\ Stop(i)
  /\ UNCHANGED <<disk, grid, hushed>>

(* msifilesystem_rename.  Of a processed entry the age is of no interest.  *)
Rename(i) ==
  /\ pc[i] = "rename" /\ cur[i] \in Present
  /\ entry' = [entry EXCEPT ![cur[i]] = "processed"]
  /\ quiet' = [quiet EXCEPT ![cur[i]] = 0]
  /\ EndEntry(i)
  /\ UNCHANGED <<size, grid, scan, listed, left, real, blame>>

Crash(i) ==
  /\ pc[i] # "idle" /\ Fail("crash")
  /\ Stop(i)
  /\ UNCHANGED <<disk, grid, hushed>>

-----------------------------------------------------------------------------
Writer(e) == Begin(e) \/ Write(e) \/ Close(e)

Put(i) ==
  \/ MakeCollFails(i) \/ Connect(i) \/ ConnectFails(i)
  \/ CollCreateFails(i) \/ PutAFile(i) \/ PutRefused(i) \/ PutGone(i) \/ PutDone(i)

ingest_rule(i) ==
  \/ Glob(i) \/ Check(i) \/ CheckDone(i)
  \/ NextEntry(i) \/ Put(i) \/ GatherMeta(i) \/ MetaFails(i) \/ Rename(i)
  \/ Throws(i) \/ IngestDone(i)

Next ==
  \/ \E e \in Entries : Writer(e)
  \/ Tick
  \/ \E i \in Ingests : ingest_rule(i) \/ Crash(i)

(* Writers finish, time passes, and the rule is started again and again,   *)
(* as the delay clause in its comments does.                               *)
Fairness ==
  /\ \A e \in Entries : WF_vars(Write(e) \/ Close(e))
  /\ WF_vars(Tick)
  /\ \A i \in Ingests : WF_vars(ingest_rule(i))

Spec == Init /\ [][Next]_vars
FairSpec == Spec /\ Fairness

-----------------------------------------------------------------------------
(* Every variable has its type, and an ingest has an entry while it works  *)
(* on one.                                                                 *)
TypeOK ==
  /\ entry \in [Entries -> {"absent", "open", "closed", "processed"}]
  /\ size \in [Files -> Nat \cup {NoFile}]
  /\ quiet \in [Entries -> 0 .. MaxQuiet]
  /\ stored \in [Files -> Nat \cup {NoFile}]
  /\ tagged \subseteq Entries
  /\ pc \in [Ingests -> {"idle", "sleep", "next", "connect", "put", "meta", "rename"}]
  /\ globbed \in [Ingests -> SUBSET Entries]
  /\ sizes \in [Ingests -> [Files -> Nat \cup {NoFile}]]
  /\ slept \in [Ingests -> 0 .. Delay]
  /\ listed \in [Ingests -> SUBSET Entries]
  /\ cur \in [Ingests -> Entries \cup {NoEntry}]
  /\ left \in [Ingests -> SUBSET Files]
  /\ real \in [Ingests -> Entries \cup {NoEntry}]
  /\ hushed \subseteq Entries
  /\ faults \in 0 .. MaxFaults
  /\ \A i \in Ingests :
       /\ pc[i] \in {"connect", "put", "meta", "rename"} => cur[i] \in Entries
       /\ left[i] # {} => pc[i] = "put" /\ left[i] \subseteq FilesOf[cur[i]]

(* Only complete data gets into the grid: while a writer is at work on an  *)
(* entry nothing of it is stored, and what is stored of a finished file is *)
(* its final content.  This is what the sizes, the sleep and the age in    *)
(* msiget_filepaths_from_glob are for.                                     *)
Whole ==
  \A e \in Entries : \A f \in FilesOf[e] :
    stored[f] # NoFile => entry[e] \in {"closed", "processed"} /\ stored[f] = size[f]

(* What ingest_rule has moved to the processed files is in the grid with   *)
(* all its files, and an image with its metadata.                          *)
InGrid(e) == \A f \in FilesOf[e] : stored[f] = size[f]
Accounted ==
  \A e \in Entries : entry[e] = "processed" => InGrid(e) /\ (e \in Images => e \in tagged)

(* It is, unless a failure of msiput_dataobj_or_coll on that entry was     *)
(* answered as success: overlapping ingests, crashes, other failures and   *)
(* entries that disappear from under an ingest lose nothing.               *)
LostOnlyByHush ==
  \A e \in Entries :
    entry[e] = "processed" /\ e \notin hushed => InGrid(e) /\ (e \in Images => e \in tagged)

(* Whatever else fails now and then, every entry whose writer has finished *)
(* gets into the grid with all its files.                                  *)
Ingested ==
  \A e \in Entries : (entry[e] = "closed") ~> (InGrid(e) \/ e \in hushed)
=============================================================================
