---------------------------- MODULE ReplicaMoves ----------------------------
(***************************************************************************)
(* A catalog of replicas and replicate_data_objects                        *)
(* (advanced/hpc_compute_to_data/compute_to_data_support.py), the rule     *)
(* that copies or moves a data object, or all objects of a collection, to  *)
(* a resource.  It lists the replicas once and then goes through the rows, *)
(* copying and trimming, while others change the same objects.             *)
(*                                                                         *)
(* Replication and trimming themselves are the server's: a copy is made    *)
(* from any good replica, and a trim leaves at least the number of good    *)
(* replicas that its caller asks for.                                      *)
(***************************************************************************)
EXTENDS Integers, FiniteSets

CONSTANTS
  Objects,   \* data objects, all in one collection
  Resources, \* storage resources
  Movers,    \* executions of replicate_data_objects
  MaxMoves,  \* calls of replicate_data_objects (bound)
  MaxFaults, \* operations on replicas and catalog that fail (bound)
  Anywhere   \* an empty from_resource

ASSUME MovesAssumption ==
  /\ IsFiniteSet(Objects) /\ IsFiniteSet(Resources)
  /\ Anywhere \notin Resources
  /\ MaxMoves \in Nat /\ MaxFaults \in Nat

(* A replica is a copy, whole or cut short, or the file at the physical    *)
(* path it was registered from.                                            *)
Data    == {"part", "whole"}
Replica == [num : Nat, resc : Resources, good : BOOLEAN, data : Data \cup {"file"}]
Row     == [obj : Objects, num : Nat, resc : Resources]
Call    == [to : Resources, from : Resources \cup {Anywhere}, trim : BOOLEAN]
NoCall  == [to |-> Anywhere, from |-> Anywhere, trim |-> FALSE]

VARIABLES
  replicas,   \* replicas[o]: the replicas of o in the catalog
  file,       \* file[o]: what is at the physical path of o's registered replica
  mpc,        \* mpc[m]: what mover m is doing
  call,       \* call[m]: the arguments it was called with
  todo,       \* todo[m]: rows of its list not yet looked at
  row,        \* row[m]: the row it has copied and trims next
  replicated, \* replicated[m]: objects for which replicated[..] is True
  status,     \* status[m]: new_replication_status, "unset" before it is assigned
              \* (only a copy that succeeded assigns it, and what it returns is true)
  moves,      \* calls so far
  faults      \* failures so far

mover  == <<mpc, call, todo, row, replicated, status, moves>>
stored == <<replicas, file>>

-----------------------------------------------------------------------------
(* The server.                                                             *)

On(rs, r)   == {x \in rs : x.resc = r}
Good(rs)    == {x \in rs : x.good}
Content(o, x) == IF x.data = "file" THEN file[o] ELSE x.data
Sources(o)  == {x \in Good(replicas[o]) : Content(o, x) # "none"}
NextNum(rs) == 1 + CHOOSE n \in {x.num : x \in rs} : \A x \in rs : x.num <= n

Fault == faults < MaxFaults /\ faults' = faults + 1

(* The replicas of o once x has been copied to r, where a stale replica is *)
(* updated in place and a good one is left as it is.                       *)
Copied(o, r, x) ==
  LET rs  == replicas[o]
      new == [resc |-> r, good |-> TRUE, data |-> Content(o, x)]
      at(n) == [num |-> n, resc |-> new.resc, good |-> new.good, data |-> new.data]
  IN  IF On(rs, r) = {} THEN rs \cup {at(NextNum(rs))}
      ELSE {IF y.resc = r /\ ~y.good THEN at(y.num) ELSE y : y \in rs}

Replicate(o, r) ==
  \E x \in Sources(o) : replicas' = [replicas EXCEPT ![o] = Copied(o, r, x)]

(* A copy fails before it starts, or leaves a stale replica; a good one    *)
(* that is there already may be an error.                                  *)
Stale(o, r) ==
  IF On(replicas[o], r) # {} THEN replicas[o]
  ELSE replicas[o] \cup {[num |-> NextNum(replicas[o]), resc |-> r, good |-> FALSE, data |-> "part"]}

ReplicateFails(o, r) ==
  \/ /\ Sources(o) = {} \/ Good(On(replicas[o], r)) # {}
     /\ UNCHANGED <<replicas, faults>>
  \/ Fault /\ \E rs \in {replicas[o], Stale(o, r)} : replicas' = [replicas EXCEPT ![o] = rs]

(* Every trim asks for one replica to be kept.                             *)
CopiesNone == 0

Copies == 1

(* Trims the replica of o numbered n if enough good replicas stay; a       *)
(* registered file goes with its replica.                                  *)
Gone(o, n) ==
  {x \in replicas[o] : x.num = n /\ Cardinality(Good(replicas[o] \ {x})) >= Copies}

Trim(o, n) ==
  /\ replicas' = [replicas EXCEPT ![o] = @ \ Gone(o, n)]
  /\ file' = [file EXCEPT ![o] = IF \E x \in Gone(o, n) : x.data = "file" THEN "none" ELSE @]

(* It may be an error when there is nothing that can be trimmed. *)
TrimFails(o, n) == Fault \/ (Gone(o, n) = {} /\ UNCHANGED faults)

-----------------------------------------------------------------------------
(* replicate_data_objects.                                                 *)

RowsOf(o, rs) == {[obj |-> o, num |-> x.num, resc |-> x.resc] : x \in rs}

ListedAll(os, from) == UNION {RowsOf(o, replicas[o]) : o \in os}

Listed(os, from) ==
  UNION {RowsOf(o, {x \in replicas[o] : from \in {Anywhere, x.resc}}) : o \in os}

(* Called for one object or for the collection; the rows are read before   *)
(* anything is copied.  trim is whether the fourth argument, a string, is  *)
(* not empty.                                                              *)
StartMove(m) ==
  /\ mpc[m] = "idle" /\ moves < MaxMoves
  /\ moves' = moves + 1
  /\ \E c \in Call, os \in {{o} : o \in Objects} \cup {Objects} :
       /\ call' = [call EXCEPT ![m] = c]
       /\ todo' = [todo EXCEPT ![m] = Listed(os, c.from)]
  /\ mpc' = [mpc EXCEPT ![m] = "rows"]
  /\ UNCHANGED <<stored, row, replicated, status, faults>>

(* The row of a replica that is already on to_resource.                    *)
AlreadyThere(m) ==
  /\ mpc[m] = "rows"
  /\ \E w \in todo[m] :
       /\ w.resc = call[m].to
       /\ todo' = [todo EXCEPT ![m] = @ \ {w}]
       /\ replicated' = [replicated EXCEPT ![m] = @ \cup {w.obj}]
  /\ UNCHANGED <<stored, mpc, call, row, status, moves, faults>>

Elsewhere(m) == {w \in todo[m] : w.resc # call[m].to}

(* A copy, trimmed next when the call asks for a move away from this very  *)
(* resource.                                                               *)
CopyRow(m) ==
  /\ mpc[m] = "rows"
  /\ \E w \in Elsewhere(m) :
       /\ w.obj \notin replicated[m]
       /\ Replicate(w.obj, call[m].to)
       /\ todo' = [todo EXCEPT ![m] = @ \ {w}]
       /\ replicated' = [replicated EXCEPT ![m] = @ \cup {w.obj}]
       /\ IF call[m].trim /\ w.resc = call[m].from
          THEN mpc' = [mpc EXCEPT ![m] = "trim"] /\ row' = [row EXCEPT ![m] = {w}]
          ELSE UNCHANGED <<mpc, row>>
  /\ status' = [status EXCEPT ![m] = "true"]
  /\ UNCHANGED <<file, call, moves, faults>>

(* msiDataObjRepl raises: the rule ends, the rows left are not looked at.  *)
CopyRowFails(m) ==
  /\ mpc[m] = "rows"
  /\ \E w \in Elsewhere(m) :
       w.obj \notin replicated[m] /\ ReplicateFails(w.obj, call[m].to)
  /\ mpc' = [mpc EXCEPT ![m] = "failed"]
  /\ UNCHANGED <<file, call, todo, row, replicated, status, moves>>

(* Another row of an object that is done.                                  *)
SkipRow(m) ==
  /\ mpc[m] = "rows" /\ status[m] # "unset"
  /\ \E w \in Elsewhere(m) :
       /\ w.obj \in replicated[m]
       /\ todo' = [todo EXCEPT ![m] = @ \ {w}]
  /\ UNCHANGED <<stored, mpc, call, row, replicated, status, moves, faults>>

(* The same while new_replication_status has no value yet: an              *)
(* UnboundLocalError ends the rule.                                        *)
RowRaises(m) ==
  /\ mpc[m] = "rows" /\ status[m] = "unset"
  /\ \E w \in Elsewhere(m) : w.obj \in replicated[m]
  /\ mpc' = [mpc EXCEPT ![m] = "raised"]
  /\ UNCHANGED <<stored, call, todo, row, replicated, status, moves, faults>>

TrimRowAgain(m) ==
  /\ mpc[m] = "trim"
  /\ \E w \in row[m] : Trim(w.obj, w.num)
  /\ mpc' = [mpc EXCEPT ![m] = "rows"]
  /\ UNCHANGED <<call, todo, row, replicated, status, moves, faults>>

TrimRow(m) ==
  /\ mpc[m] = "trim"
  /\ \E w \in row[m] : Trim(w.obj, w.num)
  /\ mpc' = [mpc EXCEPT ![m] = "rows"]
  /\ row' = [row EXCEPT ![m] = {}]
  /\ UNCHANGED <<call, todo, replicated, status, moves, faults>>

(* msiDataObjTrim raises: the same, with the copy made and not trimmed.     *)
TrimRowFails(m) ==
  /\ mpc[m] = "trim"
  /\ \E w \in row[m] : TrimFails(w.obj, w.num)
  /\ mpc' = [mpc EXCEPT ![m] = "failed"]
  /\ row' = [row EXCEPT ![m] = {}]
  /\ UNCHANGED <<stored, call, todo, replicated, status, moves>>

EndMove(m) ==
  /\ mpc[m] \in {"raised", "failed"} \/ (mpc[m] = "rows" /\ todo[m] = {})
  /\ mpc' = [mpc EXCEPT ![m] = "idle"]
  /\ call' = [call EXCEPT ![m] = NoCall]
  /\ todo' = [todo EXCEPT ![m] = {}]
  /\ replicated' = [replicated EXCEPT ![m] = {}]
  /\ status' = [status EXCEPT ![m] = "unset"]
  /\ UNCHANGED <<stored, row, moves, faults>>

Move(m) ==
  \/ StartMove(m) \/ AlreadyThere(m) \/ CopyRow(m) \/ CopyRowFails(m)
  \/ SkipRow(m) \/ RowRaises(m) \/ TrimRow(m) \/ TrimRowFails(m) \/ EndMove(m)

MoversInit ==
  /\ mpc = [m \in Movers |-> "idle"]
  /\ call = [m \in Movers |-> NoCall]
  /\ todo = [m \in Movers |-> {}]
  /\ row = [m \in Movers |-> {}]
  /\ replicated = [m \in Movers |-> {}]
  /\ status = [m \in Movers |-> "unset"]
  /\ moves = 0

-----------------------------------------------------------------------------
(* Every variable has its type; a mover that trims has one row to trim, of *)
(* the resource it moves from.                                             *)
MovesTypeOK ==
  /\ replicas \in [Objects -> SUBSET Replica]
  /\ file \in [Objects -> Data \cup {"none"}]
  /\ mpc \in [Movers -> {"idle", "rows", "trim", "raised", "failed"}]
  /\ call \in [Movers -> Call \cup {NoCall}]
  /\ todo \in [Movers -> SUBSET Row] /\ row \in [Movers -> SUBSET Row]
  /\ replicated \in [Movers -> SUBSET Objects]
  /\ status \in [Movers -> {"unset", "true"}]
  /\ moves \in 0 .. MaxMoves /\ faults \in 0 .. MaxFaults
  /\ \A m \in Movers :
       IF mpc[m] = "trim" THEN \E w \in row[m] : row[m] = {w} /\ w.resc = call[m].from
       ELSE row[m] = {}

(* A call with a from_resource lists every object once.  So it leaves no   *)
(* row out as another of the same object is done, which would leave its    *)
(* replica on from_resource, and new_replication_status has a value        *)
(* whenever it is read.  Without from_resource a row can be met that no    *)
(* copy precedes, and an UnboundLocalError ends the rule.  (Either kind of *)
(* call also ends, with rows left, when msiDataObjRepl or msiDataObjTrim   *)
(* raises: mpc is then "failed".)                                          *)
MovesComplete ==
  \A m \in Movers : call[m].from # Anywhere =>
    mpc[m] # "raised" /\ \A w \in todo[m] : w.obj \notin replicated[m]
=============================================================================
