--------------------------- MODULE TieredReplicas ---------------------------
(***************************************************************************)
(* What storage tiering promises about the place of the data, without its  *)
(* queries, ages, replica numbers and queues (storage_tiering/README.md):  *)
(* data is staged from a tier to the next one of its group, or restaged to *)
(* the lowest one, and then trimmed from where it was before.  The copy    *)
(* that was made last is the object's home: it is never the one trimmed,   *)
(* so the data moves along its group and nowhere else.                     *)
(***************************************************************************)
EXTENDS Integers, Sequences

CONSTANTS Objects,    \* data objects
          PutLeaves,  \* leaves new objects are created on
          LeavesOf,   \* the leaves of a resource
          Groups,     \* tier groups
          Tiers,      \* Tiers[g]: the resources of g, by position
          NoResource

VARIABLES holders,    \* holders[o]: the leaves that hold a replica of o
          home        \* home[o]: the leaf of its latest copy, NoResource without one

vars == <<holders, home>>

Init == /\ holders = [o \in Objects |-> {}]
        /\ home = [o \in Objects |-> NoResource]

OnTier(o, g, i) == i \in DOMAIN Tiers[g] /\ LeavesOf[Tiers[g][i]] \cap holders[o] # {}

CopyTo(o, l) == /\ l \notin holders[o]
                /\ holders' = [holders EXCEPT ![o] = @ \cup {l}]
                /\ home' = [home EXCEPT ![o] = l]

(* A client stores an object for the first time. *)
Create(o) == holders[o] = {} /\ \E l \in PutLeaves : CopyTo(o, l)

(* From a tier to the next one of the group. *)
Stage(o) == \E g \in Groups : \E i \in DOMAIN Tiers[g] :
              /\ OnTier(o, g, i - 1)
              /\ \E l \in LeavesOf[Tiers[g][i]] : CopyTo(o, l)

(* From any tier of a group to its lowest one. *)
Restage(o) == \E g \in Groups :
                /\ \E j \in DOMAIN Tiers[g] : OnTier(o, g, j)
                /\ \E l \in LeavesOf[Tiers[g][1]] : CopyTo(o, l)

(* Older copies are trimmed, the latest stays. *)
Trim(o) == /\ \E gone \in SUBSET (holders[o] \ {home[o]}) :
                holders' = [holders EXCEPT ![o] = @ \ gone]
           /\ UNCHANGED home

Next == \E o \in Objects : Create(o) \/ Stage(o) \/ Restage(o) \/ Trim(o)

Spec == Init /\ [][Next]_vars
=============================================================================
