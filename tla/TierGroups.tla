----------------------------- MODULE TierGroups -----------------------------
(***************************************************************************)
(* How the tiering policy reads the tier groups from the AVUs of the       *)
(* resources: get_list_of_tier_groups, then for each group                 *)
(* get_tier_group_resources_and_indicies row by row, and the loop of       *)
(* apply_storage_tiering_policy that pairs each tier with the next.  The   *)
(* variables *indicies and *resources are shared by all the groups of a    *)
(* run of the policy.                                                      *)
(***************************************************************************)
EXTENDS Integers, Sequences, FiniteSets, Functions

CONSTANTS RescNames,         \* resource names
          GroupNames,        \* group names
          Units,             \* position strings
          MaxRows,           \* AVUs in the catalog (bound)
          UnitLess(_, _),    \* the order of the strings in the rule language
          SortUnits(_),      \* the sort of the rule base
          Position(_),       \* the number that a position string stands for
          Digits(_)          \* how many digits it has

Avu == [resc : RescNames, group : GroupNames, unit : Units]

(* What the policy needs of the order and of the sort, on lists no longer  *)
(* than it makes them: the sort orders strings, and strings of one length  *)
(* are ordered like the numbers they stand for.  MCTierGroups takes order  *)
(* and sort from TieringHelpers, where they are translated from the rule   *)
(* base, and TLC evaluates this there.                                     *)
ASSUME TierGroupsAssumption ==
  /\ MaxRows \in Nat
  /\ \A u, v \in Units : u = v \/ UnitLess(u, v) \/ UnitLess(v, u)
  /\ \A u \in Units : Position(u) \in Nat
  /\ \A u, v \in Units : Digits(u) = Digits(v) /\ UnitLess(u, v) => Position(u) < Position(v)
  /\ \A n \in 0 .. MaxRows : \A list \in [1 .. n -> Units] :
       /\ \E p \in Bijection(1 .. n, 1 .. n) : SortUnits(list) = [i \in 1 .. n |-> list[p[i]]]
       /\ \A i, j \in 1 .. n : i < j => ~UnitLess(SortUnits(list)[j], SortUnits(list)[i])

VARIABLES
  avus,        \* the storage_tier_group AVUs in the catalog
  group_list,  \* groups still to process
  group,       \* the group being processed
  pending,     \* rows of its query still to read
  indicies,    \* *indicies
  resources,   \* *resources, keyed by unit
  tiers,       \* tiers[g]: the resources of the processed groups, by tier
  phase

vars == <<avus, group_list, group, pending, indicies, resources, tiers, phase>>

RowsOf(g) == {x \in avus : x.group = g}

(* All catalogs of at most MaxRows rows. *)
Init ==
  /\ \E n \in 0 .. MaxRows : \E pick \in [1 .. n -> Avu] : avus = Range(pick)
  /\ group_list = {}
  /\ group = CHOOSE g \in GroupNames : TRUE
  /\ pending = {}
  /\ indicies = << >>
  /\ resources = [u \in {} |-> u]
  /\ tiers = [g \in {} |-> << >>]
  /\ phase = "start"

ListGroups ==
  /\ phase = "start"
  /\ group_list' = {x.group : x \in avus}
  /\ phase' = "next"
  /\ UNCHANGED <<avus, group, pending, indicies, resources, tiers>>

StartGroup ==
  /\ phase = "next"
  /\ \E g \in group_list :
       /\ group' = g
       /\ group_list' = group_list \ {g}
       /\ pending' = RowsOf(g)
  /\ indicies' = << >>
  /\ phase' = "rows"
  /\ UNCHANGED <<avus, resources, tiers>>

(* The bug of an entry that keeps the value an earlier group gave it.      *)
ReadRowKeepsOld ==
  /\ phase = "rows"
  /\ \E x \in pending :
       /\ pending' = pending \ {x}
       /\ indicies' = <<x.unit>> \o indicies
       /\ resources' = [u \in DOMAIN resources \cup {x.unit} |->
                          IF u \in DOMAIN resources THEN resources[u] ELSE x.resc]
  /\ UNCHANGED <<avus, group_list, group, tiers, phase>>

ReadRow ==
  /\ phase = "rows"
  /\ \E x \in pending :
       /\ pending' = pending \ {x}
       /\ indicies' = <<x.unit>> \o indicies
       /\ resources' = [u \in DOMAIN resources \cup {x.unit} |->
                          IF u = x.unit THEN x.resc ELSE resources[u]]
  /\ UNCHANGED <<avus, group_list, group, tiers, phase>>

(* The bug of a sort that is done before the last row has been read.       *)
SortIndiciesEarly ==
  /\ phase = "rows"
  /\ indicies' = SortUnits(indicies)
  /\ phase' = "pairs"
  /\ UNCHANGED <<avus, group_list, group, pending, resources, tiers>>

(* The bug of using the positions in the order the rows were read in.      *)
SortIndiciesSkipped ==
  /\ phase = "rows" /\ pending = {}
  /\ phase' = "pairs"
  /\ UNCHANGED <<avus, group_list, group, pending, indicies, resources, tiers>>

SortIndicies ==
  /\ phase = "rows" /\ pending = {}
  /\ indicies' = SortUnits(indicies)
  /\ phase' = "pairs"
  /\ UNCHANGED <<avus, group_list, group, pending, resources, tiers>>

(* The loop over elem(indicies, i) and elem(indicies, i + 1). *)
UseGroup ==
  /\ phase = "pairs"
  /\ tiers' = [g \in DOMAIN tiers \cup {group} |->
                 IF g = group THEN [i \in DOMAIN indicies |-> resources[indicies[i]]]
                              ELSE tiers[g]]
  /\ phase' = "next"
  /\ UNCHANGED <<avus, group_list, group, pending, indicies, resources>>

Next == ListGroups \/ StartGroup \/ ReadRow \/ SortIndicies \/ UseGroup

Spec == Init /\ [][Next]_vars

-----------------------------------------------------------------------------
DistinctUnits(g) == \A x, y \in RowsOf(g) : x.unit = y.unit => x = y
SameDigits(g)    == \A x, y \in RowsOf(g) : Digits(x.unit) = Digits(y.unit)

(* No row of a group is lost or read twice on the way through the sort,    *)
(* also when two resources share a position.                               *)
PositionsKept ==
  phase = "pairs" =>
    /\ Len(indicies) = Cardinality(RowsOf(group))
    /\ Range(indicies) = {x.unit : x \in RowsOf(group)}

(* The tiers of a group, made of its rows in an order that has each once.  *)
Orders(g) == Bijection(DOMAIN tiers[g], RowsOf(g))
MadeOf(g, order) == \A i \in DOMAIN tiers[g] : tiers[g][i] = order[i].resc
InOrder(order) ==
  \A i, j \in DOMAIN order : i < j => Position(order[i].unit) < Position(order[j].unit)

(* Whatever order the rows and the groups come in, and although *resources *)
(* still holds the entries earlier groups made under the same positions, a *)
(* group whose positions are distinct is processed with its own resources, *)
(* each once (get_tier_group_resources_and_indicies).                      *)
GroupTiers ==
  \A g \in DOMAIN tiers : DistinctUnits(g) =>
    \E order \in Orders(g) : MadeOf(g, order)

(* README: the unit holds the numeric position of the resource within the  *)
(* group, and data flows from tier 0 upwards.  The rule base compares the  *)
(* units as strings (sort), and "10" comes before "2".                     *)
NumericTiers ==
  \A g \in DOMAIN tiers : DistinctUnits(g) =>
    \E order \in Orders(g) : MadeOf(g, order) /\ InOrder(order)

(* Where the two orders agree, as all positions of the group have the same *)
(* number of digits, the data does flow in numeric order.                  *)
SameDigitsTiers ==
  \A g \in DOMAIN tiers : DistinctUnits(g) /\ SameDigits(g) =>
    \E order \in Orders(g) : MadeOf(g, order) /\ InOrder(order)
=============================================================================
