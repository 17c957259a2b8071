-------------------------- MODULE TierGroupsProofs --------------------------
(***************************************************************************)
(* What holds of the reading of tier groups for all resources, groups,     *)
(* position strings and catalogs: the sort is given every row and keeps    *)
(* it, and a group of distinct positions is used with its own resources,   *)
(* although *indicies and *resources are shared by the groups.             *)
(***************************************************************************)
EXTENDS TierGroups, FiniteSetTheorems, SequenceTheorems, TLAPS

(* The rows of the current group that have been read. *)
ReadRows == RowsOf(group) \ pending

CatalogBounded == IsFiniteSet(avus) /\ Cardinality(avus) <= MaxRows /\ avus \subseteq Avu

(* While a group is read, *indicies holds one position for each row read,  *)
(* and *resources has been written for each of them by such a row.         *)
IndiciesOfRows ==
  /\ pending \subseteq RowsOf(group)
  /\ indicies \in Seq(Units)
  /\ Len(indicies) = Cardinality(ReadRows)
  /\ \A x \in ReadRows : \E i \in DOMAIN indicies : indicies[i] = x.unit
  /\ \A i \in DOMAIN indicies :
       /\ indicies[i] \in DOMAIN resources
       /\ \E x \in ReadRows : x.unit = indicies[i] /\ x.resc = resources[indicies[i]]
  /\ DistinctUnits(group) =>
       \A i, j \in DOMAIN indicies : indicies[i] = indicies[j] => i = j

IndiciesSorted ==
  /\ pending = {}
  /\ \A i, j \in DOMAIN indicies : i < j => ~UnitLess(indicies[j], indicies[i])

(* Groups that have been used have the tiers of their own rows, in the     *)
(* numeric order of the positions when these are of one length.            *)
UsedTiers ==
  \A g \in DOMAIN tiers : DistinctUnits(g) =>
    \E order \in Orders(g) : MadeOf(g, order) /\ (SameDigits(g) => InOrder(order))

GroupsInv ==
  /\ CatalogBounded
  /\ phase \in {"rows", "pairs"} => IndiciesOfRows
  /\ phase = "pairs" => IndiciesSorted
  /\ UsedTiers

-----------------------------------------------------------------------------
(* The catalog of every initial state is finite and within the bound.      *)
LEMMA InitBounded == Init => CatalogBounded
<1> SUFFICES ASSUME Init PROVE CatalogBounded
  OBVIOUS
<1>1. PICK n \in 0 .. MaxRows : \E pick \in [1 .. n -> Avu] : avus = Range(pick)
  BY DEF Init
<1>2. PICK pick \in [1 .. n -> Avu] : avus = Range(pick)
  BY <1>1
<1>3. n \in Nat /\ n <= MaxRows /\ MaxRows \in Nat
  BY TierGroupsAssumption
<1>4. avus \subseteq Avu
  BY <1>2 DEF Range
<1>5. pick \in Surjection(1 .. n, avus)
  BY <1>2 DEF Range, Surjection
<1>6. IsFiniteSet(1 .. n) /\ Cardinality(1 .. n) = n
  BY <1>3, FS_Interval
<1>7. IsFiniteSet(avus) /\ Cardinality(avus) <= Cardinality(1 .. n)
  BY <1>5, <1>6, FS_Surjection
<1>8. Cardinality(avus) \in Nat
  BY <1>7, FS_CardinalityType
<1> QED
  BY <1>3, <1>4, <1>6, <1>7, <1>8 DEF CatalogBounded

(* The rows of a group are rows of the catalog: no more than it may hold.  *)
LEMMA RowsBounded ==
  ASSUME CatalogBounded, NEW g
  PROVE  /\ IsFiniteSet(RowsOf(g))
         /\ Cardinality(RowsOf(g)) \in 0 .. MaxRows
         /\ RowsOf(g) \subseteq Avu
<1>1. RowsOf(g) \in SUBSET avus
  BY DEF RowsOf
<1>2. IsFiniteSet(RowsOf(g)) /\ Cardinality(RowsOf(g)) <= Cardinality(avus)
  BY <1>1, FS_Subset DEF CatalogBounded
<1>3. Cardinality(RowsOf(g)) \in Nat /\ Cardinality(avus) \in Nat
  BY <1>2, FS_CardinalityType DEF CatalogBounded
<1> QED
  BY <1>1, <1>2, <1>3, TierGroupsAssumption DEF CatalogBounded

(* StartGroup empties *indicies, so the positions are those of no row.     *)
LEMMA StartKeepsIndicies ==
  ASSUME CatalogBounded, StartGroup
  PROVE  IndiciesOfRows'
<1>1. ReadRows' = {}
  BY DEF StartGroup, ReadRows, RowsOf
<1>2. indicies' = << >> /\ pending' = RowsOf(group)'
  BY DEF StartGroup, RowsOf
<1>3. Cardinality(ReadRows') = 0
  BY <1>1, FS_EmptySet
<1> QED
  BY <1>1, <1>2, <1>3 DEF IndiciesOfRows

(* A row that is read adds its own position and its own resource; the      *)
(* entries of *resources that it replaces are of the same position.        *)
LEMMA ReadKeepsIndicies ==
  ASSUME CatalogBounded, IndiciesOfRows, ReadRow
  PROVE  IndiciesOfRows'
<1>1. PICK x \in pending :
        /\ pending' = pending \ {x}
        /\ indicies' = <<x.unit>> \o indicies
        /\ resources' = [u \in DOMAIN resources \cup {x.unit} |->
                           IF u = x.unit THEN x.resc ELSE resources[u]]
  BY DEF ReadRow
<1>2. RowsOf(group)' = RowsOf(group) /\ (DistinctUnits(group)' <=> DistinctUnits(group))
  BY DEF ReadRow, RowsOf, DistinctUnits
<1>3. /\ IsFiniteSet(RowsOf(group)) /\ RowsOf(group) \subseteq Avu
      /\ pending \subseteq RowsOf(group)
  BY RowsBounded DEF IndiciesOfRows
<1>4. x \in RowsOf(group) /\ x.unit \in Units /\ x \notin ReadRows
  BY <1>1, <1>3 DEF Avu, ReadRows
<1>5. ReadRows' = ReadRows \cup {x}
  BY <1>1, <1>2, <1>3, <1>4 DEF ReadRows
<1>6. IsFiniteSet(ReadRows) /\ Cardinality(ReadRows) \in Nat
  <2>1. ReadRows \in SUBSET RowsOf(group)
    BY DEF ReadRows
  <2> QED
    BY <1>3, <2>1, FS_Subset, FS_CardinalityType
<1>7. Cardinality(ReadRows') = Cardinality(ReadRows) + 1
  BY <1>4, <1>5, <1>6, FS_AddElement
<1>8. /\ indicies \in Seq(Units)
      /\ Len(indicies) \in Nat
      /\ DOMAIN indicies = 1 .. Len(indicies)
  BY LenProperties DEF IndiciesOfRows
<1>9. /\ <<x.unit>> \in Seq(Units)
      /\ Len(<<x.unit>>) = 1
      /\ <<x.unit>>[1] = x.unit
  BY <1>4
<1>10. /\ indicies' \in Seq(Units)
       /\ Len(indicies') = 1 + Len(indicies)
       /\ \A i \in 1 .. 1 + Len(indicies) :
            indicies'[i] = IF i <= 1 THEN <<x.unit>>[i] ELSE indicies[i - 1]
  BY <1>1, <1>8, <1>9, ConcatProperties
<1>11. /\ DOMAIN indicies' = 1 .. 1 + Len(indicies)
       /\ indicies'[1] = x.unit
       /\ \A i \in DOMAIN indicies' :
            i = 1 \/ (i - 1 \in DOMAIN indicies /\ indicies'[i] = indicies[i - 1])
       /\ \A i \in DOMAIN indicies : i + 1 \in DOMAIN indicies' /\ indicies'[i + 1] = indicies[i]
  <2>1. DOMAIN indicies' = 1 .. 1 + Len(indicies)
    BY <1>10, LenProperties
  <2> QED
    BY <2>1, <1>8, <1>9, <1>10
<1>12. pending' \subseteq RowsOf(group)'
  BY <1>1, <1>2, <1>3
<1>13. Len(indicies') = Cardinality(ReadRows')
  BY <1>6, <1>7, <1>10, <1>8 DEF IndiciesOfRows
<1>14. \A y \in ReadRows' : \E i \in DOMAIN indicies' : indicies'[i] = y.unit
  <2> SUFFICES ASSUME NEW y \in ReadRows'
               PROVE  \E i \in DOMAIN indicies' : indicies'[i] = y.unit
    OBVIOUS
  <2>1. CASE y = x
    BY <2>1, <1>8, <1>11
  <2>2. CASE y \in ReadRows
    <3>1. PICK k \in DOMAIN indicies : indicies[k] = y.unit
      BY <2>2 DEF IndiciesOfRows
    <3>2. k + 1 \in DOMAIN indicies' /\ indicies'[k + 1] = y.unit
      BY <3>1, <1>11
    <3> QED
      BY <3>2
  <2> QED
    BY <2>1, <2>2, <1>5
<1>15. \A i \in DOMAIN indicies' :
         /\ indicies'[i] \in DOMAIN resources'
         /\ \E y \in ReadRows' : y.unit = indicies'[i] /\ y.resc = resources'[indicies'[i]]
  <2> SUFFICES ASSUME NEW i \in DOMAIN indicies'
               PROVE  /\ indicies'[i] \in DOMAIN resources'
                      /\ \E y \in ReadRows' :
                           y.unit = indicies'[i] /\ y.resc = resources'[indicies'[i]]
    OBVIOUS
  <2>1. x \in ReadRows' /\ x.unit \in DOMAIN resources' /\ resources'[x.unit] = x.resc
    BY <1>1, <1>5
  <2>2. CASE indicies'[i] = x.unit
    BY <2>1, <2>2
  <2>3. CASE indicies'[i] # x.unit
    <3>1. i - 1 \in DOMAIN indicies /\ indicies'[i] = indicies[i - 1]
      BY <2>3, <1>11
    <3>2. indicies'[i] \in DOMAIN resources
      BY <3>1 DEF IndiciesOfRows
    <3>3. indicies'[i] \in DOMAIN resources' /\ resources'[indicies'[i]] = resources[indicies'[i]]
      BY <3>2, <2>3, <1>1
    <3> QED
      BY <3>1, <3>3, <1>5 DEF IndiciesOfRows
  <2> QED
    BY <2>2, <2>3
<1>16. ASSUME DistinctUnits(group)'
       PROVE  \A i, j \in DOMAIN indicies' : indicies'[i] = indicies'[j] => i = j
  <2>1. \A k \in DOMAIN indicies : indicies[k] # x.unit
    <3> SUFFICES ASSUME NEW k \in DOMAIN indicies, indicies[k] = x.unit
                 PROVE  FALSE
      OBVIOUS
    <3>1. PICK y \in ReadRows : y.unit = x.unit
      BY DEF IndiciesOfRows
    <3>2. y \in RowsOf(group) /\ y # x
      BY <3>1, <1>4 DEF ReadRows
    <3>3. \A a, b \in RowsOf(group) : a.unit = b.unit => a = b
      BY <1>2, <1>16 DEF DistinctUnits
    <3> QED
      BY <3>1, <3>2, <3>3, <1>4
  <2>2. \A i, j \in DOMAIN indicies : indicies[i] = indicies[j] => i = j
    BY <1>2, <1>16 DEF IndiciesOfRows
  <2> QED
    BY <2>1, <2>2, <1>8, <1>11
<1> QED
  BY <1>10, <1>12, <1>13, <1>14, <1>15, <1>16 DEF IndiciesOfRows

(* A list of positions over 1 .. n is a sequence of that length.           *)
LEMMA PositionList ==
  ASSUME NEW n \in Nat, NEW list \in [1 .. n -> Units]
  PROVE  list \in Seq(Units) /\ Len(list) = n /\ DOMAIN list = 1 .. n
<1>1. list \in Seq(Units)
  OBVIOUS
<1>2. Len(list) \in Nat /\ DOMAIN list = 1 .. Len(list) /\ DOMAIN list = 1 .. n
  BY <1>1, LenProperties
<1>3. Len(list) = n
  <2>1. 1 .. Len(list) = 1 .. n /\ Len(list) \in Nat
    BY <1>2
  <2> QED
    BY <2>1
<1> QED
  BY <1>1, <1>2, <1>3

(* The sort moves the positions about: each is that of the same rows.      *)
LEMMA SortKeepsIndicies ==
  ASSUME CatalogBounded, IndiciesOfRows, SortIndicies
  PROVE  IndiciesOfRows' /\ IndiciesSorted'
<1>1. /\ pending = {} /\ pending' = {}
      /\ indicies' = SortUnits(indicies)
      /\ resources' = resources
      /\ RowsOf(group)' = RowsOf(group)
      /\ ReadRows' = ReadRows /\ ReadRows = RowsOf(group)
      /\ DistinctUnits(group)' <=> DistinctUnits(group)
  BY DEF SortIndicies, RowsOf, ReadRows, DistinctUnits
<1>2. PICK n \in 0 .. MaxRows : n = Len(indicies)
  BY <1>1, RowsBounded DEF IndiciesOfRows
<1>3. /\ n \in Nat
      /\ indicies \in [1 .. n -> Units]
      /\ DOMAIN indicies = 1 .. n
  BY <1>2, LenProperties DEF IndiciesOfRows
<1>4. /\ \E p \in Bijection(1 .. n, 1 .. n) :
           SortUnits(indicies) = [i \in 1 .. n |-> indicies[p[i]]]
      /\ \A i, j \in 1 .. n : i < j => ~UnitLess(SortUnits(indicies)[j], SortUnits(indicies)[i])
  BY <1>2, <1>3, TierGroupsAssumption
<1>5. PICK p \in Bijection(1 .. n, 1 .. n) :
        SortUnits(indicies) = [i \in 1 .. n |-> indicies[p[i]]]
  BY <1>4
<1>6. /\ p \in [1 .. n -> 1 .. n]
      /\ \A i \in 1 .. n : \E k \in 1 .. n : p[k] = i
      /\ \A i, j \in 1 .. n : p[i] = p[j] => i = j
  BY DEF Bijection, Injection, Surjection, IsInjective
<1>7. /\ \A i \in 1 .. n : p[i] \in 1 .. n
      /\ \A i \in 1 .. n : indicies'[i] = indicies[p[i]]
  BY <1>1, <1>5, <1>6
<1>8. indicies' \in Seq(Units) /\ Len(indicies') = n /\ DOMAIN indicies' = 1 .. n
  <2>1. indicies' \in [1 .. n -> Units]
    BY <1>1, <1>3, <1>5, <1>6
  <2> QED
    BY <2>1, <1>3, PositionList
<1>9. /\ pending' \subseteq RowsOf(group)'
      /\ indicies' \in Seq(Units)
      /\ Len(indicies') = Cardinality(ReadRows')
  BY <1>1, <1>2, <1>8 DEF IndiciesOfRows
<1>10. \A x \in ReadRows' : \E i \in DOMAIN indicies' : indicies'[i] = x.unit
  <2> SUFFICES ASSUME NEW x \in ReadRows
               PROVE  \E i \in DOMAIN indicies' : indicies'[i] = x.unit
    BY <1>1
  <2>1. PICK k \in 1 .. n : indicies[k] = x.unit
    BY <1>3 DEF IndiciesOfRows
  <2>2. PICK i \in 1 .. n : p[i] = k
    BY <1>6
  <2>3. i \in DOMAIN indicies' /\ indicies'[i] = x.unit
    BY <2>1, <2>2, <1>7, <1>8
  <2> QED
    BY <2>3
<1>11. \A i \in DOMAIN indicies' :
         /\ indicies'[i] \in DOMAIN resources'
         /\ \E x \in ReadRows' : x.unit = indicies'[i] /\ x.resc = resources'[indicies'[i]]
  <2> SUFFICES ASSUME NEW i \in 1 .. n
               PROVE  /\ indicies'[i] \in DOMAIN resources
                      /\ \E x \in ReadRows :
                           x.unit = indicies'[i] /\ x.resc = resources[indicies'[i]]
    BY <1>1, <1>8
  <2>1. p[i] \in DOMAIN indicies /\ indicies'[i] = indicies[p[i]]
    BY <1>3, <1>7
  <2>2. indicies[p[i]] \in DOMAIN resources
    BY <2>1 DEF IndiciesOfRows
  <2>3. PICK x \in ReadRows : x.unit = indicies[p[i]] /\ x.resc = resources[indicies[p[i]]]
    BY <2>1 DEF IndiciesOfRows
  <2> QED
    BY <2>1, <2>2, <2>3
<1>12. ASSUME DistinctUnits(group)', NEW i \in 1 .. n, NEW j \in 1 .. n,
              indicies'[i] = indicies'[j]
       PROVE  i = j
  <2>1. p[i] \in DOMAIN indicies /\ p[j] \in DOMAIN indicies /\ indicies[p[i]] = indicies[p[j]]
    BY <1>3, <1>7, <1>12
  <2>2. p[i] = p[j]
    BY <2>1, <1>1, <1>12 DEF IndiciesOfRows
  <2> QED
    BY <2>2, <1>6
<1>13. IndiciesSorted'
  BY <1>1, <1>4, <1>8 DEF IndiciesSorted
<1> QED
  BY <1>8, <1>9, <1>10, <1>11, <1>12, <1>13 DEF IndiciesOfRows

(* The group just used has its own resources at the places of their        *)
(* positions; what was stored for the groups before it stays.              *)
LEMMA UseKeepsTiers ==
  ASSUME CatalogBounded, IndiciesOfRows, IndiciesSorted, UsedTiers, UseGroup
  PROVE  UsedTiers'
<1> DEFINE used == [i \in DOMAIN indicies |-> resources[indicies[i]]]
<1>1. /\ tiers' = [g \in DOMAIN tiers \cup {group} |-> IF g = group THEN used ELSE tiers[g]]
      /\ avus' = avus
  BY DEF UseGroup
<1>2. /\ indicies \in [1 .. Len(indicies) -> Units]
      /\ DOMAIN indicies = 1 .. Len(indicies)
  BY LenProperties DEF IndiciesOfRows
<1>3. DOMAIN used = DOMAIN indicies /\ \A i \in DOMAIN indicies : used[i] = resources[indicies[i]]
  OBVIOUS
<1> HIDE DEF used
<1>4. ReadRows = RowsOf(group)
  BY DEF IndiciesSorted, ReadRows
<1>5. \A g : RowsOf(g)' = RowsOf(g) /\ (DistinctUnits(g)' <=> DistinctUnits(g))
             /\ (SameDigits(g)' <=> SameDigits(g))
  BY <1>1 DEF RowsOf, DistinctUnits, SameDigits
<1>6. ASSUME DistinctUnits(group)
      PROVE  \E order \in Bijection(DOMAIN used, RowsOf(group)) :
               /\ \A i \in DOMAIN used : used[i] = order[i].resc
               /\ SameDigits(group) => InOrder(order)
  <2> DEFINE order == [i \in DOMAIN indicies |-> CHOOSE x \in RowsOf(group) : x.unit = indicies[i]]
  <2>1. \A i \in DOMAIN indicies : \E x \in RowsOf(group) :
          x.unit = indicies[i] /\ x.resc = resources[indicies[i]]
    BY <1>4 DEF IndiciesOfRows
  <2>2. \A x, y \in RowsOf(group) : x.unit = y.unit => x = y
    BY <1>6 DEF DistinctUnits
  <2>3. \A i \in DOMAIN indicies : order[i] \in RowsOf(group) /\ order[i].unit = indicies[i]
    BY <2>1
  <2>4. DOMAIN order = DOMAIN indicies /\ order \in [DOMAIN indicies -> RowsOf(group)]
    BY <2>3
  <2> HIDE DEF order
  <2>5. \A i \in DOMAIN indicies : order[i].resc = resources[indicies[i]]
    BY <2>1, <2>2, <2>3
  <2>6. \A i, j \in DOMAIN indicies : order[i] = order[j] => i = j
    BY <2>3, <1>6 DEF IndiciesOfRows
  <2>7. \A x \in RowsOf(group) : \E i \in DOMAIN indicies : order[i] = x
    BY <2>2, <2>3, <1>4 DEF IndiciesOfRows
  <2>8. order \in Bijection(DOMAIN used, RowsOf(group))
    BY <1>3, <2>4, <2>6, <2>7 DEF Bijection, Injection, Surjection, IsInjective
  <2>9. ASSUME SameDigits(group) PROVE InOrder(order)
    <3> SUFFICES ASSUME NEW i \in DOMAIN indicies, NEW j \in DOMAIN indicies, i < j
                 PROVE  Position(order[i].unit) < Position(order[j].unit)
      BY <2>4 DEF InOrder
    <3>1. indicies[i] # indicies[j]
      BY <1>2, <1>6 DEF IndiciesOfRows
    <3>2. ~UnitLess(indicies[j], indicies[i])
      BY DEF IndiciesSorted
    <3>3. indicies[i] \in Units /\ indicies[j] \in Units
      BY <1>2
    <3>4. Digits(indicies[i]) = Digits(indicies[j])
      BY <2>3, <2>9 DEF SameDigits
    <3> QED
      BY <2>3, <3>1, <3>2, <3>3, <3>4, TierGroupsAssumption
  <2> QED
    BY <1>3, <2>5, <2>8, <2>9
<1> SUFFICES ASSUME NEW g \in DOMAIN tiers', DistinctUnits(g)
             PROVE  \E order \in Bijection(DOMAIN tiers'[g], RowsOf(g)) :
                      /\ \A i \in DOMAIN tiers'[g] : tiers'[g][i] = order[i].resc
                      /\ SameDigits(g) => InOrder(order)
  BY <1>5 DEF UsedTiers, Orders, MadeOf, InOrder
<1>7. CASE g = group
  BY <1>1, <1>6, <1>7
<1>8. CASE g # group
  <2>1. g \in DOMAIN tiers /\ tiers'[g] = tiers[g]
    BY <1>1, <1>8
  <2> QED
    BY <2>1 DEF UsedTiers, Orders, MadeOf
<1> QED
  BY <1>7, <1>8

(* Nothing but UseGroup writes tiers, and nothing writes the catalog.      *)
LEMMA OthersKeepTiers ==
  ASSUME UsedTiers, avus' = avus, tiers' = tiers
  PROVE  UsedTiers'
<1>1. \A g : RowsOf(g)' = RowsOf(g) /\ (DistinctUnits(g)' <=> DistinctUnits(g))
             /\ (SameDigits(g)' <=> SameDigits(g))
  BY DEF RowsOf, DistinctUnits, SameDigits
<1> QED
  BY <1>1 DEF UsedTiers, Orders, MadeOf, InOrder

-----------------------------------------------------------------------------
(* No catalog, group order or row order takes the policy out of GroupsInv: *)
(* the entries of *indicies are always those of the rows read so far.      *)
THEOREM GroupsInvariant == Spec => []GroupsInv
<1>1. Init => GroupsInv
  <2> SUFFICES ASSUME Init PROVE GroupsInv
    OBVIOUS
  <2>1. CatalogBounded
    BY InitBounded
  <2>2. phase = "start" /\ UsedTiers
    BY DEF Init, UsedTiers
  <2> QED
    BY <2>1, <2>2 DEF GroupsInv
<1>2. GroupsInv /\ [Next]_vars => GroupsInv'
  <2> SUFFICES ASSUME GroupsInv, [Next]_vars PROVE GroupsInv'
    OBVIOUS
  <2>1. CASE ListGroups
    BY <2>1, OthersKeepTiers DEF ListGroups, GroupsInv, CatalogBounded
  <2>2. CASE StartGroup
    <3>1. IndiciesOfRows' /\ UsedTiers' /\ CatalogBounded' /\ phase' = "rows"
      BY <2>2, StartKeepsIndicies, OthersKeepTiers DEF StartGroup, GroupsInv, CatalogBounded
    <3> QED
      BY <3>1 DEF GroupsInv
  <2>3. CASE ReadRow
    <3>1. phase = "rows" /\ phase' = "rows" /\ avus' = avus /\ tiers' = tiers
      BY <2>3 DEF ReadRow
    <3>2. IndiciesOfRows' /\ UsedTiers' /\ CatalogBounded'
      BY <2>3, <3>1, ReadKeepsIndicies, OthersKeepTiers DEF GroupsInv, CatalogBounded
    <3> QED
      BY <3>1, <3>2 DEF GroupsInv
  <2>4. CASE SortIndicies
    <3>1. phase = "rows" /\ phase' = "pairs" /\ avus' = avus /\ tiers' = tiers
      BY <2>4 DEF SortIndicies
    <3>2. IndiciesOfRows' /\ IndiciesSorted' /\ UsedTiers' /\ CatalogBounded'
      BY <2>4, <3>1, SortKeepsIndicies, OthersKeepTiers DEF GroupsInv, CatalogBounded
    <3> QED
      BY <3>1, <3>2 DEF GroupsInv
  <2>5. CASE UseGroup
    <3>1. phase = "pairs" /\ phase' = "next" /\ avus' = avus
      BY <2>5 DEF UseGroup
    <3>2. UsedTiers' /\ CatalogBounded'
      BY <2>5, <3>1, UseKeepsTiers DEF GroupsInv, CatalogBounded
    <3> QED
      BY <3>1, <3>2 DEF GroupsInv
  <2>6. CASE UNCHANGED vars
    BY <2>6 DEF vars, GroupsInv, CatalogBounded, IndiciesOfRows, IndiciesSorted, ReadRows,
                RowsOf, DistinctUnits, UsedTiers, Orders, MadeOf, InOrder, SameDigits
  <2> QED
    BY <2>1, <2>2, <2>3, <2>4, <2>5, <2>6 DEF Next
<1> QED
  BY <1>1, <1>2, PTL DEF Spec

(* When a group's tiers are paired up, *indicies holds the position of     *)
(* each of its rows and nothing else (get_tier_group_resources_and_        *)
(* indicies), for any sort that orders and keeps what it is given.         *)
THEOREM RowsAllKept == Spec => []PositionsKept
<1>1. GroupsInv => PositionsKept
  <2> SUFFICES ASSUME GroupsInv, phase = "pairs"
               PROVE  /\ Len(indicies) = Cardinality(RowsOf(group))
                      /\ Range(indicies) = {x.unit : x \in RowsOf(group)}
    BY DEF PositionsKept
  <2>1. IndiciesOfRows /\ ReadRows = RowsOf(group)
    BY DEF GroupsInv, IndiciesSorted, ReadRows
  <2>2. Range(indicies) = {x.unit : x \in RowsOf(group)}
    BY <2>1 DEF IndiciesOfRows, Range
  <2> QED
    BY <2>1, <2>2 DEF IndiciesOfRows
<1> QED
  BY <1>1, GroupsInvariant, PTL

(* A group whose positions are distinct is processed with its own          *)
(* resources, each once, whatever the groups before it left in *resources  *)
(* (apply_storage_tiering_policy).                                         *)
THEOREM OwnResources == Spec => []GroupTiers
<1>1. GroupsInv => GroupTiers
  BY DEF GroupsInv, UsedTiers, GroupTiers
<1> QED
  BY <1>1, GroupsInvariant, PTL

(* It is processed in numeric order of the positions when these have the   *)
(* same number of digits; the sort itself only promises the string order.  *)
THEOREM NumericOrder == Spec => []SameDigitsTiers
<1>1. GroupsInv => SameDigitsTiers
  BY DEF GroupsInv, UsedTiers, SameDigitsTiers
<1> QED
  BY <1>1, GroupsInvariant, PTL
=============================================================================
