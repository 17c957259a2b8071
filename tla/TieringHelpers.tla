--------------------------- MODULE TieringHelpers ---------------------------
(***************************************************************************)
(* The pure functions of apply_storage_tiering.re.  A string is a sequence *)
(* of tokens; a hierarchy "root;leaf" is the sequence of its names; a unit *)
(* of an AVU is the sequence of its digits.                                *)
(***************************************************************************)
EXTENDS Naturals, SequencesExt

(* The comparison of two strings, that the rule language performs as the   *)
(* units come from the catalog as strings.                                 *)
RECURSIVE StringLess(_, _)
StringLess(a, b) ==
  /\ b # << >>
  /\ \/ a = << >>
     \/ a[1] < b[1]
     \/ a[1] = b[1] /\ StringLess(Tail(a), Tail(b))

RECURSIVE splitByPivot(_, _)
splitByPivot(a, b) ==
  IF b = << >> THEN << << >>, << >> >>
  ELSE LET rest == splitByPivot(a, Tail(b))
       IN  IF StringLess(Head(b), a)
             THEN << Cons(Head(b), rest[1]), rest[2] >>
             ELSE << rest[1], Cons(Head(b), rest[2]) >>

RECURSIVE append(_, _)
append(a, b) == IF a = << >> THEN b ELSE Cons(Head(a), append(Tail(a), b))

RECURSIVE sort(_)
sort(a) ==
  IF Len(a) <= 1 THEN a
  ELSE LET halves == splitByPivot(Head(a), Tail(a))
       IN  append(sort(halves[1]), Cons(Head(a), sort(halves[2])))

(* split_path(p, ";", parent, last): everything before the last separator, *)
(* and what follows it; without a separator both are the whole string.     *)
SplitParent(h) == IF Len(h) = 1 THEN h ELSE SubSeq(h, 1, Len(h) - 1)
SplitLast(h)   == h[Len(h)]

(* The resources of a set of hierarchies, given for each leaf: their       *)
(* leaves (msiget_leaf_resources answers the resource itself when it has   *)
(* no children), and what the rules find in front of a leaf, which names a *)
(* resource only when the hierarchy has at most two levels.                *)
LeavesOfHier(hier) ==
  [r \in DOMAIN hier \cup {hier[l][1] : l \in DOMAIN hier} |->
     IF r \in DOMAIN hier THEN {r} ELSE {l \in DOMAIN hier : hier[l][1] = r}]
ParentOfHier(hier, none) ==
  [l \in DOMAIN hier |->
     LET p == SplitParent(hier[l]) IN IF Len(p) = 1 THEN p[1] ELSE none]

(* The tiers that get_tier_group_resources_and_indicies makes of rows of   *)
(* distinct units (TierGroups has it row by row).                          *)
RECURSIVE Listed(_)
Listed(us) == IF us = {} THEN << >>
              ELSE LET u == CHOOSE v \in us : TRUE IN Cons(u, Listed(us \ {u}))
TiersOfRows(avu_rows) ==
  [g \in {x.group : x \in avu_rows} |->
     LET order == sort(Listed({x.unit : x \in {y \in avu_rows : y.group = g}}))
     IN  [i \in DOMAIN order |->
            (CHOOSE x \in avu_rows : x.group = g /\ x.unit = order[i]).resc]]

(* replace(str, src, tgt): a scan from the left that copies what lies      *)
(* between the occurrences of src; cp is where the next copy starts.       *)
RECURSIVE ReplaceFrom(_, _, _, _, _)
ReplaceFrom(str, src, tgt, i, cp) ==
  IF i + Len(src) - 1 > Len(str) THEN SubSeq(str, cp, Len(str))
  ELSE IF SubSeq(str, i, i + Len(src) - 1) = src
    THEN SubSeq(str, cp, i - 1) \o tgt
           \o ReplaceFrom(str, src, tgt, i + Len(src), i + Len(src))
    ELSE ReplaceFrom(str, src, tgt, i + 1, cp)

(* A scan that goes on one token after an occurrence, not behind it. *)
RECURSIVE ReplaceOverlap(_, _, _, _, _)
ReplaceOverlap(str, src, tgt, i, cp) ==
  IF i + Len(src) - 1 > Len(str) THEN SubSeq(str, cp, Len(str))
  ELSE IF SubSeq(str, i, i + Len(src) - 1) = src
    THEN SubSeq(str, cp, i - 1) \o tgt \o ReplaceOverlap(str, src, tgt, i + 1, i + 1)
    ELSE ReplaceOverlap(str, src, tgt, i + 1, cp)
ReplaceRestart(str, src, tgt) ==
  IF src = << >> THEN str ELSE ReplaceOverlap(str, src, tgt, 1, 1)

replace(str, src, tgt) ==
  IF src = << >> THEN str ELSE ReplaceFrom(str, src, tgt, 1, 1)
=============================================================================
