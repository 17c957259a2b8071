---------------------------- MODULE MCTierGroups ----------------------------
(***************************************************************************)
(* Instances of TierGroups: positions of one and two digits.  The function *)
(* replace is compared with its reference on all queries of at most eight  *)
(* tokens, with a marker that can overlap itself and one that cannot.      *)
(***************************************************************************)
EXTENDS TierGroups

LOCAL INSTANCE SequencesExt

Helpers == INSTANCE TieringHelpers
Stored  == INSTANCE StoredQuery

HelpersLess(a, b) == Helpers!StringLess(a, b)
HelpersSort(a)    == Helpers!sort(a)

TwoDigits == {<<0>>, <<2>>, <<1, 0>>, <<1, 2>>}
Value(u) == FoldLeft(LAMBDA n, d : 10 * n + d, 0, u)

ASSUME ReplaceAssumption ==
  \A query \in UNION {[1 .. n -> {"a", "b"}] : n \in 0 .. 8} :
    \A marker \in {<<"a", "b", "a">>, <<"a", "b">>, <<"a">>} :
      Stored!EveryMarkerReplaced(query, marker, <<"t">>)
=============================================================================
