---------------------------- MODULE StoredQuery ----------------------------
(***************************************************************************)
(* find_violating_storage_objects_by_stored_query puts the time check in   *)
(* the query stored on a tier, in place of every TIME_CHECK_STRING, by the *)
(* function replace.  Here is a reference for replace that does not scan:  *)
(* it says which occurrences of the marker are replaced.                   *)
(***************************************************************************)
EXTENDS TieringHelpers

(* Where the marker occurs in a query.  Of two occurrences that overlap    *)
(* only one is replaced, the one that starts first.                        *)
Occurrences(query, marker) ==
  {p \in DOMAIN query : p + Len(marker) - 1 <= Len(query)
                        /\ SubSeq(query, p, p + Len(marker) - 1) = marker}
Covers(c, p, marker) == c <= p /\ p < c + Len(marker)
IsReplaced(C, query, marker) ==
  /\ \A c, d \in C : Covers(c, d, marker) => c = d
  /\ \A p \in Occurrences(query, marker) \ C : \E c \in C : Covers(c, p, marker)
WithReplaced(C, query, marker, time_check) ==
  FlattenSeq([i \in DOMAIN query |->
    IF i \in C THEN time_check
    ELSE IF \E c \in C : Covers(c, i, marker) THEN << >> ELSE <<query[i]>>])

(* The evaluated query is the stored one with every marker replaced from   *)
(* the left: nothing else is changed, dropped or doubled.                  *)
EveryMarkerReplaced(query, marker, time_check) ==
  \E C \in SUBSET Occurrences(query, marker) :
    /\ IsReplaced(C, query, marker)
    /\ replace(query, marker, time_check) = WithReplaced(C, query, marker, time_check)
=============================================================================
