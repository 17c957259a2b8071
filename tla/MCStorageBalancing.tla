------------------------- MODULE MCStorageBalancing -------------------------
(***************************************************************************)
(* An instance of StorageBalancing: two resources with limits that two     *)
(* clients can overrun, no limit, a limit of 0, or none that can be read;  *)
(* the storage of the second may be two levels below.                      *)
(***************************************************************************)
EXTENDS StorageBalancing, TLC

Two == {"p", "q"}
Layout(p, q, d) == [max_bytes |-> [p |-> p, q |-> q], deep |-> d]
TwoLayouts == {Layout(2, 1, {}), Layout(3, 0, {}), Layout(2, Unlimited, {}),
               Layout(2, Malformed, {}), Layout(1, 2, {"q"})}

(* Clients are interchangeable.                                            *)
Alike == Permutations(Clients)
=============================================================================
