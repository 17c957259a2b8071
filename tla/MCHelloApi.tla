----------------------------- MODULE MCHelloApi -----------------------------
(***************************************************************************)
(* Two clients that may be public or not, two failures.                    *)
(***************************************************************************)
EXTENDS HelloApi

CONSTANTS c1, c2
Pair == {c1, c2}
=============================================================================
