--------------------------- MODULE MCLandingZone ---------------------------
(***************************************************************************)
(* Instances of LandingZone: an image that grows once and a directory that *)
(* grows by its two files.                                                 *)
(***************************************************************************)
EXTENDS LandingZone

TwoEntries == {"photo", "dir"}
TwoDirs    == {"dir"}
TwoFiles   == {"p", "x", "y"}
TwoFilesOf == [e \in TwoEntries |-> IF e = "dir" THEN {"x", "y"} ELSE {"p"}]
TwoSizes   == [f \in TwoFiles |-> IF f = "p" THEN 1 ELSE 0]

OneEntry   == {"photo"}
=============================================================================
