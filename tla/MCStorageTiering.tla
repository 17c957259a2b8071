-------------------------- MODULE MCStorageTiering --------------------------
(***************************************************************************)
(* Instances of StorageTiering.  A catalog of resources is written as the  *)
(* hierarchies of its leaves and the storage_tier_group AVUs of its        *)
(* resources; the constants of the model follow from them by the functions *)
(* of the rule base.                                                       *)
(***************************************************************************)
EXTENDS StorageTiering, TieringHelpers

Hier(p, l) == << p, l >>
Row(g, u, r) == [group |-> g, unit |-> u, resc |-> r]

-----------------------------------------------------------------------------
(* Three tiers, each a resource without children, and a resource that is   *)
(* in no group.                                                            *)
ChainHier == [fast |-> <<"fast">>, medium |-> <<"medium">>,
              slow |-> <<"slow">>, spare |-> <<"spare">>]
ChainRows == {Row("g", <<0>>, "fast"), Row("g", <<1>>, "medium"), Row("g", <<2>>, "slow")}
ChainLeaves == DOMAIN ChainHier
ChainLeavesOf == LeavesOfHier(ChainHier)
ChainResources == DOMAIN ChainLeavesOf
ChainParentOf == ParentOfHier(ChainHier, NoResource)
ChainTiers == [g |-> <<"fast", "medium", "slow">>]
ChainGroups == DOMAIN ChainTiers
ChainTime == [r \in ChainResources |->
                CASE r = "fast" -> 0 [] r = "medium" -> 1 [] OTHER -> NoTime]
ChainQuery == [r \in ChainResources |-> {}]
ChainPut == {"fast"}
MediumPut == {"medium"}

-----------------------------------------------------------------------------
(* Two groups that end on the same archive: "g" has three tiers, the first *)
(* a root of two leaves, one of them a level deeper, with a stored query;  *)
(* the first tier of "k" has no storage_tier_time of its own.              *)
TreeHier == [u1 |-> Hier("rnd", "u1"), u2 |-> <<"rnd", "mid", "u2">>,
             ssd |-> <<"ssd">>, tape |-> <<"tape">>, arch |-> <<"arch">>]
TreeRows == {Row("g", <<0>>, "rnd"), Row("g", <<1>>, "ssd"), Row("g", <<2>>, "arch"),
             Row("k", <<0>>, "tape"), Row("k", <<1>>, "arch")}
TreeLeaves == DOMAIN TreeHier
TreeLeavesOf == LeavesOfHier(TreeHier)
TreeResources == DOMAIN TreeLeavesOf
TreeParentOf == ParentOfHier(TreeHier, NoResource)
TreeTiers == [g |-> <<"rnd", "ssd", "arch">>, k |-> <<"tape", "arch">>]
TreeGroups == DOMAIN TreeTiers
TreeTime == [r \in TreeResources |-> CASE r = "rnd" -> 0 [] r = "ssd" -> 1 [] OTHER -> NoTime]
TreeQuery == [r \in TreeResources |-> IF r = "rnd" THEN {"u1", "u2"} ELSE {}]
TreePut == {"u1"}

(* The sequences above are those the rule base computes from the AVUs.     *)
ASSUME TiersAssumption ==
  /\ ChainTiers = TiersOfRows(ChainRows)
  /\ TreeTiers = TiersOfRows(TreeRows)
=============================================================================
