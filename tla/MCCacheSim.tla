----------------------------- MODULE MCCacheSim -----------------------------
(* CacheSim with I$ and D$, the latter with two sets of two ways, over one *)
(* fully associative L2 that is followed by a tag cache, and with a D$     *)
(* alone.                                                                  *)
EXTENDS CacheSim, TLC

Tower == {"I", "D", "L2", "TC"}
TowerSets == "I" :> 1 @@ "D" :> 2 @@ "L2" :> 1 @@ "TC" :> 1
TowerWays == "I" :> 1 @@ "D" :> 2 @@ "L2" :> 2 @@ "TC" :> 1
TowerLines == "I" :> 8 @@ "D" :> 8 @@ "L2" :> 16 @@ "TC" :> 8
TowerTags == [c \in Tower |-> c = "TC"]
TowerHandlers == "I" :> <<"L2">> @@ "D" :> <<"L2">> @@ "L2" :> <<"TC">> @@ "TC" :> <<>>

Single == {"D"}
SingleSets == [c \in Single |-> 2]
SingleWays == [c \in Single |-> 1]
SingleLines == [c \in Single |-> 8]
SingleTags == [c \in Single |-> FALSE]
SingleHandlers == [c \in Single |-> <<>>]

ASSUME NestAssumption == LinesNest
=============================================================================
