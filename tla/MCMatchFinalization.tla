------------------------ MODULE MCMatchFinalization ------------------------
(* Instances of MatchFinalization: ann plays two matches that may end at   *)
(* the same time; a fourth win is next to the badges of three and five.    *)
EXTENDS MatchFinalization

MCUsers == {"ann", "bob"}
MCMatches == {"m1", "m2"}
MCSeat == [m \in MCMatches |-> [s \in Sides |-> IF s = "player1" THEN "ann" ELSE "bob"]]
MCAchievements == {"bronze", "silver"}
MCNeeds == [a \in MCAchievements |-> IF a = "bronze" THEN 3 ELSE 5]
MCStartStreak == [u \in MCUsers |-> IF u = "ann" THEN 4 ELSE 0]
=============================================================================
