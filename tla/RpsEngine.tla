----------------------------- MODULE RpsEngine -----------------------------
(***************************************************************************)
(* RpsEngine: the rules of one round and of one match, pure functions with *)
(* no state.  Players are named by the side they sit on; the engine's      *)
(* p1Id / p2Id arguments are the users of the two sides, and the callers   *)
(* translate.                                                              *)
(***************************************************************************)
EXTENDS Naturals

Sides == {"player1", "player2"}

Moves == {"rock", "paper", "scissors"}

\* BEATS[m] is the one move that m beats.
Beats == [rock |-> "scissors", paper |-> "rock", scissors |-> "paper"]

Opponent(s) == CHOOSE t \in Sides : t # s

\* resolveRound: "draw", or the side whose move beats the other.
RoundResult(m1, m2) ==
    IF m1 = m2 THEN "draw"
    ELSE IF Beats[m1] = m2 THEN "player1" ELSE "player2"

\* resolveMatch with the threshold of a best of five.
MatchResultOfFive(w1, w2) ==
    IF w1 >= 3 THEN [isComplete |-> TRUE, winner |-> "player1"]
    ELSE IF w2 >= 3 THEN [isComplete |-> TRUE, winner |-> "player2"]
    ELSE [isComplete |-> FALSE, winner |-> "none"]

\* resolveMatch: whether the match is over at this score, and for whom.
MatchResult(w1, w2) ==
    IF w1 >= 2 THEN [isComplete |-> TRUE, winner |-> "player1"]
    ELSE IF w2 >= 2 THEN [isComplete |-> TRUE, winner |-> "player2"]
    ELSE IF w1 + w2 >= 5
         THEN [isComplete |-> TRUE,
               winner |-> IF w1 > w2 THEN "player1"
                          ELSE IF w2 > w1 THEN "player2" ELSE "none"]
         ELSE [isComplete |-> FALSE, winner |-> "none"]

=============================================================================
