---------------------------- MODULE BestOfThree ----------------------------
(***************************************************************************)
(* What a player is promised of a match, without rounds, moves, sockets or *)
(* tables: points are scored one at a time, the first side with two points *)
(* wins, the verdict is recorded at most once and never changes, and a     *)
(* match that is not recorded may be lost with the process (`void`).       *)
(* GameRoom implements this specification.                                 *)
(***************************************************************************)
EXTENDS Naturals

CONSTANTS
    Rooms,   \* matches
    Sides    \* the two sides of a match

VARIABLES
    phase,   \* [Rooms -> Phases]
    score,   \* [Rooms -> [Sides -> 0..2]], forgotten once recorded or void
    winner   \* [Rooms -> Sides \cup {"none"}]

vars == <<phase, score, winner>>

Phases == {"idle", "playing", "decided", "recorded", "void"}

Zero == [s \in Sides |-> 0]

Init ==
    /\ phase = [r \in Rooms |-> "idle"]
    /\ score = [r \in Rooms |-> Zero]
    /\ winner = [r \in Rooms |-> "none"]

Open(r) ==
    /\ phase[r] = "idle"
    /\ phase' = [phase EXCEPT ![r] = "playing"]
    /\ UNCHANGED <<score, winner>>

\* The first point of side s.
Point(r, s) ==
    /\ phase[r] = "playing"
    /\ score[r][s] = 0
    /\ score' = [score EXCEPT ![r][s] = 1]
    /\ UNCHANGED <<phase, winner>>

\* The second point of side s, which ends the match.
Win(r, s) ==
    /\ phase[r] = "playing"
    /\ score[r][s] = 1
    /\ score' = [score EXCEPT ![r][s] = 2]
    /\ phase' = [phase EXCEPT ![r] = "decided"]
    /\ winner' = [winner EXCEPT ![r] = s]

Record(r) ==
    /\ phase[r] = "decided"
    /\ phase' = [phase EXCEPT ![r] = "recorded"]
    /\ score' = [score EXCEPT ![r] = Zero]
    /\ UNCHANGED winner

\* Matches that are not recorded can be lost, several at a time.
Void(S) ==
    /\ \A r \in S : phase[r] \in {"idle", "playing", "decided"}
    /\ phase' = [r \in Rooms |-> IF r \in S THEN "void" ELSE phase[r]]
    /\ score' = [r \in Rooms |-> IF r \in S THEN Zero ELSE score[r]]
    /\ winner' = [r \in Rooms |-> IF r \in S THEN "none" ELSE winner[r]]

Next ==
    \/ \E r \in Rooms : Open(r) \/ Record(r)
    \/ \E r \in Rooms, s \in Sides : Point(r, s) \/ Win(r, s)
    \/ \E S \in SUBSET Rooms : Void(S)

Spec == Init /\ [][Next]_vars

=============================================================================
