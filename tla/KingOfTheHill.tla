--------------------------- MODULE KingOfTheHill ---------------------------
(***************************************************************************)
(* What the members of a squad are promised of its arena, without entries, *)
(* sockets, rooms or scores: one line, of which the first two play as soon *)
(* as there are two, the first of them as the champion.  Whoever loses     *)
(* goes to the end of the line; nobody who plays can step out of it, and   *)
(* all of it may be lost with the process.  SquadArena implements this     *)
(* specification.                                                          *)
(***************************************************************************)
EXTENDS Naturals, Sequences

CONSTANT Players

VARIABLE line

Inside == {line[k] : k \in DOMAIN line}

Init == line = <<>>

Come(p) ==
    /\ p \notin Inside
    /\ line' = Append(line, p)

\* The k-th in the line leaves, which only those who wait can do.
Go(k) ==
    /\ Len(line) >= 2 => k > 2
    /\ line' = SubSeq(line, 1, k - 1) \o SubSeq(line, k + 1, Len(line))

\* The k-th in the line, one of the first two, loses.
Lose(k) ==
    /\ Len(line) >= 2 /\ k \in {1, 2}
    /\ line' = <<line[3 - k]>> \o SubSeq(line, 3, Len(line)) \o <<line[k]>>

Close == line' = <<>>

Next ==
    \/ \E p \in Players : Come(p)
    \/ \E k \in DOMAIN line : Go(k) \/ Lose(k)
    \/ Close

Spec == Init /\ [][Next]_line

=============================================================================
