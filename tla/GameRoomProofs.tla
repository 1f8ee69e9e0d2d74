--------------------------- MODULE GameRoomProofs ---------------------------
(***************************************************************************)
(* Proofs about GameRoom, for every set of users and rooms and every bound *)
(* on rounds.                                                              *)
(***************************************************************************)
EXTENDS GameRoom, FiniteSetTheorems, SequenceTheorems, TLAPS

----------------------------------------------------------------------------
(* The engine.                                                             *)

\* No seat has an advantage: swapping the two moves swaps the two sides, a
\* draw is two equal moves, and every move wins against exactly one move
\* (rps.engine.ts:13-23).
THEOREM EngineIsFair ==
    /\ \A m, n \in Moves :
         /\ RoundResult(m, n) = "draw" <=> m = n
         /\ RoundResult(m, n) = "player1" <=> RoundResult(n, m) = "player2"
    /\ \A m \in Moves : \E n \in Moves :
         /\ RoundResult(m, n) = "player1"
         /\ \A k \in Moves : RoundResult(m, k) = "player1" => k = n
<1>1. \A m, n \in Moves :
         /\ RoundResult(m, n) = "draw" <=> m = n
         /\ RoundResult(m, n) = "player1" <=> RoundResult(n, m) = "player2"
  BY DEF Moves, RoundResult, Beats
<1>2. \A m \in Moves : \E n \in Moves :
         /\ RoundResult(m, n) = "player1"
         /\ \A k \in Moves : RoundResult(m, k) = "player1" => k = n
  <2>1. SUFFICES ASSUME NEW m \in Moves
                 PROVE  /\ Beats[m] \in Moves
                        /\ RoundResult(m, Beats[m]) = "player1"
                        /\ \A k \in Moves : RoundResult(m, k) = "player1" => k = Beats[m]
    OBVIOUS
  <2> QED
    BY DEF Moves, RoundResult, Beats
<1> QED
  BY <1>1, <1>2

LEMMA OpponentOf == Opponent("player1") = "player2" /\ Opponent("player2") = "player1"
BY DEF Opponent, Sides

\* With fewer than two wins a side, the verdict is who has just reached two.
LEMMA MatchResultAtTwo ==
    ASSUME NEW a \in 0..2, NEW b \in 0..2, a < 2 \/ b < 2
    PROVE  /\ MatchResult(a, b).isComplete <=> a = 2 \/ b = 2
           /\ a = 2 => MatchResult(a, b).winner = "player1"
           /\ b = 2 => MatchResult(a, b).winner = "player2"
BY DEF MatchResult

----------------------------------------------------------------------------
(* One room.                                                               *)

\* What holds of a room in the Map.
RoomOK(g) ==
    /\ g \in RoomType
    /\ g.player \in Players
    /\ g.status \in {"in_progress", "completed"}
    /\ ScoreOK(g)
    /\ VerdictOK(g)
    /\ OneUser(g.player) => g.rounds = <<>> /\ g.move["player2"] = NoMove

LEMMA RoundResultType ==
    ASSUME NEW m \in Moves, NEW n \in Moves
    PROVE  RoundResult(m, n) \in Sides \cup {"draw"}
BY DEF RoundResult, Sides

LEMMA NewRoomOK ==
    ASSUME NEW p \in Players, NEW m \in Carried(p)
    PROVE  RoomOK(NewRoom(p, m)) /\ NewRoom(p, m).status = "in_progress"
<1> DEFINE g == NewRoom(p, m)
<1>1. /\ g.player = p /\ g.status = "in_progress" /\ g.rounds = <<>> /\ g.currentRound = 1
      /\ g.wins = [s \in Sides |-> 0] /\ g.move = m /\ g.winner = NoUser
      /\ Len(g.rounds) = 0 /\ DOMAIN g.rounds = {}
  BY DEF NewRoom
<1>2. /\ p \in [Sides -> Users \cup {NoUser}] /\ m \in [Sides -> Cell]
      /\ [s \in Sides |-> 0] \in [Sides -> 0..2] /\ <<>> \in Seq(Round)
      /\ OneUser(p) => m["player2"] = NoMove
  BY DEF Players, Carried, NoMoves, Sides
<1>3. g \in RoomType
  BY <1>2 DEF NewRoom, RoomType
<1> HIDE DEF g
<1>4. \A s \in Sides : RoundsWon(g, s) = {}
  <2>1. 1..Len(g.rounds) = {}
    BY <1>1
  <2> QED
    BY <2>1 DEF RoundsWon, WonUpTo
<1>5. \A s \in Sides : Cardinality(RoundsWon(g, s)) = 0
  BY <1>4, FS_EmptySet
<1>6. ScoreOK(g)
  BY <1>1, <1>5 DEF ScoreOK
<1>7. VerdictOK(g)
  BY <1>1 DEF VerdictOK
<1> QED
  BY <1>1, <1>2, <1>3, <1>6, <1>7 DEF RoomOK, g

\* WonUpTo counts positions of a finite sequence.
LEMMA WonUpToFinite ==
    ASSUME NEW g, NEW s \in Sides, NEW n \in Nat
    PROVE  IsFiniteSet(WonUpTo(g, s, n))
<1>1. WonUpTo(g, s, n) \subseteq 1..n
  BY DEF WonUpTo
<1>2. IsFiniteSet(1..n)
  BY FS_Interval
<1> QED
  BY <1>1, <1>2, FS_Subset

LEMMA RoundsWonFinite ==
    ASSUME NEW g \in RoomType, NEW s \in Sides
    PROVE  IsFiniteSet(RoundsWon(g, s))
BY WonUpToFinite DEF RoundsWon, RoomType

\* A room in which both players have just moved.
BothMoved(g) ==
    /\ g \in RoomType
    /\ g.player \in Players /\ ~OneUser(g.player)
    /\ g.status = "in_progress"
    /\ ScoreOK(g)
    /\ VerdictOK(g)
    /\ g.move \in [Sides -> Moves]

\* The history grows by the round played, and the score follows it.
LEMMA PushRoundOK ==
    ASSUME NEW g, BothMoved(g)
    PROVE  LET h == PushRound(g) IN
           /\ h \in RoomType
           /\ h.rounds = Append(g.rounds, LastRound(h))
           /\ LastRound(h).roundNumber = g.currentRound
           /\ LastRound(h).move = g.move
           /\ LastRound(h).winner = UserOf(g, RoundOf(g))
           /\ \A i \in DOMAIN h.rounds :
                /\ h.rounds[i].roundNumber = i
                /\ h.rounds[i].winner = UserOf(g, ResultOf(h.rounds[i]))
           /\ \A s \in Sides : h.wins[s] = Cardinality(RoundsWon(h, s))
           /\ \E s \in Sides : h.wins[s] < 2
           /\ \A s \in Sides : h.wins[s] = 2 => RoundOf(g) = s
<1> DEFINE h == PushRound(g)
           n == Len(g.rounds)
           rd == [roundNumber |-> g.currentRound, move |-> g.move,
                  winner |-> UserOf(g, RoundOf(g))]
<1>0. /\ g.rounds \in Seq(Round) /\ n \in Nat /\ g.currentRound = n + 1
      /\ g.wins \in [Sides -> 0..2] /\ g.player \in [Sides -> Users]
      /\ \A s \in Sides : g.wins[s] < 2
  BY DEF BothMoved, RoomType, ScoreOK, VerdictOK, Players
<1>1. RoundOf(g) \in Sides \cup {"draw"}
  BY RoundResultType DEF BothMoved, RoundOf, Sides
<1>2. UserOf(g, RoundOf(g)) \in Users \cup {NoUser}
  BY <1>0 DEF UserOf
<1>3. rd \in Round
  BY <1>0, <1>2 DEF Round, BothMoved
<1>4. Score(g) \in [Sides -> 0..2]
  BY <1>0, <1>1 DEF Score
<1>5. h = [g EXCEPT !.wins = Score(g), !.rounds = Append(g.rounds, rd)]
  BY DEF PushRound
<1>6. /\ h.rounds = Append(g.rounds, rd) /\ h.wins = Score(g) /\ h.player = g.player
      /\ h.status = g.status /\ h.move = g.move /\ h.currentRound = g.currentRound
      /\ h.winner = g.winner
  BY <1>5 DEF BothMoved, RoomType
<1>7. Append(g.rounds, rd) \in Seq(Round)
  BY <1>0, <1>3
<1>8. h \in RoomType
  BY <1>4, <1>5, <1>7 DEF BothMoved, RoomType
<1>9. /\ Len(h.rounds) = n + 1
      /\ h.rounds[n + 1] = rd
      /\ \A i \in 1..n : h.rounds[i] = g.rounds[i]
      /\ DOMAIN h.rounds = 1..(n + 1) /\ DOMAIN g.rounds = 1..n
  BY <1>0, <1>3, <1>6
<1>10. LastRound(h) = rd
  BY <1>9 DEF LastRound
<1>16. ResultOf(rd) = RoundOf(g)
  BY DEF ResultOf, RoundOf
<1>11. \A i \in DOMAIN h.rounds :
         /\ h.rounds[i].roundNumber = i
         /\ h.rounds[i].winner = UserOf(g, ResultOf(h.rounds[i]))
  <2>1. rd.winner = UserOf(g, ResultOf(rd)) /\ rd.roundNumber = n + 1
    BY <1>0, <1>16
  <2>2. \A i \in 1..n :
          /\ g.rounds[i].roundNumber = i
          /\ g.rounds[i].winner = UserOf(g, ResultOf(g.rounds[i]))
    BY <1>9 DEF BothMoved, ScoreOK
  <2> HIDE DEF rd
  <2> QED
    BY <1>0, <1>9, <2>1, <2>2
<1>12. ASSUME NEW s \in Sides
       PROVE  /\ h.wins[s] = Cardinality(RoundsWon(h, s))
              /\ h.wins[s] = IF RoundOf(g) = s THEN g.wins[s] + 1 ELSE g.wins[s]
  <2>1. g.wins[s] = Cardinality(RoundsWon(g, s)) /\ IsFiniteSet(RoundsWon(g, s))
    BY RoundsWonFinite DEF BothMoved, ScoreOK
  <2>2. h.wins[s] = IF RoundOf(g) = s THEN g.wins[s] + 1 ELSE g.wins[s]
    BY <1>0, <1>1, <1>6 DEF Score, Sides
  <2>3. /\ Len(h.rounds) = n + 1 /\ ResultOf(h.rounds[n + 1]) = RoundOf(g)
        /\ \A i \in 1..n : ResultOf(h.rounds[i]) = ResultOf(g.rounds[i])
    BY <1>9, <1>16
  <2>4. CASE RoundOf(g) = s
    <3>1. RoundsWon(h, s) = RoundsWon(g, s) \cup {n + 1}
      BY <1>0, <2>3, <2>4 DEF RoundsWon, WonUpTo
    <3>2. n + 1 \notin RoundsWon(g, s)
      BY <1>0 DEF RoundsWon, WonUpTo
    <3>3. Cardinality(RoundsWon(h, s)) = Cardinality(RoundsWon(g, s)) + 1
      BY <2>1, <3>1, <3>2, FS_AddElement
    <3> QED
      BY <2>1, <2>2, <2>4, <3>3
  <2>5. CASE RoundOf(g) # s
    <3>1. RoundsWon(h, s) = RoundsWon(g, s)
      BY <1>0, <2>3, <2>5 DEF RoundsWon, WonUpTo
    <3> QED
      BY <2>1, <2>2, <2>5, <3>1
  <2> QED
    BY <2>4, <2>5
<1>13. \A s \in Sides : h.wins[s] = 2 => RoundOf(g) = s
  BY <1>0, <1>12
<1>14. \E s \in Sides : h.wins[s] < 2
  BY <1>0, <1>12 DEF Sides
<1> QED
  BY <1>6, <1>8, <1>10, <1>11, <1>12, <1>13, <1>14

\* resolveRound leaves a well-formed room: over with a verdict, or in the next
\* round with no moves.
LEMMA ResolveRoundOK ==
    ASSUME NEW g, BothMoved(g)
    PROVE  LET h == ResolveRound(g) IN
           /\ RoomOK(h)
           /\ h.rounds = Append(g.rounds, LastRound(h))
           /\ LastRound(h) \in Round
           /\ LastRound(h).roundNumber = Len(h.rounds)
           /\ LastRound(h).move = g.move
           /\ h.player = g.player
           /\ h.hash = g.hash
           /\ h.wins = Score(g)
           /\ h.status = "in_progress" => h.move = NoMoves
<1> DEFINE p == PushRound(g)
           h == ResolveRound(g)
           a == p.wins["player1"]
           b == p.wins["player2"]
           over == MatchResult(a, b)
<1>1. /\ p \in RoomType
      /\ p.rounds = Append(g.rounds, LastRound(p))
      /\ LastRound(p).roundNumber = g.currentRound
      /\ LastRound(p).move = g.move
      /\ LastRound(p).winner = UserOf(g, RoundOf(g))
      /\ \A i \in DOMAIN p.rounds :
           /\ p.rounds[i].roundNumber = i
           /\ p.rounds[i].winner = UserOf(g, ResultOf(p.rounds[i]))
      /\ \A s \in Sides : p.wins[s] = Cardinality(RoundsWon(p, s))
      /\ \E s \in Sides : p.wins[s] < 2
      /\ \A s \in Sides : p.wins[s] = 2 => RoundOf(g) = s
  BY PushRoundOK
<1>2. /\ p.player = g.player /\ p.status = "in_progress" /\ p.move = g.move
      /\ p.currentRound = g.currentRound /\ p.winner = NoUser /\ p.hash = g.hash
      /\ p.wins = Score(g)
  BY DEF PushRound, BothMoved, RoomType, VerdictOK
<1>3. /\ g.rounds \in Seq(Round) /\ g.currentRound = Len(g.rounds) + 1
      /\ Len(p.rounds) = Len(g.rounds) + 1 /\ Len(g.rounds) \in Nat
      /\ LastRound(p) \in Round
  <2>1. g.rounds \in Seq(Round) /\ g.currentRound = Len(g.rounds) + 1 /\ Len(g.rounds) \in Nat
    BY DEF BothMoved, RoomType, ScoreOK
  <2>2. p.rounds \in Seq(Round) /\ Len(p.rounds) = Len(g.rounds) + 1
    BY <1>1, <2>1 DEF RoomType
  <2> QED
    BY <2>1, <2>2 DEF LastRound
<1>4. a \in 0..2 /\ b \in 0..2 /\ (a < 2 \/ b < 2)
  BY <1>1 DEF RoomType, Sides
<1>5. /\ over.isComplete <=> a = 2 \/ b = 2
      /\ a = 2 => over.winner = "player1"
      /\ b = 2 => over.winner = "player2"
  BY <1>4, MatchResultAtTwo
<1>6. CASE over.isComplete
  <2>1. h = EndMatch(p, over.winner)
    BY <1>6 DEF ResolveRound
  <2>2. PICK s \in Sides : over.winner = s /\ p.wins[s] = 2 /\ p.wins[Opponent(s)] < 2
    BY <1>4, <1>5, <1>6, OpponentOf DEF Sides
  <2>3. /\ h = [p EXCEPT !.status = "completed", !.winner = g.player[s]]
    BY <1>2, <2>1, <2>2 DEF EndMatch, UserOf
  <2>4. /\ h.rounds = p.rounds /\ h.wins = p.wins /\ h.player = g.player
        /\ h.status = "completed" /\ h.winner = g.player[s] /\ h.hash = g.hash
        /\ h.currentRound = g.currentRound
    BY <1>1, <1>2, <2>3 DEF RoomType
  <2>5. g.player \in Players /\ g.player[s] \in Users /\ ~OneUser(g.player)
    BY DEF BothMoved, Players
  <2>6. h \in RoomType
    BY <1>1, <2>3, <2>5 DEF RoomType
  <2>7. \A t \in Sides : RoundsWon(h, t) = RoundsWon(p, t)
    BY <1>2, <2>4 DEF RoundsWon, WonUpTo
  <2>8. ScoreOK(h)
    BY <1>1, <1>3, <2>4, <2>7 DEF ScoreOK, UserOf
  <2>9. LastRound(h) = LastRound(p)
    BY <2>4 DEF LastRound
  <2>10. LastRound(h).winner = g.player[s]
    BY <1>1, <2>2, <2>9 DEF UserOf
  <2>11. VerdictOK(h)
    BY <2>2, <2>4, <2>10 DEF VerdictOK
  <2> QED
    BY <1>1, <1>2, <1>3, <2>4, <2>5, <2>6, <2>8, <2>9, <2>11 DEF RoomOK
<1>7. CASE ~over.isComplete
  <2>1. h = [p EXCEPT !.currentRound = g.currentRound + 1, !.move = NoMoves]
    BY <1>2, <1>7 DEF ResolveRound, NextRound
  <2>2. /\ h.rounds = p.rounds /\ h.wins = p.wins /\ h.player = g.player
        /\ h.status = "in_progress" /\ h.winner = NoUser /\ h.hash = g.hash
        /\ h.currentRound = g.currentRound + 1 /\ h.move = NoMoves
    BY <1>1, <1>2, <2>1 DEF RoomType
  <2>3. NoMoves \in [Sides -> Cell] /\ g.currentRound + 1 \in Nat
    BY <1>3 DEF NoMoves, Cell
  <2>4. h \in RoomType
    BY <1>1, <2>1, <2>3 DEF RoomType
  <2>5. \A t \in Sides : RoundsWon(h, t) = RoundsWon(p, t)
    BY <1>2, <2>2 DEF RoundsWon, WonUpTo
  <2>6. ScoreOK(h)
    BY <1>1, <1>3, <2>2, <2>5 DEF ScoreOK, UserOf
  <2>7. \A s \in Sides : h.wins[s] < 2
    BY <1>4, <1>5, <1>7, <2>2 DEF Sides
  <2>8. VerdictOK(h)
    BY <2>2, <2>7 DEF VerdictOK
  <2>10. LastRound(h) = LastRound(p)
    BY <2>2 DEF LastRound
  <2> QED
    BY <1>1, <1>2, <1>3, <2>2, <2>4, <2>6, <2>8, <2>10 DEF RoomOK, BothMoved
<1> QED
  BY <1>6, <1>7

\* Some player has yet to move.
OpenCell(g) == \E s \in Sides : g.move[s] = NoMove

\* At most one side scores, and one win only.
OneWin(g, h) == h.wins = g.wins \/ \E s \in Sides : h.wins = [g.wins EXCEPT ![s] = @ + 1]

\* A move that submitMove accepts either waits in its cell or completes the
\* round, which joins the history.
LEMMA SubmitOK ==
    ASSUME NEW g, NEW u \in Users, NEW m \in Moves, RoomOK(g), MayMove(g, u, m)
    PROVE  LET h == Submit(g, u, m) IN
           /\ RoomOK(h)
           /\ h.player = g.player
           /\ h.hash = g.hash
           /\ OneWin(g, h)
           /\ h.status = "in_progress" => OpenCell(h)
           /\ \/ /\ h.status = "in_progress"
                 /\ h = [g EXCEPT !.move[SideOf(g, u)] = m]
              \/ /\ h.rounds = Append(g.rounds, LastRound(h))
                 /\ LastRound(h) \in Round
                 /\ LastRound(h).roundNumber = Len(h.rounds)
                 /\ \A s \in Sides : g.move[s] # NoMove => LastRound(h).move[s] = g.move[s]
<1> DEFINE h == Submit(g, u, m)
           side == SideOf(g, u)
           moved == [g EXCEPT !.move[side] = m]
<1>1. /\ g \in RoomType /\ g.player \in Players /\ g.status = "in_progress"
      /\ ScoreOK(g) /\ VerdictOK(g) /\ side \in Sides /\ g.move[side] = NoMove
  BY DEF RoomOK, MayMove, SideOf, Sides
<1>2. moved.move = [g.move EXCEPT ![side] = m] /\ moved.move \in [Sides -> Cell]
  BY <1>1 DEF RoomType, Cell
<1>3. moved \in RoomType
  BY <1>1, <1>2 DEF RoomType
<1>4. /\ moved.rounds = g.rounds /\ moved.wins = g.wins /\ moved.player = g.player
      /\ moved.status = g.status /\ moved.winner = g.winner /\ moved.hash = g.hash
      /\ moved.currentRound = g.currentRound
  BY <1>1 DEF RoomType
<1>5. ScoreOK(moved)
  BY <1>1, <1>4 DEF ScoreOK, RoundsWon, WonUpTo, UserOf
<1>6. VerdictOK(moved)
  BY <1>1, <1>4 DEF VerdictOK, LastRound
<1>9. OneUser(g.player) => g.rounds = <<>> /\ moved.move["player2"] = NoMove
  <2>1. OneUser(g.player) => side = "player1"
    BY DEF OneUser, MayMove, Seated, SideOf, Sides
  <2>2. OneUser(g.player) => g.rounds = <<>> /\ g.move["player2"] = NoMove
    BY DEF RoomOK
  <2> QED
    BY <1>1, <1>2, <2>1, <2>2 DEF RoomType, Sides
<1>7. CASE \E s \in Sides : moved.move[s] = NoMove
  <2>1. h = moved
    BY <1>7 DEF Submit
  <2> QED
    BY <1>1, <1>3, <1>4, <1>5, <1>6, <1>7, <1>9, <2>1 DEF RoomOK, OneWin, OpenCell
<1>8. CASE ~ \E s \in Sides : moved.move[s] = NoMove
  <2>1. h = ResolveRound(moved)
    BY <1>8 DEF Submit
  <2>2. moved.move \in [Sides -> Moves]
    BY <1>2, <1>8 DEF Cell
  <2>3. BothMoved(moved)
    BY <1>1, <1>3, <1>4, <1>5, <1>6, <1>8, <1>9, <2>2 DEF BothMoved, Sides
  <2>4. /\ RoomOK(h)
        /\ h.rounds = Append(moved.rounds, LastRound(h))
        /\ LastRound(h) \in Round
        /\ LastRound(h).roundNumber = Len(h.rounds)
        /\ LastRound(h).move = moved.move
        /\ h.player = moved.player
        /\ h.hash = moved.hash
        /\ h.wins = Score(moved)
        /\ h.status = "in_progress" => h.move = NoMoves
    BY <2>1, <2>3, ResolveRoundOK
  <2>5. \A s \in Sides : g.move[s] # NoMove => moved.move[s] = g.move[s]
    BY <1>1, <1>2 DEF RoomType
  <2>6. OneWin(g, h)
    BY <1>4, <2>4 DEF Score, OneWin
  <2>7. h.status = "in_progress" => OpenCell(h)
    BY <2>4 DEF NoMoves, Sides, OpenCell
  <2> QED
    BY <1>4, <2>4, <2>5, <2>6, <2>7
<1> QED
  BY <1>7, <1>8

----------------------------------------------------------------------------
(* The inductive invariant.  TypeOK and the safety properties of GameRoom  *)
(* are not inductive alone: the score stays below three because a room     *)
(* with a winner takes no move, a stored round is one of the history       *)
(* because the history only grows, and the stored winner is the room's     *)
(* because finalizeMatch runs once.                                        *)

\* One room, its row, its pending writes and its broadcasts.
RoomInv(r) ==
    /\ Present(r) =>
         /\ RoomOK(rooms[r])
         /\ match[r].status # "none" /\ r \notin opening
         /\ rooms[r].player = match[r].player
         /\ \A w \in matchMove[r] \cup writes[r] :
               /\ w.roundNumber \in 1..Len(rooms[r].rounds)
               /\ w = rooms[r].rounds[w.roundNumber]
    /\ ~Present(r) => writes[r] = {} /\ fin[r] = "idle"
    /\ r \in opening =>
         /\ match[r].status = "IN_PROGRESS" /\ match[r].player \in Players
         /\ matchMove[r] = {} /\ sent[r] = <<>>
    /\ match[r].status = "none" => matchMove[r] = {} /\ sent[r] = <<>> /\ r \notin opening
    /\ rooms[r].status = "in_progress" => fin[r] = "idle" /\ match[r].status = "IN_PROGRESS"
    /\ rooms[r].status = "completed" =>
         /\ fin[r] # "idle"
         /\ fin[r] = "status" => match[r].status = "IN_PROGRESS"
         /\ match[r].status = "COMPLETED" => match[r].winner = rooms[r].winner
    /\ fin[r] \in {"hash", "stored"} => match[r].status = "COMPLETED"

\* The rows of a completed match agree with it (StoredRoundsBackVerdict).
StoredOK(r) ==
    match[r].status = "COMPLETED" =>
        /\ match[r].winner \in {match[r].player[s] : s \in Sides}
        /\ \A u \in Users \ {match[r].winner} : Cardinality(StoredWins(r, u)) <= 1

IInv ==
    /\ TypeOK
    /\ \A r \in Rooms : RoomInv(r) /\ StoredOK(r)

LEMMA AbsentRoomType == AbsentRoom \in RoomType /\ AbsentRoom.status = "absent"
<1>1. /\ [s \in Sides |-> NoUser] \in [Sides -> Users \cup {NoUser}]
      /\ NoMoves \in [Sides -> Cell]
      /\ [s \in Sides |-> 0] \in [Sides -> 0..2] /\ <<>> \in Seq(Round)
  BY DEF NoMoves, Cell
<1> QED
  BY <1>1 DEF AbsentRoom, NewRoom, RoomType

LEMMA InitInv == Init => IInv
<1> SUFFICES ASSUME Init PROVE IInv
  OBVIOUS
<1>1. AbsentRoom \in RoomType /\ AbsentRoom.status = "absent"
  BY AbsentRoomType
<1>2. NoRow \in RowType /\ NoRow.status = "none"
  BY DEF NoRow, RowType
<1>3. TypeOK
  BY <1>1, <1>2 DEF Init, TypeOK
<1>4. \A r \in Rooms : RoomInv(r) /\ StoredOK(r)
  BY <1>1, <1>2 DEF Init, RoomInv, StoredOK, Present
<1> QED
  BY <1>3, <1>4 DEF IInv

\* The rounds of the history that a player won are at most his wins.
LEMMA StoredWinsBound ==
    ASSUME NEW r \in Rooms, TypeOK, RoomInv(r), rooms[r].status = "completed"
    PROVE  /\ rooms[r].winner \in {rooms[r].player[s] : s \in Sides}
           /\ \A u \in Users \ {rooms[r].winner} : \A W \in SUBSET (matchMove[r] \cup writes[r]) :
                 (\A w \in W : w.winner = u) => Cardinality(W) <= 1
<1> DEFINE g == rooms[r]
<1>1. /\ RoomOK(g) /\ g \in RoomType /\ g.player \in Players /\ VerdictOK(g) /\ ScoreOK(g)
  BY DEF RoomInv, Present, RoomOK
<1>2. PICK s \in Sides : /\ g.wins[s] = 2 /\ g.wins[Opponent(s)] < 2 /\ g.winner = g.player[s]
  BY <1>1 DEF VerdictOK
<1>3. SUFFICES ASSUME NEW u \in Users \ {g.winner}, NEW W \in SUBSET (matchMove[r] \cup writes[r]),
                      \A w \in W : w.winner = u
               PROVE  Cardinality(W) <= 1
  BY <1>2
<1> DEFINE t == Opponent(s)
<1>4. \A w \in W : w.roundNumber \in 1..Len(g.rounds) /\ w = g.rounds[w.roundNumber]
  BY DEF RoomInv, Present
<1>5. t \in Sides /\ \A x \in Sides : x = s \/ x = t
  BY OpponentOf DEF Sides
<1>6. \A w \in W : w.roundNumber \in RoundsWon(g, t)
  <2>1. SUFFICES ASSUME NEW w \in W PROVE w.roundNumber \in RoundsWon(g, t)
    OBVIOUS
  <2>2. w.roundNumber \in DOMAIN g.rounds /\ g.rounds[w.roundNumber].winner = u
    BY <1>1, <1>3, <1>4 DEF RoomType
  <2>3. /\ u = UserOf(g, ResultOf(g.rounds[w.roundNumber])) /\ u # NoUser
        /\ u # g.player[s]
    BY <1>1, <1>2, <2>2, GameRoomAssumption DEF ScoreOK
  <2>4. ResultOf(g.rounds[w.roundNumber]) = t
    BY <1>5, <2>3 DEF UserOf
  <2> QED
    BY <1>4, <2>4 DEF RoundsWon, WonUpTo
<1>7. IsFiniteSet(RoundsWon(g, t)) /\ Cardinality(RoundsWon(g, t)) <= 1
  BY <1>1, <1>2, <1>5, RoundsWonFinite DEF ScoreOK, RoomType
<1>8. \A v, w \in W : v = w
  <2>1. SUFFICES ASSUME NEW v \in W, NEW w \in W, v # w PROVE FALSE
    OBVIOUS
  <2>2. v.roundNumber # w.roundNumber
    BY <1>4, <2>1
  <2>3. {v.roundNumber, w.roundNumber} \subseteq RoundsWon(g, t)
    BY <1>6
  <2>4. Cardinality({v.roundNumber, w.roundNumber}) = 2
    <3>1. Cardinality({v.roundNumber}) = 1 /\ IsFiniteSet({v.roundNumber})
      BY FS_Singleton
    <3>2. {v.roundNumber, w.roundNumber} = {v.roundNumber} \cup {w.roundNumber}
      OBVIOUS
    <3>3. w.roundNumber \notin {v.roundNumber}
      BY <2>2
    <3>4. Cardinality({v.roundNumber} \cup {w.roundNumber}) = Cardinality({v.roundNumber}) + 1
      BY <3>1, <3>3, FS_AddElement
    <3> QED
      BY <3>1, <3>2, <3>4
  <2>5. Cardinality({v.roundNumber, w.roundNumber}) <= Cardinality(RoundsWon(g, t))
    BY <1>7, <2>3, FS_Subset
  <2>6. Cardinality(RoundsWon(g, t)) \in Nat
    BY <1>7, FS_CardinalityType
  <2> QED
    BY <1>7, <2>4, <2>5, <2>6
<1>9. CASE W = {}
  BY <1>9, FS_EmptySet
<1>10. CASE W # {}
  <2>1. PICK w \in W : W = {w}
    BY <1>8, <1>10
  <2> QED
    BY <2>1, FS_Singleton
<1> QED
  BY <1>9, <1>10

----------------------------------------------------------------------------
(* Steps.  Every action but Crash touches one room; the others keep their  *)
(* invariant because nothing they are about changes.                       *)

\* Nothing that RoomInv(q) and StoredOK(q) are about changes.
Untouched(q) ==
    /\ rooms'[q] = rooms[q] /\ writes'[q] = writes[q] /\ fin'[q] = fin[q]
    /\ match'[q] = match[q] /\ matchMove'[q] = matchMove[q] /\ sent'[q] = sent[q]
    /\ (q \in opening' <=> q \in opening)

LEMMA UntouchedInv ==
    ASSUME NEW q \in Rooms, RoomInv(q), StoredOK(q), Untouched(q)
    PROVE  RoomInv(q)' /\ StoredOK(q)'
BY DEF RoomInv, StoredOK, Untouched, Present, StoredWins

\* The rows of a completed room whose row is or becomes COMPLETED agree with it.
LEMMA StoredAfter ==
    ASSUME NEW r \in Rooms, TypeOK, RoomInv(r), rooms[r].status = "completed",
           match'[r].winner = rooms[r].winner, match'[r].player = match[r].player,
           matchMove'[r] \subseteq matchMove[r] \cup writes[r]
    PROVE  StoredOK(r)'
<1>1. /\ rooms[r].winner \in {rooms[r].player[s] : s \in Sides}
      /\ \A u \in Users \ {rooms[r].winner} : \A W \in SUBSET (matchMove[r] \cup writes[r]) :
            (\A w \in W : w.winner = u) => Cardinality(W) <= 1
  BY StoredWinsBound
<1>2. rooms[r].player = match[r].player
  BY DEF RoomInv, Present
<1>3. \A u \in Users : /\ StoredWins(r, u)' \in SUBSET (matchMove[r] \cup writes[r])
                       /\ \A w \in StoredWins(r, u)' : w.winner = u
  BY DEF StoredWins
<1> QED
  BY <1>1, <1>2, <1>3 DEF StoredOK

LEMMA InsertMatchInv ==
    ASSUME IInv, NEW r \in Rooms, NEW p \in Players, InsertMatch(r, p)
    PROVE  IInv'
<1> USE DEF IInv
<1>1. [NoRow EXCEPT !.status = "IN_PROGRESS", !.player = p] \in RowType
  BY DEF NoRow, RowType, Players
<1>2. TypeOK'
  BY <1>1 DEF InsertMatch, TypeOK
<1>3. /\ match'[r].status = "IN_PROGRESS" /\ match'[r].player = p
  BY DEF InsertMatch, TypeOK, NoRow
<1>4. ~Present(r) /\ rooms[r].status = "absent"
  BY DEF RoomInv, InsertMatch, Present
<1>5. RoomInv(r)' /\ StoredOK(r)'
  BY <1>3, <1>4 DEF InsertMatch, RoomInv, StoredOK, Present
<1>6. ASSUME NEW q \in Rooms, q # r PROVE RoomInv(q)' /\ StoredOK(q)'
  <2>1. Untouched(q)
    BY <1>6 DEF InsertMatch, TypeOK, Untouched
  <2> QED
    BY <2>1, UntouchedInv
<1> QED
  BY <1>2, <1>5, <1>6

LEMMA OpenRoomInv ==
    ASSUME IInv, NEW r \in Rooms, NEW m \in Carried(match[r].player), OpenRoom(r, m)
    PROVE  IInv'
<1> USE DEF IInv
<1>1. /\ match[r].status = "IN_PROGRESS" /\ match[r].player \in Players
      /\ matchMove[r] = {} /\ writes[r] = {} /\ fin[r] = "idle"
  BY DEF RoomInv, OpenRoom, Present
<1>2. /\ RoomOK(NewRoom(match[r].player, m)) /\ NewRoom(match[r].player, m).status = "in_progress"
      /\ NewRoom(match[r].player, m).player = match[r].player
  BY <1>1, NewRoomOK DEF NewRoom
<1>3. rooms'[r] = NewRoom(match[r].player, m) /\ NewRoom(match[r].player, m) \in RoomType
  BY <1>2 DEF OpenRoom, TypeOK, RoomOK
<1>4. TypeOK'
  BY <1>3 DEF OpenRoom, TypeOK
<1>5. RoomInv(r)' /\ StoredOK(r)'
  BY <1>1, <1>2, <1>3 DEF OpenRoom, RoomInv, StoredOK, Present
<1>6. ASSUME NEW q \in Rooms, q # r PROVE RoomInv(q)' /\ StoredOK(q)'
  <2>1. Untouched(q)
    BY <1>6 DEF OpenRoom, TypeOK, Untouched
  <2> QED
    BY <2>1, UntouchedInv
<1> QED
  BY <1>4, <1>5, <1>6

LEMMA CreateFailsInv ==
    ASSUME IInv, NEW r \in Rooms, CreateFails(r)
    PROVE  IInv'
<1> USE DEF IInv
<1>1. TypeOK'
  BY DEF CreateFails, TypeOK
<1>2. RoomInv(r)' /\ StoredOK(r)'
  BY DEF CreateFails, RoomInv, StoredOK, Present, StoredWins
<1>3. ASSUME NEW q \in Rooms, q # r PROVE RoomInv(q)' /\ StoredOK(q)'
  <2>1. Untouched(q)
    BY <1>3 DEF CreateFails, Untouched
  <2> QED
    BY <2>1, UntouchedInv
<1> QED
  BY <1>1, <1>2, <1>3

\* A completed room has a last round.
LEMMA CompletedHasRounds ==
    ASSUME NEW g, RoomOK(g), g.status = "completed"
    PROVE  g.rounds # <<>> /\ LastRound(g) \in Round
<1>1. PICK s \in Sides : Cardinality(RoundsWon(g, s)) = 2
  BY DEF RoomOK, VerdictOK, ScoreOK
<1>2. RoundsWon(g, s) # {}
  BY <1>1, FS_EmptySet
<1>3. g.rounds \in Seq(Round) /\ DOMAIN g.rounds # {}
  BY <1>2 DEF RoundsWon, WonUpTo, RoomOK, RoomType
<1> QED
  BY <1>3 DEF LastRound

\* While a match is on only its first round can be unresolved for handleMove.
LEMMA ResolvedWhen ==
    ASSUME NEW g, RoomOK(g)
    PROVE  RoundResolved(g) <=> g.rounds # <<>>
<1>1. /\ g.rounds \in Seq(Round) /\ ScoreOK(g) /\ g.status \in {"in_progress", "completed"}
      /\ Len(g.rounds) \in Nat
  BY DEF RoomOK, RoomType
<1>2. CASE g.status = "completed"
  BY <1>2, CompletedHasRounds DEF RoundResolved
<1>3. CASE g.status = "in_progress" /\ g.rounds # <<>>
  <2>1. Len(g.rounds) \in DOMAIN g.rounds
    BY <1>1, <1>3
  <2>2. LastRound(g).roundNumber = Len(g.rounds) /\ g.currentRound = Len(g.rounds) + 1
    BY <1>1, <1>3, <2>1 DEF ScoreOK, LastRound
  <2> QED
    BY <1>1, <1>3, <2>2 DEF RoundResolved
<1>4. CASE g.status = "in_progress" /\ g.rounds = <<>>
  BY <1>4 DEF RoundResolved
<1> QED
  BY <1>1, <1>2, <1>3, <1>4

\* What handleMove sends of a room is two messages of three kinds.
LEMMA AnnounceIs ==
    ASSUME NEW g, RoomOK(g)
    PROVE  \/ g.rounds = <<>> /\ Announce(g) = <<MoveReceived(g), OpponentMoved>>
           \/ /\ g.rounds # <<>> /\ g.status = "completed"
              /\ Announce(g) = <<RoundResultOf(g), MatchResultOf(g)>>
           \/ /\ g.rounds # <<>> /\ g.status = "in_progress"
              /\ Announce(g) = <<RoundResultOf(g), NextRoundOf(g)>>
BY ResolvedWhen DEF Announce, RoomOK

LEMMA AnnounceParts ==
    ASSUME NEW g, RoomOK(g)
    PROVE  /\ MoveReceived(g) \in EventType /\ OpponentMoved \in EventType
           /\ NextRoundOf(g) \in EventType /\ MatchResultOf(g) \in EventType
           /\ g.rounds # <<>> => RoundResultOf(g) \in EventType
<1>1. g \in RoomType
  BY DEF RoomOK
<1>2. MoveReceived(g) \in EventType
  BY <1>1 DEF MoveReceived, EventType, RoomType
<1>3. OpponentMoved \in EventType
  BY DEF OpponentMoved, EventType
<1>4. NextRoundOf(g) \in EventType
  BY <1>1 DEF NextRoundOf, EventType, RoomType
<1>5. MatchResultOf(g) \in EventType
  BY <1>1 DEF MatchResultOf, EventType, RoomType
<1>6. ASSUME g.rounds # <<>> PROVE RoundResultOf(g) \in EventType
  <2>1. LastRound(g) \in Round
    BY <1>1, <1>6 DEF RoomType, LastRound
  <2>2. /\ LastRound(g).roundNumber \in Nat /\ LastRound(g).move \in [Sides -> Moves]
        /\ LastRound(g).winner \in Users \cup {NoUser} /\ g.wins \in [Sides -> 0..2]
    BY <1>1, <2>1 DEF Round, RoomType
  <2> QED
    BY <2>2 DEF RoundResultOf, EventType
<1> QED
  BY <1>2, <1>3, <1>4, <1>5, <1>6

LEMMA AnnouncePair ==
    ASSUME NEW g, RoomOK(g)
    PROVE  \E a \in EventType, b \in EventType : Announce(g) = <<a, b>>
BY AnnounceIs, AnnounceParts

LEMMA AnnounceType ==
    ASSUME NEW g, RoomOK(g)
    PROVE  Announce(g) \in Seq(EventType)
<1>1. PICK a \in EventType, b \in EventType : Announce(g) = <<a, b>>
  BY AnnouncePair
<1> QED
  BY <1>1

LEMMA HandleMoveInv ==
    ASSUME IInv, NEW r \in Rooms, NEW u \in Users, NEW m \in Moves, HandleMove(r, u, m)
    PROVE  IInv'
<1> USE DEF IInv
<1> DEFINE g == rooms[r]
           h == Submit(g, u, m)
<1>1. /\ RoomOK(g) /\ MayMove(g, u, m) /\ g.status = "in_progress" /\ g \in RoomType
      /\ fin[r] = "idle" /\ match[r].status = "IN_PROGRESS" /\ r \notin opening
      /\ g.player = match[r].player
  BY DEF HandleMove, MayMove, RoomInv, Present, RoomOK
<1>2. /\ RoomOK(h)
      /\ h.player = g.player
      /\ \/ h.status = "in_progress" /\ h = [g EXCEPT !.move[SideOf(g, u)] = m]
         \/ /\ h.rounds = Append(g.rounds, LastRound(h))
            /\ LastRound(h) \in Round
            /\ LastRound(h).roundNumber = Len(h.rounds)
  BY <1>1, SubmitOK
<1>3. h \in RoomType /\ h.status \in {"in_progress", "completed"}
  BY <1>2 DEF RoomOK
<1>4. /\ rooms' = [rooms EXCEPT ![r] = h]
      /\ writes' = IF Len(h.rounds) = Len(g.rounds) THEN writes
                   ELSE [writes EXCEPT ![r] = @ \cup {LastRound(h)}]
      /\ fin' = [fin EXCEPT ![r] = FinAfter(@, h)]
      /\ sent' = [sent EXCEPT ![r] = @ \o Announce(h)]
      /\ UNCHANGED <<opening, match, matchMove>>
  BY DEF HandleMove
<1> HIDE DEF h
<1>5. Announce(h) \in Seq(EventType)
  BY <1>2, AnnounceType
<1>6. /\ \/ h.rounds = g.rounds /\ h.status = "in_progress" /\ writes' = writes
         \/ /\ h.rounds = Append(g.rounds, LastRound(h))
            /\ LastRound(h) \in Round
            /\ LastRound(h).roundNumber = Len(h.rounds)
            /\ writes' = [writes EXCEPT ![r] = @ \cup {LastRound(h)}]
  <2>1. CASE h.status = "in_progress" /\ h = [g EXCEPT !.move[SideOf(g, u)] = m]
    BY <1>1, <1>4, <2>1 DEF RoomType
  <2>2. CASE /\ h.rounds = Append(g.rounds, LastRound(h))
             /\ LastRound(h) \in Round
             /\ LastRound(h).roundNumber = Len(h.rounds)
    <3>1. g.rounds \in Seq(Round) /\ Len(h.rounds) # Len(g.rounds)
      BY <1>1, <2>2 DEF RoomType
    <3> QED
      BY <1>4, <2>2, <3>1
  <2> QED
    BY <1>2, <2>1, <2>2
<1>7. TypeOK'
  <2>1. writes' \in [Rooms -> SUBSET Round]
    <3>1. writes \in [Rooms -> SUBSET Round]
      BY DEF TypeOK
    <3>2. CASE writes' = writes
      BY <3>1, <3>2
    <3>3. CASE LastRound(h) \in Round /\ writes' = [writes EXCEPT ![r] = @ \cup {LastRound(h)}]
      BY <3>1, <3>3
    <3> QED
      BY <1>6, <3>2, <3>3
  <2>2. fin' \in [Rooms -> {"idle", "status", "hash", "stored", "failed"}]
    BY <1>4 DEF TypeOK, FinAfter
  <2>3. sent' \in [Rooms -> Seq(EventType)]
    <3>1. sent[r] \o Announce(h) \in Seq(EventType)
      BY <1>5 DEF TypeOK
    <3> QED
      BY <1>4, <3>1 DEF TypeOK
  <2>4. rooms' \in [Rooms -> RoomType]
    BY <1>3, <1>4 DEF TypeOK
  <2> QED
    BY <1>4, <2>1, <2>2, <2>3, <2>4 DEF TypeOK
<1>8. /\ rooms'[r] = h /\ match'[r] = match[r] /\ matchMove'[r] = matchMove[r]
      /\ fin'[r] = FinAfter("idle", h) /\ r \notin opening'
  BY <1>1, <1>4 DEF TypeOK
<1>9. \A w \in matchMove'[r] \cup writes'[r] :
        w.roundNumber \in 1..Len(h.rounds) /\ w = h.rounds[w.roundNumber]
  <2>1. g.rounds \in Seq(Round)
    BY <1>1 DEF RoomType
  <2>2. \A w \in matchMove[r] \cup writes[r] :
          w.roundNumber \in 1..Len(g.rounds) /\ w = g.rounds[w.roundNumber]
    BY <1>1 DEF RoomInv, Present
  <2>3. CASE h.rounds = g.rounds /\ writes' = writes
    BY <1>8, <2>2, <2>3
  <2>4. CASE /\ h.rounds = Append(g.rounds, LastRound(h))
             /\ LastRound(h) \in Round
             /\ LastRound(h).roundNumber = Len(h.rounds)
             /\ writes' = [writes EXCEPT ![r] = @ \cup {LastRound(h)}]
    <3>1. writes'[r] = writes[r] \cup {LastRound(h)}
      BY <2>4 DEF TypeOK
    <3>2. /\ Len(h.rounds) = Len(g.rounds) + 1 /\ Len(g.rounds) \in Nat
          /\ \A i \in 1..Len(g.rounds) : h.rounds[i] = g.rounds[i]
          /\ h.rounds[Len(h.rounds)] = LastRound(h)
      BY <2>1, <2>4
    <3> QED
      BY <1>8, <2>2, <2>4, <3>1, <3>2
  <2> QED
    BY <1>6, <2>3, <2>4
<1>10. RoomInv(r)' /\ StoredOK(r)'
  BY <1>1, <1>2, <1>3, <1>8, <1>9 DEF RoomInv, StoredOK, Present, FinAfter
<1>11. ASSUME NEW q \in Rooms, q # r PROVE RoomInv(q)' /\ StoredOK(q)'
  <2>1. Untouched(q)
    BY <1>4, <1>6, <1>11 DEF TypeOK, Untouched
  <2> QED
    BY <2>1, UntouchedInv
<1> QED
  BY <1>7, <1>10, <1>11

LEMMA PersistInv ==
    ASSUME IInv, NEW r \in Rooms, Persist(r)
    PROVE  IInv'
<1> USE DEF IInv
<1>1. PICK w \in writes[r] : StoreRound(r, w) \/ LoseRound(r, w)
  BY DEF Persist
<1>2. /\ Present(r) /\ w \in Round
      /\ writes'[r] = writes[r] \ {w} /\ matchMove'[r] \subseteq matchMove[r] \cup writes[r]
      /\ UNCHANGED <<rooms, opening, fin, match, sent>>
      /\ \A q \in Rooms : q # r => matchMove'[q] = matchMove[q] /\ writes'[q] = writes[q]
      /\ writes' \in [Rooms -> SUBSET Round] /\ matchMove' \in [Rooms -> SUBSET Round]
  <2>1. Present(r) /\ w \in Round
    BY DEF RoomInv, TypeOK
  <2>2. /\ writes \in [Rooms -> SUBSET Round] /\ matchMove \in [Rooms -> SUBSET Round]
        /\ writes' = [writes EXCEPT ![r] = @ \ {w}]
        /\ UNCHANGED <<rooms, opening, fin, match, sent>>
    BY <1>1 DEF StoreRound, LoseRound, TypeOK
  <2>3. /\ writes'[r] = writes[r] \ {w} /\ writes' \in [Rooms -> SUBSET Round]
        /\ \A q \in Rooms : q # r => writes'[q] = writes[q]
    BY <2>2
  <2>4. /\ matchMove'[r] \subseteq matchMove[r] \cup writes[r]
        /\ \A q \in Rooms : q # r => matchMove'[q] = matchMove[q]
        /\ matchMove' \in [Rooms -> SUBSET Round]
    <3>1. CASE matchMove' = [matchMove EXCEPT ![r] = @ \cup {w}]
      BY <2>1, <2>2, <3>1
    <3>2. CASE matchMove' = matchMove
      BY <2>2, <3>2
    <3> QED
      BY <1>1, <3>1, <3>2 DEF StoreRound, LoseRound
  <2> QED
    BY <2>1, <2>2, <2>3, <2>4
<1>3. TypeOK'
  BY <1>2 DEF TypeOK
<1>4. RoomInv(r)'
  BY <1>2 DEF RoomInv, Present
<1>5. StoredOK(r)'
  <2>1. CASE rooms[r].status = "completed" /\ match[r].status = "COMPLETED"
    <3>1. match'[r].winner = rooms[r].winner /\ match'[r].player = match[r].player
      BY <1>2, <2>1 DEF RoomInv
    <3> QED
      BY <1>2, <2>1, <3>1, StoredAfter
  <2>2. CASE match[r].status # "COMPLETED"
    BY <1>2, <2>2 DEF StoredOK
  <2>3. match[r].status = "COMPLETED" => rooms[r].status = "completed"
    BY <1>2 DEF RoomInv, Present, RoomOK
  <2> QED
    BY <2>1, <2>2, <2>3
<1>6. ASSUME NEW q \in Rooms, q # r PROVE RoomInv(q)' /\ StoredOK(q)'
  <2>1. Untouched(q)
    BY <1>2, <1>6 DEF Untouched
  <2> QED
    BY <2>1, UntouchedInv
<1> QED
  BY <1>3, <1>4, <1>5, <1>6

\* The hash column of a completed room is not part of its score.
LEMMA SameScoreOK ==
    ASSUME NEW g, NEW h, RoomOK(g), h \in RoomType, g.status = "completed",
           h.status = "completed", h.player = g.player, h.winner = g.winner,
           h.rounds = g.rounds, h.wins = g.wins, h.currentRound = g.currentRound,
           h.move = g.move
    PROVE  RoomOK(h)
<1>1. \A s \in Sides : RoundsWon(h, s) = RoundsWon(g, s)
  BY DEF RoundsWon, WonUpTo
<1>2. ScoreOK(h)
  <2>1. ScoreOK(g)
    BY DEF RoomOK
  <2>2. \A s \in Sides : h.wins[s] = Cardinality(RoundsWon(h, s))
    BY <1>1, <2>1 DEF ScoreOK
  <2> QED
    BY <2>1, <2>2 DEF ScoreOK, UserOf
<1>3. VerdictOK(h)
  BY DEF RoomOK, VerdictOK, LastRound
<1> QED
  BY <1>2, <1>3 DEF RoomOK

\* The result columns of one row change, and perhaps the hash of its room.
LEMMA FinalizeInv ==
    ASSUME IInv, NEW r \in Rooms, Finalize(r)
    PROVE  IInv'
<1> USE DEF IInv
<1> DEFINE g == rooms[r]
<1>1. /\ fin[r] \in {"status", "hash"} /\ RoomOK(g) /\ g \in RoomType
      /\ g.status = "completed" /\ g.player = match[r].player /\ r \notin opening
      /\ match[r] \in RowType
  <2>1. fin[r] \in {"status", "hash"}
    BY DEF Finalize, FinalizeStatus, FinalizeHash, FinalizeFails
  <2> QED
    BY <2>1 DEF RoomInv, Present, RoomOK, TypeOK
<1>2. CompletedRow(r) \in RowType
  BY <1>1 DEF CompletedRow, RowType, RoomType
<1>3. /\ rooms' \in [Rooms -> RoomType] /\ match' \in [Rooms -> RowType]
      /\ fin' \in [Rooms -> {"idle", "status", "hash", "stored", "failed"}]
      /\ fin'[r] \in {"hash", "stored", "failed"}
      /\ UNCHANGED <<opening, writes, matchMove, sent>>
      /\ \A q \in Rooms : q # r => /\ rooms'[q] = rooms[q] /\ match'[q] = match[q]
                                  /\ fin'[q] = fin[q]
      /\ rooms'[r] \in {g, [g EXCEPT !.hash = TRUE]}
      /\ match'[r].player = match[r].player
      /\ \/ /\ match'[r].status = match[r].status
            /\ match'[r].winner = match[r].winner
            /\ fin[r] = "hash" \/ fin'[r] = "failed"
         \/ /\ match'[r].status = "COMPLETED"
            /\ match'[r].winner = g.winner
  <2>1. /\ CompletedRow(r).status = "COMPLETED" /\ CompletedRow(r).winner = g.winner
        /\ CompletedRow(r).player = match[r].player
    BY <1>1 DEF CompletedRow, RowType
  <2>2. [g EXCEPT !.hash = TRUE] \in RoomType /\ [match[r] EXCEPT !.hash = TRUE] \in RowType
    BY <1>1 DEF RoomType, RowType
  <2>3. CASE FinalizeStatus(r)
    <3>1. /\ rooms' = [rooms EXCEPT ![r] = [g EXCEPT !.hash = TRUE]]
          /\ match' = [match EXCEPT ![r] = CompletedRow(r)]
          /\ fin' = [fin EXCEPT ![r] = "hash"]
          /\ UNCHANGED <<opening, writes, matchMove, sent>>
      BY <2>3 DEF FinalizeStatus, TypeOK
    <3> QED
      BY <1>2, <2>1, <2>2, <3>1 DEF TypeOK
  <2>4. ASSUME fin[r] = "hash", match' = [match EXCEPT ![r].hash = TRUE]
        PROVE  /\ match' \in [Rooms -> RowType]
               /\ \A q \in Rooms : q # r => match'[q] = match[q]
               /\ match'[r].player = match[r].player
               /\ match'[r].status = match[r].status
               /\ match'[r].winner = match[r].winner
    <3>1. match' = [match EXCEPT ![r] = [match[r] EXCEPT !.hash = TRUE]]
      BY <2>4 DEF TypeOK
    <3> QED
      BY <1>1, <2>2, <3>1 DEF TypeOK, RowType
  <2>5. CASE FinalizeHash(r)
    BY <2>4, <2>5 DEF FinalizeHash, TypeOK
  <2>6. ASSUME NEW committed \in BOOLEAN, FinalizeFails(r, committed)
        PROVE  /\ rooms' = rooms
               /\ fin' = [fin EXCEPT ![r] = "failed"]
               /\ UNCHANGED <<opening, writes, matchMove, sent>>
               /\ \/ match' = match
                  \/ match' = [match EXCEPT ![r] = CompletedRow(r)]
                  \/ fin[r] = "hash" /\ match' = [match EXCEPT ![r].hash = TRUE]
    BY <1>1, <2>6 DEF FinalizeFails
  <2>7. CASE \E committed \in BOOLEAN : FinalizeFails(r, committed)
    BY <1>1, <1>2, <2>1, <2>4, <2>6, <2>7 DEF TypeOK
  <2> QED
    BY <2>3, <2>5, <2>7 DEF Finalize
<1>4. TypeOK'
  BY <1>3 DEF TypeOK
<1>5. /\ match'[r].status = "COMPLETED" => match'[r].winner = g.winner
      /\ fin'[r] \in {"hash", "stored"} => match'[r].status = "COMPLETED"
      /\ match'[r].status # "none"
  BY <1>1, <1>3 DEF RoomInv, Present
<1>6. /\ rooms'[r].status = "completed" /\ rooms'[r].player = g.player
      /\ rooms'[r].winner = g.winner /\ rooms'[r].rounds = g.rounds
      /\ rooms'[r].wins = g.wins /\ rooms'[r].currentRound = g.currentRound
      /\ rooms'[r].move = g.move /\ rooms'[r] \in RoomType
  BY <1>1, <1>3 DEF RoomType, TypeOK
<1>7. RoomOK(rooms'[r])
  BY <1>1, <1>6, SameScoreOK
<1>8. RoomInv(r)'
  <2>1. /\ Present(r)' /\ rooms'[r].status = "completed" /\ fin'[r] # "idle" /\ fin'[r] # "status"
        /\ rooms'[r].player = match'[r].player /\ r \notin opening'
    BY <1>1, <1>3, <1>6 DEF Present
  <2>2. \A w \in matchMove'[r] \cup writes'[r] :
          /\ w.roundNumber \in 1..Len(rooms'[r].rounds)
          /\ w = rooms'[r].rounds[w.roundNumber]
    BY <1>1, <1>3, <1>6 DEF RoomInv, Present
  <2> QED
    BY <1>5, <1>6, <1>7, <2>1, <2>2 DEF RoomInv, Present
<1>9. StoredOK(r)'
  <2>1. CASE match'[r].status = "COMPLETED"
    BY <1>1, <1>3, <1>5, <2>1, StoredAfter
  <2> QED
    BY <2>1 DEF StoredOK
<1>10. ASSUME NEW q \in Rooms, q # r PROVE RoomInv(q)' /\ StoredOK(q)'
  <2>1. Untouched(q)
    BY <1>3, <1>10 DEF Untouched
  <2> QED
    BY <2>1, UntouchedInv
<1> QED
  BY <1>4, <1>8, <1>9, <1>10

LEMMA CrashInv ==
    ASSUME IInv, Crash
    PROVE  IInv'
<1> USE DEF IInv
<1>1. AbsentRoom \in RoomType /\ AbsentRoom.status = "absent"
  BY AbsentRoomType
<1>2. TypeOK'
  BY <1>1 DEF Crash, TypeOK
<1>3. \A r \in Rooms : RoomInv(r)' /\ StoredOK(r)'
  BY <1>1 DEF Crash, RoomInv, StoredOK, StoredWins, Present
<1> QED
  BY <1>2, <1>3

LEMMA StutterInv == ASSUME IInv, UNCHANGED vars PROVE IInv'
BY DEF IInv, TypeOK, RoomInv, StoredOK, StoredWins, Present, vars

LEMMA NextInv == IInv /\ [Next]_vars => IInv'
<1> SUFFICES ASSUME IInv, [Next]_vars PROVE IInv'
  OBVIOUS
<1>1. ASSUME NEW r \in Rooms, Create(r) PROVE IInv'
  BY <1>1, InsertMatchInv, OpenRoomInv, CreateFailsInv DEF Create
<1>2. ASSUME NEW r \in Rooms, Play(r) PROVE IInv'
  BY <1>2, HandleMoveInv DEF Play
<1>3. ASSUME NEW r \in Rooms, Persist(r) PROVE IInv'
  BY <1>3, PersistInv
<1>4. ASSUME NEW r \in Rooms, Finalize(r) PROVE IInv'
  BY <1>4, FinalizeInv
<1> QED
  BY <1>1, <1>2, <1>3, <1>4, CrashInv, StutterInv DEF Next

THEOREM InductiveInvariant == Spec => []IInv
BY InitInv, NextInv, PTL DEF Spec

----------------------------------------------------------------------------
(* The properties of the runs.                                             *)

\* Every variable has its type, and no player ever scores a third win.
THEOREM TypeCorrect == Spec => []TypeOK
BY InductiveInvariant, PTL DEF IInv

\* Counters, round number and history agree in every reachable state.
THEOREM ScoreCorrect == Spec => []ScoreMatchesRounds
<1>1. IInv => ScoreMatchesRounds
  BY DEF IInv, RoomInv, RoomOK, ScoreMatchesRounds
<1> QED
  BY <1>1, InductiveInvariant, PTL

\* A match ends exactly at the second win of one side, however many rounds are
\* drawn and whatever the interleaving, and names that side.
THEOREM VerdictCorrect == Spec => []VerdictMatchesScore
<1>1. IInv => VerdictMatchesScore
  BY DEF IInv, RoomInv, RoomOK, VerdictMatchesScore
<1> QED
  BY <1>1, InductiveInvariant, PTL

\* A room of two users takes a move exactly when a cell is empty.
LEMMA PlayableWhen ==
    ASSUME NEW g, RoomOK(g), g.status = "in_progress", ~OneUser(g.player)
    PROVE  Playable(g) <=> OpenCell(g)
<1>1. ASSUME NEW s \in Sides, g.move[s] = NoMove PROVE Playable(g)
  <2>1. g.player[s] \in Users /\ SideOf(g, g.player[s]) = s
    BY DEF RoomOK, Players, OneUser, SideOf, Sides
  <2>2. MayMove(g, g.player[s], "rock") /\ "rock" \in Moves
    BY <1>1, <2>1 DEF MayMove, Seated, Moves
  <2> QED
    BY <2>1, <2>2 DEF Playable
<1>2. ASSUME Playable(g) PROVE OpenCell(g)
  BY <1>2 DEF Playable, MayMove, SideOf, Sides, OpenCell
<1> QED
  BY <1>1, <1>2 DEF OpenCell

\* No move, failure or restart locks out both players of a room that one of
\* them could move in.
THEOREM NeverLocked == Spec => PlayLocksNoRoom
<1> DEFINE A == \A r \in Rooms :
        /\ Playable(rooms[r]) /\ ~OneUser(rooms[r].player)
        /\ rooms'[r].status = "in_progress"
        => Playable(rooms'[r])
<1>1. IInv /\ [Next]_vars => A
  <2> SUFFICES ASSUME IInv, [Next]_vars, NEW r \in Rooms, Playable(rooms[r]),
                      ~OneUser(rooms[r].player), rooms'[r].status = "in_progress"
               PROVE  Playable(rooms'[r])
    OBVIOUS
  <2> DEFINE g == rooms[r]
  <2>1. g.status = "in_progress"
    BY DEF Playable, MayMove
  <2>2. /\ RoomOK(g) /\ fin[r] = "idle" /\ r \notin opening
        /\ rooms \in [Rooms -> RoomType]
    BY <2>1 DEF IInv, RoomInv, Present, TypeOK
  <2>3. CASE rooms'[r] = rooms[r]
    BY <2>3
  <2>4. CASE Crash
    BY <2>4, AbsentRoomType DEF Crash
  <2>5. ASSUME NEW u \in Users, NEW m \in Moves, HandleMove(r, u, m)
        PROVE  Playable(rooms'[r])
    <3> DEFINE h == Submit(g, u, m)
    <3>1. MayMove(g, u, m) /\ rooms'[r] = h
      BY <2>2, <2>5 DEF HandleMove
    <3>2. /\ RoomOK(h) /\ h.player = g.player
          /\ h.status = "in_progress" => OpenCell(h)
      BY <2>2, <3>1, SubmitOK
    <3> HIDE DEF h
    <3>3. Playable(h)
      BY <3>1, <3>2, PlayableWhen
    <3> QED
      BY <3>1, <3>3
  <2>6. ASSUME NEW q \in Rooms, Create(q) \/ Persist(q) \/ Finalize(q) \/ (q # r /\ Play(q))
        PROVE  rooms'[r] = rooms[r]
    BY <2>2, <2>6 DEF Create, InsertMatch, OpenRoom, CreateFails, Persist, StoreRound, LoseRound,
       Finalize, FinalizeStatus, FinalizeHash, FinalizeFails, Play, HandleMove
  <2>7. CASE UNCHANGED vars
    BY <2>3, <2>7 DEF vars
  <2> QED
    BY <2>3, <2>4, <2>5, <2>6, <2>7 DEF Next, Play
<1> QED
  BY <1>1, InductiveInvariant, PTL DEF Spec, PlayLocksNoRoom

\* The tables never contradict a recorded verdict, whichever round writes are
\* lost or late and whenever the process stops.
THEOREM RowsBackVerdict == Spec => []StoredRoundsBackVerdict
<1>1. IInv => StoredRoundsBackVerdict
  BY DEF IInv, StoredOK, StoredRoundsBackVerdict
<1> QED
  BY <1>1, InductiveInvariant, PTL

\* A submitted move is the move its round is resolved with.
THEOREM MovesAreCommitments == Spec => CommittedMoveStands
<1> DEFINE A == \A r \in Rooms, s \in Sides :
        rooms[r].status = "in_progress" /\ rooms[r].move[s] # NoMove =>
            \/ rooms'[r].status = "absent"
            \/ rooms'[r].rounds = rooms[r].rounds /\ rooms'[r].move[s] = rooms[r].move[s]
            \/ /\ Len(rooms'[r].rounds) = Len(rooms[r].rounds) + 1
               /\ LastRound(rooms'[r]).move[s] = rooms[r].move[s]
<1>1. IInv /\ [Next]_vars => A
  <2> SUFFICES ASSUME IInv, [Next]_vars, NEW r \in Rooms, NEW s \in Sides,
                      rooms[r].status = "in_progress", rooms[r].move[s] # NoMove
               PROVE  \/ rooms'[r].status = "absent"
                      \/ /\ rooms'[r].rounds = rooms[r].rounds
                         /\ rooms'[r].move[s] = rooms[r].move[s]
                      \/ /\ Len(rooms'[r].rounds) = Len(rooms[r].rounds) + 1
                         /\ LastRound(rooms'[r]).move[s] = rooms[r].move[s]
    OBVIOUS
  <2> DEFINE g == rooms[r]
  <2>1. /\ RoomOK(g) /\ g \in RoomType /\ fin[r] = "idle" /\ r \notin opening
        /\ rooms \in [Rooms -> RoomType]
    BY DEF IInv, RoomInv, RoomOK, Present, TypeOK
  <2>2. CASE rooms'[r] = rooms[r]
    BY <2>2
  <2>3. CASE Crash
    BY <2>3, AbsentRoomType DEF Crash
  <2>4. ASSUME NEW u \in Users, NEW m \in Moves, HandleMove(r, u, m)
        PROVE  \/ /\ rooms'[r].rounds = g.rounds
                  /\ rooms'[r].move[s] = g.move[s]
               \/ /\ Len(rooms'[r].rounds) = Len(g.rounds) + 1
                  /\ LastRound(rooms'[r]).move[s] = g.move[s]
    <3> DEFINE h == Submit(g, u, m)
    <3>1. MayMove(g, u, m) /\ rooms'[r] = h
      BY <2>1, <2>4 DEF HandleMove
    <3>2. \/ h = [g EXCEPT !.move[SideOf(g, u)] = m]
          \/ /\ h.rounds = Append(g.rounds, LastRound(h))
             /\ LastRound(h) \in Round
             /\ \A t \in Sides : g.move[t] # NoMove => LastRound(h).move[t] = g.move[t]
      BY <2>1, <3>1, SubmitOK
    <3> HIDE DEF h
    <3>3. CASE h = [g EXCEPT !.move[SideOf(g, u)] = m]
      <4>1. g.move[SideOf(g, u)] = NoMove
        BY <3>1 DEF MayMove
      <4>2. h.rounds = g.rounds /\ h.move = [g.move EXCEPT ![SideOf(g, u)] = m]
        BY <2>1, <3>3 DEF RoomType
      <4>3. h.move[s] = g.move[s]
        BY <2>1, <4>1, <4>2 DEF RoomType
      <4> QED
        BY <3>1, <4>2, <4>3
    <3>4. CASE /\ h.rounds = Append(g.rounds, LastRound(h))
               /\ LastRound(h) \in Round
               /\ \A t \in Sides : g.move[t] # NoMove => LastRound(h).move[t] = g.move[t]
      BY <2>1, <3>1, <3>4 DEF RoomType
    <3> QED
      BY <3>2, <3>3, <3>4
  <2>5. ASSUME NEW q \in Rooms, Create(q) \/ Persist(q) \/ Finalize(q) \/ (q # r /\ Play(q))
        PROVE  rooms'[r] = rooms[r]
    BY <2>1, <2>5 DEF Create, InsertMatch, OpenRoom, CreateFails, Persist, StoreRound, LoseRound,
       Finalize, FinalizeStatus, FinalizeHash, FinalizeFails, Play, HandleMove
  <2>6. CASE UNCHANGED vars
    BY <2>2, <2>6 DEF vars
  <2> QED
    BY <2>2, <2>3, <2>4, <2>5, <2>6 DEF Next, Play
<1> QED
  BY <1>1, InductiveInvariant, PTL DEF Spec, CommittedMoveStands

\* A recorded or announced verdict never changes.
THEOREM VerdictsAreFinal == Spec => VerdictStands
<1> DEFINE A == \A r \in Rooms :
        /\ rooms[r].status = "completed" =>
             \/ rooms'[r].status = "absent"
             \/ [rooms'[r] EXCEPT !.hash = FALSE] = [rooms[r] EXCEPT !.hash = FALSE]
        /\ match[r].status = "COMPLETED" =>
             match'[r].status = "COMPLETED" /\ match'[r].winner = match[r].winner
<1>1. IInv /\ [Next]_vars => A
  <2> SUFFICES ASSUME IInv, [Next]_vars, NEW r \in Rooms
               PROVE  /\ rooms[r].status = "completed" =>
                           \/ rooms'[r].status = "absent"
                           \/ [rooms'[r] EXCEPT !.hash = FALSE] = [rooms[r] EXCEPT !.hash = FALSE]
                      /\ match[r].status = "COMPLETED" =>
                           match'[r].status = "COMPLETED" /\ match'[r].winner = match[r].winner
    OBVIOUS
  <2>1. /\ rooms \in [Rooms -> RoomType] /\ match \in [Rooms -> RowType]
        /\ rooms[r].status = "completed" => r \notin opening
        /\ match[r].status = "COMPLETED" =>
             match[r].status # "none" /\ r \notin opening /\ fin[r] # "status"
        /\ fin[r] # "idle" => Present(r)
    BY DEF IInv, TypeOK, RoomInv, RoomOK, Present
  <2>2. CASE rooms'[r] = rooms[r] /\ match'[r] = match[r]
    BY <2>2
  <2>3. CASE Crash
    BY <2>3, AbsentRoomType DEF Crash
  <2>4. CASE Create(r)
    BY <2>1, <2>4 DEF Create, InsertMatch, OpenRoom, CreateFails
  <2>5. CASE Play(r)
    BY <2>1, <2>5 DEF Play, HandleMove, MayMove, IInv, RoomInv
  <2>6. CASE Persist(r)
    BY <2>2, <2>6 DEF Persist, StoreRound, LoseRound
  <2>7. CASE FinalizeStatus(r)
    <3>1. rooms'[r] = [rooms[r] EXCEPT !.hash = TRUE] /\ match[r].status # "COMPLETED"
      BY <2>1, <2>7 DEF FinalizeStatus
    <3>2. rooms[r] \in RoomType
      BY <2>1
    <3> QED
      BY <3>1, <3>2 DEF RoomType
  <2>8. CASE FinalizeHash(r)
    <3>1. rooms' = rooms /\ match' = [match EXCEPT ![r].hash = TRUE]
      BY <2>8 DEF FinalizeHash
    <3>2. match'[r] = [match[r] EXCEPT !.hash = TRUE]
      BY <2>1, <3>1
    <3> QED
      BY <2>1, <3>1, <3>2 DEF RowType
  <2>9. ASSUME NEW committed \in BOOLEAN, FinalizeFails(r, committed)
        PROVE  /\ rooms' = rooms
               /\ match[r].status = "COMPLETED" =>
                    match'[r].status = "COMPLETED" /\ match'[r].winner = match[r].winner
    <3>1. rooms' = rooms
      BY <2>9 DEF FinalizeFails
    <3>2. CASE match' = match
      BY <3>1, <3>2
    <3>3. CASE fin[r] = "status"
      BY <2>1, <3>1, <3>3
    <3>4. CASE fin[r] = "hash" /\ match' = [match EXCEPT ![r].hash = TRUE]
      <4>1. match'[r] = [match[r] EXCEPT !.hash = TRUE]
        BY <2>1, <3>4
      <4> QED
        BY <2>1, <3>1, <4>1 DEF RowType
    <3> QED
      BY <2>9, <3>2, <3>3, <3>4 DEF FinalizeFails
  <2>10. CASE Finalize(r)
    BY <2>7, <2>8, <2>9, <2>10 DEF Finalize
  <2>11. ASSUME NEW q \in Rooms, q # r, Create(q) \/ Play(q) \/ Persist(q) \/ Finalize(q)
         PROVE  rooms'[r] = rooms[r] /\ match'[r] = match[r]
    BY <2>1, <2>11 DEF Create, InsertMatch, OpenRoom, CreateFails, Persist, StoreRound, LoseRound,
       Finalize, FinalizeStatus, FinalizeHash, FinalizeFails, Play, HandleMove
  <2>12. CASE UNCHANGED vars
    BY <2>2, <2>12 DEF vars
  <2> QED
    BY <2>2, <2>3, <2>4, <2>5, <2>6, <2>10, <2>11, <2>12 DEF Next
<1> QED
  BY <1>1, InductiveInvariant, PTL DEF Spec, VerdictStands

----------------------------------------------------------------------------
(* The messages.                                                           *)

\* h is g after a move: no round more, or one, and the game is at most over.
Follows(g, h) ==
    /\ RoomOK(g) /\ RoomOK(h) /\ g.status = "in_progress"
    /\ \/ h.rounds = g.rounds /\ h.status = "in_progress"
       \/ h.rounds = Append(g.rounds, LastRound(h)) /\ LastRound(h) \in Round

LEMMA FollowsRounds ==
    ASSUME NEW g, NEW h, Follows(g, h)
    PROVE  /\ g.rounds \in Seq(Round) /\ h.rounds \in Seq(Round)
           /\ Len(g.rounds) \in Nat /\ Len(h.rounds) \in {Len(g.rounds), Len(g.rounds) + 1}
           /\ \A i \in 1..Len(g.rounds) : h.rounds[i] = g.rounds[i]
           /\ g.currentRound \in Nat /\ h.currentRound \in Nat
           /\ g.currentRound <= h.currentRound
<1>1. /\ g.rounds \in Seq(Round) /\ h.rounds \in Seq(Round) /\ Len(g.rounds) \in Nat
      /\ g.currentRound \in Nat /\ h.currentRound \in Nat
      /\ g.currentRound = Len(g.rounds) + 1
  BY DEF Follows, RoomOK, RoomType, ScoreOK
<1>4. /\ h.status = "in_progress" => h.currentRound = Len(h.rounds) + 1
      /\ h.status # "in_progress" => h.currentRound = Len(h.rounds) + 0
  BY DEF Follows, RoomOK, ScoreOK
<1>2. CASE h.rounds = g.rounds /\ h.status = "in_progress"
  BY <1>1, <1>2, <1>4
<1>3. CASE h.rounds = Append(g.rounds, LastRound(h)) /\ LastRound(h) \in Round
  <2>1. /\ Len(h.rounds) = Len(g.rounds) + 1
        /\ \A i \in 1..Len(g.rounds) : h.rounds[i] = g.rounds[i]
    BY <1>1, <1>3
  <2>2. h.currentRound >= Len(h.rounds)
    BY <1>1, <1>4, <2>1
  <2>3. g.currentRound <= h.currentRound
    BY <1>1, <2>1, <2>2
  <2> QED
    BY <1>1, <2>1, <2>3
<1> QED
  BY <1>2, <1>3 DEF Follows

\* A true result stays true: rounds are only added.
LEMMA TrueStays ==
    ASSUME NEW g, NEW h, NEW e, Follows(g, h), TrueResult(g, e)
    PROVE  TrueResult(h, e) /\ e.roundNumber <= Len(g.rounds) /\ e.roundNumber \in Nat
<1> DEFINE n == e.roundNumber
<1>1. /\ g.rounds \in Seq(Round) /\ h.rounds \in Seq(Round)
      /\ Len(g.rounds) \in Nat /\ Len(h.rounds) \in {Len(g.rounds), Len(g.rounds) + 1}
      /\ \A i \in 1..Len(g.rounds) : h.rounds[i] = g.rounds[i]
  BY FollowsRounds
<1>2. n \in 1..Len(g.rounds) /\ n \in 1..Len(h.rounds)
  BY <1>1 DEF TrueResult
<1>3. \A i \in 1..n : h.rounds[i] = g.rounds[i]
  BY <1>1, <1>2
<1>4. \A s \in Sides : WonUpTo(h, s, n) = WonUpTo(g, s, n)
  BY <1>3 DEF WonUpTo
<1> QED
  BY <1>1, <1>2, <1>3, <1>4 DEF TrueResult

\* The result handleMove sends is the last round's.
LEMMA LastResultTrue ==
    ASSUME NEW g, RoomOK(g), g.rounds # <<>>
    PROVE  /\ TrueResult(g, RoundResultOf(g))
           /\ RoundResultOf(g).roundNumber = Len(g.rounds)
<1> DEFINE e == RoundResultOf(g)
           n == Len(g.rounds)
<1>1. g.rounds \in Seq(Round) /\ n \in DOMAIN g.rounds /\ ScoreOK(g)
  BY DEF RoomOK, RoomType
<1>2. LastRound(g) = g.rounds[n] /\ g.rounds[n].roundNumber = n
  BY <1>1 DEF LastRound, ScoreOK
<1>3. /\ e.roundNumber = n /\ e.move = g.rounds[n].move
      /\ e.winner = g.rounds[n].winner /\ e.wins = g.wins
  BY <1>2 DEF RoundResultOf
<1>4. \A s \in Sides : g.wins[s] = Cardinality(WonUpTo(g, s, n))
  BY <1>1 DEF ScoreOK, RoundsWon
<1> HIDE DEF e, n
<1>5. TrueResult(g, e)
  BY <1>1, <1>3, <1>4 DEF TrueResult
<1> QED
  BY <1>3, <1>5 DEF e, n

\* The log after one more announcement of two messages.
LEMMA Appended ==
    ASSUME NEW T, NEW log \in Seq(T), NEW a, NEW b, a \in T, b \in T
    PROVE  LET new == log \o <<a, b>> IN
           /\ Len(log) \in Nat /\ Len(new) = Len(log) + 2
           /\ DOMAIN new = 1..(Len(log) + 2) /\ DOMAIN log = 1..Len(log)
           /\ \A i \in 1..Len(log) : new[i] = log[i]
           /\ new[Len(log) + 1] = a /\ new[Len(log) + 2] = b
OBVIOUS

\* A message that, if it is a result, is the last round's.
Fresh(g, e) ==
    e.event = "round_result" => TrueResult(g, e) /\ e.roundNumber = Len(g.rounds)

LEMMA ResultsStayTrue ==
    ASSUME NEW g, NEW h, NEW log \in Seq(EventType), NEW a \in EventType, NEW b \in EventType,
           Follows(g, h), ResultsTrue(g, log), Fresh(h, a), Fresh(h, b)
    PROVE  ResultsTrue(h, log \o <<a, b>>)
<1> DEFINE new == log \o <<a, b>>
           n == Len(log)
<1>1. /\ n \in Nat /\ Len(new) = n + 2 /\ DOMAIN new = 1..(n + 2) /\ DOMAIN log = 1..n
      /\ \A i \in 1..n : new[i] = log[i]
      /\ new[n + 1] = a /\ new[n + 2] = b
  BY Appended
<1>2. Len(g.rounds) \in Nat /\ Len(h.rounds) \in {Len(g.rounds), Len(g.rounds) + 1}
  BY FollowsRounds
<1> HIDE DEF new, n
<1>3. \A i \in 1..(n + 2) : i \in 1..n \/ i = n + 1 \/ i = n + 2
  BY <1>1
<1>4. ASSUME NEW i \in 1..n, new[i].event = "round_result"
      PROVE  /\ TrueResult(h, new[i]) /\ new[i].roundNumber \in Nat
             /\ new[i].roundNumber <= Len(g.rounds)
  <2>1. TrueResult(g, log[i])
    BY <1>1, <1>4 DEF ResultsTrue
  <2> QED
    BY <1>1, <2>1, TrueStays
<1>5. ASSUME NEW i \in {n + 1, n + 2}, new[i].event = "round_result"
      PROVE  TrueResult(h, new[i]) /\ new[i].roundNumber = Len(h.rounds)
  BY <1>1, <1>5 DEF Fresh
<1>6. ASSUME NEW i \in 1..(n + 2), NEW j \in i..(n + 2), new[i].event = "round_result",
             new[j].event = "round_result"
      PROVE  new[i].roundNumber <= new[j].roundNumber
  <2>0. j \in 1..(n + 2)
    BY <1>1
  <2>1. CASE i \in 1..n /\ j \in 1..n
    <3>1. j \in i..Len(log) /\ new[i] = log[i] /\ new[j] = log[j] /\ i \in DOMAIN log
      BY <1>1, <2>1 DEF n
    <3> QED
      BY <1>6, <3>1 DEF ResultsTrue
  <2>2. CASE i \in 1..n /\ j \in {n + 1, n + 2}
    BY <1>2, <1>4, <1>5, <1>6, <2>2
  <2>3. CASE i \in {n + 1, n + 2}
    <3>1. j \in {n + 1, n + 2}
      BY <1>1, <2>3
    <3> QED
      BY <1>2, <1>5, <1>6, <2>3, <3>1
  <2> QED
    BY <1>3, <2>0, <2>1, <2>2, <2>3
<1>7. ASSUME NEW i \in 1..(n + 2), new[i].event = "round_result"
      PROVE  TrueResult(h, new[i])
  BY <1>3, <1>4, <1>5, <1>7
<1>8. ResultsTrue(h, new)
  BY <1>1, <1>6, <1>7 DEF ResultsTrue
<1> QED
  BY <1>8 DEF new

\* What was told stays told.
LEMMA ToldStays ==
    ASSUME NEW log \in Seq(EventType), NEW a \in EventType, NEW b \in EventType, NEW e, NEW k,
           ToldRound(log, e, k)
    PROVE  ToldRound(log \o <<a, b>>, e, k)
<1> DEFINE new == log \o <<a, b>>
           n == Len(log)
<1>1. /\ n \in Nat /\ DOMAIN new = 1..(n + 2) /\ DOMAIN log = 1..n
      /\ \A i \in 1..n : new[i] = log[i]
  BY Appended
<1> HIDE DEF new, n
<1>2. PICK i \in DOMAIN log : log[i].event = e /\ log[i].roundNumber = k
  BY DEF ToldRound
<1>3. i \in DOMAIN new /\ new[i] = log[i]
  BY <1>1
<1>4. ToldRound(new, e, k)
  BY <1>2, <1>3 DEF ToldRound
<1> QED
  BY <1>4 DEF new

LEMMA NewlyTold ==
    ASSUME NEW log \in Seq(EventType), NEW a \in EventType, NEW b \in EventType
    PROVE  /\ ToldRound(log \o <<a, b>>, a.event, a.roundNumber)
           /\ ToldRound(log \o <<a, b>>, b.event, b.roundNumber)
           /\ Told(log \o <<a, b>>, b.event)
<1> DEFINE new == log \o <<a, b>>
           n == Len(log)
<1>1. /\ n \in Nat /\ DOMAIN new = 1..(n + 2)
      /\ new[n + 1] = a /\ new[n + 2] = b
  BY Appended
<1> HIDE DEF new, n
<1>2. n + 1 \in DOMAIN new /\ n + 2 \in DOMAIN new
  BY <1>1
<1>3. /\ ToldRound(new, a.event, a.roundNumber) /\ ToldRound(new, b.event, b.roundNumber)
      /\ Told(new, b.event)
  BY <1>1, <1>2 DEF ToldRound, Told
<1> QED
  BY <1>3 DEF new

\* The four parts of a truthful log, after the announcement of a move.
LEMMA AnnounceResults ==
    ASSUME NEW g, NEW h, NEW log \in Seq(EventType), Follows(g, h), ResultsTrue(g, log)
    PROVE  ResultsTrue(h, log \o Announce(h))
<1>1. RoomOK(h)
  BY DEF Follows
<1>2. PICK a \in EventType, b \in EventType :
         Announce(h) = <<a, b>> /\ Fresh(h, a) /\ Fresh(h, b)
  <2>1. CASE h.rounds = <<>> /\ Announce(h) = <<MoveReceived(h), OpponentMoved>>
    <3>1. Fresh(h, MoveReceived(h)) /\ Fresh(h, OpponentMoved)
      BY DEF Fresh, MoveReceived, OpponentMoved
    <3> QED
      BY <1>1, <2>1, <3>1, AnnounceParts
  <2>2. CASE h.rounds # <<>> /\ Announce(h) = <<RoundResultOf(h), MatchResultOf(h)>>
    <3>1. Fresh(h, RoundResultOf(h)) /\ Fresh(h, MatchResultOf(h))
      BY <1>1, <2>2, LastResultTrue DEF Fresh, MatchResultOf
    <3> QED
      BY <1>1, <2>2, <3>1, AnnounceParts
  <2>3. CASE h.rounds # <<>> /\ Announce(h) = <<RoundResultOf(h), NextRoundOf(h)>>
    <3>1. Fresh(h, RoundResultOf(h)) /\ Fresh(h, NextRoundOf(h))
      BY <1>1, <2>3, LastResultTrue DEF Fresh, NextRoundOf
    <3> QED
      BY <1>1, <2>3, <3>1, AnnounceParts
  <2> QED
    BY <1>1, <2>1, <2>2, <2>3, AnnounceIs
<1> QED
  BY <1>2, ResultsStayTrue

LEMMA AnnounceRounds ==
    ASSUME NEW g, NEW h, NEW log \in Seq(EventType), Follows(g, h), RoundsTold(g, log)
    PROVE  RoundsTold(h, log \o Announce(h))
<1>1. /\ RoomOK(h) /\ Len(g.rounds) \in Nat /\ g.rounds \in Seq(Round)
      /\ h.rounds \in Seq(Round) /\ Len(h.rounds) \in {Len(g.rounds), Len(g.rounds) + 1}
  BY FollowsRounds DEF Follows
<1>2. PICK a \in EventType, b \in EventType : Announce(h) = <<a, b>>
  BY <1>1, AnnouncePair
<1>3. ASSUME NEW k \in DOMAIN h.rounds PROVE ToldRound(log \o <<a, b>>, "round_result", k)
  <2>1. CASE k \in DOMAIN g.rounds
    BY <2>1, ToldStays DEF RoundsTold
  <2>2. CASE k \notin DOMAIN g.rounds
    <3>1. k = Len(h.rounds) /\ h.rounds # <<>>
      BY <1>1, <2>2
    <3>2. a = RoundResultOf(h)
      BY <1>1, <1>2, <3>1, AnnounceIs
    <3>3. a.event = "round_result" /\ a.roundNumber = k
      BY <1>1, <3>1, <3>2, LastResultTrue DEF RoundResultOf
    <3> QED
      BY <3>3, NewlyTold
  <2> QED
    BY <2>1, <2>2
<1> QED
  BY <1>2, <1>3 DEF RoundsTold

LEMMA AnnounceNext ==
    ASSUME NEW g, NEW h, NEW log \in Seq(EventType), Follows(g, h), NextTold(g, log)
    PROVE  NextTold(h, log \o Announce(h))
<1>1. /\ RoomOK(h) /\ g.currentRound \in Nat /\ h.currentRound \in Nat
      /\ g.currentRound <= h.currentRound
  BY FollowsRounds DEF Follows
<1>2. PICK a \in EventType, b \in EventType : Announce(h) = <<a, b>>
  BY <1>1, AnnouncePair
<1> DEFINE new == log \o <<a, b>>
           n == Len(log)
<1>3. /\ n \in Nat /\ DOMAIN new = 1..(n + 2) /\ DOMAIN log = 1..n
      /\ \A i \in 1..n : new[i] = log[i]
      /\ new[n + 1] = a /\ new[n + 2] = b
  BY Appended
<1>4. a.event # "next_round" /\ (b.event = "next_round" => b.roundNumber = h.currentRound)
  BY <1>1, <1>2, AnnounceIs
  DEF MoveReceived, OpponentMoved, RoundResultOf, MatchResultOf, NextRoundOf
<1> HIDE DEF new, n
<1>5. ASSUME NEW i \in DOMAIN new, new[i].event = "next_round"
      PROVE  new[i].roundNumber <= h.currentRound
  <2>1. CASE i \in 1..n
    <3>1. log[i].event = "next_round" /\ new[i] = log[i] /\ i \in DOMAIN log
      BY <1>3, <1>5, <2>1
    <3>2. log[i].roundNumber <= g.currentRound
      BY <3>1 DEF NextTold
    <3>3. log[i].roundNumber \in Nat
      <4>1. log[i] \in EventType
        BY <3>1
      <4> QED
        BY <3>1, <4>1 DEF EventType
    <3> QED
      BY <1>1, <3>1, <3>2, <3>3
  <2>2. CASE i = n + 1 \/ i = n + 2
    BY <1>1, <1>3, <1>4, <1>5, <2>2
  <2> QED
    BY <1>3, <2>1, <2>2
<1>6. ASSUME h.status = "in_progress", h.currentRound > 1
      PROVE  ToldRound(new, "next_round", h.currentRound)
  <2>1. h.rounds # <<>>
    BY <1>1, <1>6 DEF RoomOK, ScoreOK
  <2>2. b = NextRoundOf(h)
    BY <1>1, <1>2, <1>6, <2>1, AnnounceIs
  <2>3. b.event = "next_round" /\ b.roundNumber = h.currentRound
    BY <2>2 DEF NextRoundOf
  <2> QED
    BY <2>3, NewlyTold DEF new
<1>7. NextTold(h, new)
  BY <1>5, <1>6 DEF NextTold
<1> QED
  BY <1>2, <1>7 DEF new

LEMMA AnnounceEnd ==
    ASSUME NEW g, NEW h, NEW log \in Seq(EventType), Follows(g, h), EndTold(g, log)
    PROVE  EndTold(h, log \o Announce(h))
<1>1. RoomOK(h) /\ g.status = "in_progress"
  BY DEF Follows
<1>2. PICK a \in EventType, b \in EventType : Announce(h) = <<a, b>>
  BY <1>1, AnnouncePair
<1> DEFINE new == log \o <<a, b>>
           n == Len(log)
<1>3. /\ n \in Nat /\ Len(new) = n + 2 /\ DOMAIN new = 1..(n + 2) /\ DOMAIN log = 1..n
      /\ \A i \in 1..n : new[i] = log[i]
      /\ new[n + 1] = a /\ new[n + 2] = b
  BY Appended
<1>4. /\ a.event # "match_result"
      /\ b.event = "match_result" =>
           h.status = "completed" /\ b.winner = h.winner /\ b.wins = h.wins
  BY <1>1, <1>2, AnnounceIs
  DEF MoveReceived, OpponentMoved, RoundResultOf, MatchResultOf, NextRoundOf
<1> HIDE DEF new, n
<1>5. ASSUME NEW i \in DOMAIN new, new[i].event = "match_result"
      PROVE  /\ i = Len(new) /\ h.status = "completed"
             /\ new[i].winner = h.winner /\ new[i].wins = h.wins
  <2>1. i \notin 1..n
    <3>1. i \in 1..n => log[i].event = "match_result" /\ i \in DOMAIN log
      BY <1>3, <1>5
    <3> QED
      BY <1>1, <3>1 DEF EndTold
  <2>2. i = n + 2
    BY <1>3, <1>4, <1>5, <2>1
  <2> QED
    BY <1>3, <1>4, <1>5, <2>2
<1>6. ASSUME h.status = "completed" PROVE Told(new, "match_result")
  <2>1. h.rounds # <<>>
    BY <1>1, <1>6, CompletedHasRounds
  <2>2. b = MatchResultOf(h)
    BY <1>1, <1>2, <1>6, <2>1, AnnounceIs
  <2>3. b.event = "match_result"
    BY <2>2 DEF MatchResultOf
  <2> QED
    BY <2>3, NewlyTold DEF new
<1>7. EndTold(h, new)
  BY <1>5, <1>6 DEF EndTold
<1> QED
  BY <1>2, <1>7 DEF new

\* Replaying the messages of a room gives its rounds, its score, the round to
\* play and, once it is over and not before, its verdict.
THEOREM BroadcastsCorrect == Spec => []BroadcastsTellTheRoom
<1>1. Init => BroadcastsTellTheRoom
  BY AbsentRoomType DEF Init, BroadcastsTellTheRoom, Present
<1>2. ASSUME IInv, BroadcastsTellTheRoom, [Next]_vars PROVE BroadcastsTellTheRoom'
  <2> SUFFICES ASSUME NEW r \in Rooms, Present(r)' PROVE Truthful(rooms'[r], sent'[r])
    BY DEF BroadcastsTellTheRoom
  <2>1. /\ rooms \in [Rooms -> RoomType] /\ sent[r] \in Seq(EventType)
        /\ sent \in [Rooms -> Seq(EventType)]
    BY <1>2 DEF IInv, TypeOK
  <2>2. Present(r) => Truthful(rooms[r], sent[r])
    BY <1>2 DEF BroadcastsTellTheRoom
  <2>3. CASE rooms'[r] = rooms[r] /\ sent'[r] = sent[r]
    BY <2>2, <2>3 DEF Present
  <2>4. CASE Crash
    BY <2>4, AbsentRoomType DEF Crash, Present
  <2>5. ASSUME NEW m \in Carried(match[r].player), OpenRoom(r, m)
        PROVE  Truthful(rooms'[r], sent'[r])
    <3>1. sent'[r] = <<>>
      BY <1>2, <2>5 DEF OpenRoom, IInv, RoomInv
    <3>2. rooms'[r] = NewRoom(match[r].player, m)
      BY <2>1, <2>5 DEF OpenRoom
    <3>3. /\ rooms'[r].rounds = <<>> /\ rooms'[r].status = "in_progress"
          /\ rooms'[r].currentRound = 1
      BY <3>2 DEF NewRoom
    <3> QED
      BY <3>1, <3>3 DEF Truthful, ResultsTrue, RoundsTold, NextTold, EndTold
  <2>6. ASSUME NEW u \in Users, NEW m \in Moves, HandleMove(r, u, m)
        PROVE  Truthful(rooms'[r], sent'[r])
    <3> DEFINE g == rooms[r]
               h == Submit(g, u, m)
    <3>1. /\ rooms'[r] = h /\ sent'[r] = sent[r] \o Announce(h) /\ MayMove(g, u, m)
          /\ g.status = "in_progress" /\ RoomOK(g) /\ g \in RoomType
      BY <1>2, <2>1, <2>6 DEF HandleMove, MayMove, IInv, RoomInv, Present
    <3>2. /\ RoomOK(h)
          /\ \/ h.status = "in_progress" /\ h = [g EXCEPT !.move[SideOf(g, u)] = m]
             \/ h.rounds = Append(g.rounds, LastRound(h)) /\ LastRound(h) \in Round
      BY <3>1, SubmitOK
    <3>3. Truthful(g, sent[r])
      BY <2>2, <3>1 DEF Present
    <3> HIDE DEF h
    <3>4. Follows(g, h)
      BY <3>1, <3>2 DEF Follows, RoomType
    <3> HIDE DEF g
    <3>5. /\ ResultsTrue(h, sent[r] \o Announce(h)) /\ RoundsTold(h, sent[r] \o Announce(h))
          /\ NextTold(h, sent[r] \o Announce(h)) /\ EndTold(h, sent[r] \o Announce(h))
      BY <2>1, <3>3, <3>4, AnnounceResults, AnnounceRounds, AnnounceNext, AnnounceEnd
      DEF Truthful
    <3> QED
      BY <3>1, <3>5 DEF Truthful
  <2>7. CASE Play(r)
    BY <2>6, <2>7 DEF Play
  <2>8. CASE Persist(r)
    BY <2>3, <2>8 DEF Persist, StoreRound, LoseRound
  <2>9. CASE Create(r)
    BY <2>3, <2>5, <2>9 DEF Create, InsertMatch, CreateFails
  <2>10. CASE Finalize(r)
    <3>1. sent' = sent /\ rooms'[r] \in {rooms[r], [rooms[r] EXCEPT !.hash = TRUE]}
      BY <2>1, <2>10 DEF Finalize, FinalizeStatus, FinalizeHash, FinalizeFails
    <3>2. /\ rooms'[r].wins = rooms[r].wins /\ rooms'[r].rounds = rooms[r].rounds
          /\ rooms'[r].status = rooms[r].status /\ rooms'[r].winner = rooms[r].winner
          /\ rooms'[r].currentRound = rooms[r].currentRound
      BY <2>1, <3>1 DEF RoomType
    <3> QED
      BY <2>2, <3>1, <3>2
      DEF Present, Truthful, ResultsTrue, TrueResult, WonUpTo, RoundsTold, NextTold, EndTold
  <2>11. ASSUME NEW q \in Rooms, q # r, Create(q) \/ Play(q) \/ Persist(q) \/ Finalize(q)
         PROVE  rooms'[r] = rooms[r] /\ sent'[r] = sent[r]
    BY <2>1, <2>11 DEF Create, InsertMatch, OpenRoom, CreateFails, Persist, StoreRound, LoseRound,
       Finalize, FinalizeStatus, FinalizeHash, FinalizeFails, Play, HandleMove
  <2>12. CASE UNCHANGED vars
    BY <2>3, <2>12 DEF vars
  <2> QED
    BY <1>2, <2>3, <2>4, <2>7, <2>8, <2>9, <2>10, <2>11, <2>12 DEF Next
<1> QED
  BY <1>1, <1>2, InductiveInvariant, PTL DEF Spec

=============================================================================
