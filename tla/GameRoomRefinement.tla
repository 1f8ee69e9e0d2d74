------------------------- MODULE GameRoomRefinement -------------------------
(***************************************************************************)
(* GameRoom implements BestOfThree: every step of a room is an abstract    *)
(* step of its match or changes nothing the abstraction sees.              *)
(***************************************************************************)
EXTENDS GameRoomProofs

AbstractVars == <<phaseBar, scoreBar, winnerBar>>

ZeroScore == [s \in Sides |-> 0]

\* The abstract state of r does not change.
Same(r) == PhaseOf(r)' = PhaseOf(r) /\ ScoreOf(r)' = ScoreOf(r) /\ WinnerOf(r)' = WinnerOf(r)

Step == Promise!Next \/ UNCHANGED AbstractVars

LEMMA UntouchedSame == ASSUME NEW q \in Rooms, Untouched(q) PROVE Same(q)
BY DEF Untouched, Same, PhaseOf, ScoreOf, WinnerOf

LEMMA AllSame == ASSUME \A q \in Rooms : Same(q) PROVE Step
BY DEF Same, Step, AbstractVars, phaseBar, scoreBar, winnerBar

\* Two users on two sides: each names its side.
LEMMA NamedSide ==
    ASSUME NEW p \in Players, ~OneUser(p), NEW s \in Sides
    PROVE  SideNamed(p, p[s]) = s
<1>1. p[s] # NoUser /\ \A t \in Sides : p[t] = p[s] => t = s
  BY GameRoomAssumption DEF Players, OneUser, Sides
<1> QED
  BY <1>1 DEF SideNamed

\* One match opens.
LEMMA OpenStep ==
    ASSUME NEW r \in Rooms, \A q \in Rooms \ {r} : Same(q),
           PhaseOf(r) = "idle", PhaseOf(r)' = "playing",
           ScoreOf(r)' = ScoreOf(r), WinnerOf(r)' = WinnerOf(r)
    PROVE  Step
<1>1. phaseBar' = [phaseBar EXCEPT ![r] = "playing"]
  BY DEF Same, phaseBar
<1>2. scoreBar' = scoreBar /\ winnerBar' = winnerBar
  BY DEF Same, scoreBar, winnerBar
<1>3. phaseBar[r] = "idle"
  BY DEF phaseBar
<1>4. Promise!Open(r)
  BY <1>1, <1>2, <1>3 DEF Promise!Open
<1> QED
  BY <1>4 DEF Step, Promise!Next

LEMMA PointStep ==
    ASSUME NEW r \in Rooms, NEW s \in Sides, \A q \in Rooms \ {r} : Same(q),
           PhaseOf(r) = "playing", PhaseOf(r)' = "playing", WinnerOf(r)' = WinnerOf(r),
           ScoreOf(r)[s] = 0, ScoreOf(r)' = [ScoreOf(r) EXCEPT ![s] = 1]
    PROVE  Step
<1>1. phaseBar' = phaseBar /\ winnerBar' = winnerBar
  BY DEF Same, phaseBar, winnerBar
<1>2. phaseBar[r] = "playing" /\ scoreBar[r][s] = 0
  BY DEF phaseBar, scoreBar
<1>3. scoreBar' = [scoreBar EXCEPT ![r][s] = 1]
  BY DEF Same, scoreBar
<1>4. Promise!Point(r, s)
  BY <1>1, <1>2, <1>3 DEF Promise!Point
<1> QED
  BY <1>4 DEF Step, Promise!Next

LEMMA WinStep ==
    ASSUME NEW r \in Rooms, NEW s \in Sides, \A q \in Rooms \ {r} : Same(q),
           PhaseOf(r) = "playing", PhaseOf(r)' = "decided", WinnerOf(r)' = s,
           ScoreOf(r)[s] = 1, ScoreOf(r)' = [ScoreOf(r) EXCEPT ![s] = 2]
    PROVE  Step
<1>1. /\ phaseBar' = [phaseBar EXCEPT ![r] = "decided"]
      /\ winnerBar' = [winnerBar EXCEPT ![r] = s]
  BY DEF Same, phaseBar, winnerBar
<1>2. phaseBar[r] = "playing" /\ scoreBar[r][s] = 1
  BY DEF phaseBar, scoreBar
<1>3. scoreBar' = [scoreBar EXCEPT ![r][s] = 2]
  BY DEF Same, scoreBar
<1>4. Promise!Win(r, s)
  BY <1>1, <1>2, <1>3 DEF Promise!Win
<1> QED
  BY <1>4 DEF Step, Promise!Next

LEMMA RecordStep ==
    ASSUME NEW r \in Rooms, \A q \in Rooms \ {r} : Same(q),
           PhaseOf(r) = "decided", PhaseOf(r)' = "recorded",
           ScoreOf(r)' = ZeroScore, WinnerOf(r)' = WinnerOf(r)
    PROVE  Step
<1>1. /\ phaseBar' = [phaseBar EXCEPT ![r] = "recorded"] /\ winnerBar' = winnerBar
      /\ phaseBar[r] = "decided"
  BY DEF Same, phaseBar, winnerBar
<1>2. scoreBar' = [scoreBar EXCEPT ![r] = Promise!Zero]
  BY DEF Same, scoreBar, ZeroScore, Promise!Zero
<1>3. Promise!Record(r)
  BY <1>1, <1>2 DEF Promise!Record
<1> QED
  BY <1>3 DEF Step, Promise!Next

\* The matches of S are lost, the others stay.
LEMMA VoidStep ==
    ASSUME NEW S \in SUBSET Rooms, \A q \in Rooms \ S : Same(q),
           \A q \in S : /\ PhaseOf(q) \in {"idle", "playing", "decided"}
                        /\ PhaseOf(q)' = "void"
                        /\ ScoreOf(q)' = ZeroScore
                        /\ WinnerOf(q)' = "none"
    PROVE  Step
<1>1. /\ \A q \in S : phaseBar[q] \in {"idle", "playing", "decided"}
      /\ phaseBar' = [q \in Rooms |-> IF q \in S THEN "void" ELSE phaseBar[q]]
      /\ scoreBar' = [q \in Rooms |-> IF q \in S THEN Promise!Zero ELSE scoreBar[q]]
      /\ winnerBar' = [q \in Rooms |-> IF q \in S THEN "none" ELSE winnerBar[q]]
  BY DEF Same, phaseBar, scoreBar, winnerBar, ZeroScore, Promise!Zero
<1>2. Promise!Void(S)
  BY <1>1 DEF Promise!Void
<1> QED
  BY <1>2 DEF Step, Promise!Next

----------------------------------------------------------------------------

LEMMA CreateStep == ASSUME IInv, NEW r \in Rooms, Create(r) PROVE Step
<1>0. rooms \in [Rooms -> RoomType] /\ match \in [Rooms -> RowType]
  BY DEF IInv, TypeOK
<1>1. RoomInv(r)
  BY DEF IInv
<1>2. ASSUME NEW q \in Rooms, q # r PROVE Same(q)
  <2>1. Untouched(q)
    BY <1>0, <1>2 DEF Create, InsertMatch, OpenRoom, CreateFails, Untouched
  <2> QED
    BY <2>1, UntouchedSame
<1>3. CASE \E p \in Players : InsertMatch(r, p)
  <2>1. /\ rooms' = rooms /\ rooms[r].status = "absent" /\ match[r].status = "none"
        /\ match'[r].status = "IN_PROGRESS" /\ r \in opening'
    BY <1>0, <1>1, <1>3 DEF InsertMatch, RoomInv, Present, NoRow
  <2>2. Same(r)
    BY <2>1 DEF Same, PhaseOf, ScoreOf, WinnerOf
  <2> QED
    BY <1>2, <2>2, AllSame
<1>4. ASSUME NEW m \in Carried(match[r].player), OpenRoom(r, m) PROVE Step
  <2>1. /\ r \in opening /\ rooms[r].status = "absent" /\ match[r].status = "IN_PROGRESS"
        /\ match' = match
    BY <1>1, <1>4 DEF OpenRoom, RoomInv, Present
  <2>2. rooms'[r].status = "in_progress" /\ rooms'[r].wins = ZeroScore
    BY <1>0, <1>4 DEF OpenRoom, NewRoom, ZeroScore
  <2>3. /\ PhaseOf(r) = "idle" /\ PhaseOf(r)' = "playing"
        /\ ScoreOf(r)' = ScoreOf(r) /\ WinnerOf(r)' = WinnerOf(r)
    BY <2>1, <2>2 DEF PhaseOf, ScoreOf, WinnerOf, ZeroScore
  <2> QED
    BY <1>2, <2>3, OpenStep
<1>5. CASE CreateFails(r)
  <2>1. /\ r \in opening /\ rooms[r].status = "absent" /\ match[r].status = "IN_PROGRESS"
        /\ match' = match /\ rooms' = rooms /\ r \notin opening'
    BY <1>1, <1>5 DEF CreateFails, RoomInv, Present
  <2>2. /\ PhaseOf(r) = "idle" /\ PhaseOf(r)' = "void"
        /\ ScoreOf(r)' = ZeroScore /\ WinnerOf(r)' = "none"
    BY <2>1 DEF PhaseOf, ScoreOf, WinnerOf, ZeroScore
  <2>3. {r} \in SUBSET Rooms /\ \A q \in Rooms \ {r} : Same(q)
    BY <1>2
  <2> QED
    BY <2>2, <2>3, VoidStep
<1> QED
  BY <1>3, <1>4, <1>5 DEF Create

LEMMA PlayStep == ASSUME IInv, NEW r \in Rooms, Play(r) PROVE Step
<1> DEFINE g == rooms[r]
<1>1. PICK u \in Users, m \in Moves : HandleMove(r, u, m)
  BY DEF Play
<1> DEFINE h == Submit(g, u, m)
<1>2. /\ rooms \in [Rooms -> RoomType] /\ RoomOK(g) /\ MayMove(g, u, m)
      /\ g.status = "in_progress" /\ match[r].status = "IN_PROGRESS"
      /\ rooms' = [rooms EXCEPT ![r] = h]
      /\ UNCHANGED <<opening, match, matchMove>>
  BY <1>1 DEF IInv, TypeOK, RoomInv, Present, HandleMove, MayMove
<1>3. RoomOK(h) /\ OneWin(g, h) /\ h.player = g.player
  BY <1>2, SubmitOK
<1> HIDE DEF h
<1>4. rooms'[r] = h
  BY <1>2
<1>5. \A q \in Rooms \ {r} : Same(q)
  BY <1>2 DEF Same, PhaseOf, ScoreOf, WinnerOf
<1>6. /\ g.wins \in [Sides -> 0..2] /\ h.wins \in [Sides -> 0..2] /\ g.player \in Players
      /\ \A s \in Sides : g.wins[s] < 2
      /\ h.status \in {"in_progress", "completed"}
  BY <1>2, <1>3 DEF RoomOK, RoomType, VerdictOK
<1>7. PhaseOf(r) = "playing" /\ ScoreOf(r) = g.wins /\ WinnerOf(r) = "none"
  BY <1>2 DEF PhaseOf, ScoreOf, WinnerOf
<1>8. /\ PhaseOf(r)' = IF h.status = "in_progress" THEN "playing" ELSE "decided"
      /\ ScoreOf(r)' = h.wins
      /\ WinnerOf(r)' = IF h.status = "in_progress" THEN "none" ELSE SideNamed(h.player, h.winner)
  BY <1>2, <1>4, <1>6 DEF PhaseOf, ScoreOf, WinnerOf
<1>9. CASE h.status = "in_progress"
  <2>1. \A s \in Sides : h.wins[s] < 2
    BY <1>3, <1>9 DEF RoomOK, VerdictOK
  <2>2. CASE h.wins = g.wins
    <3>1. Same(r)
      BY <1>7, <1>8, <1>9, <2>2 DEF Same
    <3> QED
      BY <1>5, <3>1, AllSame
  <2>3. ASSUME NEW s \in Sides, h.wins = [g.wins EXCEPT ![s] = @ + 1] PROVE Step
    <3>1. g.wins[s] = 0 /\ h.wins = [g.wins EXCEPT ![s] = 1]
      BY <1>6, <2>1, <2>3
    <3> QED
      BY <1>5, <1>7, <1>8, <1>9, <3>1, PointStep
  <2> QED
    BY <1>3, <2>2, <2>3 DEF OneWin
<1>10. CASE h.status = "completed"
  <2>1. PICK s \in Sides : h.wins[s] = 2 /\ h.winner = h.player[s]
    BY <1>3, <1>10 DEF RoomOK, VerdictOK
  <2>2. h.wins = [g.wins EXCEPT ![s] = 2] /\ g.wins[s] = 1
    <3>1. h.wins # g.wins
      BY <1>6, <2>1
    <3>2. PICK t \in Sides : h.wins = [g.wins EXCEPT ![t] = @ + 1]
      BY <1>3, <3>1 DEF OneWin
    <3>3. t = s
      BY <1>6, <2>1, <3>2
    <3> QED
      BY <1>6, <2>1, <3>2, <3>3
  <2>3. SideNamed(h.player, h.winner) = s
    <3>1. h.rounds # <<>>
      BY <1>3, <1>10, CompletedHasRounds
    <3>2. ~OneUser(h.player)
      BY <1>3, <3>1 DEF RoomOK
    <3> QED
      BY <1>3, <1>6, <2>1, <3>2, NamedSide
  <2> QED
    BY <1>5, <1>7, <1>8, <1>10, <2>2, <2>3, WinStep
<1> QED
  BY <1>6, <1>9, <1>10

LEMMA PersistStep == ASSUME IInv, NEW r \in Rooms, Persist(r) PROVE Step
<1>1. UNCHANGED <<rooms, opening, match>>
  BY DEF Persist, StoreRound, LoseRound
<1>2. \A q \in Rooms : Same(q)
  BY <1>1 DEF Same, PhaseOf, ScoreOf, WinnerOf
<1> QED
  BY <1>2, AllSame

LEMMA FinalizeStep == ASSUME IInv, NEW r \in Rooms, Finalize(r) PROVE Step
<1> DEFINE g == rooms[r]
<1>1. /\ RoomInv(r) /\ rooms \in [Rooms -> RoomType] /\ match \in [Rooms -> RowType]
      /\ fin[r] \in {"status", "hash"}
  BY DEF IInv, TypeOK, Finalize, FinalizeStatus, FinalizeHash, FinalizeFails
<1>2. /\ g.status = "completed" /\ g.player = match[r].player /\ g \in RoomType
      /\ match[r] \in RowType
      /\ fin[r] = "status" => match[r].status = "IN_PROGRESS"
      /\ fin[r] = "hash" => match[r].status = "COMPLETED"
  BY <1>1 DEF RoomInv, RoomOK, Present
<1>3. /\ rooms' = rooms \/ rooms' = [rooms EXCEPT ![r] = [g EXCEPT !.hash = TRUE]]
      /\ opening' = opening
  BY <1>1 DEF Finalize, FinalizeStatus, FinalizeHash, FinalizeFails
<1>4. /\ rooms'[r].status = g.status /\ rooms'[r].player = g.player
      /\ rooms'[r].winner = g.winner /\ rooms'[r].wins = g.wins
      /\ \A q \in Rooms \ {r} : rooms'[q] = rooms[q]
  BY <1>1, <1>2, <1>3 DEF RoomType
<1>5. \/ match' = match
      \/ fin[r] = "status" /\ match' = [match EXCEPT ![r] = CompletedRow(r)]
      \/ fin[r] = "hash" /\ match' = [match EXCEPT ![r] = [match[r] EXCEPT !.hash = TRUE]]
  BY <1>1 DEF Finalize, FinalizeStatus, FinalizeHash, FinalizeFails
<1>6. \A q \in Rooms \ {r} : Same(q)
  BY <1>1, <1>3, <1>4, <1>5 DEF Same, PhaseOf, ScoreOf, WinnerOf
<1>7. CASE /\ match'[r].status = match[r].status /\ match'[r].winner = match[r].winner
           /\ match'[r].player = match[r].player
  <2>1. Same(r)
    BY <1>2, <1>3, <1>4, <1>7 DEF Same, PhaseOf, ScoreOf, WinnerOf
  <2> QED
    BY <1>6, <2>1, AllSame
<1>8. CASE fin[r] = "status" /\ match' = [match EXCEPT ![r] = CompletedRow(r)]
  <2>1. /\ match'[r].status = "COMPLETED" /\ match'[r].winner = g.winner
        /\ match'[r].player = match[r].player /\ match[r].status = "IN_PROGRESS"
    BY <1>1, <1>2, <1>8 DEF CompletedRow, RowType
  <2>2. /\ PhaseOf(r) = "decided" /\ PhaseOf(r)' = "recorded"
        /\ ScoreOf(r)' = ZeroScore /\ WinnerOf(r)' = WinnerOf(r)
    BY <1>2, <2>1 DEF PhaseOf, ScoreOf, WinnerOf, ZeroScore
  <2> QED
    BY <1>6, <2>2, RecordStep
<1>9. CASE fin[r] = "hash" /\ match' = [match EXCEPT ![r] = [match[r] EXCEPT !.hash = TRUE]]
  <2>1. /\ match'[r].status = match[r].status /\ match'[r].winner = match[r].winner
        /\ match'[r].player = match[r].player
    BY <1>1, <1>2, <1>9 DEF RowType
  <2> QED
    BY <1>7, <2>1
<1> QED
  BY <1>5, <1>7, <1>8, <1>9

LEMMA CrashStep == ASSUME IInv, Crash PROVE Step
<1> DEFINE S == {r \in Rooms : PhaseOf(r) \in {"playing", "decided"} \/ r \in opening}
<1>1. \A r \in Rooms : rooms'[r].status = "absent" /\ r \notin opening' /\ match' = match
  BY AbsentRoomType DEF Crash
<1>2. \A r \in Rooms : RoomInv(r) /\ rooms[r].status \in {"absent", "in_progress", "completed"}
  BY DEF IInv, TypeOK, RoomType
<1>3. ASSUME NEW r \in S
      PROVE  /\ PhaseOf(r) \in {"idle", "playing", "decided"}
             /\ PhaseOf(r)' = "void" /\ ScoreOf(r)' = ZeroScore /\ WinnerOf(r)' = "none"
  <2>1. match[r].status \notin {"COMPLETED", "none"}
    BY <1>2 DEF RoomInv, Present, PhaseOf
  <2>2. PhaseOf(r)' = "void"
    BY <1>1, <2>1 DEF PhaseOf
  <2>3. PhaseOf(r) \in {"idle", "playing", "decided"}
    BY <2>1 DEF PhaseOf
  <2> QED
    BY <2>2, <2>3 DEF ScoreOf, WinnerOf, ZeroScore
<1>4. ASSUME NEW r \in Rooms \ S PROVE Same(r)
  BY <1>1, <1>2, <1>4 DEF Same, PhaseOf, ScoreOf, WinnerOf
<1> HIDE DEF S
<1>5. S \in SUBSET Rooms
  BY DEF S
<1> QED
  BY <1>3, <1>4, <1>5, VoidStep

----------------------------------------------------------------------------

\* A room is a best of three: the first side to win two rounds is the winner,
\* and a recorded verdict is that one, in every behaviour of the rooms, the
\* database and the process.
THEOREM Refinement == Spec => ImplementsBestOfThree
<1>1. Init => Promise!Init
  <2> SUFFICES ASSUME Init PROVE Promise!Init
    OBVIOUS
  <2>1. \A r \in Rooms : /\ PhaseOf(r) = "idle" /\ ScoreOf(r) = [s \in Sides |-> 0]
                         /\ WinnerOf(r) = "none"
    BY AbsentRoomType DEF Init, PhaseOf, ScoreOf, WinnerOf, NoRow
  <2> QED
    BY <2>1 DEF Promise!Init, Promise!Zero, phaseBar, scoreBar, winnerBar
<1>2. IInv /\ [Next]_vars => [Promise!Next]_AbstractVars
  <2> SUFFICES ASSUME IInv, [Next]_vars PROVE Step
    BY DEF Step
  <2>1. CASE UNCHANGED vars
    <3>1. \A q \in Rooms : Same(q)
      BY <2>1 DEF vars, Same, PhaseOf, ScoreOf, WinnerOf
    <3> QED
      BY <3>1, AllSame
  <2> QED
    BY <2>1, CreateStep, PlayStep, PersistStep, FinalizeStep, CrashStep DEF Next
<1>3. IInv /\ [Next]_vars => [Promise!Next]_Promise!vars
  BY <1>2 DEF Promise!vars, AbstractVars
<1> QED
  BY <1>1, <1>3, InductiveInvariant, PTL DEF Spec, ImplementsBestOfThree, Promise!Spec

=============================================================================
