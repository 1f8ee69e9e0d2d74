------------------------------ MODULE GameRoom ------------------------------
(***************************************************************************)
(* The life of a match: GameService (rooms held in memory, moves, rounds,  *)
(* the start of finalizeMatch), the game:move handler of GameGateway, and  *)
(* the Match and MatchMove tables they write.                              *)
(*                                                                         *)
(* A handler runs to its next await without interruption, so an action is  *)
(* the code between two awaits; the query it waits for commits and the     *)
(* handler resumes in one step, or the query fails.  Round rows are        *)
(* written without being awaited: they stay in `writes` until they commit  *)
(* or fail, in any order.  The process may stop between any two actions:   *)
(* it loses everything but the tables.                                     *)
(*                                                                         *)
(* createRoom keeps the player objects of its caller: a squad's still hold *)
(* the moves of their last match.  One object is in one open room at a     *)
(* time here; SquadArena has the rooms that share one.                     *)
(***************************************************************************)
EXTENDS RpsEngine, Sequences, FiniteSets

CONSTANTS
    Users,      \* user ids
    Rooms,      \* rooms, each with its one match id
    NoUser,     \* null where a user id may stand
    MaxRounds   \* bound: a room takes no move once so many rounds are resolved

ASSUME GameRoomAssumption ==
    /\ NoUser \notin Users
    /\ MaxRounds \in Nat

VARIABLES
    rooms,      \* GameService.rooms, status "absent" for a room not in the Map
    opening,    \* rooms whose createRoom has inserted its row and not resumed
    writes,     \* round rows sent to the database and not yet answered
    fin,        \* where the finalizeMatch of each room stands
    match,      \* the Match table
    matchMove,  \* the MatchMove table
    sent        \* what each Socket.IO room was sent by game:move, in order

vars == <<rooms, opening, writes, fin, match, matchMove, sent>>

NoMove == "none"

Cell == Moves \cup {NoMove}

NoMoves == [s \in Sides |-> NoMove]

\* A resolved round, and the row stored for it.
Round == [roundNumber : Nat, move : [Sides -> Moves], winner : Users \cup {NoUser}]

\* The users of the two player objects.  createRoom does not compare them, and
\* who invites himself plays himself.
Players == [Sides -> Users]

OneUser(p) == p["player1"] = p["player2"]

\* The moves the two objects carry: any, if a squad passes its entries.  The
\* invitation, which alone can seat one user twice, passes fresh objects.
Carried(p) == {m \in [Sides -> Cell] : OneUser(p) => m = NoMoves}

NewRoom(p, m) ==
    [player |-> p, status |-> "in_progress", move |-> m, rounds |-> <<>>,
     currentRound |-> 1, wins |-> [s \in Sides |-> 0], winner |-> NoUser, hash |-> FALSE]

AbsentRoom == [NewRoom([s \in Sides |-> NoUser], NoMoves) EXCEPT !.status = "absent"]

NoRow == [status |-> "none", player |-> [s \in Sides |-> NoUser],
          winner |-> NoUser, hash |-> FALSE]

----------------------------------------------------------------------------
(* createRoom: insert the row, then put the room in the Map.               *)

\* prisma.match.create commits; the uuids are fresh.
InsertMatch(r, p) ==
    /\ match[r].status = "none"
    /\ match' = [match EXCEPT ![r] = [NoRow EXCEPT !.status = "IN_PROGRESS", !.player = p]]
    /\ opening' = opening \cup {r}
    /\ UNCHANGED <<rooms, writes, fin, matchMove, sent>>

OpenRoom(r, m) ==
    /\ r \in opening
    /\ opening' = opening \ {r}
    /\ rooms' = [rooms EXCEPT ![r] = NewRoom(match[r].player, m)]
    /\ UNCHANGED <<writes, fin, match, matchMove, sent>>

\* The insert commits and its answer is lost: createRoom throws.
CreateFails(r) ==
    /\ r \in opening
    /\ opening' = opening \ {r}
    /\ UNCHANGED <<rooms, writes, fin, match, matchMove, sent>>

----------------------------------------------------------------------------
(* game:move: submitMove, resolveRound and the broadcasts, in one step.    *)

\* submitMove's choice of a side: player1, else player2.
SideOf(g, u) == IF g.player["player1"] = u THEN "player1" ELSE "player2"

Seated(g, u) == \E s \in Sides : g.player[s] = u

\* Mutants of MayMove: without `Move already submitted`; without that and
\* `Game not in progress`.
MayMoveAgain(g, u, m) == g.status = "in_progress" /\ m \in Moves /\ Seated(g, u)
MayMoveAnyTime(g, u, m) == g.status # "absent" /\ m \in Moves /\ Seated(g, u)

\* submitMove accepts the move of u; otherwise it throws and changes nothing.
MayMove(g, u, m) ==
    /\ g.status = "in_progress"
    /\ m \in Moves
    /\ Seated(g, u)
    /\ g.move[SideOf(g, u)] = NoMove

RoundOf(g) == RoundResult(g.move["player1"], g.move["player2"])

UserOf(g, side) == IF side \in Sides THEN g.player[side] ELSE NoUser

\* Mutant of Score: whatever player1 does not win counts for player2.
ScoreDraws(g) == [g.wins EXCEPT ![IF RoundOf(g) = "player1" THEN "player1" ELSE "player2"] = @ + 1]

Score(g) == IF RoundOf(g) \in Sides THEN [g.wins EXCEPT ![RoundOf(g)] = @ + 1] ELSE g.wins

\* rounds.push and the win counters.
PushRound(g) ==
    [g EXCEPT !.wins = Score(g),
              !.rounds = Append(@, [roundNumber |-> g.currentRound, move |-> g.move,
                                    winner |-> UserOf(g, RoundOf(g))])]

\* Mutant of NextRound: the moves of the round are not cleared.
NextRoundKeepingMoves(g) == [g EXCEPT !.currentRound = @ + 1]

NextRound(g) == [g EXCEPT !.currentRound = @ + 1, !.move = NoMoves]

\* Mutant of EndMatch: the loser of the match is named.
EndMatchSwapped(g, side) ==
    [g EXCEPT !.status = "completed", !.winner = UserOf(g, Opponent(side))]

EndMatch(g, side) == [g EXCEPT !.status = "completed", !.winner = UserOf(g, side)]

\* resolveRound: push the round, score it, then end the match or go on.
ResolveRound(g) ==
    LET pushed == PushRound(g)
        over == MatchResult(pushed.wins["player1"], pushed.wins["player2"])
    IN  IF over.isComplete THEN EndMatch(pushed, over.winner) ELSE NextRound(pushed)

\* submitMove: store the move, and resolve the round if both have moved.
Submit(g, u, m) ==
    LET moved == [g EXCEPT !.move[SideOf(g, u)] = m]
    IN  IF \E s \in Sides : moved.move[s] = NoMove THEN moved ELSE ResolveRound(moved)

LastRound(g) == g.rounds[Len(g.rounds)]

\* The messages of handleMove, each with the fields it is sent with.
MoveReceived(g) == [event |-> "move_received", round |-> g.currentRound]

OpponentMoved == [event |-> "opponent_moved"]

RoundResultOf(g) ==
    [event |-> "round_result", roundNumber |-> LastRound(g).roundNumber,
     move |-> LastRound(g).move, winner |-> LastRound(g).winner, wins |-> g.wins]

NextRoundOf(g) == [event |-> "next_round", roundNumber |-> g.currentRound]

MatchResultOf(g) ==
    [event |-> "match_result", winner |-> g.winner, wins |-> g.wins, hash |-> g.hash]

\* Mutant of RoundResolved: without `|| room.status === 'completed'`.
RoundResolvedByNumber(g) == g.rounds # <<>> /\ LastRound(g).roundNumber = g.currentRound - 1

\* handleMove's roundResolved, read off the room and not off this call.
RoundResolved(g) ==
    \/ g.rounds # <<>> /\ LastRound(g).roundNumber = g.currentRound - 1
    \/ g.status = "completed"

\* What handleMove sends: the result to the whole room, or move_received to
\* the sender and opponent_moved to the others in the room.
Announce(g) ==
    IF ~RoundResolved(g) THEN <<MoveReceived(g), OpponentMoved>>
    ELSE IF g.status = "completed" THEN <<RoundResultOf(g), MatchResultOf(g)>>
    ELSE <<RoundResultOf(g), NextRoundOf(g)>>

\* Mutant of FinAfter: finalizeMatch is called for a win of player1 only.
FinAfterPlayer1(f, g) ==
    IF g.status = "completed" /\ g.winner = g.player["player1"] THEN "status" ELSE f

\* resolveRound calls finalizeMatch, which runs to its first await.
FinAfter(f, g) == IF g.status = "completed" THEN "status" ELSE f

HandleMove(r, u, m) ==
    /\ MayMove(rooms[r], u, m)
    /\ Len(rooms[r].rounds) < MaxRounds
    /\ LET g == Submit(rooms[r], u, m)
       IN  /\ rooms' = [rooms EXCEPT ![r] = g]
           /\ writes' = IF Len(g.rounds) = Len(rooms[r].rounds) THEN writes
                        ELSE [writes EXCEPT ![r] = @ \cup {LastRound(g)}]
           /\ fin' = [fin EXCEPT ![r] = FinAfter(@, g)]
           /\ sent' = [sent EXCEPT ![r] = @ \o Announce(g)]
    /\ UNCHANGED <<opening, match, matchMove>>

\* The matchMove.create that resolveRound does not wait for commits, or fails
\* and is only logged.
StoreRound(r, w) ==
    /\ w \in writes[r]
    /\ writes' = [writes EXCEPT ![r] = @ \ {w}]
    /\ matchMove' = [matchMove EXCEPT ![r] = @ \cup {w}]
    /\ UNCHANGED <<rooms, opening, fin, match, sent>>

LoseRound(r, w) ==
    /\ w \in writes[r]
    /\ writes' = [writes EXCEPT ![r] = @ \ {w}]
    /\ UNCHANGED <<rooms, opening, fin, match, matchMove, sent>>

----------------------------------------------------------------------------
(* finalizeMatch up to the stored result; MatchFinalization has the rest.  *)

\* Mutant of CompletedRow: the winner of the first round is stored.
CompletedRowFirstRound(r) ==
    [match[r] EXCEPT !.status = "COMPLETED", !.winner = rooms[r].rounds[1].winner]

CompletedRow(r) == [match[r] EXCEPT !.status = "COMPLETED", !.winner = rooms[r].winner]

\* The row is completed; the result hash is computed and put in the room.
FinalizeStatus(r) ==
    /\ fin[r] = "status"
    /\ match' = [match EXCEPT ![r] = CompletedRow(r)]
    /\ rooms' = [rooms EXCEPT ![r].hash = TRUE]
    /\ fin' = [fin EXCEPT ![r] = "hash"]
    /\ UNCHANGED <<opening, writes, matchMove, sent>>

FinalizeHash(r) ==
    /\ fin[r] = "hash"
    /\ match' = [match EXCEPT ![r].hash = TRUE]
    /\ fin' = [fin EXCEPT ![r] = "stored"]
    /\ UNCHANGED <<rooms, opening, writes, matchMove, sent>>

\* An awaited update throws, whether or not it committed, and finalizeMatch
\* ends: its caller only logs.
FinalizeFails(r, committed) ==
    /\ fin[r] \in {"status", "hash"}
    /\ match' = IF ~committed THEN match
                ELSE IF fin[r] = "status" THEN [match EXCEPT ![r] = CompletedRow(r)]
                ELSE [match EXCEPT ![r].hash = TRUE]
    /\ fin' = [fin EXCEPT ![r] = "failed"]
    /\ UNCHANGED <<rooms, opening, writes, matchMove, sent>>

----------------------------------------------------------------------------
(* The process stops; it restarts with no room, and resumes nothing.       *)

Crash ==
    /\ rooms' = [r \in Rooms |-> AbsentRoom]
    /\ opening' = {}
    /\ writes' = [r \in Rooms |-> {}]
    /\ fin' = [r \in Rooms |-> "idle"]
    /\ UNCHANGED <<match, matchMove, sent>>

----------------------------------------------------------------------------

Init ==
    /\ rooms = [r \in Rooms |-> AbsentRoom]
    /\ opening = {}
    /\ writes = [r \in Rooms |-> {}]
    /\ fin = [r \in Rooms |-> "idle"]
    /\ match = [r \in Rooms |-> NoRow]
    /\ matchMove = [r \in Rooms |-> {}]
    /\ sent = [r \in Rooms |-> <<>>]

Create(r) ==
    \/ \E p \in Players : InsertMatch(r, p)
    \/ \E m \in Carried(match[r].player) : OpenRoom(r, m)
    \/ CreateFails(r)

Play(r) == \E u \in Users, m \in Moves : HandleMove(r, u, m)

Persist(r) == \E w \in writes[r] : StoreRound(r, w) \/ LoseRound(r, w)

Finalize(r) ==
    \/ FinalizeStatus(r)
    \/ FinalizeHash(r)
    \/ \E committed \in BOOLEAN : FinalizeFails(r, committed)

Next ==
    \/ \E r \in Rooms : Create(r) \/ Play(r) \/ Persist(r) \/ Finalize(r)
    \/ Crash

\* Every query of finalizeMatch is answered, one way or the other, and it
\* resumes.  Players owe no move and the process owes no crash.
Fairness == \A r \in Rooms : WF_vars(Finalize(r))

Spec == Init /\ [][Next]_vars /\ Fairness

----------------------------------------------------------------------------
(* Properties.                                                             *)

ResultOf(rd) == RoundResult(rd.move["player1"], rd.move["player2"])

\* The rounds among the first n that the moves give to side s.
WonUpTo(g, s, n) == {i \in 1..n : ResultOf(g.rounds[i]) = s}

RoundsWon(g, s) == WonUpTo(g, s, Len(g.rounds))

Present(r) == rooms[r].status # "absent"

RoomType ==
    [player : [Sides -> Users \cup {NoUser}], status : {"absent", "in_progress", "completed"},
     move : [Sides -> Cell], rounds : Seq(Round), currentRound : Nat,
     wins : [Sides -> 0..2], winner : Users \cup {NoUser}, hash : BOOLEAN]

RowType ==
    [status : {"none", "IN_PROGRESS", "COMPLETED"}, player : [Sides -> Users \cup {NoUser}],
     winner : Users \cup {NoUser}, hash : BOOLEAN]

EventType ==
    [event : {"move_received"}, round : Nat]
      \cup [event : {"opponent_moved"}]
      \cup [event : {"round_result"}, roundNumber : Nat, move : [Sides -> Moves],
            winner : Users \cup {NoUser}, wins : [Sides -> 0..2]]
      \cup [event : {"next_round"}, roundNumber : Nat]
      \cup [event : {"match_result"}, winner : Users \cup {NoUser}, wins : [Sides -> 0..2],
            hash : BOOLEAN]

\* The shape of every variable; no score ever passes two.
TypeOK ==
    /\ rooms \in [Rooms -> RoomType]
    /\ opening \in SUBSET Rooms
    /\ writes \in [Rooms -> SUBSET Round]
    /\ fin \in [Rooms -> {"idle", "status", "hash", "stored", "failed"}]
    /\ match \in [Rooms -> RowType]
    /\ matchMove \in [Rooms -> SUBSET Round]
    /\ sent \in [Rooms -> Seq(EventType)]

\* The counters, the round number and the history of one room agree.
ScoreOK(g) ==
    /\ \A i \in DOMAIN g.rounds :
         /\ g.rounds[i].roundNumber = i
         /\ g.rounds[i].winner = UserOf(g, ResultOf(g.rounds[i]))
    /\ \A s \in Sides : g.wins[s] = Cardinality(RoundsWon(g, s))
    /\ g.currentRound = Len(g.rounds) + (IF g.status = "in_progress" THEN 1 ELSE 0)

\* The two counters, the round number and the history, which resolveRound
\* updates one by one (game.service.ts:141-175), always tell the same story:
\* each counter is the number of rounds whose moves its side won, the winner
\* written for a round is that side's user, draws count for none, rounds are
\* numbered without gaps.
ScoreMatchesRounds == \A r \in Rooms : Present(r) => ScoreOK(rooms[r])

\* The score decides whether the match is over, and for whom.
VerdictOK(g) ==
    /\ g.status = "in_progress" => g.winner = NoUser /\ \A s \in Sides : g.wins[s] < 2
    /\ g.status = "completed" =>
         \E s \in Sides :
            /\ g.wins[s] = 2 /\ g.wins[Opponent(s)] < 2
            /\ g.winner = g.player[s]
            /\ LastRound(g).winner = g.winner

\* A match is over exactly when one side has two wins and the other at most
\* one, that side is its winner, and it won the last round: "Best of 3 (first
\* to 2 wins)" (rps.engine.ts:25), however many rounds are drawn.
VerdictMatchesScore == \A r \in Rooms : Present(r) => VerdictOK(rooms[r])

StoredWins(r, u) == {w \in matchMove[r] : w.winner = u}

\* What replay and verify read from the tables never contradicts itself, in
\* whatever order the round rows commit, with any of them lost, and across
\* crashes: the winner of a COMPLETED row played in it, and nobody else has
\* more than one stored round.
StoredRoundsBackVerdict ==
    \A r \in Rooms : match[r].status = "COMPLETED" =>
        /\ match[r].winner \in {match[r].player[s] : s \in Sides}
        /\ \A u \in Users \ {match[r].winner} : Cardinality(StoredWins(r, u)) <= 1

\* A round_result is what happened in its round: the moves and the winner of
\* the history, and the score as it stood after that round.
TrueResult(g, e) ==
    /\ e.roundNumber \in DOMAIN g.rounds
    /\ e.move = g.rounds[e.roundNumber].move
    /\ e.winner = g.rounds[e.roundNumber].winner
    /\ \A s \in Sides : e.wins[s] = Cardinality(WonUpTo(g, s, e.roundNumber))

Told(log, e) == \E i \in DOMAIN log : log[i].event = e

ToldRound(log, e, n) == \E i \in DOMAIN log : log[i].event = e /\ log[i].roundNumber = n

\* Every result told is that of its round, and none comes after a later one.
ResultsTrue(g, log) ==
    \A i \in DOMAIN log : log[i].event = "round_result" =>
        /\ TrueResult(g, log[i])
        /\ \A j \in i..Len(log) : log[j].event = "round_result" =>
              log[i].roundNumber <= log[j].roundNumber

RoundsTold(g, log) == \A n \in DOMAIN g.rounds : ToldRound(log, "round_result", n)

\* The latest round a client was told to play is the room's.
NextTold(g, log) ==
    /\ \A i \in DOMAIN log : log[i].event = "next_round" => log[i].roundNumber <= g.currentRound
    /\ g.status = "in_progress" /\ g.currentRound > 1 =>
         ToldRound(log, "next_round", g.currentRound)

\* The end is told exactly when the match is over, last, and as it is.
EndTold(g, log) ==
    /\ g.status = "completed" => Told(log, "match_result")
    /\ \A i \in DOMAIN log : log[i].event = "match_result" =>
         i = Len(log) /\ g.status = "completed" /\ log[i].winner = g.winner /\ log[i].wins = g.wins

Truthful(g, log) ==
    ResultsTrue(g, log) /\ RoundsTold(g, log) /\ NextTold(g, log) /\ EndTold(g, log)

\* What a client that replays the messages of a room believes is the truth,
\* though some are sent twice: every result is that of its round, no round is
\* missing and none is told after a later one; the next round it was told to
\* play is the room's; and it was told of the end, last of all, exactly when
\* the match is over, with the room's winner and score.
BroadcastsTellTheRoom == \A r \in Rooms : Present(r) => Truthful(rooms[r], sent[r])

\* Some player's next move would be accepted.
Playable(g) == \E u \in Users, m \in Moves : MayMove(g, u, m)

\* Play locks no room: where one of two users could move, one of them can
\* after every step, until the match is over.  (A room is born locked when
\* both objects carry a move, and who plays himself is locked by his first
\* move: see the README.)
PlayLocksNoRoom ==
    [][\A r \in Rooms :
        /\ Playable(rooms[r]) /\ ~OneUser(rooms[r].player)
        /\ rooms'[r].status = "in_progress"
        => Playable(rooms'[r])]_vars

\* Commit before reveal: a move in its cell is not replaced; it waits, and the
\* round is resolved with it (game.service.ts:119-129).
CommittedMoveStands ==
    [][\A r \in Rooms, s \in Sides :
        rooms[r].status = "in_progress" /\ rooms[r].move[s] # NoMove =>
            \/ rooms'[r].status = "absent"
            \/ rooms'[r].rounds = rooms[r].rounds /\ rooms'[r].move[s] = rooms[r].move[s]
            \/ /\ Len(rooms'[r].rounds) = Len(rooms[r].rounds) + 1
               /\ LastRound(rooms'[r]).move[s] = rooms[r].move[s]]_vars

\* A verdict is final: once a match is over its rounds, score and winner do
\* not change while the room exists, and a COMPLETED row keeps its winner for
\* ever, through late round writes, failed updates and restarts.
VerdictStands ==
    [][\A r \in Rooms :
        /\ rooms[r].status = "completed" =>
             \/ rooms'[r].status = "absent"
             \/ [rooms'[r] EXCEPT !.hash = FALSE] = [rooms[r] EXCEPT !.hash = FALSE]
        /\ match[r].status = "COMPLETED" =>
             match'[r].status = "COMPLETED" /\ match'[r].winner = match[r].winner]_vars

\* A finished match reaches the table, unless its finalizeMatch fails or the
\* process stops first: `Always update match record` (game.service.ts:189).
FinishedMatchIsStored ==
    \A r \in Rooms :
        rooms[r].status = "completed" ~>
            match[r].status = "COMPLETED" \/ fin[r] = "failed" \/ ~Present(r)

\* A round_result says that a round was just resolved (`Both players moved.
\* Round resolved`, FRONTEND_INTEGRATION.md:730): no round is announced twice.
\* The code does not keep this; see the README.
RoundAnnouncedOnce ==
    \A r \in Rooms : \A i, j \in DOMAIN sent[r] :
        /\ sent[r][i].event = "round_result" /\ sent[r][j].event = "round_result"
        /\ sent[r][i].roundNumber = sent[r][j].roundNumber
        => i = j

----------------------------------------------------------------------------
(* Refinement: a GameRoom is a best of three.  The durable row decides     *)
(* whether the match is recorded; until then memory decides.               *)

PhaseOf(r) ==
    IF match[r].status = "COMPLETED" THEN "recorded"
    ELSE IF rooms[r].status = "in_progress" THEN "playing"
    ELSE IF rooms[r].status = "completed" THEN "decided"
    ELSE IF match[r].status = "none" \/ r \in opening THEN "idle"
    ELSE "void"

SideNamed(players, u) ==
    IF u # NoUser /\ \E s \in Sides : players[s] = u
    THEN CHOOSE s \in Sides : players[s] = u ELSE "none"

ScoreOf(r) == IF PhaseOf(r) \in {"playing", "decided"} THEN rooms[r].wins ELSE [s \in Sides |-> 0]

WinnerOf(r) ==
    IF PhaseOf(r) = "decided" THEN SideNamed(rooms[r].player, rooms[r].winner)
    ELSE IF PhaseOf(r) = "recorded" THEN SideNamed(match[r].player, match[r].winner)
    ELSE "none"

phaseBar == [r \in Rooms |-> PhaseOf(r)]
scoreBar == [r \in Rooms |-> ScoreOf(r)]
winnerBar == [r \in Rooms |-> WinnerOf(r)]

Promise == INSTANCE BestOfThree WITH
    phase <- phaseBar, score <- scoreBar, winner <- winnerBar

\* The detailed match keeps the promise of BestOfThree: a recorded verdict is
\* that of a side that scored two points before the other did.
ImplementsBestOfThree == Promise!Spec

=============================================================================
