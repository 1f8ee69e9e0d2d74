----------------------------- MODULE SquadArena -----------------------------
(***************************************************************************)
(* The king-of-the-hill queue of one squad: SquadGateway, with what it     *)
(* calls of GameService (createRoom, submitMove, the end of finalizeMatch) *)
(* when the rooms are opened by it, and game:reconnect of GameGateway.     *)
(*                                                                         *)
(* An action is the code between two awaits.  createRoom stores in the     *)
(* room the very objects that wait in the queue, and submitMove writes the *)
(* pending move and game:reconnect the new socket into them: `entry` is    *)
(* the heap of those objects and `cell[e]` is the move field of object e,  *)
(* reduced to the room in which the move was submitted (0: no move).  What *)
(* a round decides is left open: GameRoom has the rules.                   *)
(*                                                                         *)
(* All of this is memory: when the process exits it restarts at Init, and  *)
(* the sockets that connect are new ones.                                  *)
(***************************************************************************)
EXTENDS RpsEngine, Sequences, FiniteSets

CONSTANTS
    Users,      \* members of the squad
    Sockets,    \* client sockets; a socket never reconnects under its id
    owner,      \* the user whose client holds each socket
    Verified,   \* users with a verified wallet
    Joiners,    \* bound: the sockets that ask to join
    MaxJoins,   \* bound: requests to join that one socket has under way
    MaxEntries, \* bound: queue entries made and joins under way
    MaxRooms,   \* bound: no socket disconnects once so many rooms were opened
    MaxPlayed   \* bound: rooms numbered above it take no move

ASSUME SquadArenaAssumption ==
    /\ owner \in [Sockets -> Users]
    /\ Verified \in SUBSET Users
    /\ Joiners \in SUBSET Sockets
    /\ MaxJoins \in Nat
    /\ MaxEntries \in Nat
    /\ MaxRooms \in Nat
    /\ MaxPlayed \in Nat

VARIABLES
    gone,     \* sockets that have disconnected
    tracked,  \* socketToSquad: sockets whose disconnection the gateway handles
    joining,  \* how many handleJoinQueue of each socket wait for the database
    entry,    \* the SquadQueueEntry objects, in the order of their creation
    cell,     \* the room of the pending move of each object, 0 if none
    arena,    \* the SquadGameState
    rooms     \* the rooms this gateway opened, in the order of the calls

vars == <<gone, tracked, joining, entry, cell, arena, rooms>>

None == 0   \* no entry, no room, no move

EmptyArena ==
    [champion |-> None, challenger |-> None, queue |-> <<>>, room |-> None, inProgress |-> FALSE]

\* The room of one createRoom; `caught` says whether a rejection is caught, and
\* `before`, once it has resolved, which calls had done so by then: the order of
\* the Map.
NewRoom(a, caught) ==
    [seat |-> [s \in Sides |-> IF s = "player1" THEN a.champion ELSE a.challenger],
     status |-> "creating", wins |-> [s \in Sides |-> 0], caught |-> caught, before |-> {}]

UserAt(e) == entry[e].user
Holds(e, s) == e # None /\ entry[e].socket = s
Waiting == {arena.queue[k] : k \in DOMAIN arena.queue}
Playing == {arena.champion, arena.challenger} \ {None}

----------------------------------------------------------------------------
(* The queue logic.  It runs without an await, so it is a function of the  *)
(* arena and the rooms, w == [arena |-> ..., rooms |-> ...].               *)

World == [arena |-> arena, rooms |-> rooms]

\* startSquadMatch up to the await of createRoom.
StartMatch(w, caught) ==
    [arena |-> [w.arena EXCEPT !.inProgress = TRUE],
     rooms |-> Append(w.rooms, NewRoom(w.arena, caught))]

\* The champion c faces d, and q goes on waiting.
Pair(w, c, d, q, caught) ==
    StartMatch([w EXCEPT !.arena.champion = c, !.arena.challenger = d, !.arena.queue = q], caught)

\* Mutant of TryStart: the match of a new champion waits for another player.
TryStartAlone(w, caught) ==
    LET q == w.arena.queue
        c == w.arena.champion
    IN  CASE ~w.arena.inProgress /\ c = None /\ Len(q) >= 2 ->
               [w EXCEPT !.arena.champion = q[1], !.arena.queue = Tail(q)]
          [] ~w.arena.inProgress /\ c # None /\ Len(q) >= 1 -> Pair(w, c, q[1], Tail(q), caught)
          [] OTHER -> w

\* Mutant of TryStart: the challenger is taken from the back of the queue.
TryStartLast(w, caught) ==
    LET q == w.arena.queue
        c == w.arena.champion
    IN  CASE ~w.arena.inProgress /\ c = None /\ Len(q) >= 2 ->
               Pair(w, q[1], q[2], SubSeq(q, 3, Len(q)), caught)
          [] ~w.arena.inProgress /\ c # None /\ Len(q) >= 1 ->
               Pair(w, c, q[Len(q)], SubSeq(q, 1, Len(q) - 1), caught)
          [] OTHER -> w

\* tryStartMatch: two from the queue, or one to face the champion.
TryStart(w, caught) ==
    LET q == w.arena.queue
        c == w.arena.champion
    IN  CASE ~w.arena.inProgress /\ c = None /\ Len(q) >= 2 ->
               Pair(w, q[1], q[2], SubSeq(q, 3, Len(q)), caught)
          [] ~w.arena.inProgress /\ c # None /\ Len(q) >= 1 -> Pair(w, c, q[1], Tail(q), caught)
          [] OTHER -> w

Freed(a) == [a EXCEPT !.inProgress = FALSE, !.room = None, !.challenger = None]

\* Mutant of Settle: a beaten challenger is not put back into the queue.
SettleDropping(a, u) ==
    IF u = UserAt(a.champion) THEN Freed(a)
    ELSE [Freed(a) EXCEPT !.champion = a.challenger, !.queue = Append(@, a.champion)]

\* Mutant of Settle: a challenger's win empties the throne, as a draw would.
SettleAsDraw(a, u) ==
    IF u = UserAt(a.champion) THEN [Freed(a) EXCEPT !.queue = Append(@, a.challenger)]
    ELSE [Freed(a) EXCEPT !.champion = None, !.queue = @ \o <<a.champion, a.challenger>>]

\* The winner is champion, the loser goes to the back.  (handleMatchEnd has a
\* branch for a draw, but every match that ends has a winner: VerdictOK in
\* GameRoom, and both forfeits name one.)
Settle(a, u) ==
    IF u = UserAt(a.champion) THEN [Freed(a) EXCEPT !.queue = Append(@, a.challenger)]
    ELSE [Freed(a) EXCEPT !.champion = a.challenger, !.queue = Append(@, a.champion)]

\* handleMatchEnd with the winner u.
MatchEnd(w, u, caught) ==
    IF w.arena.champion = None \/ w.arena.challenger = None THEN w
    ELSE TryStart([w EXCEPT !.arena = Settle(w.arena, u)], caught)

\* `If champion disconnects mid-match, forfeit`
ChampionForfeits(w, s) ==
    IF Holds(w.arena.champion, s) /\ w.arena.inProgress /\ w.arena.challenger # None
    THEN MatchEnd(w, UserAt(w.arena.challenger), FALSE) ELSE w

\* `If challenger disconnects mid-match, forfeit`
ChallengerForfeits(w, s) ==
    IF Holds(w.arena.challenger, s) /\ w.arena.inProgress /\ w.arena.champion # None
    THEN MatchEnd(w, UserAt(w.arena.champion), FALSE) ELSE w

FirstOf(q, s) ==
    CHOOSE k \in DOMAIN q : Holds(q[k], s) /\ \A j \in 1..(k - 1) : ~Holds(q[j], s)

\* handlePlayerDisconnect: out of the queue, or forfeit.  The second forfeit
\* looks at the challenger that the first one may just have seated.
PlayerDisconnect(w, s) ==
    LET q == w.arena.queue
        k == FirstOf(q, s)
    IN  IF \E j \in DOMAIN q : Holds(q[j], s)
        THEN [w EXCEPT !.arena.queue = SubSeq(q, 1, k - 1) \o SubSeq(q, k + 1, Len(q))]
        ELSE ChallengerForfeits(ChampionForfeits(w, s), s)

Becomes(w) == arena' = w.arena /\ rooms' = w.rooms

----------------------------------------------------------------------------
(* Joining and leaving.                                                    *)

JoinsUnderWay == Cardinality({t \in Sockets \X (1..MaxJoins) : t[2] <= joining[t[1]]})

\* squad:join_queue asks whether the user is a member, then for its wallet.
JoinStart(s) ==
    /\ s \in Joiners \ gone
    /\ joining[s] < MaxJoins /\ Len(entry) + JoinsUnderWay < MaxEntries
    /\ joining' = [joining EXCEPT ![s] = @ + 1]
    /\ UNCHANGED <<gone, tracked, entry, cell, arena, rooms>>

\* Not a member, or a query throws.
JoinFails(s) ==
    /\ joining[s] > 0
    /\ joining' = [joining EXCEPT ![s] = @ - 1]
    /\ UNCHANGED <<gone, tracked, entry, cell, arena, rooms>>

\* Mutant of AlreadyIn: only the queue is searched.
AlreadyQueued(u) == \E e \in Waiting : UserAt(e) = u

AlreadyIn(u) == \E e \in Waiting \cup Playing : UserAt(e) = u

\* The answers have come: everything from here to createRoom is one step.
\* The socket may be gone by now.
Join(s) ==
    /\ joining[s] > 0
    /\ joining' = [joining EXCEPT ![s] = @ - 1]
    /\ IF AlreadyIn(owner[s]) THEN UNCHANGED <<tracked, entry, cell, arena, rooms>>
       ELSE /\ entry' = Append(entry, [user |-> owner[s], socket |-> s])
            /\ cell' = Append(cell, None)
            /\ tracked' = tracked \cup {s}
            /\ Becomes(TryStart([World EXCEPT !.arena.queue = Append(@, Len(entry) + 1)], TRUE))
    /\ UNCHANGED gone

\* The queue q without the entries of u, in the order of the others.
Without(q, u) ==
    LET kept == {k \in DOMAIN q : UserAt(q[k]) # u}
    IN  [n \in 1..Cardinality(kept) |-> q[CHOOSE k \in kept : Cardinality(kept \cap 1..k) = n]]

\* squad:leave_queue: the user leaves the queue (not a seat), and this socket
\* is no longer tracked, whichever socket the user had joined from.
Leave(s) ==
    /\ s \notin gone
    /\ arena' = [arena EXCEPT !.queue = Without(@, owner[s])]
    /\ tracked' = tracked \ {s}
    /\ UNCHANGED <<gone, joining, entry, cell, rooms>>

Forfeit(s) == Becomes(PlayerDisconnect(World, s))

Disconnect(s) ==
    /\ s \notin gone
    /\ Len(rooms) < MaxRooms
    /\ gone' = gone \cup {s}
    /\ tracked' = tracked \ {s}
    /\ IF s \in tracked THEN Forfeit(s) ELSE UNCHANGED <<arena, rooms>>
    /\ UNCHANGED <<joining, entry, cell>>

----------------------------------------------------------------------------
(* The rooms.                                                              *)

\* The rooms of the Map, and maybe some that never came to be.
Opened == {j \in DOMAIN rooms : rooms[j].status # "creating"}

\* createRoom resolves; startSquadMatch makes the room current, whatever has
\* become of the arena since.
StartDone(i) ==
    /\ rooms[i].status = "creating"
    /\ rooms' = [rooms EXCEPT ![i].status = "in_progress", ![i].before = Opened]
    /\ arena' = [arena EXCEPT !.room = i]
    /\ UNCHANGED <<gone, tracked, joining, entry, cell>>

Restart ==
    /\ gone' = {} /\ tracked' = {} /\ joining' = [s \in Sockets |-> 0]
    /\ entry' = <<>> /\ cell' = <<>> /\ rooms' = <<>>
    /\ arena' = EmptyArena

\* createRoom rejects.  handleJoinQueue and finalizeMatch catch it, and the
\* arena stays in progress; handlePlayerDisconnect does not await
\* handleMatchEnd, and the unhandled rejection ends the process.
StartFails(i) ==
    /\ rooms[i].status = "creating"
    /\ IF rooms[i].caught
       THEN rooms' = [rooms EXCEPT ![i].status = "failed"]
            /\ UNCHANGED <<gone, tracked, joining, entry, cell, arena>>
       ELSE Restart

ActiveRooms(u) ==
    {i \in DOMAIN rooms : /\ rooms[i].status = "in_progress"
                          /\ \E s \in Sides : UserAt(rooms[i].seat[s]) = u}

\* The seat of u in room i, player1 first.
SeatOf(i, u) ==
    IF UserAt(rooms[i].seat["player1"]) = u THEN rooms[i].seat["player1"] ELSE rooms[i].seat["player2"]

\* Mutant of Reconnect: player1's object gets the socket, whoever comes back.
ReconnectOther(s) ==
    /\ s \notin gone
    /\ \E i \in ActiveRooms(owner[s]) :
          /\ rooms[i].before \cap ActiveRooms(owner[s]) = {}
          /\ entry' = [entry EXCEPT ![rooms[i].seat["player1"]].socket = s]
    /\ UNCHANGED <<gone, tracked, joining, cell, arena, rooms>>

\* game:reconnect puts the socket into the object in the seat, which is the
\* object of the arena; whether it is tracked is left as it is.  (If a room of
\* another gateway comes first in the Map, nothing happens here.)
Reconnect(s) ==
    /\ s \notin gone
    /\ \E i \in ActiveRooms(owner[s]) :
          /\ rooms[i].before \cap ActiveRooms(owner[s]) = {}
          /\ entry' = [entry EXCEPT ![SeatOf(i, owner[s])].socket = s]
    /\ UNCHANGED <<gone, tracked, joining, cell, arena, rooms>>

SideAt(i, e) == CHOOSE s \in Sides : rooms[i].seat[s] = e

OtherAt(i, e) == rooms[i].seat[Opponent(SideAt(i, e))]

\* Mutant of MayMove: neither the status nor the pending move is looked at.
MayMoveAnyTime(i, e) == rooms[i].status # "creating" /\ \E s \in Sides : rooms[i].seat[s] = e

MayMove(i, e) ==
    /\ rooms[i].status = "in_progress"
    /\ \E s \in Sides : rooms[i].seat[s] = e
    /\ cell[e] = None

\* The first move of a round waits in the object of its player.
FirstMove(i, e) ==
    /\ cell[OtherAt(i, e)] = None
    /\ cell' = [cell EXCEPT ![e] = i]
    /\ rooms' = rooms

\* The round is resolved: the moves are cleared, except by the last round.
SecondMove(i, e, result) ==
    LET wins == [s \in Sides |-> rooms[i].wins[s] + (IF s = result THEN 1 ELSE 0)]
        over == MatchResult(wins["player1"], wins["player2"]).isComplete
    IN  /\ cell[OtherAt(i, e)] # None
        /\ cell' = IF over THEN [cell EXCEPT ![e] = i]
                   ELSE [cell EXCEPT ![e] = None, ![OtherAt(i, e)] = None]
        /\ rooms' = [rooms EXCEPT ![i].wins = wins,
                                  ![i].status = IF over THEN "finalizing" ELSE @]

\* game:move of a player who still has a client.
SubmitMove(i, e) ==
    /\ i <= MaxPlayed
    /\ MayMove(i, e)
    /\ \E s \in Sockets \ gone : owner[s] = UserAt(e)
    /\ FirstMove(i, e) \/ \E result \in Sides \cup {"draw"} : SecondMove(i, e, result)
    /\ UNCHANGED <<gone, tracked, joining, entry, arena>>

WinnerOf(i) ==
    UserAt(rooms[i].seat[MatchResult(rooms[i].wins["player1"], rooms[i].wins["player2"]).winner])

\* anyWalletConnected
Ranked(i) == \E s \in Sides : UserAt(rooms[i].seat[s]) \in Verified

\* Mutant of NotifyMatchEnd: the winner is told, but the arena is not freed.
NotifyNobody(i) ==
    /\ rooms[i].status = "finalizing" /\ Ranked(i)
    /\ rooms' = [rooms EXCEPT ![i].status = "finalized"]
    /\ UNCHANGED <<gone, tracked, joining, entry, cell, arena>>

\* finalizeMatch reaches its end and tells the squad of the room, if any has
\* it as its current one.
NotifyMatchEnd(i) ==
    /\ rooms[i].status = "finalizing" /\ Ranked(i)
    /\ LET w == [World EXCEPT !.rooms[i].status = "finalized"]
       IN  Becomes(IF arena.room = i THEN MatchEnd(w, WinnerOf(i), TRUE) ELSE w)
    /\ UNCHANGED <<gone, tracked, joining, entry, cell>>

\* `Practice mode`: finalizeMatch returns before it would notify the squad.
FinalizePractice(i) ==
    /\ rooms[i].status = "finalizing" /\ ~Ranked(i)
    /\ rooms' = [rooms EXCEPT ![i].status = "finalized"]
    /\ UNCHANGED <<gone, tracked, joining, entry, cell, arena>>

\* A query of finalizeMatch throws; the error is logged and nobody notified.
FinalizeFails(i) ==
    /\ rooms[i].status = "finalizing"
    /\ rooms' = [rooms EXCEPT ![i].status = "failed"]
    /\ UNCHANGED <<gone, tracked, joining, entry, cell, arena>>

----------------------------------------------------------------------------

Init ==
    /\ gone = {} /\ tracked = {} /\ joining = [s \in Sockets |-> 0]
    /\ entry = <<>> /\ cell = <<>> /\ rooms = <<>>
    /\ arena = EmptyArena

Finalize(i) == NotifyMatchEnd(i) \/ FinalizePractice(i) \/ FinalizeFails(i)

Next ==
    \/ \E s \in Sockets : JoinStart(s) \/ JoinFails(s) \/ Join(s) \/ Leave(s) \/ Disconnect(s)
    \/ \E s \in Sockets : Reconnect(s)
    \/ \E i \in DOMAIN rooms : StartDone(i) \/ StartFails(i) \/ Finalize(i)
    \/ \E i \in DOMAIN rooms, e \in DOMAIN entry : SubmitMove(i, e)

\* finalizeMatch runs to its end: its queries are answered or fail.
Fairness == \A i \in 1..MaxPlayed : WF_vars(i \in DOMAIN rooms /\ Finalize(i))

Spec == Init /\ [][Next]_vars /\ Fairness

----------------------------------------------------------------------------
(* Properties.                                                             *)

TypeOK ==
    /\ gone \in SUBSET Sockets /\ tracked \in SUBSET Sockets /\ joining \in [Sockets -> Nat]
    /\ entry \in Seq([user : Users, socket : Sockets])
    /\ rooms \in Seq([seat : [Sides -> DOMAIN entry], wins : [Sides -> 0..2], caught : BOOLEAN,
                      before : SUBSET Nat,
                      status : {"creating", "in_progress", "finalizing", "finalized", "failed"}])
    /\ cell \in [DOMAIN entry -> {None} \cup DOMAIN rooms]
    /\ arena \in [champion : {None} \cup DOMAIN entry, challenger : {None} \cup DOMAIN entry,
                  queue : Seq(DOMAIN entry), room : {None} \cup DOMAIN rooms, inProgress : BOOLEAN]

\* Nobody is in the arena twice, from however many sockets a user joins at the
\* same time: the `already in the queue or playing` check comes after the two
\* awaits (squad.gateway.ts:116-134).
OneSeatPerUser ==
    /\ \A j, k \in DOMAIN arena.queue : UserAt(arena.queue[j]) = UserAt(arena.queue[k]) => j = k
    /\ \A e \in Waiting, p \in Playing : UserAt(e) # UserAt(p)
    /\ None \in {arena.champion, arena.challenger}
       \/ UserAt(arena.champion) # UserAt(arena.challenger)

\* At rest, either nobody plays and at most one waits, or a champion faces a
\* challenger: no champion sits alone, no two wait beside an empty arena, and
\* startSquadMatch never finds a seat empty when it resumes from createRoom
\* (squad.gateway.ts:253-258 dereferences both).
ArenaShape ==
    \/ Playing = {} /\ ~arena.inProgress /\ Len(arena.queue) <= 1
    \/ arena.champion # None /\ arena.challenger # None /\ arena.inProgress

\* Nobody drops out of the arena but from the queue, and by leaving or by the
\* loss of a socket of its own; a match end, a forfeit or another user's join
\* loses no one.
NobodyVanishes ==
    [][\A e \in Waiting \cup Playing :
        \/ e \in (Waiting \cup Playing)'
        \/ e \in Waiting /\ \E s \in Sockets : owner[s] = UserAt(e) /\ (Leave(s) \/ Disconnect(s))
        \/ Restart]_vars

Before(q, e, f) == \E j, k \in DOMAIN q : j < k /\ q[j] = e /\ q[k] = f

\* First come, first served: no step makes one who waits overtake another, and
\* no match starts with a challenger who was not waiting before all those who
\* go on waiting, such as the loser of the match just ended.
QueueIsFair ==
    [][\A e \in Waiting :
        /\ \A f \in Waiting : Before(arena.queue, e, f) => ~Before(arena'.queue, f, e)
        /\ e \in Waiting' => \A i \in DOMAIN rooms' \ DOMAIN rooms :
                                Before(arena.queue, rooms'[i].seat["player2"], e)]_vars

\* The arena as the one line it is meant to be, by users.
Line ==
    (IF arena.champion = None THEN <<>> ELSE <<arena.champion, arena.challenger>>) \o arena.queue

lineBar == [k \in DOMAIN Line |-> UserAt(Line[k])]

Promise == INSTANCE KingOfTheHill WITH Players <- Users, line <- lineBar

\* However match ends, forfeits, late joins and departures follow each other,
\* and however many of them one call runs through, a step of the gateway is one
\* step of a king-of-the-hill line: somebody comes to its end, somebody who
\* waits leaves, one of the first two loses, or nothing has happened
\* (squad.gateway.ts:301-370 and 394-424).  So the throne passes to the
\* challenger or not at all.
ImplementsKingOfTheHill == Promise!Spec

\* When the socket that a seat now has disconnects and is tracked, its player
\* does not come out of the match as the champion, and its opponent does:
\* `Challenger wins by default`, `Champion wins by default`
\* (squad.gateway.ts:407-423), even when the first forfeit seats the same player
\* again, and whichever of its sockets game:reconnect has put into the seat.
\* (The socket of leave_queue and the new one of game:reconnect are not tracked:
\* their loss is no forfeit.)
QuitterLoses ==
    [][\A s \in tracked, e \in Playing :
        Holds(e, s) /\ Disconnect(s) => arena'.champion \in Playing \ {e}]_vars

\* The end of a match between players of whom one has a wallet frees the
\* arena, unless finalizeMatch fails.
RankedMatchReleases ==
    \A i \in 1..MaxPlayed :
        (i \in DOMAIN rooms /\ rooms[i].status = "finalizing" /\ Ranked(i) /\ arena.room = i)
            ~> (i \notin DOMAIN rooms \/ arena.room # i \/ rooms[i].status = "failed")

\* The moves of a round are submitted in its room (`Player submits their move
\* for the current round`, game.gateway.ts:41).  The code does not keep this;
\* see the README.
RoundUsesItsMoves ==
    [][\A i \in DOMAIN rooms, e \in DOMAIN entry :
        SubmitMove(i, e) => cell[OtherAt(i, e)] \in {None, i}]_vars

\* `Winner becomes/stays champion` (squad.gateway.ts:303).  The code does not
\* keep this; see the README.
WinnerIsChampion ==
    [][\A i \in DOMAIN rooms :
        NotifyMatchEnd(i) /\ arena.room = i => entry[arena'.champion].user = WinnerOf(i)]_vars

\* A match that is over is not the current one: notifyMatchEnd is `to be
\* called by GameService when a match ends` (squad.gateway.ts:427).  The code
\* does not keep this; see the README.
EndedMatchIsReleased ==
    \A i \in DOMAIN rooms : rooms[i].status = "finalized" => arena.room # i

=============================================================================
