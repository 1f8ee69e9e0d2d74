------------------------------- MODULE Lobby -------------------------------
(***************************************************************************)
(* How players come to a room: MatchmakingGateway and MatchmakingService,  *)
(* the online map of FriendService, and game:invite_accept, game:reconnect *)
(* and spectate:join of GameGateway, with chat:join of ChatGateway.        *)
(*                                                                         *)
(* An action is the code between two awaits.  What happens in a room is    *)
(* GameRoom's affair: here it only ends.  All of this is memory, and a     *)
(* crash takes it back to Init.                                            *)
(***************************************************************************)
EXTENDS RpsEngine, Sequences, FiniteSets

CONSTANTS
    Users,     \* user ids
    Sockets,   \* client sockets; a socket never reconnects under its id
    owner,     \* the user whose client holds each socket
    NoSocket,  \* undefined where a socket id may stand
    MaxRooms   \* bound: no player joins or accepts once so many rooms were asked for

ASSUME LobbyAssumption ==
    /\ owner \in [Sockets -> Users]
    /\ NoSocket \notin Sockets
    /\ MaxRooms \in Nat

VARIABLES
    gone,     \* sockets that have disconnected
    tracked,  \* socketToUser of MatchmakingGateway, whose values are owner's
    online,   \* onlineUsers of FriendService
    queue,    \* the queue of MatchmakingService
    rooms,    \* the rooms asked for, in the order of the calls
    opened    \* the rooms in the order in which GameService.rooms got them

vars == <<gone, tracked, online, queue, rooms, opened>>

\* A call of tryMatch or handleInviteAccept from its first await on: `by` says
\* which; `joined` is who is in the Socket.IO room.
NewRoom(p1, p2, by) ==
    [by |-> by,
     player |-> [s \in Sides |-> IF s = "player1" THEN owner[p1] ELSE owner[p2]],
     socket |-> [s \in Sides |-> IF s = "player1" THEN p1 ELSE p2],
     status |-> "creating", joined |-> {}]

Queued(u) == \E k \in DOMAIN queue : owner[queue[k]] = u

----------------------------------------------------------------------------
(* Matchmaking.  A queue entry is the socket that joined, for its user.    *)

\* Mutant of JoinQueue: an entry of the same user is not looked for.
JoinQueueTwice(s) == Append(queue, s)

\* joinQueue
JoinQueue(s) == IF Queued(owner[s]) THEN queue ELSE Append(queue, s)

\* Mutant of EnoughToMatch: a third player is waited for.
EnoughForThree(q) == Len(q) > 2

EnoughToMatch(q) == Len(q) >= 2

\* tryMatch takes two from the queue and waits for the database.
TryMatch(q) ==
    IF EnoughToMatch(q)
    THEN queue' = SubSeq(q, 3, Len(q)) /\ rooms' = Append(rooms, NewRoom(q[1], q[2], "match"))
    ELSE queue' = q /\ rooms' = rooms

\* matchmaking:join
Join(s) ==
    /\ s \notin gone /\ Len(rooms) < MaxRooms
    /\ tracked' = tracked \cup {s}
    /\ online' = [online EXCEPT ![owner[s]] = s]
    /\ TryMatch(JoinQueue(s))
    /\ UNCHANGED <<gone, opened>>

\* Mutant of LeaveQueue: the head of the queue leaves.
LeaveQueueHead(u) == IF queue = <<>> THEN queue ELSE Tail(queue)

\* leaveQueue removes the first entry of the user.
LeaveQueue(u) ==
    LET mine == {k \in DOMAIN queue : owner[queue[k]] = u}
    IN  IF mine = {} THEN queue
        ELSE LET k == CHOOSE i \in mine : \A j \in mine : i <= j
             IN  SubSeq(queue, 1, k - 1) \o SubSeq(queue, k + 1, Len(queue))

\* matchmaking:cancel
Cancel(s) ==
    /\ s \notin gone
    /\ queue' = LeaveQueue(owner[s])
    /\ UNCHANGED <<gone, tracked, online, rooms, opened>>

\* Mutants of Forget: the user stays in the queue; the user stays online.
ForgetNotQueue(s) == queue' = queue /\ online' = [online EXCEPT ![owner[s]] = NoSocket]
ForgetNotOnline(s) == queue' = LeaveQueue(owner[s]) /\ online' = online

\* A tracked socket takes its user out of the queue and offline, even if the
\* user is there with another socket.
Forget(s) == queue' = LeaveQueue(owner[s]) /\ online' = [online EXCEPT ![owner[s]] = NoSocket]

\* handleDisconnect; Socket.IO takes the socket out of its rooms.
Disconnect(s) ==
    /\ s \notin gone
    /\ gone' = gone \cup {s}
    /\ tracked' = tracked \ {s}
    /\ IF s \in tracked THEN Forget(s) ELSE UNCHANGED <<queue, online>>
    /\ rooms' = [i \in DOMAIN rooms |-> [rooms[i] EXCEPT !.joined = @ \ {s}]]
    /\ UNCHANGED opened

----------------------------------------------------------------------------
(* Invitations, rooms and reconnections.                                   *)

\* game:invite_accept of s for the invitation of u, if u is online.  That u
\* invited anybody is not looked at, nor that it is not the one who accepts.
AcceptInvite(s, u) ==
    /\ s \notin gone /\ Len(rooms) < MaxRooms
    /\ online[u] # NoSocket
    /\ rooms' = Append(rooms, NewRoom(online[u], s, "invite"))
    /\ UNCHANGED <<gone, tracked, online, queue, opened>>

\* Mutant of OpenRoom: the room is left waiting for its players.
OpenRoomWaiting(i) ==
    /\ rooms[i].status = "creating"
    /\ rooms' = [rooms EXCEPT ![i].status = "waiting"]
    /\ opened' = Append(opened, i)
    /\ UNCHANGED <<gone, tracked, online, queue>>

\* createRoom resolves: the room is in the Map, and the sockets that are still
\* connected join it and are told.
OpenRoom(i) ==
    /\ rooms[i].status = "creating"
    /\ rooms' = [rooms EXCEPT ![i].status = "in_progress",
                              ![i].joined = {rooms[i].socket[s] : s \in Sides} \ gone]
    /\ opened' = Append(opened, i)
    /\ UNCHANGED <<gone, tracked, online, queue>>

\* A query of tryMatch, createRoom or handleInviteAccept fails.  Neither player
\* is put back into the queue.
OpenFails(i) ==
    /\ rooms[i].status = "creating"
    /\ rooms' = [rooms EXCEPT ![i].status = "failed"]
    /\ UNCHANGED <<gone, tracked, online, queue, opened>>

\* spectate:join and chat:join take any socket into any room of the Map, open
\* or over.  Nobody knows the id of a room that is not there yet.
Listen(s, i) ==
    /\ s \notin gone /\ \E k \in DOMAIN opened : opened[k] = i
    /\ rooms' = [rooms EXCEPT ![i].joined = @ \cup {s}]
    /\ UNCHANGED <<gone, tracked, online, queue, opened>>

\* The match of the room ends (GameRoom).
EndRoom(i) ==
    /\ rooms[i].status = "in_progress"
    /\ rooms' = [rooms EXCEPT ![i].status = "completed"]
    /\ UNCHANGED <<gone, tracked, online, queue, opened>>

\* Mutant of ActiveFor: whose room it is is not looked at.
ActiveForAll(u) == {k \in DOMAIN opened : rooms[opened[k]].status = "in_progress"}

ActiveFor(u) ==
    {k \in DOMAIN opened : /\ rooms[opened[k]].status = "in_progress"
                           /\ \E s \in Sides : rooms[opened[k]].player[s] = u}

\* Mutant of FirstActive: the last in the order of the Map.
LastActive(u) == opened[CHOOSE k \in ActiveFor(u) : \A j \in ActiveFor(u) : k >= j]

\* findActiveRoomByUserId: the first in the order of the Map.
FirstActive(u) == opened[CHOOSE k \in ActiveFor(u) : \A j \in ActiveFor(u) : k <= j]

\* handleReconnect's choice of a seat: player1, else player2.
SeatOf(i, u) == IF rooms[i].player["player1"] = u THEN "player1" ELSE "player2"

\* Mutant of Reconnect: the seat gets the socket, which does not join the room.
ReconnectDeaf(s) ==
    /\ s \notin gone /\ ActiveFor(owner[s]) # {}
    /\ LET i == FirstActive(owner[s])
       IN  rooms' = [rooms EXCEPT ![i].socket[SeatOf(i, owner[s])] = s]
    /\ UNCHANGED <<gone, tracked, online, queue, opened>>

\* game:reconnect
Reconnect(s) ==
    /\ s \notin gone /\ ActiveFor(owner[s]) # {}
    /\ LET i == FirstActive(owner[s])
       IN  rooms' = [rooms EXCEPT ![i].socket[SeatOf(i, owner[s])] = s,
                                  ![i].joined = @ \cup {s}]
    /\ UNCHANGED <<gone, tracked, online, queue, opened>>

----------------------------------------------------------------------------

Init ==
    /\ gone = {} /\ tracked = {}
    /\ online = [u \in Users |-> NoSocket]
    /\ queue = <<>> /\ rooms = <<>> /\ opened = <<>>

Next ==
    \/ \E s \in Sockets : Join(s) \/ Cancel(s) \/ Disconnect(s) \/ Reconnect(s)
    \/ \E s \in Sockets, u \in Users : AcceptInvite(s, u)
    \/ \E i \in DOMAIN rooms : OpenRoom(i) \/ OpenFails(i) \/ EndRoom(i)
    \/ \E s \in Sockets, i \in DOMAIN rooms : Listen(s, i)

Spec == Init /\ [][Next]_vars

----------------------------------------------------------------------------
(* Properties.                                                             *)

Room == [by : {"match", "invite"}, player : [Sides -> Users], socket : [Sides -> Sockets],
         joined : SUBSET Sockets,
         status : {"creating", "in_progress", "completed", "failed"}]

TypeOK ==
    /\ gone \in SUBSET Sockets /\ tracked \in SUBSET Sockets
    /\ online \in [Users -> Sockets \cup {NoSocket}]
    /\ queue \in Seq(Sockets)
    /\ rooms \in Seq(Room)
    /\ opened \in Seq(DOMAIN rooms)

\* Two players never wait side by side: every join that makes a pair takes it
\* out of the queue in the same step (matchmaking.gateway.ts:81-93), so whoever
\* waits, waits for want of an opponent.
OneWaits == Len(queue) <= 1

\* Matchmaking never pairs a user with itself, however many clients the user
\* joins from (matchmaking.service.ts:27).  An accepted invitation may.
SeatsDiffer ==
    \A i \in DOMAIN rooms :
        rooms[i].by = "match" => rooms[i].player["player1"] # rooms[i].player["player2"]

\* Whoever waits can be told of a match: its socket is connected and its
\* disconnection will be noticed, though the queue is cleaned by user and not
\* by socket (matchmaking.gateway.ts:43-47).
QueueIsLive == \A k \in DOMAIN queue : queue[k] \in tracked \ gone

\* Whoever is online can be reached: an invitation never goes to a socket that
\* has disconnected, though a later socket replaces an earlier one in the map
\* and either may disconnect first (friend.service.ts:34-44).
OnlineIsLive ==
    \A u \in Users : online[u] # NoSocket => online[u] \in tracked \ gone /\ owner[online[u]] = u

\* Nobody is dropped from the queue but by its own cancellation, by the loss of
\* one of its own sockets, or into a room that is being opened for it.
NobodyIsDropped ==
    [][\A k \in DOMAIN queue :
        \/ \E j \in DOMAIN queue' : queue'[j] = queue[k]
        \/ \E s \in Sockets : owner[s] = owner[queue[k]] /\ (Cancel(s) \/ Disconnect(s))
        \/ \E i \in DOMAIN rooms' \ DOMAIN rooms, s \in Sides : rooms'[i].socket[s] = queue[k]]_vars

\* A player hears its match: the socket in its seat is its own and is in the
\* room, unless it has disconnected.  The socket is chosen before the queries
\* that open the room and may be gone after them, and game:reconnect changes it
\* later (matchmaking.gateway.ts:98-101, game.gateway.ts:202-208).
PlayersHearTheirRoom ==
    \A i \in DOMAIN rooms, s \in Sides :
        /\ owner[rooms[i].socket[s]] = rooms[i].player[s]
        /\ rooms[i].status \in {"in_progress", "completed"} =>
              rooms[i].socket[s] \in rooms[i].joined \cup gone

\* Whether the user has a seat in the room, and the match is on.
PlaysIn(u, i) == rooms[i].status = "in_progress" /\ \E s \in Sides : rooms[i].player[s] = u

\* The seat passes to another socket.
SeatPasses(i, s) == rooms'[i].socket[s] # rooms[i].socket[s]

\* A player back in its match has its seat there too, and so gets what is sent
\* to the seat and not to the room, such as a badge (game.service.ts:379-382).
\* A seat passes only in a match that is on and, of the matches its player has
\* on, the one that opened first (game.gateway.ts:198-206).
ReconnectedIsSeated ==
    [][/\ \A s \in Sockets : Reconnect(s) =>
              \E i \in DOMAIN rooms', d \in Sides :
                  rooms'[i].socket[d] = s /\ rooms'[i].status = "in_progress"
       /\ \A i \in DOMAIN rooms, d \in Sides : SeatPasses(i, d) =>
              LET u == rooms[i].player[d]
              IN  /\ PlaysIn(u, i)
                  /\ \A k \in DOMAIN opened :
                        PlaysIn(u, opened[k]) => \E j \in DOMAIN opened : j <= k /\ opened[j] = i]_vars

=============================================================================
