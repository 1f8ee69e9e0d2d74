---------------------------- MODULE LobbyProofs ----------------------------
(***************************************************************************)
(* What the lobby keeps for every set of users and sockets: whoever waits  *)
(* or is online can be reached, two never wait side by side, matchmaking   *)
(* pairs different users, and a player who is connected hears its match.   *)
(*                                                                         *)
(* The parts need one another: a queue of at most one entry is what makes  *)
(* leaveQueue, which searches by user, the removal of the only entry, and  *)
(* joinQueue, which looks for the user, the arrival of somebody else; that *)
(* whoever is online is there with a socket of its own gives an invited    *)
(* room its owner.                                                         *)
(***************************************************************************)
EXTENDS Lobby, TLAPS, WellFoundedInduction

Parts == QueueIsLive /\ OnlineIsLive /\ OneWaits /\ SeatsDiffer /\ PlayersHearTheirRoom

IInv == TypeOK /\ Parts

LEMMA SmallNat ==
    ASSUME NEW n \in Nat
    PROVE  /\ n <= 1 => n = 0 \/ n = 1
           /\ n <= 2 /\ n >= 2 => n = 2
           /\ ~(n >= 2) => n <= 1
           /\ n <= 1 => n # 2
           /\ n + 1 = 2 => n = 1
OBVIOUS

LEMMA TwoOf ==
    ASSUME NEW q \in Seq(Sockets), Len(q) = 2
    PROVE  q[1] \in Sockets /\ q[2] \in Sockets
<1>1. 1 \in DOMAIN q /\ 2 \in DOMAIN q
  OBVIOUS
<1>2. \A i \in DOMAIN q : q[i] \in Sockets
  OBVIOUS
<1> QED
  BY <1>1, <1>2

\* A room that has just been asked for.
LEMMA NewRoomType ==
    ASSUME NEW p1 \in Sockets, NEW p2 \in Sockets, NEW by \in {"match", "invite"}
    PROVE  LET g == NewRoom(p1, p2, by) IN
           /\ g \in Room
           /\ g.joined = {} /\ g.status = "creating" /\ g.by = by
           /\ g.player["player1"] = owner[p1] /\ g.player["player2"] = owner[p2]
           /\ \A s \in Sides : owner[g.socket[s]] = g.player[s]
           /\ \A s \in Sides : g.socket[s] \in {p1, p2}
BY LobbyAssumption DEF NewRoom, Room, Sides

\* The rooms after a step, one by one; G are the sockets that have gone.
RoomGood(g, G) ==
    /\ g \in Room
    /\ g.by = "match" => g.player["player1"] # g.player["player2"]
    /\ \A s \in Sides : owner[g.socket[s]] = g.player[s]
    /\ g.status \in {"in_progress", "completed"} => \A s \in Sides : g.socket[s] \in g.joined \cup G

RoomsGood(rs, G) == rs \in Seq(Room) /\ \A i \in DOMAIN rs : RoomGood(rs[i], G)

LEMMA RoomsGoodInv ==
    /\ IInv => RoomsGood(rooms, gone)
    /\ RoomsGood(rooms', gone') => SeatsDiffer' /\ PlayersHearTheirRoom' /\ rooms' \in Seq(Room)
<1>1. IInv => RoomsGood(rooms, gone)
  BY DEF IInv, TypeOK, Parts, SeatsDiffer, PlayersHearTheirRoom, RoomsGood, RoomGood
<1>2. RoomsGood(rooms', gone') => SeatsDiffer' /\ PlayersHearTheirRoom' /\ rooms' \in Seq(Room)
  BY DEF SeatsDiffer, PlayersHearTheirRoom, RoomsGood, RoomGood
<1> QED
  BY <1>1, <1>2

LEMMA AddRoom ==
    ASSUME NEW rs, NEW G, RoomsGood(rs, G), NEW p1 \in Sockets, NEW p2 \in Sockets,
           NEW by \in {"match", "invite"}, by = "invite" \/ owner[p1] # owner[p2]
    PROVE  /\ RoomsGood(Append(rs, NewRoom(p1, p2, by)), G)
           /\ DOMAIN rs \subseteq DOMAIN Append(rs, NewRoom(p1, p2, by))
<1>1. RoomGood(NewRoom(p1, p2, by), G)
  BY NewRoomType DEF RoomGood
<1>2. NewRoom(p1, p2, by) \in Room
  BY <1>1 DEF RoomGood
<1> QED
  BY <1>1, <1>2 DEF RoomsGood

LEMMA ChangeRoom ==
    ASSUME NEW rs, NEW G, RoomsGood(rs, G), NEW i \in DOMAIN rs, NEW g, RoomGood(g, G)
    PROVE  RoomsGood([rs EXCEPT ![i] = g], G) /\ DOMAIN [rs EXCEPT ![i] = g] = DOMAIN rs
<1>1. g \in Room
  BY DEF RoomGood
<1> QED
  BY <1>1 DEF RoomsGood

----------------------------------------------------------------------------

\* leaveQueue empties the queue of its user, and only that.
LEMMA LeaveQueueOf ==
    ASSUME IInv, NEW u \in Users
    PROVE  /\ LeaveQueue(u) \in Seq(Sockets) /\ Len(LeaveQueue(u)) <= 1
           /\ \A k \in DOMAIN LeaveQueue(u) :
                 k \in DOMAIN queue /\ LeaveQueue(u)[k] = queue[k] /\ owner[queue[k]] # u
           /\ \A k \in DOMAIN queue :
                 owner[queue[k]] # u => k \in DOMAIN LeaveQueue(u) /\ LeaveQueue(u)[k] = queue[k]
<1> DEFINE mine == {k \in DOMAIN queue : owner[queue[k]] = u}
<1>1. queue \in Seq(Sockets) /\ Len(queue) <= 1
  BY DEF IInv, Parts, TypeOK, OneWaits
<1>2. CASE mine = {}
  <2>1. LeaveQueue(u) = queue
    BY <1>2 DEF LeaveQueue
  <2> QED
    BY <1>1, <1>2, <2>1
<1>3. CASE mine # {}
  <2>1. Len(queue) = 1 /\ mine = {1}
    <3>1. mine \subseteq 1..Len(queue) /\ Len(queue) \in Nat
      BY <1>1
    <3>2. Len(queue) = 1
      <4>1. CASE Len(queue) = 0
        <5>1. 1..Len(queue) = {}
          BY <4>1
        <5> HIDE DEF mine
        <5> QED
          BY <1>3, <3>1, <5>1
      <4> QED
        BY <1>1, <3>1, <4>1, SmallNat
    <3>3. mine \subseteq {1}
      BY <3>1, <3>2
    <3> QED
      BY <1>3, <3>2, <3>3
  <2> DEFINE k == CHOOSE i \in mine : \A j \in mine : i <= j
  <2>2. k = 1
    BY <2>1
  <2>3. LeaveQueue(u) = SubSeq(queue, 1, k - 1) \o SubSeq(queue, k + 1, Len(queue))
    BY <1>3 DEF LeaveQueue
  <2> HIDE DEF k
  <2>4. LeaveQueue(u) = SubSeq(queue, 1, 0) \o SubSeq(queue, 2, 1)
    BY <2>1, <2>2, <2>3
  <2>5. /\ SubSeq(queue, 1, 0) \in Seq(Sockets) /\ Len(SubSeq(queue, 1, 0)) = 0
        /\ SubSeq(queue, 2, 1) \in Seq(Sockets) /\ Len(SubSeq(queue, 2, 1)) = 0
    BY <1>1, <2>1
  <2>6. LeaveQueue(u) \in Seq(Sockets) /\ Len(LeaveQueue(u)) = 0
    BY <2>4, <2>5
  <2> QED
    BY <1>1, <2>1, <2>6
<1> QED
  BY <1>2, <1>3

----------------------------------------------------------------------------
(* The invariant is preserved, action by action.                           *)

LEMMA InitInv == Init => IInv
<1> SUFFICES ASSUME Init PROVE IInv
  OBVIOUS
<1>1. rooms \in Seq(Room) /\ opened \in Seq(DOMAIN rooms) /\ queue \in Seq(Sockets)
  BY DEF Init
<1>2. DOMAIN rooms = {} /\ DOMAIN queue = {} /\ Len(queue) = 0
  BY DEF Init
<1> QED
  BY <1>1, <1>2 DEF Init, IInv, Parts, TypeOK, QueueIsLive, OnlineIsLive, OneWaits,
                    SeatsDiffer, PlayersHearTheirRoom

\* A room more does not make the list of open rooms ill typed.
LEMMA OpenedType ==
    ASSUME NEW S, NEW T, S \subseteq T, NEW q \in Seq(S)
    PROVE  q \in Seq(T)
OBVIOUS

LEMMA JoinInv == ASSUME IInv, NEW s \in Sockets, Join(s) PROVE IInv'
<1> DEFINE q == JoinQueue(s)
<1>1. /\ queue \in Seq(Sockets) /\ Len(queue) <= 1 /\ owner[s] \in Users
      /\ \A k \in DOMAIN queue : queue[k] \in tracked \ gone
  BY LobbyAssumption DEF IInv, Parts, TypeOK, OneWaits, QueueIsLive
<1>2. s \notin gone /\ gone' = gone /\ tracked' = tracked \cup {s} /\ opened' = opened
  BY DEF Join
<1>3. online' = [online EXCEPT ![owner[s]] = s]
  BY DEF Join
<1>4. OnlineIsLive' /\ online' \in [Users -> Sockets \cup {NoSocket}]
  BY <1>1, <1>2, <1>3 DEF IInv, Parts, TypeOK, OnlineIsLive
<1>5. /\ q \in Seq(Sockets) /\ Len(q) \in Nat /\ Len(q) <= 2
      /\ \A k \in DOMAIN q : q[k] \in tracked' \ gone'
  BY <1>1, <1>2 DEF JoinQueue
<1>6. Len(q) = 2 => owner[q[1]] # owner[q[2]]
  <2> SUFFICES ASSUME Len(q) = 2 PROVE owner[q[1]] # owner[q[2]]
    OBVIOUS
  <2>0. Len(queue) \in Nat
    BY <1>1
  <2>1. Len(queue) \in Nat /\ Len(queue) # 2
    BY <1>1, <2>0, SmallNat
  <2>2. ~Queued(owner[s]) /\ q = Append(queue, s)
    <3> HIDE DEF q
    <3>1. q = IF Queued(owner[s]) THEN queue ELSE Append(queue, s)
      BY DEF q, JoinQueue
    <3>2. q # queue
      BY <2>1
    <3> QED
      BY <3>1, <3>2
  <2>3. Len(Append(queue, s)) = Len(queue) + 1
    BY <1>1
  <2>4. Len(queue) = 1
    <3> HIDE DEF q
    <3> QED
      BY <2>1, <2>2, <2>3, SmallNat
  <2>5. q[1] = queue[1] /\ q[2] = s
    <3> HIDE DEF q
    <3> QED
      BY <1>1, <2>2, <2>4
  <2>6. 1 \in DOMAIN queue
    BY <1>1, <2>4
  <2> QED
    BY <2>2, <2>5, <2>6 DEF Queued
<1>7. RoomsGood(rooms, gone) /\ TryMatch(q)
  BY RoomsGoodInv DEF Join
<1> HIDE DEF q
<1>8. RoomsGood(rooms', gone') /\ DOMAIN rooms \subseteq DOMAIN rooms'
  <2>1. CASE EnoughToMatch(q)
    <3>0. Len(q) = 2
      BY <1>5, <2>1, SmallNat DEF EnoughToMatch
    <3>1. Len(q) = 2 /\ q[1] \in Sockets /\ q[2] \in Sockets
      BY <1>5, <3>0, TwoOf
    <3>2. rooms' = Append(rooms, NewRoom(q[1], q[2], "match"))
      BY <1>7, <2>1 DEF TryMatch
    <3> QED
      BY <1>2, <1>6, <1>7, <3>1, <3>2, AddRoom
  <2>2. CASE ~EnoughToMatch(q)
    BY <1>2, <1>7, <2>2 DEF TryMatch
  <2> QED
    BY <2>1, <2>2
<1>9. queue' \in Seq(Sockets) /\ OneWaits' /\ QueueIsLive'
  <2>1. CASE EnoughToMatch(q)
    <3>1. Len(q) = 2 /\ queue' = SubSeq(q, 3, Len(q))
      BY <1>5, <1>7, <2>1, SmallNat DEF EnoughToMatch, TryMatch
    <3>2. queue' \in Seq(Sockets) /\ Len(queue') = 0
      BY <1>5, <3>1
    <3> QED
      BY <3>2 DEF OneWaits, QueueIsLive
  <2>2. CASE ~EnoughToMatch(q)
    <3>1. queue' = q /\ Len(q) <= 1
      BY <1>5, <1>7, <2>2 DEF EnoughToMatch, TryMatch
    <3> QED
      BY <1>5, <3>1 DEF OneWaits, QueueIsLive
  <2> QED
    BY <2>1, <2>2
<1>10. opened' \in Seq(DOMAIN rooms')
  BY <1>2, <1>8, OpenedType DEF IInv, TypeOK
<1> QED
  BY <1>2, <1>4, <1>8, <1>9, <1>10, RoomsGoodInv DEF IInv, Parts, TypeOK

LEMMA CancelInv == ASSUME IInv, NEW s \in Sockets, Cancel(s) PROVE IInv'
<1>1. queue' = LeaveQueue(owner[s]) /\ owner[s] \in Users
      /\ UNCHANGED <<gone, tracked, online, rooms, opened>>
  BY LobbyAssumption DEF Cancel
<1>2. queue' \in Seq(Sockets) /\ OneWaits' /\ QueueIsLive'
  BY <1>1, LeaveQueueOf DEF IInv, Parts, OneWaits, QueueIsLive
<1> QED
  BY <1>1, <1>2 DEF IInv, Parts, TypeOK, OnlineIsLive, SeatsDiffer, PlayersHearTheirRoom

LEMMA DisconnectInv == ASSUME IInv, NEW s \in Sockets, Disconnect(s) PROVE IInv'
<1>1. gone' = gone \cup {s} /\ tracked' = tracked \ {s} /\ opened' = opened
      /\ owner[s] \in Users
  BY LobbyAssumption DEF Disconnect
<1>2. queue' \in Seq(Sockets) /\ OneWaits' /\ QueueIsLive'
  <2>1. CASE s \in tracked
    <3>1. queue' = LeaveQueue(owner[s])
      BY <2>1 DEF Disconnect, Forget
    <3>2. \A k \in DOMAIN queue' : queue'[k] # s /\ k \in DOMAIN queue /\ queue'[k] = queue[k]
      BY <1>1, <3>1, LeaveQueueOf
    <3>3. queue' \in Seq(Sockets) /\ Len(queue') <= 1
      BY <1>1, <3>1, LeaveQueueOf
    <3> QED
      BY <1>1, <3>2, <3>3 DEF IInv, Parts, OneWaits, QueueIsLive
  <2>2. CASE s \notin tracked
    <3>1. queue' = queue
      BY <2>2 DEF Disconnect
    <3> QED
      BY <1>1, <2>2, <3>1 DEF IInv, Parts, TypeOK, OneWaits, QueueIsLive
  <2> QED
    BY <2>1, <2>2
<1>3. OnlineIsLive' /\ online' \in [Users -> Sockets \cup {NoSocket}]
  <2>1. CASE s \in tracked
    <3>1. online' = [online EXCEPT ![owner[s]] = NoSocket]
      BY <2>1 DEF Disconnect, Forget
    <3> QED
      BY <1>1, <3>1 DEF IInv, Parts, TypeOK, OnlineIsLive
  <2>2. CASE s \notin tracked
    <3>1. online' = online
      BY <2>2 DEF Disconnect
    <3> QED
      BY <1>1, <2>2, <3>1 DEF IInv, Parts, TypeOK, OnlineIsLive
  <2> QED
    BY <2>1, <2>2
<1>4. RoomsGood(rooms, gone) /\ rooms' = [i \in DOMAIN rooms |-> [rooms[i] EXCEPT !.joined = @ \ {s}]]
  BY RoomsGoodInv DEF Disconnect
<1>5. RoomsGood(rooms', gone') /\ DOMAIN rooms' = DOMAIN rooms
  <2>1. \A i \in DOMAIN rooms : RoomGood(rooms[i], gone)
    BY <1>4 DEF RoomsGood
  <2>2. ASSUME NEW i \in DOMAIN rooms
        PROVE  RoomGood([rooms[i] EXCEPT !.joined = @ \ {s}], gone')
    <3> DEFINE g == [rooms[i] EXCEPT !.joined = @ \ {s}]
    <3>1. RoomGood(rooms[i], gone)
      BY <2>1
    <3>2. /\ g \in Room /\ g.joined = rooms[i].joined \ {s} /\ g.by = rooms[i].by
          /\ g.player = rooms[i].player /\ g.socket = rooms[i].socket
          /\ g.status = rooms[i].status
      BY <3>1 DEF RoomGood, Room
    <3> HIDE DEF g
    <3>3. RoomGood(g, gone')
      BY <1>1, <3>1, <3>2 DEF RoomGood
    <3> QED
      BY <3>3 DEF g
  <2>3. \A i \in DOMAIN rooms : [rooms[i] EXCEPT !.joined = @ \ {s}] \in Room
    BY <2>2 DEF RoomGood
  <2>4. DOMAIN rooms = 1..Len(rooms) /\ Len(rooms) \in Nat
    BY <1>4 DEF RoomsGood
  <2>5. rooms' \in Seq(Room)
    BY <1>4, <2>3, <2>4
  <2> QED
    BY <1>4, <2>2, <2>5 DEF RoomsGood
<1> QED
  BY <1>1, <1>2, <1>3, <1>5, RoomsGoodInv DEF IInv, Parts, TypeOK

\* A set of numbers that is not empty has a smallest element.
LEMMA SmallestElement ==
    ASSUME NEW S, S \subseteq Nat, S # {}
    PROVE  \E k \in S : \A j \in S : k <= j
<1> DEFINE R == OpToRel(<, Nat)
<1>1. PICK k \in S : \A j \in S : <<j, k>> \notin R
  <2>1. IsWellFoundedOn(R, Nat)
    BY NatLessThanWellFounded
  <2> HIDE DEF R
  <2> QED
    BY <2>1, WFMin
<1>2. \A j \in S : ~(j < k)
  BY <1>1 DEF OpToRel
<1> QED
  BY <1>2

\* The room i is the first to have opened of those that u plays in.
FirstOf(u, i) ==
    /\ PlaysIn(u, i)
    /\ \A k \in DOMAIN opened :
          PlaysIn(u, opened[k]) => \E j \in DOMAIN opened : j <= k /\ opened[j] = i

\* What game:reconnect finds.
LEMMA ReconnectFinds ==
    ASSUME IInv, NEW s \in Sockets, Reconnect(s)
    PROVE  LET u == owner[s]
               i == FirstActive(u)
           IN  /\ i \in DOMAIN rooms /\ FirstOf(u, i)
               /\ SeatOf(i, u) \in Sides /\ rooms[i].player[SeatOf(i, u)] = u
<1> DEFINE u == owner[s]
           i == FirstActive(u)
<1>1. ActiveFor(u) # {} /\ ActiveFor(u) \subseteq Nat /\ ActiveFor(u) \subseteq DOMAIN opened
  <2>1. opened \in Seq(DOMAIN rooms)
    BY DEF IInv, TypeOK
  <2>2. DOMAIN opened \subseteq Nat
    BY <2>1
  <2>3. ActiveFor(u) # {}
    BY DEF Reconnect
  <2> QED
    BY <2>2, <2>3 DEF ActiveFor
<1>2. PICK k \in ActiveFor(u) : i = opened[k] /\ \A j \in ActiveFor(u) : k <= j
  <2>1. \E k \in ActiveFor(u) : \A j \in ActiveFor(u) : k <= j
    BY <1>1, SmallestElement
  <2> QED
    BY <2>1 DEF FirstActive
<1>3. i \in DOMAIN rooms /\ PlaysIn(u, i)
  BY <1>2 DEF ActiveFor, PlaysIn, IInv, TypeOK
<1>4. \A j \in DOMAIN opened : PlaysIn(u, opened[j]) => j \in ActiveFor(u)
  BY DEF ActiveFor, PlaysIn
<1> HIDE DEF i
<1>5. FirstOf(u, i)
  BY <1>1, <1>2, <1>3, <1>4 DEF FirstOf
<1>6. SeatOf(i, u) \in Sides /\ rooms[i].player[SeatOf(i, u)] = u
  BY <1>3 DEF PlaysIn, SeatOf, Sides
<1> QED
  BY <1>3, <1>5, <1>6 DEF i

LEMMA ReconnectInv == ASSUME IInv, NEW s \in Sockets, Reconnect(s) PROVE IInv'
<1> DEFINE u == owner[s]
           i == FirstActive(u)
           seat == SeatOf(i, u)
<1>1. i \in DOMAIN rooms /\ seat \in Sides /\ rooms[i].player[seat] = u
  BY ReconnectFinds
<1> DEFINE g == [rooms[i] EXCEPT !.socket[seat] = s, !.joined = @ \cup {s}]
<1>2. RoomsGood(rooms, gone) /\ rooms' = [rooms EXCEPT ![i] = g]
  BY RoomsGoodInv DEF Reconnect
<1>3. UNCHANGED <<gone, tracked, online, queue, opened>>
  BY DEF Reconnect
<1> HIDE DEF i, seat, u
<1>4. owner[s] = u
  BY DEF u
<1>5. RoomGood(g, gone)
  <2>1. RoomGood(rooms[i], gone)
    BY <1>1, <1>2 DEF RoomsGood
  <2>2. /\ g \in Room /\ g.joined = rooms[i].joined \cup {s} /\ g.by = rooms[i].by
        /\ g.player = rooms[i].player /\ g.status = rooms[i].status
        /\ g.socket = [rooms[i].socket EXCEPT ![seat] = s]
    BY <1>1, <2>1 DEF RoomGood, Room
  <2>3. rooms[i].socket \in [Sides -> Sockets]
    BY <2>1 DEF RoomGood, Room
  <2>4. \A d \in Sides : owner[g.socket[d]] = g.player[d]
    BY <1>1, <1>4, <2>1, <2>2, <2>3 DEF RoomGood
  <2>5. g.status \in {"in_progress", "completed"} => \A d \in Sides : g.socket[d] \in g.joined \cup gone
    BY <2>1, <2>2, <2>3 DEF RoomGood
  <2> HIDE DEF g
  <2> QED
    BY <2>1, <2>2, <2>4, <2>5 DEF RoomGood
<1> HIDE DEF g
<1>6. RoomsGood(rooms', gone') /\ DOMAIN rooms' = DOMAIN rooms
  BY <1>1, <1>2, <1>3, <1>5, ChangeRoom
<1> QED
  BY <1>3, <1>6, RoomsGoodInv
  DEF IInv, Parts, TypeOK, OnlineIsLive, QueueIsLive, OneWaits

LEMMA AcceptInviteInv ==
    ASSUME IInv, NEW s \in Sockets, NEW u \in Users, AcceptInvite(s, u)
    PROVE  IInv'
<1>1. online[u] \in Sockets /\ owner[online[u]] = u
  BY DEF AcceptInvite, IInv, Parts, TypeOK, OnlineIsLive
<1>2. rooms' = Append(rooms, NewRoom(online[u], s, "invite"))
      /\ UNCHANGED <<gone, tracked, online, queue, opened>>
  BY DEF AcceptInvite
<1>3. RoomsGood(rooms', gone') /\ DOMAIN rooms \subseteq DOMAIN rooms'
  BY <1>1, <1>2, AddRoom, RoomsGoodInv
<1>4. opened' \in Seq(DOMAIN rooms')
  BY <1>2, <1>3, OpenedType DEF IInv, TypeOK
<1> QED
  BY <1>2, <1>3, <1>4, RoomsGoodInv
  DEF IInv, Parts, TypeOK, OnlineIsLive, QueueIsLive, OneWaits

LEMMA RoomInv ==
    ASSUME IInv, NEW i \in DOMAIN rooms, OpenRoom(i) \/ OpenFails(i) \/ EndRoom(i)
    PROVE  IInv'
<1>1. RoomsGood(rooms, gone) /\ RoomGood(rooms[i], gone)
  BY RoomsGoodInv DEF RoomsGood
<1>2. PICK g : rooms' = [rooms EXCEPT ![i] = g] /\ RoomGood(g, gone)
  <2>1. CASE OpenRoom(i)
    <3> DEFINE now == {rooms[i].socket[s] : s \in Sides} \ gone
               g == [rooms[i] EXCEPT !.status = "in_progress", !.joined = now]
    <3>1. now \in SUBSET Sockets /\ \A s \in Sides : rooms[i].socket[s] \in now \cup gone
      BY <1>1 DEF RoomGood, Room
    <3> HIDE DEF now
    <3>2. /\ g.player = rooms[i].player /\ g.socket = rooms[i].socket /\ g.by = rooms[i].by
          /\ g.joined = now /\ g \in Room
      BY <1>1, <3>1 DEF RoomGood, Room
    <3>3. rooms' = [rooms EXCEPT ![i] = g]
      BY <2>1 DEF OpenRoom, now
    <3> HIDE DEF g
    <3>4. RoomGood(g, gone)
      BY <1>1, <3>1, <3>2 DEF RoomGood
    <3> QED
      BY <3>3, <3>4
  <2>2. CASE OpenFails(i)
    <3>1. RoomGood([rooms[i] EXCEPT !.status = "failed"], gone)
      BY <1>1 DEF RoomGood, Room
    <3> QED
      BY <2>2, <3>1 DEF OpenFails
  <2>3. CASE EndRoom(i)
    <3>1. RoomGood([rooms[i] EXCEPT !.status = "completed"], gone)
      BY <1>1, <2>3 DEF RoomGood, Room, EndRoom
    <3> QED
      BY <2>3, <3>1 DEF EndRoom
  <2> QED
    BY <2>1, <2>2, <2>3
<1>3. UNCHANGED <<gone, tracked, online, queue>>
  BY DEF OpenRoom, OpenFails, EndRoom
<1>4. RoomsGood(rooms', gone') /\ DOMAIN rooms' = DOMAIN rooms
  BY <1>1, <1>2, <1>3, ChangeRoom
<1>5. opened' \in Seq(DOMAIN rooms')
  <2>1. opened \in Seq(DOMAIN rooms)
    BY DEF IInv, TypeOK
  <2>2. opened' = opened \/ opened' = Append(opened, i)
    BY DEF OpenRoom, OpenFails, EndRoom
  <2>3. Append(opened, i) \in Seq(DOMAIN rooms)
    BY <2>1
  <2> QED
    BY <1>4, <2>1, <2>2, <2>3
<1> QED
  BY <1>3, <1>4, <1>5, RoomsGoodInv
  DEF IInv, Parts, TypeOK, OnlineIsLive, QueueIsLive, OneWaits

LEMMA ListenInv ==
    ASSUME IInv, NEW s \in Sockets, NEW i \in DOMAIN rooms, Listen(s, i)
    PROVE  IInv'
<1> DEFINE g == [rooms[i] EXCEPT !.joined = @ \cup {s}]
<1>1. RoomsGood(rooms, gone) /\ RoomGood(rooms[i], gone)
  BY RoomsGoodInv DEF RoomsGood
<1>2. rooms' = [rooms EXCEPT ![i] = g] /\ UNCHANGED <<gone, tracked, online, queue, opened>>
  BY DEF Listen
<1>3. RoomGood(g, gone)
  BY <1>1 DEF RoomGood, Room
<1> HIDE DEF g
<1>4. RoomsGood(rooms', gone') /\ DOMAIN rooms' = DOMAIN rooms
  BY <1>1, <1>2, <1>3, ChangeRoom
<1> QED
  BY <1>2, <1>4, RoomsGoodInv
  DEF IInv, Parts, TypeOK, OnlineIsLive, QueueIsLive, OneWaits

LEMMA StutterInv == ASSUME IInv, UNCHANGED vars PROVE IInv'
BY DEF IInv, Parts, TypeOK, OnlineIsLive, QueueIsLive, OneWaits, SeatsDiffer, PlayersHearTheirRoom,
       vars

LEMMA NextInv == IInv /\ [Next]_vars => IInv'
<1> SUFFICES ASSUME IInv, [Next]_vars PROVE IInv'
  OBVIOUS
<1>1. ASSUME NEW s \in Sockets, Join(s) \/ Cancel(s) \/ Disconnect(s) \/ Reconnect(s)
      PROVE  IInv'
  BY <1>1, JoinInv, CancelInv, DisconnectInv, ReconnectInv
<1>2. ASSUME NEW s \in Sockets, NEW u \in Users, AcceptInvite(s, u) PROVE IInv'
  BY <1>2, AcceptInviteInv
<1>3. ASSUME NEW i \in DOMAIN rooms, OpenRoom(i) \/ OpenFails(i) \/ EndRoom(i) PROVE IInv'
  BY <1>3, RoomInv
<1>4. ASSUME NEW s \in Sockets, NEW i \in DOMAIN rooms, Listen(s, i) PROVE IInv'
  BY <1>4, ListenInv
<1> QED
  BY <1>1, <1>2, <1>3, <1>4, StutterInv DEF Next

\* The invariant holds in every reachable state.
THEOREM LobbyInvariant == Spec => []IInv
BY InitInv, NextInv, PTL DEF Spec

----------------------------------------------------------------------------
(* What a step does not do to those who wait and to those who come back.   *)

\* Whoever waited still waits, has gone by itself, or is being seated.
Kept(k) ==
    \/ \E j \in DOMAIN queue' : queue'[j] = queue[k]
    \/ \E s \in Sockets : owner[s] = owner[queue[k]] /\ (Cancel(s) \/ Disconnect(s))
    \/ \E i \in DOMAIN rooms' \ DOMAIN rooms, s \in Sides : rooms'[i].socket[s] = queue[k]

LEMMA JoinKeeps ==
    ASSUME IInv, NEW s \in Sockets, Join(s), NEW k \in DOMAIN queue
    PROVE  Kept(k)
<1> DEFINE q == JoinQueue(s)
<1>1. /\ queue \in Seq(Sockets) /\ Len(queue) \in Nat /\ Len(queue) <= 1
      /\ rooms \in Seq(Room)
  BY DEF IInv, Parts, TypeOK, OneWaits
<1>2. TryMatch(q)
  BY DEF Join
<1>3. q = queue \/ q = Append(queue, s)
  BY DEF JoinQueue
<1> HIDE DEF q
<1>4. k \in DOMAIN q /\ q[k] = queue[k] /\ k = 1
  BY <1>1, <1>3
<1>5. CASE EnoughToMatch(q)
  <2> DEFINE n == Len(rooms) + 1
  <2>1. rooms' = Append(rooms, NewRoom(q[1], q[2], "match"))
    BY <1>2, <1>5 DEF TryMatch
  <2>2. n \in DOMAIN rooms' \ DOMAIN rooms /\ rooms'[n] = NewRoom(q[1], q[2], "match")
    BY <1>1, <2>1
  <2>3. rooms'[n].socket["player1"] = queue[k] /\ "player1" \in Sides
    BY <1>4, <2>2 DEF NewRoom, Sides
  <2> QED
    BY <2>2, <2>3 DEF Kept
<1>6. CASE ~EnoughToMatch(q)
  BY <1>2, <1>4, <1>6 DEF TryMatch, Kept
<1> QED
  BY <1>5, <1>6

LEMMA NextKeeps == ASSUME IInv, [Next]_vars, NEW k \in DOMAIN queue PROVE Kept(k)
<1>1. ASSUME queue' = queue PROVE Kept(k)
  BY <1>1 DEF Kept
<1>2. ASSUME NEW s \in Sockets, Cancel(s) \/ Disconnect(s) PROVE Kept(k)
  <2>1. queue' = queue \/ queue' = LeaveQueue(owner[s])
    BY <1>2 DEF Cancel, Disconnect, Forget
  <2>2. CASE owner[queue[k]] = owner[s]
    BY <1>2, <2>2 DEF Kept
  <2>3. CASE queue' = LeaveQueue(owner[s]) /\ owner[queue[k]] # owner[s]
    <3>1. owner[s] \in Users
      BY LobbyAssumption
    <3>2. k \in DOMAIN queue' /\ queue'[k] = queue[k]
      BY <2>3, <3>1, LeaveQueueOf
    <3> QED
      BY <3>2 DEF Kept
  <2> QED
    BY <1>1, <2>1, <2>2, <2>3
<1>3. ASSUME NEW s \in Sockets, Join(s) \/ Reconnect(s) PROVE Kept(k)
  BY <1>1, <1>3, JoinKeeps DEF Reconnect
<1>4. ASSUME NEW s \in Sockets, NEW u \in Users, AcceptInvite(s, u) PROVE Kept(k)
  BY <1>1, <1>4 DEF AcceptInvite
<1>5. ASSUME NEW i \in DOMAIN rooms, OpenRoom(i) \/ OpenFails(i) \/ EndRoom(i) PROVE Kept(k)
  BY <1>1, <1>5 DEF OpenRoom, OpenFails, EndRoom
<1>6. ASSUME NEW s \in Sockets, NEW i \in DOMAIN rooms, Listen(s, i) PROVE Kept(k)
  BY <1>1, <1>6 DEF Listen
<1>7. CASE UNCHANGED vars
  BY <1>1, <1>7 DEF vars
<1> QED
  BY <1>2, <1>3, <1>4, <1>5, <1>6, <1>7 DEF Next

\* A socket that came back has a seat.
Seated(s) ==
    \E i \in DOMAIN rooms', d \in Sides : rooms'[i].socket[d] = s /\ rooms'[i].status = "in_progress"

\* If the seat passes, it is in the first match of its player.
PassesInOrder(i, d) == SeatPasses(i, d) => FirstOf(rooms[i].player[d], i)

LEMMA ReconnectSeats ==
    ASSUME IInv, NEW s \in Sockets, Reconnect(s)
    PROVE  Seated(s) /\ \A i \in DOMAIN rooms, d \in Sides : PassesInOrder(i, d)
<1> DEFINE u == owner[s]
           k == FirstActive(u)
           seat == SeatOf(k, u)
           g == [rooms[k] EXCEPT !.socket[seat] = s, !.joined = @ \cup {s}]
<1>1. /\ rooms \in Seq(Room) /\ k \in DOMAIN rooms /\ FirstOf(u, k)
      /\ seat \in Sides /\ rooms[k].player[seat] = u
  BY ReconnectFinds DEF IInv, TypeOK
<1>2. rooms' = [rooms EXCEPT ![k] = g]
  BY DEF Reconnect
<1> HIDE DEF k, seat, u
<1>3. rooms[k] \in Room /\ rooms[k].status = "in_progress"
  BY <1>1 DEF FirstOf, PlaysIn
<1>4. g.socket = [rooms[k].socket EXCEPT ![seat] = s] /\ g.status = "in_progress"
  BY <1>1, <1>3 DEF Room
<1>5. rooms[k].socket \in [Sides -> Sockets]
  BY <1>3 DEF Room
<1> HIDE DEF g
<1>6. Seated(s)
  BY <1>1, <1>2, <1>4, <1>5 DEF Seated
<1>7. ASSUME NEW i \in DOMAIN rooms, NEW d \in Sides, SeatPasses(i, d)
      PROVE  FirstOf(rooms[i].player[d], i)
  <2>1. i = k
    BY <1>2, <1>7 DEF SeatPasses
  <2>2. d = seat
    BY <1>1, <1>2, <1>4, <1>5, <1>7, <2>1 DEF SeatPasses
  <2> QED
    BY <1>1, <2>1, <2>2
<1> QED
  BY <1>6, <1>7 DEF PassesInOrder

LEMMA OthersSeat ==
    ASSUME IInv, [Next]_vars, ~(\E s \in Sockets : Reconnect(s)),
           NEW i \in DOMAIN rooms, NEW d \in Sides
    PROVE  ~SeatPasses(i, d)
<1>1. rooms \in Seq(Room) /\ rooms[i] \in Room
  BY DEF IInv, TypeOK
<1>2. ASSUME rooms' = rooms PROVE ~SeatPasses(i, d)
  BY <1>2 DEF SeatPasses
<1>3. ASSUME NEW g, rooms' = Append(rooms, g) PROVE ~SeatPasses(i, d)
  BY <1>1, <1>3 DEF SeatPasses
<1>4. ASSUME NEW s \in Sockets, Join(s) PROVE ~SeatPasses(i, d)
  BY <1>2, <1>3, <1>4 DEF Join, TryMatch
<1>5. ASSUME NEW s \in Sockets, Disconnect(s) PROVE ~SeatPasses(i, d)
  <2>1. rooms'[i] = [rooms[i] EXCEPT !.joined = @ \ {s}]
    BY <1>5 DEF Disconnect
  <2> QED
    BY <1>1, <2>1 DEF SeatPasses, Room
<1>6. ASSUME NEW s \in Sockets, Cancel(s) PROVE ~SeatPasses(i, d)
  BY <1>2, <1>6 DEF Cancel
<1>7. ASSUME NEW s \in Sockets, NEW u \in Users, AcceptInvite(s, u) PROVE ~SeatPasses(i, d)
  BY <1>3, <1>7 DEF AcceptInvite
<1>8. ASSUME NEW k \in DOMAIN rooms, OpenRoom(k) PROVE ~SeatPasses(i, d)
  BY <1>1, <1>8 DEF OpenRoom, SeatPasses, Room
<1>9. ASSUME NEW k \in DOMAIN rooms, OpenFails(k) \/ EndRoom(k) PROVE ~SeatPasses(i, d)
  <2>1. CASE OpenFails(k)
    BY <1>1, <2>1 DEF OpenFails, SeatPasses, Room
  <2>2. CASE EndRoom(k)
    BY <1>1, <2>2 DEF EndRoom, SeatPasses, Room
  <2> QED
    BY <1>9, <2>1, <2>2
<1>10. ASSUME NEW s \in Sockets, NEW k \in DOMAIN rooms, Listen(s, k) PROVE ~SeatPasses(i, d)
  BY <1>1, <1>10 DEF Listen, SeatPasses, Room
<1>11. CASE UNCHANGED vars
  BY <1>2, <1>11 DEF vars
<1> QED
  BY <1>4, <1>5, <1>6, <1>7, <1>8, <1>9, <1>10, <1>11 DEF Next

LEMMA NextSeats ==
    ASSUME IInv, [Next]_vars
    PROVE  /\ \A s \in Sockets : Reconnect(s) => Seated(s)
           /\ \A i \in DOMAIN rooms, d \in Sides : PassesInOrder(i, d)
<1>1. \A s \in Sockets : Reconnect(s) => Seated(s)
  BY ReconnectSeats
<1>2. ASSUME NEW i \in DOMAIN rooms, NEW d \in Sides PROVE PassesInOrder(i, d)
  <2>1. CASE \E s \in Sockets : Reconnect(s)
    BY <2>1, ReconnectSeats
  <2>2. CASE ~(\E s \in Sockets : Reconnect(s))
    BY <2>2, OthersSeat DEF PassesInOrder
  <2> QED
    BY <2>1, <2>2
<1> QED
  BY <1>1, <1>2

----------------------------------------------------------------------------
(* The properties of the run.                                              *)

\* Every variable has its type.
THEOREM LobbyTypeCorrect == Spec => []TypeOK
BY LobbyInvariant, PTL DEF IInv

\* Two players never wait side by side.
THEOREM PairsAreTaken == Spec => []OneWaits
BY LobbyInvariant, PTL DEF IInv, Parts

\* Matchmaking pairs no user with itself, from however many clients it joins.
THEOREM NobodyFacesItself == Spec => []SeatsDiffer
BY LobbyInvariant, PTL DEF IInv, Parts

\* Nobody waits with a socket that has disconnected.
THEOREM WaitersAreLive == Spec => []QueueIsLive
BY LobbyInvariant, PTL DEF IInv, Parts

\* No invitation goes to a socket that has disconnected.
THEOREM OnlineAreLive == Spec => []OnlineIsLive
BY LobbyInvariant, PTL DEF IInv, Parts

\* A seat is held by a socket of its player, and that socket hears the match
\* unless it has disconnected, whoever else watches.
THEOREM PlayersHear == Spec => []PlayersHearTheirRoom
BY LobbyInvariant, PTL DEF IInv, Parts

\* Nobody who waits is forgotten: it leaves the queue by itself or for a room.
THEOREM NobodyIsForgotten == Spec => NobodyIsDropped
<1>1. IInv /\ [Next]_vars =>
        [\A k \in DOMAIN queue :
            \/ \E j \in DOMAIN queue' : queue'[j] = queue[k]
            \/ \E s \in Sockets : owner[s] = owner[queue[k]] /\ (Cancel(s) \/ Disconnect(s))
            \/ \E i \in DOMAIN rooms' \ DOMAIN rooms, s \in Sides :
                    rooms'[i].socket[s] = queue[k]]_vars
  BY NextKeeps DEF Kept
<1> QED
  BY <1>1, LobbyInvariant, PTL DEF Spec, NobodyIsDropped

\* Whoever comes back to its match comes back to its seat, and a seat passes
\* only in the match of its player that opened first.
THEOREM ReturningIsSeated == Spec => ReconnectedIsSeated
<1>1. IInv /\ [Next]_vars =>
        [/\ \A s \in Sockets : Reconnect(s) =>
                \E i \in DOMAIN rooms', d \in Sides :
                    rooms'[i].socket[d] = s /\ rooms'[i].status = "in_progress"
         /\ \A i \in DOMAIN rooms, d \in Sides : SeatPasses(i, d) =>
                LET u == rooms[i].player[d]
                IN  /\ PlaysIn(u, i)
                    /\ \A k \in DOMAIN opened :
                          PlaysIn(u, opened[k]) => \E j \in DOMAIN opened : j <= k /\ opened[j] = i]_vars
  BY NextSeats DEF Seated, PassesInOrder, FirstOf
<1> QED
  BY <1>1, LobbyInvariant, PTL DEF Spec, ReconnectedIsSeated

=============================================================================
