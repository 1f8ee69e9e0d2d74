# Verification of the swafri rock-paper-scissors backend

This directory is a TLA+ development of the NestJS backend in this repository: models of
its stateful parts, TLC runs that check them on small instances, and TLAPS proofs of the
most important properties for every size of instance. Source paths below are relative to
`src/src/` unless they begin otherwise.

Contents: [the system](#the-system), [the modules](#the-modules),
[the runs](#the-runs), [disagreements](#where-the-code-and-its-documentation-disagree),
[the proofs](#the-proofs), [other observations](#behaviours-worth-knowing),
[limits](#what-is-not-modelled), [plan](#plan), [running it](#running-it).

## The system

Two users play a best of three over Socket.IO. They meet through a matchmaking queue, an
invitation, or the king-of-the-hill queue of a squad. The server holds each match as a
*room* in memory, resolves its rounds, and stores rounds and result in PostgreSQL; a
finished match updates statistics, awards badges, and queues transactions for contracts.

| Component | State | Operations | Correct when |
|---|---|---|---|
| Game engine (`modules/game/engine`) | none | result of a round, result of a match | draw iff equal; the rules are fair; first to two |
| Game rooms (`game.service.ts`, `game.gateway.ts`) | `rooms: Map`, tables `Match`, `MatchMove` | createRoom, submitMove, resolveRound, finalizeMatch; `game:move`, `game:reconnect`, `game:invite_*`, `spectate:join`, `game:rematch` | score, history and verdict agree; moves are commitments; verdicts are final; what is stored and what is broadcast agree with the room |
| Matchmaking (`matchmaking.*.ts`) | `queue`, `socketToUser` | join, cancel, disconnect, tryMatch | nobody waits beside somebody, plays itself, or is dropped |
| Squad arena (`squad.gateway.ts`) | champion, challenger, queue, `currentRoomId`, `isMatchInProgress` per squad; `socketToSquad` | join_queue, leave_queue, tryStartMatch, startSquadMatch, handleMatchEnd, disconnect, notifyMatchEnd | one seat per user; fair queue; nobody lost; the winner is champion; a match that ends frees the arena |
| Friends (`friend.service.ts`) | `onlineUsers` map, `Friendship` rows | online/offline, request, answer, remove | who is online can be reached; one relation per pair |
| Statistics and achievements (`game.service.ts`, `achievement.service.ts`) | counters, streaks and points of `User`, `UserAchievement` rows | the rest of finalizeMatch; checkAndAward | points add up; each badge stored and minted once; every finalization ends |
| Blockchain and email queues (`core/queue`) | BullMQ jobs, transaction hashes | enqueue, process, retry, clean | what is acknowledged is recorded |
| Web3 provider and contracts (`core/provider`, `src/contracts-hardhat/contracts`) | contract storage | recordMatch, mint, register | a receipt means that this call wrote; repeated calls do no harm |
| Squads (`modules/squad/service`) | `Squad`, `SquadMember`, `SquadInvite` | create, invite, answer, leave, kick, roles, delete | one owner; everybody else has answered an invitation |
| Sessions (`modules/auth`, `jwt-auth.guard.ts`, `redis.service.ts`) | refresh hash, blacklist, active-status cache | register, login, sign-in with Ethereum, silent refresh, logout | a spent pair stays out; a deactivation or a demotion takes hold |
| Password reset (`password.service.ts`) | OTP | request, verify, reset | an OTP is used once |
| Users, wallets | rows | update, deactivate, verify a wallet | a wallet has one owner |
| Notifications, chat | append-only rows | send | nothing between steps to go wrong |
| Leaderboard, replay, verification | none (queries) | read | what they read is consistent |
| Email, infrastructure | configuration | send, wire, format | pure input/output |

How they interact:

- `MatchmakingGateway` and `GameGateway.handleInviteAccept` look up two users, wait, call
  `GameService.createRoom`, which inserts the match row, waits, and adds the room.
  `handleInviteAccept` finds the inviter in `FriendService.onlineUsers`, which only the
  matchmaking gateway fills.
- `SquadGateway.startSquadMatch` hands `createRoom` **the entry objects of its own queue**;
  the room keeps them and `submitMove` writes moves into them. The two components share
  memory without saying so.
- `GameService.resolveRound` writes the round row without waiting for it, and starts
  `finalizeMatch` without waiting for it. `finalizeMatch` updates the row, calls
  `AchievementService`, `QueueService` and the leaderboard, and at its end
  `SquadGateway.notifyMatchEnd`. In practice mode (nobody has a wallet) it returns early.
- `QueueService` jobs are taken by processors that call `Web3Provider`, which calls the
  contracts and answers a simulated hash on failure.
- `JwtAuthGuard` reads Redis (blacklist, cache), then the database, and writes both.

What makes it hard: JavaScript runs a handler without interruption *to its next await*, so
every await is a place where every other handler, a disconnection or another match end may
come in between; a query may fail after it has committed; unawaited promises finish in any
order; rooms and queues die with the process. `PROJECT.json` lists these hazards by line.

## The modules

An **action is the code between two awaits**: the guard is made of the handler's early
returns and throws, the update of everything it assigns up to its next await or its end.
A query that is awaited commits and its handler resumes in one step, or it fails in a step
of its own (with or without having committed, where the difference can be seen).

| Module | Models | Kind |
|---|---|---|
| `RpsEngine` | `rps.engine.ts` | operators |
| `BestOfThree` | what a match promises | abstract specification |
| `GameRoom` | rooms, `game:move`, the two tables, the start of `finalizeMatch` | state machine, refines `BestOfThree` |
| `GameRoomProofs`, `GameRoomRefinement` | | proofs |
| `Lobby` | matchmaking, online map, `game:invite_accept`, `game:reconnect` | state machine |
| `LobbyProofs` | | proofs |
| `KingOfTheHill` | what an arena promises | abstract specification |
| `SquadArena` | `squad.gateway.ts` with the rooms it opens | state machine, refines `KingOfTheHill` |
| `MatchFinalization` | `finalizeMatch` after the room, `checkAndAward` | state machine |
| `ChainQueue` | both job queues, their processors, `Web3Provider`, the contracts | state machine |
| `Sessions` | the guard, sign-in and logout, the administrators' changes of an account | state machine |
| `SquadMembership` | `SquadService` and `FriendService` over their tables | state machine |
| `SquadArenaProofs`, `MatchFinalizationProofs`, `ChainQueueProofs`, `SessionsProofs`, `SquadMembershipProofs` | | proofs |
| `MCLobby`, `MCSquadArena`, `MCMatchFinalization`, `MCChainQueue`, `MCSessions`, `MCSquadMembership` | who holds which socket or seat, which jobs and requests there are | instances for TLC |

### GameRoom

| Variable | Code |
|---|---|
| `rooms[r]` | the `GameRoom` in `GameService.rooms`; `move` holds both players' `currentMove`, `wins` the two counters, `hash` whether `resultHash` is set |
| `opening` | calls of `createRoom` that wait for `prisma.match.create` |
| `writes[r]` | `matchMove.create` calls in flight |
| `fin[r]` | the await at which `finalizeMatch` stands |
| `match`, `matchMove` | the tables |
| `sent[r]` | what `handleMove` emitted, in order |

`InsertMatch`, `OpenRoom`, `CreateFails` are `createRoom`. `HandleMove` is the whole
`game:move` handler: `Submit` (submitMove) sets the move, `ResolveRound` pushes the round
and scores it and ends the match or clears the moves, `FinAfter` starts `finalizeMatch`,
`Announce` computes the broadcasts the way the gateway does. `StoreRound`/`LoseRound` answer
the unawaited write. `FinalizeStatus`, `FinalizeHash`, `FinalizeFails` are the awaits of
`finalizeMatch` up to the stored hash. `Crash` loses everything but the tables. Two
sockets of one user are two submissions of the same user; sockets are therefore not in this
module. `createRoom` keeps the player objects of its caller, so a room is born with whatever
moves they carry (`Carried`): none when a match or an invitation made them, those of their
last match when a squad did. It does not compare the two users either: who invites himself
sits on both seats. Two kinds of room refuse every move: one whose two objects both carry a
move is born so (finding 2), and in one where a user plays himself `submitMove` puts each of
his moves on the first seat, so the first move locks it. `PlayLocksNoRoom` says that there
is no third way: where one of two users could move, one can after every step. A message is
the record of the fields that the gateway gives it, and the constant ones (`roomId`, and the
`onChainHash` of `match_result`, which is always null, where `FRONTEND_INTEGRATION.md:763`
shows a hash) are left out. Moves are the real three, hashes are a Boolean, and statuses `waiting` and
`abandoned`, which no code sets, are left out.

`BestOfThree` knows neither rounds nor tables: a match is idle, playing, decided,
recorded or void; points come one at a time; the second point of a side decides; a decided
match may be recorded once; what is not recorded may be lost. The refinement mapping
(`phaseBar`, `scoreBar`, `winnerBar`) reads memory until the row is COMPLETED and the row
from then on, so a crash between the announcement and the row maps to `Void` and one after
the row to a stutter.

### Lobby

`queue` is the matchmaking queue (an entry is the socket that joined), `tracked` the
gateway's `socketToUser`, `online` the friend service's map, `rooms` the rooms in the order
they were asked for and `opened` the same in the order of the `Map`, which
`findActiveRoomByUserId` searches. `Join` is `matchmaking:join` with `tryMatch` to its
await; `OpenRoom`/`OpenFails` are the rest of `tryMatch` and of `handleInviteAccept`.
`Disconnect` is both the gateway's handler and Socket.IO's own removal of the socket from
its rooms. `AcceptInvite` has no more guards than the code: an invitation may be accepted by
whoever sent it. `Listen` is `spectate:join` and `chat:join`, which take any socket into any
room that is open or over; so being in a room says nothing about a seat, and what players
are promised is said of their seats (`PlayersHearTheirRoom`, `ReconnectedIsSeated`).
`EndRoom` stands for all of `GameRoom`.

### SquadArena

`entry` is the heap of queue-entry objects, `cell[e]` the `currentMove` field of object `e`
reduced to the room in which it was submitted. That is the least that shows the sharing
of these objects between queue and rooms. `arena` is the `SquadGameState`. The synchronous
queue logic is a set of functions on `[arena, rooms]`: `TryStart`, `StartMatch`, `Settle`,
`MatchEnd`, `ChampionForfeits`, `ChallengerForfeits`, `PlayerDisconnect`, one per method or
branch, composed in the order the code calls them; so a disconnection that triggers a
forfeit that starts a match is one action. `Without` is the filter by user of
`handleLeaveQueue`, said by ranks: its k-th element is the one with k - 1 others of it
before it. `joining[s]` counts `handleJoinQueue` calls that
wait for their two queries. `Reconnect` is `game:reconnect`, which finds the user's first
active room (the order of the Map is kept in `before`, the rooms that were there when a room
opened) and writes the new socket into the entry object that the arena and the room share;
`tracked`, the gateway's own map, does not learn of it. `StartDone` and `StartFails` resume `startSquadMatch`;
`NotifyMatchEnd`, `FinalizePractice` and `FinalizeFails` are the three ends of
`finalizeMatch`. How a round ends is a free choice here (any side or a draw), because only
the score matters to the squad. `handleMatchEnd` has a branch for a draw; no caller
can reach it, since every ended match has a winner (`VerdictMatchesScore`, proved).

`KingOfTheHill` is one line of users: somebody comes to its end, one behind the first two
leaves, one of the first two loses and goes to the end, or all of it is lost. The refinement
mapping (`lineBar`) is the users of the champion, the challenger and the queue, in this
order. It hides sockets, entry objects, rooms, scores and pending database calls, so a room
that opens late, a match nobody is told of and a move are stutters, and a disconnection
that runs both forfeits is still one loss.

### MatchFinalization

The part of a match that `GameRoom` leaves out. `fin[m]` is the run of `finalizeMatch` for
match `m`, standing at one of its queries; `award[m][s]` is the call of `checkAndAward` for
one side, which runs on by itself when `Promise.all` has given up. `profile`, `badges` and
`wallet` are columns and rows of the users. `CreateRoom` copies who has a verified wallet
into the room, as the code does; what happens to a wallet afterwards reaches only the mint
(`LoadUser` reads the address). `CountWin` carries the row that the update answers with,
`RaiseLongest` writes what was read from it. `CreateBadge` inserts, mints and goes on in one
step, `BadgeTaken` is the violated unique key. `Join` is the end of `Promise.all`, `Reject`
its rejection. `Crash` ends every run; the rows stay.

### ChainQueue

`status`, `attempts` and `stalls` are the jobs in Redis; `stage` is where the running call
of a job, or a registration outside the queue, stands in the provider; `pool` holds
transactions that are sent and not mined, which a call that gave up leaves behind; `chain`
says whose transaction wrote each key of the contracts. `Mine` is the contract with its
`require`, and the receipt if somebody still waits for it. `CallFails` is the `catch` of the
provider, which answers a simulated hash. `Crash` leaves active jobs without a process, and a
mail that was being sent may have gone out; how
BullMQ hands a stalled job on once (`Stalled`), and its back-off, are modelled from the
options `QueueService` gives it.

### Sessions

One account. `user` is its row, `cached` the active flag and `siwe` the challenge in Redis,
`pairs[p]` the age of a token pair, the role signed into it and which of its tokens are on
the blacklist. A request goes through the guard one Redis or database call at a time and
keeps what it has read (`active`, `role`, `next`). A pair is `issued` until the response
sets the cookies, so a failure in between loses it. The row says only *whether* there is a
refresh hash: bcrypt compares no more than the first 72 bytes, and those are the same in all
refresh tokens of a user (header and the start of the payload with the user's id), so the
stored hash accepts each of them. That is why the blacklist, not the hash, is what
keeps a consumed token out. `AuthRepository` reads rows whether deleted or not (`LoadUser`
asks for `isActive` only), `UserRepository` leaves deleted rows out (`Found`).

### SquadMembership

The rows of one squad and the `Friendship` rows of its users. A request is the query it is
at and its arguments: `Start` the first query, `Check` one between, and an action of its own
for each that writes. Unique keys and the cascade are conditions of the writing step. The
arguments are those of the services.

**As the code stands, nobody reaches these services over HTTP.** The handlers of
`squad.controller.ts` take the user with `@CurrentUser('id')` (line 39 and all others) while
the guard attaches `{ userId, ... }`, so the user they pass on is `undefined`. The model, its
runs and its theorems are of the services as their signatures state them; they say what holds
once the controller passes the user, and nothing about requests to the present one. The
arena (`SquadArena`) is not concerned: its gateway is told the user by the client.

## The runs

`PROJECT.json` names, for every property, a mutant of the model (a dropped guard, a swapped
winner, a missing reset) under which TLC finds it violated.

| Run | Instance | States | Shows |
|---|---|---|---|
| `game_room` | 2 users on any two seats, 1 room, any moves brought, `MaxRounds` 3 | 257 thousand | history, counters and verdict agree; moves are commitments; play locks nobody out; stored rows and broadcasts never contradict the verdict; the room implements `BestOfThree` |
| `round_announced_once` | same | | finding 1 |
| `squad_arena` | 3 users, 4 sockets, one of which only reconnects, `MaxEntries` 3, `MaxJoins` 2, `MaxRooms` 2, `MaxPlayed` 1 | 501 thousand | nobody is seated twice or lost, the queue is fair, a player whose tracked socket is lost loses, ranked matches free the arena; the arena implements `KingOfTheHill` |
| `arena_moves_of_the_round` | 3 users with a socket each, no disconnections (`MaxRooms` 0), `MaxPlayed` 2 | | finding 2 |
| `arena_winner_is_champion` | 4 sockets that all join, `MaxJoins` 1, `MaxRooms` 3 | | finding 3 |
| `arena_practice_release` | 3 users with a socket each, `MaxRooms` 3, `MaxPlayed` 1 | | finding 4 |
| `lobby` | 2 users, 3 sockets, `MaxRooms` 2 | 304 thousand | who waits or is online can be reached, nobody is dropped or paired with itself, players hear their rooms and come back to their seats |
| `finalization` | 2 users, 2 matches between them, 2 badges, `MaxEvents` 1 | 166 thousand | points are never counted twice, badges are minted once, each finalization ends |
| `finalization_points` | same, `MaxEvents` 0 | | finding 5 |
| `chain_queue` | any 2 of 4 jobs and a registration, `Concurrency` 1, `MaxEvents` 2 | 114 thousand | a receipt means that this call wrote; copies of a mail are accounted for; mails settle, and the rest if calls to the chain end |
| `sessions` | 2 requests, 2 administrators, up to 3 pairs, 6 plans | 934 thousand | a spent pair is refused; deactivations and demotions take hold |
| `squads` | 3 users, 2 requests side by side, 3 plans (symmetry of requests) | 214 thousand | a squad has one owner and answered members; who is out after an answer stays out |

**Bounds and why they are enough.**

- `MaxRounds` (no move once so many rounds are resolved). Three rounds include every way to
  win (2-0, 2-1), a draw in any position, and matches left unfinished. The room's
  state after a drawn round differs from before only in history, so more rounds add no new
  shape; `GameRoomProofs` has no such bound in its conclusions (`MaxRounds` is any number).
- One room in `game_room`: rooms share no state but the user ids, and the proof is for any
  number of them. Two users are two players, or one on both seats with another who must be
  refused; the proofs have any number.
- `MaxEntries` (queue entries made plus joins under way), `MaxJoins` (joins under way of one
  socket): three entries are a champion, a challenger and one who waits, the least in
  which order and succession show; two simultaneous joins of one socket are the race of
  the duplicate check. An entry object survives lost matches, so a player's return to the
  queue needs no new entry.
- `MaxRooms` of `SquadArena` (no disconnection once so many rooms were opened) bounds the
  rooms forfeits may open: with two, the double forfeit of the first match, which opens two
  more, is there. `MaxPlayed` (rooms above it take no move): the first match is played or
  forfeited, the next opens and waits. `Joiners` (which sockets ask to join): the fourth
  socket is a second client, which comes by `game:reconnect` only. What a second played
  match adds is finding 2, whose run has two; the proofs have any number. One of the three
  users is verified, so both ranked and practice matches occur.
- `MaxRooms` of `Lobby` (no join or acceptance once so many rooms were asked for): with two,
  a user is in two rooms at once, the case in which the order of the Map matters. Two
  players, one with two clients, are all that a pairing, an invitation, a reconnection and a
  stranger who listens need; a third player at the door of the same queue is in the proofs.

- `MaxEvents` of `MatchFinalization` (wallet changes, failed queries and crashes together):
  one, anywhere, besides all interleavings of two finalizations. The second match is what a
  race needs; two badges with thresholds on both sides of the next win are one that a
  finalization may find taken and one it may store before or after that. The proofs are for
  any number of matches, badges and events.
- `MaxLoad` of `ChainQueue` (jobs and registrations there are): two calls are a race for one
  key, and a job beside one of higher priority; TLC chooses which two of a record, two mints
  of one badge, a mail and a registration. `MaxEvents` 2 is a job that loses its process
  twice, which is when BullMQ gives it up. `Concurrency` 1 is one process with BullMQ's
  default, in which a call that hangs keeps the jobs behind it waiting; safety is proved for
  any. Two calls cannot show starvation: a mint waits while any match is queued, so an
  endless stream of matches would starve it, and `JobsSettle` is about finitely many.
- `Plans` of `Sessions` and `SquadMembership` (which operations run in one behaviour, and
  with which pairs or users) take one concern at a time, since the whole product is out of
  reach: refreshing beside logout, beside sign-in, beside activation, beside deletion,
  beside role changes; sign-up beside deletion. Within a plan operations come in any
  order and number. Three pairs let two requests refresh with the same one.

Deadlock is checked in `GameRoom`; elsewhere the bounds, the finite supply of sockets or
jobs, or the end of all matches let the instance stop, so their configurations turn the
check off.

**Fairness.** Every fair action is one the runtime owes, and failure is always among the
fair steps, so nothing assumes that a database, a node or a mail server works. Players owe
no move, a socket owes no disconnection, and the process owes neither a crash nor its absence.

- `GameRoom`, `SquadArena`, `MatchFinalization`: a started `finalizeMatch` (and each
  `checkAndAward`) is resumed when its query is answered. For `FinishedMatchIsStored`,
  `RankedMatchReleases`, `FinalizationEnds`.
- `ChainQueue`: a worker takes jobs, back-off ends, a mail is answered or fails. For
  `JobsSettle`. A call to the chain is owed nothing: `tx.wait()` (`web3.provider.ts:138`,
  219, 300) has no time limit. That calls end is a premise of the property (`CallsEnd`), for
  the jobs of the chain only; without it a single transaction that is never mined keeps the
  blockchain queue standing until the process restarts.
- `Sessions`: what has a time to live in Redis or in a token expires, and a handler that was
  entered ends. For `AccountChangesTakeHold`, which would fail without the expiry of the
  flag: the guard may write a stale one back (`jwt-auth.guard.ts:147`).

## Where the code and its documentation disagree

1. **A round is announced twice** (`game.gateway.ts:60`, run `round_announced_once`). The
   gateway asks the *room* whether the last round of the history precedes the current one.
   That also holds when the first player of the next round has just moved, so from round 2
   on the first mover gets the previous result again and no `game:move_received`, and
   the opponent no `game:opponent_moved`. The score in these messages is right, which
   `BroadcastsTellTheRoom` shows: a client that takes messages as state is not misled, one
   that counts them is.
2. **A move survives its match** (`game.service.ts:168`, run `arena_moves_of_the_round`).
   `resolveRound` clears moves only if the match goes on, and a squad's players enter the
   next room with the same objects. The champion's last move counts as its first move of the
   next match: the opponent's first move resolves the round, and the champion's own choice
   is refused as already submitted. If the same two meet again both are refused for good.
3. **A winner who did not play becomes champion** (`squad.gateway.ts:254`, run
   `arena_winner_is_champion`). `startSquadMatch` sets `currentRoomId` after its await
   unconditionally. If a forfeit has started a second match meanwhile and the answers come
   in the other order, the older room becomes current and its end is settled against the
   seats of the newer match.
4. **A practice match never frees its arena** (`game.service.ts:252`, run
   `arena_practice_release`). The practice branch returns before `notifyMatchEnd`; a squad
   whose two players have no verified wallet plays one match and no more.
5. **Points do not add up** (`game.service.ts:367`, run `finalization_points`).
   `SYSTEM_STATUS_REPORT.md:171` has the points verified as ten for a win and twenty for a
   badge. Two finalizations of one user may both find the same badge missing. The one whose
   insert comes second violates the unique key, its `Promise.all` rejects, and it stops
   before the bonus of the badges either of its awards has stored, the other player's
   included. What does hold, whatever fails, is `PointsAddUp`: points are ten for a win
   and twenty for a badge whose bonus was *paid*.

## The proofs

All theorems are proved for every set of users, sockets, rooms and every value of the
bounds, from the named assumptions of the modules: `NoUser` is no user, `NoSocket` no
socket, every socket has an owner, the two seats of a match are two users, badges are
finitely many, the jobs of a type are of no other, bounds are naturals. Every lemma
and theorem is checked to the last leaf by tlapm with Z3, Zenon and LS4.

**GameRoomProofs.** The safety properties of a room are proved with one invariant,
`IInv == TypeOK /\ \A r : RoomInv(r) /\ StoredOK(r)`. None of the checked invariants is
inductive alone: that stored rows agree with the verdict depends on rows *in flight*, and
on rooms that have been lost since. `RoomInv` therefore says that every row, stored or in
flight, is the round of its number in the room's history while the room exists; that a room
opened from a row has its players; and where `finalizeMatch` may stand for each status.
`StoredOK` is what remains once the room is gone. `SubmitOK` is the central lemma: an
accepted move takes a room whose score, history and verdict agree to another, at most one
win further; it rests on `ResolveRoundOK`, `PushRoundOK` and a counting lemma on
`RoundsWon`. Each action then has a lemma of its own. The theorems `TypeCorrect`,
`ScoreCorrect`, `VerdictCorrect`, `RowsBackVerdict`, `BroadcastsCorrect` are invariants,
`NeverLocked`, `MovesAreCommitments` and `VerdictsAreFinal` action properties; they hold for
rooms born with any moves and with one user on both seats.
`EngineIsFair` says of the rules that a round is a draw exactly when the moves are equal,
that swapping the moves swaps the winner, and that every move beats exactly one.

**GameRoomRefinement.** `Refinement == Spec => ImplementsBestOfThree`: initial states map
to initial states, and, from `IInv`, each step maps to a step of `BestOfThree` or a stutter:
an opened room to `Open`, a move to `Point`, `Win` or a stutter, the completed row to
`Record`, a crash or a failed creation to `Void` of the matches that are lost.

**LobbyProofs.** `IInv` is the conjunction of all invariants of the run, which is inductive
only as a whole: a pair has two different players because the queue holds at most one entry
when somebody joins; leaving by user takes out the right socket because the entry
is the only one; the map of who is online stays live because a disconnection clears the
entry of the socket's *owner*, whichever socket it names; and an invitation seats sockets of
their owners because of that map. With it every step is seen to keep those who wait
(`NobodyIsDropped`) and to pass a seat only where a reconnection finds it
(`ReconnectedIsSeated`). `ListenInv` is why spectators disturb nothing: they only add to a room.

**SquadArenaProofs.** One step of the gateway runs `matchEnd` and `tryStartMatch` up to
twice, so the lemmas are about *worlds*, the pairs `[arena, rooms]` that the operators of
`SquadArena` work on. `Good(w, D)` says that a world is well typed over the entries `D`, that
none of them is in it twice, and that it is either at rest with at most one who waits or has
a champion, a challenger and a match; each operator has a lemma that says what it makes of
a good world: that it is good again, who is in it, who is champion, what has become of its
line, and that it is *fair* to the first (`PairIs`, `MatchEndIs`, `JoinIs`, `CutIs`,
`DisconnectIs`). The invariant
`IInv == Base /\ Good(World, DOMAIN entry) /\ Apart(arena) /\ Owned(DOMAIN entry)` adds
what `ArenaShape` and `OneSeatPerUser` need to carry on: an entry was made for the owner of
its socket, so that a disconnection, which looks for a socket, and a departure, which looks
for a user, find at most the one entry a join has let in. `NextStep` then says that every
step is `Orderly` (the invariant holds after it, nobody has overtaken anybody, it is a step
of the line, `Promised`, and nobody is gone but one who left the queue) or `Restart`. The
three invariants, three action properties and `Refinement == Spec => ImplementsKingOfTheHill`
follow from it and from `DisconnectIs`. A join maps to `Come`, a departure or the loss of a
waiting player's socket to `Go`, the end of a match or a forfeit to `Lose`, a restart to
`Close`, everything else to a stutter; the lemmas on `Named` say that turning and cutting the
line of entries does the same to the line of users. When the two forfeits of one
disconnection both run, the second puts the line back to what the first has made of it, which
is why two match ends are one loss (`DisconnectIs`). Nothing is assumed of the order
in which answers come in, so the theorems hold in spite of the disagreements 2 to 4 above:
an older room may decide *which* of the first two loses, but nobody else.

**MatchFinalizationProofs.** `PointsAddUp` is not inductive alone: a payment adds the bonus
of the badges one call has stored, which must be none of those already counted. `IInv` says
that badges stored by two calls for one user differ (`NewsDiffer`, kept because an insert
finds its row free), that each is in the table (`NewsStored`), that nothing is paid before
the awards, and that both calls have answered once a bonus is being paid (`Flow`), so what is
paid does not grow afterwards. `PayStep` is then a sum of cardinalities of disjoint sets.
`MintsAreBadges` follows from the free row in the same way.

**ChainQueueProofs.** A key of a contract is written once, so an answer that was right stays
right: `ReceiptsAreTrue` is inductive with the types. `MailsAreCounted` is not: `Counted` adds
that only an active job is being sent, that a job which may still run has an attempt left,
and that what a manual retry has before it has failed and will get one.

**SessionsProofs.** `IInv` says what a request that runs still knows of its pair: an expired
pair does not become fresh again, a blacklisted token stays listed as long as it is valid, a
pair that is not delivered belongs to one request. A *fresh* pair with a spent refresh token
has a blacklisted access token, because logout writes that one first; so the guard's
first look suffices to refuse it.

**SquadMembershipProofs.** `IInv` says of each request what its earlier queries found and
what is *still* so when it writes, though it holds no transaction: a request that changes a
member has a target that is not the owner, because the owner never changes while the squad is
there; one that joins has an answered invitation, or a squad that is gone. Without the second
half of each the property fails at the step that writes.

**Only model-checked.** Liveness (`FinishedMatchIsStored`, `RankedMatchReleases`,
`FinalizationEnds`, `JobsSettle`, `AccountChangesTakeHold`), which the prover does not reach.
Every invariant and every action property of a passing run is also a theorem.

## Behaviours worth knowing

Found while modelling; nearly all are steps of the models. No run claims a disagreement. Where
a comment in the code promises more than this, the comment is quoted.

- If `createRoom` fails in `handleJoinQueue` or after a match end, `isMatchInProgress` stays
  set and the squad starts no further match (`StartFails`).
- `handlePlayerDisconnect` does not wait for `handleMatchEnd`. If `createRoom` fails there
  the rejection is unhandled; `main.ts` installs no handler, and Node's default ends the
  process with every room and queue in it (`StartFails` with `Restart`).
- Who forfeits by disconnecting goes to the back of the queue as a *ghost* and is seated
  again in its turn. A socket that disconnects while its join waits is queued afterwards.
  Such a match waits for moves that never come; there is no timeout.
- `squad:leave_queue` untracks the socket even of a player who is in a match; its later
  disconnection is not noticed.
- `game:reconnect` writes the new socket into the entry that the arena looks at
  (`game.gateway.ts:203`, `squad.gateway.ts:407`) and nobody tracks it: after a player has come
  back, neither the loss of the old socket nor that of the new one is a forfeit.
- `createRoom` compares nothing: who accepts an invitation of its own plays itself, in a room
  that its first move locks (`GameRoom`, `Lobby`).
- `spectate:join` and `chat:join` take any socket into any room (`Listen`).
- The matchmaking queue and the online map are keyed by user and cleaned by socket: with two
  clients, the disconnection of one takes the user out of both.
- If a query of `tryMatch` fails, both players are in no queue and in no room (`OpenFails`).
- A user may be in two rooms; `game:reconnect` finds only the one first in the Map.
- After a restart, rows stay `IN_PROGRESS` for good.
- Rooms are never removed from the Map.
- A socket in the queues of two squads is tracked for the second only.
- A failed chain call is answered with a simulated hash, so its job is *completed*: neither
  the three attempts nor the manual retry nor the health endpoint ever see an error of the
  chain (`CallFails`). Two comments expect the contrary: `blockchain.processor.ts:34`, beside
  the `throw` that only a failure outside the provider could reach, `Re-throw to trigger
  BullMQ retry`, and `achievement.service.ts:32` of the minting job, `persistent with retries`.
- An invitation to a squad that was answered once can never be repeated: the check looks
  for a pending one, the unique key for any. Whoever declined, left, was kicked, or accepted
  when the insertion of the member failed, is out for good (`NoWayBack`).
- A request that has read the active flag before a deactivation may write it to the cache
  after it; the account is let in until the flag expires. The comments promise more:
  `user.controller.ts:185`, `403 on their next request`; `redis.service.ts:171`, `so the change
  takes effect within one request cycle`; `user.service.ts:257`, `deleted user should be blocked
  immediately`. That is so unless a request is under way. A demoted administrator remains one
  until the access token expires (`AccountChangesTakeHold` says: no longer).
- A refresh stores the hash and hands out the pair at the end of the request: if anything
  fails in between, the client keeps a spent token and must log in again.
- Two users who ask each other for friendship have two rows, and removing a friend removes
  one of them (`SendRequest`, `RemoveFriend`).

## What is not modelled

- Of `GameService`: `game:rematch`, `spectate:reaction` and the list of rooms change no state of
  the server beyond Socket.IO room membership, which is in `Lobby` (`Listen`).
- A match with oneself as far as `MatchFinalization` is concerned: its seats are two users. Such
  a room never ends (`GameRoom`), so none is finalized.
- Several squads at once. The arenas share only `socketToSquad`.
- Password reset: an OTP hash in Redis, three single queries, no state shared with the
  sessions (a reset ends none). Two resets with one OTP are possible
  (`password.service.ts:146`); both come from its holder.
- Of the wallets: the challenge of a link, which has the shape of the sign-in challenge in
  `Sessions`. Of users: profile edits, hard deletion, listings. Of squads: `updateSquad` and
  the messages of a squad.
- `PlayerProfile.updateProfile` and the read-only calls of the contracts.
- How many finished jobs BullMQ keeps; the rate limits.
- Notifications, chat messages, leaderboard, replay, verification: append-only rows and queries. What
  the queries read is the subject of `StoredRoundsBackVerdict`.
- Email templates, logging, configuration, formatting of responses, DTO validation: pure
  input/output without state between steps.

## Plan

The order is by what a mistake would cost. Each module is written to be proved about as well
as checked: constants with assumptions, one action per operation, no recursive operator.

1. Done: `GameRoom` with `BestOfThree`, `Lobby`, `MatchFinalization`, `ChainQueue`,
   `Sessions`, `SquadMembership`, `SquadArena`, each with proofs of all its safety properties.
2. Composition: an arena with two squads and one socket map; `Lobby` with `GameRoom` in
   place of `EndRoom`; `GameRoom` handing its matches to `MatchFinalization`.
3. Proofs: an abstract specification of the contracts (registers that are written once),
   with `ChainQueue` shown to implement it.
4. Password reset and the wallet link, if they come to share state with the sessions.

## Running it

```
tlc -workers 2 -config GameRoom.cfg GameRoom
tlc -workers 2 -config SquadArena.cfg MCSquadArena
tlc -workers 2 -config Lobby.cfg MCLobby
tlc -workers 2 -config MatchFinalization.cfg MCMatchFinalization
tlc -workers 2 -config ChainQueue.cfg MCChainQueue
tlc -workers 2 -config Sessions.cfg MCSessions
tlc -workers 2 -config SquadMembership.cfg MCSquadMembership
tlapm GameRoomProofs.tla
tlapm GameRoomRefinement.tla
tlapm LobbyProofs.tla
tlapm SquadArenaProofs.tla
tlapm MatchFinalizationProofs.tla
tlapm ChainQueueProofs.tla
tlapm SessionsProofs.tla
tlapm SquadMembershipProofs.tla
```

The largest run takes about two minutes. The other configurations are named in
`PROJECT.json`.
