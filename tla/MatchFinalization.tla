------------------------- MODULE MatchFinalization -------------------------
(***************************************************************************)
(* What a finished match leaves in the players' rows: finalizeMatch of     *)
(* GameService, checkAndAward of AchievementService and the wallet that    *)
(* makes a player ranked.                                                  *)
(*                                                                         *)
(* A user may finish several matches at about the same time, so several    *)
(* finalizations run side by side; an action is what one of them does from *)
(* one await to the next.  A query that commits and still reports an error *)
(* is the query followed by the failure of the next one.                   *)
(***************************************************************************)
EXTENDS RpsEngine, FiniteSets

CONSTANTS
    Users,         \* user ids
    Matches,       \* match ids
    seat,          \* who sits on each side of each match
    Achievements,  \* the rows of Achievement
    needs,         \* the win streak each one asks for
    startStreak,   \* the streak each user begins with, all its matches being wins
    MaxEvents      \* bound: wallets that change, queries that fail, crashes of the process

ASSUME FinalizationAssumption ==
    /\ seat \in [Matches -> [Sides -> Users]]
    /\ \A m \in Matches : seat[m]["player1"] # seat[m]["player2"]
    /\ IsFiniteSet(Achievements)
    /\ needs \in [Achievements -> Nat \ {0}]
    /\ startStreak \in [Users -> Nat]
    /\ MaxEvents \in Nat

VARIABLES
    wallet,   \* of each user: "none", "held", or "released" with walletVerifiedAt left behind
    profile,  \* the statistics in each row of User
    badges,   \* the rows of UserAchievement
    fin,      \* each match with its run of finalizeMatch
    award,    \* each run's two calls of checkAndAward
    mints,    \* how often mintBadgeOnChain was called for a user and a badge
    records,  \* how often recordMatchOnChain was called for a match
    events    \* wallets changed, queries failed, crashes

vars == <<wallet, profile, badges, fin, award, mints, records, events>>

Wallets == {"none", "held", "released"}
Profile == [wins : Nat, losses : Nat, totalMatches : Nat, points : Nat,
            currentStreak : Nat, longestStreak : Nat]

\* The queries of finalizeMatch, in the order of the code.
Queries == {"result", "hash", "winner", "longest", "loser", "bonus", "leaderboard"}
Stages == Queries \cup {"waiting", "playing", "awards", "squad", "practice", "done", "failed"}
Over == {"practice", "done", "failed"}
Fin == [stage : Stages, winner : Sides, verified : SUBSET Sides, beaten : Nat, paid : SUBSET Sides]

AwardQueries == {"user", "earned", "create"}
Award == [stage : AwardQueries \cup {"off", "done", "failed"}, streak : Nat, address : BOOLEAN,
          todo : SUBSET Achievements, new : SUBSET Achievements]
NoAward == [stage |-> "off", streak |-> 0, address |-> FALSE, todo |-> {}, new |-> {}]

Winner(m) == seat[m][fin[m].winner]
Loser(m) == seat[m][Opponent(fin[m].winner)]

----------------------------------------------------------------------------
(* Wallets.                                                                *)

\* connectVerified, after the challenge was answered
ConnectWallet(u) ==
    /\ events < MaxEvents /\ wallet[u] # "held"
    /\ events' = events + 1
    /\ wallet' = [wallet EXCEPT ![u] = "held"]
    /\ UNCHANGED <<profile, badges, fin, award, mints, records>>

\* disconnect clears the address only.
DisconnectWallet(u) ==
    /\ events < MaxEvents /\ wallet[u] = "held"
    /\ events' = events + 1
    /\ wallet' = [wallet EXCEPT ![u] = "released"]
    /\ UNCHANGED <<profile, badges, fin, award, mints, records>>

----------------------------------------------------------------------------
(* From the room to the stored result.                                     *)

\* createRoom keeps the players' wallets as they are now.
CreateRoom(m) ==
    /\ fin[m].stage = "waiting"
    /\ fin' = [fin EXCEPT ![m].stage = "playing",
                          ![m].verified = {s \in Sides : wallet[seat[m][s]] # "none"}]
    /\ UNCHANGED <<wallet, profile, badges, award, mints, records, events>>

\* resolveRound starts finalizeMatch and does not wait for it.
MatchEnds(m, w) ==
    /\ fin[m].stage = "playing"
    /\ fin' = [fin EXCEPT ![m].stage = "result", ![m].winner = w]
    /\ UNCHANGED <<wallet, profile, badges, award, mints, records, events>>

StoreResult(m) ==
    /\ fin[m].stage = "result"
    /\ fin' = [fin EXCEPT ![m].stage = "hash"]
    /\ UNCHANGED <<wallet, profile, badges, award, mints, records, events>>

\* The two calls of checkAndAward, for the verified players only.
StartAwards(m) ==
    award' = [award EXCEPT ![m] =
                [s \in Sides |-> IF s \in fin[m].verified THEN [@[s] EXCEPT !.stage = "user"] ELSE @[s]]]

\* What follows the winner's update.
AfterWinner(m) == IF Opponent(fin[m].winner) \in fin[m].verified THEN "loser" ELSE "awards"

\* The result hash; without a verified player nothing more is kept.
StoreHash(m) ==
    /\ fin[m].stage = "hash"
    /\ LET next == IF fin[m].verified = {} THEN "practice"
                   ELSE IF fin[m].winner \in fin[m].verified THEN "winner" ELSE AfterWinner(m)
       IN  /\ fin' = [fin EXCEPT ![m].stage = next]
           /\ records' = [records EXCEPT ![m] = @ + (IF next = "practice" THEN 0 ELSE 1)]
    /\ UNCHANGED <<wallet, profile, badges, award, mints, events>>

----------------------------------------------------------------------------
(* Statistics.                                                             *)

\* Continues m at a stage, and with checkAndAward if it is the awards' turn.
Goto(m, stage, beaten) ==
    /\ fin' = [fin EXCEPT ![m].stage = stage, ![m].beaten = beaten]
    /\ IF stage = "awards" THEN StartAwards(m) ELSE award' = award

Won(row) == [row EXCEPT !.wins = @ + 1, !.totalMatches = @ + 1, !.points = @ + 10, !.currentStreak = @ + 1]

\* The update answers with the row it leaves, which says whether the longest
\* streak is beaten.
CountWin(m) ==
    LET row == profile[Winner(m)]
        streak == row.currentStreak + 1
    IN  /\ fin[m].stage = "winner"
        /\ profile' = [profile EXCEPT ![Winner(m)] = Won(@)]
        /\ IF streak > row.longestStreak THEN Goto(m, "longest", streak) ELSE Goto(m, AfterWinner(m), 0)
        /\ UNCHANGED <<wallet, badges, mints, records, events>>

RaiseLongest(m) ==
    /\ fin[m].stage = "longest"
    /\ profile' = [profile EXCEPT ![Winner(m)].longestStreak = fin[m].beaten]
    /\ Goto(m, AfterWinner(m), 0)
    /\ UNCHANGED <<wallet, badges, mints, records, events>>

\* Mutant of Lost: a defeat takes the streak down by one.
LostOne(row) == [row EXCEPT !.losses = @ + 1, !.totalMatches = @ + 1, !.currentStreak = @ - 1]

Lost(row) == [row EXCEPT !.losses = @ + 1, !.totalMatches = @ + 1, !.currentStreak = 0]

CountLoss(m) ==
    /\ fin[m].stage = "loser"
    /\ profile' = [profile EXCEPT ![Loser(m)] = Lost(@)]
    /\ Goto(m, "awards", 0)
    /\ UNCHANGED <<wallet, badges, mints, records, events>>

----------------------------------------------------------------------------
(* Badges.  An award runs on even when the match's other one has failed.   *)

Bonus(n) == n * 20

\* Whose bonus is still to be paid, badges and all.
Owed(m, aw) == {s \in fin[m].verified \ fin[m].paid : aw[m][s].new # {}}

AfterAwards(m, aw) == IF Owed(m, aw) = {} THEN "leaderboard" ELSE "bonus"

\* Mutant of AllAnswered: an unverified player's award is waited for too.
BothAnswered(m, aw) == \A s \in Sides : aw[m][s].stage = "done"

AllAnswered(m, aw) == \A s \in Sides : aw[m][s].stage \in {"off", "done"}

\* Promise.all goes on when every call has answered.
Join(m, aw) ==
    /\ award' = aw
    /\ fin' = IF fin[m].stage = "awards" /\ AllAnswered(m, aw)
              THEN [fin EXCEPT ![m].stage = AfterAwards(m, aw)] ELSE fin

LoadUser(m, s) ==
    /\ award[m][s].stage = "user"
    /\ award' = [award EXCEPT ![m][s] =
                   [@ EXCEPT !.stage = "earned", !.streak = profile[seat[m][s]].currentStreak,
                             !.address = wallet[seat[m][s]] = "held"]]
    /\ UNCHANGED <<wallet, profile, badges, fin, mints, records, events>>

\* evaluate, for the criteria of the seed
Evaluate(a, streak) == streak >= needs[a]

\* The rows the user has now, and the badges that come to them.
LoadEarned(m, s) ==
    /\ award[m][s].stage = "earned"
    /\ LET todo == {a \in Achievements \ badges[seat[m][s]] : Evaluate(a, award[m][s].streak)}
       IN  Join(m, [award EXCEPT ![m][s].todo = todo,
                                 ![m][s].stage = IF todo = {} THEN "done" ELSE "create"])
    /\ UNCHANGED <<wallet, profile, badges, mints, records, events>>

\* Mutant of Insertable: the row is written whether or not it is there.
AlwaysInsertable(u, a) == TRUE

\* @@unique([userId, achievementId])
Insertable(u, a) == a \notin badges[u]

\* a is stored, and the last one ends the call.
Stored(aw, a) ==
    [aw EXCEPT !.todo = @ \ {a}, !.new = @ \cup {a}, !.stage = IF aw.todo = {a} THEN "done" ELSE "create"]

CreateBadge(m, s, a) ==
    LET u == seat[m][s] IN
    /\ award[m][s].stage = "create" /\ a \in award[m][s].todo
    /\ Insertable(u, a)
    /\ badges' = [badges EXCEPT ![u] = @ \cup {a}]
    /\ mints' = [mints EXCEPT ![u][a] = @ + (IF award[m][s].address THEN 1 ELSE 0)]
    /\ Join(m, [award EXCEPT ![m][s] = Stored(@, a)])
    /\ UNCHANGED <<wallet, profile, records, events>>

\* A rejected call rejects Promise.all at once.
Reject(m, s) ==
    /\ award' = [award EXCEPT ![m][s].stage = "failed"]
    /\ fin' = IF fin[m].stage = "awards" THEN [fin EXCEPT ![m].stage = "failed"] ELSE fin

\* The row is there already: another finalization was faster.
BadgeTaken(m, s, a) ==
    /\ award[m][s].stage = "create" /\ a \in award[m][s].todo
    /\ ~Insertable(seat[m][s], a)
    /\ Reject(m, s)
    /\ UNCHANGED <<wallet, profile, badges, mints, records, events>>

\* Mutant of BonusDue: the bonus of every badge the player has.
BonusOfAll(m, s) == Bonus(Cardinality(badges[seat[m][s]]))

BonusDue(m, s) == Bonus(Cardinality(award[m][s].new))

PayBonus(m, s) ==
    /\ fin[m].stage = "bonus" /\ s \in Owed(m, award)
    /\ s = "player2" => "player1" \notin Owed(m, award)
    /\ profile' = [profile EXCEPT ![seat[m][s]].points = @ + BonusDue(m, s)]
    /\ fin' = [fin EXCEPT ![m].paid = @ \cup {s},
                          ![m].stage = IF Owed(m, award) = {s} THEN "leaderboard" ELSE "bonus"]
    /\ UNCHANGED <<wallet, badges, award, mints, records, events>>

----------------------------------------------------------------------------
(* The end, failures and crashes.                                          *)

PushLeaderboard(m) ==
    /\ fin[m].stage = "leaderboard"
    /\ fin' = [fin EXCEPT ![m].stage = "squad"]
    /\ UNCHANGED <<wallet, profile, badges, award, mints, records, events>>

\* Whatever notifyMatchEnd does, its errors are caught.
NotifySquad(m) ==
    /\ fin[m].stage = "squad"
    /\ fin' = [fin EXCEPT ![m].stage = "done"]
    /\ UNCHANGED <<wallet, profile, badges, award, mints, records, events>>

\* resolveRound logs a failed finalization and nothing takes it up again.
FinalizeFails(m) ==
    /\ events < MaxEvents /\ fin[m].stage \in Queries
    /\ events' = events + 1
    /\ fin' = [fin EXCEPT ![m].stage = "failed"]
    /\ UNCHANGED <<wallet, profile, badges, award, mints, records>>

AwardFails(m, s) ==
    /\ events < MaxEvents /\ award[m][s].stage \in AwardQueries
    /\ events' = events + 1
    /\ Reject(m, s)
    /\ UNCHANGED <<wallet, profile, badges, mints, records>>

\* Rooms and finalizations are memory.
Crash ==
    /\ events < MaxEvents
    /\ events' = events + 1
    /\ fin' = [m \in Matches |-> IF fin[m].stage \in Over \cup {"waiting"} THEN fin[m]
                                 ELSE [fin[m] EXCEPT !.stage = "failed"]]
    /\ award' = [m \in Matches |-> [s \in Sides |->
                   IF award[m][s].stage \in AwardQueries
                   THEN [award[m][s] EXCEPT !.stage = "failed"] ELSE award[m][s]]]
    /\ UNCHANGED <<wallet, profile, badges, mints, records>>

\* Users come with the matches they have won and any of the badges these allow:
\* an earlier finalization may have failed before it stored the others.
Init ==
    /\ wallet \in [Users -> {"none", "held"}]
    /\ badges \in [Users -> SUBSET Achievements]
    /\ \A u \in Users : \A a \in badges[u] : Evaluate(a, startStreak[u])
    /\ profile = [u \in Users |->
         [wins |-> startStreak[u], losses |-> 0, totalMatches |-> startStreak[u],
          points |-> 10 * startStreak[u] + Bonus(Cardinality(badges[u])),
          currentStreak |-> startStreak[u], longestStreak |-> startStreak[u]]]
    /\ fin = [m \in Matches |-> [stage |-> "waiting", winner |-> "player1", verified |-> {},
                                 beaten |-> 0, paid |-> {}]]
    /\ award = [m \in Matches |-> [s \in Sides |-> NoAward]]
    /\ mints = [u \in Users |-> [a \in Achievements |-> 0]]
    /\ records = [m \in Matches |-> 0]
    /\ events = 0

Finalize(m) ==
    \/ StoreResult(m) \/ StoreHash(m)
    \/ CountWin(m) \/ RaiseLongest(m) \/ CountLoss(m)
    \/ \E s \in Sides : PayBonus(m, s)
    \/ PushLeaderboard(m) \/ NotifySquad(m)

CheckAndAward(m, s) ==
    \/ LoadUser(m, s) \/ LoadEarned(m, s)
    \/ \E a \in Achievements : CreateBadge(m, s, a) \/ BadgeTaken(m, s, a)

Next ==
    \/ \E u \in Users : ConnectWallet(u) \/ DisconnectWallet(u)
    \/ \E m \in Matches :
         \/ CreateRoom(m)
         \/ \E w \in Sides : MatchEnds(m, w)
         \/ Finalize(m) \/ FinalizeFails(m)
         \/ \E s \in Sides : CheckAndAward(m, s) \/ AwardFails(m, s)
    \/ Crash

Spec == Init /\ [][Next]_vars

\* The database answers every query, and the process goes on.
FairSpec ==
    /\ Spec
    /\ \A m \in Matches :
         WF_vars(Finalize(m)) /\ \A s \in Sides : WF_vars(CheckAndAward(m, s))

----------------------------------------------------------------------------
(* Properties.                                                             *)

TypeOK ==
    /\ wallet \in [Users -> Wallets]
    /\ profile \in [Users -> Profile]
    /\ badges \in [Users -> SUBSET Achievements]
    /\ fin \in [Matches -> Fin]
    /\ award \in [Matches -> [Sides -> Award]]
    /\ mints \in [Users -> [Achievements -> Nat]]
    /\ records \in [Matches -> Nat]
    /\ events \in 0..MaxEvents

\* The badges whose bonus is not in the points: their finalization has yet to
\* pay it, or has failed and never will.
Unpaid(u) ==
    {a \in Achievements : \E m \in Matches, s \in Sides :
        seat[m][s] = u /\ s \notin fin[m].paid /\ a \in award[m][s].new}

\* Points are 10 for every win that was counted and 20 for every badge whose
\* bonus was paid (game.service.ts:261, 371), whatever finalizations of the
\* same user do side by side and wherever they fail: nothing is counted twice.
PointsAddUp ==
    \A u \in Users : profile[u].points = 10 * profile[u].wins + Bonus(Cardinality(badges[u] \ Unpaid(u)))

\* mintBadgeOnChain is called at most once for a player's badge, and only with
\* its row in the database (achievement.service.ts:54-71).
MintsAreBadges ==
    \A u \in Users, a \in Achievements : mints[u][a] <= (IF a \in badges[u] THEN 1 ELSE 0)

\* Every match that ended is finalized or given up: no finalization hangs in
\* its two awards (game.service.ts:171, 367).
FinalizationEnds ==
    \A m \in Matches : fin[m].stage = "result" ~> fin[m].stage \in Over

\* "Verify total points = (wins x 10) + (badges x 20)" (SYSTEM_STATUS_REPORT.md:171),
\* once nothing is under way any more.
PointsAsReported ==
    (\A m \in Matches : fin[m].stage \in Over \cup {"waiting", "playing"}
                        /\ \A s \in Sides : award[m][s].stage \notin AwardQueries)
    => \A u \in Users : profile[u].points = 10 * profile[u].wins + Bonus(Cardinality(badges[u]))
=============================================================================
