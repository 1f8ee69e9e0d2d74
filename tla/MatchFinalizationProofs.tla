---------------------- MODULE MatchFinalizationProofs ----------------------
(***************************************************************************)
(* The points of a user add up, and a badge is minted once, for any number *)
(* of users, matches and badges, and wherever a finalization fails.        *)
(*                                                                         *)
(* The argument for the points: the badges that two finalizations stored   *)
(* are different ones, since each insert finds its row free; those of a    *)
(* finalization that is not paid are not counted; and what is paid does    *)
(* not grow any more, as both calls of checkAndAward have answered by      *)
(* then.  So a payment adds a set of badges disjoint from those counted.   *)
(***************************************************************************)
EXTENDS MatchFinalization, TLAPS, FiniteSetTheorems

Answered == {"off", "done"}
BeforeAwards == {"waiting", "playing", "result", "hash", "winner", "longest", "loser"}

\* How far the finalization of m is, against its two awards.
FlowOf(f, aw) ==
    /\ f.stage \in BeforeAwards => f.paid = {}
    /\ f.stage = "bonus" => \A s \in Sides : aw[s].stage \in Answered
    /\ \A s \in f.paid : aw[s].stage \in Answered

Flow == \A m \in Matches : FlowOf(fin[m], award[m])

\* What a finalization has stored is in the table, and only it stored it.
NewsStored == \A m \in Matches, s \in Sides : award[m][s].new \subseteq badges[seat[m][s]]
NewsDiffer ==
    \A m, n \in Matches, s, t \in Sides :
        seat[m][s] = seat[n][t] /\ (m # n \/ s # t) => award[m][s].new \cap award[n][t].new = {}

Rows ==
    /\ wallet \in [Users -> Wallets]
    /\ records \in [Matches -> Nat]
    /\ events \in 0..MaxEvents
Runs == fin \in [Matches -> Fin] /\ award \in [Matches -> [Sides -> Award]] /\ Flow
Badges ==
    /\ badges \in [Users -> SUBSET Achievements]
    /\ mints \in [Users -> [Achievements -> Nat]]
    /\ MintsAreBadges
Money == profile \in [Users -> Profile] /\ PointsAddUp /\ NewsStored /\ NewsDiffer

IInv == Rows /\ Runs /\ Badges /\ Money

LEMMA OpponentType == ASSUME NEW s \in Sides PROVE Opponent(s) \in Sides
<1>1. \E t \in Sides : t # s
  BY DEF Sides
<1> QED
  BY <1>1 DEF Opponent

LEMMA BonusIsNat ==
    ASSUME NEW S, S \subseteq Achievements
    PROVE  IsFiniteSet(S) /\ Cardinality(S) \in Nat /\ Bonus(Cardinality(S)) \in Nat
<1>1. IsFiniteSet(S)
  BY FinalizationAssumption, FS_Subset
<1>2. Cardinality(S) \in Nat
  BY <1>1, FS_CardinalityType
<1> QED
  BY <1>1, <1>2 DEF Bonus

LEMMA InitIInv == Init => IInv
<1> SUFFICES ASSUME Init
             PROVE  IInv
  OBVIOUS
<1>1. Rows
  BY FinalizationAssumption DEF Init, Rows, Wallets
<1>2. NoAward \in Award
  BY DEF NoAward, Award, AwardQueries
<1>3. [stage |-> "waiting", winner |-> "player1", verified |-> {}, beaten |-> 0, paid |-> {}] \in Fin
  BY DEF Fin, Stages, Queries, Sides
<1>4. Runs
  <2>1. fin \in [Matches -> Fin] /\ award \in [Matches -> [Sides -> Award]]
    BY <1>2, <1>3 DEF Init
  <2>2. Flow
    BY DEF Init, Flow, FlowOf
  <2> QED
    BY <2>1, <2>2 DEF Runs
<1>5. Badges
  BY DEF Init, Badges, MintsAreBadges
<1>6. \A u \in Users :
        /\ profile[u] \in Profile
        /\ profile[u].points = 10 * profile[u].wins + Bonus(Cardinality(badges[u]))
  <2> SUFFICES ASSUME NEW u \in Users
               PROVE  /\ profile[u] \in Profile
                      /\ profile[u].points = 10 * profile[u].wins + Bonus(Cardinality(badges[u]))
    OBVIOUS
  <2> DEFINE bonus == Bonus(Cardinality(badges[u]))
             k == startStreak[u]
  <2>1. bonus \in Nat /\ k \in Nat
    <3>1. badges[u] \subseteq Achievements
      BY DEF Init
    <3> QED
      BY <3>1, BonusIsNat, FinalizationAssumption
  <2>2. profile[u] = [wins |-> k, losses |-> 0, totalMatches |-> k, points |-> 10 * k + bonus,
                      currentStreak |-> k, longestStreak |-> k]
    BY DEF Init
  <2> HIDE DEF bonus, k
  <2>3. 10 * k + bonus \in Nat
    BY <2>1
  <2>4. profile[u] \in Profile /\ profile[u].points = 10 * profile[u].wins + bonus
    BY <2>1, <2>2, <2>3 DEF Profile
  <2> QED
    BY <2>4 DEF bonus
<1>7. profile \in [Users -> Profile]
  BY <1>6 DEF Init
<1>8. \A m \in Matches, s \in Sides : award[m][s].new = {}
  BY DEF Init, NoAward
<1>9. PointsAddUp
  <2> SUFFICES ASSUME NEW u \in Users
               PROVE  badges[u] \ Unpaid(u) = badges[u]
    BY <1>6 DEF PointsAddUp
  <2>1. \A b : b \notin Unpaid(u)
    BY <1>8 DEF Unpaid
  <2> QED
    BY <2>1
<1> QED
  BY <1>1, <1>4, <1>5, <1>7, <1>8, <1>9 DEF IInv, Money, NewsStored, NewsDiffer

----------------------------------------------------------------------------
(* Steps of one finalization.                                              *)

\* The finalization of m goes on, with its awards.
LEMMA RunStep ==
    ASSUME Runs, NEW m \in Matches, NEW f \in Fin, NEW aw \in [Sides -> Award],
           fin' = [fin EXCEPT ![m] = f], award' = [award EXCEPT ![m] = aw], FlowOf(f, aw)
    PROVE  Runs'
<1>1. fin' \in [Matches -> Fin] /\ award' \in [Matches -> [Sides -> Award]]
  BY DEF Runs
<1>2. \A n \in Matches : /\ fin'[n] = IF n = m THEN f ELSE fin[n]
                         /\ award'[n] = IF n = m THEN aw ELSE award[n]
  BY DEF Runs
<1>3. Flow'
  BY <1>2 DEF Runs, Flow
<1> QED
  BY <1>1, <1>3 DEF Runs

\* No badge is stored and no bonus paid; a win comes with its ten points.
LEMMA QuietMoney ==
    ASSUME Badges, Money, Runs, profile' \in [Users -> Profile], UNCHANGED badges,
           \A u \in Users : \E d \in {0, 1} :
              profile'[u].wins = profile[u].wins + d /\ profile'[u].points = profile[u].points + 10 * d,
           \A m \in Matches : fin'[m].paid = fin[m].paid /\ \A s \in Sides : award'[m][s].new = award[m][s].new
    PROVE  Money'
<1>1. NewsStored' /\ NewsDiffer'
  BY DEF Money, NewsStored, NewsDiffer
<1>2. ASSUME NEW u \in Users
      PROVE  profile'[u].points = 10 * profile'[u].wins + Bonus(Cardinality(badges'[u] \ Unpaid(u)'))
  <2>1. Unpaid(u)' = Unpaid(u)
    BY DEF Unpaid
  <2>2. badges'[u] \ Unpaid(u)' = badges[u] \ Unpaid(u)
    BY <2>1
  <2> DEFINE bonus == Bonus(Cardinality(badges[u] \ Unpaid(u)))
  <2>3. bonus \in Nat
    BY BonusIsNat DEF Badges
  <2>4. profile[u].points = 10 * profile[u].wins + bonus /\ profile[u].wins \in Nat
    BY DEF Money, PointsAddUp, Profile
  <2> HIDE DEF bonus
  <2>5. profile'[u].points = 10 * profile'[u].wins + bonus
    BY <2>3, <2>4
  <2> QED
    BY <2>2, <2>5 DEF bonus
<1> QED
  BY <1>1, <1>2 DEF Money, PointsAddUp

\* Nothing of the profiles changes.
LEMMA SameMoney ==
    ASSUME Badges, Money, Runs, UNCHANGED <<profile, badges>>,
           \A m \in Matches : fin'[m].paid = fin[m].paid /\ \A s \in Sides : award'[m][s].new = award[m][s].new
    PROVE  Money'
<1>1. \A u \in Users :
        profile'[u].wins = profile[u].wins + 0 /\ profile'[u].points = profile[u].points + 10 * 0
  BY DEF Money, Profile
<1>2. profile' \in [Users -> Profile]
  BY DEF Money
<1> QED
  BY <1>1, <1>2, QuietMoney

LEMMA SameBadges == ASSUME Badges, UNCHANGED <<badges, mints>> PROVE Badges'
BY DEF Badges, MintsAreBadges

\* A step of one finalization that stores and pays nothing.
LEMMA QuietStep ==
    ASSUME IInv, NEW m \in Matches, NEW f \in Fin, NEW aw \in [Sides -> Award],
           fin' = [fin EXCEPT ![m] = f], award' = [award EXCEPT ![m] = aw], FlowOf(f, aw),
           f.paid = fin[m].paid, \A s \in Sides : aw[s].new = award[m][s].new
    PROVE  /\ Runs'
           /\ \A n \in Matches : fin'[n].paid = fin[n].paid /\ \A s \in Sides : award'[n][s].new = award[n][s].new
<1>1. Runs'
  BY RunStep DEF IInv
<1>2. \A n \in Matches : /\ fin'[n] = IF n = m THEN f ELSE fin[n]
                         /\ award'[n] = IF n = m THEN aw ELSE award[n]
  BY DEF IInv, Runs
<1> QED
  BY <1>1, <1>2

\* The finalization of m alone goes on.
LEMMA FinStep ==
    ASSUME IInv, NEW m \in Matches, NEW f \in Fin,
           fin' = [fin EXCEPT ![m] = f], UNCHANGED award, FlowOf(f, award[m]), f.paid = fin[m].paid
    PROVE  /\ Runs'
           /\ \A n \in Matches : fin'[n].paid = fin[n].paid /\ \A s \in Sides : award'[n][s].new = award[n][s].new
<1>1. award' = [award EXCEPT ![m] = award[m]] /\ award[m] \in [Sides -> Award]
  BY DEF IInv, Runs
<1> QED
  BY <1>1, QuietStep

\* A call of checkAndAward goes on; f is what it makes of its finalization.
LEMMA AwardStep ==
    ASSUME IInv, NEW m \in Matches, NEW s \in Sides, NEW rec \in Award, NEW f \in Fin,
           award[m][s].stage \in AwardQueries,
           award' = [award EXCEPT ![m][s] = rec], fin' = [fin EXCEPT ![m] = f],
           f.paid = fin[m].paid, f.stage = fin[m].stage \/ f.stage \notin BeforeAwards,
           f.stage = "bonus" => \A t \in Sides : award'[m][t].stage \in Answered
    PROVE  /\ Runs'
           /\ s \notin fin[m].paid
           /\ \A n \in Matches, t \in Sides :
                /\ fin'[n].paid = fin[n].paid
                /\ award'[n][t] = IF n = m /\ t = s THEN rec ELSE award[n][t]
<1> DEFINE aw == [award[m] EXCEPT ![s] = rec]
<1>1. /\ fin \in [Matches -> Fin]
      /\ award \in [Matches -> [Sides -> Award]]
      /\ FlowOf(fin[m], award[m])
  BY DEF IInv, Runs, Flow
<1>2. aw \in [Sides -> Award] /\ award' = [award EXCEPT ![m] = aw]
  BY <1>1
<1>3. award'[m] = aw /\ \A t \in Sides : aw[t] = IF t = s THEN rec ELSE award[m][t]
  BY <1>1, <1>2
<1>4. s \notin fin[m].paid
  BY <1>1 DEF FlowOf, Answered, AwardQueries
<1>5. FlowOf(f, aw)
  BY <1>1, <1>3, <1>4 DEF FlowOf
<1> HIDE DEF aw
<1>6. Runs'
  BY <1>2, <1>5, RunStep DEF IInv
<1>7. \A n \in Matches : /\ fin'[n] = IF n = m THEN f ELSE fin[n]
                         /\ award'[n] = IF n = m THEN aw ELSE award[n]
  BY <1>1, <1>2
<1>8. ASSUME NEW n \in Matches, NEW t \in Sides
      PROVE  /\ fin'[n].paid = fin[n].paid
             /\ award'[n][t] = IF n = m /\ t = s THEN rec ELSE award[n][t]
  <2>1. fin'[n].paid = fin[n].paid
    BY <1>7
  <2>2. CASE n = m
    BY <1>3, <2>1, <2>2
  <2>3. CASE n # m
    BY <1>7, <2>1, <2>3
  <2> QED
    BY <2>2, <2>3
<1> QED
  BY <1>4, <1>6, <1>8

\* What Join and Reject make of a finalization is such a step.
LEMMA JoinStep ==
    ASSUME IInv, NEW m \in Matches, NEW s \in Sides, NEW rec \in Award,
           award[m][s].stage \in AwardQueries, Join(m, [award EXCEPT ![m][s] = rec])
    PROVE  /\ Runs'
           /\ s \notin fin[m].paid
           /\ \A n \in Matches, t \in Sides :
                /\ fin'[n].paid = fin[n].paid
                /\ award'[n][t] = IF n = m /\ t = s THEN rec ELSE award[n][t]
<1> DEFINE aw == [award EXCEPT ![m][s] = rec]
           ends == fin[m].stage = "awards" /\ AllAnswered(m, aw)
           f == IF ends THEN [fin[m] EXCEPT !.stage = AfterAwards(m, aw)] ELSE fin[m]
<1>1. fin \in [Matches -> Fin] /\ FlowOf(fin[m], award[m])
  BY DEF IInv, Runs, Flow
<1>2. award' = aw /\ fin' = IF ends THEN [fin EXCEPT ![m].stage = AfterAwards(m, aw)] ELSE fin
  BY DEF Join
<1>3. AfterAwards(m, aw) \in {"leaderboard", "bonus"}
  BY DEF AfterAwards
<1>4. ends => \A t \in Sides : aw[m][t].stage \in Answered
  BY DEF AllAnswered, Answered
<1> HIDE DEF ends, aw
<1>5. fin' = [fin EXCEPT ![m] = f]
  BY <1>1, <1>2
<1>6. f \in Fin /\ f.paid = fin[m].paid
  BY <1>1, <1>3 DEF Fin, Stages, Queries
<1>7. f.stage = IF ends THEN AfterAwards(m, aw) ELSE fin[m].stage
  BY <1>1 DEF Fin
<1>8. f.stage = fin[m].stage \/ f.stage \notin BeforeAwards
  BY <1>3, <1>7 DEF BeforeAwards
<1>9. fin[m].stage # "bonus"
  BY <1>1 DEF FlowOf, Answered, AwardQueries
<1>10. f.stage = "bonus" => \A t \in Sides : award'[m][t].stage \in Answered
  BY <1>2, <1>4, <1>7, <1>9
<1> HIDE DEF f
<1>11. award' = [award EXCEPT ![m][s] = rec]
  BY <1>2 DEF aw
<1>12. ASSUME NEW g \in Fin,
              fin' = [fin EXCEPT ![m] = g], g.paid = fin[m].paid,
              g.stage = fin[m].stage \/ g.stage \notin BeforeAwards,
              g.stage = "bonus" => \A t \in Sides : award'[m][t].stage \in Answered
       PROVE  /\ Runs'
              /\ s \notin fin[m].paid
              /\ \A n \in Matches, t \in Sides :
                   /\ fin'[n].paid = fin[n].paid
                   /\ award'[n][t] = IF n = m /\ t = s THEN rec ELSE award[n][t]
  BY <1>11, <1>12, AwardStep
<1> QED
  BY <1>5, <1>6, <1>8, <1>10, <1>12

LEMMA RejectStep ==
    ASSUME IInv, NEW m \in Matches, NEW s \in Sides,
           award[m][s].stage \in AwardQueries, Reject(m, s)
    PROVE  /\ Runs'
           /\ \A n \in Matches : fin'[n].paid = fin[n].paid /\ \A t \in Sides : award'[n][t].new = award[n][t].new
<1> DEFINE rec == [award[m][s] EXCEPT !.stage = "failed"]
           f == IF fin[m].stage = "awards" THEN [fin[m] EXCEPT !.stage = "failed"] ELSE fin[m]
<1>1. fin \in [Matches -> Fin] /\ award \in [Matches -> [Sides -> Award]] /\ FlowOf(fin[m], award[m])
  BY DEF IInv, Runs, Flow
<1>2. award[m][s] \in Award
  BY <1>1
<1>3. rec \in Award /\ rec.new = award[m][s].new
  BY <1>2 DEF Award
<1>4. award' = [award EXCEPT ![m][s] = rec]
  BY <1>1 DEF Reject
<1>5. fin' = [fin EXCEPT ![m] = f]
  BY <1>1 DEF Reject
<1>6. f \in Fin /\ f.paid = fin[m].paid /\ (f.stage = fin[m].stage \/ f.stage = "failed")
  BY <1>1 DEF Fin, Stages
<1>7. f.stage # "bonus"
  BY <1>1, <1>6 DEF FlowOf, Answered, AwardQueries
<1> HIDE DEF rec, f
<1>8. f.stage = fin[m].stage \/ f.stage \notin BeforeAwards
  BY <1>6 DEF BeforeAwards
<1>9. /\ Runs'
      /\ \A n \in Matches, t \in Sides :
           /\ fin'[n].paid = fin[n].paid
           /\ award'[n][t] = IF n = m /\ t = s THEN rec ELSE award[n][t]
  BY <1>3, <1>4, <1>5, <1>6, <1>7, <1>8, AwardStep
<1> QED
  BY <1>3, <1>9

\* Goto leaves a stage before the awards for another one, or for the awards.
LEMMA GotoStep ==
    ASSUME IInv, NEW m \in Matches, NEW stage, NEW beaten \in Nat,
           fin[m].stage \in BeforeAwards, stage \in BeforeAwards \cup {"awards"}, Goto(m, stage, beaten)
    PROVE  /\ Runs'
           /\ \A n \in Matches : fin'[n].paid = fin[n].paid /\ \A t \in Sides : award'[n][t].new = award[n][t].new
<1> DEFINE f == [fin[m] EXCEPT !.stage = stage, !.beaten = beaten]
           begun == [s \in Sides |-> IF s \in fin[m].verified
                                     THEN [award[m][s] EXCEPT !.stage = "user"] ELSE award[m][s]]
           aw == IF stage = "awards" THEN begun ELSE award[m]
<1>1. fin \in [Matches -> Fin] /\ award \in [Matches -> [Sides -> Award]] /\ FlowOf(fin[m], award[m])
  BY DEF IInv, Runs, Flow
<1>2. fin' = [fin EXCEPT ![m] = f]
  BY <1>1 DEF Goto
<1>3. f \in Fin /\ f.stage = stage /\ f.paid = fin[m].paid
  BY <1>1 DEF Fin, Stages, Queries, BeforeAwards
<1>4. award' = [award EXCEPT ![m] = aw]
  BY <1>1 DEF Goto, StartAwards
<1>5. aw \in [Sides -> Award] /\ \A s \in Sides : aw[s].new = award[m][s].new
  <2>1. ASSUME NEW s \in Sides
        PROVE  begun[s] \in Award /\ begun[s].new = award[m][s].new
    <3>1. award[m][s] \in Award
      BY <1>1
    <3>2. [award[m][s] EXCEPT !.stage = "user"] \in Award
          /\ [award[m][s] EXCEPT !.stage = "user"].new = award[m][s].new
      BY <3>1 DEF Award, AwardQueries
    <3> QED
      BY <3>1, <3>2
  <2>2. begun \in [Sides -> Award]
    BY <2>1
  <2> HIDE DEF begun
  <2> QED
    BY <1>1, <2>1, <2>2
<1>6. fin[m].paid = {} /\ stage # "bonus"
  BY <1>1 DEF FlowOf, BeforeAwards
<1> HIDE DEF f, begun, aw
<1>7. FlowOf(f, aw)
  BY <1>3, <1>6 DEF FlowOf
<1> QED
  BY <1>2, <1>3, <1>4, <1>5, <1>7, QuietStep

----------------------------------------------------------------------------
(* The actions.                                                            *)

\* An action of this kind counts nothing: wallets, profiles, badges and mints stay.
Idle == UNCHANGED <<profile, badges, mints>> /\ Rows'

LEMMA IdleStep ==
    ASSUME IInv, Idle, Runs',
           \A m \in Matches : fin'[m].paid = fin[m].paid /\ \A s \in Sides : award'[m][s].new = award[m][s].new
    PROVE  IInv'
<1>1. Badges'
  BY SameBadges DEF IInv, Idle
<1>2. Money'
  BY SameMoney DEF IInv, Idle
<1> QED
  BY <1>1, <1>2 DEF IInv, Idle

LEMMA WalletStep ==
    ASSUME IInv, NEW u \in Users, ConnectWallet(u) \/ DisconnectWallet(u)
    PROVE  IInv'
<1>1. Idle
  BY FinalizationAssumption DEF IInv, Rows, Idle, ConnectWallet, DisconnectWallet, Wallets
<1>2. UNCHANGED <<fin, award>>
  BY DEF ConnectWallet, DisconnectWallet
<1>3. Runs'
  BY <1>2 DEF IInv, Runs, Flow
<1> QED
  BY <1>1, <1>2, <1>3, IdleStep

\* The steps that only move a finalization from one stage to another.
LEMMA StageStep ==
    ASSUME IInv, NEW m \in Matches,
           \/ CreateRoom(m) \/ (\E w \in Sides : MatchEnds(m, w)) \/ StoreResult(m) \/ StoreHash(m)
           \/ PushLeaderboard(m) \/ NotifySquad(m) \/ FinalizeFails(m)
    PROVE  IInv'
<1>1. fin[m] \in Fin /\ fin \in [Matches -> Fin] /\ FlowOf(fin[m], award[m])
  BY DEF IInv, Runs, Flow
<1>2. /\ wallet \in [Users -> Wallets] /\ records \in [Matches -> Nat] /\ events \in 0..MaxEvents
      /\ MaxEvents \in Nat
  BY FinalizationAssumption DEF IInv, Rows
<1>3. ASSUME NEW f \in Fin, fin' = [fin EXCEPT ![m] = f], UNCHANGED award, Idle,
             f.paid = fin[m].paid,
             f.stage \in BeforeAwards => fin[m].stage \in BeforeAwards, f.stage # "bonus"
      PROVE  IInv'
  <2>1. FlowOf(f, award[m])
    BY <1>1, <1>3 DEF FlowOf
  <2> QED
    BY <1>3, <2>1, FinStep, IdleStep
<1>4. CASE CreateRoom(m)
  <2> DEFINE f == [fin[m] EXCEPT !.stage = "playing",
                                 !.verified = {s \in Sides : wallet[seat[m][s]] # "none"}]
  <2>1. f \in Fin /\ f.paid = fin[m].paid /\ f.stage = "playing"
    BY <1>1 DEF Fin, Stages, Queries
  <2>2. fin' = [fin EXCEPT ![m] = f] /\ UNCHANGED award
    BY <1>1, <1>4 DEF CreateRoom
  <2>3. Idle /\ fin[m].stage = "waiting"
    BY <1>2, <1>4 DEF CreateRoom, Idle, Rows
  <2> HIDE DEF f
  <2> QED
    BY <1>3, <2>1, <2>2, <2>3 DEF BeforeAwards
<1>5. ASSUME NEW w \in Sides, MatchEnds(m, w)
      PROVE  IInv'
  <2> DEFINE f == [fin[m] EXCEPT !.stage = "result", !.winner = w]
  <2>1. f \in Fin /\ f.paid = fin[m].paid /\ f.stage = "result"
    BY <1>1 DEF Fin, Stages, Queries
  <2>2. fin' = [fin EXCEPT ![m] = f] /\ UNCHANGED award
    BY <1>1, <1>5 DEF MatchEnds
  <2>3. Idle /\ fin[m].stage = "playing"
    BY <1>2, <1>5 DEF MatchEnds, Idle, Rows
  <2> HIDE DEF f
  <2> QED
    BY <1>3, <2>1, <2>2, <2>3 DEF BeforeAwards
\* The others set the stage alone.
<1>6. ASSUME NEW stage \in Stages, fin' = [fin EXCEPT ![m].stage = stage], UNCHANGED award, Idle,
             stage \in BeforeAwards => fin[m].stage \in BeforeAwards, stage # "bonus"
      PROVE  IInv'
  <2> DEFINE f == [fin[m] EXCEPT !.stage = stage]
  <2>1. f \in Fin /\ f.paid = fin[m].paid /\ f.stage = stage
    BY <1>1 DEF Fin
  <2>2. fin' = [fin EXCEPT ![m] = f]
    BY <1>1, <1>6
  <2> HIDE DEF f
  <2> QED
    BY <1>3, <1>6, <2>1, <2>2
<1>7. CASE StoreResult(m)
  <2>1. Idle
    BY <1>2, <1>7 DEF StoreResult, Idle, Rows
  <2> QED
    BY <1>6, <1>7, <2>1 DEF StoreResult, Stages, Queries, BeforeAwards
<1>8. CASE StoreHash(m)
  <2> DEFINE next == IF fin[m].verified = {} THEN "practice"
                     ELSE IF fin[m].winner \in fin[m].verified THEN "winner" ELSE AfterWinner(m)
  <2>1. next \in Stages /\ next # "bonus"
    BY DEF AfterWinner, Stages, Queries
  <2>2. /\ fin' = [fin EXCEPT ![m].stage = next]
        /\ records' = [records EXCEPT ![m] = @ + (IF next = "practice" THEN 0 ELSE 1)]
    BY <1>8 DEF StoreHash
  <2> HIDE DEF next
  <2>3. Idle
    BY <1>2, <1>8, <2>2 DEF StoreHash, Idle, Rows
  <2> QED
    BY <1>6, <1>8, <2>1, <2>2, <2>3 DEF StoreHash, BeforeAwards
<1>9. CASE PushLeaderboard(m)
  <2>1. Idle
    BY <1>2, <1>9 DEF PushLeaderboard, Idle, Rows
  <2> QED
    BY <1>6, <1>9, <2>1 DEF PushLeaderboard, Stages, Queries, BeforeAwards
<1>10. CASE NotifySquad(m)
  <2>1. Idle
    BY <1>2, <1>10 DEF NotifySquad, Idle, Rows
  <2> QED
    BY <1>6, <1>10, <2>1 DEF NotifySquad, Stages, Queries, BeforeAwards
<1>11. CASE FinalizeFails(m)
  <2>1. Idle
    BY <1>2, <1>11 DEF FinalizeFails, Idle, Rows
  <2> QED
    BY <1>6, <1>11, <2>1 DEF FinalizeFails, Stages, Queries, BeforeAwards
<1> QED
  BY <1>4, <1>5, <1>7, <1>8, <1>9, <1>10, <1>11

LEMMA RowsKept ==
    ASSUME NEW row \in Profile
    PROVE  /\ Won(row) \in Profile /\ Won(row).wins = row.wins + 1 /\ Won(row).points = row.points + 10 * 1
           /\ Lost(row) \in Profile /\ Lost(row).wins = row.wins + 0 /\ Lost(row).points = row.points + 10 * 0
<1>1. /\ row.wins \in Nat /\ row.losses \in Nat /\ row.totalMatches \in Nat /\ row.points \in Nat
      /\ row.currentStreak \in Nat
  BY DEF Profile
<1>2. /\ row.wins + 1 \in Nat /\ row.losses + 1 \in Nat /\ row.totalMatches + 1 \in Nat
      /\ row.points + 10 \in Nat /\ row.currentStreak + 1 \in Nat
  BY <1>1
<1>3. Won(row) \in Profile
  BY <1>2 DEF Won, Profile
<1>4. Won(row).wins = row.wins + 1 /\ Won(row).points = row.points + 10
  BY DEF Won, Profile
<1>5. Lost(row) \in Profile
  BY <1>2 DEF Lost, Profile
<1>6. Lost(row).wins = row.wins /\ Lost(row).points = row.points
  BY DEF Lost, Profile
<1> QED
  BY <1>1, <1>3, <1>4, <1>5, <1>6

\* The three updates of the statistics.
LEMMA CountStep ==
    ASSUME IInv, NEW m \in Matches, CountWin(m) \/ RaiseLongest(m) \/ CountLoss(m)
    PROVE  IInv'
<1>1. /\ fin[m] \in Fin /\ fin[m].winner \in Sides /\ fin[m].beaten \in Nat
      /\ \A u \in Users : profile[u] \in Profile
      /\ profile \in [Users -> Profile]
  BY DEF IInv, Runs, Money, Fin
<1>2. Winner(m) \in Users /\ Loser(m) \in Users
  BY <1>1, OpponentType, FinalizationAssumption DEF Winner, Loser
<1>3. AfterWinner(m) \in BeforeAwards \cup {"awards"}
  BY DEF AfterWinner, BeforeAwards
<1>4. Rows'
  BY DEF IInv, Rows, CountWin, RaiseLongest, CountLoss
<1>5. UNCHANGED <<badges, mints>>
  BY DEF CountWin, RaiseLongest, CountLoss
<1>6. ASSUME NEW v \in Users, NEW row \in Profile, profile' = [profile EXCEPT ![v] = row],
             \E d \in {0, 1} : row.wins = profile[v].wins + d /\ row.points = profile[v].points + 10 * d,
             Runs',
             \A n \in Matches : fin'[n].paid = fin[n].paid
                                /\ \A s \in Sides : award'[n][s].new = award[n][s].new
      PROVE  IInv'
  <2>1. profile' \in [Users -> Profile]
    BY <1>1, <1>6
  <2>2. ASSUME NEW u \in Users
        PROVE  \E d \in {0, 1} : profile'[u].wins = profile[u].wins + d
                                 /\ profile'[u].points = profile[u].points + 10 * d
    <3>1. CASE u = v
      BY <1>1, <1>6, <3>1
    <3>2. CASE u # v
      <4>1. profile'[u] = profile[u] /\ profile[u].wins \in Nat /\ profile[u].points \in Nat
        BY <1>1, <1>6, <3>2 DEF Profile
      <4> QED
        BY <4>1
    <3> QED
      BY <3>1, <3>2
  <2>3. Money'
    BY <1>5, <1>6, <2>1, <2>2, QuietMoney DEF IInv
  <2> QED
    BY <1>4, <1>5, <1>6, <2>3, SameBadges DEF IInv
<1>7. CASE CountWin(m)
  <2> DEFINE row == profile[Winner(m)]
             streak == row.currentStreak + 1
             next == IF streak > row.longestStreak THEN "longest" ELSE AfterWinner(m)
             beaten == IF streak > row.longestStreak THEN streak ELSE 0
  <2>1. row \in Profile
    BY <1>1, <1>2
  <2>2. streak \in Nat
    BY <2>1 DEF Profile
  <2>3. /\ Won(row) \in Profile
        /\ Won(row).wins = row.wins + 1 /\ Won(row).points = row.points + 10 * 1
    BY <2>1, RowsKept
  <2>4. profile' = [profile EXCEPT ![Winner(m)] = Won(row)]
    BY <1>7 DEF CountWin
  <2>5. Goto(m, next, beaten) /\ fin[m].stage = "winner"
    BY <1>7 DEF CountWin
  <2>6. next \in BeforeAwards \cup {"awards"} /\ beaten \in Nat
    BY <1>3, <2>2 DEF BeforeAwards
  <2> HIDE DEF row, streak, next, beaten
  <2>7. /\ Runs'
        /\ \A n \in Matches : fin'[n].paid = fin[n].paid
                              /\ \A s \in Sides : award'[n][s].new = award[n][s].new
    BY <2>5, <2>6, GotoStep DEF BeforeAwards
  <2>8. \E d \in {0, 1} : /\ Won(row).wins = profile[Winner(m)].wins + d
                          /\ Won(row).points = profile[Winner(m)].points + 10 * d
    BY <2>3 DEF row
  <2> QED
    BY <1>2, <1>6, <2>3, <2>4, <2>7, <2>8
<1>8. CASE RaiseLongest(m)
  <2> DEFINE row == [profile[Winner(m)] EXCEPT !.longestStreak = fin[m].beaten]
  <2>1. profile[Winner(m)] \in Profile
    BY <1>1, <1>2
  <2>2. /\ row \in Profile
        /\ row.wins = profile[Winner(m)].wins + 0 /\ row.points = profile[Winner(m)].points + 10 * 0
    BY <1>1, <2>1 DEF Profile
  <2>3. profile' = [profile EXCEPT ![Winner(m)] = row]
    BY <1>1, <1>2, <1>8 DEF RaiseLongest
  <2> HIDE DEF row
  <2>4. /\ Runs'
        /\ \A n \in Matches : fin'[n].paid = fin[n].paid
                              /\ \A s \in Sides : award'[n][s].new = award[n][s].new
    BY <1>3, <1>8, GotoStep DEF BeforeAwards, RaiseLongest
  <2>5. \E d \in {0, 1} : /\ row.wins = profile[Winner(m)].wins + d
                          /\ row.points = profile[Winner(m)].points + 10 * d
    BY <2>2
  <2> QED
    BY <1>2, <1>6, <2>2, <2>3, <2>4, <2>5
<1>9. CASE CountLoss(m)
  <2> DEFINE row == profile[Loser(m)]
  <2>1. row \in Profile
    BY <1>1, <1>2
  <2>2. /\ Lost(row) \in Profile
        /\ Lost(row).wins = row.wins + 0 /\ Lost(row).points = row.points + 10 * 0
    BY <2>1, RowsKept
  <2>3. profile' = [profile EXCEPT ![Loser(m)] = Lost(row)]
    BY <1>9 DEF CountLoss
  <2>4. /\ Runs'
        /\ \A n \in Matches : fin'[n].paid = fin[n].paid
                              /\ \A s \in Sides : award'[n][s].new = award[n][s].new
    BY <1>9, GotoStep DEF BeforeAwards, CountLoss
  <2> HIDE DEF row
  <2>5. \E d \in {0, 1} : /\ Lost(row).wins = profile[Loser(m)].wins + d
                          /\ Lost(row).points = profile[Loser(m)].points + 10 * d
    BY <2>2 DEF row
  <2> QED
    BY <1>2, <1>6, <2>2, <2>3, <2>4, <2>5
<1> QED
  BY <1>7, <1>8, <1>9

\* The steps of checkAndAward that store nothing.
LEMMA LookStep ==
    ASSUME IInv, NEW m \in Matches, NEW s \in Sides,
           \/ LoadUser(m, s) \/ LoadEarned(m, s) \/ AwardFails(m, s)
           \/ \E a \in Achievements : BadgeTaken(m, s, a)
    PROVE  IInv'
<1>1. /\ fin[m] \in Fin /\ fin \in [Matches -> Fin] /\ FlowOf(fin[m], award[m])
      /\ award[m][s] \in Award /\ award \in [Matches -> [Sides -> Award]]
  BY DEF IInv, Runs, Flow
<1>2. wallet \in [Users -> Wallets] /\ events \in 0..MaxEvents /\ MaxEvents \in Nat
  BY FinalizationAssumption DEF IInv, Rows
<1>3. Idle
  BY <1>2 DEF IInv, Rows, Idle, LoadUser, LoadEarned, AwardFails, BadgeTaken
<1>4. ASSUME NEW rec \in Award, rec.new = award[m][s].new,
             Runs',
             \A n \in Matches, t \in Sides :
                 /\ fin'[n].paid = fin[n].paid
                 /\ award'[n][t] = IF n = m /\ t = s THEN rec ELSE award[n][t]
      PROVE  IInv'
  BY <1>3, <1>4, IdleStep
<1>5. CASE LoadUser(m, s)
  <2> DEFINE u == seat[m][s]
             rec == [award[m][s] EXCEPT !.stage = "earned", !.streak = profile[u].currentStreak,
                                        !.address = wallet[u] = "held"]
  <2>1. profile[u].currentStreak \in Nat
    BY FinalizationAssumption DEF IInv, Money, Profile
  <2>2. rec \in Award /\ rec.new = award[m][s].new
    BY <1>1, <2>1 DEF Award, AwardQueries
  <2>3. award' = [award EXCEPT ![m][s] = rec]
    BY <1>1, <1>5 DEF LoadUser
  <2>4. fin' = [fin EXCEPT ![m] = fin[m]]
    BY <1>1, <1>5 DEF LoadUser
  <2>5. award[m][s].stage \in AwardQueries /\ fin[m].stage # "bonus"
    BY <1>1, <1>5 DEF LoadUser, FlowOf, Answered, AwardQueries
  <2> HIDE DEF rec
  <2>6. /\ Runs'
        /\ \A n \in Matches, t \in Sides :
             /\ fin'[n].paid = fin[n].paid
             /\ award'[n][t] = IF n = m /\ t = s THEN rec ELSE award[n][t]
    BY <1>1, <2>2, <2>3, <2>4, <2>5, AwardStep
  <2> QED
    BY <1>4, <2>2, <2>6
<1>6. CASE LoadEarned(m, s)
  <2> DEFINE todo == {a \in Achievements \ badges[seat[m][s]] : Evaluate(a, award[m][s].streak)}
             end == IF todo = {} THEN "done" ELSE "create"
             rec == [award[m][s] EXCEPT !.todo = todo, !.stage = end]
  <2>1. todo \subseteq Achievements /\ end \in {"done", "create"}
    OBVIOUS
  <2>2. Join(m, [award EXCEPT ![m][s].todo = todo, ![m][s].stage = end])
    BY <1>6 DEF LoadEarned
  <2>3. award[m][s].stage \in AwardQueries
    BY <1>6 DEF LoadEarned, AwardQueries
  <2> HIDE DEF todo, end
  <2>4. rec \in Award /\ rec.new = award[m][s].new
    BY <1>1, <2>1 DEF Award, AwardQueries
  <2>5. [award EXCEPT ![m][s].todo = todo, ![m][s].stage = end] = [award EXCEPT ![m][s] = rec]
    BY <1>1
  <2> HIDE DEF rec
  <2>6. Join(m, [award EXCEPT ![m][s] = rec])
    BY <2>2, <2>5
  <2> QED
    BY <1>4, <2>3, <2>4, <2>6, JoinStep
<1>7. ASSUME Reject(m, s), award[m][s].stage \in AwardQueries
      PROVE  IInv'
  BY <1>3, <1>7, RejectStep, IdleStep
<1>8. CASE AwardFails(m, s)
  BY <1>7, <1>8 DEF AwardFails
<1>9. ASSUME NEW a \in Achievements, BadgeTaken(m, s, a)
      PROVE  IInv'
  BY <1>7, <1>9 DEF BadgeTaken, AwardQueries
<1> QED
  BY <1>5, <1>6, <1>8, <1>9

\* A badge is stored where there was none, and its bonus is not paid yet: what
\* is counted stays the same.
LEMMA CreateStep ==
    ASSUME IInv, NEW m \in Matches, NEW s \in Sides, NEW a \in Achievements, CreateBadge(m, s, a)
    PROVE  IInv'
<1> DEFINE u == seat[m][s]
           rec == Stored(award[m][s], a)
<1>1. award[m][s] \in Award /\ award \in [Matches -> [Sides -> Award]]
  BY DEF IInv, Runs
<1>2. /\ u \in Users /\ a \notin badges[u]
      /\ badges \in [Users -> SUBSET Achievements]
      /\ badges' = [badges EXCEPT ![u] = @ \cup {a}]
  BY FinalizationAssumption DEF IInv, Badges, CreateBadge, Insertable
<1>3. rec \in Award /\ rec.new = award[m][s].new \cup {a}
  BY <1>1 DEF Stored, Award, AwardQueries
<1>4. Join(m, [award EXCEPT ![m][s] = rec]) /\ award[m][s].stage \in AwardQueries
  BY DEF CreateBadge, AwardQueries
<1> HIDE DEF rec
<1>5. /\ Runs'
      /\ s \notin fin[m].paid
      /\ \A n \in Matches, t \in Sides :
           /\ fin'[n].paid = fin[n].paid
           /\ award'[n][t] = IF n = m /\ t = s THEN rec ELSE award[n][t]
  BY <1>3, <1>4, JoinStep
<1>6. \A n \in Matches, t \in Sides :
        award'[n][t].new = IF n = m /\ t = s THEN award[m][s].new \cup {a} ELSE award[n][t].new
  <2>1. \A n \in Matches, t \in Sides :
          award'[n][t] = IF n = m /\ t = s THEN rec ELSE award[n][t]
    BY <1>5
  <2> QED
    BY <1>3, <2>1
<1>7. \A v \in Users : badges'[v] = IF v = u THEN badges[u] \cup {a} ELSE badges[v]
  BY <1>2
<1>8. Rows'
  BY DEF IInv, Rows, CreateBadge
<1>9. Badges'
  <2> DEFINE minted == IF award[m][s].address THEN 1 ELSE 0
  <2>1. mints' = [mints EXCEPT ![u][a] = @ + minted] /\ minted \in {0, 1}
    BY DEF CreateBadge
  <2> HIDE DEF minted
  <2>2. mints \in [Users -> [Achievements -> Nat]] /\ mints[u][a] = 0
    BY <1>2 DEF IInv, Badges, MintsAreBadges
  <2>3. /\ mints' \in [Users -> [Achievements -> Nat]]
        /\ \A v \in Users, b \in Achievements :
             mints'[v][b] = IF v = u /\ b = a THEN minted ELSE mints[v][b]
    BY <1>2, <2>1, <2>2
  <2>4. ASSUME NEW v \in Users, NEW b \in Achievements
        PROVE  mints'[v][b] <= IF b \in badges'[v] THEN 1 ELSE 0
    <3>1. CASE v = u /\ b = a
      BY <1>7, <2>1, <2>3, <3>1
    <3>2. CASE ~(v = u /\ b = a)
      <4>1. mints'[v][b] = mints[v][b] /\ (b \in badges'[v] <=> b \in badges[v])
        BY <1>7, <2>3, <3>2
      <4> QED
        BY <4>1 DEF IInv, Badges, MintsAreBadges
    <3> QED
      BY <3>1, <3>2
  <2>5. badges' \in [Users -> SUBSET Achievements]
    BY <1>2
  <2> QED
    BY <2>3, <2>4, <2>5 DEF Badges, MintsAreBadges
<1>10. NewsStored'
  <2> SUFFICES ASSUME NEW n \in Matches, NEW t \in Sides
               PROVE  award'[n][t].new \subseteq badges'[seat[n][t]]
    BY DEF NewsStored
  <2>1. award[n][t].new \subseteq badges[seat[n][t]] /\ seat[n][t] \in Users
    BY FinalizationAssumption DEF IInv, Money, NewsStored
  <2> QED
    BY <1>6, <1>7, <2>1
<1>11. NewsDiffer'
  <2> SUFFICES ASSUME NEW n \in Matches, NEW o \in Matches, NEW t \in Sides, NEW r \in Sides,
                      seat[n][t] = seat[o][r], n # o \/ t # r
               PROVE  award'[n][t].new \cap award'[o][r].new = {}
    BY DEF NewsDiffer
  <2>1. award[n][t].new \cap award[o][r].new = {}
    BY DEF IInv, Money, NewsDiffer
  <2>2. award[n][t].new \subseteq badges[seat[n][t]] /\ award[o][r].new \subseteq badges[seat[o][r]]
    BY DEF IInv, Money, NewsStored
  <2>3. CASE n = m /\ t = s
    <3>1. award'[n][t].new = award[n][t].new \cup {a} /\ award'[o][r].new = award[o][r].new
      BY <1>6, <2>3
    <3> QED
      BY <1>2, <2>1, <2>2, <2>3, <3>1
  <2>4. CASE o = m /\ r = s
    <3>1. award'[o][r].new = award[o][r].new \cup {a} /\ award'[n][t].new = award[n][t].new
      BY <1>6, <2>4
    <3> QED
      BY <1>2, <2>1, <2>2, <2>4, <3>1
  <2>5. CASE ~(n = m /\ t = s) /\ ~(o = m /\ r = s)
    BY <1>6, <2>1, <2>5
  <2> QED
    BY <2>3, <2>4, <2>5
<1>12. ASSUME NEW v \in Users
       PROVE  badges'[v] \ Unpaid(v)' = badges[v] \ Unpaid(v)
  <2>1. Unpaid(v)' = {b \in Achievements : \E n \in Matches, t \in Sides :
                         seat[n][t] = v /\ t \notin fin'[n].paid /\ b \in award'[n][t].new}
    BY DEF Unpaid
  <2>2. \A b \in Achievements :
          b \in Unpaid(v)' <=> b \in Unpaid(v) \/ (v = u /\ b = a)
    <3> SUFFICES ASSUME NEW b \in Achievements
                 PROVE  b \in Unpaid(v)' <=> b \in Unpaid(v) \/ (v = u /\ b = a)
      OBVIOUS
    <3>1. ASSUME b \in Unpaid(v)' PROVE b \in Unpaid(v) \/ (v = u /\ b = a)
      <4>1. PICK n \in Matches, t \in Sides :
              seat[n][t] = v /\ t \notin fin'[n].paid /\ b \in award'[n][t].new
        BY <2>1, <3>1
      <4> QED
        BY <1>5, <1>6, <4>1 DEF Unpaid
    <3>2. ASSUME b \in Unpaid(v) PROVE b \in Unpaid(v)'
      <4>1. PICK n \in Matches, t \in Sides :
              seat[n][t] = v /\ t \notin fin[n].paid /\ b \in award[n][t].new
        BY <3>2 DEF Unpaid
      <4>2. t \notin fin'[n].paid /\ b \in award'[n][t].new
        BY <1>5, <1>6, <4>1
      <4> QED
        BY <2>1, <4>1, <4>2
    <3>3. ASSUME v = u, b = a PROVE b \in Unpaid(v)'
      <4>1. s \notin fin'[m].paid /\ b \in award'[m][s].new
        BY <1>5, <1>6, <3>3
      <4> QED
        BY <2>1, <3>3, <4>1
    <3> QED
      BY <3>1, <3>2, <3>3
  <2>3. badges[v] \subseteq Achievements
    BY <1>2
  <2> QED
    BY <1>2, <1>7, <2>2, <2>3
<1>13. PointsAddUp' /\ profile' \in [Users -> Profile]
  BY <1>12 DEF IInv, Money, PointsAddUp, CreateBadge
<1> QED
  BY <1>5, <1>8, <1>9, <1>10, <1>11, <1>13 DEF IInv, Money

\* A bonus is paid for badges none of which was counted before.
LEMMA PayStep ==
    ASSUME IInv, NEW m \in Matches, NEW s \in Sides, PayBonus(m, s)
    PROVE  IInv'
<1> DEFINE u == seat[m][s]
           new == award[m][s].new
           stage == IF Owed(m, award) = {s} THEN "leaderboard" ELSE "bonus"
           f == [fin[m] EXCEPT !.paid = @ \cup {s}, !.stage = stage]
<1>1. /\ fin[m] \in Fin /\ fin \in [Matches -> Fin] /\ FlowOf(fin[m], award[m])
      /\ award[m] \in [Sides -> Award] /\ award \in [Matches -> [Sides -> Award]]
  BY DEF IInv, Runs, Flow
<1>2. u \in Users /\ new \subseteq Achievements /\ new \subseteq badges[u] /\ s \notin fin[m].paid
  BY <1>1, FinalizationAssumption DEF PayBonus, Owed, IInv, Money, NewsStored, Award
<1>3. fin' = [fin EXCEPT ![m] = f] /\ award' = [award EXCEPT ![m] = award[m]]
  BY <1>1 DEF PayBonus
<1>4. f \in Fin /\ f.paid = fin[m].paid \cup {s} /\ f.stage \in {"leaderboard", "bonus"}
  BY <1>1 DEF Fin, Stages, Queries
<1>5. \A t \in Sides : award[m][t].stage \in Answered
  BY <1>1 DEF PayBonus, FlowOf
<1>6. FlowOf(f, award[m])
  BY <1>1, <1>4, <1>5 DEF FlowOf, BeforeAwards, Fin
<1> HIDE DEF f
<1>7. Runs'
  BY <1>1, <1>3, <1>4, <1>6, RunStep DEF IInv
<1>8. \A n \in Matches : fin'[n].paid = IF n = m THEN fin[m].paid \cup {s} ELSE fin[n].paid
  BY <1>1, <1>3, <1>4
<1>9. Rows' /\ Badges'
  BY SameBadges DEF IInv, Rows, PayBonus
<1>10. NewsStored' /\ NewsDiffer'
  BY DEF IInv, Money, NewsStored, NewsDiffer, PayBonus
<1>11. /\ profile' = [profile EXCEPT ![u].points = @ + Bonus(Cardinality(new))]
       /\ UNCHANGED <<award, badges>>
  BY DEF PayBonus, BonusDue
<1>12. profile \in [Users -> Profile] /\ badges[u] \subseteq Achievements
  BY <1>2 DEF IInv, Money, Badges
<1>13. Bonus(Cardinality(new)) \in Nat
  BY <1>2, BonusIsNat
<1>14. profile' \in [Users -> Profile]
  <2>1. profile[u].points + Bonus(Cardinality(new)) \in Nat
    BY <1>2, <1>12, <1>13 DEF Profile
  <2>2. [profile[u] EXCEPT !.points = profile[u].points + Bonus(Cardinality(new))] \in Profile
    BY <1>2, <1>12, <2>1 DEF Profile
  <2> QED
    BY <1>2, <1>11, <1>12, <2>2
<1>15. ASSUME NEW v \in Users, v # u
       PROVE  profile'[v] = profile[v] /\ Unpaid(v)' = Unpaid(v)
  <2>1. profile'[v] = profile[v]
    BY <1>11, <1>12, <1>15
  <2>2. \A n \in Matches, t \in Sides : seat[n][t] = v => (t \in fin'[n].paid <=> t \in fin[n].paid)
    BY <1>8, <1>15
  <2>3. Unpaid(v)' = {b \in Achievements : \E n \in Matches, t \in Sides :
                         seat[n][t] = v /\ t \notin fin'[n].paid /\ b \in award[n][t].new}
    BY <1>11 DEF Unpaid
  <2> QED
    BY <2>1, <2>2, <2>3 DEF Unpaid
<1>16. new \subseteq Unpaid(u)
  BY <1>2 DEF Unpaid
<1>17. Unpaid(u)' = Unpaid(u) \ new
  <2>1. Unpaid(u)' = {b \in Achievements : \E n \in Matches, t \in Sides :
                         seat[n][t] = u /\ t \notin fin'[n].paid /\ b \in award[n][t].new}
    BY <1>11 DEF Unpaid
  <2>2. ASSUME NEW b \in Unpaid(u)' PROVE b \in Unpaid(u) \ new
    <3>1. PICK n \in Matches, t \in Sides :
            seat[n][t] = u /\ t \notin fin'[n].paid /\ b \in award[n][t].new
      BY <2>1, <2>2
    <3>2. t \notin fin[n].paid /\ (n # m \/ t # s)
      BY <1>8, <3>1
    <3>3. b \notin new
      BY <3>1, <3>2 DEF IInv, Money, NewsDiffer
    <3> QED
      BY <2>1, <2>2, <3>1, <3>2, <3>3 DEF Unpaid
  <2>3. ASSUME NEW b \in Unpaid(u) \ new PROVE b \in Unpaid(u)'
    <3>1. PICK n \in Matches, t \in Sides :
            seat[n][t] = u /\ t \notin fin[n].paid /\ b \in award[n][t].new
      BY <2>3 DEF Unpaid
    <3>2. n # m \/ t # s
      BY <2>3, <3>1
    <3>3. t \notin fin'[n].paid
      BY <1>8, <3>1, <3>2
    <3>4. b \in Achievements
      BY <2>3 DEF Unpaid
    <3> QED
      BY <2>1, <3>1, <3>3, <3>4
  <2> QED
    BY <2>2, <2>3
<1>18. profile'[u].points = 10 * profile'[u].wins + Bonus(Cardinality(badges[u] \ Unpaid(u)'))
  <2> DEFINE old == badges[u] \ Unpaid(u)
             all == badges[u] \ (Unpaid(u) \ new)
             k == Cardinality(old)
             j == Cardinality(new)
  <2>1. all = old \cup new /\ old \cap new = {}
    BY <1>2, <1>16
  <2>2. IsFiniteSet(old) /\ IsFiniteSet(new) /\ k \in Nat /\ j \in Nat
    BY <1>2, <1>12, BonusIsNat
  <2>3. Cardinality(all) = k + j
    <3> HIDE DEF old, all
    <3>1. Cardinality(old \cap new) = 0
      BY <2>1, FS_EmptySet
    <3>2. Cardinality(old \cup new) = k + j - Cardinality(old \cap new)
      BY <2>2, FS_Union DEF k, j
    <3> QED
      BY <2>1, <2>2, <3>1, <3>2
  <2>4. /\ profile[u].points = 10 * profile[u].wins + Bonus(k)
        /\ profile[u].points \in Nat /\ profile[u].wins \in Nat
    BY <1>2, <1>12 DEF IInv, Money, PointsAddUp, Profile
  <2>5. profile'[u].points = profile[u].points + Bonus(j) /\ profile'[u].wins = profile[u].wins
    <3>1. profile[u] \in Profile
      BY <1>2, <1>12
    <3>2. profile'[u] = [profile[u] EXCEPT !.points = profile[u].points + Bonus(j)]
      BY <1>2, <1>11, <1>12
    <3> HIDE DEF j
    <3> QED
      BY <3>1, <3>2 DEF Profile
  <2> HIDE DEF k, j, old, all
  <2>6. profile'[u].points = 10 * profile'[u].wins + Bonus(Cardinality(all))
    BY <2>2, <2>3, <2>4, <2>5 DEF Bonus
  <2> QED
    BY <1>17, <2>6 DEF all
<1>19. PointsAddUp'
  <2> SUFFICES ASSUME NEW v \in Users
               PROVE  profile'[v].points = 10 * profile'[v].wins
                                           + Bonus(Cardinality(badges'[v] \ Unpaid(v)'))
    BY DEF PointsAddUp
  <2>1. CASE v = u
    BY <1>11, <1>18, <2>1
  <2>2. CASE v # u
    BY <1>11, <1>15, <2>2 DEF IInv, Money, PointsAddUp
  <2> QED
    BY <2>1, <2>2
<1> QED
  BY <1>7, <1>9, <1>10, <1>14, <1>19 DEF IInv, Money

LEMMA CrashStep == ASSUME IInv, Crash PROVE IInv'
<1>1. fin \in [Matches -> Fin] /\ award \in [Matches -> [Sides -> Award]] /\ Flow
  BY DEF IInv, Runs
<1>2. Idle
  BY FinalizationAssumption DEF IInv, Rows, Idle, Crash
<1>3. ASSUME NEW m \in Matches
      PROVE  /\ fin'[m] \in Fin /\ fin'[m].paid = fin[m].paid
             /\ fin'[m].stage = "failed" \/ (fin'[m] = fin[m] /\ fin[m].stage \in Over \cup {"waiting"})
  <2>1. fin[m] \in Fin
    BY <1>1
  <2>2. fin'[m] = IF fin[m].stage \in Over \cup {"waiting"} THEN fin[m]
                  ELSE [fin[m] EXCEPT !.stage = "failed"]
    BY DEF Crash
  <2> QED
    BY <2>1, <2>2 DEF Fin, Stages
<1>4. ASSUME NEW m \in Matches, NEW s \in Sides
      PROVE  /\ award'[m][s] \in Award /\ award'[m][s].new = award[m][s].new
             /\ award[m][s].stage \in Answered => award'[m][s] = award[m][s]
  <2>1. award[m][s] \in Award
    BY <1>1
  <2>2. award'[m][s] = IF award[m][s].stage \in AwardQueries
                       THEN [award[m][s] EXCEPT !.stage = "failed"] ELSE award[m][s]
    BY DEF Crash
  <2> QED
    BY <2>1, <2>2 DEF Award, Answered, AwardQueries
<1>5. fin' \in [Matches -> Fin]
  BY <1>3 DEF Crash
<1>6. award' \in [Matches -> [Sides -> Award]]
  <2>1. award' = [m \in Matches |-> [s \in Sides |-> award'[m][s]]]
    BY DEF Crash
  <2>2. \A m \in Matches, s \in Sides : award'[m][s] \in Award
    BY <1>4
  <2> QED
    BY <2>1, <2>2
<1>7. Flow'
  <2> SUFFICES ASSUME NEW m \in Matches
               PROVE  FlowOf(fin'[m], award'[m])
    BY DEF Flow
  <2>1. FlowOf(fin[m], award[m])
    BY <1>1 DEF Flow
  <2>2. \A s \in fin'[m].paid : award'[m][s].stage \in Answered
    <3>1. fin[m].paid \subseteq Sides
      BY <1>1 DEF Fin
    <3> QED
      BY <1>3, <1>4, <2>1, <3>1 DEF FlowOf
  <2> QED
    BY <1>3, <2>1, <2>2 DEF FlowOf, BeforeAwards, Over
<1>8. Runs'
  BY <1>5, <1>6, <1>7 DEF Runs
<1> QED
  BY <1>2, <1>3, <1>4, <1>8, IdleStep

LEMMA StepIInv == IInv /\ [Next]_vars => IInv'
<1> SUFFICES ASSUME IInv, [Next]_vars
             PROVE  IInv'
  OBVIOUS
<1>1. ASSUME NEW u \in Users, ConnectWallet(u) \/ DisconnectWallet(u) PROVE IInv'
  BY <1>1, WalletStep
<1>2. ASSUME NEW m \in Matches,
             \/ CreateRoom(m) \/ (\E w \in Sides : MatchEnds(m, w))
             \/ Finalize(m) \/ FinalizeFails(m)
      PROVE  IInv'
  <2>1. ASSUME NEW s \in Sides, PayBonus(m, s) PROVE IInv'
    BY <2>1, PayStep
  <2> QED
    BY <1>2, <2>1, StageStep, CountStep DEF Finalize
<1>3. ASSUME NEW m \in Matches, NEW s \in Sides, CheckAndAward(m, s) \/ AwardFails(m, s)
      PROVE  IInv'
  <2>1. ASSUME NEW a \in Achievements, CreateBadge(m, s, a) PROVE IInv'
    BY <2>1, CreateStep
  <2> QED
    BY <1>3, <2>1, LookStep DEF CheckAndAward
<1>4. CASE Crash
  BY <1>4, CrashStep
<1>5. CASE UNCHANGED vars
  <2>1. Idle
    BY <1>5 DEF vars, Idle, IInv, Rows
  <2>2. Runs'
    BY <1>5 DEF vars, IInv, Runs, Flow
  <2> QED
    BY <1>5, <2>1, <2>2, IdleStep DEF vars
<1> QED
  BY <1>1, <1>2, <1>3, <1>4, <1>5 DEF Next

----------------------------------------------------------------------------
(* Theorems.                                                               *)

\* The inductive invariant of finalizeMatch and checkAndAward
\* (game.service.ts:234-393, achievement.service.ts:23-84).
THEOREM Inductive == Spec => []IInv
BY InitIInv, StepIInv, PTL DEF Spec

\* Every row, finalization and call of checkAndAward keeps its shape; no count
\* of the statistics goes below zero.
THEOREM TypeCorrect == Spec => []TypeOK
<1>1. IInv => TypeOK
  BY DEF IInv, Rows, Runs, Badges, Money, TypeOK
<1> QED
  BY <1>1, Inductive, PTL

\* mintBadgeOnChain is called at most once for a player's badge, and only with
\* its row in the database (achievement.service.ts:54-71).
THEOREM BadgesMintedOnce == Spec => []MintsAreBadges
<1>1. IInv => MintsAreBadges
  BY DEF IInv, Badges
<1> QED
  BY <1>1, Inductive, PTL

\* The points of a user are ten for every win counted and twenty for every
\* badge whose bonus was paid (game.service.ts:261, 371), however many
\* finalizations of the user run side by side and wherever they fail.
THEOREM PointsAdd == Spec => []PointsAddUp
<1>1. IInv => PointsAddUp
  BY DEF IInv, Money
<1> QED
  BY <1>1, Inductive, PTL

=============================================================================
