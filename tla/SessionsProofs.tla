--------------------------- MODULE SessionsProofs ---------------------------
(***************************************************************************)
(* A spent pair is refused, for any number of pairs, requests and          *)
(* administrators.                                                         *)
(*                                                                         *)
(* What a request has read of its pair stays true while it runs: an        *)
(* expired pair does not become fresh again, a blacklisted token stays on  *)
(* the list as long as it is valid, and a pair that is not answered yet    *)
(* belongs to one request.  A fresh pair whose refresh token is spent has  *)
(* a blacklisted access token, as logout writes that one first; so a       *)
(* request with it does not pass the guard's first look.                   *)
(***************************************************************************)
EXTENDS Sessions, TLAPS

Known == {"fresh", "expired"}
WithPair == {"cache", "load", "fill", "blacklist", "user", "revoke", "recache",
             "handler", "outAccess", "outRefresh"}
Expired == {"blacklist", "user", "revoke"}

\* What holds of every pair.
PairFits(x) ==
    /\ x \in Pair
    /\ x.age = "issued" => x.revoked = {}
    /\ x.age = "fresh" /\ "refresh" \in x.revoked => "access" \in x.revoked

\* What a request knows of the pairs.
Fits(q, ps) ==
    /\ q \in Request
    /\ q.stage \in WithPair => q.pair # NoPair
    /\ q.stage = "store" /\ q.op \in {"get", "logout"} => q.pair # NoPair
    /\ q.stage \in {"consume", "wallet", "touch", "create"} => q.op \notin {"get", "logout"}
    /\ q.pair # NoPair => ps[q.pair].age \in Known
    /\ q.stage \in Expired => ps[q.pair].age = "expired"
    /\ q.stage = "outRefresh" /\ ps[q.pair].age = "fresh" => "access" \in ps[q.pair].revoked
    /\ q.spent => q.stage \in {"idle", "blacklist"}
    /\ q.spent /\ q.stage = "blacklist" => "refresh" \in ps[q.pair].revoked
    /\ q.stage \in {"store", "recache"} => q.next # NoPair
    /\ q.next # NoPair => ps[q.next].age = "issued"

PairsFit == \A p \in Pairs : PairFits(pairs[p])
RequestsFit == \A r \in Requests : Fits(req[r], pairs)
NextsDiffer == \A r, s \in Requests : r # s /\ req[r].next = req[s].next => req[r].next = NoPair

IInv == TypeOK /\ PairsFit /\ RequestsFit /\ NextsDiffer

\* A pair that changes, of which a request still knows what it knew.
Continues(x, y) ==
    /\ x.age \in Known => y.age \in Known
    /\ x.age = "expired" => y.age = "expired"
    /\ "refresh" \in x.revoked => "refresh" \in y.revoked
    /\ "access" \in x.revoked /\ y.age = "fresh" => "access" \in y.revoked

LEMMA IdleFits == \A ps : Idle \in Request /\ Fits(Idle, ps)
BY DEF Idle, Request, Stages, GuardStages, UserOps, Roles, Fits, WithPair, Expired

LEMMA UnusedFits == Unused \in Pair /\ PairFits(Unused)
BY DEF Unused, Pair, PairFits, Ages, Roles

LEMMA InitIInv == Init => IInv
<1> SUFFICES ASSUME Init
             PROVE  IInv
  OBVIOUS
<1>1. user \in User /\ user.role \in Roles
  <2>1. CASE user = [exists |-> TRUE, isActive |-> TRUE, deletedAt |-> FALSE, role |-> "USER", refreshToken |-> TRUE]
    BY <2>1 DEF User, Roles
  <2>2. CASE user = [exists |-> FALSE, isActive |-> FALSE, deletedAt |-> FALSE, role |-> "USER", refreshToken |-> FALSE]
    BY <2>2 DEF User, Roles
  <2> QED
    BY <2>1, <2>2 DEF Init
<1>2. pairs \in [Pairs -> Pair] /\ PairsFit
  <2>1. CASE pairs = [p \in Pairs |-> Unused]
    BY <2>1, UnusedFits DEF PairsFit
  <2>2. CASE pairs # [p \in Pairs |-> Unused]
    <3> DEFINE first == CHOOSE p \in plan.pairs : TRUE
               new == [age |-> "fresh", role |-> user.role, revoked |-> {}]
    <3>1. new \in Pair /\ PairFits(new)
      BY <1>1 DEF Pair, PairFits, Ages
    <3>2. pairs = [p \in Pairs |-> IF p = first THEN new ELSE Unused]
      BY <2>2 DEF Init
    <3> HIDE DEF first, new
    <3> QED
      BY <3>1, <3>2, UnusedFits DEF PairsFit
  <2> QED
    BY <2>1, <2>2
<1>3. TypeOK
  BY <1>1, <1>2, IdleFits DEF Init, TypeOK, Flags, AdminIdle, AdminRequest, AdminOps, Roles
<1>4. RequestsFit /\ NextsDiffer
  BY IdleFits DEF Init, RequestsFit, NextsDiffer, Idle
<1> QED
  BY <1>2, <1>3, <1>4 DEF IInv

LEMMA StillFits ==
    ASSUME NEW q, NEW ps, NEW qs, Fits(q, ps),
           q.pair # NoPair => Continues(ps[q.pair], qs[q.pair]),
           q.next # NoPair => qs[q.next].age = "issued"
    PROVE  Fits(q, qs)
BY DEF Fits, Continues, WithPair, Expired, Known

\* A step of one request that leaves the pairs alone.
LEMMA ReqStep ==
    ASSUME IInv, NEW r \in Requests, NEW q, Fits(q, pairs), q.next \in {req[r].next, NoPair},
           req' = [req EXCEPT ![r] = q], UNCHANGED pairs
    PROVE  req' \in [Requests -> Request] /\ pairs' \in [Pairs -> Pair] /\ PairsFit' /\ RequestsFit' /\ NextsDiffer'
<1>1. q \in Request /\ req \in [Requests -> Request] /\ pairs \in [Pairs -> Pair]
  BY DEF Fits, IInv, TypeOK
<1>2. \A s \in Requests : req'[s] = IF s = r THEN q ELSE req[s]
  BY <1>1
<1>3. req' \in [Requests -> Request]
  BY <1>1
<1>4. PairsFit' /\ RequestsFit'
  BY <1>2 DEF IInv, PairsFit, RequestsFit
<1>5. NextsDiffer'
  BY <1>2 DEF IInv, NextsDiffer
<1> QED
  BY <1>1, <1>3, <1>4, <1>5

\* A step of one request that changes pairs: the others know what they knew.
LEMMA PairStep ==
    ASSUME IInv, NEW r \in Requests, NEW q, Fits(q, pairs'),
           req' = [req EXCEPT ![r] = q], pairs' \in [Pairs -> Pair], PairsFit',
           q.next = NoPair \/ (q.next \in Pairs /\ pairs[q.next].age = "unused") \/ q.next = req[r].next,
           \A p \in Pairs : pairs[p].age \in Known => Continues(pairs[p], pairs'[p]),
           \A p \in Pairs : pairs[p].age = "issued" /\ p # req[r].next => pairs'[p].age = "issued"
    PROVE  req' \in [Requests -> Request] /\ pairs' \in [Pairs -> Pair] /\ PairsFit' /\ RequestsFit' /\ NextsDiffer'
<1>1. q \in Request /\ req \in [Requests -> Request]
  BY DEF Fits, IInv, TypeOK
<1>2. \A s \in Requests : req'[s] = IF s = r THEN q ELSE req[s]
  BY <1>1
<1>3. ASSUME NEW s \in Requests, s # r
      PROVE  /\ Fits(req[s], pairs')
             /\ req[s].next # NoPair => req[s].next # q.next
  <2>1. Fits(req[s], pairs) /\ req[s] \in Request
    BY DEF IInv, RequestsFit, Fits
  <2>2. req[s].pair # NoPair => Continues(pairs[req[s].pair], pairs'[req[s].pair])
    BY <2>1 DEF Fits, Request
  <2>3. req[s].next # NoPair => req[s].next # req[r].next
    BY <1>3 DEF IInv, NextsDiffer
  <2>4. req[s].next # NoPair => pairs[req[s].next].age = "issued" /\ pairs'[req[s].next].age = "issued"
    BY <2>1, <2>3 DEF Fits, Request
  <2> QED
    BY <2>1, <2>2, <2>3, <2>4, StillFits
<1>4. RequestsFit'
  BY <1>2, <1>3 DEF RequestsFit
<1>5. NextsDiffer'
  BY <1>2, <1>3 DEF IInv, NextsDiffer
<1> QED
  BY <1>1, <1>4, <1>5

\* What the two lemmas leave of the invariant.
Rest ==
    /\ user \in User
    /\ cached \in Flags
    /\ siwe \in BOOLEAN
    /\ admin \in [Admins -> AdminRequest]
    /\ plan \in Plans

Rows == req \in [Requests -> Request] /\ pairs \in [Pairs -> Pair] /\ PairsFit /\ RequestsFit /\ NextsDiffer

LEMMA Halves == IInv <=> Rest /\ Rows
BY DEF IInv, TypeOK, Rest, Rows

LEMMA HalvesPrime == IInv' <=> Rest' /\ Rows'
BY DEF IInv, TypeOK, Rest, Rows

\* A pair is issued while other pairs keep their age.
LEMMA IssueStep ==
    ASSUME IInv, NEW r \in Requests, NEW role \in Roles, NEW from \in [Pairs -> Pair],
           \A p \in Pairs : PairFits(from[p]) /\ from[p].age = pairs[p].age /\ Continues(pairs[p], from[p]),
           Issue(r, role, from, "store"),
           ~req[r].spent, req[r].stage \in Expired \/ req[r].op \notin {"get", "logout"}
    PROVE  Rows'
<1>1. PICK p \in {x \in plan.pairs : from[x].age = "unused"} :
        /\ pairs' = [from EXCEPT ![p] = [age |-> "issued", role |-> role, revoked |-> {}]]
        /\ req' = [req EXCEPT ![r] = [@ EXCEPT !.stage = "store", !.next = p, !.role = role]]
  BY DEF Issue
<1> DEFINE new == [age |-> "issued", role |-> role, revoked |-> {}]
           q == [req[r] EXCEPT !.stage = "store", !.next = p, !.role = role]
<1>2. p \in Pairs /\ p # NoPair /\ pairs[p].age = "unused"
  BY <1>1, SessionsAssumption DEF IInv, TypeOK
<1>3. new \in Pair /\ PairFits(new) /\ new.age = "issued"
  BY DEF Pair, PairFits, Ages
<1>4. Fits(req[r], pairs) /\ req[r] \in Request /\ req \in [Requests -> Request]
  BY DEF IInv, TypeOK, RequestsFit
<1>5. pairs' = [from EXCEPT ![p] = new] /\ req' = [req EXCEPT ![r] = q]
  BY <1>1, <1>4 DEF Request
<1>6. /\ q \in Request /\ q.stage = "store" /\ q.next = p /\ q.pair = req[r].pair
      /\ q.op = req[r].op /\ ~q.spent
  BY <1>2, <1>4 DEF Request, Stages, GuardStages
<1> HIDE DEF new, q
<1>7. \A x \in Pairs : pairs'[x] = IF x = p THEN new ELSE from[x]
  BY <1>2, <1>5
<1>8. pairs' \in [Pairs -> Pair] /\ PairsFit'
  BY <1>3, <1>5, <1>7 DEF PairsFit
<1>9. Fits(q, pairs')
  <2>1. q.pair # NoPair => pairs'[q.pair].age \in Known
    <3>1. q.pair # NoPair => pairs[q.pair].age \in Known /\ q.pair \in Pairs
      BY <1>4, <1>6 DEF Fits, Request
    <3> QED
      BY <1>2, <1>7, <3>1 DEF Known
  <2>2. q.op \in {"get", "logout"} => q.pair # NoPair
    BY <1>4, <1>6 DEF Fits, Expired, WithPair
  <2>3. pairs'[p].age = "issued"
    BY <1>2, <1>3, <1>7
  <2> QED
    BY <1>2, <1>6, <2>1, <2>2, <2>3 DEF Fits, WithPair, Expired
<1>10. \A x \in Pairs : pairs[x].age \in Known => Continues(pairs[x], pairs'[x])
  BY <1>2, <1>7 DEF Known
<1>11. \A x \in Pairs : pairs[x].age = "issued" => pairs'[x].age = "issued"
  BY <1>2, <1>7
<1> QED
  BY <1>2, <1>5, <1>6, <1>8, <1>9, <1>10, <1>11, PairStep DEF Rows

\* A request ends and its pair has gone to the client, or to nobody.
LEMMA EndStep ==
    ASSUME IInv, NEW r \in Requests, req' = [req EXCEPT ![r] = Idle],
           pairs' = Delivered(r) \/ pairs' = Lost(r)
    PROVE  Rows'
<1> DEFINE next == req[r].next
<1>1. Fits(req[r], pairs) /\ req[r] \in Request /\ pairs \in [Pairs -> Pair] /\ PairsFit
  BY DEF IInv, TypeOK, RequestsFit
<1>2. next # NoPair => next \in Pairs /\ pairs[next].age = "issued"
  BY <1>1 DEF Fits, Request
<1>3. PICK y : /\ next # NoPair => y \in Pair /\ PairFits(y)
               /\ pairs' = [x \in Pairs |-> IF x = next THEN y ELSE pairs[x]]
  <2>1. CASE pairs' = Delivered(r)
    <3> DEFINE y == [pairs[next] EXCEPT !.age = "fresh"]
    <3>1. next # NoPair => y \in Pair /\ PairFits(y)
      <4> HAVE next # NoPair
      <4>1. pairs[next] \in Pair /\ pairs[next].revoked = {}
        BY <1>1, <1>2 DEF PairsFit, PairFits
      <4> QED
        BY <4>1 DEF Pair, PairFits, Ages
    <3>2. pairs' = [x \in Pairs |-> IF x = next THEN y ELSE pairs[x]]
      BY <2>1 DEF Delivered
    <3> QED
      BY <3>1, <3>2
  <2>2. CASE pairs' = Lost(r)
    BY <2>2, UnusedFits DEF Lost
  <2> QED
    BY <2>1, <2>2
<1> HIDE DEF next
<1>4. pairs' \in [Pairs -> Pair] /\ PairsFit'
  BY <1>1, <1>3, SessionsAssumption DEF PairsFit
<1>5. \A x \in Pairs : pairs[x].age \in Known => Continues(pairs[x], pairs'[x])
  <2> SUFFICES ASSUME NEW x \in Pairs, pairs[x].age \in Known
               PROVE  Continues(pairs[x], pairs'[x])
    OBVIOUS
  <2>1. x # next
    BY <1>2, SessionsAssumption DEF Known
  <2>2. pairs'[x] = pairs[x]
    BY <1>3, <2>1
  <2> QED
    BY <2>2 DEF Continues
<1>6. \A x \in Pairs : pairs[x].age = "issued" /\ x # req[r].next => pairs'[x].age = "issued"
  BY <1>3 DEF next
<1>7. Idle.next = NoPair
  BY DEF Idle
<1> QED
  BY <1>4, <1>5, <1>6, <1>7, IdleFits, PairStep DEF Rows

\* A request ends and no pair changes.
LEMMA RefuseStep ==
    ASSUME IInv, NEW r \in Requests, Refuse(r), UNCHANGED pairs
    PROVE  Rows'
<1>1. Idle.next = NoPair
  BY DEF Idle
<1> QED
  BY <1>1, IdleFits, ReqStep DEF Refuse, Rows

\* A request goes on to a stage at which no more is known.
LEMMA GotoStep ==
    ASSUME IInv, NEW r \in Requests, NEW stage \in Stages, Goto(r, stage), UNCHANGED pairs,
           Fits([req[r] EXCEPT !.stage = stage], pairs)
    PROVE  Rows'
<1> DEFINE q == [req[r] EXCEPT !.stage = stage]
<1>1. req[r] \in Request
  BY DEF IInv, TypeOK
<1>2. req' = [req EXCEPT ![r] = q] /\ q.next = req[r].next
  BY <1>1 DEF Goto, Request
<1> HIDE DEF q
<1> QED
  BY <1>2, ReqStep DEF Rows, q

LEMMA EnterStep ==
    ASSUME IInv, NEW r \in Requests, NEW role \in Roles, Enter(r, role), UNCHANGED pairs,
           req[r].pair # NoPair, ~req[r].spent
    PROVE  Rows'
<1> DEFINE q == [req[r] EXCEPT !.stage = "handler", !.role = role]
<1>1. req[r] \in Request /\ Fits(req[r], pairs)
  BY DEF IInv, TypeOK, RequestsFit
<1>2. req' = [req EXCEPT ![r] = q] /\ q.next = req[r].next
  BY <1>1 DEF Enter, Request
<1>3. Fits(q, pairs)
  BY <1>1 DEF Fits, Request, Stages, WithPair, Expired
<1> HIDE DEF q
<1> QED
  BY <1>2, <1>3, ReqStep DEF Rows

----------------------------------------------------------------------------
(* The actions of a request.                                               *)

LEMMA GuardInv == ASSUME IInv, NEW r \in Requests, Guard(r) PROVE IInv'
<1> USE DEF WithPair, Expired
<1>1. /\ Fits(req[r], pairs) /\ req[r] \in Request
      /\ Rest /\ PairsFit /\ pairs \in [Pairs -> Pair] /\ req \in [Requests -> Request]
  BY Halves DEF IInv, TypeOK, RequestsFit
<1>2. ASSUME NEW p \in Pairs, NEW op \in UserOps, CanActivate(r, p, op)
      PROVE  IInv'
  <2> DEFINE stage == IF pairs[p].age = "fresh" THEN "cache" ELSE "blacklist"
             spent == "refresh" \in pairs[p].revoked
             q == [Idle EXCEPT !.stage = stage, !.op = op, !.pair = p, !.spent = spent]
  <2>1. stage \in {"cache", "blacklist"} /\ spent \in BOOLEAN
    OBVIOUS
  <2>2. Fits(q, pairs)
    <3>1. PairFits(pairs[p])
      BY <1>1 DEF PairsFit
    <3>2. pairs[p].age \in Known /\ "access" \notin pairs[p].revoked
      BY <1>2 DEF CanActivate, Known
    <3>3. /\ stage = "cache" => pairs[p].age = "fresh"
          /\ stage = "blacklist" => pairs[p].age # "fresh"
          /\ spent = TRUE <=> "refresh" \in pairs[p].revoked
      OBVIOUS
    <3> HIDE DEF stage, spent
    <3>4. q \in Request
      BY <2>1 DEF Idle, Request, Stages, GuardStages, UserOps, Roles
    <3>5. q.stage = stage /\ q.op = op /\ q.pair = p /\ q.next = NoPair /\ q.spent = spent
      BY DEF Idle
    <3> HIDE DEF q
    <3> QED
      BY <2>1, <3>1, <3>2, <3>3, <3>4, <3>5, SessionsAssumption DEF Fits, PairFits, Known
  <2>3. req' = [req EXCEPT ![r] = q] /\ UNCHANGED <<user, cached, siwe, pairs, admin, plan>> /\ q.next = NoPair
    BY <1>2 DEF CanActivate, Idle
  <2> HIDE DEF q
  <2>4. Rows'
    BY <2>2, <2>3, ReqStep DEF Rows
  <2> QED
    BY <1>1, <2>3, <2>4, HalvesPrime DEF Rest
<1>3. CASE ReadCache(r)
  <2>1. /\ req[r].stage = "cache" /\ ~req[r].spent /\ req[r].pair # NoPair
        /\ UNCHANGED <<user, cached, siwe, pairs, admin, plan>>
    BY <1>1, <1>3 DEF ReadCache, Fits
  <2>2. pairs[req[r].pair].role \in Roles
    BY <1>1, <2>1 DEF Request, Pair
  <2>3. Enter(r, pairs[req[r].pair].role) \/ Refuse(r) \/ Goto(r, "load")
    BY <1>3 DEF ReadCache
  <2>4. Fits([req[r] EXCEPT !.stage = "load"], pairs)
    BY <1>1, <2>1 DEF Fits, Request, Stages, GuardStages
  <2>5. Rows'
    BY <2>1, <2>2, <2>3, <2>4, EnterStep, RefuseStep, GotoStep DEF Stages, GuardStages
  <2> QED
    BY <1>1, <2>1, <2>5, HalvesPrime DEF Rest
<1>4. CASE LoadActive(r)
  <2> DEFINE q == [req[r] EXCEPT !.stage = "fill", !.active = user.isActive]
  <2>1. req[r].stage = "load" /\ UNCHANGED <<user, cached, siwe, pairs, admin, plan>>
    BY <1>4 DEF LoadActive
  <2>2. user.isActive \in BOOLEAN
    BY <1>1 DEF Rest, User
  <2>3. Fits(q, pairs) /\ q.next = req[r].next
    BY <1>1, <2>1, <2>2 DEF Fits, Request, Stages, GuardStages
  <2>4. req' = [req EXCEPT ![r] = q]
    BY <1>1, <1>4 DEF LoadActive, Request
  <2> HIDE DEF q
  <2>5. Rows'
    BY <2>1, <2>3, <2>4, ReqStep DEF Rows
  <2> QED
    BY <1>1, <2>1, <2>5, HalvesPrime DEF Rest
<1>5. CASE FillCache(r)
  <2>1. /\ req[r].stage = "fill" /\ ~req[r].spent /\ req[r].pair # NoPair
        /\ UNCHANGED <<user, siwe, pairs, admin, plan>> /\ cached' \in Flags
    BY <1>1, <1>5 DEF FillCache, Fits, Flag, Flags
  <2>2. pairs[req[r].pair].role \in Roles
    BY <1>1, <2>1 DEF Request, Pair
  <2>3. Rows'
    BY <1>5, <2>1, <2>2, EnterStep, RefuseStep DEF FillCache
  <2> QED
    BY <1>1, <2>1, <2>3, HalvesPrime DEF Rest
<1>6. CASE CheckRefresh(r)
  <2>1. /\ req[r].stage = "blacklist" /\ UNCHANGED <<user, cached, siwe, pairs, admin, plan>>
        /\ Refuse(r) \/ (Goto(r, "user") /\ "refresh" \notin pairs[req[r].pair].revoked)
    BY <1>6 DEF CheckRefresh, Spent
  <2>2. CASE Goto(r, "user") /\ "refresh" \notin pairs[req[r].pair].revoked
    <3>1. Fits([req[r] EXCEPT !.stage = "user"], pairs)
      BY <1>1, <2>1, <2>2 DEF Fits, Request, Stages, GuardStages
    <3> QED
      BY <1>1, <2>1, <2>2, <3>1, GotoStep, HalvesPrime DEF Rest, Stages, GuardStages
  <2>3. CASE Refuse(r)
    BY <1>1, <2>1, <2>3, RefuseStep, HalvesPrime DEF Rest
  <2> QED
    BY <2>1, <2>2, <2>3
<1>7. CASE LoadUser(r)
  <2> DEFINE q == [req[r] EXCEPT !.stage = "revoke", !.role = user.role, !.active = user.isActive]
  <2>1. req[r].stage = "user" /\ UNCHANGED <<user, cached, siwe, pairs, admin, plan>>
    BY <1>7 DEF LoadUser
  <2>2. user.isActive \in BOOLEAN /\ user.role \in Roles
    BY <1>1 DEF Rest, User
  <2>3. Fits(q, pairs) /\ q.next = req[r].next
    BY <1>1, <2>1, <2>2 DEF Fits, Request, Stages, GuardStages
  <2>4. req' = [req EXCEPT ![r] = q] \/ Refuse(r)
    BY <1>1, <1>7 DEF LoadUser, Request
  <2> HIDE DEF q
  <2>5. Rows'
    BY <2>1, <2>3, <2>4, ReqStep, RefuseStep DEF Rows
  <2> QED
    BY <1>1, <2>1, <2>5, HalvesPrime DEF Rest
<1>8. CASE Rotate(r)
  <2> DEFINE pair == req[r].pair
             from == [pairs EXCEPT ![pair].revoked = @ \cup {"refresh"}]
  <2>1. /\ req[r].stage = "revoke" /\ UNCHANGED <<user, cached, siwe, admin, plan>>
        /\ Issue(r, req[r].role, from, "store")
    BY <1>8 DEF Rotate
  <2>2. pair \in Pairs /\ pairs[pair].age = "expired" /\ ~req[r].spent /\ req[r].role \in Roles
    BY <1>1, <2>1 DEF Fits, Request
  <2>3. \A p \in Pairs : pairs[p] \in Pair /\ PairFits(pairs[p])
    BY <1>1 DEF PairsFit
  <2> DEFINE spent == [pairs[pair] EXCEPT !.revoked = @ \cup {"refresh"}]
  <2>4. /\ spent \in Pair /\ spent.age = "expired" /\ spent.revoked = pairs[pair].revoked \cup {"refresh"}
        /\ from = [pairs EXCEPT ![pair] = spent]
    BY <1>1, <2>2, <2>3 DEF Pair
  <2> HIDE DEF pair, from, spent
  <2>5. PairFits(spent) /\ Continues(pairs[pair], spent)
    BY <2>2, <2>4 DEF PairFits, Continues, Known
  <2>6. from \in [Pairs -> Pair] /\ \A p \in Pairs : from[p] = IF p = pair THEN spent ELSE pairs[p]
    BY <1>1, <2>2, <2>4
  <2>7. \A p \in Pairs : PairFits(from[p]) /\ from[p].age = pairs[p].age /\ Continues(pairs[p], from[p])
    BY <2>2, <2>3, <2>4, <2>5, <2>6 DEF Continues
  <2>8. Rows'
    BY <2>1, <2>2, <2>6, <2>7, IssueStep
  <2> QED
    BY <1>1, <2>1, <2>8, HalvesPrime DEF Rest
<1>9. CASE StoreHash(r)
  <2>1. /\ req[r].stage = "store" /\ ~req[r].spent /\ req[r].next # NoPair
        /\ UNCHANGED <<cached, siwe, admin, plan>> /\ user' \in User
    BY <1>1, <1>9 DEF StoreHash, Fits, Rest, User
  <2>2. CASE req[r].op \in {"get", "logout"}
    <3>1. Goto(r, "recache") /\ pairs' = pairs
      BY <1>9, <2>2 DEF StoreHash
    <3>2. Fits([req[r] EXCEPT !.stage = "recache"], pairs)
      BY <1>1, <2>1, <2>2 DEF Fits, Request, Stages, GuardStages
    <3> QED
      BY <1>1, <2>1, <3>1, <3>2, GotoStep, HalvesPrime DEF Rest, Stages, GuardStages
  <2>3. CASE req[r].op \notin {"get", "logout"}
    <3>1. Refuse(r) /\ pairs' = Delivered(r)
      BY <1>9, <2>3 DEF StoreHash
    <3> QED
      BY <1>1, <2>1, <3>1, EndStep, HalvesPrime DEF Rest, Refuse
  <2> QED
    BY <2>2, <2>3
<1>10. CASE Recache(r)
  <2>1. /\ req[r].stage = "recache" /\ ~req[r].spent /\ req[r].pair # NoPair /\ req[r].next # NoPair
        /\ UNCHANGED <<user, siwe, pairs, admin, plan>> /\ cached' \in Flags
        /\ Enter(r, pairs[req[r].next].role)
    BY <1>1, <1>10 DEF Recache, Fits, Flag, Flags
  <2>2. pairs[req[r].next].role \in Roles
    BY <1>1, <2>1 DEF Request, Pair
  <2>3. Rows'
    BY <2>1, <2>2, EnterStep
  <2> QED
    BY <1>1, <2>1, <2>3, HalvesPrime DEF Rest
<1> QED
  BY <1>2, <1>3, <1>4, <1>5, <1>6, <1>7, <1>8, <1>9, <1>10 DEF Guard

\* A handler blacklists one of the tokens the request came with.
LEMMA LogoutInv == ASSUME IInv, NEW r \in Requests, Logout(r) PROVE IInv'
<1> USE DEF WithPair, Expired
<1>1. /\ Fits(req[r], pairs) /\ req[r] \in Request
      /\ Rest /\ PairsFit /\ pairs \in [Pairs -> Pair] /\ req \in [Requests -> Request]
  BY Halves DEF IInv, TypeOK, RequestsFit
<1>2. CASE RemoveRefreshToken(r)
  <2>1. /\ req[r].stage = "handler" /\ Goto(r, "outAccess")
        /\ UNCHANGED <<cached, siwe, pairs, admin, plan>> /\ user' \in User
    BY <1>1, <1>2 DEF RemoveRefreshToken, Rest, User
  <2>2. Fits([req[r] EXCEPT !.stage = "outAccess"], pairs)
    BY <1>1, <2>1 DEF Fits, Request, Stages
  <2> QED
    BY <1>1, <2>1, <2>2, GotoStep, HalvesPrime DEF Rest, Stages
<1>3. CASE BlacklistAccess(r)
  <2> DEFINE pair == req[r].pair
             out == [pairs[pair] EXCEPT !.revoked = @ \cup {"access"}]
             q == [req[r] EXCEPT !.stage = "outRefresh"]
  <2>1. /\ req[r].stage = "outAccess" /\ pair \in Pairs /\ pairs[pair].age \in Known /\ ~req[r].spent
        /\ UNCHANGED <<user, cached, siwe, admin, plan>>
    BY <1>1, <1>3 DEF BlacklistAccess, Fits, Request
  <2>2. q \in Request /\ q.stage = "outRefresh" /\ q.pair = pair /\ q.next = req[r].next /\ ~q.spent
    BY <1>1, <2>1 DEF Request, Stages
  <2>3. req' = [req EXCEPT ![r] = q]
    BY <1>1, <1>3 DEF BlacklistAccess, Goto, Request
  <2>4. pairs[pair] \in Pair /\ PairFits(pairs[pair])
    BY <1>1, <2>1 DEF PairsFit
  <2>5. /\ out \in Pair /\ out.age = pairs[pair].age /\ out.revoked = pairs[pair].revoked \cup {"access"}
    BY <2>4 DEF Pair
  <2>6. \/ pairs[pair].age = "fresh" /\ pairs' = [pairs EXCEPT ![pair] = out]
        \/ pairs[pair].age # "fresh" /\ pairs' = pairs
    BY <1>1, <1>3, <2>1 DEF BlacklistAccess
  <2>7. q.next # NoPair => pairs[q.next].age = "issued"
    BY <1>1, <2>2 DEF Fits
  <2>8. pair # NoPair /\ (q.next # NoPair => q.next \in Pairs /\ q.next # pair)
    BY <1>1, <2>1, <2>2, <2>7, SessionsAssumption DEF Request, Known
  <2> HIDE DEF pair, out, q
  <2>9. CASE pairs[pair].age = "fresh" /\ pairs' = [pairs EXCEPT ![pair] = out]
    <3>1. \A p \in Pairs : pairs'[p] = IF p = pair THEN out ELSE pairs[p]
      BY <1>1, <2>1, <2>9
    <3>2. PairFits(out) /\ Continues(pairs[pair], out)
      BY <2>4, <2>5, <2>9 DEF PairFits, Continues
    <3>3. pairs' \in [Pairs -> Pair] /\ PairsFit'
      BY <1>1, <2>5, <2>9, <3>1, <3>2 DEF PairsFit
    <3>4. \A p \in Pairs : Continues(pairs[p], pairs'[p]) /\ pairs'[p].age = pairs[p].age
      BY <2>5, <3>1, <3>2 DEF Continues
    <3>5. Fits(q, pairs')
      BY <2>1, <2>2, <2>5, <2>7, <2>8, <3>1, <3>4 DEF Fits, Known
    <3>6. Rows'
      BY <2>2, <2>3, <3>3, <3>4, <3>5, PairStep DEF Rows
    <3> QED
      BY <1>1, <2>1, <3>6, HalvesPrime DEF Rest
  <2>10. CASE pairs[pair].age # "fresh" /\ pairs' = pairs
    <3>1. Fits(q, pairs)
      BY <2>1, <2>2, <2>7, <2>8, <2>10 DEF Fits, Known
    <3>2. Rows'
      BY <2>2, <2>3, <2>10, <3>1, ReqStep DEF Rows
    <3> QED
      BY <1>1, <2>1, <3>2, HalvesPrime DEF Rest
  <2> QED
    BY <2>6, <2>9, <2>10
<1>4. CASE BlacklistRefresh(r)
  <2> DEFINE pair == req[r].pair
             next == req[r].next
             out == [pairs[pair] EXCEPT !.revoked = @ \cup {"refresh"}]
  <2>1. /\ req[r].stage = "outRefresh" /\ pair \in Pairs /\ pairs[pair].age \in Known
        /\ pairs[pair].age = "fresh" => "access" \in pairs[pair].revoked
        /\ UNCHANGED <<user, cached, siwe, admin, plan>> /\ req' = [req EXCEPT ![r] = Idle]
    BY <1>1, <1>4 DEF BlacklistRefresh, Fits, Request
  <2>2. pairs[pair] \in Pair /\ PairFits(pairs[pair])
    BY <1>1, <2>1 DEF PairsFit
  <2>3. /\ out \in Pair /\ out.age = pairs[pair].age /\ out.revoked = pairs[pair].revoked \cup {"refresh"}
    BY <2>2 DEF Pair
  <2>4. next # NoPair => pairs[next].age = "issued" /\ next # pair
    BY <1>1, <2>1 DEF Fits, Known
  <2>5. pair # next
    BY <2>1, <2>4, SessionsAssumption
  <2>6. pairs' = [p \in Pairs |-> IF p = pair THEN out ELSE IF p = next THEN Unused ELSE pairs[p]]
    <3>1. pairs' = [Lost(r) EXCEPT ![pair].revoked = @ \cup {"refresh"}]
      BY <1>4 DEF BlacklistRefresh
    <3>2. Lost(r) = [p \in Pairs |-> IF p = next THEN Unused ELSE pairs[p]]
      BY DEF Lost
    <3>3. Lost(r)[pair] = pairs[pair]
      BY <2>1, <2>5, <3>2
    <3>4. pairs' = [Lost(r) EXCEPT ![pair] = out]
      BY <3>1, <3>3
    <3> HIDE DEF pair, next, out
    <3> QED
      BY <3>2, <3>4
  <2> HIDE DEF pair, out, next
  <2>7. PairFits(out) /\ Continues(pairs[pair], out)
    BY <2>1, <2>2, <2>3 DEF PairFits, Continues, Known
  <2>8. pairs' \in [Pairs -> Pair] /\ PairsFit'
    BY <1>1, <2>3, <2>6, <2>7, UnusedFits DEF PairsFit
  <2>9. \A p \in Pairs : pairs[p].age \in Known => Continues(pairs[p], pairs'[p])
    <3> SUFFICES ASSUME NEW p \in Pairs, pairs[p].age \in Known
                 PROVE  Continues(pairs[p], pairs'[p])
      OBVIOUS
    <3>1. p # next
      BY <2>4, SessionsAssumption DEF Known
    <3>2. pairs'[p] = IF p = pair THEN out ELSE pairs[p]
      BY <2>6, <3>1
    <3> QED
      BY <2>7, <3>2 DEF Continues
  <2>10. \A p \in Pairs : pairs[p].age = "issued" /\ p # req[r].next => pairs'[p].age = "issued"
    BY <2>1, <2>6 DEF Known, next
  <2>11. Idle.next = NoPair
    BY DEF Idle
  <2>12. Rows'
    BY <2>1, <2>8, <2>9, <2>10, <2>11, IdleFits, PairStep DEF Rows
  <2> QED
    BY <1>1, <2>1, <2>12, HalvesPrime DEF Rest
<1> QED
  BY <1>2, <1>3, <1>4 DEF Logout

\* A request that begins without a pair.
LEMMA BeginStep ==
    ASSUME IInv, NEW r \in Requests, NEW op \in {"siwe", "register"}, NEW stage \in {"create", "consume"},
           Begin(r, op, stage), UNCHANGED pairs
    PROVE  Rows'
<1> DEFINE q == [Idle EXCEPT !.stage = stage, !.op = op]
<1>1. /\ q \in Request /\ q.stage = stage /\ q.pair = NoPair /\ q.next = NoPair /\ ~q.spent
      /\ q.op = op
  BY DEF Idle, Request, Stages, Roles, UserOps
<1>2. req' = [req EXCEPT ![r] = q]
  BY DEF Begin
<1> HIDE DEF q
<1>3. Fits(q, pairs)
  BY <1>1 DEF Fits, WithPair, Expired
<1> QED
  BY <1>1, <1>2, <1>3, ReqStep DEF Rows

LEMMA LoginInv == ASSUME IInv, NEW r \in Requests, Login(r) PROVE IInv'
<1>1. Rest /\ pairs \in [Pairs -> Pair] /\ PairsFit /\ user.role \in Roles
  BY Halves DEF IInv, TypeOK, User
<1>2. PICK p \in {q \in plan.pairs : pairs[q].age = "unused"} :
        /\ pairs' = [pairs EXCEPT ![p] = [age |-> "issued", role |-> user.role, revoked |-> {}]]
        /\ req' = [req EXCEPT ![r] = [Idle EXCEPT !.stage = "store", !.op = "login", !.next = p, !.role = user.role]]
  BY DEF Login
<1> DEFINE new == [age |-> "issued", role |-> user.role, revoked |-> {}]
           q == [Idle EXCEPT !.stage = "store", !.op = "login", !.next = p, !.role = user.role]
<1>3. p \in Pairs /\ pairs[p].age = "unused"
  BY <1>1, <1>2, SessionsAssumption DEF Rest
<1>4. new \in Pair /\ PairFits(new) /\ new.age = "issued"
  BY <1>1 DEF Pair, PairFits, Ages
<1>5. /\ q \in Request /\ q.stage = "store" /\ q.op = "login" /\ q.pair = NoPair /\ q.next = p /\ ~q.spent
  BY <1>1, <1>3 DEF Idle, Request, Stages, GuardStages, UserOps
<1>6. /\ pairs' = [pairs EXCEPT ![p] = new] /\ req' = [req EXCEPT ![r] = q]
      /\ UNCHANGED <<user, cached, siwe, admin, plan>>
  BY <1>2 DEF Login
<1> HIDE DEF new, q
<1>7. \A x \in Pairs : pairs'[x] = IF x = p THEN new ELSE pairs[x]
  BY <1>1, <1>3, <1>6
<1>8. pairs' \in [Pairs -> Pair] /\ PairsFit'
  BY <1>1, <1>4, <1>6, <1>7 DEF PairsFit
<1>9. Fits(q, pairs')
  BY <1>3, <1>4, <1>5, <1>7, SessionsAssumption DEF Fits, WithPair, Expired
<1>10. /\ \A x \in Pairs : pairs[x].age \in Known => Continues(pairs[x], pairs'[x])
       /\ \A x \in Pairs : pairs[x].age = "issued" => pairs'[x].age = "issued"
  BY <1>3, <1>7 DEF Continues, Known
<1>11. Rows'
  BY <1>3, <1>5, <1>6, <1>8, <1>9, <1>10, PairStep DEF Rows
<1> QED
  BY <1>1, <1>6, <1>11, HalvesPrime DEF Rest

LEMMA SignInInv == ASSUME IInv, NEW r \in Requests, SignIn(r) PROVE IInv'
<1>1. /\ Fits(req[r], pairs) /\ req[r] \in Request
      /\ Rest /\ PairsFit /\ pairs \in [Pairs -> Pair] /\ user \in User
  BY Halves DEF IInv, TypeOK, RequestsFit
<1>2. /\ \A p \in Pairs : PairFits(pairs[p]) /\ Continues(pairs[p], pairs[p])
  BY <1>1 DEF PairsFit, Continues
<1>3. CASE Register(r)
  BY <1>1, <1>3, BeginStep, HalvesPrime DEF Register, Rest, UserOps
<1>4. CASE VerifyWallet(r)
  BY <1>1, <1>4, BeginStep, HalvesPrime DEF VerifyWallet, Rest, UserOps
<1>5. CASE ConsumeChallenge(r)
  <2>1. /\ req[r].stage = "consume" /\ Goto(r, "wallet") /\ siwe' \in BOOLEAN
        /\ UNCHANGED <<user, cached, pairs, admin, plan>>
    BY <1>5 DEF ConsumeChallenge
  <2>2. Fits([req[r] EXCEPT !.stage = "wallet"], pairs)
    BY <1>1, <2>1 DEF Fits, Request, Stages, WithPair, Expired
  <2> QED
    BY <1>1, <2>1, <2>2, GotoStep, HalvesPrime DEF Rest, Stages
<1>6. CASE FindWallet(r)
  <2>1. /\ req[r].stage = "wallet" /\ (Goto(r, "touch") \/ Goto(r, "create"))
        /\ UNCHANGED <<user, cached, siwe, pairs, admin, plan>>
    BY <1>6 DEF FindWallet
  <2>2. \A stage \in {"touch", "create"} : Fits([req[r] EXCEPT !.stage = stage], pairs)
    BY <1>1, <1>6 DEF FindWallet, Fits, Request, Stages, WithPair, Expired
  <2>3. Rows'
    BY <2>1, <2>2, GotoStep DEF Stages
  <2> QED
    BY <1>1, <1>6, <2>3, HalvesPrime DEF FindWallet, Rest
<1>7. CASE TouchWallet(r)
  <2>1. /\ req[r].stage = "touch" /\ Issue(r, user.role, pairs, "store")
        /\ UNCHANGED <<user, cached, siwe, admin, plan>>
    BY <1>7 DEF TouchWallet
  <2>2. ~req[r].spent /\ user.role \in Roles
    BY <1>1, <2>1 DEF Fits, User
  <2>3. req[r].op \notin {"get", "logout"}
    BY <1>1, <2>1 DEF Fits
  <2> QED
    BY <1>1, <1>2, <2>1, <2>2, <2>3, IssueStep, HalvesPrime DEF Rest
<1>8. CASE CreateUser(r)
  <2>1. /\ req[r].stage = "create" /\ UNCHANGED <<cached, siwe, admin, plan>>
        /\ \/ Refuse(r) /\ UNCHANGED <<user, pairs>>
           \/ /\ user' = [exists |-> TRUE, isActive |-> TRUE, deletedAt |-> FALSE, role |-> "USER",
                           refreshToken |-> FALSE]
              /\ Issue(r, "USER", pairs, "store")
    BY <1>8 DEF CreateUser
  <2>2. ~req[r].spent /\ req[r].op \notin {"get", "logout"} /\ "USER" \in Roles
    BY <1>1, <2>1 DEF Fits, Roles
  <2>3. CASE Refuse(r) /\ UNCHANGED <<user, pairs>>
    BY <1>1, <2>1, <2>3, RefuseStep, HalvesPrime DEF Rest
  <2>4. CASE /\ user' = [exists |-> TRUE, isActive |-> TRUE, deletedAt |-> FALSE, role |-> "USER",
                          refreshToken |-> FALSE]
             /\ Issue(r, "USER", pairs, "store")
    <3>1. user' \in User
      BY <2>2, <2>4 DEF User
    <3>2. Rows'
      BY <1>1, <1>2, <2>2, <2>4, IssueStep
    <3> QED
      BY <1>1, <2>1, <3>1, <3>2, HalvesPrime DEF Rest
  <2> QED
    BY <2>1, <2>3, <2>4
<1> QED
  BY <1>3, <1>4, <1>5, <1>6, <1>7, <1>8, LoginInv DEF SignIn

----------------------------------------------------------------------------
(* Administrators, and the passing of time.                                *)

LEMMA SameRows == ASSUME IInv, UNCHANGED <<req, pairs>> PROVE Rows'
BY Halves DEF Rows, PairsFit, RequestsFit, NextsDiffer

LEMMA AdminInv ==
    ASSUME IInv, NEW a \in Admins,
           \/ \E op \in AdminOps : AdminRequests(a, op)
           \/ AdminWrites(a) \/ AdminCaches(a) \/ AdminFails(a)
    PROVE  IInv'
<1>1. /\ Rest /\ admin[a] \in AdminRequest
      /\ AdminIdle \in AdminRequest
  BY Halves DEF Rest, AdminIdle, AdminRequest, AdminOps, Roles, Flags
<1>2. UNCHANGED <<req, pairs>>
  BY DEF AdminRequests, AdminWrites, AdminCaches, AdminFails
<1>3. ASSUME NEW op \in AdminOps, AdminRequests(a, op)
      PROVE  Rest'
  <2>1. [AdminIdle EXCEPT !.stage = "write", !.op = op] \in AdminRequest
    BY <1>1 DEF AdminRequest
  <2> QED
    BY <1>1, <1>3, <2>1 DEF AdminRequests, Rest
<1>4. ASSUME AdminWrites(a)
      PROVE  Rest'
  <2>1. user' \in User
    <3>1. user' = Changed(admin[a].op) /\ admin[a].op \in AdminOps
      BY <1>1, <1>4 DEF AdminWrites, AdminRequest
    <3> QED
      BY <1>1, <3>1 DEF Rest, Changed, User, AdminOps, Roles
  <2>2. [admin[a] EXCEPT !.stage = "cache",
                         !.flag = IF admin[a].op = "restore" THEN Flag(user.isActive) ELSE "none"] \in AdminRequest
    BY <1>1 DEF AdminRequest, Flag, Flags
  <2>3. admin' \in [Admins -> AdminRequest]
    BY <1>1, <1>4, <2>2 DEF AdminWrites, Rest
  <2> QED
    BY <1>1, <1>4, <2>1, <2>3 DEF AdminWrites, Rest
<1>5. ASSUME AdminCaches(a)
      PROVE  Rest'
  BY <1>1, <1>5 DEF AdminCaches, Rest, AdminRequest
<1>6. ASSUME AdminFails(a)
      PROVE  Rest'
  BY <1>1, <1>6 DEF AdminFails, Rest
<1>7. Rest'
  BY <1>3, <1>4, <1>5, <1>6
<1> QED
  BY <1>2, <1>7, SameRows, HalvesPrime

\* Tokens that expire: a request that came with a pair keeps what it knows.
LEMMA TimeInv ==
    ASSUME IInv, NEW p \in Pairs, AccessExpires(p) \/ RefreshExpires(p)
    PROVE  IInv'
<1>1. /\ Rest /\ pairs \in [Pairs -> Pair] /\ req \in [Requests -> Request] /\ NextsDiffer
      /\ \A x \in Pairs : pairs[x] \in Pair /\ PairFits(pairs[x])
      /\ \A s \in Requests : Fits(req[s], pairs) /\ req[s] \in Request
  BY Halves DEF Rows, PairsFit, RequestsFit
<1>2. UNCHANGED <<user, cached, siwe, req, admin, plan>>
  BY DEF AccessExpires, RefreshExpires
<1>3. PICK y \in Pair :
        /\ PairFits(y) /\ pairs' = [pairs EXCEPT ![p] = y]
        /\ pairs[p].age # "issued"
        /\ Continues(pairs[p], y) \/ \A s \in Requests : req[s].pair # p
  <2>1. CASE AccessExpires(p)
    <3> DEFINE y == [age |-> "expired", role |-> "USER", revoked |-> pairs[p].revoked \ {"access"}]
    <3>1. /\ y \in Pair /\ y.age = "expired" /\ y.revoked = pairs[p].revoked \ {"access"}
      BY <1>1 DEF Pair, Ages, Roles
    <3>2. pairs' = [pairs EXCEPT ![p] = y] /\ pairs[p].age = "fresh"
      BY <1>1, <2>1 DEF AccessExpires
    <3> HIDE DEF y
    <3>3. PairFits(y) /\ Continues(pairs[p], y)
      BY <3>1, <3>2 DEF PairFits, Continues, Known
    <3> QED
      BY <3>1, <3>2, <3>3
  <2>2. CASE RefreshExpires(p)
    BY <2>2, UnusedFits DEF RefreshExpires
  <2> QED
    BY <2>1, <2>2
<1>4. \A x \in Pairs : pairs'[x] = IF x = p THEN y ELSE pairs[x]
  BY <1>1, <1>3
<1>5. pairs' \in [Pairs -> Pair] /\ PairsFit'
  BY <1>1, <1>3, <1>4 DEF PairsFit
<1>6. ASSUME NEW s \in Requests
      PROVE  Fits(req[s], pairs')
  <2>1. req[s].pair # NoPair => Continues(pairs[req[s].pair], pairs'[req[s].pair])
    BY <1>1, <1>3, <1>4 DEF Request, Continues
  <2>2. req[s].next # NoPair => pairs'[req[s].next].age = "issued"
    BY <1>1, <1>3, <1>4 DEF Request, Fits
  <2> QED
    BY <1>1, <2>1, <2>2, StillFits
<1>7. Rows'
  BY <1>1, <1>2, <1>5, <1>6 DEF Rows, RequestsFit, NextsDiffer
<1> QED
  BY <1>1, <1>2, <1>7, HalvesPrime DEF Rest

LEMMA StepIInv == ASSUME IInv, [Next]_vars PROVE IInv'
<1>1. Rest
  BY Halves
<1>2. ASSUME NEW r \in Requests, Respond(r) \/ RequestFails(r)
      PROVE  IInv'
  <2>1. Rows'
    BY <1>2, EndStep DEF Respond, RequestFails
  <2>2. UNCHANGED <<user, cached, siwe, admin, plan>>
    BY <1>2 DEF Respond, RequestFails
  <2> QED
    BY <1>1, <2>1, <2>2, HalvesPrime DEF Rest
<1>3. CASE Challenge \/ ChallengeExpires \/ FlagExpires
  <2>1. UNCHANGED <<req, pairs, user, admin, plan>> /\ siwe' \in BOOLEAN /\ cached' \in Flags
    BY <1>1, <1>3 DEF Challenge, ChallengeExpires, FlagExpires, Rest, Flags
  <2> QED
    BY <1>1, <2>1, SameRows, HalvesPrime DEF Rest
<1>4. CASE UNCHANGED vars
  BY <1>1, <1>4, SameRows, HalvesPrime DEF Rest, vars
<1> QED
  BY <1>2, <1>3, <1>4, GuardInv, LogoutInv, SignInInv, AdminInv, TimeInv DEF Next

----------------------------------------------------------------------------

\* The invariant the theorems below rest on (jwt-auth.guard.ts:49-124,
\* auth.service.ts:188-215): what a request has read of its pair stays true.
THEOREM Inductive == Spec => []IInv
BY InitIInv, StepIInv, PTL DEF Spec

\* Every row, key and request has its type (schema.prisma:11-45).
THEOREM TypeCorrect == Spec => []TypeOK
<1>1. IInv => TypeOK
  BY DEF IInv
<1> QED
  BY <1>1, Inductive, PTL

\* A request that comes with a consumed or logged out refresh token never gets
\* in and never gets a new pair, for any number of requests, administrators
\* and pairs (jwt-auth.guard.ts:92, auth.service.ts:178).
THEOREM SpentPairsStayOut == Spec => []SpentPairsAreRefused
<1>1. IInv => SpentPairsAreRefused
  BY DEF IInv, RequestsFit, Fits, SpentPairsAreRefused
<1> QED
  BY <1>1, Inductive, PTL
=============================================================================
