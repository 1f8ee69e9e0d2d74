------------------------------ MODULE Sessions ------------------------------
(***************************************************************************)
(* The sessions of one account: the guard of every request with its silent *)
(* refresh, login, logout, registration, sign-in with Ethereum, and what   *)
(* administrators do to the account meanwhile.                             *)
(*                                                                         *)
(* The account's row is in the database; the blacklist, the cached active  *)
(* flag and the wallet challenge are in Redis with a time to live.  A      *)
(* request, or an administrator's, is at an await between two actions, and *)
(* may end at any of them: an error, or a crash of the process.            *)
(*                                                                         *)
(* bcrypt reads the first 72 bytes of its input, and those of two refresh  *)
(* tokens of a user are the same.  So a stored hash accepts each of them,  *)
(* and the row says only whether there is one.                             *)
(*                                                                         *)
(* Left out: the second in which a token expires, a refresh token that     *)
(* expires while a request with it runs, and wrong passwords, signatures   *)
(* and tokens, which end a request before it changes anything.             *)
(***************************************************************************)
EXTENDS FiniteSets

CONSTANTS
    Pairs,     \* pairs of an access and a refresh token
    NoPair,
    Requests,  \* requests of the account's clients
    Admins,    \* requests of administrators about the account
    Plans      \* bound: which requests come in one behaviour, and with which pairs

Roles == {"USER", "ADMIN"}
UserOps == {"get", "logout", "login", "siwe", "register"}
AdminOps == {"activate", "deactivate", "softDelete", "restore"} \cup Roles

ASSUME SessionsAssumption ==
    /\ NoPair \notin Pairs
    /\ Plans \subseteq [ops : SUBSET (UserOps \cup AdminOps), pairs : (SUBSET Pairs) \ {{}}]

VARIABLES
    user,    \* the row of User
    cached,  \* the cached active flag
    siwe,    \* is a challenge for the wallet stored
    pairs,   \* each pair: its age, the role in it, and which of its tokens are blacklisted
    req,     \* each request and where it is
    admin,   \* each request of an administrator
    plan     \* the requests and pairs of this behaviour

vars == <<user, cached, siwe, pairs, req, admin, plan>>

User == [exists : BOOLEAN, isActive : BOOLEAN, deletedAt : BOOLEAN, role : Roles, refreshToken : BOOLEAN]
Flags == {"none", "active", "inactive"}
Ages == {"unused", "issued", "fresh", "expired"}
Pair == [age : Ages, role : Roles, revoked : SUBSET {"access", "refresh"}]

GuardStages == {"cache", "load", "fill", "blacklist", "user", "revoke", "store", "recache"}
Stages == GuardStages \cup {"idle", "handler", "outAccess", "outRefresh", "consume", "wallet", "touch", "create"}
Request == [stage : Stages, op : UserOps, pair : Pairs \cup {NoPair}, next : Pairs \cup {NoPair},
            active : BOOLEAN, role : Roles, spent : BOOLEAN]
AdminRequest == [stage : {"idle", "write", "cache"}, op : AdminOps, flag : Flags]

Idle == [stage |-> "idle", op |-> "get", pair |-> NoPair, next |-> NoPair,
         active |-> FALSE, role |-> "USER", spent |-> FALSE]
AdminIdle == [stage |-> "idle", op |-> "USER", flag |-> "none"]
Unused == [age |-> "unused", role |-> "USER", revoked |-> {}]

----------------------------------------------------------------------------
(* Tokens.                                                                 *)

\* generateTokenPair: r has a new pair with the role, and goes on at stage.
Issue(r, role, from, stage) ==
    \E p \in {q \in plan.pairs : from[q].age = "unused"} :
        /\ pairs' = [from EXCEPT ![p] = [age |-> "issued", role |-> role, revoked |-> {}]]
        /\ req' = [req EXCEPT ![r] = [@ EXCEPT !.stage = stage, !.next = p, !.role = role]]

\* What the client has once it is answered: setAuthCookies.
Delivered(r) ==
    [p \in Pairs |-> IF p = req[r].next THEN [pairs[p] EXCEPT !.age = "fresh"] ELSE pairs[p]]

\* A pair that no client got.
Lost(r) == [p \in Pairs |-> IF p = req[r].next THEN Unused ELSE pairs[p]]

\* The access token expires.
AccessExpires(p) ==
    /\ pairs[p].age = "fresh"
    /\ pairs' = [pairs EXCEPT ![p] = [age |-> "expired", role |-> "USER", revoked |-> pairs[p].revoked \ {"access"}]]
    /\ UNCHANGED <<user, cached, siwe, req, admin, plan>>

\* The refresh token expires, or no client has it any more.
RefreshExpires(p) ==
    /\ pairs[p].age = "expired" /\ \A r \in Requests : req[r].pair # p
    /\ pairs' = [pairs EXCEPT ![p] = Unused]
    /\ UNCHANGED <<user, cached, siwe, req, admin, plan>>

----------------------------------------------------------------------------
(* The guard.                                                              *)

Goto(r, stage) == req' = [req EXCEPT ![r].stage = stage]

\* An exception: the request is answered with it.
Refuse(r) == req' = [req EXCEPT ![r] = Idle]

\* attachUser, with the role of the access token
Enter(r, role) == req' = [req EXCEPT ![r] = [@ EXCEPT !.stage = "handler", !.role = role]]

\* isBlacklisted for the access token; a blacklisted one is refused.
CanActivate(r, p, op) ==
    /\ req[r].stage = "idle" /\ op \in plan.ops \cap {"get", "logout"}
    /\ pairs[p].age \in {"fresh", "expired"}
    /\ "access" \notin pairs[p].revoked
    /\ req' = [req EXCEPT ![r] =
                [Idle EXCEPT !.stage = IF pairs[p].age = "fresh" THEN "cache" ELSE "blacklist",
                             !.op = op, !.pair = p, !.spent = "refresh" \in pairs[p].revoked]]
    /\ UNCHANGED <<user, cached, siwe, pairs, admin, plan>>

\* getCachedActiveStatus
ReadCache(r) ==
    /\ req[r].stage = "cache"
    /\ CASE cached = "active"   -> Enter(r, pairs[req[r].pair].role)
         [] cached = "inactive" -> Refuse(r)
         [] OTHER               -> Goto(r, "load")
    /\ UNCHANGED <<user, cached, siwe, pairs, admin, plan>>

LoadActive(r) ==
    /\ req[r].stage = "load"
    /\ req' = [req EXCEPT ![r] = [@ EXCEPT !.stage = "fill", !.active = user.isActive]]
    /\ UNCHANGED <<user, cached, siwe, pairs, admin, plan>>

\* Mutant of Flag: the flag as JavaScript writes it.
FlagAsText(active) == IF active THEN "true" ELSE "false"

Flag(active) == IF active THEN "active" ELSE "inactive"

\* cacheActiveStatus, with what was read before
FillCache(r) ==
    /\ req[r].stage = "fill"
    /\ cached' = Flag(req[r].active)
    /\ IF req[r].active THEN Enter(r, pairs[req[r].pair].role) ELSE Refuse(r)
    /\ UNCHANGED <<user, siwe, pairs, admin, plan>>

----------------------------------------------------------------------------
(* The silent refresh.                                                     *)

\* Mutant of Spent: the comparison with the stored hash has to do.
NeverSpent(p) == FALSE

\* isBlacklisted for the refresh token
Spent(p) == "refresh" \in pairs[p].revoked

CheckRefresh(r) ==
    /\ req[r].stage = "blacklist"
    /\ IF Spent(req[r].pair) THEN Refuse(r) ELSE Goto(r, "user")
    /\ UNCHANGED <<user, cached, siwe, pairs, admin, plan>>

\* Mutant of Refreshable: the flag is not asked for.
RefreshableAnyway == user.refreshToken

\* A session that is stored, of an active account.
Refreshable == user.refreshToken /\ user.isActive

LoadUser(r) ==
    /\ req[r].stage = "user"
    /\ IF Refreshable
       THEN req' = [req EXCEPT ![r] = [@ EXCEPT !.stage = "revoke", !.role = user.role, !.active = user.isActive]]
       ELSE Refuse(r)
    /\ UNCHANGED <<user, cached, siwe, pairs, admin, plan>>

\* blacklist for the consumed token, and its successor
Rotate(r) ==
    /\ req[r].stage = "revoke"
    /\ Issue(r, req[r].role, [pairs EXCEPT ![req[r].pair].revoked = @ \cup {"refresh"}], "store")
    /\ UNCHANGED <<user, cached, siwe, admin, plan>>

\* setRefreshTokenHash of the guard, of a login and of a registration
StoreHash(r) ==
    /\ req[r].stage = "store"
    /\ user' = [user EXCEPT !.refreshToken = TRUE]
    /\ IF req[r].op \in {"get", "logout"}
       THEN Goto(r, "recache") /\ pairs' = pairs
       ELSE Refuse(r) /\ pairs' = Delivered(r)
    /\ UNCHANGED <<cached, siwe, admin, plan>>

Recache(r) ==
    /\ req[r].stage = "recache"
    /\ cached' = Flag(req[r].active)
    /\ Enter(r, pairs[req[r].next].role)
    /\ UNCHANGED <<user, siwe, pairs, admin, plan>>

----------------------------------------------------------------------------
(* Handlers.                                                               *)

Respond(r) ==
    /\ req[r].stage = "handler" /\ req[r].op = "get"
    /\ pairs' = Delivered(r)
    /\ req' = [req EXCEPT ![r] = Idle]
    /\ UNCHANGED <<user, cached, siwe, admin, plan>>

\* logout: removeRefreshToken
RemoveRefreshToken(r) ==
    /\ req[r].stage = "handler" /\ req[r].op = "logout"
    /\ user' = [user EXCEPT !.refreshToken = FALSE]
    /\ Goto(r, "outAccess")
    /\ UNCHANGED <<cached, siwe, pairs, admin, plan>>

\* An expired access token is not blacklisted.
BlacklistAccess(r) ==
    /\ req[r].stage = "outAccess"
    /\ pairs' = IF pairs[req[r].pair].age = "fresh"
                THEN [pairs EXCEPT ![req[r].pair].revoked = @ \cup {"access"}] ELSE pairs
    /\ Goto(r, "outRefresh")
    /\ UNCHANGED <<user, cached, siwe, admin, plan>>

\* The cookies are cleared, those of a silent refresh with them.
BlacklistRefresh(r) ==
    /\ req[r].stage = "outRefresh"
    /\ pairs' = [Lost(r) EXCEPT ![req[r].pair].revoked = @ \cup {"refresh"}]
    /\ req' = [req EXCEPT ![r] = Idle]
    /\ UNCHANGED <<user, cached, siwe, admin, plan>>

----------------------------------------------------------------------------
(* How a session begins.                                                   *)

\* findByEmail, findByUsername, findByWalletAddress
Found == user.exists /\ ~user.deletedAt

Begin(r, op, stage) ==
    /\ req[r].stage = "idle" /\ op \in plan.ops
    /\ req' = [req EXCEPT ![r] = [Idle EXCEPT !.stage = stage, !.op = op]]

\* login with the right password
Login(r) ==
    /\ req[r].stage = "idle" /\ "login" \in plan.ops
    /\ Found /\ user.isActive
    /\ \E p \in {q \in plan.pairs : pairs[q].age = "unused"} :
         /\ pairs' = [pairs EXCEPT ![p] = [age |-> "issued", role |-> user.role, revoked |-> {}]]
         /\ req' = [req EXCEPT ![r] = [Idle EXCEPT !.stage = "store", !.op = "login", !.next = p, !.role = user.role]]
    /\ UNCHANGED <<user, cached, siwe, admin, plan>>

\* register looks whether the email and the username are free.
Register(r) ==
    /\ ~Found /\ Begin(r, "register", "create")
    /\ UNCHANGED <<user, cached, siwe, pairs, admin, plan>>

\* generateWalletChallenge
Challenge ==
    /\ "siwe" \in plan.ops /\ ~siwe
    /\ siwe' = TRUE
    /\ UNCHANGED <<user, cached, pairs, req, admin, plan>>

ChallengeExpires ==
    /\ siwe /\ siwe' = FALSE
    /\ UNCHANGED <<user, cached, pairs, req, admin, plan>>

\* verifyWalletSignature with a right signature
VerifyWallet(r) ==
    /\ siwe /\ Begin(r, "siwe", "consume")
    /\ UNCHANGED <<user, cached, siwe, pairs, admin, plan>>

ConsumeChallenge(r) ==
    /\ req[r].stage = "consume"
    /\ siwe' = FALSE
    /\ Goto(r, "wallet")
    /\ UNCHANGED <<user, cached, pairs, admin, plan>>

FindWallet(r) ==
    /\ req[r].stage = "wallet"
    /\ Goto(r, IF Found THEN "touch" ELSE "create")
    /\ UNCHANGED <<user, cached, siwe, pairs, admin, plan>>

\* updateWalletVerified
TouchWallet(r) ==
    /\ req[r].stage = "touch"
    /\ Issue(r, user.role, pairs, "store")
    /\ UNCHANGED <<user, cached, siwe, admin, plan>>

\* The row of another registration, or of a deleted account, holds the unique
\* email: a conflict, also with the fallback username.
CreateUser(r) ==
    /\ req[r].stage = "create"
    /\ IF user.exists
       THEN Refuse(r) /\ UNCHANGED <<user, pairs>>
       ELSE /\ user' = [exists |-> TRUE, isActive |-> TRUE, deletedAt |-> FALSE, role |-> "USER",
                        refreshToken |-> FALSE]
            /\ Issue(r, "USER", pairs, "store")
    /\ UNCHANGED <<cached, siwe, admin, plan>>

\* An error or a crash at an await.
RequestFails(r) ==
    /\ req[r].stage # "idle"
    /\ pairs' = Lost(r)
    /\ req' = [req EXCEPT ![r] = Idle]
    /\ UNCHANGED <<user, cached, siwe, admin, plan>>

----------------------------------------------------------------------------
(* Administrators.  None of them is the account's own user.                *)

\* What the handlers ask of the row they read first.
Applicable(op) ==
    /\ user.exists
    /\ op = "activate" => ~user.isActive
    /\ op = "deactivate" => user.isActive
    /\ op = "softDelete" => ~user.deletedAt
    /\ op = "restore" => user.deletedAt

AdminRequests(a, op) ==
    /\ admin[a].stage = "idle" /\ op \in plan.ops \cap AdminOps /\ Applicable(op)
    /\ admin' = [admin EXCEPT ![a] = [AdminIdle EXCEPT !.stage = "write", !.op = op]]
    /\ UNCHANGED <<user, cached, siwe, pairs, req, plan>>

Changed(op) ==
    CASE op = "activate"   -> [user EXCEPT !.isActive = TRUE]
      [] op = "deactivate" -> [user EXCEPT !.isActive = FALSE]
      [] op = "softDelete" -> [user EXCEPT !.deletedAt = TRUE]
      [] op = "restore"    -> [user EXCEPT !.deletedAt = FALSE]
      [] op \in Roles      -> [user EXCEPT !.role = op]

\* restore caches the flag of the row it wrote; the others invalidate it, and
\* updateRole leaves it alone.
AdminWrites(a) ==
    LET op == admin[a].op IN
    /\ admin[a].stage = "write"
    /\ user' = Changed(op)
    /\ admin' = [admin EXCEPT ![a] =
                   IF op \in Roles THEN AdminIdle
                   ELSE [@ EXCEPT !.stage = "cache",
                                  !.flag = IF op = "restore" THEN Flag(user.isActive) ELSE "none"]]
    /\ UNCHANGED <<cached, siwe, pairs, req, plan>>

AdminCaches(a) ==
    /\ admin[a].stage = "cache"
    /\ cached' = admin[a].flag
    /\ admin' = [admin EXCEPT ![a] = AdminIdle]
    /\ UNCHANGED <<user, siwe, pairs, req, plan>>

AdminFails(a) ==
    /\ admin[a].stage # "idle"
    /\ admin' = [admin EXCEPT ![a] = AdminIdle]
    /\ UNCHANGED <<user, cached, siwe, pairs, req, plan>>

FlagExpires ==
    /\ cached # "none" /\ cached' = "none"
    /\ UNCHANGED <<user, siwe, pairs, req, admin, plan>>

----------------------------------------------------------------------------

\* An account that is logged in with one pair, or none yet.
Init ==
    /\ plan \in Plans
    /\ \/ /\ user = [exists |-> TRUE, isActive |-> TRUE, deletedAt |-> FALSE, role |-> "USER", refreshToken |-> TRUE]
          /\ LET first == CHOOSE p \in plan.pairs : TRUE
             IN  pairs = [p \in Pairs |-> IF p = first THEN [age |-> "fresh", role |-> user.role, revoked |-> {}]
                                          ELSE Unused]
       \/ /\ user = [exists |-> FALSE, isActive |-> FALSE, deletedAt |-> FALSE, role |-> "USER", refreshToken |-> FALSE]
          /\ pairs = [p \in Pairs |-> Unused]
    /\ cached = "none"
    /\ siwe = FALSE
    /\ req = [r \in Requests |-> Idle]
    /\ admin = [a \in Admins |-> AdminIdle]

Guard(r) ==
    \/ \E p \in Pairs, op \in UserOps : CanActivate(r, p, op)
    \/ ReadCache(r) \/ LoadActive(r) \/ FillCache(r)
    \/ CheckRefresh(r) \/ LoadUser(r) \/ Rotate(r) \/ StoreHash(r) \/ Recache(r)

Logout(r) == RemoveRefreshToken(r) \/ BlacklistAccess(r) \/ BlacklistRefresh(r)

SignIn(r) ==
    \/ Login(r) \/ Register(r) \/ VerifyWallet(r)
    \/ ConsumeChallenge(r) \/ FindWallet(r) \/ TouchWallet(r) \/ CreateUser(r)

Next ==
    \/ \E r \in Requests : Guard(r) \/ Respond(r) \/ Logout(r) \/ SignIn(r) \/ RequestFails(r)
    \/ Challenge \/ ChallengeExpires \/ FlagExpires
    \/ \E a \in Admins :
         \/ \E op \in AdminOps : AdminRequests(a, op)
         \/ AdminWrites(a) \/ AdminCaches(a) \/ AdminFails(a)
    \/ \E p \in Pairs : AccessExpires(p) \/ RefreshExpires(p)

Spec == Init /\ [][Next]_vars

\* Time passes for what has a time to live, and handlers come to an end.
FairSpec ==
    /\ Spec
    /\ WF_vars(FlagExpires)
    /\ \A p \in Pairs : WF_vars(AccessExpires(p))
    /\ \A r \in Requests : WF_vars(Respond(r) \/ RemoveRefreshToken(r))

----------------------------------------------------------------------------
(* Properties.                                                             *)

TypeOK ==
    /\ user \in User
    /\ cached \in Flags
    /\ siwe \in BOOLEAN
    /\ pairs \in [Pairs -> Pair]
    /\ req \in [Requests -> Request]
    /\ admin \in [Admins -> AdminRequest]
    /\ plan \in Plans

\* Of a pair whose refresh token was consumed or logged out before a request
\* came with it, that request gets neither in nor a new pair, whatever ran
\* side by side or failed half-way since then (jwt-auth.guard.ts:92,
\* auth.service.ts:178).
SpentPairsAreRefused ==
    \A r \in Requests : req[r].spent => req[r].stage \in {"idle", "blacklist"}

\* A deactivation and a demotion that last take hold: in the end no handler
\* runs for a deactivated account, and none as an administrator for a user,
\* though the flag is cached after it was read and the role is in the tokens
\* (jwt-auth.guard.ts:116, 151, token.service.ts:81).
AccountChangesTakeHold ==
    /\ <>[](~user.isActive) => <>[](\A r \in Requests : req[r].stage # "handler")
    /\ <>[](user.role = "USER") =>
         <>[](\A r \in Requests : ~(req[r].stage = "handler" /\ req[r].role = "ADMIN"))
=============================================================================
