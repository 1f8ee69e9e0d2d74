-------------------------- MODULE SquadMembership --------------------------
(***************************************************************************)
(* Who belongs to a squad, and who is a friend of whom: SquadService and   *)
(* FriendService over their tables.                                        *)
(*                                                                         *)
(* A request reads row after row and then writes, each query on its own    *)
(* and none of them in a transaction; between two queries other requests   *)
(* run, and each query may fail.  The unique keys, the foreign keys and    *)
(* the cascade are the database's.                                         *)
(*                                                                         *)
(* The calls are those of the services' signatures.  The rows of one squad *)
(* are modelled; its name and description, its chat and the notifications  *)
(* are not, and neither is an invitation to a game, which changes no row.  *)
(***************************************************************************)
CONSTANTS
    Users,
    NoUser,
    Requests,
    startFriends,  \* who has asked whom and was accepted, at the start
    Plans          \* bound: which operations run in one behaviour, and of whom

FriendOps == {"sendRequest", "respond", "removeFriend"}
SquadOps == {"deleteSquad", "inviteToSquad", "respondToInvite", "leaveSquad", "kickMember", "changeMemberRole"}

ASSUME MembershipAssumption ==
    /\ NoUser \notin Users
    /\ startFriends \subseteq Users \X Users
    /\ Plans \subseteq [ops : SUBSET (FriendOps \cup SquadOps), users : SUBSET Users]

VARIABLES
    friendship,  \* the row of each requester and addressee
    squad,       \* "none" yet, "there" or "deleted"
    owner,       \* ownerId
    member,      \* the role in each user's row of SquadMember
    invite,      \* the status of each invitee's row of SquadInvite
    req,         \* each request: the query it is at, and its arguments
    plan         \* the operations and users of this behaviour

squadVars == <<squad, owner, member, invite>>
vars == <<friendship, squadVars, req, plan>>

Friendship == {"none", "PENDING", "ACCEPTED", "BLOCKED"}
Member == {"none", "OWNER", "ADMIN", "MEMBER"}
Invite == {"none", "PENDING", "ACCEPTED", "DECLINED"}
Queries == {"befriend", "answerFriend", "unfriend",
            "delete", "friends", "notMember", "notInvited", "invite", "answer", "join",
            "isMember", "leave", "notOwner", "target", "kick", "update"}
Request == [at : Queries \cup {"idle"}, op : FriendOps \cup SquadOps,
            by : Users \cup {NoUser}, on : Users \cup {NoUser}, value : Friendship \cup Member \cup Invite]
Idle == [at |-> "idle", op |-> "respond", by |-> NoUser, on |-> NoUser, value |-> "none"]

----------------------------------------------------------------------------
(* Requests.                                                               *)

\* The first query of an operation has let it go on.
Start(r, op, at, by, on, value) ==
    /\ req[r].at = "idle" /\ op \in plan.ops /\ {by, on} \subseteq plan.users \cup {NoUser}
    /\ req' = [req EXCEPT ![r] = [at |-> at, op |-> op, by |-> by, on |-> on, value |-> value]]
    /\ UNCHANGED <<friendship, squadVars, plan>>

\* A query between the first and the last: on to the next if the row is as it
\* has to be, or an exception.
Check(r, at, ok, next) ==
    /\ req[r].at = at
    /\ req' = [req EXCEPT ![r] = IF ok THEN [@ EXCEPT !.at = next] ELSE Idle]
    /\ UNCHANGED <<friendship, squadVars, plan>>

Finish(r) == req' = [req EXCEPT ![r] = Idle] /\ plan' = plan

RequestFails(r) ==
    /\ req[r].at # "idle"
    /\ Finish(r)
    /\ UNCHANGED <<friendship, squadVars>>

----------------------------------------------------------------------------
(* Friends.                                                                *)

\* A request the other way is not looked for.
SendRequest(r, u, v) ==
    /\ u # v /\ friendship[<<u, v>>] = "none"
    /\ Start(r, "sendRequest", "befriend", u, v, "PENDING")

\* @@unique([requesterId, addresseeId])
Befriend(r) ==
    LET row == <<req[r].by, req[r].on>> IN
    /\ req[r].at = "befriend"
    /\ friendship' = IF friendship[row] = "none" THEN [friendship EXCEPT ![row] = "PENDING"] ELSE friendship
    /\ Finish(r)
    /\ UNCHANGED squadVars

\* The addressee answers, whatever the status is by now.
Respond(r, u, v, action) ==
    /\ friendship[<<v, u>>] # "none" /\ action \in {"ACCEPTED", "BLOCKED"}
    /\ Start(r, "respond", "answerFriend", v, u, action)

AnswerFriend(r) ==
    /\ req[r].at = "answerFriend"
    /\ friendship' = [friendship EXCEPT ![<<req[r].by, req[r].on>>] = req[r].value]
    /\ Finish(r)
    /\ UNCHANGED squadVars

AreFriends(u, v) == friendship[<<u, v>>] = "ACCEPTED" \/ friendship[<<v, u>>] = "ACCEPTED"

\* Finds a row of either direction.
RemoveFriend(r, u, v) ==
    /\ friendship[<<u, v>>] = "ACCEPTED"
    /\ Start(r, "removeFriend", "unfriend", u, v, "ACCEPTED")

\* The row goes; who else holds its id can do nothing with it any more.
Unfriend(r) ==
    LET row == <<req[r].by, req[r].on>> IN
    /\ req[r].at = "unfriend"
    /\ friendship' = [friendship EXCEPT ![row] = "none"]
    /\ req' = [x \in Requests |->
                 IF req[x].at \in {"unfriend", "answerFriend"} /\ <<req[x].by, req[x].on>> = row
                 THEN Idle ELSE req[x]]
    /\ UNCHANGED <<squadVars, plan>>

----------------------------------------------------------------------------
(* The squad.                                                              *)

\* One nested write: the squad and its owner's row.
CreateSquad(u) ==
    /\ squad = "none"
    /\ squad' = "there"
    /\ owner' = u
    /\ member' = [member EXCEPT ![u] = "OWNER"]
    /\ UNCHANGED <<friendship, invite, req, plan>>

DeleteSquad(r, u) ==
    /\ squad = "there" /\ owner = u
    /\ Start(r, "deleteSquad", "delete", u, NoUser, "none")

\* onDelete: Cascade
Delete(r) ==
    /\ req[r].at = "delete"
    /\ squad' = "deleted"
    /\ owner' = NoUser
    /\ member' = [u \in Users |-> "none"]
    /\ invite' = [u \in Users |-> "none"]
    /\ Finish(r)
    /\ UNCHANGED friendship

----------------------------------------------------------------------------
(* Invitations.                                                            *)

\* checkIsMember
IsMember(u) == member[u] # "none"

\* checkMemberRole
HasRole(u, roles) == member[u] \in roles

InviteToSquad(r, u, v) ==
    /\ IsMember(u)
    /\ Start(r, "inviteToSquad", "friends", u, v, "PENDING")

CheckFriends(r) == Check(r, "friends", AreFriends(req[r].by, req[r].on), "notMember")
CheckNotMember(r) == Check(r, "notMember", ~IsMember(req[r].on), "notInvited")
CheckNotInvited(r) == Check(r, "notInvited", invite[req[r].on] # "PENDING", "invite")

\* Mutant of Invitable: an answered invitation is asked again.
Reinvitable(v) == squad = "there" /\ invite[v] # "PENDING"

\* @@unique([squadId, inviteeId]), and the squad is there
Invitable(v) == squad = "there" /\ invite[v] = "none"

CreateInvite(r) ==
    LET v == req[r].on IN
    /\ req[r].at = "invite"
    /\ invite' = IF Invitable(v) THEN [invite EXCEPT ![v] = "PENDING"] ELSE invite
    /\ Finish(r)
    /\ UNCHANGED <<friendship, squad, owner, member>>

RespondToInvite(r, u, action) ==
    /\ invite[u] = "PENDING" /\ action \in {"ACCEPTED", "DECLINED"}
    /\ Start(r, "respondToInvite", "answer", u, NoUser, action)

\* The invitation may be gone with its squad.
Answer(r) ==
    LET u == req[r].by IN
    /\ req[r].at = "answer"
    /\ invite' = IF invite[u] = "none" THEN invite ELSE [invite EXCEPT ![u] = req[r].value]
    /\ req' = [req EXCEPT ![r] = IF invite[u] # "none" /\ @.value = "ACCEPTED" THEN [@ EXCEPT !.at = "join"] ELSE Idle]
    /\ UNCHANGED <<friendship, squad, owner, member, plan>>

\* @@unique([squadId, userId])
Insertable(u) == squad = "there" /\ ~IsMember(u)

Join(r) ==
    LET u == req[r].by IN
    /\ req[r].at = "join"
    /\ member' = IF Insertable(u) THEN [member EXCEPT ![u] = "MEMBER"] ELSE member
    /\ Finish(r)
    /\ UNCHANGED <<friendship, squad, owner, invite>>

----------------------------------------------------------------------------
(* Members.                                                                *)

LeaveSquad(r, u) ==
    /\ squad = "there" /\ owner # u
    /\ Start(r, "leaveSquad", "isMember", u, u, "none")

CheckMember(r) == Check(r, "isMember", IsMember(req[r].by), "leave")

\* Mutant of Removed: the row is kept, with a role of its own.
MarkedRemoved(u) == [member EXCEPT ![u] = "REMOVED"]

\* Whoever is not there any more cannot be deleted.
Removed(u) == [member EXCEPT ![u] = "none"]

Leave(r) ==
    /\ req[r].at \in {"leave", "kick"}
    /\ member' = Removed(req[r].on)
    /\ Finish(r)
    /\ UNCHANGED <<friendship, squad, owner, invite>>

KickMember(r, u, v) ==
    /\ HasRole(u, {"OWNER", "ADMIN"})
    /\ Start(r, "kickMember", "notOwner", u, v, "none")

\* Mutant of Kickable: the owner is not looked for.
AnyoneKickable(v) == squad = "there"

Kickable(v) == squad = "there" /\ owner # v

CheckNotOwner(r) == Check(r, "notOwner", Kickable(req[r].on), "target")

CheckTarget(r) ==
    Check(r, "target", IsMember(req[r].on), IF req[r].op = "kickMember" THEN "kick" ELSE "update")

ChangeMemberRole(r, u, v, role) ==
    /\ squad = "there" /\ owner = u /\ owner # v /\ role \in {"ADMIN", "MEMBER"}
    /\ Start(r, "changeMemberRole", "target", u, v, role)

UpdateRole(r) ==
    LET v == req[r].on IN
    /\ req[r].at = "update"
    /\ member' = IF IsMember(v) THEN [member EXCEPT ![v] = req[r].value] ELSE member
    /\ Finish(r)
    /\ UNCHANGED <<friendship, squad, owner, invite>>

----------------------------------------------------------------------------

Init ==
    /\ plan \in Plans
    /\ friendship = [x \in Users \X Users |-> IF x \in startFriends THEN "ACCEPTED" ELSE "none"]
    /\ squad = "none"
    /\ owner = NoUser
    /\ member = [u \in Users |-> "none"]
    /\ invite = [u \in Users |-> "none"]
    /\ req = [r \in Requests |-> Idle]

FriendStep(r) ==
    \/ \E u, v \in Users :
         \/ SendRequest(r, u, v) \/ RemoveFriend(r, u, v)
         \/ \E action \in Friendship : Respond(r, u, v, action)
    \/ Befriend(r) \/ AnswerFriend(r) \/ Unfriend(r)

InviteStep(r) ==
    \/ \E u, v \in Users : InviteToSquad(r, u, v)
    \/ \E u \in Users, action \in Invite : RespondToInvite(r, u, action)
    \/ CheckFriends(r) \/ CheckNotMember(r) \/ CheckNotInvited(r) \/ CreateInvite(r)
    \/ Answer(r) \/ Join(r)

MemberStep(r) ==
    \/ \E u \in Users : DeleteSquad(r, u) \/ LeaveSquad(r, u)
    \/ \E u, v \in Users :
         \/ KickMember(r, u, v)
         \/ \E role \in Member : ChangeMemberRole(r, u, v, role)
    \/ Delete(r) \/ CheckMember(r) \/ CheckNotOwner(r) \/ CheckTarget(r) \/ Leave(r) \/ UpdateRole(r)

Next ==
    \/ \E u \in Users : CreateSquad(u)
    \/ \E r \in Requests : FriendStep(r) \/ InviteStep(r) \/ MemberStep(r) \/ RequestFails(r)

Spec == Init /\ [][Next]_vars

----------------------------------------------------------------------------
(* Properties.                                                             *)

TypeOK ==
    /\ friendship \in [Users \X Users -> Friendship]
    /\ squad \in {"none", "there", "deleted"}
    /\ owner \in Users \cup {NoUser}
    /\ member \in [Users -> Member]
    /\ invite \in [Users -> Invite]
    /\ req \in [Requests -> Request]
    /\ plan \in Plans

\* A squad has its owner as its one OWNER, and everybody else in it has
\* answered an invitation; a squad that is not there has nobody.  Kicks, role
\* changes, answers and the deletion that check first and write later do not
\* change that (squad.service.ts:364, 459, 476, 519, 536).
SquadShape ==
    /\ squad = "there" => owner \in Users
    /\ \A u \in Users :
         /\ member[u] = "OWNER" <=> squad = "there" /\ u = owner
         /\ member[u] \in {"ADMIN", "MEMBER"} =>
              squad = "there" /\ invite[u] \in {"ACCEPTED", "DECLINED"}

Answering(u) == \E r \in Requests : req[r].by = u /\ req[r].at \in {"answer", "join"}

\* Who has answered and is not in the squad never gets in again, unless an
\* answer is still under way: not after a refusal, a departure or a kick, nor
\* after an acceptance that failed before the row was inserted.  The check of
\* squad.service.ts:281 lets an answered invitation be repeated, and the
\* unique key does not (schema.prisma:172).
NoWayBack ==
    [][\A u \in Users :
         invite[u] \in {"ACCEPTED", "DECLINED"} /\ member[u] = "none" /\ ~Answering(u)
         => member'[u] = "none" /\ invite'[u] # "PENDING"]_vars
=============================================================================
