----------------------- MODULE SquadMembershipProofs -----------------------
(***************************************************************************)
(* What a squad and its requests keep, for any number of users and of      *)
(* requests side by side.                                                  *)
(*                                                                         *)
(* The invariant says of each request what its first queries have found    *)
(* and what is still so when it writes: a request that changes a row of a  *)
(* member has a target that is not the owner, since an owner never changes *)
(* while the squad is there; one that joins has an invitation that is      *)
(* answered, or a squad that is gone.                                      *)
(***************************************************************************)
EXTENDS SquadMembership, TLAPS

Befriending == {"befriend", "answerFriend", "unfriend"}
Inviting == {"friends", "notMember", "notInvited", "invite"}
Changing == {"isMember", "leave", "target", "kick", "update"}
Given == {"ADMIN", "MEMBER"}
Answered(u) == invite[u] \in {"ACCEPTED", "DECLINED"}

\* What holds of a request at its next query.
Fits(q) ==
    /\ q.at \in Befriending => q.by \in Users /\ q.on \in Users
    /\ q.at = "answerFriend" => q.value \in Friendship
    /\ q.at \in Inviting => q.on \in Users
    /\ q.at \in {"answer", "join"} => q.by \in Users /\ q.value \in {"ACCEPTED", "DECLINED"}
    /\ q.at = "answer" => invite[q.by] # "none" \/ squad = "deleted"
    /\ q.at = "join" => Answered(q.by) \/ squad = "deleted"
    /\ q.at = "notOwner" => q.on \in Users /\ squad # "none" /\ q.op = "kickMember"
    /\ q.at \in Changing => q.on \in Users /\ squad # "none" /\ q.on # owner
    /\ q.at = "target" => q.op = "kickMember" \/ q.value \in Given
    /\ q.at = "update" => q.value \in Given

RequestsFit == \A r \in Requests : Fits(req[r])

\* No invitation without the squad.
InvitesFit == squad # "there" => \A u \in Users : invite[u] = "none"

IInv == TypeOK /\ SquadShape /\ InvitesFit /\ RequestsFit

LEMMA IdleFits == Idle \in Request /\ Fits(Idle)
BY DEF Idle, Request, Fits, Befriending, Inviting, Changing, Queries, FriendOps, SquadOps, Friendship

LEMMA InitIInv == Init => IInv
<1> SUFFICES ASSUME Init
             PROVE  IInv
  OBVIOUS
<1>1. TypeOK
  BY MembershipAssumption, IdleFits DEF Init, TypeOK, Friendship, Member, Invite
<1>2. SquadShape
  BY DEF Init, SquadShape
<1>3. InvitesFit /\ RequestsFit
  BY IdleFits DEF Init, InvitesFit, RequestsFit
<1> QED
  BY <1>1, <1>2, <1>3 DEF IInv

----------------------------------------------------------------------------
(* Steps that only read.                                                   *)

\* A request that goes to another query, of which the rows say what they say.
LEMMA ReadStep ==
    ASSUME IInv, NEW r \in Requests, NEW q \in Request, Fits(q),
           req' = [req EXCEPT ![r] = q], UNCHANGED <<friendship, squadVars, plan>>
    PROVE  IInv'
<1>1. TypeOK'
  BY DEF IInv, TypeOK, squadVars
<1>2. SquadShape'
  <2>1. UNCHANGED <<invite, squad, member, owner>>
    BY DEF squadVars
  <2> QED
    BY <2>1 DEF IInv, SquadShape
<1>3. InvitesFit'
  BY DEF IInv, InvitesFit, squadVars
<1>4. RequestsFit'
  <2> SUFFICES ASSUME NEW s \in Requests
               PROVE  Fits(req[s])'
    BY DEF RequestsFit
  <2>1. req'[s] = q \/ req'[s] = req[s]
    BY DEF IInv, TypeOK
  <2>2. Fits(req[s])
    BY DEF IInv, RequestsFit
  <2> QED
    BY <2>1, <2>2 DEF Fits, Answered, squadVars
<1> QED
  BY <1>1, <1>2, <1>3, <1>4 DEF IInv

LEMMA StartStep ==
    ASSUME IInv, NEW r \in Requests, NEW op \in FriendOps \cup SquadOps, NEW at \in Queries,
           NEW by \in Users \cup {NoUser}, NEW on \in Users \cup {NoUser},
           NEW value \in Friendship \cup Member \cup Invite,
           Start(r, op, at, by, on, value),
           Fits([at |-> at, op |-> op, by |-> by, on |-> on, value |-> value])
    PROVE  IInv'
<1> DEFINE q == [at |-> at, op |-> op, by |-> by, on |-> on, value |-> value]
<1>1. q \in Request
  BY DEF Request
<1>2. req' = [req EXCEPT ![r] = q] /\ UNCHANGED <<friendship, squadVars, plan>>
  BY DEF Start
<1> HIDE DEF q
<1> QED
  BY <1>1, <1>2, ReadStep DEF q

LEMMA CheckStep ==
    ASSUME IInv, NEW r \in Requests, NEW at, NEW ok, NEW next \in Queries, Check(r, at, ok, next),
           ok = TRUE => Fits([req[r] EXCEPT !.at = next])
    PROVE  IInv'
<1> DEFINE q == IF ok THEN [req[r] EXCEPT !.at = next] ELSE Idle
<1>1. req[r] \in Request
  BY DEF IInv, TypeOK
<1>2. [req[r] EXCEPT !.at = next] \in Request
  BY <1>1 DEF Request
<1>3. q \in Request /\ Fits(q)
  BY <1>2, IdleFits
<1>4. req' = [req EXCEPT ![r] = q] /\ UNCHANGED <<friendship, squadVars, plan>>
  BY DEF Check
<1> HIDE DEF q
<1> QED
  BY <1>3, <1>4, ReadStep

----------------------------------------------------------------------------
(* Friends.                                                                *)

\* A request that ends, or all of them for one row, and nothing of the squad.
LEMMA EndStep ==
    ASSUME IInv, friendship' \in [Users \X Users -> Friendship],
           req' \in [Requests -> Request],
           \A s \in Requests : req'[s] = req[s] \/ req'[s] = Idle,
           UNCHANGED <<squadVars, plan>>
    PROVE  IInv'
<1>1. TypeOK'
  BY DEF IInv, TypeOK, squadVars
<1>2. UNCHANGED <<squad, owner, member, invite>>
  BY DEF squadVars
<1>3. SquadShape' /\ InvitesFit'
  BY <1>2 DEF IInv, SquadShape, InvitesFit
<1>4. RequestsFit'
  BY <1>2, IdleFits DEF IInv, RequestsFit, Fits, Answered
<1> QED
  BY <1>1, <1>3, <1>4 DEF IInv

\* The request that ends in a write of its own.
LEMMA FinishStep ==
    ASSUME IInv, NEW r \in Requests, Finish(r)
    PROVE  /\ req' \in [Requests -> Request] /\ plan' = plan
           /\ req'[r] = Idle
           /\ \A s \in Requests : req'[s] = req[s] \/ req'[s] = Idle
BY IdleFits DEF IInv, TypeOK, Finish

LEMMA FriendInv == ASSUME IInv, NEW r \in Requests, FriendStep(r) PROVE IInv'
<1> USE DEF Befriending, Inviting, Changing
<1>1. ASSUME NEW u \in Users, NEW v \in Users, SendRequest(r, u, v)
      PROVE  IInv'
  <2>1. Fits([at |-> "befriend", op |-> "sendRequest", by |-> u, on |-> v, value |-> "PENDING"])
    BY DEF Fits
  <2> QED
    BY <1>1, <2>1, StartStep DEF SendRequest, FriendOps, Queries, Friendship
<1>2. ASSUME NEW u \in Users, NEW v \in Users, RemoveFriend(r, u, v)
      PROVE  IInv'
  <2>1. Fits([at |-> "unfriend", op |-> "removeFriend", by |-> u, on |-> v, value |-> "ACCEPTED"])
    BY DEF Fits
  <2> QED
    BY <1>2, <2>1, StartStep DEF RemoveFriend, FriendOps, Queries, Friendship
<1>3. ASSUME NEW u \in Users, NEW v \in Users, NEW action \in Friendship, Respond(r, u, v, action)
      PROVE  IInv'
  <2>1. Fits([at |-> "answerFriend", op |-> "respond", by |-> v, on |-> u, value |-> action])
    BY DEF Fits
  <2> QED
    BY <1>3, <2>1, StartStep DEF Respond, FriendOps, Queries, Friendship
<1>4. CASE Befriend(r)
  <2>1. friendship' \in [Users \X Users -> Friendship]
    BY <1>4 DEF Befriend, IInv, TypeOK, Friendship
  <2> QED
    BY <1>4, <2>1, EndStep, FinishStep DEF Befriend
<1>5. CASE AnswerFriend(r)
  <2>1. friendship' \in [Users \X Users -> Friendship]
    BY <1>5 DEF AnswerFriend, IInv, TypeOK, RequestsFit, Fits
  <2> QED
    BY <1>5, <2>1, EndStep, FinishStep DEF AnswerFriend
<1>6. CASE Unfriend(r)
  <2>1. friendship' \in [Users \X Users -> Friendship]
    BY <1>6 DEF Unfriend, IInv, TypeOK, Friendship
  <2>2. /\ req' \in [Requests -> Request]
        /\ \A s \in Requests : req'[s] = req[s] \/ req'[s] = Idle
    BY <1>6, IdleFits DEF Unfriend, IInv, TypeOK
  <2> QED
    BY <1>6, <2>1, <2>2, EndStep DEF Unfriend
<1> QED
  BY <1>1, <1>2, <1>3, <1>4, <1>5, <1>6 DEF FriendStep

----------------------------------------------------------------------------
(* The squad and its invitations.                                          *)

\* A row of a request that is checked in a row of its own keeps the others.
LEMMA OthersFit ==
    ASSUME IInv, NEW r \in Requests,
           \A s \in Requests : req'[s] = req[s] \/ req'[s] = Idle,
           UNCHANGED <<squad, owner>>,
           \A u \in Users : /\ invite[u] # "none" => invite'[u] # "none"
                            /\ Answered(u) => Answered(u)'
    PROVE  RequestsFit'
<1> SUFFICES ASSUME NEW s \in Requests
             PROVE  Fits(req[s])'
  BY DEF RequestsFit
<1>1. Fits(req[s])
  BY DEF IInv, RequestsFit
<1>2. CASE req'[s] = Idle
  BY <1>2, IdleFits DEF Fits, Idle, Befriending, Inviting, Changing
<1>3. CASE req'[s] = req[s]
  BY <1>1, <1>3 DEF Fits
<1> QED
  BY <1>2, <1>3

LEMMA CreateSquadInv == ASSUME IInv, NEW u \in Users, CreateSquad(u) PROVE IInv'
<1>1. TypeOK'
  BY DEF IInv, TypeOK, CreateSquad, Member
<1>2. \A v \in Users : member[v] = "none"
  <2>1. \A v \in Users : member[v] \in Member
    BY DEF IInv, TypeOK
  <2> QED
    BY <2>1 DEF IInv, SquadShape, CreateSquad, Member
<1>3. SquadShape'
  BY <1>2 DEF IInv, TypeOK, SquadShape, CreateSquad
<1>4. InvitesFit'
  BY DEF InvitesFit, CreateSquad
<1>5. RequestsFit'
  BY DEF IInv, RequestsFit, Fits, CreateSquad, Answered
<1> QED
  BY <1>1, <1>3, <1>4, <1>5 DEF IInv

LEMMA DeleteInv == ASSUME IInv, NEW r \in Requests, Delete(r) PROVE IInv'
<1>1. TypeOK'
  BY FinishStep DEF IInv, TypeOK, Delete, Member, Invite
<1>2. SquadShape' /\ InvitesFit'
  BY MembershipAssumption DEF SquadShape, InvitesFit, Delete
<1>3. RequestsFit'
  <2> SUFFICES ASSUME NEW s \in Requests
               PROVE  Fits(req[s])'
    BY DEF RequestsFit
  <2>1. Fits(req[s])
    BY DEF IInv, RequestsFit
  <2>2. req'[s] = req[s] \/ req'[s] = Idle
    BY FinishStep DEF Delete
  <2>3. squad' = "deleted" /\ owner' = NoUser
    BY DEF Delete
  <2>4. CASE req'[s] = Idle
    BY <2>4 DEF Fits, Idle, Befriending, Inviting, Changing
  <2>5. CASE req'[s] = req[s]
    BY <2>1, <2>3, <2>5, MembershipAssumption DEF Fits
  <2> QED
    BY <2>2, <2>4, <2>5
<1> QED
  BY <1>1, <1>2, <1>3 DEF IInv

LEMMA InviteInv == ASSUME IInv, NEW r \in Requests, InviteStep(r) PROVE IInv'
<1> USE DEF Befriending, Inviting, Changing
<1>0. req[r] \in Request /\ Fits(req[r])
  BY DEF IInv, TypeOK, RequestsFit
<1>1. ASSUME NEW u \in Users, NEW v \in Users, InviteToSquad(r, u, v)
      PROVE  IInv'
  <2>1. Fits([at |-> "friends", op |-> "inviteToSquad", by |-> u, on |-> v, value |-> "PENDING"])
    BY DEF Fits
  <2> QED
    BY <1>1, <2>1, StartStep DEF InviteToSquad, SquadOps, Queries, Friendship
<1>2. ASSUME NEW u \in Users, NEW action \in Invite, RespondToInvite(r, u, action)
      PROVE  IInv'
  <2>1. Fits([at |-> "answer", op |-> "respondToInvite", by |-> u, on |-> NoUser, value |-> action])
    BY <1>2 DEF Fits, RespondToInvite
  <2> QED
    BY <1>2, <2>1, StartStep DEF RespondToInvite, SquadOps, Queries, Invite
<1>3. CASE CheckFriends(r)
  <2>1. req[r].at = "friends"
    BY <1>3 DEF CheckFriends, Check
  <2>2. Fits([req[r] EXCEPT !.at = "notMember"])
    BY <1>0, <2>1 DEF Fits, Request
  <2> QED
    BY <1>3, <2>2, CheckStep DEF CheckFriends, Queries
<1>4. CASE CheckNotMember(r)
  <2>1. req[r].at = "notMember"
    BY <1>4 DEF CheckNotMember, Check
  <2>2. Fits([req[r] EXCEPT !.at = "notInvited"])
    BY <1>0, <2>1 DEF Fits, Request
  <2> QED
    BY <1>4, <2>2, CheckStep DEF CheckNotMember, Queries
<1>5. CASE CheckNotInvited(r)
  <2>1. req[r].at = "notInvited"
    BY <1>5 DEF CheckNotInvited, Check
  <2>2. Fits([req[r] EXCEPT !.at = "invite"])
    BY <1>0, <2>1 DEF Fits, Request
  <2> QED
    BY <1>5, <2>2, CheckStep DEF CheckNotInvited, Queries
<1>6. CASE CreateInvite(r)
  <2>1. TypeOK'
    BY <1>6, FinishStep DEF IInv, TypeOK, CreateInvite, Invite
  <2>2. \A u \in Users : /\ invite[u] # "none" => invite'[u] = invite[u]
                         /\ squad # "there" => invite'[u] = invite[u]
    BY <1>6 DEF IInv, TypeOK, CreateInvite, Invitable
  <2>3. UNCHANGED <<squad, owner, member>>
    BY <1>6 DEF CreateInvite
  <2>4. SquadShape' /\ InvitesFit'
    BY <2>2, <2>3 DEF IInv, SquadShape, InvitesFit
  <2>5. RequestsFit'
    BY <1>6, <2>2, <2>3, FinishStep, OthersFit DEF CreateInvite, Answered
  <2> QED
    BY <2>1, <2>4, <2>5 DEF IInv
<1>7. CASE Answer(r)
  <2> DEFINE u == req[r].by
  <2>1. /\ u \in Users /\ req[r].value \in {"ACCEPTED", "DECLINED"}
        /\ invite' = IF invite[u] = "none" THEN invite ELSE [invite EXCEPT ![u] = req[r].value]
        /\ UNCHANGED <<friendship, squad, owner, member, plan>>
    BY <1>0, <1>7 DEF Answer, Fits
  <2>2. /\ \A v \in Users : invite[v] # "none" => invite'[v] # "none"
        /\ \A v \in Users : invite[v] = "none" => invite'[v] = "none"
        /\ \A v \in Users : Answered(v) => Answered(v)'
        /\ invite[u] # "none" => invite'[u] \in {"ACCEPTED", "DECLINED"}
        /\ invite' \in [Users -> Invite]
    <3> DEFINE value == req[r].value
    <3>1. /\ invite \in [Users -> Invite] /\ u \in Users
          /\ value = "ACCEPTED" \/ value = "DECLINED"
      BY <2>1 DEF IInv, TypeOK
    <3> HIDE DEF u, value
    <3>2. CASE invite[u] = "none"
      BY <2>1, <3>1, <3>2 DEF Answered
    <3>3. CASE invite[u] # "none" /\ invite' = [invite EXCEPT ![u] = value]
      <4>1. value \in Invite
        BY <3>1 DEF Invite
      <4>2. \A v \in Users : invite'[v] = IF v = u THEN value ELSE invite[v]
        BY <3>1, <3>3
      <4>3. invite' \in [Users -> Invite]
        BY <3>1, <3>3, <4>1
      <4> QED
        BY <3>1, <3>3, <4>2, <4>3 DEF Answered
    <3> QED
      BY <2>1, <3>2, <3>3 DEF value
  <2>3. CASE req' = [req EXCEPT ![r] = Idle]
    <3>1. TypeOK'
      BY <2>1, <2>2, <2>3, IdleFits DEF IInv, TypeOK
    <3>2. SquadShape' /\ InvitesFit'
      BY <2>1, <2>2 DEF IInv, SquadShape, InvitesFit, Answered
    <3>3. RequestsFit'
      BY <2>1, <2>2, <2>3, OthersFit DEF IInv, TypeOK
    <3> QED
      BY <3>1, <3>2, <3>3 DEF IInv
  <2>4. CASE invite[u] # "none" /\ req' = [req EXCEPT ![r] = [@ EXCEPT !.at = "join"]]
    <3>1. [req[r] EXCEPT !.at = "join"] \in Request
      BY <1>0 DEF Request, Queries
    <3>2. TypeOK'
      BY <2>1, <2>2, <2>4, <3>1 DEF IInv, TypeOK
    <3>3. SquadShape' /\ InvitesFit'
      BY <2>1, <2>2 DEF IInv, SquadShape, InvitesFit, Answered
    <3>4. RequestsFit'
      <4> SUFFICES ASSUME NEW s \in Requests
                   PROVE  Fits(req[s])'
        BY DEF RequestsFit
      <4>1. CASE s = r
        BY <1>0, <2>1, <2>2, <2>4, <4>1 DEF Fits, IInv, TypeOK, Request, Answered
      <4>2. CASE s # r
        <5>1. req'[s] = req[s] /\ Fits(req[s])
          BY <2>4, <4>2 DEF IInv, TypeOK, RequestsFit
        <5> QED
          BY <2>1, <2>2, <5>1 DEF Fits
      <4> QED
        BY <4>1, <4>2
    <3> QED
      BY <3>2, <3>3, <3>4 DEF IInv
  <2> QED
    BY <1>7, <2>3, <2>4 DEF Answer
<1>8. CASE Join(r)
  <2> DEFINE u == req[r].by
  <2>1. u \in Users /\ (Answered(u) \/ squad = "deleted")
    BY <1>0, <1>8 DEF Join, Fits
  <2>2. TypeOK'
    BY <1>8, <2>1, FinishStep DEF IInv, TypeOK, Join, Member
  <2>3. SquadShape'
    BY <1>8, <2>1 DEF IInv, TypeOK, SquadShape, Join, Insertable, IsMember, Answered
  <2>4. InvitesFit'
    BY <1>8 DEF IInv, InvitesFit, Join
  <2>5. RequestsFit'
    BY <1>8, FinishStep, OthersFit DEF Join, Answered
  <2> QED
    BY <2>2, <2>3, <2>4, <2>5 DEF IInv
<1> QED
  BY <1>1, <1>2, <1>3, <1>4, <1>5, <1>6, <1>7, <1>8 DEF InviteStep

----------------------------------------------------------------------------
(* Members.                                                                *)

LEMMA MemberInv == ASSUME IInv, NEW r \in Requests, MemberStep(r) PROVE IInv'
<1> USE DEF Befriending, Inviting, Changing
<1>0. req[r] \in Request /\ Fits(req[r])
  BY DEF IInv, TypeOK, RequestsFit
<1>1. ASSUME NEW u \in Users, DeleteSquad(r, u)
      PROVE  IInv'
  <2>1. Fits([at |-> "delete", op |-> "deleteSquad", by |-> u, on |-> NoUser, value |-> "none"])
    BY DEF Fits
  <2> QED
    BY <1>1, <2>1, StartStep DEF DeleteSquad, SquadOps, Queries, Friendship
<1>2. ASSUME NEW u \in Users, LeaveSquad(r, u)
      PROVE  IInv'
  <2>1. Fits([at |-> "isMember", op |-> "leaveSquad", by |-> u, on |-> u, value |-> "none"])
    BY <1>2 DEF Fits, LeaveSquad
  <2> QED
    BY <1>2, <2>1, StartStep DEF LeaveSquad, SquadOps, Queries, Friendship
<1>3. ASSUME NEW u \in Users, NEW v \in Users, KickMember(r, u, v)
      PROVE  IInv'
  <2>1. squad # "none"
    BY <1>3 DEF IInv, SquadShape, KickMember, HasRole
  <2>2. Fits([at |-> "notOwner", op |-> "kickMember", by |-> u, on |-> v, value |-> "none"])
    BY <2>1 DEF Fits
  <2> QED
    BY <1>3, <2>2, StartStep DEF KickMember, SquadOps, Queries, Friendship
<1>4. ASSUME NEW u \in Users, NEW v \in Users, NEW role \in Member, ChangeMemberRole(r, u, v, role)
      PROVE  IInv'
  <2>1. Fits([at |-> "target", op |-> "changeMemberRole", by |-> u, on |-> v, value |-> role])
    BY <1>4 DEF Fits, ChangeMemberRole, Given
  <2> QED
    BY <1>4, <2>1, StartStep DEF ChangeMemberRole, SquadOps, Queries, Friendship
<1>5. CASE Delete(r)
  BY <1>5, DeleteInv
<1>6. CASE CheckMember(r)
  <2>1. req[r].at = "isMember"
    BY <1>6 DEF CheckMember, Check
  <2>2. Fits([req[r] EXCEPT !.at = "leave"])
    BY <1>0, <2>1 DEF Fits, Request
  <2> QED
    BY <1>6, <2>2, CheckStep DEF CheckMember, Queries
<1>7. CASE CheckNotOwner(r)
  <2>1. req[r].at = "notOwner"
    BY <1>7 DEF CheckNotOwner, Check
  <2>2. Kickable(req[r].on) => Fits([req[r] EXCEPT !.at = "target"])
    BY <1>0, <2>1 DEF Fits, Request, Kickable
  <2> QED
    BY <1>7, <2>2, CheckStep DEF CheckNotOwner, Queries
<1>8. CASE CheckTarget(r)
  <2>1. req[r].at = "target"
    BY <1>8 DEF CheckTarget, Check
  <2>2. CASE req[r].op = "kickMember"
    <3>1. Fits([req[r] EXCEPT !.at = "kick"])
      BY <1>0, <2>1 DEF Fits, Request
    <3> QED
      BY <1>8, <2>2, <3>1, CheckStep DEF CheckTarget, Queries
  <2>3. CASE req[r].op # "kickMember"
    <3>1. Fits([req[r] EXCEPT !.at = "update"])
      BY <1>0, <2>1, <2>3 DEF Fits, Request
    <3> QED
      BY <1>8, <2>3, <3>1, CheckStep DEF CheckTarget, Queries
  <2> QED
    BY <2>2, <2>3
<1>9. CASE Leave(r)
  <2> DEFINE u == req[r].on
  <2>1. u \in Users /\ u # owner /\ member' = [member EXCEPT ![u] = "none"]
    BY <1>0, <1>9 DEF Leave, Fits, Removed
  <2>2. UNCHANGED <<squad, owner, invite>>
    BY <1>9 DEF Leave
  <2> HIDE DEF u
  <2>3. TypeOK'
    BY <1>9, <2>1, FinishStep DEF IInv, TypeOK, Leave, Member
  <2>4. SquadShape' /\ InvitesFit'
    BY <2>1, <2>2 DEF IInv, TypeOK, SquadShape, InvitesFit
  <2>5. RequestsFit'
    BY <1>9, <2>2, FinishStep, OthersFit DEF Leave, Answered
  <2> QED
    BY <2>3, <2>4, <2>5 DEF IInv
<1>10. CASE UpdateRole(r)
  <2> DEFINE u == req[r].on
             role == req[r].value
  <2>1. u \in Users /\ u # owner /\ role \in Given
    BY <1>0, <1>10 DEF UpdateRole, Fits
  <2>2. /\ UNCHANGED <<squad, owner, invite>>
        /\ member' = IF member[u] # "none" THEN [member EXCEPT ![u] = role] ELSE member
    BY <1>10 DEF UpdateRole, IsMember
  <2> HIDE DEF u, role
  <2>3. TypeOK'
    BY <1>10, <2>1, <2>2, FinishStep DEF IInv, TypeOK, UpdateRole, Member, Given
  <2>4. SquadShape' /\ InvitesFit'
    <3>1. member[u] # "none" => member[u] \in Given
      BY <2>1 DEF IInv, TypeOK, SquadShape, Member, Given
    <3> QED
      BY <2>1, <2>2, <3>1 DEF IInv, TypeOK, SquadShape, InvitesFit, Given
  <2>5. RequestsFit'
    BY <1>10, <2>2, FinishStep, OthersFit DEF UpdateRole, Answered
  <2> QED
    BY <2>3, <2>4, <2>5 DEF IInv
<1> QED
  BY <1>1, <1>2, <1>3, <1>4, <1>5, <1>6, <1>7, <1>8, <1>9, <1>10 DEF MemberStep

LEMMA FailsInv == ASSUME IInv, NEW r \in Requests, RequestFails(r) PROVE IInv'
<1>1. friendship' \in [Users \X Users -> Friendship]
  BY DEF IInv, TypeOK, RequestFails
<1> QED
  BY <1>1, EndStep, FinishStep DEF RequestFails

LEMMA StepIInv == ASSUME IInv, [Next]_vars PROVE IInv'
<1>1. CASE Next
  BY <1>1, CreateSquadInv, FriendInv, InviteInv, MemberInv, FailsInv DEF Next
<1>2. CASE UNCHANGED vars
  <2>1. UNCHANGED <<friendship, squad, owner, member, invite, req, plan>>
    BY <1>2 DEF vars, squadVars
  <2> QED
    BY <2>1 DEF IInv, TypeOK, SquadShape, InvitesFit, RequestsFit, Fits, Answered
<1> QED
  BY <1>1, <1>2

\* The invariant that the theorems below rest on (squad.service.ts:16-548):
\* at every query of every request, what it has found is still enough for
\* what it writes.
THEOREM Inductive == Spec => []IInv
BY InitIInv, StepIInv, PTL DEF Spec

\* Every row and every request has its type (schema.prisma:199-233).
THEOREM TypeCorrect == Spec => []TypeOK
<1>1. IInv => TypeOK
  BY DEF IInv
<1> QED
  BY <1>1, Inductive, PTL

\* A squad has its owner as its one OWNER and members who answered, for any
\* number of requests side by side (squad.service.ts:364, 459, 476, 519, 536).
THEOREM SquadIsShaped == Spec => []SquadShape
<1>1. IInv => SquadShape
  BY DEF IInv
<1> QED
  BY <1>1, Inductive, PTL

----------------------------------------------------------------------------
(* No way back.                                                            *)

\* A user who has answered, is out and has no answer under way.
Out(u) == Answered(u) /\ member[u] = "none" /\ ~Answering(u)

LEMMA StaysOut ==
    ASSUME IInv, Next, NEW u \in Users, Out(u)
    PROVE  member'[u] = "none" /\ invite'[u] # "PENDING"
<1>1. /\ member \in [Users -> Member] /\ invite \in [Users -> Invite]
      /\ invite[u] \in {"ACCEPTED", "DECLINED"} /\ member[u] = "none"
  BY DEF IInv, TypeOK, Out, Answered
<1>2. \A r \in Requests : req[r].at \in {"answer", "join"} => req[r].by # u
  BY DEF Out, Answering
<1>3. CASE UNCHANGED <<member, invite>>
  BY <1>1, <1>3
<1>4. ASSUME NEW v \in Users, CreateSquad(v)
      PROVE  member'[u] = "none" /\ invite'[u] # "PENDING"
  BY <1>1, <1>4 DEF IInv, InvitesFit, CreateSquad
<1>5. ASSUME NEW r \in Requests, Delete(r)
      PROVE  member'[u] = "none" /\ invite'[u] # "PENDING"
  BY <1>5 DEF Delete
<1>6. ASSUME NEW r \in Requests, CreateInvite(r)
      PROVE  member'[u] = "none" /\ invite'[u] # "PENDING"
  BY <1>1, <1>6 DEF CreateInvite, Invitable
<1>7. ASSUME NEW r \in Requests, Answer(r)
      PROVE  member'[u] = "none" /\ invite'[u] # "PENDING"
  BY <1>1, <1>2, <1>7 DEF Answer
<1>8. ASSUME NEW r \in Requests, Join(r)
      PROVE  member'[u] = "none" /\ invite'[u] # "PENDING"
  BY <1>1, <1>2, <1>8 DEF Join
<1>9. ASSUME NEW r \in Requests, Leave(r)
      PROVE  member'[u] = "none" /\ invite'[u] # "PENDING"
  BY <1>1, <1>9 DEF Leave, Removed
<1>10. ASSUME NEW r \in Requests, UpdateRole(r)
       PROVE  member'[u] = "none" /\ invite'[u] # "PENDING"
  BY <1>1, <1>10 DEF UpdateRole, IsMember
<1>11. ASSUME NEW r \in Requests, FriendStep(r) \/ RequestFails(r)
       PROVE  UNCHANGED <<member, invite>>
  BY <1>11 DEF FriendStep, RequestFails, SendRequest, RemoveFriend, Respond, Start,
               Befriend, AnswerFriend, Unfriend, squadVars
<1>12. ASSUME NEW r \in Requests, InviteStep(r)
       PROVE  CreateInvite(r) \/ Answer(r) \/ Join(r) \/ UNCHANGED <<member, invite>>
  BY <1>12 DEF InviteStep, InviteToSquad, RespondToInvite, Start,
               CheckFriends, CheckNotMember, CheckNotInvited, Check, squadVars
<1>13. ASSUME NEW r \in Requests, MemberStep(r)
       PROVE  Delete(r) \/ Leave(r) \/ UpdateRole(r) \/ UNCHANGED <<member, invite>>
  BY <1>13 DEF MemberStep, DeleteSquad, LeaveSquad, KickMember, ChangeMemberRole, Start,
               CheckMember, CheckNotOwner, CheckTarget, Check, squadVars
<1> QED
  BY <1>3, <1>4, <1>5, <1>6, <1>7, <1>8, <1>9, <1>10, <1>11, <1>12, <1>13 DEF Next

\* Who is out after an answer never gets back in, and is never asked again,
\* whatever requests run side by side (squad.service.ts:281, 285;
\* schema.prisma:172).
THEOREM NobodyGetsBack == Spec => NoWayBack
<1>1. ASSUME IInv, [Next]_vars
      PROVE  [\A u \in Users : Out(u) => member'[u] = "none" /\ invite'[u] # "PENDING"]_vars
  BY <1>1, StaysOut
<1>2. [][\A u \in Users : Out(u) => member'[u] = "none" /\ invite'[u] # "PENDING"]_vars => NoWayBack
  BY DEF NoWayBack, Out, Answered
<1> QED
  BY <1>1, <1>2, Inductive, PTL DEF Spec
=============================================================================
