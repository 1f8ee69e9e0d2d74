------------------------- MODULE MCSquadMembership -------------------------
(* Instance of SquadMembership: three users, one of whom has asked the two *)
(* others; two requests side by side, one concern at a time.               *)
EXTENDS SquadMembership, TLC

MCUsers == {"ann", "bob", "cas"}
MCStartFriends == {<<"ann", "bob">>, <<"ann", "cas">>}
MCPlans == [ops : {FriendOps}, users : {{"ann", "bob"}}]
           \cup [ops : {SquadOps, {"inviteToSquad", "respondToInvite", "removeFriend"}}, users : {MCUsers}]
MCSymmetry == Permutations(Requests)
=============================================================================
