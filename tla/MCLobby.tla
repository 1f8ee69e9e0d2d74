------------------------------ MODULE MCLobby ------------------------------
(* Two players, of whom ann has two clients.  Any of the sockets may watch a *)
(* room, its players' own and a stranger's.                                  *)
EXTENDS Lobby

CONSTANTS ann, bob, ann1, ann2, bob1

OwnerOf == [s \in Sockets |-> IF s = bob1 THEN bob ELSE ann]

=============================================================================
