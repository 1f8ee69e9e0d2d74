---------------------------- MODULE MCSquadArena ----------------------------
(* Three members; ann has a verified wallet, and a second client where the  *)
(* configuration gives her one.                                             *)
EXTENDS SquadArena

CONSTANTS ann, bob, cyd, ann1, ann2, bob1, cyd1

OwnerOf ==
    [s \in Sockets |-> CASE s \in {ann1, ann2} -> ann [] s = bob1 -> bob [] s = cyd1 -> cyd]

=============================================================================
