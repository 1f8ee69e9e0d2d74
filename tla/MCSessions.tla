----------------------------- MODULE MCSessions -----------------------------
(* Instance of Sessions: two requests side by side with what may happen to *)
(* the account, one concern at a time; three pairs are enough for two      *)
(* requests to refresh with the same one.                                  *)
EXTENDS Sessions

CONSTANTS p1, p2, p3

Ops(pairset, ops) == [ops |-> ops, pairs |-> pairset]

MCPlans == {Ops({p1, p2, p3}, {"get", "logout"}),
            Ops({p1, p2}, {"get", "logout", "login"}),
            Ops({p1, p2}, {"get", "activate", "deactivate"}),
            Ops({p1}, {"get", "softDelete", "restore", "deactivate"}),
            Ops({p1, p2}, {"get", "USER", "ADMIN"}),
            Ops({p1, p2}, {"siwe", "register", "softDelete"})}
=============================================================================
