---------------------------- MODULE MCRelayService ----------------------------
(* Two accounts and up to three items; bounds for TLC.                     *)
EXTENDS RelayService, TLC

CONSTANTS a, b, m1, m2, c1, x1

OwnerOfOne == m1 :> a @@ x1 :> a
OwnerOfEach == c1 :> a @@ x1 :> b
OwnerOfTwo == m1 :> a @@ m2 :> a

(* The two messages of one account may be exchanged.                       *)
Alike == Permutations(Chat)

Up(S) == [e \in Events |-> IF e \in S THEN 1 ELSE 0]

SafetyBudget   == [Up(Events \ {"netfail", "send"}) EXCEPT !["login"] = 2, !["reject"] = 3]
LivenessBudget == [Up(Events \ {"sqlfail", "restart"}) EXCEPT !["login"] = 2]
LogoutBudget   == Up({"login", "logout"})
=============================================================================
