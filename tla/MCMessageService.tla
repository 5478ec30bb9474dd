--------------------------- MODULE MCMessageService ---------------------------
(* Bounds for TLC: how often each environment event may happen.            *)
EXTENDS MessageService

Up(S) == [e \in Events |-> IF e \in S THEN 1 ELSE 0]

SafetyBudget   == [Up(Events) EXCEPT !["answer"] = 2, !["retry"] = 2]
LivenessBudget == Up({"retry", "cancel", "answer"})
OfferBudget    == Up({"answer"})
ReceiptBudget  == Up({"receipt"})
RetryBudget    == Up({"retry"})
=============================================================================
