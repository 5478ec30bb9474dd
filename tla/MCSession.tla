-------------------------------- MODULE MCSession --------------------------------
(***************************************************************************)
(* What follows a login and its end: the session itself, and the list of   *)
(* conversations.  Conversations is told of a login and its end in any     *)
(* order that Session allows and in others, and shares no other state, so  *)
(* a behaviour is one of one part.                                         *)
(***************************************************************************)
EXTENDS Session, Conversations, TLC

CONSTANTS ann, bob

VARIABLE part

(* The settings hold the token of ann's last session and her device id,    *)
(* which the server knows as a device of bob, whose own devices are as     *)
(* many as an account may have.                                            *)
MCWorlds ==
  {[saved   |-> ann,
    ids     |-> [n \in Names |-> IF n = ann THEN 1 ELSE 0],
    devices |-> [n \in Accounts |-> IF n = bob THEN <<1>> ELSE <<>>]]}

MCChains == Permutations(Chains)

MCInit ==
  /\ part \in {"session", "conversations"}
  /\ Init
  /\ ConversationsInit

MCNext ==
  \/ part = "session" /\ Next /\ UNCHANGED <<part, conversationVars>>
  \/ part = "conversations" /\ ConversationsNext /\ UNCHANGED <<part, sessionVars>>

MCSpec == MCInit /\ [][MCNext]_<<part, sessionVars, conversationVars>>
================================================================================
