--------------------------------- MODULE Mailbox ---------------------------------
(***************************************************************************)
(* What the receiving side promises of chat messages: a message the relay  *)
(* forgets is in the database of its account, or waits to be saved there,  *)
(* and is never saved elsewhere; unless an excuse is on record.            *)
(***************************************************************************)
CONSTANTS Message, Owner, Database

VARIABLES
  held,    \* messages the relay still holds
  waiting, \* messages received and not saved yet
  kept,    \* messages saved: the message, the database
  excused  \* messages received in another's session or name, or lost with a crash

mailboxVars == <<held, waiting, kept, excused>>

Init == held = Message /\ waiting = {} /\ kept = {} /\ excused = {}

Safe(i) == i \in waiting \/ <<i, Owner[i]>> \in kept \/ i \in excused

(* A message waits once; all of those that come together come late or none.*)
Receive(S) ==
  /\ S \intersect waiting = {}
  /\ waiting' = waiting \union S
  /\ excused' \in {excused, excused \union S}
  /\ UNCHANGED <<held, kept>>

Save(i, database) ==
  /\ i \in waiting
  /\ database = Owner[i] \/ i \in excused
  /\ waiting' = waiting \ {i}
  /\ kept' = kept \union {<<i, database>>}
  /\ UNCHANGED <<held, excused>>

Lose(S) ==
  /\ waiting' = waiting \ S
  /\ excused' = excused \union S
  /\ UNCHANGED <<held, kept>>

Forget(i) ==
  /\ Safe(i)
  /\ held' = held \ {i}
  /\ UNCHANGED <<waiting, kept, excused>>

Next ==
  \/ \E S \in SUBSET Message : Receive(S)
  \/ \E S \in SUBSET waiting : Lose(S)
  \/ \E i \in Message : Forget(i) \/ (\E d \in Database : Save(i, d))

Spec == Init /\ [][Next]_mailboxVars
================================================================================
