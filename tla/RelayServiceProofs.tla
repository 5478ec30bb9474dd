-------------------------- MODULE RelayServiceProofs --------------------------
(***************************************************************************)
(* Proofs about RelayService: its type invariant and its four safety       *)
(* properties, for any accounts, items and bounds.                         *)
(***************************************************************************)
EXTENDS RelayService, TLAPS

(* The next-state relation, action by action.                              *)
LEMMA NextCases ==
  ASSUME [Next]_vars
  PROVE  \/ \E a \in Account : Login(a)
         \/ \E a \in Account : ProfileAnswered(a)
         \/ \E a \in Account : ProfileFailed(a)
         \/ Logout \/ Registered \/ RegistrationFailed
         \/ PollTick \/ PollServed \/ PollAnswered \/ PollRejected \/ PollFailed
         \/ LinkUp \/ LinkLost \/ LinkRejected
         \/ \E i \in Item : Push(i)
         \/ Send \/ SendAnswered \/ SendRejected
         \/ \E i \in Item : AckArrives(i)
         \/ \E i \in Item : AckLost(i)
         \/ WorkerSwitch
         \/ \E i \in Chat : WorkerSave(i)
         \/ \E i \in Chat : WorkerFault(i)
         \/ Restart
         \/ UNCHANGED vars
BY DEF Next, Sessions, Polling, Link, Calls, Worker

-----------------------------------------------------------------------------
(* Type correctness.                                                       *)

LEMMA JobConstructors ==
  /\ \A S \in SUBSET Chat : SaveJob(S) \in Job
  /\ \A u \in User : SwitchJob(u) \in Job
BY DEF SaveJob, SwitchJob, Job

(* The fields of a job.                                                    *)
LEMMA JobFields ==
  \A j \in Job : /\ j.items \subseteq Chat /\ j.db \in User
                 /\ j.op \in {"save", "switch"}
                 /\ j.op = "switch" => j.items = {}
BY DEF Job, User

LEMMA SwitchQueued ==
  ASSUME jobs \in Seq(Job), NEW u \in User
  PROVE  QueueSwitch(u) \in Seq(Job)
BY JobConstructors DEF QueueSwitch

LEMMA SpendType ==
  ASSUME spent \in [Events -> Nat], NEW e \in Events, Spend(e)
  PROVE  spent' \in [Events -> Nat]
BY DEF Spend

(* What is left of a save is a save.                                       *)
LEMMA RestType ==
  ASSUME jobs \in Seq(Job), jobs # <<>>, NEW i
  PROVE  RestOfJob(i) \in Seq(Job)
<1>1. Head(jobs) \in Job /\ Tail(jobs) \in Seq(Job)
  OBVIOUS
<1>2. Head(jobs).items \ {i} \in SUBSET Chat
  BY <1>1, JobFields
<1>3. SaveJob(Head(jobs).items \ {i}) \in Job
  BY <1>2, JobConstructors
<1> QED
  BY <1>1, <1>3 DEF RestOfJob

(* Those who make requests.                                                *)
LEMMA Identities ==
  ASSUME TypeOK
  PROVE  NoOne \in Identity /\ Present \in Identity /\ NoPoll \in Poll /\ PollOf(Present) \in Poll
<1>1. NoOne \in Identity /\ Present \in Identity
  BY DEF TypeOK, NoOne, Own, Present, Identity, User
<1> QED
  BY <1>1 DEF NoPoll, PollOf, Poll

LEMMA ProcessType ==
  ASSUME TypeOK, NEW S \in SUBSET Item, NEW asker, Process(S, asker)
  PROVE  /\ processed' \subseteq Item /\ handed' \in [Item -> Nat] /\ late' \subseteq Item
         /\ jobs' \in Seq(Job) /\ acks' \subseteq Item \X Identity
<1>1. Fresh(S) \subseteq Item
  BY DEF Fresh
<1>2. processed' \subseteq Item /\ late' \subseteq Item
  BY <1>1 DEF Process, TypeOK
<1>3. handed' \in [Item -> Nat]
  BY DEF Process, TypeOK
<1>4. jobs' \in Seq(Job)
  <2>1. SaveJob(ToSave(Fresh(S))) \in Job
    BY JobConstructors DEF ToSave
  <2> QED
    BY <2>1 DEF Process, TypeOK
<1>5. acks' \subseteq Item \X Identity
  BY Identities DEF Process, TypeOK, Acknowledge
<1> QED
  BY <1>2, <1>3, <1>4, <1>5

LEMMA HandleType ==
  ASSUME TypeOK, Handle401
  PROVE  /\ retry401' \in 0..2 /\ user' \in User /\ name' \in User
         /\ linkFor' \in Identity /\ link' \in Identity
         /\ polling' \in BOOLEAN /\ jobs' \in Seq(Job) /\ regs' \in Nat
<1>1. CASE MayRetry
  BY <1>1 DEF Handle401, MayRetry, RequestRegistration, TypeOK, links, signedIn
<1>2. CASE ~MayRetry
  <2>1. QueueSwitch("none") \in Seq(Job)
    BY SwitchQueued DEF TypeOK, User
  <2>2. retry401' \in 0..2 /\ regs' \in Nat
    BY <1>2 DEF Handle401, TypeOK
  <2>3. polling' \in BOOLEAN
    BY <1>2 DEF Handle401, StopPolling
  <2> QED
    BY <1>2, <2>1, <2>2, <2>3, Identities DEF Handle401, StopPolling, ClearSession, User
<1> QED
  BY <1>1, <1>2

LEMMA AskType ==
  ASSUME TypeOK, Ask
  PROVE  poll' \in Poll
BY Identities DEF TypeOK, Ask

(* Every reachable state is well typed; in particular the 401 counter      *)
(* stays below the limit at which it ends the session.                     *)
LEMMA TypeInit == Init => TypeOK
<1> SUFFICES ASSUME Init PROVE TypeOK
  OBVIOUS
<1>1. handed \in [Item -> Nat] /\ spent \in [Events -> Nat]
  BY DEF Init
<1>2. poll \in Poll
  BY DEF Init, NoPoll, PollOf, Poll, NoOne, Own, Identity, User
<1>3. polling \in BOOLEAN /\ profiles \in [Account -> Nat]
  BY DEF Init
<1>6. linkFor \in Identity /\ link \in Identity
  BY DEF Init, NoOne, Own, Identity, User
<1>5. jobs \in Seq(Job)
  BY DEF Init
<1>4. retry401 \in 0..2 /\ regs \in Nat /\ sends \in Nat
  BY DEF Init
<1> QED
  BY <1>1, <1>2, <1>3, <1>4, <1>5, <1>6 DEF Init, TypeOK, User

LEMMA TypeStep == TypeOK /\ [Next]_vars => TypeOK'
<1> SUFFICES ASSUME TypeOK, [Next]_vars PROVE TypeOK'
  OBVIOUS
<1> USE DEF signedIn, session, links, inbox, store
<1>1. ASSUME NEW a \in Account, Login(a) PROVE TypeOK'
  <2>1. QueueSwitch(a) \in Seq(Job) /\ spent' \in [Events -> Nat]
    BY <1>1, SwitchQueued, SpendType DEF Login, TypeOK, User, Events
  <2>2. profiles' \in [Account -> Nat]
    BY <1>1 DEF Login, TypeOK
  <2> QED
    BY <1>1, <2>1, <2>2 DEF Login, TypeOK, User
<1>24. ASSUME NEW a \in Account, ProfileAnswered(a) PROVE TypeOK'
  <2>1. CurrentUsername' \in User
    BY <1>24 DEF ProfileAnswered, CurrentUsername, User
  <2>2. QueueSwitch(CurrentUsername') \in Seq(Job) /\ spent' \in [Events -> Nat]
    BY <1>24, <2>1, SwitchQueued, SpendType DEF ProfileAnswered, TypeOK, Events
  <2>3. profiles' \in [Account -> Nat]
    BY <1>24 DEF ProfileAnswered, TypeOK
  <2> QED
    BY <1>24, <2>2, <2>3 DEF ProfileAnswered, TypeOK, User
<1>25. ASSUME NEW a \in Account, ProfileFailed(a) PROVE TypeOK'
  <2>1. spent' \in [Events -> Nat]
    BY <1>25, SpendType DEF ProfileFailed, TypeOK, Events
  <2>2. profiles' \in [Account -> Nat]
    BY <1>25 DEF ProfileFailed, TypeOK
  <2> QED
    BY <1>25, <2>1, <2>2 DEF ProfileFailed, TypeOK
<1>2. CASE Logout
  <2>1. QueueSwitch("none") \in Seq(Job) /\ spent' \in [Events -> Nat]
    BY <1>2, SwitchQueued, SpendType DEF Logout, TypeOK, User, Events
  <2> QED
    BY <1>2, <2>1, Identities DEF Logout, StopPolling, ClearSession, TypeOK, User
<1>3. CASE Registered
  <2>1. poll' \in Poll /\ polling' \in BOOLEAN
    BY <1>3, AskType DEF Registered, StartPolling
  <2>2. regs' \in Nat
    BY <1>3 DEF Registered, TypeOK
  <2>3. linkFor' \in Identity /\ link' \in Identity
    BY <1>3, Identities DEF Registered, StartPolling, TypeOK
  <2> QED
    BY <1>3, <2>1, <2>2, <2>3 DEF Registered, TypeOK
<1>4. CASE RegistrationFailed
  <2>1. spent' \in [Events -> Nat]
    BY <1>4, SpendType DEF RegistrationFailed, TypeOK, Events
  <2> QED
    BY <1>4, <2>1 DEF RegistrationFailed, TypeOK
<1>5. CASE PollTick
  BY <1>5, AskType DEF PollTick, TypeOK
<1>6. CASE PollServed
  <2>1. \A by : Replies(by) \subseteq SUBSET Item
    BY DEF Replies, HeldFor, TypeOK
  <2>2. \E S \in SUBSET Item : poll' = [by |-> poll.by, served |-> TRUE, items |-> S]
    BY <1>6, <2>1 DEF PollServed
  <2>3. poll' \in Poll
    BY <2>2 DEF TypeOK, Poll
  <2> QED
    BY <1>6, <2>3 DEF PollServed, TypeOK
<1>7. CASE PollAnswered
  <2>1. poll.items \in SUBSET Item /\ NoPoll \in Poll
    BY Identities DEF TypeOK, Poll
  <2>2. retry401' \in 0..2
    BY <1>7 DEF PollAnswered
  <2> QED
    BY <1>7, <2>1, <2>2, ProcessType DEF PollAnswered, TypeOK
<1>8. CASE PollRejected
  <2>1. spent' \in [Events -> Nat] /\ NoPoll \in Poll
    BY <1>8, SpendType, Identities DEF PollRejected, TypeOK, Events
  <2> QED
    BY <1>8, <2>1, HandleType DEF PollRejected, TypeOK
<1>9. CASE PollFailed
  <2>1. spent' \in [Events -> Nat] /\ NoPoll \in Poll
    BY <1>9, SpendType, Identities DEF PollFailed, TypeOK, Events
  <2> QED
    BY <1>9, <2>1 DEF PollFailed, TypeOK
<1>10. CASE LinkUp
  BY <1>10 DEF LinkUp, TypeOK
<1>11. CASE LinkLost
  <2>1. spent' \in [Events -> Nat]
    BY <1>11, SpendType DEF LinkLost, TypeOK, Events
  <2> QED
    BY <1>11, <2>1, Identities DEF LinkLost, TypeOK
<1>12. CASE LinkRejected
  <2>1. spent' \in [Events -> Nat]
    BY <1>12, SpendType DEF LinkRejected, TypeOK, Events
  <2> QED
    BY <1>12, <2>1, HandleType DEF LinkRejected, TypeOK
<1>13. ASSUME NEW i \in Item, Push(i) PROVE TypeOK'
  BY <1>13, ProcessType DEF Push, TypeOK
<1>14. CASE Send
  <2>1. spent' \in [Events -> Nat]
    BY <1>14, SpendType DEF Send, TypeOK, Events
  <2> QED
    BY <1>14, <2>1 DEF Send, TypeOK
<1>15. CASE SendAnswered
  BY <1>15 DEF SendAnswered, TypeOK
<1>16. CASE SendRejected
  <2>1. spent' \in [Events -> Nat] /\ sends' \in Nat
    BY <1>16, SpendType DEF SendRejected, TypeOK, Events
  <2> QED
    BY <1>16, <2>1, HandleType DEF SendRejected, TypeOK
<1>17. ASSUME NEW i \in Item, AckArrives(i) PROVE TypeOK'
  <2>1. acks' \subseteq Item \X Identity /\ mailbox' \subseteq Item
    BY <1>17 DEF AckArrives, TypeOK
  <2> QED
    BY <1>17, <2>1 DEF AckArrives, TypeOK
<1>18. ASSUME NEW i \in Item, AckLost(i) PROVE TypeOK'
  <2>1. spent' \in [Events -> Nat]
    BY <1>18, SpendType DEF AckLost, TypeOK, Events
  <2> QED
    BY <1>18, <2>1 DEF AckLost, TypeOK
<1>19. CASE WorkerSwitch
  <2>1. Head(jobs).db \in User /\ Tail(jobs) \in Seq(Job)
    BY <1>19, JobFields DEF WorkerSwitch, TypeOK
  <2> QED
    BY <1>19, <2>1 DEF WorkerSwitch, TypeOK
<1>20. ASSUME NEW i \in Chat, WorkerSave(i) PROVE TypeOK'
  BY <1>20, RestType DEF WorkerSave, TypeOK
<1>21. ASSUME NEW i \in Chat, WorkerFault(i) PROVE TypeOK'
  <2>1. spent' \in [Events -> Nat] /\ i \in Item
    BY <1>21, SpendType DEF WorkerFault, TypeOK, Events, Item
  <2> QED
    BY <1>21, <2>1, RestType DEF WorkerFault, TypeOK
<1>22. CASE Restart
  <2>1. spent' \in [Events -> Nat] /\ NoPoll \in Poll
    BY <1>22, SpendType, Identities DEF Restart, TypeOK, Events
  <2>2. Queued \subseteq Item
    BY JobFields DEF Queued, TypeOK, Item
  <2>3. handed' \in [Item -> Nat] /\ jobs' \in Seq(Job)
    BY <1>22 DEF Restart
  <2>4. retry401' \in 0..2 /\ regs' \in Nat /\ sends' \in Nat
    BY <1>22 DEF Restart
  <2>5. polling' \in BOOLEAN /\ profiles' \in [Account -> Nat]
    BY <1>22 DEF Restart
  <2> QED
    BY <1>22, <2>1, <2>2, <2>3, <2>4, <2>5, Identities DEF Restart, TypeOK, User
<1>23. CASE UNCHANGED vars
  BY <1>23 DEF vars, TypeOK
<1> QED
  BY NextCases, <1>1, <1>2, <1>3, <1>4, <1>5, <1>6, <1>7, <1>8, <1>9, <1>10, <1>11,
     <1>12, <1>13, <1>14, <1>15, <1>16, <1>17, <1>18, <1>19, <1>20, <1>21, <1>22, <1>23,
     <1>24, <1>25

(* Every reachable state is well typed; in particular the 401 counter      *)
(* stays below the limit at which it ends the session.                     *)
THEOREM TypeCorrect == Spec => []TypeOK
<1> QED
  BY TypeInit, TypeStep, PTL DEF Spec

-----------------------------------------------------------------------------
(* Handing over and the link.                                              *)

(* HandedOnce is inductive with the reason for it: what has been handed    *)
(* over is remembered.                                                     *)
HandedInv ==
  /\ HandedOnce
  /\ \A i \in Item : handed[i] > 0 => i \in processed

LEMMA HandedProcess ==
  ASSUME TypeOK, HandedInv, NEW S, NEW asker, Process(S, asker)
  PROVE  HandedInv'
<1> SUFFICES ASSUME NEW i \in Item
             PROVE  handed'[i] <= 1 /\ (handed'[i] > 0 => i \in processed')
  BY DEF HandedInv, HandedOnce
<1>1. handed[i] \in Nat
  BY DEF TypeOK
<1>2. processed' = processed \cup S
  BY DEF Process
<1>3. CASE i \in Fresh(S) \ Bad
  <2>1. i \in S /\ i \notin processed
    BY <1>3 DEF Fresh
  <2>2. handed[i] = 0
    BY <1>1, <2>1 DEF HandedInv
  <2>3. handed'[i] = 1
    BY <1>3, <2>2 DEF Process
  <2> QED
    BY <1>2, <2>1, <2>3
<1>4. CASE i \notin Fresh(S) \ Bad
  BY <1>1, <1>2, <1>4 DEF Process, HandedInv, HandedOnce
<1> QED
  BY <1>3, <1>4

LEMMA HandedStep == TypeOK /\ HandedInv /\ [Next]_vars => HandedInv'
<1> SUFFICES ASSUME TypeOK, HandedInv, [Next]_vars PROVE HandedInv'
  OBVIOUS
<1>1. ASSUME UNCHANGED <<processed, handed>> PROVE HandedInv'
  BY <1>1 DEF HandedInv, HandedOnce
<1>2. CASE PollAnswered
  BY <1>2, HandedProcess DEF PollAnswered
<1>3. ASSUME NEW i \in Item, Push(i) PROVE HandedInv'
  BY <1>3, HandedProcess DEF Push
<1>4. CASE Restart
  BY <1>4 DEF Restart, HandedInv, HandedOnce
<1>5. CASE ~PollAnswered /\ ~Restart /\ ~\E i \in Item : Push(i)
  <2>1. CASE Sessions
    BY <1>1, <2>1 DEF Sessions, Login, ProfileAnswered, ProfileFailed, Logout, Registered,
                      RegistrationFailed, inbox
  <2>2. CASE Polling
    BY <1>1, <1>5, <2>2 DEF Polling, PollTick, PollServed, PollRejected, PollFailed, inbox
  <2>3. CASE Link
    BY <1>1, <1>5, <2>3 DEF Link, LinkUp, LinkLost, LinkRejected, inbox
  <2>4. CASE Calls
    BY <1>1, <2>4 DEF Calls, Send, SendAnswered, SendRejected, AckArrives, AckLost, inbox
  <2>5. CASE Worker
    BY <1>1, <2>5 DEF Worker, WorkerSwitch, WorkerSave, WorkerFault, inbox
  <2> QED
    BY <1>1, <1>5, <2>1, <2>2, <2>3, <2>4, <2>5 DEF Next, vars, inbox
<1> QED
  BY <1>2, <1>3, <1>4, <1>5

(* However often polls and pushes deliver an item, one process hands it    *)
(* over once.                                                              *)
THEOREM HandedCorrect == Spec => []HandedOnce
<1>1. Init => HandedInv
  BY DEF Init, HandedInv, HandedOnce
<1>2. HandedInv => HandedOnce
  BY DEF HandedInv
<1> QED
  BY TypeCorrect, <1>1, <1>2, HandedStep, PTL DEF Spec

LEMMA LinkStep == TypeOK /\ LinkIsOwn /\ [Next]_vars => LinkIsOwn'
<1> SUFFICES ASSUME TypeOK, LinkIsOwn, [Next]_vars PROVE LinkIsOwn'
  OBVIOUS
<1> USE DEF LinkIsOwn, links, signedIn, session, NoOne, Own, Present
<1>1. ASSUME Handle401 PROVE LinkIsOwn'
  BY <1>1 DEF Handle401, StopPolling, ClearSession
<1>2. ASSUME NEW a \in Account, Login(a) PROVE LinkIsOwn'
  BY <1>2 DEF Login
<1>3. CASE Logout
  BY <1>3 DEF Logout, StopPolling, ClearSession
<1>4. CASE Registered
  BY <1>4 DEF Registered, StartPolling
<1>5. CASE PollRejected \/ LinkRejected \/ SendRejected
  BY <1>1, <1>5 DEF PollRejected, LinkRejected, SendRejected
<1>6. CASE LinkUp \/ LinkLost
  BY <1>6 DEF LinkUp, LinkLost
<1>7. CASE Restart
  BY <1>7 DEF Restart
<1>8. CASE UNCHANGED <<user, links>>
  BY <1>8
<1> QED
  <2>1. CASE Sessions
    BY <1>2, <1>3, <1>4, <1>8, <2>1 DEF Sessions, ProfileAnswered, ProfileFailed, RegistrationFailed
  <2>2. CASE Polling
    BY <1>5, <1>8, <2>2 DEF Polling, PollTick, PollServed, PollAnswered, PollFailed
  <2>3. CASE Link
    BY <1>5, <1>6, <1>8, <2>3 DEF Link, Push
  <2>4. CASE Calls
    BY <1>5, <1>8, <2>4 DEF Calls, Send, SendAnswered, AckArrives, AckLost
  <2>5. CASE Worker
    BY <1>8, <2>5 DEF Worker, WorkerSwitch, WorkerSave, WorkerFault
  <2> QED
    BY <1>7, <1>8, <2>1, <2>2, <2>3, <2>4, <2>5 DEF Next, vars

(* The WebSocket is open in the name of the account that is logged in, or  *)
(* not at all.                                                             *)
THEOREM LinkCorrect == Spec => []LinkIsOwn
<1>1. Init => LinkIsOwn
  BY DEF Init, LinkIsOwn, NoOne, Own
<1> QED
  BY TypeCorrect, <1>1, LinkStep, PTL DEF Spec

-----------------------------------------------------------------------------
(* The database a queued save will run in.                                 *)

(* A queue position has one database.                                      *)
LEMMA RunsUnique ==
  ASSUME NEW k \in Nat, NEW u, NEW v, RunsIn(k, u), RunsIn(k, v)
  PROVE  u = v
<1> USE DEF RunsIn
<1>1. CASE \A j \in 1..(k - 1) : jobs[j].op # "switch"
  BY <1>1
<1>2. CASE ~\A j \in 1..(k - 1) : jobs[j].op # "switch"
  <2>1. PICK i \in 1..(k - 1) : /\ jobs[i].op = "switch" /\ jobs[i].db = u
                                /\ \A h \in (i + 1)..(k - 1) : jobs[h].op # "switch"
    BY <1>2
  <2>2. PICK j \in 1..(k - 1) : /\ jobs[j].op = "switch" /\ jobs[j].db = v
                                /\ \A h \in (j + 1)..(k - 1) : jobs[h].op # "switch"
    BY <1>2
  <2>3. ~(i < j) /\ ~(j < i)
    BY <2>1, <2>2
  <2>4. i = j
    BY <2>3
  <2> QED
    BY <2>1, <2>2, <2>4
<1> QED
  BY <1>1, <1>2

(* Only the switches ahead of a position decide about it.                  *)
LEMMA RunsSame ==
  ASSUME NEW k \in Nat, NEW u, db' = db,
         \A h \in 1..(k - 1) : jobs'[h].op = jobs[h].op /\ jobs'[h].db = jobs[h].db
  PROVE  RunsIn(k, u)' <=> RunsIn(k, u)
<1>1. \A j \in 1..(k - 1) : \A h \in (j + 1)..(k - 1) : h \in 1..(k - 1)
  OBVIOUS
<1> QED
  BY <1>1 DEF RunsIn

(* A save that is appended leaves its database to the job behind it.       *)
LEMMA RunsBehindSave ==
  ASSUME NEW k \in Nat \ {0}, NEW u, db' = db, jobs'[k].op # "switch",
         \A h \in 1..(k - 1) : jobs'[h] = jobs[h]
  PROVE  RunsIn(k + 1, u)' <=> RunsIn(k, u)
<1>1. (k + 1) - 1 = k
  OBVIOUS
<1>2. 1..k = 1..(k - 1) \cup {k}
  OBVIOUS
<1>3. \A j \in 1..(k - 1) : /\ (j + 1)..k = (j + 1)..(k - 1) \cup {k}
                            /\ (j + 1)..(k - 1) \subseteq 1..(k - 1)
  OBVIOUS
<1> QED
  BY <1>1, <1>2, <1>3 DEF RunsIn

(* When a job has been taken off, all others move up by one.               *)
LEMMA RunsShift ==
  ASSUME jobs \in Seq(Job), jobs # <<>>, jobs' = Tail(jobs),
         db' = IF Head(jobs).op = "switch" THEN Head(jobs).db ELSE db,
         NEW k \in 1..Len(jobs), NEW u
  PROVE  RunsIn(k, u)' <=> RunsIn(k + 1, u)
<1>1. \A h \in 1..(k - 1) : jobs'[h] = jobs[h + 1]
  OBVIOUS
<1>2. Head(jobs) = jobs[1] /\ (k + 1) - 1 = k /\ k \in Nat \ {0}
  OBVIOUS
<1>3. ASSUME RunsIn(k, u)' PROVE RunsIn(k + 1, u)
  <2>1. CASE db' = u /\ \A j \in 1..(k - 1) : jobs'[j].op # "switch"
    <3>1. \A j \in 2..k : j - 1 \in 1..(k - 1) /\ (j - 1) + 1 = j
      BY <1>2
    <3>2. \A j \in 2..k : jobs[j].op # "switch"
      BY <1>1, <2>1, <3>1
    <3>3. CASE jobs[1].op = "switch"
      BY <1>2, <2>1, <3>2, <3>3 DEF RunsIn
    <3>4. CASE jobs[1].op # "switch"
      <4>1. \A j \in 1..k : j = 1 \/ j \in 2..k
        BY <1>2
      <4> QED
        BY <1>2, <2>1, <3>2, <3>4, <4>1 DEF RunsIn
    <3> QED
      BY <3>3, <3>4
  <2>2. CASE \E j \in 1..(k - 1) :
               /\ jobs'[j].op = "switch" /\ jobs'[j].db = u
               /\ \A h \in (j + 1)..(k - 1) : jobs'[h].op # "switch"
    <3>1. PICK j \in 1..(k - 1) : /\ jobs'[j].op = "switch" /\ jobs'[j].db = u
                                  /\ \A h \in (j + 1)..(k - 1) : jobs'[h].op # "switch"
      BY <2>2
    <3>2. \A h \in ((j + 1) + 1)..k : h - 1 \in (j + 1)..(k - 1) /\ h - 1 \in 1..(k - 1)
                                    /\ (h - 1) + 1 = h
      BY <1>2
    <3>3. \A h \in ((j + 1) + 1)..k : jobs[h].op # "switch"
      BY <1>1, <3>1, <3>2
    <3>4. j + 1 \in 1..k /\ jobs[j + 1] = jobs'[j]
      BY <1>1, <1>2
    <3> QED
      BY <1>2, <3>1, <3>3, <3>4 DEF RunsIn
  <2> QED
    BY <1>3, <2>1, <2>2 DEF RunsIn
<1>4. ASSUME RunsIn(k + 1, u) PROVE RunsIn(k, u)'
  <2>1. CASE db = u /\ \A j \in 1..k : jobs[j].op # "switch"
    <3>1. 1 \in 1..k /\ \A j \in 1..(k - 1) : j + 1 \in 1..k
      BY <1>2
    <3> QED
      BY <1>1, <1>2, <2>1, <3>1 DEF RunsIn
  <2>2. CASE \E j \in 1..k : /\ jobs[j].op = "switch" /\ jobs[j].db = u
                             /\ \A h \in (j + 1)..k : jobs[h].op # "switch"
    <3>1. PICK j \in 1..k : /\ jobs[j].op = "switch" /\ jobs[j].db = u
                            /\ \A h \in (j + 1)..k : jobs[h].op # "switch"
      BY <2>2
    <3>2. CASE j = 1
      <4>1. \A h \in 1..(k - 1) : h + 1 \in (j + 1)..k
        BY <1>2, <3>2
      <4> QED
        BY <1>1, <1>2, <3>1, <3>2, <4>1 DEF RunsIn
    <3>3. CASE j # 1
      <4>1. j - 1 \in 1..(k - 1) /\ (j - 1) + 1 = j
        BY <1>2, <3>3
      <4>2. \A h \in ((j - 1) + 1)..(k - 1) : h \in 1..(k - 1) /\ h + 1 \in (j + 1)..k
        BY <1>2, <4>1
      <4>3. jobs'[j - 1] = jobs[j]
        BY <1>1, <4>1
      <4> QED
        BY <1>1, <3>1, <4>1, <4>2, <4>3 DEF RunsIn
    <3> QED
      BY <3>2, <3>3
  <2> QED
    BY <1>2, <1>4, <2>1, <2>2 DEF RunsIn
<1> QED
  BY <1>3, <1>4

-----------------------------------------------------------------------------
(* What the steps of the queue do to the messages that are kept.           *)

(* The database the worker has open once it has caught up.                 *)
EndsIn(u) == RunsIn(Len(jobs) + 1, u)

(* A switch is appended: nothing that is kept moves.                       *)
LEMMA SwitchKeeps ==
  ASSUME jobs \in Seq(Job), NEW v \in User, jobs' = QueueSwitch(v), UNCHANGED <<db, rows>>
  PROVE  /\ \A i, u : KeptIn(i, u)' <=> KeptIn(i, u)
         /\ EndsIn(v)'
<1> DEFINE n == Len(jobs)
<1>1. /\ Len(jobs') = n + 1
      /\ \A h \in 1..n : jobs'[h] = jobs[h]
      /\ jobs'[n + 1] = SwitchJob(v)
      /\ DOMAIN jobs = 1..n /\ n \in Nat
      /\ DOMAIN jobs' = 1..(n + 1)
  BY JobConstructors DEF QueueSwitch
<1>2. ASSUME NEW k \in 1..n, NEW u PROVE RunsIn(k, u)' <=> RunsIn(k, u)
  <2>1. k \in Nat /\ \A h \in 1..(k - 1) : h \in 1..n
    BY <1>1
  <2> QED
    BY <1>1, <2>1, RunsSame
<1>3. ASSUME NEW i, NEW u PROVE KeptIn(i, u)' <=> KeptIn(i, u)
  <2>1. \A k \in DOMAIN jobs' : k \in DOMAIN jobs \/ jobs'[k].items = {}
    BY <1>1 DEF SwitchJob
  <2>2. \A k \in DOMAIN jobs : k \in DOMAIN jobs'
    BY <1>1
  <2> QED
    BY <1>1, <1>2, <2>1, <2>2 DEF KeptIn
<1>4. EndsIn(v)'
  <2>1. n + 1 \in 1..((Len(jobs') + 1) - 1)
    BY <1>1
  <2>2. \A h \in ((n + 1) + 1)..((Len(jobs') + 1) - 1) : FALSE
    BY <1>1
  <2> HIDE DEF n
  <2> QED
    BY <1>1, <2>1, <2>2 DEF EndsIn, RunsIn, SwitchJob
<1> QED
  BY <1>3, <1>4

(* The saves of S are appended: they will run in the session's database.   *)
LEMMA SaveKeeps ==
  ASSUME jobs \in Seq(Job), NEW S \in SUBSET Chat, jobs' = Append(jobs, SaveJob(S)),
         UNCHANGED <<db, rows>>
  PROVE  /\ \A i, u : KeptIn(i, u)' <=> KeptIn(i, u) \/ (i \in S /\ EndsIn(u))
         /\ \A u : EndsIn(u)' <=> EndsIn(u)
<1> SUFFICES ASSUME NEW n, n = Len(jobs)
             PROVE  /\ \A i, u : KeptIn(i, u)' <=> KeptIn(i, u) \/ (i \in S /\ EndsIn(u))
                    /\ \A u : EndsIn(u)' <=> EndsIn(u)
  OBVIOUS
<1>1. /\ Len(jobs') = n + 1
      /\ \A h \in 1..n : jobs'[h] = jobs[h]
      /\ jobs'[n + 1] = SaveJob(S)
      /\ DOMAIN jobs = 1..n /\ n \in Nat
      /\ DOMAIN jobs' = 1..(n + 1)
  BY JobConstructors
<1>2. ASSUME NEW k \in 1..(n + 1), NEW u PROVE RunsIn(k, u)' <=> RunsIn(k, u)
  <2>1. k \in Nat /\ \A h \in 1..(k - 1) : h \in 1..n
    BY <1>1
  <2> QED
    BY <1>1, <2>1, RunsSame
<1>3. ASSUME NEW i, NEW u
      PROVE  KeptIn(i, u)' <=> KeptIn(i, u) \/ (i \in S /\ EndsIn(u))
  <2>1. \A k \in DOMAIN jobs' : k \in 1..n \/ k = n + 1
    BY <1>1
  <2>2. n + 1 \in DOMAIN jobs' /\ \A k \in 1..n : k \in DOMAIN jobs' /\ k \in 1..(n + 1)
    BY <1>1
  <2>3. jobs'[n + 1].items = S
    BY <1>1 DEF SaveJob
  <2>4. n + 1 \in 1..(n + 1)
    BY <1>1
  <2>5. \A k \in 1..n :
          i \in jobs'[k].items /\ RunsIn(k, u)' <=> i \in jobs[k].items /\ RunsIn(k, u)
    BY <1>1, <1>2, <2>2
  <2>6. i \in jobs'[n + 1].items /\ RunsIn(n + 1, u)' <=> i \in S /\ EndsIn(u)
    BY <1>2, <2>3, <2>4 DEF EndsIn
  <2> DEFINE New == \E k \in DOMAIN jobs' : i \in jobs'[k].items /\ RunsIn(k, u)'
             Old == \E k \in 1..n : i \in jobs[k].items /\ RunsIn(k, u)
  <2>7. KeptIn(i, u)' <=> <<i, u>> \in rows \/ New
    BY DEF KeptIn
  <2>8. KeptIn(i, u) <=> <<i, u>> \in rows \/ Old
    BY <1>1 DEF KeptIn
  <2>9. New <=> Old \/ (i \in S /\ EndsIn(u))
    BY <2>1, <2>2, <2>5, <2>6
  <2> HIDE DEF New, Old
  <2> QED
    BY <2>7, <2>8, <2>9
<1>4. ASSUME NEW u PROVE EndsIn(u)' <=> EndsIn(u)
  <2>1. n + 1 \in Nat \ {0} /\ (n + 1) - 1 = n
    BY <1>1
  <2>2. jobs'[n + 1].op # "switch"
    BY <1>1 DEF SaveJob
  <2>3. RunsIn((n + 1) + 1, u)' <=> RunsIn(n + 1, u)
    BY <1>1, <2>1, <2>2, RunsBehindSave
  <2>4. EndsIn(u)' <=> RunsIn((n + 1) + 1, u)'
    BY <1>1 DEF EndsIn
  <2> QED
    BY <2>3, <2>4 DEF EndsIn
<1> QED
  BY <1>3, <1>4

(* A queued save of i that will run in the database of u: any, or one      *)
(* behind the first job.                                                   *)
QueuedIn(i, u) == \E k \in DOMAIN jobs : i \in jobs[k].items /\ RunsIn(k, u)
BehindIn(i, u) == \E k \in 2..Len(jobs) : i \in jobs[k].items /\ RunsIn(k, u)

LEMMA HeadOrBehind ==
  ASSUME jobs \in Seq(Job), jobs # <<>>, NEW i, NEW u
  PROVE  QueuedIn(i, u) <=> (i \in Head(jobs).items /\ db = u) \/ BehindIn(i, u)
<1>1. /\ Head(jobs) = jobs[1] /\ 1 \in DOMAIN jobs
      /\ \A k \in DOMAIN jobs : k = 1 \/ k \in 2..Len(jobs)
      /\ \A k \in 2..Len(jobs) : k \in DOMAIN jobs
  OBVIOUS
<1>2. RunsIn(1, u) <=> db = u
  BY DEF RunsIn
<1> QED
  BY <1>1, <1>2 DEF QueuedIn, BehindIn

(* The first job is done.                                                  *)
LEMMA TailKeeps ==
  ASSUME jobs \in Seq(Job), jobs # <<>>, jobs' = Tail(jobs),
         db' = IF Head(jobs).op = "switch" THEN Head(jobs).db ELSE db
  PROVE  /\ \A i, u : QueuedIn(i, u)' <=> BehindIn(i, u)
         /\ \A u : EndsIn(u)' <=> EndsIn(u)
<1> SUFFICES ASSUME NEW n, n = Len(jobs)
             PROVE  /\ \A i, u : QueuedIn(i, u)' <=> BehindIn(i, u)
                    /\ \A u : EndsIn(u)' <=> EndsIn(u)
  OBVIOUS
<1>1. /\ n \in Nat \ {0} /\ Len(jobs') = n - 1 /\ DOMAIN jobs' = 1..(n - 1)
      /\ \A h \in 1..(n - 1) : jobs'[h] = jobs[h + 1]
  OBVIOUS
<1>2. ASSUME NEW k \in 1..n, NEW u PROVE RunsIn(k, u)' <=> RunsIn(k + 1, u)
  BY RunsShift
<1>3. ASSUME NEW i, NEW u PROVE QueuedIn(i, u)' <=> BehindIn(i, u)
  <2>1. \A k \in 1..(n - 1) : k + 1 \in 2..n /\ k \in 1..n
    BY <1>1
  <2>2. \A k \in 2..n : k - 1 \in 1..(n - 1) /\ (k - 1) + 1 = k
    BY <1>1
  <2>3. \A k \in 1..(n - 1) : i \in jobs'[k].items /\ RunsIn(k, u)'
                            <=> i \in jobs[k + 1].items /\ RunsIn(k + 1, u)
    BY <1>1, <1>2, <2>1
  <2>4. QueuedIn(i, u)' <=> \E k \in 1..(n - 1) : i \in jobs'[k].items /\ RunsIn(k, u)'
    BY <1>1 DEF QueuedIn
  <2>5. BehindIn(i, u) <=> \E k \in 2..n : i \in jobs[k].items /\ RunsIn(k, u)
    BY DEF BehindIn
  <2>6. ASSUME QueuedIn(i, u)' PROVE BehindIn(i, u)
    <3>1. PICK k \in 1..(n - 1) : i \in jobs'[k].items /\ RunsIn(k, u)'
      BY <2>4, <2>6
    <3> QED
      BY <2>1, <2>3, <2>5, <3>1
  <2>7. ASSUME BehindIn(i, u) PROVE QueuedIn(i, u)'
    <3>1. PICK k \in 2..n : i \in jobs[k].items /\ RunsIn(k, u)
      BY <2>5, <2>7
    <3>2. i \in jobs'[k - 1].items /\ RunsIn(k - 1, u)'
      BY <2>2, <2>3, <3>1
    <3> QED
      BY <2>2, <2>4, <3>2
  <2> QED
    BY <2>6, <2>7
<1>4. ASSUME NEW u PROVE EndsIn(u)' <=> EndsIn(u)
  <2>1. n \in 1..n /\ (n - 1) + 1 = n
    BY <1>1
  <2>2. EndsIn(u)' <=> RunsIn(n, u)'
    BY <1>1, <2>1 DEF EndsIn
  <2> QED
    BY <1>2, <2>1, <2>2 DEF EndsIn
<1> QED
  BY <1>3, <1>4

(* One of the saves of the first job is done.                              *)
LEMMA RestKeeps ==
  ASSUME jobs \in Seq(Job), jobs # <<>>, NEW i, i \in Head(jobs).items,
         jobs' = RestOfJob(i), db' = db
  PROVE  /\ \A j, u : QueuedIn(j, u)'
                  <=> (j \in Head(jobs).items \ {i} /\ db = u) \/ BehindIn(j, u)
         /\ \A u : EndsIn(u)' <=> EndsIn(u)
<1> DEFINE left == Head(jobs).items \ {i}
<1>1. Head(jobs) \in Job /\ Head(jobs) = jobs[1]
  OBVIOUS
<1>2. Head(jobs).op = "save" /\ Head(jobs).db = "none" /\ left \in SUBSET Chat
  BY <1>1 DEF Job
<1>3. CASE left = {}
  <2>1. jobs' = Tail(jobs)
    BY <1>3 DEF RestOfJob
  <2>2. db' = IF Head(jobs).op = "switch" THEN Head(jobs).db ELSE db
    BY <1>2
  <2> QED
    BY <1>3, <2>1, <2>2, TailKeeps
<1>4. CASE left # {}
  <2> SUFFICES ASSUME NEW n, n = Len(jobs)
               PROVE  /\ \A j, u : QueuedIn(j, u)'
                              <=> (j \in left /\ db = u) \/ BehindIn(j, u)
                      /\ \A u : EndsIn(u)' <=> EndsIn(u)
    OBVIOUS
  <2>1. jobs' = <<SaveJob(left)>> \o Tail(jobs)
    BY <1>4 DEF RestOfJob
  <2>2. SaveJob(left) \in Job
    BY <1>2, JobConstructors
  <2>3. /\ n \in Nat \ {0} /\ Len(jobs') = n /\ DOMAIN jobs' = 1..n
        /\ jobs'[1] = SaveJob(left)
        /\ \A h \in 2..n : jobs'[h] = jobs[h]
    BY <2>1, <2>2
  <2>4. \A h \in 1..n : jobs'[h].op = jobs[h].op /\ jobs'[h].db = jobs[h].db
    <3>1. jobs'[1].op = jobs[1].op /\ jobs'[1].db = jobs[1].db
      BY <1>1, <1>2, <2>3 DEF SaveJob
    <3>2. \A h \in 1..n : h = 1 \/ h \in 2..n
      BY <2>3
    <3> QED
      BY <2>3, <3>1, <3>2
  <2>5. ASSUME NEW k \in 1..(n + 1), NEW u PROVE RunsIn(k, u)' <=> RunsIn(k, u)
    <3>1. k \in Nat /\ \A h \in 1..(k - 1) : h \in 1..n
      BY <2>3
    <3> QED
      BY <2>4, <3>1, RunsSame
  <2>6. ASSUME NEW j, NEW u
        PROVE  QueuedIn(j, u)' <=> (j \in left /\ db = u) \/ BehindIn(j, u)
    <3> DEFINE New == \E k \in 1..n : j \in jobs'[k].items /\ RunsIn(k, u)'
    <3>1. QueuedIn(j, u)' <=> New
      BY <2>3 DEF QueuedIn
    <3>2. RunsIn(1, u)' <=> db = u
      BY DEF RunsIn
    <3>3. jobs'[1].items = left
      BY <2>3 DEF SaveJob
    <3>4. 1 \in 1..n /\ \A k \in 1..n : k = 1 \/ k \in 2..n
      BY <2>3
    <3>5. \A k \in 2..n : k \in 1..n /\ k \in 1..(n + 1)
      BY <2>3
    <3>6. \A k \in 2..n : j \in jobs'[k].items /\ RunsIn(k, u)'
                         <=> j \in jobs[k].items /\ RunsIn(k, u)
      BY <2>3, <2>5, <3>5
    <3>7. New <=> (j \in left /\ db = u) \/ \E k \in 2..n : j \in jobs[k].items /\ RunsIn(k, u)
      <4> HIDE DEF left
      <4> QED
        BY <3>2, <3>3, <3>4, <3>5, <3>6
    <3> QED
      BY <3>1, <3>7 DEF BehindIn
  <2>7. ASSUME NEW u PROVE EndsIn(u)' <=> EndsIn(u)
    <3>1. n + 1 \in 1..(n + 1)
      BY <2>3
    <3> QED
      BY <2>3, <2>5, <3>1 DEF EndsIn
  <2> QED
    BY <2>6, <2>7
<1> QED
  BY <1>3, <1>4

-----------------------------------------------------------------------------
(* The invariant of saving and pruning.                                    *)

(* Accounted for: in its account's database or on the way there, or lost   *)
(* in one of the ways PrunedIsKept names.                                  *)
Kept(i) == KeptIn(i, Owner[i]) \/ i \in late \cup dropped

(* What lets the relay prune message i, now or later.                      *)
Prunable(i) ==
  i \notin mailbox \/ i \in processed \/ \E by \in Identity : <<i, by>> \in acks

(* An answer holds items of those whose token and device asked.            *)
PollIsOwn == \A i \in poll.items : Owner[i] \in {poll.by.user, poll.by.device}

(* Moreover, what is queued next goes to the database of the present name, *)
(* whoever's session it is; and a message that this process has seen, or   *)
(* whose acknowledgement is under way, is accounted for.                   *)
KeptInv ==
  /\ PollIsOwn
  /\ EndsIn(CurrentUsername)
  /\ SavedInOwnDatabase
  /\ \A i \in Chat : Prunable(i) => Kept(i)

LEMMA KeptInit == Init => KeptInv
<1> SUFFICES ASSUME Init PROVE KeptInv
  OBVIOUS
<1>1. jobs = <<>> /\ DOMAIN jobs = {} /\ Len(jobs) = 0
  BY DEF Init
<1>2. EndsIn(CurrentUsername)
  BY <1>1 DEF Init, EndsIn, RunsIn, CurrentUsername
<1>3. \A i, u : ~KeptIn(i, u)
  BY <1>1 DEF Init, KeptIn
<1>4. \A i \in Chat : ~Prunable(i)
  BY DEF Init, Prunable, Item
<1>5. PollIsOwn
  BY DEF Init, PollIsOwn, NoPoll, PollOf
<1> QED
  BY <1>2, <1>3, <1>4, <1>5 DEF KeptInv, SavedInOwnDatabase

(* A step that processes no item may drop a message, nothing else.         *)
LEMMA KeptFrame ==
  ASSUME KeptInv, PollIsOwn', EndsIn(CurrentUsername)',
         \A i \in Chat, u \in User : KeptIn(i, u)' => KeptIn(i, u),
         \A i \in Chat : KeptIn(i, Owner[i]) => KeptIn(i, Owner[i])' \/ i \in dropped',
         late \subseteq late', dropped \subseteq dropped',
         \A i \in Chat : Prunable(i)' => Prunable(i)
  PROVE  KeptInv'
<1>1. SavedInOwnDatabase'
  BY DEF KeptInv, SavedInOwnDatabase
<1>2. ASSUME NEW i \in Chat, Prunable(i)' PROVE Kept(i)'
  BY <1>2 DEF KeptInv, Kept
<1> QED
  BY <1>1, <1>2 DEF KeptInv

(* processIncomingRelayItem: a new message of the session is queued for    *)
(* the session's database, one of another session or name is noted as late.*)
LEMMA KeptProcess ==
  ASSUME TypeOK, KeptInv, NEW S \in SUBSET Item, NEW asker,
         \A i \in S : Owner[i] \in {asker.user, asker.device},
         Process(S, asker), PollIsOwn',
         UNCHANGED <<mailbox, user, name, db, rows, dropped>>
  PROVE  KeptInv'
<1> DEFINE T == ToSave(Fresh(S))
     InTime == asker = Present /\ name = user
<1>1. T \in SUBSET Chat /\ T = (S \ processed) \cap Chat
  BY DEF ToSave, Fresh
<1>2. /\ \A i, u : KeptIn(i, u)' <=> KeptIn(i, u) \/ (i \in T /\ EndsIn(u))
      /\ \A u : EndsIn(u)' <=> EndsIn(u)
  <2>1. CASE T = {}
    <3>1. UNCHANGED <<jobs, db, rows>>
      BY <2>1 DEF Process
    <3> QED
      BY <2>1, <3>1 DEF KeptIn, EndsIn, RunsIn
  <2>2. CASE T # {}
    <3>1. jobs' = Append(jobs, SaveJob(T))
      BY <2>2 DEF Process
    <3> HIDE DEF T
    <3> QED
      BY <1>1, <3>1, SaveKeeps DEF TypeOK
  <2> QED
    BY <2>1, <2>2
<1>3. late \subseteq late' /\ (~InTime => T \subseteq late')
  BY DEF Process, ToSave
<1>8. InTime => (\A i \in S : Owner[i] = CurrentUsername)
  BY DEF Present, CurrentUsername
<1> HIDE DEF T, InTime
<1>4. \A u : EndsIn(u) => u = CurrentUsername
  <2>1. Len(jobs) + 1 \in Nat
    BY DEF TypeOK
  <2> QED
    BY <2>1, RunsUnique DEF EndsIn, KeptInv
<1>5. EndsIn(CurrentUsername)'
  <2>1. CurrentUsername' = CurrentUsername
    BY DEF CurrentUsername
  <2>2. EndsIn(CurrentUsername)' <=> EndsIn(CurrentUsername)
    BY <1>2, <2>1 DEF EndsIn
  <2> QED
    BY <2>2 DEF KeptInv
<1>6. ASSUME NEW i \in Chat, NEW u \in User \ {Owner[i]}, KeptIn(i, u)'
      PROVE  i \in late'
  <2>1. CASE KeptIn(i, u)
    BY <1>3, <2>1 DEF KeptInv, SavedInOwnDatabase
  <2>2. CASE i \in T /\ EndsIn(u)
    BY <1>1, <1>3, <1>4, <1>8, <2>2
  <2> QED
    BY <1>2, <1>6, <2>1, <2>2
<1>7. ASSUME NEW i \in Chat, Prunable(i)' PROVE Kept(i)'
  <2>1. CASE Prunable(i)
    BY <1>2, <1>3, <2>1 DEF KeptInv, Kept
  <2>2. CASE ~Prunable(i)
    <3>1. i \in S /\ i \notin processed
      BY <1>7, <2>2 DEF Prunable, Process, Acknowledge
    <3>2. i \in T
      BY <1>1, <3>1
    <3>3. CASE InTime
      BY <1>2, <1>8, <3>1, <3>2, <3>3 DEF Kept, KeptInv
    <3>4. CASE ~InTime
      BY <1>3, <3>2, <3>4 DEF Kept
    <3> QED
      BY <3>3, <3>4
  <2> QED
    BY <2>1, <2>2
<1> QED
  BY <1>5, <1>6, <1>7 DEF KeptInv, SavedInOwnDatabase

-----------------------------------------------------------------------------
(* Every step preserves it.                                                *)

LEMMA KeptIsQueued == \A i, u : KeptIn(i, u) <=> <<i, u>> \in rows \/ QueuedIn(i, u)
BY DEF KeptIn, QueuedIn

(* Another name, or the end of a session: the database is switched behind  *)
(* the saves.                                                              *)
LEMMA KeptSwitch ==
  ASSUME TypeOK, KeptInv, NEW v \in User, CurrentUsername' = v, jobs' = QueueSwitch(v),
         PollIsOwn',
         UNCHANGED <<mailbox, acks, processed, late, dropped, db, rows>>
  PROVE  KeptInv'
<1>1. /\ \A i, u : KeptIn(i, u)' <=> KeptIn(i, u)
      /\ EndsIn(v)'
  BY SwitchKeeps DEF TypeOK
<1>2. EndsIn(CurrentUsername)' <=> EndsIn(v)'
  BY DEF EndsIn
<1>3. \A i \in Chat : Prunable(i)' => Prunable(i)
  BY DEF Prunable
<1> QED
  BY <1>1, <1>2, <1>3, KeptFrame

LEMMA KeptHandle ==
  ASSUME TypeOK, KeptInv, Handle401,
         PollIsOwn',
         UNCHANGED <<mailbox, acks, processed, late, dropped, db, rows>>
  PROVE  KeptInv'
<1>1. CASE MayRetry
  <2>1. UNCHANGED <<user, name, jobs>>
    BY <1>1 DEF Handle401, signedIn
  <2>2. /\ \A i, u : KeptIn(i, u)' <=> KeptIn(i, u)
        /\ EndsIn(CurrentUsername)' <=> EndsIn(CurrentUsername)
    BY <2>1 DEF KeptIn, EndsIn, RunsIn, CurrentUsername
  <2>3. \A i \in Chat : Prunable(i)' => Prunable(i)
    BY DEF Prunable
  <2> QED
    BY <2>2, <2>3, KeptFrame DEF KeptInv
<1>2. CASE ~MayRetry
  BY <1>2, KeptSwitch DEF Handle401, ClearSession, CurrentUsername, User
<1> QED
  BY <1>1, <1>2

(* Steps that leave items, queue and database alone, or lose an            *)
(* acknowledgement.                                                        *)
LEMMA KeptIdle ==
  ASSUME KeptInv, UNCHANGED <<user, name, jobs, db, rows, processed, late, dropped>>,
         PollIsOwn',
         \A i \in Chat : Prunable(i)' => Prunable(i)
  PROVE  KeptInv'
<1>1. /\ \A i, u : KeptIn(i, u)' <=> KeptIn(i, u)
      /\ EndsIn(CurrentUsername)' <=> EndsIn(CurrentUsername)
  BY DEF KeptIn, EndsIn, RunsIn, CurrentUsername
<1> QED
  BY <1>1, KeptFrame DEF KeptInv

LEMMA KeptWorkerSave ==
  ASSUME TypeOK, KeptInv, NEW i \in Chat, WorkerSave(i)
  PROVE  KeptInv'
<1> USE DEF WorkerSave
<1>1. jobs \in Seq(Job)
  BY DEF TypeOK
<1>2. /\ \A j, u : QueuedIn(j, u)'
               <=> (j \in Head(jobs).items \ {i} /\ db = u) \/ BehindIn(j, u)
      /\ \A u : EndsIn(u)' <=> EndsIn(u)
  BY <1>1, RestKeeps
<1>3. \A j, u : KeptIn(j, u)' <=> <<j, u>> \in rows' \/ QueuedIn(j, u)'
  BY DEF KeptIn, QueuedIn
<1>4. \A j, u : <<j, u>> \in rows' <=> <<j, u>> \in rows \/ (j = i /\ u = db)
  OBVIOUS
<1>5. \A j, u : QueuedIn(j, u) <=> (j \in Head(jobs).items /\ db = u) \/ BehindIn(j, u)
  BY <1>1, HeadOrBehind
<1>6. \A j, u : KeptIn(j, u)' <=> KeptIn(j, u)
  <2>1. \A j, u : KeptIn(j, u)' <=> <<j, u>> \in rows \/ (j = i /\ u = db) \/ QueuedIn(j, u)'
    BY <1>3, <1>4
  <2>2. \A j, u : QueuedIn(j, u)' \/ (j = i /\ u = db) <=> QueuedIn(j, u) \/ (j = i /\ u = db)
    BY <1>2, <1>5
  <2>3. QueuedIn(i, db)
    BY <1>5
  <2> QED
    BY <2>1, <2>2, <2>3, KeptIsQueued
<1>7. \A j \in Chat : Prunable(j)' => Prunable(j)
  BY DEF Prunable, inbox
<1>8. EndsIn(CurrentUsername)' /\ PollIsOwn'
  <2>1. UNCHANGED <<user, name, poll>>
    BY DEF session, signedIn
  <2>2. CurrentUsername' = CurrentUsername /\ (PollIsOwn' <=> PollIsOwn)
    BY <2>1 DEF CurrentUsername, PollIsOwn
  <2>3. EndsIn(CurrentUsername)' <=> EndsIn(CurrentUsername)
    BY <1>2, <2>2 DEF EndsIn
  <2> QED
    BY <2>2, <2>3 DEF KeptInv
<1> QED
  BY <1>6, <1>7, <1>8, KeptFrame DEF inbox

LEMMA KeptWorkerFault ==
  ASSUME TypeOK, KeptInv, NEW i \in Chat, WorkerFault(i)
  PROVE  KeptInv'
<1> USE DEF WorkerFault
<1>1. jobs \in Seq(Job)
  BY DEF TypeOK
<1>2. /\ \A j, u : QueuedIn(j, u)'
               <=> (j \in Head(jobs).items \ {i} /\ db = u) \/ BehindIn(j, u)
      /\ \A u : EndsIn(u)' <=> EndsIn(u)
  BY <1>1, RestKeeps
<1>3. \A j, u : KeptIn(j, u)' <=> <<j, u>> \in rows \/ QueuedIn(j, u)'
  BY DEF KeptIn, QueuedIn
<1>5. \A j, u : QueuedIn(j, u) <=> (j \in Head(jobs).items /\ db = u) \/ BehindIn(j, u)
  BY <1>1, HeadOrBehind
<1>6. \A j, u : /\ KeptIn(j, u)' => KeptIn(j, u)
                /\ KeptIn(j, u) => KeptIn(j, u)' \/ j = i
  BY <1>2, <1>3, <1>5, KeptIsQueued
<1>7. \A j \in Chat : Prunable(j)' => Prunable(j)
  BY DEF Prunable, inbox
<1>8. EndsIn(CurrentUsername)' /\ PollIsOwn'
  <2>1. UNCHANGED <<user, name, poll>>
    BY DEF session, signedIn
  <2>2. CurrentUsername' = CurrentUsername /\ (PollIsOwn' <=> PollIsOwn)
    BY <2>1 DEF CurrentUsername, PollIsOwn
  <2>3. EndsIn(CurrentUsername)' <=> EndsIn(CurrentUsername)
    BY <1>2, <2>2 DEF EndsIn
  <2> QED
    BY <2>2, <2>3 DEF KeptInv
<1>9. dropped' = dropped \cup {i} /\ late' = late
  BY DEF inbox
<1> QED
  BY <1>6, <1>7, <1>8, <1>9, KeptFrame

LEMMA KeptWorkerSwitch ==
  ASSUME TypeOK, KeptInv, WorkerSwitch
  PROVE  KeptInv'
<1> USE DEF WorkerSwitch
<1>1. jobs \in Seq(Job) /\ Head(jobs).items = {}
  <2>1. jobs \in Seq(Job)
    BY DEF TypeOK
  <2>2. Head(jobs) \in Job
    BY <2>1
  <2> QED
    BY <2>1, <2>2, JobFields
<1>2. /\ \A j, u : QueuedIn(j, u)' <=> BehindIn(j, u)
      /\ \A u : EndsIn(u)' <=> EndsIn(u)
  BY <1>1, TailKeeps
<1>3. \A j, u : KeptIn(j, u)' <=> <<j, u>> \in rows \/ QueuedIn(j, u)'
  BY DEF KeptIn, QueuedIn
<1>5. \A j, u : QueuedIn(j, u) <=> BehindIn(j, u)
  BY <1>1, HeadOrBehind
<1>6. \A j, u : KeptIn(j, u)' <=> KeptIn(j, u)
  BY <1>2, <1>3, <1>5, KeptIsQueued
<1>7. \A j \in Chat : Prunable(j)' => Prunable(j)
  BY DEF Prunable, inbox
<1>8. EndsIn(CurrentUsername)' /\ PollIsOwn'
  <2>1. UNCHANGED <<user, name, poll>>
    BY DEF session, signedIn
  <2>2. CurrentUsername' = CurrentUsername /\ (PollIsOwn' <=> PollIsOwn)
    BY <2>1 DEF CurrentUsername, PollIsOwn
  <2>3. EndsIn(CurrentUsername)' <=> EndsIn(CurrentUsername)
    BY <1>2, <2>2 DEF EndsIn
  <2> QED
    BY <2>2, <2>3 DEF KeptInv
<1> QED
  BY <1>6, <1>7, <1>8, KeptFrame DEF inbox

LEMMA KeptRestart ==
  ASSUME TypeOK, KeptInv, Restart
  PROVE  KeptInv'
<1> USE DEF Restart
<1>1. jobs' = <<>> /\ DOMAIN jobs' = {} /\ Len(jobs') = 0
  OBVIOUS
<1>2. EndsIn(CurrentUsername)'
  BY <1>1 DEF EndsIn, RunsIn, CurrentUsername
<1>3. \A i, u : KeptIn(i, u)' <=> <<i, u>> \in rows
  BY <1>1 DEF KeptIn
<1>4. \A i, u : KeptIn(i, u) => <<i, u>> \in rows \/ i \in Queued
  BY DEF KeptIn, Queued
<1>5. \A i, u : KeptIn(i, u)' => KeptIn(i, u)
  BY <1>3 DEF KeptIn
<1>6. PollIsOwn'
  BY DEF PollIsOwn, NoPoll, PollOf
<1>7. \A i \in Chat : Prunable(i)' => Prunable(i)
  BY DEF Prunable
<1>8. dropped' = dropped \cup Queued /\ late' = late
  OBVIOUS
<1> QED
  BY <1>2, <1>3, <1>4, <1>5, <1>6, <1>7, <1>8, KeptFrame

LEMMA KeptStep == TypeOK /\ KeptInv /\ [Next]_vars => KeptInv'
<1> SUFFICES ASSUME TypeOK, KeptInv, [Next]_vars PROVE KeptInv'
  OBVIOUS
<1>1. PollIsOwn
  BY DEF KeptInv
<1>2. poll' = poll \/ poll' = NoPoll => PollIsOwn'
  BY <1>1 DEF PollIsOwn, NoPoll, PollOf
<1>3. Ask => PollIsOwn'
  BY <1>1 DEF Ask, PollIsOwn, PollOf
<1>4. UNCHANGED <<mailbox, acks, processed>> => \A i \in Chat : Prunable(i)' => Prunable(i)
  BY DEF Prunable
<1> USE DEF signedIn, session, links, inbox, store
<1>5. ASSUME NEW a \in Account, Login(a) PROVE KeptInv'
  <2>1. CurrentUsername' = a /\ a \in User
    BY <1>5 DEF Login, CurrentUsername, User
  <2> QED
    BY <1>2, <1>5, <2>1, KeptSwitch DEF Login
<1>6. CASE Logout
  BY <1>2, <1>6, KeptSwitch DEF Logout, ClearSession, CurrentUsername, User
<1>22. ASSUME NEW a \in Account, ProfileAnswered(a) PROVE KeptInv'
  <2>1. CurrentUsername' \in User
    BY <1>22 DEF ProfileAnswered, CurrentUsername, User
  <2> QED
    BY <1>2, <1>22, <2>1, KeptSwitch DEF ProfileAnswered
<1>23. ASSUME NEW a \in Account, ProfileFailed(a) PROVE KeptInv'
  BY <1>2, <1>4, <1>23, KeptIdle DEF ProfileFailed
<1>7. CASE Registered
  BY <1>3, <1>4, <1>7, KeptIdle DEF Registered, StartPolling
<1>8. CASE RegistrationFailed
  BY <1>2, <1>4, <1>8, KeptIdle DEF RegistrationFailed
<1>9. CASE PollTick
  BY <1>3, <1>4, <1>9, KeptIdle DEF PollTick
<1>10. CASE PollServed
  <2>1. \A S \in Replies(poll.by) : \A i \in S : Owner[i] \in {poll.by.user, poll.by.device}
    BY DEF Replies, HeldFor
  <2>2. PollIsOwn'
    BY <1>10, <2>1 DEF PollServed, PollIsOwn
  <2> QED
    BY <1>4, <1>10, <2>2, KeptIdle DEF PollServed
<1>11. CASE PollAnswered
  <2>1. poll.items \in SUBSET Item
    BY DEF TypeOK, Poll
  <2> QED
    BY <1>1, <1>2, <1>11, <2>1, KeptProcess DEF PollAnswered, PollIsOwn
<1>12. CASE PollRejected
  BY <1>2, <1>12, KeptHandle DEF PollRejected
<1>13. CASE PollFailed
  BY <1>2, <1>4, <1>13, KeptIdle DEF PollFailed
<1>14. CASE LinkUp \/ LinkLost
  BY <1>2, <1>4, <1>14, KeptIdle DEF LinkUp, LinkLost
<1>15. CASE LinkRejected
  BY <1>2, <1>15, KeptHandle DEF LinkRejected
<1>16. ASSUME NEW i \in Item, Push(i) PROVE KeptInv'
  BY <1>2, <1>16, KeptProcess DEF Push
<1>17. CASE Send \/ SendAnswered
  BY <1>2, <1>4, <1>17, KeptIdle DEF Send, SendAnswered
<1>18. CASE SendRejected
  BY <1>2, <1>18, KeptHandle DEF SendRejected
<1>19. ASSUME NEW i \in Item, AckArrives(i) PROVE KeptInv'
  <2>1. \A j \in Chat : Prunable(j)' => Prunable(j)
    BY <1>19 DEF AckArrives, Prunable
  <2> QED
    BY <1>2, <1>19, <2>1, KeptIdle DEF AckArrives
<1>20. ASSUME NEW i \in Item, AckLost(i) PROVE KeptInv'
  <2>1. \A j \in Chat : Prunable(j)' => Prunable(j)
    BY <1>20 DEF AckLost, Prunable
  <2> QED
    BY <1>2, <1>20, <2>1, KeptIdle DEF AckLost
<1>21. CASE UNCHANGED vars
  BY <1>2, <1>4, <1>21, KeptIdle DEF vars
<1> QED
  BY NextCases, KeptWorkerSave, KeptWorkerFault, KeptWorkerSwitch, KeptRestart,
     <1>5, <1>6, <1>7, <1>8, <1>9, <1>10, <1>11, <1>12, <1>13, <1>14, <1>15, <1>16,
     <1>17, <1>18, <1>19, <1>20, <1>21, <1>22, <1>23

LEMMA KeptInvariant == Spec => []KeptInv
<1> QED
  BY TypeCorrect, KeptInit, KeptStep, PTL DEF Spec

(* A message received in its account's session and under its name ends up  *)
(* in that account's database, however logins, logouts, profiles and saves *)
(* are interleaved; and every other one that is in another's database was  *)
(* received in another session, or while a late profile had put another's  *)
(* name in the settings.                                                   *)
THEOREM SavedCorrect == Spec => []SavedInOwnDatabase
<1>1. KeptInv => SavedInOwnDatabase
  BY DEF KeptInv
<1> QED
  BY KeptInvariant, <1>1, PTL

(* The relay prunes no message that is neither saved, nor queued to be     *)
(* saved, nor lost in one of the named ways.                               *)
THEOREM PrunedCorrect == Spec => []PrunedIsKept
<1>1. KeptInv => PrunedIsKept
  BY DEF KeptInv, PrunedIsKept, Prunable, Kept
<1> QED
  BY KeptInvariant, <1>1, PTL

-----------------------------------------------------------------------------
(* The refinement of Mailbox.                                              *)

(* What waits to be saved has been processed, and waits once.              *)
QueueInv ==
  /\ \A k \in DOMAIN jobs : jobs[k].items \subseteq processed
  /\ \A j, k \in DOMAIN jobs : j # k => jobs[j].items \cap jobs[k].items = {}

(* A job that is queued adds its items to what waits.                      *)
LEMMA AppendQueued ==
  ASSUME jobs \in Seq(Job), NEW job \in Job, jobs' = Append(jobs, job)
  PROVE  /\ DOMAIN jobs' = DOMAIN jobs \cup {Len(jobs) + 1}
         /\ \A k \in DOMAIN jobs : jobs'[k] = jobs[k]
         /\ jobs'[Len(jobs) + 1] = job
         /\ Len(jobs) + 1 \notin DOMAIN jobs
         /\ Queued' = Queued \cup job.items
<1>1. /\ DOMAIN jobs' = DOMAIN jobs \cup {Len(jobs) + 1}
      /\ \A k \in DOMAIN jobs : jobs'[k] = jobs[k]
      /\ jobs'[Len(jobs) + 1] = job
      /\ Len(jobs) + 1 \notin DOMAIN jobs
  OBVIOUS
<1> DEFINE last == Len(jobs) + 1
<1> HIDE DEF last
<1>2. /\ DOMAIN jobs' = DOMAIN jobs \cup {last}
      /\ jobs'[last] = job
  BY <1>1 DEF last
<1>3. \A x : x \in Queued' <=> x \in Queued \/ x \in job.items
  BY <1>1, <1>2 DEF Queued
<1> QED
  BY <1>1, <1>3

LEMMA SwitchWaits ==
  ASSUME jobs \in Seq(Job), NEW u \in User, jobs' = QueueSwitch(u)
  PROVE  /\ Queued' = Queued
         /\ QueueInv /\ UNCHANGED processed => QueueInv'
<1>1. SwitchJob(u) \in Job /\ SwitchJob(u).items = {}
  BY JobConstructors DEF SwitchJob
<1>2. /\ DOMAIN jobs' = DOMAIN jobs \cup {Len(jobs) + 1}
      /\ \A k \in DOMAIN jobs : jobs'[k] = jobs[k]
      /\ jobs'[Len(jobs) + 1] = SwitchJob(u)
      /\ Queued' = Queued \cup SwitchJob(u).items
  BY <1>1, AppendQueued DEF QueueSwitch
<1> DEFINE last == Len(jobs) + 1
<1> HIDE DEF last
<1>3. jobs'[last].items = {} /\ DOMAIN jobs' = DOMAIN jobs \cup {last}
  BY <1>1, <1>2 DEF last
<1>4. QueueInv /\ UNCHANGED processed => QueueInv'
  BY <1>2, <1>3 DEF QueueInv
<1> QED
  BY <1>1, <1>2, <1>4

(* What a step at the head of the queue leaves: the other jobs, and of the *)
(* first one its items but i.                                              *)
LEMMA RestWaits ==
  ASSUME jobs \in Seq(Job), jobs # <<>>, NEW i, i \in Head(jobs).items,
         jobs' = RestOfJob(i), QueueInv
  PROVE  /\ Queued' = Queued \ {i}
         /\ UNCHANGED processed => QueueInv'
<1> DEFINE left == Head(jobs).items \ {i}
<1>1. /\ Len(jobs) \in Nat \ {0} /\ DOMAIN jobs = 1..Len(jobs)
      /\ 1 \in DOMAIN jobs /\ Head(jobs) = jobs[1]
  OBVIOUS
<1>2. \A k \in DOMAIN jobs \ {1} : i \notin jobs[k].items
  BY <1>1 DEF QueueInv
<1>3. CASE left = {}
  <2>1. jobs' = Tail(jobs)
    BY <1>3 DEF RestOfJob
  <2>2. /\ DOMAIN jobs' = 1..(Len(jobs) - 1)
        /\ \A k \in 1..(Len(jobs) - 1) : jobs'[k] = jobs[k + 1]
    BY <1>1, <2>1
  <2>3. \A x : (\E k \in DOMAIN jobs' : x \in jobs'[k].items)
               <=> \E k \in DOMAIN jobs \ {1} : x \in jobs[k].items
    <3>1. ASSUME NEW x, NEW k \in DOMAIN jobs', x \in jobs'[k].items
          PROVE  \E h \in DOMAIN jobs \ {1} : x \in jobs[h].items
      <4>1. k + 1 \in DOMAIN jobs \ {1}
        BY <1>1, <2>2
      <4> QED
        BY <2>2, <3>1, <4>1
    <3>2. ASSUME NEW x, NEW k \in DOMAIN jobs \ {1}, x \in jobs[k].items
          PROVE  \E h \in DOMAIN jobs' : x \in jobs'[h].items
      <4>1. k - 1 \in DOMAIN jobs' /\ jobs'[k - 1] = jobs[k]
        BY <1>1, <2>2
      <4> QED
        BY <3>2, <4>1
    <3> QED
      BY <3>1, <3>2
  <2>4. \A x : x \in Queued' <=> x \in Queued /\ x # i
    <3>1. \A x : x \in jobs[1].items <=> x = i
      BY <1>1, <1>3
    <3>2. \A x : x \in Queued' <=> \E k \in DOMAIN jobs \ {1} : x \in jobs[k].items
      BY <2>3 DEF Queued
    <3>3. \A x : x \in Queued <=> \/ x \in jobs[1].items
                                  \/ \E k \in DOMAIN jobs \ {1} : x \in jobs[k].items
      BY <1>1 DEF Queued
    <3>4. \A x : (\E k \in DOMAIN jobs \ {1} : x \in jobs[k].items) => x # i
      BY <1>2
    <3> QED
      BY <3>1, <3>2, <3>3, <3>4
  <2>5. UNCHANGED processed => QueueInv'
    <3>1. \A k \in DOMAIN jobs' : k + 1 \in DOMAIN jobs /\ jobs'[k] = jobs[k + 1]
      BY <1>1, <2>2
    <3>2. \A j, k \in DOMAIN jobs' : j # k => j + 1 # k + 1
      BY <2>2
    <3> QED
      BY <3>1, <3>2 DEF QueueInv
  <2> QED
    BY <2>4, <2>5
<1>4. CASE left # {}
  <2>1. jobs' = <<SaveJob(left)>> \o Tail(jobs)
    BY <1>4 DEF RestOfJob
  <2> HIDE DEF left
  <2>2. /\ DOMAIN jobs' = DOMAIN jobs
        /\ jobs'[1] = SaveJob(left)
        /\ \A k \in DOMAIN jobs \ {1} : jobs'[k] = jobs[k]
    BY <1>1, <2>1
  <2>3. jobs'[1].items = left
    BY <2>2 DEF SaveJob
  <2>4. \A x : x \in left <=> x \in jobs[1].items /\ x # i
    BY <1>1 DEF left
  <2>5. \A x : x \in Queued' <=> x \in Queued /\ x # i
    BY <1>1, <1>2, <2>2, <2>3, <2>4 DEF Queued
  <2>6. UNCHANGED processed => QueueInv'
    BY <1>1, <2>2, <2>3, <2>4 DEF QueueInv
  <2> QED
    BY <2>5, <2>6
<1> QED
  BY <1>3, <1>4

(* A job without items leaves the queue.                                   *)
LEMMA TailWaits ==
  ASSUME jobs \in Seq(Job), jobs # <<>>, Head(jobs).items = {}, jobs' = Tail(jobs)
  PROVE  /\ Queued' = Queued
         /\ QueueInv /\ UNCHANGED processed => QueueInv'
<1>1. /\ Len(jobs) \in Nat \ {0} /\ DOMAIN jobs = 1..Len(jobs)
      /\ 1 \in DOMAIN jobs /\ jobs[1].items = {}
      /\ DOMAIN jobs' = 1..(Len(jobs) - 1)
      /\ \A k \in 1..(Len(jobs) - 1) : jobs'[k] = jobs[k + 1]
  OBVIOUS
<1>2. ASSUME NEW x, NEW k \in DOMAIN jobs', x \in jobs'[k].items
      PROVE  \E h \in DOMAIN jobs : x \in jobs[h].items
  <2>1. k + 1 \in DOMAIN jobs
    BY <1>1
  <2> QED
    BY <1>1, <1>2, <2>1
<1>3. ASSUME NEW x, NEW k \in DOMAIN jobs, x \in jobs[k].items
      PROVE  \E h \in DOMAIN jobs' : x \in jobs'[h].items
  <2>1. k # 1
    BY <1>1, <1>3
  <2>2. k - 1 \in DOMAIN jobs' /\ jobs'[k - 1] = jobs[k]
    BY <1>1, <2>1
  <2> QED
    BY <1>3, <2>2
<1>4. \A x : x \in Queued' <=> x \in Queued
  BY <1>2, <1>3 DEF Queued
<1>5. QueueInv /\ UNCHANGED processed => QueueInv'
  <2>1. \A k \in DOMAIN jobs' : k + 1 \in DOMAIN jobs /\ jobs'[k] = jobs[k + 1]
    BY <1>1
  <2>2. \A j, k \in DOMAIN jobs' : j # k => j + 1 # k + 1
    BY <1>1
  <2> QED
    BY <2>1, <2>2 DEF QueueInv
<1> QED
  BY <1>4, <1>5

(* What is processed waits, unless it has been seen, and so for once only. *)
LEMMA ProcessWaits ==
  ASSUME TypeOK, QueueInv, NEW S \in SUBSET Item, NEW asker, Process(S, asker)
  PROVE  /\ Queued' = Queued \cup ToSave(Fresh(S))
         /\ ToSave(Fresh(S)) \cap Queued = {}
         /\ QueueInv'
<1> DEFINE T == ToSave(Fresh(S))
<1>1. /\ T \in SUBSET Chat /\ T \cap processed = {}
      /\ T \subseteq processed' /\ processed \subseteq processed'
      /\ IF T = {} THEN jobs' = jobs ELSE jobs' = Append(jobs, SaveJob(T))
  BY DEF ToSave, Fresh, Process
<1> HIDE DEF T
<1>2. T \cap Queued = {}
  BY <1>1 DEF QueueInv, Queued
<1>3. CASE T = {}
  <2>1. jobs' = jobs
    BY <1>1, <1>3
  <2>2. Queued' = Queued
    BY <2>1 DEF Queued
  <2>3. QueueInv'
    BY <1>1, <2>1 DEF QueueInv
  <2> QED
    BY <1>2, <1>3, <2>2, <2>3 DEF T
<1>4. CASE T # {}
  <2>1. SaveJob(T) \in Job /\ SaveJob(T).items = T
    BY <1>1, JobConstructors DEF SaveJob
  <2>2. /\ DOMAIN jobs' = DOMAIN jobs \cup {Len(jobs) + 1}
        /\ \A k \in DOMAIN jobs : jobs'[k] = jobs[k]
        /\ jobs'[Len(jobs) + 1] = SaveJob(T)
        /\ Queued' = Queued \cup T
    BY <1>1, <1>4, <2>1, AppendQueued DEF TypeOK
  <2> DEFINE last == Len(jobs) + 1
  <2> HIDE DEF last
  <2>3. jobs'[last].items = T /\ DOMAIN jobs' = DOMAIN jobs \cup {last}
    BY <2>1, <2>2 DEF last
  <2>4. \A k \in DOMAIN jobs : jobs'[k].items \cap T = {}
    BY <1>1, <2>2 DEF QueueInv
  <2>5. QueueInv'
    BY <1>1, <2>2, <2>3, <2>4 DEF QueueInv
  <2> QED
    BY <1>2, <2>2, <2>5 DEF T
<1> QED
  BY <1>3, <1>4

(* The queue under the third 401, and under the first two.                 *)
LEMMA HandleWaits ==
  ASSUME TypeOK, Handle401, UNCHANGED processed
  PROVE  Queued' = Queued /\ (QueueInv => QueueInv')
<1>1. CASE jobs' = jobs
  BY <1>1 DEF Queued, QueueInv
<1>2. CASE jobs' = QueueSwitch("none")
  BY <1>2, SwitchWaits DEF TypeOK, User
<1> QED
  BY <1>1, <1>2 DEF Handle401, ClearSession

-----------------------------------------------------------------------------
(* Steps of the client as steps of the promise.                            *)

MailStep == [Mail!Next]_(Mail!mailboxVars)

LEMMA Stutters ==
  ASSUME UNCHANGED <<mailbox, rows, late, dropped>>, Queued' = Queued
  PROVE  MailStep
BY DEF MailStep, Mail!mailboxVars

LEMMA Receives ==
  ASSUME TypeOK, QueueInv, NEW S \in SUBSET Item, NEW asker, Process(S, asker),
         UNCHANGED <<mailbox, rows, dropped>>
  PROVE  MailStep /\ QueueInv'
<1> DEFINE T == ToSave(Fresh(S))
<1>1. Queued' = Queued \cup T /\ T \cap Queued = {} /\ QueueInv'
  BY ProcessWaits
<1>2. T \in SUBSET Chat /\ T = Fresh(S) \cap Chat
  BY DEF ToSave
<1>3. late' = late \/ late' = late \cup Fresh(S)
  BY DEF Process
<1> HIDE DEF T
<1>4. Mail!Receive(T)
  BY <1>1, <1>2, <1>3 DEF Mail!Receive
<1> QED
  BY <1>1, <1>2, <1>4 DEF MailStep, Mail!Next

LEMMA Saves ==
  ASSUME TypeOK, KeptInv, KeptInv', QueueInv, NEW i \in Chat, WorkerSave(i)
  PROVE  MailStep /\ QueueInv'
<1>1. Queued' = Queued \ {i} /\ QueueInv'
  BY RestWaits DEF TypeOK, WorkerSave, inbox
<1>2. i \in Queued
  <2>1. 1 \in DOMAIN jobs /\ i \in jobs[1].items
    BY DEF TypeOK, WorkerSave
  <2> QED
    BY <2>1 DEF Queued
<1>3. db \in User
  BY DEF TypeOK
<1>4. db = Owner[i] \/ i \in late
  BY <1>3 DEF WorkerSave, KeptInv, SavedInOwnDatabase, KeptIn, inbox
<1>5. Mail!Save(i, db)
  BY <1>1, <1>2, <1>4 DEF Mail!Save, WorkerSave, inbox
<1> QED
  BY <1>1, <1>3, <1>5 DEF MailStep, Mail!Next

LEMMA Faults ==
  ASSUME TypeOK, QueueInv, NEW i \in Chat, WorkerFault(i)
  PROVE  MailStep /\ QueueInv'
<1>1. Queued' = Queued \ {i} /\ QueueInv'
  BY RestWaits DEF TypeOK, WorkerFault, inbox
<1>2. i \in Queued
  <2>1. 1 \in DOMAIN jobs /\ i \in jobs[1].items
    BY DEF TypeOK, WorkerFault
  <2> QED
    BY <2>1 DEF Queued
<1>3. Mail!Lose({i})
  BY <1>1 DEF Mail!Lose, WorkerFault, inbox
<1> QED
  BY <1>1, <1>2, <1>3 DEF MailStep, Mail!Next

LEMMA Crashes ==
  ASSUME TypeOK, Restart
  PROVE  MailStep /\ QueueInv'
<1>1. DOMAIN jobs' = {} /\ Queued' = {} /\ QueueInv'
  <2>1. jobs' = <<>>
    BY DEF Restart
  <2> QED
    BY <2>1 DEF Queued, QueueInv
<1>2. Queued \subseteq Chat
  BY JobFields DEF TypeOK, Queued
<1>3. Mail!Lose(Queued)
  BY <1>1, <1>2 DEF Mail!Lose, Restart
<1> QED
  BY <1>1, <1>3 DEF MailStep, Mail!Next

LEMMA Forgets ==
  ASSUME KeptInv, NEW i \in Item, AckArrives(i)
  PROVE  MailStep
<1>1. Queued' = Queued /\ UNCHANGED <<rows, late, dropped>>
  BY DEF AckArrives, inbox, store, Queued
<1>2. CASE mailbox' \cap Chat = mailbox \cap Chat
  BY <1>1, <1>2 DEF MailStep, Mail!mailboxVars
<1>3. CASE mailbox' \cap Chat # mailbox \cap Chat
  <2>1. i \in Chat /\ mailbox' = mailbox \ {i} /\ \E by \in Identity : <<i, by>> \in acks
    BY <1>3 DEF AckArrives
  <2>2. Kept(i)
    BY <2>1 DEF KeptInv, Prunable
  <2>3. Mail!Safe(i)
    BY <2>1, <2>2 DEF Mail!Safe, Kept, KeptIn, Queued
  <2>4. Mail!Forget(i)
    BY <1>1, <2>1, <2>3 DEF Mail!Forget
  <2> QED
    BY <2>1, <2>4 DEF MailStep, Mail!Next
<1> QED
  BY <1>2, <1>3

LEMMA MailSteps ==
  TypeOK /\ KeptInv /\ KeptInv' /\ QueueInv /\ [Next]_vars => MailStep /\ QueueInv'
<1> SUFFICES ASSUME TypeOK, KeptInv, KeptInv', QueueInv, [Next]_vars
             PROVE  MailStep /\ QueueInv'
  OBVIOUS
<1> USE DEF signedIn, session, links, inbox, store
<1>1. ASSUME UNCHANGED <<mailbox, jobs, rows, processed, late, dropped>>
      PROVE  MailStep /\ QueueInv'
  <2>1. Queued' = Queued
    BY <1>1 DEF Queued
  <2>2. QueueInv'
    BY <1>1 DEF QueueInv
  <2> QED
    BY <1>1, <2>1, <2>2, Stutters
<1>2. ASSUME NEW a \in Account, Login(a) PROVE MailStep /\ QueueInv'
  BY <1>2, SwitchWaits, Stutters DEF Login, User, TypeOK
<1>3. CASE Logout
  BY <1>3, SwitchWaits, Stutters DEF Logout, ClearSession, User, TypeOK
<1>16. ASSUME NEW a \in Account, ProfileAnswered(a) PROVE MailStep /\ QueueInv'
  <2>1. CurrentUsername' \in User
    BY <1>16 DEF ProfileAnswered, CurrentUsername, User
  <2> QED
    BY <1>16, <2>1, SwitchWaits, Stutters DEF ProfileAnswered, TypeOK
<1>17. ASSUME NEW a \in Account, ProfileFailed(a) PROVE MailStep /\ QueueInv'
  BY <1>1, <1>17 DEF ProfileFailed
<1>4. CASE Registered \/ RegistrationFailed \/ PollTick \/ PollServed \/ PollFailed
  BY <1>1, <1>4 DEF Registered, RegistrationFailed, PollTick, PollServed, PollFailed
<1>5. CASE PollAnswered
  <2>1. poll.items \in SUBSET Item
    BY DEF TypeOK, Poll
  <2> QED
    BY <1>5, <2>1, Receives DEF PollAnswered
<1>6. CASE PollRejected
  BY <1>6, HandleWaits, Stutters DEF PollRejected
<1>7. CASE LinkUp \/ LinkLost
  BY <1>1, <1>7 DEF LinkUp, LinkLost
<1>8. CASE LinkRejected
  BY <1>8, HandleWaits, Stutters DEF LinkRejected
<1>9. ASSUME NEW i \in Item, Push(i) PROVE MailStep /\ QueueInv'
  BY <1>9, Receives DEF Push
<1>10. CASE Send \/ SendAnswered
  BY <1>1, <1>10 DEF Send, SendAnswered
<1>11. CASE SendRejected
  BY <1>11, HandleWaits, Stutters DEF SendRejected
<1>12. ASSUME NEW i \in Item, AckArrives(i) PROVE MailStep /\ QueueInv'
  <2>1. QueueInv'
    BY <1>12 DEF AckArrives, QueueInv
  <2> QED
    BY <1>12, <2>1, Forgets
<1>13. ASSUME NEW i \in Item, AckLost(i) PROVE MailStep /\ QueueInv'
  BY <1>1, <1>13 DEF AckLost
<1>14. CASE WorkerSwitch
  <2>1. Head(jobs).items = {}
    BY <1>14, JobFields DEF WorkerSwitch, TypeOK
  <2> QED
    BY <1>14, <2>1, TailWaits, Stutters DEF WorkerSwitch, TypeOK
<1>15. CASE UNCHANGED vars
  BY <1>1, <1>15 DEF vars
<1> QED
  BY NextCases, Saves, Faults, Crashes, <1>2, <1>3, <1>4, <1>5, <1>6, <1>7, <1>8,
     <1>9, <1>10, <1>11, <1>12, <1>13, <1>14, <1>15, <1>16, <1>17

(* The client keeps the promise of Mailbox, for any accounts, messages and *)
(* bounds: every step of polls, pushes, the SQL worker, sessions and       *)
(* crashes, and every late profile, is a step of the promise or leaves it  *)
(* alone.                                                                  *)
THEOREM PromiseKept == Spec => DeliversAsPromised
<1>1. Init => Mail!Init /\ QueueInv
  <2> SUFFICES ASSUME Init PROVE Mail!Init /\ QueueInv
    OBVIOUS
  <2>1. jobs = <<>> /\ DOMAIN jobs = {}
    BY DEF Init
  <2>2. Queued = {} /\ QueueInv
    BY <2>1 DEF Queued, QueueInv
  <2> QED
    BY <2>2 DEF Init, Mail!Init, Item
<1>2. TypeOK /\ KeptInv /\ KeptInv' /\ QueueInv /\ [Next]_vars
        => [Mail!Next]_(Mail!mailboxVars) /\ QueueInv'
  BY MailSteps DEF MailStep
<1> QED
  BY TypeCorrect, KeptInvariant, <1>1, <1>2, PTL DEF Spec, DeliversAsPromised, Mail!Spec
=============================================================================
