------------------------- MODULE MessageServiceProofs -------------------------
(***************************************************************************)
(* Machine-checked proofs about MessageService, for every set of messages  *)
(* and every bound: its type invariant; that neither a "sent" text nor a   *)
(* transmitted text is ever ahead of the relay or of the local database;   *)
(* that the cache and the database settle on one status; that an offer is  *)
(* answered once, and once more per retry; and that what is being sent has *)
(* a verdict under way.                                                    *)
(***************************************************************************)
EXTENDS MessageService, SequenceTheorems, FiniteSetTheorems, FunctionTheorems, TLAPS

-----------------------------------------------------------------------------
(* Lemmas about the queues.                                                *)

LEMMA QueueHead ==
  ASSUME NEW S, NEW q \in Seq(S), q # <<>>
  PROVE  Head(q) \in S /\ Tail(q) \in Seq(S)
  OBVIOUS

LEMMA QueueAppend ==
  ASSUME NEW S, NEW q \in Seq(S), NEW e \in S
  PROVE  Append(q, e) \in Seq(S)
  OBVIOUS

LEMMA QueueConcat ==
  ASSUME NEW S, NEW q \in Seq(S), NEW a \in S, NEW b \in S, NEW c \in S
  PROVE  /\ q \o <<a>> \in Seq(S)
         /\ q \o <<a, b>> \in Seq(S)
         /\ q \o <<a, b, c>> \in Seq(S)
         /\ Append(q, a) \o <<b>> \in Seq(S)
<1>1. <<a>> \in Seq(S) /\ <<a, b>> \in Seq(S) /\ <<a, b, c>> \in Seq(S) /\ <<b>> \in Seq(S)
  OBVIOUS
<1>2. Append(q, a) \in Seq(S)
  BY QueueAppend
<1> QED
  BY <1>1, <1>2, ConcatProperties

-----------------------------------------------------------------------------
(* Lemmas about the helpers the handlers share: what they return.          *)

LEMMA JobConstructors ==
  /\ \A m \in Msg, s \in Status : SaveJob(m, s) \in Job /\ UpdateJob(m, s) \in Job
  /\ \A r \in Request, s \in {"accepted", "declined"} : AnswerJob(r, s) \in Job
  /\ \A R \in SUBSET Request : DeleteJob(R) \in Job
  /\ \A m \in Msg : FindJob(m) \in Job
  /\ \A C \in {Direct, Notes} : LoadJob(C) \in Job
  /\ SeenJob \in Job
BY DEF Job, SaveJob, UpdateJob, AnswerJob, DeleteJob, FindJob, LoadJob, SeenJob

LEMMA JobFields ==
  ASSUME NEW job \in Job
  PROVE  /\ job.op \in {"save", "update", "answer", "seen", "delete", "find", "load"}
         /\ job.msgs \subseteq Msg
         /\ job.status \in MaybeStatus
         /\ job.op \in {"save", "find"} => \E m \in Msg : job.msgs = {m}
         /\ job.op \in {"save", "update"} => job.status \in Status
         /\ job.op = "answer" =>
              job.msgs \subseteq Request /\ job.status \in {"accepted", "declined"}
         /\ job.op = "seen" => job.status = "seen"
         /\ job.op = "delete" => job.msgs \subseteq Request
<1> USE DEF MaybeStatus
<1>1. CASE job \in [op : {"save", "update"}, msgs : {{m} : m \in Msg}, status : Status]
  BY <1>1
<1>2. CASE job \in [op : {"answer"}, msgs : {{r} : r \in Request},
                   status : {"accepted", "declined"}]
  <2>1. PICK r \in Request : job.msgs = {r}
    BY <1>2
  <2> QED
    BY <1>2, <2>1 DEF Status, Msg
<1>3. CASE job \in [op : {"seen"}, msgs : {Direct}, status : {"seen"}]
  BY <1>3 DEF Direct, Status
<1>4. CASE job \in [op : {"delete"}, msgs : SUBSET Request, status : {"none"}]
  BY <1>4 DEF Msg
<1>5. CASE job \in [op : {"find"}, msgs : {{m} : m \in Msg}, status : {"none"}]
  BY <1>5
<1>6. CASE job \in [op : {"load"}, msgs : {Direct, Notes}, status : {"none"}]
  BY <1>6, MessageAssumption DEF Direct, Notes, Msg
<1> QED
  BY <1>1, <1>2, <1>3, <1>4, <1>5, <1>6 DEF Job

LEMMA HelperTypes ==
  ASSUME TypeOK
  PROVE  /\ \A m \in Msg, s \in MaybeStatus : ShowNew(m, s) \in [Msg -> MaybeStatus]
         /\ \A m \in Msg, s \in MaybeStatus : Cache(m, s) \in [Msg -> MaybeStatus]
         /\ \A m \in Msg, e \in Offered : Overwrite(m, e) \in [Request -> Offered \cup {"none"}]
         /\ \A r \in Request : TakeOffer(r) \in [Request -> Offered \cup {"none"}]
         /\ \A job \in Job : After(job) \in [Msg -> MaybeStatus]
         /\ \A job \in Job : Selected(job) \in [Msg -> MaybeStatus]
         /\ \A m \in Msg : FirstStatus(m) \in Status
<1> USE DEF TypeOK, CacheTypes, ViewTypes, StoreTypes, MaybeStatus
<1>2. \A m \in Msg, s \in MaybeStatus : ShowNew(m, s) \in [Msg -> MaybeStatus]
  BY DEF ShowNew
<1>3. \A m \in Msg, s \in MaybeStatus : Cache(m, s) \in [Msg -> MaybeStatus]
  BY DEF Cache
<1>4. \A m \in Msg, e \in Offered : Overwrite(m, e) \in [Request -> Offered \cup {"none"}]
  BY DEF Overwrite
<1>5. \A r \in Request : TakeOffer(r) \in [Request -> Offered \cup {"none"}]
  BY DEF TakeOffer
<1>6. \A job \in Job : After(job) \in [Msg -> MaybeStatus]
  BY JobFields DEF After
<1>7. \A job \in Job : Selected(job) \in [Msg -> MaybeStatus]
  BY DEF Selected
<1>8. \A m \in Msg : FirstStatus(m) \in Status
  BY DEF FirstStatus, Status
<1> QED
  BY <1>2, <1>3, <1>4, <1>5, <1>6, <1>7, <1>8


LEMMA FreshPieces ==
  /\ Blank \in [Msg -> MaybeStatus]
  /\ [job : Job, ok : BOOLEAN, rows : {Blank}] \subseteq Reply
  /\ Status \subseteq MaybeStatus
BY DEF Blank, MaybeStatus, Reply

-----------------------------------------------------------------------------
(* Type correctness.                                                       *)

LEMMA SharedSteps ==
  ASSUME TypeOK
  PROVE  /\ \A m \in Media : StartTimer(m) \/ StopTimer(m) => TimerTypes'
         /\ \A m \in Msg \ Media : StopTimer(m) => TimerTypes'
         /\ \A m \in Msg : Create(m) => created' \subseteq Msg
         /\ \A e \in Events : Spend(e) => spent' \in [Events -> Nat]
<1> USE DEF TypeOK, TimerTypes, BoundTypes
<1>1. ASSUME NEW m \in Media, StartTimer(m) PROVE TimerTypes'
  BY <1>1 DEF StartTimer
<1>2. ASSUME NEW m \in Media, StopTimer(m) PROVE TimerTypes'
  BY <1>2 DEF StopTimer
<1>3. ASSUME NEW m \in Msg \ Media, StopTimer(m) PROVE TimerTypes'
  BY <1>3 DEF StopTimer
<1>4. ASSUME NEW m \in Msg, Create(m) PROVE created' \subseteq Msg
  BY <1>4 DEF Create
<1>5. ASSUME NEW e \in Events, Spend(e) PROVE spent' \in [Events -> Nat]
  BY <1>5 DEF Spend
<1> QED
  BY <1>1, <1>2, <1>3, <1>4, <1>5

LEMMA TypeInit == Init => TypeOK
<1> SUFFICES ASSUME Init PROVE TypeOK
  OBVIOUS
<1> USE DEF Init
<1>1. QueueTypes
  BY EmptySeq DEF QueueTypes
<1>2. CacheTypes /\ ViewTypes /\ StoreTypes
  BY FreshPieces DEF CacheTypes, ViewTypes, StoreTypes, Offered
<1> QED
  BY <1>1, <1>2 DEF TypeOK, TimerTypes, NetTypes, BoundTypes

(* What executeRetry leaves well typed, alone or inside a callback.        *)
LEMMA TypeExecuteRetry ==
  ASSUME TypeOK, NEW m \in Msg, ExecuteRetry(m)
  PROVE  /\ outgoing' \in [Msg -> MaybeStatus] /\ pending' \in [Request -> Offered \cup {"none"}]
         /\ jobs' \in Seq(Job)
         /\ shown' \in [Msg -> MaybeStatus]
         /\ TimerTypes'
         /\ requests' \in [Msg -> Nat]
<1> USE DEF TypeOK
<1>1. \E s \in {"sent", "sending"} :
        outgoing' = [outgoing EXCEPT ![m] = s] /\ jobs' = Append(jobs, UpdateJob(m, s))
        /\ shown' = Show({m}, s)
  BY DEF ExecuteRetry
<1>2. outgoing' \in [Msg -> MaybeStatus]
  BY <1>1 DEF CacheTypes, MaybeStatus, Status
<1>3. jobs' \in Seq(Job)
  BY <1>1, JobConstructors, QueueAppend DEF QueueTypes, Status
<1>4. shown' \in [Msg -> MaybeStatus]
  BY <1>1 DEF Show, ViewTypes, MaybeStatus, Status
<1>5. pending' \in [Request -> Offered \cup {"none"}]
  BY DEF ExecuteRetry, CacheTypes, Offered
<1>6. TimerTypes'
  BY SharedSteps DEF ExecuteRetry, timer, TimerTypes
<1>7. requests' \in [Msg -> Nat]
  BY DEF ExecuteRetry, NetTypes
<1> QED
  BY <1>2, <1>3, <1>4, <1>5, <1>6, <1>7

LEMMA TypeUser == TypeOK /\ User => TypeOK'
<1> SUFFICES ASSUME TypeOK, User PROVE TypeOK'
  OBVIOUS
<1> USE DEF TypeOK, gui, timer, media, store, net, view
<1>1. ASSUME NEW m \in Text \cup Media, SendMessage(m) PROVE TypeOK'
  <2> USE <1>1 DEF SendMessage
  <2>0. m \in Msg /\ FirstStatus(m) \in Status /\ FirstStatus(m) \in MaybeStatus
    BY HelperTypes, FreshPieces DEF Msg
  <2>1. CacheTypes' /\ ViewTypes'
    BY <2>0, HelperTypes DEF CacheTypes, ViewTypes
  <2>2. TimerTypes'
    BY SharedSteps DEF TimerTypes
  <2>3. QueueTypes'
    BY <2>0, JobConstructors, QueueAppend DEF QueueTypes
  <2>4. BoundTypes'
    BY <2>0, SharedSteps DEF BoundTypes
  <2> QED
    BY <2>1, <2>2, <2>3, <2>4 DEF StoreTypes, NetTypes
<1>2. ASSUME NEW r \in Request, SendMediaRequest(r) PROVE TypeOK'
  <2> USE <1>2 DEF SendMediaRequest
  <2>0. r \in Msg /\ "pending" \in Status /\ "pending" \in MaybeStatus
    BY DEF Msg, MaybeStatus, Status
  <2>1. CacheTypes' /\ ViewTypes'
    BY <2>0, HelperTypes DEF CacheTypes, ViewTypes, Offered
  <2>2. QueueTypes'
    BY <2>0, JobConstructors, QueueAppend DEF QueueTypes
  <2>3. BoundTypes'
    BY <2>0, SharedSteps DEF BoundTypes
  <2> QED
    BY <2>1, <2>2, <2>3 DEF TimerTypes, StoreTypes, NetTypes
<1>3. ASSUME NEW m \in Media, Cancel(m) PROVE TypeOK'
  <2> USE <1>3 DEF Cancel
  <2>0. m \in Msg /\ "failed" \in Status /\ "failed" \in MaybeStatus /\ "cancel" \in Events
    BY DEF Msg, MaybeStatus, Status, Events
  <2>1. CacheTypes' /\ ViewTypes'
    BY <2>0, HelperTypes DEF CacheTypes, ViewTypes, Show
  <2>2. TimerTypes'
    BY SharedSteps
  <2>3. QueueTypes'
    BY <2>0, JobConstructors, QueueAppend DEF QueueTypes
  <2>4. BoundTypes'
    BY <2>0, SharedSteps DEF BoundTypes
  <2> QED
    BY <2>1, <2>2, <2>3, <2>4 DEF StoreTypes, NetTypes
<1>4. ASSUME NEW m \in Msg, Retry(m) PROVE TypeOK'
  <2> USE <1>4 DEF Retry
  <2>1. BoundTypes'
    BY SharedSteps DEF BoundTypes, Events
  <2>2. CASE ExecuteRetry(m)
    BY <2>1, <2>2, TypeExecuteRetry DEF CacheTypes, ViewTypes, QueueTypes, StoreTypes, NetTypes
  <2>3. CASE jobs' = Append(jobs, FindJob(m)) /\ UNCHANGED <<gui, timer, requests, shown>>
    <3>1. QueueTypes'
      BY <2>3, JobConstructors, QueueAppend DEF QueueTypes
    <3> QED
      BY <2>1, <2>3, <3>1 DEF CacheTypes, ViewTypes, TimerTypes, StoreTypes, NetTypes
  <2> QED
    BY <2>2, <2>3
<1>5. ASSUME NEW C \in {Direct, Notes}, OpenConversation(C) PROVE TypeOK'
  <2> USE <1>5 DEF OpenConversation
  <2>1. QueueTypes'
    BY JobConstructors, QueueAppend DEF QueueTypes
  <2>2. BoundTypes'
    BY SharedSteps DEF BoundTypes, Events
  <2>3. ViewTypes'
    BY FreshPieces DEF ViewTypes
  <2> QED
    BY <2>1, <2>2, <2>3 DEF CacheTypes, TimerTypes, StoreTypes, NetTypes
<1> QED
  BY <1>1, <1>2, <1>3, <1>4, <1>5 DEF User

LEMMA TypeRelay ==
  TypeOK /\ (\/ \E m \in Media : TimerDone(m)
             \/ \E m \in Msg : RelayAccepts(m) \/ Outcome(m)) => TypeOK'
<1> USE DEF TypeOK, gui, timer, media, store, net, view
<1>1. ASSUME TypeOK, NEW m \in Media, TimerDone(m) PROVE TypeOK'
  <2> USE <1>1 DEF TimerDone
  <2>0. m \in Msg /\ "sent" \in Status /\ "sent" \in MaybeStatus
    BY DEF Msg, MaybeStatus, Status
  <2>1. CacheTypes' /\ ViewTypes'
    BY <2>0, HelperTypes DEF CacheTypes, ViewTypes, Show
  <2>2. TimerTypes'
    BY DEF TimerTypes
  <2>3. QueueTypes'
    BY <2>0, JobConstructors, QueueAppend DEF QueueTypes
  <2> QED
    BY <2>1, <2>2, <2>3 DEF StoreTypes, NetTypes, BoundTypes
<1>2. ASSUME TypeOK, NEW m \in Msg, RelayAccepts(m) PROVE TypeOK'
  <2>1. NetTypes'
    BY <1>2 DEF RelayAccepts, NetTypes
  <2> QED
    BY <1>2, <2>1 DEF RelayAccepts, CacheTypes, ViewTypes, TimerTypes, QueueTypes, StoreTypes, BoundTypes
<1>3. ASSUME TypeOK, NEW m \in Msg, DeliverySucceeded(m) PROVE TypeOK'
  <2> USE <1>3 DEF DeliverySucceeded
  <2>0. "sent" \in Status /\ "sent" \in MaybeStatus /\ "empty" \in Offered
    BY DEF MaybeStatus, Status, Offered
  <2>1. CacheTypes'
    <3>1. /\ outgoing' = outgoing \/ outgoing' = Cache(m, "sent")
          /\ pending' = pending \/ pending' = Overwrite(m, "empty")
          /\ UNCHANGED media
      BY DEF gui
    <3> HIDE DEF DeliverySucceeded
    <3>2. /\ Cache(m, "sent") \in [Msg -> MaybeStatus]
          /\ Overwrite(m, "empty") \in [Request -> Offered \cup {"none"}]
      BY <2>0, HelperTypes
    <3> QED
      BY <3>1, <3>2 DEF CacheTypes, media
  <2>5. ViewTypes'
    BY <2>0 DEF ViewTypes, Show
  <2>2. QueueTypes'
    BY <2>0, JobConstructors, QueueAppend DEF QueueTypes
  <2>3. NetTypes'
    BY DEF NetTypes
  <2> QED
    BY <2>1, <2>2, <2>3, <2>5 DEF TimerTypes, StoreTypes, BoundTypes
<1>4. ASSUME TypeOK, NEW m \in Msg, DeliveryFailed(m) PROVE TypeOK'
  <2> USE <1>4 DEF DeliveryFailed
  <2>0. "failed" \in Status /\ "failed" \in MaybeStatus /\ "error" \in Offered
    BY DEF MaybeStatus, Status, Offered
  <2>1. CacheTypes' /\ ViewTypes'
    BY <2>0, HelperTypes DEF CacheTypes, ViewTypes, Show
  <2>2. TimerTypes'
    BY SharedSteps
  <2>3. QueueTypes'
    BY <2>0, JobConstructors, QueueAppend DEF QueueTypes
  <2>4. NetTypes'
    <3>1. CASE requests[m] > 0 /\ requests' = [requests EXCEPT ![m] = @ - 1] /\ UNCHANGED responses
      BY <3>1 DEF NetTypes
    <3>2. CASE responses[m] > 0 /\ responses' = [responses EXCEPT ![m] = @ - 1] /\ UNCHANGED requests
      BY <3>2 DEF NetTypes
    <3> QED
      BY <3>1, <3>2
  <2> QED
    BY <2>1, <2>2, <2>3, <2>4 DEF StoreTypes, BoundTypes
<1> QED
  BY <1>1, <1>2, <1>3, <1>4 DEF Outcome

LEMMA TypePeer == TypeOK /\ Peer => TypeOK'
<1> SUFFICES ASSUME TypeOK, Peer PROVE TypeOK'
  OBVIOUS
<1> USE DEF TypeOK, gui, timer, media, store, net, view
<1>1. ASSUME NEW target \in {{}} \cup {{m} : m \in Msg}, SeenReceipt(target) PROVE TypeOK'
  <2> USE <1>1 DEF SeenReceipt
  <2>1. jobs' \in Seq(Job)
    <3>1. CASE target = {}
      BY <3>1, JobConstructors, QueueConcat DEF QueueTypes
    <3>2. CASE target # {}
      <4>1. [op |-> "update", msgs |-> target, status |-> "seen"] \in Job
        BY <3>2 DEF Job, Status
      <4> QED
        BY <3>2, <4>1, JobConstructors, QueueConcat DEF QueueTypes
    <3> QED
      BY <3>1, <3>2
  <2>2. BoundTypes'
    BY SharedSteps DEF BoundTypes, Events
  <2> QED
    BY <2>1, <2>2 DEF CacheTypes, ViewTypes, TimerTypes, QueueTypes, StoreTypes, NetTypes
<1>2. ASSUME NEW r \in Request, NEW p \in Media, MediaAccept(r, p) PROVE TypeOK'
  <2> USE <1>2 DEF MediaAccept
  <2>0. p \in Msg /\ "sending" \in Status /\ "sending" \in MaybeStatus /\ "none" \in MaybeStatus
    BY DEF Msg, MaybeStatus, Status
  <2>1. CacheTypes'
    <3>1. pending[r] \in Offered
      BY DEF CacheTypes
    <3> QED
      BY <2>0, <3>1, HelperTypes DEF CacheTypes
  <2>2. ViewTypes'
    BY <2>0, HelperTypes DEF ViewTypes
  <2>3. QueueTypes'
    BY <2>0, JobConstructors, QueueConcat DEF QueueTypes
  <2>4. BoundTypes'
    BY <2>0, SharedSteps DEF BoundTypes, Events
  <2>5. TimerTypes'
    BY SharedSteps
  <2> QED
    BY <2>1, <2>2, <2>3, <2>4, <2>5 DEF StoreTypes, NetTypes
<1>3. ASSUME NEW r \in Request, LateAccept(r) PROVE TypeOK'
  <2> USE <1>3 DEF LateAccept
  <2>1. QueueTypes'
    BY JobConstructors, QueueConcat DEF QueueTypes
  <2>2. BoundTypes'
    BY SharedSteps DEF BoundTypes, Events
  <2> QED
    BY <2>1, <2>2 DEF CacheTypes, ViewTypes, TimerTypes, StoreTypes, NetTypes, MaybeStatus
<1>4. ASSUME NEW r \in Request, MediaDecline(r) PROVE TypeOK'
  <2> USE <1>4 DEF MediaDecline
  <2>1. QueueTypes'
    BY JobConstructors, QueueAppend DEF QueueTypes
  <2>2. BoundTypes'
    BY SharedSteps DEF BoundTypes, Events
  <2>3. CacheTypes'
    BY HelperTypes DEF CacheTypes
  <2> QED
    BY <2>1, <2>2, <2>3 DEF ViewTypes, TimerTypes, StoreTypes, NetTypes
<1> QED
  BY <1>1, <1>2, <1>3, <1>4 DEF Peer

LEMMA TypeWorker == TypeOK /\ (WorkerStep \/ WorkerFault) => TypeOK'
<1> SUFFICES ASSUME TypeOK, WorkerStep \/ WorkerFault PROVE TypeOK'
  OBVIOUS
<1> USE DEF TypeOK, gui, timer, media, net, view
<1>1. Head(jobs) \in Job /\ jobs' \in Seq(Job)
  BY QueueHead DEF WorkerStep, WorkerFault, QueueTypes
<1>2. CASE WorkerStep
  <2> USE <1>2 DEF WorkerStep
  <2>1. rows' \in [Msg -> MaybeStatus]
    BY <1>1, HelperTypes
  <2>2. \A ok \in BOOLEAN :
          [job |-> Head(jobs), rows |-> Selected(Head(jobs)), ok |-> ok] \in Reply
    BY <1>1, HelperTypes DEF Reply
  <2>3. QueueTypes'
    BY <1>1, <2>2, QueueAppend DEF QueueTypes
  <2> QED
    BY <2>1, <2>3 DEF CacheTypes, ViewTypes, TimerTypes, StoreTypes, NetTypes, BoundTypes
<1>3. CASE WorkerFault
  <2> USE <1>3 DEF WorkerFault
  <2>1. [job |-> Head(jobs), ok |-> FALSE, rows |-> Blank] \in Reply
    BY <1>1, FreshPieces DEF Reply
  <2>2. QueueTypes'
    BY <1>1, <2>1, QueueAppend DEF QueueTypes
  <2>3. faulted' \subseteq Msg
    BY <1>1, JobFields DEF StoreTypes
  <2>4. BoundTypes'
    BY SharedSteps DEF BoundTypes, Events
  <2> QED
    BY <2>2, <2>3, <2>4 DEF CacheTypes, ViewTypes, TimerTypes, StoreTypes, NetTypes
<1> QED
  BY <1>2, <1>3

(* The reply a callback consumes, and the message it is about.             *)
LEMMA NextReplyTypes ==
  ASSUME TypeOK, NEW op, NextReply(op)
  PROVE  /\ Head(replies) \in Reply
         /\ replies' \in Seq(Reply)
         /\ op \in {"save", "find"} => ReplyMsg \in Msg /\ Head(replies).job.msgs = {ReplyMsg}
<1>1. Head(replies) \in Reply /\ replies' \in Seq(Reply)
  BY QueueHead DEF NextReply, TypeOK, QueueTypes
<1>2. ASSUME op \in {"save", "find"}
      PROVE  ReplyMsg \in Msg /\ Head(replies).job.msgs = {ReplyMsg}
  <2>1. PICK m \in Msg : Head(replies).job.msgs = {m}
    BY <1>1, <1>2, JobFields DEF NextReply, Reply
  <2>2. ReplyMsg \in Msg /\ Head(replies).job.msgs = {ReplyMsg}
    BY <2>1 DEF ReplyMsg
  <2> QED
    BY <2>2
<1> QED
  BY <1>1, <1>2

LEMMA TypeCallback == TypeOK /\ Callback => TypeOK'
<1> SUFFICES ASSUME TypeOK, Callback PROVE TypeOK'
  OBVIOUS
<1> USE DEF TypeOK, gui, timer, media, net, view
<1>1. CASE OnSaved
  <2> USE <1>1 DEF OnSaved
  <2>1. ReplyMsg \in Msg /\ replies' \in Seq(Reply)
    BY NextReplyTypes
  <2>2. NetTypes'
    BY <2>1 DEF NetTypes
  <2>3. ViewTypes'
    BY <2>1 DEF Show, ViewTypes, MaybeStatus, Status
  <2> QED
    BY <2>1, <2>2, <2>3 DEF CacheTypes, TimerTypes, QueueTypes, StoreTypes, BoundTypes
<1>2. CASE OnSaveFailed
  <2> USE <1>2 DEF OnSaveFailed
  <2>1. ReplyMsg \in Msg /\ replies' \in Seq(Reply)
    BY NextReplyTypes
  <2>2. TimerTypes'
    BY <2>1, SharedSteps
  <2> QED
    BY <2>1, <2>2 DEF Show, CacheTypes, ViewTypes, QueueTypes, StoreTypes, NetTypes,
                      BoundTypes, MaybeStatus, Status
<1>3. CASE OnAnswered
  <2> USE <1>3 DEF OnAnswered
  <2>1. Head(replies).job.status \in MaybeStatus /\ replies' \in Seq(Reply)
    BY NextReplyTypes, JobFields DEF Reply
  <2> QED
    BY <2>1 DEF Show, CacheTypes, ViewTypes, TimerTypes, QueueTypes, StoreTypes, NetTypes,
                BoundTypes
<1>4. CASE OnSeen
  <2> USE <1>4 DEF OnSeen
  <2>1. replies' \in Seq(Reply)
    BY NextReplyTypes
  <2> QED
    BY <2>1 DEF Show, CacheTypes, ViewTypes, TimerTypes, QueueTypes, StoreTypes, NetTypes,
                BoundTypes, MaybeStatus, Status
<1>5. CASE OnFound
  <2> USE <1>5 DEF OnFound
  <2>1. ReplyMsg \in Msg /\ replies' \in Seq(Reply)
    BY NextReplyTypes
  <2>2. CASE ExecuteRetry(ReplyMsg)
    BY <2>1, <2>2, TypeExecuteRetry
       DEF CacheTypes, ViewTypes, QueueTypes, StoreTypes, NetTypes, BoundTypes
  <2>3. CASE UNCHANGED <<gui, timer, jobs, requests, shown>>
    BY <2>1, <2>3 DEF CacheTypes, ViewTypes, TimerTypes, QueueTypes, StoreTypes, NetTypes,
                      BoundTypes
  <2> QED
    BY <2>2, <2>3
<1>6. CASE OnLoaded
  <2> USE <1>6 DEF OnLoaded
  <2>1. Head(replies).rows \in [Msg -> MaybeStatus] /\ replies' \in Seq(Reply)
    BY NextReplyTypes DEF Reply
  <2>2. QueueTypes'
    BY <2>1, JobConstructors, QueueAppend DEF QueueTypes
  <2>3. ViewTypes'
    BY <2>1 DEF ViewTypes, MaybeStatus
  <2> QED
    BY <2>2, <2>3 DEF CacheTypes, TimerTypes, StoreTypes, NetTypes, BoundTypes
<1> QED
  BY <1>1, <1>2, <1>3, <1>4, <1>5, <1>6 DEF Callback

LEMMA TypeRestart == TypeOK /\ Restart => TypeOK'
<1> SUFFICES ASSUME TypeOK, Restart PROVE TypeOK'
  OBVIOUS
<1> USE DEF TypeOK, media, Restart
<1>1. QueueTypes'
  BY EmptySeq DEF QueueTypes
<1>2. CacheTypes' /\ ViewTypes'
  BY FreshPieces DEF CacheTypes, ViewTypes
<1>3. BoundTypes'
  BY SharedSteps DEF BoundTypes, Events
<1> QED
  BY <1>1, <1>2, <1>3 DEF TimerTypes, StoreTypes, NetTypes

LEMMA TypeStep == TypeOK /\ [Next]_vars => TypeOK'
<1>1. ASSUME TypeOK, UNCHANGED vars PROVE TypeOK'
  BY <1>1 DEF vars, gui, timer, media, store, net, view, TypeOK, CacheTypes, ViewTypes,
              TimerTypes, QueueTypes, StoreTypes, NetTypes, BoundTypes
<1> QED
  BY <1>1, TypeUser, TypePeer, TypeRelay, TypeWorker, TypeCallback, TypeRestart DEF Next

(* Type correctness: every status, queue entry, counter and id stays in    *)
(* its range, and a registered progress timer is always a running one, for *)
(* every set of messages and every bound.                                  *)
THEOREM TypeCorrect == Spec => []TypeOK
  BY TypeInit, TypeStep, PTL DEF Spec

-----------------------------------------------------------------------------
(* "sent" never runs ahead of the relay.  SentOnlyAfterRelay alone is not  *)
(* inductive: a status travels through the job queue, through the pages    *)
(* the worker has read and through the answers of the relay, so none of    *)
(* them may carry a "sent" the relay does not back either.                 *)

Plain == (Text \cup Request) \ Saved

SentJob(R) ==
  {job \in Job : job.op \in {"save", "update"} /\ job.status = "sent"
                   => \A m \in job.msgs \cap Plain : m \in R}

SentReply(R) == {reply \in Reply : \A m \in Plain : reply.rows[m] = "sent" => m \in R}

SentInv ==
  /\ SentOnlyAfterRelay
  /\ jobs \in Seq(SentJob(relayed))
  /\ replies \in Seq(SentReply(relayed))
  /\ \A m \in Plain : responses[m] > 0 => m \in relayed
  /\ \A p \in Media : origin[p] # "none" => origin[p] \in relayed

LEMMA SentMonotonic ==
  ASSUME NEW R, NEW T, R \subseteq T
  PROVE  SentJob(R) \subseteq SentJob(T) /\ SentReply(R) \subseteq SentReply(T)
BY DEF SentJob, SentReply

LEMMA SentConstructors ==
  ASSUME NEW R
  PROVE  /\ \A m \in Msg, s \in Status : (s = "sent" /\ m \in Plain => m \in R)
              => SaveJob(m, s) \in SentJob(R) /\ UpdateJob(m, s) \in SentJob(R)
         /\ \A r \in Request, s \in {"accepted", "declined"} : AnswerJob(r, s) \in SentJob(R)
         /\ \A S \in SUBSET Request : DeleteJob(S) \in SentJob(R)
         /\ \A m \in Msg : FindJob(m) \in SentJob(R)
         /\ \A C \in {Direct, Notes} : LoadJob(C) \in SentJob(R)
         /\ SeenJob \in SentJob(R)
BY JobConstructors
   DEF SentJob, SaveJob, UpdateJob, AnswerJob, DeleteJob, FindJob, LoadJob, SeenJob

LEMMA SentInit == Init => SentInv
BY EmptySeq, MessageAssumption
   DEF Init, SentInv, SentOnlyAfterRelay, Blank, Plain, Msg

LEMMA SentExecuteRetry ==
  ASSUME TypeOK, SentInv, NEW n \in Msg, ExecuteRetry(n), relayed' = relayed, rows' = rows
  PROVE  SentOnlyAfterRelay' /\ jobs' \in Seq(SentJob(relayed))
<1>1. PICK s \in {"sent", "sending"} :
        /\ s = "sent" => n \in Saved
        /\ outgoing' = [outgoing EXCEPT ![n] = s] /\ jobs' = Append(jobs, UpdateJob(n, s))
        /\ shown' = Show({n}, s)
  BY DEF ExecuteRetry
<1>2. UpdateJob(n, s) \in SentJob(relayed)
  BY <1>1, SentConstructors DEF Plain, Status
<1>3. SentOnlyAfterRelay'
  BY <1>1 DEF SentInv, SentOnlyAfterRelay, Show, Plain, TypeOK, CacheTypes, ViewTypes, Msg
<1> QED
  BY <1>1, <1>2, <1>3, QueueAppend DEF SentInv

LEMMA SentUser == TypeOK /\ SentInv /\ User => SentInv'
<1> SUFFICES ASSUME TypeOK, SentInv, User PROVE SentInv'
  OBVIOUS
<1>0. Plain \subseteq Msg /\ Plain \cap Media = {} /\ Plain \cap Saved = {}
  BY MessageAssumption DEF Plain, Msg
<1>t. outgoing \in [Msg -> MaybeStatus] /\ shown \in [Msg -> MaybeStatus]
  BY DEF TypeOK, CacheTypes, ViewTypes
<1> USE <1>0, <1>t DEF gui, timer, media, store, net, view, SentInv, SentOnlyAfterRelay
<1>1. ASSUME NEW n \in Text \cup Media, SendMessage(n) PROVE SentInv'
  <2> USE <1>1 DEF SendMessage
  <2>1. n \in Msg /\ FirstStatus(n) \in Status /\ (FirstStatus(n) = "sent" => n \in Saved)
    BY HelperTypes DEF FirstStatus, Msg
  <2>2. SentOnlyAfterRelay'
    BY <2>1 DEF ShowNew, Plain
  <2>3. jobs' \in Seq(SentJob(relayed))
    BY <2>1, SentConstructors, QueueAppend
  <2> QED
    BY <2>2, <2>3
<1>2. ASSUME NEW r \in Request, SendMediaRequest(r) PROVE SentInv'
  <2> USE <1>2 DEF SendMediaRequest
  <2>1. SentOnlyAfterRelay'
    BY DEF ShowNew, Plain, Msg
  <2>2. jobs' \in Seq(SentJob(relayed))
    BY SentConstructors, QueueAppend DEF Status, Msg
  <2> QED
    BY <2>1, <2>2
<1>3. ASSUME NEW n \in Media, Cancel(n) PROVE SentInv'
  <2> USE <1>3 DEF Cancel
  <2>1. SentOnlyAfterRelay'
    BY DEF Show, Cache, Plain, Msg
  <2>2. jobs' \in Seq(SentJob(relayed))
    BY SentConstructors, QueueAppend DEF Status, Msg
  <2> QED
    BY <2>1, <2>2
<1>4. ASSUME NEW n \in Msg, Retry(n) PROVE SentInv'
  <2> USE <1>4 DEF Retry
  <2>1. CASE ExecuteRetry(n)
    BY <2>1, SentExecuteRetry
  <2>2. CASE jobs' = Append(jobs, FindJob(n)) /\ UNCHANGED <<gui, timer, requests, shown>>
    BY <2>2, SentConstructors, QueueAppend
  <2> QED
    BY <2>1, <2>2
<1>5. ASSUME NEW C \in {Direct, Notes}, OpenConversation(C) PROVE SentInv'
  <2> USE <1>5 DEF OpenConversation
  <2>1. jobs' \in Seq(SentJob(relayed))
    BY SentConstructors, QueueAppend
  <2> QED
    BY <2>1 DEF Blank, Plain
<1> QED
  BY <1>1, <1>2, <1>3, <1>4, <1>5 DEF User

LEMMA SentRelay ==
  TypeOK /\ SentInv /\ (\/ \E m \in Media : TimerDone(m)
                        \/ \E m \in Msg : RelayAccepts(m) \/ Outcome(m)) => SentInv'
<1> SUFFICES ASSUME TypeOK, SentInv,
                    \/ \E m \in Media : TimerDone(m)
                    \/ \E m \in Msg : RelayAccepts(m) \/ Outcome(m)
             PROVE  SentInv'
  OBVIOUS
<1>0. Plain \subseteq Msg /\ Plain \cap Media = {} /\ Plain \cap Saved = {}
  BY MessageAssumption DEF Plain, Msg
<1>t. outgoing \in [Msg -> MaybeStatus] /\ shown \in [Msg -> MaybeStatus]
      /\ responses \in [Msg -> Nat]
  BY DEF TypeOK, CacheTypes, ViewTypes, NetTypes
<1> USE <1>0, <1>t DEF gui, timer, media, store, net, view, SentInv, SentOnlyAfterRelay
<1>1. ASSUME NEW n \in Media, TimerDone(n) PROVE SentInv'
  <2> USE <1>1 DEF TimerDone
  <2>1. PICK S \in {{n}, {n, origin[n]}} : shown' = Show(S, "sent")
    OBVIOUS
  <2>2. \A m \in S \cap Plain : m \in relayed
    <3>1. origin[n] \in Request \cup {"none"} /\ "none" \notin Plain
      BY MessageAssumption DEF TypeOK, CacheTypes, Plain, Msg
    <3> QED
      BY <2>1, <3>1
  <2>3. SentOnlyAfterRelay'
    BY <2>1, <2>2 DEF Show, Cache, Plain
  <2>4. jobs' \in Seq(SentJob(relayed))
    BY SentConstructors, QueueAppend DEF Status, Msg
  <2> QED
    BY <2>3, <2>4
<1>2. ASSUME NEW n \in Msg, RelayAccepts(n) PROVE SentInv'
  <2> USE <1>2 DEF RelayAccepts
  <2>1. jobs \in Seq(SentJob(relayed')) /\ replies \in Seq(SentReply(relayed'))
    BY SentMonotonic, SeqMonotonic
  <2> QED
    BY <2>1
<1>3. ASSUME NEW n \in Msg, DeliverySucceeded(n) PROVE SentInv'
  <2> USE <1>3 DEF DeliverySucceeded
  <2>1. SentOnlyAfterRelay'
    BY DEF Show, Cache, Plain
  <2>2. jobs' \in Seq(SentJob(relayed))
    <3>1. UpdateJob(n, "sent") \in SentJob(relayed)
      BY SentConstructors DEF Status
    <3>2. CASE jobs' = jobs
      BY <3>2
    <3>3. CASE jobs' = Append(jobs, UpdateJob(n, "sent"))
      BY <3>1, <3>3, QueueAppend
    <3> QED
      BY <3>2, <3>3
  <2> QED
    BY <2>1, <2>2
<1>4. ASSUME NEW n \in Msg, DeliveryFailed(n) PROVE SentInv'
  <2> USE <1>4 DEF DeliveryFailed
  <2>1. SentOnlyAfterRelay'
    BY DEF Show, Cache, Plain
  <2>2. jobs' \in Seq(SentJob(relayed))
    <3>1. UpdateJob(n, "failed") \in SentJob(relayed)
      BY SentConstructors DEF Status
    <3>2. jobs' = Append(jobs, UpdateJob(n, "failed"))
      OBVIOUS
    <3> QED
      BY <3>1, <3>2, QueueAppend
  <2>3. \A m \in Plain : responses'[m] > 0 => m \in relayed
    OBVIOUS
  <2> QED
    BY <2>1, <2>2, <2>3
<1> QED
  BY <1>1, <1>2, <1>3, <1>4 DEF Outcome

LEMMA SentPeer == TypeOK /\ SentInv /\ Peer => SentInv'
<1> SUFFICES ASSUME TypeOK, SentInv, Peer PROVE SentInv'
  OBVIOUS
<1>0. Plain \subseteq Msg /\ Plain \cap Media = {} /\ Plain \cap Saved = {}
  BY MessageAssumption DEF Plain, Msg
<1>t. outgoing \in [Msg -> MaybeStatus] /\ shown \in [Msg -> MaybeStatus]
      /\ origin \in [Media -> Request \cup {"none"}]
  BY DEF TypeOK, CacheTypes, ViewTypes
<1> USE <1>0, <1>t DEF gui, timer, media, store, net, view, SentInv, SentOnlyAfterRelay
<1>1. ASSUME NEW target \in {{}} \cup {{m} : m \in Msg}, SeenReceipt(target) PROVE SentInv'
  <2> USE <1>1 DEF SeenReceipt
  <2>1. jobs' \in Seq(SentJob(relayed))
    <3>1. CASE target = {}
      BY <3>1, SentConstructors, QueueConcat
    <3>2. CASE target # {}
      <4>1. [op |-> "update", msgs |-> target, status |-> "seen"] \in SentJob(relayed)
        BY <3>2 DEF SentJob, Job, Status
      <4> QED
        BY <3>2, <4>1, SentConstructors, QueueConcat
    <3> QED
      BY <3>1, <3>2
  <2> QED
    BY <2>1
<1>2. ASSUME NEW r \in Request, NEW p \in Media, MediaAccept(r, p) PROVE SentInv'
  <2> USE <1>2 DEF MediaAccept
  <2>1. SentOnlyAfterRelay'
    BY DEF ShowNew, Plain
  <2>2. jobs' \in Seq(SentJob(relayed))
    BY SentConstructors, QueueConcat DEF Status, Msg
  <2> QED
    BY <2>1, <2>2
<1>3. ASSUME NEW r \in Request, LateAccept(r) PROVE SentInv'
  <2> USE <1>3 DEF LateAccept
  <2>1. jobs' \in Seq(SentJob(relayed))
    BY SentConstructors, QueueConcat
  <2>2. SentOnlyAfterRelay'
    BY DEF Plain
  <2> QED
    BY <2>1, <2>2
<1>4. ASSUME NEW r \in Request, MediaDecline(r) PROVE SentInv'
  <2> USE <1>4 DEF MediaDecline
  <2>1. jobs' \in Seq(SentJob(relayed))
    BY SentConstructors, QueueAppend
  <2> QED
    BY <2>1
<1> QED
  BY <1>1, <1>2, <1>3, <1>4 DEF Peer

LEMMA SentWorker == TypeOK /\ SentInv /\ (WorkerStep \/ WorkerFault) => SentInv'
<1> SUFFICES ASSUME TypeOK, SentInv, WorkerStep \/ WorkerFault PROVE SentInv'
  OBVIOUS
<1>0. Plain \subseteq Msg
  BY DEF Plain, Msg
<1> USE DEF gui, timer, media, net, view, SentInv, SentOnlyAfterRelay
<1>1. Head(jobs) \in SentJob(relayed) /\ jobs' \in Seq(SentJob(relayed))
  <2>1. jobs # <<>> /\ jobs' = Tail(jobs) /\ jobs \in Seq(SentJob(relayed))
    BY DEF WorkerStep, WorkerFault
  <2> QED
    BY <2>1, QueueHead
<1>2. Head(jobs) \in Job
  BY <1>1 DEF SentJob
<1>3. CASE WorkerStep
  <2> USE <1>3 DEF WorkerStep
  <2>1. \A m \in Plain : rows'[m] = "sent" => m \in relayed
    <3> SUFFICES ASSUME NEW m \in Plain, rows'[m] = "sent" PROVE m \in relayed
      OBVIOUS
    <3>1. m \in Msg /\ rows' = After(Head(jobs)) /\ (rows[m] = "sent" => m \in relayed)
      BY <1>0 DEF Plain
    <3>2. CASE rows[m] = "sent"
      BY <3>1, <3>2
    <3>3. CASE rows[m] # "sent"
      <4>1. m \in Head(jobs).msgs /\ Head(jobs).status = "sent"
        BY <3>1, <3>3 DEF After
      <4>2. Head(jobs).op \in {"save", "update"}
        BY <3>1, <3>3, <4>1, <1>2, JobFields DEF After, Job
      <4> QED
        BY <1>1, <4>1, <4>2 DEF SentJob
    <3> QED
      BY <3>2, <3>3
  <2>2. \A ok \in BOOLEAN :
          [job |-> Head(jobs), rows |-> Selected(Head(jobs)), ok |-> ok] \in SentReply(relayed)
    <3>1. Selected(Head(jobs)) \in [Msg -> MaybeStatus]
      BY <1>2, HelperTypes
    <3>2. \A m \in Plain : Selected(Head(jobs))[m] = "sent" => m \in relayed
      BY <1>0 DEF Selected, Plain
    <3> QED
      BY <1>2, <3>1, <3>2 DEF SentReply, Reply
  <2>3. replies' \in Seq(SentReply(relayed))
    BY <2>2, QueueAppend
  <2> QED
    BY <1>1, <2>1, <2>3 DEF Plain
<1>4. CASE WorkerFault
  <2> USE <1>4 DEF WorkerFault
  <2>1. [job |-> Head(jobs), ok |-> FALSE, rows |-> Blank] \in SentReply(relayed)
    BY <1>0, <1>2, FreshPieces DEF SentReply, Reply, Blank
  <2>2. replies' \in Seq(SentReply(relayed))
    BY <2>1, QueueAppend
  <2> QED
    BY <1>1, <2>2
<1> QED
  BY <1>3, <1>4

LEMMA SentCallback == TypeOK /\ SentInv /\ Callback => SentInv'
<1> SUFFICES ASSUME TypeOK, SentInv, Callback PROVE SentInv'
  OBVIOUS
<1>0. Plain \subseteq Msg /\ Plain \cap Media = {} /\ Plain \cap Saved = {}
  BY MessageAssumption DEF Plain, Msg
<1>t. outgoing \in [Msg -> MaybeStatus] /\ shown \in [Msg -> MaybeStatus]
  BY DEF TypeOK, CacheTypes, ViewTypes
<1>r. replies # <<>> /\ Head(replies) \in SentReply(relayed)
      /\ replies' \in Seq(SentReply(relayed))
  BY QueueHead DEF SentInv, Callback, NextReply, OnSaved, OnSaveFailed, OnAnswered, OnSeen,
                  OnFound, OnLoaded
<1> USE <1>0, <1>t, <1>r DEF gui, timer, media, net, view, SentInv, SentOnlyAfterRelay
<1>1. CASE OnSaved
  BY <1>1 DEF OnSaved, Show, Plain
<1>2. CASE OnSaveFailed
  BY <1>2 DEF OnSaveFailed, Show, Plain
<1>3. CASE OnAnswered
  <2>1. Head(replies).job \in Job /\ Head(replies).job.op = "answer"
    BY <1>3 DEF OnAnswered, NextReply, SentReply, Reply
  <2>2. Head(replies).job.status # "sent"
    BY <2>1, JobFields
  <2> QED
    BY <1>3, <2>2 DEF OnAnswered, Show, Plain
<1>4. CASE OnSeen
  BY <1>4 DEF OnSeen, Show, Plain
<1>5. CASE OnFound
  <2> USE <1>5 DEF OnFound
  <2>1. ReplyMsg \in Msg
    BY NextReplyTypes
  <2>2. CASE ExecuteRetry(ReplyMsg)
    BY <2>1, <2>2, SentExecuteRetry
  <2>3. CASE UNCHANGED <<gui, timer, jobs, requests, shown>>
    BY <2>3
  <2> QED
    BY <2>2, <2>3
<1>6. CASE OnLoaded
  <2> USE <1>6 DEF OnLoaded
  <2>1. jobs' \in Seq(SentJob(relayed))
    BY SentConstructors, QueueAppend
  <2>2. SentOnlyAfterRelay'
    BY DEF SentReply, Plain
  <2> QED
    BY <2>1, <2>2
<1> QED
  BY <1>1, <1>2, <1>3, <1>4, <1>5, <1>6 DEF Callback

LEMMA SentRestart == TypeOK /\ SentInv /\ Restart => SentInv'
<1> SUFFICES ASSUME TypeOK, SentInv, Restart PROVE SentInv'
  OBVIOUS
<1>0. Plain \subseteq Msg
  BY DEF Plain, Msg
<1>1. relayed \subseteq relayed'
  BY DEF Restart
<1>2. jobs' \in Seq(SentJob(relayed')) /\ replies' \in Seq(SentReply(relayed'))
  BY EmptySeq DEF Restart
<1>3. SentOnlyAfterRelay'
  BY <1>0, <1>1 DEF Restart, SentInv, SentOnlyAfterRelay, Blank, Plain
<1> QED
  BY <1>0, <1>1, <1>2, <1>3 DEF Restart, SentInv, media

LEMMA SentStep == TypeOK /\ SentInv /\ [Next]_vars => SentInv'
<1>1. ASSUME SentInv, UNCHANGED vars PROVE SentInv'
  BY <1>1 DEF vars, gui, timer, media, store, net, view, SentInv, SentOnlyAfterRelay
<1> QED
  BY <1>1, SentUser, SentPeer, SentRelay, SentWorker, SentCallback, SentRestart DEF Next

(* For every set of messages and every bound: no text and no offer is      *)
(* "sent" in the cache, in the view or in the database before the relay    *)
(* has accepted it, whatever is retried, lost, loaded or restarted.        *)
THEOREM SentCorrect == Spec => []SentOnlyAfterRelay
<1>1. Spec => []SentInv
  BY TypeInit, TypeStep, SentInit, SentStep, PTL DEF Spec
<1>2. SentInv => SentOnlyAfterRelay
  BY DEF SentInv
<1> QED
  BY <1>1, <1>2, PTL

-----------------------------------------------------------------------------
(* No text reaches the relay before it is in the local database.  The      *)
(* strengthening adds what a retry and a callback rely on: a text that is  *)
(* displayed as failed, that a finished save or lookup is about, or that a *)
(* page contains, has been stored (or its statement has failed).           *)

DirectText == Text \ Saved

StoredSet == {m \in Msg : rows[m] # "none" \/ m \in faulted}

StoredReply(Q) ==
  {reply \in Reply : \A m \in DirectText :
     \/ reply.rows[m] # "none"
     \/ m \in reply.job.msgs /\ reply.job.op = "save"
     \/ m \in reply.job.msgs /\ reply.job.op = "find" /\ reply.ok
     => m \in Q}

DurableInv ==
  /\ \A m \in DirectText :
       requests[m] > 0 \/ responses[m] > 0 \/ m \in relayed \/ shown[m] = "failed"
       => m \in StoredSet
  /\ replies \in Seq(StoredReply(StoredSet))

LEMMA StoredMonotonic ==
  ASSUME NEW Q, NEW T, Q \cap DirectText \subseteq T
  PROVE  StoredReply(Q) \subseteq StoredReply(T)
BY DEF StoredReply

(* Nothing but an INSERT, an UPDATE or a failure changes a text's row, and *)
(* none of them makes it disappear.                                        *)
LEMMA StoredGrows ==
  ASSUME TypeOK, [Next]_vars
  PROVE  StoredSet \cap DirectText \subseteq StoredSet'
<1> SUFFICES ASSUME NEW m \in DirectText, m \in StoredSet PROVE m \in StoredSet'
  OBVIOUS
<1>1. m \in Msg /\ m \notin Request
  BY MessageAssumption DEF DirectText, Msg
<1>2. CASE WorkerStep
  <2>1. Head(jobs) \in Job
    BY <1>2, QueueHead DEF WorkerStep, TypeOK, QueueTypes
  <2>2. faulted' = faulted /\ rows' = After(Head(jobs))
    BY <1>2 DEF WorkerStep
  <2>3. rows[m] # "none" => rows'[m] # "none"
    BY <1>1, <2>1, <2>2, JobFields DEF After, Status
  <2> QED
    BY <1>1, <2>2, <2>3 DEF StoredSet
<1>3. CASE WorkerFault
  BY <1>1, <1>3 DEF WorkerFault, StoredSet
<1>4. CASE ~WorkerStep /\ ~WorkerFault
  <2>1. rows' = rows /\ faulted' = faulted
    BY <1>4 DEF Next, vars, User, Peer, Callback, Outcome, gui, timer, media, store, net, view,
       SendMessage, SendMediaRequest, Cancel, Retry, OpenConversation, TimerDone, RelayAccepts,
       DeliverySucceeded, DeliveryFailed, SeenReceipt, MediaAccept, LateAccept, MediaDecline,
       OnSaved, OnSaveFailed, OnAnswered, OnSeen, OnFound, OnLoaded, Restart
  <2> QED
    BY <2>1 DEF StoredSet
<1> QED
  BY <1>2, <1>3, <1>4

LEMMA DurableInit == Init => DurableInv
BY EmptySeq, MessageAssumption DEF Init, DurableInv, Blank, DirectText, Msg

(* A step that neither consumes nor produces a reply, and that gives only  *)
(* stored texts a request, an answer, a relayed copy or a failed bubble.   *)
LEMMA DurableQuiet ==
  ASSUME TypeOK, DurableInv, [Next]_vars, replies' = replies,
         \A m \in DirectText :
           requests'[m] > 0 \/ responses'[m] > 0 \/ m \in relayed' \/ shown'[m] = "failed"
           => m \in StoredSet
  PROVE  DurableInv'
<1>1. StoredReply(StoredSet) \subseteq StoredReply(StoredSet')
  BY StoredGrows, StoredMonotonic
<1>2. replies' \in Seq(StoredReply(StoredSet'))
  BY <1>1, SeqMonotonic DEF DurableInv
<1>3. \A m \in DirectText : m \in StoredSet => m \in StoredSet'
  BY StoredGrows
<1> QED
  BY <1>2, <1>3 DEF DurableInv

LEMMA DurableExecuteRetry ==
  ASSUME TypeOK, DurableInv, NEW n \in Msg, ExecuteRetry(n),
         n \in DirectText => n \in StoredSet,
         responses' = responses, relayed' = relayed
  PROVE  \A m \in DirectText :
           requests'[m] > 0 \/ responses'[m] > 0 \/ m \in relayed' \/ shown'[m] = "failed"
           => m \in StoredSet
<1>0. DirectText \subseteq Msg /\ requests \in [Msg -> Nat] /\ shown \in [Msg -> MaybeStatus]
  BY DEF DirectText, Msg, TypeOK, NetTypes, ViewTypes
<1>1. shown' = Show({n}, "sent") \/ shown' = Show({n}, "sending")
  BY DEF ExecuteRetry
<1>2. \A m \in DirectText : shown'[m] = "failed" => shown[m] = "failed"
  BY <1>0, <1>1 DEF Show
<1>3. \A m \in DirectText : requests'[m] > 0 => requests[m] > 0 \/ m = n
  BY <1>0 DEF ExecuteRetry
<1> QED
  BY <1>2, <1>3 DEF DurableInv

LEMMA DurableUser == TypeOK /\ DurableInv /\ User => DurableInv'
<1> SUFFICES ASSUME TypeOK, DurableInv, User PROVE DurableInv'
  OBVIOUS
<1>n. [Next]_vars
  BY DEF Next
<1>0. DirectText \subseteq Msg /\ DirectText \cap Media = {}
      /\ shown \in [Msg -> MaybeStatus]
  BY MessageAssumption DEF DirectText, Msg, TypeOK, ViewTypes
<1> DEFINE Kept == \A m \in DirectText :
             requests'[m] > 0 \/ responses'[m] > 0 \/ m \in relayed' \/ shown'[m] = "failed"
             => m \in StoredSet
<1> SUFFICES replies' = replies /\ Kept
  BY <1>n, DurableQuiet
<1> USE <1>0 DEF gui, timer, media, store, net, view, DurableInv
<1>1. ASSUME NEW n \in Text \cup Media, SendMessage(n) PROVE replies' = replies /\ Kept
  BY <1>1 DEF SendMessage, ShowNew, FirstStatus
<1>2. ASSUME NEW r \in Request, SendMediaRequest(r) PROVE replies' = replies /\ Kept
  BY <1>2 DEF SendMediaRequest, ShowNew
<1>3. ASSUME NEW n \in Media, Cancel(n) PROVE replies' = replies /\ Kept
  BY <1>3 DEF Cancel, Show
<1>4. ASSUME NEW n \in Msg, Retry(n) PROVE replies' = replies /\ Kept
  <2> USE <1>4 DEF Retry
  <2>1. CASE ExecuteRetry(n)
    BY <2>1, DurableExecuteRetry
  <2>2. CASE jobs' = Append(jobs, FindJob(n)) /\ UNCHANGED <<gui, timer, requests, shown>>
    BY <2>2
  <2> QED
    BY <2>1, <2>2
<1>5. ASSUME NEW C \in {Direct, Notes}, OpenConversation(C) PROVE replies' = replies /\ Kept
  BY <1>5 DEF OpenConversation, Blank
<1> QED
  BY <1>1, <1>2, <1>3, <1>4, <1>5 DEF User

LEMMA DurableOthers ==
  TypeOK /\ DurableInv
  /\ (\/ Peer
      \/ \E m \in Media : TimerDone(m)
      \/ \E m \in Msg : RelayAccepts(m) \/ Outcome(m)) => DurableInv'
<1> SUFFICES ASSUME TypeOK, DurableInv,
                    \/ Peer
                    \/ \E m \in Media : TimerDone(m)
                    \/ \E m \in Msg : RelayAccepts(m) \/ Outcome(m)
             PROVE  DurableInv'
  OBVIOUS
<1>n. [Next]_vars
  BY DEF Next
<1>0. DirectText \subseteq Msg /\ DirectText \cap Media = {}
      /\ shown \in [Msg -> MaybeStatus] /\ requests \in [Msg -> Nat] /\ responses \in [Msg -> Nat]
  BY MessageAssumption DEF DirectText, Msg, TypeOK, ViewTypes, NetTypes
<1> DEFINE Kept == \A m \in DirectText :
             requests'[m] > 0 \/ responses'[m] > 0 \/ m \in relayed' \/ shown'[m] = "failed"
             => m \in StoredSet
<1> SUFFICES replies' = replies /\ Kept
  BY <1>n, DurableQuiet
<1> USE <1>0 DEF gui, timer, media, store, net, view, DurableInv
<1>1. ASSUME NEW target, SeenReceipt(target) PROVE replies' = replies /\ Kept
  BY <1>1 DEF SeenReceipt
<1>2. ASSUME NEW r \in Request, NEW p \in Media, MediaAccept(r, p)
      PROVE  replies' = replies /\ Kept
  BY <1>2 DEF MediaAccept, ShowNew
<1>3. ASSUME NEW r \in Request, LateAccept(r) PROVE replies' = replies /\ Kept
  BY <1>3 DEF LateAccept
<1>4. ASSUME NEW r \in Request, MediaDecline(r) PROVE replies' = replies /\ Kept
  BY <1>4 DEF MediaDecline
<1>5. ASSUME NEW n \in Media, TimerDone(n) PROVE replies' = replies /\ Kept
  BY <1>5 DEF TimerDone, Show
<1>6. ASSUME NEW n \in Msg, RelayAccepts(n) PROVE replies' = replies /\ Kept
  BY <1>6 DEF RelayAccepts
<1>7. ASSUME NEW n \in Msg, DeliverySucceeded(n) PROVE replies' = replies /\ Kept
  BY <1>7 DEF DeliverySucceeded, Show
<1>8. ASSUME NEW n \in Msg, DeliveryFailed(n) PROVE replies' = replies /\ Kept
  BY <1>8 DEF DeliveryFailed, Show
<1> QED
  BY <1>1, <1>2, <1>3, <1>4, <1>5, <1>6, <1>7, <1>8 DEF Peer, Outcome

LEMMA DurableWorker == TypeOK /\ DurableInv /\ (WorkerStep \/ WorkerFault) => DurableInv'
<1> SUFFICES ASSUME TypeOK, DurableInv, WorkerStep \/ WorkerFault PROVE DurableInv'
  OBVIOUS
<1>n. [Next]_vars
  BY DEF Next
<1>0. DirectText \subseteq Msg /\ rows \in [Msg -> MaybeStatus]
  BY DEF DirectText, Msg, TypeOK, StoreTypes
<1>1. jobs # <<>> /\ Head(jobs) \in Job
  BY QueueHead DEF WorkerStep, WorkerFault, TypeOK, QueueTypes
<1>2. replies \in Seq(StoredReply(StoredSet'))
  BY <1>n, StoredGrows, StoredMonotonic, SeqMonotonic DEF DurableInv
<1>3. \A m \in DirectText : m \in StoredSet => m \in StoredSet'
  BY <1>n, StoredGrows
<1>4. requests' = requests /\ responses' = responses /\ relayed' = relayed /\ shown' = shown
  BY DEF WorkerStep, WorkerFault, net, view
<1>5. replies' \in Seq(StoredReply(StoredSet'))
  <2>1. CASE WorkerStep
    <3>1. rows' = After(Head(jobs)) /\ faulted' = faulted
      BY <2>1 DEF WorkerStep
    <3> DEFINE ok == Head(jobs).op = "find" => \A m \in Head(jobs).msgs : rows[m] # "none"
               new == [job |-> Head(jobs), rows |-> Selected(Head(jobs)), ok |-> ok]
    <3>2. new \in Reply
      BY <1>1, HelperTypes DEF Reply
    <3>3. \A m \in DirectText : Selected(Head(jobs))[m] # "none" => m \in StoredSet
      BY <1>0 DEF Selected, StoredSet
    <3>4. \A m \in DirectText :
            m \in Head(jobs).msgs /\ Head(jobs).op = "save" => m \in StoredSet'
      <4> SUFFICES ASSUME NEW m \in DirectText, m \in Head(jobs).msgs, Head(jobs).op = "save"
                   PROVE  m \in StoredSet'
        OBVIOUS
      <4>1. rows'[m] # "none"
        BY <1>0, <1>1, <3>1, JobFields DEF After, Status
      <4> QED
        BY <1>0, <4>1 DEF StoredSet
    <3>5. \A m \in DirectText :
            m \in Head(jobs).msgs /\ Head(jobs).op = "find" /\ ok => m \in StoredSet
      BY <1>0 DEF StoredSet
    <3>6. new \in StoredReply(StoredSet')
      BY <1>3, <3>2, <3>3, <3>4, <3>5 DEF StoredReply
    <3>7. replies' = replies \/ replies' = Append(replies, new)
      BY <2>1 DEF WorkerStep
    <3> QED
      <4> HIDE DEF new
      <4> QED
        BY <1>2, <3>6, <3>7, QueueAppend
  <2>2. CASE WorkerFault
    <3> DEFINE new == [job |-> Head(jobs), ok |-> FALSE, rows |-> Blank]
    <3>1. new \in Reply
      BY <1>1, FreshPieces DEF Reply
    <3>2. \A m \in DirectText :
            m \in Head(jobs).msgs /\ Head(jobs).op = "save" => m \in StoredSet'
      BY <1>0, <2>2 DEF WorkerFault, StoredSet
    <3>3. new \in StoredReply(StoredSet')
      BY <1>0, <3>1, <3>2 DEF StoredReply, Blank
    <3>4. replies' = replies \/ replies' = Append(replies, new)
      BY <2>2 DEF WorkerFault
    <3> QED
      <4> HIDE DEF new
      <4> QED
        BY <1>2, <3>3, <3>4, QueueAppend
  <2> QED
    BY <2>1, <2>2
<1> QED
  BY <1>3, <1>4, <1>5 DEF DurableInv

LEMMA DurableCallback == TypeOK /\ DurableInv /\ Callback => DurableInv'
<1> SUFFICES ASSUME TypeOK, DurableInv, Callback PROVE DurableInv'
  OBVIOUS
<1>0. DirectText \subseteq Msg /\ DirectText \cap Media = {}
      /\ shown \in [Msg -> MaybeStatus] /\ requests \in [Msg -> Nat]
  BY MessageAssumption DEF DirectText, Msg, TypeOK, ViewTypes, NetTypes
<1>1. Head(replies) \in StoredReply(StoredSet)
      /\ replies' \in Seq(StoredReply(StoredSet))
  BY QueueHead DEF DurableInv, Callback, NextReply, OnSaved, OnSaveFailed, OnAnswered, OnSeen,
                  OnFound, OnLoaded
<1>2. StoredSet' = StoredSet
  BY DEF StoredSet, Callback, OnSaved, OnSaveFailed, OnAnswered, OnSeen, OnFound, OnLoaded
<1> DEFINE Kept == \A m \in DirectText :
             requests'[m] > 0 \/ responses'[m] > 0 \/ m \in relayed' \/ shown'[m] = "failed"
             => m \in StoredSet
<1> SUFFICES Kept
  BY <1>1, <1>2 DEF DurableInv
<1> USE <1>0, <1>1 DEF gui, timer, media, net, view, DurableInv
<1>3. CASE OnSaved
  <2> USE <1>3 DEF OnSaved
  <2>1. ReplyMsg \in Msg /\ ReplyMsg \in Head(replies).job.msgs
    BY NextReplyTypes
  <2>2. ReplyMsg \in DirectText => ReplyMsg \in StoredSet
    BY <2>1 DEF NextReply, StoredReply
  <2> QED
    BY <2>1, <2>2 DEF Show
<1>4. CASE OnSaveFailed
  <2> USE <1>4 DEF OnSaveFailed
  <2>1. ReplyMsg \in Msg /\ ReplyMsg \in Head(replies).job.msgs
    BY NextReplyTypes
  <2>2. ReplyMsg \in DirectText => ReplyMsg \in StoredSet
    BY <2>1 DEF NextReply, StoredReply
  <2> QED
    BY <2>1, <2>2 DEF Show
<1>5. CASE OnAnswered
  <2>1. Head(replies).job \in Job /\ Head(replies).job.op = "answer"
    BY <1>5 DEF OnAnswered, NextReply, StoredReply, Reply
  <2>2. Head(replies).job.status # "failed"
    BY <2>1, JobFields
  <2> QED
    BY <1>5, <2>2 DEF OnAnswered, Show
<1>6. CASE OnSeen
  BY <1>6 DEF OnSeen, Show
<1>7. CASE OnFound
  <2> USE <1>7 DEF OnFound
  <2>1. ReplyMsg \in Msg /\ ReplyMsg \in Head(replies).job.msgs
    BY NextReplyTypes
  <2>2. CASE Head(replies).ok /\ ExecuteRetry(ReplyMsg)
    <3>1. ReplyMsg \in DirectText => ReplyMsg \in StoredSet
      BY <2>1, <2>2 DEF NextReply, StoredReply
    <3> QED
      BY <2>1, <2>2, <3>1, DurableExecuteRetry
  <2>3. CASE UNCHANGED <<gui, timer, jobs, requests, shown>>
    BY <2>3
  <2> QED
    BY <2>2, <2>3
<1>8. CASE OnLoaded
  <2> USE <1>8 DEF OnLoaded
  <2>1. \A m \in DirectText : Head(replies).rows[m] # "none" => m \in StoredSet
    BY DEF StoredReply
  <2>2. \A m \in DirectText :
          shown'[m] = "failed" => Head(replies).rows[m] = "failed" \/ shown[m] = "failed"
    OBVIOUS
  <2> QED
    BY <2>1, <2>2
<1> QED
  BY <1>3, <1>4, <1>5, <1>6, <1>7, <1>8 DEF Callback

LEMMA DurableRestart == TypeOK /\ DurableInv /\ Restart => DurableInv'
<1> SUFFICES ASSUME TypeOK, DurableInv, Restart PROVE DurableInv'
  OBVIOUS
<1>1. StoredSet' = StoredSet /\ replies' = <<>>
  BY DEF Restart, StoredSet
<1>2. \A m \in DirectText :
        requests'[m] > 0 \/ responses'[m] > 0 \/ m \in relayed' \/ shown'[m] = "failed"
        => m \in StoredSet
  BY DEF Restart, DurableInv, Blank, DirectText, Msg
<1> QED
  BY <1>1, <1>2, EmptySeq DEF DurableInv

LEMMA DurableStep == TypeOK /\ DurableInv /\ [Next]_vars => DurableInv'
<1>1. ASSUME DurableInv, UNCHANGED vars PROVE DurableInv'
  BY <1>1 DEF vars, store, net, view, DurableInv, StoredSet
<1> QED
  BY <1>1, DurableUser, DurableOthers, DurableWorker, DurableCallback, DurableRestart DEF Next

(* For every set of messages and every bound: a text handed to the relay   *)
(* is in the local database, across retries, lost answers and restarts,    *)
(* unless one of its own SQL statements failed.                            *)
THEOREM DurableCorrect == Spec => []DurableBeforeRelayed
<1>1. Spec => []DurableInv
  BY TypeInit, TypeStep, DurableInit, DurableStep, PTL DEF Spec
<1>2. DurableInv => DurableBeforeRelayed
  BY DEF DurableInv, DurableBeforeRelayed, StoredSet, DirectText
<1> QED
  BY <1>1, <1>2, PTL

-----------------------------------------------------------------------------
(* Once the worker has caught up, the table says what the cache says.      *)
(* The property speaks of the last statement about a message.  It is not   *)
(* inductive: an UPDATE changes nothing if the row is not there yet, so    *)
(* the strengthening adds that a cached message has its row or an INSERT   *)
(* in the queue, and that a finished lookup found a row that stays.        *)

Writes(job, m) == m \in job.msgs /\ job.op \notin {"find", "load"}

(* With the jobs q ahead and row in the table, m ends in a status of P.    *)
EndsIn(q, m, row, P) ==
  /\ (\A i \in DOMAIN q : ~Writes(q[i], m)) => row \in P
  /\ \A i \in DOMAIN q :
       Writes(q[i], m) /\ (\A j \in DOMAIN q : Writes(q[j], m) => j <= i) => q[i].status \in P

Agreeing(m, s) ==
  {s, "seen", "accepted", "declined"} \cup (IF m \in Request THEN {"none"} ELSE {})

Agree(cache, q) ==
  \A m \in Msg : cache[m] # "none" /\ m \notin faulted =>
    /\ EndsIn(q, m, rows[m], Agreeing(m, cache[m]))
    /\ m \notin Request => rows[m] # "none" \/ Inserts(q, m)

FoundReply ==
  {reply \in Reply : reply.job.op = "find" /\ reply.ok =>
                       \A m \in reply.job.msgs \ Request : rows[m] # "none"}

StoreInv == Agree(outgoing, jobs) /\ replies \in Seq(FoundReply)

LEMMA AppendItems ==
  ASSUME NEW q \in Seq(Job), NEW job \in Job
  PROVE  /\ Append(q, job) \in Seq(Job)
         /\ DOMAIN Append(q, job) = DOMAIN q \cup {Len(q) + 1}
         /\ Append(q, job)[Len(q) + 1] = job
         /\ \A i \in DOMAIN q : Append(q, job)[i] = q[i] /\ i < Len(q) + 1
         /\ Len(q) \in Nat /\ DOMAIN q = 1 .. Len(q)
  OBVIOUS

LEMMA TailItems ==
  ASSUME NEW S, NEW q \in Seq(S), q # <<>>
  PROVE  /\ Tail(q) \in Seq(S) /\ Head(q) = q[1] /\ Head(q) \in S /\ 1 \in DOMAIN q
         /\ DOMAIN q = 1 .. Len(q) /\ Len(q) \in Nat /\ Len(q) > 0
         /\ DOMAIN Tail(q) = 1 .. (Len(q) - 1)
         /\ \A i \in DOMAIN Tail(q) : Tail(q)[i] = q[i + 1] /\ i + 1 \in DOMAIN q
         /\ \A i \in DOMAIN q : i # 1 => i - 1 \in DOMAIN Tail(q) /\ Tail(q)[i - 1] = q[i]
  OBVIOUS

(* A job that sets the status has the last word; another changes nothing.  *)
LEMMA EndsAppend ==
  ASSUME NEW q \in Seq(Job), NEW job \in Job, NEW m, NEW row, NEW P,
         IF Writes(job, m) THEN job.status \in P ELSE EndsIn(q, m, row, P)
  PROVE  EndsIn(Append(q, job), m, row, P)
<1> DEFINE qq == Append(q, job)
           n  == Len(q) + 1
<1>1. /\ DOMAIN qq = DOMAIN q \cup {n} /\ qq[n] = job
      /\ \A i \in DOMAIN q : qq[i] = q[i] /\ i < n /\ ~(n <= i)
      /\ n \in DOMAIN qq
  BY AppendItems
<1> HIDE DEF qq, n
<1>2. CASE Writes(job, m)
  BY <1>1, <1>2 DEF EndsIn, qq
<1>3. CASE ~Writes(job, m)
  BY <1>1, <1>3 DEF EndsIn, qq
<1> QED
  BY <1>2, <1>3

(* The head leaves the queue and, if it was the last word, becomes the row.*)
LEMMA EndsTail ==
  ASSUME NEW q \in Seq(Job), q # <<>>, NEW m, NEW row, NEW new, NEW P, EndsIn(q, m, row, P),
         ~Writes(Head(q), m) => new = row,
         Writes(Head(q), m) /\ (\A i \in DOMAIN q : Writes(q[i], m) => i = 1)
           => new = Head(q).status
  PROVE  EndsIn(Tail(q), m, new, P)
<1>1. /\ Head(q) = q[1] /\ 1 \in DOMAIN q
      /\ \A i \in DOMAIN q : i # 1 => i - 1 \in DOMAIN Tail(q) /\ Tail(q)[i - 1] = q[i]
      /\ \A i \in DOMAIN Tail(q) : Tail(q)[i] = q[i + 1] /\ i + 1 \in DOMAIN q
      /\ \A i \in DOMAIN q : i \in Nat /\ i >= 1
      /\ \A i \in DOMAIN Tail(q) : i \in Nat /\ i >= 1
  BY TailItems
<1>2. ASSUME \A i \in DOMAIN Tail(q) : ~Writes(Tail(q)[i], m) PROVE new \in P
  <2>1. \A i \in DOMAIN q : Writes(q[i], m) => i = 1
    BY <1>1, <1>2
  <2>2. CASE Writes(Head(q), m)
    BY <1>1, <2>1, <2>2 DEF EndsIn
  <2>3. CASE ~Writes(Head(q), m)
    BY <1>1, <2>1, <2>3 DEF EndsIn
  <2> QED
    BY <2>2, <2>3
<1>3. ASSUME NEW i \in DOMAIN Tail(q), Writes(Tail(q)[i], m),
             \A j \in DOMAIN Tail(q) : Writes(Tail(q)[j], m) => j <= i
      PROVE  Tail(q)[i].status \in P
  <2>1. i + 1 \in DOMAIN q /\ q[i + 1] = Tail(q)[i] /\ Writes(q[i + 1], m)
    BY <1>1, <1>3
  <2>2. ASSUME NEW j \in DOMAIN q, Writes(q[j], m) PROVE j <= i + 1
    <3>1. j # 1 => j - 1 <= i
      BY <1>1, <1>3, <2>2
    <3> QED
      BY <1>1, <3>1
  <2> QED
    BY <2>1, <2>2 DEF EndsIn
<1> QED
  BY <1>2, <1>3 DEF EndsIn

(* A handler that queues job and changes the cache along with it.          *)
LEMMA AgreeAppend ==
  ASSUME NEW cache, NEW new, NEW q \in Seq(Job), NEW job \in Job, Agree(cache, q),
         \A m \in Msg : new[m] # "none" /\ m \notin faulted =>
           /\ IF Writes(job, m) THEN job.status \in Agreeing(m, new[m]) ELSE new[m] = cache[m]
           /\ \/ m \in Request \/ cache[m] # "none" \/ rows[m] # "none"
              \/ job.op = "save" /\ m \in job.msgs
  PROVE  Agree(new, Append(q, job))
<1> SUFFICES ASSUME NEW m \in Msg, new[m] # "none", m \notin faulted
             PROVE  /\ EndsIn(Append(q, job), m, rows[m], Agreeing(m, new[m]))
                    /\ m \notin Request => rows[m] # "none" \/ Inserts(Append(q, job), m)
  BY DEF Agree
<1>1. EndsIn(Append(q, job), m, rows[m], Agreeing(m, new[m]))
  BY EndsAppend DEF Agree
<1>2. \/ m \in Request \/ rows[m] # "none" \/ Inserts(q, m)
      \/ job.op = "save" /\ m \in job.msgs
  BY DEF Agree
<1>3. Inserts(q, m) \/ (job.op = "save" /\ m \in job.msgs) => Inserts(Append(q, job), m)
  BY AppendItems DEF Inserts
<1> QED
  BY <1>1, <1>2, <1>3

(* Statements that need no change of the cache: the peer's last word, an   *)
(* offer that is deleted, a SELECT.                                        *)
LEMMA AgreeNeutral ==
  ASSUME TypeOK, NEW q \in Seq(Job), Agree(outgoing, q), NEW job \in Job,
         \/ job.op \in {"answer", "seen", "delete", "find", "load"}
         \/ job.op = "update" /\ job.status = "seen"
  PROVE  Agree(outgoing, Append(q, job))
<1>1. job.op = "delete" => job.msgs \subseteq Request /\ job.status = "none"
  BY DEF Job
<1>2. job.op \in {"answer", "seen"} => job.status \in {"accepted", "declined", "seen"}
  BY JobFields
<1> QED
  BY <1>1, <1>2, AgreeAppend DEF Writes, Agreeing

(* The status an UPDATE or an INSERT of m carries is the one it caches.    *)
LEMMA AgreeStatus ==
  ASSUME TypeOK, Agree(outgoing, jobs), NEW n \in Msg, NEW s \in Status,
         NEW cache \in {outgoing, [outgoing EXCEPT ![n] = s]},
         cache[n] = s \/ cache[n] = "none",
         NEW op \in {"save", "update"},
         op = "save" \/ cache[n] = "none" \/ outgoing[n] # "none" \/ n \in Request \/ rows[n] # "none"
  PROVE  Agree(cache, Append(jobs, [op |-> op, msgs |-> {n}, status |-> s]))
<1> DEFINE job == [op |-> op, msgs |-> {n}, status |-> s]
<1>1. job \in Job
  BY DEF Job
<1>2. \A m \in Msg : m # n => cache[m] = outgoing[m]
  BY DEF TypeOK, CacheTypes
<1>3. \A m \in Msg : Writes(job, m) <=> m = n
  BY DEF Writes
<1>4. job.op = op /\ job.msgs = {n} /\ job.status = s
  OBVIOUS
<1>5. jobs \in Seq(Job)
  BY DEF TypeOK, QueueTypes
<1> HIDE DEF job
<1>6. ASSUME NEW m \in Msg, cache[m] # "none", m \notin faulted
      PROVE  /\ IF Writes(job, m) THEN job.status \in Agreeing(m, cache[m])
                ELSE cache[m] = outgoing[m]
             /\ \/ m \in Request \/ outgoing[m] # "none" \/ rows[m] # "none"
                \/ job.op = "save" /\ m \in job.msgs
  BY <1>2, <1>3, <1>4, <1>6 DEF Agreeing
<1>7. Agree(cache, Append(jobs, job))
  BY <1>1, <1>5, <1>6, AgreeAppend
<1> QED
  BY <1>7 DEF job

LEMMA StoreFrame ==
  ASSUME rows' = rows, faulted' = faulted, Agree(outgoing', jobs'), replies' \in Seq(FoundReply)
  PROVE  StoreInv'
<1>1. Agree(outgoing, jobs)'
  BY DEF Agree, Agreeing, EndsIn, Inserts, Writes
<1>2. FoundReply' = FoundReply
  BY DEF FoundReply
<1> QED
  BY <1>1, <1>2 DEF StoreInv

LEMMA StoreInit == Init => StoreInv
BY EmptySeq DEF Init, StoreInv, Agree, Blank

LEMMA StoreExecuteRetry ==
  ASSUME TypeOK, Agree(outgoing, jobs), NEW n \in Msg, ExecuteRetry(n),
         outgoing[n] # "none" \/ n \in Request \/ rows[n] # "none"
  PROVE  Agree(outgoing', jobs')
<1>1. PICK s \in {"sent", "sending"} :
        outgoing' = [outgoing EXCEPT ![n] = s] /\ jobs' = Append(jobs, UpdateJob(n, s))
  BY DEF ExecuteRetry
<1>2. outgoing'[n] = s /\ s \in Status
  BY <1>1 DEF TypeOK, CacheTypes, Status
<1> QED
  BY <1>1, <1>2, AgreeStatus DEF UpdateJob

(* A change of status in the cache, if the message is there, and the same  *)
(* one queued.                                                             *)
LEMMA StoreStatus ==
  ASSUME TypeOK, StoreInv, NEW n \in Msg, NEW s \in Status,
         outgoing' = Cache(n, s), jobs' = Append(jobs, UpdateJob(n, s))
  PROVE  Agree(outgoing', jobs')
<1>1. Cache(n, s) \in {outgoing, [outgoing EXCEPT ![n] = s]}
  BY DEF Cache
<1>2. Cache(n, s)[n] \in {s, "none"} /\ (Cache(n, s)[n] # "none" => outgoing[n] # "none")
  BY DEF Cache, TypeOK, CacheTypes
<1> QED
  BY <1>1, <1>2, AgreeStatus DEF UpdateJob, StoreInv

LEMMA StoreUser == TypeOK /\ StoreInv /\ User => StoreInv'
<1> SUFFICES ASSUME TypeOK, StoreInv, User PROVE StoreInv'
  OBVIOUS
<1>a. Agree(outgoing, jobs) /\ replies \in Seq(FoundReply)
  BY DEF StoreInv
<1>b. outgoing \in [Msg -> MaybeStatus] /\ jobs \in Seq(Job)
  BY DEF TypeOK, CacheTypes, QueueTypes
<1>c. Text \cup Media \subseteq Msg /\ Request \subseteq Msg
  BY DEF Msg
<1> SUFFICES rows' = rows /\ faulted' = faulted /\ replies' = replies /\ Agree(outgoing', jobs')
  BY <1>a, StoreFrame
<1> USE DEF gui, timer, media, store, net, view
<1>1. ASSUME NEW n \in Text \cup Media, SendMessage(n) PROVE Agree(outgoing', jobs')
  <2>1. FirstStatus(n) \in Status
    BY DEF FirstStatus, Status
  <2>2. outgoing' = [outgoing EXCEPT ![n] = FirstStatus(n)] /\ outgoing'[n] = FirstStatus(n)
        /\ jobs' = Append(jobs, SaveJob(n, FirstStatus(n)))
    BY <1>1, <1>b, <1>c DEF SendMessage
  <2> QED
    BY <1>a, <1>c, <2>1, <2>2, AgreeStatus DEF SaveJob
<1>2. ASSUME NEW r \in Request, SendMediaRequest(r) PROVE Agree(outgoing', jobs')
  <2>1. outgoing' = [outgoing EXCEPT ![r] = "pending"] /\ outgoing'[r] = "pending"
        /\ jobs' = Append(jobs, SaveJob(r, "pending")) /\ "pending" \in Status
    BY <1>2, <1>b, <1>c DEF SendMediaRequest, Status
  <2> QED
    BY <1>a, <1>c, <2>1, AgreeStatus DEF SaveJob
<1>3. ASSUME NEW n \in Media, Cancel(n) PROVE Agree(outgoing', jobs')
  BY <1>3, <1>c, StoreStatus DEF Cancel, Status
<1>4. ASSUME NEW n \in Msg, Retry(n) PROVE Agree(outgoing', jobs')
  <2>1. CASE outgoing[n] # "none"
    BY <1>4, <1>a, <2>1, StoreExecuteRetry DEF Retry
  <2>2. CASE outgoing[n] = "none"
    <3>1. outgoing' = outgoing /\ jobs' = Append(jobs, FindJob(n))
      BY <1>4, <2>2 DEF Retry
    <3> QED
      BY <1>a, <1>b, <3>1, AgreeNeutral, JobConstructors DEF FindJob
  <2> QED
    BY <2>1, <2>2
<1>5. ASSUME NEW C \in {Direct, Notes}, OpenConversation(C) PROVE Agree(outgoing', jobs')
  <2>1. outgoing' = outgoing /\ jobs' = Append(jobs, LoadJob(C))
    BY <1>5 DEF OpenConversation
  <2> QED
    BY <1>a, <1>b, <2>1, AgreeNeutral, JobConstructors DEF LoadJob
<1>6. rows' = rows /\ faulted' = faulted /\ replies' = replies
  BY DEF User, SendMessage, SendMediaRequest, Cancel, Retry, OpenConversation
<1> QED
  BY <1>1, <1>2, <1>3, <1>4, <1>5, <1>6 DEF User

LEMMA StoreRelay ==
  TypeOK /\ StoreInv /\ (\/ \E m \in Media : TimerDone(m)
                         \/ \E m \in Msg : RelayAccepts(m) \/ Outcome(m)) => StoreInv'
<1> SUFFICES ASSUME TypeOK, StoreInv, \/ \E m \in Media : TimerDone(m)
                                      \/ \E m \in Msg : RelayAccepts(m) \/ Outcome(m)
             PROVE  StoreInv'
  OBVIOUS
<1>a. Agree(outgoing, jobs) /\ replies \in Seq(FoundReply)
  BY DEF StoreInv
<1> SUFFICES rows' = rows /\ faulted' = faulted /\ replies' = replies /\ Agree(outgoing', jobs')
  BY <1>a, StoreFrame
<1> USE DEF gui, timer, media, store, net, view
<1>1. ASSUME NEW n \in Media, TimerDone(n) PROVE Agree(outgoing', jobs')
  BY <1>1, StoreStatus DEF TimerDone, Status, Msg
<1>2. ASSUME NEW n \in Msg, RelayAccepts(n) PROVE Agree(outgoing', jobs')
  BY <1>2, <1>a DEF RelayAccepts
<1>3. ASSUME NEW n \in Msg, DeliverySucceeded(n) PROVE Agree(outgoing', jobs')
  <2>1. CASE UNCHANGED <<gui, jobs, shown>>
    BY <1>a, <2>1
  <2>2. CASE outgoing' = Cache(n, "sent") /\ jobs' = Append(jobs, UpdateJob(n, "sent"))
    BY <2>2, StoreStatus DEF Status
  <2> QED
    BY <1>3, <2>1, <2>2 DEF DeliverySucceeded
<1>4. ASSUME NEW n \in Msg, DeliveryFailed(n) PROVE Agree(outgoing', jobs')
  BY <1>4, StoreStatus DEF DeliveryFailed, Status
<1>5. rows' = rows /\ faulted' = faulted /\ replies' = replies
  BY DEF Outcome, TimerDone, RelayAccepts, DeliverySucceeded, DeliveryFailed
<1> QED
  BY <1>1, <1>2, <1>3, <1>4, <1>5 DEF Outcome

LEMMA ConcatIsAppend ==
  ASSUME NEW q \in Seq(Job), NEW a \in Job, NEW b \in Job, NEW c \in Job
  PROVE  /\ q \o <<a>> = Append(q, a)
         /\ q \o <<a, b>> = Append(Append(q, a), b)
         /\ q \o <<a, b, c>> = Append(Append(Append(q, a), b), c)
OBVIOUS

LEMMA StorePeer == TypeOK /\ StoreInv /\ Peer => StoreInv'
<1> SUFFICES ASSUME TypeOK, StoreInv, Peer PROVE StoreInv'
  OBVIOUS
<1>a. Agree(outgoing, jobs) /\ replies \in Seq(FoundReply)
  BY DEF StoreInv
<1>b. outgoing \in [Msg -> MaybeStatus] /\ jobs \in Seq(Job)
  BY DEF TypeOK, CacheTypes, QueueTypes
<1>c. Media \subseteq Msg /\ Request \subseteq Msg
  BY DEF Msg
<1> SUFFICES rows' = rows /\ faulted' = faulted /\ replies' = replies /\ Agree(outgoing', jobs')
  BY <1>a, StoreFrame
<1> USE DEF gui, timer, media, store, net, view
<1>1. ASSUME NEW target \in {{}} \cup {{m} : m \in Msg}, SeenReceipt(target)
      PROVE  Agree(outgoing', jobs')
  <2> DEFINE job == [op |-> "update", msgs |-> target, status |-> "seen"]
  <2>1. SeenJob \in Job /\ SeenJob.op = "seen"
    BY JobConstructors DEF SeenJob
  <2>2. CASE target = {}
    BY <1>1, <1>a, <1>b, <2>1, <2>2, AgreeNeutral, ConcatIsAppend DEF SeenReceipt
  <2>3. CASE target # {}
    <3>1. job \in Job /\ job.op = "update" /\ job.status = "seen"
      BY <2>3 DEF Job, Status
    <3>2. outgoing' = outgoing /\ jobs' = Append(jobs, job) \o <<SeenJob>>
      BY <1>1, <2>3 DEF SeenReceipt
    <3> HIDE DEF job
    <3>3. Agree(outgoing, Append(jobs, job)) /\ Append(jobs, job) \in Seq(Job)
      BY <1>a, <1>b, <3>1, AgreeNeutral, QueueAppend
    <3>4. jobs' = Append(Append(jobs, job), SeenJob)
      BY <2>1, <3>2, <3>3, ConcatIsAppend
    <3> QED
      BY <2>1, <3>2, <3>3, <3>4, AgreeNeutral
  <2> QED
    BY <2>2, <2>3
<1>2. ASSUME NEW r \in Request, NEW p \in Media, MediaAccept(r, p) PROVE Agree(outgoing', jobs')
  <2> DEFINE a == AnswerJob(r, "accepted")
             d == DeleteJob({r})
             v == SaveJob(p, "sending")
             q == Append(Append(jobs, a), d)
  <2>1. /\ a \in Job /\ a.op = "answer" /\ d \in Job /\ d.op = "delete" /\ v \in Job
        /\ v = [op |-> "save", msgs |-> {p}, status |-> "sending"]
    BY <1>c, JobConstructors DEF AnswerJob, DeleteJob, SaveJob, Status
  <2>2. outgoing' = [outgoing EXCEPT ![p] = "sending"] /\ jobs' = jobs \o <<a, d, v>>
    BY <1>2 DEF MediaAccept
  <2> HIDE DEF a, d, v
  <2>3. Agree(outgoing, Append(jobs, a)) /\ Append(jobs, a) \in Seq(Job)
    BY <1>a, <1>b, <2>1, AgreeNeutral, QueueAppend
  <2>4. Agree(outgoing, q) /\ q \in Seq(Job)
    BY <2>1, <2>3, AgreeNeutral, QueueAppend
  <2>5. jobs' = Append(q, v)
    BY <1>b, <2>1, <2>2, ConcatIsAppend
  <2> HIDE DEF q
  <2>6. outgoing'[p] = "sending" /\ \A m \in Msg : m # p => outgoing'[m] = outgoing[m]
    BY <1>b, <1>c, <2>2
  <2>7. v.op = "save" /\ v.msgs = {p} /\ v.status = "sending"
    BY <2>1
  <2>8. ASSUME NEW m \in Msg, outgoing'[m] # "none", m \notin faulted
        PROVE  /\ IF Writes(v, m) THEN v.status \in Agreeing(m, outgoing'[m])
                  ELSE outgoing'[m] = outgoing[m]
               /\ \/ m \in Request \/ outgoing[m] # "none" \/ rows[m] # "none"
                  \/ v.op = "save" /\ m \in v.msgs
    BY <2>6, <2>7, <2>8 DEF Writes, Agreeing
  <2> QED
    BY <2>1, <2>4, <2>5, <2>8, AgreeAppend
<1>3. ASSUME NEW r \in Request, LateAccept(r) PROVE Agree(outgoing', jobs')
  <2> DEFINE a == AnswerJob(r, "accepted")
             d == DeleteJob({r})
  <2>1. a \in Job /\ a.op = "answer" /\ d \in Job /\ d.op = "delete"
    BY JobConstructors DEF AnswerJob, DeleteJob
  <2>2. outgoing' = outgoing /\ jobs' = jobs \o <<a, d>>
    BY <1>3 DEF LateAccept
  <2> HIDE DEF a, d
  <2>3. Agree(outgoing, Append(jobs, a)) /\ Append(jobs, a) \in Seq(Job)
    BY <1>a, <1>b, <2>1, AgreeNeutral, QueueAppend
  <2>4. jobs' = Append(Append(jobs, a), d)
    BY <1>b, <2>1, <2>2, ConcatIsAppend
  <2> QED
    BY <2>1, <2>2, <2>3, <2>4, AgreeNeutral
<1>4. ASSUME NEW r \in Request, MediaDecline(r) PROVE Agree(outgoing', jobs')
  <2>1. outgoing' = outgoing /\ jobs' = Append(jobs, AnswerJob(r, "declined"))
        /\ AnswerJob(r, "declined").op = "answer" /\ AnswerJob(r, "declined") \in Job
    BY <1>4, JobConstructors DEF MediaDecline, AnswerJob
  <2> QED
    BY <1>a, <1>b, <2>1, AgreeNeutral
<1>5. rows' = rows /\ faulted' = faulted /\ replies' = replies
  BY DEF Peer, SeenReceipt, MediaAccept, LateAccept, MediaDecline
<1> QED
  BY <1>1, <1>2, <1>3, <1>4, <1>5 DEF Peer

(* A row of anything but an offer is there for good.                       *)
LEMMA RowsStay ==
  ASSUME TypeOK, NEW job \in Job, NEW m \in Msg \ Request, rows[m] # "none"
  PROVE  After(job)[m] # "none"
BY JobFields DEF After, Status, MaybeStatus

LEMMA StoreWorkerStep == TypeOK /\ StoreInv /\ WorkerStep => StoreInv'
<1> SUFFICES ASSUME TypeOK, StoreInv, WorkerStep PROVE StoreInv'
  OBVIOUS
<1> DEFINE job == Head(jobs)
<1>1. /\ jobs \in Seq(Job) /\ jobs # <<>> /\ job \in Job
      /\ jobs' = Tail(jobs) /\ rows' = After(job) /\ faulted' = faulted /\ outgoing' = outgoing
  BY QueueHead DEF WorkerStep, TypeOK, QueueTypes, gui
<1>2. \A m \in Msg \ Request : rows[m] # "none" => rows'[m] # "none"
  BY <1>1, RowsStay
<1>3. ASSUME NEW m \in Msg, outgoing[m] # "none", m \notin faulted
      PROVE  /\ EndsIn(jobs', m, rows'[m], Agreeing(m, outgoing[m]))
             /\ m \notin Request => rows'[m] # "none" \/ Inserts(jobs', m)
  <2>1. /\ EndsIn(jobs, m, rows[m], Agreeing(m, outgoing[m]))
        /\ m \notin Request => rows[m] # "none" \/ Inserts(jobs, m)
    BY <1>3 DEF StoreInv, Agree
  <2>2. m \notin Request => rows'[m] # "none" \/ Inserts(jobs', m)
    <3> SUFFICES ASSUME m \notin Request, Inserts(jobs, m), ~Inserts(jobs', m)
                 PROVE  rows'[m] # "none"
      BY <1>2, <2>1
    <3>1. PICK i \in DOMAIN jobs : jobs[i].op = "save" /\ m \in jobs[i].msgs
      BY DEF Inserts
    <3>2. i = 1 /\ job = jobs[1]
      <4>1. /\ job = jobs[1]
            /\ i # 1 => i - 1 \in DOMAIN jobs' /\ jobs'[i - 1] = jobs[i]
        BY <1>1, <3>1, TailItems
      <4> QED
        BY <3>1, <4>1 DEF Inserts
    <3>3. job.op = "save" /\ m \in job.msgs
      BY <3>1, <3>2
    <3> QED
      BY <1>1, <3>3, JobFields DEF After, Status
  <2>3. ~Writes(job, m) => rows'[m] = rows[m]
    BY <1>1 DEF After, Writes
  <2>4. ASSUME Writes(job, m), \A i \in DOMAIN jobs : Writes(jobs[i], m) => i = 1
        PROVE  rows'[m] = job.status \/ (m \in Request /\ rows'[m] = "none")
    <3>1. CASE job.op \in {"save", "delete"} \/ rows[m] # "none"
      BY <1>1, <2>4, <3>1 DEF After, Writes
    <3>2. CASE job.op \notin {"save", "delete"} /\ rows[m] = "none"
      <4>1. rows'[m] = "none"
        BY <1>1, <3>2 DEF After
      <4>2. \A i \in DOMAIN jobs : jobs[i].op = "save" /\ m \in jobs[i].msgs => i = 1
        BY <2>4 DEF Writes
      <4>3. ~Inserts(jobs, m)
        BY <1>1, <3>2, <4>2, TailItems DEF Inserts
      <4> QED
        BY <2>1, <3>2, <4>1, <4>3
    <3> QED
      BY <3>1, <3>2
  <2>5. CASE m \in Request /\ rows'[m] = "none" /\ Writes(job, m)
    <3>1. rows'[m] \in Agreeing(m, outgoing[m])
      BY <2>5 DEF Agreeing
    <3>2. EndsIn(jobs', m, job.status, Agreeing(m, outgoing[m]))
      BY <1>1, <2>1, <2>5, EndsTail
    <3> QED
      BY <2>2, <3>1, <3>2 DEF EndsIn
  <2>6. CASE ~(m \in Request /\ rows'[m] = "none" /\ Writes(job, m))
    <3>1. EndsIn(jobs', m, rows'[m], Agreeing(m, outgoing[m]))
      BY <1>1, <2>1, <2>3, <2>4, <2>6, EndsTail
    <3> QED
      BY <2>2, <3>1
  <2> QED
    BY <2>5, <2>6
<1>4. Agree(outgoing, jobs)'
  BY <1>1, <1>3 DEF Agree, Agreeing, EndsIn, Inserts, Writes
<1>5. replies' \in Seq(FoundReply')
  <2> DEFINE ok  == job.op = "find" => \A m \in job.msgs : rows[m] # "none"
             new == [job |-> job, rows |-> Selected(job), ok |-> ok]
  <2>1. FoundReply \subseteq FoundReply'
    <3> SUFFICES ASSUME NEW reply \in Reply, reply.job.op = "find" /\ reply.ok,
                        \A m \in reply.job.msgs \ Request : rows[m] # "none"
                 PROVE  \A m \in reply.job.msgs \ Request : rows'[m] # "none"
      BY DEF FoundReply
    <3>1. reply.job.msgs \subseteq Msg
      BY JobFields DEF Reply
    <3> QED
      BY <1>2, <3>1
  <2>2. replies \in Seq(FoundReply')
    BY <2>1, SeqMonotonic DEF StoreInv
  <2>3. new \in Reply
    BY <1>1, HelperTypes DEF Reply
  <2>4. job.msgs \subseteq Msg
    BY <1>1, JobFields
  <2>5. new \in FoundReply'
    BY <1>2, <2>3, <2>4 DEF FoundReply
  <2>6. replies' = replies \/ replies' = Append(replies, new)
    BY DEF WorkerStep
  <2> HIDE DEF new
  <2> QED
    BY <2>2, <2>5, <2>6, QueueAppend
<1> QED
  BY <1>4, <1>5 DEF StoreInv

(* A statement that fails leaves the rows, and those it was about are no   *)
(* longer spoken of.                                                       *)
LEMMA StoreWorkerFault == TypeOK /\ StoreInv /\ WorkerFault => StoreInv'
<1> SUFFICES ASSUME TypeOK, StoreInv, WorkerFault PROVE StoreInv'
  OBVIOUS
<1> DEFINE job == Head(jobs)
<1>1. /\ jobs \in Seq(Job) /\ jobs # <<>> /\ job \in Job
      /\ jobs' = Tail(jobs) /\ rows' = rows /\ outgoing' = outgoing
      /\ faulted' = IF job.op \in {"find", "load"} THEN faulted ELSE faulted \cup job.msgs
  BY QueueHead DEF WorkerFault, TypeOK, QueueTypes, gui
<1>2. ASSUME NEW m \in Msg, outgoing[m] # "none", m \notin faulted'
      PROVE  /\ EndsIn(jobs', m, rows[m], Agreeing(m, outgoing[m]))
             /\ m \notin Request => rows[m] # "none" \/ Inserts(jobs', m)
  <2>1. m \notin faulted /\ ~Writes(job, m)
    BY <1>1, <1>2 DEF Writes
  <2>2. /\ EndsIn(jobs, m, rows[m], Agreeing(m, outgoing[m]))
        /\ m \notin Request => rows[m] # "none" \/ Inserts(jobs, m)
    BY <1>2, <2>1 DEF StoreInv, Agree
  <2>3. EndsIn(jobs', m, rows[m], Agreeing(m, outgoing[m]))
    BY <1>1, <2>1, <2>2, EndsTail
  <2>4. ASSUME NEW i \in DOMAIN jobs, jobs[i].op = "save", m \in jobs[i].msgs
        PROVE  Inserts(jobs', m)
    <3>1. i # 1
      BY <1>1, <2>1, <2>4, TailItems DEF Writes
    <3>2. i - 1 \in DOMAIN jobs' /\ jobs'[i - 1] = jobs[i]
      BY <1>1, <3>1, TailItems
    <3> QED
      BY <2>4, <3>2 DEF Inserts
  <2> QED
    BY <2>2, <2>3, <2>4 DEF Inserts
<1>3. Agree(outgoing, jobs)'
  BY <1>1, <1>2 DEF Agree, Agreeing, EndsIn, Inserts, Writes
<1>4. replies' \in Seq(FoundReply')
  <2> DEFINE new == [job |-> job, ok |-> FALSE, rows |-> Blank]
  <2>1. FoundReply' = FoundReply
    BY <1>1 DEF FoundReply
  <2>2. new \in FoundReply
    BY <1>1, FreshPieces DEF FoundReply, Reply
  <2>3. replies' = replies \/ replies' = Append(replies, new)
    BY DEF WorkerFault
  <2> HIDE DEF new
  <2> QED
    BY <2>1, <2>2, <2>3, QueueAppend DEF StoreInv
<1> QED
  BY <1>3, <1>4 DEF StoreInv

LEMMA StoreCallback == TypeOK /\ StoreInv /\ Callback => StoreInv'
<1> SUFFICES ASSUME TypeOK, StoreInv, Callback PROVE StoreInv'
  OBVIOUS
<1>a. Agree(outgoing, jobs) /\ outgoing \in [Msg -> MaybeStatus] /\ jobs \in Seq(Job)
  BY DEF StoreInv, TypeOK, CacheTypes, QueueTypes
<1>b. Head(replies) \in FoundReply /\ replies' \in Seq(FoundReply)
  BY QueueHead DEF StoreInv, Callback, NextReply, OnSaved, OnSaveFailed, OnAnswered, OnSeen,
                   OnFound, OnLoaded
<1> SUFFICES rows' = rows /\ faulted' = faulted /\ Agree(outgoing', jobs')
  BY <1>b, StoreFrame
<1>1. rows' = rows /\ faulted' = faulted
  BY DEF Callback, OnSaved, OnSaveFailed, OnAnswered, OnSeen, OnFound, OnLoaded
<1>2. CASE OnSaved \/ OnSaveFailed \/ OnAnswered \/ OnSeen
  BY <1>a, <1>2 DEF OnSaved, OnSaveFailed, OnAnswered, OnSeen, gui
<1>3. CASE OnFound
  <2> USE <1>3 DEF OnFound
  <2>1. ReplyMsg \in Msg /\ Head(replies).job.msgs = {ReplyMsg}
    BY NextReplyTypes
  <2>2. CASE Head(replies).ok
    <3>1. ReplyMsg \in Request \/ rows[ReplyMsg] # "none"
      BY <1>b, <2>1, <2>2 DEF FoundReply, NextReply
    <3> QED
      BY <1>a, <2>1, <2>2, <3>1, StoreExecuteRetry
  <2>3. CASE ~Head(replies).ok
    BY <1>a, <2>3 DEF gui
  <2> QED
    BY <2>2, <2>3
<1>4. CASE OnLoaded
  <2> DEFINE stale == {r \in Request : Head(replies).rows[r] = "accepted"}
             d == DeleteJob(stale)
  <2>1. outgoing' = outgoing /\ (jobs' = jobs \/ jobs' = Append(jobs, d))
    BY <1>4 DEF OnLoaded, gui
  <2>2. d \in Job /\ d.op = "delete"
    BY JobConstructors DEF DeleteJob
  <2> HIDE DEF d
  <2>3. Agree(outgoing, Append(jobs, d))
    BY <1>a, <2>2, AgreeNeutral
  <2> QED
    BY <1>1, <1>a, <2>1, <2>3
<1> QED
  BY <1>1, <1>2, <1>3, <1>4 DEF Callback

LEMMA StoreRestart == Restart => StoreInv'
BY EmptySeq DEF Restart, StoreInv, Agree, Blank

LEMMA StoreStep == TypeOK /\ StoreInv /\ [Next]_vars => StoreInv'
<1>1. ASSUME StoreInv, UNCHANGED vars PROVE StoreInv'
  BY <1>1, StoreFrame DEF vars, gui, store, StoreInv
<1> QED
  BY <1>1, StoreUser, StoreRelay, StorePeer, StoreWorkerStep, StoreWorkerFault, StoreCallback,
     StoreRestart DEF Next

LEMMA StoreSettles == TypeOK /\ StoreInv => CacheAgreesWithStore
<1> SUFFICES ASSUME TypeOK, StoreInv, NEW m \in Msg, outgoing[m] # "none", m \notin faulted
             PROVE  IF Writers(m) = {} THEN Settled(m, rows[m])
                    ELSE \A i \in Writers(m) :
                           (\A j \in Writers(m) : j <= i) => Settled(m, jobs[i].status)
  BY DEF CacheAgreesWithStore
<1>1. EndsIn(jobs, m, rows[m], Agreeing(m, outgoing[m]))
  BY DEF StoreInv, Agree
<1>2. Writers(m) = {i \in DOMAIN jobs : Writes(jobs[i], m)}
  BY DEF Writers, Writes
<1>3. \A s \in Agreeing(m, outgoing[m]) : Settled(m, s)
  BY DEF Agreeing, Settled
<1> QED
  BY <1>1, <1>2, <1>3 DEF EndsIn

(* For every set of messages and every bound: when the queue has drained,  *)
(* the status stored for a message is the one the user saw, or the peer's  *)
(* later word, whatever was retried, cancelled, answered or restarted.     *)
THEOREM CacheCorrect == Spec => []CacheAgreesWithStore
<1>1. Spec => [](TypeOK /\ StoreInv)
  BY TypeInit, TypeStep, StoreInit, StoreStep, PTL DEF Spec
<1> QED
  BY <1>1, StoreSettles, PTL

-----------------------------------------------------------------------------
(* An offer is answered once, and once more per retry of it.  A retry may  *)
(* still be a lookup in the queue or a reply: those that wait are counted  *)
(* with the payloads, and a message not sent yet has none of them.         *)

Lookups(q, r) == {i \in DOMAIN q : q[i].op = "find" /\ r \in q[i].msgs}
Found(q, r)   == {i \in DOMAIN q : q[i].job.op = "find" /\ r \in q[i].job.msgs}

Offers(r) == IF pending[r] = "none" THEN 0 ELSE 1
Sent(r)   == IF r \in created THEN 1 ELSE 0

OfferInv ==
  /\ IsFiniteSet(created)
  /\ \A p \in Media : origin[p] # "none" => p \in created
  /\ \A r \in Request :
       Cardinality(Payloads(r)) + Offers(r)
         + Cardinality(Lookups(jobs, r)) + Cardinality(Found(replies, r))
       <= Sent(r) + spent["retry"]

(* The positions in a queue of the items with a property: one more when    *)
(* such an item is appended, one fewer when it leaves at the head.         *)
At(q, P) == {i \in DOMAIN q : q[i] \in P}

LEMMA AtAppend ==
  ASSUME NEW S, NEW q \in Seq(S), NEW e \in S, NEW P
  PROVE  /\ IsFiniteSet(At(q, P)) /\ Cardinality(At(q, P)) \in Nat
         /\ Cardinality(At(Append(q, e), P))
              = Cardinality(At(q, P)) + (IF e \in P THEN 1 ELSE 0)
<1> DEFINE n == Len(q) + 1
<1>1. /\ Len(q) \in Nat /\ DOMAIN q = 1 .. Len(q) /\ Append(q, e)[n] = e
      /\ DOMAIN Append(q, e) = DOMAIN q \cup {n} /\ n \notin DOMAIN q
      /\ \A i \in DOMAIN q : Append(q, e)[i] = q[i]
  OBVIOUS
<1>2. IsFiniteSet(At(q, P)) /\ Cardinality(At(q, P)) \in Nat
  <2>1. IsFiniteSet(1 .. Len(q))
    BY <1>1, FS_Interval
  <2> QED
    BY <1>1, <2>1, FS_Subset, FS_CardinalityType DEF At
<1>3. At(Append(q, e), P) = IF e \in P THEN At(q, P) \cup {n} ELSE At(q, P)
  BY <1>1 DEF At
<1>4. n \notin At(q, P)
  BY <1>1 DEF At
<1> HIDE DEF n
<1>5. Cardinality(At(q, P) \cup {n}) = Cardinality(At(q, P)) + 1
  BY <1>2, <1>4, FS_AddElement
<1> QED
  BY <1>2, <1>3, <1>5

LEMMA AtTail ==
  ASSUME NEW S, NEW q \in Seq(S), q # <<>>, NEW P
  PROVE  Cardinality(At(Tail(q), P)) + (IF Head(q) \in P THEN 1 ELSE 0) = Cardinality(At(q, P))
<1> DEFINE A == At(Tail(q), P)
           B == At(q, P) \ {1}
           f == [i \in A |-> i + 1]
<1>1. /\ Tail(q) \in Seq(S) /\ Head(q) = q[1] /\ 1 \in DOMAIN q /\ DOMAIN q \subseteq Nat
      /\ DOMAIN Tail(q) \subseteq Nat
      /\ \A i \in DOMAIN Tail(q) : Tail(q)[i] = q[i + 1] /\ i + 1 \in DOMAIN q /\ i + 1 # 1
      /\ \A i \in DOMAIN q : i # 1 => i - 1 \in DOMAIN Tail(q) /\ Tail(q)[i - 1] = q[i]
  BY TailItems
<1>2. f \in Bijection(A, B)
  <2>1. f \in [A -> B]
    BY <1>1 DEF At
  <2>2. \A i, j \in A : f[i] = f[j] => i = j
    BY <1>1 DEF At
  <2>3. \A j \in B : j - 1 \in A /\ f[j - 1] = j
    BY <1>1 DEF At
  <2>4. \A j \in B : \E i \in A : f[i] = j
    BY <2>3
  <2> QED
    BY <2>1, <2>2, <2>4, Fun_IsBij
<1>3. Head(q) \in S
  BY QueueHead
<1>4. IsFiniteSet(At(q, P)) /\ Cardinality(At(q, P)) \in Nat
  BY <1>3, AtAppend
<1>5. IsFiniteSet(A) /\ Cardinality(A) \in Nat
  BY <1>1, <1>3, AtAppend
<1>6. 1 \in At(q, P) <=> Head(q) \in P
  BY <1>1 DEF At
<1> HIDE DEF f
<1>7. Cardinality(A) = Cardinality(B)
  <2>1. ExistsBijection(A, B)
    BY <1>2 DEF ExistsBijection
  <2> HIDE DEF A, B
  <2> QED
    BY <1>5, <2>1, FS_Bijection
<1>8. Cardinality(At(q, P) \ {1}) = IF 1 \in At(q, P) THEN Cardinality(At(q, P)) - 1
                                    ELSE Cardinality(At(q, P))
  BY <1>4, FS_RemoveElement
<1> QED
  BY <1>4, <1>5, <1>6, <1>7, <1>8

FindsOf(r)   == {job \in Job : job.op = "find" /\ r \in job.msgs}
FoundsOf(r)  == {reply \in Reply : reply.job.op = "find" /\ r \in reply.job.msgs}

LEMMA WaitingAt ==
  ASSUME NEW r
  PROVE  /\ \A q \in Seq(Job) : Lookups(q, r) = At(q, FindsOf(r))
         /\ \A q \in Seq(Reply) : Found(q, r) = At(q, FoundsOf(r))
<1>1. \A q \in Seq(Job) : \A i \in DOMAIN q : q[i] \in Job
  OBVIOUS
<1>2. \A q \in Seq(Reply) : \A i \in DOMAIN q : q[i] \in Reply
  OBVIOUS
<1> QED
  BY <1>1, <1>2 DEF Lookups, Found, At, FindsOf, FoundsOf

(* How many lookups and answers wait after a step of a queue.              *)
LEMMA LookupsAppend ==
  ASSUME NEW r, NEW q \in Seq(Job), NEW job \in Job
  PROVE  /\ Cardinality(Lookups(q, r)) \in Nat
         /\ Cardinality(Lookups(Append(q, job), r))
              = Cardinality(Lookups(q, r)) + (IF job.op = "find" /\ r \in job.msgs THEN 1 ELSE 0)
<1>1. Append(q, job) \in Seq(Job)
  BY QueueAppend
<1>2. Lookups(q, r) = At(q, FindsOf(r)) /\ Lookups(Append(q, job), r) = At(Append(q, job), FindsOf(r))
  BY <1>1, WaitingAt
<1>3. /\ Cardinality(At(q, FindsOf(r))) \in Nat
      /\ Cardinality(At(Append(q, job), FindsOf(r)))
           = Cardinality(At(q, FindsOf(r))) + (IF job \in FindsOf(r) THEN 1 ELSE 0)
  BY AtAppend
<1> QED
  BY <1>2, <1>3 DEF FindsOf

LEMMA FoundAppend ==
  ASSUME NEW r, NEW q \in Seq(Reply), NEW reply \in Reply
  PROVE  /\ Cardinality(Found(q, r)) \in Nat
         /\ Cardinality(Found(Append(q, reply), r))
              = Cardinality(Found(q, r))
                + (IF reply.job.op = "find" /\ r \in reply.job.msgs THEN 1 ELSE 0)
<1>1. Append(q, reply) \in Seq(Reply)
  BY QueueAppend
<1>2. /\ Found(q, r) = At(q, FoundsOf(r))
      /\ Found(Append(q, reply), r) = At(Append(q, reply), FoundsOf(r))
  BY <1>1, WaitingAt
<1>3. /\ Cardinality(At(q, FoundsOf(r))) \in Nat
      /\ Cardinality(At(Append(q, reply), FoundsOf(r)))
           = Cardinality(At(q, FoundsOf(r))) + (IF reply \in FoundsOf(r) THEN 1 ELSE 0)
  BY AtAppend
<1> QED
  BY <1>2, <1>3 DEF FoundsOf

LEMMA WaitingTail ==
  ASSUME TypeOK, NEW r
  PROVE  /\ jobs # <<>> =>
              Cardinality(Lookups(Tail(jobs), r))
              + (IF Head(jobs).op = "find" /\ r \in Head(jobs).msgs THEN 1 ELSE 0)
              = Cardinality(Lookups(jobs, r))
         /\ replies # <<>> =>
              Cardinality(Found(Tail(replies), r))
              + (IF Head(replies).job.op = "find" /\ r \in Head(replies).job.msgs THEN 1 ELSE 0)
              = Cardinality(Found(replies, r))
<1>1. jobs \in Seq(Job) /\ replies \in Seq(Reply)
  BY DEF TypeOK, QueueTypes
<1>2. ASSUME jobs # <<>>
      PROVE  /\ Tail(jobs) \in Seq(Job) /\ Head(jobs) \in Job
             /\ Cardinality(At(Tail(jobs), FindsOf(r))) + (IF Head(jobs) \in FindsOf(r) THEN 1 ELSE 0)
                  = Cardinality(At(jobs, FindsOf(r)))
  BY <1>1, <1>2, QueueHead, AtTail
<1>3. ASSUME replies # <<>>
      PROVE  /\ Tail(replies) \in Seq(Reply) /\ Head(replies) \in Reply
             /\ Cardinality(At(Tail(replies), FoundsOf(r)))
                + (IF Head(replies) \in FoundsOf(r) THEN 1 ELSE 0)
                  = Cardinality(At(replies, FoundsOf(r)))
  BY <1>1, <1>3, QueueHead, AtTail
<1> QED
  BY <1>1, <1>2, <1>3, WaitingAt DEF FindsOf, FoundsOf

(* The waiting retries of r, and all that r's offer can still be paid.     *)
Waiting(r) == Cardinality(Lookups(jobs, r)) + Cardinality(Found(replies, r))

LEMMA WaitingType ==
  ASSUME NEW r
  PROVE  /\ \A q \in Seq(Job) : Cardinality(Lookups(q, r)) \in Nat
         /\ \A q \in Seq(Reply) : Cardinality(Found(q, r)) \in Nat
<1>1. DeleteJob({}) \in Job
  BY JobConstructors
<1>2. [job |-> DeleteJob({}), ok |-> FALSE, rows |-> Blank] \in Reply
  BY <1>1, FreshPieces DEF Reply
<1> QED
  BY <1>1, <1>2, LookupsAppend, FoundAppend

LEMMA OfferInit == Init => OfferInv
<1> SUFFICES ASSUME Init PROVE OfferInv
  OBVIOUS
<1>1. \A r \in Request : /\ Payloads(r) = {} /\ Lookups(jobs, r) = {} /\ Found(replies, r) = {}
                         /\ Offers(r) = 0 /\ Sent(r) = 0 /\ spent["retry"] = 0
  <2>1. \A r \in Request : r # "none"
    BY MessageAssumption DEF Msg
  <2> QED
    BY <2>1 DEF Init, Payloads, Lookups, Found, Offers, Sent, Events
<1>2. IsFiniteSet({}) /\ Cardinality({}) = 0
  BY FS_EmptySet
<1>3. \A r \in Request :
        Cardinality(Payloads(r)) + Offers(r)
          + Cardinality(Lookups(jobs, r)) + Cardinality(Found(replies, r))
        <= Sent(r) + spent["retry"]
  BY <1>1, <1>2
<1> QED
  BY <1>2, <1>3 DEF Init, OfferInv

(* A step that creates no payload and under which neither the offer nor    *)
(* the retries that wait grow beyond what was sent or retried.             *)
LEMMA OfferFrame ==
  ASSUME TypeOK, TypeOK', OfferInv, UNCHANGED origin,
         created' = created \/ \E m : created' = created \cup {m},
         \A r \in Request :
           Offers(r)' + Waiting(r)' + spent["retry"] + Sent(r)
             <= Offers(r) + Waiting(r) + spent'["retry"] + Sent(r)'
  PROVE  OfferInv'
<1>1. IsFiniteSet(created') /\ created \subseteq created'
  BY FS_AddElement DEF OfferInv
<1>2. \A p \in Media : origin'[p] # "none" => p \in created'
  BY <1>1 DEF OfferInv
<1>3. ASSUME NEW r \in Request
      PROVE  (Cardinality(Payloads(r)) + Offers(r)
              + Cardinality(Lookups(jobs, r)) + Cardinality(Found(replies, r))
              <= Sent(r) + spent["retry"])'
  <2>1. Payloads(r)' = Payloads(r)
    BY DEF Payloads
  <2>2. IsFiniteSet(Payloads(r)) /\ Cardinality(Payloads(r)) \in Nat
    <3>1. Payloads(r) \subseteq created
      <4>1. r # "none"
        BY MessageAssumption DEF Msg
      <4> QED
        BY <4>1 DEF Payloads, OfferInv
    <3> QED
      BY <3>1, FS_Subset, FS_CardinalityType DEF OfferInv
  <2>3. /\ Offers(r) \in Nat /\ Offers(r)' \in Nat /\ Sent(r) \in Nat /\ Sent(r)' \in Nat
        /\ spent["retry"] \in Nat /\ spent'["retry"] \in Nat
    BY DEF Offers, Sent, TypeOK, BoundTypes, Events
  <2>4. /\ Cardinality(Lookups(jobs, r)) \in Nat /\ Cardinality(Found(replies, r)) \in Nat
        /\ Cardinality(Lookups(jobs', r)) \in Nat /\ Cardinality(Found(replies', r)) \in Nat
    BY WaitingType DEF TypeOK, QueueTypes
  <2>5. (Cardinality(Lookups(jobs, r)))' = Cardinality(Lookups(jobs', r))
        /\ (Cardinality(Found(replies, r)))' = Cardinality(Found(replies', r))
    BY DEF Lookups, Found
  <2> QED
    BY <2>1, <2>2, <2>3, <2>4, <2>5 DEF OfferInv, Waiting
<1> QED
  BY <1>1, <1>2, <1>3 DEF OfferInv

(* A queue that gets no lookup.                                            *)
SameLookups(q, new) == \A r \in Request : Cardinality(Lookups(new, r)) = Cardinality(Lookups(q, r))

LEMMA LookupsKept ==
  ASSUME NEW q \in Seq(Job), NEW job \in Job, job.op # "find"
  PROVE  SameLookups(q, Append(q, job)) /\ Append(q, job) \in Seq(Job)
<1>1. Append(q, job) \in Seq(Job)
  BY QueueAppend
<1>2. ASSUME NEW r \in Request
      PROVE  Cardinality(Lookups(Append(q, job), r)) = Cardinality(Lookups(q, r))
  BY LookupsAppend
<1> QED
  BY <1>1, <1>2 DEF SameLookups

(* A step that neither retries nor looks up: the offer may be made for a   *)
(* message that was not sent yet, or taken.                                *)
LEMMA OfferQuiet ==
  ASSUME TypeOK, TypeOK', OfferInv, UNCHANGED <<origin, replies>>,
         created' = created \/ \E m : created' = created \cup {m},
         SameLookups(jobs, jobs'), spent'["retry"] = spent["retry"],
         \A r \in Request : Offers(r)' + Sent(r) <= Offers(r) + Sent(r)'
  PROVE  OfferInv'
<1> SUFFICES ASSUME NEW r \in Request
             PROVE  Offers(r)' + Waiting(r)' + spent["retry"] + Sent(r)
                      <= Offers(r) + Waiting(r) + spent'["retry"] + Sent(r)'
  BY OfferFrame
<1>1. Waiting(r)' = Cardinality(Lookups(jobs', r)) + Cardinality(Found(replies, r))
  BY DEF Waiting, Lookups, Found
<1>2. Cardinality(Lookups(jobs, r)) \in Nat /\ Cardinality(Found(replies, r)) \in Nat
  BY WaitingType DEF TypeOK, QueueTypes
<1>3. Offers(r) \in Nat /\ Offers(r)' \in Nat /\ Sent(r) \in Nat /\ Sent(r)' \in Nat
      /\ spent["retry"] \in Nat
  BY DEF Offers, Sent, TypeOK, BoundTypes, Events
<1> QED
  BY <1>1, <1>2, <1>3 DEF SameLookups, Waiting

(* executeRetry makes the offer again, if it is one.                       *)
LEMMA OfferExecuteRetry ==
  ASSUME TypeOK, NEW n \in Msg, ExecuteRetry(n)
  PROVE  /\ SameLookups(jobs, jobs')
         /\ \A r \in Request : Offers(r)' <= Offers(r) + (IF r = n THEN 1 ELSE 0)
<1>1. PICK s \in Status : jobs' = Append(jobs, UpdateJob(n, s))
  BY DEF ExecuteRetry, Status
<1>2. SameLookups(jobs, jobs')
  BY <1>1, LookupsKept, JobConstructors DEF UpdateJob, TypeOK, QueueTypes
<1>3. \A r \in Request : r # n => pending'[r] = pending[r]
  BY DEF ExecuteRetry, TypeOK, CacheTypes
<1>4. \A r \in Request : Offers(r) \in {0, 1} /\ Offers(r)' \in {0, 1}
  BY DEF Offers
<1> QED
  BY <1>2, <1>3, <1>4 DEF Offers

LEMMA OfferRetry ==
  ASSUME TypeOK, TypeOK', OfferInv, NEW n \in Msg, Retry(n)
  PROVE  OfferInv'
<1>1. UNCHANGED <<origin, replies, created>> /\ spent'["retry"] = spent["retry"] + 1
  BY DEF Retry, media, Spend, TypeOK, BoundTypes, Events
<1> SUFFICES ASSUME NEW r \in Request
             PROVE  Offers(r)' + Waiting(r)' + spent["retry"] + Sent(r)
                      <= Offers(r) + Waiting(r) + spent'["retry"] + Sent(r)'
  BY <1>1, OfferFrame
<1>2. Waiting(r)' = Cardinality(Lookups(jobs', r)) + Cardinality(Found(replies, r))
  BY <1>1 DEF Waiting, Lookups, Found
<1>3. Cardinality(Lookups(jobs, r)) \in Nat /\ Cardinality(Found(replies, r)) \in Nat
  BY WaitingType DEF TypeOK, QueueTypes
<1>4. Offers(r) \in {0, 1} /\ Offers(r)' \in {0, 1} /\ Sent(r) \in {0, 1} /\ Sent(r)' = Sent(r)
      /\ spent["retry"] \in Nat
  BY <1>1 DEF Offers, Sent, TypeOK, BoundTypes, Events
<1>5. CASE ExecuteRetry(n)
  <2>1. Cardinality(Lookups(jobs', r)) = Cardinality(Lookups(jobs, r))
        /\ Offers(r)' <= Offers(r) + 1
    BY <1>4, <1>5, OfferExecuteRetry DEF SameLookups
  <2> QED
    BY <1>1, <1>2, <1>3, <1>4, <2>1 DEF Waiting
<1>6. CASE jobs' = Append(jobs, FindJob(n)) /\ pending' = pending
  <2>1. jobs \in Seq(Job) /\ FindJob(n) \in Job
    BY JobConstructors DEF TypeOK, QueueTypes
  <2>2. Cardinality(Lookups(jobs', r)) <= Cardinality(Lookups(jobs, r)) + 1
    BY <1>3, <1>6, <2>1, LookupsAppend
  <2>3. Cardinality(Lookups(jobs', r)) \in Nat /\ Offers(r)' = Offers(r)
    BY <1>6, WaitingType DEF TypeOK, QueueTypes, Offers
  <2> QED
    BY <1>1, <1>2, <1>3, <1>4, <2>2, <2>3 DEF Waiting
<1> QED
  BY <1>5, <1>6 DEF Retry, gui

LEMMA OfferUser == TypeOK /\ TypeOK' /\ OfferInv /\ User => OfferInv'
<1> SUFFICES ASSUME TypeOK, TypeOK', OfferInv, User PROVE OfferInv'
  OBVIOUS
<1>a. jobs \in Seq(Job) /\ Text \cup Media \subseteq Msg /\ Request \subseteq Msg
      /\ pending \in [Request -> Offered \cup {"none"}] /\ spent \in [Events -> Nat]
  BY DEF TypeOK, QueueTypes, CacheTypes, BoundTypes, Msg
<1>b. \A r \in Request : Offers(r) \in {0, 1} /\ Sent(r) \in {0, 1}
                         /\ Offers(r)' \in {0, 1} /\ Sent(r)' \in {0, 1}
  BY DEF Offers, Sent
<1> USE DEF media
<1>1. ASSUME NEW n \in Text \cup Media, SendMessage(n) PROVE OfferInv'
  <2>1. SaveJob(n, FirstStatus(n)) \in Job /\ SaveJob(n, FirstStatus(n)).op = "save"
    BY <1>a, JobConstructors DEF FirstStatus, Status, SaveJob
  <2>2. SameLookups(jobs, jobs')
    BY <1>1, <1>a, <2>1, LookupsKept DEF SendMessage
  <2>3. \A r \in Request : Offers(r)' = Offers(r) /\ Sent(r) <= Sent(r)'
    BY <1>1 DEF SendMessage, Create, Offers, Sent
  <2>4. UNCHANGED <<origin, replies, spent>> /\ created' = created \cup {n}
    BY <1>1 DEF SendMessage, Create
  <2> QED
    BY <1>b, <2>2, <2>3, <2>4, OfferQuiet
<1>2. ASSUME NEW n \in Request, SendMediaRequest(n) PROVE OfferInv'
  <2>1. SaveJob(n, "pending") \in Job /\ SaveJob(n, "pending").op = "save"
    BY <1>a, JobConstructors DEF Status, SaveJob
  <2>2. SameLookups(jobs, jobs')
    BY <1>2, <1>a, <2>1, LookupsKept DEF SendMediaRequest
  <2>3. UNCHANGED <<origin, replies, spent>> /\ created' = created \cup {n} /\ n \notin created
        /\ pending' = [pending EXCEPT ![n] = "type"]
    BY <1>2 DEF SendMediaRequest, Create
  <2>4. \A r \in Request : r # n => Offers(r)' = Offers(r) /\ Sent(r)' = Sent(r)
    BY <1>a, <2>3 DEF Offers, Sent
  <2>5. Sent(n) = 0 /\ Sent(n)' = 1
    BY <2>3 DEF Sent
  <2>6. \A r \in Request : Offers(r)' + Sent(r) <= Offers(r) + Sent(r)'
    BY <1>b, <2>4, <2>5
  <2> QED
    BY <2>2, <2>3, <2>6, OfferQuiet
<1>3. ASSUME NEW n \in Media, Cancel(n) PROVE OfferInv'
  <2>1. UpdateJob(n, "failed") \in Job /\ UpdateJob(n, "failed").op = "update"
    BY <1>a, JobConstructors DEF Status, UpdateJob
  <2>2. SameLookups(jobs, jobs')
    BY <1>3, <1>a, <2>1, LookupsKept DEF Cancel
  <2>3. UNCHANGED <<origin, replies, created, pending>> /\ spent'["retry"] = spent["retry"]
    BY <1>3, <1>a DEF Cancel, Spend
  <2>4. \A r \in Request : Offers(r)' + Sent(r) <= Offers(r) + Sent(r)'
    BY <1>b, <2>3 DEF Offers, Sent
  <2> QED
    BY <2>2, <2>3, <2>4, OfferQuiet
<1>4. ASSUME NEW C \in {Direct, Notes}, OpenConversation(C) PROVE OfferInv'
  <2>1. LoadJob(C) \in Job /\ LoadJob(C).op = "load"
    BY JobConstructors DEF LoadJob
  <2>2. SameLookups(jobs, jobs')
    BY <1>4, <1>a, <2>1, LookupsKept DEF OpenConversation
  <2>3. UNCHANGED <<origin, replies, created, pending>> /\ spent'["retry"] = spent["retry"]
    <3>1. UNCHANGED <<origin, replies, created, pending>> /\ (Spend("open") \/ spent' = spent)
      BY <1>4 DEF OpenConversation, gui
    <3> QED
      BY <1>a, <3>1 DEF Spend, Events
  <2>4. \A r \in Request : Offers(r)' + Sent(r) <= Offers(r) + Sent(r)'
    BY <1>b, <2>3 DEF Offers, Sent
  <2> QED
    BY <2>2, <2>3, <2>4, OfferQuiet
<1> QED
  BY <1>1, <1>2, <1>3, <1>4, OfferRetry DEF User

LEMMA OfferRelay ==
  TypeOK /\ TypeOK' /\ OfferInv /\ (\/ \E m \in Media : TimerDone(m)
                                    \/ \E m \in Msg : RelayAccepts(m) \/ Outcome(m)) => OfferInv'
<1> SUFFICES ASSUME TypeOK, TypeOK', OfferInv, \/ \E m \in Media : TimerDone(m)
                                               \/ \E m \in Msg : RelayAccepts(m) \/ Outcome(m)
             PROVE  OfferInv'
  OBVIOUS
<1>1. UNCHANGED <<origin, replies, created, spent>>
  BY DEF TimerDone, RelayAccepts, Outcome, DeliverySucceeded, DeliveryFailed, media, store
<1>2. \A r \in Request : pending'[r] = "none" <=> pending[r] = "none"
  <2>1. pending' = pending \/ \E m \in Msg, e \in {"empty", "error"} : pending' = Overwrite(m, e)
    BY DEF TimerDone, RelayAccepts, Outcome, DeliverySucceeded, DeliveryFailed, gui, Msg
  <2>2. \A r \in Request, m \in Msg, e \in {"empty", "error"} :
          Overwrite(m, e)[r] = "none" <=> pending[r] = "none"
    BY DEF Overwrite
  <2> QED
    BY <2>1, <2>2
<1>3. \E m \in Msg, s \in Status : jobs' = jobs \/ jobs' = Append(jobs, UpdateJob(m, s))
  BY DEF TimerDone, RelayAccepts, Outcome, DeliverySucceeded, DeliveryFailed, store, Msg, Status
<1>4. SameLookups(jobs, jobs')
  <2>1. SameLookups(jobs, jobs)
    BY DEF SameLookups
  <2> QED
    BY <1>3, <2>1, LookupsKept, JobConstructors DEF UpdateJob, TypeOK, QueueTypes
<1>5. \A r \in Request : /\ Offers(r)' = Offers(r) /\ Sent(r)' = Sent(r)
                         /\ Offers(r) \in Nat /\ Sent(r) \in Nat
  BY <1>1, <1>2 DEF Offers, Sent
<1> QED
  BY <1>1, <1>4, <1>5, OfferQuiet

(* An accepted offer is taken from the cache and its payload created.      *)
LEMMA OfferAccepted ==
  ASSUME TypeOK, TypeOK', OfferInv, NEW n \in Request, NEW p \in Media, MediaAccept(n, p)
  PROVE  OfferInv'
<1>1. /\ created' = created \cup {p} /\ p \notin created
      /\ pending[n] # "none" /\ pending' = [pending EXCEPT ![n] = "none"]
      /\ origin' = [origin EXCEPT ![p] = n]
      /\ jobs' = jobs \o <<AnswerJob(n, "accepted"), DeleteJob({n}), SaveJob(p, "sending")>>
      /\ replies' = replies /\ spent'["retry"] = spent["retry"]
  BY DEF MediaAccept, Create, TakeOffer, Spend, TypeOK, BoundTypes, Events
<1>2. n # "none" /\ \A r \in Request : r # "none"
  BY MessageAssumption DEF Msg
<1>3. IsFiniteSet(created') /\ created \subseteq created'
  BY <1>1, FS_AddElement DEF OfferInv
<1>4. \A v \in Media : origin'[v] # "none" => v \in created'
  BY <1>1 DEF OfferInv, TypeOK, CacheTypes
<1>5. SameLookups(jobs, jobs')
  <2> DEFINE a == AnswerJob(n, "accepted")
             d == DeleteJob({n})
             v == SaveJob(p, "sending")
  <2>1. /\ a \in Job /\ a.op = "answer" /\ d \in Job /\ d.op = "delete"
        /\ v \in Job /\ v.op = "save" /\ jobs \in Seq(Job)
    BY JobConstructors DEF AnswerJob, DeleteJob, SaveJob, Status, Msg, TypeOK, QueueTypes
  <2>2. jobs' = jobs \o <<a, d, v>>
    BY <1>1
  <2> HIDE DEF a, d, v
  <2>3. jobs' = Append(Append(Append(jobs, a), d), v)
    BY <2>1, <2>2, ConcatIsAppend
  <2>4. SameLookups(jobs, Append(jobs, a)) /\ Append(jobs, a) \in Seq(Job)
    BY <2>1, LookupsKept
  <2>5. SameLookups(Append(jobs, a), Append(Append(jobs, a), d))
        /\ Append(Append(jobs, a), d) \in Seq(Job)
    BY <2>1, <2>4, LookupsKept
  <2>6. SameLookups(Append(Append(jobs, a), d), jobs')
    BY <2>1, <2>3, <2>5, LookupsKept
  <2> QED
    BY <2>4, <2>5, <2>6 DEF SameLookups
<1>6. ASSUME NEW r \in Request
      PROVE  (Cardinality(Payloads(r)) + Offers(r)
              + Cardinality(Lookups(jobs, r)) + Cardinality(Found(replies, r))
              <= Sent(r) + spent["retry"])'
  <2>1. Payloads(r)' = IF r = n THEN Payloads(r) \cup {p} ELSE Payloads(r) \ {p}
    BY <1>1 DEF Payloads, TypeOK, CacheTypes
  <2>2. IsFiniteSet(Payloads(r)) /\ Cardinality(Payloads(r)) \in Nat
    <3>1. Payloads(r) \subseteq created
      BY <1>2 DEF Payloads, OfferInv
    <3> QED
      BY <3>1, FS_Subset, FS_CardinalityType DEF OfferInv
  <2>3. p \notin Payloads(r)
    BY <1>1, <1>2 DEF Payloads, OfferInv
  <2>4. Cardinality(Payloads(r) \cup {p}) = Cardinality(Payloads(r)) + 1
    BY <2>2, <2>3, FS_AddElement
  <2>5. Cardinality(Payloads(r)') = Cardinality(Payloads(r)) + (IF r = n THEN 1 ELSE 0)
    <3>1. r # n => Payloads(r)' = Payloads(r)
      BY <2>1, <2>3
    <3> QED
      BY <2>1, <2>2, <2>4, <3>1
  <2>6. Offers(r) = Offers(r)' + (IF r = n THEN 1 ELSE 0) /\ Offers(r)' \in Nat
    BY <1>1 DEF Offers, TypeOK, CacheTypes
  <2>7. Sent(r) \in Nat /\ Sent(r)' \in Nat /\ Sent(r) <= Sent(r)' /\ spent["retry"] \in Nat
    BY <1>3 DEF Sent, TypeOK, BoundTypes, Events
  <2>8. /\ (Cardinality(Lookups(jobs, r)))' = Cardinality(Lookups(jobs, r))
        /\ (Cardinality(Found(replies, r)))' = Cardinality(Found(replies, r))
        /\ Cardinality(Lookups(jobs, r)) \in Nat /\ Cardinality(Found(replies, r)) \in Nat
    <3>1. (Cardinality(Lookups(jobs, r)))' = Cardinality(Lookups(jobs', r))
          /\ (Cardinality(Found(replies, r)))' = Cardinality(Found(replies', r))
      BY DEF Lookups, Found
    <3> QED
      BY <1>1, <1>5, <3>1, WaitingType DEF SameLookups, TypeOK, QueueTypes
  <2>9. (Cardinality(Payloads(r)))' = Cardinality(Payloads(r)')
    BY DEF Payloads
  <2>10. Cardinality(Payloads(r)) + Offers(r)
           + Cardinality(Lookups(jobs, r)) + Cardinality(Found(replies, r))
         <= Sent(r) + spent["retry"]
    BY DEF OfferInv
  <2>11. (Cardinality(Payloads(r)))' + Offers(r)' = Cardinality(Payloads(r)) + Offers(r)
    BY <2>2, <2>5, <2>6, <2>9
  <2>12. (Cardinality(Payloads(r)))' \in Nat /\ Offers(r) \in Nat
    BY <2>2, <2>5, <2>6, <2>9
  <2>13. spent'["retry"] = spent["retry"]
    BY <1>1
  <2>14. (Cardinality(Payloads(r)))' + Offers(r)'
           + (Cardinality(Lookups(jobs, r)))' + (Cardinality(Found(replies, r)))'
         <= Sent(r)' + spent'["retry"]
    BY <2>2, <2>6, <2>7, <2>8, <2>10, <2>11, <2>12, <2>13
  <2> QED
    BY <2>14
<1> QED
  BY <1>3, <1>4, <1>6 DEF OfferInv

LEMMA OfferPeer == TypeOK /\ TypeOK' /\ OfferInv /\ Peer => OfferInv'
<1> SUFFICES ASSUME TypeOK, TypeOK', OfferInv, Peer PROVE OfferInv'
  OBVIOUS
<1>a. jobs \in Seq(Job) /\ pending \in [Request -> Offered \cup {"none"}]
      /\ spent \in [Events -> Nat]
  BY DEF TypeOK, QueueTypes, CacheTypes, BoundTypes
<1>b. \A r \in Request : Offers(r) \in {0, 1} /\ Sent(r) \in {0, 1}
                         /\ Offers(r)' \in {0, 1} /\ Sent(r)' \in {0, 1}
  BY DEF Offers, Sent
<1> USE DEF media, gui
<1>1. ASSUME NEW target \in {{}} \cup {{m} : m \in Msg}, SeenReceipt(target) PROVE OfferInv'
  <2> DEFINE job == [op |-> "update", msgs |-> target, status |-> "seen"]
  <2>1. SeenJob \in Job /\ SeenJob.op = "seen"
    BY JobConstructors DEF SeenJob
  <2>2. SameLookups(jobs, jobs')
    <3>1. CASE target = {}
      BY <1>1, <1>a, <2>1, <3>1, LookupsKept, ConcatIsAppend DEF SeenReceipt
    <3>2. CASE target # {}
      <4>1. job \in Job /\ job.op = "update"
        BY <3>2 DEF Job, Status
      <4>2. jobs' = Append(jobs, job) \o <<SeenJob>>
        BY <1>1, <3>2 DEF SeenReceipt
      <4> HIDE DEF job
      <4>3. SameLookups(jobs, Append(jobs, job)) /\ Append(jobs, job) \in Seq(Job)
        BY <1>a, <4>1, LookupsKept
      <4>4. jobs' = Append(Append(jobs, job), SeenJob)
        BY <2>1, <4>2, <4>3, ConcatIsAppend
      <4>5. SameLookups(Append(jobs, job), jobs')
        BY <2>1, <4>3, <4>4, LookupsKept
      <4> QED
        BY <4>3, <4>5 DEF SameLookups
    <3> QED
      BY <3>1, <3>2
  <2>3. UNCHANGED <<origin, replies, created, pending>> /\ spent'["retry"] = spent["retry"]
    BY <1>1, <1>a DEF SeenReceipt, Spend
  <2>4. \A r \in Request : Offers(r)' + Sent(r) <= Offers(r) + Sent(r)'
    BY <1>b, <2>3 DEF Offers, Sent
  <2> QED
    BY <2>2, <2>3, <2>4, OfferQuiet
<1>2. ASSUME NEW n \in Request, LateAccept(n) PROVE OfferInv'
  <2> DEFINE a == AnswerJob(n, "accepted")
             d == DeleteJob({n})
  <2>1. a \in Job /\ a.op = "answer" /\ d \in Job /\ d.op = "delete"
    BY JobConstructors DEF AnswerJob, DeleteJob
  <2>2. jobs' = jobs \o <<a, d>>
    BY <1>2 DEF LateAccept
  <2> HIDE DEF a, d
  <2>3. SameLookups(jobs, Append(jobs, a)) /\ Append(jobs, a) \in Seq(Job)
    BY <1>a, <2>1, LookupsKept
  <2>4. jobs' = Append(Append(jobs, a), d)
    BY <1>a, <2>1, <2>2, ConcatIsAppend
  <2>5. SameLookups(Append(jobs, a), jobs')
    BY <2>1, <2>3, <2>4, LookupsKept
  <2>6. SameLookups(jobs, jobs')
    BY <2>3, <2>5 DEF SameLookups
  <2>7. UNCHANGED <<origin, replies, created, pending>> /\ spent'["retry"] = spent["retry"]
    BY <1>2, <1>a DEF LateAccept, Spend
  <2>8. \A r \in Request : Offers(r)' + Sent(r) <= Offers(r) + Sent(r)'
    BY <1>b, <2>7 DEF Offers, Sent
  <2> QED
    BY <2>6, <2>7, <2>8, OfferQuiet
<1>3. ASSUME NEW n \in Request, MediaDecline(n) PROVE OfferInv'
  <2>1. AnswerJob(n, "declined") \in Job /\ AnswerJob(n, "declined").op = "answer"
    BY JobConstructors DEF AnswerJob
  <2>2. SameLookups(jobs, jobs')
    BY <1>3, <1>a, <2>1, LookupsKept DEF MediaDecline
  <2>3. /\ UNCHANGED <<origin, replies, created>> /\ spent'["retry"] = spent["retry"]
        /\ pending' = [pending EXCEPT ![n] = "none"]
    BY <1>3, <1>a DEF MediaDecline, TakeOffer, Spend
  <2>4. \A r \in Request : Offers(r)' + Sent(r) <= Offers(r) + Sent(r)'
    BY <1>a, <1>b, <2>3 DEF Offers, Sent
  <2> QED
    BY <2>2, <2>3, <2>4, OfferQuiet
<1> QED
  BY <1>1, <1>2, <1>3, OfferAccepted DEF Peer

(* A lookup moves from the queue to its answer, never into both.           *)
LEMMA OfferWorker ==
  TypeOK /\ TypeOK' /\ OfferInv /\ (WorkerStep \/ WorkerFault) => OfferInv'
<1> SUFFICES ASSUME TypeOK, TypeOK', OfferInv, WorkerStep \/ WorkerFault PROVE OfferInv'
  OBVIOUS
<1>1. /\ UNCHANGED <<origin, created, pending>> /\ spent'["retry"] = spent["retry"]
      /\ jobs # <<>> /\ jobs' = Tail(jobs)
  BY DEF WorkerStep, WorkerFault, media, gui, Spend, TypeOK, BoundTypes, Events
<1>2. jobs \in Seq(Job) /\ replies \in Seq(Reply) /\ Head(jobs) \in Job
  BY <1>1, QueueHead DEF TypeOK, QueueTypes
<1>3. \/ replies' = replies /\ Head(jobs).op # "find"
      \/ \E reply \in Reply : reply.job = Head(jobs) /\ replies' = Append(replies, reply)
  <2>1. CASE WorkerStep
    <3> DEFINE new == [job |-> Head(jobs), rows |-> Selected(Head(jobs)),
                       ok |-> Head(jobs).op = "find" => \A m \in Head(jobs).msgs : rows[m] # "none"]
    <3>1. new \in Reply /\ new.job = Head(jobs)
      BY <1>2, HelperTypes DEF Reply
    <3>2. IF HasCallback(Head(jobs)) THEN replies' = Append(replies, new) ELSE replies' = replies
      BY <2>1 DEF WorkerStep
    <3> HIDE DEF new
    <3> QED
      BY <3>1, <3>2 DEF HasCallback
  <2>2. CASE WorkerFault
    <3> DEFINE new == [job |-> Head(jobs), ok |-> FALSE, rows |-> Blank]
    <3>1. new \in Reply /\ new.job = Head(jobs)
      BY <1>2, FreshPieces DEF Reply
    <3>2. IF HasCallback(Head(jobs)) THEN replies' = Append(replies, new) ELSE replies' = replies
      BY <2>2 DEF WorkerFault
    <3> HIDE DEF new
    <3> QED
      BY <3>1, <3>2 DEF HasCallback
  <2> QED
    BY <2>1, <2>2
<1> SUFFICES ASSUME NEW r \in Request
             PROVE  Offers(r)' + Waiting(r)' + spent["retry"] + Sent(r)
                      <= Offers(r) + Waiting(r) + spent'["retry"] + Sent(r)'
  BY <1>1, OfferFrame
<1> DEFINE found == IF Head(jobs).op = "find" /\ r \in Head(jobs).msgs THEN 1 ELSE 0
<1>4. Offers(r)' = Offers(r) /\ Sent(r)' = Sent(r) /\ Offers(r) \in Nat /\ Sent(r) \in Nat
      /\ spent["retry"] \in Nat
  BY <1>1 DEF Offers, Sent, TypeOK, BoundTypes, Events
<1>5. Waiting(r)' = Cardinality(Lookups(jobs', r)) + Cardinality(Found(replies', r))
  BY DEF Waiting, Lookups, Found
<1>6. Cardinality(Lookups(jobs', r)) + found = Cardinality(Lookups(jobs, r))
  BY <1>1, WaitingTail
<1>7. Cardinality(Found(replies', r)) <= Cardinality(Found(replies, r)) + found
  <2>1. Cardinality(Found(replies, r)) \in Nat
    BY <1>2, WaitingType
  <2>2. ASSUME NEW reply \in Reply, reply.job = Head(jobs), replies' = Append(replies, reply)
        PROVE  Cardinality(Found(replies', r)) = Cardinality(Found(replies, r)) + found
    BY <1>2, <2>2, FoundAppend
  <2> QED
    BY <1>3, <2>1, <2>2
<1>8. /\ Cardinality(Lookups(jobs, r)) \in Nat /\ Cardinality(Found(replies, r)) \in Nat
      /\ Cardinality(Lookups(jobs', r)) \in Nat /\ Cardinality(Found(replies', r)) \in Nat
  BY WaitingType DEF TypeOK, QueueTypes
<1>9. found \in Nat
  OBVIOUS
<1> HIDE DEF found
<1>10. Waiting(r) = Cardinality(Lookups(jobs, r)) + Cardinality(Found(replies, r))
  BY DEF Waiting
<1>11. Waiting(r) \in Nat /\ Waiting(r)' \in Nat /\ Waiting(r)' <= Waiting(r)
  BY <1>5, <1>6, <1>7, <1>8, <1>9, <1>10
<1> QED
  BY <1>1, <1>4, <1>11

(* Only the answer of a lookup can make an offer again, and it is used up. *)
LEMMA OfferCallback == TypeOK /\ TypeOK' /\ OfferInv /\ Callback => OfferInv'
<1> SUFFICES ASSUME TypeOK, TypeOK', OfferInv, Callback PROVE OfferInv'
  OBVIOUS
<1>1. /\ UNCHANGED <<origin, created>> /\ spent' = spent
      /\ replies # <<>> /\ replies' = Tail(replies)
  BY DEF Callback, NextReply, OnSaved, OnSaveFailed, OnAnswered, OnSeen, OnFound, OnLoaded, media
<1>2. jobs \in Seq(Job)
  BY DEF TypeOK, QueueTypes
<1> DEFINE used(r) ==
             IF Head(replies).job.op = "find" /\ r \in Head(replies).job.msgs THEN 1 ELSE 0
           Uses == /\ SameLookups(jobs, jobs')
                   /\ \A r \in Request : Offers(r)' <= Offers(r) + used(r)
<1>3. Uses
  <2>1. SameLookups(jobs, jobs)
    BY DEF SameLookups
  <2>2. \A r \in Request : Offers(r) \in {0, 1} /\ Offers(r)' \in {0, 1}
    BY DEF Offers
  <2>3. CASE pending' = pending /\ \E R \in SUBSET Request : jobs' = jobs \/ jobs' = Append(jobs, DeleteJob(R))
    <3>1. SameLookups(jobs, jobs')
      <4>1. PICK R \in SUBSET Request : jobs' = jobs \/ jobs' = Append(jobs, DeleteJob(R))
        BY <2>3
      <4>2. DeleteJob(R) \in Job /\ DeleteJob(R).op = "delete"
        BY JobConstructors DEF DeleteJob
      <4> QED
        BY <1>2, <2>1, <4>1, <4>2, LookupsKept
    <3>2. \A r \in Request : Offers(r)' = Offers(r)
      BY <2>3 DEF Offers
    <3> QED
      BY <2>2, <3>1, <3>2
  <2>4. CASE OnFound /\ Head(replies).ok
    <3>1. ReplyMsg \in Msg /\ Head(replies).job.msgs = {ReplyMsg} /\ Head(replies).job.op = "find"
      BY <2>4, NextReplyTypes DEF OnFound, NextReply
    <3>2. ExecuteRetry(ReplyMsg)
      BY <2>4 DEF OnFound
    <3>3. /\ SameLookups(jobs, jobs')
          /\ \A r \in Request : Offers(r)' <= Offers(r) + (IF r = ReplyMsg THEN 1 ELSE 0)
      BY <3>1, <3>2, OfferExecuteRetry
    <3> QED
      BY <3>1, <3>3
  <2>5. CASE OnFound /\ ~Head(replies).ok
    BY <2>3, <2>5 DEF OnFound, gui
  <2>6. CASE OnLoaded
    <3>1. {r \in Request : Head(replies).rows[r] = "accepted"} \in SUBSET Request
      OBVIOUS
    <3>2. pending' = pending /\ \E R \in SUBSET Request : jobs' = jobs \/ jobs' = Append(jobs, DeleteJob(R))
      BY <2>6, <3>1 DEF OnLoaded, gui
    <3> QED
      BY <2>3, <3>2
  <2> HIDE DEF Uses
  <2>7. CASE OnFound
    BY <2>4, <2>5, <2>7
  <2>8. CASE OnSaved \/ OnSaveFailed \/ OnAnswered \/ OnSeen
    BY <2>3, <2>8 DEF OnSaved, OnSaveFailed, OnAnswered, OnSeen, gui
  <2> QED
    BY <2>6, <2>7, <2>8 DEF Callback
<1> SUFFICES ASSUME NEW r \in Request
             PROVE  Offers(r)' + Waiting(r)' + spent["retry"] + Sent(r)
                      <= Offers(r) + Waiting(r) + spent'["retry"] + Sent(r)'
  BY <1>1, OfferFrame
<1>4. /\ Sent(r)' = Sent(r) /\ Sent(r) \in Nat /\ Offers(r) \in Nat /\ Offers(r)' \in Nat
      /\ spent["retry"] \in Nat
  BY <1>1 DEF Offers, Sent, TypeOK, BoundTypes, Events
<1>5. Waiting(r)' = Cardinality(Lookups(jobs', r)) + Cardinality(Found(replies', r))
  BY DEF Waiting, Lookups, Found
<1>6. Cardinality(Found(replies', r)) + used(r) = Cardinality(Found(replies, r))
  BY <1>1, WaitingTail
<1>7. Cardinality(Lookups(jobs', r)) = Cardinality(Lookups(jobs, r)) /\ Offers(r)' <= Offers(r) + used(r)
  BY <1>3 DEF SameLookups
<1>8. /\ Cardinality(Lookups(jobs, r)) \in Nat /\ Cardinality(Found(replies, r)) \in Nat
      /\ Cardinality(Found(replies', r)) \in Nat
  BY WaitingType DEF TypeOK, QueueTypes
<1>9. used(r) \in Nat
  OBVIOUS
<1>10. Waiting(r) = Cardinality(Lookups(jobs, r)) + Cardinality(Found(replies, r))
  BY DEF Waiting
<1>11. spent'["retry"] = spent["retry"]
  BY <1>1
<1> HIDE DEF used, Uses
<1> QED
  BY <1>4, <1>5, <1>6, <1>7, <1>8, <1>9, <1>10, <1>11

LEMMA OfferRestart == TypeOK /\ TypeOK' /\ OfferInv /\ Restart => OfferInv'
<1> SUFFICES ASSUME TypeOK, TypeOK', OfferInv, Restart PROVE OfferInv'
  OBVIOUS
<1>1. /\ UNCHANGED <<origin, created>> /\ spent'["retry"] = spent["retry"]
      /\ pending' = [r \in Request |-> "none"] /\ jobs' = <<>> /\ replies' = <<>>
  BY DEF Restart, media, Spend, TypeOK, BoundTypes
<1> SUFFICES ASSUME NEW r \in Request
             PROVE  Offers(r)' + Waiting(r)' + spent["retry"] + Sent(r)
                      <= Offers(r) + Waiting(r) + spent'["retry"] + Sent(r)'
  BY <1>1, OfferFrame
<1>2. Offers(r)' = 0 /\ Offers(r) \in Nat /\ Sent(r)' = Sent(r) /\ Sent(r) \in Nat
      /\ spent["retry"] \in Nat
  BY <1>1 DEF Offers, Sent, TypeOK, BoundTypes, Events
<1>3. Waiting(r)' = 0
  <2>1. Waiting(r)' = Cardinality(Lookups(jobs', r)) + Cardinality(Found(replies', r))
    BY DEF Waiting, Lookups, Found
  <2>2. Lookups(jobs', r) = {} /\ Found(replies', r) = {}
    BY <1>1 DEF Lookups, Found
  <2> QED
    BY <2>1, <2>2, FS_EmptySet
<1>4. Waiting(r) \in Nat
  BY WaitingType DEF Waiting, TypeOK, QueueTypes
<1> QED
  BY <1>1, <1>2, <1>3, <1>4

LEMMA OfferStep == TypeOK /\ OfferInv /\ [Next]_vars => OfferInv'
<1> SUFFICES ASSUME TypeOK, OfferInv, [Next]_vars PROVE OfferInv'
  OBVIOUS
<1>1. TypeOK'
  BY TypeStep
<1>2. CASE UNCHANGED vars
  <2>1. UNCHANGED <<origin, replies, created, jobs, pending, spent>>
    BY <1>2 DEF vars, media, store, gui
  <2>2. \A r \in Request : /\ Offers(r)' = Offers(r) /\ Sent(r)' = Sent(r)
                           /\ Offers(r) \in Nat /\ Sent(r) \in Nat
    BY <2>1 DEF Offers, Sent
  <2> QED
    BY <1>1, <2>1, <2>2, OfferQuiet DEF SameLookups
<1> QED
  BY <1>1, <1>2, OfferUser, OfferRelay, OfferPeer, OfferWorker, OfferCallback, OfferRestart DEF Next

(* For every set of messages and every bound: an offer is answered by one  *)
(* payload, and by one more for each retry of it at most, however often    *)
(* the peer's devices accept and whatever the queue still looks up.        *)
THEOREM PayloadCorrect == Spec => []PayloadOnce
<1>1. Spec => [](TypeOK /\ OfferInv)
  BY TypeInit, TypeStep, OfferInit, OfferStep, PTL DEF Spec
<1>2. TypeOK /\ OfferInv => PayloadOnce
  <2> SUFFICES ASSUME TypeOK, OfferInv, NEW r \in Request
               PROVE  Cardinality(Payloads(r)) + Offers(r) <= 1 + spent["retry"]
    BY DEF PayloadOnce, Offers
  <2>1. Cardinality(Lookups(jobs, r)) \in Nat /\ Cardinality(Found(replies, r)) \in Nat
    BY WaitingType DEF TypeOK, QueueTypes
  <2>2. IsFiniteSet(Payloads(r)) /\ Cardinality(Payloads(r)) \in Nat
    <3>1. Payloads(r) \subseteq created
      BY MessageAssumption DEF Payloads, OfferInv, Msg
    <3> QED
      BY <3>1, FS_Subset, FS_CardinalityType DEF OfferInv
  <2>3. Offers(r) \in Nat /\ Sent(r) \in {0, 1} /\ spent["retry"] \in Nat
    BY DEF Offers, Sent, TypeOK, BoundTypes, Events
  <2>4. Cardinality(Payloads(r)) + Offers(r)
          + Cardinality(Lookups(jobs, r)) + Cardinality(Found(replies, r))
        <= Sent(r) + spent["retry"]
    BY DEF OfferInv
  <2> QED
    BY <2>1, <2>2, <2>3, <2>4
<1> QED
  BY <1>1, <1>2, PTL

-----------------------------------------------------------------------------
(* A message that is being sent has a verdict under way.  In the saved-    *)
(* messages conversation no POST gives it: there it is the timer, which    *)
(* nothing stops without a verdict of its own.  A callback that reports a  *)
(* failed save, which does stop it, is about a message on record as such.  *)

Owed(m) == outgoing[m] = "sending" /\ m \notin faulted

Verdict(m) ==
  Owed(m) => IF m \in Saved THEN m \in Media /\ live[m] > 0 ELSE VerdictComes(m)

Honest(reply) == reply.job.op = "save" /\ ~reply.ok => reply.job.msgs \subseteq faulted

VerdictInv ==
  /\ \A m \in Msg : Verdict(m)
  /\ replies \in Seq({reply \in Reply : Honest(reply)})

LEMMA InsertsKept ==
  ASSUME NEW q \in Seq(Job), NEW job \in Job, NEW m
  PROVE  /\ Inserts(q, m) => Inserts(Append(q, job), m)
         /\ job.op = "save" /\ m \in job.msgs => Inserts(Append(q, job), m)
BY AppendItems DEF Inserts

(* A message that a step leaves alone, or settles.                         *)
LEMMA VerdictKept ==
  ASSUME NEW m \in Msg, Verdict(m), Owed(m)' => Owed(m),
         Inserts(jobs, m) => Inserts(jobs', m),
         HandsOver(replies, m) => HandsOver(replies', m),
         requests[m] > 0 => requests'[m] > 0,
         responses[m] > 0 => responses'[m] > 0,
         m \in Media /\ live[m] > 0 => live'[m] > 0
  PROVE  Verdict(m)'
<1>1. VerdictComes(m) => VerdictComes(m)'
  BY DEF VerdictComes, Inserts, HandsOver
<1> QED
  BY <1>1 DEF Verdict

(* The replies that wait, when no statement fails.                         *)
LEMMA RepliesKept ==
  ASSUME VerdictInv, faulted \subseteq faulted', replies' = replies
  PROVE  replies' \in Seq({reply \in Reply : Honest(reply)'})
<1>1. {reply \in Reply : Honest(reply)} \subseteq {reply \in Reply : Honest(reply)'}
  BY DEF Honest
<1>2. replies \in Seq({reply \in Reply : Honest(reply)})
  BY DEF VerdictInv
<1> HIDE DEF Honest
<1> QED
  BY <1>1, <1>2

LEMMA VerdictInit == Init => VerdictInv
<1> SUFFICES ASSUME Init PROVE VerdictInv
  OBVIOUS
<1>1. \A m \in Msg : ~Owed(m)
  BY DEF Init, Owed, Blank
<1>2. replies = <<>>
  BY DEF Init
<1> QED
  BY <1>1, <1>2 DEF VerdictInv, Verdict

LEMMA VerdictExecuteRetry ==
  ASSUME TypeOK, NEW n \in Msg, ExecuteRetry(n), UNCHANGED <<faulted, responses>>,
         NEW m \in Msg, Verdict(m), HandsOver(replies, m) => HandsOver(replies', m)
  PROVE  Verdict(m)'
<1>1. PICK s \in {"sent", "sending"} :
        outgoing' = [outgoing EXCEPT ![n] = s] /\ jobs' = Append(jobs, UpdateJob(n, s))
  BY DEF ExecuteRetry
<1>2. Inserts(jobs, m) => Inserts(jobs', m)
  BY <1>1, InsertsKept, JobConstructors DEF TypeOK, QueueTypes, Status
<1>3. /\ requests' \in {requests, [requests EXCEPT ![n] = @ + 1]}
      /\ live' \in {live, [live EXCEPT ![n] = @ + 1]}
  <2>1. CASE n \in Saved
    BY <2>1 DEF ExecuteRetry, timer
  <2>2. CASE n \notin Saved
    <3>1. requests' = [requests EXCEPT ![n] = @ + 1]
          /\ (StartTimer(n) \/ UNCHANGED timer)
      BY <2>2 DEF ExecuteRetry
    <3> QED
      BY <3>1 DEF StartTimer, timer
  <2> QED
    BY <2>1, <2>2
<1>4. /\ requests[m] > 0 => requests'[m] > 0
      /\ m \in Media /\ live[m] > 0 => live'[m] > 0
  BY <1>3 DEF TypeOK, NetTypes, TimerTypes
<1>5. CASE m # n
  <2>1. Owed(m)' => Owed(m)
    BY <1>1, <1>5 DEF Owed, TypeOK, CacheTypes
  <2> QED
    BY <1>2, <1>4, <2>1, VerdictKept
<1>6. CASE m = n /\ n \in Saved
  <2>1. outgoing'[m] = "sent"
    BY <1>6 DEF ExecuteRetry, TypeOK, CacheTypes
  <2> QED
    BY <2>1 DEF Verdict, Owed
<1>7. CASE m = n /\ n \notin Saved
  <2>1. requests'[m] > 0
    BY <1>7 DEF ExecuteRetry, TypeOK, NetTypes
  <2> QED
    BY <1>7, <2>1 DEF Verdict, VerdictComes
<1> QED
  BY <1>5, <1>6, <1>7

(* A verdict is given to the cache: the message is settled.                *)
LEMMA VerdictGiven ==
  ASSUME TypeOK, NEW n \in Msg, NEW s \in Status \ {"sending"}, outgoing' = Cache(n, s),
         faulted' = faulted
  PROVE  \A m \in Msg : Owed(m)' => Owed(m) /\ m # n
BY DEF Cache, Owed, TypeOK, CacheTypes

LEMMA VerdictUser == TypeOK /\ VerdictInv /\ User => VerdictInv'
<1> SUFFICES ASSUME TypeOK, VerdictInv, User PROVE VerdictInv'
  OBVIOUS
<1>a. jobs \in Seq(Job) /\ outgoing \in [Msg -> MaybeStatus] /\ live \in [Media -> Nat]
  BY DEF TypeOK, QueueTypes, CacheTypes, TimerTypes
<1>b. Text \cup Media \subseteq Msg /\ Request \subseteq Msg /\ Media \subseteq Msg
  BY DEF Msg
<1>c. faulted' = faulted /\ replies' = replies
  BY DEF User, SendMessage, SendMediaRequest, Cancel, Retry, OpenConversation
<1>d. replies' \in Seq({reply \in Reply : Honest(reply)'})
  BY <1>c, RepliesKept
<1> SUFFICES ASSUME NEW m \in Msg, Verdict(m) PROVE Verdict(m)'
  BY <1>d DEF VerdictInv
<1> USE DEF gui, timer, media, store, net, view
<1>1. ASSUME NEW n \in Text \cup Media, SendMessage(n) PROVE Verdict(m)'
  <2>1. /\ outgoing' = [outgoing EXCEPT ![n] = FirstStatus(n)]
        /\ jobs' = Append(jobs, SaveJob(n, FirstStatus(n)))
        /\ UNCHANGED <<requests, responses>>
        /\ n \in Media => live' = [live EXCEPT ![n] = @ + 1]
        /\ n \notin Media => live' = live
        /\ n \in Msg
    BY <1>1, <1>b DEF SendMessage, StartTimer
  <2>2. /\ SaveJob(n, FirstStatus(n)) \in Job
        /\ SaveJob(n, FirstStatus(n)).op = "save" /\ n \in SaveJob(n, FirstStatus(n)).msgs
    BY <2>1, JobConstructors, HelperTypes DEF SaveJob
  <2>3. CASE m # n
    <3>1. Owed(m)' => Owed(m)
      BY <1>a, <1>c, <2>1, <2>3 DEF Owed
    <3>2. m \in Media /\ live[m] > 0 => live'[m] > 0
      BY <1>a, <2>1, <2>3
    <3> QED
      BY <1>a, <1>c, <2>1, <2>2, <3>1, <3>2, InsertsKept, VerdictKept
  <2>4. CASE m = n
    <3>1. Inserts(jobs', m)
      BY <1>a, <2>1, <2>2, <2>4, InsertsKept
    <3>2. outgoing'[m] = "sending" /\ m \in Saved => m \in Media
      BY <1>a, <2>1, <2>4 DEF FirstStatus
    <3>3. m \in Media => live'[m] > 0
      BY <1>a, <2>1, <2>4
    <3> QED
      BY <3>1, <3>2, <3>3 DEF Verdict, Owed, VerdictComes, Inserts
  <2> QED
    BY <2>3, <2>4
<1>2. ASSUME NEW r \in Request, SendMediaRequest(r) PROVE Verdict(m)'
  <2>1. /\ outgoing' = [outgoing EXCEPT ![r] = "pending"]
        /\ jobs' = Append(jobs, SaveJob(r, "pending"))
        /\ UNCHANGED <<requests, responses, live>> /\ r \in Msg
    BY <1>2, <1>b DEF SendMediaRequest
  <2>2. Owed(m)' => Owed(m)
    BY <1>a, <1>c, <2>1 DEF Owed
  <2>3. Inserts(jobs, m) => Inserts(jobs', m)
    BY <1>a, <2>1, InsertsKept, JobConstructors DEF Status
  <2> QED
    BY <1>c, <2>1, <2>2, <2>3, VerdictKept
<1>3. ASSUME NEW n \in Media, Cancel(n) PROVE Verdict(m)'
  <2>1. /\ outgoing' = Cache(n, "failed") /\ jobs' = Append(jobs, UpdateJob(n, "failed"))
        /\ UNCHANGED <<requests, responses>> /\ StopTimer(n) /\ n \in Msg
    BY <1>3, <1>b DEF Cancel
  <2>2. Owed(m)' => Owed(m) /\ m # n
    BY <1>c, <2>1, VerdictGiven DEF Status
  <2>3. m # n => (m \in Media => live'[m] = live[m])
    BY <1>a, <2>1 DEF StopTimer
  <2>4. Inserts(jobs, m) => Inserts(jobs', m)
    BY <1>a, <2>1, InsertsKept, JobConstructors DEF Status
  <2>5. CASE m = n
    BY <2>2, <2>5 DEF Verdict
  <2> QED
    BY <1>c, <2>1, <2>2, <2>3, <2>4, <2>5, VerdictKept
<1>4. ASSUME NEW n \in Msg, Retry(n) PROVE Verdict(m)'
  <2>1. CASE outgoing[n] # "none"
    BY <1>4, <1>c, <2>1, VerdictExecuteRetry DEF Retry
  <2>2. CASE outgoing[n] = "none"
    <3>1. jobs' = Append(jobs, FindJob(n)) /\ UNCHANGED <<outgoing, live, requests, responses>>
      BY <1>4, <2>2 DEF Retry
    <3>2. Inserts(jobs, m) => Inserts(jobs', m)
      BY <1>a, <3>1, InsertsKept, JobConstructors
    <3> QED
      BY <1>c, <3>1, <3>2, VerdictKept DEF Owed
  <2> QED
    BY <2>1, <2>2
<1>5. ASSUME NEW C \in {Direct, Notes}, OpenConversation(C) PROVE Verdict(m)'
  <2>1. jobs' = Append(jobs, LoadJob(C)) /\ UNCHANGED <<outgoing, live, requests, responses>>
    BY <1>5 DEF OpenConversation
  <2>2. Inserts(jobs, m) => Inserts(jobs', m)
    BY <1>a, <2>1, InsertsKept, JobConstructors
  <2> QED
    BY <1>c, <2>1, <2>2, VerdictKept DEF Owed
<1> QED
  BY <1>1, <1>2, <1>3, <1>4, <1>5 DEF User

(* A verdict is given to n by UpdateJob; the others are left alone.        *)
LEMMA VerdictSettles ==
  ASSUME TypeOK, NEW n \in Msg, NEW s \in {"sent", "failed"},
         outgoing' = Cache(n, s), jobs' = Append(jobs, UpdateJob(n, s)),
         UNCHANGED <<replies, faulted>>, NEW m \in Msg, Verdict(m),
         m # n => UNCHANGED <<requests[m], responses[m]>> /\ (m \in Media => UNCHANGED live[m])
  PROVE  Verdict(m)'
<1>1. Owed(m)' => Owed(m) /\ m # n
  BY VerdictGiven DEF Status
<1>2. Inserts(jobs, m) => Inserts(jobs', m)
  BY InsertsKept, JobConstructors DEF Status, TypeOK, QueueTypes
<1> QED
  BY <1>1, <1>2, VerdictKept DEF Verdict

LEMMA VerdictRelay ==
  TypeOK /\ VerdictInv /\ (\/ \E m \in Media : TimerDone(m)
                           \/ \E m \in Msg : RelayAccepts(m) \/ Outcome(m)) => VerdictInv'
<1> SUFFICES ASSUME TypeOK, VerdictInv, \/ \E m \in Media : TimerDone(m)
                                        \/ \E m \in Msg : RelayAccepts(m) \/ Outcome(m)
             PROVE  VerdictInv'
  OBVIOUS
<1>a. /\ requests \in [Msg -> Nat] /\ responses \in [Msg -> Nat] /\ live \in [Media -> Nat]
      /\ registered \subseteq Media /\ \A n \in registered : live[n] > 0
      /\ Media \subseteq Msg
  BY DEF TypeOK, NetTypes, TimerTypes, Msg
<1> USE DEF gui, timer, media, store, net, view
<1>b. faulted' = faulted /\ replies' = replies
  BY DEF Outcome, TimerDone, RelayAccepts, DeliverySucceeded, DeliveryFailed
<1>c. replies' \in Seq({reply \in Reply : Honest(reply)'})
  BY <1>b, RepliesKept
<1> SUFFICES ASSUME NEW m \in Msg, Verdict(m) PROVE Verdict(m)'
  BY <1>c DEF VerdictInv
<1>1. ASSUME NEW n \in Media, TimerDone(n) PROVE Verdict(m)'
  BY <1>1, <1>a, <1>b, VerdictSettles DEF TimerDone
<1>2. ASSUME NEW n \in Msg, RelayAccepts(n) PROVE Verdict(m)'
  <2>1. /\ UNCHANGED <<outgoing, jobs, live>>
        /\ requests' = [requests EXCEPT ![n] = @ - 1]
        /\ responses' = [responses EXCEPT ![n] = @ + 1]
    BY <1>2 DEF RelayAccepts
  <2>2. CASE m # n
    BY <1>a, <1>b, <2>1, <2>2, VerdictKept DEF Owed
  <2>3. CASE m = n
    <3>1. responses'[m] > 0
      BY <1>a, <2>1, <2>3
    <3>2. VerdictComes(m)'
      BY <3>1 DEF VerdictComes
    <3> QED
      BY <1>b, <2>1, <3>2 DEF Verdict, Owed
  <2> QED
    BY <2>2, <2>3
<1>3. ASSUME NEW n \in Msg, DeliverySucceeded(n) PROVE Verdict(m)'
  <2>1. /\ responses' = [responses EXCEPT ![n] = @ - 1]
        /\ UNCHANGED <<requests, live>>
    BY <1>3 DEF DeliverySucceeded
  <2>2. CASE n \in registered
    <3>1. UNCHANGED <<outgoing, jobs>>
      BY <1>3, <2>2 DEF DeliverySucceeded
    <3>2. CASE m # n
      BY <1>a, <1>b, <2>1, <3>1, <3>2, VerdictKept DEF Owed
    <3>3. CASE m = n
      <4>1. m \in Media /\ live'[m] > 0
        BY <1>a, <2>1, <2>2, <3>3
      <4> QED
        BY <4>1 DEF Verdict, VerdictComes
    <3> QED
      BY <3>2, <3>3
  <2>3. CASE n \notin registered
    BY <1>3, <1>a, <1>b, <2>1, <2>3, VerdictSettles DEF DeliverySucceeded
  <2> QED
    BY <2>2, <2>3
<1>4. ASSUME NEW n \in Msg, DeliveryFailed(n) PROVE Verdict(m)'
  <2>1. /\ requests' \in {requests, [requests EXCEPT ![n] = @ - 1]}
        /\ responses' \in {responses, [responses EXCEPT ![n] = @ - 1]}
        /\ StopTimer(n)
        /\ outgoing' = Cache(n, "failed") /\ jobs' = Append(jobs, UpdateJob(n, "failed"))
    BY <1>4 DEF DeliveryFailed
  <2>2. m # n => UNCHANGED <<requests[m], responses[m]>> /\ (m \in Media => UNCHANGED live[m])
    BY <1>a, <2>1 DEF StopTimer
  <2> QED
    BY <1>b, <2>1, <2>2, VerdictSettles
<1> QED
  BY <1>1, <1>2, <1>3, <1>4 DEF Outcome

LEMMA VerdictPeer == TypeOK /\ VerdictInv /\ Peer => VerdictInv'
<1> SUFFICES ASSUME TypeOK, VerdictInv, Peer PROVE VerdictInv'
  OBVIOUS
<1>a. /\ jobs \in Seq(Job) /\ outgoing \in [Msg -> MaybeStatus] /\ live \in [Media -> Nat]
      /\ Media \subseteq Msg /\ Request \subseteq Msg
  BY DEF TypeOK, QueueTypes, CacheTypes, TimerTypes, Msg
<1> USE DEF gui, timer, media, store, net, view
<1>b. UNCHANGED <<faulted, replies, requests, responses>>
  BY DEF Peer, SeenReceipt, MediaAccept, LateAccept, MediaDecline
<1>c. replies' \in Seq({reply \in Reply : Honest(reply)'})
  BY <1>b, RepliesKept
<1> SUFFICES ASSUME NEW m \in Msg, Verdict(m) PROVE Verdict(m)'
  BY <1>c DEF VerdictInv
<1>1. ASSUME NEW target \in {{}} \cup {{n} : n \in Msg}, SeenReceipt(target)
      PROVE  Verdict(m)'
  <2> DEFINE job == [op |-> "update", msgs |-> target, status |-> "seen"]
  <2>1. UNCHANGED <<outgoing, live>>
    BY <1>1 DEF SeenReceipt
  <2>2. CASE target = {}
    <3>1. jobs' = Append(jobs, SeenJob)
      BY <1>1, <1>a, <2>2, JobConstructors, ConcatIsAppend DEF SeenReceipt
    <3>2. Inserts(jobs, m) => Inserts(jobs', m)
      BY <1>a, <3>1, InsertsKept, JobConstructors
    <3> QED
      BY <1>b, <2>1, <3>2, VerdictKept DEF Owed
  <2>3. CASE target # {}
    <3>1. job \in Job
      BY <2>3 DEF Job, Status
    <3>2. jobs' = Append(jobs, job) \o <<SeenJob>>
      BY <1>1, <2>3 DEF SeenReceipt
    <3> HIDE DEF job
    <3>3. Append(jobs, job) \in Seq(Job) /\ (Inserts(jobs, m) => Inserts(Append(jobs, job), m))
      BY <1>a, <3>1, QueueAppend, InsertsKept
    <3>4. jobs' = Append(Append(jobs, job), SeenJob)
      BY <3>2, <3>3, JobConstructors, ConcatIsAppend
    <3>5. Inserts(jobs, m) => Inserts(jobs', m)
      BY <3>3, <3>4, InsertsKept, JobConstructors
    <3> QED
      BY <1>b, <2>1, <3>5, VerdictKept DEF Owed
  <2> QED
    BY <2>2, <2>3
<1>2. ASSUME NEW r \in Request, NEW p \in Media, MediaAccept(r, p) PROVE Verdict(m)'
  <2> DEFINE a == AnswerJob(r, "accepted")
             d == DeleteJob({r})
             v == SaveJob(p, "sending")
             q == Append(Append(jobs, a), d)
  <2>1. a \in Job /\ d \in Job /\ v \in Job /\ v.op = "save" /\ v.msgs = {p}
    BY <1>a, JobConstructors DEF SaveJob, Status
  <2>2. /\ outgoing' = [outgoing EXCEPT ![p] = "sending"] /\ jobs' = jobs \o <<a, d, v>>
        /\ live' = [live EXCEPT ![p] = @ + 1] /\ p \notin Saved
    BY <1>2 DEF MediaAccept, StartTimer
  <2> HIDE DEF a, d, v
  <2>3. Append(jobs, a) \in Seq(Job) /\ (Inserts(jobs, m) => Inserts(Append(jobs, a), m))
    BY <1>a, <2>1, QueueAppend, InsertsKept
  <2>4. q \in Seq(Job) /\ (Inserts(jobs, m) => Inserts(q, m))
    BY <2>1, <2>3, QueueAppend, InsertsKept
  <2>5. jobs' = Append(q, v)
    BY <1>a, <2>1, <2>2, ConcatIsAppend
  <2> HIDE DEF q
  <2>6. (Inserts(jobs, m) => Inserts(jobs', m)) /\ (m = p => Inserts(jobs', m))
    BY <2>1, <2>4, <2>5, InsertsKept
  <2>7. CASE m # p
    <3>1. Owed(m)' => Owed(m)
      BY <1>a, <1>b, <2>2, <2>7 DEF Owed
    <3>2. m \in Media /\ live[m] > 0 => live'[m] > 0
      BY <1>a, <2>2, <2>7
    <3> QED
      BY <1>b, <2>6, <3>1, <3>2, VerdictKept
  <2>8. CASE m = p
    BY <2>2, <2>6, <2>8 DEF Verdict, VerdictComes, Inserts
  <2> QED
    BY <2>7, <2>8
<1>3. ASSUME NEW r \in Request, LateAccept(r) PROVE Verdict(m)'
  <2> DEFINE a == AnswerJob(r, "accepted")
             d == DeleteJob({r})
  <2>1. a \in Job /\ d \in Job
    BY JobConstructors
  <2>2. UNCHANGED <<outgoing, live>> /\ jobs' = jobs \o <<a, d>>
    BY <1>3 DEF LateAccept
  <2> HIDE DEF a, d
  <2>3. Append(jobs, a) \in Seq(Job) /\ (Inserts(jobs, m) => Inserts(Append(jobs, a), m))
    BY <1>a, <2>1, QueueAppend, InsertsKept
  <2>4. jobs' = Append(Append(jobs, a), d)
    BY <1>a, <2>1, <2>2, ConcatIsAppend
  <2>5. Inserts(jobs, m) => Inserts(jobs', m)
    BY <2>1, <2>3, <2>4, InsertsKept
  <2> QED
    BY <1>b, <2>2, <2>5, VerdictKept DEF Owed
<1>4. ASSUME NEW r \in Request, MediaDecline(r) PROVE Verdict(m)'
  <2>1. UNCHANGED <<outgoing, live>> /\ jobs' = Append(jobs, AnswerJob(r, "declined"))
    BY <1>4 DEF MediaDecline
  <2>2. Inserts(jobs, m) => Inserts(jobs', m)
    BY <1>a, <2>1, InsertsKept, JobConstructors
  <2> QED
    BY <1>b, <2>1, <2>2, VerdictKept DEF Owed
<1> QED
  BY <1>1, <1>2, <1>3, <1>4 DEF Peer

(* What leaves the head of a queue is all that a queue loses.              *)
LEMMA InsertsTail ==
  ASSUME jobs \in Seq(Job), jobs # <<>>, NEW m, Inserts(jobs, m)
  PROVE  Inserts(Tail(jobs), m) \/ (Head(jobs).op = "save" /\ m \in Head(jobs).msgs)
<1>1. PICK i \in DOMAIN jobs : jobs[i].op = "save" /\ m \in jobs[i].msgs
  BY DEF Inserts
<1>2. CASE i = 1
  BY <1>1, <1>2, TailItems
<1>3. CASE i # 1
  <2>1. i - 1 \in DOMAIN Tail(jobs) /\ Tail(jobs)[i - 1] = jobs[i]
    BY <1>3, TailItems
  <2> QED
    BY <1>1, <2>1 DEF Inserts
<1> QED
  BY <1>2, <1>3

LEMMA HandsOverTail ==
  ASSUME replies \in Seq(Reply), replies # <<>>, NEW m, HandsOver(replies, m)
  PROVE  \/ HandsOver(Tail(replies), m)
         \/ Head(replies).ok /\ Head(replies).job.op = "save" /\ m \in Head(replies).job.msgs
<1>1. PICK i \in DOMAIN replies :
        replies[i].ok /\ replies[i].job.op = "save" /\ m \in replies[i].job.msgs
  BY DEF HandsOver
<1>2. CASE i = 1
  BY <1>1, <1>2, TailItems
<1>3. CASE i # 1
  <2>1. i - 1 \in DOMAIN Tail(replies) /\ Tail(replies)[i - 1] = replies[i]
    BY <1>3, TailItems
  <2> QED
    BY <1>1, <2>1 DEF HandsOver
<1> QED
  BY <1>2, <1>3

LEMMA HandsOverAppend ==
  ASSUME replies \in Seq(Reply), NEW new \in Reply, NEW m
  PROVE  /\ HandsOver(replies, m) => HandsOver(Append(replies, new), m)
         /\ new.ok /\ new.job.op = "save" /\ m \in new.job.msgs
              => HandsOver(Append(replies, new), m)
<1>1. /\ DOMAIN Append(replies, new) = DOMAIN replies \cup {Len(replies) + 1}
      /\ Append(replies, new)[Len(replies) + 1] = new
      /\ \A i \in DOMAIN replies : Append(replies, new)[i] = replies[i]
  OBVIOUS
<1> QED
  BY <1>1 DEF HandsOver

(* An INSERT that succeeds leaves a callback that hands the message over;  *)
(* one that fails puts its message on record.                              *)
LEMMA VerdictWorker == TypeOK /\ VerdictInv /\ (WorkerStep \/ WorkerFault) => VerdictInv'
<1> SUFFICES ASSUME TypeOK, VerdictInv, WorkerStep \/ WorkerFault PROVE VerdictInv'
  OBVIOUS
<1> DEFINE job  == Head(jobs)
           done == [job |-> job, rows |-> Selected(job),
                    ok |-> job.op = "find" => \A m \in job.msgs : rows[m] # "none"]
           lost == [job |-> job, ok |-> FALSE, rows |-> Blank]
           Good == {reply \in Reply : Honest(reply)'}
<1>1. /\ jobs \in Seq(Job) /\ jobs # <<>> /\ jobs' = Tail(jobs) /\ job \in Job
      /\ replies \in Seq(Reply)
  BY QueueHead DEF WorkerStep, WorkerFault, TypeOK, QueueTypes
<1>2. UNCHANGED <<outgoing, live, requests, responses>>
  BY DEF WorkerStep, WorkerFault, gui, timer, net
<1>3. faulted \subseteq faulted'
  BY DEF WorkerStep, WorkerFault
<1>4. replies \in Seq(Good)
  <2>1. {reply \in Reply : Honest(reply)} \subseteq Good
    BY <1>3 DEF Honest
  <2>2. replies \in Seq({reply \in Reply : Honest(reply)})
    BY DEF VerdictInv
  <2> HIDE DEF Good
  <2> QED
    BY <2>1, <2>2, SeqMonotonic
<1>5. done \in Reply /\ lost \in Reply
  BY <1>1, HelperTypes, FreshPieces DEF Reply
<1>6. ASSUME NEW m \in Msg, Verdict(m), HandsOver(replies, m) => HandsOver(replies', m),
             Owed(m)', job.op = "save" => m \notin job.msgs \/ HandsOver(replies', m)
      PROVE  Verdict(m)'
  <2>1. Owed(m)
    BY <1>2, <1>3, <1>6 DEF Owed
  <2>2. Inserts(jobs, m) => Inserts(jobs', m) \/ HandsOver(replies', m)
    BY <1>1, <1>6, InsertsTail
  <2>3. VerdictComes(m) => VerdictComes(m)'
    BY <1>2, <1>6, <2>2 DEF VerdictComes, Inserts, HandsOver
  <2> QED
    BY <1>2, <1>6, <2>1, <2>3 DEF Verdict
<1>7. CASE WorkerStep
  <2>1. \/ HasCallback(job) /\ replies' = Append(replies, done)
        \/ ~HasCallback(job) /\ replies' = replies
    BY <1>7 DEF WorkerStep
  <2>2. done \in Good
    BY <1>5 DEF Honest
  <2>3. job.op = "save" => HasCallback(job) /\ done.ok /\ done.job = job
    BY DEF HasCallback
  <2> HIDE DEF job, done, lost, Good
  <2>4. replies' \in Seq(Good)
    BY <1>4, <2>1, <2>2, QueueAppend
  <2>5. \A m \in Msg : /\ HandsOver(replies, m) => HandsOver(replies', m)
                       /\ job.op = "save" /\ m \in job.msgs => HandsOver(replies', m)
    BY <1>1, <1>5, <2>1, <2>3, HandsOverAppend
  <2>6. \A m \in Msg : Verdict(m)'
    <3> SUFFICES ASSUME NEW m \in Msg, Owed(m)' PROVE Verdict(m)'
      BY DEF Verdict
    <3>1. Verdict(m)
      BY DEF VerdictInv
    <3>2. HandsOver(replies, m) => HandsOver(replies', m)
      BY <2>5
    <3>3. job.op = "save" => m \notin job.msgs \/ HandsOver(replies', m)
      BY <2>5, <3>1
    <3> QED
      BY <1>6, <3>1, <3>2, <3>3
  <2> QED
    BY <2>4, <2>6 DEF VerdictInv, Good
<1>8. CASE WorkerFault
  <2>1. replies' = replies \/ replies' = Append(replies, lost)
    BY <1>8 DEF WorkerFault
  <2>2. job.op = "save" => job.msgs \subseteq faulted'
    BY <1>8 DEF WorkerFault
  <2>3. lost \in Good
    BY <1>5, <2>2 DEF Honest
  <2> HIDE DEF job, done, lost, Good
  <2>4. replies' \in Seq(Good)
    BY <1>4, <2>1, <2>3, QueueAppend
  <2>5. \A m \in Msg : HandsOver(replies, m) => HandsOver(replies', m)
    BY <1>1, <1>5, <2>1, HandsOverAppend
  <2>6. \A m \in Msg : Verdict(m)'
    <3> SUFFICES ASSUME NEW m \in Msg, Owed(m)' PROVE Verdict(m)'
      BY DEF Verdict
    <3>1. Verdict(m) /\ (job.op = "save" => m \notin job.msgs)
      BY <2>2 DEF VerdictInv, Owed
    <3>2. HandsOver(replies, m) => HandsOver(replies', m)
      BY <2>5
    <3>3. job.op = "save" => m \notin job.msgs \/ HandsOver(replies', m)
      BY <2>5, <3>1
    <3> QED
      BY <1>6, <3>1, <3>2, <3>3
  <2> QED
    BY <2>4, <2>6 DEF VerdictInv, Good
<1> QED
  BY <1>7, <1>8

LEMMA VerdictCallback == TypeOK /\ VerdictInv /\ Callback => VerdictInv'
<1> SUFFICES ASSUME TypeOK, VerdictInv, Callback PROVE VerdictInv'
  OBVIOUS
<1> DEFINE reply == Head(replies)
           Good  == {r \in Reply : Honest(r)}
<1>a. /\ jobs \in Seq(Job) /\ replies \in Seq(Reply) /\ live \in [Media -> Nat]
      /\ requests \in [Msg -> Nat]
  BY DEF TypeOK, QueueTypes, TimerTypes, NetTypes
<1> USE DEF gui, timer, media, net, view
<1>1. UNCHANGED <<faulted, responses>>
  BY DEF Callback, OnSaved, OnSaveFailed, OnAnswered, OnSeen, OnFound, OnLoaded
<1>2. replies # <<>> /\ replies' = Tail(replies)
  BY DEF Callback, NextReply, OnSaved, OnSaveFailed, OnAnswered, OnSeen, OnFound, OnLoaded
<1>3. Honest(reply) /\ replies' \in Seq(Good)
  <2>1. replies \in Seq(Good)
    BY DEF VerdictInv
  <2> HIDE DEF Good
  <2>2. reply \in Good /\ replies' \in Seq(Good)
    BY <1>2, <2>1, QueueHead
  <2> QED
    BY <2>2 DEF Good
<1>4. replies' \in Seq({r \in Reply : Honest(r)'})
  <2>1. {r \in Reply : Honest(r)'} = Good
    BY <1>1 DEF Honest
  <2> QED
    BY <1>3, <2>1
<1> SUFFICES ASSUME NEW m \in Msg, Verdict(m) PROVE Verdict(m)'
  BY <1>4 DEF VerdictInv
<1> HIDE DEF Good
<1>5. HandsOver(replies, m) =>
        HandsOver(replies', m) \/ (reply.ok /\ reply.job.op = "save" /\ m \in reply.job.msgs)
  BY <1>a, <1>2, HandsOverTail
<1>6. ASSUME reply.job.op # "save", Owed(m)' => Owed(m), UNCHANGED <<live, requests>>,
             Inserts(jobs, m) => Inserts(jobs', m)
      PROVE  Verdict(m)'
  BY <1>1, <1>5, <1>6, VerdictKept
<1>7. CASE OnSaved
  <2>1. /\ ReplyMsg \in Msg /\ reply.job.msgs = {ReplyMsg}
        /\ UNCHANGED <<outgoing, live, jobs>>
    BY <1>7, NextReplyTypes DEF OnSaved
  <2>2. /\ ReplyMsg \notin Saved => requests' = [requests EXCEPT ![ReplyMsg] = @ + 1]
        /\ ReplyMsg \in Saved => requests' = requests
    BY <1>7 DEF OnSaved
  <2>3. Owed(m)' = Owed(m)
    BY <1>1, <2>1 DEF Owed
  <2>4. CASE m \in Saved
    BY <2>1, <2>3, <2>4 DEF Verdict
  <2>5. CASE m \notin Saved
    <3>1. /\ m = ReplyMsg => requests'[m] = requests[m] + 1
          /\ m # ReplyMsg => requests'[m] = requests[m]
      BY <1>a, <2>2, <2>5
    <3>2. requests[m] \in Nat
      BY <1>a
    <3>3. requests[m] > 0 \/ m = ReplyMsg => requests'[m] > 0
      BY <3>1, <3>2
    <3>4. HandsOver(replies, m) => HandsOver(replies', m) \/ requests'[m] > 0
      BY <1>5, <2>1, <3>3
    <3>5. VerdictComes(m) => VerdictComes(m)'
      BY <1>1, <2>1, <3>3, <3>4 DEF VerdictComes, Inserts, HandsOver
    <3> QED
      BY <2>3, <2>5, <3>5 DEF Verdict
  <2> QED
    BY <2>4, <2>5
<1>8. CASE OnSaveFailed
  <2>1. /\ ReplyMsg \in Msg /\ reply.job.msgs = {ReplyMsg} /\ StopTimer(ReplyMsg)
        /\ UNCHANGED <<outgoing, jobs, requests>> /\ reply.job.op = "save" /\ ~reply.ok
    BY <1>8, NextReplyTypes DEF OnSaveFailed, NextReply
  <2>2. ReplyMsg \in faulted
    BY <1>3, <2>1 DEF Honest
  <2>3. CASE m = ReplyMsg
    BY <1>1, <2>2, <2>3 DEF Verdict, Owed
  <2>4. CASE m # ReplyMsg
    <3>1. m \in Media => live'[m] = live[m]
      BY <1>a, <2>1, <2>4 DEF StopTimer
    <3> QED
      BY <1>1, <1>5, <2>1, <3>1, VerdictKept DEF Owed
  <2> QED
    BY <2>3, <2>4
<1>9. CASE OnAnswered \/ OnSeen
  <2>1. UNCHANGED <<outgoing, live, requests, jobs>> /\ reply.job.op # "save"
    BY <1>9 DEF OnAnswered, OnSeen, NextReply
  <2> QED
    BY <1>1, <1>6, <2>1 DEF Owed
<1>10. CASE OnFound
  <2>1. ReplyMsg \in Msg /\ reply.job.op = "find"
    BY <1>10, NextReplyTypes DEF OnFound, NextReply
  <2>2. CASE reply.ok
    <3>1. ExecuteRetry(ReplyMsg)
      BY <1>10, <2>2 DEF OnFound
    <3> QED
      BY <1>1, <1>5, <2>1, <3>1, VerdictExecuteRetry
  <2>3. CASE ~reply.ok
    <3>1. UNCHANGED <<outgoing, live, requests, jobs>>
      BY <1>10, <2>3 DEF OnFound
    <3> QED
      BY <1>1, <1>6, <2>1, <3>1 DEF Owed
  <2> QED
    BY <2>2, <2>3
<1>11. CASE OnLoaded
  <2> DEFINE stale == {r \in Request : reply.rows[r] = "accepted"}
             d     == DeleteJob(stale)
  <2>1. /\ UNCHANGED <<outgoing, live, requests>> /\ (jobs' = jobs \/ jobs' = Append(jobs, d))
        /\ reply.job.op # "save"
    BY <1>11 DEF OnLoaded, NextReply
  <2>2. d \in Job
    BY JobConstructors
  <2> HIDE DEF d
  <2>3. Inserts(jobs, m) => Inserts(Append(jobs, d), m)
    BY <1>a, <2>2, InsertsKept
  <2>4. Inserts(jobs, m) => Inserts(jobs', m)
    BY <2>1, <2>3
  <2> QED
    BY <1>1, <1>6, <2>1, <2>4 DEF Owed
<1> QED
  BY <1>7, <1>8, <1>9, <1>10, <1>11 DEF Callback

LEMMA VerdictRestart == Restart => VerdictInv'
<1> SUFFICES ASSUME Restart PROVE VerdictInv'
  OBVIOUS
<1>1. outgoing' = Blank /\ replies' = <<>>
  BY DEF Restart
<1>2. \A m \in Msg : ~Owed(m)'
  BY <1>1 DEF Owed, Blank
<1> QED
  BY <1>1, <1>2, EmptySeq DEF VerdictInv, Verdict

LEMMA VerdictStep == TypeOK /\ VerdictInv /\ [Next]_vars => VerdictInv'
<1>1. ASSUME VerdictInv, UNCHANGED vars PROVE VerdictInv'
  <2>1. UNCHANGED <<outgoing, live, jobs, replies, faulted, requests, responses>>
    BY <1>1 DEF vars, gui, timer, store, net
  <2>2. \A m \in Msg : Verdict(m)' = Verdict(m)
    BY <2>1 DEF Verdict, Owed, VerdictComes, Inserts, HandsOver
  <2>3. replies' \in Seq({reply \in Reply : Honest(reply)'})
    BY <1>1, <2>1, RepliesKept
  <2> QED
    BY <1>1, <2>2, <2>3 DEF VerdictInv
<1> QED
  BY <1>1, VerdictUser, VerdictRelay, VerdictPeer, VerdictWorker, VerdictCallback, VerdictRestart
     DEF Next

(* For every set of messages and every bound, with restarts and failing    *)
(* statements: while the user is told "sending", something is under way    *)
(* that ends in a verdict.                                                 *)
THEOREM VerdictCorrect == Spec => []VerdictIsUnderWay
<1>1. Spec => []VerdictInv
  BY TypeInit, TypeStep, VerdictInit, VerdictStep, PTL DEF Spec
<1>2. VerdictInv => VerdictIsUnderWay
  BY DEF VerdictInv, Verdict, Owed, VerdictComes, VerdictIsUnderWay
<1> QED
  BY <1>1, <1>2, PTL

(* So once everything is at rest, no message the process still knows is    *)
(* left "sending" in the database: SendingEnds without its fairness.       *)
THEOREM NothingLeftSending ==
  Spec => [](AtRest /\ (\A m \in Media : live[m] = 0) =>
               \A m \in Msg : outgoing[m] # "none" /\ m \notin faulted => rows[m] # "sending")
<1> DEFINE Rested  == AtRest /\ \A m \in Media : live[m] = 0
           Settles == \A m \in Msg :
                        outgoing[m] # "none" /\ m \notin faulted => rows[m] # "sending"
<1>1. TypeOK /\ CacheAgreesWithStore /\ VerdictIsUnderWay => (Rested => Settles)
  <2> SUFFICES ASSUME TypeOK, CacheAgreesWithStore, VerdictIsUnderWay, Rested,
                      NEW m \in Msg, outgoing[m] # "none", m \notin faulted
               PROVE  rows[m] # "sending"
    OBVIOUS
  <2>1. /\ jobs = <<>> /\ replies = <<>> /\ requests[m] = 0 /\ responses[m] = 0
        /\ m \in Media => live[m] = 0
    BY DEF AtRest, TypeOK, NetTypes
  <2>2. ~VerdictComes(m)
    BY <2>1 DEF VerdictComes, Inserts, HandsOver
  <2>3. outgoing[m] # "sending"
    BY <2>2 DEF VerdictIsUnderWay
  <2>4. Writers(m) = {}
    BY <2>1 DEF Writers
  <2>5. Settled(m, rows[m])
    BY <2>4 DEF CacheAgreesWithStore
  <2> QED
    BY <2>3, <2>5 DEF Settled
<1> HIDE DEF Rested, Settles
<1>2. Spec => [](Rested => Settles)
  BY <1>1, TypeCorrect, CacheCorrect, VerdictCorrect, PTL
<1> QED
  BY <1>2 DEF Rested, Settles
=============================================================================
