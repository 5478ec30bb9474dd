---------------------------- MODULE MessageService ----------------------------
(***************************************************************************)
(* The sending side of services/messageservice.cpp together with the three *)
(* parties it talks to: the SQL worker thread of                           *)
(* storage/sqlmessagerepository.cpp (a FIFO of jobs, whose callbacks are   *)
(* queued back to the GUI thread), the relay behind                        *)
(* RelayService::sendDomainMessage (an asynchronous POST), and the chat    *)
(* view of core/chatmessagemodel.cpp that displays what it is told.        *)
(*                                                                         *)
(* One user talks to one peer; the user also has the local "saved          *)
(* messages" conversation.  Every GUI-thread handler is one action.  The   *)
(* SQL worker, the network, the peer, the timers and a process restart     *)
(* interleave with them freely.                                            *)
(***************************************************************************)
EXTENDS Naturals, Sequences, FiniteSets

CONSTANTS
  Text,      \* ids of messages sent with type "text"
  Media,     \* ids of voice notes, stickers and media payloads
  Request,   \* ids of "media_request" offers
  Saved,     \* those of Text \cup Media that belong to saved-messages
  Budget,    \* bound: how often each environment event of Events may happen
  MaxEvents, \* bound: how many of these events one behaviour may combine
  MaxMessages \* bound: how many messages one behaviour may create

Msg == Text \cup Media \cup Request

Events == {"retry", "cancel", "receipt", "answer", "open", "fault", "restart"}

ASSUME MessageAssumption ==
  /\ Text \cap Media = {}
  /\ Text \cap Request = {}
  /\ Media \cap Request = {}
  /\ Saved \subseteq Text \cup Media
  /\ Budget \in [Events -> Nat]
  /\ MaxEvents \in Nat /\ MaxMessages \in Nat
  /\ "none" \notin Msg

(* Domain::MessageStatus; "none" stands for a message that is not there.   *)
Status == {"sending", "sent", "failed", "seen", "pending", "accepted", "declined"}
MaybeStatus == Status \cup {"none"}

(* The two conversations, as the sets of messages they hold.               *)
Direct == Msg \ Saved
Notes  == Saved

VARIABLES
  created,    \* ids handed out so far: QUuid::createUuid never repeats one
  outgoing,   \* m_outgoingMessages: the cached status
  pending,    \* m_pendingMediaRequests: the cached errorText of the offer
  registered, \* the keys of m_activeTransfers
  live,       \* QTimers still running, registered or overwritten, per message
  origin,     \* the request a payload answers (errorText of the payload)
  paidType,   \* the type the payload was given
  jobs,       \* queued SQL jobs
  replies,    \* finished SQL jobs whose callback waits in the GUI event loop
  rows,       \* status column of the messages table
  requests,   \* POST relay/send calls the relay has not seen yet
  responses,  \* accepted POST calls whose answer is on its way
  relayed,    \* messages the relay has accepted at least once
  active,     \* the conversation on screen
  shown,      \* the status each item of the chat view displays
  faulted,    \* history: messages a failed SQL statement concerned
  spent       \* how much of Budget has been used

gui   == <<outgoing, pending>>
timer == <<registered, live>>
media == <<origin, paidType>>
store == <<jobs, replies, rows, faulted>>
net   == <<requests, responses, relayed>>
view  == <<active, shown>>
vars  == <<created, gui, timer, media, store, net, view, spent>>

(* The mediaType an offer carries in errorText: still there, overwritten   *)
(* with the empty string, or overwritten with the text of an error.        *)
Offered == {"type", "empty", "error"}

(* A job of the worker: what it does, to which rows, with which status.    *)
Job ==
       [op : {"save", "update"}, msgs : {{m} : m \in Msg}, status : Status]
  \cup [op : {"answer"}, msgs : {{r} : r \in Request}, status : {"accepted", "declined"}]
  \cup [op : {"seen"}, msgs : {Direct}, status : {"seen"}]
  \cup [op : {"delete"}, msgs : SUBSET Request, status : {"none"}]
  \cup [op : {"find"}, msgs : {{m} : m \in Msg}, status : {"none"}]
  \cup [op : {"load"}, msgs : {Direct, Notes}, status : {"none"}]

Reply == [job : Job, ok : BOOLEAN, rows : [Msg -> MaybeStatus]]

Blank == [m \in Msg |-> "none"]

CacheTypes ==
  /\ outgoing \in [Msg -> MaybeStatus]
  /\ pending \in [Request -> Offered \cup {"none"}]
  /\ origin \in [Media -> Request \cup {"none"}]
  /\ paidType \in [Media -> Offered \cup {"none"}]

ViewTypes == active \in {Direct, Notes} /\ shown \in [Msg -> MaybeStatus]

TimerTypes ==
  /\ registered \subseteq Media
  /\ live \in [Media -> Nat]
  /\ \A m \in registered : live[m] > 0

QueueTypes == jobs \in Seq(Job) /\ replies \in Seq(Reply)

StoreTypes == rows \in [Msg -> MaybeStatus] /\ faulted \subseteq Msg

NetTypes ==
  /\ requests \in [Msg -> Nat]
  /\ responses \in [Msg -> Nat]
  /\ relayed \subseteq Msg

BoundTypes == created \subseteq Msg /\ spent \in [Events -> Nat]

TypeOK ==
  /\ CacheTypes
  /\ ViewTypes
  /\ TimerTypes
  /\ QueueTypes
  /\ StoreTypes
  /\ NetTypes
  /\ BoundTypes

Init ==
  /\ created = {}
  /\ outgoing = Blank
  /\ pending = [r \in Request |-> "none"]
  /\ registered = {}
  /\ live = [m \in Media |-> 0]
  /\ origin = [m \in Media |-> "none"]
  /\ paidType = [m \in Media |-> "none"]
  /\ jobs = <<>>
  /\ replies = <<>>
  /\ rows = Blank
  /\ requests = [m \in Msg |-> 0]
  /\ responses = [m \in Msg |-> 0]
  /\ relayed = {}
  /\ active = Direct
  /\ shown = Blank
  /\ faulted = {}
  /\ spent = [e \in Events |-> 0]

EventCount ==
  spent["retry"] + spent["cancel"] + spent["receipt"] + spent["answer"]
  + spent["open"] + spent["fault"] + spent["restart"]

Spend(e) ==
  /\ spent[e] < Budget[e] /\ EventCount < MaxEvents
  /\ spent' = [spent EXCEPT ![e] = @ + 1]

(* QUuid::createUuid: an id nobody has used.                               *)
Create(m) ==
  /\ m \notin created /\ Cardinality(created) < MaxMessages
  /\ created' = created \cup {m}

-----------------------------------------------------------------------------
(* Pieces the handlers share.                                              *)

(* Mutant: a failure is left out of the table, to be tried again later.     *)
FailureUnsaved(m, s) ==
  [op |-> "update", msgs |-> {m}, status |-> IF s = "failed" THEN "sending" ELSE s]

SaveJob(m, s)   == [op |-> "save",   msgs |-> {m}, status |-> s]
UpdateJob(m, s) == [op |-> "update", msgs |-> {m}, status |-> s]
AnswerJob(m, s) == [op |-> "answer", msgs |-> {m}, status |-> s]
SeenJob         == [op |-> "seen",   msgs |-> Direct, status |-> "seen"]
DeleteJob(S)    == [op |-> "delete", msgs |-> S, status |-> "none"]
FindJob(m)      == [op |-> "find",   msgs |-> {m}, status |-> "none"]
LoadJob(C)      == [op |-> "load",   msgs |-> C, status |-> "none"]

(* ChatMessageModel::onMessageUpdated changes an item only if it is there. *)
Show(S, s) == [m \in Msg |-> IF m \in S /\ shown[m] # "none" THEN s ELSE shown[m]]

(* ChatMessageModel::onMessageAdded ignores other conversations.           *)
ShowNew(m, s) == IF m \in active THEN [shown EXCEPT ![m] = s] ELSE shown

(* Mutant: the handler updates the database and forgets the cache.         *)
CacheForgotten(m, s) == outgoing

(* A status change of a message the cache still holds.                     *)
Cache(m, s) == IF outgoing[m] = "none" THEN outgoing ELSE [outgoing EXCEPT ![m] = s]

(* handleMessageDeliveryStatus writes its errorText over the offer's.      *)
Overwrite(m, e) ==
  [r \in Request |-> IF r = m /\ pending[r] # "none" THEN e ELSE pending[r]]

(* m_activeTransfers.insert: an older timer of m keeps running.            *)
StartTimer(m) ==
  /\ live' = [live EXCEPT ![m] = @ + 1]
  /\ registered' = registered \cup {m}

(* Mutant: the timer is stopped without asking whether one is registered.  *)
StopAnyTimer(m) ==
  /\ live' = [live EXCEPT ![m] = @ - 1]
  /\ registered' = registered \ {m}

(* m_activeTransfers.take, stop: only the registered timer is reached.     *)
StopTimer(m) ==
  /\ live' = IF m \in registered THEN [live EXCEPT ![m] = @ - 1] ELSE live
  /\ registered' = registered \ {m}

-----------------------------------------------------------------------------
(* What the user does.                                                     *)

(* Mutant: a text is born "sent", saved-messages or not.                   *)
FirstStatusSent(m) == IF m \in Text THEN "sent" ELSE "sending"

FirstStatus(m) == IF m \in Saved \cap Text THEN "sent" ELSE "sending"

(* sendMessage: optimistic insert, simulated progress timer, queued save.  *)
SendMessage(m) ==
  /\ Create(m)
  /\ outgoing' = [outgoing EXCEPT ![m] = FirstStatus(m)]
  /\ shown' = ShowNew(m, FirstStatus(m))
  /\ IF m \in Media THEN StartTimer(m) ELSE UNCHANGED timer
  /\ jobs' = Append(jobs, SaveJob(m, FirstStatus(m)))
  /\ UNCHANGED <<pending, media, replies, rows, faulted, net, active, spent>>

(* sendMediaRequest in a direct conversation.                              *)
SendMediaRequest(r) ==
  /\ Create(r)
  /\ pending' = [pending EXCEPT ![r] = "type"]
  /\ outgoing' = [outgoing EXCEPT ![r] = "pending"]
  /\ shown' = ShowNew(r, "pending")
  /\ jobs' = Append(jobs, SaveJob(r, "pending"))
  /\ UNCHANGED <<timer, media, replies, rows, faulted, net, active, spent>>

(* cancelMediaTransfer, offered by the view while a transfer is running.   *)
Cancel(m) ==
  /\ m \in registered
  /\ shown[m] # "none"
  /\ Spend("cancel")
  /\ StopTimer(m)
  /\ outgoing' = Cache(m, "failed")
  /\ jobs' = Append(jobs, UpdateJob(m, "failed"))
  /\ shown' = Show({m}, "failed")
  /\ UNCHANGED <<created, pending, media, replies, rows, faulted, net, active>>

(* executeRetry, run at once or from the callback of a lookup.             *)
ExecuteRetry(m) ==
  IF m \in Saved
  THEN /\ outgoing' = [outgoing EXCEPT ![m] = "sent"]
       /\ jobs' = Append(jobs, UpdateJob(m, "sent"))
       /\ shown' = Show({m}, "sent")
       /\ UNCHANGED <<pending, timer, requests>>
  ELSE /\ outgoing' = [outgoing EXCEPT ![m] = "sending"]
       /\ jobs' = Append(jobs, UpdateJob(m, "sending"))
       /\ shown' = Show({m}, "sending")
       /\ IF m \in Media THEN StartTimer(m) ELSE UNCHANGED timer
       /\ pending' = IF m \in Request THEN [pending EXCEPT ![m] = "empty"] ELSE pending
       /\ requests' = [requests EXCEPT ![m] = @ + 1]

(* retryMessage.  The bubble offers it on a failed message; the audio and  *)
(* video players also call it after a playback error, whatever the status. *)
Retry(m) ==
  /\ \/ shown[m] = "failed"
     \/ m \in Media /\ shown[m] # "none"
  /\ Spend("retry")
  /\ IF outgoing[m] # "none"
     THEN ExecuteRetry(m)
     ELSE /\ jobs' = Append(jobs, FindJob(m))
          /\ UNCHANGED <<gui, timer, requests, shown>>
  /\ UNCHANGED <<created, media, replies, rows, faulted, responses, relayed, active>>

(* A channel switch: the view is cleared, then loadConversation is queued. *)
(* The one that begins a session, with nothing on screen yet, is free.     *)
OpenConversation(C) ==
  /\ \/ Spend("open")
     \/ created # {} /\ shown = Blank /\ jobs = <<>> /\ replies = <<>> /\ UNCHANGED spent
  /\ active' = C
  /\ shown' = Blank
  /\ jobs' = Append(jobs, LoadJob(C))
  /\ UNCHANGED <<created, gui, timer, media, replies, rows, faulted, net>>

-----------------------------------------------------------------------------
(* Timers and the relay.                                                   *)

(* The last tick of a progress timer; a payload's first timer also updates *)
(* the card of the request it answers.                                     *)
TimerDone(m) ==
  /\ live[m] > 0
  /\ live' = [live EXCEPT ![m] = @ - 1]
  /\ registered' = registered \ {m}
  /\ outgoing' = Cache(m, "sent")
  /\ jobs' = Append(jobs, UpdateJob(m, "sent"))
  /\ \E S \in {{m}, {m, origin[m]}} : shown' = Show(S, "sent")
  /\ UNCHANGED <<created, pending, media, replies, rows, faulted, net, active, spent>>

(* The relay stores the message; its answer is still on the way.           *)
RelayAccepts(m) ==
  /\ requests[m] > 0
  /\ requests' = [requests EXCEPT ![m] = @ - 1]
  /\ responses' = [responses EXCEPT ![m] = @ + 1]
  /\ relayed' = relayed \cup {m}
  /\ UNCHANGED <<created, gui, timer, media, store, view, spent>>

(* handleMessageDeliveryStatus(id, true, ""): ignored while the transfer   *)
(* of the message is still in progress.                                    *)
DeliverySucceeded(m) ==
  /\ responses[m] > 0
  /\ responses' = [responses EXCEPT ![m] = @ - 1]
  /\ IF m \in registered
     THEN UNCHANGED <<gui, jobs, shown>>
     ELSE /\ outgoing' = Cache(m, "sent")
          /\ pending' = Overwrite(m, "empty")
          /\ jobs' = Append(jobs, UpdateJob(m, "sent"))
          /\ shown' = Show({m}, "sent")
  /\ UNCHANGED <<created, timer, media, replies, rows, faulted, requests, relayed, active, spent>>

(* handleMessageDeliveryStatus(id, false, error): the call was refused,    *)
(* never arrived, or its answer was lost after the relay took the message. *)
DeliveryFailed(m) ==
  /\ \/ /\ requests[m] > 0
        /\ requests' = [requests EXCEPT ![m] = @ - 1]
        /\ UNCHANGED responses
     \/ /\ responses[m] > 0
        /\ responses' = [responses EXCEPT ![m] = @ - 1]
        /\ UNCHANGED requests
  /\ StopTimer(m)
  /\ outgoing' = Cache(m, "failed")
  /\ pending' = Overwrite(m, "error")
  /\ jobs' = Append(jobs, UpdateJob(m, "failed"))
  /\ shown' = Show({m}, "failed")
  /\ UNCHANGED <<created, media, replies, rows, faulted, relayed, active, spent>>

-----------------------------------------------------------------------------
(* What the peer sends back: handleIncomingMessages, branch by branch.     *)

(* "message_seen" for one message or for "all" (no target).                *)
SeenReceipt(target) ==
  /\ relayed # {} /\ target \subseteq relayed
  /\ Spend("receipt")
  /\ jobs' = (IF target = {} THEN jobs
              ELSE Append(jobs, [op |-> "update", msgs |-> target, status |-> "seen"]))
             \o <<SeenJob>>
  /\ UNCHANGED <<created, gui, timer, media, replies, rows, faulted, net, view>>

(* Mutant: value() where the code says take().                             *)
KeepOffer(r) == pending

(* m_pendingMediaRequests.take.                                            *)
TakeOffer(r) == [pending EXCEPT ![r] = "none"]

(* "media_accept" for an offer the cache knows: the card goes, and the     *)
(* payload, a fresh message, starts its transfer.                          *)
MediaAccept(r, p) ==
  /\ r \in Request \cap relayed
  /\ pending[r] # "none"
  /\ p \notin Saved
  /\ Spend("answer")
  /\ Create(p)
  /\ pending' = TakeOffer(r)
  /\ origin' = [origin EXCEPT ![p] = r]
  /\ paidType' = [paidType EXCEPT ![p] = pending[r]]
  /\ outgoing' = [outgoing EXCEPT ![p] = "sending"]
  /\ shown' = [ShowNew(p, "sending") EXCEPT ![r] = "none"]
  /\ StartTimer(p)
  /\ jobs' = jobs \o <<AnswerJob(r, "accepted"), DeleteJob({r}), SaveJob(p, "sending")>>
  /\ UNCHANGED <<replies, rows, faulted, net, active>>

(* "media_accept" for an offer that is not pending (any more).             *)
LateAccept(r) ==
  /\ r \in Request \cap relayed
  /\ pending[r] = "none"
  /\ Spend("answer")
  /\ shown' = [shown EXCEPT ![r] = "none"]
  /\ jobs' = jobs \o <<AnswerJob(r, "accepted"), DeleteJob({r})>>
  /\ UNCHANGED <<created, gui, media, timer, replies, rows, faulted, net, active>>

(* "media_decline".                                                        *)
MediaDecline(r) ==
  /\ r \in Request \cap relayed
  /\ Spend("answer")
  /\ pending' = TakeOffer(r)
  /\ jobs' = Append(jobs, AnswerJob(r, "declined"))
  /\ UNCHANGED <<created, outgoing, timer, media, replies, rows, faulted, net, view>>

-----------------------------------------------------------------------------
(* The SQL worker.                                                         *)

(* Callbacks that change state; those of the other jobs only log.          *)
HasCallback(job) == job.op \in {"save", "answer", "seen", "find", "load"}

(* Mutant: the save is an UPDATE, which changes nothing for a new message. *)
AfterUpdateOnly(job) ==
  [m \in Msg |->
     IF m \notin job.msgs \/ job.op \in {"find", "load"} \/ rows[m] = "none" THEN rows[m]
     ELSE job.status]

(* The messages table after a statement: INSERT OR REPLACE, UPDATE of the  *)
(* rows that exist, DELETE, or a SELECT.                                   *)
After(job) ==
  [m \in Msg |->
     IF m \notin job.msgs \/ job.op \in {"find", "load"} THEN rows[m]
     ELSE IF job.op \in {"save", "delete"} \/ rows[m] # "none" THEN job.status
     ELSE "none"]

Selected(job) ==
  [m \in Msg |-> IF m \in job.msgs /\ job.op = "load" THEN rows[m] ELSE "none"]

(* The worker executes the oldest job and queues its callback.             *)
WorkerStep ==
  /\ jobs # <<>>
  /\ LET job == Head(jobs) IN
       /\ jobs' = Tail(jobs)
       /\ rows' = After(job)
       /\ replies' = IF HasCallback(job)
                     THEN Append(replies,
                            [job |-> job, rows |-> Selected(job),
                             ok |-> job.op = "find" => \A m \in job.msgs : rows[m] # "none"])
                     ELSE replies
  /\ UNCHANGED <<created, gui, timer, media, net, view, faulted, spent>>

(* The statement fails (database not open, disk full): no row changes, a   *)
(* SELECT yields nothing.                                                  *)
WorkerFault ==
  /\ jobs # <<>>
  /\ Spend("fault")
  /\ LET job == Head(jobs) IN
       /\ jobs' = Tail(jobs)
       /\ faulted' = IF job.op \in {"find", "load"} THEN faulted ELSE faulted \cup job.msgs
       /\ replies' = IF HasCallback(job)
                     THEN Append(replies, [job |-> job, ok |-> FALSE, rows |-> Blank])
                     ELSE replies
  /\ UNCHANGED <<created, gui, timer, media, rows, net, view>>

-----------------------------------------------------------------------------
(* Callbacks of SQL jobs, in order, on the GUI thread.                     *)

NextReply(op) == replies # <<>> /\ Head(replies).job.op = op /\ replies' = Tail(replies)
ReplyMsg      == CHOOSE m \in Msg : Head(replies).job.msgs = {m}

(* Mutant: a transfer is left to its progress timer, which only simulates. *)
OnSavedWithoutMedia ==
  /\ NextReply("save") /\ Head(replies).ok
  /\ LET m == ReplyMsg IN
       requests' = IF m \in Saved \cup Media THEN requests ELSE [requests EXCEPT ![m] = @ + 1]
  /\ UNCHANGED <<created, gui, timer, media, jobs, rows, faulted, responses, relayed, view, spent>>

(* saveMessageAsync succeeded: only now is the message handed to the relay.*)
OnSaved ==
  /\ NextReply("save") /\ Head(replies).ok
  /\ LET m == ReplyMsg IN
       IF m \notin Saved
       THEN /\ requests' = [requests EXCEPT ![m] = @ + 1]
            /\ UNCHANGED shown
       ELSE /\ shown' = IF m \in Text THEN Show({m}, "sent") ELSE shown
            /\ UNCHANGED requests
  /\ UNCHANGED <<created, gui, timer, media, jobs, rows, faulted, responses, relayed, active, spent>>

(* saveMessageAsync failed: the cache keeps the status it had.             *)
OnSaveFailed ==
  /\ NextReply("save") /\ ~Head(replies).ok
  /\ StopTimer(ReplyMsg)
  /\ shown' = Show({ReplyMsg}, "failed")
  /\ UNCHANGED <<created, gui, media, jobs, rows, faulted, net, active, spent>>

(* The callback of media_accept and media_decline, whatever the outcome.   *)
OnAnswered ==
  /\ NextReply("answer")
  /\ shown' = Show(Head(replies).job.msgs, Head(replies).job.status)
  /\ UNCHANGED <<created, gui, timer, media, jobs, rows, faulted, net, active, spent>>

(* messageUpdated(conversation, "all", "seen"): every own bubble.          *)
OnSeen ==
  /\ NextReply("seen")
  /\ shown' = Show(Direct, "seen")
  /\ UNCHANGED <<created, gui, timer, media, jobs, rows, faulted, net, active, spent>>

(* getMessageByIdAsync, asked for by retryMessage after a restart.         *)
OnFound ==
  /\ NextReply("find")
  /\ IF Head(replies).ok THEN ExecuteRetry(ReplyMsg)
     ELSE UNCHANGED <<gui, timer, jobs, requests, shown>>
  /\ UNCHANGED <<created, media, rows, faulted, responses, relayed, active, spent>>

(* getMessagesAsync: accepted offers are deleted instead of displayed; the *)
(* view takes the page if the conversation is still the one on screen.     *)
OnLoaded ==
  /\ NextReply("load")
  /\ LET page  == Head(replies).rows
         stale == {r \in Request : page[r] = "accepted"}
     IN /\ jobs' = IF stale = {} THEN jobs ELSE Append(jobs, DeleteJob(stale))
        /\ shown' = IF Head(replies).job.msgs = active
                    THEN [m \in Msg |-> IF m \in stale THEN "none" ELSE page[m]]
                    ELSE shown
  /\ UNCHANGED <<created, gui, timer, media, rows, faulted, net, active, spent>>

-----------------------------------------------------------------------------
(* The process ends, by a crash or by quitting (QThread::quit leaves the   *)
(* queued jobs unexecuted), and starts again with empty caches.  A POST    *)
(* under way reaches the relay or not; its answer reaches nobody.          *)
Restart ==
  /\ Spend("restart")
  /\ outgoing' = Blank
  /\ pending' = [r \in Request |-> "none"]
  /\ registered' = {}
  /\ live' = [m \in Media |-> 0]
  /\ jobs' = <<>>
  /\ replies' = <<>>
  /\ shown' = Blank
  /\ active' = Direct
  /\ requests' = [m \in Msg |-> 0]
  /\ responses' = [m \in Msg |-> 0]
  /\ \E S \in SUBSET {m \in Msg : requests[m] > 0} : relayed' = relayed \cup S
  /\ UNCHANGED <<created, media, rows, faulted>>

Callback == OnSaved \/ OnSaveFailed \/ OnAnswered \/ OnSeen \/ OnFound \/ OnLoaded

Outcome(m) == DeliverySucceeded(m) \/ DeliveryFailed(m)

User ==
  \/ \E m \in Text \cup Media : SendMessage(m)
  \/ \E r \in Request : SendMediaRequest(r)
  \/ \E m \in Media : Cancel(m)
  \/ \E m \in Msg : Retry(m)
  \/ \E C \in {Direct, Notes} : OpenConversation(C)

Peer ==
  \/ \E target \in {{}} \cup {{m} : m \in Msg} : SeenReceipt(target)
  \/ \E r \in Request, p \in Media : MediaAccept(r, p)
  \/ \E r \in Request : LateAccept(r)
  \/ \E r \in Request : MediaDecline(r)

Next ==
  \/ User
  \/ Peer
  \/ \E m \in Media : TimerDone(m)
  \/ \E m \in Msg : RelayAccepts(m) \/ Outcome(m)
  \/ WorkerStep
  \/ WorkerFault
  \/ Callback
  \/ Restart

Spec == Init /\ [][Next]_vars

(* The worker thread, the GUI event loop and the timers keep running.      *)
LocalFairness ==
  /\ WF_vars(WorkerStep)
  /\ WF_vars(Callback)
  /\ \A m \in Media : WF_vars(TimerDone(m))

(* In addition every POST ends, one way or the other.                      *)
Fairness == LocalFairness /\ \A m \in Msg : WF_vars(Outcome(m))

FairSpec == Spec /\ Fairness

(* HttpTransport sets no transfer timeout: a POST may never end.           *)
LocallyFairSpec == Spec /\ LocalFairness
-----------------------------------------------------------------------------
(* Properties.                                                             *)

(* The enum of domain/message.h: a message is "sent" once the relay has    *)
(* it.  For texts and offers (no simulated timer) neither the cache nor    *)
(* the view nor the database says so earlier, whatever is retried, lost or *)
(* loaded in between.                                                      *)
SentOnlyAfterRelay ==
  \A m \in (Text \cup Request) \ Saved :
    "sent" \in {outgoing[m], shown[m], rows[m]} => m \in relayed

(* sendMessage transmits from the callback of the save: a text the peer    *)
(* may have received is in the local history, even after a restart, unless *)
(* one of its SQL statements failed.                                       *)
DurableBeforeRelayed ==
  \A m \in Text \ Saved :
    requests[m] > 0 \/ m \in relayed => rows[m] # "none" \/ m \in faulted

(* What the database will hold for m once the worker has caught up is what *)
(* the cache says, unless the peer's receipt or answer has the last word.  *)
(* Writers(m) are the queued statements that set the status of m.          *)
Writers(m) ==
  {i \in DOMAIN jobs : m \in jobs[i].msgs /\ jobs[i].op \notin {"find", "load"}}

Settled(m, s) ==
  \/ s = outgoing[m]
  \/ s \in {"seen", "accepted", "declined"}
  \/ s = "none" /\ m \in Request

CacheAgreesWithStore ==
  \A m \in Msg : outgoing[m] # "none" /\ m \notin faulted =>
    IF Writers(m) = {} THEN Settled(m, rows[m])
    ELSE \A i \in Writers(m) :
           (\A j \in Writers(m) : j <= i) => Settled(m, jobs[i].status)

(* m_pendingMediaRequests.take: however often the peer's devices accept,   *)
(* an offer is answered by one payload, and by one more per retry of it.   *)
(* The payloads already created and the one the next answer would create   *)
(* are counted together.                                                   *)
Payloads(r) == {p \in Media : origin[p] = r}

PayloadOnce ==
  \A r \in Request :
    Cardinality(Payloads(r)) + (IF pending[r] = "none" THEN 0 ELSE 1) <= 1 + spent["retry"]

(* No message stays "sending" in the database: with every POST ending one  *)
(* way or the other, each send and each retry gets its verdict.            *)
SendingEnds ==
  \A m \in Msg : rows[m] = "sending" ~> rows[m] # "sending"

(* What keeps that promise: whenever the user is told "sending" something  *)
(* is under way that ends in a verdict, with restarts and failing          *)
(* statements of other messages too: the INSERT or its callback, which     *)
(* starts the POST, a POST, or a timer.                                    *)
Inserts(q, m) == \E i \in DOMAIN q : q[i].op = "save" /\ m \in q[i].msgs

HandsOver(q, m) == \E i \in DOMAIN q : q[i].ok /\ q[i].job.op = "save" /\ m \in q[i].job.msgs

VerdictComes(m) ==
  \/ Inserts(jobs, m)
  \/ HandsOver(replies, m)
  \/ requests[m] > 0 \/ responses[m] > 0
  \/ m \in Media /\ live[m] > 0

VerdictIsUnderWay ==
  \A m \in Msg : outgoing[m] = "sending" /\ m \notin faulted => VerdictComes(m)

(* A payload created for an accepted offer is handed to the relay, once    *)
(* the local save has called back.                                         *)
PayloadIsHandedOver ==
  \A p \in Media :
    origin[p] # "none" /\ rows[p] = "none" ~> requests[p] > 0 \/ p \in relayed

(* The payload of an accepted offer has the type the offer announced.      *)
PayloadKeepsType == \A p \in Media : origin[p] # "none" => paidType[p] = "type"

(* A message the peer has read does not fall back to "sent".               *)
SeenStays == [][\A m \in Msg : rows[m] = "seen" => rows'[m] # "sent"]_rows

(* domain/message.h: "sent" is "successfully transmitted to relay server". *)
(* The simulated progress of a transfer runs ahead of the relay, but once  *)
(* nothing is under way any more, a transfer stored as "sent" has been     *)
(* transmitted.                                                            *)
AtRest == jobs = <<>> /\ replies = <<>> /\ \A m \in Msg : requests[m] + responses[m] = 0

SentAtRestIsRelayed ==
  AtRest => \A m \in Media \ Saved : live[m] = 0 /\ rows[m] = "sent" => m \in relayed
=============================================================================
