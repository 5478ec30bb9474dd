----------------------------- MODULE RelayService -----------------------------
(***************************************************************************)
(* The receiving side of services/relayservice.cpp: items queued on the    *)
(* relay reach the client by polling and by WebSocket pushes, are handed   *)
(* over once, saved through the SQL worker, and acknowledged.  Around it,  *)
(* what decides in whose name this happens: login, logout and the third    *)
(* 401 (core/networkmanager.cpp, services/authservice.cpp), the profile    *)
(* that is asked for at login and names the user when it arrives, the      *)
(* device registration that starts the polling, and the account's database,*)
(* which the worker switches in the order of its queue                     *)
(* (core/application.cpp).  The device id is one of the name in the        *)
(* settings, and is modelled by that name.                                 *)
(*                                                                         *)
(* Replies outlive the session that asked for them: an HTTP call carries   *)
(* the token of the moment it was made, its callback uses the session of   *)
(* the moment it runs.                                                     *)
(***************************************************************************)
EXTENDS Naturals, Sequences, FiniteSets

CONSTANTS
  Account,  \* accounts that log in on this machine
  Chat,     \* items that hold a chat message, which is saved
  Control,  \* items handled at once: receipts, typing, friend packets, ...
  Bad,      \* items that are empty or cannot be decrypted
  Owner,    \* the account each item is addressed to
  Budget,   \* bound: how often each event of Events may happen
  MaxEvents \* bound: how many of these events one behaviour may combine

Item == Chat \cup Control \cup Bad

Events == {"login", "logout", "profile", "send", "reject", "netfail", "sqlfail", "restart"}

ASSUME RelayAssumption ==
  /\ Chat \cap Control = {} /\ Chat \cap Bad = {} /\ Control \cap Bad = {}
  /\ Owner \in [Item -> Account]
  /\ "none" \notin Account
  /\ Budget \in [Events -> Nat]
  /\ MaxEvents \in Nat

(* "none" is no session, no link, and the guest's database.                *)
User == Account \cup {"none"}

VARIABLES
  mailbox,   \* items the relay still holds
  user,      \* the session: the account of SettingsRepository's token
  name,      \* SettingsRepository's username, under which the device id is
  profiles,  \* GET users/me in flight, of each account
  polling,   \* m_pollTimer->isActive()
  poll,      \* the GET relay/poll in flight, if m_isPollingActive
  linkFor,   \* whose token and device id m_wsClient was opened with
  link,      \* whose token and device id the WebSocket is connected with
  retry401,  \* m_retry401Count
  regs,      \* device registrations in flight
  sends,     \* POST relay/send calls in flight
  processed, \* m_processedMessageIds
  handed,    \* how often this process has handed each item over
  acks,      \* POST relay/ack calls in flight: the item, by whom
  jobs,      \* the SQL worker's queue
  db,        \* whose database the worker has open
  rows,      \* messages saved: the item, the database
  late,      \* history: items handed over in another session or name
  dropped,   \* history: items whose save failed or was lost with the process
  spent      \* how much of Budget has been used

signedIn == <<user, name>>
session  == <<signedIn, profiles, retry401, regs, sends>>
links   == <<linkFor, link>>
inbox   == <<processed, handed, late>>
store   == <<jobs, db, rows, dropped>>
vars    == <<mailbox, session, polling, poll, links, inbox, acks, store, spent>>

(* Whom a request presents: the account of the token, that of the device.  *)
Identity == [user : User, device : User]
Own(a)   == [user |-> a, device |-> a]
NoOne    == Own("none")
Present  == [user |-> user, device |-> name]

(* A request in flight; the relay has served it when its items are known.  *)
PollOf(by) == [by |-> by, served |-> FALSE, items |-> {}]
NoPoll     == PollOf(NoOne)
Poll       == [by : Identity, served : BOOLEAN, items : SUBSET Item]

(* NetworkManager::currentUsername.                                        *)
CurrentUsername == IF user = "none" THEN "none" ELSE name

(* Jobs of the worker: the saves of one answer, or a database switch.      *)
SaveJob(S)   == [op |-> "save", items |-> S, db |-> "none"]
SwitchJob(u) == [op |-> "switch", items |-> {}, db |-> u]
Job == [op : {"save"}, items : SUBSET Chat, db : {"none"}]
       \cup [op : {"switch"}, items : {{}}, db : User]

TypeOK ==
  /\ mailbox \subseteq Item
  /\ user \in User /\ name \in User /\ db \in User
  /\ linkFor \in Identity /\ link \in Identity
  /\ profiles \in [Account -> Nat]
  /\ polling \in BOOLEAN
  /\ poll \in Poll
  /\ retry401 \in 0..2
  /\ regs \in Nat /\ sends \in Nat
  /\ processed \subseteq Item
  /\ handed \in [Item -> Nat]
  /\ acks \subseteq Item \X Identity
  /\ jobs \in Seq(Job)
  /\ rows \subseteq Chat \X User
  /\ late \subseteq Item /\ dropped \subseteq Item
  /\ spent \in [Events -> Nat]

Init ==
  /\ mailbox = Item
  /\ user = "none" /\ name = "none" /\ db = "none"
  /\ profiles = [a \in Account |-> 0]
  /\ linkFor = NoOne /\ link = NoOne
  /\ polling = FALSE
  /\ poll = NoPoll
  /\ retry401 = 0 /\ regs = 0 /\ sends = 0
  /\ processed = {}
  /\ handed = [i \in Item |-> 0]
  /\ acks = {}
  /\ jobs = <<>>
  /\ rows = {}
  /\ late = {} /\ dropped = {}
  /\ spent = [e \in Events |-> 0]

EventCount ==
  spent["login"] + spent["logout"] + spent["profile"] + spent["send"] + spent["reject"]
  + spent["netfail"] + spent["sqlfail"] + spent["restart"]

Spend(e) ==
  /\ spent[e] < Budget[e] /\ EventCount < MaxEvents
  /\ spent' = [spent EXCEPT ![e] = @ + 1]

-----------------------------------------------------------------------------
(* processIncomingRelayItem, for the items of one answer or one push.      *)

(* Mutant: m_processedMessageIds is not consulted.                         *)
AllFresh(S) == S

(* Items this process has not seen yet.                                    *)
Fresh(S) == S \ processed

(* Mutant: an item the process has seen is skipped without a new ack.      *)
AckFresh(S) == {<<i, Present>> : i \in IF user = "none" THEN {} ELSE Fresh(S)}

(* acknowledgeMessage, of every item, seen before or not, with the present *)
(* token and device id; without a token it returns early.                  *)
Acknowledge(S) == {<<i, Present>> : i \in IF user = "none" THEN {} ELSE S}

(* Mutant: the messages of one answer share a primary key.                 *)
SaveOne(S) == IF S \cap Chat = {} THEN {} ELSE {CHOOSE i \in S \cap Chat : TRUE}

(* The items MessageService::handleIncomingMessages saves.                 *)
ToSave(S) == S \cap Chat

(* S came to an asker: it is late when the asker is not, in token, device  *)
(* and name, the session that exists by now.                               *)
Process(S, asker) ==
  LET new == Fresh(S) IN
    /\ processed' = processed \cup S
    /\ handed' = [i \in Item |-> IF i \in new \ Bad THEN handed[i] + 1 ELSE handed[i]]
    /\ late' = IF asker = Present /\ name = user THEN late ELSE late \cup new
    /\ jobs' = IF ToSave(new) = {} THEN jobs ELSE Append(jobs, SaveJob(ToSave(new)))
    /\ acks' = acks \cup Acknowledge(S)

-----------------------------------------------------------------------------
(* Sessions.                                                               *)

(* Mutant: the switch overtakes the saves that are queued.                 *)
JumpQueue(u) == <<SwitchJob(u)>> \o jobs

(* currentUsernameChanged: SqlMessageRepository::switchDatabase.           *)
QueueSwitch(u) == Append(jobs, SwitchJob(u))

(* pollPendingMessages: nothing without a session or while a poll is under *)
(* way.                                                                    *)
Ask == poll' = IF user = "none" \/ poll # NoPoll THEN poll
               ELSE PollOf(Present)

(* startPolling: the timer, the WebSocket with the present token and       *)
(* device id unless it is connected with them already, and a first poll.   *)
StartPolling ==
  /\ polling' = TRUE
  /\ IF user = "none" \/ link = Present
     THEN UNCHANGED links
     ELSE linkFor' = Present /\ link' = NoOne
  /\ Ask

(* Mutant: the timer is stopped, the WebSocket forgotten.                  *)
StopTimerOnly == polling' = FALSE /\ UNCHANGED links

(* stopPolling.                                                            *)
StopPolling ==
  /\ polling' = FALSE
  /\ linkFor' = NoOne /\ link' = NoOne

(* clearSession, and the currentUsernameChanged that follows.              *)
ClearSession ==
  /\ user' = "none" /\ name' = "none"
  /\ jobs' = QueueSwitch("none")

(* autoRegisterDevice fails at once without a session.                     *)
RequestRegistration == regs' = IF user = "none" THEN regs ELSE regs + 1

(* Mutant: one more attempt than the counter has room for.                 *)
MayRetryOnceMore == retry401 <= 2

MayRetry == retry401 < 2

(* handle401Error: twice the device is registered again, the third 401     *)
(* ends the session, whichever session the refused call belonged to.       *)
Handle401 ==
  IF MayRetry
  THEN /\ retry401' = retry401 + 1
       /\ RequestRegistration
       /\ UNCHANGED <<polling, links, signedIn, jobs>>
  ELSE /\ retry401' = 0
       /\ StopPolling
       /\ ClearSession
       /\ UNCHANGED regs

(* loginResult(true): token and username are stored, the database is       *)
(* switched, the device registered, the profile asked for.                 *)
Login(a) ==
  /\ user = "none"
  /\ Spend("login")
  /\ user' = a /\ name' = a
  /\ jobs' = QueueSwitch(a)
  /\ regs' = regs + 1
  /\ profiles' = [profiles EXCEPT ![a] = @ + 1]
  /\ UNCHANGED <<mailbox, retry401, sends, polling, poll, links, inbox, acks, db, rows, dropped>>

(* userProfileFetched(true): the name in the settings becomes that of the  *)
(* profile, perhaps long after the login it was for, and the database of   *)
(* the name is opened, of the guest if no session exists.                  *)
ProfileAnswered(a) ==
  /\ profiles[a] > 0
  /\ Spend("profile")
  /\ profiles' = [profiles EXCEPT ![a] = @ - 1]
  /\ name' = a
  /\ UNCHANGED user
  /\ jobs' = QueueSwitch(CurrentUsername')
  /\ UNCHANGED <<mailbox, retry401, regs, sends, polling, poll, links, inbox, acks>>
  /\ UNCHANGED <<db, rows, dropped>>

(* userProfileFetched(false): nothing changes.                             *)
ProfileFailed(a) ==
  /\ profiles[a] > 0
  /\ Spend("netfail")
  /\ profiles' = [profiles EXCEPT ![a] = @ - 1]
  /\ UNCHANGED <<mailbox, signedIn, retry401, regs, sends, polling, poll, links, inbox, acks>>
  /\ UNCHANGED store

(* NetworkManager::logoutUser.                                             *)
Logout ==
  /\ user # "none"
  /\ Spend("logout")
  /\ StopPolling
  /\ ClearSession
  /\ UNCHANGED <<mailbox, profiles, retry401, regs, sends, poll, inbox, acks, db, rows, dropped>>

(* deviceRegistrationResult(true), perhaps long after the login it was for.*)
Registered ==
  /\ regs > 0
  /\ regs' = regs - 1
  /\ StartPolling
  /\ UNCHANGED <<mailbox, signedIn, profiles, retry401, sends, inbox, acks, store, spent>>

(* deviceRegistrationResult(false): nothing starts, nobody tries again.    *)
RegistrationFailed ==
  /\ regs > 0
  /\ Spend("netfail")
  /\ regs' = regs - 1
  /\ UNCHANGED <<mailbox, signedIn, profiles, retry401, sends>>
  /\ UNCHANGED <<polling, poll, links, inbox, acks, store>>

-----------------------------------------------------------------------------
(* Polling.                                                                *)

(* m_pollTimer fires.                                                      *)
PollTick ==
  /\ polling
  /\ user # "none" /\ poll = NoPoll
  /\ Ask
  /\ UNCHANGED <<mailbox, session, polling, links, inbox, acks, store, spent>>

HeldFor(a) == {i \in mailbox : Owner[i] = a}

(* The relay answers with everything it holds for the account.  What it    *)
(* makes of one account's token with another's device id is not known:     *)
(* nothing, or what it holds for either of them.                           *)
Replies(by) ==
  IF by.user = by.device THEN {HeldFor(by.user)}
  ELSE {{}, HeldFor(by.user), HeldFor(by.device)}

PollServed ==
  /\ poll # NoPoll /\ ~poll.served
  /\ \E S \in Replies(poll.by) : poll' = [by |-> poll.by, served |-> TRUE, items |-> S]
  /\ UNCHANGED <<mailbox, session, polling, links, inbox, acks, store, spent>>

(* The callback: the counter is reset and the items are processed, in the  *)
(* name of the session that exists by now.                                 *)
PollAnswered ==
  /\ poll.served
  /\ poll' = NoPoll
  /\ retry401' = 0
  /\ Process(poll.items, poll.by)
  /\ UNCHANGED <<mailbox, signedIn, profiles, regs, sends>>
  /\ UNCHANGED <<polling, links, db, rows, dropped, spent>>

(* The callback of a poll answered 401, perhaps to a session since ended.  *)
PollRejected ==
  /\ poll # NoPoll
  /\ Spend("reject")
  /\ poll' = NoPoll
  /\ Handle401
  /\ UNCHANGED <<mailbox, profiles, sends, inbox, acks, db, rows, dropped>>

PollFailed ==
  /\ poll # NoPoll
  /\ Spend("netfail")
  /\ poll' = NoPoll
  /\ UNCHANGED <<mailbox, session, polling, links, inbox, acks, store>>

-----------------------------------------------------------------------------
(* The WebSocket, as WebSocketClient reports it.                           *)

LinkUp ==
  /\ linkFor # NoOne /\ link = NoOne
  /\ link' = linkFor
  /\ UNCHANGED <<mailbox, session, polling, poll, linkFor, inbox, acks, store, spent>>

LinkLost ==
  /\ link # NoOne
  /\ Spend("netfail")
  /\ link' = NoOne
  /\ UNCHANGED <<mailbox, session, polling, poll, linkFor, inbox, acks, store>>

(* errorOccurred with a 401 in the handshake's answer.                     *)
LinkRejected ==
  /\ linkFor # NoOne /\ link = NoOne
  /\ Spend("reject")
  /\ Handle401
  /\ UNCHANGED <<mailbox, profiles, sends, poll, inbox, acks, db, rows, dropped>>

(* onWebSocketMessageReceived; the relay may push for the account of the   *)
(* token or for that of the device.                                        *)
Push(i) ==
  /\ i \in mailbox /\ Owner[i] \in {link.user, link.device}
  /\ Process({i}, link)
  /\ UNCHANGED <<mailbox, session, polling, poll, links, db, rows, dropped, spent>>

-----------------------------------------------------------------------------
(* Outgoing calls, as far as they concern the session.                     *)

Send ==
  /\ user # "none"
  /\ Spend("send")
  /\ sends' = sends + 1
  /\ UNCHANGED <<mailbox, signedIn, profiles, retry401, regs>>
  /\ UNCHANGED <<polling, poll, links, inbox, acks, store>>

(* Any answer but 401 leaves the session, and the 401 counter, as it is.   *)
SendAnswered ==
  /\ sends > 0
  /\ sends' = sends - 1
  /\ UNCHANGED <<mailbox, signedIn, profiles, retry401, regs>>
  /\ UNCHANGED <<polling, poll, links, inbox, acks, store, spent>>

SendRejected ==
  /\ sends > 0
  /\ Spend("reject")
  /\ sends' = sends - 1
  /\ Handle401
  /\ UNCHANGED <<mailbox, profiles, poll, inbox, acks, db, rows, dropped>>

(* The relay prunes an item its own account acknowledges, with its own     *)
(* token and device id; it may or may not when only one of them is.        *)
AckArrives(i) ==
  \E by \in Identity :
    /\ <<i, by>> \in acks
    /\ acks' = acks \ {<<i, by>>}
    /\ \/ Owner[i] \in {by.user, by.device} /\ mailbox' = mailbox \ {i}
       \/ by # Own(Owner[i]) /\ UNCHANGED mailbox
    /\ UNCHANGED <<session, polling, poll, links, inbox, store, spent>>

AckLost(i) ==
  \E by \in Identity :
    /\ <<i, by>> \in acks
    /\ Spend("netfail")
    /\ acks' = acks \ {<<i, by>>}
    /\ UNCHANGED <<mailbox, session, polling, poll, links, inbox, store>>

-----------------------------------------------------------------------------
(* The SQL worker.                                                         *)

RestOfJob(i) ==
  LET left == Head(jobs).items \ {i} IN
    IF left = {} THEN Tail(jobs) ELSE <<SaveJob(left)>> \o Tail(jobs)

(* doSaveMessages of one message: the jobs of an answer run one by one.    *)
WorkerSave(i) ==
  /\ jobs # <<>> /\ i \in Head(jobs).items
  /\ jobs' = RestOfJob(i)
  /\ rows' = rows \cup {<<i, db>>}
  /\ UNCHANGED <<mailbox, session, polling, poll, links, inbox, acks, db, dropped, spent>>

(* The transaction fails; its callback only logs.                          *)
WorkerFault(i) ==
  /\ jobs # <<>> /\ i \in Head(jobs).items
  /\ Spend("sqlfail")
  /\ jobs' = RestOfJob(i)
  /\ dropped' = dropped \cup {i}
  /\ UNCHANGED <<mailbox, session, polling, poll, links, inbox, acks, db, rows>>

(* doSwitchDatabase.                                                       *)
WorkerSwitch ==
  /\ jobs # <<>> /\ Head(jobs).op = "switch"
  /\ jobs' = Tail(jobs)
  /\ db' = Head(jobs).db
  /\ UNCHANGED <<mailbox, session, polling, poll, links, inbox, acks, rows, dropped, spent>>

Queued == UNION {jobs[k].items : k \in DOMAIN jobs}

(* The process ends with what it has queued, and starts without a session. *)
Restart ==
  /\ Spend("restart")
  /\ user' = "none" /\ linkFor' = NoOne /\ link' = NoOne /\ db' = "none"
  /\ profiles' = [a \in Account |-> 0]
  /\ polling' = FALSE
  /\ poll' = NoPoll
  /\ retry401' = 0 /\ regs' = 0 /\ sends' = 0
  /\ processed' = {}
  /\ handed' = [i \in Item |-> 0]
  /\ jobs' = <<>>
  /\ dropped' = dropped \cup Queued
  /\ UNCHANGED <<mailbox, name, acks, rows, late>>

-----------------------------------------------------------------------------
Sessions ==
  \/ \E a \in Account : Login(a) \/ ProfileAnswered(a) \/ ProfileFailed(a)
  \/ Logout \/ Registered \/ RegistrationFailed
Polling  == PollTick \/ PollServed \/ PollAnswered \/ PollRejected \/ PollFailed
Link     == LinkUp \/ LinkLost \/ LinkRejected \/ \E i \in Item : Push(i)
Calls    == Send \/ SendAnswered \/ SendRejected \/ \E i \in Item : AckArrives(i) \/ AckLost(i)
Worker   == WorkerSwitch \/ \E i \in Chat : WorkerSave(i) \/ WorkerFault(i)

Next == Sessions \/ Polling \/ Link \/ Calls \/ Worker \/ Restart

Spec == Init /\ [][Next]_vars

(* The poll timer fires, and every call ends: that a GET relay/poll ends   *)
(* is an assumption, as HttpTransport sets no timeout.                     *)
Fairness ==
  /\ WF_vars(PollTick)
  /\ WF_vars(PollServed)
  /\ WF_vars(PollAnswered)
  /\ \A i \in Item : WF_vars(AckArrives(i))

FairSpec == Spec /\ Fairness
-----------------------------------------------------------------------------
(* Properties.                                                             *)

(* An item that polls and pushes deliver again and again, in whatever      *)
(* order acks, logins and logouts come, is handed over once per process.   *)
HandedOnce == \A i \in Item : handed[i] <= 1

(* The WebSocket never serves an account that has logged out, even if its  *)
(* device registration succeeds only after the logout.                     *)
LinkIsOwn == linkFor.user \in {"none", user} /\ link \in {NoOne, linkFor}

(* Job k will run in the database of u: the last switch before it, if there *)
(* is one, names u, and otherwise the worker has that database open.       *)
RunsIn(k, u) ==
  \/ db = u /\ \A j \in 1..(k - 1) : jobs[j].op # "switch"
  \/ \E j \in 1..(k - 1) :
       /\ jobs[j].op = "switch" /\ jobs[j].db = u
       /\ \A h \in (j + 1)..(k - 1) : jobs[h].op # "switch"

(* Message i is in the database of u, or will be once the worker gets there.*)
KeptIn(i, u) ==
  \/ <<i, u>> \in rows
  \/ \E k \in DOMAIN jobs : i \in jobs[k].items /\ RunsIn(k, u)

(* A message received in its account's session, under its account's name,  *)
(* ends up in that account's database, although the save may run after a   *)
(* logout, another login or another's profile; and one that is in another's*)
(* database came in another session than it was asked for in, or while a   *)
(* late profile had put another's name, and device, in the settings.       *)
SavedInOwnDatabase ==
  \A i \in Chat : \A u \in User \ {Owner[i]} : KeptIn(i, u) => i \in late

(* The relay forgets a message only when its account's database has it or  *)
(* a save is queued.  A queue lost with the process, a failed statement,   *)
(* an answer that came after the end of its session or while the name in   *)
(* the settings was not the session's can still lose it.                   *)
PrunedIsKept ==
  \A i \in Chat \ mailbox : KeptIn(i, Owner[i]) \/ i \in late \cup dropped

(* The promise of Mailbox, step by step.                                   *)
Mail == INSTANCE Mailbox WITH
          Message <- Chat, Database <- User,
          held <- mailbox \cap Chat, waiting <- Queued, kept <- rows,
          excused <- (late \cup dropped) \cap Chat

(* However polls, pushes, saves, switches, logouts and crashes interleave, *)
(* each step of the client is one that the promise allows.                 *)
DeliversAsPromised == Mail!Spec

(* Whatever is lost on the way, an item of the account that is logged in   *)
(* and polling is acknowledged in the end, unless the session ends or      *)
(* another's profile takes the device id away.                             *)
InboxDrains ==
  \A i \in Item :
    i \in mailbox /\ Present = Own(Owner[i]) /\ polling
      ~> i \notin mailbox \/ Present # Own(Owner[i])

(* "Every user account maintains an independent, isolated database".       *)
AccountsAreIsolated == \A i \in Chat, u \in User : <<i, u>> \in rows => u = Owner[i]
=============================================================================
