----------------------------- MODULE FriendService -----------------------------
(***************************************************************************)
(* services/friendservice.cpp: friends and pending requests, cached from   *)
(* the settings of the current account, against the server's lists and the *)
(* packets of peers.  HTTP calls overlap, are served in any order and      *)
(* answered in any order; their callbacks act on the session of the moment *)
(* of the answer.  So does the answer to GET users/me, which changes the   *)
(* account whose lists are stored and loads none.  Presence is the module  *)
(* Presence.  Left out: texts of results, and the ids of requests under    *)
(* way, which only choose a text.                                          *)
(***************************************************************************)
EXTENDS Naturals, FiniteSets

CONSTANTS
  Accounts,    \* users that log in on this desktop
  Names,       \* users they can befriend, who also send packets
  Anonymous,   \* storage key and session while nobody is logged in
  Slots,       \* bound: HTTP calls under way at once
  MaxCalls,    \* bound: operations of the user on the lists
  MaxPackets,  \* bound: packets of peers
  MaxSessions  \* bound: logins

ASSUME FriendAssumption == MaxCalls \in Nat /\ MaxPackets \in Nat /\ MaxSessions \in Nat

NoCall   == [op |-> "none"]
NoSignal == [kind |-> "none"]

VARIABLES
  account,   \* m_storage->username(), whose lists the settings' keys name
  bearer,    \* the account whose token requests carry
  asked,     \* GET users/me under way, of each account
  friends,   \* m_cachedFriends
  pending,   \* m_cachedPending
  stored,    \* the settings' friends and pending requests of each account
  server,    \* external: the friends the server keeps for each account
  calls,     \* HTTP calls under way
  signal,    \* the signal for the notification centre this step emits
  loadedFor, \* history: the account the cache was last loaded for
  strayed,   \* history: since then a change was stored under another account
  spent      \* how much of the bounds has been used

who        == <<account, bearer, asked>>
lists      == <<friends, pending, stored, loadedFor, strayed>>
friendVars == <<who, lists, server, calls, signal, spent>>

Keys    == Accounts \union {Anonymous}
Lists   == [friends : SUBSET Names, pending : SUBSET Names]
Call    == [op : {"list", "add", "accept", "remove"}, by : Keys, name : Names \union {Anonymous},
            stage : {"sent", "done", "failed"}, lists : SUBSET Names]
Signals == [kind : {"requestReceived", "accepted", "rejected", "acceptResult", "rejectResult"},
            name : Names]

FriendTypeOK ==
  /\ {account, bearer, loadedFor} \subseteq Keys /\ strayed \in BOOLEAN
  /\ asked \in [Accounts -> Nat]
  /\ friends \subseteq Names /\ pending \subseteq Names
  /\ stored \in [Keys -> Lists]
  /\ server \in [Accounts -> SUBSET Names]
  /\ \A s \in Slots : calls[s] = NoCall \/ calls[s] \in Call
  /\ signal = NoSignal \/ signal \in Signals
  /\ spent \in [calls : 0 .. MaxCalls, packets : 0 .. MaxPackets, sessions : 0 .. MaxSessions]

FriendInit ==
  /\ account = Anonymous /\ bearer = Anonymous /\ asked = [a \in Accounts |-> 0]
  /\ loadedFor = Anonymous /\ strayed = FALSE
  /\ friends = {} /\ pending = {}
  /\ stored = [k \in Keys |-> [friends |-> {}, pending |-> {}]]
  /\ server \in {s \in [Accounts -> SUBSET Names] : \A a \in Accounts : a \notin s[a]}
  /\ calls = [s \in Slots |-> NoCall]
  /\ signal = NoSignal
  /\ spent = [calls |-> 0, packets |-> 0, sessions |-> 0]

(* The settings of the account the lists on the screen were loaded for     *)
(* hold the same lists: no packet, late answer or local operation changes  *)
(* one and not the other, so a restart shows what was shown.  But while a  *)
(* session that was given up, or a late profile, has changed the name, the *)
(* changes are stored under that name, and from then on the two differ.    *)
CacheIsStored ==
  ~strayed =>
    friends = stored[loadedFor].friends /\ pending = stored[loadedFor].pending

-----------------------------------------------------------------------------
Sent(op, by, name) == [op |-> op, by |-> by, name |-> name, stage |-> "sent", lists |-> {}]

Spend(what, max) == spent[what] < max /\ spent' = [spent EXCEPT ![what] = @ + 1]

Emit(kind, name) == signal' = [kind |-> kind, name |-> name]

(* Pending requests are always written, friends only when they changed.    *)
Update(f, p) ==
  /\ friends' = f
  /\ pending' = p
  /\ stored' = [stored EXCEPT ![account] =
       [friends |-> IF f = friends THEN @.friends ELSE f, pending |-> p]]
  /\ strayed' = (strayed \/ account # loadedFor)
  /\ UNCHANGED loadedFor

SetFriends(f) ==
  /\ friends' = f
  /\ stored' = [stored EXCEPT ![account].friends = f]
  /\ strayed' = (strayed \/ account # loadedFor)
  /\ UNCHANGED <<pending, loadedFor>>

(* Mutant: only the friends are read again.                                *)
LoadFriendsOnly(key, by, s) ==
  /\ friends' = stored[key].friends
  /\ loadedFor' = key /\ strayed' = FALSE
  /\ calls' = [calls EXCEPT ![s] = IF by = Anonymous THEN NoCall ELSE Sent("list", by, Anonymous)]
  /\ UNCHANGED <<pending, stored>>

(* loadFriends(): the cache from the settings, then GET friends in slot s  *)
(* if there is a bearer.                                                    *)
LoadFriends(key, by, s) ==
  /\ friends' = stored[key].friends
  /\ pending' = stored[key].pending
  /\ loadedFor' = key /\ strayed' = FALSE
  /\ calls' = [calls EXCEPT ![s] = IF by = Anonymous THEN NoCall ELSE Sent("list", by, Anonymous)]
  /\ UNCHANGED stored

(* Slots are filled in a fixed order: which one a call has says nothing.   *)
Free(s) == calls[s] = NoCall /\ s = CHOOSE t \in Slots : calls[t] = NoCall

-----------------------------------------------------------------------------
(* The session, as NetworkManager changes it.                              *)

(* The lists are loaded, and the profile is asked for.                     *)
FriendLogin(a, s) ==
  /\ bearer = Anonymous
  /\ Free(s)
  /\ Spend("sessions", MaxSessions)
  /\ account' = a /\ bearer' = a
  /\ asked' = [asked EXCEPT ![a] = @ + 1]
  /\ LoadFriends(a, a, s)
  /\ signal' = NoSignal
  /\ UNCHANGED server

FriendLogout(s) ==
  /\ bearer # Anonymous
  /\ Free(s)
  /\ account' = Anonymous /\ bearer' = Anonymous
  /\ LoadFriends(Anonymous, Anonymous, s)
  /\ signal' = NoSignal
  /\ UNCHANGED <<asked, server, spent>>

(* sessionUnauthorized: clearSession() without loadFriends(); a last 401   *)
(* may also come when the session has ended.                               *)
FriendUnauthorized ==
  /\ account # Anonymous
  /\ account' = Anonymous /\ bearer' = Anonymous
  /\ signal' = NoSignal
  /\ UNCHANGED <<asked, lists, server, calls, spent>>

(* The answer to GET users/me names the account that asked, in whatever    *)
(* session there is.                                                       *)
FriendProfile(a) ==
  /\ asked[a] > 0
  /\ asked' = [asked EXCEPT ![a] = @ - 1]
  /\ account' \in {a, account}
  /\ signal' = NoSignal
  /\ UNCHANGED <<bearer, lists, server, calls, spent>>

-----------------------------------------------------------------------------
(* The user's operations.                                                  *)

AcceptFriend(n, s) ==
  /\ Free(s)
  /\ Spend("calls", MaxCalls)
  /\ calls' = [calls EXCEPT ![s] = Sent("accept", bearer, n)]
  /\ Update(friends \union {n}, pending \ {n})
  /\ Emit("acceptResult", n)
  /\ UNCHANGED <<who, server>>

(* addFriend() of a name that is neither the user, a friend nor pending; a *)
(* pending one is accepted instead.                                        *)
AddFriend(n, s) ==
  /\ n # account
  /\ n \notin friends
  /\ IF n \in pending THEN AcceptFriend(n, s)
     ELSE /\ Free(s)
          /\ Spend("calls", MaxCalls)
          /\ calls' = [calls EXCEPT ![s] = Sent("add", bearer, n)]
          /\ signal' = NoSignal
          /\ UNCHANGED <<who, lists, server>>

(* rejectFriend(): locally, and with a packet to the peer, not the server. *)
RejectFriend(n) ==
  /\ Spend("calls", MaxCalls)
  /\ Update(friends \ {n}, pending \ {n})
  /\ Emit("rejectResult", n)
  /\ UNCHANGED <<who, server, calls>>

RemoveFriend(n, s) ==
  /\ Free(s)
  /\ Spend("calls", MaxCalls)
  /\ SetFriends(friends \ {n})
  /\ calls' = IF bearer = Anonymous THEN calls
              ELSE [calls EXCEPT ![s] = Sent("remove", bearer, n)]
  /\ signal' = NoSignal
  /\ UNCHANGED <<who, server>>

-----------------------------------------------------------------------------
(* The server, and the callbacks of the calls.                             *)

Serve(s) ==
  /\ calls[s] # NoCall
  /\ calls[s].stage = "sent"
  /\ LET c == calls[s] IN
     \E ok \in (IF c.by = Anonymous \/ c.name = c.by THEN {FALSE} ELSE BOOLEAN) :
       /\ server' = IF ok /\ c.op \in {"add", "accept"}
                      THEN [server EXCEPT ![c.by] = @ \union {c.name}]
                    ELSE IF ok /\ c.op = "remove" THEN [server EXCEPT ![c.by] = @ \ {c.name}]
                    ELSE server
       /\ calls' = [calls EXCEPT ![s] =
            [c EXCEPT !.stage = IF ok THEN "done" ELSE "failed",
                      !.lists = IF ok /\ c.op = "list" THEN server[c.by] ELSE {}]]
  /\ signal' = NoSignal
  /\ UNCHANGED <<who, lists, spent>>

Answer(s) ==
  /\ calls[s] # NoCall
  /\ calls[s].stage # "sent"
  /\ CASE calls[s].stage = "failed" ->
            /\ calls' = [calls EXCEPT ![s] = NoCall]
            /\ UNCHANGED lists
       [] calls[s].stage = "done" /\ calls[s].op = "list" ->
            /\ SetFriends(calls[s].lists)
            /\ calls' = [calls EXCEPT ![s] = NoCall]
       [] OTHER -> LoadFriends(account, bearer, s)
  /\ signal' = NoSignal
  /\ UNCHANGED <<who, server, spent>>

-----------------------------------------------------------------------------
(* handleIncomingFriendPacket(); the user's own packets are ignored.       *)

FriendRequest(n) ==
  /\ n # account
  /\ Spend("packets", MaxPackets)
  /\ IF n \in friends \union pending
     THEN signal' = NoSignal /\ UNCHANGED lists
     ELSE Update(friends, pending \union {n}) /\ Emit("requestReceived", n)
  /\ UNCHANGED <<who, server, calls>>

FriendAccept(n) ==
  /\ n # account
  /\ Spend("packets", MaxPackets)
  /\ Update(friends \union {n}, pending \ {n})
  /\ Emit("accepted", n)
  /\ UNCHANGED <<who, server, calls>>

FriendReject(n) ==
  /\ n # account
  /\ Spend("packets", MaxPackets)
  /\ Update(friends \ {n}, pending \ {n})
  /\ Emit("rejected", n)
  /\ UNCHANGED <<who, server, calls>>

FriendNext ==
  \/ \E s \in Slots :
       \/ \E a \in Accounts : FriendLogin(a, s)
       \/ FriendLogout(s)
       \/ \E n \in Names : AcceptFriend(n, s) \/ AddFriend(n, s) \/ RemoveFriend(n, s)
       \/ Serve(s)
       \/ Answer(s)
  \/ \E n \in Names : RejectFriend(n) \/ FriendRequest(n) \/ FriendAccept(n) \/ FriendReject(n)
  \/ FriendUnauthorized
  \/ \E a \in Accounts : FriendProfile(a)

FriendSpec == FriendInit /\ [][FriendNext]_friendVars
================================================================================
