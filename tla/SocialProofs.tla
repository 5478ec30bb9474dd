------------------------------ MODULE SocialProofs ------------------------------
(***************************************************************************)
(* Proofs about the friend service, the notification centre and the two    *)
(* wired together, for any accounts, names, numbers of calls under way,    *)
(* orders of answers and any length of the list of notifications.          *)
(***************************************************************************)
EXTENDS Social, FiniteSetTheorems, TLAPS

-----------------------------------------------------------------------------
(* The friend service: the lists on the screen are those in the settings.  *)

(* The settings have both lists of every account.                          *)
StoredShape ==
  stored = [k \in Keys |-> [friends |-> stored[k].friends, pending |-> stored[k].pending]]

FriendInv ==
  /\ account \in Keys /\ loadedFor \in Keys
  /\ StoredShape
  /\ CacheIsStored

LEMMA AnonymousIsKey == Anonymous \in Keys
BY DEF Keys

(* A step that changes no list, but perhaps the name.                      *)
LEMMA Untouched ==
  ASSUME FriendInv, UNCHANGED lists, account' \in Keys
  PROVE  FriendInv'
BY DEF lists, FriendInv, StoredShape, CacheIsStored

-----------------------------------------------------------------------------
(* The three ways in which lists change.                                   *)

(* Both lists, by the user or a packet: pending requests are written, and  *)
(* friends that have not changed are those that were written before.       *)
LEMMA UpdateKeeps ==
  ASSUME FriendInv, account' = account, NEW f, NEW p, Update(f, p)
  PROVE  FriendInv'
<1>1. /\ friends' = f /\ pending' = p /\ loadedFor' = loadedFor
      /\ stored' = [stored EXCEPT ![account] =
           [friends |-> IF f = friends THEN @.friends ELSE f, pending |-> p]]
      /\ ~strayed' => ~strayed /\ account = loadedFor
  BY DEF Update
<1>2. StoredShape'
  BY <1>1 DEF FriendInv, StoredShape
<1>3. stored'[account].friends = IF f = friends THEN stored[account].friends ELSE f
  BY <1>1 DEF FriendInv, StoredShape
<1>4. stored'[account].pending = p
  BY <1>1 DEF FriendInv, StoredShape
<1>5. CacheIsStored'
  BY <1>1, <1>3, <1>4 DEF FriendInv, CacheIsStored
<1> QED
  BY <1>1, <1>2, <1>5 DEF FriendInv

(* The friends, by a removal or by the server's list, whenever it comes.   *)
LEMMA FriendsSet ==
  ASSUME FriendInv, account' = account, NEW f, SetFriends(f)
  PROVE  FriendInv'
<1>1. /\ friends' = f /\ pending' = pending /\ loadedFor' = loadedFor
      /\ stored' = [stored EXCEPT ![account].friends = f]
      /\ ~strayed' => ~strayed /\ account = loadedFor
  BY DEF SetFriends
<1>2. StoredShape'
  BY <1>1 DEF FriendInv, StoredShape
<1>3. stored'[account].friends = f /\ stored'[account].pending = stored[account].pending
  BY <1>1 DEF FriendInv, StoredShape
<1>4. CacheIsStored'
  BY <1>1, <1>3 DEF FriendInv, CacheIsStored
<1> QED
  BY <1>1, <1>2, <1>4 DEF FriendInv

(* Both lists are read again, for the account of the moment.               *)
LEMMA LoadKeeps ==
  ASSUME FriendInv, NEW s, NEW by, account' \in Keys, LoadFriends(account', by, s)
  PROVE  FriendInv'
<1>1. /\ friends' = stored[account'].friends /\ pending' = stored[account'].pending
      /\ loadedFor' = account' /\ stored' = stored
  BY DEF LoadFriends
<1> QED
  BY <1>1 DEF FriendInv, StoredShape, CacheIsStored

-----------------------------------------------------------------------------
(* The session.                                                            *)
LEMMA SessionKeeps ==
  ASSUME FriendInv,
         \/ \E s \in Slots : (\E a \in Accounts : FriendLogin(a, s)) \/ FriendLogout(s)
         \/ FriendUnauthorized
         \/ \E a \in Accounts : FriendProfile(a)
  PROVE  FriendInv'
<1>1. ASSUME NEW s \in Slots, NEW a \in Accounts, FriendLogin(a, s) PROVE FriendInv'
  BY <1>1, LoadKeeps DEF FriendLogin, Keys
<1>2. ASSUME NEW s \in Slots, FriendLogout(s) PROVE FriendInv'
  BY <1>2, LoadKeeps, AnonymousIsKey DEF FriendLogout
<1>3. CASE FriendUnauthorized
  BY <1>3, Untouched, AnonymousIsKey DEF FriendUnauthorized
<1>4. ASSUME NEW a \in Accounts, FriendProfile(a) PROVE FriendInv'
  <2>1. account' \in Keys
    BY <1>4 DEF FriendProfile, FriendInv, Keys
  <2> QED
    BY <1>4, <2>1, Untouched DEF FriendProfile
<1> QED
  BY <1>1, <1>2, <1>3, <1>4

(* The user's operations.                                                  *)
LEMMA UserKeeps ==
  ASSUME FriendInv, NEW n \in Names, NEW s,
         AcceptFriend(n, s) \/ AddFriend(n, s) \/ RemoveFriend(n, s) \/ RejectFriend(n)
  PROVE  FriendInv'
<1>1. ASSUME AcceptFriend(n, s) PROVE FriendInv'
  BY <1>1, UpdateKeeps DEF AcceptFriend, who
<1>2. CASE AddFriend(n, s)
  <2>1. CASE n \in pending
    BY <1>1, <1>2, <2>1 DEF AddFriend
  <2>2. CASE n \notin pending
    BY <1>2, <2>2, Untouched DEF AddFriend, who, FriendInv
  <2> QED
    BY <2>1, <2>2
<1>3. CASE RemoveFriend(n, s)
  BY <1>3, FriendsSet DEF RemoveFriend, who
<1>4. CASE RejectFriend(n)
  BY <1>4, UpdateKeeps DEF RejectFriend, who
<1> QED
  BY <1>1, <1>2, <1>3, <1>4

(* The server and its answers, in the session of the moment.               *)
LEMMA AnswerKeeps ==
  ASSUME FriendInv, NEW s \in Slots, Serve(s) \/ Answer(s)
  PROVE  FriendInv'
<1>1. CASE Serve(s)
  BY <1>1, Untouched DEF Serve, who, FriendInv
<1>2. CASE Answer(s)
  <2>1. account' = account /\ account' \in Keys
    BY <1>2 DEF Answer, FriendInv, who
  <2>2. CASE calls[s].stage = "failed"
    BY <1>2, <2>1, <2>2, Untouched DEF Answer
  <2>3. CASE calls[s].stage # "failed" /\ calls[s].stage = "done" /\ calls[s].op = "list"
    <3>1. SetFriends(calls[s].lists)
      BY <1>2, <2>3 DEF Answer
    <3> QED
      BY <2>1, <3>1, FriendsSet
  <2>4. CASE calls[s].stage # "failed" /\ ~(calls[s].stage = "done" /\ calls[s].op = "list")
    <3>1. LoadFriends(account', bearer, s)
      BY <1>2, <2>1, <2>4 DEF Answer
    <3> QED
      BY <2>1, <3>1, LoadKeeps
  <2> QED
    BY <2>2, <2>3, <2>4
<1> QED
  BY <1>1, <1>2

(* Packets of peers.                                                       *)
LEMMA PacketKeeps ==
  ASSUME FriendInv, NEW n \in Names, FriendRequest(n) \/ FriendAccept(n) \/ FriendReject(n)
  PROVE  FriendInv'
<1>1. CASE FriendRequest(n)
  <2>1. CASE n \in friends \union pending
    BY <1>1, <2>1, Untouched DEF FriendRequest, who, FriendInv
  <2>2. CASE n \notin friends \union pending
    BY <1>1, <2>2, UpdateKeeps DEF FriendRequest, who
  <2> QED
    BY <2>1, <2>2
<1>2. CASE FriendAccept(n)
  BY <1>2, UpdateKeeps DEF FriendAccept, who
<1>3. CASE FriendReject(n)
  BY <1>3, UpdateKeeps DEF FriendReject, who
<1> QED
  BY <1>1, <1>2, <1>3

-----------------------------------------------------------------------------
LEMMA FriendInvInit == FriendInit => FriendInv
BY AnonymousIsKey DEF FriendInit, FriendInv, StoredShape, CacheIsStored

LEMMA FriendInvStep == FriendInv /\ [FriendNext]_friendVars => FriendInv'
<1> SUFFICES ASSUME FriendInv, [FriendNext]_friendVars PROVE FriendInv'
  OBVIOUS
<1>1. CASE UNCHANGED friendVars
  BY <1>1, Untouched DEF friendVars, who, FriendInv
<1> QED
  BY <1>1, SessionKeeps, UserKeeps, AnswerKeeps, PacketKeeps DEF FriendNext

(* What is shown is what the settings of the account it was loaded for     *)
(* hold, however calls, packets, logins, logouts and late profiles         *)
(* interleave, until a change is stored under another name.                *)
THEOREM CacheCorrect == FriendSpec => []CacheIsStored
<1>1. FriendInv => CacheIsStored
  BY DEF FriendInv
<1> QED
  BY <1>1, FriendInvInit, FriendInvStep, PTL DEF FriendSpec

-----------------------------------------------------------------------------
(* The friend service: its type invariant.  What the server is asked to    *)
(* change names a user; only the question for the whole list does not.     *)
ProperCalls == {c \in Call : c.op = "list" \/ c.name \in Names}

ListsTyped ==
  /\ account \in Keys /\ loadedFor \in Keys /\ strayed \in BOOLEAN
  /\ friends \subseteq Names /\ pending \subseteq Names
  /\ stored \in [Keys -> Lists]

CallsTyped ==
  /\ bearer \in Keys
  /\ calls \in [Slots -> {NoCall} \union ProperCalls]
  /\ server \in [Accounts -> SUBSET Names]

SpentTyped ==
  /\ asked \in [Accounts -> Nat]
  /\ spent \in [calls : 0 .. MaxCalls, packets : 0 .. MaxPackets, sessions : 0 .. MaxSessions]

SignalTyped == signal = NoSignal \/ signal \in Signals

FriendTypeInv == ListsTyped /\ CallsTyped /\ SpentTyped /\ SignalTyped

LEMMA FriendTypes == FriendTypeInv => FriendTypeOK
BY DEF FriendTypeInv, ListsTyped, CallsTyped, SpentTyped, SignalTyped, ProperCalls, FriendTypeOK

LEMMA SentIsProper ==
  ASSUME NEW op \in {"list", "add", "accept", "remove"}, NEW by \in Keys,
         NEW name \in Names \union {Anonymous}, op = "list" \/ name \in Names
  PROVE  Sent(op, by, name) \in ProperCalls
BY DEF Sent, ProperCalls, Call

(* The three ways in which lists change.                                   *)
LEMMA ListsStayTyped ==
  ASSUME ListsTyped, account' \in Keys,
         \/ UNCHANGED lists
         \/ \E f, q \in SUBSET Names : Update(f, q)
         \/ \E f \in SUBSET Names : SetFriends(f)
         \/ \E s \in Slots, key, by \in Keys : LoadFriends(key, by, s)
  PROVE  ListsTyped'
<1>1. CASE UNCHANGED lists
  BY <1>1 DEF lists, ListsTyped
<1>2. ASSUME NEW f \in SUBSET Names, NEW q \in SUBSET Names, Update(f, q) PROVE ListsTyped'
  <2>1. [friends |-> IF f = friends THEN stored[account].friends ELSE f, pending |-> q] \in Lists
    BY DEF ListsTyped, Lists
  <2>2. stored' \in [Keys -> Lists]
    BY <1>2, <2>1 DEF Update, ListsTyped
  <2> QED
    BY <1>2, <2>2 DEF Update, ListsTyped
<1>3. ASSUME NEW f \in SUBSET Names, SetFriends(f) PROVE ListsTyped'
  <2>1. [stored[account] EXCEPT !.friends = f] \in Lists
    BY DEF ListsTyped, Lists
  <2>2. stored' \in [Keys -> Lists]
    BY <1>3, <2>1 DEF SetFriends, ListsTyped
  <2> QED
    BY <1>3, <2>2 DEF SetFriends, ListsTyped
<1>4. ASSUME NEW s \in Slots, NEW key \in Keys, NEW by \in Keys, LoadFriends(key, by, s)
      PROVE  ListsTyped'
  <2>1. stored[key].friends \subseteq Names /\ stored[key].pending \subseteq Names
    BY DEF ListsTyped, Lists
  <2> QED
    BY <1>4, <2>1 DEF LoadFriends, ListsTyped
<1> QED
  BY <1>1, <1>2, <1>3, <1>4

(* Calls are asked and dropped one at a time.                              *)
LEMMA CallsStayTyped ==
  ASSUME CallsTyped, server' \in [Accounts -> SUBSET Names], bearer' \in Keys,
         \/ calls' = calls
         \/ \E s \in Slots, c \in {NoCall} \union ProperCalls : calls' = [calls EXCEPT ![s] = c]
  PROVE  CallsTyped'
BY DEF CallsTyped

LEMMA LoadAsks ==
  ASSUME NEW key \in Keys, NEW by \in Keys, NEW s \in Slots, LoadFriends(key, by, s)
  PROVE  \E c \in {NoCall} \union ProperCalls : calls' = [calls EXCEPT ![s] = c]
<1>1. Sent("list", by, Anonymous) \in ProperCalls
  BY SentIsProper
<1> QED
  BY <1>1 DEF LoadFriends

LEMMA SpendingIsBounded ==
  ASSUME SpentTyped, asked' \in [Accounts -> Nat],
         \/ spent' = spent
         \/ Spend("calls", MaxCalls)
         \/ Spend("packets", MaxPackets)
         \/ Spend("sessions", MaxSessions)
  PROVE  SpentTyped'
BY FriendAssumption DEF SpentTyped, Spend

(* The session: the lists of the account that comes or goes.               *)
LEMMA SessionTypes ==
  ASSUME FriendTypeInv,
         \/ \E s \in Slots : (\E a \in Accounts : FriendLogin(a, s)) \/ FriendLogout(s)
         \/ FriendUnauthorized
         \/ \E a \in Accounts : FriendProfile(a)
  PROVE  ListsTyped' /\ CallsTyped' /\ SpentTyped'
<1> USE DEF FriendTypeInv
<1>1. ASSUME NEW s \in Slots, NEW a \in Accounts, FriendLogin(a, s)
      PROVE  ListsTyped' /\ CallsTyped' /\ SpentTyped'
  <2>1. /\ a \in Keys /\ account' = a /\ bearer' = a /\ server' = server
        /\ LoadFriends(a, a, s)
    BY <1>1 DEF FriendLogin, Keys
  <2>2. asked' \in [Accounts -> Nat]
    BY <1>1 DEF FriendLogin, SpentTyped
  <2>3. SpentTyped'
    BY <1>1, <2>2, SpendingIsBounded DEF FriendLogin
  <2>4. CallsTyped'
    BY <2>1, LoadAsks, CallsStayTyped DEF CallsTyped
  <2> QED
    BY <2>1, <2>3, <2>4, ListsStayTyped
<1>2. ASSUME NEW s \in Slots, FriendLogout(s) PROVE ListsTyped' /\ CallsTyped' /\ SpentTyped'
  <2>1. /\ account' = Anonymous /\ bearer' = Anonymous /\ UNCHANGED <<asked, server, spent>>
        /\ LoadFriends(Anonymous, Anonymous, s)
    BY <1>2 DEF FriendLogout
  <2>2. CallsTyped'
    BY <2>1, AnonymousIsKey, LoadAsks, CallsStayTyped DEF CallsTyped
  <2> QED
    BY <2>1, <2>2, AnonymousIsKey, ListsStayTyped, SpendingIsBounded DEF SpentTyped
<1>3. CASE FriendUnauthorized
  BY <1>3, AnonymousIsKey, ListsStayTyped DEF FriendUnauthorized, CallsTyped, SpentTyped
<1>4. ASSUME NEW a \in Accounts, FriendProfile(a)
      PROVE  ListsTyped' /\ CallsTyped' /\ SpentTyped'
  <2>1. account' \in Keys
    BY <1>4 DEF FriendProfile, ListsTyped, Keys
  <2>2. asked' \in [Accounts -> Nat]
    BY <1>4 DEF FriendProfile, SpentTyped
  <2> QED
    BY <1>4, <2>1, <2>2, ListsStayTyped DEF FriendProfile, CallsTyped, SpentTyped
<1> QED
  BY <1>1, <1>2, <1>3, <1>4

(* The user's operations, and the packets of peers.                        *)
LEMMA UserTypes ==
  ASSUME FriendTypeInv, NEW n \in Names,
         \/ \E s \in Slots : AcceptFriend(n, s) \/ AddFriend(n, s) \/ RemoveFriend(n, s)
         \/ RejectFriend(n)
  PROVE  ListsTyped' /\ CallsTyped' /\ SpentTyped'
<1> USE DEF FriendTypeInv
<1>1. friends \union {n} \in SUBSET Names /\ friends \ {n} \in SUBSET Names
      /\ pending \ {n} \in SUBSET Names
  BY DEF ListsTyped
<1>2. \A op \in {"add", "accept", "remove"} : Sent(op, bearer, n) \in ProperCalls
  BY SentIsProper DEF CallsTyped
<1>3. /\ account \in Keys /\ bearer \in Keys /\ server \in [Accounts -> SUBSET Names]
      /\ asked \in [Accounts -> Nat]
  BY DEF ListsTyped, CallsTyped, SpentTyped
<1>4. ASSUME NEW s \in Slots, AcceptFriend(n, s) PROVE ListsTyped' /\ CallsTyped' /\ SpentTyped'
  <2>1. /\ UNCHANGED <<account, bearer, asked, server>> /\ Spend("calls", MaxCalls)
        /\ calls' = [calls EXCEPT ![s] = Sent("accept", bearer, n)]
        /\ Update(friends \union {n}, pending \ {n})
    BY <1>4 DEF AcceptFriend, who
  <2>2. CallsTyped'
    BY <1>2, <1>3, <2>1, CallsStayTyped
  <2>3. ListsTyped'
    BY <1>1, <1>3, <2>1, ListsStayTyped
  <2> QED
    BY <1>3, <2>1, <2>2, <2>3, SpendingIsBounded DEF SpentTyped
<1>5. ASSUME NEW s \in Slots, AddFriend(n, s) PROVE ListsTyped' /\ CallsTyped' /\ SpentTyped'
  <2>1. CASE n \in pending
    BY <1>4, <1>5, <2>1 DEF AddFriend
  <2>2. CASE n \notin pending
    <3>1. /\ UNCHANGED <<account, bearer, asked, lists, server>>
          /\ Spend("calls", MaxCalls)
          /\ calls' = [calls EXCEPT ![s] = Sent("add", bearer, n)]
      BY <1>5, <2>2 DEF AddFriend, who
    <3>2. CallsTyped'
      BY <1>2, <1>3, <3>1, CallsStayTyped
    <3> QED
      BY <1>3, <3>1, <3>2, ListsStayTyped, SpendingIsBounded
  <2> QED
    BY <2>1, <2>2
<1>6. ASSUME NEW s \in Slots, RemoveFriend(n, s) PROVE ListsTyped' /\ CallsTyped' /\ SpentTyped'
  <2>1. /\ UNCHANGED <<account, bearer, asked, server>> /\ Spend("calls", MaxCalls)
        /\ SetFriends(friends \ {n})
        /\ calls' = calls \/ calls' = [calls EXCEPT ![s] = Sent("remove", bearer, n)]
    BY <1>6 DEF RemoveFriend, who
  <2>2. CallsTyped'
    BY <1>2, <1>3, <2>1, CallsStayTyped
  <2>3. ListsTyped'
    BY <1>1, <1>3, <2>1, ListsStayTyped
  <2> QED
    BY <1>3, <2>1, <2>2, <2>3, SpendingIsBounded DEF SpentTyped
<1>7. CASE RejectFriend(n)
  <2>1. /\ UNCHANGED <<account, bearer, asked, server, calls>> /\ Spend("calls", MaxCalls)
        /\ Update(friends \ {n}, pending \ {n})
    BY <1>7 DEF RejectFriend, who
  <2>2. ListsTyped' /\ CallsTyped'
    BY <1>1, <1>3, <2>1, ListsStayTyped, CallsStayTyped
  <2> QED
    BY <1>3, <2>1, <2>2, SpendingIsBounded DEF SpentTyped
<1> QED
  BY <1>4, <1>5, <1>6, <1>7

LEMMA PacketTypes ==
  ASSUME FriendTypeInv, NEW n \in Names, FriendRequest(n) \/ FriendAccept(n) \/ FriendReject(n)
  PROVE  ListsTyped' /\ CallsTyped' /\ SpentTyped'
<1> USE DEF FriendTypeInv
<1>1. /\ friends \in SUBSET Names /\ friends \union {n} \in SUBSET Names
      /\ friends \ {n} \in SUBSET Names
      /\ pending \union {n} \in SUBSET Names /\ pending \ {n} \in SUBSET Names
      /\ account \in Keys /\ bearer \in Keys /\ server \in [Accounts -> SUBSET Names]
      /\ asked \in [Accounts -> Nat]
  BY DEF ListsTyped, CallsTyped, SpentTyped
<1>2. UNCHANGED <<account, bearer, asked, server, calls>> /\ Spend("packets", MaxPackets)
  BY DEF FriendRequest, FriendAccept, FriendReject, who
<1>3. \/ UNCHANGED lists
      \/ \E f, q \in SUBSET Names : Update(f, q)
  BY <1>1 DEF FriendRequest, FriendAccept, FriendReject
<1>4. ListsTyped'
  BY <1>1, <1>2, <1>3, ListsStayTyped
<1> QED
  BY <1>1, <1>2, <1>4, CallsStayTyped, SpendingIsBounded

(* The server answers only what names a user, and only of an account.      *)
LEMMA ServeTypes ==
  ASSUME FriendTypeInv, NEW s \in Slots, Serve(s)
  PROVE  ListsTyped' /\ CallsTyped' /\ SpentTyped'
<1> USE DEF FriendTypeInv
<1> DEFINE c == calls[s]
<1>1. c \in ProperCalls
  BY DEF Serve, CallsTyped
<1>2. c \in Call /\ (c.op = "list" \/ c.name \in Names)
  BY <1>1 DEF ProperCalls
<1>3. PICK ok \in (IF c.by = Anonymous \/ c.name = c.by THEN {FALSE} ELSE BOOLEAN) :
        /\ server' = IF ok /\ c.op \in {"add", "accept"}
                       THEN [server EXCEPT ![c.by] = @ \union {c.name}]
                     ELSE IF ok /\ c.op = "remove" THEN [server EXCEPT ![c.by] = @ \ {c.name}]
                     ELSE server
        /\ calls' = [calls EXCEPT ![s] =
             [c EXCEPT !.stage = IF ok THEN "done" ELSE "failed",
                       !.lists = IF ok /\ c.op = "list" THEN server[c.by] ELSE {}]]
  BY DEF Serve
<1>4. UNCHANGED <<account, bearer, asked, lists, spent>>
  BY DEF Serve, who
<1> HIDE DEF c
<1>5. ok => c.by \in Accounts
  BY <1>2, <1>3 DEF Call, Keys
<1>6. server \in [Accounts -> SUBSET Names] /\ server' \in [Accounts -> SUBSET Names]
  BY <1>2, <1>3, <1>5 DEF CallsTyped
<1> DEFINE stage == IF ok THEN "done" ELSE "failed"
           sent == IF ok /\ c.op = "list" THEN server[c.by] ELSE {}
           served == [c EXCEPT !.stage = stage, !.lists = sent]
<1>7. stage \in {"sent", "done", "failed"} /\ sent \in SUBSET Names
  BY <1>5, <1>6
<1>8. calls' = [calls EXCEPT ![s] = served]
  BY <1>3
<1> HIDE DEF stage, sent
<1>9. served \in ProperCalls
  BY <1>2, <1>7 DEF ProperCalls, Call
<1> HIDE DEF served
<1> QED
  BY <1>4, <1>6, <1>8, <1>9, CallsStayTyped, ListsStayTyped DEF ListsTyped, CallsTyped, SpentTyped

LEMMA AnswerTypes ==
  ASSUME FriendTypeInv, NEW s \in Slots, Answer(s)
  PROVE  ListsTyped' /\ CallsTyped' /\ SpentTyped'
<1> USE DEF FriendTypeInv
<1>1. UNCHANGED <<account, bearer, asked, server, spent>>
  BY DEF Answer, who
<1>2. account \in Keys /\ bearer \in Keys /\ server \in [Accounts -> SUBSET Names]
  BY DEF ListsTyped, CallsTyped
<1>3. CASE calls[s].stage = "failed"
  BY <1>1, <1>2, <1>3, ListsStayTyped, CallsStayTyped DEF Answer, SpentTyped
<1>4. CASE calls[s].stage = "done" /\ calls[s].op = "list"
  <2>1. SetFriends(calls[s].lists) /\ calls' = [calls EXCEPT ![s] = NoCall]
    BY <1>4 DEF Answer
  <2>2. calls[s].lists \in SUBSET Names
    BY DEF Answer, CallsTyped, ProperCalls, Call
  <2> QED
    BY <1>1, <1>2, <2>1, <2>2, ListsStayTyped, CallsStayTyped DEF SpentTyped
<1>5. CASE ~(calls[s].stage = "failed") /\ ~(calls[s].stage = "done" /\ calls[s].op = "list")
  <2>1. LoadFriends(account, bearer, s)
    BY <1>5 DEF Answer
  <2> QED
    BY <1>1, <1>2, <2>1, LoadAsks, ListsStayTyped, CallsStayTyped DEF SpentTyped
<1> QED
  BY <1>3, <1>4, <1>5

LEMMA FriendTypeStart == FriendInit => FriendTypeInv
<1> SUFFICES ASSUME FriendInit PROVE FriendTypeInv
  OBVIOUS
<1>1. ListsTyped
  BY AnonymousIsKey DEF FriendInit, ListsTyped, Lists
<1>2. SpentTyped
  BY FriendAssumption DEF FriendInit, SpentTyped
<1> QED
  BY <1>1, <1>2, AnonymousIsKey DEF FriendInit, FriendTypeInv, CallsTyped, SignalTyped

-----------------------------------------------------------------------------
(* The notification centre: its type invariant and the unread counter.     *)

(* A finite set of numbers has a least one: the one with the fewest below. *)
LEMMA LeastId ==
  ASSUME NEW T \in SUBSET Nat, IsFiniteSet(T), T # {}
  PROVE  \E x \in T : \A y \in T : x <= y
<1> DEFINE below(x) == {y \in T : y < x}
           all == {below(x) : x \in T}
<1>1. \A x \in T : below(x) \in FiniteSubsetsOf(T)
  BY FS_Subset DEF FiniteSubsetsOf
<1>2. all \subseteq FiniteSubsetsOf(T) /\ all # {}
  BY <1>1
<1>3. IsWellFoundedOn(StrictSubsetOrdering(T), FiniteSubsetsOf(T))
  BY FS_StrictSubsetOrderingWellFounded
<1>4. PICK low \in all : \A other \in all : <<other, low>> \notin StrictSubsetOrdering(T)
  <2> HIDE DEF all
  <2> QED
    BY <1>2, <1>3, WFMin
<1>5. PICK x \in T : low = below(x)
  OBVIOUS
<1>6. ASSUME NEW y \in T, y < x PROVE FALSE
  <2>1. x \in Nat /\ y \in Nat /\ \A z \in T : z \in Nat
    OBVIOUS
  <2>3. \A z \in T : z < y => z < x
    BY <1>6, <2>1
  <2>4. ~(y < y)
    BY <2>1
  <2>5. below(y) \subseteq below(x) /\ y \in below(x) /\ y \notin below(y)
    BY <1>6, <2>3, <2>4, Zenon
  <2>2. <<below(y), below(x)>> \in StrictSubsetOrdering(T)
    BY <2>5 DEF StrictSubsetOrdering
  <2> QED
    BY <1>4, <1>5, <2>2
<1> QED
  BY <1>6

(* Ids are given out once and in order, so that a list that is one too     *)
(* long loses exactly one entry.                                           *)
IdsGrow ==
  /\ \A n \in active : n.id <= shown
  /\ \A n, m \in active : n.id = m.id => n = m

NotificationInv ==
  /\ NotificationTypeOK
  /\ IsFiniteSet(active)
  /\ IdsGrow
  /\ UnreadBounded

(* What Prepend returns for an entry with a new id.                        *)
LEMMA PrependBounded ==
  ASSUME NotificationInv, shown < MaxShown,
         NEW type \in Types, NEW channel \in Senders
  PROVE  LET n == [id |-> shown + 1, type |-> type, channel |-> channel] IN
         /\ Prepend(n) \subseteq active \union {n}
         /\ IsFiniteSet(Prepend(n))
         /\ \/ Cardinality(Prepend(n)) = Cardinality(active) + 1
               /\ Cardinality(active) + 1 <= MaxActive
            \/ Cardinality(Prepend(n)) = MaxActive
<1> DEFINE n == [id |-> shown + 1, type |-> type, channel |-> channel]
           all == active \union {n}
<1>1. /\ Cardinality(active) \in Nat /\ MaxActive \in Nat
      /\ Cardinality(active) <= MaxActive
      /\ shown \in Nat
  BY FS_CardinalityType, NotificationAssumption
  DEF NotificationInv, NotificationTypeOK
<1>2. n \notin active /\ n.id = shown + 1
  BY <1>1 DEF NotificationInv, IdsGrow
<1> HIDE DEF n
<1>3. IsFiniteSet(all) /\ Cardinality(all) = Cardinality(active) + 1
  BY <1>2, FS_AddElement DEF NotificationInv
<1>4. CASE Cardinality(all) <= MaxActive
  BY <1>1, <1>3, <1>4 DEF Prepend, n
<1>5. CASE Cardinality(all) > MaxActive
  <2>1. PICK o \in all : \A m \in all : o.id <= m.id
    <3>1. \A m \in all : m.id \in Nat
      BY <1>1, <1>2 DEF NotificationInv, NotificationTypeOK
    <3> DEFINE ids == {m.id : m \in all}
    <3>2. ids \in SUBSET Nat /\ ids # {}
      BY <3>1
    <3>4. IsFiniteSet(ids)
      <4>1. \A m \in all : m.id \in 0 .. shown + 1
        BY <1>1, <1>2, <3>1 DEF NotificationInv, IdsGrow
      <4>2. 0 \in Int /\ shown + 1 \in Int
        BY <1>1
      <4>3. ids \in SUBSET (0 .. shown + 1) /\ IsFiniteSet(0 .. shown + 1)
        BY <4>1, <4>2, FS_Interval DEF ids
      <4> QED
        BY <4>3, FS_Subset
    <3> HIDE DEF ids
    <3>3. PICK x \in ids : \A y \in ids : x <= y
      BY <3>2, <3>4, LeastId
    <3> QED
      BY <3>3 DEF ids
  <2>2. \A m, l \in all : m.id = l.id => m = l
    BY <1>1, <1>2 DEF NotificationInv, IdsGrow, NotificationTypeOK
  <2>3. \A m \in all : m.id \in Nat
    BY <1>1, <1>2 DEF NotificationInv, NotificationTypeOK
  <2>4. Oldest(all) = {o}
    <3>1. \A m \in Oldest(all) : m.id = o.id
      BY <2>1, <2>3 DEF Oldest
    <3> QED
      BY <2>1, <2>2, <3>1 DEF Oldest
  <2>5. IsFiniteSet(all \ {o}) /\ Cardinality(all \ {o}) = Cardinality(all) - 1
    BY <1>3, <2>1, FS_RemoveElement
  <2>6. Prepend(n) = all \ {o}
    BY <1>5, <2>4 DEF Prepend
  <2>7. Cardinality(all \ {o}) = MaxActive
    BY <1>1, <1>3, <1>5, <2>5
  <2> QED
    BY <2>5, <2>6, <2>7 DEF n
<1> QED
  BY <1>1, <1>3, <1>4, <1>5

(* A notification is shown, or not.                                        *)
LEMMA ShowKeeps ==
  ASSUME NotificationInv,
         NEW type \in Types, NEW channel \in Senders,
         ShowNotification(type, channel), enabled' = enabled,
         arriving' \in Seq([type : Types, channel : Senders, fromMe : BOOLEAN])
  PROVE  NotificationInv'
<1>1. CASE UNCHANGED <<active, unread, shown>>
  BY <1>1 DEF NotificationInv, NotificationTypeOK, IdsGrow, UnreadBounded
<1>2. CASE enabled /\ shown < MaxShown
  <2> DEFINE n == [id |-> shown + 1, type |-> type, channel |-> channel]
  <2>1. /\ shown' = shown + 1 /\ unread' = unread + 1 /\ active' = Prepend(n)
    BY <1>2, <1>1 DEF ShowNotification
  <2>2. /\ active' \subseteq active \union {n}
        /\ IsFiniteSet(active')
        /\ \/ Cardinality(active') = Cardinality(active) + 1
              /\ Cardinality(active) + 1 <= MaxActive
           \/ Cardinality(active') = MaxActive
    BY <1>2, <2>1, PrependBounded
  <2>3. /\ shown \in Nat /\ shown + 1 \in 1 .. MaxShown /\ MaxActive \in Nat /\ unread \in Nat
        /\ Cardinality(active) \in Nat
    BY <1>2, FS_CardinalityType, NotificationAssumption
  DEF NotificationInv, NotificationTypeOK
  <2>4. active' \subseteq [id : 1 .. MaxShown, type : Types, channel : Senders]
    BY <2>2, <2>3 DEF NotificationInv, NotificationTypeOK
  <2>5. IdsGrow'
    BY <2>1, <2>2, <2>3 DEF NotificationInv, IdsGrow, NotificationTypeOK
  <2>6. UnreadBounded'
    BY <2>1, <2>2, <2>3 DEF NotificationInv, UnreadBounded
  <2>7. Cardinality(active') <= MaxActive
    BY <2>2, <2>3
  <2>8. unread' \in Nat /\ shown' \in 0 .. MaxShown /\ enabled' \in BOOLEAN
    BY <2>1, <2>3 DEF NotificationInv, NotificationTypeOK
  <2> QED
    BY <2>2, <2>4, <2>5, <2>6, <2>7, <2>8 DEF NotificationInv, NotificationTypeOK
<1> QED
  BY <1>1, <1>2 DEF ShowNotification

(* Entries are removed, and the counter is cut to those that are left.     *)
LEMMA RemoveKeeps ==
  ASSUME NotificationInv, NEW list, RemoveEntries(list),
         UNCHANGED <<enabled, arriving, shown>>
  PROVE  NotificationInv'
<1>1. active' \in SUBSET active
  BY DEF RemoveEntries
<1>2. /\ IsFiniteSet(active') /\ Cardinality(active') <= Cardinality(active)
      /\ Cardinality(active') \in Nat /\ Cardinality(active) \in Nat
  BY <1>1, FS_Subset, FS_CardinalityType DEF NotificationInv
<1>3. unread' \in Nat /\ unread' <= Cardinality(active')
  BY <1>2 DEF RemoveEntries, NotificationInv, NotificationTypeOK
<1>4. NotificationTypeOK'
  BY <1>1, <1>2, <1>3, NotificationAssumption
  DEF NotificationInv, NotificationTypeOK
<1>5. IdsGrow'
  BY <1>1 DEF NotificationInv, IdsGrow
<1> QED
  BY <1>2, <1>3, <1>4, <1>5 DEF NotificationInv, UnreadBounded

LEMMA NotificationInvInit == NotificationInit => NotificationInv
<1> SUFFICES ASSUME NotificationInit PROVE NotificationInv
  OBVIOUS
<1>1. IsFiniteSet(active) /\ Cardinality(active) = 0
  BY FS_EmptySet DEF NotificationInit
<1> QED
  BY <1>1, NotificationAssumption
  DEF NotificationInit, NotificationInv, NotificationTypeOK, IdsGrow, UnreadBounded

LEMMA NotificationInvStep ==
  NotificationInv /\ [NotificationNext]_notificationVars => NotificationInv'
<1> SUFFICES ASSUME NotificationInv, [NotificationNext]_notificationVars
             PROVE  NotificationInv'
  OBVIOUS
<1> DEFINE Signal == [type : Types, channel : Senders, fromMe : BOOLEAN]
<1>1. ASSUME NEW p \in Senders, MessageArrives(p) PROVE NotificationInv'
  <2>1. {"message", "media_request"} \subseteq Types
    BY DEF Types
  <2>2. arriving' \in Seq(Signal)
    BY <1>1, <2>1 DEF MessageArrives, NotificationInv, NotificationTypeOK
  <2> QED
    BY <1>1, <2>2 DEF MessageArrives, NotificationInv, NotificationTypeOK, IdsGrow, UnreadBounded
<1>2. CASE HandleMessageAdded
  <2>1. Head(arriving) \in Signal /\ Tail(arriving) \in Seq(Signal)
    <3>1. arriving \in Seq(Signal) /\ arriving # <<>>
      BY <1>2 DEF HandleMessageAdded, NotificationInv, NotificationTypeOK
    <3> HIDE DEF Signal
    <3> QED
      BY <3>1
  <2>2. CASE Head(arriving).fromMe
    BY <1>2, <2>1, <2>2
    DEF HandleMessageAdded, NotificationInv, NotificationTypeOK, IdsGrow, UnreadBounded
  <2>3. CASE ~Head(arriving).fromMe
    BY <1>2, <2>1, <2>3, ShowKeeps DEF HandleMessageAdded
  <2> QED
    BY <2>2, <2>3
<1>3. CASE DismissNotification
  BY <1>3, RemoveKeeps DEF DismissNotification
<1>4. ASSUME NEW p \in Senders, MarkChannelAsRead(p) PROVE NotificationInv'
  BY <1>4, RemoveKeeps DEF MarkChannelAsRead
<1>5. CASE ResetUnreadCount
  <2>1. Cardinality(active) \in Nat
    BY FS_CardinalityType DEF NotificationInv
  <2> QED
    BY <1>5, <2>1 DEF ResetUnreadCount, NotificationInv, NotificationTypeOK, IdsGrow, UnreadBounded
<1>6. CASE ClearAll
  <2>1. active' = {} /\ IsFiniteSet(active') /\ Cardinality(active') = 0
    BY <1>6, FS_EmptySet DEF ClearAll
  <2> QED
    BY <1>6, <2>1, NotificationAssumption
    DEF ClearAll, NotificationInv, NotificationTypeOK, IdsGrow, UnreadBounded
<1>7. CASE SetNotificationsEnabled
  BY <1>7 DEF SetNotificationsEnabled, NotificationInv, NotificationTypeOK, IdsGrow, UnreadBounded
<1>8. ASSUME NEW p \in Senders, NEW type \in Types, ShowNotification(type, p),
             UNCHANGED <<enabled, arriving>>
      PROVE  NotificationInv'
  <2>1. arriving' \in Seq(Signal)
    BY <1>8 DEF NotificationInv, NotificationTypeOK
  <2> QED
    BY <1>8, <2>1, ShowKeeps
<1>9. ASSUME NEW p \in Senders, NEW type \in Types, DismissBySender(p, type),
             UNCHANGED <<enabled, arriving, shown>>
      PROVE  NotificationInv'
  BY <1>9, RemoveKeeps DEF DismissBySender
<1>10. CASE UNCHANGED notificationVars
  BY <1>10 DEF notificationVars, NotificationInv, NotificationTypeOK, IdsGrow, UnreadBounded
<1> QED
  BY <1>1, <1>2, <1>3, <1>4, <1>5, <1>6, <1>7, <1>8, <1>9, <1>10 DEF NotificationNext, Act, Wired

(* The badge never counts more than the list can show, unless the list has *)
(* been cut to its full length, whatever is shown, dismissed and cleared.  *)
THEOREM UnreadCorrect == NotificationSpec => []UnreadBounded
<1>1. NotificationInit => NotificationInv
  BY NotificationInvInit
<1>2. NotificationInv /\ [NotificationNext]_notificationVars => NotificationInv'
  BY NotificationInvStep
<1>3. NotificationInv => UnreadBounded
  BY DEF NotificationInv
<1> QED
  BY <1>1, <1>2, <1>3, PTL DEF NotificationSpec

-----------------------------------------------------------------------------
(* The friend service and the notification centre, wired.                  *)

(* Every step of the friend service emits one signal, or none.             *)
LEMMA SignalOfStep ==
  ASSUME FriendNext
  PROVE  signal' = NoSignal \/ signal' \in Signals
<1> DEFINE ok == signal' = NoSignal \/ signal' \in Signals
<1>1. ASSUME NEW s \in Slots, \/ \E a \in Accounts : FriendLogin(a, s)
                              \/ FriendLogout(s) \/ Serve(s) \/ Answer(s)
      PROVE  ok
  BY <1>1 DEF FriendLogin, FriendLogout, Serve, Answer
<1>2. CASE FriendUnauthorized
  BY <1>2 DEF FriendUnauthorized
<1>3. ASSUME NEW a \in Accounts, FriendProfile(a) PROVE ok
  BY <1>3 DEF FriendProfile
<1>4. ASSUME NEW n \in Names, NEW s \in Slots, AcceptFriend(n, s) PROVE ok
  BY <1>4 DEF AcceptFriend, Emit, Signals
<1>5. ASSUME NEW n \in Names, NEW s \in Slots, AddFriend(n, s) PROVE ok
  BY <1>4, <1>5 DEF AddFriend
<1>6. ASSUME NEW n \in Names, NEW s \in Slots, RemoveFriend(n, s) PROVE ok
  BY <1>6 DEF RemoveFriend
<1>7. ASSUME NEW n \in Names, RejectFriend(n) \/ FriendAccept(n) \/ FriendReject(n) PROVE ok
  BY <1>7 DEF RejectFriend, FriendAccept, FriendReject, Emit, Signals
<1>8. ASSUME NEW n \in Names, FriendRequest(n) PROVE ok
  BY <1>8 DEF FriendRequest, Emit, Signals
<1> QED
  BY <1>1, <1>2, <1>3, <1>4, <1>5, <1>6, <1>7, <1>8 DEF FriendNext

LEMMA FriendTypeStep ==
  FriendTypeInv /\ ([FriendNext]_friendVars \/ NotificationStep) => FriendTypeInv'
<1> SUFFICES ASSUME FriendTypeInv, [FriendNext]_friendVars \/ NotificationStep
             PROVE  FriendTypeInv'
  OBVIOUS
<1>1. CASE UNCHANGED friendVars
  BY <1>1
  DEF friendVars, who, lists, FriendTypeInv, ListsTyped, CallsTyped, SpentTyped, SignalTyped
<1>2. CASE FriendNext
  <2>1. ListsTyped' /\ CallsTyped' /\ SpentTyped'
    BY <1>2, SessionTypes, UserTypes, PacketTypes, ServeTypes, AnswerTypes DEF FriendNext
  <2> QED
    BY <1>2, <2>1, SignalOfStep DEF FriendTypeInv, SignalTyped
<1>3. CASE NotificationStep
  BY <1>3
  DEF NotificationStep, who, lists, FriendTypeInv, ListsTyped, CallsTyped, SpentTyped,
      SignalTyped
<1> QED
  BY <1>1, <1>2, <1>3

(* What the wiring makes of a signal is a step the notification centre     *)
(* allows to its callers.                                                  *)
LEMMA StepOfCentre ==
  ASSUME FriendStep
  PROVE  [Wired]_notificationVars
<1>1. OnSignal(signal') /\ UNCHANGED <<enabled, arriving>>
  BY DEF FriendStep
<1>2. CASE signal' = NoSignal
  <2>1. Kept
    BY <1>1, <1>2 DEF OnSignal, NoSignal
  <2> QED
    BY <1>1, <2>1 DEF Kept, notificationVars
<1>3. CASE signal' \in Signals
  <2>1. /\ signal'.name \in Senders
        /\ signal'.kind \in {"requestReceived", "accepted", "rejected", "acceptResult",
                             "rejectResult"}
    BY <1>3, SocialAssumption DEF Signals
  <2>2. /\ "friend_request" \in Types /\ "friend_accept" \in Types
        /\ "friend_reject" \in Types
    BY DEF Types
  <2>3. CASE signal'.kind \in {"requestReceived", "accepted", "rejected"}
    <3>1. \E type \in Types : ShowNotification(type, signal'.name)
      BY <1>1, <2>2, <2>3 DEF OnSignal
    <3> QED
      BY <1>1, <2>1, <3>1 DEF Wired
  <2>4. CASE signal'.kind \in {"acceptResult", "rejectResult"}
    <3>1. DismissBySender(signal'.name, "friend_request") /\ UNCHANGED shown
      BY <1>1, <2>4 DEF OnSignal
    <3> QED
      BY <1>1, <2>1, <2>2, <3>1 DEF Wired
  <2> QED
    BY <2>1, <2>3, <2>4
<1> QED
  BY <1>2, <1>3, SignalOfStep DEF FriendStep

LEMMA StepImplements == [SocialNext]_socialVars => [NotificationNext]_notificationVars
<1>1. CASE FriendStep
  BY <1>1, StepOfCentre DEF NotificationNext
<1>2. CASE NotificationStep
  BY <1>2 DEF NotificationStep, NotificationNext, Act
<1>3. CASE UNCHANGED socialVars
  BY <1>3 DEF socialVars
<1> QED
  BY <1>1, <1>2, <1>3 DEF SocialNext

(* The wired system uses the notification centre only as its callers may:  *)
(* what holds of the centre under all its callers holds in the program.    *)
THEOREM WiringImplementsCentre == SocialSpec => NotificationSpec
<1>1. SocialInit => NotificationInit
  BY DEF SocialInit
<1> QED
  BY <1>1, StepImplements, PTL DEF SocialSpec, NotificationSpec

(* Names are answered as they are signalled.                               *)
LEMMA AnsweredTypes ==
  answered \subseteq Names /\ [SocialNext]_socialVars => answered' \subseteq Names
<1> SUFFICES ASSUME answered \subseteq Names, [SocialNext]_socialVars
             PROVE  answered' \subseteq Names
  OBVIOUS
<1>1. CASE FriendStep
  <2>1. signal' = NoSignal \/ signal' \in Signals
    BY <1>1, SignalOfStep DEF FriendStep
  <2>2. Answered \subseteq Names
    BY <2>1 DEF Answered, NoSignal, Signals
  <2> QED
    BY <1>1, <2>2 DEF FriendStep
<1>2. CASE NotificationStep \/ UNCHANGED socialVars
  BY <1>2 DEF NotificationStep, socialVars
<1> QED
  BY <1>1, <1>2 DEF SocialNext

(* The lists on the screen are those in the settings in the wired system,  *)
(* too: the centre's steps leave them alone.                               *)
THEOREM WiredCacheCorrect == SocialSpec => []CacheIsStored
<1>1. SocialInit => FriendInv
  BY FriendInvInit DEF SocialInit
<1>2. FriendInv /\ [SocialNext]_socialVars => FriendInv'
  <2> SUFFICES ASSUME FriendInv, [SocialNext]_socialVars PROVE FriendInv'
    OBVIOUS
  <2>1. CASE FriendStep
    BY <2>1, FriendInvStep DEF FriendStep
  <2>2. CASE NotificationStep
    BY <2>2, Untouched DEF NotificationStep, who, FriendInv
  <2>3. CASE UNCHANGED socialVars
    BY <2>3, Untouched DEF socialVars, friendVars, who, FriendInv
  <2> QED
    BY <2>1, <2>2, <2>3 DEF SocialNext
<1>3. FriendInv => CacheIsStored
  BY DEF FriendInv
<1> QED
  BY <1>1, <1>2, <1>3, PTL DEF SocialSpec

-----------------------------------------------------------------------------
(* What can be on the list after a notification was shown.                 *)
LEMMA ShownIsNew ==
  ASSUME NEW type, NEW channel, ShowNotification(type, channel)
  PROVE  \A n \in active' : n \in active \/ (n.type = type /\ n.channel = channel)
BY DEF ShowNotification, Prepend

(* A request that was answered leaves the list with the answer, and comes  *)
(* back only with a new request, which is no longer answered.              *)
LEMMA AnsweredStep == NoAnsweredRequest /\ [SocialNext]_socialVars => NoAnsweredRequest'
<1> SUFFICES ASSUME NoAnsweredRequest, [SocialNext]_socialVars PROVE NoAnsweredRequest'
  OBVIOUS
<1>1. CASE FriendStep
  <2>1. OnSignal(signal') /\ answered' = (answered \ Asked) \union Answered
    BY <1>1 DEF FriendStep
  <2>2. CASE signal'.kind = "requestReceived"
    <3>1. ShowNotification("friend_request", signal'.name)
      BY <2>1, <2>2 DEF OnSignal
    <3>2. answered' = answered \ {signal'.name}
      BY <2>1, <2>2 DEF Asked, Answered
    <3> QED
      BY <3>1, <3>2, ShownIsNew DEF NoAnsweredRequest
  <2>3. CASE signal'.kind \in {"accepted", "rejected"}
    <3>1. \/ ShowNotification("friend_accept", signal'.name)
          \/ ShowNotification("friend_reject", signal'.name)
      BY <2>1, <2>3 DEF OnSignal
    <3>2. answered' = answered
      BY <2>1, <2>3 DEF Asked, Answered
    <3>3. \A n \in active' : n.type = "friend_request" => n \in active
      BY <3>1, ShownIsNew
    <3> QED
      BY <3>2, <3>3 DEF NoAnsweredRequest
  <2>4. CASE signal'.kind \in {"acceptResult", "rejectResult"}
    <3>1. DismissBySender(signal'.name, "friend_request")
      BY <2>1, <2>4 DEF OnSignal
    <3>2. answered' = answered \union {signal'.name}
      BY <2>1, <2>4 DEF Asked, Answered
    <3>3. \A n \in active' : n \in active /\ ~(n.type = "friend_request" /\
                                               n.channel = signal'.name)
      BY <3>1 DEF DismissBySender, RemoveEntries
    <3> QED
      BY <3>2, <3>3 DEF NoAnsweredRequest
  <2>5. CASE signal'.kind \notin {"requestReceived", "accepted", "rejected", "acceptResult",
                                 "rejectResult"}
    <3>1. active' = active
      BY <2>1, <2>5 DEF OnSignal, Kept
    <3>2. answered' = answered
      BY <2>1, <2>5 DEF Asked, Answered
    <3> QED
      BY <3>1, <3>2 DEF NoAnsweredRequest
  <2> QED
    BY <2>2, <2>3, <2>4, <2>5
<1>2. CASE NotificationStep
  <2>1. answered' = answered /\ active' \subseteq active
    BY <1>2 DEF NotificationStep, DismissNotification, RemoveEntries, ClearAll,
                SetNotificationsEnabled
  <2> QED
    BY <2>1 DEF NoAnsweredRequest
<1>3. CASE UNCHANGED socialVars
  BY <1>3 DEF socialVars, notificationVars, NoAnsweredRequest
<1> QED
  BY <1>1, <1>2, <1>3 DEF SocialNext

(* No notification asks for an answer that was given, however requests,    *)
(* answers, late calls and sessions interleave and whatever the list lost. *)
THEOREM AnswersCorrect == SocialSpec => []NoAnsweredRequest
<1>1. SocialInit => NoAnsweredRequest
  BY DEF SocialInit, NotificationInit, NoAnsweredRequest
<1> QED
  BY <1>1, AnsweredStep, PTL DEF SocialSpec
================================================================================
