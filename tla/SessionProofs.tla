----------------------------- MODULE SessionProofs -----------------------------
(***************************************************************************)
(* Proofs about Session, for any accounts, devices and numbers of chains:  *)
(* its types, that the parts agree on the token, that the database is that *)
(* of the account, and that the device that polls is a registered one; and *)
(* about Conversations, that the list on the screen is the saved one.      *)
(***************************************************************************)
EXTENDS Session, Conversations, FiniteSetTheorems, SequenceTheorems, TLAPS

-----------------------------------------------------------------------------
(* Lemmas about the helpers.                                               *)

LEMMA FiniteImage ==
  ASSUME NEW S, IsFiniteSet(S), NEW f, S \subseteq DOMAIN f
  PROVE  IsFiniteSet({f[x] : x \in S})
<1> DEFINE T == {f[x] : x \in S}
           g == [x \in S |-> f[x]]
<1>1. g \in Surjection(S, T)
  BY DEF Surjection
<1> QED
  BY <1>1, FS_Surjection

(* Among more numbers than are known there is a new one, and it is not 0.  *)
LEMMA NewIdIsNew == TypeOK => NewId \in Ids \ {0} /\ NewId \notin Known
<1> SUFFICES ASSUME TypeOK PROVE NewId \in Ids \ {0} /\ NewId \notin Known
  OBVIOUS
<1>1. IsFiniteSet(Accounts) /\ IsFiniteSet(Chains) /\ IsFiniteSet(Names)
  BY SessionAssumption, FS_AddElement DEF Names
<1>2. IsFiniteSet({deviceIds[n] : n \in Names})
  BY <1>1, FiniteImage DEF TypeOK
<1>3. IsFiniteSet({chains[c].id : c \in {d \in Chains : chains[d] # Free}})
  <2> DEFINE S == {d \in Chains : chains[d] # Free}
             f == [c \in S |-> chains[c].id]
  <2>1. IsFiniteSet(S)
    BY <1>1, FS_Subset
  <2> HIDE DEF S
  <2>2. DOMAIN f = S
    OBVIOUS
  <2> HIDE DEF f
  <2>3. IsFiniteSet({f[c] : c \in S})
    BY <2>1, <2>2, FiniteImage
  <2> QED
    BY <2>3 DEF f, S
<1>4. IsFiniteSet(UNION {ToSet(registered[a]) : a \in Accounts})
  <2> DEFINE f == [a \in Accounts |-> ToSet(registered[a])]
  <2>1. IsFiniteSet({f[a] : a \in Accounts})
    BY <1>1, FiniteImage
  <2>2. ASSUME NEW a \in Accounts PROVE IsFiniteSet(ToSet(registered[a]))
    <3>1. registered[a] \in Seq(Ids)
      BY DEF TypeOK
    <3>2. DOMAIN registered[a] = 1 .. Len(registered[a]) /\ Len(registered[a]) \in Int
      BY <3>1
    <3>3. IsFiniteSet(DOMAIN registered[a])
      BY <3>2, FS_Interval
    <3> QED
      BY <3>3, FiniteImage DEF ToSet
  <2> QED
    BY <2>1, <2>2, FS_UNION
<1>5. IsFiniteSet(Known)
  <2> DEFINE A == {deviceIds[n] : n \in Names}
             B == {chains[c].id : c \in {d \in Chains : chains[d] # Free}}
             D == UNION {ToSet(registered[a]) : a \in Accounts}
  <2>1. IsFiniteSet({socket.id})
    BY FS_Singleton
  <2>2. IsFiniteSet(A) /\ IsFiniteSet(B) /\ IsFiniteSet(D)
    BY <1>2, <1>3, <1>4
  <2>3. Known = ((A \union {socket.id}) \union B) \union D
    BY DEF Known
  <2> HIDE DEF A, B, D
  <2>4. IsFiniteSet(A \union {socket.id})
    BY <2>1, <2>2, FS_Union
  <2>5. IsFiniteSet((A \union {socket.id}) \union B)
    BY <2>2, <2>4, FS_Union
  <2> QED
    BY <2>2, <2>3, <2>5, FS_Union
<1>6. \E i \in 1 .. Cardinality(Known) + 1 : i \notin Known
  <2> SUFFICES ASSUME 1 .. Cardinality(Known) + 1 \subseteq Known PROVE FALSE
    OBVIOUS
  <2>1. Cardinality(Known) \in Nat
    BY <1>5, FS_CardinalityType
  <2>2. Cardinality(1 .. Cardinality(Known) + 1) = Cardinality(Known) + 1
    BY <2>1, FS_Interval
  <2>3. Cardinality(1 .. Cardinality(Known) + 1) <= Cardinality(Known)
    BY <1>5, FS_Subset
  <2> QED
    BY <2>1, <2>2, <2>3
<1> QED
  BY <1>6 DEF NewId, Ids

(* The device list of an account when a device is added or deleted.        *)
LEMMA ListAppended ==
  ASSUME NEW list \in Seq(Ids), IsInjective(list), NEW d \in Ids, d \notin ToSet(list)
  PROVE  /\ Append(list, d) \in Seq(Ids) /\ IsInjective(Append(list, d))
         /\ Len(Append(list, d)) = Len(list) + 1
         /\ d \in ToSet(Append(list, d))
<1>1. /\ Len(list) \in Nat /\ DOMAIN list = 1 .. Len(list)
      /\ Append(list, d) \in Seq(Ids) /\ Len(Append(list, d)) = Len(list) + 1
      /\ DOMAIN Append(list, d) = 1 .. Len(list) + 1
      /\ Append(list, d)[Len(list) + 1] = d
      /\ \A i \in 1 .. Len(list) : Append(list, d)[i] = list[i]
  OBVIOUS
<1>2. \A i \in 1 .. Len(list) : list[i] # d
  BY <1>1 DEF ToSet
<1> QED
  BY <1>1, <1>2 DEF ToSet, IsInjective

LEMMA ListShortened ==
  ASSUME NEW list \in Seq(Ids), IsInjective(list), NEW d \in ToSet(list)
  PROVE  /\ Without(list, d) \in Seq(Ids) /\ IsInjective(Without(list, d))
         /\ Len(Without(list, d)) <= Len(list)
<1> DEFINE n == Len(list)
           k == CHOOSE i \in DOMAIN list : list[i] = d
           less == SubSeq(list, 1, k - 1)
           more == SubSeq(list, k + 1, n)
<1>1. n \in Nat /\ n = Len(list) /\ DOMAIN list = 1 .. n /\ k \in 1 .. n
  BY DEF ToSet
<1> HIDE DEF k, n
<1>2. \A i \in 1 .. n : list[i] \in Ids
  BY <1>1
<1>a. /\ less \in Seq(Ids) /\ Len(less) = k - 1 /\ \A i \in 1 .. k - 1 : less[i] = list[i]
  <2>1. /\ less \in Seq(Ids) /\ Len(less) = IF 1 <= k - 1 THEN k - 1 - 1 + 1 ELSE 0
        /\ \A i \in 1 .. k - 1 - 1 + 1 : less[i] = list[1 + i - 1]
    BY <1>1, <1>2, SubSeqProperties
  <2> QED
    BY <1>1, <2>1
<1>b. /\ more \in Seq(Ids) /\ Len(more) = n - k /\ \A i \in 1 .. n - k : more[i] = list[i + k]
  <2>1. /\ more \in Seq(Ids) /\ Len(more) = IF k + 1 <= n THEN n - (k + 1) + 1 ELSE 0
        /\ \A i \in 1 .. n - (k + 1) + 1 : more[i] = list[k + 1 + i - 1]
    BY <1>1, <1>2, SubSeqProperties
  <2>2. ASSUME NEW i \in 1 .. n - k PROVE more[i] = list[i + k]
    <3>1. i \in 1 .. n - (k + 1) + 1 /\ k + 1 + i - 1 = i + k
      BY <1>1, <2>2
    <3>2. more[i] = list[k + 1 + i - 1]
      BY <2>1, <3>1
    <3> QED
      BY <3>1, <3>2
  <2>3. Len(more) = n - k
    BY <1>1, <2>1
  <2> QED
    BY <2>1, <2>2, <2>3
<1> HIDE DEF less, more
<1>3. /\ less \o more \in Seq(Ids) /\ Len(less \o more) = n - 1
      /\ DOMAIN (less \o more) = 1 .. n - 1
      /\ \A i \in 1 .. n - 1 : (less \o more)[i] = IF i < k THEN list[i] ELSE list[i + 1]
  <2>1. /\ less \o more \in Seq(Ids) /\ Len(less \o more) = Len(less) + Len(more)
        /\ \A i \in 1 .. Len(less) + Len(more) :
             (less \o more)[i] = IF i <= Len(less) THEN less[i] ELSE more[i - Len(less)]
    BY <1>a, <1>b, ConcatProperties
  <2>2. Len(less) + Len(more) = n - 1
    BY <1>1, <1>a, <1>b
  <2>3. ASSUME NEW i \in 1 .. n - 1
        PROVE  (less \o more)[i] = IF i < k THEN list[i] ELSE list[i + 1]
    <3>1. CASE i < k
      BY <1>1, <1>a, <2>1, <2>2, <2>3, <3>1
    <3>2. CASE ~(i < k)
      <4>1. i - (k - 1) \in 1 .. n - k /\ i - (k - 1) + k = i + 1
        BY <1>1, <2>3, <3>2
      <4>2. (less \o more)[i] = more[i - (k - 1)]
        BY <1>1, <1>a, <2>1, <2>2, <2>3, <3>2
      <4>3. more[i - (k - 1)] = list[i - (k - 1) + k]
        BY <1>b, <4>1
      <4> QED
        BY <1>1, <2>3, <3>2, <4>1, <4>2, <4>3
    <3> QED
      BY <3>1, <3>2
  <2> QED
    BY <2>1, <2>2, <2>3
<1>4. IsInjective(less \o more)
  <2> SUFFICES ASSUME NEW i \in 1 .. n - 1, NEW j \in 1 .. n - 1,
                      (less \o more)[i] = (less \o more)[j]
               PROVE  i = j
    BY <1>3 DEF IsInjective
  <2> DEFINE at(m) == IF m < k THEN m ELSE m + 1
  <2>1. at(i) \in 1 .. n /\ at(j) \in 1 .. n
    BY <1>1
  <2>a. (less \o more)[i] = list[at(i)] /\ (less \o more)[j] = list[at(j)]
    BY <1>3
  <2>2. at(i) = at(j)
    BY <1>1, <2>1, <2>a DEF IsInjective
  <2> QED
    BY <1>1, <2>2
<1>5. Without(list, d) = less \o more
  BY DEF Without, RemoveAt, less, more, k, n
<1>6. Len(less \o more) <= Len(list)
  BY <1>1, <1>3
<1> QED
  BY <1>3, <1>4, <1>5, <1>6

-----------------------------------------------------------------------------

(* The types: a login is counted when it succeeds, and the keys that a     *)
(* chain waits for are those of an account.                                *)
ChainTypes ==
  /\ chains \in [Chains -> Chain \union {Free}]
  /\ \A c \in Chains : chains[c].step \in {"limit", "taken"} => chains[c].of \in Accounts

TypeInv ==
  /\ TypeOK
  /\ logging # Nobody => logins < MaxLogins
  /\ ChainTypes

LEMMA TypeInit == Init => TypeInv
<1> SUFFICES ASSUME Init PROVE TypeInv
  OBVIOUS
<1>1. PICK w \in Worlds : deviceIds = w.ids /\ registered = w.devices
                          /\ username = w.saved /\ saved = w.saved
  BY DEF Init
<1>2. /\ w.saved \in Names /\ w.ids \in [Names -> Ids] /\ w.devices \in [Accounts -> Seq(Ids)]
      /\ \A a \in Accounts : IsInjective(w.devices[a]) /\ Len(w.devices[a]) <= Limit
      /\ Retries \in Nat /\ MaxLogins \in Nat /\ MaxFaults \in Nat
  BY SessionAssumption
<1>3. ChainTypes
  BY DEF Init, ChainTypes, Free
<1>4. TypeOK
  <2>1. {session, saved, wire, username, user, logging} \subseteq Names
    BY <1>1, <1>2 DEF Init, Names
  <2>2. /\ {polling, crossed, mixed, result} \subseteq BOOLEAN
        /\ profiles \subseteq [token : Accounts, login : 1 .. MaxLogins]
    BY DEF Init
  <2>3. socket \in [token : Names, id : Ids]
    BY DEF Init, NoOne, Names, Ids
  <2>4. retries \in 0 .. Retries /\ logins \in 0 .. MaxLogins /\ faults \in 0 .. MaxFaults
    BY <1>2 DEF Init
  <2> QED
    BY <1>1, <1>2, <1>3, <2>1, <2>2, <2>3, <2>4 DEF TypeOK, ChainTypes
<1> QED
  BY <1>3, <1>4 DEF Init, TypeInv

(* A chain that waits is a record, and stays one when a field is changed.  *)
LEMMA ChainIs ==
  ASSUME TypeInv, NEW c \in Chains, chains[c].step # "none"
  PROVE  chains[c] \in Chain
BY DEF TypeInv, ChainTypes, Free

(* The ways to leave a chain: at its end, with the keys, or once more.     *)
Left ==
  /\ ChainTypes'
  /\ result' \in BOOLEAN /\ polling' \in BOOLEAN
  /\ socket' \in [token : Names, id : Ids]

LEMMA FinishTypes ==
  ASSUME TypeInv, NEW c \in Chains, NEW success \in BOOLEAN, Finish(c, success)
  PROVE  Left
<1>1. ChainTypes'
  BY DEF Finish, TypeInv, ChainTypes, Free
<1>2. result' \in BOOLEAN /\ polling' \in BOOLEAN /\ socket' \in [token : Names, id : Ids]
  <2>1. /\ polling \in BOOLEAN /\ socket \in [token : Names, id : Ids]
        /\ saved \in Names /\ deviceIds[username] \in Ids
    BY DEF TypeInv, TypeOK
  <2>2. CASE Succeeds
    BY <2>1, <2>2 DEF Succeeds
  <2>3. CASE Fails
    BY <2>1, <2>3 DEF Fails
  <2> QED
    BY <2>2, <2>3 DEF Finish
<1> QED
  BY <1>1, <1>2 DEF Left

LEMMA AsksTypes ==
  ASSUME TypeInv, NEW c \in Chains, chains[c].step # "none", username # Nobody,
         NEW step \in {"limit", "taken"}, Asks(c, step)
  PROVE  Left
<1>1. chains[c] \in Chain /\ username \in Accounts
  BY ChainIs DEF TypeInv, TypeOK, Names
<1>2. /\ chains'[c] = [chains[c] EXCEPT !.step = step, !.of = username]
      /\ \A d \in Chains \ {c} : chains'[d] = chains[d]
      /\ DOMAIN chains' = Chains /\ chains' = [d \in Chains |-> chains'[d]]
  BY DEF Asks, TypeInv, ChainTypes
<1>3. chains'[c] \in Chain /\ chains'[c].of = username
  BY <1>1, <1>2 DEF Chain, Names
<1>4. ChainTypes'
  BY <1>1, <1>2, <1>3 DEF TypeInv, ChainTypes
<1> QED
  BY <1>4 DEF Asks, Left, TypeInv, TypeOK

LEMMA RequestTypes ==
  ASSUME NEW id \in Ids, NEW attempt \in 0 .. Attempts - 1, NEW token \in Names,
         NEW login \in 0 .. MaxLogins
  PROVE  Request(id, attempt, token, login) \in Chain
BY DEF Request, Chain, Names, Ids

LEMMA TryAgainTypes ==
  ASSUME TypeInv, NEW c \in Chains, chains[c].step # "none",
         NEW id \in Ids, TryAgain(c, id, chains[c].attempt + 1)
  PROVE  Left
<1>1. /\ chains[c] \in Chain /\ chains[c].attempt \in 0 .. Attempts - 1
      /\ chains[c].login \in 0 .. MaxLogins
  BY ChainIs DEF Chain
<1>2. CASE chains[c].attempt + 1 >= Attempts \/ saved = Nobody
  BY <1>2, FinishTypes DEF TryAgain
<1>3. CASE ~(chains[c].attempt + 1 >= Attempts \/ saved = Nobody)
  <2> DEFINE new == Request(id, chains[c].attempt + 1, wire, chains[c].login)
  <2>1. chains[c].attempt + 1 \in 0 .. Attempts - 1
    BY <1>1, <1>3, SessionAssumption
  <2>2. new \in Chain /\ new.step = "register"
    BY <1>1, <2>1, RequestTypes DEF Request, TypeInv, TypeOK
  <2>3. chains' = [chains EXCEPT ![c] = new] /\ UNCHANGED <<result, polling, socket>>
    BY <1>3 DEF TryAgain
  <2> HIDE DEF new
  <2>4. ChainTypes'
    BY <2>2, <2>3 DEF TypeInv, ChainTypes
  <2> QED
    BY <2>3, <2>4 DEF Left, TypeInv, TypeOK
<1> QED
  BY <1>2, <1>3

(* What no answer to a chain changes.                                      *)
LEMMA ChainStepTypes ==
  ASSUME TypeInv, Left,
         crossed' \in BOOLEAN, mixed' \in BOOLEAN, deviceIds' \in [Names -> Ids],
         registered' \in [Accounts -> Seq(Ids)],
         \A a \in Accounts : IsInjective(registered'[a]) /\ Len(registered'[a]) <= Limit,
         UNCHANGED <<session, saved, wire, username, user, logging, profiles, retries, logins, faults>>
  PROVE  TypeInv'
BY DEF TypeInv, TypeOK, Left, ChainTypes

LEMMA TypeRegister ==
  ASSUME TypeInv, NEW c \in Chains, RegisterAnswered(c)
  PROVE  TypeInv'
<1> DEFINE j == chains[c]
<1>1. /\ j.step = "register" /\ Applied(j.login)
      /\ UNCHANGED <<session, saved, wire, username, user, deviceIds, logging, profiles, retries>>
      /\ UNCHANGED <<logins, mixed, faults>>
  BY DEF RegisterAnswered, clients
<1>2. j \in Chain /\ j.by \in Names /\ j.id \in Ids
  BY <1>1, ChainIs DEF Chain
<1>3. crossed' \in BOOLEAN /\ mixed' \in BOOLEAN /\ deviceIds' \in [Names -> Ids]
  BY <1>1 DEF Applied, TypeInv, TypeOK
<1>4. /\ registered \in [Accounts -> Seq(Ids)]
      /\ \A a \in Accounts : IsInjective(registered[a]) /\ Len(registered[a]) <= Limit
  BY DEF TypeInv, TypeOK
<1>5. Left
  <2>1. \/ Finish(c, FALSE) \/ Finish(c, TRUE)
        \/ username # Nobody /\ (Asks(c, "limit") \/ Asks(c, "taken"))
    BY DEF RegisterAnswered
  <2>2. j.step # "none"
    BY <1>1
  <2> QED
    BY <2>1, <2>2, FinishTypes, AsksTypes
<1>6. /\ registered' \in [Accounts -> Seq(Ids)]
      /\ \A a \in Accounts : IsInjective(registered'[a]) /\ Len(registered'[a]) <= Limit
  <2>1. CASE registered' = registered
    BY <1>4, <2>1
  <2>2. CASE /\ j.by # Nobody /\ ~Owned(j.id) /\ Len(registered[j.by]) < Limit
             /\ registered' = [registered EXCEPT ![j.by] = Append(@, j.id)]
    <3>1. j.by \in Accounts
      BY <1>2, <2>2 DEF Names
    <3> DEFINE new == Append(registered[j.by], j.id)
    <3>2. j.id \notin ToSet(registered[j.by])
      BY <2>2, <3>1 DEF Owned
    <3>3. new \in Seq(Ids) /\ IsInjective(new) /\ Len(new) = Len(registered[j.by]) + 1
      BY <1>2, <1>4, <3>1, <3>2, ListAppended
    <3>4. Len(new) <= Limit
      BY <1>4, <2>2, <3>1, <3>3, SessionAssumption
    <3>5. registered' = [registered EXCEPT ![j.by] = new]
      BY <2>2
    <3> HIDE DEF new
    <3> QED
      BY <1>4, <3>1, <3>3, <3>4, <3>5
  <2> QED
    BY <2>1, <2>2 DEF RegisterAnswered
<1> QED
  BY <1>1, <1>3, <1>5, <1>6, ChainStepTypes

LEMMA TypeLimit ==
  ASSUME TypeInv, NEW c \in Chains, LimitAnswered(c)
  PROVE  TypeInv'
<1> DEFINE j == chains[c]
           list == registered[j.of]
<1>1. /\ j.step = "limit" /\ Applied(j.login)
      /\ UNCHANGED <<session, saved, wire, username, user, deviceIds, logging, profiles, retries>>
      /\ UNCHANGED <<registered, logins, mixed, faults>>
  BY DEF LimitAnswered, clients
<1>2. j \in Chain /\ j.of \in Accounts
  BY <1>1, ChainIs DEF TypeInv, ChainTypes
<1>3. crossed' \in BOOLEAN
  BY <1>1 DEF Applied, TypeInv, TypeOK
<1>4. Left
  <2>1. CASE Finish(c, FALSE) \/ Finish(c, TRUE)
    BY <2>1, FinishTypes
  <2>2. CASE /\ list # <<>>
             /\ chains' = [chains EXCEPT ![c].step = "delete", ![c].by = wire, ![c].target = Head(list)]
             /\ UNCHANGED <<result, polling, socket>>
    <3>1. Head(list) \in Ids /\ wire \in Names
      <4>1. list \in Seq(Ids)
        BY <1>2 DEF TypeInv, TypeOK
      <4> HIDE DEF list
      <4> QED
        BY <2>2, <4>1 DEF TypeInv, TypeOK
    <3> HIDE DEF list
    <3>2. /\ chains'[c] = [chains[c] EXCEPT !.step = "delete", !.by = wire, !.target = Head(list)]
          /\ \A d \in Chains \ {c} : chains'[d] = chains[d]
          /\ DOMAIN chains' = Chains /\ chains' = [d \in Chains |-> chains'[d]]
      BY <2>2 DEF TypeInv, ChainTypes
    <3>3. chains'[c] \in Chain /\ chains'[c].step = "delete"
      BY <1>2, <3>1, <3>2 DEF Chain
    <3>4. ChainTypes'
      BY <3>2, <3>3 DEF TypeInv, ChainTypes
    <3> QED
      BY <2>2, <3>4 DEF Left, TypeInv, TypeOK
  <2> QED
    BY <2>1, <2>2 DEF LimitAnswered
<1> QED
  BY <1>1, <1>3, <1>4, ChainStepTypes DEF TypeInv, TypeOK

LEMMA TypeDelete ==
  ASSUME TypeInv, NEW c \in Chains, DeleteAnswered(c)
  PROVE  TypeInv'
<1> DEFINE j == chains[c]
<1>1. /\ j.step = "delete" /\ Applied(j.login)
      /\ UNCHANGED <<session, saved, wire, username, user, deviceIds, logging, profiles, retries>>
      /\ UNCHANGED <<logins, mixed, faults>>
  BY DEF DeleteAnswered, clients
<1>2. j \in Chain /\ j.by \in Names /\ j.id \in Ids
  BY <1>1, ChainIs DEF Chain
<1>3. crossed' \in BOOLEAN /\ mixed' \in BOOLEAN /\ deviceIds' \in [Names -> Ids]
  BY <1>1 DEF Applied, TypeInv, TypeOK
<1>4. /\ registered \in [Accounts -> Seq(Ids)]
      /\ \A a \in Accounts : IsInjective(registered[a]) /\ Len(registered[a]) <= Limit
  BY DEF TypeInv, TypeOK
<1>5. Left
  BY <1>1, <1>2, FinishTypes, TryAgainTypes DEF DeleteAnswered
<1>6. /\ registered' \in [Accounts -> Seq(Ids)]
      /\ \A a \in Accounts : IsInjective(registered'[a]) /\ Len(registered'[a]) <= Limit
  <2>1. CASE registered' = registered
    BY <1>4, <2>1
  <2>2. CASE /\ j.by # Nobody /\ j.target \in ToSet(registered[j.by])
             /\ registered' = [registered EXCEPT ![j.by] = Without(@, j.target)]
    <3>1. j.by \in Accounts
      BY <1>2, <2>2 DEF Names
    <3> DEFINE new == Without(registered[j.by], j.target)
    <3>2. new \in Seq(Ids) /\ IsInjective(new) /\ Len(new) <= Len(registered[j.by])
      BY <1>4, <2>2, <3>1, ListShortened
    <3>3. Len(new) <= Limit
      <4>1. Len(new) \in Nat /\ Len(registered[j.by]) \in Nat
        BY <1>4, <3>1, <3>2
      <4> QED
        BY <1>4, <3>1, <3>2, <4>1, SessionAssumption
    <3>4. registered' = [registered EXCEPT ![j.by] = new]
      BY <2>2
    <3> HIDE DEF new
    <3> QED
      BY <1>4, <3>1, <3>2, <3>3, <3>4
  <2> QED
    BY <2>1, <2>2 DEF DeleteAnswered
<1> QED
  BY <1>1, <1>3, <1>5, <1>6, ChainStepTypes

LEMMA TypeTaken ==
  ASSUME TypeInv, NEW c \in Chains, TakenAnswered(c)
  PROVE  TypeInv'
<1> DEFINE j == chains[c]
<1>1. /\ j.step = "taken" /\ Applied(j.login)
      /\ UNCHANGED <<session, saved, wire, username, user, logging, profiles, retries>>
      /\ UNCHANGED <<registered, logins, faults>>
  BY DEF TakenAnswered
<1>2. NewId \in Ids
  BY NewIdIsNew DEF TypeInv
<1>3. crossed' \in BOOLEAN /\ mixed' \in BOOLEAN /\ deviceIds' \in [Names -> Ids]
  BY <1>1, <1>2 DEF Applied, TakenAnswered, TypeInv, TypeOK
<1>4. Left
  BY <1>1, <1>2, FinishTypes, TryAgainTypes DEF TakenAnswered
<1> QED
  BY <1>1, <1>3, <1>4, ChainStepTypes DEF TypeInv, TypeOK

LEMMA TypeStep == TypeInv /\ [Next]_sessionVars => TypeInv'
<1> SUFFICES ASSUME TypeInv, [Next]_sessionVars PROVE TypeInv'
  OBVIOUS
<1> USE SessionAssumption DEF TypeInv, TypeOK
<1>1. ASSUME NEW c \in Chains,
             RegisterAnswered(c) \/ LimitAnswered(c) \/ DeleteAnswered(c) \/ TakenAnswered(c)
      PROVE  TypeInv'
  BY <1>1, TypeRegister, TypeLimit, TypeDelete, TypeTaken
<1>2. ASSUME NEW c \in Chains, LoginAccepted(c) PROVE TypeInv'
  <2> DEFINE id  == IF deviceIds[logging] = 0 THEN NewId ELSE deviceIds[logging]
             new == Request(id, 0, logging, logins + 1)
  <2>1. logging \in Accounts /\ logins + 1 \in 1 .. MaxLogins
    <3>1. logging # Nobody /\ logins < MaxLogins
      BY <1>2 DEF LoginAccepted
    <3> QED
      BY <3>1 DEF Names
  <2>2. id \in Ids
    BY <2>1, NewIdIsNew DEF Names
  <2>3. 0 \in 0 .. Attempts - 1
    OBVIOUS
  <2>4. new \in Chain /\ new.step = "register"
    <3>1. logging \in Names /\ logins + 1 \in 0 .. MaxLogins
      BY <2>1 DEF Names
    <3> HIDE DEF id
    <3> QED
      BY <2>2, <2>3, <3>1, RequestTypes DEF Request
  <2>5. chains' = [chains EXCEPT ![c] = new] /\ deviceIds' = [deviceIds EXCEPT ![logging] = id]
    BY <1>2 DEF LoginAccepted
  <2>6. /\ deviceIds' \in [Names -> Ids]
        /\ ChainTypes'
    <3> HIDE DEF id, new
    <3> QED
      BY <2>2, <2>4, <2>5 DEF ChainTypes
  <2>7. /\ session' = logging /\ saved' = logging /\ wire' = logging /\ username' = logging
        /\ user' = logging /\ logging' = Nobody /\ logins' = logins + 1
        /\ profiles' = profiles \union {[token |-> logging, login |-> logins + 1]}
        /\ mixed' \in BOOLEAN
        /\ UNCHANGED <<polling, socket, retries, result, registered, crossed, faults>>
    BY <1>2 DEF LoginAccepted
  <2> HIDE DEF new, id
  <2>8. {session, saved, wire, username, user, logging}' \subseteq Names
    BY <2>1, <2>7 DEF Names
  <2>9. profiles' \subseteq [token : Accounts, login : 1 .. MaxLogins]
    BY <2>1, <2>7
  <2> HIDE DEF ChainTypes
  <2>10. /\ logins' \in 0 .. MaxLogins /\ {polling, crossed, mixed, result}' \subseteq BOOLEAN
         /\ chains' \in [Chains -> Chain \union {Free}]
    BY <2>1, <2>6, <2>7 DEF ChainTypes
  <2> QED
    BY <2>1, <2>6, <2>7, <2>8, <2>9, <2>10
<1>3. ASSUME NEW c \in Chains, RegisteredAgain(c) PROVE TypeInv'
  <2>1. /\ retries' \in 0 .. Retries /\ faults' \in 0 .. MaxFaults
        /\ UNCHANGED <<session, saved, wire, username, user, logging, profiles, polling>>
        /\ UNCHANGED <<socket, registered, logins, crossed>>
    BY <1>3 DEF RegisteredAgain, AnyAnswer
  <2>2. result' \in BOOLEAN /\ mixed' \in BOOLEAN
    BY <1>3 DEF RegisteredAgain
  <2>3. deviceIds' \in [Names -> Ids] /\ ChainTypes'
    <3>1. CASE UNCHANGED <<chains, deviceIds, mixed>>
      BY <3>1 DEF ChainTypes
    <3> DEFINE id  == IF deviceIds[username] = 0 THEN NewId ELSE deviceIds[username]
               new == Request(id, 0, wire, logins)
    <3>2. CASE chains' = [chains EXCEPT ![c] = new] /\ deviceIds' = [deviceIds EXCEPT ![username] = id]
      <4>1. id \in Ids
        BY NewIdIsNew
      <4>2. 0 \in 0 .. Attempts - 1 /\ logins \in 0 .. MaxLogins
        OBVIOUS
      <4>3. new \in Chain /\ new.step = "register"
        <5> HIDE DEF id
        <5> QED
          BY <4>1, <4>2, RequestTypes DEF Request
      <4> HIDE DEF id, new
      <4> QED
        BY <3>2, <4>1, <4>3 DEF ChainTypes
    <3> QED
      BY <1>3, <3>1, <3>2 DEF RegisteredAgain
  <2> QED
    BY <2>1, <2>2, <2>3 DEF ChainTypes
<1>4. ASSUME NEW a \in Accounts, Login(a) PROVE TypeInv'
  <2>1. /\ logging' = a /\ logins < MaxLogins
        /\ UNCHANGED <<session, saved, wire, username, deviceIds, user, profiles, polling, socket>>
        /\ UNCHANGED <<retries, chains, result, registered, logins, mixed, crossed, faults>>
    BY <1>4 DEF Login, clients
  <2>2. {session, saved, wire, username, user, logging}' \subseteq Names
    BY <2>1 DEF Names
  <2>3. ChainTypes'
    BY <2>1 DEF ChainTypes
  <2> QED
    BY <2>1, <2>2, <2>3
<1>5. ASSUME NEW p \in profiles, ProfileAnswered(p) PROVE TypeInv'
  <2>1. p.token \in Names
    BY DEF Names
  <2>2. /\ profiles' \subseteq profiles /\ crossed' \in BOOLEAN
        /\ username' \in Names /\ user' \in Names
    BY <1>5, <2>1 DEF ProfileAnswered, Applied, Names
  <2>3. /\ UNCHANGED <<session, saved, wire, deviceIds, logging, polling, socket, retries>>
        /\ UNCHANGED <<chains, result, registered, logins, mixed, faults>>
    BY <1>5 DEF ProfileAnswered
  <2> QED
    BY <2>2, <2>3 DEF ChainTypes
<1>6. CASE LoginRefused
  <2>1. /\ logging' = Nobody
        /\ UNCHANGED <<session, saved, wire, username, deviceIds, user, profiles, polling, socket>>
        /\ UNCHANGED <<retries, chains, result, registered, logins, mixed, crossed, faults>>
    BY <1>6 DEF LoginRefused, clients
  <2>2. {session, saved, wire, username, user, logging}' \subseteq Names
    BY <2>1 DEF Names
  <2>3. ChainTypes'
    BY <2>1 DEF ChainTypes
  <2> QED
    BY <2>1, <2>2, <2>3
<1>7. CASE Logout
  BY <1>7 DEF Logout, ChainTypes, Names, NoOne, Ids
<1>8. CASE SessionUnauthorized
  <2>1. retries' \in 0 .. Retries /\ faults' \in 0 .. MaxFaults
    BY <1>8 DEF SessionUnauthorized, AnyAnswer
  <2>2. /\ session' = Nobody /\ saved' = Nobody /\ wire' = Nobody /\ username' = Nobody
        /\ user' = Nobody /\ polling' = FALSE /\ socket' = NoOne
        /\ UNCHANGED <<deviceIds, logging, profiles, chains, result, registered>>
        /\ UNCHANGED <<logins, mixed, crossed>>
    BY <1>8 DEF SessionUnauthorized
  <2> QED
    BY <2>1, <2>2 DEF ChainTypes, Names, NoOne, Ids
<1>9. CASE PollAnswered
  BY <1>9 DEF PollAnswered, clients, ChainTypes
<1>10. CASE UNCHANGED sessionVars
  BY <1>10 DEF sessionVars, clients, ChainTypes
<1> QED
  BY <1>1, <1>2, <1>3, <1>4, <1>5, <1>6, <1>7, <1>8, <1>9, <1>10 DEF Next

(* Every value is of its type: an account has at most Limit devices, none  *)
(* twice, and a chain makes at most the allowed attempts.                  *)
THEOREM TypeCorrect == Spec => []TypeOK
<1>1. TypeInv => TypeOK
  BY DEF TypeInv
<1> QED
  BY TypeInit, TypeStep, <1>1, PTL DEF Spec

-----------------------------------------------------------------------------
(* While a login is under way there is no session; before the first one    *)
(* no answer is awaited; and an answer with the number of the present      *)
(* login was asked for with the present token.                             *)
Awaited ==
  /\ logging # Nobody => session = Nobody
  /\ logins = 0 => session = Nobody /\ \A c \in Chains : chains[c] = Free
  /\ logins # 0 => saved = session
  /\ \A p \in profiles :
       /\ p.login \in Nat /\ p.login <= logins
       /\ p.login = logins /\ session # Nobody => p.token = session

SessionInv ==
  /\ logins \in Nat
  /\ Awaited
  /\ TokensAgree
  /\ DatabaseFollowsAccount

LEMMA InvInit == Init => SessionInv
<1> SUFFICES ASSUME Init PROVE SessionInv
  OBVIOUS
<1>1. Awaited
  BY DEF Init, Awaited
<1>2. TokensAgree
  BY DEF Init, TokensAgree
<1>3. DatabaseFollowsAccount
  BY DEF Init, DatabaseFollowsAccount, CurrentUsername
<1> QED
  BY <1>1, <1>2, <1>3 DEF Init, SessionInv

-----------------------------------------------------------------------------
(* An answer to a chain changes the polling and the WebSocket at most, and *)
(* that to those of the present token.                                     *)
ChainStep ==
  /\ \/ Succeeds
     \/ UNCHANGED <<polling, socket>>
  /\ crossed' = (crossed \/ session = Nobody) \/ (crossed' = TRUE)
  /\ UNCHANGED <<session, saved, wire, username, user, logging, profiles, logins>>

LEMMA ChainKeeps ==
  ASSUME SessionInv, logins # 0, ChainStep
  PROVE  SessionInv'
<1>1. /\ crossed => crossed'
      /\ session = Nobody => crossed'
      /\ UNCHANGED <<session, saved, wire, username, user, logging, profiles, logins>>
  BY DEF ChainStep
<1>2. Awaited'
  BY <1>1 DEF SessionInv, Awaited
<1>3. saved = session
  BY DEF SessionInv, Awaited
<1>4. TokensAgree'
  <2>1. CASE Succeeds
    BY <1>1, <1>3, <2>1 DEF Succeeds, SessionInv, TokensAgree, NoOne
  <2>2. CASE UNCHANGED <<polling, socket>>
    BY <1>1, <2>2 DEF SessionInv, TokensAgree
  <2> QED
    BY <2>1, <2>2 DEF ChainStep
<1>5. DatabaseFollowsAccount'
  BY <1>1 DEF SessionInv, DatabaseFollowsAccount, CurrentUsername
<1> QED
  BY <1>1, <1>2, <1>4, <1>5 DEF SessionInv

(* The four answers are such steps.                                        *)
LEMMA ChainAnswers ==
  ASSUME SessionInv, NEW c \in Chains,
         RegisterAnswered(c) \/ LimitAnswered(c) \/ DeleteAnswered(c) \/ TakenAnswered(c)
  PROVE  ChainStep /\ logins # 0
<1>1. chains[c].step # "none"
  BY DEF RegisterAnswered, LimitAnswered, DeleteAnswered, TakenAnswered
<1>2. logins # 0
  BY <1>1 DEF SessionInv, Awaited, Free
<1>3. \A success \in BOOLEAN : Finish(c, success) => Succeeds \/ UNCHANGED <<polling, socket>>
  BY DEF Finish, Fails
<1>4. \A step : Asks(c, step) => UNCHANGED <<polling, socket>>
  BY DEF Asks
<1>5. \A id, attempt : TryAgain(c, id, attempt) => Succeeds \/ UNCHANGED <<polling, socket>>
  BY <1>3 DEF TryAgain
<1>6. \A login : Applied(login) => \/ crossed' = (crossed \/ session = Nobody)
                                   \/ crossed' = TRUE
  BY DEF Applied
<1>7. CASE RegisterAnswered(c)
  BY <1>2, <1>3, <1>4, <1>6, <1>7 DEF RegisterAnswered, ChainStep, clients
<1>8. CASE LimitAnswered(c)
  BY <1>2, <1>3, <1>6, <1>8 DEF LimitAnswered, ChainStep, clients
<1>9. CASE DeleteAnswered(c)
  BY <1>2, <1>3, <1>5, <1>6, <1>9 DEF DeleteAnswered, ChainStep, clients
<1>10. CASE TakenAnswered(c)
  BY <1>2, <1>3, <1>5, <1>6, <1>10 DEF TakenAnswered, ChainStep
<1> QED
  BY <1>7, <1>8, <1>9, <1>10

-----------------------------------------------------------------------------
(* Logging in and out.                                                     *)

(* The login leaves no polling and no WebSocket of an earlier session: the *)
(* end of that session closed both.                                        *)
LEMMA LoginKeeps ==
  ASSUME SessionInv, NEW c \in Chains, LoginAccepted(c)
  PROVE  SessionInv'
<1>1. /\ session = Nobody /\ logging # Nobody
      /\ session' = logging /\ saved' = logging /\ wire' = logging
      /\ username' = logging /\ user' = logging /\ logging' = Nobody
      /\ logins' = logins + 1
      /\ profiles' = profiles \union {[token |-> logging, login |-> logins + 1]}
      /\ UNCHANGED <<polling, socket, crossed>>
  BY DEF LoginAccepted, SessionInv, Awaited
<1>2. logins \in Nat /\ logins' \in Nat /\ logins' # 0
  BY <1>1 DEF SessionInv
<1>3. Awaited'
  <2>1. \A p \in profiles' : /\ p.login \in Nat /\ p.login <= logins'
                             /\ p.login = logins' => p.token = session'
    BY <1>1, <1>2 DEF SessionInv, Awaited
  <2> QED
    BY <1>1, <1>2, <2>1 DEF Awaited
<1>4. socket = NoOne
  BY <1>1 DEF SessionInv, TokensAgree
<1>5. TokensAgree'
  BY <1>1, <1>4 DEF SessionInv, TokensAgree, NoOne
<1>6. DatabaseFollowsAccount'
  BY <1>1 DEF DatabaseFollowsAccount, CurrentUsername
<1> QED
  BY <1>2, <1>3, <1>5, <1>6 DEF SessionInv

LEMMA ProfileKeeps ==
  ASSUME SessionInv, NEW p \in profiles, ProfileAnswered(p)
  PROVE  SessionInv'
<1>1. /\ profiles' \subseteq profiles
      /\ UNCHANGED <<session, saved, wire, logging, polling, socket, chains, logins>>
  BY DEF ProfileAnswered
<1>2. Awaited'
  BY <1>1 DEF SessionInv, Awaited
<1>3. CASE UNCHANGED <<username, user, crossed>>
  BY <1>1, <1>2, <1>3 DEF SessionInv, TokensAgree, DatabaseFollowsAccount, CurrentUsername
<1>4. CASE Applied(p.login) /\ username' = p.token
           /\ user' = IF session = Nobody THEN Nobody ELSE p.token
  <2>1. crossed => crossed'
    BY <1>4 DEF Applied
  <2>2. TokensAgree'
    BY <1>1, <2>1 DEF SessionInv, TokensAgree
  <2>3. session # Nobody /\ ~crossed' => p.token = session
    BY <1>4 DEF Applied, SessionInv, Awaited
  <2>4. DatabaseFollowsAccount'
    BY <1>1, <1>4, <2>3 DEF DatabaseFollowsAccount, CurrentUsername
  <2> QED
    BY <1>1, <1>2, <2>2, <2>4 DEF SessionInv
<1> QED
  BY <1>3, <1>4 DEF ProfileAnswered

LEMMA EndKeeps ==
  ASSUME SessionInv, Logout \/ SessionUnauthorized
  PROVE  SessionInv'
<1>1. /\ session' = Nobody /\ saved' = Nobody /\ wire' = Nobody /\ user' = Nobody
      /\ polling' = FALSE /\ socket' = NoOne
      /\ UNCHANGED <<logging, profiles, chains, logins, crossed>>
  BY DEF Logout, SessionUnauthorized
<1>2. Awaited'
  BY <1>1 DEF SessionInv, Awaited
<1>3. TokensAgree'
  BY <1>1 DEF TokensAgree, NoOne
<1>4. DatabaseFollowsAccount'
  BY <1>1 DEF DatabaseFollowsAccount, CurrentUsername
<1> QED
  BY <1>1, <1>2, <1>3, <1>4 DEF SessionInv

(* Steps that change neither tokens nor names.                             *)
LEMMA IdleKeeps ==
  ASSUME SessionInv, Awaited',
         UNCHANGED <<session, saved, wire, username, user, polling, socket, logins, crossed>>
  PROVE  SessionInv'
BY DEF SessionInv, TokensAgree, DatabaseFollowsAccount, CurrentUsername

LEMMA InvStep == SessionInv /\ [Next]_sessionVars => SessionInv'
<1> SUFFICES ASSUME SessionInv, [Next]_sessionVars PROVE SessionInv'
  OBVIOUS
<1>1. ASSUME NEW a \in Accounts, Login(a) PROVE SessionInv'
  <2>1. Awaited'
    BY <1>1 DEF Login, clients, SessionInv, Awaited
  <2> QED
    BY <1>1, <2>1, IdleKeeps DEF Login, clients
<1>2. CASE LoginRefused
  <2>1. Awaited'
    BY <1>2 DEF LoginRefused, clients, SessionInv, Awaited
  <2> QED
    BY <1>2, <2>1, IdleKeeps DEF LoginRefused, clients
<1>3. CASE PollAnswered
  <2>1. Awaited'
    BY <1>3 DEF PollAnswered, clients, SessionInv, Awaited
  <2> QED
    BY <1>3, <2>1, IdleKeeps DEF PollAnswered, clients
<1>4. ASSUME NEW c \in Chains, RegisteredAgain(c) PROVE SessionInv'
  <2>1. /\ logins # 0
        /\ UNCHANGED <<session, saved, wire, username, user, logging, profiles, polling,
                       socket, logins, crossed>>
    BY <1>4 DEF RegisteredAgain, AnyAnswer, SessionInv
  <2>2. Awaited'
    BY <2>1 DEF SessionInv, Awaited
  <2> QED
    BY <2>1, <2>2, IdleKeeps
<1>5. CASE UNCHANGED sessionVars
  <2>1. Awaited'
    BY <1>5 DEF sessionVars, clients, SessionInv, Awaited
  <2> QED
    BY <1>5, <2>1, IdleKeeps DEF sessionVars, clients
<1> QED
  BY ChainKeeps, ChainAnswers, LoginKeeps, ProfileKeeps, EndKeeps, <1>1, <1>2, <1>3, <1>4, <1>5
  DEF Next

LEMMA Invariant == Spec => []SessionInv
<1> QED
  BY InvInit, InvStep, PTL DEF Spec

(* Requests carry the token of the session, and the WebSocket is open for  *)
(* it or closed, whatever answers of earlier sessions come late.           *)
THEOREM TokensCorrect == Spec => []TokensAgree
<1>1. SessionInv => TokensAgree
  BY DEF SessionInv
<1> QED
  BY Invariant, <1>1, PTL

(* The database is that of the name shown, and unless an answer of another *)
(* session was applied, that name is the account of the token.             *)
THEOREM DatabaseCorrect == Spec => []DatabaseFollowsAccount
<1>1. SessionInv => DatabaseFollowsAccount
  BY DEF SessionInv
<1> QED
  BY Invariant, <1>1, PTL

-----------------------------------------------------------------------------
(* The device that polls.  While no answer of an earlier session has been  *)
(* applied, every chain of the present login registers, or asks for the    *)
(* keys of, the account of the session, and but for two chains at once it  *)
(* does so for the id in the settings.                                     *)
Served == session # Nobody /\ ~crossed

DeviceIsOn ==
  /\ deviceIds[session] \in ToSet(registered[session])
  /\ polling
  /\ socket = [token |-> session, id |-> deviceIds[session]]

ForSession(chain, ids, confused) ==
  /\ chain.step = "register" => chain.by = session
  /\ chain.step \in {"limit", "taken"} => chain.of = session
  /\ ~confused => chain.id = ids[session]

DeviceInv ==
  /\ \A c \in Chains : chains[c].step # "none" => chains[c].login <= logins
  /\ Served =>
       /\ deviceIds[session] # 0
       /\ \A c \in Chains :
            chains[c].step # "none" /\ chains[c].login = logins
            => ForSession(chains[c], deviceIds, mixed)
  /\ DeviceIsRegistered

LEMMA QuietIs ==
  ASSUME TypeInv
  PROVE  Quiet <=> \A c \in Chains : chains[c].step = "none"
<1>1. \A c \in Chains : chains[c] \in Chain \union {Free}
  BY DEF TypeInv, ChainTypes
<1>2. \A chain \in Chain : chain.step # "none"
  BY DEF Chain
<1> QED
  BY <1>1, <1>2 DEF Quiet, Free

LEMMA DeviceInit == Init => DeviceInv
BY DEF Init, DeviceInv, Served, DeviceIsRegistered, Free

(* In a session that is served the parts have its account.                 *)
LEMMA ServedIs ==
  ASSUME TypeInv, SessionInv, Served
  PROVE  session \in Accounts /\ saved = session /\ wire = session /\ username = session
BY DEF TypeInv, TypeOK, Names, Served, SessionInv, TokensAgree, DatabaseFollowsAccount,
       CurrentUsername

(* A step of one chain c.                                                  *)
LEMMA DeviceChain ==
  ASSUME TypeInv, TypeInv', DeviceInv, NEW c \in Chains,
         UNCHANGED <<session, logins>>,
         \A d \in Chains \ {c} : chains'[d] = chains[d],
         chains'[c].step # "none" => chains'[c].login <= logins,
         Served' =>
           /\ Served
           /\ deviceIds'[session] # 0
           /\ ~mixed' => \/ ~mixed /\ deviceIds'[session] = deviceIds[session]
                         \/ \A d \in Chains \ {c} : chains[d].step = "none"
           /\ chains'[c].step # "none" => ForSession(chains'[c], deviceIds', mixed')
           /\ chains'[c].step = "none" /\ ~mixed' /\ result' => DeviceIsOn'
  PROVE  DeviceInv'
<1>1. \A d \in Chains : chains'[d].step # "none" => chains'[d].login <= logins'
  BY DEF DeviceInv
<1>2. ASSUME Served', NEW d \in Chains, chains'[d].step # "none", chains'[d].login = logins'
      PROVE  ForSession(chains'[d], deviceIds', mixed')
  <2>1. CASE d = c
    BY <1>2, <2>1
  <2>2. CASE d # c
    <3>1. ForSession(chains[d], deviceIds, mixed)
      BY <1>2, <2>2 DEF DeviceInv
    <3>2. chains'[d] = chains[d] /\ chains[d].step # "none"
      BY <1>2, <2>2
    <3>3. ~mixed' => ~mixed /\ deviceIds'[session] = deviceIds[session]
      BY <1>2, <2>2, <3>2
    <3> QED
      BY <3>1, <3>2, <3>3 DEF ForSession
  <2> QED
    BY <2>1, <2>2
<1>3. DeviceIsRegistered'
  <2> SUFFICES ASSUME Served', ~mixed', Quiet', result' PROVE DeviceIsOn'
    BY DEF DeviceIsRegistered, DeviceIsOn, Served
  <2>1. chains'[c].step = "none"
    BY DEF Quiet, Free
  <2> QED
    BY <2>1
<1>4. \A d \in Chains : /\ (chains[d].step)' = chains'[d].step
                        /\ (chains[d].login)' = chains'[d].login
                        /\ ForSession(chains[d], deviceIds, mixed)' <=> ForSession(chains'[d], deviceIds', mixed')
  BY DEF ForSession
<1> QED
  BY <1>1, <1>2, <1>3 DEF DeviceInv, ForSession, Served

(* How a chain ends or goes on, in a served session.                       *)
LEMMA DeviceFinish ==
  ASSUME TypeInv, SessionInv, DeviceInv, Served, NEW c \in Chains, NEW success \in BOOLEAN,
         Finish(c, success), UNCHANGED <<session, saved, username, deviceIds>>,
         success => deviceIds[session] \in ToSet(registered'[session])
  PROVE  /\ \A d \in Chains \ {c} : chains'[d] = chains[d]
         /\ chains'[c].step = "none"
         /\ result' => DeviceIsOn'
<1>1. chains' = [chains EXCEPT ![c] = Free] /\ chains \in [Chains -> Chain \union {Free}]
  BY DEF Finish, TypeInv, ChainTypes
<1>2. /\ \A d \in Chains \ {c} : chains'[d] = chains[d]
      /\ chains'[c].step = "none"
  BY <1>1 DEF Free
<1>3. ASSUME result' PROVE DeviceIsOn'
  <2>1. success /\ Succeeds
    BY <1>3 DEF Finish, Fails
  <2>2. saved = session /\ username = session
    BY ServedIs
  <2>3. deviceIds[session] # 0 /\ session # Nobody
    BY DEF DeviceInv, Served
  <2> QED
    BY <2>1, <2>2, <2>3 DEF Succeeds, DeviceIsOn
<1> QED
  BY <1>2, <1>3

LEMMA DeviceTryAgain ==
  ASSUME TypeInv, SessionInv, DeviceInv, Served, NEW c \in Chains, NEW id, NEW attempt,
         TryAgain(c, id, attempt), UNCHANGED session
  PROVE  /\ \A d \in Chains \ {c} : chains'[d] = chains[d]
         /\ chains'[c].step = "none" => ~result'
         /\ chains'[c].step # "none" => /\ chains'[c].step = "register" /\ chains'[c].by = session
                                        /\ chains'[c].id = id /\ chains'[c].login = chains[c].login
<1>1. chains \in [Chains -> Chain \union {Free}]
  BY DEF TypeInv, ChainTypes
<1>2. CASE Finish(c, FALSE)
  BY <1>1, <1>2 DEF Finish, Fails, Free
<1>3. CASE chains' = [chains EXCEPT ![c] = Request(id, attempt, wire, chains[c].login)]
  BY <1>1, <1>3, ServedIs DEF Request
<1> QED
  BY <1>2, <1>3 DEF TryAgain

(* What an answer to chain c leaves of the chains, in any session.         *)
LEMMA ChainsKept ==
  ASSUME TypeInv, DeviceInv, NEW c \in Chains, UNCHANGED logins,
         RegisterAnswered(c) \/ LimitAnswered(c) \/ DeleteAnswered(c) \/ TakenAnswered(c)
  PROVE  /\ \A d \in Chains \ {c} : chains'[d] = chains[d]
         /\ chains'[c].step # "none" => chains'[c].login <= logins
<1>1. chains \in [Chains -> Chain \union {Free}]
  BY DEF TypeInv, ChainTypes
<1>2. chains[c].step # "none" /\ chains[c].login <= logins
  BY DEF RegisterAnswered, LimitAnswered, DeleteAnswered, TakenAnswered, DeviceInv
<1>3. chains[c] \in Chain
  BY <1>2, ChainIs
<1> DEFINE Kept == /\ \A d \in Chains \ {c} : chains'[d] = chains[d]
                   /\ chains'[c].step # "none" => chains'[c].login = chains[c].login
<1>4. \A success : Finish(c, success) => Kept
  BY <1>1 DEF Finish, Free
<1>5. \A step : Asks(c, step) => Kept
  BY <1>1, <1>3 DEF Asks, Chain
<1>6. \A id, attempt : TryAgain(c, id, attempt) => Kept
  <2> TAKE id, attempt
  <2>1. CASE chains' = [chains EXCEPT ![c] = Request(id, attempt, wire, chains[c].login)]
    BY <1>1, <2>1 DEF Request
  <2> HIDE DEF Kept
  <2> QED
    BY <1>4, <2>1 DEF TryAgain
<1>7. \A t : chains' = [chains EXCEPT ![c].step = "delete", ![c].by = wire, ![c].target = t] => Kept
  BY <1>1, <1>3 DEF Chain
<1>8. Kept
  <2> HIDE DEF Kept
  <2> QED
    BY <1>4, <1>5, <1>6, <1>7 DEF RegisterAnswered, LimitAnswered, DeleteAnswered, TakenAnswered
<1> QED
  BY <1>2, <1>8

(* An answer that leaves the session served is one of the present login.   *)
LEMMA AnswerIsPresent ==
  ASSUME DeviceInv, NEW c \in Chains, chains[c].step # "none", Applied(chains[c].login),
         UNCHANGED session, Served'
  PROVE  Served /\ deviceIds[session] # 0 /\ ForSession(chains[c], deviceIds, mixed)
<1>1. Served /\ chains[c].login = logins
  BY DEF Applied, Served
<1> QED
  BY <1>1 DEF DeviceInv

LEMMA DeviceRegister ==
  ASSUME TypeInv, TypeInv', SessionInv, DeviceInv, NEW c \in Chains, RegisterAnswered(c)
  PROVE  DeviceInv'
<1> DEFINE j == chains[c]
<1>1. /\ j.step = "register" /\ Applied(j.login)
      /\ UNCHANGED <<session, saved, username, deviceIds, logins, mixed>>
  BY DEF RegisterAnswered, clients
<1>2. j \in Chain
  BY <1>1, ChainIs
<1> SUFFICES ASSUME Served'
             PROVE  /\ Served
                    /\ deviceIds[session] # 0
                    /\ chains'[c].step # "none" => ForSession(chains'[c], deviceIds, mixed)
                    /\ chains'[c].step = "none" /\ ~mixed /\ result' => DeviceIsOn'
  BY <1>1, DeviceChain, ChainsKept
<1>3. /\ Served /\ deviceIds[session] # 0 /\ j.by = session /\ session \in Accounts
      /\ username = session /\ (~mixed => j.id = deviceIds[session])
  BY <1>1, AnswerIsPresent, ServedIs DEF ForSession
<1>4. CASE Finish(c, FALSE)
  BY <1>1, <1>3, <1>4, DeviceFinish
<1>5. CASE /\ ~Owned(j.id) /\ Finish(c, TRUE)
           /\ registered' = [registered EXCEPT ![j.by] = Append(@, j.id)]
  <2>1. j.id \in ToSet(registered'[session])
    <3>1. /\ registered[session] \in Seq(Ids) /\ IsInjective(registered[session])
          /\ registered \in [Accounts -> Seq(Ids)]
      BY <1>3 DEF TypeInv, TypeOK
    <3>2. j.id \notin ToSet(registered[session]) /\ j.id \in Ids
      BY <1>2, <1>3, <1>5 DEF Owned, Chain
    <3>3. registered'[session] = Append(registered[session], j.id)
      BY <1>3, <1>5, <3>1
    <3> QED
      BY <3>1, <3>2, <3>3, ListAppended
  <2>2. CASE mixed
    BY <1>1, <1>3, <1>5, <2>2 DEF Finish, TypeInv, ChainTypes, Free
  <2>3. CASE ~mixed
    <3>1. deviceIds[session] \in ToSet(registered'[session])
      BY <1>3, <2>1, <2>3
    <3> QED
      BY <1>1, <1>3, <1>5, <3>1, DeviceFinish
  <2> QED
    BY <2>2, <2>3
<1>6. ASSUME NEW step \in {"limit", "taken"}, Asks(c, step) PROVE
        chains'[c].step # "none" /\ ForSession(chains'[c], deviceIds, mixed)
  <2>1. chains'[c] = [j EXCEPT !.step = step, !.of = username]
    BY <1>6 DEF Asks, TypeInv, ChainTypes
  <2>2. chains'[c].step = step /\ chains'[c].of = username /\ chains'[c].id = j.id
    BY <1>2, <2>1 DEF Chain
  <2> QED
    BY <1>3, <2>2 DEF ForSession
<1>7. username # Nobody
  BY <1>3 DEF Served
<1> QED
  BY <1>3, <1>4, <1>5, <1>6, <1>7 DEF RegisterAnswered

LEMMA DeviceLimit ==
  ASSUME TypeInv, TypeInv', SessionInv, DeviceInv, NEW c \in Chains, LimitAnswered(c)
  PROVE  DeviceInv'
<1> DEFINE j == chains[c]
<1>1. /\ j.step = "limit" /\ Applied(j.login)
      /\ UNCHANGED <<session, saved, username, deviceIds, logins, mixed, registered>>
  BY DEF LimitAnswered, clients
<1>2. j \in Chain
  BY <1>1, ChainIs
<1> SUFFICES ASSUME Served'
             PROVE  /\ Served
                    /\ deviceIds[session] # 0
                    /\ chains'[c].step # "none" => ForSession(chains'[c], deviceIds, mixed)
                    /\ chains'[c].step = "none" /\ ~mixed /\ result' => DeviceIsOn'
  BY <1>1, DeviceChain, ChainsKept
<1>3. /\ Served /\ deviceIds[session] # 0 /\ j.of = session
      /\ (~mixed => j.id = deviceIds[session])
  BY <1>1, AnswerIsPresent DEF ForSession
<1>4. CASE Finish(c, FALSE)
  BY <1>1, <1>3, <1>4, DeviceFinish
<1>5. CASE j.id \in ToSet(registered[j.of]) /\ Finish(c, TRUE)
  <2>1. CASE mixed
    BY <1>1, <1>3, <1>5, <2>1 DEF Finish, TypeInv, ChainTypes, Free
  <2>2. CASE ~mixed
    <3>1. deviceIds[session] \in ToSet(registered'[session])
      BY <1>1, <1>3, <1>5, <2>2
    <3> QED
      BY <1>1, <1>3, <1>5, <3>1, DeviceFinish
  <2> QED
    BY <2>1, <2>2
<1>6. ASSUME NEW t, chains' = [chains EXCEPT ![c].step = "delete", ![c].by = wire, ![c].target = t]
      PROVE  chains'[c].step # "none" /\ ForSession(chains'[c], deviceIds, mixed)
  <2>1. chains'[c] = [j EXCEPT !.step = "delete", !.by = wire, !.target = t]
    BY <1>6 DEF TypeInv, ChainTypes
  <2>2. chains'[c].step = "delete" /\ chains'[c].id = j.id
    BY <1>2, <2>1 DEF Chain
  <2> QED
    BY <1>3, <2>2 DEF ForSession
<1> QED
  BY <1>3, <1>4, <1>5, <1>6 DEF LimitAnswered

LEMMA DeviceDelete ==
  ASSUME TypeInv, TypeInv', SessionInv, DeviceInv, NEW c \in Chains, DeleteAnswered(c)
  PROVE  DeviceInv'
<1> DEFINE j == chains[c]
<1>1. /\ j.step = "delete" /\ Applied(j.login)
      /\ UNCHANGED <<session, saved, username, deviceIds, logins, mixed>>
  BY DEF DeleteAnswered, clients
<1> SUFFICES ASSUME Served'
             PROVE  /\ Served
                    /\ deviceIds[session] # 0
                    /\ chains'[c].step # "none" => ForSession(chains'[c], deviceIds, mixed)
                    /\ chains'[c].step = "none" /\ ~mixed /\ result' => DeviceIsOn'
  BY <1>1, DeviceChain, ChainsKept
<1>2. /\ Served /\ deviceIds[session] # 0 /\ (~mixed => j.id = deviceIds[session])
  BY <1>1, AnswerIsPresent DEF ForSession
<1>3. CASE Finish(c, FALSE)
  BY <1>1, <1>2, <1>3, DeviceFinish
<1>4. CASE TryAgain(c, j.id, j.attempt + 1)
  <2>1. /\ chains'[c].step = "none" => ~result'
        /\ chains'[c].step # "none" => /\ chains'[c].step = "register" /\ chains'[c].by = session
                                       /\ chains'[c].id = j.id
    BY <1>1, <1>2, <1>4, DeviceTryAgain
  <2> QED
    BY <1>2, <2>1 DEF ForSession
<1> QED
  BY <1>3, <1>4 DEF DeleteAnswered

LEMMA DeviceTaken ==
  ASSUME TypeInv, TypeInv', SessionInv, DeviceInv, NEW c \in Chains, TakenAnswered(c)
  PROVE  DeviceInv'
<1> DEFINE j == chains[c]
<1>1. /\ j.step = "taken" /\ Applied(j.login)
      /\ UNCHANGED <<session, saved, username, logins, registered>>
  BY DEF TakenAnswered
<1> SUFFICES ASSUME Served'
             PROVE  /\ Served
                    /\ deviceIds'[session] # 0
                    /\ ~mixed' => \/ ~mixed /\ deviceIds'[session] = deviceIds[session]
                                  \/ \A d \in Chains \ {c} : chains[d].step = "none"
                    /\ chains'[c].step # "none" => ForSession(chains'[c], deviceIds', mixed')
                    /\ chains'[c].step = "none" /\ ~mixed' /\ result' => DeviceIsOn'
  BY <1>1, DeviceChain, ChainsKept
<1>2. /\ Served /\ deviceIds[session] # 0 /\ j.of = session
      /\ session \in Accounts /\ username = session
      /\ (~mixed => j.id = deviceIds[session])
  BY <1>1, AnswerIsPresent, ServedIs DEF ForSession
<1>3. CASE j.id \in ToSet(registered[j.of]) /\ Finish(c, TRUE) /\ UNCHANGED <<deviceIds, mixed>>
  <2>1. CASE mixed
    BY <1>1, <1>2, <1>3, <2>1 DEF Finish, TypeInv, ChainTypes, Free
  <2>2. CASE ~mixed
    <3>1. deviceIds[session] \in ToSet(registered'[session])
      BY <1>1, <1>2, <1>3, <2>2
    <3> QED
      BY <1>1, <1>2, <1>3, <2>2, <3>1, DeviceFinish
  <2> QED
    BY <2>1, <2>2
<1>4. CASE /\ mixed' = (mixed \/ \E d \in Chains \ {c} : chains[d] # Free)
           /\ deviceIds' = [deviceIds EXCEPT ![username] = NewId]
           /\ TryAgain(c, NewId, j.attempt + 1)
  <2>1. deviceIds'[session] = NewId /\ NewId # 0
    BY <1>2, <1>4, NewIdIsNew DEF TypeInv, TypeOK, Names
  <2>2. ~mixed' => \A d \in Chains \ {c} : chains[d].step = "none"
    <3>1. ~mixed' => \A d \in Chains \ {c} : chains[d] = Free
      BY <1>4
    <3>2. Free.step = "none"
      BY DEF Free
    <3> QED
      BY <3>1, <3>2
  <2>3. /\ chains'[c].step = "none" => ~result'
        /\ chains'[c].step # "none" => /\ chains'[c].step = "register" /\ chains'[c].by = session
                                       /\ chains'[c].id = NewId
    BY <1>1, <1>2, <1>4, DeviceTryAgain
  <2> QED
    BY <1>2, <2>1, <2>2, <2>3 DEF ForSession
<1> QED
  BY <1>3, <1>4 DEF TakenAnswered

(* The login begins a chain for the account, and no other chain has its    *)
(* number.                                                                 *)
LEMMA DeviceLogin ==
  ASSUME TypeInv, TypeInv', DeviceInv, NEW c \in Chains, LoginAccepted(c)
  PROVE  DeviceInv'
<1> DEFINE id  == IF deviceIds[logging] = 0 THEN NewId ELSE deviceIds[logging]
           new == Request(id, 0, logging, logins + 1)
<1>1. /\ session' = logging /\ logging # Nobody /\ logins' = logins + 1
      /\ deviceIds' = [deviceIds EXCEPT ![logging] = id]
      /\ chains' = [chains EXCEPT ![c] = new]
  BY DEF LoginAccepted
<1>2. /\ chains \in [Chains -> Chain \union {Free}] /\ deviceIds \in [Names -> Ids]
      /\ logging \in Names /\ logins \in Nat
  BY SessionAssumption DEF TypeInv, TypeOK, ChainTypes
<1>3. id # 0
  BY NewIdIsNew DEF TypeInv
<1>4. new.step = "register" /\ new.by = logging /\ new.id = id /\ new.login = logins + 1
  BY DEF Request
<1> HIDE DEF id, new
<1>5. chains'[c] = new /\ \A d \in Chains \ {c} : chains'[d] = chains[d]
  BY <1>1, <1>2
<1>6. \A d \in Chains \ {c} : chains[d].step # "none" => chains[d].login <= logins /\ chains[d].login \in Nat
  BY ChainIs, SessionAssumption DEF DeviceInv, Chain
<1>7. \A d \in Chains : chains'[d].step # "none" => chains'[d].login <= logins'
  BY <1>1, <1>2, <1>4, <1>5, <1>6
<1>8. \A d \in Chains : chains'[d].step # "none" /\ chains'[d].login = logins' => d = c
  BY <1>1, <1>2, <1>5, <1>6
<1>9. deviceIds'[session'] = id
  BY <1>1, <1>2
<1>10. ForSession(chains[c], deviceIds, mixed)'
  BY <1>1, <1>4, <1>5, <1>9 DEF ForSession
<1>11. ~Quiet'
  BY <1>4, <1>5 DEF Quiet, Free
<1> QED
  BY <1>3, <1>7, <1>8, <1>9, <1>10, <1>11 DEF DeviceInv, DeviceIsRegistered

LEMMA DeviceAgain ==
  ASSUME TypeInv, TypeInv', SessionInv, DeviceInv, NEW c \in Chains, RegisteredAgain(c)
  PROVE  DeviceInv'
<1>1. /\ UNCHANGED <<session, saved, wire, username, polling, socket, registered, logins, crossed>>
      /\ chains[c].step = "none"
  BY DEF RegisteredAgain, Free
<1>2. CASE saved = Nobody
  <2>1. result' = FALSE /\ UNCHANGED <<chains, deviceIds, mixed>>
    BY <1>2 DEF RegisteredAgain
  <2>2. ~Served'
    BY <1>1, <1>2 DEF Served, SessionInv, TokensAgree
  <2> QED
    BY <1>1, <2>1, <2>2 DEF DeviceInv, DeviceIsRegistered, Served
<1>3. CASE saved # Nobody
  <2> DEFINE id  == IF deviceIds[username] = 0 THEN NewId ELSE deviceIds[username]
             new == Request(id, 0, wire, logins)
  <2>1. /\ deviceIds' = [deviceIds EXCEPT ![username] = id]
        /\ chains' = [chains EXCEPT ![c] = new]
        /\ mixed' = (mixed /\ ~Quiet)
    BY <1>3 DEF RegisteredAgain
  <2>2. chains'[c] = new /\ \A d \in Chains \ {c} : chains'[d] = chains[d]
    BY <2>1 DEF TypeInv, ChainTypes
  <2>3. /\ new.step = "register" /\ new.by = wire /\ new.id = id /\ new.login = logins
    BY DEF Request
  <2>4. logins <= logins
    BY DEF SessionInv
  <2>5. ASSUME Served'
        PROVE  /\ Served /\ wire = session /\ deviceIds'[session] # 0
               /\ id = deviceIds'[session] /\ deviceIds'[session] = deviceIds[session]
    <3>1. Served
      BY <1>1, <2>5 DEF Served
    <3>2. wire = session /\ username = session /\ session \in Accounts
      BY <3>1, ServedIs
    <3>3. deviceIds[session] # 0
      BY <3>1 DEF DeviceInv
    <3> QED
      BY <2>1, <3>1, <3>2, <3>3 DEF TypeInv, TypeOK, Names
  <2>6. ~mixed' => ~mixed \/ \A d \in Chains \ {c} : chains[d].step = "none"
    BY <2>1, QuietIs
  <2> HIDE DEF id, new
  <2>7. Served' => ForSession(chains'[c], deviceIds', mixed')
    BY <2>2, <2>3, <2>5 DEF ForSession
  <2> QED
    BY <1>1, <2>2, <2>3, <2>4, <2>5, <2>6, <2>7, DeviceChain
<1> QED
  BY <1>2, <1>3

(* Steps that begin, answer and end nothing of a chain.                    *)
LEMMA DeviceFrame ==
  ASSUME DeviceInv, UNCHANGED <<deviceIds, chains, result, registered, logins, mixed>>,
         crossed => crossed',
         session' = Nobody \/ UNCHANGED <<session, polling, socket>>
  PROVE  DeviceInv'
<1>1. CASE session' = Nobody
  BY <1>1 DEF DeviceInv, Served, DeviceIsRegistered
<1>2. CASE UNCHANGED <<session, polling, socket>>
  BY <1>2 DEF DeviceInv, Served, ForSession, DeviceIsRegistered, Quiet
<1> QED
  BY <1>1, <1>2

LEMMA DeviceStep == TypeInv /\ SessionInv /\ DeviceInv /\ [Next]_sessionVars => DeviceInv'
<1> SUFFICES ASSUME TypeInv, SessionInv, DeviceInv, [Next]_sessionVars PROVE DeviceInv'
  OBVIOUS
<1>1. TypeInv'
  BY TypeStep
<1>2. CASE \E c \in Chains : RegisterAnswered(c) \/ LimitAnswered(c) \/ DeleteAnswered(c) \/ TakenAnswered(c)
  BY <1>1, <1>2, DeviceRegister, DeviceLimit, DeviceDelete, DeviceTaken
<1>3. CASE \E c \in Chains : LoginAccepted(c) \/ RegisteredAgain(c)
  BY <1>1, <1>3, DeviceLogin, DeviceAgain
<1>4. CASE \E a \in Accounts : Login(a)
  BY <1>4, DeviceFrame DEF Login, clients
<1>5. CASE \E p \in profiles : ProfileAnswered(p)
  <2>1. crossed => crossed'
    BY <1>5 DEF ProfileAnswered, Applied
  <2> QED
    BY <1>5, <2>1, DeviceFrame DEF ProfileAnswered
<1>6. CASE LoginRefused
  BY <1>6, DeviceFrame DEF LoginRefused, clients
<1>7. CASE Logout
  BY <1>7, DeviceFrame DEF Logout
<1>8. CASE SessionUnauthorized
  BY <1>8, DeviceFrame DEF SessionUnauthorized
<1>9. CASE PollAnswered
  BY <1>9, DeviceFrame DEF PollAnswered, clients
<1>10. CASE UNCHANGED sessionVars
  BY <1>10, DeviceFrame DEF sessionVars, clients
<1> QED
  BY <1>2, <1>3, <1>4, <1>5, <1>6, <1>7, <1>8, <1>9, <1>10 DEF Next

(* When the chains of a session have ended with a success, the device that *)
(* polls is one the server knows for the account of the session, and the   *)
(* WebSocket is open for it: for any number of chains, attempts and        *)
(* devices, unless one of the two findings came to pass.                   *)
THEOREM DeviceCorrect == Spec => []DeviceIsRegistered
<1>1. DeviceInv => DeviceIsRegistered
  BY DEF DeviceInv
<1> QED
  BY TypeInit, TypeStep, InvInit, InvStep, DeviceInit, DeviceStep, <1>1, PTL DEF Spec

-----------------------------------------------------------------------------
(* The list of conversations.                                              *)
IsList(list) == DOMAIN list \subseteq Users /\ \A n \in DOMAIN list : list[n] \in Entry

ConversationsInv == ConversationsTypeOK /\ ConversationsSaved

LEMMA ListsTyped ==
  ASSUME ConversationsTypeOK
  PROVE  IsList(shownList) /\ \A k \in Keys : IsList(savedLists[k])
BY DEF ConversationsTypeOK, IsList

(* What the changes of a list return.                                      *)
LEMMA DropReturns ==
  ASSUME NEW list, IsList(list), NEW n
  PROVE  IsList(Drop(list, n)) /\ DOMAIN Drop(list, n) = DOMAIN list \ {n}
BY DEF Drop, IsList

LEMMA WithReturns ==
  ASSUME NEW list, IsList(list), NEW n \in Users, NEW entry \in Entry
  PROVE  /\ IsList(With(list, n, entry))
         /\ DOMAIN With(list, n, entry) = DOMAIN list \union {n}
BY DEF With, IsList

LEMMA UnreadType ==
  ASSUME ConversationsTypeOK, NEW n
  PROVE  Unread(n) \in 0 .. MaxTime
BY ConversationsAssumption DEF ConversationsTypeOK, Entry, Unread

(* A list that is shown and saved at once, without the user's own name.    *)
LEMMA KeepKeeps ==
  ASSUME ConversationsInv, NEW list, IsList(list), Keep(list),
         named \notin DOMAIN shownList => named \notin DOMAIN list
  PROVE  ConversationsInv'
<1>1. /\ shownList' = list /\ DOMAIN savedLists' = DOMAIN savedLists
      /\ \A k \in DOMAIN savedLists : savedLists'[k] = IF k = named THEN list ELSE savedLists[k]
      /\ UNCHANGED <<named, signedIn, asked, shownFor, clock>>
      /\ strayed' = (strayed \/ named # shownFor)
  BY DEF Keep, holder
<1>2. \A k \in Keys : IsList(savedLists'[k])
  BY <1>1, ListsTyped DEF ConversationsInv, ConversationsTypeOK
<1>3. ConversationsTypeOK'
  BY <1>1, <1>2 DEF ConversationsInv, ConversationsTypeOK, IsList
<1>4. ConversationsSaved'
  BY <1>1 DEF ConversationsInv, ConversationsTypeOK, ConversationsSaved
<1> QED
  BY <1>3, <1>4 DEF ConversationsInv

(* An entry of another user, set and kept.                                 *)
LEMMA WithKeeps ==
  ASSUME ConversationsInv, NEW n \in Users, NEW entry \in Entry, n # named,
         Keep(With(shownList, n, entry))
  PROVE  ConversationsInv'
<1> DEFINE list == With(shownList, n, entry)
<1>1. IsList(shownList)
  BY ListsTyped DEF ConversationsInv
<1>2. IsList(list) /\ DOMAIN list = DOMAIN shownList \union {n}
  BY <1>1, WithReturns
<1>3. Keep(list)
  OBVIOUS
<1> HIDE DEF list
<1>4. named \notin DOMAIN shownList => named \notin DOMAIN list
  BY <1>2
<1> QED
  BY <1>2, <1>3, <1>4, KeepKeeps

(* A list that is read from the settings of u, his own name dropped there  *)
(* and on the screen.                                                      *)
LEMMA LoadedKeeps ==
  ASSUME ConversationsInv, NEW u \in Keys, Load(u), clock' = clock,
         signedIn' \in BOOLEAN, asked' \in [Users -> 0 .. MaxAsked]
  PROVE  ConversationsInv'
<1>1. /\ DOMAIN savedLists' = DOMAIN savedLists /\ u \in DOMAIN savedLists
      /\ \A k \in DOMAIN savedLists :
           savedLists'[k] = IF k = u THEN Drop(savedLists[u], u) ELSE savedLists[k]
      /\ named' = u /\ shownFor' = u /\ strayed' = FALSE
      /\ shownList' = Drop(savedLists[u], u)
  BY DEF Load, ConversationsInv, ConversationsTypeOK
<1>2. IsList(Drop(savedLists[u], u)) /\ u \notin DOMAIN Drop(savedLists[u], u)
  BY ListsTyped, DropReturns DEF ConversationsInv
<1>3. \A k \in Keys : IsList(savedLists'[k])
  BY <1>1, <1>2, ListsTyped DEF ConversationsInv, ConversationsTypeOK
<1>4. ConversationsTypeOK'
  BY <1>1, <1>2, <1>3 DEF ConversationsInv, ConversationsTypeOK, IsList
<1>5. ConversationsSaved'
  BY <1>1, <1>2 DEF ConversationsSaved
<1> QED
  BY <1>4, <1>5 DEF ConversationsInv

LEMMA ConversationsInvInit == ConversationsInit => ConversationsInv
<1> SUFFICES ASSUME ConversationsInit PROVE ConversationsInv
  OBVIOUS
<1>1. DOMAIN NoneOpen = {}
  BY DEF NoneOpen
<1>2. 1 \in 1 .. MaxTime /\ 0 \in 0 .. MaxAsked
  BY ConversationsAssumption
<1> QED
  BY <1>1, <1>2
  DEF ConversationsInit, ConversationsInv, ConversationsTypeOK, ConversationsSaved, Keys

LEMMA ConversationsInvStep ==
  ConversationsInv /\ [ConversationsNext]_conversationVars => ConversationsInv'
<1> SUFFICES ASSUME ConversationsInv, [ConversationsNext]_conversationVars
             PROVE  ConversationsInv'
  OBVIOUS
<1>1. /\ ConversationsTypeOK /\ clock \in 1 .. MaxTime /\ MaxTime \in Nat
      /\ IsList(shownList)
  BY ListsTyped, ConversationsAssumption DEF ConversationsInv, ConversationsTypeOK
<1>2. ASSUME NEW n \in Users, OpenDirectConversation(n) PROVE ConversationsInv'
  <2>1. PICK time \in 1 .. clock :
          Keep(With(shownList, n, [activity |-> time, unread |-> Unread(n)]))
    BY <1>2 DEF OpenDirectConversation
  <2>2. [activity |-> time, unread |-> Unread(n)] \in Entry
    BY <1>1, UnreadType DEF Entry
  <2> QED
    BY <1>2, <2>1, <2>2, WithKeeps DEF OpenDirectConversation
<1>3. ASSUME NEW n \in Users, CloseDirectConversation(n) PROVE ConversationsInv'
  BY <1>1, <1>3, DropReturns, KeepKeeps DEF CloseDirectConversation
<1>4. ASSUME NEW n \in Users, MarkConversationAsRead(n) PROVE ConversationsInv'
  <2>1. n \in DOMAIN shownList
    BY <1>4 DEF MarkConversationAsRead, Unread
  <2>2. [shownList[n] EXCEPT !.unread = 0] \in Entry
    BY <1>1, <2>1 DEF IsList, Entry
  <2> QED
    BY <1>4, <2>2, WithKeeps DEF MarkConversationAsRead
<1>5. ASSUME NEW n \in Users, IncrementUnreadCount(n) PROVE ConversationsInv'
  <2>1. Unread(n) \in 0 .. MaxTime /\ Unread(n) < MaxTime
    BY <1>1, <1>5, UnreadType DEF IncrementUnreadCount
  <2>2. [activity |-> clock, unread |-> Unread(n) + 1] \in Entry
    BY <1>1, <2>1 DEF Entry
  <2> QED
    BY <1>5, <2>2, WithKeeps DEF IncrementUnreadCount
<1>6. ASSUME NEW u \in Users, ConversationsLogin(u) PROVE ConversationsInv'
  <2>1. asked' \in [Users -> 0 .. MaxAsked] /\ u \in Keys
    BY <1>1, <1>6, ConversationsAssumption DEF ConversationsLogin, ConversationsTypeOK, Keys
  <2> QED
    BY <1>6, <2>1, LoadedKeeps DEF ConversationsLogin
<1>7. CASE EndSession
  <2>1. shownFor' \notin Keys /\ named' \in Keys
    BY <1>7, ConversationsAssumption DEF EndSession, Keys
  <2>2. DOMAIN shownList' = {}
    BY <1>7 DEF EndSession, NoneOpen
  <2> QED
    BY <1>1, <1>7, <2>1, <2>2
    DEF EndSession, ConversationsInv, ConversationsTypeOK, ConversationsSaved
<1>8. CASE Restart
  <2>1. named \in Keys /\ asked' \in [Users -> 0 .. MaxAsked]
    BY <1>1, <1>8, ConversationsAssumption DEF Restart, ConversationsTypeOK
  <2> QED
    BY <1>8, <2>1, LoadedKeeps DEF Restart
<1>9. ASSUME NEW u \in Users, NameAnswered(u) \/ NameFailed(u) PROVE ConversationsInv'
  <2>1. asked' \in [Users -> 0 .. MaxAsked] /\ u \in Keys /\ named' \in Keys
    BY <1>1, <1>9, ConversationsAssumption
    DEF NameAnswered, NameFailed, ConversationsTypeOK, Keys
  <2>2. UNCHANGED <<signedIn, shownList, savedLists, shownFor, strayed, clock>>
    BY <1>9 DEF NameAnswered, NameFailed
  <2> QED
    BY <2>1, <2>2 DEF ConversationsInv, ConversationsTypeOK, ConversationsSaved
<1>10. CASE TimePasses
  <2>1. clock' \in 1 .. MaxTime
    BY <1>1, <1>10 DEF TimePasses
  <2> QED
    BY <1>10, <2>1
    DEF TimePasses, holder, ConversationsInv, ConversationsTypeOK, ConversationsSaved
<1>11. CASE UNCHANGED conversationVars
  BY <1>11
  DEF conversationVars, holder, ConversationsInv, ConversationsTypeOK, ConversationsSaved
<1> QED
  BY <1>2, <1>3, <1>4, <1>5, <1>6, <1>7, <1>8, <1>9, <1>10, <1>11 DEF ConversationsNext

(* The list on the screen is the saved list of the user it was loaded for, *)
(* who has no conversation with himself, through any messages, changes of  *)
(* user, late profiles and restarts, until a late profile had a change     *)
(* saved under another name.                                               *)
THEOREM ConversationsCorrect == ConversationsSpec => []ConversationsSaved
<1>1. ConversationsInv => ConversationsSaved
  BY DEF ConversationsInv
<1> QED
  BY <1>1, ConversationsInvInit, ConversationsInvStep, PTL DEF ConversationsSpec
================================================================================
