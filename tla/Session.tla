-------------------------------- MODULE Session --------------------------------
(***************************************************************************)
(* Who is logged in, in the parts that each keep their own idea of it:     *)
(* core/networkmanager.cpp, services/authservice.cpp, the settings, the    *)
(* transport, the message database, the relay's timer and WebSocket; and   *)
(* the registration of the device, services/deviceservice.cpp, a chain of  *)
(* requests that may outlive the session it was begun in.                  *)
(*                                                                         *)
(* A token is its account.  Profiles, bookmarks, the creation of accounts  *)
(* and the heartbeat (see Presence) are left out; a device id is a number, *)
(* 0 if there is none.                                                     *)
(***************************************************************************)
EXTENDS Naturals, Sequences, SequencesExt, FiniteSets

CONSTANTS
  Accounts,
  Nobody,
  Chains,       \* registration chains that can be under way at once
  Attempts,     \* 3
  Limit,        \* devices of an account; the server's, 10
  Retries,      \* 401 answers that only register the device again: 2
  Worlds,       \* what settings and server may start with: saved, ids, devices
  MaxLogins,    \* bound
  MaxFaults     \* bound: 401 answers

Names == Accounts \union {Nobody}
Ids   == Nat

ASSUME SessionAssumption ==
  /\ Nobody \notin Accounts
  /\ IsFiniteSet(Accounts) /\ IsFiniteSet(Chains)
  /\ Attempts \in Nat \ {0} /\ {Limit, Retries, MaxLogins, MaxFaults} \subseteq Nat
  /\ \A w \in Worlds :
       /\ w.saved \in Names /\ w.ids \in [Names -> Ids] /\ w.devices \in [Accounts -> Seq(Ids)]
       /\ \A a \in Accounts : IsInjective(w.devices[a]) /\ Len(w.devices[a]) <= Limit

VARIABLES
  session,    \* NetworkManager.m_sessionToken
  saved,      \* SettingsRepository.authToken()
  wire,       \* HttpTransport.m_authToken
  username,   \* SettingsRepository.username()
  user,       \* MessageService.m_currentUserId and the database that is open
  deviceIds,  \* SettingsRepository.deviceId() under each username
  logging,    \* the account of the POST auth under way
  profiles,   \* GET users/me under way: its token, and the login it is of
  polling,    \* the poll timer
  socket,     \* token and device id the WebSocket was opened with
  retries,    \* m_retry401Count
  chains,     \* registerDeviceInternal(): the request each chain waits for
  result,     \* the last deviceRegistrationResult
  registered, \* the server's devices of each account, oldest first
  logins,     \* history: logins so far
  mixed,      \* history: the id changed while another chain registered the old one
  crossed,    \* history: an answer was applied in another session than its own
  faults      \* how much of MaxFaults has been used

clients     == <<saved, wire, username, deviceIds>>
sessionVars == <<session, clients, user, logging, profiles, polling, socket, retries,
                 chains, result, registered, logins, mixed, crossed, faults>>

NoOne  == [token |-> Nobody, id |-> 0]
Free   == [step |-> "none"]
Chain  == [step : {"register", "limit", "taken", "delete"}, id : Ids, attempt : 0 .. Attempts - 1,
           by : Names, of : Names, login : 0 .. MaxLogins, target : Ids]

TypeOK ==
  /\ {session, saved, wire, username, user, logging} \subseteq Names
  /\ deviceIds \in [Names -> Ids]
  /\ profiles \subseteq [token : Accounts, login : 1 .. MaxLogins]
  /\ {polling, crossed, mixed, result} \subseteq BOOLEAN
  /\ socket \in [token : Names, id : Ids]
  /\ retries \in 0 .. Retries
  /\ chains \in [Chains -> Chain \union {Free}]
  /\ registered \in [Accounts -> Seq(Ids)]
  /\ \A a \in Accounts : IsInjective(registered[a]) /\ Len(registered[a]) <= Limit
  /\ logins \in 0 .. MaxLogins /\ faults \in 0 .. MaxFaults

CurrentUsername == IF session = Nobody THEN Nobody ELSE username

Quiet == \A c \in Chains : chains[c] = Free

(* Requests carry the token of the session, or none: the settings' token   *)
(* is another only before the first login, and the WebSocket stays open    *)
(* with the token and for the account of the session, or is closed.        *)
TokensAgree ==
  /\ wire = session
  /\ session # Nobody => saved = session
  /\ socket # NoOne => session # Nobody /\ socket.token = session
  /\ polling => session # Nobody \/ crossed

(* Messages are read and saved in the database of the account whose name   *)
(* is shown, and but for the answers of earlier sessions, of which the     *)
(* findings tell, that is the account of the token.                        *)
DatabaseFollowsAccount ==
  /\ user = CurrentUsername
  /\ session # Nobody /\ ~crossed => user = session

(* When the chains of a session have ended, the last with a success, the   *)
(* device that polls, and for which the WebSocket is open, is one that the *)
(* server knows for this account; but for two chains that registered one   *)
(* id, of which one was given another, a finding.                          *)
DeviceIsRegistered ==
  session # Nobody /\ ~crossed /\ ~mixed /\ Quiet /\ result =>
    /\ deviceIds[session] \in ToSet(registered[session])
    /\ polling
    /\ socket = [token |-> session, id |-> deviceIds[session]]

Init ==
  /\ session = Nobody /\ wire = Nobody /\ user = Nobody /\ logging = Nobody
  /\ \E w \in Worlds : /\ deviceIds = w.ids /\ registered = w.devices
                       /\ username = w.saved /\ saved = w.saved
  /\ profiles = {}
  /\ polling = FALSE /\ socket = NoOne /\ retries = 0
  /\ chains = [c \in Chains |-> Free] /\ result = FALSE
  /\ logins = 0 /\ mixed = FALSE /\ crossed = FALSE /\ faults = 0

-----------------------------------------------------------------------------
(* registerDeviceInternal(), and what follows its result.                  *)

(* An answer of a chain or a profile request is applied.                   *)
Applied(login) == crossed' = (crossed \/ session = Nobody \/ login # logins)

(* deviceRegistrationResult(true): startPolling(), where a WebSocket that  *)
(* is open for another token or device is opened anew.                     *)
Succeeds ==
  /\ result' = TRUE
  /\ polling' = TRUE
  /\ socket' = IF saved # Nobody /\ deviceIds[username] # 0
               THEN [token |-> saved, id |-> deviceIds[username]] ELSE socket

Fails == result' = FALSE /\ UNCHANGED <<polling, socket>>

Finish(c, success) ==
  /\ chains' = [chains EXCEPT ![c] = Free]
  /\ IF success THEN Succeeds ELSE Fails

Request(id, attempt, token, login) ==
  [step |-> "register", id |-> id, attempt |-> attempt, by |-> token,
   of |-> Nobody, login |-> login, target |-> 0]

(* The next attempt of a chain, unless there were three or no one is       *)
(* logged in any more.                                                     *)
TryAgain(c, id, attempt) ==
  IF attempt >= Attempts \/ saved = Nobody THEN Finish(c, FALSE)
  ELSE /\ chains' = [chains EXCEPT ![c] = Request(id, attempt, wire, chains[c].login)]
       /\ UNCHANGED <<result, polling, socket>>

(* A new UUID: one that no one knows.                                      *)
Known ==
  {deviceIds[n] : n \in Names} \union {socket.id}
  \union {chains[c].id : c \in {d \in Chains : chains[d] # Free}}
  \union UNION {ToSet(registered[a]) : a \in Accounts}

NewId == CHOOSE i \in 1 .. Cardinality(Known) + 1 : i \notin Known

Owned(id) == \E a \in Accounts : id \in ToSet(registered[a])

Asks(c, step) ==
  /\ chains' = [chains EXCEPT ![c].step = step, ![c].of = username]
  /\ UNCHANGED <<result, polling, socket>>

(* The answer to POST device/register.  That the limit is reached, or that *)
(* the id is taken, leads to GET relay/keys of the name in the settings.   *)
RegisterAnswered(c) ==
  LET j == chains[c] IN
  /\ j.step = "register"
  /\ Applied(j.login)
  /\ \/ /\ Finish(c, FALSE)
        /\ UNCHANGED registered
     \/ /\ j.by # Nobody /\ ~Owned(j.id) /\ Len(registered[j.by]) < Limit
        /\ registered' = [registered EXCEPT ![j.by] = Append(@, j.id)]
        /\ Finish(c, TRUE)
     \/ /\ j.by # Nobody /\ ~Owned(j.id) /\ Len(registered[j.by]) = Limit
        /\ IF username = Nobody THEN Finish(c, FALSE) ELSE Asks(c, "limit")
        /\ UNCHANGED registered
     \/ /\ j.by # Nobody /\ Owned(j.id)
        /\ IF username = Nobody THEN Finish(c, TRUE) ELSE Asks(c, "taken")
        /\ UNCHANGED registered
  /\ UNCHANGED <<session, clients, user, logging, profiles, retries, logins, mixed, faults>>

(* The keys after "maximum device limit reached": the device is known, or  *)
(* the oldest one is deleted.                                              *)
LimitAnswered(c) ==
  LET j == chains[c]
      list == registered[j.of]
  IN
  /\ j.step = "limit"
  /\ Applied(j.login)
  /\ \/ Finish(c, FALSE)
     \/ j.id \in ToSet(list) /\ Finish(c, TRUE)
     \/ /\ list # <<>> /\ j.id \notin ToSet(list)
        /\ chains' = [chains EXCEPT ![c].step = "delete", ![c].by = wire, ![c].target = Head(list)]
        /\ UNCHANGED <<result, polling, socket>>
  /\ UNCHANGED <<session, clients, user, logging, profiles, retries, registered, logins, mixed, faults>>

Without(list, d) == RemoveAt(list, CHOOSE i \in DOMAIN list : list[i] = d)

(* The oldest device is deleted.                                           *)
DeleteAnswered(c) ==
  LET j == chains[c] IN
  /\ j.step = "delete"
  /\ Applied(j.login)
  /\ \/ Finish(c, FALSE) /\ UNCHANGED registered
     \/ /\ j.by # Nobody /\ j.target \in ToSet(registered[j.by])
        /\ registered' = [registered EXCEPT ![j.by] = Without(@, j.target)]
        /\ TryAgain(c, j.id, j.attempt + 1)
  /\ UNCHANGED <<session, clients, user, logging, profiles, retries, logins, mixed, faults>>

(* Mutant: the new id is registered but not kept in the settings.          *)
TakenForgotten(c) ==
  LET j == chains[c] IN
  /\ j.step = "taken"
  /\ Applied(j.login)
  /\ \/ /\ j.id \in ToSet(registered[j.of])
        /\ Finish(c, TRUE)
        /\ UNCHANGED <<deviceIds, mixed>>
     \/ /\ mixed' = (mixed \/ \E d \in Chains \ {c} : chains[d] # Free)
        /\ TryAgain(c, NewId, j.attempt + 1)
        /\ UNCHANGED deviceIds
  /\ UNCHANGED <<session, saved, wire, username, user, logging, profiles, retries, registered>>
  /\ UNCHANGED <<logins, faults>>

(* The keys after a conflict: the device is this account's already, or it  *)
(* is another's, or no one knows, and it gets a new id.                    *)
TakenAnswered(c) ==
  LET j == chains[c] IN
  /\ j.step = "taken"
  /\ Applied(j.login)
  /\ \/ /\ j.id \in ToSet(registered[j.of])
        /\ Finish(c, TRUE)
        /\ UNCHANGED <<deviceIds, mixed>>
     \/ /\ mixed' = (mixed \/ \E d \in Chains \ {c} : chains[d] # Free)
        /\ deviceIds' = [deviceIds EXCEPT ![username] = NewId]
        /\ TryAgain(c, NewId, j.attempt + 1)
  /\ UNCHANGED <<session, saved, wire, username, user, logging, profiles, retries, registered>>
  /\ UNCHANGED <<logins, faults>>

-----------------------------------------------------------------------------
(* Logging in and out.                                                     *)

(* The page for it is shown without a session, and disabled while loading. *)
Login(a) ==
  /\ session = Nobody /\ logging = Nobody /\ logins < MaxLogins
  /\ logging' = a
  /\ UNCHANGED <<session, clients, user, profiles, polling, socket, retries, chains>>
  /\ UNCHANGED <<result, registered, logins, mixed, crossed, faults>>

LoginRefused ==
  /\ logging # Nobody
  /\ logging' = Nobody
  /\ UNCHANGED <<session, clients, user, profiles, polling, socket, retries, chains>>
  /\ UNCHANGED <<result, registered, logins, mixed, crossed, faults>>

(* The answer to POST auth, and loginResult(true): the device is           *)
(* registered, under a new id if the account has none, and the profile is  *)
(* asked for.                                                              *)
LoginAccepted(c) ==
  LET a  == logging
      id == IF deviceIds[a] = 0 THEN NewId ELSE deviceIds[a]
  IN
  /\ logging # Nobody /\ chains[c] = Free
  /\ logging' = Nobody
  /\ logins' = logins + 1
  /\ session' = a /\ saved' = a /\ wire' = a /\ username' = a /\ user' = a
  /\ deviceIds' = [deviceIds EXCEPT ![a] = id]
  /\ chains' = [chains EXCEPT ![c] = Request(id, 0, a, logins + 1)]
  /\ profiles' = profiles \union {[token |-> a, login |-> logins + 1]}
  /\ mixed' = (mixed /\ ~Quiet)
  /\ UNCHANGED <<polling, socket, retries, result, registered, crossed, faults>>

(* userProfileFetched: the name in the settings becomes that of the        *)
(* profile, and the database follows.                                      *)
ProfileAnswered(p) ==
  /\ p \in profiles
  /\ profiles' = profiles \ {p}
  /\ \/ /\ Applied(p.login)
        /\ username' = p.token
        /\ user' = IF session = Nobody THEN Nobody ELSE p.token
     \/ UNCHANGED <<username, user, crossed>>
  /\ UNCHANGED <<session, saved, wire, deviceIds, logging, polling, socket, retries>>
  /\ UNCHANGED <<chains, result, registered, logins, mixed, faults>>

(* logoutUser(): stopPolling(), clearSession() and so on.                  *)
Logout ==
  /\ session # Nobody
  /\ session' = Nobody /\ saved' = Nobody /\ wire' = Nobody /\ username' = Nobody /\ user' = Nobody
  /\ polling' = FALSE /\ socket' = NoOne
  /\ UNCHANGED <<deviceIds, logging, profiles, retries, chains, result, registered>>
  /\ UNCHANGED <<logins, mixed, crossed, faults>>

-----------------------------------------------------------------------------
(* handle401Error(), from a poll, a send or the WebSocket.                 *)

AnyAnswer == logins > 0 /\ faults < MaxFaults /\ faults' = faults + 1

(* autoRegisterDevice(); without a token nothing is sent.                  *)
RegisteredAgain(c) ==
  /\ AnyAnswer /\ retries < Retries /\ chains[c] = Free
  /\ retries' = retries + 1
  /\ IF saved = Nobody
     THEN result' = FALSE /\ UNCHANGED <<chains, deviceIds, mixed>>
     ELSE LET id == IF deviceIds[username] = 0 THEN NewId ELSE deviceIds[username] IN
          /\ deviceIds' = [deviceIds EXCEPT ![username] = id]
          /\ chains' = [chains EXCEPT ![c] = Request(id, 0, wire, logins)]
          /\ mixed' = (mixed /\ ~Quiet)
          /\ UNCHANGED result
  /\ UNCHANGED <<session, saved, wire, username, user, logging, profiles, polling>>
  /\ UNCHANGED <<socket, registered, logins, crossed>>

(* Mutant: the transport keeps its token.                                  *)
SessionForgotten ==
  /\ AnyAnswer /\ retries = Retries
  /\ retries' = 0
  /\ session' = Nobody /\ saved' = Nobody /\ username' = Nobody /\ user' = Nobody
  /\ polling' = FALSE /\ socket' = NoOne
  /\ UNCHANGED <<wire, deviceIds, logging, profiles, chains, result, registered>>
  /\ UNCHANGED <<logins, mixed, crossed>>

(* Mutant: no one is told of the change of the account.                    *)
SessionDropped ==
  /\ AnyAnswer /\ retries = Retries
  /\ retries' = 0
  /\ session' = Nobody /\ saved' = Nobody /\ wire' = Nobody /\ username' = Nobody
  /\ polling' = FALSE /\ socket' = NoOne
  /\ UNCHANGED <<user, deviceIds, logging, profiles, chains, result, registered>>
  /\ UNCHANGED <<logins, mixed, crossed>>

(* The session is given up: stopPolling(), clearSession() and              *)
(* sessionUnauthorized.                                                    *)
SessionUnauthorized ==
  /\ AnyAnswer /\ retries = Retries
  /\ retries' = 0
  /\ session' = Nobody /\ saved' = Nobody /\ wire' = Nobody /\ username' = Nobody /\ user' = Nobody
  /\ polling' = FALSE /\ socket' = NoOne
  /\ UNCHANGED <<deviceIds, logging, profiles, chains, result, registered>>
  /\ UNCHANGED <<logins, mixed, crossed>>

(* A poll that is answered.                                                *)
PollAnswered ==
  /\ polling /\ saved # Nobody /\ retries > 0
  /\ retries' = 0
  /\ UNCHANGED <<session, clients, user, logging, profiles, polling, socket, chains>>
  /\ UNCHANGED <<result, registered, logins, mixed, crossed, faults>>

Next ==
  \/ \E c \in Chains : RegisterAnswered(c) \/ LimitAnswered(c) \/ DeleteAnswered(c) \/ TakenAnswered(c)
  \/ \E c \in Chains : LoginAccepted(c) \/ RegisteredAgain(c)
  \/ \E a \in Accounts : Login(a)
  \/ \E p \in profiles : ProfileAnswered(p)
  \/ LoginRefused \/ Logout \/ SessionUnauthorized \/ PollAnswered

Spec == Init /\ [][Next]_sessionVars
================================================================================
