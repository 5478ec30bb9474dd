--------------------------- MODULE SettingsRepository ---------------------------
(***************************************************************************)
(* storage/settingsrepository.cpp: QSettings behind caches.  An empty      *)
(* cache means "not read yet"; the key of a user's setting is built from   *)
(* the cached user name, or the stored one.  Every operation holds m_mutex *)
(* and writes through.  Encoding and encryption of values are left out.    *)
(***************************************************************************)
CONSTANTS Profiles, Users, Values, Empty, SessionKinds, DisplayKinds, ListKinds

ASSUME SettingsAssumption ==
  /\ Empty \notin Users /\ Empty \notin Values
  /\ {"token", "user"} \intersect (SessionKinds \union DisplayKinds \union ListKinds) = {}
  /\ ListKinds \intersect (SessionKinds \union DisplayKinds) = {}

VARIABLES
  profile,     \* m_profile
  disk,        \* the QSettings of each profile
  answer,      \* what the last call returned
  cachedToken, \* m_cachedAuthToken
  cachedUser,  \* m_cachedUsername
  cached,      \* m_cachedDeviceId, PublicKey, DisplayName, AvatarUrl
  stale        \* history: setProfile() left a cached display name or avatar

caches == <<cachedToken, cachedUser, cached>>
settingsVars == <<profile, disk, answer, caches, stale>>

Store == INSTANCE SettingsStore

CachedKinds == SessionKinds \union DisplayKinds
Uncached    == [k \in CachedKinds |-> Empty]

SettingsTypeOK ==
  /\ profile \in Profiles
  /\ disk \in [Profiles -> [token : Store!Texts, user : Store!Keys,
                            of : [Store!Keys -> [Store!Kinds -> Store!Texts]]]]
  /\ cachedToken \in Store!Texts /\ cachedUser \in Store!Keys
  /\ cached \in [CachedKinds -> Store!Texts]
  /\ stale \in BOOLEAN

SettingsInit ==
  /\ Store!Init
  /\ cachedToken = Empty /\ cachedUser = Empty /\ cached = Uncached
  /\ stale = FALSE

-----------------------------------------------------------------------------
(* The user whose settings are meant: getDeviceIdKey() and its siblings.   *)
User == IF cachedUser # Empty THEN cachedUser ELSE disk[profile].user

OrElse(cache, value) == IF cache # Empty THEN cache ELSE value

Quiet == answer' = Store!Nothing

AuthToken ==
  /\ cachedToken' = OrElse(cachedToken, disk[profile].token)
  /\ Store!Reads("token", cachedToken')
  /\ UNCHANGED <<profile, disk, cachedUser, cached, stale>>

SetAuthToken(t) ==
  /\ cachedToken' = t
  /\ disk' = [disk EXCEPT ![profile].token = t]
  /\ Quiet
  /\ UNCHANGED <<profile, cachedUser, cached, stale>>

Username ==
  /\ cachedUser' = OrElse(cachedUser, disk[profile].user)
  /\ Store!Reads("user", cachedUser')
  /\ UNCHANGED <<profile, disk, cachedToken, cached, stale>>

(* Mutant: the caches of the previous user stay.                           *)
SetUsernameOnly(u) ==
  /\ cachedUser' = u
  /\ disk' = [disk EXCEPT ![profile].user = u]
  /\ Quiet
  /\ UNCHANGED <<profile, cachedToken, cached, stale>>

SetUsername(u) ==
  /\ cached' = IF cachedUser # u THEN Uncached ELSE cached
  /\ cachedUser' = u
  /\ disk' = [disk EXCEPT ![profile].user = u]
  /\ Quiet
  /\ UNCHANGED <<profile, cachedToken, stale>>

(* deviceId(), publicKey(), displayName(), avatarUrl()                     *)
GetCached(k) ==
  /\ cached' = [cached EXCEPT ![k] = OrElse(@, disk[profile].of[User][k])]
  /\ Store!Reads(k, cached'[k])
  /\ UNCHANGED <<profile, disk, cachedToken, cachedUser, stale>>

SetCached(k, v) ==
  /\ cached' = [cached EXCEPT ![k] = v]
  /\ disk' = [disk EXCEPT ![profile].of[User][k] = v]
  /\ Quiet
  /\ UNCHANGED <<profile, cachedToken, cachedUser, stale>>

(* friends(), pendingRequests(), openConversations(), peers' names ...     *)
GetList(k) ==
  /\ Store!Reads(k, disk[profile].of[User][k])
  /\ UNCHANGED <<profile, disk, caches, stale>>

SetList(k, v) ==
  /\ disk' = [disk EXCEPT ![profile].of[User][k] = v]
  /\ Quiet
  /\ UNCHANGED <<profile, caches, stale>>

ClearSession ==
  /\ cachedToken' = Empty /\ cachedUser' = Empty /\ cached' = Uncached /\ stale' = FALSE
  /\ disk' = [disk EXCEPT ![profile].token = Empty, ![profile].user = Empty]
  /\ Quiet
  /\ UNCHANGED profile

(* setProfile() forgets the caches of the session, not those of display    *)
(* name and avatar: a finding.                                             *)
SetProfile(p) ==
  /\ profile' = p
  /\ cachedToken' = Empty /\ cachedUser' = Empty
  /\ cached' = [k \in CachedKinds |-> IF k \in SessionKinds THEN Empty ELSE cached[k]]
  /\ stale' = (stale \/ \E k \in DisplayKinds : cached[k] # Empty)
  /\ Quiet
  /\ UNCHANGED disk

(* The program ends and starts again with some profile.                    *)
SettingsRestart ==
  /\ profile' \in Profiles
  /\ cachedToken' = Empty /\ cachedUser' = Empty /\ cached' = Uncached /\ stale' = FALSE
  /\ Quiet
  /\ UNCHANGED disk

SettingsNext ==
  \/ AuthToken \/ Username \/ ClearSession \/ SettingsRestart
  \/ \E t \in Store!Texts : SetAuthToken(t)
  \/ \E u \in Users : SetUsername(u)
  \/ \E k \in CachedKinds : GetCached(k) \/ (\E v \in Store!Texts : SetCached(k, v))
  \/ \E k \in ListKinds : GetList(k) \/ (\E v \in Store!Texts : SetList(k, v))
  \/ \E p \in Profiles : SetProfile(p)

SettingsSpec == SettingsInit /\ [][SettingsNext]_settingsVars

(* The caches are invisible: through logins, logouts, changes of user and  *)
(* profile and restarts, no setting of another user, profile or session is *)
(* ever read, and none is written under a key where it is not found again. *)
(* Only a display name or avatar that setProfile() left in its cache may   *)
(* be read in the place of the profile's own.                              *)
ReadsWhatWasWritten ==
  /\ Store!Init
  /\ [][Store!Next \/ (stale /\ \E k \in DisplayKinds : GetCached(k))]_(Store!storeVars)
================================================================================
