------------------------------ MODULE DesktopProofs ------------------------------
(***************************************************************************)
(* Proofs about the user's own status, the settings and the audio of the   *)
(* desktop, and about the parts of MCDesktop together: for any peers,      *)
(* profiles, users, kinds of settings, values, messages and lengths of a   *)
(* recording.                                                              *)
(***************************************************************************)
EXTENDS MCDesktop, ChatMessageModelProofs, SocialProofs

-----------------------------------------------------------------------------
(* The user's own status.                                                  *)

(* The link is up in a session only; only one who would be online idles;   *)
(* and packets are held back exactly when the preference is "offline".     *)
StatusInv ==
  /\ preference \in Preferences
  /\ befriended \subseteq Peers
  /\ link => token
  /\ autoIdle => preference = "online"
  /\ invisible <=> preference = "offline"
  /\ IdleIsWatched
  /\ FriendsSeeCurrentStatus

(* Whoever is told hears what the screen shows, unless packets are held    *)
(* back; then nothing changes.                                             *)
LEMMA TellFriends ==
  ASSUME NEW friendSet \in SUBSET Peers, NEW pref, NEW idle, NEW linked, NEW tok,
         linked, Tell(friendSet, pref, idle, linked, tok), NEW q \in friendSet
  PROVE  announced'[q] = IF invisible => Effective(pref, idle, linked, tok) = "offline"
                         THEN Effective(pref, idle, linked, tok) ELSE announced[q]
BY DEF Tell, Told

(* A step after which every friend has been told what the screen shows     *)
(* then, and nobody is held back, keeps what friends see.                  *)
LEMMA ToldAll ==
  ASSUME befriended' \subseteq Peers,
         link' => Tell(befriended', preference', autoIdle', link', token'),
         invisible => preference' = "offline"
  PROVE  FriendsSeeCurrentStatus'
<1> SUFFICES ASSUME link', NEW q \in befriended'
             PROVE  announced'[q] = Effective(preference', autoIdle', link', token')
  BY DEF FriendsSeeCurrentStatus
<1>1. invisible => Effective(preference', autoIdle', link', token') = "offline"
  BY DEF Effective
<1>2. announced' = Told(befriended' \union open, Effective(preference', autoIdle', link', token'))
  BY DEF Tell
<1> QED
  BY <1>1, <1>2 DEF Told

(* A step that changes neither the screen nor who is told keeps it too, as *)
(* does one after which the link is down.                                  *)
LEMMA Unseen ==
  ASSUME FriendsSeeCurrentStatus,
         \/ ~link'
         \/ UNCHANGED <<preference, autoIdle, link, token, befriended, announced>>
  PROVE  FriendsSeeCurrentStatus'
BY DEF FriendsSeeCurrentStatus

-----------------------------------------------------------------------------
(* A new preference.  Where it ends invisibility, every friend had been    *)
(* told "offline", and is told nothing.                                    *)
LEMMA StatusSet ==
  ASSUME StatusInv, NEW pref \in Preferences, SetUserStatus(pref)
  PROVE  StatusInv'
<1>1. /\ preference' = pref /\ autoIdle' = FALSE /\ invisible' = (pref = "offline")
      /\ idleTimer' = (pref = "online")
      /\ UNCHANGED <<token, link, befriended>>
      /\ Tell(befriended, pref, FALSE, link, token)
  BY DEF SetUserStatus
<1>2. FriendsSeeCurrentStatus'
  <2>1. CASE invisible /\ link
    <3>1. \A q \in befriended : announced[q] = "offline"
      BY <2>1 DEF StatusInv, FriendsSeeCurrentStatus, Effective
    <3> SUFFICES ASSUME NEW q \in befriended, announced'[q] # "offline"
                 PROVE  announced'[q] = Effective(preference', autoIdle', link', token')
      BY <1>1 DEF FriendsSeeCurrentStatus
    <3>2. announced'[q] = Effective(pref, FALSE, link, token) \/ announced'[q] = announced[q]
      BY <1>1, <2>1, TellFriends DEF StatusInv
    <3> QED
      BY <1>1, <3>1, <3>2
  <2>2. CASE ~invisible
    BY <1>1, <2>2, ToldAll DEF StatusInv
  <2>3. CASE ~link
    BY <1>1, <2>3, Unseen DEF StatusInv
  <2> QED
    BY <2>1, <2>2, <2>3
<1>3. IdleIsWatched'
  BY <1>1 DEF IdleIsWatched
<1>4. /\ preference' \in Preferences /\ befriended' \subseteq Peers
      /\ link' => token'
      /\ autoIdle' => preference' = "online"
  BY <1>1 DEF StatusInv
<1>5. invisible' <=> preference' = "offline"
  BY <1>1
<1> QED
  BY <1>2, <1>3, <1>4, <1>5 DEF StatusInv

(* Idling and activity: the link and the session stay.                     *)
LEMMA IdlingKeeps ==
  ASSUME StatusInv, ReportActivity \/ IdleTimeout \/ SetIdleTimeout
  PROVE  StatusInv'
<1>1. UNCHANGED <<preference, token, link, befriended, invisible>>
  BY DEF ReportActivity, IdleTimeout, SetIdleTimeout
<1>2. IdleIsWatched' /\ (autoIdle' => preference' = "online")
  <2>1. CASE ReportActivity
    BY <2>1 DEF ReportActivity, IdleIsWatched
  <2>2. CASE IdleTimeout
    <3>1. CASE preference = "online" /\ ~autoIdle
      BY <1>1, <2>2, <3>1 DEF IdleTimeout, IdleIsWatched
    <3>2. CASE ~(preference = "online" /\ ~autoIdle)
      <4>1. preference' = preference /\ autoIdle' = autoIdle
        BY <1>1, <2>2, <3>2 DEF IdleTimeout
      <4> QED
        BY <4>1, <3>2 DEF StatusInv, IdleIsWatched
    <3> QED
      BY <3>1, <3>2
  <2>3. CASE SetIdleTimeout
    BY <2>3 DEF SetIdleTimeout, IdleIsWatched, StatusInv
  <2> QED
    BY <2>1, <2>2, <2>3
<1>3. FriendsSeeCurrentStatus'
  <2>1. CASE /\ Tell(befriended, preference, autoIdle', link, token)
             /\ preference = "online"
    <3>1. ~invisible
      BY <2>1 DEF StatusInv
    <3> QED
      BY <1>1, <2>1, <3>1, ToldAll DEF StatusInv
  <2>2. CASE UNCHANGED <<autoIdle, announced>>
    BY <1>1, <2>2, Unseen DEF StatusInv
  <2>3. CASE ReportActivity
    <3>1. CASE autoIdle
      BY <2>1, <2>3, <3>1 DEF ReportActivity
    <3>2. CASE ~autoIdle
      <4>1. FriendsSeeCurrentStatus
        BY DEF StatusInv
      <4>2. Effective(preference, autoIdle', link, token) = Effective(preference, autoIdle, link, token)
        BY <2>3, <3>2 DEF ReportActivity, Effective
      <4>3. announced' = announced
        BY <2>3, <3>2 DEF ReportActivity
      <4> QED
        BY <1>1, <4>1, <4>2, <4>3 DEF FriendsSeeCurrentStatus
    <3> QED
      BY <3>1, <3>2
  <2>4. CASE IdleTimeout
    <3>1. CASE preference = "online" /\ ~autoIdle
      BY <2>1, <2>4, <3>1 DEF IdleTimeout
    <3>2. CASE ~(preference = "online" /\ ~autoIdle)
      BY <2>2, <2>4, <3>2 DEF IdleTimeout
    <3> QED
      BY <3>1, <3>2
  <2>5. CASE SetIdleTimeout
    BY <2>2, <2>5 DEF SetIdleTimeout
  <2> QED
    BY <2>3, <2>4, <2>5
<1> QED
  BY <1>1, <1>2, <1>3 DEF StatusInv

(* The link and the session come and go; a link that comes up tells all.   *)
LEMMA LinkKeeps ==
  ASSUME StatusInv, Login \/ ServerConnected \/ ServerDisconnected \/ Logout \/ SessionUnauthorized
  PROVE  StatusInv'
<1>1. UNCHANGED <<preference, invisible>> /\ befriended' \subseteq Peers
  BY DEF Login, ServerConnected, ServerDisconnected, Logout, SessionUnauthorized, StatusInv
<1>2. /\ link' => token'
      /\ autoIdle' => autoIdle
  <2>1. CASE Login
    BY <2>1 DEF Login
  <2>2. CASE ServerConnected
    BY <2>2 DEF ServerConnected
  <2>3. CASE ServerDisconnected \/ Logout \/ SessionUnauthorized
    BY <2>3 DEF ServerDisconnected, Logout, SessionUnauthorized
  <2> QED
    BY <2>1, <2>2, <2>3
<1>3. IdleIsWatched'
  BY DEF Login, ServerConnected, ServerDisconnected, Logout, SessionUnauthorized, StatusInv,
    IdleIsWatched
<1>4. FriendsSeeCurrentStatus'
  <2>1. CASE ServerConnected
    <3>1. invisible => preference' = "offline"
      BY <1>1 DEF StatusInv
    <3>2. Tell(befriended', preference', autoIdle', link', token')
      <4>1. /\ link' = TRUE
            /\ UNCHANGED <<befriended, preference, autoIdle, token>>
            /\ Tell(befriended, preference, autoIdle, TRUE, token)
        BY <2>1 DEF ServerConnected
      <4> QED
        BY <4>1
    <3> QED
      BY <1>1, <3>1, <3>2, ToldAll
  <2>2. CASE ~link'
    BY <2>2, Unseen DEF StatusInv
  <2>3. CASE Login \/ ServerDisconnected \/ Logout \/ SessionUnauthorized
    <3>1. ~link'
      BY <2>3 DEF Login, ServerDisconnected, Logout, SessionUnauthorized, StatusInv
    <3> QED
      BY <2>2, <3>1
  <2> QED
    BY <2>1, <2>3
<1> QED
  BY <1>1, <1>2, <1>3, <1>4 DEF StatusInv

(* Who there is to be told changes, or what they are told with it.         *)
LEMMA ListsKeep ==
  ASSUME StatusInv, FriendsChanged \/ DisplayNameChanged \/ OpenConversationsChanged
  PROVE  StatusInv'
<1>1. /\ UNCHANGED <<preference, autoIdle, idleTimer, token, link, invisible>>
      /\ befriended' \subseteq Peers
  BY DEF FriendsChanged, DisplayNameChanged, OpenConversationsChanged, StatusInv
<1>2. FriendsSeeCurrentStatus'
  <2>1. CASE FriendsChanged \/ DisplayNameChanged
    <3>1. Tell(befriended', preference', autoIdle', link', token')
      BY <1>1, <2>1 DEF FriendsChanged, DisplayNameChanged
    <3> QED
      BY <1>1, <3>1, ToldAll DEF StatusInv
  <2>2. CASE OpenConversationsChanged
    BY <1>1, <2>2, Unseen DEF OpenConversationsChanged, StatusInv
  <2> QED
    BY <2>1, <2>2
<1> QED
  BY <1>1, <1>2 DEF StatusInv, IdleIsWatched

-----------------------------------------------------------------------------
LEMMA StatusInit == Init => StatusInv
BY DEF Init, StatusInv, Preferences, IdleIsWatched, FriendsSeeCurrentStatus

LEMMA StatusStep == StatusInv /\ [Next]_statusVars => StatusInv'
<1> SUFFICES ASSUME StatusInv, [Next]_statusVars PROVE StatusInv'
  OBVIOUS
<1>1. CASE UNCHANGED statusVars
  BY <1>1 DEF statusVars, StatusInv, IdleIsWatched, FriendsSeeCurrentStatus
<1> QED
  BY <1>1, StatusSet, IdlingKeeps, LinkKeeps, ListsKeep DEF Next

LEMMA StatusInvariant == Spec => []StatusInv
<1> QED
  BY StatusInit, StatusStep, PTL DEF Spec

(* An online user is idle already or watched by the idle timer.            *)
THEOREM IdleCorrect == Spec => []IdleIsWatched
<1>1. StatusInv => IdleIsWatched
  BY DEF StatusInv
<1> QED
  BY <1>1, StatusInvariant, PTL

(* While the link is up, every friend has been told what the screen shows, *)
(* or "offline".                                                           *)
THEOREM StatusToldCorrect == Spec => []FriendsSeeCurrentStatus
<1>1. StatusInv => FriendsSeeCurrentStatus
  BY DEF StatusInv
<1> QED
  BY <1>1, StatusInvariant, PTL

-----------------------------------------------------------------------------
(* Settings.                                                               *)

(* What makes a cache invisible: if it holds anything, then what the       *)
(* settings hold for the profile and the user of the moment; a cache that  *)
(* setProfile() left behind is excepted.                                   *)
CachesAgree ==
  /\ cachedToken # Empty => cachedToken = disk[profile].token
  /\ cachedUser # Empty => cachedUser = disk[profile].user
  /\ \A k \in CachedKinds :
       (stale => k \notin DisplayKinds) /\ cached[k] # Empty =>
         cached[k] = disk[profile].of[disk[profile].user][k]

SettingsInv == SettingsTypeOK /\ CachesAgree

StaleRead == stale /\ \E k \in DisplayKinds : GetCached(k)

Refines == [Store!Next \/ StaleRead]_(Store!storeVars)

LEMMA UserIsStored == CachesAgree => User = disk[profile].user
BY DEF CachesAgree, User

(* The record of one profile, and the types of its fields.                 *)
LEMMA ProfileType ==
  ASSUME SettingsTypeOK
  PROVE  /\ disk[profile].token \in Store!Texts
         /\ disk[profile].user \in Store!Keys
         /\ disk[profile].of \in [Store!Keys -> [Store!Kinds -> Store!Texts]]
BY DEF SettingsTypeOK

LEMMA EmptyCaches ==
  /\ Empty \in Store!Texts /\ Empty \in Store!Keys
  /\ Uncached \in [CachedKinds -> Store!Texts]
  /\ \A k \in CachedKinds : Uncached[k] = Empty
BY DEF Uncached, Store!Texts, Store!Keys

-----------------------------------------------------------------------------
(* Reading.                                                                *)

LEMMA TokenRead ==
  ASSUME SettingsInv, AuthToken
  PROVE  SettingsInv' /\ Refines
<1>1. cachedToken' = disk[profile].token /\ cachedToken' \in Store!Texts
  BY ProfileType DEF AuthToken, OrElse, SettingsInv, CachesAgree, SettingsTypeOK
<1>2. SettingsInv'
  BY <1>1 DEF AuthToken, SettingsInv, CachesAgree, SettingsTypeOK
<1>3. Store!Read
  BY <1>1 DEF AuthToken, Store!Read, Store!Reads
<1> QED
  BY <1>2, <1>3 DEF Refines, Store!Next

LEMMA UserRead ==
  ASSUME SettingsInv, Username
  PROVE  SettingsInv' /\ Refines
<1>1. cachedUser' = disk[profile].user /\ cachedUser' \in Store!Keys
  BY ProfileType DEF Username, OrElse, SettingsInv, CachesAgree, SettingsTypeOK
<1>2. SettingsInv'
  BY <1>1 DEF Username, SettingsInv, CachesAgree, SettingsTypeOK
<1>3. Store!Read
  BY <1>1 DEF Username, Store!Read, Store!Reads
<1> QED
  BY <1>2, <1>3 DEF Refines, Store!Next

LEMMA CachedRead ==
  ASSUME SettingsInv, NEW k \in CachedKinds, GetCached(k)
  PROVE  SettingsInv' /\ Refines
<1> DEFINE value == disk[profile].of[disk[profile].user][k]
<1>1. k \in Store!Kinds
  BY DEF CachedKinds, Store!Kinds
<1>2. value \in Store!Texts
  BY <1>1, ProfileType DEF SettingsInv
<1>3. PICK read \in Store!Texts :
        /\ cached' = [cached EXCEPT ![k] = read]
        /\ (stale => k \notin DisplayKinds) => read = value
  <2>1. OrElse(cached[k], value) \in Store!Texts
    BY <1>2 DEF OrElse, SettingsInv, SettingsTypeOK
  <2>2. (stale => k \notin DisplayKinds) => OrElse(cached[k], value) = value
    BY DEF OrElse, SettingsInv, CachesAgree
  <2>3. cached' = [cached EXCEPT ![k] = OrElse(cached[k], value)]
    BY UserIsStored DEF GetCached, SettingsInv
  <2> QED
    BY <2>1, <2>2, <2>3
<1> HIDE DEF value
<1>4. /\ cached' \in [CachedKinds -> Store!Texts]
      /\ cached'[k] = read
      /\ \A h \in CachedKinds \ {k} : cached'[h] = cached[h]
  BY <1>3 DEF SettingsInv, SettingsTypeOK
<1>5. SettingsTypeOK'
  BY <1>4 DEF GetCached, SettingsInv, SettingsTypeOK
<1>6. CachesAgree'
  BY <1>3, <1>4 DEF GetCached, SettingsInv, CachesAgree, value
<1>7. Store!Next \/ StaleRead
  <2>1. CASE stale => k \notin DisplayKinds
    BY <1>1, <1>3, <1>4, <2>1 DEF GetCached, Store!Next, Store!Read, Store!Reads, value
  <2>2. CASE stale /\ k \in DisplayKinds
    BY <2>2 DEF StaleRead
  <2> QED
    BY <2>1, <2>2
<1> QED
  BY <1>5, <1>6, <1>7 DEF SettingsInv, Refines

LEMMA ListRead ==
  ASSUME SettingsInv, NEW k \in ListKinds, GetList(k)
  PROVE  SettingsInv' /\ Refines
<1>1. k \in Store!Kinds
  BY DEF Store!Kinds
<1>2. SettingsInv'
  BY DEF GetList, caches, SettingsInv, CachesAgree, SettingsTypeOK
<1>3. Store!Read
  BY <1>1, UserIsStored DEF GetList, Store!Read, SettingsInv
<1> QED
  BY <1>2, <1>3 DEF Refines, Store!Next

-----------------------------------------------------------------------------
(* Writing.                                                                *)

LEMMA TokenWritten ==
  ASSUME SettingsInv, NEW t \in Store!Texts, SetAuthToken(t)
  PROVE  SettingsInv' /\ Refines
<1>1. /\ disk'[profile].token = t
      /\ disk'[profile].user = disk[profile].user
      /\ disk'[profile].of = disk[profile].of
  BY DEF SetAuthToken, SettingsInv, SettingsTypeOK
<1>2. SettingsTypeOK'
  BY DEF SetAuthToken, SettingsInv, SettingsTypeOK
<1>3. CachesAgree'
  BY <1>1 DEF SetAuthToken, SettingsInv, CachesAgree
<1>4. Store!Write
  BY DEF SetAuthToken, Quiet, Store!Write
<1> QED
  BY <1>2, <1>3, <1>4 DEF SettingsInv, Refines, Store!Next

(* The caches of the previous user go, unless the user stays the same.     *)
LEMMA UserWritten ==
  ASSUME SettingsInv, NEW u \in Users, SetUsername(u)
  PROVE  SettingsInv' /\ Refines
<1>1. /\ disk'[profile].token = disk[profile].token
      /\ disk'[profile].user = u
      /\ disk'[profile].of = disk[profile].of
  BY DEF SetUsername, SettingsInv, SettingsTypeOK
<1>2. SettingsTypeOK'
  BY EmptyCaches DEF SetUsername, SettingsInv, SettingsTypeOK, Store!Keys
<1>3. CachesAgree'
  <2>1. CASE cachedUser # u
    <3>1. cached' = Uncached /\ profile' = profile /\ cachedUser' = u /\ cachedToken' = cachedToken
      BY <2>1 DEF SetUsername
    <3> QED
      BY <1>1, <3>1, EmptyCaches DEF SettingsInv, CachesAgree
  <2>2. CASE cachedUser = u
    <3>1. disk[profile].user = u
      BY <2>2, SettingsAssumption DEF SettingsInv, CachesAgree
    <3>2. cached' = cached /\ stale' = stale /\ profile' = profile /\ cachedUser' = u /\ cachedToken' = cachedToken
      BY <2>2 DEF SetUsername
    <3> QED
      BY <1>1, <3>1, <3>2 DEF SettingsInv, CachesAgree
  <2> QED
    BY <2>1, <2>2
<1>4. Store!Write
  BY DEF SetUsername, Quiet, Store!Write
<1> QED
  BY <1>2, <1>3, <1>4 DEF SettingsInv, Refines, Store!Next

(* What both kinds of settings of a user have in common.                   *)
LEMMA SettingWritten ==
  ASSUME SettingsInv, NEW k \in Store!Kinds, NEW v \in Store!Texts,
         disk' = [disk EXCEPT ![profile].of[User][k] = v], UNCHANGED profile
  PROVE  /\ disk'[profile].token = disk[profile].token
         /\ disk'[profile].user = disk[profile].user
         /\ disk'[profile].of[disk[profile].user][k] = v
         /\ \A h \in Store!Kinds \ {k} :
              disk'[profile].of[disk[profile].user][h] = disk[profile].of[disk[profile].user][h]
         /\ disk' \in [Profiles -> [token : Store!Texts, user : Store!Keys,
                                    of : [Store!Keys -> [Store!Kinds -> Store!Texts]]]]
<1> DEFINE u      == disk[profile].user
           Of     == [Store!Keys -> [Store!Kinds -> Store!Texts]]
           Record == [token : Store!Texts, user : Store!Keys, of : Of]
           newOf  == [disk[profile].of EXCEPT ![u][k] = v]
           new    == [disk[profile] EXCEPT !.of = newOf]
<1>1. User = u /\ u \in Store!Keys
  BY UserIsStored, ProfileType DEF SettingsInv
<1>2. /\ newOf \in Of /\ newOf[u][k] = v
      /\ \A h \in Store!Kinds \ {k} : newOf[u][h] = disk[profile].of[u][h]
  <2>1. disk[profile].of \in Of
    BY ProfileType DEF SettingsInv
  <2> HIDE DEF u
  <2> QED
    BY <1>1, <2>1
<1>3. disk \in [Profiles -> Record] /\ profile \in Profiles
  BY DEF SettingsInv, SettingsTypeOK
<1>4. disk' = [disk EXCEPT ![profile] = new]
  BY <1>1, <1>3
<1> HIDE DEF newOf, Of
<1>5. /\ new \in Record /\ new.of = newOf
      /\ new.token = disk[profile].token /\ new.user = disk[profile].user
  BY <1>2, <1>3
<1> HIDE DEF new, Record
<1>6. disk'[profile] = new /\ disk' \in [Profiles -> Record]
  BY <1>3, <1>4, <1>5
<1> QED
  BY <1>2, <1>5, <1>6 DEF Record, Of

LEMMA CachedWritten ==
  ASSUME SettingsInv, NEW k \in CachedKinds, NEW v \in Store!Texts, SetCached(k, v)
  PROVE  SettingsInv' /\ Refines
<1>1. k \in Store!Kinds /\ CachedKinds \subseteq Store!Kinds
  BY DEF CachedKinds, Store!Kinds
<1>2. disk' = [disk EXCEPT ![profile].of[User][k] = v] /\ profile' = profile
  BY DEF SetCached
<1>3. /\ disk'[profile].token = disk[profile].token
      /\ disk'[profile].user = disk[profile].user
      /\ disk'[profile].of[disk[profile].user][k] = v
      /\ \A h \in Store!Kinds \ {k} :
           disk'[profile].of[disk[profile].user][h] = disk[profile].of[disk[profile].user][h]
      /\ disk' \in [Profiles -> [token : Store!Texts, user : Store!Keys,
                                 of : [Store!Keys -> [Store!Kinds -> Store!Texts]]]]
  BY <1>1, <1>2, SettingWritten
<1>4. /\ cached' \in [CachedKinds -> Store!Texts]
      /\ cached'[k] = v
      /\ \A h \in CachedKinds \ {k} : cached'[h] = cached[h]
  BY DEF SetCached, SettingsInv, SettingsTypeOK
<1>5. SettingsTypeOK'
  BY <1>3, <1>4 DEF SetCached, SettingsInv, SettingsTypeOK
<1>6. CachesAgree'
  BY <1>1, <1>3, <1>4 DEF SetCached, SettingsInv, CachesAgree
<1>7. Store!Write
  BY <1>1, <1>2, UserIsStored DEF SetCached, Quiet, Store!Write, SettingsInv
<1> QED
  BY <1>5, <1>6, <1>7 DEF SettingsInv, Refines, Store!Next

LEMMA ListWritten ==
  ASSUME SettingsInv, NEW k \in ListKinds, NEW v \in Store!Texts, SetList(k, v)
  PROVE  SettingsInv' /\ Refines
<1>1. k \in Store!Kinds /\ CachedKinds \subseteq Store!Kinds \ {k}
  BY SettingsAssumption DEF CachedKinds, Store!Kinds
<1>2. disk' = [disk EXCEPT ![profile].of[User][k] = v] /\ UNCHANGED <<profile, caches, stale>>
  BY DEF SetList
<1>3. /\ disk'[profile].token = disk[profile].token
      /\ disk'[profile].user = disk[profile].user
      /\ \A h \in Store!Kinds \ {k} :
           disk'[profile].of[disk[profile].user][h] = disk[profile].of[disk[profile].user][h]
      /\ disk' \in [Profiles -> [token : Store!Texts, user : Store!Keys,
                                 of : [Store!Keys -> [Store!Kinds -> Store!Texts]]]]
  BY <1>1, <1>2, SettingWritten
<1>4. SettingsTypeOK'
  BY <1>2, <1>3 DEF caches, SettingsInv, SettingsTypeOK
<1>5. CachesAgree'
  BY <1>1, <1>2, <1>3 DEF caches, SettingsInv, CachesAgree
<1>6. Store!Write
  BY <1>1, <1>2, UserIsStored DEF SetList, Quiet, Store!Write, SettingsInv
<1> QED
  BY <1>4, <1>5, <1>6 DEF SettingsInv, Refines, Store!Next

-----------------------------------------------------------------------------
(* The end of a session, of a profile's use and of the program.            *)

LEMMA SessionCleared ==
  ASSUME SettingsInv, ClearSession
  PROVE  SettingsInv' /\ Refines
<1>1. SettingsTypeOK'
  BY EmptyCaches DEF ClearSession, SettingsInv, SettingsTypeOK
<1>2. CachesAgree'
  BY EmptyCaches DEF ClearSession, CachesAgree
<1>3. Store!ClearSession
  BY DEF ClearSession, Quiet, Store!ClearSession
<1> QED
  BY <1>1, <1>2, <1>3 DEF SettingsInv, Refines, Store!Next

LEMMA ProfileSet ==
  ASSUME SettingsInv, NEW q \in Profiles, SetProfile(q)
  PROVE  SettingsInv' /\ Refines
<1>1. cached' \in [CachedKinds -> Store!Texts]
  BY EmptyCaches DEF SetProfile, SettingsInv, SettingsTypeOK
<1>2. stale' \in BOOLEAN
  BY DEF SetProfile, SettingsInv, SettingsTypeOK
<1>3. SettingsTypeOK'
  BY <1>1, <1>2, EmptyCaches DEF SetProfile, SettingsInv, SettingsTypeOK
<1>4. \A k \in CachedKinds :
        cached'[k] # Empty => k \in DisplayKinds /\ cached[k] # Empty
  BY DEF SetProfile, CachedKinds
<1>5. CachesAgree'
  BY <1>4 DEF SetProfile, CachesAgree
<1>6. Store!SetProfile
  BY DEF SetProfile, Quiet, Store!SetProfile
<1> QED
  BY <1>3, <1>5, <1>6 DEF SettingsInv, Refines, Store!Next

LEMMA Restarted ==
  ASSUME SettingsInv, SettingsRestart
  PROVE  SettingsInv' /\ Refines
<1>1. SettingsTypeOK'
  BY EmptyCaches DEF SettingsRestart, SettingsInv, SettingsTypeOK
<1>2. CachesAgree'
  BY EmptyCaches DEF SettingsRestart, CachesAgree
<1>3. Store!SetProfile
  BY DEF SettingsRestart, Quiet, Store!SetProfile
<1> QED
  BY <1>1, <1>2, <1>3 DEF SettingsInv, Refines, Store!Next

-----------------------------------------------------------------------------
LEMMA InvInit == SettingsInit => SettingsInv /\ Store!Init
<1> SUFFICES ASSUME SettingsInit PROVE SettingsInv /\ Store!Init
  OBVIOUS
<1>1. SettingsTypeOK
  BY EmptyCaches DEF SettingsInit, Store!Init, SettingsTypeOK
<1>2. CachesAgree
  BY EmptyCaches DEF SettingsInit, CachesAgree
<1> QED
  BY <1>1, <1>2 DEF SettingsInit, SettingsInv

LEMMA InvStep ==
  SettingsInv /\ [SettingsNext]_settingsVars => SettingsInv' /\ Refines
<1> SUFFICES ASSUME SettingsInv, [SettingsNext]_settingsVars
             PROVE  SettingsInv' /\ Refines
  OBVIOUS
<1>1. CASE UNCHANGED settingsVars
  BY <1>1 DEF settingsVars, caches, SettingsInv, SettingsTypeOK, CachesAgree, Refines, Store!storeVars
<1> QED
  BY <1>1, TokenRead, UserRead, CachedRead, ListRead, TokenWritten, UserWritten, CachedWritten,
     ListWritten, SessionCleared, ProfileSet, Restarted DEF SettingsNext

(* Every setting that is read is the one last written for that profile and *)
(* user, but for those that setProfile() left in a cache: the repository   *)
(* with its caches implements the store without.                           *)
THEOREM CachesAreInvisible == SettingsSpec => ReadsWhatWasWritten
<1>1. SettingsInit => SettingsInv /\ Store!Init
  BY InvInit
<1>2. SettingsInv /\ [SettingsNext]_settingsVars =>
        SettingsInv' /\ [Store!Next \/ (stale /\ \E k \in DisplayKinds : GetCached(k))]_(Store!storeVars)
  BY InvStep DEF Refines, StaleRead
<1> QED
  BY <1>1, <1>2, PTL DEF SettingsSpec, ReadsWhatWasWritten

-----------------------------------------------------------------------------
(* Audio.  A thread captures only while a recording is on or being         *)
(* stopped, and until it is stopped nothing is written or forgotten.       *)
Stopping  == doing \in {"stop", "cancel"}
Capturing == recording \/ Stopping

RecordInv ==
  /\ recording => doing \notin {"record", "stop", "cancel"}
  /\ Capturing => buffer = captured /\ file = NoFile
  /\ ~Capturing => mic = "none" /\ buffer = 0
  /\ file # NoFile => file = captured
  /\ mic = "filling" => captured < MaxBuffers

LEMMA RecordingStep ==
  ASSUME AudioTypeOK, RecordInv, [AudioNext]_audioVars
  PROVE  RecordInv'
<1> USE DEF RecordInv, Capturing, Stopping, NoFile
<1>1. ASSUME UNCHANGED <<doing, recordVars>> PROVE RecordInv'
  BY <1>1 DEF recordVars
<1>2. ASSUME UNCHANGED recordVars, ~Stopping, ~Stopping', doing' # "record" \/ ~recording
      PROVE  RecordInv'
  BY <1>2 DEF recordVars
<1>3. CASE UNCHANGED audioVars
  BY <1>1, <1>3 DEF audioVars
<1>4. CASE MicOpened \/ MicLoops
  BY <1>4 DEF MicOpened, MicLoops, AudioTypeOK
<1>5. CASE MicFills
  BY <1>5, AudioAssumption DEF MicFills, AudioTypeOK
<1>6. CASE WorkerRuns \/ WorkerEnds
  BY <1>1, <1>6 DEF WorkerRuns, WorkerEnds
<1>7. CASE StartRecording
  BY <1>2, <1>7 DEF StartRecording, Idle
<1>8. CASE RecordingStarted
  BY <1>8 DEF RecordingStarted
<1>9. CASE StopRecording
  BY <1>9 DEF StopRecording, Idle
<1>10. CASE RecordingStopped
  BY <1>10 DEF RecordingStopped, Written
<1>11. ASSUME NEW m, PlayAudio(m) PROVE RecordInv'
  BY <1>2, <1>11 DEF PlayAudio, Idle
<1>12. CASE PauseAudio \/ PlaybackEnds \/ AudioStopped
  BY <1>2, <1>12 DEF PauseAudio, PlaybackEnds, AudioStopped, Idle
<1>13. ASSUME NEW m, TogglePlayPause(m) PROVE RecordInv'
  BY <1>11, <1>12, <1>13 DEF TogglePlayPause
<1>14. ASSUME NEW kind, AudioStarted(kind) PROVE RecordInv'
  BY <1>2, <1>14 DEF AudioStarted
<1>15. ASSUME NEW v, SetVolume(v) PROVE RecordInv'
  BY <1>1, <1>15 DEF SetVolume
<1>16. CASE SetMuted \/ AudioRestart
  BY <1>1, <1>16 DEF SetMuted, AudioRestart
<1> QED
  BY <1>3, <1>4, <1>5, <1>6, <1>7, <1>8, <1>9, <1>10, <1>11, <1>12, <1>13, <1>14, <1>15, <1>16
  DEF AudioNext

(* What each wait has already stopped; where the thread is while a message *)
(* is shown as playing; and that MCI and the thread never both play.       *)
PlayInv ==
  /\ doing \in {"record", "pause", "finish"} => ~playing /\ ~workerOn /\ ~sounding
  /\ doing = "play" => ~mci /\ ~workerOn /\ ~sounding
  /\ workerOn => worker \in {"opening", "looping", "closing"}
  /\ doing \in {"idle", "stop", "cancel"} =>
       /\ playing /\ ~mci => worker # "none"
       /\ ~playing => worker = "none" /\ ~sounding
  /\ doing \notin {"play", "finish"} /\ current # NoMessage => (mci <=> type = "mci")
  /\ mci => worker = "none" /\ ~workerOn /\ ~sounding
  /\ type = "file" => samples = current \/ current = NoMessage
  /\ sounding => current # NoMessage

VolumeInv ==
  /\ mci => device = Loudness(volume, muted)
  /\ shared = Loudness(volume, muted) /\ savedVolume = [volume |-> volume, muted |-> muted]

LEMMA PlayingStep ==
  ASSUME AudioTypeOK, PlayInv, [AudioNext]_audioVars
  PROVE  PlayInv'
<1> USE DEF PlayInv
<1>0. {recording, micOn, playing, mci, sounding, workerOn, muted} \subseteq BOOLEAN
  BY DEF AudioTypeOK
<1>1. ASSUME UNCHANGED playVars, UNCHANGED doing PROVE PlayInv'
  BY <1>1 DEF playVars
<1>2. CASE UNCHANGED audioVars
  BY <1>1, <1>2 DEF audioVars
<1>3. CASE MicOpened \/ MicLoops \/ MicFills
  BY <1>1, <1>3 DEF MicOpened, MicLoops, MicFills
<1>4. CASE WorkerRuns
  BY <1>4 DEF WorkerRuns
<1>5. CASE WorkerEnds
  BY <1>5 DEF WorkerEnds
<1>6. CASE StartRecording
  BY <1>0, <1>6 DEF StartRecording, Idle
<1>7. CASE RecordingStarted
  BY <1>7 DEF RecordingStarted
<1>8. CASE StopRecording
  BY <1>8 DEF StopRecording, Idle, playVars
<1>9. CASE RecordingStopped
  BY <1>9 DEF RecordingStopped, Written, playVars
<1>10. ASSUME NEW m \in AudioMessages, PlayAudio(m) PROVE PlayInv'
  <2>1. CASE m # current
    BY <1>10, <2>1 DEF PlayAudio, Idle
  <2>2. CASE m = current
    BY <1>0, <1>10, <2>2, AudioAssumption DEF PlayAudio, Idle
  <2> QED
    BY <2>1, <2>2
<1>11. CASE PauseAudio \/ PlaybackEnds
  BY <1>11 DEF PauseAudio, PlaybackEnds, Idle
<1>12. CASE AudioStopped
  BY <1>12 DEF AudioStopped
<1>13. ASSUME NEW m \in AudioMessages, TogglePlayPause(m) PROVE PlayInv'
  BY <1>10, <1>11, <1>13 DEF TogglePlayPause
<1>14. ASSUME NEW kind \in Kinds, AudioStarted(kind) PROVE PlayInv'
  BY <1>14 DEF AudioStarted, Kinds
<1>15. ASSUME NEW v, SetVolume(v) PROVE PlayInv'
  BY <1>1, <1>15 DEF SetVolume
<1>16. CASE SetMuted
  BY <1>1, <1>16 DEF SetMuted
<1>17. CASE AudioRestart
  BY <1>0, <1>17 DEF AudioRestart, Idle
<1> QED
  BY <1>2, <1>3, <1>4, <1>5, <1>6, <1>7, <1>8, <1>9, <1>10, <1>11, <1>12, <1>13, <1>14, <1>15,
     <1>16, <1>17 DEF AudioNext

LEMMA VolumeStep ==
  ASSUME AudioTypeOK, VolumeInv, [AudioNext]_audioVars
  PROVE  VolumeInv'
<1> USE DEF VolumeInv
<1>1. ASSUME UNCHANGED volumeVars, mci' => mci PROVE VolumeInv'
  BY <1>1 DEF volumeVars
<1>2. CASE UNCHANGED audioVars
  BY <1>1, <1>2 DEF audioVars, playVars
<1>3. CASE MicOpened \/ MicLoops \/ MicFills \/ StopRecording \/ RecordingStopped
  BY <1>1, <1>3 DEF MicOpened, MicLoops, MicFills, StopRecording, RecordingStopped, playVars
<1>4. CASE WorkerRuns \/ WorkerEnds \/ StartRecording \/ RecordingStarted
  BY <1>1, <1>4 DEF WorkerRuns, WorkerEnds, StartRecording, RecordingStarted
<1>5. CASE PauseAudio \/ PlaybackEnds \/ AudioStopped
  BY <1>1, <1>5 DEF PauseAudio, PlaybackEnds, AudioStopped
<1>6. ASSUME NEW m, PlayAudio(m) PROVE VolumeInv'
  BY <1>6 DEF PlayAudio
<1>7. ASSUME NEW m, TogglePlayPause(m) PROVE VolumeInv'
  BY <1>5, <1>6, <1>7 DEF TogglePlayPause
<1>8. ASSUME NEW kind, AudioStarted(kind) PROVE VolumeInv'
  BY <1>8 DEF AudioStarted
<1>9. ASSUME NEW v, SetVolume(v) PROVE VolumeInv'
  BY <1>9 DEF SetVolume, playVars
<1>10. CASE SetMuted
  BY <1>10 DEF SetMuted, playVars
<1>11. CASE AudioRestart
  BY <1>11 DEF AudioRestart, AudioTypeOK
<1> QED
  BY <1>2, <1>3, <1>4, <1>5, <1>6, <1>7, <1>8, <1>9, <1>10, <1>11 DEF AudioNext

LEMMA AudioTypeStep ==
  ASSUME AudioTypeOK, RecordInv, [AudioNext]_audioVars
  PROVE  AudioTypeOK'
<1> USE DEF AudioTypeOK
<1>1. CASE UNCHANGED audioVars
  BY <1>1 DEF audioVars, recordVars, playVars, volumeVars
<1>2. CASE MicOpened \/ MicLoops
  BY <1>2 DEF MicOpened, MicLoops, playVars, volumeVars, Threads
<1>3. CASE MicFills
  <2>1. buffer = captured /\ captured < MaxBuffers
    BY <1>3 DEF MicFills, RecordInv, Capturing
  <2> QED
    BY <1>3, <2>1, AudioAssumption DEF MicFills, playVars, volumeVars, Threads
<1>4. CASE WorkerRuns
  BY <1>4 DEF WorkerRuns, recordVars, volumeVars, Threads
<1>5. CASE WorkerEnds
  BY <1>5 DEF WorkerEnds, recordVars, volumeVars, Threads
<1>6. CASE StartRecording
  BY <1>6 DEF StartRecording, recordVars, volumeVars
<1>7. CASE RecordingStarted
  BY <1>7, AudioAssumption DEF RecordingStarted, volumeVars, Threads, NoFile
<1>8. CASE StopRecording
  BY <1>8 DEF StopRecording, playVars, volumeVars
<1>9. CASE RecordingStopped
  BY <1>9, AudioAssumption
  DEF RecordingStopped, Written, playVars, volumeVars, Threads, NoFile
<1>10. ASSUME NEW m \in AudioMessages, PlayAudio(m) PROVE AudioTypeOK'
  <2>1. Loudness(volume, muted) \in Volumes
    BY DEF Loudness, Volumes
  <2>2. CASE m # current
    BY <1>10, <2>2 DEF PlayAudio, recordVars
  <2>3. CASE m = current
    BY <1>10, <2>1, <2>3 DEF PlayAudio, recordVars, Threads
  <2> QED
    BY <2>2, <2>3
<1>11. CASE PauseAudio
  BY <1>11 DEF PauseAudio, recordVars, volumeVars
<1>12. CASE PlaybackEnds
  BY <1>12 DEF PlaybackEnds, recordVars, volumeVars
<1>13. CASE AudioStopped
  BY <1>13 DEF AudioStopped, recordVars, volumeVars, Threads
<1>14. ASSUME NEW m \in AudioMessages, TogglePlayPause(m) PROVE AudioTypeOK'
  BY <1>10, <1>11, <1>14 DEF TogglePlayPause
<1>15. ASSUME NEW kind \in Kinds, AudioStarted(kind) PROVE AudioTypeOK'
  <2>1. Loudness(volume, muted) \in Volumes
    BY DEF Loudness, Volumes
  <2> QED
    BY <1>15, <2>1 DEF AudioStarted, recordVars, Threads
<1>16. ASSUME NEW v \in Volumes, SetVolume(v) PROVE AudioTypeOK'
  <2>1. \A m \in BOOLEAN : Loudness(v, m) \in Volumes
    BY DEF Loudness, Volumes
  <2> QED
    BY <1>16, <2>1 DEF SetVolume, recordVars, playVars
<1>17. CASE SetMuted
  <2>1. \A m \in BOOLEAN : Loudness(volume, m) \in Volumes
    BY DEF Loudness, Volumes
  <2> QED
    BY <1>17, <2>1 DEF SetMuted, recordVars, playVars
<1>18. CASE AudioRestart
  <2>1. /\ savedVolume.volume \in Volumes /\ savedVolume.muted \in BOOLEAN
        /\ Loudness(savedVolume.volume, savedVolume.muted) \in Volumes
    BY DEF Loudness, Volumes
  <2> QED
    BY <1>18, <2>1 DEF AudioRestart, recordVars, Kinds
<1> QED
  BY <1>1, <1>2, <1>3, <1>4, <1>5, <1>6, <1>7, <1>8, <1>9, <1>10, <1>11, <1>12, <1>13, <1>14,
     <1>15, <1>16, <1>17, <1>18 DEF AudioNext

AudioInv == AudioTypeOK /\ RecordInv /\ PlayInv /\ VolumeInv

LEMMA AudioInvHolds == AudioSpec => []AudioInv
<1>1. AudioInit => AudioInv
  <2> SUFFICES ASSUME AudioInit PROVE AudioInv
    OBVIOUS
  <2>1. /\ savedVolume.volume \in Volumes /\ savedVolume.muted \in BOOLEAN
        /\ Loudness(savedVolume.volume, savedVolume.muted) \in Volumes
        /\ savedVolume = [volume |-> savedVolume.volume, muted |-> savedVolume.muted]
    BY DEF AudioInit, Loudness, Volumes
  <2>2. AudioTypeOK
    <3>1. 0 \in Volumes /\ 0 \in 0 .. MaxBuffers /\ NoFile = MaxBuffers + 1
      BY AudioAssumption DEF Volumes, NoFile
    <3>2. savedVolume \in [volume : Volumes, muted : BOOLEAN]
      BY DEF AudioInit
    <3>3. {volume, shared, device} \subseteq Volumes /\ muted \in BOOLEAN
      BY <2>1, <3>1 DEF AudioInit
    <3> QED
      BY <3>1, <3>2, <3>3 DEF AudioInit, AudioTypeOK, Threads, Kinds
  <2>3. RecordInv
    BY DEF AudioInit, RecordInv, Capturing, Stopping
  <2>4. PlayInv
    BY DEF AudioInit, PlayInv
  <2>5. VolumeInv
    BY <2>1 DEF AudioInit, VolumeInv
  <2> QED
    BY <2>2, <2>3, <2>4, <2>5 DEF AudioInv
<1>2. AudioInv /\ [AudioNext]_audioVars => AudioInv'
  BY AudioTypeStep, RecordingStep, PlayingStep, VolumeStep DEF AudioInv
<1> QED
  BY <1>1, <1>2, PTL DEF AudioSpec

(* stopRecording() joins the capturing thread before it takes the buffer,  *)
(* so a recording is whole, whenever the thread sees the flags fall.       *)
THEOREM RecordingCorrect == AudioSpec => []RecordingIsWhole
<1>1. AudioInv => RecordingIsWhole
  BY DEF AudioInv, RecordInv, Capturing, Stopping, Idle, RecordingIsWhole
<1> QED
  BY <1>1, AudioInvHolds, PTL

(* playAudio(), pauseAudio(), the end of a message and a recording leave   *)
(* thread, engines and loudness as the window shows them.                  *)
THEOREM PlaybackCorrect == AudioSpec => []PlaysWhatIsShown
<1>1. AudioInv => PlaysWhatIsShown
  BY DEF AudioInv, PlayInv, VolumeInv, Idle, PlaysWhatIsShown
<1> QED
  BY <1>1, AudioInvHolds, PTL

-----------------------------------------------------------------------------
(* The parts together.                                                     *)

(* Every status that is shown or told is one of the four.                  *)
LEMMA TellTypes ==
  ASSUME TypeOK, NEW friendSet, NEW pref \in Preferences, NEW idle, NEW linked, NEW tok,
         Tell(friendSet, pref, idle, linked, tok)
  PROVE  announced' \in [Peers -> Preferences \union {"nothing"}]
<1>1. Effective(pref, idle, linked, tok) \in Preferences
  BY DEF Effective, Preferences
<1>2. \A targets : Told(targets, Effective(pref, idle, linked, tok))
                     \in [Peers -> Preferences \union {"nothing"}]
  BY <1>1 DEF Told, TypeOK
<1> QED
  BY <1>2 DEF Tell, TypeOK

LEMMA StatusTypeStep == TypeOK /\ [Next]_statusVars => TypeOK'
<1> SUFFICES ASSUME TypeOK, [Next]_statusVars PROVE TypeOK'
  OBVIOUS
<1>1. CASE UNCHANGED statusVars
  BY <1>1 DEF statusVars, TypeOK
<1>2. ASSUME NEW pref \in Preferences, SetUserStatus(pref) PROVE TypeOK'
  BY <1>2, TellTypes DEF SetUserStatus, TypeOK
<1>3. CASE ReportActivity
  <2>1. announced' \in [Peers -> Preferences \union {"nothing"}]
    BY <1>3, TellTypes DEF ReportActivity, TypeOK
  <2> QED
    BY <1>3, <2>1 DEF ReportActivity, TypeOK
<1>4. CASE IdleTimeout
  <2>1. announced' \in [Peers -> Preferences \union {"nothing"}]
    BY <1>4, TellTypes DEF IdleTimeout, TypeOK
  <2> QED
    BY <1>4, <2>1 DEF IdleTimeout, TypeOK
<1>5. CASE SetIdleTimeout
  BY <1>5 DEF SetIdleTimeout, TypeOK
<1>6. CASE Login \/ ServerDisconnected \/ Logout \/ SessionUnauthorized \/ OpenConversationsChanged
  BY <1>6 DEF Login, ServerDisconnected, Logout, SessionUnauthorized, OpenConversationsChanged,
    TypeOK
<1>7. CASE ServerConnected
  BY <1>7, TellTypes DEF ServerConnected, TypeOK
<1>8. CASE FriendsChanged \/ DisplayNameChanged
  <2>1. announced' \in [Peers -> Preferences \union {"nothing"}]
    BY <1>8, TellTypes DEF FriendsChanged, DisplayNameChanged, TypeOK
  <2> QED
    BY <1>8, <2>1 DEF FriendsChanged, DisplayNameChanged, TypeOK
<1> QED
  BY <1>1, <1>2, <1>3, <1>4, <1>5, <1>6, <1>7, <1>8 DEF Next

mcVars == <<part, statusVars, socialVars, chatVars, settingsVars, audioVars>>

PartIsOne == part \in Parts

FriendTypesInv == FriendTypeInv /\ answered \subseteq Names

(* A step is one of one part, and none of the others moves.                *)
LEMMA PartStep ==
  [MCNext]_mcVars =>
    /\ [Next]_statusVars
    /\ [FriendNext \/ NotificationStep]_friendVars
    /\ [NotificationNext]_notificationVars
    /\ [ChatNext]_chatVars
    /\ [SettingsNext]_settingsVars
    /\ [AudioNext]_audioVars
<1> SUFFICES ASSUME [MCNext]_mcVars
             PROVE  /\ [Next]_statusVars
                    /\ [FriendNext \/ NotificationStep]_friendVars
                    /\ [NotificationNext]_notificationVars
                    /\ [ChatNext]_chatVars
                    /\ [SettingsNext]_settingsVars
                    /\ [AudioNext]_audioVars
  OBVIOUS
<1>1. \/ UNCHANGED statusVars
      \/ Next
  BY DEF MCNext, mcVars
<1>2. [NotificationNext]_notificationVars
  BY StepImplements DEF MCNext, mcVars, socialVars
<1>3. ChatNext \/ UNCHANGED chatVars
  BY DEF MCNext, mcVars
<1>4. SettingsNext \/ UNCHANGED settingsVars
  BY DEF MCNext, mcVars
<1>5. AudioNext \/ UNCHANGED audioVars
  BY DEF MCNext, mcVars
<1>6. \/ FriendNext
      \/ SocialNext
      \/ UNCHANGED friendVars
  BY DEF MCNext, mcVars, socialVars
<1>7. [FriendNext \/ NotificationStep]_friendVars
  BY <1>6 DEF SocialNext, FriendStep
<1> QED
  BY <1>1, <1>2, <1>3, <1>4, <1>5, <1>7

(* Putting the parts beside one another adds no behaviour to any of them:  *)
(* each part, running or not, does only what its own module allows, the    *)
(* notification centre also where the friend service drives it, and the    *)
(* friend service also where it is wired; there a step of the centre alone *)
(* leaves no signal.                                                       *)
THEOREM PartsAreTheirOwn ==
  MCSpec =>
    /\ Spec /\ NotificationSpec /\ ChatSpec /\ SettingsSpec /\ AudioSpec
    /\ FriendInit /\ [][FriendNext \/ NotificationStep]_friendVars
<1>1. MCInit =>
        /\ Init /\ NotificationInit /\ ChatInit /\ SettingsInit /\ AudioInit /\ FriendInit
  BY DEF MCInit, SocialInit
<1>2. MCSpec => MCInit /\ [][MCNext]_mcVars
  BY DEF MCSpec, mcVars
<1> QED
  BY <1>1, <1>2, PartStep, PTL DEF Spec, NotificationSpec, ChatSpec, SettingsSpec, AudioSpec

(* The friend service, alone or wired, keeps its types; so does the record *)
(* of answered names.                                                      *)
LEMMA FriendPartStep ==
  FriendTypesInv /\ [MCNext]_mcVars => FriendTypesInv'
<1> SUFFICES ASSUME FriendTypesInv, [MCNext]_mcVars PROVE FriendTypesInv'
  OBVIOUS
<1>1. \/ FriendNext /\ UNCHANGED answered
      \/ SocialNext
      \/ UNCHANGED <<friendVars, answered>>
  BY DEF MCNext, mcVars, socialVars
<1>2. [FriendNext]_friendVars \/ NotificationStep
  BY <1>1 DEF SocialNext, FriendStep
<1>3. answered' \subseteq Names
  BY <1>1, AnsweredTypes DEF FriendTypesInv
<1> QED
  BY <1>2, <1>3, FriendTypeStep DEF FriendTypesInv

(* Whatever part runs, its state keeps its type, for any constants.        *)
THEOREM TypesCorrect == MCSpec => []PartTypeOK
<1>1. Spec => []TypeOK
  <2>1. Init => TypeOK
    BY DEF Init, TypeOK, Preferences
  <2> QED
    BY <2>1, StatusTypeStep, PTL DEF Spec
<1>2. MCSpec => []FriendTypesInv
  <2>1. MCInit => FriendTypesInv
    BY FriendTypeStart DEF MCInit, SocialInit, FriendTypesInv
  <2>2. MCSpec => MCInit /\ [][MCNext]_mcVars
    BY DEF MCSpec, mcVars
  <2> QED
    BY <2>1, <2>2, FriendPartStep, PTL
<1>3. NotificationSpec => []NotificationTypeOK
  <2>1. NotificationInv => NotificationTypeOK
    BY DEF NotificationInv
  <2> QED
    BY <2>1, NotificationInvInit, NotificationInvStep, PTL DEF NotificationSpec
<1>4. ChatSpec => []ChatTypeOK
  BY TypeCorrect
<1>5. SettingsSpec => []SettingsTypeOK
  <2>1. SettingsInv => SettingsTypeOK
    BY DEF SettingsInv
  <2>2. SettingsInit => SettingsInv
    BY InvInit
  <2>3. SettingsInv /\ [SettingsNext]_settingsVars => SettingsInv'
    BY InvStep
  <2> QED
    BY <2>1, <2>2, <2>3, PTL DEF SettingsSpec
<1>6. AudioSpec => []AudioTypeOK
  <2>1. AudioInv => AudioTypeOK
    BY DEF AudioInv
  <2> QED
    BY <2>1, AudioInvHolds, PTL
<1>7. MCSpec => []PartIsOne
  <2>1. MCInit => PartIsOne
    BY DEF MCInit, PartIsOne
  <2>2. PartIsOne /\ [MCNext]_mcVars => PartIsOne'
    BY DEF MCNext, mcVars, PartIsOne
  <2>3. MCSpec => MCInit /\ [][MCNext]_mcVars
    BY DEF MCSpec, mcVars
  <2> QED
    BY <2>1, <2>2, <2>3, PTL
<1>8. /\ TypeOK /\ FriendTypesInv /\ NotificationTypeOK
      /\ ChatTypeOK /\ SettingsTypeOK /\ AudioTypeOK /\ PartIsOne
      => PartTypeOK
  BY FriendTypes DEF FriendTypesInv, PartIsOne, Parts, PartTypeOK, SocialTypeOK
<1> QED
  BY <1>1, <1>2, <1>3, <1>4, <1>5, <1>6, <1>7, <1>8, PartsAreTheirOwn, PTL
================================================================================
