------------------------------- MODULE UserStatus -------------------------------
(***************************************************************************)
(* core/networkmanager.cpp and the wiring of core/application.cpp: the     *)
(* user's own status, from preference, idle timer, session and link, and   *)
(* the packets that tell friends and partners of open conversations.       *)
(* Slots run inside the emit, in the order of the emits: that order is     *)
(* what the module is about.  Names and texts are left out.                *)
(***************************************************************************)
CONSTANT Peers

VARIABLES
  preference,    \* m_userStatusPreference
  autoIdle,      \* m_isAutoIdle
  idleTimer,     \* m_idleTimer->isActive()
  token,         \* m_sessionToken is not empty
  link,          \* isConnected()
  befriended,    \* friends()
  open,          \* partners of open conversations
  invisible,     \* MessageService::m_isInvisible
  announced      \* history: the last status packet sent to each peer this session

statusVars == <<preference, autoIdle, idleTimer, token, link, befriended, open, invisible,
                announced>>

Preferences == {"online", "afk", "dnd", "offline"}

TypeOK ==
  /\ preference \in Preferences
  /\ autoIdle \in BOOLEAN /\ idleTimer \in BOOLEAN
  /\ token \in BOOLEAN /\ link \in BOOLEAN /\ invisible \in BOOLEAN
  /\ befriended \subseteq Peers /\ open \subseteq Peers
  /\ announced \in [Peers -> Preferences \union {"nothing"}]

Init ==
  /\ preference = "online" /\ autoIdle = FALSE /\ idleTimer = TRUE
  /\ token = FALSE /\ link = FALSE
  /\ befriended \in SUBSET Peers /\ open \in SUBSET Peers
  /\ invisible = FALSE
  /\ announced = [p \in Peers |-> "nothing"]

(* effectiveStatus()                                                       *)
Effective(pref, idle, linked, tok) ==
  IF ~linked \/ ~tok THEN "offline"
  ELSE IF pref = "online" /\ idle THEN "afk"
  ELSE pref

(* While the link is up, every friend has been told, and told what the     *)
(* user's own screen shows, whatever changed last: the preference, idling, *)
(* the link, or the list of friends.  A friend who was told "offline" is   *)
(* excepted: see the finding on leaving invisibility.                      *)
FriendsSeeCurrentStatus ==
  \A p \in befriended : link /\ announced[p] # "offline" =>
    announced[p] = Effective(preference, autoIdle, link, token)

(* An online user is idle already or is being watched: no order of logins, *)
(* status changes, time-outs and activity loses the timer, after which the *)
(* user would be shown online for ever.                                    *)
IdleIsWatched == preference = "online" => idleTimer \/ autoIdle

-----------------------------------------------------------------------------
(* broadcastPresence, and sendPresenceStatus to each target.               *)
Told(targets, status) ==
  [p \in Peers |-> IF p \in targets /\ (invisible => status = "offline") THEN status
                   ELSE announced[p]]

(* Mutant: only open conversations are told.                               *)
TellPartners(friendSet, pref, idle, linked, tok) ==
  announced' = IF linked THEN Told(open, Effective(pref, idle, linked, tok)) ELSE announced

Tell(friendSet, pref, idle, linked, tok) ==
  announced' = IF linked THEN Told(friendSet \union open, Effective(pref, idle, linked, tok))
               ELSE announced

(* The status is told before isInvisibleChanged reaches the messages.      *)
SetUserStatus(pref) ==
  /\ pref # preference
  /\ preference' = pref
  /\ autoIdle' = FALSE
  /\ Tell(befriended, pref, FALSE, link, token)
  /\ invisible' = (pref = "offline")
  /\ idleTimer' = (pref = "online")
  /\ UNCHANGED <<token, link, befriended, open>>

(* Mutant: the timer is started only when the user was idle.               *)
ReportActivityOnce ==
  /\ preference = "online"
  /\ idleTimer' = autoIdle
  /\ autoIdle' = FALSE
  /\ IF autoIdle THEN Tell(befriended, preference, FALSE, link, token) ELSE UNCHANGED announced
  /\ UNCHANGED <<preference, token, link, befriended, open, invisible>>

ReportActivity ==
  /\ preference = "online"
  /\ idleTimer' = TRUE
  /\ autoIdle' = FALSE
  /\ IF autoIdle THEN Tell(befriended, preference, FALSE, link, token) ELSE UNCHANGED announced
  /\ UNCHANGED <<preference, token, link, befriended, open, invisible>>

IdleTimeout ==
  /\ idleTimer
  /\ idleTimer' = FALSE
  /\ IF preference = "online" /\ ~autoIdle
     THEN autoIdle' = TRUE /\ Tell(befriended, preference, TRUE, link, token)
     ELSE UNCHANGED <<autoIdle, announced>>
  /\ UNCHANGED <<preference, token, link, befriended, open, invisible>>

SetIdleTimeout ==
  /\ idleTimer' = (idleTimer \/ (preference = "online" /\ ~autoIdle))
  /\ UNCHANGED <<preference, autoIdle, token, link, befriended, open, invisible, announced>>

-----------------------------------------------------------------------------
(* A login loads the lists of the account; the link is still down.         *)
Login ==
  /\ ~token
  /\ token' = TRUE
  /\ befriended' \in SUBSET Peers /\ open' \in SUBSET Peers
  /\ announced' = [p \in Peers |-> "nothing"]
  /\ UNCHANGED <<preference, autoIdle, idleTimer, link, invisible>>

(* serverConnected, by which the relay link is already up.                 *)
ServerConnected ==
  /\ token /\ ~link
  /\ link' = TRUE
  /\ Tell(befriended, preference, autoIdle, TRUE, token)
  /\ UNCHANGED <<preference, autoIdle, idleTimer, token, befriended, open, invisible>>

ServerDisconnected ==
  /\ link
  /\ link' = FALSE
  /\ UNCHANGED <<preference, autoIdle, idleTimer, token, befriended, open, invisible, announced>>

(* logoutUser(): the click on it reported activity just before.            *)
Logout ==
  /\ token
  /\ token' = FALSE /\ link' = FALSE
  /\ autoIdle' = FALSE
  /\ idleTimer' = (idleTimer \/ preference = "online")
  /\ befriended' \in SUBSET Peers /\ open' = {}
  /\ UNCHANGED <<preference, invisible, announced>>

SessionUnauthorized ==
  /\ token
  /\ token' = FALSE /\ link' = FALSE
  /\ open' = {}
  /\ UNCHANGED <<preference, autoIdle, idleTimer, befriended, invisible, announced>>

(* friendsChanged: the list, or the server's answer to it.                 *)
FriendsChanged ==
  /\ befriended' \in SUBSET Peers
  /\ Tell(befriended', preference, autoIdle, link, token)
  /\ UNCHANGED <<preference, autoIdle, idleTimer, token, link, open, invisible>>

(* displayNameChanged tells all, openConversationsChanged nobody.          *)
DisplayNameChanged ==
  /\ Tell(befriended, preference, autoIdle, link, token)
  /\ UNCHANGED <<preference, autoIdle, idleTimer, token, link, befriended, open, invisible>>

OpenConversationsChanged ==
  /\ open' \in SUBSET Peers
  /\ UNCHANGED <<preference, autoIdle, idleTimer, token, link, befriended, invisible, announced>>

Next ==
  \/ \E pref \in Preferences : SetUserStatus(pref)
  \/ ReportActivity \/ IdleTimeout \/ SetIdleTimeout
  \/ Login \/ ServerConnected \/ ServerDisconnected \/ Logout \/ SessionUnauthorized
  \/ FriendsChanged \/ DisplayNameChanged \/ OpenConversationsChanged

Spec == Init /\ [][Next]_statusVars
================================================================================
