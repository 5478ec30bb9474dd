-------------------------- MODULE NotificationManager --------------------------
(***************************************************************************)
(* core/notificationmanager.cpp: the notification centre.  The list is a   *)
(* set here, since ids grow: the newest notification has the largest id.   *)
(* Message signals are queued and turned into notifications by a later     *)
(* turn of the event loop.  Toasts, sounds, texts and window set-up are    *)
(* left out; a conversation is named by its peer, as the titles are.       *)
(***************************************************************************)
EXTENDS Naturals, FiniteSets, Sequences

CONSTANTS
  Senders,   \* names of conversations and senders
  MaxActive, \* 30: how many notifications the list keeps
  MaxShown,  \* bound: how many notifications are created
  MaxQueued  \* bound: how many message signals wait

ASSUME NotificationAssumption ==
  MaxActive \in Nat \ {0} /\ MaxShown \in Nat /\ MaxQueued \in Nat

VARIABLES
  active,   \* m_activeNotifications
  unread,   \* m_unreadCount
  enabled,  \* m_notificationsEnabled
  arriving, \* queued calls of the messageAdded handler
  shown     \* the last id handed out

notificationVars == <<active, unread, enabled, arriving, shown>>

Types == {"message", "media_request", "friend_request", "friend_accept", "friend_reject"}

NotificationTypeOK ==
  /\ active \subseteq [id : 1 .. MaxShown, type : Types, channel : Senders]
  /\ Cardinality(active) <= MaxActive
  /\ unread \in Nat
  /\ enabled \in BOOLEAN
  /\ arriving \in Seq([type : Types, channel : Senders, fromMe : BOOLEAN])
  /\ shown \in 0 .. MaxShown

NotificationInit ==
  /\ active = {}
  /\ unread = 0
  /\ enabled \in BOOLEAN
  /\ arriving = <<>>
  /\ shown = 0

(* The unread counter never runs ahead of the list, except when the list   *)
(* is full and older entries were cut: after any sequence of arrivals,     *)
(* dismissals, answers and clears, a badge still has an entry to show.     *)
UnreadBounded == unread <= Cardinality(active) \/ Cardinality(active) = MaxActive

-----------------------------------------------------------------------------
Oldest(list) == {n \in list : \A m \in list : n.id <= m.id}

(* Mutant: the list is cut before the new entry is put in front.           *)
CutFirst(n) ==
  IF Cardinality(active) > MaxActive THEN (active \ Oldest(active)) \union {n}
  ELSE active \union {n}

(* prepend, then removeLast while there are more than MaxActive.           *)
Prepend(n) ==
  IF Cardinality(active \union {n}) > MaxActive
  THEN (active \union {n}) \ Oldest(active \union {n})
  ELSE active \union {n}

ShowNotification(type, channel) ==
  \/ ~enabled /\ UNCHANGED <<active, unread, shown>>
  \/ /\ enabled
     /\ shown < MaxShown
     /\ shown' = shown + 1
     /\ active' = Prepend([id |-> shown + 1, type |-> type, channel |-> channel])
     /\ unread' = unread + 1

(* Mutant: entries are removed and the counter is forgotten.               *)
RemoveOnly(list) == active' = active \ list /\ UNCHANGED unread

(* What dismissNotification, dismissBySender and markChannelAsRead share.  *)
RemoveEntries(list) ==
  /\ active' = active \ list
  /\ unread' = IF unread > Cardinality(active \ list) THEN Cardinality(active \ list)
               ELSE unread

DismissBySender(sender, type) ==
  RemoveEntries({n \in active : n.channel = sender /\ n.type = type})

-----------------------------------------------------------------------------
(* MessageService::messageAdded, delivered later: Qt::QueuedConnection.    *)
MessageArrives(p) ==
  /\ Len(arriving) < MaxQueued
  /\ \E type \in {"message", "media_request"}, mine \in BOOLEAN :
       arriving' = Append(arriving, [type |-> type, channel |-> p, fromMe |-> mine])
  /\ UNCHANGED <<active, unread, enabled, shown>>

HandleMessageAdded ==
  /\ arriving # <<>>
  /\ IF Head(arriving).fromMe THEN UNCHANGED <<active, unread, shown>>
     ELSE ShowNotification(Head(arriving).type, Head(arriving).channel)
  /\ arriving' = Tail(arriving)
  /\ UNCHANGED enabled

DismissNotification ==
  /\ \E n \in active : RemoveEntries({n})
  /\ UNCHANGED <<enabled, arriving, shown>>

MarkChannelAsRead(p) ==
  /\ RemoveEntries({n \in active : n.channel = p})
  /\ UNCHANGED <<enabled, arriving, shown>>

ResetUnreadCount ==
  /\ unread' = 0
  /\ UNCHANGED <<active, enabled, arriving, shown>>

ClearAll ==
  /\ active' = {}
  /\ unread' = 0
  /\ UNCHANGED <<enabled, arriving, shown>>

SetNotificationsEnabled ==
  /\ enabled' = ~enabled
  /\ UNCHANGED <<active, unread, arriving, shown>>

(* What the user, the conversations and the event loop do.                 *)
Act ==
  \/ \E p \in Senders : MessageArrives(p) \/ MarkChannelAsRead(p)
  \/ HandleMessageAdded
  \/ DismissNotification
  \/ ResetUnreadCount
  \/ ClearAll
  \/ SetNotificationsEnabled

(* What the wiring of the friend service does with it.                     *)
Wired ==
  /\ \E p \in Senders, type \in Types :
       \/ ShowNotification(type, p)
       \/ DismissBySender(p, type) /\ UNCHANGED shown
  /\ UNCHANGED <<enabled, arriving>>

NotificationNext == Act \/ Wired

NotificationSpec == NotificationInit /\ [][NotificationNext]_notificationVars
================================================================================
