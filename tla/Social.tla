--------------------------------- MODULE Social ---------------------------------
(***************************************************************************)
(* core/application.cpp: friend service and notification centre, wired.    *)
(* The handlers run inside the emit, so each step of the friend service    *)
(* takes the step of the notification centre its signal asks for.          *)
(***************************************************************************)
EXTENDS FriendService, NotificationManager

ASSUME SocialAssumption == Names \subseteq Senders

VARIABLE
  answered   \* history: names answered since they last asked on this screen

socialVars == <<friendVars, notificationVars, answered>>

SocialTypeOK == FriendTypeOK /\ NotificationTypeOK /\ answered \subseteq Names

SocialInit == FriendInit /\ NotificationInit /\ answered = {}

(* Once the user has accepted or rejected a request, from the list, from a *)
(* toast or by adding the name, no notification of that request is left to *)
(* be answered a second time, however often the peer had asked and however *)
(* many sessions lie between.                                              *)
NoAnsweredRequest ==
  \A n \in active : n.type = "friend_request" => n.channel \notin answered

-----------------------------------------------------------------------------
Kept == UNCHANGED <<active, unread, shown>>

(* Mutant: a rejection is not wired to the notification centre.            *)
OnAcceptOnly(s) ==
  CASE s.kind = "requestReceived" -> ShowNotification("friend_request", s.name)
    [] s.kind = "accepted"        -> ShowNotification("friend_accept", s.name)
    [] s.kind = "rejected"        -> ShowNotification("friend_reject", s.name)
    [] s.kind = "acceptResult"    -> DismissBySender(s.name, "friend_request") /\ UNCHANGED shown
    [] OTHER                      -> Kept

OnSignal(s) ==
  CASE s.kind = "requestReceived" -> ShowNotification("friend_request", s.name)
    [] s.kind = "accepted"        -> ShowNotification("friend_accept", s.name)
    [] s.kind = "rejected"        -> ShowNotification("friend_reject", s.name)
    [] s.kind \in {"acceptResult", "rejectResult"} ->
         DismissBySender(s.name, "friend_request") /\ UNCHANGED shown
    [] OTHER                      -> Kept

Asked    == IF signal'.kind = "requestReceived" THEN {signal'.name} ELSE {}
Answered == IF signal'.kind \in {"acceptResult", "rejectResult"} THEN {signal'.name} ELSE {}

FriendStep ==
  /\ FriendNext
  /\ OnSignal(signal')
  /\ answered' = (answered \ Asked) \union Answered
  /\ UNCHANGED <<enabled, arriving>>

NotificationStep ==
  /\ DismissNotification \/ ClearAll \/ SetNotificationsEnabled
  /\ signal' = NoSignal
  /\ UNCHANGED <<who, lists, server, calls, spent, answered>>

SocialNext == FriendStep \/ NotificationStep

SocialSpec == SocialInit /\ [][SocialNext]_socialVars
================================================================================
