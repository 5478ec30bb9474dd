-------------------------------- MODULE MCDesktop --------------------------------
(***************************************************************************)
(* The parts of the desktop that share no variable: the user's own status, *)
(* friends with every call under way, friends wired to the notification    *)
(* centre, the notification centre under all its callers, the rows of a    *)
(* conversation, settings, audio.  Each behaviour is one of one part, the  *)
(* others staying where they start: the states are the sum of the parts'   *)
(* and no interleaving is lost but of steps that neither read nor write    *)
(* what the other does.                                                    *)
(***************************************************************************)
EXTENDS UserStatus, Social, ChatMessageModel, SettingsRepository, AudioManager

CONSTANTS a, b, p

VARIABLE part

(* Conversation a has messages 1, 2 and 3, of which only 1 and 3 are not   *)
(* of one block; a page is one message and the window two.                 *)
MCMessagesOf == [c \in {a, b} |-> IF c = a THEN 1 .. 3 ELSE {4}]
MCJoined     == {<<1, 2>>, <<2, 3>>}

Parts == {"status", "friends", "social", "notifications", "chat", "settings", "audio"}

(* A part that does not run starts in one of its initial states.           *)
MCInit ==
  /\ part \in Parts
  /\ Init /\ (part # "status" => befriended = {} /\ open = {})
  /\ SocialInit
  /\ part # "friends" => \A n \in Accounts : server[n] = {}
  /\ part \notin {"social", "notifications"} => enabled
  /\ ChatInit /\ (part # "chat" => history = {})
  /\ SettingsInit /\ (part # "settings" => profile = p)
  /\ AudioInit /\ (part # "audio" => volume = 0 /\ ~muted)

(* Bounds: without the notification centre one profile of an account is    *)
(* asked for at once, and one packet comes; with it no profile is answered,*)
(* as one that is in time changes nothing, and one call is under way.      *)
OneProfile == \A n \in Accounts : asked'[n] <= 1
OnePacket  == spent'.packets <= 1
Unanswered == \A n \in Accounts : asked'[n] >= asked[n]
OneCall    == \A s \in Slots \ {1} : calls'[s] = NoCall

MCNext ==
  \/ /\ part = "status" /\ Next
     /\ UNCHANGED <<part, socialVars, chatVars, settingsVars, audioVars>>
  \/ /\ part = "friends" /\ FriendNext /\ OneProfile /\ OnePacket
     /\ UNCHANGED <<part, statusVars, notificationVars, answered, chatVars, settingsVars,
                    audioVars>>
  \/ /\ part = "social" /\ SocialNext /\ Unanswered /\ OneCall
     /\ UNCHANGED <<part, statusVars, chatVars, settingsVars, audioVars>>
  \/ /\ part = "notifications" /\ NotificationNext
     /\ UNCHANGED <<part, statusVars, friendVars, answered, chatVars, settingsVars, audioVars>>
  \/ /\ part = "chat" /\ ChatNext
     /\ UNCHANGED <<part, statusVars, socialVars, settingsVars, audioVars>>
  \/ /\ part = "settings" /\ SettingsNext
     /\ UNCHANGED <<part, statusVars, socialVars, chatVars, audioVars>>
  \/ /\ part = "audio" /\ AudioNext
     /\ UNCHANGED <<part, statusVars, socialVars, chatVars, settingsVars>>

MCSpec ==
  MCInit /\ [][MCNext]_<<part, statusVars, socialVars, chatVars, settingsVars, audioVars>>

(* The type invariant of the part that runs.                               *)
PartTypeOK ==
  CASE part = "status"        -> TypeOK
    [] part = "friends"       -> FriendTypeOK
    [] part = "social"        -> SocialTypeOK
    [] part = "notifications" -> NotificationTypeOK
    [] part = "chat"          -> ChatTypeOK
    [] part = "settings"      -> SettingsTypeOK
    [] part = "audio"         -> AudioTypeOK
================================================================================
