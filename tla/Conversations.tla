----------------------------- MODULE Conversations -----------------------------
(***************************************************************************)
(* core/networkmanager.cpp: the list of open conversations, kept in memory *)
(* and in the settings of the user they belong to, through logins,         *)
(* logouts, the end of the session and restarts, and through the answers   *)
(* to GET users/me, which set the stored name whenever they arrive and do  *)
(* not load its list.  The list is a function here: by                     *)
(* sortOpenConversations() its order follows from its contents.            *)
(***************************************************************************)
EXTENDS Naturals

CONSTANTS
  Users,     \* accounts, and partners: users write to each other
  NoName,    \* storage key while no user name is stored
  MaxTime,   \* bound: times of activity, and counts of unread messages
  MaxAsked   \* bound: profile requests of an account under way

ASSUME ConversationsAssumption ==
  /\ MaxTime \in Nat \ {0} /\ MaxAsked \in Nat
  /\ NoName \notin Users /\ "cleared" \notin Users \union {NoName}

VARIABLES
  named,      \* m_storage->username()
  signedIn,   \* m_sessionToken is not empty
  shownList,  \* m_openConversations: partner -> last activity and unread count
  savedLists, \* the settings' openConversations of each user
  asked,      \* GET users/me under way, of each account
  shownFor,   \* history: the user the list was last loaded or cleared for
  strayed,    \* history: since then a change was saved under another name
  clock       \* QDateTime::currentMSecsSinceEpoch()

holder == <<named, signedIn, asked, shownFor>>
conversationVars == <<holder, shownList, savedLists, strayed, clock>>

Keys   == Users \union {NoName}
Entry  == [activity : 1 .. MaxTime, unread : 0 .. MaxTime]
NoneOpen == [n \in {} |-> {}]

ConversationsTypeOK ==
  /\ named \in Keys /\ shownFor \in Keys \union {"cleared"}
  /\ signedIn \in BOOLEAN /\ strayed \in BOOLEAN
  /\ asked \in [Users -> 0 .. MaxAsked]
  /\ DOMAIN shownList \subseteq Users /\ \A n \in DOMAIN shownList : shownList[n] \in Entry
  /\ DOMAIN savedLists = Keys
  /\ \A k \in Keys : /\ DOMAIN savedLists[k] \subseteq Users
                     /\ \A n \in DOMAIN savedLists[k] : savedLists[k][n] \in Entry
  /\ clock \in 1 .. MaxTime

ConversationsInit ==
  /\ named = NoName /\ shownFor = NoName
  /\ signedIn = FALSE /\ strayed = FALSE
  /\ asked = [u \in Users |-> 0]
  /\ shownList = NoneOpen
  /\ savedLists = [k \in Keys |-> NoneOpen]
  /\ clock = 1

(* The list on the screen is the one in the settings of the user it was    *)
(* loaded for, unread counts included, and the user has no conversation    *)
(* with himself: a restart loses no unread message, a change of user never *)
(* mixes two lists.  While a late profile names another user it is his     *)
(* list that changes are saved to; after such a change the two lists       *)
(* differ until one is loaded again.                                       *)
ConversationsSaved ==
  shownFor \in Keys /\ ~strayed =>
    shownList = savedLists[shownFor] /\ shownFor \notin DOMAIN shownList

-----------------------------------------------------------------------------
Drop(list, n) == [m \in DOMAIN list \ {n} |-> list[m]]

With(list, n, entry) == [m \in DOMAIN list \union {n} |-> IF m = n THEN entry ELSE list[m]]

(* Mutant: an unread count is only shown.                                  *)
KeepOnly(list) ==
  /\ shownList' = list
  /\ strayed' = (strayed \/ named # shownFor)
  /\ UNCHANGED <<savedLists, holder, clock>>

(* Every change ends with setOpenConversations().                          *)
Keep(list) ==
  /\ shownList' = list
  /\ savedLists' = [savedLists EXCEPT ![named] = list]
  /\ strayed' = (strayed \/ named # shownFor)
  /\ UNCHANGED <<holder, clock>>

(* The list of u is read, without u himself, and saved.                    *)
Load(u) ==
  /\ named' = u /\ shownFor' = u /\ strayed' = FALSE
  /\ shownList' = Drop(savedLists[u], u)
  /\ savedLists' = [savedLists EXCEPT ![u] = Drop(savedLists[u], u)]

Unread(n) == IF n \in DOMAIN shownList THEN shownList[n].unread ELSE 0

-----------------------------------------------------------------------------
(* openDirectConversation(), by the user or by an incoming message, whose  *)
(* time is the sender's.                                                   *)
OpenDirectConversation(n) ==
  /\ n # named
  /\ \E time \in 1 .. clock : Keep(With(shownList, n, [activity |-> time, unread |-> Unread(n)]))

CloseDirectConversation(n) ==
  /\ n \in DOMAIN shownList
  /\ Keep(Drop(shownList, n))

MarkConversationAsRead(n) ==
  /\ n # named
  /\ Unread(n) > 0
  /\ Keep(With(shownList, n, [shownList[n] EXCEPT !.unread = 0]))

IncrementUnreadCount(n) ==
  /\ n # named
  /\ Unread(n) < MaxTime
  /\ Keep(With(shownList, n, [activity |-> clock, unread |-> Unread(n) + 1]))

(* loginResult: the name is stored, its list is loaded and the profile     *)
(* asked for.                                                              *)
ConversationsLogin(u) ==
  /\ asked[u] < MaxAsked
  /\ asked' = [asked EXCEPT ![u] = @ + 1]
  /\ signedIn' = TRUE
  /\ Load(u)
  /\ UNCHANGED clock

(* fetchUserProfile(): the answer names the user who asked, whoever is     *)
(* signed in when it arrives.                                              *)
NameAnswered(u) ==
  /\ asked[u] > 0
  /\ asked' = [asked EXCEPT ![u] = @ - 1]
  /\ named' = u
  /\ UNCHANGED <<signedIn, shownList, savedLists, shownFor, strayed, clock>>

NameFailed(u) ==
  /\ asked[u] > 0
  /\ asked' = [asked EXCEPT ![u] = @ - 1]
  /\ UNCHANGED <<named, signedIn, shownList, savedLists, shownFor, strayed, clock>>

(* logoutUser() and sessionUnauthorized: cleared, and not loaded again.    *)
EndSession ==
  /\ signedIn
  /\ signedIn' = FALSE
  /\ named' = NoName
  /\ shownList' = NoneOpen
  /\ shownFor' = "cleared"
  /\ strayed' = FALSE
  /\ UNCHANGED <<savedLists, asked, clock>>

(* The constructor loads for the name that is still stored.                *)
Restart ==
  /\ signedIn' = FALSE
  /\ asked' = [u \in Users |-> 0]
  /\ Load(named)
  /\ UNCHANGED clock

TimePasses ==
  /\ clock < MaxTime
  /\ clock' = clock + 1
  /\ UNCHANGED <<holder, shownList, savedLists, strayed>>

ConversationsNext ==
  \/ \E n \in Users :
       \/ OpenDirectConversation(n) \/ CloseDirectConversation(n)
       \/ MarkConversationAsRead(n) \/ IncrementUnreadCount(n)
       \/ ConversationsLogin(n) \/ NameAnswered(n) \/ NameFailed(n)
  \/ EndSession \/ Restart \/ TimePasses

ConversationsSpec == ConversationsInit /\ [][ConversationsNext]_conversationVars
================================================================================
