-------------------------------- MODULE Presence --------------------------------
(***************************************************************************)
(* services/friendservice.cpp: the presence of friends.  A heartbeat asks  *)
(* the server about every friend and knows only yes or no; peers report    *)
(* what they are by packets; any other message of a peer counts as a sign  *)
(* of life.  The three race.  Calls carry no time limit: each stays under  *)
(* way until the server or the network ends it.  The list of friends is    *)
(* fixed here; how it changes is in FriendService.                         *)
(***************************************************************************)
EXTENDS Naturals

CONSTANTS
  Friends,     \* m_cachedFriends
  Queries,     \* bound: GETs under way at once for one friend
  MaxChanges,  \* bound: peers coming and going, packets, starts and stops
  MaxFailures  \* bound: GETs that fail

ASSUME PresenceAssumption == MaxChanges \in Nat /\ MaxFailures \in Nat

VARIABLES
  statuses,  \* m_peerStatuses; "unknown" where it has no entry
  heartbeat, \* m_heartbeatTimer->isActive()
  queries,   \* GET presence calls under way
  reachable, \* external: what the server knows of each friend
  reported,  \* history: the last status a friend reported, since its entry began
  changes,   \* how much of MaxChanges has been used
  failures   \* how much of MaxFailures has been used

presenceVars == <<statuses, heartbeat, queries, reachable, reported, changes, failures>>

Reports == {"online", "afk", "dnd", "offline"}

PresenceTypeOK ==
  /\ statuses \in [Friends -> Reports \union {"unknown"}]
  /\ heartbeat \in BOOLEAN
  /\ queries \in [Friends -> [Queries -> {"none", "sent", "yes", "no"}]]
  /\ reachable \in [Friends -> BOOLEAN]
  /\ reported \in [Friends -> Reports \union {"unknown"}]
  /\ changes \in 0 .. MaxChanges /\ failures \in 0 .. MaxFailures

PresenceInit ==
  /\ statuses = [f \in Friends |-> "unknown"]
  /\ heartbeat = FALSE
  /\ queries = [f \in Friends |-> [q \in Queries |-> "none"]]
  /\ reachable \in [Friends -> BOOLEAN]
  /\ reported = [f \in Friends |-> "unknown"]
  /\ changes = 0 /\ failures = 0

(* A friend who reported being away or not to be disturbed is shown so, or *)
(* as not there: neither the heartbeat's yes nor a chat message of that    *)
(* friend, in whatever order they arrive, turns it into online.            *)
ReportedStatusKept ==
  \A f \in Friends : reported[f] \in {"afk", "dnd"} => statuses[f] # "online"

-----------------------------------------------------------------------------
Absent(f) == statuses[f] \in {"unknown", "offline"}

SetStatus(f, status) == statuses' = [statuses EXCEPT ![f] = status]

(* An entry that ends takes with it what was reported.                     *)
Forget(f) == reported' = [reported EXCEPT ![f] = "unknown"]

(* Mutant: a sign of life is taken for a report.                           *)
SignOfLifeReports(f) == SetStatus(f, "online") /\ UNCHANGED reported

(* Mutant: only a friend without an entry is taken for present.            *)
FirstSignOfLife(f) ==
  /\ IF statuses[f] = "unknown" THEN SetStatus(f, "online") ELSE UNCHANGED statuses
  /\ UNCHANGED reported

(* A yes, or a message, says only that the friend is not offline.          *)
SignOfLife(f) ==
  /\ IF Absent(f) THEN SetStatus(f, "online") ELSE UNCHANGED statuses
  /\ UNCHANGED reported

Gone(f) == SetStatus(f, "offline") /\ Forget(f)

Asked == [f \in Friends |->
  IF \E q \in Queries : queries[f][q] = "none"
  THEN [queries[f] EXCEPT ![CHOOSE q \in Queries : queries[f][q] = "none"] = "sent"]
  ELSE queries[f]]

Changed == changes < MaxChanges /\ changes' = changes + 1

-----------------------------------------------------------------------------
StartHeartbeat ==
  /\ Changed
  /\ heartbeat' = TRUE
  /\ queries' = Asked
  /\ UNCHANGED <<statuses, reachable, reported, failures>>

StopHeartbeat ==
  /\ heartbeat
  /\ Changed
  /\ heartbeat' = FALSE
  /\ statuses' = [f \in Friends |-> "unknown"]
  /\ reported' = [f \in Friends |-> "unknown"]
  /\ UNCHANGED <<queries, reachable, failures>>

(* checkFriendsStatus(), every 6 s.                                        *)
Tick ==
  /\ heartbeat
  /\ queries' = Asked
  /\ UNCHANGED <<statuses, heartbeat, reachable, reported, changes, failures>>

(* loadFriends() asks when the list has come, heartbeat or not.            *)
FriendsLoaded ==
  /\ Changed
  /\ queries' = Asked
  /\ UNCHANGED <<statuses, heartbeat, reachable, reported, failures>>

Serve(f, q) ==
  /\ queries[f][q] = "sent"
  /\ \/ /\ queries' = [queries EXCEPT ![f][q] = IF reachable[f] THEN "yes" ELSE "no"]
        /\ UNCHANGED failures
     \/ /\ failures < MaxFailures
        /\ failures' = failures + 1
        /\ queries' = [queries EXCEPT ![f][q] = "no"]
  /\ UNCHANGED <<statuses, heartbeat, reachable, reported, changes>>

(* checkFriendsStatus() callback: a failed query counts as offline.        *)
Answer(f, q) ==
  /\ queries[f][q] \in {"yes", "no"}
  /\ IF queries[f][q] = "yes" THEN SignOfLife(f) ELSE Gone(f)
  /\ queries' = [queries EXCEPT ![f][q] = "none"]
  /\ UNCHANGED <<heartbeat, reachable, changes, failures>>

(* setPeerStatus(), from a presence packet.                                *)
PresencePacket(f) ==
  /\ Changed
  /\ \E status \in Reports :
       SetStatus(f, status) /\ reported' = [reported EXCEPT ![f] = status]
  /\ UNCHANGED <<heartbeat, queries, reachable, failures>>

(* updateLastSeen(), from any other message.                               *)
MessageFrom(f) ==
  /\ Changed
  /\ SignOfLife(f)
  /\ UNCHANGED <<heartbeat, queries, reachable, failures>>

ComesOrGoes(f) ==
  /\ Changed
  /\ reachable' = [reachable EXCEPT ![f] = ~@]
  /\ UNCHANGED <<statuses, heartbeat, queries, reported, failures>>

PresenceNext ==
  \/ StartHeartbeat \/ StopHeartbeat \/ Tick \/ FriendsLoaded
  \/ \E f \in Friends :
       \/ PresencePacket(f) \/ MessageFrom(f) \/ ComesOrGoes(f)
       \/ \E q \in Queries : Serve(f, q) \/ Answer(f, q)

(* The timer fires while it runs, and each call ends at some time.         *)
PresenceFairness ==
  /\ WF_presenceVars(Tick)
  /\ \A f \in Friends, q \in Queries :
       WF_presenceVars(Serve(f, q)) /\ WF_presenceVars(Answer(f, q))

PresenceSpec == PresenceInit /\ [][PresenceNext]_presenceVars /\ PresenceFairness

(* While the heartbeat runs, the screen follows the server: after comings  *)
(* and goings, late answers, failed queries and packets in any order, a    *)
(* friend who stays is shown as present, and one who stays away as absent. *)
PresenceConverges ==
  \A f \in Friends :
    /\ <>[](heartbeat /\ reachable[f])  => <>[](~Absent(f))
    /\ <>[](heartbeat /\ ~reachable[f]) => <>[]Absent(f)
================================================================================
