------------------------------ MODULE SettingsStore ------------------------------
(***************************************************************************)
(* What storage/isettingsrepository.h promises its callers: a setting read *)
(* is the setting last written for the same profile and, where the setting *)
(* belongs to a user, the same user, also after a restart of the program.  *)
(***************************************************************************)
CONSTANTS
  Profiles,
  Users,
  Values,
  Empty,        \* the empty string: what was never written
  SessionKinds, \* deviceId, publicKey
  DisplayKinds, \* displayName, avatarUrl
  ListKinds     \* friends, pendingRequests, openConversations, peers' names, ...

Kinds == SessionKinds \union DisplayKinds \union ListKinds
Keys  == Users \union {Empty}
Texts == Values \union {Empty}

VARIABLES
  profile,
  disk,   \* of each profile: the token, the user, and the settings of each user
  answer  \* what the last call returned

storeVars == <<profile, disk, answer>>

Nothing == [kind |-> "none", value |-> Empty]

Init ==
  /\ profile \in Profiles
  /\ disk = [p \in Profiles |-> [token |-> Empty, user |-> Empty,
                                 of |-> [u \in Keys |-> [k \in Kinds |-> Empty]]]]
  /\ answer = Nothing

Reads(kind, value) == answer' = [kind |-> kind, value |-> value]

Read ==
  /\ \/ Reads("token", disk[profile].token)
     \/ Reads("user", disk[profile].user)
     \/ \E k \in Kinds : Reads(k, disk[profile].of[disk[profile].user][k])
  /\ UNCHANGED <<profile, disk>>

Write ==
  /\ \/ \E t \in Texts : disk' = [disk EXCEPT ![profile].token = t]
     \/ \E u \in Users : disk' = [disk EXCEPT ![profile].user = u]
     \/ \E k \in Kinds, v \in Texts :
          disk' = [disk EXCEPT ![profile].of[disk[profile].user][k] = v]
  /\ answer' = Nothing
  /\ UNCHANGED profile

ClearSession ==
  /\ disk' = [disk EXCEPT ![profile].token = Empty, ![profile].user = Empty]
  /\ answer' = Nothing
  /\ UNCHANGED profile

SetProfile ==
  /\ profile' \in Profiles
  /\ answer' = Nothing
  /\ UNCHANGED disk

Next == Read \/ Write \/ ClearSession \/ SetProfile

Spec == Init /\ [][Next]_storeVars
================================================================================
