------------------------------ MODULE NetworkProofs ------------------------------
(***************************************************************************)
(* Machine-checked proofs about WebSocketClient, for any number of calls,  *)
(* faults and reconnections, and about Presence, for any set of friends    *)
(* and any number of calls under way.                                      *)
(***************************************************************************)
EXTENDS WebSocketClient, Presence, TLAPS

(* How the client's state and Qt's socket go together: the part of the     *)
(* inductive invariant that no property states by itself.                  *)
StateFitsSocket ==
  /\ state = "Disconnected" => socket = "Unconnected"
  /\ state = "Connecting" => socket \in {"Connecting", "Unconnected"}
  /\ state \in {"Handshaking", "Connected"} => Established
  /\ state = "Closing" => socket = "Closing" /\ ~should
  /\ handshake => state \in {"Connected", "Closing"}
  /\ buffer # 0 => Established

(* The inductive invariant.                                                *)
LinkInv ==
  /\ TypeOK
  /\ StateFitsSocket
  /\ OnlineIsConnected
  /\ FreshStream
  /\ ClosedStaysQuiet
  /\ LostIsScheduled

LEMMA DelayRange == \A n : Delay(n) \in {1, 2, 4, 8, 15}
BY DEF Delay

LEMMA LinkInit == Init => LinkInv
<1> SUFFICES ASSUME Init PROVE LinkInv
  OBVIOUS
<1>1. TypeOK
  BY DEF Init, TypeOK, WebSocketState, SocketState
<1>2. StateFitsSocket
  BY DEF Init, StateFitsSocket
<1>3. OnlineIsConnected
  BY DEF Init, OnlineIsConnected
<1>4. FreshStream /\ ClosedStaysQuiet /\ LostIsScheduled
  BY DEF Init, FreshStream, ClosedStaysQuiet, LostIsScheduled
<1> QED
  BY <1>1, <1>2, <1>3, <1>4 DEF LinkInv

-----------------------------------------------------------------------------
(* The slot both kinds of disconnection run preserves the invariant.       *)
LEMMA LinkDisconnected ==
  ASSUME LinkInv, Established, OnSocketDisconnected,
         UNCHANGED <<should, conn, upgraded, opens>>, faults' \in Nat
  PROVE  LinkInv'
<1> USE DEF LinkInv, OnSocketDisconnected, ResetStream, ScheduleRetry, Established
<1>1. Delay(attempts) \in {1, 2, 4, 8, 15}
  BY DelayRange
<1>2. online' = FALSE
  BY DEF TellOwner, OnlineIsConnected
<1>3. timer' \in {0, 1, 2, 4, 8, 15} /\ attempts' \in Nat /\ losses' \in Nat
  BY <1>1 DEF TypeOK
<1>4. IF should THEN timer' # 0 ELSE timer' = 0
  BY <1>1 DEF ClosedStaysQuiet
<1>5. TypeOK'
  BY <1>2, <1>3 DEF TypeOK, WebSocketState, SocketState
<1>6. StateFitsSocket'
  BY DEF StateFitsSocket, TypeOK
<1>7. OnlineIsConnected'
  BY <1>2 DEF OnlineIsConnected
<1>8. FreshStream'
  BY DEF FreshStream
<1>9. ClosedStaysQuiet' /\ LostIsScheduled'
  BY <1>4 DEF ClosedStaysQuiet, LostIsScheduled
<1> QED
  BY <1>5, <1>6, <1>7, <1>8, <1>9

(* So does close(), from whatever handler it is called.                    *)
LEMMA LinkClosed ==
  ASSUME LinkInv, CloseClient, UNCHANGED <<conn, upgraded, opens>>, faults' \in Nat
  PROVE  LinkInv'
<1> USE DEF LinkInv, CloseClient, CloseSocket, ResetStream, TypeOK, StateFitsSocket,
  OnlineIsConnected, FreshStream, ClosedStaysQuiet, LostIsScheduled,
  WebSocketState, SocketState, Established, stream, bounds
<1>1. CASE state = "Connected"
  BY <1>1
<1>2. CASE state # "Connected" /\ Established
  <2>1. state' = "Disconnected" /\ socket' = "Unconnected" /\ handshake' = FALSE /\ buffer' = 0
    BY <1>2
  <2>2. TypeOK' /\ StateFitsSocket' /\ FreshStream'
    BY <2>1
  <2>3. OnlineIsConnected' /\ ClosedStaysQuiet' /\ LostIsScheduled'
    BY <2>1
  <2> QED
    BY <2>2, <2>3
<1>3. CASE state # "Connected" /\ ~Established
  BY <1>3
<1> QED
  BY <1>1, <1>2, <1>3

(* Opening, by the owner or by the timer.                                  *)
LEMMA LinkConnect ==
  ASSUME TypeOK, Connect, should' = TRUE, online' = FALSE,
         timer' \in {0, 1, 2, 4, 8, 15}, attempts' \in Nat, losses' \in Nat,
         UNCHANGED upgraded, opens' \in Nat, faults' \in Nat
  PROVE  LinkInv'
<1> USE DEF Connect, ResetStream
<1>1. TypeOK'
  <2>1. should' \in BOOLEAN /\ handshake' \in BOOLEAN /\ online' \in BOOLEAN
    OBVIOUS
  <2>2. state' \in WebSocketState /\ socket' \in SocketState
    BY DEF WebSocketState, SocketState
  <2>3. buffer' \in Nat /\ conn' \in Nat /\ upgraded' \in Nat
    BY DEF TypeOK
  <2> QED
    BY <2>1, <2>2, <2>3 DEF TypeOK
<1>2. StateFitsSocket'
  BY DEF StateFitsSocket
<1>3. OnlineIsConnected'
  BY DEF OnlineIsConnected
<1>4. FreshStream' /\ ClosedStaysQuiet' /\ LostIsScheduled'
  BY DEF FreshStream, ClosedStaysQuiet, LostIsScheduled
<1> QED
  BY <1>1, <1>2, <1>3, <1>4 DEF LinkInv

LEMMA LinkOpen == LinkInv /\ Open => LinkInv'
<1> SUFFICES ASSUME LinkInv, Open PROVE LinkInv'
  OBVIOUS
<1>1. Delay(0) = 1
  BY DEF Delay
<1>2. online' = FALSE
  BY DEF LinkInv, Open, OnlineIsConnected, TellOwner, TypeOK
<1>3. timer' \in {0, 1, 2, 4, 8, 15} /\ attempts' \in Nat /\ losses' \in Nat
  BY <1>1 DEF Open
<1>4. opens' \in Nat /\ faults' \in Nat
  BY DEF LinkInv, TypeOK, Open
<1> QED
  BY <1>2, <1>3, <1>4, LinkConnect DEF LinkInv, Open

LEMMA LinkTimer == LinkInv /\ ReconnectTimer => LinkInv'
<1> SUFFICES ASSUME LinkInv, ReconnectTimer PROVE LinkInv'
  OBVIOUS
<1> USE DEF LinkInv, ReconnectTimer, TimerWanted, RestoreAttempts, Connect, ResetStream,
  TypeOK, StateFitsSocket, OnlineIsConnected, FreshStream, ClosedStaysQuiet,
  LostIsScheduled, WebSocketState, SocketState, Established, stream, bounds
<1>1. CASE TimerWanted
  <2>1. Connect /\ should' = TRUE /\ online' = FALSE
    BY <1>1
  <2>2. timer' = 0 /\ attempts' \in Nat /\ losses' \in Nat
    BY <1>1
  <2>3. UNCHANGED upgraded /\ opens' \in Nat /\ faults' \in Nat
    BY <1>1
  <2> QED
    BY <2>1, <2>2, <2>3, LinkConnect
<1>2. CASE ~TimerWanted
  BY <1>2
<1> QED
  BY <1>1, <1>2

LEMMA LinkNetwork == LinkInv /\ Network => LinkInv'
<1> SUFFICES ASSUME LinkInv, Network PROVE LinkInv'
  OBVIOUS
<1> USE DEF Fault
<1>1. CASE SocketConnected
  BY <1>1 DEF SocketConnected, LinkInv, TypeOK, StateFitsSocket, OnlineIsConnected,
    FreshStream, ClosedStaysQuiet, LostIsScheduled, WebSocketState, SocketState, Established, stream, bounds
<1>2. CASE ConnectFailed
  BY <1>2 DEF ConnectFailed, LinkInv, TypeOK, StateFitsSocket, OnlineIsConnected,
    FreshStream, ClosedStaysQuiet, LostIsScheduled, WebSocketState, SocketState, Established, stream, bounds
<1>3. CASE Receive
  BY <1>3 DEF Receive, LinkInv, TypeOK, StateFitsSocket, OnlineIsConnected,
    FreshStream, ClosedStaysQuiet, LostIsScheduled, WebSocketState, SocketState, Established, stream, bounds
<1>4. CASE Upgraded
  BY <1>4 DEF Upgraded, LinkInv, TypeOK, StateFitsSocket, OnlineIsConnected,
    FreshStream, ClosedStaysQuiet, LostIsScheduled, WebSocketState, SocketState, Established, stream, bounds
<1>5. CASE Refused
  BY <1>5 DEF Refused, LinkInv, TypeOK, StateFitsSocket, OnlineIsConnected,
    FreshStream, ClosedStaysQuiet, LostIsScheduled, WebSocketState, SocketState, Established, stream, bounds
<1>6. CASE RefusedForGood
  BY <1>6, LinkClosed DEF RefusedForGood, LinkInv, TypeOK
<1>7. CASE ServerCloses
  BY <1>7 DEF ServerCloses, LinkInv, TypeOK, StateFitsSocket, OnlineIsConnected,
    FreshStream, ClosedStaysQuiet, LostIsScheduled, WebSocketState, SocketState, Established, stream, bounds
<1>8. CASE SocketLost
  BY <1>8, LinkDisconnected DEF SocketLost, LinkInv, TypeOK, Established
<1>9. CASE SocketClosed
  BY <1>9, LinkDisconnected DEF SocketClosed, LinkInv, TypeOK, Established, bounds
<1> QED
  BY <1>1, <1>2, <1>3, <1>4, <1>5, <1>6, <1>7, <1>8, <1>9 DEF Network

LEMMA LinkStep == LinkInv /\ [Next]_vars => LinkInv'
<1> SUFFICES ASSUME LinkInv, [Next]_vars PROVE LinkInv'
  OBVIOUS
<1>1. CASE Open
  BY <1>1, LinkOpen
<1>2. CASE Close
  BY <1>2, LinkClosed DEF Close, LinkInv, TypeOK, bounds
<1>3. CASE Network
  BY <1>3, LinkNetwork
<1>4. CASE ReconnectTimer
  BY <1>4, LinkTimer
<1>5. CASE UNCHANGED vars
  BY <1>5 DEF vars, stream, bounds, LinkInv, TypeOK, StateFitsSocket, OnlineIsConnected,
    FreshStream, ClosedStaysQuiet, LostIsScheduled, Established
<1> QED
  BY <1>1, <1>2, <1>3, <1>4, <1>5 DEF Next

(* LinkInv is an invariant of the client.                                  *)
LEMMA LinkInvariant == Spec => []LinkInv
<1> QED
  BY LinkInit, LinkStep, PTL DEF Spec

(* The flag RelayService keeps agrees with the client's state, whatever    *)
(* order open(), close() and the socket's signals come in.                 *)
THEOREM OnlineCorrect == Spec => []OnlineIsConnected
<1>1. LinkInv => OnlineIsConnected
  BY DEF LinkInv
<1> QED
  BY <1>1, LinkInvariant, PTL

(* No connection is parsed with the handshake or the bytes of another.     *)
THEOREM StreamCorrect == Spec => []FreshStream
<1>1. LinkInv => FreshStream
  BY DEF LinkInv
<1> QED
  BY <1>1, LinkInvariant, PTL

(* After close() nothing reconnects.                                       *)
THEOREM RetryCorrect == Spec => []ClosedStaysQuiet
<1>1. LinkInv => ClosedStaysQuiet
  BY DEF LinkInv
<1> QED
  BY <1>1, LinkInvariant, PTL

(* A wanted connection that is known to be lost has its retry scheduled.   *)
THEOREM LostCorrect == Spec => []LostIsScheduled
<1>1. LinkInv => LostIsScheduled
  BY DEF LinkInv
<1> QED
  BY <1>1, LinkInvariant, PTL

(* Every reachable state is well typed; in particular the delay of a retry *)
(* stays below its cap.                                                    *)
THEOREM TypeCorrect == Spec => []TypeOK
<1>1. LinkInv => TypeOK
  BY DEF LinkInv
<1> QED
  BY <1>1, LinkInvariant, PTL

-----------------------------------------------------------------------------
(* Why the backoff counts losses: open() resets the attempts and           *)
(* onReconnectTimer puts them back, so they equal the losses throughout.   *)
BackoffInv == attempts = losses /\ BackoffCountsLosses

LEMMA BackoffStep == LinkInv /\ BackoffInv /\ [Next]_vars => BackoffInv'
<1> SUFFICES ASSUME LinkInv, BackoffInv, [Next]_vars PROVE BackoffInv'
  OBVIOUS
<1> USE DEF BackoffInv, BackoffCountsLosses
<1>1. losses \in Nat /\ attempts \in Nat
  BY DEF LinkInv, TypeOK
<1>2. ASSUME OnSocketDisconnected PROVE BackoffInv'
  <2>1. CASE should
    <3>1. timer' = Delay(attempts) /\ attempts' = attempts + 1 /\ losses' = losses + 1
      BY <1>2, <2>1 DEF OnSocketDisconnected, ScheduleRetry
    <3>2. losses' - 1 = attempts
      BY <1>1, <3>1
    <3> QED
      BY <3>1, <3>2
  <2>2. CASE ~should
    BY <1>2, <2>2 DEF OnSocketDisconnected, ScheduleRetry, LinkInv, ClosedStaysQuiet
  <2> QED
    BY <2>1, <2>2
<1>3. ASSUME CloseClient PROVE BackoffInv'
  BY <1>3 DEF CloseClient
<1>4. CASE Open
  BY <1>4 DEF Open, Connect
<1>5. CASE Close
  BY <1>5, <1>3 DEF Close
<1>6. CASE ReconnectTimer
  BY <1>6 DEF ReconnectTimer, RestoreAttempts
<1>7. CASE Network
  <2>1. CASE SocketLost \/ SocketClosed
    BY <2>1, <1>2 DEF SocketLost, SocketClosed
  <2>2. CASE RefusedForGood
    BY <2>2, <1>3 DEF RefusedForGood
  <2>3. CASE SocketConnected \/ Upgraded
    BY <2>3 DEF SocketConnected, Upgraded
  <2>4. CASE ConnectFailed \/ Receive \/ Refused \/ ServerCloses
    BY <2>4 DEF ConnectFailed, Receive, Refused, ServerCloses
  <2> QED
    BY <1>7, <2>1, <2>2, <2>3, <2>4 DEF Network
<1>8. CASE UNCHANGED vars
  BY <1>8 DEF vars
<1> QED
  BY <1>4, <1>5, <1>6, <1>7, <1>8 DEF Next

(* The delay of a scheduled retry is the one the number of losses calls    *)
(* for, however often the connection is opened in between.                 *)
THEOREM BackoffCorrect == Spec => []BackoffCountsLosses
<1>1. Init => BackoffInv
  BY DEF Init, BackoffInv, BackoffCountsLosses
<1>2. BackoffInv => BackoffCountsLosses
  BY DEF BackoffInv
<1> QED
  BY <1>1, <1>2, LinkInvariant, BackoffStep, PTL DEF Spec

-----------------------------------------------------------------------------
(* The presence of friends.  A reported status is either shown, or its     *)
(* entry has ended; a sign of life finds the entry there and leaves it.    *)
ReportShown == \A f \in Friends : reported[f] \in {"afk", "dnd"} => statuses[f] = reported[f]

PresenceInv == PresenceTypeOK /\ ReportShown

(* What becomes of the calls under way does not touch the screen.          *)
LEMMA AskedType ==
  ASSUME PresenceTypeOK
  PROVE  Asked \in [Friends -> [Queries -> {"none", "sent", "yes", "no"}]]
BY DEF Asked, PresenceTypeOK

LEMMA ChangedCount ==
  ASSUME PresenceTypeOK, Changed
  PROVE  changes' \in 0 .. MaxChanges
BY PresenceAssumption DEF PresenceTypeOK, Changed

(* A sign of life changes only an entry that says absent, and no such      *)
(* entry stands for a report of being away.                                *)
LEMMA SignOfLifeKeeps ==
  ASSUME PresenceInv, NEW f \in Friends, SignOfLife(f)
  PROVE  /\ statuses' \in [Friends -> Reports \union {"unknown"}]
         /\ reported' = reported
         /\ ReportShown'
<1>1. CASE Absent(f)
  <2>1. statuses' = [statuses EXCEPT ![f] = "online"] /\ reported' = reported
    BY <1>1 DEF SignOfLife, SetStatus
  <2>2. reported[f] \notin {"afk", "dnd"}
    BY <1>1 DEF Absent, PresenceInv, ReportShown
  <2> QED
    BY <2>1, <2>2 DEF PresenceInv, PresenceTypeOK, ReportShown, Reports
<1>2. CASE ~Absent(f)
  BY <1>2 DEF SignOfLife, PresenceInv, PresenceTypeOK, ReportShown
<1> QED
  BY <1>1, <1>2

LEMMA PresenceInvInit == PresenceInit => PresenceInv
<1> SUFFICES ASSUME PresenceInit PROVE PresenceInv
  OBVIOUS
<1>1. changes \in 0 .. MaxChanges /\ failures \in 0 .. MaxFailures
  BY PresenceAssumption DEF PresenceInit
<1>2. ReportShown
  BY DEF PresenceInit, ReportShown
<1> QED
  BY <1>1, <1>2 DEF PresenceInit, PresenceInv, PresenceTypeOK

LEMMA PresenceInvStep == PresenceInv /\ [PresenceNext]_presenceVars => PresenceInv'
<1> SUFFICES ASSUME PresenceInv, [PresenceNext]_presenceVars PROVE PresenceInv'
  OBVIOUS
<1> USE DEF PresenceInv
<1>1. CASE StartHeartbeat \/ Tick \/ FriendsLoaded
  <2>1. /\ UNCHANGED <<statuses, reachable, reported, failures>>
        /\ queries' = Asked /\ heartbeat' \in BOOLEAN
        /\ changes' = changes \/ Changed
    BY <1>1 DEF StartHeartbeat, Tick, FriendsLoaded, PresenceTypeOK
  <2> QED
    BY <2>1, AskedType, ChangedCount DEF PresenceTypeOK, ReportShown
<1>2. CASE StopHeartbeat
  <2>1. ReportShown'
    BY <1>2 DEF StopHeartbeat, ReportShown
  <2> QED
    BY <1>2, <2>1, ChangedCount DEF StopHeartbeat, PresenceTypeOK
<1>3. ASSUME NEW f \in Friends, PresencePacket(f) PROVE PresenceInv'
  <2>1. PICK status \in Reports : /\ statuses' = [statuses EXCEPT ![f] = status]
                                  /\ reported' = [reported EXCEPT ![f] = status]
    BY <1>3 DEF PresencePacket, SetStatus
  <2>2. ReportShown'
    BY <2>1 DEF PresenceTypeOK, ReportShown
  <2> QED
    BY <1>3, <2>1, <2>2, ChangedCount DEF PresencePacket, PresenceTypeOK
<1>4. ASSUME NEW f \in Friends, MessageFrom(f) PROVE PresenceInv'
  BY <1>4, SignOfLifeKeeps, ChangedCount DEF MessageFrom, PresenceTypeOK
<1>5. ASSUME NEW f \in Friends, ComesOrGoes(f) PROVE PresenceInv'
  BY <1>5, ChangedCount DEF ComesOrGoes, PresenceTypeOK, ReportShown
<1>6. ASSUME NEW f \in Friends, NEW q \in Queries, Serve(f, q) PROVE PresenceInv'
  <2>1. failures' \in 0 .. MaxFailures
    BY <1>6, PresenceAssumption DEF Serve, PresenceTypeOK
  <2>2. queries' \in [Friends -> [Queries -> {"none", "sent", "yes", "no"}]]
    <3>1. PICK a \in {"yes", "no"} : queries' = [queries EXCEPT ![f][q] = a]
      BY <1>6 DEF Serve
    <3> QED
      BY <3>1 DEF PresenceTypeOK
  <2> QED
    BY <1>6, <2>1, <2>2 DEF Serve, PresenceTypeOK, ReportShown
<1>7. ASSUME NEW f \in Friends, NEW q \in Queries, Answer(f, q) PROVE PresenceInv'
  <2>1. /\ queries' \in [Friends -> [Queries -> {"none", "sent", "yes", "no"}]]
        /\ UNCHANGED <<heartbeat, reachable, changes, failures>>
    BY <1>7 DEF Answer, PresenceTypeOK
  <2>2. CASE SignOfLife(f)
    BY <2>1, <2>2, SignOfLifeKeeps DEF PresenceTypeOK
  <2>3. CASE Gone(f)
    <3>1. ReportShown'
      BY <2>3 DEF Gone, SetStatus, Forget, PresenceTypeOK, ReportShown
    <3> QED
      BY <2>1, <2>3, <3>1 DEF Gone, SetStatus, Forget, PresenceTypeOK, Reports
  <2> QED
    BY <1>7, <2>2, <2>3 DEF Answer
<1>8. CASE UNCHANGED presenceVars
  BY <1>8 DEF presenceVars, PresenceTypeOK, ReportShown
<1> QED
  BY <1>1, <1>2, <1>3, <1>4, <1>5, <1>6, <1>7, <1>8 DEF PresenceNext

(* A friend who reported being away or not to be disturbed is never shown  *)
(* as online for it, whatever answers, failures and messages come in       *)
(* between and in whatever order.                                          *)
THEOREM ReportsCorrect == PresenceSpec => []ReportedStatusKept
<1>1. PresenceInv => ReportedStatusKept
  BY DEF PresenceInv, ReportShown, ReportedStatusKept
<1> QED
  BY <1>1, PresenceInvInit, PresenceInvStep, PTL DEF PresenceSpec
================================================================================
