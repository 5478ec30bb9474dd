---------------------------- MODULE WebSocketClient ----------------------------
(***************************************************************************)
(* transport/websocketclient.cpp: the client side of the relay's WebSocket *)
(* link, driven by RelayService::startPolling (Open) and stopPolling       *)
(* (Close), by the signals of its QSslSocket and by its reconnect timer.   *)
(*                                                                         *)
(* The socket is Qt's, modelled from how the class uses it: disconnected() *)
(* is emitted, inside abort() too, only by a socket that was connected; a  *)
(* connection that cannot be established ends in errorOccurred() alone.    *)
(* An empty server address, on which open() returns early, is left out.    *)
(***************************************************************************)
EXTENDS Naturals

CONSTANTS
  MaxOpens,  \* bound: how often the owner calls open()
  MaxFaults  \* bound: how often the network or the server misbehaves

ASSUME LinkAssumption == MaxOpens \in Nat /\ MaxFaults \in Nat

VARIABLES
  should,    \* m_shouldBeConnected
  state,     \* m_state
  socket,    \* m_socket->state()
  handshake, \* m_handshakeComplete
  buffer,    \* m_readBuffer: the connection its bytes came from, 0 if empty
  attempts,  \* m_reconnectAttempts
  timer,     \* delay m_reconnectTimer was started with, in s; 0 if stopped
  online,    \* RelayService::m_isWsConnected
  conn,      \* history: the number of connections started
  upgraded,  \* history: the last connection the server upgraded
  losses,    \* history: connections lost since the last upgrade, open or close
  opens,     \* how much of MaxOpens has been used
  faults     \* how much of MaxFaults has been used

stream == <<handshake, buffer>>
bounds == <<opens, faults>>
vars == <<should, state, socket, stream, attempts, timer, online,
          conn, upgraded, losses, bounds>>

WebSocketState == {"Disconnected", "Connecting", "Handshaking", "Connected", "Closing"}
SocketState    == {"Unconnected", "Connecting", "Connected", "Closing"}

(* Mutant: the delay doubles without the cap of 15 s.                      *)
UncappedDelay(n) ==
  IF n = 0 THEN 1 ELSE IF n = 1 THEN 2 ELSE IF n = 2 THEN 4 ELSE IF n = 3 THEN 8 ELSE 16

(* qMin(1000 * (1 << qMin(attempts, 4)), 15000), in seconds.               *)
Delay(n) ==
  IF n = 0 THEN 1 ELSE IF n = 1 THEN 2 ELSE IF n = 2 THEN 4 ELSE IF n = 3 THEN 8 ELSE 15

TypeOK ==
  /\ should \in BOOLEAN /\ handshake \in BOOLEAN /\ online \in BOOLEAN
  /\ state \in WebSocketState
  /\ socket \in SocketState
  /\ buffer \in Nat
  /\ attempts \in Nat
  /\ timer \in {0, 1, 2, 4, 8, 15}
  /\ conn \in Nat /\ upgraded \in Nat
  /\ losses \in Nat
  /\ opens \in Nat /\ faults \in Nat

Init ==
  /\ should = FALSE
  /\ state = "Disconnected"
  /\ socket = "Unconnected"
  /\ handshake = FALSE
  /\ buffer = 0
  /\ attempts = 0
  /\ timer = 0
  /\ online = FALSE
  /\ conn = 0
  /\ upgraded = 0
  /\ losses = 0
  /\ opens = 0
  /\ faults = 0

Fault == faults < MaxFaults /\ faults' = faults + 1

-----------------------------------------------------------------------------
(* Pieces the handlers share.                                              *)

(* A socket whose abort() or end emits disconnected().                     *)
Established == socket \in {"Connected", "Closing"}

(* Mutant: bytes of the old connection stay in the buffer.                 *)
KeepBuffer == handshake' = FALSE /\ UNCHANGED buffer

(* m_readBuffer.clear(), m_handshakeComplete = false.                      *)
ResetStream == handshake' = FALSE /\ buffer' = 0

(* disconnected() is emitted if the client was connected; RelayService     *)
(* clears its flag in response.                                            *)
TellOwner == online' = (online /\ state # "Connected")

(* Mutant: only the loss of an upgraded connection is retried.             *)
RetryIfUpgraded(n) ==
  IF should /\ state = "Connected"
  THEN /\ timer' = Delay(n)
       /\ attempts' = n + 1
       /\ losses' = losses + 1
  ELSE UNCHANGED <<timer, attempts, losses>>

(* Mutant: the timer is started whether or not a connection is wanted.     *)
RetryAlways(n) ==
  /\ timer' = Delay(n)
  /\ attempts' = n + 1
  /\ losses' = losses + 1

(* The retry onSocketDisconnected schedules after n attempts.              *)
ScheduleRetry(n) ==
  IF should
  THEN /\ timer' = Delay(n)
       /\ attempts' = n + 1
       /\ losses' = losses + 1
  ELSE UNCHANGED <<timer, attempts, losses>>

(* onSocketDisconnected.                                                   *)
OnSocketDisconnected ==
  /\ TellOwner
  /\ state' = "Disconnected"
  /\ socket' = "Unconnected"
  /\ ResetStream
  /\ ScheduleRetry(attempts)

-----------------------------------------------------------------------------
(* What RelayService calls.                                                *)

(* connectToHost, after the reset of everything the last one left.         *)
Connect ==
  /\ socket' = "Connecting"
  /\ state' = "Connecting"
  /\ conn' = conn + 1
  /\ ResetStream

(* open(): a socket still up is aborted first, and the disconnected() this *)
(* emits already finds m_shouldBeConnected set, so it schedules a retry    *)
(* beside the new connection.                                              *)
Open ==
  /\ opens < MaxOpens
  /\ opens' = opens + 1
  /\ should' = TRUE
  /\ IF Established
     THEN TellOwner /\ timer' = Delay(0) /\ attempts' = 1 /\ losses' = 1
     ELSE UNCHANGED online /\ timer' = 0 /\ attempts' = 0 /\ losses' = 0
  /\ Connect
  /\ UNCHANGED <<upgraded, faults>>

(* Mutant: the state stays Connected until the socket has closed.          *)
CloseQuietly ==
  /\ IF state = "Connected"
     THEN socket' = "Closing" /\ UNCHANGED <<state, stream>>
     ELSE IF Established
     THEN state' = "Disconnected" /\ socket' = "Unconnected" /\ ResetStream
     ELSE /\ state' = IF socket = "Connecting" THEN state ELSE "Disconnected"
          /\ socket' = "Unconnected"
          /\ UNCHANGED stream

(* The socket's part of close(): a close frame and an orderly end, or      *)
(* abort().  An abort before the connection is established emits nothing,  *)
(* and the state stays Connecting.                                         *)
CloseSocket ==
  IF state = "Connected"
  THEN state' = "Closing" /\ socket' = "Closing" /\ UNCHANGED stream
  ELSE IF Established
  THEN state' = "Disconnected" /\ socket' = "Unconnected" /\ ResetStream
  ELSE /\ state' = IF socket = "Connecting" THEN state ELSE "Disconnected"
       /\ socket' = "Unconnected"
       /\ UNCHANGED stream

(* stopPolling: close(), then m_isWsConnected = false.                     *)
CloseClient ==
  /\ should' = FALSE
  /\ timer' = 0 /\ attempts' = 0 /\ losses' = 0
  /\ CloseSocket
  /\ online' = FALSE

Close == CloseClient /\ UNCHANGED <<conn, upgraded, bounds>>

-----------------------------------------------------------------------------
(* What the socket reports.                                                *)

(* onSocketConnected: the upgrade request is written.                      *)
SocketConnected ==
  /\ socket = "Connecting"
  /\ socket' = "Connected"
  /\ state' = "Handshaking"
  /\ UNCHANGED <<should, stream, attempts, timer, online, conn, upgraded, losses, bounds>>

(* onSocketError alone: the host is unreachable or refuses.                *)
ConnectFailed ==
  /\ socket = "Connecting"
  /\ Fault
  /\ socket' = "Unconnected"
  /\ UNCHANGED <<should, state, stream, attempts, timer, online, conn, upgraded,
                 losses, opens>>

(* onSocketReadyRead: a header or a frame arrives, in part or completed.   *)
Receive ==
  /\ socket = "Connected"
  /\ buffer' = IF buffer = 0 THEN conn ELSE 0
  /\ UNCHANGED <<should, state, socket, handshake, attempts, timer, online, conn,
                 upgraded, losses, bounds>>

(* processIncomingData: the server answers 101.                            *)
Upgraded ==
  /\ socket = "Connected" /\ ~handshake
  /\ buffer' \in {0, conn}
  /\ handshake' = TRUE
  /\ attempts' = 0
  /\ state' = "Connected"
  /\ online' = TRUE
  /\ upgraded' = conn
  /\ losses' = 0
  /\ UNCHANGED <<should, socket, timer, conn, bounds>>

(* The server answers anything else: errorOccurred, disconnectFromHost.    *)
Refused ==
  /\ socket = "Connected" /\ ~handshake
  /\ Fault
  /\ buffer' \in {0, conn}
  /\ socket' = "Closing"
  /\ UNCHANGED <<should, state, handshake, attempts, timer, online, conn, upgraded,
                 losses, opens>>

(* The same with a 401 that makes handle401Error stop polling: close()     *)
(* aborts the socket inside errorOccurred.                                 *)
RefusedForGood ==
  /\ socket = "Connected" /\ ~handshake
  /\ Fault
  /\ CloseClient
  /\ UNCHANGED <<conn, upgraded, opens>>

(* A close frame from the server is answered, and the socket closed.       *)
ServerCloses ==
  /\ socket = "Connected" /\ handshake
  /\ Fault
  /\ socket' = "Closing"
  /\ buffer' \in {0, conn}
  /\ UNCHANGED <<should, state, handshake, attempts, timer, online, conn, upgraded,
                 losses, opens>>

(* The connection breaks.                                                  *)
SocketLost ==
  /\ socket = "Connected"
  /\ Fault
  /\ OnSocketDisconnected
  /\ UNCHANGED <<should, conn, upgraded, opens>>

(* The orderly end of a socket that was being closed.                      *)
SocketClosed ==
  /\ socket = "Closing"
  /\ OnSocketDisconnected
  /\ UNCHANGED <<should, conn, upgraded, bounds>>

-----------------------------------------------------------------------------
(* Mutant: open() has reset m_reconnectAttempts and nobody restores it.    *)
ForgetAttempts == attempts' = 0

(* m_reconnectAttempts = savedAttempts.                                    *)
RestoreAttempts == UNCHANGED attempts

(* What onReconnectTimer asks before it calls open().                      *)
TimerWanted == should /\ state = "Disconnected"

(* onReconnectTimer: open() with the parameters and the attempts of before.*)
ReconnectTimer ==
  /\ timer # 0
  /\ timer' = 0
  /\ IF TimerWanted
     THEN Connect /\ RestoreAttempts
     ELSE UNCHANGED <<state, socket, stream, attempts, conn>>
  /\ UNCHANGED <<should, online, upgraded, losses, bounds>>

Network ==
  \/ SocketConnected \/ ConnectFailed
  \/ Receive
  \/ Upgraded \/ Refused \/ RefusedForGood
  \/ ServerCloses \/ SocketLost \/ SocketClosed

Next == Open \/ Close \/ Network \/ ReconnectTimer

Spec == Init /\ [][Next]_vars

(* Timers fire, sockets that are closing close, and a connection that is   *)
(* being established is established or fails.                              *)
Fairness ==
  /\ WF_vars(ReconnectTimer)
  /\ WF_vars(SocketClosed)
  /\ WF_vars(SocketConnected \/ ConnectFailed)
  /\ WF_vars(Upgraded \/ Refused \/ RefusedForGood)

FairSpec == Spec /\ Fairness
-----------------------------------------------------------------------------
(* Properties.                                                             *)

(* RelayService::isConnected() tells the truth: its flag is set exactly    *)
(* while the client is Connected, which takes a socket that is up and an   *)
(* upgraded stream.  The flag is set and cleared by signals only, some of  *)
(* them emitted inside open() and close().                                 *)
OnlineIsConnected ==
  /\ online <=> state = "Connected"
  /\ online => handshake /\ Established

(* No connection inherits the stream of the one before: the frame parser   *)
(* runs on an upgraded connection only, and on bytes of that connection.   *)
FreshStream ==
  /\ handshake => upgraded = conn
  /\ buffer # 0 => buffer = conn

(* close() suppresses reconnection: no timer is armed, and the socket is   *)
(* closed or closing, until the owner opens again.                         *)
ClosedStaysQuiet == ~should => timer = 0 /\ socket \in {"Unconnected", "Closing"}

(* A wanted connection that is known to be lost has its retry scheduled.   *)
LostIsScheduled ==
  /\ should /\ state = "Disconnected" => timer # 0
  /\ state = "Disconnected" => socket = "Unconnected"

(* Each loss without a success in between doubles the delay, to the cap:   *)
(* the attempts survive the open() that onReconnectTimer calls.            *)
BackoffCountsLosses == timer # 0 /\ state = "Disconnected" => timer = Delay(losses - 1)

(* A connection that was lost is re-established, unless it is given up or  *)
(* an attempt could not even connect.                                      *)
Stuck == state = "Connecting" /\ socket = "Unconnected"

LostIsRecovered == timer # 0 /\ state = "Disconnected" ~> online \/ Stuck \/ ~should

(* "automatic exponential backoff reconnection engines": a wanted link     *)
(* that is down is tried again.                                            *)
KeepsTrying == should /\ socket = "Unconnected" ~> socket # "Unconnected" \/ ~should
=============================================================================
