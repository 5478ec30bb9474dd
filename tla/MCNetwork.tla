------------------------------- MODULE MCNetwork --------------------------------
(***************************************************************************)
(* What reaches the program over the network and nobody else's state:      *)
(* the connections of the WebSocket, the stream of one connection, and the *)
(* presence of friends.  They share no variable (the stream's closing is   *)
(* ServerCloses of the connections), so a behaviour is one of one part.    *)
(***************************************************************************)
EXTENDS WebSocketClient, WebSocketStream, Presence

VARIABLE part

(* A byte of a payload is a bit.                                           *)
MCXor(x, y) == (x + y) % 2
MCOwnMask == <<1, 0>>

MCFrame(op, masked, form, payload) ==
  [op |-> op, mask |-> IF masked THEN <<0, 1>> ELSE <<>>, form |-> form, payload |-> payload]

(* Every form of length and mask, lengths about the borders, and each kind *)
(* of frame.                                                               *)
MCFrames ==
  {MCFrame(1, m, "short", x) : m \in BOOLEAN, x \in {<<>>, <<1>>}}
  \union {MCFrame(1, m, "two", x) : m \in BOOLEAN, x \in {<<>>, <<0, 1>>, <<0, 1, 1>>}}
  \union {MCFrame(1, m, "eight", <<1, 0, 0, 1>>) : m \in BOOLEAN}
  \union {MCFrame(9, FALSE, "short", <<0>>), MCFrame(9, FALSE, "two", <<0, 1>>),
          MCFrame(9, FALSE, "eight", <<1, 0, 0, 1>>)}
  \union {MCFrame(op, FALSE, "short", <<1>>) : op \in {0, 8, 10}}

MCInit ==
  /\ part \in {"connections", "stream", "presence"}
  /\ Init
  /\ StreamInit
  /\ PresenceInit /\ (part # "presence" => \A f \in Friends : reachable[f])

Connections(A) == part = "connections" /\ A /\ UNCHANGED <<part, streamVars, presenceVars>>

MCNext ==
  \/ Connections(Open)
  \/ Connections(Close)
  \/ Connections(Network)
  \/ Connections(ReconnectTimer)
  \/ part = "stream" /\ StreamNext /\ UNCHANGED <<part, vars, presenceVars>>
  \/ part = "presence" /\ PresenceNext /\ UNCHANGED <<part, vars, streamVars>>

MCSpec ==
  /\ MCInit /\ [][MCNext]_<<part, vars, streamVars, presenceVars>>
  /\ Fairness /\ PresenceFairness
================================================================================
