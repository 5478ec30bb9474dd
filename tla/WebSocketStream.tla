--------------------------- MODULE WebSocketStream ---------------------------
(***************************************************************************)
(* transport/websocketclient.cpp: what onSocketReadyRead() makes of the    *)
(* bytes of one connection, which TCP may split and join anywhere: the     *)
(* server's answer to the upgrade, then frames; and the frames the client  *)
(* writes.  WebSocketClient models the connections themselves.             *)
(*                                                                         *)
(* The numbers of the protocol are constants: in the code a byte has Base  *)
(* = 256 values, Short = 125 is the longest payload whose length stands in *)
(* the second byte, in which Short + 1 and Short + 2 announce a length of  *)
(* Two = 2 or Eight = 8 bytes, and a mask has KeyLen = 4 bytes.            *)
(***************************************************************************)
EXTENDS Integers, Sequences, SequencesExt

CONSTANTS
  Base, Short, Two, Eight, KeyLen,
  Xor(_, _),
  OwnMask,   \* what the random generator yields for the client's frames
  Frames,    \* what the server sends: opcode, mask, form of the length, payload
  MaxFrames  \* bound: frames of one connection

VARIABLES
  wire,      \* bytes on their way
  bytes,     \* m_readBuffer
  switched,  \* m_handshakeComplete
  sent,      \* history: the frames the server has sent
  received,  \* history: the payloads of textMessageReceived
  written,   \* history: the bytes of the frames the client has written
  closing    \* disconnectFromHost() was called

streamVars == <<wire, bytes, switched, sent, received, written, closing>>

TextFrame == 1  CloseFrame == 8  PingFrame == 9  PongFrame == 10
Byte == 0 .. Base - 1
Key == [1 .. KeyLen -> Byte]
MaskBit == Short + 3
Forms == {"short", "two", "eight"}
Header == <<100, 101>>   \* an answer with status 101, and the line that ends it

(* Base ^ n.                                                               *)
Power(n) ==
  LET power[k \in 0 .. n] == IF k = 0 THEN 1 ELSE Base * power[k - 1]
  IN power[n]

(* The longest payload of a form is shorter than this.                     *)
Room(form) ==
  CASE form = "short" -> Short + 1 [] form = "two" -> Power(Two) [] form = "eight" -> Power(Eight)

(* A frame with or without a mask, whose length fits the form it has.      *)
IsFrame(f) ==
  /\ f.op \in Nat /\ f.mask \in Key \union {<<>>} /\ f.form \in Forms
  /\ f.payload \in Seq(Byte) /\ Len(f.payload) < Room(f.form)

ASSUME StreamAssumption ==
  /\ Base \in Nat /\ Base >= 2
  /\ Short \in Nat /\ Two \in Nat \ {0} /\ Eight \in Nat \ {0} /\ KeyLen \in Nat \ {0}
  /\ \A x, y \in Byte : Xor(x, y) \in Byte /\ Xor(Xor(x, y), y) = x
  /\ OwnMask \in Key
  /\ \A f \in Frames : IsFrame(f)
  /\ MaxFrames \in Nat

StreamInit ==
  /\ wire = Header /\ bytes = <<>>
  /\ switched = FALSE /\ closing = FALSE
  /\ sent = <<>> /\ received = <<>> /\ written = <<>>

-----------------------------------------------------------------------------
(* The encoding of RFC 6455, of which the server chooses form and mask.    *)

BigEndian(n, digits) == [i \in 1 .. digits |-> (n \div Power(digits - i)) % Base]

LengthBytes(bit, form, n) ==
  CASE form = "short" -> <<bit + n>>
    [] form = "two"   -> <<bit + Short + 1>> \o BigEndian(n, Two)
    [] form = "eight" -> <<bit + Short + 2>> \o BigEndian(n, Eight)

Encoded(f) ==
  <<f.op>>
  \o LengthBytes(IF f.mask = <<>> THEN 0 ELSE MaskBit, f.form, Len(f.payload))
  \o f.mask
  \o [i \in DOMAIN f.payload |->
        IF f.mask = <<>> THEN f.payload[i] ELSE Xor(f.payload[i], f.mask[((i - 1) % KeyLen) + 1])]

Stream(frames) == FlattenSeq([i \in DOMAIN frames |-> Encoded(frames[i])])

-----------------------------------------------------------------------------
(* processFrames().                                                        *)

Number(digits) ==
  LET number[k \in 0 .. Len(digits)] ==
        IF k = 0 THEN 0 ELSE Base * number[k - 1] + digits[k]
  IN number[Len(digits)]

(* The length of the first frame's header, mask included.                  *)
LengthCode(buf) == buf[2] % MaskBit
Masked(buf) == buf[2] >= MaskBit

LengthDigits(buf) ==
  IF LengthCode(buf) = Short + 1 THEN Two ELSE IF LengthCode(buf) = Short + 2 THEN Eight ELSE 0

HeaderLen(buf) == 2 + LengthDigits(buf) + (IF Masked(buf) THEN KeyLen ELSE 0)

PayloadLen(buf) ==
  IF LengthDigits(buf) = 0 THEN LengthCode(buf) ELSE Number(SubSeq(buf, 3, 2 + LengthDigits(buf)))

(* Is the first frame there, all of it?                                    *)
Complete(buf) ==
  /\ Len(buf) >= 2
  /\ Len(buf) >= HeaderLen(buf)
  /\ Len(buf) >= HeaderLen(buf) + PayloadLen(buf)

Payload(buf) ==
  LET start == HeaderLen(buf)
  IN [i \in 1 .. PayloadLen(buf) |->
        IF Masked(buf) THEN Xor(buf[start + i], buf[start - KeyLen + 1 + ((i - 1) % KeyLen)])
        ELSE buf[start + i]]

Rest(buf) == SubSeq(buf, HeaderLen(buf) + PayloadLen(buf) + 1, Len(buf))

(* Mutant: lengths to 126 in the second byte.                              *)
SendLongFrame(op, data) ==
  LET n == Len(data) IN
  <<op>>
  \o (IF n <= Short + 1 THEN <<MaskBit + n>>
      ELSE IF n < Power(Two) THEN <<MaskBit + Short + 1>> \o BigEndian(n, Two)
      ELSE <<MaskBit + Short + 2>> \o BigEndian(n, Eight))
  \o OwnMask
  \o [i \in DOMAIN data |-> Xor(data[i], OwnMask[((i - 1) % KeyLen) + 1])]

(* sendFrame(), masked always.                                             *)
SendFrame(op, data) ==
  LET n == Len(data) IN
  <<op>>
  \o (IF n <= Short THEN <<MaskBit + n>>
      ELSE IF n < Power(Two) THEN <<MaskBit + Short + 1>> \o BigEndian(n, Two)
      ELSE <<MaskBit + Short + 2>> \o BigEndian(n, Eight))
  \o OwnMask
  \o [i \in DOMAIN data |-> Xor(data[i], OwnMask[((i - 1) % KeyLen) + 1])]

(* The frame at the head of the buffer, by its opcode; pongs and what is    *)
(* unknown are dropped.                                                    *)
Handle(s) ==
  LET op   == s.bytes[1]
      data == Payload(s.bytes)
  IN [bytes |-> Rest(s.bytes),
      received |-> IF op = TextFrame THEN Append(s.received, data) ELSE s.received,
      written |-> s.written \o (IF op = PingFrame THEN SendFrame(PongFrame, data)
                                ELSE IF op = CloseFrame THEN SendFrame(CloseFrame, <<>>)
                                ELSE <<>>),
      closing |-> s.closing \/ op = CloseFrame]

(* Mutant: one frame is taken for each arrival of bytes.                   *)
ProcessOne(s) == IF Complete(s.bytes) THEN Handle(s) ELSE s

(* The loop takes frames while one is complete: a frame has bytes, so as   *)
(* many turns as there are bytes are enough.                               *)
ProcessFrames(s) ==
  LET turn[k \in 0 .. Len(s.bytes)] ==
        IF k = 0 THEN s
        ELSE LET t == turn[k - 1] IN IF Complete(t.bytes) THEN Handle(t) ELSE t
  IN turn[Len(s.bytes)]

-----------------------------------------------------------------------------
(* The server sends nothing after a close frame (RFC 6455, 5.5.1).         *)
Send(f) ==
  /\ Len(sent) < MaxFrames
  /\ \A i \in DOMAIN sent : sent[i].op # CloseFrame
  /\ sent' = Append(sent, f)
  /\ wire' = wire \o Encoded(f)
  /\ UNCHANGED <<bytes, switched, received, written, closing>>

(* onSocketReadyRead() and processIncomingData(), when n bytes have come:  *)
(* the answer to the upgrade may come in parts, or with frames behind it.  *)
SocketReadyRead(n) ==
  LET buf == bytes \o SubSeq(wire, 1, n)
      up  == switched \/ Len(buf) >= Len(Header)
      new == IF up /\ ~switched THEN SubSeq(buf, Len(Header) + 1, Len(buf)) ELSE buf
      s   == ProcessFrames([bytes |-> new, received |-> received,
                            written |-> written, closing |-> closing])
  IN
  /\ ~closing
  /\ wire' = SubSeq(wire, n + 1, Len(wire))
  /\ switched' = up
  /\ IF up
     THEN bytes' = s.bytes /\ received' = s.received /\ written' = s.written /\ closing' = s.closing
     ELSE bytes' = buf /\ UNCHANGED <<received, written, closing>>
  /\ UNCHANGED sent

StreamNext ==
  \/ \E f \in Frames : Send(f)
  \/ \E n \in 1 .. Len(wire) : SocketReadyRead(n)

StreamSpec == StreamInit /\ [][StreamNext]_streamVars

-----------------------------------------------------------------------------
(* The frames that have arrived to their last byte.                        *)
Arrived ==
  LET read  == Len(Header) + Len(Stream(sent)) - Len(wire)
      whole == {k \in 1 .. Len(sent) : Len(Header) + Len(Stream(SubSeq(sent, 1, k))) <= read}
  IN SubSeq(sent, 1, Cardinality(whole))

(* What is heard of a frame, and what is answered: with the shortest form  *)
(* a length can have.                                                      *)
Heard(f) == IF f.op = TextFrame THEN <<f.payload>> ELSE <<>>

Reply(op, data) ==
  LET n == Len(data)
  IN Encoded([op |-> op, mask |-> OwnMask, payload |-> data,
              form |-> IF n <= Short THEN "short" ELSE IF n < Power(Two) THEN "two" ELSE "eight"])

Answered(f) ==
  CASE f.op = PingFrame  -> Reply(PongFrame, f.payload)
    [] f.op = CloseFrame -> Reply(CloseFrame, <<>>)
    [] OTHER             -> <<>>

(* However the bytes are cut and joined, and in whatever form the lengths  *)
(* come, every text that has arrived whole has been handed on, once, in    *)
(* order and to the letter, and nothing else has.                          *)
TextsArriveWhole == received = FlattenSeq([i \in DOMAIN Arrived |-> Heard(Arrived[i])])

(* Every ping that has arrived whole has been answered by a pong with its  *)
(* payload, and a close frame by a close frame, as the server decodes them.*)
PingsAreAnswered == written = FlattenSeq([i \in DOMAIN Arrived |-> Answered(Arrived[i])])
================================================================================
