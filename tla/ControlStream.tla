---------------------------- MODULE ControlStream ----------------------------
(***************************************************************************)
(* One control stream (pkg/control/stream.go, types.go) from a node to the *)
(* server: frames cut into units, the yamux window, the reader's deadline, *)
(* and what the two kinds of receive make of a message.                    *)
(*                                                                         *)
(* A frame is a header and Size[m] units of payload.  A unit is as much as *)
(* one Write or Read moves; Window units fit into the stream's window.     *)
(* Time is counted in ticks.                                               *)
(***************************************************************************)
EXTENDS Naturals, Sequences

CONSTANTS
  Message,      \* the kinds of message nodes write
  MaxFrame,     \* maxFrame, in units
  Window,       \* the receive window of the stream, in units
  FrameTimeout, \* the deadline NewControlStream sets
  IdleTimeout   \* controlReadIdleTimeout

(* What a node may write.  "hello" is a valid handshake, "expired" one     *)
(* with an old timestamp, "wrapped" one inside a ControlMessage, as        *)
(* SendHandshake writes it.  "heartbeat" is current, "skewed" has a        *)
(* timestamp Validate refuses, "foreign" names another node, "bare" has no *)
(* payload.  "custom" and "unknown" are other types.  "garbage" is not     *)
(* JSON, "oversize" announces more than MaxFrame.                          *)
Kind == {"hello", "expired", "wrapped", "heartbeat", "skewed", "foreign",
         "bare", "custom", "unknown", "garbage", "oversize"}
NoMessage == "none"

ASSUME StreamAssumption ==
  /\ Message \subseteq Kind
  /\ MaxFrame \in Nat \ {0}
  /\ Window \in Nat \ {0}
  /\ FrameTimeout \in Nat \ {0}
  /\ IdleTimeout \in Nat \ {0}

VARIABLES
  sending,        \* the message of the SendFrame in progress
  written,        \* units of its frame written so far
  wire,           \* units written and not yet read
  length,         \* payload length of the frame being received, or 0
  payload,        \* its units read so far
  readDeadline,   \* ticks until a Read that waits fails
  last            \* the message just received

(* Handshakes carry features and metadata. *)
Size == [m \in Kind |->
           IF m = "oversize" THEN MaxFrame + 1
           ELSE IF m \in {"hello", "expired", "wrapped"} THEN MaxFrame ELSE 1]

streamVars == <<sending, written, wire, length, payload, readDeadline, last>>
senderVars == <<sending, written>>
receiverVars == <<length, payload, readDeadline, last>>

(* The header of a frame is its unit 0. *)
Unit == [of : Message, n : 0 .. MaxFrame + 1]

StreamTypeOK ==
  /\ sending \in Message \cup {NoMessage}
  /\ written \in 0 .. MaxFrame + 1
  /\ wire \in Seq(Unit) /\ Len(wire) <= Window
  /\ length \in 0 .. MaxFrame
  /\ payload \in Seq(Unit) /\ Len(payload) <= length
  /\ readDeadline \in 0 .. FrameTimeout \/ readDeadline \in 0 .. IdleTimeout
  /\ last \in Message \cup {NoMessage}

StreamInit ==
  /\ sending = NoMessage
  /\ written = 0
  /\ wire = <<>>
  /\ length = 0
  /\ payload = <<>>
  /\ readDeadline = 0
  /\ last = NoMessage

-----------------------------------------------------------------------------
(***************************************************************************)
(* SendFrame.                                                              *)
(***************************************************************************)

(* SendFrame itself refuses more than maxFrame, a node of another make may *)
(* announce it.  A Write waits for room in the window; the server empties  *)
(* it in less than a tick, so the write deadline is never due.             *)
BeginFrame(m) ==
  /\ sending = NoMessage
  /\ sending' = m
  /\ written' = 0
  /\ UNCHANGED <<wire, receiverVars>>

(* The next unit: the header, then the payload. *)
NextUnit == [of |-> sending, n |-> written]

(* Mutation of WriteUnit: the Write of the header is left out. *)
WriteUnitNoHeader ==
  /\ sending # NoMessage
  /\ Len(wire) < Window
  /\ wire' = IF written = 0 THEN wire ELSE Append(wire, NextUnit)
  /\ IF written < Size[sending]
     THEN written' = written + 1 /\ UNCHANGED sending
     ELSE sending' = NoMessage /\ written' = 0
  /\ UNCHANGED receiverVars

WriteUnit ==
  /\ sending # NoMessage
  /\ Len(wire) < Window
  /\ wire' = Append(wire, NextUnit)
  /\ IF written < Size[sending]
     THEN written' = written + 1 /\ UNCHANGED sending
     ELSE sending' = NoMessage /\ written' = 0
  /\ UNCHANGED receiverVars

-----------------------------------------------------------------------------
(***************************************************************************)
(* ReceiveFrame.                                                           *)
(***************************************************************************)

(* applyDeadline when ReceiveFrame is called. *)
AwaitFrame(deadline) == length' = 0 /\ payload' = <<>> /\ readDeadline' = deadline

(* Four bytes taken as a length, whatever they are. *)
Announced(u) == IF u.n = 0 THEN {Size[u.of]} ELSE 0 .. MaxFrame + 1

(* io.ReadFull of the header.  ReadHeaderFails is the error of a length    *)
(* above maxFrame, and of an empty payload, which is not JSON.             *)
AtHeader == length = 0 /\ wire # <<>>

(* Mutation of ReadHeader: one more than maxFrame is let through. *)
ReadHeaderOneMore ==
  /\ AtHeader
  /\ \E n \in Announced(Head(wire)) \cap (1 .. MaxFrame + 1) : length' = n
  /\ wire' = Tail(wire)
  /\ last' = NoMessage
  /\ UNCHANGED <<senderVars, payload, readDeadline>>

ReadHeader ==
  /\ AtHeader
  /\ \E n \in Announced(Head(wire)) \cap (1 .. MaxFrame) : length' = n
  /\ wire' = Tail(wire)
  /\ last' = NoMessage
  /\ UNCHANGED <<senderVars, payload, readDeadline>>

ReadHeaderFails ==
  /\ AtHeader
  /\ \E n \in Announced(Head(wire)) : n = 0 \/ n > MaxFrame

(* io.ReadFull of the payload, up to its last unit, *)
ReadPayload ==
  /\ wire # <<>>
  /\ Len(payload) + 1 < length
  /\ payload' = Append(payload, Head(wire))
  /\ wire' = Tail(wire)
  /\ UNCHANGED <<senderVars, length, readDeadline, last>>

(* which completes the frame. *)
Completes == wire # <<>> /\ Len(payload) + 1 = length
Frame == Append(payload, Head(wire))

(* The message of a frame that holds all of its payload and nothing else;  *)
(* any other bytes are not JSON.                                           *)
Decode(frame) ==
  LET m == frame[1].of IN
  IF frame = [i \in 1 .. Size[m] |-> [of |-> m, n |-> i]] THEN m ELSE "garbage"

(* Read waits for a frame, and its deadline passes. *)
ReadBlocked == wire = <<>>

(* Mutation of ReadTimesOut: the deadline covers the header only. *)
HeaderTimesOut == ReadBlocked /\ length = 0 /\ readDeadline = 0

ReadTimesOut == ReadBlocked /\ readDeadline = 0

-----------------------------------------------------------------------------
(***************************************************************************)
(* What the receiver makes of a message.                                   *)
(***************************************************************************)

(* ReceiveHandshake: every JSON object decodes as a Handshake, but only a  *)
(* direct one has a node_id; ValidateBasics does the rest.                 *)
IsHandshake(m) == m = "hello"

(* ReceiveControlMessage: JSON that also passes Validate. *)
ReceivedStrictly(m) == m \in {"wrapped", "heartbeat", "foreign", "custom"}

(* ReceiveControlMessageRaw: whatever is JSON. *)
ReceivedRaw(m) == m # "garbage"

(* readControlLoop touches the session for a heartbeat of its own node,    *)
(* whatever its timestamp.                                                 *)
Touches(m) == m \in {"heartbeat", "skewed"}
==============================================================================
