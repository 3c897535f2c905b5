--------------------------- MODULE ConnectionProofs ---------------------------
(***************************************************************************)
(* What holds of a connection for every size of frames and of the window,  *)
(* every timeout and heartbeat interval, and every renewal of the          *)
(* certificates.                                                           *)
(***************************************************************************)
EXTENDS Connection, Induction, SequenceTheorems

(***************************************************************************)
(* The bytes under way are frames: the reader, the wire and the sender are *)
(* at consecutive units.                                                   *)
(***************************************************************************)

(* Unit v comes right after unit u. *)
Succ(u, v) ==
  IF u.n < Size[u.of] THEN v = [of |-> u.of, n |-> u.n + 1] ELSE v.n = 0

(* u is the next unit that the reader expects. *)
Expected(u) ==
  IF length = 0 THEN u.n = 0
  ELSE /\ u.n = Len(payload) + 1
       /\ Size[u.of] = length
       /\ payload # <<>> => u.of = payload[1].of

PayloadInv ==
  /\ length = 0 => payload = <<>>
  /\ length # 0 => Len(payload) < length
  /\ \A i \in 1 .. Len(payload) : payload[i] = [of |-> payload[1].of, n |-> i]
  /\ payload # <<>> => Size[payload[1].of] = length

WireInv ==
  /\ wire # <<>> => Expected(wire[1])
  /\ \A i \in 1 .. Len(wire) - 1 : Succ(wire[i], wire[i + 1])

(* The sender continues where the wire ends; between two frames the wire   *)
(* ends with one.                                                          *)
SenderInv ==
  /\ sending = NoMessage => written = 0
  /\ sending # NoMessage => written <= Size[sending]
  /\ node # "gone" =>
       IF sending # NoMessage
       THEN IF wire = <<>> THEN Expected(NextUnit)
                           ELSE Succ(wire[Len(wire)], NextUnit)
       ELSE IF wire = <<>> THEN length = 0
                           ELSE IsLastUnit(wire[Len(wire)])

IdleInv == ~Reading => wire = <<>> /\ sending = NoMessage /\ length = 0

FrameInv ==
  /\ StreamTypeOK
  /\ PayloadInv
  /\ WireInv
  /\ SenderInv
  /\ IdleInv

(***************************************************************************)
(* A node that behaves well has time left.                                 *)
(***************************************************************************)

Alive == {"heartbeat", "skewed"}

(* A sign of life is being written or waits to be read. *)
SignUnderWay ==
  \/ sending \in Alive
  \/ \E i \in 1 .. Len(wire) : wire[i].of \in Alive /\ IsLastUnit(wire[i])

(* Nothing is read that ends the connection; the first frame is the        *)
(* handshake.                                                              *)
ProperInv ==
  /\ node = "up"
  /\ sending \notin {"garbage", "oversize"}
  /\ \A i \in 1 .. Len(wire) : wire[i].of \notin {"garbage", "oversize"}
  /\ handler = "handshake" =>
       /\ wire # <<>> => wire[1].of = "hello"
       /\ wire = <<>> /\ sending # NoMessage => sending = "hello"

TimeInv ==
  /\ handler = "handshake" =>
       /\ readDeadline > 0
       /\ IsFirst => /\ silence < FrameTimeout
                     /\ readDeadline + silence >= FrameTimeout
                        \/ sending # NoMessage
  /\ handler = "serving" =>
       /\ age <= BeatInterval
       /\ readDeadline + BeatInterval >= IdleTimeout
       /\ ~SignUnderWay => /\ age <= silence
                           /\ readDeadline + silence >= IdleTimeout

GoodNodeInv == wellBehaved => ProperInv /\ TimeInv

-----------------------------------------------------------------------------
(***************************************************************************)
(* Sequences and sizes.                                                    *)
(***************************************************************************)

LEMMA TailOf ==
  ASSUME NEW S, NEW s \in Seq(S), s # <<>>
  PROVE  /\ Len(s) \in Nat \ {0}
         /\ Head(s) = s[1] /\ s[1] \in S
         /\ Tail(s) \in Seq(S) /\ Len(Tail(s)) = Len(s) - 1
         /\ \A i \in 1 .. Len(s) - 1 : Tail(s)[i] = s[i + 1]
         /\ Tail(s) = <<>> <=> Len(s) = 1
<1>1. Len(s) \in Nat \ {0} /\ Head(s) = s[1] /\ s[1] \in S
  OBVIOUS
<1>2. /\ Tail(s) \in Seq(S) /\ Len(Tail(s)) = Len(s) - 1
      /\ \A i \in 1 .. Len(s) - 1 : Tail(s)[i] = s[i + 1]
  BY HeadTailProperties
<1>3. Tail(s) = <<>> <=> Len(Tail(s)) = 0
  BY <1>2, EmptySeq
<1> QED BY <1>1, <1>2, <1>3

LEMMA AppendOf ==
  ASSUME NEW S, NEW s \in Seq(S), NEW e \in S
  PROVE  /\ Len(s) \in Nat
         /\ Append(s, e) \in Seq(S) /\ Len(Append(s, e)) = Len(s) + 1
         /\ \A i \in 1 .. Len(s) : Append(s, e)[i] = s[i]
         /\ Append(s, e)[Len(s) + 1] = e
         /\ Append(s, e) # <<>>
         /\ s = <<>> <=> Len(s) = 0
OBVIOUS

(* A frame has a payload, and only one that is too large exceeds MaxFrame. *)
LEMMA Sizes ==
  /\ NoMessage \notin Message
  /\ \A m \in Message :
       /\ Size[m] \in 1 .. MaxFrame + 1
       /\ m # "oversize" => Size[m] <= MaxFrame
BY StreamAssumption DEF StreamAssumption, Size, Kind, NoMessage

LEMMA UnitType ==
  ASSUME NEW m \in Message, NEW n \in 0 .. Size[m]
  PROVE  [of |-> m, n |-> n] \in Unit
BY Sizes, StreamAssumption DEF StreamAssumption, Unit

-----------------------------------------------------------------------------
(***************************************************************************)
(* Frames stay whole.                                                      *)
(***************************************************************************)

LEMMA FrameInitInv == Init => FrameInv
<1> SUFFICES ASSUME Init PROVE FrameInv
  OBVIOUS
<1> USE StreamAssumption DEF StreamAssumption, Init, StreamInit
<1>1. StreamTypeOK
  BY DEF StreamTypeOK
<1> QED
  BY <1>1 DEF FrameInv, PayloadInv, WireInv, SenderInv, IdleInv, Reading

(* A step that leaves the stream alone, and does not open or close it.     *)
LEMMA FrameUnchanged ==
  ASSUME FrameInv, UNCHANGED streamVars, UNCHANGED <<handler, node>>
  PROVE  FrameInv'
BY DEF streamVars, FrameInv, StreamTypeOK, PayloadInv, WireInv, SenderInv,
       IdleInv, Reading, Expected, Succ, NextUnit, IsLastUnit

(* A stream that nobody uses. *)
LEMMA FrameQuiet ==
  ASSUME sending' = NoMessage, written' = 0, wire' = <<>>,
         length' = 0, payload' = <<>>,
         readDeadline' \in 0 .. FrameTimeout \/ readDeadline' \in 0 .. IdleTimeout,
         last' \in Message \cup {NoMessage}
  PROVE  FrameInv'
<1>1. StreamTypeOK'
  BY StreamAssumption DEF StreamAssumption, StreamTypeOK
<1> QED
  BY <1>1 DEF FrameInv, PayloadInv, WireInv, SenderInv, IdleInv, Reading

LEMMA FrameHangup ==
  ASSUME Hangup, last' \in Message \cup {NoMessage}
  PROVE  FrameInv'
BY FrameQuiet, StreamAssumption DEF StreamAssumption, Hangup, AwaitFrame

(* SendFrame begins at the end of the frame before. *)
LEMMA FrameBegin ==
  ASSUME FrameInv, NEW m \in Message, BeginFrame(m), Reading,
         UNCHANGED <<handler, node>>
  PROVE  FrameInv'
<1> USE DEF FrameInv
<1>1. /\ sending = NoMessage /\ sending' = m /\ written' = 0
      /\ UNCHANGED <<wire, length, payload, readDeadline, last>>
  BY DEF BeginFrame, receiverVars
<1>2. StreamTypeOK'
  BY <1>1, StreamAssumption DEF StreamAssumption, StreamTypeOK
<1>3. PayloadInv' /\ WireInv'
  BY <1>1 DEF PayloadInv, WireInv, Expected, Succ
<1>4. SenderInv'
  <2>1. m # NoMessage /\ 0 <= Size[m]
    BY Sizes
  <2>2. NextUnit' = [of |-> m, n |-> 0]
    BY <1>1 DEF NextUnit
  <2>3. ASSUME node # "gone", wire # <<>>
        PROVE  Succ(wire[Len(wire)], NextUnit')
    <3>1. IsLastUnit(wire[Len(wire)])
      BY <2>3, <1>1 DEF SenderInv
    <3>2. wire[Len(wire)] \in Unit
      BY <2>3 DEF StreamTypeOK
    <3> QED BY <3>1, <3>2, <2>2, Sizes DEF IsLastUnit, Succ, Unit
  <2>4. ASSUME node # "gone", wire = <<>> PROVE Expected(NextUnit)'
    BY <2>4, <2>2, <1>1 DEF SenderInv, Expected
  <2> QED BY <1>1, <2>1, <2>3, <2>4 DEF SenderInv, Succ, Expected
<1> QED BY <1>2, <1>3, <1>4 DEF IdleInv, Reading

(* Each Write of SendFrame appends the unit that comes next. *)
LEMMA FrameWrite ==
  ASSUME FrameInv, WriteUnit, Reading, node = "up", UNCHANGED <<handler, node>>
  PROVE  FrameInv'
<1> USE DEF FrameInv
<1>1. /\ sending # NoMessage /\ Len(wire) < Window
      /\ wire' = Append(wire, NextUnit)
      /\ IF written < Size[sending]
         THEN written' = written + 1 /\ sending' = sending
         ELSE sending' = NoMessage /\ written' = 0
      /\ UNCHANGED <<length, payload, readDeadline, last>>
  BY DEF WriteUnit, receiverVars
<1>2. /\ sending \in Message /\ Size[sending] \in 1 .. MaxFrame + 1
      /\ written \in 0 .. Size[sending]
  BY <1>1, Sizes, StreamAssumption
  DEF StreamAssumption, StreamTypeOK, SenderInv
<1>3. NextUnit \in Unit /\ NextUnit.of = sending /\ NextUnit.n = written
  BY <1>2, UnitType DEF NextUnit
<1>4. /\ Len(wire) \in Nat
      /\ wire' \in Seq(Unit) /\ Len(wire') = Len(wire) + 1
      /\ \A i \in 1 .. Len(wire) : wire'[i] = wire[i]
      /\ wire'[Len(wire) + 1] = NextUnit
      /\ wire' # <<>> /\ (wire = <<>> <=> Len(wire) = 0)
  BY <1>1, <1>3, AppendOf DEF StreamTypeOK
<1>5. StreamTypeOK'
  BY <1>1, <1>2, <1>4, StreamAssumption DEF StreamAssumption, StreamTypeOK
<1>6. PayloadInv'
  BY <1>1 DEF PayloadInv
<1>7. WireInv'
  <2>1. Expected(wire'[1])
    <3>1. CASE wire = <<>>
      BY <3>1, <1>1, <1>4 DEF SenderInv
    <3>2. CASE wire # <<>>
      BY <3>2, <1>4 DEF WireInv
    <3> QED BY <3>1, <3>2
  <2>2. ASSUME NEW i \in 1 .. Len(wire') - 1 PROVE Succ(wire'[i], wire'[i + 1])
    <3>1. CASE i = Len(wire)
      BY <3>1, <1>1, <1>4 DEF SenderInv
    <3>2. CASE i # Len(wire)
      <4>1. i \in 1 .. Len(wire) - 1 /\ i + 1 \in 1 .. Len(wire)
        BY <3>2, <1>4
      <4> QED BY <4>1, <1>4 DEF WireInv
    <3> QED BY <3>1, <3>2
  <2>3. Expected(wire[1])' = Expected(wire'[1])
    BY <1>1 DEF Expected
  <2> QED BY <2>1, <2>2, <2>3 DEF WireInv, Succ
<1>8. SenderInv'
  <2>1. CASE written < Size[sending]
    <3>1. sending' = sending /\ written' = written + 1
      BY <1>1, <2>1
    <3>2. NextUnit' = [of |-> sending, n |-> written + 1]
      BY <3>1 DEF NextUnit
    <3>3. Succ(wire'[Len(wire')], NextUnit')
      BY <1>3, <1>4, <2>1, <3>2 DEF Succ
    <3> QED BY <1>1, <1>2, <1>4, <2>1, <3>1, <3>3 DEF SenderInv, Succ
  <2>2. CASE ~(written < Size[sending])
    <3>1. sending' = NoMessage /\ written' = 0
      BY <1>1, <2>2
    <3>2. IsLastUnit(wire'[Len(wire')])
      BY <1>2, <1>3, <1>4, <2>2 DEF IsLastUnit
    <3> QED BY <1>4, <3>1, <3>2 DEF SenderInv, IsLastUnit
  <2> QED BY <2>1, <2>2
<1> QED BY <1>5, <1>6, <1>7, <1>8 DEF IdleInv, Reading

(* The reader takes the first unit off the wire, and expects the one that  *)
(* follows it.                                                             *)
LEMMA FrameRead ==
  ASSUME FrameInv, Reading, wire # <<>>, wire' = Tail(wire),
         UNCHANGED <<sending, written, node>>, Reading',
         StreamTypeOK', PayloadInv',
         \A v \in Unit : Succ(wire[1], v) => Expected(v)',
         IsLastUnit(wire[1]) => length' = 0
  PROVE  FrameInv'
<1> USE DEF FrameInv
<1>1. /\ Len(wire) \in Nat \ {0} /\ wire[1] \in Unit
      /\ wire' \in Seq(Unit) /\ Len(wire') = Len(wire) - 1
      /\ \A i \in 1 .. Len(wire) - 1 : wire'[i] = wire[i + 1]
      /\ wire' = <<>> <=> Len(wire) = 1
  BY TailOf DEF StreamTypeOK
<1>2. WireInv'
  <2>1. ASSUME wire' # <<>> PROVE Expected(wire[1])'
    <3>1. 1 \in 1 .. Len(wire) - 1 /\ wire'[1] = wire[2]
      BY <1>1, <2>1
    <3>2. Succ(wire[1], wire[2]) /\ wire'[1] \in Unit
      BY <3>1, <1>1, <2>1 DEF WireInv
    <3> QED BY <3>1, <3>2
  <2>2. ASSUME NEW i \in 1 .. Len(wire') - 1 PROVE Succ(wire'[i], wire'[i + 1])
    <3>1. i \in 1 .. Len(wire) - 1 /\ i + 1 \in 1 .. Len(wire) - 1
      BY <1>1
    <3> QED BY <3>1, <1>1 DEF WireInv
  <2> QED BY <2>1, <2>2 DEF WireInv, Succ
<1>3. SenderInv'
  <2>1. NextUnit' = NextUnit
    BY DEF NextUnit
  <2>2. wire' # <<>> => wire'[Len(wire')] = wire[Len(wire)]
    BY <1>1
  <2>3. ASSUME wire' = <<>>, node # "gone", sending # NoMessage
        PROVE  Expected(NextUnit)'
    <3>1. Succ(wire[1], NextUnit)
      BY <2>3, <1>1 DEF SenderInv
    <3>2. NextUnit \in Unit
      BY <2>3, UnitType, Sizes DEF NextUnit, StreamTypeOK, SenderInv
    <3> QED BY <2>1, <3>1, <3>2
  <2>4. ASSUME wire' = <<>>, node # "gone", sending = NoMessage
        PROVE  length' = 0
    BY <2>4, <1>1 DEF SenderInv
  <2> QED BY <2>1, <2>2, <2>3, <2>4 DEF SenderInv, Succ, IsLastUnit
<1> QED BY <1>2, <1>3 DEF IdleInv

(* Only headers are taken for headers: ReceiveFrame announces to itself    *)
(* exactly the length that SendFrame wrote.                                *)
LEMMA HeaderIsHeader ==
  ASSUME FrameInv, AtHeader
  PROVE  /\ Head(wire) = wire[1] /\ wire[1] \in Unit /\ wire[1].n = 0
         /\ Announced(Head(wire)) = {Size[wire[1].of]}
<1>1. Head(wire) = wire[1] /\ wire[1] \in Unit
  BY TailOf DEF AtHeader, FrameInv, StreamTypeOK
<1>2. wire[1].n = 0
  BY DEF AtHeader, FrameInv, WireInv, Expected
<1> QED BY <1>1, <1>2 DEF Announced

LEMMA FrameHeader ==
  ASSUME FrameInv, Reading, ReadHeader, UNCHANGED <<handler, node>>
  PROVE  FrameInv'
<1> USE DEF FrameInv
<1>1. /\ AtHeader
      /\ length' \in Announced(Head(wire)) \cap (1 .. MaxFrame)
      /\ wire' = Tail(wire) /\ last' = NoMessage
      /\ UNCHANGED <<sending, written, payload, readDeadline>>
  BY DEF ReadHeader, senderVars
<1>2. /\ wire # <<>> /\ wire[1] \in Unit /\ wire[1].n = 0 /\ length = 0
      /\ length' = Size[wire[1].of] /\ length' \in 1 .. MaxFrame
      /\ payload = <<>>
  BY <1>1, HeaderIsHeader DEF AtHeader, PayloadInv
<1>3. StreamTypeOK'
  <2>1. Tail(wire) \in Seq(Unit) /\ Len(Tail(wire)) <= Window
    BY <1>2, TailOf, StreamAssumption DEF StreamAssumption, StreamTypeOK
  <2> QED
    BY <1>1, <1>2, <2>1, StreamAssumption DEF StreamAssumption, StreamTypeOK
<1>4. PayloadInv'
  BY <1>1, <1>2 DEF PayloadInv
<1>5. ASSUME NEW v \in Unit, Succ(wire[1], v) PROVE Expected(v)'
  <2>1. v = [of |-> wire[1].of, n |-> 1]
    BY <1>2, <1>5 DEF Succ
  <2> QED BY <1>1, <1>2, <2>1 DEF Expected
<1>6. ~IsLastUnit(wire[1])
  BY <1>2 DEF IsLastUnit
<1> QED BY <1>1, <1>2, <1>3, <1>4, <1>5, <1>6, FrameRead DEF Reading

(* Inside a frame the unit at hand belongs to it. *)
LEMMA InFrame ==
  ASSUME FrameInv, wire # <<>>, length # 0
  PROVE  /\ Head(wire) = wire[1] /\ wire[1] \in Unit
         /\ wire[1] = [of |-> wire[1].of, n |-> Len(payload) + 1]
         /\ Size[wire[1].of] = length
         /\ \A i \in 1 .. Len(payload) :
              payload[i] = [of |-> wire[1].of, n |-> i]
<1>1. Head(wire) = wire[1] /\ wire[1] \in Unit
  BY TailOf DEF FrameInv, StreamTypeOK
<1>2. /\ wire[1].n = Len(payload) + 1
      /\ Size[wire[1].of] = length
      /\ payload # <<>> => wire[1].of = payload[1].of
  BY DEF FrameInv, WireInv, Expected
<1>3. wire[1] = [of |-> wire[1].of, n |-> Len(payload) + 1]
  BY <1>1, <1>2 DEF Unit
<1>4. ASSUME NEW i \in 1 .. Len(payload)
      PROVE  payload[i] = [of |-> wire[1].of, n |-> i]
  <2>1. payload # <<>>
    OBVIOUS
  <2> QED BY <1>2, <2>1 DEF FrameInv, PayloadInv
<1> QED BY <1>1, <1>2, <1>3, <1>4

LEMMA FramePayload ==
  ASSUME FrameInv, Reading, ReadPayload, UNCHANGED <<handler, node>>
  PROVE  FrameInv'
<1> USE DEF FrameInv
<1>1. /\ wire # <<>> /\ Len(payload) + 1 < length
      /\ payload' = Append(payload, Head(wire)) /\ wire' = Tail(wire)
      /\ UNCHANGED <<sending, written, length, readDeadline, last>>
  BY DEF ReadPayload, senderVars
<1>2. length # 0 /\ length \in Nat /\ Len(payload) \in Nat
  BY <1>1, StreamAssumption DEF StreamAssumption, StreamTypeOK
<1>3. /\ Head(wire) = wire[1] /\ wire[1] \in Unit
      /\ wire[1] = [of |-> wire[1].of, n |-> Len(payload) + 1]
      /\ Size[wire[1].of] = length
      /\ \A i \in 1 .. Len(payload) : payload[i] = [of |-> wire[1].of, n |-> i]
  BY <1>1, <1>2, InFrame
<1>4. /\ payload' \in Seq(Unit) /\ Len(payload') = Len(payload) + 1
      /\ \A i \in 1 .. Len(payload) : payload'[i] = payload[i]
      /\ payload'[Len(payload) + 1] = wire[1]
      /\ payload' # <<>>
  BY <1>1, <1>3, AppendOf DEF StreamTypeOK
<1>5. StreamTypeOK'
  <2>1. Tail(wire) \in Seq(Unit) /\ Len(Tail(wire)) <= Window
    BY <1>1, TailOf, StreamAssumption DEF StreamAssumption, StreamTypeOK
  <2> QED BY <1>1, <1>2, <1>4, <2>1 DEF StreamTypeOK
<1>6. ASSUME NEW i \in 1 .. Len(payload')
      PROVE  payload'[i] = [of |-> wire[1].of, n |-> i]
  <2>1. CASE i \in 1 .. Len(payload)
    BY <2>1, <1>3, <1>4
  <2>2. CASE i = Len(payload) + 1
    BY <2>2, <1>3, <1>4
  <2> QED BY <2>1, <2>2, <1>2, <1>4
<1>7. payload'[1].of = wire[1].of
  BY <1>2, <1>4, <1>6
<1>8. PayloadInv'
  BY <1>1, <1>2, <1>3, <1>4, <1>6, <1>7 DEF PayloadInv
<1>9. wire[1].n < Size[wire[1].of]
  BY <1>1, <1>2, <1>3
<1>10. ASSUME NEW v \in Unit, Succ(wire[1], v) PROVE Expected(v)'
  <2>1. v = [of |-> wire[1].of, n |-> wire[1].n + 1]
    BY <1>9, <1>10 DEF Succ
  <2>2. v.n = Len(payload') + 1 /\ v.of = wire[1].of
    BY <1>3, <1>4, <2>1
  <2> QED BY <1>1, <1>2, <1>3, <1>7, <2>2 DEF Expected
<1>11. ~IsLastUnit(wire[1])
  BY <1>2, <1>3, <1>9 DEF IsLastUnit
<1> QED BY <1>1, <1>5, <1>8, <1>10, <1>11, FrameRead DEF Reading

(* The frame that is complete is the one that was sent. *)
LEMMA FrameDecodes ==
  ASSUME FrameInv, Completes
  PROVE  /\ wire[1].of \in Message /\ Decode(Frame) = wire[1].of
         /\ IsLastUnit(wire[1])
<1> USE DEF FrameInv
<1> DEFINE m == wire[1].of
<1>1. /\ wire # <<>> /\ Len(payload) + 1 = length
      /\ length # 0 /\ length \in Nat /\ Len(payload) \in Nat
  BY StreamAssumption DEF StreamAssumption, Completes, StreamTypeOK
<1>2. /\ Head(wire) = wire[1] /\ wire[1] \in Unit
      /\ wire[1] = [of |-> m, n |-> Len(payload) + 1]
      /\ Size[m] = length
      /\ \A i \in 1 .. Len(payload) : payload[i] = [of |-> m, n |-> i]
  BY <1>1, InFrame
<1>3. m \in Message
  BY <1>2 DEF Unit
<1>4. /\ Frame \in Seq(Unit) /\ Len(Frame) = length
      /\ \A i \in 1 .. Len(payload) : Frame[i] = payload[i]
      /\ Frame[Len(payload) + 1] = wire[1]
  BY <1>1, <1>2, AppendOf DEF Frame, StreamTypeOK
<1>5. ASSUME NEW i \in 1 .. length PROVE Frame[i] = [of |-> m, n |-> i]
  <2>1. CASE i \in 1 .. Len(payload)
    BY <2>1, <1>2, <1>4
  <2>2. CASE i = Len(payload) + 1
    BY <2>2, <1>2, <1>4
  <2> QED BY <2>1, <2>2, <1>1
<1>6. Frame = [i \in 1 .. Size[m] |-> [of |-> m, n |-> i]]
  <2>1. Frame \in [1 .. length -> Unit]
    BY <1>4, LenProperties
  <2>2. Frame = [i \in 1 .. length |-> Frame[i]]
    BY <2>1
  <2>3. @ = [i \in 1 .. length |-> [of |-> m, n |-> i]]
    BY <1>5
  <2>4. length = Size[m]
    BY <1>2
  <2> HIDE DEF m
  <2> QED BY <2>2, <2>3, <2>4, Zenon
<1>7. Frame[1].of = m
  <2>1. Frame[1] = [of |-> m, n |-> 1]
    BY <1>1, <1>5
  <2> QED BY <2>1
<1>8. IsLastUnit(wire[1])
  BY <1>1, <1>2 DEF IsLastUnit
<1> QED BY <1>3, <1>6, <1>7, <1>8 DEF Decode

(* After it the reader expects a header. *)
LEMMA FrameComplete ==
  ASSUME FrameInv, Reading, Completes, wire' = Tail(wire),
         AwaitFrame(IdleTimeout), last' = Decode(Frame),
         UNCHANGED <<sending, written, node>>, Reading'
  PROVE  FrameInv'
<1> USE DEF FrameInv
<1>1. length' = 0 /\ payload' = <<>> /\ readDeadline' = IdleTimeout
  BY DEF AwaitFrame
<1>2. wire # <<>> /\ wire[1] \in Unit
  BY TailOf DEF Completes, StreamTypeOK
<1>3. /\ wire[1].of \in Message /\ last' = wire[1].of /\ IsLastUnit(wire[1])
  BY FrameDecodes
<1>4. StreamTypeOK'
  <2>1. Tail(wire) \in Seq(Unit) /\ Len(Tail(wire)) <= Window
    BY <1>2, TailOf, StreamAssumption DEF StreamAssumption, StreamTypeOK
  <2> QED
    BY <1>1, <1>3, <2>1, StreamAssumption DEF StreamAssumption, StreamTypeOK
<1>5. PayloadInv'
  BY <1>1 DEF PayloadInv
<1>6. ASSUME NEW v \in Unit, Succ(wire[1], v) PROVE Expected(v)'
  BY <1>1, <1>2, <1>3, <1>6, Sizes DEF Expected, Succ, IsLastUnit
<1> QED BY <1>1, <1>2, <1>4, <1>5, <1>6, FrameRead

(* A stream that is not open is empty. *)
LEMMA IdleIsEmpty ==
  ASSUME FrameInv, ~Reading
  PROVE  /\ sending = NoMessage /\ written = 0 /\ wire = <<>>
         /\ length = 0 /\ payload = <<>>
         /\ readDeadline \in 0 .. FrameTimeout \/ readDeadline \in 0 .. IdleTimeout
         /\ last \in Message \cup {NoMessage}
BY DEF FrameInv, IdleInv, SenderInv, PayloadInv, StreamTypeOK

LEMMA FrameNext ==
  ASSUME FrameInv, [Next]_vars
  PROVE  FrameInv'
<1>1. CASE UNCHANGED <<streamVars, handler, node>>
  BY <1>1, FrameUnchanged
<1>2. CASE HandlerCancelled \/ CleanupEvicts \/ SetupFails \/ ReadFails
  BY <1>2, FrameHangup DEF HandlerCancelled, CleanupEvicts, SetupFails, ReadFails
<1>3. CASE Connect \/ TlsDone
  <2>1. ~Reading /\ UNCHANGED streamVars
    BY <1>3 DEF Connect, TlsDone, Reading
  <2> QED BY <2>1, IdleIsEmpty, FrameQuiet DEF streamVars
<1>4. CASE StreamAccepted
  <2>1. /\ ~Reading /\ UNCHANGED <<sending, written, wire>>
        /\ length' = 0 /\ payload' = <<>> /\ readDeadline' = FrameTimeout
        /\ last' = NoMessage
    BY <1>4 DEF StreamAccepted, Reading, AwaitFrame, senderVars
  <2>2. readDeadline' \in 0 .. FrameTimeout
    BY <2>1, StreamAssumption DEF StreamAssumption
  <2> QED BY <2>1, <2>2, IdleIsEmpty, FrameQuiet
<1>5. CASE BeginSend
  BY <1>5, FrameBegin DEF BeginSend
<1>6. CASE ContinueSend
  BY <1>6, FrameWrite DEF ContinueSend, connVars
<1>7. CASE Leave
  <2>1. /\ node' = "gone" /\ handler' = handler /\ sending' = NoMessage
        /\ written' = 0 /\ UNCHANGED <<wire, length, payload, readDeadline, last>>
    BY <1>7 DEF Leave, receiverVars
  <2>2. StreamTypeOK'
    BY <2>1, StreamAssumption DEF StreamAssumption, FrameInv, StreamTypeOK
  <2> QED
    BY <2>1, <2>2
    DEF FrameInv, PayloadInv, WireInv, SenderInv, IdleInv, Reading, Expected, Succ
<1>8. CASE Freeze
  <2>1. /\ node = "up" /\ node' = "frozen" /\ handler' = handler
        /\ UNCHANGED streamVars
    BY <1>8 DEF Freeze
  <2> QED
    BY <2>1
    DEF streamVars, FrameInv, StreamTypeOK, PayloadInv, WireInv, SenderInv,
        IdleInv, Reading, Expected, Succ, NextUnit, IsLastUnit
<1>9. CASE ReadContinues
  BY <1>9, FrameHeader, FramePayload DEF ReadContinues, connVars
<1>10. CASE HandshakeArrives
  <2>1. last' \in Message \cup {NoMessage}
    BY <1>10, FrameDecodes DEF HandshakeArrives
  <2>2. CASE Hangup
    BY <2>1, <2>2, FrameHangup
  <2>3. CASE ~Hangup
    <3>1. /\ Reading /\ Completes /\ wire' = Tail(wire)
          /\ AwaitFrame(IdleTimeout) /\ last' = Decode(Frame)
          /\ UNCHANGED <<sending, written, node>> /\ Reading'
      BY <1>10, <2>3 DEF HandshakeArrives, senderVars, Reading
    <3> QED BY <3>1, FrameComplete
  <2> QED BY <2>2, <2>3
<1>11. CASE MessageArrives
  <2>1. last' \in Message \cup {NoMessage}
    BY <1>11, FrameDecodes DEF MessageArrives
  <2>2. CASE ~ReceivedRaw(last')
    BY <1>11, <2>1, <2>2, FrameHangup DEF MessageArrives
  <2>3. CASE ReceivedRaw(last')
    <3>1. /\ Reading /\ Completes /\ wire' = Tail(wire)
          /\ AwaitFrame(IdleTimeout) /\ last' = Decode(Frame)
          /\ UNCHANGED <<sending, written, node>> /\ Reading'
      BY <1>11, <2>3 DEF MessageArrives, senderVars, Reading
    <3> QED BY <3>1, FrameComplete
  <2> QED BY <2>2, <2>3
<1>12. CASE Tick
  <2>1. /\ UNCHANGED <<sending, written, wire, length, payload, handler, node>>
        /\ readDeadline' = IF readDeadline > 0 THEN readDeadline - 1 ELSE 0
        /\ last' = NoMessage
    BY <1>12 DEF Tick, senderVars
  <2>2. StreamTypeOK'
    BY <2>1, StreamAssumption DEF StreamAssumption, FrameInv, StreamTypeOK
  <2> QED
    BY <2>1, <2>2
    DEF FrameInv, PayloadInv, WireInv, SenderInv, IdleInv, Reading, Expected,
        Succ, NextUnit, IsLastUnit
<1> QED
  BY <1>1, <1>2, <1>3, <1>4, <1>5, <1>6, <1>7, <1>8, <1>9, <1>10, <1>11, <1>12
  DEF Next, vars, connVars, Start, Stop, WatcherStep, OperatorStep

-----------------------------------------------------------------------------
(***************************************************************************)
(* Certificates.                                                           *)
(***************************************************************************)

NoFiles == config = [certFile |-> Unset, keyFile |-> Unset]

(* Without files nothing is ever loaded again; with them, what is in use,  *)
(* or has been read by the watcher, is not newer than the files.           *)
CertInv ==
  /\ CertTypeOK
  /\ NoFiles => /\ watcher = "off" /\ tlsConfig = DevPair
                /\ listenerConfig \in {NoPair, DevPair}
  /\ ~NoFiles => /\ tlsConfig <= certFile /\ tlsConfig <= keyFile
                 /\ listenerConfig <= certFile /\ listenerConfig <= keyFile
                 /\ gotCert <= certFile

LEMMA CertInitInv == Init => CertInv
<1> SUFFICES ASSUME Init PROVE CertInv
  OBVIOUS
<1> USE MaxGenAssumption DEF MaxGenAssumption, Init, CertInit, NoPair, DevPair, Gen
<1>1. config \in Source
  BY DEF Unmarshal, Effective, Source
<1>2. IsDevelopment(config) <=> NoFiles
  BY <1>1 DEF IsDevelopment, Loads, NoFiles, Source
<1>3. torn \in BOOLEAN /\ watched \in BOOLEAN /\ notified \in BOOLEAN
  BY Zenon
<1>4. CertTypeOK
  BY <1>1, <1>3 DEF CertTypeOK
<1> QED BY <1>2, <1>4 DEF CertInv

LEMMA CertNext ==
  ASSUME CertInv, [Next]_vars
  PROVE  CertInv'
<1> USE MaxGenAssumption
    DEF MaxGenAssumption, CertInv, CertTypeOK, NoFiles, NoPair, DevPair, Gen
<1>1. CASE UNCHANGED certVars
  BY <1>1 DEF certVars
<1>2. CASE Start
  BY <1>2 DEF Start, CaptureConfig
<1>3. CASE RenewKey
  BY <1>3 DEF RenewKey
<1>4. CASE TruncateCert \/ WriteCert
  <2>1. torn' \in BOOLEAN /\ notified' \in BOOLEAN
    BY <1>4, Zenon DEF TruncateCert, WriteCert, CertInv, CertTypeOK
  <2> QED BY <1>4, <2>1 DEF TruncateCert, WriteCert
<1>5. CASE RenameCert
  <2>1. watched' \in BOOLEAN
    BY <1>5, Zenon DEF RenameCert
  <2> QED BY <1>5, <2>1 DEF RenameCert
<1>6. CASE AddWatch
  BY <1>6 DEF AddWatch
<1>7. CASE ReadCert
  <2>1. notified' \in BOOLEAN
    BY <1>7, Zenon DEF ReadCert
  <2> QED BY <1>7, <2>1 DEF ReadCert
<1>8. CASE LoadPair
  BY <1>8 DEF LoadPair
<1>9. CASE WatcherStops
  BY <1>9 DEF WatcherStops, WatcherExits
<1> QED
  BY <1>1, <1>2, <1>3, <1>4, <1>5, <1>6, <1>7, <1>8, <1>9
  DEF Next, vars, Stop, HandlerCancelled, CleanupEvicts, WatcherStep,
      OperatorStep, Connect, TlsDone, StreamAccepted, BeginSend, ContinueSend,
      Leave, Freeze, SetupFails, ReadContinues, ReadFails, HandshakeArrives,
      MessageArrives, Tick

-----------------------------------------------------------------------------
(***************************************************************************)
(* The handler and its node.                                               *)
(***************************************************************************)

ConnTypeOK ==
  /\ server \in {"new", "running", "stopped"}
  /\ handler \in HandlerPC
  /\ node \in {"up", "frozen", "gone"}
  /\ age \in 0 .. StaleAfter + 1
  /\ silence \in 0 .. BeatInterval + FrameTimeout
  /\ wellBehaved \in BOOLEAN

LEMMA ConnNext ==
  ASSUME ConnTypeOK, [Next]_vars
  PROVE  ConnTypeOK'
<1> USE StreamAssumption, IntervalAssumption
    DEF StreamAssumption, IntervalAssumption, ConnTypeOK, HandlerPC
<1>1. CASE UNCHANGED connVars
  BY <1>1 DEF connVars
<1>2. CASE Start \/ Stop
  BY <1>2 DEF Start, Stop
<1>3. CASE HandlerCancelled \/ CleanupEvicts \/ SetupFails \/ ReadFails
  BY <1>3 DEF HandlerCancelled, CleanupEvicts, SetupFails, ReadFails, Hangup
<1>4. CASE Connect \/ TlsDone \/ StreamAccepted \/ Leave \/ Freeze
  <2>1. wellBehaved' \in BOOLEAN
    BY <1>4, Zenon DEF Connect, TlsDone, StreamAccepted, Leave, Freeze, ConnTypeOK
  <2> QED BY <1>4, <2>1 DEF Connect, TlsDone, StreamAccepted, Leave, Freeze
<1>5. CASE BeginSend
  <2>1. wellBehaved' \in BOOLEAN
    BY <1>5, Zenon DEF BeginSend
  <2> QED BY <1>5, <2>1 DEF BeginSend
<1>6. CASE HandshakeArrives
  <2>1. wellBehaved' \in BOOLEAN
    BY <1>6, Zenon DEF HandshakeArrives, ConnTypeOK
  <2> QED BY <1>6, <2>1 DEF HandshakeArrives, Hangup
<1>7. CASE MessageArrives
  BY <1>7 DEF MessageArrives, Hangup
<1>8. CASE Tick
  <2>1. wellBehaved' \in BOOLEAN
    BY <1>8, Zenon DEF Tick
  <2> QED BY <1>8, <2>1 DEF Tick, Soon
<1> QED
  BY <1>1, <1>2, <1>3, <1>4, <1>5, <1>6, <1>7, <1>8
  DEF Next, vars, connVars, WatcherStep, OperatorStep, ContinueSend, ReadContinues

(* No node has connected before Start. *)
NewInv == server = "new" => ~wellBehaved

IInv ==
  /\ CertInv
  /\ FrameInv
  /\ ConnTypeOK
  /\ GoodNodeInv
  /\ NewInv
  /\ HealthyNodeIsKept

GoodInv == GoodNodeInv /\ NewInv /\ HealthyNodeIsKept

(* A handler that ends leaves nothing on the stream; if the node is not to *)
(* blame, the server is no longer running.                                 *)
LEMMA GoodHangup ==
  ASSUME IInv, Hangup, UNCHANGED <<server, node>>,
         wellBehaved' => wellBehaved /\ server # "running"
  PROVE  GoodInv'
<1>1. /\ handler' = "closed" /\ sending' = NoMessage /\ wire' = <<>>
  BY DEF Hangup
<1>2. NoMessage \notin {"garbage", "oversize"}
  BY DEF NoMessage
<1>3. wellBehaved' => ProperInv' /\ TimeInv'
  BY <1>1, <1>2 DEF IInv, GoodNodeInv, ProperInv, TimeInv
<1> QED BY <1>3 DEF IInv, GoodInv, GoodNodeInv, NewInv, HealthyNodeIsKept

(* A handler that still waits for its stream has nothing to read. *)
LEMMA GoodSetup ==
  ASSUME IInv, Connect \/ TlsDone \/ StreamAccepted
  PROVE  GoodInv'
<1> USE DEF IInv
<1>1. ~Reading /\ UNCHANGED <<sending, wire>> /\ node' = "up"
  BY DEF Connect, TlsDone, StreamAccepted, Reading, streamVars, senderVars
<1>2. sending' = NoMessage /\ wire' = <<>>
  BY <1>1, IdleIsEmpty
<1>3. ProperInv'
  BY <1>1, <1>2 DEF ProperInv, NoMessage
<1>4. TimeInv'
  <2>1. CASE StreamAccepted
    <3>1. /\ handler' = "handshake" /\ silence' = 0
          /\ readDeadline' = FrameTimeout
      BY <2>1 DEF StreamAccepted, AwaitFrame
    <3> QED BY <3>1, StreamAssumption DEF StreamAssumption, TimeInv
  <2>2. CASE Connect \/ TlsDone
    BY <2>2 DEF Connect, TlsDone, TimeInv
  <2> QED BY <2>1, <2>2
<1> QED
  BY <1>3, <1>4
  DEF GoodInv, GoodNodeInv, NewInv, HealthyNodeIsKept, Connect, TlsDone,
      StreamAccepted

(* A node in good standing on an open stream stays so if nothing else      *)
(* changes.                                                                *)
LEMMA GoodStays ==
  ASSUME IInv, Reading, UNCHANGED <<server, handler>>,
         wellBehaved' => wellBehaved /\ ProperInv' /\ TimeInv'
  PROVE  GoodInv'
BY DEF IInv, GoodInv, GoodNodeInv, NewInv, HealthyNodeIsKept, Reading

(* The node begins its handshake in time, or a later frame. *)
LEMMA GoodBegin ==
  ASSUME IInv, BeginSend
  PROVE  GoodInv'
<1> USE DEF IInv
<1>1. PICK m \in Message :
        /\ BeginFrame(m)
        /\ silence' = IF ProvesAlive(m) THEN 0 ELSE silence
        /\ wellBehaved' = (wellBehaved /\ Proper(m))
  BY DEF BeginSend
<1>2. /\ Reading /\ node = "up" /\ UNCHANGED <<server, handler, node, age>>
      /\ sending = NoMessage /\ sending' = m
      /\ UNCHANGED <<wire, length, payload, readDeadline>>
  BY <1>1 DEF BeginSend, BeginFrame, receiverVars
<1>3. m # NoMessage
  BY Sizes
<1> SUFFICES ASSUME wellBehaved, Proper(m) PROVE ProperInv' /\ TimeInv'
  BY <1>1, <1>2, GoodStays
<1>4. ProperInv /\ TimeInv
  BY DEF GoodNodeInv
<1>5. m \notin {"garbage", "oversize"} /\ (IsFirst => m = "hello")
  BY DEF Proper
<1>6. handler = "handshake" /\ wire = <<>> => IsFirst
  BY <1>2 DEF FrameInv, SenderInv, IsFirst
<1>7. ProperInv'
  BY <1>2, <1>4, <1>5, <1>6 DEF ProperInv
<1>8. TimeInv'
  <2>1. ASSUME handler = "handshake"
        PROVE  /\ readDeadline' > 0
               /\ IsFirst' => silence' < FrameTimeout
    BY <2>1, <1>1, <1>2, <1>4, StreamAssumption
    DEF StreamAssumption, TimeInv, IsFirst
  <2>2. ASSUME handler = "serving"
        PROVE  /\ age' <= BeatInterval
               /\ readDeadline' + BeatInterval >= IdleTimeout
    BY <2>2, <1>2, <1>4 DEF TimeInv
  <2>3. ASSUME handler = "serving", ~SignUnderWay'
        PROVE  age' <= silence' /\ readDeadline' + silence' >= IdleTimeout
    <3>1. m \notin Alive /\ ~SignUnderWay
      BY <2>3, <1>2 DEF SignUnderWay, Alive, NoMessage, IsLastUnit
    <3>2. silence' = silence
      BY <1>1, <2>3, <3>1 DEF ProvesAlive, IsFirst, Alive
    <3> QED BY <2>3, <3>1, <3>2, <1>2, <1>4 DEF TimeInv
  <2> QED BY <1>2, <1>3, <2>1, <2>2, <2>3 DEF TimeInv
<1> QED BY <1>7, <1>8

(* It goes on writing what it began. *)
LEMMA GoodWrite ==
  ASSUME IInv, ContinueSend
  PROVE  GoodInv'
<1> USE DEF IInv
<1>1. /\ Reading /\ sending # NoMessage
      /\ UNCHANGED <<server, handler, node, age, silence, wellBehaved>>
      /\ wire' = Append(wire, NextUnit)
      /\ \/ sending' = NoMessage /\ ~(written < Size[sending])
         \/ sending' = sending
      /\ UNCHANGED <<length, payload, readDeadline>>
  BY DEF ContinueSend, WriteUnit, connVars, receiverVars
<1>2. /\ sending \in Message /\ Size[sending] \in 1 .. MaxFrame + 1
      /\ written \in 0 .. Size[sending]
  BY <1>1, Sizes, StreamAssumption
  DEF StreamAssumption, FrameInv, StreamTypeOK, SenderInv
<1>3. NextUnit \in Unit /\ NextUnit.of = sending /\ NextUnit.n = written
  BY <1>2, UnitType DEF NextUnit
<1>4. /\ Len(wire) \in Nat
      /\ wire' \in Seq(Unit) /\ Len(wire') = Len(wire) + 1
      /\ \A i \in 1 .. Len(wire) : wire'[i] = wire[i]
      /\ wire'[Len(wire) + 1] = NextUnit
      /\ wire' # <<>> /\ (wire = <<>> <=> Len(wire) = 0)
  BY <1>1, <1>3, AppendOf DEF FrameInv, StreamTypeOK
<1> SUFFICES ASSUME wellBehaved PROVE ProperInv' /\ TimeInv'
  BY <1>1, GoodStays
<1>5. ProperInv /\ TimeInv
  BY DEF GoodNodeInv
<1>6. ProperInv'
  <2>1. ASSUME NEW i \in 1 .. Len(wire')
        PROVE  wire'[i].of \notin {"garbage", "oversize"}
    <3>1. CASE i \in 1 .. Len(wire)
      BY <3>1, <1>4, <1>5 DEF ProperInv
    <3>2. CASE i = Len(wire) + 1
      BY <3>2, <1>3, <1>4, <1>5 DEF ProperInv
    <3> QED BY <3>1, <3>2, <1>4
  <2>2. handler = "handshake" => wire'[1].of = "hello"
    <3>1. CASE wire = <<>>
      BY <3>1, <1>1, <1>3, <1>4, <1>5 DEF ProperInv
    <3>2. CASE wire # <<>>
      BY <3>2, <1>4, <1>5 DEF ProperInv
    <3> QED BY <3>1, <3>2
  <2>3. sending' \notin {"garbage", "oversize"}
    BY <1>1, <1>5 DEF ProperInv, NoMessage
  <2> QED BY <1>1, <1>4, <1>5, <2>1, <2>2, <2>3 DEF ProperInv
<1>7. TimeInv'
  <2>1. SignUnderWay => SignUnderWay'
    <3>1. ASSUME sending \in Alive PROVE SignUnderWay'
      <4>1. CASE sending' = sending
        BY <3>1, <4>1 DEF SignUnderWay
      <4>2. CASE ~(written < Size[sending])
        <5>1. wire'[Len(wire')].of \in Alive /\ IsLastUnit(wire'[Len(wire')])
          BY <3>1, <4>2, <1>2, <1>3, <1>4 DEF IsLastUnit
        <5>2. Len(wire') \in 1 .. Len(wire')
          BY <1>4
        <5> QED BY <5>1, <5>2 DEF SignUnderWay, IsLastUnit
      <4> QED BY <1>1, <4>1, <4>2
    <3>2. ASSUME NEW i \in 1 .. Len(wire),
                 wire[i].of \in Alive /\ IsLastUnit(wire[i])
          PROVE  SignUnderWay'
      <4>1. i \in 1 .. Len(wire') /\ wire'[i] = wire[i]
        BY <1>4
      <4> QED BY <3>2, <4>1 DEF SignUnderWay, IsLastUnit
    <3> QED BY <3>1, <3>2 DEF SignUnderWay
  <2>2. ~IsFirst'
    BY <1>4 DEF IsFirst
  <2> QED BY <1>1, <1>5, <2>1, <2>2 DEF TimeInv
<1> QED BY <1>6, <1>7

(* Taking a unit off the wire removes no sign of life but the one that the *)
(* unit completes.                                                         *)
LEMMA SignKept ==
  ASSUME FrameInv, wire # <<>>, wire' = Tail(wire), sending' = sending,
         ~IsLastUnit(wire[1]) \/ wire[1].of \notin Alive
  PROVE  SignUnderWay => SignUnderWay'
<1>1. /\ Len(wire) \in Nat \ {0} /\ Len(wire') = Len(wire) - 1
      /\ \A i \in 1 .. Len(wire) - 1 : wire'[i] = wire[i + 1]
  BY TailOf DEF FrameInv, StreamTypeOK
<1>2. ASSUME NEW i \in 1 .. Len(wire), wire[i].of \in Alive, IsLastUnit(wire[i])
      PROVE  SignUnderWay'
  <2>1. i # 1
    BY <1>2
  <2>2. i - 1 \in 1 .. Len(wire') /\ wire'[i - 1] = wire[i]
    BY <1>1, <2>1
  <2> QED BY <1>2, <2>2 DEF SignUnderWay, IsLastUnit
<1> QED BY <1>2 DEF SignUnderWay

(* The server reads on within a frame. *)
LEMMA GoodRead ==
  ASSUME IInv, ReadContinues
  PROVE  GoodInv'
<1> USE DEF IInv
<1>1. /\ Reading /\ wire # <<>> /\ wire' = Tail(wire)
      /\ UNCHANGED <<sending, written, readDeadline>>
      /\ UNCHANGED <<server, handler, node, age, silence, wellBehaved>>
  BY DEF ReadContinues, ReadHeader, ReadPayload, AtHeader, connVars, senderVars
<1>2. wire[1] \in Unit /\ wire[1].n < Size[wire[1].of] /\ length' # 0
  <2>1. CASE ReadHeader
    <3>1. AtHeader /\ length' \in 1 .. MaxFrame
      BY <2>1 DEF ReadHeader
    <3> QED BY <3>1, HeaderIsHeader, Sizes DEF Unit
  <2>2. CASE ReadPayload
    <3>1. /\ Len(payload) + 1 < length /\ length' = length
          /\ Len(payload) \in Nat /\ length \in Nat
      BY <2>2, StreamAssumption
      DEF StreamAssumption, ReadPayload, FrameInv, StreamTypeOK
    <3>2. /\ wire[1] \in Unit /\ wire[1].n = Len(payload) + 1
          /\ Size[wire[1].of] = length
      BY <3>1, <1>1, InFrame
    <3> QED BY <3>1, <3>2
  <2> QED BY <2>1, <2>2 DEF ReadContinues
<1>3. /\ Len(wire) \in Nat \ {0} /\ Len(wire') = Len(wire) - 1
      /\ \A i \in 1 .. Len(wire) - 1 : wire'[i] = wire[i + 1]
      /\ wire' = <<>> <=> Len(wire) = 1
  BY <1>1, TailOf DEF FrameInv, StreamTypeOK
<1>4. ~IsLastUnit(wire[1])
  BY <1>2, Sizes DEF IsLastUnit, Unit
<1> SUFFICES ASSUME wellBehaved PROVE ProperInv' /\ TimeInv'
  BY <1>1, GoodStays
<1>5. ProperInv /\ TimeInv
  BY DEF GoodNodeInv
<1>6. ProperInv'
  <2>1. ASSUME NEW i \in 1 .. Len(wire')
        PROVE  wire'[i].of \notin {"garbage", "oversize"}
    <3>1. i + 1 \in 1 .. Len(wire) /\ wire'[i] = wire[i + 1]
      BY <1>3
    <3> QED BY <3>1, <1>5 DEF ProperInv
  <2>2. ASSUME wire' # <<>> PROVE wire'[1].of = wire[1].of
    <3>1. 1 \in 1 .. Len(wire) - 1 /\ wire'[1] = wire[2]
      BY <2>2, <1>3
    <3>2. Succ(wire[1], wire[2])
      BY <3>1 DEF FrameInv, WireInv
    <3> QED BY <3>1, <3>2, <1>2 DEF Succ
  <2>3. ASSUME wire' = <<>>, sending # NoMessage PROVE sending = wire[1].of
    <3>1. Succ(wire[1], NextUnit)
      BY <2>3, <1>1, <1>3, <1>5 DEF ProperInv, FrameInv, SenderInv
    <3> QED BY <3>1, <1>2 DEF Succ, NextUnit
  <2> QED BY <1>1, <1>5, <2>1, <2>2, <2>3 DEF ProperInv
<1>7. TimeInv'
  <2>1. SignUnderWay => SignUnderWay'
    BY <1>1, <1>4, SignKept
  <2>2. ~IsFirst'
    BY <1>2 DEF IsFirst
  <2> QED BY <1>1, <1>5, <2>1, <2>2 DEF TimeInv
<1> QED BY <1>6, <1>7

(* Reading fails only on a node that is late, gone, or writes too much.    *)
LEMMA GoodReadFails ==
  ASSUME IInv, ReadFails
  PROVE  ~wellBehaved
<1> SUFFICES ASSUME wellBehaved PROVE FALSE
  OBVIOUS
<1> USE DEF IInv
<1>1. ProperInv /\ TimeInv
  BY DEF GoodNodeInv
<1>2. CASE ReadHeaderFails
  <2>1. AtHeader /\ Size[wire[1].of] \notin 1 .. MaxFrame /\ wire[1] \in Unit
    BY <1>2, HeaderIsHeader, Sizes, StreamAssumption
    DEF StreamAssumption, ReadHeaderFails, Unit
  <2>2. wire[1].of = "oversize"
    BY <2>1, Sizes DEF Unit
  <2>3. 1 \in 1 .. Len(wire)
    BY <2>1, TailOf DEF AtHeader, FrameInv, StreamTypeOK
  <2> QED BY <2>2, <2>3, <1>1 DEF ProperInv
<1>3. CASE ReadTimesOut
  <2>1. readDeadline = 0 /\ Reading
    BY <1>3 DEF ReadTimesOut, ReadFails
  <2> QED
    BY <2>1, <1>1, IntervalAssumption, StreamAssumption
    DEF IntervalAssumption, StreamAssumption, TimeInv, Reading
<1>4. CASE node = "gone"
  BY <1>4, <1>1 DEF ProperInv
<1> QED BY <1>2, <1>3, <1>4 DEF ReadFails

(* The handshake of a node in good standing is accepted. *)
LEMMA GoodHandshake ==
  ASSUME IInv, HandshakeArrives
  PROVE  GoodInv'
<1> USE DEF IInv
<1>1. /\ handler = "handshake" /\ Completes /\ last' = Decode(Frame)
      /\ UNCHANGED <<server, node>> /\ wire # <<>>
  BY DEF HandshakeArrives, Completes
<1>2. CASE Hangup /\ wellBehaved' = (wellBehaved /\ ~IsHandshake(last'))
  <2>1. ASSUME wellBehaved PROVE IsHandshake(last')
    <3>1. wire[1].of = "hello"
      BY <2>1, <1>1 DEF GoodNodeInv, ProperInv
    <3> QED BY <3>1, <1>1, FrameDecodes DEF IsHandshake
  <2>2. ~wellBehaved'
    BY <1>2, <2>1
  <2> QED BY <1>1, <1>2, <2>2, GoodHangup
<1>3. CASE /\ handler' = "serving" /\ age' = 0 /\ wire' = Tail(wire)
           /\ AwaitFrame(IdleTimeout)
           /\ UNCHANGED <<senderVars, silence, wellBehaved>>
  <2>1. /\ Len(wire) \in Nat \ {0} /\ Len(wire') = Len(wire) - 1
        /\ \A i \in 1 .. Len(wire) - 1 : wire'[i] = wire[i + 1]
    BY <1>1, <1>3, TailOf DEF FrameInv, StreamTypeOK
  <2>2. ASSUME wellBehaved PROVE ProperInv'
    <3>1. ProperInv
      BY <2>2 DEF GoodNodeInv
    <3>2. ASSUME NEW i \in 1 .. Len(wire')
          PROVE  wire'[i].of \notin {"garbage", "oversize"}
      <4>1. i + 1 \in 1 .. Len(wire) /\ wire'[i] = wire[i + 1]
        BY <2>1
      <4> QED BY <4>1, <3>1 DEF ProperInv
    <3> QED BY <1>1, <1>3, <3>1, <3>2 DEF ProperInv, senderVars
  <2>3. TimeInv'
    <3>1. readDeadline' = IdleTimeout
      BY <1>3 DEF AwaitFrame
    <3> QED
      BY <1>3, <3>1, IntervalAssumption, StreamAssumption
      DEF IntervalAssumption, StreamAssumption, TimeInv, ConnTypeOK
  <2> QED
    BY <1>1, <1>3, <2>2, <2>3
    DEF GoodInv, GoodNodeInv, NewInv, HealthyNodeIsKept
<1> QED BY <1>2, <1>3 DEF HandshakeArrives

(* Each later message of such a node is JSON; one that is no sign of life  *)
(* leaves those that are under way where they are.                         *)
LEMMA GoodMessage ==
  ASSUME IInv, MessageArrives
  PROVE  GoodInv'
<1> USE DEF IInv
<1>1. /\ handler = "serving" /\ Completes /\ last' = Decode(Frame)
      /\ UNCHANGED <<server, node, wellBehaved>> /\ wire # <<>>
  BY DEF MessageArrives, Completes
<1>2. /\ Len(wire) \in Nat \ {0} /\ last' = wire[1].of
      /\ 1 \in 1 .. Len(wire)
  BY <1>1, TailOf, FrameDecodes DEF FrameInv, StreamTypeOK
<1>3. CASE ~ReceivedRaw(last')
  <2>1. ~wellBehaved
    BY <1>2, <1>3 DEF ReceivedRaw, GoodNodeInv, ProperInv
  <2>2. Hangup
    BY <1>3 DEF MessageArrives
  <2> QED BY <1>1, <2>1, <2>2, GoodHangup
<1>4. CASE ReceivedRaw(last')
  <2>1. /\ age' = IF Touches(last') THEN 0 ELSE age
        /\ wire' = Tail(wire) /\ readDeadline' = IdleTimeout
        /\ UNCHANGED <<sending, handler, silence>>
    BY <1>4 DEF MessageArrives, AwaitFrame, senderVars
  <2>2. /\ Len(wire') = Len(wire) - 1
        /\ \A i \in 1 .. Len(wire) - 1 : wire'[i] = wire[i + 1]
    BY <1>1, <2>1, TailOf DEF FrameInv, StreamTypeOK
  <2> SUFFICES ASSUME wellBehaved PROVE ProperInv' /\ TimeInv'
    BY <1>1, <2>1, GoodStays DEF Reading
  <2>3. ProperInv /\ TimeInv
    BY DEF GoodNodeInv
  <2>4. ProperInv'
    <3>1. ASSUME NEW i \in 1 .. Len(wire')
          PROVE  wire'[i].of \notin {"garbage", "oversize"}
      <4>1. i + 1 \in 1 .. Len(wire) /\ wire'[i] = wire[i + 1]
        BY <1>2, <2>2
      <4> QED BY <4>1, <2>3 DEF ProperInv
    <3> QED BY <1>1, <2>1, <2>3, <3>1 DEF ProperInv
  <2>5. age' <= BeatInterval
    BY <1>1, <2>1, <2>3, IntervalAssumption DEF IntervalAssumption, TimeInv
  <2>6. ASSUME ~SignUnderWay' PROVE age' <= silence'
    <3>1. CASE Touches(last')
      BY <3>1, <2>1 DEF ConnTypeOK
    <3>2. CASE ~Touches(last')
      <4>1. ~SignUnderWay
        BY <3>2, <2>6, <1>1, <1>2, <2>1, SignKept DEF Touches, Alive
      <4> QED BY <3>2, <4>1, <1>1, <2>1, <2>3 DEF TimeInv
    <3> QED BY <3>1, <3>2
  <2>7. TimeInv'
    BY <1>1, <2>1, <2>5, <2>6, IntervalAssumption, StreamAssumption
    DEF IntervalAssumption, StreamAssumption, TimeInv, ConnTypeOK
  <2> QED BY <2>4, <2>7
<1> QED BY <1>3, <1>4

(* Time passes on a node that has said all it began to say. *)
LEMMA GoodTick ==
  ASSUME IInv, Tick
  PROVE  GoodInv'
<1> USE DEF IInv
<1>1. /\ Reading /\ wire = <<>> /\ readDeadline > 0
      /\ UNCHANGED <<sending, wire, length, server, handler, node>>
      /\ readDeadline' = readDeadline - 1
      /\ age' = age + 1 \/ age' = age
      /\ silence' = IF Soon THEN silence + 1 ELSE silence
      /\ wellBehaved' = (wellBehaved /\ sending = NoMessage /\ Soon)
      /\ readDeadline \in Nat /\ age \in Nat /\ silence \in Nat
  BY StreamAssumption, IntervalAssumption
  DEF StreamAssumption, IntervalAssumption, Tick, ReadTimesOut, ReadBlocked,
      senderVars, FrameInv, StreamTypeOK, ConnTypeOK
<1> SUFFICES ASSUME wellBehaved, sending = NoMessage, Soon
             PROVE  ProperInv' /\ TimeInv'
  BY <1>1, GoodStays
<1>2. ProperInv /\ TimeInv
  BY DEF GoodNodeInv
<1>3. length = 0
  BY <1>1, <1>2 DEF ProperInv, FrameInv, SenderInv
<1>4. ProperInv'
  BY <1>1, <1>2 DEF ProperInv
<1>5. ~SignUnderWay
  BY <1>1 DEF SignUnderWay, Alive, NoMessage
<1>6. ASSUME handler = "handshake"
      PROVE  /\ readDeadline' > 0
             /\ silence' < FrameTimeout
             /\ readDeadline' + silence' >= FrameTimeout
  <2>1. IsFirst
    BY <1>6, <1>1, <1>3 DEF IsFirst
  <2> QED
    BY <2>1, <1>6, <1>1, <1>2, StreamAssumption
    DEF StreamAssumption, TimeInv, Soon
<1>7. ASSUME handler = "serving"
      PROVE  /\ age' <= silence' /\ silence' <= BeatInterval
             /\ readDeadline' + silence' >= IdleTimeout
  BY <1>7, <1>1, <1>2, <1>5, StreamAssumption, IntervalAssumption
  DEF StreamAssumption, IntervalAssumption, TimeInv, Soon
<1>8. TimeInv'
  BY <1>1, <1>6, <1>7, StreamAssumption, IntervalAssumption
  DEF StreamAssumption, IntervalAssumption, TimeInv
<1> QED BY <1>4, <1>8

LEMMA GoodNext ==
  ASSUME IInv, [Next]_vars
  PROVE  GoodInv'
<1> USE DEF IInv
<1>1. CASE UNCHANGED <<streamVars, handler, node, age, silence, wellBehaved>>
  <2>1. server' \in {server, "stopped"} \/ server = "new"
    BY DEF Next, vars, connVars, Start, Stop, HandlerCancelled, CleanupEvicts,
           WatcherStep, OperatorStep, Connect, TlsDone, StreamAccepted,
           BeginSend, ContinueSend, Leave, Freeze, SetupFails, ReadContinues,
           ReadFails, HandshakeArrives, MessageArrives, Tick
  <2>2. ProperInv' <=> ProperInv
    BY <1>1 DEF streamVars, ProperInv
  <2>3. TimeInv' <=> TimeInv
    BY <1>1 DEF streamVars, TimeInv, SignUnderWay, IsFirst, IsLastUnit
  <2> QED
    BY <1>1, <2>1, <2>2, <2>3
    DEF GoodInv, GoodNodeInv, NewInv, HealthyNodeIsKept
<1>2. CASE HandlerCancelled
  BY <1>2, GoodHangup DEF HandlerCancelled
<1>3. CASE CleanupEvicts
  <2>1. ~wellBehaved
    BY <1>3, IntervalAssumption
    DEF IntervalAssumption, CleanupEvicts, GoodNodeInv, TimeInv, ConnTypeOK
  <2> QED BY <1>3, <2>1, GoodHangup DEF CleanupEvicts
<1>4. CASE SetupFails
  <2>1. ~wellBehaved
    BY <1>4 DEF SetupFails, GoodNodeInv, ProperInv
  <2> QED BY <1>4, <2>1, GoodHangup DEF SetupFails
<1>5. CASE ReadFails
  <2>1. ~wellBehaved
    BY <1>5, GoodReadFails
  <2> QED BY <1>5, <2>1, GoodHangup DEF ReadFails
<1>6. CASE Leave \/ Freeze
  BY <1>6
  DEF Leave, Freeze, GoodInv, GoodNodeInv, NewInv, HealthyNodeIsKept
<1>7. CASE Connect \/ TlsDone \/ StreamAccepted
  BY <1>7, GoodSetup
<1> QED
  BY <1>1, <1>2, <1>3, <1>4, <1>5, <1>6, <1>7, GoodBegin, GoodWrite, GoodRead,
     GoodHandshake, GoodMessage, GoodTick
  DEF Next, vars, connVars, Start, Stop, WatcherStep, OperatorStep

-----------------------------------------------------------------------------
LEMMA InitIInv == Init => IInv
<1> SUFFICES ASSUME Init PROVE IInv
  OBVIOUS
<1>1. CertInv /\ FrameInv
  BY CertInitInv, FrameInitInv
<1>2. wellBehaved \in BOOLEAN /\ ~wellBehaved
  BY Zenon DEF Init
<1>3. ConnTypeOK
  BY <1>2, IntervalAssumption, StreamAssumption
  DEF IntervalAssumption, StreamAssumption, Init, ConnTypeOK, HandlerPC
<1> QED
  BY <1>1, <1>2, <1>3 DEF IInv, GoodNodeInv, NewInv, HealthyNodeIsKept

LEMMA NextIInv == IInv /\ [Next]_vars => IInv'
<1> SUFFICES ASSUME IInv, [Next]_vars PROVE IInv'
  OBVIOUS
<1>1. CertInv' /\ FrameInv' /\ ConnTypeOK'
  BY CertNext, FrameNext, ConnNext DEF IInv
<1>2. GoodInv'
  BY GoodNext
<1> QED BY <1>1, <1>2 DEF IInv, GoodInv

LEMMA Invariance == Spec => []IInv
BY InitIInv, NextIInv, PTL DEF Spec

(* Type correctness of the connection. *)
THEOREM TypeCorrect == Spec => []TypeOK
<1>1. IInv => TypeOK
  BY DEF IInv, CertInv, FrameInv, ConnTypeOK, TypeOK
<1> QED BY <1>1, Invariance, PTL

(* A node that sends its heartbeats in time and writes nothing it should   *)
(* not is never dropped by a running server: neither the idle deadline of  *)
(* readControlLoop nor the cleanup loop reaches it, for every interval     *)
(* shorter than the one and not longer than the other, and no frame of its *)
(* is taken for something else, however its bytes are cut.                 *)
THEOREM PunctualNodesAreKept == Spec => []HealthyNodeIsKept
<1>1. IInv => HealthyNodeIsKept
  BY DEF IInv
<1> QED BY <1>1, Invariance, PTL

(* The listener and tlsConfig only ever hold the generated pair, if no     *)
(* file is configured, or a matching pair that has been in the files.      *)
THEOREM ConfiguredPairIsServed == Spec => []ServesConfiguredPair
<1>1. IInv => ServesConfiguredPair
  BY DEF IInv, CertInv, NoFiles, ServesConfiguredPair
<1> QED BY <1>1, Invariance, PTL

-----------------------------------------------------------------------------
(***************************************************************************)
(* The messages of a sequence of units.                                    *)
(***************************************************************************)

(* The loop of Completed, turn by turn. *)
Completing(after, units) ==
  /\ \A i \in 0 .. Len(units) : after[i] \in Seq(Message)
  /\ after[0] = <<>>
  /\ \A i \in 1 .. Len(units) : after[i] = AddMessage(after[i - 1], units[i])

LEMMA CompletedRuns ==
  ASSUME NEW units \in Seq(Unit)
  PROVE  \E after : Completing(after, units) /\ Completed(units) = after[Len(units)]
<1> DEFINE n == Len(units)
           X == Seq(Message)
           turn == [i \in 1 .. n |-> [ms \in X |-> AddMessage(ms, units[i])]]
<1>1. n \in Nat /\ \A i \in 1 .. n : units[i] \in Unit
  OBVIOUS
<1>2. turn \in Turns(n, X) /\ <<>> \in X
  <2>1. ASSUME NEW i \in 1 .. n, NEW ms \in X PROVE AddMessage(ms, units[i]) \in X
    BY <1>1 DEF AddMessage, Unit
  <2> QED BY <2>1 DEF Turns
<1>3. PICK run : IsRun(run, n, X, <<>>, turn)
  <2> HIDE DEF turn, X
  <2> QED BY <1>1, <1>2, LoopRuns
<1>4. run = [i \in 0 .. n |->
               IF i = 0 THEN <<>> ELSE AddMessage(run[i - 1], units[i])]
  <2>1. ASSUME NEW i \in 1 .. n PROVE run[i] = AddMessage(run[i - 1], units[i])
    <3>1. run[i - 1] \in X
      BY <1>1, <1>3 DEF IsRun
    <3> QED BY <1>3, <3>1 DEF IsRun
  <2> QED BY <1>1, <1>3, <2>1 DEF IsRun
<1>5. PICK after :
        /\ after = [i \in 0 .. Len(units) |->
                      IF i = 0 THEN <<>> ELSE AddMessage(after[i - 1], units[i])]
        /\ Completed(units) = after[Len(units)]
  BY <1>4, Zenon DEF Completed
<1>6. after[0] = <<>> /\ \A i \in 1 .. n : after[i] = AddMessage(after[i - 1], units[i])
  BY <1>1, <1>5
<1>7. 0 .. n \subseteq {i \in 0 .. n : after[i] \in X}
  <2> DEFINE T == {i \in 0 .. n : after[i] \in X}
  <2>1. 0 \in T
    <3>1. after[0] \in X
      BY <1>2, <1>6, Zenon
    <3> QED BY <1>1, <3>1
  <2>2. ASSUME NEW i \in 0 .. n - 1, i \in T PROVE i + 1 \in T
    <3>1. i + 1 \in 1 .. n /\ (i + 1) - 1 = i
      BY <1>1
    <3>2. after[i + 1] = AddMessage(after[i], units[i + 1]) /\ units[i + 1] \in Unit
      BY <1>1, <1>6, <3>1
    <3>3. after[i + 1] \in X
      BY <2>2, <3>2 DEF AddMessage, Unit
    <3> QED BY <1>1, <3>1, <3>3
  <2> HIDE DEF T
  <2>3. 0 .. n \subseteq T
    BY <1>1, <2>1, <2>2, UpTo
  <2> QED BY <2>3 DEF T
<1>8. Completing(after, units)
  BY <1>6, <1>7 DEF Completing
<1> QED BY <1>5, <1>8

LEMMA CompletedNone == Completed(<<>>) = <<>>
<1>1. <<>> \in Seq(Unit) /\ Len(<<>>) = 0
  OBVIOUS
<1>2. PICK after : Completing(after, <<>>) /\ Completed(<<>>) = after[Len(<<>>)]
  BY <1>1, CompletedRuns
<1> QED BY <1>1, <1>2 DEF Completing

(* One more unit written. *)
LEMMA CompletedAppend ==
  ASSUME NEW units \in Seq(Unit), NEW u \in Unit
  PROVE  /\ Completed(units) \in Seq(Message)
         /\ Completed(Append(units, u)) = AddMessage(Completed(units), u)
<1> DEFINE n == Len(units)
           more == Append(units, u)
<1>1. /\ n \in Nat /\ more \in Seq(Unit) /\ Len(more) = n + 1 /\ more[n + 1] = u
      /\ \A i \in 1 .. n : more[i] = units[i]
  BY AppendOf
<1> HIDE DEF more
<1>2. PICK a : Completing(a, units) /\ Completed(units) = a[n]
  BY CompletedRuns
<1>3. PICK b : Completing(b, more) /\ Completed(more) = b[n + 1]
  BY <1>1, CompletedRuns
<1> DEFINE T == {i \in 0 .. n : a[i] = b[i]}
<1>4. 0 \in T
  BY <1>1, <1>2, <1>3 DEF Completing
<1>5. ASSUME NEW i \in 0 .. n - 1, i \in T PROVE i + 1 \in T
  <2>1. i + 1 \in 1 .. n /\ i + 1 \in 1 .. n + 1 /\ (i + 1) - 1 = i
    BY <1>1
  <2>2. a[i + 1] = AddMessage(a[i], units[i + 1])
    BY <1>2, <2>1 DEF Completing
  <2>3. b[i + 1] = AddMessage(b[i], more[i + 1])
    BY <1>1, <1>3, <2>1 DEF Completing
  <2>4. a[i + 1] = b[i + 1]
    BY <1>1, <1>5, <2>1, <2>2, <2>3
  <2> QED BY <2>1, <2>4
<1>6. 0 .. n \subseteq T
  <2> HIDE DEF T
  <2> QED BY <1>1, <1>4, <1>5, UpTo
<1>7. a[n] = b[n] /\ a[n] \in Seq(Message)
  BY <1>1, <1>2, <1>6 DEF Completing
<1>8. b[n + 1] = AddMessage(b[n], u)
  <2>1. n + 1 \in 1 .. Len(more) /\ (n + 1) - 1 = n
    BY <1>1
  <2> QED BY <1>1, <1>3, <2>1 DEF Completing
<1> QED BY <1>2, <1>3, <1>7, <1>8 DEF more

(* One unit read: the message it completes is the first. *)
LEMMA CompletedTail ==
  ASSUME NEW units \in Seq(Unit), units # <<>>
  PROVE  IF IsLastUnit(units[1])
         THEN /\ Completed(units) # <<>>
              /\ Head(Completed(units)) = units[1].of
              /\ Tail(Completed(units)) = Completed(Tail(units))
         ELSE Completed(units) = Completed(Tail(units))
<1> DEFINE n == Len(Tail(units))
           rest == Tail(units)
           ends == IsLastUnit(units[1])
           Right(s, t) == IF ends THEN s # <<>> /\ Head(s) = units[1].of /\ Tail(s) = t
                          ELSE s = t
<1>1. /\ n \in Nat /\ rest \in Seq(Unit) /\ Len(units) = n + 1
      /\ units[1] \in Unit
      /\ \A i \in 1 .. n : rest[i] = units[i + 1] /\ rest[i] \in Unit
  BY TailOf
<1> HIDE DEF rest
<1>2. PICK a : Completing(a, units) /\ Completed(units) = a[n + 1]
  BY <1>1, CompletedRuns
<1>3. PICK b : Completing(b, rest) /\ Completed(rest) = b[n]
  BY <1>1, CompletedRuns DEF rest
<1> DEFINE T == {i \in 0 .. n : Right(a[i + 1], b[i])}
<1>4. 0 \in T
  <2>1. 1 \in 1 .. Len(units) /\ 1 - 1 = 0
    BY <1>1
  <2>2. a[1] = AddMessage(<<>>, units[1]) /\ b[0] = <<>>
    BY <1>2, <1>3, <2>1 DEF Completing
  <2>3. units[1].of \in Message
    BY <1>1 DEF Unit
  <2>4. Right(AddMessage(<<>>, units[1]), <<>>)
    BY <2>3 DEF AddMessage
  <2> HIDE DEF Right
  <2> QED BY <1>1, <2>2, <2>4
<1>5. ASSUME NEW i \in 0 .. n - 1, i \in T PROVE i + 1 \in T
  <2>1. /\ i + 2 \in 1 .. Len(units) /\ (i + 2) - 1 = i + 1 /\ (i + 1) + 1 = i + 2
        /\ i + 1 \in 1 .. n /\ (i + 1) - 1 = i /\ i + 1 \in 0 .. Len(units) /\ i \in 0 .. n
    BY <1>1
  <2>2. /\ a[i + 2] = AddMessage(a[i + 1], units[i + 2])
        /\ b[i + 1] = AddMessage(b[i], rest[i + 1])
    BY <1>2, <1>3, <2>1 DEF Completing, rest
  <2>3. units[i + 2] = rest[i + 1] /\ rest[i + 1].of \in Message
    BY <1>1, <2>1 DEF Unit
  <2>4. a[i + 1] \in Seq(Message) /\ b[i] \in Seq(Message)
    BY <1>2, <1>3, <2>1 DEF Completing, rest
  <2>5. Right(a[i + 1], b[i])
    BY <1>5
  <2>6. ASSUME NEW s \in Seq(Message), NEW t \in Seq(Message), NEW v, v.of \in Message,
               Right(s, t)
        PROVE  Right(AddMessage(s, v), AddMessage(t, v))
    <3>1. CASE ends
      <4>1. s # <<>> /\ Head(s) = units[1].of /\ Tail(s) = t
        BY <2>6, <3>1
      <4>2. /\ Append(s, v.of) # <<>> /\ Head(Append(s, v.of)) = Head(s)
            /\ Tail(Append(s, v.of)) = Append(Tail(s), v.of)
        BY <2>6, <4>1
      <4> QED BY <3>1, <4>1, <4>2 DEF AddMessage
    <3>2. CASE ~ends
      BY <2>6, <3>2
    <3> QED BY <3>1, <3>2
  <2> HIDE DEF Right
  <2>7. Right(a[i + 2], b[i + 1])
    BY <2>2, <2>3, <2>4, <2>5, <2>6
  <2> QED BY <2>1, <2>7
<1>6. 0 .. n \subseteq T
  <2> HIDE DEF T
  <2> QED BY <1>1, <1>4, <1>5, UpTo
<1>7. Right(a[n + 1], b[n])
  <2> HIDE DEF Right
  <2> QED BY <1>1, <1>6
<1> QED BY <1>2, <1>3, <1>7 DEF rest

-----------------------------------------------------------------------------
(***************************************************************************)
(* Every step of the stream is a step of the channel, or none.             *)
(***************************************************************************)

(* Nothing is completed, nothing is received. *)
LEMMA ChannelStutters ==
  ASSUME Reading' = Reading, Reading => Completed(wire') = Completed(wire),
         last' = last
  PROVE  UNCHANGED Channel!vars
BY DEF Channel!vars, InTransit

LEMMA ChannelHandled ==
  ASSUME Reading' = Reading, Reading => Completed(wire') = Completed(wire),
         last' = NoMessage
  PROVE  Channel!Handled
BY DEF Channel!Handled, InTransit

(* The deferred calls of the handler close the channel. *)
LEMMA ChannelCloses ==
  ASSUME Hangup, last' = NoMessage, Reading
  PROVE  Channel!Close
<1>1. ~Reading'
  BY DEF Hangup, Reading
<1> QED BY <1>1 DEF Channel!Close, InTransit

(* The last unit of a frame sends its message, the others send nothing. *)
LEMMA ChannelSends ==
  ASSUME FrameInv, ContinueSend
  PROVE  (\E m \in Message : Channel!Send(m)) \/ UNCHANGED Channel!vars
<1>1. /\ Reading /\ Reading' = Reading /\ sending # NoMessage
      /\ wire' = Append(wire, NextUnit) /\ last' = last
  BY DEF ContinueSend, WriteUnit, receiverVars, connVars, Reading
<1>2. /\ sending \in Message /\ wire \in Seq(Unit) /\ written \in 0 .. Size[sending]
  BY <1>1, Sizes, StreamAssumption
  DEF StreamAssumption, FrameInv, StreamTypeOK, SenderInv
<1>3. NextUnit \in Unit /\ NextUnit.of = sending
  BY <1>2, UnitType DEF NextUnit
<1>4. Completed(wire') = AddMessage(Completed(wire), NextUnit)
  BY <1>1, <1>2, <1>3, CompletedAppend
<1>5. CASE IsLastUnit(NextUnit)
  <2>1. Completed(wire') = Append(Completed(wire), sending)
    BY <1>3, <1>4, <1>5 DEF AddMessage
  <2>2. Channel!Send(sending)
    BY <1>1, <2>1 DEF Channel!Send, InTransit
  <2> QED BY <1>2, <2>2
<1>6. CASE ~IsLastUnit(NextUnit)
  <2>1. Completed(wire') = Completed(wire)
    BY <1>4, <1>6 DEF AddMessage
  <2> QED BY <1>1, <2>1, ChannelStutters
<1> QED BY <1>5, <1>6

(* Up to the last unit of a frame, nothing is received. *)
LEMMA ChannelWaits ==
  ASSUME FrameInv, ReadContinues
  PROVE  Channel!Handled \/ UNCHANGED Channel!vars
<1>1. Reading /\ Reading' = Reading
  BY DEF ReadContinues, connVars, Reading
<1>2. ASSUME wire # <<>>, wire' = Tail(wire), ~IsLastUnit(wire[1])
      PROVE  Completed(wire') = Completed(wire)
  BY <1>2, CompletedTail DEF FrameInv, StreamTypeOK
<1>3. CASE ReadHeader
  <2>1. wire # <<>> /\ wire' = Tail(wire) /\ last' = NoMessage
    BY <1>3 DEF ReadHeader, AtHeader
  <2>2. wire[1] \in Unit /\ wire[1].n = 0
    BY <1>3, HeaderIsHeader DEF ReadHeader
  <2>3. ~IsLastUnit(wire[1])
    BY <2>2, Sizes DEF IsLastUnit, Unit
  <2> QED BY <1>1, <1>2, <2>1, <2>3, ChannelHandled
<1>4. CASE ReadPayload
  <2>1. wire # <<>> /\ wire' = Tail(wire) /\ last' = last /\ Len(payload) + 1 < length
    BY <1>4 DEF ReadPayload
  <2>2. length \in Nat /\ Len(payload) \in Nat
    BY StreamAssumption DEF StreamAssumption, FrameInv, StreamTypeOK
  <2>3. wire[1] = [of |-> wire[1].of, n |-> Len(payload) + 1] /\ Size[wire[1].of] = length
    BY <2>1, <2>2, InFrame
  <2>4. ~IsLastUnit(wire[1])
    BY <2>1, <2>2, <2>3 DEF IsLastUnit
  <2> QED BY <1>1, <1>2, <2>1, <2>4, ChannelStutters
<1> QED BY <1>3, <1>4 DEF ReadContinues

(* What is received is the first message that was sent and not received,   *)
(* whether it keeps the stream open or ends it.                            *)
LEMMA ChannelReceives ==
  ASSUME FrameInv, HandshakeArrives \/ MessageArrives
  PROVE  Channel!Receive
<1>1. Reading /\ Completes /\ last' = Decode(Frame)
  BY DEF HandshakeArrives, MessageArrives, Reading
<1>2. wire # <<>> /\ wire \in Seq(Unit)
  BY <1>1 DEF Completes, FrameInv, StreamTypeOK
<1>3. last' = wire[1].of /\ IsLastUnit(wire[1])
  BY <1>1, FrameDecodes
<1>4. /\ Completed(wire) # <<>> /\ Head(Completed(wire)) = last'
      /\ Tail(Completed(wire)) = Completed(Tail(wire))
  BY <1>2, <1>3, CompletedTail
<1>5. \/ Reading' /\ Reading' = Reading /\ wire' = Tail(wire)
      \/ ~Reading' /\ Reading' = FALSE
  BY DEF HandshakeArrives, MessageArrives, Reading, Hangup
<1> QED BY <1>1, <1>4, <1>5 DEF Channel!Receive, InTransit

LEMMA ChannelStep ==
  ASSUME FrameInv, [Next]_vars
  PROVE  [Channel!Next]_(Channel!vars)
<1>1. CASE UNCHANGED <<wire, last, handler>>
  BY <1>1, ChannelStutters DEF Reading
<1>2. CASE Connect \/ TlsDone
  <2>1. ~Reading /\ Reading' = Reading /\ last' = last
    BY <1>2 DEF Connect, TlsDone, Reading, streamVars
  <2> QED BY <2>1, ChannelStutters
<1>3. CASE StreamAccepted
  <2>1. ~Reading /\ Reading' /\ wire' = wire /\ last' = NoMessage
    BY <1>3 DEF StreamAccepted, Reading
  <2>2. Completed(wire') = <<>>
    BY <2>1, IdleIsEmpty, CompletedNone
  <2>3. Channel!Open
    BY <2>1, <2>2 DEF Channel!Open, InTransit
  <2> QED BY <2>3 DEF Channel!Next
<1>4. CASE ContinueSend
  BY <1>4, ChannelSends DEF Channel!Next
<1>5. CASE HandlerCancelled \/ CleanupEvicts \/ ReadFails
  <2>1. Hangup /\ last' = NoMessage /\ Reading
    BY <1>5 DEF HandlerCancelled, CleanupEvicts, ReadFails, Reading
  <2> QED BY <2>1, ChannelCloses DEF Channel!Next
<1>6. CASE SetupFails
  <2>1. ~Reading /\ Reading' = Reading /\ last' = NoMessage
    BY <1>6 DEF SetupFails, Hangup, Reading
  <2> QED BY <2>1, ChannelHandled DEF Channel!Next
<1>7. CASE ReadContinues
  BY <1>7, ChannelWaits DEF Channel!Next
<1>8. CASE HandshakeArrives \/ MessageArrives
  BY <1>8, ChannelReceives DEF Channel!Next
<1>9. CASE Tick
  <2>1. UNCHANGED <<wire, handler>> /\ last' = NoMessage
    BY <1>9 DEF Tick
  <2> QED BY <2>1, ChannelHandled DEF Channel!Next, Reading
<1> QED
  BY <1>1, <1>2, <1>3, <1>4, <1>5, <1>6, <1>7, <1>8, <1>9
  DEF Next, vars, connVars, streamVars, receiverVars, Start, Stop, WatcherStep,
      OperatorStep, BeginSend, BeginFrame, Leave, Freeze

(* Frames cut anywhere, through a window of any size, with deadlines that  *)
(* pass and nodes that stop in the middle, are a channel of whole          *)
(* messages: ReceiveFrame returns what SendFrame was given, each message   *)
(* once and in order, until the stream is closed.                          *)
THEOREM FramesAreMessages == Spec => ImplementsChannel
<1>1. Init => Channel!Init
  BY DEF Init, StreamInit, Reading, Channel!Init, InTransit
<1>2. IInv /\ [Next]_vars => [Channel!Next]_(Channel!vars)
  BY ChannelStep DEF IInv
<1> QED BY <1>1, <1>2, Invariance, PTL DEF Spec, ImplementsChannel, Channel!Spec
=============================================================================
