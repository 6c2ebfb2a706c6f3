-------------------------------- MODULE Codec --------------------------------
(***************************************************************************)
(* The hand-rolled binary codec of ClientMsg and ServerMsg.  A message is  *)
(* a record of its tag and its values: the fields of the message in order  *)
(* of declaration, except that an AudioWrite has its frames, a RadioEvent  *)
(* its own tag and, for GpioChange, the pins, and an Error the bytes of    *)
(* its text.  A frame is a sequence of signed samples.  Bytes are digits   *)
(* to the base Base, so that an instance can be small.                     *)
(***************************************************************************)
EXTENDS Integers, Sequences, SequencesExt

CONSTANTS Base,       \* values of a byte (256)
          Samples,    \* samples of a frame (96)
          MaxFrames   \* most frames an AudioWrite may announce (65 536)

ASSUME CodecAssumption == /\ Base \in Nat /\ Base >= 8 /\ Base % 2 = 0
                          /\ Samples \in Nat \ {0} /\ MaxFrames \in Nat

Byte == 0..(Base - 1)
FrameBytes == 2 * Samples

\* MUTANT: the top of a value is left in one byte.
LeWide(v, n) == [i \in 1..n |-> v \div Base^(i - 1)]

\* push_u8 .. push_u64: the n low bytes of v, little-endian; from_le_bytes.
Le(v, n) == [i \in 1..n |-> (v \div Base^(i - 1)) % Base]
FromLe(b) == FoldRight(LAMBDA d, v : d + Base * v, b, 0)

\* Option<(value, rest)>
None == <<>>
Some(v, rest) == <<v, rest>>

From(b, i) == SubSeq(b, i, Len(b))

\* read_u8 .. read_u64 on a list of fields of these widths, None when bytes lack.
ReadFields(b, widths) ==
  FoldLeft(LAMBDA r, n : IF r = None \/ Len(r[2]) < n THEN None
                         ELSE Some(Append(r[1], FromLe(SubSeq(r[2], 1, n))), From(r[2], n + 1)),
           Some(<<>>, b), widths)

PushFields(vals, widths) == FlattenSeq([i \in DOMAIN vals |-> Le(vals[i], widths[i])])

\* AudioFrame: the two bytes of each i16.
EncodeFrame(f) == FlattenSeq([i \in 1..Samples |-> Le(f[i], 2)])

\* MUTANT: the sample keeps its sign bit as a value.
Unsigned(u) == u

Signed(u) == IF 2 * u >= Base^2 THEN u - Base^2 ELSE u
DecodeFrame(b) == [i \in 1..Samples |-> Signed(FromLe(SubSeq(b, 2 * i - 1, 2 * i)))]

-----------------------------------------------------------------------------
(* Widths of the fields by tag.  ClientMsg: Subscribe, SetGpio, AudioWrite  *)
(* (the count), Ping, GetStats; ServerMsg: AudioReady, RadioEvent (its tag),*)
(* Stats with the LatencyStats, Pong, Error (the length).                   *)
ClientWidths == [t \in 0..4 |-> <<<<1>>, <<1, 1>>, <<4>>, <<>>, <<>>>>[t + 1]]
ServerWidths == [t \in 0..4 |-> <<<<8>>, <<1>>, <<8, 8, 4, 4, 4>>, <<>>, <<2>>>>[t + 1]]

Msg(tag, vals) == [tag |-> tag, vals |-> vals]

EncodeClientMsg(m) ==
  <<m.tag>> \o (IF m.tag = 2
                THEN Le(Len(m.vals), 4) \o FlattenSeq([i \in DOMAIN m.vals |-> EncodeFrame(m.vals[i])])
                ELSE PushFields(m.vals, ClientWidths[m.tag]))

EncodeServerMsg(m) ==
  <<m.tag>> \o (CASE m.tag = 1 -> PushFields(m.vals, <<1, 1>>)
                  [] m.tag = 4 -> Le(Len(m.vals), 2) \o m.vals
                  [] OTHER -> PushFields(m.vals, ServerWidths[m.tag]))

\* The frames of an AudioWrite: None if the count is absurd or bytes lack.
DecodeFrames(n, b) ==
  IF n > MaxFrames \/ Len(b) < n * FrameBytes THEN None
  ELSE Some(Msg(2, [i \in 1..n |-> DecodeFrame(From(b, (i - 1) * FrameBytes + 1))]),
            From(b, n * FrameBytes + 1))

\* StreamFlags::from_bits_truncate, and high != 0.
Bool(v) == IF v = 0 THEN 0 ELSE 1
Normal(m) == CASE m.tag = 0 -> Msg(0, <<m.vals[1] % 8>>)
               [] m.tag = 1 -> Msg(1, <<m.vals[1], Bool(m.vals[2])>>)
               [] OTHER -> m

\* The fixed part of a message: its tag and the fields of that tag.
Header(b, widths) ==
  IF b = <<>> \/ Head(b) \notin DOMAIN widths THEN None ELSE ReadFields(Tail(b), widths[Head(b)])

DecodeClientMsg(b) ==
  LET h == Header(b, ClientWidths)
  IN  CASE h = None -> None
        [] h # None /\ Head(b) = 2 -> DecodeFrames(h[1][1], h[2])
        [] OTHER -> Some(Normal(Msg(Head(b), h[1])), h[2])

\* RadioEvent::decode, after its tag; and read_str (the texts are ASCII).
DecodeRadioEvent(ev, b) == CASE ev \in 0..3 -> Some(Msg(1, <<ev>>), b)
                             [] ev = 4 /\ b # <<>> -> Some(Msg(1, <<4, Head(b)>>), Tail(b))
                             [] OTHER -> None
DecodeStr(n, b) == IF Len(b) < n \/ \E i \in 1..n : 2 * b[i] >= Base THEN None
                   ELSE Some(Msg(4, SubSeq(b, 1, n)), From(b, n + 1))

DecodeServerMsg(b) ==
  LET h == Header(b, ServerWidths)
  IN  CASE h = None -> None
        [] h # None /\ Head(b) = 1 -> DecodeRadioEvent(h[1][1], h[2])
        [] h # None /\ Head(b) = 4 -> DecodeStr(h[1][1], h[2])
        [] OTHER -> Some(Msg(Head(b), h[1]), h[2])

\* to_framed; write_msg and write_client_msg put the same bytes on the socket.
Framed(payload) == Le(Len(payload), 4) \o payload
==============================================================================
