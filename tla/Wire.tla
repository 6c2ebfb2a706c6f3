-------------------------------- MODULE Wire --------------------------------
(***************************************************************************)
(* One direction of a connection as a stream of bytes: messages are framed *)
(* with their length and encoded, the peer may die in the middle of one,   *)
(* and the reader takes a length, rejects it if it is too large, waits for *)
(* that many bytes and decodes them.  From the server come, among others,  *)
(* the Stats: the dispatch thread records a latency per frame and makes    *)
(* statistics of every StatsEvery of them; a handler that answers GetStats *)
(* copies the last ones while the dispatch thread goes on.                 *)
(***************************************************************************)
EXTENDS Codec, LatencyHistogram

CONSTANTS MaxLen,      \* longest payload a reader accepts (65 536)
          StatsEvery,  \* frames between two Stats (5000)
          Requests,    \* ClientMsgs that a client sends
          Notices,     \* ServerMsgs other than Stats
          Cuts,        \* how many bytes of a message a dying writer has written
          SockCap,     \* what a socket buffer holds, in messages
          Elapsed,     \* latencies of the dispatch thread
          Counters,    \* values of the xrun counters
          MaxRequests, \* bound on requests
          MaxNotices,  \* bound on notices
          MaxWindows   \* bound on the windows of StatsEvery frames

ASSUME WireAssumption == /\ MaxLen \in Nat /\ StatsEvery \in Nat \ {0}
                         /\ Elapsed \subseteq Latencies /\ Counters \subseteq Nat /\ Cuts \subseteq Nat
                         /\ SockCap \in Nat \ {0}
                         /\ MaxRequests \in Nat /\ MaxNotices \in Nat /\ MaxWindows \in Nat

\* The requests of the C interface: flags are truncated, ints are truth values.
CmSubscribe(flags) == Msg(0, <<flags % 8>>)
CmSetGpio(pin, high) == Msg(1, <<pin, Bool(high)>>)
CmSetPtt(asserted) == CmSetGpio(0, asserted)
WriteAudio(frames) == Msg(2, frames)

VARIABLES dir,      \* whose messages they are: "client" or "server"
          stream,   \* the bytes written and not yet read
          writer,   \* "open", "dead"
          reader,   \* "open", "closed" after end of file or an error
          sent,     \* history: the messages written whole and not yet read
          got,      \* history: the last message decoded and what was sent, <<>> at first
          count,    \* number of messages written that are no Stats
          hist,     \* the dispatch thread's histogram
          due,      \* 1 when it has stored a snapshot and has yet to broadcast it
          last,     \* last_latency
          copy,     \* the handler's copy of it, <<>> if none
          windows   \* history: counts by latency; the last window is the current one

vars == <<dir, stream, writer, reader, sent, got, count, hist, due, last, copy, windows>>
dispatch == <<hist, due, last, windows>>

NoSamples == [us \in Elapsed |-> 0]

Init == /\ dir \in {"client", "server"}
        /\ stream = <<>> /\ writer = "open" /\ reader = "open"
        /\ sent = <<>> /\ got = <<>> /\ count = 0
        /\ hist = New /\ due = 0 /\ last = <<0, 0, 0>> /\ copy = <<>>
        /\ windows = <<NoSamples>>

Encode(m) == IF dir = "client" THEN EncodeClientMsg(m) ELSE EncodeServerMsg(m)
Decode(b) == IF dir = "client" THEN DecodeClientMsg(b) ELSE DecodeServerMsg(b)

-----------------------------------------------------------------------------
(* Writing                                                                 *)

\* Room in the socket, with the channel of the server's writer thread before it.
Room == writer = "open" /\ reader = "open" /\ Len(sent) < SockCap

\* write_msg, write_client_msg; they wait for room.
Write(m) == /\ Room
            /\ stream' = stream \o Framed(Encode(m))
            /\ sent' = Append(sent, m)
            /\ UNCHANGED <<dir, writer, reader, got>>

\* Messages that are no Stats, and how many of them there may be.
Messages == IF dir = "client" THEN Requests ELSE Notices
MayWrite == /\ Room
            /\ count < (IF dir = "client" THEN MaxRequests ELSE MaxNotices)

Send(m) == /\ MayWrite
           /\ Write(m)
           /\ count' = count + 1
           /\ UNCHANGED <<copy, dispatch>>

\* The writing process dies with a part of a message on the socket.
Die(m, k) == /\ MayWrite
             /\ k < Len(Framed(Encode(m)))
             /\ stream' = stream \o SubSeq(Framed(Encode(m)), 1, k)
             /\ writer' = "dead"
             /\ UNCHANGED <<dir, reader, sent, got, count, copy, dispatch>>

\* The dispatch thread is done with a frame: histogram.record, and every
\* StatsEvery frames last_latency.
Dispatch(us) ==
  LET h == Record(hist, us)
  IN  /\ dir = "server" /\ writer = "open" /\ due = 0 /\ Len(windows) <= MaxWindows
      /\ hist' = h
      /\ windows' = [windows EXCEPT ![Len(windows)][us] = @ + 1]
      /\ due' = IF h.total = StatsEvery THEN 1 ELSE 0
      /\ last' = IF h.total = StatsEvery THEN ToStats(h) ELSE last
      /\ UNCHANGED <<dir, stream, writer, reader, sent, got, count, copy>>

Stats(rx, tx, lat) == Msg(2, <<rx, tx>> \o lat)

\* try_send of Stats, which never waits: without room, or with a client that is
\* gone, they are dropped.
TrySend(lat) ==
  /\ writer = "open"
  /\ IF Room THEN \E rx, tx \in Counters : Write(Stats(rx, tx, lat))
             ELSE UNCHANGED <<dir, stream, writer, reader, sent, got>>

\* MUTANT: the histogram is not reset.
BroadcastStatsKeeping == /\ due = 1
                         /\ TrySend(last)
                         /\ due' = 0
                         /\ hist' = [hist EXCEPT !.total = 0]
                         /\ windows' = Append(windows, NoSamples)
                         /\ UNCHANGED <<count, last, copy>>

\* broadcast_stats, and histogram.reset whether or not the Stats were dropped.
BroadcastStats == /\ due = 1
                  /\ TrySend(last)
                  /\ due' = 0
                  /\ hist' = New
                  /\ windows' = Append(windows, NoSamples)
                  /\ UNCHANGED <<count, last, copy>>

\* The handler of a GetStats copies last_latency under its lock and answers
\* when it has read the counters.
CopyLatency == /\ dir = "server" /\ writer = "open" /\ copy = <<>>
               /\ copy' = last
               /\ UNCHANGED <<dir, stream, writer, reader, sent, got, count, dispatch>>

AnswerGetStats == /\ copy # <<>>
                  /\ TrySend(copy)
                  /\ copy' = <<>>
                  /\ UNCHANGED <<count, dispatch>>

-----------------------------------------------------------------------------
(* Reading: read_msg of the server, read_server_msg of the client           *)

Length == FromLe(SubSeq(stream, 1, 4))
HasLength == reader = "open" /\ Len(stream) >= 4

ReadTooLong == /\ HasLength /\ Length > MaxLen
               /\ reader' = "closed"
               /\ UNCHANGED <<dir, stream, writer, sent, got, count, copy, dispatch>>

ReadMsg == /\ HasLength /\ Length <= MaxLen /\ Len(stream) >= 4 + Length
           /\ LET m == Decode(SubSeq(stream, 5, 4 + Length))
              IN  /\ got' = IF m = None THEN got ELSE <<m[1], Head(sent)>>
                  /\ sent' = IF m = None THEN sent ELSE Tail(sent)
                  /\ reader' = IF m = None THEN "closed" ELSE "open"
           /\ stream' = From(stream, 5 + Length)
           /\ UNCHANGED <<dir, writer, count, copy, dispatch>>

\* read_exact finds the end of file, at a boundary or inside a message.
ReadEof == /\ reader = "open" /\ writer = "dead"
           /\ IF Len(stream) < 4 THEN TRUE ELSE Length <= MaxLen /\ Len(stream) < 4 + Length
           /\ reader' = "closed"
           /\ UNCHANGED <<dir, stream, writer, sent, got, count, copy, dispatch>>

-----------------------------------------------------------------------------
Next == \/ \E m \in Messages : Send(m)
        \/ \E m \in Messages, k \in Cuts : Die(m, k)
        \/ \E us \in Elapsed : Dispatch(us)
        \/ BroadcastStats \/ CopyLatency \/ AnswerGetStats
        \/ ReadTooLong \/ ReadMsg \/ ReadEof

Spec == Init /\ [][Next]_vars

-----------------------------------------------------------------------------
(* Properties                                                              *)

\* Types: what is on the socket are bytes, and the histogram counts StatsEvery
\* frames at most.
TypeOK == /\ \A i \in DOMAIN stream : stream[i] \in Byte
          /\ writer \in {"open", "dead"} /\ reader \in {"open", "closed"}
          /\ hist.buckets \in [Buckets -> 0..StatsEvery] /\ hist.total \in 0..StatsEvery
          /\ hist.min_us \in Latencies /\ hist.max_us \in Latencies
          /\ last \in Latencies \X Latencies \X Latencies

TooLong(m) == Len(Encode(m)) > MaxLen

\* The messages come out of the decoder as they went into the encoder, in
\* order, with no part of one taken for another; a message cut by the death of
\* its writer is never delivered and everything before it is; and a reader gives
\* up a living peer only over a message longer than MaxLen, which for
\* write_audio means more frames than (MaxLen - 5) / FrameBytes: the codec's
\* own limit of MaxFrames is never what decides.
Intact == /\ got # <<>> => got[1] = got[2]
          /\ reader = "closed" => IF sent = <<>> THEN writer = "dead" ELSE TooLong(Head(sent))

Size(w) == FoldFunction(+, 0, w)
Seen(w) == {us \in Elapsed : w[us] > 0}

\* The smallest latency that Pct of Pct + 1 samples of w do not exceed.
Percentile(w) ==
  Min({us \in Elapsed : (Pct + 1) * FoldFunctionOnSet(+, 0, w, {v \in Elapsed : v <= us})
                          >= Pct * Size(w)})

\* Statistics lat are those of window w: exact extremes, and the percentile
\* rounded up to a power of two, at most twice its value, or to the largest u32.
\* In the order of the codec, minimum, maximum and percentile (codec.rs and
\* LatencyStats); CONTEXT.md documents p50_us, p99_us and max_us, which are not
\* what is sent.
Describes(lat, w) ==
  LET p == Percentile(w)
  IN  /\ lat[1] = Min(Seen(w)) /\ lat[2] = Max(Seen(w))
      /\ IF lat[3] = MAX THEN 2 * p >= MAX ELSE p < lat[3] /\ lat[3] <= Max({2, 2 * p})

\* Every Stats that a client decodes, broadcast or asked for, describes one
\* whole window of StatsEvery frames (run, to_stats, reset), or none if there
\* was none yet: never a part, a mixture, or a window half way through.
StatsOfOneWindow ==
  (dir = "server" /\ got # <<>> /\ got[1].tag = 2) =>
    LET lat == SubSeq(got[1].vals, 3, 5)
    IN  \/ lat = <<0, 0, 0>>
        \/ \E n \in DOMAIN windows : Size(windows[n]) = StatsEvery /\ Describes(lat, windows[n])
==============================================================================
