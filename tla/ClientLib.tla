------------------------------ MODULE ClientLib ------------------------------
(***************************************************************************)
(* The client library over one connection: read_audio_blocking, get_stats, *)
(* wait_msg, poll_msg and the C binding's cm108_poll_event, against the    *)
(* dispatch thread (page first, notification second), the GPIO thread, the *)
(* handler's reply to GetStats and the writer thread.                      *)
(*                                                                         *)
(* A message travels as two units, the length prefix and the body, because *)
(* write_msg and read_server_msg handle them with two system calls each; a *)
(* unit is small enough to be written and read whole.  A message is its    *)
(* kind and number; the page holds the number of a frame (Seqlock models   *)
(* how a whole frame is read from it).  The client has subscribed to audio *)
(* and to GPIO events.  A read that takes a body for a length prefix loses *)
(* the boundaries of all messages to come; the model stops there.          *)
(***************************************************************************)
EXTENDS Naturals, Sequences, SequencesExt

CONSTANTS Calls,       \* the library calls the application makes
          ChanCap,     \* capacity of the channel to the writer (128)
          SockCap,     \* units that fit into the socket
          StatsEvery,  \* frames between two Stats broadcasts (5000)
          MaxFrames,   \* bound on audio frames
          MaxEvents,   \* bound on radio events
          MaxAsks      \* bound on GetStats requests

ASSUME LibAssumption ==
  /\ Calls \subseteq {"audio", "stats", "wait", "poll", "poll_event"}
  /\ ChanCap \in Nat \ {0} /\ SockCap \in Nat \ {0} /\ StatsEvery \in Nat \ {0}
  /\ MaxFrames \in Nat /\ MaxEvents \in Nat /\ MaxAsks \in Nat

Msg(k, n) == [kind |-> k, n |-> n]
Msgs == {Msg("AudioReady", n) : n \in 1..MaxFrames} \cup {Msg("Stats", n) : n \in 0..MaxFrames}
          \cup {Msg("RadioEvent", n) : n \in 1..MaxEvents}
Units == [part : {"len", "body"}, msg : Msgs]

NonBlocking == {"poll", "poll_event"}

VARIABLES server,    \* "up", or "gone": the daemon died and its sockets are closed
          page,      \* the frame in shared memory
          dispatch,  \* dispatch thread: "pop", "notify", "stats"
          events,    \* number of radio events broadcast
          asks,      \* GetStats requests the handler has not served
          asked,     \* number of GetStats requests made
          chan,      \* channel to the writer thread
          body,      \* the message whose prefix is written and whose body is not, if any
          sock,      \* units in the socket
          call,      \* the library call in progress, or "idle", or "misframed"
          at,        \* within the call: "len", "body", "frame" (the page next)
          cur,       \* the message announced by the prefix just read, if any
          last_seq,  \* the frame number last announced to read_audio_blocking
          result,    \* what the last call returned: its kind and number
          cut        \* history, "yes" once a call gave up between a prefix and its body

vars == <<server, page, dispatch, events, asks, asked, chan, body, sock, call, at, cur,
          last_seq, result, cut>>
serverVars == <<server, page, dispatch, events, asks, chan, body>>
clientVars == <<call, at, cur, last_seq, result, cut, asked>>

Init == /\ server = "up" /\ page = 0 /\ dispatch = "pop" /\ events = 0
        /\ asks = 0 /\ asked = 0
        /\ chan = <<>> /\ body = <<>> /\ sock = <<>>
        /\ call = "idle" /\ at = "len" /\ cur = <<>>
        /\ last_seq = 0 /\ result = Msg("none", 0) /\ cut = "no"

-----------------------------------------------------------------------------
(* The server                                                              *)

\* MUTANT: an unbounded channel.
TrySendUnbounded(msg) == chan' = Append(chan, msg)

\* sender.try_send(msg): a full channel drops the message.
TrySend(msg) == chan' = IF Len(chan) < ChanCap THEN Append(chan, msg) ELSE chan

\* The dispatch thread pops a frame; shmem.write.
WritePage == /\ server = "up" /\ dispatch = "pop" /\ page < MaxFrames
             /\ page' = page + 1
             /\ dispatch' = "notify"
             /\ UNCHANGED <<server, events, asks, chan, body, sock>> /\ UNCHANGED clientVars

\* MUTANT: the notification announces the frame that is popped next.
NotifyAhead == /\ server = "up" /\ dispatch = "notify" /\ page < MaxFrames
               /\ TrySend(Msg("AudioReady", page + 1))
               /\ dispatch' = "pop"
               /\ UNCHANGED <<server, page, events, asks, body, sock>> /\ UNCHANGED clientVars

\* reg.notify_audio_ready(seq), and broadcast_stats when it is due.
Notify == /\ server = "up" /\ dispatch = "notify"
          /\ TrySend(Msg("AudioReady", page))
          /\ dispatch' = IF page % StatsEvery = 0 THEN "stats" ELSE "pop"
          /\ UNCHANGED <<server, page, events, asks, body, sock>> /\ UNCHANGED clientVars

BroadcastStats == /\ server = "up" /\ dispatch = "stats"
                  /\ TrySend(Msg("Stats", page))
                  /\ dispatch' = "pop"
                  /\ UNCHANGED <<server, page, events, asks, body, sock>> /\ UNCHANGED clientVars

BroadcastEvent == /\ server = "up" /\ events < MaxEvents
                  /\ events' = events + 1
                  /\ TrySend(Msg("RadioEvent", events + 1))
                  /\ UNCHANGED <<server, page, dispatch, asks, body, sock>> /\ UNCHANGED clientVars

\* The handler serves GetStats.
ServeStats == /\ server = "up" /\ asks > 0
              /\ asks' = asks - 1
              /\ TrySend(Msg("Stats", page))
              /\ UNCHANGED <<server, page, dispatch, events, body, sock>> /\ UNCHANGED clientVars

\* MUTANT: the writer sends the body before the length prefix.
WriteBodyFirst == /\ server = "up" /\ body = <<>> /\ chan # <<>> /\ Len(sock) < SockCap
                  /\ sock' = Append(sock, [part |-> "body", msg |-> Head(chan)])
                  /\ body' = <<Head(chan)>>
                  /\ chan' = Tail(chan)
                  /\ UNCHANGED <<server, page, dispatch, events, asks>> /\ UNCHANGED clientVars

\* The writer thread receives a message; write_msg writes the length prefix.
WriteLen == /\ server = "up" /\ body = <<>> /\ chan # <<>> /\ Len(sock) < SockCap
            /\ sock' = Append(sock, [part |-> "len", msg |-> Head(chan)])
            /\ body' = <<Head(chan)>>
            /\ chan' = Tail(chan)
            /\ UNCHANGED <<server, page, dispatch, events, asks>> /\ UNCHANGED clientVars

\* write_msg writes the payload.
WriteBody == /\ server = "up" /\ body # <<>> /\ Len(sock) < SockCap
             /\ sock' = Append(sock, [part |-> "body", msg |-> Head(body)])
             /\ body' = <<>>
             /\ UNCHANGED <<server, page, dispatch, events, asks, chan>> /\ UNCHANGED clientVars

\* The daemon dies; what is in the socket can still be read.
ServerDies == /\ server = "up"
              /\ server' = "gone"
              /\ UNCHANGED <<page, dispatch, events, asks, chan, body, sock>> /\ UNCHANGED clientVars

-----------------------------------------------------------------------------
(* The client library                                                      *)

Return(r) == /\ call' = "idle" /\ at' = "len" /\ cur' = <<>>
             /\ result' = r

\* A call begins.  get_stats first sends its request; on a dead connection the
\* write fails and the call returns the error at once.
Call(c) == /\ call = "idle"
           /\ \/ /\ c # "stats"
                 /\ call' = c
                 /\ UNCHANGED <<asks, asked, result>>
              \/ /\ c = "stats" /\ server = "up" /\ asked < MaxAsks
                 /\ call' = c
                 /\ asks' = asks + 1 /\ asked' = asked + 1
                 /\ UNCHANGED result
              \/ /\ c = "stats" /\ server = "gone"
                 /\ result' = Msg("error", 0)
                 /\ UNCHANGED <<call, asks, asked>>
           /\ UNCHANGED <<server, page, dispatch, events, chan, body, sock, at, cur, last_seq, cut>>

\* read_exact of the length prefix.
ReadLen == /\ call \notin {"idle", "misframed"} /\ at = "len" /\ sock # <<>>
           /\ sock' = Tail(sock)
           /\ IF Head(sock).part = "len"
              THEN at' = "body" /\ cur' = <<Head(sock).msg>> /\ UNCHANGED call
              ELSE call' = "misframed" /\ UNCHANGED <<at, cur>>
           /\ UNCHANGED <<last_seq, result, cut, asked>> /\ UNCHANGED serverVars

\* MUTANT: poll_msg leaves the socket blocking.
ReadLenNoneBlocking ==
  /\ call \notin {"idle", "misframed"} /\ at = "len" /\ sock = <<>>
  /\ server = "gone"
  /\ Return(Msg(IF call \in {"audio", "stats"} THEN "error" ELSE "none", 0))
  /\ UNCHANGED <<sock, last_seq, cut, asked>> /\ UNCHANGED serverVars

\* No prefix to read: end of stream for every call; for a non-blocking call an
\* empty socket as well.  Both are Ok(None), which read_audio_blocking and
\* get_stats turn into ClientError::Disconnected.
ReadLenNone == /\ call \notin {"idle", "misframed"} /\ at = "len" /\ sock = <<>>
               /\ server = "gone" \/ call \in NonBlocking
               /\ Return(Msg(IF call \in {"audio", "stats"} THEN "error" ELSE "none", 0))
               /\ UNCHANGED <<sock, last_seq, cut, asked>> /\ UNCHANGED serverVars

\* MUTANT: only a notification that skips a frame counts as new.
NewAudioSkipping(m) == m.kind = "AudioReady" /\ m.n > last_seq + 1

\* AudioReady { seq } if seq > self.last_seq
NewAudio(m) == m.kind = "AudioReady" /\ m.n > last_seq

\* read_exact of the body, decode, and what each call makes of the message.
ReadBody ==
  /\ call \notin {"idle", "misframed"} /\ at = "body" /\ sock # <<>>
  /\ sock' = Tail(sock)
  /\ LET m == Head(cur)
     IN  \/ /\ call = "audio" /\ NewAudio(m)
            /\ last_seq' = m.n
            /\ at' = "frame" /\ cur' = <<>>
            /\ UNCHANGED <<call, result>>
         \/ /\ \/ call = "audio" /\ ~NewAudio(m)
               \/ call = "stats" /\ m.kind # "Stats"
            /\ at' = "len" /\ cur' = <<>>
            /\ UNCHANGED <<call, result, last_seq>>
         \/ /\ \/ call \in {"wait", "poll"}
               \/ call = "stats" /\ m.kind = "Stats"
               \/ call = "poll_event" /\ m.kind = "RadioEvent"
            /\ Return(m)
            /\ UNCHANGED last_seq
         \/ /\ call = "poll_event" /\ m.kind # "RadioEvent"
            /\ Return(Msg("none", 0))
            /\ UNCHANGED last_seq
  /\ UNCHANGED <<cut, asked>> /\ UNCHANGED serverVars

\* No body to read: an error at the end of the stream.  For a non-blocking call
\* an empty socket is WouldBlock, which poll_msg returns as Ok(None) although
\* the prefix is consumed.
ReadBodyNone == /\ call \notin {"idle", "misframed"} /\ at = "body" /\ sock = <<>>
                /\ \/ server = "gone" /\ Return(Msg("error", 0))
                   \/ server = "up" /\ call \in NonBlocking /\ Return(Msg("none", 0))
                /\ cut' = "yes"
                /\ UNCHANGED <<sock, last_seq, asked>> /\ UNCHANGED serverVars

\* rx_shmem.read_frame()
ReadFrame == /\ call = "audio" /\ at = "frame"
             /\ Return(Msg("frame", page))
             /\ UNCHANGED <<sock, last_seq, cut, asked>> /\ UNCHANGED serverVars

-----------------------------------------------------------------------------
Writer == WriteLen \/ WriteBody
Server == \/ WritePage \/ Notify \/ BroadcastStats \/ BroadcastEvent \/ ServeStats
          \/ Writer \/ ServerDies
Reading == ReadLen \/ ReadLenNone \/ ReadBody \/ ReadBodyNone \/ ReadFrame

Next == Server \/ (\E c \in Calls : Call(c)) \/ Reading

Spec == Init /\ [][Next]_vars

\* The writer thread runs, and so does a client that has called the library.
FairSpec == Spec /\ WF_vars(Writer) /\ WF_vars(Reading)

-----------------------------------------------------------------------------
(* Properties                                                              *)

\* Types; the channel to the writer thread and the socket stay within their bounds.
TypeOK == /\ server \in {"up", "gone"}
          /\ page \in 0..MaxFrames /\ events \in 0..MaxEvents
          /\ dispatch \in {"pop", "notify", "stats"}
          /\ asks \in 0..MaxAsks /\ asked \in 0..MaxAsks
          /\ chan \in Seq(Msgs) /\ Len(chan) <= ChanCap
          /\ body \in Seq(Msgs) /\ Len(body) <= 1
          /\ sock \in Seq(Units) /\ Len(sock) <= SockCap
          /\ call \in Calls \cup {"idle", "misframed"}
          /\ at \in {"len", "body", "frame"}
          /\ cur \in Seq(Msgs) /\ Len(cur) <= 1
          /\ last_seq \in 0..MaxFrames
          /\ cut \in {"no", "yes"}
          /\ result \in Msgs \cup {Msg("none", 0), Msg("error", 0)}
                          \cup {Msg("frame", n) : n \in 0..MaxFrames}

\* client.rs, poll_msg: "`None` if the socket would block", after which the next
\* call is expected to find the message: the client never takes a body for a
\* length prefix.
InSync == call # "misframed"

\* It does so only after a polling call gave up between a prefix and its body:
\* any number of blocking calls and of polls that found nothing or a whole
\* message leaves the boundaries intact, although the writer thread sends every
\* message in two pieces.
MisframedOnlyAfterCut == call = "misframed" => cut = "yes"

\* read_audio_blocking returns a frame at least as new as the notification it
\* waited for, however far the dispatch thread has gone on meanwhile: the page
\* is written before the frame is announced.
FrameNotOlder == call = "idle" /\ result.kind = "frame" => result.n >= last_seq

\* A blocking call returns once the message it waits for is on its way, or the
\* daemon is dead: for read_audio_blocking a notification newer than the last
\* one, for get_stats any Stats, the reply or a periodic one.  (A reply that
\* the full channel dropped is not on its way: get_stats then waits for the
\* next periodic broadcast.)  The exception is a call that loses the boundaries,
\* which takes an earlier poll that gave up after a prefix: it reads a body as a
\* length, and may then block in read_exact for as long as the daemon lives.
OnItsWay == ToSet(chan) \cup ToSet(body) \cup ToSet(cur) \cup {u.msg : u \in ToSet(sock)}
Answered == \/ server = "gone"
            \/ call = "audio" /\ \E m \in OnItsWay : m.kind = "AudioReady" /\ m.n > last_seq
            \/ call = "stats" /\ \E m \in OnItsWay : m.kind = "Stats"
CallReturns == (call \in {"audio", "stats"} /\ Answered) ~> (call = "idle" \/ call = "misframed")

\* poll_msg and cm108_poll_event return also when the server has nothing more to
\* send, whatever part of a message they found in the socket.
PollReturns == call \in NonBlocking ~> call \notin NonBlocking
==============================================================================
