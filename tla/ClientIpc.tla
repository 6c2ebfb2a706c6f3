------------------------------ MODULE ClientIpc ------------------------------
(***************************************************************************)
(* The server side of the client connections.  Every connection has a      *)
(* handler thread (handle_client), a writer thread that drains a bounded   *)
(* channel into the socket, and, while the handler lives, an entry in the  *)
(* ClientRegistry.  The dispatch and the GPIO threads broadcast into the   *)
(* channels of the subscribed clients with try_send, which drops the       *)
(* message when the channel is full; so do the replies of the handler.     *)
(*                                                                         *)
(* A registry operation holds the registry mutex from beginning to end,    *)
(* takes no other lock and, because of try_send, waits for nothing inside; *)
(* so it is one step, and the mutex itself is not modelled.  A written     *)
(* message is one unit of the socket (the two writes of the length prefix  *)
(* and the payload are not told apart), and the shared-memory descriptor   *)
(* travels as the unit Fd.  Left out: the requests with no effect on       *)
(* connections (SetGpio, AudioWrite), accept errors, and the log.          *)
(***************************************************************************)
EXTENDS Naturals, Sequences

CONSTANTS Clients,     \* the connections, each made at most once
          ChanCap,     \* capacity of a client's channel (128)
          SockCap,     \* what a socket buffer holds, in messages
          StatsEvery,  \* frames between two Stats broadcasts (5000)
          Requests,    \* the requests clients make, see AllRequests
          MaxRadio,    \* bound on radio events
          MaxAudio,    \* bound on audio frames
          MaxRequests  \* bound on the requests of one client

ASSUME BoundAssumption == /\ ChanCap \in Nat \ {0} /\ SockCap \in Nat \ {0}
                          /\ StatsEvery \in Nat \ {0}
                          /\ MaxRadio \in Nat /\ MaxAudio \in Nat /\ MaxRequests \in Nat

StreamFlags == {"AUDIO_IN", "GPIO_EVENTS"}

\* Units on the server-to-client socket.
Fd == [kind |-> "Fd", n |-> 0]
RadioEvent(n) == [kind |-> "RadioEvent", n |-> n]
AudioReady(n) == [kind |-> "AudioReady", n |-> n]
Stats(n) == [kind |-> "Stats", n |-> n]
Pong == [kind |-> "Pong", n |-> 0]
ServerMsgs == {Pong} \cup {Stats(n) : n \in 0..MaxAudio}
                     \cup {RadioEvent(n) : n \in 1..MaxRadio}
                     \cup {AudioReady(n) : n \in 1..MaxAudio}

\* Requests: Subscribe as the set of flags; "Bad" is what read_msg rejects,
\* a length above 65536 or a payload that does not decode.
Subscribe(flags) == [kind |-> "Subscribe", streams |-> flags]
Ping == [kind |-> "Ping", streams |-> {}]
GetStats == [kind |-> "GetStats", streams |-> {}]
Bad == [kind |-> "Bad", streams |-> {}]
AllRequests == {Subscribe(flags) : flags \in SUBSET StreamFlags} \cup {Ping, GetStats, Bad}

ASSUME RequestAssumption == Requests \subseteq AllRequests

VARIABLES registry,  \* ids in the registry
          streams,   \* streams[c]: the flags of c's registry entry
          thread,    \* thread[c].handler: "none", "fd" (registered), "spawn", "read", "gone"
                     \* thread[c].writer: "none", "recv", "write", "gone"
          chan,      \* chan[c]: the channel to the writer
          accepted,  \* accepted[c]: history, what try_send put into chan[c]
          hand,      \* hand[c]: the message the writer is writing, if any
          wire,      \* wire[c]: everything ever written to c's socket
          peer,      \* the client's end.  peer[c].end: "none", "open", "closed";
                     \* .taken: how much of wire[c] it has read; .asked: requests made;
                     \* .inbox: requests the handler has not read
          server     \* .radio, .audio: events and frames broadcast; .dispatch: the
                     \* dispatch thread, "pop", or "stats" when a broadcast is due

vars == <<registry, streams, thread, chan, accepted, hand, wire, peer, server>>

Init == /\ registry = {}
        /\ streams = [c \in Clients |-> {}]
        /\ thread = [c \in Clients |-> [handler |-> "none", writer |-> "none"]]
        /\ chan = [c \in Clients |-> <<>>]
        /\ accepted = [c \in Clients |-> <<>>]
        /\ hand = [c \in Clients |-> <<>>]
        /\ wire = [c \in Clients |-> <<>>]
        /\ peer = [c \in Clients |-> [end |-> "none", taken |-> 0, asked |-> 0, inbox |-> <<>>]]
        /\ server = [radio |-> 0, audio |-> 0, dispatch |-> "pop"]

-----------------------------------------------------------------------------
(* ClientRegistry                                                          *)

\* MUTANT: an unbounded channel.
FitsUnbounded(c) == thread[c].writer # "gone"

\* SyncSender::try_send succeeds: there is room and the receiver still exists.
Fits(c) == Len(chan[c]) < ChanCap /\ thread[c].writer # "gone"

\* sender.try_send(msg) for every client of dest, the result ignored.
TrySend(dest, msg) ==
  LET Put(q) == [c \in Clients |-> IF c \in dest /\ Fits(c) THEN Append(q[c], msg) ELSE q[c]]
  IN  chan' = Put(chan) /\ accepted' = Put(accepted)

Subscribers(flag) == {c \in registry : flag \in streams[c]}

\* A broadcast touches the channels and nothing else of a connection.
Broadcast(dest, msg) == TrySend(dest, msg)
                        /\ UNCHANGED <<registry, streams, thread, hand, wire, peer>>

\* broadcast_radio_event, called by the GPIO thread.
BroadcastRadio == /\ server.radio < MaxRadio
                  /\ server' = [server EXCEPT !.radio = @ + 1]
                  /\ Broadcast(Subscribers("GPIO_EVENTS"), RadioEvent(server.radio + 1))

\* The dispatch thread is done with frame n: is a Stats broadcast due?
After(n) == IF n % StatsEvery = 0 THEN "stats" ELSE "pop"

\* MUTANT: a frame is announced with the number of the one after it.
NotifyAudioAhead ==
  /\ server.dispatch = "pop" /\ server.audio < MaxAudio
  /\ server' = [server EXCEPT !.audio = @ + 1, !.dispatch = After(server.audio + 1)]
  /\ Broadcast(Subscribers("AUDIO_IN"), AudioReady(server.audio + 2))

\* The dispatch thread popped a frame and wrote it: notify_audio_ready.
NotifyAudio ==
  /\ server.dispatch = "pop" /\ server.audio < MaxAudio
  /\ server' = [server EXCEPT !.audio = @ + 1, !.dispatch = After(server.audio + 1)]
  /\ Broadcast(Subscribers("AUDIO_IN"), AudioReady(server.audio + 1))

\* broadcast_stats, to every registered client.
BroadcastStats == /\ server.dispatch = "stats"
                  /\ server' = [server EXCEPT !.dispatch = "pop"]
                  /\ Broadcast(registry, Stats(server.audio))

-----------------------------------------------------------------------------
(* handle_client and its writer thread                                     *)

Handler(c, from, to) == /\ thread[c].handler = from
                        /\ thread' = [thread EXCEPT ![c].handler = to]

\* MUTANT: the writer thread is started before the descriptor is sent.
AcceptSpawning(c) ==
  /\ peer[c].end # "none" /\ thread[c].handler = "none"
  /\ thread' = [thread EXCEPT ![c] = [handler |-> "fd", writer |-> "recv"]]
  /\ registry' = registry \cup {c}
  /\ UNCHANGED <<streams, chan, accepted, hand, wire, peer, server>>

\* The connection is accepted, gets an id and is registered with no streams.
Accept(c) == /\ peer[c].end # "none"
             /\ Handler(c, "none", "fd")
             /\ registry' = registry \cup {c}
             /\ UNCHANGED <<streams, chan, accepted, hand, wire, peer, server>>

\* send_fd.
SendFd(c) == /\ peer[c].end = "open"
             /\ Handler(c, "fd", "spawn")
             /\ wire' = [wire EXCEPT ![c] = Append(@, Fd)]
             /\ UNCHANGED <<registry, streams, chan, accepted, hand, peer, server>>

\* Unregister and return; without a writer thread the receiver, and what is in
\* the channel, are dropped too.
GiveUp(c, from) == /\ Handler(c, from, "gone")
                   /\ registry' = registry \ {c}
                   /\ UNCHANGED <<streams, chan, accepted, hand, wire, peer, server>>

\* sendmsg fails because the client is gone.
SendFdFails(c) == peer[c].end = "closed" /\ GiveUp(c, "fd")

\* try_clone fails: no file descriptor is left.
CloneFails(c) == GiveUp(c, "spawn")

\* try_clone gives the writer thread its socket.
SpawnWriter(c) == /\ thread[c].handler = "spawn"
                  /\ thread' = [thread EXCEPT ![c] = [handler |-> "read", writer |-> "recv"]]
                  /\ UNCHANGED <<registry, streams, chan, accepted, hand, wire, peer, server>>

\* The handler reads a request and dispatches it.
HandleMsg(c) ==
  /\ thread[c].handler = "read" /\ peer[c].inbox # <<>>
  /\ LET req == Head(peer[c].inbox) IN
     \/ /\ req.kind = "Subscribe"
        /\ streams' = [streams EXCEPT ![c] = req.streams]
        /\ UNCHANGED <<chan, accepted>>
     \/ req.kind = "Ping" /\ TrySend({c}, Pong) /\ UNCHANGED streams
     \/ req.kind = "GetStats" /\ TrySend({c}, Stats(server.audio)) /\ UNCHANGED streams
  /\ peer' = [peer EXCEPT ![c].inbox = Tail(@)]
  /\ UNCHANGED <<registry, thread, hand, wire, server>>

\* read_msg returns None or an error: end of stream, or a rejected request.
ReadFails(c) == IF peer[c].inbox = <<>> THEN peer[c].end = "closed"
                                        ELSE Head(peer[c].inbox).kind = "Bad"

\* MUTANT: the handler returns without unregistering.
HandlerEndsRegistered(c) ==
  /\ ReadFails(c)
  /\ Handler(c, "read", "gone")
  /\ UNCHANGED <<registry, streams, chan, accepted, hand, wire, peer, server>>

\* The handler's loop ends: unregister and return.  The channel loses its only
\* sender and the writer keeps its own descriptor.
HandlerEnds(c) == ReadFails(c) /\ GiveUp(c, "read")

\* MUTANT: the message stays in the channel.
WriterRecvPeek(c) == /\ thread[c].writer = "recv" /\ chan[c] # <<>>
                     /\ thread' = [thread EXCEPT ![c].writer = "write"]
                     /\ hand' = [hand EXCEPT ![c] = <<Head(chan[c])>>]
                     /\ UNCHANGED <<registry, streams, chan, accepted, wire, peer, server>>

\* for msg in msg_rx
WriterRecv(c) == /\ thread[c].writer = "recv" /\ chan[c] # <<>>
                 /\ thread' = [thread EXCEPT ![c].writer = "write"]
                 /\ hand' = [hand EXCEPT ![c] = <<Head(chan[c])>>]
                 /\ chan' = [chan EXCEPT ![c] = Tail(@)]
                 /\ UNCHANGED <<registry, streams, accepted, wire, peer, server>>

\* write_msg waits until the socket has room.
WriterWrite(c) == /\ thread[c].writer = "write" /\ peer[c].end = "open"
                  /\ Len(wire[c]) - peer[c].taken < SockCap
                  /\ thread' = [thread EXCEPT ![c].writer = "recv"]
                  /\ wire' = [wire EXCEPT ![c] = @ \o hand[c]]
                  /\ hand' = [hand EXCEPT ![c] = <<>>]
                  /\ UNCHANGED <<registry, streams, chan, accepted, peer, server>>

\* MUTANT: the loop ends with the registration, without draining the channel.
DrainedEarly(c) == \/ thread[c].writer = "write" /\ peer[c].end = "closed"
                   \/ thread[c].writer = "recv" /\ c \notin registry

\* write_msg fails, or the channel is empty and its sender, the registry
\* entry, is gone.
Drained(c) == \/ thread[c].writer = "write" /\ peer[c].end = "closed"
              \/ thread[c].writer = "recv" /\ chan[c] = <<>> /\ c \notin registry

WriterEnds(c) == /\ Drained(c)
                 /\ thread' = [thread EXCEPT ![c].writer = "gone"]
                 /\ hand' = [hand EXCEPT ![c] = <<>>]
                 /\ UNCHANGED <<registry, streams, chan, accepted, wire, peer, server>>

-----------------------------------------------------------------------------
(* The client's end of the socket                                          *)

PeerStep(c, new) == /\ peer' = [peer EXCEPT ![c] = new]
                    /\ UNCHANGED <<registry, streams, thread, chan, accepted, hand, wire, server>>

Connect(c) == peer[c].end = "none" /\ PeerStep(c, [peer[c] EXCEPT !.end = "open"])

\* A request (one that nobody would read any more is not modelled).
Ask(c, req) == /\ peer[c].end = "open" /\ peer[c].asked < MaxRequests
               /\ thread[c].handler # "gone"
               /\ PeerStep(c, [peer[c] EXCEPT !.inbox = Append(@, req), !.asked = @ + 1])

Take(c) == /\ peer[c].end = "open" /\ peer[c].taken < Len(wire[c])
           /\ PeerStep(c, [peer[c] EXCEPT !.taken = @ + 1])

Close(c) == peer[c].end = "open" /\ PeerStep(c, [peer[c] EXCEPT !.end = "closed"])

-----------------------------------------------------------------------------
HandlerStep(c) == \/ Accept(c) \/ SendFd(c) \/ SendFdFails(c) \/ SpawnWriter(c)
                  \/ CloneFails(c) \/ HandleMsg(c) \/ HandlerEnds(c)
WriterStep(c) == WriterRecv(c) \/ WriterWrite(c) \/ WriterEnds(c)
ClientStep(c) == Connect(c) \/ (\E req \in Requests : Ask(c, req)) \/ Take(c) \/ Close(c)

Next == \/ \E c \in Clients : HandlerStep(c) \/ WriterStep(c) \/ ClientStep(c)
        \/ BroadcastRadio
        \/ NotifyAudio
        \/ BroadcastStats

Spec == Init /\ [][Next]_vars

\* The threads of a connection keep running; nothing needs the broadcasts, and
\* the clients may do what they like.
Fairness == \A c \in Clients : WF_vars(HandlerStep(c)) /\ WF_vars(WriterStep(c))

FairSpec == Spec /\ Fairness

-----------------------------------------------------------------------------
(* Properties                                                              *)

\* Types; channels and sockets hold messages of the kinds and with the numbers
\* that the bounds on events and frames allow (ServerMsgs).
TypeOK == /\ registry \in SUBSET Clients
          /\ streams \in [Clients -> SUBSET StreamFlags]
          /\ thread \in [Clients -> [handler : {"none", "fd", "spawn", "read", "gone"},
                                     writer : {"none", "recv", "write", "gone"}]]
          /\ chan \in [Clients -> Seq(ServerMsgs)]
          /\ accepted \in [Clients -> Seq(ServerMsgs)]
          /\ hand \in [Clients -> Seq(ServerMsgs)]
          /\ wire \in [Clients -> Seq(ServerMsgs \cup {Fd})]
          /\ peer \in [Clients -> [end : {"none", "open", "closed"}, taken : Nat,
                                   asked : Nat, inbox : Seq(AllRequests)]]
          /\ server \in [radio : Nat, audio : Nat, dispatch : {"pop", "stats"}]

\* The first thing on the wire is the descriptor, although broadcasts reach a
\* registered client's channel before it is sent (handle_client; recv_fd in
\* the client fails on anything else).
FdFirst == \A c \in Clients : wire[c] # <<>> => Head(wire[c]) = Fd

\* While the writer thread lives, what try_send accepted is on the wire, in
\* the writer's hands or in the channel: once, and in the order of sending.
ExactlyOnceInOrder ==
  \A c \in Clients :
    thread[c].writer # "gone" =>
      accepted[c] = (IF wire[c] = <<>> THEN <<>> ELSE Tail(wire[c])) \o hand[c] \o chan[c]

\* A connection whose client has closed leaves nothing behind: the registry
\* entry and both threads go, also when the writer was stuck on a full socket.
Cleanup == \A c \in Clients :
  (peer[c].end = "closed") ~> (c \notin registry /\ thread[c].handler = "gone"
                                                 /\ thread[c].writer \in {"none", "gone"})

\* What try_send accepted for a client that keeps its connection, and always
\* comes round to reading what is on its socket, is read in the end, also when
\* the handler has given up on a malformed request of the same client; except
\* that a connection may fail before its writer was started.  (The broadcasts of
\* the model are finite, so "all of it, from some time on" says it of each message.)
AcceptedIsRead ==
  \A c \in Clients :
    []<>(peer[c].taken = Len(wire[c])) =>
      <>[](\/ accepted[c] = <<>> \/ peer[c].taken > Len(accepted[c])
           \/ peer[c].end = "closed"
           \/ thread[c].handler = "gone" /\ thread[c].writer = "none")

\* A channel, its writer thread and the socket behind it are one bounded queue:
\* what the client reads after the descriptor is what try_send accepted, in
\* order, and a client that does not read holds up no more messages than the
\* three places have room for.
Queue == INSTANCE ClientQueue
           WITH Msgs <- ServerMsgs, Cap <- ChanCap + 1 + SockCap,
                log <- accepted,
                read <- [c \in Clients |-> IF peer[c].taken = 0 THEN 0 ELSE peer[c].taken - 1],
                item <- [c \in Clients |-> IF peer[c].taken <= 1 THEN <<>>
                                          ELSE <<wire[c][peer[c].taken]>>],
                ended <- {c \in Clients : thread[c].writer = "gone"}
ImplementsQueue == Queue!Spec
==============================================================================
