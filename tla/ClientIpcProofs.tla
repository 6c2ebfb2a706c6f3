--------------------------- MODULE ClientIpcProofs ---------------------------
(***************************************************************************)
(* Proofs about ClientIpc for any set of clients, any capacities of the    *)
(* channels and sockets and any requests: types, FdFirst,                  *)
(* ExactlyOnceInOrder, and that a connection implements ClientQueue.       *)
(***************************************************************************)
EXTENDS ClientIpc, SequenceTheorems, TLAPS

USE BoundAssumption, RequestAssumption

-----------------------------------------------------------------------------
(* Sequences used as queues.                                                *)

\* Appending to a concatenation appends to its last part.
LEMMA ConcatAppend == ASSUME NEW S, NEW s \in Seq(S), NEW t \in Seq(S), NEW e \in S
                      PROVE  Append(s \o t, e) = s \o Append(t, e)
<1>1. Append(s \o t, e) = (s \o t) \o <<e>> /\ Append(t, e) = t \o <<e>>
  BY AppendIsConcat, ConcatProperties
<1> QED
  BY <1>1, ConcatAssociative, <<e>> \in Seq(S)

\* Taking the first element off a sequence.
LEMMA HeadTail == ASSUME NEW S, NEW s \in Seq(S), s # <<>>
                  PROVE  s = <<Head(s)>> \o Tail(s)
  BY SeqEqual, HeadTailProperties, ConcatProperties, <<Head(s)>> \in Seq(S)

\* Writing to a sequence that is not empty leaves its first element.
LEMMA HeadTailConcat == ASSUME NEW S, NEW s \in Seq(S), NEW t \in Seq(S), s # <<>>
                        PROVE  /\ s \o t # <<>> /\ Head(s \o t) = Head(s)
                               /\ Tail(s \o t) = Tail(s) \o t
<1>1. /\ s \o t \in Seq(S) /\ Len(s \o t) = Len(s) + Len(t) /\ Len(s) > 0
      /\ s \o t # <<>> /\ Head(s \o t) = Head(s)
      /\ Tail(s) \in Seq(S) /\ Tail(s \o t) \in Seq(S) /\ Tail(s) \o t \in Seq(S)
  BY ConcatProperties, EmptySeq, HeadTailProperties
<1>2. ASSUME NEW i \in 1..Len(Tail(s \o t)) PROVE Tail(s \o t)[i] = (Tail(s) \o t)[i]
  BY <1>1, ConcatProperties, HeadTailProperties
<1> QED
  BY <1>1, <1>2, SeqEqual, ConcatProperties, HeadTailProperties

-----------------------------------------------------------------------------
(***************************************************************************)
(* The inductive invariant.  Neither property is inductive by itself: that *)
(* the descriptor comes first needs that nothing is written before send_fd *)
(* and that no writer exists until it has returned; that a new writer      *)
(* starts with nothing in its hands and exactly the descriptor on the wire *)
(* is what makes the messages broadcast meanwhile come out once.           *)
(***************************************************************************)
CountInv == server.audio <= MaxAudio

ConnInv(c) ==
  /\ thread[c].handler \in {"none", "fd"} => wire[c] = <<>>
  /\ thread[c].handler \in {"none", "fd", "spawn"} => thread[c].writer = "none"
  /\ thread[c].handler \in {"spawn", "read"} => wire[c] # <<>>
  /\ thread[c].writer # "none" => wire[c] # <<>>
  /\ thread[c].writer \in {"none", "recv"} => hand[c] = <<>>
  /\ thread[c].writer = "none" => Len(wire[c]) <= 1
  /\ wire[c] # <<>> => Head(wire[c]) = Fd

\* What has been written after the descriptor.
Written(c) == IF wire[c] = <<>> THEN <<>> ELSE Tail(wire[c])

FlowInv(c) == thread[c].writer # "gone" => accepted[c] = Written(c) \o hand[c] \o chan[c]

Inv == /\ TypeOK /\ CountInv
       /\ \A c \in Clients : ConnInv(c)
       /\ \A c \in Clients : FlowInv(c)
-----------------------------------------------------------------------------
(* The invariant is inductive                                              *)

\* The invariant holds when the program starts.
LEMMA InvInit == Init => Inv
<1> SUFFICES ASSUME Init PROVE Inv
  OBVIOUS
<1>1. TypeOK /\ CountInv
  BY DEF Init, TypeOK, CountInv
<1>2. ASSUME NEW c \in Clients PROVE ConnInv(c) /\ FlowInv(c)
  BY DEF Init, ConnInv, FlowInv, Written
<1> QED
  BY <1>1, <1>2 DEF Inv

\* What try_send does to one client's channel, and to the history of it.
LEMMA TrySendOne == ASSUME Inv, NEW dest, NEW msg \in ServerMsgs, TrySend(dest, msg),
                           NEW c \in Clients
                    PROVE  \/ chan'[c] = chan[c] /\ accepted'[c] = accepted[c]
                           \/ /\ thread[c].writer # "gone"
                              /\ chan'[c] = Append(chan[c], msg)
                              /\ accepted'[c] = Append(accepted[c], msg)
  BY DEF TrySend, Fits, Inv, TypeOK

\* try_send keeps the types and, whatever clients it reaches, what was accepted
\* of each is still what was written, is in hand or is in the channel.
LEMMA TrySendInv == ASSUME Inv, NEW dest, NEW msg \in ServerMsgs, TrySend(dest, msg),
                           UNCHANGED <<thread, hand, wire>>
                    PROVE  /\ chan' \in [Clients -> Seq(ServerMsgs)]
                           /\ accepted' \in [Clients -> Seq(ServerMsgs)]
                           /\ \A c \in Clients : ConnInv(c)' /\ FlowInv(c)'
<1>1. ASSUME NEW c \in Clients
      PROVE  chan'[c] \in Seq(ServerMsgs) /\ accepted'[c] \in Seq(ServerMsgs)
  <2>1. chan[c] \in Seq(ServerMsgs) /\ accepted[c] \in Seq(ServerMsgs)
    BY DEF Inv, TypeOK
  <2>2. \/ chan'[c] = chan[c] /\ accepted'[c] = accepted[c]
        \/ chan'[c] = Append(chan[c], msg) /\ accepted'[c] = Append(accepted[c], msg)
    BY TrySendOne
  <2>3. /\ Append(chan[c], msg) \in Seq(ServerMsgs)
        /\ Append(accepted[c], msg) \in Seq(ServerMsgs)
    BY <2>1, AppendProperties
  <2> QED
    BY <2>1, <2>2, <2>3
<1>2. /\ chan' \in [Clients -> Seq(ServerMsgs)]
      /\ accepted' \in [Clients -> Seq(ServerMsgs)]
  BY <1>1 DEF TrySend
<1>3. ASSUME NEW c \in Clients PROVE ConnInv(c)'
  BY DEF Inv, ConnInv
<1>4. ASSUME NEW c \in Clients PROVE FlowInv(c)'
  <2> DEFINE sent == Written(c) \o hand[c]
             Units == ServerMsgs \cup {Fd}
  <2>1. sent \in Seq(Units) /\ chan[c] \in Seq(Units) /\ msg \in Units
    <3>1. Written(c) \in Seq(ServerMsgs \cup {Fd})
      BY HeadTailProperties, EmptySeq DEF Inv, TypeOK, Written
    <3>2. hand[c] \in Seq(ServerMsgs \cup {Fd}) /\ chan[c] \in Seq(ServerMsgs \cup {Fd})
      BY SeqMonotonic DEF Inv, TypeOK
    <3> QED
      BY <3>1, <3>2, ConcatProperties
  <2>2. sent' = sent
    BY DEF Written
  <2>3. thread[c].writer # "gone" => accepted[c] = sent \o chan[c]
    BY DEF Inv, FlowInv
  <2> HIDE DEF sent, Units
  <2>4. \/ chan'[c] = chan[c] /\ accepted'[c] = accepted[c]
        \/ /\ thread[c].writer # "gone"
           /\ chan'[c] = Append(chan[c], msg) /\ accepted'[c] = Append(accepted[c], msg)
    BY TrySendOne
  <2>5. Append(sent \o chan[c], msg) = sent \o Append(chan[c], msg)
    <3>1. \A s, t \in Seq(Units) : Append(s \o t, msg) = s \o Append(t, msg)
      BY <2>1, ConcatAppend
    <3> QED
      BY <2>1, <3>1
  <2>6. thread[c].writer # "gone" => accepted'[c] = sent \o chan'[c]
    BY <2>3, <2>4, <2>5
  <2> QED
    BY <2>2, <2>6 DEF FlowInv, sent
<1> QED
  BY <1>2, <1>3, <1>4

\* Every message the server's threads broadcast is one of ServerMsgs, as the
\* frame counter is within its bound.
LEMMA MsgTypes == ASSUME TypeOK, CountInv
                  PROVE  /\ Pong \in ServerMsgs /\ Stats(server.audio) \in ServerMsgs
                         /\ server.radio < MaxRadio => RadioEvent(server.radio + 1) \in ServerMsgs
                         /\ server.audio < MaxAudio => AudioReady(server.audio + 1) \in ServerMsgs
<1>1. server.audio \in 0..MaxAudio
  BY DEF TypeOK, CountInv
<1>2. Pong \in ServerMsgs /\ \A n \in 0..MaxAudio : Stats(n) \in ServerMsgs
  BY DEF ServerMsgs
<1>3. /\ \A n \in 1..MaxRadio : RadioEvent(n) \in ServerMsgs
      /\ \A n \in 1..MaxAudio : AudioReady(n) \in ServerMsgs
  BY DEF ServerMsgs
<1>4. /\ server.radio < MaxRadio => server.radio + 1 \in 1..MaxRadio
      /\ server.audio < MaxAudio => server.audio + 1 \in 1..MaxAudio
  BY DEF TypeOK
<1> QED
  BY <1>1, <1>2, <1>3, <1>4

\* The three broadcasts, of the GPIO thread and of the dispatch thread.
LEMMA BroadcastInv == ASSUME Inv, BroadcastRadio \/ NotifyAudio \/ BroadcastStats
                      PROVE  Inv'
<1>1. \E dest \in SUBSET Clients, msg \in ServerMsgs : Broadcast(dest, msg)
  <2>1. TypeOK /\ CountInv /\ registry \in SUBSET Clients
        /\ \A flag : Subscribers(flag) \in SUBSET Clients
    BY DEF Inv, TypeOK, Subscribers
  <2>2. CASE BroadcastRadio
    BY <2>1, <2>2, MsgTypes DEF BroadcastRadio
  <2>3. CASE NotifyAudio
    BY <2>1, <2>3, MsgTypes DEF NotifyAudio
  <2>4. CASE BroadcastStats
    BY <2>1, <2>4, MsgTypes DEF BroadcastStats
  <2> QED
    BY <2>2, <2>3, <2>4
<1>2. /\ server' \in [radio : Nat, audio : Nat, dispatch : {"pop", "stats"}]
      /\ CountInv'
  <2>1. After(server.audio + 1) \in {"pop", "stats"}
    BY DEF After
  <2> DEFINE Servers == [radio : Nat, audio : Nat, dispatch : {"pop", "stats"}]
  <2> server \in Servers /\ server.audio <= MaxAudio
    BY DEF Inv, TypeOK, CountInv
  <2>2. CASE BroadcastRadio
    <3>1. server' = [server EXCEPT !.radio = @ + 1]
      BY <2>2 DEF BroadcastRadio
    <3> QED
      BY <3>1 DEF CountInv
  <2>3. CASE NotifyAudio
    <3>1. PICK next \in {"pop", "stats"} :
            /\ server.audio < MaxAudio
            /\ server' = [server EXCEPT !.audio = @ + 1, !.dispatch = next]
      BY <2>1, <2>3 DEF NotifyAudio
    <3>2. server' = [radio |-> server.radio, audio |-> server.audio + 1, dispatch |-> next]
      BY <3>1
    <3> QED
      BY <3>1, <3>2 DEF CountInv
  <2>4. CASE BroadcastStats
    BY <2>4 DEF BroadcastStats, Inv, TypeOK, CountInv
  <2> QED
    BY <2>2, <2>3, <2>4
<1>3. /\ chan' \in [Clients -> Seq(ServerMsgs)] /\ accepted' \in [Clients -> Seq(ServerMsgs)]
      /\ \A c \in Clients : ConnInv(c)' /\ FlowInv(c)'
  BY <1>1, TrySendInv DEF Broadcast
<1>4. TypeOK'
  BY <1>1, <1>2, <1>3 DEF Broadcast, Inv, TypeOK
<1> QED
  BY <1>2, <1>3, <1>4 DEF Inv

\* The handler's own replies go through the same try_send.
LEMMA HandleMsgInv == ASSUME Inv, NEW c \in Clients, HandleMsg(c)
                      PROVE  Inv'
<1> DEFINE req == Head(peer[c].inbox)
<1>1. /\ peer[c].inbox \in Seq(AllRequests) /\ peer[c].inbox # <<>>
      /\ req \in AllRequests /\ Tail(peer[c].inbox) \in Seq(AllRequests)
  <2>1. peer[c].inbox \in Seq(AllRequests) /\ peer[c].inbox # <<>>
    BY DEF HandleMsg, Inv, TypeOK
  <2> QED
    BY <2>1, HeadTailProperties
<1>2. req.streams \in SUBSET StreamFlags
  BY <1>1 DEF AllRequests, Subscribe, Ping, GetStats, Bad
<1>3. peer' = [peer EXCEPT ![c].inbox = Tail(@)]
      /\ UNCHANGED <<registry, thread, hand, wire, server>>
  BY DEF HandleMsg
<1>4. \/ streams' = [streams EXCEPT ![c] = req.streams] /\ UNCHANGED <<chan, accepted>>
      \/ UNCHANGED streams /\ \E msg \in ServerMsgs : TrySend({c}, msg)
  BY MsgTypes DEF HandleMsg, Inv
<1> HIDE DEF req
<1>5. /\ chan' \in [Clients -> Seq(ServerMsgs)] /\ accepted' \in [Clients -> Seq(ServerMsgs)]
      /\ \A d \in Clients : ConnInv(d)' /\ FlowInv(d)'
  <2>1. CASE UNCHANGED <<chan, accepted>>
    BY <1>3, <2>1 DEF Inv, TypeOK, ConnInv, FlowInv, Written
  <2>2. ASSUME NEW msg \in ServerMsgs, TrySend({c}, msg)
        PROVE  /\ chan' \in [Clients -> Seq(ServerMsgs)]
               /\ accepted' \in [Clients -> Seq(ServerMsgs)]
               /\ \A d \in Clients : ConnInv(d)' /\ FlowInv(d)'
    BY <1>3, <2>2, TrySendInv
  <2> QED
    BY <1>4, <2>1, <2>2
<1>6. streams' \in [Clients -> SUBSET StreamFlags]
  BY <1>2, <1>4 DEF Inv, TypeOK
<1>7. peer' \in [Clients -> [end : {"none", "open", "closed"}, taken : Nat,
                             asked : Nat, inbox : Seq(AllRequests)]]
  <2>1. peer \in [Clients -> [end : {"none", "open", "closed"}, taken : Nat,
                             asked : Nat, inbox : Seq(AllRequests)]]
    BY DEF Inv, TypeOK
  <2> QED
    BY <1>1, <1>3, <2>1
<1>8. TypeOK' /\ CountInv'
  BY <1>3, <1>5, <1>6, <1>7 DEF Inv, TypeOK, CountInv
<1> QED
  BY <1>5, <1>8 DEF Inv

\* The handler's steps before its loop and at the end of it.
LEMMA HandlerInv == ASSUME Inv, NEW c \in Clients,
                           \/ Accept(c) \/ SendFd(c) \/ SendFdFails(c) \/ SpawnWriter(c)
                           \/ CloneFails(c) \/ HandlerEnds(c)
                    PROVE  Inv'
<1> USE DEF Inv
<1>1. ConnInv(c) /\ thread[c] \in [handler : {"none", "fd", "spawn", "read", "gone"},
                                   writer : {"none", "recv", "write", "gone"}]
  BY DEF TypeOK
<1>2. CASE SendFd(c)
  <2>1. /\ thread[c].handler = "fd" /\ wire[c] = <<>> /\ thread[c].writer = "none"
        /\ wire' = [wire EXCEPT ![c] = Append(@, Fd)]
        /\ thread' = [thread EXCEPT ![c].handler = "spawn"]
        /\ UNCHANGED <<registry, streams, chan, accepted, hand, peer, server>>
    BY <1>1, <1>2 DEF SendFd, Handler, ConnInv
  <2>2. Append(wire[c], Fd) = <<Fd>>
    BY <2>1
  <2>3. thread' \in [Clients -> [handler : {"none", "fd", "spawn", "read", "gone"},
                                 writer : {"none", "recv", "write", "gone"}]]
    BY <2>1 DEF TypeOK
  <2>4. wire' \in [Clients -> Seq(ServerMsgs \cup {Fd})]
    BY <2>1, <2>2, <<Fd>> \in Seq(ServerMsgs \cup {Fd}) DEF TypeOK
  <2>5. TypeOK' /\ CountInv'
    BY <2>1, <2>3, <2>4 DEF TypeOK, CountInv
  <2>6. /\ thread'[c].handler = "spawn" /\ thread'[c].writer = "none" /\ wire'[c] = <<Fd>>
        /\ \A d \in Clients \ {c} : thread'[d] = thread[d] /\ wire'[d] = wire[d]
    BY <2>1, <2>2 DEF TypeOK
  <2>7. <<Fd>> # <<>> /\ Head(<<Fd>>) = Fd /\ Len(<<Fd>>) = 1 /\ Tail(<<Fd>>) = <<>>
    OBVIOUS
  <2>8. ConnInv(c)' /\ FlowInv(c)'
    <3>1. ConnInv(c)'
      BY <1>1, <2>1, <2>6, <2>7 DEF ConnInv
    <3>2. Written(c)' = <<>> /\ Written(c) = <<>>
      BY <2>1, <2>6, <2>7 DEF Written
    <3> QED
      BY <2>1, <2>6, <3>1, <3>2 DEF FlowInv
  <2>9. ASSUME NEW d \in Clients \ {c} PROVE ConnInv(d)' /\ FlowInv(d)'
    BY <2>1, <2>6 DEF ConnInv, FlowInv, Written
  <2> QED
    BY <2>5, <2>8, <2>9
<1>3. CASE Accept(c) \/ SendFdFails(c) \/ SpawnWriter(c) \/ CloneFails(c) \/ HandlerEnds(c)
  <2>1. /\ registry' \in SUBSET Clients
        /\ UNCHANGED <<streams, chan, accepted, hand, wire, peer, server>>
    BY <1>3 DEF Accept, SendFdFails, SpawnWriter, CloneFails, HandlerEnds, GiveUp, TypeOK
  <2>2. \/ thread[c].handler = "none" /\ thread' = [thread EXCEPT ![c].handler = "fd"]
        \/ thread' = [thread EXCEPT ![c].handler = "gone"]
        \/ /\ thread[c].handler = "spawn"
           /\ thread' = [thread EXCEPT ![c] = [handler |-> "read", writer |-> "recv"]]
    BY <1>3 DEF Accept, SendFdFails, SpawnWriter, CloneFails, HandlerEnds, GiveUp, Handler
  <2>3. /\ thread' \in [Clients -> [handler : {"none", "fd", "spawn", "read", "gone"},
                                    writer : {"none", "recv", "write", "gone"}]]
        /\ \A d \in Clients \ {c} : thread'[d] = thread[d]
        /\ \/ /\ thread[c].handler = "none" /\ thread'[c].handler = "fd"
              /\ thread'[c].writer = thread[c].writer
           \/ thread'[c].handler = "gone" /\ thread'[c].writer = thread[c].writer
           \/ /\ thread[c].handler = "spawn" /\ thread'[c].handler = "read"
              /\ thread'[c].writer = "recv"
    <3>1. CASE \E h \in {"fd", "gone"} : thread' = [thread EXCEPT ![c].handler = h]
      <4>1. PICK h \in {"fd", "gone"} : thread' = [thread EXCEPT ![c].handler = h]
        BY <3>1
      <4>2. thread \in [Clients -> [handler : {"none", "fd", "spawn", "read", "gone"},
                                    writer : {"none", "recv", "write", "gone"}]]
        BY DEF TypeOK
      <4>3. /\ thread' \in [Clients -> [handler : {"none", "fd", "spawn", "read", "gone"},
                                        writer : {"none", "recv", "write", "gone"}]]
            /\ \A d \in Clients \ {c} : thread'[d] = thread[d]
            /\ thread'[c].handler = h /\ thread'[c].writer = thread[c].writer
        BY <4>1, <4>2
      <4> QED
        BY <1>1, <2>2, <4>1, <4>2, <4>3
    <3>2. CASE /\ thread[c].handler = "spawn"
               /\ thread' = [thread EXCEPT ![c] = [handler |-> "read", writer |-> "recv"]]
      BY <3>2 DEF TypeOK
    <3> QED
      BY <2>2, <3>1, <3>2
  <2>4. TypeOK' /\ CountInv'
    BY <2>1, <2>3 DEF TypeOK, CountInv
  <2>5. ConnInv(c)' /\ FlowInv(c)'
    BY <1>1, <2>1, <2>3 DEF ConnInv, FlowInv, Written
  <2>6. ASSUME NEW d \in Clients \ {c} PROVE ConnInv(d)' /\ FlowInv(d)'
    BY <2>1, <2>3 DEF ConnInv, FlowInv, Written
  <2> QED
    BY <2>4, <2>5, <2>6
<1> QED
  BY <1>2, <1>3

\* A connection that a step does not touch keeps its part of the invariant.
LEMMA Untouched == ASSUME NEW d \in Clients, ConnInv(d), FlowInv(d), thread'[d] = thread[d],
                          wire'[d] = wire[d], hand'[d] = hand[d], chan'[d] = chan[d],
                          accepted'[d] = accepted[d]
                   PROVE  ConnInv(d)' /\ FlowInv(d)'
  BY DEF ConnInv, FlowInv, Written

\* The writer takes the head of the channel into its hands, puts what it holds
\* at the end of the wire, or ends.
LEMMA WriterInv == ASSUME Inv, NEW c \in Clients, WriterStep(c)
                   PROVE  Inv'
<1> DEFINE Units == ServerMsgs \cup {Fd}
           Writers == {"none", "recv", "write", "gone"}
           Threads == [handler : {"none", "fd", "spawn", "read", "gone"}, writer : Writers]
<1>1. /\ TypeOK /\ CountInv /\ thread \in [Clients -> Threads]
      /\ ConnInv(c) /\ FlowInv(c)
  BY DEF Inv, TypeOK
<1>2. /\ chan[c] \in Seq(ServerMsgs) /\ hand[c] \in Seq(ServerMsgs)
      /\ wire[c] \in Seq(Units) /\ hand[c] \in Seq(Units) /\ chan[c] \in Seq(Units)
  <2>1. chan[c] \in Seq(ServerMsgs) /\ hand[c] \in Seq(ServerMsgs) /\ wire[c] \in Seq(Units)
    BY DEF Inv, TypeOK
  <2> QED
    BY <2>1, SeqMonotonic, ServerMsgs \subseteq Units
<1>3. Written(c) \in Seq(Units)
  BY <1>2, HeadTailProperties, EmptySeq DEF Written
<1>4. ASSUME NEW w \in Writers, thread' = [thread EXCEPT ![c].writer = w]
      PROVE  /\ thread' \in [Clients -> Threads]
             /\ thread'[c].writer = w /\ thread'[c].handler = thread[c].handler
             /\ \A d \in Clients \ {c} : thread'[d] = thread[d]
  BY <1>1, <1>4
<1>5. CASE WriterRecv(c)
  <2>1. /\ thread[c].writer = "recv" /\ chan[c] # <<>>
        /\ thread' = [thread EXCEPT ![c].writer = "write"]
        /\ hand' = [hand EXCEPT ![c] = <<Head(chan[c])>>]
        /\ chan' = [chan EXCEPT ![c] = Tail(@)]
        /\ UNCHANGED <<registry, streams, accepted, wire, peer, server>>
    BY <1>5 DEF WriterRecv
  <2>2. /\ Head(chan[c]) \in ServerMsgs /\ Tail(chan[c]) \in Seq(ServerMsgs)
        /\ chan[c] = <<Head(chan[c])>> \o Tail(chan[c])
    BY <1>2, <2>1, HeadTailProperties, HeadTail
  <2>3. /\ thread' \in [Clients -> Threads]
        /\ thread'[c].writer = "write" /\ thread'[c].handler = thread[c].handler
        /\ \A d \in Clients \ {c} : thread'[d] = thread[d]
    BY <1>4, <2>1
  <2>4. /\ hand' \in [Clients -> Seq(ServerMsgs)] /\ chan' \in [Clients -> Seq(ServerMsgs)]
    BY <2>1, <2>2, <<Head(chan[c])>> \in Seq(ServerMsgs) DEF Inv, TypeOK
  <2>5. TypeOK' /\ CountInv'
    BY <1>1, <2>1, <2>3, <2>4 DEF TypeOK, CountInv
  <2>6. hand[c] = <<>> /\ hand'[c] = <<Head(chan[c])>> /\ chan'[c] = Tail(chan[c])
    BY <1>1, <2>1 DEF ConnInv, TypeOK
  <2>7. ConnInv(c)'
    BY <1>1, <2>1, <2>3 DEF ConnInv
  <2>8. FlowInv(c)'
    <3>1. accepted[c] = Written(c) \o chan[c]
      BY <1>1, <1>3, <2>1, <2>6, ConcatEmptySeq DEF FlowInv
    <3>2. /\ <<Head(chan[c])>> \in Seq(Units) /\ Tail(chan[c]) \in Seq(Units)
      BY <1>2, <2>1, HeadTailProperties, <<Head(chan[c])>> \in Seq(Units)
    <3>3. Written(c) \o chan[c] = Written(c) \o <<Head(chan[c])>> \o Tail(chan[c])
      <4>1. \A s, t, u \in Seq(Units) : (s \o t) \o u = s \o (t \o u)
        BY ConcatAssociative
      <4>2. Written(c) \o <<Head(chan[c])>> \o Tail(chan[c])
            = Written(c) \o (<<Head(chan[c])>> \o Tail(chan[c]))
        BY <1>3, <3>2, <4>1
      <4> QED
        BY <2>2, <4>2
    <3>4. accepted'[c] = accepted[c] /\ Written(c)' = Written(c)
      BY <2>1 DEF Written
    <3> QED
      BY <2>6, <3>1, <3>3, <3>4 DEF FlowInv
  <2>9. ASSUME NEW d \in Clients \ {c} PROVE ConnInv(d)' /\ FlowInv(d)'
    <3>1. /\ wire'[d] = wire[d] /\ hand'[d] = hand[d] /\ chan'[d] = chan[d]
          /\ accepted'[d] = accepted[d] /\ thread'[d] = thread[d]
      BY <1>1, <2>1, <2>3 DEF TypeOK
    <3> QED
      BY <3>1, Untouched DEF Inv
  <2> QED
    BY <2>5, <2>7, <2>8, <2>9 DEF Inv
<1>6. CASE WriterWrite(c)
  <2>1. /\ thread[c].writer = "write" /\ wire[c] # <<>> /\ Head(wire[c]) = Fd
        /\ thread' = [thread EXCEPT ![c].writer = "recv"]
        /\ wire' = [wire EXCEPT ![c] = @ \o hand[c]]
        /\ hand' = [hand EXCEPT ![c] = <<>>]
        /\ UNCHANGED <<registry, streams, chan, accepted, peer, server>>
    BY <1>1, <1>6 DEF WriterWrite, ConnInv
  <2>2. /\ wire[c] \o hand[c] \in Seq(Units) /\ wire[c] \o hand[c] # <<>>
        /\ Head(wire[c] \o hand[c]) = Fd
        /\ Tail(wire[c] \o hand[c]) = Tail(wire[c]) \o hand[c]
    <3> HIDE DEF Units
    <3>1. \A s, t \in Seq(Units) : s \o t \in Seq(Units)
      BY ConcatProperties
    <3>2. \A s, t \in Seq(Units) : s # <<>> => /\ s \o t # <<>> /\ Head(s \o t) = Head(s)
                                             /\ Tail(s \o t) = Tail(s) \o t
      BY HeadTailConcat
    <3> QED
      BY <1>2, <2>1, <3>1, <3>2
  <2>3. /\ thread' \in [Clients -> Threads]
        /\ thread'[c].writer = "recv" /\ thread'[c].handler = thread[c].handler
        /\ \A d \in Clients \ {c} : thread'[d] = thread[d]
    BY <1>4, <2>1
  <2>4. hand' \in [Clients -> Seq(ServerMsgs)] /\ wire' \in [Clients -> Seq(Units)]
    <3>1. hand \in [Clients -> Seq(ServerMsgs)] /\ wire \in [Clients -> Seq(Units)]
      BY DEF Inv, TypeOK
    <3> HIDE DEF Units
    <3> QED
      BY <2>1, <2>2, <3>1
  <2>5. TypeOK' /\ CountInv'
    BY <1>1, <2>1, <2>3, <2>4 DEF TypeOK, CountInv
  <2>6. hand'[c] = <<>> /\ wire'[c] = wire[c] \o hand[c] /\ chan'[c] = chan[c]
    BY <1>1, <2>1 DEF TypeOK
  <2>7. ConnInv(c)'
    BY <1>1, <2>1, <2>2, <2>3, <2>6 DEF ConnInv
  <2>8. FlowInv(c)'
    <3>1. Written(c)' = Written(c) \o hand[c]
      BY <2>1, <2>2, <2>6 DEF Written
    <3>2. Written(c)' \o hand'[c] = Written(c) \o hand[c]
      BY <1>2, <1>3, <2>6, <3>1, ConcatProperties, ConcatEmptySeq
    <3> QED
      BY <1>1, <2>1, <2>6, <3>2 DEF FlowInv
  <2>9. ASSUME NEW d \in Clients \ {c} PROVE ConnInv(d)' /\ FlowInv(d)'
    <3>1. /\ wire'[d] = wire[d] /\ hand'[d] = hand[d] /\ chan'[d] = chan[d]
          /\ accepted'[d] = accepted[d] /\ thread'[d] = thread[d]
      BY <1>1, <2>1, <2>3 DEF TypeOK
    <3> QED
      BY <3>1, Untouched DEF Inv
  <2> QED
    BY <2>5, <2>7, <2>8, <2>9 DEF Inv
<1>7. CASE WriterEnds(c)
  <2>1. /\ thread[c].writer \in {"recv", "write"}
        /\ thread' = [thread EXCEPT ![c].writer = "gone"]
        /\ hand' = [hand EXCEPT ![c] = <<>>]
        /\ UNCHANGED <<registry, streams, chan, accepted, wire, peer, server>>
    BY <1>7 DEF WriterEnds, Drained
  <2>2. /\ thread' \in [Clients -> Threads]
        /\ thread'[c].writer = "gone" /\ thread'[c].handler = thread[c].handler
        /\ \A d \in Clients \ {c} : thread'[d] = thread[d]
    BY <1>4, <2>1
  <2>3. hand' \in [Clients -> Seq(ServerMsgs)]
    BY <2>1 DEF Inv, TypeOK
  <2>4. TypeOK' /\ CountInv'
    BY <1>1, <2>1, <2>2, <2>3 DEF TypeOK, CountInv
  <2>5. ConnInv(c)' /\ FlowInv(c)'
    BY <1>1, <2>1, <2>2 DEF ConnInv, FlowInv
  <2>6. ASSUME NEW d \in Clients \ {c} PROVE ConnInv(d)' /\ FlowInv(d)'
    <3>1. /\ wire'[d] = wire[d] /\ hand'[d] = hand[d] /\ chan'[d] = chan[d]
          /\ accepted'[d] = accepted[d] /\ thread'[d] = thread[d]
      BY <1>1, <2>1, <2>2 DEF TypeOK
    <3> QED
      BY <3>1, Untouched DEF Inv
  <2> QED
    BY <2>4, <2>5, <2>6 DEF Inv
<1> QED
  BY <1>5, <1>6, <1>7 DEF WriterStep

\* The client's end of a connection touches nothing the invariant is about.
LEMMA PeerInv == ASSUME Inv, NEW c \in Clients, ClientStep(c)
                 PROVE  Inv'
<1> DEFINE Peers == [end : {"none", "open", "closed"}, taken : Nat,
                     asked : Nat, inbox : Seq(AllRequests)]
<1>1. peer \in [Clients -> Peers]
  BY DEF Inv, TypeOK
<1>2. ASSUME NEW new \in Peers, PeerStep(c, new)
      PROVE  Inv'
  <2>1. peer' \in [Clients -> Peers]
    BY <1>1, <1>2 DEF PeerStep
  <2>2. UNCHANGED <<registry, streams, thread, chan, accepted, hand, wire, server>>
    BY <1>2 DEF PeerStep
  <2>3. TypeOK' /\ CountInv'
    BY <2>1, <2>2 DEF Inv, TypeOK, CountInv
  <2>4. \A d \in Clients : ConnInv(d)' /\ FlowInv(d)'
    BY <2>2 DEF Inv, ConnInv, FlowInv, Written
  <2> QED
    BY <2>3, <2>4 DEF Inv
<1>3. ASSUME NEW req \in Requests, Ask(c, req)
      PROVE  Inv'
  <2>1. Append(peer[c].inbox, req) \in Seq(AllRequests)
    BY <1>1, AppendProperties
  <2>2. [peer[c] EXCEPT !.inbox = Append(@, req), !.asked = @ + 1] \in Peers
    <3>1. ASSUME NEW p \in Peers, NEW q \in Seq(AllRequests)
          PROVE  [p EXCEPT !.inbox = q, !.asked = @ + 1] \in Peers
      <4>1. PICK n \in Nat : n = p.asked + 1
        OBVIOUS
      <4> QED
        BY <4>1
    <3> QED
      BY <1>1, <2>1, <3>1
  <2> QED
    BY <1>2, <1>3, <2>2 DEF Ask
<1>4. CASE Connect(c) \/ Take(c) \/ Close(c)
  <2>1. /\ [peer[c] EXCEPT !.end = "open"] \in Peers
        /\ [peer[c] EXCEPT !.end = "closed"] \in Peers
    BY <1>1
  <2>2. [peer[c] EXCEPT !.taken = @ + 1] \in Peers
    <3>1. PICK n \in Nat : n = peer[c].taken + 1
      BY <1>1
    <3> QED
      BY <1>1, <3>1
  <2> QED
    BY <1>2, <1>4, <2>1, <2>2 DEF Connect, Take, Close
<1> QED
  BY <1>3, <1>4 DEF ClientStep

\* Every step of every actor preserves the invariant.
LEMMA InvNext == Inv /\ [Next]_vars => Inv'
<1> SUFFICES ASSUME Inv, [Next]_vars PROVE Inv'
  OBVIOUS
<1>1. CASE UNCHANGED vars
  BY <1>1 DEF vars, Inv, TypeOK, CountInv, ConnInv, FlowInv, Written
<1> QED
  BY <1>1, HandleMsgInv, HandlerInv, WriterInv, PeerInv, BroadcastInv DEF Next, HandlerStep
-----------------------------------------------------------------------------
\* Types: whatever the clients do, the channels and the sockets of ipc.rs hold
\* only messages of the kinds and with the numbers of ServerMsgs.
THEOREM TypeCorrect == Spec => []TypeOK
  BY InvInit, InvNext, PTL DEF Spec, Inv

\* For any number of clients and whatever is broadcast while a connection is
\* being set up, send_fd's descriptor is the first thing on its socket.
THEOREM DescriptorFirst == Spec => []FdFirst
<1>1. Inv => FdFirst
  BY DEF Inv, ConnInv, FdFirst
<1> QED
  BY <1>1, InvInit, InvNext, PTL DEF Spec

\* For any capacities of the channel and the socket, the writer thread loses,
\* repeats and reorders nothing of what try_send accepted.
THEOREM Delivery == Spec => []ExactlyOnceInOrder
<1>1. Inv => ExactlyOnceInOrder
  BY DEF Inv, FlowInv, Written, ExactlyOnceInOrder
<1> QED
  BY <1>1, InvInit, InvNext, PTL DEF Spec

-----------------------------------------------------------------------------
(***************************************************************************)
(* The refinement of ClientQueue.  Besides the invariant it needs how full *)
(* the channel, the writer's hands and the socket are, and that what was   *)
(* written agrees with what was accepted also after the writer has ended,  *)
(* when ExactlyOnceInOrder says nothing any more.                          *)
(***************************************************************************)
RoomInv == \A c \in Clients :
             /\ Len(chan[c]) <= ChanCap /\ Len(hand[c]) <= 1
             /\ peer[c].taken <= Len(wire[c]) /\ Len(wire[c]) - peer[c].taken <= SockCap

\* The wire has a first part of what was accepted, after the descriptor.
Agrees(c) == /\ Len(wire[c]) <= Len(accepted[c]) + 1
             /\ \A k \in 2..Len(wire[c]) : wire[c][k] = accepted[c][k - 1]

FinalInv == \A c \in Clients : thread[c].writer = "gone" => Agrees(c)

\* What ExactlyOnceInOrder means for the lengths and the elements.
FlowFacts == \A c \in Clients :
               thread[c].writer # "gone" =>
                 /\ Agrees(c)
                 /\ Len(accepted[c]) = (IF wire[c] = <<>> THEN 0 ELSE Len(wire[c]) - 1)
                                       + Len(hand[c]) + Len(chan[c])

LEMMA InvFlowFacts == Inv => FlowFacts
<1> SUFFICES ASSUME Inv, NEW c \in Clients, thread[c].writer # "gone"
             PROVE  /\ Agrees(c)
                    /\ Len(accepted[c]) = (IF wire[c] = <<>> THEN 0 ELSE Len(wire[c]) - 1)
                                          + Len(hand[c]) + Len(chan[c])
  BY DEF FlowFacts
<1> DEFINE Units == ServerMsgs \cup {Fd}
           w == Written(c) h == hand[c] q == chan[c]
<1>1. wire[c] \in Seq(Units) /\ h \in Seq(Units) /\ q \in Seq(Units)
  <2>1. wire[c] \in Seq(Units) /\ h \in Seq(ServerMsgs) /\ q \in Seq(ServerMsgs)
    BY DEF Inv, TypeOK
  <2> QED
    BY <2>1, SeqMonotonic, ServerMsgs \subseteq Units
<1> HIDE DEF Units
<1>2. /\ w \in Seq(Units) /\ Len(w) = IF wire[c] = <<>> THEN 0 ELSE Len(wire[c]) - 1
      /\ \A k \in 1..Len(w) : w[k] = wire[c][k + 1]
  <2>1. CASE wire[c] = <<>>
    <3>1. w = <<>>
      BY <2>1 DEF Written
    <3> QED
      BY <2>1, <3>1
  <2>2. CASE wire[c] # <<>>
    <3>1. w = Tail(wire[c])
      BY <2>2 DEF Written
    <3> QED
      BY <1>1, <2>2, <3>1, HeadTailProperties
  <2> QED
    BY <2>1, <2>2
<1>3. accepted[c] = w \o h \o q
  BY DEF Inv, FlowInv
<1> HIDE DEF w, h, q
<1>4. /\ w \o h \in Seq(Units) /\ Len(w \o h) = Len(w) + Len(h)
      /\ \A k \in 1..Len(w) : (w \o h)[k] = w[k]
  <2>1. \A s, t \in Seq(Units) : /\ s \o t \in Seq(Units) /\ Len(s \o t) = Len(s) + Len(t)
                                /\ \A k \in 1..Len(s) : (s \o t)[k] = s[k]
    <3> SUFFICES ASSUME NEW s \in Seq(Units), NEW t \in Seq(Units)
                 PROVE  /\ s \o t \in Seq(Units) /\ Len(s \o t) = Len(s) + Len(t)
                        /\ \A k \in 1..Len(s) : (s \o t)[k] = s[k]
      OBVIOUS
    <3>1. Len(s) \in Nat /\ Len(t) \in Nat
      OBVIOUS
    <3> QED
      BY <3>1, ConcatProperties
  <2> QED
    BY <1>1, <1>2, <2>1
<1>5. /\ Len(w) \in Nat /\ Len(h) \in Nat /\ Len(q) \in Nat /\ Len(wire[c]) \in Nat
      /\ (wire[c] # <<>> => Len(wire[c]) > 0)
  BY <1>1, <1>2, LenProperties, EmptySeq
<1>6. /\ Len(accepted[c]) = Len(w) + Len(h) + Len(q)
      /\ \A k \in 1..Len(w) : accepted[c][k] = w[k]
  <2>1. /\ Len(accepted[c]) = Len(w \o h) + Len(q)
        /\ \A k \in 1..Len(w \o h) : accepted[c][k] = (w \o h)[k]
    BY <1>1, <1>3, <1>4, ConcatProperties
  <2> QED
    BY <1>4, <1>5, <2>1
<1>7. Agrees(c)
  <2>1. Len(wire[c]) <= Len(accepted[c]) + 1
    <3>1. CASE wire[c] = <<>>
      BY <1>2, <1>5, <1>6, <3>1
    <3>2. CASE wire[c] # <<>>
      BY <1>2, <1>5, <1>6, <3>2
    <3> QED
      BY <3>1, <3>2
  <2>2. ASSUME NEW k \in 2..Len(wire[c]) PROVE wire[c][k] = accepted[c][k - 1]
    <3>1. wire[c] # <<>>
      BY <2>2
    <3>2. k - 1 \in 1..Len(w) /\ w[k - 1] = wire[c][k]
      BY <1>2, <1>5, <3>1
    <3> QED
      BY <1>6, <3>2
  <2> QED
    BY <2>1, <2>2 DEF Agrees
<1> QED
  BY <1>2, <1>6, <1>7 DEF h, q

-----------------------------------------------------------------------------
(* The steps, as the queue sees them                                       *)

SameTaken == \A c \in Clients : peer'[c].taken = peer[c].taken

\* Some thread sends; nothing else happens that the queue is about.
Sends(dest, msg) == TrySend(dest, msg) /\ UNCHANGED <<thread, hand, wire>> /\ SameTaken

\* Nothing happens that the queue is about.
Quiet == /\ UNCHANGED <<chan, accepted, hand, wire>> /\ SameTaken
         /\ \A c \in Clients : thread'[c].writer = "gone" <=> thread[c].writer = "gone"

\* A step of the server or of a client is a sending, a step of a writer, the
\* sending of the descriptor, a reading, or nothing of the kind.
LEMMA StepKinds ==
  ASSUME Inv, [Next]_vars
  PROVE  \/ Quiet
         \/ \E dest \in SUBSET Clients, msg \in ServerMsgs : Sends(dest, msg)
         \/ \E c \in Clients : SendFd(c) \/ WriterStep(c) \/ Take(c)
<1> DEFINE Peers == [end : {"none", "open", "closed"}, taken : Nat,
                     asked : Nat, inbox : Seq(AllRequests)]
           Threads == [handler : {"none", "fd", "spawn", "read", "gone"},
                       writer : {"none", "recv", "write", "gone"}]
<1>1. /\ TypeOK /\ CountInv /\ peer \in [Clients -> Peers] /\ thread \in [Clients -> Threads]
  BY DEF Inv, TypeOK
<1>2. ASSUME NEW dest \in SUBSET Clients, NEW msg \in ServerMsgs, Broadcast(dest, msg)
      PROVE  Sends(dest, msg)
  BY <1>2 DEF Broadcast, Sends, SameTaken
<1>3. /\ registry \in SUBSET Clients /\ \A flag : Subscribers(flag) \in SUBSET Clients
  BY <1>1 DEF TypeOK, Subscribers
<1>4. CASE BroadcastRadio \/ NotifyAudio \/ BroadcastStats
  BY <1>1, <1>2, <1>3, <1>4, MsgTypes DEF BroadcastRadio, NotifyAudio, BroadcastStats
<1>5. CASE UNCHANGED vars
  BY <1>5 DEF vars, Quiet, SameTaken
<1>6. ASSUME NEW c \in Clients, HandleMsg(c)
      PROVE  Quiet \/ \E msg \in ServerMsgs : Sends({c}, msg)
  <2>1. peer' = [peer EXCEPT ![c].inbox = Tail(@)] /\ UNCHANGED <<thread, hand, wire>>
    BY <1>6 DEF HandleMsg
  <2>2. SameTaken
    BY <1>1, <2>1 DEF SameTaken
  <2>3. UNCHANGED <<chan, accepted>> \/ \E msg \in ServerMsgs : TrySend({c}, msg)
    BY <1>1, <1>6, MsgTypes DEF HandleMsg
  <2> QED
    BY <2>1, <2>2, <2>3 DEF Quiet, Sends
<1>7. ASSUME NEW c \in Clients,
             Accept(c) \/ SendFdFails(c) \/ SpawnWriter(c) \/ CloneFails(c) \/ HandlerEnds(c)
      PROVE  Quiet
  <2>1. UNCHANGED <<chan, accepted, hand, wire, peer>>
    BY <1>7 DEF Accept, SendFdFails, SpawnWriter, CloneFails, HandlerEnds, GiveUp
  <2>2. \/ \E h \in {"fd", "gone"} : thread' = [thread EXCEPT ![c].handler = h]
        \/ /\ thread[c].handler = "spawn"
           /\ thread' = [thread EXCEPT ![c] = [handler |-> "read", writer |-> "recv"]]
    BY <1>7 DEF Accept, SendFdFails, SpawnWriter, CloneFails, HandlerEnds, GiveUp, Handler
  <2>3. \A d \in Clients : thread'[d].writer = "gone" <=> thread[d].writer = "gone"
    <3>1. ASSUME NEW h \in {"fd", "gone"}, thread' = [thread EXCEPT ![c].handler = h],
                 NEW d \in Clients
          PROVE  thread'[d].writer = thread[d].writer
      BY <1>1, <3>1
    <3>2. CASE /\ thread[c].handler = "spawn"
               /\ thread' = [thread EXCEPT ![c] = [handler |-> "read", writer |-> "recv"]]
      <4>1. thread[c].writer = "none"
        BY <3>2 DEF Inv, ConnInv
      <4> QED
        BY <1>1, <3>2, <4>1
    <3> QED
      BY <2>2, <3>1, <3>2
  <2> QED
    BY <2>1, <2>3 DEF Quiet, SameTaken
<1>8. ASSUME NEW c \in Clients, Connect(c) \/ (\E req \in Requests : Ask(c, req)) \/ Close(c)
      PROVE  Quiet
  <2>1. \E new : PeerStep(c, new) /\ new.taken = peer[c].taken
    <3>1. CASE Connect(c) \/ Close(c)
      BY <1>1, <3>1 DEF Connect, Close
    <3>2. ASSUME NEW req \in Requests, Ask(c, req)
          PROVE  \E new : PeerStep(c, new) /\ new.taken = peer[c].taken
      <4>1. PeerStep(c, [peer[c] EXCEPT !.inbox = Append(@, req), !.asked = @ + 1])
        BY <3>2 DEF Ask
      <4>2. ASSUME NEW q, NEW n, NEW p \in Peers
            PROVE  [p EXCEPT !.inbox = q, !.asked = n].taken = p.taken
        OBVIOUS
      <4>3. [peer[c] EXCEPT !.inbox = Append(@, req), !.asked = @ + 1].taken = peer[c].taken
        BY <1>1, <4>2
      <4> QED
        BY <4>1, <4>3
    <3> QED
      BY <1>8, <3>1, <3>2
  <2>2. PICK new : PeerStep(c, new) /\ new.taken = peer[c].taken
    BY <2>1
  <2>3. SameTaken
    BY <1>1, <2>2 DEF PeerStep, SameTaken
  <2> QED
    BY <2>2, <2>3 DEF PeerStep, Quiet
<1>9. ASSUME NEW c \in Clients, HandlerStep(c) \/ WriterStep(c) \/ ClientStep(c)
      PROVE  \/ Quiet
             \/ \E dest \in SUBSET Clients, msg \in ServerMsgs : Sends(dest, msg)
             \/ SendFd(c) \/ WriterStep(c) \/ Take(c)
  <2>1. {c} \in SUBSET Clients
    OBVIOUS
  <2> QED
    BY <1>6, <1>7, <1>8, <1>9, <2>1 DEF HandlerStep, ClientStep
<1> QED
  BY <1>4, <1>5, <1>9 DEF Next

\* What a step may do to one connection.
SameFlow(c) == wire'[c] = wire[c] /\ accepted'[c] = accepted[c]
SameGone(c) == thread'[c].writer = "gone" <=> thread[c].writer = "gone"
OneSent(c, msg) ==
  /\ thread[c].writer # "gone" /\ Len(chan[c]) < ChanCap
  /\ chan'[c] = Append(chan[c], msg) /\ accepted'[c] = Append(accepted[c], msg)
  /\ hand'[c] = hand[c] /\ wire'[c] = wire[c] /\ peer'[c].taken = peer[c].taken
OneFd(c) == /\ wire[c] = <<>> /\ wire'[c] = <<Fd>> /\ accepted'[c] = accepted[c]
            /\ chan'[c] = chan[c] /\ hand'[c] = hand[c] /\ peer'[c].taken = peer[c].taken
OneRecv(c) == /\ chan[c] # <<>> /\ chan'[c] = Tail(chan[c])
              /\ hand'[c] = <<Head(chan[c])>> /\ peer'[c].taken = peer[c].taken /\ SameFlow(c)
OneWritten(c) == /\ Len(wire[c]) - peer[c].taken < SockCap
                 /\ wire'[c] = wire[c] \o hand[c] /\ hand'[c] = <<>>
                 /\ chan'[c] = chan[c] /\ accepted'[c] = accepted[c]
                 /\ peer'[c].taken = peer[c].taken
OneEnded(c) == /\ thread[c].writer # "gone" /\ thread'[c].writer = "gone"
               /\ hand'[c] = <<>> /\ chan'[c] = chan[c]
               /\ peer'[c].taken = peer[c].taken /\ SameFlow(c)
OneTaken(c) == /\ peer[c].taken < Len(wire[c]) /\ peer'[c].taken = peer[c].taken + 1
               /\ chan'[c] = chan[c] /\ hand'[c] = hand[c] /\ SameFlow(c)
OneSame(c) == /\ chan'[c] = chan[c] /\ hand'[c] = hand[c] /\ peer'[c].taken = peer[c].taken
              /\ SameFlow(c)

\* The descriptor, the writer's steps and a reading, each with what it does to
\* its own connection and that it leaves the others alone.
LEMMA OneStep ==
  ASSUME Inv, NEW c \in Clients, SendFd(c) \/ WriterStep(c) \/ Take(c)
  PROVE  /\ \A d \in Clients \ {c} : OneSame(d) /\ SameGone(d)
         /\ \/ OneFd(c) /\ thread[c].writer # "gone" /\ thread'[c].writer # "gone"
            \/ (OneRecv(c) \/ OneWritten(c)) /\ thread[c].writer # "gone"
                                            /\ thread'[c].writer # "gone"
            \/ OneEnded(c)
            \/ OneTaken(c) /\ SameGone(c)
<1> DEFINE Peers == [end : {"none", "open", "closed"}, taken : Nat,
                     asked : Nat, inbox : Seq(AllRequests)]
           Threads == [handler : {"none", "fd", "spawn", "read", "gone"},
                       writer : {"none", "recv", "write", "gone"}]
<1>1. /\ peer \in [Clients -> Peers] /\ thread \in [Clients -> Threads]
      /\ DOMAIN chan = Clients /\ DOMAIN accepted = Clients
      /\ DOMAIN hand = Clients /\ DOMAIN wire = Clients
      /\ chan = [d \in Clients |-> chan[d]] /\ hand = [d \in Clients |-> hand[d]]
      /\ wire = [d \in Clients |-> wire[d]]
  BY DEF Inv, TypeOK
<1>2. ASSUME NEW w \in {"recv", "write", "gone"}, thread' = [thread EXCEPT ![c].writer = w]
      PROVE  thread'[c].writer = w /\ \A d \in Clients \ {c} : thread'[d] = thread[d]
  BY <1>1, <1>2
<1> USE DEF SameFlow, SameGone, OneSame
<1>3. CASE SendFd(c)
  <2>1. /\ thread[c].handler = "fd" /\ thread[c].writer = "none" /\ wire[c] = <<>>
        /\ thread' = [thread EXCEPT ![c].handler = "spawn"]
        /\ wire' = [wire EXCEPT ![c] = Append(@, Fd)]
        /\ UNCHANGED <<chan, accepted, hand, peer>>
    BY <1>3 DEF SendFd, Handler, Inv, ConnInv
  <2>2. /\ \A d \in Clients : thread'[d].writer = thread[d].writer
        /\ wire'[c] = Append(wire[c], Fd) /\ \A d \in Clients \ {c} : wire'[d] = wire[d]
    BY <1>1, <2>1
  <2>3. Append(wire[c], Fd) = <<Fd>>
    BY <2>1
  <2> QED
    BY <2>1, <2>2, <2>3 DEF OneFd
<1>4. CASE WriterRecv(c)
  <2>1. /\ thread[c].writer = "recv" /\ chan[c] # <<>>
        /\ thread' = [thread EXCEPT ![c].writer = "write"]
        /\ hand' = [hand EXCEPT ![c] = <<Head(chan[c])>>]
        /\ chan' = [chan EXCEPT ![c] = Tail(@)]
        /\ UNCHANGED <<accepted, wire, peer>>
    BY <1>4 DEF WriterRecv
  <2>2. /\ hand'[c] = <<Head(chan[c])>> /\ \A d \in Clients \ {c} : hand'[d] = hand[d]
        /\ chan'[c] = Tail(chan[c]) /\ \A d \in Clients \ {c} : chan'[d] = chan[d]
    BY <1>1, <2>1
  <2>3. thread'[c].writer = "write" /\ \A d \in Clients \ {c} : thread'[d] = thread[d]
    BY <1>2, <2>1
  <2> QED
    BY <2>1, <2>2, <2>3 DEF OneRecv
<1>5. CASE WriterWrite(c)
  <2>1. /\ thread[c].writer = "write" /\ Len(wire[c]) - peer[c].taken < SockCap
        /\ thread' = [thread EXCEPT ![c].writer = "recv"]
        /\ wire' = [wire EXCEPT ![c] = @ \o hand[c]]
        /\ hand' = [hand EXCEPT ![c] = <<>>]
        /\ UNCHANGED <<chan, accepted, peer>>
    BY <1>5 DEF WriterWrite
  <2>2. /\ hand'[c] = <<>> /\ \A d \in Clients \ {c} : hand'[d] = hand[d]
        /\ wire'[c] = wire[c] \o hand[c] /\ \A d \in Clients \ {c} : wire'[d] = wire[d]
    BY <1>1, <2>1
  <2>3. thread'[c].writer = "recv" /\ \A d \in Clients \ {c} : thread'[d] = thread[d]
    BY <1>2, <2>1
  <2> QED
    BY <2>1, <2>2, <2>3 DEF OneWritten
<1>6. CASE WriterEnds(c)
  <2>1. /\ thread[c].writer # "gone"
        /\ thread' = [thread EXCEPT ![c].writer = "gone"]
        /\ hand' = [hand EXCEPT ![c] = <<>>]
        /\ UNCHANGED <<chan, accepted, wire, peer>>
    BY <1>6 DEF WriterEnds, Drained
  <2>2. hand'[c] = <<>> /\ \A d \in Clients \ {c} : hand'[d] = hand[d]
    BY <1>1, <2>1
  <2>3. thread'[c].writer = "gone" /\ \A d \in Clients \ {c} : thread'[d] = thread[d]
    BY <1>2, <2>1
  <2> QED
    BY <2>1, <2>2, <2>3 DEF OneEnded
<1>7. CASE Take(c)
  <2>1. /\ peer[c].taken < Len(wire[c])
        /\ peer' = [peer EXCEPT ![c] = [peer[c] EXCEPT !.taken = @ + 1]]
        /\ UNCHANGED <<thread, chan, accepted, hand, wire>>
    BY <1>7 DEF Take, PeerStep
  <2>2. PICK n \in Nat : n = peer[c].taken + 1
    BY <1>1
  <2>3. peer' = [peer EXCEPT ![c] = [peer[c] EXCEPT !.taken = n]]
    BY <2>1, <2>2
  <2>4. peer'[c].taken = n /\ \A d \in Clients \ {c} : peer'[d] = peer[d]
    BY <1>1, <2>3
  <2> QED
    BY <2>1, <2>2, <2>4 DEF OneTaken
<1> QED
  BY <1>3, <1>4, <1>5, <1>6, <1>7 DEF WriterStep

\* A sending does the same to each connection it reaches.
LEMMA OneSends ==
  ASSUME Inv, NEW dest \in SUBSET Clients, NEW msg \in ServerMsgs, Sends(dest, msg),
         NEW c \in Clients
  PROVE  /\ c \in dest /\ Fits(c) => OneSent(c, msg)
         /\ ~ (c \in dest /\ Fits(c)) => OneSame(c)
  BY DEF Sends, TrySend, SameTaken, Fits, OneSent, OneSame, SameFlow

\* No step overfills the channel, the writer's hands or the socket.
LEMMA RoomNext == Inv /\ RoomInv /\ [Next]_vars => RoomInv'
<1> SUFFICES ASSUME Inv, RoomInv, [Next]_vars, NEW c \in Clients
             PROVE  /\ Len(chan'[c]) <= ChanCap /\ Len(hand'[c]) <= 1
                    /\ peer'[c].taken <= Len(wire'[c])
                    /\ Len(wire'[c]) - peer'[c].taken <= SockCap
  BY DEF RoomInv
<1>1. /\ Len(chan[c]) \in Nat /\ Len(hand[c]) \in Nat /\ Len(wire[c]) \in Nat
      /\ peer[c].taken \in Nat /\ ChanCap \in Nat /\ SockCap \in Nat \ {0}
  BY DEF Inv, TypeOK
<1>2. /\ Len(chan[c]) <= ChanCap /\ Len(hand[c]) <= 1
      /\ peer[c].taken <= Len(wire[c]) /\ Len(wire[c]) - peer[c].taken <= SockCap
  BY DEF RoomInv
<1>3. CASE OneSame(c)
  BY <1>2, <1>3 DEF OneSame, SameFlow
<1>4. ASSUME NEW msg, OneSent(c, msg)
      PROVE  Len(chan'[c]) <= ChanCap
  <2>1. chan[c] \in Seq(ServerMsgs)
    BY DEF Inv, TypeOK
  <2>2. Len(chan'[c]) = Len(chan[c]) + 1
    BY <1>4, <2>1 DEF OneSent
  <2> QED
    BY <1>1, <1>4, <2>2 DEF OneSent
<1>5. CASE OneFd(c)
  <2>1. Len(<<>>) = 0 /\ Len(<<Fd>>) = 1
    OBVIOUS
  <2> QED
    BY <1>1, <1>2, <1>5, <2>1 DEF OneFd
<1>6. CASE OneRecv(c)
  <2>1. chan[c] \in Seq(ServerMsgs) /\ chan[c] # <<>>
    BY <1>6 DEF OneRecv, Inv, TypeOK
  <2>2. Len(chan'[c]) = Len(chan[c]) - 1 /\ Len(hand'[c]) = 1
    BY <1>6, <2>1, HeadTailProperties DEF OneRecv
  <2> QED
    BY <1>1, <1>2, <1>6, <2>2 DEF OneRecv, SameFlow
<1>7. CASE OneWritten(c)
  <2> DEFINE Units == ServerMsgs \cup {Fd}
  <2>1. wire[c] \in Seq(Units) /\ hand[c] \in Seq(Units)
    <3>1. wire[c] \in Seq(Units) /\ hand[c] \in Seq(ServerMsgs)
      BY DEF Inv, TypeOK
    <3> QED
      BY <3>1, SeqMonotonic, ServerMsgs \subseteq Units
  <2> HIDE DEF Units
  <2>2. \A s, t \in Seq(Units) : Len(s \o t) = Len(s) + Len(t)
    BY ConcatProperties
  <2>3. Len(wire'[c]) = Len(wire[c]) + Len(hand[c]) /\ Len(hand'[c]) = 0
    BY <1>7, <2>1, <2>2 DEF OneWritten
  <2>4. /\ Len(wire[c]) - peer[c].taken < SockCap
        /\ chan'[c] = chan[c] /\ peer'[c].taken = peer[c].taken
    BY <1>7 DEF OneWritten
  <2>5. ASSUME NEW w \in Nat, NEW h \in Nat, NEW t \in Nat, NEW cap \in Nat,
               h <= 1, t <= w, w - t < cap
        PROVE  t <= w + h /\ (w + h) - t <= cap
    BY <2>5
  <2> HIDE DEF Units
  <2>6. peer[c].taken <= Len(wire[c]) + Len(hand[c])
        /\ (Len(wire[c]) + Len(hand[c])) - peer[c].taken <= SockCap
    BY <1>1, <1>2, <2>4, <2>5
  <2>7. /\ peer'[c].taken <= Len(wire'[c])
        /\ Len(wire'[c]) - peer'[c].taken <= SockCap
    BY <2>3, <2>4, <2>6, Zenon
  <2>8. Len(hand'[c]) <= 1
    BY <2>3
  <2>9. Len(chan'[c]) <= ChanCap
    BY <1>2, <2>4
  <2> QED
    BY <2>7, <2>8, <2>9
<1>8. CASE OneEnded(c)
  BY <1>1, <1>2, <1>8 DEF OneEnded, SameFlow
<1>9. CASE OneTaken(c)
  BY <1>1, <1>2, <1>9 DEF OneTaken, SameFlow
<1>10. CASE Quiet
  BY <1>2, <1>10 DEF Quiet, SameTaken
<1>11. ASSUME NEW dest \in SUBSET Clients, NEW msg \in ServerMsgs, Sends(dest, msg)
       PROVE  /\ Len(chan'[c]) <= ChanCap /\ Len(hand'[c]) <= 1
              /\ peer'[c].taken <= Len(wire'[c])
              /\ Len(wire'[c]) - peer'[c].taken <= SockCap
  <2>1. OneSame(c) \/ OneSent(c, msg)
    BY <1>11, OneSends
  <2> QED
    BY <1>2, <1>3, <1>4, <2>1 DEF OneSent
<1>12. ASSUME NEW d \in Clients, SendFd(d) \/ WriterStep(d) \/ Take(d)
       PROVE  OneSame(c) \/ OneFd(c) \/ OneRecv(c) \/ OneWritten(c) \/ OneEnded(c) \/ OneTaken(c)
  BY <1>12, OneStep
<1> QED
  BY <1>3, <1>5, <1>6, <1>7, <1>8, <1>9, <1>10, <1>11, <1>12, StepKinds

\* A writer that has ended leaves behind a wire that agrees with what was
\* accepted, and nothing is accepted or written for it any more.
LEMMA FinalNext == Inv /\ FlowFacts /\ FinalInv /\ [Next]_vars => FinalInv'
<1> SUFFICES ASSUME Inv, FlowFacts, FinalInv, [Next]_vars,
                    NEW c \in Clients, thread'[c].writer = "gone"
             PROVE  Agrees(c)'
  BY DEF FinalInv
<1>1. Agrees(c)
  BY DEF FlowFacts, FinalInv
<1>2. SameFlow(c)
  <2>1. CASE Quiet
    BY <2>1 DEF Quiet, SameFlow
  <2>2. ASSUME NEW dest \in SUBSET Clients, NEW msg \in ServerMsgs, Sends(dest, msg)
        PROVE  SameFlow(c)
    <3>1. ~ Fits(c)
      BY <2>2 DEF Sends, Fits
    <3> QED
      BY <2>2, <3>1, OneSends DEF OneSame
  <2>3. ASSUME NEW d \in Clients, SendFd(d) \/ WriterStep(d) \/ Take(d)
        PROVE  SameFlow(c)
    BY <2>3, OneStep DEF OneSame, OneEnded, OneTaken
  <2> QED
    BY <2>1, <2>2, <2>3, StepKinds
<1> QED
  BY <1>1, <1>2 DEF SameFlow, Agrees

-----------------------------------------------------------------------------
(* Every step is a step of the queue, or none                              *)

\* The refinement mapping, by name.
QRead(c) == IF peer[c].taken = 0 THEN 0 ELSE peer[c].taken - 1
QItem(c) == IF peer[c].taken <= 1 THEN <<>> ELSE <<wire[c][peer[c].taken]>>
qread == [c \in Clients |-> QRead(c)]
qitem == [c \in Clients |-> QItem(c)]
qended == {c \in Clients : thread[c].writer = "gone"}

\* What the client has read of a wire that only grows.
LEMMA QueueSame ==
  ASSUME Inv, NEW c \in Clients, peer'[c].taken = peer[c].taken,
         peer[c].taken = 0 \/ wire'[c][peer[c].taken] = wire[c][peer[c].taken]
  PROVE  QRead(c)' = QRead(c) /\ QItem(c)' = QItem(c)
<1>1. peer[c].taken \in Nat
  BY DEF Inv, TypeOK
<1> QED
  BY <1>1 DEF QRead, QItem

\* A sending is a Send to the clients whose channels have room.
LEMMA SendsQueue ==
  ASSUME Inv, RoomInv, FlowFacts,
         NEW dest \in SUBSET Clients, NEW msg \in ServerMsgs, Sends(dest, msg)
  PROVE  \E to \in SUBSET Clients : Queue!Send(to, msg)
<1> DEFINE to == {c \in dest : Fits(c)}
<1>1. to \cap qended = {}
  BY DEF Fits, qended
<1>2. ASSUME NEW c \in to PROVE Len(accepted[c]) - qread[c] < ChanCap + 1 + SockCap
  <2>1. /\ Len(chan[c]) \in Nat /\ Len(hand[c]) \in Nat /\ Len(wire[c]) \in Nat
        /\ peer[c].taken \in Nat /\ ChanCap \in Nat /\ SockCap \in Nat /\ c \in Clients
        /\ (wire[c] = <<>> <=> Len(wire[c]) = 0)
    BY DEF Inv, TypeOK
  <2>2. /\ Len(chan[c]) < ChanCap /\ Len(hand[c]) <= 1
        /\ peer[c].taken <= Len(wire[c]) /\ Len(wire[c]) - peer[c].taken <= SockCap
    BY DEF RoomInv, Fits
  <2>3. Len(accepted[c]) = (IF wire[c] = <<>> THEN 0 ELSE Len(wire[c]) - 1)
                           + Len(hand[c]) + Len(chan[c])
    BY DEF FlowFacts, Fits
  <2>4. qread[c] = IF peer[c].taken = 0 THEN 0 ELSE peer[c].taken - 1
    BY <2>1 DEF qread, QRead
  <2>5. ASSUME NEW w \in Nat, NEW h \in Nat, NEW q \in Nat, NEW t \in Nat,
               h <= 1, q < ChanCap, t <= w, w - t <= SockCap
        PROVE  ((IF w = 0 THEN 0 ELSE w - 1) + h + q) - (IF t = 0 THEN 0 ELSE t - 1)
               < ChanCap + 1 + SockCap
    <3>1. ChanCap \in Nat /\ SockCap \in Nat
      BY <2>1
    <3>2. CASE w = 0
      BY <2>5, <3>1, <3>2
    <3>3. CASE w # 0
      BY <2>5, <3>1, <3>3
    <3> QED
      BY <3>2, <3>3
  <2>6. Len(accepted[c]) = (IF Len(wire[c]) = 0 THEN 0 ELSE Len(wire[c]) - 1)
                           + Len(hand[c]) + Len(chan[c])
    BY <2>1, <2>3
  <2> QED
    BY <2>1, <2>2, <2>4, <2>5, <2>6
<1>3. accepted' = [c \in Clients |-> IF c \in to THEN Append(accepted[c], msg) ELSE accepted[c]]
  BY DEF Sends, TrySend
<1>4. UNCHANGED <<qread, qitem, qended>>
  <2>1. ASSUME NEW c \in Clients PROVE QRead(c)' = QRead(c) /\ QItem(c)' = QItem(c)
    BY QueueSame DEF Sends, SameTaken
  <2>2. UNCHANGED qended
    BY DEF Sends, qended
  <2> QED
    BY <2>1, <2>2 DEF qread, qitem
<1>5. to \in SUBSET Clients
  OBVIOUS
<1>6. Queue!Send(to, msg)
  BY <1>1, <1>2, <1>3, <1>4 DEF Queue!Send, qread, qitem, qended, QRead, QItem
<1> QED
  BY <1>5, <1>6

\* The queue's variables stay when every connection's part of them stays.
LEMMA QueueStays ==
  ASSUME \A c \in Clients : QRead(c)' = QRead(c) /\ QItem(c)' = QItem(c) /\ SameGone(c),
         UNCHANGED accepted
  PROVE  UNCHANGED Queue!vars
<1>1. UNCHANGED <<qread, qitem>>
  BY DEF qread, qitem
<1>2. UNCHANGED qended
  BY DEF qended, SameGone
<1> QED
  BY <1>1, <1>2 DEF Queue!vars, qread, qitem, qended, QRead, QItem

\* A step that the queue knows nothing of leaves it as it is.
LEMMA QuietQueue == ASSUME Inv, Quiet PROVE UNCHANGED Queue!vars
<1>1. ASSUME NEW c \in Clients
      PROVE  QRead(c)' = QRead(c) /\ QItem(c)' = QItem(c) /\ SameGone(c)
  BY QueueSame DEF Quiet, SameTaken, SameGone
<1> QED
  BY <1>1, QueueStays DEF Quiet

\* The end of a writer is the end of the connection, a reading is a Receive
\* (except of the descriptor), and the other steps move a message within the
\* queue.
LEMMA OneQueue ==
  ASSUME Inv, RoomInv, FlowFacts, FinalInv,
         NEW c \in Clients, SendFd(c) \/ WriterStep(c) \/ Take(c)
  PROVE  Queue!Receive(c) \/ Queue!End(c) \/ UNCHANGED Queue!vars
<1>1. /\ peer[c].taken \in Nat /\ Len(wire[c]) \in Nat /\ Len(accepted[c]) \in Nat
      /\ peer[c].taken <= Len(wire[c])
  BY DEF Inv, TypeOK, RoomInv
<1>2. ASSUME NEW d \in Clients \ {c}
      PROVE  QRead(d)' = QRead(d) /\ QItem(d)' = QItem(d) /\ SameGone(d)
  BY OneStep, QueueSame DEF OneSame, SameFlow
<1>3. UNCHANGED accepted
  BY DEF SendFd, WriterStep, WriterRecv, WriterWrite, WriterEnds, Take, PeerStep
<1>4. CASE /\ peer'[c].taken = peer[c].taken /\ SameGone(c)
           /\ peer[c].taken = 0 \/ wire'[c][peer[c].taken] = wire[c][peer[c].taken]
  BY <1>2, <1>3, <1>4, QueueSame, QueueStays
<1>5. CASE OneFd(c) /\ SameGone(c)
  <2>1. peer[c].taken = 0
    BY <1>1, <1>5 DEF OneFd
  <2> QED
    BY <1>4, <1>5, <2>1 DEF OneFd
<1>6. CASE OneRecv(c) /\ SameGone(c)
  BY <1>4, <1>6 DEF OneRecv, SameFlow
<1>7. CASE OneWritten(c) /\ SameGone(c)
  <2> DEFINE Units == ServerMsgs \cup {Fd}
  <2>1. wire[c] \in Seq(Units) /\ hand[c] \in Seq(Units)
    <3>1. wire[c] \in Seq(Units) /\ hand[c] \in Seq(ServerMsgs)
      BY DEF Inv, TypeOK
    <3> QED
      BY <3>1, SeqMonotonic, ServerMsgs \subseteq Units
  <2> HIDE DEF Units
  <2>2. ASSUME NEW s \in Seq(Units), NEW t \in Seq(Units), NEW k \in 1..Len(s)
        PROVE  (s \o t)[k] = s[k]
    <3>1. Len(s) \in Nat /\ Len(t) \in Nat
      OBVIOUS
    <3> QED
      BY <3>1, ConcatProperties
  <2>3. peer[c].taken = 0 \/ peer[c].taken \in 1..Len(wire[c])
    BY <1>1
  <2>4. peer[c].taken = 0 \/ (wire[c] \o hand[c])[peer[c].taken] = wire[c][peer[c].taken]
    BY <2>1, <2>2, <2>3
  <2> QED
    BY <1>4, <1>7, <2>4 DEF OneWritten
<1>8. CASE OneEnded(c)
  <2>1. \A d \in Clients : QRead(d)' = QRead(d) /\ QItem(d)' = QItem(d)
    BY <1>2, <1>8, QueueSame DEF OneEnded, SameFlow
  <2>2. UNCHANGED <<qread, qitem>>
    BY <2>1 DEF qread, qitem
  <2>3. qended' = qended \cup {c}
    BY <1>2, <1>8 DEF qended, SameGone, OneEnded
  <2> QED
    BY <1>3, <2>2, <2>3 DEF Queue!End, qread, qitem, qended, QRead, QItem
<1>9. CASE OneTaken(c) /\ SameGone(c)
  <2>1. /\ peer[c].taken < Len(wire[c]) /\ peer'[c].taken = peer[c].taken + 1
        /\ wire'[c] = wire[c]
    BY <1>9 DEF OneTaken, SameFlow
  <2>2. CASE peer[c].taken = 0
    <3>1. peer'[c].taken = 1
      BY <2>1, <2>2
    <3>2. QRead(c)' = QRead(c) /\ QItem(c)' = QItem(c)
      BY <2>2, <3>1 DEF QRead, QItem
    <3> QED
      BY <1>2, <1>3, <1>9, <3>2, QueueStays
  <2>3. CASE peer[c].taken # 0
    <3> DEFINE k == peer[c].taken
    <3>1. Agrees(c)
      BY DEF FlowFacts, FinalInv
    <3>2. /\ QRead(c) = k - 1 /\ QRead(c)' = k /\ QRead(c)' = QRead(c) + 1
          /\ k - 1 < Len(accepted[c])
      BY <1>1, <2>1, <2>3, <3>1 DEF QRead, Agrees
    <3>3. wire[c][k + 1] = accepted[c][k]
      <4>1. k + 1 \in 2..Len(wire[c]) /\ (k + 1) - 1 = k
        BY <1>1, <2>1, <2>3
      <4> QED
        BY <3>1, <4>1 DEF Agrees
    <3>4. QItem(c)' = <<accepted[c][k]>>
      <4>1. ~ (peer'[c].taken <= 1) /\ peer'[c].taken = k + 1
        BY <1>1, <2>1, <2>3
      <4> QED
        BY <2>1, <3>3, <4>1 DEF QItem
    <3>5. qread' = [qread EXCEPT ![c] = @ + 1]
      BY <1>2, <3>2 DEF qread
    <3>6. /\ qread[c] = k - 1 /\ qread[c] + 1 = k
      BY <1>1, <3>2 DEF qread
    <3>7. qitem' = [qitem EXCEPT ![c] = <<accepted[c][qread[c] + 1]>>]
      BY <1>2, <3>4, <3>6 DEF qitem
    <3>8. UNCHANGED qended
      BY <1>2, <1>9 DEF qended, SameGone
    <3>9. qread[c] < Len(accepted[c])
      BY <3>2, <3>6
    <3> HIDE DEF k
    <3> QED
      BY <1>3, <3>5, <3>7, <3>8, <3>9 DEF Queue!Receive, qread, qitem, qended, QRead, QItem
  <2> QED
    BY <2>2, <2>3
<1> QED
  BY <1>5, <1>6, <1>7, <1>8, <1>9, OneStep DEF SameGone

\* Every step of the server and of the clients is a step of the queue, or none.
LEMMA QueueNext ==
  Inv /\ RoomInv /\ FlowFacts /\ FinalInv /\ [Next]_vars => [Queue!Next]_(Queue!vars)
<1> SUFFICES ASSUME Inv, RoomInv, FlowFacts, FinalInv, [Next]_vars
             PROVE  Queue!Next \/ UNCHANGED Queue!vars
  OBVIOUS
<1>1. CASE Quiet
  BY <1>1, QuietQueue
<1>2. ASSUME NEW dest \in SUBSET Clients, NEW msg \in ServerMsgs, Sends(dest, msg)
      PROVE  Queue!Next
  BY <1>2, SendsQueue DEF Queue!Next
<1>3. ASSUME NEW c \in Clients, SendFd(c) \/ WriterStep(c) \/ Take(c)
      PROVE  Queue!Next \/ UNCHANGED Queue!vars
  BY <1>3, OneQueue DEF Queue!Next
<1> QED
  BY <1>1, <1>2, <1>3, StepKinds

\* An empty program is an empty queue.
LEMMA QueueInit == Init => Queue!Init /\ RoomInv /\ FinalInv
<1> SUFFICES ASSUME Init PROVE Queue!Init /\ RoomInv /\ FinalInv
  OBVIOUS
<1>1. \A c \in Clients : /\ peer[c].taken = 0 /\ thread[c].writer = "none"
                         /\ chan[c] = <<>> /\ hand[c] = <<>> /\ wire[c] = <<>>
  BY DEF Init
<1>2. accepted = [c \in Clients |-> <<>>]
  BY DEF Init
<1>3. Queue!Init
  BY <1>1, <1>2 DEF Queue!Init
<1>4. RoomInv /\ FinalInv
  BY <1>1 DEF RoomInv, FinalInv
<1> QED
  BY <1>3, <1>4

\* For any capacities and any number of clients, channel, writer thread and
\* socket together are one bounded first-in first-out queue per client: what a
\* client reads after the descriptor is what try_send accepted, in order and
\* each message once, also what it reads after the writer has ended; and never
\* more than ChanCap + 1 + SockCap messages are between the two.
THEOREM QueueRefinement == Spec => ImplementsQueue
<1>1. Init => Inv /\ Queue!Init /\ RoomInv /\ FinalInv
  BY InvInit, QueueInit
<1> QED
  BY <1>1, InvNext, InvFlowFacts, RoomNext, FinalNext, QueueNext, PTL
     DEF Spec, ImplementsQueue, Queue!Spec
==============================================================================
