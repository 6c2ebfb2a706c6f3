---------------------------- MODULE ClientLibProofs ----------------------------
(***************************************************************************)
(* Proofs about ClientLib for any set of calls, any capacities and any     *)
(* number of frames, events and requests: types, MisframedOnlyAfterCut,    *)
(* FrameNotOlder, and that a body is read for the prefix that announced it.*)
(***************************************************************************)
EXTENDS ClientLib, SequenceTheorems, TLAPS

USE LibAssumption

-----------------------------------------------------------------------------
(* Sequences used as queues.                                                *)

\* The elements of a sequence, by position.
LEMMA ToSetElements == ASSUME NEW S, NEW s \in Seq(S)
                       PROVE  /\ \A x \in ToSet(s) : \E j \in 1..Len(s) : x = s[j]
                              /\ \A j \in 1..Len(s) : s[j] \in ToSet(s)
                              /\ ToSet(s) \subseteq S
  BY LenProperties, ElementOfSeq DEF ToSet

\* An empty queue has no elements.
LEMMA ToSetEmpty == ToSet(<<>>) = {}
  BY DEF ToSet

\* The elements of a queue after one is appended.
LEMMA ToSetAppend == ASSUME NEW S, NEW s \in Seq(S), NEW e \in S
                     PROVE  ToSet(Append(s, e)) = ToSet(s) \cup {e}
  BY AppendProperties DEF ToSet

\* Taking the first element off a queue.
LEMMA ToSetTail == ASSUME NEW S, NEW s \in Seq(S), s # <<>>
                   PROVE  /\ ToSet(s) = ToSet(Tail(s)) \cup {Head(s)}
                          /\ Head(s) \in S /\ Tail(s) \in Seq(S)
                          /\ Len(Tail(s)) = Len(s) - 1 /\ Len(s) > 0
                          /\ \A j \in 1..Len(s) - 1 : Tail(s)[j] = s[j + 1]
                          /\ Head(s) = s[1]
<1>1. /\ Head(s) \in S /\ Tail(s) \in Seq(S) /\ Len(Tail(s)) = Len(s) - 1 /\ Len(s) > 0
      /\ \A j \in 1..Len(s) - 1 : Tail(s)[j] = s[j + 1]
      /\ Head(s) = s[1] /\ <<Head(s)>> \in Seq(S)
  BY HeadTailProperties, EmptySeq
<1>2. s = <<Head(s)>> \o Tail(s)
  BY <1>1, SeqEqual, ConcatProperties
<1>3. \A t, u \in Seq(S) : Range(t \o u) = Range(t) \cup Range(u)
  BY RangeConcatenation
<1>4. Range(<<Head(s)>>) = {Head(s)}
  BY DEF Range
<1>5. Range(s) = {Head(s)} \cup Range(Tail(s))
  BY <1>1, <1>2, <1>3, <1>4
<1> QED
  BY <1>1, <1>5 DEF ToSet, Range

-----------------------------------------------------------------------------
(***************************************************************************)
(* The inductive invariant.                                                *)
(*                                                                         *)
(* CallInv: where a call can be, and the counters that bound each other.   *)
(*                                                                         *)
(* AnnouncedInv: no frame is announced, in the channel, on the socket or   *)
(* to the client, before it is in the page.                                *)
(*                                                                         *)
(* FramingInv: until a call is cut off between a prefix and its body, the  *)
(* units of the socket alternate; the first one is what the client reads   *)
(* next, the last one what the writer thread wrote last, and the body that *)
(* follows a prefix, on the socket, still to be written or next to be      *)
(* read, is of the same message.                                           *)
(***************************************************************************)
CallInv == /\ asks <= asked
           /\ dispatch = "notify" => page > 0
           /\ call = "idle" => at = "len"
           /\ at = "body" => Len(cur) = 1
           /\ at = "frame" => call = "audio"

Known(m) == m.kind = "AudioReady" => m.n <= page

AnnouncedInv == /\ last_seq <= page
                /\ \A m \in ToSet(chan) : Known(m)
                /\ \A m \in ToSet(body) : Known(m)
                /\ \A m \in ToSet(cur) : Known(m)
                /\ \A u \in ToSet(sock) : Known(u.msg)

FramingInv ==
  cut = "no" =>
    /\ call # "misframed"
    /\ sock = <<>> => /\ at = "body" => body = cur
                      /\ at # "body" => body = <<>>
    /\ sock # <<>> => /\ at = "body" => sock[1] = [part |-> "body", msg |-> cur[1]]
                      /\ at # "body" => sock[1].part = "len"
                      /\ sock[Len(sock)].part = "len" => body = <<sock[Len(sock)].msg>>
                      /\ sock[Len(sock)].part = "body" => body = <<>>
    /\ \A k \in 1..Len(sock) - 1 :
         /\ sock[k].part = "len" => sock[k + 1] = [part |-> "body", msg |-> sock[k].msg]
         /\ sock[k].part = "body" => sock[k + 1].part = "len"

Inv == TypeOK /\ CallInv /\ AnnouncedInv /\ FramingInv /\ FrameNotOlder
-----------------------------------------------------------------------------
Results == Msgs \cup {Msg("none", 0), Msg("error", 0)} \cup {Msg("frame", n) : n \in 0..MaxFrames}

\* What a call may return.
LEMMA ResultTypes == /\ Msg("none", 0) \in Results /\ Msg("error", 0) \in Results
                     /\ Msgs \subseteq Results
                     /\ \A n \in 0..MaxFrames : Msg("frame", n) \in Results
  BY DEF Results

\* The kinds of the messages on the socket; none is a frame.
LEMMA MsgKinds == ASSUME NEW m \in Msgs
                  PROVE  /\ m.kind \in {"AudioReady", "Stats", "RadioEvent"}
                         /\ m.kind = "AudioReady" => m.n \in 1..MaxFrames
  BY DEF Msgs, Msg

\* What is in the channel, with the writer, announced to the client and on the socket.
LEMMA OnSockets == ASSUME TypeOK
                   PROVE  /\ ToSet(chan) \subseteq Msgs /\ ToSet(body) \subseteq Msgs
                          /\ ToSet(cur) \subseteq Msgs
                          /\ \A u \in ToSet(sock) : u.msg \in Msgs
<1>1. chan \in Seq(Msgs) /\ body \in Seq(Msgs) /\ cur \in Seq(Msgs) /\ sock \in Seq(Units)
  BY DEF TypeOK
<1>2. ToSet(chan) \subseteq Msgs /\ ToSet(body) \subseteq Msgs /\ ToSet(cur) \subseteq Msgs
  BY <1>1, ToSetElements
<1>3. ToSet(sock) \subseteq Units
  BY <1>1, ToSetElements
<1> QED
  BY <1>2, <1>3 DEF Units

\* The invariant holds when the program starts.
LEMMA InvInit == Init => Inv
<1> SUFFICES ASSUME Init PROVE Inv
  OBVIOUS
<1>1. TypeOK
  BY ResultTypes DEF Init, TypeOK, Results
<1>2. ToSet(chan) = {} /\ ToSet(body) = {} /\ ToSet(cur) = {} /\ ToSet(sock) = {}
  BY ToSetEmpty DEF Init
<1>3. CallInv /\ AnnouncedInv
  BY <1>2 DEF Init, CallInv, AnnouncedInv
<1>4. FramingInv
  BY DEF Init, FramingInv
<1>5. FrameNotOlder
  BY DEF Init, FrameNotOlder, Msg
<1> QED
  BY <1>1, <1>3, <1>4, <1>5 DEF Inv

\* try_send of a message whose frame, if it announces one, is in the page.
LEMMA TrySendInv == ASSUME TypeOK, AnnouncedInv, NEW msg \in Msgs, Known(msg), TrySend(msg)
                    PROVE  /\ chan' \in Seq(Msgs) /\ Len(chan') <= ChanCap
                           /\ \A m \in ToSet(chan') : Known(m)
<1>1. chan \in Seq(Msgs) /\ Len(chan) <= ChanCap /\ \A m \in ToSet(chan) : Known(m)
  BY DEF TypeOK, AnnouncedInv
<1>2. /\ Append(chan, msg) \in Seq(Msgs) /\ Len(Append(chan, msg)) = Len(chan) + 1
      /\ ToSet(Append(chan, msg)) = ToSet(chan) \cup {msg}
  BY <1>1, AppendProperties, ToSetAppend
<1>3. CASE Len(chan) < ChanCap
  <2>1. chan' = Append(chan, msg)
    BY <1>3 DEF TrySend
  <2>2. Len(chan') <= ChanCap
    BY <1>1, <1>2, <1>3, <2>1
  <2> QED
    BY <1>1, <1>2, <2>1, <2>2
<1>4. CASE ~(Len(chan) < ChanCap)
  BY <1>1, <1>4 DEF TrySend
<1> QED
  BY <1>3, <1>4

\* The threads that send: the dispatch thread, the GPIO thread and the handler.
LEMMA SendInv == ASSUME Inv, Notify \/ BroadcastStats \/ BroadcastEvent \/ ServeStats
                 PROVE  Inv'
<1>1. /\ UNCHANGED <<server, page, body, sock>> /\ UNCHANGED clientVars
      /\ TypeOK /\ CallInv /\ AnnouncedInv
  BY DEF Notify, BroadcastStats, BroadcastEvent, ServeStats, Inv
<1>2. /\ \A n \in 1..MaxFrames : Msg("AudioReady", n) \in Msgs
      /\ \A n \in 0..MaxFrames : Msg("Stats", n) \in Msgs
      /\ \A n \in 1..MaxEvents : Msg("RadioEvent", n) \in Msgs
  BY DEF Msgs
<1>3. \E msg \in Msgs : Known(msg) /\ TrySend(msg)
  <2>1. CASE Notify
    <3>1. page \in 1..MaxFrames
      BY <1>1, <2>1 DEF Notify, TypeOK, CallInv
    <3>2. Msg("AudioReady", page) \in Msgs /\ Known(Msg("AudioReady", page))
      BY <1>2, <3>1 DEF Known, Msg
    <3> QED
      BY <2>1, <3>2 DEF Notify
  <2>2. CASE BroadcastStats \/ ServeStats
    <3>1. Msg("Stats", page) \in Msgs
      BY <1>1, <1>2 DEF TypeOK
    <3>2. Known(Msg("Stats", page))
      BY DEF Known, Msg
    <3> QED
      BY <2>2, <3>1, <3>2 DEF BroadcastStats, ServeStats
  <2>3. CASE BroadcastEvent
    <3>1. events + 1 \in 1..MaxEvents
      <4>1. events \in 0..MaxEvents
        BY <1>1 DEF TypeOK
      <4> QED
        BY <2>3, <4>1 DEF BroadcastEvent
    <3>2. Msg("RadioEvent", events + 1) \in Msgs /\ Known(Msg("RadioEvent", events + 1))
      BY <1>2, <3>1 DEF Known, Msg
    <3> QED
      BY <2>3, <3>2 DEF BroadcastEvent
  <2> QED
    BY <2>1, <2>2, <2>3
<1>4. /\ chan' \in Seq(Msgs) /\ Len(chan') <= ChanCap
      /\ \A m \in ToSet(chan') : Known(m)
  BY <1>1, <1>3, TrySendInv
<1>5. /\ dispatch' \in {"pop", "notify", "stats"} /\ (dispatch' = "notify" => page > 0)
      /\ events' \in 0..MaxEvents
      /\ asks' \in 0..MaxAsks /\ asks' <= asked
  <2>1. CASE Notify
    BY <1>1, <2>1 DEF Notify, TypeOK, CallInv
  <2>2. CASE BroadcastStats
    BY <1>1, <2>2 DEF BroadcastStats, TypeOK, CallInv
  <2>3. CASE BroadcastEvent
    <3>1. /\ events \in 0..MaxEvents /\ dispatch \in {"pop", "notify", "stats"}
          /\ asks \in 0..MaxAsks
      BY <1>1 DEF TypeOK
    <3> QED
      BY <1>1, <2>3, <3>1 DEF BroadcastEvent, CallInv
  <2>4. CASE ServeStats
    BY <1>1, <2>4 DEF ServeStats, TypeOK, CallInv
  <2> QED
    BY <2>1, <2>2, <2>3, <2>4
<1>6. TypeOK'
  BY <1>1, <1>4, <1>5 DEF TypeOK, clientVars
<1>7. CallInv' /\ AnnouncedInv'
  BY <1>1, <1>4, <1>5 DEF CallInv, AnnouncedInv, Known, clientVars
<1>8. FramingInv' /\ FrameNotOlder'
  BY <1>1 DEF Inv, FramingInv, FrameNotOlder, clientVars
<1> QED
  BY <1>6, <1>7, <1>8 DEF Inv

\* A new frame in the page, and the end of the daemon.
LEMMA PageInv == ASSUME Inv, WritePage \/ ServerDies
                 PROVE  Inv'
<1>1. /\ UNCHANGED <<events, asks, chan, body, sock>> /\ UNCHANGED clientVars
      /\ TypeOK /\ CallInv /\ AnnouncedInv
  BY DEF WritePage, ServerDies, Inv
<1>2. /\ page' \in 0..MaxFrames /\ page' >= page /\ (dispatch' = "notify" => page' > 0)
      /\ dispatch' \in {"pop", "notify", "stats"} /\ server' \in {"up", "gone"}
  <2>1. CASE WritePage
    <3>1. page \in Nat /\ page + 1 <= MaxFrames /\ page' = page + 1
      BY <1>1, <2>1 DEF WritePage, TypeOK
    <3>2. dispatch' = "notify" /\ server' \in {"up", "gone"}
      BY <1>1, <2>1 DEF WritePage, TypeOK
    <3> QED
      BY <3>1, <3>2
  <2>2. CASE ServerDies
    BY <1>1, <2>2 DEF ServerDies, TypeOK, CallInv
  <2> QED
    BY <2>1, <2>2
<1>3. TypeOK'
  BY <1>1, <1>2 DEF TypeOK, clientVars
<1>4. CallInv'
  BY <1>1, <1>2 DEF CallInv, clientVars
<1>5. AnnouncedInv'
  <2>1. \A m \in Msgs : Known(m) => Known(m)'
    <3> SUFFICES ASSUME NEW m \in Msgs, Known(m), m.kind = "AudioReady" PROVE m.n <= page'
      BY DEF Known
    <3>1. m.n \in Nat /\ m.n <= page
      BY MsgKinds DEF Known
    <3> QED
      BY <1>1, <1>2, <3>1 DEF TypeOK
  <2>2. /\ ToSet(chan) \subseteq Msgs /\ ToSet(body) \subseteq Msgs /\ ToSet(cur) \subseteq Msgs
        /\ \A u \in ToSet(sock) : u.msg \in Msgs
    BY <1>1, OnSockets
  <2>3. last_seq <= page'
    BY <1>1, <1>2 DEF TypeOK, AnnouncedInv
  <2> QED
    BY <1>1, <2>1, <2>2, <2>3 DEF AnnouncedInv, clientVars
<1>6. FramingInv' /\ FrameNotOlder'
  BY <1>1 DEF Inv, FramingInv, FrameNotOlder, clientVars
<1> QED
  BY <1>3, <1>4, <1>5, <1>6 DEF Inv

\* A unit at the end of the socket that is the one the framing asks for.
LEMMA AppendUnit ==
  ASSUME Inv, NEW u \in Units, Known(u.msg), Len(sock) < SockCap, sock' = Append(sock, u)
  PROVE  /\ sock' \in Seq(Units) /\ Len(sock') <= SockCap /\ sock' # <<>>
         /\ Len(sock') = Len(sock) + 1 /\ Len(sock) \in Nat
         /\ \A k \in 1..Len(sock) : sock'[k] = sock[k]
         /\ sock'[Len(sock) + 1] = u
         /\ \A x \in ToSet(sock') : Known(x.msg)
<1>1. sock \in Seq(Units) /\ \A x \in ToSet(sock) : Known(x.msg)
  BY DEF Inv, TypeOK, AnnouncedInv
<1>2. ToSet(sock') = ToSet(sock) \cup {u}
  BY <1>1, ToSetAppend
<1>3. /\ sock' \in Seq(Units) /\ sock' # <<>> /\ Len(sock') = Len(sock) + 1
      /\ \A k \in 1..Len(sock) : sock'[k] = sock[k]
      /\ sock'[Len(sock) + 1] = u /\ Len(sock) \in Nat
  BY <1>1, AppendProperties
<1>4. Len(sock') <= SockCap
  BY <1>3
<1> QED
  BY <1>1, <1>2, <1>3, <1>4

\* The writer thread writes a length prefix.
LEMMA WriteLenInv == ASSUME Inv, WriteLen
                     PROVE  Inv'
<1> DEFINE m == Head(chan)
           u == [part |-> "len", msg |-> m]
<1>1. /\ UNCHANGED <<server, page, dispatch, events, asks>> /\ UNCHANGED clientVars
      /\ TypeOK /\ CallInv /\ AnnouncedInv
      /\ body = <<>> /\ chan # <<>> /\ Len(sock) < SockCap
      /\ sock' = Append(sock, u) /\ body' = <<m>> /\ chan' = Tail(chan)
  BY DEF WriteLen, Inv
<1>2. chan \in Seq(Msgs) /\ Len(chan) <= ChanCap /\ \A x \in ToSet(chan) : Known(x)
  BY <1>1 DEF TypeOK, AnnouncedInv
<1>3. /\ m \in Msgs /\ m \in ToSet(chan) /\ ToSet(chan') \subseteq ToSet(chan)
      /\ chan' \in Seq(Msgs) /\ Len(chan') <= ChanCap
  <2>1. m \in Msgs /\ Tail(chan) \in Seq(Msgs) /\ Len(Tail(chan)) = Len(chan) - 1
    BY <1>1, <1>2, HeadTailProperties
  <2>2. ToSet(chan) = {m} \cup ToSet(Tail(chan))
    BY <1>1, <1>2, ToSetTail
  <2> QED
    BY <1>1, <1>2, <2>1, <2>2
<1>4. u \in Units /\ u.part = "len" /\ u.msg = m /\ Known(u.msg)
  BY <1>2, <1>3 DEF Units
<1> HIDE DEF u, m
<1>5. /\ sock' \in Seq(Units) /\ Len(sock') <= SockCap /\ sock' # <<>>
      /\ Len(sock') = Len(sock) + 1 /\ Len(sock) \in Nat
      /\ \A k \in 1..Len(sock) : sock'[k] = sock[k]
      /\ sock'[Len(sock) + 1] = u
      /\ \A x \in ToSet(sock') : Known(x.msg)
  BY <1>1, <1>4, AppendUnit
<1>6. body' \in Seq(Msgs) /\ Len(body') = 1 /\ ToSet(body') = {m}
  BY <1>1, <1>3, ToSetEmpty, ToSetAppend DEF ToSet
<1>7. TypeOK'
  BY <1>1, <1>3, <1>5, <1>6 DEF TypeOK, clientVars
<1>8. CallInv' /\ AnnouncedInv'
  <2>1. /\ \A x \in ToSet(chan') : Known(x)
        /\ \A x \in ToSet(body') : Known(x)
    BY <1>2, <1>3, <1>6
  <2> QED
    BY <1>1, <1>5, <2>1 DEF CallInv, AnnouncedInv, Known, clientVars
<1>9. FramingInv'
  <2> SUFFICES ASSUME cut = "no" PROVE FramingInv'
    BY <1>1 DEF FramingInv, clientVars
  <2>1. call # "misframed" /\ sock'[Len(sock')] = u
    BY <1>5 DEF Inv, FramingInv
  <2>2. CASE sock = <<>>
    <3>1. at # "body"
      BY <1>1, <2>2 DEF Inv, FramingInv, CallInv
    <3>2. Len(sock') = 1
      BY <1>5, <2>2
    <3> QED
      BY <1>1, <1>4, <1>5, <2>1, <3>1, <3>2 DEF FramingInv, clientVars
  <2>3. CASE sock # <<>>
    <3>1. Len(sock) \in Nat \ {0} /\ sock \in Seq(Units)
      BY <1>1, <2>3, EmptySeq DEF TypeOK
    <3>2. sock[Len(sock)] \in Units /\ Len(sock) \in 1..Len(sock) /\ 1 \in 1..Len(sock)
      BY <3>1, ElementOfSeq
    <3>3. sock[Len(sock)].part = "body"
      BY <1>1, <2>3, <3>2 DEF Inv, FramingInv, Units
    <3>4. sock'[1] = sock[1]
      BY <1>5, <3>2
    <3>5. ASSUME NEW k \in 1..Len(sock') - 1
          PROVE  /\ sock'[k].part = "len" => sock'[k + 1] = [part |-> "body", msg |-> sock'[k].msg]
                 /\ sock'[k].part = "body" => sock'[k + 1].part = "len"
      <4>1. CASE k = Len(sock)
        BY <1>4, <1>5, <3>1, <3>3, <4>1
      <4>2. CASE k # Len(sock)
        <5>1. k \in 1..Len(sock) - 1 /\ k \in 1..Len(sock) /\ k + 1 \in 1..Len(sock)
          BY <1>5, <3>1, <4>2
        <5> QED
          BY <1>5, <5>1 DEF Inv, FramingInv
      <4> QED
        BY <4>1, <4>2
    <3>6. /\ at = "body" => sock'[1] = [part |-> "body", msg |-> cur[1]]
          /\ at # "body" => sock'[1].part = "len"
      BY <2>3, <3>4 DEF Inv, FramingInv
    <3> QED
      BY <1>1, <1>4, <1>5, <2>1, <3>5, <3>6 DEF FramingInv, clientVars
  <2> QED
    BY <2>2, <2>3
<1>10. FrameNotOlder'
  BY <1>1 DEF Inv, FrameNotOlder, clientVars
<1> QED
  BY <1>7, <1>8, <1>9, <1>10 DEF Inv

\* The writer thread writes the body that follows the prefix.
LEMMA WriteBodyInv == ASSUME Inv, WriteBody
                      PROVE  Inv'
<1> DEFINE m == Head(body)
           u == [part |-> "body", msg |-> m]
<1>1. /\ UNCHANGED <<server, page, dispatch, events, asks, chan>> /\ UNCHANGED clientVars
      /\ TypeOK /\ CallInv /\ AnnouncedInv
      /\ body # <<>> /\ Len(sock) < SockCap
      /\ sock' = Append(sock, u) /\ body' = <<>>
  BY DEF WriteBody, Inv
<1>2. body \in Seq(Msgs) /\ Len(body) <= 1 /\ \A x \in ToSet(body) : Known(x)
  BY <1>1 DEF TypeOK, AnnouncedInv
<1>3. m \in Msgs /\ m \in ToSet(body) /\ body = <<m>>
  <2>1. Len(body) = 1
    <3>1. Len(body) \in Nat /\ Len(body) # 0
      BY <1>1, <1>2, LenProperties, EmptySeq
    <3>2. PICK n \in Nat : n = Len(body)
      BY <3>1
    <3>3. n # 0 /\ n <= 1
      BY <1>2, <3>1, <3>2
    <3> QED
      BY <3>2, <3>3
  <2>2. m = body[1]
    BY <1>2, <2>1
  <2>3. body = <<m>>
    BY <1>2, <2>1, <2>2
  <2> QED
    BY <1>2, <2>1, <2>2, <2>3, ToSetElements
<1>4. u \in Units /\ u.part = "body" /\ u.msg = m /\ Known(u.msg)
  BY <1>2, <1>3 DEF Units
<1>5. /\ sock' \in Seq(Units) /\ Len(sock') <= SockCap /\ sock' # <<>>
      /\ Len(sock') = Len(sock) + 1 /\ Len(sock) \in Nat
      /\ \A k \in 1..Len(sock) : sock'[k] = sock[k]
      /\ sock'[Len(sock) + 1] = u
      /\ \A x \in ToSet(sock') : Known(x.msg)
  <2> HIDE DEF u, m
  <2> QED
    BY <1>1, <1>4, AppendUnit
<1> HIDE DEF m
<1>6. body' \in Seq(Msgs) /\ Len(body') = 0 /\ ToSet(body') = {}
  BY <1>1, ToSetEmpty
<1>7. TypeOK'
  BY <1>1, <1>5, <1>6 DEF TypeOK, clientVars
<1>8. CallInv' /\ AnnouncedInv'
  BY <1>1, <1>5, <1>6 DEF CallInv, AnnouncedInv, Known, clientVars
<1>9. FramingInv'
  <2> SUFFICES ASSUME cut = "no" PROVE FramingInv'
    BY <1>1 DEF FramingInv, clientVars
  <2>1. call # "misframed" /\ sock'[Len(sock')] = u
    BY <1>5 DEF Inv, FramingInv
  <2>2. CASE sock = <<>>
    <3>1. at = "body" /\ cur = <<m>>
      BY <1>1, <1>3, <2>2 DEF Inv, FramingInv
    <3>2. Len(sock') = 1
      BY <1>5, <2>2
    <3> QED
      BY <1>1, <1>4, <1>5, <2>1, <3>1, <3>2 DEF FramingInv, clientVars
  <2>3. CASE sock # <<>>
    <3>1. Len(sock) \in Nat \ {0} /\ sock \in Seq(Units)
      BY <1>1, <2>3, EmptySeq DEF TypeOK
    <3>2. sock[Len(sock)] \in Units /\ Len(sock) \in 1..Len(sock) /\ 1 \in 1..Len(sock)
      BY <3>1, ElementOfSeq
    <3>3. sock[Len(sock)].part = "len" /\ body = <<sock[Len(sock)].msg>>
      BY <1>1, <2>3, <3>2 DEF Inv, FramingInv, Units
    <3>4. sock'[1] = sock[1] /\ sock[Len(sock)].msg = m
      BY <1>3, <1>5, <3>2, <3>3
    <3>5. ASSUME NEW k \in 1..Len(sock') - 1
          PROVE  /\ sock'[k].part = "len" => sock'[k + 1] = [part |-> "body", msg |-> sock'[k].msg]
                 /\ sock'[k].part = "body" => sock'[k + 1].part = "len"
      <4>1. CASE k = Len(sock)
        BY <1>5, <3>2, <3>3, <3>4, <4>1
      <4>2. CASE k # Len(sock)
        <5>1. k \in 1..Len(sock) - 1 /\ k \in 1..Len(sock) /\ k + 1 \in 1..Len(sock)
          BY <1>5, <3>1, <4>2
        <5> QED
          BY <1>5, <5>1 DEF Inv, FramingInv
      <4> QED
        BY <4>1, <4>2
    <3>6. /\ at = "body" => sock'[1] = [part |-> "body", msg |-> cur[1]]
          /\ at # "body" => sock'[1].part = "len"
      BY <2>3, <3>4 DEF Inv, FramingInv
    <3> QED
      BY <1>1, <1>4, <1>5, <2>1, <3>5, <3>6 DEF FramingInv, clientVars
  <2> QED
    BY <2>2, <2>3
<1>10. FrameNotOlder'
  BY <1>1 DEF Inv, FrameNotOlder, clientVars
<1> QED
  BY <1>7, <1>8, <1>9, <1>10 DEF Inv

\* The application calls the library.
LEMMA CallStepInv == ASSUME Inv, NEW c \in Calls, Call(c)
                     PROVE  Inv'
<1>1. /\ UNCHANGED <<server, page, dispatch, events, chan, body, sock, at, cur, last_seq, cut>>
      /\ TypeOK /\ CallInv /\ AnnouncedInv /\ call = "idle"
      /\ c \notin {"idle", "misframed"}
  BY DEF Call, Inv
<1>2. at = "len"
  BY <1>1 DEF CallInv
<1>3. /\ call' \in Calls \cup {"idle"} /\ result' \in Results
      /\ call' = "idle" => result' = Msg("error", 0)
      /\ asks' \in 0..MaxAsks /\ asked' \in 0..MaxAsks /\ asks' <= asked'
  <2>1. /\ asks \in 0..MaxAsks /\ asked \in 0..MaxAsks /\ asks <= asked /\ result \in Results
    BY <1>1 DEF TypeOK, CallInv, Results
  <2>2. CASE UNCHANGED <<asks, asked, result>> /\ call' = c
    BY <1>1, <2>1, <2>2
  <2>3. CASE /\ asked < MaxAsks /\ asks' = asks + 1 /\ asked' = asked + 1
             /\ call' = c /\ UNCHANGED result
    BY <1>1, <2>1, <2>3
  <2>4. CASE result' = Msg("error", 0) /\ UNCHANGED <<call, asks, asked>>
    BY <1>1, <2>1, <2>4, ResultTypes
  <2> QED
    BY <2>2, <2>3, <2>4 DEF Call
<1>4. TypeOK'
  BY <1>1, <1>3 DEF TypeOK, Results
<1>5. CallInv' /\ AnnouncedInv'
  BY <1>1, <1>2, <1>3 DEF CallInv, AnnouncedInv, Known
<1>6. FramingInv'
  <2>1. call' # "misframed"
    BY <1>1, <1>3
  <2> QED
    BY <1>1, <2>1 DEF Inv, FramingInv
<1>7. FrameNotOlder'
  BY <1>3 DEF FrameNotOlder, Msg
<1> QED
  BY <1>4, <1>5, <1>6, <1>7 DEF Inv

\* What is left on the socket when the client has read the first unit.
LEMMA TailUnit ==
  ASSUME Inv, sock # <<>>, sock' = Tail(sock)
  PROVE  /\ sock' \in Seq(Units) /\ Len(sock') <= SockCap
         /\ \A x \in ToSet(sock') : Known(x.msg)
         /\ Head(sock) = sock[1] /\ sock[1] \in Units /\ Known(sock[1].msg)
         /\ cut = "no" =>
              /\ sock' = <<>> => /\ sock[1].part = "len" => body = <<sock[1].msg>>
                                 /\ sock[1].part = "body" => body = <<>>
              /\ sock' # <<>> =>
                   /\ sock[1].part = "len" => sock'[1] = [part |-> "body", msg |-> sock[1].msg]
                   /\ sock[1].part = "body" => sock'[1].part = "len"
                   /\ sock'[Len(sock')].part = "len" => body = <<sock'[Len(sock')].msg>>
                   /\ sock'[Len(sock')].part = "body" => body = <<>>
              /\ \A k \in 1..Len(sock') - 1 :
                   /\ sock'[k].part = "len" => sock'[k + 1] = [part |-> "body", msg |-> sock'[k].msg]
                   /\ sock'[k].part = "body" => sock'[k + 1].part = "len"
<1>1. sock \in Seq(Units) /\ Len(sock) <= SockCap /\ \A x \in ToSet(sock) : Known(x.msg)
  BY DEF Inv, TypeOK, AnnouncedInv
<1>2. /\ ToSet(sock) = ToSet(sock') \cup {Head(sock)} /\ sock' \in Seq(Units)
      /\ Len(sock') = Len(sock) - 1 /\ Len(sock) > 0 /\ Len(sock) \in Nat
      /\ \A j \in 1..Len(sock) - 1 : sock'[j] = sock[j + 1]
  BY <1>1, ToSetTail, LenProperties
<1>3. Head(sock) = sock[1] /\ sock[1] \in Units
  <2>1. 1 \in 1..Len(sock)
    BY <1>2
  <2> QED
    BY <1>1, <1>2, <2>1, ElementOfSeq
<1>4. Known(sock[1].msg) /\ \A x \in ToSet(sock') : Known(x.msg)
  BY <1>1, <1>2, <1>3
<1>5. Len(sock') <= SockCap
  BY <1>1, <1>2
<1>6. ASSUME cut = "no", sock' = <<>>
      PROVE  /\ sock[1].part = "len" => body = <<sock[1].msg>>
             /\ sock[1].part = "body" => body = <<>>
  <2>1. Len(sock) = 1
    BY <1>2, <1>6
  <2> QED
    BY <1>6, <2>1 DEF Inv, FramingInv
<1>7. ASSUME cut = "no", NEW k \in 1..Len(sock) - 1
      PROVE  /\ sock[k].part = "len" => sock'[k] = [part |-> "body", msg |-> sock[k].msg]
             /\ sock[k].part = "body" => sock'[k].part = "len"
  BY <1>2, <1>7 DEF Inv, FramingInv
<1>8. ASSUME cut = "no", NEW k \in 1..Len(sock') - 1
      PROVE  /\ sock'[k].part = "len" => sock'[k + 1] = [part |-> "body", msg |-> sock'[k].msg]
             /\ sock'[k].part = "body" => sock'[k + 1].part = "len"
  <2>1. k \in 1..Len(sock) - 1 /\ k + 1 \in 1..Len(sock) - 1
    BY <1>2
  <2> QED
    BY <1>2, <1>7, <1>8, <2>1
<1>9. ASSUME cut = "no", sock' # <<>>
      PROVE  /\ sock[1].part = "len" => sock'[1] = [part |-> "body", msg |-> sock[1].msg]
             /\ sock[1].part = "body" => sock'[1].part = "len"
             /\ sock'[Len(sock')].part = "len" => body = <<sock'[Len(sock')].msg>>
             /\ sock'[Len(sock')].part = "body" => body = <<>>
  <2>1. Len(sock') \in Nat \ {0}
    BY <1>2, <1>9, EmptySeq
  <2>2. 1 \in 1..Len(sock) - 1 /\ Len(sock') \in 1..Len(sock) - 1
    BY <1>2, <2>1
  <2>3. sock'[Len(sock')] = sock[Len(sock)]
    BY <1>2, <2>2
  <2>4. /\ sock[1].part = "len" => sock'[1] = [part |-> "body", msg |-> sock[1].msg]
        /\ sock[1].part = "body" => sock'[1].part = "len"
    BY <1>7, <1>9, <2>2
  <2>5. /\ sock[Len(sock)].part = "len" => body = <<sock[Len(sock)].msg>>
        /\ sock[Len(sock)].part = "body" => body = <<>>
    BY <1>9 DEF Inv, FramingInv
  <2> QED
    BY <2>3, <2>4, <2>5
<1> QED
  BY <1>2, <1>3, <1>4, <1>5, <1>6, <1>8, <1>9

\* The client reads a length prefix, or a body for one.
LEMMA ReadLenInv == ASSUME Inv, ReadLen
                    PROVE  Inv'
<1>1. /\ UNCHANGED <<last_seq, result, cut, asked>> /\ UNCHANGED serverVars
      /\ TypeOK /\ CallInv /\ AnnouncedInv /\ FramingInv
      /\ call \notin {"idle", "misframed"} /\ at = "len" /\ sock # <<>>
      /\ sock' = Tail(sock)
  BY DEF ReadLen, Inv
<1>2. /\ sock' \in Seq(Units) /\ Len(sock') <= SockCap
      /\ \A x \in ToSet(sock') : Known(x.msg)
      /\ Head(sock) = sock[1] /\ sock[1] \in Units /\ Known(sock[1].msg)
  BY <1>1, TailUnit
<1>3. sock[1].msg \in Msgs
  BY <1>2 DEF Units
<1>4. CASE Head(sock).part = "len"
  <2> DEFINE m == sock[1].msg
  <2>1. at' = "body" /\ cur' = <<m>> /\ UNCHANGED call
    BY <1>2, <1>4 DEF ReadLen
  <2>2. cur' \in Seq(Msgs) /\ Len(cur') = 1 /\ ToSet(cur') = {m} /\ cur'[1] = m
    <3> HIDE DEF m
    <3> QED
      BY <1>3, <2>1 DEF m, ToSet
  <2>3. TypeOK'
    BY <1>1, <1>2, <2>1, <2>2 DEF TypeOK, serverVars
  <2>4. CallInv' /\ AnnouncedInv'
    BY <1>1, <1>2, <2>1, <2>2 DEF CallInv, AnnouncedInv, Known, serverVars
  <2>5. FramingInv'
    <3> SUFFICES ASSUME cut = "no" PROVE FramingInv'
      BY <1>1 DEF FramingInv
    <3>1. call' # "misframed"
      BY <1>1, <2>1
    <3>2. sock' = <<>> => body' = cur'
      BY <1>1, <1>2, <1>4, <2>1, TailUnit DEF serverVars
    <3>3. sock' # <<>> => /\ sock'[1] = [part |-> "body", msg |-> cur'[1]]
                          /\ sock'[Len(sock')].part = "len" => body' = <<sock'[Len(sock')].msg>>
                          /\ sock'[Len(sock')].part = "body" => body' = <<>>
      BY <1>1, <1>2, <1>4, <2>2, TailUnit DEF serverVars
    <3>4. \A k \in 1..Len(sock') - 1 :
            /\ sock'[k].part = "len" => sock'[k + 1] = [part |-> "body", msg |-> sock'[k].msg]
            /\ sock'[k].part = "body" => sock'[k + 1].part = "len"
      BY <1>1, TailUnit
    <3> QED
      BY <2>1, <3>1, <3>2, <3>3, <3>4 DEF FramingInv
  <2>6. FrameNotOlder'
    BY <1>1, <2>1 DEF FrameNotOlder
  <2> QED
    BY <2>3, <2>4, <2>5, <2>6 DEF Inv
<1>5. CASE Head(sock).part # "len"
  <2>1. call' = "misframed" /\ UNCHANGED <<at, cur>>
    BY <1>5 DEF ReadLen
  <2>2. cut' # "no"
    BY <1>1, <1>2, <1>5 DEF FramingInv
  <2>3. TypeOK'
    BY <1>1, <1>2, <2>1 DEF TypeOK, serverVars
  <2>4. CallInv' /\ AnnouncedInv'
    BY <1>1, <1>2, <2>1 DEF CallInv, AnnouncedInv, Known, serverVars
  <2>5. FramingInv' /\ FrameNotOlder'
    BY <2>1, <2>2 DEF FramingInv, FrameNotOlder
  <2> QED
    BY <2>3, <2>4, <2>5 DEF Inv
<1> QED
  BY <1>4, <1>5

\* A call returns r and the socket, the page and last_seq stay as they are.
LEMMA ReturnInv == ASSUME Inv, NEW r \in Results, Return(r), UNCHANGED <<sock, last_seq, asked>>,
                          UNCHANGED serverVars, cut' \in {"no", "yes"},
                          r.kind = "frame" => r.n = page,
                          cut' = "no" => cut = "no" /\ at # "body"
                   PROVE  Inv'
<1>1. /\ call' = "idle" /\ at' = "len" /\ cur' = <<>> /\ result' = r
      /\ TypeOK /\ CallInv /\ AnnouncedInv /\ FramingInv
  BY DEF Return, Inv
<1>2. cur' \in Seq(Msgs) /\ Len(cur') <= 1 /\ ToSet(cur') = {}
  BY <1>1, ToSetEmpty
<1>3. TypeOK'
  BY <1>1, <1>2 DEF TypeOK, Results, serverVars
<1>4. CallInv' /\ AnnouncedInv'
  BY <1>1, <1>2 DEF CallInv, AnnouncedInv, Known, serverVars
<1>5. FramingInv'
  BY <1>1 DEF FramingInv, serverVars
<1>6. FrameNotOlder'
  BY <1>1 DEF FrameNotOlder, AnnouncedInv, TypeOK
<1> QED
  BY <1>3, <1>4, <1>5, <1>6 DEF Inv

\* The reads that find nothing: only one after a prefix cuts a message.
LEMMA ReadNoneInv == ASSUME Inv, ReadLenNone \/ ReadBodyNone
                     PROVE  Inv'
<1>1. Msg("none", 0).kind # "frame" /\ Msg("error", 0).kind # "frame"
  BY DEF Msg
<1>2. cut \in {"no", "yes"}
  BY DEF Inv, TypeOK
<1>3. CASE ReadLenNone
  <2>1. PICK r \in {Msg("none", 0), Msg("error", 0)} : Return(r)
    BY <1>3 DEF ReadLenNone
  <2> QED
    BY <1>1, <1>2, <1>3, <2>1, ResultTypes, ReturnInv DEF ReadLenNone
<1>4. CASE ReadBodyNone
  <2>1. PICK r \in {Msg("none", 0), Msg("error", 0)} : Return(r)
    BY <1>4 DEF ReadBodyNone
  <2> QED
    BY <1>1, <1>4, <2>1, ResultTypes, ReturnInv DEF ReadBodyNone
<1> QED
  BY <1>3, <1>4

\* The frame is read from the page after it was announced.
LEMMA ReadFrameInv == ASSUME Inv, ReadFrame
                      PROVE  Inv'
<1>1. page \in 0..MaxFrames /\ cut \in {"no", "yes"}
  BY DEF Inv, TypeOK
<1>2. /\ Msg("frame", page) \in Results /\ Msg("frame", page).n = page
  BY <1>1, ResultTypes DEF Msg
<1> QED
  BY <1>1, <1>2, ReturnInv DEF ReadFrame

\* The client reads a body and does with the message what the call asks for.
LEMMA ReadBodyInv == ASSUME Inv, ReadBody
                     PROVE  Inv'
<1> DEFINE m == Head(cur)
<1>1. /\ UNCHANGED <<cut, asked>> /\ UNCHANGED serverVars
      /\ TypeOK /\ CallInv /\ AnnouncedInv /\ FramingInv
      /\ call \notin {"idle", "misframed"} /\ at = "body" /\ sock # <<>>
      /\ sock' = Tail(sock)
  BY DEF ReadBody, Inv
<1>2. /\ sock' \in Seq(Units) /\ Len(sock') <= SockCap
      /\ \A x \in ToSet(sock') : Known(x.msg)
  BY <1>1, TailUnit
<1>3. m \in Msgs /\ Known(m)
  <2>1. cur \in Seq(Msgs) /\ Len(cur) = 1 /\ \A x \in ToSet(cur) : Known(x)
    BY <1>1 DEF TypeOK, CallInv, AnnouncedInv
  <2>2. m = cur[1]
    BY <2>1
  <2>3. cur[1] \in ToSet(cur) /\ ToSet(cur) \subseteq Msgs
    BY <2>1, ToSetElements
  <2> QED
    BY <2>1, <2>2, <2>3
<1> HIDE DEF m
<1>4. /\ cur' = <<>> /\ at' \in {"len", "frame"}
      /\ at' = "frame" => call' = "audio"
      /\ last_seq' = last_seq \/ (NewAudio(m) /\ last_seq' = m.n)
      /\ \/ UNCHANGED <<call, result>>
         \/ at' = "len" /\ call' = "idle" /\ (result' = m \/ result' = Msg("none", 0))
  <2>1. CASE /\ call = "audio" /\ NewAudio(m) /\ last_seq' = m.n
             /\ at' = "frame" /\ cur' = <<>> /\ UNCHANGED <<call, result>>
    BY <2>1
  <2>2. CASE at' = "len" /\ cur' = <<>> /\ UNCHANGED <<call, result, last_seq>>
    BY <2>2
  <2>3. CASE (Return(m) \/ Return(Msg("none", 0))) /\ UNCHANGED last_seq
    BY <2>3 DEF Return
  <2> QED
    BY <2>1, <2>2, <2>3 DEF ReadBody, m
<1>5. cur' \in Seq(Msgs) /\ Len(cur') <= 1 /\ ToSet(cur') = {}
  BY <1>4, ToSetEmpty
<1>6. last_seq' \in 0..MaxFrames /\ last_seq' <= page
  <2>1. last_seq \in 0..MaxFrames /\ last_seq <= page
    BY <1>1 DEF TypeOK, AnnouncedInv
  <2>2. NewAudio(m) => m.n \in 0..MaxFrames /\ m.n <= page
    BY <1>3, MsgKinds DEF NewAudio, Known
  <2> QED
    BY <1>4, <2>1, <2>2
<1>7. result' \in Results /\ call' \in Calls \cup {"idle"}
  <2>1. result \in Results /\ call \in Calls
    BY <1>1 DEF TypeOK, Results
  <2> QED
    BY <1>3, <1>4, <2>1, ResultTypes
<1>8. TypeOK'
  BY <1>1, <1>2, <1>4, <1>5, <1>6, <1>7 DEF TypeOK, Results, serverVars
<1>9. CallInv'
  BY <1>1, <1>4 DEF CallInv, serverVars
<1>10. AnnouncedInv'
  BY <1>1, <1>2, <1>5, <1>6 DEF AnnouncedInv, Known, serverVars
<1>11. FramingInv'
  <2> SUFFICES ASSUME cut = "no" PROVE FramingInv'
    BY <1>1 DEF FramingInv
  <2>1. sock[1].part = "body"
    BY <1>1 DEF FramingInv
  <2>2. call' # "misframed" /\ at' # "body"
    BY <1>1, <1>4
  <2>3. sock' = <<>> => body' = <<>>
    BY <1>1, <2>1, TailUnit DEF serverVars
  <2>4. sock' # <<>> => /\ sock'[1].part = "len"
                        /\ sock'[Len(sock')].part = "len" => body' = <<sock'[Len(sock')].msg>>
                        /\ sock'[Len(sock')].part = "body" => body' = <<>>
    BY <1>1, <2>1, TailUnit DEF serverVars
  <2>5. \A k \in 1..Len(sock') - 1 :
          /\ sock'[k].part = "len" => sock'[k + 1] = [part |-> "body", msg |-> sock'[k].msg]
          /\ sock'[k].part = "body" => sock'[k + 1].part = "len"
    BY <1>1, TailUnit
  <2> QED
    BY <2>2, <2>3, <2>4, <2>5 DEF FramingInv
<1>12. FrameNotOlder'
  <2>1. m.kind # "frame" /\ Msg("none", 0).kind # "frame"
    BY <1>3, MsgKinds DEF Msg
  <2> QED
    BY <1>1, <1>4, <2>1 DEF FrameNotOlder
<1> QED
  BY <1>8, <1>9, <1>10, <1>11, <1>12 DEF Inv

\* Every step of every actor preserves the invariant.
LEMMA InvNext == Inv /\ [Next]_vars => Inv'
<1> SUFFICES ASSUME Inv, [Next]_vars PROVE Inv'
  OBVIOUS
<1>1. CASE Notify \/ BroadcastStats \/ BroadcastEvent \/ ServeStats
  BY <1>1, SendInv
<1>2. CASE WritePage \/ ServerDies
  BY <1>2, PageInv
<1>3. CASE Writer
  BY <1>3, WriteLenInv, WriteBodyInv DEF Writer
<1>4. CASE \E c \in Calls : Call(c)
  BY <1>4, CallStepInv
<1>5. CASE Reading
  BY <1>5, ReadLenInv, ReadNoneInv, ReadBodyInv, ReadFrameInv DEF Reading
<1>6. CASE UNCHANGED vars
  <2>1. TypeOK'
    BY <1>6 DEF vars, Inv, TypeOK
  <2>2. CallInv' /\ AnnouncedInv'
    BY <1>6 DEF vars, Inv, CallInv, AnnouncedInv, Known
  <2>3. FramingInv' /\ FrameNotOlder'
    BY <1>6 DEF vars, Inv, FramingInv, FrameNotOlder
  <2> QED
    BY <2>1, <2>2, <2>3 DEF Inv
<1> QED
  BY <1>1, <1>2, <1>3, <1>4, <1>5, <1>6 DEF Next, Server

\* The invariant holds throughout.
LEMMA Invariance == Spec => []Inv
<1> QED
  BY InvInit, InvNext, PTL DEF Spec

-----------------------------------------------------------------------------
\* Types, and the bounds of the channel to the writer thread and of the socket
\* (TypeOK), whatever the application calls in whatever order.
THEOREM TypeCorrect == Spec => []TypeOK
<1>1. Inv => TypeOK
  BY DEF Inv
<1> QED
  BY <1>1, Invariance, PTL

\* A client of read_server_msg takes a body for a length prefix only after a
\* call gave up between the two: the two write_all calls of write_msg and the
\* two read_exact calls never drift apart otherwise.
THEOREM FramingHolds == Spec => []MisframedOnlyAfterCut
<1>1. Inv => MisframedOnlyAfterCut
  BY DEF Inv, TypeOK, FramingInv, MisframedOnlyAfterCut
<1> QED
  BY <1>1, Invariance, PTL

\* The frame that read_audio_blocking returns is not older than the
\* notification it waited for, for any backlog of the channel and the socket.
THEOREM AnnouncedFrameIsThere == Spec => []FrameNotOlder
<1>1. Inv => FrameNotOlder
  BY DEF Inv
<1> QED
  BY <1>1, Invariance, PTL

\* While no call was cut off, the body that read_exact takes from the socket is
\* of the message whose length prefix was read: its length is the one the
\* prefix gave, and decode gets a whole message.
BodyMatchesPrefix == cut = "no" /\ at = "body" /\ sock # <<>> =>
                       sock[1] = [part |-> "body", msg |-> cur[1]]

\* read_server_msg never puts the length of one message to the body of another,
\* as long as no call was cut off (BodyMatchesPrefix).
THEOREM WholeMessages == Spec => []BodyMatchesPrefix
<1>1. Inv => BodyMatchesPrefix
  BY DEF Inv, FramingInv, BodyMatchesPrefix
<1> QED
  BY <1>1, Invariance, PTL
================================================================================
