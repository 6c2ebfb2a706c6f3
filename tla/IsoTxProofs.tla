------------------------------ MODULE IsoTxProofs ------------------------------
(***************************************************************************)
(* Proofs about IsoTx for any number of clients and URBs, any capacity of  *)
(* the ring and any messages: types, AiredOnceInOrder, BatchesContiguous,  *)
(* FramesAccounted, and that the thread writes into no buffer of the       *)
(* kernel's.                                                               *)
(***************************************************************************)
EXTENDS IsoTx, SequenceTheorems, TLAPS

USE TxAssumption

-----------------------------------------------------------------------------
(* Sequences used as queues.                                                *)

\* The elements of a sequence, by position.
LEMMA ToSetElements == ASSUME NEW S, NEW s \in Seq(S)
                       PROVE  /\ \A x \in ToSet(s) : \E j \in 1..Len(s) : x = s[j]
                              /\ \A j \in 1..Len(s) : s[j] \in ToSet(s)
                              /\ ToSet(s) \subseteq S
  BY LenProperties, ElementOfSeq DEF ToSet

\* An empty queue has no elements.
LEMMA ToSetEmpty == ToSet(<<>>) = {}
  BY DEF ToSet

\* The elements of a queue after one is appended.
LEMMA ToSetAppend == ASSUME NEW S, NEW s \in Seq(S), NEW e \in S
                     PROVE  ToSet(Append(s, e)) = ToSet(s) \cup {e}
  BY AppendProperties DEF ToSet

\* Taking the first element off a queue.
LEMMA ToSetTail == ASSUME NEW S, NEW s \in Seq(S), s # <<>>
                   PROVE  /\ ToSet(s) = ToSet(Tail(s)) \cup {Head(s)}
                          /\ Head(s) \in S /\ Tail(s) \in Seq(S)
                          /\ Len(Tail(s)) = Len(s) - 1 /\ Len(s) > 0
                          /\ \A j \in 1..Len(s) - 1 : Tail(s)[j] = s[j + 1]
                          /\ Head(s) = s[1]
<1>1. /\ Head(s) \in S /\ Tail(s) \in Seq(S) /\ Len(Tail(s)) = Len(s) - 1 /\ Len(s) > 0
      /\ \A j \in 1..Len(s) - 1 : Tail(s)[j] = s[j + 1]
      /\ Head(s) = s[1] /\ <<Head(s)>> \in Seq(S)
  BY HeadTailProperties, EmptySeq
<1>2. s = <<Head(s)>> \o Tail(s)
  BY <1>1, SeqEqual, ConcatProperties
<1>3. \A t, u \in Seq(S) : Range(t \o u) = Range(t) \cup Range(u)
  BY RangeConcatenation
<1>4. Range(<<Head(s)>>) = {Head(s)}
  BY DEF Range
<1>5. Range(s) = {Head(s)} \cup Range(Tail(s))
  BY <1>1, <1>2, <1>3, <1>4
<1> QED
  BY <1>1, <1>5 DEF ToSet, Range

\* Every element is related by R to every later one: a queue in increasing
\* order, or without repetitions, according to R.
Ordered(s, R) == \A j, k \in 1..Len(s) : j < k => <<s[j], s[k]>> \in R

\* An empty queue is ordered.
LEMMA OrderedEmpty == ASSUME NEW R PROVE Ordered(<<>>, R)
  BY DEF Ordered

\* A queue stays ordered when an element goes to its end that all others precede.
LEMMA OrderedAppend == ASSUME NEW S, NEW s \in Seq(S), NEW e \in S, NEW R, Ordered(s, R),
                              \A x \in ToSet(s) : <<x, e>> \in R
                       PROVE  Ordered(Append(s, e), R)
  BY AppendProperties, ToSetElements, LenProperties DEF Ordered

\* A queue stays ordered without its first element, which precedes the others.
LEMMA OrderedTail == ASSUME NEW S, NEW s \in Seq(S), s # <<>>, NEW R, Ordered(s, R)
                     PROVE  /\ Ordered(Tail(s), R)
                            /\ \A x \in ToSet(Tail(s)) : <<Head(s), x>> \in R
<1>1. Ordered(Tail(s), R)
  BY ToSetTail, LenProperties DEF Ordered
<1>2. ASSUME NEW x \in ToSet(Tail(s)) PROVE <<Head(s), x>> \in R
  <2>1. Tail(s) \in Seq(S)
    BY ToSetTail
  <2>2. PICK j \in 1..Len(Tail(s)) : x = Tail(s)[j]
    BY <1>2, <2>1, ToSetElements
  <2> QED
    BY <2>2, ToSetTail, LenProperties DEF Ordered
<1> QED
  BY <1>1, <1>2

\* Only the elements of a queue matter for its order.
LEMMA OrderedSame == ASSUME NEW S, NEW s \in Seq(S), NEW R, NEW Q, Ordered(s, R),
                            \A x, y \in ToSet(s) : <<x, y>> \in R => <<x, y>> \in Q
                     PROVE  Ordered(s, Q)
  BY ToSetElements DEF Ordered

-----------------------------------------------------------------------------
(***************************************************************************)
(* The inductive invariant.                                                *)
(*                                                                         *)
(* UrbInv: an URB is in one place at a time, queued, done or in the hands  *)
(* of the thread; while the URBs are submitted for the first time, those   *)
(* below i are out, and no buffer holds a frame.                           *)
(*                                                                         *)
(* OrderInv: the frames on their way form one increasing row, those aired  *)
(* before those queued, before the one in the thread's hands, before those *)
(* of the ring, and the next one accepted follows them all.  Silence (0)   *)
(* may stand anywhere between them.                                        *)
(*                                                                         *)
(* MutexInv: one handler at most is in the producer's mutex.  A handler    *)
(* that waits for it has had nothing of its message accepted, and what has *)
(* been accepted of the message of the one inside is the end of accepted.  *)
(***************************************************************************)
Different == {p \in Urbs \X Urbs : p[1] # p[2]}

\* Of two URBs in this order the first one has the earlier frame.
UrbOrder == {p \in Different : buf[p[1]] = 0 \/ buf[p[2]] = 0 \/ buf[p[1]] < buf[p[2]]}

Less == {p \in Nat \X Nat : p[1] < p[2]}

InUrbs == {buf[u] : u \in ToSet(queued)} \ {0}
InHand == IF thread = "resubmit" THEN {buf[i]} \ {0} ELSE {}

UrbInv ==
  /\ Ordered(done, Different) /\ Ordered(queued, UrbOrder)
  /\ ToSet(queued) \cap ToSet(done) = {}
  /\ thread \in {"fill", "resubmit"} => i \notin ToSet(queued) \cup ToSet(done)
  /\ thread = "setup" => queued = <<>> /\ done = <<>>
  /\ thread = "submit" => \A u \in ToSet(queued) \cup ToSet(done) : u < i
  /\ thread \in {"setup", "submit"} => \A u \in Urbs : buf[u] = 0

Precede(A, B) == \A a \in A, b \in B : a < b

OrderInv ==
  /\ Ordered(aired, Less) /\ Ordered(ring, Less)
  /\ Precede(ToSet(aired), InUrbs \cup InHand \cup ToSet(ring))
  /\ Precede(InUrbs, InHand \cup ToSet(ring))
  /\ Precede(InHand, ToSet(ring))
  /\ ToSet(aired) \cup InUrbs \cup InHand \cup ToSet(ring) \subseteq 1..Len(accepted)

MutexInv ==
  /\ \A c \in Clients : handler[c] = "push" <=> c \in producer
  /\ \A c, d \in producer : c = d
  /\ \A k \in 1..Len(accepted) : \A c \in Clients : accepted[k][1] = c =>
       /\ accepted[k][2] <= batch[c]
       /\ handler[c] = "lock" => accepted[k][2] < batch[c]
  /\ \A c \in producer : \A j, k \in 1..Len(accepted) :
       j < k /\ accepted[j] = <<c, batch[c]>> => accepted[k] = <<c, batch[c]>>

Inv == TypeOK /\ UrbInv /\ OrderInv /\ MutexInv /\ BatchesContiguous /\ FramesAccounted
-----------------------------------------------------------------------------
\* The invariant holds when the program starts.
LEMMA InvInit == Init => Inv
<1> SUFFICES ASSUME Init PROVE Inv
  OBVIOUS
<1>1. TypeOK
  BY DEF Init, TypeOK, Urbs
<1>2. ToSet(queued) = {} /\ ToSet(done) = {} /\ ToSet(aired) = {} /\ ToSet(ring) = {}
  BY ToSetEmpty DEF Init
<1>3. UrbInv
  BY <1>2, OrderedEmpty DEF Init, UrbInv
<1>4. InUrbs = {} /\ InHand = {}
  BY <1>2 DEF InUrbs, InHand, Init
<1>5. OrderInv
  BY <1>2, <1>4, OrderedEmpty DEF Init, OrderInv, Precede
<1>6. MutexInv /\ BatchesContiguous
  BY DEF Init, MutexInv, BatchesContiguous
<1>7. FramesAccounted
  <2>1. {buf[u] : u \in ToSet(queued)} \ {0} = {}
    BY <1>2
  <2> QED
    BY <1>2, <2>1 DEF Init, FramesAccounted
<1> QED
  BY <1>1, <1>3, <1>5, <1>6, <1>7 DEF Inv

\* FramesAccounted in the words of the invariant.
LEMMA Accounted == FramesAccounted <=>
                     (thread \notin {"return", "dead"} =>
                        1..Len(accepted) = ToSet(aired) \cup ToSet(ring) \cup lost
                                             \cup InUrbs \cup InHand)
  BY DEF FramesAccounted, InUrbs, InHand

\* The handlers' steps that push nothing: taking and giving back the mutex.
LEMMA HandlerInv == ASSUME Inv, NEW c \in Clients,
                           \/ LockProducer(c) \/ UnlockProducer(c)
                           \/ \E n \in 1..MaxBatchLen : AudioWrite(c, n)
                    PROVE  Inv'
<1>1. /\ UNCHANGED <<ring, tx_xruns, thread, i, queued, done, buf, accepted, aired, lost>>
      /\ TypeOK /\ MutexInv
  BY DEF LockProducer, UnlockProducer, AudioWrite, Inv
<1>2. TypeOK'
  <2>1. CASE LockProducer(c)
    BY <1>1, <2>1 DEF LockProducer, TypeOK
  <2>2. CASE UnlockProducer(c)
    BY <1>1, <2>2 DEF UnlockProducer, TypeOK
  <2>3. CASE \E n \in 1..MaxBatchLen : AudioWrite(c, n)
    BY <1>1, <2>3 DEF AudioWrite, TypeOK
  <2> QED
    BY <2>1, <2>2, <2>3
<1>3. UrbInv' /\ OrderInv' /\ BatchesContiguous' /\ FramesAccounted'
  <2>1. UNCHANGED <<Different, UrbOrder, InUrbs, InHand>>
    BY <1>1 DEF Different, UrbOrder, InUrbs, InHand, Urbs
  <2>2. UrbInv' /\ OrderInv'
    BY <1>1, <2>1 DEF Inv, UrbInv, OrderInv
  <2>3. BatchesContiguous' /\ FramesAccounted'
    BY <1>1 DEF Inv, BatchesContiguous, FramesAccounted
  <2> QED
    BY <2>2, <2>3
<1>4. MutexInv'
  <2> DEFINE n == Len(accepted)
  <2>1. /\ n \in Nat /\ n' = n /\ accepted' = accepted
        /\ \A k \in 1..n : accepted[k] \in Clients \X Nat
    BY <1>1 DEF TypeOK
  <2>2. CASE LockProducer(c)
    <3>1. \A k \in 1..n : accepted[k] # <<c, batch[c]>>
      <4> SUFFICES ASSUME NEW k \in 1..n, accepted[k] = <<c, batch[c]>> PROVE FALSE
        OBVIOUS
      <4>1. accepted[k][1] = c /\ accepted[k][2] = batch[c] /\ batch[c] \in Nat
        BY <1>1 DEF TypeOK
      <4>2. accepted[k][2] < batch[c]
        BY <1>1, <2>2, <4>1 DEF LockProducer, MutexInv
      <4> QED
        BY <4>1, <4>2
    <3> QED
      BY <1>1, <2>1, <2>2, <3>1 DEF LockProducer, MutexInv, TypeOK
  <2>3. CASE UnlockProducer(c)
    BY <1>1, <2>1, <2>3 DEF UnlockProducer, MutexInv, TypeOK
  <2>4. ASSUME NEW m \in 1..MaxBatchLen, AudioWrite(c, m)
        PROVE  MutexInv'
    <3>1. /\ c \notin producer /\ producer' = producer /\ handler[c] = "read"
          /\ handler' = [handler EXCEPT ![c] = "lock"]
          /\ batch' = [batch EXCEPT ![c] = @ + 1]
      BY <1>1, <2>4 DEF AudioWrite, MutexInv
    <3>2. \A d \in Clients : d # c => batch'[d] = batch[d] /\ handler'[d] = handler[d]
      BY <1>1, <3>1 DEF TypeOK
    <3>3. batch'[c] = batch[c] + 1 /\ handler'[c] = "lock" /\ batch[c] \in Nat
      BY <1>1, <3>1 DEF TypeOK
    <3>4. \A d \in Clients : handler'[d] = "push" <=> d \in producer'
      BY <1>1, <3>1, <3>2, <3>3 DEF MutexInv
    <3>5. ASSUME NEW k \in 1..n, NEW d \in Clients, accepted[k][1] = d
          PROVE  accepted[k][2] <= batch'[d] /\ (handler'[d] = "lock" => accepted[k][2] < batch'[d])
      <4>1. accepted[k][2] \in Nat /\ batch[d] \in Nat
        BY <1>1, <2>1 DEF TypeOK
      <4> QED
        BY <1>1, <2>1, <3>2, <3>3, <3>5, <4>1 DEF MutexInv
    <3>6. \A d \in producer : batch'[d] = batch[d]
      BY <1>1, <3>1, <3>2 DEF TypeOK
    <3>7. \A d \in producer : \A j, k \in 1..n :
            j < k /\ accepted[j] = <<d, batch'[d]>> => accepted[k] = <<d, batch'[d]>>
      BY <1>1, <3>6 DEF MutexInv
    <3>8. \A d, e \in producer : d = e
      BY <1>1 DEF MutexInv
    <3> QED
      BY <2>1, <3>1, <3>4, <3>5, <3>7, <3>8 DEF MutexInv
  <2> QED
    BY <2>2, <2>3, <2>4
<1> QED
  BY <1>2, <1>3, <1>4 DEF Inv

\* A frame is pushed: the ring gets the number after all others, or is full.
LEMMA PushInv == ASSUME Inv, NEW c \in Clients, PushFrame(c)
                 PROVE  Inv'
<1> DEFINE n == Len(accepted)
           e == <<c, batch[c]>>
<1>1. /\ TypeOK /\ MutexInv /\ c \in producer /\ e \in Clients \X Nat
      /\ UNCHANGED <<handler, batch, producer, thread, i, queued, done, buf, aired, lost>>
      /\ UNCHANGED <<InUrbs, InHand>>
  <2>1. UNCHANGED <<handler, batch, producer, thread, i, queued, done, buf, aired, lost>>
    BY DEF PushFrame
  <2>2. UNCHANGED <<InUrbs, InHand>>
    BY <2>1 DEF InUrbs, InHand
  <2>3. TypeOK /\ MutexInv /\ c \in producer
    BY DEF PushFrame, Inv, MutexInv
  <2> QED
    BY <2>1, <2>2, <2>3 DEF TypeOK
<1>2. n \in Nat /\ accepted \in Seq(Clients \X Nat) /\ ring \in Seq(Nat \ {0})
  BY <1>1 DEF TypeOK
<1>3. left' \in [Clients -> Nat] /\ tx_xruns' \in 0..MaxXruns
  <2>1. left[c] - 1 \in Nat /\ left' = [left EXCEPT ![c] = left[c] - 1]
    BY <1>1 DEF PushFrame, TypeOK
  <2>2. tx_xruns' = tx_xruns \/ tx_xruns' = (IF tx_xruns < MaxXruns THEN tx_xruns + 1 ELSE tx_xruns)
    BY DEF PushFrame, CountXrun
  <2> QED
    BY <1>1, <2>1, <2>2 DEF TypeOK
<1>4. UNCHANGED UrbOrder
  BY <1>1 DEF UrbOrder, Different, Urbs
<1>5. CASE Len(ring) < RING_CAPACITY
  <2>1. ring' = Append(ring, n + 1) /\ accepted' = Append(accepted, e)
    BY <1>5 DEF PushFrame
  <2>2. /\ accepted' \in Seq(Clients \X Nat) /\ Len(accepted') = n + 1
        /\ accepted'[n + 1] = e /\ \A k \in 1..n : accepted'[k] = accepted[k]
    <3> HIDE DEF e
    <3> QED
      BY <1>1, <1>2, <2>1, AppendProperties
  <2>3. /\ ring' \in Seq(Nat \ {0}) /\ Len(ring') = Len(ring) + 1
        /\ ToSet(ring') = ToSet(ring) \cup {n + 1}
    <3>1. n + 1 \in Nat \ {0}
      BY <1>2
    <3> QED
      BY <1>2, <2>1, <3>1, AppendProperties, ToSetAppend
  <2>4. TypeOK'
    <3>1. Len(ring') <= RING_CAPACITY
      BY <1>2, <1>5, <2>3
    <3> QED
      BY <1>1, <1>3, <2>2, <2>3, <3>1 DEF TypeOK
  <2>5. UrbInv'
    BY <1>1, <1>4 DEF Inv, UrbInv, Different, Urbs
  <2>6. OrderInv'
    <3>1. \A x \in ToSet(ring) : <<x, n + 1>> \in Less
      <4>1. \A x \in ToSet(ring) : x \in 1..n
        BY DEF Inv, OrderInv
      <4> QED
        BY <1>2, <4>1 DEF Less
    <3>2. Ordered(ring', Less)
      BY <1>2, <2>1, <3>1, OrderedAppend, n + 1 \in Nat \ {0} DEF Inv, OrderInv
    <3>3. \A x \in ToSet(aired) \cup InUrbs \cup InHand \cup ToSet(ring) : x \in 1..n
      BY DEF Inv, OrderInv
    <3>4. \A x \in ToSet(aired) \cup InUrbs \cup InHand : x < n + 1
      BY <1>2, <3>3
    <3>5. /\ Precede(ToSet(aired), InUrbs \cup InHand \cup ToSet(ring'))
          /\ Precede(InUrbs, InHand \cup ToSet(ring'))
          /\ Precede(InHand, ToSet(ring'))
      BY <2>3, <3>4 DEF Inv, OrderInv, Precede
    <3>6. ToSet(aired) \cup InUrbs \cup InHand \cup ToSet(ring') \subseteq 1..n + 1
      BY <1>2, <2>3, <3>3
    <3>7. Ordered(aired, Less)
      BY DEF Inv, OrderInv
    <3> QED
      BY <1>1, <2>2, <3>2, <3>5, <3>6, <3>7 DEF OrderInv, Precede
  <2>7. BatchesContiguous'
    <3> SUFFICES ASSUME NEW j \in 1..n + 1, NEW k \in 1..n + 1, NEW l \in 1..n + 1,
                        j < k, k < l, accepted'[j] = accepted'[l]
                 PROVE  accepted'[k] = accepted'[j]
      BY <2>2 DEF BatchesContiguous
    <3>1. j \in 1..n /\ k \in 1..n /\ (l \in 1..n \/ l = n + 1)
      <4> HIDE DEF n
      <4> QED
        BY <1>2
    <3>2. accepted'[j] = accepted[j] /\ accepted'[k] = accepted[k]
      BY <2>2, <3>1
    <3>3. CASE l \in 1..n
      BY <2>2, <3>1, <3>2, <3>3 DEF Inv, BatchesContiguous
    <3>4. CASE l = n + 1
      <4>1. accepted[j] = e
        BY <2>2, <3>2, <3>4
      <4> QED
        BY <1>1, <3>1, <3>2, <4>1 DEF MutexInv
    <3> QED
      BY <3>1, <3>3, <3>4
  <2>8. MutexInv'
    <3>1. /\ \A d \in Clients : handler'[d] = "push" <=> d \in producer'
          /\ \A d, f \in producer' : d = f
      BY <1>1 DEF MutexInv
    <3>2. ASSUME NEW k \in 1..n + 1, NEW d \in Clients, accepted'[k][1] = d
          PROVE  /\ accepted'[k][2] <= batch[d]
                 /\ handler[d] = "lock" => accepted'[k][2] < batch[d]
      <4>1. CASE k \in 1..n
        BY <1>1, <2>2, <3>2, <4>1 DEF MutexInv
      <4>2. CASE k = n + 1
        BY <1>1, <2>2, <3>2, <4>2 DEF MutexInv, TypeOK
      <4> QED
        BY <1>2, <4>1, <4>2
    <3>3. ASSUME NEW d \in producer, NEW j \in 1..n + 1, NEW k \in 1..n + 1, j < k,
                 accepted'[j] = <<d, batch[d]>>
          PROVE  accepted'[k] = <<d, batch[d]>>
      <4>1. d = c /\ j \in 1..n
        BY <1>1, <1>2, <3>3 DEF MutexInv
      <4>2. CASE k = n + 1
        BY <2>2, <4>1, <4>2
      <4>3. CASE k \in 1..n
        <5>1. accepted[j] = <<d, batch[d]>> /\ accepted'[k] = accepted[k]
          BY <2>2, <3>3, <4>1, <4>3
        <5> QED
          BY <1>1, <3>3, <4>1, <4>3, <5>1 DEF MutexInv
      <4> QED
        BY <1>2, <4>2, <4>3
    <3> QED
      BY <1>1, <2>2, <3>1, <3>2, <3>3 DEF MutexInv
  <2>9. FramesAccounted'
    <3>1. 1..n + 1 = 1..n \cup {n + 1}
      BY <1>2
    <3>2. thread \notin {"return", "dead"} =>
            1..n = ToSet(aired) \cup ToSet(ring) \cup lost \cup InUrbs \cup InHand
      BY Accounted DEF Inv
    <3>3. thread \notin {"return", "dead"} =>
            1..n + 1 = ToSet(aired) \cup ToSet(ring') \cup lost \cup InUrbs \cup InHand
      BY <2>3, <3>1, <3>2
    <3> QED
      BY <1>1, <2>2, <3>3 DEF FramesAccounted, InUrbs, InHand
  <2> QED
    BY <2>4, <2>5, <2>6, <2>7, <2>8, <2>9 DEF Inv
<1>6. CASE ~(Len(ring) < RING_CAPACITY)
  <2>1. UNCHANGED <<ring, accepted>>
    BY <1>6 DEF PushFrame
  <2>2. TypeOK'
    BY <1>1, <1>3, <2>1 DEF TypeOK
  <2>3. UrbInv' /\ OrderInv' /\ MutexInv' /\ BatchesContiguous' /\ FramesAccounted'
    BY <1>1, <1>4, <2>1 DEF Inv, UrbInv, OrderInv, Precede, MutexInv, BatchesContiguous,
                            FramesAccounted, Different, Urbs
  <2> QED
    BY <2>2, <2>3 DEF Inv
<1> QED
  BY <1>5, <1>6

\* A step outside the handlers keeps what the mutex is about.
LEMMA MutexSame == ASSUME MutexInv, BatchesContiguous, UNCHANGED handlerVars,
                          UNCHANGED accepted
                   PROVE  MutexInv' /\ BatchesContiguous'
  BY DEF MutexInv, BatchesContiguous, handlerVars

\* The order of the queue depends on the buffers of the queued URBs only.
LEMMA UrbOrderSame == ASSUME TypeOK, Ordered(queued, UrbOrder),
                             \A u \in ToSet(queued) : buf'[u] = buf[u]
                      PROVE  Ordered(queued, UrbOrder')
<1>1. queued \in Seq(Urbs)
  BY DEF TypeOK
<1>2. ASSUME NEW x \in ToSet(queued), NEW y \in ToSet(queued), <<x, y>> \in UrbOrder
      PROVE  <<x, y>> \in UrbOrder'
  BY <1>2 DEF UrbOrder, Different, Urbs
<1> QED
  BY <1>1, <1>2, OrderedSame

\* The steps that move no URB and no frame.
LEMMA StartStopInv == ASSUME Inv, Setup \/ SubmitFirstFails \/ CloseFile
                      PROVE  Inv'
<1>1. /\ UNCHANGED handlerVars
      /\ UNCHANGED <<ring, tx_xruns, i, buf, accepted, aired, lost>>
      /\ TypeOK /\ UrbInv /\ OrderInv
  BY DEF Setup, SubmitFirstFails, CloseFile, Inv
<1>2. MutexInv' /\ BatchesContiguous'
  BY <1>1, MutexSame DEF Inv
<1>3. CASE Setup \/ SubmitFirstFails
  <2>1. /\ UNCHANGED <<queued, done>> /\ thread' \in {"submit", "return", "dead"}
        /\ thread \in {"setup", "submit"} /\ (thread' = "submit" => thread = "setup")
    BY <1>3 DEF Setup, SubmitFirstFails
  <2>2. UNCHANGED <<UrbOrder, InUrbs, InHand>>
    BY <1>1, <2>1 DEF UrbOrder, Different, Urbs, InUrbs, InHand
  <2>3. TypeOK'
    BY <1>1, <2>1 DEF TypeOK, handlerVars
  <2>4. UrbInv'
    <3>1. thread = "setup" => ToSet(queued) = {} /\ ToSet(done) = {}
      BY <1>1, ToSetEmpty DEF UrbInv
    <3> QED
      BY <1>1, <2>1, <2>2, <3>1 DEF UrbInv, Different, Urbs
  <2>5. OrderInv'
    BY <1>1, <2>1, <2>2 DEF OrderInv, Precede
  <2>6. FramesAccounted'
    BY <1>1, <2>1 DEF Inv, FramesAccounted
  <2> QED
    BY <1>2, <2>3, <2>4, <2>5, <2>6 DEF Inv
<1>4. CASE CloseFile
  <2>1. queued' = <<>> /\ done' = <<>> /\ thread' = "dead" /\ thread = "return"
    BY <1>4 DEF CloseFile
  <2>2. ToSet(queued') = {} /\ ToSet(done') = {}
    BY <2>1, ToSetEmpty
  <2>3. InUrbs' = {} /\ InHand' = {}
    BY <2>1, <2>2 DEF InUrbs, InHand
  <2>4. TypeOK'
    BY <1>1, <2>1 DEF TypeOK, handlerVars
  <2>5. UrbInv'
    BY <2>1, <2>2, OrderedEmpty DEF UrbInv
  <2>6. OrderInv'
    BY <1>1, <2>3 DEF OrderInv, Precede
  <2>7. FramesAccounted'
    BY <2>1 DEF FramesAccounted
  <2> QED
    BY <1>2, <2>4, <2>5, <2>6, <2>7 DEF Inv
<1> QED
  BY <1>3, <1>4

\* The URB in the thread's hands goes to the end of the queue: the first time
\* with an empty buffer, later with the frame that follows all queued ones.
LEMMA SubmitInv == ASSUME Inv, SubmitFirst \/ Resubmit
                   PROVE  Inv'
<1>1. /\ UNCHANGED handlerVars
      /\ UNCHANGED <<ring, tx_xruns, done, buf, accepted, aired, lost>>
      /\ queued' = Append(queued, i)
      /\ TypeOK /\ UrbInv /\ OrderInv
  BY DEF SubmitFirst, Resubmit, Inv
<1>2. /\ queued \in Seq(Urbs) /\ done \in Seq(Urbs) /\ i \in Urbs /\ buf \in [Urbs -> Nat]
      /\ ToSet(queued) \subseteq Urbs /\ ToSet(done) \subseteq Urbs
  BY <1>1, ToSetElements DEF TypeOK
<1>3. /\ queued' \in Seq(Urbs) /\ ToSet(queued') = ToSet(queued) \cup {i}
  BY <1>1, <1>2, AppendProperties, ToSetAppend
<1>4. MutexInv' /\ BatchesContiguous'
  BY <1>1, MutexSame DEF Inv
<1>5. i \notin ToSet(queued) \cup ToSet(done)
  <2>1. CASE SubmitFirst
    BY <1>1, <1>2, <2>1 DEF SubmitFirst, UrbInv, Urbs
  <2>2. CASE Resubmit
    BY <1>1, <2>2 DEF Resubmit, UrbInv
  <2> QED
    BY <2>1, <2>2
<1>6. \A u \in ToSet(queued) : buf[u] = 0 \/ buf[i] = 0 \/ buf[u] < buf[i]
  <2>1. CASE SubmitFirst
    BY <1>1, <1>2, <2>1 DEF SubmitFirst, UrbInv
  <2>2. CASE Resubmit
    <3> SUFFICES ASSUME NEW u \in ToSet(queued), buf[u] # 0, buf[i] # 0
                 PROVE  buf[u] < buf[i]
      OBVIOUS
    <3>1. buf[u] \in InUrbs /\ buf[i] \in InHand
      BY <2>2 DEF Resubmit, InUrbs, InHand
    <3> QED
      BY <1>1, <3>1 DEF OrderInv, Precede
  <2> QED
    BY <2>1, <2>2
<1>7. Ordered(queued', UrbOrder) /\ UrbOrder' = UrbOrder
  <2>1. \A u \in ToSet(queued) : <<u, i>> \in UrbOrder
    BY <1>2, <1>5, <1>6 DEF UrbOrder, Different
  <2> QED
    BY <1>1, <1>2, <2>1, OrderedAppend DEF UrbInv, UrbOrder, Different, Urbs
<1>8. /\ InUrbs' = InUrbs \cup InHand /\ InHand' = {}
      /\ thread' \in {"submit", "reap"} /\ thread \in {"submit", "resubmit"}
      /\ thread' = "submit" => thread = "submit" /\ i' = i + 1 /\ i + 1 \in Urbs
      /\ i' \in Urbs
  <2>1. InUrbs' = InUrbs \cup ({buf[i]} \ {0})
    BY <1>1, <1>3 DEF InUrbs
  <2>2. CASE SubmitFirst
    <3>1. buf[i] = 0
      BY <1>1, <1>2, <2>2 DEF SubmitFirst, UrbInv
    <3> QED
      BY <1>2, <2>1, <2>2, <3>1 DEF SubmitFirst, InHand, Urbs
  <2>3. CASE Resubmit
    BY <1>2, <2>1, <2>3 DEF Resubmit, InHand
  <2> QED
    BY <2>2, <2>3
<1>9. TypeOK'
  BY <1>1, <1>3, <1>8 DEF TypeOK, handlerVars
<1>10. UrbInv'
  <2>1. ToSet(queued') \cap ToSet(done) = {}
    BY <1>1, <1>3, <1>5 DEF UrbInv
  <2>2. thread' = "submit" => \A u \in ToSet(queued') \cup ToSet(done) : u < i'
    BY <1>1, <1>2, <1>3, <1>8 DEF UrbInv, Urbs
  <2>3. thread' = "submit" => \A u \in Urbs : buf[u] = 0
    BY <1>1, <1>8 DEF UrbInv
  <2>4. Ordered(done, Different)
    BY <1>1 DEF UrbInv
  <2> QED
    BY <1>1, <1>7, <1>8, <2>1, <2>2, <2>3, <2>4 DEF UrbInv, Different, Urbs
<1>11. OrderInv'
  <2>1. Precede(ToSet(aired), InUrbs \cup InHand \cup ToSet(ring))
        /\ Precede(InUrbs \cup InHand, ToSet(ring))
    BY <1>1 DEF OrderInv, Precede
  <2> QED
    BY <1>1, <1>8, <2>1 DEF OrderInv, Precede
<1>12. FramesAccounted'
  <2>1. 1..Len(accepted) = ToSet(aired) \cup ToSet(ring) \cup lost \cup InUrbs \cup InHand
    BY <1>8, Accounted DEF Inv
  <2> QED
    BY <1>1, <1>8, <2>1 DEF FramesAccounted, InUrbs, InHand
<1> QED
  BY <1>4, <1>9, <1>10, <1>11, <1>12 DEF Inv

\* Reaping takes the URB completed first into the thread's hands.
LEMMA ReapInv == ASSUME Inv, Reap
                 PROVE  Inv'
<1>1. /\ UNCHANGED handlerVars
      /\ UNCHANGED <<ring, tx_xruns, queued, buf, accepted, aired, lost>>
      /\ thread = "reap" /\ thread' = "fill" /\ done # <<>>
      /\ i' = Head(done) /\ done' = Tail(done)
      /\ TypeOK /\ UrbInv /\ OrderInv
  BY DEF Reap, Inv
<1>2. done \in Seq(Urbs)
  BY <1>1 DEF TypeOK
<1>3. /\ done' \in Seq(Urbs) /\ i' \in Urbs /\ ToSet(done) = ToSet(done') \cup {i'}
  BY <1>1, <1>2, ToSetTail
<1>4. Ordered(done', Different) /\ i' \notin ToSet(done')
  <2>1. Ordered(done', Different) /\ \A x \in ToSet(done') : <<i', x>> \in Different
    BY <1>1, <1>2, OrderedTail DEF UrbInv
  <2> QED
    BY <2>1 DEF Different
<1>5. UNCHANGED <<UrbOrder, InUrbs, InHand>>
  BY <1>1 DEF UrbOrder, Different, Urbs, InUrbs, InHand
<1>6. TypeOK'
  BY <1>1, <1>3 DEF TypeOK, handlerVars
<1>7. UrbInv'
  BY <1>1, <1>3, <1>4, <1>5 DEF UrbInv, Different, Urbs
<1>8. OrderInv'
  BY <1>1, <1>5 DEF OrderInv, Precede
<1>9. FramesAccounted'
  BY <1>1 DEF Inv, FramesAccounted
<1> QED
  BY <1>1, <1>6, <1>7, <1>8, <1>9, MutexSame DEF Inv

\* The reaped URB, which is in no queue, is filled with the first frame of the
\* ring, which follows all queued ones, or with silence.
LEMMA FillInv == ASSUME Inv, Fill
                 PROVE  Inv'
<1>1. /\ UNCHANGED handlerVars
      /\ UNCHANGED <<i, queued, done, accepted, aired, lost>>
      /\ thread = "fill" /\ thread' = "resubmit"
      /\ TypeOK /\ UrbInv /\ OrderInv
  BY DEF Fill, Inv
<1>2. /\ ring \in Seq(Nat \ {0}) /\ i \in Urbs /\ buf \in [Urbs -> Nat]
      /\ queued \in Seq(Urbs) /\ ToSet(queued) \subseteq Urbs /\ Len(ring) <= RING_CAPACITY
  BY <1>1, ToSetElements DEF TypeOK
<1>3. PICK f \in Nat : /\ buf' = [buf EXCEPT ![i] = f]
                       /\ \/ /\ ring # <<>> /\ f = Head(ring) /\ ring' = Tail(ring)
                             /\ tx_xruns' = tx_xruns
                          \/ f = 0 /\ ring = <<>> /\ ring' = ring /\ CountXrun
  <2>1. ring # <<>> => Head(ring) \in Nat
    BY <1>2, HeadTailProperties
  <2> QED
    BY <2>1 DEF Fill
<1>4. buf'[i] = f /\ buf' \in [Urbs -> Nat] /\ \A u \in Urbs : u # i => buf'[u] = buf[u]
  BY <1>2, <1>3
<1>5. \A u \in ToSet(queued) : buf'[u] = buf[u]
  BY <1>1, <1>2, <1>4 DEF UrbInv
<1>6. InUrbs' = InUrbs /\ InHand = {} /\ InHand' = {f} \ {0}
  BY <1>1, <1>4, <1>5 DEF InUrbs, InHand
<1>7. /\ ring' \in Seq(Nat \ {0}) /\ Len(ring') <= RING_CAPACITY
      /\ ToSet(ring) = ToSet(ring') \cup ({f} \ {0})
      /\ Ordered(ring', Less) /\ \A x \in ToSet(ring') : <<f, x>> \in Less
  <2>1. CASE ring = <<>>
    BY <1>1, <1>2, <1>3, <2>1, ToSetEmpty DEF OrderInv
  <2>2. CASE ring # <<>>
    <3>1. /\ ring' \in Seq(Nat \ {0}) /\ Len(ring') = Len(ring) - 1 /\ f \in Nat \ {0}
          /\ ToSet(ring) = ToSet(ring') \cup {f}
      <4> DEFINE Frames == Nat \ {0}
      <4>1. ring \in Seq(Frames)
        BY <1>2
      <4>2. f = Head(ring) /\ ring' = Tail(ring)
        BY <1>3, <2>2
      <4> HIDE DEF Frames
      <4>3. /\ Tail(ring) \in Seq(Frames) /\ Len(Tail(ring)) = Len(ring) - 1
            /\ Head(ring) \in Frames /\ ToSet(ring) = ToSet(Tail(ring)) \cup {Head(ring)}
        BY <2>2, <4>1, ToSetTail
      <4> QED
        BY <4>2, <4>3 DEF Frames
    <3>2. Ordered(ring', Less) /\ \A x \in ToSet(ring') : <<f, x>> \in Less
      BY <1>1, <1>2, <1>3, <2>2, OrderedTail DEF OrderInv
    <3>3. Len(ring') <= RING_CAPACITY
      BY <1>2, <3>1
    <3> QED
      BY <3>1, <3>2, <3>3
  <2> QED
    BY <2>1, <2>2
<1>8. TypeOK'
  <2>1. tx_xruns' \in 0..MaxXruns
    BY <1>1, <1>3 DEF CountXrun, TypeOK
  <2> QED
    BY <1>1, <1>4, <1>7, <2>1 DEF TypeOK, handlerVars
<1>9. UrbInv'
  <2>1. Ordered(queued, UrbOrder')
    BY <1>1, <1>5, UrbOrderSame DEF UrbInv
  <2> QED
    BY <1>1, <2>1 DEF UrbInv, Different, Urbs
<1>10. OrderInv'
  <2>1. /\ Precede(ToSet(aired), InUrbs \cup ({f} \ {0}) \cup ToSet(ring'))
        /\ Precede(InUrbs, ({f} \ {0}) \cup ToSet(ring'))
    BY <1>1, <1>7 DEF OrderInv, Precede
  <2>2. Precede({f} \ {0}, ToSet(ring'))
    BY <1>7 DEF Precede, Less
  <2>3. ToSet(aired) \cup InUrbs \cup ({f} \ {0}) \cup ToSet(ring') \subseteq 1..Len(accepted)
    BY <1>1, <1>7 DEF OrderInv
  <2>4. Ordered(aired, Less)
    BY <1>1 DEF OrderInv
  <2> QED
    BY <1>1, <1>6, <1>7, <2>1, <2>2, <2>3, <2>4 DEF OrderInv, Precede
<1>11. FramesAccounted'
  <2>1. 1..Len(accepted) = ToSet(aired) \cup ToSet(ring) \cup lost \cup InUrbs \cup InHand
    BY <1>1, Accounted DEF Inv
  <2>2. 1..Len(accepted) = ToSet(aired) \cup ToSet(ring') \cup lost \cup InUrbs' \cup InHand'
    BY <1>6, <1>7, <2>1
  <2> QED
    BY <1>1, <2>2 DEF FramesAccounted, InUrbs, InHand
<1> QED
  BY <1>1, <1>8, <1>9, <1>10, <1>11, MutexSame DEF Inv

\* A failed submission: the URB and its frame are lost, in no queue any more.
LEMMA ResubmitFailsInv == ASSUME Inv, ResubmitFails
                          PROVE  Inv'
<1>1. /\ UNCHANGED handlerVars
      /\ UNCHANGED <<ring, tx_xruns, i, queued, done, buf, accepted, aired>>
      /\ thread = "resubmit" /\ thread' = "reap" /\ lost' = lost \cup ({buf[i]} \ {0})
      /\ TypeOK /\ UrbInv /\ OrderInv
  BY DEF ResubmitFails, Inv
<1>2. lost' = lost \cup InHand /\ InUrbs' = InUrbs /\ InHand' = {} /\ UNCHANGED UrbOrder
  BY <1>1 DEF InHand, InUrbs, UrbOrder, Different, Urbs
<1>3. TypeOK'
  <2>1. lost' \in SUBSET (Nat \ {0})
    <3>1. lost \in SUBSET (Nat \ {0}) /\ buf[i] \in Nat
      BY <1>1 DEF TypeOK
    <3> QED
      BY <1>1, <3>1
  <2> QED
    BY <1>1, <2>1 DEF TypeOK, handlerVars
<1>4. UrbInv'
  BY <1>1, <1>2 DEF UrbInv, Different, Urbs
<1>5. OrderInv'
  BY <1>1, <1>2 DEF OrderInv, Precede
<1>6. FramesAccounted'
  <2>1. 1..Len(accepted) = ToSet(aired) \cup ToSet(ring) \cup lost \cup InUrbs \cup InHand
    BY <1>1, Accounted DEF Inv
  <2>2. 1..Len(accepted) = ToSet(aired) \cup ToSet(ring) \cup lost' \cup InUrbs' \cup InHand'
    BY <1>2, <2>1
  <2> QED
    BY <1>1, <2>2 DEF FramesAccounted, InUrbs, InHand
<1> QED
  BY <1>1, <1>3, <1>4, <1>5, <1>6, MutexSame DEF Inv

\* The first queued URB completes, well or not: it goes from one queue to the
\* other, and its frame, if it has one, precedes those of the other URBs.
LEMMA Completion == ASSUME Inv, BusFrame \/ BusFails
                    PROVE  /\ Head(queued) \in Urbs
                           /\ queued' \in Seq(Urbs) /\ done' \in Seq(Urbs)
                           /\ InUrbs = InUrbs' \cup ({buf[Head(queued)]} \ {0})
                           /\ Precede({buf[Head(queued)]} \ {0}, InUrbs')
                           /\ InHand' = InHand /\ UrbInv'
<1> DEFINE u == Head(queued)
           F == {buf[u]} \ {0}
<1>1. /\ UNCHANGED <<thread, i, buf>>
      /\ queued # <<>> /\ queued' = Tail(queued) /\ done' = Append(done, u)
      /\ TypeOK /\ UrbInv
  BY DEF BusFrame, BusFails, Inv
<1>2. queued \in Seq(Urbs) /\ done \in Seq(Urbs) /\ buf \in [Urbs -> Nat]
  BY <1>1 DEF TypeOK
<1>3. u \in Urbs /\ queued' \in Seq(Urbs) /\ ToSet(queued) = ToSet(queued') \cup {u}
  BY <1>1, <1>2, ToSetTail
<1>4. /\ Ordered(queued', UrbOrder) /\ \A x \in ToSet(queued') : <<u, x>> \in UrbOrder
  BY <1>1, <1>2, OrderedTail DEF UrbInv
<1> HIDE DEF u
<1>5. done' \in Seq(Urbs) /\ ToSet(done') = ToSet(done) \cup {u}
  BY <1>1, <1>2, <1>3, AppendProperties, ToSetAppend
<1>6. InUrbs = InUrbs' \cup F
  BY <1>1, <1>3 DEF InUrbs
<1>7. ASSUME NEW f \in F, NEW g \in InUrbs' PROVE f < g
  <2>1. f = buf[u] /\ f # 0
    BY <1>7
  <2>2. PICK x \in ToSet(queued') : g = buf[x] /\ g # 0
    BY <1>1 DEF InUrbs
  <2>3. <<u, x>> \in UrbOrder
    BY <1>4
  <2> QED
    BY <2>1, <2>2, <2>3 DEF UrbOrder
<1>8. InHand' = InHand /\ UrbOrder' = UrbOrder
  BY <1>1 DEF InHand, UrbOrder, Different, Urbs
<1>9. UrbInv'
  <2>1. u \notin ToSet(queued')
    BY <1>4 DEF UrbOrder, Different
  <2>2. \A x \in ToSet(done) : <<x, u>> \in Different
    BY <1>1, <1>2, <1>3, ToSetElements DEF UrbInv, Different
  <2>3. Ordered(done', Different)
    BY <1>1, <1>2, <1>3, <2>2, OrderedAppend DEF UrbInv
  <2>4. ToSet(queued') \cap ToSet(done') = {}
        /\ ToSet(queued') \cup ToSet(done') = ToSet(queued) \cup ToSet(done)
    BY <1>1, <1>3, <1>5, <2>1 DEF UrbInv
  <2>5. thread # "setup"
    BY <1>1 DEF UrbInv
  <2> QED
    BY <1>1, <1>4, <1>8, <2>3, <2>4, <2>5 DEF UrbInv, Different, Urbs
<1> QED
  BY <1>3, <1>5, <1>6, <1>7, <1>8, <1>9 DEF Precede, u

\* The bus takes the first queued URB, whose frame, if it has one, follows
\* every frame aired.
LEMMA BusInv == ASSUME Inv, BusFrame
                PROVE  Inv'
<1> DEFINE u == Head(queued)
           F == {buf[u]} \ {0}
<1>1. /\ UNCHANGED handlerVars
      /\ UNCHANGED <<ring, tx_xruns, thread, i, buf, accepted, lost>>
      /\ aired' = IF buf[u] = 0 THEN aired ELSE Append(aired, buf[u])
      /\ TypeOK /\ OrderInv
  BY DEF BusFrame, Inv
<1>2. buf \in [Urbs -> Nat] /\ aired \in Seq(Nat \ {0})
  BY <1>1 DEF TypeOK
<1>3. /\ u \in Urbs /\ queued' \in Seq(Urbs) /\ done' \in Seq(Urbs) /\ UrbInv'
      /\ InUrbs = InUrbs' \cup F /\ Precede(F, InUrbs') /\ InHand' = InHand
  BY Completion
<1> HIDE DEF u
<1>4. /\ aired' \in Seq(Nat \ {0}) /\ ToSet(aired') = ToSet(aired) \cup F
      /\ Ordered(aired', Less)
  <2>1. CASE buf[u] = 0
    BY <1>1, <1>2, <2>1 DEF OrderInv
  <2>2. CASE buf[u] # 0
    <3>1. buf[u] \in Nat \ {0} /\ aired' = Append(aired, buf[u])
      BY <1>1, <1>2, <1>3, <2>2
    <3>2. \A x \in ToSet(aired) : <<x, buf[u]>> \in Less
      <4>1. \A x \in ToSet(aired) : x \in Nat /\ x < buf[u]
        BY <1>1, <1>2, <1>3, <2>2, ToSetElements DEF OrderInv, Precede
      <4> QED
        BY <3>1, <4>1 DEF Less
    <3>3. Ordered(aired, Less)
      BY <1>1 DEF OrderInv
    <3> DEFINE Frames == Nat \ {0}
               f == buf[u]
    <3>4. aired \in Seq(Frames) /\ f \in Frames /\ aired' = Append(aired, f)
      BY <1>2, <3>1
    <3>5. \A x \in ToSet(aired) : <<x, f>> \in Less
      BY <3>2
    <3> HIDE DEF Frames, f
    <3>6. Append(aired, f) \in Seq(Frames) /\ ToSet(Append(aired, f)) = ToSet(aired) \cup {f}
      BY <3>4, AppendProperties, ToSetAppend
    <3>7. Ordered(Append(aired, f), Less)
      BY <3>3, <3>4, <3>5, OrderedAppend
    <3> QED
      BY <2>2, <3>4, <3>6, <3>7 DEF f, Frames
  <2> QED
    BY <2>1, <2>2
<1>5. TypeOK'
  BY <1>1, <1>3, <1>4 DEF TypeOK, handlerVars
<1>6. OrderInv'
  <2> HIDE DEF F
  <2>1. Precede(ToSet(aired'), InUrbs' \cup InHand \cup ToSet(ring))
    BY <1>1, <1>3, <1>4 DEF OrderInv, Precede
  <2>2. Precede(InUrbs', InHand \cup ToSet(ring))
    BY <1>1, <1>3 DEF OrderInv, Precede
  <2> QED
    BY <1>1, <1>3, <1>4, <2>1, <2>2 DEF OrderInv, Precede
<1>7. FramesAccounted'
  <2>1. thread \notin {"return", "dead"} =>
          1..Len(accepted) = ToSet(aired) \cup ToSet(ring) \cup lost \cup InUrbs \cup InHand
    BY Accounted DEF Inv
  <2> HIDE DEF F
  <2>2. thread \notin {"return", "dead"} =>
          1..Len(accepted) = ToSet(aired') \cup ToSet(ring) \cup lost \cup InUrbs' \cup InHand'
    BY <1>3, <1>4, <2>1
  <2> QED
    BY <1>1, <2>2 DEF FramesAccounted, InUrbs, InHand
<1> QED
  BY <1>1, <1>3, <1>5, <1>6, <1>7, MutexSame DEF Inv

\* An URB completes with an error: its frame is lost, in no queue any more.
LEMMA BusFailsInv == ASSUME Inv, BusFails
                     PROVE  Inv'
<1> DEFINE F == {buf[Head(queued)]} \ {0}
<1>1. /\ UNCHANGED handlerVars
      /\ UNCHANGED <<ring, tx_xruns, thread, i, buf, accepted, aired>>
      /\ lost' = lost \cup F
      /\ TypeOK /\ OrderInv
  BY DEF BusFails, Inv
<1>2. /\ Head(queued) \in Urbs /\ queued' \in Seq(Urbs) /\ done' \in Seq(Urbs) /\ UrbInv'
      /\ InUrbs = InUrbs' \cup F /\ InHand' = InHand
  BY Completion
<1>3. TypeOK'
  <2>1. lost \in SUBSET (Nat \ {0}) /\ buf[Head(queued)] \in Nat
    BY <1>1, <1>2 DEF TypeOK
  <2>2. lost' \in SUBSET (Nat \ {0})
    BY <1>1, <2>1
  <2> QED
    BY <1>1, <1>2, <2>2 DEF TypeOK, handlerVars
<1> HIDE DEF F
<1>4. OrderInv'
  BY <1>1, <1>2 DEF OrderInv, Precede
<1>5. FramesAccounted'
  <2>1. thread \notin {"return", "dead"} =>
          1..Len(accepted) = ToSet(aired) \cup ToSet(ring) \cup lost \cup InUrbs \cup InHand
    BY Accounted DEF Inv
  <2>2. thread \notin {"return", "dead"} =>
          1..Len(accepted) = ToSet(aired) \cup ToSet(ring) \cup lost' \cup InUrbs' \cup InHand'
    BY <1>1, <1>2, <2>1
  <2> QED
    BY <1>1, <2>2 DEF FramesAccounted, InUrbs, InHand
<1> QED
  BY <1>1, <1>2, <1>3, <1>4, <1>5, MutexSame DEF Inv

\* Every step of every actor preserves the invariant.
LEMMA InvNext == Inv /\ [Next]_vars => Inv'
<1> SUFFICES ASSUME Inv, [Next]_vars PROVE Inv'
  OBVIOUS
<1>1. CASE UNCHANGED vars
  <2>1. UNCHANGED <<UrbOrder, Different, InUrbs, InHand>>
    BY <1>1 DEF vars, UrbOrder, Different, Urbs, InUrbs, InHand
  <2>2. TypeOK'
    BY <1>1 DEF vars, Inv, TypeOK
  <2>3. UrbInv' /\ OrderInv'
    BY <1>1, <2>1 DEF vars, Inv, UrbInv, OrderInv, Precede
  <2>4. MutexInv' /\ BatchesContiguous'
    BY <1>1, MutexSame DEF vars, Inv, handlerVars
  <2>5. FramesAccounted'
    BY <1>1 DEF vars, Inv, FramesAccounted
  <2> QED
    BY <2>2, <2>3, <2>4, <2>5 DEF Inv
<1> QED
  BY <1>1, HandlerInv, PushInv, StartStopInv, SubmitInv, ReapInv, FillInv,
     ResubmitFailsInv, BusInv, BusFailsInv DEF Next, Handler, TxThread
-----------------------------------------------------------------------------
\* Types, in particular: no URB index reaches N_URBS and the ring never holds
\* more than RING_CAPACITY frames.
THEOREM TypeCorrect == Spec => []TypeOK
  BY InvInit, InvNext, PTL DEF Spec, Inv

\* For any number of URBs and any ring: tx_thread_main sends no frame twice and
\* none out of order, whichever submissions and packets fail and however often
\* it underruns.
THEOREM AiredInOrder == Spec => []AiredOnceInOrder
<1>1. Inv => AiredOnceInOrder
  <2> SUFFICES ASSUME Inv, NEW j \in 1..Len(aired), NEW k \in 1..Len(aired), j < k
               PROVE  aired[j] < aired[k]
    BY DEF AiredOnceInOrder
  <2>1. <<aired[j], aired[k]>> \in Less
    BY DEF Inv, OrderInv, Ordered
  <2> QED
    BY <2>1 DEF Less
<1> QED
  BY <1>1, InvInit, InvNext, PTL DEF Spec

\* For any number of clients: the producer's mutex keeps the frames of one
\* AudioWrite message together.
THEOREM BatchesStayTogether == Spec => []BatchesContiguous
  BY InvInit, InvNext, PTL DEF Spec, Inv

\* For any number of URBs and any ring: the loop of tx_thread_main drops no
\* accepted frame of its own; the only frames that are neither aired nor on their
\* way are those whose URB could not be submitted or completed with an error.
THEOREM NoFrameDropped == Spec => []FramesAccounted
  BY InvInit, InvNext, PTL DEF Spec, Inv

\* The buffer of an URB that the kernel has, from submit_urb to its completion,
\* is not written: `fill` concerns the reaped URB only, although the thread, the
\* kernel and the handlers that fill the ring go on at their own pace.
KernelBuffersKept == [][\A u \in ToSet(queued) : buf'[u] = buf[u]]_vars

\* tx_thread_main fills no buffer that submit_urb has handed to the kernel
\* (KernelBuffersKept).
THEOREM NoWriteUnderTheKernel == Spec => KernelBuffersKept
<1> DEFINE Kept == \A u \in ToSet(queued) : buf'[u] = buf[u]
<1>1. Inv /\ [Next]_vars => [Kept]_vars
  <2> SUFFICES ASSUME Inv, Next, NEW u \in ToSet(queued) PROVE buf'[u] = buf[u]
    OBVIOUS
  <2>1. CASE Fill
    <3>1. buf \in [Urbs -> Nat] /\ u \in Urbs
      BY ToSetElements DEF Inv, TypeOK
    <3>2. u # i
      BY <2>1 DEF Fill, Inv, UrbInv
    <3> QED
      BY <2>1, <3>1, <3>2 DEF Fill
  <2>2. CASE ~Fill
    BY <2>2 DEF Next, Handler, LockProducer, PushFrame, UnlockProducer, AudioWrite, TxThread, Setup,
                SubmitFirst, SubmitFirstFails, CloseFile, Reap, Resubmit, ResubmitFails, BusFrame,
                BusFails
  <2> QED
    BY <2>1, <2>2
<1>2. Spec => [][Kept]_vars
  BY <1>1, InvInit, InvNext, PTL DEF Spec
<1> QED
  BY <1>2 DEF KernelBuffersKept
================================================================================
