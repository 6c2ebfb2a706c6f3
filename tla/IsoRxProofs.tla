------------------------------ MODULE IsoRxProofs ------------------------------
(***************************************************************************)
(* Proofs about IsoRx for any number of URBs, any capacity of the ring and *)
(* any number of packets: types, FramesInOrder, NothingUncounted, and that *)
(* the kernel writes into no buffer that is still to be copied.            *)
(***************************************************************************)
EXTENDS IsoRx, SequenceTheorems, FiniteSetTheorems, TLAPS

USE RxAssumption

-----------------------------------------------------------------------------
(* Sequences used as queues.                                                *)

\* Appending to a concatenation appends to its last part.
LEMMA ConcatAppend == ASSUME NEW s \in Seq(Nat), NEW t \in Seq(Nat), NEW e \in Nat
                      PROVE  Append(s \o t, e) = s \o Append(t, e)
<1>1. /\ s \o t \in Seq(Nat) /\ Append(t, e) \in Seq(Nat)
  BY ConcatProperties, AppendProperties
<1>2. Append(s \o t, e) \in Seq(Nat) /\ s \o Append(t, e) \in Seq(Nat)
  BY <1>1, ConcatProperties, AppendProperties
<1>3. Len(Append(s \o t, e)) = Len(s \o Append(t, e))
  BY <1>1, ConcatProperties, AppendProperties
<1>4. ASSUME NEW k \in 1..Len(Append(s \o t, e))
      PROVE  Append(s \o t, e)[k] = (s \o Append(t, e))[k]
  BY <1>1, ConcatProperties, AppendProperties
<1> QED
  BY <1>2, <1>3, <1>4, SeqEqual

\* Taking the first element off a sequence.
LEMMA HeadTail == ASSUME NEW S, NEW s \in Seq(S), s # <<>>
                  PROVE  s = <<Head(s)>> \o Tail(s)
  BY SeqEqual, HeadTailProperties, ConcatProperties, <<Head(s)>> \in Seq(S)

\* The elements of a sequence, by position.
LEMMA ToSetElements == ASSUME NEW S, NEW s \in Seq(S)
                       PROVE  /\ \A x \in ToSet(s) : \E j \in 1..Len(s) : x = s[j]
                              /\ \A j \in 1..Len(s) : s[j] \in ToSet(s)
                              /\ ToSet(s) \subseteq S
  BY LenProperties, ElementOfSeq DEF ToSet

\* An empty queue has no elements.
LEMMA ToSetEmpty == ToSet(<<>>) = {}
  BY DEF ToSet

\* The elements of a queue after one is appended.
LEMMA ToSetAppend == ASSUME NEW S, NEW s \in Seq(S), NEW e \in S
                     PROVE  ToSet(Append(s, e)) = ToSet(s) \cup {e}
  BY AppendProperties DEF ToSet

\* Taking the first element off a queue.
LEMMA ToSetTail == ASSUME NEW S, NEW s \in Seq(S), s # <<>>
                   PROVE  /\ ToSet(s) = ToSet(Tail(s)) \cup {Head(s)}
                          /\ Head(s) \in S /\ Tail(s) \in Seq(S)
                          /\ Len(Tail(s)) = Len(s) - 1 /\ Len(s) > 0
                          /\ \A j \in 1..Len(s) - 1 : Tail(s)[j] = s[j + 1]
                          /\ Head(s) = s[1]
<1>1. /\ Head(s) \in S /\ Tail(s) \in Seq(S) /\ Len(Tail(s)) = Len(s) - 1 /\ Len(s) > 0
      /\ \A j \in 1..Len(s) - 1 : Tail(s)[j] = s[j + 1]
      /\ Head(s) = s[1] /\ <<Head(s)>> \in Seq(S)
  BY HeadTailProperties, EmptySeq
<1>2. s = <<Head(s)>> \o Tail(s)
  BY <1>1, SeqEqual, ConcatProperties
<1>3. \A t, u \in Seq(S) : Range(t \o u) = Range(t) \cup Range(u)
  BY RangeConcatenation
<1>4. Range(<<Head(s)>>) = {Head(s)}
  BY DEF Range
<1>5. Range(s) = {Head(s)} \cup Range(Tail(s))
  BY <1>1, <1>2, <1>3, <1>4
<1> QED
  BY <1>1, <1>5 DEF ToSet, Range

\* Every element is related by R to every later one: a queue in increasing
\* order, or without repetitions, according to R.
Ordered(s, R) == \A j, k \in 1..Len(s) : j < k => <<s[j], s[k]>> \in R

\* An empty queue is ordered.
LEMMA OrderedEmpty == ASSUME NEW R PROVE Ordered(<<>>, R)
  BY DEF Ordered

\* A queue stays ordered when an element goes to its end that all others precede.
LEMMA OrderedAppend == ASSUME NEW S, NEW s \in Seq(S), NEW e \in S, NEW R, Ordered(s, R),
                              \A x \in ToSet(s) : <<x, e>> \in R
                       PROVE  Ordered(Append(s, e), R)
  BY AppendProperties, ToSetElements, LenProperties DEF Ordered

\* A queue stays ordered without its first element, which precedes the others.
LEMMA OrderedTail == ASSUME NEW S, NEW s \in Seq(S), s # <<>>, NEW R, Ordered(s, R)
                     PROVE  /\ Ordered(Tail(s), R)
                            /\ \A x \in ToSet(Tail(s)) : <<Head(s), x>> \in R
<1>1. Ordered(Tail(s), R)
  BY ToSetTail, LenProperties DEF Ordered
<1>2. ASSUME NEW x \in ToSet(Tail(s)) PROVE <<Head(s), x>> \in R
  <2>1. Tail(s) \in Seq(S)
    BY ToSetTail
  <2>2. PICK j \in 1..Len(Tail(s)) : x = Tail(s)[j]
    BY <1>2, <2>1, ToSetElements
  <2> QED
    BY <2>2, ToSetTail, LenProperties DEF Ordered
<1> QED
  BY <1>1, <1>2

\* Only the elements of a queue matter for its order.
LEMMA OrderedSame == ASSUME NEW S, NEW s \in Seq(S), NEW R, NEW Q, Ordered(s, R),
                            \A x, y \in ToSet(s) : <<x, y>> \in R => <<x, y>> \in Q
                     PROVE  Ordered(s, Q)
  BY ToSetElements DEF Ordered

-----------------------------------------------------------------------------
(***************************************************************************)
(* The inductive invariant.                                                *)
(*                                                                         *)
(* UrbInv: an URB is in one place at a time, so that the bus never fills a *)
(* buffer that is being copied; the completed ones are in the order of     *)
(* their packets.                                                          *)
(*                                                                         *)
(* OrderInv: the frames popped or in the ring, the packet being copied and *)
(* those completed form one increasing row of packets received, and the    *)
(* next packet follows them all.                                           *)
(***************************************************************************)
Different == {p \in Urbs \X Urbs : p[1] # p[2]}
DoneOrder == {p \in Different : buf[p[1]] < buf[p[2]]}
Less == {p \in Nat \X Nat : p[1] < p[2]}

\* The frames of the dispatch thread and the ring; the packets in the thread's
\* hands and in completed URBs.
Frames == popped \o ring
InHand == IF thread = "copy" THEN {buf[i]} ELSE {}
InDone == {buf[u] : u \in ToSet(done)}

UrbInv ==
  /\ Ordered(queued, Different) /\ Ordered(done, DoneOrder)
  /\ ToSet(queued) \cap ToSet(done) = {}
  /\ thread \in {"copy", "resubmit"} => i \notin ToSet(queued) \cup ToSet(done)
  /\ thread = "setup" => queued = <<>> /\ done = <<>>
  /\ thread = "submit" => \A u \in ToSet(queued) \cup ToSet(done) : u < i

Precede(A, B) == \A a \in A, b \in B : a < b

OrderInv ==
  /\ Ordered(Frames, Less)
  /\ Precede(ToSet(Frames), InHand \cup InDone) /\ Precede(InHand, InDone)
  /\ ToSet(Frames) \subseteq good /\ good \subseteq 1..packet
  /\ InHand \cup InDone \subseteq 1..packet
  /\ thread = "copy" /\ outcome[i] = "ok" => buf[i] \in good
  /\ \A u \in ToSet(done) : outcome[u] = "ok" => buf[u] \in good

Inv == TypeOK /\ UrbInv /\ OrderInv /\ NothingUncounted
-----------------------------------------------------------------------------
\* The completed URBs with data, and the one being copied.
OkDone == {u \in ToSet(done) : outcome[u] = "ok"}
OkHeld == IF thread = "copy" /\ outcome[i] = "ok" THEN 1 ELSE 0

\* What Cardinality is applied to in NothingUncounted is finite.
LEMMA Finite == ASSUME TypeOK, OrderInv
                PROVE  /\ IsFiniteSet(good) /\ Cardinality(good) \in Nat
                       /\ IsFiniteSet(OkDone) /\ Cardinality(OkDone) \in Nat
<1>1. IsFiniteSet(1..packet) /\ good \in SUBSET (1..packet)
  <2>1. packet \in Int /\ good \in SUBSET (1..packet)
    BY DEF TypeOK, OrderInv
  <2> QED
    BY <2>1, FS_Interval
<1>2. IsFiniteSet(Urbs)
  BY FS_Interval, N_URBS - 1 \in Int DEF Urbs
<1>3. OkDone \in SUBSET Urbs
  BY ToSetElements DEF TypeOK, OkDone
<1> QED
  BY <1>1, <1>2, <1>3, FS_Subset, FS_CardinalityType

\* NothingUncounted in the words of the invariant.
LEMMA Counted == ASSUME TypeOK
                 PROVE  NothingUncounted <=>
                          (thread # "dead" =>
                             Cardinality(good) = Len(popped) + Len(ring) + rx_xruns
                                                   + Cardinality(OkDone) + OkHeld)
  BY DEF NothingUncounted, OkDone, OkHeld

\* The invariant holds when the program starts.
LEMMA InvInit == Init => Inv
<1> SUFFICES ASSUME Init PROVE Inv
  OBVIOUS
<1>1. TypeOK
  BY DEF Init, TypeOK, Urbs, Outcomes
<1>2. /\ ToSet(queued) = {} /\ ToSet(done) = {}
      /\ Frames = <<>> /\ ToSet(Frames) = {} /\ InHand = {} /\ InDone = {} /\ OkDone = {}
  <2>1. Frames = <<>>
    BY DEF Init, Frames
  <2> QED
    BY <2>1, ToSetEmpty DEF Init, InHand, InDone, OkDone
<1>3. UrbInv
  BY <1>2, OrderedEmpty DEF Init, UrbInv
<1>4. OrderInv
  BY <1>2, OrderedEmpty DEF Init, OrderInv, Precede
<1>5. NothingUncounted
  BY <1>1, <1>2, Counted, FS_EmptySet DEF Init, OkHeld
<1> QED
  BY <1>1, <1>3, <1>4, <1>5 DEF Inv

\* Starting, failing to start and closing the file.
LEMMA StartStopInv == ASSUME Inv, SetupOk \/ SetupFails \/ SubmitFirstFails \/ CloseFile
                      PROVE  Inv'
<1>1. /\ UNCHANGED <<i, buf, outcome, ring, rx_xruns, packet, good, popped, dropped>>
      /\ thread \in {"setup", "submit", "return"} /\ thread' \in {"submit", "return", "dead"}
      /\ thread' = "submit" => thread = "setup"
      /\ TypeOK /\ UrbInv /\ OrderInv
  BY DEF SetupOk, SetupFails, SubmitFirstFails, CloseFile, Inv
<1>2. /\ UNCHANGED <<Frames, DoneOrder>> /\ InHand = {} /\ InHand' = {}
  BY <1>1 DEF Frames, DoneOrder, Different, Urbs, InHand
<1>3. CASE SetupOk \/ SetupFails \/ SubmitFirstFails
  <2>1. UNCHANGED <<queued, done>> /\ InDone' = InDone
    BY <1>1, <1>3 DEF SetupOk, SetupFails, SubmitFirstFails, InDone
  <2>2. TypeOK'
    BY <1>1, <2>1 DEF TypeOK
  <2>3. UrbInv'
    <3>1. thread = "setup" => ToSet(queued) = {} /\ ToSet(done) = {}
      BY <1>1, ToSetEmpty DEF UrbInv
    <3> QED
      BY <1>1, <1>2, <2>1, <3>1 DEF UrbInv, Different, Urbs
  <2>4. OrderInv'
    BY <1>1, <1>2, <2>1 DEF OrderInv, Precede
  <2>5. NothingUncounted'
    BY <1>1, <2>1 DEF Inv, NothingUncounted
  <2> QED
    BY <2>2, <2>3, <2>4, <2>5 DEF Inv
<1>4. CASE CloseFile
  <2>1. queued' = <<>> /\ done' = <<>> /\ thread' = "dead"
    BY <1>4 DEF CloseFile
  <2>2. ToSet(queued') = {} /\ ToSet(done') = {} /\ InDone' = {}
    BY <2>1, ToSetEmpty DEF InDone
  <2>3. TypeOK'
    BY <1>1, <2>1 DEF TypeOK
  <2>4. UrbInv'
    BY <2>1, <2>2, OrderedEmpty DEF UrbInv
  <2>5. OrderInv'
    BY <1>1, <1>2, <2>1, <2>2 DEF OrderInv, Precede
  <2>6. NothingUncounted'
    BY <2>1 DEF NothingUncounted
  <2> QED
    BY <2>3, <2>4, <2>5, <2>6 DEF Inv
<1> QED
  BY <1>3, <1>4

\* The URB in the thread's hands goes to the end of the queue, or is lost.
LEMMA SubmitInv == ASSUME Inv, SubmitFirst \/ Resubmit \/ ResubmitFails
                   PROVE  Inv'
<1>1. /\ UNCHANGED <<done, buf, outcome, ring, rx_xruns, packet, good, popped, dropped>>
      /\ thread \in {"submit", "resubmit"} /\ thread' \in {"submit", "reap"}
      /\ queued' = Append(queued, i) \/ (queued' = queued /\ thread' = "reap")
      /\ TypeOK /\ UrbInv /\ OrderInv
  BY DEF SubmitFirst, Resubmit, ResubmitFails, Inv
<1>2. queued \in Seq(Urbs) /\ i \in Urbs /\ ToSet(queued) \subseteq Urbs /\ ToSet(done) \subseteq Urbs
  BY <1>1, ToSetElements DEF TypeOK
<1>3. i \notin ToSet(queued) \cup ToSet(done)
  BY <1>1, <1>2 DEF UrbInv, Urbs
<1>4. /\ queued' \in Seq(Urbs) /\ Ordered(queued', Different)
      /\ ToSet(queued') \subseteq ToSet(queued) \cup {i}
  <2>1. CASE queued' = queued
    BY <1>1, <1>2, <2>1 DEF UrbInv
  <2>2. CASE queued' = Append(queued, i)
    <3>1. \A x \in ToSet(queued) : <<x, i>> \in Different
      BY <1>2, <1>3 DEF Different
    <3>2. Ordered(queued, Different)
      BY <1>1 DEF UrbInv
    <3> QED
      BY <1>2, <2>2, <3>1, <3>2, AppendProperties, ToSetAppend, OrderedAppend
  <2> QED
    BY <1>1, <2>1, <2>2
<1>5. /\ UNCHANGED <<Frames, DoneOrder, InDone>> /\ InHand = {} /\ InHand' = {}
  BY <1>1 DEF Frames, DoneOrder, Different, Urbs, InHand, InDone
<1>6. i' \in Urbs /\ (thread' = "submit" => thread = "submit" /\ i' = i + 1)
  BY <1>2 DEF SubmitFirst, Resubmit, ResubmitFails, Urbs
<1>7. TypeOK'
  BY <1>1, <1>4, <1>6 DEF TypeOK
<1>8. UrbInv'
  <2>1. ToSet(queued') \cap ToSet(done) = {}
    BY <1>1, <1>3, <1>4 DEF UrbInv
  <2>2. thread' = "submit" => \A u \in ToSet(queued') \cup ToSet(done) : u < i'
    <3> SUFFICES ASSUME thread' = "submit", NEW u \in ToSet(queued) \cup ToSet(done) \cup {i}
                 PROVE  u < i'
      BY <1>4
    <3>1. u \in Int /\ i \in Int /\ (u < i \/ u = i)
      BY <1>1, <1>2, <1>6 DEF UrbInv, Urbs
    <3> QED
      BY <1>6, <3>1
  <2> QED
    BY <1>1, <1>4, <1>5, <2>1, <2>2 DEF UrbInv, Different, Urbs
<1>9. OrderInv'
  BY <1>1, <1>5 DEF OrderInv, Precede
<1>10. NothingUncounted'
  BY <1>1 DEF Inv, NothingUncounted
<1> QED
  BY <1>7, <1>8, <1>9, <1>10 DEF Inv

\* Reaping takes the URB completed first, whose packet precedes those of the
\* others, into the thread's hands.
LEMMA ReapInv == ASSUME Inv, Reap
                 PROVE  Inv'
<1>1. /\ UNCHANGED <<queued, buf, outcome, ring, rx_xruns, packet, good, popped, dropped>>
      /\ thread = "reap" /\ thread' = "copy" /\ done # <<>>
      /\ i' = Head(done) /\ done' = Tail(done)
      /\ TypeOK /\ UrbInv /\ OrderInv
  BY DEF Reap, Inv
<1>2. done \in Seq(Urbs) /\ buf \in [Urbs -> Nat] /\ ToSet(done) \subseteq Urbs
  BY <1>1, ToSetElements DEF TypeOK
<1>3. /\ done' \in Seq(Urbs) /\ i' \in Urbs /\ ToSet(done) = ToSet(done') \cup {i'}
  BY <1>1, <1>2, ToSetTail
<1>4. Ordered(done', DoneOrder) /\ \A x \in ToSet(done') : <<i', x>> \in DoneOrder
  BY <1>1, <1>2, OrderedTail DEF UrbInv
<1>5. i' \notin ToSet(done') /\ \A x \in ToSet(done') : buf[i'] < buf[x]
  BY <1>4 DEF DoneOrder, Different
<1>6. UNCHANGED <<DoneOrder, Frames>> /\ InHand = {} /\ InHand' = {buf[i']}
      /\ InDone = InDone' \cup {buf[i']}
  <2>1. UNCHANGED <<DoneOrder, Frames>> /\ InHand = {} /\ InHand' = {buf[i']}
    BY <1>1 DEF DoneOrder, Different, Urbs, Frames, InHand
  <2>2. InDone = InDone' \cup {buf[i']}
    BY <1>1, <1>3 DEF InDone
  <2> QED
    BY <2>1, <2>2
<1>7. TypeOK'
  BY <1>1, <1>3 DEF TypeOK
<1>8. UrbInv'
  BY <1>1, <1>3, <1>4, <1>5, <1>6 DEF UrbInv, Different, Urbs
<1>9. OrderInv'
  <2>1. Precede(InHand', InDone')
    BY <1>1, <1>5, <1>6 DEF Precede, InDone
  <2>2. Precede(ToSet(Frames), InHand' \cup InDone') /\ InHand' \cup InDone' \subseteq 1..packet
    BY <1>1, <1>6 DEF OrderInv, Precede
  <2>3. /\ outcome[i'] = "ok" => buf[i'] \in good
        /\ \A u \in ToSet(done') : outcome[u] = "ok" => buf[u] \in good
    BY <1>1, <1>3 DEF OrderInv
  <2> QED
    BY <1>1, <1>6, <2>1, <2>2, <2>3 DEF OrderInv, Precede
<1>10. NothingUncounted'
  <2>1. /\ IsFiniteSet(OkDone) /\ Cardinality(OkDone) \in Nat
    BY <1>1, Finite
  <2>2. OkDone' = OkDone \ {i'} /\ OkHeld = 0
        /\ OkHeld' = IF i' \in OkDone THEN 1 ELSE 0
    BY <1>1, <1>3, <1>5 DEF OkDone, OkHeld
  <2>3. Cardinality(OkDone') + OkHeld' = Cardinality(OkDone) + OkHeld
    <3>1. Cardinality(OkDone \ {i'})
            = IF i' \in OkDone THEN Cardinality(OkDone) - 1 ELSE Cardinality(OkDone)
      BY <2>1, FS_RemoveElement
    <3> QED
      BY <2>1, <2>2, <3>1
  <2>4. /\ Cardinality(OkDone') \in Nat /\ OkHeld' \in Nat
        /\ Cardinality(good) \in Nat /\ Len(popped) \in Nat /\ Len(ring) \in Nat /\ rx_xruns \in Nat
    <3>1. IsFiniteSet(OkDone \ {i'})
      BY <2>1, FS_RemoveElement
    <3>2. Cardinality(OkDone') \in Nat
      BY <2>2, <3>1, FS_CardinalityType
    <3>3. Cardinality(good) \in Nat
      BY <1>1, Finite
    <3> QED
      BY <1>1, <2>2, <3>2, <3>3 DEF TypeOK
  <2>5. Cardinality(good) = Len(popped) + Len(ring) + rx_xruns + Cardinality(OkDone) + OkHeld
    BY <1>1, Counted DEF Inv
  <2>6. Cardinality(good) = Len(popped) + Len(ring) + rx_xruns + Cardinality(OkDone') + OkHeld'
    BY <2>1, <2>2, <2>3, <2>4, <2>5
  <2> QED
    BY <1>1, <2>6 DEF NothingUncounted, OkDone, OkHeld
<1> QED
  BY <1>7, <1>8, <1>9, <1>10 DEF Inv

\* The packet in the thread's hands goes to the ring, is counted as an xrun, or
\* carried no data.
LEMMA CopyInv == ASSUME Inv, Copy
                 PROVE  Inv'
<1>1. /\ UNCHANGED <<i, queued, done, buf, outcome, packet, good, popped>>
      /\ thread = "copy" /\ thread' = "resubmit"
      /\ TypeOK /\ UrbInv /\ OrderInv
  BY DEF Copy, Inv
<1>2. /\ i \in Urbs /\ buf[i] \in Nat /\ popped \in Seq(Nat) /\ ring \in Seq(Nat)
      /\ Frames \in Seq(Nat) /\ Len(popped) \in Nat /\ Len(ring) \in Nat /\ rx_xruns \in Nat
  <2>1. /\ i \in Urbs /\ buf[i] \in Nat /\ popped \in Seq(Nat) /\ ring \in Seq(Nat)
        /\ rx_xruns \in Nat
    BY <1>1 DEF TypeOK
  <2> QED
    BY <2>1, ConcatProperties, LenProperties DEF Frames
<1>3. /\ InHand = {buf[i]} /\ InHand' = {} /\ UNCHANGED <<InDone, DoneOrder, OkDone>>
      /\ OkHeld' = 0
  BY <1>1 DEF InHand, InDone, DoneOrder, Different, Urbs, OkDone, OkHeld
<1>4. UrbInv'
  BY <1>1, <1>3 DEF UrbInv, Different, Urbs
<1>5. Cardinality(good) \in Nat /\ Cardinality(OkDone) \in Nat
      /\ Cardinality(good) = Len(popped) + Len(ring) + rx_xruns + Cardinality(OkDone) + OkHeld
  BY <1>1, Finite, Counted DEF Inv
<1>6. CASE ring' = Append(ring, buf[i])
  <2>1. outcome[i] = "ok" /\ Len(ring) < RING_CAPACITY /\ UNCHANGED <<rx_xruns, dropped>>
    <3>1. \/ outcome[i] # "ok" /\ ring' = ring
          \/ outcome[i] = "ok" /\ Len(ring) < RING_CAPACITY /\ UNCHANGED <<rx_xruns, dropped>>
          \/ ring' = ring
      BY DEF Copy
    <3>2. ring' # ring
      BY <1>2, <1>6, AppendProperties
    <3> QED
      BY <3>1, <3>2
  <2>2. ring' \in Seq(Nat) /\ Len(ring') = Len(ring) + 1
    BY <1>2, <1>6, AppendProperties
  <2>3. TypeOK'
    <3>1. Len(ring') <= RING_CAPACITY
      BY <1>2, <2>1, <2>2
    <3> QED
      BY <1>1, <2>1, <2>2, <3>1 DEF TypeOK
  <2>4. Frames' = Append(Frames, buf[i])
    <3>1. Append(popped \o ring, buf[i]) = popped \o Append(ring, buf[i])
      BY <1>2, ConcatAppend
    <3> QED
      BY <1>1, <1>6, <3>1 DEF Frames
  <2>5. ToSet(Frames') = ToSet(Frames) \cup {buf[i]}
    BY <1>2, <2>4, ToSetAppend
  <2>6. Ordered(Frames', Less)
    <3>1. \A x \in ToSet(Frames) : x \in Nat /\ x < buf[i]
      BY <1>1, <1>2, <1>3, ToSetElements DEF OrderInv, Precede
    <3>2. \A x \in ToSet(Frames) : <<x, buf[i]>> \in Less
      BY <1>2, <3>1 DEF Less
    <3>3. Ordered(Frames, Less)
      BY <1>1 DEF OrderInv
    <3> QED
      BY <1>2, <2>4, <3>2, <3>3, OrderedAppend
  <2>7. OrderInv'
    <3>1. Precede(ToSet(Frames'), InDone)
      BY <1>1, <1>3, <2>5 DEF OrderInv, Precede
    <3>2. ToSet(Frames') \subseteq good
      BY <1>1, <2>1, <2>5 DEF OrderInv
    <3> QED
      BY <1>1, <1>3, <2>6, <3>1, <3>2 DEF OrderInv, Precede
  <2>8. NothingUncounted'
    <3>1. OkHeld = 1
      BY <1>1, <2>1 DEF OkHeld
    <3>2. Cardinality(good) = Len(popped) + Len(ring') + rx_xruns' + Cardinality(OkDone) + 0
      BY <1>2, <1>5, <2>1, <2>2, <3>1
    <3> QED
      BY <1>1, <1>3, <3>2 DEF NothingUncounted, OkDone, OkHeld
  <2> QED
    BY <1>4, <2>3, <2>7, <2>8 DEF Inv
<1>7. CASE ring' = ring
  <2>1. \/ outcome[i] # "ok" /\ UNCHANGED <<rx_xruns, dropped>>
        \/ /\ outcome[i] = "ok" /\ rx_xruns' = rx_xruns + 1
           /\ dropped' = dropped \cup {buf[i]}
    <3>1. Append(ring, buf[i]) # ring
      BY <1>2, AppendProperties
    <3> QED
      BY <1>7, <3>1 DEF Copy
  <2>2. TypeOK'
    <3>1. rx_xruns' \in Nat /\ dropped' \in SUBSET Nat
      <4>1. rx_xruns \in Nat /\ dropped \in SUBSET Nat
        BY <1>1 DEF TypeOK
      <4>2. dropped \cup {buf[i]} \in SUBSET Nat
        BY <1>2, <4>1
      <4>3. rx_xruns + 1 \in Nat
        BY <4>1
      <4> QED
        BY <2>1, <4>1, <4>2, <4>3
    <3> QED
      BY <1>1, <1>7, <3>1 DEF TypeOK
  <2>3. UNCHANGED Frames
    BY <1>1, <1>7 DEF Frames
  <2>4. OrderInv'
    BY <1>1, <1>3, <2>3 DEF OrderInv, Precede
  <2>5. NothingUncounted'
    <3>1. rx_xruns' = rx_xruns + OkHeld
      BY <1>1, <1>2, <2>1 DEF OkHeld
    <3>2. OkHeld \in Nat
      BY DEF OkHeld
    <3>3. Cardinality(good) = Len(popped) + Len(ring) + rx_xruns' + Cardinality(OkDone) + 0
      BY <1>2, <1>5, <3>1, <3>2
    <3> QED
      BY <1>1, <1>3, <1>7, <3>3 DEF NothingUncounted, OkDone, OkHeld
  <2> QED
    BY <1>4, <2>2, <2>4, <2>5 DEF Inv
<1> QED
  BY <1>6, <1>7 DEF Copy

\* The dispatch thread takes the first frame of the ring: the row of frames is
\* the same.
LEMMA PopInv == ASSUME Inv, Pop
                PROVE  Inv'
<1>1. /\ UNCHANGED <<thread, i, queued, done, buf, outcome, rx_xruns, packet, good, dropped>>
      /\ ring # <<>> /\ popped' = Append(popped, Head(ring)) /\ ring' = Tail(ring)
      /\ TypeOK /\ UrbInv /\ OrderInv
  BY DEF Pop, Inv
<1>2. popped \in Seq(Nat) /\ ring \in Seq(Nat) /\ Len(ring) <= RING_CAPACITY
  BY <1>1 DEF TypeOK
<1>3. /\ Head(ring) \in Nat /\ ring' \in Seq(Nat) /\ Len(ring') = Len(ring) - 1
      /\ ring = <<Head(ring)>> \o Tail(ring)
  BY <1>1, <1>2, ToSetTail, HeadTail
<1>4. popped' \in Seq(Nat) /\ Len(popped') = Len(popped) + 1
      /\ popped' = popped \o <<Head(ring)>>
  BY <1>1, <1>2, <1>3, AppendProperties, AppendIsConcat
<1>5. Frames' = Frames
  <2>1. <<Head(ring)>> \in Seq(Nat) /\ Tail(ring) \in Seq(Nat)
    BY <1>1, <1>3
  <2>2. popped \o (<<Head(ring)>> \o Tail(ring)) = (popped \o <<Head(ring)>>) \o Tail(ring)
    <3>1. \A s, t, u \in Seq(Nat) : (s \o t) \o u = s \o (t \o u)
      BY ConcatAssociative
    <3> QED
      BY <1>2, <2>1, <3>1
  <2> QED
    BY <1>1, <1>3, <1>4, <2>2 DEF Frames
<1>6. UNCHANGED <<InHand, InDone, DoneOrder, OkDone, OkHeld>>
  BY <1>1 DEF InHand, InDone, DoneOrder, Different, Urbs, OkDone, OkHeld
<1>7. TypeOK'
  <2>1. Len(ring') <= RING_CAPACITY
    BY <1>2, <1>3
  <2> QED
    BY <1>1, <1>3, <1>4, <2>1 DEF TypeOK
<1>8. UrbInv'
  BY <1>1, <1>6 DEF UrbInv, Different, Urbs
<1>9. OrderInv'
  BY <1>1, <1>5, <1>6 DEF OrderInv, Precede
<1>10. NothingUncounted'
  <2>1. Len(popped') + Len(ring') = Len(popped) + Len(ring)
    BY <1>2, <1>3, <1>4
  <2> QED
    BY <1>1, <2>1 DEF Inv, NothingUncounted
<1> QED
  BY <1>7, <1>8, <1>9, <1>10 DEF Inv

\* A packet completes the first queued URB, which nobody else has, and follows
\* all earlier ones; or it finds no URB.
LEMMA BusInv == ASSUME Inv, NEW o \in Outcomes, BusPacket(o)
                PROVE  Inv'
<1>1. /\ UNCHANGED <<thread, i, ring, rx_xruns, popped, dropped>> /\ packet' = packet + 1
      /\ TypeOK /\ UrbInv /\ OrderInv /\ packet \in Nat /\ UNCHANGED Frames
  BY DEF BusPacket, Inv, TypeOK, Frames
<1>2. CASE queued = <<>>
  <2>1. UNCHANGED <<queued, done, buf, outcome, good>>
    BY <1>2 DEF BusPacket
  <2>2. UNCHANGED <<InHand, InDone, DoneOrder>>
    BY <1>1, <2>1 DEF InHand, InDone, DoneOrder, Different, Urbs
  <2>3. TypeOK'
    BY <1>1, <2>1 DEF TypeOK
  <2>4. UrbInv'
    BY <1>1, <2>1, <2>2 DEF UrbInv, Different, Urbs
  <2>5. OrderInv'
    <3>1. 1..packet \subseteq 1..packet'
      BY <1>1
    <3> QED
      BY <1>1, <2>1, <2>2, <3>1 DEF OrderInv, Precede
  <2>6. NothingUncounted'
    BY <1>1, <2>1 DEF Inv, NothingUncounted
  <2> QED
    BY <2>3, <2>4, <2>5, <2>6 DEF Inv
<1>3. CASE queued # <<>>
  <2> DEFINE u == Head(queued)
             new == packet + 1
  <2>1. /\ queued' = Tail(queued) /\ done' = Append(done, u)
        /\ buf' = [buf EXCEPT ![u] = new] /\ outcome' = [outcome EXCEPT ![u] = o]
        /\ good' = IF o = "ok" THEN good \cup {new} ELSE good
    BY <1>3 DEF BusPacket
  <2>2. /\ queued \in Seq(Urbs) /\ done \in Seq(Urbs) /\ buf \in [Urbs -> Nat]
        /\ outcome \in [Urbs -> Outcomes] /\ i \in Urbs /\ ToSet(done) \subseteq Urbs
    BY <1>1, ToSetElements DEF TypeOK
  <2>3. u \in Urbs /\ queued' \in Seq(Urbs) /\ ToSet(queued) = ToSet(queued') \cup {u}
    BY <1>3, <2>1, <2>2, ToSetTail
  <2>4. Ordered(queued', Different) /\ \A x \in ToSet(queued') : <<u, x>> \in Different
    BY <1>1, <1>3, <2>1, <2>2, OrderedTail DEF UrbInv
  <2> HIDE DEF u
  <2>5. done' \in Seq(Urbs) /\ ToSet(done') = ToSet(done) \cup {u}
    BY <2>1, <2>2, <2>3, AppendProperties, ToSetAppend
  <2>6. /\ buf' \in [Urbs -> Nat] /\ outcome' \in [Urbs -> Outcomes]
        /\ buf'[u] = new /\ outcome'[u] = o
        /\ \A v \in Urbs : v # u => buf'[v] = buf[v] /\ outcome'[v] = outcome[v]
    BY <1>1, <2>1, <2>2, <2>3
  <2>7. /\ u \notin ToSet(done) /\ u \notin ToSet(queued')
        /\ thread = "copy" => i # u
    <3>1. u \notin ToSet(done) /\ (thread = "copy" => i # u)
      BY <1>1, <2>3 DEF UrbInv
    <3> QED
      BY <2>4, <3>1 DEF Different
  <2>8. InHand' = InHand /\ InDone' = InDone \cup {new}
    <3>1. InHand' = InHand
      BY <1>1, <2>2, <2>6, <2>7 DEF InHand
    <3>2. \A v \in ToSet(done) : buf'[v] = buf[v]
      BY <2>2, <2>6, <2>7
    <3>3. InDone' = InDone \cup {new}
      BY <2>5, <2>6, <3>2 DEF InDone
    <3> QED
      BY <3>1, <3>3
  <2>9. /\ good \subseteq 1..packet /\ InHand \cup InDone \subseteq 1..packet
        /\ \A x \in 1..packet : x < new
    BY <1>1 DEF OrderInv
  <2>10. TypeOK'
    <3>1. good' \in SUBSET Nat /\ packet' \in Nat
      BY <1>1, <2>1 DEF TypeOK
    <3> QED
      BY <1>1, <2>3, <2>5, <2>6, <3>1 DEF TypeOK
  <2>11. UrbInv'
    <3>1. Ordered(done, DoneOrder')
      <4>1. ASSUME NEW x \in ToSet(done), NEW y \in ToSet(done), <<x, y>> \in DoneOrder
            PROVE  <<x, y>> \in DoneOrder'
        <5>1. x \in Urbs /\ y \in Urbs /\ buf'[x] = buf[x] /\ buf'[y] = buf[y]
          BY <2>2, <2>6, <2>7
        <5> QED
          BY <4>1, <5>1 DEF DoneOrder, Different, Urbs
      <4> QED
        BY <1>1, <2>2, <4>1, OrderedSame DEF UrbInv
    <3>2. \A x \in ToSet(done) : <<x, u>> \in DoneOrder'
      <4> SUFFICES ASSUME NEW x \in ToSet(done) PROVE <<x, u>> \in DoneOrder'
        OBVIOUS
      <4>1. x \in Urbs /\ x # u /\ buf'[x] = buf[x] /\ buf[x] \in InDone
        BY <2>2, <2>6, <2>7 DEF InDone
      <4>2. buf'[x] < buf'[u]
        BY <2>6, <2>9, <4>1
      <4> QED
        BY <2>3, <4>1, <4>2 DEF DoneOrder, Different, Urbs
    <3>3. Ordered(done', DoneOrder')
      BY <2>1, <2>2, <2>3, <3>1, <3>2, OrderedAppend
    <3>4. /\ ToSet(queued') \cap ToSet(done') = {}
          /\ ToSet(queued') \cup ToSet(done') = ToSet(queued) \cup ToSet(done)
      BY <1>1, <2>3, <2>5, <2>7 DEF UrbInv
    <3>5. thread # "setup"
      BY <1>1, <1>3 DEF UrbInv
    <3> QED
      BY <1>1, <2>4, <3>3, <3>4, <3>5 DEF UrbInv, Different, Urbs
  <2>12. OrderInv'
    <3>1. ToSet(Frames) \subseteq 1..packet
      BY <1>1 DEF OrderInv
    <3>2. Precede(ToSet(Frames), InHand \cup InDone') /\ Precede(InHand, InDone')
      BY <1>1, <2>8, <2>9, <3>1 DEF OrderInv, Precede
    <3>3. 1..packet' = 1..packet \cup {new}
      BY <1>1
    <3>4. good \subseteq good' /\ good' \subseteq 1..packet'
          /\ InHand' \cup InDone' \subseteq 1..packet'
      BY <2>1, <2>8, <2>9, <3>3
    <3>5. ToSet(Frames) \subseteq good' /\ Ordered(Frames, Less)
      BY <1>1, <3>4 DEF OrderInv
    <3>6. thread' = "copy" /\ outcome'[i'] = "ok" => buf'[i'] \in good'
      BY <1>1, <2>2, <2>6, <2>7, <3>4 DEF OrderInv
    <3>7. ASSUME NEW v \in ToSet(done'), outcome'[v] = "ok" PROVE buf'[v] \in good'
      <4>1. CASE v = u
        BY <2>1, <2>6, <3>7, <4>1
      <4>2. CASE v \in ToSet(done)
        <5>1. v \in Urbs /\ buf'[v] = buf[v] /\ outcome'[v] = outcome[v]
          BY <2>2, <2>6, <2>7, <4>2
        <5> QED
          BY <1>1, <3>4, <3>7, <4>2, <5>1 DEF OrderInv
      <4> QED
        BY <2>5, <4>1, <4>2
    <3> QED
      BY <1>1, <2>8, <3>2, <3>4, <3>5, <3>6, <3>7 DEF OrderInv, Precede
  <2>13. NothingUncounted'
    <3>1. /\ IsFiniteSet(good) /\ Cardinality(good) \in Nat
          /\ IsFiniteSet(OkDone) /\ Cardinality(OkDone) \in Nat
      BY <1>1, Finite
    <3>2. u \notin OkDone /\ new \notin good
      BY <1>1, <2>7, <2>9 DEF OkDone
    <3>3. OkDone' = IF o = "ok" THEN OkDone \cup {u} ELSE OkDone
      <4>1. \A v \in ToSet(done) : outcome'[v] = outcome[v]
        BY <2>2, <2>6, <2>7
      <4> QED
        BY <2>5, <2>6, <4>1 DEF OkDone
    <3>4. OkHeld' = OkHeld /\ OkHeld \in Nat
      BY <1>1, <2>2, <2>6, <2>7 DEF OkHeld
    <3> DEFINE more == IF o = "ok" THEN 1 ELSE 0
    <3>5. /\ Cardinality(good') = Cardinality(good) + more
          /\ Cardinality(OkDone') = Cardinality(OkDone) + more
      <4>1. Cardinality(good \cup {new}) = Cardinality(good) + 1
        BY <3>1, <3>2, FS_AddElement
      <4>2. Cardinality(OkDone \cup {u}) = Cardinality(OkDone) + 1
        BY <3>1, <3>2, FS_AddElement
      <4> QED
        BY <2>1, <3>1, <3>3, <4>1, <4>2
    <3>6. more \in Nat
      OBVIOUS
    <3> HIDE DEF more
    <3>7. thread # "dead" =>
            Cardinality(good) = Len(popped) + Len(ring) + rx_xruns + Cardinality(OkDone) + OkHeld
      BY <1>1, Counted DEF Inv
    <3>8. Len(popped) \in Nat /\ Len(ring) \in Nat /\ rx_xruns \in Nat
      BY <1>1 DEF TypeOK
    <3>9. thread # "dead" =>
            Cardinality(good') = Len(popped) + Len(ring) + rx_xruns + Cardinality(OkDone') + OkHeld'
      BY <3>1, <3>4, <3>5, <3>6, <3>7, <3>8
    <3> QED
      BY <1>1, <3>9 DEF NothingUncounted, OkDone, OkHeld
  <2> QED
    BY <2>10, <2>11, <2>12, <2>13 DEF Inv
<1> QED
  BY <1>2, <1>3

\* Every step of every actor preserves the invariant.
LEMMA InvNext == Inv /\ [Next]_vars => Inv'
<1> SUFFICES ASSUME Inv, [Next]_vars PROVE Inv'
  OBVIOUS
<1>1. CASE UNCHANGED vars
  <2>1. UNCHANGED <<Different, DoneOrder, Frames, InHand, InDone>>
    BY <1>1 DEF vars, Different, Urbs, DoneOrder, Frames, InHand, InDone
  <2>2. TypeOK'
    BY <1>1 DEF vars, Inv, TypeOK
  <2>3. UrbInv' /\ OrderInv'
    BY <1>1, <2>1 DEF vars, Inv, UrbInv, OrderInv, Precede
  <2>4. NothingUncounted'
    BY <1>1 DEF vars, Inv, NothingUncounted
  <2> QED
    BY <2>2, <2>3, <2>4 DEF Inv
<1> QED
  BY <1>1, StartStopInv, SubmitInv, ReapInv, CopyInv, PopInv, BusInv DEF Next, RxThread
-----------------------------------------------------------------------------
\* Types, in particular: no URB index reaches N_URBS and the ring never holds
\* more than RING_CAPACITY frames.
THEOREM TypeCorrect == Spec => []TypeOK
  BY InvInit, InvNext, PTL DEF Spec, Inv

\* For any number of URBs, any ring and any packets: rx_thread_main hands on
\* the packets received with data in order, none twice, whichever submissions fail.
THEOREM ReceivedInOrder == Spec => []FramesInOrder
<1>1. Inv => FramesInOrder
  <2> SUFFICES ASSUME Inv PROVE FramesInOrder
    OBVIOUS
  <2>1. ASSUME NEW j \in 1..Len(Frames), NEW k \in 1..Len(Frames), j < k
        PROVE  Frames[j] < Frames[k]
    <3>1. <<Frames[j], Frames[k]>> \in Less
      BY <2>1 DEF Inv, OrderInv, Ordered
    <3> QED
      BY <3>1 DEF Less
  <2>2. ToSet(Frames) \subseteq good
    BY DEF Inv, OrderInv
  <2> QED
    BY <2>1, <2>2 DEF FramesInOrder, Frames
<1> QED
  BY <1>1, InvInit, InvNext, PTL DEF Spec

\* For any number of URBs, any ring and any packets: until its file is closed
\* rx_thread_main drops no packet with data that rx_xruns does not count.
THEOREM NoFrameUncounted == Spec => []NothingUncounted
  BY InvInit, InvNext, PTL DEF Spec, Inv

\* The kernel does not write into the buffer of an URB that it has completed,
\* from the completion until submit_urb gives the URB back to it: what the
\* thread copies is the packet that was received.
CompletedBuffersKept ==
  [][\A u \in ToSet(done) \cup (IF thread \in {"copy", "resubmit"} THEN {i} ELSE {}) :
       buf'[u] = buf[u] /\ outcome'[u] = outcome[u]]_vars

\* rx_thread_main copies from no buffer that the kernel may fill meanwhile
\* (CompletedBuffersKept).
THEOREM NoWriteUnderTheThread == Spec => CompletedBuffersKept
<1> DEFINE Held == ToSet(done) \cup (IF thread \in {"copy", "resubmit"} THEN {i} ELSE {})
           Kept == \A u \in Held : buf'[u] = buf[u] /\ outcome'[u] = outcome[u]
<1>1. Inv /\ [Next]_vars => [Kept]_vars
  <2> SUFFICES ASSUME Inv, Next, NEW u \in Held PROVE buf'[u] = buf[u] /\ outcome'[u] = outcome[u]
    OBVIOUS
  <2>1. CASE \E o \in Outcomes : BusPacket(o) /\ queued # <<>>
    <3>1. PICK o \in Outcomes : BusPacket(o) /\ queued # <<>>
      BY <2>1
    <3>2. /\ buf' = [buf EXCEPT ![Head(queued)] = packet + 1]
          /\ outcome' = [outcome EXCEPT ![Head(queued)] = o]
      BY <3>1 DEF BusPacket
    <3>3. queued \in Seq(Urbs) /\ done \in Seq(Urbs) /\ i \in Urbs
      BY DEF Inv, TypeOK
    <3>4. Head(queued) \in ToSet(queued)
      BY <3>1, <3>3, ToSetTail
    <3>5. u \notin ToSet(queued)
      BY DEF Inv, UrbInv
    <3>6. u \in Urbs /\ buf \in [Urbs -> Nat] /\ outcome \in [Urbs -> Outcomes]
      BY <3>3, ToSetElements DEF Inv, TypeOK
    <3> QED
      BY <3>2, <3>4, <3>5, <3>6
  <2>2. CASE ~(\E o \in Outcomes : BusPacket(o) /\ queued # <<>>)
    BY <2>2 DEF Next, RxThread, SetupOk, SetupFails, SubmitFirst, SubmitFirstFails, CloseFile, Reap,
                Copy, Resubmit, ResubmitFails, BusPacket, Pop
  <2> QED
    BY <2>1, <2>2
<1>2. Spec => [][Kept]_vars
  BY <1>1, InvInit, InvNext, PTL DEF Spec
<1> QED
  BY <1>2 DEF CompletedBuffersKept
================================================================================
