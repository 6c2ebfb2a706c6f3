--------------------------- MODULE RadioEventsProofs ---------------------------
(***************************************************************************)
(* Proofs about RadioEvents for any set of clients, any states of the pins *)
(* and any capacity of the queues: types, ViewsAgree and EdgesAlternate.   *)
(***************************************************************************)
EXTENDS RadioEvents, SequenceTheorems, TLAPS

USE PinAssumption, BoundAssumption

(***************************************************************************)
(* The inductive invariant.                                                *)
(*                                                                         *)
(* TodoInv: what the GPIO thread has still to broadcast says what it read, *)
(* once on each topic.                                                     *)
(*                                                                         *)
(* KnowInv: a client that was sent the last event on a topic will be right *)
(* about it unless the next event on it is still to be broadcast, and then *)
(* it is wrong about the pin that event is about.  That second half is     *)
(* what makes the event an edge for the client, and ViewsAgree alone, which*)
(* speaks of the time between two changes, is not inductive without it.    *)
(***************************************************************************)
Radio == Messages \ {Stats}
Values == {<<>>} \cup {<<S>> : S \in SUBSET (0..3)}

\* What an event says of the pins of its topic.
Told(ev) == CASE ev.kind = "PttAssert" -> {PTT}
              [] ev.kind = "CosActive" -> {COS}
              [] ev.kind = "GpioChange" -> ev.state
              [] OTHER -> {}

About(msg, t) == msg # Stats /\ Topic(msg) = t

\* After the messages of q, a program that knew old will have v on topic t.
Ends(old, q, t, v) ==
  \/ old[t] = v /\ \A k \in 1..Len(q) : ~About(q[k], t)
  \/ \E k \in 1..Len(q) : /\ About(q[k], t) /\ v = <<Told(q[k])>>
                          /\ \A j \in 1..Len(q) : About(q[j], t) => j <= k

Pending(t) == \E k \in 1..Len(todo) : Topic(todo[k]) = t

TodoInv == /\ todo \in Seq(Radio)
           /\ \A k \in 1..Len(todo) : Told(todo[k]) = prev \cap Mask(Topic(todo[k]))
           /\ \A j, k \in 1..Len(todo) : Topic(todo[j]) = Topic(todo[k]) => j = k

KnowInv == \A c \in Clients : \A t \in current[c] :
             /\ ~Pending(t) => Ends(view[c], chan[c], t, <<prev \cap Mask(t)>>)
             /\ Pending(t) /\ t # "GPIO" => Ends(view[c], chan[c], t, <<Mask(t) \ prev>>)

Inv == TypeOK /\ TodoInv /\ KnowInv

-----------------------------------------------------------------------------
(* The messages: topic, content and what a program makes of them.          *)

\* The cases of a message.
LEMMA MessageKinds ==
  ASSUME NEW m \in Messages
  PROVE  \/ m = Event("PttAssert") /\ m \in Radio
         \/ m = Event("PttDeassert") /\ m \in Radio
         \/ m = Event("CosActive") /\ m \in Radio
         \/ m = Event("CosInactive") /\ m \in Radio
         \/ m = Stats /\ m \notin Radio
         \/ m \in Radio /\ \E s \in PinStates : m = GpioChange(s)
  BY DEF Messages, Radio, Event, GpioChange, Stats

\* cm108_poll_event tells the program what the event says, on its topic only.
LEMMA SeeRadio ==
  ASSUME NEW m \in Radio, NEW old \in [Topics -> Values]
  PROVE  /\ See(old, m) = [old EXCEPT ![Topic(m)] = <<Told(m)>>]
         /\ Topic(m) \in Topics /\ Told(m) \in SUBSET (0..3)
<1>1. m \in Messages /\ m # Stats /\ See(old, m) = Learn(old, RadioToC(m))
  BY DEF Radio, See
<1>2. CASE m = Event("PttAssert")
  BY <1>1, <1>2 DEF Event, Learn, RadioToC, Topic, Topics, Told, PTT
<1>3. CASE m = Event("PttDeassert")
  BY <1>1, <1>3 DEF Event, Learn, RadioToC, Topic, Topics, Told, PTT
<1>4. CASE m = Event("CosActive")
  BY <1>1, <1>4 DEF Event, Learn, RadioToC, Topic, Topics, Told, COS
<1>5. CASE m = Event("CosInactive")
  BY <1>1, <1>5 DEF Event, Learn, RadioToC, Topic, Topics, Told, COS
<1>6. ASSUME NEW s \in PinStates, m = GpioChange(s)
      PROVE  /\ See(old, m) = [old EXCEPT ![Topic(m)] = <<Told(m)>>]
             /\ Topic(m) \in Topics /\ Told(m) \in SUBSET (0..3)
  BY <1>1, <1>6 DEF GpioChange, Learn, RadioToC, Topic, Topics, Told
<1> QED
  BY <1>1, <1>2, <1>3, <1>4, <1>5, <1>6, MessageKinds

\* A program's knowledge keeps its type.
LEMMA SeeType == ASSUME NEW m \in Messages, NEW old \in [Topics -> Values]
                 PROVE  See(old, m) \in [Topics -> Values]
<1>1. CASE m = Stats
  BY <1>1 DEF See
<1>2. CASE m # Stats
  <2>1. m \in Radio
    BY <1>2 DEF Radio
  <2>2. <<Told(m)>> \in Values
    BY <2>1, SeeRadio DEF Values
  <2> QED
    BY <2>1, <2>2, SeeRadio
<1> QED
  BY <1>1, <1>2

-----------------------------------------------------------------------------
(* What a program will know, as its queue changes.                         *)

\* A message about t settles what the program will know of t.
LEMMA EndsAppend ==
  ASSUME NEW q \in Seq(Messages), NEW m \in Messages, NEW old, NEW t, About(m, t)
  PROVE  Ends(old, Append(q, m), t, <<Told(m)>>)
<1> DEFINE r == Append(q, m)
<1>1. Len(r) = Len(q) + 1 /\ Len(q) \in Nat /\ r[Len(q) + 1] = m
  BY AppendProperties
<1> HIDE DEF r
<1>2. Len(q) + 1 \in 1..Len(r) /\ \A j \in 1..Len(r) : j <= Len(q) + 1
  BY <1>1
<1>3. Ends(old, r, t, <<Told(m)>>)
  BY <1>1, <1>2 DEF Ends
<1> QED
  BY <1>3 DEF r

\* Another message leaves it alone.
LEMMA EndsAppendOther ==
  ASSUME NEW q \in Seq(Messages), NEW m \in Messages, NEW old, NEW t, ~About(m, t),
         NEW v, Ends(old, q, t, v)
  PROVE  Ends(old, Append(q, m), t, v)
<1> DEFINE r == Append(q, m)
<1>1. /\ Len(r) = Len(q) + 1 /\ Len(q) \in Nat /\ r[Len(q) + 1] = m
      /\ \A k \in 1..Len(q) : r[k] = q[k]
  BY AppendProperties
<1> HIDE DEF r
<1>2. \A k \in 1..Len(r) : About(r[k], t) => k \in 1..Len(q) /\ About(q[k], t)
  BY <1>1
<1>3. CASE old[t] = v /\ \A k \in 1..Len(q) : ~About(q[k], t)
  BY <1>2, <1>3 DEF Ends, r
<1>4. ASSUME NEW k \in 1..Len(q), About(q[k], t), v = <<Told(q[k])>>,
             \A j \in 1..Len(q) : About(q[j], t) => j <= k
      PROVE  Ends(old, r, t, v)
  <2>1. k \in 1..Len(r) /\ About(r[k], t) /\ v = <<Told(r[k])>>
    BY <1>1, <1>4
  <2>2. \A j \in 1..Len(r) : About(r[j], t) => j <= k
    BY <1>2, <1>4
  <2> QED
    BY <2>1, <2>2 DEF Ends
<1> QED
  BY <1>3, <1>4 DEF Ends, r

\* Polling moves knowledge from the queue to the program and changes nothing
\* of what the program will know.
LEMMA EndsPoll ==
  ASSUME NEW q \in Seq(Messages), q # <<>>, NEW old \in [Topics -> Values],
         NEW t \in Topics, NEW v, Ends(old, q, t, v)
  PROVE  Ends(See(old, Head(q)), Tail(q), t, v)
<1> DEFINE m == Head(q) r == Tail(q) new == See(old, m)
<1>1. /\ m \in Messages /\ m = q[1] /\ Len(q) \in Nat /\ Len(q) > 0
      /\ Len(r) = Len(q) - 1 /\ \A k \in 1..Len(r) : r[k] = q[k + 1]
  BY HeadTailProperties, EmptySeq
<1>2. /\ About(m, t) => new[t] = <<Told(m)>>
      /\ ~About(m, t) => new[t] = old[t]
  <2>1. CASE m = Stats
    BY <2>1 DEF See, About
  <2>2. CASE m # Stats
    <3>1. m \in Radio
      BY <1>1, <2>2 DEF Radio
    <3> HIDE DEF m
    <3>2. new = [old EXCEPT ![Topic(m)] = <<Told(m)>>]
      BY <3>1, SeeRadio
    <3> QED
      BY <2>2, <3>2 DEF About
  <2> QED
    BY <2>1, <2>2
<1> HIDE DEF m, r, new
<1>3. \A k \in 1..Len(r) : k + 1 \in 1..Len(q) /\ r[k] = q[k + 1]
  BY <1>1
<1>4. CASE old[t] = v /\ \A k \in 1..Len(q) : ~About(q[k], t)
  <2>1. ~About(m, t) /\ \A k \in 1..Len(r) : ~About(r[k], t)
    BY <1>1, <1>3, <1>4
  <2> QED
    BY <1>2, <1>4, <2>1 DEF Ends, m, r, new
<1>5. ASSUME NEW k \in 1..Len(q), About(q[k], t), v = <<Told(q[k])>>,
             \A j \in 1..Len(q) : About(q[j], t) => j <= k
      PROVE  Ends(new, r, t, v)
  <2>1. CASE k = 1
    <3>1. \A j \in 1..Len(r) : ~About(r[j], t)
      BY <1>3, <1>5, <2>1
    <3> QED
      BY <1>1, <1>2, <1>5, <2>1, <3>1 DEF Ends
  <2>2. CASE k # 1
    <3>1. k - 1 \in 1..Len(r) /\ r[k - 1] = q[k]
      BY <1>1, <2>2
    <3>2. \A j \in 1..Len(r) : About(r[j], t) => j <= k - 1
      BY <1>3, <1>5
    <3> QED
      BY <1>5, <3>1, <3>2 DEF Ends
  <2> QED
    BY <2>1, <2>2
<1> QED
  BY <1>4, <1>5 DEF Ends, m, r, new

\* Ends is what Outlook computes.
LEMMA EndsOutlook ==
  ASSUME TypeOK, NEW c \in Clients, NEW t \in Topics, NEW v, Ends(view[c], chan[c], t, v)
  PROVE  Outlook(c)[t] = v
<1> DEFINE q == chan[c] told == {k \in 1..Len(q) : q[k] # Stats /\ Topic(q[k]) = t}
<1>1. /\ q \in Seq(Messages) /\ view[c] \in [Topics -> Values]
      /\ \A k \in 1..Len(q) : q[k] \in Messages
  BY DEF TypeOK, Values
<1>2. Outlook(c)[t] = IF told = {} THEN view[c][t] ELSE See(view[c], q[Max(told)])[t]
  BY DEF Outlook
<1>3. \A k \in 1..Len(q) : k \in told <=> About(q[k], t)
  BY DEF About
<1> HIDE DEF q, told
<1>4. CASE view[c][t] = v /\ \A k \in 1..Len(q) : ~About(q[k], t)
  <2>1. told = {}
    BY <1>3, <1>4 DEF told
  <2> QED
    BY <1>2, <1>4, <2>1
<1>5. ASSUME NEW k \in 1..Len(q), About(q[k], t), v = <<Told(q[k])>>,
             \A j \in 1..Len(q) : About(q[j], t) => j <= k
      PROVE  Outlook(c)[t] = v
  <2>1. k \in told /\ \A j \in told : k >= j
    BY <1>3, <1>5 DEF told
  <2>2. told \subseteq Nat
    BY DEF told
  <2>3. Max(told) = k
    <3>1. PICK m \in told : m = Max(told) /\ \A j \in told : m >= j
      BY <2>1 DEF Max
    <3>2. m \in Nat /\ k \in Nat /\ m >= k /\ k >= m
      BY <2>1, <2>2, <3>1
    <3> QED
      BY <3>1, <3>2
  <2>4. q[k] \in Radio /\ Topic(q[k]) = t
    BY <1>1, <1>5 DEF Radio, About
  <2>5. See(view[c], q[k]) = [view[c] EXCEPT ![t] = <<Told(q[k])>>]
    BY <1>1, <2>4, SeeRadio
  <2> QED
    BY <1>1, <1>2, <1>5, <2>1, <2>3, <2>5
<1> QED
  BY <1>4, <1>5 DEF Ends, q

-----------------------------------------------------------------------------
(* emit_gpio_events                                                        *)

\* A sequence followed by one more element.
LEMMA OneMore == ASSUME NEW S, NEW s \in Seq(S), NEW x \in S
                 PROVE  /\ s \o <<x>> \in Seq(S) /\ Len(s \o <<x>>) = Len(s) + 1
                        /\ (s \o <<x>>)[Len(s) + 1] = x
                        /\ \A k \in 1..Len(s) : (s \o <<x>>)[k] = s[k]
  BY ConcatProperties, <<x>> \in Seq(S)

\* At most three events, one on each topic that changed, each saying what the
\* pins of its topic are now.
Says(e, s, p) ==
  /\ Len(e) <= 3
  /\ \A k \in 1..Len(e) : Told(e[k]) = s \cap Mask(Topic(e[k]))
  /\ \A j, k \in 1..Len(e) : Topic(e[j]) = Topic(e[k]) => j = k
  /\ \A t \in Topics : (\E k \in 1..Len(e) : Topic(e[k]) = t)
                          <=> s \cap Mask(t) # p \cap Mask(t)

\* The events of a change of the pins from p to s.
LEMMA EmitFacts ==
  ASSUME NEW s \in PinStates, NEW p \in PinStates, s # p
  PROVE  \E e \in Seq(Radio) : e = EmitGpioEvents(s, p) /\ Says(e, s, p)
<1> DEFINE a == Event(IF PTT \in s THEN "PttAssert" ELSE "PttDeassert")
           b == Event(IF COS \in s THEN "CosActive" ELSE "CosInactive")
           g == GpioChange(s)
           e == EmitGpioEvents(s, p)
<1>1. a \in Radio /\ Topic(a) = "PTT" /\ Told(a) = s \cap Mask("PTT")
  BY DEF Radio, Messages, Stats, Event, GpioChange, Topic, Told, Mask, PTT
<1>2. b \in Radio /\ Topic(b) = "COS" /\ Told(b) = s \cap Mask("COS")
  BY DEF Radio, Messages, Stats, Event, GpioChange, Topic, Told, Mask, COS
<1>3. g \in Radio /\ Topic(g) = "GPIO" /\ Told(g) = s \cap Mask("GPIO")
  <2>1. s \subseteq 0..3
    OBVIOUS
  <2> QED
    BY <2>1 DEF Radio, Messages, Stats, Event, GpioChange, Topic, Told, Mask
<1>4. (PTT \in s <=> PTT \in p) <=> s \cap Mask("PTT") = p \cap Mask("PTT")
  BY DEF Mask
<1>5. (COS \in s <=> COS \in p) <=> s \cap Mask("COS") = p \cap Mask("COS")
  BY DEF Mask
<1>6. s \cap Mask("GPIO") # p \cap Mask("GPIO")
  <2>1. s \cap (0..3) = s /\ p \cap (0..3) = p
    OBVIOUS
  <2> QED
    BY <2>1 DEF Mask
<1> DEFINE x == IF (PTT \in s) = (PTT \in p) THEN <<>> ELSE <<a>>
           y == IF (COS \in s) = (COS \in p) THEN <<>> ELSE <<b>>
<1>7. e = (x \o y) \o <<g>>
  BY DEF EmitGpioEvents
<1>8. /\ (PTT \in s <=> PTT \in p) => x = <<>>
      /\ ~(PTT \in s <=> PTT \in p) => x = <<a>>
      /\ (COS \in s <=> COS \in p) => y = <<>>
      /\ ~(COS \in s <=> COS \in p) => y = <<b>>
  OBVIOUS
<1> HIDE DEF a, b, g, e, x, y
<1> SUFFICES e \in Seq(Radio) /\ Says(e, s, p)
  BY DEF e
<1>9. CASE (PTT \in s <=> PTT \in p) /\ (COS \in s <=> COS \in p)
  <2>1. x \o y = <<>>
    BY <1>8, <1>9
  <2>2. e \in Seq(Radio) /\ Len(e) = 1 /\ e[1] = g
    BY <1>3, <1>7, <2>1, OneMore
  <2> QED
    BY <1>3, <1>4, <1>5, <1>6, <1>9, <2>2 DEF Topics, Says
<1>10. CASE ~(PTT \in s <=> PTT \in p) /\ (COS \in s <=> COS \in p)
  <2>1. x \o y = <<a>>
    BY <1>1, <1>8, <1>10, ConcatEmptySeq, <<a>> \in Seq(Radio)
  <2>2. e \in Seq(Radio) /\ Len(e) = 2 /\ e[1] = a /\ e[2] = g
    BY <1>1, <1>3, <1>7, <2>1, OneMore, <<a>> \in Seq(Radio)
  <2> QED
    BY <1>1, <1>3, <1>4, <1>5, <1>6, <1>10, <2>2 DEF Topics, Says
<1>11. CASE (PTT \in s <=> PTT \in p) /\ ~(COS \in s <=> COS \in p)
  <2>1. x \o y = <<b>>
    BY <1>2, <1>8, <1>11, ConcatEmptySeq, <<b>> \in Seq(Radio)
  <2>2. e \in Seq(Radio) /\ Len(e) = 2 /\ e[1] = b /\ e[2] = g
    BY <1>2, <1>3, <1>7, <2>1, OneMore, <<b>> \in Seq(Radio)
  <2> QED
    BY <1>2, <1>3, <1>4, <1>5, <1>6, <1>11, <2>2 DEF Topics, Says
<1>12. CASE ~(PTT \in s <=> PTT \in p) /\ ~(COS \in s <=> COS \in p)
  <2>1. x \o y \in Seq(Radio) /\ Len(x \o y) = 2 /\ (x \o y)[1] = a /\ (x \o y)[2] = b
    <3>1. <<a>> \in Seq(Radio) /\ Len(<<a>>) = 1 /\ <<a>>[1] = a
      BY <1>1
    <3>2. x = <<a>> /\ y = <<b>>
      BY <1>8, <1>12
    <3> QED
      BY <1>2, <3>1, <3>2, OneMore
  <2>2. e \in Seq(Radio) /\ Len(e) = 3 /\ e[1] = a /\ e[2] = b /\ e[3] = g
    BY <1>3, <1>7, <2>1, OneMore
  <2> QED
    BY <1>1, <1>2, <1>3, <1>4, <1>5, <1>6, <1>12, <2>2 DEF Topics, Says
<1> QED
  BY <1>9, <1>10, <1>11, <1>12

-----------------------------------------------------------------------------
(* The invariant, action by action.                                        *)

LEMMA InvInit == Init => Inv
<1> SUFFICES ASSUME Init PROVE Inv
  OBVIOUS
<1>1. TypeOK
  <2>1. view \in [Clients -> [Topics -> {<<>>} \cup {<<S>> : S \in SUBSET (0..3)}]]
    BY DEF Init
  <2>2. made \in [reports : 0..MaxReports, faults : 0..MaxFaults, stats : 0..MaxStats]
    BY DEF Init
  <2>3. chan \in [Clients -> Seq(Messages)] /\ \A c \in Clients : Len(chan[c]) <= ChanCap
    BY DEF Init
  <2> QED
    BY <2>1, <2>2, <2>3 DEF Init, TypeOK
<1>2. TodoInv
  BY DEF Init, TodoInv
<1>3. KnowInv
  BY DEF Init, KnowInv
<1> QED
  BY <1>1, <1>2, <1>3 DEF Inv

\* The counts stay within their bounds.
LEMMA CountType ==
  ASSUME TypeOK
  PROVE  LET M == [reports : 0..MaxReports, faults : 0..MaxFaults, stats : 0..MaxStats]
         IN  /\ made.reports < MaxReports => [made EXCEPT !.reports = @ + 1] \in M
             /\ made.faults < MaxFaults => [made EXCEPT !.faults = @ + 1] \in M
             /\ made.stats < MaxStats => [made EXCEPT !.stats = @ + 1] \in M
<1>1. PICK r \in 0..MaxReports, f \in 0..MaxFaults, n \in 0..MaxStats :
        made = [reports |-> r, faults |-> f, stats |-> n]
  BY DEF TypeOK
<1>2. /\ made.reports < MaxReports => r + 1 \in 0..MaxReports
      /\ made.faults < MaxFaults => f + 1 \in 0..MaxFaults
      /\ made.stats < MaxStats => n + 1 \in 0..MaxStats
  BY <1>1
<1> QED
  BY <1>1, <1>2

\* The variables TodoInv and KnowInv speak of.
LEMMA SameKnowledge ==
  ASSUME TodoInv, KnowInv, UNCHANGED <<prev, todo, chan, view, current>>
  PROVE  TodoInv' /\ KnowInv'
  BY DEF TodoInv, KnowInv, Pending

\* The chip, a transfer that fails and a Subscribe.
LEMMA ReportInv == ASSUME Inv, NEW s \in PinStates, Report(s)
                   PROVE  Inv'
<1>1. TypeOK'
  <2>1. /\ made' \in [reports : 0..MaxReports, faults : 0..MaxFaults, stats : 0..MaxStats]
    BY CountType DEF Report, Inv
  <2>2. report' \in [{1} -> PinStates]
    BY DEF Report
  <2> QED
    BY <2>1, <2>2 DEF Report, Inv, TypeOK
<1> QED
  BY <1>1, SameKnowledge DEF Report, Inv

LEMMA ReadFailsInv == ASSUME Inv, ReadFails
                      PROVE  Inv'
<1>1. TypeOK'
  <2>1. /\ made' \in [reports : 0..MaxReports, faults : 0..MaxFaults, stats : 0..MaxStats]
    BY CountType DEF ReadFails, Fault, Inv
  <2> QED
    BY <2>1 DEF ReadFails, Fault, Inv, TypeOK
<1> QED
  BY <1>1, SameKnowledge DEF ReadFails, Fault, Inv

LEMMA UpdateStreamsInv == ASSUME Inv, NEW c \in Clients, UpdateStreams(c)
                          PROVE  Inv'
<1>1. TypeOK'
  BY DEF UpdateStreams, poller, Inv, TypeOK
<1> QED
  BY <1>1, SameKnowledge DEF UpdateStreams, poller, Inv

\* A report with the state the thread has changes nothing; one with another
\* state makes a client wrong about the pins that changed until it is told.
LEMMA CompareInv ==
  ASSUME Inv, NEW s \in PinStates, Compare(s), last' \in {"whole", "damaged"},
         made' \in [reports : 0..MaxReports, faults : 0..MaxFaults, stats : 0..MaxStats]
  PROVE  Inv'
<1>1. /\ todo = <<>> /\ prev' = s /\ report' = <<>>
      /\ UNCHANGED <<pins, sub, chan, view, current>>
      /\ todo' = IF s = prev THEN <<>> ELSE EmitGpioEvents(s, prev)
      /\ TypeOK /\ TodoInv /\ KnowInv
  BY DEF Compare, Inv
<1>2. prev \in PinStates /\ \A c \in Clients : current[c] \subseteq Topics
  BY <1>1 DEF TypeOK
<1>3. todo' \in Seq(Messages) /\ Len(todo') <= 3 => TypeOK'
  BY <1>1 DEF TypeOK
<1>4. CASE s = prev
  <2>1. UNCHANGED <<prev, todo, chan, view, current>>
    BY <1>1, <1>4
  <2>2. TypeOK'
    BY <1>1, <1>3, <2>1 DEF TypeOK
  <2> QED
    BY <1>1, <2>1, <2>2, SameKnowledge DEF Inv
<1>5. CASE s # prev
  <2>1. todo' \in Seq(Radio) /\ Says(todo', s, prev)
    BY <1>1, <1>2, <1>5, EmitFacts
  <2>2. todo' \in Seq(Messages) /\ Len(todo') <= 3
    <3>1. Radio \subseteq Messages
      BY DEF Radio
    <3> QED
      BY <2>1, <3>1, SeqMonotonic DEF Says
  <2>3. TodoInv'
    BY <1>1, <2>1 DEF TodoInv, Says
  <2>4. KnowInv'
    <3> SUFFICES ASSUME NEW c \in Clients, NEW t \in current[c]
                 PROVE  /\ ~Pending(t)' => Ends(view[c], chan[c], t, <<s \cap Mask(t)>>)
                        /\ Pending(t)' /\ t # "GPIO" => Ends(view[c], chan[c], t, <<Mask(t) \ s>>)
      BY <1>1 DEF KnowInv
    <3>1. t \in Topics
      BY <1>2
    <3>2. Pending(t)' <=> s \cap Mask(t) # prev \cap Mask(t)
      BY <2>1, <3>1 DEF Pending, Says
    <3>3. ~Pending(t)
      BY <1>1 DEF Pending
    <3>4. Ends(view[c], chan[c], t, <<prev \cap Mask(t)>>)
      BY <1>1, <3>3 DEF KnowInv
    <3>5. CASE s \cap Mask(t) = prev \cap Mask(t)
      BY <3>2, <3>4, <3>5
    <3>6. CASE s \cap Mask(t) # prev \cap Mask(t) /\ t # "GPIO"
      <4>1. Mask(t) \ s = prev \cap Mask(t)
        BY <3>1, <3>6 DEF Mask, Topics
      <4> QED
        BY <3>2, <3>4, <3>6, <4>1
    <3> QED
      BY <3>2, <3>5, <3>6
  <2> QED
    BY <1>3, <2>2, <2>3, <2>4 DEF Inv
<1> QED
  BY <1>4, <1>5

LEMMA ReadInv == ASSUME Inv, ReadState \/ ReadShort
                 PROVE  Inv'
<1>1. TypeOK
  BY DEF Inv
<1>2. CASE ReadState
  <2>1. report[1] \in PinStates
    BY <1>1, <1>2 DEF ReadState, TypeOK
  <2>2. /\ last' \in {"whole", "damaged"}
        /\ made' \in [reports : 0..MaxReports, faults : 0..MaxFaults, stats : 0..MaxStats]
    BY <1>1, <1>2 DEF ReadState, TypeOK
  <2> QED
    BY <1>2, <2>1, <2>2, CompareInv DEF ReadState
<1>3. CASE ReadShort
  <2>1. made' \in [reports : 0..MaxReports, faults : 0..MaxFaults, stats : 0..MaxStats]
    BY <1>1, <1>3, CountType DEF ReadShort, Fault
  <2> QED
    BY <1>3, <2>1, CompareInv DEF ReadShort, Fault
<1> QED
  BY <1>2, <1>3

\* Stats tells nothing of the pins.
LEMMA StatsInv == ASSUME Inv, BroadcastStats
                  PROVE  Inv'
<1>1. /\ TypeOK /\ TodoInv /\ KnowInv
      /\ UNCHANGED <<pins, report, prev, last, todo, sub, view, current>>
      /\ chan' = [c \in Clients |-> IF Len(chan[c]) < ChanCap THEN Append(chan[c], Stats) ELSE chan[c]]
  BY DEF Inv, BroadcastStats, poller
<1>2. Stats \in Messages /\ \A c \in Clients : chan[c] \in Seq(Messages) /\ Len(chan[c]) <= ChanCap
  BY <1>1 DEF TypeOK, Messages, Stats
<1>3. chan' \in [Clients -> Seq(Messages)] /\ \A c \in Clients : Len(chan'[c]) <= ChanCap
  <2>1. ASSUME NEW c \in Clients
        PROVE  chan'[c] \in Seq(Messages) /\ Len(chan'[c]) <= ChanCap
    <3>1. CASE Len(chan[c]) < ChanCap
      BY <1>1, <1>2, <3>1, AppendProperties, LenProperties
    <3>2. CASE ~(Len(chan[c]) < ChanCap)
      BY <1>1, <1>2, <3>2
    <3> QED
      BY <3>1, <3>2
  <2> QED
    BY <1>1, <2>1
<1>4. TypeOK'
  <2>1. made' \in [reports : 0..MaxReports, faults : 0..MaxFaults, stats : 0..MaxStats]
    BY <1>1, CountType DEF BroadcastStats
  <2> QED
    BY <1>1, <1>3, <2>1 DEF TypeOK
<1>5. TodoInv'
  BY <1>1 DEF TodoInv
<1>6. ASSUME NEW c \in Clients, NEW t, NEW v, Ends(view[c], chan[c], t, v)
      PROVE  Ends(view'[c], chan'[c], t, v)
  <2>1. ~About(Stats, t)
    BY DEF About
  <2> QED
    BY <1>1, <1>2, <1>6, <2>1, EndsAppendOther
<1>7. KnowInv'
  BY <1>1, <1>6 DEF KnowInv, Pending
<1> QED
  BY <1>4, <1>5, <1>7 DEF Inv

\* A program polls.
LEMMA PollEventInv == ASSUME Inv, NEW c \in Clients, PollEvent(c)
                      PROVE  Inv'
<1>1. /\ TypeOK /\ TodoInv /\ KnowInv /\ chan[c] # <<>>
      /\ UNCHANGED <<pins, report, prev, last, todo, sub, current, made>>
      /\ view' = [view EXCEPT ![c] = See(view[c], Head(chan[c]))]
      /\ chan' = [chan EXCEPT ![c] = Tail(chan[c])]
  BY DEF Inv, PollEvent, poller
<1>2. /\ chan \in [Clients -> Seq(Messages)] /\ \A d \in Clients : Len(chan[d]) <= ChanCap
      /\ view \in [Clients -> [Topics -> Values]] /\ \A d \in Clients : current[d] \subseteq Topics
  BY <1>1 DEF TypeOK, Values
<1>3. /\ Head(chan[c]) \in Messages /\ Tail(chan[c]) \in Seq(Messages)
      /\ Len(Tail(chan[c])) = Len(chan[c]) - 1 /\ Len(chan[c]) \in Nat
  BY <1>1, <1>2, HeadTailProperties, LenProperties
<1>4. See(view[c], Head(chan[c])) \in [Topics -> Values]
  BY <1>2, <1>3, SeeType
<1>5. TypeOK'
  <2>1. view' \in [Clients -> [Topics -> {<<>>} \cup {<<S>> : S \in SUBSET (0..3)}]]
    BY <1>1, <1>2, <1>4 DEF Values
  <2>2. chan' \in [Clients -> Seq(Messages)] /\ \A d \in Clients : Len(chan'[d]) <= ChanCap
    BY <1>1, <1>2, <1>3
  <2> QED
    BY <1>1, <2>1, <2>2 DEF TypeOK
<1>6. TodoInv'
  BY <1>1 DEF TodoInv
<1>7. ASSUME NEW d \in Clients, NEW t \in Topics, NEW v, Ends(view[d], chan[d], t, v)
      PROVE  Ends(view'[d], chan'[d], t, v)
  <2>1. CASE d = c
    <3>1. Ends(See(view[c], Head(chan[c])), Tail(chan[c]), t, v)
      BY <1>1, <1>2, <1>7, <2>1, EndsPoll
    <3> QED
      BY <1>1, <1>2, <2>1, <3>1
  <2>2. CASE d # c
    BY <1>1, <1>2, <1>7, <2>2
  <2> QED
    BY <2>1, <2>2
<1>8. KnowInv'
  BY <1>1, <1>2, <1>7 DEF KnowInv, Pending
<1> QED
  BY <1>5, <1>6, <1>8 DEF Inv

\* The next event, and what broadcasting it does: it reaches a client's queue
\* and the client is up to date on its topic, or it does not and the client
\* is not.
LEMMA SendFacts ==
  ASSUME Inv, BroadcastRadioEvent
  PROVE  \E m \in Radio :
           /\ m = Head(todo) /\ m \in Messages /\ Told(m) = prev \cap Mask(Topic(m))
           /\ todo' \in Seq(Radio) /\ Len(todo') = Len(todo) - 1
           /\ \A k \in 1..Len(todo') : k + 1 \in 1..Len(todo) /\ todo'[k] = todo[k + 1]
           /\ Pending(Topic(m)) /\ ~Pending(Topic(m))'
           /\ \A t : t # Topic(m) => (Pending(t)' <=> Pending(t))
           /\ \A c \in Clients :
                \/ /\ chan'[c] = Append(chan[c], m) /\ Len(chan[c]) < ChanCap
                   /\ current'[c] = current[c] \cup {Topic(m)}
                \/ chan'[c] = chan[c] /\ current'[c] = current[c] \ {Topic(m)}
<1>1. /\ todo # <<>> /\ Send(sub, Head(todo)) /\ todo' = Tail(todo) /\ todo \in Seq(Radio)
      /\ \A k \in 1..Len(todo) : Told(todo[k]) = prev \cap Mask(Topic(todo[k]))
      /\ \A j, k \in 1..Len(todo) : Topic(todo[j]) = Topic(todo[k]) => j = k
  BY DEF Inv, TodoInv, BroadcastRadioEvent
<1>2. PICK m \in Radio :
        /\ m = Head(todo) /\ m = todo[1]
        /\ todo' \in Seq(Radio) /\ Len(todo) \in Nat /\ Len(todo) > 0
        /\ Len(todo') = Len(todo) - 1
        /\ \A k \in 1..Len(todo') : todo'[k] = todo[k + 1]
  BY <1>1, HeadTailProperties, EmptySeq
<1>3. \A c \in Clients :
        \/ /\ chan'[c] = Append(chan[c], m) /\ Len(chan[c]) < ChanCap
           /\ current'[c] = current[c] \cup {Topic(m)}
        \/ chan'[c] = chan[c] /\ current'[c] = current[c] \ {Topic(m)}
  BY <1>1, <1>2 DEF Send
<1>4. 1 \in 1..Len(todo) /\ \A k \in 1..Len(todo') : k + 1 \in 1..Len(todo) /\ k + 1 # 1
  BY <1>2
<1>5. \A k \in 1..Len(todo) : k = 1 \/ (k - 1 \in 1..Len(todo') /\ todo'[k - 1] = todo[k])
  BY <1>2
<1>6. Pending(Topic(m)) /\ ~Pending(Topic(m))'
  BY <1>1, <1>2, <1>4 DEF Pending
<1>7. \A t : t # Topic(m) => (Pending(t)' <=> Pending(t))
  BY <1>2, <1>4, <1>5 DEF Pending
<1>8. m \in Messages /\ Told(m) = prev \cap Mask(Topic(m))
  BY <1>1, <1>2, <1>4 DEF Radio
<1> QED
  BY <1>2, <1>3, <1>4, <1>6, <1>7, <1>8

LEMMA BroadcastInv == ASSUME Inv, BroadcastRadioEvent
                      PROVE  Inv'
<1>1. PICK m \in Radio :
        /\ m = Head(todo) /\ m \in Messages /\ Told(m) = prev \cap Mask(Topic(m))
        /\ todo' \in Seq(Radio) /\ Len(todo') = Len(todo) - 1
        /\ \A k \in 1..Len(todo') : k + 1 \in 1..Len(todo) /\ todo'[k] = todo[k + 1]
        /\ Pending(Topic(m)) /\ ~Pending(Topic(m))'
        /\ \A t : t # Topic(m) => (Pending(t)' <=> Pending(t))
        /\ \A c \in Clients :
             \/ /\ chan'[c] = Append(chan[c], m) /\ Len(chan[c]) < ChanCap
                /\ current'[c] = current[c] \cup {Topic(m)}
             \/ chan'[c] = chan[c] /\ current'[c] = current[c] \ {Topic(m)}
  BY SendFacts
<1>2. /\ UNCHANGED <<pins, report, prev, last, sub, view, made>>
      /\ TypeOK /\ TodoInv /\ KnowInv
  BY DEF BroadcastRadioEvent, poller, Inv
<1>3. /\ \A c \in Clients : chan[c] \in Seq(Messages) /\ Len(chan[c]) <= ChanCap
      /\ \A c \in Clients : current[c] \subseteq Topics
      /\ todo \in Seq(Messages) /\ Len(todo) <= 3 /\ Len(todo) \in Nat
  BY <1>2 DEF TypeOK
<1>4. Topic(m) \in Topics /\ About(m, Topic(m)) /\ \A t : t # Topic(m) => ~About(m, t)
  BY <1>1 DEF Topic, Topics, About, Radio
<1>5. TypeOK'
  <2>1. chan' \in [Clients -> Seq(Messages)] /\ \A c \in Clients : Len(chan'[c]) <= ChanCap
    <3>1. DOMAIN chan' = Clients /\ chan' = [c \in DOMAIN chan' |-> chan'[c]]
      BY DEF BroadcastRadioEvent, Send
    <3>2. ASSUME NEW c \in Clients
          PROVE  chan'[c] \in Seq(Messages) /\ Len(chan'[c]) <= ChanCap
      <4>1. CASE chan'[c] = Append(chan[c], m) /\ Len(chan[c]) < ChanCap
        BY <1>1, <1>3, <4>1, AppendProperties, LenProperties
      <4>2. CASE chan'[c] = chan[c]
        BY <1>3, <4>2
      <4> QED
        BY <1>1, <4>1, <4>2
    <3> QED
      BY <3>1, <3>2
  <2>2. current' \in [Clients -> SUBSET Topics]
    <3>1. DOMAIN current' = Clients /\ current' = [c \in DOMAIN current' |-> current'[c]]
      BY DEF BroadcastRadioEvent, Send
    <3>2. \A c \in Clients : current'[c] \subseteq Topics
      BY <1>1, <1>3, <1>4
    <3> QED
      BY <3>1, <3>2
  <2>3. todo' \in Seq(Messages) /\ Len(todo') <= 3
    <3>1. Radio \subseteq Messages
      BY DEF Radio
    <3>2. todo' \in Seq(Messages)
      BY <1>1, <3>1, SeqMonotonic
    <3> QED
      BY <1>1, <1>3, <3>2
  <2> QED
    BY <1>2, <2>1, <2>2, <2>3 DEF TypeOK
<1>6. TodoInv'
  <2>1. \A k \in 1..Len(todo') : Told(todo'[k]) = prev' \cap Mask(Topic(todo'[k]))
    BY <1>1, <1>2 DEF TodoInv
  <2>2. ASSUME NEW j \in 1..Len(todo'), NEW k \in 1..Len(todo'),
               Topic(todo'[j]) = Topic(todo'[k])
        PROVE  j = k
    <3>1. j + 1 = k + 1
      BY <1>1, <1>2, <2>2 DEF TodoInv
    <3> QED
      BY <3>1
  <2> QED
    BY <1>1, <2>1, <2>2 DEF TodoInv
<1>7. KnowInv'
  <2> SUFFICES ASSUME NEW c \in Clients, NEW t \in current'[c]
               PROVE  /\ ~Pending(t)' => Ends(view[c], chan'[c], t, <<prev \cap Mask(t)>>)
                      /\ Pending(t)' /\ t # "GPIO" => Ends(view[c], chan'[c], t, <<Mask(t) \ prev>>)
    BY <1>2 DEF KnowInv
  <2>1. CASE t = Topic(m)
    <3>1. chan'[c] = Append(chan[c], m)
      BY <1>1, <2>1
    <3>2. Ends(view[c], Append(chan[c], m), t, <<Told(m)>>)
      BY <1>1, <1>3, <1>4, <2>1, EndsAppend
    <3> QED
      BY <1>1, <2>1, <3>1, <3>2
  <2>2. CASE t # Topic(m)
    <3>1. t \in current[c] /\ (chan'[c] = chan[c] \/ chan'[c] = Append(chan[c], m))
      BY <1>1, <2>2
    <3>2. Pending(t)' <=> Pending(t)
      BY <1>1, <2>2
    <3>3. ASSUME NEW v, Ends(view[c], chan[c], t, v)
          PROVE  Ends(view[c], chan'[c], t, v)
      <4>1. ~About(m, t)
        BY <1>4, <2>2
      <4>2. Ends(view[c], Append(chan[c], m), t, v)
        BY <1>1, <1>3, <3>3, <4>1, EndsAppendOther
      <4> QED
        BY <3>1, <3>3, <4>2
    <3> QED
      BY <1>2, <3>1, <3>2, <3>3 DEF KnowInv
  <2> QED
    BY <2>1, <2>2
<1> QED
  BY <1>5, <1>6, <1>7 DEF Inv

LEMMA InvNext == Inv /\ [Next]_vars => Inv'
<1> SUFFICES ASSUME Inv, [Next]_vars PROVE Inv'
  OBVIOUS
<1>1. CASE UNCHANGED vars
  <2>1. TypeOK'
    BY <1>1 DEF vars, Inv, TypeOK
  <2> QED
    BY <1>1, <2>1, SameKnowledge DEF vars, Inv
<1> QED
  BY <1>1, ReportInv, ReadInv, ReadFailsInv, BroadcastInv, StatsInv, UpdateStreamsInv,
     PollEventInv DEF Next, GpioThread

-----------------------------------------------------------------------------
\* The variables of every state have their types, and no queue outgrows its
\* capacity.
THEOREM TypeCorrect == Spec => []TypeOK
<1>1. Inv => TypeOK
  BY DEF Inv
<1> QED
  BY InvInit, InvNext, <1>1, PTL DEF Spec

\* What the invariant says of the outlook of a client.
Sure == \A c \in Clients : \A t \in current[c] :
          /\ ~Pending(t) => Outlook(c)[t] = <<prev \cap Mask(t)>>
          /\ Pending(t) /\ t # "GPIO" => Outlook(c)[t] = <<Mask(t) \ prev>>

LEMMA InvSure == Inv => Sure
<1> SUFFICES ASSUME Inv, NEW c \in Clients, NEW t \in current[c]
             PROVE  /\ ~Pending(t) => Outlook(c)[t] = <<prev \cap Mask(t)>>
                    /\ Pending(t) /\ t # "GPIO" => Outlook(c)[t] = <<Mask(t) \ prev>>
  BY DEF Sure
<1>1. TypeOK /\ KnowInv /\ t \in Topics
  BY DEF Inv, TypeOK
<1> QED
  BY <1>1, EndsOutlook DEF KnowInv

\* Between two changes a client is right about every topic of which it was sent
\* the last event, or will be when it has polled its queue: for any number of
\* clients and any capacity of their channels, whichever events try_send
\* dropped and whenever they subscribed.
THEOREM ClientsWillBeRight == Spec => []ViewsAgree
<1>1. Sure => ViewsAgree
  BY DEF Sure, Pending, ViewsAgree
<1> QED
  BY InvInit, InvNext, InvSure, <1>1, PTL DEF Spec

\* Every PTT or carrier event that reaches a client which missed none before
\* it is an edge for that client.
THEOREM EdgesStayInStep == Spec => EdgesAlternate
<1> DEFINE Edge(c, t) ==
      (t \in current[c] /\ t \in current'[c] /\ todo # <<>> /\ todo' # todo /\ Topic(Head(todo)) = t)
        => Outlook(c)[t] # Outlook(c)'[t]
           Edges == \A c \in Clients, t \in {"PTT", "COS"} : Edge(c, t)
<1>1. Inv /\ Sure /\ Sure' /\ [Next]_vars => [Edges]_vars
  <2> SUFFICES ASSUME Inv, Sure, Sure', [Next]_vars, NEW c \in Clients, NEW t \in {"PTT", "COS"},
                      t \in current[c], t \in current'[c], todo # <<>>, todo' # todo,
                      Topic(Head(todo)) = t
               PROVE  Outlook(c)[t] # Outlook(c)'[t]
    OBVIOUS
  <2>1. BroadcastRadioEvent
    BY DEF Next, GpioThread, Report, ReadState, ReadShort, ReadFails, Fault, Compare,
           BroadcastStats, UpdateStreams, PollEvent, vars
  <2>2. Pending(t) /\ ~Pending(t)' /\ prev' = prev
    BY <2>1, SendFacts DEF BroadcastRadioEvent, poller
  <2>3. Outlook(c)[t] = <<Mask(t) \ prev>>
    BY <2>2 DEF Sure
  <2>4. Outlook(c)'[t] = <<prev \cap Mask(t)>>
    BY <2>2 DEF Sure
  <2>5. Mask(t) \ prev # prev \cap Mask(t)
    BY DEF Mask
  <2> QED
    BY <2>3, <2>4, <2>5
<1> QED
  BY InvInit, InvNext, InvSure, <1>1, PTL DEF Spec, EdgesAlternate
==============================================================================
