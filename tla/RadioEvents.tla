----------------------------- MODULE RadioEvents -----------------------------
(***************************************************************************)
(* From the input pins of the chip to the events a C program polls.  The   *)
(* GPIO thread reads interrupt reports, compares each with the one before  *)
(* and broadcasts a change as up to three events, each under its own lock  *)
(* of the registry; clients subscribe and unsubscribe in between, and an   *)
(* event that finds a client's channel full is dropped.  The program keeps *)
(* what it was told of the pins.                                           *)
(*                                                                         *)
(* A state of the pins is the set of the pins that are high.  The channel, *)
(* the writer thread and the socket of a client are one bounded queue      *)
(* (ClientIpc shows that they implement one, ClientQueue).  A read that    *)
(* times out or fails with nothing lost changes nothing and is left out.   *)
(***************************************************************************)
EXTENDS Naturals, Sequences, SequencesExt

CONSTANTS Clients,     \* the connected clients
          PinStates,   \* the states the pins take
          ChanCap,     \* capacity of a client's queue
          MaxReports,  \* bound on the reports the chip makes
          MaxFaults,   \* bound on damaged reports
          MaxStats     \* bound on Stats broadcasts

ASSUME PinAssumption == {} \in PinStates /\ PinStates \subseteq SUBSET (0..3)
ASSUME BoundAssumption == /\ ChanCap \in Nat \ {0} /\ MaxReports \in Nat
                          /\ MaxFaults \in Nat /\ MaxStats \in Nat

PTT == 0
COS == 1

\* ServerMsg: the five radio events, and Stats, which goes to every client.
Event(kind) == [kind |-> kind, state |-> {}]
GpioChange(s) == [kind |-> "GpioChange", state |-> s]
Stats == Event("Stats")

\* What an event is about, and the pins of a topic.
Topics == {"PTT", "COS", "GPIO"}
Mask(t) == CASE t = "PTT" -> {PTT} [] t = "COS" -> {COS} [] OTHER -> 0..3
Topic(ev) == CASE ev.kind \in {"PttAssert", "PttDeassert"} -> "PTT"
               [] ev.kind \in {"CosActive", "CosInactive"} -> "COS"
               [] OTHER -> "GPIO"

\* MUTANT: the carrier event is derived from the PTT pin.
EmitGpioEventsPinSwap(state, prv) ==
     (IF (PTT \in state) = (PTT \in prv) THEN <<>>
      ELSE <<Event(IF PTT \in state THEN "PttAssert" ELSE "PttDeassert")>>)
  \o (IF (COS \in state) = (COS \in prv) THEN <<>>
      ELSE <<Event(IF PTT \in state THEN "CosActive" ELSE "CosInactive")>>)
  \o <<GpioChange(state)>>

\* emit_gpio_events: what is broadcast when the pins went from prv to state.
EmitGpioEvents(state, prv) ==
     (IF (PTT \in state) = (PTT \in prv) THEN <<>>
      ELSE <<Event(IF PTT \in state THEN "PttAssert" ELSE "PttDeassert")>>)
  \o (IF (COS \in state) = (COS \in prv) THEN <<>>
      ELSE <<Event(IF COS \in state THEN "CosActive" ELSE "CosInactive")>>)
  \o <<GpioChange(state)>>

\* radio_to_c: a Cm108Event has a number for its kind, and no pins unless it
\* is a GpioChange.
RadioToC(ev) ==
  LET type == [PttAssert |-> 0, PttDeassert |-> 1, CosActive |-> 2, CosInactive |-> 3,
               GpioChange |-> 4]
  IN  [event_type |-> type[ev.kind], gpio_state |-> ev.state]

\* What a program knows after an event: on each topic <<>>, nothing, or <<S>>,
\* the pins of the topic that are high.
Learn(knows, cev) ==
  CASE cev.event_type = 0 -> [knows EXCEPT !["PTT"] = <<{PTT}>>]
    [] cev.event_type = 1 -> [knows EXCEPT !["PTT"] = <<{}>>]
    [] cev.event_type = 2 -> [knows EXCEPT !["COS"] = <<{COS}>>]
    [] cev.event_type = 3 -> [knows EXCEPT !["COS"] = <<{}>>]
    [] cev.event_type = 4 -> [knows EXCEPT !["GPIO"] = <<cev.gpio_state>>]

\* cm108_poll_event returns 0, and *out is not written, for any other message.
See(knows, msg) == IF msg = Stats THEN knows ELSE Learn(knows, RadioToC(msg))

VARIABLES pins,     \* the lines
          report,   \* the report waiting at the interrupt endpoint, <<>> if none
          prev,     \* the GPIO thread's last state
          todo,     \* events of the last change that it has still to broadcast
          sub,      \* the clients subscribed to GPIO_EVENTS
          chan,     \* chan[c]: messages on their way to c
          view,     \* view[c]: what c knows
          current,  \* current[c]: history, topics of which c was sent the last event
          last,     \* history: the last report was "whole", or "damaged"
          made      \* counts of reports, faults and Stats, for the bounds

vars == <<pins, report, prev, todo, sub, chan, view, current, last, made>>
poller == <<pins, report, prev, last>>

\* The thread starts with GpioState(0), whatever the pins are: a pin that is
\* high when the daemon starts is one whose report it never got.
Init == /\ pins \in PinStates
        /\ report = <<>>
        /\ prev = {}
        /\ todo = <<>>
        /\ sub = {}
        /\ chan = [c \in Clients |-> <<>>]
        /\ view = [c \in Clients |-> [t \in Topics |-> <<>>]]
        /\ current = [c \in Clients |-> {}]
        /\ last = IF pins = {} THEN "whole" ELSE "damaged"
        /\ made = [reports |-> 0, faults |-> 0, stats |-> 0]

-----------------------------------------------------------------------------
\* The chip reports its pins, after a change and from time to time without
\* one; a report nobody has read yet is replaced.
Report(s) == /\ made.reports < MaxReports
             /\ made' = [made EXCEPT !.reports = @ + 1]
             /\ pins' = s /\ report' = <<s>> /\ last' = "whole"
             /\ UNCHANGED <<prev, todo, sub, chan, view, current>>

\* The thread has the state of a report: events if it is a new one.
Compare(state) == /\ todo = <<>>
                  /\ todo' = IF state = prev THEN <<>> ELSE EmitGpioEvents(state, prev)
                  /\ prev' = state
                  /\ report' = <<>>
                  /\ UNCHANGED <<pins, sub, chan, view, current>>

\* MUTANT: prev is not assigned.
ReadStateForgets == /\ report # <<>> /\ todo = <<>>
                    /\ todo' = IF report[1] = prev THEN <<>> ELSE EmitGpioEvents(report[1], prev)
                    /\ report' = <<>>
                    /\ UNCHANGED <<pins, prev, sub, chan, view, current, last, made>>

\* read_state returns a report.
ReadState == /\ report # <<>>
             /\ Compare(report[1])
             /\ UNCHANGED <<last, made>>

Fault == /\ report # <<>> /\ todo = <<>> /\ made.faults < MaxFaults
         /\ made' = [made EXCEPT !.faults = @ + 1]
         /\ last' = "damaged"

\* Ok(_): the length is not looked at, and a report of fewer than two bytes
\* leaves buf[1] zero.
ReadShort == Fault /\ Compare({})

\* The transfer fails and the report is gone; the thread goes on.
ReadFails == /\ Fault
             /\ report' = <<>>
             /\ UNCHANGED <<pins, prev, todo, sub, chan, view, current>>

\* MUTANT: an unbounded channel.
SendUnbounded(to, msg) ==
  /\ chan' = [c \in Clients |-> IF c \in to THEN Append(chan[c], msg) ELSE chan[c]]
  /\ current' = [c \in Clients |-> IF c \in to THEN current[c] \cup {Topic(msg)}
                                   ELSE current[c] \ {Topic(msg)}]

\* broadcast_radio_event: try_send to every subscriber.
Send(to, msg) ==
  LET ok == {c \in to : Len(chan[c]) < ChanCap}
  IN  /\ chan' = [c \in Clients |-> IF c \in ok THEN Append(chan[c], msg) ELSE chan[c]]
      /\ current' = [c \in Clients |-> IF c \in ok THEN current[c] \cup {Topic(msg)}
                                       ELSE current[c] \ {Topic(msg)}]

BroadcastRadioEvent == /\ todo # <<>>
                       /\ Send(sub, Head(todo))
                       /\ todo' = Tail(todo)
                       /\ UNCHANGED <<poller, sub, view, made>>

\* broadcast_stats, by the dispatch thread.
BroadcastStats ==
  /\ made.stats < MaxStats
  /\ made' = [made EXCEPT !.stats = @ + 1]
  /\ chan' = [c \in Clients |-> IF Len(chan[c]) < ChanCap THEN Append(chan[c], Stats) ELSE chan[c]]
  /\ UNCHANGED <<poller, todo, sub, view, current>>

\* A handler runs update_streams for c's Subscribe.
UpdateStreams(c) == /\ sub' \in {sub \cup {c}, sub \ {c}}
                    /\ UNCHANGED <<poller, todo, chan, view, current, made>>

\* MUTANT: a message that is no radio event stays where it is.
PollEventPeek(c) == /\ chan[c] # <<>> /\ Head(chan[c]) # Stats
                    /\ view' = [view EXCEPT ![c] = See(@, Head(chan[c]))]
                    /\ chan' = [chan EXCEPT ![c] = Tail(@)]
                    /\ UNCHANGED <<poller, todo, sub, current, made>>

\* cm108_poll_event takes one message, whether it returns 1 or 0.
PollEvent(c) == /\ chan[c] # <<>>
                /\ view' = [view EXCEPT ![c] = See(@, Head(chan[c]))]
                /\ chan' = [chan EXCEPT ![c] = Tail(@)]
                /\ UNCHANGED <<poller, todo, sub, current, made>>

-----------------------------------------------------------------------------
GpioThread == ReadState \/ ReadShort \/ ReadFails \/ BroadcastRadioEvent

Next == \/ \E s \in PinStates : Report(s)
        \/ GpioThread
        \/ BroadcastStats
        \/ \E c \in Clients : UpdateStreams(c) \/ PollEvent(c)

\* The GPIO thread keeps polling and the programs call cm108_poll_event again
\* and again.
Spec == Init /\ [][Next]_vars /\ WF_vars(GpioThread) /\ \A c \in Clients : WF_vars(PollEvent(c))

-----------------------------------------------------------------------------
(* Properties                                                              *)

Messages == {Event(k) : k \in {"PttAssert", "PttDeassert", "CosActive", "CosInactive", "Stats"}}
            \cup {GpioChange(s) : s \in PinStates}

\* Types; no more than the three events of one change are waiting.
TypeOK == /\ pins \in PinStates /\ prev \in PinStates
          /\ report = <<>> \/ report \in [{1} -> PinStates]
          /\ todo \in Seq(Messages) /\ Len(todo) <= 3
          /\ sub \in SUBSET Clients
          /\ chan \in [Clients -> Seq(Messages)] /\ \A c \in Clients : Len(chan[c]) <= ChanCap
          /\ view \in [Clients -> [Topics -> {<<>>} \cup {<<S>> : S \in SUBSET (0..3)}]]
          /\ current \in [Clients -> SUBSET Topics]
          /\ last \in {"whole", "damaged"}
          /\ made \in [reports : 0..MaxReports, faults : 0..MaxFaults, stats : 0..MaxStats]

\* What c will know when it has read what is on its way: on each topic, what
\* the last message about it says.
Outlook(c) ==
  [t \in Topics |->
     LET told == {k \in 1..Len(chan[c]) : chan[c][k] # Stats /\ Topic(chan[c][k]) = t}
     IN  IF told = {} THEN view[c][t] ELSE See(view[c], chan[c][Max(told)])[t]]

\* Between two changes, a client that was sent the last event on a topic is
\* right about it, or will be when it has polled what is in its queue:
\* whatever other events it missed because it subscribed between the three
\* broadcasts of a change (emit_gpio_events) or its channel was full
\* (try_send).  A GpioChange alone tells a client everything.
ViewsAgree ==
  todo = <<>> =>
    \A c \in Clients : \A t \in current[c] : Outlook(c)[t] = <<prev \cap Mask(t)>>

\* A client is never sent an edge (PttAssert, CosInactive, ...) that tells it
\* what it was told last on that pin, unless it missed an event in between;
\* a program that toggles a state of its own at each edge stays in step.
EdgesAlternate ==
  [][\A c \in Clients, t \in {"PTT", "COS"} :
       (t \in current[c] /\ t \in current'[c] /\ todo # <<>> /\ todo' # todo /\ Topic(Head(todo)) = t)
         => Outlook(c)[t] # Outlook(c)'[t]]_vars

\* When the pins have come to rest, the GPIO thread knows them and so does, in
\* the end, every program that was sent the last GpioChange, although a poll
\* also returns 0 for a Stats message with events behind it
\* (cm108_poll_event); the exception is a last report that was lost, cut short,
\* or made before the daemon started: then nobody learns of it.
PinsBecomeKnown ==
  <>[](/\ prev = pins \/ last = "damaged"
       /\ \A c \in Clients : "GPIO" \in current[c] => view[c]["GPIO"] = <<prev>>)
==============================================================================
