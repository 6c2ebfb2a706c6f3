-------------------------------- MODULE IsoRx --------------------------------
(***************************************************************************)
(* The receive half of IsoStream.  The cm108-rx thread gives N_URBS        *)
(* isochronous requests (URBs) to usbfs; the bus fills one per millisecond;*)
(* the thread reaps a completed URB, turns its bytes into an AudioFrame,   *)
(* pushes it into the ring and submits the URB again.  The dispatch thread *)
(* pops the ring.                                                          *)
(*                                                                         *)
(* A packet, its bytes and the frame made of them are one number.  usbfs   *)
(* is external and modelled by what this code expects of it: it completes  *)
(* URBs in the order they were submitted, owns an URB and its buffer from  *)
(* submit to reap, and reap_urb names the URB through its usercontext.     *)
(* Left out: ioctl encodings, thread priorities, and the polling delays.   *)
(***************************************************************************)
EXTENDS Naturals, Sequences, FiniteSets, SequencesExt

CONSTANTS N_URBS,        \* 8
          RING_CAPACITY, \* 64
          MaxPackets     \* bound on the packets of the bus

ASSUME RxAssumption == /\ N_URBS \in Nat \ {0} /\ RING_CAPACITY \in Nat \ {0}
                       /\ MaxPackets \in Nat

Urbs == 0 .. N_URBS - 1

\* What the thread looks at in a completed URB, hdr.status and
\* pkt.actual_length: "ok" stands for status 0 with data, "bad" for an error or an
\* empty packet.  It does not look at pkt.status, and a packet shorter than a
\* frame is "ok" too (bytes_to_frame pads it).
Outcomes == {"ok", "bad"}

VARIABLES thread,    \* "setup", "submit", "reap", "copy", "resubmit";
                     \* "return" (its URBs are freed, the file not closed yet), "dead"
          i,         \* the thread's URB index
          queued,    \* URBs that usbfs owns and has not completed, in order
          done,      \* URBs completed and not reaped, in order
          buf,       \* buf[u]: the packet in the buffer, 0 for none
          outcome,   \* outcome[u]: how the URB ended
          ring,      \* the ring buffer
          rx_xruns,  \* frames that found the ring full
          packet,    \* number of packets sent by the device
          good,      \* history: packets that completed an URB with data
          popped,    \* history: frames the dispatch thread popped, in order
          dropped    \* history: frames that found the ring full

vars == <<thread, i, queued, done, buf, outcome, ring, rx_xruns, packet, good, popped, dropped>>

Init == /\ thread = "setup" /\ i = 0
        /\ queued = <<>> /\ done = <<>>
        /\ buf = [u \in Urbs |-> 0]
        /\ outcome = [u \in Urbs |-> "bad"]
        /\ ring = <<>> /\ rx_xruns = 0
        /\ packet = 0 /\ good = {} /\ popped = <<>> /\ dropped = {}

-----------------------------------------------------------------------------
(* The cm108-rx thread                                                     *)

\* open_usbfs, claim_interface, set_interface.
SetupOk == /\ thread = "setup"
           /\ thread' = "submit"
           /\ UNCHANGED <<i, queued, done, buf, outcome, ring, rx_xruns, packet, good, popped, dropped>>

SetupFails == /\ thread = "setup"
              /\ thread' = "dead"
              /\ UNCHANGED <<i, queued, done, buf, outcome, ring, rx_xruns, packet, good, popped, dropped>>

\* MUTANT: the loop runs over 0..=N_URBS.
SubmitFirstPast == /\ thread = "submit"
                   /\ queued' = Append(queued, i)
                   /\ IF i + 1 <= N_URBS THEN i' = i + 1 /\ UNCHANGED thread
                                         ELSE thread' = "reap" /\ UNCHANGED i
                   /\ UNCHANGED <<done, buf, outcome, ring, rx_xruns, packet, good, popped, dropped>>

\* init_rx_urb and submit_urb for every URB in turn.
SubmitFirst == /\ thread = "submit"
               /\ queued' = Append(queued, i)
               /\ IF i + 1 < N_URBS THEN i' = i + 1 /\ UNCHANGED thread
                                    ELSE thread' = "reap" /\ UNCHANGED i
               /\ UNCHANGED <<done, buf, outcome, ring, rx_xruns, packet, good, popped, dropped>>

\* An initial submit fails: the thread returns.  Its locals are dropped in
\* reverse order, the buffers and the URBs before the usbfs file.
SubmitFirstFails == /\ thread = "submit"
                    /\ thread' = "return"
                    /\ UNCHANGED <<i, queued, done, buf, outcome, ring, rx_xruns, packet, good, popped, dropped>>

\* The file is closed, and usbfs cancels the URBs it still has.
CloseFile == /\ thread = "return"
             /\ thread' = "dead"
             /\ queued' = <<>> /\ done' = <<>>
             /\ UNCHANGED <<i, buf, outcome, ring, rx_xruns, packet, good, popped, dropped>>

\* MUTANT: the thread waits until all of its URBs have completed.
ReapBatch == /\ thread = "reap" /\ Len(done) = N_URBS
             /\ i' = Head(done)
             /\ done' = Tail(done)
             /\ thread' = "copy"
             /\ UNCHANGED <<queued, buf, outcome, ring, rx_xruns, packet, good, popped, dropped>>

\* MUTANT: the URB is submitted again before its buffer has been read.
ReapResubmitting == /\ thread = "reap" /\ done # <<>>
                    /\ i' = Head(done)
                    /\ done' = Tail(done)
                    /\ queued' = Append(queued, Head(done))
                    /\ thread' = "copy"
                    /\ UNCHANGED <<buf, outcome, ring, rx_xruns, packet, good, popped, dropped>>

\* reap_urb returns the URB completed first.  (While there is none, or reaping
\* fails, the thread sleeps and tries again.)
Reap == /\ thread = "reap" /\ done # <<>>
        /\ i' = Head(done)
        /\ done' = Tail(done)
        /\ thread' = "copy"
        /\ UNCHANGED <<queued, buf, outcome, ring, rx_xruns, packet, good, popped, dropped>>

\* MUTANT: a frame that finds the ring full is not counted.
CopyUncounted == /\ thread = "copy"
                 /\ thread' = "resubmit"
                 /\ IF outcome[i] = "ok" /\ Len(ring) < RING_CAPACITY
                    THEN ring' = Append(ring, buf[i])
                    ELSE UNCHANGED ring
                 /\ UNCHANGED <<i, queued, done, buf, outcome, rx_xruns, packet, good, popped, dropped>>

\* bytes_to_frame and push, if the URB carries data.
Copy == /\ thread = "copy"
        /\ thread' = "resubmit"
        /\ \/ /\ outcome[i] # "ok"
              /\ UNCHANGED <<ring, rx_xruns, dropped>>
           \/ /\ outcome[i] = "ok" /\ Len(ring) < RING_CAPACITY
              /\ ring' = Append(ring, buf[i])
              /\ UNCHANGED <<rx_xruns, dropped>>
           \/ /\ outcome[i] = "ok" /\ Len(ring) = RING_CAPACITY
              /\ rx_xruns' = rx_xruns + 1
              /\ dropped' = dropped \cup {buf[i]}
              /\ UNCHANGED ring
        /\ UNCHANGED <<i, queued, done, buf, outcome, packet, good, popped>>

\* init_rx_urb and submit_urb.
Resubmit == /\ thread = "resubmit"
            /\ queued' = Append(queued, i)
            /\ thread' = "reap"
            /\ UNCHANGED <<i, done, buf, outcome, ring, rx_xruns, packet, good, popped, dropped>>

\* submit_urb fails: the error is logged, and the URB is never submitted again.
ResubmitFails == /\ thread = "resubmit"
                 /\ thread' = "reap"
                 /\ UNCHANGED <<i, queued, done, buf, outcome, ring, rx_xruns, packet, good, popped, dropped>>

-----------------------------------------------------------------------------
\* A packet of the bus, of some outcome, completes the URB submitted first.
\* With no URB queued it is lost.
BusPacket(o) ==
  /\ packet < MaxPackets
  /\ packet' = packet + 1
  /\ IF queued = <<>>
     THEN UNCHANGED <<queued, done, buf, outcome, good>>
     ELSE LET u == Head(queued)
          IN  /\ queued' = Tail(queued)
              /\ done' = Append(done, u)
              /\ buf' = [buf EXCEPT ![u] = packet + 1]
              /\ outcome' = [outcome EXCEPT ![u] = o]
              /\ good' = IF o = "ok" THEN good \cup {packet + 1} ELSE good
  /\ UNCHANGED <<thread, i, ring, rx_xruns, popped, dropped>>

\* The dispatch thread: rx_consumer.pop().
Pop == /\ ring # <<>>
       /\ popped' = Append(popped, Head(ring))
       /\ ring' = Tail(ring)
       /\ UNCHANGED <<thread, i, queued, done, buf, outcome, rx_xruns, packet, good, dropped>>

RxThread == \/ SetupOk \/ SetupFails \/ SubmitFirst \/ SubmitFirstFails
            \/ CloseFile \/ Reap \/ Copy \/ Resubmit \/ ResubmitFails

Next == RxThread \/ (\E o \in Outcomes : BusPacket(o)) \/ Pop

Spec == Init /\ [][Next]_vars

\* Both threads run at real-time priorities.
FairSpec == Spec /\ WF_vars(RxThread) /\ WF_vars(Pop)

-----------------------------------------------------------------------------
(* Properties                                                              *)

\* Types; URB indices stay below N_URBS and the ring within its capacity.
TypeOK == /\ thread \in {"setup", "submit", "reap", "copy", "resubmit", "return", "dead"}
          /\ i \in Urbs
          /\ queued \in Seq(Urbs) /\ done \in Seq(Urbs)
          /\ buf \in [Urbs -> Nat]
          /\ outcome \in [Urbs -> Outcomes]
          /\ ring \in Seq(Nat) /\ Len(ring) <= RING_CAPACITY
          /\ rx_xruns \in Nat /\ packet \in Nat
          /\ good \in SUBSET Nat /\ popped \in Seq(Nat) /\ dropped \in SUBSET Nat

\* The dispatch thread gets the device's packets in order, none twice and none
\* whose URB failed or came back empty: URBs complete, are copied and are
\* submitted again concurrently with the bus that fills their buffers.
FramesInOrder ==
  LET frames == popped \o ring
  IN  /\ \A j, k \in 1..Len(frames) : j < k => frames[j] < frames[k]
      /\ ToSet(frames) \subseteq good

\* Every packet received with data is popped, in the ring, counted as an xrun
\* or in an URB that waits to be copied: no frame disappears uncounted.
NothingUncounted == thread # "dead" =>
  Cardinality(good) = Len(popped) + Len(ring) + rx_xruns
                        + Cardinality({u \in ToSet(done) : outcome[u] = "ok"})
                        + (IF thread = "copy" /\ outcome[i] = "ok" THEN 1 ELSE 0)

\* A packet with data reaches the dispatch thread or is dropped at a full
\* ring, unless the thread failed to start; resubmissions that fail and
\* packets without data do not stop the reaping of the others.
PacketsSettle ==
  \A p \in 1..MaxPackets :
    (p \in good) ~> (p \in ToSet(popped) \/ p \in dropped \/ thread = "dead")
==============================================================================
