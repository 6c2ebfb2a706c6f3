-------------------------------- MODULE IsoTx --------------------------------
(***************************************************************************)
(* The transmit path.  Client handlers push the frames of an AudioWrite    *)
(* message into the ring, all of them under the producer's mutex; the      *)
(* cm108-tx thread keeps N_URBS isochronous URBs circulating, each time    *)
(* filled with the next frame of the ring or with silence.                 *)
(*                                                                         *)
(* Frames are numbered in the order in which the ring accepts them, 0 is   *)
(* silence.  usbfs is external, as in IsoRx.  tx_xruns counts underruns    *)
(* as well as frames refused by a full ring; it is followed up to          *)
(* MaxXruns, since an idle transmitter underruns every millisecond.        *)
(***************************************************************************)
EXTENDS Naturals, Sequences, FiniteSets, SequencesExt

CONSTANTS Clients,        \* handlers of the connected clients
          N_URBS,         \* 8
          RING_CAPACITY,  \* 64
          MaxBatches,     \* bound on the AudioWrite messages of one client
          MaxBatchLen,    \* bound on the frames of one message
          MaxXruns        \* where the model's tx_xruns saturates

ASSUME TxAssumption == /\ N_URBS \in Nat \ {0} /\ RING_CAPACITY \in Nat \ {0}
                       /\ MaxBatches \in Nat /\ MaxBatchLen \in Nat /\ MaxXruns \in Nat

Urbs == 0 .. N_URBS - 1

VARIABLES handler,   \* handler[c]: "read", "lock", "push"
          left,      \* left[c]: frames of the message still to be pushed
          batch,     \* batch[c]: number of AudioWrite messages read
          producer,  \* the handlers inside the producer's mutex
          ring,      \* the ring buffer
          tx_xruns,
          thread,    \* "setup", "submit", "reap", "fill", "resubmit", "return", "dead"
          i,         \* the thread's URB index
          queued,    \* URBs that usbfs owns and has not completed, in order
          done,      \* URBs completed and not reaped, in order
          buf,       \* buf[u]: the frame in the buffer
          accepted,  \* history: accepted[f]: client and message of frame f
          aired,     \* history: the frames the bus took, silence left out
          lost       \* history: frames in URBs whose submission failed, or whose
                     \* packet the bus did not take

handlerVars == <<handler, left, batch, producer>>
vars == <<handler, left, batch, producer, ring, tx_xruns, thread, i, queued, done, buf,
          accepted, aired, lost>>

Init == /\ handler = [c \in Clients |-> "read"]
        /\ left = [c \in Clients |-> 0]
        /\ batch = [c \in Clients |-> 0]
        /\ producer = {}
        /\ ring = <<>> /\ tx_xruns = 0
        /\ thread = "setup" /\ i = 0
        /\ queued = <<>> /\ done = <<>>
        /\ buf = [u \in Urbs |-> 0]
        /\ accepted = <<>> /\ aired = <<>> /\ lost = {}

CountXrun == tx_xruns' = IF tx_xruns < MaxXruns THEN tx_xruns + 1 ELSE tx_xruns

-----------------------------------------------------------------------------
(* ClientMsg::AudioWrite in the handlers                                   *)

AudioWrite(c, n) == /\ handler[c] = "read" /\ batch[c] < MaxBatches
                    /\ handler' = [handler EXCEPT ![c] = "lock"]
                    /\ batch' = [batch EXCEPT ![c] = @ + 1]
                    /\ left' = [left EXCEPT ![c] = n]
                    /\ UNCHANGED <<producer, ring, tx_xruns, thread, i, queued, done, buf,
                                   accepted, aired, lost>>

\* MUTANT: the frames are pushed without the producer's mutex.
NoLockProducer(c) == /\ handler[c] = "lock"
                     /\ producer' = producer \cup {c}
                     /\ handler' = [handler EXCEPT ![c] = "push"]
                     /\ UNCHANGED <<left, batch, ring, tx_xruns, thread, i, queued, done, buf,
                                    accepted, aired, lost>>

LockProducer(c) == /\ handler[c] = "lock" /\ producer = {}
                   /\ producer' = {c}
                   /\ handler' = [handler EXCEPT ![c] = "push"]
                   /\ UNCHANGED <<left, batch, ring, tx_xruns, thread, i, queued, done, buf,
                                  accepted, aired, lost>>

\* prod.push(frame), once per frame of the message; a full ring refuses it.
PushFrame(c) == /\ handler[c] = "push" /\ left[c] > 0
                /\ left' = [left EXCEPT ![c] = @ - 1]
                /\ IF Len(ring) < RING_CAPACITY
                   THEN /\ ring' = Append(ring, Len(accepted) + 1)
                        /\ accepted' = Append(accepted, <<c, batch[c]>>)
                        /\ UNCHANGED tx_xruns
                   ELSE CountXrun /\ UNCHANGED <<ring, accepted>>
                /\ UNCHANGED <<handler, batch, producer, thread, i, queued, done, buf, aired, lost>>

UnlockProducer(c) == /\ handler[c] = "push" /\ left[c] = 0
                     /\ producer' = producer \ {c}
                     /\ handler' = [handler EXCEPT ![c] = "read"]
                     /\ UNCHANGED <<left, batch, ring, tx_xruns, thread, i, queued, done, buf,
                                    accepted, aired, lost>>

-----------------------------------------------------------------------------
(* The cm108-tx thread                                                     *)

\* open_usbfs, claim_interface and set_interface; the thread returns when one fails.
Setup == /\ thread = "setup"
         /\ thread' \in {"submit", "dead"}
         /\ UNCHANGED handlerVars
         /\ UNCHANGED <<ring, tx_xruns, i, queued, done, buf, accepted, aired, lost>>

\* MUTANT: the loop runs over 0..=N_URBS.
SubmitFirstPast == /\ thread = "submit"
                   /\ queued' = Append(queued, i)
                   /\ IF i + 1 <= N_URBS THEN i' = i + 1 /\ UNCHANGED thread
                                         ELSE thread' = "reap" /\ UNCHANGED i
                   /\ UNCHANGED handlerVars
                   /\ UNCHANGED <<ring, tx_xruns, done, buf, accepted, aired, lost>>

\* The URBs are first submitted with zeroed buffers.
SubmitFirst == /\ thread = "submit"
               /\ queued' = Append(queued, i)
               /\ IF i + 1 < N_URBS THEN i' = i + 1 /\ UNCHANGED thread
                                    ELSE thread' = "reap" /\ UNCHANGED i
               /\ UNCHANGED handlerVars
               /\ UNCHANGED <<ring, tx_xruns, done, buf, accepted, aired, lost>>

SubmitFirstFails == /\ thread = "submit"
                    /\ thread' = "return"
                    /\ UNCHANGED handlerVars
                    /\ UNCHANGED <<ring, tx_xruns, i, queued, done, buf, accepted, aired, lost>>

\* The usbfs file is closed, which cancels the URBs.
CloseFile == /\ thread = "return"
             /\ thread' = "dead"
             /\ queued' = <<>> /\ done' = <<>>
             /\ UNCHANGED handlerVars
             /\ UNCHANGED <<ring, tx_xruns, i, buf, accepted, aired, lost>>

\* MUTANT: the thread waits until all of its URBs have completed.
ReapBatch == /\ thread = "reap" /\ Len(done) = N_URBS
             /\ i' = Head(done)
             /\ done' = Tail(done)
             /\ thread' = "fill"
             /\ UNCHANGED handlerVars
             /\ UNCHANGED <<ring, tx_xruns, queued, buf, accepted, aired, lost>>

Reap == /\ thread = "reap" /\ done # <<>>
        /\ i' = Head(done)
        /\ done' = Tail(done)
        /\ thread' = "fill"
        /\ UNCHANGED handlerVars
        /\ UNCHANGED <<ring, tx_xruns, queued, buf, accepted, aired, lost>>

\* MUTANT: the buffer is not cleared on an underrun.
FillStale == /\ thread = "fill"
             /\ thread' = "resubmit"
             /\ \/ /\ ring # <<>>
                   /\ buf' = [buf EXCEPT ![i] = Head(ring)]
                   /\ ring' = Tail(ring)
                   /\ UNCHANGED tx_xruns
                \/ /\ ring = <<>>
                   /\ CountXrun
                   /\ UNCHANGED <<buf, ring>>
             /\ UNCHANGED handlerVars
             /\ UNCHANGED <<i, queued, done, accepted, aired, lost>>

\* MUTANT: the popped frame is not copied into the buffer.
FillEmpty == /\ thread = "fill"
             /\ thread' = "resubmit"
             /\ buf' = [buf EXCEPT ![i] = 0]
             /\ IF ring # <<>> THEN ring' = Tail(ring) /\ UNCHANGED tx_xruns
                               ELSE CountXrun /\ UNCHANGED ring
             /\ UNCHANGED handlerVars
             /\ UNCHANGED <<i, queued, done, accepted, aired, lost>>

\* cons.pop(): frame_to_mono, or an underrun and silence.
Fill == /\ thread = "fill"
        /\ thread' = "resubmit"
        /\ \/ /\ ring # <<>>
              /\ buf' = [buf EXCEPT ![i] = Head(ring)]
              /\ ring' = Tail(ring)
              /\ UNCHANGED tx_xruns
           \/ /\ ring = <<>>
              /\ buf' = [buf EXCEPT ![i] = 0]
              /\ CountXrun
              /\ UNCHANGED ring
        /\ UNCHANGED handlerVars
        /\ UNCHANGED <<i, queued, done, accepted, aired, lost>>

Resubmit == /\ thread = "resubmit"
            /\ queued' = Append(queued, i)
            /\ thread' = "reap"
            /\ UNCHANGED handlerVars
            /\ UNCHANGED <<ring, tx_xruns, i, done, buf, accepted, aired, lost>>

\* submit_urb fails: the URB is never submitted again, and its frame is lost.
ResubmitFails == /\ thread = "resubmit"
                 /\ thread' = "reap"
                 /\ lost' = lost \cup ({buf[i]} \ {0})
                 /\ UNCHANGED handlerVars
                 /\ UNCHANGED <<ring, tx_xruns, i, queued, done, buf, accepted, aired>>

\* The bus takes the packet of the URB submitted first.
BusFrame == /\ queued # <<>>
            /\ queued' = Tail(queued)
            /\ done' = Append(done, Head(queued))
            /\ aired' = IF buf[Head(queued)] = 0 THEN aired ELSE Append(aired, buf[Head(queued)])
            /\ UNCHANGED handlerVars
            /\ UNCHANGED <<ring, tx_xruns, thread, i, buf, accepted, lost>>

\* The URB submitted first completes with an error, in its own status or in that
\* of its packet, or comes back because the device is gone.  The thread looks at
\* neither status: it reaps the URB like any other, and the frame is lost.
BusFails == /\ queued # <<>>
            /\ queued' = Tail(queued)
            /\ done' = Append(done, Head(queued))
            /\ lost' = lost \cup ({buf[Head(queued)]} \ {0})
            /\ UNCHANGED handlerVars
            /\ UNCHANGED <<ring, tx_xruns, thread, i, buf, accepted, aired>>

-----------------------------------------------------------------------------
Handler(c) == LockProducer(c) \/ PushFrame(c) \/ UnlockProducer(c)

TxThread == \/ Setup \/ SubmitFirst \/ SubmitFirstFails \/ CloseFile
            \/ Reap \/ Fill \/ Resubmit \/ ResubmitFails

Next == \/ \E c \in Clients : Handler(c) \/ \E n \in 1..MaxBatchLen : AudioWrite(c, n)
        \/ TxThread
        \/ BusFrame
        \/ BusFails

Spec == Init /\ [][Next]_vars

\* usbfs completes what it was given, well or not; the transmit thread has a
\* real-time priority.
FairSpec == /\ Spec
            /\ WF_vars(TxThread) /\ WF_vars(BusFrame \/ BusFails)

-----------------------------------------------------------------------------
(* Properties                                                              *)

\* Types; URB indices stay below N_URBS and the ring within its capacity.
TypeOK == /\ handler \in [Clients -> {"read", "lock", "push"}]
          /\ left \in [Clients -> Nat]
          /\ batch \in [Clients -> Nat]
          /\ producer \in SUBSET Clients
          /\ ring \in Seq(Nat \ {0}) /\ Len(ring) <= RING_CAPACITY
          /\ tx_xruns \in 0..MaxXruns
          /\ thread \in {"setup", "submit", "reap", "fill", "resubmit", "return", "dead"}
          /\ i \in Urbs
          /\ queued \in Seq(Urbs) /\ done \in Seq(Urbs)
          /\ buf \in [Urbs -> Nat]
          /\ accepted \in Seq(Clients \X Nat)
          /\ aired \in Seq(Nat \ {0})
          /\ lost \in SUBSET (Nat \ {0})

\* The transmitter sends the accepted frames in the order of the ring and
\* none of them twice, although a URB's buffer is used again and again and an
\* underrun puts nothing new into it.
AiredOnceInOrder == \A j, k \in 1..Len(aired) : j < k => aired[j] < aired[k]

\* The frames that two clients write at the same time are not mixed: those
\* accepted of one AudioWrite message follow each other.
BatchesContiguous ==
  \A j, k, l \in 1..Len(accepted) :
    j < k /\ k < l /\ accepted[j] = accepted[l] => accepted[k] = accepted[j]

\* Every accepted frame has been aired, waits in the ring, is in a URB that
\* usbfs owns or that is in the thread's hands, or is one of those that the code
\* gives up uncounted: its URB could not be submitted, or completed with an
\* error that the thread does not look at.  The loop itself drops none.
FramesAccounted ==
  thread \notin {"return", "dead"} =>
    1..Len(accepted) = ToSet(aired) \cup ToSet(ring) \cup lost
                         \cup ({buf[u] : u \in ToSet(queued)} \ {0})
                         \cup (IF thread = "resubmit" THEN {buf[i]} \ {0} ELSE {})

\* An accepted frame is aired in the end, unless the thread never started, the
\* frame's own URB could not be submitted or completed with an error, or every
\* URB could not be submitted at some time, so that none circulates any more.
FramesAir ==
  \A f \in 1..(Cardinality(Clients) * MaxBatches * MaxBatchLen) :
    (Len(accepted) >= f) ~> (\/ f \in ToSet(aired) \cup lost
                             \/ thread = "dead"
                             \/ thread = "reap" /\ queued = <<>> /\ done = <<>>)
==============================================================================
