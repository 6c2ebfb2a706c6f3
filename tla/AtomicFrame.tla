----------------------------- MODULE AtomicFrame -----------------------------
(***************************************************************************)
(* What the shared audio page promises its readers, with no mention of     *)
(* sequence counters or words: a register that holds one whole frame.      *)
(* The server publishes frames 1, 2, 3, ... and a client's read_frame call *)
(* returns one frame, in every word, that was the published one at some    *)
(* instant between the call and its return.                                *)
(***************************************************************************)
EXTENDS Naturals

CONSTANTS Words,    \* the units in which a frame is copied
          Readers   \* the clients that mapped the page

VARIABLES published,  \* number of the frame in the register, 0 for the zeroed page
          phase,      \* phase[r]: "idle", "load" (called), "copy" (has a candidate)
          snap,       \* snap[r]: the candidate, the frame published when r took it
          out         \* out[r]: the frame returned last, word by word

vars == <<published, phase, snap, out>>

Init == /\ published = 0
        /\ phase = [r \in Readers |-> "idle"]
        /\ snap = [r \in Readers |-> 0]
        /\ out = [r \in Readers |-> [w \in Words |-> 0]]

Publish == /\ published' = published + 1
           /\ UNCHANGED <<phase, snap, out>>

Call(r) == /\ phase[r] = "idle"
           /\ phase' = [phase EXCEPT ![r] = "load"]
           /\ UNCHANGED <<published, snap, out>>

\* The instant at which the read takes effect.
Take(r) == /\ phase[r] = "load"
           /\ phase' = [phase EXCEPT ![r] = "copy"]
           /\ snap' = [snap EXCEPT ![r] = published]
           /\ UNCHANGED <<published, out>>

Retry(r) == /\ phase[r] = "copy"
            /\ phase' = [phase EXCEPT ![r] = "load"]
            /\ UNCHANGED <<published, snap, out>>

Return(r) == /\ phase[r] = "copy"
             /\ phase' = [phase EXCEPT ![r] = "idle"]
             /\ out' = [out EXCEPT ![r] = [w \in Words |-> snap[r]]]
             /\ UNCHANGED <<published, snap>>

Next == \/ Publish
        \/ \E r \in Readers : Call(r) \/ Take(r) \/ Retry(r) \/ Return(r)

Spec == Init /\ [][Next]_vars
==============================================================================
