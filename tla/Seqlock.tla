------------------------------- MODULE Seqlock -------------------------------
(***************************************************************************)
(* The seqlock over the memfd page: AudioShmem::write in the daemon, one   *)
(* RxShmem::read_frame loop per client.  An audio frame is represented by  *)
(* its number, a word of the page by the number of the frame it belongs    *)
(* to, so a torn read is a result with two different numbers in it.        *)
(*                                                                         *)
(* The code orders the page accesses with Release stores and Acquire loads *)
(* of the counter only, and copies the samples with plain accesses.  A     *)
(* store is therefore modelled by the moment it becomes visible.  When     *)
(* Weak is FALSE (x86-64, total store order) stores become visible, and    *)
(* loads are performed, in program order.  When Weak is TRUE (aarch64, the *)
(* deployed build) only what Release and Acquire promise is kept:          *)
(*   - a Release store becomes visible after every store before it, but    *)
(*     the plain stores after it may become visible first;                 *)
(*   - a load after an Acquire load is performed after it, but the plain   *)
(*     loads before the second Acquire load may be performed later.        *)
(* Between two writes the dispatch thread locks the registry mutex, an     *)
(* Acquire, which on both machines waits for the even Release store and    *)
(* holds back the stores of the next write.                                *)
(*                                                                         *)
(* The u64 counter is not given its width: at 1000 frames a second it      *)
(* wraps after 292 million years, and a reader would have to sleep through *)
(* the whole period to be misled.                                          *)
(***************************************************************************)
EXTENDS Naturals

CONSTANTS Words,      \* the units in which the two copies move a frame
          Readers,    \* the clients that mapped the page
          Weak,       \* memory model of the machine, see above
          MaxWrites   \* bound on the number of frames written

ASSUME WeakAssumption == Weak \in BOOLEAN
ASSUME MaxWritesAssumption == MaxWrites \in Nat

VARIABLES seq,          \* the counter at byte 0 of the page
          data,         \* data[w]: the frame whose sample is in word w
          frame,        \* number of the frame being written, or written last
          cur,          \* write's local: the counter when the write began
          wpc,          \* "idle"; or in a write: "odd" (its odd store is not visible
                        \* yet), "copy" (it is, the even store is not)
          dataPending,  \* the words whose store by the write is not visible yet
          daemon,       \* "up", or "dead": the clients keep the page
          rpc,          \* rpc[r]: "idle", "load" (first load next), "copy"
          s1,           \* s1[r]: value of the first counter load
          todo,         \* todo[r]: the words still to be loaded
          chk,          \* chk[r]: second load against s1: "no" (not yet), "same", "changed"
          got,          \* got[r]: the local frame being filled
          ret,          \* ret[r]: the frame the last call returned
          since         \* since[r]: history, the frame published when the call began

writerVars == <<frame, cur, wpc, dataPending, daemon>>
readerVars == <<rpc, s1, todo, chk, got, ret, since>>
vars == <<seq, data, frame, cur, wpc, dataPending, daemon,
          rpc, s1, todo, chk, got, ret, since>>

\* AudioFrame::default, and the zeroed memory of a new memfd.
Silence == [w \in Words |-> 0]

Init == /\ seq = 0
        /\ data = Silence
        /\ frame = 0
        /\ cur = 0
        /\ wpc = "idle"
        /\ dataPending = {}
        /\ daemon = "up"
        /\ rpc = [r \in Readers |-> "idle"]
        /\ s1 = [r \in Readers |-> 0]
        /\ todo = [r \in Readers |-> {}]
        /\ chk = [r \in Readers |-> "no"]
        /\ got = [r \in Readers |-> Silence]
        /\ ret = [r \in Readers |-> Silence]
        /\ since = [r \in Readers |-> 0]

-----------------------------------------------------------------------------
(* AudioShmem::write                                                       *)

\* The call is entered and its stores are issued.
WriteBegin == /\ wpc = "idle" /\ daemon = "up"
              /\ frame < MaxWrites
              /\ frame' = frame + 1
              /\ cur' = seq
              /\ wpc' = "odd"
              /\ dataPending' = Words
              /\ UNCHANGED <<seq, data, daemon>>
              /\ UNCHANGED readerVars

\* MUTANT: the in-progress mark subtracts instead of adding.
StoreOddBelow == /\ wpc = "odd" /\ daemon = "up"
                 /\ seq' = cur - 1
                 /\ wpc' = "copy"
                 /\ UNCHANGED <<data, frame, cur, dataPending, daemon>>
                 /\ UNCHANGED readerVars

\* seq.store(cur + 1, Release) becomes visible.
StoreOdd == /\ wpc = "odd" /\ daemon = "up"
            /\ seq' = cur + 1
            /\ wpc' = "copy"
            /\ UNCHANGED <<data, frame, cur, dataPending, daemon>>
            /\ UNCHANGED readerVars

\* The copy's store to word w becomes visible.
StoreWord(w) == /\ w \in dataPending /\ daemon = "up"
                /\ Weak \/ wpc = "copy"
                /\ data' = [data EXCEPT ![w] = frame]
                /\ dataPending' = dataPending \ {w}
                /\ UNCHANGED <<seq, frame, cur, wpc, daemon>>
                /\ UNCHANGED readerVars

\* MUTANT: the even store is Relaxed, so it may overtake the copy's stores.
StoreEvenRelaxed == /\ wpc = "copy" /\ daemon = "up"
                    /\ seq' = cur + 2
                    /\ wpc' = "idle"
                    /\ UNCHANGED <<data, frame, cur, dataPending, daemon>>
                    /\ UNCHANGED readerVars

\* MUTANT: the final store repeats cur + 1 and the counter stays odd.
StoreEvenOdd == /\ wpc = "copy" /\ daemon = "up"
                /\ dataPending = {}
                /\ seq' = cur + 1
                /\ wpc' = "idle"
                /\ UNCHANGED <<data, frame, cur, dataPending, daemon>>
                /\ UNCHANGED readerVars

\* seq.store(cur + 2, Release) becomes visible, and write returns cur + 2.
StoreEven == /\ wpc = "copy" /\ daemon = "up"
             /\ dataPending = {}
             /\ seq' = cur + 2
             /\ wpc' = "idle"
             /\ UNCHANGED <<data, frame, cur, dataPending, daemon>>
             /\ UNCHANGED readerVars

\* The daemon is killed, perhaps in the middle of a write.  A restarted
\* daemon creates a page of its own.
Crash == /\ daemon = "up"
         /\ daemon' = "dead"
         /\ UNCHANGED <<seq, data, frame, cur, wpc, dataPending>>
         /\ UNCHANGED readerVars

Writer == WriteBegin \/ StoreOdd \/ (\E w \in Words : StoreWord(w)) \/ StoreEven

-----------------------------------------------------------------------------
(* RxShmem::read_frame                                                     *)

ReadCall(r) == /\ rpc[r] = "idle"
               /\ rpc' = [rpc EXCEPT ![r] = "load"]
               /\ since' = [since EXCEPT ![r] = seq \div 2]
               /\ UNCHANGED <<seq, data, s1, todo, chk, got, ret>>
               /\ UNCHANGED writerVars

\* s1 is odd: spin_loop and continue.
Spin(r) == /\ rpc[r] = "load"
           /\ seq % 2 # 0
           /\ UNCHANGED vars

\* MUTANT: the test that s1 is even is missing.
LoadSeq1Any(r) == /\ rpc[r] = "load"
                  /\ rpc' = [rpc EXCEPT ![r] = "copy"]
                  /\ s1' = [s1 EXCEPT ![r] = seq]
                  /\ todo' = [todo EXCEPT ![r] = Words]
                  /\ chk' = [chk EXCEPT ![r] = "no"]
                  /\ got' = [got EXCEPT ![r] = Silence]
                  /\ UNCHANGED <<seq, data, ret, since>>
                  /\ UNCHANGED writerVars

LoadSeq1(r) == /\ rpc[r] = "load"
               /\ seq % 2 = 0
               /\ rpc' = [rpc EXCEPT ![r] = "copy"]
               /\ s1' = [s1 EXCEPT ![r] = seq]
               /\ todo' = [todo EXCEPT ![r] = Words]
               /\ chk' = [chk EXCEPT ![r] = "no"]
               /\ got' = [got EXCEPT ![r] = Silence]
               /\ UNCHANGED <<seq, data, ret, since>>
               /\ UNCHANGED writerVars

LoadWord(r, w) == /\ rpc[r] = "copy"
                  /\ w \in todo[r]
                  /\ got' = [got EXCEPT ![r][w] = data[w]]
                  /\ todo' = [todo EXCEPT ![r] = @ \ {w}]
                  /\ UNCHANGED <<seq, data, rpc, s1, chk, ret, since>>
                  /\ UNCHANGED writerVars

\* MUTANT: the comparison ignores the in-progress bit of the counter.
LoadSeq2Half(r) == /\ rpc[r] = "copy" /\ chk[r] = "no"
                   /\ Weak \/ todo[r] = {}
                   /\ chk' = [chk EXCEPT ![r] = IF seq \div 2 = s1[r] \div 2
                                                THEN "same" ELSE "changed"]
                   /\ UNCHANGED <<seq, data, rpc, s1, todo, got, ret, since>>
                   /\ UNCHANGED writerVars

LoadSeq2(r) == /\ rpc[r] = "copy" /\ chk[r] = "no"
               /\ Weak \/ todo[r] = {}
               /\ chk' = [chk EXCEPT ![r] = IF seq = s1[r] THEN "same" ELSE "changed"]
               /\ UNCHANGED <<seq, data, rpc, s1, todo, got, ret, since>>
               /\ UNCHANGED writerVars

ReadReturn(r) == /\ rpc[r] = "copy" /\ todo[r] = {}
                 /\ chk[r] = "same"
                 /\ rpc' = [rpc EXCEPT ![r] = "idle"]
                 /\ ret' = [ret EXCEPT ![r] = got[r]]
                 /\ UNCHANGED <<seq, data, s1, todo, chk, got, since>>
                 /\ UNCHANGED writerVars

ReadRetry(r) == /\ rpc[r] = "copy" /\ todo[r] = {}
                /\ chk[r] = "changed"
                /\ rpc' = [rpc EXCEPT ![r] = "load"]
                /\ UNCHANGED <<seq, data, s1, todo, chk, got, ret, since>>
                /\ UNCHANGED writerVars

\* The steps of a call that is in progress.
ReadStep(r) == \/ LoadSeq1(r)
               \/ \E w \in Words : LoadWord(r, w)
               \/ LoadSeq2(r)
               \/ ReadReturn(r)
               \/ ReadRetry(r)

-----------------------------------------------------------------------------
Next == \/ Writer
        \/ Crash
        \/ \E r \in Readers : ReadCall(r) \/ Spin(r) \/ ReadStep(r)

Spec == Init /\ [][Next]_vars

\* A started write is finished by the dispatch thread unless the daemon dies,
\* and a client that called read_frame keeps running.
FairSpec == /\ Spec
            /\ WF_vars(StoreOdd \/ (\E w \in Words : StoreWord(w)) \/ StoreEven)
            /\ \A r \in Readers : WF_vars(ReadStep(r))

-----------------------------------------------------------------------------
(* Properties                                                              *)

Frames == [Words -> Nat]

\* Types of AudioShmem::write and read_frame; the counter never goes below 0.
TypeOK == /\ seq \in Nat
          /\ data \in Frames
          /\ frame \in Nat
          /\ cur \in Nat
          /\ wpc \in {"idle", "odd", "copy"}
          /\ dataPending \in SUBSET Words
          /\ daemon \in {"up", "dead"}
          /\ rpc \in [Readers -> {"idle", "load", "copy"}]
          /\ s1 \in [Readers -> Nat]
          /\ todo \in [Readers -> SUBSET Words]
          /\ chk \in [Readers -> {"no", "same", "changed"}]
          /\ got \in [Readers -> Frames]
          /\ ret \in [Readers -> Frames]
          /\ since \in [Readers -> Nat]

\* A frame that read_frame returned comes from one write: no word of it is
\* older or newer than another (shmem.rs, test seqlock_no_torn_reads).
NoTornRead == \A r \in Readers : \A v, w \in Words : ret[r][v] = ret[r][w]

\* No word of a returned frame is older than the frame whose write had ended
\* when read_frame was called: a client that reads because it was told of
\* frame n gets nothing older than n.  Relies on the Release of the even store.
FreshRead == \A r \in Readers :
               rpc[r] = "idle" => \A w \in Words : ret[r][w] >= since[r]

\* A read_frame call goes on for ever only if the daemon died in the middle of a
\* write and left the counter odd, or if writes go on for ever and overtake every
\* try.  (MaxWrites ends the writes of the model, so what its runs decide is that
\* a call ends once writing stops, at whatever point of its loop it then is.)
ReadTerminates == \A r \in Readers :
                    <>[](rpc[r] # "idle") => \/ <>[](daemon = "dead" /\ wpc # "idle")
                                             \/ []<><<seq' # seq>>_vars

\* The page is an atomic register of whole frames: a read takes effect at its
\* first counter load, a write when its even store becomes visible.
Register == INSTANCE AtomicFrame
              WITH published <- seq \div 2, phase <- rpc,
                   snap <- [r \in Readers |-> s1[r] \div 2], out <- ret
ImplementsAtomicFrame == Register!Spec
==============================================================================
