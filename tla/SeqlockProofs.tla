---------------------------- MODULE SeqlockProofs ----------------------------
(***************************************************************************)
(* Proofs about Seqlock for any set of words, any set of readers and any   *)
(* number of writes:                                                       *)
(*   - on both memory models, types and FreshRead;                         *)
(*   - on a machine with total store order (Weak = FALSE), NoTornRead and  *)
(*     the refinement of AtomicFrame.                                      *)
(***************************************************************************)
EXTENDS Seqlock, Integers, TLAPS

USE WeakAssumption, MaxWritesAssumption

\* The last frame whose even store is visible.
Published == IF wpc = "idle" THEN frame ELSE frame - 1

(***************************************************************************)
(* What holds on both machines.  The counter follows the write; a word     *)
(* holds the current frame once its store is visible and the one before it *)
(* until then; hence no word is older than the published frame.  A reader  *)
(* that copies saw an even counter no newer than the page, so the words it *)
(* loads are at least as new as the frame it saw published.                *)
(***************************************************************************)
CounterInv == /\ wpc = "idle" => seq = 2 * frame /\ dataPending = {}
              /\ wpc # "idle" => frame > 0 /\ cur = 2 * (frame - 1)
              /\ wpc = "odd"  => seq = cur
              /\ wpc = "copy" => seq = cur + 1

WordInv == \A w \in Words :
             data[w] = IF w \in dataPending THEN frame - 1 ELSE frame

ReaderFresh(r) ==
  /\ since[r] <= Published
  /\ rpc[r] = "idle" => \A w \in Words : ret[r][w] >= since[r]
  /\ rpc[r] = "copy" => /\ s1[r] % 2 = 0
                        /\ since[r] <= s1[r] \div 2
                        /\ s1[r] <= seq
                        /\ \A w \in Words \ todo[r] : got[r][w] >= s1[r] \div 2

Inv == TypeOK /\ CounterInv /\ WordInv /\ (\A r \in Readers : ReaderFresh(r))
-----------------------------------------------------------------------------
LEMMA Halves == ASSUME NEW n \in Nat
                PROVE  /\ (2 * n) \div 2 = n /\ (2 * n) % 2 = 0
                       /\ (2 * n + 1) \div 2 = n /\ (2 * n + 1) % 2 = 1
  OBVIOUS

\* Types are preserved whatever the memory model.
LEMMA TypeInit == Init => TypeOK
<1>1. Silence \in Frames
  BY DEF Silence, Frames
<1> QED
  BY <1>1 DEF Init, TypeOK

LEMMA TypeNext == TypeOK /\ [Next]_vars => TypeOK'
<1> SUFFICES ASSUME TypeOK, [Next]_vars PROVE TypeOK'
  OBVIOUS
<1> USE DEF TypeOK, Frames, writerVars, readerVars
<1>1. CASE Writer
  <2>1. CASE WriteBegin
    BY <2>1 DEF WriteBegin
  <2>2. CASE StoreOdd
    BY <2>2 DEF StoreOdd
  <2>3. ASSUME NEW w \in Words, StoreWord(w)
        PROVE  TypeOK'
    BY <2>3 DEF StoreWord
  <2>4. CASE StoreEven
    BY <2>4 DEF StoreEven
  <2> QED
    BY <1>1, <2>1, <2>2, <2>3, <2>4 DEF Writer
<1>2. CASE Crash
  BY <1>2 DEF Crash
<1>3. ASSUME NEW r \in Readers, ReadCall(r)
      PROVE  TypeOK'
  BY <1>3 DEF ReadCall
<1>4. ASSUME NEW r \in Readers, LoadSeq1(r)
      PROVE  TypeOK'
  BY <1>4 DEF LoadSeq1, Silence
<1>5. ASSUME NEW r \in Readers, NEW w \in Words, LoadWord(r, w)
      PROVE  TypeOK'
  BY <1>5 DEF LoadWord
<1>6. ASSUME NEW r \in Readers, LoadSeq2(r)
      PROVE  TypeOK'
  BY <1>6 DEF LoadSeq2
<1>7. ASSUME NEW r \in Readers, ReadReturn(r) \/ ReadRetry(r)
      PROVE  TypeOK'
  BY <1>7 DEF ReadReturn, ReadRetry
<1>8. CASE UNCHANGED vars
  BY <1>8 DEF vars
<1> QED
  BY <1>1, <1>2, <1>3, <1>4, <1>5, <1>6, <1>7, <1>8 DEF Next, Spin, ReadStep

\* The variables of every state have their types, on both memory models.
THEOREM TypeCorrect == Spec => []TypeOK
  BY TypeInit, TypeNext, PTL DEF Spec

-----------------------------------------------------------------------------
(* Both memory models: nothing older than what was published.             *)

LEMMA PublishedHalf == Inv => Published \in Nat /\ seq \div 2 = Published
<1> SUFFICES ASSUME Inv PROVE Published \in Nat /\ seq \div 2 = Published
  OBVIOUS
<1>1. Published \in Nat
  BY DEF Inv, TypeOK, CounterInv, Published
<1>2. seq = 2 * Published \/ seq = 2 * Published + 1
  BY DEF Inv, TypeOK, CounterInv, Published
<1> QED
  BY <1>1, <1>2, Halves

LEMMA PublishedAge == ASSUME Inv, NEW w \in Words
                      PROVE  data[w] \in Nat /\ data[w] >= Published
  BY DEF Inv, TypeOK, CounterInv, WordInv, Published, Frames

LEMMA InvInit == Init => Inv
<1> SUFFICES ASSUME Init PROVE Inv
  OBVIOUS
<1>1. TypeOK
  BY TypeInit
<1>2. CounterInv /\ WordInv
  BY DEF Init, CounterInv, WordInv, Silence
<1>3. ASSUME NEW r \in Readers
      PROVE  ReaderFresh(r)
  BY DEF Init, ReaderFresh, Silence, Published
<1> QED
  BY <1>1, <1>2, <1>3 DEF Inv

\* The writer's steps never take the published frame back.
LEMMA WriterInv == Inv /\ (Writer \/ Crash) => Inv'
<1> SUFFICES ASSUME Inv, Writer \/ Crash PROVE Inv'
  OBVIOUS
<1> DEFINE Forward == /\ CounterInv' /\ WordInv'
                      /\ seq' >= seq /\ Published' >= Published
                      /\ UNCHANGED readerVars
<1>1. TypeOK'
  BY TypeNext DEF Inv, Next
<1>2. Forward
  <2> USE DEF Inv, TypeOK, CounterInv, WordInv, Published, Frames
  <2>1. CASE WriteBegin
    BY <2>1 DEF WriteBegin
  <2>2. CASE StoreOdd
    BY <2>2 DEF StoreOdd
  <2>3. ASSUME NEW w \in Words, StoreWord(w)
        PROVE  Forward
    BY <2>3 DEF StoreWord
  <2>4. CASE StoreEven
    BY <2>4 DEF StoreEven
  <2>5. CASE Crash
    BY <2>5 DEF Crash
  <2> QED
    BY <2>1, <2>2, <2>3, <2>4, <2>5 DEF Writer
<1>3. ASSUME NEW r \in Readers
      PROVE  ReaderFresh(r)'
  <2>1. ReaderFresh(r) /\ UNCHANGED <<rpc, s1, todo, got, ret, since>>
    BY <1>2 DEF Inv, readerVars
  <2>2. /\ seq \in Nat /\ seq' \in Nat /\ s1[r] \in Nat /\ since[r] \in Nat
        /\ Published \in Int /\ Published' \in Int
    BY <1>1 DEF Inv, TypeOK, Published
  <2> QED
    BY <1>2, <2>1, <2>2 DEF ReaderFresh
<1> QED
  BY <1>1, <1>2, <1>3 DEF Inv

\* A reader's step leaves the writer and the other readers alone.
LEMMA ReaderInv == ASSUME Inv, NEW r \in Readers, ReadCall(r) \/ ReadStep(r)
                   PROVE  Inv'
<1>1. TypeOK'
  BY TypeNext DEF Inv, Next
<1>2. CounterInv' /\ WordInv' /\ Published' = Published /\ seq' = seq
  BY DEF Inv, CounterInv, WordInv, Published, ReadCall, ReadStep, LoadSeq1, LoadWord,
         LoadSeq2, ReadReturn, ReadRetry, writerVars
<1>3. ASSUME NEW q \in Readers, q # r
      PROVE  ReaderFresh(q)'
  <2>1. ReaderFresh(q)
    BY DEF Inv
  <2>2. /\ rpc'[q] = rpc[q] /\ s1'[q] = s1[q] /\ todo'[q] = todo[q]
        /\ got'[q] = got[q] /\ ret'[q] = ret[q] /\ since'[q] = since[q]
    BY <1>3 DEF Inv, TypeOK, ReadCall, ReadStep, LoadSeq1, LoadWord, LoadSeq2,
                ReadReturn, ReadRetry
  <2> QED
    BY <1>2, <2>1, <2>2 DEF ReaderFresh
<1>4. ReaderFresh(r)'
  <2> USE DEF ReaderFresh
  <2>1. ReaderFresh(r)
    BY DEF Inv
  <2>2. CASE ReadCall(r)
    <3>1. rpc'[r] = "load" /\ since'[r] = seq \div 2
      BY <2>2 DEF ReadCall, Inv, TypeOK
    <3>2. seq \div 2 = Published /\ Published \in Nat
      BY PublishedHalf
    <3> QED
      BY <1>2, <3>1, <3>2
  <2>3. CASE LoadSeq1(r)
    <3>1. /\ rpc'[r] = "copy" /\ since'[r] = since[r] /\ s1'[r] = seq
          /\ todo'[r] = Words /\ seq % 2 = 0 /\ seq' = seq /\ seq \in Nat
      BY <2>3 DEF LoadSeq1, Inv, TypeOK
    <3>2. seq \div 2 = Published
      BY PublishedHalf
    <3> QED
      BY <1>2, <2>1, <3>1, <3>2
  <2>4. ASSUME NEW w \in Words, LoadWord(r, w)
        PROVE  ReaderFresh(r)'
    <3>1. /\ rpc'[r] = rpc[r] /\ rpc[r] = "copy" /\ since'[r] = since[r]
          /\ s1'[r] = s1[r] /\ todo'[r] = todo[r] \ {w}
          /\ got'[r] = [got[r] EXCEPT ![w] = data[w]]
      BY <2>4 DEF LoadWord, Inv, TypeOK
    <3>2. got[r] \in [Words -> Nat] /\ s1[r] \in Nat /\ seq \in Nat
      BY DEF Inv, TypeOK, Frames
    <3>3. data[w] \in Nat /\ data[w] >= s1[r] \div 2
      <4>1. s1[r] <= seq
        BY <2>1, <3>1
      <4>2. s1[r] \div 2 <= seq \div 2
        BY <4>1, <3>2
      <4> QED
        BY <4>2, <3>2, PublishedHalf, PublishedAge
    <3>4. ASSUME NEW v \in Words \ todo'[r]
          PROVE  got'[r][v] >= s1[r] \div 2
      BY <2>1, <3>1, <3>2, <3>3
    <3> QED
      BY <1>2, <2>1, <3>1, <3>4
  <2>5. CASE LoadSeq2(r)
    BY <1>2, <2>1, <2>5 DEF LoadSeq2
  <2>6. CASE ReadReturn(r)
    <3>1. /\ rpc'[r] = "idle" /\ rpc[r] = "copy" /\ since'[r] = since[r]
          /\ ret'[r] = got[r] /\ todo[r] = {}
      BY <2>6 DEF ReadReturn, Inv, TypeOK
    <3>2. got[r] \in [Words -> Nat] /\ s1[r] \in Nat /\ since[r] \in Nat
      BY DEF Inv, TypeOK, Frames
    <3>3. s1[r] \div 2 \in Nat
      BY <3>2
    <3> QED
      BY <1>2, <2>1, <3>1, <3>2, <3>3
  <2>7. CASE ReadRetry(r)
    BY <1>2, <2>1, <2>7 DEF ReadRetry, Inv, TypeOK
  <2> QED
    BY <2>2, <2>3, <2>4, <2>5, <2>6, <2>7 DEF ReadStep
<1> QED
  BY <1>1, <1>2, <1>3, <1>4 DEF Inv

LEMMA InvNext == Inv /\ [Next]_vars => Inv'
<1> SUFFICES ASSUME Inv, [Next]_vars PROVE Inv'
  OBVIOUS
<1>1. CASE UNCHANGED vars
  BY <1>1 DEF vars, Inv, TypeOK, CounterInv, WordInv, ReaderFresh, Published
<1> QED
  BY <1>1, WriterInv, ReaderInv DEF Next, Spin

\* On both memory models no word that read_frame returns is older than the
\* frame that was published when it was called.
THEOREM Freshness == Spec => []FreshRead
<1>1. Inv => FreshRead
  BY DEF Inv, ReaderFresh, FreshRead
<1> QED
  BY InvInit, InvNext, <1>1, PTL DEF Spec

-----------------------------------------------------------------------------
(***************************************************************************)
(* Total store order: whole frames.  The odd store is visible before the   *)
(* first store of the copy, so while the counter still has the value the   *)
(* reader saw, every word is the published frame's; when the second load   *)
(* finds that value, all the words were loaded before it and agree.        *)
(***************************************************************************)
OrderInv == wpc = "odd" => dataPending = Words

TornFree(r) ==
  /\ \A v, w \in Words : ret[r][v] = ret[r][w]
  /\ rpc[r] = "copy" /\ chk[r] = "no" /\ seq = s1[r]
       => \A w \in Words \ todo[r] : got[r][w] = s1[r] \div 2
  /\ rpc[r] = "copy" /\ chk[r] = "same"
       => todo[r] = {} /\ \A w \in Words : got[r][w] = s1[r] \div 2

TsoInv == Inv /\ OrderInv /\ (\A r \in Readers : TornFree(r))

\* While the counter is even every word holds the published frame.
LEMMA EvenPage == ASSUME TsoInv, seq % 2 = 0, NEW w \in Words
                  PROVE  data[w] = seq \div 2
<1>1. wpc # "copy"
  <2> SUFFICES ASSUME wpc = "copy" PROVE FALSE
    OBVIOUS
  <2>1. frame - 1 \in Nat /\ seq = 2 * (frame - 1) + 1
    BY DEF TsoInv, Inv, TypeOK, CounterInv
  <2> QED
    BY <2>1, Halves
<1>2. data[w] = Published
  BY <1>1 DEF TsoInv, OrderInv, Inv, TypeOK, CounterInv, WordInv, Published
<1> QED
  BY <1>2, PublishedHalf DEF TsoInv

LEMMA TsoInit == Init => TsoInv
  BY InvInit DEF Init, TsoInv, OrderInv, TornFree, Silence

LEMMA TsoWriter == ~Weak /\ TsoInv /\ (Writer \/ Crash) => TsoInv'
<1> SUFFICES ASSUME ~Weak, TsoInv, Writer \/ Crash PROVE TsoInv'
  OBVIOUS
<1>1. Inv'
  BY WriterInv DEF TsoInv
<1>2. OrderInv' /\ UNCHANGED readerVars /\ (seq' = seq \/ seq' > seq)
  BY DEF TsoInv, Inv, TypeOK, OrderInv, CounterInv, Writer, WriteBegin, StoreOdd,
         StoreWord, StoreEven, Crash, readerVars
<1>3. ASSUME NEW r \in Readers
      PROVE  TornFree(r)'
  <2>1. TornFree(r) /\ UNCHANGED <<rpc, s1, todo, chk, got, ret>>
    BY <1>2 DEF TsoInv, readerVars
  <2>2. /\ seq \in Nat /\ seq' \in Nat /\ s1[r] \in Nat
        /\ rpc[r] = "copy" => s1[r] <= seq
    BY <1>1 DEF TsoInv, Inv, TypeOK, ReaderFresh
  <2> QED
    BY <1>2, <2>1, <2>2 DEF TornFree
<1> QED
  BY <1>1, <1>2, <1>3 DEF TsoInv

LEMMA TsoReader == ASSUME ~Weak, TsoInv, NEW r \in Readers, ReadCall(r) \/ ReadStep(r)
                   PROVE  TsoInv'
<1>1. Inv'
  BY ReaderInv DEF TsoInv
<1>2. OrderInv' /\ seq' = seq
  BY DEF TsoInv, OrderInv, ReadCall, ReadStep, LoadSeq1, LoadWord,
         LoadSeq2, ReadReturn, ReadRetry, writerVars
<1>3. ASSUME NEW q \in Readers, q # r
      PROVE  TornFree(q)'
  <2>1. TornFree(q)
    BY DEF TsoInv
  <2>2. /\ rpc'[q] = rpc[q] /\ s1'[q] = s1[q] /\ todo'[q] = todo[q]
        /\ got'[q] = got[q] /\ ret'[q] = ret[q] /\ chk'[q] = chk[q]
    BY <1>3 DEF TsoInv, Inv, TypeOK, ReadCall, ReadStep, LoadSeq1, LoadWord, LoadSeq2,
                ReadReturn, ReadRetry
  <2> QED
    BY <1>2, <2>1, <2>2 DEF TornFree
<1>4. TornFree(r)'
  <2> USE DEF TornFree
  <2>1. TornFree(r) /\ ReaderFresh(r)
    BY DEF TsoInv, Inv
  <2>2. CASE ReadCall(r)
    BY <1>2, <2>1, <2>2 DEF ReadCall, TsoInv, Inv, TypeOK
  <2>3. CASE LoadSeq1(r)
    BY <1>2, <2>1, <2>3 DEF LoadSeq1, TsoInv, Inv, TypeOK
  <2>4. ASSUME NEW w \in Words, LoadWord(r, w)
        PROVE  TornFree(r)'
    <3>1. /\ rpc'[r] = rpc[r] /\ rpc[r] = "copy" /\ chk'[r] = chk[r]
          /\ s1'[r] = s1[r] /\ ret'[r] = ret[r]
          /\ w \in todo[r] /\ todo'[r] = todo[r] \ {w}
          /\ got'[r] = [got[r] EXCEPT ![w] = data[w]]
      BY <2>4 DEF LoadWord, TsoInv, Inv, TypeOK
    <3>2. got[r] \in [Words -> Nat]
      BY DEF TsoInv, Inv, TypeOK, Frames
    <3>3. seq = s1[r] => data[w] = s1[r] \div 2
      BY <2>1, <3>1, EvenPage DEF ReaderFresh
    <3> QED
      BY <1>2, <2>1, <3>1, <3>2, <3>3
  <2>5. CASE LoadSeq2(r)
    BY <1>2, <2>1, <2>5 DEF LoadSeq2, TsoInv, Inv, TypeOK
  <2>6. CASE ReadReturn(r)
    BY <1>2, <2>1, <2>6 DEF ReadReturn, TsoInv, Inv, TypeOK
  <2>7. CASE ReadRetry(r)
    BY <1>2, <2>1, <2>7 DEF ReadRetry, TsoInv, Inv, TypeOK
  <2> QED
    BY <2>2, <2>3, <2>4, <2>5, <2>6, <2>7 DEF ReadStep
<1> QED
  BY <1>1, <1>2, <1>3, <1>4 DEF TsoInv

LEMMA TsoNext == ~Weak /\ TsoInv /\ [Next]_vars => TsoInv'
<1> SUFFICES ASSUME ~Weak, TsoInv, [Next]_vars PROVE TsoInv'
  OBVIOUS
<1>1. CASE UNCHANGED vars
  <2>1. Inv'
    BY <1>1, InvNext DEF TsoInv
  <2> QED
    BY <1>1, <2>1 DEF vars, TsoInv, OrderInv, TornFree
<1> QED
  BY <1>1, TsoWriter, TsoReader DEF Next, Spin

\* With total store order read_frame never returns words of two frames.
THEOREM NoTearing == ASSUME ~Weak PROVE Spec => []NoTornRead
<1>1. Init => TsoInv
  BY TsoInit
<1>2. TsoInv /\ [Next]_vars => TsoInv'
  BY TsoNext
<1>3. TsoInv => NoTornRead
  BY DEF TsoInv, TornFree, NoTornRead
<1> QED
  BY <1>1, <1>2, <1>3, PTL DEF Spec

-----------------------------------------------------------------------------
(* Total store order: every step is a step of the atomic register.         *)

LEMMA WriterRefines == ASSUME TsoInv, Writer \/ Crash
                       PROVE  [Register!Next]_Register!vars
<1>1. UNCHANGED <<rpc, s1, ret>>
  BY DEF Writer, WriteBegin, StoreOdd, StoreWord, StoreEven, Crash, readerVars
<1>2. CASE StoreOdd
  <2>1. cur \div 2 = (cur + 1) \div 2
    <3>1. frame - 1 \in Nat /\ cur = 2 * (frame - 1)
      BY <1>2 DEF StoreOdd, TsoInv, Inv, TypeOK, CounterInv
    <3> QED
      BY <3>1, Halves
  <2>2. seq = cur /\ seq' = cur + 1
    BY <1>2 DEF StoreOdd, TsoInv, Inv, CounterInv
  <2> QED
    BY <1>1, <2>1, <2>2 DEF Register!vars
<1>3. CASE StoreEven
  <2>1. frame - 1 \in Nat /\ frame \in Nat /\ seq = 2 * (frame - 1) + 1 /\ seq' = 2 * frame
    BY <1>3 DEF StoreEven, TsoInv, Inv, TypeOK, CounterInv
  <2>2. seq' \div 2 = (seq \div 2) + 1
    BY <2>1, Halves
  <2> QED
    BY <1>1, <2>2 DEF Register!Next, Register!Publish
<1>4. CASE ~StoreOdd /\ ~StoreEven
  BY <1>1, <1>4 DEF Writer, WriteBegin, StoreWord, Crash, Register!vars
<1> QED
  BY <1>2, <1>3, <1>4

LEMMA ReaderRefines == ASSUME TsoInv, NEW r \in Readers, ReadCall(r) \/ ReadStep(r)
                       PROVE  [Register!Next]_Register!vars
<1>1. CASE ReadCall(r)
  BY <1>1 DEF ReadCall, Register!Next, Register!Call
<1>2. CASE LoadSeq1(r)
  <2>1. [q \in Readers |-> s1'[q] \div 2]
          = [[q \in Readers |-> s1[q] \div 2] EXCEPT ![r] = seq \div 2]
    BY <1>2 DEF LoadSeq1, TsoInv, Inv, TypeOK
  <2>2. Register!Take(r)
    BY <1>2, <2>1 DEF LoadSeq1, Register!Take
  <2> QED
    BY <2>2 DEF Register!Next
<1>3. CASE \E w \in Words : LoadWord(r, w)
  BY <1>3 DEF LoadWord, Register!vars
<1>4. CASE LoadSeq2(r)
  BY <1>4 DEF LoadSeq2, Register!vars
<1>5. CASE ReadReturn(r)
  <2>1. got[r] = [w \in Words |-> s1[r] \div 2]
    <3>1. got[r] \in [Words -> Nat]
      BY DEF TsoInv, Inv, TypeOK, Frames
    <3>2. \A w \in Words : got[r][w] = s1[r] \div 2
      BY <1>5 DEF ReadReturn, TsoInv, TornFree
    <3> QED
      BY <3>1, <3>2
  <2>2. Register!Return(r)
    BY <1>5, <2>1 DEF ReadReturn, Register!Return
  <2> QED
    BY <2>2 DEF Register!Next
<1>6. CASE ReadRetry(r)
  BY <1>6 DEF ReadRetry, Register!Next, Register!Retry
<1> QED
  BY <1>1, <1>2, <1>3, <1>4, <1>5, <1>6 DEF ReadStep

\* With total store order the page implements the atomic register: a read
\* returns the frame that was published at one instant of the call.
THEOREM Refinement == ASSUME ~Weak PROVE Spec => ImplementsAtomicFrame
<1>1. Init => TsoInv
  BY TsoInit
<1>2. TsoInv /\ [Next]_vars => TsoInv'
  BY TsoNext
<1>3. Init => Register!Init
  BY DEF Init, Silence, Register!Init
<1>4. TsoInv /\ [Next]_vars => [Register!Next]_Register!vars
  <2> SUFFICES ASSUME TsoInv, [Next]_vars PROVE [Register!Next]_Register!vars
    OBVIOUS
  <2>1. CASE UNCHANGED vars
    BY <2>1 DEF vars, Register!vars
  <2> QED
    BY <2>1, WriterRefines, ReaderRefines DEF Next, Spin
<1> QED
  BY <1>1, <1>2, <1>3, <1>4, PTL DEF Spec, ImplementsAtomicFrame, Register!Spec
==============================================================================
