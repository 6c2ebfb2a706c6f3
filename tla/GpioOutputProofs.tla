--------------------------- MODULE GpioOutputProofs ---------------------------
(***************************************************************************)
(* Proofs about GpioOutput for any set of clients and any pin numbers:     *)
(* types, LastRequestWins and PttRisesOnlyByReport.                        *)
(***************************************************************************)
EXTENDS GpioOutput, TLAPS

USE ThreadAssumption, PinAssumption

(***************************************************************************)
(* The inductive invariant.  The mutex has at most one holder, which is    *)
(* the thread with a transfer under way, and its report is the shadow as   *)
(* it is now, not only as it was when the report was put together.  The    *)
(* shadow is what the requests add up to; the chip has it once a transfer  *)
(* went through and nobody is in the mutex.                                *)
(***************************************************************************)
MutexInv == /\ \A t \in Threads : pc[t] = "usb" <=> t \in holder
            /\ \A t, u \in holder : t = u
            /\ \A t \in holder : rep[t] = gpio_out
            /\ daemon = "down" => holder = {}

ShadowInv == gpio_out = {b \in Bits : last[b] = "high"}

SettledInv == daemon = "up" /\ holder = {} /\ result = "ok" => hw = gpio_out

Inv == TypeOK /\ MutexInv /\ ShadowInv /\ SettledInv
-----------------------------------------------------------------------------
\* A release build reduces every u8 pin number to one of the eight bits.
LEMMA BitRange == ASSUME NEW pin \in 0..255 PROVE Bit(pin) \in Bits
  BY DEF Bit, Bits

LEMMA InvInit == Init => Inv
<1> SUFFICES ASSUME Init PROVE Inv
  OBVIOUS
<1>1. TypeOK
  BY DEF Init, TypeOK, StartPc, StartReq, Bits, Levels, HEARTBEAT_PIN
<1>2. MutexInv /\ ShadowInv /\ SettledInv
  BY DEF Init, MutexInv, ShadowInv, SettledInv, StartPc
<1> QED
  BY <1>1, <1>2 DEF Inv

\* The steps of a thread outside the mutex.
LEMMA OutsideInv == ASSUME Inv,
                           \/ Beat
                           \/ \E c \in Clients : Connect(c) \/ Disconnect(c)
                           \/ \E c \in Clients, pin \in Pins, level \in Levels :
                                SetGpio(c, pin, level)
                    PROVE  Inv'
<1>1. CASE Beat
  <2>1. TypeOK'
    BY <1>1 DEF Beat, Inv, TypeOK, Threads, Levels
  <2>2. MutexInv' /\ ShadowInv' /\ SettledInv'
    BY <1>1 DEF Beat, Inv, TypeOK, MutexInv, ShadowInv, SettledInv, Threads
  <2> QED
    BY <2>1, <2>2 DEF Inv
<1>2. ASSUME NEW c \in Clients, Connect(c) \/ Disconnect(c)
      PROVE  Inv'
  <2>1. TypeOK'
    BY <1>2 DEF Connect, Disconnect, Inv, TypeOK, Threads
  <2>2. MutexInv'
    <3>1. CASE Connect(c)
      BY <3>1 DEF Connect, Inv, TypeOK, MutexInv, Threads
    <3>2. CASE Disconnect(c)
      BY <3>2 DEF Disconnect, Inv, TypeOK, MutexInv, Threads
    <3> QED
      BY <1>2, <3>1, <3>2
  <2>3. ShadowInv' /\ SettledInv'
    BY <1>2 DEF Connect, Disconnect, Inv, ShadowInv, SettledInv
  <2> QED
    BY <2>1, <2>2, <2>3 DEF Inv
<1>3. ASSUME NEW c \in Clients, NEW pin \in Pins, NEW level \in Levels,
             SetGpio(c, pin, level)
      PROVE  Inv'
  <2>1. TypeOK'
    BY <1>3 DEF SetGpio, Inv, TypeOK, Threads
  <2>2. MutexInv' /\ ShadowInv' /\ SettledInv'
    BY <1>3 DEF SetGpio, Inv, TypeOK, MutexInv, ShadowInv, SettledInv, Threads
  <2> QED
    BY <2>1, <2>2 DEF Inv
<1> QED
  BY <1>1, <1>2, <1>3

\* Taking the mutex: the shadow and the history change together.
LEMMA SetPinInv == ASSUME Inv, NEW t \in Threads, SetPin(t)
                   PROVE  Inv'
<1> DEFINE b == Bit(req[t].pin)
<1>1. b \in Bits /\ req[t].level \in Levels
  BY BitRange DEF Inv, TypeOK
<1> HIDE DEF b
<1>2. gpio_out' = IF req[t].level = "high" THEN gpio_out \cup {b} ELSE gpio_out \ {b}
  BY DEF SetPin, Shadow, b
<1>3. last' = [last EXCEPT ![b] = req[t].level]
  BY DEF SetPin, b
<1>4. rep' = [rep EXCEPT ![t] = gpio_out'] /\ holder' = {t}
  BY DEF SetPin
<1>5. TypeOK'
  <2>1. gpio_out' \in SUBSET Bits
    BY <1>1, <1>2 DEF Inv, TypeOK
  <2> QED
    BY <1>1, <1>3, <1>4, <2>1 DEF SetPin, Inv, TypeOK
<1>6. MutexInv'
  BY <1>4 DEF SetPin, Inv, TypeOK, MutexInv
<1>7. ShadowInv'
  BY <1>1, <1>2, <1>3 DEF Inv, TypeOK, ShadowInv, Levels
<1>8. SettledInv'
  BY <1>4 DEF SettledInv
<1> QED
  BY <1>5, <1>6, <1>7, <1>8 DEF Inv

\* The end of a transfer: its report is still the shadow.
LEMMA WriteInv == ASSUME Inv, NEW t \in Threads, WriteOk(t) \/ WriteFails(t)
                  PROVE  Inv'
<1>1. t \in holder /\ rep[t] = gpio_out /\ holder' = {}
  BY DEF WriteOk, WriteFails, Inv, MutexInv
<1>2. TypeOK'
  BY DEF WriteOk, WriteFails, Inv, TypeOK
<1>3. MutexInv'
  BY <1>1 DEF WriteOk, WriteFails, Inv, TypeOK, MutexInv
<1>4. ShadowInv' /\ SettledInv'
  BY <1>1 DEF WriteOk, WriteFails, Inv, ShadowInv, SettledInv
<1> QED
  BY <1>2, <1>3, <1>4 DEF Inv

LEMMA CrashInv == Inv /\ (Crash \/ Restart) => Inv'
<1> SUFFICES ASSUME Inv, Crash \/ Restart PROVE Inv'
  OBVIOUS
<1>1. CASE Crash
  <2>1. TypeOK'
    BY <1>1 DEF Crash, Inv, TypeOK
  <2>2. MutexInv' /\ ShadowInv' /\ SettledInv'
    BY <1>1 DEF Crash, Inv, MutexInv, ShadowInv, SettledInv
  <2> QED
    BY <2>1, <2>2 DEF Inv
<1>2. CASE Restart
  <2>1. TypeOK'
    BY <1>2 DEF Restart, Inv, TypeOK, StartPc, StartReq, Bits, Levels, HEARTBEAT_PIN
  <2>2. MutexInv' /\ ShadowInv' /\ SettledInv'
    BY <1>2 DEF Restart, Inv, MutexInv, ShadowInv, SettledInv, StartPc
  <2> QED
    BY <2>1, <2>2 DEF Inv
<1> QED
  BY <1>1, <1>2

LEMMA InvNext == Inv /\ [Next]_vars => Inv'
<1> SUFFICES ASSUME Inv, [Next]_vars PROVE Inv'
  OBVIOUS
<1>1. CASE UNCHANGED vars
  BY <1>1 DEF vars, Inv, TypeOK, MutexInv, ShadowInv, SettledInv
<1> QED
  BY <1>1, OutsideInv, SetPinInv, WriteInv, CrashInv DEF Next

-----------------------------------------------------------------------------
\* The variables of every state have their types.
THEOREM TypeCorrect == Spec => []TypeOK
<1>1. Inv => TypeOK
  BY DEF Inv
<1> QED
  BY InvInit, InvNext, <1>1, PTL DEF Spec

\* Handlers and heartbeat never lose each other's pins, for any number of
\* clients, whatever transfers fail and whenever the daemon is restarted.
THEOREM NoLostUpdate == Spec => []LastRequestWins
<1>1. Inv => LastRequestWins
  BY DEF Inv, ShadowInv, SettledInv, LastRequestWins
<1> QED
  BY InvInit, InvNext, <1>1, PTL DEF Spec

\* No late report keys the transmitter after a newer request unkeyed it.
THEOREM NoLateKeying == Spec => PttRisesOnlyByReport
<1> DEFINE Rise == PTT \notin hw /\ PTT \in hw'
                     => \E t \in holder : PTT \in rep[t] /\ last[PTT] = "high"
<1>1. Inv /\ [Next]_vars => [Rise]_vars
  <2> SUFFICES ASSUME Inv, [Next]_vars, vars' # vars, PTT \notin hw, PTT \in hw'
               PROVE  \E t \in holder : PTT \in rep[t] /\ last[PTT] = "high"
    OBVIOUS
  <2>1. ASSUME NEW t \in Threads, WriteOk(t) \/ WriteFails(t)
        PROVE  \E u \in holder : PTT \in rep[u]
    BY <2>1 DEF WriteOk, WriteFails, Inv, MutexInv
  <2>2. ASSUME Crash
        PROVE  \E u \in holder : PTT \in rep[u]
    BY <2>2 DEF Crash
  <2>3. \E t \in holder : PTT \in rep[t]
    BY <2>1, <2>2 DEF Next, Connect, Disconnect, SetGpio, Beat, SetPin, Restart
  <2> QED
    <3>1. PICK t \in holder : PTT \in rep[t]
      BY <2>3
    <3>2. PTT \in gpio_out
      BY <3>1 DEF Inv, MutexInv
    <3>3. last[PTT] = "high"
      BY <3>2 DEF Inv, ShadowInv
    <3> QED
      BY <3>1, <3>3
<1> QED
  BY InvInit, InvNext, <1>1, PTL DEF Spec, PttRisesOnlyByReport
==============================================================================
