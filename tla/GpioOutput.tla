----------------------------- MODULE GpioOutput -----------------------------
(***************************************************************************)
(* The GPIO outputs of the sound chip: PTT (bit 0), which keys the         *)
(* transmitter, and the heartbeat LED (bit 3).  The threads that set pins  *)
(* are one handler per connected client (SetGpio messages) and the         *)
(* heartbeat thread.  They share one HidGpio behind a mutex.  HidGpio      *)
(* keeps a shadow of the output byte, and every set_pin sends the whole    *)
(* byte to the chip in one USB control transfer, made with the mutex held. *)
(*                                                                         *)
(* The transfer can fail, before or after the chip has taken the report;   *)
(* the daemon can be killed at any point and is restarted by systemd; the  *)
(* chip keeps driving its pins meanwhile.                                  *)
(*                                                                         *)
(* Modelled build: release, where debug_assert!(pin < 4) is compiled out   *)
(* and 1u8 << pin takes the shift modulo 8.  Left out: the clock readings  *)
(* that choose between two blink rates (time is not modelled, any delay is *)
(* possible), and gpio_dir, which never changes.                           *)
(***************************************************************************)
EXTENDS Naturals

CONSTANTS Clients,    \* the clients, each with a handler thread while connected
          Heartbeat,  \* the heartbeat thread
          Pins        \* the pin numbers clients put in SetGpio, u8 values

ASSUME ThreadAssumption == Heartbeat \notin Clients
ASSUME PinAssumption == Pins \subseteq 0..255

Threads == Clients \cup {Heartbeat}
Levels == {"low", "high"}
Bits == 0..7

PTT == 0
HEARTBEAT_PIN == 3

VARIABLES daemon,    \* "up" or "down"
          gpio_out,  \* HidGpio's shadow: the bits that are high
          holder,    \* the threads inside the mutex
          pc,        \* pc[t]: "gone", "wait" (for a message, or asleep), "lock", "usb"
          req,       \* req[t]: the pin and level the thread last asked for;
                     \* the heartbeat's level is its pin_state
          rep,       \* rep[t]: the output byte of the report t is sending
          hw,        \* the bits the chip drives
          last,      \* last[b]: history, the level last asked for bit b, in
                     \* the order of the mutex and since the daemon started
          result     \* history, how the last transfer ended: "ok", "failed",
                     \* or "none" since the daemon started

vars == <<daemon, gpio_out, holder, pc, req, rep, hw, last, result>>

\* MUTANT: a mask where the index of a bit is meant.
BitMask(pin) == 2 ^ (pin % 8)

\* The pin a release build shifts to: 1u8 << pin is masked.
Bit(pin) == pin % 8

\* The threads of a daemon that has just started: the heartbeat, asleep.
StartPc == [t \in Threads |-> IF t = Heartbeat THEN "wait" ELSE "gone"]
StartReq == [t \in Threads |-> [pin |-> HEARTBEAT_PIN, level |-> "low"]]

Init == /\ daemon = "up"
        /\ gpio_out = {}
        /\ holder = {}
        /\ pc = StartPc
        /\ req = StartReq
        /\ rep = [t \in Threads |-> {}]
        /\ hw = {}
        /\ last = [b \in Bits |-> "low"]
        /\ result = "none"

-----------------------------------------------------------------------------
(* The handler threads and the heartbeat thread.                           *)

Connect(c) == /\ daemon = "up" /\ pc[c] = "gone"
              /\ pc' = [pc EXCEPT ![c] = "wait"]
              /\ UNCHANGED <<daemon, gpio_out, holder, req, rep, hw, last, result>>

\* End of stream or a read error: the handler returns.  It leaves the pins as
\* they are.
Disconnect(c) == /\ daemon = "up" /\ pc[c] = "wait"
                 /\ pc' = [pc EXCEPT ![c] = "gone"]
                 /\ UNCHANGED <<daemon, gpio_out, holder, req, rep, hw, last, result>>

\* The handler has read a SetGpio message and goes for the mutex.
SetGpio(c, pin, level) ==
  /\ daemon = "up" /\ pc[c] = "wait"
  /\ pc' = [pc EXCEPT ![c] = "lock"]
  /\ req' = [req EXCEPT ![c] = [pin |-> pin, level |-> level]]
  /\ UNCHANGED <<daemon, gpio_out, holder, rep, hw, last, result>>

\* MUTANT: the heartbeat thread ends when a report could not be written.
BeatUntilError == /\ daemon = "up" /\ pc[Heartbeat] = "wait" /\ result # "failed"
                  /\ pc' = [pc EXCEPT ![Heartbeat] = "lock"]
                  /\ req' = [req EXCEPT ![Heartbeat].level = IF @ = "low" THEN "high" ELSE "low"]
                  /\ UNCHANGED <<daemon, gpio_out, holder, rep, hw, last, result>>

\* The half period is over: pin_state = !pin_state, and the mutex.
Beat == /\ daemon = "up" /\ pc[Heartbeat] = "wait"
        /\ pc' = [pc EXCEPT ![Heartbeat] = "lock"]
        /\ req' = [req EXCEPT ![Heartbeat].level = IF @ = "low" THEN "high" ELSE "low"]
        /\ UNCHANGED <<daemon, gpio_out, holder, rep, hw, last, result>>

\* The shadow after set_pin.
Shadow(pin, level) == IF level = "high" THEN gpio_out \cup {Bit(pin)}
                                        ELSE gpio_out \ {Bit(pin)}

\* MUTANT: set_pin is called without the mutex.
SetPinUnlocked(t) ==
  /\ daemon = "up" /\ pc[t] = "lock"
  /\ LET out == Shadow(req[t].pin, req[t].level)
     IN  /\ gpio_out' = out
         /\ rep' = [rep EXCEPT ![t] = out]
  /\ holder' = holder \cup {t}
  /\ pc' = [pc EXCEPT ![t] = "usb"]
  /\ last' = [last EXCEPT ![Bit(req[t].pin)] = req[t].level]
  /\ UNCHANGED <<daemon, req, hw, result>>

\* MUTANT: the heartbeat thread has a HidGpio, and so a shadow, of its own.
SetPinOwnShadow(t) ==
  /\ daemon = "up" /\ pc[t] = "lock" /\ holder = {}
  /\ LET out == Shadow(req[t].pin, req[t].level)
     IN  /\ gpio_out' = out
         /\ rep' = [rep EXCEPT ![t] = IF t = Heartbeat THEN out \cap {HEARTBEAT_PIN} ELSE out]
  /\ holder' = {t}
  /\ pc' = [pc EXCEPT ![t] = "usb"]
  /\ last' = [last EXCEPT ![Bit(req[t].pin)] = req[t].level]
  /\ UNCHANGED <<daemon, req, hw, result>>

\* The mutex is taken; set_pin changes the shadow and write_report submits it.
SetPin(t) ==
  /\ daemon = "up" /\ pc[t] = "lock" /\ holder = {}
  /\ LET out == Shadow(req[t].pin, req[t].level)
     IN  /\ gpio_out' = out
         /\ rep' = [rep EXCEPT ![t] = out]
  /\ holder' = {t}
  /\ pc' = [pc EXCEPT ![t] = "usb"]
  /\ last' = [last EXCEPT ![Bit(req[t].pin)] = req[t].level]
  /\ UNCHANGED <<daemon, req, hw, result>>

\* write_control returned Ok; the mutex is released.
WriteOk(t) == /\ daemon = "up" /\ pc[t] = "usb"
              /\ hw' = rep[t]
              /\ result' = "ok"
              /\ holder' = holder \ {t}
              /\ pc' = [pc EXCEPT ![t] = "wait"]
              /\ UNCHANGED <<daemon, gpio_out, req, rep, last>>

\* write_control failed or timed out, with or without effect on the chip.  A
\* handler logs the error, the heartbeat ignores it; the shadow keeps the
\* value the chip did not get.
WriteFails(t) == /\ daemon = "up" /\ pc[t] = "usb"
                 /\ hw' \in {hw, rep[t]}
                 /\ result' = "failed"
                 /\ holder' = holder \ {t}
                 /\ pc' = [pc EXCEPT ![t] = "wait"]
                 /\ UNCHANGED <<daemon, gpio_out, req, rep, last>>

-----------------------------------------------------------------------------
\* The process is killed; a transfer under way may still reach the chip.
Crash == /\ daemon = "up"
         /\ daemon' = "down"
         /\ hw' \in {hw} \cup {rep[t] : t \in holder}
         /\ pc' = [t \in Threads |-> "gone"]
         /\ holder' = {}
         /\ UNCHANGED <<gpio_out, req, rep, last, result>>

\* systemd starts the daemon again, with HidGpio::new.
Restart == /\ daemon = "down"
           /\ daemon' = "up"
           /\ gpio_out' = {}
           /\ pc' = StartPc
           /\ req' = StartReq
           /\ rep' = [t \in Threads |-> {}]
           /\ last' = [b \in Bits |-> "low"]
           /\ result' = "none"
           /\ UNCHANGED <<holder, hw>>

Next == \/ \E c \in Clients : \/ Connect(c)
                              \/ Disconnect(c)
                              \/ \E pin \in Pins, level \in Levels : SetGpio(c, pin, level)
        \/ Beat
        \/ \E t \in Threads : SetPin(t) \/ WriteOk(t) \/ WriteFails(t)
        \/ Crash
        \/ Restart

Spec == Init /\ [][Next]_vars

\* The heartbeat thread keeps waking; a free mutex that somebody wants is
\* given to somebody (std's Mutex promises no more than that); a transfer ends,
\* at the latest after its timeout of 100 ms; a chip that is asked again and
\* again takes a report now and then.
Fairness == /\ WF_vars(Beat)
            /\ WF_vars(\E t \in Threads : SetPin(t))
            /\ WF_vars(\E t \in Threads : WriteOk(t) \/ WriteFails(t))
            /\ SF_vars(\E t \in Threads : WriteOk(t))

FairSpec == Spec /\ Fairness

-----------------------------------------------------------------------------
(* Properties                                                              *)

\* Types; no pin number that SetGpio may carry leaves the eight bits of set_pin.
TypeOK == /\ daemon \in {"up", "down"}
          /\ gpio_out \in SUBSET Bits
          /\ holder \in SUBSET Threads
          /\ pc \in [Threads -> {"gone", "wait", "lock", "usb"}]
          /\ req \in [Threads -> [pin : 0..255, level : Levels]]
          /\ rep \in [Threads -> SUBSET Bits]
          /\ hw \in SUBSET Bits
          /\ last \in [Bits -> Levels]
          /\ result \in {"none", "ok", "failed"}

\* No update is lost between handlers and heartbeat: when the mutex is free
\* and the last report got through, the chip drives exactly the bits whose
\* last request, by whichever thread, was "high" (set_pin under the mutex).
LastRequestWins == daemon = "up" /\ holder = {} /\ result = "ok"
                     => hw = {b \in Bits : last[b] = "high"}

\* A late report never keys the transmitter again: the PTT line rises only
\* when a report that carries PTT ends, and only while the last request for
\* PTT is still "high", although the transfer runs long after the shadow was
\* changed and may fail or be cut off by a crash.
PttRisesOnlyByReport ==
  [][PTT \notin hw /\ PTT \in hw'
       => \E t \in holder : PTT \in rep[t] /\ last[PTT] = "high"]_vars

\* The line is unkeyed in the end, whatever failed: if from some time on the
\* daemon runs and its shadow has PTT low, then the chip drops PTT for good,
\* although the write that should have done it may have failed, or the daemon
\* may have been restarted with the transmitter keyed.  The heartbeat's
\* periodic report is what repairs it.
PttHeals == <>[](daemon = "up" /\ PTT \notin gpio_out) => <>[](PTT \notin hw)

\* hid_gpio.rs asserts pin < 4 in set_pin: then PTT is keyed by nothing but a
\* request for pin 0.
PttOnlyByPin0 ==
  [][last[PTT] = "low" /\ last'[PTT] = "high"
       => \E t \in Threads : pc[t] = "lock" /\ req[t].pin = PTT /\ t \in holder']_vars
==============================================================================
