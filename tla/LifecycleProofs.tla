---------------------------- MODULE LifecycleProofs ----------------------------
(***************************************************************************)
(* Proofs about Lifecycle for any number of failed calls, crashes and      *)
(* unpluggings: types with TypeOK's claim about who holds an interface,    *)
(* that the card has one owner at a time, and NoTakeover.                  *)
(***************************************************************************)
EXTENDS Lifecycle, TLAPS

USE MaxFaultsAssumption

(***************************************************************************)
(* The inductive invariant.                                                *)
(*                                                                         *)
(* HandleInv: a process has a handle from the end of Open to its end, and  *)
(* none to a card that is out.                                             *)
(*                                                                         *)
(* OwnerInv: a daemon past its claims, whose handle is to this card, is    *)
(* bound to the interfaces it claimed.  Nobody takes them from it: detach  *)
(* concerns the kernel's drivers, a claim free interfaces, and Drop and    *)
(* the end of a process its own.                                           *)
(***************************************************************************)
Running == {"shmem", "rx", "tx", "threads", "heartbeat", "exists", "remove", "mkdir", "bind",
            "serving"}
HasCtrl == Running \cup {"claimHid"}

HandleInv == \A d \in Daemons : /\ dev[d] = "none" <=> pc[d] \in {"off", "open"}
                                /\ card = "out" => dev[d] # "open"

OwnerInv == \A d \in Daemons : dev[d] = "open" => /\ pc[d] \in HasCtrl => driver["AUDIO_CTRL"] = d
                                                  /\ pc[d] \in Running => driver["HID"] = d

Inv == TypeOK /\ HandleInv /\ OwnerInv
-----------------------------------------------------------------------------
Calls == {"open", "AUDIO_CTRL", "AUDIO_OUT", "AUDIO_IN", "HID", "claimCtrl", "claimHid", "shmem",
          "rx", "tx", "threads", "heartbeat", "remove", "mkdir", "bind", "dropCtrl", "dropHid"}
Pcs == {"off", "serving", "exists", "exit"} \cup DOMAIN After

\* What After says of the calls, one by one.
LEMMA AfterFacts ==
  /\ DOMAIN After = Calls
  /\ After["open"] = "AUDIO_CTRL" /\ After["AUDIO_CTRL"] = "AUDIO_OUT"
  /\ After["AUDIO_OUT"] = "AUDIO_IN" /\ After["AUDIO_IN"] = "HID" /\ After["HID"] = "claimCtrl"
  /\ After["claimCtrl"] = "claimHid" /\ After["claimHid"] = "shmem" /\ After["shmem"] = "rx"
  /\ After["rx"] = "tx" /\ After["tx"] = "threads" /\ After["threads"] = "heartbeat"
  /\ After["heartbeat"] = "exists" /\ After["remove"] = "mkdir" /\ After["mkdir"] = "bind"
  /\ After["bind"] = "serving" /\ After["dropCtrl"] = "dropHid" /\ After["dropHid"] = "exit"
  BY DEF After, Calls

\* The interfaces that the claims, the releases and the threads are about.
LEMMA IfaceFacts ==
  /\ Iface["claimCtrl"] = "AUDIO_CTRL" /\ Iface["claimHid"] = "HID"
  /\ Iface["rx"] = "AUDIO_IN" /\ Iface["tx"] = "AUDIO_OUT"
  /\ Iface["dropCtrl"] = "AUDIO_CTRL" /\ Iface["dropHid"] = "HID"
  BY DEF Iface

\* The invariant holds when the program starts.
LEMMA InvInit == Init => Inv
  BY DEF Init, Inv, TypeOK, HandleInv, OwnerInv, Daemons, Streaming, Ifaces, Idle, NoStreams,
         HasCtrl, Running

\* The parts of the state that only types are claimed of.
Rest == /\ stream \in [Daemons -> [Streaming -> {"none", "setup", "running", "ended"}]]
        /\ sock \in {"nodir", "none", "stale"} \cup Daemons
        /\ client \in [at : {"idle", "recv", "mapped"}, from : Daemons \cup {"none"},
                       mail : {"none", "queued", "fd", "closed"}]
        /\ faults \in 0..MaxFaults

\* The end of a process gives up what it holds and nothing else.
LEMMA DieInv == ASSUME Inv, NEW d \in Daemons, Die(d), faults' \in 0..MaxFaults
                PROVE  Inv'
<1>1. /\ card \in {"in", "out"} /\ card' = card
      /\ driver \in [Ifaces -> {"kernel", "none"} \cup {e \in Daemons : dev[e] = "open"}]
      /\ pc \in [Daemons -> Pcs] /\ dev \in [Daemons -> {"none", "open", "gone"}]
      /\ Rest
  BY DEF Inv, TypeOK, Die, Rest, Pcs
<1>2. /\ pc' = [pc EXCEPT ![d] = "off"] /\ dev' = [dev EXCEPT ![d] = "none"]
      /\ driver' = [i \in Ifaces |-> IF driver[i] = d THEN "none" ELSE driver[i]]
  BY DEF Die
<1>3. /\ pc' \in [Daemons -> Pcs] /\ pc'[d] = "off"
      /\ \A e \in Daemons \ {d} : pc'[e] = pc[e]
  BY <1>1, <1>2 DEF Pcs
<1>4. /\ dev' \in [Daemons -> {"none", "open", "gone"}] /\ dev'[d] = "none"
      /\ \A e \in Daemons \ {d} : dev'[e] = dev[e]
  BY <1>1, <1>2
<1>5. driver' \in [Ifaces -> {"kernel", "none"} \cup {e \in Daemons : dev'[e] = "open"}]
  BY <1>1, <1>2, <1>4
<1>6. Rest'
  <2>1. stream' \in [Daemons -> [Streaming -> {"none", "setup", "running", "ended"}]]
    BY <1>1 DEF Die, Rest, NoStreams
  <2>2. sock' \in {"nodir", "none", "stale"} \cup Daemons
    BY <1>1 DEF Die, Rest
  <2>3. client' \in [at : {"idle", "recv", "mapped"}, from : Daemons \cup {"none"},
                     mail : {"none", "queued", "fd", "closed"}]
    BY <1>1 DEF Die, Rest
  <2> QED
    BY <2>1, <2>2, <2>3 DEF Rest
<1>7. TypeOK'
  BY <1>1, <1>3, <1>4, <1>5, <1>6 DEF TypeOK, Rest, Pcs
<1>8. HandleInv'
  BY <1>1, <1>3, <1>4 DEF Inv, HandleInv
<1>9. OwnerInv'
  <2> SUFFICES ASSUME NEW e \in Daemons \ {d}, dev[e] = "open"
               PROVE  /\ pc[e] \in HasCtrl => driver'["AUDIO_CTRL"] = e
                      /\ pc[e] \in Running => driver'["HID"] = e
    BY <1>3, <1>4 DEF OwnerInv
  <2> QED
    BY <1>2 DEF Inv, OwnerInv, Ifaces
<1> QED
  BY <1>7, <1>8, <1>9 DEF Inv

\* A step of the main thread that is not about the card.
LEMMA PcInv == ASSUME Inv, Rest', NEW d \in Daemons, NEW q \in Pcs, pc' = [pc EXCEPT ![d] = q],
                      UNCHANGED <<card, driver, dev>>,
                      q \in {"off", "open"} <=> pc[d] \in {"off", "open"},
                      q \in HasCtrl => pc[d] \in HasCtrl,
                      q \in Running => pc[d] \in Running
               PROVE  Inv'
<1>1. pc \in [Daemons -> Pcs]
  BY DEF Inv, TypeOK, Pcs
<1>2. pc' \in [Daemons -> Pcs] /\ pc'[d] = q /\ \A e \in Daemons \ {d} : pc'[e] = pc[e]
  BY <1>1
<1>3. TypeOK'
  BY <1>2 DEF Inv, TypeOK, Rest, Pcs
<1>4. HandleInv'
  BY <1>2 DEF Inv, HandleInv
<1>5. OwnerInv'
  BY <1>2 DEF Inv, OwnerInv
<1> QED
  BY <1>3, <1>4, <1>5 DEF Inv

\* One interface gets another owner: nobody's claim is on it but that of the
\* daemon whose step it is.
LEMMA DriverInv ==
  ASSUME Inv, Rest', NEW d \in Daemons, NEW q \in Pcs, NEW i \in Ifaces,
         NEW w \in {"kernel", "none"} \cup {e \in Daemons : dev[e] = "open"},
         pc' = [pc EXCEPT ![d] = q], driver' = [driver EXCEPT ![i] = w],
         UNCHANGED <<card, dev>>,
         q \notin {"off", "open"}, pc[d] \notin {"off", "open"},
         driver[i] \in {"kernel", "none", d} \/ w = driver[i],
         q \in HasCtrl => pc[d] \in HasCtrl \/ (i = "AUDIO_CTRL" /\ w = d),
         q \in Running => pc[d] \in Running \/ (i = "HID" /\ w = d),
         driver[i] = d /\ w # d => q \notin HasCtrl /\ q \notin Running
  PROVE  Inv'
<1>1. /\ driver \in [Ifaces -> {"kernel", "none"} \cup {e \in Daemons : dev[e] = "open"}]
      /\ pc \in [Daemons -> Pcs]
  BY DEF Inv, TypeOK, Pcs
<1>2. /\ pc' \in [Daemons -> Pcs] /\ pc'[d] = q /\ \A e \in Daemons \ {d} : pc'[e] = pc[e]
      /\ driver' \in [Ifaces -> {"kernel", "none"} \cup {e \in Daemons : dev[e] = "open"}]
      /\ driver'[i] = w /\ \A j \in Ifaces \ {i} : driver'[j] = driver[j]
  BY <1>1
<1>3. TypeOK'
  BY <1>2 DEF Inv, TypeOK, Rest, Pcs
<1>4. HandleInv'
  BY <1>2 DEF Inv, HandleInv
<1>5. OwnerInv'
  <2> SUFFICES ASSUME NEW e \in Daemons, dev[e] = "open"
               PROVE  /\ pc'[e] \in HasCtrl => driver'["AUDIO_CTRL"] = e
                      /\ pc'[e] \in Running => driver'["HID"] = e
    BY DEF OwnerInv
  <2>1. /\ pc[e] \in HasCtrl => driver["AUDIO_CTRL"] = e
        /\ pc[e] \in Running => driver["HID"] = e
    BY DEF Inv, OwnerInv
  <2>2. "AUDIO_CTRL" \in Ifaces /\ "HID" \in Ifaces /\ "kernel" # e /\ "none" # e
    BY DEF Ifaces, Daemons
  <2>3. CASE e # d
    BY <1>2, <2>1, <2>2, <2>3
  <2>4. CASE e = d
    BY <1>2, <2>1, <2>2, <2>4
  <2> QED
    BY <2>3, <2>4
<1> QED
  BY <1>3, <1>4, <1>5 DEF Inv

\* The types that an action leaves alone.
LEMMA RestFacts == Inv => /\ Rest /\ pc \in [Daemons -> Pcs]
                          /\ driver \in [Ifaces -> {"kernel", "none"}
                                                     \cup {e \in Daemons : dev[e] = "open"}]
                          /\ dev \in [Daemons -> {"none", "open", "gone"}]
                          /\ card \in {"in", "out"}
  BY DEF Inv, TypeOK, Rest, Pcs

\* The start of a process and the search for the card.
LEMMA OpenInv == ASSUME Inv, NEW d \in Daemons, Start(d) \/ Open(d)
                 PROVE  Inv'
<1>1. CASE Start(d)
  <2>1. pc[d] = "off" /\ "open" \in Pcs /\ pc' = [pc EXCEPT ![d] = "open"]
    BY <1>1, AfterFacts DEF Start, Pcs, Calls
  <2>2. Rest'
    BY <1>1, RestFacts DEF Start, MakeDir, Rest
  <2> QED
    BY <1>1, <2>1, <2>2, PcInv DEF Start, HasCtrl, Running
<1>2. CASE Open(d) /\ card = "in"
  <2>1. /\ pc[d] = "open" /\ pc' = [pc EXCEPT ![d] = "AUDIO_CTRL"] /\ "AUDIO_CTRL" \in Pcs
        /\ dev' = [dev EXCEPT ![d] = "open"] /\ UNCHANGED <<card, driver>>
    BY <1>2, RestFacts, AfterFacts DEF Open, Advance, Pcs, Calls
  <2>2. dev[d] = "none"
    BY <2>1 DEF Inv, HandleInv
  <2>3. /\ pc' \in [Daemons -> Pcs] /\ pc'[d] = "AUDIO_CTRL"
        /\ \A e \in Daemons \ {d} : pc'[e] = pc[e]
    BY <2>1, RestFacts
  <2>4. /\ dev' \in [Daemons -> {"none", "open", "gone"}] /\ dev'[d] = "open"
        /\ \A e \in Daemons \ {d} : dev'[e] = dev[e]
    BY <2>1, RestFacts
  <2>5. driver' \in [Ifaces -> {"kernel", "none"} \cup {e \in Daemons : dev'[e] = "open"}]
    <3>1. ASSUME NEW i \in Ifaces
          PROVE  driver[i] \in {"kernel", "none"} \cup {e \in Daemons : dev'[e] = "open"}
      BY <2>4, RestFacts
    <3> QED
      BY <2>1, <3>1, RestFacts
  <2>6. Rest'
    BY <1>2, RestFacts DEF Open, Rest
  <2>7. TypeOK'
    BY <2>1, <2>3, <2>4, <2>5, <2>6, RestFacts DEF TypeOK, Rest, Pcs
  <2>8. HandleInv'
    BY <1>2, <2>1, <2>3, <2>4 DEF Inv, HandleInv
  <2>9. OwnerInv'
    BY <2>1, <2>3, <2>4 DEF Inv, OwnerInv, HasCtrl, Running
  <2> QED
    BY <2>7, <2>8, <2>9 DEF Inv
<1>3. CASE Open(d) /\ card # "in"
  BY <1>3, DieInv, RestFacts DEF Open, Rest
<1> QED
  BY <1>1, <1>2, <1>3

\* detach_if_active takes an interface from the kernel only.
LEMMA DetachInv == ASSUME Inv, NEW d \in Daemons, Detach(d)
                   PROVE  Inv'
<1>1. pc[d] \in Ifaces
  BY DEF Detach
<1>2. CASE dev[d] = "open"
  <2> DEFINE i == pc[d]
             q == After[i]
             w == IF driver[i] = "kernel" THEN "none" ELSE driver[i]
  <2>1. /\ q \in Pcs /\ q \notin {"off", "open"} /\ q \notin HasCtrl /\ q \notin Running
        /\ i \notin {"off", "open"}
    BY <1>1, AfterFacts DEF Ifaces, Streaming, Pcs, Calls, HasCtrl, Running
  <2>2. pc' = [pc EXCEPT ![d] = q] /\ driver' = [driver EXCEPT ![i] = w]
    BY <1>1, <1>2, RestFacts DEF Detach, Advance
  <2>3. w \in {"kernel", "none"} \cup {e \in Daemons : dev[e] = "open"}
    BY <1>1, RestFacts
  <2>4. Rest' /\ UNCHANGED <<card, dev>>
    BY <1>2, RestFacts DEF Detach, Rest
  <2>5. driver[i] \in {"kernel", "none", d} \/ w = driver[i]
    OBVIOUS
  <2> HIDE DEF q, w
  <2> QED
    BY <1>1, <2>1, <2>2, <2>3, <2>4, <2>5, DriverInv
<1>3. CASE dev[d] # "open"
  BY <1>3, DieInv, RestFacts DEF Detach, Rest
<1> QED
  BY <1>2, <1>3

\* claim_interface takes an interface that nobody is bound to.
LEMMA ClaimInv == ASSUME Inv, NEW d \in Daemons, Claim(d)
                  PROVE  Inv'
<1>1. pc[d] \in {"claimCtrl", "claimHid"}
  BY DEF Claim
<1>2. CASE dev[d] = "open" /\ driver[Iface[pc[d]]] = "none"
  <2>1. Rest' /\ UNCHANGED <<card, dev>>
    BY <1>2, RestFacts DEF Claim, Rest
  <2>2. d \in {"kernel", "none"} \cup {e \in Daemons : dev[e] = "open"} /\ d # "none"
    BY <1>2 DEF Daemons
  <2>3. CASE pc[d] = "claimCtrl"
    <3>1. /\ pc' = [pc EXCEPT ![d] = "claimHid"] /\ driver' = [driver EXCEPT !["AUDIO_CTRL"] = d]
          /\ driver["AUDIO_CTRL"] = "none"
      BY <1>2, <2>3, RestFacts, AfterFacts, IfaceFacts DEF Claim, Advance
    <3>2. "claimHid" \in Pcs /\ "AUDIO_CTRL" \in Ifaces /\ "claimHid" \notin Running
      BY AfterFacts DEF Pcs, Calls, Ifaces, Running
    <3> QED
      BY <2>1, <2>2, <2>3, <3>1, <3>2, DriverInv
  <2>4. CASE pc[d] = "claimHid"
    <3>1. /\ pc' = [pc EXCEPT ![d] = "shmem"] /\ driver' = [driver EXCEPT !["HID"] = d]
          /\ driver["HID"] = "none"
      BY <1>2, <2>4, RestFacts, AfterFacts, IfaceFacts DEF Claim, Advance
    <3>2. "shmem" \in Pcs /\ "HID" \in Ifaces /\ "claimHid" \in HasCtrl
      BY AfterFacts DEF Pcs, Calls, Ifaces, HasCtrl
    <3> QED
      BY <2>1, <2>2, <2>4, <3>1, <3>2, DriverInv
  <2> QED
    BY <1>1, <2>3, <2>4
<1>3. CASE ~(dev[d] = "open" /\ driver[Iface[pc[d]]] = "none")
  BY <1>3, DieInv, RestFacts DEF Claim, Rest
<1> QED
  BY <1>2, <1>3

\* Drop gives back what this process holds.
LEMMA DropInv == ASSUME Inv, NEW d \in Daemons, Drop(d)
                 PROVE  Inv'
<1> DEFINE i == Iface[pc[d]]
           q == After[pc[d]]
<1>1. /\ i \in Ifaces /\ q \in Pcs /\ q \notin {"off", "open"} /\ pc[d] \notin {"off", "open"}
      /\ q \notin HasCtrl /\ q \notin Running
  BY AfterFacts, IfaceFacts DEF Drop, Ifaces, Pcs, Calls, HasCtrl, Running
<1>2. PICK who \in {"kernel", "none"} :
        driver' = [driver EXCEPT ![i] = IF driver[i] = d THEN who ELSE driver[i]]
  BY <1>1, RestFacts DEF Drop
<1>3. pc' = [pc EXCEPT ![d] = q]
  BY RestFacts DEF Drop, Advance
<1>4. Rest' /\ UNCHANGED <<card, dev>>
  BY RestFacts DEF Drop, Rest
<1> DEFINE w == IF driver[i] = d THEN who ELSE driver[i]
<1>5. /\ w \in {"kernel", "none"} \cup {e \in Daemons : dev[e] = "open"}
      /\ driver[i] \in {"kernel", "none", d} \/ w = driver[i]
      /\ driver' = [driver EXCEPT ![i] = w]
  BY <1>1, <1>2, RestFacts
<1> HIDE DEF i, q, w
<1> QED
  BY <1>1, <1>3, <1>4, <1>5, DriverInv

\* The calls of run: they follow the claims and change nothing of the card.
LEMMA RunInv == ASSUME Inv, NEW d \in Daemons,
                       \/ Create(d) \/ SpawnStream(d) \/ Exists(d)
                       \/ Remove(d) \/ Mkdir(d) \/ Bind(d)
                PROVE  Inv'
<1>1. CASE Create(d)
  <2>1. After[pc[d]] \in Pcs \cap Running /\ pc[d] \in Running
    BY <1>1, AfterFacts DEF Create, Pcs, Calls, Running
  <2>2. pc' = [pc EXCEPT ![d] = After[pc[d]]] /\ Rest' /\ UNCHANGED <<card, driver, dev>>
    BY <1>1, RestFacts DEF Create, Advance, Rest
  <2> QED
    BY <2>1, <2>2, PcInv DEF Running, HasCtrl
<1>2. CASE SpawnStream(d)
  <2>1. After[pc[d]] \in Pcs \cap Running /\ pc[d] \in Running /\ Iface[pc[d]] \in Streaming
    BY <1>2, AfterFacts, IfaceFacts DEF SpawnStream, Pcs, Calls, Running, Streaming
  <2>2. pc' = [pc EXCEPT ![d] = After[pc[d]]] /\ UNCHANGED <<card, driver, dev>>
    BY <1>2, RestFacts DEF SpawnStream, Advance
  <2>3. Rest'
    <3>1. /\ stream \in [Daemons -> [Streaming -> {"none", "setup", "running", "ended"}]]
          /\ stream' = [stream EXCEPT ![d][Iface[pc[d]]] = "setup"]
      BY <1>2, RestFacts DEF SpawnStream, Rest
    <3>2. stream' \in [Daemons -> [Streaming -> {"none", "setup", "running", "ended"}]]
      BY <2>1, <3>1
    <3> QED
      BY <1>2, <3>2, RestFacts DEF SpawnStream, Rest
  <2> QED
    BY <2>1, <2>2, <2>3, PcInv DEF Running, HasCtrl
<1>3. CASE Exists(d)
  <2> DEFINE q == IF sock \in {"nodir", "none"} THEN "mkdir" ELSE "remove"
  <2>1. q \in Pcs \cap Running /\ pc[d] \in Running
    BY <1>3, AfterFacts DEF Exists, Pcs, Calls, Running
  <2>2. pc' = [pc EXCEPT ![d] = q] /\ Rest' /\ UNCHANGED <<card, driver, dev>>
    BY <1>3, RestFacts DEF Exists, Rest
  <2> HIDE DEF q
  <2> QED
    BY <2>1, <2>2, PcInv DEF Running, HasCtrl
<1>4. CASE (Remove(d) /\ sock \notin {"nodir", "none"}) \/ Mkdir(d) \/ (Bind(d) /\ sock = "none")
  <2>1. After[pc[d]] \in Pcs \cap Running /\ pc[d] \in Running
    BY <1>4, AfterFacts DEF Remove, Mkdir, Bind, Pcs, Calls, Running
  <2>2. pc' = [pc EXCEPT ![d] = After[pc[d]]] /\ Rest' /\ UNCHANGED <<card, driver, dev>>
    BY <1>4, RestFacts DEF Remove, Mkdir, MakeDir, Bind, Advance, Rest
  <2> QED
    BY <2>1, <2>2, PcInv DEF Running, HasCtrl
<1>5. CASE (Remove(d) /\ sock \in {"nodir", "none"}) \/ (Bind(d) /\ sock # "none")
  BY <1>5, DieInv, RestFacts DEF Remove, Bind, Rest
<1> QED
  BY <1>1, <1>2, <1>3, <1>4, <1>5

\* A call fails, or the process ends.
LEMMA EndInv == ASSUME Inv, NEW d \in Daemons, CallFails(d) \/ Crash(d) \/ Exit(d)
                PROVE  Inv'
<1>1. faults' \in 0..MaxFaults
  BY RestFacts DEF CallFails, Crash, Exit, Fault, Rest
<1>2. CASE Die(d)
  BY <1>1, <1>2, DieInv
<1>3. CASE CallFails(d) /\ ~DeviceShared(d)
  <2>1. pc' = [pc EXCEPT ![d] = "dropCtrl"] /\ UNCHANGED <<card, driver, dev>>
    BY <1>3 DEF CallFails
  <2>2. /\ pc[d] \in {"shmem", "rx", "tx", "threads"} /\ "dropCtrl" \in Pcs
        /\ "dropCtrl" \notin HasCtrl /\ "dropCtrl" \notin Running
    BY <1>3, AfterFacts DEF DeviceShared, Pcs, Calls, HasCtrl, Running
  <2>3. Rest'
    BY <1>1, <1>3, RestFacts DEF CallFails, Rest
  <2> QED
    BY <2>1, <2>2, <2>3, PcInv
<1> QED
  BY <1>2, <1>3 DEF CallFails, Crash, Exit

\* A streaming thread claims an interface that neither claim of open is on.
LEMMA ClaimStreamInv == ASSUME Inv, NEW d \in Daemons, NEW i \in Streaming, ClaimStream(d, i)
                        PROVE  Inv'
<1>1. /\ stream \in [Daemons -> [Streaming -> {"none", "setup", "running", "ended"}]]
      /\ UNCHANGED <<card, pc, dev, sock, client, faults>>
  BY RestFacts DEF ClaimStream, Rest
<1>2. Rest'
  <2>1. \E s \in {"running", "ended"} : stream' = [stream EXCEPT ![d][i] = s]
    BY DEF ClaimStream
  <2>2. stream' \in [Daemons -> [Streaming -> {"none", "setup", "running", "ended"}]]
    BY <1>1, <2>1
  <2> QED
    BY <1>1, <2>2, RestFacts DEF Rest
<1>3. /\ driver' \in [Ifaces -> {"kernel", "none"} \cup {e \in Daemons : dev[e] = "open"}]
      /\ driver'["AUDIO_CTRL"] = driver["AUDIO_CTRL"] /\ driver'["HID"] = driver["HID"]
  <2>1. i \in Ifaces /\ i # "AUDIO_CTRL" /\ i # "HID"
    BY DEF Ifaces, Streaming
  <2>2. "AUDIO_CTRL" \in Ifaces /\ "HID" \in Ifaces
    BY DEF Ifaces
  <2>3. (dev[d] = "open" /\ driver' = [driver EXCEPT ![i] = d]) \/ driver' = driver
    BY DEF ClaimStream
  <2> QED
    BY <2>1, <2>2, <2>3, RestFacts
<1>4. TypeOK'
  BY <1>1, <1>2, <1>3, RestFacts DEF TypeOK, Rest, Pcs
<1>5. HandleInv' /\ OwnerInv'
  BY <1>1, <1>3 DEF Inv, HandleInv, OwnerInv
<1> QED
  BY <1>4, <1>5 DEF Inv

\* The client's connect call and its descriptor.
LEMMA ClientInv == ASSUME Inv, \/ \E d \in Daemons : SendFd(d) \/ SendFdFails(d)
                               \/ Connect \/ RecvFd \/ Destroy
                   PROVE  Inv'
<1>1. UNCHANGED <<card, driver, pc, dev, stream, sock>>
  BY DEF SendFd, SendFdFails, Connect, RecvFd, Destroy
<1>2. faults' \in 0..MaxFaults
  BY RestFacts DEF SendFd, SendFdFails, Fault, Connect, RecvFd, Destroy, Rest
<1>3. client' \in [at : {"idle", "recv", "mapped"}, from : Daemons \cup {"none"},
                   mail : {"none", "queued", "fd", "closed"}]
  <2>1. client \in [at : {"idle", "recv", "mapped"}, from : Daemons \cup {"none"},
                    mail : {"none", "queued", "fd", "closed"}]
    BY RestFacts DEF Rest
  <2>2. CASE \E d \in Daemons : SendFd(d) \/ SendFdFails(d)
    BY <2>1, <2>2 DEF SendFd, SendFdFails
  <2>3. CASE Connect \/ Destroy
    BY <2>1, <2>3 DEF Connect, Destroy, Idle
  <2>4. CASE RecvFd
    BY <2>1, <2>4 DEF RecvFd, Idle
  <2> QED
    BY <2>2, <2>3, <2>4
<1>4. TypeOK'
  BY <1>1, <1>2, <1>3, RestFacts DEF TypeOK, Rest, Pcs
<1>5. HandleInv' /\ OwnerInv'
  BY <1>1 DEF Inv, HandleInv, OwnerInv
<1> QED
  BY <1>4, <1>5 DEF Inv

\* The card is unplugged, and another is plugged in.
LEMMA PlugInv == ASSUME Inv, Unplug \/ Plug
                 PROVE  Inv'
<1>1. /\ UNCHANGED <<pc, stream, sock, client>> /\ faults' \in 0..MaxFaults
      /\ card' \in {"in", "out"}
  BY RestFacts DEF Unplug, Plug, Fault, Rest
<1>2. /\ dev' \in [Daemons -> {"none", "open", "gone"}]
      /\ \A d \in Daemons : /\ dev'[d] # "open"
                            /\ dev'[d] = "none" <=> dev[d] = "none"
  <2>1. CASE Unplug
    BY <2>1, RestFacts DEF Unplug
  <2>2. CASE Plug
    BY <2>2, RestFacts DEF Plug, Inv, HandleInv
  <2> QED
    BY <2>1, <2>2
<1>3. driver' \in [Ifaces -> {"kernel", "none"} \cup {e \in Daemons : dev'[e] = "open"}]
  BY DEF Unplug, Plug
<1>4. TypeOK'
  BY <1>1, <1>2, <1>3, RestFacts DEF TypeOK, Rest, Pcs
<1>5. HandleInv' /\ OwnerInv'
  BY <1>1, <1>2 DEF Inv, HandleInv, OwnerInv
<1> QED
  BY <1>4, <1>5 DEF Inv

\* Every step of every actor preserves the invariant.
LEMMA InvNext == Inv /\ [Next]_vars => Inv'
<1> SUFFICES ASSUME Inv, [Next]_vars PROVE Inv'
  OBVIOUS
<1>1. ASSUME NEW d \in Daemons, Start(d) \/ Daemon(d) \/ CallFails(d) \/ Crash(d)
      PROVE  Inv'
  BY <1>1, OpenInv, DetachInv, ClaimInv, DropInv, RunInv, EndInv DEF Daemon
<1>2. ASSUME NEW d \in Daemons, NEW i \in Streaming, ClaimStream(d, i)
      PROVE  Inv'
  BY <1>2, ClaimStreamInv
<1>3. CASE \/ \E d \in Daemons : SendFd(d) \/ SendFdFails(d)
           \/ Connect \/ RecvFd \/ Destroy
  BY <1>3, ClientInv
<1>4. CASE Unplug \/ Plug
  BY <1>4, PlugInv
<1>5. CASE UNCHANGED vars
  BY <1>5 DEF vars, Inv, TypeOK, HandleInv, OwnerInv
<1> QED
  BY <1>1, <1>2, <1>3, <1>4, <1>5 DEF Next

\* The invariant holds throughout.
LEMMA Invariance == Spec => []Inv
  BY InvInit, InvNext, PTL DEF Spec

-----------------------------------------------------------------------------
\* Types, and that only a daemon with a handle to the card that is plugged in
\* is bound to an interface of it (TypeOK), whatever fails and however often.
THEOREM TypeCorrect == Spec => []TypeOK
<1>1. Inv => TypeOK
  BY DEF Inv
<1> QED
  BY <1>1, Invariance, PTL

\* Two daemons that both found this card are not both past the claim of its
\* control interface: claim_interface lets the second one fail, also when it
\* detached the kernel's drivers in between.
Owns(d) == dev[d] = "open" /\ pc[d] \in HasCtrl
OneOwner == \A d, e \in Daemons : Owns(d) /\ Owns(e) => d = e

\* Cm108Device::open succeeds for one of several daemons at a time, for any
\* interleaving of their calls and whatever was unplugged before (OneOwner).
THEOREM CardHasOneOwner == Spec => []OneOwner
<1>1. Inv => OneOwner
  BY DEF Inv, OwnerInv, OneOwner, Owns
<1> QED
  BY <1>1, Invariance, PTL

\* What may happen to the path of a daemon that serves.
PathTaken(d) == \/ sock' = d
                \/ pc'[d] = "off"
                \/ pc["service"] # "off" /\ pc'["service"] = "off"
                \/ \E e \in Daemons \ {d} : pc[e] = "remove" /\ dev[e] = "gone"

\* The end of a process takes the path from itself, or is that of the service.
LEMMA DieKeepsPath == ASSUME Inv, NEW d \in Daemons, sock = d,
                             NEW e \in Daemons, Die(e), pc[e] # "off"
                      PROVE  PathTaken(d)
<1>1. pc \in [Daemons -> Pcs]
  BY RestFacts
<1>2. pc'[e] = "off"
  BY <1>1 DEF Die
<1>3. CASE e = d
  BY <1>2, <1>3 DEF PathTaken
<1>4. CASE e = "service"
  BY <1>2, <1>4 DEF PathTaken
<1>5. CASE e # d /\ e # "service"
  BY <1>5 DEF Die, PathTaken
<1> QED
  BY <1>3, <1>4, <1>5

\* Each step of a process, with the path of another or of itself.
LEMMA DaemonKeepsPath == ASSUME Inv, NEW d \in Daemons, pc[d] = "serving", dev[d] = "open", sock = d,
                                NEW e \in Daemons,
                                Start(e) \/ Daemon(e) \/ CallFails(e) \/ Crash(e)
                         PROVE  PathTaken(d)
<1>1. d \notin {"nodir", "none"}
  BY DEF Daemons
<1>2. CASE Die(e)
  <2>1. pc[e] # "off"
    <3>1. CASE CallFails(e)
      BY <3>1, AfterFacts DEF CallFails, Calls
    <3>2. CASE ~CallFails(e)
      <4>1. CASE Start(e)
        BY <1>2, <4>1, RestFacts DEF Start, Die
      <4> QED
        BY <3>2, <4>1 DEF Daemon, Open, Detach, Claim, Create, SpawnStream, Exists, Remove, Mkdir,
                          Bind, Drop, Exit, Crash, Ifaces, Streaming
    <3> QED
      BY <3>1, <3>2
  <2> QED
    BY <1>2, <2>1, DieKeepsPath
<1>3. CASE Remove(e) /\ ~Die(e)
  <2>1. pc[e] = "remove" /\ e # d
    BY <1>3 DEF Remove
  <2>2. dev[e] \in {"none", "open", "gone"} /\ dev[e] # "none"
    BY <2>1, RestFacts DEF Inv, HandleInv
  <2>3. dev[e] # "open"
    BY <2>1 DEF Inv, OwnerInv, HasCtrl, Running
  <2> QED
    BY <2>1, <2>2, <2>3 DEF PathTaken
<1>4. CASE ~Remove(e) /\ ~Die(e)
  <2>1. sock' = sock
    BY <1>1, <1>4 DEF Start, MakeDir, Daemon, Open, Detach, Claim, Create, SpawnStream, Exists,
                      Mkdir, Bind, Drop, Exit, CallFails, Crash
  <2> QED
    BY <2>1 DEF PathTaken
<1> QED
  BY <1>2, <1>3, <1>4

\* A daemon that serves keeps its path: a second cm108d, the service started
\* again or one started by hand, does not remove the socket of one that works,
\* except in the two cases that NoTakeover names.
THEOREM PathIsKept == Spec => NoTakeover
<1> DEFINE Kept == \A d \in Daemons : pc[d] = "serving" /\ dev[d] = "open" /\ sock = d => PathTaken(d)
<1>1. Inv /\ [Next]_vars => [Kept]_vars
  <2> SUFFICES ASSUME Inv, Next, NEW d \in Daemons, pc[d] = "serving", dev[d] = "open", sock = d
               PROVE  PathTaken(d)
    OBVIOUS
  <2>1. ASSUME NEW e \in Daemons, Start(e) \/ Daemon(e) \/ CallFails(e) \/ Crash(e)
        PROVE  PathTaken(d)
    BY <2>1, DaemonKeepsPath
  <2>2. CASE \/ \E e \in Daemons : \/ SendFd(e) \/ SendFdFails(e)
                                   \/ \E i \in Streaming : ClaimStream(e, i)
             \/ Connect \/ RecvFd \/ Destroy \/ Unplug \/ Plug
    BY <2>2 DEF SendFd, SendFdFails, ClaimStream, Connect, RecvFd, Destroy, Unplug, Plug, PathTaken
  <2> QED
    BY <2>1, <2>2 DEF Next
<1>2. Spec => [][Kept]_vars
  BY <1>1, Invariance, PTL DEF Spec
<1> QED
  BY <1>2, PTL DEF NoTakeover, PathTaken
================================================================================
