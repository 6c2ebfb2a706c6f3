------------------------------ MODULE Lifecycle ------------------------------
(***************************************************************************)
(* From the start of a cm108d process to the first message of a client:    *)
(* Cm108Device::open takes the sound card from the kernel's drivers,       *)
(* server::run starts its threads and binds the socket, and a client       *)
(* connects and receives the descriptor of the audio page.  Two processes  *)
(* compete for the card and for the socket's path: the systemd service,    *)
(* which is started again when it fails and whose runtime directory        *)
(* systemd makes before every start and removes after every end, and a     *)
(* daemon started by hand (CONTEXT.md shows the command) with the same     *)
(* path.  Either may fail in any call or be killed, and the card may be    *)
(* unplugged and plugged in again, at any time.                            *)
(***************************************************************************)
EXTENDS Naturals

CONSTANT MaxFaults      \* bound on failed calls, crashes and unpluggings

ASSUME MaxFaultsAssumption == MaxFaults \in Nat

VARIABLES card,     \* "in" or "out"
          driver,   \* driver[i]: who is bound to interface i of the card
          pc,       \* pc[d]: the next call of the main thread of daemon d, or
                    \* "serving" (the accept loop), or "off"
          dev,      \* dev[d]: "none", or the handle is to the card ("open"),
                    \* or to a card that was unplugged since ("gone")
          stream,   \* stream[d][i]: the RX and TX threads: "none", "setup",
                    \* "running", or "ended" after a failed set-up
          sock,     \* the socket's path: "nodir", "none" (no file), "stale" (a
                    \* file nobody listens on), or the daemon that listens there
          client,   \* a client's connect call: where it is, to whom, and what
                    \* is in its socket
          faults

vars == <<card, driver, pc, dev, stream, sock, client, faults>>

Daemons == {"service", "manual"}
Streaming == {"AUDIO_OUT", "AUDIO_IN"}
Ifaces == Streaming \cup {"AUDIO_CTRL", "HID"}

\* The order of the calls of Cm108Device::open and of run.  An interface
\* stands for the detach_if_active call on it.
After == [open |-> "AUDIO_CTRL", AUDIO_CTRL |-> "AUDIO_OUT", AUDIO_OUT |-> "AUDIO_IN",
          AUDIO_IN |-> "HID", HID |-> "claimCtrl",
          claimCtrl |-> "claimHid", claimHid |-> "shmem", shmem |-> "rx", rx |-> "tx",
          tx |-> "threads", threads |-> "heartbeat", heartbeat |-> "exists",
          remove |-> "mkdir", mkdir |-> "bind", bind |-> "serving",
          dropCtrl |-> "dropHid", dropHid |-> "exit"]

\* The interface that a claim, a release or a spawned thread is about.
Iface == [claimCtrl |-> "AUDIO_CTRL", claimHid |-> "HID", rx |-> "AUDIO_IN", tx |-> "AUDIO_OUT",
          dropCtrl |-> "AUDIO_CTRL", dropHid |-> "HID"]

Idle == [at |-> "idle", from |-> "none", mail |-> "none"]
NoStreams == [i \in Streaming |-> "none"]

Init == /\ card = "in"
        /\ driver = [i \in Ifaces |-> "kernel"]
        /\ pc = [d \in Daemons |-> "off"]
        /\ dev = [d \in Daemons |-> "none"]
        /\ stream = [d \in Daemons |-> NoStreams]
        /\ sock = "nodir"
        /\ client = Idle
        /\ faults = 0

Fault == faults < MaxFaults /\ faults' = faults + 1

Advance(d) == pc' = [pc EXCEPT ![d] = After[@]]

\* create_dir_all, and systemd's RuntimeDirectory= before a start.
MakeDir == sock' = IF sock = "nodir" THEN "none" ELSE sock

\* The end of a process, by an error that main returns or by a signal.  The
\* kernel releases its claims, without giving them back to its own drivers,
\* and closes its sockets; the file of a listening socket stays, but systemd
\* removes the service's directory with everything in it.
Die(d) == /\ pc' = [pc EXCEPT ![d] = "off"]
          /\ dev' = [dev EXCEPT ![d] = "none"]
          /\ stream' = [stream EXCEPT ![d] = NoStreams]
          /\ driver' = [i \in Ifaces |-> IF driver[i] = d THEN "none" ELSE driver[i]]
          /\ sock' = CASE d = "service"                 -> "nodir"
                       [] d # "service" /\ sock = d     -> "stale"
                       [] OTHER                         -> sock
          /\ client' = [client EXCEPT !.mail = IF client.from = d /\ @ = "queued"
                                               THEN "closed" ELSE @]
          /\ UNCHANGED card

-----------------------------------------------------------------------------
(* Cm108Device::open                                                       *)

Start(d) == /\ pc[d] = "off"
            /\ pc' = [pc EXCEPT ![d] = "open"]
            /\ IF d = "service" THEN MakeDir ELSE UNCHANGED sock
            /\ UNCHANGED <<card, driver, dev, stream, client, faults>>

\* The search for a CM108; NotFound ends the process.
Open(d) == /\ pc[d] = "open"
           /\ IF card = "in"
                THEN /\ Advance(d)
                     /\ dev' = [dev EXCEPT ![d] = "open"]
                     /\ UNCHANGED <<card, driver, stream, sock, client>>
                ELSE Die(d)
           /\ UNCHANGED faults

\* MUTANT: the HID interface is left out of the list.
DetachAudioOnly(d) ==
  /\ pc[d] \in Ifaces
  /\ IF dev[d] = "open"
       THEN /\ Advance(d)
            /\ driver' = [driver EXCEPT ![pc[d]] = IF @ = "kernel" /\ pc[d] # "HID"
                                                   THEN "none" ELSE @]
            /\ UNCHANGED <<card, dev, stream, sock, client>>
       ELSE Die(d)
  /\ UNCHANGED faults

\* detach_if_active; an interface that another process claimed has no active
\* kernel driver and is passed over.
Detach(d) ==
  /\ pc[d] \in Ifaces
  /\ IF dev[d] = "open"
       THEN /\ Advance(d)
            /\ driver' = [driver EXCEPT ![pc[d]] = IF @ = "kernel" THEN "none" ELSE @]
            /\ UNCHANGED <<card, dev, stream, sock, client>>
       ELSE Die(d)
  /\ UNCHANGED faults

\* MUTANT: an interface that is busy is logged and passed over.
ClaimLenient(d) ==
  /\ pc[d] \in {"claimCtrl", "claimHid"}
  /\ IF dev[d] = "open"
       THEN /\ Advance(d)
            /\ driver' = [driver EXCEPT ![Iface[pc[d]]] = IF @ = "none" THEN d ELSE @]
            /\ UNCHANGED <<card, dev, stream, sock, client>>
       ELSE Die(d)
  /\ UNCHANGED faults

\* claim_interface, refused while anybody is bound to the interface.
Claim(d) ==
  /\ pc[d] \in {"claimCtrl", "claimHid"}
  /\ IF dev[d] = "open" /\ driver[Iface[pc[d]]] = "none"
       THEN /\ Advance(d)
            /\ driver' = [driver EXCEPT ![Iface[pc[d]]] = d]
            /\ UNCHANGED <<card, dev, stream, sock, client>>
       ELSE Die(d)
  /\ UNCHANGED faults

\* impl Drop for Cm108Device; an error of attach_kernel_driver is ignored.
Drop(d) == /\ pc[d] \in {"dropCtrl", "dropHid"}
           /\ Advance(d)
           /\ \E who \in {"kernel", "none"} :
                driver' = [driver EXCEPT ![Iface[pc[d]]] = IF @ = d THEN who ELSE @]
           /\ UNCHANGED <<card, dev, stream, sock, client, faults>>

Exit(d) == pc[d] = "exit" /\ Die(d) /\ UNCHANGED faults

-----------------------------------------------------------------------------
(* server::run                                                             *)

\* AudioShmem::create, and the spawning of the dispatch, GPIO and heartbeat
\* threads.
Create(d) == /\ pc[d] \in {"shmem", "threads", "heartbeat"}
             /\ Advance(d)
             /\ UNCHANGED <<card, driver, dev, stream, sock, client, faults>>

\* IsoStream::start spawns the RX and then the TX thread.
SpawnStream(d) == /\ pc[d] \in {"rx", "tx"}
                  /\ Advance(d)
                  /\ stream' = [stream EXCEPT ![d][Iface[pc[d]]] = "setup"]
                  /\ UNCHANGED <<card, driver, dev, sock, client, faults>>

\* MUTANT: the thread searches for the card again and does not go by the bus
\* and the address of the handle.
ClaimStreamAnew(d, i) ==
  /\ stream[d][i] = "setup"
  /\ IF card = "in" /\ driver[i] = "none"
       THEN /\ driver' = [driver EXCEPT ![i] = d]
            /\ stream' = [stream EXCEPT ![d][i] = "running"]
       ELSE /\ stream' = [stream EXCEPT ![d][i] = "ended"]
            /\ UNCHANGED driver
  /\ UNCHANGED <<card, pc, dev, sock, client, faults>>

\* Each claims its interface by itself; a failure is logged, the thread ends
\* and the daemon runs without it.
ClaimStream(d, i) ==
  /\ stream[d][i] = "setup"
  /\ IF dev[d] = "open" /\ driver[i] = "none"
       THEN /\ driver' = [driver EXCEPT ![i] = d]
            /\ stream' = [stream EXCEPT ![d][i] = "running"]
       ELSE /\ stream' = [stream EXCEPT ![d][i] = "ended"]
            /\ UNCHANGED driver
  /\ UNCHANGED <<card, pc, dev, sock, client, faults>>

\* sock_path.exists()
Exists(d) == /\ pc[d] = "exists"
             /\ pc' = [pc EXCEPT ![d] = IF sock \in {"nodir", "none"} THEN "mkdir" ELSE "remove"]
             /\ UNCHANGED <<card, driver, dev, stream, sock, client, faults>>

\* remove_file, of whatever is there by now.
Remove(d) == /\ pc[d] = "remove"
             /\ IF sock \in {"nodir", "none"}
                  THEN Die(d)
                  ELSE /\ Advance(d)
                       /\ sock' = "none"
                       /\ UNCHANGED <<card, driver, dev, stream, client>>
             /\ UNCHANGED faults

Mkdir(d) == /\ pc[d] = "mkdir"
            /\ Advance(d)
            /\ MakeDir
            /\ UNCHANGED <<card, driver, dev, stream, client, faults>>

\* UnixListener::bind, which replaces nothing.
Bind(d) == /\ pc[d] = "bind"
           /\ IF sock = "none"
                THEN /\ Advance(d)
                     /\ sock' = d
                     /\ UNCHANGED <<card, driver, dev, stream, client>>
                ELSE Die(d)
           /\ UNCHANGED faults

\* A reference to the device other than run's own: dropping run's does not
\* run Drop.  The GPIO thread has one from its start.
DeviceShared(d) == \/ pc[d] \notin {"shmem", "rx", "tx", "threads"}
                   \/ \E i \in Streaming : stream[d][i] \in {"setup", "running"}

\* Any of the calls returns an error, which run and main return.
CallFails(d) == /\ pc[d] \in DOMAIN After \ {"dropCtrl", "dropHid"}
                /\ Fault
                /\ IF DeviceShared(d)
                     THEN Die(d)
                     ELSE /\ pc' = [pc EXCEPT ![d] = "dropCtrl"]
                          /\ UNCHANGED <<card, driver, dev, stream, sock, client>>

\* accept, and send_fd in the new thread of the connection.
SendFd(d) == /\ pc[d] = "serving"
             /\ client.from = d /\ client.mail = "queued"
             /\ client' = [client EXCEPT !.mail = "fd"]
             /\ UNCHANGED <<card, driver, pc, dev, stream, sock, faults>>

SendFdFails(d) == /\ pc[d] = "serving"
                  /\ client.from = d /\ client.mail = "queued"
                  /\ Fault
                  /\ client' = [client EXCEPT !.mail = "closed"]
                  /\ UNCHANGED <<card, driver, pc, dev, stream, sock>>

Daemon(d) == \/ Open(d) \/ Detach(d) \/ Claim(d) \/ Create(d) \/ SpawnStream(d)
             \/ Exists(d) \/ Remove(d) \/ Mkdir(d) \/ Bind(d)
             \/ Drop(d) \/ Exit(d)

-----------------------------------------------------------------------------
(* Cm108Client::connect, cm108_connect, cm108_destroy                      *)

\* UnixStream::connect; without a listener it fails and nothing changes.
Connect == /\ client.at = "idle"
           /\ sock \in Daemons
           /\ client' = [at |-> "recv", from |-> sock, mail |-> "queued"]
           /\ UNCHANGED <<card, driver, pc, dev, stream, sock, faults>>

\* MUTANT: recvmsg is called again when it returns no descriptor.
RecvFdPatient == /\ client.at = "recv" /\ client.mail = "fd"
                 /\ client' = [Idle EXCEPT !.at = "mapped"]
                 /\ UNCHANGED <<card, driver, pc, dev, stream, sock, faults>>

\* recv_fd and RxShmem::map; at the end of the stream recv_fd finds no
\* descriptor and connect fails.
RecvFd == /\ client.at = "recv" /\ client.mail \in {"fd", "closed"}
          /\ client' = [Idle EXCEPT !.at = IF client.mail = "fd" THEN "mapped" ELSE "idle"]
          /\ UNCHANGED <<card, driver, pc, dev, stream, sock, faults>>

\* munmap and close.
Destroy == /\ client.at = "mapped"
           /\ client' = Idle
           /\ UNCHANGED <<card, driver, pc, dev, stream, sock, faults>>

-----------------------------------------------------------------------------
(* The world                                                               *)

Crash(d) == pc[d] # "off" /\ Fault /\ Die(d)

Unplug == /\ card = "in" /\ Fault
          /\ card' = "out"
          /\ driver' = [i \in Ifaces |-> "none"]
          /\ dev' = [d \in Daemons |-> IF dev[d] = "open" THEN "gone" ELSE dev[d]]
          /\ UNCHANGED <<pc, stream, sock, client>>

\* The kernel's drivers bind to a new card, if they are loaded.
Plug == /\ card = "out"
        /\ card' = "in"
        /\ \E who \in {"kernel", "none"} : driver' = [i \in Ifaces |-> who]
        /\ UNCHANGED <<pc, dev, stream, sock, client, faults>>

Next == \/ \E d \in Daemons : \/ Start(d) \/ Daemon(d) \/ CallFails(d) \/ Crash(d)
                              \/ SendFd(d) \/ SendFdFails(d)
                              \/ \E i \in Streaming : ClaimStream(d, i)
        \/ Connect \/ RecvFd \/ Destroy
        \/ Unplug \/ Plug

Spec == Init /\ [][Next]_vars

\* systemd starts the service again (Restart=on-failure); a process that runs
\* makes its next call, and accepts a connection; a client in recvmsg wakes.
\* Nobody has to start the other daemon, or to plug the card in.
Fairness == /\ WF_vars(Start("service"))
            /\ \A d \in Daemons : WF_vars(Daemon(d)) /\ WF_vars(SendFd(d))
            /\ WF_vars(RecvFd)

FairSpec == Spec /\ Fairness

-----------------------------------------------------------------------------
(* Properties                                                              *)

\* Types; an interface of the card is held only by a daemon whose handle is
\* to this card, and not to one that was unplugged (the threads of IsoStream
\* open the card by bus and address long after Cm108Device::open).
TypeOK == /\ card \in {"in", "out"}
          /\ driver \in [Ifaces -> {"kernel", "none"} \cup {d \in Daemons : dev[d] = "open"}]
          /\ pc \in [Daemons -> {"off", "serving", "exists", "exit"} \cup DOMAIN After]
          /\ dev \in [Daemons -> {"none", "open", "gone"}]
          /\ stream \in [Daemons -> [Streaming -> {"none", "setup", "running", "ended"}]]
          /\ sock \in {"nodir", "none", "stale"} \cup Daemons
          /\ client \in [at : {"idle", "recv", "mapped"}, from : Daemons \cup {"none"},
                         mail : {"none", "queued", "fd", "closed"}]
          /\ faults \in 0..MaxFaults

\* run removes whatever is at the socket's path, without asking whether
\* somebody listens there; the claims made before are what protects a daemon
\* that works.  Its path is taken from it only when it ends, when systemd
\* clears the directory after the service, or by a daemon that lost its own
\* card after it had claimed it and before it bound the path.
NoTakeover ==
  [][\A d \in Daemons :
       pc[d] = "serving" /\ dev[d] = "open" /\ sock = d
         => \/ sock' = d
            \/ pc'[d] = "off"
            \/ pc["service"] # "off" /\ pc'["service"] = "off"
            \/ \E e \in Daemons \ {d} : pc[e] = "remove" /\ dev[e] = "gone"]_vars

\* connect returns, with a page or an error, also when the daemon that owned
\* the socket dies before it accepted, or between accept and send_fd.
ConnectReturns == client.at = "recv" ~> client.at # "recv"

\* The card is in, and nobody else uses it.
Quiet == card = "in" /\ pc["manual"] = "off"

\* Clients reach the service, and the service reaches its card.
Working == pc["service"] = "serving" /\ dev["service"] = "open" /\ sock = "service"

\* The service lost its card, or serves on a path that another daemon has taken:
\* no call of it fails, so it neither ends nor is started again.
Stranded == \/ dev["service"] = "gone"
            \/ pc["service"] = "serving" /\ sock # "service"

\* Whatever failed, was killed or was left behind (drivers detached, a stale
\* socket file, a claimed interface), the service comes up again, with the card
\* and the path, once the card stays in, no other daemon runs and nothing fails
\* any more.  The exception is a service already stranded: it stays so.
Recovers == \/ []<><<faults' # faults>>_vars
            \/ (~Stranded /\ []Quiet) ~> []Working
==============================================================================
