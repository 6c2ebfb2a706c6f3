----------------------------- MODULE ClientQueue -----------------------------
(***************************************************************************)
(* What a connection promises to the threads that send to it and to the    *)
(* client at its end, with no mention of channels, threads and sockets: a  *)
(* message goes to a set of clients at one instant; a client receives what *)
(* was accepted for it in that order, each message once; and no more than  *)
(* Cap accepted messages are on their way to it, however slow it is.  What *)
(* is on its way when a connection has ended may never arrive.             *)
(***************************************************************************)
EXTENDS Naturals, Sequences

CONSTANTS Clients, Msgs,
          Cap          \* what can be on its way to one client

VARIABLES log,    \* log[c]: the messages accepted for c
          read,   \* read[c]: how many of them c has received
          item,   \* item[c]: the last one c received, <<>> before the first
          ended   \* the clients whose connection has ended

vars == <<log, read, item, ended>>

Init == /\ log = [c \in Clients |-> <<>>]
        /\ read = [c \in Clients |-> 0]
        /\ item = [c \in Clients |-> <<>>]
        /\ ended = {}

Send(to, msg) == /\ to \cap ended = {}
                 /\ \A c \in to : Len(log[c]) - read[c] < Cap
                 /\ log' = [c \in Clients |-> IF c \in to THEN Append(log[c], msg) ELSE log[c]]
                 /\ UNCHANGED <<read, item, ended>>

Receive(c) == /\ read[c] < Len(log[c])
              /\ read' = [read EXCEPT ![c] = @ + 1]
              /\ item' = [item EXCEPT ![c] = <<log[c][read[c] + 1]>>]
              /\ UNCHANGED <<log, ended>>

End(c) == /\ ended' = ended \cup {c}
          /\ UNCHANGED <<log, read, item>>

Next == \/ \E to \in SUBSET Clients, msg \in Msgs : Send(to, msg)
        \/ \E c \in Clients : Receive(c) \/ End(c)

Spec == Init /\ [][Next]_vars
==============================================================================
