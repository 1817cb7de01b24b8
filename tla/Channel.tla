------------------------------ MODULE Channel -------------------------------
(***************************************************************************)
(* What a message pipe promises: "Messages written to one handle may be    *)
(* read from the opposite", each exactly once, whole and in the order in   *)
(* which they were written, until the side they are meant for is closed.   *)
(***************************************************************************)
EXTENDS Naturals, Sequences

CONSTANT Message

VARIABLES open,      \* sides that have not been closed
          sent,      \* the messages sent to each side so far
          queue,     \* those that wait to be received
          delivered  \* those that were received

chVars == <<open, sent, queue, delivered>>

Side == {0, 1}
Peer(s) == 1 - s

ChInit ==
  /\ open = [s \in Side |-> TRUE]
  /\ sent = [s \in Side |-> <<>>]
  /\ queue = [s \in Side |-> <<>>]
  /\ delivered = [s \in Side |-> <<>>]

Send(s, m) ==
  /\ open[Peer(s)]
  /\ sent' = [sent EXCEPT ![Peer(s)] = Append(@, m)]
  /\ queue' = [queue EXCEPT ![Peer(s)] = Append(@, m)]
  /\ UNCHANGED <<open, delivered>>

Receive(s) ==
  /\ queue[s] # <<>>
  /\ queue' = [queue EXCEPT ![s] = Tail(@)]
  /\ delivered' = [delivered EXCEPT ![s] = Append(@, Head(queue[s]))]
  /\ UNCHANGED <<open, sent>>

Close(s) ==
  /\ open[s]
  /\ open' = [open EXCEPT ![s] = FALSE]
  /\ queue' = [queue EXCEPT ![s] = <<>>]
  /\ UNCHANGED <<sent, delivered>>

ChNext ==
  \E s \in Side : Receive(s) \/ Close(s) \/ \E m \in Message : Send(s, m)

ChSpec == ChInit /\ [][ChNext]_chVars

-----------------------------------------------------------------------------
(* While a side is open, what was sent to it is what it received followed   *)
(* by what waits for it.                                                    *)
ExactlyOnceInOrder ==
  \A s \in Side : open[s] => sent[s] = delivered[s] \o queue[s]
=============================================================================
