----------------------------- MODULE NetContract -----------------------------
(* What include/network.h promises of every backend, whatever the device: one  *)
(* connection that goes through the states of enum net_state in the order      *)
(* given here, and two byte streams of which nothing is lost, invented or      *)
(* repeated while it lasts.  The streams are positions: `accepted' bytes were  *)
(* taken from the caller, `written' reached the connection, `fetched' came     *)
(* from it, `consumed' were given to the caller.                               *)
EXTENDS Naturals

VARIABLES connection, accepted, written, fetched, consumed

streams == <<accepted, written, fetched, consumed>>
vars == <<connection, streams>>

Init == connection = "CLOSED" /\ streams = <<0, 0, 0, 0>>

Becomes(from, to) == connection \in from /\ connection' \in to

\* init: the device is looked for, at once or over several polls.
Initialize ==
  /\ connection' \in {"INITIALIZING", "CLOSED", "FAILED"}
  /\ UNCHANGED streams

\* connect: a new connection, and with it new streams.
Connect ==
  /\ Becomes({"CLOSED"}, {"CONNECTING", "CONNECTED", "FAILED"})
  /\ streams' = <<0, 0, 0, 0>>

Initialized == Becomes({"INITIALIZING"}, {"CLOSED"}) /\ UNCHANGED streams

\* A connection that is to be closed opens and is closed.
Connected ==
  Becomes({"CONNECTING"}, {"CONNECTED", "CLOSING", "CLOSED"})
    /\ UNCHANGED streams

\* The end of the stream is shown when all of it has been read.
EndOfStream ==
  Becomes({"CONNECTED"}, {"EOF"}) /\ consumed = fetched /\ UNCHANGED streams

\* close, asynchronous or not; a closed backend may still have to clean up.
Close ==
  /\ connection # "CLOSING"
  /\ connection' \in {"CLOSING", "CLOSED", "FAILED"}
  /\ UNCHANGED streams

Closed == Becomes({"CLOSING"}, {"CLOSED"}) /\ UNCHANGED streams

\* The streams only grow.  On a connection nothing reaches the other end that
\* was not accepted, and nothing the caller that did not come from there; when
\* it has failed, what was on its way may or may not have arrived.
Grow ==
  /\ accepted' >= accepted /\ written' >= written
  /\ fetched' >= fetched /\ consumed' >= consumed
  /\ consumed' <= fetched'
  /\ connection' = "CONNECTED" => written' <= accepted'

Transfer ==
  /\ connection \notin {"CLOSED", "EOF"}
  /\ connection' \in {connection, "FAILED"}
  /\ Grow

Next ==
  \/ Initialize \/ Initialized \/ Connect \/ Connected \/ Transfer
  \/ EndOfStream \/ Close \/ Closed

Spec == Init /\ [][Next]_vars
=============================================================================
