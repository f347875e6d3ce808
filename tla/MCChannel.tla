------------------------------ MODULE MCChannel ------------------------------
(***************************************************************************)
(* Channel for TLC.                                                        *)
(***************************************************************************)
EXTENDS Channel

\* A session in which nothing is refused or closed, every request reaches the
\* server, requests are given up only after that, and at most two first
\* responses are read: enough to look for what cancellation alone can do.
OnlyLateCancellation ==
  /\ clientOpen /\ server.open
  /\ sealed = 0 .. starts.next - 1
  /\ \A n \in sealed \ owners : admissions[n] = 1
  /\ server.remaining + Cardinality(DOMAIN responses) = MaxStarts
  /\ Cardinality(started) <= 2
=============================================================================
