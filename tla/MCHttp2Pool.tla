----------------------------- MODULE MCHttp2Pool -----------------------------
(***************************************************************************)
(* Http2Pool for TLC.  Tasks are interchangeable, one of them at a time is *)
(* at its second attempt, and close() meets the requests one by one: what  *)
(* two requests do to each other is explored in an open pool.              *)
(***************************************************************************)
EXTENDS Http2Pool, TLC

Symmetric == Permutations(Tasks)

OneRetries == Cardinality({t \in Tasks : task[t].attempt = 2}) <= 1
Separate == OneRetries /\ (closer.calls > 0 => \E t \in Tasks : task[t] = NewTask)
=============================================================================
