------------------------------- MODULE Starts -------------------------------
(***************************************************************************)
(* The two windows that number the requests of one encrypted session.      *)
(*                                                                         *)
(* The client's Starts (channel/session.rs) hands out request numbers and  *)
(* remembers, in a bitmap addressed modulo ReplayWindow, which of them     *)
(* still wait for a first response record.  The server's ServerSession     *)
(* (channel/server.rs) admits a request number at most once, remembering   *)
(* the admitted ones in a bitmap of the same size.                         *)
(*                                                                         *)
(* A bitmap is the set of its set positions.  The operators below take the *)
(* owner's fields as a record and return the record the method leaves.     *)
(***************************************************************************)
EXTENDS Integers, FiniteSetsExt

CONSTANTS
  ReplayWindow,   \* REPLAY_WINDOW = MAX_SKIPPED_KEYS, 256 in the code
  MaxNumber,      \* u64::MAX, the number that is never handed out
  MaxStarts       \* MAX_SESSION_STARTS, 2^30 in the code

ASSUME ReplayWindowAssumption == ReplayWindow \in Nat \ {0}
ASSUME MaxNumberAssumption == MaxNumber \in Nat
ASSUME MaxStartsAssumption == MaxStarts \in Nat \ {0}

\* The bit of a request number.
Position(number) == number % ReplayWindow

-----------------------------------------------------------------------------
(* The client's window.                                                    *)

StartsType ==
  [next : 0 .. MaxNumber, firstPending : 0 .. MaxNumber,
   confirmedNext : 0 .. MaxNumber, pending : SUBSET (0 .. ReplayWindow - 1)]

InitStarts ==
  [next |-> 0, firstPending |-> 0, confirmedNext |-> 0, pending |-> {}]

\* What allocate() answers.  "Pending" asks the caller to wait, "Limit" to
\* renew the session.
AllocateResult(s) ==
  CASE s.next = MaxNumber -> "Limit"
    [] /\ s.next # MaxNumber
       /\ s.next - s.confirmedNext >= ReplayWindow ->
         IF s.firstPending = s.next THEN "Limit" ELSE "Pending"
    [] /\ s.next # MaxNumber
       /\ s.next - s.confirmedNext < ReplayWindow ->
         IF s.next - s.firstPending >= ReplayWindow THEN "Pending" ELSE "Ok"

\* allocate() when it answers "Ok": the number given out is s.next.
Allocate(s) ==
  [s EXCEPT !.next = s.next + 1,
            !.pending = s.pending \cup {Position(s.next)}]

\* release(): the loop moves firstPending to the first number whose bit is
\* still set, or to next.
Release(s, number) ==
  LET bits == s.pending \ {Position(number)}
  IN  [s EXCEPT !.pending = bits,
                !.firstPending = Min({k \in s.firstPending .. s.next :
                                        k = s.next \/ Position(k) \in bits})]

Confirm(s, number) ==
  [s EXCEPT !.confirmedNext =
       IF s.confirmedNext < number + 1 THEN number + 1 ELSE s.confirmedNext]

-----------------------------------------------------------------------------
(* The server's window.                                                    *)

ServerType ==
  [open : BOOLEAN, next : 0 .. MaxNumber,
   accepted : SUBSET (0 .. ReplayWindow - 1), remaining : 0 .. MaxStarts]

InitServer ==
  [open |-> TRUE, next |-> 0, accepted |-> {}, remaining |-> MaxStarts]

\* The checks accept_start() makes before it touches a key.
WindowResult(s, number) ==
  CASE ~s.open -> "Closed"
    [] s.open /\ number < s.next ->
         IF \/ s.next - number > ReplayWindow
            \/ Position(number) \in s.accepted
         THEN "Record" ELSE "Ok"
    [] s.open /\ number >= s.next ->
         IF number = MaxNumber \/ number - s.next >= ReplayWindow
         THEN "Limit" ELSE "Ok"

\* Every candidate that reaches authentication costs one start, and the last
\* one closes the session.
Spend(s) ==
  [s EXCEPT !.remaining = s.remaining - 1,
            !.open = s.remaining > 1]

\* authenticate_start(), once the record has authenticated: bits between the
\* old and the new end of the window are cleared, then the number's own is set.
AdmitWithoutClearing(s, number) ==
  [s EXCEPT !.next = IF number >= s.next THEN number + 1 ELSE s.next,
            !.accepted = s.accepted \cup {Position(number)}]
Admit(s, number) ==
  [s EXCEPT !.next = IF number >= s.next THEN number + 1 ELSE s.next,
            !.accepted = (s.accepted \ {Position(k) : k \in s.next .. number})
                           \cup {Position(number)}]
=============================================================================
