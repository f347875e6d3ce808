----------------------------- MODULE StartWindow -----------------------------
(***************************************************************************)
(* One session's client window and server window, and the network between  *)
(* them.  Requests are sealed in order and may reach the server late, in   *)
(* any order, more than once or never; so may responses.  Whether a        *)
(* request's first record authenticates is left open here: the module      *)
(* Channel decides it from the ratchet, and is proved to implement this    *)
(* specification.                                                          *)
(***************************************************************************)
EXTENDS Starts

VARIABLES
  starts,      \* the client's Starts
  owners,      \* numbers whose PendingStart is alive
  started,     \* numbers whose first response record has authenticated
  sealed,      \* numbers whose first request record may be on the network
  clientOpen,  \* FALSE once ClientSession::close has dropped its owner
  server,      \* the fields of ServerSession
  admissions   \* history: how often the server has admitted each number

window == <<starts, owners, started, sealed, clientOpen, server, admissions>>

Numbers == 0 .. MaxNumber - 1

WindowInit ==
  /\ starts = InitStarts
  /\ owners = {} /\ started = {} /\ sealed = {}
  /\ clientOpen = TRUE
  /\ server = InitServer
  /\ admissions = [n \in Numbers |-> 0]

-----------------------------------------------------------------------------
(* The client.                                                             *)

\* request_with(): the caller serialises it.
TakeNumber ==
  /\ clientOpen
  /\ AllocateResult(starts) = "Ok"
  /\ starts' = Allocate(starts)
  /\ owners' = owners \cup {starts.next}
  /\ sealed' = sealed \cup {starts.next}
  /\ UNCHANGED <<started, clientOpen, server, admissions>>

\* request_with() when the ratchet cannot seal a header (an exhausted chain,
\* no randomness): the number is given back, never handed out again.
TakeNumberFails ==
  /\ clientOpen
  /\ AllocateResult(starts) = "Ok"
  /\ starts' = Release(Allocate(starts), starts.next)
  /\ UNCHANGED <<owners, started, sealed, clientOpen, server, admissions>>

\* ResponseReader::start() with an authentic response, up to the unlock.
ConfirmNumber(n) ==
  /\ n \in owners \ started
  /\ admissions[n] > 0
  /\ starts' = Confirm(starts, n)
  /\ started' = started \cup {n}
  /\ UNCHANGED <<owners, sealed, clientOpen, server, admissions>>

\* The PendingStart of n is dropped: after start() succeeded or failed, on
\* complete() without a response, or because the request was cancelled.
DropNumber(n) ==
  /\ n \in owners
  /\ starts' = Release(starts, n)
  /\ owners' = owners \ {n}
  /\ UNCHANGED <<started, sealed, clientOpen, server, admissions>>

LeaveClient ==
  /\ clientOpen
  /\ clientOpen' = FALSE
  /\ UNCHANGED <<starts, owners, started, sealed, server, admissions>>

-----------------------------------------------------------------------------
(* The server.                                                             *)

\* accept_start() of a record the client sealed.
AdmitNumber(n) ==
  /\ n \in sealed
  /\ WindowResult(server, n) = "Ok"
  /\ server' = Admit(Spend(server), n)
  /\ admissions' = [admissions EXCEPT ![n] = @ + 1]
  /\ UNCHANGED <<starts, owners, started, sealed, clientOpen>>

\* accept_start() of a record that does not authenticate: not the client's,
\* for another number, or one whose key is gone.
TurnAwayNumber(n) ==
  /\ WindowResult(server, n) = "Ok"
  /\ server' = Spend(server)
  /\ UNCHANGED <<starts, owners, started, sealed, clientOpen, admissions>>

LeaveServer ==
  /\ server.open
  /\ server' = [server EXCEPT !.open = FALSE]
  /\ UNCHANGED <<starts, owners, started, sealed, clientOpen, admissions>>

-----------------------------------------------------------------------------
WindowNext ==
  \/ TakeNumber \/ TakeNumberFails \/ LeaveClient \/ LeaveServer
  \/ \E n \in Numbers :
       ConfirmNumber(n) \/ DropNumber(n) \/ AdmitNumber(n) \/ TurnAwayNumber(n)

WindowSpec == WindowInit /\ [][WindowNext]_window

-----------------------------------------------------------------------------
(* Properties.                                                             *)

\* The shape of the state.
WindowTypeOK ==
  /\ starts \in StartsType
  /\ owners \in SUBSET Numbers
  /\ started \in SUBSET Numbers
  /\ sealed \in SUBSET Numbers
  /\ clientOpen \in BOOLEAN
  /\ server \in ServerType
  /\ admissions \in [Numbers -> Nat]

\* Whatever the network repeats or delays, ServerSession::accept_start admits
\* no request number twice, by the window alone: the sliding bitmap never
\* forgets an admitted number that the distance check still lets through.
NoStartAdmittedTwice == \A n \in Numbers : admissions[n] <= 1

\* A request whose owner still waits is never turned away by the window: its
\* number is neither too far ahead of the server nor too far behind it, and no
\* other request has its bit.  The client's allocate() enforces this without
\* seeing the server, from what responses have confirmed.
LiveStartsAdmissible ==
  \A n \in owners :
    server.open /\ admissions[n] = 0 => WindowResult(server, n) = "Ok"

\* The pending bitmap is exactly the live PendingStarts, each with a bit of
\* its own, and firstPending is the oldest of them: release() of one owner,
\* in any order, never frees or hides another's slot.
PendingBitmapExact ==
  /\ starts.pending = {Position(n) : n \in owners}
  /\ \A m, n \in owners : Position(m) = Position(n) => m = n
  /\ starts.firstPending = Min(owners \cup {starts.next})

\* allocate() says "Pending" only while some owner is left whose end can
\* change the answer: a caller that waits has somebody to wait for.
PendingHasOwner == AllocateResult(starts) = "Pending" => owners # {}

\* allocate() saying "Limit" is final: no later response or cancellation makes
\* the session usable again, so renewing it loses nothing.
LimitIsFinal ==
  [][AllocateResult(starts) = "Limit" => AllocateResult(starts') = "Limit"]_window

\* What a response confirms the server has seen: confirmed_next never passes
\* the server's own next, which never passes the numbers sealed.
ConfirmedIsAdmitted ==
  /\ starts.confirmedNext <= server.next
  /\ server.next <= starts.next
=============================================================================
