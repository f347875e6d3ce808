--------------------------- MODULE EncryptedClient ---------------------------
(***************************************************************************)
(* The pool of encrypted sessions (sdk/src/encrypted_client.rs): tasks in  *)
(* Client::send, the sessions they lease, and Client::close.               *)
(*                                                                         *)
(* A session's request window is reduced to what request() answers next.   *)
(* What that answer may become is what ChannelProofs proves of the         *)
(* window: "Limit" is final, and "Pending" needs a start that still waits. *)
(* Evidence, setup and HTTP end as they like (prepare, connect and         *)
(* encrypted_http::send).  A gateway that refuses has not run the request. *)
(*                                                                         *)
(* Waiting is tokio's Notify: notify_waiters() reaches the futures that    *)
(* are enabled at that moment, and nobody else.                            *)
(***************************************************************************)
EXTENDS Integers, FiniteSets, FiniteSetsExt

CONSTANTS
  Tasks,     \* calls of Client::send
  Ids,       \* names for sessions; one is reused once nothing refers to it
  Nodes,     \* gateway nodes
  Maximum,   \* Inner.maximum
  MaxCloses, \* bound: calls of Client::close
  None       \* no session

ASSUME PoolAssumption ==
  /\ Maximum \in Nat \ {0} /\ MaxCloses \in Nat
  /\ IsFiniteSet(Tasks) /\ None \notin Ids

VARIABLES
  opening,   \* State.opening
  closed,    \* State.closed
  session,   \* State.owners, by name
  task,      \* where each send is
  closer     \* where Client::close is

vars == <<opening, closed, session, task, closer>>

NewSession(node) ==
  [node |-> node, active |-> 0, retired |-> FALSE, forced |-> FALSE,
   window |-> "Ok"]

NewTask ==
  [pc |-> "Idle", woken |-> FALSE, lease |-> None, acked |-> FALSE,
   first |-> None, ran |-> 0, result |-> "None"]

Init ==
  /\ session = <<>> /\ opening = FALSE /\ closed = FALSE
  /\ task = [t \in Tasks |-> NewTask]
  /\ closer = [pc |-> "Idle", woken |-> FALSE, calls |-> 0]

owners == DOMAIN session

-----------------------------------------------------------------------------
(* Waking, leases and windows.                                             *)

\* The tasks and the closer whose Notified is enabled.
Enabled(t) == task[t].pc \in {"Selecting", "Parked"}

\* changed.notify_waiters(), with the new state of the task that calls it.
Notify(t, new) ==
  /\ task' = [u \in Tasks |->
                IF u = t THEN new
                ELSE IF Enabled(u) THEN [task[u] EXCEPT !.woken = TRUE]
                ELSE task[u]]
  /\ closer' = IF closer.pc \in {"Checking", "Parked"}
               THEN [closer EXCEPT !.woken = TRUE] ELSE closer

\* The starts of s that still wait for a first response record.
Waiting(s) == {t \in Tasks : task[t].lease = s /\ ~task[t].acked}

\* What request() may answer once task t's start no longer waits.
WindowsAfter(s, t) ==
  IF session[s].window # "Pending" \/ t \notin Waiting(s)
  THEN {session[s].window}
  ELSE {"Ok", "Limit"} \cup (IF Waiting(s) = {t} THEN {} ELSE {"Pending"})

\* Owner::retire() on the sessions in set, as part of a larger step.
Retired(s, set) == session[s].retired \/ s \in set

\* The task ends: its request is dropped, then its lease, which notifies.
\* The sessions in set are retired on the way.
EndWithoutNotify(t, set, result, ran) ==
  LET s == task[t].lease
  IN  /\ \E w \in WindowsAfter(s, t) :
           session' = [o \in owners |->
             [session[o] EXCEPT !.retired = Retired(o, set),
                                !.active = IF o = s THEN @ - 1 ELSE @,
                                !.window = IF o = s THEN w ELSE @]]
      /\ task' = [task EXCEPT ![t] = [NewTask EXCEPT !.pc = "Done",
                    !.ran = ran, !.result = result]]
      /\ UNCHANGED closer
End(t, set, result, ran) ==
  LET s == task[t].lease
  IN  /\ \E w \in WindowsAfter(s, t) :
           session' = [o \in owners |->
             [session[o] EXCEPT !.retired = Retired(o, set),
                                !.active = IF o = s THEN @ - 1 ELSE @,
                                !.window = IF o = s THEN w ELSE @]]
      /\ Notify(t, [NewTask EXCEPT !.pc = "Done", !.ran = ran,
                                   !.result = result])

\* What send() may return when acquire() fails: after a refusal, the refusal
\* stands if it could be read.
NotSent(t) ==
  {"NotSent"} \cup (IF task[t].first = None THEN {} ELSE {"Refusal"})

\* A task without a lease ends.
Ended(t, result) ==
  [NewTask EXCEPT !.pc = "Done", !.ran = task[t].ran, !.result = result]

-----------------------------------------------------------------------------
(* acquire() and select().                                                 *)

\* send() is called, or goes round acquire()'s loop: both futures are enabled
\* before the pool is looked at.
Begin(t) ==
  /\ task[t].pc = "Idle" /\ closer.pc # "Dropped"
  /\ task' = [task EXCEPT ![t].pc = "Selecting"]
  /\ UNCHANGED <<opening, closed, session, closer>>

Wake(t) ==
  /\ task[t].pc = "Parked" /\ task[t].woken
  /\ task' = [task EXCEPT ![t].pc = "Selecting", ![t].woken = FALSE]
  /\ UNCHANGED <<opening, closed, session, closer>>

\* select() on a closed pool.
SelectClosed(t) ==
  /\ task[t].pc = "Selecting" /\ closed
  /\ \E result \in NotSent(t) : task' = [task EXCEPT ![t] = Ended(t, result)]
  /\ UNCHANGED <<opening, closed, session, closer>>

\* retain(): idle sessions retire, and retired ones without leases go.
Kept(expired) ==
  {o \in owners : ~(Retired(o, expired) /\ session[o].active = 0)}
Live(expired) == {o \in Kept(expired) : ~Retired(o, expired)}
Answering(expired, answer) ==
  {o \in Live(expired) : session[o].window = answer}

\* select() finds a session: the least active one that takes a request.
\* Exhausted sessions it passes on the way retire; equally active ones are
\* visited in either order.
SelectReady(t, expired) ==
  /\ task[t].pc = "Selecting" /\ ~closed
  /\ \E s \in Answering(expired, "Ok") :
       /\ \A o \in Answering(expired, "Ok") :
            session[s].active <= session[o].active
       /\ \E passed \in SUBSET Answering(expired, "Limit"),
             w \in {"Ok", "Pending", "Limit"} :
            /\ \A o \in Answering(expired, "Limit") :
                 /\ session[o].active < session[s].active => o \in passed
                 /\ o \in passed => session[o].active <= session[s].active
            /\ session' = [o \in Kept(expired) |->
                 [session[o] EXCEPT
                    !.retired = Retired(o, expired \cup passed),
                    !.active = IF o = s THEN @ + 1 ELSE @,
                    !.window = IF o = s THEN w ELSE @]]
       /\ task' = [task EXCEPT ![t].pc = "Preparing", ![t].lease = s,
                               ![t].woken = FALSE]
  /\ UNCHANGED <<opening, closed, closer>>

\* The state select() leaves when no session takes a request.
NoneReady(t, expired) ==
  /\ task[t].pc = "Selecting" /\ ~closed
  /\ Answering(expired, "Ok") = {}
  /\ session' = [o \in Kept(expired) |->
       [session[o] EXCEPT
          !.retired = Retired(o, expired \cup Answering(expired, "Limit"))]]

MayOpenWithoutServing(expired) ==
  ~opening /\ Cardinality(Kept(expired)) <= Maximum
MayOpen(expired) ==
  /\ ~opening
  /\ Cardinality(Answering(expired, "Pending")) < Maximum
  /\ Cardinality(Kept(expired)) <= Maximum

SelectOpening(t, expired) ==
  /\ NoneReady(t, expired) /\ MayOpen(expired)
  /\ opening' = TRUE
  /\ task' = [task EXCEPT ![t].pc = "Opening", ![t].woken = FALSE]
  /\ UNCHANGED <<closed, closer>>

\* The waiter sleeps, unless it was notified since it enabled its future.
SelectWait(t, expired) ==
  /\ NoneReady(t, expired) /\ ~MayOpen(expired)
  /\ task' = [task EXCEPT ![t].pc = "Parked"]
  /\ UNCHANGED <<opening, closed, closer>>

\* connect() answered, and the new owner joins the pool.
Connected(t) ==
  /\ task[t].pc = "Opening" /\ ~closed
  /\ Ids \ (owners \cup {task[u].first : u \in Tasks}) # {}
  /\ \E node \in Nodes :
       LET s == CHOOSE i \in Ids \ owners : \A u \in Tasks : task[u].first # i
       IN  session' = [o \in owners \cup {s} |->
                          IF o = s THEN NewSession(node) ELSE session[o]]
  /\ task' = [task EXCEPT ![t].pc = "Pushed"]
  /\ UNCHANGED <<opening, closed, closer>>

\* The Opening guard is dropped and the loop begins again.
OpeningDone(t) ==
  /\ task[t].pc = "Pushed"
  /\ opening' = FALSE
  /\ Notify(t, [task[t] EXCEPT !.pc = "Selecting"])
  /\ UNCHANGED <<closed, session>>

\* connect() failed, took too long or was cancelled, or the pool was closed
\* under it: the guard is dropped on the way out.
OpeningFails(t) ==
  /\ task[t].pc = "Opening"
  /\ opening' = FALSE
  /\ \E result \in NotSent(t) : Notify(t, Ended(t, result))
  /\ UNCHANGED <<closed, session>>

\* prepare() appraised the session again: the pool is checked once more.
Prepared(t) ==
  /\ task[t].pc = "Preparing"
  /\ IF closed
     THEN \E result \in NotSent(t) : End(t, {}, result, task[t].ran)
     ELSE /\ task' = [task EXCEPT ![t].pc = "Exchanging"]
          /\ UNCHANGED <<session, closer>>
  /\ UNCHANGED <<opening, closed>>

\* prepare() refused the session, took too long or was cancelled.
PrepareFails(t) ==
  /\ task[t].pc = "Preparing"
  /\ \E set \in {{task[t].lease}, {}}, result \in NotSent(t) :
       End(t, set, result, task[t].ran)
  /\ UNCHANGED <<opening, closed>>

\* The setup deadline passes, or the caller leaves, while waiting.
GiveUpWaiting(t) ==
  /\ task[t].pc = "Parked"
  /\ \E result \in NotSent(t) : task' = [task EXCEPT ![t] = Ended(t, result)]
  /\ UNCHANGED <<opening, closed, session, closer>>

-----------------------------------------------------------------------------
(* exchange(), and the body of the response.                               *)

\* The first response record authenticates: Incoming::advance notifies.
Acknowledge(t) ==
  /\ task[t].pc = "Exchanging" /\ ~task[t].acked
  /\ \E w \in WindowsAfter(task[t].lease, t) :
       session' = [session EXCEPT ![task[t].lease].window = w]
  /\ Notify(t, [task[t] EXCEPT !.acked = TRUE])
  /\ UNCHANGED <<opening, closed>>

\* The metadata of a response to a request that ran.
Respond(t) ==
  /\ task[t].pc = "Exchanging" /\ task[t].acked
  /\ task' = [task EXCEPT ![t].pc = "Reading", ![t].ran = @ + 1]
  /\ UNCHANGED <<opening, closed, session, closer>>

\* A refusal retires every session of the node.  The first one is read and
\* the request tried again; a second one is the caller's response.
SameNodeNobody(t) == {}
SameNode(t) ==
  {o \in owners : session[o].node = session[task[t].lease].node}

Refuse(t) ==
  /\ task[t].pc = "Exchanging" /\ task[t].acked
  /\ session' = [o \in owners |->
       [session[o] EXCEPT !.retired = Retired(o, SameNode(t))]]
  /\ Notify(t, [task[t] EXCEPT
                  !.pc = IF task[t].first = None THEN "Refused" ELSE "Reading"])
  /\ UNCHANGED <<opening, closed>>

\* read_refusal() succeeded or not; the lease is dropped before acquire().
TryAgain(t) ==
  /\ task[t].pc = "Refused"
  /\ session' = [session EXCEPT ![task[t].lease].active = @ - 1]
  /\ Notify(t, [NewTask EXCEPT !.pc = "Selecting", !.ran = task[t].ran,
                               !.first = task[t].lease])
  /\ UNCHANGED <<opening, closed>>

\* encrypted_http::send failed: before anything left, or at any later point,
\* when the gateway may have run the request.
ExchangeFailsAndTriesAgain(t) ==
  /\ task[t].pc = "Exchanging"
  /\ \E ran \in {task[t].ran, task[t].ran + 1}, w \in WindowsAfter(task[t].lease, t) :
       /\ session' = [session EXCEPT ![task[t].lease].active = @ - 1,
                        ![task[t].lease].retired = TRUE,
                        ![task[t].lease].window = w]
       /\ Notify(t, [NewTask EXCEPT !.pc = "Selecting", !.ran = ran,
                       !.first = task[t].lease])
  /\ UNCHANGED <<opening, closed>>
ExchangeFails(t) ==
  /\ task[t].pc = "Exchanging"
  /\ \/ ~task[t].acked /\ End(t, {task[t].lease}, "NotSent", task[t].ran)
     \/ \E ran \in {task[t].ran, task[t].ran + 1} :
          End(t, {task[t].lease}, "Sent", ran)
  /\ UNCHANGED <<opening, closed>>

\* The body ends; a forced session's body can only fail.
BodyEnds(t) ==
  /\ task[t].pc = "Reading"
  /\ \/ ~session[task[t].lease].forced /\ End(t, {}, "Sent", task[t].ran)
     \/ End(t, {task[t].lease}, "Sent", task[t].ran)
  /\ UNCHANGED <<opening, closed>>

\* The caller drops the future or the body.
Cancel(t) ==
  /\ task[t].pc \in {"Exchanging", "Refused", "Reading"}
  /\ End(t, {}, "Sent", task[t].ran)
  /\ UNCHANGED <<opening, closed>>

-----------------------------------------------------------------------------
(* Client::close(), which the shutdown mutex serialises, and Inner's drop.  *)

Running == {"Checking", "Parked", "Deleting"}

CloseBegins ==
  /\ closer.pc \notin Running \cup {"Dropped"}
  /\ closer.calls < MaxCloses
  /\ closed' = TRUE
  /\ closer' = [pc |-> "Checking", woken |-> FALSE, calls |-> closer.calls + 1]
  /\ task' = [t \in Tasks |-> IF Enabled(t) THEN [task[t] EXCEPT !.woken = TRUE]
                              ELSE task[t]]
  /\ UNCHANGED <<opening, session>>

\* Idle: the owners are taken, and each that can is closed at its gateway.
CloseChecksWithoutOpening ==
  /\ closer.pc = "Checking"
  /\ IF \A o \in owners : session[o].active = 0
     THEN session' = <<>> /\ closer' = [closer EXCEPT !.pc = "Deleting"]
     ELSE closer' = [closer EXCEPT !.pc = "Parked"] /\ UNCHANGED session
  /\ UNCHANGED <<opening, closed, task>>
CloseChecks ==
  /\ closer.pc = "Checking"
  /\ IF ~opening /\ \A o \in owners : session[o].active = 0
     THEN session' = <<>> /\ closer' = [closer EXCEPT !.pc = "Deleting"]
     ELSE closer' = [closer EXCEPT !.pc = "Parked"] /\ UNCHANGED session
  /\ UNCHANGED <<opening, closed, task>>

CloseWakes ==
  /\ closer.pc = "Parked" /\ closer.woken
  /\ closer' = [closer EXCEPT !.pc = "Checking", !.woken = FALSE]
  /\ UNCHANGED <<opening, closed, session, task>>

\* Every DELETE has been answered, or one failed.
CloseEnds ==
  /\ closer.pc = "Deleting"
  /\ closer' = [closer EXCEPT !.pc = "Closed", !.woken = FALSE]
  /\ UNCHANGED <<opening, closed, session, task>>

ForceAll ==
  session' = [o \in owners |->
                [session[o] EXCEPT !.retired = TRUE, !.forced = TRUE]]

\* The close deadline passes: what is left in the pool is forced.
CloseTimesOut ==
  /\ closer.pc \in Running
  /\ ForceAll
  /\ closer' = [closer EXCEPT !.pc = "TimedOut", !.woken = FALSE]
  /\ UNCHANGED <<opening, closed, task>>

\* The last Client is dropped; only response bodies can be alive.
DropClient ==
  /\ closer.pc \notin Running \cup {"Dropped"}
  /\ \A t \in Tasks : task[t].pc \in {"Idle", "Reading", "Done"}
  /\ ForceAll
  /\ closer' = [closer EXCEPT !.pc = "Dropped", !.woken = FALSE]
  /\ UNCHANGED <<opening, closed, task>>

-----------------------------------------------------------------------------
Acquire(t) ==
  \/ Begin(t) \/ Wake(t) \/ SelectClosed(t)
  \/ \E expired \in SUBSET owners :
       SelectReady(t, expired) \/ SelectOpening(t, expired) \/ SelectWait(t, expired)
  \/ Connected(t) \/ OpeningDone(t) \/ OpeningFails(t)
  \/ Prepared(t) \/ PrepareFails(t) \/ GiveUpWaiting(t)

Exchange(t) ==
  \/ Acknowledge(t) \/ Respond(t) \/ Refuse(t) \/ TryAgain(t)
  \/ ExchangeFails(t) \/ BodyEnds(t) \/ Cancel(t)

Close ==
  \/ CloseBegins \/ CloseChecks \/ CloseWakes \/ CloseEnds \/ CloseTimesOut
  \/ DropClient

Next == Close \/ \E t \in Tasks : Acquire(t) \/ Exchange(t)

Spec == Init /\ [][Next]_vars

\* Every step but the arrival of work, giving up, cancelling and closing is
\* taken in the end: evidence, setup, HTTP and response bodies have deadlines
\* of their own.  A task does not find every new session already idle: the
\* idle hint is not zero, and select() follows the setup at once.
Fairness ==
  /\ \A t \in Tasks :
       /\ WF_vars(Wake(t)) /\ WF_vars(SelectClosed(t))
       /\ WF_vars(\E expired \in SUBSET owners :
                    \/ SelectReady(t, expired) \/ SelectOpening(t, expired)
                    \/ SelectWait(t, expired))
       /\ SF_vars(SelectReady(t, {}))
       /\ WF_vars(Connected(t) \/ OpeningDone(t) \/ OpeningFails(t))
       /\ WF_vars(Prepared(t) \/ PrepareFails(t))
       /\ WF_vars(Exchange(t))
  /\ WF_vars(CloseChecks) /\ WF_vars(CloseWakes) /\ WF_vars(CloseEnds)

FairSpec == Spec /\ Fairness

-----------------------------------------------------------------------------
(* Properties.                                                             *)

Leases(s) == {t \in Tasks : task[t].lease = s}

\* Session setup is expensive for the gateway.  However sends, retirements and
\* setups interleave, at most Maximum sessions serve, at most one more waits
\* to drain, and setups run one at a time.  The active counter is the number of
\* leases, through every cancellation and failure, and a leased session stays
\* in the pool where close() can see it.
PoolBounded ==
  /\ Cardinality({o \in owners : ~session[o].retired}) <= Maximum
  /\ Cardinality(owners) <= Maximum + 1
  /\ opening <=> \E t \in Tasks : task[t].pc \in {"Opening", "Pushed"}
  /\ \A t, u \in Tasks :
       {task[t].pc, task[u].pc} \subseteq {"Opening", "Pushed"} => t = u
  /\ \A s \in Ids : Cardinality(Leases(s)) = IF s \in owners THEN session[s].active ELSE 0

Asleep(t) ==
  /\ task[t].pc = "Parked" /\ ~task[t].woken
  /\ \A u \in Tasks : task[u].pc # "Pushed"   \* whose guard's drop will notify

\* A session whose window is exhausted is renewed: a task does not sleep where
\* select(), called again, would open a new session.  The code does not keep
\* this: select() counts the exhausted session it has just retired.
ExhaustedSessionRenewed == \A t \in Tasks : Asleep(t) => ~MayOpen({})

\* What the callers of send() are promised, read off the tasks.
Phase(r) == IF r.ran > 0 THEN "ran" ELSE IF r.pc = "Exchanging" THEN "sent" ELSE "open"
Place(r) == IF Phase(r) = "sent" THEN r.lease ELSE None
Avoid(r) == IF r.pc = "Refused" THEN r.lease ELSE r.first
Told(r) == CASE r.result = "None" -> "nothing"
             [] r.result = "Sent" -> "unknown"
             [] OTHER -> "unprocessed"

Contract == INSTANCE Delivery WITH
  Requests <- Tasks, Places <- Ids,
  phase <- [t \in Tasks |-> Phase(task[t])], place <- [t \in Tasks |-> Place(task[t])],
  avoid <- [t \in Tasks |-> Avoid(task[t])], told <- [t \in Tasks |-> Told(task[t])]

\* A request is submitted again only after a refusal and through another session, runs at
\* most once, and an error that says it was not sent, or a refusal handed back, tells the
\* truth (send(), exchange()): the pool implements Delivery.
Delivers == Contract!Spec

\* Once close() has returned, nothing of the pool is left: no session, no
\* setup, no lease, hence nothing that could still send a request.
ClosedIsQuiet ==
  closer.pc = "Closed" =>
    owners = {} /\ ~opening /\ \A t \in Tasks : task[t].lease = None

\* A send that waits for capacity gets past acquire() without any deadline
\* firing, as long as the sends and bodies before it end.
WaitersServed ==
  \A t \in Tasks : task[t].pc = "Parked" ~> task[t].pc \in {"Exchanging", "Done"}

=============================================================================
