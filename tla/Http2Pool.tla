------------------------------ MODULE Http2Pool ------------------------------
(***************************************************************************)
(* The attested-TLS client: the HTTP/2 connection pool                     *)
(* (crates/sdk/src/http2_pool.rs) and the requests of native_http.rs that  *)
(* use it.  A task is one Client::send(); its "at" is the await it is      *)
(* suspended at.  Hyper, h2 and the gateway are external: a connection     *)
(* announces stream limits, stops taking requests and ends when it likes.  *)
(* A connection whose socket is gone (Activity::finished) leaves channels  *)
(* at once, since every reader of channels drops or skips such a one; its  *)
(* counters are read by nobody any more, and what was held of it is None.  *)
(***************************************************************************)
EXTENDS Naturals, Sequences, FiniteSets, Functions

CONSTANTS
  Tasks,            \* concurrent calls of Client::send()
  Ids,              \* identities for connections
  Connections,      \* Limits::connections
  WaitingRequests,  \* Limits::waiting_requests
  WaitingBytes,     \* Limits::waiting_bytes
  Sizes,            \* what a request retains while it waits
  Streams,          \* the limits a peer announces
  MaxCloses,        \* calls of Pool::close()
  None              \* no connection

ASSUME Http2Assumption ==
  /\ Connections \in Nat \ {0} /\ WaitingRequests \in Nat \ {0}
  /\ WaitingBytes \in Nat \ {0} /\ Sizes \subseteq Nat /\ Streams \subseteq Nat
  /\ MaxCloses \in Nat /\ None \notin Ids /\ IsFiniteSet(Tasks)

VARIABLES
  channels,   \* State::channels, in order
  activity,   \* the Activity of every connection, and Hyper's end of it
  connecting, closed, waitingRequests, waitingBytes,   \* the rest of State
  task, closer
vars == <<channels, activity, connecting, closed, waitingRequests,
          waitingBytes, task, closer>>
waits == <<waitingRequests, waitingBytes>>
state == <<channels, connecting, closed, waits>>

\* stopped: SendRequest::is_closed().
NewChannel(maximum) ==
  [active |-> 0, maximum |-> maximum, retired |-> FALSE, forced |-> FALSE,
   stopped |-> FALSE]

\* uploads: the attempts whose body Hyper still holds; ran: those the gateway
\* processed; refusal: a refusal was read; avoid: the connection that gave it.
NewTask == [at |-> "idle", attempt |-> 1, size |-> 0, woken |-> FALSE,
            chan |-> None, uploads |-> {}, ran |-> {}, refusal |-> FALSE,
            avoid |-> None, result |-> "None"]

Init ==
  /\ channels = <<>>
  /\ activity = [c \in Ids |-> NewChannel(0)]
  /\ connecting = FALSE /\ closed = FALSE
  /\ waitingRequests = 0 /\ waitingBytes = 0
  /\ task = [t \in Tasks |-> NewTask]
  /\ closer = [at |-> "open", woken |-> FALSE, calls |-> 0]

-----------------------------------------------------------------------------
(* Notify, leases, and how a request goes on when an attempt fails.        *)

\* A Notified is registered by enable(), before the task looks at the state.
EnabledOnAwait == {"waiting"}
Enabled == {"look", "parking", "waiting"}

\* changed.notify_waiters() in a step that makes the tasks "new".
Notify(new) ==
  /\ task' = [t \in Tasks |-> IF task[t].at \in Enabled /\ new[t].at \in Enabled
                              THEN [new[t] EXCEPT !.woken = TRUE] ELSE new[t]]
  /\ closer' = [closer EXCEPT !.woken = @ \/ closer.at = "waiting"]

\* Client::send()'s match on the first attempt: a request that was not sent is
\* submitted once more; a resend that gets no connection returns the refusal.
Ended(r, result) ==
  [NewTask EXCEPT !.at = "done", !.uploads = r.uploads, !.ran = r.ran, !.result = result]
Failed(r, resend) ==
  IF resend /\ r.attempt = 1
  THEN [r EXCEPT !.at = "idle", !.attempt = 2, !.chan = None, !.woken = FALSE]
  ELSE Ended(r, IF r.refusal THEN "refusal" ELSE "unsent")

EndWait(t) ==
  /\ waitingRequests' = waitingRequests - 1
  /\ waitingBytes' = waitingBytes - task[t].size

\* Drop of the last share of a Lease on c; the tasks become "new".
EndLease(c, new) ==
  /\ activity' = [activity EXCEPT ![c].active = @ - 1]
  /\ Notify(new)

\* The caller's share of t's Lease ends and t becomes r; the slot stays taken
\* while the upload has its own share.
ReleaseWithUpload(t, r) ==
  /\ IF task[t].chan = None
     THEN task' = [task EXCEPT ![t] = r] /\ UNCHANGED <<activity, closer>>
     ELSE EndLease(task[t].chan, [task EXCEPT ![t] = r])
  /\ UNCHANGED state
Release(t, r) ==
  /\ IF \/ task[t].chan = None
        \/ \E u \in task[t].uploads : u[1] = task[t].attempt
     THEN task' = [task EXCEPT ![t] = r] /\ UNCHANGED <<activity, closer>>
     ELSE EndLease(task[t].chan, [task EXCEPT ![t] = r])
  /\ UNCHANGED state

-----------------------------------------------------------------------------
(* Pool::acquire().                                                        *)

\* Waiting::new().
Fits(size) == /\ waitingRequests < WaitingRequests
              /\ waitingBytes + size <= WaitingBytes

Begin(t, size) ==
  /\ task[t].at = "idle"
  /\ task[t].attempt = 2 => size = task[t].size
  /\ IF closed \/ ~Fits(size)
     THEN /\ task' = [task EXCEPT ![t] = Failed([@ EXCEPT !.size = size], closed)]
          /\ UNCHANGED waits
     ELSE /\ task' = [task EXCEPT ![t].at = "look", ![t].size = size]
          /\ waitingRequests' = waitingRequests + 1
          /\ waitingBytes' = waitingBytes + size
  /\ UNCHANGED <<channels, activity, connecting, closed, closer>>

LookClosed(t) ==
  /\ task[t].at = "look" /\ closed
  /\ task' = [task EXCEPT ![t] = Failed(@, TRUE)]
  /\ EndWait(t)
  /\ UNCHANGED <<channels, activity, connecting, closed, closer>>

EligibleAtLimit == {c \in Range(channels) :
  ~activity[c].retired /\ activity[c].active <= activity[c].maximum}
Eligible == {c \in Range(channels) :
  ~activity[c].retired /\ activity[c].active < activity[c].maximum}
Usable == {c \in Eligible : ~activity[c].stopped}

\* The order of eligible.sort_by_key(active), which is stable.
Sooner(c, d) == \/ activity[c].active < activity[d].active
                \/ /\ activity[c].active = activity[d].active
                   /\ \E j \in 1 .. Len(channels) :
                        channels[j] = d /\ \E i \in 1 .. j - 1 : channels[i] = c

Retire(set) == [c \in Ids |-> IF c \in set THEN [activity[c] EXCEPT !.retired = TRUE]
                              ELSE activity[c]]

LookPermit(t) ==
  /\ task[t].at = "look" /\ ~closed
  /\ \E c \in Usable :
       /\ \A d \in Usable \ {c} : Sooner(c, d)
       /\ activity' = [Retire({d \in Eligible \ Usable : Sooner(d, c)})
                         EXCEPT ![c].active = @ + 1]
       /\ task' = [task EXCEPT ![t].at = "prepare", ![t].chan = c, ![t].woken = FALSE]
  /\ EndWait(t)
  /\ UNCHANGED <<channels, connecting, closed, closer>>

\* No connection can take the request; the eligible ones have stopped, and are
\* retired before the serving ones are counted.
Serving == {c \in Range(channels) \ Eligible : ~activity[c].retired}
MayConnect ==
  /\ ~connecting
  /\ Cardinality(Serving) < Connections
  /\ Len(channels) <= Connections

LookConnect(t) ==
  /\ task[t].at = "look" /\ ~closed /\ Usable = {} /\ MayConnect
  /\ activity' = Retire(Eligible)
  /\ connecting' = TRUE
  /\ task' = [task EXCEPT ![t].at = "connect", ![t].woken = FALSE]
  /\ UNCHANGED <<channels, closed, waits, closer>>

LookWait(t) ==
  /\ task[t].at = "look" /\ ~closed /\ Usable = {} /\ ~MayConnect
  /\ activity' = Retire(Eligible)
  /\ task' = [task EXCEPT ![t].at = "parking"]
  /\ UNCHANGED <<state, closer>>

\* notified.await: at once round the loop, or to sleep until notified.
Await(t) ==
  /\ \/ task[t].at = "parking"
     \/ task[t].at = "waiting" /\ task[t].woken
  /\ task' = [task EXCEPT ![t].at = IF task[t].woken THEN "look" ELSE "waiting",
                          ![t].woken = FALSE]
  /\ UNCHANGED <<state, activity, closer>>

\* Channel::open() returns a connection that has announced its limit, and
\* acquire() pushes it.
Free == {c \in Ids \ Range(channels) : \A t \in Tasks : task[t].avoid # c}

Connected(t) ==
  /\ task[t].at = "connect" /\ ~closed /\ Free # {}
  /\ LET c == CHOOSE d \in Free : TRUE
     IN  /\ \E m \in Streams \ {0} :
              activity' = [activity EXCEPT ![c] = NewChannel(m)]
         /\ channels' = Append(channels, c)
  /\ task' = [task EXCEPT ![t].at = "pushed"]
  /\ UNCHANGED <<connecting, closed, waits, closer>>

\* Drop of Establishment after the push, and round the loop.
Established(t) ==
  /\ task[t].at = "pushed"
  /\ connecting' = FALSE
  /\ Notify([task EXCEPT ![t].at = "look"])
  /\ UNCHANGED <<channels, activity, closed, waits>>

\* connect() fails, or close() wins the select; Channel::open() and close()
\* answer Closed, which Client::send() takes for a request that was not sent.
ConnectFails(t, resend) ==
  /\ task[t].at = "connect"
  /\ closed => resend
  /\ connecting' = FALSE
  /\ EndWait(t)
  /\ Notify([task EXCEPT ![t] = Failed(@, resend)])
  /\ UNCHANGED <<channels, activity, closed>>

\* timeout_at(deadline, ...) of acquire().
WaitExpires(t) ==
  /\ task[t].at = "waiting" /\ ~task[t].woken
  /\ task' = [task EXCEPT ![t] = Failed(@, FALSE)]
  /\ EndWait(t)
  /\ UNCHANGED <<channels, activity, connecting, closed, closer>>

-----------------------------------------------------------------------------
(* Client::acquire()'s appraisal, Permit::send() and the response.         *)

Prepared(t) ==
  /\ task[t].at = "prepare"
  /\ task' = [task EXCEPT ![t].at = "send"]
  /\ UNCHANGED <<state, activity, closer>>

PrepareFails(t) ==
  /\ task[t].at = "prepare"
  /\ Release(t, Failed(task[t], FALSE))

\* A permit past the deadline, or of a retired connection, sends nothing.
\* dispatch() reports that, not the refusal of an earlier attempt.
SendNothing(t, expired) ==
  /\ task[t].at = "send"
  /\ \/ expired \/ task[t].chan = None
     \/ task[t].chan # None /\ activity[task[t].chan].retired
  /\ Release(t, Failed([task[t] EXCEPT !.refusal = FALSE], ~expired))

Submit(t) ==
  /\ task[t].at = "send"
  /\ task[t].chan # None => ~activity[task[t].chan].retired
  /\ task' = [task EXCEPT ![t].at = "submitted", ![t].refusal = FALSE,
                          ![t].uploads = IF task[t].chan = None THEN @
                             ELSE @ \cup {<<task[t].attempt, task[t].chan>>}]
  /\ UNCHANGED <<state, activity, closer>>

\* The gateway processes the request.
Execute(t) ==
  /\ task[t].at = "submitted" /\ task[t].attempt \notin task[t].ran
  /\ task[t].chan # None
  /\ task' = [task EXCEPT ![t].ran = @ \cup {task[t].attempt}]
  /\ UNCHANGED <<state, activity, closer>>

Respond(t) ==
  /\ task[t].at = "submitted" /\ task[t].attempt \in task[t].ran
  /\ task' = [task EXCEPT ![t].at = "body", ![t].result = "response"]
  /\ UNCHANGED <<state, activity, closer>>

\* try_send_request() fails without a trace of the request at the gateway: it
\* was reset as REFUSED_STREAM, or never left Hyper.
NotSent(t) ==
  /\ task[t].at = "submitted" /\ task[t].attempt \notin task[t].ran
  /\ Release(t, Failed(task[t], TRUE))

\* The stream is above a GOAWAY: the connection is retired here, before the
\* observer sees it.
GoingAway(t) ==
  LET c == task[t].chan
      r == Failed([task[t] EXCEPT !.avoid = c], TRUE)
      last == \A u \in task[t].uploads : u[1] # task[t].attempt
  IN  /\ task[t].at = "submitted" /\ task[t].attempt \notin task[t].ran
      /\ c # None
      /\ activity' = [activity EXCEPT ![c].retired = TRUE,
                                      ![c].active = IF last THEN @ - 1 ELSE @]
      /\ Notify([task EXCEPT ![t] = r])
      /\ UNCHANGED state

\* Any other error, or the response deadline.
FailsAndTriesAgain(t) ==
  /\ task[t].at = "submitted"
  /\ Release(t, Failed(task[t], TRUE))
Fails(t) ==
  /\ task[t].at = "submitted"
  /\ Release(t, Ended(task[t], "unknown"))

\* A response marked stogas-refused: dispatch() retires the connection.  The
\* first one is read and the request is sent once more.
Refused(r) == IF r.attempt = 1 THEN [r EXCEPT !.at = "refused"]
              ELSE [r EXCEPT !.at = "body", !.result = "refusal"]
RefuseWithoutRetiring(t) ==
  /\ task[t].at = "submitted" /\ task[t].attempt \notin task[t].ran
  /\ task' = [task EXCEPT ![t] = Refused(@)]
  /\ UNCHANGED <<state, activity, closer>>
Refuse(t) ==
  /\ task[t].at = "submitted" /\ task[t].attempt \notin task[t].ran
  /\ task[t].chan # None
  /\ activity' = Retire({task[t].chan})
  /\ Notify([task EXCEPT ![t] = Refused(@)])
  /\ UNCHANGED state

ReadRefusal(t, whole) ==
  /\ task[t].at = "refused"
  /\ Release(t, [task[t] EXCEPT !.at = "idle", !.attempt = 2, !.refusal = whole,
                                !.avoid = task[t].chan, !.chan = None])

\* The response body ends, fails or is dropped.
BodyEnds(t) ==
  /\ task[t].at = "body"
  /\ Release(t, Ended(task[t], task[t].result))

\* Hyper drops a request body.
UploadEnds(t, a) ==
  \E u \in task[t].uploads :
    LET new == [task EXCEPT ![t].uploads = @ \ {u}]
    IN  /\ u[1] = a
        /\ IF task[t].attempt = a /\ task[t].chan # None
           THEN task' = new /\ UNCHANGED <<activity, closer>>
           ELSE EndLease(u[2], new)
        /\ UNCHANGED state

\* The caller drops the future of send().
Cancel(t) ==
  LET gone == Ended(task[t], "unknown")
  IN  \/ /\ task[t].at = "waiting"
         /\ task' = [task EXCEPT ![t] = gone]
         /\ EndWait(t)
         /\ UNCHANGED <<channels, activity, connecting, closed, closer>>
      \/ /\ task[t].at = "connect"
         /\ connecting' = FALSE
         /\ EndWait(t)
         /\ Notify([task EXCEPT ![t] = gone])
         /\ UNCHANGED <<channels, activity, closed>>
      \/ /\ task[t].at \in {"prepare", "submitted", "refused"}
         /\ Release(t, gone)

-----------------------------------------------------------------------------
(* The connections.                                                        *)

\* The observer sees another limit.
Announce(c, m) ==
  /\ c \in Range(channels) /\ activity[c].maximum # m
  /\ activity' = [activity EXCEPT ![c].maximum = m]
  /\ Notify(task)
  /\ UNCHANGED state

\* Hyper takes no more requests: GOAWAY, or the connection is failing.
Stop(c) ==
  /\ c \in Range(channels) /\ ~activity[c].stopped
  /\ activity' = [activity EXCEPT ![c].stopped = TRUE]
  /\ UNCHANGED <<state, task, closer>>

\* The observer sees that.
Observe(c) ==
  /\ c \in Range(channels) /\ activity[c].stopped /\ ~activity[c].retired
  /\ activity' = Retire({c})
  /\ Notify(task)
  /\ UNCHANGED state

\* A connection is in channels once.
Leaves(c) ==
  \E i \in DOMAIN channels :
    /\ channels[i] = c
    /\ channels' = SubSeq(channels, 1, i - 1) \o SubSeq(channels, i + 1, Len(channels))

\* Drop of OwnedIo: the socket is gone, and with it Hyper's uploads.
FinishQuietly(c) ==
  /\ c \in Range(channels)
  /\ Leaves(c)
  /\ activity' = [activity EXCEPT ![c] = NewChannel(0)]
  /\ task' = [t \in Tasks |-> [task[t] EXCEPT !.chan = IF @ = c THEN None ELSE @,
                                              !.uploads = {u \in @ : u[2] # c}]]
  /\ UNCHANGED <<connecting, closed, waits, closer>>
Finish(c) ==
  LET without(r) == [r EXCEPT !.chan = IF @ = c THEN None ELSE @,
                              !.avoid = IF @ = c THEN None ELSE @,
                              !.uploads = {u \in @ : u[2] # c}]
  IN  /\ c \in Range(channels)
      /\ Leaves(c)
      /\ activity' = [activity EXCEPT ![c] = NewChannel(0)]
      /\ Notify([t \in Tasks |-> without(task[t])])
      /\ UNCHANGED <<connecting, closed, waits>>

-----------------------------------------------------------------------------
(* Pool::close() and dropping the pool.                                    *)

CloseBegins ==
  /\ closer.at \in {"open", "closed", "forced"} /\ closer.calls < MaxCloses
  /\ closed' = TRUE
  /\ activity' = Retire(Range(channels))
  /\ task' = [t \in Tasks |-> IF task[t].at \in Enabled
                              THEN [task[t] EXCEPT !.woken = TRUE] ELSE task[t]]
  /\ closer' = [at |-> "check", woken |-> FALSE, calls |-> closer.calls + 1]
  /\ UNCHANGED <<channels, connecting, waits>>

CloseChecksChannels ==
  /\ closer.at = "check" \/ (closer.at = "waiting" /\ closer.woken)
  /\ closer' = [closer EXCEPT !.at = IF channels = <<>> THEN "closed" ELSE "waiting",
                              !.woken = FALSE]
  /\ UNCHANGED <<state, activity, task>>
CloseChecks ==
  /\ closer.at = "check" \/ (closer.at = "waiting" /\ closer.woken)
  /\ closer' = [closer EXCEPT !.at = IF ~connecting /\ channels = <<>>
                                     THEN "closed" ELSE "waiting",
                              !.woken = FALSE]
  /\ UNCHANGED <<state, activity, task>>

ForceAll(set) == [c \in Ids |-> IF c \in set THEN [activity[c] EXCEPT !.forced = TRUE]
                             ELSE activity[c]]

CloseExpires ==
  /\ closer.at = "waiting" /\ ~closer.woken
  /\ closer' = [closer EXCEPT !.at = "forced"]
  /\ activity' = ForceAll(Range(channels))
  /\ UNCHANGED <<state, task>>

\* The last clone of the pool goes; drop of Channel closes its socket.
DropPool ==
  /\ closer.at \in {"open", "closed", "forced"}
  /\ \A t \in Tasks : task[t].at \in {"body", "done"}
  /\ closer' = [closer EXCEPT !.at = "dropped"]
  /\ activity' = ForceAll(Range(channels))
  /\ UNCHANGED <<state, task>>

-----------------------------------------------------------------------------
Acquire(t) ==
  \/ \E size \in Sizes : Begin(t, size)
  \/ LookClosed(t) \/ LookPermit(t) \/ LookConnect(t) \/ LookWait(t) \/ Await(t)
  \/ Connected(t) \/ Established(t)
  \/ \E resend \in BOOLEAN : ConnectFails(t, resend)
Sending(t) ==
  \/ Prepared(t) \/ PrepareFails(t) \/ Submit(t)
  \/ \E expired \in BOOLEAN : SendNothing(t, expired)
Answer(t) == Respond(t) \/ NotSent(t) \/ GoingAway(t) \/ Fails(t) \/ Refuse(t)
Reading(t) ==
  \/ \E whole \in BOOLEAN : ReadRefusal(t, whole)
  \/ BodyEnds(t)
Peer(c) ==
  \/ \E m \in Streams : Announce(c, m)
  \/ Stop(c) \/ Observe(c) \/ Finish(c)

Next ==
  \/ \E t \in Tasks :
       \/ Acquire(t) \/ Sending(t) \/ Answer(t) \/ Reading(t)
       \/ WaitExpires(t) \/ Execute(t) \/ Cancel(t)
       \/ \E a \in 1 .. 2 : UploadEnds(t, a)
  \/ \E c \in Ids : Peer(c)
  \/ CloseBegins \/ CloseChecks \/ CloseExpires \/ DropPool

Spec == Init /\ [][Next]_vars

-----------------------------------------------------------------------------
(* Properties.                                                             *)

Acquiring == {"look", "parking", "waiting", "connect", "pushed"}

\* The attempts of t whose Lease on c is alive: the permit, the upload or the
\* response still holds it.
Leases(t, c) == {a \in 1 .. 2 : \/ task[t].chan = c /\ task[t].attempt = a
                                \/ <<a, c>> \in task[t].uploads}

Inside == {t \in Tasks : task[t].at \in Acquiring}
Opening == IF \E t \in Tasks : task[t].at = "connect" THEN 1 ELSE 0
Live == {c \in Range(channels) : ~activity[c].retired}

\* Every counter is what it counts.  Activity::active is the number of streams
\* really held, however permits, uploads and responses overlap and in whatever
\* order they end; Waiting's counters are those of the requests in acquire(),
\* so that the queue's budget is neither exceeded nor leaked.  Hence the limits
\* hold: no connection gets more streams than its peer ever allowed,
\* Limits::connections bounds those that take requests, and one more may be
\* open while retired ones drain.
CountersExact ==
  /\ \A c \in Ids :
       /\ activity[c].active =
            Cardinality({p \in Tasks \X (1 .. 2) : p[2] \in Leases(p[1], c)})
       /\ \E m \in Streams \cup {0} : activity[c].active <= m
  /\ waitingRequests = Cardinality(Inside) /\ waitingRequests <= WaitingRequests
  /\ waitingBytes = Cardinality(UNION {{t} \X (1 .. task[t].size) : t \in Inside})
  /\ waitingBytes <= WaitingBytes
  /\ Cardinality(Live) + Opening <= Connections
  /\ Len(channels) + Opening <= Connections + 1

\* A task that sleeps in acquire() without a notification has nothing to do:
\* no connection can take its request and none may be opened.  (One that was
\* just pushed is still to be notified.)
NoLostWakeup ==
  \/ closed
  \/ \E t \in Tasks : task[t].at = "pushed"
  \/ \A t \in Tasks : task[t].at \in {"parking", "waiting"} /\ ~task[t].woken =>
       Usable = {} /\ ~MayConnect

\* What the callers of Client::send() are promised, read off the tasks.
Phase(r) == IF r.ran # {} THEN "ran" ELSE IF r.at = "submitted" THEN "sent" ELSE "open"
Place(r) == IF Phase(r) = "sent" THEN r.chan ELSE None
Avoid(r) == IF r.at = "refused" THEN r.chan ELSE r.avoid
Told(r) == IF r.at # "done" THEN "nothing"
           ELSE IF r.result \in {"unsent", "refusal"} THEN "unprocessed" ELSE r.result

Contract == INSTANCE Delivery WITH
  Requests <- Tasks, Places <- Ids,
  phase <- [t \in Tasks |-> Phase(task[t])], place <- [t \in Tasks |-> Place(task[t])],
  avoid <- [t \in Tasks |-> Avoid(task[t])], told <- [t \in Tasks |-> Told(task[t])]

\* However often a request is resent, after a GOAWAY, a refused stream or a refusal, it is
\* first known not to have run, it goes to another connection than the one that refused
\* it, it runs at most once, and an error that promises it was not sent, or a refusal, is
\* true (Client::send(), dispatch()): the pool implements Delivery.
Delivers == Contract!Spec

\* Once close() has returned Ok every connection of the pool has ended, and none is opened
\* afterwards.  It needs no deadline to return: while it sleeps without a notification,
\* something it waits for is still there, and notifies it when it ends.
CloseIsQuiet ==
  /\ closer.at = "closed" => ~connecting /\ channels = <<>>
  /\ closer.at = "waiting" /\ ~closer.woken => connecting \/ channels # <<>>
=============================================================================
