------------------------------ MODULE Transport ------------------------------
(***************************************************************************)
(* The managed transport: the worker thread and the handle its callers     *)
(* share (crates/sdk/src/lib.rs), the loopback server the worker runs      *)
(* (proxy.rs, upstream.rs) and the C interface over them                   *)
(* (crates/ffi/src/transport.rs).  The two upstream clients and the        *)
(* evidence client have modules of their own (Http2Pool, EncryptedClient,  *)
(* EvidenceClient); here they answer as those modules let them.            *)
(***************************************************************************)
EXTENDS Naturals, Sequences, FiniteSets

CONSTANTS
  Callers,       \* threads that hold the C handle
  Requests,      \* connections of OpenAI-compatible clients and web pages
  Options,       \* the configurations a caller may ask for
  Kinds,         \* what such a connection may ask
  MaxCalls,      \* calls one thread makes
  MaxVersion,    \* bundles the evidence authority publishes
  Nothing

\* The answers, results, refusals and terminal errors that properties tell apart
\* from the absence of one.
Texts == {"200", "204", "not_sent", "execution_unknown", "refusal", "response",
          "truncated", "dropped", "changed", "unchanged", "error", "closed", "stopped",
          "panicked", "stopped_before_shutdown", "invalid_host", "invalid_path",
          "invalid_refresh", "invalid_origin", "unsupported_path", "unsupported_method"}

ASSUME TransportAssumption ==
  /\ MaxCalls \in Nat /\ MaxVersion \in Nat \ {0}
  /\ Callers \cap Requests = {} /\ Nothing \notin Callers \cup Texts
  /\ \A o \in Options : o.security \in {"tls", "e2ee"}
  /\ \A k \in Kinds : k.origins \in Seq({k.origins[i] : i \in DOMAIN k.origins})

VARIABLES
  options,   \* the ServeConfig the worker was given
  host,      \* where Transport::start() or serve() is
  worker,    \* the thread "stogas-transport"
  outcome,   \* what catch_unwind() returned in it
  ready,     \* the sync_channel(1) of start()
  shutdown,  \* Transport::shutdown and the oneshot channel behind it
  thread,    \* Transport::thread is Some
  terminal,  \* Transport::terminal_error
  lock,      \* who holds the Mutex of StogasTransport
  call,      \* the callers
  pool,      \* the upstream client takes new requests
  version,   \* the body of EvidenceClient::current()
  req        \* the connections
transportVars == <<options, host, worker, outcome, ready, shutdown, thread, terminal,
          lock, call, pool, version, req>>
life == <<options, host, worker, outcome, ready>>
handle == <<shutdown, thread, terminal, lock, call>>
proxy == <<pool, version, req>>

-----------------------------------------------------------------------------
(* Configuration: TransportOptions, ServeConfig::new(), Upstream::new().   *)

\* An origin and nothing more: upstream.rs and secure_browser_origin() agree
\* on everything but the scheme.
BareOrigin(url) ==
  /\ url.host # Nothing
  /\ ~url.credentials /\ ~url.query /\ ~url.fragment /\ ~url.path

\* The base URL, or else the environment's, which is one.
UpstreamOrigin(o) ==
  o.base_url # Nothing => o.base_url.scheme = "https" /\ BareOrigin(o.base_url)

SecureBrowserOrigin(o) ==
  o.browser_origin # Nothing =>
    /\ BareOrigin(o.browser_origin)
    /\ \/ o.browser_origin.scheme = "https"
       \/ o.browser_origin.scheme = "http" /\ o.browser_origin.host = "loopback"

ConfigValid(o) ==
  /\ o.max_connections > 0
  /\ UpstreamOrigin(o)
  /\ o.listen = "loopback"
  /\ SecureBrowserOrigin(o)

\* "sent": the attempt under way may reach the gateway; "ran": the gateway
\* processed an attempt; "brought": the refresh activated another bundle;
\* "mislabelled": the response was without a body, and labelled an event stream.
NoRequest == [at |-> "idle", kind |-> Nothing, attempt |-> 1, sent |-> FALSE,
              ran |-> FALSE, refusal |-> FALSE, original |-> 0, snapshot |-> 0,
              brought |-> FALSE, mislabelled |-> FALSE, answer |-> Nothing, cors |-> FALSE]
NoCall == [at |-> "idle", op |-> Nothing, made |-> 0, result |-> Nothing, since |-> 0]
Conns == Requests \cup Callers

TransportInit ==
  /\ options \in Options
  /\ host = "none" /\ worker = "none" /\ outcome = Nothing /\ ready = Nothing
  /\ shutdown = "armed" /\ thread = FALSE /\ terminal = Nothing /\ lock = Nothing
  /\ call = [c \in Callers |-> NoCall]
  /\ pool = "open" /\ version = 0
  /\ req = [c \in Conns |-> NoRequest]

-----------------------------------------------------------------------------
(* The life of the worker: Transport::start(), proxy::serve() and run().   *)

\* record_transport_terminal_error(): the first error stays.
Record(message) == terminal' = IF terminal = Nothing THEN message ELSE terminal

Start ==
  /\ host = "none"
  /\ IF ConfigValid(options)
     THEN /\ host' = IF options.foreground THEN "foreground" ELSE "starting"
          /\ worker' = "init" /\ thread' = ~options.foreground
     ELSE host' = "failed" /\ UNCHANGED <<worker, thread>>
  /\ UNCHANGED <<options, outcome, ready, shutdown, terminal, lock, call, proxy>>

\* bind(), ProxyState::new() with its first refresh, and ready.send().
InitSucceeds ==
  /\ worker = "init"
  /\ worker' = "serving" /\ ready' = "ok" /\ version' = 1
  /\ UNCHANGED <<options, host, outcome, handle, pool, req>>

InProgress(c) == req[c].at \notin {"idle", "done"}

\* run() returns: the runtime drops its tasks, and the shutdown receiver goes.
\* Of a connection that is over only what the gateway may do with it counts.
Over(r, answer) == [NoRequest EXCEPT !.at = "done", !.kind = r.kind, !.sent = r.sent,
                      !.ran = r.ran, !.brought = r.brought,
                      !.mislabelled = r.mislabelled, !.answer = answer]
Dropped == [c \in Conns |-> IF InProgress(c) THEN Over(req[c], "dropped") ELSE req[c]]
Return(result) ==
  /\ worker' = "stopping" /\ outcome' = result
  /\ req' = Dropped
  /\ UNCHANGED <<options, host, handle, pool, version>>

\* The runtime cannot be built, or initialisation fails.
InitFails ==
  /\ worker = "init"
  /\ ready' = "error"
  /\ Return("stopped")

Panics ==
  /\ worker \in {"init", "serving", "closing"}
  /\ Return("panicked") /\ UNCHANGED ready

\* The select! of run() sees shutdown: the server stops accepting and the
\* upstream client closes.
Shutdown ==
  /\ worker = "serving" /\ shutdown = "sent"
  /\ worker' = "closing" /\ pool' = "closed"
  /\ UNCHANGED <<options, host, outcome, ready, handle, version, req>>

\* Both sides of the join! are done, or CLOSE_BUDGET is spent.
Drained ==
  /\ worker = "closing" /\ \A c \in Conns : ~InProgress(c)
  /\ Return("stopped") /\ UNCHANGED ready
BudgetSpent ==
  /\ worker = "closing"
  /\ Return("stopped") /\ UNCHANGED ready

WorkerEnds ==
  /\ worker = "stopping"
  /\ worker' = "finished"
  /\ Record(outcome)
  /\ UNCHANGED <<options, host, outcome, ready, shutdown, thread, lock, call, proxy>>

\* start() has its answer; a failed one is returned after the join.
StartReturns ==
  /\ host = "starting"
  /\ \/ ready = "ok" /\ host' = "running" /\ UNCHANGED thread
     \/ ready # "ok" /\ worker = "finished" /\ host' = "failed" /\ thread' = FALSE
  /\ UNCHANGED <<options, worker, outcome, ready, shutdown, terminal, lock, call, proxy>>

\* SIGINT, SIGTERM or the parent's stdin closing, in the foreground.
Signal ==
  /\ host = "foreground" /\ shutdown = "armed"
  /\ shutdown' = "sent"
  /\ UNCHANGED <<life, thread, terminal, lock, call, proxy>>

-----------------------------------------------------------------------------
(* The handle: stogas_transport_refresh(), _close() and _free().           *)

Call(c, op) ==
  /\ host = "running" /\ call[c].at = "idle" /\ call[c].made < MaxCalls
  /\ call' = [call EXCEPT ![c].at = "lock", ![c].op = op, ![c].made = @ + 1,
                          ![c].result = Nothing, ![c].since = version]
  /\ UNCHANGED <<life, shutdown, thread, terminal, lock, proxy>>

Lock(c) ==
  /\ call[c].at = "lock" /\ lock = Nothing
  /\ lock' = c
  /\ call' = [call EXCEPT ![c].at = "held"]
  /\ UNCHANGED <<life, shutdown, thread, terminal, proxy>>

Done(c, result) ==
  /\ call' = [call EXCEPT ![c].at = "idle", ![c].result = result]
  /\ lock' = IF lock = c THEN Nothing ELSE lock

\* ensure_running().
Running == terminal = Nothing /\ thread /\ worker # "finished"

RefreshKind == [hosts |-> <<"own">>, query |-> FALSE, path |-> "refresh",
                method |-> "POST", origins |-> <<>>, preflight |-> "none"]

\* The connection is taken while the server accepts.
RefreshBegins(c) ==
  /\ call[c].at = "held" /\ call[c].op = "refresh"
  /\ Running /\ worker = "serving"
  /\ call' = [call EXCEPT ![c].at = "reading"]
  /\ req' = [req EXCEPT ![c] = [NoRequest EXCEPT !.at = "accepted", !.kind = RefreshKind]]
  /\ UNCHANGED <<life, shutdown, thread, terminal, lock, pool, version>>

RefreshFails(c) ==
  /\ call[c].at = "held" /\ call[c].op = "refresh"
  /\ ~Running \/ worker # "serving"
  /\ Done(c, "error")
  /\ UNCHANGED <<life, shutdown, thread, terminal, proxy>>

\* The status line: 200 is Ok(true), 204 Ok(false), anything else an error.
Refreshed(answer) == CASE answer = "200" -> "changed" [] answer = "204" -> "unchanged"
                       [] OTHER -> "error"
RefreshReturns(c) ==
  /\ call[c].at = "reading" /\ req[c].at = "done"
  /\ Done(c, Refreshed(req[c].answer))
  /\ req' = [req EXCEPT ![c] = NoRequest]
  /\ UNCHANGED <<life, shutdown, thread, terminal, pool, version>>

\* The read timeout of 15 s; the handler goes with its connection.
RefreshTimesOut(c) ==
  /\ call[c].at = "reading" /\ req[c].at # "done"
  /\ Done(c, "error")
  /\ req' = [req EXCEPT ![c] = NoRequest]
  /\ UNCHANGED <<life, shutdown, thread, terminal, pool, version>>

\* shutdown.take() and send(), which fails once the receiver is gone.
CloseBegins(c) ==
  /\ call[c].at = "held" /\ call[c].op = "close"
  /\ call' = [call EXCEPT ![c].at = "joining"]
  /\ IF shutdown = "armed" /\ worker \in {"stopping", "finished"}
     THEN shutdown' = "gone" /\ Record("stopped_before_shutdown")
     ELSE /\ shutdown' = IF shutdown = "armed" THEN "sent" ELSE shutdown
          /\ UNCHANGED terminal
  /\ UNCHANGED <<life, thread, lock, proxy>>

\* thread.take() and join(); the worker's panic was caught inside it.
JoinedAtOnce(c) ==
  /\ call[c].at = "joining"
  /\ thread' = FALSE
  /\ Record("closed")
  /\ Done(c, "closed")
  /\ UNCHANGED <<life, shutdown, proxy>>
CloseJoins(c) ==
  /\ call[c].at = "joining" /\ (thread => worker = "finished")
  /\ thread' = FALSE
  /\ Record("closed")
  /\ Done(c, "closed")
  /\ UNCHANGED <<life, shutdown, proxy>>

\* Drop for Transport: no waiting.  The interface asks for it to come last.
Free ==
  /\ host = "running" /\ \A c \in Callers : call[c].at = "idle"
  /\ host' = "freed" /\ thread' = FALSE
  /\ shutdown' = IF shutdown = "armed" THEN "sent" ELSE shutdown
  /\ UNCHANGED <<options, worker, outcome, ready, terminal, lock, call, proxy>>

-----------------------------------------------------------------------------
(* The loopback server: route(), browser_access(), browser_preflight().    *)

OwnPath(k) == k.path \in {"api", "other_api"}      \* client_path() is Some
OriginAllowed(k) ==
  /\ Len(k.origins) = 1
  /\ options.browser_origin # Nothing => k.origins[1] = options.browser_origin.name

\* The early returns of route(), in order.
Refusals(k) == <<
  <<k.hosts # <<"own">>,                                           "invalid_host">>,
  <<k.query,                                                       "invalid_path">>,
  <<k.path = "refresh" /\ (k.method # "POST" \/ k.origins # <<>>), "invalid_refresh">>,
  <<k.path # "refresh" /\ k.origins # <<>> /\ ~OriginAllowed(k),   "invalid_origin">>,
  <<k.path # "refresh" /\ ~OwnPath(k),                             "invalid_path">>,
  <<k.path = "other_api",                                          "unsupported_path">>,
  <<k.path = "api" /\ k.method # "POST"
      /\ ~(k.method = "OPTIONS" /\ k.origins # <<>>),              "unsupported_method">>>>
RefusalOf(k) ==
  LET hits == {i \in DOMAIN Refusals(k) : Refusals(k)[i][1]}
  IN  IF hits = {} THEN Nothing
      ELSE Refusals(k)[CHOOSE i \in hits : \A j \in hits : i <= j][2]
Route(k) == CASE RefusalOf(k) # Nothing -> "refused"
              [] k.path = "refresh" -> "refresh"
              [] k.method = "OPTIONS" -> "preflight"
              [] OTHER -> "inference"

\* The access-control-allow-origin header that proxy_request() adds to every
\* response, errors included.
BrowserAccess(k) == OwnPath(k) /\ OriginAllowed(k)

Answer(r, answer) ==
  [Over(r, answer) EXCEPT !.cors = BrowserAccess(r.kind)]

Arrive(c, k) ==
  /\ worker = "serving" /\ c \in Requests /\ req[c].at = "idle"
  /\ req' = [req EXCEPT ![c] = [@ EXCEPT !.at = "accepted", !.kind = k]]
  /\ UNCHANGED <<life, handle, pool, version>>

Serving == worker \in {"serving", "closing"}

\* proxy_request_inner() up to its first await.
Handle(c) ==
  LET r == req[c]
  IN  /\ Serving /\ r.at = "accepted"
      /\ req' = [req EXCEPT ![c] =
           CASE Route(r.kind) = "refused" -> Answer(r, "not_sent")
             [] Route(r.kind) = "refresh" ->
                  [r EXCEPT !.at = "refreshing", !.original = version]
             [] Route(r.kind) = "preflight" ->
                  Answer(r, IF r.kind.preflight = "valid" THEN "204" ELSE "not_sent")
             [] OTHER -> [r EXCEPT !.at = "uploading"]]
      /\ UNCHANGED <<life, handle, pool, version>>

\* EvidenceClient::refresh() of one handler; refreshes take turns.
Activate(c, v) ==
  /\ Serving /\ req[c].at = "refreshing"
  /\ v \in {version, version + 1} /\ v <= MaxVersion
  /\ version' = v
  /\ req' = [req EXCEPT ![c].at = "refreshed", ![c].snapshot = v, ![c].brought = v # version]
  /\ UNCHANGED <<life, handle, pool>>

\* The recovery of a request, or the end of a refresh that nobody awaits.
ActivateAside ==
  /\ Serving /\ version < MaxVersion
  /\ version' = version + 1
  /\ UNCHANGED <<life, handle, pool, req>>

\* No replica helps, or SETUP_BUDGET expires.
ActivateFails(c) ==
  /\ Serving /\ req[c].at = "refreshing"
  /\ req' = [req EXCEPT ![c] = Answer(@, "not_sent")]
  /\ UNCHANGED <<life, handle, pool, version>>

AnswerByCurrent(c) ==
  /\ Serving /\ req[c].at = "refreshed"
  /\ req' = [req EXCEPT ![c] = Answer(@, IF version # @.snapshot THEN "200" ELSE "204")]
  /\ UNCHANGED <<life, handle, pool, version>>
AnswerRefresh(c) ==
  /\ Serving /\ req[c].at = "refreshed"
  /\ req' = [req EXCEPT ![c] = Answer(@, IF @.original # @.snapshot THEN "200" ELSE "204")]
  /\ UNCHANGED <<life, handle, pool, version>>

-----------------------------------------------------------------------------
(* forward_request() and the upstream client it calls.                     *)

\* The errors of native_http::Client::send() and encrypted_client::Client::
\* send(), by whether the request had been handed to the network.  Of the
\* latter Http::Completion is what becomes of a response without a body that
\* is labelled an event stream: the filter for events finds no end in it.
ErrorsBefore(mode) ==
  IF mode = "tls" THEN {"Closed", "Capacity", "Deadline", "State", "Connect", "Protocol",
                        "Evidence", "Recovery", "Size", "Metadata"}
  ELSE {"Closed", "State", "Deadline", "Metadata", "Setup", "Evidence", "Appraisal",
        "Record", "Http::Request", "Http::NotSentDeadline"}
ErrorsAfter(mode) ==
  IF mode = "tls" THEN {"Receipt", "ResponseDeadline", "Request"}
  ELSE {"Receipt", "Http::Deadline", "Http::Http", "Http::Response", "Http::Metadata",
        "Http::Record", "Http::Completion"}

\* Failure::native() and Failure::encrypted().
SubmissionOfHeaders(mode, e) ==
  IF e \in {"Receipt", "Request", "Http::Http", "Http::Response", "Http::Metadata",
            "Http::Record"}
  THEN "execution_unknown" ELSE "not_sent"
Submission(mode, e) ==
  IF \/ mode = "tls" /\ e \in {"Receipt", "ResponseDeadline", "Request"}
     \/ mode = "e2ee" /\ e \in {"Receipt", "Http::Deadline", "Http::Http", "Http::Response",
                                "Http::Metadata", "Http::Record"}
  THEN "execution_unknown" ELSE "not_sent"

\* The body is read whole before anything is sent: it arrives, or is too
\* long, interrupted or late.
Upload(c, whole) ==
  /\ Serving /\ req[c].at = "uploading"
  /\ req' = [req EXCEPT ![c] = IF whole THEN [@ EXCEPT !.at = "acquiring"]
                               ELSE Answer(@, "not_sent")]
  /\ UNCHANGED <<life, handle, pool, version>>

\* A connection or a session that the evidence of the moment approves.
Acquire(c) ==
  /\ Serving /\ req[c].at = "acquiring" /\ pool = "open"
  /\ req' = [req EXCEPT ![c].at = "permitted"]
  /\ UNCHANGED <<life, handle, pool, version>>

\* A resend that gets no connection leaves the refusal as the answer.
AcquireFails(c, e) ==
  /\ Serving /\ e \in ErrorsBefore(options.security)
  /\ \/ req[c].at = "acquiring"
     \/ req[c].at = "permitted" /\ e # "Closed"
  /\ pool = "closed" <=> e = "Closed"
  /\ req' = [req EXCEPT ![c] = IF @.refusal /\ @.at = "acquiring" THEN Answer(@, "refusal")
                               ELSE Answer(@, Submission(options.security, e))]
  /\ UNCHANGED <<life, handle, pool, version>>

\* Permit::send() of a pool that closed meanwhile sends nothing, and is tried
\* once more; an encrypted session sends what it has leased.
Submit(c) ==
  LET r == req[c]
  IN  /\ Serving /\ r.at = "permitted"
      /\ req' = [req EXCEPT ![c] =
           IF options.security = "tls" /\ pool = "closed"
           THEN IF r.attempt = 1 THEN [r EXCEPT !.at = "acquiring", !.attempt = 2]
                ELSE Answer(r, Submission("tls", "Closed"))
           ELSE [r EXCEPT !.at = "submitted", !.sent = TRUE, !.refusal = FALSE]]
      /\ UNCHANGED <<life, handle, pool, version>>

\* The gateway processes what reached it, whoever still waits for it.
Execute(c) ==
  /\ req[c].sent /\ ~req[c].ran
  /\ req' = [req EXCEPT ![c].ran = TRUE]
  /\ UNCHANGED <<life, handle, pool, version>>

\* The gateway refuses it unprocessed, or Hyper gives it back (in which case
\* only the attested-TLS client tries again).
Refuse(c, marked) ==
  LET r == [req[c] EXCEPT !.sent = FALSE]
  IN  /\ Serving /\ r.at = "submitted" /\ ~r.ran
      /\ marked \/ options.security = "tls"
      /\ req' = [req EXCEPT ![c] =
           IF r.attempt = 1
           THEN [r EXCEPT !.at = "acquiring", !.attempt = 2, !.refusal = marked]
           ELSE Answer(r, IF marked THEN "refusal" ELSE "not_sent")]
      /\ UNCHANGED <<life, handle, pool, version>>

\* send() gets no response, or one that it does not accept.
SubmitFails(c, e) ==
  /\ Serving /\ req[c].at = "submitted" /\ e \in ErrorsAfter(options.security)
  /\ req' = [req EXCEPT ![c] = Answer([@ EXCEPT !.mislabelled = (e = "Http::Completion")],
                                      Submission(options.security, e))]
  /\ UNCHANGED <<life, handle, pool, version>>

Respond(c) ==
  /\ Serving /\ req[c].at = "submitted" /\ req[c].ran
  /\ req' = [req EXCEPT ![c].at = "streaming"]
  /\ UNCHANGED <<life, handle, pool, version>>

\* The body ends, or fails or expires after its headers were passed on.
BodyEnds(c, whole) ==
  /\ Serving /\ req[c].at = "streaming"
  /\ req' = [req EXCEPT ![c] = Answer(@, IF whole THEN "response" ELSE "truncated")]
  /\ UNCHANGED <<life, handle, pool, version>>

\* The client closes its connection, and axum drops the handler.
Disconnect(c) ==
  /\ c \in Requests /\ InProgress(c)
  /\ req' = [req EXCEPT ![c] = Over(@, "dropped")]
  /\ UNCHANGED <<life, handle, pool, version>>

-----------------------------------------------------------------------------

Worker == Start \/ InitSucceeds \/ InitFails \/ Panics \/ Shutdown \/ Drained
          \/ BudgetSpent \/ WorkerEnds \/ StartReturns \/ Signal \/ Free
Calling(c) == Lock(c) \/ RefreshBegins(c) \/ RefreshFails(c) \/ RefreshReturns(c)
              \/ RefreshTimesOut(c) \/ CloseBegins(c) \/ CloseJoins(c)
Connection(c) ==
  \/ Handle(c) \/ AnswerRefresh(c) \/ Acquire(c) \/ Submit(c) \/ Execute(c) \/ Respond(c)
  \/ Disconnect(c)
  \/ \E k \in Kinds : Arrive(c, k)
  \/ ActivateFails(c) \/ \E v \in 1 .. MaxVersion : Activate(c, v)
  \/ \E whole \in BOOLEAN : Upload(c, whole) \/ BodyEnds(c, whole) \/ Refuse(c, whole)
  \/ \E e \in ErrorsBefore(options.security) : AcquireFails(c, e)
  \/ \E e \in ErrorsAfter(options.security) : SubmitFails(c, e)

\* The transport stopped for good: nobody can call it or connect any more.
Ended == worker \in {"none", "finished"} /\ host # "none" /\ UNCHANGED transportVars

TransportNext ==
  \/ Worker
  \/ \E c \in Callers : Calling(c) \/ \E op \in {"refresh", "close"} : Call(c, op)
  \/ \E c \in Conns : Connection(c)
  \/ ActivateAside
  \/ Ended

\* The worker runs, timers fire and a thread that may go on does.
TransportSpec == /\ TransportInit /\ [][TransportNext]_transportVars
        /\ WF_transportVars(InitSucceeds \/ InitFails) /\ WF_transportVars(StartReturns)
        /\ WF_transportVars(Shutdown) /\ WF_transportVars(BudgetSpent) /\ WF_transportVars(WorkerEnds)
        /\ \A c \in Callers : WF_transportVars(Calling(c))

-----------------------------------------------------------------------------
(* Properties.                                                             *)

\* Transport::close() returns only when the worker has ended: no connection
\* is being served, nothing more is handed to the gateway, the handle has a
\* terminal error, and no thread is left to join.
CloseStopsWorker ==
  (\E c \in Callers : call[c].result = "closed" /\ call[c].at = "idle") =>
    /\ worker = "finished" /\ terminal # Nothing /\ ~thread
    /\ \A c \in Conns : ~InProgress(c)

\* "submission": "not_sent" in an error object is a promise: the gateway has not processed
\* the request and never will (proxy.rs Failure), whatever the error but the one that
\* NotSentMeansNotSent is about.  What does reach the gateway came in through the capability
\* URL as one POST for this host, from no web page or an allowed one; and a page that lacks
\* the capability cannot read any answer.
SubmissionTruthful ==
  \A c \in Conns :
    LET k == req[c].kind
        page == options.browser_origin
        allowed(origins) == page # Nothing => origins = <<page.name>>
    IN  /\ req[c].answer = "not_sent" /\ ~req[c].mislabelled =>
              ~req[c].sent /\ ~req[c].ran
        /\ req[c].sent => /\ k.hosts = <<"own">> /\ ~k.query /\ k.path = "api"
                          /\ k.method = "POST"
                          /\ k.origins = <<>> \/ allowed(k.origins)
        /\ req[c].cors => k.path # "outside" /\ allowed(k.origins)

\* "Once HTTP begins, errors are execution-unknown" (encrypted_http.rs): no error object
\* says "not_sent" of a request that was handed to the gateway.  The code does not keep
\* this: Failure::encrypted() does not list the Completion error, which send() returns for
\* an authenticated response without a body that is labelled an event stream.
NotSentMeansNotSent == \A c \in Conns : req[c].answer = "not_sent" => ~req[c].sent

\* refresh_bundle() answers true only if the bundle changed since the call,
\* and a bundle that the refresh itself brought in is never reported as no
\* change, whatever recoveries run beside it.
RefreshTruthful ==
  /\ \A c \in Callers : call[c].result = "changed" => version > call[c].since
  /\ \A c \in Conns : req[c].brought => req[c].answer # "204"

\* A call on the handle returns, whatever the others do, and the worker ends
\* once shutdown was sent, also when nobody waits for it (free).
CallsReturn ==
  /\ \A c \in Callers : call[c].at # "idle" ~> call[c].at = "idle"
  /\ shutdown = "sent" ~> worker = "finished"
=============================================================================
