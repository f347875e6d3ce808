# Stogas verifier: TLA+ models and proofs

The repository is an SDK that verifies a confidential gateway before anything
is sent to it. This directory keeps TLA+ models of it next to the code, the TLC
configurations that check them, and TLAPS proofs of what matters most. `PROJECT.json` maps every definition to the lines it models.

## The system

| Part | Where | Modules |
|---|---|---|
| Evidence and approvals: learn root decisions, AMD revocations and approvals, never go back | `crates/verifier/src/{evidence,approvals}*` | `Evidence` |
| Evidence acquisition: two origins, cooldown, appraisal of live channels | `crates/sdk/src/{evidence_client,native_http}.rs` | `EvidenceClient` |
| Channel setup: encrypted, and attested TLS | `crates/verifier/src/channel/setup.rs`, `crates/sdk/src/{encrypted_setup,native_tls}.rs` | `Setup` |
| Encrypted channel: start window, double ratchet, records, decoder | `crates/verifier/src/channel/` | `Starts`, `StartWindow`, `Ratchet`, `Channel`, `Records`, `Exchange` |
| Encrypted session pool | `crates/sdk/src/encrypted_{client,http}.rs` | `EncryptedClient`, `Delivery` |
| HTTP/2 pool of attested TLS | `crates/sdk/src/{http2_pool,native_http}.rs` | `Http2Pool`, `Delivery` |
| Background transport: worker thread, handle, loopback proxy, C handle | `crates/sdk/src/{lib,proxy,upstream}.rs`, `crates/ffi/src/transport.rs` | `Transport` |
| Receipts at the end of a stream | `crates/verifier/src/receipt*`, `crates/sdk/src/receipt_http.rs` | `SseBody`, `ReceiptStream` |
| Boots: registration, provisioning, log, quotes, archive | `crates/verifier/src/{gateway,attestation,secret_release}*`, `evidence/{boot,session,history}.rs` | `Node`, `Inclusion` |
| SNP reports and AMD certificates | `crates/verifier/src/lib.rs`, `evidence/{snp,amd,collateral}.rs` | `Appraisal` |
| Releases, build provenance, manifests | `crates/verifier/src/{lib,approvals}.rs` | `Release`, `ReleaseSequence` |
| Sigstore without a network: trusted root, Rekor, Fulcio, time stamps, TUF | `crates/offline-sigstore/src/` | `Sigstore`, `Tuf`, `Inclusion` |

Setup verifies a peer with a snapshot of the evidence and yields a channel. A
request on an encrypted channel allocates a *start number* in its session's
window (`session.rs`), seals a first record under the ratchet, and is admitted
once by the server's replay window (`server.rs`); after that the two directions
are independent record streams. The SDK shares a few sessions, or HTTP/2
connections, between many requests. A streamed response is filtered so that its
last event is complete only after everything about it was checked. An
application that cannot link the SDK talks to the loopback proxy, which a worker
thread serves over one of the two pools.

What a setup verifies begins elsewhere: a guest boots with fresh keys, registers
with Control and opens its provisioning once; at some time after the registration
the Rekor log integrates its publication. It then quotes connections in batches. A client appraises the logged boot and the
quote of its own connection together, under the newest bundle of approvals.

## Modules

* `Starts`: the client's `Starts` and the server's replay bitmap as operators;
  bitmaps are sets of positions modulo `ReplayWindow`.
* `StartWindow`: both ends without their cryptography, with requests, first responses, cancellation
  (`PendingStart::drop`), close, and deliveries in any order, any number of
  times, or never. A start that fails authentication is `TurnAwayNumber`. Its
  actions are named for the number they take, confirm, drop or admit.
* `Ratchet`: `Peer` and its operations. Keys are symbolic: a root is the
  sequence of key pairs mixed into it, a message key is a root and an index, and
  a header opens exactly under the cipher that sealed it.
* `Channel`: extends `StartWindow` by two ratchets, so that authentication is
  what the ratchets make of it. It implements `WindowSpec`.
* `Records`, `Exchange`: one record stream from `seal_async` to the bytes the
  caller reads; every await is a point where the future can be dropped, and a
  wire record may arrive in one or two pieces.
* `EncryptedClient`, `Http2Pool`: a task is one `send`; its `at` field is the
  await it is suspended at. tokio's `Notify` is modelled from its use: `enable`
  registers, `notify_waiters` wakes exactly the registered ones. Hyper and the
  peer announce limits, stop, refuse and end when they like.
* `Delivery`: what both pools promise the caller of `send` about a request: it
  is handed over again only after an attempt that did not and will not run, not
  where it was just refused; it runs at most once; what the caller is told is
  true. `Contract` in either pool is `Delivery` under a refinement mapping. The
  phase of a request is a history of what the gateway did, the place is the
  session or connection of its lease while a submission is under way, the avoided
  one is the task's own refused place as long as it exists.
* `Evidence`: one step per critical section of `KeyState` and `Revocations`,
  because holders of older snapshots see each of them. A document stands for
  its digest; whether a signature or proof verifies is a fact about it.
* `EvidenceClient`: tasks, the acquisition lock, the channel's lock, the cpu
  permit and jobs that outlive the task that waits for them. The verifier
  is reduced to what `VerifierProofs` establishes.
* `Setup`: attempts, gateways and the root. Fresh random values are named by
  who drew them, a transcript is the tuple it hashes, an export agrees exactly
  if the key is the one it was made for. A response may be assembled from
  several, a certificate may be another dial's.
* `SseBody`, `ReceiptStream`: the SSE filter over a small alphabet in which
  every prefix shares its beginning with ordinary events, and the two streams
  that use it, alone and in series. The reference (`Split`, `WellFormed`,
  `Content`) looks at the whole stream.

* `Transport`: the worker from its start to its join, callers of refresh and
  close on two threads with the C handle's lock, and the proxy's handling of a
  connection from `Host` to the last body byte. The upstream client answers as
  the pools' modules let it. A response that allows no body but is labelled an
  event stream makes `send` fail after the submission (`encrypted_http.rs:153`);
  the field `mislabelled` of a request remembers that this happened.
* `Inclusion`, `Appraisal`, `Sigstore`, `Tuf`, `Release`, `ReleaseSequence`: the
  verdict of each verifying function as an operator. A digest is what it digests,
  or a part that determines it, and a signature is the pair of its key and
  message: neither can be forged and both can be compared. Which error is
  reported, and alphabets and lengths of free text, are left out. `Sigstore`
  includes a consequence of `tsa.rs` that a reader may not expect: a time stamp
  token that embeds a signer certificate which the trusted root also lists is
  refused, since exactly one candidate must match.
* `Node`: those verdicts in motion: guests, Control, the log, clients, and
  bundles, keys, logs, firmware and time that change under them. Control, the log,
  the gateway program and the firmware are outside the repository and do what the
  library's documentation asks of them. `Register` is Control's transaction, and
  `Publish` the log's integration, later or never: evidence may expire and another
  log take over between the two, and nothing in the library looks again. Of the
  gateway program it is assumed that it acknowledges its provisioning only after
  it opened it; `sign_boot_request` itself signs whatever it is given.

`MC*` modules only add what TLC needs. `*Proofs` modules and `Http2PoolInvariant`
hold the theorems.

## Runs

| Run | Bounds | Shows |
|---|---|---|
| `channel` | window 2, numbers 0 to 5, 6 starts, 3 clock values in any order | both bitmaps stay exact while they slide, live starts authenticate, a key is gone once applied or too old, a response opens unless its request was cancelled |
| `channel_retention` (violated) | window 4, 8 starts | the client's bound on delayed keys evicts the key of an awaited response |
| `streams` | records of 5 bytes with 2 of overhead, bodies of 5 and 4, 6 calls; event streams of at most 16 bytes, chunks of at most 3, pieces of 2 | what is emitted is a prefix of what was sealed and completion is the whole of it, a record key encrypts once, a conforming writer never exceeds the reader's bound; an event stream completes exactly if it is well formed and covered, however it is cut, and its terminal event is withheld until then |
| `encrypted_client` | 2 tasks, 2 sessions, 2 nodes, maximum 1, one close | the delivery contract, the pool's bound, quiet after close, waiters served |
| `encrypted_client_renewal` (violated) | 3 tasks, 3 sessions | a request told to wait for a drain it does not need |
| `http2_pool` | 2 tasks, 2 connections, stream limits 0 and 1, one close | the delivery contract, counters, limits and wake-ups while the peer changes its limits, sends GOAWAY, refuses or disconnects; close against a request at every step |
| `evidence` | 5 key manifests, 8 approvals, 4 revocation lists, 3 times | equivocation, replay, renewal, rotation, reuse of checks, revocation in every order and after failures at every point |
| `evidence_client` | 2 requests, 1 refresh, a renewal and a rotation, 3 installations | learned retirement is honoured, snapshots are published in order, nobody is stuck |
| `setup` | 2 attempts, 3 gateways (one of another environment), 2 prepared setups, a renewal and a rotation | a channel is handed out only if verified as a whole; recovery can use what was retained |
| `transport` | 2 callers with one call each, 1 connection, 6 configurations, 7 requests, 2 bundle versions | close leaves no worker, `submission` and refresh answers are true, every call returns |
| `transport_submission` (violated) | those of `transport` | the proxy says `not_sent` of a request that was executed |
| `node` | 2 guests of one machine, 2 connections, 3 bundles, 3 instants, 2 firmware levels | a boot fares alike by facts, document and log; a published boot is provable for ever if it was when the log integrated it; one provisioning per boot; sessions are the caller's own; the cheap check suffices; and three algorithms against their references |

A window of 2 is the smallest in which a bit position is reused while its
neighbour is live; six starts slide it three times. A maximum of one session or
connection makes the pool's limit and its draining member meet with two tasks.
In `http2_pool` one task at a time is at its second attempt, and close meets the
requests one by one (`OneRetries`, `Separate` in `MCHttp2Pool`): what two requests
do to each other is explored in an open pool. In `evidence` every comparison the
code makes has both outcomes. Two attempts let each receive the other's material,
and three root decisions let one fall between a recovery and the use of its
snapshot. In `streams` pieces and chunks of different sizes put a cut at
every place of every prefix and delimiter; its two layers meet only at the bytes
handed on, so `MCStreams` explores each by itself (`layer`). The bundles of `node` rotate the
signing key, the log, Sigstore's root, the firmware and a release, each once, so
that every trace of a boot outlives something it was made with. Provisioning and
channels share only the registry there and read nothing of each other's, so
`MCNode` explores each with the registry alone (`focus`).

`ProofsExact` takes every tree of up to 12 bindings and 17 log entries, which
contains every shape a path can have at its right edge up to depth five, and every
index; altered proofs are refused. `SequencesOrder` runs over all tags around the
base and the bound. `QuorumsHold` runs over chains with a version left out, a
version repeated, too few signers, and a key listed under two ids: each root that
`newest_root` accepts has a threshold of the root before it and of its own, counted
in key holders.

`BootTracesAgree` and `LoggedBootsArchived` say of a late integration what the code
does with it. If the evidence of the registration had expired by then, or its
trusted root does not know the log that took the entry, the boot is published but
the archive does not prove it, at that time or later (`history.rs:210-232`);
otherwise the archive proves it for ever.

The violated runs are findings, described in `PROJECT.json`:

* `channel_retention`: a comment that the code contradicts (`peer.rs:404`).
* `encrypted_client_renewal`: a renewal that a test asserts and that one
  interleaving delays (`encrypted_client.rs:427`). `select` answers `Wait` although
  calling it again would open a session; the request sleeps until the last response
  on the draining session ends, and fails if that is after its setup deadline.
* `transport_submission`: a 204, 205 or 304 with the content type of an event
  stream fails in `send` with `Error::Completion`, after the gateway had the
  request. `Failure::encrypted` does not count that error among those after the
  submission (`proxy.rs:287`), so the caller is told `not_sent`, against
  `encrypted_http.rs:64`. `SubmissionTruthful` is what does hold: no other error
  is mislabelled so.

A fourth disagreement has no run because it concerns one early return:
`tuf.rs:40` says of the list of roots "Versions at or below the compiled root are
skipped, so one list serves verifiers compiled with different roots", while
`newest_root` fails on such a version (`tuf.rs:151`), as its own test expects.
The model follows the code.

Deadlock is checked in `evidence`, `evidence_client` and `transport`; elsewhere
callers may simply stop, or time and bundles end. In `evidence_client` the invariant `NobodyStuck` says that while a
caller waits, some caller or job can move without any deadline passing; this
needs no fairness.

### Fairness

`FairSpec` of `EncryptedClient` assumes weak fairness of each task's and the
closer's own steps (the runtime polls a woken future) and of the deadlines
(`timeout_at`), and strong fairness of finding an unexpired session: a session
that was just opened has a positive idle lifetime (`setup.rs`), so it cannot be
expired at every look. `Spec` of `Transport` assumes weak fairness of the worker's
start, shutdown, drain budget and end, and of each thread inside a call: threads
run and timers fire. It assumes nothing of connections, which the budget cuts.
Of callers only `EncryptedClient` assumes something, that a response body is
eventually ended or dropped.

`http2_pool` assumes no fairness. That close needs no deadline there is the
invariant `CloseIsQuiet`: while it sleeps without a notification, something it
waits for is still there, and every way that can end notifies it.

## Proofs

All theorems hold for every value of the constants.

* `ChannelProofs`: the properties of `StartWindow`, for every window.
  `WindowInv` joins the type invariant to `ClientWindow` (the bitmap is the image
  of the owners under `Position`, within one window of `firstPending`) and
  `ServerWindow` (a bit is set exactly for the admitted numbers of the current
  window). Neither is inductive alone, since a position stands for different
  numbers as the window slides; `PositionInjective` (two numbers closer than the
  window never share a bit) is the lemma the rest hangs on. The session with its
  ratchets implements `WindowSpec` (`ImplementsWindow`: each action of `Channel` is
  an action of the window or leaves it alone), so `WindowsHold` follows for it.
  `KeysGone` is about secrets rather than headers. `Passed` says that the ratchet
  is beyond a secret: on an earlier root, or on the chain being received below its
  count. `Fresh` says that all used secrets are passed, and that the stored keys
  are passed, unused and all different; so a used secret can be neither derived nor
  found again (`ReceiveFacts`). `Ordered` says that deadlines do not decrease along
  the store, which is why trimming its oldest end is enough.
* `SessionProofs`, on a session from its setup to the records it carries. Of
  `Setup`: `EstablishedIsVerified` and `RecoveryCanSucceed`, for any number of
  attempts, gateways and root decisions. `IInv` records for each suspended attempt
  where its response came from and that an appraised peer quoted the challenge of
  the dial that is finishing; `OnlyTwoWays` shows that nothing else connects, and
  `CompleteFacts` derives from the quote and the confirmation that the parts of
  a response belong together. `Retains` adds what a recovering attempt has kept.

  Of `Exchange`: `CompletionIsWhole`, `KeyAppliedOnce` and `WireBounded`, for all
  limits, sizes and numbers of calls. In `ExchangeInv`, `Sending` says that the chain
  of a living writer has stepped once per sealed record and once for the one in the
  cipher, so the i-th record has the i-th key; `Receiving` that the reader's chain
  has stepped once per record handed on, so a record out of its place never opens;
  `KeysPast` that no key applied before is ahead of the chain, which is why a
  cancelled seal must close the direction. `Spent` accounts for the bytes by what
  they are spent on: the data records of a request are full but for the last one,
  hence the number of records is bounded by the body.
* `EncryptedClientProofs`: the session pool implements `Delivery`,
  `ClosedIsQuiet` and `PoolBounded`. `IInv` joins the type invariant to `Leased` (a session's
  counter is the number of its leases, so a leased session is never removed) and
  `Staged` (what each task holds at each await, and where it was refused). It is
  needed because the contract forbids a re-send through the refusing session,
  and that must last from the refusal to the next submission. For the bound,
  `Room` counts the setup under way together with the sessions that serve.
* `Http2PoolInvariant` and `Http2PoolProofs`: `CountersExact`, `NoLostWakeup`,
  `CloseIsQuiet` and `Delivers` of the HTTP/2 pool; the first module holds the
  invariant and the steps of `acquire()`, the second all others and the theorems. `Held` relates
  `Activity::active` to the shares of a slot, which the caller and Hyper's upload
  hold together and the last one frees; `Queued` the budget of `Waiting` to the
  requests in `acquire()`; `Roomy` says one task opens at a time and has room;
  `Staged` what each task holds and avoids. `NoLostWakeup` is part of the
  invariant: a step either leaves connections as they are for sleepers
  (`Quietly`), or notifies all (`Loudly`). Every action is shown to preserve the
  invariant and to be a step of `Delivery` or a stutter at once (`Good`).
* `VerifierProofs`, about `Evidence`: decisions, approvals and revocation lists
  only advance, two snapshots in use agree on what a number names, a retired
  signer is rejected, and a refresh that reuses release checks installs nothing
  that fresh ones would refuse. The last rests on `ChecksMade`: every remembered
  check passed under the Sigstore keys and at the time it is remembered with, and
  what passed once passes at every later time under the same keys. `OrderInv` adds
  that every held snapshot was signed by a decision not ahead of the learned
  one and came before the accepted one, which the single invariants do not say.
  `RevocationSticks` and `RevocationOutlivesFailure` rest on `RowsKept` (every list
  a running refresh has been through is covered by the latest of its root) and
  `ListsKnown`.
  For every base and bound, release sequences order tags as their versions do.
  About `Transport`: `CloseStopsWorker`, `SubmissionTruthful` and
  `RefreshTruthful`. `Sound` says of each connection, by where it is, what was
  checked and whether the gateway can have it; `Calls` relates a caller's refresh
  to the bundle version its connection found; `Life` ties the handle, the thread
  and the worker together, so that a joined thread means an ended worker.
* `NodeProofs`: `ProvisionedOnce` and `CheckSuffices`. `RegistryInv` says in which
  stage between boot and completion each guest is, that the log holds a boot at
  most once and that a completing request exists only for a provisioned guest.
  `CheckSuffices` (while a snapshot lasts, `check_session` agrees with a full
  `appraise_session`) needs `NodeInv`: an open session was appraised under its
  snapshot at an instant not after the present one, with the certificate that
  batch and log still give; `Lasting` (the log grows, a quoted batch stays, time
  does not go back) keeps it true, and `ChecksAgree` says that of all the
  verdicts only the collateral's depends on the instant once it has passed.
  It assumes that `Times` does not decrease (`TimesAssumption`).
* `EvidenceClientProofs`: `RetirementHonoured`, `PublishedWhenIdle` and
  `SnapshotsInOrder`. `JobsOK` says that a single job at a time is under way and
  that what it installed is the verifier's snapshot, also after its task gave up;
  `TaskOK` that a task's snapshot lies between the retained and the current one and
  that a passed check is not older than the request; `ChannelOK` that whoever looks
  at the channel holds its lock. Order of publication needs all three.

The assumptions are the named `ASSUME`s of the modules (positive bounds, types
of the documents, finite sets of tasks, `None` being none of the values it stands
beside); TLC evaluates them in the runs.

Model-checked only:

* every liveness property (`WaitersServed`, `CallsReturn`), which needs fairness,
  and `NobodyStuck`, which needs `ENABLED`;
* that the two ratchets meet (`LiveStartsAuthenticate`,
  `ResponsesOpenUnlessCancelled`): which keys one end must still hold for what the
  other has sent is an induction over their turns;
* the SSE filter, Merkle proofs and root chains: recursive definitions, and what
  they compute for every input needs an induction over data that the prover
  cannot instantiate;
* of `Node`, `BootTracesAgree`, `LoggedBootsArchived` and `SessionIsOwn`: they need
  that the proofs made for a log or a batch verify, and only for the leaf they were
  made for, which is what the Merkle recursion computes for every tree.

## Not modelled

* Cryptographic primitives, DER, CBOR and JSON parsing and canonical forms: pure
  functions; here a document is its fields.
* The JavaScript transports: a second implementation of the session pool and of
  evidence acquisition on an event loop. `Delivery` is their contract too, but
  their steps were not translated.
* WebAssembly, Python and other bindings, and the C interface apart from the
  transport's handle: conversions of arguments and errors.
* The command line program: terminal, files and services outside the repository.
* `probe.rs` (a health probe of one request), the evidence archive's files, and
  the instant at which a TLS key update is queued (`native_tls/traffic.rs`).

`PROJECT.json` lists each part with its reason.
