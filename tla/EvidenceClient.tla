--------------------------- MODULE EvidenceClient ---------------------------
(***************************************************************************)
(* Acquiring evidence for live channels: EvidenceClient                    *)
(* (crates/sdk/src/evidence_client.rs) and the appraisal that every        *)
(* request on a reused channel goes through, Channel::prepare              *)
(* (crates/sdk/src/native_http.rs).                                        *)
(*                                                                         *)
(* Verification runs as jobs on blocking threads.  A job owns the only cpu *)
(* permit until it ends, also when the task that waits for it has timed    *)
(* out.  The verifier itself is Evidence, reduced here to what its         *)
(* theorems establish: learned decisions only advance, and a snapshot is   *)
(* admitted while the latest root decision keeps its signer.  Deadlines    *)
(* may pass at any time.  Init is a client whose channel has just opened.  *)
(***************************************************************************)
EXTENDS Integers, FiniteSetsExt

CONSTANTS
    Preparers,      \* requests on one reused channel
    Refreshers,     \* callers of refresh, which ask for no check
    MaxGeneration,  \* bound: root decisions are 1 .. MaxGeneration
    Signer,         \* the online key that each root decision makes active
    Approving,      \* the generations whose approvals list the channel's release
    Bundles,        \* what the origins may deliver
    MaxInstalls,    \* bound: the number of snapshots installed in a behaviour
    None

Tasks == Preparers \cup Refreshers
Origins == 1 .. 2
Generations == 1 .. MaxGeneration

\* An incomplete bundle still carries its root decision and its revocation list.
Bundle == [generation : Generations, revokes : BOOLEAN, complete : BOOLEAN]

ASSUME EvidenceClientAssumption ==
    /\ Bundles \subseteq Bundle
    /\ Preparers \cap Refreshers = {} /\ None \notin Tasks

\* The id is the identity of the Arc: every installation makes a new one.
Snapshot == [generation : Generations, id : 1 .. MaxInstalls]

VARIABLES
    learned,          \* the generation in KeyState
    revoked,          \* whether the learned revocation list names the platform
    installed,        \* Verifier::current
    current,          \* EvidenceClient::current
    jobs,             \* refresh jobs on blocking threads
    representations,  \* Acquisition::representations
    cooldown,         \* whether Acquisition::retry_after lies ahead
    acquisition,      \* the holder of the acquisition lock
    channel,          \* the holder of the channel's lock
    retained,         \* the snapshot of Channel::current
    tasks

vars == <<learned, revoked, installed, current, jobs, representations, cooldown,
          acquisition, channel, retained, tasks>>

evidenceVars == <<learned, revoked, installed, current, jobs>>
lockVars == <<acquisition, channel>>

\* Nothing changes beyond the task itself.
OnlyTasks == UNCHANGED <<evidenceVars, lockVars, representations, cooldown, retained>>

Job == [owner : Tasks \cup {None}, bundle : Bundle, phase : {"observed", "installed"},
        snapshot : Snapshot \cup {None}]

\* Where a task waits or runs, the snapshot it works with, the origin it tries, and what
\* had been learned when its request started.
Stages == {"idle", "channel", "keys", "collateral", "appraise", "acquire", "precheck",
           "download", "refresh", "running", "postcheck", "reappraise", "lastKeys",
           "lastCollateral", "returned"}

Task == [pc : Stages, snapshot : Snapshot \cup {None}, origin : Origins,
         bundle : Bundle \cup {None}, since : 0 .. MaxGeneration, barred : BOOLEAN]

Idle == [pc |-> "idle", snapshot |-> None, origin |-> 1, bundle |-> None, since |-> 0,
         barred |-> FALSE]

Init ==
    /\ learned = 1
    /\ revoked = FALSE
    /\ installed = [generation |-> 1, id |-> 1]
    /\ current = installed
    /\ jobs = {}
    /\ representations = [o \in Origins |-> None]
    /\ cooldown = FALSE
    /\ acquisition = None
    /\ channel = None
    /\ retained = installed
    /\ tasks = [t \in Tasks |-> Idle]

At(t, pc) == tasks[t].pc = pc

-----------------------------------------------------------------------------

\* KeyState::require_current, when the latest root decision is g.
AdmittedBy(s, g) == s.generation <= g /\ Signer[s.generation] = Signer[g]

\* Snapshot::reappraise_session for the channel's boot.
Appraises(s) ==
    /\ AdmittedBy(s, learned)
    /\ s.generation \in Approving
    /\ ~ revoked

CpuFreeOfWaiters == \A j \in jobs : j.owner = None

\* The permit belongs to the running job, not to the task that waits for it.
CpuFree == jobs = {}

VerifierUnlocked == \A j \in jobs : j.phase # "observed"

Released(holder, t) == IF holder = t THEN None ELSE holder

Go(t, pc) == tasks' = [tasks EXCEPT ![t].pc = pc]

GoWith(t, pc, s) == tasks' = [tasks EXCEPT ![t].pc = pc, ![t].snapshot = s]

FailHoldingAcquisition(t) ==
    /\ tasks' = [tasks EXCEPT ![t] = Idle]
    /\ channel' = Released(channel, t)
    /\ UNCHANGED acquisition

\* The task returns an error, dropping the locks it holds.
Fail(t) ==
    /\ tasks' = [tasks EXCEPT ![t] = Idle]
    /\ acquisition' = Released(acquisition, t)
    /\ channel' = Released(channel, t)

-----------------------------------------------------------------------------
(* Channel::prepare.                                                       *)

StartPrepare(t) ==
    /\ t \in Preparers /\ At(t, "idle")
    /\ tasks' = [tasks EXCEPT ![t].pc = "channel", ![t].since = learned,
                              ![t].barred = revoked]
    /\ OnlyTasks

\* The pointer comparison alone would keep a context whose key has been retired.
LockChannelTrusting(t) ==
    /\ At(t, "channel") /\ channel = None
    /\ IF current = retained
       THEN GoWith(t, "returned", current) /\ UNCHANGED channel
       ELSE GoWith(t, "appraise", current) /\ channel' = t
    /\ UNCHANGED <<representations, cooldown, retained, acquisition>>
    /\ UNCHANGED evidenceVars

LockChannel(t) ==
    /\ At(t, "channel") /\ channel = None
    /\ channel' = t
    /\ GoWith(t, IF current = retained THEN "keys" ELSE "appraise", current)
    /\ UNCHANGED <<representations, cooldown, retained, acquisition>>
    /\ UNCHANGED evidenceVars

\* check_session on the retained context reads the keys, then the revocations.
CheckKeys(t) ==
    /\ At(t, "keys")
    /\ Go(t, IF AdmittedBy(tasks[t].snapshot, learned) THEN "collateral" ELSE "appraise")
    /\ OnlyTasks

CheckCollateral(t) ==
    /\ At(t, "collateral")
    /\ Go(t, IF revoked THEN "appraise" ELSE "returned")
    /\ channel' = IF revoked THEN channel ELSE None
    /\ UNCHANGED <<representations, cooldown, retained, acquisition>>
    /\ UNCHANGED evidenceVars

\* reappraise_session is one job; no refresh runs beside it.
Appraise(t) ==
    /\ At(t, "appraise") /\ CpuFree
    /\ IF Appraises(tasks[t].snapshot) THEN Go(t, "lastKeys") ELSE GoWith(t, "acquire", None)
    /\ OnlyTasks

Reappraise(t) ==
    /\ At(t, "reappraise") /\ CpuFree
    /\ IF Appraises(tasks[t].snapshot)
       THEN Go(t, "lastKeys") /\ UNCHANGED lockVars
       ELSE Fail(t)
    /\ UNCHANGED <<representations, cooldown, retained>>
    /\ UNCHANGED evidenceVars

LastKeys(t) ==
    /\ At(t, "lastKeys")
    /\ IF AdmittedBy(tasks[t].snapshot, learned)
       THEN Go(t, "lastCollateral") /\ UNCHANGED lockVars
       ELSE Fail(t)
    /\ UNCHANGED <<representations, cooldown, retained>>
    /\ UNCHANGED evidenceVars

LastCollateral(t) ==
    /\ At(t, "lastCollateral")
    /\ IF revoked
       THEN Fail(t) /\ UNCHANGED retained
       ELSE /\ Go(t, "returned")
            /\ retained' = tasks[t].snapshot
            /\ channel' = None
            /\ UNCHANGED acquisition
    /\ UNCHANGED <<representations, cooldown>>
    /\ UNCHANGED evidenceVars

\* The request goes on with its context.
Return(t) ==
    /\ At(t, "returned")
    /\ tasks' = [tasks EXCEPT ![t] = Idle]
    /\ OnlyTasks

-----------------------------------------------------------------------------
(* EvidenceClient::acquire_inner.                                          *)

StartRefresher(t) ==
    /\ t \in Refreshers /\ At(t, "idle")
    /\ Go(t, "acquire")
    /\ OnlyTasks

\* Begin the attempts, unless an earlier failure is still cooling down.
Attempt(t) ==
    IF cooldown
    THEN Fail(t)
    ELSE /\ GoWith(t, "download", None)
         /\ acquisition' = t
         /\ UNCHANGED channel

LockAcquisition(t) ==
    /\ At(t, "acquire") /\ acquisition = None
    /\ IF t \in Preparers
       THEN /\ GoWith(t, "precheck", current)
            /\ acquisition' = t
            /\ UNCHANGED channel
       ELSE Attempt(t)
    /\ UNCHANGED <<representations, cooldown, retained>>
    /\ UNCHANGED evidenceVars

\* Another task's acquisition may already have resolved this one's failure.
Precheck(t) ==
    /\ At(t, "precheck") /\ CpuFree
    /\ IF Appraises(tasks[t].snapshot)
       THEN Go(t, "reappraise") /\ acquisition' = None /\ UNCHANGED channel
       ELSE Attempt(t)
    /\ UNCHANGED <<representations, cooldown, retained>>
    /\ UNCHANGED evidenceVars

\* The other origin, or the failure of the acquisition and its cooldown.
NextOrigin(t) ==
    IF tasks[t].origin = 1
    THEN /\ tasks' = [tasks EXCEPT ![t].pc = "download", ![t].origin = 2,
                                   ![t].bundle = None, ![t].snapshot = None]
         /\ UNCHANGED cooldown /\ UNCHANGED lockVars
    ELSE Fail(t) /\ cooldown' = TRUE

\* download: new bytes, or 304 and the bytes of this origin's representation.
Download(t) ==
    /\ At(t, "download")
    /\ \E b \in Bundles :
          tasks' = [tasks EXCEPT ![t].pc = "refresh", ![t].bundle = b]
    /\ OnlyTasks

NotModified(t) ==
    LET cached == representations[tasks[t].origin] IN
    /\ At(t, "download") /\ cached # None
    /\ tasks' = [tasks EXCEPT ![t].pc = "refresh", ![t].bundle = cached]
    /\ OnlyTasks

DownloadFails(t) ==
    /\ At(t, "download")
    /\ NextOrigin(t)
    /\ UNCHANGED <<representations, retained>>
    /\ UNCHANGED evidenceVars

\* The job takes the verifier's lock and learns what the bundle's signatures prove.
RefreshObserves(t) ==
    LET b == tasks[t].bundle IN
    /\ At(t, "refresh") /\ CpuFree /\ VerifierUnlocked
    /\ learned' = Max({learned, b.generation})
    /\ revoked' = (revoked \/ b.revokes)
    /\ jobs' = jobs \cup {[owner |-> t, bundle |-> b, phase |-> "observed", snapshot |-> None]}
    /\ tasks' = [tasks EXCEPT ![t].pc = "running", ![t].bundle = None]
    /\ UNCHANGED <<installed, current, representations, cooldown, retained>>
    /\ UNCHANGED lockVars

\* Verifier::refresh returns a complete, current snapshot and unlocks the verifier.
RefreshInstalls(j) ==
    LET s == [generation |-> j.bundle.generation, id |-> installed.id + 1] IN
    /\ j.phase = "observed"
    /\ j.bundle.complete
    /\ j.bundle.generation = learned
    /\ installed.id < MaxInstalls
    /\ installed' = s
    /\ jobs' = (jobs \ {j}) \cup {[j EXCEPT !.phase = "installed", !.snapshot = s]}
    /\ UNCHANGED <<learned, revoked, current, representations, cooldown, retained, tasks>>
    /\ UNCHANGED lockVars

\* The acquisition succeeds: the lock is released and a preparer appraises the snapshot.
Succeed(t, s) ==
    /\ cooldown' = FALSE
    /\ acquisition' = None
    /\ IF t \in Preparers
       THEN tasks' = [tasks EXCEPT ![t].pc = "reappraise", ![t].snapshot = s,
                                   ![t].origin = 1]
       ELSE tasks' = [tasks EXCEPT ![t] = Idle]
    /\ UNCHANGED channel

\* The job publishes its snapshot and ends; a task that still waits keeps the bytes.
RefreshPublishes(j) ==
    /\ j.phase = "installed"
    /\ current' = j.snapshot
    /\ jobs' = jobs \ {j}
    /\ IF j.owner = None
       THEN UNCHANGED <<representations, cooldown, tasks>> /\ UNCHANGED lockVars
       ELSE /\ representations' = [representations EXCEPT ![tasks[j.owner].origin] = j.bundle]
            /\ IF j.owner \in Preparers
               THEN /\ GoWith(j.owner, "postcheck", j.snapshot)
                    /\ UNCHANGED cooldown /\ UNCHANGED lockVars
               ELSE Succeed(j.owner, j.snapshot)
    /\ UNCHANGED <<learned, revoked, installed, retained>>

\* Verification fails: the bundle is incomplete, or older than what is learned.
RefreshRejects(j) ==
    /\ j.phase = "observed"
    /\ jobs' = jobs \ {j}
    /\ IF j.owner = None
       THEN UNCHANGED <<cooldown, tasks>> /\ UNCHANGED lockVars
       ELSE NextOrigin(j.owner)
    /\ UNCHANGED <<learned, revoked, installed, current, representations, retained>>

\* An accepted snapshot is not enough: the check that failed must pass under it.
Postcheck(t) ==
    /\ At(t, "postcheck") /\ CpuFree
    /\ IF Appraises(tasks[t].snapshot)
       THEN Succeed(t, tasks[t].snapshot)
       ELSE NextOrigin(t)
    /\ UNCHANGED <<representations, retained>>
    /\ UNCHANGED evidenceVars

DisownByAborting(t) == jobs' = {j \in jobs : j.owner # t}

\* A task that stops waiting leaves its job running.
Disown(t) == jobs' = {IF j.owner = t THEN [j EXCEPT !.owner = None] ELSE j : j \in jobs}

\* One origin's budget runs out.
AttemptTimeout(t) ==
    /\ tasks[t].pc \in {"download", "refresh", "running", "postcheck"}
    /\ Disown(t)
    /\ NextOrigin(t)
    /\ UNCHANGED <<learned, revoked, installed, current, representations, retained>>

\* The request's deadline passes, or its caller drops it.
Cancel(t) ==
    /\ tasks[t].pc \notin {"idle", "returned"}
    /\ Disown(t)
    /\ Fail(t)
    /\ UNCHANGED <<learned, revoked, installed, current, representations, cooldown, retained>>

CooldownEnds ==
    /\ cooldown
    /\ cooldown' = FALSE
    /\ UNCHANGED <<representations, retained, tasks>>
    /\ UNCHANGED evidenceVars /\ UNCHANGED lockVars

Advance(t) ==
    \/ LockChannel(t) \/ CheckKeys(t) \/ CheckCollateral(t)
    \/ Appraise(t) \/ Reappraise(t) \/ LastKeys(t) \/ LastCollateral(t)
    \/ LockAcquisition(t) \/ Precheck(t) \/ Download(t) \/ NotModified(t)
    \/ DownloadFails(t) \/ RefreshObserves(t) \/ Postcheck(t)

JobStep == \E j \in jobs : RefreshInstalls(j) \/ RefreshPublishes(j) \/ RefreshRejects(j)

\* What happens without new callers and without deadlines.
Progress == (\E t \in Tasks : Advance(t)) \/ JobStep

Next ==
    \/ Progress
    \/ \E t \in Tasks : StartPrepare(t) \/ Return(t) \/ StartRefresher(t)
                        \/ AttemptTimeout(t) \/ Cancel(t)
    \/ CooldownEnds

Spec == Init /\ [][Next]_vars

-----------------------------------------------------------------------------
(* Properties.                                                             *)

\* A context that prepare hands to a request was admitted by a root decision the client
\* knew after the request started: a retirement learned earlier, even from a bundle that
\* was then rejected, is never overlooked, and neither is an earlier revocation.
RetirementHonoured ==
    \A t \in Preparers : At(t, "returned") =>
        /\ \E g \in tasks[t].since .. learned : AdmittedBy(tasks[t].snapshot, g)
        /\ ~ tasks[t].barred

\* Snapshots reach EvidenceClient::current and the channel in the order in which the
\* verifier installed them, also when the tasks that fetched them have given up.
SnapshotsInOrder ==
    [][current'.id >= current.id /\ retained'.id >= retained.id]_vars

\* What requests read is what the verifier last accepted, except while the job that
\* accepted it still runs.
PublishedWhenIdle == jobs = {} => current = installed

\* Locks, cpu permit and jobs never wait for each other in a circle: while some caller
\* waits, some caller or job can move without any deadline passing.
NobodyStuck ==
    (\E t \in Tasks : tasks[t].pc \notin {"idle", "returned"}) => ENABLED Progress

=============================================================================
