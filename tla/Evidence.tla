------------------------------ MODULE Evidence ------------------------------
(***************************************************************************)
(* The networkless evidence verifier (crates/verifier/src/evidence.rs) and *)
(* the decisions it learns: the root's key manifests (approvals/keys.rs),  *)
(* the approvals an online key signs (approvals.rs) and AMD's revocation   *)
(* lists (evidence/amd.rs).                                                *)
(*                                                                         *)
(* One refresh runs at a time, since refresh_observed takes the verifier   *)
(* mutably.  Snapshots share the learned keys and revocations with it, so  *)
(* their holders see every step of a refresh: each step here is one        *)
(* critical section of KeyState or of Revocations.  The parts of a bundle  *)
(* are chosen where the code first reads them.                             *)
(***************************************************************************)
EXTENDS Integers, Sequences

CONSTANTS
    KeyManifests,       \* documents the root has signed and logged
    ApprovalManifests,  \* documents an online key has signed
    Issuers,            \* the pinned AMD roots
    Crls,               \* revocation lists AMD has signed
    Deliveries,         \* sequences of CRL rows a bundle may carry
    PlatformSets,       \* sets of platforms a bundle may carry certificates for
    None,               \* absent, or a row or document that does not authenticate
    MaxTime,            \* bound: wall-clock readings are 0 .. MaxTime
    MAX_CLOCK_SKEW_MS

Time == 0 .. MaxTime

(***************************************************************************)
(* A document stands for its digest: two documents are equal exactly when  *)
(* their digests are.  A release's id is the digest of its document and    *)
(* the record as a whole that of the document with its proof; trusted and  *)
(* built say under which Sigstore keys, and from which time, it verifies.  *)
(***************************************************************************)
KeyManifest ==
    [generation : Nat \ {0}, expires_at : Nat, active_key : Nat, serial : Nat]

HardwarePolicy == [version : Nat, rules : Nat]

Release == [id : Nat, proof : Nat, trusted : SUBSET Nat, built : Nat]

ApprovalManifest ==
    [keys : KeyManifests, signer : Nat, revision : Nat \ {0}, sigstore : Nat,
     hardware_policy : HardwarePolicy, releases : SUBSET Release]

Crl == [issuer : Issuers, number : Nat, start : Nat, end : Nat, revoked : SUBSET Nat]

Platform == [chip : Nat, issuer : Issuers, ask_serial : Nat, start : Nat, end : Nat]

ASSUME DocumentAssumption ==
    /\ KeyManifests \subseteq KeyManifest
    /\ ApprovalManifests \subseteq ApprovalManifest
    /\ Crls \subseteq Crl
    /\ Deliveries \subseteq Seq(Crls \cup {None}) /\ <<>> \in Deliveries
    /\ PlatformSets \subseteq SUBSET Platform
    /\ MaxTime \in Nat
    /\ MAX_CLOCK_SKEW_MS \in Nat

VARIABLES
    learned,      \* KeyState: the latest key manifest, or None
    conflicting,  \* Learned::conflicting
    accepted,     \* ApprovalVerifier::accepted
    current,      \* Verifier::current
    retained,     \* a snapshot some request or session still holds
    known,        \* the issuers in Revocations::issuers
    latest,       \* Issuer::latest
    disputed,     \* Issuer::conflicting
    job           \* the refresh in progress, or None

keyVars == <<learned, conflicting>>
crlVars == <<known, latest, disputed>>
vars == <<learned, conflicting, accepted, current, retained, known, latest,
          disputed, job>>

Cached == [release : Release, verified_at : Time]

Snapshot ==
    [approvals : ApprovalManifests, releases : SUBSET Cached, platforms : PlatformSets]

Job ==
    [keys : KeyManifests \cup {None}, sigstore : Nat, now : Time,
     rows : Deliveries, next : Nat \ {0}, vendor : BOOLEAN]

ASSUME NoneAssumption ==
    None \notin KeyManifests \cup ApprovalManifests \cup Crls \cup Snapshot \cup Job

Init ==
    /\ learned = None
    /\ conflicting = FALSE
    /\ accepted = None
    /\ current = None
    /\ retained = None
    /\ known = {}
    /\ latest = [i \in Issuers |-> None]
    /\ disputed = [i \in Issuers |-> FALSE]
    /\ job = None

-----------------------------------------------------------------------------
(* The root's decisions: KeyState.                                         *)

CheckFails(keys) ==
    /\ learned # None
    /\ \/ keys.generation < learned.generation
       \/ /\ keys.generation = learned.generation
          /\ conflicting \/ keys # learned

Conflicts(keys) ==
    /\ learned # None
    /\ keys.generation = learned.generation
    /\ keys # learned

Learn(keys) ==
    IF Conflicts(keys)
    THEN conflicting' = TRUE /\ UNCHANGED learned
    ELSE IF CheckFails(keys)
    THEN UNCHANGED keyVars
    ELSE learned' = keys /\ conflicting' = FALSE

RequireCurrentAnySigner(s) ==
    /\ learned # None
    /\ ~ conflicting
    /\ s.approvals.keys.generation # learned.generation =>
          s.approvals.keys.generation < learned.generation

RequireCurrent(s) ==
    LET keys == s.approvals.keys IN
    /\ learned # None
    /\ ~ conflicting
    /\ keys.generation # learned.generation =>
          /\ keys.generation < learned.generation
          /\ keys.active_key = learned.active_key
          /\ keys.expires_at <= learned.expires_at

\* Verifier::verify_key_manifest: an expired manifest is reported, but it is learned.
VerifyKeyManifest(keys) ==
    /\ job = None
    /\ Learn(keys)
    /\ UNCHANGED <<accepted, current, retained, job>>
    /\ UNCHANGED crlVars

-----------------------------------------------------------------------------
(* AMD's decisions: Revocations.                                           *)

\* authenticate_crl; the signature and the supported scope are part of Crls.
Authentic(crl, now) ==
    /\ crl \in Crls
    /\ crl.issuer \in known
    /\ crl.start <= now + MAX_CLOCK_SKEW_MS
    /\ crl.start < crl.end

LearnCrlForgetsDispute(crl) ==
    LET i == crl.issuer
        old == latest[i]
    IN  IF old # None /\ crl.number < old.number
        THEN UNCHANGED <<latest, disputed>>
        ELSE IF old # None /\ crl.number = old.number
        THEN /\ disputed' = [disputed EXCEPT ![i] = crl # old]
             /\ UNCHANGED latest
        ELSE /\ latest' = [latest EXCEPT ![i] = crl]
             /\ disputed' = [disputed EXCEPT ![i] = FALSE]

\* Issuer::learn.
LearnCrl(crl) ==
    LET i == crl.issuer
        old == latest[i]
    IN  IF old # None /\ (crl.number < old.number
                          \/ (crl.number > old.number /\ crl.start < old.start))
        THEN UNCHANGED <<latest, disputed>>
        ELSE IF old # None /\ crl.number = old.number
        THEN /\ disputed' = [disputed EXCEPT ![i] = @ \/ crl # old]
             /\ UNCHANGED latest
        ELSE /\ latest' = [latest EXCEPT ![i] = crl]
             /\ disputed' = [disputed EXCEPT ![i] = FALSE]

\* observe_crl: the row that repeats the latest list skips its authentication.
ObserveRow ==
    /\ job # None
    /\ job.next <= Len(job.rows)
    /\ LET crl == job.rows[job.next] IN
       /\ IF crl # None /\ (Authentic(crl, job.now) \/ crl = latest[crl.issuer])
          THEN LearnCrl(crl)
          ELSE UNCHANGED <<latest, disputed>>
       /\ job' = [job EXCEPT
                    !.next = @ + 1,
                    !.vendor = @ /\ crl # None
                                 /\ latest'[crl.issuer] = crl
                                 /\ ~ disputed'[crl.issuer]]
    /\ UNCHANGED <<learned, conflicting, accepted, current, retained, known>>

\* Snapshot::collateral_validity, Store::validity and Revocations::validity.
CollateralValid(s, chip, now) ==
    /\ now < s.approvals.keys.expires_at
    /\ \E p \in s.platforms :
          /\ p.chip = chip
          /\ p.issuer \in known
          /\ latest[p.issuer] # None
          /\ ~ disputed[p.issuer]
          /\ p.ask_serial \notin latest[p.issuer].revoked
          /\ p.start <= now /\ latest[p.issuer].start <= now
          /\ now < p.end /\ now < latest[p.issuer].end

-----------------------------------------------------------------------------
(* Verifier::refresh_observed.                                             *)

UpdateFailsByRevision(a) ==
    \/ CheckFails(a.keys)
    \/ /\ accepted # None
       /\ \/ a.keys.generation < accepted.keys.generation
          \/ /\ a.keys.generation = accepted.keys.generation
             /\ \/ a.keys # accepted.keys
                \/ a.revision < accepted.revision
                \/ a.revision = accepted.revision /\ a # accepted

\* check_update: revisions and policy versions are compared within a generation.
UpdateFails(a) ==
    \/ CheckFails(a.keys)
    \/ /\ accepted # None
       /\ \/ a.keys.generation < accepted.keys.generation
          \/ /\ a.keys.generation = accepted.keys.generation
             /\ \/ a.keys # accepted.keys
                \/ a.revision < accepted.revision
                \/ a.revision = accepted.revision /\ a # accepted
                \/ a.hardware_policy.version < accepted.hardware_policy.version
                \/ /\ a.hardware_policy.version = accepted.hardware_policy.version
                   /\ a.hardware_policy # accepted.hardware_policy

\* The Sigstore files and the key manifest, or None if either fails.  The vendor's
\* rows are read whatever became of the keys; fits is the limit on their number.
StartRefresh(keys, sigstore, now, roots, rows, fits) ==
    /\ job = None
    /\ IF keys = None THEN UNCHANGED keyVars ELSE Learn(keys)
    /\ known' = IF fits THEN known \cup roots ELSE known
    /\ job' = [keys |-> IF keys = None \/ CheckFails(keys) THEN None ELSE keys,
               sigstore |-> sigstore, now |-> now,
               rows |-> IF fits THEN rows ELSE <<>>, next |-> 1, vendor |-> fits]
    /\ UNCHANGED <<accepted, current, retained, latest, disputed>>

\* verify_online_approval and valid_until.
ApprovalVerifies(a) ==
    /\ a.keys = job.keys
    /\ a.sigstore = job.sigstore
    /\ a.signer = job.keys.active_key
    /\ job.now < job.keys.expires_at

ReusableUnderAnyKeys(a) ==
    IF current # None THEN {e \in current.releases : e.verified_at <= job.now} ELSE {}

ReusableAtAnyTime(a) ==
    IF current # None /\ current.approvals.sigstore = a.sigstore
    THEN current.releases
    ELSE {}

\* The results of prior release checks that verify_snapshot may reuse.
Reusable(a) ==
    IF current # None /\ current.approvals.sigstore = a.sigstore
    THEN {e \in current.releases : e.verified_at <= job.now}
    ELSE {}

\* verify_gateway and verify_catalog.
Verifies(release, sigstore, now) == sigstore \in release.trusted /\ release.built <= now

ReleaseChecks(a) ==
    LET fresh == {r \in a.releases : r \notin {e.release : e \in Reusable(a)}}
    IN  {e \in Reusable(a) : e.release \in a.releases}
        \cup {[release |-> r, verified_at |-> job.now] : r \in fresh}

\* The envelope and every referenced object pass; the candidate is installed.
Install(a, platforms) ==
    /\ job # None
    /\ job.next > Len(job.rows)
    /\ job.keys # None
    /\ job.vendor
    /\ ApprovalVerifies(a)
    /\ ~ UpdateFails(a)
    /\ \A e \in ReleaseChecks(a) :
          e \in Reusable(a) \/ Verifies(e.release, a.sigstore, job.now)
    /\ Learn(a.keys)
    /\ accepted' = a
    /\ current' = [approvals |-> a, releases |-> ReleaseChecks(a), platforms |-> platforms]
    /\ job' = None
    /\ UNCHANGED retained
    /\ UNCHANGED crlVars

RejectAtOnce ==
    /\ job # None
    /\ job.keys = None \/ job.next > Len(job.rows)
    /\ job' = None
    /\ UNCHANGED <<accepted, current, retained>>
    /\ UNCHANGED keyVars
    /\ UNCHANGED crlVars

\* Some part of the bundle fails.
Reject ==
    /\ job # None
    /\ job.next > Len(job.rows)
    /\ job' = None
    /\ UNCHANGED <<accepted, current, retained>>
    /\ UNCHANGED keyVars
    /\ UNCHANGED crlVars

\* A request or a session keeps the snapshot it was appraised against.
Retain ==
    /\ current # None
    /\ retained' = current
    /\ UNCHANGED <<accepted, current, job>>
    /\ UNCHANGED keyVars
    /\ UNCHANGED crlVars

Sigstores == {a.sigstore : a \in ApprovalManifests}

Next ==
    \/ \E keys \in KeyManifests : VerifyKeyManifest(keys)
    \/ \E keys \in KeyManifests \cup {None}, sigstore \in Sigstores, now \in Time,
          roots \in SUBSET Issuers, rows \in Deliveries, fits \in BOOLEAN :
             StartRefresh(keys, sigstore, now, roots, rows, fits)
    \/ ObserveRow
    \/ \E a \in ApprovalManifests, platforms \in PlatformSets : Install(a, platforms)
    \/ Reject
    \/ Retain

Spec == Init /\ [][Next]_vars
-----------------------------------------------------------------------------
(* Properties.                                                             *)

\* Every variable holds a value of the type the code gives it; in particular a
\* snapshot is only ever built from documents that authenticated.
TypeOK ==
    /\ learned \in KeyManifests \cup {None}
    /\ conflicting \in BOOLEAN
    /\ accepted \in ApprovalManifests \cup {None}
    /\ current \in Snapshot \cup {None}
    /\ retained \in Snapshot \cup {None}
    /\ known \in SUBSET Issuers
    /\ latest \in [Issuers -> Crls \cup {None}]
    /\ disputed \in [Issuers -> BOOLEAN]
    /\ job \in Job \cup {None}

Snapshots == {current, retained} \ {None}

\* KeyState::learn never replaces a root decision by one of the same or an older
\* generation, and a conflict once seen is only ended by a newer generation: neither
\* replaying one of the two documents nor a verified approval clears it.
LearnedNeverGoesBack ==
    [][ /\ learned # None /\ learned' # learned => learned'.generation > learned.generation
        /\ conflicting /\ ~ conflicting' => learned'.generation > learned.generation
      ]_vars

\* ApprovalVerifier::accept installs decisions in order: the generation never falls, and
\* within one generation neither the revision nor the hardware policy version does.
AcceptedNeverGoesBack ==
    [][ accepted # None /\ accepted' # accepted =>
          \/ accepted'.keys.generation > accepted.keys.generation
          \/ /\ accepted'.keys = accepted.keys
             /\ accepted'.revision > accepted.revision
             /\ accepted'.hardware_policy.version >= accepted.hardware_policy.version
      ]_vars

\* Any two snapshots still in use agree on what a number of theirs names: a generation
\* names one key manifest, a revision one approval and a hardware policy version one set
\* of rules, however many decisions were accepted between them.
OneDecisionPerNumber ==
    \A s, t \in Snapshots :
        LET a == s.approvals
            b == t.approvals
        IN  a.keys.generation = b.keys.generation =>
               /\ a.keys = b.keys
               /\ a.revision = b.revision => a = b
               /\ a.hardware_policy.version = b.hardware_policy.version =>
                     a.hardware_policy = b.hardware_policy

\* require_current compares generations and not digests.  That is enough: a snapshot it
\* admits was signed by the key the root's latest decision names, and outlives neither
\* its own deadline nor the latest one.
RetiredKeyRejected ==
    \A s \in Snapshots : RequireCurrent(s) =>
        /\ s.approvals.signer = learned.active_key
        /\ s.approvals.keys.expires_at <= learned.expires_at
        /\ s.approvals.keys.generation = learned.generation => s.approvals.keys = learned

\* Issuer::learn keeps the newest list of each AMD root: its number and its date never
\* fall, a dispute about a number ends only with a higher one, and no list is dropped.
CrlNeverGoesBack ==
    [][ \A i \in Issuers :
          /\ latest[i] # None /\ latest'[i] # latest[i] =>
                /\ latest'[i] # None
                /\ latest'[i].number > latest[i].number
                /\ latest'[i].start >= latest[i].start
          /\ disputed[i] /\ ~ disputed'[i] => latest'[i].number > latest[i].number
      ]_vars

\* A session keeps its snapshot over many refreshes.  Once its platform is out of date,
\* revoked or in dispute at some time, only a strictly newer list of an AMD root makes it
\* acceptable at that time again: no failed or repeated delivery does.
RevocationSticks ==
    [][ retained # None /\ retained' = retained =>
          \A p \in retained.platforms, now \in Time :
             ~ CollateralValid(retained, p.chip, now) /\ CollateralValid(retained, p.chip, now)'
                => \E i \in Issuers :
                      /\ latest'[i] # None
                      /\ latest[i] # None => latest'[i].number > latest[i].number
      ]_vars

\* A refresh that ends, whether it installs its candidate or fails on the keys, on
\* another row or on the approvals, has kept every authentic list it carried, unless a
\* list at least as new was already there.
RevocationOutlivesFailure ==
    [][ job # None /\ job' = None =>
          \A n \in DOMAIN job.rows :
             LET crl == job.rows[n] IN
             crl # None /\ Authentic(crl, job.now) =>
                /\ latest[crl.issuer] # None
                /\ \/ latest[crl.issuer].number >= crl.number
                   \/ latest[crl.issuer].start > crl.start
      ]_vars

\* Reusing the results of earlier release checks (verify_snapshot's prior) makes no
\* difference: whatever the clock read when they were made, and however often they were
\* carried on since, a refresh installs no release that a fresh check, with its own
\* Sigstore keys and at its own reading of a clock that may have stepped back, refuses.
CachedChecksHold ==
    [][ \A a \in ApprovalManifests, platforms \in PlatformSets :
          Install(a, platforms) =>
             \A release \in a.releases : Verifies(release, a.sigstore, job.now)
      ]_vars

\* The verifier's current snapshot is the approval it compares later candidates with.
CurrentIsAccepted ==
    IF current = None THEN accepted = None ELSE current.approvals = accepted

=============================================================================
