--------------------------- MODULE VerifierProofs ---------------------------
(***************************************************************************)
(* Proofs about the two ends of the managed verifier: the evidence it      *)
(* decides by, and the transport that serves its callers.                  *)
(*                                                                         *)
(* The first part is about Evidence, for every set of documents, every     *)
(* clock and any number of AMD roots, and about the sequence numbers of    *)
(* the releases it approves, for every base and every largest sequence.    *)
(* Its inductive invariant OrderInv says how the learned, the accepted,    *)
(* the current and the retained documents follow one another.              *)
(*                                                                         *)
(* The second part is about Transport, for any number of callers and       *)
(* connections, any configuration and any kind of request.                 *)
(***************************************************************************)
EXTENDS Evidence, ReleaseSequence, Transport, TLAPS

USE ZenonT(5), SMTT(30)

-----------------------------------------------------------------------------
(* Evidence and ReleaseSequence.                                           *)

\* An accepted decision a may be followed by decision b.
Precedes(a, b) ==
    \/ a.keys.generation < b.keys.generation
    \/ /\ a.keys = b.keys
       /\ a.revision <= b.revision
       /\ a.revision = b.revision => a = b
       /\ a.hardware_policy.version <= b.hardware_policy.version
       /\ a.hardware_policy.version = b.hardware_policy.version =>
             a.hardware_policy = b.hardware_policy

\* The root decision that signed snapshot s is not ahead of the learned one.
BehindLearned(s) ==
    /\ learned # None
    /\ s.approvals.signer = s.approvals.keys.active_key
    /\ \/ s.approvals.keys.generation < learned.generation
       \/ s.approvals.keys = learned

OrderInv ==
    /\ TypeOK
    /\ CurrentIsAccepted
    /\ conflicting => learned # None
    /\ \A i \in Issuers : disputed[i] => latest[i] # None
    /\ current # None => BehindLearned(current)
    /\ retained # None => /\ BehindLearned(retained)
                          /\ current # None
                          /\ Precedes(retained.approvals, accepted)

-----------------------------------------------------------------------------

\* The numbers that the code compares are integers.
LEMMA KeyFacts ==
    ASSUME NEW k \in KeyManifests
    PROVE  k.generation \in Nat /\ k.expires_at \in Nat /\ k # None
BY DocumentAssumption, NoneAssumption DEF KeyManifest

\* The same for an approval manifest, which names a root decision.
LEMMA ApprovalFacts ==
    ASSUME NEW a \in ApprovalManifests
    PROVE  /\ a.keys \in KeyManifests /\ a.revision \in Nat /\ a.sigstore \in Nat
           /\ a.hardware_policy.version \in Nat
           /\ a.releases \in SUBSET Release /\ a # None
<1>1. a \in ApprovalManifest
  BY DocumentAssumption
<1>2. a.hardware_policy \in HardwarePolicy
  BY <1>1 DEF ApprovalManifest
<1> QED BY <1>1, <1>2, NoneAssumption DEF ApprovalManifest, HardwarePolicy

\* The same for a revocation list.
LEMMA CrlFacts ==
    ASSUME NEW c \in Crls
    PROVE  c.number \in Nat /\ c.start \in Nat /\ c.issuer \in Issuers /\ c # None
BY DocumentAssumption, NoneAssumption DEF Crl

\* The order on decisions is transitive.
LEMMA BeforeTransitive ==
    ASSUME NEW a \in ApprovalManifests, NEW b \in ApprovalManifests,
           NEW c \in ApprovalManifests, Precedes(a, b), Precedes(b, c)
    PROVE  Precedes(a, c)
<1>1. /\ a.keys.generation \in Nat /\ b.keys.generation \in Nat /\ c.keys.generation \in Nat
      /\ a.revision \in Nat /\ b.revision \in Nat /\ c.revision \in Nat
      /\ a.hardware_policy.version \in Nat /\ b.hardware_policy.version \in Nat
      /\ c.hardware_policy.version \in Nat
  BY ApprovalFacts, KeyFacts
<1> QED BY <1>1 DEF Precedes

\* A candidate that check_update passes may follow the accepted decision.
LEMMA UpdateFollows ==
    ASSUME NEW a \in ApprovalManifests, accepted \in ApprovalManifests, ~ UpdateFails(a)
    PROVE  Precedes(accepted, a)
<1>1. /\ a.keys.generation \in Nat /\ accepted.keys.generation \in Nat
      /\ a.revision \in Nat /\ accepted.revision \in Nat
      /\ a.hardware_policy.version \in Nat /\ accepted.hardware_policy.version \in Nat
      /\ accepted # None
  BY ApprovalFacts, KeyFacts
<1> QED BY <1>1 DEF UpdateFails, Precedes

\* What KeyState::learn does: the decision stays or is replaced by a newer generation,
\* and a conflict survives unless the generation is newer.
LEMMA LearnFacts ==
    ASSUME TypeOK, NEW k \in KeyManifests, Learn(k)
    PROVE  /\ learned' \in KeyManifests \cup {None}
           /\ conflicting' \in BOOLEAN
           /\ learned' # None
           /\ learned # None /\ learned' # learned => learned'.generation > learned.generation
           /\ conflicting /\ ~ conflicting' /\ learned # None =>
                 learned'.generation > learned.generation
           /\ ~ CheckFails(k) => learned' = k
<1>1. k.generation \in Nat /\ k # None
  BY KeyFacts
<1>2. learned \in KeyManifests \cup {None} /\ conflicting \in BOOLEAN
  BY DEF TypeOK
<1>3. learned # None => learned.generation \in Nat
  BY <1>2, KeyFacts
<1>4. CASE Conflicts(k)
  BY <1>1, <1>2, <1>3, <1>4 DEF Learn, Conflicts, CheckFails
<1>5. CASE ~ Conflicts(k) /\ CheckFails(k)
  <2>1. learned' = learned /\ conflicting' = conflicting
    BY <1>5 DEF Learn, keyVars
  <2>2. learned # None
    BY <1>5 DEF CheckFails
  <2> QED BY <1>2, <1>5, <2>1, <2>2
<1>6. CASE ~ Conflicts(k) /\ ~ CheckFails(k)
  <2>1. learned' = k /\ conflicting' = FALSE
    BY <1>6 DEF Learn
  <2>2. learned # None => k.generation >= learned.generation
    BY <1>1, <1>3, <1>6 DEF CheckFails
  <2>3. learned # None /\ k.generation = learned.generation => ~ conflicting /\ k = learned
    BY <1>6 DEF CheckFails
  <2>4. learned # None /\ (k # learned \/ conflicting) => k.generation > learned.generation
    BY <1>1, <1>3, <2>2, <2>3
  <2> QED BY <1>1, <1>6, <2>1, <2>4, ZenonT(60)
<1> QED BY <1>4, <1>5, <1>6

\* The key variables move only by KeyState::learn.
LEMMA KeysMoveByLearning ==
    ASSUME TypeOK, [Next]_vars
    PROVE  UNCHANGED keyVars \/ \E k \in KeyManifests : Learn(k)
<1>1. ASSUME NEW keys \in KeyManifests, VerifyKeyManifest(keys)
      PROVE  \E k \in KeyManifests : Learn(k)
  BY <1>1 DEF VerifyKeyManifest
<1>2. ASSUME NEW keys \in KeyManifests \cup {None}, NEW sigstore, NEW now, NEW roots,
             NEW rows, NEW fits, StartRefresh(keys, sigstore, now, roots, rows, fits)
      PROVE  UNCHANGED keyVars \/ \E k \in KeyManifests : Learn(k)
  BY <1>2 DEF StartRefresh
<1>3. ASSUME NEW a \in ApprovalManifests, NEW platforms, Install(a, platforms)
      PROVE  \E k \in KeyManifests : Learn(k)
  BY <1>3, ApprovalFacts DEF Install
<1>4. ASSUME ObserveRow \/ Reject \/ Retain \/ UNCHANGED vars
      PROVE  UNCHANGED keyVars
  BY <1>4 DEF ObserveRow, Reject, Retain, vars, keyVars
<1> QED BY <1>1, <1>2, <1>3, <1>4 DEF Next

\* The learned decision never goes back: the step from KeyState::learn, for every step.
LEMMA LearnedStep ==
    ASSUME TypeOK, [Next]_vars
    PROVE  /\ learned # None => learned' # None
           /\ learned # None /\ learned' # learned => learned'.generation > learned.generation
           /\ conflicting /\ ~ conflicting' /\ learned # None =>
                 learned'.generation > learned.generation
<1>1. CASE UNCHANGED keyVars
  BY <1>1 DEF keyVars
<1>2. CASE \E k \in KeyManifests : Learn(k)
  BY <1>2, LearnFacts
<1> QED BY <1>1, <1>2, KeysMoveByLearning

-----------------------------------------------------------------------------

\* A snapshot that Install builds is made of checked releases and delivered platforms.
LEMMA InstalledSnapshot ==
    ASSUME TypeOK, NEW a \in ApprovalManifests, NEW platforms \in PlatformSets,
           Install(a, platforms)
    PROVE  current' \in Snapshot
<1>1. job \in Job
  BY DEF TypeOK, Install
<1>2. job.now \in Time
  BY <1>1 DEF Job
<1>3. Reusable(a) \in SUBSET Cached
  <2>1. CASE current # None
    BY <2>1 DEF Reusable, TypeOK, Snapshot
  <2>2. CASE current = None
    BY <2>2 DEF Reusable
  <2> QED BY <2>1, <2>2
<1>4. ReleaseChecks(a) \in SUBSET Cached
  <2>1. a.releases \in SUBSET Release
    BY ApprovalFacts
  <2>2. ASSUME NEW r \in Release PROVE [release |-> r, verified_at |-> job.now] \in Cached
    BY <1>2 DEF Cached
  <2> QED BY <1>3, <2>1, <2>2 DEF ReleaseChecks
<1>5. current' = [approvals |-> a, releases |-> ReleaseChecks(a), platforms |-> platforms]
  BY DEF Install
<1> QED BY <1>4, <1>5 DEF Snapshot

\* The row that a refresh is about to observe is a revocation list or does not parse.
LEMMA RowFacts ==
    ASSUME TypeOK, job # None, job.next \in 1 .. Len(job.rows)
    PROVE  job.rows[job.next] \in Crls \cup {None}
<1>1. job.rows \in Seq(Crls \cup {None})
  BY DocumentAssumption DEF TypeOK, Job
<1> QED BY <1>1

\* Issuer::learn keeps the revocation state well typed and in order.
LEMMA CrlStep ==
    ASSUME TypeOK, NEW c \in Crls, LearnCrl(c)
    PROVE  /\ latest' \in [Issuers -> Crls \cup {None}]
           /\ disputed' \in [Issuers -> BOOLEAN]
           /\ \A i \in Issuers :
                /\ latest[i] # None /\ latest'[i] # latest[i] =>
                      /\ latest'[i] # None
                      /\ latest'[i].number > latest[i].number
                      /\ latest'[i].start >= latest[i].start
                /\ disputed[i] /\ ~ disputed'[i] /\ latest[i] # None =>
                      latest'[i].number > latest[i].number
                /\ disputed'[i] => disputed[i] \/ latest'[i] # None
<1> DEFINE i == c.issuer
           old == latest[i]
<1>1. i \in Issuers /\ c.number \in Nat /\ c.start \in Nat /\ c # None
  BY CrlFacts
<1>2. /\ latest \in [Issuers -> Crls \cup {None}]
      /\ disputed \in [Issuers -> BOOLEAN]
  BY DEF TypeOK
<1>3. old # None => old.number \in Nat /\ old.start \in Nat
  BY <1>1, <1>2, CrlFacts
<1>4. CASE old # None /\ (c.number < old.number \/ (c.number > old.number /\ c.start < old.start))
  <2>1. latest' = latest /\ disputed' = disputed
    BY <1>4 DEF LearnCrl
  <2> QED BY <1>2, <2>1
<1>5. CASE old # None /\ c.number = old.number
  <2>1. latest' = latest
    BY <1>3, <1>5, <1>1 DEF LearnCrl
  <2>2. disputed' = [disputed EXCEPT ![i] = @ \/ c # old]
    BY <1>3, <1>5, <1>1 DEF LearnCrl
  <2>3. disputed' \in [Issuers -> BOOLEAN]
    BY <1>2, <2>2, ZenonT(60)
  <2>4. \A j \in Issuers : disputed[j] => disputed'[j]
    BY <1>1, <1>2, <2>2
  <2>5. \A j \in Issuers : disputed'[j] => disputed[j] \/ latest'[j] # None
    BY <1>1, <1>2, <1>5, <2>1, <2>2
  <2> QED BY <1>2, <2>1, <2>3, <2>4, <2>5
<1>6. CASE old = None \/ (c.number > old.number /\ c.start >= old.start)
  <2>1. /\ latest' = [latest EXCEPT ![i] = c]
        /\ disputed' = [disputed EXCEPT ![i] = FALSE]
    BY <1>1, <1>3, <1>6 DEF LearnCrl
  <2>2. disputed' \in [Issuers -> BOOLEAN] /\ latest' \in [Issuers -> Crls \cup {None}]
    BY <1>2, <2>1, ZenonT(60)
  <2>3. ASSUME NEW j \in Issuers
        PROVE  /\ latest[j] # None /\ latest'[j] # latest[j] =>
                      /\ latest'[j] # None
                      /\ latest'[j].number > latest[j].number
                      /\ latest'[j].start >= latest[j].start
               /\ disputed[j] /\ ~ disputed'[j] /\ latest[j] # None =>
                      latest'[j].number > latest[j].number
               /\ disputed'[j] => disputed[j] \/ latest'[j] # None
    <3>1. CASE j = i
      BY <1>1, <1>2, <1>3, <1>6, <2>1, <3>1
    <3>2. CASE j # i
      BY <1>1, <1>2, <2>1, <3>2
    <3> QED BY <3>1, <3>2
  <2> QED BY <2>2, <2>3
<1> QED BY <1>1, <1>3, <1>4, <1>5, <1>6

\* The revocation state keeps its type and its order in every step.
LEMMA RevocationStep ==
    ASSUME TypeOK, [Next]_vars
    PROVE  /\ known' \in SUBSET Issuers
           /\ latest' \in [Issuers -> Crls \cup {None}]
           /\ disputed' \in [Issuers -> BOOLEAN]
           /\ \A i \in Issuers :
                /\ latest[i] # None /\ latest'[i] # latest[i] =>
                      /\ latest'[i] # None
                      /\ latest'[i].number > latest[i].number
                      /\ latest'[i].start >= latest[i].start
                /\ disputed[i] /\ ~ disputed'[i] /\ latest[i] # None =>
                      latest'[i].number > latest[i].number
                /\ disputed'[i] => disputed[i] \/ latest'[i] # None
<1>1. ASSUME ObserveRow
      PROVE  /\ known' = known
             /\ \/ latest' = latest /\ disputed' = disputed
                \/ \E c \in Crls : LearnCrl(c)
  <2> DEFINE c == job.rows[job.next]
  <2>1. c \in Crls \cup {None}
    <3>1. job.next \in Nat \ {0} /\ job.next <= Len(job.rows) /\ job # None
      BY <1>1 DEF ObserveRow, TypeOK, Job
    <3>2. job.rows \in Seq(Crls \cup {None})
      BY <3>1, DocumentAssumption DEF TypeOK, Job
    <3>3. job.next \in 1 .. Len(job.rows)
      BY <3>1, <3>2
    <3> QED BY <3>1, <3>3, RowFacts
  <2>2. known' = known
    BY <1>1 DEF ObserveRow
  <2>3. (LearnCrl(c) /\ c # None) \/ UNCHANGED <<latest, disputed>>
    BY <1>1 DEF ObserveRow
  <2> QED BY <2>1, <2>2, <2>3
<1>2. ASSUME ~ ObserveRow
      PROVE  /\ known' \in SUBSET Issuers
             /\ latest' = latest /\ disputed' = disputed
  <2>1. ASSUME NEW keys, NEW sigstore, NEW now, NEW roots \in SUBSET Issuers, NEW rows,
               NEW fits, StartRefresh(keys, sigstore, now, roots, rows, fits)
        PROVE  known' \in SUBSET Issuers /\ latest' = latest /\ disputed' = disputed
    BY <2>1 DEF StartRefresh, TypeOK
  <2>2. ASSUME NEW keys, VerifyKeyManifest(keys)
        PROVE  UNCHANGED crlVars
    BY <2>2 DEF VerifyKeyManifest
  <2>3. ASSUME NEW a, NEW platforms, Install(a, platforms)
        PROVE  UNCHANGED crlVars
    BY <2>3 DEF Install
  <2>4. ASSUME Reject \/ Retain \/ UNCHANGED vars
        PROVE  UNCHANGED crlVars
    BY <2>4 DEF Reject, Retain, vars, crlVars
  <2> QED BY <1>2, <2>1, <2>2, <2>3, <2>4 DEF Next, crlVars, TypeOK
<1>3. CASE latest' = latest /\ disputed' = disputed
  BY <1>1, <1>2, <1>3 DEF TypeOK
<1>4. CASE \E c \in Crls : LearnCrl(c)
  BY <1>1, <1>2, <1>4, CrlStep DEF TypeOK
<1> QED BY <1>1, <1>2, <1>3, <1>4

-----------------------------------------------------------------------------

\* A refresh that has observed a row goes on.
LEMMA ObservedJob ==
    ASSUME TypeOK, ObserveRow
    PROVE  job' \in Job
<1>1. job \in Job /\ job.next + 1 \in Nat \ {0}
  BY SMTT(60) DEF ObserveRow, TypeOK, Job
<1>2. PICK v : job' = [job EXCEPT !.next = job.next + 1, !.vendor = v] /\ v \in BOOLEAN
  BY <1>1, ZenonT(60) DEF ObserveRow, Job
<1> QED BY <1>1, <1>2, ZenonT(60) DEF ObserveRow, Job

\* The type invariant is inductive on its own.
LEMMA TypeStep ==
    ASSUME TypeOK, [Next]_vars
    PROVE  TypeOK'
<1>1. known' \in SUBSET Issuers /\ latest' \in [Issuers -> Crls \cup {None}]
      /\ disputed' \in [Issuers -> BOOLEAN]
  BY RevocationStep
<1>2. learned' \in KeyManifests \cup {None} /\ conflicting' \in BOOLEAN
  <2>1. CASE UNCHANGED keyVars
    BY <2>1 DEF keyVars, TypeOK
  <2>2. CASE \E k \in KeyManifests : Learn(k)
    BY <2>2, LearnFacts
  <2> QED BY <2>1, <2>2, KeysMoveByLearning
<1>3. /\ accepted' \in ApprovalManifests \cup {None}
      /\ current' \in Snapshot \cup {None}
      /\ retained' \in Snapshot \cup {None}
      /\ job' \in Job \cup {None}
  <2>1. ASSUME NEW keys, VerifyKeyManifest(keys)
        PROVE  UNCHANGED <<accepted, current, retained, job>>
    BY <2>1 DEF VerifyKeyManifest
  <2>2. ASSUME NEW keys \in KeyManifests \cup {None}, NEW sigstore \in Sigstores,
               NEW now \in Time, NEW roots, NEW rows \in Deliveries, NEW fits \in BOOLEAN,
               StartRefresh(keys, sigstore, now, roots, rows, fits)
        PROVE  job' \in Job /\ UNCHANGED <<accepted, current, retained>>
    <3>1. sigstore \in Nat
      BY ApprovalFacts DEF Sigstores
    <3>2. <<>> \in Deliveries
      BY DocumentAssumption
    <3>3. /\ (IF keys = None \/ CheckFails(keys) THEN None ELSE keys) \in KeyManifests \cup {None}
          /\ (IF fits THEN rows ELSE <<>>) \in Deliveries
      BY <3>2
    <3> QED BY <2>2, <3>1, <3>3 DEF StartRefresh, Job
  <2>3. ASSUME ObserveRow
        PROVE  job' \in Job /\ UNCHANGED <<accepted, current, retained>>
    BY <2>3, ObservedJob DEF ObserveRow
  <2>4. ASSUME NEW a \in ApprovalManifests, NEW platforms \in PlatformSets,
               Install(a, platforms)
        PROVE  accepted' = a /\ current' \in Snapshot /\ retained' = retained /\ job' = None
    BY <2>4, InstalledSnapshot DEF Install
  <2>5. ASSUME Reject
        PROVE  job' = None /\ UNCHANGED <<accepted, current, retained>>
    BY <2>5 DEF Reject
  <2>6. ASSUME Retain
        PROVE  retained' = current /\ UNCHANGED <<accepted, current, job>>
    BY <2>6 DEF Retain
  <2>7. ASSUME UNCHANGED vars
        PROVE  UNCHANGED <<accepted, current, retained, job>>
    BY <2>7 DEF vars
  <2> QED BY <2>1, <2>2, <2>3, <2>4, <2>5, <2>6, <2>7, SMTT(60) DEF Next, TypeOK
<1> QED BY <1>1, <1>2, <1>3 DEF TypeOK

\* A snapshot behind the learned decision stays behind it.
LEMMA StaysBehind ==
    ASSUME TypeOK, [Next]_vars, NEW s \in Snapshot, BehindLearned(s)
    PROVE  BehindLearned(s)'
<1>1. s.approvals.keys \in KeyManifests
  BY ApprovalFacts DEF Snapshot
<1>2. learned \in KeyManifests /\ learned' \in KeyManifests \cup {None} /\ learned' # None
  BY TypeStep, LearnedStep DEF TypeOK, BehindLearned
<1>3. /\ s.approvals.keys.generation \in Nat
      /\ learned.generation \in Nat
      /\ learned'.generation \in Nat
  BY <1>1, <1>2, KeyFacts
<1>4. learned' = learned \/ learned'.generation > learned.generation
  BY <1>2, LearnedStep, NoneAssumption
<1> QED BY <1>2, <1>3, <1>4 DEF BehindLearned

\* The snapshot that Install builds carries the decision the verifier has just learned.
LEMMA InstalledIsLearned ==
    ASSUME TypeOK, NEW a \in ApprovalManifests, NEW platforms \in PlatformSets,
           Install(a, platforms)
    PROVE  /\ current' \in Snapshot /\ current' # None
           /\ current'.approvals = a /\ accepted' = a /\ retained' = retained
           /\ BehindLearned(current)'
           /\ accepted # None => Precedes(accepted, a)
<1>1. current' \in Snapshot
  BY InstalledSnapshot
<1>2. current' # None
  BY <1>1, NoneAssumption
<1>3. current'.approvals = a /\ accepted' = a /\ retained' = retained
  BY DEF Install
<1>4. a.keys \in KeyManifests
  BY ApprovalFacts
<1>5. learned' = a.keys /\ learned' # None
  BY <1>4, LearnFacts, KeyFacts DEF Install, UpdateFails
<1>6. a.signer = a.keys.active_key
  BY DEF Install, ApprovalVerifies
<1>7. accepted # None => Precedes(accepted, a)
  BY UpdateFollows, SMTT(60) DEF Install, TypeOK
<1> QED BY <1>1, <1>2, <1>3, <1>5, <1>6, <1>7 DEF BehindLearned

\* The inductive step.
LEMMA OrderStep ==
    ASSUME OrderInv, [Next]_vars
    PROVE  OrderInv'
<1> USE DEF OrderInv
<1>1. TypeOK'
  BY TypeStep
<1>2. (conflicting => learned # None)'
  <2>1. CASE UNCHANGED keyVars
    BY <2>1 DEF keyVars
  <2>2. CASE \E k \in KeyManifests : Learn(k)
    BY <2>2, LearnFacts
  <2> QED BY <2>1, <2>2, KeysMoveByLearning
<1>3. (\A i \in Issuers : disputed[i] => latest[i] # None)'
  BY RevocationStep
<1>4. current \in Snapshot \cup {None} /\ retained \in Snapshot \cup {None}
      /\ accepted \in ApprovalManifests \cup {None}
  BY DEF TypeOK
<1>5. ASSUME NEW a \in ApprovalManifests, NEW platforms \in PlatformSets,
             Install(a, platforms)
      PROVE  OrderInv'
  <2>1. CurrentIsAccepted' /\ BehindLearned(current)' /\ current' # None
    BY <1>5, InstalledIsLearned DEF CurrentIsAccepted
  <2>2. ASSUME retained' # None
        PROVE  BehindLearned(retained)' /\ Precedes(retained'.approvals, accepted')
    <3>1. retained' = retained /\ retained \in Snapshot /\ accepted' = a
      BY <1>4, <1>5, <2>2, InstalledIsLearned
    <3>2. BehindLearned(retained) /\ current # None /\ Precedes(retained.approvals, accepted)
      BY <2>2, <3>1
    <3>3. accepted \in ApprovalManifests /\ retained.approvals \in ApprovalManifests
      BY <1>4, <3>1, <3>2 DEF CurrentIsAccepted, Snapshot
    <3>4. Precedes(accepted, a)
      BY <1>5, <3>3, InstalledIsLearned, ApprovalFacts
    <3>5. Precedes(retained.approvals, a)
      BY <3>2, <3>3, <3>4, BeforeTransitive
    <3>6. BehindLearned(retained)'
      BY <3>1, <3>2, StaysBehind, SMTT(60) DEF BehindLearned
    <3> QED BY <3>1, <3>5, <3>6
  <2> QED BY <1>1, <1>2, <1>3, <2>1, <2>2, SMTT(60)
<1>6. ASSUME Retain
      PROVE  OrderInv'
  <2>1. /\ retained' = current /\ current' = current /\ accepted' = accepted
        /\ learned' = learned /\ current # None
    BY <1>6 DEF Retain, keyVars
  <2>2. BehindLearned(current)' /\ BehindLearned(retained)'
    BY <2>1 DEF BehindLearned
  <2>3. accepted = current.approvals /\ accepted \in ApprovalManifests
    BY <1>4, <2>1 DEF CurrentIsAccepted, Snapshot
  <2>4. Precedes(accepted, accepted)
    BY <2>3, ApprovalFacts DEF Precedes
  <2> QED BY <1>1, <1>2, <1>3, <2>1, <2>2, <2>3, <2>4, SMTT(60) DEF CurrentIsAccepted
<1>7. ASSUME UNCHANGED <<accepted, current, retained>>
      PROVE  OrderInv'
  <2>1. CurrentIsAccepted'
    BY <1>7 DEF CurrentIsAccepted
  <2>2. current' # None => BehindLearned(current)'
    BY <1>4, <1>7, StaysBehind DEF BehindLearned
  <2>3. retained' # None => BehindLearned(retained)'
    BY <1>4, <1>7, StaysBehind DEF BehindLearned
  <2> QED BY <1>1, <1>2, <1>3, <1>7, <2>1, <2>2, <2>3
<1>8. ASSUME \/ \E keys \in KeyManifests : VerifyKeyManifest(keys)
             \/ \E keys, sigstore, now, roots, rows, fits :
                   StartRefresh(keys, sigstore, now, roots, rows, fits)
             \/ ObserveRow \/ Reject \/ UNCHANGED vars
      PROVE  UNCHANGED <<accepted, current, retained>>
  BY <1>8 DEF VerifyKeyManifest, StartRefresh, ObserveRow, Reject, vars
<1> QED BY <1>5, <1>6, <1>7, <1>8, SMTT(60) DEF Next

\* The invariant holds initially, and so always.
LEMMA OrderAlways == Spec => []OrderInv
<1>1. Init => OrderInv
  BY ZenonT(60) DEF Init, OrderInv, TypeOK, CurrentIsAccepted
<1>2. OrderInv /\ [Next]_vars => OrderInv'
  BY OrderStep
<1> QED BY <1>1, <1>2, PTL DEF Spec

-----------------------------------------------------------------------------

\* The verifier's state is always well typed: a snapshot is built only from documents
\* that authenticated, and the job and the learned decisions are what the code declares.
THEOREM EvidenceTyped == Spec => []TypeOK
<1>1. OrderInv => TypeOK
  BY DEF OrderInv
<1> QED BY <1>1, OrderAlways, PTL

\* KeyState::learn, whoever calls it and in whatever order the bundles arrive: the root's
\* learned decision only advances, and only a newer generation ends a conflict.
THEOREM LearnedMonotone == Spec => LearnedNeverGoesBack
<1>1. OrderInv /\ [Next]_vars =>
        [ /\ learned # None /\ learned' # learned => learned'.generation > learned.generation
          /\ conflicting /\ ~ conflicting' => learned'.generation > learned.generation ]_vars
  BY LearnedStep DEF OrderInv
<1> QED BY <1>1, OrderAlways, PTL DEF Spec, LearnedNeverGoesBack

\* ApprovalVerifier::accept: decisions are installed in the order of their generations and,
\* within a generation, of their revisions and hardware policy versions.
THEOREM AcceptedMonotone == Spec => AcceptedNeverGoesBack
<1>1. ASSUME OrderInv, [Next]_vars, accepted # None, accepted' # accepted
      PROVE  \/ accepted'.keys.generation > accepted.keys.generation
             \/ /\ accepted'.keys = accepted.keys
                /\ accepted'.revision > accepted.revision
                /\ accepted'.hardware_policy.version >= accepted.hardware_policy.version
  <2>1. PICK a \in ApprovalManifests, platforms \in PlatformSets : Install(a, platforms)
    BY <1>1 DEF Next, VerifyKeyManifest, StartRefresh, ObserveRow, Reject, Retain, vars
  <2>2. accepted' = a /\ Precedes(accepted, a)
    BY <1>1, <2>1, InstalledIsLearned, SMTT(60) DEF OrderInv
  <2>3. accepted \in ApprovalManifests
    BY <1>1 DEF OrderInv, TypeOK
  <2>4. /\ a.keys.generation \in Nat /\ accepted.keys.generation \in Nat
        /\ a.revision \in Nat /\ accepted.revision \in Nat
        /\ a.hardware_policy.version \in Nat /\ accepted.hardware_policy.version \in Nat
    BY <2>3, ApprovalFacts, KeyFacts
  <2> QED BY <1>1, <2>2, <2>4 DEF Precedes
<1>2. OrderInv /\ [Next]_vars =>
        [ accepted # None /\ accepted' # accepted =>
            \/ accepted'.keys.generation > accepted.keys.generation
            \/ /\ accepted'.keys = accepted.keys
               /\ accepted'.revision > accepted.revision
               /\ accepted'.hardware_policy.version >= accepted.hardware_policy.version ]_vars
  BY <1>1
<1> QED BY <1>2, OrderAlways, PTL DEF Spec, AcceptedNeverGoesBack

\* Any two snapshots in use agree on what a generation, a revision and a hardware policy
\* version name, although check_update only compares a candidate with the last decision.
THEOREM OneDecision == Spec => []OneDecisionPerNumber
<1>1. ASSUME OrderInv
      PROVE  OneDecisionPerNumber
  <2>1. ASSUME NEW a \in ApprovalManifests, NEW b \in ApprovalManifests,
               Precedes(a, b) \/ Precedes(b, a), a.keys.generation = b.keys.generation
        PROVE  /\ a.keys = b.keys
               /\ a.revision = b.revision => a = b
               /\ a.hardware_policy.version = b.hardware_policy.version =>
                     a.hardware_policy = b.hardware_policy
    <3>1. a.keys.generation \in Nat /\ b.keys.generation \in Nat
      BY ApprovalFacts, KeyFacts
    <3> QED BY <2>1, <3>1 DEF Precedes
  <2>2. ASSUME NEW s \in Snapshots, NEW t \in Snapshots
        PROVE  /\ s.approvals \in ApprovalManifests /\ t.approvals \in ApprovalManifests
               /\ s = t \/ Precedes(s.approvals, t.approvals) \/ Precedes(t.approvals, s.approvals)
    <3>1. s \in Snapshot /\ t \in Snapshot
      BY <1>1 DEF OrderInv, TypeOK, Snapshots
    <3>2. current # None => current.approvals = accepted
      BY <1>1 DEF OrderInv, CurrentIsAccepted
    <3>3. retained # None => Precedes(retained.approvals, current.approvals)
      BY <1>1, <3>2 DEF OrderInv
    <3> QED BY <3>1, <3>3 DEF Snapshots, Snapshot
  <2> QED BY <2>1, <2>2 DEF OneDecisionPerNumber
<1> QED BY <1>1, OrderAlways, PTL

\* KeyState::require_current compares no digests and needs none: what it admits was signed
\* by the key that the root's latest decision names.
THEOREM RetiredKeys == Spec => []RetiredKeyRejected
<1>1. ASSUME OrderInv
      PROVE  RetiredKeyRejected
  <2>1. SUFFICES ASSUME NEW s \in Snapshots, RequireCurrent(s)
                 PROVE  /\ s.approvals.signer = learned.active_key
                        /\ s.approvals.keys.expires_at <= learned.expires_at
                        /\ s.approvals.keys.generation = learned.generation =>
                              s.approvals.keys = learned
    BY DEF RetiredKeyRejected
  <2>2. s \in Snapshot /\ BehindLearned(s)
    BY <1>1 DEF OrderInv, TypeOK, Snapshots, BehindLearned
  <2>3. s.approvals.keys \in KeyManifests /\ learned \in KeyManifests
    BY <1>1, <2>2, ApprovalFacts, SMTT(60) DEF OrderInv, TypeOK, Snapshot, BehindLearned
  <2>4. /\ s.approvals.keys.generation \in Nat /\ learned.generation \in Nat
        /\ learned.expires_at \in Nat
    BY <2>3, KeyFacts
  <2>5. CASE s.approvals.keys = learned
    BY <2>2, <2>4, <2>5 DEF BehindLearned
  <2>6. CASE s.approvals.keys.generation < learned.generation
    BY <2>1, <2>2, <2>4, <2>6 DEF BehindLearned, RequireCurrent
  <2> QED BY <2>2, <2>5, <2>6 DEF BehindLearned
<1> QED BY <1>1, OrderAlways, PTL

\* Issuer::learn, for every AMD root: revocation lists only advance, by number and by date,
\* and only a higher number ends a dispute.
THEOREM CrlMonotone == Spec => CrlNeverGoesBack
<1>1. OrderInv /\ [Next]_vars =>
        [ \A i \in Issuers :
            /\ latest[i] # None /\ latest'[i] # latest[i] =>
                  /\ latest'[i] # None
                  /\ latest'[i].number > latest[i].number
                  /\ latest'[i].start >= latest[i].start
            /\ disputed[i] /\ ~ disputed'[i] => latest'[i].number > latest[i].number ]_vars
  BY RevocationStep, SMTT(60) DEF OrderInv
<1> QED BY <1>1, OrderAlways, PTL DEF Spec, CrlNeverGoesBack

\* Every release of a snapshot in use was checked, with the Sigstore keys that the
\* snapshot's own approval names and at the time that is kept with the result.
ChecksMade ==
    \A s \in Snapshots : \A e \in s.releases :
        Verifies(e.release, s.approvals.sigstore, e.verified_at)

\* A result is carried on only under the same keys, so it stays one of such a check
\* through any number of reuses.
LEMMA ChecksAlwaysMade == Spec => []ChecksMade
<1>1. Init => ChecksMade
  BY DEF Init, ChecksMade, Snapshots
<1>2. ASSUME ChecksMade, [Next]_vars
      PROVE  ChecksMade'
  <2>1. ASSUME NEW a \in ApprovalManifests, NEW platforms \in PlatformSets,
               Install(a, platforms)
        PROVE  ChecksMade'
    <3>1. /\ retained' = retained
          /\ current' = [approvals |-> a, releases |-> ReleaseChecks(a),
                         platforms |-> platforms]
      BY <2>1, SMTT(60) DEF Install
    <3>2. ASSUME NEW e \in Reusable(a)
          PROVE  Verifies(e.release, a.sigstore, e.verified_at)
      <4>1. /\ current # None /\ current.approvals.sigstore = a.sigstore
            /\ e \in current.releases
        BY <3>2 DEF Reusable
      <4> QED BY <1>2, <4>1 DEF ChecksMade, Snapshots
    <3>3. ASSUME NEW e \in ReleaseChecks(a), e \notin Reusable(a)
          PROVE  Verifies(e.release, a.sigstore, e.verified_at)
      <4>1. e.verified_at = job.now
        BY <3>3 DEF ReleaseChecks
      <4> QED BY <2>1, <3>3, <4>1, SMTT(60) DEF Install
    <3>4. ASSUME NEW s \in Snapshots', NEW e \in s.releases
          PROVE  Verifies(e.release, s.approvals.sigstore, e.verified_at)
      <4>1. CASE s = current'
        BY <3>1, <3>2, <3>3, <3>4, <4>1
      <4>2. CASE s = retained'
        BY <1>2, <3>1, <3>4, <4>2 DEF ChecksMade, Snapshots
      <4> QED BY <3>4, <4>1, <4>2 DEF Snapshots
    <3> QED BY <3>4 DEF ChecksMade, Verifies
  <2>2. ASSUME current' = current, retained' \in {retained, current}
        PROVE  ChecksMade'
    <3>1. Snapshots' \subseteq Snapshots
      BY <2>2 DEF Snapshots
    <3> QED BY <1>2, <3>1 DEF ChecksMade, Verifies
  <2>3. ASSUME \/ \E keys \in KeyManifests : VerifyKeyManifest(keys)
               \/ \E keys, sigstore, now, roots, rows, fits :
                     StartRefresh(keys, sigstore, now, roots, rows, fits)
               \/ ObserveRow \/ Reject \/ Retain \/ UNCHANGED vars
        PROVE  current' = current /\ retained' \in {retained, current}
    BY <2>3 DEF VerifyKeyManifest, StartRefresh, ObserveRow, Reject, Retain, vars
  <2> QED BY <1>2, <2>1, <2>2, <2>3 DEF Next
<1> QED BY <1>1, <1>2, PTL DEF Spec

\* For every set of documents and every clock: a refresh that reuses earlier release
\* checks installs nothing that checking it again, with the refresh's own Sigstore keys
\* and at its own time, would refuse.
THEOREM CachedChecks == Spec => CachedChecksHold
<1>1. ASSUME TypeOK, ChecksMade, NEW a \in ApprovalManifests, NEW platforms \in PlatformSets,
             Install(a, platforms), NEW release \in a.releases
      PROVE  Verifies(release, a.sigstore, job.now)
  <2>1. job.now \in Int /\ release.built \in Int
    <3>1. job \in Job BY <1>1 DEF TypeOK, Install
    <3>2. job.now \in Int BY <3>1 DEF Job, Time
    <3>3. release \in Release BY <1>1, ApprovalFacts
    <3> QED BY <3>2, <3>3 DEF Release
  <2>2. CASE \E e \in Reusable(a) : e.release = release
    <3>1. PICK e \in Reusable(a) : e.release = release BY <2>2
    <3>2. /\ current # None /\ current.approvals.sigstore = a.sigstore
          /\ e \in current.releases /\ e.verified_at <= job.now
      BY <3>1 DEF Reusable
    <3>3. current \in Snapshots /\ current \in Snapshot BY <1>1, <3>2 DEF Snapshots, TypeOK
    <3>4. e.verified_at \in Int BY <3>2, <3>3 DEF Snapshot, Cached, Time
    <3>5. Verifies(release, a.sigstore, e.verified_at)
      BY <1>1, <3>1, <3>2, <3>3 DEF ChecksMade
    <3> QED BY <2>1, <3>2, <3>4, <3>5 DEF Verifies
  <2>3. CASE \A e \in Reusable(a) : e.release # release
    <3> DEFINE e == [release |-> release, verified_at |-> job.now]
    <3>1. e \in ReleaseChecks(a) BY <1>1, <2>3 DEF ReleaseChecks
    <3>2. e \notin Reusable(a) /\ e.release = release BY <2>3
    <3>3. \A c \in ReleaseChecks(a) : c \in Reusable(a) \/ Verifies(c.release, a.sigstore, job.now)
      BY <1>1 DEF Install
    <3> QED BY <3>1, <3>2, <3>3
  <2> QED BY <2>2, <2>3
<1>2. TypeOK /\ ChecksMade =>
        [ \A a \in ApprovalManifests, platforms \in PlatformSets :
            Install(a, platforms) =>
               \A release \in a.releases : Verifies(release, a.sigstore, job.now) ]_vars
  BY <1>1
<1> QED BY <1>2, EvidenceTyped, ChecksAlwaysMade, PTL DEF CachedChecksHold

-----------------------------------------------------------------------------
(* Revocation across refreshes that succeed or fail.                       *)

\* A list at least as new as crl was learned.
Covered(crl) ==
    /\ latest[crl.issuer] # None
    /\ \/ latest[crl.issuer].number >= crl.number
       \/ latest[crl.issuer].start > crl.start

\* Every authentic row that the refresh in progress has observed was learned or outdone.
RowsKept ==
    job # None =>
      \A n \in DOMAIN job.rows :
         n < job.next /\ job.rows[n] # None /\ Authentic(job.rows[n], job.now) =>
            Covered(job.rows[n])

\* Lists are learned of pinned roots that a bundle has introduced only.
ListsKnown == \A i \in Issuers : latest[i] # None => i \in known

\* What Issuer::learn has covered stays covered.
LEMMA StaysCovered ==
    ASSUME TypeOK, [Next]_vars, NEW c \in Crls, Covered(c)
    PROVE  Covered(c)'
<1> DEFINE i == c.issuer
<1>1. i \in Issuers /\ c.number \in Nat /\ c.start \in Nat
  BY CrlFacts
<1>2. latest[i] \in Crls /\ latest[i].number \in Nat /\ latest[i].start \in Nat
  BY <1>1, CrlFacts DEF TypeOK, Covered
<1>3. latest'[i] # latest[i] =>
        /\ latest'[i] # None
        /\ latest'[i].number > latest[i].number
        /\ latest'[i].start >= latest[i].start
  BY <1>1, RevocationStep DEF Covered
<1>4. latest'[i] # None => latest'[i].number \in Nat /\ latest'[i].start \in Nat
  BY <1>1, RevocationStep, CrlFacts
<1> QED BY <1>1, <1>2, <1>3, <1>4 DEF Covered

\* A list that Issuer::learn is given is covered afterwards, whether it was taken or not.
LEMMA LearningCovers ==
    ASSUME TypeOK, NEW c \in Crls, LearnCrl(c)
    PROVE  Covered(c)'
<1> DEFINE i == c.issuer
           old == latest[i]
<1>1. i \in Issuers /\ c.number \in Nat /\ c.start \in Nat /\ c # None
  BY CrlFacts
<1>2. latest \in [Issuers -> Crls \cup {None}]
  BY DEF TypeOK
<1>3. old # None => old.number \in Nat /\ old.start \in Nat
  BY <1>1, <1>2, CrlFacts
<1>4. CASE old # None /\ (c.number < old.number \/ (c.number > old.number /\ c.start < old.start))
  BY <1>1, <1>3, <1>4 DEF LearnCrl, Covered
<1>5. CASE old # None /\ c.number = old.number
  BY <1>1, <1>3, <1>5 DEF LearnCrl, Covered
<1>6. CASE old = None \/ (c.number > old.number /\ c.start >= old.start)
  <2>1. latest' = [latest EXCEPT ![i] = c]
    BY <1>1, <1>3, <1>6 DEF LearnCrl
  <2> QED BY <1>1, <1>2, <2>1 DEF Covered
<1> QED BY <1>1, <1>3, <1>4, <1>5, <1>6

\* The rows a refresh has observed stay covered, and it covers the next one.
LEMMA RowsStep ==
    ASSUME TypeOK, RowsKept, [Next]_vars
    PROVE  RowsKept'
<1>1. ASSUME NEW keys, NEW sigstore, NEW now, NEW roots, NEW rows \in Deliveries,
             NEW fits, StartRefresh(keys, sigstore, now, roots, rows, fits)
      PROVE  RowsKept'
  <2>1. job'.next = 1 /\ job'.rows \in Seq(Crls \cup {None})
    BY <1>1, DocumentAssumption DEF StartRefresh
  <2> QED BY <2>1 DEF RowsKept
<1>2. CASE ObserveRow
  <2>1. /\ job # None /\ job.next \in Nat \ {0} /\ job.next <= Len(job.rows)
        /\ job \in Job
    BY <1>2 DEF ObserveRow, TypeOK, Job
  <2>2. job.rows \in Seq(Crls \cup {None})
    BY <2>1, DocumentAssumption DEF Job
  <2>3. PICK c \in Crls \cup {None} : c = job.rows[job.next]
    BY <2>1, <2>2, RowFacts
  <2>4. job' = [job EXCEPT
                  !.next = @ + 1,
                  !.vendor = @ /\ c # None
                               /\ latest'[c.issuer] = c
                               /\ ~ disputed'[c.issuer]]
    BY <1>2, <2>3 DEF ObserveRow
  <2>5. job'.rows = job.rows /\ job'.now = job.now /\ job'.next = job.next + 1
    BY <2>1, <2>4 DEF Job
  <2>6. known' = known
    BY <1>2 DEF ObserveRow
  <2>7. c # None /\ Authentic(c, job.now) => Covered(c)'
    <3>1. c # None /\ Authentic(c, job.now) => LearnCrl(c)
      BY <1>2, <2>3 DEF ObserveRow
    <3> QED BY <3>1, LearningCovers
  <2>8. ASSUME NEW n \in DOMAIN job.rows, n < job.next + 1, job.rows[n] # None,
               Authentic(job.rows[n], job.now)
        PROVE  Covered(job.rows[n])'
    <3>1. job.rows[n] \in Crls
      BY <2>2, <2>8
    <3>2. CASE n = job.next
      BY <2>3, <2>5, <2>7, <2>8, <3>2 DEF Covered
    <3>3. CASE n < job.next
      <4>1. Covered(job.rows[n])
        BY <2>1, <2>8, <3>3 DEF RowsKept
      <4> PICK d \in Crls : d = job.rows[n]
        BY <3>1
      <4>2. Covered(d)'
        BY <4>1, StaysCovered
      <4> QED BY <2>5, <4>2 DEF Covered
    <3> QED BY <2>1, <2>2, <2>8, <3>2, <3>3
  <2> QED BY <2>5, <2>6, <2>8 DEF RowsKept, Authentic, Covered
<1>3. ASSUME NEW keys, VerifyKeyManifest(keys)
      PROVE  RowsKept'
  BY <1>3 DEF VerifyKeyManifest, RowsKept
<1>4. ASSUME NEW a, NEW platforms, Install(a, platforms)
      PROVE  RowsKept'
  BY <1>4 DEF Install, RowsKept
<1>5. CASE Reject
  BY <1>5 DEF Reject, RowsKept
<1>6. CASE Retain \/ UNCHANGED vars
  BY <1>6 DEF Retain, vars, crlVars, RowsKept, Authentic, Covered
<1> QED BY <1>1, <1>2, <1>3, <1>4, <1>5, <1>6 DEF Next

\* A list is learned only of a root that is known, and no root is forgotten.
LEMMA KnownStep ==
    ASSUME TypeOK, ListsKnown, [Next]_vars
    PROVE  ListsKnown'
<1>1. CASE ObserveRow
  <2> DEFINE c == job.rows[job.next]
  <2>1. known' = known
    BY <1>1 DEF ObserveRow
  <2>2. \/ latest' = latest
        \/ /\ c # None /\ LearnCrl(c)
           /\ c.issuer \in known \/ c = latest[c.issuer]
    BY <1>1 DEF ObserveRow, Authentic
  <2>3. latest' = latest \/ latest' = [latest EXCEPT ![c.issuer] = c]
    BY <2>2 DEF LearnCrl
  <2>4. CASE latest' = latest
    BY <2>1, <2>4 DEF ListsKnown
  <2>5. CASE c.issuer \in known /\ latest' = [latest EXCEPT ![c.issuer] = c]
    BY <2>1, <2>5 DEF ListsKnown, TypeOK
  <2>6. CASE c = latest[c.issuer] /\ latest' = [latest EXCEPT ![c.issuer] = c]
    BY <2>1, <2>6 DEF ListsKnown, TypeOK
  <2> QED BY <2>2, <2>3, <2>4, <2>5, <2>6
<1>2. ASSUME NEW keys, NEW sigstore, NEW now, NEW roots, NEW rows,
             NEW fits, StartRefresh(keys, sigstore, now, roots, rows, fits)
      PROVE  ListsKnown'
  BY <1>2 DEF StartRefresh, ListsKnown
<1>3. ASSUME NEW keys, VerifyKeyManifest(keys)
      PROVE  ListsKnown'
  BY <1>3 DEF VerifyKeyManifest, crlVars, ListsKnown
<1>4. ASSUME NEW a, NEW platforms, Install(a, platforms)
      PROVE  ListsKnown'
  BY <1>4 DEF Install, crlVars, ListsKnown
<1>5. CASE Reject \/ Retain \/ UNCHANGED vars
  BY <1>5 DEF Reject, Retain, vars, crlVars, ListsKnown
<1> QED BY <1>1, <1>2, <1>3, <1>4, <1>5 DEF Next

\* Both hold in every state.
LEMMA ListsAlways == Spec => [](OrderInv /\ RowsKept /\ ListsKnown)
<1>1. Init => RowsKept /\ ListsKnown
  BY DEF Init, RowsKept, ListsKnown
<1>2. OrderInv /\ RowsKept /\ ListsKnown /\ [Next]_vars => RowsKept' /\ ListsKnown'
  BY RowsStep, KnownStep DEF OrderInv
<1> QED BY <1>1, <1>2, OrderAlways, PTL DEF Spec

\* A snapshot that Snapshot::collateral_validity refuses at some time is accepted at that
\* time again only after a strictly newer list of an AMD root was learned, whatever is
\* delivered, repeated or rejected meanwhile.
THEOREM RevocationsStick == Spec => RevocationSticks
<1>1. ASSUME OrderInv, ListsKnown, [Next]_vars, retained' = retained,
             NEW chip, NEW now,
             ~ CollateralValid(retained, chip, now), CollateralValid(retained, chip, now)'
      PROVE  \E i \in Issuers :
                /\ latest'[i] # None
                /\ latest[i] # None => latest'[i].number > latest[i].number
  <2>1. PICK p \in retained.platforms :
          /\ p.chip = chip
          /\ p.issuer \in known'
          /\ latest'[p.issuer] # None
          /\ ~ disputed'[p.issuer]
          /\ p.ask_serial \notin latest'[p.issuer].revoked
          /\ p.start <= now /\ latest'[p.issuer].start <= now
          /\ now < p.end /\ now < latest'[p.issuer].end
    BY <1>1 DEF CollateralValid
  <2> DEFINE i == p.issuer
  <2>2. i \in Issuers /\ TypeOK
    BY <1>1, <2>1, RevocationStep DEF OrderInv
  <2>3. now < retained.approvals.keys.expires_at
    BY <1>1 DEF CollateralValid
  <2>4. CASE latest'[i] = latest[i]
    <3>1. i \in known
      BY <1>1, <2>1, <2>2, <2>4 DEF ListsKnown
    <3>2. disputed[i]
      BY <1>1, <2>1, <2>3, <2>4, <3>1 DEF CollateralValid
    <3> QED BY <1>1, <2>1, <2>2, <2>4, <3>2, RevocationStep
  <2>5. CASE latest'[i] # latest[i]
    BY <1>1, <2>1, <2>2, <2>5, RevocationStep
  <2> QED BY <2>4, <2>5
<1>2. OrderInv /\ RowsKept /\ ListsKnown /\ [Next]_vars =>
        [ retained # None /\ retained' = retained =>
            \A p \in retained.platforms, now \in Time :
               ~ CollateralValid(retained, p.chip, now) /\ CollateralValid(retained, p.chip, now)'
                  => \E i \in Issuers :
                        /\ latest'[i] # None
                        /\ latest[i] # None => latest'[i].number > latest[i].number ]_vars
  BY <1>1
<1> QED BY <1>2, ListsAlways, PTL DEF Spec, RevocationSticks

\* Verifier::refresh_observed, on its way to success or to any error, keeps every authentic
\* revocation list its bundle carried, unless a list at least as new was there already.
THEOREM RevocationsOutliveFailure == Spec => RevocationOutlivesFailure
<1>1. ASSUME TypeOK, RowsKept, [Next]_vars, job # None, job' = None,
             NEW n \in DOMAIN job.rows, job.rows[n] # None, Authentic(job.rows[n], job.now)
      PROVE  Covered(job.rows[n])
  <2>1. job \in Job /\ job.rows \in Seq(Crls \cup {None}) /\ job.next \in Nat
    BY <1>1, DocumentAssumption DEF TypeOK, Job
  <2>2. job.next > Len(job.rows)
    <3>1. ASSUME ObserveRow PROVE FALSE
      <4>1. job' \in Job
        BY <1>1, <3>1, ObservedJob
      <4> QED BY <1>1, <4>1, NoneAssumption
    <3>2. ASSUME NEW keys, NEW sigstore, NEW now, NEW roots, NEW rows,
                 NEW fits, StartRefresh(keys, sigstore, now, roots, rows, fits)
          PROVE  FALSE
      BY <1>1, <3>2 DEF StartRefresh
    <3>3. ASSUME NEW keys, VerifyKeyManifest(keys) PROVE FALSE
      BY <1>1, <3>3 DEF VerifyKeyManifest
    <3>4. ASSUME Retain \/ UNCHANGED vars PROVE FALSE
      BY <1>1, <3>4 DEF Retain, vars
    <3>5. ASSUME NEW a, NEW platforms, Install(a, platforms)
          PROVE  job.next > Len(job.rows)
      BY <3>5 DEF Install
    <3>6. ASSUME Reject PROVE job.next > Len(job.rows)
      BY <3>6 DEF Reject
    <3> QED BY <1>1, <3>1, <3>2, <3>3, <3>4, <3>5, <3>6 DEF Next
  <2>3. n < job.next
    BY <1>1, <2>1, <2>2
  <2> QED BY <1>1, <2>3 DEF RowsKept
<1>2. OrderInv /\ RowsKept /\ ListsKnown /\ [Next]_vars =>
        [ job # None /\ job' = None =>
            \A n \in DOMAIN job.rows :
               LET crl == job.rows[n] IN
               crl # None /\ Authentic(crl, job.now) =>
                  /\ latest[crl.issuer] # None
                  /\ \/ latest[crl.issuer].number >= crl.number
                     \/ latest[crl.issuer].start > crl.start ]_vars
  BY <1>1 DEF OrderInv, Covered
<1> QED BY <1>2, ListsAlways, PTL DEF Spec, RevocationOutlivesFailure

-----------------------------------------------------------------------------
(* The sequence of a release.                                              *)

\* Multiplying by a natural number keeps an order between natural numbers, with room for
\* one more multiple in between.
LEMMA TimesBase ==
    ASSUME NEW x \in Nat, NEW y \in Nat, NEW b \in Nat, x < y
    PROVE  x * b + b <= y * b
<1> DEFINE d == y - x - 1
<1>1. d \in Nat /\ y = x + 1 + d
    OBVIOUS
<1>2. \A k \in Nat : k * b >= 0
    OBVIOUS
<1>3. y * b = x * b + b + d * b
    BY <1>1
<1> QED BY <1>1, <1>2, <1>3

\* A number below x * b + b is told from one that is at least y * b: what one digit adds
\* never reaches the next multiple of the base.
LEMMA DigitOrder ==
    ASSUME NEW x \in Nat, NEW y \in Nat, NEW b \in Nat,
           NEW c \in Nat, NEW d \in Nat, c < b, x < y
    PROVE  x * b + c < y * b + d
<1>1. x * b + b <= y * b
    BY TimesBase
<1>2. x * b \in Nat /\ y * b \in Nat
    OBVIOUS
<1> QED BY <1>1, <1>2

\* The parts of a tag that parses have natural values, the last two below the base.
LEMMA PartsTyped ==
    ASSUME NEW t \in Tag, TagParses(t)
    PROVE  /\ t.parts[1].value \in Nat /\ t.parts[2].value \in Nat /\ t.parts[3].value \in Nat
           /\ t.parts[2].value < ComponentBase /\ t.parts[3].value < ComponentBase
<1>1. t.parts \in Seq(Part) /\ Len(t.parts) = 3
    BY Zenon DEF Tag, TagParses
<1>2. \A n \in 1 .. 3 : t.parts[n] \in Part
    <2> HIDE DEF Part
    <2> QED BY <1>1
<1>3. \A part \in Part : part.value \in Nat
    BY Zenon DEF Part
<1>4. t.parts[1] \in Part /\ t.parts[2] \in Part /\ t.parts[3] \in Part
    BY <1>2
<1>5. t.parts[2].value < ComponentBase /\ t.parts[3].value < ComponentBase
    BY Zenon DEF TagParses
<1> QED BY <1>3, <1>4, <1>5

\* Two digits: if the number spelled by t is below that spelled by u in the lexicographic
\* order of their digits, it is below it as a number.
LEMMA SpelledOrder ==
    ASSUME NEW t \in Tag, NEW u \in Tag, TagParses(t), TagParses(u), Before(t, u)
    PROVE  Spelled(t) < Spelled(u)
<1> DEFINE a(n) == t.parts[n].value
           b(n) == u.parts[n].value
<1>1. /\ a(1) \in Nat /\ a(2) \in Nat /\ a(3) \in Nat
      /\ b(1) \in Nat /\ b(2) \in Nat /\ b(3) \in Nat
      /\ a(2) < ComponentBase /\ a(3) < ComponentBase
    BY PartsTyped
<1>2. ComponentBase \in Nat
    BY SequenceAssumption
<1>3. \/ a(1) < b(1)
      \/ a(1) = b(1) /\ a(2) < b(2)
      \/ a(1) = b(1) /\ a(2) = b(2) /\ a(3) < b(3)
    BY DEF Before
<1> DEFINE p == a(1) * ComponentBase + a(2)
           q == b(1) * ComponentBase + b(2)
<1>4. p \in Nat /\ q \in Nat
    BY <1>1, <1>2
<1>5. p < q \/ (p = q /\ a(3) < b(3))
    <2>1. CASE a(1) < b(1)
        <3> HIDE DEF a, b
        <3>1. a(1) * ComponentBase + a(2) < b(1) * ComponentBase + b(2)
            BY <2>1, <1>1, <1>2, DigitOrder
        <3> QED BY <3>1
    <2>2. CASE a(1) = b(1) /\ a(2) < b(2)
        BY <2>2, <1>1, <1>2
    <2>3. CASE a(1) = b(1) /\ a(2) = b(2) /\ a(3) < b(3)
        BY <2>3
    <2> QED BY <1>3, <2>1, <2>2, <2>3
<1>6. p * ComponentBase + a(3) < q * ComponentBase + b(3)
    <2> HIDE DEF p, q, a, b
    <2>1. CASE p < q
        <3>1. a(3) \in Nat /\ b(3) \in Nat /\ a(3) < ComponentBase
            BY <1>1
        <3> QED BY <2>1, <3>1, <1>2, <1>4, DigitOrder
    <2>2. CASE p = q /\ a(3) < b(3)
        <3>1. q * ComponentBase \in Nat
            BY <1>2, <1>4
        <3>2. a(3) \in Nat /\ b(3) \in Nat
            BY <1>1
        <3> QED BY <2>2, <3>1, <3>2
    <2> QED BY <1>5, <2>1, <2>2
<1> QED BY <1>6 DEF Spelled

\* gateway_release_sequence orders any set of tags as their versions.
THEOREM SequenceOrdersVersions ==
    ASSUME NEW tags \in SUBSET Tag
    PROVE  SequenceOrders(tags)
<1> SUFFICES ASSUME NEW t \in tags, NEW u \in tags,
                    GatewayReleaseSequence(t) # 0, GatewayReleaseSequence(u) # 0
             PROVE  /\ GatewayReleaseSequence(t) < GatewayReleaseSequence(u) <=> Before(t, u)
                    /\ GatewayReleaseSequence(t) = GatewayReleaseSequence(u) =>
                          \A n \in 1 .. 3 : t.parts[n].value = u.parts[n].value
    BY DEF SequenceOrders
<1>1. /\ t \in Tag /\ u \in Tag /\ TagParses(t) /\ TagParses(u)
      /\ GatewayReleaseSequence(t) = Spelled(t) /\ GatewayReleaseSequence(u) = Spelled(u)
      /\ Spelled(t) \in Int /\ Spelled(u) \in Int
    BY SequenceAssumption DEF GatewayReleaseSequence
<1>2. Before(t, u) => Spelled(t) < Spelled(u)
    BY <1>1, SpelledOrder
<1>3. Before(u, t) => Spelled(u) < Spelled(t)
    BY <1>1, SpelledOrder
<1>4. \A n \in 1 .. 3 : t.parts[n].value \in Nat /\ u.parts[n].value \in Nat
    BY <1>1, PartsTyped
<1>5. \/ Before(t, u) \/ Before(u, t)
      \/ \A n \in 1 .. 3 : t.parts[n].value = u.parts[n].value
    BY <1>4 DEF Before
<1>6. (\A n \in 1 .. 3 : t.parts[n].value = u.parts[n].value) => Spelled(t) = Spelled(u)
    BY DEF Spelled
<1> QED BY <1>1, <1>2, <1>3, <1>5, <1>6

-----------------------------------------------------------------------------
(* Transport.                                                              *)

AnyKind == Kinds \cup {RefreshKind}
Text == Texts \cup {Nothing}

\* Where a request is on its way to the gateway.
Forwarding == {"uploading", "acquiring", "permitted", "submitted", "streaming"}
Stages == {"idle", "accepted", "refreshing", "refreshed", "done"} \cup Forwarding

RequestType ==
  [at : Stages, kind : AnyKind \cup {Nothing}, attempt : {1, 2}, sent : BOOLEAN,
   ran : BOOLEAN, refusal : BOOLEAN, original : Nat, snapshot : Nat,
   brought : BOOLEAN, mislabelled : BOOLEAN, answer : Text, cors : BOOLEAN]
CallType == [at : {"idle", "lock", "held", "reading", "joining"}, op : {Nothing, "refresh", "close"},
             made : Nat, result : Text, since : Nat]

TransportTypeOK ==
  /\ options \in Options /\ version \in Nat /\ thread \in BOOLEAN
  /\ req \in [Conns -> RequestType] /\ call \in [Callers -> CallType]

\* A request that may be forwarded under options o, and one whose answers a
\* web page may read.
AllowedPage(o, k) ==
  Len(k.origins) = 1 /\ (o.browser_origin # Nothing => k.origins[1] = o.browser_origin.name)
Inference(o, k) ==
  /\ k.hosts = <<"own">> /\ ~k.query /\ k.path = "api" /\ k.method = "POST"
  /\ k.origins = <<>> \/ AllowedPage(o, k)
Readable(o, k) == k.path \in {"api", "other_api"} /\ AllowedPage(o, k)

\* What holds of a connection, by where it is: only a request that route() let
\* through is forwarded, it is with the gateway only once it was submitted,
\* told otherwise only after a mislabelled response, and a refresh remembers
\* what it found and what it brought.
Sound(o, r, v) ==
  /\ r.at # "idle" => r.kind \in AnyKind
  /\ r.at # "done" => r.answer = Nothing /\ ~r.cors
  /\ r.at \in Forwarding => Inference(o, r.kind)
  /\ r.sent \/ r.ran => /\ r.at \in {"submitted", "streaming", "done"}
                        /\ Inference(o, r.kind)
                        /\ r.answer # "not_sent" \/ r.mislabelled
  /\ r.at \in {"refreshing", "refreshed"} => r.original <= v
  /\ r.at = "refreshed" => /\ r.original <= r.snapshot /\ r.snapshot <= v
                           /\ r.brought => r.original # r.snapshot
  /\ r.brought => r.at \in {"refreshed", "done"} /\ r.answer # "204"
  /\ r.cors => r.at = "done" /\ Readable(o, r.kind)

Connections == \A c \in Conns : Sound(options, req[c], version)

\* What a caller of refresh_bundle() can rely on while its answer is on the way.
Calls ==
  /\ \A c \in Callers :
       /\ call[c].since <= version
       /\ call[c].result = "changed" => call[c].since < version
       /\ call[c].at = "reading" =>
            /\ req[c].at \in {"refreshing", "refreshed"} => call[c].since <= req[c].original
            /\ req[c].answer = "200" => call[c].since < version
  /\ worker \in {"none", "init"} => version = 0

\* The worker, its thread and the handle.
Life ==
  /\ host = "none" => worker = "none"
  /\ host = "starting" => thread
  /\ host = "running" /\ ~thread => worker = "finished"
  /\ \A c \in Callers : call[c].at # "idle" => host = "running"
  /\ worker \in {"stopping", "finished"} => \A c \in Conns : ~InProgress(c)

IInv == TransportTypeOK /\ Connections /\ Calls /\ Life /\ CloseStopsWorker

-----------------------------------------------------------------------------
(* Operators.                                                              *)

\* The texts of the program are not the absence of one.
LEMMA NoneIsNoText ==
  /\ \A t \in Texts : t # Nothing
  /\ Nothing # "200" /\ Nothing # "204" /\ Nothing # "not_sent" /\ Nothing # "changed" /\ Nothing # "closed"
BY TransportAssumption DEF Texts

LEMMA OriginAllowedIs ==
  ASSUME NEW k
  PROVE  OriginAllowed(k) <=> AllowedPage(options, k)
BY DEF OriginAllowed, AllowedPage

\* route() forwards only what none of its early returns refuses.
LEMMA RouteInference ==
  ASSUME NEW k, Route(k) = "inference"
  PROVE  Inference(options, k)
<1> DEFINE R == Refusals(k)
           hits == {i \in DOMAIN R : R[i][1]}
<1>1. RefusalOf(k) = Nothing /\ k.path # "refresh" /\ k.method # "OPTIONS"
  BY DEF Route
<1>2. DOMAIN R = 1 .. 7 BY DEF Refusals
<1>3. \A i \in 1 .. 7 : R[i][2] \in Texts BY DEF Refusals, Texts
<1> HIDE DEF R
<1>4. hits = {}
  <2> SUFFICES ASSUME hits # {} PROVE FALSE OBVIOUS
  <2>1. hits \subseteq 1 .. 7 BY <1>2
  <2> HIDE DEF hits
  <2>2. \E i \in hits : \A j \in hits : i <= j
    <3>1. CASE 1 \in hits BY <2>1, <3>1
    <3>2. CASE 1 \notin hits /\ 2 \in hits BY <2>1, <3>2
    <3>3. CASE hits \cap {1, 2} = {} /\ 3 \in hits BY <2>1, <3>3
    <3>4. CASE hits \cap {1, 2, 3} = {} /\ 4 \in hits BY <2>1, <3>4
    <3>5. CASE hits \cap {1, 2, 3, 4} = {} /\ 5 \in hits BY <2>1, <3>5
    <3>6. CASE hits \cap {1, 2, 3, 4, 5} = {} /\ 6 \in hits BY <2>1, <3>6
    <3>7. CASE hits \cap {1, 2, 3, 4, 5, 6} = {}
      <4>1. \A i \in hits : i = 7 BY <2>1, <3>7
      <4> QED BY <4>1
    <3> QED BY <3>1, <3>2, <3>3, <3>4, <3>5, <3>6, <3>7
  <2>3. PICK i \in hits : i = CHOOSE h \in hits : \A j \in hits : h <= j
    BY <2>2
  <2>4. RefusalOf(k) = R[i][2] BY <2>3, Zenon DEF RefusalOf, hits, R
  <2> QED BY <1>1, <1>3, <2>1, <2>4, NoneIsNoText
<1>5. \A i \in 1 .. 7 : ~R[i][1] BY <1>2, <1>4
<1>6. /\ ~R[1][1] /\ ~R[2][1] /\ ~R[4][1] /\ ~R[5][1] /\ ~R[6][1] /\ ~R[7][1]
  BY <1>5
<1>7. /\ k.hosts = <<"own">> /\ ~k.query
      /\ k.origins = <<>> \/ OriginAllowed(k)
      /\ OwnPath(k) /\ k.path # "other_api"
      /\ k.path = "api" /\ k.method # "POST" => k.method = "OPTIONS" /\ k.origins # <<>>
  BY <1>1, <1>6 DEF R, Refusals
<1> QED BY <1>1, <1>7, OriginAllowedIs DEF Inference, OwnPath

\* A request of any kind that a page may read is that page's alone.
LEMMA ReadableByPage ==
  ASSUME NEW o, NEW k \in AnyKind, AllowedPage(o, k)
  PROVE  o.browser_origin # Nothing => k.origins = <<o.browser_origin.name>>
<1>1. CASE k \in Kinds
  <2>1. k.origins \in Seq({k.origins[i] : i \in DOMAIN k.origins})
    BY <1>1, TransportAssumption
  <2> QED BY <2>1 DEF AllowedPage
<1>2. CASE k = RefreshKind BY <1>2 DEF RefreshKind, AllowedPage
<1> QED BY <1>1, <1>2 DEF AnyKind

\* Submission() tells the errors apart by when they happen.
LEMMA SubmissionOf ==
  ASSUME TransportTypeOK, NEW e
  PROVE  /\ e \in ErrorsBefore(options.security) =>
              Submission(options.security, e) = "not_sent"
         /\ e \in ErrorsAfter(options.security) =>
              Submission(options.security, e) =
                IF e = "Http::Completion" THEN "not_sent" ELSE "execution_unknown"
<1>1. options.security \in {"tls", "e2ee"} BY TransportAssumption DEF TransportTypeOK
<1>2. CASE options.security = "tls"
  BY <1>2 DEF ErrorsBefore, ErrorsAfter, Submission
<1>3. CASE options.security = "e2ee"
  BY <1>3 DEF ErrorsBefore, ErrorsAfter, Submission
<1> QED BY <1>1, <1>2, <1>3

\* Later bundles do not spoil what holds of a connection.
LEMMA SoundLater ==
  ASSUME NEW o, NEW r \in RequestType, NEW v \in Nat, NEW w \in Nat, v <= w,
         Sound(o, r, v)
  PROVE  Sound(o, r, w)
<1>1. r.original \in Nat /\ r.snapshot \in Nat BY DEF RequestType
<1> QED BY <1>1 DEF Sound

LEMMA NoRequestSound ==
  ASSUME NEW o, NEW v \in Nat
  PROVE  NoRequest \in RequestType /\ Sound(o, NoRequest, v)
<1>1. NoRequest \in RequestType
  BY DEF NoRequest, RequestType, Stages, Text
<1>2. Nothing # "204" /\ Nothing # "not_sent" BY NoneIsNoText
<1> QED BY <1>1, <1>2 DEF Sound, NoRequest, Forwarding

\* The type of a connection that is over.
LEMMA OverTyped ==
  ASSUME NEW r \in RequestType, NEW answer \in Texts
  PROVE  Over(r, answer) \in RequestType
<1>1. /\ r.kind \in AnyKind \cup {Nothing} /\ r.sent \in BOOLEAN /\ r.ran \in BOOLEAN
      /\ r.brought \in BOOLEAN /\ r.mislabelled \in BOOLEAN
  BY DEF RequestType
<1>2. NoRequest \in RequestType BY NoRequestSound
<1> QED BY <1>1, <1>2 DEF Over, RequestType, Stages, Text

\* A connection that is over, with an answer or without one.
LEMMA OverSound ==
  ASSUME NEW o, NEW r \in RequestType, NEW v \in Nat, Sound(o, r, v), r.at # "idle",
         NEW answer \in Texts,
         answer = "not_sent" => (~r.sent /\ ~r.ran) \/ r.mislabelled,
         answer = "204" => ~r.brought
  PROVE  Over(r, answer) \in RequestType /\ Sound(o, Over(r, answer), v)
         /\ Over(r, answer).at = "done" /\ Over(r, answer).answer = answer
<1> DEFINE q == Over(r, answer)
<1>1. /\ q.at = "done" /\ q.kind = r.kind /\ q.sent = r.sent /\ q.ran = r.ran
      /\ q.brought = r.brought /\ q.mislabelled = r.mislabelled
      /\ q.answer = answer /\ q.cors = FALSE
  BY DEF Over, NoRequest
<1>2. q \in RequestType BY OverTyped
<1> HIDE DEF q
<1>3. Sound(o, q, v) BY <1>1 DEF Sound, Forwarding
<1> QED BY <1>1, <1>2, <1>3 DEF q

LEMMA AnswerSound ==
  ASSUME NEW r \in RequestType, NEW v \in Nat, Sound(options, r, v), r.at # "idle",
         NEW answer \in Texts,
         answer = "not_sent" => (~r.sent /\ ~r.ran) \/ r.mislabelled,
         answer = "204" => ~r.brought
  PROVE  Answer(r, answer) \in RequestType /\ Sound(options, Answer(r, answer), v)
         /\ Answer(r, answer).at = "done" /\ Answer(r, answer).answer = answer
<1> DEFINE p == Over(r, answer)
           q == Answer(r, answer)
<1>1. p \in RequestType /\ Sound(options, p, v) /\ p.at = "done" /\ p.answer = answer
  BY OverSound
<1>2. p.kind = r.kind BY DEF Over, NoRequest
<1>3. q = [p EXCEPT !.cors = BrowserAccess(r.kind)] BY DEF Answer
<1>4. BrowserAccess(r.kind) \in BOOLEAN
      /\ (BrowserAccess(r.kind) <=> Readable(options, r.kind))
  BY OriginAllowedIs DEF BrowserAccess, OwnPath, Readable
<1> HIDE DEF p, q
<1>5. q \in RequestType BY <1>1, <1>3, <1>4 DEF RequestType
<1>6. /\ q.at = p.at /\ q.kind = p.kind /\ q.sent = p.sent /\ q.ran = p.ran
      /\ q.original = p.original /\ q.snapshot = p.snapshot /\ q.brought = p.brought
      /\ q.mislabelled = p.mislabelled
      /\ q.answer = p.answer /\ (q.cors => Readable(options, r.kind))
  BY <1>1, <1>3, <1>4 DEF RequestType
<1>7. Sound(options, q, v) BY <1>1, <1>2, <1>6 DEF Sound, Forwarding
<1> QED BY <1>1, <1>5, <1>6, <1>7 DEF q

-----------------------------------------------------------------------------
(* Connections.                                                            *)

\* A step of one connection, in which the bundle may advance.
LEMMA ConnectionStep ==
  ASSUME IInv, NEW c \in Conns, NEW new \in RequestType,
         req' = [req EXCEPT ![c] = new], UNCHANGED <<life, handle>>,
         version' \in Nat, version <= version',
         worker \in {"none", "init"} => version' = version,
         Sound(options, new, version'),
         InProgress(c) \/ worker = "serving" \/ new.at \in {"idle", "done"},
         new.at \in {"refreshing", "refreshed"} =>
           \/ new.original = version
           \/ req[c].at = "refreshing" /\ new.original = req[c].original,
         new.answer = "200" =>
           \/ req[c].answer = "200"
           \/ req[c].at = "refreshed" /\ req[c].original # req[c].snapshot
  PROVE  IInv'
<1> USE DEF life, handle
<1>1. /\ req \in [Conns -> RequestType] /\ call \in [Callers -> CallType]
      /\ version \in Nat /\ Callers \subseteq Conns
  BY DEF IInv, TransportTypeOK, Conns
<1>2. \A d \in Conns : req'[d] = IF d = c THEN new ELSE req[d] BY <1>1
<1>3. TransportTypeOK' BY <1>1 DEF IInv, TransportTypeOK
<1>4. Connections'
  <2> SUFFICES ASSUME NEW d \in Conns PROVE Sound(options, req'[d], version')
    BY DEF Connections
  <2>1. req[d] \in RequestType /\ Sound(options, req[d], version)
    BY <1>1 DEF IInv, Connections
  <2>2. Sound(options, req[d], version') BY <2>1, <1>1, SoundLater
  <2> QED BY <2>2, <1>2
<1>5. Calls'
  <2>1. ASSUME NEW d \in Callers
        PROVE  /\ call[d].since <= version'
               /\ call[d].result = "changed" => call[d].since < version'
               /\ call[d].at = "reading" =>
                    /\ req'[d].at \in {"refreshing", "refreshed"} =>
                         call[d].since <= req'[d].original
                    /\ req'[d].answer = "200" => call[d].since < version'
    <3>1. /\ call[d].since \in Nat /\ req[d].original \in Nat /\ req[d].snapshot \in Nat
          /\ d \in Conns
      BY <1>1 DEF CallType, RequestType
    <3>2. /\ call[d].since <= version
          /\ call[d].result = "changed" => call[d].since < version
          /\ call[d].at = "reading" =>
               /\ req[d].at \in {"refreshing", "refreshed"} => call[d].since <= req[d].original
               /\ req[d].answer = "200" => call[d].since < version
      BY DEF IInv, Calls
    <3>3. req[d].at = "refreshed" => /\ req[d].original <= req[d].snapshot
                                     /\ req[d].snapshot <= version
      BY <3>1 DEF IInv, Connections, Sound
    <3>4. CASE d # c BY <3>1, <3>2, <3>4, <1>1, <1>2
    <3>5. CASE d = c BY <3>1, <3>2, <3>3, <3>5, <1>1, <1>2
    <3> QED BY <3>4, <3>5
  <2> QED BY <2>1 DEF IInv, Calls
<1>6. \A d \in Conns : InProgress(d)' => InProgress(d) \/ worker = "serving"
  BY <1>2 DEF InProgress
<1>7. worker \in {"stopping", "finished"} => \A d \in Conns : ~InProgress(d)'
  BY <1>6 DEF IInv, Life
<1>8. Life' BY <1>7 DEF IInv, Life
<1>9. CloseStopsWorker' BY <1>7 DEF IInv, CloseStopsWorker
<1> QED BY <1>3, <1>4, <1>5, <1>8, <1>9 DEF IInv

\* One connection moves on, and nothing else changes.
LEMMA MoveStep ==
  ASSUME IInv, NEW c \in Conns, NEW new \in RequestType,
         req' = [req EXCEPT ![c] = new], UNCHANGED <<life, handle, pool, version>>,
         Sound(options, new, version),
         InProgress(c) \/ worker = "serving" \/ new.at \in {"idle", "done"},
         new.at \notin {"refreshing", "refreshed"},
         new.answer # "200" \/ new.answer = req[c].answer
  PROVE  IInv'
<1>1. version' \in Nat /\ version <= version' /\ version' = version BY DEF IInv, TransportTypeOK
<1>2. UNCHANGED <<life, handle>> OBVIOUS
<1>3. Sound(options, new, version') BY <1>1
<1>4. new.answer = "200" => req[c].answer = "200" OBVIOUS
<1> QED BY <1>1, <1>2, <1>3, <1>4, ConnectionStep

\* One connection is answered or dropped.
LEMMA AnswerStep ==
  ASSUME IInv, NEW c \in Conns, req[c].at # "idle", NEW answer \in Texts,
         \/ req' = [req EXCEPT ![c] = Answer(req[c], answer)]
         \/ req' = [req EXCEPT ![c] = Over(req[c], answer)],
         UNCHANGED <<life, handle, pool, version>>,
         answer = "not_sent" => ~req[c].sent /\ ~req[c].ran,
         answer = "204" => ~req[c].brought,
         answer # "200"
  PROVE  IInv'
<1>1. version \in Nat /\ req[c] \in RequestType /\ Sound(options, req[c], version)
  BY DEF IInv, TransportTypeOK, Connections
<1> DEFINE r == req[c]
           a == Answer(r, answer)
           b == Over(r, answer)
<1>2. /\ a \in RequestType /\ Sound(options, a, version)
      /\ a.at = "done" /\ a.answer = answer
  <2> HIDE DEF r
  <2> QED BY <1>1, AnswerSound DEF r
<1>3. /\ b \in RequestType /\ Sound(options, b, version)
      /\ b.at = "done" /\ b.answer = answer
  <2> HIDE DEF r
  <2> QED BY <1>1, OverSound DEF r
<1> HIDE DEF a, b
<1>4. CASE req' = [req EXCEPT ![c] = a] BY <1>2, <1>4, MoveStep
<1>5. CASE req' = [req EXCEPT ![c] = b] BY <1>3, <1>5, MoveStep
<1> QED BY <1>4, <1>5 DEF a, b

LEMMA Known ==
  ASSUME IInv, NEW c \in Conns
  PROVE  /\ version \in Nat /\ req[c] \in RequestType
         /\ Sound(options, req[c], version)
BY DEF IInv, TransportTypeOK, Connections

LEMMA ArriveStep ==
  ASSUME IInv, NEW c \in Conns, NEW k \in Kinds, Arrive(c, k)
  PROVE  IInv'
<1> DEFINE new == [req[c] EXCEPT !.at = "accepted", !.kind = k]
<1>1. /\ worker = "serving" /\ req[c].at = "idle" /\ req' = [req EXCEPT ![c] = new]
      /\ UNCHANGED <<life, handle, pool, version>>
  BY DEF Arrive
<1>2. k \in AnyKind /\ "accepted" \in Stages /\ req[c] \in RequestType BY Known DEF AnyKind, Stages
<1>3. new \in RequestType BY <1>2 DEF RequestType
<1>4. /\ new.at = "accepted" /\ new.kind = k /\ new.sent = req[c].sent /\ new.ran = req[c].ran
      /\ new.brought = req[c].brought /\ new.answer = req[c].answer
      /\ new.cors = req[c].cors
  BY Known DEF RequestType
<1> HIDE DEF new
<1>5. Sound(options, new, version) BY <1>1, <1>2, <1>4, Known DEF Sound, Forwarding
<1> QED BY <1>1, <1>3, <1>4, <1>5, MoveStep

LEMMA HandleStep ==
  ASSUME IInv, NEW c \in Conns, Handle(c)
  PROVE  IInv'
<1> DEFINE r == req[c]
<1>1. r.at = "accepted" /\ UNCHANGED <<life, handle, pool, version>> BY DEF Handle
<1>2. /\ r \in RequestType /\ version \in Nat /\ Sound(options, r, version)
      /\ ~r.sent /\ ~r.ran /\ ~r.brought /\ InProgress(c) /\ r.kind \in AnyKind
      /\ r.answer = Nothing /\ ~r.cors
  BY <1>1, Known DEF Sound, InProgress
<1>3. CASE Route(r.kind) = "refused"
  <2>1. req' = [req EXCEPT ![c] = Answer(r, "not_sent")] BY <1>3 DEF Handle
  <2> QED BY <1>1, <1>2, <2>1, AnswerStep DEF Texts
<1>4. CASE Route(r.kind) = "refresh"
  <2> DEFINE new == [r EXCEPT !.at = "refreshing", !.original = version]
  <2>1. req' = [req EXCEPT ![c] = new] BY <1>4 DEF Handle
  <2>2. new \in RequestType BY <1>2 DEF RequestType, Stages
  <2>3. /\ new.at = "refreshing" /\ new.kind = r.kind /\ new.sent = r.sent
        /\ new.ran = r.ran /\ new.original = version /\ new.brought = r.brought
        /\ new.answer = r.answer /\ new.cors = r.cors
    BY <1>2 DEF RequestType
  <2> HIDE DEF new, r
  <2>4. Sound(options, new, version) BY <1>2, <2>3 DEF Sound, Forwarding
  <2>5. new.answer # "200" BY <1>2, <2>3, NoneIsNoText
  <2>6. version' = version /\ version' \in Nat /\ version <= version' BY <1>1, <1>2
  <2> QED BY <1>1, <1>2, <2>1, <2>2, <2>3, <2>4, <2>5, <2>6, ConnectionStep
<1>5. CASE Route(r.kind) = "preflight"
  <2>1. \E answer \in {"204", "not_sent"} : req' = [req EXCEPT ![c] = Answer(r, answer)]
    BY <1>5 DEF Handle
  <2> QED BY <1>1, <1>2, <2>1, AnswerStep DEF Texts
<1>6. CASE Route(r.kind) \notin {"refused", "refresh", "preflight"}
  <2> DEFINE new == [r EXCEPT !.at = "uploading"]
  <2>1. req' = [req EXCEPT ![c] = new] BY <1>6 DEF Handle
  <2>2. Route(r.kind) = "inference" BY <1>6 DEF Route
  <2>3. Inference(options, r.kind) BY <2>2, RouteInference
  <2>4. new \in RequestType BY <1>2 DEF RequestType, Stages, Forwarding
  <2>5. /\ new.at = "uploading" /\ new.kind = r.kind /\ new.sent = r.sent
        /\ new.ran = r.ran /\ new.brought = r.brought
        /\ new.answer = r.answer /\ new.cors = r.cors
    BY <1>2 DEF RequestType
  <2> HIDE DEF new
  <2>6. Sound(options, new, version) BY <1>2, <2>3, <2>5 DEF Sound, Forwarding
  <2> QED BY <1>1, <1>2, <2>1, <2>4, <2>5, <2>6, MoveStep
<1> QED BY <1>3, <1>4, <1>5, <1>6

LEMMA ActivateStep ==
  ASSUME IInv, NEW c \in Conns, NEW v \in 1 .. MaxVersion, Activate(c, v)
  PROVE  IInv'
<1> DEFINE r == req[c]
           new == [r EXCEPT !.at = "refreshed", !.snapshot = v, !.brought = v # version]
<1>1. /\ Serving /\ r.at = "refreshing" /\ v \in {version, version + 1} /\ version' = v
      /\ UNCHANGED <<life, handle, pool>> /\ req' = [req EXCEPT ![c] = new]
  <2>1. req' = [req EXCEPT ![c].at = "refreshed", ![c].snapshot = v, ![c].brought = v # version]
    BY DEF Activate
  <2>2. req \in [Conns -> RequestType] BY DEF IInv, TransportTypeOK
  <2>3. req' = [req EXCEPT ![c] = new] BY <2>1, <2>2 DEF RequestType
  <2> QED BY <2>3 DEF Activate
<1>2. /\ r \in RequestType /\ version \in Nat /\ Sound(options, r, version)
      /\ ~r.sent /\ ~r.ran /\ InProgress(c) /\ r.kind \in AnyKind
      /\ r.answer = Nothing /\ ~r.cors /\ r.original <= version /\ r.original \in Nat
  BY <1>1, Known DEF Sound, InProgress, RequestType
<1>3. v \in Nat /\ version <= v BY <1>1, <1>2
<1>4. new \in RequestType BY <1>2, <1>3 DEF RequestType, Stages
<1>5. /\ new.at = "refreshed" /\ new.kind = r.kind /\ new.sent = r.sent
      /\ new.ran = r.ran /\ new.original = r.original /\ new.snapshot = v
      /\ (new.brought => v # version) /\ new.answer = r.answer /\ new.cors = r.cors
  BY <1>2 DEF RequestType
<1> HIDE DEF new, r
<1>6. Sound(options, new, version')
  BY <1>1, <1>2, <1>3, <1>5, NoneIsNoText DEF Sound, Forwarding
<1>7. new.answer # "200" BY <1>2, <1>5, NoneIsNoText
<1>8. worker \notin {"none", "init"} BY <1>1 DEF Serving
<1>9. UNCHANGED <<life, handle>> BY <1>1
<1> QED BY <1>1, <1>2, <1>3, <1>4, <1>5, <1>6, <1>7, <1>8, <1>9, ConnectionStep DEF r

LEMMA ActivateFailsStep ==
  ASSUME IInv, NEW c \in Conns, ActivateFails(c)
  PROVE  IInv'
<1>1. ~req[c].sent /\ ~req[c].ran BY Known DEF Sound, ActivateFails
<1> QED BY <1>1, AnswerStep DEF ActivateFails, Texts

LEMMA AnswerRefreshStep ==
  ASSUME IInv, NEW c \in Conns, AnswerRefresh(c)
  PROVE  IInv'
<1> DEFINE r == req[c]
<1>1. /\ r.at = "refreshed" /\ UNCHANGED <<life, handle, pool, version>>
      /\ r \in RequestType /\ version \in Nat /\ Sound(options, r, version)
  BY Known DEF AnswerRefresh
<1>2. CASE r.original = r.snapshot
  <2>1. ~r.brought BY <1>1, <1>2 DEF Sound
  <2>2. req' = [req EXCEPT ![c] = Answer(r, "204")] BY <1>2 DEF AnswerRefresh
  <2> QED BY <1>1, <2>1, <2>2, AnswerStep DEF Texts
<1>3. CASE r.original # r.snapshot
  <2> DEFINE new == Answer(r, "200")
  <2>1. req' = [req EXCEPT ![c] = new] BY <1>3 DEF AnswerRefresh
  <2>2. /\ new \in RequestType /\ Sound(options, new, version)
        /\ new.at = "done" /\ new.answer = "200"
    <3> HIDE DEF r
    <3> QED BY <1>1, AnswerSound DEF Texts
  <2> HIDE DEF new
  <2>3. /\ UNCHANGED <<life, handle>> /\ version' = version /\ version' \in Nat
        /\ version <= version' /\ Sound(options, new, version')
    BY <1>1, <2>2
  <2> QED BY <1>1, <1>3, <2>1, <2>2, <2>3, ConnectionStep
<1> QED BY <1>2, <1>3

\* A request moves on its way to the gateway and back.
LEMMA ForwardStep ==
  ASSUME IInv, NEW c \in Conns, NEW new \in RequestType,
         req' = [req EXCEPT ![c] = new], UNCHANGED <<life, handle, pool, version>>,
         req[c].at \in Forwarding, new.at \in Forwarding, new.kind = req[c].kind,
         new.brought = req[c].brought, new.answer = req[c].answer, new.cors = req[c].cors,
         new.sent \/ new.ran => new.at \in {"submitted", "streaming"}
  PROVE  IInv'
<1>1. /\ version \in Nat /\ req[c] \in RequestType /\ Sound(options, req[c], version)
  BY Known
<1>2. InProgress(c) BY DEF InProgress, Forwarding
<1>3. /\ req[c].kind \in AnyKind /\ req[c].answer = Nothing /\ ~req[c].cors
      /\ ~req[c].brought /\ Inference(options, req[c].kind)
  BY <1>1, <1>2 DEF Sound, InProgress, Forwarding
<1>4. Sound(options, new, version)
  BY <1>3, NoneIsNoText DEF Sound, Forwarding
<1> QED BY <1>2, <1>4, MoveStep DEF Forwarding

LEMMA UploadStep ==
  ASSUME IInv, NEW c \in Conns, NEW whole \in BOOLEAN, Upload(c, whole)
  PROVE  IInv'
<1> DEFINE r == req[c]
           new == [r EXCEPT !.at = "acquiring"]
<1>1. r.at = "uploading" /\ UNCHANGED <<life, handle, pool, version>> BY DEF Upload
<1>2. r \in RequestType /\ ~r.sent /\ ~r.ran BY <1>1, Known DEF Sound
<1>3. CASE whole
  <2>1. req' = [req EXCEPT ![c] = new] BY <1>3 DEF Upload
  <2>2. new \in RequestType BY <1>2 DEF RequestType, Stages, Forwarding
  <2>3. /\ new.at = "acquiring" /\ new.kind = r.kind /\ new.sent = r.sent
        /\ new.ran = r.ran /\ new.brought = r.brought
        /\ new.answer = r.answer /\ new.cors = r.cors
    BY <1>2 DEF RequestType
  <2> HIDE DEF new
  <2> QED BY <1>1, <1>2, <2>1, <2>2, <2>3, ForwardStep DEF Forwarding
<1>4. CASE ~whole
  <2>1. req' = [req EXCEPT ![c] = Answer(r, "not_sent")] BY <1>4 DEF Upload
  <2> QED BY <1>1, <1>2, <2>1, AnswerStep DEF Texts
<1> QED BY <1>3, <1>4

LEMMA AcquireStep ==
  ASSUME IInv, NEW c \in Conns, Acquire(c)
  PROVE  IInv'
<1> DEFINE r == req[c]
           new == [r EXCEPT !.at = "permitted"]
<1>1. r.at = "acquiring" /\ UNCHANGED <<life, handle, pool, version>> BY DEF Acquire
<1>2. r \in RequestType /\ ~r.sent /\ ~r.ran BY <1>1, Known DEF Sound
<1>3. req' = [req EXCEPT ![c] = new] BY DEF Acquire
<1>4. new \in RequestType BY <1>2 DEF RequestType, Stages, Forwarding
<1>5. /\ new.at = "permitted" /\ new.kind = r.kind /\ new.sent = r.sent
      /\ new.ran = r.ran /\ new.brought = r.brought
      /\ new.answer = r.answer /\ new.cors = r.cors
  BY <1>2 DEF RequestType
<1> HIDE DEF new
<1> QED BY <1>1, <1>2, <1>3, <1>4, <1>5, ForwardStep DEF Forwarding

LEMMA AcquireFailsStep ==
  ASSUME IInv, NEW c \in Conns, NEW e, AcquireFails(c, e)
  PROVE  IInv'
<1>1. /\ req[c].at \in {"acquiring", "permitted"} /\ e \in ErrorsBefore(options.security)
      /\ UNCHANGED <<life, handle, pool, version>>
  BY DEF AcquireFails
<1>2. ~req[c].sent /\ ~req[c].ran BY <1>1, Known DEF Sound
<1>3. Submission(options.security, e) = "not_sent" BY <1>1, SubmissionOf DEF IInv
<1>4. \E answer \in {"refusal", "not_sent"} : req' = [req EXCEPT ![c] = Answer(req[c], answer)]
  BY <1>3 DEF AcquireFails
<1> QED BY <1>1, <1>2, <1>4, AnswerStep DEF Texts

LEMMA SubmitStep ==
  ASSUME IInv, NEW c \in Conns, Submit(c)
  PROVE  IInv'
<1> DEFINE r == req[c]
<1>1. r.at = "permitted" /\ UNCHANGED <<life, handle, pool, version>> BY DEF Submit
<1>2. r \in RequestType /\ ~r.sent /\ ~r.ran BY <1>1, Known DEF Sound
<1>3. CASE req' = [req EXCEPT ![c] = [r EXCEPT !.at = "acquiring", !.attempt = 2]]
  <2> DEFINE new == [r EXCEPT !.at = "acquiring", !.attempt = 2]
  <2>1. new \in RequestType BY <1>2 DEF RequestType, Stages, Forwarding
  <2>2. /\ new.at = "acquiring" /\ new.kind = r.kind /\ new.sent = r.sent
        /\ new.ran = r.ran /\ new.brought = r.brought
        /\ new.answer = r.answer /\ new.cors = r.cors
    BY <1>2 DEF RequestType
  <2>3. req' = [req EXCEPT ![c] = new] BY <1>3
  <2> HIDE DEF new
  <2> QED BY <1>1, <1>2, <2>1, <2>2, <2>3, ForwardStep DEF Forwarding
<1>4. CASE req' = [req EXCEPT ![c] = Answer(r, Submission("tls", "Closed"))]
  <2>1. Submission("tls", "Closed") = "not_sent" BY DEF Submission
  <2> QED BY <1>1, <1>2, <1>4, <2>1, AnswerStep DEF Texts
<1>5. CASE req' = [req EXCEPT ![c] =
                     [r EXCEPT !.at = "submitted", !.sent = TRUE, !.refusal = FALSE]]
  <2> DEFINE new == [r EXCEPT !.at = "submitted", !.sent = TRUE, !.refusal = FALSE]
  <2>1. new \in RequestType BY <1>2 DEF RequestType, Stages, Forwarding
  <2>2. /\ new.at = "submitted" /\ new.kind = r.kind /\ new.brought = r.brought
        /\ new.answer = r.answer /\ new.cors = r.cors
    BY <1>2 DEF RequestType
  <2>3. req' = [req EXCEPT ![c] = new] BY <1>5
  <2> HIDE DEF new
  <2> QED BY <1>1, <1>2, <2>1, <2>2, <2>3, ForwardStep DEF Forwarding
<1> QED BY <1>3, <1>4, <1>5 DEF Submit

LEMMA ExecuteStep ==
  ASSUME IInv, NEW c \in Conns, Execute(c)
  PROVE  IInv'
<1> DEFINE r == req[c]
           new == [r EXCEPT !.ran = TRUE]
<1>1. r.sent /\ UNCHANGED <<life, handle, pool, version>> /\ req' = [req EXCEPT ![c] = new]
  BY DEF Execute
<1>2. /\ r \in RequestType /\ version \in Nat /\ Sound(options, r, version)
      /\ r.at \in {"submitted", "streaming", "done"}
  BY <1>1, Known DEF Sound
<1>3. new \in RequestType BY <1>2 DEF RequestType
<1>4. /\ new.at = r.at /\ new.kind = r.kind /\ new.sent = r.sent
      /\ new.original = r.original /\ new.snapshot = r.snapshot
      /\ new.brought = r.brought /\ new.mislabelled = r.mislabelled
      /\ new.answer = r.answer /\ new.cors = r.cors
  BY <1>2 DEF RequestType
<1>5. InProgress(c) \/ r.at = "done" BY <1>2 DEF InProgress
<1> HIDE DEF new
<1>6. Sound(options, new, version) BY <1>1, <1>2, <1>4 DEF Sound, Forwarding
<1> QED BY <1>1, <1>2, <1>3, <1>4, <1>5, <1>6, MoveStep

LEMMA RefuseStep ==
  ASSUME IInv, NEW c \in Conns, NEW marked \in BOOLEAN, Refuse(c, marked)
  PROVE  IInv'
<1> DEFINE q == req[c]
           r == [q EXCEPT !.sent = FALSE]
           new == [r EXCEPT !.at = "acquiring", !.attempt = 2, !.refusal = marked]
           answer == IF marked THEN "refusal" ELSE "not_sent"
           last == Answer(r, answer)
<1>1. /\ q \in RequestType /\ version \in Nat /\ Sound(options, q, version)
  BY Known
<1>2. r \in RequestType BY <1>1 DEF RequestType
<1>3. /\ r.at = q.at /\ r.kind = q.kind /\ ~r.sent /\ r.ran = q.ran
      /\ r.original = q.original /\ r.snapshot = q.snapshot
      /\ r.brought = q.brought /\ r.mislabelled = q.mislabelled
      /\ r.answer = q.answer /\ r.cors = q.cors
  BY <1>1 DEF RequestType
<1>4. /\ q.at = "submitted" /\ ~r.ran
      /\ req' = [req EXCEPT ![c] = IF r.attempt = 1 THEN new ELSE last]
      /\ UNCHANGED <<life, handle, pool, version>>
  BY <1>3 DEF Refuse
<1>5. new \in RequestType BY <1>2 DEF RequestType, Stages, Forwarding
<1>6. /\ new.at = "acquiring" /\ new.kind = r.kind /\ new.sent = r.sent
      /\ new.ran = r.ran /\ new.brought = r.brought
      /\ new.answer = r.answer /\ new.cors = r.cors
  BY <1>2 DEF RequestType
<1>7. InProgress(c) BY <1>4 DEF InProgress
<1> HIDE DEF new, r
<1>8. Sound(options, r, version) BY <1>1, <1>3, <1>4 DEF Sound, Forwarding
<1>9. CASE r.attempt = 1
  <2>1. req' = [req EXCEPT ![c] = new] BY <1>4, <1>9
  <2>2. /\ new.kind = req[c].kind /\ new.brought = req[c].brought
        /\ new.answer = req[c].answer /\ new.cors = req[c].cors
        /\ req[c].at \in Forwarding /\ new.at \in Forwarding /\ ~(new.sent \/ new.ran)
    BY <1>3, <1>4, <1>6 DEF Forwarding
  <2> QED BY <1>4, <1>5, <2>1, <2>2, ForwardStep
<1>10. CASE r.attempt # 1
  <2>1. req' = [req EXCEPT ![c] = last] BY <1>4, <1>10
  <2>2. /\ last \in RequestType /\ Sound(options, last, version)
        /\ last.at = "done" /\ last.answer = answer
    BY <1>1, <1>2, <1>3, <1>4, <1>8, AnswerSound DEF Texts
  <2>3. last.answer # "200" BY <2>2
  <2> HIDE DEF last
  <2> QED BY <1>4, <1>7, <2>1, <2>2, <2>3, MoveStep
<1> QED BY <1>9, <1>10

LEMMA SubmitFailsStep ==
  ASSUME IInv, NEW c \in Conns, NEW e, SubmitFails(c, e)
  PROVE  IInv'
<1> DEFINE q == req[c]
           r == [q EXCEPT !.mislabelled = (e = "Http::Completion")]
           answer == Submission(options.security, e)
           last == Answer(r, answer)
<1>1. q \in RequestType /\ version \in Nat /\ Sound(options, q, version) BY Known
<1>2. /\ q.at = "submitted" /\ req' = [req EXCEPT ![c] = last]
      /\ UNCHANGED <<life, handle, pool, version>>
  BY DEF SubmitFails
<1>3. r \in RequestType BY <1>1 DEF RequestType
<1>4. /\ r.at = q.at /\ r.kind = q.kind /\ r.sent = q.sent /\ r.ran = q.ran
      /\ r.original = q.original /\ r.snapshot = q.snapshot /\ r.brought = q.brought
      /\ r.answer = q.answer /\ r.cors = q.cors
      /\ r.mislabelled = (e = "Http::Completion")
  BY <1>1 DEF RequestType
<1>5. answer = IF e = "Http::Completion" THEN "not_sent" ELSE "execution_unknown"
  BY SubmissionOf DEF SubmitFails, IInv
<1>6. InProgress(c) /\ q.answer = Nothing BY <1>1, <1>2 DEF InProgress, Sound
<1> HIDE DEF r, answer
<1>7. Sound(options, r, version) BY <1>1, <1>2, <1>4, <1>6, NoneIsNoText DEF Sound, Forwarding
<1>8. /\ last \in RequestType /\ Sound(options, last, version)
      /\ last.at = "done" /\ last.answer = answer
  <2>1. answer \in Texts /\ answer # "204" /\ r.at # "idle" BY <1>2, <1>4, <1>5 DEF Texts
  <2>2. answer = "not_sent" => e = "Http::Completion" BY <1>5
  <2>3. answer = "not_sent" => r.mislabelled BY <1>4, <2>2, Zenon
  <2> QED BY <1>1, <1>3, <1>7, <2>1, <2>3, AnswerSound
<1>9. last.answer # "200" BY <1>5, <1>8
<1> HIDE DEF last
<1> QED BY <1>2, <1>6, <1>8, <1>9, MoveStep

LEMMA RespondStep ==
  ASSUME IInv, NEW c \in Conns, Respond(c)
  PROVE  IInv'
<1> DEFINE r == req[c]
           new == [r EXCEPT !.at = "streaming"]
<1>1. r.at = "submitted" /\ UNCHANGED <<life, handle, pool, version>> BY DEF Respond
<1>2. r \in RequestType BY Known
<1>3. req' = [req EXCEPT ![c] = new] BY DEF Respond
<1>4. new \in RequestType BY <1>2 DEF RequestType, Stages, Forwarding
<1>5. /\ new.at = "streaming" /\ new.kind = r.kind /\ new.brought = r.brought
      /\ new.answer = r.answer /\ new.cors = r.cors
  BY <1>2 DEF RequestType
<1> HIDE DEF new
<1> QED BY <1>1, <1>2, <1>3, <1>4, <1>5, ForwardStep DEF Forwarding

LEMMA BodyEndsStep ==
  ASSUME IInv, NEW c \in Conns, NEW whole \in BOOLEAN, BodyEnds(c, whole)
  PROVE  IInv'
BY AnswerStep DEF BodyEnds, Texts

LEMMA DisconnectStep ==
  ASSUME IInv, NEW c \in Conns, Disconnect(c)
  PROVE  IInv'
BY AnswerStep DEF Disconnect, InProgress, Texts

\* A bundle that no connection waited for.
LEMMA AsideStep ==
  ASSUME IInv, ActivateAside
  PROVE  IInv'
<1>1. /\ Serving /\ version' = version + 1 /\ version \in Nat
      /\ UNCHANGED <<life, handle, pool, req>>
  BY DEF ActivateAside, IInv, TransportTypeOK
<1> USE DEF life, handle
<1>2. TransportTypeOK' BY <1>1 DEF IInv, TransportTypeOK
<1>3. Connections'
  <2> SUFFICES ASSUME NEW c \in Conns PROVE Sound(options, req[c], version')
    BY <1>1 DEF Connections
  <2> QED BY <1>1, Known, SoundLater
<1>4. Calls'
  <2>1. \A c \in Callers : call[c].since \in Nat BY DEF IInv, TransportTypeOK, CallType
  <2> QED BY <1>1, <2>1 DEF IInv, Calls, Serving
<1>5. Life' BY <1>1 DEF IInv, Life, InProgress
<1>6. CloseStopsWorker' BY <1>1 DEF IInv, CloseStopsWorker, InProgress
<1> QED BY <1>2, <1>3, <1>4, <1>5, <1>6 DEF IInv

LEMMA ConnectionInv ==
  ASSUME IInv, NEW c \in Conns, Connection(c)
  PROVE  IInv'
BY HandleStep, AnswerRefreshStep, AcquireStep, SubmitStep, ExecuteStep, RespondStep,
   DisconnectStep, ArriveStep, ActivateFailsStep, ActivateStep, UploadStep, BodyEndsStep,
   RefuseStep, AcquireFailsStep, SubmitFailsStep DEF Connection

-----------------------------------------------------------------------------
(* Callers.                                                                *)

\* A step of one caller, in which its own connection may be opened or closed.
LEMMA CallStep ==
  ASSUME IInv, NEW c \in Callers, NEW new \in CallType, NEW r \in RequestType,
         call' = [call EXCEPT ![c] = new], req' = [req EXCEPT ![c] = r],
         UNCHANGED <<life, version>>, thread' \in BOOLEAN,
         Sound(options, r, version),
         InProgress(c) \/ worker = "serving" \/ r.at \in {"idle", "done"},
         new.since <= version, new.result = "changed" => new.since < version,
         new.at = "reading" => r.at = "accepted" /\ r.answer = Nothing,
         new.at # "idle" => host = "running",
         host = "starting" => thread', host = "running" /\ ~thread' => worker = "finished",
         terminal # Nothing => terminal' # Nothing, ~thread => ~thread',
         new.result = "closed" /\ new.at = "idle" =>
           worker = "finished" /\ terminal' # Nothing /\ ~thread'
  PROVE  IInv'
<1> USE DEF life
<1>1. /\ req \in [Conns -> RequestType] /\ call \in [Callers -> CallType]
      /\ version \in Nat /\ Callers \subseteq Conns
  BY DEF IInv, TransportTypeOK, Conns
<1>2. /\ \A d \in Conns : req'[d] = IF d = c THEN r ELSE req[d]
      /\ \A d \in Callers : call'[d] = IF d = c THEN new ELSE call[d]
  BY <1>1
<1>3. TransportTypeOK' BY <1>1 DEF IInv, TransportTypeOK
<1>4. Connections' BY <1>1, <1>2 DEF IInv, Connections
<1>5. Calls'
  <2>1. ASSUME NEW d \in Callers
        PROVE  /\ call'[d].since <= version
               /\ call'[d].result = "changed" => call'[d].since < version
               /\ call'[d].at = "reading" =>
                    /\ req'[d].at \in {"refreshing", "refreshed"} =>
                         call'[d].since <= req'[d].original
                    /\ req'[d].answer = "200" => call'[d].since < version
    <3>1. d \in Conns BY <1>1
    <3>2. /\ call[d].since <= version
          /\ call[d].result = "changed" => call[d].since < version
          /\ call[d].at = "reading" =>
               /\ req[d].at \in {"refreshing", "refreshed"} => call[d].since <= req[d].original
               /\ req[d].answer = "200" => call[d].since < version
      BY DEF IInv, Calls
    <3>3. CASE d # c BY <3>1, <3>2, <3>3, <1>2
    <3>4. CASE d = c BY <3>1, <3>2, <3>4, <1>2, NoneIsNoText
    <3> QED BY <3>3, <3>4
  <2> QED BY <2>1 DEF IInv, Calls
<1>6. \A d \in Conns : InProgress(d)' => InProgress(d) \/ worker = "serving"
  BY <1>2 DEF InProgress
<1>7. worker \in {"stopping", "finished"} => \A d \in Conns : ~InProgress(d)'
  BY <1>6 DEF IInv, Life
<1>8. Life' BY <1>2, <1>7 DEF IInv, Life
<1>9. CloseStopsWorker' BY <1>2, <1>7 DEF IInv, CloseStopsWorker
<1> QED BY <1>3, <1>4, <1>5, <1>8, <1>9 DEF IInv

LEMMA CallBegins ==
  ASSUME IInv, NEW c \in Callers, NEW op \in {"refresh", "close"}, Call(c, op)
  PROVE  IInv'
<1> DEFINE new == [call[c] EXCEPT !.at = "lock", !.op = op, !.made = @ + 1,
                                  !.result = Nothing, !.since = version]
<1>1. /\ host = "running" /\ UNCHANGED <<life, shutdown, thread, terminal, lock, proxy>>
      /\ call' = [call EXCEPT ![c] = new]
  BY DEF Call
<1>2. c \in Conns /\ call[c] \in CallType /\ version \in Nat /\ thread \in BOOLEAN
      /\ req \in [Conns -> RequestType]
  BY DEF IInv, TransportTypeOK, Conns
<1>3. new \in CallType
  <2>1. call[c].made + 1 \in Nat BY <1>2 DEF CallType
  <2> QED BY <1>2, <2>1 DEF CallType, Text
<1>4. new.at = "lock" /\ new.since = version /\ new.result = Nothing
  BY <1>2 DEF CallType
<1>5. req' = [req EXCEPT ![c] = req[c]] BY <1>1, <1>2 DEF proxy
<1>6. /\ UNCHANGED <<life, version>> /\ thread' = thread /\ terminal' = terminal
  BY <1>1 DEF proxy
<1>7. host = "running" /\ ~thread => worker = "finished" BY DEF IInv, Life
<1>8. InProgress(c) \/ req[c].at \in {"idle", "done"} BY DEF InProgress
<1>9. req[c] \in RequestType /\ Sound(options, req[c], version) BY <1>2, Known
<1> DEFINE r == req[c]
<1>10. /\ r \in RequestType /\ Sound(options, r, version) /\ r = req[c]
       /\ InProgress(c) \/ worker = "serving" \/ r.at \in {"idle", "done"}
       /\ req' = [req EXCEPT ![c] = r]
  BY <1>5, <1>8, <1>9
<1> HIDE DEF new, r
<1>11. /\ new.since <= version /\ new.result # "changed" /\ new.result # "closed"
       /\ new.at # "reading"
  BY <1>2, <1>4, NoneIsNoText
<1>12. host # "starting" BY <1>1
<1>13. thread' \in BOOLEAN /\ (host = "running" /\ ~thread' => worker = "finished")
  BY <1>2, <1>6, <1>7
<1>14. /\ new.result = "changed" => new.since < version
       /\ new.at = "reading" => r.at = "accepted" /\ r.answer = Nothing
       /\ new.at # "idle" => host = "running"
       /\ host = "starting" => thread'
       /\ terminal # Nothing => terminal' # Nothing
       /\ ~thread => ~thread'
       /\ new.result = "closed" /\ new.at = "idle" =>
            worker = "finished" /\ terminal' # Nothing /\ ~thread'
       /\ new.since <= version
  BY <1>1, <1>6, <1>10, <1>11, <1>12
<1>15. call' = [call EXCEPT ![c] = new] BY <1>1
<1> QED BY <1>3, <1>6, <1>10, <1>13, <1>14, <1>15, CallStep

\* A caller that moves or returns, its connection left alone or dropped.
LEMMA CallerStep ==
  ASSUME IInv, NEW c \in Callers, NEW at \in {"idle", "held", "reading", "joining"},
         NEW result \in Text, NEW r \in {req[c], NoRequest,
           [NoRequest EXCEPT !.at = "accepted", !.kind = RefreshKind]},
         call[c].at # "idle",
         call' = [call EXCEPT ![c] = [call[c] EXCEPT !.at = at, !.result = result]],
         req' = [req EXCEPT ![c] = r],
         UNCHANGED <<life, version>>,
         thread' \in BOOLEAN, ~thread => ~thread', ~thread' => ~thread \/ worker = "finished",
         terminal # Nothing => terminal' # Nothing,
         result = "changed" =>
           \/ call[c].result = "changed"
           \/ call[c].at = "reading" /\ req[c].answer = "200",
         at = "reading" => worker = "serving" /\ r.at = "accepted" /\ r.answer = Nothing,
         r \notin {req[c], NoRequest} => at = "reading",
         at = "idle" /\ result = "closed" =>
           worker = "finished" /\ terminal' # Nothing /\ ~thread'
  PROVE  IInv'
<1> DEFINE new == [call[c] EXCEPT !.at = at, !.result = result]
           fresh == [NoRequest EXCEPT !.at = "accepted", !.kind = RefreshKind]
<1>1. /\ new \in CallType /\ new.at = at /\ new.result = result
      /\ new.since = call[c].since /\ new.since \in Nat /\ new.since <= version
  <2>1. call[c] \in CallType /\ call[c].since <= version BY DEF IInv, TransportTypeOK, Calls
  <2> QED BY <2>1 DEF CallType
<1>2. c \in Conns /\ version \in Nat /\ host = "running"
  BY DEF IInv, TransportTypeOK, Conns, Life
<1>3. req[c] \in RequestType /\ Sound(options, req[c], version) BY <1>2, Known
<1>4. fresh \in RequestType
  BY DEF NoRequest, RequestType, Stages, Text, AnyKind
<1>5. /\ fresh.at = "accepted" /\ fresh.kind = RefreshKind /\ ~fresh.sent /\ ~fresh.ran
      /\ ~fresh.brought /\ fresh.answer = Nothing /\ ~fresh.cors
  BY DEF NoRequest
<1>6. NoRequest \in RequestType /\ Sound(options, NoRequest, version)
      /\ NoRequest.at = "idle" /\ NoRequest.answer = Nothing
  BY <1>2, NoRequestSound DEF NoRequest
<1> HIDE DEF fresh, new
<1>7. Sound(options, fresh, version)
  BY <1>5 DEF Sound, Forwarding, AnyKind
<1>8. r \in {req[c], NoRequest, fresh} BY DEF fresh
<1>9. r \in RequestType /\ Sound(options, r, version)
  BY <1>3, <1>4, <1>6, <1>7, <1>8
<1>11. InProgress(c) \/ worker = "serving" \/ r.at \in {"idle", "done"}
  BY <1>6, <1>8 DEF InProgress, fresh
<1>12. new.result = "changed" => new.since < version
  BY <1>1 DEF IInv, Calls
<1>13. /\ host = "starting" => thread'
       /\ host = "running" /\ ~thread' => worker = "finished"
       /\ ~thread => ~thread'
  BY <1>2 DEF IInv, Life
<1>14. call' = [call EXCEPT ![c] = new] BY DEF new
<1>15. /\ new.at = "reading" => r.at = "accepted" /\ r.answer = Nothing
       /\ new.at # "idle" => host = "running"
       /\ new.result = "closed" /\ new.at = "idle" =>
            worker = "finished" /\ terminal' # Nothing /\ ~thread'
  BY <1>1, <1>2
<1>16. /\ new \in CallType /\ new.since <= version /\ UNCHANGED <<life, version>>
       /\ thread' \in BOOLEAN /\ (terminal # Nothing => terminal' # Nothing)
       /\ req' = [req EXCEPT ![c] = r]
  BY <1>1
<1> QED BY <1>9, <1>11, <1>12, <1>13, <1>14, <1>15, <1>16, CallStep

\* A caller whose step leaves the connections and the thread alone.
LEMMA QuietStep ==
  ASSUME IInv, NEW c \in Callers, NEW at \in {"idle", "held", "joining"},
         NEW result \in Text, call[c].at # "idle",
         call' = [call EXCEPT ![c] = [call[c] EXCEPT !.at = at, !.result = result]],
         UNCHANGED <<life, thread, proxy>>, terminal # Nothing => terminal' # Nothing,
         result = "changed" => call[c].result = "changed",
         at = "idle" => result # "closed"
  PROVE  IInv'
<1>1. req' = [req EXCEPT ![c] = req[c]] BY DEF IInv, TransportTypeOK, Conns, proxy
<1>2. UNCHANGED <<life, version>> /\ thread' = thread /\ thread' \in BOOLEAN
  BY DEF proxy, IInv, TransportTypeOK
<1> DEFINE r == req[c]
<1>3. r \in {req[c], NoRequest, [NoRequest EXCEPT !.at = "accepted", !.kind = RefreshKind]}
      /\ r = req[c]
  OBVIOUS
<1> HIDE DEF r
<1>4. /\ at \in {"idle", "held", "reading", "joining"}
      /\ at = "reading" => worker = "serving" /\ r.at = "accepted" /\ r.answer = Nothing
      /\ r \notin {req[c], NoRequest} => at = "reading"
      /\ at = "idle" /\ result = "closed" =>
           worker = "finished" /\ terminal' # Nothing /\ ~thread'
      /\ result = "changed" =>
           \/ call[c].result = "changed"
           \/ call[c].at = "reading" /\ req[c].answer = "200"
  BY <1>3
<1>5. req' = [req EXCEPT ![c] = r] BY <1>1, <1>3
<1>6. (~thread => ~thread') /\ (~thread' => ~thread \/ worker = "finished") BY <1>2
<1> QED BY <1>2, <1>3, <1>4, <1>5, <1>6, CallerStep

LEMMA LockStep ==
  ASSUME IInv, NEW c \in Callers, Lock(c)
  PROVE  IInv'
<1> DEFINE result == call[c].result
<1>1. call[c] \in CallType /\ result \in Text
  BY DEF IInv, TransportTypeOK, CallType
<1>2. result = "changed" => call[c].result = "changed" OBVIOUS
<1>3. call' = [call EXCEPT ![c] = [call[c] EXCEPT !.at = "held", !.result = result]]
  BY <1>1 DEF Lock, CallType
<1> HIDE DEF result
<1> QED BY <1>1, <1>2, <1>3, QuietStep DEF Lock

LEMMA CloseBeginsStep ==
  ASSUME IInv, NEW c \in Callers, CloseBegins(c)
  PROVE  IInv'
<1> DEFINE result == call[c].result
<1>1. call[c] \in CallType /\ result \in Text
  BY DEF IInv, TransportTypeOK, CallType
<1>2. result = "changed" => call[c].result = "changed" OBVIOUS
<1>3. call' = [call EXCEPT ![c] = [call[c] EXCEPT !.at = "joining", !.result = result]]
  BY <1>1 DEF CloseBegins, CallType
<1>4. terminal # Nothing => terminal' # Nothing BY DEF CloseBegins, Record
<1> HIDE DEF result
<1> QED BY <1>1, <1>2, <1>3, <1>4, QuietStep DEF CloseBegins

LEMMA RefreshFailsStep ==
  ASSUME IInv, NEW c \in Callers, RefreshFails(c)
  PROVE  IInv'
<1>1. call' = [call EXCEPT ![c] = [call[c] EXCEPT !.at = "idle", !.result = "error"]]
  BY DEF RefreshFails, Done
<1>2. "error" \in Text BY DEF Text, Texts
<1> QED BY <1>1, <1>2, QuietStep DEF RefreshFails

LEMMA RefreshBeginsStep ==
  ASSUME IInv, NEW c \in Callers, RefreshBegins(c)
  PROVE  IInv'
<1> DEFINE result == call[c].result
           r == [NoRequest EXCEPT !.at = "accepted", !.kind = RefreshKind]
<1>1. call[c] \in CallType /\ result \in Text
  BY DEF IInv, TransportTypeOK, CallType
<1>2. call' = [call EXCEPT ![c] = [call[c] EXCEPT !.at = "reading", !.result = result]]
  BY <1>1 DEF RefreshBegins, CallType
<1>3. /\ call[c].at = "held" /\ worker = "serving" /\ req' = [req EXCEPT ![c] = r]
      /\ UNCHANGED <<life, shutdown, thread, terminal, lock, pool, version>>
  BY DEF RefreshBegins
<1>4. r.at = "accepted" /\ r.answer = Nothing BY DEF NoRequest
<1>5. /\ UNCHANGED <<life, version>> /\ thread' \in BOOLEAN
      /\ terminal # Nothing => terminal' # Nothing
      /\ ~thread => ~thread'
      /\ ~thread' => ~thread \/ worker = "finished"
  BY <1>3 DEF IInv, TransportTypeOK
<1>6. result = "changed" => \/ call[c].result = "changed"
                            \/ call[c].at = "reading" /\ req[c].answer = "200"
  OBVIOUS
<1>7. r \in {req[c], NoRequest, [NoRequest EXCEPT !.at = "accepted", !.kind = RefreshKind]}
  OBVIOUS
<1> HIDE DEF r, result
<1> QED BY <1>1, <1>2, <1>3, <1>4, <1>5, <1>6, <1>7, CallerStep

\* The end of a refresh, which drops its connection.
LEMMA RefreshEnds ==
  ASSUME IInv, NEW c \in Callers, NEW result \in {"changed", "unchanged", "error"},
         call[c].at = "reading", result = "changed" => req[c].answer = "200",
         Done(c, result), req' = [req EXCEPT ![c] = NoRequest],
         UNCHANGED <<life, shutdown, thread, terminal, pool, version>>
  PROVE  IInv'
<1> DEFINE r == NoRequest
<1>1. call' = [call EXCEPT ![c] = [call[c] EXCEPT !.at = "idle", !.result = result]]
  BY DEF Done
<1>2. /\ UNCHANGED <<life, version>> /\ thread' \in BOOLEAN
      /\ terminal # Nothing => terminal' # Nothing
      /\ ~thread => ~thread'
      /\ ~thread' => ~thread \/ worker = "finished"
  BY DEF IInv, TransportTypeOK
<1>3. result = "changed" => \/ call[c].result = "changed"
                            \/ call[c].at = "reading" /\ req[c].answer = "200"
  OBVIOUS
<1>4. /\ r \in {req[c], NoRequest, [NoRequest EXCEPT !.at = "accepted", !.kind = RefreshKind]}
      /\ req' = [req EXCEPT ![c] = r] /\ r \in {req[c], NoRequest}
  OBVIOUS
<1>5. result \in Text BY DEF Text, Texts
<1> HIDE DEF r
<1> QED BY <1>1, <1>2, <1>3, <1>4, <1>5, CallerStep

LEMMA RefreshReturnsStep ==
  ASSUME IInv, NEW c \in Callers, RefreshReturns(c)
  PROVE  IInv'
<1> DEFINE result == Refreshed(req[c].answer)
<1>1. /\ result \in {"changed", "unchanged", "error"}
      /\ result = "changed" => req[c].answer = "200"
  BY DEF Refreshed
<1>2. Done(c, result) BY DEF RefreshReturns
<1> HIDE DEF result
<1> QED BY <1>1, <1>2, RefreshEnds DEF RefreshReturns

LEMMA RefreshTimesOutStep ==
  ASSUME IInv, NEW c \in Callers, RefreshTimesOut(c)
  PROVE  IInv'
BY RefreshEnds DEF RefreshTimesOut

LEMMA CloseJoinsStep ==
  ASSUME IInv, NEW c \in Callers, CloseJoins(c)
  PROVE  IInv'
<1> DEFINE r == req[c]
<1>1. call' = [call EXCEPT ![c] = [call[c] EXCEPT !.at = "idle", !.result = "closed"]]
  BY DEF CloseJoins, Done
<1>2. call[c].at = "joining" /\ host = "running" BY DEF CloseJoins, IInv, Life
<1>3. worker = "finished" BY <1>2 DEF CloseJoins, IInv, Life
<1>4. terminal' # Nothing BY NoneIsNoText DEF CloseJoins, Record
<1>5. /\ UNCHANGED <<life, version>> /\ thread' \in BOOLEAN /\ ~thread'
  BY DEF CloseJoins, proxy
<1>6. req \in [Conns -> RequestType] /\ c \in Conns BY DEF IInv, TransportTypeOK, Conns
<1>7. req' = [req EXCEPT ![c] = r] BY <1>6 DEF CloseJoins, proxy
<1>8. /\ r \in {req[c], NoRequest, [NoRequest EXCEPT !.at = "accepted", !.kind = RefreshKind]}
      /\ r \in {req[c], NoRequest}
  OBVIOUS
<1>9. "closed" \in Text BY DEF Text, Texts
<1> HIDE DEF r
<1> QED BY <1>1, <1>2, <1>3, <1>4, <1>5, <1>7, <1>8, <1>9, CallerStep

LEMMA CallingStep ==
  ASSUME IInv, NEW c \in Callers, Calling(c)
  PROVE  IInv'
BY LockStep, RefreshBeginsStep, RefreshFailsStep, RefreshReturnsStep, RefreshTimesOutStep,
   CloseBeginsStep, CloseJoinsStep DEF Calling

-----------------------------------------------------------------------------
(* The worker and the host.                                                *)

\* A step that leaves the calls alone, and the connections or what they see.
LEMMA LifeStep ==
  ASSUME IInv, UNCHANGED <<options, version, call, req>>, thread' \in BOOLEAN,
         Life', CloseStopsWorker', worker' \in {"none", "init"} => version = 0
  PROVE  IInv'
<1>1. TransportTypeOK' BY DEF IInv, TransportTypeOK
<1>2. Connections' BY DEF IInv, Connections
<1>3. Calls' BY DEF IInv, Calls
<1> QED BY <1>1, <1>2, <1>3 DEF IInv

LEMMA StartStep ==
  ASSUME IInv, Start
  PROVE  IInv'
<1>1. /\ host = "none" /\ worker = "none" /\ version = 0
      /\ UNCHANGED <<options, version, call, req>>
  BY DEF Start, proxy, IInv, Life, Calls
<1>2. thread' \in BOOLEAN BY DEF Start, IInv, TransportTypeOK
<1>3. \/ worker' = "none" /\ host' = "failed"
      \/ worker' = "init" /\ host' = "foreground"
      \/ worker' = "init" /\ host' = "starting" /\ thread'
  BY <1>1 DEF Start
<1>4. Life' BY <1>1, <1>3 DEF IInv, Life
<1>5. CloseStopsWorker' BY <1>1 DEF IInv, CloseStopsWorker
<1> QED BY <1>1, <1>2, <1>3, <1>4, <1>5, LifeStep

LEMMA InitSucceedsStep ==
  ASSUME IInv, InitSucceeds
  PROVE  IInv'
<1> USE DEF handle
<1>1. /\ worker = "init" /\ worker' = "serving" /\ version = 0 /\ version' = 1
      /\ UNCHANGED <<options, host, outcome, handle, pool, req>>
  BY DEF InitSucceeds, IInv, Calls
<1>2. TransportTypeOK' BY <1>1 DEF IInv, TransportTypeOK
<1>3. Connections'
  <2> SUFFICES ASSUME NEW c \in Conns PROVE Sound(options, req[c], version')
    BY <1>1 DEF Connections
  <2>1. version <= version' /\ version' \in Nat BY <1>1
  <2> QED BY <2>1, Known, SoundLater
<1>4. Calls'
  <2>1. \A c \in Callers : call[c].since \in Nat BY DEF IInv, TransportTypeOK, CallType
  <2> QED BY <1>1, <2>1 DEF IInv, Calls
<1>5. Life' BY <1>1 DEF IInv, Life
<1>6. CloseStopsWorker' BY <1>1 DEF IInv, CloseStopsWorker
<1> QED BY <1>2, <1>3, <1>4, <1>5, <1>6 DEF IInv

\* What run() drops on its way out is over, and stays what it was otherwise.
LEMMA ReturnStep ==
  ASSUME IInv, NEW result, Return(result), worker \in {"init", "serving", "closing"}
  PROVE  IInv'
<1> USE DEF handle
<1>1. /\ worker' = "stopping" /\ req' = Dropped
      /\ UNCHANGED <<options, host, handle, pool, version>>
  BY DEF Return
<1>2. /\ req \in [Conns -> RequestType] /\ call \in [Callers -> CallType]
      /\ version \in Nat /\ Callers \subseteq Conns
  BY DEF IInv, TransportTypeOK, Conns
<1>3. ASSUME NEW c \in Conns
      PROVE  /\ req'[c] \in RequestType /\ Sound(options, req'[c], version)
             /\ req'[c].at \in {"idle", "done"}
             /\ req'[c].answer = "200" => req[c].answer = "200"
  <2>1. req'[c] = IF InProgress(c) THEN Over(req[c], "dropped") ELSE req[c]
    BY <1>1 DEF Dropped
  <2>2. CASE InProgress(c)
    <3> DEFINE r == req[c]
    <3>1. r \in RequestType /\ Sound(options, r, version) /\ r.at # "idle"
      BY <2>2, Known DEF InProgress
    <3> HIDE DEF r
    <3>2. /\ Over(r, "dropped") \in RequestType /\ Sound(options, Over(r, "dropped"), version)
          /\ Over(r, "dropped").at = "done" /\ Over(r, "dropped").answer = "dropped"
      BY <1>2, <3>1, OverSound DEF Texts
    <3> QED BY <2>1, <2>2, <3>2 DEF r
  <2>3. CASE ~InProgress(c)
    BY <2>1, <2>3, Known DEF InProgress
  <2> QED BY <2>2, <2>3
<1>4. req' \in [Conns -> RequestType] BY <1>1, <1>3 DEF Dropped
<1>5. TransportTypeOK' BY <1>1, <1>4 DEF IInv, TransportTypeOK
<1>6. Connections' BY <1>1, <1>3 DEF Connections
<1>7. Calls' BY <1>1, <1>2, <1>3 DEF IInv, Calls
<1>8. \A c \in Conns : ~InProgress(c)' BY <1>3 DEF InProgress
<1>9. Life' BY <1>1, <1>8 DEF IInv, Life
<1>10. CloseStopsWorker' BY <1>1 DEF IInv, CloseStopsWorker
<1> QED BY <1>5, <1>6, <1>7, <1>9, <1>10 DEF IInv

LEMMA WorkerStep ==
  ASSUME IInv, Worker
  PROVE  IInv'
<1>1. CASE Start BY <1>1, StartStep
<1>2. CASE InitSucceeds BY <1>2, InitSucceedsStep
<1>3. CASE InitFails BY <1>3, ReturnStep DEF InitFails
<1>4. CASE Panics BY <1>4, ReturnStep DEF Panics
<1>5. CASE Drained BY <1>5, ReturnStep DEF Drained
<1>6. CASE BudgetSpent BY <1>6, ReturnStep DEF BudgetSpent
<1>7. CASE Shutdown
  <2>1. /\ worker = "serving" /\ worker' = "closing"
        /\ UNCHANGED <<options, host, outcome, ready, handle, version, req>>
    BY <1>7 DEF Shutdown
  <2>2. Life' BY <2>1 DEF IInv, Life, handle
  <2>3. CloseStopsWorker' BY <2>1 DEF IInv, CloseStopsWorker, handle
  <2> QED BY <2>1, <2>2, <2>3, LifeStep DEF IInv, TransportTypeOK, handle
<1>8. CASE WorkerEnds
  <2>1. /\ worker = "stopping" /\ worker' = "finished"
        /\ UNCHANGED <<options, host, outcome, ready, shutdown, thread, lock, call, proxy>>
    BY <1>8 DEF WorkerEnds
  <2>2. Life' BY <2>1 DEF IInv, Life, InProgress, proxy
  <2>3. CloseStopsWorker' BY <2>1 DEF IInv, CloseStopsWorker
  <2> QED BY <2>1, <2>2, <2>3, LifeStep DEF IInv, TransportTypeOK, proxy
<1>9. CASE StartReturns
  <2>1. /\ host = "starting" /\ thread
        /\ UNCHANGED <<options, worker, outcome, ready, shutdown, terminal, lock, call, proxy>>
        /\ \/ host' = "running" /\ thread'
           \/ host' = "failed" /\ ~thread' /\ worker = "finished"
    BY <1>9 DEF StartReturns, IInv, Life
  <2>2. thread' \in BOOLEAN BY <1>9 DEF StartReturns, IInv, TransportTypeOK
  <2>3. Life' BY <2>1 DEF IInv, Life, InProgress, proxy
  <2>4. CloseStopsWorker' BY <2>1 DEF IInv, CloseStopsWorker
  <2>5. worker' \in {"none", "init"} => version = 0 BY <2>1 DEF IInv, Calls
  <2> QED BY <2>1, <2>2, <2>3, <2>4, <2>5, LifeStep DEF proxy
<1>10. CASE Signal
  <2>1. UNCHANGED <<life, thread, terminal, lock, call, proxy>> BY <1>10 DEF Signal
  <2>2. Life' BY <2>1 DEF IInv, Life, InProgress, proxy, life
  <2>3. CloseStopsWorker' BY <2>1 DEF IInv, CloseStopsWorker, InProgress, proxy, life
  <2>4. worker' \in {"none", "init"} => version = 0 BY <2>1 DEF IInv, Calls, life
  <2> QED BY <2>1, <2>2, <2>3, <2>4, LifeStep DEF IInv, TransportTypeOK, proxy, life
<1>11. CASE Free
  <2>1. /\ host = "running" /\ host' = "freed" /\ thread' = FALSE
        /\ \A c \in Callers : call[c].at = "idle"
        /\ UNCHANGED <<options, worker, outcome, ready, terminal, lock, call, proxy>>
    BY <1>11 DEF Free
  <2>2. Life' BY <2>1 DEF IInv, Life, InProgress, proxy
  <2>3. CloseStopsWorker' BY <2>1 DEF IInv, CloseStopsWorker, InProgress, proxy
  <2>4. worker' \in {"none", "init"} => version = 0 BY <2>1 DEF IInv, Calls
  <2> QED BY <2>1, <2>2, <2>3, <2>4, LifeStep DEF proxy
<1> QED BY <1>1, <1>2, <1>3, <1>4, <1>5, <1>6, <1>7, <1>8, <1>9, <1>10, <1>11 DEF Worker

-----------------------------------------------------------------------------
(* The specification.                                                      *)

LEMMA InitIInv == TransportInit => IInv
<1> SUFFICES ASSUME TransportInit PROVE IInv OBVIOUS
<1>1. \A c \in Conns : req[c] = NoRequest BY DEF TransportInit
<1>2. NoCall \in CallType BY DEF NoCall, CallType, Text
<1>3. TransportTypeOK BY <1>2, NoRequestSound DEF TransportInit, TransportTypeOK
<1>4. Connections BY <1>1, <1>3, NoRequestSound DEF Connections, TransportTypeOK
<1>5. \A c \in Callers : call[c] = NoCall BY DEF TransportInit
<1>6. \A c \in Callers : call[c].at = "idle" /\ call[c].since = 0 /\ call[c].result = Nothing
  BY <1>5 DEF NoCall
<1>7. Calls BY <1>6, NoneIsNoText DEF TransportInit, Calls
<1>8. Life BY <1>6 DEF TransportInit, Life
<1>9. CloseStopsWorker BY <1>6, NoneIsNoText DEF CloseStopsWorker
<1> QED BY <1>3, <1>4, <1>7, <1>8, <1>9 DEF IInv

LEMMA NextIInv == IInv /\ [TransportNext]_transportVars => IInv'
<1> SUFFICES ASSUME IInv, [TransportNext]_transportVars PROVE IInv' OBVIOUS
<1>1. CASE UNCHANGED transportVars
  <2>1. UNCHANGED <<options, version, call, req>> /\ thread' \in BOOLEAN
        /\ (worker' \in {"none", "init"} => version = 0)
    BY <1>1 DEF transportVars, IInv, TransportTypeOK, Calls
  <2>2. Life' BY <1>1 DEF transportVars, IInv, Life, InProgress
  <2>3. CloseStopsWorker' BY <1>1 DEF transportVars, IInv, CloseStopsWorker, InProgress
  <2> QED BY <2>1, <2>2, <2>3, LifeStep
<1>2. CASE Worker BY <1>2, WorkerStep
<1>3. ASSUME NEW c \in Callers, Calling(c) PROVE IInv' BY <1>3, CallingStep
<1>4. ASSUME NEW c \in Callers, NEW op \in {"refresh", "close"}, Call(c, op) PROVE IInv'
  BY <1>4, CallBegins
<1>5. ASSUME NEW c \in Conns, Connection(c) PROVE IInv' BY <1>5, ConnectionInv
<1>6. CASE ActivateAside BY <1>6, AsideStep
<1>7. CASE Ended BY <1>1, <1>7 DEF Ended
<1> QED BY <1>1, <1>2, <1>3, <1>4, <1>5, <1>6, <1>7 DEF TransportNext

LEMMA Invariant == TransportSpec => []IInv
BY InitIInv, NextIInv, PTL DEF TransportSpec

\* For any number of callers and connections: once a stogas_transport_close()
\* has returned "closed", the worker has ended, no request is in progress, the
\* handle reports a terminal error, and no thread is left to join, whatever
\* other calls, signals, panics and spent budgets came before.
THEOREM ClosedMeansStopped == TransportSpec => []CloseStopsWorker
<1>1. IInv => CloseStopsWorker BY DEF IInv
<1> QED BY <1>1, Invariant, PTL

\* For any configuration and any kind of request: an error that says
\* "not_sent" means that the gateway neither has nor will have processed the
\* request, unless its response had no body and was labelled an event stream
\* (the one error after submission that Failure::encrypted does not name); what reaches the gateway went through every check of route(), and
\* no page other than the allowed one can read an answer.
THEOREM ErrorsTellTheTruth == TransportSpec => []SubmissionTruthful
<1>1. IInv => SubmissionTruthful
  <2> SUFFICES ASSUME IInv, NEW c \in Conns
               PROVE  LET k == req[c].kind
                          page == options.browser_origin
                          allowed(origins) == page # Nothing => origins = <<page.name>>
                      IN  /\ req[c].answer = "not_sent" /\ ~req[c].mislabelled =>
                                ~req[c].sent /\ ~req[c].ran
                          /\ req[c].sent => /\ k.hosts = <<"own">> /\ ~k.query /\ k.path = "api"
                                            /\ k.method = "POST"
                                            /\ k.origins = <<>> \/ allowed(k.origins)
                          /\ req[c].cors => k.path # "outside" /\ allowed(k.origins)
    BY Zenon DEF SubmissionTruthful
  <2> DEFINE k == req[c].kind
  <2>1. Sound(options, req[c], version) BY Known
  <2>2. req[c].sent => Inference(options, k) /\ k \in AnyKind BY <2>1 DEF Sound
  <2>3. req[c].cors => Readable(options, k) /\ k \in AnyKind BY <2>1 DEF Sound
  <2>4. req[c].answer = "not_sent" /\ ~req[c].mislabelled => ~req[c].sent /\ ~req[c].ran
    BY <2>1 DEF Sound
  <2> HIDE DEF k
  <2>5. AllowedPage(options, k) /\ k \in AnyKind =>
          (options.browser_origin # Nothing => k.origins = <<options.browser_origin.name>>)
    BY ReadableByPage
  <2>6. req[c].sent => /\ k.hosts = <<"own">> /\ ~k.query /\ k.path = "api"
                       /\ k.method = "POST"
                       /\ \/ k.origins = <<>>
                          \/ options.browser_origin # Nothing =>
                               k.origins = <<options.browser_origin.name>>
    BY <2>2, <2>5 DEF Inference
  <2>7. req[c].cors => /\ k.path # "outside"
                       /\ options.browser_origin # Nothing =>
                            k.origins = <<options.browser_origin.name>>
    BY <2>3, <2>5 DEF Readable
  <2> QED BY <2>4, <2>6, <2>7 DEF k
<1> QED BY <1>1, Invariant, PTL

\* For any number of refreshes at once and any recoveries beside them: a
\* refresh that answers true was called before the bundle last changed, and one
\* that brought a new bundle in is never answered as no change.
THEOREM RefreshesTellTheTruth == TransportSpec => []RefreshTruthful
<1>1. IInv => RefreshTruthful
  <2> SUFFICES ASSUME IInv PROVE RefreshTruthful OBVIOUS
  <2>1. \A c \in Callers : call[c].since \in Nat BY DEF IInv, TransportTypeOK, CallType
  <2>2. \A c \in Callers : call[c].result = "changed" => version > call[c].since
    BY <2>1 DEF IInv, TransportTypeOK, Calls
  <2>3. \A c \in Conns : req[c].brought => req[c].answer # "204"
    BY DEF IInv, Connections, Sound
  <2> QED BY <2>2, <2>3 DEF RefreshTruthful
<1> QED BY <1>1, Invariant, PTL

=============================================================================
