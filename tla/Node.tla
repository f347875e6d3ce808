-------------------------------- MODULE Node --------------------------------
(***************************************************************************)
(* The life of an attested gateway, across the programs that use the       *)
(* verifier.  A guest boots with fresh keys and a challenge of Control,    *)
(* registers, opens its provisioning once, acknowledges it, and has its    *)
(* boot published in the Rekor log.  It then quotes batches of connections *)
(* for clients, who appraise boot and connection together.  Meanwhile      *)
(* bundles replace one another, keys and logs are rotated, firmware is     *)
(* updated and time passes.                                                *)
(*                                                                         *)
(* The verdicts are those of evidence/boot.rs, evidence/snp.rs,            *)
(* evidence/session.rs, evidence/history.rs, gateway.rs and                *)
(* secret_release.rs.  Control, the log and the SNP firmware are outside   *)
(* the repository; they do what the library's documentation asks of them:  *)
(* Control consumes a challenge in the step that registers its boot, and   *)
(* the log integrates a registered boot at some later instant, or never.   *)
(*                                                                         *)
(* A guest stands for one boot of a virtual machine, so that a crash and a *)
(* restart are another guest.  What a guest makes of its keys is a         *)
(* function of the guest, and the state holds only what may vary.  A       *)
(* bundle's digest is its position in Bundles.                             *)
(***************************************************************************)
EXTENDS Release

CONSTANTS
    Guests,             \* boots, each with keys, a report id and a challenge of its own
    Machine,            \* by guest: its report without TCB and data, and its release
    Bundles,            \* the bundles: the n-th is published at the n-th instant
    Freshness,          \* by bundle: Sigstore's snapshot and timestamp when it was published
    Compiled,           \* the TUF root compiled into the verifier
    Environment,        \* production or staging
    RootKey,            \* the root key of that environment
    Times,              \* the instants at which something happens, in milliseconds
    RekorAt,            \* by instant: the log that integrates entries then
    Levels,             \* firmware levels
    Connections,        \* connections that wait for a quote, each with its own challenge
    Own,                \* those of the client that is followed
    CertificateLife,    \* lifetime of a connection's certificate, in milliseconds
    MaxRequests         \* bound: requests that guests sign

\* Time does not run backwards.
ASSUME TimesAssumption ==
    /\ Times \in Seq(Nat) /\ Times # <<>>
    /\ \A m, n \in DOMAIN Times : m <= n => Times[m] <= Times[n]

VARIABLES
    clock,          \* position in Times
    snap,           \* by verifier: the bundle of its current snapshot, 0 if none
    level,          \* level of the platform's firmware
    boot,           \* by guest: the level it booted at, 0 if it has not
    challenges,     \* challenges Control has issued and not consumed
    keyed,          \* guests that still hold their provisioning key
    opened,         \* by guest: how often it opened an envelope
    requests,       \* requests signed by guests, for ever deliverable
    completed,      \* boots whose provisioning Control knows to have arrived
    registered,     \* by guest: the bundle Control registered its boot under, 0 if it has not
    log,            \* the registered boots that the Rekor log has integrated
    batch,          \* the quoted batch of the connections: by whom, when and at which level
    session         \* by connection: what the client verified, if it has

environment == <<clock, level>>
registry == <<boot, challenges, registered, log>>
provisioning == <<keyed, opened, requests, completed>>
channels == <<batch, session>>

vars == <<environment, snap, registry, provisioning, channels>>

Verifiers == {"control", "client"}

now == Times[clock]

\* Which bundles hold at which instants.
BundleHolds ==
    [b \in DOMAIN Bundles, at \in ToSet(Times) |->
       BundleVerifies(Bundles[b], Compiled, Environment, RootKey, at)]

\* SigstoreTrust::verify_current, by which a publisher decides to put out new evidence.
Published ==
    [b \in DOMAIN Bundles |->
       CurrentUpdateVerifies(Compiled, Bundles[b].sigstore, Freshness[b].snapshot,
                             Freshness[b].timestamp, Times[b])]

\* Their platforms and trusted roots.
PlatformsOf == [b \in DOMAIN Bundles |-> Platforms(Bundles[b].rows)]

TrustedRootOf == [b \in DOMAIN Bundles |-> TrustedRoot(Bundles[b].sigstore.trusted_root.content)]

-----------------------------------------------------------------------------
(* What a guest makes.                                                     *)

\* The firmware's report: the launch TCB is the one the guest booted at.
Tcb(n) == <<n, 0, 0, 0, 0, 0, n, n>>

Report(g, launched, current, data) ==
    [Machine[g].report EXCEPT
       !.current_tcb = Tcb(current), !.reported_tcb = Tcb(current),
       !.committed_tcb = Tcb(current), !.launch_tcb = Tcb(launched),
       !.report_data = data,
       !.signature = [key |-> <<"vcek", Machine[g].report.chip, Tcb(current)>>, reserved |-> 0]]

\* NodeKeys::from_seeds and boot_report_data.
BootReportData(g) ==
    [environment |-> Environment, signing |-> <<"signing", g>>, hpke |-> <<"hpke", g>>,
     tls |-> <<"tls", g>>, challenge |-> g]

\* BootReportData::commitment.
Commitment(data) ==
    <<"boot", data.environment, data.signing, data.hpke, data.tls, data.challenge>>

\* NodeKeys::boot_document, over a quote of report_data.
BootDocument(g) ==
    [release |-> ReleaseId(Machine[g].release),
     report |-> Report(g, boot[g], boot[g], Commitment(BootReportData(g))),
     data |-> BootReportData(g)]

\* The digest of a boot document: the challenge names the guest, and the launch TCB is
\* all that varies in what a guest can boot.
Sha256(document) == <<"sha256", document.data.challenge, document.report.launch_tcb>>

\* request_message signed by sign_boot_request: the domain tells the purposes apart.
RequestMessageOfNode(purpose, node, issued) == <<"request", node, issued>>

RequestMessage(purpose, node, issued) == <<purpose, node, issued>>

\* snp_node_id names the report id and nothing else.
SnpNodeId(report) == report.report_id

-----------------------------------------------------------------------------
(* Appraisal of reports under a snapshot.                                  *)

\* The issuer's list, which Revocations keeps; how newer lists are learned, and when they
\* conflict, is the module Evidence's.
CrlOf(rows, issuer) ==
    rows[CHOOSE n \in DOMAIN rows : rows[n].type = "crl" /\ rows[n].der.issuer = issuer].der

\* Revocations::validity.
PlatformValid(platform, crl, at) ==
    /\ platform.ask_serial \notin crl.revoked
    /\ ValidAt(Intersect(platform.certificates, crl.validity), at)

\* Snapshot::collateral_validity: the authorization, the chain and the issuer's list.
CollateralValid(b, chip, tcb, at) ==
    /\ at < Bundles[b].keys.document.expires
    /\ <<chip, tcb>> \in DOMAIN PlatformsOf[b]
    /\ LET platform == PlatformsOf[b][<<chip, tcb>>] IN
       PlatformValid(platform, CrlOf(Bundles[b].rows, platform.issuer), at)

\* What the report must say, given the certificate of its platform.
ReportAllowed(b, report, data, release, vcek) ==
    /\ \E manifest \in GatewayOf(Bundles[b], release) :
          \E launch \in LaunchFor(manifest, ReportProductBinding(vcek, report)) :
             BindingsHold(report, data, manifest.measurement, launch)
    /\ HardwareAllows(Bundles[b].approvals.document.hardware_policy, report)
    /\ SignedBy(report, vcek)

\* Snapshot::verify_snp_report; the snapshot's keys are current.
SnpReportVerifies(b, report, data, release, at) ==
    /\ <<report.chip, report.reported_tcb>> \in DOMAIN PlatformsOf[b]
    /\ ReportAllowed(b, report, data, release,
                     PlatformsOf[b][<<report.chip, report.reported_tcb>>].vcek)
    /\ CollateralValid(b, report.chip, report.reported_tcb, at)

\* Snapshot::verify_boot_report.
BootReportVerifies(b, document, at) ==
    /\ document.data.environment = Bundles[b].keys.document.environment
    /\ SnpReportVerifies(b, document.report, Commitment(document.data), document.release, at)

RegistrationVerifies(b, document, challenge, at) ==
    document.data.challenge = challenge /\ BootReportVerifies(b, document, at)

RegisteredBootVerifies(b, document, digest, at) ==
    Sha256(document) = digest /\ BootReportVerifies(b, document, at)

\* VerifiedRegistration::registered_facts: what Control keeps.
RegisteredFacts(document) ==
    [node_id |-> SnpNodeId(document.report), chip |-> document.report.chip,
     release |-> document.release, hardware |-> FromReport(document.report)]

\* Snapshot::appraise_registered_boot without the list of releases.
RegisteredAnyRelease(b, facts, at) ==
    /\ FactsAllowed(Bundles[b].approvals.document.hardware_policy, facts.chip, facts.hardware)
    /\ CollateralValid(b, facts.chip, ReportedTcb(facts.hardware), at)

\* Snapshot::appraise_registered_boot.
RegisteredAllowed(b, facts, at) ==
    /\ GatewayOf(Bundles[b], facts.release) # {}
    /\ FactsAllowed(Bundles[b].approvals.document.hardware_policy, facts.chip, facts.hardware)
    /\ CollateralValid(b, facts.chip, ReportedTcb(facts.hardware), at)

-----------------------------------------------------------------------------
(* Boots in the log.                                                       *)

\* BootPublication with Control's signature.
Publication(document, evidence) == [boot |-> Sha256(document), evidence |-> evidence]

\* A document with its signature by a key, as Control signs.
WithSignature(document, key) ==
    [document |-> document,
     signature |-> [key_id |-> key.key_id, value |-> Signature(key.public_key, document)]]

\* What Rekor stores of a signed document, by the same key's Rekor half.
HashedRekord(signed, rekor) ==
    [kind |-> "hashedrekord", digest |-> signed, key |-> rekor,
     signature |-> Signature(rekor, signed)]

RekorBody(entry) ==
    HashedRekord(
        WithSignature(Publication(BootDocument(entry.guest), entry.evidence),
                      Bundles[entry.evidence].keys.document.active_key),
        Bundles[entry.evidence].keys.document.active_key.public_key)

\* An entry as Rekor returns it: the last of a tree of n, with promise, audit path and
\* checkpoint.
LogEntry(kind, body, n, tree, integrated, shard) ==
    [kind |-> kind, log |-> shard.id, integrated |-> integrated, index |-> n - 1, body |-> body,
     promise |-> <<Signature(shard.spki, <<"set", body, integrated, n - 1, shard.id>>)>>,
     proof |-> <<[index |-> n - 1, size |-> n, root |-> tree.root, hashes |-> tree.paths[n],
                  checkpoint |->
                    [origin |-> "rekor.sigstore.dev", size |-> n, root |-> tree.root,
                     signatures |-> <<[hint |-> shard.id[1],
                                       signature |-> Signature(shard.spki,
                                                       <<"checkpoint", n, tree.root>>)],
                                      [hint |-> "w", signature |-> Signature("witness", <<>>)]>>]]>>]

\* The tree that ends with the n-th boot.
RekorEntry(n) ==
    LogEntry("hashedrekord", RekorBody(log[n]), n,
             Subtree([i \in 1 .. n |-> LeafHash(RekorBody(log[i]))]),
             Seconds(log[n].at), RekorAt[log[n].at])

InclusionOf(entry) ==
    [entries |-> <<entry>>, digest |-> entry.body.digest, hint |-> entry.body.key,
     signature |-> entry.body.signature]

\* BootInclusion of the n-th boot.
BootInclusionOf(evidence, inclusion) ==
    [evidence |-> evidence, signature |-> inclusion.digest.signature, inclusion |-> inclusion]

BootInclusion(n) == BootInclusionOf(log[n].evidence, InclusionOf(RekorEntry(n)))

Position(g) == CHOOSE n \in DOMAIN log : log[n].guest = g

IsLogged(g) == \E n \in DOMAIN log : log[n].guest = g

\* The signers verify_logged_boot looks through, and the active one alone.
ActiveSigner(document) == {document.active_key}

HistorySigners(document) == ToSet(OperationalKeys(document))

\* Snapshot::verify_logged_boot.
LoggedBootVerifies(b, document, proof, at) ==
    LET signed == [document |-> Publication(document, proof.evidence),
                   signature |-> proof.signature, inclusion |-> proof.inclusion]
    IN  /\ \E signer \in HistorySigners(Bundles[b].keys.document) : DocumentSigned(signed, signer)
        /\ DocumentPublished(signed, at, TrustedRootOf[b])
        /\ BootReportVerifies(b, document, at)

\* The clock of a historical appraisal: the log's time, and not the caller's.
ArchiveAtNow(proof, at) == at

ArchiveTime(proof, at) == 1000 * proof.inclusion.entries[1].integrated

\* Verifier::verify_boot_archive with the bundle it is given, by a verifier that has
\* learned nothing else.
BootArchiveVerifies(document, proof, b, at) ==
    LET then == ArchiveTime(proof, at) IN
    /\ Len(proof.inclusion.entries) = 1
    /\ 0 < then /\ then <= at
    /\ BundleHolds[b, then]
    /\ b = proof.evidence
    /\ LoggedBootVerifies(b, document, proof, then)
    /\ 1000 * proof.inclusion.entries[1].integrated = then

-----------------------------------------------------------------------------
(* Connections.                                                            *)

\* The leaf a guest commits for a connection, with a key made for it alone.
Signer(g, c) == <<"tls-key", g, c>>

Leaf(g, c) == TlsLeaf(Environment, Sha256(BootDocument(g)), c, Signer(g, c))

Waiting == SetToSeq(Connections)

Batch(g) == QuoteBatch([n \in DOMAIN Waiting |-> Leaf(g, Waiting[n])])

\* session_evidence in the certificate for the n-th connection of the batch, with the boot
\* and the inclusion of some logged guest.
QuotedCertificate(n, h, quote, quoted) ==
    [signer |-> Signer(quote.guest, Waiting[n]),
     validity |-> [start |-> quote.at, end |-> quote.at + CertificateLife],
     report |-> Report(quote.guest, boot[quote.guest], quote.level, quoted.data),
     proof |-> quoted.proofs[n],
     document |-> BootDocument(h),
     inclusion |-> BootInclusion(Position(h))]

Certificate(n, h) == QuotedCertificate(n, h, batch[1], Batch(batch[1].guest))

\* verify_channel_binding.
UnboundChallenge(certificate, challenge) ==
    \E other \in Connections :
        VerifyLeaf(certificate.proof,
            TlsLeaf(Environment, Sha256(certificate.document), other, certificate.signer),
            certificate.report.report_data)

ChannelBound(certificate, challenge) ==
    VerifyLeaf(certificate.proof,
        TlsLeaf(Environment, Sha256(certificate.document), challenge, certificate.signer),
        certificate.report.report_data)

\* Snapshot::appraise_session: the logged boot, and a report of the same guest and chip
\* that the boot's release allows.
SessionAppraised(b, certificate, at) ==
    LET live == certificate.report
        first == certificate.document.report
    IN  /\ LoggedBootVerifies(b, certificate.document, certificate.inclusion, at)
        /\ SnpReportVerifies(b, live, live.report_data, certificate.document.release, at)
        /\ live.report_id = first.report_id /\ live.chip = first.chip

\* Snapshot::verify_native_certificate over ParsedNativeCertificate::parse and valid_at.
NativeCertificateVerifies(b, certificate, challenge, at) ==
    /\ ValidAt(certificate.validity, at)
    /\ ProofDecodes(certificate.proof)
    /\ ChannelBound(certificate, challenge)
    /\ SessionAppraised(b, certificate, at)

\* Snapshot::check_session: deadlines and lists for both reports, nothing immutable.
SessionCheckedBootOnly(b, certificate, at) ==
    CollateralValid(b, certificate.document.report.chip,
                    certificate.document.report.reported_tcb, at)

SessionChecked(b, certificate, at) ==
    \A report \in {certificate.document.report, certificate.report} :
        CollateralValid(b, report.chip, report.reported_tcb, at)

CertificateOf(c) == Certificate(session[c][1].leaf, session[c][1].boot)

-----------------------------------------------------------------------------
(* Steps of the environment and of the verifiers.                          *)

Init ==
    /\ clock = 1 /\ level = 1
    /\ snap = [v \in Verifiers |-> 0]
    /\ boot = [g \in Guests |-> 0] /\ challenges = {}
    /\ registered = [g \in Guests |-> 0] /\ log = <<>>
    /\ keyed = {} /\ opened = [g \in Guests |-> 0] /\ requests = {} /\ completed = {}
    /\ batch = <<>> /\ session = [c \in Own |-> <<>>]

Tick ==
    /\ clock < Len(Times)
    /\ clock' = clock + 1
    /\ UNCHANGED <<level, snap, registry, provisioning, channels>>

UpdateFirmware ==
    /\ level + 1 \in Levels
    /\ level' = level + 1
    /\ UNCHANGED <<clock, snap, registry, provisioning, channels>>

\* Verifier::refresh with the newest bundle.
Refresh(v) ==
    /\ snap[v] < clock
    /\ Published[clock] /\ BundleHolds[clock, now]
    /\ snap' = [snap EXCEPT ![v] = clock]
    /\ UNCHANGED <<environment, registry, provisioning, channels>>

-----------------------------------------------------------------------------
(* Registration and provisioning.                                          *)

\* A guest gets a challenge, makes its keys and quotes its boot.
Boot(g) ==
    /\ boot[g] = 0
    /\ boot' = [boot EXCEPT ![g] = level]
    /\ challenges' = challenges \cup {g}
    /\ keyed' = keyed \cup {g}
    /\ UNCHANGED <<environment, snap, registered, log, opened, requests, completed, channels>>

\* The certificate request a guest makes with its TLS key.
Csr(g) ==
    [version |-> 1, algorithm |-> "ecdsa-p256-sha256", key |-> <<"tls", g>>,
     signed_by |-> <<"tls", g>>, subject |-> <<[type |-> "cn", value |-> Environment]>>,
     attributes |-> <<[extensions |-> <<"san">>,
                       names |-> <<[type |-> "dns", value |-> Environment]>>]>>]

\* Control's transaction: verify_registration and verify_csr, the challenge consumed and
\* the provisioning sealed.  The answer may be lost; a retry finds the challenge gone and
\* is given what this step made.
Register(g, challenge) ==
    /\ boot[g] # 0 /\ snap["control"] # 0
    /\ challenge \in challenges
    /\ RegistrationVerifies(snap["control"], BootDocument(g), challenge, now)
    /\ CsrVerifies(Csr(g), BootReportData(g).tls, Environment)
    /\ challenges' = challenges \ {challenge}
    /\ registered' = [registered EXCEPT ![g] = snap["control"]]
    /\ UNCHANGED <<environment, snap, boot, log, provisioning, channels>>

\* The log integrates the publication of a registered boot, which Control signed under the
\* evidence of the registration.  Nothing looks at that evidence again, whatever expired
\* and whichever log took over since.
Publish(g) ==
    /\ registered[g] # 0 /\ ~ IsLogged(g)
    /\ log' = Append(log, [guest |-> g, evidence |-> registered[g], at |-> now])
    /\ UNCHANGED <<environment, snap, boot, challenges, registered, provisioning, channels>>

\* seal_provisioning for the boot h.
Envelope(h) == [boot |-> Sha256(BootDocument(h)), recipient |-> BootReportData(h).hpke]

\* secret_release::open_provisioning: the envelope's boot, and its key.
EnvelopeOpens(g, envelope) ==
    envelope.boot = Sha256(BootDocument(g)) /\ envelope.recipient = BootReportData(g).hpke

\* NodeKeys::open_provisioning that leaves the key in place.
OpenKeepingKey(g, h) ==
    /\ boot[g] # 0 /\ registered[h] # 0 /\ opened[g] < 2
    /\ g \in keyed
    /\ EnvelopeOpens(g, Envelope(h))
    /\ opened' = [opened EXCEPT ![g] = @ + 1]
    /\ UNCHANGED <<environment, snap, registry, keyed, requests, completed, channels>>

\* NodeKeys::open_provisioning of an envelope that may come late, twice or be another
\* boot's; success erases the key, a rejected envelope changes nothing.
Open(g, h) ==
    /\ boot[g] # 0 /\ registered[h] # 0
    /\ g \in keyed
    /\ EnvelopeOpens(g, Envelope(h))
    /\ opened' = [opened EXCEPT ![g] = @ + 1]
    /\ keyed' = keyed \ {g}
    /\ UNCHANGED <<environment, snap, registry, requests, completed, channels>>

\* sign_boot_request.  It signs whatever purpose it is given; that the acknowledgement
\* waits for the provisioning, as a renewal does not, is the gateway program's part.
Sign(g, purpose) ==
    /\ boot[g] # 0
    /\ purpose = "complete" => opened[g] > 0
    /\ Cardinality(requests) < MaxRequests
    /\ requests' = requests \cup {[guest |-> g, purpose |-> purpose, issued |-> now]}
    /\ UNCHANGED <<environment, snap, registry, keyed, opened, completed, channels>>

RequestSignature(r) ==
    Signature(BootReportData(r.guest).signing,
              RequestMessage(r.purpose, Machine[r.guest].report.report_id, r.issued))

\* verify_boot_request, with the identity and the key of a verified boot.
BOOT_REQUEST_WINDOW == 300000

BootRequestVerifies(r, document, at, purpose) ==
    /\ Machine[r.guest].report.report_id = SnpNodeId(document.report)
    /\ r.issued > 0
    /\ at - r.issued <= BOOT_REQUEST_WINDOW /\ r.issued - at <= BOOT_REQUEST_WINDOW
    /\ RequestSignature(r) =
          Signature(document.data.signing,
                    RequestMessage(purpose, SnpNodeId(document.report), r.issued))

\* Control takes an acknowledgement, once or more often.
Complete(g, r) ==
    /\ registered[g] # 0 /\ g \notin completed
    /\ BootRequestVerifies(r, BootDocument(g), now, "complete")
    /\ completed' = completed \cup {g}
    /\ UNCHANGED <<environment, snap, registry, keyed, opened, requests, channels>>

-----------------------------------------------------------------------------
(* Connections.                                                            *)

\* quote_batch over the connections that wait, in one report of the present firmware.
Quote(g) ==
    /\ IsLogged(g) /\ batch = <<>>
    /\ QuoteBatchOk(Waiting)
    /\ batch' = <<[guest |-> g, level |-> level, at |-> now]>>
    /\ UNCHANGED <<environment, snap, registry, provisioning, session>>

\* A client takes the n-th certificate of the batch, which carries the boot of h, for its
\* connection.
Verify(c, n, h) ==
    /\ session[c] = <<>> /\ snap["client"] # 0
    /\ batch # <<>> /\ IsLogged(h)
    /\ NativeCertificateVerifies(snap["client"], Certificate(n, h), c, now)
    /\ session' = [session EXCEPT ![c] = <<[leaf |-> n, boot |-> h, snapshot |-> snap["client"]]>>]
    /\ UNCHANGED <<environment, snap, registry, provisioning, batch>>

\* An open session has the snapshot it was last appraised under; 0 closes it.
IsOpen(c) == session[c] # <<>> /\ session[c][1].snapshot # 0

\* reappraise_session under a new snapshot; a session that fails is closed.
Reappraise(c) ==
    /\ IsOpen(c) /\ session[c][1].snapshot # snap["client"]
    /\ session' = [session EXCEPT ![c][1].snapshot =
                     IF SessionAppraised(snap["client"], CertificateOf(c), now)
                     THEN snap["client"] ELSE 0]
    /\ UNCHANGED <<environment, snap, registry, provisioning, batch>>

\* check_session before a use, which fails.
Drop(c) ==
    /\ IsOpen(c) /\ session[c][1].snapshot = snap["client"]
    /\ ~ SessionChecked(snap["client"], CertificateOf(c), now)
    /\ session' = [session EXCEPT ![c][1].snapshot = 0]
    /\ UNCHANGED <<environment, snap, registry, provisioning, batch>>

Registration ==
    \/ Tick \/ Refresh("control")
    \/ \E g \in Guests :
          \/ Boot(g) \/ Publish(g)
          \/ \E challenge \in challenges : Register(g, challenge)

Provisioning ==
    \E g \in Guests :
        \/ \E h \in Guests : Open(g, h)
        \/ \E purpose \in {"complete", "certificate"} : Sign(g, purpose)
        \/ \E r \in requests : Complete(g, r)

Channels ==
    \/ UpdateFirmware \/ Refresh("client")
    \/ \E g \in Guests : Quote(g)
    \/ \E c \in Own :
          \/ Reappraise(c) \/ Drop(c)
          \/ \E h \in Guests : \E n \in DOMAIN Waiting : Verify(c, n, h)

Next == Registration \/ Provisioning \/ Channels

Spec == Init /\ [][Next]_vars

-----------------------------------------------------------------------------
(* Properties.                                                             *)

\* The bundles of the current snapshots.
Held == {snap[v] : v \in Verifiers} \ {0}

\* The log that integrated an entry at an instant is one the bundle's trusted root knows.
LogKnown(b, at) ==
    \E key \in KeysAt(TrustedRootOf[b].rekor, RekorAt[at].id, Seconds(at)) :
        key.spki = RekorAt[at].spki

\* Under every snapshot a boot fares alike whichever of its three traces is asked: the few
\* facts Control keeps of it (appraise_registered_boot), its document
\* (verify_registered_boot), and its entry in the log, once the snapshot is as new as the
\* evidence it was published under and knows the log (verify_logged_boot), although the
\* signing key, the log and Sigstore's root may have been rotated since.
BootTracesAgree ==
    \A n \in DOMAIN log : \A b \in Held :
        LET document == BootDocument(log[n].guest)
            allowed == RegisteredBootVerifies(b, document, Sha256(document), now)
        IN  /\ RegisteredAllowed(b, RegisteredFacts(document), now) = allowed
            /\ b >= log[n].evidence /\ LogKnown(b, log[n].at) =>
                  LoggedBootVerifies(b, document, BootInclusion(n), now) = allowed

\* What the archive shows of a published boot is settled when the log integrates it: if the
\* evidence of its registration then still holds, still approves it and knows the log, it
\* verifies ever after, whatever expires or is withdrawn; if not, because the log took too
\* long or another log took over, it never does (verify_boot_archive).
LoggedBootsArchived ==
    \A n \in DOMAIN log :
        LET document == BootDocument(log[n].guest)
            evidence == log[n].evidence
            then == log[n].at
        IN  BootArchiveVerifies(document, BootInclusion(n), evidence, now)
               = (/\ BundleHolds[evidence, then]
                  /\ RegisteredBootVerifies(evidence, document, Sha256(document), then)
                  /\ LogKnown(evidence, then))

\* However often Control seals and however envelopes and requests travel, a guest opens one
\* envelope, for its own registered boot, and no request, replayed or meant for something
\* else, makes Control believe that a boot was provisioned before it was
\* (open_provisioning, request_message, verify_boot_request).
ProvisionedOnce ==
    \A g \in Guests :
        /\ opened[g] <= 1
        /\ opened[g] = 1 => registered[g] # 0
        /\ g \in completed => opened[g] = 1

\* An accepted certificate was made for this very connection by the guest whose logged
\* boot it carries (verify_channel_binding, appraise_session).
SessionIsOwn ==
    \A c \in Own : session[c] # <<>> =>
        session[c][1].boot = batch[1].guest /\ Waiting[session[c][1].leaf] = c

\* While a snapshot lasts, check_session, which repeats no signature, decides as a full
\* reappraisal of the session would.
CheckSuffices ==
    \A c \in Own : IsOpen(c) /\ session[c][1].snapshot = snap["client"] =>
        SessionChecked(snap["client"], CertificateOf(c), now)
           <=> SessionAppraised(snap["client"], CertificateOf(c), now)
=============================================================================
