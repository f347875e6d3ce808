------------------------------ MODULE Sigstore ------------------------------
(***************************************************************************)
(* crates/offline-sigstore: Sigstore's trusted root, entries of the Rekor  *)
(* log, and attestations signed with a Fulcio certificate.  Each operator  *)
(* is the verdict of one function.                                         *)
(*                                                                         *)
(* A digest is the thing it digests and a signature the pair of its key    *)
(* and its message, so both can be compared and neither can be forged.  An *)
(* optional field is a sequence of at most one element.  Times are seconds *)
(* where the code has seconds; now is in milliseconds.                     *)
(***************************************************************************)
EXTENDS Inclusion, FiniteSets, FiniteSetsExt

Signature(key, message) == [key |-> key, over |-> message]

Seconds(now) == now \div 1000

CLOCK_SKEW == 60
MAX_TIMESTAMPS == 4
MAX_CMS_CERTIFICATES == 16
MAX_BUNDLES == 16
MAX_SUBJECTS == 1024

-----------------------------------------------------------------------------
(* The trusted root: trust_root.rs.                                        *)

\* Validity::contains_seconds: both ends belong to the period, an absent one is open.
ContainsSeconds(validity, time) ==
    /\ \A start \in ToSet(validity.start) : time >= start
    /\ \A end \in ToSet(validity.end) : time <= end

\* parse_authorities: no authority is empty and no certificate occurs twice.
AuthoritiesParse(authorities) ==
    /\ \A n \in DOMAIN authorities : authorities[n].certificates # <<>>
    /\ IsInjective(FlattenSeq([n \in DOMAIN authorities |-> authorities[n].certificates]))

\* parse_logs keeps the logs it supports; their ids are distinct.
SupportedLogs(logs) == SelectSeq(logs, LAMBDA log : log.supported)

LogsParse(logs) ==
    LET kept == SupportedLogs(logs) IN IsInjective([n \in DOMAIN kept |-> kept[n].id])

\* TrustedRoot::from_json and complete: which documents parse, and to what.
RootComplete(document) ==
    /\ AuthoritiesParse(document.fulcio) /\ AuthoritiesParse(document.tsa)
    /\ LogsParse(document.rekor) /\ LogsParse(document.ct)
    /\ document.fulcio # <<>>
    /\ SupportedLogs(document.rekor) # <<>> /\ SupportedLogs(document.ct) # <<>>

TrustedRoot(document) ==
    [document EXCEPT !.rekor = SupportedLogs(@), !.ct = SupportedLogs(@)]

\* key_at, at most one key since ids are distinct: the key the log had at that time.
KeysAt(keys, id, time) ==
    {key \in ToSet(keys) : key.id = id /\ ContainsSeconds(key.validity, time)}

\* certificates_at and tsa_authorities_at.
AuthoritiesAt(authorities, time) ==
    {a \in ToSet(authorities) : ContainsSeconds(a.validity, time)}

CertificatesAt(authorities, time) ==
    UNION {ToSet(a.certificates) : a \in AuthoritiesAt(authorities, time)}

-----------------------------------------------------------------------------
(* Entries of the log: tlog.rs.  A log id is the pair of its hint, the     *)
(* first four bytes, and the rest.                                         *)

\* verify_set: the log promised this body, time and index.
SetVerifies(entry, key) ==
    entry.promise = <<Signature(key, <<"set", entry.body, entry.integrated, entry.index, entry.log>>)>>

\* verify_checkpoint: one signature line carries the log's hint, and it verifies.
CheckpointVerifies(checkpoint, size, root, log, key) ==
    LET matching == SelectSeq(checkpoint.signatures, LAMBDA line : line.hint = log[1]) IN
    /\ checkpoint.origin = "rekor.sigstore.dev"
    /\ checkpoint.size = size /\ checkpoint.root = root
    /\ Len(matching) = 1
    /\ matching[1].signature = Signature(key, <<"checkpoint", size, root>>)

\* verify_inclusion.
InclusionVerifies(entry, key) ==
    /\ entry.proof # <<>>
    /\ LET proof == entry.proof[1] IN
       /\ Len(proof.hashes) <= MAX_REKOR_HASHES
       /\ VerifyMerkle(LeafHash(entry.body), proof.index, proof.size, proof.hashes, proof.root)
       /\ CheckpointVerifies(proof.checkpoint, proof.size, proof.root, entry.log, key)

\* verify_publication, for the entry's own integrated time.
PublicationVerifies(entry, now_seconds, root) ==
    /\ 0 < entry.integrated /\ entry.integrated <= now_seconds + CLOCK_SKEW
    /\ \E key \in KeysAt(root.rekor, entry.log, entry.integrated) :
          SetVerifies(entry, key.spki) /\ InclusionVerifies(entry, key.spki)

\* hashedrekord::verify_binding: the entry is about exactly these bytes.
BindingVerifies(bundle, artifact) ==
    LET entry == bundle.entries[1]
        body == entry.body
    IN  /\ entry.kind = "hashedrekord" /\ body.kind = "hashedrekord"
        /\ body.digest = artifact /\ bundle.digest = artifact
        /\ bundle.hint = body.key
        /\ body.signature = bundle.signature
        /\ body.signature = Signature(body.key, artifact)

\* verify_rekor_document_inclusion.
DocumentIncluded(bundle, artifact, now, root) ==
    /\ Len(bundle.entries) = 1
    /\ BindingVerifies(bundle, artifact)
    /\ PublicationVerifies(bundle.entries[1], Seconds(now), root)

-----------------------------------------------------------------------------
(* RFC 3161 time stamps: tsa.rs.                                           *)

\* webpki's path building: a certificate for this usage, valid at this time, below an anchor.
PathVerifies(certificate, anchors, intermediates, time, usage) ==
    /\ certificate.usage = <<usage>>
    /\ time >= certificate.start /\ time <= certificate.end
    /\ \/ \E anchor \in anchors : certificate.issuer_key = anchor.key
       \/ \E ca \in intermediates : \E anchor \in anchors :
             /\ certificate.issuer_key = ca.key /\ ca.issuer_key = anchor.key
             /\ time >= ca.start /\ time <= ca.end

\* parse_timestamp: a granted response, or a token by itself (status -1).
TimestampParses(token) ==
    /\ token.status \in {-1, 0, 1}
    /\ token.content_type = "tst_info"

\* find_signer, over the token's certificates and the authorities': how many match.
SignersFound(token, authorities) ==
    Cardinality({n \in DOMAIN token.certificates : token.certificates[n].serial = token.signer})
    + Cardinality({place \in authorities \X (1 .. MAX_CMS_CERTIFICATES) :
                     /\ place[2] \in DOMAIN place[1].certificates
                     /\ place[1].certificates[place[2]].serial = token.signer})

SignerOf(token, authorities) ==
    CHOOSE c \in ToSet(token.certificates) \cup UNION {ToSet(a.certificates) : a \in authorities} :
        c.serial = token.signer

\* verify_cms: one signer, whose signed attributes name the content and its type.
CmsVerifies(token, authorities) ==
    /\ token.signers = 1
    /\ Len(token.certificates) <= MAX_CMS_CERTIFICATES
    /\ SignersFound(token, authorities) = 1
    /\ token.attributes = [digest |-> <<token.imprint, token.time>>, type |-> "tst_info"]
    /\ SignerOf(token, authorities).ecdsa
    /\ token.signature = Signature(SignerOf(token, authorities).key, token.attributes)

\* verify_tsa_profile and verify_tsa_chain.
TsaChainVerifies(token, authorities) ==
    LET signer == SignerOf(token, authorities)
        anchors == {Last(a.certificates) : a \in authorities}
        rest == UNION {ToSet(Front(a.certificates)) : a \in authorities}
    IN  /\ signer.usage_critical
        /\ PathVerifies(signer, anchors, (ToSet(token.certificates) \ {signer}) \cup rest,
                        token.time, "timeStamping")

\* verify_timestamp, for the token's own time.
TimestampVerifies(token, signature, root) ==
    LET authorities == AuthoritiesAt(root.tsa, token.time) IN
    /\ TimestampParses(token)
    /\ token.version = 1 /\ token.accuracy \subseteq 1 .. 999
    /\ token.imprint = signature
    /\ token.time >= 0
    /\ authorities # {}
    /\ CmsVerifies(token, authorities)
    /\ TsaChainVerifies(token, authorities)

\* verify_all, and the earliest of the verified times.
TimestampsVerify(tokens, signature, root, now_seconds) ==
    /\ Len(tokens) <= MAX_TIMESTAMPS
    /\ \A token \in ToSet(tokens) :
          TimestampVerifies(token, signature, root) /\ token.time <= now_seconds + CLOCK_SKEW

EarliestTime(tokens) == Min({token.time : token \in ToSet(tokens)})

-----------------------------------------------------------------------------
(* Attestations: sigstore.rs, sct.rs and lib.rs.                           *)

\* parse_certificate: one critical URI name and one OIDC issuer.
CertificateParses(certificate) ==
    /\ certificate.critical
    /\ Len(certificate.names) = 1 /\ certificate.names[1].type = "uri"
    /\ Len(certificate.issuers) = 1

\* text_extension: the one value of an extension.
TextExtension(certificate, oid, value) ==
    LET found == SelectSeq(certificate.extensions, LAMBDA x : x.oid = oid)
    IN  Len(found) = 1 /\ found[1].value = value

PolicyHolds(certificate, policy) ==
    /\ certificate.names[1].value = policy.identity
    /\ certificate.issuers[1] = policy.issuer
    /\ \A oid \in DOMAIN policy.extensions :
          TextExtension(certificate, oid, policy.extensions[oid])

\* verify_certificate_chain: the keys that may have issued the certificate.
IssuerKeys(certificate, time, root) ==
    {a.key : a \in {a \in CertificatesAt(root.fulcio, time) :
                      PathVerifies(certificate, {a}, {}, time, "codeSigning")}}

\* sct::verify and signed_data: one log promised the certificate without its promise.
SctVerifies(certificate, issuer, time, root) ==
    /\ Len(certificate.scts) = 1
    /\ LET sct == certificate.scts[1] IN
       /\ Seconds(sct.timestamp) <= time + CLOCK_SKEW
       /\ \E key \in KeysAt(root.ct, sct.log, Seconds(sct.timestamp)) :
             sct.signature =
                Signature(key.spki, <<"precert", certificate.key, issuer, sct.timestamp>>)

\* verify_body_binding: the entry is about this envelope and this certificate.
BodyBinds(body, envelope, certificate) ==
    /\ body.kind = "dsse"
    /\ body.payload = envelope.payload
    /\ body.signature = envelope.signatures[1].sig
    /\ body.certificate = certificate

\* tlog::verify.
EntryVerifies(entry, envelope, certificate, now_seconds, root) ==
    /\ entry.kind = "dsse"
    /\ entry.integrated >= certificate.start /\ entry.integrated <= certificate.end
    /\ PublicationVerifies(entry, now_seconds, root)
    /\ BodyBinds(entry.body, envelope, certificate)

\* check_bundle_shape and the shape that verify asks for again.
ShapeValid(bundle) ==
    /\ bundle.envelope.type = "in-toto"
    /\ Len(bundle.envelope.signatures) = 1 /\ bundle.envelope.signatures[1].keyid = ""
    /\ Len(bundle.entries) = 1

\* sigstore::verify.  The signing time is the earliest time stamp, else the log's time.
SignatureVerifies(bundle, policy, now, root) ==
    LET certificate == bundle.certificate
        entry == bundle.entries[1]
        sig == bundle.envelope.signatures[1].sig
        time == IF bundle.timestamps = <<>> THEN entry.integrated ELSE EarliestTime(bundle.timestamps)
    IN  /\ CertificateParses(certificate) /\ PolicyHolds(certificate, policy)
        /\ TimestampsVerify(bundle.timestamps, sig, root, Seconds(now))
        /\ 0 < time /\ time <= Seconds(now) + CLOCK_SKEW
        /\ time >= certificate.start /\ time <= certificate.end
        /\ \E issuer \in IssuerKeys(certificate, time, root) :
              SctVerifies(certificate, issuer, time, root)
        /\ EntryVerifies(entry, bundle.envelope, certificate, Seconds(now), root)
        /\ sig = Signature(certificate.key, <<"dsse", bundle.envelope.payload>>)

\* check_subjects: the expected artifacts and no others, each named once.
SubjectsMatch(subjects, expected) ==
    /\ Len(expected) \in 1 .. MAX_SUBJECTS
    /\ Len(subjects) = Len(expected)
    /\ IsInjective([n \in DOMAIN expected |-> expected[n].name])
    /\ IsInjective([n \in DOMAIN subjects |-> subjects[n].name])
    /\ ToSet(expected) \subseteq ToSet(subjects)

\* verify_statement.
StatementVerifies(bundle, expected, predicate, policy, now, root) ==
    /\ ShapeValid(bundle)
    /\ SubjectsMatch(bundle.envelope.payload.subjects, expected)
    /\ bundle.envelope.payload.predicate = predicate
    /\ SignatureVerifies(bundle, policy, now, root)

\* verify_github_attestation_value: what the certificate must say of a GitHub build.
GithubCertificate(policy) ==
    [identity |-> policy.workflow_identity, issuer |-> "github",
     extensions |-> [repository |-> policy.repository, commit |-> policy.commit,
                     ref |-> policy.ref, runner |-> "github-hosted"]]

\* verify_single_attestation over parse_bundle_documents: one document of the file holds.
GithubVerifies(documents, expected, policy, now, root) ==
    /\ Len(documents) \in 1 .. MAX_BUNDLES
    /\ Cardinality({n \in DOMAIN documents :
          StatementVerifies(documents[n], expected, policy.predicate, GithubCertificate(policy),
                            now, root)}) = 1
=============================================================================
