------------------------------- MODULE MCNode -------------------------------
(***************************************************************************)
(* Two boots of one machine, one per release, across three bundles.  The   *)
(* second bundle rotates Control's signing key, Sigstore's TUF root and    *)
(* the log, and brings the collateral of a firmware update; the third      *)
(* withdraws the first release and asks for the updated firmware.  The     *)
(* instants are 200 seconds apart: a request outlives one step and not     *)
(* two, and the first key manifest and the updated firmware's VCEK expire  *)
(* within the run.  A boot registered under the first bundle may be        *)
(* integrated by the log that bundle does not know, and one registered at  *)
(* the updated firmware after its VCEK's certificate ended.                *)
(***************************************************************************)
EXTENDS Node

MCTimes == <<1000000, 1200000, 1400000>>

Open0 == [start |-> <<0>>, end |-> <<>>]

-----------------------------------------------------------------------------
(* Sigstore: two logs, Fulcio, a time stamp authority and a CT log.        *)

LogA == [id |-> <<"a", "1">>, spki |-> "rekor-a"]
LogB == [id |-> <<"b", "1">>, spki |-> "rekor-b"]
CtLog == [id |-> <<"c", "1">>, spki |-> "ct"]

MCRekorAt == [t \in {1000000, 1200000, 1400000} |-> IF t < 1150000 THEN LogA ELSE LogB]

Authority(name) ==
    [key |-> name, issuer_key |-> name, serial |-> name, start |-> 0, end |-> 9000,
     usage |-> <<>>, usage_critical |-> FALSE, ecdsa |-> TRUE]

TsaSigner ==
    [Authority("tsa-signer") EXCEPT !.issuer_key = "tsa", !.usage = <<"timeStamping">>,
                                    !.usage_critical = TRUE]

LogKey(shard, supported, validity) ==
    [id |-> shard.id, spki |-> shard.spki, supported |-> supported, validity |-> validity]

SigstoreRoot(logs) ==
    [fulcio |-> <<[certificates |-> <<Authority("fulcio")>>, validity |-> Open0]>>,
     tsa |-> <<[certificates |-> <<TsaSigner, Authority("tsa")>>, validity |-> Open0]>>,
     rekor |-> logs,
     ct |-> <<LogKey(CtLog, TRUE, Open0)>>]

\* The log a is closed at 1150 seconds, when b takes over; an unsupported log is skipped.
TrustedRoot1 == SigstoreRoot(<<LogKey(LogA, TRUE, Open0)>>)

TrustedRoot2 ==
    SigstoreRoot(<<LogKey(LogA, TRUE, [start |-> <<0>>, end |-> <<1150>>]),
                    LogKey([LogA EXCEPT !.spki = "ed25519"], FALSE, Open0),
                    LogKey(LogB, TRUE, [start |-> <<1150>>, end |-> <<>>])>>)

-----------------------------------------------------------------------------
(* TUF: three root keys, two of which sign; the second root replaces one.  *)

TufKeys == [id \in {"r1", "r2", "r3", "r4", "t"} |-> [ecdsa |-> TRUE, public |-> id]]

Role(ids, threshold) == [keyids |-> ids, threshold |-> threshold]

RootSigned(version, ids) ==
    [type |-> "root", version |-> version, expires |-> 9000, keys |-> TufKeys,
     roles |-> [root |-> Role(ids, 2), targets |-> Role(<<"t">>, 1),
                snapshot |-> Role(<<"t">>, 1), timestamp |-> Role(<<"t">>, 1)],
     files |-> <<>>]

Metadata(signed, ids) ==
    [signed |-> signed, length |-> 100,
     signatures |-> [id \in ids |-> Signature(id, signed)]]

MCCompiled == RootSigned(1, <<"r1", "r2", "r3">>)

Root2 == Metadata(RootSigned(2, <<"r1", "r2", "r4">>), {"r1", "r2"})

Targets(version, content) ==
    Metadata([type |-> "targets", version |-> version, expires |-> 9000,
              files |-> [name \in {"trusted_root.json"} |->
                           [length |-> <<50>>, sha256 |-> <<content>>, version |-> 1]]], {"t"})

Files(roots, version, content) ==
    [roots |-> roots, targets |-> Targets(version, content),
     trusted_root |-> [length |-> 50, content |-> content]]

\* What Sigstore serves for these targets at an instant.
Fresh(targets, until) ==
    LET named(type, name, file) ==
          Metadata([type |-> type, version |-> 1, expires |-> until,
                    files |-> [n \in {name} |->
                                 [length |-> <<file.length>>, sha256 |-> <<file>>,
                                  version |-> file.signed.version]]], {"t"})
        snapshot == named("snapshot", "targets.json", targets)
    IN  [snapshot |-> snapshot, timestamp |-> named("timestamp", "snapshot.json", snapshot)]

Files1 == Files(<<>>, 1, TrustedRoot1)
Files2 == Files(<<Root2>>, 2, TrustedRoot2)

MCFreshness == <<Fresh(Files1.targets, 1100), Fresh(Files2.targets, 1300), Fresh(Files2.targets, 1500)>>

-----------------------------------------------------------------------------
(* Published entries: each in a tree of two, after another entry.          *)

Entry(kind, body, integrated, shard) ==
    LogEntry(kind, body, 2, Subtree(<<LeafHash([kind |-> "other"]), LeafHash(body)>>),
             integrated, shard)

Signed(document, key, integrated, shard) ==
    LET artifact == WithSignature(document, key) IN
    [document |-> document, signature |-> artifact.signature,
     inclusion |-> InclusionOf(Entry("hashedrekord", HashedRekord(artifact, key.public_key),
                                     integrated, shard))]

-----------------------------------------------------------------------------
(* Releases and catalogs, built by GitHub.                                 *)

BuildCertificate(policy, serial) ==
    [critical |-> TRUE, names |-> <<[type |-> "uri", value |-> policy.workflow_identity]>>,
     issuers |-> <<"github">>,
     extensions |-> <<[oid |-> "repository", value |-> policy.repository],
                      [oid |-> "commit", value |-> policy.commit],
                      [oid |-> "ref", value |-> policy.ref],
                      [oid |-> "runner", value |-> "github-hosted"]>>,
     start |-> 899, end |-> 910, key |-> serial, issuer_key |-> "fulcio",
     usage |-> <<"codeSigning">>, usage_critical |-> FALSE, serial |-> serial, ecdsa |-> TRUE,
     scts |-> <<[log |-> CtLog.id, timestamp |-> 900000,
                 signature |-> Signature("ct", <<"precert", serial, "fulcio", 900000>>)]>>]

\* A time stamp over the signature, taken before the log's own time.
Stamp(signature, attributes) ==
    [status |-> 0, content_type |-> "tst_info", version |-> 1, accuracy |-> {1},
     imprint |-> signature, time |-> 904, signers |-> 1, signer |-> "tsa-signer",
     certificates |-> <<>>, attributes |-> attributes,
     signature |-> Signature("tsa-signer", attributes)]

Sealed(payload, sig, certificate, stamped) ==
    [certificate |-> certificate,
     entries |-> <<Entry("dsse", [kind |-> "dsse", payload |-> payload, signature |-> sig,
                                  certificate |-> certificate], 905, LogA)>>,
     timestamps |-> IF stamped
                    THEN <<Stamp(sig, [digest |-> <<sig, 904>>, type |-> "tst_info"])>>
                    ELSE <<>>,
     envelope |-> [type |-> "in-toto", payload |-> payload,
                   signatures |-> <<[keyid |-> "", sig |-> sig]>>]]

Attestation(payload, policy, stamped, serial) ==
    Sealed(payload, Signature(serial, <<"dsse", payload>>), BuildCertificate(policy, serial), stamped)

Provenance(subjects) == [subjects |-> subjects, predicate |-> "slsa-provenance"]

MCTag(major, minor, patch) ==
    [v |-> TRUE, parts |-> <<[canonical |-> TRUE, value |-> major],
                             [canonical |-> TRUE, value |-> minor],
                             [canonical |-> TRUE, value |-> patch]>>]

Launch ==
    [family_id |-> 1, image_id |-> 1, host_data |-> 1, id_key_digest |-> 1,
     author_key_digest |-> 0, vmpl |-> 0,
     policy |-> [bits |-> {"page_swap_disable", "single_socket", "reserved_one",
                           "mem_aes_256_xts"}, abi |-> <<1, 58>>]]

LaunchPolicies == <<[product |-> "Genoa", launch |-> Launch], [product |-> "Milan", launch |-> Launch]>>

Manifest(tag, measurement) ==
    [pinned |-> TRUE, repository |-> "gateway", tag |-> tag, commit |-> measurement,
     sequence |-> tag.parts[1].value * 100 + tag.parts[2].value * 10 + tag.parts[3].value,
     minimum_catalog_sequence |-> 1, igvm |-> [size |-> 100, content |-> measurement],
     measurement |-> measurement, vcpus |-> 4, launch_policies |-> LaunchPolicies,
     inputs |-> [input \in RequiredInputs \cup {LAUNCH_POLICIES} |->
                   IF input = LAUNCH_POLICIES THEN LaunchPolicies
                   ELSE <<[product |-> input, launch |-> Launch]>>]]

Release1 == Manifest(MCTag(1, 0, 9), "measurement-1")
Release2 == Manifest(MCTag(1, 1, 0), "measurement-2")

Built(manifest, stamped) ==
    [document |-> manifest, staging |-> <<>>,
     provenance |-> <<Attestation(Provenance(GatewaySubjects(manifest)), GithubPolicy(manifest),
                                  stamped, manifest.commit)>>]

CatalogManifest ==
    [repository |-> "catalog", tag |-> 3, sequence |-> 3, commit |-> "catalog-3",
     minimum_gateway_sequence |-> 100, runtime |-> [size |-> 1, content |-> "runtime"],
     public |-> [size |-> 1, content |-> "public"]]

Catalog ==
    [document |-> CatalogManifest, staging |-> <<>>,
     provenance |-> <<Attestation(Provenance(CatalogSubjects(CatalogManifest)),
                                  GithubPolicy(CatalogManifest), TRUE, "catalog-3")>>]

-----------------------------------------------------------------------------
(* AMD's collateral: one Genoa chip at two firmware levels.                *)

Chip == <<7, 1>>

Year == [start |-> 500000, end |-> 9000000]

Ark == [key |-> "Genoa", issuer |-> "ark", subject |-> "ark", signed_by |-> "Genoa",
        serial |-> 1, validity |-> Year]
Ask == [key |-> "ask", issuer |-> "ark", subject |-> "ask", signed_by |-> "Genoa",
        serial |-> 2, validity |-> Year]

Vek(n, validity) ==
    [product_name |-> [product |-> "Genoa", stepping |-> "short"], struct_version |-> 0,
     spl |-> [oid \in 1 .. 8 |-> Tcb(n)[CHOOSE byte \in 1 .. 8 :
                                          TcbExtensions("Family19h")[byte] = oid]],
     hwid |-> Chip, issuer |-> "ask", subject |-> "vek", signed_by |-> "ask",
     key |-> <<"vcek", Chip, Tcb(n)>>, validity |-> validity]

Row(type, platform, der) ==
    [type |-> type, ca |-> "Genoa", platform |-> platform, der |-> der, genuine |-> TRUE]

Crl == [issuer |-> "Genoa", revoked |-> {9}, validity |-> Year]

\* The updated firmware's certificate ends before the last instant in bundle 2.
Rows(veks) ==
    <<Row("ark", <<>>, Ark), Row("ask", <<>>, Ask), Row("crl", <<>>, Crl)>> \o veks

Vek1 == Row("vcek", <<Chip, Tcb(1)>>, Vek(1, Year))
Vek2 == Row("vcek", <<Chip, Tcb(2)>>, Vek(2, [start |-> 500000, end |-> 1300000]))
Vek2Renewed == Row("vcek", <<Chip, Tcb(2)>>, Vek(2, Year))

-----------------------------------------------------------------------------
(* Bundles.                                                                *)

MCRootKey == [key_id |-> 0, public_key |-> "root-key"]
Key1 == [key_id |-> 1, public_key |-> "online-1"]
Key2 == [key_id |-> 2, public_key |-> "online-2"]

Profile(n) ==
    [chip_ids |-> <<Chip>>, rank |-> n, cpuid |-> <<25, 17, 1>>, minimum_tcb |-> <<n, 0, n, n>>,
     required_platform_info |-> {0}, forbidden_platform_info |-> {1},
     required_launch_mitigations |-> {}, required_current_mitigations |-> {}]

Approvals(revision, files, keys, gateways, minimum) ==
    [revision |-> revision, environment |-> "production", keys |-> keys, sigstore |-> files,
     gateways |-> gateways, catalogs |-> <<Catalog>>,
     hardware_policy |-> [version |-> revision, policies |-> <<Profile(minimum)>>]]

Bundle(files, keys, integrated, revision, gateways, minimum, rows) ==
    [sigstore |-> files, rows |-> rows,
     keys |-> Signed(keys, MCRootKey, integrated, LogA),
     approvals |-> Signed(Approvals(revision, files, keys, gateways, minimum), keys.active_key,
                          integrated, LogA)]

Keys(generation, active, retired, expires) ==
    [generation |-> generation, environment |-> "production", active_key |-> active,
     retired_keys |-> retired, expires |-> expires]

Gateways == <<Built(Release1, TRUE), Built(Release2, FALSE)>>

MCBundles ==
    [n \in 1 .. 3 |->
       Bundle(IF n = 1 THEN Files1 ELSE Files2,
              IF n = 1 THEN Keys(1, Key1, <<>>, 1300000) ELSE Keys(2, Key2, <<Key1>>, 9000000),
              IF n = 1 THEN 950 ELSE 1000, n,
              IF n = 3 THEN Tail(Gateways) ELSE Gateways,
              IF n = 3 THEN 2 ELSE 1,
              Rows(<<Vek1>> \o CASE n = 1 -> <<>> [] n = 2 -> <<Vek2>> [] n = 3 -> <<Vek2Renewed>>))]

Guest(id, release, measurement) ==
    [release |-> release,
     report |->
       [version |-> 5, cpuid |-> <<25, 17, 1>>, chip |-> Chip, reserved |-> 0,
        launch_mitigations |-> {}, current_mitigations |-> {}, platform_info |-> {0, 2},
        current_tcb |-> Tcb(0), reported_tcb |-> Tcb(0), committed_tcb |-> Tcb(0),
        launch_tcb |-> Tcb(0), family_id |-> 1, image_id |-> 1, report_data |-> <<>>,
        measurement |-> measurement, host_data |-> 1, id_key_digest |-> 1,
        author_key_digest |-> 0, vmpl |-> 0, policy |-> Launch.policy, signature_algo |-> 1,
        report_info |-> {}, migration_agent |-> "zero",
        signature |-> [key |-> <<>>, reserved |-> 0],
        current_version |-> <<1, 58, 0>>, committed_version |-> <<1, 57, 9>>,
        report_id |-> id]]

MCMachine == <<Guest(1, Release1, "measurement-1"), Guest(2, Release2, "measurement-2")>>

-----------------------------------------------------------------------------
(* What holds of the pure algorithms, looked at once, in the initial state.*)

MCTags ==
    {[v |-> TRUE, parts |-> <<[canonical |-> TRUE, value |-> p[1]],
                              [canonical |-> TRUE, value |-> p[2]],
                              [canonical |-> TRUE, value |-> p[3]]>>] :
        p \in (0 .. 10) \X {0, 1, 9, 10} \X (0 .. 11)}

Proofs == BatchExact(1 .. 12) /\ InclusionExact(1 .. 17) /\ BatchLimitsMeet /\ EvidenceFits
Orders == SequenceOrders(MCTags)

\* Root files one after another, one that starts at the compiled version, one that leaves
\* a version out, and one whose root role lists a key under two ids.
MCRoots ==
    LET twice == [RootSigned(2, <<"r1", "r2">>) EXCEPT
                    !.keys = [id \in DOMAIN TufKeys |->
                                IF id = "r2" THEN TufKeys["r1"] ELSE TufKeys[id]]]
        by(signed, keys) == [signed |-> signed, length |-> 100,
                             signatures |-> [id \in DOMAIN keys |-> Signature(keys[id], signed)]]
        third == Metadata(RootSigned(3, <<"r1", "r2", "r4">>), {"r2", "r4"})
    IN  {<<Root2>>, <<Root2, third>>, <<third>>,
         <<Metadata(MCCompiled, {"r1", "r2", "r3"}), Root2>>,
         <<Metadata(RootSigned(2, <<"r1", "r2", "r4">>), {"r1"})>>,
         <<by(twice, [r1 |-> "r1", r2 |-> "r1", r3 |-> "r3"])>>}

Quorums == QuorumOfHolders(MCCompiled, MCRoots)

\* Every Merkle proof that a gateway or the log makes, for up to 12 connections and 17
\* entries, is decoded and verifies, and nothing near it does (BatchProof, verify_merkle);
\* the evidence of the largest batch fits its encodings.
ProofsExact == Init => Proofs

\* A later version has a larger sequence number (gateway_release_sequence).
SequencesOrder == Init => Orders

\* A chain of TUF roots is accepted only if it leaves no version out and a threshold of
\* different key holders of the root before, the compiled one first, and of itself signed
\* each root, however the keys are listed (newest_root, Root::verify).
QuorumsHold == Init => Quorums

-----------------------------------------------------------------------------
(* Provisioning and channels share the registry and neither reads what the *)
(* other changes, so that each is explored with the registry alone.        *)

VARIABLE focus

MCInit == Init /\ focus \in {"provisioning", "channels"}

MCNext ==
    \/ Registration /\ UNCHANGED focus
    \/ focus = "provisioning" /\ Provisioning /\ UNCHANGED focus
    \/ focus = "channels" /\ Channels /\ UNCHANGED focus

MCSpec == MCInit /\ [][MCNext]_<<vars, focus>>
=============================================================================
