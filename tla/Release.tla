------------------------------- MODULE Release ------------------------------
(***************************************************************************)
(* What makes a published bundle acceptable: the releases it approves with *)
(* their build provenance (crates/verifier/src/lib.rs), the key manifest   *)
(* and the approval manifest with their Rekor entries (approvals.rs), and  *)
(* the certificate requests of a registered gateway.  The order of bundles *)
(* and what survives a failed one are the module Evidence's.               *)
(*                                                                         *)
(* A document's digest is the document, or a part that determines it.  The *)
(* alphabets and the lengths of the digests and of the free texts in a     *)
(* manifest are left out.                                                  *)
(***************************************************************************)
EXTENDS Tuf, Appraisal, ReleaseSequence

\* bound: the code's artifact sizes are in bytes, these in MiB
MAX_IGVM == 128
MAX_CATALOG_ARTIFACT == 64
MAX_VCPUS == 1024
MAX_INPUTS == 256

LAUNCH_POLICIES == "snp-launch-policies.json"

RequiredInputs ==
    {"core/go.mod", "core/go.sum", "transports/go.mod", "transports/go.sum",
     "ca-certificates.crt", "cmdline.txt", "os-release", "pins.lock.json"}

-----------------------------------------------------------------------------
(* Release manifests.                                                      *)

\* gateway_release_manifest_shape_is_valid; pinned says that the texts which have only
\* one legal value (schema, platform, tool, build environment) have it.
GatewayShapeValid(manifest) ==
    /\ manifest.pinned
    /\ manifest.repository = "gateway"
    /\ GatewayReleaseSequence(manifest.tag) # 0
    /\ GatewayReleaseSequence(manifest.tag) = manifest.sequence
    /\ manifest.minimum_catalog_sequence \in 1 .. MaxSequence
    /\ manifest.igvm.size \in 1 .. MAX_IGVM
    /\ manifest.vcpus \in 1 .. MAX_VCPUS
    /\ Cardinality(DOMAIN manifest.inputs) \in 1 .. MAX_INPUTS

\* validate_gateway_launch_policies: by product, in the order of their names, which rank
\* stands for; the launch of each is allowed for its product and at VMPL 0.
ProductRank == [Genoa |-> 1, Milan |-> 2, Siena |-> 3, Turin |-> 4]

LaunchPoliciesValid(policies) ==
    /\ policies # <<>>
    /\ \A n \in DOMAIN policies :
          /\ policies[n].product \in Products
          /\ n > 1 => ProductRank[policies[n - 1].product] < ProductRank[policies[n].product]
          /\ policies[n].launch.vmpl = 0
          /\ LaunchPolicyValid(policies[n].launch.policy, policies[n].product)

\* validate_gateway_release_manifest: the policies are also one of the build's inputs.
GatewayManifestValid(manifest) ==
    /\ GatewayShapeValid(manifest)
    /\ RequiredInputs \subseteq DOMAIN manifest.inputs
    /\ LaunchPoliciesValid(manifest.launch_policies)
    /\ LAUNCH_POLICIES \in DOMAIN manifest.inputs
    /\ manifest.inputs[LAUNCH_POLICIES] = manifest.launch_policies

\* validate_catalog_shape; the tag is catalog-v and this number.
CatalogShapeValid(manifest) ==
    /\ manifest.repository = "catalog"
    /\ manifest.sequence \in 1 .. MaxSequence
    /\ manifest.minimum_gateway_sequence \in 1 .. MaxSequence
    /\ manifest.tag = manifest.sequence
    /\ manifest.runtime.size \in 1 .. MAX_CATALOG_ARTIFACT
    /\ manifest.public.size \in 1 .. MAX_CATALOG_ARTIFACT

\* release_manifest_sha256: no two builds of one commit are published.
ReleaseId(manifest) == <<manifest.repository, manifest.commit>>

-----------------------------------------------------------------------------
(* Their provenance: the sequence of attestation documents, or a staging   *)
(* statement.                                                              *)

GatewaySubjects(manifest) ==
    <<[name |-> "release-manifest.json", digest |-> manifest],
      [name |-> "gateway.igvm", digest |-> manifest.igvm.content]>>

CatalogSubjects(manifest) ==
    <<[name |-> "catalog-release.json", digest |-> manifest],
      [name |-> "catalog.runtime.json", digest |-> manifest.runtime.content],
      [name |-> "catalog.public.json", digest |-> manifest.public.content]>>

\* verify_release_provenance and verify_catalog_provenance: the release workflow of the
\* manifest's own repository, run for the manifest's own tag and commit.
GithubPolicy(manifest) ==
    [workflow_identity |-> <<manifest.repository, "release", manifest.tag>>,
     repository |-> manifest.repository, commit |-> manifest.commit, ref |-> manifest.tag,
     predicate |-> "slsa-provenance"]

\* is_staging_development_provenance, of a statement that claims to be one.
StagingStatement(statement, subjects) ==
    /\ statement.environment = "staging"
    /\ Len(statement.subjects) = Len(subjects)
    /\ IsInjective([n \in DOMAIN statement.subjects |-> statement.subjects[n].name])
    /\ ToSet(statement.subjects) = ToSet(subjects)

\* The provenance a release has; accepts_provenance asks production for GitHub's.
ReleaseProvenance(release, subjects, now, root) ==
    CASE release.staging # <<>> /\ StagingStatement(release.staging[1], subjects) -> "staging"
      [] release.staging = <<>> /\ GithubVerifies(release.provenance, subjects,
                                     GithubPolicy(release.document), now, root) -> "github"
      [] OTHER -> "invalid"

AcceptsProvenance(environment, provenance) ==
    provenance = "github" \/ (environment = "staging" /\ provenance = "staging")

\* verify_gateway and verify_catalog.
GatewayVerifies(release, environment, now, root) ==
    /\ GatewayManifestValid(release.document)
    /\ AcceptsProvenance(environment,
          ReleaseProvenance(release, GatewaySubjects(release.document), now, root))

CatalogVerifies(release, environment, now, root) ==
    /\ CatalogShapeValid(release.document)
    /\ AcceptsProvenance(environment,
          ReleaseProvenance(release, CatalogSubjects(release.document), now, root))

-----------------------------------------------------------------------------
(* The two signed manifests of a bundle.                                   *)

\* verify_signature and verify_document_inclusion of a signed document.
SignedDocument(signed) == [document |-> signed.document, signature |-> signed.signature]

DocumentSigned(signed, key) ==
    /\ signed.signature.key_id = key.key_id
    /\ signed.signature.value = Signature(key.public_key, signed.document)

DocumentPublished(signed, now, root) ==
    DocumentIncluded(signed.inclusion, SignedDocument(signed), now, root)

\* validate_keys and verify_keys.  A key's public half stands for its Rekor half too.
OperationalKeys(document) == <<document.active_key>> \o document.retired_keys

KeysVerify(signed, environment, rootkey, now, root) ==
    LET document == signed.document
        keys == <<rootkey>> \o OperationalKeys(document)
    IN  /\ document.generation \in 1 .. MaxSequence
        /\ document.environment = environment
        /\ IsInjective([n \in DOMAIN keys |-> keys[n].key_id])
        /\ IsInjective([n \in DOMAIN keys |-> keys[n].public_key])
        /\ \A n \in 2 .. Len(document.retired_keys) :
              document.retired_keys[n - 1].key_id < document.retired_keys[n].key_id
        /\ DocumentSigned(signed, rootkey)
        /\ DocumentPublished(signed, now, root)
        /\ document.expires > 1000 * signed.inclusion.entries[1].integrated

\* increasing: from the first sequence on, strictly.
Increasing(releases) ==
    \A n \in DOMAIN releases :
        releases[n].document.sequence >
            IF n = 1 THEN 0 ELSE releases[n - 1].document.sequence

\* verify_online_approval, verify_with_keys and valid_until.
ApprovalsVerify(signed, keys, files, now, root) ==
    LET document == signed.document IN
    /\ DocumentPublished(signed, now, root)
    /\ document.revision \in 1 .. MaxSequence
    /\ document.environment = keys.environment
    /\ document.keys = keys
    /\ document.sigstore = files
    /\ Increasing(document.gateways) /\ Increasing(document.catalogs)
    /\ DocumentSigned(signed, keys.active_key)
    /\ now < keys.expires

\* refresh_observed and verify_snapshot, for a verifier that has accepted nothing newer:
\* the whole bundle holds at this time.
BundleVerifies(bundle, compiled, environment, rootkey, now) ==
    LET root == TrustedRoot(bundle.sigstore.trusted_root.content)
        approvals == bundle.approvals.document
    IN  /\ TrustUpdateVerifies(compiled, bundle.sigstore)
        /\ KeysVerify(bundle.keys, environment, rootkey, now, root)
        /\ ApprovalsVerify(bundle.approvals, bundle.keys.document, bundle.sigstore, now, root)
        /\ \A release \in ToSet(approvals.gateways) :
              GatewayVerifies(release, environment, now, root)
        /\ \A release \in ToSet(approvals.catalogs) :
              CatalogVerifies(release, environment, now, root)
        /\ HardwarePolicyValid(approvals.hardware_policy)
        /\ StoreVerifies(bundle.rows)

\* Snapshot::gateway: the approved release of this identity.
GatewayOf(bundle, id) ==
    LET gateways == bundle.approvals.document.gateways
    IN  {gateways[n].document : n \in {n \in DOMAIN gateways : ReleaseId(gateways[n].document) = id}}

\* compatible_launch_policy.
LaunchFor(manifest, product) ==
    {policy.launch : policy \in {p \in ToSet(manifest.launch_policies) : p.product = product}}

-----------------------------------------------------------------------------
(* Certificate requests.                                                   *)

\* verify_certificate_csr: a request signed by the attested key, for this name and no
\* other, in its subject and in its one extension.
CsrVerifies(csr, key, hostname) ==
    /\ csr.version = 1 /\ csr.algorithm = "ecdsa-p256-sha256"
    /\ csr.key = key /\ csr.signed_by = key
    /\ csr.subject = <<[type |-> "cn", value |-> hostname]>>
    /\ Len(csr.attributes) = 1
    /\ csr.attributes[1].extensions = <<"san">>
    /\ IsInjective(csr.attributes[1].names)
    /\ ToSet(csr.attributes[1].names) = {[type |-> "dns", value |-> hostname]}
=============================================================================
