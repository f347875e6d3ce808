----------------------------- MODULE Inclusion ------------------------------
(***************************************************************************)
(* The Merkle trees of the repository.  A gateway commits up to 1,024      *)
(* channel bindings in the report data of one SNP report (attestation.rs,  *)
(* gateway.rs), and Rekor commits its entries in a checkpoint              *)
(* (offline-sigstore/src/tlog.rs).  Both trees are those of RFC 6962; the  *)
(* two verifiers walk a path by different loops, and the decoder of a      *)
(* batch proof counts its path by a third one.                             *)
(*                                                                         *)
(* A hash is the tuple of its domain and its inputs, so that two hashes    *)
(* are equal exactly when their inputs are.                                *)
(***************************************************************************)
EXTENDS Integers, Sequences, SequencesExt

MAX_BATCH_LEAVES == 1024
MAX_PROOF_HASHES == 10
MAX_REKOR_HASHES == 64

LeafHash(content) == <<"leaf", content>>

ParentHash(left, right) == <<"node", left, right>>

BatchReportData(count, root) == <<"quote-batch", count, root>>

\* Binding::leaf_hash: the environment, the boot document's digest and either the
\* challenge with the connection's TLS key or the whole setup transcript.
TlsLeaf(environment, boot, challenge, signer) ==
    LeafHash(<<"native-tls", environment, boot, challenge, signer>>)

E2eeLeaf(environment, boot, transcript) ==
    LeafHash(<<"e2ee-session", environment, boot, transcript, 0>>)

\* 1 << (n - 1).ilog2(): the greatest power of two below n.
Half(n) == 2 ^ (CHOOSE e \in 0 .. 16 : 2 ^ e < n /\ n <= 2 ^ (e + 1))

-----------------------------------------------------------------------------
(* The gateway's side: subtree and quote_batch.                            *)

\* The root over the leaves and, for each leaf, its siblings, deepest first.
Subtree(leaves) ==
    LET tree[first \in Nat, count \in Nat] ==
          IF count = 1
          THEN [root |-> leaves[first], paths |-> << <<>> >>]
          ELSE LET split == Half(count)
                   left == tree[first, split]
                   right == tree[first + split, count - split]
               IN  [root |-> ParentHash(left.root, right.root),
                    paths |-> [n \in DOMAIN left.paths |-> Append(left.paths[n], right.root)]
                              \o [n \in DOMAIN right.paths |-> Append(right.paths[n], left.root)]]
    IN  tree[1, Len(leaves)]

BatchProof(count, index, siblings) ==
    [leaf_count |-> count, leaf_index |-> index, siblings |-> siblings]

QuoteBatchOk(leaves) == Len(leaves) \in 1 .. MAX_BATCH_LEAVES

\* The report data and each leaf's proof in input order; QuoteBatchOk(leaves) holds.
QuoteBatch(leaves) ==
    LET tree == Subtree(leaves)
    IN  [data |-> BatchReportData(Len(leaves), tree.root),
         proofs |-> [n \in DOMAIN leaves |-> BatchProof(Len(leaves), n - 1, tree.paths[n])]]

-----------------------------------------------------------------------------
(* The client's side: BatchProof::from_bytes and verify_leaf.              *)

PathDepth[count \in Nat, index \in Nat] ==
    IF count <= 1 THEN 0
    ELSE LET k == Half(count)
         IN  1 + IF index < k THEN PathDepth[k, index] ELSE PathDepth[count - k, index - k]

\* from_bytes counts one sibling per level, as in a tree of full levels.
ProofDecodesFullLevels(p) ==
    /\ Len(p.siblings) <= MAX_PROOF_HASHES
    /\ p.leaf_count \in 1 .. MAX_BATCH_LEAVES
    /\ p.leaf_index < p.leaf_count
    /\ Len(p.siblings) = PathDepth[p.leaf_count, 0]

\* The count and the index are big-endian u16; what to_bytes writes is read back.
ProofDecodes(p) ==
    /\ Len(p.siblings) <= MAX_PROOF_HASHES
    /\ p.leaf_count \in 1 .. MAX_BATCH_LEAVES
    /\ p.leaf_index < p.leaf_count
    /\ Len(p.siblings) = PathDepth[p.leaf_count, p.leaf_index]

\* The number of times the inner loop of verify_leaf halves index.
Skipped(index) ==
    IF index = 0 THEN 0 ELSE CHOOSE z \in 0 .. 16 : index % 2 ^ z = 0 /\ index % 2 ^ (z + 1) # 0

BatchStep(walk, sibling) ==
    IF walk.index % 2 = 1 \/ walk.index = walk.last
    THEN LET by == 2 ^ (Skipped(walk.index) + 1)
         IN  [root |-> ParentHash(sibling, walk.root),
              index |-> walk.index \div by, last |-> walk.last \div by]
    ELSE [root |-> ParentHash(walk.root, sibling),
          index |-> walk.index \div 2, last |-> walk.last \div 2]

VerifyLeaf(p, leaf, data) ==
    LET walk[n \in Nat] ==
          IF n = 0 THEN [root |-> leaf, index |-> p.leaf_index, last |-> p.leaf_count - 1]
          ELSE BatchStep(walk[n - 1], p.siblings[n])
        end == walk[Len(p.siblings)]
    IN  end.last = 0 /\ BatchReportData(p.leaf_count, end.root) = data

-----------------------------------------------------------------------------
(* Rekor's side: expected_proof_length and verify_merkle.                  *)

ExpectedProofLength[index \in Nat, size \in Nat] ==
    IF size <= 1 THEN 0
    ELSE (IF size % 2 = 1 /\ index = size - 1 THEN 0 ELSE 1)
         + ExpectedProofLength[index \div 2, (size + 1) \div 2]

MerkleStepByParity(walk, sibling) ==
    [root |-> IF walk.index % 2 = 1
              THEN ParentHash(sibling, walk.root) ELSE ParentHash(walk.root, sibling),
     index |-> walk.index \div 2, last |-> walk.last \div 2]

MerkleStep(walk, sibling) ==
    [root |-> IF walk.index % 2 = 1 \/ walk.index = walk.last
              THEN ParentHash(sibling, walk.root) ELSE ParentHash(walk.root, sibling),
     index |-> walk.index \div 2, last |-> walk.last \div 2]

VerifyMerkle(leaf, index, size, siblings, root) ==
    /\ size # 0 /\ index < size
    /\ Len(siblings) = ExpectedProofLength[index, size]
    /\ LET walk[n \in Nat] ==
             IF n = 0 THEN [root |-> leaf, index |-> index, last |-> size - 1]
             ELSE MerkleStep(walk[n - 1], siblings[n])
       IN  walk[Len(siblings)].root = root

-----------------------------------------------------------------------------
(* The size limits of session evidence: attestation/evidence.rs and        *)
(* attestation/certificate.rs.  Every length is in bytes.                  *)

REPORT_BYTES == 1184
MAX_EVIDENCE_BYTES == 58 * 1024
MEDIA_TYPE_BYTES == 36

\* The frame: a report, a counted proof and two counted fields.
EvidenceBytes(hashes, document, inclusion) ==
    REPORT_BYTES + 2 + (4 + 64 * hashes) + (4 + document) + (4 + inclusion)

EncodesWithoutProof(hashes, document, inclusion) ==
    /\ document > 0 /\ inclusion > 0
    /\ EvidenceBytes(0, document, inclusion) <= MAX_EVIDENCE_BYTES

\* SessionEvidence::encode accepts fields of these lengths.
Encodes(hashes, document, inclusion) ==
    /\ document > 0 /\ inclusion > 0
    /\ EvidenceBytes(hashes, document, inclusion) <= MAX_EVIDENCE_BYTES

\* from_bytes reads a payload of the given length with fields of these lengths.
EvidenceDecodes(payload, hashes, document, inclusion) ==
    /\ payload <= MAX_EVIDENCE_BYTES
    /\ document > 0 /\ inclusion > 0
    /\ payload = EvidenceBytes(hashes, document, inclusion)

\* extension: a media type and two-byte lengths of the CBOR and the DER string.
ExtensionBytes(payload) == 4 + (3 + MEDIA_TYPE_BYTES + 3) + payload

Extends(payload) ==
    payload <= MAX_EVIDENCE_BYTES /\ ExtensionBytes(payload) - 4 < 2 ^ 16

\* from_extension: the outer limit, the two-byte DER length and the CBOR length.
ExtensionDecodes(extension, payload) ==
    /\ extension <= MAX_EVIDENCE_BYTES + MEDIA_TYPE_BYTES + 10
    /\ extension - 4 \in 2 ^ 8 .. 2 ^ 16 - 1
    /\ payload = extension - 4 - (3 + MEDIA_TYPE_BYTES + 3)
    /\ payload <= MAX_EVIDENCE_BYTES

-----------------------------------------------------------------------------
(* Properties.  Sizes bounds the trees they look at.                       *)

\* A tree of n distinct leaves; leaf n carries its position.
Leaves(n) == [i \in 1 .. n |-> LeafHash(i)]

\* Every hash a path of the tree could be assembled from.
Nodes(n) == {LeafHash(0)} \cup UNION {ToSet(Subtree(Leaves(n)).paths[i]) : i \in 1 .. n}

\* quote_batch and the two loops of BatchProof agree on the shape of every tree: each
\* proof made for a batch is decoded and verifies for its own leaf and for no other
\* leaf, position or batch size, and changing any one sibling of it breaks it.
BatchExact(sizes) ==
    \A n \in sizes : \A i \in 1 .. n :
        LET batch == QuoteBatch(Leaves(n))
            p == batch.proofs[i]
        IN  /\ ProofDecodes(p) /\ VerifyLeaf(p, LeafHash(i), batch.data)
            /\ \A j \in 0 .. n : j # i => ~ VerifyLeaf(p, LeafHash(j), batch.data)
            /\ \A count \in 1 .. n + 1, index \in 0 .. n :
                  LET q == BatchProof(count, index, p.siblings) IN
                  ProofDecodes(q) /\ VerifyLeaf(q, LeafHash(i), batch.data)
                     => count = n /\ index = i - 1
            /\ \A k \in DOMAIN p.siblings : \A h \in Nodes(n) \ {p.siblings[k]} :
                  ~ VerifyLeaf([p EXCEPT !.siblings[k] = h], LeafHash(i), batch.data)

\* The largest batch the gateway quotes still has proofs the client decodes: 1,024
\* leaves need ten hashes, and no smaller batch needs more.
BatchLimitsMeet ==
    \A n \in {1, 2, 3, 513, 1023, MAX_BATCH_LEAVES}, i \in {0, 1, 511, 512, 1022, 1023} :
        i < n => /\ PathDepth[n, i] <= MAX_PROOF_HASHES
                 /\ PathDepth[n, i] = ExpectedProofLength[i, n]

\* verify_merkle accepts an entry of a log of any size exactly with the audit path of RFC
\* 6962, at exactly its own index: the loop needs no count of the levels a right-most
\* node skips, since it stays the last node until it meets its sibling.
InclusionExact(sizes) ==
    \A n \in sizes : \A i \in 1 .. n :
        LET tree == Subtree(Leaves(n))
            path == tree.paths[i]
        IN  /\ VerifyMerkle(LeafHash(i), i - 1, n, path, tree.root)
            /\ \A j \in 1 .. n :
                  VerifyMerkle(LeafHash(i), j - 1, n, path, tree.root) => j = i
            /\ \A k \in DOMAIN path : \A h \in Nodes(n) \ {path[k]} :
                  ~ VerifyMerkle(LeafHash(i), i - 1, n, [path EXCEPT ![k] = h], tree.root)

\* What session_evidence produces, alone or as a certificate's extension, is inside every
\* limit the client's decoders apply to it, up to the last byte, and the client's own
\* limit on the boot fields (verify_logged_boot) is never the one that decides.
EvidenceFits ==
    \A hashes \in 0 .. MAX_PROOF_HASHES, inclusion \in {1, 9000} :
        \A document \in {1, 5000} \cup
                {MAX_EVIDENCE_BYTES - EvidenceBytes(hashes, 0, inclusion) + d : d \in -1 .. 1} :
            Encodes(hashes, document, inclusion) =>
                LET payload == EvidenceBytes(hashes, document, inclusion) IN
                /\ EvidenceDecodes(payload, hashes, document, inclusion)
                /\ Extends(payload)
                /\ ExtensionDecodes(ExtensionBytes(payload), payload)
                /\ document + inclusion <= MAX_EVIDENCE_BYTES
=============================================================================
