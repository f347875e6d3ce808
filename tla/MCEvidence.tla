----------------------------- MODULE MCEvidence -----------------------------
(***************************************************************************)
(* Small instances of Evidence.  The documents are chosen so that every    *)
(* comparison the code makes has both outcomes: two manifests of one       *)
(* generation, a renewal by the same key with a later and with an earlier  *)
(* deadline, a rotation, two approvals of one revision, two sets of rules  *)
(* of one policy version, two Sigstore trust roots, and lists of equal and *)
(* of higher number with later and earlier dates.                          *)
(***************************************************************************)
EXTENDS Evidence

Manifest(generation, expires, key, serial) ==
    [generation |-> generation, expires_at |-> expires, active_key |-> key,
     serial |-> serial]

MCKeyManifests ==
    {Manifest(1, 3, 1, 1), Manifest(1, 3, 1, 2),
     Manifest(2, 3, 1, 1), Manifest(2, 1, 1, 1), Manifest(3, 3, 2, 1)}

MCRelease == [id |-> 1, proof |-> 1, trusted |-> {1}, built |-> 1]

Approval(keys, revision, version, rules, sigstore, releases) ==
    [keys |-> keys, signer |-> keys.active_key, revision |-> revision,
     sigstore |-> sigstore,
     hardware_policy |-> [version |-> version, rules |-> rules], releases |-> releases]

MCApprovals ==
    {Approval(Manifest(1, 3, 1, 1), 1, 1, 1, 1, {MCRelease}),
     Approval(Manifest(1, 3, 1, 1), 1, 1, 1, 2, {}),
     Approval(Manifest(1, 3, 1, 1), 2, 1, 2, 1, {}),
     Approval(Manifest(1, 3, 1, 1), 3, 2, 1, 2, {MCRelease}),
     Approval(Manifest(1, 3, 1, 2), 1, 1, 1, 1, {}),
     Approval(Manifest(2, 3, 1, 1), 1, 1, 1, 1, {}),
     Approval(Manifest(2, 1, 1, 1), 1, 1, 1, 1, {}),
     Approval(Manifest(3, 3, 2, 1), 1, 1, 2, 1, {MCRelease})}

RevocationList(number, start, end, revoked) ==
    [issuer |-> 1, number |-> number, start |-> start, end |-> end, revoked |-> revoked]

MCCrls ==
    {RevocationList(1, 1, 2, {}), RevocationList(2, 1, 3, {1}),
     RevocationList(2, 1, 3, {}), RevocationList(3, 0, 3, {})}

MCDeliveries == {<<>>} \cup {<<c>> : c \in MCCrls} \cup {<<None, c>> : c \in MCCrls}

MCPlatformSets ==
    {{[chip |-> 1, issuer |-> 1, ask_serial |-> 1, start |-> 0, end |-> 3]}}
=============================================================================
