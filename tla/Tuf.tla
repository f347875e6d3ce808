-------------------------------- MODULE Tuf ---------------------------------
(***************************************************************************)
(* crates/offline-sigstore/src/tuf.rs: how the verifier gets from the TUF  *)
(* root it was compiled with to the Sigstore keys that evidence carries.   *)
(* Clients check the chain of roots and the listing of the trusted root,   *)
(* without a clock; a publisher also checks that Sigstore's own time stamp *)
(* and snapshot name these files now.                                      *)
(*                                                                         *)
(* Metadata is what is signed, the signatures over it by key id and the    *)
(* length of the file.  A file's digest is the file itself, a listing's    *)
(* length and digest are optional.                                         *)
(***************************************************************************)
EXTENDS Sigstore

ROLES == {"root", "targets", "snapshot", "timestamp"}

\* Metadata::parse; signatures of one key id cannot occur twice in a function.
MetadataParses(metadata, kind) ==
    metadata.signed.type = kind /\ metadata.signed.version > 0

\* Root::parse: keys of another type are left out, a role's key ids are distinct.
SupportedKeys(signed) == {id \in DOMAIN signed.keys : signed.keys[id].ecdsa}

RootParses(signed) ==
    \A role \in ROLES :
        /\ role \in DOMAIN signed.roles
        /\ IsInjective(signed.roles[role].keyids)
        /\ signed.roles[role].threshold > 0

\* Root::verify: the keys, not the key ids, that signed for the role of this metadata.
SigningIds(root, metadata) ==
    {id \in ToSet(root.roles[metadata.signed.type].keyids) \cap SupportedKeys(root)
               \cap DOMAIN metadata.signatures :
        metadata.signatures[id] = Signature(root.keys[id].public, metadata.signed)}

RootVerifiesByIds(root, metadata) ==
    Cardinality(SigningIds(root, metadata)) >= root.roles[metadata.signed.type].threshold

RootVerifies(root, metadata) ==
    Cardinality({root.keys[id].public : id \in SigningIds(root, metadata)})
       >= root.roles[metadata.signed.type].threshold

\* newest_root: each file continues the version before it, and is signed by the root
\* before it and by itself.
RootFollows(current, metadata) ==
    /\ MetadataParses(metadata, "root")
    /\ metadata.signed.version = current.version + 1
    /\ RootVerifies(current, metadata)
    /\ RootParses(metadata.signed)
    /\ RootVerifies(metadata.signed, metadata)

RootsContinue(compiled, roots) ==
    \A n \in DOMAIN roots :
        RootFollows(IF n = 1 THEN compiled ELSE roots[n - 1].signed, roots[n])

NewestRoot(compiled, roots) == IF roots = <<>> THEN compiled ELSE Last(roots).signed

\* check_file: what a listing says of a file holds for it.
CheckFile(listing, file) ==
    /\ \A length \in ToSet(listing.length) : length = file.length
    /\ \A digest \in ToSet(listing.sha256) : digest = file.content

\* verify_targets: only the top-level listing counts, and it gives length and digest.
TargetsVerify(root, targets, trusted_root) ==
    /\ MetadataParses(targets, "targets")
    /\ RootVerifies(root, targets)
    /\ "trusted_root.json" \in DOMAIN targets.signed.files
    /\ LET listing == targets.signed.files["trusted_root.json"] IN
       /\ listing.length # <<>> /\ listing.sha256 # <<>>
       /\ CheckFile(listing, trusted_root)
    /\ RootComplete(trusted_root.content)

\* verify_trust_update, the result being the trusted root of these files.
TrustUpdateVerifies(compiled, files) ==
    /\ RootsContinue(compiled, files.roots)
    /\ TargetsVerify(NewestRoot(compiled, files.roots), files.targets, files.trusted_root)

\* listed_file: the version the newer metadata names for a file it lists.
ListedFile(metadata, name, file, version) ==
    /\ name \in DOMAIN metadata.signed.files
    /\ CheckFile(metadata.signed.files[name], [length |-> file.length, content |-> file])
    /\ metadata.signed.files[name].version = version

Current(signed, now) == signed.expires > Seconds(now)

\* verify_current_trust_update, in the order the metadata name one another.
CurrentUpdateVerifies(compiled, files, snapshot, timestamp, now) ==
    LET root == NewestRoot(compiled, files.roots) IN
    /\ RootsContinue(compiled, files.roots)
    /\ Current(root, now)
    /\ MetadataParses(timestamp, "timestamp") /\ RootVerifies(root, timestamp)
    /\ Current(timestamp.signed, now)
    /\ ListedFile(timestamp, "snapshot.json", snapshot, snapshot.signed.version)
    /\ MetadataParses(snapshot, "snapshot") /\ RootVerifies(root, snapshot)
    /\ Current(snapshot.signed, now)
    /\ ListedFile(snapshot, "targets.json", files.targets, files.targets.signed.version)
    /\ TargetsVerify(root, files.targets, files.trusted_root)
    /\ Current(files.targets.signed, now)

-----------------------------------------------------------------------------
(* Properties, over the files of an instance.                              *)

\* The holders of a root's keys who signed a file, by what they signed and not by key id.
Holders(root, metadata) ==
    LET signed == {metadata.signatures[id] : id \in DOMAIN metadata.signatures} IN
    {key \in {root.keys[id].public : id \in ToSet(root.roles["root"].keyids)} :
        Signature(key, metadata.signed) \in signed}

\* Whenever a list of roots is accepted it leaves no version out, and a threshold of
\* different key holders both of the root before it, the compiled one included, and of the
\* file itself signed each file, however many ids a key is listed under (newest_root).
QuorumOfHolders(compiled, lists) ==
    \A roots \in lists : RootsContinue(compiled, roots) =>
        /\ NewestRoot(compiled, roots).version = compiled.version + Len(roots)
        /\ \A n \in DOMAIN roots :
              \A root \in {IF n = 1 THEN compiled ELSE roots[n - 1].signed, roots[n].signed} :
                  Cardinality(Holders(root, roots[n])) >= root.roles["root"].threshold
=============================================================================
