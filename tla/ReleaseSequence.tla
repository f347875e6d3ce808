-------------------------- MODULE ReleaseSequence ---------------------------
(***************************************************************************)
(* gateway_release_sequence (crates/verifier/src/lib.rs): the number by    *)
(* which releases are ordered, read off a tag such as v1.4.12.  A tag is   *)
(* whether it starts with v and its dot-separated parts; a part says       *)
(* whether it is canonical (digits only, no leading zero) and its value.   *)
(***************************************************************************)
EXTENDS Integers, Sequences

CONSTANTS
    ComponentBase,  \* 10^6 in the code: minor and patch stay below it
    MaxSequence     \* 2^53 - 1 in the code: the largest safe JSON integer

ASSUME SequenceAssumption == ComponentBase \in Nat \ {0} /\ MaxSequence \in Nat

Part == [canonical : BOOLEAN, value : Nat]

Tag == [v : BOOLEAN, parts : Seq(Part)]

\* A patch level of the base itself is let through.
TagParsesInclusive(tag) ==
    /\ tag.v
    /\ Len(tag.parts) = 3
    /\ \A n \in 1 .. 3 : tag.parts[n].canonical
    /\ tag.parts[2].value < ComponentBase
    /\ tag.parts[3].value <= ComponentBase

\* Exactly three canonical parts, the last two below the base.
TagParses(tag) ==
    /\ tag.v
    /\ Len(tag.parts) = 3
    /\ \A n \in 1 .. 3 : tag.parts[n].canonical
    /\ tag.parts[2].value < ComponentBase
    /\ tag.parts[3].value < ComponentBase

\* The components as digits of one number.  The code's checked u64 arithmetic overflows
\* only beyond MaxSequence, where it gives up as well.
Spelled(tag) ==
    (tag.parts[1].value * ComponentBase + tag.parts[2].value) * ComponentBase
        + tag.parts[3].value

\* The sequence of a tag; 0, which is no sequence, where the code returns None.
GatewayReleaseSequence(tag) ==
    IF TagParses(tag) /\ Spelled(tag) \in 1 .. MaxSequence THEN Spelled(tag) ELSE 0

-----------------------------------------------------------------------------
\* Semantic versions in their own order.
Before(t, u) ==
    LET a == t.parts  b == u.parts IN
    \/ a[1].value < b[1].value
    \/ /\ a[1].value = b[1].value
       /\ \/ a[2].value < b[2].value
          \/ a[2].value = b[2].value /\ a[3].value < b[3].value

\* Two tags that have sequences are ordered by them as their versions are, and no two
\* versions share one: the number that approvals and manifests compare instead of the tag
\* can neither reorder nor confuse releases (gateway_release_sequence).
SequenceOrders(tags) ==
    \A t, u \in tags :
        GatewayReleaseSequence(t) # 0 /\ GatewayReleaseSequence(u) # 0 =>
            /\ GatewayReleaseSequence(t) < GatewayReleaseSequence(u) <=> Before(t, u)
            /\ GatewayReleaseSequence(t) = GatewayReleaseSequence(u) =>
                  \A n \in 1 .. 3 : t.parts[n].value = u.parts[n].value
=============================================================================
