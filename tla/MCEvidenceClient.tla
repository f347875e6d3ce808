-------------------------- MODULE MCEvidenceClient --------------------------
(***************************************************************************)
(* EvidenceClient for the model checker: the second root decision renews   *)
(* the online key, with approvals that withdraw the channel's release; the *)
(* third one rotates the key and approves the release again.               *)
(***************************************************************************)
EXTENDS EvidenceClient, TLC

Delivery(generation, revokes, complete) ==
    [generation |-> generation, revokes |-> revokes, complete |-> complete]

MCRenewal == <<1, 1, 2>>

MCRenewalBundles ==
    {Delivery(2, FALSE, TRUE), Delivery(2, FALSE, FALSE), Delivery(3, FALSE, TRUE),
     Delivery(3, TRUE, FALSE)}

MCSymmetry == Permutations(Preparers)
=============================================================================
