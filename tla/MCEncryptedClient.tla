-------------------------- MODULE MCEncryptedClient --------------------------
(* EncryptedClient for the model checker: tasks are interchangeable.       *)
EXTENDS EncryptedClient, TLC

Symmetric == Permutations(Tasks)
=============================================================================
