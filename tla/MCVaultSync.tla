---- MODULE MCVaultSync ----
(* Finite instances of VaultSync. *)
EXTENDS VaultSync, TLC

CONSTANTS u1

FoldersOfOne == [f \in Folders |-> u1]

Interchangeable ==
  Permutations(Requests) \cup Permutations(Ciphers)
    \cup Permutations(FolderRequests)
====
