---- MODULE MCVault ----
(* Finite instances of Vault. *)
EXTENDS Vault, TLC

CONSTANTS u1

FoldersOfOne == [f \in Folders |-> u1]

Interchangeable ==
  Permutations(Requests) \cup Permutations(Ciphers)
    \cup Permutations(FolderRequests)
====
