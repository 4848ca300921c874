----------------------------- MODULE MCStorage ------------------------------
(* Finite instances of Storage. *)
EXTENDS Storage, TLC

CONSTANTS a1, s1, u1, u2

\* One upload for the attachment, one for the Send.
OneEach == u1 :> a1 @@ u2 :> s1
=============================================================================
