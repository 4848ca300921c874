-------------------------- MODULE MCBlobLifecycle ---------------------------
EXTENDS BlobLifecycle, TLC

CONSTANTS a1, s1, u1, u2, u3, d1, d2, r1, r2

\* Two uploads race for the Send.
SendOnly == u2 :> s1 @@ u3 :> s1

\* One upload for the attachment, one for the Send.
OneEach == u1 :> a1 @@ u2 :> s1
=============================================================================
