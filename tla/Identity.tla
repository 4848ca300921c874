------------------------------ MODULE Identity ------------------------------
(***************************************************************************)
(* Registration, the second factors and sign-in with another device, side  *)
(* by side.  They write different tables and columns: whatever one does    *)
(* leaves the rows and the requests of the others alone, so that a         *)
(* behaviour drives one of them from any of its initial states while the   *)
(* others rest in their first.  Each keeps its own properties.             *)
(***************************************************************************)
EXTENDS Registration, TwoFactor, DeviceApproval

\* The component a behaviour drives.
VARIABLE active

Components == {"registration", "twoFactor", "deviceApproval"}

vars == <<active, registrationVars, twoFactorVars, deviceApprovalVars>>

\* Invariant: the rows and the requests of the driven component have the shapes
\* its tables and handlers give them; the others stay as they began.
TypeOK ==
  /\ active \in Components
  /\ active = "registration" => RegistrationTypeOK
  /\ active = "twoFactor" => TwoFactorTypeOK
  /\ active = "deviceApproval" => DeviceApprovalTypeOK

\* Where a component that does nothing stands.
QuietRegistration ==
  /\ RegistrationInit
  /\ policy = [signupsAllowed |-> FALSE, invitationsAllowed |-> FALSE]

QuietTwoFactor ==
  /\ TwoFactorInit
  /\ account = [stamp |-> 0, totp |-> Nil, recovery |-> Nil, yubikeys |-> {}]
  /\ passkeys = [k \in Keys |-> Nil]

Init ==
  /\ active \in Components
  /\ IF active = "registration" THEN RegistrationInit ELSE QuietRegistration
  /\ IF active = "twoFactor" THEN TwoFactorInit ELSE QuietTwoFactor
  /\ DeviceApprovalInit

Next ==
  \/ /\ active = "registration" /\ UNCHANGED <<active, twoFactorVars, deviceApprovalVars>>
     /\ RegistrationNext
  \/ /\ active = "twoFactor" /\ UNCHANGED <<active, registrationVars, deviceApprovalVars>>
     /\ TwoFactorNext
  \/ /\ active = "deviceApproval" /\ UNCHANGED <<active, registrationVars, twoFactorVars>>
     /\ DeviceApprovalNext

Spec == Init /\ [][Next]_vars
=============================================================================
