--------------------------- MODULE DeviceApproval ---------------------------
(***************************************************************************)
(* Signing in with the master password or with another device's approval,  *)
(* and the lockout both share.  A sign-in reads the lock, the account and  *)
(* the approval one after the other, waits for the second factor (for      *)
(* ever, if that is refused) and ends in one D1 batch that claims the      *)
(* approval, stores the session and clears the failures; a failed proof is *)
(* counted by one upsert.  Prompts and sign-ins are numbered as they       *)
(* arrive.  Time is in a unit in which the windows are short.              *)
(***************************************************************************)
EXTENDS Integers, FiniteSets

CONSTANTS MaxSignIns, \* bound: sign-ins in one behaviour
          MaxPrompts, \* bound: auth requests made
          MaxClock,   \* bound: the clock
          MaxStamps,  \* bound: how often the security stamp is renewed
          Terminals,  \* the devices that ask to be let in
          FailureLimit, FailureWindow, LockoutTime, \* LIMITS.auth
          PromptTtl,  \* AUTH_REQUEST_TTL_SECONDS
          Retention,  \* LOGIN_ATTEMPT_RETENTION_SECONDS
          Void        \* SQL NULL, or no row

VARIABLES
  clock,
  stamp,     \* users: the security stamp
  prompts,   \* auth_requests
  attempts,  \* login_attempts: the account's row
  signIns,   \* the sign-ins in flight
  admitted,  \* history: which sign-in each prompt let in
  failures   \* history: when failures were counted since the row was made

deviceApprovalVars ==
  <<clock, stamp, prompts, attempts, signIns, admitted, failures>>

SignInIds == 1..MaxSignIns
PromptIds == 1..MaxPrompts
Times == 0..MaxClock

AuthRequestRow ==
  [row : {"unmade", "made", "deleted"}, terminal : Terminals \cup {Void},
   type : {0, 1}, created : Times, approved : BOOLEAN \cup {Void},
   token : SignInIds \cup {Void}]
LoginAttemptRow ==
  [count : Nat, windowStart : Times, lockedUntil : Nat \cup {Void}, updated : Times]
SignIn ==
  [stage : {"waiting", "account", "proof", "failed", "session", "answered"},
   prompt : PromptIds \cup {Void}, right : BOOLEAN, seen : 0..MaxStamps]

ASSUME DeviceApprovalAssumption ==
  /\ {MaxSignIns, MaxPrompts, MaxClock, MaxStamps, PromptTtl} \subseteq Nat
  /\ {FailureLimit, FailureWindow, LockoutTime} \subseteq Nat \ {0}
  /\ Retention \in Nat /\ Retention >= LockoutTime
  /\ Void \notin Int \cup BOOLEAN \cup LoginAttemptRow

Unasked == [row |-> "unmade", terminal |-> Void, type |-> 0, created |-> 0,
            approved |-> Void, token |-> Void]
Unstarted == [stage |-> "waiting", prompt |-> Void, right |-> FALSE, seen |-> 0]

\* Invariant: the rows and the requests have the shapes the schema and the
\* handlers give them.
DeviceApprovalTypeOK ==
  /\ clock \in Times
  /\ stamp \in 0..MaxStamps
  /\ prompts \in [PromptIds -> AuthRequestRow]
  /\ attempts \in LoginAttemptRow \cup {Void}
  /\ signIns \in [SignInIds -> SignIn]
  /\ admitted \subseteq [prompt : PromptIds, by : SignInIds]
  /\ failures \subseteq [at : Times, by : SignInIds]

DeviceApprovalInit ==
  /\ clock = 0
  /\ stamp = 0
  /\ prompts = [p \in PromptIds |-> Unasked]
  /\ attempts = Void
  /\ signIns = [n \in SignInIds |-> Unstarted]
  /\ admitted = {}
  /\ failures = {}

-----------------------------------------------------------------------------
(* Prompts. *)

InTime(p) == prompts[p].created >= clock - PromptTtl
Undecided(p) == prompts[p].row = "made" /\ prompts[p].approved = Void

createAuthRequest(p) ==
  /\ prompts[p].row = "unmade"
  /\ p > 1 => prompts[p - 1].row # "unmade"
  /\ \E terminal \in Terminals, type \in {0, 1} :
       prompts' = [prompts EXCEPT ![p] =
         [Unasked EXCEPT !.row = "made", !.terminal = terminal, !.type = type,
                         !.created = clock]]
  /\ UNCHANGED <<clock, stamp, attempts, signIns, admitted, failures>>

\* A device that is signed in decides, once; it may turn down an older prompt
\* but only approves the newest its terminal is waiting for.
approveAuthRequest(p, approved) ==
  /\ Undecided(p)
  /\ prompts[p].token = Void
  /\ InTime(p)
  /\ approved => \A newer \in p + 1..MaxPrompts :
       ~(Undecided(newer) /\ prompts[newer].terminal = prompts[p].terminal)
  /\ prompts' = [prompts EXCEPT ![p].approved = approved]
  /\ UNCHANGED <<clock, stamp, attempts, signIns, admitted, failures>>

-----------------------------------------------------------------------------
(* handlePasswordGrant. *)

Locked == attempts # Void /\ attempts.lockedUntil # Void /\ attempts.lockedUntil > clock

Answered(n) == [signIns EXCEPT ![n] = [Unstarted EXCEPT !.stage = "answered"]]
Moves(n, stage) == [signIns EXCEPT ![n].stage = stage]

\* With the password or a prompt's access code, which may be wrong.
readLock(n) ==
  /\ signIns[n].stage = "waiting"
  /\ n > 1 => signIns[n - 1].stage # "waiting"
  /\ IF Locked THEN signIns' = Answered(n)
     ELSE \E right \in BOOLEAN,
             p \in {Void} \cup {q \in PromptIds : prompts[q].row # "unmade"} :
            signIns' = [signIns EXCEPT ![n] =
              [Unstarted EXCEPT !.stage = "account", !.prompt = p, !.right = right]]
  /\ UNCHANGED <<clock, stamp, prompts, attempts, admitted, failures>>

readUser(n) ==
  /\ signIns[n].stage = "account"
  /\ signIns' = [signIns EXCEPT ![n].stage = "proof", ![n].seen = stamp]
  /\ UNCHANGED <<clock, stamp, prompts, attempts, admitted, failures>>

\* A prompt stands for the password once a device has approved it.
Approved(p) ==
  prompts[p].row = "made" /\ prompts[p].type = 0 /\ prompts[p].approved = TRUE

verifyProof(n) ==
  LET s == signIns[n]
      valid == /\ s.right
               /\ s.prompt # Void => /\ Approved(s.prompt)
                                     /\ prompts[s.prompt].token = Void
                                     /\ InTime(s.prompt)
  IN  /\ s.stage = "proof"
      /\ signIns' = Moves(n, IF valid THEN "session" ELSE "failed")
      /\ UNCHANGED <<clock, stamp, prompts, attempts, admitted, failures>>

\* Deviation: the window of the first failure never ends.
RunsOn == attempts # Void

\* The row's window has not ended.
Running == attempts # Void /\ clock - attempts.windowStart < FailureWindow

\* The upsert: count on within the window or start a new one, and lock the
\* account at the limit.
recordLoginFailure(n) ==
  LET count == IF Running THEN attempts.count + 1 ELSE 1
  IN  /\ signIns[n].stage = "failed"
      /\ attempts' = [count |-> count,
                      windowStart |-> IF Running THEN attempts.windowStart ELSE clock,
                      lockedUntil |-> IF count >= FailureLimit
                                        THEN clock + LockoutTime ELSE Void,
                      updated |-> clock]
      /\ failures' = failures \cup {[at |-> clock, by |-> n]}
      /\ signIns' = Answered(n)
      /\ UNCHANGED <<clock, stamp, prompts, admitted>>

\* Deviation: the claim trusts the prompt as the sign-in read it.
ClaimableBlind(p) == prompts[p].row = "made"

\* The claim: the prompt is approved, in time, and nobody has used it.
Claimable(p) == Approved(p) /\ prompts[p].token = Void /\ InTime(p)

\* The failures go with the session's row, so only if there is one.
ClearFailures == attempts' = Void /\ failures' = {}

issueSession(n) ==
  LET s == signIns[n]
  IN  /\ s.stage = "session"
      /\ signIns' = Answered(n)
      /\ IF s.seen = stamp /\ (s.prompt # Void => Claimable(s.prompt))
           THEN /\ ClearFailures
                /\ IF s.prompt = Void THEN UNCHANGED <<prompts, admitted>>
                   ELSE /\ prompts' = [prompts EXCEPT ![s.prompt].token = n]
                        /\ admitted' = admitted \cup {[prompt |-> s.prompt, by |-> n]}
           ELSE UNCHANGED <<prompts, admitted, attempts, failures>>
      /\ UNCHANGED <<clock, stamp>>

-----------------------------------------------------------------------------
(* What goes on meanwhile. *)

\* Some handler renews the account's security stamp.
RenewStamp ==
  /\ stamp < MaxStamps
  /\ stamp' = stamp + 1
  /\ UNCHANGED <<clock, prompts, attempts, signIns, admitted, failures>>

\* Maintenance deletes old prompts, and failures nobody has added to for long.
cleanUp ==
  /\ prompts' = [p \in PromptIds |->
       IF prompts[p].row = "made" /\ ~InTime(p)
         THEN [prompts[p] EXCEPT !.row = "deleted"] ELSE prompts[p]]
  /\ IF attempts # Void /\ attempts.updated <= clock - Retention
       THEN ClearFailures ELSE UNCHANGED <<attempts, failures>>
  /\ UNCHANGED <<clock, stamp, signIns, admitted>>

Tick ==
  /\ clock < MaxClock
  /\ clock' = clock + 1
  /\ UNCHANGED <<stamp, prompts, attempts, signIns, admitted, failures>>

DeviceApprovalNext ==
  \/ \E p \in PromptIds : \/ createAuthRequest(p)
                          \/ \E approved \in BOOLEAN : approveAuthRequest(p, approved)
  \/ \E n \in SignInIds : \/ readLock(n) \/ readUser(n) \/ verifyProof(n)
                          \/ recordLoginFailure(n) \/ issueSession(n)
  \/ RenewStamp
  \/ cleanUp
  \/ Tick

DeviceApprovalSpec == DeviceApprovalInit /\ [][DeviceApprovalNext]_deviceApprovalVars

-----------------------------------------------------------------------------
(* Properties. *)

\* Invariant: a prompt lets at most one sign-in in, one made to sign in and
\* approved, and its row names that sign-in, however many present the access
\* code at once, with a second factor to wait for or a decision on the way
\* (authRequestConsumptionClaimQuery).
ApprovalsLetInOnce ==
  \A a \in admitted :
    /\ prompts[a.prompt].token = a.by
    /\ prompts[a.prompt].type = 0
    /\ prompts[a.prompt].approved = TRUE

\* Invariant: the row counts every failure of its window, none twice and none
\* of an earlier one, and the account is locked for the full time after the
\* failure that reached the limit (recordLoginFailure's upsert).
FailuresAreCounted ==
  IF attempts = Void THEN failures = {}
  ELSE LET window == {f \in failures : f.at >= attempts.windowStart}
       IN  /\ attempts.count = Cardinality(window)
           /\ \A f \in window : f.at < attempts.windowStart + FailureWindow
           /\ Cardinality(window) >= FailureLimit =>
                \A f \in window : attempts.lockedUntil >= f.at + LockoutTime
=============================================================================
