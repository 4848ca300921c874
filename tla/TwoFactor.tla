----------------------------- MODULE TwoFactor -----------------------------
(***************************************************************************)
(* The second factors of one account: an authenticator app, YubiKeys and   *)
(* passkeys, the recovery code that stands in for them, and the passkeys   *)
(* that sign in by themselves.  A sign-in reads the account, proves a      *)
(* factor and asks for a session under the security stamp it read; every   *)
(* change of the factors is one D1 batch that renews the stamp and deletes *)
(* the sessions.  Requests are numbered as they arrive, and a request's    *)
(* number is the stamp, secret or recovery code it makes; 0 is what the    *)
(* account began with.                                                     *)
(***************************************************************************)
EXTENDS Naturals, FiniteSets

CONSTANTS MaxRequests, \* bound: requests in one behaviour
          MaxCounter,  \* bound: signature counters
          MaxChallenges, \* bound: WebAuthn challenges made
          MaxPasskeys, \* MAX_TWO_FACTOR_PASSKEYS and MAX_ACCOUNT_PASSKEYS
          Keys,        \* WebAuthn credentials, by credential id
          YubiKeys,    \* YubiKeys, by public id
          Nil          \* SQL NULL, or no row

VARIABLES
  account,    \* users: the stamp, the secrets and the YubiKeys
  passkeys,   \* webauthn_credentials, by credential id
  challenges, \* webauthn_challenges
  sessions,   \* refresh_tokens: who signed in, and with which proof
  issued,     \* the stamps some access token carries
  exchange,   \* the requests in flight
  spent       \* history: challenges and recovery codes, and who used them

twoFactorVars ==
  <<account, passkeys, challenges, sessions, issued, exchange, spent>>

Exchanges == 1..MaxRequests
Stamps == 0..MaxRequests
Challenges == 1..MaxChallenges
Purposes == {"login", "twoFactor"}

AccountRow == [stamp : Stamps, totp : Stamps \cup {Nil},
               recovery : Stamps \cup {Nil}, yubikeys : SUBSET YubiKeys]

SignIns == {"password", "passkey"}
Removals == {"disableTotp", "disableAll", "recover", "disableYubikeys",
             "deletePasskey", "deleteAllPasskeys"}
Additions == {"enableTotp", "saveYubikeys", "createPasskey"}

\* What a sign-in may have shown besides the password.
Proofs == {<<"none">>, <<"recovery">>} \cup ({"totp"} \X Stamps)
            \cup ({"yubikey"} \X YubiKeys) \cup ({"passkey"} \X Keys)

PasskeyRow == [purpose : Purposes, counter : 0..MaxCounter, token : Stamps]

ChallengeRow == [state : {"unmade", "open", "closed"},
                 scope : {"login", "register", "action"}, purpose : Purposes]

ExchangeRow ==
  [stage : {"waiting", "user", "credential", "owner", "claim", "recovery",
            "reread", "session", "count", "unique", "last", "commit",
            "answered"},
   kind : SignIns \cup Removals \cup Additions \cup {"none"},
   provider : {"none", "totp", "yubikey", "passkey", "recovery"},
   seen : AccountRow \cup {Nil}, purpose : Purposes,
   key : Keys \cup {Nil}, challenge : Challenges \cup {Nil},
   counter : 0..MaxCounter, found : 0..MaxCounter,
   yubikeys : SUBSET YubiKeys, proof : Proofs]

ASSUME TwoFactorAssumption ==
  /\ {MaxRequests, MaxCounter, MaxChallenges, MaxPasskeys} \subseteq Nat
  /\ IsFiniteSet(Keys)
  /\ Nil \notin Nat \cup Keys \cup YubiKeys \cup AccountRow \cup PasskeyRow

Waiting ==
  [stage |-> "waiting", kind |-> "none", provider |-> "none", seen |-> Nil,
   purpose |-> "twoFactor", key |-> Nil, challenge |-> Nil, counter |-> 0,
   found |-> 0, yubikeys |-> {}, proof |-> <<"none">>]

\* Invariant: the rows and the requests have the shapes the schema and the
\* handlers give them.
TwoFactorTypeOK ==
  /\ account \in AccountRow
  /\ passkeys \in [Keys -> PasskeyRow \cup {Nil}]
  /\ challenges \in [Challenges -> ChallengeRow]
  /\ sessions \subseteq [by : Exchanges, proof : Proofs]
  /\ issued \subseteq Stamps
  /\ exchange \in [Exchanges -> ExchangeRow]
  /\ spent \subseteq [what : {"challenge", "recovery"},
                      id : Challenges \cup Stamps, by : Exchanges]

-----------------------------------------------------------------------------
(* The rows requests look up. *)

KeysFor(purpose) ==
  {k \in Keys : passkeys[k] # Nil /\ passkeys[k].purpose = purpose}

\* Every second factor that is on.
SecondFactors ==
  (IF account.totp = Nil THEN {} ELSE {<<"totp", account.totp>>})
    \cup ({"yubikey"} \X account.yubikeys)
    \cup ({"passkey"} \X KeysFor("twoFactor"))

Open(h, scope) == challenges[h].state = "open" /\ challenges[h].scope = scope

Ask(n, request) == [exchange EXCEPT ![n] = request]

\* What is left of a request that has been answered.
Answer(n) == [exchange EXCEPT ![n] = [Waiting EXCEPT !.stage = "answered"]]

\* An account with up to two factors on, or passkeys to sign in with.  Turning
\* the authenticator off takes the recovery code along, so other factors may
\* be left without one.
TwoFactorInit ==
  /\ account \in [stamp : {0}, totp : {0, Nil}, recovery : {0, Nil},
                  yubikeys : SUBSET YubiKeys]
  /\ account.totp = 0 => account.recovery = 0
  /\ passkeys \in [Keys -> {Nil} \cup
       [purpose : Purposes, counter : {0}, token : {0}]]
  /\ \A purpose \in Purposes : Cardinality(KeysFor(purpose)) <= MaxPasskeys
  /\ Cardinality(SecondFactors \cup KeysFor("login")) <= 2
  /\ challenges = [h \in Challenges |->
       [state |-> "unmade", scope |-> "login", purpose |-> "login"]]
  /\ sessions = {}
  /\ issued = {0}
  /\ exchange = [n \in Exchanges |-> Waiting]
  /\ spent = {}

-----------------------------------------------------------------------------
(* Challenges. *)

Authenticated == account.stamp \in issued

\* The four endpoints that make one: to sign in with a passkey, to register
\* a passkey for either purpose, and to answer a sign-in that needs one.
\* (One is made only while a request may still arrive that presents it.)
saveAccountPasskeyChallenge(h) ==
  /\ challenges[h].state = "unmade"
  /\ h > 1 => challenges[h - 1].state # "unmade"
  /\ \E n \in Exchanges : exchange[n].stage = "waiting"
  /\ \E scope \in {"login", "register", "action"}, purpose \in Purposes :
       /\ scope = "login" => purpose = "login"
       /\ scope = "action" => purpose = "twoFactor" /\ KeysFor(purpose) # {}
       /\ scope = "register" =>
            Authenticated /\ Cardinality(KeysFor(purpose)) < MaxPasskeys
       /\ challenges' = [challenges EXCEPT ![h] =
            [state |-> "open", scope |-> scope, purpose |-> purpose]]
  /\ UNCHANGED <<account, passkeys, sessions, issued, exchange, spent>>

\* Seven or seventeen minutes pass, and maintenance removes the row: while a
\* request that presents the challenge is in flight, or nobody could tell.
LapseChallenge(h) ==
  /\ challenges[h].state = "open"
  /\ \E n \in Exchanges : exchange[n].challenge = h
  /\ challenges' = [challenges EXCEPT ![h].state = "closed"]
  /\ UNCHANGED <<account, passkeys, sessions, issued, exchange, spent>>

-----------------------------------------------------------------------------
(* Requests arrive. *)

Arrives(n) ==
  /\ exchange[n].stage = "waiting"
  /\ n > 1 => exchange[n - 1].stage # "waiting"

Made(scope, purpose) ==
  {h \in Challenges : /\ challenges[h].state # "unmade"
                      /\ challenges[h].scope = scope
                      /\ challenges[h].purpose = purpose}

\* A signed challenge: which one, by which key, with which counter.
Assertions(scope, purpose) ==
  [challenge : Made(scope, purpose), key : Keys, counter : 0..MaxCounter]

Arrived(n, request) ==
  /\ exchange' = Ask(n, request)
  /\ UNCHANGED <<account, passkeys, challenges, sessions, issued, spent>>

\* handlePasswordGrant reads the account; the password is right.
arriveWithPassword(n) ==
  LET asked == [Waiting EXCEPT !.stage = "user", !.kind = "password",
                               !.seen = account]
  IN  /\ Arrives(n)
      /\ \/ \E provider \in {"none", "totp", "recovery"} :
              Arrived(n, [asked EXCEPT !.provider = provider])
         \/ \E y \in YubiKeys :
              Arrived(n, [asked EXCEPT !.provider = "yubikey", !.yubikeys = {y}])
         \/ \E a \in Assertions("action", "twoFactor") :
              Arrived(n, [asked EXCEPT !.provider = "passkey", !.key = a.key,
                            !.challenge = a.challenge, !.counter = a.counter])

arriveWithPasskey(n) ==
  /\ Arrives(n)
  /\ \E a \in Assertions("login", "login") :
       Arrived(n, [Waiting EXCEPT !.stage = "credential", !.kind = "passkey",
                     !.purpose = "login", !.key = a.key,
                     !.challenge = a.challenge, !.counter = a.counter])

\* A change of the factors: the middleware reads the account.  A client that
\* recovers has no session and shows the password and the code instead.
arriveToChange(n) ==
  LET asked(kind, stage) == [Waiting EXCEPT !.stage = stage, !.kind = kind,
                                            !.seen = account]
  IN  /\ Arrives(n)
      /\ \/ Arrived(n, asked("recover", "commit"))
         \/ /\ Authenticated
            /\ \/ \E kind \in {"enableTotp", "disableTotp", "disableAll",
                               "disableYubikeys", "deleteAllPasskeys"} :
                    Arrived(n, asked(kind, "commit"))
               \/ \E some \in SUBSET YubiKeys \ {{}} :
                    Arrived(n, [asked("saveYubikeys", "commit") EXCEPT
                                  !.yubikeys = some])
               \/ \E k \in Keys, purpose \in Purposes :
                    \/ Arrived(n, [asked("deletePasskey", "unique") EXCEPT
                                     !.key = k, !.purpose = purpose])
                    \/ \E h \in Made("register", purpose) :
                         Arrived(n, [asked("createPasskey", "count") EXCEPT
                                       !.key = k, !.purpose = purpose,
                                       !.challenge = h])

-----------------------------------------------------------------------------
(* Signing in. *)

Proceeds(n, request) ==
  /\ exchange' = Ask(n, request)
  /\ UNCHANGED <<account, passkeys, challenges, sessions, issued, spent>>

Ends(n) ==
  /\ exchange' = Answer(n)
  /\ UNCHANGED <<account, passkeys, challenges, sessions, issued, spent>>

\* The number of second-factor passkeys is read after the account, and then
\* the provider's proof is looked at.
countSecondFactors(n) ==
  LET x == exchange[n]
      on == \/ x.seen.totp # Nil \/ x.seen.yubikeys # {}
            \/ KeysFor("twoFactor") # {}
  IN  /\ x.stage = "user"
      /\ \/ /\ ~on
            /\ Proceeds(n, [x EXCEPT !.stage = "session", !.proof = <<"none">>])
         \/ /\ on /\ x.provider = "totp" /\ x.seen.totp # Nil
            /\ Proceeds(n, [x EXCEPT !.stage = "session",
                                     !.proof = <<"totp", x.seen.totp>>])
         \/ /\ on /\ x.provider = "yubikey" /\ x.yubikeys \subseteq x.seen.yubikeys
            /\ \E y \in x.yubikeys :
                 Proceeds(n, [x EXCEPT !.stage = "session", !.proof = <<"yubikey", y>>])
         \/ /\ on /\ x.provider = "passkey"
            /\ Proceeds(n, [x EXCEPT !.stage = "credential"])
         \/ /\ on /\ x.provider = "recovery" /\ x.seen.recovery # Nil
            /\ Proceeds(n, [x EXCEPT !.stage = "recovery"])
         \/ /\ on
            /\ \/ x.provider = "none"
               \/ x.provider = "totp" /\ x.seen.totp = Nil
               \/ x.provider = "yubikey" /\ ~(x.yubikeys \subseteq x.seen.yubikeys)
               \/ x.provider = "recovery" /\ x.seen.recovery = Nil
            /\ Ends(n)

\* The credential is read and the signature verified, which refuses a counter
\* that has not advanced unless the authenticator keeps none.
readCredential(n) ==
  LET x == exchange[n]
      row == passkeys[x.key]
      verified == /\ row # Nil /\ row.purpose = x.purpose
                  /\ x.counter > row.counter \/ {x.counter, row.counter} = {0}
  IN  /\ x.stage = "credential"
      /\ IF verified
           THEN Proceeds(n, [x EXCEPT !.found = row.counter,
                             !.stage = IF x.kind = "passkey" THEN "owner" ELSE "claim"])
           ELSE Ends(n)

\* A sign-in without a password reads the passkey's owner only now.
readOwner(n) ==
  /\ exchange[n].stage = "owner"
  /\ Proceeds(n, [exchange[n] EXCEPT !.stage = "claim", !.seen = account])

\* Deviations: a challenge that was used is good again; the counter is not
\* compared with the one the signature was verified against.
ChallengeTrusted(n) == TRUE
CounterTrusted(n) == passkeys[exchange[n].key] # Nil

\* The challenge is still open, and the counter is the one that was read.
ChallengeHolds(n) ==
  Open(exchange[n].challenge, IF exchange[n].purpose = "login" THEN "login" ELSE "action")
CounterHolds(n) ==
  LET row == passkeys[exchange[n].key]
  IN  row # Nil /\ row.counter = exchange[n].found

claimVerifiedPasskeyAssertion(n) ==
  LET x == exchange[n]
  IN  /\ x.stage = "claim"
      /\ IF ChallengeHolds(n) /\ CounterHolds(n)
           THEN /\ passkeys' = [passkeys EXCEPT ![x.key].counter = x.counter,
                                                ![x.key].token = n]
                /\ challenges' = [challenges EXCEPT ![x.challenge].state = "closed"]
                /\ spent' = spent \cup
                     {[what |-> "challenge", id |-> x.challenge, by |-> n]}
                /\ exchange' = Ask(n, [x EXCEPT !.stage = "session",
                                              !.proof = <<"passkey", x.key>>])
                /\ UNCHANGED <<account, sessions, issued>>
           ELSE Ends(n)

-----------------------------------------------------------------------------
(* Changing the factors. *)

\* The batch renews the stamp, deletes the sessions, and stores the rest.
Commit(n, row, keys, answer) ==
  /\ account' = [row EXCEPT !.stamp = n]
  /\ passkeys' = keys
  /\ sessions' = {}
  /\ exchange' = answer
  /\ UNCHANGED issued

\* Deviation: the YubiKeys' column is emptied to a list of one empty entry.
WithOneEmptyKey == [account EXCEPT !.totp = Nil, !.recovery = Nil, !.yubikeys = {Nil}]

WithoutSecondFactors == [account EXCEPT !.totp = Nil, !.recovery = Nil, !.yubikeys = {}]
LoginPasskeys == [k \in Keys |-> IF k \in KeysFor("twoFactor") THEN Nil ELSE passkeys[k]]

\* Deviation: the row the request read is taken to be the row there is.
StampTrusted(n) == TRUE

StampHolds(n) == account.stamp = exchange[n].seen.stamp
RecoveryHolds(n) ==
  account.recovery # Nil /\ account.recovery = exchange[n].seen.recovery

SpendRecovery(n, answer) ==
  /\ Commit(n, WithoutSecondFactors, LoginPasskeys, answer)
  /\ spent' = spent \cup
       {[what |-> "recovery", id |-> exchange[n].seen.recovery, by |-> n]}
  /\ UNCHANGED challenges

\* The recovery code turns every second factor off and signs in, under the
\* account as it is read again.
consumeRecoveryCode(n) ==
  /\ exchange[n].stage = "recovery"
  /\ IF RecoveryHolds(n)
       THEN SpendRecovery(n, Ask(n, [exchange[n] EXCEPT !.stage = "reread"]))
     ELSE Ends(n)

rereadAccount(n) ==
  /\ exchange[n].stage = "reread"
  /\ Proceeds(n, [exchange[n] EXCEPT !.stage = "session", !.seen = account,
                                     !.proof = <<"recovery">>])

\* The refresh token is inserted only under the stamp that was read.
issueIdentitySession(n) ==
  LET x == exchange[n]
  IN  /\ x.stage = "session"
      /\ IF StampHolds(n)
           THEN /\ sessions' = sessions \cup {[by |-> n, proof |-> x.proof]}
                /\ issued' = issued \cup {x.seen.stamp}
                /\ exchange' = Answer(n)
                /\ UNCHANGED <<account, passkeys, challenges, spent>>
           ELSE Ends(n)

Commits(n, kind) == exchange[n].stage = "commit" /\ exchange[n].kind = kind

recoverTwoFactor(n) ==
  /\ Commits(n, "recover")
  /\ IF RecoveryHolds(n) THEN SpendRecovery(n, Answer(n)) ELSE Ends(n)

\* The rest of the changes, each with the test its first statement makes.
Changes(n, kind, test, row, keys) ==
  /\ Commits(n, kind)
  /\ IF test THEN Commit(n, row, keys, Answer(n)) /\ UNCHANGED <<challenges, spent>>
     ELSE Ends(n)

enableAuthenticator(n) ==
  Changes(n, "enableTotp", StampHolds(n) /\ account.totp = exchange[n].seen.totp,
          [account EXCEPT !.totp = n, !.recovery = n], passkeys)

disableAuthenticator(n) ==
  Changes(n, "disableTotp",
          account.totp # Nil /\ account.totp = exchange[n].seen.totp,
          [account EXCEPT !.totp = Nil, !.recovery = Nil], passkeys)

disableTwoFactor(n) ==
  Changes(n, "disableAll", StampHolds(n), WithoutSecondFactors, LoginPasskeys)

\* COALESCE: the code there is, else the one that was read, else a new one.
RecoveryKept(n) ==
  CHOOSE code \in {account.recovery, exchange[n].seen.recovery, n} :
    /\ code # Nil
    /\ account.recovery # Nil => code = account.recovery
    /\ account.recovery = Nil /\ exchange[n].seen.recovery # Nil
         => code = exchange[n].seen.recovery

saveYubikeys(n) ==
  Changes(n, "saveYubikeys",
          StampHolds(n) /\ account.yubikeys = exchange[n].seen.yubikeys,
          [account EXCEPT !.yubikeys = exchange[n].yubikeys,
                          !.recovery = RecoveryKept(n)], passkeys)

disableYubikeys(n) ==
  Changes(n, "disableYubikeys",
          account.yubikeys # {} /\ account.yubikeys = exchange[n].seen.yubikeys,
          [account EXCEPT !.yubikeys = {}], passkeys)

deleteAllTwoFactorPasskeys(n) ==
  Changes(n, "deleteAllPasskeys", StampHolds(n), account, LoginPasskeys)

\* Registering reads the number of passkeys, then whether this one is known.
countPasskeys(n) ==
  /\ exchange[n].stage = "count"
  /\ IF Cardinality(KeysFor(exchange[n].purpose)) >= MaxPasskeys THEN Ends(n)
     ELSE Proceeds(n, [exchange[n] EXCEPT !.stage = "unique"])

\* Another passkey for sign-in is looked for among those for sign-in only.
lookUpCredential(n) ==
  LET x == exchange[n]
      known == passkeys[x.key] # Nil /\ (x.purpose = "login" =>
                                           passkeys[x.key].purpose = "login")
  IN  /\ x.stage = "unique" /\ x.kind = "createPasskey"
      /\ IF known THEN Ends(n) ELSE Proceeds(n, [x EXCEPT !.stage = "commit"])

createPasskey(n) ==
  LET x == exchange[n]
  IN  /\ Commits(n, "createPasskey")
      /\ IF /\ StampHolds(n)
            /\ passkeys[x.key] = Nil
            /\ Cardinality(KeysFor(x.purpose)) < MaxPasskeys
            /\ Open(x.challenge, "register")
           THEN /\ Commit(n, IF x.purpose = "login" THEN account
                             ELSE [account EXCEPT !.recovery = RecoveryKept(n)],
                          [passkeys EXCEPT ![x.key] =
                             [purpose |-> x.purpose, counter |-> 0, token |-> n]],
                          Answer(n))
                /\ challenges' = [challenges EXCEPT ![x.challenge].state = "closed"]
                /\ spent' = spent \cup
                     {[what |-> "challenge", id |-> x.challenge, by |-> n]}
           ELSE Ends(n)

\* The passkey to delete is read; for the second factor, so is how many there
\* are, since the last one goes with the endpoint that deletes all of them.
readPasskeyToDelete(n) ==
  LET x == exchange[n]
  IN  /\ x.stage = "unique" /\ x.kind = "deletePasskey"
      /\ IF x.key \notin KeysFor(x.purpose) THEN Ends(n)
         ELSE Proceeds(n, [x EXCEPT !.stage =
                             IF x.purpose = "login" THEN "commit" ELSE "last"])

countBeforeDelete(n) ==
  /\ exchange[n].stage = "last"
  /\ IF Cardinality(KeysFor("twoFactor")) <= 1 THEN Ends(n)
     ELSE Proceeds(n, [exchange[n] EXCEPT !.stage = "commit"])

deletePasskey(n) ==
  LET x == exchange[n]
  IN  Changes(n, "deletePasskey", StampHolds(n) /\ x.key \in KeysFor(x.purpose),
              account, [passkeys EXCEPT ![x.key] = Nil])

TwoFactorNext ==
  \/ \E h \in Challenges : saveAccountPasskeyChallenge(h) \/ LapseChallenge(h)
  \/ \E n \in Exchanges :
       \/ arriveWithPassword(n) \/ arriveWithPasskey(n) \/ arriveToChange(n)
       \/ countSecondFactors(n) \/ readCredential(n) \/ readOwner(n)
       \/ claimVerifiedPasskeyAssertion(n) \/ consumeRecoveryCode(n)
       \/ rereadAccount(n) \/ issueIdentitySession(n) \/ recoverTwoFactor(n)
       \/ enableAuthenticator(n) \/ disableAuthenticator(n)
       \/ disableTwoFactor(n) \/ saveYubikeys(n) \/ disableYubikeys(n)
       \/ deleteAllTwoFactorPasskeys(n) \/ countPasskeys(n)
       \/ lookUpCredential(n) \/ createPasskey(n) \/ readPasskeyToDelete(n)
       \/ countBeforeDelete(n) \/ deletePasskey(n)

TwoFactorSpec == TwoFactorInit /\ [][TwoFactorNext]_twoFactorVars

-----------------------------------------------------------------------------
(* Properties. *)

\* Invariant: every session proved one of the factors the account has now, or
\* there was and is none to prove.  A sign-in in flight when the factors
\* change gets no session, and none outlives a change (the stamp each batch
\* renews).  A session by recovery code may be younger than a new factor: the
\* sign-in reads the account again after its batch.
SessionsProveAFactor ==
  \A s \in sessions :
    \/ s.proof \in SecondFactors
    \/ s.proof \in {"passkey"} \X KeysFor("login")
    \/ s.proof = <<"none">> /\ SecondFactors = {}
    \/ s.proof = <<"recovery">>

\* Invariant: a challenge is answered once, by a sign-in or a registration,
\* and a recovery code is good for one request.
ProofsAreSpentOnce ==
  \A x, y \in spent : x.what = y.what /\ x.id = y.id => x.by = y.by

\* Action property: a passkey's counter never goes back, and the endpoint
\* that deletes one passkey never deletes the last second factor among them.
PasskeysAdvanceAndStay ==
  [][/\ \A k \in Keys : passkeys[k] # Nil /\ passkeys'[k] # Nil
          => passkeys'[k].counter >= passkeys[k].counter
     /\ \A n \in Exchanges :
          Commits(n, "deletePasskey") /\ exchange'[n].stage = "answered"
            /\ KeysFor("twoFactor") # {}
            => KeysFor("twoFactor")' # {}]_twoFactorVars
=============================================================================
