----------------------------- MODULE SendAccess -----------------------------
(***************************************************************************)
(* Opening a Send.  A visitor trades the Send's link, and its password if  *)
(* it has one, for an access token, and with it opens the Send: the        *)
(* request reads the row, tests it, and then counts the visit in one       *)
(* guarded statement, which tests the row again; a text is read once more  *)
(* for the answer.  Meanwhile the owner changes and deletes the Send, in   *)
(* requests that read the row in their middleware and write the columns    *)
(* they were given.                                                        *)
(*                                                                         *)
(* The Send's content is left out, and so are purge tokens, which nothing  *)
(* sets.                                                                   *)
(***************************************************************************)
EXTENDS Integers, FiniteSets

CONSTANTS Visitors,
          SendEdits, \* the owner's requests
          Maxima,    \* bound: the values of max_access_count
          LastDay,   \* bound: the clock
          Nothing    \* SQL NULL

ASSUME SendAccessAssumption ==
  /\ IsFiniteSet(Visitors)
  /\ LastDay \in Nat
  /\ Nothing \notin Int
  /\ Maxima \subseteq Nat \cup {Nothing}

VARIABLES
  today,
  send,   \* the sends row
  visit,  \* how far each visitor is
  edit    \* how far each of the owner's requests is, and the count it read

sendAccessVars == <<today, send, visit, edit>>

Days == 0..LastDay
Dates == 0..LastDay + 1

SendRow ==
  [type : {"text", "file"}, disabled : BOOLEAN, deletes : Dates,
   expires : Dates \cup {Nothing}, max : Maxima, count : Nat]

\* A visit ends "opened", or "unopened" if it was counted and then met a
\* deleted Send.
SendAccessTypeOK ==
  /\ today \in Days
  /\ send \in SendRow
  /\ visit \in [Visitors -> {"new", "token", "read", "counted", "opened",
                             "unopened", "refused"}]
  /\ edit \in [SendEdits -> [stage : {"new", "read", "done"}, count : Nat]]

SendAccessInit ==
  /\ today = 0
  /\ \E type \in {"text", "file"}, max \in Maxima :
       send = [type |-> type, disabled |-> FALSE, deletes |-> LastDay + 1,
               expires |-> Nothing, max |-> max, count |-> 0]
  /\ visit = [v \in Visitors |-> "new"]
  /\ edit = [w \in SendEdits |-> [stage |-> "new", count |-> 0]]

-----------------------------------------------------------------------------
(* What the handlers and the statement test. *)

\* getSendById's WHERE.
Undeleted == send.deletes > today

BelowMaximum == send.max # Nothing => send.count < send.max

Offered == ~send.disabled /\ (send.expires # Nothing => send.expires > today)

isSendAvailable ==
  Offered /\ (send.max # Nothing => ~(send.count >= send.max))

-----------------------------------------------------------------------------
(* Visitors. *)

VisitBecomes(v, stage) == visit' = [visit EXCEPT ![v] = stage]

\* With a wrong password there is no token.
grantSendAccess(v) ==
  /\ visit[v] = "new"
  /\ Undeleted /\ isSendAvailable
  /\ VisitBecomes(v, "token")
  /\ UNCHANGED <<today, send, edit>>

\* A file that was never uploaded, or was not uploaded whole, is refused.
accessSendWithToken(v) ==
  /\ visit[v] = "token"
  /\ \/ Undeleted /\ isSendAvailable /\ VisitBecomes(v, "read")
     \/ /\ send.type = "file" \/ ~Undeleted \/ ~isSendAvailable
        /\ VisitBecomes(v, "refused")
  /\ UNCHANGED <<today, send, edit>>

consumeAccess(v) ==
  /\ visit[v] = "read"
  /\ IF Undeleted /\ Offered /\ BelowMaximum
       THEN /\ send' = [send EXCEPT !.count = @ + 1]
            /\ VisitBecomes(v, IF send.type = "file" THEN "opened" ELSE "counted")
       ELSE VisitBecomes(v, "refused") /\ UNCHANGED send
  /\ UNCHANGED <<today, edit>>

answerVisit(v) ==
  /\ visit[v] = "counted"
  /\ VisitBecomes(v, IF Undeleted THEN "opened" ELSE "unopened")
  /\ UNCHANGED <<today, send, edit>>

-----------------------------------------------------------------------------
(* The owner. *)

requireSend(w) ==
  /\ edit[w].stage = "new"
  /\ Undeleted
  /\ edit' = [edit EXCEPT ![w] = [stage |-> "read", count |-> send.count]]
  /\ UNCHANGED <<today, send, visit>>

\* Deviation: the row is written back as it was read.
KeptRow(w) == [send EXCEPT !.count = edit[w].count]

\* The columns that the request does not name are left alone.
LeftAlone(w) == send

\* Nothing tests that the Send was not deleted in the meantime.
updateSend(w) ==
  /\ edit[w].stage = "read"
  /\ \E disabled \in BOOLEAN, deletes \in Dates, expires \in Dates \cup {Nothing} :
       send' \in {LeftAlone(w),
                  [LeftAlone(w) EXCEPT !.disabled = disabled],
                  [LeftAlone(w) EXCEPT !.deletes = deletes],
                  [LeftAlone(w) EXCEPT !.expires = expires]}
  /\ edit' = [edit EXCEPT ![w] = [stage |-> "done", count |-> 0]]
  /\ UNCHANGED <<today, visit>>

deleteSend(w) ==
  /\ edit[w].stage = "read"
  /\ send' = IF Undeleted THEN [send EXCEPT !.deletes = today] ELSE send
  /\ edit' = [edit EXCEPT ![w] = [stage |-> "done", count |-> 0]]
  /\ UNCHANGED <<today, visit>>

DayPasses ==
  /\ today < LastDay
  /\ today' = today + 1
  /\ UNCHANGED <<send, visit, edit>>

SendAccessNext ==
  \/ \E v \in Visitors : \/ grantSendAccess(v) \/ accessSendWithToken(v)
                         \/ consumeAccess(v) \/ answerVisit(v)
  \/ \E w \in SendEdits : requireSend(w) \/ updateSend(w) \/ deleteSend(w)
  \/ DayPasses

SendAccessSpec == SendAccessInit /\ [][SendAccessNext]_sendAccessVars

-----------------------------------------------------------------------------
(* Properties. *)

Counted == {v \in Visitors : visit[v] \in {"counted", "opened", "unopened"}}

\* Invariant: every visit that was let in is counted, whatever the owner wrote
\* between, and no more are let in than the maximum allows, however many
\* requests found the Send still available (consumeAccess).
GrantsWithinTheMaximum ==
  /\ send.count = Cardinality(Counted)
  /\ send.max # Nothing => send.count <= send.max
=============================================================================
