---- MODULE MCSessions ----
(* Finite instances of Sessions.  Requests of one kind are interchangeable. *)
EXTENDS Sessions, TLC

Interchangeable ==
  Permutations(Logins \ Recoveries) \cup Permutations(Recoveries)
    \cup Permutations(Refreshes) \cup Permutations(Changes)
    \cup Permutations(Removals) \cup Permutations(Devices)

\* Bound: the requests a behaviour has.
Started ==
  {l \in Logins : login[l].stage # "idle"}
    \cup {r \in Refreshes : refresh[r].stage # "idle"}
    \cup {c \in Changes : change[c].stage # "idle"}
    \cup {x \in Removals : removal[x].stage # "idle"}

AtMostFive == Cardinality(Started) <= 5
====
