-------------------------- MODULE MCOrganizations --------------------------
(* Finite instances of Organizations.  Requests are interchangeable, and so *)
(* are the users other than the owner, the items, and the later collections. *)
EXTENDS Organizations, TLC

Interchangeable ==
  Permutations(Requests) \cup Permutations(Users \ {Owner})
    \cup Permutations(Collections \ {First}) \cup Permutations(Items)

\* An administrator, a manager and two restricted members, one of whom may
\* only read the first collection.
Only(c, g) == [x \in Collections |-> IF x = c THEN g ELSE "none"]
FewOffers ==
  {[role |-> "admin", all |-> TRUE, grants |-> NoGrants],
   [role |-> "manager", all |-> TRUE, grants |-> NoGrants],
   [role |-> "member", all |-> FALSE, grants |-> Only(First, "write")]}
    \cup {[role |-> "member", all |-> FALSE,
           grants |-> [Only(First, "read") EXCEPT ![c] = "write"]] :
             c \in Collections \ {First}}

AllKinds == MemberKinds \cup CollectionKinds \cup OwnerKinds \cup LinkKinds
              \cup {"found"}
=============================================================================
