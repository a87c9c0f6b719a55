------------------------------ MODULE MCSessions ------------------------------
(***************************************************************************)
(* One account with its sessions, with its links, or with a second one     *)
(* that may register the address the first is changing to.                 *)
(***************************************************************************)
EXTENDS Sessions, TLC

CONSTANTS a, b, c1, c2, e1, e2, p1, p2, t1, t2, t3, l1, l2, l3

VARIABLE scope

Symmetry ==
  Permutations({c1, c2}) \cup Permutations({e1, e2}) \cup Permutations({p1, p2})

MCInit == Init /\ scope \in {"sessions", "links", "taken"}

MCNext ==
  /\ \/ EntryNext
     \/ scope = "sessions" /\ SessionNext
     \/ scope = "links" /\ LinkNext
     \/ scope # "sessions" /\ ChangeNext
     \/ Crash
  /\ UNCHANGED scope

MCSpec == MCInit /\ [][MCNext]_<<vars, scope>>

(* Tokens, links and accounts in each scope.                               *)
Tokens == Cardinality({t \in Token : opened[t] # None})
Links == Cardinality({l \in Link : link[l] # None})

OnlyResets == \A l \in Link : link[l] = None \/ link[l].kind = "reset"

Bounded ==
  /\ Tokens <= (IF scope = "sessions" THEN 3 ELSE 1)
  /\ Links <= (IF scope = "taken" THEN 1 ELSE 3)
  /\ scope = "links" /\ Links = 3 => Tokens = 0 /\ OnlyResets
  /\ IF scope = "taken"
     THEN /\ user[a].state = "none" => \A c \in Calls : call[c].u # b
          /\ \A c \in Calls : call[c].u = b => call[c].at = "create"
          /\ user[b].social = FALSE
     ELSE \A c \in Calls : call[c].u # b
=============================================================================
