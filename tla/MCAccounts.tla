---- MODULE MCAccounts ----
(* Accounts for TLC.  Processes, addresses, invites and names are interchangeable. *)
EXTENDS Accounts, TLC

CONSTANTS p1, p2, u1, u2, u3, bad, t1, e1, e2, i1, i2

Symmetry == Permutations({p1, p2}) \cup Permutations({u1, u2, u3})
              \cup Permutations({e1, e2}) \cup Permutations({i1, i2})
====
