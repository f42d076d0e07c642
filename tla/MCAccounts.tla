----------------------------- MODULE MCAccounts -----------------------------
(* A small instance of Accounts. *)
EXTENDS Accounts, TLC

\* Signing in by one-time passwords and administration are explored apart:
\* either no code is left to be sent, or there is no administrator.
CONSTANT a1
MCInit == Init /\ (\A a \in Admins \ {a1} : account[a] = "absent")
               /\ \/ issued = Codes
                  \/ issued = {} /\ \A a \in Admins : account[a] = "absent"

\* Another administrator is created and deactivated, and deactivates, while
\* nobody is signed in.
OneWorld ==
  (\E a \in Admins \ {a1} : account[a] # "absent") =>
    /\ session = [s \in Sessions |-> Nothing]
    /\ \A c \in Clients : job[c] = Nothing \/ Does(c, "status")

MCSpec == MCInit /\ [][Next]_vars

Symmetry == Permutations(Sessions) \cup Permutations(Codes) \cup Permutations(Clients)
=============================================================================
