--------------------------- MODULE MCScratchCards ---------------------------
(***************************************************************************)
(* Instances of ScratchCards for TLC.                                      *)
(***************************************************************************)
EXTENDS ScratchCards, TLC

\* One campaign that is open from the start and one that opens later.
MCWindows == {[starts |-> 0, ends |-> 1, expires |-> 1],
              [starts |-> 1, ends |-> 2, expires |-> 2]}

\* A campaign that is over as soon as the clock moves twice.
MCOneWindow == {[starts |-> 0, ends |-> 1, expires |-> 1]}

Symmetry ==
  Permutations(Cards) \cup Permutations(Users) \cup Permutations(Workers)
=============================================================================
