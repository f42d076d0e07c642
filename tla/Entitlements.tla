---------------------------- MODULE Entitlements ----------------------------
(***************************************************************************)
(* What one campaign owes its customers, without cards, jobs, workers or   *)
(* locks.  Nobody's promise is touched by a distribution to others; a      *)
(* lapse ends all live promises in one step, never some of them; what has  *)
(* been redeemed stays redeemed; and redeeming needs an open campaign.     *)
(*                                                                         *)
(* A lapsed promise may still be redeemed when the campaign has been       *)
(* opened again: a request that has read the promise before it lapsed goes *)
(* by what it has read (module Redemption).                                *)
(***************************************************************************)
CONSTANT Holders

VARIABLES
  promise,  \* what each holder has
  open      \* the campaign can be redeemed

vars == <<promise, open>>

Promise == {"none", "live", "redeemed", "expired"}

TypeOK == promise \in [Holders -> Promise] /\ open \in BOOLEAN

Init ==
  /\ promise = [h \in Holders |-> "none"]
  /\ open = FALSE

Unpromised == {h \in Holders : promise[h] = "none"}

\* Everything live lapses.
Lapsed ==
  [h \in Holders |-> IF promise[h] = "live" THEN "expired" ELSE promise[h]]

Grant(S, base) ==
  promise' = [h \in Holders |-> IF h \in S THEN "live" ELSE base[h]]

(***************************************************************************)
(* The campaign opens, closes, grants or lapses; a distribution of a       *)
(* campaign that has just lapsed does both.                                *)
(***************************************************************************)
Move ==
  \E S \in SUBSET Unpromised : Grant(S, promise) \/ Grant(S, Lapsed)

Redeem(h) ==
  /\ open
  /\ promise[h] \in {"live", "expired"}
  /\ promise' = [promise EXCEPT ![h] = "redeemed"]
  /\ UNCHANGED open

Next == Move \/ \E h \in Holders : Redeem(h)

Spec == Init /\ [][Next]_vars
=============================================================================
