-------------------------- MODULE MCOrderPayments --------------------------
(* A payment for the order and the fee of its shop, two administrators. *)
EXTENDS OrderPayments, TLC
CONSTANTS pay1, fee, a1, a2

TwoPurposes == pay1 :> "order" @@ fee :> "shop_activation"
Symmetry == Permutations(Admins)
=============================================================================
