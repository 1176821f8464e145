--------------------------- MODULE MCCreditWallet ---------------------------
(* Instances of CreditWallet for TLC: sessions and requests are symmetric. *)
EXTENDS CreditWallet

Symmetry == Permutations(Sessions) \cup Permutations(CreditRequests)

=============================================================================
