-------------------------- MODULE MCPaymentChannel --------------------------
(***************************************************************************)
(* Instances of PaymentChannel for TLC.                                    *)
(***************************************************************************)
EXTENDS PaymentChannel

CONSTANTS A, B
=============================================================================
