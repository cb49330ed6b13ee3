------------------------------ MODULE MCPurchase ------------------------------
(* Small instances of PurchaseFlow for TLC. *)
EXTENDS PurchaseFlow

CONSTANTS l1, b1, b2

=============================================================================
