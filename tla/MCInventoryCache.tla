-------------------------- MODULE MCInventoryCache --------------------------
(* The cfg files give every constant; there is nothing to define.            *)
EXTENDS InventoryCache
=============================================================================
