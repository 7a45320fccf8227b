------------------------- MODULE MCCheckoutDispatch -------------------------
(* Two programs: the second by id is the more specific, and pushes.         *)
EXTENDS CheckoutDispatch, MCPairs

CONSTANTS d1, d2

MCSpecificity == <<1, 2>>

=============================================================================
