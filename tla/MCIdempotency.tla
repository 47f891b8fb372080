--------------------------- MODULE MCIdempotency ---------------------------
(***************************************************************************)
(* Four deliveries: three of one request and one reuse of its id with      *)
(* another content.                                                        *)
(***************************************************************************)
EXTENDS Idempotency
CONSTANTS d1, d2, d3, d4, i1
MCDeliveries == {d1, d2, d3, d4}
MCIdOf == [d \in MCDeliveries |-> i1]
MCPrintOf == [d \in MCDeliveries |-> IF d = d4 THEN "other" ELSE "same"]
=============================================================================
