--------------------------- MODULE OrderExchangeMC ---------------------------
(* Small instances of OrderExchange. *)
EXTENDS OrderExchange

Anything == {"ack", "status"}
=============================================================================
