------------------------- MODULE MCMessageDelivery --------------------------
(* Two nodes share the row of one message.                                 *)
EXTENDS MessageDelivery
=============================================================================
