------------------------- MODULE MCMessageReceiving -------------------------
(* Two nodes; a message with a subscriber that answers, or one without.    *)
EXTENDS MessageReceiving
=============================================================================
