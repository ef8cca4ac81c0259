--------------------------- MODULE MCChannelPool ----------------------------
(* A pool of two, and a thread and a channel more than it needs.           *)
EXTENDS ChannelPool
=============================================================================
