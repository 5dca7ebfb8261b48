--------------------------- MODULE MCSlackSocket ---------------------------
(* Two envelopes. *)
EXTENDS SlackSocket
=============================================================================
