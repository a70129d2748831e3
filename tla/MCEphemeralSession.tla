------------------------- MODULE MCEphemeralSession -------------------------
(* A small instance of the handshake. *)
EXTENDS EphemeralSession

CONSTANTS a, b
=============================================================================
