--------------------------- MODULE MCOpenPgpToken ---------------------------
(* Small instances of the OpenPGP token. *)
EXTENDS OpenPgpToken

CONSTANTS p1, p2

MCPins == {p1, p2}
MCInitialPin == [r \in Role |-> IF r = "User" THEN p1 ELSE p2]

=============================================================================
