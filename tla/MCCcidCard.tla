----------------------------- MODULE MCCcidCard -----------------------------
(* Commands that exercise every handler on a small card. *)
EXTENDS CcidCard

CONSTANTS k1, k2

Cmd(op, arg, val, le) == [op |-> op, arg |-> arg, val |-> val, le |-> le]

MCCommands ==
    {Cmd(op, None, None, 2) :
        op \in {"POWERON", "POWEROFF", "BAD", "BADAPDU", "SELECT", "SIGN", "DECIPHER", "RESPONSE"}}
    \cup {Cmd("VERIFY", p, None, 2) : p \in Purposes}
    \cup {Cmd("GET", "5B", None, 1), Cmd("PUT", "C1", "eddsa", 2)}
    \cup {Cmd("PUT", t, "t1", 2) : t \in {"5B", "5E"}}
    \cup {Cmd("GENERATE", "SIG", None, 2), Cmd("READKEY", "SIG", None, 2)}
=============================================================================
