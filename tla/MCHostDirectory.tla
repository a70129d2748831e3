--------------------------- MODULE MCHostDirectory ---------------------------
(* Small instances of the host directory. *)
EXTENDS HostDirectory, TLC

CONSTANTS c1, c2, i1, i2, g1, g2, k1

MCCallsigns == {k1}
MCProcs == {c1, c2}
MCOneProc == {c1}
MCIds == {i1, i2}
MCGroups == {g1, g2}

(* Processes, contacts and groups are only compared for equality. *)
HostSymmetry == Permutations(MCProcs) \cup Permutations(MCIds) \cup Permutations(MCGroups)

(* Another installation exported one contact with a callsign and a group it *)
(* is a member of until a date.                                             *)
MCForeign ==
    {[ids  |-> [i \in MCIds |-> IF i = f THEN [cs |-> c, key |-> TRUE] ELSE None],
      meta |-> [g \in MCGroups |-> IF g = h THEN FALSE ELSE None],
      mem  |-> [g \in MCGroups |-> [i \in MCIds |-> IF g = h /\ i = f THEN "soon" ELSE None]]] :
        f \in MCIds, h \in MCGroups, c \in MCCallsigns}
=============================================================================
