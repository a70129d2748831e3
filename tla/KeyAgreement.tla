----------------------------- MODULE KeyAgreement -----------------------------
(***************************************************************************)
(* What an authenticated ephemeral handshake promises: a responder commits *)
(* its own ephemeral key to one initiator's, and an initiator joins one    *)
(* commitment that exists.                                                 *)
(***************************************************************************)
CONSTANTS Eph                       \* ephemeral key pairs

VARIABLES answered, joined          \* sets of <<initiator's, responder's>>

kaVars == <<answered, joined>>

KaInit == answered = {} /\ joined = {}

Answer(i, r) ==
    /\ i # r
    /\ \A x \in answered : x[2] # r
    /\ answered' = answered \cup {<<i, r>>}
    /\ UNCHANGED joined

Join(i, r) ==
    /\ <<i, r>> \in answered
    /\ \A x \in joined : x[1] # i
    /\ joined' = joined \cup {<<i, r>>}
    /\ UNCHANGED answered

KaNext == \E i, r \in Eph : Answer(i, r) \/ Join(i, r)

KaSpec == KaInit /\ [][KaNext]_kaVars
=============================================================================
