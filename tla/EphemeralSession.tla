--------------------------- MODULE EphemeralSession ---------------------------
(***************************************************************************)
(* crates/ephemeral-session: authenticated ephemeral ECDH between tokens.  *)
(* Messages live in a set that only grows: one may be handed over late,    *)
(* many times, to any node, or never, and may be damaged on the way.  A    *)
(* key pair is a number, drawn once; a signature is good unless damaged,   *)
(* and verifies only under the signer's certificate and over what was      *)
(* signed; a shared secret is the pair of key pairs it comes from.         *)
(***************************************************************************)
EXTENDS Naturals, Sequences, FiniteSets

CONSTANTS
    Nodes,
    Curves,         \* BrainpoolP256r1, BrainpoolP384r1
    MaxEph,         \* bound on the ephemeral key pairs generated
    TrustSlots,     \* N of InMemoryTrustStore
    Damage,         \* fields of a message that transport may damage
    MaxDamaged,     \* bound on the damaged copies in transport
    None

Eph == 1..MaxEph

ASSUME SessionAssumption ==
    /\ MaxEph \in Nat /\ TrustSlots \in Nat /\ MaxDamaged \in Nat
    /\ Damage \subseteq {"version", "curve", "length", "epk", "fp", "echo", "sig"}
    /\ None \notin Eph /\ None \notin Damage

VARIABLES
    slot,           \* curve of each node's long-term signing key in the vault
    trust,          \* each node's trust store: the certificates' nodes, in order
    ini,            \* each node's InitiatorSession
    net,            \* messages sent, damaged copies included
    drawn,          \* number of ephemeral key pairs generated so far
    ends,           \* SessionKeys handed to the callers
    uses,           \* how often each ephemeral private key entered an ECDH
    lost            \* initiator key pairs whose session object was dropped

vars == <<slot, trust, ini, net, drawn, ends, uses, lost>>

New == [st |-> "New", curve |-> None, epk |-> None]
Session == [st : {"New", "Initialised", "Completed"}, curve : Curves \cup {None},
            epk : Eph \cup {None}]

(* InitMessage has echo None; ResponseMessage echoes the initiator's key.  *)
(* `bad` is the damaged field.                                             *)
Message == [from : Nodes, curve : Curves, epk : Eph, echo : Eph \cup {None},
            bad : Damage \cup {None}]

Init ==
    /\ slot \in [Nodes -> Curves]
    /\ trust = [n \in Nodes |-> <<>>]
    /\ ini = [n \in Nodes |-> New]
    /\ net = {} /\ drawn = 0 /\ ends = {} /\ lost = {}
    /\ uses = [i \in Eph |-> 0]

-----------------------------------------------------------------------------
(* trust.rs *)

(* lookup: two entries with the same fingerprint count as none. *)
Lookup(n, fp) == Cardinality({k \in DOMAIN trust[n] : trust[n][k] = fp}) = 1

(* Mutant: a full store overwrites nothing and grows. *)
TrustAddAny(n, fp) ==
    /\ n # fp /\ Len(trust[n]) <= TrustSlots
    /\ trust' = [trust EXCEPT ![n] = Append(@, fp)]
    /\ UNCHANGED <<slot, ini, net, drawn, ends, uses, lost>>

TrustAdd(n, fp) ==
    /\ n # fp
    /\ Len(trust[n]) < TrustSlots           \* else TrustStoreFull
    /\ trust' = [trust EXCEPT ![n] = Append(@, fp)]
    /\ UNCHANGED <<slot, ini, net, drawn, ends, uses, lost>>

(* remove: the first match, by swap_remove (the last entry takes its place). *)
TrustRemove(n, fp) ==
    /\ \E k \in DOMAIN trust[n] :
         /\ trust[n][k] = fp /\ \A j \in 1..(k - 1) : trust[n][j] # fp
         /\ LET last == Len(trust[n])
                held == [trust[n] EXCEPT ![k] = trust[n][last]]
            IN  trust' = [trust EXCEPT ![n] = SubSeq(held, 1, last - 1)]
    /\ UNCHANGED <<slot, ini, net, drawn, ends, uses, lost>>

-----------------------------------------------------------------------------
(* handshake.rs and keys.rs *)

(* InitMessage::parse, ResponseMessage::parse: version, curve byte (the    *)
(* retired P-512 and unknown ones alike) and lengths are rejected here;    *)
(* the other damage gets through.                                          *)
Parses(m) == m.bad \notin {"version", "curve", "length"}

IsInit(m)     == m.echo = None
IsResponse(m) == m.echo # None

(* The fingerprint on the wire against the certificate's. *)
FingerprintIs(m, cert) == m.bad # "fp" /\ m.from = cert

(* verify_with_cert over version, curve, key and, in a response, the echo. *)
Verifies(m, cert) ==
    /\ m.bad \notin {"epk", "echo", "sig"}
    /\ m.from = cert /\ slot[cert] = m.curve

(* derive_session_keys: the salt orders the two keys, every label expands  *)
(* the same PRK to a key of its own.                                       *)
Labels == {"payload_key_i2r", "payload_key_r2i", "gdss_mask_key", "gdss_sync_key",
           "gdss_timing_key", "mac_key"}
Prk(own, peer) ==
    [ikm  |-> {own, peer},
     salt |-> IF own <= peer THEN <<own, peer>> ELSE <<peer, own>>]
Keys(own, peer) == [l \in Labels |-> <<l, Prk(own, peer)>>]

End(n, role, peer, own, theirs) ==
    [node |-> n, role |-> role, peer |-> peer, own |-> own, other |-> theirs,
     keys |-> Keys(own, theirs)]

-----------------------------------------------------------------------------
(* protocol.rs *)

(* InitiatorSession::init *)
SessionInit(n, c) ==
    /\ ini[n].st = "New"
    /\ slot[n] = c                  \* vault_load_session_long_term_signing_key
    /\ drawn < MaxEph /\ drawn' = drawn + 1
    /\ ini' = [ini EXCEPT ![n] = [st |-> "Initialised", curve |-> c, epk |-> drawn + 1]]
    /\ net' = net \cup {[from |-> n, curve |-> c, epk |-> drawn + 1, echo |-> None, bad |-> None]}
    /\ UNCHANGED <<slot, trust, ends, uses, lost>>

(* Mutant: the responder keeps one ephemeral key for all its sessions. *)
RespondReuse(n, m, cert) ==
    LET old  == {e.own : e \in {f \in ends : f.node = n /\ f.role = "responder"}}
        mine == IF old = {} THEN drawn + 1 ELSE CHOOSE r \in old : TRUE
    IN  /\ IsInit(m) /\ Parses(m) /\ Lookup(n, cert)
        /\ FingerprintIs(m, cert) /\ Verifies(m, cert) /\ slot[n] = m.curve
        /\ mine <= MaxEph /\ drawn' = IF mine > drawn THEN mine ELSE drawn
        /\ net' = net \cup {[from |-> n, curve |-> m.curve, epk |-> mine,
                             echo |-> m.epk, bad |-> None]}
        /\ ends' = ends \cup {End(n, "responder", cert, mine, m.epk)}
        /\ uses' = [uses EXCEPT ![mine] = @ + 1]
        /\ UNCHANGED <<slot, trust, ini, lost>>

(* ResponderSession::respond, with a certificate the caller looked up. *)
Respond(n, m, cert) ==
    /\ IsInit(m) /\ Parses(m) /\ Lookup(n, cert)
    /\ FingerprintIs(m, cert) /\ Verifies(m, cert)
    /\ slot[n] = m.curve
    /\ drawn < MaxEph /\ drawn' = drawn + 1
    /\ net' = net \cup {[from |-> n, curve |-> m.curve, epk |-> drawn + 1,
                         echo |-> m.epk, bad |-> None]}
    /\ ends' = ends \cup {End(n, "responder", cert, drawn + 1, m.epk)}
    /\ uses' = [uses EXCEPT ![drawn + 1] = @ + 1]
    /\ UNCHANGED <<slot, trust, ini, lost>>

(* Mutant: the echoed key is not compared. *)
AcceptsAnyEcho(n, m, cert) ==
    /\ Parses(m) /\ m.curve = ini[n].curve
    /\ FingerprintIs(m, cert) /\ Verifies(m, cert)

(* complete_inner's checks, in order. *)
Accepts(n, m, cert) ==
    /\ Parses(m)
    /\ m.curve = ini[n].curve                       \* CurveMismatch
    /\ m.bad # "echo" /\ m.echo = ini[n].epk        \* InvalidPeerSignature
    /\ FingerprintIs(m, cert)                       \* FingerprintMismatch
    /\ Verifies(m, cert)

(* Mutant: the session does not move to Completed. *)
CompleteKeeps(n, m, cert) ==
    /\ ini[n].st = "Initialised" /\ IsResponse(m) /\ Lookup(n, cert)
    /\ Accepts(n, m, cert)
    /\ ends' = ends \cup {End(n, "initiator", cert, ini[n].epk, m.epk)}
    /\ uses' = [uses EXCEPT ![ini[n].epk] = @ + 1]
    /\ UNCHANGED <<slot, trust, ini, net, drawn, lost>>

(* InitiatorSession::complete *)
Complete(n, m, cert) ==
    /\ ini[n].st = "Initialised" /\ IsResponse(m) /\ Lookup(n, cert)
    /\ Accepts(n, m, cert)
    /\ ends' = ends \cup {End(n, "initiator", cert, ini[n].epk, m.epk)}
    /\ uses' = [uses EXCEPT ![ini[n].epk] = @ + 1]
    /\ ini' = [ini EXCEPT ![n] = [New EXCEPT !.st = "Completed"]]
    /\ UNCHANGED <<slot, trust, net, drawn, lost>>

(* Mutant: mem::replace without putting the session back. *)
RejectDrops(n, m, cert) ==
    /\ ini[n].st = "Initialised" /\ IsResponse(m) /\ Lookup(n, cert)
    /\ ~Accepts(n, m, cert)
    /\ ini' = [ini EXCEPT ![n] = New]
    /\ UNCHANGED <<slot, trust, net, drawn, ends, uses, lost>>

(* A response that fails a check leaves the session as it was. *)
Reject(n, m, cert) ==
    /\ ini[n].st = "Initialised" /\ IsResponse(m) /\ Lookup(n, cert)
    /\ ~Accepts(n, m, cert)
    /\ UNCHANGED vars

(* The caller drops the session object (a power cut does too) and makes a  *)
(* new one; an unfinished session's key pair is zeroised with it.          *)
Drop(n) ==
    /\ ini[n].st # "New"
    /\ ini' = [ini EXCEPT ![n] = New]
    /\ lost' = lost \cup ({ini[n].epk} \ {None})
    /\ UNCHANGED <<slot, trust, net, drawn, ends, uses>>

Garble(m, f) ==
    /\ m.bad = None
    /\ Cardinality({d \in net : d.bad # None}) < MaxDamaged
    /\ f = "echo" => IsResponse(m)
    /\ net' = net \cup {[m EXCEPT !.bad = f]}
    /\ UNCHANGED <<slot, trust, ini, drawn, ends, uses, lost>>

Receive(n) ==
    \E m \in net, cert \in Nodes \ {n} :
        Respond(n, m, cert) \/ Complete(n, m, cert) \/ Reject(n, m, cert)

Next ==
    \/ \E n \in Nodes, fp \in Nodes : TrustAdd(n, fp) \/ TrustRemove(n, fp)
    \/ \E n \in Nodes, c \in Curves : SessionInit(n, c)
    \/ \E n \in Nodes : Receive(n) \/ Drop(n)
    \/ \E m \in net, f \in Damage : Garble(m, f)

(* The transport hands a response to the initiator that waits for it.      *)
Delivery(n) == \E m \in net, cert \in Nodes \ {n} : Complete(n, m, cert)

Spec == Init /\ [][Next]_vars /\ \A n \in Nodes : WF_vars(Delivery(n))

-----------------------------------------------------------------------------
(* Properties. *)

(* Every variable keeps its type; a key pair is drawn before it is used. *)
SessionTypeOK ==
    /\ slot \in [Nodes -> Curves]
    /\ trust \in [Nodes -> Seq(Nodes)] /\ \A n \in Nodes : Len(trust[n]) <= TrustSlots
    /\ ini \in [Nodes -> Session]
    /\ \A n \in Nodes : ini[n].st = "Initialised" => ini[n].epk \in 1..drawn
    /\ net \subseteq Message
    /\ drawn \in 0..MaxEph
    /\ uses \in [Eph -> Nat] /\ lost \subseteq Eph

Initiators == {e \in ends : e.role = "initiator"}
Responders == {e \in ends : e.role = "responder"}

(* When InitiatorSession::complete hands out keys for a peer, that peer     *)
(* holds the same six keys and took this node for its peer, whatever was    *)
(* replayed, reordered, damaged or left over from an earlier session.       *)
PeerHoldsKeys ==
    \A e \in Initiators : \E f \in Responders :
        f.node = e.peer /\ f.peer = e.node /\ f.keys = e.keys

(* An ephemeral private key enters one key derivation at most, however many *)
(* genuine responses its InitMessage has drawn.                             *)
EphemeralOnce == \A i \in Eph : uses[i] <= 1

(* Responses that do not belong to a session cannot spoil it: once the      *)
(* genuine response exists the session completes, unless the caller drops   *)
(* it or no longer trusts the peer.                                         *)
Waiting(n, i) ==
    /\ ini[n].st = "Initialised" /\ ini[n].epk = i
    /\ \E m \in net : IsResponse(m) /\ m.bad = None /\ m.echo = i /\ Lookup(n, m.from)

SessionCompletes ==
    \A n \in Nodes, i \in Eph :
        Waiting(n, i) ~> \/ \E e \in Initiators : e.own = i
                         \/ i \in lost
                         \/ \E m \in net : m.echo = i /\ m.bad = None /\ ~Lookup(n, m.from)

(* The handshake implements the abstract key agreement. *)
Agreed == INSTANCE KeyAgreement WITH
    answered <- {<<e.other, e.own>> : e \in Responders},
    joined   <- {<<e.own, e.other>> : e \in Initiators}

RefinesKeyAgreement == Agreed!KaSpec
=============================================================================
