---------------------------- MODULE CipherCascade ----------------------------
(***************************************************************************)
(* What cipher-profile, cess and cipher_envelope compute, on symbolic      *)
(* ciphertexts: the list of the boxes around a plaintext, inner first.  A  *)
(* box is opened only by the key label, PRK and AAD that closed it.        *)
(***************************************************************************)
EXTENDS Integers, SequencesExt

Builtin == {"standard", "conservative", "conservative-shamir"}

BuiltinLayers(name) ==
    IF name = "standard" THEN <<"chacha">> ELSE <<"chacha", "serpent">>

Retired == "high-assurance"     \* a profile name earlier versions had
RetiredSuite == 18              \* 0x0012

Layers == {"chacha", "aes", "twofish", "serpent", "camellia"}

(* The CESS suite of a profile name; 0, which is reserved, for all others. *)
Suite(name) ==
    CASE name = "standard" -> 1
      [] name \in {"conservative", "conservative-shamir"} -> 3
      [] OTHER -> 0

(* The suites of the CESS registry table. *)
SuiteListed(id) == id \in (1..48) \cup (256..258) \cup (272..274) \cup (288..290) \cup (512..519)

(* SuiteId::new and the other checks when a wrapper is made or parsed. *)
SuiteAllowed(id) == id # 0 /\ id # RetiredSuite /\ SuiteListed(id)

MaxPlaintext == 8192            \* of a cascade
VaultMax == 8192                \* of each vault cipher

(* Encrypt-then-MAC with a 64-byte key and a 32-byte tag. *)
EncryptThenMac == {"twofish", "serpent", "camellia"}

TagLen(layer) == IF layer \in EncryptThenMac THEN 32 ELSE 16
GapLen == 32                    \* HMAC-BLAKE3 between two layers of a suite

(* AES-GCM is called directly, the other ciphers through the vault. *)
Fits(layer, len) == layer = "aes" \/ len <= VaultMax

(* Mutant: the layer index is left out of the label. *)
LayerLabelNoIndex(name, layer, i) ==
    IF Suite(name) = 0 THEN <<name, layer, 0>> ELSE <<Suite(name), layer, 0>>

(* HKDF info of the key of layer i: profile, cipher and index, or suite and *)
(* index, with the cipher only when it takes 64 bytes.                      *)
LayerLabel(name, layer, i) ==
    IF Suite(name) = 0 THEN <<name, layer, i>>
    ELSE <<Suite(name), IF layer \in EncryptThenMac THEN layer ELSE "key", i>>

GapLabel(name, i) == <<Suite(name), "gap", i>>

(* The caller's AAD is bound to the outermost layer only. *)
LayerBox(name, layers, prk, aad, i) ==
    [cipher |-> layers[i], label |-> LayerLabel(name, layers[i], i), prk |-> prk,
     aad |-> IF i = Len(layers) THEN aad ELSE <<>>]

GapBox(name, prk, i) ==
    [cipher |-> "hmac-blake3", label |-> GapLabel(name, i), prk |-> prk, aad |-> <<>>]

(* cascade_forward_encrypt, layer by layer from the inside.  A layer that  *)
(* does not fit fails the whole call.                                      *)
CascadeEncrypt(name, layers, prk, aad, len) ==
    LET n == Len(layers)
        gap(i) == Suite(name) # 0 /\ i < n
        fwd[i \in 0..n] ==
            IF i = 0 THEN [ok |-> len <= MaxPlaintext, len |-> len, boxes |-> <<>>]
            ELSE LET p == fwd[i - 1] IN
                 [ok    |-> p.ok /\ Fits(layers[i], p.len),
                  len   |-> p.len + TagLen(layers[i]) + (IF gap(i) THEN GapLen ELSE 0),
                  boxes |-> p.boxes \o <<LayerBox(name, layers, prk, aad, i)>>
                                    \o (IF gap(i) THEN <<GapBox(name, prk, i)>> ELSE <<>>)]
    IN fwd[n]

(* One authenticated opening: the outermost box must be this one. *)
Unbox(c, b) ==
    IF c.ok /\ c.boxes # <<>> /\ Last(c.boxes) = b
    THEN [ok |-> TRUE, boxes |-> Front(c.boxes)] ELSE [ok |-> FALSE, boxes |-> <<>>]

(* cascade_decrypt: outer layer first, the gap's HMAC before each next one. *)
(* What is left in boxes when all layers are off is handed out as plaintext. *)
CascadeDecrypt(name, layers, prk, aad, ct) ==
    LET n == Len(layers)
        back[i \in 0..n] ==
            IF i = n THEN [ok |-> ct.name = name, boxes |-> ct.boxes]
            ELSE LET c == Unbox(back[i + 1], LayerBox(name, layers, prk, aad, i + 1)) IN
                 IF Suite(name) # 0 /\ i > 0 THEN Unbox(c, GapBox(name, prk, i)) ELSE c
    IN back[0]

-----------------------------------------------------------------------------
(* seal_plaintext_with_profile: the PRK travels in the envelope, which only *)
(* OpenPGP protects.                                                        *)
Aad(name, fp) == <<name, fp>>

SealPlaintext(name, layers, prk, fp, len) ==
    LET c == CascadeEncrypt(name, layers, prk, Aad(name, fp), len) IN
    [ok |-> c.ok, env |-> [name |-> name, fp |-> fp, prk |-> prk, boxes |-> c.boxes]]

(* wrap_inner_with_cess_mode_a: only profiles with a suite can be wrapped. *)
CanWrap(name) == SuiteAllowed(Suite(name))

(* open_mode_a_outer: K_outer must be the one the wrapper was sealed with. *)
OuterOpens(m, k) == m.form = "cess" /\ k = m.k /\ SuiteAllowed(Suite(m.env.name))

(* open_plaintext_after_openpgp.  registry is a function of profile names. *)
OpenEnvelope(env, registry) ==
    IF env.name = Retired \/ env.name \notin DOMAIN registry THEN "refused"
    ELSE LET c == CascadeDecrypt(env.name, registry[env.name], env.prk,
                                 Aad(env.name, env.fp), env) IN
         IF ~c.ok THEN "refused" ELSE IF c.boxes = <<>> THEN "plain" ELSE "inner"

(* open_plaintext_from_openpgp_literal: without K_outer everything that is *)
(* not an envelope is returned as it is, "legacy-openpgp".                 *)
OpenLiteral(m, k, registry) ==
    CASE m.form = "galdracp"                        -> OpenEnvelope(m.env, registry)
      [] m.form # "galdracp" /\ k = "none"          -> "literal"
      [] k # "none" /\ OuterOpens(m, k)             -> OpenEnvelope(m.env, registry)
      [] OTHER                                      -> "refused"
=============================================================================
