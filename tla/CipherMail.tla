------------------------------ MODULE CipherMail ------------------------------
(***************************************************************************)
(* Cipher profiles and the messages sealed with them.  Each station has a  *)
(* user_profiles table; every command and every galdrad request loads it   *)
(* into a registry of its own, so a statement of another process may come  *)
(* between the load and the INSERT or DELETE that follows.                 *)
(***************************************************************************)
EXTENDS CipherCascade, FiniteSets

CONSTANTS
    Stations,       \* installations
    MailProcs,      \* processes
    Daemons,        \* the processes that are galdrad
    StationOf,      \* the station of a process
    Capacity,       \* size of ProfileRegistry: 16
    OldRows,        \* per station: the user_profiles an earlier version left
    Certs,          \* recipients' certificates
    Usable,         \* those with a usable encryption subkey
    Secret,         \* those whose secret key is at hand
    NewProfiles,    \* profile definitions given to `profile add`
    Requests,       \* arguments given to encrypt
    OuterKeys,      \* values of K_outer
    Foreign,        \* OpenPGP messages of other programs
    MaxMail,        \* bound on the messages written
    MaxMailCommands \* bound on the commands started

ASSUME MailAssumption ==
    /\ StationOf \in [MailProcs -> Stations] /\ Daemons \subseteq MailProcs
    /\ Usable \subseteq Certs /\ Secret \subseteq Certs /\ "none" \notin OuterKeys
    /\ Capacity \in Nat /\ Capacity >= Cardinality(Builtin)
    /\ MaxMail \in Nat /\ MaxMailCommands \in Nat /\ IsFiniteSet(MailProcs)
    /\ IsFiniteSet(Foreign) /\ Cardinality(Foreign) <= MaxMail
    /\ \A m \in Foreign : m.form = "raw" /\ m.to \subseteq Certs
    /\ Requests \subseteq [name : STRING, k : OuterKeys \cup {"none"}, nonce : BOOLEAN, len : Nat,
                           to : SUBSET Certs, strict : BOOLEAN, card : BOOLEAN, emit : BOOLEAN,
                           sign : BOOLEAN]

VARIABLES
    rows,           \* per station: user_profiles, a function of names
    mail,           \* messages that exist
    cryptLog,       \* per station: the audit rows <<action, message>>
    opened,         \* outcomes of decrypt
    mjob,           \* per process: what it does next
    overlapped,     \* stations where an INSERT ran while another add was between load and INSERT
    mailCommands    \* commands started

mailVars == <<rows, mail, cryptLog, opened, mjob, overlapped, mailCommands>>

AtRest == [at |-> "rest"]

MailInit ==
    /\ rows = OldRows /\ mail = Foreign /\ opened = {}
    /\ cryptLog = [s \in Stations |-> {}]
    /\ mjob = [p \in MailProcs |-> AtRest]
    /\ overlapped = {} /\ mailCommands = 0

-----------------------------------------------------------------------------
(* ProfileStore *)

(* CipherProfile::from_bytes: a row of a removed curve or an unknown layer  *)
(* does not decode; one without the trailing byte has ephemeral_ecdh on.    *)
Decodes(r) == r.curve # "brainpoolP512r1" /\ ToSet(r.layers) \subseteq Layers
EphemeralEcdh(r) == r.flag \in {"absent", "1"}

(* ProfileStore::load registers every row, so all must decode and fit. *)
Loads(t) ==
    /\ \A n \in DOMAIN t : Decodes(t[n])
    /\ Cardinality(Builtin) + Cardinality(DOMAIN t) <= Capacity

Registry(t) == [n \in Builtin \cup DOMAIN t |->
                  IF n \in Builtin THEN BuiltinLayers(n) ELSE t[n].layers]

(* Mutant: one more than the registry holds. *)
CanRegisterOneMore(t, n) ==
    /\ Cardinality(Builtin) + Cardinality(DOMAIN t) <= Capacity
    /\ n \notin Builtin \cup DOMAIN t

CanRegister(t, n) ==
    /\ Cardinality(Builtin) + Cardinality(DOMAIN t) < Capacity
    /\ n \notin Builtin \cup DOMAIN t

(* CipherProfileBuilder: one to four different layers.  name and curve are *)
(* checked by parsers that accept exactly the values NewProfiles ranges over. *)
Builds(layers) == Len(layers) \in 1..4 /\ IsInjective(layers)

(* A row's trailing byte. *)
Flags == {"absent", "0", "1"}

(* An earlier version's rows were built and fitted too, whether or not they *)
(* still decode.  Only known ciphers have a name that parses.               *)
ASSUME ProfilesAssumption ==
    /\ OldRows = [s \in Stations |-> OldRows[s]]
    /\ \A s \in Stations :
         /\ IsFiniteSet(DOMAIN OldRows[s])
         /\ Cardinality(Builtin) + Cardinality(DOMAIN OldRows[s]) <= Capacity
         /\ \A n \in DOMAIN OldRows[s] : OldRows[s][n].flag \in Flags /\ Builds(OldRows[s][n].layers)
    /\ \A np \in NewProfiles : np.layers \in Seq(Layers) /\ np.ecdh \in BOOLEAN

-----------------------------------------------------------------------------
Station(p) == StationOf[p]
Table(p) == rows[Station(p)]

MailGoto(p, j) == mjob' = [mjob EXCEPT ![p] = j]

MailStart(p) ==
    /\ mjob[p] = AtRest /\ mailCommands < MaxMailCommands
    /\ mailCommands' = mailCommands + 1

MailKept == <<rows, mail, cryptLog, opened, overlapped>>

(* A profile that builds and that the registry just loaded still takes. *)
Added(p, np) ==
    IF Builds(np.layers) /\ Loads(Table(p)) /\ CanRegister(Table(p), np.name)
    THEN MailGoto(p, [at |-> "insert", name |-> np.name,
                      row |-> [layers |-> np.layers, curve |-> "brainpoolP256r1",
                               flag |-> IF np.ecdh THEN "1" ELSE "0"]])
    ELSE UNCHANGED mjob

(* profile add, and POST /profiles, up to the registry. *)
AddProfile(p) ==
    /\ MailStart(p) /\ p \notin Daemons
    /\ \E np \in NewProfiles : Added(p, np)
    /\ UNCHANGED MailKept

CreateProfile(p) ==
    /\ MailStart(p) /\ p \in Daemons
    /\ \E np \in NewProfiles : Added(p, np)
    /\ UNCHANGED MailKept

(* insert_user_row: name is the primary key. *)
InsertProfile(p) ==
    /\ mjob[p].at = "insert"
    /\ LET n == mjob[p].name  s == Station(p) IN
       IF n \in DOMAIN rows[s] THEN UNCHANGED <<rows, overlapped>>
       ELSE /\ rows' = [rows EXCEPT ![s] = [x \in DOMAIN @ \cup {n} |->
                                                IF x = n THEN mjob[p].row ELSE @[x]]]
            /\ overlapped' = IF \E q \in MailProcs \ {p} : Station(q) = s /\ mjob[q].at = "insert"
                             THEN overlapped \cup {s} ELSE overlapped
    /\ MailGoto(p, AtRest)
    /\ UNCHANGED <<mail, cryptLog, opened, mailCommands>>

Removed(p, n) ==
    IF Loads(Table(p)) /\ n \notin Builtin /\ n \in DOMAIN Table(p)
    THEN MailGoto(p, [at |-> "delete", name |-> n]) ELSE UNCHANGED mjob

Names == Builtin \cup {np.name : np \in NewProfiles}

(* profile remove, which wants --confirm, and DELETE /profiles/{name}, up *)
(* to the registry.                                                       *)
RemoveProfile(p) ==
    /\ MailStart(p) /\ p \notin Daemons
    /\ \E n \in Names, confirm \in BOOLEAN : IF confirm THEN Removed(p, n) ELSE UNCHANGED mjob
    /\ UNCHANGED MailKept

DropProfile(p) ==
    /\ MailStart(p) /\ p \in Daemons
    /\ \E n \in Names : Removed(p, n)
    /\ UNCHANGED MailKept

DeleteProfile(p) ==
    /\ mjob[p].at = "delete"
    /\ rows' = [rows EXCEPT ![Station(p)] =
                   [n \in DOMAIN @ \ {mjob[p].name} |-> @[n]]]
    /\ MailGoto(p, AtRest)
    /\ UNCHANGED <<mail, cryptLog, opened, overlapped, mailCommands>>

-----------------------------------------------------------------------------
(* encrypt *)

(* collect_recipients: strict refuses a certificate without subkey, else it *)
(* is skipped; someone must be left.                                        *)
SubkeysOf(to) == to \cap Usable
Addressable(r) == SubkeysOf(r.to) # {} /\ (r.strict => r.to \subseteq Usable)

(* What galdra and galdrad both ask of a request. *)
Acceptable(p, r) ==
    /\ Addressable(r) /\ ~r.sign
    /\ Loads(Table(p)) /\ r.name \in DOMAIN Registry(Table(p))
    /\ (r.k # "none") = r.nonce
    /\ r.k # "none" => CanWrap(r.name)

(* A profile without ephemeral ECDH binds the card's fingerprint. *)
NeedsCard(p, name) == name \notin Builtin /\ ~EphemeralEcdh(Table(p)[name])

Accepts(p, r) ==
    /\ Acceptable(p, r)
    /\ r.emit => NeedsCard(p, r.name)
    /\ NeedsCard(p, r.name) => r.card

Sealed(p, r, fp) ==
    SealPlaintext(r.name, Registry(Table(p))[r.name], mailCommands, fp, r.len)

Message(p, r, fp) ==
    [id |-> mailCommands, form |-> IF r.k = "none" THEN "galdracp" ELSE "cess",
     k |-> r.k, env |-> Sealed(p, r, fp).env, to |-> SubkeysOf(r.to),
     layers |-> Registry(Table(p))[r.name]]

(* The bound on messages, written or about to be. *)
Room == Cardinality(mail) + Cardinality({p \in MailProcs : mjob[p].at = "write"}) < MaxMail

(* run_encrypt: a refused request leaves nothing, else the file follows. *)
Encrypt(p) ==
    /\ MailStart(p) /\ p \notin Daemons /\ Room
    /\ \E r \in Requests :
         LET fp == IF NeedsCard(p, r.name) THEN "card" ELSE "placeholder" IN
         IF Accepts(p, r) /\ Sealed(p, r, fp).ok
         THEN MailGoto(p, [at |-> "write", mail |-> Message(p, r, fp)])
         ELSE UNCHANGED mjob
    /\ UNCHANGED MailKept

(* encrypt_msg: always strict, always the placeholder for a fingerprint, *)
(* no card and no audit row; the message is the answer.                  *)
EncryptMsg(p) ==
    /\ MailStart(p) /\ p \in Daemons /\ Room
    /\ \E r \in Requests :
         LET strict == [r EXCEPT !.strict = TRUE] IN
         mail' = IF Acceptable(p, strict) /\ Sealed(p, r, "placeholder").ok
                 THEN mail \cup {Message(p, r, "placeholder")} ELSE mail
    /\ UNCHANGED <<rows, cryptLog, opened, mjob, overlapped>>

(* run_encrypt_age needs no profile and no contact. *)
EncryptAge(p) ==
    /\ MailStart(p) /\ p \notin Daemons /\ Room
    /\ \E to \in SUBSET Certs :
         IF to = {} THEN UNCHANGED mjob
         ELSE MailGoto(p, [at |-> "write",
                           mail |-> [id |-> mailCommands, form |-> "age", k |-> "none",
                                     env |-> <<>>, to |-> to, layers |-> <<>>]])
    /\ UNCHANGED MailKept

WriteMail(p) ==
    /\ mjob[p].at = "write"
    /\ \/ /\ mail' = mail \cup {mjob[p].mail}
          /\ MailGoto(p, [at |-> "log", row |-> <<"Encrypt", mjob[p].mail.id>>, reply |-> {}])
       \/ UNCHANGED mail /\ MailGoto(p, AtRest)
    /\ UNCHANGED <<rows, cryptLog, opened, overlapped, mailCommands>>

(* decrypt: OpenPGP first, then the profile table, then the literal. *)
Opening(p, m, k) ==
    [msg |-> m, k |-> k, same |-> m.form \in {"galdracp", "cess"}
                                  /\ m.env.name \in DOMAIN Registry(Table(p))
                                  /\ m.layers = Registry(Table(p))[m.env.name],
     out |-> OpenLiteral(m, k, Registry(Table(p)))]

(* try_decrypt_session_key_from_cert *)
HasSessionKey(who, m) == who \in m.to \cap Secret

(* A message that OpenPGP opens, and what comes out of it. *)
Openings(p) ==
    {Opening(p, m, k) : m \in {x \in mail : x.form # "age" /\ \E who \in Certs : HasSessionKey(who, x)},
                        k \in OuterKeys \cup {"none"}}

Logged(o, reply) == [at |-> "log", row |-> <<"Decrypt", o.msg.id>>, reply |-> reply]

(* run_decrypt: the plaintext goes to the file, then the audit row. *)
Decrypt(p) ==
    /\ MailStart(p) /\ p \notin Daemons
    /\ \/ UNCHANGED <<mjob, opened>>        \* no session key, or the file cannot be written
       \/ /\ Loads(Table(p))
          /\ \E o \in Openings(p) :
               /\ opened' = opened \cup {o}
               /\ IF o.out = "refused" THEN UNCHANGED mjob ELSE MailGoto(p, Logged(o, {}))
    /\ UNCHANGED <<rows, mail, cryptLog, overlapped>>

(* decrypt_msg: the plaintext is the answer, once the audit row is written. *)
DecryptMsg(p) ==
    /\ MailStart(p) /\ p \in Daemons
    /\ \/ UNCHANGED <<mjob, opened>>
       \/ /\ Loads(Table(p))
          /\ \E o \in Openings(p) :
               IF o.out = "refused" THEN opened' = opened \cup {o} /\ UNCHANGED mjob
               ELSE MailGoto(p, Logged(o, {o})) /\ UNCHANGED opened
    /\ UNCHANGED <<rows, mail, cryptLog, overlapped>>

(* run_decrypt_age: whatever the profile table holds. *)
DecryptAge(p) ==
    /\ MailStart(p) /\ p \notin Daemons
    /\ \E m \in mail, who \in Certs :
         IF m.form = "age" /\ HasSessionKey(who, m)
         THEN MailGoto(p, [at |-> "log", row |-> <<"Decrypt", m.id>>, reply |-> {}])
         ELSE UNCHANGED mjob
    /\ UNCHANGED MailKept

(* audit_append; galdrad answers only when it succeeds. *)
LogCrypt(p) ==
    /\ mjob[p].at = "log"
    /\ \/ /\ cryptLog' = [cryptLog EXCEPT ![Station(p)] = @ \cup {mjob[p].row}]
          /\ opened' = opened \cup mjob[p].reply
       \/ UNCHANGED <<cryptLog, opened>>
    /\ MailGoto(p, AtRest)
    /\ UNCHANGED <<rows, mail, overlapped, mailCommands>>

MailKilled(p) ==
    /\ mjob[p] # AtRest /\ MailGoto(p, AtRest)
    /\ UNCHANGED <<MailKept, mailCommands>>

MailNext ==
    \E p \in MailProcs :
        \/ AddProfile(p) \/ CreateProfile(p) \/ InsertProfile(p)
        \/ RemoveProfile(p) \/ DropProfile(p) \/ DeleteProfile(p)
        \/ Encrypt(p) \/ EncryptMsg(p) \/ EncryptAge(p) \/ WriteMail(p)
        \/ Decrypt(p) \/ DecryptMsg(p) \/ DecryptAge(p) \/ LogCrypt(p)
        \/ MailKilled(p)

MailSpec == MailInit /\ [][MailNext]_mailVars

-----------------------------------------------------------------------------
MailTypeOK ==
    /\ \A s \in Stations : \A n \in DOMAIN rows[s] :
         rows[s][n].flag \in Flags /\ Builds(rows[s][n].layers)
    /\ \A m \in mail : m.form \in {"galdracp", "cess", "age", "raw"} /\ m.to \subseteq Certs
    /\ Cardinality(mail) <= MaxMail
    /\ overlapped \subseteq Stations /\ mailCommands \in 0..MaxMailCommands
    /\ \A p \in MailProcs : mjob[p].at \in {"rest", "insert", "delete", "write", "log"}

(* The profile table can be loaded, and with it every profile command and   *)
(* every encrypt and decrypt works, unless an earlier version left a row of *)
(* a removed curve, or two adds ran at once on the last free places.        *)
ProfilesLoad ==
    \A s \in Stations :
        \/ Loads(rows[s])
        \/ s \in overlapped
        \/ \E n \in DOMAIN OldRows[s] : ~Decodes(OldRows[s][n])

(* What decrypt hands out is the plaintext that was sealed and never what   *)
(* is left of a cascade, whichever profile of that name the receiver has;   *)
(* it is handed out whenever the definitions agree and K_outer is the right *)
(* one; only a CESS message opened without K_outer, or another program's    *)
(* literal, comes out unopened.  The retired name never opens.              *)
SealedOpens ==
    \A o \in opened :
        /\ o.out # "inner"
        /\ o.out = "literal" => o.k = "none" /\ o.msg.form \in {"cess", "raw"}
        /\ o.same /\ o.msg.env.name # Retired /\ (o.msg.form = "cess" => o.k = o.msg.k)
             => o.out = "plain"
=============================================================================
