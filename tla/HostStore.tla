------------------------------ MODULE HostStore ------------------------------
(***************************************************************************)
(* galdra-core-host: what the SQL statements of contacts.rs, groups.rs,    *)
(* sync.rs and audit.rs read from the host database and write to it.  Each *)
(* operator is one statement (or, for an import, one transaction) of       *)
(* SQLite with foreign keys enforced, which is how the bundled SQLCipher   *)
(* is built.  A contact row keeps its UNIQUE column and whether it has a   *)
(* certificate; the other columns are never compared by the code that      *)
(* writes.  A membership keeps its expiry.                                 *)
(***************************************************************************)
EXTENDS Naturals, Sequences, FiniteSets

CONSTANTS
    Ids,            \* row UUIDs of contacts
    Callsigns,      \* values of the UNIQUE column
    Groups,         \* group names
    None            \* SQL NULL, an absent row

Expiry == {"never", "soon"}     \* expires_at of a membership: NULL or a date
Row    == [cs : Callsigns \cup {None}, key : BOOLEAN]

(* identities, group_metadata (the hidden_recipients flag) and groups. *)
Contents == [ids  : [Ids -> Row \cup {None}],
             meta : [Groups -> BOOLEAN \cup {None}],
             mem  : [Groups -> [Ids -> Expiry \cup {None}]]]

Empty == [ids  |-> [i \in Ids |-> None],
          meta |-> [g \in Groups |-> None],
          mem  |-> [g \in Groups |-> [i \in Ids |-> None]]]

Present(d)   == {i \in Ids : d.ids[i] # None}
Members(d, g) == {i \in Ids : d.mem[g][i] # None}

(* Rows holding callsign c; the UNIQUE index lets any number hold NULL. *)
Holders(d, c) == {i \in Present(d) : c # None /\ d.ids[i].cs = c}

(* resolve_contact_identifier: the row UUID first, then the callsign.      *)
Resolve(d, token) ==
    IF token \in Ids THEN Present(d) \cap {token} ELSE Holders(d, token)

(* Mutant: the foreign key has no ON DELETE CASCADE. *)
DropRowsOnly(d, S) == [d EXCEPT !.ids = [i \in Ids |-> IF i \in S THEN None ELSE @[i]]]

(* Rows disappear: ON DELETE CASCADE takes their memberships with them.    *)
DropRows(d, S) ==
    [d EXCEPT !.ids = [i \in Ids |-> IF i \in S THEN None ELSE @[i]],
              !.mem = [g \in Groups |-> [i \in Ids |-> IF i \in S THEN None ELSE @[g][i]]]]

InsertRow(d, i, c)  == [d EXCEPT !.ids[i] = [cs |-> c, key |-> FALSE]]
UpdateRow(d, i, c)  ==      \* COALESCE(?, callsign)
    IF d.ids[i] = None \/ c = None THEN d ELSE [d EXCEPT !.ids[i].cs = c]

(* Mutant: INSERT OR REPLACE, as the name contact_upsert_key suggests. *)
UpsertKey(d, i) == [d EXCEPT !.ids[i] = [cs |-> IF @ = None THEN None ELSE @.cs, key |-> TRUE]]

UpdateKey(d, i)     == IF d.ids[i] = None THEN d ELSE [d EXCEPT !.ids[i].key = TRUE]
DeleteRow(d, i)     == DropRows(d, {i})

InsertMeta(d, g, h)       == [d EXCEPT !.meta[g] = h]
UpdateMeta(d, g, h)       == IF d.meta[g] = None THEN d ELSE [d EXCEPT !.meta[g] = h]
DeleteMeta(d, g)          == [d EXCEPT !.meta[g] = None]
UpsertMember(d, g, i, e)  == [d EXCEPT !.mem[g][i] = e]
DeleteMember(d, g, i)     == [d EXCEPT !.mem[g][i] = None]

(* group_get's is_expired; no caller of contact_upsert_key gives a key an  *)
(* expiry, so only the membership's counts.                                *)
Expired(e, late)     == e = "soon" /\ late
Active(d, g, late)   == {i \in Members(d, g) : ~Expired(d.mem[g][i], late)}

(* INSERT OR REPLACE of every package row: a local row with the same id or *)
(* the same callsign is deleted first, and its memberships cascade.        *)
Merge(d, pkg) ==
    LET taken == {i \in Present(d) :
                    \/ i \in Present(pkg)
                    \/ \E j \in Present(pkg) : i \in Holders(d, pkg.ids[j].cs)}
        kept  == DropRows(d, taken)
        Over(new, old) == IF new # None THEN new ELSE old
    IN  [ids  |-> [i \in Ids |-> Over(pkg.ids[i], kept.ids[i])],
         meta |-> [g \in Groups |-> Over(pkg.meta[g], kept.meta[g])],
         mem  |-> [g \in Groups |-> [i \in Ids |-> Over(pkg.mem[g][i], kept.mem[g][i])]]]

Replace(d, pkg) == pkg

(* The constraints a database file always satisfies on disk. *)
ForeignKeys(d) == \A g \in Groups : Members(d, g) \subseteq Present(d)
Unique(d)      == \A i, j \in Present(d) :
                     d.ids[i].cs # None /\ d.ids[i].cs = d.ids[j].cs => i = j

(* audit_verify_chain over rows whose prev is the row that was hashed (0,  *)
(* the genesis constant): timestamps make the payloads distinct.           *)
ChainIntact(log) == \A k \in DOMAIN log : log[k].prev = k - 1
=============================================================================
