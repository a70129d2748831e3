---------------------------- MODULE HostDirectory ----------------------------
(***************************************************************************)
(* The host directory under its real users: `galdra` processes, one per    *)
(* command, and the galdrad daemon, which runs one request at a time under *)
(* its Mutex<Db>, all on one database file.  A step is one SQL statement   *)
(* (or one transaction) of one process; between two of them every other    *)
(* process may run and any process may be killed.  galdrad writes no audit *)
(* row for a contact or group change, galdra writes one after the change.  *)
(***************************************************************************)
EXTENDS HostStore, Bags

CONSTANTS
    Procs,          \* processes: galdrad, and slots of galdra processes
    Versions,       \* number of migrations
    Foreign,        \* sync packages another installation may have produced
    Flags,          \* values of hidden_recipients the commands set
    MaxCommands     \* bound on the commands started

ASSUME HostAssumption ==
    /\ Versions \in Nat \ {0}
    /\ MaxCommands \in Nat /\ Flags \subseteq BOOLEAN
    /\ None \notin Ids \cup Callsigns /\ None \notin BOOLEAN /\ None \notin Expiry
    /\ None \notin Row
    /\ IsFiniteSet(Procs) /\ Procs # {}
    /\ Foreign \subseteq {d \in Contents : ForeignKeys(d) /\ Unique(d)}

VARIABLES
    schema,         \* schema_migrations: versions applied
    db,             \* the three directory tables
    log,            \* audit_log
    pkg,            \* the sync package this installation writes, or None
    inbox,          \* a package received from another installation, or None
    late,           \* the dates of the "soon" memberships have passed
    daemon,         \* the processes that are galdrad: at most one
    pc, job,        \* per process: next statement, and the command's locals
    commands,       \* commands started
    used,           \* UUIDs generated or received so far
    effect,         \* bag of the changes made, as audit rows name them
    raced           \* two audit_append calls have overlapped

vars == <<schema, db, log, pkg, inbox, late, daemon, pc, job, commands, used,
          effect, raced>>

Cli == Procs \ daemon

Idle == [cmd |-> "none", id |-> None, grp |-> None, arg |-> None,
         prev |-> 0, todo |-> {}, snap |-> Empty]

Labels == {"off", "migrate", "apply", "lost", "idle",
           "selectBack", "keyUpdate", "editRow", "deleteRow",
           "memberGroup", "memberContact", "memberUpsert", "memberDelete",
           "editGroup", "copyRead", "copyNext",
           "exportMeta", "exportMembers", "auditRead", "auditInsert"}

Init ==
    /\ schema = {} /\ db = Empty /\ log = <<>> /\ pkg = None
    /\ inbox \in Foreign \cup {None}
    /\ late = FALSE
    /\ daemon \in {{}} \cup {{p} : p \in Procs}
    /\ pc = [p \in Procs |-> "off"] /\ job = [p \in Procs |-> Idle]
    /\ commands = 0
    /\ used = IF inbox = None THEN {} ELSE Present(inbox)
    /\ effect = EmptyBag /\ raced = FALSE

-----------------------------------------------------------------------------
(* Db::open and run_migrations.  job.prev is the version being looked at.  *)

file == <<schema, db, log, pkg, inbox, late, daemon>>
hist == <<commands, used, effect, raced>>

Goto(p, label, j) ==
    /\ pc' = [pc EXCEPT ![p] = label]
    /\ job' = [job EXCEPT ![p] = j]

Open(p) ==
    /\ pc[p] \in {"off", "lost"}
    /\ Goto(p, "migrate", [Idle EXCEPT !.prev = 1])
    /\ UNCHANGED <<file, hist>>

(* Mutant: the loop stops at the first version already applied. *)
MigrateStops(p) ==
    /\ pc[p] = "migrate"
    /\ IF job[p].prev > Versions \/ job[p].prev \in schema THEN Goto(p, "idle", Idle)
       ELSE Goto(p, "apply", job[p])
    /\ UNCHANGED <<file, hist>>

(* SELECT 1 FROM schema_migrations per version, outside any transaction;   *)
(* rows are never deleted, so the versions skipped are skipped in one step. *)
Migrate(p) ==
    /\ pc[p] = "migrate"
    /\ LET missing == {v \in job[p].prev..Versions : v \notin schema} IN
       IF missing = {} THEN Goto(p, "idle", Idle)
       ELSE \E v \in missing :
              /\ \A w \in missing : v <= w
              /\ Goto(p, "apply", [job[p] EXCEPT !.prev = v])
    /\ UNCHANGED <<file, hist>>

(* The migration's SQL and its version row in one transaction; when another *)
(* process got there first the row's primary key conflicts and open fails.  *)
Apply(p) ==
    /\ pc[p] = "apply"
    /\ IF job[p].prev \in schema
       THEN Goto(p, "lost", Idle) /\ UNCHANGED schema
       ELSE /\ schema' = schema \cup {job[p].prev}
            /\ Goto(p, "migrate", [job[p] EXCEPT !.prev = @ + 1])
    /\ UNCHANGED <<db, log, pkg, inbox, late, daemon, hist>>

-----------------------------------------------------------------------------
(* How a command begins and ends. *)

Start(p) ==
    /\ pc[p] = "idle" /\ commands < MaxCommands
    /\ commands' = commands + 1

Return(p) == Goto(p, "idle", Idle)      \* done, or the error goes to the caller

(* The change named by <<action, subject>> is made and galdra records it;  *)
(* galdrad is done.                                                        *)
Changed(p, action, subject, j) ==
    /\ effect' = effect (+) SetToBag({<<action, subject>>})
    /\ IF p \in Cli THEN Goto(p, "auditRead", [j EXCEPT !.cmd = action, !.arg = subject])
       ELSE Goto(p, "idle", Idle)

Same == UNCHANGED <<schema, log, inbox, late, daemon, raced>>

-----------------------------------------------------------------------------
(* Contacts. *)

(* contact_add: validation rejects without a trace; then a row with a new  *)
(* UUID, unless the callsign is taken.                                     *)
AddRow(p, cmd, c) ==
    /\ Start(p)
    /\ Holders(db, c) = {}
    /\ \E i \in Ids \ used :
         /\ db' = InsertRow(db, i, c)
         /\ used' = used \cup {i}
         /\ Goto(p, "selectBack", [Idle EXCEPT !.cmd = cmd, !.id = i])
    /\ UNCHANGED <<pkg, effect>> /\ Same

ContactAdd(p) == \E c \in Callsigns \cup {None} : AddRow(p, "add", c)

(* A certificate from a key server, WKD or LDAP, or from a file or QR code: *)
(* always a new contact, without callsign, whose key is a second write.     *)
ContactFetch(p)  == AddRow(p, "KeyFetch", None)
ContactImport(p) == AddRow(p, "KeyImport", None)

(* contact_get_by_id at the end of contact_add (and again at the start of  *)
(* contact_upsert_key, with the same outcome).                             *)
SelectBack(p) ==
    /\ pc[p] = "selectBack"
    /\ IF job[p].id \notin Present(db) THEN Return(p) /\ UNCHANGED effect
       ELSE IF job[p].cmd # "add" THEN Goto(p, "keyUpdate", job[p]) /\ UNCHANGED effect
       ELSE Changed(p, "KeyImport", job[p].id, job[p])
    /\ UNCHANGED <<db, pkg, commands, used>> /\ Same

(* UPDATE ... WHERE id: no row, no error; the audit row is written anyway. *)
KeyUpdate(p) ==
    /\ pc[p] = "keyUpdate"
    /\ db' = UpdateKey(db, job[p].id)
    /\ IF job[p].id \in Present(db) THEN Changed(p, job[p].cmd, job[p].id, job[p])
       ELSE /\ Goto(p, "auditRead", [job[p] EXCEPT !.arg = job[p].id])
            /\ UNCHANGED effect
    /\ UNCHANGED <<pkg, commands, used>> /\ Same

(* contact edit and contact delete resolve the identifier, then work by id. *)
ContactEdit(p, token, c) ==
    /\ Start(p)
    /\ \E i \in Resolve(db, token) :
         Goto(p, "editRow", [Idle EXCEPT !.cmd = "edit", !.id = i, !.arg = c])
    /\ UNCHANGED <<db, pkg, used, effect>> /\ Same

EditRow(p) ==
    /\ pc[p] = "editRow"
    /\ db' = IF Holders(db, job[p].arg) \subseteq {job[p].id}
             THEN UpdateRow(db, job[p].id, job[p].arg) ELSE db      \* UNIQUE
    /\ Return(p)          \* no audit row either way
    /\ UNCHANGED <<pkg, commands, used, effect>> /\ Same

ContactDelete(p, token) ==
    /\ Start(p)
    /\ \E i \in Resolve(db, token) :
         Goto(p, "deleteRow", [Idle EXCEPT !.cmd = "delete", !.id = i])
    /\ UNCHANGED <<db, pkg, used, effect>> /\ Same

(* Mutant: the number of deleted rows is not looked at. *)
ContactDeleteAny(p) ==
    /\ pc[p] = "deleteRow"
    /\ db' = DeleteRow(db, job[p].id)
    /\ Goto(p, "auditRead", [job[p] EXCEPT !.cmd = "KeyDelete", !.arg = job[p].id])
    /\ effect' = IF job[p].id \in Present(db)
                 THEN effect (+) SetToBag({<<"KeyDelete", job[p].id>>}) ELSE effect
    /\ UNCHANGED <<pkg, commands, used>> /\ Same

ContactDeleteRow(p) ==
    /\ pc[p] = "deleteRow"
    /\ IF job[p].id \in Present(db)
       THEN db' = DeleteRow(db, job[p].id) /\ Changed(p, "KeyDelete", job[p].id, job[p])
       ELSE Return(p) /\ UNCHANGED <<db, effect>>                     \* n == 0
    /\ UNCHANGED <<pkg, commands, used>> /\ Same

-----------------------------------------------------------------------------
(* Groups. *)

GroupCreate(p, g, h) ==
    /\ Start(p)
    /\ db.meta[g] = None
    /\ db' = InsertMeta(db, g, h)
    /\ Changed(p, "GroupCreate", g, Idle)
    /\ UNCHANGED <<pkg, used>> /\ Same

GroupDelete(p, g) ==
    /\ Start(p)
    /\ db.meta[g] # None
    /\ db' = DeleteMeta(db, g)
    /\ Changed(p, "GroupDelete", g, Idle)
    /\ UNCHANGED <<pkg, used>> /\ Same

GroupEdit(p, g, h) ==
    /\ Start(p)
    /\ db.meta[g] # None
    /\ Goto(p, "editGroup", [Idle EXCEPT !.cmd = "editGroup", !.grp = g, !.arg = h])
    /\ UNCHANGED <<db, pkg, used, effect>> /\ Same

GroupEditRow(p) ==
    /\ pc[p] = "editGroup"
    /\ db' = UpdateMeta(db, job[p].grp, job[p].arg)
    /\ Return(p)
    /\ UNCHANGED <<pkg, commands, used, effect>> /\ Same

(* group add: resolve, then group_add_member's two checks and its upsert.  *)
GroupAdd(p, g, token, e) ==
    /\ Start(p)
    /\ \E i \in Resolve(db, token) :
         Goto(p, "memberGroup", [Idle EXCEPT !.cmd = "add", !.grp = g, !.id = i, !.arg = e])
    /\ UNCHANGED <<db, pkg, used, effect>> /\ Same

MemberGroup(p) ==
    /\ pc[p] = "memberGroup"
    /\ IF db.meta[job[p].grp] = None THEN Return(p) ELSE Goto(p, "memberContact", job[p])
    /\ UNCHANGED <<db, pkg, commands, used, effect>> /\ Same

MemberContact(p) ==
    /\ pc[p] = "memberContact"
    /\ IF job[p].id \notin Present(db) THEN Return(p) ELSE Goto(p, "memberUpsert", job[p])
    /\ UNCHANGED <<db, pkg, commands, used, effect>> /\ Same

MemberUpsert(p) ==
    LET j == job[p] IN
    /\ pc[p] = "memberUpsert"
    /\ IF j.id \notin Present(db)
       THEN Return(p) /\ UNCHANGED <<db, effect>>                   \* FOREIGN KEY
       ELSE /\ db' = UpsertMember(db, j.grp, j.id, j.arg)
            /\ IF j.cmd = "copy" THEN Goto(p, "copyNext", j) /\ UNCHANGED effect
               ELSE Changed(p, "GroupAddMember", <<j.grp, j.id>>, j)
    /\ UNCHANGED <<pkg, commands, used>> /\ Same

GroupRemove(p, g, token) ==
    /\ Start(p)
    /\ \E i \in Resolve(db, token) :
         Goto(p, "memberDelete", [Idle EXCEPT !.cmd = "remove", !.grp = g, !.id = i])
    /\ UNCHANGED <<db, pkg, used, effect>> /\ Same

MemberDelete(p) ==
    LET j == job[p] IN
    /\ pc[p] = "memberDelete"
    /\ IF j.id \in Members(db, j.grp)
       THEN /\ db' = DeleteMember(db, j.grp, j.id)
            /\ Changed(p, "GroupRemoveMember", <<j.grp, j.id>>, j)
       ELSE Return(p) /\ UNCHANGED <<db, effect>>                   \* n == 0
    /\ UNCHANGED <<pkg, commands, used>> /\ Same

(* group add --from: group_get's two SELECTs, then one group_add_member    *)
(* per active member; an error leaves the members added so far, no audit.  *)
GroupCopy(p, g, from) ==
    /\ Start(p)
    /\ db.meta[from] # None
    /\ Goto(p, "copyRead", [Idle EXCEPT !.cmd = "copy", !.grp = g, !.arg = from])
    /\ UNCHANGED <<db, pkg, used, effect>> /\ Same

CopyRead(p) ==
    LET from == job[p].arg IN
    /\ pc[p] = "copyRead"
    /\ Goto(p, "copyNext",
            [job[p] EXCEPT !.todo = {<<i, db.mem[from][i]>> : i \in Active(db, from, late)}])
    /\ UNCHANGED <<db, pkg, commands, used, effect>> /\ Same

CopyNext(p) ==
    /\ pc[p] = "copyNext"
    /\ \/ job[p].todo = {} /\ Return(p)
       \/ \E m \in job[p].todo :
            Goto(p, "memberGroup", [job[p] EXCEPT !.id = m[1], !.arg = m[2], !.todo = @ \ {m}])
    /\ UNCHANGED <<db, pkg, commands, used, effect>> /\ Same

-----------------------------------------------------------------------------
(* Sync packages. *)

(* sync_export: the old file is removed and an empty package created, then *)
(* three SELECTs on the open handle fill one transaction of the package.   *)
SyncExport(p) ==
    /\ Start(p)
    /\ pkg' = Empty
    /\ Goto(p, "exportMeta", [Idle EXCEPT !.cmd = "export", !.snap = [Empty EXCEPT !.ids = db.ids]])
    /\ UNCHANGED <<db, used, effect>> /\ Same

ExportMeta(p) ==
    /\ pc[p] = "exportMeta"
    /\ Goto(p, "exportMembers", [job[p] EXCEPT !.snap.meta = db.meta])
    /\ UNCHANGED <<db, pkg, commands, used, effect>> /\ Same

(* Mutant: the pragma takes effect, as it would before the transaction. *)
ExportUnchecked(p) ==
    /\ pc[p] = "exportMembers"
    /\ pkg' = [job[p].snap EXCEPT !.mem = db.mem]
    /\ Changed(p, "SyncExport", "package", [job[p] EXCEPT !.snap = Empty])
    /\ UNCHANGED <<db, commands, used>> /\ Same

(* PRAGMA foreign_keys = OFF does nothing inside a transaction: a row whose *)
(* contact was not exported makes the copy fail and the package stay empty. *)
ExportMembers(p) ==
    LET out == [job[p].snap EXCEPT !.mem = db.mem] IN
    /\ pc[p] = "exportMembers"
    /\ IF ForeignKeys(out)
       THEN pkg' = out /\ Changed(p, "SyncExport", "package", [job[p] EXCEPT !.snap = Empty])
       ELSE Return(p) /\ UNCHANGED <<pkg, effect>>
    /\ UNCHANGED <<db, commands, used>> /\ Same

SyncImport(p, mode) ==
    /\ Start(p)
    /\ \E from \in {pkg, inbox} \ {None} :
         /\ db' = IF mode = "Merge" THEN Merge(db, from) ELSE Replace(db, from)
         /\ used' = used \cup Present(from)
    /\ Changed(p, "SyncImport", "package", Idle)
    /\ UNCHANGED pkg /\ Same

-----------------------------------------------------------------------------
(* audit_append: SELECT the last row, then INSERT with its hash. *)

(* Mutant: the log is read in ascending order. *)
AuditReadFirst(p) ==
    /\ pc[p] = "auditRead"
    /\ raced' = (raced \/ \E q \in Procs \ {p} : pc[q] = "auditInsert")
    /\ Goto(p, "auditInsert", [job[p] EXCEPT !.prev = IF log = <<>> THEN 0 ELSE 1])
    /\ UNCHANGED <<file, commands, used, effect>>

(* Mutant: the row hashes itself. *)
AuditReadSelf(p) ==
    /\ pc[p] = "auditRead"
    /\ raced' = raced
    /\ Goto(p, "auditInsert", [job[p] EXCEPT !.prev = Len(log) + 1])
    /\ UNCHANGED <<file, commands, used, effect>>

AuditRead(p) ==
    /\ pc[p] = "auditRead"
    /\ raced' = (raced \/ \E q \in Procs \ {p} : pc[q] = "auditInsert")
    /\ Goto(p, "auditInsert", [job[p] EXCEPT !.prev = Len(log)])
    /\ UNCHANGED <<file, commands, used, effect>>

AuditInsert(p) ==
    /\ pc[p] = "auditInsert"
    /\ log' = Append(log, [act |-> job[p].cmd, subj |-> job[p].arg, prev |-> job[p].prev])
    /\ Return(p)
    /\ UNCHANGED <<schema, db, pkg, inbox, late, daemon, hist>>

-----------------------------------------------------------------------------
(* A process is killed between two statements, or its statement fails (the *)
(* file is locked for longer than the busy timeout, the disk is full).     *)
Kill(p) ==
    /\ pc[p] \notin {"off", "lost", "idle"}
    /\ Goto(p, IF pc[p] \in {"migrate", "apply"} THEN "off" ELSE "idle", Idle)
    /\ UNCHANGED <<file, hist>>

TimePasses ==
    /\ late = FALSE /\ late' = TRUE
    /\ UNCHANGED <<schema, db, log, pkg, inbox, daemon, pc, job, hist>>

Tokens == Ids \cup Callsigns

(* What galdra offers ... *)
RunContact(p) ==
    /\ p \in Cli
    /\ \/ ContactAdd(p) \/ ContactFetch(p) \/ ContactImport(p)
       \/ \E t \in Tokens, c \in Callsigns : ContactEdit(p, t, c)
       \/ \E t \in Tokens : ContactDelete(p, t)

RunGroup(p) ==
    /\ p \in Cli
    /\ \/ \E g \in Groups, h \in Flags : GroupCreate(p, g, h) \/ GroupEdit(p, g, h)
       \/ \E g \in Groups : GroupDelete(p, g)
       \/ \E g \in Groups, t \in Tokens, e \in Expiry : GroupAdd(p, g, t, e)
       \/ \E g \in Groups, t \in Tokens : GroupRemove(p, g, t)
       \/ \E g, from \in Groups : GroupCopy(p, g, from)

RunSync(p) ==
    /\ p \in Cli
    /\ SyncExport(p) \/ \E mode \in {"Merge", "Replace"} : SyncImport(p, mode)

(* ... and what galdrad serves. *)
ApiContacts(p) ==
    /\ p \in daemon
    /\ \/ ContactAdd(p)
       \/ \E t \in Tokens, c \in Callsigns : ContactEdit(p, t, c)
       \/ \E t \in Tokens : ContactDelete(p, t)

ApiGroups(p) ==
    /\ p \in daemon
    /\ \/ \E g \in Groups, h \in Flags : GroupCreate(p, g, h)
       \/ \E g \in Groups, t \in Tokens, e \in Expiry : GroupAdd(p, g, t, e)
       \/ \E g \in Groups, t \in Tokens : GroupRemove(p, g, t)

Statement(p) ==
    \/ SelectBack(p) \/ KeyUpdate(p) \/ EditRow(p) \/ ContactDeleteRow(p)
    \/ GroupEditRow(p) \/ MemberGroup(p) \/ MemberContact(p) \/ MemberUpsert(p)
    \/ MemberDelete(p) \/ CopyRead(p) \/ CopyNext(p)
    \/ ExportMeta(p) \/ ExportMembers(p) \/ AuditRead(p) \/ AuditInsert(p)

Next ==
    \/ \E p \in Procs :
         \/ Open(p) \/ Migrate(p) \/ Apply(p)
         \/ RunContact(p) \/ RunGroup(p) \/ RunSync(p)
         \/ ApiContacts(p) \/ ApiGroups(p)
         \/ Statement(p) \/ Kill(p)
    \/ TimePasses

Spec == Init /\ [][Next]_vars

-----------------------------------------------------------------------------
(* Properties. *)

(* Every variable keeps its type: the tables, the log, the package file and *)
(* the locals of each process.                                              *)
DirectoryTypeOK ==
    /\ schema \subseteq 1..Versions
    /\ db \in Contents /\ pkg \in Contents \cup {None}
    /\ \A k \in DOMAIN log : log[k].prev \in 0..(k - 1)
    /\ pc \in [Procs -> Labels]
    /\ \A p \in Procs : job[p].id \in Ids \cup {None} /\ job[p].snap \in Contents
    /\ used \subseteq Ids /\ Present(db) \subseteq used

(* Whatever the processes interleave, a membership names a contact that     *)
(* exists and a callsign one contact: check-then-write in group_add_member  *)
(* and contact_update, cascades of contact_delete and of a merging import.  *)
DirectoryClosed == ForeignKeys(db) /\ Unique(db)

(* A package file can always be imported: although sync_export reads the    *)
(* three tables in three statements while others write, the file never      *)
(* names a contact it does not hold nor a callsign twice.                   *)
PackageClosed == pkg # None => ForeignKeys(pkg) /\ Unique(pkg)

(* audit_verify_chain reports ChainBroken only if two audit_append calls    *)
(* overlapped: kills, errors and commands one after the other never break   *)
(* the chain.                                                               *)
ChainUnlessRaced == raced \/ ChainIntact(log)

(* How often the change x was made. *)
Made(x) == IF BagIn(x, effect) THEN effect[x] ELSE 0

(* The log never claims more than happened: for every change but a fetched  *)
(* or imported key, at most as many rows as changes made, even when two     *)
(* processes delete or remove the same thing.                               *)
AuditTruthful ==
    \A k \in DOMAIN log :
        LET x == <<log[k].act, log[k].subj>>
            Same_(n) == <<log[n].act, log[n].subj>> = x
        IN  log[k].act \notin {"KeyFetch", "KeyImport"}
              => Cardinality({n \in DOMAIN log : Same_(n)}) <= Made(x)

(* A contact that is gone comes back through an import only: no command     *)
(* still holding its id (edit, key update, group add) writes it again.      *)
NoResurrection ==
    [][\A i \in used \ Present(db) :
          i \in Present(db)' => \E p \in Cli, m \in {"Merge", "Replace"} : SyncImport(p, m)]_vars

(* A process past Db::open works on the whole schema, migrations apply in   *)
(* order, and of the processes racing to migrate not all give up.           *)
MigratedWhenOpen ==
    /\ \A p \in Procs : pc[p] \notin {"off", "migrate", "apply", "lost"} => schema = 1..Versions
    /\ \A v \in schema : 1..v \subseteq schema
    /\ \E p \in Procs : pc[p] # "lost"

(* groups.rs: "Create a new empty group with metadata" and "Delete a group  *)
(* and its memberships".  A group just created has no members.              *)
NewGroupEmpty ==
    [][\A p \in Procs, g \in Groups, h \in Flags :
          GroupCreate(p, g, h) => Members(db, g)' = {}]_vars
=============================================================================
