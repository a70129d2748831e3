------------------------ MODULE HostDirectoryProofs ------------------------
(***************************************************************************)
(* What the host directory promises, for every set of processes, contacts, *)
(* groups, callsigns and packages and every number of commands: the tables *)
(* stay closed, packages can be imported, deleted contacts stay deleted,   *)
(* processes work on the whole schema, and the audit log is in order.      *)
(***************************************************************************)
EXTENDS HostDirectory, FiniteSetTheorems, TLAPS

Closed(d) == ForeignKeys(d) /\ Unique(d)

(* None is no row, callsign, flag or date. *)
LEMMA NoneIsNoValue ==
    None \notin Ids /\ None \notin Callsigns /\ None \notin Row /\ None \notin BOOLEAN
    /\ None \notin Expiry
BY HostAssumption

-----------------------------------------------------------------------------
(* What each SQL statement preserves. *)

(* An empty database is closed. *)
LEMMA EmptyClosed == Empty \in Contents /\ Closed(Empty) /\ Present(Empty) = {}
BY DEF Empty, Contents, Closed, ForeignKeys, Unique, Holders, Present, Members

(* Deleting rows with their memberships leaves a closed directory closed. *)
LEMMA DropClosed ==
    ASSUME NEW d \in Contents, Closed(d), NEW S
    PROVE  /\ DropRows(d, S) \in Contents /\ Closed(DropRows(d, S))
           /\ Present(DropRows(d, S)) = Present(d) \ S
<1>. DEFINE e == DropRows(d, S)
<1>1. e \in Contents
  BY DEF DropRows, Contents
<1>2. /\ e.ids = [i \in Ids |-> IF i \in S THEN None ELSE d.ids[i]]
      /\ e.mem = [g \in Groups |-> [i \in Ids |-> IF i \in S THEN None ELSE d.mem[g][i]]]
  BY DEF DropRows, Contents
<1>. HIDE DEF e
<1>3. Present(e) = Present(d) \ S
  BY <1>2 DEF Present
<1>4. ForeignKeys(e)
  BY <1>2, <1>3 DEF Closed, ForeignKeys, Members
<1>5. Unique(e)
  BY <1>2, <1>3 DEF Closed, Unique, Present
<1>. QED BY <1>1, <1>3, <1>4, <1>5 DEF e, Closed

(* A new row whose callsign nobody holds. *)
LEMMA InsertRowClosed ==
    ASSUME NEW d \in Contents, Closed(d), NEW i \in Ids, NEW c \in Callsigns \cup {None},
           Holders(d, c) = {}
    PROVE  /\ InsertRow(d, i, c) \in Contents /\ Closed(InsertRow(d, i, c))
           /\ Present(InsertRow(d, i, c)) = Present(d) \cup {i}
<1>. DEFINE e == InsertRow(d, i, c)
            r == [cs |-> c, key |-> FALSE]
<1>1. r \in Row /\ r # None /\ r.cs = c
  <2>1. r \in Row /\ r.cs = c
    BY DEF Row
  <2>. QED BY <2>1, NoneIsNoValue
<1>. HIDE DEF r
<1>2. e \in Contents /\ e.ids = [d.ids EXCEPT ![i] = r] /\ e.mem = d.mem
  BY <1>1 DEF InsertRow, Contents, r
<1>. HIDE DEF e
<1>3. e.ids[i] = r /\ \A j \in Ids \ {i} : e.ids[j] = d.ids[j]
  BY <1>2 DEF Contents
<1>4. Present(e) = Present(d) \cup {i}
  BY <1>1, <1>3 DEF Present
<1>5. ForeignKeys(e)
  BY <1>2, <1>4 DEF Closed, ForeignKeys, Members
<1>6. Unique(e)
  <2>1. \A j \in Present(d) : c # None => d.ids[j].cs # c
    BY DEF Holders
  <2>2. \A j \in Present(e) : \/ j = i /\ e.ids[j].cs = c
                              \/ j \in Present(d) /\ e.ids[j].cs = d.ids[j].cs
    BY <1>1, <1>3, <1>4 DEF Present
  <2>. QED BY <2>1, <2>2 DEF Closed, Unique
<1>. QED BY <1>2, <1>4, <1>5, <1>6 DEF e, Closed

(* contact_update's statement under the UNIQUE index. *)
LEMMA UpdateRowClosed ==
    ASSUME NEW d \in Contents, Closed(d), NEW i \in Ids, NEW c \in Callsigns \cup {None},
           Holders(d, c) \subseteq {i}
    PROVE  /\ UpdateRow(d, i, c) \in Contents /\ Closed(UpdateRow(d, i, c))
           /\ Present(UpdateRow(d, i, c)) = Present(d)
<1>1. CASE d.ids[i] = None \/ c = None
  BY <1>1 DEF UpdateRow
<1>2. CASE d.ids[i] # None /\ c # None
  <2>. DEFINE e == UpdateRow(d, i, c)
              r == [d.ids[i] EXCEPT !.cs = c]
  <2>1. r \in Row /\ r # None /\ r.cs = c
    BY <1>2, NoneIsNoValue DEF Row, Contents
  <2>2. e \in Contents /\ e.ids = [d.ids EXCEPT ![i] = r] /\ e.mem = d.mem
    BY <1>2, <2>1 DEF UpdateRow, Contents
  <2>. HIDE DEF e, r
  <2>3. e.ids[i] = r /\ \A j \in Ids \ {i} : e.ids[j] = d.ids[j]
    BY <2>2 DEF Contents
  <2>4. Present(e) = Present(d)
    BY <1>2, <2>1, <2>3 DEF Present
  <2>5. ForeignKeys(e)
    BY <2>2, <2>4 DEF Closed, ForeignKeys, Members
  <2>6. Unique(e)
    <3>1. \A j \in Present(d) : d.ids[j].cs = c => j = i
      BY <1>2 DEF Holders
    <3>2. \A j \in Present(e) : \/ j = i /\ e.ids[j].cs = c
                                \/ j \in Present(d) /\ e.ids[j].cs = d.ids[j].cs
      BY <2>1, <2>3, <2>4 DEF Present
    <3>. QED BY <3>1, <3>2 DEF Closed, Unique
  <2>. QED BY <2>2, <2>4, <2>5, <2>6 DEF e, Closed
<1>. QED BY <1>1, <1>2

(* contact_upsert_key's statement. *)
LEMMA UpdateKeyClosed ==
    ASSUME NEW d \in Contents, Closed(d), NEW i \in Ids
    PROVE  /\ UpdateKey(d, i) \in Contents /\ Closed(UpdateKey(d, i))
           /\ Present(UpdateKey(d, i)) = Present(d)
<1>1. CASE d.ids[i] = None
  BY <1>1 DEF UpdateKey
<1>2. CASE d.ids[i] # None
  <2>. DEFINE e == UpdateKey(d, i)
              r == [d.ids[i] EXCEPT !.key = TRUE]
  <2>1. r \in Row /\ r # None /\ r.cs = d.ids[i].cs
    BY <1>2, NoneIsNoValue DEF Row, Contents
  <2>2. e \in Contents /\ e.ids = [d.ids EXCEPT ![i] = r] /\ e.mem = d.mem
    BY <1>2, <2>1 DEF UpdateKey, Contents
  <2>. HIDE DEF e, r
  <2>3. e.ids[i] = r /\ \A j \in Ids \ {i} : e.ids[j] = d.ids[j]
    BY <2>2 DEF Contents
  <2>4. Present(e) = Present(d)
    BY <1>2, <2>1, <2>3 DEF Present
  <2>5. ForeignKeys(e)
    BY <2>2, <2>4 DEF Closed, ForeignKeys, Members
  <2>6. Unique(e)
    <3>1. \A j \in Present(e) : j \in Present(d) /\ e.ids[j].cs = d.ids[j].cs
      BY <2>1, <2>3, <2>4 DEF Present
    <3>. QED BY <3>1 DEF Closed, Unique
  <2>. QED BY <2>2, <2>4, <2>5, <2>6 DEF e, Closed
<1>. QED BY <1>1, <1>2

(* The statements on group_metadata touch neither contacts nor memberships. *)
LEMMA MetaClosed ==
    ASSUME NEW d \in Contents, Closed(d), NEW g \in Groups, NEW h \in BOOLEAN
    PROVE  LET E == {InsertMeta(d, g, h), UpdateMeta(d, g, h), DeleteMeta(d, g)}
           IN  \A e \in E : e \in Contents /\ Closed(e) /\ Present(e) = Present(d)
<1>1. ASSUME NEW e \in Contents, e.ids = d.ids, e.mem = d.mem
      PROVE  Closed(e) /\ Present(e) = Present(d)
  BY <1>1 DEF Closed, ForeignKeys, Unique, Members, Holders, Present
<1>2. \A v \in BOOLEAN \cup {None} :
        LET e == [d EXCEPT !.meta[g] = v]
        IN  e \in Contents /\ e.ids = d.ids /\ e.mem = d.mem
  BY DEF Contents
<1>3. \A v \in BOOLEAN \cup {None} :
        LET e == [d EXCEPT !.meta[g] = v]
        IN  e \in Contents /\ Closed(e) /\ Present(e) = Present(d)
  BY <1>1, <1>2
<1>. QED BY <1>3 DEF InsertMeta, UpdateMeta, DeleteMeta

(* A membership of a contact that exists, or one less. *)
LEMMA MemberClosed ==
    ASSUME NEW d \in Contents, Closed(d), NEW g \in Groups, NEW i \in Ids,
           NEW v \in Expiry \cup {None}, v # None => i \in Present(d)
    PROVE  LET e == [d EXCEPT !.mem[g][i] = v]
           IN  e \in Contents /\ Closed(e) /\ Present(e) = Present(d)
<1>. DEFINE e == [d EXCEPT !.mem[g][i] = v]
<1>1. e \in Contents /\ e.ids = d.ids
  BY DEF Contents
<1>2. /\ e.mem[g][i] = v
      /\ \A k \in Groups, j \in Ids : <<k, j>> # <<g, i>> => e.mem[k][j] = d.mem[k][j]
  BY DEF Contents
<1>. HIDE DEF e
<1>3. Present(e) = Present(d) /\ Unique(e)
  BY <1>1 DEF Closed, Unique, Present
<1>4. ForeignKeys(e)
  BY <1>2, <1>3 DEF Closed, ForeignKeys, Members
<1>. QED BY <1>1, <1>3, <1>4 DEF Closed, e

(* INSERT OR REPLACE of a closed package into a closed directory. *)
LEMMA MergeClosed ==
    ASSUME NEW d \in Contents, Closed(d), NEW q \in Contents, Closed(q)
    PROVE  /\ Merge(d, q) \in Contents /\ Closed(Merge(d, q))
           /\ Present(Merge(d, q)) \subseteq Present(d) \cup Present(q)
<1>. DEFINE taken == {i \in Present(d) :
                        \/ i \in Present(q)
                        \/ \E j \in Present(q) : i \in Holders(d, q.ids[j].cs)}
            kept == DropRows(d, taken)
            e == Merge(d, q)
<1>1. /\ kept \in Contents /\ ForeignKeys(kept) /\ Unique(kept)
      /\ Present(kept) = Present(d) \ taken
  BY DropClosed DEF Closed
<1>2. \A i \in Present(kept) : kept.ids[i] = d.ids[i]
  BY <1>1 DEF DropRows, Contents, Present
<1>3. \A i \in Present(kept), j \in Present(q) :
         q.ids[j].cs # None => kept.ids[i].cs # q.ids[j].cs
  BY <1>1, <1>2 DEF Holders
<1>. HIDE DEF kept, taken
<1>4. /\ e.ids = [i \in Ids |-> IF q.ids[i] # None THEN q.ids[i] ELSE kept.ids[i]]
      /\ e.mem = [g \in Groups |-> [i \in Ids |-> IF q.mem[g][i] # None THEN q.mem[g][i]
                                                  ELSE kept.mem[g][i]]]
      /\ e.meta = [g \in Groups |-> IF q.meta[g] # None THEN q.meta[g] ELSE kept.meta[g]]
      /\ e = [ids |-> e.ids, meta |-> e.meta, mem |-> e.mem]
  BY DEF Merge, kept, taken
<1>. HIDE DEF e
<1>5. e \in Contents
  <2>1. e.ids \in [Ids -> Row \cup {None}]
    BY <1>1, <1>4 DEF Contents
  <2>2. e.meta \in [Groups -> BOOLEAN \cup {None}]
    BY <1>1, <1>4 DEF Contents
  <2>3. e.mem \in [Groups -> [Ids -> Expiry \cup {None}]]
    BY <1>1, <1>4 DEF Contents
  <2>. QED BY <1>4, <2>1, <2>2, <2>3 DEF Contents
<1>6. Present(e) = Present(kept) \cup Present(q)
  BY <1>4 DEF Present
<1>7. ForeignKeys(e)
  BY <1>1, <1>4, <1>6 DEF Closed, ForeignKeys, Members
<1>8. Unique(e)
  <2>1. \A i \in Present(e) : \/ i \in Present(q) /\ e.ids[i] = q.ids[i]
                              \/ i \in Present(kept) /\ e.ids[i] = kept.ids[i]
    BY <1>4, <1>6 DEF Present
  <2>. QED BY <1>1, <1>3, <2>1 DEF Closed, Unique
<1>. QED BY <1>1, <1>5, <1>6, <1>7, <1>8 DEF e, Closed

-----------------------------------------------------------------------------
(* The inductive invariant. *)

Booting  == {"off", "migrate", "apply", "lost"}
Working  == Labels \ Booting
Auditing == {"auditRead", "auditInsert"}

Cmds == {"none", "add", "KeyFetch", "KeyImport", "edit", "delete", "KeyDelete",
         "GroupCreate", "GroupDelete", "editGroup", "GroupAddMember", "remove",
         "GroupRemoveMember", "copy", "export", "SyncExport", "SyncImport"}
Args == Callsigns \cup BOOLEAN \cup Expiry \cup Groups \cup Ids \cup (Groups \X Ids)
          \cup {"package", None}

Job == [cmd : Cmds, id : Ids \cup {None}, grp : Groups \cup {None}, arg : Args,
        prev : Nat, todo : SUBSET (Ids \X Expiry), snap : Contents]

AuditRow == [act : Cmds, subj : Args, prev : Nat]

(* The locals a process needs for the statement it runs next. *)
JobFits(l, j) ==
    /\ l \in {"selectBack", "keyUpdate", "deleteRow", "editRow", "memberGroup",
              "memberContact", "memberUpsert", "memberDelete"} => j.id \in Ids
    /\ l = "selectBack" => j.cmd \in {"add", "KeyFetch", "KeyImport"}
    /\ l = "keyUpdate" => j.cmd \in {"KeyFetch", "KeyImport"}
    /\ l = "editRow" => j.arg \in Callsigns
    /\ l \in {"memberGroup", "memberContact", "memberUpsert", "memberDelete", "editGroup",
              "copyRead", "copyNext"} => j.grp \in Groups
    /\ l \in {"memberGroup", "memberContact", "memberUpsert"} => j.arg \in Expiry
    /\ l = "editGroup" => j.arg \in BOOLEAN
    /\ l = "copyRead" => j.arg \in Groups
    /\ l \in {"exportMeta", "exportMembers"} => Unique(j.snap)

ControlInv ==
    /\ pc \in [Procs -> Labels] /\ job \in [Procs -> Job]
    /\ daemon \subseteq Procs
    /\ \A p \in Procs : JobFits(pc[p], job[p])

(* The database and every package are closed. *)
DataInv ==
    /\ db \in Contents /\ Closed(db)
    /\ Present(db) \subseteq used /\ used \subseteq Ids
    /\ pkg \in Contents \cup {None} /\ (pkg # None => Closed(pkg))
    /\ inbox \in Foreign \cup {None}

(* Migrations are applied in order; a process that looks at a version has     *)
(* seen all earlier ones; one process at least has not been overtaken.        *)
MigrationInv ==
    /\ schema \subseteq 1..Versions
    /\ \A v \in schema : 1..v \subseteq schema
    /\ \A p \in Procs : pc[p] \in Working => schema = 1..Versions
    /\ \A p \in Procs : pc[p] \in {"migrate", "apply"} =>
          job[p].prev \in Nat \ {0} /\ 1..(job[p].prev - 1) \subseteq schema
    /\ \A p \in Procs : pc[p] = "apply" => job[p].prev <= Versions
    /\ \E p \in Procs : pc[p] # "lost" /\ (pc[p] = "apply" => job[p].prev \notin schema)

(* A row hashes an earlier one; without an overlap the one audit_append under *)
(* way has read the last row.                                                 *)
ChainInv ==
    /\ log \in Seq(AuditRow)
    /\ \A k \in DOMAIN log : log[k].prev \in 0..(k - 1)
    /\ \A p \in Procs : pc[p] = "auditInsert" => job[p].prev <= Len(log)
    /\ ~raced =>
         /\ ChainIntact(log)
         /\ \A p \in Procs : pc[p] = "auditInsert" =>
              /\ job[p].prev = Len(log)
              /\ \A q \in Procs \ {p} : pc[q] # "auditInsert"

(* The rows that name the change x, and the processes about to write one.     *)
RowsOf(x) == {n \in DOMAIN log : <<log[n].act, log[n].subj>> = x}
Owing(x)  == {p \in Procs : pc[p] \in Auditing /\ <<job[p].cmd, job[p].arg>> = x}
Unsure    == {"KeyFetch", "KeyImport"}

(* Rows written and rows owed are covered by changes made. *)
TallyInv ==
    /\ IsABag(effect)
    /\ \A a \in Cmds \ Unsure, s \in Args :
         Cardinality(RowsOf(<<a, s>>)) + Cardinality(Owing(<<a, s>>)) <= Made(<<a, s>>)

IInv == ControlInv /\ DataInv /\ MigrationInv /\ ChainInv /\ TallyInv

-----------------------------------------------------------------------------
(* What the statements of a command have in common. *)

(* The process makes no change, or one it will record (galdra) or not         *)
(* (galdrad), or updates the key of a contact that is gone.                   *)
Accounts(p) ==
    \/ effect' = effect /\ pc'[p] \notin Auditing
    \/ \E a \in Cmds, s \in Args :
         /\ effect' = effect (+) SetToBag({<<a, s>>})
         /\ \/ pc'[p] = "idle"
            \/ pc'[p] = "auditRead" /\ job'[p].cmd = a /\ job'[p].arg = s
    \/ effect' = effect /\ pc'[p] = "auditRead" /\ job'[p].cmd \in Unsure

Work(p) ==
    /\ pc[p] \in Working \ Auditing
    /\ Goto(p, pc'[p], job'[p])
    /\ pc'[p] \in Working \ {"auditInsert"}
    /\ job'[p] \in Job /\ JobFits(pc'[p], job'[p])
    /\ UNCHANGED <<schema, log, inbox, late, daemon, raced>>
    /\ Accounts(p)
    /\ DataInv'

(* No contact comes back. *)
NoReturn == \A i \in used : i \in Present(db)' => i \in Present(db)

(* Idle is a job. *)
LEMMA IdleJob == Idle \in Job /\ \A l \in {"idle", "off", "lost"} : JobFits(l, Idle)
BY EmptyClosed DEF Idle, Job, Cmds, Args, JobFits

(* Where Goto goes. *)
LEMMA GotoFacts ==
    ASSUME ControlInv, NEW p \in Procs, NEW l, NEW j, Goto(p, l, j)
    PROVE  /\ pc'[p] = l /\ job'[p] = j /\ Goto(p, pc'[p], job'[p])
BY DEF ControlInv, Goto

(* A change ends the command or leads to its audit row. *)
LEMMA ChangedFacts ==
    ASSUME ControlInv, NEW p \in Procs, NEW a \in Cmds, NEW s \in Args, NEW j \in Job,
           Changed(p, a, s, j)
    PROVE  /\ Goto(p, pc'[p], job'[p]) /\ Accounts(p) /\ pc'[p] \in {"idle", "auditRead"}
           /\ job'[p] \in Job /\ JobFits(pc'[p], job'[p])
<1>. DEFINE k == [j EXCEPT !.cmd = a, !.arg = s]
<1>1. k \in Job /\ k.cmd = a /\ k.arg = s
  BY DEF Job
<1>2. effect' = effect (+) SetToBag({<<a, s>>})
      /\ (Goto(p, "auditRead", k) \/ Goto(p, "idle", Idle))
  BY DEF Changed
<1>. HIDE DEF k
<1>3. CASE Goto(p, "auditRead", k)
  <2>1. pc'[p] = "auditRead" /\ job'[p] = k /\ Goto(p, pc'[p], job'[p])
    BY <1>3, GotoFacts
  <2>. QED BY <1>1, <1>2, <2>1 DEF Accounts, JobFits
<1>4. CASE Goto(p, "idle", Idle)
  <2>1. pc'[p] = "idle" /\ job'[p] = Idle /\ Goto(p, pc'[p], job'[p])
    BY <1>4, GotoFacts
  <2>. QED BY <1>2, <2>1, IdleJob DEF Accounts
<1>. QED BY <1>2, <1>3, <1>4

(* A step that leaves the tables and packages alone. *)
LEMMA SameData ==
    ASSUME DataInv, UNCHANGED <<db, pkg, inbox, used>>
    PROVE  DataInv' /\ NoReturn
BY DEF DataInv, Closed, ForeignKeys, Unique, Members, Present, NoReturn

(* A step that replaces the tables by closed ones. *)
LEMMA NewData ==
    ASSUME DataInv, NEW e \in Contents, Closed(e), db' = e, Present(e) \subseteq used',
           used' \subseteq Ids, UNCHANGED <<pkg, inbox>>
    PROVE  DataInv'
BY DEF DataInv, Closed, ForeignKeys, Unique, Members, Present

(* A read-only statement that goes on with other locals. *)
LEMMA ReadWork ==
    ASSUME ControlInv, DataInv, NEW p \in Procs, pc[p] \in Working \ Auditing,
           NEW l \in Working \ Auditing, NEW j \in Job, JobFits(l, j), Goto(p, l, j),
           UNCHANGED <<db, pkg, used, effect>>, Same
    PROVE  Work(p) /\ NoReturn
<1>1. pc'[p] = l /\ job'[p] = j /\ Goto(p, pc'[p], job'[p])
  BY GotoFacts
<1>2. DataInv' /\ NoReturn
  BY SameData DEF Same
<1>. QED BY <1>1, <1>2 DEF Work, Accounts, Same, Auditing

(* A statement that fails or ends its command without a change. *)
LEMMA ReturnWork ==
    ASSUME ControlInv, DataInv, NEW p \in Procs, pc[p] \in Working \ Auditing, Return(p),
           UNCHANGED <<db, pkg, used, effect>>, Same
    PROVE  Work(p) /\ NoReturn
BY ReadWork, IdleJob DEF Return, Working, Auditing, Booting, Labels

-----------------------------------------------------------------------------
(* Contacts. *)

(* Every set of labels used below, spelt out. *)
LEMMA WorkLabels ==
    {"idle", "selectBack", "keyUpdate", "editRow", "deleteRow", "memberGroup",
     "memberContact", "memberUpsert", "memberDelete", "editGroup", "copyRead", "copyNext",
     "exportMeta", "exportMembers"} = Working \ Auditing
BY DEF Working, Auditing, Booting, Labels

(* contact_add's INSERT. *)
LEMMA AddRowWork ==
    ASSUME ControlInv, DataInv, NEW p \in Procs, NEW cmd \in {"add", "KeyFetch", "KeyImport"},
           NEW c \in Callsigns \cup {None}, AddRow(p, cmd, c)
    PROVE  Work(p) /\ NoReturn
<1>1. PICK i \in Ids \ used :
        /\ db' = InsertRow(db, i, c)
        /\ used' = used \cup {i}
        /\ Goto(p, "selectBack", [Idle EXCEPT !.cmd = cmd, !.id = i])
  BY DEF AddRow
<1>. DEFINE j == [Idle EXCEPT !.cmd = cmd, !.id = i]
<1>2. j \in Job /\ JobFits("selectBack", j)
  BY IdleJob DEF Job, Idle, JobFits, Cmds
<1>. HIDE DEF j
<1>3. pc'[p] = "selectBack" /\ job'[p] = j /\ Goto(p, pc'[p], job'[p])
  BY <1>1, GotoFacts DEF j
<1>4. /\ InsertRow(db, i, c) \in Contents /\ Closed(InsertRow(db, i, c))
      /\ Present(InsertRow(db, i, c)) = Present(db) \cup {i}
  BY InsertRowClosed DEF DataInv, AddRow
<1>5. DataInv'
  BY <1>1, <1>4, NewData DEF DataInv, AddRow, Same
<1>6. NoReturn
  BY <1>1, <1>4 DEF NoReturn, Present
<1>. QED BY <1>2, <1>3, <1>5, <1>6, WorkLabels DEF Work, Accounts, AddRow, Start, Same, Auditing

(* contact_add's SELECT. *)
LEMMA SelectBackWork ==
    ASSUME ControlInv, DataInv, NEW p \in Procs, SelectBack(p)
    PROVE  Work(p) /\ NoReturn
<1>0. /\ pc[p] = "selectBack" /\ UNCHANGED <<db, pkg, used>> /\ Same /\ job[p] \in Job
      /\ job[p].id \in Ids /\ JobFits("selectBack", job[p])
  BY DEF SelectBack, ControlInv, JobFits
<1>1. CASE Return(p) /\ UNCHANGED effect
  BY <1>0, <1>1, ReturnWork, WorkLabels
<1>2. CASE Goto(p, "keyUpdate", job[p]) /\ UNCHANGED effect /\ job[p].cmd # "add"
  <2>1. JobFits("keyUpdate", job[p])
    BY <1>0, <1>2 DEF JobFits
  <2>. QED BY <1>0, <1>2, <2>1, ReadWork, WorkLabels
<1>3. CASE Changed(p, "KeyImport", job[p].id, job[p])
  <2>1. /\ Goto(p, pc'[p], job'[p]) /\ Accounts(p) /\ pc'[p] \in {"idle", "auditRead"}
        /\ job'[p] \in Job /\ JobFits(pc'[p], job'[p])
    BY <1>0, <1>3, ChangedFacts DEF Cmds, Args
  <2>2. DataInv' /\ NoReturn
    BY <1>0, SameData DEF Same
  <2>. QED BY <1>0, <2>1, <2>2 DEF Work, Same, Working, Booting, Auditing, Labels
<1>. QED BY <1>1, <1>2, <1>3 DEF SelectBack

(* contact_upsert_key's UPDATE. *)
LEMMA KeyUpdateWork ==
    ASSUME ControlInv, DataInv, NEW p \in Procs, KeyUpdate(p)
    PROVE  Work(p) /\ NoReturn
<1>0. /\ pc[p] = "keyUpdate" /\ UNCHANGED <<pkg, used>> /\ Same /\ job[p] \in Job
      /\ job[p].id \in Ids /\ job[p].cmd \in Unsure /\ db' = UpdateKey(db, job[p].id)
  BY DEF KeyUpdate, ControlInv, JobFits, Unsure
<1>1. /\ UpdateKey(db, job[p].id) \in Contents /\ Closed(UpdateKey(db, job[p].id))
      /\ Present(UpdateKey(db, job[p].id)) = Present(db)
  BY <1>0, UpdateKeyClosed DEF DataInv
<1>2. DataInv' /\ NoReturn
  BY <1>0, <1>1, NewData DEF DataInv, NoReturn, Same, Present
<1>3. CASE Changed(p, job[p].cmd, job[p].id, job[p])
  <2>1. /\ Goto(p, pc'[p], job'[p]) /\ Accounts(p) /\ pc'[p] \in {"idle", "auditRead"}
        /\ job'[p] \in Job /\ JobFits(pc'[p], job'[p])
    BY <1>0, <1>3, ChangedFacts DEF Cmds, Args, Unsure
  <2>. QED BY <1>0, <1>2, <2>1 DEF Work, Same, Working, Booting, Auditing, Labels
<1>4. CASE Goto(p, "auditRead", [job[p] EXCEPT !.arg = job[p].id]) /\ UNCHANGED effect
  <2>. DEFINE j == [job[p] EXCEPT !.arg = job[p].id]
  <2>1. j \in Job /\ j.cmd \in Unsure /\ JobFits("auditRead", j)
    BY <1>0 DEF Job, Args, JobFits
  <2>. HIDE DEF j
  <2>2. pc'[p] = "auditRead" /\ job'[p] = j /\ Goto(p, pc'[p], job'[p])
    BY <1>4, GotoFacts DEF j
  <2>. QED BY <1>0, <1>2, <1>4, <2>1, <2>2 DEF Work, Accounts, Same, Working, Booting, Auditing, Labels
<1>. QED BY <1>3, <1>4 DEF KeyUpdate

(* The identifier of contact edit, contact delete, group add and group remove  *)
(* resolves to a contact.                                                      *)
LEMMA ResolveIds == ASSUME NEW d, NEW t PROVE Resolve(d, t) \subseteq Ids
BY DEF Resolve, Present, Holders

(* Commands that begin with a SELECT and keep an identifier. *)
LEMMA StartWork ==
    ASSUME ControlInv, DataInv, NEW p \in Procs, Start(p),
           NEW l \in Working \ Auditing, NEW j \in Job, JobFits(l, j), Goto(p, l, j),
           UNCHANGED <<db, pkg, used, effect>>, Same
    PROVE  Work(p) /\ NoReturn
BY ReadWork, WorkLabels DEF Start

(* contact edit and contact delete. *)
LEMMA ContactEditWork ==
    ASSUME ControlInv, DataInv, NEW p \in Procs, NEW t, NEW c \in Callsigns, ContactEdit(p, t, c)
    PROVE  Work(p) /\ NoReturn
<1>1. PICK i \in Ids : Goto(p, "editRow", [Idle EXCEPT !.cmd = "edit", !.id = i, !.arg = c])
  BY ResolveIds DEF ContactEdit
<1>. DEFINE j == [Idle EXCEPT !.cmd = "edit", !.id = i, !.arg = c]
<1>2. j \in Job /\ JobFits("editRow", j)
  BY IdleJob DEF Job, Idle, JobFits, Cmds, Args
<1>. HIDE DEF j
<1>. QED BY <1>1, <1>2, StartWork, WorkLabels DEF ContactEdit, j

(* contact_delete: the identifier is resolved. *)
LEMMA ContactDeleteWork ==
    ASSUME ControlInv, DataInv, NEW p \in Procs, NEW t, ContactDelete(p, t)
    PROVE  Work(p) /\ NoReturn
<1>1. PICK i \in Ids : Goto(p, "deleteRow", [Idle EXCEPT !.cmd = "delete", !.id = i])
  BY ResolveIds DEF ContactDelete
<1>. DEFINE j == [Idle EXCEPT !.cmd = "delete", !.id = i]
<1>2. j \in Job /\ JobFits("deleteRow", j)
  BY IdleJob DEF Job, Idle, JobFits, Cmds
<1>. HIDE DEF j
<1>. QED BY <1>1, <1>2, StartWork, WorkLabels DEF ContactDelete, j

(* contact_update's UPDATE, which the UNIQUE index may refuse. *)
LEMMA EditRowWork ==
    ASSUME ControlInv, DataInv, NEW p \in Procs, EditRow(p)
    PROVE  Work(p) /\ NoReturn
<1>0. /\ pc[p] = "editRow" /\ UNCHANGED <<pkg, used, effect>> /\ Same /\ Return(p)
      /\ job[p].id \in Ids /\ job[p].arg \in Callsigns
  BY DEF EditRow, ControlInv, JobFits
<1>1. db' \in Contents /\ Closed(db') /\ Present(db') = Present(db)
  <2>1. CASE Holders(db, job[p].arg) \subseteq {job[p].id}
    BY <1>0, <2>1, UpdateRowClosed DEF EditRow, DataInv
  <2>2. CASE ~(Holders(db, job[p].arg) \subseteq {job[p].id})
    BY <2>2 DEF EditRow, DataInv
  <2>. QED BY <2>1, <2>2
<1>2. DataInv' /\ NoReturn
  BY <1>0, <1>1, NewData DEF DataInv, NoReturn, Same, Present
<1>3. pc'[p] = "idle" /\ job'[p] = Idle /\ Goto(p, pc'[p], job'[p])
  BY <1>0, GotoFacts DEF Return
<1>. QED BY <1>0, <1>2, <1>3, IdleJob, WorkLabels DEF Work, Accounts, Same, Auditing

(* contact_delete's DELETE. *)
LEMMA ContactDeleteRowWork ==
    ASSUME ControlInv, DataInv, NEW p \in Procs, ContactDeleteRow(p)
    PROVE  Work(p) /\ NoReturn
<1>0. /\ pc[p] = "deleteRow" /\ UNCHANGED <<pkg, used>> /\ Same /\ job[p] \in Job
      /\ job[p].id \in Ids
  BY DEF ContactDeleteRow, ControlInv, JobFits
<1>1. CASE Return(p) /\ UNCHANGED <<db, effect>>
  BY <1>0, <1>1, ReturnWork, WorkLabels
<1>2. CASE db' = DeleteRow(db, job[p].id) /\ Changed(p, "KeyDelete", job[p].id, job[p])
  <2>1. /\ Goto(p, pc'[p], job'[p]) /\ Accounts(p) /\ pc'[p] \in {"idle", "auditRead"}
        /\ job'[p] \in Job /\ JobFits(pc'[p], job'[p])
    BY <1>0, <1>2, ChangedFacts DEF Cmds, Args
  <2>2. db' \in Contents /\ Closed(db') /\ Present(db') \subseteq Present(db)
    BY <1>2, DropClosed DEF DataInv, DeleteRow
  <2>3. DataInv' /\ NoReturn
    BY <1>0, <2>2, NewData DEF DataInv, NoReturn, Same, Present
  <2>. QED BY <1>0, <2>1, <2>3 DEF Work, Same, Working, Booting, Auditing, Labels
<1>. QED BY <1>1, <1>2 DEF ContactDeleteRow

-----------------------------------------------------------------------------
(* Groups and packages. *)

(* A change of group_metadata and its audit row. *)
LEMMA MetaChangedWork ==
    ASSUME ControlInv, DataInv, NEW p \in Procs, NEW g \in Groups,
           NEW a \in {"GroupCreate", "GroupDelete"}, Start(p),
           db' \in Contents, Closed(db'), Present(db') = Present(db),
           Changed(p, a, g, Idle), UNCHANGED <<pkg, used>>, Same
    PROVE  Work(p) /\ NoReturn
<1>1. /\ Goto(p, pc'[p], job'[p]) /\ Accounts(p) /\ pc'[p] \in {"idle", "auditRead"}
      /\ job'[p] \in Job /\ JobFits(pc'[p], job'[p])
  BY ChangedFacts, IdleJob DEF Cmds, Args
<1>2. DataInv' /\ NoReturn
  BY NewData DEF DataInv, NoReturn, Same, Present
<1>. QED BY <1>1, <1>2 DEF Work, Start, Same, Working, Booting, Auditing, Labels

(* group create and group delete. *)
LEMMA GroupCreateWork ==
    ASSUME ControlInv, DataInv, NEW p \in Procs, NEW g \in Groups, NEW h \in BOOLEAN,
           GroupCreate(p, g, h) \/ GroupDelete(p, g)
    PROVE  Work(p) /\ NoReturn
<1>1. db' \in {InsertMeta(db, g, h), UpdateMeta(db, g, h), DeleteMeta(db, g)}
  BY DEF GroupCreate, GroupDelete
<1>2. db' \in Contents /\ Closed(db') /\ Present(db') = Present(db)
  BY <1>1, MetaClosed DEF DataInv
<1>. QED BY <1>2, MetaChangedWork DEF GroupCreate, GroupDelete

(* group edit. *)
LEMMA GroupEditWork ==
    ASSUME ControlInv, DataInv, NEW p \in Procs, NEW g \in Groups, NEW h \in BOOLEAN,
           GroupEdit(p, g, h)
    PROVE  Work(p) /\ NoReturn
<1>. DEFINE j == [Idle EXCEPT !.cmd = "editGroup", !.grp = g, !.arg = h]
<1>1. j \in Job /\ JobFits("editGroup", j)
  BY IdleJob DEF Job, Idle, JobFits, Cmds, Args
<1>2. Start(p) /\ Goto(p, "editGroup", j) /\ UNCHANGED <<db, pkg, used, effect>> /\ Same
  BY DEF GroupEdit
<1>. HIDE DEF j
<1>. QED BY <1>1, <1>2, StartWork, WorkLabels

(* The UPDATE of group edit. *)
LEMMA GroupEditRowWork ==
    ASSUME ControlInv, DataInv, NEW p \in Procs, GroupEditRow(p)
    PROVE  Work(p) /\ NoReturn
<1>0. /\ pc[p] = "editGroup" /\ UNCHANGED <<pkg, used, effect>> /\ Same /\ Return(p)
      /\ job[p].grp \in Groups /\ job[p].arg \in BOOLEAN
      /\ db' = UpdateMeta(db, job[p].grp, job[p].arg)
  BY DEF GroupEditRow, ControlInv, JobFits
<1>1. db' \in Contents /\ Closed(db') /\ Present(db') = Present(db)
  BY <1>0, MetaClosed DEF DataInv
<1>2. DataInv' /\ NoReturn
  BY <1>0, <1>1, NewData DEF DataInv, NoReturn, Same, Present
<1>3. pc'[p] = "idle" /\ job'[p] = Idle /\ Goto(p, pc'[p], job'[p])
  BY <1>0, GotoFacts DEF Return
<1>. QED BY <1>0, <1>2, <1>3, IdleJob, WorkLabels DEF Work, Accounts, Same, Auditing

(* group add, group remove and group add --from. *)
LEMMA GroupAddWork ==
    ASSUME ControlInv, DataInv, NEW p \in Procs, NEW g \in Groups, NEW t, NEW e \in Expiry,
           GroupAdd(p, g, t, e)
    PROVE  Work(p) /\ NoReturn
<1>1. PICK i \in Ids :
        Goto(p, "memberGroup", [Idle EXCEPT !.cmd = "add", !.grp = g, !.id = i, !.arg = e])
  BY ResolveIds DEF GroupAdd
<1>. DEFINE j == [Idle EXCEPT !.cmd = "add", !.grp = g, !.id = i, !.arg = e]
<1>2. j \in Job /\ JobFits("memberGroup", j)
  BY IdleJob DEF Job, Idle, JobFits, Cmds, Args
<1>. HIDE DEF j
<1>. QED BY <1>1, <1>2, StartWork, WorkLabels DEF GroupAdd, j

(* group remove resolves its contact. *)
LEMMA GroupRemoveWork ==
    ASSUME ControlInv, DataInv, NEW p \in Procs, NEW g \in Groups, NEW t, GroupRemove(p, g, t)
    PROVE  Work(p) /\ NoReturn
<1>1. PICK i \in Ids :
        Goto(p, "memberDelete", [Idle EXCEPT !.cmd = "remove", !.grp = g, !.id = i])
  BY ResolveIds DEF GroupRemove
<1>. DEFINE j == [Idle EXCEPT !.cmd = "remove", !.grp = g, !.id = i]
<1>2. j \in Job /\ JobFits("memberDelete", j)
  BY IdleJob DEF Job, Idle, JobFits, Cmds
<1>. HIDE DEF j
<1>. QED BY <1>1, <1>2, StartWork, WorkLabels DEF GroupRemove, j

(* group add --from looks for the source group. *)
LEMMA GroupCopyWork ==
    ASSUME ControlInv, DataInv, NEW p \in Procs, NEW g \in Groups, NEW from \in Groups,
           GroupCopy(p, g, from)
    PROVE  Work(p) /\ NoReturn
<1>. DEFINE j == [Idle EXCEPT !.cmd = "copy", !.grp = g, !.arg = from]
<1>1. j \in Job /\ JobFits("copyRead", j)
  BY IdleJob DEF Job, Idle, JobFits, Cmds, Args
<1>2. Start(p) /\ Goto(p, "copyRead", j) /\ UNCHANGED <<db, pkg, used, effect>> /\ Same
  BY DEF GroupCopy
<1>. HIDE DEF j
<1>. QED BY <1>1, <1>2, StartWork, WorkLabels

(* group_add_member's two checks. *)
LEMMA MemberCheckWork ==
    ASSUME ControlInv, DataInv, NEW p \in Procs, MemberGroup(p) \/ MemberContact(p)
    PROVE  Work(p) /\ NoReturn
<1>0. /\ pc[p] \in {"memberGroup", "memberContact"} /\ job[p] \in Job
      /\ JobFits(pc[p], job[p]) /\ UNCHANGED <<db, pkg, used, effect>> /\ Same
  BY DEF MemberGroup, MemberContact, ControlInv
<1>1. JobFits("memberContact", job[p]) /\ JobFits("memberUpsert", job[p])
  BY <1>0 DEF JobFits
<1>2. \/ Return(p) \/ Goto(p, "memberContact", job[p]) \/ Goto(p, "memberUpsert", job[p])
  BY DEF MemberGroup, MemberContact
<1>. QED BY <1>0, <1>1, <1>2, ReturnWork, ReadWork, WorkLabels

(* group_add_member's upsert, which the foreign key may refuse. *)
LEMMA MemberUpsertWork ==
    ASSUME ControlInv, DataInv, NEW p \in Procs, MemberUpsert(p)
    PROVE  Work(p) /\ NoReturn
<1>. DEFINE j == job[p]
<1>0. /\ pc[p] = "memberUpsert" /\ UNCHANGED <<pkg, used>> /\ Same /\ j \in Job
      /\ j.id \in Ids /\ j.grp \in Groups /\ j.arg \in Expiry
  BY DEF MemberUpsert, ControlInv, JobFits
<1>1. CASE j.id \notin Present(db)
  BY <1>0, <1>1, ReturnWork, WorkLabels DEF MemberUpsert
<1>2. CASE j.id \in Present(db)
  <2>1. db' = [db EXCEPT !.mem[j.grp][j.id] = j.arg]
    BY <1>2 DEF MemberUpsert, UpsertMember
  <2>2. db' \in Contents /\ Closed(db') /\ Present(db') = Present(db)
    BY <1>0, <1>2, <2>1, MemberClosed DEF DataInv
  <2>3. DataInv' /\ NoReturn
    BY <1>0, <2>2, NewData DEF DataInv, NoReturn, Same, Present
  <2>4. CASE Goto(p, "copyNext", j) /\ UNCHANGED effect
    <3>1. pc'[p] = "copyNext" /\ job'[p] = j /\ Goto(p, pc'[p], job'[p])
      BY <2>4, GotoFacts
    <3>2. JobFits("copyNext", j)
      BY <1>0 DEF JobFits
    <3>. QED BY <1>0, <2>3, <2>4, <3>1, <3>2, WorkLabels DEF Work, Accounts, Same, Auditing
  <2>5. CASE Changed(p, "GroupAddMember", <<j.grp, j.id>>, j)
    <3>1. /\ Goto(p, pc'[p], job'[p]) /\ Accounts(p) /\ pc'[p] \in {"idle", "auditRead"}
          /\ job'[p] \in Job /\ JobFits(pc'[p], job'[p])
      BY <1>0, <2>5, ChangedFacts DEF Cmds, Args
    <3>. QED BY <1>0, <2>3, <3>1 DEF Work, Same, Working, Booting, Auditing, Labels
  <2>. QED BY <1>2, <2>4, <2>5 DEF MemberUpsert
<1>. QED BY <1>1, <1>2

(* group_remove_member's DELETE. *)
LEMMA MemberDeleteWork ==
    ASSUME ControlInv, DataInv, NEW p \in Procs, MemberDelete(p)
    PROVE  Work(p) /\ NoReturn
<1>. DEFINE j == job[p]
<1>0. /\ pc[p] = "memberDelete" /\ UNCHANGED <<pkg, used>> /\ Same /\ j \in Job
      /\ j.id \in Ids /\ j.grp \in Groups
  BY DEF MemberDelete, ControlInv, JobFits
<1>1. CASE j.id \notin Members(db, j.grp)
  BY <1>0, <1>1, ReturnWork, WorkLabels DEF MemberDelete
<1>2. CASE j.id \in Members(db, j.grp)
  <2>1. db' = [db EXCEPT !.mem[j.grp][j.id] = None]
        /\ Changed(p, "GroupRemoveMember", <<j.grp, j.id>>, j)
    BY <1>2 DEF MemberDelete, DeleteMember
  <2>2. db' \in Contents /\ Closed(db') /\ Present(db') = Present(db)
    BY <1>0, <2>1, MemberClosed DEF DataInv
  <2>3. DataInv' /\ NoReturn
    BY <1>0, <2>2, NewData DEF DataInv, NoReturn, Same, Present
  <2>4. /\ Goto(p, pc'[p], job'[p]) /\ Accounts(p) /\ pc'[p] \in {"idle", "auditRead"}
        /\ job'[p] \in Job /\ JobFits(pc'[p], job'[p])
    BY <1>0, <2>1, ChangedFacts DEF Cmds, Args
  <2>. QED BY <1>0, <2>3, <2>4 DEF Work, Same, Working, Booting, Auditing, Labels
<1>. QED BY <1>1, <1>2

(* The loop of group add --from. *)
LEMMA CopyWork ==
    ASSUME ControlInv, DataInv, NEW p \in Procs, CopyRead(p) \/ CopyNext(p)
    PROVE  Work(p) /\ NoReturn
<1>0. /\ UNCHANGED <<db, pkg, used, effect>> /\ Same /\ job[p] \in Job
      /\ pc[p] \in Working \ Auditing /\ job[p].grp \in Groups
  BY WorkLabels DEF CopyRead, CopyNext, ControlInv, JobFits
<1>1. CASE CopyRead(p)
  <2>. DEFINE todo == {<<i, db.mem[job[p].arg][i]>> : i \in Active(db, job[p].arg, late)}
              j == [job[p] EXCEPT !.todo = todo]
  <2>1. todo \subseteq Ids \X Expiry
    <3>1. job[p].arg \in Groups
      BY <1>1 DEF CopyRead, ControlInv, JobFits
    <3>2. \A i \in Active(db, job[p].arg, late) : i \in Ids /\ db.mem[job[p].arg][i] \in Expiry
      BY <3>1 DEF Active, Members, DataInv, Contents
    <3>. QED BY <3>2
  <2>. HIDE DEF todo
  <2>2. j \in Job /\ j.grp \in Groups
    BY <1>0, <2>1 DEF Job
  <2>3. JobFits("copyNext", j)
    BY <2>2 DEF JobFits
  <2>4. Goto(p, "copyNext", j)
    BY <1>1 DEF CopyRead, todo
  <2>. HIDE DEF j
  <2>. QED BY <1>0, <2>2, <2>3, <2>4, ReadWork, WorkLabels
<1>2. CASE CopyNext(p) /\ Return(p)
  BY <1>0, <1>2, ReturnWork
<1>3. ASSUME NEW m \in job[p].todo,
             Goto(p, "memberGroup", [job[p] EXCEPT !.id = m[1], !.arg = m[2], !.todo = @ \ {m}])
      PROVE  Work(p) /\ NoReturn
  <2>. DEFINE j == [job[p] EXCEPT !.id = m[1], !.arg = m[2], !.todo = @ \ {m}]
  <2>1. m[1] \in Ids /\ m[2] \in Expiry
    BY <1>0, <1>3 DEF Job
  <2>2. j \in Job /\ j.grp \in Groups /\ j.id \in Ids /\ j.arg \in Expiry
    BY <1>0, <2>1 DEF Job, Args
  <2>3. JobFits("memberGroup", j)
    BY <2>2 DEF JobFits
  <2>4. Goto(p, "memberGroup", j)
    BY <1>3
  <2>. HIDE DEF j
  <2>. QED BY <1>0, <2>2, <2>3, <2>4, ReadWork, WorkLabels
<1>. QED BY <1>1, <1>2, <1>3 DEF CopyNext

(* sync_export's first two SELECTs. *)
LEMMA SyncExportWork ==
    ASSUME ControlInv, DataInv, NEW p \in Procs, SyncExport(p)
    PROVE  Work(p) /\ NoReturn
<1>. DEFINE snap == [Empty EXCEPT !.ids = db.ids]
            j == [Idle EXCEPT !.cmd = "export", !.snap = snap]
<1>1. snap \in Contents /\ Unique(snap)
  BY EmptyClosed DEF Contents, DataInv, Closed, Unique, Present, Empty
<1>. HIDE DEF snap
<1>2. j \in Job /\ JobFits("exportMeta", j)
  BY <1>1, IdleJob DEF Job, Idle, JobFits, Cmds
<1>3. Goto(p, "exportMeta", j)
  BY DEF SyncExport, snap
<1>. HIDE DEF j
<1>4. pc'[p] = "exportMeta" /\ job'[p] = j /\ Goto(p, pc'[p], job'[p])
  BY <1>3, GotoFacts
<1>5. DataInv' /\ NoReturn
  BY EmptyClosed DEF SyncExport, Same, DataInv, Closed, ForeignKeys, Unique, Members, Present,
    NoReturn
<1>. QED
  BY <1>2, <1>4, <1>5, WorkLabels DEF Work, Accounts, SyncExport, Start, Same, Auditing

(* sync_export's second SELECT. *)
LEMMA ExportMetaWork ==
    ASSUME ControlInv, DataInv, NEW p \in Procs, ExportMeta(p)
    PROVE  Work(p) /\ NoReturn
<1>0. /\ pc[p] = "exportMeta" /\ job[p] \in Job /\ Unique(job[p].snap)
      /\ UNCHANGED <<db, pkg, used, effect>> /\ Same
  BY DEF ExportMeta, ControlInv, JobFits
<1>. DEFINE j == [job[p] EXCEPT !.snap.meta = db.meta]
<1>1. j \in Job /\ j.snap.ids = job[p].snap.ids
  BY <1>0 DEF Job, Contents, DataInv
<1>2. JobFits("exportMembers", j)
  BY <1>0, <1>1 DEF JobFits, Unique, Present
<1>3. Goto(p, "exportMembers", j)
  BY DEF ExportMeta
<1>. HIDE DEF j
<1>. QED BY <1>0, <1>1, <1>2, <1>3, ReadWork, WorkLabels

(* sync_export's last SELECT and the transaction of the package. *)
LEMMA ExportMembersWork ==
    ASSUME ControlInv, DataInv, NEW p \in Procs, ExportMembers(p)
    PROVE  Work(p) /\ NoReturn
<1>. DEFINE out == [job[p].snap EXCEPT !.mem = db.mem]
            j == [job[p] EXCEPT !.snap = Empty]
<1>0. /\ pc[p] = "exportMembers" /\ job[p] \in Job /\ Unique(job[p].snap)
      /\ UNCHANGED <<db, used>> /\ Same
  BY DEF ExportMembers, ControlInv, JobFits
<1>1. out \in Contents /\ Unique(out)
  BY <1>0 DEF Job, Contents, DataInv, Unique, Present
<1>2. j \in Job
  BY <1>0, EmptyClosed DEF Job
<1>3. \/ ForeignKeys(out) /\ pkg' = out /\ Changed(p, "SyncExport", "package", j)
      \/ Return(p) /\ UNCHANGED <<pkg, effect>>
  BY DEF ExportMembers
<1>. HIDE DEF out, j
<1>4. CASE Return(p) /\ UNCHANGED <<pkg, effect>>
  BY <1>0, <1>4, ReturnWork, WorkLabels
<1>5. CASE ForeignKeys(out) /\ pkg' = out /\ Changed(p, "SyncExport", "package", j)
  <2>1. /\ Goto(p, pc'[p], job'[p]) /\ Accounts(p) /\ pc'[p] \in {"idle", "auditRead"}
        /\ job'[p] \in Job /\ JobFits(pc'[p], job'[p])
    BY <1>2, <1>5, ChangedFacts DEF Cmds, Args
  <2>2. DataInv' /\ NoReturn
    BY <1>0, <1>1, <1>5 DEF Same, DataInv, Closed, ForeignKeys, Unique, Members, Present,
      NoReturn
  <2>. QED BY <1>0, <2>1, <2>2 DEF Work, Same, Working, Booting, Auditing, Labels
<1>. QED BY <1>3, <1>4, <1>5

(* sync_import: the one way a contact comes back. *)
LEMMA SyncImportWork ==
    ASSUME ControlInv, DataInv, NEW p \in Procs, NEW mode, SyncImport(p, mode)
    PROVE  Work(p)
<1>1. PICK from \in {pkg, inbox} \ {None} :
        /\ db' = IF mode = "Merge" THEN Merge(db, from) ELSE Replace(db, from)
        /\ used' = used \cup Present(from)
  BY DEF SyncImport
<1>2. from \in Contents /\ Closed(from)
  BY <1>1, HostAssumption DEF DataInv, Closed
<1>3. db' \in Contents /\ Closed(db') /\ Present(db') \subseteq Present(db) \cup Present(from)
  BY <1>1, <1>2, MergeClosed DEF DataInv, Replace
<1>4. DataInv'
  BY <1>1, <1>3, NewData DEF DataInv, SyncImport, Same, Present
<1>5. /\ Goto(p, pc'[p], job'[p]) /\ Accounts(p) /\ pc'[p] \in {"idle", "auditRead"}
      /\ job'[p] \in Job /\ JobFits(pc'[p], job'[p])
  BY ChangedFacts, IdleJob DEF SyncImport, Cmds, Args
<1>. QED BY <1>4, <1>5 DEF Work, SyncImport, Start, Same, Working, Booting, Auditing, Labels

-----------------------------------------------------------------------------
(* The audit log. *)

(* One more copy of one element. *)
LEMMA AddToBag ==
    ASSUME NEW B, IsABag(B), NEW x
    PROVE  LET C == B (+) SetToBag({x})
           IN  /\ IsABag(C) /\ DOMAIN C = DOMAIN B \cup {x}
               /\ C[x] = (IF x \in DOMAIN B THEN B[x] ELSE 0) + 1
               /\ \A y \in DOMAIN B \ {x} : C[y] = B[y]
<1>. DEFINE C == B (+) SetToBag({x})
<1>1. DOMAIN C = DOMAIN B \cup {x}
  BY DEF SetToBag, (+)
<1>2. \A y \in DOMAIN B : B[y] \in Nat /\ B[y] > 0
  BY DEF IsABag
<1>3. C[x] = (IF x \in DOMAIN B THEN B[x] ELSE 0) + 1
  BY <1>1, <1>2 DEF SetToBag, (+)
<1>4. \A y \in DOMAIN B \ {x} : C[y] = B[y]
  BY <1>1, <1>2 DEF SetToBag, (+)
<1>5. C \in [DOMAIN B \cup {x} -> {n \in Nat : n > 0}]
  BY <1>1, <1>2, <1>3, <1>4 DEF (+), SetToBag
<1>. QED BY <1>1, <1>3, <1>4, <1>5 DEF IsABag

(* The sets that are counted are finite. *)
LEMMA CountsFinite ==
    ASSUME ChainInv, NEW x
    PROVE  /\ IsFiniteSet(RowsOf(x)) /\ Cardinality(RowsOf(x)) \in Nat
           /\ IsFiniteSet(Owing(x)) /\ Cardinality(Owing(x)) \in Nat
<1>1. IsFiniteSet(DOMAIN log)
  BY FS_Interval DEF ChainInv
<1>2. IsFiniteSet(RowsOf(x))
  BY <1>1, FS_Subset DEF RowsOf
<1>3. IsFiniteSet(Owing(x))
  BY HostAssumption, FS_Subset DEF Owing
<1>. QED BY <1>2, <1>3, FS_CardinalityType

(* The number of changes made. *)
LEMMA MadeType == ASSUME IsABag(effect), NEW x PROVE Made(x) \in Nat
BY DEF IsABag, Made, BagIn, BagToSet

(* Nobody new owes a row and no row is written. *)
LEMMA TallyKept ==
    ASSUME ChainInv, TallyInv, log' = log, effect' = effect,
           \A a \in Cmds \ Unsure, s \in Args : Owing(<<a, s>>)' \subseteq Owing(<<a, s>>)
    PROVE  TallyInv'
<1>. SUFFICES ASSUME NEW a \in Cmds \ Unsure, NEW s \in Args
              PROVE  Cardinality(RowsOf(<<a, s>>)') + Cardinality(Owing(<<a, s>>)')
                       <= Made(<<a, s>>)'
  BY DEF TallyInv
<1>. DEFINE x == <<a, s>>
<1>1. Owing(x)' \in SUBSET Owing(x) /\ RowsOf(x)' = RowsOf(x) /\ Made(x)' = Made(x)
  BY DEF RowsOf, Made
<1>2. /\ Cardinality(RowsOf(x)) \in Nat /\ Cardinality(Owing(x)) \in Nat
      /\ IsFiniteSet(Owing(x)) /\ Made(x) \in Nat
  BY CountsFinite, MadeType DEF TallyInv
<1>3. Cardinality(RowsOf(x)) + Cardinality(Owing(x)) <= Made(x)
  BY DEF TallyInv
<1>. HIDE DEF x
<1>4. Cardinality(Owing(x)') <= Cardinality(Owing(x)) /\ Cardinality(Owing(x)') \in Nat
  BY <1>1, <1>2, FS_Subset, FS_CardinalityType
<1>. QED BY <1>1, <1>2, <1>3, <1>4 DEF x

(* A change is made, and at most the process that made it owes its row. *)
LEMMA TallyMade ==
    ASSUME ControlInv, ChainInv, TallyInv, NEW p \in Procs, NEW a \in Cmds, NEW s \in Args,
           pc[p] \notin Auditing, Goto(p, pc'[p], job'[p]), log' = log,
           effect' = effect (+) SetToBag({<<a, s>>}),
           pc'[p] \in Auditing => job'[p].cmd = a /\ job'[p].arg = s
    PROVE  TallyInv'
<1>. DEFINE y == <<a, s>>
<1>1. /\ IsABag(effect') /\ DOMAIN effect' = DOMAIN effect \cup {y}
      /\ effect'[y] = (IF y \in DOMAIN effect THEN effect[y] ELSE 0) + 1
      /\ \A z \in DOMAIN effect \ {y} : effect'[z] = effect[z]
  BY AddToBag DEF TallyInv
<1>. SUFFICES ASSUME NEW b \in Cmds \ Unsure, NEW t \in Args
              PROVE  Cardinality(RowsOf(<<b, t>>)') + Cardinality(Owing(<<b, t>>)')
                       <= Made(<<b, t>>)'
  BY <1>1 DEF TallyInv
<1>. DEFINE x == <<b, t>>
<1>2. /\ Cardinality(RowsOf(x)) \in Nat /\ Cardinality(Owing(x)) \in Nat
      /\ IsFiniteSet(Owing(x)) /\ Made(x) \in Nat
  BY CountsFinite, MadeType DEF TallyInv
<1>3. Cardinality(RowsOf(x)) + Cardinality(Owing(x)) <= Made(x)
  BY DEF TallyInv
<1>4. RowsOf(x)' = RowsOf(x)
  BY DEF RowsOf
<1>5. \A q \in Procs \ {p} : pc'[q] = pc[q] /\ job'[q] = job[q]
  BY DEF Goto, ControlInv
<1>6. CASE x = y
  <2>1. Made(x)' = Made(x) + 1
    BY <1>1, <1>6 DEF Made, BagIn, BagToSet
  <2>2. Owing(x)' \in SUBSET (Owing(x) \cup {p})
    BY <1>5 DEF Owing
  <2>3. /\ IsFiniteSet(Owing(x) \cup {p})
        /\ Cardinality(Owing(x) \cup {p}) \in {Cardinality(Owing(x)), Cardinality(Owing(x)) + 1}
    BY <1>2, FS_AddElement
  <2>4. Cardinality(Owing(x)') <= Cardinality(Owing(x) \cup {p}) /\ Cardinality(Owing(x)') \in Nat
    BY <2>2, <2>3, FS_Subset, FS_CardinalityType
  <2>. HIDE DEF x
  <2>. QED BY <1>2, <1>3, <1>4, <2>1, <2>3, <2>4 DEF x
<1>7. CASE x # y
  <2>1. Made(x)' = Made(x)
    BY <1>1, <1>7 DEF Made, BagIn, BagToSet
  <2>2. Owing(x)' \in SUBSET Owing(x)
    BY <1>5, <1>7 DEF Owing
  <2>3. Cardinality(Owing(x)') <= Cardinality(Owing(x)) /\ Cardinality(Owing(x)') \in Nat
    BY <1>2, <2>2, FS_Subset, FS_CardinalityType
  <2>. HIDE DEF x
  <2>. QED BY <1>2, <1>3, <1>4, <2>1, <2>3 DEF x
<1>. QED BY <1>6, <1>7

(* A statement of a command preserves IInv. *)
LEMMA WorkIInv == ASSUME IInv, NEW p \in Procs, Work(p) PROVE IInv'
<1>1. /\ pc[p] \in Working \ Auditing /\ pc'[p] \in Working \ {"auditInsert"}
      /\ \A q \in Procs \ {p} : pc'[q] = pc[q] /\ job'[q] = job[q]
      /\ UNCHANGED <<schema, log, inbox, late, daemon, raced>>
  BY DEF Work, Goto, IInv, ControlInv
<1>2. ControlInv'
  BY <1>1 DEF Work, Goto, IInv, ControlInv, Working
<1>3. DataInv'
  BY DEF Work
<1>4. MigrationInv'
  <2>1. schema = 1..Versions /\ schema' = schema
    BY <1>1 DEF IInv, MigrationInv
  <2>2. pc'[p] \notin Booting /\ pc'[p] # "lost" /\ pc'[p] # "apply" /\ pc'[p] # "migrate"
    BY <1>1 DEF Working, Booting
  <2>. QED BY <1>1, <2>1, <2>2 DEF IInv, MigrationInv
<1>5. ChainInv'
  BY <1>1 DEF IInv, ChainInv, ChainIntact
<1>6. TallyInv'
  <2>1. CASE effect' = effect /\ pc'[p] \notin Auditing
    <3>1. \A x : Owing(x)' \subseteq Owing(x)
      BY <1>1, <2>1 DEF Owing
    <3>. QED BY <1>1, <2>1, <3>1, TallyKept DEF IInv
  <2>2. ASSUME NEW a \in Cmds, NEW s \in Args, effect' = effect (+) SetToBag({<<a, s>>}),
               \/ pc'[p] = "idle"
               \/ pc'[p] = "auditRead" /\ job'[p].cmd = a /\ job'[p].arg = s
        PROVE  TallyInv'
    BY <1>1, <2>2, TallyMade DEF IInv, Work, Auditing
  <2>3. CASE effect' = effect /\ pc'[p] = "auditRead" /\ job'[p].cmd \in Unsure
    <3>1. \A a \in Cmds \ Unsure, s \in Args : Owing(<<a, s>>)' \subseteq Owing(<<a, s>>)
      BY <1>1, <2>3 DEF Owing
    <3>. QED BY <1>1, <2>3, <3>1, TallyKept DEF IInv
  <2>. QED BY <2>1, <2>2, <2>3 DEF Work, Accounts
<1>. QED BY <1>2, <1>3, <1>4, <1>5, <1>6 DEF IInv

-----------------------------------------------------------------------------
(* Opening the database, the audit rows, kills. *)

(* A process that does not append to the log, and owes no new row. *)
LEMMA UnauditedStep ==
    ASSUME IInv, NEW p \in Procs, Goto(p, pc'[p], job'[p]), pc'[p] \in Labels \ Auditing,
           job'[p] \in Job, JobFits(pc'[p], job'[p]), MigrationInv',
           UNCHANGED <<db, log, pkg, inbox, daemon, commands, used, effect, raced>>
    PROVE  IInv'
<1>1. \A q \in Procs \ {p} : pc'[q] = pc[q] /\ job'[q] = job[q]
  BY DEF Goto, IInv, ControlInv
<1>2. ControlInv'
  BY <1>1 DEF Goto, IInv, ControlInv
<1>3. DataInv'
  BY SameData DEF IInv
<1>4. ChainInv'
  BY <1>1 DEF IInv, ChainInv, ChainIntact, Auditing
<1>5. TallyInv'
  <2>1. \A x : Owing(x)' \subseteq Owing(x)
    BY <1>1 DEF Owing
  <2>. QED BY <2>1, TallyKept DEF IInv
<1>. QED BY <1>2, <1>3, <1>4, <1>5 DEF IInv

(* Db::open. *)
LEMMA OpenIInv == ASSUME IInv, NEW p \in Procs, Open(p) PROVE IInv'
<1>. DEFINE j == [Idle EXCEPT !.prev = 1]
<1>1. j \in Job /\ JobFits("migrate", j) /\ j.prev = 1
  BY IdleJob DEF Job, Idle, JobFits
<1>2. Goto(p, "migrate", j) /\ UNCHANGED <<file, hist>>
  BY DEF Open
<1>. HIDE DEF j
<1>3. pc'[p] = "migrate" /\ job'[p] = j /\ Goto(p, pc'[p], job'[p])
  BY <1>2, GotoFacts DEF IInv
<1>4. \A q \in Procs \ {p} : pc'[q] = pc[q] /\ job'[q] = job[q]
  BY <1>3 DEF Goto, IInv, ControlInv
<1>5. MigrationInv'
  <2>1. pc[p] \in {"off", "lost"} /\ schema' = schema
    BY <1>2 DEF Open, file
  <2>. QED BY <1>1, <1>3, <1>4, <2>1 DEF IInv, MigrationInv, Working, Booting
<1>. QED BY <1>1, <1>2, <1>3, <1>5, UnauditedStep DEF file, hist, Labels, Auditing

(* run_migrations looks for the next version. *)
LEMMA MigrateIInv == ASSUME IInv, NEW p \in Procs, Migrate(p) PROVE IInv'
<1>. DEFINE missing == {v \in job[p].prev..Versions : v \notin schema}
<1>0. /\ pc[p] = "migrate" /\ UNCHANGED <<file, hist>> /\ job[p] \in Job
      /\ job[p].prev \in Nat \ {0} /\ 1..(job[p].prev - 1) \subseteq schema
      /\ schema' = schema /\ schema \subseteq 1..Versions
      /\ \A v \in schema : 1..v \subseteq schema
  BY DEF Migrate, IInv, ControlInv, MigrationInv, file
<1>1. CASE missing = {}
  <2>1. pc'[p] = "idle" /\ job'[p] = Idle /\ Goto(p, pc'[p], job'[p])
    BY <1>1, GotoFacts DEF Migrate, IInv
  <2>2. schema = 1..Versions
    <3>1. \A v \in 1..Versions : v >= job[p].prev => v \in schema
      BY <1>0, <1>1, HostAssumption
    <3>2. \A v \in 1..Versions : v < job[p].prev => v \in schema
      BY <1>0, HostAssumption
    <3>3. \A v \in 1..Versions : v >= job[p].prev \/ v < job[p].prev
      BY <1>0, HostAssumption
    <3>4. \A v \in 1..Versions : v \in schema
      BY <3>1, <3>2, <3>3
    <3>. QED BY <1>0, <3>4
  <2>3. \A q \in Procs \ {p} : pc'[q] = pc[q] /\ job'[q] = job[q]
    BY <2>1 DEF Goto, IInv, ControlInv
  <2>4. MigrationInv'
    BY <1>0, <2>1, <2>2, <2>3 DEF IInv, MigrationInv, Working, Booting
  <2>. QED BY <1>0, <2>1, <2>4, IdleJob, UnauditedStep DEF file, hist, Labels, Auditing
<1>2. CASE missing # {}
  <2>1. PICK v \in missing : /\ \A w \in missing : v <= w
                             /\ Goto(p, "apply", [job[p] EXCEPT !.prev = v])
    BY <1>2 DEF Migrate
  <2>. DEFINE j == [job[p] EXCEPT !.prev = v]
  <2>2. v \in Nat \ {0} /\ v <= Versions /\ v \notin schema
    BY <1>0, HostAssumption
  <2>3. 1..(v - 1) \subseteq schema
    BY <1>0, <2>1, <2>2, HostAssumption
  <2>4. j \in Job /\ JobFits("apply", j) /\ j.prev = v
    BY <1>0, <2>2 DEF Job, JobFits
  <2>. HIDE DEF j
  <2>5. pc'[p] = "apply" /\ job'[p] = j /\ Goto(p, pc'[p], job'[p])
    BY <2>1, GotoFacts DEF IInv, j
  <2>6. \A q \in Procs \ {p} : pc'[q] = pc[q] /\ job'[q] = job[q]
    BY <2>5 DEF Goto, IInv, ControlInv
  <2>7. MigrationInv'
    BY <1>0, <2>2, <2>3, <2>4, <2>5, <2>6 DEF IInv, MigrationInv, Working, Booting
  <2>. QED BY <1>0, <2>4, <2>5, <2>7, UnauditedStep DEF file, hist, Labels, Auditing
<1>. QED BY <1>1, <1>2

(* A migration is applied, or another process has applied it. *)
LEMMA ApplyIInv == ASSUME IInv, NEW p \in Procs, Apply(p) PROVE IInv'
<1>0. /\ pc[p] = "apply" /\ job[p] \in Job /\ job[p].prev \in Nat \ {0}
      /\ job[p].prev <= Versions /\ 1..(job[p].prev - 1) \subseteq schema
      /\ UNCHANGED <<db, log, pkg, inbox, late, daemon, hist>>
  BY DEF Apply, IInv, ControlInv, MigrationInv
<1>1. CASE job[p].prev \in schema
  <2>1. pc'[p] = "lost" /\ job'[p] = Idle /\ Goto(p, pc'[p], job'[p]) /\ schema' = schema
    BY <1>1, GotoFacts DEF Apply, IInv
  <2>2. \A q \in Procs \ {p} : pc'[q] = pc[q] /\ job'[q] = job[q]
    BY <2>1 DEF Goto, IInv, ControlInv
  <2>3. PICK q \in Procs : pc[q] # "lost" /\ (pc[q] = "apply" => job[q].prev \notin schema)
    BY DEF IInv, MigrationInv
  <2>4. q # p
    BY <1>0, <1>1, <2>3
  <2>5. MigrationInv'
    BY <2>1, <2>2, <2>3, <2>4 DEF IInv, MigrationInv, Working, Booting
  <2>. QED BY <1>0, <2>1, <2>5, IdleJob, UnauditedStep DEF hist, Labels, Auditing
<1>2. CASE job[p].prev \notin schema
  <2>. DEFINE v == job[p].prev
              j == [job[p] EXCEPT !.prev = @ + 1]
  <2>1. j \in Job /\ JobFits("migrate", j) /\ j.prev = v + 1
    BY <1>0 DEF Job, JobFits
  <2>2. schema' = schema \cup {v} /\ Goto(p, "migrate", j)
    BY <1>2 DEF Apply
  <2>. HIDE DEF j
  <2>3. pc'[p] = "migrate" /\ job'[p] = j /\ Goto(p, pc'[p], job'[p])
    BY <2>2, GotoFacts DEF IInv
  <2>4. \A q \in Procs \ {p} : pc'[q] = pc[q] /\ job'[q] = job[q]
    BY <2>3 DEF Goto, IInv, ControlInv
  <2>5. \A q \in Procs : pc[q] \notin Working
    BY <1>0, <1>2, HostAssumption DEF IInv, MigrationInv
  <2>6. schema' \subseteq 1..Versions /\ \A w \in schema' : 1..w \subseteq schema'
    <3>1. /\ schema \subseteq 1..Versions /\ \A w \in schema : 1..w \subseteq schema
          /\ v \in Nat \ {0} /\ v <= Versions /\ 1..(v - 1) \subseteq schema
      BY <1>0 DEF IInv, MigrationInv
    <3>. HIDE DEF v
    <3>2. v \in 1..Versions /\ \A w \in 1..v : w = v \/ w \in 1..(v - 1)
      BY <3>1, HostAssumption
    <3>. QED BY <2>2, <3>1, <3>2
  <2>7. MigrationInv'
    <3>1. \A q \in Procs : pc'[q] \notin Working
      BY <2>3, <2>4, <2>5 DEF Working, Booting
    <3>2. j.prev \in Nat \ {0} /\ 1..(j.prev - 1) \subseteq schema'
      <4>1. v \in Nat \ {0} /\ 1..(v - 1) \subseteq schema
        BY <1>0
      <4>2. \A w \in 1..v : w = v \/ w \in 1..(v - 1)
        BY <4>1
      <4>3. 1..v \subseteq schema'
        BY <2>2, <4>1, <4>2
      <4>. QED BY <2>1, <4>1, <4>3
    <3>3. \A q \in Procs : pc'[q] \in {"migrate", "apply"} =>
            job'[q].prev \in Nat \ {0} /\ 1..(job'[q].prev - 1) \subseteq schema'
      BY <2>2, <2>3, <2>4, <3>2 DEF IInv, MigrationInv
    <3>4. \A q \in Procs : pc'[q] = "apply" => job'[q].prev <= Versions
      BY <2>3, <2>4 DEF IInv, MigrationInv
    <3>. QED BY <2>3, <2>6, <3>1, <3>3, <3>4 DEF MigrationInv
  <2>. QED BY <1>0, <2>1, <2>3, <2>7, UnauditedStep DEF hist, Labels, Auditing
<1>. QED BY <1>1, <1>2

(* A process is killed between two statements. *)
LEMMA KillIInv == ASSUME IInv, NEW p \in Procs, Kill(p) PROVE IInv'
<1>1. /\ pc[p] \notin {"off", "lost", "idle"} /\ UNCHANGED <<file, hist>>
      /\ Goto(p, IF pc[p] \in {"migrate", "apply"} THEN "off" ELSE "idle", Idle)
  BY DEF Kill
<1>2. /\ pc'[p] = (IF pc[p] \in {"migrate", "apply"} THEN "off" ELSE "idle")
      /\ job'[p] = Idle /\ Goto(p, pc'[p], job'[p])
  BY <1>1, GotoFacts DEF IInv
<1>3. \A q \in Procs \ {p} : pc'[q] = pc[q] /\ job'[q] = job[q]
  BY <1>2 DEF Goto, IInv, ControlInv
<1>4. MigrationInv'
  <2>1. pc[p] \in Labels
    BY DEF IInv, ControlInv
  <2>. QED BY <1>1, <1>2, <1>3, <2>1 DEF IInv, MigrationInv, Working, Booting, file
<1>. QED BY <1>1, <1>2, <1>4, IdleJob, UnauditedStep DEF file, hist, Labels, Auditing

(* audit_append reads the last row. *)
LEMMA AuditReadIInv == ASSUME IInv, NEW p \in Procs, AuditRead(p) PROVE IInv'
<1>. DEFINE j == [job[p] EXCEPT !.prev = Len(log)]
<1>0. /\ pc[p] = "auditRead" /\ job[p] \in Job /\ Len(log) \in Nat
      /\ UNCHANGED <<file, commands, used, effect>>
      /\ raced' = (raced \/ \E q \in Procs \ {p} : pc[q] = "auditInsert")
      /\ Goto(p, "auditInsert", j)
  BY DEF AuditRead, IInv, ControlInv, ChainInv
<1>1. /\ j \in Job /\ JobFits("auditInsert", j) /\ j.prev = Len(log)
      /\ j.cmd = job[p].cmd /\ j.arg = job[p].arg
  BY <1>0 DEF Job, JobFits
<1>. HIDE DEF j
<1>2. pc'[p] = "auditInsert" /\ job'[p] = j
  BY <1>0, GotoFacts DEF IInv
<1>3. \A q \in Procs \ {p} : pc'[q] = pc[q] /\ job'[q] = job[q]
  BY <1>0 DEF Goto, IInv, ControlInv
<1>4. ControlInv'
  BY <1>0, <1>1, <1>2, <1>3 DEF Goto, file, IInv, ControlInv, Labels
<1>5. DataInv'
  BY <1>0, SameData DEF file, IInv
<1>6. MigrationInv'
  BY <1>0, <1>2, <1>3 DEF file, IInv, MigrationInv, Working, Booting, Labels
<1>7. ChainInv'
  <2>1. log' = log /\ \A q \in Procs : pc'[q] = "auditInsert" => job'[q].prev <= Len(log)
    BY <1>0, <1>1, <1>2, <1>3 DEF file, IInv, ChainInv
  <2>2. ~raced' => /\ ~raced
                   /\ \A q \in Procs \ {p} : pc'[q] # "auditInsert"
                   /\ job'[p].prev = Len(log)
    BY <1>0, <1>1, <1>2, <1>3
  <2>. QED BY <2>1, <2>2 DEF IInv, ChainInv, ChainIntact
<1>8. TallyInv'
  <2>1. \A x : Owing(x)' \subseteq Owing(x)
    BY <1>0, <1>1, <1>2, <1>3 DEF Owing, Auditing
  <2>. QED BY <1>0, <2>1, TallyKept DEF file, IInv
<1>. QED BY <1>4, <1>5, <1>6, <1>7, <1>8 DEF IInv

(* audit_append writes its row. *)
LEMMA AuditInsertIInv == ASSUME IInv, NEW p \in Procs, AuditInsert(p) PROVE IInv'
<1>. DEFINE r == [act |-> job[p].cmd, subj |-> job[p].arg, prev |-> job[p].prev]
<1>0. /\ pc[p] = "auditInsert" /\ job[p] \in Job /\ log \in Seq(AuditRow)
      /\ UNCHANGED <<schema, db, pkg, inbox, late, daemon, hist>>
      /\ log' = Append(log, r) /\ Goto(p, "idle", Idle) /\ job[p].prev <= Len(log)
  BY DEF AuditInsert, Return, IInv, ControlInv, ChainInv
<1>1. r \in AuditRow /\ r.prev = job[p].prev /\ <<r.act, r.subj>> = <<job[p].cmd, job[p].arg>>
  BY <1>0 DEF Job, AuditRow
<1>. HIDE DEF r
<1>2. pc'[p] = "idle" /\ job'[p] = Idle
  BY <1>0, GotoFacts DEF IInv
<1>3. \A q \in Procs \ {p} : pc'[q] = pc[q] /\ job'[q] = job[q]
  BY <1>0 DEF Goto, IInv, ControlInv
<1>4. /\ log' \in Seq(AuditRow) /\ Len(log') = Len(log) + 1 /\ log'[Len(log) + 1] = r
      /\ DOMAIN log = 1..Len(log) /\ DOMAIN log' = 1..(Len(log) + 1) /\ Len(log) \in Nat
      /\ \A k \in DOMAIN log : log'[k] = log[k]
  BY <1>0, <1>1
<1>5. ControlInv'
  BY <1>0, <1>2, <1>3, IdleJob DEF Goto, IInv, ControlInv, Labels
<1>6. DataInv'
  BY <1>0, SameData DEF hist, IInv
<1>7. MigrationInv'
  BY <1>0, <1>2, <1>3 DEF IInv, MigrationInv, Working, Booting, Labels
<1>8. ChainInv'
  <2>1. \A k \in DOMAIN log' : log'[k].prev \in 0..(k - 1)
    <3>1. job[p].prev \in Nat
      BY <1>0 DEF Job
    <3>. QED BY <1>0, <1>1, <1>4, <3>1 DEF IInv, ChainInv
  <2>2. \A q \in Procs : pc'[q] = "auditInsert" => job'[q].prev <= Len(log')
    <3>1. \A q \in Procs : job[q].prev \in Nat
      BY DEF IInv, ControlInv, Job
    <3>. QED BY <1>2, <1>3, <1>4, <3>1 DEF IInv, ChainInv
  <2>3. ~raced => \A q \in Procs : pc'[q] # "auditInsert"
    BY <1>0, <1>2, <1>3 DEF IInv, ChainInv
  <2>4. ~raced => ChainIntact(log')
    BY <1>0, <1>1, <1>4 DEF IInv, ChainInv, ChainIntact
  <2>. QED BY <1>0, <1>4, <2>1, <2>2, <2>3, <2>4 DEF ChainInv, ChainIntact, hist
<1>9. TallyInv'
  <2>. SUFFICES ASSUME NEW a \in Cmds \ Unsure, NEW s \in Args
                PROVE  Cardinality(RowsOf(<<a, s>>)') + Cardinality(Owing(<<a, s>>)')
                         <= Made(<<a, s>>)'
    BY <1>0 DEF TallyInv, IInv, hist
  <2>. DEFINE x == <<a, s>>
              n == Len(log) + 1
  <2>1. /\ Cardinality(RowsOf(x)) \in Nat /\ Cardinality(Owing(x)) \in Nat
        /\ IsFiniteSet(RowsOf(x)) /\ IsFiniteSet(Owing(x)) /\ Made(x) \in Nat
    BY CountsFinite, MadeType DEF TallyInv, IInv
  <2>2. Cardinality(RowsOf(x)) + Cardinality(Owing(x)) <= Made(x)
    BY DEF TallyInv, IInv
  <2>3. Made(x)' = Made(x)
    BY <1>0 DEF Made, hist
  <2>4. Owing(x)' = Owing(x) \ {p}
    BY <1>2, <1>3 DEF Owing, Auditing
  <2>5. CASE <<r.act, r.subj>> = x
    <3>1. RowsOf(x)' = RowsOf(x) \cup {n} /\ n \notin RowsOf(x)
      BY <1>4, <2>5 DEF RowsOf
    <3>2. p \in Owing(x)
      BY <1>0, <1>1, <2>5 DEF Owing, Auditing
    <3>. HIDE DEF x, n
    <3>3. Cardinality(RowsOf(x)') = Cardinality(RowsOf(x)) + 1
      BY <2>1, <3>1, FS_AddElement
    <3>4. Cardinality(Owing(x)') = Cardinality(Owing(x)) - 1
      BY <2>1, <2>4, <3>2, FS_RemoveElement
    <3>. QED BY <2>1, <2>2, <2>3, <3>3, <3>4 DEF x
  <2>6. CASE <<r.act, r.subj>> # x
    <3>1. RowsOf(x)' = RowsOf(x)
      BY <1>4, <2>6 DEF RowsOf
    <3>2. Owing(x)' = Owing(x)
      BY <1>1, <2>4, <2>6 DEF Owing
    <3>. HIDE DEF x
    <3>. QED BY <2>2, <2>3, <3>1, <3>2 DEF x
  <2>. QED BY <2>5, <2>6
<1>. QED BY <1>5, <1>6, <1>7, <1>8, <1>9 DEF IInv

-----------------------------------------------------------------------------
(* The specification. *)

(* A command begins, by galdra or by galdrad. *)
LEMMA CommandWork ==
    ASSUME ControlInv, DataInv, NEW p \in Procs,
           RunContact(p) \/ RunGroup(p) \/ ApiContacts(p) \/ ApiGroups(p) \/ SyncExport(p)
    PROVE  Work(p) /\ NoReturn
<1>1. CASE ContactAdd(p) \/ ContactFetch(p) \/ ContactImport(p)
  BY <1>1, AddRowWork DEF ContactAdd, ContactFetch, ContactImport
<1>2. CASE \E t \in Tokens, c \in Callsigns : ContactEdit(p, t, c)
  BY <1>2, ContactEditWork
<1>3. CASE \E t \in Tokens : ContactDelete(p, t)
  BY <1>3, ContactDeleteWork
<1>4. CASE \E g \in Groups, h \in Flags : GroupCreate(p, g, h)
  BY <1>4, GroupCreateWork, HostAssumption
<1>5. CASE \E g \in Groups, h \in Flags : GroupEdit(p, g, h)
  BY <1>5, GroupEditWork, HostAssumption
<1>6. CASE \E g \in Groups : GroupDelete(p, g)
  BY <1>6, GroupCreateWork
<1>7. CASE \E g \in Groups, t \in Tokens, e \in Expiry : GroupAdd(p, g, t, e)
  BY <1>7, GroupAddWork
<1>8. CASE \E g \in Groups, t \in Tokens : GroupRemove(p, g, t)
  BY <1>8, GroupRemoveWork
<1>9. CASE \E g, from \in Groups : GroupCopy(p, g, from)
  BY <1>9, GroupCopyWork
<1>10. CASE SyncExport(p)
  BY <1>10, SyncExportWork
<1>. QED
  BY <1>1, <1>2, <1>3, <1>4, <1>5, <1>6, <1>7, <1>8, <1>9, <1>10
     DEF RunContact, RunGroup, ApiContacts, ApiGroups

(* A command goes on. *)
LEMMA StatementWork ==
    ASSUME ControlInv, DataInv, NEW p \in Procs, Statement(p), ~AuditRead(p), ~AuditInsert(p)
    PROVE  Work(p) /\ NoReturn
BY SelectBackWork, KeyUpdateWork, EditRowWork, ContactDeleteRowWork, GroupEditRowWork,
   MemberCheckWork, MemberUpsertWork, MemberDeleteWork, CopyWork, ExportMetaWork,
   ExportMembersWork DEF Statement

(* Every step of a process preserves IInv, and brings no contact back unless  *)
(* it is galdra's import.                                                     *)
LEMMA ProcessStep ==
    ASSUME IInv, NEW p \in Procs,
           \/ Open(p) \/ Migrate(p) \/ Apply(p)
           \/ RunContact(p) \/ RunGroup(p) \/ RunSync(p)
           \/ ApiContacts(p) \/ ApiGroups(p)
           \/ Statement(p) \/ Kill(p)
    PROVE  /\ IInv'
           /\ NoReturn \/ (p \in Cli /\ \E m \in {"Merge", "Replace"} : SyncImport(p, m))
<1>0. ControlInv /\ DataInv
  BY DEF IInv
<1>1. CASE Open(p) \/ Migrate(p) \/ Apply(p) \/ Kill(p)
  <2>1. UNCHANGED db
    BY <1>1 DEF Open, Migrate, Apply, Kill, file
  <2>2. NoReturn
    BY <2>1 DEF NoReturn, Present
  <2>. QED BY <1>1, <2>2, OpenIInv, MigrateIInv, ApplyIInv, KillIInv
<1>2. CASE RunContact(p) \/ RunGroup(p) \/ ApiContacts(p) \/ ApiGroups(p) \/ SyncExport(p)
  BY <1>0, <1>2, CommandWork, WorkIInv
<1>3. CASE Statement(p)
  <2>1. CASE AuditRead(p)
    <3>1. NoReturn
      BY <2>1 DEF NoReturn, Present, AuditRead, file
    <3>. QED BY <2>1, <3>1, AuditReadIInv
  <2>2. CASE AuditInsert(p)
    <3>1. NoReturn
      BY <2>2 DEF NoReturn, Present, AuditInsert
    <3>. QED BY <2>2, <3>1, AuditInsertIInv
  <2>3. CASE ~AuditRead(p) /\ ~AuditInsert(p)
    BY <1>0, <1>3, <2>3, StatementWork, WorkIInv
  <2>. QED BY <2>1, <2>2, <2>3
<1>4. CASE p \in Cli /\ \E m \in {"Merge", "Replace"} : SyncImport(p, m)
  BY <1>0, <1>4, SyncImportWork, WorkIInv
<1>. QED BY <1>1, <1>2, <1>3, <1>4 DEF RunSync

(* A step that changes no more than the time keeps IInv. *)
LEMMA QuietStep ==
    ASSUME IInv, UNCHANGED <<schema, db, log, pkg, inbox, daemon, pc, job, hist>>
    PROVE  IInv' /\ NoReturn
<1>1. UNCHANGED <<commands, used, effect, raced>>
  BY DEF hist
<1>2. ControlInv' /\ MigrationInv' /\ ChainInv'
  BY <1>1 DEF IInv, ControlInv, MigrationInv, ChainInv, ChainIntact
<1>3. DataInv' /\ NoReturn
  BY <1>1, SameData DEF IInv
<1>4. TallyInv'
  BY <1>1 DEF IInv, TallyInv, RowsOf, Owing, Made
<1>. QED BY <1>2, <1>3, <1>4 DEF IInv

(* Every step of the specification. *)
LEMMA DirectoryStep ==
    ASSUME IInv, [Next]_vars
    PROVE  /\ IInv'
           /\ NoReturn \/ \E p \in Cli, m \in {"Merge", "Replace"} : SyncImport(p, m)
<1>1. CASE \E p \in Procs :
             \/ Open(p) \/ Migrate(p) \/ Apply(p)
             \/ RunContact(p) \/ RunGroup(p) \/ RunSync(p)
             \/ ApiContacts(p) \/ ApiGroups(p)
             \/ Statement(p) \/ Kill(p)
  BY <1>1, ProcessStep
<1>2. CASE TimePasses \/ UNCHANGED vars
  <2>1. UNCHANGED <<schema, db, log, pkg, inbox, daemon, pc, job, hist>>
    BY <1>2 DEF TimePasses, vars, hist
  <2>. QED BY <2>1, QuietStep
<1>. QED BY <1>1, <1>2 DEF Next

(* The initial states: an empty database, possibly a received package. *)
LEMMA InitIInv == ASSUME Init PROVE IInv
<1>1. ControlInv
  BY IdleJob DEF Init, ControlInv, Labels
<1>2. DataInv
  <2>1. db = Empty /\ pkg = None /\ inbox \in Foreign \cup {None} /\ used \subseteq Ids
    BY DEF Init, Present
  <2>. QED BY <2>1, EmptyClosed DEF DataInv
<1>3. MigrationInv
  BY HostAssumption DEF Init, MigrationInv, Working, Booting
<1>4. ChainInv
  BY DEF Init, ChainInv, ChainIntact
<1>5. TallyInv
  <2>1. IsABag(effect)
    BY DEF Init, EmptyBag, SetToBag, IsABag
  <2>2. \A x : RowsOf(x) = {} /\ Owing(x) = {}
    BY DEF Init, RowsOf, Owing, Auditing
  <2>3. Cardinality({}) = 0
    BY FS_EmptySet
  <2>4. \A x : Made(x) \in Nat
    BY <2>1, MadeType
  <2>. QED BY <2>1, <2>2, <2>3, <2>4 DEF TallyInv
<1>. QED BY <1>1, <1>2, <1>3, <1>4, <1>5 DEF IInv

(* The inductive invariant of the host directory: whatever galdra processes   *)
(* and galdrad interleave, wherever they are killed.                          *)
THEOREM DirectoryInvariance == Spec => []IInv
<1>1. Init => IInv
  BY InitIInv
<1>2. IInv /\ [Next]_vars => IInv'
  BY DirectoryStep
<1>. QED BY <1>1, <1>2, PTL DEF Spec

(* Type correctness: the tables, the log, the package file and the locals of  *)
(* every process.                                                             *)
THEOREM DirectoryTypeCorrect == Spec => []DirectoryTypeOK
<1>1. IInv => DirectoryTypeOK
  BY DEF IInv, ControlInv, DataInv, MigrationInv, ChainInv, DirectoryTypeOK, Job
<1>. QED BY <1>1, DirectoryInvariance, PTL

(* A membership names a contact that exists and a callsign names one contact, *)
(* although group_add_member and contact_update check before they write.      *)
THEOREM DirectoryStaysClosed == Spec => []DirectoryClosed
<1>1. IInv => DirectoryClosed
  BY DEF IInv, DataInv, Closed, DirectoryClosed
<1>. QED BY <1>1, DirectoryInvariance, PTL

(* The package sync_export writes from three SELECTs is always importable.    *)
THEOREM PackageStaysClosed == Spec => []PackageClosed
<1>1. IInv => PackageClosed
  BY DEF IInv, DataInv, Closed, PackageClosed
<1>. QED BY <1>1, DirectoryInvariance, PTL

(* The audit chain verifies unless two audit_append calls overlapped.         *)
THEOREM ChainHolds == Spec => []ChainUnlessRaced
<1>1. IInv => ChainUnlessRaced
  BY DEF IInv, ChainInv, ChainUnlessRaced
<1>. QED BY <1>1, DirectoryInvariance, PTL

(* The audit log never names a change more often than it was made.            *)
THEOREM AuditIsTruthful == Spec => []AuditTruthful
<1>1. ASSUME IInv PROVE AuditTruthful
  <2>. SUFFICES ASSUME NEW k \in DOMAIN log, log[k].act \notin Unsure
                PROVE  Cardinality(RowsOf(<<log[k].act, log[k].subj>>))
                         <= Made(<<log[k].act, log[k].subj>>)
    BY DEF AuditTruthful, RowsOf, Unsure
  <2>1. log[k].act \in Cmds \ Unsure /\ log[k].subj \in Args
    <3>1. log[k] \in AuditRow
      BY <1>1 DEF IInv, ChainInv
    <3>. QED BY <3>1 DEF AuditRow
  <2>. DEFINE x == <<log[k].act, log[k].subj>>
  <2>2. Cardinality(RowsOf(x)) + Cardinality(Owing(x)) <= Made(x)
    BY <1>1, <2>1 DEF IInv, TallyInv
  <2>3. Cardinality(RowsOf(x)) \in Nat /\ Cardinality(Owing(x)) \in Nat /\ Made(x) \in Nat
    BY <1>1, CountsFinite, MadeType DEF IInv, TallyInv
  <2>. QED BY <2>2, <2>3
<1>. QED BY <1>1, DirectoryInvariance, PTL

(* A process past Db::open works on the whole schema, versions are applied in *)
(* order, and the processes that race to migrate do not all give up.          *)
THEOREM MigratedBeforeUse == Spec => []MigratedWhenOpen
<1>1. IInv => MigratedWhenOpen
  BY DEF IInv, ControlInv, MigrationInv, MigratedWhenOpen, Working, Booting
<1>. QED BY <1>1, DirectoryInvariance, PTL

(* A contact that is gone comes back through an import of galdra only.        *)
THEOREM NothingResurrected == Spec => NoResurrection
<1>1. IInv /\ [Next]_vars =>
        [\A i \in used \ Present(db) : i \in Present(db)' =>
           \E p \in Cli, m \in {"Merge", "Replace"} : SyncImport(p, m)]_vars
  BY DirectoryStep DEF NoReturn
<1>. QED BY <1>1, DirectoryInvariance, PTL DEF Spec, NoResurrection
=============================================================================
