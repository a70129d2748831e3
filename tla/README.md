# Galdralag firmware in TLA+

TLA+ models of the Galdralag security token (Rust firmware for the Baochip-1x)
and of the parts of its host tooling that keep state. TLC checks the models on
small instances; TLAPS proves the main safety results for every value of the
constants.

## 1. The system

| Component | State it keeps | Operations | Hard part |
|---|---|---|---|
| `pin-policy` | `PinState` of one PIN in RAM | `submit_attempt` | charge before compare, refund after; a cut or a failed write in between |
| `baochip-openpgp` | the RRAM window: sealed keys, DO store, PIN digests, counters, master record, provision slots | counters, master key, provisioning, wipe | every write may fail or be the last before a power cut |
| OpenPGP vault backend | verifiers, machines, unsealed keys, termination flag | `new`, `open`, `verify_*`, `change_pin`, `generate_or_read_key` | RAM and RRAM must agree after partial failures |
| APDU dispatch, card state | PIN session flags, response buffer | one handler per INS | sequences of legal commands |
| OpenPGP DO store | header and slots in RRAM | seed, put, get | seeding cut half way, a full region |
| `galdralag` service | boot loop, USB link status, CCID mailbox, bring-up stub | provision, open, serve | retry loop after every kind of failure; link changes between two polls |
| CCID class | receive buffer, pending answer | poll, push, reset | split frames, answers racing resets |
| `contact-store` | 54 records, heaps, timing log, integrity register, index | insert, update, delete, lookup, append, unlock | several RRAM writes per operation, derived state rebuilt at boot |
| `ephemeral-session` | trust store, one initiator session per handshake | init, respond, complete, drop | loss, replay, reordering, damage |
| host directory (`galdra-core-host` contacts, groups, sync, audit; `galdra`; `galdrad`) | SQLite tables of contacts, groups, memberships, audit chain, migrations | CRUD, export, import, audit | several processes over one file, killed between statements |
| ephemeral offers (`galdra epk`) | table of offers, offer files | generate, import, expire, revoke | file and row written separately, re-import |
| `cipher-profile`, `cess`, envelopes (`profile`, `encrypt`, `decrypt`) | `user_profiles` table, sealed messages | add, remove, seal, open | a profile changed between sealing and opening, layer order, length limits |
| registry client (`keyserver`, `contact fetch`) | the nodes' contents | push, fetch, HKP search | a reply lost after the node acted |
| Shamir (`galdra shamir`) | share files | split, recover | field arithmetic, duplicate and missing shares |

Interactions. The service boots, bridges the PIN lines of the PDDB into the RRAM
provision slots, derives the master key, opens the vault backend and then serves
CCID frames one at a time: a frame is parsed, its APDU dispatched to one handler,
the handler calls the backend, the backend the PIN machine and the RRAM. There is
one thread, so interleaving comes from the outside: power cuts, failing RRAM
writes, USB resets and the order of the host's commands. On the host, every `galdra`
command is a process of its own and `galdrad` a long-lived one that serves a request at
a time under `Mutex<Db>`; all of them open the same SQLite file and interleave
statement by statement, since only migrations and imports use a transaction. Two
tokens meet in the ephemeral handshake, two installations through sync packages, offer
files, sealed messages and the registry. Each component's correctness is listed with
its hazards in `PROJECT.json`.

## 2. Modules

| Module | Models |
|---|---|
| `PinPolicy` | arithmetic of the attempt counter: saturating increment, refund, the limit test |
| `RetryBudget` | abstract specification: what PIN protection promises, every attempt one atomic step |
| `OpenPgpToken` | RRAM window, boot loop, PIN and key commands, wipe, power |
| `MCOpenPgpToken` | small instances for TLC |
| `OpenPgpTokenProofs` | the inductive invariant and the theorems |
| `ContactStore` | records, index, allocators, timing log, integrity gate, provisioning, PIN unlock, power |
| `MCContactStore` | small instances for TLC |
| `ContactStoreProofs` | the inductive invariants of its counters, regions and index, and the theorems |
| `CardObjects` | the DO store, algorithm attributes, sealed keys and their reloading |
| `CcidCard` | host driver, CCID transport (in-process class or Xous service loop), dispatcher, card state; composed with `CardObjects` |
| `KeyAgreement` | abstract specification of the ephemeral handshake |
| `EphemeralSession` | trust store, initiator and responder over an unreliable transport |
| `HostStore` | what each SQL statement on contacts, groups and memberships does |
| `HostDirectory` | the processes that issue them, sync packages, audit chain, migrations |
| `EphemeralOffers` | `galdra epk` on several installations |
| `CipherCascade`, `CipherMail` | the cascade and CESS wrapping on symbolic ciphertexts; profiles and messages |
| `RegistryClient` | registry push and fetch with failover, HKP search |
| `SecretSharing` | `shamir.rs` of the vault: split and recover over any field of characteristic 2 |
| `ShamirShares` | the signing key split and recovered with it, share texts and files |
| `HostTools` | the four preceding command groups side by side |
| `CcidCardProofs`, `EphemeralSessionProofs`, `HostDirectoryProofs`, `ShamirSharesProofs` | the inductive invariants and theorems of the module they are named after |
| `HostToolsProofs` | those of `EphemeralOffers`, `RegistryClient` and `CipherMail`, and of the composition |
| `Iteration` | induction over sets of numbers and functions defined by iteration, for the proof modules |
| `MCCcidCard`, `MCEphemeralSession`, `MCHostDirectory`, `MCHostTools` | small instances for TLC |

### OpenPgpToken and the code

RRAM variables, in ascending offset (`xous_impl.rs`, layout functions): `sealed`,
`doHeader`, `digest`, `ctr`, `master`, `slot`. RAM variables: `verifier`,
`machine`, `terminated`, `keyRam` are fields of `OpenPgpVaultBackend`; `session` is
`CardState`; `once` is the `PIN_ZEROISE` `OnceLock`; `mk` the master key of the boot
loop. `pc`, `job` and `wipeAt` say how far the running boot iteration or command
has come. `guesses` is a history variable: wrong PINs compared while a key was
stored.

A step is the code between two RRAM writes, so a power cut (`PowerLoss`) can
separate any two of them, and every write has an outcome from `WriteOk`. For
example `verify_user` is `Charge` (increment, written), `Compare` (the closure) and
`RefundCharge`; `change_pin` goes on with `PersistUser` and `PersistAdmin`, because
`persist_pin_hashes` writes both digests. A count above the limit goes to `WipeStep`,
which erases one cell per step in the order of `zero_rram_window`.

Abstractions:
- cells are written whole or not at all, and reads of the mapped window do not
  fail. `zero_rram_window` issues 256-byte chunks; the model erases one cell per
  step, which allows every interruption the code allows and also those inside the
  last chunk (which holds the digests, the counters and the records above them);
- a PIN stands for its digest, so SHA-256 is taken as injective; a salt stands for
  the master key HKDF derives from it; a blob opens only under its own salt;
- `PinState` has three values: `BootCold`, `LockedIdle`, `Verifying` and `Unlocked`
  are one ("Armed"), since `submit_attempt` tests for `Bricked` only;
- DO contents, algorithm attributes and the signature counter are not in this
  module; PIN length checks are early returns without effect;
- the PDDB lines are present and constant (`InitialPin`): while they are missing
  the loop only waits.

### RetryBudget

`RetryBudget` knows three things: whether a key is stored, the attempts spent per
PIN and the wrong guesses made. While a key is stored attempts never come back,
a wrong guess spends one and is only judged below the limit. `OpenPgpToken`
implements it under the mapping `keyed <- HasKeys`, `spent <- Spent`, where `Spent`
leaves out a charge still in flight: the compare step is where the abstract
attempt happens, a refund is a stutter, and a power cut between charge and refund is
an abstract `Burn`.

### ContactStore and the code

RRAM variables: `rec` (record array), `heap`, `keys`, `log`, `integrity` (register
mirror, `<<>>` while zero), `marker`, `ctr` (the counter handle of the store), `provCtr`
(the one passed to `provision_fresh`). RAM variables: `gate`, `index`, `heapBump`,
`keyBump`, `logCount` are fields of `ContactStore` and its parts; `bricked` is the caller's
`PinPolicyMachine`. `tries` is a history variable: unlock attempts judged and not given
back; `text` in a record is a ghost, the strings the caller supplied.

A call is its first step (`Insert`, `Update`, `Delete`, `LogAppend`, `Unlock`) followed by one
step per further RRAM write: `AllocString` for each string, `WriteRecord` with the index
change behind it, `UpdateIntegrity`; `LogClear` per entry and `LogWrite`; `Settle` for the
refund. A failed write ends the call where the code's `?` does. `provision_fresh` is
`ProvisionFresh`, `ProvisionZero`, `ProvisionDigest`, `ProvisionCount`, `ProvisionMark`.
`PowerCycle` may happen before any of them.

Abstractions: cells are written whole (the record CRC therefore always holds) and
reads succeed; the keyed BLAKE3 digest stands for what it hashes (occupied records in
slot order and the whole log area); a fingerprint stands for its 16-byte prefix; a
string or key takes one cell of its region; `merge` is modelled by its lasting effect,
since the records it updates are a scratch copy; contacts are PIN protected (for
others unlock changes nothing); `compact` is called by no code. The service does not
call this crate yet (`main.rs` leaves it to HAL wiring), so the model is closed by an
environment that calls the public operations in any order after `init_on_boot`.

### CardObjects, CcidCard and the code

`CardObjects` keeps `header` and `slots` (the DO region), `blob` (sealed keys with the
algorithm they were made for), `keyRam` and `sigCounter`; `wrote` is a history variable.
`init_production_defaults` is one step per default object, so a cut or failure leaves a
partly seeded region. `CcidCard` adds the transport: `rx`, `ans` and `left` are
`CcidProtocolState`, `flags` and `rest` are `CardState`, `loop`, `last` and `inbox` the serve
loop of `services/galdralag` with the mailbox of the usb-bao1x server (external), and
`host` is a PC/SC driver. `via` chooses between `CcidClass` in process and the service
loop of the two boards; `dabao` starts with the stub backend and switches (`Switch`).
A handler is one step unless it writes RRAM, where the write may fail. Two commands stand for
what does not parse: the APDU of `"BADAPDU"` is refused by the dispatcher like any other
command, the CCID message of `"BAD"` never reaches it. `CcidClass` answers the latter with
sequence number 0 (`Malformed`, `usb_class.rs:103`), which a driver that sent it under another
number ignores (`Unheard`); the service loop answers with the number of the message it received
(`main.rs:443`).

Abstractions: a frame is one packet, or two if it carries data, likewise an answer; an
answer's length is counted in units of `le`; the host sends one command at a time and
respects `dwMaxCCIDMessageLength`; VERIFY succeeds or fails without a retry count, which
is in `OpenPgpToken`; `missed` marks behaviours in which the link changed again before
the service loop saw the first change, or went down with a frame still at the server;
`fit` is a history variable, the key slots whose attributes named the key's own
algorithm when the key was made or last loaded.

### EphemeralSession, KeyAgreement and the code

`SessionInit`, `Respond`, `Complete`, `Reject` and `Drop` are `InitiatorSession::init`,
`ResponderSession::respond`, `InitiatorSession::complete` with and without success, and the
drop of the session object; `TrustAdd` and `TrustRemove` are the in-memory trust store with
its capacity. Messages stay in `net` for ever: replay and reordering need no action of
their own, loss is a message never taken, `Garble` damages one field of a copy.
Signatures, ECDH and HKDF are symbolic: a shared secret is the pair of key pairs, and the
six derived keys follow from it and the transcript. `KeyAgreement` is implemented with
`answered` and `joined` read off `ends`, the key sets handed to the callers.

### HostStore, HostDirectory and the code

`HostStore` has one operator per SQL statement (an import is one transaction) with the
foreign keys, `ON DELETE CASCADE` and the UNIQUE index that the schema declares.
`HostDirectory` runs them: a process is `galdra`, which opens and migrates the database,
runs a command and appends an audit row, or `galdrad` (`daemon`), which stays open and
writes no audit row for contact and group changes. `pc` and `job` hold the next
statement and the locals read by earlier ones, so every check-then-write in the code is
two steps here. `Kill` may come before any statement. `effect`, `used` and `raced` are
history variables. An audit row keeps what it names and the link to its predecessor; the
BLAKE3 chain is that link. The other columns of a contact are left out because no write
depends on them.

### EphemeralOffers, CipherMail, RegistryClient, SecretSharing, ShamirShares and the code

The four command groups share no table, so `HostTools` runs them side by side and `area`
says which one a behaviour is about. In `EphemeralOffers` and `CipherMail` each statement, audit
row and file write is a step and a process may be killed between two; GnuPG and
Sequoia are symbolic (who signed, to whom encrypted). `CipherCascade` represents a
ciphertext as the list of boxes around a plaintext, each opened only by the label, key
and associated data that closed it, and keeps the exact lengths that the limits test.
`RegistryClient` asks a list of nodes in turn; node and network are external, and an
upload may be stored although its reply is lost. In `SecretSharing` the loops of
`eval_poly` and `lagrange_at_zero` are folds, `sort_shares_by_index` is the sorted list, and the
field is a constant: `GfAdd` and `GfMul` stand for the library's `Gf256`, of which only the
field laws are assumed (`GfAssumption`). The number of its elements is also the number of
values of a `u8`, since an index byte is a point. Every key byte is shared alike, so a key is
one element. `Device` is external: its host driver is a stub that refuses today, the
model lets it succeed or fail.

## 3. Runs

| Run | Expected | Properties | States | Shows |
|---|---|---|---|---|
| `TokenSafety` | pass | `TypeOK`, `GuessBound`, `KeysRecoverable`, `RamMatchesVault`, `ServesProvisioned`, `LockIrrevocable`, `RefinesRetryBudget` | 1.6 M | PIN budget, sealed keys and provisioning survive every failed write and power cut |
| `TokenBoot` | pass | `BootCompletes` | 97 k | from any RRAM content left behind, boot reaches the serve loop |
| `TokenResetRetry` | violation | `ResetRestoresAttempts` | | RESET RETRY COUNTER does not restore attempts |
| `ContactSafety` | pass | `StoreTypeOK`, `LookupComplete`, `LiveDataIntact`, `LogOrdered`, `ProvisionCounted`, `UnlockBound` | 2.7 M | directory, allocators, log and provisioning survive every failed write and power cut |
| `ContactMirror` | violation | `MirrorFollowsMutations` | | a timing-log append invalidates the integrity register |
| `ContactBudget` | violation | `BreachNeedsTries` | | appends spend the unlock attempts |
| `Card` | pass | `CardTypeOK`, `ReadsLastWritten`, `KeysReload`, `FlagsOfThisEnumeration`, `ChainUnbroken`, `AnswersOwnCommand`, `CommandAnswered` | 409 k | objects, keys, PIN session and chained answers survive resets, cuts and lost answers; every command gets its own answer, but for a message that `CcidClass` cannot parse |
| `Session` | pass | `SessionTypeOK`, `PeerHoldsKeys`, `EphemeralOnce`, `SessionCompletes`, `RefinesKeyAgreement` | 132 k | both ends hold the same keys, no ephemeral key is used twice, foreign responses do not spoil a session |
| `HostDirectory` | pass | `DirectoryTypeOK`, `DirectoryClosed`, `PackageClosed`, `ChainUnlessRaced`, `AuditTruthful`, `MigratedWhenOpen`, `NoResurrection` | 850 k | interleaved and killed processes keep the directory, the packages and the log consistent |
| `HostGroupDelete` | violation | `NewGroupEmpty` | | a deleted group leaves its members to the next group of that name |
| `HostTools` | pass | `HostToolsTypeOK`, `OfferAnswerable`, `ProfilesLoad`, `SealedOpens`, `UploadedOnce`, `SharesRecover`, `RevocationFinal` | 628 k | offers, profiles, messages, uploads and shares |
| `OfferConsumed` | violation | `ConsumedKeyCleared` | | a consumed offer keeps its private key |

`TokenSafety` uses two attempts, a counter cell that saturates one above the
limit, two PINs, two salts and one key: enough for a wrong guess followed by a
breach, for a wipe interrupted anywhere, for a second salt to be drawn, and for
attempts on an already exhausted counter. `Refs` leaves out `"Other"` (it differs from
`"Sign"` only in the session flag it sets), which `TokenBoot` includes. `TokenBoot`
takes `WriteOk = {TRUE}`: with failing writes the loop need not terminate, and after
a failed `open_or_provision_backend` the `OnceLock` keeps it from succeeding until the
next power cycle.

`ContactSafety` uses two slots, two fingerprints (so that two contacts can share one or
be out of order), two strings, regions of two cells and a log of two entries: regions
fill up, orphaned cells appear after cuts, the log is merged and its clearing cut half
way. `MaxAttempts = 2` and `CounterMax = 3` let an append, an unlock and a saturated
counter meet. `OwnCount = 0` puts both slots in the recipient class, so that the choice of
the first free slot matters; the own-identity class, which `insert` treats the same way
over another range, occurs in `ContactMirror` and `ContactBudget`. The two strings are
symmetric: they are only compared for equality.

`Card` uses six slots, one more than the seeded defaults, so the region fills up with the
second new object; two enumerations or power cycles and three commands: enough for
VERIFY, re-enumeration and SIGN, for an answer of the first enumeration to meet a command
with the same number in the second, and for generate, attribute change and reload.
`CounterMod = 2` makes the signature counter wrap. `Vias` leaves out `"baosec"`, which is
`"dabao"` without the stub phase.

`Session` uses two nodes, two curves and four key pairs: two complete handshakes, crossed
or one after the other, or one that is dropped and repeated. Two trust slots allow the
same certificate twice and a full store. One damaged copy at a time, in a field that is
rejected by its length or by its fingerprint: the other fields take the same path.

`HostDirectory` uses two processes (one of which may be the daemon), two contacts, two
groups, one callsign, two migrations and three commands: two commands that overlap and
one before or after, both processes migrating, an import that collides with a
callsign. Processes, contacts and groups are symmetric: they are only compared for
equality, and no temporal property of the run needs liveness.

`HostTools`: two installations with two processes on one of them, two session ids and four
commands (generate, import, revoke, re-import); three stations, four processes, a
registry of four places (16 in the code) of which the builtin profiles take three, so two
adds meet at the limit, two messages, and plaintext lengths on both sides of each limit
(8144, 8145, 8192, 8193); three registry nodes with `MaxNodes = 3` (14 in the code), one
list longer than that, and two calls; thresholds and share counts up to three, four
shares given and three commands. The field has four elements, so that a list of four shares
is as long as 256 are in the code, where `len() as u8` wraps. `OfferConsumed` is the same instance.

Deadlock is checked for the token and contact-store runs: a terminated card or a closed
store still answers to a power cycle. The other runs bound the number of commands, key
pairs or enumerations, so they come to an end by themselves and do not check it.

Fairness. `FairSpec` of the token assumes weak fairness of `BootStep` and `CommandStep` only:
the service is the only runner of its own loop and handlers, which never block
between two RRAM writes. Nothing is assumed of the host or of power. `CcidCard` assumes
weak fairness of `Device`, for the same reason: the service process and the interrupt
handler run, the host may do nothing. `EphemeralSession` assumes weak fairness of
`Delivery`: the code has no retransmission, so that a response reaches the waiting
initiator is an assumption about the transport, and `SessionCompletes` is relative to it.
`HostDirectory` and `HostTools` assume none.

## 4. Proofs

The proofs of a component are in `<Component>Proofs`, which extends the component; the
command groups of `galdra` share `HostToolsProofs`. Every theorem is about all values of
the constants that the named assumptions allow. These say no more than the code does:
types of the constants, model values that are not also data, a region that has room for
its defaults (`SlotCount >= 5`, 32 in the code), command arguments that the parser lets
through, what an earlier version or another program left behind was well formed, and
`Gf256` is a field in which `a + a = 0`. Every invariant needs a stronger, inductive
one; each was checked with TLC before it was proved.

**OpenPgpTokenProofs** (`PinPolicyAssumption`, `TokenAssumption`):
- `Invariance`: `IInv` holds in every reachable state; `TypeCorrect`: so does `TypeOK`.
- `GuessBounded`: at most `MaxAttempts` wrong PINs are compared per PIN while a key is stored.
- `KeysStayRecoverable`: every blob is sealed under the salt of the master record.
- `RamAgreesWithVault`: the keys in use are the keys a reboot would load.
- `ServedTokenIsProvisioned`: commands are served only with both PINs set.
- `LockIsIrrevocable`: a counter past its limit stays so until no key is stored.
- `ImplementsRetryBudget`: the token implements `RetryBudget`.

`IInv` is the conjunction of `TypeOK` and
- `ControlInv`: a job exists exactly during a command, a wipe position exactly during a
  wipe, and a `Bricked` machine means a terminated card;
- `ChargeInv`: in `compare` and `refund` the counter of the PIN lies in `1..MaxAttempts`;
- `WipeInv`: a running wipe has erased the sealed keys it has passed, so a counter cell
  is only reached when no key is left;
- `GuessInv`: while a key is stored, wrong guesses plus the charge in flight are in the
  counter: this ties the history to the RRAM cell; without a key there are none;
- `KeyInv`: blobs are sealed under the salt in the master record, `mk` equals it once
  derived, and RAM keys are the ones it unseals;
- `ProvisionInv`: both digests are set by the time the backend is usable.

The refinement is proved step by step: `QuietStep` (nothing abstract changes), `BurnStep`
(an attempt is lost) and `RetryStep` (every step of `Next` is a step of `RetryBudget` or a
stutter).

**ContactStoreProofs** (`PinPolicyAssumption`, `ContactAssumption`):
- `StoreInvariance`: its `IInv` is an invariant of `ContactStore`;
- `UnlockIsBounded`: at most `MaxAttempts` attempts are judged and not given back;
- `LogStaysOrdered`: the timing log stays in counter order;
- `ProvisionedOnce`: provisioning is counted once, and no store opens without it;
- `LiveDataStaysIntact`: no allocation overwrites a string or key an active record points to;
- `StoreIndexInvariance`, `StoreTypeCorrect`;
- `LookupIsComplete`: on an open store the lookup finds a contact exactly when a record has it.

`UnlockBound` and `LogOrdered` depend on each other's actor: unlock may decrement the
counter that numbers the log. `AttemptInv` says that the attempts outstanding are in the
counter, `SequenceInv` that no entry is ahead of it and that a charge in flight is
strictly above every entry, so a refund cannot fall below one; `ProvisionInv` reads the
progress of `provision_fresh` off the register, the counter and the marker. For the
allocators, `LiveInv` keeps every offset of an active record below the bump pointer of an
open store, and what a running insert or update has allocated between the two;
`EndOfBound` shows that `scan_bumps` restores this at boot from the records alone.

`IndexInv` says that the index of an open store is good: sorted, no slot twice, one
entry for each active record (`GoodIndex`); and that a command under way will write the
kind of record its change of the index is for. `insert`, `remove`,
`rebuild_from_records` and `lookup_prefix` are recursive functions in the model. What
they compute is proved without an induction theorem that takes an operator: in
`Iteration`, `UpTo` is induction for a *set* of numbers (a least counterexample,
`Least`, because `<` is well founded), `Recursion` builds a function value by value,
which shows that a recursive definition has a solution. `Inserted`, `Removed` and
`RebuildGood` then follow entry by entry, and `SearchFinds` by the width of the
interval, once `SearchExists` has shown that the binary search ends.

**EphemeralSessionProofs** (`SessionAssumption`):
- `SessionInvariance`, `SessionTypeCorrect`;
- `PeerHasTheKeys`: an initiator that completes holds the keys its responder derived;
- `EphemeralUsedOnce`: no key pair enters two agreements;
- `ImplementsKeyAgreement`: the handshake implements `KeyAgreement`.

`NetInv` says that a response in the network, damaged or not, stands for a responder that
already holds the keys; `OwnerInv` that a key pair belongs to one initiator; `WaitingInv` that
a waiting session has not used its pair; `EndsInv` that a responder answered a message its
peer sent. Together they exclude that a replay completes a session with other keys.

**HostDirectoryProofs** (`HostAssumption`):
- `DirectoryInvariance`, `DirectoryTypeCorrect`;
- `DirectoryStaysClosed`, `PackageStaysClosed`: memberships, callsigns and packages are
  consistent although the code checks and writes in separate statements;
- `ChainHolds`: the audit chain is unbroken unless two appends overlapped;
- `AuditIsTruthful`: the log names no change more often than it was made;
- `MigratedBeforeUse`, and the action property `NothingResurrected`.

`ControlInv` says for every program point what the locals of a process still have to do with
the tables (`JobFits`); `MigrationInv` orders the versions seen; `ChainInv` gives the one
append under way the last row; `TallyInv` counts the rows written and the rows owed by
processes past their change against the changes made, which is what makes a kill between
change and audit row harmless.

**CcidCardProofs** (`ObjectsAssumption`, `CardAssumption`):
- `CardInvariance`; `CardTypeCorrect`, which gives every variable of the card, of the transport
  and of the history its set: frames, pending answers, chunks and stored values included;
- `ObjectsReadBack`: a stored object reads back as last written, whatever failed since;
- `StoredKeysReload`: a key whose attributes named its own algorithm when it was made or
  last loaded is what a reboot loads;
- `FlagsAreOfThisEnumeration`: no PIN flag of an earlier enumeration opens anything;
- `ChainsAreUnbroken`, `AnswersAreOwn`: chained answers have no gap, and an answer is taken
  for its own command only.

`RegionInv` says that the first slot with a tag holds its last value (`Kept`). On the wire,
`ClassInv` and `LoopInv` list what may be in the buffers of the class and of the service loop
relative to what the host waits for; `LiveInv` says that everything is of this enumeration
while no link change was missed, `DownInv` that a loop which saw the link go down keeps
nothing. `ShapeInv` is what types need on top of it: each slot holds a value that its tag can have
(`Holds`), so that what `LoadPrivateKeys` reads back is an algorithm.

**ShamirSharesProofs** (`GfAssumption`, `ShamirAssumption`):
- `AnySharesRecover`: `shamir_recover` inverts `shamir_split` for every secret, threshold and
  random polynomial, and any `k` different shares in any order;
- `ShamirInvariance`, and `SharesAlwaysRecover`: the command restores the key that was split,
  or nothing.

The algebra comes first. `AccumulateRuns` and `RunsAgree` show that the loops have
exactly one result, from which their laws follow. `DropLast` and `DropFirst` take a
point out of an interpolation whose values have the distance to it as a factor; with
both, `UnitSumStep` shows by induction over the points that the weights add up to 1.
`PowersStep` shows in the same way that the powers of the points below the number of
points give 0 at 0, so only the constant term of a polynomial is left (`Interpolation`).
`SortedShares`: shares with different indices can be sorted, and the sorted list has all
of them. `ShamirInv` then says of every text, also of one still to be written, that it
belongs to a split and lies on the polynomial which that split drew (`Shared`); `Parsed`
that a QR copy, which fills in a missing threshold, does not change such a text.

**HostToolsProofs** (assumptions of the four parts) is about the command groups each by itself
(`OffersSpec`, `MailSpec`, `RegistrySpec`) and about `ToolsSpec`, their composition:
- `ToolsImplementParts`: the composition implements each of the four specifications, so no
  command of one group disturbs another (`StepsOfParts`); `ToolsKeepPromises`: what was proved of
  a part holds of the whole; `HostToolsTypeCorrect`;
- `OffersAreAnswerable` (an offer file is backed by its row, with the private key unless revoked
  or consumed) and `RevocationIsFinal`, from `EpkInv`: a row is there before its audit
  entry and both before the file, at every program point (`TaskInv`);
- `ProfilesAlwaysLoad`, from `MailInv`: an add past its check finds the place it saw, unless
  its station is marked as overlapped (`JobOk`);
- `SealedMailOpens`, for every profile and number of layers, from `CryptInv`: a message holds
  what `seal_plaintext_with_profile` made of a plaintext, and outcomes, also the ones an
  answer of `galdrad` still waits with, are right. `Recursion` shows that the two recursive
  functions of the cascade exist, `Encrypts` and `Decrypts` unfold them. `NothingLeft`: the
  label of the outermost box names the number of layers, so a definition with another number
  fails at once and one with the same number takes off exactly what was put on. `Reopens`: the
  same definition takes the boxes off in turn;
- `PushUploadsOnce`, from `RegInv`: while a push runs, every node asked so far left it in doubt
  and no other node holds the upload;
- `OffersTypeCorrect`, `MailTypeCorrect` and `RegistryTypeCorrect`: parts of `HostToolsTypeOK`.

Attempts that failed changed the model:
- `KeysReload` was true of the bounded instance only: PUT DATA on the attributes reloads
  nothing, and a second change before the reboot made the stored form differ. `fit` now
  records which keys the promise is about.
- `missed` forgot a link that went down and up twice between two polls, which a third
  enumeration would have shown.
- `SharesRecover` promised the key for every list that starts with `k` different shares. The
  instance could not contradict it, since no list was as long as the field; the proof did:
  `shamir_recover_key` compares `shares.len() as u8` with the threshold, so a list of 256 shares
  or more may be refused. The property now says so (`"wrapped"`), and the instance reaches it.

Only model-checked: liveness (`BootCompletes`, `CommandAnswered`, `SessionCompletes`),
which needs fairness and `ENABLED`, out of the prover's reach. Every other property of a
passing run is stated by a theorem.

## 5. What the checks found

1. RESET RETRY COUNTER (`TokenResetRetry`). `backend.rs:88` promises the counter at its
   provisioned maximum; `reset_user_machine` (`vault_backend.rs:402`) opens a new handle on
   the same RRAM cell and writes nothing.
2. Consumed offer (`OfferConsumed`). `EPHEMERAL_KEY_EXCHANGE.md:89` says that the private key
   column is NULL after `mark_consumed`, `ephemeral_offers.rs:26` that it is zeroed after a
   derivation; the UPDATE at `ephemeral_offers.rs:173` sets `consumed` only. Line 97 of the same
   document lists zeroisation after consumption as a follow-up. No command calls
   `mark_consumed` yet, so a caller of the library is what the model lets act.
3. Timing log and integrity register (`ContactMirror`). The digest covers the timing log,
   but `timing_log_append` (`store.rs:328`) does not refresh the register: one append and a
   reboot, and `init_on_boot` reports `IntegrityMismatch`, unless a later insert, update or
   delete happened to refresh it.
4. Shared counter (`ContactBudget`). Appends increment the counter that limits unlock
   attempts and never give it back, against "three tries" in `machine.rs:21`. The error
   is on the safe side: `UnlockBound` is proved.
5. Deleted group (`HostGroupDelete`). `groups.rs:242` says "Delete a group and its
   memberships.", `groups.rs:63` "Create a new empty group"; the statement at
   `groups.rs:243` deletes the `group_metadata` row only, and a group created again under
   that name has the old members.

The models also contain behaviours that no document of the repository contradicts, so
that they have no run of their own; the properties are stated around them.

Token: boot looks at the PIN digests only (`main.rs:254`) and does not resume a wipe that was
interrupted before it erased them; `zeroise_fsm.rs` describes that integration as a logical model
still to be wired. `LockIrrevocable` and `GuessBound` hold across it.

Card and transport:
- GET RESPONSE after an unrelated command returns the rest of the older answer.
- `CcidClass` answers a message it cannot parse with sequence number 0: past its first command a
  driver never takes that answer for its own and waits until it gives up. `CommandAnswered`
  excepts it (`Unheard`). A second frame in the same packet is
  only looked at when more bytes arrive, and a frame that arrives while an answer is
  pending overwrites it; a driver that waits for its answer meets neither.
- The service loop polls the link before a blocking receive: a link that goes down and
  up in between is not seen, and the PIN session lives on (`missed`).
- IccPowerOn answered inline by the usb-bao1x server does not reset the session.
- The signature counter restarts from zero at every boot, and its first use overwrites
  the stored value. Changing the algorithm attributes of a slot that holds a key makes
  the key load in another form after a reboot. A DO with tag 0000 marks an empty slot.

Handshake: a certificate added twice to the trust store is found by no lookup until one
copy is removed.

Host:
- Two overlapping `audit_append` calls read the same predecessor and fork the chain;
  `audit_verify_chain` then reports `ChainBroken`. Fetching a key is audited even if the
  UPDATE found no row.
- Two profile adds that overlap at the registry limit leave a table that no command can
  load; so does a stored row of the removed P-512 curve, which then cannot be removed
  either. A user profile may be called `high-assurance`, and what it seals never opens.
- A two-layer profile refuses plaintexts of 8145 to 8192 bytes, since the second layer
  gets the first one's tag and gap too. A CESS message opened without K_outer comes out
  as wire bytes.
- Import of an offer accepts a signature by any key of the keyring.
- A push whose success body cannot be read reports a failure although the registry holds
  the upload. A fetch stops at the first node that answers 404.
- Shares of two splits are not told apart, and a share text without a threshold counts as
  k = 1. The coefficient vector holds 64 entries, so a larger threshold fails. A list of 256
  shares counts as empty.

## 6. Not modelled, and the plan

Not modelled:
- cryptographic primitives and byte encodings: arithmetic checked by test vectors;
- the provisioning line reader: a parser run once at boot, its result is `InitialPin`;
- the biometric crates and the vault's session and service types: traits and type states
  that no binary composes; `ZeroiseFsm` likewise is instantiated by no firmware path;
- `host-tools`, `galdra-gtk`, listings, `sign` and `verify`, read-only and stub handlers of
  `galdrad`, QR decoding, PC/SC access: they change no state of the system;
- SQLCipher keys and their passphrase handling;
- the reboot handshake of the service with the platform, a Dabao whose RRAM is not mapped
  (it serves the stub for ever), CCID frames longer than the announced maximum;
- vendored code, test harnesses, `xtask`, fuzz targets, the fake HALs, and the
  `dev-provisioning` and `trng-pin-fallback` builds.

Left for later: the hazards of `PROJECT.json` without a property each note what stands in the
way, most often a promise that no document of the repository makes.
