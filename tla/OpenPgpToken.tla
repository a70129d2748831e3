---------------------------- MODULE OpenPgpToken ----------------------------
(***************************************************************************)
(* The OpenPGP token over its RRAM window: the boot sequence of            *)
(* services/galdralag (bridge the PIN lines, derive the master key, open   *)
(* or provision the vault backend), the PIN-guarded commands of            *)
(* usb-personality (VERIFY, CHANGE REFERENCE DATA, RESET RETRY COUNTER,    *)
(* GENERATE, PSO:CDS), and the zeroisation of crates/baochip-openpgp.      *)
(*                                                                         *)
(* Every RRAM write is a step of its own.  It may fail (HalError::Bus),    *)
(* and power may be cut before or after it; each cell is written whole or  *)
(* not at all.  Reads of the mapped window do not fail.                    *)
(*                                                                         *)
(* A PIN stands for its verifier digest (SHA-256, taken as injective), a   *)
(* salt for the master key HKDF derives from it, and a sealed blob for the *)
(* pair of the key inside and the salt it was sealed under.                *)
(***************************************************************************)
EXTENDS PinPolicy, Sequences

CONSTANTS
    Pins, Keys, Salts,  \* PINs, private keys and master-key salts
    Blank,              \* content of an erased cell, of an unset field
    InitialPin,         \* the PDDB lines user_pin_line / admin_pin_line
    Refs,               \* password references the host uses (VERIFY P2)
    GenSlots,           \* key slots the host asks GENERATE for
    WriteOk             \* outcomes of an RRAM write: {TRUE} or BOOLEAN

Role    == {"User", "Admin"}
Purpose == {"Sign", "Other", "Admin"}       \* VERIFY P2 = 81, 82, 83
KeySlot == {"SIG", "DEC", "AUT"}

RoleOf(ref) == IF ref = "Admin" THEN "Admin" ELSE "User"

Blob == [key : Keys, salt : Salts]
Job  == [cmd : {"VERIFY", "CHANGE", "RESET"}, ref : Purpose, pin : Pins, new : Pins]

ASSUME TokenAssumption ==
    /\ Blank \notin Pins \cup Keys \cup Salts
    /\ Blank \notin Blob /\ Blank \notin Job
    /\ InitialPin \in [Role -> Pins]
    /\ Refs \subseteq Purpose
    /\ GenSlots \subseteq KeySlot
    /\ WriteOk \subseteq BOOLEAN

VARIABLES
    \* RRAM window, in ascending offset
    sealed,     \* sealed key blobs, one cell per slot
    doHeader,   \* the DO store has its OPGP header
    digest,     \* PIN verifier digests
    ctr,        \* attempt counters
    master,     \* OGMK master record: its salt
    slot,       \* PNU1 / PNA1 provision slots (plaintext PIN)
    \* RAM of the service
    pc,         \* where the boot sequence or the current command stands
    job,        \* the PIN command being executed
    wipeAt,     \* next cell the running zeroisation erases, 0 if none
    once,       \* PIN_ZEROISE OnceLock is set
    mk,         \* master key in use
    verifier,   \* PIN verifiers of the backend
    machine,    \* PinPolicyMachine::state
    terminated, \* backend.termination
    keyRam,     \* unsealed private keys
    session,    \* CardState: PIN verified for a purpose
    \* history
    guesses     \* wrong PINs compared while some key was stored

rram == <<sealed, doHeader, digest, ctr, master, slot>>
backend == <<verifier, machine, terminated, keyRam, session>>
vars == <<rram, pc, job, wipeAt, once, mk, backend, guesses>>

(* PinState.  "Armed" stands for BootCold, LockedIdle, Verifying and Unlocked,  *)
(* which no code tells apart: submit_attempt tests for Bricked only.            *)
PinState == {"Armed", "AttemptCharge", "Bricked"}

BootPc   == {"bridge", "bridgeAdmin", "master", "open", "newUser", "newAdmin",
             "seedNew", "clearUser", "clearAdmin", "seedOpen"}
CommandPc == {"compare", "refund", "persistUser", "persistAdmin", "wipe"}

None(S)    == [x \in S |-> Blank]
NoSession  == [p \in Purpose |-> FALSE]
NewMachine == [r \in Role |-> "Armed"]

HasKeys == \E s \in KeySlot : sealed[s] # Blank

(* unseal_from_storage_cell: the AEAD opens only under the key it was sealed with. *)
Unseal(blob, salt) ==
    IF blob # Blank /\ blob.salt = salt THEN blob.key ELSE Blank

LoadPrivateKeys(salt) == [s \in KeySlot |-> Unseal(sealed[s], salt)]

(* Only a token with neither digest counts as unprovisioned. *)
BothUnprovisioned == digest["User"] = Blank /\ digest["Admin"] = Blank

(* ccid_pin_hashes_unprovisioned: either verifier cell is still all zero. *)
Unprovisioned == digest["User"] = Blank \/ digest["Admin"] = Blank

(* provision_slots_have_valid_pins *)
SlotsValid == \A r \in Role : slot[r] # Blank

-----------------------------------------------------------------------------
Init ==
    /\ sealed = None(KeySlot)
    /\ doHeader = FALSE
    /\ digest = None(Role)
    /\ ctr = [r \in Role |-> 0]
    /\ master = Blank
    /\ slot = None(Role)
    /\ pc = "off"
    /\ job = Blank
    /\ wipeAt = 0
    /\ once = FALSE
    /\ mk = Blank
    /\ verifier = None(Role)
    /\ machine = NewMachine
    /\ terminated = FALSE
    /\ keyRam = None(KeySlot)
    /\ session = NoSession
    /\ guesses = [r \in Role |-> 0]

(***************************************************************************)
(* Power.  RRAM keeps its cells, everything else is lost.                  *)
(***************************************************************************)
DropBackend ==
    /\ verifier' = None(Role)
    /\ machine' = NewMachine
    /\ terminated' = FALSE
    /\ keyRam' = None(KeySlot)
    /\ session' = NoSession

PowerOn ==
    /\ pc = "off"
    /\ pc' = "bridge"
    /\ UNCHANGED <<rram, job, wipeAt, once, mk, backend, guesses>>

PowerLoss ==
    /\ pc # "off"
    /\ pc' = "off"
    /\ job' = Blank
    /\ wipeAt' = 0
    /\ once' = FALSE
    /\ mk' = Blank
    /\ DropBackend
    /\ UNCHANGED <<rram, guesses>>

(***************************************************************************)
(* Boot: one iteration of the service's vault loop.  Every error is logged *)
(* and the loop starts again at "bridge".                                  *)
(***************************************************************************)

(* write_provisioning_pins, the user record; skipped when both digests exist. *)
BridgeWith(unprovisioned, ok) ==
    /\ pc = "bridge"
    /\ IF unprovisioned
       THEN /\ slot' = IF ok THEN [slot EXCEPT !["User"] = InitialPin["User"]] ELSE slot
            /\ pc' = IF ok THEN "bridgeAdmin" ELSE "bridge"
       ELSE /\ pc' = "master"
            /\ UNCHANGED slot
    /\ UNCHANGED <<sealed, doHeader, digest, ctr, master, job, wipeAt, once, mk,
                   backend, guesses>>

(* A bridge that takes a half-provisioned token for a provisioned one. *)
BridgeIfBothBlank(ok) == BridgeWith(BothUnprovisioned, ok)

Bridge(ok) == BridgeWith(Unprovisioned, ok)

(* write_provisioning_pins, the admin record *)
BridgeAdmin(ok) ==
    /\ pc = "bridgeAdmin"
    /\ slot' = IF ok THEN [slot EXCEPT !["Admin"] = InitialPin["Admin"]] ELSE slot
    /\ pc' = IF ok THEN "master" ELSE "bridge"
    /\ UNCHANGED <<sealed, doHeader, digest, ctr, master, job, wipeAt, once, mk,
                   backend, guesses>>

(* load_or_derive_ccid_master_key: a salt is drawn only when the magic is missing. *)
MasterWith(fresh, salt, ok) ==
    /\ pc = "master"
    /\ IF fresh
       THEN /\ master' = IF ok THEN salt ELSE master
            /\ mk' = IF ok THEN salt ELSE mk
            /\ pc' = IF ok THEN "open" ELSE "bridge"
       ELSE /\ mk' = master
            /\ pc' = "open"
            /\ UNCHANGED master
    /\ UNCHANGED <<sealed, doHeader, digest, ctr, slot, job, wipeAt, once,
                   backend, guesses>>

(* A salt drawn afresh whenever the PINs are provisioned again. *)
MasterPerProvisioning(salt, ok) == MasterWith(master = Blank \/ SlotsValid, salt, ok)

Master(salt, ok) == MasterWith(master = Blank, salt, ok)

(* open_or_provision_backend up to its first write.  The OnceLock refuses a     *)
(* second call in one power cycle; Trng::new may fail after it has been set.    *)
Open(ok) ==
    /\ pc = "open"
    /\ once' = TRUE
    /\ pc' = IF once \/ ~ok \/ (Unprovisioned /\ ~SlotsValid) THEN "bridge"
             ELSE IF Unprovisioned THEN "newUser" ELSE "seedOpen"
    /\ UNCHANGED <<rram, job, wipeAt, mk, backend, guesses>>

(* OpenPgpVaultBackend::new: the user digest *)
NewUser(ok) ==
    /\ pc = "newUser"
    /\ digest' = IF ok THEN [digest EXCEPT !["User"] = InitialPin["User"]] ELSE digest
    /\ pc' = IF ok THEN "newAdmin" ELSE "bridge"
    /\ UNCHANGED <<sealed, doHeader, ctr, master, slot, job, wipeAt, once, mk,
                   backend, guesses>>

(* OpenPgpVaultBackend::new: the admin digest *)
NewAdmin(ok) ==
    /\ pc = "newAdmin"
    /\ digest' = IF ok THEN [digest EXCEPT !["Admin"] = InitialPin["Admin"]] ELSE digest
    /\ pc' = IF ok THEN "seedNew" ELSE "bridge"
    /\ UNCHANGED <<sealed, doHeader, ctr, master, slot, job, wipeAt, once, mk,
                   backend, guesses>>

(* seed_defaults_if_fresh.  The first DO written also writes the header, so a   *)
(* later failure leaves a header that suppresses seeding for good.              *)
Seed(ok) ==
    \/ ok /\ doHeader' = TRUE
    \/ ~ok /\ ~doHeader /\ doHeader' \in BOOLEAN

(* OpenPgpVaultBackend::new: seed the DO store, then load_private_keys *)
SeedNew(ok) ==
    /\ pc = "seedNew"
    /\ Seed(ok)
    /\ IF ok
       THEN /\ pc' = "clearUser"
            /\ verifier' = InitialPin
            /\ keyRam' = LoadPrivateKeys(mk)
       ELSE pc' = "bridge" /\ UNCHANGED <<verifier, keyRam>>
    /\ UNCHANGED <<sealed, digest, ctr, master, slot, job, wipeAt, once, mk,
                   machine, terminated, session, guesses>>

(* clear_ccid_pin_provision_slots: on failure the new backend is dropped. *)
ClearSlot(r, ok, next) ==
    /\ IF ok
       THEN /\ slot' = [slot EXCEPT ![r] = Blank]
            /\ pc' = next
            /\ UNCHANGED backend
       ELSE /\ pc' = "bridge"
            /\ DropBackend
            /\ UNCHANGED slot
    /\ UNCHANGED <<sealed, doHeader, digest, ctr, master, job, wipeAt, once, mk, guesses>>

ClearUser(ok) == pc = "clearUser" /\ ClearSlot("User", ok, "clearAdmin")

ClearAdmin(ok) == pc = "clearAdmin" /\ ClearSlot("Admin", ok, "idle")

(* OpenPgpVaultBackend::open: seed, load_pin_verifiers_from_storage, load_private_keys *)
SeedOpen(ok) ==
    /\ pc = "seedOpen"
    /\ Seed(ok)
    /\ IF ok
       THEN /\ pc' = "idle"
            /\ verifier' = digest
            /\ keyRam' = LoadPrivateKeys(mk)
       ELSE pc' = "bridge" /\ UNCHANGED <<verifier, keyRam>>
    /\ UNCHANGED <<sealed, digest, ctr, master, slot, job, wipeAt, once, mk,
                   machine, terminated, session, guesses>>

(***************************************************************************)
(* PIN commands.  "idle" is the CCID serve loop between two frames; the    *)
(* handlers below run to completion unless power is lost.                  *)
(***************************************************************************)

(* handle_apdu refuses every command of a terminated backend. *)
Serving == pc = "idle" /\ ~terminated

(* The machine of role r moves to state st. *)
SetMachine(r, st) == machine' = [machine EXCEPT ![r] = st]

Done == pc' = "idle" /\ job' = Blank

(* submit_attempt up to the verify closure: the charge reaches RRAM first; a    *)
(* count above the limit starts the zeroisation without comparing.              *)
Charge(j, ok) ==
    LET r     == RoleOf(j.ref)
        count == Increment(ctr[r])
    IN  /\ Serving
        /\ IF ok
           THEN /\ ctr' = [ctr EXCEPT ![r] = count]
                /\ SetMachine(r, "Armed")
                /\ job' = j
                /\ pc' = IF Breach(count) THEN "wipe" ELSE "compare"
                /\ wipeAt' = IF Breach(count) THEN 1 ELSE 0
           ELSE /\ SetMachine(r, "AttemptCharge")
                /\ UNCHANGED <<ctr, job, pc, wipeAt>>
        /\ UNCHANGED <<sealed, doHeader, digest, master, slot, once, mk,
                       verifier, terminated, keyRam, session, guesses>>

(* VERIFY: handle_verify, verify_user / verify_admin *)
Verify(ref, pin, ok) ==
    Charge([cmd |-> "VERIFY", ref |-> ref, pin |-> pin, new |-> pin], ok)

(* CHANGE REFERENCE DATA: handle_change_reference, change_pin *)
ChangeReference(ref, pin, new, ok) ==
    /\ ref # "Other"
    /\ Charge([cmd |-> "CHANGE", ref |-> ref, pin |-> pin, new |-> new], ok)

(* The verify closure: the constant-time compare with the verifier in RAM. *)
Compare ==
    LET r == RoleOf(job.ref)
    IN  /\ pc = "compare"
        /\ IF job.pin = verifier[r]
           THEN pc' = "refund" /\ UNCHANGED <<machine, job, guesses>>
           ELSE /\ SetMachine(r, "Armed")
                /\ guesses' = IF HasKeys THEN [guesses EXCEPT ![r] = @ + 1] ELSE guesses
                /\ Done
        /\ UNCHANGED <<rram, wipeAt, once, mk, verifier, terminated, keyRam, session>>

(* The refund (its error is ignored), then what the command does on success:   *)
(* VERIFY sets its session flag, CHANGE puts the new verifier in RAM.           *)
RefundCharge(ok) ==
    LET r == RoleOf(job.ref)
    IN  /\ pc = "refund"
        /\ ctr' = IF ok THEN [ctr EXCEPT ![r] = Refund(@)] ELSE ctr
        /\ SetMachine(r, "Armed")
        /\ \/ /\ job.cmd = "VERIFY"
              /\ session' = [session EXCEPT ![job.ref] = TRUE]
              /\ Done
              /\ UNCHANGED verifier
           \/ /\ job.cmd = "CHANGE"
              /\ verifier' = [verifier EXCEPT ![r] = job.new]
              /\ pc' = "persistUser"
              /\ UNCHANGED <<job, session>>
        /\ UNCHANGED <<sealed, doHeader, digest, master, slot, wipeAt, once, mk,
                       terminated, keyRam, guesses>>

(* RESET RETRY COUNTER: handle_reset_retry_counter, set_pw1_verifier_admin_only *)
ResetRetry(new) ==
    /\ Serving
    /\ session["Admin"]
    /\ verifier' = [verifier EXCEPT !["User"] = new]
    /\ job' = [cmd |-> "RESET", ref |-> "Sign", pin |-> new, new |-> new]
    /\ pc' = "persistUser"
    /\ UNCHANGED <<rram, wipeAt, once, mk, machine, terminated, keyRam, session, guesses>>

(* persist_pin_hashes writes both verifiers, whichever of them changed. *)
PersistUser(ok) ==
    /\ pc = "persistUser"
    /\ IF ok
       THEN /\ digest' = [digest EXCEPT !["User"] = verifier["User"]]
            /\ pc' = "persistAdmin"
            /\ UNCHANGED job
       ELSE Done /\ UNCHANGED digest
    /\ UNCHANGED <<sealed, doHeader, ctr, master, slot, wipeAt, once, mk, backend, guesses>>

(* The second write, then reset_user_machine / reset_admin_machine: a new      *)
(* machine, and a new handle on the same counter cell.                          *)
PersistAdminWith(ok, counters) ==
    /\ pc = "persistAdmin"
    /\ IF ok
       THEN /\ digest' = [digest EXCEPT !["Admin"] = verifier["Admin"]]
            /\ SetMachine(RoleOf(job.ref), "Armed")
            /\ ctr' = counters
       ELSE UNCHANGED <<digest, machine, ctr>>
    /\ Done
    /\ UNCHANGED <<sealed, doHeader, master, slot, wipeAt, once, mk,
                   verifier, terminated, keyRam, session, guesses>>

(* A reset that also clears the counter cell of the role it unlocks. *)
PersistAdminClearing(ok) ==
    PersistAdminWith(ok, [ctr EXCEPT ![RoleOf(job.ref)] = 0])

PersistAdmin(ok) == PersistAdminWith(ok, ctr)

(***************************************************************************)
(* Zeroisation: zero_rram_window overwrites the window in 256-byte chunks, *)
(* lowest offset first, and gives up at the first write that fails; the    *)
(* trigger ignores the error.                                              *)
(***************************************************************************)
DigestCell == [r \in Role |-> IF r = "User" THEN "PW1" ELSE "PW3"]
CtrCell    == [r \in Role |-> IF r = "User" THEN "CTR1" ELSE "CTR3"]
SlotCell   == [r \in Role |-> IF r = "User" THEN "PNU1" ELSE "PNA1"]

(* A window laid out, or wiped, with the PIN state below the keys. *)
WipeOrderPinsFirst == <<"LOW", "PW1", "PW3", "CTR1", "CTR3", "SIG", "DEC", "AUT",
                        "OPGP", "OGMK", "PNU1", "PNA1">>

(* The cells by ascending offset; "LOW" is the 65,792 bytes below the keys. *)
WipeOrder == <<"LOW", "SIG", "DEC", "AUT", "OPGP", "PW1", "PW3", "CTR1", "CTR3",
               "OGMK", "PNU1", "PNA1">>

WipeLen == 12

WipeStep(ok) ==
    LET c    == WipeOrder[wipeAt]
        last == ~ok \/ wipeAt = WipeLen
    IN  /\ pc = "wipe"
        /\ IF ok
           THEN /\ sealed' = [s \in KeySlot |-> IF s = c THEN Blank ELSE sealed[s]]
                /\ doHeader' = (doHeader /\ c # "OPGP")
                /\ digest' = [r \in Role |-> IF DigestCell[r] = c THEN Blank ELSE digest[r]]
                /\ ctr' = [r \in Role |-> IF CtrCell[r] = c THEN 0 ELSE ctr[r]]
                /\ master' = IF c = "OGMK" THEN Blank ELSE master
                /\ slot' = [r \in Role |-> IF SlotCell[r] = c THEN Blank ELSE slot[r]]
                /\ guesses' = IF \E s \in KeySlot : sealed'[s] # Blank
                              THEN guesses ELSE [r \in Role |-> 0]
           ELSE UNCHANGED <<rram, guesses>>
        /\ IF last
           THEN /\ wipeAt' = 0
                /\ SetMachine(RoleOf(job.ref), "Bricked")
                /\ terminated' = TRUE
                /\ Done
           ELSE wipeAt' = wipeAt + 1 /\ UNCHANGED <<machine, terminated, pc, job>>
        /\ UNCHANGED <<once, mk, verifier, keyRam, session>>

(***************************************************************************)
(* Key commands and the end of a session.                                  *)
(***************************************************************************)

(* GENERATE with the key put in RAM before it is persisted. *)
GenerateRamFirst(s, k, ok) ==
    /\ Serving
    /\ session["Admin"]
    /\ sealed' = IF ok THEN [sealed EXCEPT ![s] = [key |-> k, salt |-> mk]] ELSE sealed
    /\ keyRam' = [keyRam EXCEPT ![s] = k]
    /\ UNCHANGED <<doHeader, digest, ctr, master, slot, pc, job, wipeAt, once, mk,
                   verifier, machine, terminated, session, guesses>>

(* GENERATE ASYMMETRIC KEY PAIR (P1 = 80): persist_private_key, then RAM. *)
Generate(s, k, ok) ==
    /\ Serving
    /\ session["Admin"]
    /\ ok
    /\ sealed' = [sealed EXCEPT ![s] = [key |-> k, salt |-> mk]]
    /\ keyRam' = [keyRam EXCEPT ![s] = k]
    /\ UNCHANGED <<doHeader, digest, ctr, master, slot, pc, job, wipeAt, once, mk,
                   verifier, machine, terminated, session, guesses>>

(* PSO:CDS consumes the PW1 flag once the signature counter DO is written; when *)
(* that write fails no signature is returned and the flag stays.                *)
Sign(ok) ==
    /\ Serving
    /\ session["Sign"]
    /\ keyRam["SIG"] # Blank
    /\ ok
    /\ session' = [session EXCEPT !["Sign"] = FALSE]
    /\ UNCHANGED <<rram, pc, job, wipeAt, once, mk, verifier, machine, terminated,
                   keyRam, guesses>>

(* CardState::reset: IccPowerOff, Abort, USB link down, CCID transport error. *)
SessionReset ==
    /\ pc = "idle"
    /\ session' = NoSession
    /\ UNCHANGED <<rram, pc, job, wipeAt, once, mk, verifier, machine, terminated,
                   keyRam, guesses>>

-----------------------------------------------------------------------------
BootStep ==
    \E ok \in WriteOk :
        \/ Bridge(ok) \/ BridgeAdmin(ok)
        \/ \E salt \in Salts : Master(salt, ok)
        \/ Open(ok) \/ NewUser(ok) \/ NewAdmin(ok) \/ SeedNew(ok)
        \/ ClearUser(ok) \/ ClearAdmin(ok) \/ SeedOpen(ok)

CommandStep ==
    \/ Compare
    \/ \E ok \in WriteOk :
        RefundCharge(ok) \/ PersistUser(ok) \/ PersistAdmin(ok) \/ WipeStep(ok)

HostCommand ==
    \/ \E ok \in WriteOk, pin \in Pins :
        \/ \E ref \in Refs : Verify(ref, pin, ok)
        \/ \E ref \in Refs, new \in Pins : ChangeReference(ref, pin, new, ok)
    \/ \E new \in Pins : ResetRetry(new)
    \/ \E s \in GenSlots, k \in Keys, ok \in WriteOk : Generate(s, k, ok)
    \/ \E ok \in WriteOk : Sign(ok)
    \/ SessionReset

Next == PowerOn \/ PowerLoss \/ BootStep \/ CommandStep \/ HostCommand

Spec == Init /\ [][Next]_vars

(* The service's thread keeps running while it has power. *)
FairSpec == Spec /\ WF_vars(BootStep) /\ WF_vars(CommandStep)

-----------------------------------------------------------------------------
VaultTypeOK ==
    /\ sealed \in [KeySlot -> Blob \cup {Blank}]
    /\ doHeader \in BOOLEAN
    /\ digest \in [Role -> Pins \cup {Blank}]
    /\ ctr \in [Role -> 0..CounterMax]
    /\ master \in Salts \cup {Blank}
    /\ slot \in [Role -> Pins \cup {Blank}]

ControlTypeOK ==
    /\ pc \in {"off", "idle"} \cup BootPc \cup CommandPc
    /\ job \in Job \cup {Blank}
    /\ wipeAt \in 0..WipeLen
    /\ once \in BOOLEAN
    /\ mk \in Salts \cup {Blank}

BackendTypeOK ==
    /\ verifier \in [Role -> Pins \cup {Blank}]
    /\ machine \in [Role -> PinState]
    /\ terminated \in BOOLEAN
    /\ keyRam \in [KeySlot -> Keys \cup {Blank}]
    /\ session \in [Purpose -> BOOLEAN]

(* Every variable stays in its domain; in particular the counter cells never   *)
(* leave the range of the integer that RramMonotonicCounter stores.            *)
TypeOK ==
    /\ VaultTypeOK
    /\ ControlTypeOK
    /\ BackendTypeOK
    /\ guesses \in [Role -> Nat]

(* submit_attempt with zeroisation (README "a crash or power loss mid-attempt  *)
(* cannot be exploited to reset the counter"): over the whole life of a stored *)
(* key, across power cuts, failed writes, PIN changes and interrupted wipes,   *)
(* at most max_attempts wrong PINs are ever compared for each PIN.             *)
GuessBound == HasKeys => \A r \in Role : guesses[r] <= MaxAttempts

(* A PIN whose counter has passed the limit never becomes usable again while a *)
(* key is stored: the counter cell comes back under the limit only together    *)
(* with, or after, the erasure of every sealed key (zero_rram_window's order). *)
LockIrrevocable ==
    [][\A r \in Role :
        (HasKeys /\ Breach(ctr[r])) => (Breach(ctr'[r]) \/ ~HasKeys')]_vars

(* load_or_derive_ccid_master_key against persist_private_key and the wipe: a  *)
(* sealed key is always sealed under the salt now in the OGMK record, so no    *)
(* boot, retry or interrupted wipe makes a stored key impossible to unseal.    *)
KeysRecoverable ==
    \A s \in KeySlot : sealed[s] # Blank => sealed[s].salt = master

(* generate_or_read_key and load_private_keys: while commands are served, the  *)
(* keys in RAM are exactly the keys a reboot would load from the vault.        *)
RamMatchesVault == Serving => keyRam = LoadPrivateKeys(master)

(* open_or_provision_backend: commands are served only with both PINs set, in  *)
(* RRAM and in RAM, whatever provisioning was interrupted by power cuts.       *)
ServesProvisioned ==
    Serving => \A r \in Role : digest[r] # Blank /\ verifier[r] # Blank

(* A charge in flight, not yet either refunded or judged wrong. *)
Pending(r) ==
    IF pc \in {"compare", "refund"} /\ RoleOf(job.ref) = r THEN 1 ELSE 0

(* The attempts spent: a charge in flight is not counted yet. *)
Spent == [r \in Role |-> ctr[r] - Pending(r)]

Retry == INSTANCE RetryBudget WITH
    Roles <- Role, Budget <- MaxAttempts, keyed <- HasKeys, spent <- Spent

(* Charge, compare, refund and wipe, interrupted anywhere, implement the       *)
(* atomic retry budget.                                                        *)
RefinesRetryBudget == Retry!Spec

(* main.rs vault loop: as long as no RRAM write fails, a booting token reaches *)
(* the CCID serve loop unless power is cut again, from every RRAM content that *)
(* earlier power cuts left behind.                                             *)
BootCompletes == (pc = "bridge") ~> (pc \in {"idle", "off"})

(* Doc claim (backend.rs: "Reset PW1 retry counter to its provisioned          *)
(* maximum"): a successful RESET RETRY COUNTER leaves no PW1 attempt charged.   *)
ResetRestoresAttempts ==
    [][(PersistAdmin(TRUE) /\ job.cmd = "RESET") => ctr'["User"] = 0]_vars

=============================================================================
