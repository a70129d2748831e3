------------------------- MODULE OpenPgpTokenProofs -------------------------
(***************************************************************************)
(* Proofs about OpenPgpToken, for every number of attempts, every counter  *)
(* width and every set of PINs, keys and salts.                            *)
(***************************************************************************)
EXTENDS OpenPgpToken, TLAPS

(* The backend exists and can be used by the command in progress or the next. *)
Live ==
    \/ Serving
    \/ pc \in {"clearUser", "clearAdmin", "compare", "refund", "persistUser",
               "persistAdmin"}

(* The boot sequence is past load_or_derive_ccid_master_key. *)
Derived == pc \in {"open", "newUser", "newAdmin", "seedNew", "seedOpen"}

(* Control: which registers are in use at which point of the program. *)
ControlInv ==
    /\ pc = "wipe" <=> wipeAt # 0
    /\ pc \in CommandPc <=> job # Blank
    /\ pc # "idle" => ~terminated
    /\ \A r \in Role : machine[r] = "Bricked" => terminated

(* A charge in flight is within the limit, and belongs to VERIFY or CHANGE. *)
ChargeInv ==
    pc \in {"compare", "refund"} =>
        /\ ctr[RoleOf(job.ref)] \in 1..MaxAttempts
        /\ job.cmd # "RESET"

(* A running wipe has erased every sealed key it has already passed. *)
WipeInv ==
    /\ wipeAt > 2 => sealed["SIG"] = Blank
    /\ wipeAt > 3 => sealed["DEC"] = Blank
    /\ wipeAt > 4 => sealed["AUT"] = Blank

(* Every wrong guess, and the charge in flight, is accounted for in RRAM. *)
GuessInv ==
    \A r \in Role :
        /\ HasKeys => /\ guesses[r] + Pending(r) <= ctr[r]
                      /\ guesses[r] <= MaxAttempts
        /\ ~HasKeys => guesses[r] = 0

(* The master key in use is the one of the record, and opens every blob. *)
KeyInv ==
    /\ KeysRecoverable
    /\ (Derived \/ Live) => master # Blank /\ mk = master
    /\ Live => keyRam = LoadPrivateKeys(master)

(* Both PINs are set by the time the backend is usable. *)
ProvisionInv ==
    /\ (Live \/ pc \in {"seedNew", "seedOpen"}) => \A r \in Role : digest[r] # Blank
    /\ pc = "newAdmin" => digest["User"] # Blank
    /\ Live => \A r \in Role : verifier[r] # Blank

IInv == TypeOK /\ ControlInv /\ ChargeInv /\ WipeInv /\ GuessInv /\ KeyInv /\ ProvisionInv

(* The values a cold backend starts from are well typed. *)
LEMMA ColdTypes ==
    /\ None(Role) \in [Role -> Pins \cup {Blank}]
    /\ None(KeySlot) \in [KeySlot -> Keys \cup {Blank}]
    /\ None(KeySlot) \in [KeySlot -> Blob \cup {Blank}]
    /\ NewMachine \in [Role -> PinState]
    /\ NoSession \in [Purpose -> BOOLEAN]
BY DEF None, NewMachine, NoSession, PinState

(* load_private_keys yields a key or nothing for each slot. *)
LEMMA LoadType ==
    ASSUME TypeOK, NEW salt
    PROVE  LoadPrivateKeys(salt) \in [KeySlot -> Keys \cup {Blank}]
BY DEF LoadPrivateKeys, Unseal, TypeOK, VaultTypeOK, Blob

(* A command in progress works on a well-formed job. *)
LEMMA JobType ==
    ASSUME IInv, pc \in CommandPc
    PROVE  job \in Job /\ RoleOf(job.ref) \in Role
BY DEF IInv, TypeOK, ControlTypeOK, ControlInv, Job, RoleOf, Role, Purpose

(* The initial state, an unprovisioned token without power, satisfies IInv. *)
LEMMA InitIInv == Init => IInv
<1>. SUFFICES ASSUME Init PROVE IInv
  OBVIOUS
<1>. USE PinPolicyAssumption, TokenAssumption
<1>1. /\ ctr \in [Role -> 0..CounterMax]
      /\ guesses \in [Role -> Nat]
      /\ wipeAt \in 0..WipeLen
  BY DEF Init, WipeLen
<1>2. VaultTypeOK
  BY <1>1, ColdTypes, Zenon DEF Init, VaultTypeOK
<1>3. ControlTypeOK
  BY <1>1, Zenon DEF Init, ControlTypeOK
<1>4. BackendTypeOK
  BY ColdTypes, Zenon DEF Init, BackendTypeOK
<1>5. ControlInv /\ ChargeInv /\ WipeInv /\ ProvisionInv
  BY DEF Init, ControlInv, ChargeInv, WipeInv, ProvisionInv, Live, Serving, NewMachine,
         CommandPc, Role
<1>6. GuessInv /\ KeyInv
  BY DEF Init, GuessInv, KeyInv, KeysRecoverable, HasKeys, Live, Derived, Serving, None,
         KeySlot, Role
<1>. QED BY <1>1, <1>2, <1>3, <1>4, <1>5, <1>6 DEF IInv, TypeOK

(* Power coming and going preserves IInv: RRAM alone carries the invariant. *)
LEMMA PowerIInv == ASSUME IInv, PowerOn \/ PowerLoss PROVE IInv'
<1>. USE PinPolicyAssumption, TokenAssumption
<1>1. ASSUME PowerOn PROVE IInv'
  <2>1. VaultTypeOK' /\ guesses' \in [Role -> Nat]
    BY <1>1 DEF IInv, PowerOn, rram, backend, VaultTypeOK, TypeOK
  <2>2. ControlTypeOK'
    BY <1>1 DEF IInv, PowerOn, rram, backend, TypeOK, ControlTypeOK, BootPc,
      CommandPc
  <2>3. BackendTypeOK'
    BY <1>1 DEF IInv, PowerOn, rram, backend, TypeOK, BackendTypeOK
  <2>4. ControlInv' /\ ChargeInv' /\ WipeInv'
    BY <1>1 DEF IInv, PowerOn, rram, backend, ControlInv, ChargeInv, WipeInv,
      TypeOK, ControlTypeOK, BackendTypeOK, VaultTypeOK, CommandPc, Role, ControlInv
  <2>5. GuessInv'
    BY <1>1 DEF IInv, PowerOn, rram, backend, GuessInv, Pending, HasKeys
  <2>6. KeyInv'
    BY <1>1 DEF IInv, PowerOn, rram, backend, KeyInv, KeysRecoverable,
      LoadPrivateKeys, Unseal, Live, Derived, Serving
  <2>7. ProvisionInv'
    BY <1>1 DEF IInv, PowerOn, rram, backend, ProvisionInv, Live, Serving
  <2>. QED BY <2>1, <2>2, <2>3, <2>4, <2>5, <2>6, <2>7 DEF IInv, TypeOK
<1>2. ASSUME PowerLoss PROVE IInv'
  <2>1. VaultTypeOK' /\ guesses' \in [Role -> Nat]
    BY <1>2 DEF IInv, PowerLoss, DropBackend, rram, backend, VaultTypeOK, TypeOK
  <2>2. ControlTypeOK'
    <3>1. wipeAt' \in 0..WipeLen
      BY <1>2 DEF PowerLoss, WipeLen
    <3>. QED BY <1>2, <3>1, Zenon DEF PowerLoss, ControlTypeOK
  <2>3. BackendTypeOK'
    BY <1>2, ColdTypes DEF IInv, PowerLoss, DropBackend, rram, backend, TypeOK,
      BackendTypeOK
  <2>4. ControlInv' /\ ChargeInv' /\ WipeInv'
    BY <1>2 DEF IInv, PowerLoss, DropBackend, NewMachine, NoSession, None, rram,
      backend, ControlInv, ChargeInv, WipeInv, TypeOK, ControlTypeOK,
      BackendTypeOK, VaultTypeOK, CommandPc, Role
  <2>5. GuessInv'
    BY <1>2 DEF IInv, PowerLoss, DropBackend, NewMachine, NoSession, None, rram,
      backend, GuessInv, Pending, HasKeys, TypeOK, VaultTypeOK, ControlTypeOK,
      BackendTypeOK, ChargeInv
  <2>6. KeyInv'
    BY <1>2 DEF IInv, PowerLoss, DropBackend, NewMachine, NoSession, None, rram,
      backend, KeyInv, KeysRecoverable, LoadPrivateKeys, Unseal, Live, Derived,
      Serving
  <2>7. ProvisionInv'
    BY <1>2 DEF IInv, PowerLoss, DropBackend, NewMachine, NoSession, None, rram,
      backend, ProvisionInv, Live, Serving
  <2>. QED BY <2>1, <2>2, <2>3, <2>4, <2>5, <2>6, <2>7 DEF IInv, TypeOK
<1>. QED BY <1>1, <1>2

(* No step of the boot sequence, successful or failed, breaks IInv. *)
LEMMA BootIInv == ASSUME IInv, BootStep PROVE IInv'
<1>. USE PinPolicyAssumption, TokenAssumption
<1>1. ASSUME NEW ok \in WriteOk, Bridge(ok) PROVE IInv'
  <2>1. VaultTypeOK' /\ guesses' \in [Role -> Nat]
    BY <1>1 DEF IInv, Bridge, BridgeWith, rram, backend, VaultTypeOK, TypeOK
  <2>2. ControlTypeOK'
    BY <1>1 DEF IInv, Bridge, BridgeWith, rram, backend, TypeOK, ControlTypeOK,
      BootPc, CommandPc
  <2>3. BackendTypeOK'
    BY <1>1 DEF IInv, Bridge, BridgeWith, rram, backend, TypeOK, BackendTypeOK
  <2>4. ControlInv' /\ ChargeInv' /\ WipeInv'
    BY <1>1 DEF IInv, Bridge, BridgeWith, rram, backend, ControlInv, ChargeInv,
      WipeInv, TypeOK, ControlTypeOK, BackendTypeOK, VaultTypeOK, CommandPc, Role
  <2>5. GuessInv'
    BY <1>1 DEF IInv, Bridge, BridgeWith, rram, backend, GuessInv, Pending, HasKeys
  <2>6. KeyInv'
    BY <1>1 DEF IInv, Bridge, BridgeWith, rram, backend, KeyInv, KeysRecoverable,
      LoadPrivateKeys, Unseal, Live, Derived, Serving
  <2>7. ProvisionInv'
    BY <1>1 DEF IInv, Bridge, BridgeWith, rram, backend, ProvisionInv, Live, Serving
  <2>. QED BY <2>1, <2>2, <2>3, <2>4, <2>5, <2>6, <2>7 DEF IInv, TypeOK
<1>2. ASSUME NEW ok \in WriteOk, BridgeAdmin(ok) PROVE IInv'
  <2>1. VaultTypeOK' /\ guesses' \in [Role -> Nat]
    BY <1>2 DEF IInv, BridgeAdmin, rram, backend, VaultTypeOK, TypeOK
  <2>2. ControlTypeOK'
    BY <1>2 DEF IInv, BridgeAdmin, rram, backend, TypeOK, ControlTypeOK, BootPc,
      CommandPc
  <2>3. BackendTypeOK'
    BY <1>2 DEF IInv, BridgeAdmin, rram, backend, TypeOK, BackendTypeOK
  <2>4. ControlInv' /\ ChargeInv' /\ WipeInv'
    BY <1>2 DEF IInv, BridgeAdmin, rram, backend, ControlInv, ChargeInv, WipeInv,
      TypeOK, ControlTypeOK, BackendTypeOK, VaultTypeOK, CommandPc, Role
  <2>5. GuessInv'
    BY <1>2 DEF IInv, BridgeAdmin, rram, backend, GuessInv, Pending, HasKeys
  <2>6. KeyInv'
    BY <1>2 DEF IInv, BridgeAdmin, rram, backend, KeyInv, KeysRecoverable,
      LoadPrivateKeys, Unseal, Live, Derived, Serving
  <2>7. ProvisionInv'
    BY <1>2 DEF IInv, BridgeAdmin, rram, backend, ProvisionInv, Live, Serving
  <2>. QED BY <2>1, <2>2, <2>3, <2>4, <2>5, <2>6, <2>7 DEF IInv, TypeOK
<1>3. ASSUME NEW ok \in WriteOk, NEW salt \in Salts, Master(salt, ok) PROVE IInv'
  <2>1. VaultTypeOK' /\ guesses' \in [Role -> Nat]
    BY <1>3 DEF IInv, Master, MasterWith, rram, backend, VaultTypeOK, TypeOK
  <2>2. ControlTypeOK'
    BY <1>3 DEF IInv, Master, MasterWith, rram, backend, TypeOK, ControlTypeOK,
      BootPc, CommandPc, VaultTypeOK
  <2>3. BackendTypeOK'
    BY <1>3 DEF IInv, Master, MasterWith, rram, backend, TypeOK, BackendTypeOK
  <2>4. ControlInv' /\ ChargeInv' /\ WipeInv'
    BY <1>3 DEF IInv, Master, MasterWith, rram, backend, ControlInv, ChargeInv,
      WipeInv, TypeOK, ControlTypeOK, BackendTypeOK, VaultTypeOK, CommandPc, Role
  <2>5. GuessInv'
    BY <1>3 DEF IInv, Master, MasterWith, rram, backend, GuessInv, Pending, HasKeys
  <2>6. KeyInv'
    BY <1>3 DEF IInv, Master, MasterWith, rram, backend, KeyInv, KeysRecoverable,
      LoadPrivateKeys, Unseal, Live, Derived, Serving, TypeOK, VaultTypeOK,
      ControlTypeOK, BackendTypeOK, KeySlot, Blob
  <2>7. ProvisionInv'
    BY <1>3 DEF IInv, Master, MasterWith, rram, backend, ProvisionInv, Live, Serving
  <2>. QED BY <2>1, <2>2, <2>3, <2>4, <2>5, <2>6, <2>7 DEF IInv, TypeOK
<1>4. ASSUME NEW ok \in WriteOk, Open(ok) PROVE IInv'
  <2>1. VaultTypeOK' /\ guesses' \in [Role -> Nat]
    BY <1>4 DEF IInv, Open, rram, backend, Role, VaultTypeOK, TypeOK
  <2>2. ControlTypeOK'
    BY <1>4 DEF IInv, Open, rram, backend, TypeOK, ControlTypeOK, BootPc, CommandPc
  <2>3. BackendTypeOK'
    BY <1>4 DEF IInv, Open, rram, backend, TypeOK, BackendTypeOK
  <2>4. ControlInv' /\ ChargeInv' /\ WipeInv'
    BY <1>4 DEF IInv, Open, rram, backend, ControlInv, ChargeInv, WipeInv, TypeOK,
      ControlTypeOK, BackendTypeOK, VaultTypeOK, CommandPc, Role
  <2>5. GuessInv'
    BY <1>4 DEF IInv, Open, rram, backend, GuessInv, Pending, HasKeys
  <2>6. KeyInv'
    BY <1>4 DEF IInv, Open, rram, backend, KeyInv, KeysRecoverable,
      LoadPrivateKeys, Unseal, Live, Derived, Serving
  <2>7. ProvisionInv'
    BY <1>4 DEF IInv, Open, rram, backend, ProvisionInv, Live, Serving,
      Unprovisioned, Role
  <2>. QED BY <2>1, <2>2, <2>3, <2>4, <2>5, <2>6, <2>7 DEF IInv, TypeOK
<1>5. ASSUME NEW ok \in WriteOk, NewUser(ok) PROVE IInv'
  <2>1. VaultTypeOK' /\ guesses' \in [Role -> Nat]
    BY <1>5 DEF IInv, NewUser, rram, backend, VaultTypeOK, TypeOK
  <2>2. ControlTypeOK'
    BY <1>5 DEF IInv, NewUser, rram, backend, TypeOK, ControlTypeOK, BootPc,
      CommandPc
  <2>3. BackendTypeOK'
    BY <1>5 DEF IInv, NewUser, rram, backend, TypeOK, BackendTypeOK
  <2>4. ControlInv' /\ ChargeInv' /\ WipeInv'
    BY <1>5 DEF IInv, NewUser, rram, backend, ControlInv, ChargeInv, WipeInv,
      TypeOK, ControlTypeOK, BackendTypeOK, VaultTypeOK, CommandPc, Role
  <2>5. GuessInv'
    BY <1>5 DEF IInv, NewUser, rram, backend, GuessInv, Pending, HasKeys
  <2>6. KeyInv'
    BY <1>5 DEF IInv, NewUser, rram, backend, KeyInv, KeysRecoverable,
      LoadPrivateKeys, Unseal, Live, Derived, Serving
  <2>7. ProvisionInv'
    BY <1>5 DEF IInv, NewUser, rram, backend, ProvisionInv, Live, Serving, TypeOK,
      VaultTypeOK, ControlTypeOK, BackendTypeOK, Role
  <2>. QED BY <2>1, <2>2, <2>3, <2>4, <2>5, <2>6, <2>7 DEF IInv, TypeOK
<1>6. ASSUME NEW ok \in WriteOk, NewAdmin(ok) PROVE IInv'
  <2>1. VaultTypeOK' /\ guesses' \in [Role -> Nat]
    BY <1>6 DEF IInv, NewAdmin, rram, backend, VaultTypeOK, TypeOK
  <2>2. ControlTypeOK'
    BY <1>6 DEF IInv, NewAdmin, rram, backend, TypeOK, ControlTypeOK, BootPc,
      CommandPc
  <2>3. BackendTypeOK'
    BY <1>6 DEF IInv, NewAdmin, rram, backend, TypeOK, BackendTypeOK
  <2>4. ControlInv' /\ ChargeInv' /\ WipeInv'
    BY <1>6 DEF IInv, NewAdmin, rram, backend, ControlInv, ChargeInv, WipeInv,
      TypeOK, ControlTypeOK, BackendTypeOK, VaultTypeOK, CommandPc, Role
  <2>5. GuessInv'
    BY <1>6 DEF IInv, NewAdmin, rram, backend, GuessInv, Pending, HasKeys
  <2>6. KeyInv'
    BY <1>6 DEF IInv, NewAdmin, rram, backend, KeyInv, KeysRecoverable,
      LoadPrivateKeys, Unseal, Live, Derived, Serving
  <2>7. ProvisionInv'
    BY <1>6 DEF IInv, NewAdmin, rram, backend, ProvisionInv, Live, Serving, TypeOK,
      VaultTypeOK, ControlTypeOK, BackendTypeOK, Role
  <2>. QED BY <2>1, <2>2, <2>3, <2>4, <2>5, <2>6, <2>7 DEF IInv, TypeOK
<1>7. ASSUME NEW ok \in WriteOk, SeedNew(ok) PROVE IInv'
  <2>1. VaultTypeOK' /\ guesses' \in [Role -> Nat]
    BY <1>7 DEF IInv, SeedNew, Seed, rram, backend, VaultTypeOK, TypeOK
  <2>2. ControlTypeOK'
    BY <1>7 DEF IInv, SeedNew, Seed, rram, backend, TypeOK, ControlTypeOK, BootPc,
      CommandPc
  <2>3. BackendTypeOK'
    BY <1>7, LoadType DEF IInv, SeedNew, Seed, rram, backend, TypeOK,
      BackendTypeOK, VaultTypeOK, ControlTypeOK
  <2>4. ControlInv' /\ ChargeInv' /\ WipeInv'
    BY <1>7 DEF IInv, SeedNew, Seed, rram, backend, ControlInv, ChargeInv, WipeInv,
      TypeOK, ControlTypeOK, BackendTypeOK, VaultTypeOK, CommandPc, Role
  <2>5. GuessInv'
    BY <1>7 DEF IInv, SeedNew, Seed, rram, backend, GuessInv, Pending, HasKeys
  <2>6. KeyInv'
    BY <1>7 DEF IInv, SeedNew, Seed, rram, backend, KeyInv, KeysRecoverable,
      LoadPrivateKeys, Unseal, Live, Derived, Serving
  <2>7. ProvisionInv'
    BY <1>7 DEF IInv, SeedNew, Seed, rram, backend, ProvisionInv, Live, Serving
  <2>. QED BY <2>1, <2>2, <2>3, <2>4, <2>5, <2>6, <2>7 DEF IInv, TypeOK
<1>8. ASSUME NEW ok \in WriteOk, ClearUser(ok) PROVE IInv'
  <2>1. VaultTypeOK' /\ guesses' \in [Role -> Nat]
    BY <1>8 DEF IInv, ClearUser, ClearSlot, DropBackend, rram, backend, Role,
      VaultTypeOK, TypeOK
  <2>2. ControlTypeOK'
    BY <1>8 DEF IInv, ClearUser, ClearSlot, DropBackend, rram, backend, TypeOK,
      ControlTypeOK, BootPc, CommandPc
  <2>3. BackendTypeOK'
    BY <1>8, ColdTypes DEF IInv, ClearUser, ClearSlot, DropBackend, rram, backend,
      TypeOK, BackendTypeOK
  <2>4. ControlInv' /\ ChargeInv' /\ WipeInv'
    BY <1>8 DEF IInv, ClearUser, ClearSlot, DropBackend, NewMachine, NoSession,
      None, rram, backend, ControlInv, ChargeInv, WipeInv, TypeOK, ControlTypeOK,
      BackendTypeOK, VaultTypeOK, CommandPc, Role
  <2>5. GuessInv'
    BY <1>8 DEF IInv, ClearUser, ClearSlot, DropBackend, NewMachine, NoSession,
      None, rram, backend, GuessInv, Pending, HasKeys
  <2>6. KeyInv'
    BY <1>8 DEF IInv, ClearUser, ClearSlot, DropBackend, NewMachine, NoSession,
      None, rram, backend, KeyInv, KeysRecoverable, LoadPrivateKeys, Unseal, Live,
      Derived, Serving
  <2>7. ProvisionInv'
    BY <1>8 DEF IInv, ClearUser, ClearSlot, DropBackend, NewMachine, NoSession,
      None, rram, backend, ProvisionInv, Live, Serving
  <2>. QED BY <2>1, <2>2, <2>3, <2>4, <2>5, <2>6, <2>7 DEF IInv, TypeOK
<1>9. ASSUME NEW ok \in WriteOk, ClearAdmin(ok) PROVE IInv'
  <2>1. VaultTypeOK' /\ guesses' \in [Role -> Nat]
    BY <1>9 DEF IInv, ClearAdmin, ClearSlot, DropBackend, rram, backend, Role,
      VaultTypeOK, TypeOK
  <2>2. ControlTypeOK'
    BY <1>9 DEF IInv, ClearAdmin, ClearSlot, DropBackend, rram, backend, TypeOK,
      ControlTypeOK, BootPc, CommandPc
  <2>3. BackendTypeOK'
    BY <1>9, ColdTypes DEF IInv, ClearAdmin, ClearSlot, DropBackend, rram, backend,
      TypeOK, BackendTypeOK
  <2>4. ControlInv' /\ ChargeInv' /\ WipeInv'
    BY <1>9 DEF IInv, ClearAdmin, ClearSlot, DropBackend, NewMachine, NoSession,
      None, rram, backend, ControlInv, ChargeInv, WipeInv, TypeOK, ControlTypeOK,
      BackendTypeOK, VaultTypeOK, CommandPc, Role
  <2>5. GuessInv'
    BY <1>9 DEF IInv, ClearAdmin, ClearSlot, DropBackend, NewMachine, NoSession,
      None, rram, backend, GuessInv, Pending, HasKeys
  <2>6. KeyInv'
    BY <1>9 DEF IInv, ClearAdmin, ClearSlot, DropBackend, NewMachine, NoSession,
      None, rram, backend, KeyInv, KeysRecoverable, LoadPrivateKeys, Unseal, Live,
      Derived, Serving
  <2>7. ProvisionInv'
    BY <1>9 DEF IInv, ClearAdmin, ClearSlot, DropBackend, NewMachine, NoSession,
      None, rram, backend, ProvisionInv, Live, Serving
  <2>. QED BY <2>1, <2>2, <2>3, <2>4, <2>5, <2>6, <2>7 DEF IInv, TypeOK
<1>10. ASSUME NEW ok \in WriteOk, SeedOpen(ok) PROVE IInv'
  <2>1. VaultTypeOK' /\ guesses' \in [Role -> Nat]
    BY <1>10 DEF IInv, SeedOpen, Seed, rram, backend, VaultTypeOK, TypeOK
  <2>2. ControlTypeOK'
    BY <1>10 DEF IInv, SeedOpen, Seed, rram, backend, TypeOK, ControlTypeOK,
      BootPc, CommandPc
  <2>3. BackendTypeOK'
    BY <1>10, LoadType DEF IInv, SeedOpen, Seed, rram, backend, TypeOK,
      BackendTypeOK, VaultTypeOK, ControlTypeOK
  <2>4. ControlInv' /\ ChargeInv' /\ WipeInv'
    BY <1>10 DEF IInv, SeedOpen, Seed, rram, backend, ControlInv, ChargeInv,
      WipeInv, TypeOK, ControlTypeOK, BackendTypeOK, VaultTypeOK, CommandPc, Role
  <2>5. GuessInv'
    BY <1>10 DEF IInv, SeedOpen, Seed, rram, backend, GuessInv, Pending, HasKeys
  <2>6. KeyInv'
    BY <1>10 DEF IInv, SeedOpen, Seed, rram, backend, KeyInv, KeysRecoverable,
      LoadPrivateKeys, Unseal, Live, Derived, Serving
  <2>7. ProvisionInv'
    BY <1>10 DEF IInv, SeedOpen, Seed, rram, backend, ProvisionInv, Live, Serving
  <2>. QED BY <2>1, <2>2, <2>3, <2>4, <2>5, <2>6, <2>7 DEF IInv, TypeOK
<1>. QED BY <1>1, <1>2, <1>3, <1>4, <1>5, <1>6, <1>7, <1>8, <1>9, <1>10 DEF BootStep

(* The steps inside a PIN command preserve IInv. *)
LEMMA CommandIInv == ASSUME IInv, CommandStep PROVE IInv'
<1>. USE PinPolicyAssumption, TokenAssumption
<1>1. ASSUME Compare PROVE IInv'
  <2>1. VaultTypeOK' /\ guesses' \in [Role -> Nat]
    BY <1>1, JobType DEF IInv, Compare, Done, SetMachine, rram, backend, CommandPc,
      VaultTypeOK, TypeOK
  <2>2. ControlTypeOK'
    BY <1>1 DEF IInv, Compare, Done, SetMachine, rram, backend, TypeOK,
      ControlTypeOK, BootPc, CommandPc
  <2>3. BackendTypeOK'
    BY <1>1, JobType DEF IInv, Compare, Done, SetMachine, rram, backend, TypeOK,
      BackendTypeOK, PinState, Role, CommandPc
  <2>4. ControlInv' /\ ChargeInv' /\ WipeInv'
    BY <1>1, JobType DEF IInv, Compare, Done, SetMachine, rram, backend,
      ControlInv, ChargeInv, WipeInv, TypeOK, ControlTypeOK, BackendTypeOK,
      VaultTypeOK, CommandPc, Role, RoleOf
  <2>5. GuessInv'
    BY <1>1, JobType DEF IInv, Compare, Done, SetMachine, rram, backend, GuessInv,
      Pending, HasKeys, TypeOK, VaultTypeOK, ControlTypeOK, BackendTypeOK,
      ChargeInv, Role, RoleOf
  <2>6. KeyInv'
    BY <1>1, JobType DEF IInv, Compare, Done, SetMachine, rram, backend, KeyInv,
      KeysRecoverable, LoadPrivateKeys, Unseal, Live, Derived, Serving
  <2>7. ProvisionInv'
    BY <1>1, JobType DEF IInv, Compare, Done, SetMachine, rram, backend,
      ProvisionInv, Live, Serving
  <2>. QED BY <2>1, <2>2, <2>3, <2>4, <2>5, <2>6, <2>7 DEF IInv, TypeOK
<1>2. ASSUME NEW ok \in WriteOk, RefundCharge(ok) PROVE IInv'
  <2>1. VaultTypeOK' /\ guesses' \in [Role -> Nat]
    BY <1>2, JobType DEF IInv, RefundCharge, Done, SetMachine, rram, backend,
      Refund, CommandPc, VaultTypeOK, TypeOK
  <2>2. ControlTypeOK'
    BY <1>2 DEF IInv, RefundCharge, Done, SetMachine, rram, backend, TypeOK,
      ControlTypeOK, BootPc, CommandPc
  <2>3. BackendTypeOK'
    <3>1. job \in Job /\ RoleOf(job.ref) \in Role
      BY <1>2, JobType DEF RefundCharge, CommandPc
    <3>2. /\ machine' \in [Role -> PinState]
          /\ verifier' \in [Role -> Pins \cup {Blank}]
      BY <1>2, <3>1 DEF IInv, TypeOK, BackendTypeOK, RefundCharge, SetMachine, Job, PinState
    <3>3. session' \in [Purpose -> BOOLEAN]
      BY <1>2, <3>1 DEF IInv, TypeOK, BackendTypeOK, RefundCharge
    <3>. QED BY <1>2, <3>2, <3>3 DEF IInv, TypeOK, BackendTypeOK, RefundCharge
  <2>4. ControlInv' /\ ChargeInv' /\ WipeInv'
    BY <1>2, JobType DEF IInv, RefundCharge, Done, SetMachine, rram, backend,
      ControlInv, ChargeInv, WipeInv, TypeOK, ControlTypeOK, BackendTypeOK,
      VaultTypeOK, CommandPc, Role
  <2>5. GuessInv'
    BY <1>2, JobType DEF IInv, RefundCharge, Done, SetMachine, rram, backend,
      GuessInv, Pending, HasKeys, TypeOK, VaultTypeOK, ControlTypeOK,
      BackendTypeOK, ChargeInv, Role, RoleOf, Refund
  <2>6. KeyInv'
    BY <1>2, JobType DEF IInv, RefundCharge, Done, SetMachine, rram, backend,
      KeyInv, KeysRecoverable, LoadPrivateKeys, Unseal, Live, Derived, Serving
  <2>7. ProvisionInv'
    BY <1>2, JobType DEF IInv, RefundCharge, Done, SetMachine, rram, backend,
      ProvisionInv, Live, Serving, TypeOK, VaultTypeOK, ControlTypeOK,
      BackendTypeOK, Job, Role, CommandPc
  <2>. QED BY <2>1, <2>2, <2>3, <2>4, <2>5, <2>6, <2>7 DEF IInv, TypeOK
<1>3. ASSUME NEW ok \in WriteOk, PersistUser(ok) PROVE IInv'
  <2>1. VaultTypeOK' /\ guesses' \in [Role -> Nat]
    BY <1>3 DEF IInv, PersistUser, Done, rram, backend, BackendTypeOK, Role,
      VaultTypeOK, TypeOK
  <2>2. ControlTypeOK'
    BY <1>3 DEF IInv, PersistUser, Done, rram, backend, TypeOK, ControlTypeOK,
      BootPc, CommandPc
  <2>3. BackendTypeOK'
    BY <1>3 DEF IInv, PersistUser, Done, rram, backend, TypeOK, BackendTypeOK
  <2>4. ControlInv' /\ ChargeInv' /\ WipeInv'
    BY <1>3 DEF IInv, PersistUser, Done, rram, backend, ControlInv, ChargeInv,
      WipeInv, TypeOK, ControlTypeOK, BackendTypeOK, VaultTypeOK, CommandPc, Role
  <2>5. GuessInv'
    BY <1>3 DEF IInv, PersistUser, Done, rram, backend, GuessInv, Pending, HasKeys
  <2>6. KeyInv'
    BY <1>3 DEF IInv, PersistUser, Done, rram, backend, KeyInv, KeysRecoverable,
      LoadPrivateKeys, Unseal, Live, Derived, Serving
  <2>7. ProvisionInv'
    BY <1>3 DEF IInv, PersistUser, Done, rram, backend, ProvisionInv, Live,
      Serving, TypeOK, VaultTypeOK, ControlTypeOK, BackendTypeOK, Role
  <2>. QED BY <2>1, <2>2, <2>3, <2>4, <2>5, <2>6, <2>7 DEF IInv, TypeOK
<1>4. ASSUME NEW ok \in WriteOk, PersistAdmin(ok) PROVE IInv'
  <2>1. VaultTypeOK' /\ guesses' \in [Role -> Nat]
    BY <1>4 DEF IInv, PersistAdmin, PersistAdminWith, Done, SetMachine, rram,
      backend, BackendTypeOK, Role, VaultTypeOK, TypeOK
  <2>2. ControlTypeOK'
    BY <1>4 DEF IInv, PersistAdmin, PersistAdminWith, Done, SetMachine, rram,
      backend, TypeOK, ControlTypeOK, BootPc, CommandPc
  <2>3. BackendTypeOK'
    BY <1>4, JobType DEF IInv, PersistAdmin, PersistAdminWith, Done, SetMachine,
      rram, backend, TypeOK, BackendTypeOK, PinState, CommandPc
  <2>4. ControlInv' /\ ChargeInv' /\ WipeInv'
    BY <1>4 DEF IInv, PersistAdmin, PersistAdminWith, Done, SetMachine, rram,
      backend, ControlInv, ChargeInv, WipeInv, TypeOK, ControlTypeOK,
      BackendTypeOK, VaultTypeOK, CommandPc, Role
  <2>5. GuessInv'
    BY <1>4 DEF IInv, PersistAdmin, PersistAdminWith, Done, SetMachine, rram,
      backend, GuessInv, Pending, HasKeys
  <2>6. KeyInv'
    BY <1>4 DEF IInv, PersistAdmin, PersistAdminWith, Done, SetMachine, rram,
      backend, KeyInv, KeysRecoverable, LoadPrivateKeys, Unseal, Live, Derived,
      Serving
  <2>7. ProvisionInv'
    BY <1>4 DEF IInv, PersistAdmin, PersistAdminWith, Done, SetMachine, rram,
      backend, ProvisionInv, Live, Serving, TypeOK, VaultTypeOK, ControlTypeOK,
      BackendTypeOK, Role
  <2>. QED BY <2>1, <2>2, <2>3, <2>4, <2>5, <2>6, <2>7 DEF IInv, TypeOK
<1>5. ASSUME NEW ok \in WriteOk, WipeStep(ok) PROVE IInv'
  <2>1. VaultTypeOK' /\ guesses' \in [Role -> Nat]
    <3>1. sealed' \in [KeySlot -> Blob \cup {Blank}] /\ doHeader' \in BOOLEAN
      BY <1>5 DEF IInv, TypeOK, VaultTypeOK, WipeStep, rram
    <3>2. /\ digest' \in [Role -> Pins \cup {Blank}]
          /\ slot' \in [Role -> Pins \cup {Blank}]
          /\ master' \in Salts \cup {Blank}
      BY <1>5 DEF IInv, TypeOK, VaultTypeOK, WipeStep, rram
    <3>3. ctr' \in [Role -> 0..CounterMax] /\ guesses' \in [Role -> Nat]
      BY <1>5 DEF IInv, TypeOK, VaultTypeOK, WipeStep, rram
    <3>. QED BY <3>1, <3>2, <3>3 DEF VaultTypeOK
  <2>2. ControlTypeOK'
    BY <1>5 DEF IInv, WipeStep, Done, SetMachine, WipeOrder, WipeLen, DigestCell,
      CtrCell, SlotCell, rram, backend, TypeOK, ControlTypeOK, BootPc, CommandPc,
      ControlInv
  <2>3. BackendTypeOK'
    BY <1>5, JobType DEF IInv, WipeStep, Done, SetMachine, WipeOrder, WipeLen,
      DigestCell, CtrCell, SlotCell, rram, backend, TypeOK, BackendTypeOK,
      PinState, CommandPc
  <2>4. ControlInv' /\ ChargeInv' /\ WipeInv'
    BY <1>5 DEF IInv, WipeStep, Done, SetMachine, WipeOrder, WipeLen, DigestCell,
      CtrCell, SlotCell, rram, backend, ControlInv, ChargeInv, WipeInv, TypeOK,
      ControlTypeOK, BackendTypeOK, VaultTypeOK, CommandPc, Role, KeySlot
  <2>5. GuessInv'
    BY <1>5 DEF IInv, WipeStep, Done, SetMachine, WipeOrder, WipeLen, DigestCell,
      CtrCell, SlotCell, rram, backend, GuessInv, Pending, HasKeys, TypeOK,
      VaultTypeOK, ControlTypeOK, BackendTypeOK, WipeInv, ControlInv, KeySlot, Role
  <2>6. KeyInv'
    BY <1>5 DEF IInv, WipeStep, Done, SetMachine, WipeOrder, WipeLen, DigestCell,
      CtrCell, SlotCell, rram, backend, KeyInv, KeysRecoverable, LoadPrivateKeys,
      Unseal, Live, Derived, Serving, TypeOK, VaultTypeOK, ControlTypeOK,
      BackendTypeOK, WipeInv, ControlInv, KeySlot
  <2>7. ProvisionInv'
    BY <1>5 DEF IInv, WipeStep, Done, SetMachine, WipeOrder, WipeLen, DigestCell,
      CtrCell, SlotCell, rram, backend, ProvisionInv, Live, Serving
  <2>. QED BY <2>1, <2>2, <2>3, <2>4, <2>5, <2>6, <2>7 DEF IInv, TypeOK
<1>. QED BY <1>1, <1>2, <1>3, <1>4, <1>5 DEF CommandStep

(* Accepting a command from the host preserves IInv. *)
LEMMA HostIInv == ASSUME IInv, HostCommand PROVE IInv'
<1>. USE PinPolicyAssumption, TokenAssumption
<1>1. ASSUME NEW ok \in WriteOk, NEW j \in Job, j.cmd # "RESET", Charge(j, ok) PROVE IInv'
  <2>1. VaultTypeOK' /\ guesses' \in [Role -> Nat]
    BY <1>1 DEF IInv, Charge, SetMachine, Serving, rram, backend, RoleOf,
      Increment, Breach, Role, VaultTypeOK, TypeOK
  <2>2. ControlTypeOK'
    BY <1>1 DEF IInv, Charge, SetMachine, Serving, rram, backend, TypeOK,
      ControlTypeOK, BootPc, CommandPc, WipeLen
  <2>3. BackendTypeOK'
    BY <1>1 DEF IInv, Charge, SetMachine, Serving, rram, backend, TypeOK,
      BackendTypeOK, PinState, RoleOf, Role
  <2>4. ControlInv' /\ ChargeInv' /\ WipeInv'
    BY <1>1 DEF IInv, Charge, SetMachine, Serving, rram, backend, ControlInv,
      ChargeInv, WipeInv, TypeOK, ControlTypeOK, BackendTypeOK, VaultTypeOK,
      CommandPc, Role, RoleOf, Increment, Breach, Job, Purpose, WipeLen
  <2>5. GuessInv'
    BY <1>1 DEF IInv, Charge, SetMachine, Serving, rram, backend, GuessInv,
      Pending, HasKeys, TypeOK, VaultTypeOK, ControlTypeOK, BackendTypeOK,
      ControlInv, RoleOf, Role, Increment, Breach
  <2>6. KeyInv'
    BY <1>1 DEF IInv, Charge, SetMachine, Serving, rram, backend, KeyInv,
      KeysRecoverable, LoadPrivateKeys, Unseal, Live, Derived, Serving, Breach
  <2>7. ProvisionInv'
    BY <1>1 DEF IInv, Charge, SetMachine, Serving, rram, backend, ProvisionInv,
      Live, Serving, Breach
  <2>. QED BY <2>1, <2>2, <2>3, <2>4, <2>5, <2>6, <2>7 DEF IInv, TypeOK
<1>2. ASSUME NEW new \in Pins, ResetRetry(new) PROVE IInv'
  <2>1. VaultTypeOK' /\ guesses' \in [Role -> Nat]
    BY <1>2 DEF IInv, ResetRetry, Serving, rram, backend, VaultTypeOK, TypeOK
  <2>2. ControlTypeOK'
    BY <1>2 DEF IInv, ResetRetry, Serving, rram, backend, TypeOK, ControlTypeOK,
      BootPc, CommandPc, Job, Purpose
  <2>3. BackendTypeOK'
    BY <1>2 DEF IInv, ResetRetry, Serving, rram, backend, TypeOK, BackendTypeOK
  <2>4. ControlInv' /\ ChargeInv' /\ WipeInv'
    BY <1>2 DEF IInv, ResetRetry, Serving, rram, backend, ControlInv, ChargeInv,
      WipeInv, TypeOK, ControlTypeOK, BackendTypeOK, VaultTypeOK, CommandPc, Role,
      Job, Purpose
  <2>5. GuessInv'
    BY <1>2 DEF IInv, ResetRetry, Serving, rram, backend, GuessInv, Pending, HasKeys
  <2>6. KeyInv'
    BY <1>2 DEF IInv, ResetRetry, Serving, rram, backend, KeyInv, KeysRecoverable,
      LoadPrivateKeys, Unseal, Live, Derived, Serving
  <2>7. ProvisionInv'
    BY <1>2 DEF IInv, ResetRetry, Serving, rram, backend, ProvisionInv, Live,
      Serving, TypeOK, VaultTypeOK, ControlTypeOK, BackendTypeOK, Role
  <2>. QED BY <2>1, <2>2, <2>3, <2>4, <2>5, <2>6, <2>7 DEF IInv, TypeOK
<1>3. ASSUME NEW s \in GenSlots, NEW k \in Keys, NEW ok \in WriteOk, Generate(s, k, ok) PROVE IInv'
  <2>1. VaultTypeOK' /\ guesses' \in [Role -> Nat]
    BY <1>3 DEF IInv, Generate, Serving, rram, backend, KeyInv, Live,
      ControlTypeOK, Blob, KeySlot, VaultTypeOK, TypeOK
  <2>2. ControlTypeOK'
    BY <1>3 DEF IInv, Generate, Serving, rram, backend, TypeOK, ControlTypeOK,
      BootPc, CommandPc
  <2>3. BackendTypeOK'
    BY <1>3 DEF IInv, Generate, Serving, rram, backend, TypeOK, BackendTypeOK,
      KeySlot
  <2>4. ControlInv' /\ ChargeInv' /\ WipeInv'
    BY <1>3 DEF IInv, Generate, Serving, rram, backend, ControlInv, ChargeInv,
      WipeInv, TypeOK, ControlTypeOK, BackendTypeOK, VaultTypeOK, CommandPc, Role,
      KeySlot
  <2>5. GuessInv'
    BY <1>3 DEF IInv, Generate, Serving, rram, backend, GuessInv, Pending, HasKeys,
      TypeOK, VaultTypeOK, ControlTypeOK, BackendTypeOK, KeySlot, ControlInv,
      KeyInv, Live, Blob
  <2>6. KeyInv'
    <3>1. /\ mk = master /\ master # Blank
          /\ keyRam = LoadPrivateKeys(master)
      BY <1>3 DEF IInv, KeyInv, Live, Generate
    <3>2. [key |-> k, salt |-> mk] \in Blob
      BY <1>3, <3>1 DEF IInv, TypeOK, VaultTypeOK, Blob
    <3>3. KeysRecoverable'
      BY <1>3, <3>1 DEF IInv, TypeOK, VaultTypeOK, KeyInv, KeysRecoverable, Generate
    <3>4. keyRam' = LoadPrivateKeys(master)'
      <4>1. ASSUME NEW t \in KeySlot PROVE keyRam'[t] = Unseal(sealed'[t], master)
        BY <1>3, <3>1, <3>2 DEF IInv, TypeOK, VaultTypeOK, BackendTypeOK,
          LoadPrivateKeys, Unseal, Generate
      <4>2. keyRam' = [t \in KeySlot |-> keyRam'[t]]
        BY <1>3 DEF IInv, TypeOK, BackendTypeOK, Generate
      <4>. QED BY <1>3, <4>1, <4>2 DEF LoadPrivateKeys, Generate
    <3>. QED BY <1>3, <3>1, <3>3, <3>4 DEF KeyInv, Generate
  <2>7. ProvisionInv'
    BY <1>3 DEF IInv, Generate, Serving, rram, backend, ProvisionInv, Live, Serving
  <2>. QED BY <2>1, <2>2, <2>3, <2>4, <2>5, <2>6, <2>7 DEF IInv, TypeOK
<1>4. ASSUME NEW ok \in WriteOk, Sign(ok) PROVE IInv'
  <2>1. VaultTypeOK' /\ guesses' \in [Role -> Nat]
    BY <1>4 DEF IInv, Sign, Serving, rram, backend, VaultTypeOK, TypeOK
  <2>2. ControlTypeOK'
    BY <1>4 DEF IInv, Sign, Serving, rram, backend, TypeOK, ControlTypeOK, BootPc,
      CommandPc
  <2>3. BackendTypeOK'
    BY <1>4 DEF IInv, Sign, Serving, rram, backend, TypeOK, BackendTypeOK
  <2>4. ControlInv' /\ ChargeInv' /\ WipeInv'
    BY <1>4 DEF IInv, Sign, Serving, rram, backend, ControlInv, ChargeInv, WipeInv,
      TypeOK, ControlTypeOK, BackendTypeOK, VaultTypeOK, CommandPc, Role
  <2>5. GuessInv'
    BY <1>4 DEF IInv, Sign, Serving, rram, backend, GuessInv, Pending, HasKeys
  <2>6. KeyInv'
    BY <1>4 DEF IInv, Sign, Serving, rram, backend, KeyInv, KeysRecoverable,
      LoadPrivateKeys, Unseal, Live, Derived, Serving
  <2>7. ProvisionInv'
    BY <1>4 DEF IInv, Sign, Serving, rram, backend, ProvisionInv, Live, Serving
  <2>. QED BY <2>1, <2>2, <2>3, <2>4, <2>5, <2>6, <2>7 DEF IInv, TypeOK
<1>5. ASSUME SessionReset PROVE IInv'
  <2>1. VaultTypeOK' /\ guesses' \in [Role -> Nat]
    BY <1>5 DEF IInv, SessionReset, NoSession, rram, backend, VaultTypeOK, TypeOK
  <2>2. ControlTypeOK'
    BY <1>5 DEF IInv, SessionReset, NoSession, rram, backend, TypeOK,
      ControlTypeOK, BootPc, CommandPc
  <2>3. BackendTypeOK'
    BY <1>5 DEF IInv, SessionReset, NoSession, rram, backend, TypeOK, BackendTypeOK
  <2>4. ControlInv' /\ ChargeInv' /\ WipeInv'
    BY <1>5 DEF IInv, SessionReset, NoSession, rram, backend, ControlInv,
      ChargeInv, WipeInv, TypeOK, ControlTypeOK, BackendTypeOK, VaultTypeOK,
      CommandPc, Role
  <2>5. GuessInv'
    BY <1>5 DEF IInv, SessionReset, NoSession, rram, backend, GuessInv, Pending,
      HasKeys
  <2>6. KeyInv'
    BY <1>5 DEF IInv, SessionReset, NoSession, rram, backend, KeyInv,
      KeysRecoverable, LoadPrivateKeys, Unseal, Live, Derived, Serving
  <2>7. ProvisionInv'
    BY <1>5 DEF IInv, SessionReset, NoSession, rram, backend, ProvisionInv, Live,
      Serving
  <2>. QED BY <2>1, <2>2, <2>3, <2>4, <2>5, <2>6, <2>7 DEF IInv, TypeOK
<1>6. ASSUME NEW ok \in WriteOk, NEW ref \in Refs, NEW pin \in Pins, Verify(ref, pin, ok)
      PROVE  IInv'
  BY <1>1, <1>6 DEF Verify, Job
<1>7. ASSUME NEW ok \in WriteOk, NEW ref \in Refs, NEW pin \in Pins, NEW new \in Pins,
             ChangeReference(ref, pin, new, ok)
      PROVE  IInv'
  BY <1>1, <1>7 DEF ChangeReference, Job
<1>. QED BY <1>2, <1>3, <1>4, <1>5, <1>6, <1>7 DEF HostCommand

(* IInv is an invariant of the token. *)
THEOREM Invariance == Spec => []IInv
<1>1. IInv /\ UNCHANGED vars => IInv'
  BY DEF IInv, vars, rram, backend, TypeOK, VaultTypeOK, ControlTypeOK, BackendTypeOK,
    ControlInv, ChargeInv, WipeInv, GuessInv, KeyInv, ProvisionInv, KeysRecoverable,
    HasKeys, Pending, Live, Derived, Serving, LoadPrivateKeys, Unseal
<1>2. IInv /\ [Next]_vars => IInv'
  BY <1>1, PowerIInv, BootIInv, CommandIInv, HostIInv DEF Next
<1>. QED BY <1>2, InitIInv, PTL DEF Spec

(* Every variable of the token, the RRAM counters included, keeps its type. *)
THEOREM TypeCorrect == Spec => []TypeOK
<1>1. IInv => TypeOK
  BY DEF IInv
<1>. QED BY <1>1, Invariance, PTL

(* submit_attempt and the wipe bound the wrong PINs ever compared while a key is  *)
(* stored, whatever power cuts and failed writes come between their steps.        *)
THEOREM GuessBounded == Spec => []GuessBound
<1>1. IInv => GuessBound
  BY DEF IInv, GuessInv, GuessBound
<1>. QED BY <1>1, Invariance, PTL

(* Every stored key stays sealed under the salt of the master record. *)
THEOREM KeysStayRecoverable == Spec => []KeysRecoverable
<1>1. IInv => KeysRecoverable
  BY DEF IInv, KeyInv
<1>. QED BY <1>1, Invariance, PTL

(* The keys commands use are the keys a reboot would load. *)
THEOREM RamAgreesWithVault == Spec => []RamMatchesVault
<1>1. IInv => RamMatchesVault
  BY DEF IInv, KeyInv, Live, RamMatchesVault
<1>. QED BY <1>1, Invariance, PTL

(* Commands are served only on a token whose two PINs are set. *)
THEOREM ServedTokenIsProvisioned == Spec => []ServesProvisioned
<1>1. IInv => ServesProvisioned
  BY DEF IInv, ProvisionInv, Live, ServesProvisioned
<1>. QED BY <1>1, Invariance, PTL

-----------------------------------------------------------------------------
(* Which steps touch the counters, the keys and the count of guesses. *)
Accounting == <<sealed, ctr, guesses>>

(* Booting touches none of them. *)
LEMMA BootAccounting ==
    ASSUME BootStep
    PROVE  /\ UNCHANGED Accounting
           /\ pc \notin {"compare", "refund"} /\ pc' \notin {"compare", "refund"}
<1>. USE DEF Accounting, rram
<1>1. ASSUME NEW ok \in WriteOk, Bridge(ok) \/ BridgeAdmin(ok) \/ Open(ok)
      PROVE  UNCHANGED Accounting /\ {pc, pc'} \cap {"compare", "refund"} = {}
  BY <1>1 DEF Bridge, BridgeWith, BridgeAdmin, Open
<1>2. ASSUME NEW ok \in WriteOk, NEW salt \in Salts, Master(salt, ok)
      PROVE  UNCHANGED Accounting /\ {pc, pc'} \cap {"compare", "refund"} = {}
  BY <1>2 DEF Master, MasterWith
<1>3. ASSUME NEW ok \in WriteOk,
             NewUser(ok) \/ NewAdmin(ok) \/ SeedNew(ok) \/ SeedOpen(ok)
      PROVE  UNCHANGED Accounting /\ {pc, pc'} \cap {"compare", "refund"} = {}
  BY <1>3 DEF NewUser, NewAdmin, SeedNew, SeedOpen
<1>4. ASSUME NEW ok \in WriteOk, ClearUser(ok) \/ ClearAdmin(ok)
      PROVE  UNCHANGED Accounting /\ {pc, pc'} \cap {"compare", "refund"} = {}
  BY <1>4 DEF ClearUser, ClearAdmin, ClearSlot
<1>. QED BY <1>1, <1>2, <1>3, <1>4 DEF BootStep

(* A counter past its limit falls back under it only once no key is stored. *)
LEMMA LockStep ==
    ASSUME IInv, [Next]_vars, NEW r \in Role, HasKeys, Breach(ctr[r])
    PROVE  Breach(ctr'[r]) \/ ~HasKeys'
<1>. USE PinPolicyAssumption, TokenAssumption DEF Breach
<1>1. CASE UNCHANGED vars \/ PowerOn \/ PowerLoss
  BY <1>1 DEF vars, rram, PowerOn, PowerLoss
<1>2. CASE BootStep
  BY <1>2, BootAccounting DEF Accounting
<1>3. CASE Compare
  BY <1>3 DEF Compare, rram
<1>4. ASSUME NEW ok \in WriteOk, RefundCharge(ok) PROVE Breach(ctr'[r])
  BY <1>4 DEF RefundCharge, IInv, ChargeInv, TypeOK, VaultTypeOK
<1>5. ASSUME NEW ok \in WriteOk, PersistUser(ok) \/ PersistAdmin(ok) PROVE Breach(ctr'[r])
  BY <1>5 DEF PersistUser, PersistAdmin, PersistAdminWith
<1>6. ASSUME NEW ok \in WriteOk, WipeStep(ok) PROVE Breach(ctr'[r])
  <2>1. wipeAt \in 1..4
    BY <1>6 DEF WipeStep, IInv, ControlInv, WipeInv, TypeOK, ControlTypeOK, WipeLen,
      HasKeys, KeySlot
  <2>. QED BY <1>6, <2>1 DEF WipeStep, WipeOrder, CtrCell, Role, rram
<1>7. ASSUME NEW ok \in WriteOk, NEW j, Charge(j, ok) PROVE Breach(ctr'[r])
  BY <1>7 DEF Charge, Increment, IInv, TypeOK, VaultTypeOK
<1>8. CASE HostCommand
  BY <1>7, <1>8 DEF HostCommand, Verify, ChangeReference, ResetRetry, Generate, Sign,
    SessionReset, rram
<1>. QED BY <1>1, <1>2, <1>3, <1>4, <1>5, <1>6, <1>8 DEF Next, CommandStep

(* The lock is irrevocable while any key is stored: only the wipe, and only after *)
(* it has passed the sealed keys, brings a counter back under the limit.          *)
THEOREM LockIsIrrevocable == Spec => LockIrrevocable
<1>1. IInv /\ [Next]_vars =>
        [\A r \in Role :
            (HasKeys /\ Breach(ctr[r])) => (Breach(ctr'[r]) \/ ~HasKeys')]_vars
  BY LockStep
<1>. QED BY <1>1, Invariance, PTL DEF Spec, LockIrrevocable

-----------------------------------------------------------------------------
(* The abstract number of attempts spent is a natural number: a charge in     *)
(* flight is in the counter.                                                   *)
LEMMA SpentType == IInv => Spent \in [Role -> Nat]
BY PinPolicyAssumption
DEF Spent, Pending, IInv, TypeOK, VaultTypeOK, ChargeInv

(* The same after the step. *)
LEMMA SpentTypeNext == IInv' => Spent' \in [Role -> Nat]
BY PinPolicyAssumption
DEF Spent, Pending, IInv, TypeOK, VaultTypeOK, ChargeInv

(* A charge in flight that is neither refunded nor kept in flight becomes spent. *)
LEMMA ChargeSettles ==
    ASSUME IInv, pc \in {"compare", "refund"}, pc' \notin {"compare", "refund"},
           UNCHANGED ctr
    PROVE  /\ RoleOf(job.ref) \in Role
           /\ Spent' = [Spent EXCEPT ![RoleOf(job.ref)] = @ + 1]
           /\ Spent[RoleOf(job.ref)] < MaxAttempts
<1>. DEFINE r == RoleOf(job.ref)
<1>. r \in Role
  BY JobType DEF CommandPc
<1>. ctr \in [Role -> 0..CounterMax] /\ ctr[r] \in 1..MaxAttempts
  BY DEF IInv, TypeOK, VaultTypeOK, ChargeInv
<1>1. Spent' = [t \in Role |-> ctr[t]]
  <2>1. \A t \in Role : Pending(t)' = 0
    BY DEF Pending
  <2>. QED BY <2>1, PinPolicyAssumption DEF Spent
<1>2. Spent = [t \in Role |-> IF t = r THEN ctr[t] - 1 ELSE ctr[t]]
  <2>1. \A t \in Role : Pending(t) = IF t = r THEN 1 ELSE 0
    BY DEF Pending
  <2>. QED BY <2>1, PinPolicyAssumption DEF Spent
<1>. QED BY <1>1, <1>2, PinPolicyAssumption

(* A step that leaves keys, counters and guesses alone and has the same charge   *)
(* in flight before and after is a stuttering step of the budget.                *)
LEMMA QuietStep ==
    ASSUME UNCHANGED Accounting,
           \A r \in Role : Pending(r)' = Pending(r)
    PROVE  UNCHANGED Retry!vars
BY DEF Accounting, HasKeys, Spent, Retry!vars

(* A charge that is lost, or burnt on the way to a wipe, spends an attempt. *)
LEMMA BurnStep ==
    ASSUME IInv, IInv', NEW r \in Role,
           UNCHANGED <<sealed, guesses>>,
           Spent' = [Spent EXCEPT ![r] = @ + 1]
    PROVE  Retry!Burn(r) \/ Retry!Unkeyed
BY SpentTypeNext DEF Retry!Burn, Retry!Unkeyed, HasKeys

(* Every step of the token is a step of the atomic retry budget, or changes      *)
(* nothing the budget speaks of.                                                 *)
LEMMA RetryStep ==
    ASSUME IInv, IInv', [Next]_vars
    PROVE  [Retry!Next]_(Retry!vars)
<1>. USE PinPolicyAssumption, TokenAssumption
<1>1. CASE UNCHANGED vars \/ PowerOn
  BY <1>1, QuietStep DEF vars, rram, PowerOn, Accounting, Pending
<1>2. CASE PowerLoss
  <2>. UNCHANGED Accounting /\ pc' = "off"
    BY <1>2 DEF PowerLoss, rram, Accounting
  <2>1. CASE pc \in {"compare", "refund"}
    BY <2>1, ChargeSettles, BurnStep DEF Accounting, Retry!Next
  <2>2. CASE pc \notin {"compare", "refund"}
    BY <2>2, QuietStep DEF Pending
  <2>. QED BY <2>1, <2>2
<1>3. CASE BootStep
  BY <1>3, BootAccounting, QuietStep DEF Pending
<1>4. CASE Compare
  <2>. DEFINE r == RoleOf(job.ref)
  <2>1. r \in Role /\ pc = "compare"
    BY <1>4, JobType DEF Compare, CommandPc
  <2>2. CASE job.pin = verifier[r]
    BY <1>4, <2>2, QuietStep DEF Compare, rram, Accounting, Pending
  <2>3. CASE job.pin # verifier[r]
    <3>1. /\ UNCHANGED <<sealed, ctr>> /\ pc' = "idle"
          /\ guesses' = IF HasKeys THEN [guesses EXCEPT ![r] = @ + 1] ELSE guesses
      BY <1>4, <2>3 DEF Compare, rram, Done
    <3>2. Spent' = [Spent EXCEPT ![r] = @ + 1] /\ Spent[r] < MaxAttempts
      BY <2>1, <3>1, ChargeSettles
    <3>3. UNCHANGED HasKeys
      BY <3>1 DEF HasKeys
    <3>4. CASE HasKeys
      BY <2>1, <3>1, <3>2, <3>3, <3>4 DEF Retry!Next, Retry!WrongGuess
    <3>5. CASE ~HasKeys
      BY <3>1, <3>3, <3>5, SpentTypeNext DEF Retry!Next, Retry!Unkeyed
    <3>. QED BY <3>4, <3>5
  <2>. QED BY <2>2, <2>3
<1>5. ASSUME NEW ok \in WriteOk, RefundCharge(ok) PROVE [Retry!Next]_(Retry!vars)
  <2>. DEFINE r == RoleOf(job.ref)
  <2>1. /\ r \in Role /\ pc = "refund" /\ pc' \in {"idle", "persistUser"}
        /\ UNCHANGED <<sealed, guesses>>
    BY <1>5, JobType DEF RefundCharge, CommandPc, Done
  <2>2. CASE ok
    <3>1. Spent' = Spent
      BY <1>5, <2>1, <2>2 DEF RefundCharge, Refund, Spent, Pending, IInv, TypeOK,
        VaultTypeOK, ChargeInv
    <3>. QED BY <2>1, <3>1 DEF HasKeys, Retry!vars
  <2>3. CASE ~ok
    <3>1. Spent' = [Spent EXCEPT ![r] = @ + 1]
      BY <1>5, <2>1, <2>3, ChargeSettles DEF RefundCharge
    <3>. QED BY <2>1, <3>1, BurnStep DEF Retry!Next
  <2>. QED BY <2>2, <2>3
<1>6. ASSUME NEW ok \in WriteOk, PersistUser(ok) \/ PersistAdmin(ok)
      PROVE  [Retry!Next]_(Retry!vars)
  BY <1>6, QuietStep DEF PersistUser, PersistAdmin, PersistAdminWith, Done, Accounting,
    Pending
<1>7. ASSUME NEW ok \in WriteOk, WipeStep(ok) PROVE [Retry!Next]_(Retry!vars)
  <2>1. pc = "wipe" /\ pc' \in {"wipe", "idle"}
    BY <1>7 DEF WipeStep, Done
  <2>2. CASE ~HasKeys
    <3>1. guesses = [t \in Role |-> 0]
      BY <2>2 DEF IInv, GuessInv, TypeOK
    <3>2. ~HasKeys' /\ UNCHANGED guesses
      BY <1>7, <2>2, <3>1 DEF WipeStep, HasKeys, rram
    <3>. QED BY <2>2, <3>2, SpentTypeNext DEF Retry!Next, Retry!Unkeyed, HasKeys
  <2>3. CASE HasKeys /\ ~HasKeys'
    <3>1. guesses' = [t \in Role |-> 0]
      BY <1>7, <2>3 DEF WipeStep, HasKeys, rram
    <3>. QED BY <2>3, <3>1, SpentTypeNext DEF Retry!Next, Retry!Erase
  <2>4. CASE HasKeys /\ HasKeys'
    <3>1. wipeAt \in 1..4
      BY <1>7, <2>4 DEF WipeStep, IInv, ControlInv, WipeInv, TypeOK, ControlTypeOK, WipeLen,
        HasKeys, KeySlot
    <3>2. UNCHANGED <<ctr, guesses>>
      BY <1>7, <2>4, <3>1 DEF WipeStep, WipeOrder, CtrCell, Role, HasKeys, rram, IInv,
        TypeOK, VaultTypeOK
    <3>3. Spent' = Spent
      BY <2>1, <3>2 DEF Spent, Pending
    <3>. QED BY <2>4, <3>2, <3>3 DEF Retry!vars
  <2>. QED BY <2>2, <2>3, <2>4
<1>8. ASSUME NEW ok \in WriteOk, NEW j \in Job, Charge(j, ok)
      PROVE  [Retry!Next]_(Retry!vars)
  <2>. DEFINE r == RoleOf(j.ref)
  <2>1. /\ r \in Role /\ pc = "idle" /\ UNCHANGED <<sealed, guesses>>
    BY <1>8 DEF Charge, Serving, RoleOf, Role
  <2>2. CASE ~ok
    BY <1>8, <2>2, QuietStep DEF Charge, Accounting, Pending
  <2>3. CASE ok /\ ~Breach(Increment(ctr[r]))
    <3>1. Spent' = Spent
      BY <1>8, <2>1, <2>3 DEF Charge, Spent, Pending, Increment, Breach, IInv, TypeOK,
        VaultTypeOK
    <3>. QED BY <2>1, <3>1 DEF HasKeys, Retry!vars
  <2>4. CASE ok /\ Breach(Increment(ctr[r]))
    <3>1. pc' = "wipe" /\ ctr' = [ctr EXCEPT ![r] = Increment(@)]
      BY <1>8, <2>4 DEF Charge
    <3>2. CASE ctr[r] < CounterMax
      <4>1. Spent' = [Spent EXCEPT ![r] = @ + 1]
        BY <2>1, <3>1, <3>2 DEF Spent, Pending, Increment, IInv, TypeOK, VaultTypeOK
      <4>. QED BY <2>1, <4>1, BurnStep DEF Retry!Next
    <3>3. CASE ctr[r] = CounterMax
      <4>1. Spent' = Spent
        BY <2>1, <3>1, <3>3 DEF Spent, Pending, Increment, IInv, TypeOK, VaultTypeOK
      <4>. QED BY <2>1, <4>1 DEF HasKeys, Retry!vars
    <3>. QED BY <2>1, <3>2, <3>3 DEF IInv, TypeOK, VaultTypeOK
  <2>. QED BY <2>2, <2>3, <2>4
<1>9. ASSUME NEW s \in GenSlots, NEW k \in Keys, NEW ok \in WriteOk, Generate(s, k, ok)
      PROVE  [Retry!Next]_(Retry!vars)
  <2>1. UNCHANGED <<Spent, guesses>>
    BY <1>9 DEF Generate, Spent, Pending
  <2>2. HasKeys'
    <3>1. [key |-> k, salt |-> mk] \in Blob
      BY <1>9 DEF Generate, IInv, KeyInv, Live, TypeOK, VaultTypeOK, Blob
    <3>. QED BY <1>9, <3>1 DEF Generate, HasKeys, IInv, TypeOK, VaultTypeOK
  <2>. QED BY <2>1, <2>2 DEF Retry!Next, Retry!Install, Retry!vars
<1>10. CASE HostCommand
  <2>1. ASSUME NEW ok \in WriteOk, NEW pin \in Pins, NEW ref \in Refs, NEW new \in Pins,
               Verify(ref, pin, ok) \/ ChangeReference(ref, pin, new, ok)
        PROVE  [Retry!Next]_(Retry!vars)
    BY <1>8, <2>1 DEF Verify, ChangeReference, Job
  <2>2. ASSUME NEW new \in Pins, ResetRetry(new) PROVE [Retry!Next]_(Retry!vars)
    BY <2>2, QuietStep DEF ResetRetry, Serving, rram, Accounting, Pending
  <2>3. ASSUME NEW ok \in WriteOk, Sign(ok) \/ SessionReset
        PROVE  [Retry!Next]_(Retry!vars)
    BY <2>3, QuietStep DEF Sign, SessionReset, Serving, rram, Accounting, Pending
  <2>4. CASE SessionReset
    BY <2>4, QuietStep DEF SessionReset, rram, Accounting, Pending
  <2>. QED BY <1>9, <1>10, <2>1, <2>2, <2>3, <2>4 DEF HostCommand
<1>. QED BY <1>1, <1>2, <1>3, <1>4, <1>5, <1>6, <1>7, <1>10 DEF Next, CommandStep

(* The token's charge, compare, refund and wipe, with every write a step of its  *)
(* own and power cuts between them, implement the atomic retry budget.           *)
THEOREM ImplementsRetryBudget == Spec => RefinesRetryBudget
<1>1. Init => Retry!Init
  BY DEF Init, Retry!Init, HasKeys, Spent, Pending, None, Role
<1>2. IInv /\ IInv' /\ [Next]_vars => [Retry!Next]_(Retry!vars)
  BY RetryStep
<1>. QED BY <1>1, <1>2, Invariance, PTL DEF Spec, RefinesRetryBudget, Retry!Spec

=============================================================================
