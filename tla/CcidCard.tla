------------------------------- MODULE CcidCard -------------------------------
(***************************************************************************)
(* A host driving the card over CCID: the transport (CcidClass in process, *)
(* or the service loop of services/galdralag behind the usb-bao1x server), *)
(* the dispatcher and CardState of usb-personality, and the objects of     *)
(* CardObjects, through re-enumerations, lost answers and power cuts.      *)
(*                                                                         *)
(* The host is a PC/SC driver: one command at a time, of at most           *)
(* dwMaxCCIDMessageLength bytes, numbered from 0 after each enumeration.   *)
(* It ignores an answer with another number.  When it stops waiting it     *)
(* aborts, powers the card off or re-enumerates before anything else.      *)
(* A frame is one packet, or two when it carries data; an answer likewise. *)
(***************************************************************************)
EXTENDS CardObjects

CONSTANTS
    Vias,           \* "class", "baosec", "dabao": who runs the dispatcher
    Commands,       \* command frames the host sends
    MaxEra,         \* bound on enumerations and power cycles
    MaxCommands     \* bound on the commands the host sends

(* le is the answer's limit in units; the objects a command names are in arg and val. *)
(* BAD is a message parse_pc_to_rdr refuses, BADAPDU one whose APDU does not parse.   *)
Ops == {"POWERON", "POWEROFF", "STATUS", "ABORT", "BAD", "BADAPDU", "VERIFY", "SELECT",
        "PUT", "GET", "SIGN", "DECIPHER", "AUTH", "GENERATE", "READKEY", "RESPONSE",
        "CHALLENGE", "MSE"}
Purposes == {"Sign", "Other", "Admin"}

(* A range of units of the data of one command, which its enumeration and number name. *)
Chunks == [of : (1..MaxEra) \X Nat, from : Nat, to : Nat, more : BOOLEAN]

ASSUME CardAssumption ==
    /\ Vias \subseteq {"class", "baosec", "dabao"}
    /\ \A c \in Commands :
        /\ c.op \in Ops /\ c.le \in Nat \ {0}
        /\ c.op = "VERIFY" => c.arg \in Purposes
        /\ c.op \in {"GENERATE", "READKEY"} => c.arg \in KeySlot
    /\ MaxEra \in Nat \ {0} /\ MaxCommands \in Nat
    /\ None \notin Chunks

VARIABLES
    via, boot,      \* transport; 0 off, 1 header, 2..6 defaults, 7 load keys, 8 serving
    backend,        \* "stub" or "vault": the dispatcher's OpenPgpBackend
    flags,          \* CardState: purpose -> era of its VERIFY, None if not verified
    rest,           \* CardState: response_buffer and its offset
    rx,             \* CcidProtocolState.rx_buf, in packets
    ans, left,      \* answer being sent, and its packets still to go
    link, last,     \* link state, and the loop's last_link
    loop,           \* ccid_dispatch_one: "poll", "wait", "tx"
    inbox,          \* frames usb-bao1x holds for CcidRxDeferred
    host,           \* the driver: state, frame, packets sent
    era, seq,       \* enumeration, next command number
    sent,           \* commands sent so far
    have,           \* chained data the host has collected
    missed,         \* history: the link changed again before the loop saw a change
    lost,           \* history: the answer the host waits for is lost
    unsafe, gap     \* history: see the properties

card == <<flags, rest>>
wire == <<rx, ans, left, link, last, loop, inbox, host, era, seq, sent>>
hist == <<have, missed, lost, unsafe, gap>>
vars == <<objects, via, boot, backend, card, wire, hist>>

Idle   == [st |-> "idle", frame |-> None, sent |-> 0]
NoFlags == [p \in Purposes |-> None]

Init ==
    /\ ObjectsInit
    /\ via \in Vias
    /\ boot = 1
    /\ backend = IF via = "dabao" THEN "stub" ELSE "vault"
    /\ flags = NoFlags /\ rest = None
    /\ rx = <<>> /\ ans = None /\ left = 0
    /\ link = "up" /\ last = "up" /\ loop = "poll" /\ inbox = <<>>
    /\ host = Idle /\ era = 1 /\ seq = 0 /\ sent = 0
    /\ have = None /\ missed = FALSE /\ lost = FALSE /\ unsafe = FALSE /\ gap = FALSE

-----------------------------------------------------------------------------
(* Boot: seed_defaults_if_fresh, one write at a time, then the keys.        *)
(* The first write of all puts the header (init_if_needed).                 *)
Fresh == ~header

BootHeader ==
    /\ boot = 1 /\ (backend = "stub" => loop = "poll")
    /\ IF Fresh THEN header' = TRUE /\ slots' = EmptySlots /\ boot' = 2
                ELSE boot' = 7 /\ UNCHANGED <<header, slots>>
    /\ UNCHANGED <<blob, keyRam, sigCounter, wrote, fit, via, backend, card, wire, hist>>

BootDefault ==
    /\ boot \in 2..6
    /\ Store(Defaults[boot - 1][1], Defaults[boot - 1][2])
    /\ boot' = boot + 1
    /\ UNCHANGED <<blob, keyRam, sigCounter, fit, via, backend, card, wire, hist>>

BootKeys ==
    /\ boot = 7 /\ boot' = 8
    /\ LoadPrivateKeys
    /\ UNCHANGED <<header, slots, blob, sigCounter, wrote, via, backend, card, wire, hist>>

(* Dabao serves the bring-up stub until the vault is open; the switch makes a new dispatcher. *)
Switch ==
    /\ backend = "stub" /\ boot = 8 /\ loop = "poll"
    /\ backend' = "vault" /\ flags' = NoFlags /\ rest' = None
    /\ last' = link
    /\ UNCHANGED <<objects, via, boot, rx, ans, left, link, loop, inbox, host, era, seq, sent, hist>>

(* The dispatcher runs.  Baosec and the class start it once the vault is open; Dabao *)
(* opens the vault between two frames of the stub.                                   *)
Up == boot = IF backend = "stub" THEN 1 ELSE 8

-----------------------------------------------------------------------------
(* Answers. *)

Id(f) == <<f.era, f.seq>>
Answer(f, kind, chunk) == [seq |-> f.seq, of |-> Id(f), kind |-> kind, chunk |-> chunk]
Packets(a) == IF a.chunk # None THEN 2 ELSE 1

Say(f, kind) == ans' = Answer(f, kind, None)

(* Units of data a command yields when it succeeds. *)
DataLen(f) == IF f.cmd.op = "GET" THEN 3 ELSE IF f.cmd.op = "SIGN" THEN 2 ELSE 1

(* chunk_response: what exceeds le goes to response_buffer, for GET RESPONSE. *)
Chunk(f) ==
    LET n    == DataLen(f)
        take == IF n <= f.cmd.le THEN n ELSE f.cmd.le
    IN  /\ ans' = Answer(f, "ok", [of |-> Id(f), from |-> 0, to |-> take, more |-> n > take])
        /\ rest' = IF n > take THEN [of |-> Id(f), at |-> take, len |-> n] ELSE rest

Refuse(f) == Say(f, "err") /\ UNCHANGED <<objects, card>>

(* A protected command runs under flags of an older enumeration. *)
Stale(f, p) == flags[p] # None /\ flags[p] < f.era /\ ~missed

(* state.reset(): PIN flags, response buffer. *)
ResetState == flags' = NoFlags /\ rest' = None

-----------------------------------------------------------------------------
(* handle_apdu over the vault backend *)

Verify(f, ok) ==
    /\ f.cmd.op = "VERIFY"
    /\ IF ok THEN Say(f, "ok") /\ flags' = [flags EXCEPT ![f.cmd.arg] = f.era]
             ELSE Say(f, "err") /\ UNCHANGED flags
    /\ UNCHANGED <<objects, rest, unsafe>>

(* handle_select, handle_manage_security_environment: no state that a later command reads. *)
Plain(f) ==
    /\ f.cmd.op \in {"SELECT", "MSE"}
    /\ Say(f, "ok")
    /\ UNCHANGED <<objects, card, unsafe>>

PutData(f, ok) ==
    /\ f.cmd.op = "PUT"
    /\ IF flags["Admin"] # None /\ ok /\ f.cmd.val # "p512" /\ Place(f.cmd.arg) # 0
       THEN PutObject(f.cmd.arg, f.cmd.val) /\ Say(f, "ok") /\ UNCHANGED card
       ELSE Refuse(f)
    /\ unsafe' = (unsafe \/ Stale(f, "Admin"))

(* handle_get_data, handle_get_challenge; READKEY is GENERATE with P1 = 81. *)
GetData(f) ==
    /\ f.cmd.op \in {"GET", "CHALLENGE", "READKEY"}
    /\ IF f.cmd.op = "READKEY" /\ ~Usable(f.cmd.arg)
       THEN Refuse(f)
       ELSE Chunk(f) /\ UNCHANGED <<objects, flags>>
    /\ UNCHANGED unsafe

(* handle_pso, 9E 9A: sign, count, consume the flag, answer. *)
Sign(f, ok) ==
    /\ f.cmd.op = "SIGN"
    /\ IF flags["Sign"] # None /\ Usable("SIG")
       THEN /\ CountSignature(ok)
            /\ IF ok THEN Chunk(f) /\ flags' = [flags EXCEPT !["Sign"] = None]
                     ELSE Say(f, "err") /\ UNCHANGED card
       ELSE Refuse(f)
    /\ unsafe' = (unsafe \/ Stale(f, "Sign"))

(* handle_pso, 80 86, and handle_internal_auth *)
UseKey(f) ==
    /\ f.cmd.op \in {"DECIPHER", "AUTH"}
    /\ IF flags["Other"] # None /\ Usable(IF f.cmd.op = "AUTH" THEN "AUT" ELSE "DEC")
       THEN Chunk(f) /\ UNCHANGED <<objects, flags>>
       ELSE Refuse(f)
    /\ unsafe' = (unsafe \/ Stale(f, "Other"))

Generate(f, ok) ==
    /\ f.cmd.op = "GENERATE"
    /\ IF flags["Admin"] # None /\ ok /\ Form(f.cmd.arg, Attributes(f.cmd.arg)) # None
       THEN /\ \E k \in Keys : MakeKey(f.cmd.arg, k)
            /\ Chunk(f) /\ UNCHANGED flags
       ELSE Refuse(f)
    /\ unsafe' = (unsafe \/ Stale(f, "Admin"))

(* Mutant: the buffer is kept once its last part is out. *)
GetResponseKeeps(f) ==
    /\ f.cmd.op = "RESPONSE"
    /\ IF rest = None THEN Say(f, "err") /\ UNCHANGED rest
       ELSE LET left0 == rest.len - rest.at
                take  == IF left0 <= f.cmd.le THEN left0 ELSE f.cmd.le
            IN  /\ ans' = Answer(f, "ok", [of |-> rest.of, from |-> rest.at, to |-> rest.at + take,
                                           more |-> left0 > take])
                /\ rest' = [rest EXCEPT !.at = @ + take]
    /\ UNCHANGED <<objects, flags, unsafe>>

(* handle_get_response *)
GetResponse(f) ==
    /\ f.cmd.op = "RESPONSE"
    /\ IF rest = None THEN Say(f, "err") /\ UNCHANGED rest
       ELSE LET left0 == rest.len - rest.at
                take  == IF left0 <= f.cmd.le THEN left0 ELSE f.cmd.le
            IN  /\ ans' = Answer(f, "ok", [of |-> rest.of, from |-> rest.at, to |-> rest.at + take,
                                           more |-> left0 > take])
                /\ rest' = IF left0 > take THEN [rest EXCEPT !.at = @ + take] ELSE None
    /\ UNCHANGED <<objects, flags, unsafe>>

VaultApdu(f, ok) ==
    \/ Verify(f, ok) \/ Plain(f) \/ PutData(f, ok) \/ GetData(f) \/ Sign(f, ok)
    \/ UseKey(f) \/ Generate(f, ok) \/ GetResponse(f)

(* DabaoBringupBackend: SELECT, MSE and GET DATA are answered, the rest refused. *)
StubApdu(f) ==
    /\ IF f.cmd.op = "GET" THEN Chunk(f) /\ UNCHANGED <<objects, flags>>
       ELSE IF f.cmd.op \in {"SELECT", "MSE"} THEN Say(f, "ok") /\ UNCHANGED <<objects, card>>
       ELSE Refuse(f)
    /\ UNCHANGED unsafe

(* handle_ccid; a message that does not parse (BAD) never comes here. *)
Handle(f, ok) ==
    CASE f.cmd.op \in {"POWERON", "STATUS"} -> Say(f, "ok") /\ UNCHANGED <<objects, card, unsafe>>
      [] f.cmd.op \in {"POWEROFF", "ABORT"} -> Say(f, "ok") /\ ResetState /\ UNCHANGED <<objects, unsafe>>
      [] f.cmd.op = "BADAPDU" -> Refuse(f) /\ UNCHANGED unsafe
      [] OTHER -> IF backend = "stub" THEN StubApdu(f) ELSE VaultApdu(f, ok)

-----------------------------------------------------------------------------
(* The host *)

FramePackets(f) == IF f.cmd.op \in {"VERIFY", "PUT", "SIGN", "DECIPHER", "AUTH"} THEN 2 ELSE 1

(* PcToRdr::answered_inline_by_usb_bao1x *)
Inline(f) == f.cmd.op \in {"POWERON", "STATUS"}

HostSend(c) ==
    LET f == [cmd |-> c, seq |-> seq, era |-> era]
    IN  /\ link = "up" /\ Up /\ sent < MaxCommands
        /\ host.st = "idle" \/ (host.st = "recover" /\ c.op \in {"POWEROFF", "ABORT"})
        /\ seq' = seq + 1 /\ sent' = sent + 1
        /\ host' = [st |-> "waiting", frame |-> f, sent |-> 0]
        /\ inbox' = IF via = "class" THEN inbox ELSE Append(inbox, f)
        /\ have' = IF c.op = "RESPONSE" THEN have ELSE None
        /\ lost' = FALSE
        /\ UNCHANGED <<objects, via, boot, backend, card, rx, ans, left, link, last, loop, era,
                       missed, unsafe, gap>>

(* A chunk of another enumeration, or not the next of the data being collected. *)
Misplaced(c) ==
    \/ c.of[1] # era
    \/ have # None /\ c.from # 0 /\ have # [of |-> c.of, to |-> c.from]

(* An answer reaches the driver, which keeps chained data in order. *)
Deliver(a) ==
    IF host.st = "waiting" /\ a.seq = host.frame.seq
    THEN /\ host' = [Idle EXCEPT !.frame = [own |-> a.of = Id(host.frame)]]
         /\ IF a.chunk = None THEN UNCHANGED <<have, gap>>
            ELSE /\ have' = IF a.chunk.more THEN [of |-> a.chunk.of, to |-> a.chunk.to] ELSE None
                 /\ gap' = (gap \/ (~missed /\ Misplaced(a.chunk)))
    ELSE UNCHANGED <<host, have, gap>>

(* usb-bao1x answers these itself, in its interrupt handler (external). *)
InlineAnswer ==
    /\ via # "class" /\ link = "up"
    /\ host.st = "waiting" /\ Inline(host.frame)
    /\ Deliver(Answer(host.frame, "ok", None))
    /\ UNCHANGED <<objects, via, boot, backend, card, rx, ans, left, link, last, loop, inbox, era, seq, sent,
                   missed, lost, unsafe>>

(* The driver stops waiting. *)
HostGivesUp ==
    /\ host.st = "waiting"
    /\ host' = [Idle EXCEPT !.st = IF via = "class" THEN "reset" ELSE "recover"]
    /\ have' = None
    /\ UNCHANGED <<objects, via, boot, backend, card, rx, ans, left, link, last, loop, inbox, era, seq, sent,
                   missed, lost, unsafe, gap>>

-----------------------------------------------------------------------------
(* CcidClass *)

(* A message that does not parse is answered with sequence number 0, whatever its own. *)
Malformed(f) ==
    /\ ans' = [Answer(f, "err", None) EXCEPT !.seq = 0]
    /\ UNCHANGED <<objects, card, unsafe>>

(* Mutant: the opcodes usb-bao1x answers are skipped here too. *)
DispatchSkipsInline(f, ok) ==
    IF Inline(f) THEN UNCHANGED <<objects, card, ans, left, unsafe>>
    ELSE /\ IF f.cmd.op = "BAD" THEN Malformed(f) ELSE Handle(f, ok)
         /\ left' = Packets(ans')

(* try_dispatch on a whole frame: every message that parses is handled, whatever its opcode. *)
Dispatch(f, ok) ==
    /\ IF f.cmd.op = "BAD" THEN Malformed(f) ELSE Handle(f, ok)
    /\ left' = Packets(ans')

(* endpoint_out, push_out_bytes, try_dispatch: one packet arrives. *)
PushOut(ok) ==
    LET f    == host.frame
        buf  == Append(rx, f)
        need == FramePackets(Head(buf))
    IN  /\ via = "class" /\ Up /\ host.st = "waiting" /\ host.sent < FramePackets(f)
        /\ host' = [host EXCEPT !.sent = @ + 1]
        /\ IF Len(buf) < need
           THEN rx' = buf /\ UNCHANGED <<objects, card, ans, left, unsafe>>
           ELSE /\ rx' = SubSeq(buf, need + 1, Len(buf))
                /\ IF \A i \in 1..need : buf[i] = buf[1]
                   THEN Dispatch(buf[1], ok)
                   ELSE Malformed(f) /\ left' = 1
        /\ UNCHANGED <<via, boot, backend, link, last, loop, inbox, era, seq, sent, have, missed, lost, gap>>

(* poll: poll_bulk_in_inner writes one packet; any error but WouldBlock drops the answer. *)
PollIn(ok) ==
    /\ via = "class" /\ ans # None
    /\ IF ok /\ left > 1 THEN left' = left - 1 /\ UNCHANGED <<ans, host, have, gap>>
       ELSE /\ ans' = None /\ left' = 0
            /\ IF ok THEN Deliver(ans) ELSE UNCHANGED <<host, have, gap>>
    /\ lost' = (lost \/ ~ok)
    /\ UNCHANGED <<objects, via, boot, backend, card, rx, link, last, loop, inbox, era, seq, sent, missed, unsafe>>

(* Mutants: the answer being sent, or the rest of a chained one, survives a reset. *)
ResetKeepsAnswer == UNCHANGED <<rx, ans, left>> /\ ResetState

ResetKeepsRest == rx' = <<>> /\ ans' = None /\ left' = 0 /\ flags' = NoFlags /\ UNCHANGED rest

(* CcidProtocolState::reset *)
ProtocolReset == rx' = <<>> /\ ans' = None /\ left' = 0 /\ ResetState

(* USB bus reset under CcidClass *)
BusReset ==
    /\ via = "class" /\ Up /\ era < MaxEra
    /\ ProtocolReset
    /\ era' = era + 1 /\ seq' = 0 /\ host' = Idle /\ have' = None
    /\ UNCHANGED <<sent, objects, via, boot, backend, link, last, loop, inbox, missed, lost, unsafe, gap>>

-----------------------------------------------------------------------------
(* The service loop: ccid_dispatch_one *)

(* Mutant: last_link is updated, nothing is reset. *)
PollForgets ==
    /\ via # "class" /\ Up /\ loop = "poll" /\ loop' = "wait" /\ last' = link
    /\ UNCHANGED <<objects, via, boot, backend, card, rx, ans, left, link, inbox, host, era, seq, sent, hist>>

(* usb_link_status, on_usb_reset on a change away from Configured *)
Poll ==
    /\ via # "class" /\ Up /\ loop = "poll" /\ loop' = "wait" /\ last' = link
    /\ IF link # last /\ link # "up" THEN ResetState ELSE UNCHANGED card
    /\ UNCHANGED <<objects, via, boot, backend, rx, ans, left, link, inbox, host, era, seq, sent, hist>>

(* ccid_rx_deferred returns a frame; one that does not parse is answered under its own number. *)
Take(ok) ==
    LET f == Head(inbox)
    IN  /\ loop = "wait" /\ inbox # <<>> /\ inbox' = Tail(inbox)
        /\ IF Inline(f)
           THEN loop' = "poll" /\ UNCHANGED <<objects, card, ans, left, unsafe>>
           ELSE /\ loop' = "tx" /\ left' = 0
                /\ IF f.cmd.op = "BAD" THEN Refuse(f) /\ UNCHANGED unsafe ELSE Handle(f, ok)
        /\ UNCHANGED <<via, boot, backend, rx, link, last, host, era, seq, sent, have, missed, lost, gap>>

(* ccid_rx_deferred fails (Hangup, Denied). *)
WaitFails ==
    /\ loop = "wait" /\ link = "down"
    /\ loop' = "poll" /\ ResetState
    /\ UNCHANGED <<objects, via, boot, backend, rx, ans, left, link, last, inbox, host, era, seq, sent, hist>>

(* ccid_tx; a failure resets the session. *)
Transmit(ok) ==
    /\ loop = "tx" /\ loop' = "poll" /\ ans' = None
    /\ IF ok /\ link = "up" THEN Deliver(ans) /\ UNCHANGED card
       ELSE ResetState /\ UNCHANGED <<host, have, gap>>
    /\ lost' = (lost \/ ~ok)
    /\ UNCHANGED <<objects, via, boot, backend, rx, left, link, last, inbox, era, seq, sent, missed, unsafe>>

(* The cable is pulled or the host resets the port; usb-bao1x may keep its queue (external). *)
LinkDown ==
    /\ via # "class" /\ link = "up" /\ era < MaxEra
    /\ link' = "down" /\ era' = era + 1 /\ seq' = 0
    /\ host' = Idle /\ have' = None
    /\ inbox' \in {inbox, <<>>}
    /\ missed' = (missed \/ inbox' # <<>> \/ last = "down")
    /\ UNCHANGED <<sent, objects, via, boot, backend, card, rx, ans, left, last, loop, lost, unsafe, gap>>

LinkUp ==
    /\ link = "down" /\ link' = "up"
    /\ missed' = (missed \/ last = "up")
    /\ UNCHANGED <<objects, via, boot, backend, card, rx, ans, left, last, loop, inbox, host, era, seq, sent,
                   have, lost, unsafe, gap>>

-----------------------------------------------------------------------------
PowerCut ==
    /\ era < MaxEra /\ era' = era + 1 /\ seq' = 0
    /\ ForgetRam
    /\ boot' = 1 /\ backend' = IF via = "dabao" THEN "stub" ELSE "vault"
    /\ ResetState
    /\ rx' = <<>> /\ ans' = None /\ left' = 0 /\ link' = "up" /\ last' = "up" /\ loop' = "poll"
    /\ inbox' = <<>> /\ host' = Idle /\ have' = None /\ missed' = FALSE
    /\ lost' = FALSE
    /\ UNCHANGED <<sent, via, unsafe, gap>>

Device ==
    \/ BootHeader \/ BootDefault \/ BootKeys \/ Switch
    \/ InlineAnswer \/ Poll
    \/ \E ok \in BOOLEAN : PushOut(ok) \/ PollIn(ok) \/ Take(ok) \/ Transmit(ok)
    \/ WaitFails

Next ==
    \/ Device
    \/ \E c \in Commands : HostSend(c)
    \/ HostGivesUp \/ BusReset \/ LinkDown \/ LinkUp \/ PowerCut

(* The service process and the interrupt handler run; the host may do nothing. *)
Spec == Init /\ [][Next]_vars /\ WF_vars(Device)

-----------------------------------------------------------------------------
(* Properties. *)

(* Types of what is on the wire. *)
Ids     == (1..MaxEra) \X Nat
Frame   == [cmd : Commands, seq : Nat, era : 1..MaxEra]
Answers == [seq : Nat, of : Ids, kind : {"ok", "err"}, chunk : Chunks \cup {None}]
Rest    == [of : Ids, at : Nat, len : Nat]
Flags   == [Purposes -> 1..MaxEra \cup {None}]
Waiting == [st : {"waiting"}, frame : Frame, sent : 0..2]
Hosts   == Waiting
           \cup [st : {"idle"}, frame : [own : BOOLEAN] \cup {None}, sent : {0}]
           \cup [st : {"reset", "recover"}, frame : {None}, sent : {0}]
Blobs   == [key : Keys, alg : Algs] \cup {None}
RamKeys == [key : Keys, form : {"Brainpool", "Ed25519", "X25519"}] \cup {None}

(* A tag and what may be stored under it: nothing in an empty slot, a default, *)
(* the low bits of the signature counter in 93, or what a PUT DATA names.      *)
Holds(t, v) ==
    \/ t = "00" /\ v = None
    \/ <<t, v>> \in Range(Defaults)
    \/ t = "93" /\ v \in 0..(CounterMod - 1)
    \/ \E c \in Commands : c.op = "PUT" /\ c.arg = t /\ c.val = v

ObjectsTypeOK ==
    /\ header \in BOOLEAN /\ sigCounter \in Nat /\ fit \subseteq KeySlot
    /\ Len(slots) = SlotCount
    /\ \A i \in 1..SlotCount : Holds(slots[i].tag, slots[i].val)
    /\ \A t \in DOMAIN wrote : Holds(t, wrote[t])
    /\ blob \in [KeySlot -> Blobs] /\ keyRam \in [KeySlot -> RamKeys]

DispatcherTypeOK ==
    /\ via \in Vias /\ boot \in 1..8 /\ backend \in {"stub", "vault"}
    /\ flags \in Flags
    /\ rest \in Rest \cup {None} /\ (rest # None => rest.at < rest.len)

WireTypeOK ==
    /\ rx \in Seq(Frame) /\ Len(rx) < 2
    /\ inbox \in Seq(Frame) /\ Len(inbox) <= sent
    /\ ans \in Answers \cup {None} /\ left \in 0..2
    /\ link \in {"up", "down"} /\ last \in {"up", "down"} /\ loop \in {"poll", "wait", "tx"}
    /\ host \in Hosts /\ have \in [of : Ids, to : Nat] \cup {None}
    /\ era \in 1..MaxEra /\ sent \in 0..MaxCommands /\ seq \in 0..sent
    /\ missed \in BOOLEAN /\ lost \in BOOLEAN /\ unsafe \in BOOLEAN /\ gap \in BOOLEAN

(* Every variable keeps its type.  Besides the sets: the DO region keeps    *)
(* its size and holds under each tag only what the firmware or a PUT DATA   *)
(* puts there, response_buffer is never used up, the receive buffer holds   *)
(* less than a frame between two packets, and the queue of usb-bao1x no     *)
(* more frames than the host sent.                                          *)
CardTypeOK == ObjectsTypeOK /\ DispatcherTypeOK /\ WireTypeOK

(* DoStore behaves as a map: an object reads as the value last stored under *)
(* its tag, through replacements, a full region, failed writes and power    *)
(* cuts during seeding.  Tag 0000 marks an empty slot and is not an object. *)
ReadsLastWritten ==
    \A t \in DOMAIN wrote \ {"00"} : Read(t) = wrote[t]

(* load_private_keys: when a slot's attributes name the algorithm its key   *)
(* was made for, the key loads as the stored one in that form, and stays    *)
(* so, before and after every power cut.  A PUT of the attributes reloads   *)
(* nothing: they count as they were when the key was made or loaded.        *)
KeysReload ==
    boot = 8 => \A s \in fit :
        keyRam[s] = [key |-> blob[s].key, form |-> Form(s, blob[s].alg)]

(* on_usb_reset and ccid_dispatch_one: no command runs under a VERIFY of an *)
(* earlier enumeration, unless the link changed twice between two polls or  *)
(* usb-bao1x handed on a frame of that enumeration.                         *)
FlagsOfThisEnumeration == ~unsafe

(* chunk_response, handle_get_response and CardState::reset: what GET       *)
(* RESPONSE yields continues, without gap or repetition, the answer the     *)
(* host is collecting, and is never the rest of an answer of an earlier     *)
(* enumeration, with the exception of FlagsOfThisEnumeration.               *)
ChainUnbroken == ~gap

(* The answer a driver accepts was computed for the command it waits on,    *)
(* not for one with the same number before a reset, a re-enumeration or a   *)
(* power cut, with the exception of FlagsOfThisEnumeration.                 *)
AnswersOwnCommand ==
    (host.st = "idle" /\ host.frame # None) => (host.frame.own \/ missed)

(* CcidClass answers a message it cannot parse with sequence number 0 *)
(* (usb_class.rs:103): the driver that sent it under another number     *)
(* ignores that answer.                                                 *)
Unheard ==
    via = "class" /\ host.st = "waiting" /\ host.frame.cmd.op = "BAD" /\ host.frame.seq # 0

(* Every command is answered, unless the driver stops waiting, the link or  *)
(* power goes, the answer itself is lost, or it is the answer to a message  *)
(* that CcidClass does not parse, which the driver does not take for its    *)
(* own.  The service loop answers those under their own number.             *)
CommandAnswered ==
    (host.st = "waiting") ~> (host.st # "waiting" \/ lost \/ Unheard)
=============================================================================
