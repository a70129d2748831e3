---------------------------- MODULE RegistryClient ----------------------------
(***************************************************************************)
(* `galdra keyserver push` and `fetch` against the nodes of an HTTP        *)
(* registry, and the HKP search of `contact fetch`: each asks a list of    *)
(* servers in turn.  The servers and the network are outside; a reply may  *)
(* be lost after the server acted on the request.                          *)
(***************************************************************************)
EXTENDS Integers, Sequences, FiniteSets

CONSTANTS
    Registries,     \* base URLs of registry nodes
    NoUrl,          \* a blank URL, region or node id
    Sections,       \* [keyserver] sections a configuration may have
    MaxNodes,       \* MAX_REGISTRY_NODES, 14 in the code
    Addresses,      \* e-mail addresses
    NoAddress,      \* --email missing or blank
    TokenCerts,     \* per connected token: the addresses on its certificate
    PushArgs,       \* the other arguments of push: dmrId, email, dryRun, fixture
    HkpLists,       \* [keyservers] lists: sequences of <<server, plain http?>>
    StatusCodes,    \* HTTP status codes a node may answer with
    MaxCalls        \* bound on the commands started

DmrIdMax == 16777215
NoDmrId == -1

ASSUME RegistryAssumption ==
    /\ NoUrl \notin Registries /\ NoAddress \notin Addresses
    /\ TokenCerts \subseteq SUBSET Addresses /\ MaxNodes \in Nat /\ MaxCalls \in Nat
    /\ \A s \in Sections : /\ s.nodes \in Seq(Registries \cup {NoUrl}) /\ s.url \in Registries \cup {NoUrl}
                          /\ s.enabled \in BOOLEAN /\ s.failover \in BOOLEAN
    /\ StatusCodes \subseteq Nat /\ \A l \in HkpLists : l \in Seq(STRING \X BOOLEAN)

VARIABLES
    held,           \* per node: the uploads it holds
    call,           \* the running command, or the last one
    calls           \* commands started

registryVars == <<held, call, calls>>

RegistryInit ==
    /\ held = [n \in Registries |-> {}]
    /\ call = [at |-> "none"]
    /\ calls = 0

-----------------------------------------------------------------------------
Refused == [ok |-> FALSE, endpoints |-> <<>>, failover |-> FALSE]
Single(u) == [ok |-> TRUE, endpoints |-> <<u>>, failover |-> FALSE]

(* endpoints_from_config: the nodes, or the older url field without them. *)
Endpoints(s) == IF s.nodes = <<>> THEN <<s.url>> ELSE s.nodes

FromSection(s) ==
    LET e == Endpoints(s) IN
    IF s.enabled /\ (\A i \in DOMAIN e : e[i] # NoUrl) /\ Len(e) <= MaxNodes
    THEN [ok |-> TRUE, endpoints |-> e, failover |-> s.failover /\ Len(e) > 1]
    ELSE Refused

(* resolve_registry: --keyserver-url, the environment, the configuration *)
(* (a set of at most one section).                                       *)
Resolve(flag, env, section) ==
    CASE flag # NoUrl -> Single(flag)
      [] flag = NoUrl /\ env # NoUrl -> Single(env)
      [] flag = NoUrl /\ env = NoUrl /\ section = {} -> Refused
      [] OTHER -> FromSection(CHOOSE s \in section : TRUE)

(* PushPayload: the address sent with the certificate, and those on it. *)
Uploads == [id : 0..MaxCalls, email : Addresses, on : TokenCerts]

(* What the flag, the environment and the configuration may come to. *)
Resolutions == {Resolve(f, e, s) : f \in Registries \cup {NoUrl}, e \in Registries \cup {NoUrl},
                                   s \in {{}} \cup {{t} : t \in Sections}}

DmrIdOk(d) == d = NoDmrId \/ d \in 1..DmrIdMax

(* resolve_email_for_push; NoAddress stands for the error. *)
EmailFor(emails, given) ==
    IF given # NoAddress
    THEN IF given \in emails THEN given ELSE NoAddress
    ELSE IF Cardinality(emails) = 1 THEN CHOOSE e \in emails : TRUE ELSE NoAddress

-----------------------------------------------------------------------------
Ready == call.at # "ask" /\ calls < MaxCalls

Ask(op, what, r) ==
    [at |-> "ask", op |-> op, what |-> what, endpoints |-> r.endpoints,
     failover |-> r.failover, asked |-> <<>>, out |-> "none"]

Finish(out) == call' = [call EXCEPT !.at = "done", !.out = out]

(* run_push up to the loop.  A dry run prints the body and sends nothing;  *)
(* --fixture-armored-key goes only with it; otherwise the token is needed. *)
StartPush ==
    /\ Ready /\ calls' = calls + 1
    /\ \E a \in PushArgs, r \in Resolutions, emails \in TokenCerts, connected \in BOOLEAN :
         LET upload == [id |-> calls, email |-> EmailFor(emails, a.email), on |-> emails] IN
         call' = IF DmrIdOk(a.dmrId) /\ r.ok /\ ~a.dryRun /\ ~a.fixture /\ connected
                    /\ upload.email # NoAddress
                 THEN Ask("push", upload, r) ELSE [at |-> "none"]
    /\ UNCHANGED held

(* run_fetch up to the loop: a fingerprint or address, and an output mode. *)
StartFetch ==
    /\ Ready /\ calls' = calls + 1
    /\ \E r \in Resolutions, id \in 0..(MaxCalls - 1), argumentsOk \in BOOLEAN :
         call' = IF argumentsOk /\ r.ok THEN Ask("fetch", id, r) ELSE [at |-> "none"]
    /\ UNCHANGED held

Wkd == <<<<"wkd", FALSE>>>>

(* keyserver_fetch tries every server of the list, wkd_fetch has only one. *)
StartHkp ==
    /\ Ready /\ calls' = calls + 1
    /\ \E l \in HkpLists \cup {Wkd} :
         call' = IF l = <<>> THEN [at |-> "none"]
                 ELSE Ask("hkp", 0, [endpoints |-> l, failover |-> TRUE])
    /\ UNCHANGED held

-----------------------------------------------------------------------------
Lost == 0       \* no response: send() failed or timed out

(* should_failover_after_http *)
GatewayStatus(code) == code \in {429, 502, 503, 504}

(* Status and body of an answer; the body matters to the loops only when the *)
(* status is a success or when it cannot be read.                           *)
Answers(bodies) ==
    {<<Lost, "none">>} \cup ({200} \X (bodies \cup {"not_json", "unreadable"}))
      \cup ((StatusCodes \ {200}) \X {"text", "unreadable"})

(* What a node may do with an upload it answers like this. *)
MayHold(code, body) ==
    CASE code = 200 /\ body \in {"accepted", "pending_confirmation"} -> {TRUE}
      [] (code = 200 /\ body \in {"unreadable", "not_json", "other"}) \/ code \in {Lost, 500, 502, 504}
            -> BOOLEAN
      [] OTHER -> {FALSE}

Node == call.endpoints[Len(call.asked) + 1]
More == call.failover /\ Len(call.asked) + 1 < Len(call.endpoints)

Answered(answer) == [call EXCEPT !.asked = Append(@, answer)]
Ends(answer, out) == call' = [Answered(answer) EXCEPT !.at = "done", !.out = out]

(* Mutant: an answer that cannot be read counts as no answer. *)
GoesOnUnread(code, body) ==
    (code = Lost \/ GatewayStatus(code) \/ body \in {"unreadable", "not_json"}) /\ More

(* Both loops: no response or a gateway error lead to the next node. *)
GoesOn(code, body) == (code = Lost \/ (GatewayStatus(code) /\ body # "unreadable")) /\ More

(* One turn of run_push's loop with the node's answer. *)
PushTo ==
    /\ call.at = "ask" /\ call.op = "push"
    /\ \E a \in Answers({"accepted", "pending_confirmation", "error", "other"}) :
         LET code == a[1]  body == a[2] IN
         /\ \E keeps \in MayHold(code, body) :
              held' = IF keeps THEN [held EXCEPT ![Node] = @ \cup {call.what}] ELSE held
         /\ IF GoesOn(code, body) THEN call' = Answered(<<Node, code, body>>)
            ELSE Ends(<<Node, code, body>>,
                      IF code = 200 /\ body \in {"accepted", "pending_confirmation"}
                      THEN "uploaded" ELSE "failed")
    /\ UNCHANGED calls

(* One turn of run_fetch's loop; 404 and an empty list say "no key found", *)
(* and what was found may still not be written to --save.                  *)
FetchFrom ==
    /\ call.at = "ask" /\ call.op = "fetch"
    /\ \E a \in Answers({"records", "empty"}), saved \in BOOLEAN :
         LET code == a[1]  body == a[2] IN
         /\ (code = 200 /\ body = "records") => \E u \in held[Node] : u.id = call.what
         /\ (code = 404 \/ (code = 200 /\ body = "empty")) => \A u \in held[Node] : u.id # call.what
         /\ IF GoesOn(code, body) THEN call' = Answered(<<Node, code, body>>)
            ELSE Ends(<<Node, code, body>>,
                      CASE body = "unreadable" \/ code = Lost -> "failed"
                        [] code = 404 \/ (code = 200 /\ body = "empty") -> "not_found"
                        [] code = 200 /\ body = "records" /\ saved -> "found"
                        [] OTHER -> "failed")
    /\ UNCHANGED <<held, calls>>

(* One turn of keyserver_fetch's loop; plain http is refused when reached. *)
SearchHkp ==
    /\ call.at = "ask" /\ call.op = "hkp"
    /\ \E answer \in {"certs", "bad_cert", "empty", "error", "timeout"} :
         LET a == <<Node, answer>> IN
         IF Node[2] \/ answer = "bad_cert" THEN Ends(a, "failed")
         ELSE IF answer = "certs" THEN Ends(a, "found")
         ELSE IF More THEN call' = Answered(a) ELSE Ends(a, "failed")
    /\ UNCHANGED <<held, calls>>

ClientKilled ==
    /\ call.at = "ask" /\ Finish("killed")
    /\ UNCHANGED <<held, calls>>

RegistryNext ==
    \/ StartPush \/ StartFetch \/ StartHkp
    \/ PushTo \/ FetchFrom \/ SearchHkp \/ ClientKilled

RegistrySpec == RegistryInit /\ [][RegistryNext]_registryVars

-----------------------------------------------------------------------------
RegistryTypeOK ==
    /\ held \in [Registries -> SUBSET Uploads]
    /\ call.at \in {"none", "ask", "done"} /\ calls \in 0..MaxCalls
    /\ call.at = "ask" => Len(call.asked) < Len(call.endpoints)

HoldersOf(u) == {n \in Registries : u \in held[n]}

(* Answers after which the loops try the next node. *)
Undecided(a) == a[2] = Lost \/ (GatewayStatus(a[2]) /\ a[3] # "unreadable")

(* A push that reports success left the upload at the node it asked last,  *)
(* under an address of its own certificate.  No other node holds it, save  *)
(* one asked earlier whose reply was lost or came from a gateway: a node   *)
(* that answered, even unreadably, is the last one asked.  A failure is    *)
(* reported only after an answer or when no node of the list is left.      *)
UploadedOnce ==
    /\ \A n \in Registries : \A u \in held[n] : u.email \in u.on
    /\ call.at = "done" /\ call.op = "push" /\ call.asked # <<>> =>
         LET k == Len(call.asked)
             unsure == {call.asked[i][1] : i \in {j \in 1..(k - 1) : Undecided(call.asked[j])}} IN
         /\ HoldersOf(call.what) \subseteq unsure \cup {call.asked[k][1]}
         /\ call.out = "uploaded" => call.asked[k][1] \in HoldersOf(call.what)
         /\ call.out = "failed" /\ call.failover /\ Undecided(call.asked[k])
              => k = Len(call.endpoints)
=============================================================================
