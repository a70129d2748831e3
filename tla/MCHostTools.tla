---------------------------- MODULE MCHostTools ----------------------------
(* Small instances of the four command groups for TLC. *)
EXTENDS HostTools, Bitwise

CONSTANTS ia, ib, ic, p1, p2, p3, p4, s1, s2, r1, r2

(* Offers: installation ia trusts ib, ib does not trust ia; ia has two     *)
(* processes.  Two files come from elsewhere, one of a newer schema, one   *)
(* marked as consumed.                                                     *)
MCInstalls == {ia, ib}
MCEpkProcs == {p1, p2, p3}
MCHomeOf == [p \in MCEpkProcs |-> IF p = p3 THEN ib ELSE ia]
MCKeyring == [h \in MCInstalls |-> IF h = ia THEN {ia, ib} ELSE {ib}]
MCReceived ==
    {[sid |-> s2, fp |-> ib, signer |-> ib, to |-> {ia}, expires |-> 1, schema |-> 2, consumed |-> FALSE],
     [sid |-> s2, fp |-> ib, signer |-> ib, to |-> {ia}, expires |-> 1, schema |-> 1, consumed |-> TRUE]}

(* Mail: station ia has two processes, one the daemon; ib has an old row   *)
(* without the trailing flag, ic one of a removed curve.                   *)
MCStations == {ia, ib, ic}
MCMailProcs == {p1, p2, p3, p4}
MCStationOf == [p \in MCMailProcs |-> CASE p = p3 -> ib [] p = p4 -> ic [] OTHER -> ia]
OldRow(layers, curve) == [layers |-> layers, curve |-> curve, flag |-> "absent"]
MCOldRows ==
    [s \in MCStations |->
        CASE s = ia -> <<>>
          [] s = ib -> "p" :> OldRow(<<"chacha">>, "brainpoolP256r1")
          [] s = ic -> "old" :> OldRow(<<"aes">>, "brainpoolP512r1")]
NewProfile(name, layers, ecdh) == [name |-> name, layers |-> layers, ecdh |-> ecdh]
MCNewProfiles ==
    {NewProfile("p", <<"chacha">>, TRUE), NewProfile("p", <<"serpent", "chacha">>, FALSE),
     NewProfile("high-assurance", <<"aes">>, TRUE), NewProfile("q", <<"aes", "aes">>, TRUE)}
Request(name, k, len, to, strict) ==
    [name |-> name, k |-> k, nonce |-> k # "none", len |-> len, to |-> to, strict |-> strict,
     card |-> TRUE, emit |-> FALSE, sign |-> FALSE]
MCRequests ==
    {Request("p", "none", 100, {r1}, TRUE), Request("high-assurance", "none", 100, {r1}, TRUE),
     Request("p", "k1", 100, {r1}, TRUE), Request("conservative", "k1", 8144, {r1}, TRUE),
     Request("conservative", "none", 8145, {r1}, TRUE),
     Request("standard", "none", 8192, {r1, r2}, FALSE),
     Request("standard", "none", 8193, {r1, r2}, TRUE),
     [Request("p", "none", 100, {r1}, TRUE) EXCEPT !.card = FALSE],
     [Request("standard", "none", 100, {r1}, TRUE) EXCEPT !.emit = TRUE],
     [Request("standard", "none", 100, {r1}, TRUE) EXCEPT !.sign = TRUE]}
MCForeign == {[id |-> -1, form |-> "raw", k |-> "none", env |-> <<>>, to |-> {r1}, layers |-> <<>>]}

(* Registry: sections with and without failover, too many nodes, a blank   *)
(* node, a disabled section and the older single url.                      *)
Section(nodes, url, enabled, failover) ==
    [nodes |-> nodes, url |-> url, enabled |-> enabled, failover |-> failover]
MCSections ==
    {Section(<<>>, "n1", TRUE, TRUE), Section(<<"n1", "n2">>, "", TRUE, TRUE),
     Section(<<"n1", "n2", "n3">>, "", TRUE, TRUE), Section(<<"n2", "n1">>, "", TRUE, FALSE),
     Section(<<"n2", "">>, "", TRUE, TRUE), Section(<<"n2">>, "", FALSE, TRUE),
     Section(<<"n1", "n2", "n3", "n1">>, "", TRUE, TRUE)}
PushArg(dmrId, email, dryRun, fixture) ==
    [dmrId |-> dmrId, email |-> email, dryRun |-> dryRun, fixture |-> fixture]
MCPushArgs ==
    {PushArg(NoDmrId, "", FALSE, FALSE), PushArg(0, "x", FALSE, FALSE),
     PushArg(DmrIdMax, "x", FALSE, FALSE), PushArg(DmrIdMax + 1, "x", FALSE, FALSE),
     PushArg(1, "y", TRUE, TRUE), PushArg(1, "x", FALSE, TRUE)}
MCHkpLists ==
    {<<>>, <<<<"h1", FALSE>>>>, <<<<"h1", FALSE>>, <<"h2", TRUE>>>>,
     <<<<"h1", FALSE>>, <<"h3", FALSE>>>>}

(* Shamir: the field of four elements, so that a list of four shares wraps; *)
(* parameters that split and parameters that are refused; a share text     *)
(* without Threshold.                                                      *)
Elements == 0..3
Power == <<1, 2, 3>>
Log(a) == CHOOSE i \in DOMAIN Power : Power[i] = a
MCGfAdd == [a, b \in Elements |-> a ^^ b]
MCGfMul == [a, b \in Elements |->
              IF a = 0 \/ b = 0 THEN 0 ELSE Power[((Log(a) + Log(b) - 2) % 3) + 1]]
Plan(k, n) == [k |-> k, n |-> n]
MCPlans == {Plan(2, 3), Plan(3, 3), Plan(2, 1), Plan(3, 2)}
MCHandmade == {[split |-> 0, k |-> 0, n |-> 3, index |-> 2, value |-> 1]}
=============================================================================
