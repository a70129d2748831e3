----------------------- MODULE EphemeralSessionProofs -----------------------
(***************************************************************************)
(* What the ephemeral handshake promises, for every set of nodes, number   *)
(* of key pairs, size of the trust store and kind of damage: agreed keys   *)
(* have a matching peer, no ephemeral key is used twice, and the handshake *)
(* implements KeyAgreement.                                                *)
(***************************************************************************)
EXTENDS EphemeralSession, TLAPS

(* Every message names a key pair drawn earlier, damaged or not; a response *)
(* stands for a responder that holds the session keys it offers.            *)
NetInv ==
    \A m \in net :
        /\ m.epk \in 1..drawn
        /\ IsResponse(m) => \E e \in Responders :
                               e.node = m.from /\ e.own = m.epk /\ e.other = m.echo

(* A key pair appears in the InitMessages of one node only. *)
OwnerInv ==
    \A m, k \in net : IsInit(m) /\ IsInit(k) /\ m.epk = k.epk => m.from = k.from

(* A session in progress has sent its InitMessage, has not used its key     *)
(* pair, and shares it with no other session.                               *)
WaitingInv ==
    \A n \in Nodes : ini[n].st = "Initialised" =>
        /\ uses[ini[n].epk] = 0
        /\ \E m \in net : IsInit(m) /\ m.from = n /\ m.epk = ini[n].epk
        /\ \A p \in Nodes : p # n /\ ini[p].st = "Initialised" => ini[p].epk # ini[n].epk

(* Session keys are derived from the two key pairs; a responder answered an *)
(* InitMessage of its peer.                                                 *)
EndsInv ==
    \A e \in ends :
        /\ e = End(e.node, e.role, e.peer, e.own, e.other)
        /\ e.own \in 1..drawn /\ e.other \in 1..drawn
        /\ e.role \in {"initiator", "responder"}
        /\ uses[e.own] >= 1
        /\ e.role = "responder" =>
              \E m \in net : IsInit(m) /\ m.from = e.peer /\ m.epk = e.other

(* A key pair not drawn yet is unused. *)
UsesInv == EphemeralOnce /\ \A i \in Eph : i > drawn => uses[i] = 0

IInv ==
    /\ SessionTypeOK /\ NetInv /\ OwnerInv /\ WaitingInv /\ EndsInv /\ UsesInv
    /\ PeerHoldsKeys

-----------------------------------------------------------------------------
(* Both sides derive the same keys: the salt does not depend on the side.   *)
LEMMA KeysSymmetric == \A i, r \in Eph : Keys(i, r) = Keys(r, i)
BY SessionAssumption DEF Keys, Prk, Eph

(* An end keeps what it was made of. *)
LEMMA EndFields ==
    ASSUME NEW n, NEW role, NEW peer, NEW own, NEW other
    PROVE  LET e == End(n, role, peer, own, other)
           IN  /\ e.node = n /\ e.role = role /\ e.peer = peer /\ e.own = own
               /\ e.other = other /\ e.keys = Keys(own, other)
BY DEF End

(* The initial state satisfies IInv. *)
LEMMA InitIInv == Init => IInv
<1>. SUFFICES ASSUME Init PROVE IInv
  OBVIOUS
<1>1. SessionTypeOK
  BY SessionAssumption DEF Init, SessionTypeOK, New, Session, Eph
<1>2. NetInv /\ OwnerInv /\ WaitingInv /\ EndsInv /\ PeerHoldsKeys
  BY DEF Init, NetInv, OwnerInv, WaitingInv, EndsInv, PeerHoldsKeys, New, Initiators
<1>3. UsesInv
  BY DEF Init, UsesInv, EphemeralOnce
<1>. QED BY <1>1, <1>2, <1>3 DEF IInv

(* The trust store keeps its capacity, and nothing else depends on it. *)
LEMMA TrustIInv ==
    ASSUME IInv, NEW n \in Nodes, NEW fp \in Nodes, TrustAdd(n, fp) \/ TrustRemove(n, fp)
    PROVE  IInv'
<1>1. UNCHANGED <<slot, ini, net, drawn, ends, uses, lost>>
  BY DEF TrustAdd, TrustRemove
<1>2. SessionTypeOK'
  <2>1. trust' \in [Nodes -> Seq(Nodes)] /\ \A p \in Nodes : Len(trust'[p]) <= TrustSlots
    <3>1. CASE TrustAdd(n, fp)
      BY <3>1, SessionAssumption DEF TrustAdd, IInv, SessionTypeOK
    <3>2. CASE TrustRemove(n, fp)
      <4>1. PICK k \in DOMAIN trust[n] :
              LET last == Len(trust[n])
                  held == [trust[n] EXCEPT ![k] = trust[n][last]]
              IN  trust' = [trust EXCEPT ![n] = SubSeq(held, 1, last - 1)]
        BY <3>2 DEF TrustRemove
      <4>. DEFINE s == trust[n]
                  last == Len(s)
                  held == [s EXCEPT ![k] = s[last]]
      <4>2. s \in Seq(Nodes) /\ last \in Nat \ {0} /\ last <= TrustSlots /\ k \in 1..last
        BY <4>1 DEF IInv, SessionTypeOK
      <4>3. held \in Seq(Nodes) /\ Len(held) = last
        BY <4>2
      <4>4. SubSeq(held, 1, last - 1) \in Seq(Nodes)
        BY <4>2, <4>3
      <4>5. Len(SubSeq(held, 1, last - 1)) <= TrustSlots
        BY <4>2, <4>3, SessionAssumption
      <4>. QED BY <4>1, <4>4, <4>5 DEF IInv, SessionTypeOK
    <3>. QED BY <3>1, <3>2
  <2>. QED BY <1>1, <2>1 DEF IInv, SessionTypeOK
<1>. QED
  BY <1>1, <1>2 DEF IInv, NetInv, OwnerInv, WaitingInv, EndsInv, UsesInv, EphemeralOnce,
    PeerHoldsKeys, Initiators, Responders

(* A new session draws a key pair nobody has seen. *)
LEMMA SessionInitIInv ==
    ASSUME IInv, NEW n \in Nodes, NEW c \in Curves, SessionInit(n, c)
    PROVE  IInv'
<1>. DEFINE x == drawn + 1
            msg == [from |-> n, curve |-> c, epk |-> x, echo |-> None, bad |-> None]
<1>0. /\ ini[n].st = "New" /\ drawn < MaxEph /\ drawn' = x
      /\ ini' = [ini EXCEPT ![n] = [st |-> "Initialised", curve |-> c, epk |-> x]]
      /\ net' = net \cup {msg}
      /\ UNCHANGED <<slot, trust, ends, uses, lost>>
  BY DEF SessionInit
<1>1. x \in Eph /\ x \in 1..x /\ 1..drawn \subseteq 1..x /\ x \notin 1..drawn
  BY <1>0, SessionAssumption DEF IInv, SessionTypeOK, Eph
<1>2. IsInit(msg) /\ ~IsResponse(msg) /\ msg \in Message
  BY <1>1 DEF IsInit, IsResponse, Message
<1>3. SessionTypeOK'
  BY <1>0, <1>1, <1>2, SessionAssumption DEF IInv, SessionTypeOK, Session, Eph
<1>4. NetInv'
  BY <1>0, <1>1, <1>2 DEF IInv, NetInv, Responders, IsResponse
<1>5. OwnerInv'
  <2>1. \A k \in net : k.epk # msg.epk
    BY <1>1 DEF IInv, NetInv
  <2>. QED BY <1>0, <2>1 DEF IInv, OwnerInv, IsInit
<1>6. WaitingInv'
  <2>. SUFFICES ASSUME NEW p \in Nodes, ini'[p].st = "Initialised"
                PROVE  /\ uses[ini'[p].epk] = 0
                       /\ \E m \in net' : IsInit(m) /\ m.from = p /\ m.epk = ini'[p].epk
                       /\ \A q \in Nodes : q # p /\ ini'[q].st = "Initialised"
                                             => ini'[q].epk # ini'[p].epk
    BY <1>0 DEF WaitingInv, IsInit
  <2>1. ini'[n].epk = x /\ \A q \in Nodes \ {n} : ini'[q] = ini[q]
    BY <1>0 DEF IInv, SessionTypeOK
  <2>2. uses[x] = 0
    BY <1>1, <1>0 DEF IInv, UsesInv, SessionTypeOK
  <2>3. \A q \in Nodes \ {n} : ini[q].st = "Initialised" => ini[q].epk # x
    BY <1>1 DEF IInv, SessionTypeOK
  <2>4. CASE p = n
    BY <2>1, <2>2, <2>3, <2>4, <1>0, <1>2
  <2>5. CASE p # n
    BY <2>1, <2>3, <2>5, <1>0 DEF IInv, WaitingInv
  <2>. QED BY <2>4, <2>5
<1>7. EndsInv'
  BY <1>0, <1>1 DEF IInv, EndsInv, IsInit
<1>8. UsesInv'
  BY <1>0, SessionAssumption DEF IInv, UsesInv, EphemeralOnce, SessionTypeOK, Eph
<1>9. PeerHoldsKeys'
  BY <1>0 DEF IInv, PeerHoldsKeys, Initiators, Responders
<1>. QED BY <1>3, <1>4, <1>5, <1>6, <1>7, <1>8, <1>9 DEF IInv

(* What a responder does: its key pair is new, and its end is the only change *)
(* of ends.                                                                   *)
LEMMA RespondFacts ==
    ASSUME IInv, NEW n \in Nodes, NEW m \in net, NEW cert \in Nodes \ {n}, Respond(n, m, cert)
    PROVE  /\ drawn + 1 \in Eph /\ 1..drawn \subseteq 1..(drawn + 1)
           /\ drawn + 1 \notin 1..drawn /\ drawn' = drawn + 1
           /\ IsInit(m) /\ m.from = cert /\ m.epk \in 1..drawn /\ m.epk \in Eph
           /\ uses[drawn + 1] = 0
           /\ uses' = [uses EXCEPT ![drawn + 1] = 1]
           /\ ends' = ends \cup {End(n, "responder", cert, drawn + 1, m.epk)}
           /\ net' = net \cup {[from |-> n, curve |-> m.curve, epk |-> drawn + 1,
                                echo |-> m.epk, bad |-> None]}
           /\ UNCHANGED <<slot, trust, ini, lost>>
<1>1. drawn + 1 \in Eph /\ 1..drawn \subseteq 1..(drawn + 1) /\ drawn + 1 \notin 1..drawn
      /\ m.epk \in 1..drawn
  BY SessionAssumption DEF Respond, IInv, SessionTypeOK, NetInv, Eph
<1>2. uses[drawn + 1] = 0 /\ m.epk \in Eph
  BY <1>1 DEF IInv, SessionTypeOK, UsesInv, Message
<1>. QED BY <1>1, <1>2 DEF Respond, FingerprintIs, IInv, SessionTypeOK

(* An answer to an InitMessage preserves IInv. *)
LEMMA RespondIInv ==
    ASSUME IInv, NEW n \in Nodes, NEW m \in net, NEW cert \in Nodes \ {n}, Respond(n, m, cert)
    PROVE  IInv'
<1>. DEFINE x == drawn + 1
            e == End(n, "responder", cert, x, m.epk)
            msg == [from |-> n, curve |-> m.curve, epk |-> x, echo |-> m.epk, bad |-> None]
<1>0. /\ x \in Eph /\ 1..drawn \subseteq 1..x /\ x \notin 1..drawn /\ drawn' = x
      /\ IsInit(m) /\ m.from = cert /\ m.epk \in 1..drawn /\ m.epk \in Eph
      /\ uses[x] = 0 /\ uses' = [uses EXCEPT ![x] = 1]
      /\ ends' = ends \cup {e} /\ net' = net \cup {msg}
      /\ UNCHANGED <<slot, trust, ini, lost>>
  BY RespondFacts
<1>1. /\ e.node = n /\ e.role = "responder" /\ e.peer = cert /\ e.own = x /\ e.other = m.epk
      /\ e = End(e.node, e.role, e.peer, e.own, e.other)
  BY DEF End
<1>2. IsResponse(msg) /\ ~IsInit(msg) /\ msg \in Message
  BY <1>0, SessionAssumption DEF IsInit, IsResponse, Message, IInv, SessionTypeOK
<1>. HIDE DEF e, msg, x
<1>3. SessionTypeOK'
  BY <1>0, <1>2, SessionAssumption DEF IInv, SessionTypeOK, Eph
<1>4. NetInv'
  <2>1. Responders' = Responders \cup {e}
    BY <1>0, <1>1 DEF Responders
  <2>2. msg.epk = x /\ msg.from = n /\ msg.echo = m.epk /\ x \in 1..x
    BY <1>0 DEF msg, Eph
  <2>. QED BY <1>0, <1>1, <2>1, <2>2 DEF IInv, NetInv, IsResponse
<1>5. OwnerInv'
  BY <1>0, <1>2 DEF IInv, OwnerInv, IsInit
<1>6. WaitingInv'
  BY <1>0 DEF IInv, WaitingInv, SessionTypeOK, IsInit
<1>7. EndsInv'
  <2>. SUFFICES ASSUME NEW f \in ends'
                PROVE  /\ f = End(f.node, f.role, f.peer, f.own, f.other)
                       /\ f.own \in 1..x /\ f.other \in 1..x
                       /\ f.role \in {"initiator", "responder"}
                       /\ uses'[f.own] >= 1
                       /\ f.role = "responder" =>
                            \E k \in net' : IsInit(k) /\ k.from = f.peer /\ k.epk = f.other
    BY <1>0 DEF EndsInv, End, Keys, Prk, Labels, IsInit
  <2>1. CASE f = e
    BY <1>0, <1>1, <2>1 DEF IInv, SessionTypeOK, Eph
  <2>2. CASE f \in ends
    BY <1>0, <2>2 DEF IInv, EndsInv, SessionTypeOK, Eph
  <2>. QED BY <1>0, <2>1, <2>2
<1>8. UsesInv'
  BY <1>0, SessionAssumption DEF IInv, UsesInv, EphemeralOnce, SessionTypeOK, Eph
<1>9. PeerHoldsKeys'
  BY <1>0, <1>1 DEF IInv, PeerHoldsKeys, Initiators, Responders
<1>. QED BY <1>3, <1>4, <1>5, <1>6, <1>7, <1>8, <1>9 DEF IInv

(* What an initiator does when it accepts a response: the responder it came *)
(* from holds the keys and took this node for its peer.                     *)
LEMMA CompleteFacts ==
    ASSUME IInv, NEW n \in Nodes, NEW m \in net, NEW cert \in Nodes \ {n}, Complete(n, m, cert)
    PROVE  LET x == ini[n].epk IN
           /\ x \in 1..drawn /\ x \in Eph /\ uses[x] = 0 /\ m.epk \in 1..drawn /\ m.epk \in Eph
           /\ uses' = [uses EXCEPT ![x] = 1]
           /\ ini[n].st = "Initialised" /\ ini'[n].st = "Completed"
           /\ \E f \in Responders : /\ f.node = cert /\ f.peer = n /\ f.own = m.epk
                                    /\ f.other = x /\ f.keys = Keys(x, m.epk)
<1>. DEFINE x == ini[n].epk
<1>1. /\ x \in 1..drawn /\ x \in Eph /\ m.epk \in 1..drawn /\ m.epk \in Eph
      /\ ini[n].st = "Initialised"
  BY SessionAssumption DEF Complete, IInv, SessionTypeOK, NetInv, Eph
<1>2. uses[x] = 0 /\ \E k \in net : IsInit(k) /\ k.from = n /\ k.epk = x
  BY <1>1 DEF IInv, WaitingInv
<1>3. uses' = [uses EXCEPT ![x] = 1] /\ ini'[n].st = "Completed"
  BY <1>1, <1>2 DEF Complete, New, IInv, SessionTypeOK
<1>4. PICK f \in Responders : f.node = m.from /\ f.own = m.epk /\ f.other = x
  BY DEF Complete, Accepts, IInv, NetInv
<1>5. m.from = cert
  BY DEF Complete, Accepts, FingerprintIs
<1>6. PICK k \in net : IsInit(k) /\ k.from = f.peer /\ k.epk = x
  BY <1>4 DEF IInv, EndsInv, Responders
<1>7. f.peer = n
  BY <1>2, <1>6 DEF IInv, OwnerInv
<1>8. f = End(f.node, f.role, f.peer, f.own, f.other)
  BY DEF IInv, EndsInv, Responders
<1>9. f.keys = Keys(m.epk, x)
  BY <1>4, <1>8, EndFields
<1>. QED BY <1>1, <1>2, <1>3, <1>4, <1>5, <1>7, <1>9, KeysSymmetric

(* Accepting a response preserves IInv. *)
LEMMA CompleteIInv ==
    ASSUME IInv, NEW n \in Nodes, NEW m \in net, NEW cert \in Nodes \ {n}, Complete(n, m, cert)
    PROVE  IInv'
<1>. DEFINE x == ini[n].epk
            e == End(n, "initiator", cert, x, m.epk)
<1>0. /\ x \in 1..drawn /\ x \in Eph /\ uses[x] = 0 /\ m.epk \in 1..drawn /\ m.epk \in Eph
      /\ uses' = [uses EXCEPT ![x] = 1]
      /\ ini[n].st = "Initialised" /\ ini'[n].st = "Completed"
      /\ \E f \in Responders : f.node = cert /\ f.peer = n /\ f.keys = Keys(x, m.epk)
  BY CompleteFacts
<1>1. /\ ends' = ends \cup {e}
      /\ ini' = [ini EXCEPT ![n] = [New EXCEPT !.st = "Completed"]]
      /\ UNCHANGED <<slot, trust, net, drawn, lost>>
  BY DEF Complete
<1>2. /\ e.node = n /\ e.role = "initiator" /\ e.peer = cert /\ e.own = x /\ e.other = m.epk
      /\ e.keys = Keys(x, m.epk) /\ e = End(e.node, e.role, e.peer, e.own, e.other)
  BY DEF End
<1>. HIDE DEF e
<1>3. Responders' = Responders /\ Initiators' = Initiators \cup {e}
  BY <1>1, <1>2 DEF Responders, Initiators
<1>4. \A p \in Nodes \ {n} : ini'[p] = ini[p]
  BY <1>1 DEF IInv, SessionTypeOK
<1>5. SessionTypeOK'
  BY <1>0, <1>1, SessionAssumption DEF IInv, SessionTypeOK, New, Session, Eph
<1>6. NetInv' /\ OwnerInv'
  BY <1>1, <1>3 DEF IInv, NetInv, OwnerInv, IsInit, IsResponse
<1>7. WaitingInv'
  <2>. SUFFICES ASSUME NEW p \in Nodes, ini'[p].st = "Initialised"
                PROVE  /\ uses'[ini'[p].epk] = 0
                       /\ \E k \in net' : IsInit(k) /\ k.from = p /\ k.epk = ini'[p].epk
                       /\ \A q \in Nodes : q # p /\ ini'[q].st = "Initialised"
                                             => ini'[q].epk # ini'[p].epk
    BY DEF WaitingInv, IsInit
  <2>1. p # n /\ ini[p].st = "Initialised" /\ ini'[p] = ini[p]
    BY <1>0, <1>4
  <2>2. ini[p].epk # x /\ uses[ini[p].epk] = 0 /\ ini[p].epk \in Eph
    BY <1>0, <2>1, SessionAssumption DEF IInv, WaitingInv, SessionTypeOK, Eph
  <2>3. \A q \in Nodes : ini'[q].st = "Initialised" => q # n /\ ini'[q] = ini[q]
    BY <1>0, <1>4
  <2>. QED BY <1>0, <1>1, <2>1, <2>2, <2>3 DEF IInv, WaitingInv, SessionTypeOK
<1>8. EndsInv'
  <2>. SUFFICES ASSUME NEW f \in ends'
                PROVE  /\ f = End(f.node, f.role, f.peer, f.own, f.other)
                       /\ f.own \in 1..drawn /\ f.other \in 1..drawn
                       /\ f.role \in {"initiator", "responder"}
                       /\ uses'[f.own] >= 1
                       /\ f.role = "responder" =>
                            \E k \in net : IsInit(k) /\ k.from = f.peer /\ k.epk = f.other
    BY <1>1 DEF EndsInv, End, Keys, Prk, Labels, IsInit
  <2>1. CASE f = e
    <3>1. uses'[x] = 1
      BY <1>0 DEF IInv, SessionTypeOK
    <3>. HIDE DEF x
    <3>. QED BY <1>0, <1>2, <2>1, <3>1
  <2>2. CASE f \in ends
    BY <1>0, <2>2 DEF IInv, EndsInv, SessionTypeOK, Eph
  <2>. QED BY <1>1, <2>1, <2>2
<1>9. UsesInv'
  BY <1>0, <1>1, SessionAssumption DEF IInv, UsesInv, EphemeralOnce, SessionTypeOK, Eph
<1>10. PeerHoldsKeys'
  BY <1>0, <1>2, <1>3 DEF IInv, PeerHoldsKeys
<1>. QED BY <1>5, <1>6, <1>7, <1>8, <1>9, <1>10 DEF IInv

(* Dropping a session object preserves IInv. *)
LEMMA DropIInv == ASSUME IInv, NEW n \in Nodes, Drop(n) PROVE IInv'
<1>1. /\ ini' = [ini EXCEPT ![n] = New]
      /\ lost' = lost \cup ({ini[n].epk} \ {None})
      /\ UNCHANGED <<slot, trust, net, drawn, ends, uses>>
  BY DEF Drop
<1>2. ini'[n].st = "New" /\ \A p \in Nodes \ {n} : ini'[p] = ini[p]
  BY <1>1 DEF New, IInv, SessionTypeOK
<1>3. SessionTypeOK'
  <2>1. ini[n].epk \in Eph \cup {None}
    BY DEF IInv, SessionTypeOK, Session
  <2>. QED BY <1>1, <1>2, <2>1 DEF IInv, SessionTypeOK, New, Session
<1>4. WaitingInv'
  BY <1>1, <1>2 DEF IInv, WaitingInv, IsInit
<1>. QED
  BY <1>1, <1>3, <1>4 DEF IInv, NetInv, OwnerInv, EndsInv, UsesInv, EphemeralOnce,
    PeerHoldsKeys, Initiators, Responders

(* A damaged copy differs from its original in no field the invariant reads. *)
LEMMA GarbleIInv ==
    ASSUME IInv, NEW m \in net, NEW f \in Damage, Garble(m, f)
    PROVE  IInv'
<1>. DEFINE d == [m EXCEPT !.bad = f]
<1>1. /\ net' = net \cup {d}
      /\ UNCHANGED <<slot, trust, ini, drawn, ends, uses, lost>>
  BY DEF Garble
<1>2. /\ d \in Message /\ d.from = m.from /\ d.epk = m.epk /\ d.echo = m.echo
  BY DEF IInv, SessionTypeOK, Message
<1>. HIDE DEF d
<1>3. SessionTypeOK'
  BY <1>1, <1>2 DEF IInv, SessionTypeOK
<1>4. NetInv' /\ OwnerInv'
  BY <1>1, <1>2 DEF IInv, NetInv, OwnerInv, IsInit, IsResponse, Responders
<1>5. WaitingInv' /\ EndsInv'
  BY <1>1 DEF IInv, WaitingInv, EndsInv, IsInit
<1>. QED
  BY <1>1, <1>3, <1>4, <1>5 DEF IInv, UsesInv, EphemeralOnce, PeerHoldsKeys, Initiators,
    Responders

(* IInv is an invariant of the handshake. *)
THEOREM SessionInvariance == Spec => []IInv
<1>1. IInv /\ UNCHANGED vars => IInv'
  BY DEF vars, IInv, SessionTypeOK, NetInv, OwnerInv, WaitingInv, EndsInv, UsesInv,
    EphemeralOnce, PeerHoldsKeys, Initiators, Responders
<1>2. ASSUME IInv, Next PROVE IInv'
  <2>1. ASSUME NEW n \in Nodes, Receive(n) PROVE IInv'
    <3>1. PICK m \in net, cert \in Nodes \ {n} :
            Respond(n, m, cert) \/ Complete(n, m, cert) \/ Reject(n, m, cert)
      BY <2>1 DEF Receive
    <3>. QED BY <1>1, <1>2, <3>1, RespondIInv, CompleteIInv DEF Reject
  <2>. QED BY <1>2, <2>1, TrustIInv, SessionInitIInv, DropIInv, GarbleIInv DEF Next
<1>. QED BY <1>1, <1>2, InitIInv, PTL DEF Spec

(* Every variable of the handshake keeps its type. *)
THEOREM SessionTypeCorrect == Spec => []SessionTypeOK
<1>1. IInv => SessionTypeOK
  BY DEF IInv
<1>. QED BY <1>1, SessionInvariance, PTL

(* Keys that InitiatorSession::complete hands out are held by the peer they  *)
(* are for, which took this node for its own peer.                           *)
THEOREM PeerHasTheKeys == Spec => []PeerHoldsKeys
<1>1. IInv => PeerHoldsKeys
  BY DEF IInv
<1>. QED BY <1>1, SessionInvariance, PTL

(* No ephemeral private key enters two key derivations. *)
THEOREM EphemeralUsedOnce == Spec => []EphemeralOnce
<1>1. IInv => EphemeralOnce
  BY DEF IInv, UsesInv
<1>. QED BY <1>1, SessionInvariance, PTL

-----------------------------------------------------------------------------
(* Every step of the handshake is a step of KeyAgreement or changes neither  *)
(* of its variables: a responder's answer is Answer, an accepted response is *)
(* Join.                                                                     *)
LEMMA AgreementStep == IInv /\ [Next]_vars => [Agreed!KaNext]_(Agreed!kaVars)
<1>. SUFFICES ASSUME IInv, [Next]_vars PROVE [Agreed!KaNext]_(Agreed!kaVars)
  OBVIOUS
<1>1. CASE UNCHANGED ends
  BY <1>1 DEF Agreed!kaVars, Initiators, Responders
<1>2. ASSUME NEW n \in Nodes, NEW m \in net, NEW cert \in Nodes \ {n}, Respond(n, m, cert)
      PROVE  Agreed!KaNext
  <2>. DEFINE e == End(n, "responder", cert, drawn + 1, m.epk)
  <2>1. /\ drawn + 1 \in Eph /\ drawn + 1 \notin 1..drawn /\ m.epk \in 1..drawn
        /\ m.epk \in Eph /\ ends' = ends \cup {e}
    BY <1>2, RespondFacts
  <2>2. e.role = "responder" /\ e.own = drawn + 1 /\ e.other = m.epk
    BY DEF End
  <2>. HIDE DEF e
  <2>3. Responders' = Responders \cup {e} /\ Initiators' = Initiators
    BY <2>1, <2>2 DEF Responders, Initiators
  <2>4. \A f \in Responders : f.own # drawn + 1
    BY <2>1 DEF IInv, EndsInv, Responders
  <2>5. Agreed!Answer(m.epk, drawn + 1)
    BY <2>1, <2>2, <2>3, <2>4 DEF Agreed!Answer
  <2>6. \E i, r \in Eph : Agreed!Answer(i, r)
    BY <2>1, <2>5 DEF Agreed!Answer
  <2>. QED BY <2>6 DEF Agreed!KaNext
<1>3. ASSUME NEW n \in Nodes, NEW m \in net, NEW cert \in Nodes \ {n}, Complete(n, m, cert)
      PROVE  Agreed!KaNext
  <2>. DEFINE x == ini[n].epk
              e == End(n, "initiator", cert, x, m.epk)
  <2>1. /\ x \in Eph /\ uses[x] = 0 /\ m.epk \in Eph
        /\ \E f \in Responders : f.own = m.epk /\ f.other = x
    BY <1>3, CompleteFacts
  <2>2. e.role = "initiator" /\ e.own = x /\ e.other = m.epk /\ ends' = ends \cup {e}
    BY <1>3 DEF End, Complete
  <2>. HIDE DEF e
  <2>3. Responders' = Responders /\ Initiators' = Initiators \cup {e}
    BY <2>2 DEF Responders, Initiators
  <2>4. \A f \in Initiators : f.own # x
    BY <2>1 DEF IInv, EndsInv, Initiators
  <2>5. Agreed!Join(x, m.epk)
    BY <2>1, <2>2, <2>3, <2>4 DEF Agreed!Join
  <2>. QED BY <2>1, <2>5 DEF Agreed!KaNext
<1>4. \/ UNCHANGED ends
      \/ \E n \in Nodes : \E m \in net, cert \in Nodes \ {n} :
            Respond(n, m, cert) \/ Complete(n, m, cert)
  BY DEF Next, vars, Receive, Reject, TrustAdd, TrustRemove, SessionInit, Drop, Garble
<1>. QED BY <1>1, <1>2, <1>3, <1>4

(* The handshake over its unreliable transport implements the abstract key   *)
(* agreement: a responder commits once to one initiator's key, and an        *)
(* initiator joins one commitment that exists.                               *)
THEOREM ImplementsKeyAgreement == Spec => RefinesKeyAgreement
<1>1. Init => Agreed!KaInit
  BY DEF Init, Agreed!KaInit, Initiators, Responders
<1>. QED
  BY <1>1, AgreementStep, SessionInvariance, PTL DEF Spec, RefinesKeyAgreement, Agreed!KaSpec
=============================================================================
