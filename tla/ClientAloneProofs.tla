------------------------- MODULE ClientAloneProofs -------------------------
(***************************************************************************)
(* Proofs about one client in the environment of ClientAlone, for every    *)
(* set of clients, every nickname table and every set of offered messages. *)
(* That its own steps preserve the invariant is shown in ChatLemmas.       *)
(***************************************************************************)
EXTENDS ClientAlone, ChatLemmas

\* The initial state satisfies the inductive invariant.
LEMMA InitInv == Init => IndInv
<1> SUFFICES ASSUME Init PROVE IndInv
  OBVIOUS
<1>1. ClientsTyped /\ ClientInv(me)
  BY ClientInitInv, AloneAssumption DEF Init
<1> QED
  BY <1>1 DEF IndInv, TypeOK

\* A delivery appends an offered message; nothing else of the client changes.
LEMMA EnvironmentStep ==
    ASSUME IndInv, Deliver \/ ServerGone \/ UNCHANGED vars
    PROVE  IndInv'
<1> USE AloneAssumption
<1>1. UNCHANGED clientVars
  BY DEF Deliver, ServerGone, vars
<1>2. NetType /\ InboxHonest(me)
  BY DEF IndInv, TypeOK, ClientsTyped, ClientInv
<1>3. NetType' /\ InboxHonest(me)'
  <2>1. CASE Deliver
    <3>1. PICK m \in Offered : inbox' = [inbox EXCEPT ![me] = Append(@, m)]
      BY <2>1 DEF Deliver
    <3>2. m \in Message /\ OwnNumber(m) /\ (m.type = "dh" => m.body.by # me)
      OBVIOUS
    <3>3. inbox[me] \in Seq(Message) /\ inbox'[me] = Append(inbox[me], m)
      BY <1>2, <3>1 DEF NetType
    <3>4. InboxHonest(me)'
      BY <1>2, <3>2, <3>3 DEF InboxHonest
    <3> QED
      BY <1>2, <2>1, <3>1, <3>2, <3>4 DEF NetType, Deliver
  <2>2. CASE ServerGone \/ UNCHANGED vars
    BY <1>2, <2>2 DEF NetType, InboxHonest, ServerGone, vars, netVars
  <2> QED
    BY <2>1, <2>2
<1>4. ClientsTyped' /\ ClientInv(me)'
  BY <1>1, <1>3, ClientUntouched DEF IndInv, TypeOK
<1> QED
  BY <1>4 DEF IndInv, TypeOK

\* IndInv holds in every state a client can reach, for every set of clients
\* and nicknames, every retry bound and every well-formed environment.
THEOREM Inductive == Spec => []IndInv
<1>1. ASSUME IndInv, TaskNext(me) PROVE IndInv'
  BY <1>1, ClientStepKeeps, AloneAssumption DEF IndInv, TypeOK
<1>2. IndInv /\ [Next]_vars => IndInv'
  BY <1>1, EnvironmentStep DEF Next
<1> QED
  BY <1>2, InitInv, PTL DEF Spec

\* Type correctness of the client.
THEOREM TypeCorrect == Spec => []TypeOK
<1>1. IndInv => TypeOK
  BY DEF IndInv
<1> QED
  BY <1>1, Inductive, PTL

\* R never blocks on dh_exchange_queue and H is never woken in vain.
THEOREM HandshakeControl == Spec => []DhWakeupInv
<1>1. IndInv => DhWakeupInv
  BY DEF IndInv, ClientInv, DhWakeupInv
<1> QED
  BY <1>1, Inductive, PTL

\* R, which reads MyState without the semaphore, acts on what it read: only H
\* takes the machine out of the states in which R completes a handshake.
THEOREM HandshakeOwnership == Spec => []HandshakeOwnerInv
<1>1. IndInv => HandshakeOwnerInv
  BY DEF IndInv, ClientInv, HandshakeOwnerInv
<1> QED
  BY <1>1, Inductive, PTL

\* The number a request repeats is the one the key will be derived from.
THEOREM RequestKept == Spec => []RequestMatchesInv
<1>1. IndInv => RequestMatchesInv
  BY DEF IndInv, ClientInv, RequestMatchesInv
<1> QED
  BY <1>1, Inductive, PTL

\* The opponent's number a key is derived from is CurrentHandShaker's.
THEOREM OpponentNamed == Spec => []OpponentIsPeerInv
<1>1. IndInv => OpponentIsPeerInv
  <2>1. \A x \in Num : x.by # Null
    BY ProtocolAssumption DEF Num
  <2> QED
    BY <2>1 DEF IndInv, ClientInv, OpponentIsOther, OpponentIsPeerInv, OpponentIsPeer
<1> QED
  BY <1>1, Inductive, PTL

\* A session key filed under a peer has its other half with that peer, whatever
\* arrives and in what order.
THEOREM SessionSecrecy == Spec => []SessionEndToEndInv
<1>1. IndInv => SessionEndToEndInv
  BY DEF IndInv, ClientInv, SessionEndToEndInv
<1> QED
  BY <1>1, Inductive, PTL

\* No exponent of DHShare serves for two sessions.
THEOREM NumbersFresh == Spec => []FreshNumbersInv
<1>1. IndInv => FreshNumbersInv
  <2>1. \A x \in Drawn(me) : x.by = me
    BY DEF Drawn
  <2>2. IndInv => known[me] \subseteq Peers
    BY PeerFacts, AloneAssumption DEF IndInv, TypeOK, ClientsTyped, DictType
  <2> QED
    BY <2>1, <2>2 DEF IndInv, ClientInv, NumbersSpent, FreshNumbersInv, FreshNumbers
<1> QED
  BY <1>1, Inductive, PTL

\* An enter notice handled when idle finds the server's session.
THEOREM NoticeReadable == Spec => []IdleHasServerInv
<1>1. IndInv => IdleHasServerInv
  BY DEF IndInv, ClientInv, ServerFirst, IdleHasServerInv, IdleHasServer
<1> QED
  BY <1>1, Inductive, PTL

\* The sender key leaves under a key shared with another client, whatever
\* CurrentExchanger becomes between K's reads of it.
THEOREM SenderKeySealing == Spec => []SenderKeySealedInv
<1>1. IndInv => SenderKeySealedInv
  BY DEF IndInv, ClientInv, SenderKeySealedInv
<1> QED
  BY <1>1, Inductive, PTL

=============================================================================
