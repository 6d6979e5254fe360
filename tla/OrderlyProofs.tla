---------------------------- MODULE OrderlyProofs ----------------------------
(***************************************************************************)
(* In the README's scenario with two clients no loop of a client throws    *)
(* and the server survives, for every nickname and every bound on sends,   *)
(* lines and descriptors: OrderlyInv is inductive, together with what      *)
(* GroupChatProofs shows of any scenario.  A step is a client's or an      *)
(* event's; each conjunct is shown for the client that moves, for the      *)
(* other one, and for the two together.                                    *)
(***************************************************************************)
EXTENDS OrderlyInvariant, GroupChatProofs

USE DEF clientVars, netVars, hsVars, ratVars, dicVars, queVars, rVars, hVars, kVars

-----------------------------------------------------------------------------
(* Streams that grow and shrink by one message *)

At(s, P) == {i \in 1..Len(s) : s[i] \in P}

\* The positions of some messages in a stream that grows by one.
LEMMA PositionsAppend ==
    ASSUME NEW s \in Seq(Message), NEW m \in Message, NEW P
    PROVE  /\ m \notin P => At(Append(s, m), P) = At(s, P)
           /\ m \in P => At(Append(s, m), P) # {}
           /\ At(s, P) = {} => AtMostOne(At(Append(s, m), P))
<1> DEFINE S == At(s, P)
           T == At(Append(s, m), P)
<1>1. /\ Len(s) \in Nat /\ Len(Append(s, m)) = Len(s) + 1
      /\ Append(s, m)[Len(s) + 1] = m
      /\ \A i \in 1..Len(s) : Append(s, m)[i] = s[i]
  OBVIOUS
<1>2. \A i \in T : i \in S \/ (i = Len(s) + 1 /\ m \in P)
  BY <1>1 DEF At
<1>3. \A i \in S : i \in T
  BY <1>1 DEF At
<1>4. m \in P => Len(s) + 1 \in T
  BY <1>1 DEF At
<1> HIDE DEF S, T
<1>5. (m \notin P => T = S) /\ (m \in P => T # {}) /\ (S = {} => AtMostOne(T))
  BY <1>2, <1>3, <1>4 DEF AtMostOne
<1> QED
  BY <1>5 DEF S, T

\* ... and in one whose first message is taken.
LEMMA PositionsTail ==
    ASSUME NEW s \in Seq(Message), s # <<>>, NEW P
    PROVE  /\ Head(s) \notin P => (At(Tail(s), P) = {} <=> At(s, P) = {})
           /\ Head(s) \in P => At(s, P) # {}
           /\ At(s, P) = {} => At(Tail(s), P) = {}
           /\ AtMostOne(At(s, P)) =>
                 AtMostOne(At(Tail(s), P)) /\ (Head(s) \in P => At(Tail(s), P) = {})
<1> DEFINE S == At(s, P)
           T == At(Tail(s), P)
<1>1. /\ Len(s) \in Nat \ {0} /\ Len(Tail(s)) = Len(s) - 1 /\ Head(s) = s[1]
      /\ \A i \in 1..Len(Tail(s)) : Tail(s)[i] = s[i + 1]
  OBVIOUS
<1>2. \A i \in T : i + 1 \in S /\ i \in Nat \ {0}
  BY <1>1 DEF At
<1>3. \A i \in S : i # 1 => i - 1 \in T
  <2> SUFFICES ASSUME NEW i \in S, i # 1 PROVE i - 1 \in T
    OBVIOUS
  <2>1. i - 1 \in 1..Len(Tail(s)) /\ (i - 1) + 1 = i
    BY <1>1 DEF At
  <2> QED
    BY <2>1, <1>1 DEF At
<1>4. Head(s) \in P <=> 1 \in S
  BY <1>1 DEF At
<1> HIDE DEF S, T
<1>5. AtMostOne(S) => AtMostOne(T)
  <2> SUFFICES ASSUME AtMostOne(S), NEW i \in T, NEW j \in T PROVE i = j
    BY DEF AtMostOne
  <2>1. i + 1 = j + 1
    BY <1>2 DEF AtMostOne
  <2> QED
    BY <2>1, <1>2
<1>6. ASSUME AtMostOne(S), 1 \in S PROVE T = {}
  <2> SUFFICES ASSUME NEW i \in T PROVE FALSE
    OBVIOUS
  <2>1. i + 1 = 1
    BY <1>2, <1>6 DEF AtMostOne
  <2> QED
    BY <2>1, <1>2
<1>7. S = {} => T = {}
  BY <1>2
<1>8. 1 \notin S => (T = {} <=> S = {})
  BY <1>2, <1>3
<1> QED
  BY <1>4, <1>5, <1>6, <1>7, <1>8 DEF S, T

LEMMA StreamAppend ==
    ASSUME NEW s \in Seq(Message), NEW m \in Message
    PROVE  /\ ToSet(Append(s, m)) = ToSet(s) \cup {m}
           /\ \A n :
                 /\ ~NumberTo(m, n) => NumbersTo(Append(s, m), n) = NumbersTo(s, n)
                 /\ NumberTo(m, n) => NumbersTo(Append(s, m), n) # {}
                 /\ NumbersTo(s, n) = {} => AtMostOne(NumbersTo(Append(s, m), n))
                 /\ ~NumberFrom(m, n) => NumbersFrom(Append(s, m), n) = NumbersFrom(s, n)
                 /\ NumberFrom(m, n) => NumbersFrom(Append(s, m), n) # {}
                 /\ NumbersFrom(s, n) = {} => AtMostOne(NumbersFrom(Append(s, m), n))
                 /\ ~EntryOf(m, n) => EntriesOf(Append(s, m), n) = EntriesOf(s, n)
                 /\ EntryOf(m, n) => EntriesOf(Append(s, m), n) # {}
                 /\ EntriesOf(s, n) = {} => AtMostOne(EntriesOf(Append(s, m), n))
<1>1. /\ Len(s) \in Nat /\ Len(Append(s, m)) = Len(s) + 1
      /\ Append(s, m)[Len(s) + 1] = m /\ Append(s, m) \in Seq(Message)
      /\ \A i \in 1..Len(s) : Append(s, m)[i] = s[i] /\ s[i] \in Message
      /\ DOMAIN s = 1..Len(s) /\ DOMAIN Append(s, m) = 1..(Len(s) + 1)
  OBVIOUS
<1>2. \A i \in 1..Len(Append(s, m)) : Append(s, m)[i] \in Message
  BY <1>1
<1>3. ToSet(Append(s, m)) = ToSet(s) \cup {m}
  <2>1. \A x \in ToSet(Append(s, m)) : x \in ToSet(s) \cup {m}
    BY <1>1 DEF ToSet
  <2>2. \A x \in ToSet(s) : x \in ToSet(Append(s, m))
    BY <1>1 DEF ToSet
  <2>3. m \in ToSet(Append(s, m))
    BY <1>1 DEF ToSet
  <2> QED
    BY <2>1, <2>2, <2>3
<1>4. ASSUME NEW n
      PROVE  /\ ~NumberTo(m, n) => NumbersTo(Append(s, m), n) = NumbersTo(s, n)
             /\ NumberTo(m, n) => NumbersTo(Append(s, m), n) # {}
             /\ NumbersTo(s, n) = {} => AtMostOne(NumbersTo(Append(s, m), n))
  <2> DEFINE P == {x \in Message : NumberTo(x, n)}
  <2>1. NumbersTo(s, n) = At(s, P)
    BY <1>1 DEF At, NumbersTo, NumberTo
  <2>2. NumbersTo(Append(s, m), n) = At(Append(s, m), P)
    BY <1>2 DEF At, NumbersTo, NumberTo
  <2>3. m \in P <=> NumberTo(m, n)
    OBVIOUS
  <2> HIDE DEF P
  <2> QED
    BY <2>1, <2>2, <2>3, PositionsAppend
<1>5. ASSUME NEW n
      PROVE  /\ ~NumberFrom(m, n) => NumbersFrom(Append(s, m), n) = NumbersFrom(s, n)
             /\ NumberFrom(m, n) => NumbersFrom(Append(s, m), n) # {}
             /\ NumbersFrom(s, n) = {} => AtMostOne(NumbersFrom(Append(s, m), n))
  <2> DEFINE P == {x \in Message : NumberFrom(x, n)}
  <2>1. NumbersFrom(s, n) = At(s, P)
    BY <1>1 DEF At, NumbersFrom, NumberFrom
  <2>2. NumbersFrom(Append(s, m), n) = At(Append(s, m), P)
    BY <1>2 DEF At, NumbersFrom, NumberFrom
  <2>3. m \in P <=> NumberFrom(m, n)
    OBVIOUS
  <2> HIDE DEF P
  <2> QED
    BY <2>1, <2>2, <2>3, PositionsAppend
<1>6. ASSUME NEW n
      PROVE  /\ ~EntryOf(m, n) => EntriesOf(Append(s, m), n) = EntriesOf(s, n)
             /\ EntryOf(m, n) => EntriesOf(Append(s, m), n) # {}
             /\ EntriesOf(s, n) = {} => AtMostOne(EntriesOf(Append(s, m), n))
  <2> DEFINE P == {x \in Message : EntryOf(x, n)}
  <2>1. EntriesOf(s, n) = At(s, P)
    BY <1>1 DEF At, EntriesOf, EntryOf
  <2>2. EntriesOf(Append(s, m), n) = At(Append(s, m), P)
    BY <1>2 DEF At, EntriesOf, EntryOf
  <2>3. m \in P <=> EntryOf(m, n)
    OBVIOUS
  <2> HIDE DEF P
  <2> QED
    BY <2>1, <2>2, <2>3, PositionsAppend
<1> QED
  BY <1>3, <1>4, <1>5, <1>6

LEMMA StreamTail ==
    ASSUME NEW s \in Seq(Message), s # <<>>
    PROVE  /\ ToSet(Tail(s)) \subseteq ToSet(s) /\ Head(s) \in ToSet(s)
           /\ \A n :
                 /\ ~NumberTo(Head(s), n) =>
                       (NumbersTo(Tail(s), n) = {} <=> NumbersTo(s, n) = {})
                 /\ NumberTo(Head(s), n) => NumbersTo(s, n) # {}
                 /\ NumbersTo(s, n) = {} => NumbersTo(Tail(s), n) = {}
                 /\ AtMostOne(NumbersTo(s, n)) =>
                       /\ AtMostOne(NumbersTo(Tail(s), n))
                       /\ NumberTo(Head(s), n) => NumbersTo(Tail(s), n) = {}
                 /\ ~NumberFrom(Head(s), n) =>
                       (NumbersFrom(Tail(s), n) = {} <=> NumbersFrom(s, n) = {})
                 /\ NumberFrom(Head(s), n) => NumbersFrom(s, n) # {}
                 /\ NumbersFrom(s, n) = {} => NumbersFrom(Tail(s), n) = {}
                 /\ AtMostOne(NumbersFrom(s, n)) =>
                       /\ AtMostOne(NumbersFrom(Tail(s), n))
                       /\ NumberFrom(Head(s), n) => NumbersFrom(Tail(s), n) = {}
                 /\ EntryOf(Head(s), n) => EntriesOf(s, n) # {}
                 /\ EntriesOf(s, n) = {} => EntriesOf(Tail(s), n) = {}
                 /\ ~EntryOf(Head(s), n) =>
                       (EntriesOf(Tail(s), n) = {} <=> EntriesOf(s, n) = {})
                 /\ AtMostOne(EntriesOf(s, n)) =>
                       /\ AtMostOne(EntriesOf(Tail(s), n))
                       /\ EntryOf(Head(s), n) => EntriesOf(Tail(s), n) = {}
<1>1. /\ Len(s) \in Nat \ {0} /\ Len(Tail(s)) = Len(s) - 1 /\ Head(s) = s[1]
      /\ \A i \in 1..Len(Tail(s)) : Tail(s)[i] = s[i + 1]
      /\ \A i \in 1..Len(s) : s[i] \in Message
      /\ DOMAIN s = 1..Len(s) /\ DOMAIN Tail(s) = 1..Len(Tail(s)) /\ Head(s) \in Message
  OBVIOUS
<1>2. \A i \in 1..Len(Tail(s)) : Tail(s)[i] \in Message /\ i + 1 \in 1..Len(s)
  BY <1>1
<1>3. ToSet(Tail(s)) \subseteq ToSet(s) /\ Head(s) \in ToSet(s)
  BY <1>1, <1>2 DEF ToSet
<1>4. ASSUME NEW n
      PROVE  /\ ~NumberTo(Head(s), n) => (NumbersTo(Tail(s), n) = {} <=> NumbersTo(s, n) = {})
             /\ NumberTo(Head(s), n) => NumbersTo(s, n) # {}
             /\ NumbersTo(s, n) = {} => NumbersTo(Tail(s), n) = {}
             /\ AtMostOne(NumbersTo(s, n)) =>
                   /\ AtMostOne(NumbersTo(Tail(s), n))
                   /\ NumberTo(Head(s), n) => NumbersTo(Tail(s), n) = {}
  <2> DEFINE P == {x \in Message : NumberTo(x, n)}
  <2>1. NumbersTo(s, n) = At(s, P)
    BY <1>1 DEF At, NumbersTo, NumberTo
  <2>2. NumbersTo(Tail(s), n) = At(Tail(s), P)
    BY <1>2 DEF At, NumbersTo, NumberTo
  <2>3. Head(s) \in P <=> NumberTo(Head(s), n)
    BY <1>1
  <2> HIDE DEF P
  <2> QED
    BY <2>1, <2>2, <2>3, PositionsTail
<1>5. ASSUME NEW n
      PROVE  /\ ~NumberFrom(Head(s), n) => (NumbersFrom(Tail(s), n) = {} <=> NumbersFrom(s, n) = {})
             /\ NumberFrom(Head(s), n) => NumbersFrom(s, n) # {}
             /\ NumbersFrom(s, n) = {} => NumbersFrom(Tail(s), n) = {}
             /\ AtMostOne(NumbersFrom(s, n)) =>
                   /\ AtMostOne(NumbersFrom(Tail(s), n))
                   /\ NumberFrom(Head(s), n) => NumbersFrom(Tail(s), n) = {}
  <2> DEFINE P == {x \in Message : NumberFrom(x, n)}
  <2>1. NumbersFrom(s, n) = At(s, P)
    BY <1>1 DEF At, NumbersFrom, NumberFrom
  <2>2. NumbersFrom(Tail(s), n) = At(Tail(s), P)
    BY <1>2 DEF At, NumbersFrom, NumberFrom
  <2>3. Head(s) \in P <=> NumberFrom(Head(s), n)
    BY <1>1
  <2> HIDE DEF P
  <2> QED
    BY <2>1, <2>2, <2>3, PositionsTail
<1>6. ASSUME NEW n
      PROVE  /\ EntryOf(Head(s), n) => EntriesOf(s, n) # {}
             /\ EntriesOf(s, n) = {} => EntriesOf(Tail(s), n) = {}
             /\ ~EntryOf(Head(s), n) => (EntriesOf(Tail(s), n) = {} <=> EntriesOf(s, n) = {})
             /\ AtMostOne(EntriesOf(s, n)) =>
                   /\ AtMostOne(EntriesOf(Tail(s), n))
                   /\ EntryOf(Head(s), n) => EntriesOf(Tail(s), n) = {}
  <2> DEFINE P == {x \in Message : EntryOf(x, n)}
  <2>1. EntriesOf(s, n) = At(s, P)
    BY <1>1 DEF At, EntriesOf, EntryOf
  <2>2. EntriesOf(Tail(s), n) = At(Tail(s), P)
    BY <1>2 DEF At, EntriesOf, EntryOf
  <2>3. Head(s) \in P <=> EntryOf(Head(s), n)
    BY <1>1
  <2> HIDE DEF P
  <2> QED
    BY <2>1, <2>2, <2>3, PositionsTail
<1> QED
  BY <1>3, <1>4, <1>5, <1>6

-----------------------------------------------------------------------------
(* When everything is settled *)

\* What holds all the time.
ScenarioInv ==
    OrderlyScenario /\ GroupInv /\ SealedEndToEnd /\ ExchangeInv /\ OrderlyInv

\* In a chat of two, a name of a client is one of the two names.
LEMMA OtherName ==
    ASSUME TwoClients, NEW c \in Clients, NEW d \in Clients \ {c}
    PROVE  /\ \A e \in Clients : e = c \/ e = d
           /\ \A n \in Names : n = Nick[c] \/ n = Nick[d]
           /\ \A n \in Peers : n = "server" \/ n = Nick[c] \/ n = Nick[d]
BY DEF TwoClients, Names, Peers

LEMMA SettledFacts ==
    ASSUME ScenarioInv, Settled, NEW c \in Clients
    PROVE  /\ Up(c) => /\ c \in members /\ Resting(c) /\ inbox[c] = <<>>
                       /\ "server" \in known[c] /\ dhq[c] = <<>>
                       /\ \A d \in Clients : Up(d) => Nick[d] \in known[c] /\ sender[c][Nick[d]] # Null
           /\ ~Up(c) => Absent(c)
<1>1. Up(c) <=> c \in members
  BY DEF Settled, Online, Up
<1>2. ASSUME Up(c)
      PROVE  /\ Resting(c) /\ inbox[c] = <<>> /\ "server" \in known[c] /\ dhq[c] = <<>>
  <2>1. Quiet(c)
    BY <1>2 DEF Settled, Online, Up
  <2>2. ServerFirst(c) /\ DhWakeup(c) /\ QueueType
    BY DEF ScenarioInv, GroupInv, ClientInv, ClientsTyped
  <2> QED
    BY <1>2, <2>1, <2>2 DEF Quiet, Resting, ServerFirst, DhWakeup, Up
<1>3. ASSUME Up(c), NEW d \in Clients, Up(d)
      PROVE  Nick[d] \in known[c] /\ sender[c][Nick[d]] # Null
  BY <1>3 DEF Settled, Online, Up, HasSenderKey
<1>4. ASSUME ~Up(c) PROVE Absent(c)
  <2>1. status[c] # "faulted" /\ RestsUnlessUp(c)
    BY DEF ScenarioInv, OrderlyInv, OrderlySingle
  <2>2. status[c] \in Status
    BY DEF ScenarioInv, GroupInv, ClientsTyped, MachineType
  <2> QED
    BY <1>1, <1>4, <2>1, <2>2 DEF RestsUnlessUp, Absent, Status, Up
<1> QED
  BY <1>1, <1>2, <1>3, <1>4

\* Who joins, types or leaves does so in a settled chat, and a request is
\* repeated when nothing of its handshake is under way.
LEMMA PatientStep ==
    ASSUME OrderlyScenario, NEW b \in Clients, ClientStep(b)
    PROVE  /\ Connect(b) \/ InputLine(b) \/ InputQuit(b) => Settled
           /\ HResend(b) /\ hsent[b] > 0 => ~DhUnderway(b)
BY DEF OrderlyScenario, ClientStep, InTurn

\* A step from a state in which nothing has failed.
LEMMA StepFacts ==
    ASSUME ScenarioInv, NEW b \in Clients, ClientStep(b)
    PROVE  /\ TaskNext(b) /\ Frame(b) /\ ClientsTyped /\ ClientsTyped'
           /\ serverUp /\ UNCHANGED <<serverUp, serverVars>>
           /\ ClientInv(b) /\ ClientInv(b)' /\ Single(b) /\ OrderlySingle(b)
           /\ \A c \in Clients \ {b} :
                 /\ Untouched(c) /\ ClientInv(c) /\ Single(c) /\ OrderlySingle(c)
                 /\ OrderlyPair(b, c) /\ OrderlyPair(c, b) /\ Pair(b, c) /\ Pair(c, b)
BY ClientStepFacts, StepFrame DEF ScenarioInv, OrderlyInv, GroupInv

-----------------------------------------------------------------------------
(* No step of a client fails *)

LEMMA ExchangerIsOther ==
    ASSUME ScenarioInv, NEW b \in Clients, kpc[b] # "take"
    PROVE  \E d \in Clients \ {b} : exch[b] = Nick[d]
<1>1. /\ RatchetType /\ ExchangerSet(b) /\ ExchangeOpen(b) /\ NotWithSelf(b)
  BY DEF ScenarioInv, GroupInv, ClientInv, ClientsTyped, ExchangeInv
<1>2. exch[b] \in Names /\ exch[b] # Nick[b]
  BY <1>1 DEF ExchangerSet, ExchangeOpen, RatchetType, NotWithSelf
<1> QED
  BY <1>2 DEF Names

\* A request that a client has in its hands is one that its sender waits with.
LEMMA TakenRequest ==
    ASSUME ScenarioInv, NEW b \in Clients, Up(b),
           hstate[b] = "send_dh", Wakes(b, "rcv_first")
    PROVE  \E d \in Clients \ {b} :
              /\ shaker[b] = Nick[d] /\ Takes(b, d) /\ AsksPeer(d, b)
              /\ Nick[d] \notin known[b] /\ Requested(d, b)
<1>1. /\ Engaged(b) /\ HandshakeOwner(b) /\ NotSelf(b) /\ HandshakeLocals(b)
  BY DEF ScenarioInv, GroupInv, ClientInv, Single, OrderlyInv, OrderlySingle
<1>2. shaker[b] \in Names /\ shaker[b] # Nick[b]
  BY <1>1 DEF Engaged, HandshakeLocals, NotSelf, Peers
<1>3. PICK d \in Clients \ {b} : shaker[b] = Nick[d]
  BY <1>2 DEF Names
<1>4. Takes(b, d) /\ ~AsksPeer(b, d)
  BY <1>1, <1>3 DEF Takes, HandshakeOwner, AsksPeer
<1>5. AsksOnce(d, b) /\ AsksOnce(b, d)
  BY DEF ScenarioInv, OrderlyInv, OrderlyPair
<1>6. AsksPeer(d, b)
  BY <1>4, <1>5 DEF AsksOnce, Silent
<1>7. Nick[d] \notin known[b] /\ Requested(d, b)
  BY <1>4, <1>5, <1>6 DEF AsksOnce, Answered
<1> QED
  BY <1>3, <1>4, <1>6, <1>7

LEMMA ClientNeverFails ==
    ASSUME ScenarioInv, NEW b \in Clients, ClientStep(b)
    PROVE  status'[b] # "faulted"
<1>1. /\ ClientsTyped /\ ClientInv(b) /\ Single(b) /\ OrderlySingle(b) /\ serverUp
      /\ \A d \in Clients \ {b} : OrderlyPair(b, d) /\ OrderlyPair(d, b)
      /\ DhWakeup(b) /\ Engaged(b) /\ HandshakeOwner(b) /\ LocalsReady(b) /\ QueueType
  BY StepFacts DEF ScenarioInv, OrderlyInv, ClientInv, ClientsTyped
<1>2. status[b] # "faulted" /\ status \in [Clients -> Status]
  BY <1>1 DEF OrderlySingle, ClientsTyped, MachineType
<1>3. inbox[b] # <<>> =>
         /\ inbox[b] \in Seq(Message) /\ Head(inbox[b]) \in Message
         /\ Head(inbox[b]) \in ToSet(inbox[b])
  BY <1>1, StreamTail DEF ClientsTyped, NetType
<1>4. CASE UNCHANGED status
  BY <1>2, <1>4
<1>5. CASE Connect(b) \/ InputQuit(b) \/ Exit(b)
  BY <1>2, <1>5 DEF Connect, InputQuit, Exit
<1>6. CASE RecvClosed(b) \/ SendFails(b)
  BY <1>1, <1>6 DEF RecvClosed, SendFails
<1>7. CASE RecvMessage(b)
  <2>1. Head(inbox[b]) \in ToSet(inbox[b]) /\ Head(inbox[b]).type = "message"
        /\ Head(inbox[b]) \in Message
    BY <1>3, <1>7 DEF RecvMessage, Receiving
  <2>2. Head(inbox[b]).from \in Names
    BY <2>1, MessageKinds DEF ChatMsgs
  <2>3. Head(inbox[b]).from # Nick[b]
    BY <1>1, <2>1 DEF OrderlySingle, NoEcho
  <2>4. PICK d \in Clients \ {b} : Head(inbox[b]).from = Nick[d]
    BY <2>2, <2>3 DEF Names
  <2>5. /\ Nick[d] \in known[b] /\ sender[b][Nick[d]] = d /\ Head(inbox[b]).body = d
    BY <1>1, <2>1 DEF OrderlyPair, LinesReadable
  <2> QED  BY <1>2, <1>7, <2>4, <2>5 DEF RecvMessage
<1>8. CASE RecvSenderKey(b)
  <2>1. Head(inbox[b]) \in ToSet(inbox[b]) /\ Head(inbox[b]).type = "sender_key"
        /\ Head(inbox[b]) \in Message
    BY <1>3, <1>8 DEF RecvSenderKey, Receiving
  <2>2. Head(inbox[b]).from \in Names
    BY <2>1, MessageKinds DEF KeyMsgs
  <2>3. Head(inbox[b]).from # Nick[b]
    BY <1>1, <2>1 DEF OrderlySingle, NoEcho
  <2>4. PICK d \in Clients \ {b} : Head(inbox[b]).from = Nick[d]
    BY <2>2, <2>3 DEF Names
  <2>5. Head(inbox[b]).body = [key |-> session[d][Nick[b]], val |-> d]
    BY <1>1, <2>1 DEF OrderlyPair, ExchangeMeant
  <2>6. Exchanging(b)
    BY <2>1 DEF Exchanging
  <2>7. Up(b) /\ Up(d) /\ Nick[d] \in known[b] /\ Nick[b] \in known[d]
    BY <1>1, <2>6 DEF OrderlyPair, ExchangeMeant
  <2>8. session[b][Nick[d]] = session[d][Nick[b]]
    BY <2>7, PeersAgree DEF PeerSessionAgrees, Online, Up, ScenarioInv, OrderlyScenario
  <2> QED  BY <1>2, <1>8, <2>4, <2>5, <2>7, <2>8 DEF RecvSenderKey
<1>9. CASE RecvEnter(b) \/ RecvLeave(b)
  <2>1. Head(inbox[b]) \in ToSet(inbox[b]) /\ Head(inbox[b]).type \in {"enter", "leave"}
    BY <1>3, <1>9 DEF RecvEnter, RecvLeave, Receiving
  <2>2. OpensNotice(b, Head(inbox[b]))
    BY <1>1, <2>1 DEF OrderlySingle, NoticesReadable, OpensNotice
  <2> QED  BY <1>2, <1>9, <2>2 DEF RecvEnter, RecvLeave
<1>10. CASE HTake(b)
  <2>1. Up(b) /\ hstate[b] = "send_dh" /\ dhq[b] # <<>>
    BY <1>1, <1>10 DEF HTake, DhWakeup, Up
  <2>2. CASE HRequest(b)
    BY <1>2, <2>2 DEF HRequest
  <2>3. CASE HRespond(b) /\ Head(dhq[b]) # "send_first"
    <3>1. dhq[b] = <<"rcv_first">>
      BY <1>1, <2>1, <2>3 DEF QueueType, Token
    <3>2. PICK d \in Clients \ {b} : shaker[b] = Nick[d] /\ Nick[d] \notin known[b]
      BY <2>1, <3>1, TakenRequest DEF Wakes
    <3>3. CanAdd(b, shaker[b])
      BY <3>2, ProtocolAssumption DEF CanAdd
    <3> QED  BY <1>2, <2>3, <3>3 DEF HRespond
  <2> QED  BY <1>10, <2>1, <2>2, <2>3 DEF HTake
<1>11. CASE HDone(b)
  <2>1. hstate[b] = "rcved_dh"
    BY <1>11 DEF HDone
  <2>2. shaker[b] \notin known[b] /\ shaker[b] \in Peers
    BY <1>1, <2>1 DEF Single, SecondRefused, Engaged
  <2>3. CanAdd(b, shaker[b])
    BY <2>2, PeerFacts DEF CanAdd
  <2> QED  BY <1>2, <1>11, <2>3 DEF HDone
<1>12. CASE HCheck(b)
  BY <1>1, <1>2, <1>12 DEF HCheck, OrderlySingle, HandshakeLocals
<1>13. CASE KReadKey(b)
  <2>1. kpc[b] = "read_key"
    BY <1>13 DEF KReadKey
  <2>2. PICK d \in Clients \ {b} : exch[b] = Nick[d]
    BY <2>1, ExchangerIsOther
  <2>3. Exchanging(b)
    BY <1>1, <2>1 DEF ClientInv, ExchangeOpen, Exchanging
  <2>4. Nick[d] \in known[b]
    BY <1>1, <2>3 DEF OrderlyPair, ExchangeMeant
  <2>5. session[b][Nick[d]] # NoKey
    <3>1. GroupInv /\ DistinctNicks
      BY DEF ScenarioInv, OrderlyScenario
    <3>2. PICK u, v \in Num : /\ session[b][Nick[d]] = ClientKey({u, v})
                              /\ session[b][Nick[d]].secret = {u, v}
                              /\ u.by = b /\ v.by = d /\ v \in Heard(b)
      BY <2>4, <3>1, TwoNumbers
    <3> QED  BY <3>2 DEF NoKey
  <2> QED  BY <1>2, <1>13, <2>2, <2>4, <2>5 DEF KReadKey, ExchangeKey
<1> QED
  BY <1>4, <1>5, <1>6, <1>7, <1>8, <1>9, <1>10, <1>11, <1>12, <1>13, StepFacts DEF Frame

-----------------------------------------------------------------------------
(* Who is here, and who rests: steps of a client *)

\* Otherwise than by failing, clients come and go in three steps.
LEMMA ComesOrGoes ==
    ASSUME ScenarioInv, NEW b \in Clients, ClientStep(b)
    PROVE  UNCHANGED status \/ Connect(b) \/ InputQuit(b) \/ Exit(b)
<1>1. status'[b] # "faulted" /\ status \in [Clients -> Status] /\ Frame(b)
  BY ClientNeverFails, StepFacts DEF ClientsTyped, MachineType
<1>2. ASSUME Fault(b) PROVE FALSE
  BY <1>1, <1>2 DEF Fault
<1>3. CASE RecvMessage(b) \/ RecvSenderKey(b) \/ RecvEnter(b) \/ RecvLeave(b) \/ RecvClosed(b)
  BY <1>2, <1>3 DEF RecvMessage, RecvSenderKey, RecvEnter, RecvLeave, RecvClosed
<1>4. CASE HTake(b)
  BY <1>1, <1>4 DEF HTake, HRequest, HRespond
<1>5. CASE HDone(b) \/ HCheck(b) \/ KReadKey(b) \/ SendFails(b)
  BY <1>2, <1>5 DEF HDone, HCheck, KReadKey, SendFails
<1> QED
  BY <1>1, <1>3, <1>4, <1>5 DEF Frame

\* Who is not up comes or goes.
LEMMA AwayStep ==
    ASSUME NEW b \in Clients, TaskNext(b), ~Up(b)
    PROVE  Connect(b) \/ Exit(b)
<1>1. ~RNext(b)
  BY DEF Up, RNext, RecvMessage, RecvDh, RecvSenderKey, RecvEnter, RecvLeave, Receiving,
     RecvClosed, PutDh, PutKey
<1>2. ~HNext(b)
  BY DEF Up, HNext, HTake, HAnswer, HResend, HDone, HCheck, HStartKey, HPutKey
<1>3. ~KNext(b)
  BY DEF Up, KNext, KTake, KReadKey, KReadTo, KMark, KResend, KSeen, KAnswer, KFinish
<1>4. INext(b) => Exit(b)
  BY DEF Up, INext, InputLine, InputQuit, SendFails
<1> QED
  BY <1>1, <1>2, <1>3, <1>4 DEF TaskNext

\* R reads a message, in a client that goes on.
Receives(b) ==
    RecvMessage(b) \/ RecvDh(b) \/ RecvSenderKey(b) \/ RecvEnter(b) \/ RecvLeave(b)

\* Who rests reads its socket, or its user does something.
LEMMA RestingStep ==
    ASSUME ScenarioInv, NEW b \in Clients, ClientStep(b), Up(b), Resting(b)
    PROVE  Receives(b) \/ (Settled /\ (InputLine(b) \/ InputQuit(b)))
<1>1. /\ DhWakeup(b) /\ serverUp /\ TaskNext(b)
  BY StepFacts DEF ClientInv
<1>2. dhq[b] = <<>>
  BY <1>1 DEF DhWakeup, Resting, Up
<1>3. RNext(b) => Receives(b)
  BY <1>1 DEF RNext, Receives, RecvClosed, PutDh, PutKey, Resting
<1>4. ~HNext(b)
  BY <1>2 DEF Resting, HNext, HTake, HAnswer, HResend, HDone, HCheck, HStartKey, HPutKey
<1>5. ~KNext(b)
  BY DEF Resting, KNext, KTake, KReadKey, KReadTo, KMark, KResend, KSeen, KAnswer, KFinish
<1>6. INext(b) => InputLine(b) \/ InputQuit(b)
  BY <1>1 DEF INext, SendFails, Exit, Up
<1>7. ~Connect(b)
  BY DEF Up, Connect
<1> QED
  BY <1>1, <1>3, <1>4, <1>5, <1>6, <1>7, PatientStep DEF TaskNext, ScenarioInv

LEMMA RestsStep ==
    ASSUME ScenarioInv, NEW b \in Clients, ClientStep(b)
    PROVE  RestsUnlessUp(b)'
<1>1. /\ RestsUnlessUp(b) /\ status \in [Clients -> Status] /\ TaskNext(b)
      /\ UNCHANGED members
  BY StepFacts DEF OrderlySingle, ClientsTyped, MachineType, serverVars, memVars
<1>2. CASE Connect(b)
  BY <1>1, <1>2 DEF Connect, RestsUnlessUp, Up
<1>3. CASE InputQuit(b)
  <2>1. Settled /\ Up(b)
    BY <1>3, PatientStep DEF ScenarioInv, InputQuit, Up
  <2>2. Resting(b) /\ b \in members
    BY <2>1, SettledFacts
  <2> QED  BY <1>1, <1>3, <2>2 DEF InputQuit, RestsUnlessUp, Resting
<1>4. CASE Exit(b)
  BY <1>1, <1>4 DEF Exit, NetClose, RestsUnlessUp, Resting, Up
<1>5. CASE UNCHANGED status /\ ~Connect(b) /\ ~Exit(b)
  <2>1. Up(b)
    BY <1>1, <1>5, AwayStep
  <2> QED  BY <1>5, <2>1 DEF RestsUnlessUp, Up
<1> QED
  BY <1>2, <1>3, <1>4, <1>5, ComesOrGoes

\* A step of b and the conditions on who else may be there.
LEMMA JoinsLeavesStep ==
    ASSUME ScenarioInv, NEW b \in Clients, ClientStep(b), NEW d \in Clients \ {b}
    PROVE  /\ JoinsAlone(b, d)' /\ LeavesAlone(b, d)'
           /\ JoinsAlone(d, b)' /\ LeavesAlone(d, b)'
<1>1. /\ status \in [Clients -> Status] /\ TaskNext(b) /\ UNCHANGED members
      /\ JoinsAlone(b, d) /\ LeavesAlone(b, d) /\ JoinsAlone(d, b) /\ LeavesAlone(d, b)
      /\ Untouched(d) /\ ClientsTyped /\ ClientInv(b) /\ ClientsTyped'
  BY StepFacts DEF OrderlyPair, ClientsTyped, MachineType, serverVars, memVars
<1>2. /\ Up(d)' = Up(d) /\ (Resting(d)' <=> Resting(d)) /\ inbox'[d] = inbox[d]
      /\ (Absent(d)' <=> Absent(d)) /\ known'[d] = known[d] /\ status'[d] = status[d]
  BY <1>1 DEF Untouched, Up, Resting, Absent
<1>3. "server" \in known[b] => "server" \in known'[b]
  BY <1>1, ServerEntry
<1>4. ASSUME Settled
      PROVE  /\ Up(d) => Resting(d) /\ inbox[d] = <<>> /\ "server" \in known[d]
             /\ ~Up(d) => Absent(d)
             /\ Up(b) => "server" \in known[b]
             /\ ~(status[d] \in {"quit", "closed"} /\ d \in members)
  BY <1>4, SettledFacts DEF Absent, Up
<1>5. CASE Connect(b)
  <2>1. Settled /\ status[b] = "off" /\ status'[b] = "up"
    BY <1>1, <1>5, PatientStep DEF ScenarioInv, Connect
  <2> QED  BY <1>1, <1>2, <1>4, <2>1 DEF JoinsAlone, LeavesAlone, Up
<1>6. CASE InputQuit(b)
  <2>1. Settled /\ status[b] = "up" /\ status'[b] = "quit"
    BY <1>1, <1>6, PatientStep DEF ScenarioInv, InputQuit
  <2> QED  BY <1>1, <1>2, <1>4, <2>1 DEF JoinsAlone, LeavesAlone, Up
<1>7. CASE Exit(b)
  <2>1. status'[b] = "closed" /\ status[b] \in {"quit", "faulted"}
    BY <1>1, <1>7 DEF Exit
  <2>2. status[b] = "quit"
    BY <2>1, StepFacts DEF OrderlySingle
  <2> QED  BY <1>1, <1>2, <2>1, <2>2 DEF JoinsAlone, LeavesAlone, Up, Absent
<1>8. CASE UNCHANGED status
  <2>1. (Up(b)' <=> Up(b)) /\ status'[b] = status[b] /\ (Absent(b)' <=> Absent(b))
    BY <1>1, <1>8 DEF Up, Absent
  <2>2. JoinsAlone(b, d)' /\ JoinsAlone(d, b)' /\ LeavesAlone(b, d)'
    BY <1>1, <1>2, <1>3, <2>1 DEF JoinsAlone, LeavesAlone
  <2>3. LeavesAlone(d, b)'
    <3> SUFFICES ASSUME status[d] \in {"quit", "closed"}, d \in members,
                        Up(b), Resting(b), inbox[b] = <<>>
                 PROVE  FALSE
      BY <1>1, <1>2, <2>1 DEF LeavesAlone
    <3>1. ~Receives(b)
      BY DEF Receives, RecvMessage, RecvDh, RecvSenderKey, RecvEnter, RecvLeave, Receiving
    <3> QED  BY <1>4, <3>1, RestingStep
  <2> QED  BY <2>2, <2>3
<1> QED
  BY <1>5, <1>6, <1>7, <1>8, ComesOrGoes

\* Nothing new comes into a socket by the step of a client.
LEMMA SocketsShrink ==
    ASSUME ScenarioInv, NEW b \in Clients, ClientStep(b), NEW c \in Clients
    PROVE  ToSet(inbox'[c]) \subseteq ToSet(inbox[c])
<1>1. CASE c # b
  BY <1>1, StepFacts DEF Untouched
<1>2. CASE c = b
  <2>1. Reads(b) /\ inbox[b] \in Seq(Message) /\ inbox'[b] \in Seq(Message)
    BY StepFacts, ClientStepFacts DEF ScenarioInv, ClientsTyped, NetType
  <2>2. CASE \A i \in 1..Len(inbox'[b]) :
                i + 1 \in 1..Len(inbox[b]) /\ inbox'[b][i] = inbox[b][i + 1]
    <3>1. ASSUME NEW x \in ToSet(inbox'[b]) PROVE x \in ToSet(inbox[b])
      <4>1. PICK i \in DOMAIN inbox'[b] : inbox'[b][i] = x
        BY DEF ToSet
      <4>2. i \in 1..Len(inbox'[b]) /\ DOMAIN inbox[b] = 1..Len(inbox[b])
        BY <2>1, <4>1
      <4> QED  BY <2>2, <4>1, <4>2 DEF ToSet
    <3> QED  BY <1>2, <3>1
  <2> QED  BY <1>2, <2>1, <2>2 DEF Reads
<1> QED
  BY <1>1, <1>2

LEMMA ToldStep ==
    ASSUME ScenarioInv, NEW b \in Clients, ClientStep(b), NEW d \in Clients \ {b}
    PROVE  ToldAlone(b, d)' /\ ToldAlone(d, b)'
<1>1. /\ status \in [Clients -> Status] /\ TaskNext(b) /\ UNCHANGED members
      /\ ToldAlone(b, d) /\ ToldAlone(d, b) /\ Untouched(d) /\ ClientsTyped
      /\ status[b] # "faulted" /\ inbox[b] \in Seq(Message)
  BY StepFacts DEF OrderlyPair, ClientsTyped, MachineType, serverVars, memVars, OrderlySingle,
     NetType
<1>2. ToldAlone(b, d)'
  <2>1. status[b] # "closed"
    BY <1>1, AwayStep DEF Up, Connect, Exit
  <2>2. inbox'[d] = inbox[d]
    BY <1>1 DEF Untouched
  <2> QED  BY <1>1, <2>1, <2>2 DEF ToldAlone
<1>3. ToldAlone(d, b)'
  <2> SUFFICES ASSUME NEW m \in ToSet(inbox'[b]), m.type = "leave" PROVE ToldAlone(d, b)'
    BY DEF ToldAlone
  <2>1. m \in ToSet(inbox[b])
    BY SocketsShrink
  <2>2. /\ status[d] = "closed" /\ d \notin members /\ Up(b) /\ Resting(b)
        /\ \A x \in ToSet(inbox[b]) : x.type = "leave"
    BY <1>1, <2>1 DEF ToldAlone
  <2>3. ~Settled
    <3>1. inbox[b] # <<>>
      BY <2>1 DEF ToSet
    <3> QED  BY <2>2, <3>1, SettledFacts
  <2>4. inbox[b] # <<>> => Head(inbox[b]).type = "leave"
    BY <1>1, <2>2, StreamTail
  <2>5. RecvLeave(b)
    BY <2>2, <2>3, <2>4, RestingStep
       DEF Receives, RecvMessage, RecvDh, RecvSenderKey, RecvEnter, Receiving
  <2>6. UNCHANGED <<status, outbox, hVars, hsVars, ratVars, kVars, keyq, rVars>>
    <3>1. ~Fault(b)
      BY <1>1, ClientNeverFails DEF Fault
    <3> QED  BY <2>5, <3>1 DEF RecvLeave, Take, NetTake
  <2>7. \A x \in ToSet(inbox'[b]) : x.type = "leave"
    BY <2>2, SocketsShrink
  <2> QED  BY <1>1, <2>2, <2>6, <2>7 DEF ToldAlone, Up, Resting, Untouched
<1> QED
  BY <1>2, <1>3

LEMMA AcceptedStep ==
    ASSUME ScenarioInv, NEW b \in Clients, ClientStep(b)
    PROVE  AcceptedOnce'
<1>1. /\ AcceptedOnce /\ backlog \in Seq(Clients) /\ accepted \in Seq(Clients)
      /\ UNCHANGED <<members, accepted>> /\ status \in [Clients -> Status] /\ TaskNext(b)
      /\ ClientInv(b) /\ ClientsTyped
  BY StepFacts DEF ScenarioInv, OrderlyInv, GroupInv, ServerInv, WireType, serverVars, memVars,
     ClientsTyped, MachineType
<1>2. \A c \in Clients : status[c] # "off" => status'[c] # "off"
  BY <1>1, StatusStep, StepFacts DEF Untouched
<1>3. ToSet(accepted) \subseteq Clients /\ ToSet(backlog) \subseteq Clients
  BY <1>1 DEF ToSet
<1>4. CASE Connect(b)
  <2>1. /\ status[b] = "off" /\ backlog' = Append(backlog, b)
        /\ Up(b)' /\ \A c \in Clients : Up(c) => Up(c)'
    BY <1>1, <1>4 DEF Connect, NetConnect, Up
  <2>2. b \notin ToSet(accepted) /\ b \notin ToSet(backlog)
    BY <1>1, <2>1 DEF AcceptedOnce, Up
  <2>3. /\ Len(backlog) \in Nat /\ DOMAIN backlog = 1..Len(backlog)
        /\ DOMAIN backlog' = 1..(Len(backlog) + 1) /\ backlog'[Len(backlog) + 1] = b
        /\ \A i \in 1..Len(backlog) : backlog'[i] = backlog[i]
    BY <1>1, <2>1
  <2>4. ToSet(backlog') = ToSet(backlog) \cup {b}
    <3>1. \A x \in ToSet(backlog') : x \in ToSet(backlog) \cup {b}
      BY <2>3 DEF ToSet
    <3>2. \A x \in ToSet(backlog) \cup {b} : x \in ToSet(backlog')
      BY <2>3 DEF ToSet
    <3> QED  BY <3>1, <3>2
  <2>5. IsInjective(backlog')
    <3>1. \A i \in 1..Len(backlog) : backlog[i] # b
      BY <2>2, <2>3 DEF ToSet
    <3>2. \A i, j \in 1..Len(backlog) : backlog[i] = backlog[j] => i = j
      BY <1>1, <2>3 DEF AcceptedOnce, IsInjective
    <3> QED  BY <2>3, <3>1, <3>2 DEF IsInjective
  <2> QED  BY <1>1, <1>2, <1>3, <2>1, <2>2, <2>4, <2>5 DEF AcceptedOnce
<1>5. CASE ~Connect(b)
  <2>1. UNCHANGED backlog
    BY <1>5, StepFacts DEF Frame, Exit, NetClose
  <2>2. ASSUME NEW c \in ToSet(backlog) PROVE Up(c)'
    <3>1. Up(c) /\ c \in Clients /\ c \notin members
      BY <1>1, <1>3 DEF AcceptedOnce
    <3>2. ~InputQuit(b) \/ c # b
      <4>1. InputQuit(b) => Settled
        BY PatientStep DEF ScenarioInv
      <4> QED  BY <3>1, <4>1, SettledFacts
    <3> QED  BY <1>1, <1>5, <3>1, <3>2, ComesOrGoes DEF Up, InputQuit, Exit
  <2> QED  BY <1>1, <1>2, <1>3, <2>1, <2>2 DEF AcceptedOnce
<1> QED
  BY <1>4, <1>5

\* The server's entry and its key stay.
LEMMA ServerEntryStays ==
    ASSUME GroupInv, NEW b \in Clients, ClientStep(b), NEW c \in Clients,
           "server" \in known[c]
    PROVE  "server" \in known'[c] /\ session'[c]["server"] = session[c]["server"]
<1>1. CASE c # b
  BY <1>1, ClientStepFacts DEF Untouched
<1>2. CASE c = b
  <2>1. MachineMove(b) /\ ClientsTyped /\ ClientInv(b) /\ TaskNext(b)
    BY ClientStepFacts DEF GroupInv
  <2>2. "server" \in known'[b]
    BY <1>2, <2>1, ServerEntry
  <2>3. CASE DicSame(b) \/ Joins(b) \/ Begins(b) \/ Completes(b) \/ Asks(b)
    BY <1>2, <2>2, <2>3 DEF DicSame, Joins, Begins, Completes, Asks
  <2>4. CASE Files(b)
    BY <1>2, <2>2, <2>4 DEF Files, Peers
  <2>5. CASE Drops(b)
    <3>1. Head(inbox[b]).body.name # "server"
      <4>1. Head(inbox[b]) \in LeaveMsgs
        BY <2>1, <2>5, HeadOfInbox, MessageKinds DEF Drops
      <4> QED  BY <4>1, NameFacts DEF LeaveMsgs
    <3> QED  BY <1>2, <2>2, <2>5, <3>1 DEF Drops, Peers
  <2> QED  BY <2>1, <2>3, <2>4, <2>5 DEF MachineMove
<1> QED
  BY <1>1, <1>2

LEMMA ServerKeyStays ==
    ASSUME ScenarioInv, NEW b \in Clients, ClientStep(b), NEW c \in Clients,
           "server" \in known[c]
    PROVE  "server" \in known'[c] /\ session'[c]["server"] = session[c]["server"]
BY ServerEntryStays DEF ScenarioInv

LEMMA NoticesStep ==
    ASSUME ScenarioInv, NEW b \in Clients, ClientStep(b)
    PROVE  NoEcho(b)' /\ NoticesReadable(b)'
<1>1. NoEcho(b) /\ NoticesReadable(b)
  BY StepFacts DEF OrderlySingle
<1> QED
  BY <1>1, SocketsShrink, ServerKeyStays DEF NoEcho, NoticesReadable

-----------------------------------------------------------------------------
(* The handshake with the server: steps of a client *)

\* Which token, if any, H is about to get.
LEMMA WakesFacts ==
    ASSUME ScenarioInv, NEW b \in Clients, Up(b)
    PROVE  /\ hstate[b] = "idle" => dhq[b] = <<>> /\ rpc[b] # "put_dh"
           /\ \A t : Wakes(b, t) => hstate[b] = "send_dh" /\ hpc[b] # "resend"
           /\ ~(Wakes(b, "send_first") /\ Wakes(b, "rcv_first"))
           /\ dhq[b] # <<>> => dhq[b] = <<"send_first">> \/ dhq[b] = <<"rcv_first">>
<1>1. DhWakeup(b) /\ QueueType /\ HandshakeOwner(b) /\ LocalType
  BY DEF ScenarioInv, GroupInv, ClientInv, ClientsTyped
<1>2. dhq[b] # <<>> => dhq[b] = <<"send_first">> \/ dhq[b] = <<"rcv_first">>
  BY <1>1 DEF QueueType, Token
<1> QED
  BY <1>1, <1>2 DEF DhWakeup, Up, HandshakeOwner, Wakes

LEMMA LocalsStep ==
    ASSUME ScenarioInv, NEW b \in Clients, ClientStep(b)
    PROVE  HandshakeLocals(b)'
<1>1. /\ HandshakeLocals(b) /\ ClientsTyped /\ ClientInv(b) /\ TaskNext(b) /\ Frame(b)
      /\ LocalType /\ MachineType /\ QueueType /\ DictType /\ LocalsReady(b)
  BY StepFacts DEF OrderlySingle, ClientsTyped, ClientInv
<1>2. status'[b] # "faulted" /\ status \in [Clients -> Status]
  BY <1>1, ClientNeverFails DEF MachineType
<1> DEFINE Three == /\ hpc'[b] # "resend" => hsent'[b] = 0
                    /\ hpc'[b] = "answer" => hmsg'[b].to # "server"
                    /\ hpc'[b] = "check" => hcur'[b] \in known'[b]
<1>3. Three
  <2>1. CASE HTake(b)
    <3>1. Up(b) /\ hpc[b] = "take" /\ hsent[b] = 0 /\ dhq[b] # <<>>
      BY <1>1, <2>1 DEF HTake, HandshakeLocals, Up
    <3>2. CASE Head(dhq[b]) = "send_first" \/ hstate[b] # "send_dh"
      BY <1>1, <2>1, <3>1, <3>2 DEF HTake, HRequest, LocalType
    <3>3. CASE Head(dhq[b]) # "send_first" /\ hstate[b] = "send_dh"
      <4>1. Wakes(b, "rcv_first")
        BY <3>1, <3>3, WakesFacts DEF Wakes
      <4>2. shaker[b] # "server" /\ HRespond(b)
        BY <1>1, <2>1, <3>3, <4>1 DEF HandshakeLocals, HTake
      <4> QED  BY <1>1, <1>2, <3>1, <4>2 DEF HRespond, LocalType, BuildJson
    <3> QED  BY <3>2, <3>3
  <2>2. CASE HAnswer(b) \/ HResend(b) \/ HPutKey(b)
    BY <1>1, <2>2 DEF HAnswer, HResend, HPutKey, HandshakeLocals, LocalType
  <2>3. CASE HDone(b)
    <3>1. SetMyState_ToIdle(b) /\ hcur'[b] = shaker[b] /\ hsent'[b] = 0 /\ hpc'[b] = "check"
      BY <1>1, <1>2, <2>3 DEF HDone, Fault, LocalType
    <3>2. shaker[b] \in known'[b]
      BY <1>1, <3>1 DEF SetMyState_ToIdle, GetSharedSecret, DictType
    <3> QED  BY <3>1, <3>2
  <2>4. CASE HCheck(b)
    BY <1>1, <1>2, <2>4 DEF HCheck, Fault, HandshakeLocals, LocalType
  <2>5. CASE HStartKey(b)
    BY <1>1, <2>5 DEF HStartKey, HandshakeLocals, LocalType
  <2>6. CASE UNCHANGED hVars /\ UNCHANGED known
    BY <1>1, <2>6 DEF HandshakeLocals
  <2>7. CASE RecvLeave(b)
    <3>1. inbox[b] # <<>> /\ inbox[b] \in Seq(Message) /\ Head(inbox[b]).type = "leave"
      BY <1>1, <2>7 DEF RecvLeave, Receiving, ClientsTyped, NetType
    <3>2. Head(inbox[b]) \in LeaveMsgs /\ Head(inbox[b]) \in ToSet(inbox[b])
      BY <3>1, StreamTail, MessageKinds, HeadOfInbox, <1>1
    <3>3. UNCHANGED hVars
      BY <2>7 DEF RecvLeave, Fault
    <3>4. CASE \E d \in Clients : d # b
      <4>1. PICK d \in Clients \ {b} : TRUE
        BY <3>4
      <4>2. ToldAlone(d, b)
        BY StepFacts DEF OrderlyPair
      <4>3. hpc[b] = "take"
        BY <3>1, <3>2, <4>2 DEF ToldAlone, Resting
      <4> QED  BY <1>1, <3>3, <4>3 DEF HandshakeLocals
    <3>5. CASE \A d \in Clients : d = b
      <4>1. hpc[b] = "check" => hcur[b] = "server"
        <5>1. hpc[b] = "check" => hcur[b] \in Peers /\ hcur[b] # Nick[b]
          BY <1>1 DEF LocalsReady, ScenarioInv, ExchangeInv, NotWithSelf
        <5>2. \A n \in Peers : n = "server" \/ n = Nick[b]
          BY <3>5 DEF Peers, Names
        <5> QED  BY <5>1, <5>2
      <4>2. "server" \in known[b] => "server" \in known'[b]
        BY <1>1, ServerEntry
      <4> QED  BY <1>1, <3>3, <4>1, <4>2 DEF HandshakeLocals
    <3> QED  BY <3>4, <3>5
  <2>8. CASE Connect(b)
    <3>1. hpc[b] = "take" /\ UNCHANGED hVars
      BY <1>1, <2>8 DEF Connect, ClientInv, Unborn
    <3> QED  BY <1>1, <3>1 DEF HandshakeLocals
  <2>9. CASE RecvSenderKey(b)
    BY <2>6, <2>9 DEF RecvSenderKey, Fault
  <2> QED
    BY <1>1, <2>1, <2>2, <2>3, <2>4, <2>5, <2>6, <2>7, <2>8, <2>9 DEF Frame
<1>4. hstate'[b] = "send_dh" /\ Wakes(b, "rcv_first")' => shaker'[b] # "server"
  <2>1. CASE Connect(b)
    <3>1. dhq'[b] = <<"send_first">> /\ rpc'[b] = "recv"
      BY <1>1, <2>1 DEF Connect, ClientInv, Unborn, QueueType
    <3> QED  BY <3>1 DEF Wakes
  <2>2. CASE RecvDh(b)
    <3>1. Up(b) /\ rpc[b] = "recv" /\ UNCHANGED dhq
      BY <2>2 DEF RecvDh, Receiving, Up
    <3>2. CASE hstate[b] = "idle"
      <4>1. inbox[b] # <<>> /\ Head(inbox[b]).type = "dh" /\ inbox[b] \in Seq(Message)
        BY <1>1, <2>2 DEF RecvDh, Receiving, ClientsTyped, NetType
      <4>2. Head(inbox[b]).from # "server"
        <5> SUFFICES ASSUME Head(inbox[b]).from = "server" PROVE FALSE
          OBVIOUS
        <5>1. NumbersFrom(inbox[b], "server") # {}
          BY <4>1, StreamTail DEF NumberFrom
        <5>2. AsksServer(b)
          BY <5>1, StepFacts DEF OrderlySingle, ServerOnce
        <5> QED  BY <3>2, <5>2 DEF AsksServer
      <4>3. shaker'[b] = Head(inbox[b]).from
        BY <1>1, <2>2, <3>2 DEF RecvDh, IsAnswer, MachineType
      <4> QED  BY <4>2, <4>3
    <3>3. CASE hstate[b] # "idle"
      BY <1>1, <2>2, <3>1, <3>3
         DEF RecvDh, IsAnswer, HandshakeLocals, Wakes, SetMyState_ToRcvedDH, SetHState, MachineType
    <3> QED  BY <3>2, <3>3
  <2>3. CASE RecvEnter(b)
    <3>1. Up(b) /\ rpc[b] = "recv" /\ UNCHANGED dhq
      BY <2>3 DEF RecvEnter, Receiving, Up, Fault
    <3>2. CASE hstate[b] = "idle"
      <4>1. dhq[b] = <<>>
        BY <3>1, <3>2, WakesFacts
      <4>2. UNCHANGED rpc \/ rtok'[b] = "send_first"
        BY <1>1, <2>3 DEF RecvEnter, Fault, LocalType
      <4> QED  BY <3>1, <4>1, <4>2 DEF Wakes
    <3>3. CASE hstate[b] # "idle"
      BY <1>1, <2>3, <3>3 DEF RecvEnter, Fault, HandshakeLocals, Wakes
    <3> QED  BY <3>2, <3>3
  <2>4. CASE HTake(b) \/ HDone(b)
    <3>1. Up(b) /\ (HTake(b) => dhq[b] # <<>> /\ dhq'[b] = <<>> /\ UNCHANGED rVars)
      BY <1>1, <2>4 DEF HTake, HDone, Up, QueueType
    <3>2. HTake(b) => ~Wakes(b, "rcv_first")'
      BY <1>1, <3>1 DEF Wakes, ClientInv, DhWakeup, Up
    <3>3. HDone(b) => hstate'[b] # "send_dh"
      BY <1>1, <1>2 DEF HDone, Fault, SetMyState_ToIdle, ResetMachine, SetHState, MachineType
    <3> QED  BY <2>4, <3>2, <3>3
  <2>5. CASE UNCHANGED hsVars
    <3>1. CASE PutDh(b)
      <4>1. Wakes(b, "rcv_first")' => Wakes(b, "rcv_first")
        BY <1>1, <3>1 DEF PutDh, Wakes, LocalType, QueueType
      <4> QED  BY <1>1, <2>5, <4>1 DEF HandshakeLocals
    <3>2. CASE RecvSenderKey(b) \/ PutKey(b)
      <4>1. Wakes(b, "rcv_first")' => Wakes(b, "rcv_first")
        BY <1>1, <3>2 DEF RecvSenderKey, PutKey, Fault, Wakes, LocalType, QueueType
      <4> QED  BY <1>1, <2>5, <4>1 DEF HandshakeLocals
    <3>3. CASE UNCHANGED rVars /\ UNCHANGED dhq
      BY <1>1, <2>5, <3>3 DEF HandshakeLocals, Wakes
    <3> QED
      BY <1>1, <2>1, <2>2, <2>3, <2>4, <3>1, <3>2, <3>3 DEF Frame
  <2> QED
    BY <1>1, <2>1, <2>2, <2>3, <2>4, <2>5 DEF Frame
<1> QED
  BY <1>3, <1>4 DEF HandshakeLocals

\* Positions and members of a stream.
LEMMA InStream ==
    ASSUME NEW s \in Seq(Message), NEW n
    PROVE  /\ NumbersTo(s, n) # {} <=> \E m \in ToSet(s) : NumberTo(m, n)
           /\ NumbersFrom(s, n) # {} <=> \E m \in ToSet(s) : NumberFrom(m, n)
           /\ EntriesOf(s, n) # {} <=> \E m \in ToSet(s) : EntryOf(m, n)
<1>1. DOMAIN s = 1..Len(s)
  OBVIOUS
<1>2. NumbersTo(s, n) # {} <=> \E m \in ToSet(s) : NumberTo(m, n)
  BY <1>1 DEF NumbersTo, ToSet
<1>3. NumbersFrom(s, n) # {} <=> \E m \in ToSet(s) : NumberFrom(m, n)
  BY <1>1 DEF NumbersFrom, ToSet
<1>4. EntriesOf(s, n) # {} <=> \E m \in ToSet(s) : EntryOf(m, n)
  BY <1>1 DEF EntriesOf, ToSet
<1> QED
  BY <1>2, <1>3, <1>4

\* What b adds to its stream to the server ...
Adds(b, m) ==
    /\ outbox'[b] = Append(outbox[b], m) /\ m \in Message /\ m.from = Nick[b]
    /\ \/ (HAnswer(b) \/ HResend(b)) /\ m.type = "dh" /\ m = hmsg[b]
       \/ (KAnswer(b) \/ KResend(b)) /\ m.type = "sender_key" /\ m = kmsg[b]
       \/ InputLine(b) /\ m = BuildJson("message", Nick[b], "group", b)

LEMMA SendShape ==
    ASSUME ScenarioInv, NEW b \in Clients, ClientStep(b)
    PROVE  outbox'[b] = outbox[b] \/ \E m : Adds(b, m)
<1>1. /\ TaskNext(b) /\ Frame(b) /\ ClientsTyped /\ ClientInv(b) /\ Single(b)
      /\ outbox \in [Clients -> Seq(Message)] /\ LocalsReady(b)
  BY StepFacts DEF ClientsTyped, NetType, ClientInv
<1>2. CASE HAnswer(b) \/ HResend(b)
  <2>1. hmsg[b] \in DhMsgs /\ outbox'[b] = Append(outbox[b], hmsg[b])
    BY <1>1, <1>2 DEF HAnswer, HResend, LocalsReady, Send, NetSend
  <2>2. hmsg[b] \in Message /\ hmsg[b].type = "dh"
    BY <2>1 DEF Message, DhMsgs
  <2>3. hmsg[b].from = Nick[b]
    BY <1>1, <2>2 DEF Single, SentHonestly, ForItsSession
  <2> QED  BY <1>2, <2>1, <2>2, <2>3 DEF Adds
<1>3. CASE KAnswer(b) \/ KResend(b)
  <2>1. kmsg[b] \in KeyMsgs /\ kmsg[b].from = Nick[b] /\ outbox'[b] = Append(outbox[b], kmsg[b])
    BY <1>1, <1>3 DEF KAnswer, KResend, LocalsReady, Send, NetSend
  <2>2. kmsg[b] \in Message /\ kmsg[b].type = "sender_key"
    BY <2>1 DEF Message, KeyMsgs
  <2> QED  BY <1>3, <2>1, <2>2 DEF Adds
<1>4. CASE InputLine(b)
  <2> DEFINE m == BuildJson("message", Nick[b], "group", b)
  <2>1. outbox'[b] = Append(outbox[b], m)
    BY <1>1, <1>4 DEF InputLine, Send, NetSend
  <2>2. m \in Message /\ m.from = Nick[b]
    BY NameFacts DEF BuildJson, Message, ChatMsgs
  <2> QED  BY <1>4, <2>1, <2>2 DEF Adds
<1> QED
  BY <1>1, <1>2, <1>3, <1>4 DEF Frame

\* ... and what it takes from its socket.
LEMMA ReadShape ==
    ASSUME ScenarioInv, NEW b \in Clients, ClientStep(b)
    PROVE  \/ inbox'[b] = inbox[b] /\ ~Receives(b)
           \/ Receives(b) /\ Up(b) /\ inbox[b] # <<>> /\ inbox'[b] = Tail(inbox[b])
              /\ Head(inbox[b]) \in Message /\ Head(inbox[b]) \in ToSet(inbox[b])
              /\ status' = status
           \/ Exit(b) /\ ~Receives(b) /\ inbox'[b] = <<>>
<1>1. /\ TaskNext(b) /\ Frame(b) /\ ClientsTyped /\ status'[b] # "faulted"
      /\ inbox \in [Clients -> Seq(Message)] /\ status \in [Clients -> Status]
      /\ (inbox[b] # <<>> => Head(inbox[b]) \in Message /\ Head(inbox[b]) \in ToSet(inbox[b]))
  BY StepFacts, ClientNeverFails, StreamTail DEF ClientsTyped, NetType, MachineType
<1>2. CASE Receives(b)
  <2>1. ~Fault(b)
    BY <1>1 DEF Fault
  <2>2. Up(b) /\ inbox[b] # <<>>
    BY <1>2 DEF Receives, RecvMessage, RecvDh, RecvSenderKey, RecvEnter, RecvLeave, Receiving, Up
  <2>3. Take(b) /\ UNCHANGED status
    BY <1>2, <2>1 DEF Receives, RecvMessage, RecvDh, RecvSenderKey, RecvEnter, RecvLeave
  <2>4. inbox'[b] = Tail(inbox[b])
    BY <1>1, <2>3 DEF Take, NetTake
  <2> QED  BY <1>1, <1>2, <2>2, <2>3, <2>4
<1>3. CASE Exit(b)
  <2>1. inbox'[b] = <<>> /\ ~Up(b)
    BY <1>1, <1>3 DEF Exit, NetClose, Up
  <2>2. ~Receives(b)
    BY <2>1 DEF Receives, RecvMessage, RecvDh, RecvSenderKey, RecvEnter, RecvLeave, Receiving, Up
  <2> QED  BY <1>3, <2>1, <2>2
<1> QED
  BY <1>1, <1>2, <1>3 DEF Frame, Receives

\* The request of b for the server, when nothing is added to it.
LEMMA NothingAsked ==
    ASSUME ScenarioInv, NEW b \in Clients, ClientStep(b),
           ~HResend(b) \/ hmsg[b].to # "server"
    PROVE  /\ NumbersTo(outbox'[b], "server") # {} <=> NumbersTo(outbox[b], "server") # {}
           /\ AtMostOne(NumbersTo(outbox[b], "server")) =>
                 AtMostOne(NumbersTo(outbox'[b], "server"))
           /\ \A m \in ToSet(outbox'[b]) : NumberTo(m, "server") => m \in ToSet(outbox[b])
<1>1. outbox[b] \in Seq(Message) /\ HandshakeLocals(b)
  BY StepFacts DEF ClientsTyped, NetType, OrderlySingle
<1>2. CASE outbox'[b] = outbox[b]
  BY <1>2
<1>3. ASSUME NEW m, Adds(b, m)
      PROVE  /\ NumbersTo(outbox'[b], "server") = NumbersTo(outbox[b], "server")
             /\ ToSet(outbox'[b]) = ToSet(outbox[b]) \cup {m} /\ ~NumberTo(m, "server")
  <2>1. ~NumberTo(m, "server")
    BY <1>1, <1>3 DEF Adds, NumberTo, HAnswer, HandshakeLocals, BuildJson
  <2> QED  BY <1>1, <1>3, <2>1, StreamAppend DEF Adds
<1> QED
  BY <1>2, <1>3, SendShape

\* R has nothing of the server's handshake in its hands but the answer it waits for.
LEMMA FromServerFacts ==
    ASSUME ScenarioInv, NEW b \in Clients, RecvDh(b)
    PROVE  LET m == Head(inbox[b])
           IN  IF m.from = "server"
               THEN /\ AsksServer(b) /\ IsAnswer(b, m)
                    /\ key[b] = ServerKey({mynum[b], m.body})
               ELSE ~NumberFrom(m, "server")
<1>1. /\ inbox[b] \in Seq(Message) /\ ServerOnce(b) /\ inbox[b] # <<>>
      /\ Head(inbox[b]).type = "dh"
  BY DEF ScenarioInv, GroupInv, ClientsTyped, NetType, OrderlyInv, OrderlySingle, RecvDh, Receiving
<1>2. Head(inbox[b]) \in ToSet(inbox[b])
  BY <1>1, StreamTail
<1> QED
  BY <1>1, <1>2, InStream DEF ServerOnce, NumberFrom, AsksServer, IsAnswer

\* Of the server's answers, R takes at most the one it waits for.
LEMMA AnswersShrink ==
    ASSUME ScenarioInv, NEW b \in Clients, ClientStep(b)
    PROVE  /\ AtMostOne(NumbersFrom(inbox'[b], "server"))
           /\ NumbersFrom(inbox'[b], "server") # {} => NumbersFrom(inbox[b], "server") # {}
           /\ \A m \in ToSet(inbox'[b]) : m \in ToSet(inbox[b])
           /\ ~RecvDh(b) /\ ~Exit(b) =>
                 (NumbersFrom(inbox'[b], "server") = {} <=> NumbersFrom(inbox[b], "server") = {})
           /\ RecvDh(b) /\ Head(inbox[b]).from = "server" => NumbersFrom(inbox'[b], "server") = {}
<1>1. /\ inbox[b] \in Seq(Message) /\ AtMostOne(NumbersFrom(inbox[b], "server"))
      /\ ToSet(inbox'[b]) \subseteq ToSet(inbox[b])
  BY StepFacts, SocketsShrink DEF ClientsTyped, NetType, OrderlySingle, ServerOnce
<1>2. CASE inbox'[b] = inbox[b] /\ ~Receives(b)
  BY <1>1, <1>2 DEF Receives
<1>3. CASE Exit(b) /\ inbox'[b] = <<>> /\ ~Receives(b)
  BY <1>1, <1>3 DEF NumbersFrom, AtMostOne, Receives
<1>4. CASE Receives(b) /\ inbox[b] # <<>> /\ inbox'[b] = Tail(inbox[b])
  <2>1. RecvDh(b) => Head(inbox[b]).type = "dh"
    BY DEF RecvDh, Receiving
  <2>2. ~RecvDh(b) => Head(inbox[b]).type # "dh"
    BY <1>4 DEF Receives, RecvMessage, RecvSenderKey, RecvEnter, RecvLeave, Receiving
  <2> QED
    BY <1>1, <1>4, <2>1, <2>2, StreamTail DEF NumberFrom
<1> QED
  BY <1>2, <1>3, <1>4, ReadShape

\* A step that has nothing to do with the handshake with the server.
LEMMA ServerKept ==
    ASSUME ScenarioInv, NEW b \in Clients, ClientStep(b), ~RecvDh(b), ~Exit(b),
           ~HResend(b) \/ hmsg[b].to # "server",
           HsSame(b), AsksServer(b)' <=> AsksServer(b), Up(b)' => Up(b),
           known'[b] = known[b] \/ "server" \in known[b]
    PROVE  ServerOnce(b)' /\ ServerAgrees(b)'
<1>1. /\ ServerOnce(b) /\ ServerAgrees(b) /\ key' = key
      /\ ("server" \in known[b] =>
             "server" \in known'[b] /\ session'[b]["server"] = session[b]["server"])
  BY StepFacts, ServerKeyStays DEF OrderlySingle, serverVars, memVars
<1>2. ServerOnce(b)'
  BY <1>1, NothingAsked, AnswersShrink DEF ServerOnce, HsSame
<1> QED
  BY <1>1, <1>2, AnswersShrink DEF ServerAgrees, HsSame

\* Where nobody asks the server nothing of the handshake is under way.
LEMMA NotAsking ==
    ASSUME ScenarioInv, NEW b \in Clients, ~AsksServer(b)
    PROVE  NumbersTo(outbox[b], "server") = {} /\ NumbersFrom(inbox[b], "server") = {}
BY DEF ScenarioInv, OrderlyInv, OrderlySingle, ServerOnce

\* The connection of a client that is up is open, so what it has received counts
\* as unread.
LEMMA UpUnread ==
    ASSUME ScenarioInv, NEW c \in Clients, Up(c)
    PROVE  c \in Online /\ Unread(c) = ToSet(outbox[c]) \cup ToSet(inbox[c])
<1>1. Linked(c) /\ link[c] \in Link
  BY DEF ScenarioInv, GroupInv, Single, ClientsTyped, NetType
<1>2. link[c] = "open"
  BY <1>1 DEF Linked, Link, Up
<1> QED  BY <1>2 DEF Up, Online, Unread, Range, ToSet

\* A request goes to the server when none is under way.
LEMMA AsksServerOnce ==
    ASSUME ScenarioInv, NEW b \in Clients, ClientStep(b), HResend(b), hmsg[b].to = "server"
    PROVE  /\ NumbersTo(outbox[b], "server") = {} /\ NumbersFrom(inbox[b], "server") = {}
           /\ key[b] = NoKey /\ "server" \notin known[b]
           /\ shaker[b] = "server" /\ hmsg[b].type = "dh" /\ hmsg[b].body = mynum[b]
           /\ hstate[b] = "waiting_for_rcv_dh" /\ hsent'[b] # 0
<1>1. /\ ServerOnce(b) /\ ServerAgrees(b) /\ RequestMatches(b) /\ ServerBeforePeers(b)
      /\ HandshakeOwner(b) /\ LocalType /\ SentHonestly(b) /\ NoEcho(b)
      /\ inbox[b] \in Seq(Message) /\ outbox[b] \in Seq(Message)
  BY StepFacts DEF OrderlySingle, ClientInv, Single, ClientsTyped, NetType
<1>2. Up(b) /\ hpc[b] = "resend" /\ hstate[b] # "rcved_dh"
  BY DEF HResend, Up
<1>3. /\ hmsg[b] = BuildJson("dh", Nick[b], shaker[b], mynum[b])
      /\ hstate[b] = "waiting_for_rcv_dh"
  BY <1>1, <1>2 DEF RequestMatches, HandshakeOwner
<1>4. shaker[b] = "server" /\ hmsg[b].type = "dh" /\ hmsg[b].body = mynum[b]
  BY <1>3 DEF BuildJson
<1>5. "server" \notin known[b]
  BY <1>1, <1>4 DEF ServerBeforePeers
<1>6. hsent'[b] # 0
  <2>1. hsent'[b] = CountSend(hsent[b]) /\ hsent[b] \in Nat
    BY <1>1 DEF HResend, LocalType
  <2> QED  BY <2>1, ClientBounds DEF CountSend
<1>7. CASE hsent[b] = 0
  <2>1. ~AsksServer(b)
    BY <1>7 DEF AsksServer
  <2> QED  BY <1>2, <1>3, <1>4, <1>5, <2>1, NotAsking, <1>1, <1>6 DEF ServerAgrees
<1>8. CASE hsent[b] # 0
  <2>1. ~InFlight("dh", Nick[b], "server")
    <3>1. hsent[b] > 0
      BY <1>1, <1>8 DEF LocalType
    <3> QED  BY <1>4, <3>1, PatientStep DEF DhUnderway, ScenarioInv
  <2>2. \A m \in ToSet(inbox[b]) \cup ToSet(outbox[b]) :
            m.type = "dh" => {m.from, m.to} # {Nick[b], "server"}
    BY <1>2, <2>1, UpUnread DEF InFlight
  <2>3. NumbersFrom(inbox[b], "server") = {}
    BY <1>1, <2>2, InStream DEF NumberFrom, NoEcho
  <2>4. NumbersTo(outbox[b], "server") = {}
    <3>1. \A m \in ToSet(outbox[b]) : m.type = "dh" => m.from = Nick[b]
      BY <1>1 DEF SentHonestly, ForItsSession, ToSet
    <3> QED  BY <1>1, <2>2, <3>1, InStream DEF NumberTo
  <2> QED  BY <1>1, <1>2, <1>3, <1>4, <1>5, <1>6, <2>3, <2>4 DEF ServerAgrees
<1> QED
  BY <1>7, <1>8

\* The handshake with the server: a step of its client.
LEMMA ServerAskedStep ==
    ASSUME ScenarioInv, NEW b \in Clients, ClientStep(b), ~TopBit'
    PROVE  ServerOnce(b)' /\ ServerAgrees(b)'
<1>1. /\ TaskNext(b) /\ Frame(b) /\ ClientsTyped /\ ClientInv(b) /\ key' = key
      /\ MachineType /\ DictType /\ LocalType /\ Engaged(b) /\ HandshakeOwner(b)
      /\ ServerOnce(b) /\ ServerAgrees(b) /\ ServerFirst(b) /\ DhWakeup(b) /\ LocalsReady(b)
      /\ status'[b] # "faulted" /\ outbox[b] \in Seq(Message) /\ Linked(b)
      /\ (~Up(b) => Resting(b)) /\ Unborn(b) /\ RequestMatches(b)
  BY StepFacts, ClientNeverFails
     DEF ClientsTyped, ClientInv, OrderlySingle, NetType, serverVars, memVars, Single, RestsUnlessUp
<1>2. CASE HResend(b) /\ hmsg[b].to = "server"
  <2>1. /\ NumbersTo(outbox[b], "server") = {} /\ NumbersFrom(inbox[b], "server") = {}
        /\ key[b] = NoKey /\ "server" \notin known[b]
        /\ shaker[b] = "server" /\ hmsg[b].type = "dh" /\ hmsg[b].body = mynum[b]
        /\ hstate[b] = "waiting_for_rcv_dh" /\ hsent'[b] # 0
    BY <1>2, AsksServerOnce
  <2>2. /\ UNCHANGED <<hsVars, dicVars, hpc, status, inbox>> /\ hpc[b] = "resend"
        /\ outbox'[b] = Append(outbox[b], hmsg[b]) /\ hmsg[b] \in Message
    BY <1>1, <1>2 DEF HResend, Send, NetSend, LocalsReady, Message, ClientsTyped, NetType
  <2>3. /\ AtMostOne(NumbersTo(outbox'[b], "server"))
        /\ \A m \in ToSet(outbox'[b]) : NumberTo(m, "server") => m.body = mynum[b]
    <3>1. ToSet(outbox'[b]) = ToSet(outbox[b]) \cup {hmsg[b]}
      BY <1>1, <2>2, StreamAppend
    <3>2. \A m \in ToSet(outbox[b]) : ~NumberTo(m, "server")
      BY <1>1, <2>1, InStream
    <3> QED  BY <1>1, <2>1, <2>2, <3>1, <3>2, StreamAppend
  <2>4. AsksServer(b)'
    BY <2>1, <2>2 DEF AsksServer
  <2>5. \A m \in ToSet(inbox[b]) : ~NumberFrom(m, "server")
    BY <1>1, <2>1, InStream DEF ClientsTyped, NetType
  <2>6. ServerOnce(b)'
    BY <1>1, <2>1, <2>2, <2>3, <2>4, <2>5 DEF ServerOnce
  <2>7. ServerAgrees(b)'
    BY <1>1, <2>1, <2>2 DEF ServerAgrees, Up
  <2> QED  BY <2>6, <2>7
<1>3. CASE ~HResend(b) \/ hmsg[b].to # "server"
  <2>1. /\ NumbersTo(outbox'[b], "server") # {} <=> NumbersTo(outbox[b], "server") # {}
        /\ \A m \in ToSet(outbox'[b]) : NumberTo(m, "server") => m \in ToSet(outbox[b])
        /\ AtMostOne(NumbersTo(outbox'[b], "server"))
        /\ AtMostOne(NumbersFrom(inbox'[b], "server"))
        /\ NumbersFrom(inbox'[b], "server") # {} => NumbersFrom(inbox[b], "server") # {}
        /\ \A m \in ToSet(inbox'[b]) : m \in ToSet(inbox[b])
    BY <1>1, <1>3, NothingAsked, AnswersShrink DEF ServerOnce
  <2>2. ASSUME ~AsksServer(b)
        PROVE  /\ NumbersTo(outbox'[b], "server") = {} /\ NumbersFrom(inbox'[b], "server") = {}
               /\ \A m \in ToSet(inbox'[b]) : ~NumberFrom(m, "server")
               /\ \A m \in ToSet(outbox'[b]) : ~NumberTo(m, "server")
    <3>1. NumbersTo(outbox[b], "server") = {} /\ NumbersFrom(inbox[b], "server") = {}
      BY <2>2, NotAsking
    <3>2. /\ \A m \in ToSet(inbox[b]) : ~NumberFrom(m, "server")
          /\ \A m \in ToSet(outbox[b]) : ~NumberTo(m, "server")
      BY <1>1, <3>1, InStream DEF ClientsTyped, NetType
    <3> QED  BY <2>1, <3>1, <3>2
  <2>3. ASSUME "server" \in known[b]
        PROVE  ServerAgrees(b)' \/ (~Up(b) /\ Up(b)')
    BY <1>1, <2>3, ServerKeyStays DEF ServerAgrees
  <2>4. CASE Connect(b)
    <3>1. /\ status[b] = "off" /\ known'[b] = {Nick[b]} /\ hstate'[b] = "send_dh"
          /\ ~AsksServer(b) /\ key[b] = NoKey
      <4>1. status[b] = "off" /\ known'[b] = {Nick[b]} /\ hstate'[b] = "send_dh"
        BY <1>1, <2>4 DEF Connect, SetMyState_ToSendDH, SetHState, DictType, MachineType
      <4>2. key[b] = NoKey
        <5>1. link[b] = "none"
          BY <1>1, <4>1 DEF Linked
        <5>2. Connected /\ TablesAgree
          BY DEF ScenarioInv, GroupInv, ServerInv
        <5> QED  BY <5>1, <5>2 DEF Connected, TablesAgree
      <4>3. hpc[b] = "take"
        BY <1>1, <4>1 DEF Unborn
      <4> QED  BY <4>1, <4>2, <4>3 DEF AsksServer
    <3>2. "server" \notin known'[b]
      BY <3>1, NameFacts
    <3> QED  BY <1>1, <2>1, <2>2, <3>1, <3>2 DEF ServerOnce, ServerAgrees
  <2>5. CASE RecvDh(b)
    <3> DEFINE m == Head(inbox[b])
    <3>1. /\ Up(b) /\ inbox[b] # <<>> /\ m.type = "dh"
          /\ UNCHANGED <<status, known, session, hpc, hsent>>
      BY <2>5 DEF RecvDh, Receiving, Up
    <3>2. CASE m.from = "server"
      <4>1. AsksServer(b) /\ IsAnswer(b, m) /\ key[b] = ServerKey({mynum[b], m.body})
        BY <2>5, <3>2, FromServerFacts
      <4>2. /\ opnum'[b] = m.body /\ hstate'[b] = "rcved_dh" /\ mynum'[b] = mynum[b]
            /\ shaker'[b] = shaker[b]
        BY <1>1, <2>5, <4>1
           DEF RecvDh, IsAnswer, SetMyState_ToRcvedDH, SetHState, DrawNumber, MachineType, Engaged
      <4>3. NumbersFrom(inbox'[b], "server") = {}
        BY <2>5, <3>2, AnswersShrink
      <4>4. \A x \in ToSet(inbox'[b]) : ~NumberFrom(x, "server")
        <5>1. inbox'[b] \in Seq(Message)
          BY StepFacts DEF ClientsTyped, NetType
        <5> QED  BY <4>3, <5>1, InStream
      <4>5. NumbersTo(outbox'[b], "server") = {}
        <5>1. m \in ToSet(inbox[b]) /\ inbox[b] \in Seq(Message)
          BY <1>1, <3>1, StreamTail DEF ClientsTyped, NetType
        <5>2. NumbersFrom(inbox[b], "server") # {}
          BY <3>1, <3>2, <5>1, InStream DEF NumberFrom
        <5> QED  BY <1>1, <2>1, <5>2 DEF ServerOnce
      <4>6. \A x \in ToSet(outbox'[b]) : ~NumberTo(x, "server")
        <5>1. outbox'[b] \in Seq(Message)
          BY StepFacts DEF ClientsTyped, NetType
        <5> QED  BY <4>5, <5>1, InStream
      <4>7. ServerOnce(b)'
        BY <1>1, <2>1, <4>1, <4>2, <4>3, <4>4, <4>5, <4>6 DEF ServerOnce
      <4> QED  BY <1>1, <3>1, <4>2, <4>7 DEF ServerAgrees, Up
    <3>3. CASE m.from # "server" /\ (IsAnswer(b, m) \/ hstate[b] = "idle")
      <4>1. ~AsksServer(b) /\ "server" \in known[b]
        BY <1>1, <3>1, <3>3 DEF AsksServer, IsAnswer, ServerFirst, Up
      <4>2. hstate'[b] = "rcved_dh" => shaker'[b] # "server"
        BY <1>1, <2>5, <3>3
           DEF RecvDh, IsAnswer, SetMyState_ToSendDH, SetHState, MachineType
      <4> QED  BY <1>1, <2>1, <2>2, <2>3, <3>1, <4>1, <4>2 DEF ServerOnce
    <3>4. CASE m.from # "server" /\ ~IsAnswer(b, m) /\ hstate[b] # "idle"
      <4>1. HsSame(b) /\ (AsksServer(b)' <=> AsksServer(b))
        BY <2>5, <3>1, <3>4 DEF RecvDh, HsSame, AsksServer
      <4>2. NumbersFrom(inbox'[b], "server") = {} <=> NumbersFrom(inbox[b], "server") = {}
        <5>1. inbox'[b] = Tail(inbox[b]) /\ inbox[b] \in Seq(Message)
          BY <1>1, <2>5 DEF RecvDh, Take, NetTake, ClientsTyped, NetType
        <5> QED  BY <3>1, <3>4, <5>1, StreamTail DEF NumberFrom
      <4>3. ServerOnce(b)'
        BY <1>1, <2>1, <4>1, <4>2 DEF ServerOnce, HsSame
      <4> QED  BY <1>1, <3>1, <4>1, <4>2, <4>3 DEF ServerAgrees, HsSame, Up
    <3> QED  BY <3>2, <3>3, <3>4
  <2>6. CASE Exit(b)
    <3>1. ~Up(b) /\ ~Up(b)' /\ UNCHANGED hsVars
      BY <1>1, <2>6 DEF Exit, Up, MachineType
    <3>2. ~AsksServer(b) /\ hstate[b] = "idle"
      BY <1>1, <3>1 DEF Resting, AsksServer
    <3> QED  BY <1>1, <2>1, <2>2, <3>1, <3>2 DEF ServerOnce, ServerAgrees
  <2>7. CASE RecvEnter(b) /\ ~UNCHANGED hsVars
    <3>1. /\ Up(b) /\ hstate[b] = "idle" /\ hstate'[b] = "send_dh" /\ UNCHANGED status
      BY <1>1, <2>7 DEF RecvEnter, Receiving, Up, Fault, SetMyState_ToSendDH, SetHState, MachineType
    <3>2. ~AsksServer(b) /\ "server" \in known[b]
      BY <1>1, <3>1 DEF AsksServer, ServerFirst, Up
    <3> QED  BY <1>1, <2>1, <2>2, <2>3, <3>1, <3>2 DEF ServerOnce
  <2>8. CASE HTake(b)
    <3>1. /\ Up(b) /\ hpc[b] = "take" /\ hstate[b] = "send_dh" /\ UNCHANGED inbox
          /\ dhq[b] # <<>>
      BY <1>1, <2>8 DEF HTake, DhWakeup, Up
    <3>2. ~AsksServer(b)
      BY <3>1 DEF AsksServer
    <3>3. CASE HRequest(b)
      <4>1. /\ hstate'[b] = "waiting_for_rcv_dh" /\ UNCHANGED <<known, session, status>>
        BY <1>1, <3>3 DEF HRequest, SetHState, MachineType
      <4>2. "server" \notin known[b] => key[b] = NoKey
        <5>1. NumbersFrom(inbox[b], "server") = {}
          BY <3>2, NotAsking
        <5> QED  BY <1>1, <3>1, <5>1 DEF ServerAgrees
      <4> QED  BY <1>1, <2>1, <2>2, <3>2, <4>1, <4>2 DEF ServerOnce, ServerAgrees, Up
    <3>4. CASE HRespond(b) /\ Head(dhq[b]) # "send_first"
      <4>1. Wakes(b, "rcv_first")
        BY <3>1, <3>4, WakesFacts DEF Wakes
      <4>2. shaker[b] # "server"
        BY <3>1, <4>1, TakenRequest, NameFacts
      <4>3. "server" \in known[b]
        BY <1>1, <3>1, <4>2 DEF ServerFirst, Up
      <4>4. hstate'[b] = "idle" /\ UNCHANGED status
        BY <1>1, <3>1, <3>4 DEF HRespond, SetMyState_ToIdle, ResetMachine, SetHState, MachineType
      <4> QED  BY <1>1, <2>1, <2>2, <2>3, <3>1, <3>2, <4>3, <4>4 DEF ServerOnce
    <3> QED  BY <2>8, <3>1, <3>3, <3>4 DEF HTake
  <2>9. CASE HDone(b)
    <3>1. /\ Up(b) /\ hstate[b] = "rcved_dh" /\ SetMyState_ToIdle(b) /\ UNCHANGED status
          /\ CanAdd(b, shaker[b])
      BY <1>1, <2>9 DEF HDone, Fault, Up, MachineType
    <3>2. ~AsksServer(b) /\ hstate'[b] = "idle"
      BY <1>1, <3>1 DEF AsksServer, SetMyState_ToIdle, ResetMachine, SetHState, MachineType
    <3>3. ServerOnce(b)'
      BY <1>1, <2>1, <2>2, <3>2 DEF ServerOnce
    <3>4. CASE "server" \in known[b]
      BY <2>3, <3>1, <3>3, <3>4
    <3>5. CASE "server" \notin known[b]
      <4>1. shaker[b] = "server"
        BY <1>1, <3>1, <3>5 DEF ServerFirst, Up
      <4>2. key[b] = ServerKey({mynum[b], opnum[b]})
        BY <1>1, <3>1, <4>1 DEF ServerOnce
      <4>3. opnum[b] \in Num
        BY <1>1, <3>1 DEF ClientInv, OpponentIsOther
      <4>4. session'[b]["server"] = ClientKey({mynum[b], opnum[b]}) /\ "server" \in known'[b]
        BY <1>1, <3>1, <4>1, <4>3, NewSession
      <4>5. ClientKey({mynum[b], opnum[b]}) = ServerKey({mynum[b], opnum[b]})
        <5> DEFINE s == {mynum[b], opnum[b]}
        <5>1. ClientKey(s).secret = s
          BY DEF ClientKey
        <5>2. session'[b]["server"] = ClientKey(s) /\ "server" \in known'[b]
          BY <4>4
        <5> HIDE DEF s
        <5>3. s \notin HighSecrets
          BY <5>1, <5>2 DEF TopBit
        <5>4. (s \in HighSecrets) = FALSE
          BY <5>3
        <5>5. ClientKey(s) = ServerKey(s)
          BY <5>4, Zenon DEF ClientKey, ServerKey
        <5> QED  BY <5>5 DEF s
      <4> QED  BY <1>1, <3>3, <4>2, <4>4, <4>5 DEF ServerAgrees
    <3> QED  BY <3>4, <3>5
  <2>10. CASE RecvLeave(b)
    <3>1. /\ UNCHANGED <<hsVars, hVars>> /\ Up(b)
          /\ status'[b] = status[b] /\ inbox[b] # <<>> /\ Head(inbox[b]).type = "leave"
      BY <1>1, <2>10 DEF RecvLeave, Fault, Receiving, Up, MachineType
    <3>2. ~RecvDh(b)
      BY <3>1 DEF RecvDh, Receiving
    <3>3. "server" \in known[b]
      <4>1. Head(inbox[b]) \in ToSet(inbox[b])
        BY <1>1, <3>1, StreamTail DEF ClientsTyped, NetType
      <4>2. NoticesReadable(b)
        BY StepFacts DEF OrderlySingle
      <4> QED  BY <3>1, <4>1, <4>2 DEF NoticesReadable
    <3> QED
      BY <1>3, <3>1, <3>2, <3>3, ServerKept, <2>6 DEF HsSame, AsksServer, Up
  <2>11. CASE UNCHANGED hsVars /\ UNCHANGED known /\ ~RecvDh(b) /\ ~Exit(b) /\ ~Connect(b)
    <3>1. Up(b)' => Up(b)
      BY <1>1, <2>11, StatusStep DEF Up
    <3>2. AsksServer(b)' <=> AsksServer(b)
      <4>1. CASE UNCHANGED hVars
        BY <2>11, <4>1 DEF AsksServer
      <4>2. CASE HAnswer(b) \/ HCheck(b) \/ HStartKey(b) \/ HPutKey(b)
        BY <1>1, <2>11, <4>2 DEF AsksServer, HAnswer, HCheck, HStartKey, HPutKey, Fault, LocalType
      <4>3. CASE HResend(b)
        <5>1. hmsg[b] = BuildJson("dh", Nick[b], shaker[b], mynum[b])
          BY <1>1, <4>3 DEF HResend, RequestMatches
        <5>2. shaker[b] # "server"
          BY <1>3, <4>3, <5>1 DEF BuildJson
        <5> QED  BY <2>11, <5>2 DEF AsksServer
      <4>4. CASE HTake(b) \/ HDone(b)
        <5>1. hstate'[b] # hstate[b]
          BY <1>1, <4>4
             DEF HTake, HDone, HRequest, HRespond, SetMyState_ToIdle, ResetMachine, SetHState,
                 MachineType, Fault, DhWakeup
        <5> QED  BY <2>11, <5>1
      <4> QED  BY <1>1, <4>1, <4>2, <4>3, <4>4 DEF Frame
    <3> QED  BY <1>3, <2>11, <3>1, <3>2, ServerKept DEF HsSame
  <2>12. RecvSenderKey(b) => UNCHANGED known
    BY DEF RecvSenderKey, Fault
  <2>13. RecvEnter(b) => UNCHANGED known
    BY DEF RecvEnter, Fault
  <2> QED
    BY <1>1, <2>4, <2>5, <2>6, <2>7, <2>8, <2>9, <2>10, <2>11, <2>12, <2>13 DEF Frame
<1> QED
  BY <1>2, <1>3

-----------------------------------------------------------------------------
(* The handshakes of two clients: steps of a client *)

\* The streams of b as far as numbers and entries of d are concerned.
LEMMA PeerSends ==
    ASSUME ScenarioInv, NEW b \in Clients, ClientStep(b), NEW d \in Clients \ {b}
    PROVE  /\ ~(HAnswer(b) \/ HResend(b)) \/ hmsg[b].to # Nick[d] =>
                 /\ NoneSent(b, d)' <=> NoneSent(b, d)
                 /\ AtMostOne(NumbersTo(outbox[b], Nick[d])) =>
                       AtMostOne(NumbersTo(outbox'[b], Nick[d]))
           /\ (HAnswer(b) \/ HResend(b)) /\ hmsg[b].to = Nick[d] =>
                 /\ ~NoneSent(b, d)'
                 /\ NoneSent(b, d) => AtMostOne(NumbersTo(outbox'[b], Nick[d]))
<1>1. /\ outbox[b] \in Seq(Message) /\ LocalsReady(b) /\ outbox \in [Clients -> Seq(Message)]
  BY StepFacts DEF ClientsTyped, NetType, ClientInv
<1>2. CASE (HAnswer(b) \/ HResend(b)) /\ hmsg[b].to = Nick[d]
  <2>1. /\ hmsg[b] \in DhMsgs /\ outbox'[b] = Append(outbox[b], hmsg[b])
    BY <1>1, <1>2 DEF HAnswer, HResend, LocalsReady, Send, NetSend
  <2>2. hmsg[b] \in Message /\ NumberTo(hmsg[b], Nick[d])
    BY <1>2, <2>1 DEF DhMsgs, Message, NumberTo
  <2> QED  BY <1>1, <1>2, <2>1, <2>2, StreamAppend DEF NoneSent
<1>3. CASE ~((HAnswer(b) \/ HResend(b)) /\ hmsg[b].to = Nick[d])
  <2>1. CASE outbox'[b] = outbox[b]
    BY <1>3, <2>1 DEF NoneSent
  <2>2. ASSUME NEW m, Adds(b, m)
        PROVE  NumbersTo(outbox'[b], Nick[d]) = NumbersTo(outbox[b], Nick[d])
    <3>1. ~NumberTo(m, Nick[d])
      BY <1>3, <2>2 DEF Adds, NumberTo, BuildJson
    <3> QED  BY <1>1, <2>2, <3>1, StreamAppend DEF Adds
  <2> QED  BY <1>3, <2>1, <2>2, SendShape DEF NoneSent
<1> QED
  BY <1>2, <1>3

LEMMA PeerReads ==
    ASSUME ScenarioInv, NEW b \in Clients, ClientStep(b), NEW d \in Clients \ {b}
    PROVE  /\ AtMostOne(NumbersFrom(inbox[b], Nick[d])) =>
                 AtMostOne(NumbersFrom(inbox'[b], Nick[d]))
           /\ AtMostOne(EntriesOf(inbox[b], Nick[d])) =>
                 AtMostOne(EntriesOf(inbox'[b], Nick[d]))
           /\ NoneLanded(d, b) => NoneLanded(d, b)'
           /\ Told(b, d)' => Told(b, d)
           /\ ~Exit(b) /\ ~(RecvDh(b) /\ Head(inbox[b]).from = Nick[d]) =>
                 (NoneLanded(d, b)' <=> NoneLanded(d, b))
           /\ RecvDh(b) /\ Head(inbox[b]).from = Nick[d] =>
                 /\ ~NoneLanded(d, b)
                 /\ AtMostOne(NumbersFrom(inbox[b], Nick[d])) => NoneLanded(d, b)'
           /\ ~Exit(b) /\ ~RecvEnter(b) => (Told(b, d)' <=> Told(b, d))
           /\ RecvEnter(b) =>
                 /\ Told(b, d)
                 /\ AtMostOne(EntriesOf(inbox[b], Nick[d])) => ~Told(b, d)'
<1>1. /\ inbox[b] \in Seq(Message) /\ NotSelf(b)
      /\ (inbox[b] # <<>> => Head(inbox[b]) = inbox[b][1] /\ 1 \in 1..Len(inbox[b]))
  BY StepFacts, HeadOfInbox DEF ClientsTyped, NetType, Single
<1>2. CASE inbox'[b] = inbox[b] /\ ~Receives(b)
  BY <1>1, <1>2 DEF Receives, NoneLanded, Told
<1>3. CASE Exit(b) /\ inbox'[b] = <<>> /\ ~Receives(b)
  BY <1>1, <1>3 DEF NumbersFrom, EntriesOf, AtMostOne, Receives, NoneLanded, Told
<1>4. CASE Receives(b) /\ inbox[b] # <<>> /\ inbox'[b] = Tail(inbox[b])
           /\ Head(inbox[b]) \in Message /\ Up(b)
  <2>1. RecvDh(b) <=> Head(inbox[b]).type = "dh"
    BY <1>4 DEF Receives, RecvMessage, RecvDh, RecvSenderKey, RecvEnter, RecvLeave, Receiving
  <2>2. RecvEnter(b) <=> Head(inbox[b]).type = "enter"
    BY <1>4 DEF Receives, RecvMessage, RecvDh, RecvSenderKey, RecvEnter, RecvLeave, Receiving
  <2>3. Head(inbox[b]).type = "enter" => Head(inbox[b]).body.name = Nick[d]
    <3> SUFFICES ASSUME Head(inbox[b]).type = "enter" PROVE Head(inbox[b]).body.name = Nick[d]
      OBVIOUS
    <3>1. Head(inbox[b]).body.name \in Names
      BY <1>4, MessageKinds DEF EnterMsgs
    <3>2. Head(inbox[b]).body.name # Nick[b]
      BY <1>1, <1>4 DEF NotSelf
    <3> QED  BY <3>1, <3>2, OtherName DEF ScenarioInv, OrderlyScenario
  <2>4. ~Exit(b)
    BY <1>4 DEF Exit, Up
  <2>5. /\ NumberFrom(Head(inbox[b]), Nick[d]) <=> RecvDh(b) /\ Head(inbox[b]).from = Nick[d]
        /\ EntryOf(Head(inbox[b]), Nick[d]) <=> RecvEnter(b)
    BY <2>1, <2>2, <2>3 DEF NumberFrom, EntryOf
  <2> QED
    BY <1>1, <1>4, <2>4, <2>5, StreamTail DEF NoneLanded, Told
<1> QED
  BY <1>2, <1>3, <1>4, ReadShape

\* Nobody is asking the other.
Peace(b, d) == ~WillAsk(b, d) /\ ~WillAsk(d, b) /\ ~AsksPeer(b, d) /\ ~AsksPeer(d, b)

\* A token by which b is to ask d.
Woken(b, d) == shaker[b] = Nick[d] /\ Wakes(b, "send_first")

\* What is b's in its handshakes with d, streams apart, stays.
KeepsPart(b, d) ==
    /\ (Woken(b, d)' <=> Woken(b, d)) /\ (Takes(b, d)' <=> Takes(b, d))
    /\ (Answers(b, d)' <=> Answers(b, d)) /\ (AsksPeer(b, d)' <=> AsksPeer(b, d))
    /\ AsksPeer(b, d) => hstate'[b] = hstate[b] /\ hsent'[b] = hsent[b]
    /\ "server" \in known[b] => "server" \in known'[b]
    /\ \/ status'[b] = status[b] /\ (Nick[d] \in known'[b] <=> Nick[d] \in known[b])
       \/ Peace(b, d)

\* The part of d stays.
LEMMA OtherPart ==
    ASSUME ScenarioInv, NEW b \in Clients, ClientStep(b), NEW d \in Clients \ {b}
    PROVE  /\ (NoneSent(d, b)' <=> NoneSent(d, b)) /\ (NoneLanded(b, d)' <=> NoneLanded(b, d))
           /\ NumbersTo(outbox'[d], Nick[b]) = NumbersTo(outbox[d], Nick[b])
           /\ NumbersFrom(inbox'[d], Nick[b]) = NumbersFrom(inbox[d], Nick[b])
           /\ EntriesOf(inbox'[d], Nick[b]) = EntriesOf(inbox[d], Nick[b])
           /\ (Told(d, b)' <=> Told(d, b)) /\ (Woken(d, b)' <=> Woken(d, b))
           /\ (Takes(d, b)' <=> Takes(d, b)) /\ (Answers(d, b)' <=> Answers(d, b))
           /\ (WillAsk(d, b)' <=> WillAsk(d, b)) /\ (AsksPeer(d, b)' <=> AsksPeer(d, b))
           /\ hstate'[d] = hstate[d] /\ hsent'[d] = hsent[d] /\ known'[d] = known[d]
           /\ (Up(d)' <=> Up(d)) /\ key' = key
<1>1. Untouched(d) /\ key' = key
  BY StepFacts DEF serverVars, memVars
<1> QED
  BY <1>1 DEF Untouched, NoneSent, NoneLanded, Told, Woken, Wakes, Takes, Answers, WillAsk,
     AsksPeer, Up

\* The parts of AsksOnce that are about both clients.
LEMMA AsksParts ==
    ASSUME ScenarioInv, NEW b \in Clients, NEW d \in Clients \ {b}
    PROVE  /\ AsksOnce(b, d) /\ AsksOnce(d, b)
           /\ WillAsk(b, d) <=> Told(b, d) \/ Woken(b, d)
           /\ WillAsk(b, d) \/ AsksPeer(b, d) =>
                 /\ Up(b) /\ Up(d) /\ "server" \in known[b] /\ key[d] # NoKey
                 /\ ~WillAsk(d, b) /\ ~AsksPeer(d, b)
           /\ Peace(b, d) => Silent(b, d) /\ Silent(d, b)
           /\ ~AsksPeer(b, d) /\ ~AsksPeer(d, b) => Silent(b, d) /\ Silent(d, b)
           /\ ~Up(b) => Peace(b, d)
           /\ ~Up(d) => Peace(b, d)
<1>1. AsksOnce(b, d) /\ AsksOnce(d, b)
  BY DEF ScenarioInv, OrderlyInv, OrderlyPair
<1> QED
  BY <1>1 DEF AsksOnce, WillAsk, Woken, Peace

LEMMA AsksKept ==
    ASSUME ScenarioInv, NEW b \in Clients, ClientStep(b), NEW d \in Clients \ {b},
           KeepsPart(b, d), NoneSent(b, d)' <=> NoneSent(b, d),
           NoneLanded(d, b)' <=> NoneLanded(d, b), Told(b, d)' <=> Told(b, d),
           AtMostOne(NumbersTo(outbox[b], Nick[d])) => AtMostOne(NumbersTo(outbox'[b], Nick[d]))
    PROVE  AsksOnce(b, d)' /\ AsksOnce(d, b)'
<1>1. /\ AsksOnce(b, d) /\ AsksOnce(d, b)
      /\ AtMostOne(NumbersFrom(inbox[b], Nick[d])) => AtMostOne(NumbersFrom(inbox'[b], Nick[d]))
      /\ AtMostOne(EntriesOf(inbox'[b], Nick[d])) /\ AtMostOne(EntriesOf(inbox'[d], Nick[b]))
  BY AsksParts, PeerReads, OtherPart DEF AsksOnce
<1>2. /\ (WillAsk(b, d)' <=> WillAsk(b, d)) /\ (AsksPeer(b, d)' <=> AsksPeer(b, d))
      /\ (Woken(b, d)' <=> Woken(b, d)) /\ (Told(b, d)' <=> Told(b, d))
  BY DEF KeepsPart, WillAsk, Woken
<1>3. (Silent(b, d)' <=> Silent(b, d)) /\ (Silent(d, b)' <=> Silent(d, b))
  BY OtherPart DEF KeepsPart, Silent, NoneOnWay
<1>4. CASE Peace(b, d)
  <2>1. Peace(b, d)' /\ Silent(b, d)' /\ Silent(d, b)'
    BY <1>2, <1>3, <1>4, AsksParts, OtherPart DEF Peace
  <2> QED
    BY <1>1, <2>1 DEF AsksOnce, Peace, WillAsk
<1>5. CASE ~Peace(b, d)
  <2>1. /\ Up(b)' /\ Up(d)' /\ (Nick[d] \in known'[b] <=> Nick[d] \in known[b])
    BY <1>5, AsksParts, OtherPart DEF KeepsPart, Up
  <2>2. OneOnWay(b, d) => OneOnWay(b, d)'
    BY <1>1, OtherPart DEF OneOnWay
  <2>3. OneOnWay(d, b) => OneOnWay(d, b)'
    BY <1>1, OtherPart DEF OneOnWay
  <2>4. (NoneOnWay(b, d)' <=> NoneOnWay(b, d)) /\ (NoneOnWay(d, b)' <=> NoneOnWay(d, b))
    BY OtherPart DEF NoneOnWay
  <2>5. AsksPeer(b, d) => /\ Requested(b, d) => Requested(b, d)'
                          /\ Answered(b, d) => Answered(b, d)'
    BY <2>2, <2>3, <2>4, OtherPart DEF KeepsPart, Requested, Answered
  <2>6. AsksPeer(d, b) => /\ Requested(d, b) => Requested(d, b)'
                          /\ Answered(d, b) => Answered(d, b)'
    BY <2>2, <2>3, <2>4, OtherPart DEF KeepsPart, Requested, Answered
  <2>7. AsksOnce(b, d)'
    BY <1>1, <1>2, <1>3, <2>1, <2>5, OtherPart DEF AsksOnce, KeepsPart, Woken
  <2>8. AsksOnce(d, b)'
    BY <1>1, <1>2, <1>3, <2>1, <2>6, OtherPart DEF AsksOnce, KeepsPart, Woken
  <2> QED  BY <2>7, <2>8
<1> QED
  BY <1>4, <1>5

\* A number of d comes out of the socket of b.
LEMMA NumberTaken ==
    ASSUME ScenarioInv, NEW b \in Clients, ClientStep(b), NEW d \in Clients \ {b},
           RecvDh(b), Head(inbox[b]).from = Nick[d]
    PROVE  AsksOnce(b, d)' /\ AsksOnce(d, b)'
<1> DEFINE m == Head(inbox[b])
<1>1. /\ ClientsTyped /\ MachineType /\ LocalType /\ QueueType /\ HandshakeOwner(b)
      /\ DhWakeup(b) /\ AsksOnce(b, d) /\ AsksOnce(d, b) /\ Engaged(b)
  BY StepFacts, AsksParts DEF ClientsTyped, ClientInv
<1>2. /\ Up(b) /\ rpc[b] = "recv" /\ m.type = "dh"
      /\ UNCHANGED <<status, known, outbox, dhq, hpc, hmsg, hsent>>
  BY DEF RecvDh, Receiving, Up, Take, NetTake
<1>3. /\ ~NoneLanded(d, b) /\ (AtMostOne(NumbersFrom(inbox[b], Nick[d])) => NoneLanded(d, b)')
      /\ AtMostOne(EntriesOf(inbox'[b], Nick[d])) /\ AtMostOne(EntriesOf(inbox'[d], Nick[b]))
      /\ (NoneSent(b, d)' <=> NoneSent(b, d)) /\ (Told(b, d)' <=> Told(b, d))
      /\ (NumbersTo(outbox'[b], Nick[d]) = NumbersTo(outbox[b], Nick[d]))
  <2>1. ~Exit(b) /\ ~RecvEnter(b)
    BY <1>2 DEF Exit, Up, RecvEnter, Receiving
  <2> QED  BY <1>1, <1>2, <2>1, PeerReads, OtherPart DEF AsksOnce, NoneSent
<1>4. ~Silent(d, b) /\ ~Peace(b, d)
  BY <1>3, AsksParts DEF Silent, NoneOnWay
<1>5. Answers(b, d)' <=> Answers(b, d)
  BY <1>2 DEF Answers
<1>6. CASE AsksPeer(b, d)
  <2>1. /\ ~AsksPeer(d, b) /\ ~WillAsk(d, b) /\ Up(d) /\ "server" \in known[b] /\ key[d] # NoKey
    BY <1>6, AsksParts
  <2>2. Answered(b, d) /\ Nick[b] \in known[d]
    BY <1>1, <1>3, <1>6 DEF AsksOnce, Requested, NoneOnWay
  <2>3. hstate[b] = "waiting_for_rcv_dh" /\ shaker[b] = Nick[d]
    BY <1>1, <1>3, <1>6, <2>2 DEF Answered, NoneOnWay, HandshakeOwner, AsksPeer
  <2>4. /\ hstate'[b] = "rcved_dh" /\ shaker'[b] = shaker[b] /\ UNCHANGED rVars
    BY <1>1, <2>3 DEF RecvDh, IsAnswer, SetMyState_ToRcvedDH, SetHState, MachineType
  <2>5. /\ AsksPeer(b, d)' /\ ~Takes(b, d)' /\ ~Woken(b, d)
        /\ ~Told(b, d) /\ ~WillAsk(b, d) /\ (Woken(b, d)' <=> Woken(b, d))
    <3>1. ~Woken(b, d)
      BY <1>2, <1>6, WakesFacts DEF Woken, AsksPeer
    <3>2. ~Told(b, d)
      BY <1>1, <1>6 DEF AsksOnce
    <3> QED
      BY <1>2, <1>6, <2>4, <3>1, <3>2, AsksParts DEF AsksPeer, Takes, Woken, Wakes
  <2>6. NoneLanded(d, b)' /\ NoneSent(d, b)
    BY <1>3, <2>2 DEF Answered, OneOnWay
  <2>7. Answered(b, d)'
    <3>1. ~Answers(d, b)
      BY <1>3, <2>2 DEF Answered, NoneOnWay
    <3>2. NoneOnWay(d, b)' /\ NoneOnWay(b, d)' /\ ~Takes(d, b)' /\ hsent'[b] # 0
      BY <1>2, <1>3, <2>2, <2>6, OtherPart DEF Answered, NoneOnWay
    <3>3. OneOnWay(d, b)'
      BY <2>2, <2>6, <1>1, <1>3, OtherPart, PeerReads DEF OneOnWay, Answered
    <3> QED  BY <2>4, <3>1, <3>2, <3>3, OtherPart DEF Answered
  <2>8. ~WillAsk(b, d)' /\ ~Woken(b, d)' /\ ~Told(b, d)'
    BY <1>3, <2>5 DEF WillAsk, Woken
  <2>9. AsksOnce(b, d)'
    BY <1>2, <1>3, <2>1, <2>2, <2>5, <2>7, <2>8, OtherPart DEF AsksOnce, Up
  <2>10. AsksOnce(d, b)'
    BY <1>3, <2>1, <2>5, OtherPart DEF AsksOnce, WillAsk
  <2> QED  BY <2>9, <2>10
<1>7. CASE AsksPeer(d, b)
  <2>1. /\ ~AsksPeer(b, d) /\ ~WillAsk(b, d) /\ Up(d) /\ "server" \in known[d] /\ key[b] # NoKey
    BY <1>7, AsksParts
  <2>2. Requested(d, b) /\ Nick[d] \notin known[b]
    BY <1>1, <1>3, <1>7 DEF AsksOnce, Answered, NoneOnWay
  <2>3. NoneSent(d, b) /\ hsent[d] # 0 /\ ~Takes(b, d) /\ ~Answers(b, d) /\ NoneOnWay(b, d)
        /\ hstate[d] = "waiting_for_rcv_dh" /\ NoneLanded(d, b)'
    BY <1>3, <2>2 DEF Requested, OneOnWay, NoneOnWay
  <2>4. ~IsAnswer(b, m)
    BY <1>1, <2>1 DEF IsAnswer, HandshakeOwner, AsksPeer
  <2>5. /\ ~AsksPeer(b, d)' /\ ~Woken(b, d)'
    <3>1. CASE hstate[b] = "idle"
      <4>1. rtok'[b] = "rcv_first" /\ dhq[b] = <<>> /\ hpc[b] # "resend"
        BY <1>1, <1>2, <2>4, <3>1, WakesFacts DEF RecvDh, LocalType, HandshakeOwner
      <4> QED  BY <1>2, <4>1 DEF Woken, Wakes, AsksPeer
    <3>2. CASE hstate[b] # "idle"
      <4>1. UNCHANGED <<hsVars, rVars>>
        BY <2>4, <3>2 DEF RecvDh
      <4> QED  BY <1>2, <2>1, <4>1, AsksParts DEF Woken, Wakes, AsksPeer
    <3> QED  BY <3>1, <3>2
  <2>6. ~WillAsk(b, d)' /\ ~Told(b, d)'
    BY <1>3, <2>1, <2>5 DEF WillAsk, Woken
  <2>7. AsksOnce(b, d)'
    BY <1>3, <1>7, <2>5, <2>6, OtherPart DEF AsksOnce
  <2>8. Requested(d, b)'
    <3>1. NoneOnWay(d, b)' /\ NoneOnWay(b, d)'
      BY <1>3, <2>3, OtherPart DEF NoneOnWay
    <3>2. OneOnWay(d, b)'
      BY <2>2, <2>3, OtherPart, PeerReads DEF OneOnWay, Requested
    <3> QED  BY <1>5, <2>3, <3>1, <3>2, OtherPart DEF Requested
  <2>9. AsksOnce(d, b)'
    <3>1. ~WillAsk(d, b)
      <4>1. ~Told(d, b)
        BY <1>1, <1>7 DEF AsksOnce
      <4>2. ~Woken(d, b)
        BY <1>7, <2>1, WakesFacts DEF Woken, AsksPeer
      <4> QED  BY <4>1, <4>2 DEF WillAsk, Woken
    <3> QED
      BY <1>2, <1>3, <1>7, <2>1, <2>2, <2>5, <2>6, <2>8, <3>1, OtherPart
         DEF AsksOnce, Up, WillAsk
  <2> QED  BY <2>7, <2>9
<1> QED
  BY <1>4, <1>6, <1>7, AsksParts

\* b reads that d has entered.
LEMMA EntryTaken ==
    ASSUME ScenarioInv, NEW b \in Clients, ClientStep(b), NEW d \in Clients \ {b},
           RecvEnter(b)
    PROVE  AsksOnce(b, d)' /\ AsksOnce(d, b)'
<1> DEFINE m == Head(inbox[b])
<1>1. /\ ClientsTyped /\ MachineType /\ LocalType /\ QueueType /\ HandshakeOwner(b)
      /\ AsksOnce(b, d) /\ AsksOnce(d, b) /\ inbox[b] # <<>> /\ Head(inbox[b]).type = "enter"
  BY StepFacts, AsksParts DEF ClientsTyped, ClientInv, RecvEnter, Receiving
<1>2. /\ Up(b) /\ rpc[b] = "recv" /\ ~Fault(b)
      /\ UNCHANGED <<status, known, outbox, dhq, hpc, hmsg, hsent>>
  <2>1. ~Fault(b)
    BY <1>1, ClientNeverFails DEF Fault, MachineType
  <2> QED  BY <2>1 DEF RecvEnter, Receiving, Up, Take, NetTake
<1>3. /\ Told(b, d) /\ ~Told(b, d)'
      /\ AtMostOne(EntriesOf(inbox'[b], Nick[d])) /\ AtMostOne(EntriesOf(inbox'[d], Nick[b]))
      /\ (NoneSent(b, d)' <=> NoneSent(b, d)) /\ (NoneLanded(d, b)' <=> NoneLanded(d, b))
  <2>1. ~Exit(b) /\ ~RecvDh(b)
    BY <1>1, <1>2 DEF Exit, Up, RecvDh, Receiving
  <2> QED  BY <1>1, <1>2, <2>1, PeerReads, OtherPart DEF AsksOnce, NoneSent
<1>4. /\ WillAsk(b, d) /\ Up(d) /\ "server" \in known[b] /\ key[d] # NoKey
      /\ ~WillAsk(d, b) /\ ~AsksPeer(d, b) /\ Nick[b] \notin known[d]
      /\ ~AsksPeer(b, d) /\ ~Woken(b, d) /\ Silent(b, d) /\ Silent(d, b)
  BY <1>1, <1>3, AsksParts DEF AsksOnce, Woken
<1>5. ~AsksPeer(b, d)' /\ ~Takes(b, d)'
  <2>1. CASE hstate[b] = "idle"
    <3>1. rtok'[b] = "send_first" /\ dhq[b] = <<>> /\ hpc[b] # "resend"
      BY <1>1, <1>2, <2>1, WakesFacts DEF RecvEnter, LocalType, HandshakeOwner
    <3> QED  BY <1>2, <3>1 DEF Takes, Wakes, AsksPeer
  <2>2. CASE hstate[b] # "idle"
    <3>1. UNCHANGED <<hsVars, rVars>>
      BY <1>2, <2>2 DEF RecvEnter
    <3> QED  BY <1>2, <1>4, <3>1 DEF Takes, Wakes, AsksPeer, Silent
  <2> QED  BY <2>1, <2>2
<1>6. Silent(b, d)' /\ Silent(d, b)'
  BY <1>2, <1>3, <1>4, <1>5, OtherPart DEF Silent, NoneOnWay, Answers
<1>7. AsksOnce(b, d)'
  BY <1>2, <1>3, <1>4, <1>5, <1>6, OtherPart DEF AsksOnce, Up
<1>8. AsksOnce(d, b)'
  BY <1>3, <1>4, <1>5, <1>6, OtherPart DEF AsksOnce, WillAsk
<1> QED
  BY <1>7, <1>8

\* H of b has its request for d ready ...
LEMMA RequestBuilt ==
    ASSUME ScenarioInv, NEW b \in Clients, ClientStep(b), NEW d \in Clients \ {b},
           HTake(b), HRequest(b), Head(dhq[b]) = "send_first", shaker[b] = Nick[d]
    PROVE  AsksOnce(b, d)' /\ AsksOnce(d, b)'
<1>1. /\ ClientsTyped /\ MachineType /\ LocalType /\ QueueType /\ DhWakeup(b)
      /\ AsksOnce(b, d) /\ AsksOnce(d, b) /\ HandshakeLocals(b)
  BY StepFacts, AsksParts DEF ClientsTyped, ClientInv, OrderlySingle
<1>2. /\ Up(b) /\ hpc[b] = "take" /\ dhq[b] = <<"send_first">> /\ rpc[b] # "put_dh"
      /\ UNCHANGED <<inbox, outbox, status, known, shaker, hsent, rpc>> /\ dhq'[b] = <<>>
      /\ hstate'[b] = "waiting_for_rcv_dh" /\ hpc'[b] = "resend" /\ hsent[b] = 0
  BY <1>1 DEF HTake, HRequest, SetHState, MachineType, LocalType, QueueType, Token, Up,
     DhWakeup, HandshakeLocals
<1>3. Woken(b, d) /\ ~AsksPeer(b, d)
  BY <1>2 DEF Woken, Wakes, AsksPeer
<1>4. /\ WillAsk(b, d) /\ Up(d) /\ "server" \in known[b] /\ key[d] # NoKey
      /\ ~WillAsk(d, b) /\ ~AsksPeer(d, b) /\ Nick[b] \notin known[d] /\ ~Told(b, d)
      /\ Silent(b, d) /\ Silent(d, b)
  BY <1>1, <1>3, AsksParts DEF AsksOnce, Woken
<1>5. /\ AsksPeer(b, d)' /\ ~Takes(b, d)' /\ ~Woken(b, d)' /\ ~Answers(b, d)'
      /\ (NoneSent(b, d)' <=> NoneSent(b, d)) /\ (NoneLanded(d, b)' <=> NoneLanded(d, b))
      /\ (Told(b, d)' <=> Told(b, d))
  BY <1>2 DEF AsksPeer, Takes, Woken, Wakes, Answers, NoneSent, NoneLanded, Told
<1>6. ~WillAsk(b, d)'
  BY <1>4, <1>5 DEF WillAsk, Woken
<1>7. Requested(b, d)'
  <2>1. NoneOnWay(b, d)' /\ NoneOnWay(d, b)' /\ ~Takes(d, b)' /\ ~Answers(d, b)'
    BY <1>4, <1>5, OtherPart DEF Silent, NoneOnWay
  <2> QED  BY <1>2, <2>1 DEF Requested, OneOnWay, NoneOnWay, NoneSent, NoneLanded, AtMostOne
<1>8. AsksOnce(b, d)'
  BY <1>1, <1>2, <1>4, <1>5, <1>6, <1>7, OtherPart DEF AsksOnce, Up, Woken
<1>9. AsksOnce(d, b)'
  BY <1>1, <1>4, <1>5, OtherPart DEF AsksOnce, WillAsk
<1> QED
  BY <1>8, <1>9

\* ... or takes up that of d and files the session.
LEMMA RequestTaken ==
    ASSUME ScenarioInv, NEW b \in Clients, ClientStep(b), NEW d \in Clients \ {b},
           HTake(b), HRespond(b), Head(dhq[b]) # "send_first", hstate[b] = "send_dh"
    PROVE  AsksOnce(b, d)' /\ AsksOnce(d, b)'
<1>1. /\ ClientsTyped /\ MachineType /\ LocalType /\ QueueType /\ DictType
      /\ AsksOnce(b, d) /\ AsksOnce(d, b) /\ status'[b] # "faulted"
  BY StepFacts, AsksParts, ClientNeverFails DEF ClientsTyped
<1>2. /\ Up(b) /\ hpc[b] = "take" /\ dhq[b] # <<>> /\ UNCHANGED <<inbox, outbox>>
  BY DEF HTake, Up
<1>3. Wakes(b, "rcv_first")
  BY <1>2, WakesFacts DEF Wakes
<1>4. /\ shaker[b] = Nick[d] /\ Takes(b, d) /\ AsksPeer(d, b)
      /\ Nick[d] \notin known[b] /\ Requested(d, b)
  BY <1>2, <1>3, TakenRequest, OtherName DEF ScenarioInv, OrderlyScenario
<1>5. /\ SetMyState_ToIdle(b) /\ UNCHANGED status
      /\ hmsg'[b] = BuildJson("dh", Nick[b], shaker[b], mynum[b]) /\ hpc'[b] = "answer"
  BY <1>1 DEF HRespond, MachineType, LocalType
<1>6. /\ hstate'[b] = "idle" /\ shaker'[b] = Null /\ known'[b] = known[b] \cup {Nick[d]}
  BY <1>1, <1>4, <1>5
     DEF SetMyState_ToIdle, GetSharedSecret, ResetMachine, SetHState, MachineType, DictType
<1>7. /\ Answers(b, d)' /\ ~Takes(b, d)' /\ ~AsksPeer(b, d)' /\ ~Woken(b, d)'
      /\ (NoneSent(b, d)' <=> NoneSent(b, d)) /\ (NoneLanded(d, b)' <=> NoneLanded(d, b))
      /\ (Told(b, d)' <=> Told(b, d))
  <2>1. Null # Nick[d]
    BY NameFacts
  <2> QED
    BY <1>2, <1>4, <1>5, <1>6, <2>1
       DEF Answers, Takes, AsksPeer, Woken, NoneSent, NoneLanded, Told, BuildJson
<1>8. /\ ~AsksPeer(b, d) /\ ~WillAsk(b, d) /\ Up(d) /\ "server" \in known[d] /\ key[b] # NoKey
      /\ ~Told(d, b) /\ ~Woken(d, b)
  <2>1. /\ ~AsksPeer(b, d) /\ ~WillAsk(b, d) /\ Up(d) /\ "server" \in known[d] /\ key[b] # NoKey
    BY <1>4, AsksParts
  <2>2. ~Told(d, b)
    BY <1>1, <1>4 DEF AsksOnce
  <2>3. ~Woken(d, b)
    BY <1>4, <2>1, WakesFacts DEF Woken, AsksPeer
  <2> QED  BY <2>1, <2>2, <2>3
<1>9. ~WillAsk(d, b)' /\ ~WillAsk(b, d)' /\ ~Told(b, d)' /\ ~Told(d, b)'
  BY <1>7, <1>8, OtherPart DEF WillAsk, Woken
<1>10. NoneOnWay(d, b)' /\ NoneOnWay(b, d)' /\ hsent'[d] # 0 /\ hstate'[d] = "waiting_for_rcv_dh"
  <2>1. NoneOnWay(d, b) /\ NoneOnWay(b, d) /\ hsent[d] # 0 /\ hstate[d] = "waiting_for_rcv_dh"
    BY <1>4 DEF Requested
  <2> QED  BY <1>7, <2>1, OtherPart DEF NoneOnWay
<1>11. Answered(d, b)'
  BY <1>7, <1>10 DEF Answered, OneOnWay, NoneOnWay, NoneSent, NoneLanded, AtMostOne
<1>12. AsksOnce(d, b)'
  BY <1>1, <1>2, <1>4, <1>5, <1>6, <1>7, <1>8, <1>9, <1>11, OtherPart DEF AsksOnce, Up
<1>13. AsksOnce(b, d)'
  BY <1>1, <1>2, <1>4, <1>7, <1>9, OtherPart DEF AsksOnce
<1> QED
  BY <1>12, <1>13

\* H of b sends its answer to d.
LEMMA AnswerSent ==
    ASSUME ScenarioInv, NEW b \in Clients, ClientStep(b), NEW d \in Clients \ {b}, HAnswer(b)
    PROVE  AsksOnce(b, d)' /\ AsksOnce(d, b)'
<1>1. /\ ClientsTyped /\ LocalType /\ AsksOnce(b, d) /\ AsksOnce(d, b)
      /\ LocalsReady(b) /\ HandshakeLocals(b) /\ SentHonestly(b)
  BY StepFacts, AsksParts DEF ClientsTyped, ClientInv, OrderlySingle, Single
<1>2. /\ Up(b) /\ hpc[b] = "answer" /\ hpc'[b] = "take"
      /\ UNCHANGED <<inbox, status, known, hsVars, dhq, rVars, hsent>>
  BY <1>1 DEF HAnswer, Up, LocalType, Send, NetSend
<1>3. hmsg[b].to = Nick[d]
  <2>1. hmsg[b] \in DhMsgs /\ hmsg[b].to # "server"
    BY <1>1, <1>2 DEF LocalsReady, HandshakeLocals
  <2>2. hmsg[b].to \in Peers /\ hmsg[b].to # Nick[b]
    BY <1>1, <2>1 DEF SentHonestly, ForItsSession, DhMsgs
  <2> QED  BY <2>1, <2>2, OtherName DEF ScenarioInv, OrderlyScenario
<1>4. Answers(b, d) /\ ~AsksPeer(b, d)
  BY <1>2, <1>3 DEF Answers, AsksPeer
<1>5. AsksPeer(d, b)
  BY <1>4, AsksParts DEF Silent
<1>6. Answered(d, b) /\ Nick[d] \in known[b]
  BY <1>1, <1>4, <1>5 DEF AsksOnce, Requested
<1>7. /\ NoneOnWay(b, d) /\ NoneOnWay(d, b) /\ ~Takes(b, d) /\ hsent[d] # 0
      /\ hstate[d] # "rcved_dh"
  BY <1>4, <1>6 DEF Answered
<1>8. /\ ~NoneSent(b, d)' /\ AtMostOne(NumbersTo(outbox'[b], Nick[d]))
      /\ NoneLanded(b, d)' /\ AtMostOne(NumbersFrom(inbox'[d], Nick[b]))
      /\ NoneOnWay(d, b)' /\ (Told(b, d)' <=> Told(b, d))
  BY <1>2, <1>3, <1>7, PeerSends, OtherPart
     DEF NoneOnWay, NoneLanded, Told, AtMostOne
<1>9. /\ ~Answers(b, d)' /\ ~Takes(b, d)' /\ ~AsksPeer(b, d)' /\ (Woken(b, d)' <=> Woken(b, d))
  BY <1>2, <1>7 DEF Answers, Takes, AsksPeer, Woken, Wakes
<1>10. Answered(d, b)'
  BY <1>7, <1>8, <1>9, OtherPart DEF Answered, OneOnWay, NoneOnWay
<1>11. /\ ~WillAsk(b, d) /\ Up(d) /\ "server" \in known[d] /\ key[b] # NoKey
       /\ ~Told(b, d) /\ ~Woken(b, d)
  BY <1>5, AsksParts DEF Woken
<1>12. ~WillAsk(b, d)' /\ ~Told(b, d)'
  BY <1>8, <1>9, <1>11 DEF WillAsk, Woken
<1>13. AsksOnce(d, b)'
  <2>1. WillAsk(d, b)' => Nick[d] \notin known'[b]
    BY <1>1, <1>2, OtherPart DEF AsksOnce
  <2>2. Told(d, b)' => ~AsksPeer(d, b)' /\ ~Woken(d, b)'
    BY <1>1, OtherPart DEF AsksOnce, Woken
  <2> QED
    BY <1>1, <1>2, <1>5, <1>6, <1>9, <1>10, <1>11, <1>12, <2>1, <2>2, OtherPart
       DEF AsksOnce, Up, Woken
<1>14. AsksOnce(b, d)'
  BY <1>1, <1>2, <1>5, <1>9, <1>12, OtherPart DEF AsksOnce
<1> QED
  BY <1>13, <1>14

\* H of b sends its request to d, for the first time or again.
LEMMA RequestSent ==
    ASSUME ScenarioInv, NEW b \in Clients, ClientStep(b), NEW d \in Clients \ {b},
           HResend(b), hmsg[b].to = Nick[d]
    PROVE  AsksOnce(b, d)' /\ AsksOnce(d, b)'
<1>1. /\ ClientsTyped /\ LocalType /\ AsksOnce(b, d) /\ AsksOnce(d, b)
      /\ LocalsReady(b) /\ RequestMatches(b) /\ HandshakeOwner(b)
      /\ SentHonestly(b) /\ SentHonestly(d) /\ NoEcho(b) /\ NoEcho(d)
      /\ inbox[b] \in Seq(Message) /\ outbox[b] \in Seq(Message)
      /\ inbox[d] \in Seq(Message) /\ outbox[d] \in Seq(Message)
  BY StepFacts, AsksParts DEF ClientsTyped, ClientInv, OrderlySingle, Single, NetType
<1>2. /\ Up(b) /\ hpc[b] = "resend" /\ hstate[b] # "rcved_dh"
      /\ UNCHANGED <<inbox, status, known, hsVars, dhq, rVars, hpc, hmsg>>
      /\ hsent'[b] = CountSend(hsent[b])
  BY <1>1 DEF HResend, Up, LocalType, Send, NetSend
<1>3. shaker[b] = Nick[d] /\ hstate[b] = "waiting_for_rcv_dh" /\ hsent'[b] # 0
  <2>1. hmsg[b] = BuildJson("dh", Nick[b], shaker[b], mynum[b])
    BY <1>1, <1>2 DEF RequestMatches
  <2>2. hsent[b] \in Nat
    BY <1>1 DEF LocalType
  <2> QED  BY <1>1, <1>2, <2>1, <2>2, ClientBounds DEF BuildJson, HandshakeOwner, CountSend
<1>4. AsksPeer(b, d)
  BY <1>2, <1>3 DEF AsksPeer
<1>5. /\ Up(d) /\ "server" \in known[b] /\ key[d] # NoKey /\ ~AsksPeer(d, b) /\ ~WillAsk(d, b)
      /\ ~Told(b, d) /\ ~Woken(b, d)
  BY <1>1, <1>2, <1>4, AsksParts, WakesFacts DEF AsksOnce, Woken
<1>6. /\ NoneOnWay(b, d) /\ NoneOnWay(d, b) /\ ~Takes(d, b) /\ ~Answers(d, b)
      /\ Nick[b] \notin known[d]
  <2>1. CASE hsent[b] = 0
    <3>1. Requested(b, d) /\ Nick[b] \notin known[d]
      BY <1>1, <1>4, <2>1 DEF AsksOnce, Answered
    <3> QED  BY <2>1, <3>1 DEF Requested
  <2>2. CASE hsent[b] # 0
    <3>1. ~DhUnderway(b)
      <4>1. hsent[b] > 0
        BY <1>1, <2>2 DEF LocalType
      <4> QED  BY <4>1, PatientStep DEF ScenarioInv
    <3>2. /\ ~InFlight("dh", Nick[b], Nick[d])
          /\ ~(hstate[d] = "send_dh" /\ shaker[d] = Nick[b])
          /\ ~(hpc[d] = "answer" /\ hmsg[d].to = Nick[b])
      BY <1>3, <1>5, <3>1, UpUnread DEF DhUnderway
    <3>3. ASSUME NEW e \in {b, d}, NEW m \in ToSet(inbox[e]) \cup ToSet(outbox[e]),
                 m.type = "dh"
          PROVE  {m.from, m.to} # {Nick[b], Nick[d]}
      BY <1>2, <1>5, <3>2, <3>3, UpUnread DEF InFlight
    <3>4. ASSUME NEW e \in {b, d}, NEW m \in ToSet(outbox[e]), m.type = "dh"
          PROVE  m.from = Nick[e]
      <4>1. outbox[e] \in Seq(Message) /\ SentHonestly(e)
        BY <1>1
      <4>2. PICK i \in 1..Len(outbox[e]) : outbox[e][i] = m
        BY <3>4, <4>1 DEF ToSet
      <4> QED  BY <3>4, <4>1, <4>2 DEF SentHonestly, ForItsSession
    <3>5. NoneSent(b, d) /\ NoneSent(d, b)
      <4>1. \A m \in ToSet(outbox[b]) : ~NumberTo(m, Nick[d])
        BY <3>3, <3>4 DEF NumberTo
      <4>2. \A m \in ToSet(outbox[d]) : ~NumberTo(m, Nick[b])
        BY <3>3, <3>4 DEF NumberTo
      <4> QED  BY <1>1, <4>1, <4>2, InStream DEF NoneSent
    <3>6. NoneLanded(b, d) /\ NoneLanded(d, b)
      <4>1. \A m \in ToSet(inbox[d]) : ~NumberFrom(m, Nick[b])
        BY <1>1, <3>3 DEF NumberFrom, NoEcho
      <4>2. \A m \in ToSet(inbox[b]) : ~NumberFrom(m, Nick[d])
        BY <1>1, <3>3 DEF NumberFrom, NoEcho
      <4> QED  BY <1>1, <4>1, <4>2, InStream DEF NoneLanded
    <3>7. ~Takes(d, b) /\ ~Answers(d, b)
      BY <3>2 DEF Takes, Answers
    <3>8. Nick[b] \notin known[d]
      BY <1>1, <1>2, <1>4, <3>5, <3>6, <3>7 DEF AsksOnce, Answered, NoneOnWay
    <3> QED  BY <3>5, <3>6, <3>7, <3>8 DEF NoneOnWay
  <2> QED  BY <2>1, <2>2
<1>7. /\ AsksPeer(b, d)' /\ ~Woken(b, d)' /\ ~Told(b, d)'
      /\ (Takes(b, d)' <=> Takes(b, d)) /\ ~WillAsk(b, d)'
  BY <1>2, <1>4, <1>5 DEF AsksPeer, Woken, Wakes, Told, WillAsk, Takes
<1>8. /\ AtMostOne(NumbersTo(outbox'[b], Nick[d])) /\ NoneLanded(b, d)' /\ NoneOnWay(d, b)'
      /\ AtMostOne(NumbersFrom(inbox'[d], Nick[b]))
  BY <1>2, <1>6, PeerSends, OtherPart DEF NoneOnWay, NoneLanded, AtMostOne
<1>9. Requested(b, d)'
  BY <1>2, <1>3, <1>6, <1>8, OtherPart DEF Requested, OneOnWay
<1>10. AsksOnce(b, d)'
  BY <1>1, <1>2, <1>5, <1>6, <1>7, <1>9, OtherPart DEF AsksOnce, Up, Told
<1>11. AsksOnce(d, b)'
  BY <1>1, <1>5, <1>7, OtherPart DEF AsksOnce, WillAsk
<1> QED
  BY <1>10, <1>11

\* H of b files its session with d.
LEMMA SessionFiled ==
    ASSUME ScenarioInv, NEW b \in Clients, ClientStep(b), NEW d \in Clients \ {b},
           HDone(b), shaker[b] = Nick[d]
    PROVE  /\ AsksOnce(b, d)' /\ AsksOnce(d, b)' /\ Nick[b] \in known[d]
           /\ Up(b) /\ Up(d) /\ Nick[d] \in known'[b]
<1>1. /\ ClientsTyped /\ LocalType /\ MachineType /\ DictType /\ AsksOnce(b, d) /\ AsksOnce(d, b)
      /\ status'[b] # "faulted"
  BY StepFacts, AsksParts, ClientNeverFails DEF ClientsTyped
<1>2. /\ Up(b) /\ hpc[b] = "resend" /\ hstate[b] = "rcved_dh" /\ SetMyState_ToIdle(b)
      /\ UNCHANGED <<inbox, outbox, status, dhq, rVars>> /\ hpc'[b] = "check"
  BY <1>1 DEF HDone, Up, LocalType, Fault, MachineType
<1>3. hstate'[b] = "idle" /\ shaker'[b] = Null /\ known'[b] = known[b] \cup {Nick[d]}
  BY <1>1, <1>2
     DEF SetMyState_ToIdle, GetSharedSecret, ResetMachine, SetHState, MachineType, DictType
<1>4. AsksPeer(b, d)
  BY <1>2 DEF AsksPeer
<1>5. /\ Answered(b, d) /\ Nick[b] \in known[d]
  BY <1>1, <1>2, <1>4 DEF AsksOnce, Requested
<1>6. /\ NoneOnWay(b, d) /\ NoneOnWay(d, b) /\ ~Takes(d, b) /\ ~Answers(d, b)
  BY <1>2, <1>5 DEF Answered
<1>7. /\ ~Told(b, d) /\ ~WillAsk(d, b) /\ ~AsksPeer(d, b) /\ Up(d)
  BY <1>1, <1>4, AsksParts DEF AsksOnce
<1>8. /\ ~Told(b, d)' /\ ~AsksPeer(b, d)' /\ ~Woken(b, d)' /\ ~WillAsk(b, d)'
      /\ ~WillAsk(d, b)' /\ ~AsksPeer(d, b)' /\ ~Takes(b, d)' /\ ~Answers(b, d)'
  <2>1. Null # Nick[d]
    BY NameFacts
  <2> QED
    BY <1>2, <1>3, <1>7, <2>1, OtherPart
       DEF Told, AsksPeer, Woken, WillAsk, Takes, Answers
<1>9. Silent(b, d)' /\ Silent(d, b)'
  BY <1>2, <1>6, <1>8, OtherPart DEF Silent, NoneOnWay, NoneSent, NoneLanded
<1>10. AsksOnce(b, d)' /\ AsksOnce(d, b)'
  <2>1. Told(d, b)' => FALSE
    BY <1>8 DEF WillAsk
  <2> QED
    BY <1>1, <1>2, <1>8, <1>9, <2>1, OtherPart DEF AsksOnce
<1> QED
  BY <1>2, <1>3, <1>5, <1>7, <1>10

\* A step of b while the handshake it is in, if any, is that with the server.
LEMMA ServerOnly ==
    ASSUME ScenarioInv, NEW b \in Clients, ClientStep(b), NEW d \in Clients \ {b},
           shaker[b] = "server",
           (RecvDh(b) /\ IsAnswer(b, Head(inbox[b]))) \/ HDone(b) \/ HResend(b)
               \/ (HTake(b) /\ HRequest(b))
    PROVE  KeepsPart(b, d)
<1>1. /\ ClientsTyped /\ LocalType /\ MachineType /\ DictType /\ QueueType /\ status'[b] # "faulted"
      /\ Nick[d] # "server" /\ Null # Nick[d]
      /\ ("server" \in known[b] => "server" \in known'[b])
  BY StepFacts, ClientNeverFails, ServerKeyStays, NameFacts DEF ClientsTyped
<1>2. shaker'[b] \in {"server", Null} /\ status'[b] = status[b]
  BY <1>1 DEF RecvDh, IsAnswer, SetMyState_ToRcvedDH, HDone, Fault, SetMyState_ToIdle, ResetMachine,
     HResend, HTake, HRequest, MachineType
<1>3. Nick[d] \in known'[b] <=> Nick[d] \in known[b]
  BY <1>1 DEF RecvDh, HDone, Fault, SetMyState_ToIdle, GetSharedSecret, HResend, HTake, HRequest,
     DictType
<1>4. Answers(b, d)' <=> Answers(b, d)
  BY <1>1 DEF Answers, RecvDh, HDone, Fault, HResend, HTake, HRequest, LocalType, BuildJson
<1> QED
  BY <1>1, <1>2, <1>3, <1>4 DEF KeepsPart, Woken, Takes, AsksPeer

\* Any step of a client.
LEMMA AsksStep ==
    ASSUME ScenarioInv, NEW b \in Clients, ClientStep(b), NEW d \in Clients \ {b}
    PROVE  AsksOnce(b, d)' /\ AsksOnce(d, b)'
<1>1. /\ TaskNext(b) /\ Frame(b) /\ ClientsTyped /\ LocalType /\ MachineType /\ DictType
      /\ QueueType /\ status'[b] # "faulted" /\ Nick[d] # "server" /\ Null # Nick[d]
      /\ ("server" \in known[b] => "server" \in known'[b])
      /\ NotSelf(b) /\ Engaged(b) /\ DhWakeup(b) /\ HandshakeOwner(b) /\ NoEcho(b)
      /\ (~Up(b) => Resting(b)) /\ LocalsReady(b) /\ RequestMatches(b)
  BY StepFacts, ClientNeverFails, ServerKeyStays, NameFacts
     DEF ClientsTyped, ClientInv, Single, OrderlySingle, RestsUnlessUp
<1>2. hstate[b] # "idle" => shaker[b] = "server" \/ shaker[b] = Nick[d]
  BY <1>1, OtherName DEF Engaged, NotSelf, ScenarioInv, OrderlyScenario
<1>3. CASE RecvEnter(b)
  BY <1>3, EntryTaken
<1>4. CASE HAnswer(b)
  BY <1>4, AnswerSent
<1>5. CASE HResend(b) \/ HDone(b)
  <2>1. CASE shaker[b] = Nick[d]
    <3>1. HResend(b) => hmsg[b].to = Nick[d]
      BY <1>1, <2>1 DEF HResend, RequestMatches, BuildJson
    <3> QED  BY <1>5, <2>1, <3>1, RequestSent, SessionFiled
  <2>2. CASE shaker[b] = "server"
    <3>1. HResend(b) => hmsg[b].to = "server"
      BY <1>1, <2>2 DEF HResend, RequestMatches, BuildJson
    <3>2. Up(b) /\ hpc[b] = "resend" /\ inbox'[b] = inbox[b]
      BY <1>1, <1>5 DEF HResend, HDone, Up, Fault, Send, NetSend, MachineType
    <3>3. ~HAnswer(b) /\ (NoneLanded(d, b)' <=> NoneLanded(d, b)) /\ (Told(b, d)' <=> Told(b, d))
      BY <3>2 DEF HAnswer, NoneLanded, Told
    <3> QED
      BY <1>1, <1>5, <2>2, <3>1, <3>3, ServerOnly, AsksKept, PeerSends
  <2> QED
    BY <1>1, <1>2, <1>5, <2>1, <2>2 DEF HandshakeOwner, HResend, HDone
<1>6. CASE HTake(b)
  <2>1. /\ Up(b) /\ hstate[b] = "send_dh" /\ dhq[b] # <<>> /\ UNCHANGED <<inbox, outbox>>
    BY <1>1, <1>6 DEF HTake, DhWakeup, Up
  <2>2. CASE Head(dhq[b]) # "send_first"
    BY <1>6, <2>1, <2>2, RequestTaken DEF HTake
  <2>3. CASE Head(dhq[b]) = "send_first" /\ shaker[b] = Nick[d]
    BY <1>6, <2>1, <2>3, RequestBuilt DEF HTake
  <2>4. CASE Head(dhq[b]) = "send_first" /\ shaker[b] = "server"
    <3>1. KeepsPart(b, d)
      BY <1>6, <2>1, <2>4, ServerOnly DEF HTake
    <3> QED  BY <2>1, <3>1, AsksKept DEF NoneSent, NoneLanded, Told
  <2> QED  BY <1>2, <2>1, <2>2, <2>3, <2>4
<1>7. CASE RecvDh(b)
  <2> DEFINE m == Head(inbox[b])
  <2>1. /\ m \in DhMsgs /\ m \in ToSet(inbox[b]) /\ m.from # Nick[b]
        /\ UNCHANGED <<outbox, status, known, hVars, dhq>> /\ Up(b)
    <3>1. inbox[b] # <<>> /\ m.type = "dh"
      BY <1>7 DEF RecvDh, Receiving
    <3>2. m \in ToSet(inbox[b]) /\ m \in Message
      BY <1>1, <3>1, StreamTail, HeadOfInbox DEF ClientsTyped, NetType
    <3> QED
      BY <1>1, <1>7, <3>1, <3>2, MessageKinds DEF NoEcho, RecvDh, Take, NetTake, Receiving, Up
  <2>2. CASE m.from = Nick[d]
    BY <1>7, <2>2, NumberTaken
  <2>3. CASE m.from = "server"
    <3>1. IsAnswer(b, m) /\ shaker[b] = "server"
      BY <1>7, <2>3, FromServerFacts DEF IsAnswer
    <3>2. ~Exit(b) /\ ~RecvEnter(b)
      BY <1>7, <2>1 DEF Exit, Up, RecvEnter, RecvDh, Receiving
    <3> QED
      BY <1>1, <1>7, <2>1, <2>3, <3>1, <3>2, ServerOnly, AsksKept, PeerReads DEF NoneSent
  <2> QED
    BY <2>1, <2>2, <2>3, OtherName DEF ScenarioInv, OrderlyScenario, DhMsgs
<1>8. CASE Connect(b) \/ Exit(b)
  <2>1. ~Up(b) /\ hpc[b] = "take" /\ UNCHANGED <<hVars, outbox, hsent>>
    BY <1>1, <1>8 DEF Connect, Exit, Up, Resting, NetConnect, NetClose
  <2>2. Peace(b, d) /\ Silent(b, d) /\ Silent(d, b)
    BY <2>1, AsksParts
  <2>3. ~Woken(b, d)' /\ ~Takes(b, d)'
    <3>1. CASE Connect(b)
      <4>1. shaker'[b] = shaker[b] /\ shaker[b] = "server"
        BY <1>1, <3>1, StepFacts
           DEF Connect, ClientInv, Unborn
      <4> QED  BY <1>1, <4>1 DEF Woken, Takes
    <3>2. CASE Exit(b)
      BY <2>2, <3>2 DEF Exit, Woken, Wakes, Takes, Peace, WillAsk, Silent
    <3> QED  BY <1>8, <3>1, <3>2
  <2>4. ~Woken(b, d) /\ ~Takes(b, d) /\ ~Told(b, d) /\ NoneLanded(d, b)
    BY <2>2 DEF Peace, WillAsk, Woken, Silent, NoneOnWay
  <2>5. AsksPeer(b, d)' <=> AsksPeer(b, d)
    BY <2>1 DEF AsksPeer
  <2>6. KeepsPart(b, d)
    BY <1>1, <2>1, <2>2, <2>3, <2>4, <2>5 DEF KeepsPart, Answers, Peace
  <2> QED  BY <2>1, <2>4, <2>6, AsksKept, PeerReads DEF NoneSent
<1>9. CASE ~(RecvEnter(b) \/ HAnswer(b) \/ HResend(b) \/ HDone(b) \/ HTake(b) \/ RecvDh(b)
             \/ Connect(b) \/ Exit(b))
  <2>1. UNCHANGED <<hsVars>> /\ UNCHANGED <<hmsg, hsent>>
    BY <1>1, <1>9 DEF Frame, HCheck, HStartKey, HPutKey, Fault
  <2>2. /\ (Answers(b, d)' <=> Answers(b, d)) /\ (AsksPeer(b, d)' <=> AsksPeer(b, d))
    <3>1. CASE UNCHANGED hpc
      BY <2>1, <3>1 DEF Answers, AsksPeer
    <3>2. CASE HCheck(b) \/ HStartKey(b) \/ HPutKey(b)
      BY <1>1, <2>1, <3>2 DEF Answers, AsksPeer, HCheck, HStartKey, HPutKey, LocalType, Fault
    <3> QED  BY <1>1, <1>9, <3>1, <3>2 DEF Frame
  <2>3. (Wakes(b, "send_first")' <=> Wakes(b, "send_first"))
        /\ (Wakes(b, "rcv_first")' <=> Wakes(b, "rcv_first"))
    <3>1. CASE PutDh(b)
      BY <1>1, <3>1 DEF PutDh, Wakes, LocalType, QueueType
    <3>2. CASE RecvSenderKey(b) \/ PutKey(b)
      BY <1>1, <3>2 DEF RecvSenderKey, Receiving, PutKey, Wakes, LocalType, Fault
    <3>3. CASE UNCHANGED rVars /\ UNCHANGED dhq
      BY <3>3 DEF Wakes
    <3> QED  BY <1>1, <1>9, <3>1, <3>2, <3>3 DEF Frame
  <2>4. \/ status'[b] = status[b] /\ (Nick[d] \in known'[b] <=> Nick[d] \in known[b])
        \/ Peace(b, d)
    <3>1. CASE RecvLeave(b)
      <4>1. /\ Head(inbox[b]) \in ToSet(inbox[b]) /\ Head(inbox[b]).type = "leave"
        BY <1>1, <3>1, StreamTail DEF RecvLeave, Receiving, ClientsTyped, NetType
      <4>2. status[d] = "closed"
        BY <4>1, StepFacts DEF OrderlyPair, ToldAlone
      <4> QED  BY <4>2, AsksParts DEF Up
    <3>2. CASE InputQuit(b)
      <4>1. Settled /\ Up(b)
        BY <3>2, PatientStep DEF ScenarioInv, InputQuit, Up
      <4>2. Up(d) => Resting(d) /\ inbox[d] = <<>> /\ dhq[d] = <<>>
        BY <4>1, SettledFacts
      <4>3. Resting(b) /\ inbox[b] = <<>> /\ dhq[b] = <<>>
        BY <4>1, SettledFacts
      <4>4. ASSUME NEW x \in {b, d}, NEW y, Resting(x), inbox[x] = <<>>, dhq[x] = <<>>
            PROVE  ~WillAsk(x, y) /\ ~AsksPeer(x, y)
        BY <4>4 DEF WillAsk, Told, EntriesOf, Wakes, Resting, AsksPeer
      <4> QED  BY <4>2, <4>3, <4>4, AsksParts DEF Peace
    <3>3. CASE ~RecvLeave(b) /\ ~InputQuit(b)
      <4>1. known'[b] = known[b]
        BY <1>1, <1>9, <3>3 DEF Frame, RecvSenderKey, Fault
      <4>2. status'[b] = status[b]
        BY <1>1, <1>9, <3>3, ComesOrGoes
      <4> QED  BY <4>1, <4>2
    <3> QED  BY <3>1, <3>2, <3>3
  <2>5. KeepsPart(b, d)
    BY <1>1, <2>1, <2>2, <2>3, <2>4 DEF KeepsPart, Woken, Takes
  <2> QED  BY <1>9, <2>5, AsksKept, PeerReads, PeerSends
<1> QED
  BY <1>3, <1>4, <1>5, <1>6, <1>7, <1>8, <1>9

-----------------------------------------------------------------------------
(* The exchange of sender keys and the lines: steps of a client *)

\* An exchange begins when H has filed a session, and nowhere else.
LEMMA ExchangeBegins ==
    ASSUME ScenarioInv, NEW b \in Clients, ClientStep(b), NEW c \in Clients, Exchanging(c)'
    PROVE  Exchanging(c) \/ (c = b /\ HDone(b) /\ shaker[b] # "server")
<1>1. /\ TaskNext(b) /\ Frame(b) /\ ClientsTyped /\ LocalType /\ RatchetType
      /\ status'[b] # "faulted" /\ ExchangeOpen(b)
      /\ (inbox[b] # <<>> => Head(inbox[b]) \in ToSet(inbox[b]))
  BY StepFacts, ClientNeverFails, StreamTail DEF ClientsTyped, ClientInv, NetType
<1>2. CASE c # b
  <2>1. Untouched(c)
    BY <1>2, StepFacts
  <2> QED  BY <2>1 DEF Untouched, Exchanging
<1>3. CASE c = b /\ rstate'[b] # "idle"
  <2>1. rstate[b] # "idle" \/ RecvSenderKey(b) \/ HStartKey(b)
    BY <1>1, <1>3 DEF Frame, KMark, KFinish, RatchetToIdle, ExchangeOpen, RatchetType
  <2>2. CASE RecvSenderKey(b)
    BY <1>1, <1>3, <2>2 DEF RecvSenderKey, Receiving, Exchanging
  <2> QED  BY <1>3, <2>1, <2>2 DEF HStartKey, Exchanging
<1>4. CASE c = b /\ hpc'[b] \in {"start_key", "put_key"}
  <2>1. hpc'[b] = hpc[b] \/ HCheck(b) \/ HStartKey(b)
    BY <1>1, <1>4 DEF Frame, HTake, HRequest, HRespond, HAnswer, HResend, HDone, HPutKey,
       LocalType, Fault
  <2>2. CASE HCheck(b)
    BY <1>1, <1>4, <2>2 DEF HCheck, Fault, LocalType, Exchanging
  <2> QED  BY <1>4, <2>1, <2>2 DEF HStartKey, Exchanging
<1>5. CASE c = b /\ hpc'[b] = "check" /\ hcur'[b] # "server"
  <2>1. (hpc'[b] = hpc[b] /\ hcur'[b] = hcur[b]) \/ HDone(b)
    BY <1>1, <1>5 DEF Frame, HTake, HRequest, HRespond, HAnswer, HResend, HCheck, HStartKey, HPutKey,
       LocalType, Fault
  <2>2. CASE HDone(b)
    BY <1>1, <1>5, <2>2 DEF HDone, LocalType, Fault
  <2> QED  BY <1>5, <2>1, <2>2 DEF Exchanging
<1>6. ASSUME c = b, NEW m \in ToSet(outbox'[b]) \cup ToSet(inbox'[b]), m.type = "sender_key"
      PROVE  Exchanging(b)
  <2>1. CASE m \in ToSet(inbox'[b])
    BY <1>6, <2>1, SocketsShrink DEF Exchanging
  <2>2. CASE m \in ToSet(outbox'[b]) /\ m \notin ToSet(outbox[b])
    <3>1. Adds(b, m)
      <4>1. PICK w : Adds(b, w)
        BY <2>2, SendShape
      <4>2. outbox[b] \in Seq(Message)
        BY <1>1 DEF ClientsTyped, NetType
      <4> QED  BY <2>2, <4>1, <4>2, StreamAppend DEF Adds
    <3>2. kpc[b] # "take"
      BY <1>6, <3>1 DEF Adds, KAnswer, KResend, BuildJson
    <3> QED  BY <1>1, <3>2 DEF ExchangeOpen, Exchanging
  <2> QED  BY <1>6, <2>1, <2>2 DEF Exchanging
<1> QED
  BY <1>2, <1>3, <1>4, <1>5, <1>6 DEF Exchanging

\* While c exchanges sender keys nobody leaves, and the sessions stay.
LEMMA ExchangeStays ==
    ASSUME ScenarioInv, NEW b \in Clients, ClientStep(b),
           NEW c \in Clients, NEW d \in Clients \ {c}, Exchanging(c)
    PROVE  /\ Up(c) /\ Up(d) /\ Up(c)' /\ Up(d)'
           /\ Nick[d] \in known[c] /\ Nick[c] \in known[d]
           /\ Nick[d] \in known'[c] /\ session'[c][Nick[d]] = session[c][Nick[d]]
           /\ Nick[c] \in known'[d] /\ session'[d][Nick[c]] = session[d][Nick[c]]
<1>1. /\ Up(c) /\ Up(d) /\ Nick[d] \in known[c] /\ Nick[c] \in known[d]
      /\ GroupInv /\ DistinctNicks
  BY DEF ScenarioInv, OrderlyScenario, OrderlyInv, OrderlyPair, ExchangeMeant
<1>2. UNCHANGED status
  <2>1. ~Connect(b) /\ ~Exit(b)
    <3>1. b = c \/ b = d
      BY OtherName DEF ScenarioInv, OrderlyScenario
    <3> QED  BY <1>1, <3>1 DEF Connect, Exit, Up
  <2>2. ~InputQuit(b)
    <3>1. SUFFICES ASSUME Settled PROVE FALSE
      BY PatientStep DEF ScenarioInv
    <3>2. Resting(c) /\ inbox[c] = <<>>
      BY <1>1, <3>1, SettledFacts
    <3> QED  BY <3>2 DEF Resting, Exchanging, ToSet
  <2> QED  BY <2>1, <2>2, ComesOrGoes
<1>3. [Next]_vars
  BY DEF Next
<1> QED
  BY <1>1, <1>2, <1>3, EntryStays DEF Up, Here

LEMMA ExchangeMeantStep ==
    ASSUME ScenarioInv, NEW b \in Clients, ClientStep(b),
           NEW c \in Clients, NEW d \in Clients \ {c}
    PROVE  ExchangeMeant(c, d)'
<1>1. ExchangeMeant(c, d) /\ KeyMeant(c, d) /\ ClientsTyped /\ LocalsReady(b)
  BY StepFacts DEF ScenarioInv, OrderlyInv, OrderlyPair, ExchangeInv, ClientInv
<1>2. ASSUME Exchanging(c)'
      PROVE  Up(c)' /\ Up(d)' /\ Nick[d] \in known'[c] /\ Nick[c] \in known'[d]
  <2>1. CASE Exchanging(c)
    BY <2>1, ExchangeStays
  <2>2. CASE c = b /\ HDone(b) /\ shaker[b] # "server"
    <3>1. shaker[b] = Nick[d]
      <4>1. shaker[b] \in Peers /\ shaker[b] # Nick[b]
        BY <2>2, StepFacts DEF HDone, ClientInv, Engaged, Single, NotSelf
      <4> QED  BY <2>2, <4>1, OtherName DEF ScenarioInv, OrderlyScenario
    <3>2. Nick[b] \in known[d] /\ Up(b) /\ Up(d) /\ Nick[d] \in known'[b]
      BY <2>2, <3>1, SessionFiled
    <3>3. status'[b] = status[b]
      <4>1. status'[b] # "faulted" /\ status \in [Clients -> Status]
        BY <1>1, ClientNeverFails DEF ClientsTyped, MachineType
      <4> QED  BY <2>2, <4>1 DEF HDone, Fault
    <3>4. Untouched(d)
      BY <2>2, StepFacts
    <3> QED  BY <2>2, <3>2, <3>3, <3>4 DEF Up, Untouched
  <2> QED  BY <1>2, <2>1, <2>2, ExchangeBegins
<1>3. ASSUME NEW m \in ToSet(outbox'[c]), m.type = "sender_key"
      PROVE  m.to = Nick[d] /\ m.body.key = session'[c][Nick[d]]
  <2>1. CASE m \in ToSet(outbox[c])
    <3>1. Exchanging(c)
      BY <1>3, <2>1 DEF Exchanging
    <3> QED  BY <1>1, <1>3, <2>1, <3>1, ExchangeStays DEF ExchangeMeant
  <2>2. CASE m \notin ToSet(outbox[c])
    <3>1. c = b
      BY <1>3, <2>2, StepFacts DEF Untouched
    <3>2. Adds(b, m)
      <4>1. PICK w : Adds(b, w)
        BY <1>3, <2>2, <3>1, SendShape
      <4>2. outbox[b] \in Seq(Message)
        BY <1>1 DEF ClientsTyped, NetType
      <4> QED  BY <1>3, <2>2, <3>1, <4>1, <4>2, StreamAppend DEF Adds
    <3>3. kpc[b] \in {"answer", "resend"} /\ m = kmsg[b]
      BY <1>3, <3>2 DEF Adds, KAnswer, KResend, BuildJson
    <3>4. Exchanging(b)
      BY <3>3, StepFacts DEF ClientInv, ExchangeOpen, Exchanging
    <3>5. Up(d) /\ session'[c][Nick[d]] = session[c][Nick[d]]
      BY <3>1, <3>4, ExchangeStays
    <3>6. kmsg[b] # NoMsg
      BY <1>3, <3>3 DEF NoMsg, BuildJson
    <3> QED  BY <1>1, <3>1, <3>3, <3>5, <3>6 DEF KeyMeant, Here, Up
  <2> QED  BY <2>1, <2>2
<1>4. ASSUME NEW m \in ToSet(inbox'[c]), m.type = "sender_key"
      PROVE  m.from = Nick[d] /\ m.body = [key |-> session'[d][Nick[c]], val |-> d]
  <2>1. m \in ToSet(inbox[c])
    BY <1>4, SocketsShrink
  <2>2. Exchanging(c)
    BY <1>4, <2>1 DEF Exchanging
  <2> QED  BY <1>1, <1>4, <2>1, <2>2, ExchangeStays DEF ExchangeMeant
<1> QED
  BY <1>2, <1>3, <1>4 DEF ExchangeMeant

\* A sender key that is there is replaced by itself, and dropped on a notice only.
LEMMA SenderStays ==
    ASSUME ScenarioInv, NEW b \in Clients, ClientStep(b),
           NEW c \in Clients, NEW d \in Clients \ {c},
           Nick[d] \in known[c], sender[c][Nick[d]] = d, c = b => ~RecvLeave(b)
    PROVE  Nick[d] \in known'[c] /\ sender'[c][Nick[d]] = d
<1>1. CASE c # b
  BY <1>1, StepFacts DEF Untouched
<1>2. CASE c = b
  <2>1. /\ Frame(b) /\ ClientsTyped /\ DictType /\ LocalType /\ MachineType /\ ExchangeMeant(b, d)
        /\ ClientInv(b) /\ Nick[d] \in Peers /\ status'[b] # "faulted"
        /\ (inbox[b] # <<>> => Head(inbox[b]) \in ToSet(inbox[b]))
        /\ (hstate[b] # "idle" /\ Up(b) => shaker[b] # Nick[d] \/ hstate[b] = "send_dh")
    BY <1>2, StepFacts, ClientNeverFails, StreamTail, PeerFacts
       DEF ClientsTyped, NetType, OrderlyPair, Single, SecondRefused
  <2>2. CASE UNCHANGED dicVars
    BY <1>2, <2>2
  <2>3. CASE Connect(b)
    BY <1>2, <2>1, <2>3 DEF Connect, ClientInv, Unborn
  <2>4. CASE RecvSenderKey(b)
    <3>1. Head(inbox[b]).from = Nick[d] /\ Head(inbox[b]).body.val = d
      BY <1>2, <2>1, <2>4 DEF RecvSenderKey, Receiving, ExchangeMeant
    <3>2. ~Fault(b)
      BY <2>1 DEF Fault, MachineType
    <3>3. known' = known /\ sender' = [sender EXCEPT ![b][Nick[d]] = d]
      BY <2>4, <3>1, <3>2 DEF RecvSenderKey
    <3> QED  BY <1>2, <2>1, <3>3 DEF DictType
  <2>5. CASE HTake(b) \/ HDone(b)
    <3>1. UNCHANGED <<known, sender>> \/ (CanAdd(b, shaker[b]) /\ GetSharedSecret(b))
      BY <2>5 DEF HTake, HRequest, HRespond, HDone, SetMyState_ToIdle, Fault
    <3> QED  BY <1>2, <2>1, <3>1 DEF CanAdd, GetSharedSecret, DictType
  <2> QED  BY <1>2, <2>1, <2>2, <2>3, <2>4, <2>5 DEF Frame
<1> QED
  BY <1>1, <1>2

\* What c has of the sender key of d is that of d or nothing.
LEMMA SenderOrNothing ==
    ASSUME ScenarioInv, NEW b \in Clients, ClientStep(b),
           NEW c \in Clients, NEW d \in Clients \ {c}
    PROVE  sender'[c][Nick[d]] \in {Null, d}
<1>1. sender[c][Nick[d]] \in {Null, d} /\ ExchangeMeant(c, d) /\ DistinctNicks
  BY DEF ScenarioInv, OrderlyInv, OrderlyPair, LinesReadable, OrderlyScenario
<1>2. CASE c # b
  BY <1>1, <1>2, StepFacts DEF Untouched
<1>3. CASE c = b
  <2>1. /\ Frame(b) /\ DictType /\ Nick[d] \in Peers /\ Nick[b] # Nick[d]
        /\ (inbox[b] # <<>> => Head(inbox[b]) \in ToSet(inbox[b]))
    BY <1>1, <1>3, StepFacts, StreamTail, PeerFacts DEF ClientsTyped, NetType, DistinctNicks
  <2>2. CASE UNCHANGED dicVars
    BY <1>1, <2>2
  <2>3. CASE Connect(b)
    BY <1>1, <1>3, <2>1, <2>3 DEF Connect, DictType
  <2>4. CASE RecvSenderKey(b)
    <3>1. UNCHANGED sender \/ sender' = [sender EXCEPT ![b][Nick[d]] = d]
      BY <1>1, <1>3, <2>1, <2>4 DEF RecvSenderKey, Receiving, ExchangeMeant, Fault
    <3> QED  BY <1>1, <1>3, <2>1, <3>1 DEF DictType
  <2>5. CASE HTake(b) \/ HDone(b)
    <3>1. UNCHANGED sender \/ GetSharedSecret(b)
      BY <2>5 DEF HTake, HRequest, HRespond, HDone, SetMyState_ToIdle, Fault
    <3> QED  BY <1>1, <1>3, <2>1, <3>1 DEF GetSharedSecret, DictType
  <2>6. CASE RecvLeave(b)
    <3>1. UNCHANGED sender \/ \E who : RemoveData(b, who)
      BY <2>6 DEF RecvLeave, Fault
    <3> QED  BY <1>1, <1>3, <2>1, <3>1 DEF RemoveData, DictType
  <2> QED  BY <2>1, <2>2, <2>3, <2>4, <2>5, <2>6 DEF Frame
<1> QED
  BY <1>2, <1>3

\* Lines of d for c are encrypted with the sender key of d that c has.
LEMMA LinesStep ==
    ASSUME ScenarioInv, NEW b \in Clients, ClientStep(b),
           NEW c \in Clients, NEW d \in Clients \ {c}
    PROVE  LinesReadable(d, c)'
<1>1. /\ LinesReadable(d, c) /\ ToldAlone(d, c) /\ RestsUnlessUp(d) /\ ClientsTyped
      /\ (inbox[c] # <<>> => Head(inbox[c]) \in ToSet(inbox[c]))
  BY StepFacts, StreamTail
     DEF ScenarioInv, OrderlyInv, OrderlySingle, OrderlyPair, ClientsTyped, NetType
<1>2. RecvLeave(c) => /\ \A m \in ToSet(inbox[c]) : m.type # "message"
                      /\ ~Up(d) /\ outbox[d] = <<>>
  BY <1>1 DEF RecvLeave, Receiving, ToldAlone, RestsUnlessUp, Resting, Up
<1>3. ASSUME NEW m \in ToSet(outbox'[d]), m.type = "message"
      PROVE  m.body = d /\ (Up(c)' => Nick[d] \in known'[c] /\ sender'[c][Nick[d]] = d)
  <2>1. CASE m \in ToSet(outbox[d])
    <3>1. outbox[d] # <<>> /\ ~RecvLeave(c)
      BY <1>2, <2>1 DEF ToSet
    <3>2. Up(c)' => Up(c)
      <4>1. SUFFICES ASSUME Connect(c) PROVE FALSE
        <5>1. UNCHANGED status \/ Connect(b) \/ InputQuit(b) \/ Exit(b)
          BY ComesOrGoes
        <5>2. CASE c = b
          BY <1>1, <4>1, <5>1, <5>2 DEF Up, InputQuit, Exit, ClientsTyped, MachineType
        <5>3. CASE c # b
          BY <5>3, StepFacts DEF Up, Untouched
        <5> QED  BY <5>2, <5>3
      <4>2. c = b
        <5>1. c # b => Untouched(c)
          BY StepFacts
        <5> QED  BY <1>1, <4>1, <5>1 DEF Connect, Untouched, ClientsTyped, MachineType
      <4>3. Settled
        BY <4>1, <4>2, PatientStep DEF ScenarioInv
      <4>4. Up(d) \/ Resting(d)
        BY <1>1 DEF RestsUnlessUp
      <4> QED  BY <3>1, <4>3, <4>4, SettledFacts DEF Resting
    <3> QED  BY <1>1, <1>3, <2>1, <3>1, <3>2, SenderStays DEF LinesReadable
  <2>2. CASE m \notin ToSet(outbox[d])
    <3>1. d = b
      BY <1>3, <2>2, StepFacts DEF Untouched
    <3>2. Adds(b, m)
      <4>1. PICK w : Adds(b, w)
        BY <1>3, <2>2, <3>1, SendShape
      <4>2. outbox[b] \in Seq(Message)
        BY <1>1 DEF ClientsTyped, NetType
      <4> QED  BY <1>3, <2>2, <3>1, <4>1, <4>2, StreamAppend DEF Adds
    <3>3. InputLine(b) /\ m.body = b
      BY <1>3, <3>2 DEF Adds, BuildJson
    <3>4. Settled /\ Up(b) /\ UNCHANGED <<status, known, sender>>
      BY <3>3, PatientStep DEF ScenarioInv, InputLine, Up
    <3>5. Up(c) => Nick[d] \in known[c] /\ sender[c][Nick[d]] # Null
      BY <3>1, <3>4, SettledFacts
    <3> QED  BY <1>1, <3>1, <3>3, <3>4, <3>5 DEF LinesReadable, Up
  <2> QED  BY <2>1, <2>2
<1>4. ASSUME NEW m \in ToSet(inbox'[c]), m.type = "message"
      PROVE  /\ m.from = Nick[d] /\ m.body = d
             /\ Nick[d] \in known'[c] /\ sender'[c][Nick[d]] = d
  <2>1. m \in ToSet(inbox[c])
    BY SocketsShrink
  <2>2. ~RecvLeave(c)
    BY <1>2, <1>4, <2>1
  <2> QED  BY <1>1, <1>4, <2>1, <2>2, SenderStays DEF LinesReadable
<1> QED
  BY <1>3, <1>4, SenderOrNothing DEF LinesReadable

\* A step of one client and what the other's own part of the invariant says.
LEMMA OtherSingle ==
    ASSUME ScenarioInv, NEW b \in Clients, ClientStep(b), NEW c \in Clients \ {b}
    PROVE  OrderlySingle(c)'
<1>1. Untouched(c) /\ OrderlySingle(c) /\ UNCHANGED <<members, key>>
  BY StepFacts DEF serverVars, memVars
<1> QED
  BY <1>1 DEF Untouched, OrderlySingle, RestsUnlessUp, Up, Resting, ServerOnce, AsksServer,
     ServerAgrees, HandshakeLocals, Wakes, NoEcho, NoticesReadable

LEMMA ClientKeepsOrder ==
    ASSUME ScenarioInv, NEW b \in Clients, ClientStep(b), ~TopBit'
    PROVE  OrderlyInv'
<1>1. serverUp' /\ AcceptedOnce'
  BY StepFacts, AcceptedStep
<1>2. ASSUME NEW c \in Clients
      PROVE  OrderlySingle(c)'
  <2>1. CASE c = b
    <3>1. (status[b] # "faulted")'
      BY ClientNeverFails
    <3> QED
      BY <2>1, <3>1, RestsStep, ServerAskedStep, LocalsStep, NoticesStep DEF OrderlySingle
  <2> QED  BY <2>1, OtherSingle
<1>3. ASSUME NEW c \in Clients, NEW d \in Clients, c # d
      PROVE  OrderlyPair(c, d)'
  <2>1. c = b \/ d = b
    BY <1>3, OtherName DEF ScenarioInv, OrderlyScenario
  <2> QED
    BY <1>3, <2>1, JoinsLeavesStep, ToldStep, AsksStep, ExchangeMeantStep, LinesStep
       DEF OrderlyPair
<1> QED
  BY <1>1, <1>2, <1>3 DEF OrderlyInv

-----------------------------------------------------------------------------
(* Whom a handler writes to, in a chat of two *)

\* The other member has one place in the order of the connections.
LEMMA PlaceOfOther ==
    ASSUME ScenarioInv, NEW e \in Clients, NEW d \in Clients \ {e}, d \in members
    PROVE  \E k \in 1..Len(accepted) :
              accepted[k] = d /\ \A i \in 1..Len(accepted) : Other(accepted[i], e) <=> i = k
<1>1. accepted \in Seq(Clients) /\ IsInjective(accepted) /\ d \in ToSet(accepted)
  BY DEF ScenarioInv, OrderlyInv, AcceptedOnce, GroupInv, ServerInv, WireType
<1>2. PICK k \in 1..Len(accepted) : accepted[k] = d
  BY <1>1 DEF ToSet
<1>3. \A i \in 1..Len(accepted) : Other(accepted[i], e) => accepted[i] = d
  BY <1>1, OtherName DEF Other, ScenarioInv, OrderlyScenario
<1>4. \A i \in 1..Len(accepted) : accepted[i] = d => i = k
  BY <1>1, <1>2 DEF IsInjective
<1> QED
  BY <1>2, <1>3, <1>4 DEF Other

LEMMA OthersOne ==
    ASSUME ScenarioInv, NEW e \in Clients
    PROVE  /\ members \subseteq {e} => Others(e) = <<>>
           /\ \A d \in members \ {e} : Others(e) = <<d>>
<1> DEFINE pieces == [i \in 1..Len(accepted) |-> When(Other(accepted[i], e), accepted[i])]
<1>1. accepted \in Seq(Clients) /\ members \in SUBSET Clients
  BY DEF ScenarioInv, GroupInv, ServerInv, WireType, TablesType
<1>2. pieces \in Seq(Seq(Clients)) /\ Len(pieces) = Len(accepted)
  <2>1. \A i \in 1..Len(accepted) : pieces[i] \in Seq(Clients)
    BY <1>1 DEF When
  <2>2. pieces \in [1..Len(accepted) -> Seq(Clients)]
    BY <2>1
  <2> HIDE DEF pieces
  <2>3. Len(accepted) \in Nat
    BY <1>1
  <2> QED  BY <2>2, <2>3
<1>3. Others(e) = FlattenSeq(pieces)
  BY DEF Others
<1>4. CASE members \subseteq {e}
  <2>1. \A i \in 1..Len(pieces) : pieces[i] = <<>>
    BY <1>2, <1>4 DEF When, Other
  <2> HIDE DEF pieces
  <2>2. FlattenSeq(pieces) = <<>>
    BY <1>2, <2>1, FlattenNone
  <2> QED  BY <1>3, <1>4, <2>2
<1>5. ASSUME NEW d \in members \ {e} PROVE Others(e) = <<d>>
  <2>1. PICK k \in 1..Len(accepted) :
            accepted[k] = d /\ \A i \in 1..Len(accepted) : Other(accepted[i], e) <=> i = k
    BY <1>1, PlaceOfOther
  <2>2. k \in 1..Len(pieces) /\ pieces[k] = <<d>>
        /\ \A i \in 1..Len(pieces) : i # k => pieces[i] = <<>>
    BY <1>2, <2>1 DEF When
  <2> HIDE DEF pieces
  <2>3. FlattenSeq(pieces) = pieces[k]
    BY <1>2, <2>2, FlattenOne
  <2> QED  BY <1>3, <2>2, <2>3
<1> QED
  BY <1>4, <1>5

LEMMA NoticesOne ==
    ASSUME ScenarioInv, NEW e \in Clients, NEW type, NEW name, NEW route
    PROVE  /\ members \subseteq {e} => Notices(type, e, name, route) = <<>>
           /\ \A d \in members \ {e} :
                 key[d] # NoKey /\ IsRouted(d, route) =>
                     Notices(type, e, name, route) = <<NoticeTo(d, type, name, route)>>
<1> DEFINE W(d) == SendMsg(route, nickname[d],
                           BuildJson(type, "server", nickname[d],
                                     [key |-> key[d], name |-> name]))
           K(i) == \A j \in 1..i : Other(accepted[j], e) => key[accepted[j]] # NoKey
           pieces == [i \in 1..Len(accepted) |->
                         IF Other(accepted[i], e) /\ K(i) THEN W(accepted[i]) ELSE <<>>]
<1>1. accepted \in Seq(Clients) /\ members \in SUBSET Clients /\ Len(accepted) \in Nat
  BY DEF ScenarioInv, GroupInv, ServerInv, WireType, TablesType
<1>2. Notices(type, e, name, route) = FlattenSeq(pieces)
  BY DEF Notices
<1>3. CASE members \subseteq {e}
  <2>1. \A i \in 1..Len(accepted) : pieces[i] = <<>>
    BY <1>3 DEF Other
  <2>2. pieces \in [1..Len(accepted) -> Seq({e})]
    <3>1. \A i \in 1..Len(accepted) : pieces[i] \in Seq({e})
      <4> HIDE DEF pieces
      <4>1. <<>> \in Seq({e})
        OBVIOUS
      <4> QED  BY <2>1, <4>1
    <3> QED  BY <3>1
  <2> HIDE DEF pieces
  <2>3. pieces \in Seq(Seq({e})) /\ Len(pieces) = Len(accepted)
    BY <1>1, <2>2
  <2>4. FlattenSeq(pieces) = <<>>
    BY <2>1, <2>3, FlattenNone
  <2> QED  BY <1>2, <1>3, <2>4
<1>4. ASSUME NEW d \in members \ {e}, key[d] # NoKey, IsRouted(d, route)
      PROVE  Notices(type, e, name, route) = <<NoticeTo(d, type, name, route)>>
  <2>1. PICK k \in 1..Len(accepted) :
            accepted[k] = d /\ \A i \in 1..Len(accepted) : Other(accepted[i], e) <=> i = k
    BY <1>1, PlaceOfOther
  <2>2. K(k)
    BY <1>1, <1>4, <2>1
  <2>3. W(d) = <<NoticeTo(d, type, name, route)>>
    BY <1>4 DEF SendMsg, NoticeTo, IsRouted
  <2>4. pieces[k] = <<NoticeTo(d, type, name, route)>>
    BY <2>1, <2>2, <2>3
  <2>5. \A i \in 1..Len(accepted) : i # k => pieces[i] = <<>>
    BY <2>1
  <2> DEFINE S == {NoticeTo(d, type, name, route)}
  <2>6. pieces \in [1..Len(accepted) -> Seq(S)]
    <3>1. \A i \in 1..Len(accepted) : pieces[i] \in Seq(S)
      <4> HIDE DEF pieces
      <4>1. <<>> \in Seq(S) /\ <<NoticeTo(d, type, name, route)>> \in Seq(S)
        OBVIOUS
      <4> QED  BY <2>4, <2>5, <4>1
    <3> QED  BY <3>1
  <2> HIDE DEF pieces, S
  <2>7. pieces \in Seq(Seq(S)) /\ Len(pieces) = Len(accepted)
    BY <1>1, <2>6
  <2>8. FlattenSeq(pieces) = pieces[k]
    BY <2>1, <2>5, <2>7, FlattenOne
  <2> QED  BY <1>2, <2>4, <2>8
<1> QED
  BY <1>3, <1>4

\* Of a list of writes, the one for d is what reaches d.
LEMMA WriteReaches ==
    ASSUME NEW d \in Clients, NEW writes \in Seq(Write),
           \A i \in 1..Len(writes) : link[writes[i].to] # "reset"
    PROVE  /\ (\A i \in 1..Len(writes) : writes[i].to # d) => MessagesFor(d, writes) = <<>>
           /\ \A k \in 1..Len(writes) :
                 (\A i \in 1..Len(writes) : writes[i].to = d <=> i = k) =>
                     MessagesFor(d, writes) = <<writes[k].msg>>
<1> DEFINE pieces == [i \in 1..Len(writes) |->
               When(writes[i].to = d /\ \A j \in 1..i : link[writes[j].to] # "reset",
                    writes[i].msg)]
<1>1. \A i \in 1..Len(writes) : pieces[i] = When(writes[i].to = d, writes[i].msg)
  BY DEF When
<1>2. pieces \in [1..Len(writes) -> Seq(Message)]
  <2>1. ASSUME NEW i \in 1..Len(writes) PROVE pieces[i] \in Seq(Message)
    <3> HIDE DEF pieces
    <3>1. writes[i] \in Write
      OBVIOUS
    <3>2. writes[i].msg \in Message
      BY <3>1 DEF Write
    <3>3. <<>> \in Seq(Message) /\ <<writes[i].msg>> \in Seq(Message)
      BY <3>2
    <3>4. pieces[i] = <<>> \/ pieces[i] = <<writes[i].msg>>
      BY <1>1 DEF When
    <3> QED  BY <3>3, <3>4
  <2> QED  BY <2>1
<1>3. MessagesFor(d, writes) = FlattenSeq(pieces)
  BY DEF MessagesFor
<1> HIDE DEF pieces
<1>4. pieces \in Seq(Seq(Message)) /\ Len(pieces) = Len(writes)
  BY <1>2
<1>5. CASE \A i \in 1..Len(writes) : writes[i].to # d
  <2>1. \A i \in 1..Len(pieces) : pieces[i] = <<>>
    BY <1>1, <1>4, <1>5 DEF When
  <2> QED  BY <1>3, <1>4, <1>5, <2>1, FlattenNone
<1>6. ASSUME NEW k \in 1..Len(writes), \A i \in 1..Len(writes) : writes[i].to = d <=> i = k
      PROVE  MessagesFor(d, writes) = <<writes[k].msg>>
  <2>1. \A i \in 1..Len(pieces) : i # k => pieces[i] = <<>>
    BY <1>1, <1>4, <1>6 DEF When
  <2>2. pieces[k] = <<writes[k].msg>>
    BY <1>1, <1>6 DEF When
  <2> QED  BY <1>3, <1>4, <2>1, <2>2, FlattenOne
<1> QED
  BY <1>5, <1>6

-----------------------------------------------------------------------------
(* What a handler does in the scenario *)

\* Nothing of the invariant that the handlers need is about more than one client
\* but for what the pair conditions say.
LEMMA HandlerFacts ==
    ASSUME ScenarioInv, NEW e \in Clients
    PROVE  /\ serverUp /\ GroupInv /\ ServerInv /\ ClientsTyped /\ DistinctNicks
           /\ TablesType /\ WireType /\ Connected /\ TablesAgree /\ RoutesLive /\ Reachable
           /\ ClientInv(e) /\ Single(e) /\ OrderlySingle(e)
           /\ \A d \in Clients \ {e} : OrderlyPair(e, d) /\ OrderlyPair(d, e)
           /\ outbox \in [Clients -> Seq(Message)] /\ inbox \in [Clients -> Seq(Message)]
  BY DEF ScenarioInv, OrderlyScenario, OrderlyInv, GroupInv, ServerInv, ClientsTyped, NetType

\* Members have come; who is up has its connection open.
LEMMA MemberFacts ==
    ASSUME ScenarioInv, NEW d \in Clients
    PROVE  /\ d \in members => status[d] # "off"
           /\ Up(d) => link[d] = "open"
           /\ d \in members /\ ~Up(d) => status[d] \in {"quit", "closed"}
<1>1. /\ Linked(d) /\ Connected /\ status[d] \in Status /\ status[d] # "faulted"
      /\ link[d] \in Link
  BY HandlerFacts DEF Single, ClientsTyped, MachineType, OrderlySingle, WireType
<1> QED
  BY <1>1 DEF Linked, Connected, Status, Link, Up

\* Who has registered can be written to ...
LEMMA RegisteredFacts ==
    ASSUME ScenarioInv, NEW d \in Clients, key[d] # NoKey
    PROVE  /\ d \in members /\ nickname[d] = Nick[d] /\ name2sock[Nick[d]] = d
           /\ IsRouted(d, name2sock)
           /\ \A e \in Clients \ {d} : IsRouted(d, Route(e)) /\ Route(e)[Nick[d]] = d
<1>1. /\ TablesAgree /\ Reachable /\ TablesType /\ NamedByNick
      /\ Nick[d] \in Names /\ Null # Nick[d] /\ Null \notin Clients
  BY HandlerFacts, NameFacts DEF ServerInv
<1>2. d \in members /\ nickname[d] = Nick[d]
  BY <1>1 DEF TablesAgree, NamedByNick
<1>3. name2sock[Nick[d]] = d
  BY <1>1, <1>2, HandlerFacts DEF Reachable, DistinctNicks
<1>4. \A e \in Clients \ {d} : Nick[e] # Nick[d] /\ Route(e)[Nick[d]] = d
  <2>1. \A e \in Clients \ {d} : Nick[e] # Nick[d]
    BY HandlerFacts DEF DistinctNicks
  <2> QED  BY <1>1, <1>3, <2>1 DEF Route, TablesType
<1> QED
  BY <1>1, <1>2, <1>3, <1>4 DEF IsRouted

\* ... and under the key of its session, once it has that.
LEMMA KeyedFacts ==
    ASSUME ScenarioInv, NEW d \in Clients, Up(d), "server" \in known[d]
    PROVE  /\ key[d] = session[d]["server"] /\ key[d] # NoKey /\ d \in members
           /\ nickname[d] = Nick[d] /\ name2sock[Nick[d]] = d /\ IsRouted(d, name2sock)
           /\ \A e \in Clients \ {d} : IsRouted(d, Route(e)) /\ Route(e)[Nick[d]] = d
<1>1. ServerAgrees(d) /\ SessionEndToEnd(d) /\ Nick[d] # "server"
  BY HandlerFacts, NameFacts DEF OrderlySingle, ServerInv, ClientInv
<1>2. key[d] = session[d]["server"]
  BY <1>1 DEF ServerAgrees
<1>3. key[d] # NoKey
  <2>1. PICK mine \in Drawn(d), theirs \in session[d]["server"].secret :
            session[d]["server"].secret = SharedSecret(mine, theirs)
    BY <1>1 DEF SessionEndToEnd
  <2> QED  BY <1>2, <2>1 DEF NoKey
<1> QED
  BY <1>2, <1>3, RegisteredFacts

\* While something of e waits for the server, the other member is up.
LEMMA CompanionUp ==
    ASSUME ScenarioInv, NEW e \in members, outbox[e] # <<>>, NEW d \in members \ {e}
    PROVE  Up(d) /\ link[d] = "open" /\ Up(e) /\ link[e] = "open"
<1>1. e \in Clients /\ d \in Clients /\ members \subseteq Clients
  BY HandlerFacts DEF ScenarioInv, GroupInv, ServerInv, TablesType
<1>2. /\ LeavesAlone(d, e) /\ RestsUnlessUp(e) /\ outbox[e] # <<>>
  BY <1>1, HandlerFacts DEF OrderlyPair, OrderlySingle
<1>3. ~Absent(e)
  BY <1>1, <1>2, MemberFacts DEF Absent
<1>4. Up(d) \/ status[d] \in {"quit", "closed"}
  BY <1>1, MemberFacts
<1>5. Up(d) /\ Up(e)
  BY <1>2, <1>3, <1>4 DEF LeavesAlone, RestsUnlessUp, Resting
<1> QED
  BY <1>1, <1>5, MemberFacts

\* One message more in the socket of d.
Gets(d, x) == Up(d) /\ d \in members /\ x \in Message /\ inbox'[d] = Append(inbox[d], x)

Notice(type, d, name) ==
    BuildJson(type, "server", Nick[d], [key |-> session[d]["server"], name |-> name])

\* What a notice for d is, once d has its session with the server.
LEMMA NoticeIs ==
    ASSUME ScenarioInv, NEW d \in Clients, Up(d), "server" \in known[d],
           NEW e \in Clients \ {d}, NEW type, NEW name, NEW route \in {name2sock, Route(e)},
           d \in members, Announcement(type, name, route)
    PROVE  /\ Notices(type, e, name, route) = <<[to |-> d, msg |-> Notice(type, d, name)]>>
           /\ Notices(type, e, name, route) \in Seq(Write)
           /\ Notice(type, d, name) \in Message /\ EveryoneKeyed(e)
<1>1. key[d] = session[d]["server"] /\ key[d] # NoKey /\ nickname[d] = Nick[d]
      /\ IsRouted(d, route) /\ route[Nick[d]] = d
  BY KeyedFacts
<1>2. NoticeTo(d, type, name, route) = [to |-> d, msg |-> Notice(type, d, name)]
  BY <1>1 DEF NoticeTo, Notice
<1>3. Notices(type, e, name, route) = <<[to |-> d, msg |-> Notice(type, d, name)]>>
  BY <1>1, <1>2, NoticesOne
<1>4. Notices(type, e, name, route) \in Seq(Write)
  BY HandlerFacts, NoticesFacts DEF WireType
<1>5. Notice(type, d, name) \in Message
  <2>1. [to |-> d, msg |-> Notice(type, d, name)] \in Write
    BY <1>3, <1>4
  <2> QED  BY <2>1 DEF Write
<1>6. EveryoneKeyed(e)
  <2>1. members \subseteq {d, e}
    BY HandlerFacts, OtherName DEF TablesType, ScenarioInv, OrderlyScenario
  <2> QED  BY <1>1, <2>1 DEF EveryoneKeyed
<1> QED
  BY <1>3, <1>4, <1>5, <1>6

\* Sockets after writes to open connections.
LEMMA AfterWrites ==
    ASSUME ServerInv, NEW writes \in Seq(Write), WriteAll(writes, TRUE),
           \A i \in 1..Len(writes) : link[writes[i].to] = "open", NEW c \in Clients
    PROVE  /\ serverUp'
           /\ (\A i \in 1..Len(writes) : writes[i].to # c) => inbox'[c] = inbox[c]
           /\ \A k \in 1..Len(writes) :
                 (\A i \in 1..Len(writes) : writes[i].to = c <=> i = k) =>
                     inbox'[c] = Append(inbox[c], writes[k].msg)
<1>1. serverUp'
  BY DEF WriteAll
<1>2. inbox[c] \in Seq(Message) /\ \A i \in 1..Len(writes) : link[writes[i].to] # "reset"
  BY DEF ServerInv, WireType
<1>3. inbox'[c] = inbox[c] \/ inbox'[c] = inbox[c] \o MessagesFor(c, writes)
  BY WritesReceived
<1>4. ASSUME \A i \in 1..Len(writes) : writes[i].to # c PROVE inbox'[c] = inbox[c]
  <2>1. MessagesFor(c, writes) = <<>>
    BY <1>2, <1>4, WriteReaches
  <2> QED  BY <1>2, <1>3, <2>1
<1>5. ASSUME NEW k \in 1..Len(writes), \A i \in 1..Len(writes) : writes[i].to = c <=> i = k
      PROVE  inbox'[c] = Append(inbox[c], writes[k].msg)
  <2>1. MessagesFor(c, writes) = <<writes[k].msg>> /\ link[c] = "open"
    BY <1>2, <1>5, WriteReaches
  <2>2. inbox'[c] = inbox[c] \o <<writes[k].msg>>
    BY <2>1, WritesReceived
  <2>3. writes[k] \in Write
    OBVIOUS
  <2>4. writes[k].msg \in Message
    BY <2>3 DEF Write
  <2>5. \A s \in Seq(Message), x \in Message : s \o <<x>> = Append(s, x)
    OBVIOUS
  <2> QED  BY <1>2, <2>2, <2>4, <2>5
<1> QED
  BY <1>1, <1>4, <1>5

\* e, who has gone, is forgotten, and the other member told.
Removed(e) ==
    /\ status[e] = "closed" /\ Resting(e) /\ outbox' = outbox /\ inbox'[e] = inbox[e]
    /\ members' = members \ {e} /\ \A d \in Clients \ {e} : key'[d] = key[d]
    /\ \A d \in Clients \ {e} :
          \/ d \notin members /\ inbox'[d] = inbox[d]
          \/ /\ Gets(d, Notice("leave", d, sock2name[e]))
             /\ Resting(d) /\ inbox[d] = <<>> /\ "server" \in known[d]

LEMMA RemovedShape ==
    ASSUME ScenarioInv, NEW e \in Clients, RemoveClient(e)
    PROVE  serverUp' /\ Removed(e)
<1>1. /\ e \in members /\ outbox[e] = <<>> /\ link[e] # "open" /\ link[e] # "none"
      /\ link[e] \in Link
  <2>1. e \in members /\ Readable(e)
    BY HandlerFacts, EventOfMember DEF RemoveClient
  <2> QED  BY <2>1, HandlerFacts DEF RemoveClient, Readable, Connected, WireType
<1>2. status[e] = "closed" /\ Resting(e)
  <2>1. status[e] = "closed"
    BY <1>1, HandlerFacts DEF Single, Linked, Link
  <2> QED  BY <2>1, HandlerFacts DEF OrderlySingle, RestsUnlessUp, Up
<1>3. ASSUME NEW d \in members \ {e}
      PROVE  d \in Clients /\ Up(d) /\ Resting(d) /\ inbox[d] = <<>> /\ "server" \in known[d]
  <2>1. d \in Clients
    BY HandlerFacts DEF TablesType
  <2>2. Up(d) /\ Resting(d) /\ inbox[d] = <<>>
    BY <1>1, <1>2, <2>1, HandlerFacts, MemberFacts DEF OrderlyPair, LeavesAlone, Absent
  <2>3. ServerFirst(d)
    BY <2>1, HandlerFacts DEF ClientInv
  <2> QED  BY <2>1, <2>2, <2>3 DEF ServerFirst, Resting, Up
<1>4. /\ WriteAll(LeaveWrites(e), EveryoneKeyed(e)) /\ EraseClient(e)
      /\ LeaveWrites(e) \in Seq(Write) /\ outbox' = outbox
  BY HandlerFacts, LeaveWritesFacts DEF RemoveClient, LeaveWrites
<1>5. members' = members \ {e} /\ \A d \in Clients \ {e} : key'[d] = key[d]
  BY <1>4, HandlerFacts DEF EraseClient, TablesType
<1>6. CASE members \subseteq {e}
  <2>1. LeaveWrites(e) = <<>>
    BY <1>6, NoticesOne DEF LeaveWrites
  <2>2. EveryoneKeyed(e) /\ Len(LeaveWrites(e)) = 0
    BY <1>6, <2>1 DEF EveryoneKeyed
  <2>3. WriteAll(LeaveWrites(e), TRUE) /\ ServerInv
    BY <1>4, <2>2, HandlerFacts DEF WriteAll
  <2>4. ASSUME NEW c \in Clients PROVE serverUp' /\ inbox'[c] = inbox[c]
    <3>1. /\ \A i \in 1..Len(LeaveWrites(e)) : link[LeaveWrites(e)[i].to] = "open"
          /\ \A i \in 1..Len(LeaveWrites(e)) : LeaveWrites(e)[i].to # c
      BY <2>2
    <3> QED  BY <1>4, <2>3, <3>1, AfterWrites
  <2> QED  BY <1>2, <1>4, <1>5, <1>6, <2>4 DEF Removed
<1>7. ASSUME NEW d \in members \ {e} PROVE serverUp' /\ Removed(e)
  <2> DEFINE m == Notice("leave", d, sock2name[e])
  <2>1. d \in Clients /\ Up(d) /\ "server" \in known[d] /\ link[d] = "open"
    BY <1>3, MemberFacts
  <2>2. Announcement("leave", sock2name[e], name2sock)
    BY HandlerFacts DEF Announcement, TablesType
  <2>3. LeaveWrites(e) = <<[to |-> d, msg |-> m]>> /\ m \in Message /\ EveryoneKeyed(e)
    BY <2>1, <2>2, NoticeIs DEF LeaveWrites
  <2> HIDE DEF m
  <2>4. /\ Len(LeaveWrites(e)) = 1
        /\ LeaveWrites(e)[1].to = d /\ LeaveWrites(e)[1].msg = m
    BY <2>3
  <2>5. serverUp' /\ inbox'[d] = Append(inbox[d], m) /\ inbox'[e] = inbox[e]
    <3>1. WriteAll(LeaveWrites(e), TRUE) /\ ServerInv
      BY <1>4, <2>3, HandlerFacts DEF WriteAll
    <3>2. \A i \in 1..Len(LeaveWrites(e)) : i = 1
      BY <2>4
    <3>3. serverUp' /\ inbox'[e] = inbox[e]
      <4>1. /\ \A i \in 1..Len(LeaveWrites(e)) : link[LeaveWrites(e)[i].to] = "open"
            /\ \A i \in 1..Len(LeaveWrites(e)) : LeaveWrites(e)[i].to # e
        BY <2>1, <2>4, <3>2
      <4> QED  BY <1>4, <3>1, <4>1, AfterWrites
    <3>4. inbox'[d] = Append(inbox[d], LeaveWrites(e)[1].msg)
      <4>1. /\ \A i \in 1..Len(LeaveWrites(e)) : link[LeaveWrites(e)[i].to] = "open"
            /\ \A i \in 1..Len(LeaveWrites(e)) : LeaveWrites(e)[i].to = d <=> i = 1
            /\ 1 \in 1..Len(LeaveWrites(e))
        BY <2>1, <2>4, <3>2
      <4> QED  BY <1>4, <2>1, <3>1, <4>1, AfterWrites
    <3> QED  BY <2>4, <3>3, <3>4
  <2>6. \A c \in Clients : c = e \/ c = d
    BY <2>1, OtherName DEF ScenarioInv, OrderlyScenario
  <2>7. Gets(d, m) /\ Resting(d) /\ inbox[d] = <<>> /\ "server" \in known[d]
    BY <1>3, <2>1, <2>3, <2>5 DEF Gets
  <2> QED  BY <1>2, <1>4, <1>5, <2>5, <2>6, <2>7 DEF Removed, m
<1> QED
  BY <1>6, <1>7

\* e has asked the server: it gets its key and its answer, and the other member
\* is told.
Registered(e) ==
    /\ outbox[e] # <<>> /\ NumberTo(Head(outbox[e]), "server")
    /\ outbox' = [outbox EXCEPT ![e] = Tail(@)]
    /\ Up(e) /\ AsksServer(e) /\ key[e] = NoKey /\ "server" \notin known[e]
    /\ NumbersFrom(inbox[e], "server") = {}
    /\ inbox'[e] = Append(inbox[e], Answer(e).msg)
    /\ key' = [key EXCEPT ![e] = ServerKey({mynum[e], MyNum})] /\ members' = members
    /\ \A d \in Clients \ {e} :
          \/ d \notin members /\ inbox'[d] = inbox[d]
          \/ Gets(d, Notice("enter", d, Nick[e])) /\ "server" \in known[d]

LEMMA RegisteredShape ==
    ASSUME ScenarioInv, NEW e \in Clients, Handshake(e)
    PROVE  serverUp' /\ Registered(e)
<1> DEFINE m == Head(outbox[e])
<1>1. /\ e \in members /\ outbox[e] # <<>> /\ outbox' = [outbox EXCEPT ![e] = Tail(@)]
      /\ NumberTo(m, "server") /\ m \in ToSet(outbox[e])
  <2>1. /\ outbox[e] # <<>> /\ outbox' = [outbox EXCEPT ![e] = Tail(@)]
        /\ NumberTo(m, "server")
    BY DEF Handshake, Reading, NumberTo
  <2>2. e \in members
    BY HandlerFacts, EventOfMember DEF Handshake, Reading
  <2>3. outbox[e] \in Seq(Message)
    BY HandlerFacts
  <2> QED  BY <2>1, <2>2, <2>3, StreamTail
<1>2. /\ AsksServer(e) /\ key[e] = NoKey /\ NumbersFrom(inbox[e], "server") = {}
      /\ m.body = mynum[e]
  <2>1. NumbersTo(outbox[e], "server") # {}
    BY <1>1, HandlerFacts, InStream
  <2> QED  BY <1>1, <2>1, HandlerFacts DEF OrderlySingle, ServerOnce
<1>3. Up(e) /\ "server" \notin known[e]
  BY <1>2, HandlerFacts
     DEF AsksServer, OrderlySingle, RestsUnlessUp, Resting, Single, SecondRefused
<1>4. /\ WriteAll(<<Answer(e)>> \o EnterWrites(e), EveryoneKeyed(e))
      /\ Answer(e) \in Write /\ Answer(e).to = e
      /\ <<Answer(e)>> \o EnterWrites(e) \in Seq(Write) /\ members' = members
  BY HandlerFacts, HandshakeWrites, AnswerFacts, HandshakeWritesType DEF Handshake
<1>5. key' = [key EXCEPT ![e] = ServerKey({mynum[e], MyNum})]
  <2>1. key' = [key EXCEPT ![e] = ServerKey(SharedSecret(MyNum, m.body))]
    BY DEF Handshake, MyNum
  <2>2. SharedSecret(MyNum, m.body) = {mynum[e], MyNum}
    BY <1>2 DEF SharedSecret
  <2> QED  BY <2>1, <2>2
<1>6. link[e] = "open"
  BY <1>3, MemberFacts
<1>7. ASSUME NEW d \in members \ {e}
      PROVE  d \in Clients /\ Up(d) /\ "server" \in known[d] /\ link[d] = "open"
  <2>1. d \in Clients /\ status[d] # "off"
    BY HandlerFacts, MemberFacts DEF TablesType
  <2>2. Up(d) /\ "server" \in known[d]
    BY <1>3, <2>1, HandlerFacts DEF OrderlyPair, JoinsAlone, Absent
  <2> QED  BY <2>1, <2>2, MemberFacts
<1> HIDE DEF m
<1> DEFINE writes == <<Answer(e)>> \o EnterWrites(e)
<1>8. CASE members \subseteq {e}
  <2>1. EnterWrites(e) = <<>> /\ EveryoneKeyed(e)
    BY <1>8, NoticesOne DEF EnterWrites, EveryoneKeyed
  <2>2. writes = <<Answer(e)>>
    BY <2>1
  <2>3. WriteAll(writes, TRUE) /\ ServerInv /\ writes \in Seq(Write)
    BY <1>4, <2>1, HandlerFacts DEF WriteAll
  <2> HIDE DEF writes
  <2>4. Len(writes) = 1 /\ writes[1] = Answer(e)
    BY <2>2
  <2>5. /\ \A i \in 1..Len(writes) : link[writes[i].to] = "open"
        /\ \A i \in 1..Len(writes) : writes[i].to = e <=> i = 1
        /\ 1 \in 1..Len(writes)
    BY <1>4, <1>6, <2>4
  <2>6. serverUp' /\ inbox'[e] = Append(inbox[e], Answer(e).msg)
    BY <2>3, <2>4, <2>5, AfterWrites
  <2>7. ASSUME NEW d \in Clients \ {e} PROVE d \notin members /\ inbox'[d] = inbox[d]
    <3>1. \A i \in 1..Len(writes) : writes[i].to # d
      BY <1>4, <2>4
    <3> QED  BY <1>8, <2>3, <2>5, <3>1, AfterWrites
  <2> QED  BY <1>1, <1>2, <1>3, <1>4, <1>5, <2>6, <2>7 DEF Registered, m
<1>9. ASSUME NEW d \in members \ {e} PROVE serverUp' /\ Registered(e)
  <2> DEFINE w == Notice("enter", d, Nick[e])
  <2>1. d \in Clients /\ Up(d) /\ "server" \in known[d] /\ link[d] = "open"
    BY <1>7
  <2>2. Announcement("enter", Nick[e], Route(e))
    BY HandlerFacts, NameFacts DEF Announcement, TablesType, Route
  <2>3. EnterWrites(e) = <<[to |-> d, msg |-> w]>> /\ w \in Message /\ EveryoneKeyed(e)
    BY <2>1, <2>2, NoticeIs DEF EnterWrites
  <2>4. Len(writes) = 2 /\ writes[1] = Answer(e) /\ writes[2] = [to |-> d, msg |-> w]
    <3>1. EnterWrites(e) \in Seq(Write)
      BY HandlerFacts, EnterWritesFacts
    <3> HIDE DEF w
    <3>2. Len(EnterWrites(e)) = 1 /\ EnterWrites(e)[1] = [to |-> d, msg |-> w]
      BY <2>3
    <3>3. /\ writes[1] = Answer(e)
          /\ \A i \in 1..Len(writes) :
                i # 1 => \E j \in 1..Len(EnterWrites(e)) : writes[i] = EnterWrites(e)[j]
      BY HandlerFacts, HandshakeWritesType
    <3>4. Len(writes) = 2
      <4> DEFINE s == EnterWrites(e)
                 a == Answer(e)
      <4>1. s \in Seq(Write) /\ a \in Write /\ Len(s) = 1
        BY <1>4, <3>1, <3>2
      <4> HIDE DEF s, a
      <4>2. Len(<<a>> \o s) = 1 + Len(s)
        BY <4>1
      <4> QED  BY <4>1, <4>2 DEF s, a
    <3> HIDE DEF writes
    <3>5. writes[2] = EnterWrites(e)[1]
      <4>1. PICK j \in 1..Len(EnterWrites(e)) : writes[2] = EnterWrites(e)[j]
        BY <3>3, <3>4
      <4> QED  BY <3>2, <4>1
    <3> QED  BY <3>2, <3>3, <3>4, <3>5
  <2>5. WriteAll(writes, TRUE) /\ ServerInv /\ writes \in Seq(Write)
    BY <1>4, <2>3, HandlerFacts DEF WriteAll
  <2> HIDE DEF w, writes
  <2>6. Len(writes) = 2 /\ writes[1] = Answer(e) /\ writes[2].to = d /\ writes[2].msg = w
    BY <2>4 DEF Write
  <2>7. /\ \A i \in 1..Len(writes) : link[writes[i].to] = "open"
        /\ \A i \in 1..Len(writes) : writes[i].to = e <=> i = 1
        /\ \A i \in 1..Len(writes) : writes[i].to = d <=> i = 2
        /\ 1 \in 1..Len(writes) /\ 2 \in 1..Len(writes)
    <3>1. \A i \in 1..Len(writes) : i = 1 \/ i = 2
      BY <2>6
    <3> QED  BY <1>4, <1>6, <2>1, <2>6, <3>1
  <2>8. serverUp' /\ inbox'[e] = Append(inbox[e], Answer(e).msg)
    <3>1. serverUp' /\ inbox'[e] = Append(inbox[e], writes[1].msg)
      BY <2>5, <2>7, AfterWrites
    <3> QED  BY <2>6, <3>1
  <2>9. inbox'[d] = Append(inbox[d], w)
    <3>1. inbox'[d] = Append(inbox[d], writes[2].msg)
      BY <2>1, <2>5, <2>7, AfterWrites
    <3> QED  BY <2>6, <3>1
  <2>10. \A c \in Clients : c = e \/ c = d
    BY <2>1, OtherName DEF ScenarioInv, OrderlyScenario
  <2>11. Gets(d, w)
    BY <2>1, <2>3, <2>9 DEF Gets
  <2> QED
    BY <1>1, <1>2, <1>3, <1>4, <1>5, <2>1, <2>8, <2>10, <2>11 DEF Registered, w, m
<1> QED
  BY <1>8, <1>9

\* A message of e is passed on to the other member, or, when there is none, lost
\* if it is a line; everything else finds its recipient.
Relayed(e) ==
    LET m == Head(outbox[e])
    IN  /\ outbox[e] # <<>> /\ outbox' = [outbox EXCEPT ![e] = Tail(@)]
        /\ Up(e) /\ m \in Message /\ m.from = Nick[e]
        /\ m.type \in {"message", "dh", "sender_key"} /\ ~NumberTo(m, "server")
        /\ inbox'[e] = inbox[e] /\ UNCHANGED <<key, members>>
        /\ \A d \in Clients \ {e} :
              \/ d \notin members /\ inbox'[d] = inbox[d] /\ m.type = "message"
              \/ Gets(d, m) /\ (m.type # "message" => m.to = Nick[d])

LEMMA GroupShape ==
    ASSUME ScenarioInv, NEW e \in Clients, RelayToGroup(e)
    PROVE  serverUp' /\ Relayed(e)
<1> DEFINE m == Head(outbox[e])
<1>1. /\ e \in members /\ outbox[e] # <<>> /\ outbox' = [outbox EXCEPT ![e] = Tail(@)]
      /\ m.to = "group" /\ m \in Message /\ m.from = Nick[e] /\ UNCHANGED <<key, members>>
      /\ Reading(e)
  <2>1. /\ outbox[e] # <<>> /\ outbox' = [outbox EXCEPT ![e] = Tail(@)] /\ m.to = "group"
        /\ UNCHANGED <<key, members>> /\ Reading(e)
    BY DEF RelayToGroup, Reading, memVars
  <2>2. e \in members
    BY HandlerFacts, EventOfMember DEF RelayToGroup, Reading
  <2>3. m \in Message /\ m.from \in {Nick[e], Null}
    BY <2>1, HandlerFacts, HeadTaken DEF TakenFrom
  <2>4. m.from # Null
    BY <2>3, NameFacts DEF Message, ChatMsgs, DhMsgs, KeyMsgs, EnterMsgs, LeaveMsgs, Peers
  <2> QED  BY <2>1, <2>2, <2>3, <2>4
<1>2. m.type = "message"
  <2>1. "group" \notin Names
    BY ProtocolAssumption DEF Names
  <2> QED  BY <1>1, <2>1 DEF Message, ChatMsgs, DhMsgs, KeyMsgs, EnterMsgs, LeaveMsgs, Peers
<1>3. Up(e)
  BY <1>1, HandlerFacts DEF OrderlySingle, RestsUnlessUp, Resting
<1>4. WriteAll(GroupWrites(e), TRUE) /\ GroupWrites(e) \in Seq(Write) /\ ServerInv
  BY <1>1, HandlerFacts, GroupWritesFacts DEF RelayToGroup, GroupWrites
<1>5. CASE members \subseteq {e}
  <2>1. Others(e) = <<>>
    BY <1>5, OthersOne
  <2>2. Len(GroupWrites(e)) = 0
    BY <2>1 DEF GroupWrites
  <2>3. ASSUME NEW c \in Clients PROVE serverUp' /\ inbox'[c] = inbox[c]
    <3>1. /\ \A i \in 1..Len(GroupWrites(e)) : link[GroupWrites(e)[i].to] = "open"
          /\ \A i \in 1..Len(GroupWrites(e)) : GroupWrites(e)[i].to # c
      BY <2>2
    <3> QED  BY <1>4, <3>1, AfterWrites
  <2> QED  BY <1>1, <1>2, <1>3, <1>5, <2>3 DEF Relayed, NumberTo
<1>6. ASSUME NEW d \in members \ {e} PROVE serverUp' /\ Relayed(e)
  <2>1. d \in Clients /\ Up(d) /\ link[d] = "open"
    BY <1>1, CompanionUp, HandlerFacts DEF TablesType
  <2>2. Others(e) = <<d>>
    BY OthersOne
  <2> HIDE DEF m
  <2>3. GroupWrites(e) = <<[to |-> d, msg |-> m]>>
    BY <2>2 DEF GroupWrites, m
  <2>4. /\ Len(GroupWrites(e)) = 1 /\ GroupWrites(e)[1].to = d /\ GroupWrites(e)[1].msg = m
    BY <2>3
  <2>5. \A i \in 1..Len(GroupWrites(e)) : i = 1
    BY <2>4
  <2>6. /\ \A i \in 1..Len(GroupWrites(e)) : link[GroupWrites(e)[i].to] = "open"
        /\ \A i \in 1..Len(GroupWrites(e)) : GroupWrites(e)[i].to # e
        /\ \A i \in 1..Len(GroupWrites(e)) : GroupWrites(e)[i].to = d <=> i = 1
        /\ 1 \in 1..Len(GroupWrites(e))
    BY <2>1, <2>4, <2>5
  <2>7. serverUp' /\ inbox'[e] = inbox[e]
    BY <1>4, <2>6, AfterWrites
  <2>8. inbox'[d] = Append(inbox[d], m)
    BY <1>4, <2>1, <2>4, <2>6, AfterWrites
  <2>9. \A c \in Clients : c = e \/ c = d
    BY <2>1, OtherName DEF ScenarioInv, OrderlyScenario
  <2>10. Gets(d, m)
    BY <1>1, <2>1, <2>8 DEF Gets
  <2> QED  BY <1>1, <1>2, <1>3, <2>7, <2>9, <2>10 DEF Relayed, NumberTo, m
<1> QED
  BY <1>5, <1>6

\* A number or a sender key is for another client, who is up and has registered.
LEMMA RecipientReady ==
    ASSUME ScenarioInv, NEW e \in Clients, NEW m \in ToSet(outbox[e]),
           (m.type = "dh" /\ m.to # "server") \/ m.type = "sender_key"
    PROVE  \E d \in Clients \ {e} : m.to = Nick[d] /\ Up(d) /\ key[d] # NoKey
<1>1. PICK i \in 1..Len(outbox[e]) : m = outbox[e][i]
  BY DEF ToSet
<1>2. /\ m \in Message /\ outbox[e] \in Seq(Message)
      /\ SealedOut(e)
  <2>1. outbox[e] \in Seq(Message)
    BY HandlerFacts
  <2>2. SealedOut(e)
    BY SealedParts DEF ScenarioInv
  <2> QED  BY <1>1, <2>1, <2>2
<1>3. CASE m.type = "dh"
  <2>1. m.to \in Names /\ m.to # Nick[e]
    <3>1. m \in DhMsgs
      BY <1>2, <1>3, MessageKinds
    <3> QED  BY <1>1, <1>3, <3>1, HandlerFacts DEF DhMsgs, Peers, Single, SentHonestly, ForItsSession
  <2>2. PICK d \in Clients \ {e} : m.to = Nick[d]
    BY <2>1 DEF Names
  <2>3. ~NoneSent(e, d)
    BY <1>2, <1>3, <2>2, InStream DEF NumberTo, NoneSent
  <2>4. AsksPeer(e, d) \/ AsksPeer(d, e)
    BY <2>3, AsksParts DEF Silent, NoneOnWay
  <2>5. CASE AsksPeer(d, e)
    <3>1. Up(d) /\ "server" \in known[d]
      BY <2>5, AsksParts
    <3> QED  BY <2>2, <3>1, KeyedFacts
  <2>6. CASE AsksPeer(e, d)
    <3>1. Up(d) /\ key[d] # NoKey
      BY <2>6, AsksParts
    <3> QED  BY <2>2, <3>1
  <2> QED  BY <2>4, <2>5, <2>6
<1>4. CASE m.type = "sender_key"
  <2>1. PICK d \in Clients \ {e} : TRUE
    <3>1. Sealed(e, m.body.key)
      BY <1>1, <1>2, <1>4 DEF SealedOut
    <3> QED  BY <3>1 DEF Sealed
  <2>2. Exchanging(e)
    BY <1>4 DEF Exchanging
  <2>3. m.to = Nick[d] /\ Up(d) /\ Nick[e] \in known[d]
    <3>1. ExchangeMeant(e, d)
      BY HandlerFacts DEF OrderlyPair
    <3> QED  BY <1>4, <2>2, <3>1 DEF ExchangeMeant
  <2>4. ServerAgrees(d) /\ Nick[e] # Nick[d]
    BY HandlerFacts DEF OrderlySingle, DistinctNicks
  <2>5. "server" \in known[d]
    BY <2>3, <2>4 DEF ServerAgrees
  <2> QED  BY <2>3, <2>5, KeyedFacts
<1> QED
  BY <1>3, <1>4

LEMMA OneShape ==
    ASSUME ScenarioInv, NEW e \in Clients, RelayToOne(e)
    PROVE  serverUp' /\ Relayed(e)
<1> DEFINE m == Head(outbox[e])
<1>1. /\ outbox[e] # <<>> /\ outbox' = [outbox EXCEPT ![e] = Tail(@)]
      /\ m.to \notin {"group", "server", Null} /\ m \in Message /\ m.from = Nick[e]
      /\ UNCHANGED <<key, members>> /\ Reading(e) /\ m \in ToSet(outbox[e])
  <2>1. /\ outbox[e] # <<>> /\ outbox' = [outbox EXCEPT ![e] = Tail(@)]
        /\ m.to \notin {"group", "server", Null} /\ UNCHANGED <<key, members>> /\ Reading(e)
    BY DEF RelayToOne, Reading, memVars
  <2>2. outbox[e] \in Seq(Message)
    BY HandlerFacts
  <2>3. m \in Message /\ m.from \in {Nick[e], Null} /\ m \in ToSet(outbox[e])
    BY <2>1, <2>2, HandlerFacts, HeadTaken, StreamTail DEF TakenFrom
  <2>4. m.from # Null
    BY <2>3, NameFacts DEF Message, ChatMsgs, DhMsgs, KeyMsgs, EnterMsgs, LeaveMsgs, Peers
  <2> QED  BY <2>1, <2>3, <2>4
<1>2. m.type \in {"dh", "sender_key"}
  BY <1>1, NameFacts DEF Message, ChatMsgs, DhMsgs, KeyMsgs, EnterMsgs, LeaveMsgs
<1>3. PICK d \in Clients \ {e} : m.to = Nick[d] /\ Up(d) /\ key[d] # NoKey
  BY <1>1, <1>2, RecipientReady
<1>4. Up(e)
  BY <1>1, HandlerFacts DEF OrderlySingle, RestsUnlessUp, Resting
<1>5. d \in members /\ name2sock[Nick[d]] = d /\ link[d] = "open" /\ Nick[d] \in Names
      /\ Null \notin Clients
  BY <1>3, RegisteredFacts, MemberFacts, NameFacts
<1>6. WriteAll(OneWrites(e), TRUE) /\ OneWrites(e) \in Seq(Write) /\ ServerInv
  BY <1>1, HandlerFacts, OneWritesFacts DEF RelayToOne, OneWrites
<1> HIDE DEF m
<1>7. OneWrites(e) = <<[to |-> d, msg |-> m]>>
  BY <1>3, <1>5 DEF OneWrites, SendMsg, m
<1>8. Len(OneWrites(e)) = 1 /\ OneWrites(e)[1].to = d /\ OneWrites(e)[1].msg = m
  BY <1>7
<1>9. /\ \A i \in 1..Len(OneWrites(e)) : link[OneWrites(e)[i].to] = "open"
      /\ \A i \in 1..Len(OneWrites(e)) : OneWrites(e)[i].to # e
      /\ \A i \in 1..Len(OneWrites(e)) : OneWrites(e)[i].to = d <=> i = 1
      /\ 1 \in 1..Len(OneWrites(e))
  <2>1. \A i \in 1..Len(OneWrites(e)) : i = 1
    BY <1>8
  <2> QED  BY <1>5, <1>8, <2>1
<1>10. serverUp' /\ inbox'[e] = inbox[e]
  BY <1>6, <1>9, AfterWrites
<1>11. inbox'[d] = Append(inbox[d], m)
  BY <1>6, <1>8, <1>9, AfterWrites
<1>12. \A c \in Clients : c = e \/ c = d
  BY OtherName DEF ScenarioInv, OrderlyScenario
<1>13. Gets(d, m)
  BY <1>1, <1>3, <1>5, <1>11 DEF Gets, m
<1> QED
  BY <1>1, <1>2, <1>3, <1>4, <1>10, <1>12, <1>13 DEF Relayed, NumberTo, m

\* In the scenario a handler does one of three things, and the server survives.
LEMMA HandlerShape ==
    ASSUME ScenarioInv, NEW e \in Clients, Handle(e)
    PROVE  /\ serverUp' /\ UNCHANGED <<accepted, backlog>>
           /\ Removed(e) \/ Registered(e) \/ Relayed(e)
<1>1. ~ReadPartial(e)
  <2>1. SUFFICES ASSUME ReadPartial(e) PROVE FALSE
    OBVIOUS
  <2>2. Head(outbox[e]) \in Message /\ Head(outbox[e]) = Partial
    BY <2>1, HandlerFacts, HeadTaken DEF ReadPartial, TakenFrom
  <2> QED
    BY <2>2 DEF Partial, BuildJson, Message, ChatMsgs, DhMsgs, KeyMsgs, EnterMsgs, LeaveMsgs
<1>2. UNCHANGED <<accepted, backlog>>
  BY DEF Handle, RemoveClient, ReadPartial, RelayToGroup, Handshake, RelayToOne, Reading
<1> QED
  BY <1>1, <1>2, RemovedShape, RegisteredShape, GroupShape, OneShape DEF Handle

-----------------------------------------------------------------------------
(* Who is here, and who rests: handlers of the server *)

\* What is the same after any handler.
LEMMA AfterHandler ==
    ASSUME ScenarioInv, NEW e \in Clients, Handle(e), UNCHANGED clientVars
    PROVE  /\ members' \subseteq members /\ \A c \in Clients : c \in members /\ c # e => c \in members'
           /\ \A c \in Clients :
                 /\ (Up(c)' <=> Up(c)) /\ (Resting(c) => Resting(c)')
                 /\ ToSet(outbox'[c]) \subseteq ToSet(outbox[c])
                 /\ c # e => outbox'[c] = outbox[c]
                 /\ \A t : Wakes(c, t)' <=> Wakes(c, t)
           /\ Registered(e) \/ Relayed(e) => ~Resting(e) /\ members' = members
<1>1. Removed(e) \/ Registered(e) \/ Relayed(e)
  BY HandlerShape
<1>2. members' \subseteq members /\ \A c \in Clients : c \in members /\ c # e => c \in members'
  BY <1>1 DEF Removed, Registered, Relayed
<1>3. ASSUME NEW c \in Clients
      PROVE  /\ outbox[c] = <<>> => outbox'[c] = <<>>
             /\ ToSet(outbox'[c]) \subseteq ToSet(outbox[c])
             /\ c # e => outbox'[c] = outbox[c]
  <2>1. outbox \in [Clients -> Seq(Message)]
    BY HandlerFacts
  <2>2. CASE outbox' = outbox
    BY <2>2
  <2>3. CASE outbox[e] # <<>> /\ outbox' = [outbox EXCEPT ![e] = Tail(@)]
    BY <2>1, <2>3, StreamTail
  <2> QED  BY <1>1, <2>2, <2>3 DEF Removed, Registered, Relayed
<1>4. \A c \in Clients : (Up(c)' <=> Up(c)) /\ (Resting(c) => Resting(c)')
                         /\ \A t : Wakes(c, t)' <=> Wakes(c, t)
  BY <1>3 DEF Up, Resting, Wakes
<1>5. Registered(e) \/ Relayed(e) => ~Resting(e) /\ members' = members
  BY DEF Registered, Relayed, Resting
<1> QED
  BY <1>2, <1>3, <1>4, <1>5

LEMMA PresenceHandled ==
    ASSUME ScenarioInv, NEW e \in Clients, Handle(e), UNCHANGED clientVars
    PROVE  /\ AcceptedOnce' /\ \A c \in Clients : RestsUnlessUp(c)'
           /\ \A c \in Clients, d \in Clients :
                 c # d => JoinsAlone(c, d)' /\ LeavesAlone(c, d)'
<1>1. AcceptedOnce'
  <2>1. UNCHANGED <<accepted, backlog, status>> /\ members' \subseteq members /\ AcceptedOnce
    BY HandlerShape, AfterHandler DEF ScenarioInv, OrderlyInv
  <2> QED  BY <2>1 DEF AcceptedOnce, Up
<1>2. Removed(e) \/ Registered(e) \/ Relayed(e)
  BY HandlerShape
<1>3. ASSUME NEW c \in Clients PROVE RestsUnlessUp(c)'
  <2>1. RestsUnlessUp(c)
    BY <1>3, HandlerFacts DEF OrderlySingle
  <2>2. status[c] = "quit" /\ c \in members => c \in members'
    BY <1>2, AfterHandler DEF Removed
  <2> QED  BY <2>1, <2>2, AfterHandler DEF RestsUnlessUp
<1>4. ASSUME NEW c \in Clients, NEW d \in Clients, c # d
      PROVE  JoinsAlone(c, d)' /\ LeavesAlone(c, d)'
  <2>1. JoinsAlone(c, d) /\ LeavesAlone(c, d)
    BY <1>4 DEF ScenarioInv, OrderlyInv, OrderlyPair
  <2>2. Absent(d) => Absent(d)'
    BY AfterHandler DEF Absent
  <2>3. JoinsAlone(c, d)'
    BY <2>1, <2>2, AfterHandler DEF JoinsAlone, Up
  <2>4. ASSUME status[c] \in {"quit", "closed"}, c \in members', Up(d), Resting(d), inbox[d] = <<>>
        PROVE  inbox'[d] = <<>>
    <3>1. c = e \/ d = e
      BY <1>4, OtherName DEF ScenarioInv, OrderlyScenario
    <3>2. ~Removed(e)
      BY <2>4, <3>1 DEF Removed, Up
    <3>3. CASE d = e
      BY <1>2, <2>4, <3>2, <3>3, AfterHandler
    <3>4. CASE c = e
      <4>1. Resting(c)
        BY <2>4, HandlerFacts DEF OrderlySingle, RestsUnlessUp, Up
      <4> QED  BY <1>2, <3>2, <3>4, <4>1, AfterHandler
    <3> QED  BY <3>1, <3>3, <3>4
  <2>5. LeavesAlone(c, d)'
    BY <2>1, <2>2, <2>4, AfterHandler DEF LeavesAlone
  <2> QED  BY <2>3, <2>5
<1> QED
  BY <1>1, <1>3, <1>4

\* A leave notice comes into the socket of one who rests.
LEMMA ToldHandled ==
    ASSUME ScenarioInv, NEW e \in Clients, Handle(e), UNCHANGED clientVars,
           NEW c \in Clients, NEW d \in Clients \ {c}
    PROVE  ToldAlone(c, d)'
<1>1. /\ ToldAlone(c, d) /\ inbox \in [Clients -> Seq(Message)]
      /\ (c = e \/ d = e)
  BY HandlerFacts, OtherName DEF ScenarioInv, OrderlyInv, OrderlyPair, OrderlyScenario
<1>2. Removed(e) \/ Registered(e) \/ Relayed(e)
  BY HandlerShape
<1>3. CASE \E m \in ToSet(inbox[d]) : m.type = "leave"
  <2>1. status[c] = "closed" /\ c \notin members /\ Up(d) /\ Resting(d)
    BY <1>1, <1>3 DEF ToldAlone
  <2>2. e \in members
    BY HandlerFacts, EventOfMember
       DEF Handle, RemoveClient, ReadPartial, RelayToGroup, Handshake, RelayToOne, Reading
  <2>3. d = e
    BY <1>1, <2>1, <2>2
  <2> QED  BY <1>2, <2>1, <2>3, AfterHandler DEF Removed, Up
<1>4. CASE Removed(e)
  <2>1. CASE d = e
    BY <1>3, <1>4, <2>1 DEF Removed, ToldAlone
  <2>2. CASE c = e
    <3>1. CASE d \notin members /\ inbox'[d] = inbox[d]
      BY <1>3, <3>1 DEF ToldAlone
    <3>2. CASE Gets(d, Notice("leave", d, sock2name[e])) /\ Resting(d) /\ inbox[d] = <<>>
      <4>1. Up(d) /\ inbox'[d] = <<Notice("leave", d, sock2name[e])>>
        BY <1>1, <3>2 DEF Gets
      <4>2. \A m \in ToSet(inbox'[d]) : m.type = "leave"
        BY <4>1 DEF ToSet, Notice, BuildJson
      <4>3. status[c] = "closed" /\ c \notin members'
        BY <1>4, <2>2 DEF Removed
      <4> QED  BY <3>2, <4>1, <4>2, <4>3, AfterHandler DEF ToldAlone
    <3> QED  BY <1>4, <2>2, <3>1, <3>2 DEF Removed
  <2> QED  BY <1>1, <2>1, <2>2
<1>5. CASE (Registered(e) \/ Relayed(e)) /\ ~\E m \in ToSet(inbox[d]) : m.type = "leave"
  <2>1. \/ inbox'[d] = inbox[d]
        \/ \E x \in Message : inbox'[d] = Append(inbox[d], x) /\ x.type # "leave"
    <3>1. CASE d = e
      <4>1. Answer(e).msg \in Message /\ Answer(e).msg.type # "leave"
        BY HandlerFacts, AnswerFacts DEF Write, IsNotice
      <4> QED  BY <1>5, <3>1, <4>1 DEF Registered, Relayed
    <3>2. CASE d # e
      BY <1>5, <3>2 DEF Registered, Relayed, Gets, Notice, BuildJson
    <3> QED  BY <3>1, <3>2
  <2>2. ~\E m \in ToSet(inbox'[d]) : m.type = "leave"
    <3>1. CASE inbox'[d] = inbox[d]
      BY <1>5, <3>1
    <3>2. ASSUME NEW x \in Message, inbox'[d] = Append(inbox[d], x), x.type # "leave"
          PROVE  ~\E m \in ToSet(inbox'[d]) : m.type = "leave"
      <4>1. inbox[d] \in Seq(Message)
        BY <1>1
      <4>2. ToSet(inbox'[d]) = ToSet(inbox[d]) \cup {x}
        BY <3>2, <4>1, StreamAppend
      <4> QED  BY <1>5, <3>2, <4>2
    <3> QED  BY <2>1, <3>1, <3>2
  <2> QED  BY <2>2 DEF ToldAlone
<1> QED
  BY <1>2, <1>3, <1>4, <1>5

-----------------------------------------------------------------------------
(* What a handler adds to a socket, and the handshake with the server *)

\* What the handler of e writes to c.
Brings(e, c, x) ==
    /\ x \in Message /\ inbox'[c] = Append(inbox[c], x)
    /\ \/ c = e /\ Registered(e) /\ x = BuildJson("dh", "server", Nick[e], MyNum)
       \/ /\ c # e /\ Up(c) /\ Relayed(e) /\ x = Head(outbox[e]) /\ x.from = Nick[e]
          /\ x.type \in {"message", "dh", "sender_key"} /\ (x.type # "message" => x.to = Nick[c])
       \/ /\ c # e /\ Up(c) /\ "server" \in known[c]
          /\ \/ Registered(e) /\ x = Notice("enter", c, Nick[e])
             \/ Removed(e) /\ x = Notice("leave", c, sock2name[e])

LEMMA ArrivesOne ==
    ASSUME ScenarioInv, NEW e \in Clients, Handle(e), NEW c \in Clients
    PROVE  inbox'[c] = inbox[c] \/ \E x : Brings(e, c, x)
<1>1. Removed(e) \/ Registered(e) \/ Relayed(e)
  BY HandlerShape
<1>2. CASE c = e
  <2>1. Answer(e).msg = BuildJson("dh", "server", Nick[e], MyNum) /\ Answer(e) \in Write
    BY HandlerFacts, AnswerFacts DEF Answer
  <2>2. Answer(e).msg \in Message
    BY <2>1 DEF Write
  <2>3. Registered(e) => Brings(e, c, Answer(e).msg)
    BY <1>2, <2>1, <2>2 DEF Registered, Brings
  <2> QED  BY <1>1, <1>2, <2>3 DEF Removed, Relayed
<1>3. CASE c # e
  <2>1. CASE Removed(e)
    <3>1. \/ inbox'[c] = inbox[c]
          \/ Gets(c, Notice("leave", c, sock2name[e])) /\ "server" \in known[c]
      BY <1>3, <2>1 DEF Removed
    <3> QED  BY <1>3, <2>1, <3>1 DEF Gets, Brings
  <2>2. CASE Registered(e)
    <3>1. \/ inbox'[c] = inbox[c]
          \/ Gets(c, Notice("enter", c, Nick[e])) /\ "server" \in known[c]
      BY <1>3, <2>2 DEF Registered
    <3> QED  BY <1>3, <2>2, <3>1 DEF Gets, Brings
  <2>3. CASE Relayed(e)
    <3>1. \/ inbox'[c] = inbox[c]
          \/ /\ Gets(c, Head(outbox[e]))
             /\ Head(outbox[e]).type # "message" => Head(outbox[e]).to = Nick[c]
      BY <1>3, <2>3 DEF Relayed
    <3>2. Head(outbox[e]).from = Nick[e] /\ Head(outbox[e]).type \in {"message", "dh", "sender_key"}
      BY <2>3 DEF Relayed
    <3> QED  BY <1>3, <2>3, <3>1, <3>2 DEF Gets, Brings
  <2> QED  BY <1>1, <2>1, <2>2, <2>3
<1> QED
  BY <1>2, <1>3

LEMMA LocalsHandled ==
    ASSUME ScenarioInv, NEW e \in Clients, Handle(e), UNCHANGED clientVars, NEW c \in Clients
    PROVE  HandshakeLocals(c)' /\ NoEcho(c)' /\ NoticesReadable(c)' /\ (status[c] # "faulted")'
<1>1. /\ HandshakeLocals(c) /\ NoEcho(c) /\ NoticesReadable(c) /\ status[c] # "faulted"
      /\ inbox[c] \in Seq(Message) /\ DistinctNicks
      /\ \A d \in Clients : Nick[d] # "server"
  BY HandlerFacts, NameFacts DEF OrderlySingle
<1>2. HandshakeLocals(c)' /\ (status[c] # "faulted")'
  BY <1>1 DEF HandshakeLocals, Wakes
<1>3. CASE inbox'[c] = inbox[c]
  BY <1>1, <1>2, <1>3 DEF NoEcho, NoticesReadable
<1>4. ASSUME NEW x, Brings(e, c, x)
      PROVE  NoEcho(c)' /\ NoticesReadable(c)'
  <2>1. x \in Message /\ inbox'[c] = Append(inbox[c], x)
    BY <1>4 DEF Brings
  <2>2. ToSet(inbox'[c]) = ToSet(inbox[c]) \cup {x}
    BY <1>1, <2>1, StreamAppend
  <2>3. x.from # Nick[c] /\ (x.type = "dh" => x.to = Nick[c])
    BY <1>1, <1>4 DEF Brings, BuildJson, Notice, DistinctNicks
  <2>4. x.type \in {"enter", "leave"} =>
            "server" \in known[c] /\ x.body.key = session[c]["server"]
    BY <1>4 DEF Brings, BuildJson, Notice
  <2> QED  BY <1>1, <2>2, <2>3, <2>4 DEF NoEcho, NoticesReadable
<1> QED
  BY <1>2, <1>3, <1>4, ArrivesOne

LEMMA ServerAskedHandled ==
    ASSUME ScenarioInv, NEW e \in Clients, Handle(e), UNCHANGED clientVars, NEW c \in Clients
    PROVE  ServerOnce(c)' /\ ServerAgrees(c)'
<1>1. /\ ServerOnce(c) /\ ServerAgrees(c) /\ ServerInv /\ key \in [Clients -> Key]
      /\ inbox[c] \in Seq(Message) /\ outbox \in [Clients -> Seq(Message)]
      /\ Nick[e] # "server" /\ Nick[c] # "server"
  BY HandlerFacts, NameFacts DEF OrderlySingle, TablesType
<1>2. AsksServer(c)' <=> AsksServer(c)
  BY DEF AsksServer
<1>3. Removed(e) \/ Registered(e) \/ Relayed(e)
  BY HandlerShape
<1>4. CASE ~(c = e /\ Registered(e)) /\ ~(c = e /\ Removed(e))
  <2>1. key'[c] = key[c]
    BY <1>1, <1>3, <1>4 DEF Removed, Registered, Relayed
  <2>2. /\ NumbersTo(outbox'[c], "server") # {} <=> NumbersTo(outbox[c], "server") # {}
        /\ AtMostOne(NumbersTo(outbox'[c], "server"))
        /\ ToSet(outbox'[c]) \subseteq ToSet(outbox[c])
    <3>1. CASE c # e
      BY <1>1, <3>1, AfterHandler DEF ServerOnce
    <3>2. CASE c = e
      <4>1. /\ outbox[c] # <<>> /\ outbox'[c] = Tail(outbox[c])
            /\ ~NumberTo(Head(outbox[c]), "server") /\ outbox[c] \in Seq(Message)
        BY <1>1, <1>3, <1>4, <3>2 DEF Relayed
      <4> QED  BY <1>1, <4>1, StreamTail DEF ServerOnce
    <3> QED  BY <3>1, <3>2
  <2>3. /\ NumbersFrom(inbox'[c], "server") = NumbersFrom(inbox[c], "server")
        /\ \A m \in ToSet(inbox'[c]) : NumberFrom(m, "server") => m \in ToSet(inbox[c])
    <3>1. CASE inbox'[c] = inbox[c]
      BY <3>1
    <3>2. ASSUME NEW x, Brings(e, c, x)
          PROVE  /\ NumbersFrom(inbox'[c], "server") = NumbersFrom(inbox[c], "server")
                 /\ \A m \in ToSet(inbox'[c]) : NumberFrom(m, "server") => m \in ToSet(inbox[c])
      <4>1. x \in Message /\ inbox'[c] = Append(inbox[c], x) /\ ~NumberFrom(x, "server")
        BY <1>1, <1>4, <3>2 DEF Brings, NumberFrom, Notice, BuildJson
      <4>2. ToSet(inbox'[c]) = ToSet(inbox[c]) \cup {x}
        BY <1>1, <4>1, StreamAppend
      <4>3. NumbersFrom(inbox'[c], "server") = NumbersFrom(inbox[c], "server")
        BY <1>1, <4>1, StreamAppend
      <4> QED  BY <4>1, <4>2, <4>3
    <3> QED  BY <3>1, <3>2, ArrivesOne
  <2>4. ServerOnce(c)'
    BY <1>1, <1>2, <2>1, <2>2, <2>3 DEF ServerOnce
  <2>5. ServerAgrees(c)'
    BY <1>1, <2>1, <2>3 DEF ServerAgrees, Up
  <2> QED  BY <2>4, <2>5
<1>5. CASE c = e /\ Removed(e)
  <2>1. /\ ~AsksServer(c) /\ ~Up(c) /\ hstate[c] = "idle"
        /\ outbox' = outbox /\ inbox'[c] = inbox[c]
    BY <1>5 DEF Removed, Resting, AsksServer, Up
  <2>2. NumbersTo(outbox[c], "server") = {} /\ NumbersFrom(inbox[c], "server") = {}
    BY <2>1, NotAsking
  <2>3. /\ ~\E m \in ToSet(outbox[c]) : NumberTo(m, "server")
        /\ ~\E m \in ToSet(inbox[c]) : NumberFrom(m, "server")
    BY <1>1, <2>2, InStream
  <2>4. AtMostOne({})
    BY DEF AtMostOne
  <2>5. ServerOnce(c)'
    BY <2>1, <2>2, <2>3, <2>4 DEF ServerOnce
  <2> QED  BY <2>1, <2>5 DEF ServerAgrees, Up
<1>6. CASE c = e /\ Registered(e)
  <2> DEFINE x == Answer(e).msg
             m == Head(outbox[c])
  <2>1. /\ outbox[c] # <<>> /\ outbox'[c] = Tail(outbox[c]) /\ outbox[c] \in Seq(Message)
        /\ NumberTo(m, "server") /\ AsksServer(c)
        /\ "server" \notin known[c] /\ NumbersFrom(inbox[c], "server") = {}
        /\ inbox'[c] = Append(inbox[c], x) /\ key'[c] = ServerKey({mynum[c], MyNum})
    BY <1>1, <1>6 DEF Registered
  <2>2. x \in Message /\ NumberFrom(x, "server") /\ x.body = MyNum
    BY <1>1, AnswerFacts DEF Write, Answer, BuildJson, NumberFrom
  <2> HIDE DEF x, m
  <2>3. /\ NumbersTo(outbox'[c], "server") = {}
    BY <1>1, <2>1, StreamTail DEF ServerOnce, m
  <2>4. ~\E y \in ToSet(outbox'[c]) : NumberTo(y, "server")
    <3>1. outbox'[c] \in Seq(Message)
      BY <2>1
    <3> QED  BY <2>3, <3>1, InStream
  <2>5. /\ AtMostOne(NumbersFrom(inbox'[c], "server"))
        /\ NumbersFrom(inbox'[c], "server") # {}
    BY <1>1, <2>1, <2>2, StreamAppend
  <2>6. \A y \in ToSet(inbox'[c]) : NumberFrom(y, "server") => y = x
    <3>1. ToSet(inbox'[c]) = ToSet(inbox[c]) \cup {x}
      BY <1>1, <2>1, <2>2, StreamAppend
    <3>2. ~\E y \in ToSet(inbox[c]) : NumberFrom(y, "server")
      BY <1>1, <2>1, InStream
    <3> QED  BY <3>1, <3>2
  <2>7. AtMostOne({})
    BY DEF AtMostOne
  <2>8. hstate[c] # "rcved_dh" /\ hstate'[c] = hstate[c] /\ mynum' = mynum
    BY <2>1 DEF AsksServer
  <2>9. ServerOnce(c)'
    BY <1>2, <2>1, <2>2, <2>3, <2>4, <2>5, <2>6, <2>7, <2>8 DEF ServerOnce
  <2>10. ServerAgrees(c)'
    BY <1>1, <2>1, <2>5 DEF ServerAgrees, Up
  <2> QED  BY <2>9, <2>10
<1> QED
  BY <1>4, <1>5, <1>6

-----------------------------------------------------------------------------
(* The handshakes of two clients, sender keys and lines: handlers of the server *)

\* Where nobody is asking, and nothing of a handshake is anywhere, AsksOnce holds.
LEMMA PeaceIsEnough ==
    ASSUME NEW b \in Clients, NEW d \in Clients, Peace(b, d), Silent(b, d)
    PROVE  AsksOnce(b, d) \/ ~AtMostOne(EntriesOf(inbox[b], Nick[d]))
<1> QED
  BY DEF AsksOnce, Peace, WillAsk

\* The part of a client in its handshakes, streams apart, is its own.
LEMMA PartHandled ==
    ASSUME UNCHANGED clientVars, NEW b \in Clients, NEW d \in Clients
    PROVE  /\ (Woken(b, d)' <=> Woken(b, d)) /\ (Takes(b, d)' <=> Takes(b, d))
           /\ (Answers(b, d)' <=> Answers(b, d)) /\ (AsksPeer(b, d)' <=> AsksPeer(b, d))
           /\ hstate' = hstate /\ hsent' = hsent /\ known' = known /\ session' = session
           /\ (Up(b)' <=> Up(b)) /\ shaker' = shaker /\ dhq' = dhq /\ rpc' = rpc /\ rtok' = rtok
           /\ sender' = sender /\ rstate' = rstate /\ hpc' = hpc /\ hcur' = hcur
  BY DEF Woken, Takes, Answers, AsksPeer, Wakes, Up

\* AsksOnce(b, d) looks at this only.
LEMMA AsksSame ==
    ASSUME UNCHANGED clientVars, NEW b \in Clients, NEW d \in Clients, AsksOnce(b, d),
           Told(b, d)' <=> Told(b, d), NoneSent(b, d)' <=> NoneSent(b, d),
           NoneLanded(b, d)' <=> NoneLanded(b, d), NoneSent(d, b)' <=> NoneSent(d, b),
           NoneLanded(d, b)' <=> NoneLanded(d, b), Told(d, b)' <=> Told(d, b),
           AtMostOne(NumbersTo(outbox[b], Nick[d])) => AtMostOne(NumbersTo(outbox'[b], Nick[d])),
           AtMostOne(NumbersTo(outbox[d], Nick[b])) => AtMostOne(NumbersTo(outbox'[d], Nick[b])),
           AtMostOne(NumbersFrom(inbox[b], Nick[d])) => AtMostOne(NumbersFrom(inbox'[b], Nick[d])),
           AtMostOne(NumbersFrom(inbox[d], Nick[b])) => AtMostOne(NumbersFrom(inbox'[d], Nick[b])),
           AtMostOne(EntriesOf(inbox[b], Nick[d])) => AtMostOne(EntriesOf(inbox'[b], Nick[d])),
           (key[d] # NoKey => key'[d] # NoKey) \/ Peace(b, d)
    PROVE  AsksOnce(b, d)'
<1>1. /\ (Woken(b, d)' <=> Woken(b, d)) /\ (Takes(b, d)' <=> Takes(b, d))
      /\ (Answers(b, d)' <=> Answers(b, d)) /\ (AsksPeer(b, d)' <=> AsksPeer(b, d))
      /\ (Woken(d, b)' <=> Woken(d, b)) /\ (Takes(d, b)' <=> Takes(d, b))
      /\ (Answers(d, b)' <=> Answers(d, b)) /\ (AsksPeer(d, b)' <=> AsksPeer(d, b))
      /\ hstate' = hstate /\ hsent' = hsent /\ known' = known
      /\ (Up(b)' <=> Up(b)) /\ (Up(d)' <=> Up(d))
  BY PartHandled
<1>2. /\ (WillAsk(b, d)' <=> WillAsk(b, d)) /\ (WillAsk(d, b)' <=> WillAsk(d, b))
  BY <1>1 DEF WillAsk, Woken
<1>3. /\ (NoneOnWay(b, d)' <=> NoneOnWay(b, d)) /\ (NoneOnWay(d, b)' <=> NoneOnWay(d, b))
      /\ (OneOnWay(b, d) => OneOnWay(b, d)') /\ (OneOnWay(d, b) => OneOnWay(d, b)')
  BY DEF NoneOnWay, OneOnWay
<1>4. /\ Requested(b, d) => Requested(b, d)'
      /\ Answered(b, d) => Answered(b, d)'
      /\ Silent(b, d) => Silent(b, d)'
  BY <1>1, <1>3 DEF Requested, Answered, Silent
<1>5. /\ WillAsk(b, d) \/ AsksPeer(b, d) => key'[d] # NoKey
  BY DEF AsksOnce, Peace
<1> QED
  BY <1>1, <1>2, <1>4, <1>5 DEF AsksOnce, Woken

\* What the streams of e and d look like to their handshakes after a handler of e.
LEMMA StreamsHandled ==
    ASSUME ScenarioInv, NEW e \in Clients, Handle(e), NEW d \in Clients \ {e}
    PROVE  /\ outbox'[d] = outbox[d] /\ (NoneSent(d, e)' <=> NoneSent(d, e))
           /\ (NoneLanded(d, e)' <=> NoneLanded(d, e)) /\ (Told(e, d)' <=> Told(e, d))
           /\ NumbersFrom(inbox'[e], Nick[d]) = NumbersFrom(inbox[e], Nick[d])
           /\ EntriesOf(inbox'[e], Nick[d]) = EntriesOf(inbox[e], Nick[d])
<1>1. /\ \A c \in Clients : inbox[c] \in Seq(Message)
      /\ outbox \in [Clients -> Seq(Message)] /\ Nick[d] # "server"
  BY HandlerFacts, NameFacts
<1>2. outbox'[d] = outbox[d]
  <2>1. Removed(e) \/ Registered(e) \/ Relayed(e)
    BY HandlerShape
  <2> QED  BY <1>1, <2>1 DEF Removed, Registered, Relayed
<1>3. /\ NumbersFrom(inbox'[e], Nick[d]) = NumbersFrom(inbox[e], Nick[d])
      /\ EntriesOf(inbox'[e], Nick[d]) = EntriesOf(inbox[e], Nick[d])
  <2>1. CASE inbox'[e] = inbox[e]
    BY <2>1
  <2>2. ASSUME NEW x, Brings(e, e, x)
        PROVE  /\ NumbersFrom(inbox'[e], Nick[d]) = NumbersFrom(inbox[e], Nick[d])
               /\ EntriesOf(inbox'[e], Nick[d]) = EntriesOf(inbox[e], Nick[d])
    <3>1. /\ x \in Message /\ inbox'[e] = Append(inbox[e], x)
          /\ ~NumberFrom(x, Nick[d]) /\ ~EntryOf(x, Nick[d])
      BY <1>1, <2>2 DEF Brings, NumberFrom, EntryOf, BuildJson
    <3> QED  BY <1>1, <3>1, StreamAppend
  <2> QED  BY <2>1, <2>2, ArrivesOne
<1> QED
  BY <1>2, <1>3 DEF NoneSent, NoneLanded, Told

LEMMA AsksRemoved ==
    ASSUME ScenarioInv, NEW e \in Clients, Handle(e), UNCHANGED clientVars,
           NEW d \in Clients \ {e}, Removed(e)
    PROVE  AsksOnce(e, d)' /\ AsksOnce(d, e)'
<1>1. /\ Peace(e, d) /\ Peace(d, e) /\ AsksOnce(e, d) /\ AsksOnce(d, e)
      /\ outbox' = outbox /\ inbox'[e] = inbox[e]
  <2>1. ~Up(e)
    BY DEF Removed, Up
  <2> QED  BY <2>1, AsksParts DEF Peace, Removed
<1>2. /\ NumbersFrom(inbox'[d], Nick[e]) = NumbersFrom(inbox[d], Nick[e])
      /\ EntriesOf(inbox'[d], Nick[e]) = EntriesOf(inbox[d], Nick[e])
  <2>1. CASE inbox'[d] = inbox[d]
    BY <2>1
  <2>2. ASSUME Gets(d, Notice("leave", d, sock2name[e]))
        PROVE  /\ NumbersFrom(inbox'[d], Nick[e]) = NumbersFrom(inbox[d], Nick[e])
               /\ EntriesOf(inbox'[d], Nick[e]) = EntriesOf(inbox[d], Nick[e])
    <3> DEFINE x == Notice("leave", d, sock2name[e])
    <3>1. /\ x \in Message /\ inbox'[d] = Append(inbox[d], x)
          /\ ~NumberFrom(x, Nick[e]) /\ ~EntryOf(x, Nick[e])
      BY <2>2 DEF Gets, NumberFrom, EntryOf, BuildJson, Notice
    <3>2. inbox[d] \in Seq(Message)
      BY HandlerFacts
    <3> HIDE DEF x
    <3> QED  BY <3>1, <3>2, StreamAppend
  <2> QED  BY <2>1, <2>2 DEF Removed
<1> QED
  BY <1>1, <1>2, AsksSame DEF NoneSent, NoneLanded, Told

\* A number of e goes from one stream to the other.
LEMMA AsksRelayed ==
    ASSUME ScenarioInv, NEW e \in Clients, Handle(e), UNCHANGED clientVars,
           NEW d \in Clients \ {e}, Relayed(e)
    PROVE  AsksOnce(e, d)' /\ AsksOnce(d, e)'
<1> DEFINE m == Head(outbox[e])
<1>1. /\ AsksOnce(e, d) /\ AsksOnce(d, e)
      /\ inbox[d] \in Seq(Message) /\ outbox[e] \in Seq(Message) /\ outbox[e] # <<>>
      /\ outbox'[e] = Tail(outbox[e]) /\ m \in Message /\ key' = key
      /\ m.type \in {"message", "dh", "sender_key"} /\ m.from = Nick[e]
      /\ \/ inbox'[d] = inbox[d] /\ m.type = "message"
         \/ inbox'[d] = Append(inbox[d], m) /\ (m.type # "message" => m.to = Nick[d])
  <2>1. outbox \in [Clients -> Seq(Message)] /\ inbox[d] \in Seq(Message)
    BY HandlerFacts
  <2> QED  BY <2>1, AsksParts DEF Relayed, Gets
<1>2. /\ outbox'[d] = outbox[d] /\ (NoneSent(d, e)' <=> NoneSent(d, e))
      /\ (NoneLanded(d, e)' <=> NoneLanded(d, e)) /\ (Told(e, d)' <=> Told(e, d))
      /\ NumbersFrom(inbox'[e], Nick[d]) = NumbersFrom(inbox[e], Nick[d])
      /\ EntriesOf(inbox'[e], Nick[d]) = EntriesOf(inbox[e], Nick[d])
  BY StreamsHandled
<1> HIDE DEF m
<1>3. EntriesOf(inbox'[d], Nick[e]) = EntriesOf(inbox[d], Nick[e])
  <2>1. CASE inbox'[d] = inbox[d]
    BY <2>1
  <2>2. CASE inbox'[d] = Append(inbox[d], m)
    <3>1. ~EntryOf(m, Nick[e])
      BY <1>1 DEF EntryOf
    <3> QED  BY <1>1, <2>2, <3>1, StreamAppend
  <2> QED  BY <1>1, <2>1, <2>2
<1>4. CASE m.type # "dh"
  <2>1. ~NumberTo(m, Nick[d]) /\ ~NumberFrom(m, Nick[e])
    BY <1>4 DEF NumberTo, NumberFrom
  <2>2. NumbersFrom(inbox'[d], Nick[e]) = NumbersFrom(inbox[d], Nick[e])
    <3>1. CASE inbox'[d] = inbox[d]
      BY <3>1
    <3>2. CASE inbox'[d] = Append(inbox[d], m)
      BY <1>1, <2>1, <3>2, StreamAppend
    <3> QED  BY <1>1, <3>1, <3>2
  <2>3. /\ NoneSent(e, d)' <=> NoneSent(e, d)
        /\ AtMostOne(NumbersTo(outbox[e], Nick[d])) => AtMostOne(NumbersTo(outbox'[e], Nick[d]))
    BY <1>1, <2>1, StreamTail DEF NoneSent, m
  <2>4. (NoneLanded(e, d)' <=> NoneLanded(e, d)) /\ (Told(d, e)' <=> Told(d, e))
    BY <1>3, <2>2 DEF NoneLanded, Told
  <2> QED  BY <1>1, <1>2, <1>3, <2>2, <2>3, <2>4, AsksSame
<1>5. CASE m.type = "dh"
  <2>1. NumberTo(m, Nick[d]) /\ NumberFrom(m, Nick[e]) /\ inbox'[d] = Append(inbox[d], m)
    BY <1>1, <1>5 DEF NumberTo, NumberFrom
  <2>2. /\ ~NoneSent(e, d) /\ ~NoneLanded(e, d)'
        /\ AtMostOne(NumbersTo(outbox[e], Nick[d])) =>
              NoneSent(e, d)' /\ AtMostOne(NumbersTo(outbox'[e], Nick[d]))
        /\ NoneLanded(e, d) => AtMostOne(NumbersFrom(inbox'[d], Nick[e]))
    <3>1. /\ NumbersTo(outbox[e], Nick[d]) # {}
          /\ AtMostOne(NumbersTo(outbox[e], Nick[d])) =>
                /\ NumbersTo(outbox'[e], Nick[d]) = {}
                /\ AtMostOne(NumbersTo(outbox'[e], Nick[d]))
      BY <1>1, <2>1, StreamTail DEF m
    <3>2. /\ NumbersFrom(inbox'[d], Nick[e]) # {}
          /\ NumbersFrom(inbox[d], Nick[e]) = {} => AtMostOne(NumbersFrom(inbox'[d], Nick[e]))
      BY <1>1, <2>1, StreamAppend
    <3> QED  BY <3>1, <3>2 DEF NoneSent, NoneLanded
  <2>3. OneOnWay(e, d) => OneOnWay(e, d)'
    BY <2>2 DEF OneOnWay
  <2>4. Told(d, e)' <=> Told(d, e)
    BY <1>3 DEF Told
  <2>5. /\ (Woken(e, d)' <=> Woken(e, d)) /\ (Takes(e, d)' <=> Takes(e, d))
        /\ (Answers(e, d)' <=> Answers(e, d)) /\ (AsksPeer(e, d)' <=> AsksPeer(e, d))
        /\ (Woken(d, e)' <=> Woken(d, e)) /\ (Takes(d, e)' <=> Takes(d, e))
        /\ (Answers(d, e)' <=> Answers(d, e)) /\ (AsksPeer(d, e)' <=> AsksPeer(d, e))
        /\ hstate' = hstate /\ hsent' = hsent /\ known' = known
        /\ (Up(e)' <=> Up(e)) /\ (Up(d)' <=> Up(d))
    BY PartHandled
  <2>6. (WillAsk(e, d)' <=> WillAsk(e, d)) /\ (WillAsk(d, e)' <=> WillAsk(d, e))
    BY <1>2, <2>4, <2>5 DEF WillAsk, Woken
  <2>7. NoneOnWay(d, e)' <=> NoneOnWay(d, e)
    BY <1>2 DEF NoneOnWay
  <2>8. CASE AsksPeer(e, d)
    <3>1. Requested(e, d) /\ Nick[e] \notin known[d]
      BY <1>1, <2>2, <2>8 DEF AsksOnce, Answered, NoneOnWay
    <3>2. Requested(e, d)'
      BY <2>2, <2>3, <2>5, <2>7, <3>1 DEF Requested, NoneOnWay
    <3> QED  BY <1>1, <1>2, <1>3, <2>4, <2>5, <2>6, <2>8, <3>1, <3>2 DEF AsksOnce, Woken
  <2>9. CASE AsksPeer(d, e)
    <3>1. Answered(d, e) /\ Nick[d] \in known[e]
      BY <1>1, <2>2, <2>9 DEF AsksOnce, Requested, NoneOnWay
    <3>2. Answered(d, e)'
      BY <2>2, <2>3, <2>5, <2>7, <3>1 DEF Answered, NoneOnWay
    <3> QED  BY <1>1, <1>2, <1>3, <2>4, <2>5, <2>6, <2>9, <3>1, <3>2 DEF AsksOnce, Woken
  <2>10. AsksPeer(e, d) \/ AsksPeer(d, e)
    BY <1>1, <2>2 DEF AsksOnce, Silent, NoneOnWay
  <2> QED  BY <2>8, <2>9, <2>10
<1> QED
  BY <1>4, <1>5

\* e has registered, and d, if it is a member, is told.
LEMMA AsksRegistered ==
    ASSUME ScenarioInv, NEW e \in Clients, Handle(e), UNCHANGED clientVars,
           NEW d \in Clients \ {e}, Registered(e)
    PROVE  AsksOnce(e, d)' /\ AsksOnce(d, e)'
<1>1. /\ AsksOnce(e, d) /\ AsksOnce(d, e) /\ key \in [Clients -> Key]
      /\ inbox[d] \in Seq(Message) /\ outbox[e] \in Seq(Message) /\ outbox[e] # <<>>
      /\ outbox'[e] = Tail(outbox[e]) /\ NumberTo(Head(outbox[e]), "server")
      /\ key[e] = NoKey /\ "server" \notin known[e] /\ Up(e) /\ Nick[d] # "server"
      /\ known[e] \subseteq {Nick[e]} /\ Nick[d] # Nick[e]
      /\ key' = [key EXCEPT ![e] = ServerKey({mynum[e], MyNum})]
  <2>1. outbox \in [Clients -> Seq(Message)] /\ inbox[d] \in Seq(Message)
    BY HandlerFacts
  <2> QED
    BY <2>1, HandlerFacts, AsksParts, NameFacts
       DEF Registered, OrderlySingle, ServerAgrees, DistinctNicks, TablesType
<1>2. /\ outbox'[d] = outbox[d] /\ (NoneSent(d, e)' <=> NoneSent(d, e))
      /\ (NoneLanded(d, e)' <=> NoneLanded(d, e)) /\ (Told(e, d)' <=> Told(e, d))
      /\ NumbersFrom(inbox'[e], Nick[d]) = NumbersFrom(inbox[e], Nick[d])
      /\ EntriesOf(inbox'[e], Nick[d]) = EntriesOf(inbox[e], Nick[d])
  BY StreamsHandled
<1>3. Peace(e, d) /\ Peace(d, e) /\ Silent(e, d) /\ Silent(d, e)
  BY <1>1, AsksParts DEF Peace
<1>4. /\ NoneSent(e, d)' <=> NoneSent(e, d)
      /\ AtMostOne(NumbersTo(outbox[e], Nick[d])) => AtMostOne(NumbersTo(outbox'[e], Nick[d]))
  <2>1. ~NumberTo(Head(outbox[e]), Nick[d])
    BY <1>1 DEF NumberTo
  <2> QED  BY <1>1, <2>1, StreamTail DEF NoneSent
<1>5. CASE inbox'[d] = inbox[d]
  <2>1. /\ (NoneLanded(e, d)' <=> NoneLanded(e, d)) /\ (Told(d, e)' <=> Told(d, e))
    BY <1>5 DEF NoneLanded, Told
  <2> QED  BY <1>1, <1>2, <1>3, <1>4, <1>5, <2>1, AsksSame
<1>6. ASSUME Gets(d, Notice("enter", d, Nick[e])), "server" \in known[d]
      PROVE  AsksOnce(e, d)' /\ AsksOnce(d, e)'
  <2> DEFINE x == Notice("enter", d, Nick[e])
  <2>1. /\ x \in Message /\ inbox'[d] = Append(inbox[d], x) /\ Up(d)
        /\ ~NumberFrom(x, Nick[e]) /\ EntryOf(x, Nick[e])
    BY <1>6 DEF Gets, NumberFrom, EntryOf, BuildJson, Notice
  <2> HIDE DEF x
  <2>2. NumbersFrom(inbox'[d], Nick[e]) = NumbersFrom(inbox[d], Nick[e])
    BY <1>1, <2>1, StreamAppend
  <2>3. EntriesOf(inbox[d], Nick[e]) = {}
    BY <1>3 DEF Peace, WillAsk, Told
  <2>4. AtMostOne(EntriesOf(inbox'[d], Nick[e]))
    BY <1>1, <2>1, <2>3, StreamAppend
  <2>5. /\ (Woken(e, d)' <=> Woken(e, d)) /\ (Takes(e, d)' <=> Takes(e, d))
        /\ (Answers(e, d)' <=> Answers(e, d)) /\ (AsksPeer(e, d)' <=> AsksPeer(e, d))
        /\ (Woken(d, e)' <=> Woken(d, e)) /\ (Takes(d, e)' <=> Takes(d, e))
        /\ (Answers(d, e)' <=> Answers(d, e)) /\ (AsksPeer(d, e)' <=> AsksPeer(d, e))
        /\ known' = known /\ (Up(e)' <=> Up(e)) /\ (Up(d)' <=> Up(d))
    BY PartHandled
  <2>6. Silent(e, d)' /\ Silent(d, e)'
    BY <1>2, <1>3, <1>4, <2>2, <2>5 DEF Silent, NoneOnWay, NoneLanded
  <2>7. ~WillAsk(e, d)' /\ ~AsksPeer(e, d)' /\ ~AsksPeer(d, e)' /\ ~Woken(d, e)'
    BY <1>2, <1>3, <2>5 DEF Peace, WillAsk, Woken
  <2>8. key'[e] # NoKey
    <3>1. key'[e] = ServerKey({mynum[e], MyNum})
      BY <1>1
    <3> QED  BY <3>1 DEF ServerKey, NoKey
  <2>9. AsksOnce(e, d)'
    BY <1>1, <1>2, <2>6, <2>7 DEF AsksOnce, WillAsk
  <2>10. AsksOnce(d, e)'
    BY <1>1, <1>6, <2>1, <2>4, <2>5, <2>6, <2>7, <2>8 DEF AsksOnce, Woken
  <2> QED  BY <2>9, <2>10
<1> QED
  BY <1>5, <1>6 DEF Registered

LEMMA AsksHandled ==
    ASSUME ScenarioInv, NEW e \in Clients, Handle(e), UNCHANGED clientVars,
           NEW c \in Clients, NEW d \in Clients \ {c}
    PROVE  AsksOnce(c, d)'
<1>1. c = e \/ d = e
  BY OtherName DEF ScenarioInv, OrderlyScenario
<1>2. Removed(e) \/ Registered(e) \/ Relayed(e)
  BY HandlerShape
<1> QED
  BY <1>1, <1>2, AsksRemoved, AsksRelayed, AsksRegistered

\* The relay passes a sender key on as it is, ...
LEMMA ExchangeHandled ==
    ASSUME ScenarioInv, NEW e \in Clients, Handle(e), UNCHANGED clientVars,
           NEW c \in Clients, NEW d \in Clients \ {c}
    PROVE  ExchangeMeant(c, d)'
<1>1. /\ ExchangeMeant(c, d) /\ inbox[c] \in Seq(Message) /\ (c = e \/ d = e)
      /\ ToSet(outbox'[c]) \subseteq ToSet(outbox[c])
      /\ c # e => ExchangeMeant(e, c)
  BY HandlerFacts, OtherName, AfterHandler
     DEF ScenarioInv, OrderlyScenario, OrderlyInv, OrderlyPair
<1>2. /\ UNCHANGED <<known, session, rstate, hpc, hcur>>
      /\ (Up(c)' <=> Up(c)) /\ (Up(d)' <=> Up(d))
  BY PartHandled
<1>3. ASSUME NEW x, Brings(e, c, x), x.type = "sender_key"
      PROVE  /\ d = e /\ Up(c) /\ Up(d) /\ Nick[d] \in known[c] /\ Nick[c] \in known[d]
             /\ x.from = Nick[d] /\ x.body = [key |-> session[d][Nick[c]], val |-> d]
  <2>1. /\ x \in Message /\ c # e /\ Relayed(e) /\ x = Head(outbox[e]) /\ x.from = Nick[e]
    BY <1>3 DEF Brings, BuildJson, Notice
  <2>2. /\ outbox[e] # <<>> /\ outbox[e] \in Seq(Message) /\ d = e
    BY <1>1, <2>1, HandlerFacts DEF Relayed
  <2>3. x \in ToSet(outbox[e]) /\ 1 \in 1..Len(outbox[e]) /\ x = outbox[e][1]
    BY <2>1, <2>2, StreamTail
  <2>4. /\ Exchanging(e) /\ ExchangeMeant(e, c) /\ SealedOut(e)
    BY <1>1, <1>3, <2>1, <2>3, SealedParts DEF Exchanging, ScenarioInv
  <2>5. x.body.key = session[e][Nick[c]] /\ x.body.val = e
    BY <1>3, <2>3, <2>4 DEF ExchangeMeant, SealedOut
  <2>6. x.body = [key |-> session[e][Nick[c]], val |-> e]
    <3>1. x \in KeyMsgs
      BY <1>3, <2>1, MessageKinds
    <3>2. x.body \in [key : Key, val : Clients]
      BY <3>1 DEF KeyMsgs
    <3> QED  BY <2>5, <3>2
  <2> QED  BY <2>1, <2>2, <2>4, <2>6 DEF ExchangeMeant
<1>4. ASSUME NEW m \in ToSet(inbox'[c]), m.type = "sender_key"
      PROVE  /\ Up(c) /\ Up(d) /\ Nick[d] \in known[c] /\ Nick[c] \in known[d]
             /\ m.from = Nick[d] /\ m.body = [key |-> session[d][Nick[c]], val |-> d]
  <2>1. CASE m \in ToSet(inbox[c])
    <3>1. Exchanging(c)
      BY <1>4, <2>1 DEF Exchanging
    <3> QED  BY <1>1, <1>4, <2>1, <3>1 DEF ExchangeMeant
  <2>2. CASE m \notin ToSet(inbox[c])
    <3>1. PICK x : Brings(e, c, x)
      BY <1>4, <2>2, ArrivesOne
    <3>2. x \in Message /\ inbox'[c] = Append(inbox[c], x)
      BY <3>1 DEF Brings
    <3>3. ToSet(inbox'[c]) = ToSet(inbox[c]) \cup {x}
      BY <1>1, <3>2, StreamAppend
    <3>4. m = x
      BY <1>4, <2>2, <3>3
    <3> QED  BY <1>3, <1>4, <3>1, <3>4
  <2> QED  BY <2>1, <2>2
<1>5. ASSUME Exchanging(c)'
      PROVE  Up(c) /\ Up(d) /\ Nick[d] \in known[c] /\ Nick[c] \in known[d]
  <2>1. CASE Exchanging(c)
    BY <1>1, <2>1 DEF ExchangeMeant
  <2>2. CASE ~Exchanging(c)
    <3>1. \E m \in ToSet(inbox'[c]) : m.type = "sender_key"
      BY <1>1, <1>2, <1>5, <2>2 DEF Exchanging
    <3> QED  BY <1>4, <3>1
  <2> QED  BY <2>1, <2>2
<1> QED
  BY <1>1, <1>2, <1>4, <1>5 DEF ExchangeMeant

\* ... and a line.
LEMMA LinesHandled ==
    ASSUME ScenarioInv, NEW e \in Clients, Handle(e), UNCHANGED clientVars,
           NEW c \in Clients, NEW d \in Clients \ {c}
    PROVE  LinesReadable(d, c)'
<1>1. /\ LinesReadable(d, c) /\ inbox[c] \in Seq(Message) /\ (c = e \/ d = e)
      /\ ToSet(outbox'[d]) \subseteq ToSet(outbox[d])
  BY HandlerFacts, OtherName, AfterHandler
     DEF ScenarioInv, OrderlyScenario, OrderlyInv, OrderlyPair
<1>2. UNCHANGED <<known, sender>> /\ (Up(c)' <=> Up(c))
  BY PartHandled
<1>3. ASSUME NEW x, Brings(e, c, x), x.type = "message"
      PROVE  /\ x.from = Nick[d] /\ x.body = d
             /\ Nick[d] \in known[c] /\ sender[c][Nick[d]] = d
  <2>1. x \in Message /\ c # e /\ Up(c) /\ Relayed(e) /\ x = Head(outbox[e]) /\ x.from = Nick[e]
    BY <1>3 DEF Brings, BuildJson, Notice
  <2>2. outbox[e] # <<>> /\ outbox[e] \in Seq(Message) /\ d = e
    BY <1>1, <2>1, HandlerFacts DEF Relayed
  <2>3. x \in ToSet(outbox[d])
    BY <2>1, <2>2, StreamTail
  <2> QED  BY <1>1, <1>3, <2>1, <2>2, <2>3 DEF LinesReadable
<1>4. ASSUME NEW m \in ToSet(inbox'[c]), m.type = "message"
      PROVE  /\ m.from = Nick[d] /\ m.body = d
             /\ Nick[d] \in known[c] /\ sender[c][Nick[d]] = d
  <2>1. CASE m \in ToSet(inbox[c])
    BY <1>1, <1>4, <2>1 DEF LinesReadable
  <2>2. CASE m \notin ToSet(inbox[c])
    <3>1. PICK x : Brings(e, c, x)
      BY <1>4, <2>2, ArrivesOne
    <3>2. x \in Message /\ inbox'[c] = Append(inbox[c], x)
      BY <3>1 DEF Brings
    <3>3. ToSet(inbox'[c]) = ToSet(inbox[c]) \cup {x}
      BY <1>1, <3>2, StreamAppend
    <3>4. m = x
      BY <1>4, <2>2, <3>3
    <3> QED  BY <1>3, <1>4, <3>1, <3>4
  <2> QED  BY <2>1, <2>2
<1> QED
  BY <1>1, <1>2, <1>4 DEF LinesReadable

LEMMA HandlerKeepsOrder ==
    ASSUME ScenarioInv, NEW e \in Clients, Handle(e), UNCHANGED clientVars
    PROVE  OrderlyInv'
<1>1. serverUp' /\ AcceptedOnce'
  BY HandlerShape, PresenceHandled
<1>2. ASSUME NEW c \in Clients PROVE OrderlySingle(c)'
  BY <1>2, PresenceHandled, LocalsHandled, ServerAskedHandled DEF OrderlySingle
<1>3. ASSUME NEW c \in Clients, NEW d \in Clients, c # d PROVE OrderlyPair(c, d)'
  <2>1. JoinsAlone(c, d)' /\ LeavesAlone(c, d)'
    BY <1>3, PresenceHandled
  <2>2. ToldAlone(c, d)' /\ AsksOnce(c, d)' /\ ExchangeMeant(c, d)'
    BY <1>3, ToldHandled, AsksHandled, ExchangeHandled
  <2>3. LinesReadable(c, d)'
    BY <1>3, LinesHandled
  <2> QED  BY <2>1, <2>2, <2>3 DEF OrderlyPair
<1> QED
  BY <1>1, <1>2, <1>3 DEF OrderlyInv

-----------------------------------------------------------------------------
(* Every other step, and the theorem *)

\* A step that only waits, or makes a member of somebody who is up.
LEMMA WaitKeepsOrder ==
    ASSUME ScenarioInv, UNCHANGED <<clientVars, inbox, outbox, key>>, serverUp', AcceptedOnce',
           members \subseteq members', \A c \in Clients : c \in members' /\ c \notin members => Up(c)
    PROVE  OrderlyInv'
<1>1. ASSUME NEW c \in Clients, NEW d \in Clients
      PROVE  /\ (Up(c)' <=> Up(c)) /\ (Resting(c)' <=> Resting(c)) /\ (Absent(c) => Absent(c)')
             /\ (Woken(c, d)' <=> Woken(c, d)) /\ (Told(c, d)' <=> Told(c, d))
             /\ (NoneSent(c, d)' <=> NoneSent(c, d)) /\ (NoneLanded(c, d)' <=> NoneLanded(c, d))
  BY DEF Up, Resting, Absent, Woken, Wakes, Told, NoneSent, NoneLanded
<1>2. ASSUME NEW c \in Clients PROVE OrderlySingle(c)'
  <2>1. OrderlySingle(c)
    BY HandlerFacts
  <2>2. (status[c] # "faulted")' /\ RestsUnlessUp(c)'
    BY <1>1, <2>1 DEF OrderlySingle, RestsUnlessUp
  <2>3. ServerOnce(c)' /\ ServerAgrees(c)'
    BY <2>1 DEF OrderlySingle, ServerOnce, ServerAgrees, AsksServer, Up
  <2>4. HandshakeLocals(c)' /\ NoEcho(c)' /\ NoticesReadable(c)'
    BY <2>1 DEF OrderlySingle, HandshakeLocals, Wakes, NoEcho, NoticesReadable
  <2> QED  BY <2>2, <2>3, <2>4 DEF OrderlySingle
<1>3. ASSUME NEW c \in Clients, NEW d \in Clients, c # d PROVE OrderlyPair(c, d)'
  <2>1. OrderlyPair(c, d) /\ status' = status /\ inbox' = inbox
    BY <1>3, HandlerFacts
  <2>2. JoinsAlone(c, d)' /\ LeavesAlone(c, d)' /\ ToldAlone(c, d)'
    <3>1. status[c] # "up" /\ c \in members' => c \in members
      BY DEF Up
    <3> QED
      BY <1>1, <2>1, <3>1 DEF OrderlyPair, JoinsAlone, LeavesAlone, ToldAlone, Up
  <2>3. AsksOnce(c, d)'
    BY <1>1, <2>1, AsksSame DEF OrderlyPair
  <2>4. ExchangeMeant(c, d)'
    BY <2>1 DEF OrderlyPair, ExchangeMeant, Exchanging, Up
  <2>5. LinesReadable(c, d)'
    BY <2>1 DEF OrderlyPair, LinesReadable, Up
  <2> QED  BY <2>2, <2>3, <2>4, <2>5 DEF OrderlyPair
<1> QED
  BY <1>2, <1>3 DEF OrderlyInv

\* There is a descriptor for the second client, and it is up.
LEMMA AcceptKeepsOrder ==
    ASSUME ScenarioInv, SetupClient, UNCHANGED clientVars
    PROVE  OrderlyInv'
<1>1. /\ AcceptedOnce /\ backlog \in Seq(Clients) /\ accepted \in Seq(Clients) /\ serverUp
      /\ members \subseteq Clients /\ TwoClients /\ MinFds >= 2 /\ MinFds \in Nat
      /\ backlog # <<>>
  <2>1. /\ AcceptedOnce /\ ServerInv /\ TwoClients /\ MinFds >= 2 /\ MinFds \in Nat
        /\ "listener" \in ready /\ serverUp /\ "listener" \notin Clients
    BY NameFacts, ServerBounds
       DEF ScenarioInv, OrderlyScenario, OrderlyInv, GroupInv, SetupClient, Handling
  <2>2. /\ backlog \in Seq(Clients) /\ accepted \in Seq(Clients) /\ members \subseteq Clients
        /\ EventsFresh
    BY <2>1 DEF ServerInv, WireType, TablesType
  <2>3. backlog # <<>>
    BY <2>1, <2>2 DEF EventsFresh
  <2> QED  BY <2>1, <2>2, <2>3
<1> DEFINE h == Head(backlog)
<1>2. /\ h \in ToSet(backlog) /\ h \in Clients /\ h = backlog[1] /\ Len(backlog) \in Nat \ {0}
      /\ ToSet(backlog) \subseteq Clients /\ ToSet(accepted) \subseteq Clients
      /\ Up(h) /\ h \notin ToSet(accepted)
  BY <1>1 DEF ToSet, AcceptedOnce
<1>3. Len(accepted) < 2
  <2>1. SUFFICES ASSUME Len(accepted) >= 2 PROVE FALSE
    BY <1>1
  <2>2. 1 \in 1..Len(accepted) /\ 2 \in 1..Len(accepted) /\ DOMAIN accepted = 1..Len(accepted)
    BY <1>1, <2>1
  <2>3. /\ accepted[1] \in ToSet(accepted) /\ accepted[2] \in ToSet(accepted)
        /\ accepted[1] # accepted[2]
    BY <1>1, <2>2 DEF AcceptedOnce, IsInjective, ToSet
  <2> QED  BY <1>1, <1>2, <2>3 DEF TwoClients
<1>4. /\ backlog' = Tail(backlog) /\ accepted' = Append(accepted, h)
      /\ members' = members \cup {h} /\ serverUp' /\ UNCHANGED <<inbox, outbox, key, status>>
  <2>1. ~(Len(accepted) >= MinFds)
    <3>1. Len(accepted) \in Nat
      BY <1>1
    <3> QED  BY <1>1, <1>3, <3>1
  <2> QED  BY <1>1, <2>1 DEF SetupClient
<1> HIDE DEF h
<1>5. ToSet(accepted') = ToSet(accepted) \cup {h} /\ IsInjective(accepted')
  <2>1. /\ Len(accepted) \in Nat /\ DOMAIN accepted' = 1..(Len(accepted) + 1)
        /\ accepted'[Len(accepted) + 1] = h
        /\ \A i \in 1..Len(accepted) : accepted'[i] = accepted[i]
        /\ DOMAIN accepted = 1..Len(accepted) /\ Len(accepted') = Len(accepted) + 1
    BY <1>1, <1>2, <1>4
  <2>2. \A x \in ToSet(accepted') : x \in ToSet(accepted) \cup {h}
    BY <2>1 DEF ToSet
  <2>3. \A x \in ToSet(accepted) \cup {h} : x \in ToSet(accepted')
    BY <2>1 DEF ToSet
  <2>4. \A i \in 1..Len(accepted) : accepted[i] # h
    BY <1>2 DEF ToSet
  <2>5. \A i, j \in 1..Len(accepted) : accepted[i] = accepted[j] => i = j
    BY <1>1, <2>1 DEF AcceptedOnce, IsInjective
  <2> QED  BY <2>1, <2>2, <2>3, <2>4, <2>5 DEF IsInjective
<1>6. ToSet(backlog') \subseteq ToSet(backlog) \ {h} /\ IsInjective(backlog')
  <2>1. /\ Len(backlog') = Len(backlog) - 1 /\ DOMAIN backlog' = 1..Len(backlog')
        /\ \A i \in 1..Len(backlog') : i + 1 \in 2..Len(backlog) /\ backlog'[i] = backlog[i + 1]
    BY <1>1, <1>2, <1>4
  <2>2. \A i, j \in 1..Len(backlog) : backlog[i] = backlog[j] => i = j
    BY <1>1 DEF AcceptedOnce, IsInjective
  <2>3. IsInjective(backlog')
    <3>1. SUFFICES ASSUME NEW i \in 1..Len(backlog'), NEW j \in 1..Len(backlog'),
                          backlog'[i] = backlog'[j]
                   PROVE  i = j
      BY <2>1 DEF IsInjective
    <3>2. i + 1 = j + 1
      BY <2>1, <2>2, <3>1, <1>2
    <3> QED  BY <3>2, <1>2, <2>1
  <2>4. ASSUME NEW i \in 1..Len(backlog') PROVE backlog'[i] \in ToSet(backlog) \ {h}
    <3>1. i + 1 \in 2..Len(backlog) /\ backlog'[i] = backlog[i + 1] /\ i \in Nat
      BY <1>2, <2>1
    <3>2. backlog[i + 1] # backlog[1]
      BY <1>2, <2>2, <3>1
    <3> QED  BY <1>2, <3>1, <3>2 DEF ToSet
  <2> QED  BY <2>3, <2>4 DEF ToSet
<1>7. AcceptedOnce'
  BY <1>1, <1>2, <1>4, <1>5, <1>6 DEF AcceptedOnce, Up
<1>8. \A c \in Clients : c \in members' /\ c \notin members => Up(c)
  BY <1>2, <1>4
<1> QED
  BY <1>4, <1>7, <1>8, WaitKeepsOrder

\* What has its top bit set is not filed again.
LEMMA TopBitStays ==
    ASSUME GroupInv, [Next]_vars, TopBit
    PROVE  TopBit'
<1>1. CASE UNCHANGED clientVars
  BY <1>1, SeenByClient DEF TopBit
<1>2. ASSUME NEW b \in Clients, ClientStep(b) PROVE TopBit'
  BY <1>2, ServerEntryStays DEF TopBit
<1> QED
  BY <1>1, <1>2 DEF Next, vars, ServerStep, ResetStep

LEMMA StepKeepsOrder ==
    ASSUME ScenarioInv, [Next]_vars, ~TopBit'
    PROVE  OrderlyInv'
<1>1. OrderlyInv
  BY DEF ScenarioInv
<1>2. ASSUME UNCHANGED <<clientVars, inbox, outbox, key, serverUp, accepted, backlog, members>>
      PROVE  OrderlyInv'
  <2>1. AcceptedOnce' /\ serverUp'
    BY <1>1, <1>2 DEF OrderlyInv, AcceptedOnce, Up
  <2> QED  BY <1>2, <2>1, WaitKeepsOrder
<1>3. CASE UNCHANGED vars
  BY <1>2, <1>3 DEF vars, serverVars, memVars
<1>4. ASSUME NEW b \in Clients, ResetStep(b) PROVE OrderlyInv'
  BY <1>2, <1>4 DEF ResetStep, NetReset, serverVars, memVars
<1>5. CASE Watch /\ UNCHANGED clientVars
  BY <1>2, <1>5 DEF Watch, memVars
<1> QED
  BY <1>3, <1>4, <1>5, AcceptKeepsOrder, HandlerKeepsOrder, ClientKeepsOrder
     DEF Next, ServerStep, ServerNext

LEMMA InitOrder ==
    ASSUME Init
    PROVE  OrderlyInv
<1>1. /\ serverUp /\ accepted = <<>> /\ backlog = <<>> /\ members = {}
      /\ \A c \in Clients :
            /\ status[c] = "off" /\ hstate[c] = "idle" /\ hpc[c] = "take" /\ rstate[c] = "idle"
            /\ kpc[c] = "take" /\ keyq[c] = <<>> /\ rpc[c] = "recv" /\ dhq[c] = <<>>
            /\ hsent[c] = 0 /\ inbox[c] = <<>> /\ outbox[c] = <<>>
            /\ sender[c] = [p \in Peers |-> Null]
  BY DEF Init, NetInit, ClientInit, ServerInit
<1>2. /\ ToSet(<<>>) = {} /\ IsInjective(<<>>) /\ AtMostOne({})
      /\ \A n : NumbersTo(<<>>, n) = {} /\ NumbersFrom(<<>>, n) = {} /\ EntriesOf(<<>>, n) = {}
  BY DEF ToSet, IsInjective, AtMostOne, NumbersTo, NumbersFrom, EntriesOf
<1>3. AcceptedOnce
  BY <1>1, <1>2 DEF AcceptedOnce
<1>4. ASSUME NEW c \in Clients PROVE OrderlySingle(c)
  <2>1. status[c] # "faulted" /\ RestsUnlessUp(c)
    BY <1>1 DEF RestsUnlessUp, Resting
  <2>2. ServerOnce(c) /\ ServerAgrees(c)
    BY <1>1, <1>2 DEF ServerOnce, ServerAgrees, Up
  <2>3. HandshakeLocals(c) /\ NoEcho(c) /\ NoticesReadable(c)
    BY <1>1, <1>2 DEF HandshakeLocals, NoEcho, NoticesReadable
  <2> QED  BY <2>1, <2>2, <2>3 DEF OrderlySingle
<1>5. ASSUME NEW c \in Clients, NEW d \in Clients, c # d PROVE OrderlyPair(c, d)
  <2>1. JoinsAlone(c, d) /\ LeavesAlone(c, d) /\ ToldAlone(c, d)
    BY <1>1, <1>2 DEF JoinsAlone, LeavesAlone, ToldAlone, Up
  <2>2. ~Woken(c, d) /\ ~AsksPeer(c, d) /\ Silent(c, d) /\ ~Told(c, d)
    BY <1>1, <1>2 DEF Woken, Wakes, AsksPeer, Silent, NoneOnWay, NoneSent, NoneLanded, Takes,
       Answers, Told
  <2>3. AsksOnce(c, d)
    BY <1>1, <1>2, <2>2 DEF AsksOnce, WillAsk, Woken
  <2>4. ~Exchanging(c)
    BY <1>1, <1>2 DEF Exchanging
  <2>5. ExchangeMeant(c, d)
    BY <1>1, <1>2, <2>4 DEF ExchangeMeant
  <2>6. LinesReadable(c, d)
    <3>1. sender[d][Nick[c]] = Null
      BY <1>1, NameFacts DEF Peers
    <3> QED  BY <1>1, <1>2, <3>1 DEF LinesReadable
  <2> QED  BY <2>1, <2>3, <2>5, <2>6 DEF OrderlyPair
<1> QED
  BY <1>1, <1>3, <1>4, <1>5 DEF OrderlyInv

\* No loop of a client throws and the server lives, for two clients under any
\* nicknames and until a secret of a client and the server has its top bit set:
\* however their steps, the repetitions and the events of the server interleave,
\* everything that is decrypted has its key, no answer finds its question
\* forgotten, and nobody is written to who is gone.
THEOREM NobodyFailsInOrder ==
    ASSUME OrderlyScenario
    PROVE  Spec => []NobodyFails
<1> DEFINE Order == TopBit \/ OrderlyInv
<1>1. Init => GroupInv /\ SealedEndToEnd /\ ExchangeInv /\ Order
  BY InitGroup, InitSealed, InitExchange, InitOrder
<1>2. GroupInv /\ SealedEndToEnd /\ ExchangeInv /\ Order /\ [Next]_vars
         => (GroupInv /\ SealedEndToEnd /\ ExchangeInv /\ Order)'
  <2>1. SUFFICES ASSUME GroupInv, SealedEndToEnd, ExchangeInv, Order, [Next]_vars
                 PROVE  (GroupInv /\ SealedEndToEnd /\ ExchangeInv /\ Order)'
    OBVIOUS
  <2>2. DistinctNicks /\ TwoClients
    BY DEF OrderlyScenario
  <2>3. GroupInv'
    BY <2>1, <2>2, StepKeepsGroup
  <2>4. (SealedEndToEnd /\ ExchangeInv)'
    BY <2>1, <2>2, <2>3, SealedStep, ExchangeInvStep
  <2>5. CASE TopBit
    BY <2>1, <2>3, <2>4, <2>5, TopBitStays
  <2>6. CASE OrderlyInv
    <3>1. ScenarioInv
      BY <2>1, <2>6 DEF ScenarioInv
    <3> QED  BY <2>1, <2>3, <2>4, <3>1, StepKeepsOrder
  <2> QED  BY <2>1, <2>5, <2>6
<1>3. Order => NobodyFails
  BY DEF OrderlyInv, OrderlySingle, NobodyFails
<1> QED
  BY <1>1, <1>2, <1>3, PTL DEF Spec
=============================================================================
