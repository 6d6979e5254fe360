-------------------------- MODULE GroupChatProofs --------------------------
(***************************************************************************)
(* Proofs about the whole chat when no two clients use the same nickname,  *)
(* for every set of clients, every bound on retries and descriptors, every *)
(* pace of the users and every choice of secrets with their top bit set:   *)
(* that two clients with a session agree on its key, that the sessions     *)
(* implement SessionAgreement, when the server's keys differ, and that     *)
(* sender keys are sealed and meant for whom they are encrypted.           *)
(***************************************************************************)
EXTENDS GroupInvariant, ChatLemmas, FiniteSetTheorems

USE DEF clientVars, netVars, hsVars, ratVars, dicVars, queVars, rVars, hVars, kVars

-----------------------------------------------------------------------------
(* A step of one client and the other clients *)

\* A step leaves what belongs to client c alone.
Untouched(c) ==
    /\ status'[c] = status[c] /\ lines'[c] = lines[c]
    /\ hstate'[c] = hstate[c] /\ shaker'[c] = shaker[c] /\ mynum'[c] = mynum[c]
    /\ opnum'[c] = opnum[c] /\ draws'[c] = draws[c]
    /\ rstate'[c] = rstate[c] /\ exch'[c] = exch[c]
    /\ known'[c] = known[c] /\ session'[c] = session[c] /\ sender'[c] = sender[c]
    /\ dhq'[c] = dhq[c] /\ keyq'[c] = keyq[c]
    /\ rpc'[c] = rpc[c] /\ rtok'[c] = rtok[c]
    /\ hpc'[c] = hpc[c] /\ hmsg'[c] = hmsg[c] /\ hcur'[c] = hcur[c] /\ hsent'[c] = hsent[c]
    /\ kpc'[c] = kpc[c] /\ ktok'[c] = ktok[c] /\ kkey'[c] = kkey[c]
    /\ kmsg'[c] = kmsg[c] /\ ksent'[c] = ksent[c]
    /\ inbox'[c] = inbox[c] /\ outbox'[c] = outbox[c] /\ link'[c] = link[c]

\* The clients' variables are functions on Clients.
LEMMA EntriesExist ==
    ASSUME ClientsTyped
    PROVE  /\ DOMAIN status = Clients /\ DOMAIN lines = Clients
           /\ DOMAIN hstate = Clients /\ DOMAIN shaker = Clients /\ DOMAIN mynum = Clients
           /\ DOMAIN opnum = Clients /\ DOMAIN draws = Clients
           /\ DOMAIN rstate = Clients /\ DOMAIN exch = Clients
           /\ DOMAIN known = Clients /\ DOMAIN session = Clients /\ DOMAIN sender = Clients
           /\ DOMAIN dhq = Clients /\ DOMAIN keyq = Clients
           /\ DOMAIN rpc = Clients /\ DOMAIN rtok = Clients
           /\ DOMAIN hpc = Clients /\ DOMAIN hmsg = Clients /\ DOMAIN hcur = Clients
           /\ DOMAIN hsent = Clients
           /\ DOMAIN kpc = Clients /\ DOMAIN ktok = Clients /\ DOMAIN kkey = Clients
           /\ DOMAIN kmsg = Clients /\ DOMAIN ksent = Clients
           /\ DOMAIN inbox = Clients /\ DOMAIN outbox = Clients /\ DOMAIN link = Clients
  BY DEF ClientsTyped, NetType, MachineType, RatchetType, DictType, QueueType, LocalType

\* The steps of another client do.
LEMMA OthersUntouched ==
    ASSUME ClientsTyped, NEW d \in Clients, TaskNext(d), NEW c \in Clients \ {d}
    PROVE  Untouched(c)
<1> USE EntriesExist DEF Untouched
<1>1. CASE Connect(d)
  BY <1>1 DEF Connect, NetConnect, SetMyState_ToSendDH, DrawNumber, SetHState
<1>2. CASE RecvMessage(d) \/ RecvClosed(d) \/ SendFails(d) \/ HCheck(d) \/ KReadKey(d)
  BY <1>2 DEF RecvMessage, RecvClosed, SendFails, HCheck, KReadKey, Take, NetTake, Fault
<1>3. CASE RecvDh(d)
  BY <1>3 DEF RecvDh, Take, NetTake, SetMyState_ToSendDH, SetMyState_ToRcvedDH, DrawNumber,
     SetHState
<1>4. CASE RecvSenderKey(d)
  BY <1>4 DEF RecvSenderKey, Take, NetTake, Fault
<1>5. CASE RecvEnter(d)
  BY <1>5 DEF RecvEnter, Take, NetTake, Fault, SetMyState_ToSendDH, DrawNumber, SetHState
<1>6. CASE RecvLeave(d)
  BY <1>6 DEF RecvLeave, Take, NetTake, Fault, RemoveData
<1>7. CASE PutDh(d) \/ PutKey(d) \/ HPutKey(d) \/ HStartKey(d)
  BY <1>7 DEF PutDh, PutKey, HPutKey, HStartKey
<1>8. SetMyState_ToIdle(d) =>
         /\ hstate'[c] = hstate[c] /\ shaker'[c] = shaker[c] /\ mynum'[c] = mynum[c]
         /\ opnum'[c] = opnum[c] /\ draws'[c] = draws[c]
         /\ known'[c] = known[c] /\ session'[c] = session[c] /\ sender'[c] = sender[c]
  BY DEF SetMyState_ToIdle, GetSharedSecret, ResetMachine, SetHState
<1>9. CASE HTake(d)
  BY <1>8, <1>9 DEF HTake, HRequest, HRespond, SetHState
<1>10. CASE HDone(d)
  BY <1>8, <1>10 DEF HDone, Fault
<1>11. CASE HAnswer(d) \/ HResend(d) \/ KResend(d) \/ KAnswer(d) \/ InputLine(d)
  BY <1>11 DEF HAnswer, HResend, KResend, KAnswer, InputLine, Send, NetSend
<1>12. CASE KTake(d) \/ KReadTo(d) \/ KMark(d) \/ KSeen(d)
  BY <1>12 DEF KTake, KReadTo, KMark, KSeen
<1>13. CASE KFinish(d) \/ InputQuit(d) \/ Exit(d)
  BY <1>13 DEF KFinish, RatchetToIdle, InputQuit, Exit, NetClose
<1> QED
  BY <1>1, <1>2, <1>3, <1>4, <1>5, <1>6, <1>7, <1>9, <1>10, <1>11, <1>12, <1>13
     DEF TaskNext, RNext, HNext, KNext, INext

\* A client's invariant is about its own entries only.
LEMMA UntouchedKeeps ==
    ASSUME NEW c \in Clients, ClientInv(c), Untouched(c)
    PROVE  ClientInv(c)'
<1> USE DEF Untouched
<1>1. (DhWakeup(c) /\ HandshakeOwner(c) /\ Unborn(c) /\ Engaged(c) /\ RequestMatches(c))'
  BY DEF ClientInv, DhWakeup, HandshakeOwner, Unborn, Engaged, RequestMatches
<1>2. (InboxHonest(c) /\ OpponentIsOther(c) /\ ServerFirst(c) /\ LocalsReady(c))'
  BY DEF ClientInv, InboxHonest, OpponentIsOther, ServerFirst, LocalsReady
<1>3. (ExchangerSet(c) /\ ExchangeOpen(c) /\ KeyWakeup(c))'
  BY DEF ClientInv, ExchangerSet, ExchangeOpen, KeyWakeup
<1>4. (SessionEndToEnd(c) /\ NumbersSpent(c) /\ KeysDerived(c))'
  BY DEF ClientInv, SessionEndToEnd, NumbersSpent, KeysDerived, Drawn
<1>5. (EntriesSealed(c) /\ SenderKeySealed(c))'
  BY DEF ClientInv, EntriesSealed, SenderKeySealed, Sealed, Drawn
<1> QED
  BY <1>1, <1>2, <1>3, <1>4, <1>5 DEF ClientInv

-----------------------------------------------------------------------------
(* A step of one client and its own entries *)

\* The first packet of a socket is a message.
LEMMA HeadOfInbox ==
    ASSUME ClientsTyped, NEW c \in Clients, inbox[c] # <<>>
    PROVE  /\ Head(inbox[c]) \in Message /\ Head(inbox[c]) = inbox[c][1]
           /\ 1 \in 1..Len(inbox[c]) /\ Len(inbox[c]) \in Nat
<1>1. inbox[c] \in Seq(Message)
  BY DEF ClientsTyped, NetType
<1> QED  BY <1>1

\* R takes the first packet; Exit throws the rest away.
Reads(c) ==
    \/ inbox'[c] = inbox[c]
    \/ \A i \in 1..Len(inbox'[c]) :
          i + 1 \in 1..Len(inbox[c]) /\ inbox'[c][i] = inbox[c][i + 1]

LEMMA ClientReads ==
    ASSUME ClientsTyped, NEW c \in Clients, TaskNext(c)
    PROVE  Reads(c)
<1>1. inbox[c] \in Seq(Message) /\ inbox \in [Clients -> Seq(Message)]
  BY DEF ClientsTyped, NetType
<1>2. CASE UNCHANGED inbox
  BY <1>2 DEF Reads
<1>3. CASE Exit(c)
  BY <1>1, <1>3 DEF Exit, NetClose, Reads
<1>4. ASSUME inbox[c] # <<>>, inbox' = [inbox EXCEPT ![c] = Tail(@)]
      PROVE  Reads(c)
  BY <1>1, <1>4, TailOf DEF Reads
<1>5. CASE RecvMessage(c) \/ RecvDh(c) \/ RecvSenderKey(c)
  BY <1>2, <1>4, <1>5
     DEF RecvMessage, RecvDh, RecvSenderKey, Receiving, Take, NetTake, Fault
<1>6. CASE RecvEnter(c) \/ RecvLeave(c)
  BY <1>2, <1>4, <1>6 DEF RecvEnter, RecvLeave, Receiving, Take, NetTake, Fault
<1> QED
  BY <1>2, <1>3, <1>5, <1>6, StepFrame DEF Frame

\* What a client sends is signed, and a dh message is the one H has built, a
\* sender key the one K has built.
Sends(c) ==
    \/ UNCHANGED outbox
    \/ \E m \in Message :
          /\ outbox' = [outbox EXCEPT ![c] = Append(@, m)]
          /\ m.type = "dh" => m = hmsg[c] /\ UNCHANGED <<known, hstate>>
          /\ m.type = "sender_key" => m = kmsg[c] /\ kmsg[c] # NoMsg
          /\ m.from = Nick[c]

LEMMA ClientSends ==
    ASSUME ClientsTyped, NEW c \in Clients, ClientInv(c), TaskNext(c),
           ForItsSession(c, hmsg[c])
    PROVE  Sends(c)
<1>1. LocalsReady(c)
  BY DEF ClientInv
<1>2. CASE UNCHANGED outbox
  BY <1>2 DEF Sends
<1>3. CASE HAnswer(c) \/ HResend(c)
  <2>1. hmsg[c] \in DhMsgs
    BY <1>1, <1>3 DEF HAnswer, HResend, LocalsReady
  <2>2. hmsg[c] \in Message /\ hmsg[c].type = "dh" /\ hmsg[c].type # "sender_key"
    BY <2>1 DEF Message, DhMsgs
  <2>3. hmsg[c].from = Nick[c]
    BY <2>2 DEF ForItsSession
  <2>4. outbox' = [outbox EXCEPT ![c] = Append(@, hmsg[c])] /\ UNCHANGED <<known, hstate>>
    BY <1>3 DEF HAnswer, HResend, Send, NetSend
  <2> QED
    BY <2>2, <2>3, <2>4 DEF Sends
<1>4. CASE KResend(c) \/ KAnswer(c)
  <2>1. kmsg[c] \in KeyMsgs /\ kmsg[c].from = Nick[c]
    BY <1>1, <1>4 DEF KResend, KAnswer, LocalsReady
  <2>2. kmsg[c] \in Message /\ kmsg[c].type # "dh" /\ kmsg[c] # NoMsg
    BY <2>1 DEF Message, KeyMsgs, NoMsg, BuildJson
  <2>3. outbox' = [outbox EXCEPT ![c] = Append(@, kmsg[c])]
    BY <1>4 DEF KResend, KAnswer, Send, NetSend
  <2> QED
    BY <2>1, <2>2, <2>3 DEF Sends
<1>5. CASE InputLine(c)
  <2> DEFINE m == BuildJson("message", Nick[c], "group", c)
  <2>1. m \in ChatMsgs
    BY PeerFacts DEF BuildJson, ChatMsgs
  <2>2. m \in Message /\ m.type \notin {"dh", "sender_key"} /\ m.from = Nick[c]
    BY <2>1 DEF Message, ChatMsgs, BuildJson
  <2>3. outbox' = [outbox EXCEPT ![c] = Append(@, m)]
    BY <1>5 DEF InputLine, Send, NetSend
  <2> HIDE DEF m
  <2> QED
    BY <2>2, <2>3 DEF Sends
<1> QED
  BY <1>2, <1>3, <1>4, <1>5, StepFrame DEF Frame

\* Who leaves does not come back.
LEMMA HereStep ==
    ASSUME ClientsTyped, NEW c \in Clients, ClientInv(c), TaskNext(c)
    PROVE  Here(c)' => Here(c)
<1>1. CASE Connect(c)
  BY <1>1 DEF Connect, Here
<1> QED
  BY <1>1, StatusStep DEF Here

\* How the handshake machine and the dictionary move together.
HsSame(c)  == /\ hstate'[c] = hstate[c] /\ shaker'[c] = shaker[c]
              /\ mynum'[c] = mynum[c] /\ opnum'[c] = opnum[c]
DicSame(c) == known'[c] = known[c] /\ session'[c] = session[c]

\* Connect.
Joins(c) ==
    /\ status[c] = "off" /\ hstate[c] = "idle" /\ known[c] = {}
    /\ hstate'[c] = "send_dh" /\ shaker'[c] = "server" /\ opnum'[c] = opnum[c]
    /\ known'[c] = {Nick[c]} /\ session'[c] = session[c]

\* A handshake is begun for a number or for a notice.
Begins(c) ==
    /\ hstate[c] = "idle" /\ hstate'[c] = "send_dh" /\ DicSame(c)
    /\ inbox[c] # <<>>
    /\ LET m == Head(inbox[c])
       IN  \/ m.type = "dh" /\ shaker'[c] = m.from /\ opnum'[c] = m.body
           \/ m.type = "enter" /\ shaker'[c] = m.body.name /\ opnum'[c] = opnum[c]

\* The number R waited for has come.
Completes(c) ==
    /\ hstate[c] = "waiting_for_rcv_dh" /\ hstate'[c] = "rcved_dh" /\ DicSame(c)
    /\ inbox[c] # <<>> /\ Head(inbox[c]).type = "dh" /\ opnum'[c] = Head(inbox[c]).body
    /\ shaker'[c] = shaker[c] /\ mynum'[c] = mynum[c]

\* H has built its request.
Asks(c) ==
    /\ hstate[c] = "send_dh" /\ hstate'[c] = "waiting_for_rcv_dh" /\ DicSame(c)
    /\ shaker'[c] = shaker[c] /\ mynum'[c] = mynum[c] /\ opnum'[c] = opnum[c]

\* GetSharedSecret and the reset.
Files(c) ==
    /\ hstate[c] # "idle" /\ hstate'[c] = "idle" /\ status'[c] = "up" /\ status[c] = "up"
    /\ shaker[c] \in Peers \ known[c] /\ shaker'[c] = Null /\ opnum'[c] = Zero
    /\ opnum[c] \in Num /\ opnum[c].by # c /\ NameOf(opnum[c].by) = shaker[c]
    /\ known'[c] = known[c] \cup {shaker[c]}
    /\ session'[c][shaker[c]] = ClientKey(SharedSecret(mynum[c], opnum[c]))
    /\ \A p \in Peers \ {shaker[c]} : session'[c][p] = session[c][p]

\* A leave notice.
Drops(c) ==
    /\ HsSame(c) /\ inbox[c] # <<>> /\ Head(inbox[c]).type = "leave"
    /\ known'[c] = known[c] \ {Head(inbox[c]).body.name}
    /\ \A p \in Peers : session'[c][p] = IF p = Head(inbox[c]).body.name
                                         THEN NoKey ELSE session[c][p]

MachineMove(c) ==
    \/ HsSame(c) /\ DicSame(c)
    \/ Joins(c) \/ Begins(c) \/ Completes(c) \/ Asks(c) \/ Files(c) \/ Drops(c)

\* A handshake that ends in a session.
LEMMA FilesSession ==
    ASSUME ClientsTyped, NEW c \in Clients, ClientInv(c), TaskNext(c),
           SetMyState_ToIdle(c), hstate[c] # "idle", status'[c] = "up", status[c] = "up"
    PROVE  Files(c)
<1>1. MachineType /\ DictType /\ Engaged(c)
  BY DEF ClientInv, ClientsTyped
<1>2. /\ hstate'[c] = "idle" /\ shaker'[c] = Null /\ opnum'[c] = Zero
  BY <1>1 DEF SetMyState_ToIdle, ResetMachine, SetHState, MachineType
<1>3. mynum[c] # Zero /\ shaker[c] \in Peers
  BY <1>1 DEF Engaged
<1>4. mynum'[c] = Zero
  BY <1>1 DEF SetMyState_ToIdle, ResetMachine, MachineType
<1>5. ~UNCHANGED mynum /\ (DrawNumber(c) => FALSE)
  BY <1>1, <1>3, <1>4, PeerFacts DEF DrawNumber, MachineType
<1>6. (\E who : RemoveData(c, who)) /\ UNCHANGED <<draws, mynum>> => FALSE
  BY <1>5
<1>7. /\ CanAdd(c, shaker[c]) /\ opnum[c] \in Num /\ opnum[c].by # c
      /\ NameOf(opnum[c].by) = shaker[c]
  BY <1>5, SessionMoves DEF SessionMove
<1>8. /\ known'[c] = known[c] \cup {shaker[c]}
      /\ session'[c][shaker[c]] = ClientKey({mynum[c], opnum[c]})
      /\ \A p \in Peers \ {shaker[c]} : session'[c][p] = session[c][p]
  BY <1>7, NewSession
<1> QED
  BY <1>2, <1>3, <1>7, <1>8 DEF Files, CanAdd, SharedSecret

\* Every step is one of these moves.
LEMMA MachineMoves ==
    ASSUME ClientsTyped, NEW c \in Clients, ClientInv(c), TaskNext(c)
    PROVE  MachineMove(c)
<1>1. MachineType /\ DictType /\ QueueType /\ DhWakeup(c) /\ Unborn(c) /\ Engaged(c)
  BY DEF ClientInv, ClientsTyped
<1>2. CASE UNCHANGED hsVars /\ UNCHANGED <<known, session>>
  BY <1>2 DEF MachineMove, HsSame, DicSame
<1>3. CASE Connect(c)
  <2>1. Joins(c)
    BY <1>1, <1>3 DEF Connect, SetMyState_ToSendDH, SetHState, Unborn, MachineType, DictType,
       Joins
  <2> QED  BY <2>1 DEF MachineMove
<1>4. CASE RecvDh(c)
  <2>1. inbox[c] # <<>> /\ Head(inbox[c]).type = "dh" /\ UNCHANGED <<known, session>>
    BY <1>4 DEF RecvDh, Receiving
  <2>2. CASE UNCHANGED hsVars
    BY <1>2, <2>1, <2>2
  <2>3. CASE hstate[c] = "idle"
    <3>1. Begins(c)
      BY <1>1, <1>4, <2>1, <2>3 DEF RecvDh, IsAnswer, SetMyState_ToSendDH, SetHState,
         MachineType, Begins, DicSame
    <3> QED  BY <3>1 DEF MachineMove
  <2>4. CASE hstate[c] # "idle" /\ ~UNCHANGED hsVars
    <3>1. /\ hstate[c] = "waiting_for_rcv_dh" /\ SetMyState_ToRcvedDH(c)
          /\ opnum' = [opnum EXCEPT ![c] = Head(inbox[c]).body] /\ UNCHANGED shaker
      BY <1>4, <2>4 DEF RecvDh, IsAnswer
    <3>2. mynum[c] # Zero
      BY <1>1, <2>4 DEF Engaged
    <3>3. mynum'[c] = mynum[c] /\ hstate'[c] = "rcved_dh" /\ opnum'[c] = Head(inbox[c]).body
      BY <1>1, <3>1, <3>2 DEF SetMyState_ToRcvedDH, DrawNumber, SetHState, MachineType
    <3>4. Completes(c)
      BY <2>1, <3>1, <3>3 DEF Completes, DicSame
    <3> QED  BY <3>4 DEF MachineMove
  <2> QED  BY <2>2, <2>3, <2>4
<1>5. CASE RecvEnter(c)
  <2>1. inbox[c] # <<>> /\ Head(inbox[c]).type = "enter" /\ UNCHANGED <<known, session>>
    BY <1>5 DEF RecvEnter, Receiving, Fault
  <2>2. CASE UNCHANGED hsVars
    BY <1>2, <2>1, <2>2
  <2>3. CASE ~UNCHANGED hsVars
    <3>1. Begins(c)
      BY <1>1, <1>5, <2>1, <2>3 DEF RecvEnter, SetMyState_ToSendDH, SetHState, Fault,
         MachineType, Begins, DicSame
    <3> QED  BY <3>1 DEF MachineMove
  <2> QED  BY <2>2, <2>3
<1>6. CASE RecvLeave(c)
  <2>1. inbox[c] # <<>> /\ Head(inbox[c]).type = "leave" /\ UNCHANGED hsVars
    BY <1>6 DEF RecvLeave, Receiving, Fault
  <2>2. UNCHANGED dicVars \/ RemoveData(c, Head(inbox[c]).body.name)
    BY <1>6 DEF RecvLeave, Fault
  <2>3. CASE RemoveData(c, Head(inbox[c]).body.name)
    <3>1. Drops(c)
      BY <1>1, <2>1, <2>3 DEF RemoveData, DictType, Drops, HsSame
    <3> QED  BY <3>1 DEF MachineMove
  <2> QED  BY <1>2, <2>1, <2>2, <2>3
<1>7. CASE HTake(c)
  <2>1. status[c] = "up" /\ dhq[c] # <<>>
    BY <1>7 DEF HTake
  <2>2. hstate[c] = "send_dh"
    BY <1>1, <2>1 DEF DhWakeup
  <2>3. CASE HRequest(c)
    <3>1. Asks(c)
      BY <1>1, <2>2, <2>3 DEF HRequest, SetHState, MachineType, Asks, DicSame
    <3> QED  BY <3>1 DEF MachineMove
  <2>4. CASE SetMyState_ToIdle(c) /\ UNCHANGED status
    <3>1. Files(c)
      BY <2>1, <2>2, <2>4, FilesSession
    <3> QED  BY <3>1 DEF MachineMove
  <2> QED
    BY <1>2, <1>7, <2>2, <2>3, <2>4 DEF HTake, HRespond
<1>8. CASE HDone(c)
  <2>1. status[c] = "up" /\ hstate[c] = "rcved_dh"
    BY <1>8 DEF HDone
  <2>2. CASE SetMyState_ToIdle(c) /\ UNCHANGED status
    <3>1. Files(c)
      BY <2>1, <2>2, FilesSession
    <3> QED  BY <3>1 DEF MachineMove
  <2> QED
    BY <1>2, <1>8, <2>2 DEF HDone, Fault
<1>9. CASE RecvSenderKey(c)
  BY <1>2, <1>9 DEF RecvSenderKey, Fault
<1> QED
  BY <1>2, <1>3, <1>4, <1>5, <1>6, <1>7, <1>8, <1>9, StepFrame DEF Frame

-----------------------------------------------------------------------------
(* What a client does with numbers *)

\* A session that is made or being made stays what it is while the peer stays.
LEMMA CommittedKept ==
    ASSUME GroupInv, NEW c \in Clients, TaskNext(c), NEW p \in Peers, p # Nick[c],
           Present(p), NEW x, Committed(c, p, x)
    PROVE  Committed(c, p, x)'
<1>1. /\ ClientsTyped /\ ClientInv(c) /\ DictType
      /\ \A d \in Clients \ {c} : LeaveTold(d, c)
  BY DEF GroupInv, Pair, ClientsTyped
<1>2. CASE HsSame(c) /\ DicSame(c)
  BY <1>2 DEF Committed, HsSame, DicSame
<1>3. CASE Joins(c)
  BY <1>3 DEF Committed, Joins
<1>4. CASE Begins(c)
  BY <1>4 DEF Committed, Begins, DicSame
<1>5. CASE Completes(c) \/ Asks(c)
  BY <1>5 DEF Committed, Completes, Asks, DicSame
<1>6. CASE Files(c)
  <2>1. session'[c][shaker[c]].secret = {mynum[c], opnum[c]}
    BY <1>6 DEF Files, ClientKey, SharedSecret
  <2>2. CASE p \in known[c]
    <3>1. p \in known'[c] /\ session'[c][p] = session[c][p]
      BY <1>6, <2>2 DEF Files
    <3> QED  BY <2>2, <3>1 DEF Committed
  <2>3. CASE p \notin known[c]
    <3>1. p = shaker[c] /\ x = mynum[c] /\ p \in known'[c]
      BY <1>6, <2>3 DEF Committed, Files
    <3> QED  BY <2>1, <3>1 DEF Committed
  <2> QED  BY <2>2, <2>3
<1>7. CASE Drops(c)
  <2> DEFINE m == Head(inbox[c])
  <2>1. m \in LeaveMsgs /\ m = inbox[c][1] /\ 1 \in 1..Len(inbox[c]) /\ m.type = "leave"
    BY <1>1, <1>7, HeadOfInbox, MessageKinds DEF Drops
  <2>2. m.body.name # p
    <3>1. CASE p = "server"
      <4>1. m.body.name \in Names \cup {Null}
        BY <2>1 DEF LeaveMsgs
      <4> QED  BY <3>1, <4>1, PeerFacts
    <3>2. CASE p # "server"
      <4>1. PICK d \in Clients : Nick[d] = p /\ Here(d)
        BY <3>2 DEF Present
      <4>2. LeaveTold(d, c)
        BY <1>1, <4>1
      <4> QED  BY <2>1, <4>1, <4>2 DEF LeaveTold
    <3> QED  BY <3>1, <3>2
  <2>3. /\ p \in known'[c] <=> p \in known[c]
        /\ session'[c][p] = session[c][p] /\ HsSame(c)
    BY <1>7, <2>2 DEF Drops
  <2> QED  BY <2>3 DEF Committed, HsSame
<1> QED
  BY <1>1, <1>2, <1>3, <1>4, <1>5, <1>6, <1>7, MachineMoves DEF MachineMove

\* A client has the numbers of others from its socket only.
LEMMA KeptStep ==
    ASSUME ClientsTyped, NEW c \in Clients, ClientInv(c), TaskNext(c),
           NEW x \in Kept(c)', x # Zero, x.by # c
    PROVE  \/ x \in Kept(c)
           \/ inbox[c] # <<>> /\ Head(inbox[c]).type = "dh" /\ x = Head(inbox[c]).body
<1>1. DictType /\ Engaged(c)
  BY DEF ClientsTyped, ClientInv
<1>2. CASE x = opnum'[c]
  BY <1>2, MachineMoves DEF MachineMove, HsSame, Joins, Begins, Completes, Asks, Files, Drops,
     Kept
<1>3. ASSUME NEW p \in Peers, x \in session'[c][p].secret
      PROVE  x \in Kept(c)
  <2>1. session'[c][p] = session[c][p] => x \in Kept(c)
    BY <1>3 DEF Kept
  <2>2. CASE ~Files(c) /\ ~Drops(c)
    BY <2>1, <2>2, MachineMoves DEF MachineMove, DicSame, Joins, Begins, Completes, Asks
  <2>3. CASE Files(c)
    <3>1. session'[c][shaker[c]].secret = {mynum[c], opnum[c]}
      BY <2>3 DEF Files, ClientKey, SharedSecret
    <3>2. mynum[c].by = c
      BY <1>1, <2>3 DEF Files, Engaged
    <3>3. CASE p = shaker[c]
      BY <1>3, <3>1, <3>2, <3>3 DEF Kept
    <3> QED  BY <2>1, <2>3, <3>3 DEF Files
  <2>4. CASE Drops(c)
    <3>1. NoKey.secret = {}
      BY DEF NoKey
    <3> QED  BY <1>3, <2>1, <2>4, <3>1 DEF Drops
  <2> QED  BY <2>2, <2>3, <2>4
<1> QED
  BY <1>2, <1>3 DEF Kept

LEMMA HeardStep ==
    ASSUME ClientsTyped, NEW c \in Clients, ClientInv(c), TaskNext(c),
           NEW x \in Heard(c)', x # Zero, x.by # c
    PROVE  x \in Heard(c)
<1>1. CASE x \in Kept(c)'
  <2>1. CASE x \in Kept(c)
    BY <2>1 DEF Heard
  <2>2. CASE inbox[c] # <<>> /\ Head(inbox[c]).type = "dh" /\ x = Head(inbox[c]).body
    BY <2>2, HeadOfInbox DEF Heard, Coming
  <2> QED  BY <1>1, <2>1, <2>2, KeptStep
<1>2. CASE x \in Coming(c)'
  <2>1. PICK i \in 1..Len(inbox'[c]) : inbox'[c][i].type = "dh" /\ x = inbox'[c][i].body
    BY <1>2 DEF Coming
  <2>2. \E j \in 1..Len(inbox[c]) : inbox[c][j].type = "dh" /\ x = inbox[c][j].body
    BY <2>1, ClientReads DEF Reads
  <2> QED  BY <2>2 DEF Heard, Coming
<1> QED  BY <1>1, <1>2 DEF Heard

\* What is in a client's socket and in its dictionary is Heard.
LEMMA InHeard ==
    ASSUME NEW c \in Clients
    PROVE  /\ Kept(c) \subseteq Heard(c)
           /\ opnum[c] \in Kept(c)
           /\ \A p \in Peers : session[c][p].secret \subseteq Kept(c)
           /\ \A i \in 1..Len(inbox[c]) : inbox[c][i].type = "dh" => inbox[c][i].body \in Heard(c)
  BY DEF Heard, Kept, Coming

\* A number is some process's; Zero is nobody's.
LEMMA ByOf ==
    ASSUME NEW x, x.by \in Clients \cup {"server"}
    PROVE  x # Zero
  BY ProtocolAssumption DEF Zero

-----------------------------------------------------------------------------
(* A step of one client: what it means for the whole *)

LEMMA ClientStepFacts ==
    ASSUME GroupInv, NEW b \in Clients, ClientStep(b)
    PROVE  /\ TaskNext(b) /\ ClientsTyped' /\ UNCHANGED <<serverVars, serverUp>>
           /\ \A c \in Clients : ClientInv(c)'
           /\ \A c \in Clients \ {b} : Untouched(c)
           /\ \A c \in Clients : Here(c)' => Here(c)
           /\ MachineMove(b) /\ Reads(b) /\ Sends(b)
<1>1. /\ TaskNext(b) /\ ClientsTyped /\ \A c \in Clients : ClientInv(c)
      /\ ForItsSession(b, hmsg[b])
  BY DEF ClientStep, GroupInv, Single, SentHonestly
<1>2. ClientsTyped' /\ ClientInv(b)'
  BY <1>1, ClientStepKeeps
<1>3. \A c \in Clients \ {b} : Untouched(c)
  BY <1>1, OthersUntouched
<1>4. \A c \in Clients \ {b} : ClientInv(c)'
  BY <1>1, <1>3, UntouchedKeeps
<1>5. \A c \in Clients : Here(c)' => Here(c)
  <2> TAKE c \in Clients
  <2>1. CASE c = b
    BY <1>1, <2>1, HereStep
  <2>2. CASE c # b
    BY <1>3, <2>2 DEF Untouched, Here
  <2> QED  BY <2>1, <2>2
<1>6. MachineMove(b) /\ Reads(b) /\ Sends(b)
  BY <1>1, MachineMoves, ClientReads, ClientSends
<1>7. UNCHANGED <<serverVars, serverUp>>
  BY <1>1, StepFrame DEF ClientStep, Frame
<1> QED
  BY <1>1, <1>2, <1>3, <1>4, <1>5, <1>6, <1>7

\* Sessions are given up when the peer goes, and it goes once.
LEMMA PresentStep ==
    ASSUME \A d \in Clients : Here(d)' => Here(d), NEW p, Present(p)'
    PROVE  Present(p)
  BY DEF Present

\* To the server, a client's step is one from outside.
LEMMA ClientIsOutside ==
    ASSUME GroupInv, NEW b \in Clients, ClientStep(b)
    PROVE  Outside
<1>1. /\ TaskNext(b) /\ UNCHANGED <<serverVars, serverUp>> /\ Sends(b)
      /\ ClientsTyped'
  BY ClientStepFacts
<1>2. NetType /\ NetType'
  BY <1>1 DEF GroupInv, ClientsTyped
<1>3. LinkMove
  <2>1. CASE Connect(b)
    BY <1>2, <2>1 DEF Connect, NetConnect, NetType, LinkMove, Link
  <2>2. CASE Exit(b)
    BY <1>2, <2>2 DEF Exit, NetClose, NetType, LinkMove, Link
  <2>3. CASE UNCHANGED link
    BY <1>2, <2>3 DEF NetType, LinkMove
  <2> QED  BY <1>1, <2>1, <2>2, <2>3, StepFrame DEF Frame
<1>4. BacklogMove /\ (backlog # <<>> => backlog' # <<>>)
  <2>1. CASE Connect(b)
    <3>1. link'[b] = "open" /\ backlog' = Append(backlog, b) /\ backlog \in Seq(Clients)
      BY <1>2, <2>1 DEF Connect, NetConnect, NetType
    <3>2. backlog' # <<>>
      BY <3>1, AppendNotEmpty
    <3> QED  BY <3>1, <3>2 DEF BacklogMove
  <2>2. CASE UNCHANGED backlog
    BY <2>2 DEF BacklogMove
  <2>3. CASE Exit(b)
    BY <2>2, <2>3 DEF Exit, NetClose
  <2> QED  BY <1>1, <2>1, <2>2, <2>3, StepFrame DEF Frame
<1>5. OutboxMove /\ \A c \in Clients : outbox[c] # <<>> => outbox'[c] # <<>>
  <2>1. CASE UNCHANGED outbox
    BY <2>1 DEF OutboxMove
  <2>2. ASSUME NEW m \in Message, outbox' = [outbox EXCEPT ![b] = Append(@, m)],
               m.from = Nick[b]
        PROVE  OutboxMove /\ \A c \in Clients : outbox[c] # <<>> => outbox'[c] # <<>>
    <3>1. OutboxMove
      BY <2>2 DEF OutboxMove
    <3>2. outbox[b] \in Seq(Message)
      BY <1>2 DEF NetType
    <3>3. Append(outbox[b], m) # <<>>
      BY <2>2, <3>2
    <3> QED  BY <1>2, <2>2, <3>1, <3>3 DEF NetType
  <2> QED  BY <1>1, <2>1, <2>2 DEF Sends
<1> QED
  BY <1>1, <1>2, <1>3, <1>4, <1>5 DEF Outside, WireMove, NetType

\* Committed, for any of the clients.
LEMMA CommittedStep ==
    ASSUME GroupInv, NEW b \in Clients, ClientStep(b), NEW c \in Clients,
           NEW p \in Peers, p # Nick[c], Present(p), NEW x, Committed(c, p, x)
    PROVE  Committed(c, p, x)'
<1>1. CASE c = b
  BY <1>1, ClientStepFacts, CommittedKept
<1>2. CASE c # b
  <2>1. Untouched(c)
    BY <1>2, ClientStepFacts
  <2> QED  BY <2>1 DEF Untouched, Committed
<1> QED  BY <1>1, <1>2

\* A message that was for its session still is.
LEMMA ForItsSessionStep ==
    ASSUME GroupInv, NEW b \in Clients, ClientStep(b), NEW c \in Clients,
           NEW m \in Message \cup {NoMsg}, ForItsSession(c, m)
    PROVE  ForItsSession(c, m)'
<1>1. SUFFICES ASSUME m.type = "dh" PROVE ForItsSession(c, m)'
  BY DEF ForItsSession
<1>2. m \in DhMsgs
  BY <1>1, MessageKinds DEF NoMsg, BuildJson
<1>3. m.to \in Peers
  BY <1>2 DEF DhMsgs
<1>4. Present(m.to)' => Present(m.to)
  BY ClientStepFacts, PresentStep
<1>5. Present(m.to)' => Committed(c, m.to, m.body)'
  BY <1>1, <1>3, <1>4, CommittedStep DEF ForItsSession
<1> QED
  BY <1>1, <1>5 DEF ForItsSession

\* What H has built, and when.
LEMMA BuiltStep ==
    ASSUME ClientsTyped, NEW b \in Clients, ClientInv(b), TaskNext(b)
    PROVE  \/ hmsg'[b] = hmsg[b] \/ hmsg'[b] = NoMsg
           \/ /\ HTake(b) /\ status[b] = "up" /\ hstate[b] = "send_dh"
              /\ hmsg'[b] = BuildJson("dh", Nick[b], shaker[b], mynum[b])
              /\ \/ Asks(b) /\ dhq[b] = <<"send_first">>
                 \/ Files(b) /\ dhq[b] = <<"rcv_first">>
<1>1. MachineType /\ QueueType /\ LocalType /\ DhWakeup(b)
  BY DEF ClientsTyped, ClientInv
<1>2. CASE UNCHANGED hVars
  BY <1>2
<1>3. CASE HAnswer(b) \/ HResend(b) \/ HDone(b) \/ HCheck(b) \/ HStartKey(b) \/ HPutKey(b)
  BY <1>1, <1>3 DEF LocalType, HAnswer, HResend, HDone, HCheck, HStartKey, HPutKey, Fault
<1>4. CASE HTake(b)
  <2>1. status[b] = "up" /\ dhq[b] # <<>>
    BY <1>4 DEF HTake
  <2>2. hstate[b] = "send_dh"
    BY <1>1, <2>1 DEF DhWakeup
  <2>3. PICK t \in Token : dhq[b] = <<t>>
    BY <1>1, <2>1 DEF QueueType
  <2>4. Head(dhq[b]) = t /\ (t = "send_first" \/ t = "rcv_first")
    BY <2>3 DEF Token
  <2>5. CASE t = "send_first"
    <3>1. HRequest(b)
      BY <1>4, <2>2, <2>4, <2>5 DEF HTake
    <3>2. hmsg'[b] = BuildJson("dh", Nick[b], shaker[b], mynum[b])
      BY <1>1, <3>1 DEF HRequest, LocalType
    <3>3. Asks(b)
      BY <1>1, <2>2, <3>1 DEF HRequest, SetHState, MachineType, Asks, DicSame
    <3> QED  BY <1>4, <2>1, <2>2, <2>3, <2>5, <3>2, <3>3
  <2>6. CASE t = "rcv_first"
    <3>1. HRespond(b)
      BY <1>4, <2>2, <2>4, <2>6 DEF HTake
    <3>2. CASE UNCHANGED hVars
      BY <3>2
    <3>3. CASE ~UNCHANGED hVars
      <4>1. SetMyState_ToIdle(b) /\ UNCHANGED status
            /\ hmsg' = [hmsg EXCEPT ![b] = BuildJson("dh", Nick[b], shaker[b], mynum[b])]
        BY <3>1, <3>3 DEF HRespond
      <4>2. Files(b)
        BY <2>1, <2>2, <4>1, FilesSession
      <4>3. hmsg'[b] = BuildJson("dh", Nick[b], shaker[b], mynum[b])
        BY <1>1, <4>1 DEF LocalType
      <4> QED  BY <1>4, <2>1, <2>2, <2>3, <2>6, <4>2, <4>3
    <3> QED  BY <3>2, <3>3
  <2> QED  BY <2>4, <2>5, <2>6
<1> QED
  BY <1>2, <1>3, <1>4, StepFrame DEF Frame

\* The server's entry stays, and only H makes it.
LEMMA ServerEntry ==
    ASSUME ClientsTyped, NEW b \in Clients, ClientInv(b), TaskNext(b)
    PROVE  /\ "server" \in known[b] => "server" \in known'[b]
           /\ "server" \in known'[b] => "server" \in known[b] \/ HTake(b) \/ HDone(b)
<1>1. DictType /\ "server" # Nick[b] /\ Unborn(b)
  BY PeerFacts DEF ClientsTyped, ClientInv
<1>2. CASE UNCHANGED known
  BY <1>2
<1>3. CASE Connect(b)
  BY <1>1, <1>3 DEF Connect, DictType, Unborn
<1>4. CASE RecvLeave(b)
  <2>1. inbox[b] # <<>> /\ Head(inbox[b]).type = "leave"
    BY <1>4 DEF RecvLeave, Receiving
  <2>2. Head(inbox[b]).body.name # "server"
    <3>1. Head(inbox[b]) \in LeaveMsgs
      BY <2>1, HeadOfInbox, MessageKinds
    <3> QED  BY <3>1, ProtocolAssumption, PeerFacts DEF LeaveMsgs
  <2> QED
    BY <1>1, <1>4, <2>2 DEF RecvLeave, RemoveData, Fault, DictType
<1>5. CASE HTake(b) \/ HDone(b)
  BY <1>1, <1>5 DEF HTake, HRequest, HRespond, HDone, Fault, SetMyState_ToIdle,
     GetSharedSecret, DictType
<1>6. CASE RecvSenderKey(b)
  BY <1>6 DEF RecvSenderKey, Fault
<1> QED
  BY <1>2, <1>3, <1>4, <1>5, <1>6, StepFrame DEF Frame

-----------------------------------------------------------------------------
(* A step of one client: its own part of the invariant *)

LEMMA LinkedStep ==
    ASSUME GroupInv, NEW b \in Clients, ClientStep(b)
    PROVE  Linked(b)'
<1>1. /\ TaskNext(b) /\ ClientsTyped /\ ClientInv(b) /\ NetType /\ MachineType /\ Linked(b)
  BY DEF ClientStep, GroupInv, Single, ClientsTyped
<1>2. status'[b] # "off"
  BY <1>1, StatusStep
<1>3. CASE Connect(b)
  <2>1. status'[b] = "up" /\ link'[b] = "open"
    BY <1>1, <1>3 DEF Connect, NetConnect, NetType, MachineType
  <2> QED  BY <2>1 DEF Linked
<1>4. CASE Exit(b)
  <2>1. status'[b] = "closed" /\ link'[b] = "shut"
    BY <1>1, <1>4 DEF Exit, NetClose, NetType, MachineType
  <2> QED  BY <2>1 DEF Linked
<1>5. CASE ~Connect(b) /\ ~Exit(b)
  <2>1. UNCHANGED link
    BY <1>1, <1>5, StepFrame DEF Frame
  <2>2. status'[b] = status[b] \/ (status[b] = "up" /\ status'[b] \in {"quit", "faulted"})
    <3>1. Fault(b) => status'[b] = "faulted"
      BY <1>1 DEF Fault, MachineType
    <3>2. CASE UNCHANGED status
      BY <3>2
    <3>3. CASE RecvMessage(b) \/ RecvSenderKey(b) \/ RecvEnter(b) \/ RecvLeave(b)
      BY <3>1, <3>3 DEF RecvMessage, RecvSenderKey, RecvEnter, RecvLeave, Receiving
    <3>4. CASE RecvClosed(b) \/ HDone(b) \/ HCheck(b) \/ KReadKey(b) \/ SendFails(b)
      BY <3>1, <3>4 DEF RecvClosed, HDone, HCheck, KReadKey, SendFails
    <3>5. CASE HTake(b) \/ InputQuit(b)
      BY <1>1, <3>5 DEF HTake, HRequest, HRespond, InputQuit, MachineType
    <3> QED
      BY <1>1, <1>5, <3>2, <3>3, <3>4, <3>5, StepFrame DEF Frame
  <2>3. status[b] # "off"
    BY <1>2, <2>2
  <2> QED
    BY <1>1, <1>2, <2>1, <2>2, <2>3 DEF Linked
<1> QED  BY <1>3, <1>4, <1>5

\* The number H sends is the one it will derive the key from, or just has.
LEMMA SentStep ==
    ASSUME GroupInv, NEW b \in Clients, ClientStep(b)
    PROVE  SentHonestly(b)'
<1>1. /\ TaskNext(b) /\ ClientsTyped /\ ClientInv(b) /\ NetType /\ LocalType /\ Engaged(b)
      /\ SentHonestly(b) /\ SecondRefused(b) /\ NotSelf(b)
  BY DEF ClientStep, GroupInv, Single, ClientsTyped, ClientInv
<1>2. ForItsSession(b, NoMsg)'
  BY DEF ForItsSession, NoMsg, BuildJson
<1>3. hmsg[b] \in Message \cup {NoMsg}
  BY <1>1 DEF LocalType, Message
<1>4. ForItsSession(b, hmsg[b]) /\ outbox[b] \in Seq(Message)
  BY <1>1 DEF SentHonestly, NetType
<1>5. ASSUME NEW m, m = hmsg'[b] PROVE ForItsSession(b, m)'
  <2>1. CASE m = hmsg[b]
    BY <1>3, <1>4, <2>1, ForItsSessionStep
  <2>2. CASE m = NoMsg
    BY <1>2, <2>2
  <2>3. CASE /\ hstate[b] = "send_dh"
             /\ m = BuildJson("dh", Nick[b], shaker[b], mynum[b])
             /\ \/ Asks(b) /\ dhq[b] = <<"send_first">>
                \/ Files(b)
    <3>1. m.from = Nick[b] /\ m.to = shaker[b] /\ m.body = mynum[b]
      BY <2>3 DEF BuildJson
    <3>2. mynum[b].by = b /\ shaker[b] # Nick[b]
      BY <1>1, <2>3 DEF Engaged, NotSelf
    <3>3. CASE Asks(b) /\ dhq[b] = <<"send_first">>
      <4>1. shaker[b] \notin known[b]
        BY <1>1, <2>3, <3>3 DEF SecondRefused
      <4>2. Committed(b, m.to, m.body)'
        BY <3>1, <3>3, <4>1 DEF Committed, Asks, DicSame
      <4> QED  BY <3>1, <3>2, <4>2 DEF ForItsSession
    <3>4. CASE Files(b)
      <4>1. session'[b][shaker[b]].secret = {mynum[b], opnum[b]} /\ shaker[b] \in known'[b]
        BY <3>4 DEF Files, ClientKey, SharedSecret
      <4>2. Committed(b, m.to, m.body)'
        BY <3>1, <4>1 DEF Committed
      <4> QED  BY <3>1, <3>2, <4>2 DEF ForItsSession
    <3> QED  BY <2>3, <3>3, <3>4
  <2> QED  BY <1>1, <1>5, <2>1, <2>2, <2>3, BuiltStep
<1>6. ForItsSession(b, hmsg[b])'
  BY <1>5 DEF ForItsSession, Committed, Present, Here
<1>7. ASSUME NEW i \in 1..Len(outbox'[b]), NEW m, m = outbox'[b][i]
      PROVE  ForItsSession(b, m)'
  <2>1. CASE UNCHANGED outbox
    <3>1. m \in Message /\ ForItsSession(b, m)
      BY <1>1, <1>4, <1>7, <2>1 DEF SentHonestly
    <3> QED  BY <3>1, ForItsSessionStep
  <2>2. ASSUME NEW y \in Message, outbox' = [outbox EXCEPT ![b] = Append(@, y)],
               y.type = "dh" => y = hmsg[b]
        PROVE  ForItsSession(b, m)'
    <3>1. outbox'[b] = Append(outbox[b], y)
      BY <1>1, <2>2 DEF NetType
    <3>2. \/ i \in 1..Len(outbox[b]) /\ m = outbox[b][i]
          \/ m = y
      BY <1>4, <1>7, <3>1
    <3>3. m \in Message /\ ForItsSession(b, m)
      BY <1>1, <1>4, <2>2, <3>2 DEF SentHonestly, ForItsSession
    <3> QED  BY <3>3, ForItsSessionStep
  <2> QED  BY <2>1, <2>2, ClientStepFacts DEF Sends
<1>8. \A i \in 1..Len(outbox'[b]) : ForItsSession(b, outbox[b][i])'
  BY <1>7 DEF ForItsSession, Committed, Present, Here
<1> QED  BY <1>6, <1>8 DEF SentHonestly

LEMMA ServerBeforePeersStep ==
    ASSUME GroupInv, NEW b \in Clients, ClientStep(b)
    PROVE  ServerBeforePeers(b)'
<1>1. /\ TaskNext(b) /\ ClientsTyped /\ ClientInv(b) /\ NetType /\ LocalType /\ QueueType
      /\ DictType /\ MachineType /\ SecondRefused(b) /\ ServerFirst(b)
  BY DEF ClientStep, GroupInv, Single, ClientsTyped, ClientInv
<1>2. ServerBeforePeers(b) /\ outbox[b] \in Seq(Message)
  BY <1>1 DEF GroupInv, Single, NetType
<1>3. "server" \in known[b] => "server" \in known'[b]
  BY <1>1, ServerEntry
<1>4. ASSUME NEW i \in 1..Len(outbox'[b]), ToPeer(outbox'[b][i])
      PROVE  /\ "server" \in known'[b]
             /\ \A j \in i..Len(outbox'[b]) : ~ToServer(outbox'[b][j])
  <2>1. CASE UNCHANGED outbox
    BY <1>2, <1>3, <1>4, <2>1 DEF ServerBeforePeers
  <2>2. ASSUME NEW y \in Message, outbox' = [outbox EXCEPT ![b] = Append(@, y)],
               y.type = "dh" => y = hmsg[b]
        PROVE  /\ "server" \in known'[b]
               /\ \A j \in i..Len(outbox'[b]) : ~ToServer(outbox'[b][j])
    <3> DEFINE s == outbox[b]
               n == Len(outbox[b])
    <3>1. outbox'[b] = Append(s, y) /\ s \in Seq(Message) /\ n \in Nat /\ n = Len(s)
      BY <1>1, <1>2, <2>2 DEF NetType
    <3>2. y.type = "dh" => (y.to = "server" <=> "server" \notin known[b])
      BY <1>2, <2>2 DEF ServerBeforePeers
    <3>3. \A k \in 1..n : ToPeer(s[k]) =>
             "server" \in known[b] /\ \A j \in k..n : ~ToServer(s[j])
      BY <1>2 DEF ServerBeforePeers
    <3> HIDE DEF s, n
    <3>4. /\ Len(outbox'[b]) = n + 1 /\ outbox'[b][n + 1] = y
          /\ \A j \in 1..n : outbox'[b][j] = s[j]
      BY <3>1
    <3>5. CASE i \in 1..n
      <4>1. "server" \in known[b] /\ \A j \in i..n : ~ToServer(outbox'[b][j])
        BY <1>4, <3>3, <3>4, <3>5
      <4>2. ~ToServer(y)
        BY <3>2, <4>1 DEF ToServer
      <4>3. \A j \in i..(n + 1) : j \in i..n \/ j = n + 1
        BY <3>1, <3>5
      <4> QED  BY <1>3, <3>4, <4>1, <4>2, <4>3
    <3>6. CASE i = n + 1
      <4>1. ToPeer(y)
        BY <1>4, <3>4, <3>6
      <4>2. "server" \in known[b] /\ ~ToServer(y)
        BY <3>2, <4>1 DEF ToPeer, ToServer
      <4>3. \A j \in i..(n + 1) : j = n + 1
        BY <3>1, <3>6
      <4> QED  BY <1>3, <3>4, <4>2, <4>3
    <3>7. i \in 1..n \/ i = n + 1
      BY <1>4, <3>1, <3>4
    <3> QED  BY <3>5, <3>6, <3>7
  <2> QED  BY <2>1, <2>2, ClientStepFacts DEF Sends
<1>5. hmsg'[b].type = "dh" => (hmsg'[b].to = "server" <=> "server" \notin known'[b])
  <2>1. NoMsg.type # "dh"
    BY DEF NoMsg, BuildJson
  <2>2. CASE hmsg'[b] = hmsg[b] /\ ("server" \in known'[b] => "server" \in known[b])
    BY <1>2, <1>3, <2>2 DEF ServerBeforePeers
  <2>3. CASE HTake(b) /\ ~UNCHANGED dicVars
    <3>1. HRespond(b) /\ dhq[b] # <<>> /\ Head(dhq[b]) # "send_first"
      BY <2>3 DEF HTake, HRequest
    <3>2. dhq[b] = <<"rcv_first">>
      BY <1>1, <3>1 DEF QueueType, Token
    <3>3. /\ hmsg'[b] = BuildJson("dh", Nick[b], shaker[b], mynum[b])
          /\ shaker[b] \notin known[b]
      BY <1>1, <2>3, <3>1 DEF HRespond, CanAdd, LocalType
    <3>4. "server" \in known[b]
      BY <1>2, <3>2 DEF ServerBeforePeers
    <3> QED  BY <1>3, <3>3, <3>4 DEF BuildJson
  <2>4. CASE HTake(b) /\ UNCHANGED dicVars
    <3>1. ~Files(b)
      BY <2>4 DEF Files
    <3>2. CASE /\ HTake(b) /\ status[b] = "up" /\ hstate[b] = "send_dh"
               /\ hmsg'[b] = BuildJson("dh", Nick[b], shaker[b], mynum[b])
               /\ dhq[b] = <<"send_first">>
      <4>1. shaker[b] \notin known[b]
        BY <1>1, <3>2 DEF SecondRefused
      <4>2. "server" \in known[b] \/ shaker[b] = "server"
        BY <1>1, <3>2 DEF ServerFirst
      <4> QED  BY <2>4, <3>2, <4>1, <4>2 DEF BuildJson
    <3> QED  BY <1>1, <2>1, <2>2, <2>4, <3>1, <3>2, BuiltStep
  <2>5. CASE HDone(b)
    <3>1. hmsg'[b] = NoMsg \/ Fault(b)
      BY <1>1, <2>5 DEF HDone, LocalType
    <3> QED  BY <2>1, <2>2, <3>1 DEF Fault
  <2>6. CASE ~HTake(b) /\ ~HDone(b)
    <3>1. "server" \in known'[b] => "server" \in known[b]
      BY <1>1, <2>6, ServerEntry
    <3>2. hmsg'[b] = hmsg[b] \/ hmsg'[b] = NoMsg
      BY <1>1, <2>6, BuiltStep
    <3> QED  BY <2>1, <2>2, <3>1, <3>2
  <2> QED  BY <2>3, <2>4, <2>5, <2>6
<1>6. ASSUME "server" \notin known'[b]
      PROVE  dhq'[b] # <<"rcv_first">> /\ rpc'[b] # "put_dh"
  <2>1. "server" \notin known[b] /\ dhq[b] # <<"rcv_first">> /\ rpc[b] # "put_dh"
    BY <1>2, <1>3, <1>6 DEF ServerBeforePeers
  <2>2. status[b] = "up" => hstate[b] # "idle"
    BY <1>1, <2>1 DEF ServerFirst
  <2>3. dhq'[b] # <<"rcv_first">>
    <3>1. CASE UNCHANGED dhq
      BY <2>1, <3>1
    <3>2. CASE Connect(b)
      <4>1. dhq'[b] = <<"send_first">>
        BY <1>1, <3>2 DEF Connect, QueueType
      <4> QED  BY <4>1
    <3>3. CASE PutDh(b)
      BY <2>1, <3>3 DEF PutDh
    <3>4. CASE HTake(b)
      BY <1>1, <3>4 DEF HTake, QueueType
    <3> QED  BY <1>1, <3>1, <3>2, <3>3, <3>4, StepFrame DEF Frame
  <2>4. rpc'[b] # "put_dh"
    <3>1. CASE UNCHANGED rVars
      BY <2>1, <3>1
    <3>2. CASE RecvDh(b) \/ RecvEnter(b)
      BY <2>1, <2>2, <3>2 DEF RecvDh, RecvEnter, Receiving, Fault
    <3>3. CASE RecvSenderKey(b) \/ PutDh(b) \/ PutKey(b)
      BY <1>1, <2>1, <3>3 DEF RecvSenderKey, PutDh, PutKey, Fault, LocalType
    <3> QED  BY <1>1, <3>1, <3>2, <3>3, StepFrame DEF Frame
  <2> QED  BY <2>3, <2>4
<1> QED
  BY <1>4, <1>5, <1>6 DEF ServerBeforePeers, ToPeer, ToServer

\* A handshake is begun for a name only when there is no session under it yet,
\* or it is an answer, which HRespond refuses.
LEMMA SecondRefusedStep ==
    ASSUME GroupInv, DistinctNicks, NEW b \in Clients, ClientStep(b)
    PROVE  SecondRefused(b)'
<1>1. /\ TaskNext(b) /\ ClientsTyped /\ ClientInv(b) /\ LocalType /\ QueueType
      /\ MachineType /\ SecondRefused(b) /\ DhWakeup(b) /\ NotSelf(b) /\ MachineMove(b)
  BY ClientStepFacts DEF ClientStep, GroupInv, Single, ClientsTyped, ClientInv
<1>2. SUFFICES ASSUME hstate'[b] # "idle", shaker'[b] \in known'[b]
               PROVE  /\ hstate'[b] = "send_dh" /\ dhq'[b] # <<"send_first">>
                      /\ rpc'[b] = "put_dh" => rtok'[b] = "rcv_first"
  BY DEF SecondRefused
<1>3. CASE HsSame(b) /\ (DicSame(b) \/ Drops(b))
  <2>1. /\ hstate[b] = "send_dh" /\ dhq[b] # <<"send_first">> /\ hstate'[b] = "send_dh"
        /\ rpc[b] = "put_dh" => rtok[b] = "rcv_first"
    BY <1>1, <1>2, <1>3 DEF SecondRefused, HsSame, DicSame, Drops
  <2>2. dhq'[b] # <<"send_first">>
    <3>1. CASE UNCHANGED dhq
      BY <2>1, <3>1
    <3>2. CASE Connect(b)
      BY <1>1, <2>1, <3>2 DEF Connect, ClientInv, Unborn
    <3>3. CASE PutDh(b)
      <4>1. dhq'[b] = <<"rcv_first">>
        BY <1>1, <2>1, <3>3 DEF PutDh, QueueType
      <4> QED  BY <4>1
    <3>4. CASE HTake(b)
      BY <1>1, <3>4 DEF HTake, QueueType
    <3> QED  BY <1>1, <3>1, <3>2, <3>3, <3>4, StepFrame DEF Frame
  <2>3. rpc'[b] = "put_dh" => rtok'[b] = "rcv_first"
    <3>1. CASE UNCHANGED rVars
      BY <2>1, <3>1
    <3>2. CASE RecvDh(b) \/ RecvEnter(b)
      BY <2>1, <3>1, <3>2 DEF RecvDh, RecvEnter, Fault
    <3>3. CASE RecvSenderKey(b) \/ PutDh(b) \/ PutKey(b)
      BY <1>1, <3>1, <3>3 DEF RecvSenderKey, PutDh, PutKey, Fault, LocalType
    <3> QED  BY <1>1, <3>1, <3>2, <3>3, StepFrame DEF Frame
  <2> QED  BY <2>1, <2>2, <2>3
<1>4. CASE Joins(b)
  BY <1>2, <1>4, PeerFacts DEF Joins
<1>5. CASE Completes(b)
  BY <1>1, <1>2, <1>5 DEF Completes, DicSame, SecondRefused
<1>6. CASE Files(b)
  BY <1>2, <1>6 DEF Files
<1>7. CASE Asks(b)
  <2>1. ~UNCHANGED hsVars
    BY <1>7 DEF Asks
  <2>2. HTake(b)
    <3>1. ~Connect(b) /\ ~RecvDh(b) /\ ~RecvEnter(b) /\ ~HDone(b)
      <4>1. hstate[b] = "send_dh" /\ hstate'[b] = "waiting_for_rcv_dh" /\ hstate[b] # hstate'[b]
        BY <1>7 DEF Asks
      <4>2. ~Connect(b)
        BY <1>1, <4>1 DEF Connect, ClientInv, Unborn
      <4>3. ~RecvDh(b) /\ ~RecvEnter(b)
        BY <4>1 DEF RecvDh, IsAnswer, RecvEnter, Fault
      <4>4. ~HDone(b)
        BY <4>1 DEF HDone
      <4> QED  BY <4>2, <4>3, <4>4
    <3> QED  BY <1>1, <2>1, <3>1, StepFrame DEF Frame
  <2>3. status[b] = "up" /\ dhq[b] # <<>> /\ hstate[b] = "send_dh" /\ hstate'[b] # "idle"
    BY <1>2, <1>7, <2>2 DEF HTake, Asks
  <2>4. Head(dhq[b]) = "send_first"
    <3>1. HRespond(b) => FALSE
      <4>1. CASE UNCHANGED hsVars
        BY <2>1, <4>1
      <4>2. CASE SetMyState_ToIdle(b)
        BY <1>1, <2>3, <4>2 DEF SetMyState_ToIdle, ResetMachine, SetHState, MachineType
      <4> QED  BY <4>1, <4>2 DEF HRespond
    <3> QED  BY <2>2, <2>3, <3>1 DEF HTake
  <2>5. dhq[b] = <<"send_first">>
    BY <1>1, <2>3, <2>4 DEF QueueType, Token
  <2>6. shaker[b] \notin known[b]
    BY <1>1, <2>3, <2>5 DEF SecondRefused
  <2> QED  BY <1>2, <1>7, <2>6 DEF Asks, DicSame
<1>8. CASE Begins(b)
  <2>1. hstate[b] = "idle" /\ hstate'[b] = "send_dh" /\ known'[b] = known[b] /\ inbox[b] # <<>>
    BY <1>8 DEF Begins, DicSame
  <2>2. ~UNCHANGED hsVars /\ ~HTake(b) /\ ~HDone(b) /\ ~Connect(b)
    <3>1. ~UNCHANGED hsVars /\ ~HDone(b)
      BY <2>1 DEF HDone
    <3>2. ~HTake(b)
      BY <2>1 DEF HTake
    <3>3. ~Connect(b)
      BY <2>1 DEF Connect, GroupInv, Single, Linked
    <3> QED  BY <3>1, <3>2, <3>3
  <2>3. RecvDh(b) \/ RecvEnter(b)
    BY <1>1, <2>2, StepFrame DEF Frame
  <2>4. dhq'[b] = dhq[b] /\ status[b] = "up" /\ dhq[b] = <<>>
    BY <1>1, <2>1, <2>3 DEF RecvDh, RecvEnter, Receiving, DhWakeup, Fault
  <2>5. CASE RecvDh(b)
    BY <1>1, <2>1, <2>4, <2>5 DEF RecvDh, LocalType, IsAnswer
  <2>6. CASE RecvEnter(b)
    <3> DEFINE m == Head(inbox[b])
    <3>1. /\ m.type = "enter" /\ m = inbox[b][1] /\ 1 \in 1..Len(inbox[b]) /\ m \in EnterMsgs
          /\ shaker'[b] = m.body.name
      BY <1>1, <1>8, <2>6, HeadOfInbox, MessageKinds DEF RecvEnter, Receiving, Begins
    <3>2. PICK d \in Clients : m.body.name = Nick[d]
      BY <3>1 DEF EnterMsgs, Names
    <3>3. d # b
      BY <1>1, <3>1, <3>2 DEF NotSelf
    <3>4. \A x \in Kept(b) : x.by # d
      BY <3>1, <3>2, <3>3 DEF GroupInv, Pair, EnterFirst
    <3>5. Nick[d] # Nick[b] /\ Nick[d] # "server" /\ Nick[d] \in Peers
      BY <3>3, PeerFacts DEF DistinctNicks
    <3>6. Nick[d] \in known[b]
      BY <1>2, <2>1, <3>1, <3>2
    <3>7. PICK theirs \in session[b][Nick[d]].secret :
             theirs \in Num /\ NameOf(theirs.by) = Nick[d]
      BY <1>1, <3>5, <3>6 DEF ClientInv, SessionEndToEnd
    <3>8. theirs.by = d
      <4>1. theirs.by \in Clients \cup {"server"}
        BY <3>7 DEF Num
      <4> QED  BY <3>5, <3>7, <4>1 DEF NameOf, DistinctNicks
    <3>9. theirs \in Kept(b)
      BY <3>5, <3>7, InHeard
    <3> QED  BY <3>4, <3>8, <3>9
  <2> QED  BY <2>3, <2>5, <2>6
<1> QED
  <2>1. Drops(b) => HsSame(b)
    BY DEF Drops
  <2> QED  BY <1>1, <1>3, <1>4, <1>5, <1>6, <1>7, <1>8, <2>1 DEF MachineMove

LEMMA NotSelfStep ==
    ASSUME GroupInv, DistinctNicks, NEW b \in Clients, ClientStep(b)
    PROVE  NotSelf(b)'
<1>1. /\ ClientsTyped /\ ClientInv(b) /\ NotSelf(b) /\ MachineMove(b) /\ Reads(b)
      /\ Nick[b] \in Peers /\ Nick[b] # "server" /\ Nick[b] # Null
  BY ClientStepFacts, PeerFacts DEF GroupInv, Single
<1>2. shaker'[b] # Nick[b]
  <2>1. CASE HsSame(b) \/ Drops(b) \/ Joins(b) \/ Completes(b) \/ Asks(b) \/ Files(b)
    BY <1>1, <2>1 DEF HsSame, Drops, Joins, Completes, Asks, Files, NotSelf
  <2>2. CASE Begins(b)
    <3> DEFINE m == Head(inbox[b])
    <3>1. m = inbox[b][1] /\ 1 \in 1..Len(inbox[b]) /\ m \in Message
      BY <1>1, <2>2, HeadOfInbox DEF Begins
    <3>2. CASE m.type = "dh" /\ shaker'[b] = m.from
      <4>1. NameOf(m.body.by) = m.from /\ m.body.by # b
        BY <1>1, <3>1, <3>2 DEF ClientInv, InboxHonest, OwnNumber
      <4>2. m.body.by \in Clients \cup {"server"}
        BY <3>1, <3>2, MessageKinds DEF DhMsgs, Num
      <4> QED  BY <1>1, <3>2, <4>1, <4>2 DEF NameOf, DistinctNicks
    <3>3. CASE m.type = "enter" /\ shaker'[b] = m.body.name
      BY <1>1, <3>1, <3>3 DEF NotSelf
    <3> QED  BY <2>2, <3>2, <3>3 DEF Begins
  <2> QED  BY <1>1, <2>1, <2>2 DEF MachineMove
<1>3. session'[b][Nick[b]] = NoKey
  <2>1. CASE session'[b] = session[b]
    BY <1>1, <2>1 DEF NotSelf
  <2>2. CASE Files(b)
    BY <1>1, <2>2 DEF Files, NotSelf
  <2>3. CASE Drops(b)
    BY <1>1, <2>3 DEF Drops, NotSelf
  <2> QED
    BY <1>1, <2>1, <2>2, <2>3 DEF MachineMove, DicSame, Joins, Begins, Completes, Asks
<1>4. \A i \in 1..Len(inbox'[b]) :
          inbox'[b][i].type = "enter" => inbox'[b][i].body.name # Nick[b]
  BY <1>1 DEF Reads, NotSelf
<1> QED
  BY <1>2, <1>3, <1>4 DEF NotSelf

LEMMA KeyOfTwoStep ==
    ASSUME GroupInv, NEW b \in Clients, ClientStep(b), NEW c \in Clients
    PROVE  KeyOfTwo(c)'
<1>1. key' = key /\ sdraws' = sdraws /\ KeyOfTwo(c)
  BY ClientStepFacts DEF GroupInv, Single, serverVars, memVars
<1>2. SUFFICES ASSUME key[c] # NoKey PROVE KeyOfTwo(c)'
  BY <1>1 DEF KeyOfTwo
<1>3. PICK x \in key[c].secret, n \in 1..sdraws :
         /\ key[c] = ServerKey(SharedSecret([by |-> "server", n |-> n], x))
         /\ x.by = c /\ Committed(c, "server", x)
  BY <1>1, <1>2 DEF KeyOfTwo
<1>4. "server" \in Peers /\ "server" # Nick[c] /\ Present("server")
  BY PeerFacts DEF Present
<1>5. Committed(c, "server", x)'
  BY <1>3, <1>4, CommittedStep
<1> QED
  BY <1>1, <1>3, <1>5 DEF KeyOfTwo

\* Nobody gets the numbers of others but from its socket.
LEMMA HeardOfOthers ==
    ASSUME GroupInv, NEW b \in Clients, ClientStep(b), NEW c \in Clients,
           NEW x \in Heard(c)', x.by \in Clients \cup {"server"}, x.by # c
    PROVE  x \in Heard(c)
<1>1. CASE c = b
  <2>1. ClientsTyped /\ ClientInv(c) /\ TaskNext(c) /\ x # Zero
    BY <1>1, ByOf DEF GroupInv, ClientStep
  <2> QED  BY <2>1, HeardStep
<1>2. CASE c # b
  <2>1. Untouched(c)
    BY <1>2, ClientStepFacts
  <2> QED  BY <2>1 DEF Untouched, Heard, Kept, Coming
<1> QED  BY <1>1, <1>2

LEMMA SharedOfServer ==
    ASSUME GroupInv, NEW b \in Clients, ClientStep(b), NEW c \in Clients,
           NEW x \in Shared(c)', x.by = "server"
    PROVE  x \in Shared(c)
<1>1. key' = key /\ "server" # c
  BY ClientStepFacts, ProtocolAssumption DEF serverVars, memVars
<1> QED
  BY <1>1, HeardOfOthers DEF Shared

LEMMA PastStep ==
    ASSUME GroupInv, NEW b \in Clients, ClientStep(b), NEW c \in Clients, Past(c)
    PROVE  Past(c)'
<1>1. CASE c # b
  <2>1. Untouched(c)
    BY <1>1, ClientStepFacts
  <2> QED  BY <2>1 DEF Untouched, Past
<1>2. CASE c = b
  <2>1. /\ TaskNext(b) /\ ClientsTyped /\ ClientInv(b) /\ Sends(b) /\ ServerBeforePeers(b)
        /\ NetType
    BY ClientStepFacts DEF GroupInv, Single, ClientsTyped
  <2>2. "server" \in known[b] /\ "server" \in known'[b]
    BY <1>2, <2>1, ServerEntry DEF Past
  <2>3. CASE UNCHANGED outbox
    BY <1>2, <2>2, <2>3 DEF Past
  <2>4. ASSUME NEW y \in Message, outbox' = [outbox EXCEPT ![b] = Append(@, y)],
               y.type = "dh" => y = hmsg[b]
        PROVE  Past(b)'
    <3>1. ~ToServer(y)
      BY <2>1, <2>2, <2>4 DEF ToServer, ServerBeforePeers
    <3>2. outbox'[b] = Append(outbox[b], y) /\ outbox[b] \in Seq(Message)
      BY <2>1, <2>4 DEF NetType
    <3>3. \A i \in 1..Len(outbox'[b]) :
             outbox'[b][i] = y \/ (i \in 1..Len(outbox[b]) /\ outbox'[b][i] = outbox[b][i])
      BY <2>4, <3>2
    <3>4. \A i \in 1..Len(outbox[b]) : ~ToServer(outbox[b][i])
      BY <1>2 DEF Past
    <3> QED  BY <2>2, <3>1, <3>3, <3>4 DEF Past, ToServer
  <2> QED  BY <1>2, <2>1, <2>3, <2>4 DEF Sends
<1> QED  BY <1>1, <1>2

\* Each conjunct about two clients.
LEMMA PairStep ==
    ASSUME GroupInv, DistinctNicks, NEW b \in Clients, ClientStep(b),
           NEW c \in Clients, NEW d \in Clients \ {c}
    PROVE  Pair(c, d)'
<1>1. Pair(c, d)
  BY DEF GroupInv
<1>2. /\ \A e \in Clients : Here(e)' => Here(e)
      /\ d # b => Untouched(d)
      /\ TaskNext(b) /\ ClientsTyped /\ ClientInv(b) /\ Reads(b)
  BY ClientStepFacts DEF GroupInv
<1>3. Nick[d] # Nick[c] /\ Nick[d] \in Peers
  BY PeerFacts DEF DistinctNicks
<1>4. NumbersMeant(c, d)'
  <2>1. SUFFICES ASSUME Here(d)', NEW x \in Heard(d)', x.by = c
                 PROVE  Committed(c, Nick[d], x)'
    BY DEF NumbersMeant
  <2>2. x \in Heard(d) /\ Here(d)
    BY <1>2, <2>1, HeardOfOthers
  <2>3. Committed(c, Nick[d], x) /\ Present(Nick[d])
    BY <1>1, <2>1, <2>2 DEF Pair, NumbersMeant, Present
  <2> QED  BY <1>3, <2>3, CommittedStep
<1>5. HeardAfterwards(c, d)'
  <2>1. SUFFICES ASSUME NEW x \in Heard(d)', x.by = c PROVE Past(c)'
    BY DEF HeardAfterwards
  <2>2. x \in Heard(d)
    BY <2>1, HeardOfOthers
  <2> QED  BY <1>1, <2>1, <2>2, PastStep DEF Pair, HeardAfterwards
<1>6. EnterFirst(c, d)'
  <2>1. CASE d # b
    BY <1>1, <1>2, <2>1 DEF Untouched, Pair, EnterFirst, Kept
  <2>2. CASE d = b
    <3>1. SUFFICES ASSUME NEW i \in 1..Len(inbox'[b]), inbox'[b][i].type = "enter",
                          inbox'[b][i].body.name = Nick[c]
                   PROVE  /\ \A j \in 1..i : inbox'[b][j].type = "dh" =>
                                                inbox'[b][j].body.by # c
                          /\ \A x \in Kept(b)' : x.by # c
      BY <2>2 DEF EnterFirst
    <3> DEFINE k == IF inbox'[b] = inbox[b] THEN i ELSE i + 1
    <3>2. /\ k \in 1..Len(inbox[b]) /\ inbox[b][k] = inbox'[b][i]
          /\ \A j \in 1..i : \E h \in 1..k : inbox'[b][j] = inbox[b][h]
      <4>1. CASE inbox'[b] = inbox[b]
        BY <3>1, <4>1
      <4>2. CASE inbox'[b] # inbox[b]
        <5>1. \A j \in 1..Len(inbox'[b]) :
                 j + 1 \in 1..Len(inbox[b]) /\ inbox'[b][j] = inbox[b][j + 1]
          BY <1>2, <4>2 DEF Reads
        <5>2. \A j \in 1..i : j \in 1..Len(inbox'[b]) /\ j + 1 \in 1..(i + 1)
          BY <3>1
        <5> QED  BY <3>1, <4>2, <5>1, <5>2
      <4> QED  BY <4>1, <4>2
    <3> HIDE DEF k
    <3>3. /\ \A h \in 1..k : inbox[b][h].type = "dh" => inbox[b][h].body.by # c
          /\ \A x \in Kept(b) : x.by # c
      BY <1>1, <2>2, <3>1, <3>2 DEF Pair, EnterFirst
    <3>4. \A x \in Kept(b)' : x.by # c
      <4>1. SUFFICES ASSUME NEW x \in Kept(b)', x.by = c PROVE FALSE
        OBVIOUS
      <4>2. x # Zero /\ x.by # b
        BY <2>2, <4>1, ByOf
      <4>3. inbox[b] # <<>> /\ Head(inbox[b]).type = "dh" /\ x = Head(inbox[b]).body
        BY <1>2, <3>3, <4>1, <4>2, KeptStep
      <4>4. Head(inbox[b]) = inbox[b][1] /\ 1 \in 1..k
        BY <1>2, <3>2, <4>3, HeadOfInbox
      <4> QED  BY <3>3, <4>1, <4>3, <4>4
    <3> QED  BY <3>2, <3>3, <3>4
  <2> QED  BY <2>1, <2>2
<1>7. LeaveTold(c, d)'
  <2>1. CASE d # b
    BY <1>1, <1>2, <2>1 DEF Untouched, Pair, LeaveTold
  <2>2. CASE d = b
    BY <1>1, <1>2, <2>2 DEF Reads, Pair, LeaveTold
  <2> QED  BY <2>1, <2>2
<1>8. ServerNumbersApart(c, d)'
  BY <1>1, SharedOfServer DEF Pair, ServerNumbersApart
<1> QED
  BY <1>4, <1>5, <1>6, <1>7, <1>8 DEF Pair

LEMMA LastNumberStep ==
    ASSUME GroupInv, NEW b \in Clients, ClientStep(b), NEW c \in Clients
    PROVE  LastNumber(c)'
<1>1. key' = key /\ LastNumber(c) /\ "server" # c
  BY ClientStepFacts, ProtocolAssumption DEF GroupInv, Single, serverVars, memVars
<1>2. \A x \in Heard(c)' : x.by = "server" => x \in Heard(c)
  BY <1>1, HeardOfOthers
<1> QED  BY <1>1, <1>2 DEF LastNumber

\* What holds of a client that another client's step leaves alone.
LEMMA SingleUntouched ==
    ASSUME GroupInv, NEW b \in Clients, ClientStep(b), NEW c \in Clients \ {b}
    PROVE  (Linked(c) /\ SentHonestly(c) /\ ServerBeforePeers(c) /\ SecondRefused(c)
            /\ NotSelf(c))'
<1>1. Single(c) /\ Untouched(c) /\ \A p : Present(p)' => Present(p)
  BY ClientStepFacts, PresentStep DEF GroupInv
<1> USE DEF Untouched
<1>2. (Linked(c) /\ ServerBeforePeers(c) /\ SecondRefused(c) /\ NotSelf(c))'
  BY <1>1 DEF Single, Linked, ServerBeforePeers, SecondRefused, NotSelf
<1>3. SentHonestly(c)'
  BY <1>1 DEF Single, SentHonestly, ForItsSession, Committed
<1> QED  BY <1>2, <1>3

\* A step of a client preserves the invariant.
LEMMA ClientKeepsGroup ==
    ASSUME GroupInv, DistinctNicks, NEW b \in Clients, ClientStep(b)
    PROVE  GroupInv'
<1>1. ClientsTyped' /\ \A c \in Clients : ClientInv(c)'
  BY ClientStepFacts
<1>2. ServerInv'
  BY ClientIsOutside, ServerStepKeeps DEF GroupInv, ServerMove
<1>3. ASSUME NEW c \in Clients PROVE Single(c)'
  <2>1. KeyOfTwo(c)'
    BY KeyOfTwoStep
  <2>2. ServerNumbers(c)'
    <3>1. sdraws' = sdraws /\ ServerNumbers(c)
      BY ClientStepFacts DEF GroupInv, Single, serverVars
    <3> QED  BY <3>1, SharedOfServer DEF ServerNumbers
  <2>3. LastNumber(c)'
    BY LastNumberStep
  <2>4. (Linked(c) /\ SentHonestly(c) /\ ServerBeforePeers(c) /\ SecondRefused(c)
         /\ NotSelf(c))'
    <3>1. CASE c = b
      BY <3>1, LinkedStep, SentStep, ServerBeforePeersStep, SecondRefusedStep, NotSelfStep
    <3>2. CASE c # b
      BY <3>2, SingleUntouched
    <3> QED  BY <3>1, <3>2
  <2> QED  BY <2>1, <2>2, <2>3, <2>4 DEF Single
<1>4. \A c, d \in Clients : c # d => Pair(c, d)'
  BY PairStep
<1> QED
  BY <1>1, <1>2, <1>3, <1>4 DEF GroupInv

-----------------------------------------------------------------------------
(* A handler of the server: what it reads and what it delivers *)

\* The handler reads the first message of e.
TakenFrom(e, m) == Reading(e) /\ m = Head(outbox[e]) /\ ForItsSession(e, m) /\ m \in Message

\* What the handler of e may add to the socket of c.
Delivers(e, c, m) ==
    \/ /\ TakenFrom(e, m) /\ m.type \notin {"enter", "leave"}
       /\ m.type = "dh" => m.to = Nick[c] /\ m.from = Nick[e]
    \/ Handshake(e) /\ c = e /\ m = Answer(e).msg
    \/ Handshake(e) /\ c # e /\ m.type = "enter" /\ m.body.name = Nick[e]
    \/ RemoveClient(e) /\ c # e /\ m.type = "leave" /\ m.body.name = sock2name[e]

\* Sockets grow at their end.
Arrival(e, c) ==
    /\ Len(inbox[c]) <= Len(inbox'[c])
    /\ \A i \in 1..Len(inbox[c]) : inbox'[c][i] = inbox[c][i]
    /\ \A i \in 1..Len(inbox'[c]) :
          i > Len(inbox[c]) => link[c] = "open" /\ Delivers(e, c, inbox'[c][i])

LEMMA HeadTaken ==
    ASSUME GroupInv, NEW e \in Clients, Reading(e)
    PROVE  /\ TakenFrom(e, Head(outbox[e])) /\ outbox[e] # <<>>
           /\ Head(outbox[e]) = outbox[e][1] /\ 1 \in 1..Len(outbox[e])
           /\ Head(outbox[e]).from \in {Nick[e], Null}
<1>1. outbox[e] \in Seq(Message) /\ outbox[e] # <<>> /\ ServerInv
  BY DEF GroupInv, ClientsTyped, NetType, Reading
<1>2. Head(outbox[e]) = outbox[e][1] /\ 1 \in 1..Len(outbox[e]) /\ Head(outbox[e]) \in Message
  BY <1>1
<1>3. ForItsSession(e, Head(outbox[e]))
  BY <1>2 DEF GroupInv, Single, SentHonestly
<1> QED
  BY <1>1, <1>2, <1>3, HeadOfOutbox DEF TakenFrom

LEMMA ArrivalOfWrites ==
    ASSUME ServerInv, NEW e \in Clients, NEW c \in Clients,
           NEW writes \in Seq(Write), NEW survives, WriteAll(writes, survives),
           \A j \in 1..Len(writes) : writes[j].to = c => Delivers(e, c, writes[j].msg)
    PROVE  Arrival(e, c)
<1> DEFINE s == inbox[c]
           w == MessagesFor(c, writes)
<1>1. s \in Seq(Message)
  BY DEF ServerInv, WireType
<1>2. w \in Seq(Message) /\ \A i \in 1..Len(w) : \E j \in 1..Len(writes) :
         writes[j].to = c /\ w[i] = writes[j].msg
  BY MessagesForFacts
<1>3. /\ link[c] # "open" => inbox'[c] = s
      /\ link[c] = "open" => inbox'[c] = s \o w
  BY WritesReceived
<1>4. \A i \in 1..Len(w) : Delivers(e, c, w[i])
  BY <1>2
<1> HIDE DEF s, w
<1>5. CASE link[c] # "open"
  <2>1. inbox'[c] = s /\ Len(s) \in Nat
    BY <1>1, <1>3, <1>5
  <2> QED  BY <2>1 DEF Arrival, s
<1>6. CASE link[c] = "open"
  <2>1. inbox'[c] = s \o w /\ Len(s) \in Nat /\ Len(w) \in Nat /\ Len(s \o w) = Len(s) + Len(w)
    BY <1>1, <1>2, <1>3, <1>6
  <2>2. \A i \in 1..Len(s) : (s \o w)[i] = s[i]
    BY <1>1, <1>2
  <2>3. \A i \in 1..Len(s \o w) :
           i > Len(s) => i - Len(s) \in 1..Len(w) /\ (s \o w)[i] = w[i - Len(s)]
    BY <1>1, <1>2, <2>1
  <2>4. \A i \in 1..Len(inbox'[c]) : i > Len(s) => Delivers(e, c, inbox'[c][i])
    <3> TAKE i \in 1..Len(inbox'[c])
    <3> HAVE i > Len(s)
    <3>1. i - Len(s) \in 1..Len(w) /\ inbox'[c][i] = w[i - Len(s)]
      BY <2>1, <2>3
    <3> QED  BY <1>4, <3>1
  <2> QED  BY <1>6, <2>1, <2>2, <2>4 DEF Arrival, s
<1> QED  BY <1>5, <1>6

\* Every handler delivers only that.
LEMMA Arrivals ==
    ASSUME GroupInv, DistinctNicks, NEW e \in Clients, Handle(e), NEW c \in Clients
    PROVE  Arrival(e, c)
<1>1. ServerInv /\ TablesInv /\ Sole(c)
  BY DEF GroupInv, ServerInv, TablesInv, DistinctNicks, Sole
<1>2. CASE RemoveClient(e)
  <2> DEFINE writes == LeaveWrites(e)
  <2>1. writes \in Seq(Write) /\ WriteAll(writes, EveryoneKeyed(e))
    BY <1>1, <1>2, LeaveWritesFacts DEF RemoveClient, LeaveWrites
  <2>2. ASSUME NEW j \in 1..Len(writes), writes[j].to = c
        PROVE  Delivers(e, c, writes[j].msg)
    <3>1. PICK d \in members \ {e} :
             /\ IsRouted(d, name2sock)
             /\ writes[j] = NoticeTo(d, "leave", sock2name[e], name2sock)
      BY <1>1, LeaveWritesFacts
    <3>2. writes[j].to = name2sock[nickname[d]]
      BY <3>1 DEF NoticeTo
    <3>3. d = c
      BY <1>1, <2>2, <3>1, <3>2, NoticeTarget
    <3>4. writes[j].msg.type = "leave" /\ writes[j].msg.body.name = sock2name[e]
      BY <3>1 DEF NoticeTo, BuildJson
    <3> QED  BY <1>2, <3>1, <3>3, <3>4 DEF Delivers
  <2> HIDE DEF writes
  <2> QED  BY <1>1, <2>1, <2>2, ArrivalOfWrites
<1>3. CASE ReadPartial(e)
  <2>1. UNCHANGED inbox /\ inbox[c] \in Seq(Message)
    BY <1>1, <1>3 DEF ReadPartial, ServerInv, WireType
  <2> QED  BY <2>1 DEF Arrival
<1>4. CASE RelayToGroup(e)
  <2> DEFINE writes == GroupWrites(e)
             m == Head(outbox[e])
  <2>1. Reading(e) /\ m.to = "group" /\ WriteAll(writes, TRUE)
    BY <1>4 DEF RelayToGroup, GroupWrites
  <2>2. m \in Message /\ ~IsNotice(m) /\ TakenFrom(e, m)
    BY <1>1, <2>1, HeadTaken, RelayedMessage, ProtocolAssumption
  <2>3. m.type # "dh"
    BY <2>1, <2>2, MessageKinds, ProtocolAssumption DEF DhMsgs, Peers, Names
  <2>4. Delivers(e, c, m)
    BY <2>2, <2>3 DEF Delivers, IsNotice
  <2>5. writes \in Seq(Write) /\ \A j \in 1..Len(writes) : writes[j].msg = m
    BY <1>1, <2>1, GroupWritesFacts
  <2> HIDE DEF writes, m
  <2> QED  BY <1>1, <2>1, <2>4, <2>5, ArrivalOfWrites
<1>5. CASE RelayToOne(e)
  <2> DEFINE writes == OneWrites(e)
             m == Head(outbox[e])
  <2>1. Reading(e) /\ m.to \notin {"group", "server", Null} /\ WriteAll(writes, TRUE)
    BY <1>5 DEF RelayToOne, OneWrites
  <2>2. m \in Message /\ ~IsNotice(m) /\ TakenFrom(e, m)
    BY <1>1, <2>1, HeadTaken, RelayedMessage
  <2>3. writes \in Seq(Write) /\ \A j \in 1..Len(writes) : writes[j].msg = m
    BY <1>1, <2>1, OneWritesFacts
  <2>4. ASSUME NEW j \in 1..Len(writes), writes[j].to = c
        PROVE  Delivers(e, c, writes[j].msg)
    <3>1. m.to \in Names /\ name2sock[m.to] # Null /\ writes = <<[to |-> name2sock[m.to], msg |-> m]>>
      BY <2>4 DEF OneWrites, SendMsg
    <3>2. name2sock[m.to] = c
      BY <2>4, <3>1
    <3>3. sock2name[c] = m.to /\ sock2name[c] \in {Nick[c], Null} /\ m.to # Null
      BY <1>1, <3>1, <3>2, NameFacts DEF ServerInv, RoutesLive, NamedByNick
    <3>4. m.to = Nick[c]
      BY <3>3
    <3>5. m.type = "dh" => m.from = Nick[e]
      BY <2>2 DEF TakenFrom, ForItsSession
    <3>6. Delivers(e, c, m)
      BY <2>2, <3>4, <3>5 DEF Delivers, IsNotice
    <3> QED  BY <2>3, <3>6
  <2> HIDE DEF writes, m
  <2> QED  BY <1>1, <2>1, <2>3, <2>4, ArrivalOfWrites
<1>6. CASE Handshake(e)
  <2> DEFINE writes == <<Answer(e)>> \o EnterWrites(e)
  <2>1. WriteAll(writes, EveryoneKeyed(e))
    BY <1>1, <1>6, HandshakeWrites
  <2>2. /\ writes \in Seq(Write) /\ writes[1] = Answer(e)
        /\ \A i \in 1..Len(writes) :
              i # 1 => \E j \in 1..Len(EnterWrites(e)) : writes[i] = EnterWrites(e)[j]
    BY <1>1, HandshakeWritesType
  <2> HIDE DEF writes
  <2>3. ASSUME NEW i \in 1..Len(writes), writes[i].to = c
        PROVE  Delivers(e, c, writes[i].msg)
    <3>1. CASE i = 1
      <4>1. c = e
        BY <1>1, <2>2, <2>3, <3>1, AnswerFacts
      <4> QED  BY <1>6, <2>2, <3>1, <4>1 DEF Delivers
    <3>2. CASE i # 1
      <4>1. PICK j \in 1..Len(EnterWrites(e)) : writes[i] = EnterWrites(e)[j]
        BY <2>2, <3>2
      <4>2. PICK d \in members \ {e} :
               /\ IsRouted(d, Route(e))
               /\ writes[i] = NoticeTo(d, "enter", Nick[e], Route(e))
        BY <1>1, <4>1, EnterWritesFacts
      <4>3. writes[i].to = Route(e)[nickname[d]]
        BY <4>2 DEF NoticeTo
      <4>4. d = c
        <5> DEFINE route == Route(e)
        <5>1. \E f \in Clients : route = Route(f)
          OBVIOUS
        <5>2. IsRouted(d, route) /\ route[nickname[d]] = c
          BY <2>3, <4>2, <4>3
        <5> HIDE DEF route
        <5> QED  BY <1>1, <4>2, <5>1, <5>2, NoticeTarget
      <4>5. writes[i].msg.type = "enter" /\ writes[i].msg.body.name = Nick[e]
        BY <4>2 DEF NoticeTo, BuildJson
      <4> QED  BY <1>6, <4>2, <4>4, <4>5 DEF Delivers
    <3> QED  BY <3>1, <3>2
  <2> QED  BY <1>1, <2>1, <2>2, <2>3, ArrivalOfWrites
<1> QED
  BY <1>2, <1>3, <1>4, <1>5, <1>6 DEF Handle

\* The tables and links after a handler.
LEMMA HandlerEffects ==
    ASSUME GroupInv, NEW e \in Clients, Handle(e)
    PROVE  /\ \A c \in Clients : link'[c] = link[c] \/ (link[c] = "shut" /\ link'[c] = "probed")
           /\ \/ UNCHANGED outbox
              \/ Reading(e) /\ outbox' = [outbox EXCEPT ![e] = Tail(@)]
           /\ \/ UNCHANGED <<key, sdraws>>
              \/ RemoveClient(e) /\ UNCHANGED sdraws /\ key' = [key EXCEPT ![e] = NoKey]
              \/ /\ Handshake(e) /\ sdraws' = sdraws + 1
                 /\ key' = [key EXCEPT ![e] =
                               ServerKey(SharedSecret(MyNum, Head(outbox[e]).body))]
<1>1. ASSUME NEW writes, NEW survives, WriteAll(writes, survives)
      PROVE  \A c \in Clients : link'[c] = link[c] \/ (link[c] = "shut" /\ link'[c] = "probed")
  BY <1>1 DEF WriteAll
<1>2. CASE RemoveClient(e)
  BY <1>1, <1>2 DEF RemoveClient, EraseClient
<1>3. CASE ReadPartial(e)
  BY <1>3 DEF ReadPartial, Reading, memVars
<1>4. CASE RelayToGroup(e) \/ RelayToOne(e)
  BY <1>1, <1>4 DEF RelayToGroup, RelayToOne, Reading, memVars
<1>5. CASE Handshake(e)
  BY <1>1, <1>5 DEF Handshake, Reading, MyNum
<1> QED
  BY <1>2, <1>3, <1>4, <1>5 DEF Handle

\* What waits at the server's side is what waited, without the first message.
LEMMA Waiting ==
    ASSUME GroupInv, NEW e \in Clients, Handle(e), NEW c \in Clients
    PROVE  \/ outbox'[c] = outbox[c]
           \/ /\ c = e /\ Reading(e) /\ outbox[c] # <<>>
              /\ \A i \in 1..Len(outbox'[c]) :
                    i + 1 \in 2..Len(outbox[c]) /\ outbox'[c][i] = outbox[c][i + 1]
              /\ Len(outbox[c]) = Len(outbox'[c]) + 1
              /\ outbox'[c] \in Seq(Message)
<1>1. outbox \in [Clients -> Seq(Message)] /\ outbox[c] \in Seq(Message)
  BY DEF GroupInv, ClientsTyped, NetType
<1>2. CASE UNCHANGED outbox
  BY <1>2
<1>3. CASE Reading(e) /\ outbox' = [outbox EXCEPT ![e] = Tail(@)] /\ c = e
  <2>1. outbox'[c] = Tail(outbox[c]) /\ outbox[c] # <<>>
    BY <1>1, <1>3 DEF Reading
  <2> DEFINE s == outbox[c]
  <2>2. /\ s \in Seq(Message) /\ s # <<>> /\ Tail(s) \in Seq(Message)
        /\ Len(s) \in Nat /\ Len(Tail(s)) = Len(s) - 1
        /\ \A i \in 1..Len(Tail(s)) : Tail(s)[i] = s[i + 1]
    BY <1>1, <2>1
  <2> HIDE DEF s
  <2> QED  BY <1>3, <2>1, <2>2 DEF s
<1>4. CASE outbox' = [outbox EXCEPT ![e] = Tail(@)] /\ c # e
  BY <1>1, <1>4
<1> QED
  BY <1>2, <1>3, <1>4, HandlerEffects

\* What a client sees of a step of the server is its socket.
LEMMA SeenByClient ==
    ASSUME GroupInv, NEW c \in Clients, UNCHANGED clientVars
    PROVE  /\ Kept(c)' = Kept(c) /\ (Here(c)' <=> Here(c))
           /\ \A p : Present(p)' <=> Present(p)
           /\ \A p, x : Committed(c, p, x)' <=> Committed(c, p, x)
           /\ status' = status /\ hstate' = hstate /\ shaker' = shaker /\ known' = known
           /\ session' = session /\ dhq' = dhq /\ hmsg' = hmsg /\ rpc' = rpc
           /\ rtok' = rtok /\ opnum' = opnum
  BY DEF Kept, Here, Present, Committed

\* A number that c has heard after a handler.
LEMMA HeardArrives ==
    ASSUME GroupInv, DistinctNicks, NEW e \in Clients, Handle(e), UNCHANGED clientVars,
           NEW c \in Clients, NEW x \in Heard(c)'
    PROVE  \/ x \in Heard(c)
           \/ /\ Reading(e) /\ Head(outbox[e]).type = "dh" /\ x = Head(outbox[e]).body
              /\ Head(outbox[e]).to = Nick[c] /\ ForItsSession(e, Head(outbox[e]))
              /\ x.by = e /\ c # e /\ ToPeer(Head(outbox[e]))
           \/ Handshake(e) /\ c = e /\ x = MyNum
<1>1. ServerInv
  BY DEF GroupInv
<1>2. CASE x \in Kept(c)'
  BY <1>2, SeenByClient DEF Heard
<1>3. CASE x \in Coming(c)'
  <2>1. PICK i \in 1..Len(inbox'[c]) : inbox'[c][i].type = "dh" /\ x = inbox'[c][i].body
    BY <1>3 DEF Coming
  <2>2. CASE i \in 1..Len(inbox[c])
    <3>1. inbox[c][i].type = "dh" /\ x = inbox[c][i].body
      BY <2>1, <2>2, Arrivals DEF Arrival
    <3> QED  BY <2>2, <3>1, InHeard
  <2>3. CASE i \notin 1..Len(inbox[c])
    <3> DEFINE m == inbox'[c][i]
    <3>1. Delivers(e, c, m)
      <4>1. inbox[c] \in Seq(Message)
        BY DEF GroupInv, ClientsTyped, NetType
      <4>2. i > Len(inbox[c])
        BY <2>1, <2>3, <4>1
      <4> QED  BY <2>1, <4>2, Arrivals DEF Arrival
    <3>2. m.type = "dh" /\ x = m.body
      BY <2>1
    <3> HIDE DEF m
    <3>3. CASE TakenFrom(e, m) /\ m.to = Nick[c]
      BY <3>2, <3>3, PeerFacts DEF TakenFrom, ForItsSession, ToPeer
    <3>4. CASE Handshake(e) /\ c = e /\ m = Answer(e).msg
      BY <1>1, <3>2, <3>4, AnswerFacts
    <3> QED  BY <3>1, <3>2, <3>3, <3>4 DEF Delivers
  <2> QED  BY <2>2, <2>3
<1> QED  BY <1>2, <1>3 DEF Heard

\* Of the server's numbers, only a new one reaches a client or a key.
LEMMA SharedArrives ==
    ASSUME GroupInv, DistinctNicks, NEW e \in Clients, Handle(e), UNCHANGED clientVars,
           NEW c \in Clients, NEW x \in Shared(c)', x.by = "server"
    PROVE  x \in Shared(c) \/ (Handshake(e) /\ c = e /\ x = MyNum)
<1>1. e # "server" /\ key \in [Clients -> Key]
  BY ProtocolAssumption DEF GroupInv, ServerInv, TablesType
<1>2. CASE x \in Heard(c)'
  BY <1>1, <1>2, HeardArrives DEF Shared
<1>3. CASE x \in key'[c].secret
  <2>1. CASE key'[c] = key[c]
    BY <1>3, <2>1 DEF Shared
  <2>2. CASE key'[c] = NoKey
    BY <1>3, <2>2 DEF NoKey
  <2>3. CASE /\ Handshake(e) /\ c = e
             /\ key'[c] = ServerKey(SharedSecret(MyNum, Head(outbox[e]).body))
    <3>1. x = MyNum \/ x = Head(outbox[e]).body
      BY <1>3, <2>3 DEF ServerKey, SharedSecret
    <3>2. Head(outbox[e]).body.by = e
      BY <2>3, HeadTaken DEF Handshake, TakenFrom, ForItsSession
    <3> QED  BY <1>1, <2>3, <3>1, <3>2
  <2> QED  BY <1>1, <2>1, <2>2, <2>3, HandlerEffects
<1> QED  BY <1>2, <1>3 DEF Shared

\* All of these are numbers.
LEMMA SharedType ==
    ASSUME GroupInv, NEW c \in Clients
    PROVE  Shared(c) \subseteq Num \cup {Zero}
<1>1. /\ opnum[c] \in Num \cup {Zero} /\ session[c] \in [Peers -> Key] /\ key[c] \in Key
      /\ inbox[c] \in Seq(Message)
  BY DEF GroupInv, ClientsTyped, MachineType, DictType, NetType, ServerInv, TablesType
<1>2. Kept(c) \subseteq Num \cup {Zero}
  BY <1>1 DEF Kept, Key
<1>3. Coming(c) \subseteq Num \cup {Zero}
  <2>1. SUFFICES ASSUME NEW i \in 1..Len(inbox[c]), inbox[c][i].type = "dh"
                 PROVE  inbox[c][i].body \in Num
    BY DEF Coming
  <2>2. inbox[c][i] \in Message
    BY <1>1
  <2>3. inbox[c][i] \in DhMsgs
    BY <2>1, <2>2, MessageKinds
  <2> QED  BY <2>3 DEF DhMsgs
<1> QED
  BY <1>1, <1>2, <1>3 DEF Shared, Heard, Key

-----------------------------------------------------------------------------
(* A handler of the server: the invariant *)

\* Entry i of a socket after a handler.
LEMMA EntryAfter ==
    ASSUME GroupInv, DistinctNicks, NEW e \in Clients, Handle(e), NEW c \in Clients,
           NEW i \in 1..Len(inbox'[c])
    PROVE  \/ i \in 1..Len(inbox[c]) /\ inbox'[c][i] = inbox[c][i]
           \/ i > Len(inbox[c]) /\ link[c] = "open" /\ Delivers(e, c, inbox'[c][i])
<1>1. Len(inbox[c]) \in Nat
  BY DEF GroupInv, ClientsTyped, NetType
<1>2. i \in 1..Len(inbox[c]) \/ i > Len(inbox[c])
  BY <1>1
<1> QED  BY <1>2, Arrivals DEF Arrival

LEMMA LinkedHandled ==
    ASSUME GroupInv, DistinctNicks, NEW e \in Clients, Handle(e), UNCHANGED clientVars,
           NEW c \in Clients
    PROVE  Linked(c)'
<1>1. Linked(c) /\ inbox[c] \in Seq(Message) /\ ServerInv'
  BY ServerStepKeeps DEF GroupInv, Single, ClientsTyped, NetType, ServerMove, ServerNext
<1>2. link'[c] = link[c] \/ (link[c] = "shut" /\ link'[c] = "probed")
  BY HandlerEffects
<1>3. ASSUME status[c] = "off" PROVE inbox'[c] = <<>> /\ outbox'[c] = <<>>
  <2>1. link[c] = "none" /\ inbox[c] = <<>> /\ outbox[c] = <<>>
    BY <1>1, <1>3 DEF Linked
  <2>2. outbox'[c] = <<>>
    BY <2>1, Waiting
  <2>3. inbox'[c] \in Seq(Message)
    BY <1>1 DEF ServerInv, WireType
  <2>4. \A i \in 1..Len(inbox'[c]) : FALSE
    BY <2>1, EntryAfter
  <2> QED  BY <2>2, <2>3, <2>4
<1> QED
  BY <1>1, <1>2, <1>3, SeenByClient DEF Linked

LEMMA SentHandled ==
    ASSUME GroupInv, NEW e \in Clients, Handle(e), UNCHANGED clientVars, NEW c \in Clients
    PROVE  (SentHonestly(c) /\ ServerBeforePeers(c))' /\ (Past(c) => Past(c)')
<1>1. SentHonestly(c) /\ ServerBeforePeers(c)
  BY DEF GroupInv, Single
<1>2. \A m : ForItsSession(c, m)' <=> ForItsSession(c, m)
  BY SeenByClient DEF ForItsSession
<1>3. CASE outbox'[c] = outbox[c]
  <2>1. SentHonestly(c)'
    BY <1>1, <1>2, <1>3, SeenByClient DEF SentHonestly
  <2>2. ServerBeforePeers(c)' /\ (Past(c) => Past(c)')
    BY <1>1, <1>3, SeenByClient DEF ServerBeforePeers, Past
  <2> QED  BY <2>1, <2>2
<1>4. CASE /\ \A i \in 1..Len(outbox'[c]) :
                 i + 1 \in 2..Len(outbox[c]) /\ outbox'[c][i] = outbox[c][i + 1]
           /\ Len(outbox[c]) = Len(outbox'[c]) + 1
           /\ outbox'[c] \in Seq(Message)
  <2>1. \A i \in 1..Len(outbox'[c]) :
           i + 1 \in 1..Len(outbox[c]) /\ outbox'[c][i] = outbox[c][i + 1]
    BY <1>4
  <2>2. SentHonestly(c)'
    <3>1. \A i \in 1..Len(outbox'[c]) : ForItsSession(c, outbox'[c][i])
      BY <1>1, <2>1 DEF SentHonestly
    <3>2. ForItsSession(c, hmsg'[c])
      BY <1>1, SeenByClient DEF SentHonestly
    <3> QED  BY <1>2, <3>1, <3>2 DEF SentHonestly
  <2>3. Past(c) => Past(c)'
    BY <2>1, SeenByClient DEF Past
  <2>4. \A i \in 1..Len(outbox'[c]) : ToPeer(outbox'[c][i]) =>
           "server" \in known[c] /\ \A j \in i..Len(outbox'[c]) : ~ToServer(outbox'[c][j])
    <3> SUFFICES ASSUME NEW i \in 1..Len(outbox'[c]), ToPeer(outbox'[c][i])
                 PROVE  "server" \in known[c]
                        /\ \A j \in i..Len(outbox'[c]) : ~ToServer(outbox'[c][j])
      OBVIOUS
    <3>1. Len(outbox'[c]) \in Nat
      BY <1>4
    <3>2. /\ i + 1 \in 1..Len(outbox[c]) /\ ToPeer(outbox[c][i + 1])
      BY <2>1
    <3>3. /\ "server" \in known[c]
          /\ \A j \in (i + 1)..Len(outbox[c]) : ~ToServer(outbox[c][j])
      BY <1>1, <3>2 DEF ServerBeforePeers
    <3>4. \A j \in i..Len(outbox'[c]) :
             j \in 1..Len(outbox'[c]) /\ j + 1 \in (i + 1)..Len(outbox[c])
      BY <1>4, <3>1
    <3> QED  BY <2>1, <3>3, <3>4
  <2>5. ServerBeforePeers(c)'
    BY <1>1, <2>4, SeenByClient DEF ServerBeforePeers, ToPeer, ToServer
  <2> QED  BY <2>2, <2>3, <2>5
<1> QED
  BY <1>3, <1>4, Waiting

LEMMA OwnHandled ==
    ASSUME GroupInv, DistinctNicks, NEW e \in Clients, Handle(e), UNCHANGED clientVars,
           NEW c \in Clients
    PROVE  (SecondRefused(c) /\ NotSelf(c) /\ InboxHonest(c))'
<1>1. /\ SecondRefused(c) /\ NotSelf(c) /\ InboxHonest(c) /\ ServerInv
  BY DEF GroupInv, Single, ClientInv
<1>2. SecondRefused(c)'
  BY <1>1, SeenByClient DEF SecondRefused
<1>3. ASSUME NEW i \in 1..Len(inbox'[c]), NEW m, m = inbox'[c][i]
      PROVE  /\ m.type = "enter" => m.body.name # Nick[c]
             /\ OwnNumber(m) /\ (m.type = "dh" => m.body.by # c)
  <2>1. CASE i \in 1..Len(inbox[c]) /\ m = inbox[c][i]
    BY <1>1, <2>1 DEF NotSelf, InboxHonest
  <2>2. CASE Delivers(e, c, m)
    <3>1. CASE TakenFrom(e, m) /\ m.type \notin {"enter", "leave"}
               /\ (m.type = "dh" => m.to = Nick[c] /\ m.from = Nick[e])
      BY <3>1, PeerFacts, NameFacts, ProtocolAssumption
         DEF TakenFrom, ForItsSession, OwnNumber, NameOf
    <3>2. CASE Handshake(e) /\ c = e /\ m = Answer(e).msg
      BY <1>1, <3>2, ProtocolAssumption DEF Answer, MyNum, BuildJson, OwnNumber, NameOf
    <3>3. CASE c # e /\ m.type = "enter" /\ m.body.name = Nick[e]
      BY <3>3 DEF OwnNumber, DistinctNicks
    <3>4. CASE m.type = "leave"
      BY <3>4 DEF OwnNumber
    <3> QED  BY <2>2, <3>1, <3>2, <3>3, <3>4 DEF Delivers
  <2> QED  BY <1>3, <2>1, <2>2, EntryAfter
<1>4. NotSelf(c)'
  BY <1>1, <1>3, SeenByClient DEF NotSelf
<1>5. InboxHonest(c)'
  BY <1>3 DEF InboxHonest, OwnNumber
<1> QED  BY <1>2, <1>4, <1>5

LEMMA KeysHandled ==
    ASSUME GroupInv, DistinctNicks, NEW e \in Clients, Handle(e), UNCHANGED clientVars,
           NEW c \in Clients
    PROVE  (KeyOfTwo(c) /\ ServerNumbers(c) /\ LastNumber(c))'
<1>1. /\ KeyOfTwo(c) /\ ServerNumbers(c) /\ sdraws \in Nat /\ sdraws' \in Nat
      /\ key \in [Clients -> Key] /\ sdraws <= sdraws'
  <2>1. sdraws \in Nat
    BY DEF GroupInv, ServerInv, TablesType
  <2>2. sdraws' = sdraws \/ sdraws' = sdraws + 1
    BY HandlerEffects
  <2> QED  BY <2>1, <2>2 DEF GroupInv, Single, ServerInv, TablesType
<1>2. Handshake(e) => sdraws' = sdraws + 1 /\ sdraws + 1 \in 1..sdraws'
  BY <1>1 DEF Handshake
<1>3. KeyOfTwo(c)'
  <2>1. CASE key'[c] = key[c]
    <3>1. SUFFICES ASSUME key[c] # NoKey PROVE KeyOfTwo(c)'
      BY <2>1 DEF KeyOfTwo
    <3>2. PICK x \in key[c].secret, n \in 1..sdraws :
             /\ key[c] = ServerKey(SharedSecret([by |-> "server", n |-> n], x))
             /\ x.by = c /\ Committed(c, "server", x)
      BY <1>1, <3>1 DEF KeyOfTwo
    <3>3. n \in 1..sdraws'
      BY <1>1
    <3>4. Committed(c, "server", x)'
      BY <3>2, SeenByClient
    <3> QED  BY <2>1, <3>2, <3>3, <3>4 DEF KeyOfTwo
  <2>2. CASE key'[c] = NoKey
    BY <2>2 DEF KeyOfTwo
  <2>3. CASE Handshake(e) /\ c = e
    <3>0. PICK x, n : x = Head(outbox[e]).body /\ n = sdraws + 1
      OBVIOUS
    <3>1. key'[c] = ServerKey(SharedSecret([by |-> "server", n |-> n], x))
      BY <1>1, <2>3, <3>0 DEF Handshake
    <3>2. x \in key'[c].secret
      BY <3>1 DEF ServerKey, SharedSecret
    <3>3. TakenFrom(e, Head(outbox[e])) /\ ToServer(Head(outbox[e]))
      BY <2>3, HeadTaken DEF Handshake, ToServer
    <3>4. x.by = c /\ Committed(c, "server", x)
      BY <2>3, <3>0, <3>3 DEF TakenFrom, ForItsSession, ToServer, Present
    <3>5. Committed(c, "server", x)'
      BY <3>4, SeenByClient
    <3>6. n \in 1..sdraws'
      BY <1>2, <2>3, <3>0
    <3> QED  BY <3>1, <3>2, <3>4, <3>5, <3>6 DEF KeyOfTwo
  <2> QED  BY <1>1, <2>1, <2>2, <2>3, HandlerEffects
<1>4. ServerNumbers(c)'
  <2>1. SUFFICES ASSUME NEW x \in Shared(c)', x.by = "server" PROVE x.n <= sdraws'
    BY DEF ServerNumbers
  <2>2. CASE x \in Shared(c)
    <3>1. x.n <= sdraws
      BY <1>1, <2>1, <2>2 DEF ServerNumbers
    <3>2. x.n \in Nat
      <4>1. x \in Num \cup {Zero}
        BY <2>2, SharedType
      <4> QED  BY <4>1 DEF Num, Zero
    <3> QED  BY <1>1, <3>1, <3>2
  <2>3. CASE Handshake(e) /\ x = MyNum
    BY <1>1, <1>2, <2>3 DEF MyNum
  <2> QED  BY <2>1, <2>2, <2>3, SharedArrives
<1>5. LastNumber(c)'
  <2>1. SUFFICES ASSUME key'[c] # NoKey, NEW x \in Heard(c)', NEW y \in key'[c].secret,
                        x.by = "server", y.by = "server"
                 PROVE  x.n <= y.n
    BY DEF LastNumber
  <2>2. CASE Handshake(e) /\ c = e
    <3>1. key'[c] = ServerKey(SharedSecret(MyNum, Head(outbox[e]).body))
      BY <1>1, <2>2 DEF Handshake, MyNum
    <3>2. y = MyNum \/ y = Head(outbox[e]).body
      BY <2>1, <3>1 DEF ServerKey, SharedSecret
    <3>3. Head(outbox[e]).body.by = e /\ e # "server"
      BY <2>2, HeadTaken, ProtocolAssumption DEF Handshake, TakenFrom, ForItsSession
    <3>4. y.n = sdraws'
      BY <1>2, <2>1, <2>2, <3>2, <3>3 DEF MyNum
    <3>5. x.n <= sdraws'
      BY <1>4, <2>1 DEF ServerNumbers, Shared
    <3> QED  BY <3>4, <3>5
  <2>3. CASE ~(Handshake(e) /\ c = e)
    <3>1. key'[c] = key[c]
      BY <1>1, <2>1, <2>3, HandlerEffects
    <3>2. x \in Heard(c)
      <4>1. e # "server"
        BY ProtocolAssumption
      <4> QED  BY <2>1, <2>3, <4>1, HeardArrives
    <3>3. LastNumber(c)
      BY DEF GroupInv, Single
    <3> QED  BY <2>1, <3>1, <3>2, <3>3 DEF LastNumber
  <2> QED  BY <2>2, <2>3
<1> QED  BY <1>3, <1>4, <1>5

LEMMA PairHandled ==
    ASSUME GroupInv, DistinctNicks, NEW e \in Clients, Handle(e), UNCHANGED clientVars,
           NEW c \in Clients, NEW d \in Clients \ {c}
    PROVE  Pair(c, d)'
<1>1. Pair(c, d) /\ Nick[d] # Nick[c] /\ c # "server"
  BY ProtocolAssumption DEF GroupInv, DistinctNicks
<1>2. ASSUME NEW x \in Heard(d)', x.by = c
      PROVE  \/ x \in Heard(d)
             \/ /\ c = e /\ Reading(c) /\ ToPeer(Head(outbox[c]))
                /\ Head(outbox[c]).to = Nick[d] /\ Head(outbox[c]).type = "dh"
                /\ ForItsSession(c, Head(outbox[c])) /\ x = Head(outbox[c]).body
  <2>1. x # MyNum
    BY <1>1, <1>2 DEF MyNum
  <2> QED  BY <1>2, <2>1, HeardArrives
<1>3. NumbersMeant(c, d)'
  <2>1. SUFFICES ASSUME Here(d)', NEW x \in Heard(d)', x.by = c
                 PROVE  Committed(c, Nick[d], x)'
    BY DEF NumbersMeant
  <2>2. Here(d) /\ Present(Nick[d])
    BY <2>1, SeenByClient DEF Present
  <2>3. Committed(c, Nick[d], x)
    BY <1>1, <1>2, <2>1, <2>2 DEF Pair, NumbersMeant, ForItsSession
  <2> QED  BY <2>3, SeenByClient
<1>4. HeardAfterwards(c, d)'
  <2>1. SUFFICES ASSUME NEW x \in Heard(d)', x.by = c PROVE Past(c)'
    BY DEF HeardAfterwards
  <2>2. CASE x \in Heard(d)
    BY <1>1, <2>1, <2>2, SentHandled DEF Pair, HeardAfterwards
  <2>3. CASE Reading(c) /\ ToPeer(Head(outbox[c]))
    <3>1. Head(outbox[c]) = outbox[c][1] /\ 1 \in 1..Len(outbox[c])
      BY <2>3, HeadTaken
    <3>2. Past(c)
      BY <2>3, <3>1 DEF GroupInv, Single, ServerBeforePeers, Past
    <3> QED  BY <3>2, SentHandled
  <2> QED  BY <1>2, <2>1, <2>2, <2>3
<1>5. EnterFirst(c, d)'
  <2>1. SUFFICES ASSUME NEW i \in 1..Len(inbox'[d]), inbox'[d][i].type = "enter",
                        inbox'[d][i].body.name = Nick[c]
                 PROVE  /\ \A j \in 1..i : inbox'[d][j].type = "dh" =>
                                              inbox'[d][j].body.by # c
                        /\ \A x \in Kept(d)' : x.by # c
    BY DEF EnterFirst
  <2>2. Len(inbox[d]) \in Nat /\ Len(inbox'[d]) \in Nat
    <3>1. ServerInv'
      BY ServerStepKeeps DEF GroupInv, ServerMove, ServerNext
    <3> QED  BY <3>1 DEF GroupInv, ClientsTyped, NetType, ServerInv, WireType
  <2>3. CASE i \in 1..Len(inbox[d]) /\ inbox'[d][i] = inbox[d][i]
    <3>1. /\ \A j \in 1..i : inbox[d][j].type = "dh" => inbox[d][j].body.by # c
          /\ \A x \in Kept(d) : x.by # c
      BY <1>1, <2>1, <2>3 DEF Pair, EnterFirst
    <3>2. \A j \in 1..i : inbox'[d][j] = inbox[d][j]
      <4>1. \A j \in 1..i : j \in 1..Len(inbox[d])
        BY <2>2, <2>3
      <4> QED  BY <4>1, Arrivals DEF Arrival
    <3> QED  BY <3>1, <3>2, SeenByClient
  <2>4. CASE Delivers(e, d, inbox'[d][i])
    <3>1. Handshake(e) /\ d # e /\ Nick[e] = Nick[c]
      BY <2>1, <2>4 DEF Delivers, Answer, BuildJson
    <3>2. e = c
      BY <3>1 DEF DistinctNicks
    <3>3. ~Past(c)
      <4>1. Head(outbox[c]) = outbox[c][1] /\ 1 \in 1..Len(outbox[c])
        BY <3>1, <3>2, HeadTaken DEF Handshake
      <4> QED  BY <3>1, <3>2, <4>1 DEF Handshake, Past, ToServer
    <3>4. \A x \in Heard(d) : x.by # c
      BY <1>1, <3>3 DEF Pair, HeardAfterwards
    <3>5. ASSUME NEW j \in 1..i, inbox'[d][j].type = "dh" PROVE inbox'[d][j].body.by # c
      <4>1. j \in 1..Len(inbox'[d])
        BY <2>1, <2>2
      <4>2. CASE j \in 1..Len(inbox[d]) /\ inbox'[d][j] = inbox[d][j]
        BY <3>4, <3>5, <4>2, InHeard
      <4>3. CASE Delivers(e, d, inbox'[d][j])
        <5>1. TakenFrom(e, inbox'[d][j]) /\ inbox'[d][j].to = Nick[d]
          BY <3>1, <3>5, <4>3 DEF Delivers
        <5>2. inbox'[d][j].to = "server"
          BY <3>1, <5>1 DEF TakenFrom, Handshake
        <5> QED  BY <5>1, <5>2, NameFacts
      <4> QED  BY <4>1, <4>2, <4>3, EntryAfter
    <3>6. \A x \in Kept(d)' : x.by # c
      BY <3>4, SeenByClient, InHeard
    <3> QED  BY <3>5, <3>6
  <2> QED  BY <2>1, <2>3, <2>4, EntryAfter
<1>6. LeaveTold(c, d)'
  <2>1. SUFFICES ASSUME NEW i \in 1..Len(inbox'[d]), inbox'[d][i].type = "leave",
                        inbox'[d][i].body.name = Nick[c]
                 PROVE  ~Here(c)'
    BY DEF LeaveTold
  <2>2. CASE i \in 1..Len(inbox[d]) /\ inbox'[d][i] = inbox[d][i]
    BY <1>1, <2>1, <2>2, SeenByClient DEF Pair, LeaveTold
  <2>3. CASE Delivers(e, d, inbox'[d][i])
    <3>1. RemoveClient(e) /\ sock2name[e] = Nick[c]
      BY <2>1, <2>3 DEF Delivers, Answer, BuildJson
    <3>2. e = c
      <4>1. sock2name[e] \in {Nick[e], Null} /\ Nick[c] # Null
        BY NameFacts DEF GroupInv, ServerInv, NamedByNick
      <4> QED  BY <3>1, <4>1 DEF DistinctNicks
    <3>3. c \in members /\ link[c] # "open" /\ link[c] # "none"
      BY <3>1, <3>2, EventOfMember DEF RemoveClient, Readable, GroupInv, ServerInv, Connected
    <3>4. link[c] \in Link /\ Linked(c)
      BY DEF GroupInv, Single, ClientsTyped, NetType
    <3>5. status[c] = "closed"
      BY <3>3, <3>4 DEF Linked, Link
    <3> QED  BY <3>5, SeenByClient DEF Here
  <2> QED  BY <2>1, <2>2, <2>3, EntryAfter
<1>7. ServerNumbersApart(c, d)'
  <2>1. SUFFICES ASSUME NEW x \in Shared(c)', x.by = "server", x \in Shared(d)' PROVE FALSE
    BY DEF ServerNumbersApart
  <2>2. sdraws \in Nat /\ ServerNumbers(c) /\ ServerNumbers(d)
    BY DEF GroupInv, Single, ServerInv, TablesType
  <2>3. MyNum \notin Shared(c) /\ MyNum \notin Shared(d)
    BY <2>2 DEF ServerNumbers, MyNum
  <2>4. x \in Shared(c) \/ (c = e /\ x = MyNum)
    BY <2>1, SharedArrives
  <2>5. x \in Shared(d) \/ (d = e /\ x = MyNum)
    BY <2>1, SharedArrives
  <2> QED  BY <1>1, <2>1, <2>3, <2>4, <2>5 DEF Pair, ServerNumbersApart
<1> QED
  BY <1>3, <1>4, <1>5, <1>6, <1>7 DEF Pair

LEMMA HandlerKeepsGroup ==
    ASSUME GroupInv, DistinctNicks, NEW e \in Clients, Handle(e), UNCHANGED clientVars
    PROVE  GroupInv'
<1>1. ServerInv'
  BY ServerStepKeeps DEF GroupInv, ServerMove, ServerNext
<1>2. NetType'
  <2>1. outbox \in [Clients -> Seq(Message)]
    BY DEF GroupInv, ClientsTyped, NetType
  <2>2. \A s \in Seq(Message) : s # <<>> => Tail(s) \in Seq(Message)
    OBVIOUS
  <2>3. Reading(e) => outbox[e] # <<>>
    BY DEF Reading
  <2>4. outbox' \in [Clients -> Seq(Message)]
    BY <2>1, <2>2, <2>3, HandlerEffects
  <2> QED  BY <1>1, <2>4 DEF ServerInv, WireType, NetType
<1>3. ASSUME NEW c \in Clients PROVE ClientsTyped' /\ ClientInv(c)' /\ Single(c)'
  <2>1. (SecondRefused(c) /\ NotSelf(c) /\ InboxHonest(c))'
    BY OwnHandled
  <2>2. ClientsTyped' /\ ClientInv(c)'
    BY <1>2, <2>1, ClientUntouched DEF GroupInv
  <2>3. Single(c)'
    BY <2>1, LinkedHandled, SentHandled, KeysHandled DEF Single
  <2> QED  BY <2>2, <2>3
<1>4. \A c, d \in Clients : c # d => Pair(c, d)'
  BY PairHandled
<1>5. ClientsTyped'
  BY <1>3
<1> QED
  BY <1>1, <1>3, <1>4, <1>5 DEF GroupInv

-----------------------------------------------------------------------------
(* The invariant *)

LEMMA InitGroup ==
    ASSUME Init
    PROVE  GroupInv
<1>1. ClientsTyped /\ ServerInv /\ \A c \in Clients : ClientInv(c)
  BY ClientInitInv, ServerInitInv DEF Init
<1>2. ASSUME NEW c \in Clients
      PROVE  /\ status[c] = "off" /\ link[c] = "none" /\ hstate[c] = "idle" /\ shaker[c] = "server"
             /\ known[c] = {} /\ session[c] = [p \in Peers |-> NoKey] /\ opnum[c] = Zero
             /\ inbox[c] = <<>> /\ outbox[c] = <<>> /\ dhq[c] = <<>> /\ hmsg[c] = NoMsg
             /\ rpc[c] = "recv" /\ key[c] = NoKey
  BY DEF Init, NetInit, ClientInit, ServerInit
<1>3. ASSUME NEW c \in Clients PROVE Shared(c) = {Zero}
  <2>1. NoKey.secret = {}
    BY DEF NoKey
  <2>2. \A p \in Peers : session[c][p].secret = {}
    BY <1>2, <2>1
  <2>3. Coming(c) = {} /\ key[c].secret = {}
    BY <1>2, <2>1 DEF Coming
  <2>4. UNION {session[c][p].secret : p \in Peers} = {}
    BY <2>2
  <2> QED  BY <1>2, <2>3, <2>4 DEF Shared, Heard, Kept
<1>4. \A c \in Clients : Zero.by # c /\ Zero.by # "server"
  BY ProtocolAssumption DEF Zero
<1>5. ASSUME NEW c \in Clients PROVE Single(c)
  <2>1. Linked(c)
    BY <1>2 DEF Linked
  <2>2. NoMsg.type = "none"
    BY DEF NoMsg, BuildJson
  <2>3. SentHonestly(c) /\ ServerBeforePeers(c)
    BY <1>2, <2>2 DEF SentHonestly, ServerBeforePeers, ForItsSession
  <2>4. SecondRefused(c) /\ KeyOfTwo(c) /\ ServerNumbers(c) /\ LastNumber(c)
    BY <1>2, <1>3, <1>4 DEF SecondRefused, KeyOfTwo, ServerNumbers, LastNumber
  <2>5. NotSelf(c)
    BY <1>2, PeerFacts DEF NotSelf
  <2> QED  BY <2>1, <2>3, <2>4, <2>5 DEF Single
<1>6. ASSUME NEW c \in Clients, NEW d \in Clients, c # d PROVE Pair(c, d)
  <2>1. Heard(d) \subseteq {Zero}
    BY <1>3 DEF Shared
  <2>2. NumbersMeant(c, d) /\ HeardAfterwards(c, d)
    BY <1>4, <2>1 DEF NumbersMeant, HeardAfterwards
  <2>3. EnterFirst(c, d) /\ LeaveTold(c, d)
    BY <1>2 DEF EnterFirst, LeaveTold
  <2>4. ServerNumbersApart(c, d)
    BY <1>3, <1>4 DEF ServerNumbersApart
  <2> QED  BY <2>2, <2>3, <2>4 DEF Pair
<1> QED
  BY <1>1, <1>5, <1>6 DEF GroupInv

\* Waiting, accepting a connection, the arrival of a reset.
QuietStep ==
    /\ UNCHANGED <<clientVars, inbox, outbox, key, sdraws>>
    /\ \A c \in Clients : link'[c] = link[c] \/ (link[c] = "probed" /\ link'[c] = "reset")

LEMMA QuietKeepsGroup ==
    ASSUME GroupInv, QuietStep, ServerInv'
    PROVE  GroupInv'
<1>1. ClientsTyped'
  <2>1. NetType'
    BY DEF GroupInv, ClientsTyped, NetType, QuietStep, ServerInv, WireType
  <2> QED  BY <2>1 DEF GroupInv, ClientsTyped, MachineType, RatchetType, DictType, QueueType,
               LocalType, QuietStep
<1>2. ASSUME NEW c \in Clients PROVE ClientInv(c)'
  <2>1. InboxHonest(c)'
    BY DEF GroupInv, ClientInv, InboxHonest, QuietStep
  <2>2. UNCHANGED clientVars /\ NetType'
    BY <1>1 DEF QuietStep, ClientsTyped
  <2> QED  BY <2>1, <2>2, ClientUntouched DEF GroupInv
<1>3. ASSUME NEW c \in Clients PROVE Single(c)'
  <2>1. Single(c)
    BY DEF GroupInv
  <2>2. Linked(c)'
    BY <2>1 DEF Single, Linked, QuietStep
  <2>3. (SentHonestly(c) /\ ServerBeforePeers(c) /\ SecondRefused(c) /\ NotSelf(c))'
    BY <2>1 DEF Single, SentHonestly, ServerBeforePeers, SecondRefused, NotSelf, ForItsSession,
       Committed, Present, Here, QuietStep
  <2>4. (KeyOfTwo(c) /\ ServerNumbers(c) /\ LastNumber(c))'
    BY <2>1 DEF Single, KeyOfTwo, ServerNumbers, LastNumber, Committed, Shared, Heard, Kept, Coming, QuietStep
  <2> QED  BY <2>2, <2>3, <2>4 DEF Single
<1>4. ASSUME NEW c \in Clients, NEW d \in Clients, c # d PROVE Pair(c, d)'
  <2>1. Pair(c, d)
    BY <1>4 DEF GroupInv
  <2>2. (NumbersMeant(c, d) /\ HeardAfterwards(c, d) /\ ServerNumbersApart(c, d))'
    BY <2>1 DEF Pair, NumbersMeant, HeardAfterwards, Past, ServerNumbersApart, Committed, Here,
       Shared, Heard, Kept, Coming, QuietStep
  <2>3. (EnterFirst(c, d) /\ LeaveTold(c, d))'
    BY <2>1 DEF Pair, EnterFirst, LeaveTold, Here, Kept, QuietStep
  <2> QED  BY <2>2, <2>3 DEF Pair
<1> QED
  BY <1>1, <1>2, <1>3, <1>4 DEF GroupInv

LEMMA StepKeepsGroup ==
    ASSUME GroupInv, DistinctNicks, [Next]_vars
    PROVE  GroupInv'
<1>1. inbox \in [Clients -> Seq(Message)] /\ link \in [Clients -> Link]
  BY DEF GroupInv, ClientsTyped, NetType
<1>2. CASE UNCHANGED vars
  <2>1. QuietStep
    BY <1>2 DEF vars, QuietStep, serverVars, memVars
  <2>2. Outside
    BY <1>1, <1>2 DEF vars, Outside, WireMove, LinkMove, OutboxMove, BacklogMove, serverVars
  <2> QED  BY <2>1, <2>2, QuietKeepsGroup, ServerStepKeeps DEF GroupInv, ServerMove
<1>3. ASSUME NEW b \in Clients, ResetStep(b) PROVE GroupInv'
  <2>1. QuietStep
    BY <1>1, <1>3 DEF ResetStep, NetReset, QuietStep, serverVars, memVars
  <2>2. Outside
    BY <1>1, <1>3 DEF ResetStep, NetReset, Outside, WireMove, LinkMove, OutboxMove, BacklogMove,
       Link
  <2> QED  BY <2>1, <2>2, QuietKeepsGroup, ServerStepKeeps DEF GroupInv, ServerMove
<1>4. CASE (Watch \/ SetupClient) /\ UNCHANGED clientVars
  <2>1. QuietStep
    BY <1>4 DEF Watch, SetupClient, QuietStep, memVars
  <2>2. ServerInv'
    BY <1>4, ServerStepKeeps DEF GroupInv, ServerMove, ServerNext
  <2> QED  BY <2>1, <2>2, QuietKeepsGroup
<1>5. ASSUME NEW e \in Clients, Handle(e), UNCHANGED clientVars PROVE GroupInv'
  BY <1>5, HandlerKeepsGroup
<1>6. ASSUME NEW b \in Clients, ClientStep(b) PROVE GroupInv'
  BY <1>6, ClientKeepsGroup
<1> QED
  BY <1>2, <1>3, <1>4, <1>5, <1>6 DEF Next, ServerStep, ServerNext

\* Where the numbers of each client are, whose sessions they are for, and what
\* the notices say, at every moment of the chat.
THEOREM GroupInvariantHolds ==
    ASSUME DistinctNicks
    PROVE  Spec => []GroupInv
<1>1. Init => GroupInv
  BY InitGroup
<1>2. GroupInv /\ [Next]_vars => GroupInv'
  BY StepKeepsGroup
<1> QED
  BY <1>1, <1>2, PTL DEF Spec

-----------------------------------------------------------------------------
(* Two clients with a session *)

\* The two numbers of a client's session with another client.
LEMMA TwoNumbers ==
    ASSUME GroupInv, DistinctNicks, NEW c \in Clients, NEW d \in Clients \ {c},
           Nick[d] \in known[c]
    PROVE  \E mine, theirs \in Num :
              /\ session[c][Nick[d]] = ClientKey({mine, theirs})
              /\ session[c][Nick[d]].secret = {mine, theirs}
              /\ mine.by = c /\ theirs.by = d /\ theirs \in Heard(c)
<1>1. Nick[d] # Nick[c] /\ Nick[d] # "server" /\ Nick[d] \in Peers
  BY PeerFacts DEF DistinctNicks
<1>2. /\ SessionEndToEnd(c) /\ KeysDerived(c) /\ draws[c] \in Nat
  BY DEF GroupInv, ClientInv, ClientsTyped, MachineType
<1>3. PICK mine \in Drawn(c), theirs \in session[c][Nick[d]].secret :
         /\ session[c][Nick[d]].secret = {mine, theirs}
         /\ theirs \in Num /\ NameOf(theirs.by) = Nick[d]
  BY <1>1, <1>2 DEF SessionEndToEnd, SharedSecret
<1>4. mine \in Num /\ mine.by = c
  BY <1>2 DEF Drawn, Num
<1>5. theirs.by = d
  <2>1. theirs.by \in Clients \cup {"server"}
    BY <1>3 DEF Num
  <2> QED  BY <1>1, <1>3, <2>1 DEF NameOf, DistinctNicks
<1>6. session[c][Nick[d]] = ClientKey({mine, theirs})
  BY <1>1, <1>2, <1>3 DEF KeysDerived
<1>7. theirs \in Heard(c)
  BY <1>1, <1>3, InHeard
<1> QED
  BY <1>3, <1>4, <1>5, <1>6, <1>7

LEMMA PeersAgree ==
    ASSUME GroupInv, DistinctNicks
    PROVE  PeerSessionAgrees
<1>1. SUFFICES ASSUME NEW c \in Online, NEW d \in Online, c # d,
                      Nick[d] \in known[c], Nick[c] \in known[d]
               PROVE  session[c][Nick[d]] = session[d][Nick[c]]
  BY DEF PeerSessionAgrees
<1>2. c \in Clients /\ d \in Clients /\ Here(c) /\ Here(d)
  BY DEF Online, Here
<1>3. PICK x, y \in Num : /\ session[c][Nick[d]] = ClientKey({x, y})
                          /\ session[c][Nick[d]].secret = {x, y}
                          /\ x.by = c /\ y.by = d /\ y \in Heard(c)
  BY <1>1, <1>2, TwoNumbers
<1>4. PICK u, v \in Num : /\ session[d][Nick[c]] = ClientKey({u, v})
                          /\ session[d][Nick[c]].secret = {u, v}
                          /\ u.by = d /\ v.by = c /\ v \in Heard(d)
  BY <1>1, <1>2, TwoNumbers
<1>5. NumbersMeant(c, d) /\ NumbersMeant(d, c)
  BY <1>1, <1>2 DEF GroupInv, Pair
<1>6. y \in {u, v} /\ v \in {x, y}
  BY <1>1, <1>2, <1>3, <1>4, <1>5 DEF NumbersMeant, Committed
<1>7. y = u /\ v = x
  BY <1>1, <1>3, <1>4, <1>6
<1> QED
  BY <1>3, <1>4, <1>7

\* Two clients that have a session with each other have the same key, however
\* often the request was repeated and whoever began.
THEOREM PeersAgreeAlways ==
    ASSUME DistinctNicks
    PROVE  Spec => []PeerSessionAgrees
<1>1. GroupInv => PeerSessionAgrees
  BY PeersAgree
<1> QED
  BY <1>1, GroupInvariantHolds, PTL

-----------------------------------------------------------------------------
(* The chat implements SessionAgreement *)

HeldKey(c, d) ==
    IF status[c] = "up" /\ c # d /\ Nick[d] \in known[c] THEN session[c][Nick[d]] ELSE NoKey

LEMMA HeldIs ==
    /\ Held = [c \in Clients |-> [d \in Clients |-> HeldKey(c, d)]]
    /\ Held' = [c \in Clients |-> [d \in Clients |-> HeldKey(c, d)']]
  BY DEF Held, HeldKey

\* Every other move of a client keeps its keys for others or drops some.
LEMMA HeldDropped ==
    ASSUME GroupInv, DistinctNicks, NEW b \in Clients, ClientStep(b),
           ~Files(b) \/ shaker[b] = "server", NEW d \in Clients
    PROVE  HeldKey(b, d)' \in {HeldKey(b, d), NoKey}
<1>1. /\ TaskNext(b) /\ ClientsTyped /\ MachineMove(b) /\ Nick[d] \in Peers
      /\ Nick[d] # "server"
  BY ClientStepFacts, PeerFacts DEF GroupInv
<1>2. SUFFICES ASSUME status'[b] = "up", b # d, Nick[d] \in known'[b],
                      session'[b][Nick[d]] # NoKey
               PROVE  /\ status[b] = "up" /\ Nick[d] \in known[b]
                      /\ session'[b][Nick[d]] = session[b][Nick[d]]
  BY DEF HeldKey
<1>3. Nick[d] # Nick[b]
  BY <1>2 DEF DistinctNicks
<1>4. Nick[d] \in known[b] /\ session'[b][Nick[d]] = session[b][Nick[d]]
  <2>1. CASE DicSame(b) \/ Begins(b) \/ Completes(b) \/ Asks(b)
    BY <1>2, <2>1 DEF DicSame, Begins, Completes, Asks
  <2>2. CASE Joins(b)
    BY <1>2, <1>3, <2>2 DEF Joins
  <2>3. CASE Files(b)
    BY <1>1, <1>2, <2>3 DEF Files
  <2>4. CASE Drops(b)
    BY <1>1, <1>2, <2>4 DEF Drops
  <2> QED  BY <1>1, <2>1, <2>2, <2>3, <2>4 DEF MachineMove
<1>5. status[b] = "up"
  <2>1. ClientInv(b) /\ Unborn(b)
    BY DEF GroupInv, ClientInv
  <2>2. status[b] # "off"
    BY <1>4, <2>1 DEF Unborn
  <2>3. ~Connect(b)
    BY <2>2 DEF Connect
  <2> QED  BY <1>1, <1>2, <2>1, <2>3, StatusStep
<1> QED
  BY <1>4, <1>5

\* A session that H files for another client is the one that client has, if any.
LEMMA HeldObtained ==
    ASSUME GroupInv, PeerSessionAgrees', DistinctNicks, NEW b \in Clients, ClientStep(b),
           Files(b), NEW d \in Clients \ {b}, shaker[b] = Nick[d]
    PROVE  Agreement!Obtain(b, d)
<1> DEFINE k == ClientKey({mynum[b], opnum[b]})
<1>1. Nick[d] \in Peers /\ Nick[d] # "server" /\ Nick[b] # Nick[d]
  BY PeerFacts DEF DistinctNicks
<1>2. /\ status[b] = "up" /\ status'[b] = "up"
      /\ Nick[d] \notin known[b] /\ known'[b] = known[b] \cup {Nick[d]}
      /\ session'[b][Nick[d]] = k
      /\ \A p \in Peers \ {Nick[d]} : session'[b][p] = session[b][p]
  BY DEF Files, SharedSecret
<1>3. mynum[b].by = b /\ opnum[b].by = d
  <2>1. Engaged(b) /\ hstate[b] # "idle" /\ opnum[b] \in Num /\ NameOf(opnum[b].by) = Nick[d]
    BY DEF GroupInv, ClientInv, Files
  <2>2. opnum[b].by \in Clients \cup {"server"}
    BY <2>1 DEF Num
  <2> QED  BY <1>1, <2>1, <2>2 DEF Engaged, NameOf, DistinctNicks
<1>4. k.secret = {mynum[b], opnum[b]} /\ k # NoKey
  BY DEF ClientKey, NoKey
<1> HIDE DEF k
<1>5. HeldKey(b, d) = NoKey /\ HeldKey(b, d)' = k
  BY <1>2 DEF HeldKey
<1>6. \A e \in Clients \ {d} : HeldKey(b, e)' = HeldKey(b, e)
  <2> TAKE e \in Clients \ {d}
  <2>1. Nick[e] # Nick[d] /\ Nick[e] \in Peers
    BY PeerFacts DEF DistinctNicks
  <2> QED  BY <1>2, <2>1 DEF HeldKey
<1>7. \A c \in Clients \ {b} : Untouched(c) /\ \A e \in Clients : HeldKey(c, e)' = HeldKey(c, e)
  BY ClientStepFacts DEF Untouched, HeldKey
<1>8. HeldKey(d, b) \in {NoKey, k}
  <2>1. SUFFICES ASSUME status'[d] = "up", Nick[b] \in known'[d]
                 PROVE  session'[d][Nick[b]] = k
    BY <1>7 DEF Untouched, HeldKey
  <2>2. b \in Online' /\ d \in Online' /\ Nick[d] \in known'[b]
    BY <1>2, <2>1 DEF Online
  <2> QED  BY <1>2, <2>1, <2>2 DEF PeerSessionAgrees
<1>9. ASSUME NEW x \in Clients, NEW y \in Clients, HeldKey(x, y) = k
      PROVE  {x, y} = {b, d}
  <2>1. x # y /\ Nick[y] \in known[x] /\ session[x][Nick[y]] = k
    BY <1>4, <1>9 DEF HeldKey
  <2>2. PICK u, v \in Num : session[x][Nick[y]].secret = {u, v} /\ u.by = x /\ v.by = y
    <3>1. y \in Clients \ {x}
      BY <2>1
    <3>2. \E u, v \in Num : /\ session[x][Nick[y]] = ClientKey({u, v})
                            /\ session[x][Nick[y]].secret = {u, v}
                            /\ u.by = x /\ v.by = y /\ v \in Heard(x)
      BY <2>1, <3>1, TwoNumbers
    <3> QED  BY <3>2
  <2>3. {u, v} = {mynum[b], opnum[b]}
    BY <1>4, <2>1, <2>2
  <2> QED  BY <1>3, <2>1, <2>2, <2>3
<1>10. /\ \A x, y \in Clients : Held[x][y] = HeldKey(x, y)
       /\ Held'[b][d] = k
       /\ Held' = [Held EXCEPT ![b][d] = k]
  <2>1. \A x, y \in Clients :
           HeldKey(x, y)' = IF x = b /\ y = d THEN k ELSE HeldKey(x, y)
    BY <1>5, <1>6, <1>7
  <2> DEFINE h == [c \in Clients |-> [e \in Clients |-> HeldKey(c, e)]]
             g == [c \in Clients |-> [e \in Clients |-> IF c = b /\ e = d THEN k
                                                        ELSE HeldKey(c, e)]]
  <2>2. g = [h EXCEPT ![b][d] = k]
    <3>1. \A c \in Clients : g[c] = [h EXCEPT ![b][d] = k][c]
      OBVIOUS
    <3>2. DOMAIN g = Clients /\ DOMAIN [h EXCEPT ![b][d] = k] = Clients
      OBVIOUS
    <3> QED  BY <3>1, <3>2
  <2>3. Held = h /\ Held' = g
    BY <2>1, HeldIs
  <2> QED  BY <2>2, <2>3
<1>11. b \notin Left /\ Left' = Left
  BY <1>2, <1>7 DEF Left, Untouched
<1> QED
  BY <1>4, <1>5, <1>8, <1>9, <1>10, <1>11 DEF Agreement!Obtain, Agreement!Exclusive

\* What a client gives up while it stays is a session with a client that left.
LEMMA HeldForgotten ==
    ASSUME GroupInv, DistinctNicks, NEW b \in Clients, ClientStep(b),
           ~Files(b) \/ shaker[b] = "server", status'[b] = "up", NEW d \in Clients,
           HeldKey(b, d)' # HeldKey(b, d)
    PROVE  d \in Left /\ HeldKey(b, d)' = NoKey
<1>1. /\ TaskNext(b) /\ ClientsTyped /\ MachineMove(b) /\ Nick[d] \in Peers
      /\ Nick[d] # "server"
  BY ClientStepFacts, PeerFacts DEF GroupInv
<1>2. HeldKey(b, d)' = NoKey /\ HeldKey(b, d) # NoKey
  BY HeldDropped
<1>3. status[b] = "up" /\ b # d /\ Nick[d] \in known[b] /\ session[b][Nick[d]] # NoKey
  BY <1>2 DEF HeldKey
<1>4. Nick[d] \notin known'[b] \/ session'[b][Nick[d]] = NoKey
  BY <1>2, <1>3 DEF HeldKey
<1>5. Drops(b)
  <2>1. CASE DicSame(b) \/ Begins(b) \/ Completes(b) \/ Asks(b)
    BY <1>3, <1>4, <2>1 DEF DicSame, Begins, Completes, Asks
  <2>2. CASE Joins(b)
    <3>1. ClientInv(b) /\ Unborn(b)
      BY DEF GroupInv, ClientInv
    <3> QED  BY <1>3, <2>2, <3>1 DEF Joins, Unborn
  <2>3. CASE Files(b)
    BY <1>1, <1>3, <1>4, <2>3 DEF Files
  <2> QED  BY <1>1, <2>1, <2>2, <2>3 DEF MachineMove
<1>6. /\ inbox[b] # <<>> /\ Head(inbox[b]).type = "leave"
      /\ Head(inbox[b]).body.name = Nick[d]
  BY <1>1, <1>3, <1>4, <1>5 DEF Drops
<1>7. 1 \in 1..Len(inbox[b]) /\ Head(inbox[b]) = inbox[b][1]
  <2>1. inbox[b] \in Seq(Message)
    BY DEF GroupInv, ServerInv, WireType
  <2> QED  BY <1>6, <2>1
<1>8. LeaveTold(d, b)
  BY <1>3 DEF GroupInv, Pair
<1>9. ~Here(d)
  BY <1>6, <1>7, <1>8 DEF LeaveTold
<1> QED
  BY <1>2, <1>9 DEF Here, Left

\* A step of client b in which it files no session with another client.
LEMMA HeldOfOne ==
    ASSUME GroupInv, NEW b \in Clients, ClientStep(b), NEW k,
           \A d \in Clients : HeldKey(b, d)' = k[d], k = [d \in Clients |-> k[d]]
    PROVE  Held' = [Held EXCEPT ![b] = k]
<1>1. \A c \in Clients \ {b} : \A d \in Clients : HeldKey(c, d)' = HeldKey(c, d)
  BY ClientStepFacts DEF Untouched, HeldKey
<1> DEFINE h == [c \in Clients |-> [d \in Clients |-> HeldKey(c, d)]]
           g == [c \in Clients |-> [d \in Clients |-> HeldKey(c, d)']]
<1>2. \A c \in Clients : g[c] = [h EXCEPT ![b] = k][c]
  <2> TAKE c \in Clients
  <2>1. CASE c = b
    <3>1. g[c] = [d \in Clients |-> k[d]]  BY <2>1
    <3> QED  BY <2>1, <3>1
  <2>2. CASE c # b
    <3>1. g[c] = h[c]  BY <1>1, <2>2
    <3> QED  BY <2>2, <3>1
  <2> QED  BY <2>1, <2>2
<1>3. g = [h EXCEPT ![b] = k]
  <2>1. DOMAIN g = Clients /\ DOMAIN [h EXCEPT ![b] = k] = Clients
    OBVIOUS
  <2> HIDE DEF g
  <2>2. [h EXCEPT ![b] = k] = [c \in Clients |-> [h EXCEPT ![b] = k][c]]
    OBVIOUS
  <2>3. g = [c \in Clients |-> g[c]]
    BY DEF g
  <2> QED  BY <1>2, <2>2, <2>3
<1>4. Held = h /\ Held' = g
  BY HeldIs
<1> QED  BY <1>3, <1>4

LEMMA LeftStep ==
    ASSUME GroupInv, NEW b \in Clients, ClientStep(b)
    PROVE  /\ status'[b] \in {"off", "up"} => b \notin Left /\ Left' = Left
           /\ status'[b] \notin {"off", "up"} => Left' = Left \cup {b}
<1>1. \A c \in Clients \ {b} : status'[c] = status[c]
  BY ClientStepFacts DEF Untouched
<1>2. Here(b)' => Here(b)
  BY ClientStepFacts
<1> QED  BY <1>1, <1>2 DEF Left, Here

LEMMA StepAgrees ==
    ASSUME GroupInv, PeerSessionAgrees', DistinctNicks, [Next]_vars
    PROVE  [Agreement!Next]_Agreement!vars
<1>1. CASE UNCHANGED clientVars
  BY <1>1 DEF Held, Left, Agreement!vars
<1>2. CASE UNCHANGED vars
  BY <1>1, <1>2 DEF vars
<1>3. ASSUME NEW b \in Clients, ClientStep(b) PROVE [Agreement!Next]_Agreement!vars
  <2>1. CASE Files(b) /\ shaker[b] # "server"
    <3>1. PICK d \in Clients : shaker[b] = Nick[d]
      BY <2>1 DEF Files, Peers, Names
    <3>2. d # b
      BY <3>1 DEF GroupInv, Single, NotSelf
    <3>3. Agreement!Obtain(b, d)
      BY <1>3, <2>1, <3>1, <3>2, HeldObtained
    <3> QED  BY <3>3 DEF Agreement!Next
  <2>2. CASE ~(Files(b) /\ shaker[b] # "server") /\ status'[b] \notin {"off", "up"}
    <3>1. \A d \in Clients : HeldKey(b, d)' = Agreement!Nothing[d]
      BY <2>2 DEF HeldKey, Agreement!Nothing
    <3>2. Agreement!Nothing = [d \in Clients |-> Agreement!Nothing[d]]
      BY DEF Agreement!Nothing
    <3>3. Held' = [Held EXCEPT ![b] = Agreement!Nothing]
      BY <1>3, <3>1, <3>2, HeldOfOne
    <3>4. Left' = Left \cup {b}
      BY <1>3, <2>2, LeftStep
    <3>5. CASE b \notin Left
      BY <1>3, <3>3, <3>4, <3>5 DEF Agreement!Leave, Agreement!Next
    <3>6. CASE b \in Left
      <4>1. Left' = Left
        BY <3>4, <3>6
      <4>2. \A d \in Clients : HeldKey(b, d)' = HeldKey(b, d)
        BY <3>6, <2>2 DEF Left, HeldKey
      <4>3. \A c \in Clients \ {b} : \A d \in Clients : HeldKey(c, d)' = HeldKey(c, d)
        BY <1>3, ClientStepFacts DEF Untouched, HeldKey
      <4>4. \A c, d \in Clients : HeldKey(c, d)' = HeldKey(c, d)
        BY <4>2, <4>3
      <4>5. Held' = Held
        BY <4>4, HeldIs
      <4> QED  BY <4>1, <4>5 DEF Agreement!vars
    <3> QED  BY <3>5, <3>6
  <2>3. CASE ~(Files(b) /\ shaker[b] # "server") /\ status'[b] \in {"off", "up"}
    <3> DEFINE gone == {d \in Clients : HeldKey(b, d)' # HeldKey(b, d)}
               k == [d \in Clients |-> IF d \in gone THEN NoKey ELSE Held[b][d]]
    <3>1. status'[b] = "up"
      BY <1>3, <2>3, StatusStep, ClientStepFacts DEF GroupInv
    <3>2. \A d \in gone : d \in Left /\ HeldKey(b, d)' = NoKey
      BY <1>3, <2>3, <3>1, HeldForgotten
    <3>3. \A d \in Clients : HeldKey(b, d)' = k[d]
      BY <3>2, HeldIs
    <3>4. k = [d \in Clients |-> k[d]]
      OBVIOUS
    <3>5. Held' = [Held EXCEPT ![b] = k]
      <4> HIDE DEF k
      <4> QED  BY <1>3, <3>3, <3>4, HeldOfOne
    <3>6. Left' = Left
      BY <1>3, <2>3, LeftStep
    <3>7. PICK G \in SUBSET Clients : G = gone
      OBVIOUS
    <3>8. Held' = [Held EXCEPT ![b] = [d \in Clients |-> IF d \in G THEN NoKey ELSE @[d]]]
      <4>1. Held = [c \in Clients |-> Held[c]]
        BY HeldIs
      <4> QED  BY <1>3, <3>5, <3>7, <4>1
    <3>9. Agreement!Forget(b, G)
      BY <3>2, <3>6, <3>7, <3>8 DEF Agreement!Forget
    <3> QED  BY <1>3, <3>9 DEF Agreement!Next
  <2> QED  BY <2>1, <2>2, <2>3
<1> QED
  BY <1>1, <1>2, <1>3 DEF Next, ServerStep, ResetStep

LEMMA InitAgrees ==
    ASSUME Init
    PROVE  Agreement!Init
<1>1. \A c, d \in Clients : HeldKey(c, d) = NoKey
  BY DEF Init, ClientInit, HeldKey
<1>2. Left = {}
  BY DEF Init, ClientInit, Left
<1> QED
  BY <1>1, <1>2, HeldIs DEF Agreement!Init, Agreement!Nothing

\* The handshake machines of the clients, the channel that wakes H, the relay of
\* the server and its leave notices together keep what SessionAgreement promises:
\* each end gets a key once, the second end that of the first, nobody else has it,
\* and neither gives it up before the other has left.
THEOREM ImplementsAgreement ==
    ASSUME DistinctNicks
    PROVE  Spec => SessionsAgreed
<1>1. Init => Agreement!Init
  BY InitAgrees
<1>2. GroupInv /\ PeerSessionAgrees' /\ [Next]_vars => [Agreement!Next]_Agreement!vars
  BY StepAgrees
<1> QED
  BY <1>1, <1>2, GroupInvariantHolds, PeersAgreeAlways, PTL DEF Spec, SessionsAgreed, Agreement!Spec

-----------------------------------------------------------------------------
(* The server's keys *)

LEMMA ServerKeysDiffer ==
    ASSUME GroupInv
    PROVE  ServerKeysDifferOnlyThus
<1> DEFINE num(i) == [by |-> "server", n |-> i]
<1>1. SUFFICES ASSUME NEW c \in Online, "server" \in known[c], key[c] # NoKey,
                      key[c] # session[c]["server"]
               PROVE  \/ \E x \in Drawn(c), i, j \in 1..sdraws :
                           /\ i < j
                           /\ session[c]["server"].secret = {x, num(i)}
                           /\ key[c].secret = {x, num(j)}
                      \/ /\ session[c]["server"].secret = key[c].secret
                         /\ session[c]["server"].secret \in HighSecrets
  BY DEF ServerKeysDifferOnlyThus
<1>2. /\ c \in Clients /\ "server" \in Peers /\ "server" # Nick[c] /\ c # "server"
      /\ \A d \in Clients : Nick[d] # "server"
  BY PeerFacts, NameFacts, ProtocolAssumption DEF Online
<1>3. /\ KeyOfTwo(c) /\ SessionEndToEnd(c) /\ KeysDerived(c)
      /\ ServerNumbers(c) /\ LastNumber(c) /\ sdraws \in Nat
  BY <1>2 DEF GroupInv, ClientInv, Single, ServerInv, TablesType
<1>4. PICK x \in key[c].secret, j \in 1..sdraws :
         /\ key[c] = ServerKey(SharedSecret(num(j), x))
         /\ x.by = c /\ Committed(c, "server", x)
  BY <1>1, <1>3 DEF KeyOfTwo
<1>5. PICK mine \in Drawn(c), theirs \in session[c]["server"].secret :
         /\ session[c]["server"].secret = {mine, theirs}
         /\ theirs \in Num /\ NameOf(theirs.by) = "server"
  BY <1>1, <1>2, <1>3 DEF SessionEndToEnd, SharedSecret
<1>6. theirs.by = "server"
  <2>1. theirs.by \in Clients \cup {"server"}
    BY <1>5 DEF Num
  <2> QED  BY <1>2, <1>5, <2>1 DEF NameOf
<1>7. x = mine
  <2>1. x \in session[c]["server"].secret
    BY <1>1, <1>4 DEF Committed
  <2> QED  BY <1>2, <1>4, <1>5, <1>6, <2>1
<1>8. key[c].secret = {x, num(j)}
  BY <1>4 DEF ServerKey, SharedSecret
<1>9. theirs \in Heard(c)
  BY <1>2, <1>5, InHeard
<1>10. theirs.n \in 1..sdraws /\ theirs = num(theirs.n)
  <2>1. theirs.n \in Nat \ {0} /\ theirs = [by |-> theirs.by, n |-> theirs.n]
    BY <1>5 DEF Num
  <2>2. theirs.n <= sdraws
    BY <1>3, <1>6, <1>9 DEF ServerNumbers, Shared
  <2> QED  BY <1>3, <1>6, <2>1, <2>2
<1>11. theirs.n <= j
  <2>1. num(j) \in key[c].secret /\ num(j).by = "server" /\ num(j).n = j
    BY <1>8
  <2> HIDE DEF num
  <2> QED  BY <1>1, <1>3, <1>6, <1>9, <2>1 DEF LastNumber
<1>12. CASE theirs.n = j
  <2>1. session[c]["server"] = ClientKey(session[c]["server"].secret)
    BY <1>1, <1>2, <1>3 DEF KeysDerived
  <2> DEFINE s == {x, num(j)}
  <2>2. session[c]["server"].secret = s /\ key[c].secret = s
    BY <1>5, <1>7, <1>8, <1>10, <1>12
  <2>3. session[c]["server"] = ClientKey(s) /\ key[c] = ServerKey(s)
    BY <1>4, <2>1, <2>2 DEF SharedSecret
  <2> HIDE DEF s
  <2>4. s \notin HighSecrets => ClientKey(s) = ServerKey(s)
    <3>1. SUFFICES ASSUME s \notin HighSecrets PROVE ClientKey(s) = ServerKey(s)
      OBVIOUS
    <3>2. (s \in HighSecrets) = FALSE
      BY <3>1
    <3> QED  BY <3>2 DEF ClientKey, ServerKey
  <2> QED  BY <1>1, <2>2, <2>3, <2>4
<1>13. CASE theirs.n < j
  <2>1. session[c]["server"].secret = {x, num(theirs.n)} /\ x \in Drawn(c)
    BY <1>5, <1>7, <1>10
  <2> HIDE DEF num
  <2> QED  BY <1>8, <1>10, <1>13, <2>1
<1> QED
  BY <1>3, <1>10, <1>11, <1>12, <1>13

\* The server's key for a client is the client's own unless the server has drawn a
\* later number for a repeated request of that client, or the secret of the two
\* has its top bit set.
THEOREM ServerKeysDifferOnlyAsSaid ==
    ASSUME DistinctNicks
    PROVE  Spec => []ServerKeysDifferOnlyThus
<1>1. GroupInv => ServerKeysDifferOnlyThus
  BY ServerKeysDiffer
<1> QED
  BY <1>1, GroupInvariantHolds, PTL
-----------------------------------------------------------------------------
(* Sender keys are sealed end to end *)

\* In every step, what clients have drawn stays drawn.
LEMMA AllDrawnStays ==
    ASSUME GroupInv, [Next]_vars, NEW c \in Clients
    PROVE  \A x \in Drawn(c) : x \in Drawn(c)'
<1>1. ASSUME draws'[c] = draws[c] PROVE Drawn(c)' = Drawn(c)
  BY <1>1 DEF Drawn
<1>2. CASE UNCHANGED clientVars
  BY <1>1, <1>2
<1>3. ASSUME NEW b \in Clients, ClientStep(b) PROVE \A x \in Drawn(c) : x \in Drawn(c)'
  <2>1. CASE c = b
    BY <1>3, <2>1, DrawnStays DEF ClientStep, GroupInv
  <2>2. CASE c # b
    BY <1>1, <1>3, <2>2, ClientStepFacts DEF Untouched
  <2> QED  BY <2>1, <2>2
<1> QED
  BY <1>2, <1>3 DEF Next, ServerStep, ResetStep, vars

SealedOut(c) ==
    \A i \in 1..Len(outbox[c]) :
        outbox[c][i].type = "sender_key" =>
            outbox[c][i].body.val = c /\ Sealed(c, outbox[c][i].body.key)

SealedIn(c) ==
    \A i \in 1..Len(inbox[c]) :
        inbox[c][i].type = "sender_key" =>
            Sealed(inbox[c][i].body.val, inbox[c][i].body.key)

LEMMA SealedParts ==
    SealedEndToEnd <=> \A c \in Clients : SenderKeySealed(c) /\ SealedOut(c) /\ SealedIn(c)
  BY DEF SealedEndToEnd, SealedOut, SealedIn

\* Who owns a sender key is a client.
LEMMA OwnerIsClient ==
    ASSUME NEW m \in Message, m.type = "sender_key"
    PROVE  m.body.val \in Clients
  BY MessageKinds DEF KeyMsgs

\* What is sent is what K has built.
LEMMA SealedSent ==
    ASSUME GroupInv, SealedEndToEnd, NEW b \in Clients, ClientStep(b), [Next]_vars,
           NEW c \in Clients
    PROVE  SealedOut(c)' /\ SealedIn(c)'
<1> DEFINE stays == \A d \in Clients : \A x \in Drawn(d) : x \in Drawn(d)'
<1>1. stays /\ SealedOut(c) /\ SealedIn(c) /\ SenderKeySealed(c)
  BY AllDrawnStays, SealedParts
<1>2. outbox[c] \in Seq(Message) /\ inbox[c] \in Seq(Message) /\ Len(inbox[c]) \in Nat
  BY DEF GroupInv, ClientsTyped, NetType
<1>3. SealedOut(c)'
  <2>1. CASE outbox'[c] = outbox[c]
    BY <1>1, <2>1 DEF SealedOut, Sealed
  <2>2. ASSUME c = b,
               NEW m \in Message, outbox' = [outbox EXCEPT ![c] = Append(@, m)],
               m.type = "sender_key" => m = kmsg[c] /\ kmsg[c] # NoMsg
        PROVE  SealedOut(c)'
    <3>1. outbox'[c] = Append(outbox[c], m)
      BY <2>2 DEF GroupInv, ClientsTyped, NetType
    <3>2. SUFFICES ASSUME NEW i \in 1..Len(outbox'[c]), outbox'[c][i].type = "sender_key"
                   PROVE  /\ outbox'[c][i].body.val = c
                          /\ Sealed(c, outbox[c][i].body.key)'
      BY DEF SealedOut
    <3>3. (i \in 1..Len(outbox[c]) /\ outbox'[c][i] = outbox[c][i]) \/ outbox'[c][i] = m
      BY <1>2, <3>1
    <3>4. m.type = "sender_key" => m.body.val = c /\ Sealed(c, m.body.key)
      BY <1>1, <2>2 DEF SenderKeySealed
    <3> QED  BY <1>1, <3>2, <3>3, <3>4 DEF SealedOut, Sealed
  <2>3. CASE c # b
    BY <2>1, <2>3, ClientStepFacts DEF Untouched
  <2> QED  BY <2>1, <2>2, <2>3, ClientStepFacts DEF Sends
<1>4. SealedIn(c)'
  <2>1. \A i \in 1..Len(inbox'[c]) :
           \E j \in 1..Len(inbox[c]) : inbox'[c][i] = inbox[c][j]
    BY ClientStepFacts DEF Reads, Untouched
  <2>2. SUFFICES ASSUME NEW i \in 1..Len(inbox'[c]), inbox'[c][i].type = "sender_key"
                 PROVE  Sealed(inbox[c][i].body.val, inbox[c][i].body.key)'
    BY DEF SealedIn
  <2>3. PICK j \in 1..Len(inbox[c]) : inbox'[c][i] = inbox[c][j]
    BY <2>1
  <2>4. inbox[c][j] \in Message /\ inbox[c][j].body.val \in Clients
    BY <1>2, <2>2, <2>3, OwnerIsClient
  <2>5. Sealed(inbox[c][j].body.val, inbox[c][j].body.key)
    BY <1>1, <2>2, <2>3 DEF SealedIn
  <2> QED
    BY <1>1, <2>3, <2>4, <2>5 DEF Sealed
<1> QED
  BY <1>3, <1>4

\* The relay passes a sender key on as it is.
LEMMA SealedRelayed ==
    ASSUME GroupInv, DistinctNicks, SealedEndToEnd, NEW e \in Clients, Handle(e),
           UNCHANGED clientVars, NEW c \in Clients
    PROVE  SealedOut(c)' /\ SealedIn(c)'
<1>1. SealedOut(c) /\ SealedOut(e) /\ SealedIn(c) /\ \A d \in Clients : Drawn(d)' = Drawn(d)
  BY SealedParts DEF Drawn
<1>2. SealedOut(c)'
  BY <1>1, Waiting DEF SealedOut, Sealed
<1>3. SealedIn(c)'
  <2>1. SUFFICES ASSUME NEW i \in 1..Len(inbox'[c]), inbox'[c][i].type = "sender_key"
                 PROVE  Sealed(inbox[c][i].body.val, inbox[c][i].body.key)'
    BY DEF SealedIn
  <2>2. inbox[c] \in Seq(Message) /\ outbox[e] \in Seq(Message)
    BY DEF GroupInv, ClientsTyped, NetType
  <2>3. CASE i \in 1..Len(inbox[c]) /\ inbox'[c][i] = inbox[c][i]
    <3>1. inbox[c][i].body.val \in Clients
      BY <2>1, <2>2, <2>3, OwnerIsClient
    <3> QED  BY <1>1, <2>1, <2>3, <3>1 DEF SealedIn, Sealed
  <2>4. CASE Delivers(e, c, inbox'[c][i])
    <3>1. TakenFrom(e, inbox'[c][i])
      BY <2>1, <2>4, AnswerFacts DEF Delivers, Answer, BuildJson
    <3>2. inbox'[c][i] = outbox[e][1] /\ 1 \in 1..Len(outbox[e])
      BY <3>1, HeadTaken DEF TakenFrom
    <3>3. inbox'[c][i].body.val = e /\ Sealed(e, inbox'[c][i].body.key)
      BY <1>1, <2>1, <3>2 DEF SealedOut
    <3> QED  BY <1>1, <3>3 DEF Sealed
  <2> QED  BY <2>3, <2>4, EntryAfter
<1> QED
  BY <1>2, <1>3

LEMMA SealedStep ==
    ASSUME GroupInv, GroupInv', DistinctNicks, SealedEndToEnd, [Next]_vars
    PROVE  SealedEndToEnd'
<1>1. \A c \in Clients : SenderKeySealed(c)'
  BY DEF GroupInv, ClientInv
<1>2. ASSUME NEW c \in Clients PROVE SealedOut(c)' /\ SealedIn(c)'
  <2>1. CASE UNCHANGED <<inbox, outbox, clientVars>>
    <3>1. SealedOut(c) /\ SealedIn(c) /\ \A d : Drawn(d)' = Drawn(d)
      BY <2>1, SealedParts DEF Drawn
    <3> QED  BY <2>1, <3>1 DEF SealedOut, SealedIn, Sealed
  <2>2. CASE ServerStep
    BY <2>1, <2>2, SealedRelayed DEF ServerStep, ServerNext, Watch, SetupClient
  <2>3. ASSUME NEW b \in Clients, ClientStep(b) PROVE SealedOut(c)' /\ SealedIn(c)'
    BY <2>3, SealedSent
  <2> QED
    BY <2>1, <2>2, <2>3 DEF Next, ResetStep, NetReset, vars
<1> QED
  BY <1>1, <1>2 DEF SealedEndToEnd, SealedOut, SealedIn

LEMMA InitSealed ==
    ASSUME Init
    PROVE  SealedEndToEnd
<1>1. \A c \in Clients : SenderKeySealed(c) /\ inbox[c] = <<>> /\ outbox[c] = <<>>
  BY ClientInitInv DEF Init, ClientInv, NetInit
<1>2. ASSUME NEW c \in Clients PROVE SealedOut(c) /\ SealedIn(c)
  <2>1. Len(inbox[c]) = 0 /\ Len(outbox[c]) = 0
    BY <1>1
  <2>2. 1..Len(inbox[c]) = {} /\ 1..Len(outbox[c]) = {}
    BY <2>1
  <2> QED  BY <2>2 DEF SealedOut, SealedIn
<1> QED
  BY <1>1, <1>2, SealedParts

\* End-to-end encryption: no sender key is ever under way that the server, or
\* anybody but its owner and one other client, could decrypt.
THEOREM SenderKeysSealed ==
    ASSUME DistinctNicks
    PROVE  Spec => []SealedEndToEnd
<1>1. Init => SealedEndToEnd
  BY InitSealed
<1>2. GroupInv /\ GroupInv' /\ SealedEndToEnd /\ [Next]_vars => SealedEndToEnd'
  BY SealedStep
<1> QED
  BY <1>1, <1>2, GroupInvariantHolds, PTL DEF Spec

-----------------------------------------------------------------------------
(* Two clients: a sender key is for whom it is sent to *)

\* The entry of a client that is here stays as it is.
LEMMA EntryStays ==
    ASSUME GroupInv, DistinctNicks, NEW c \in Clients, NEW d \in Clients \ {c}, Here(d),
           [Next]_vars, Nick[d] \in known[c]
    PROVE  Nick[d] \in known'[c] /\ session'[c][Nick[d]] = session[c][Nick[d]]
<1>1. Nick[d] # Nick[c] /\ Nick[d] \in Peers
  BY PeerFacts DEF DistinctNicks
<1>2. CASE UNCHANGED <<known, session>>
  BY <1>2
<1>3. ASSUME NEW b \in Clients, ClientStep(b)
      PROVE  Nick[d] \in known'[c] /\ session'[c][Nick[d]] = session[c][Nick[d]]
  <2>1. CASE b # c
    BY <1>3, <2>1, ClientStepFacts DEF Untouched
  <2>2. CASE b = c /\ Drops(c)
    <3>1. inbox[c][1].type = "leave" /\ 1 \in 1..Len(inbox[c]) /\ Head(inbox[c]) = inbox[c][1]
      BY <2>2, HeadOfInbox DEF Drops, GroupInv
    <3>2. LeaveTold(d, c)
      BY DEF GroupInv, Pair
    <3>3. inbox[c][1].body.name # Nick[d]
      BY <3>1, <3>2 DEF LeaveTold
    <3> QED  BY <1>1, <2>2, <3>1, <3>3 DEF Drops
  <2>3. CASE b = c /\ ~Drops(c)
    <3>1. MachineMove(c)
      BY <1>3, <2>3, ClientStepFacts
    <3> QED
      BY <1>1, <2>3, <3>1 DEF MachineMove, DicSame, Joins, Begins, Completes, Asks, Files
  <2> QED  BY <2>1, <2>2, <2>3
<1> QED
  BY <1>2, <1>3 DEF Next, ServerStep, ResetStep, vars

\* Nobody exchanges sender keys with itself.
LEMMA NotWithSelfStep ==
    ASSUME GroupInv, SealedEndToEnd, NEW c \in Clients, ClientStep(c), NotWithSelf(c)
    PROVE  NotWithSelf(c)'
<1> USE PeerFacts
<1>1. /\ TaskNext(c) /\ NotSelf(c)
      /\ exch \in [Clients -> Names \cup {Null}] /\ hcur \in [Clients -> Peers \cup {Null}]
      /\ kmsg \in [Clients -> KeyMsgs \cup {NoMsg}]
  BY DEF ClientStep, GroupInv, Single, ClientsTyped, RatchetType, LocalType
<1>2. Nick[c] # Null /\ NoMsg.to # Nick[c]
  BY ProtocolAssumption DEF NoMsg, BuildJson
<1>3. exch'[c] # Nick[c]
  <2>1. CASE RecvSenderKey(c)
    <3> DEFINE m == Head(inbox[c])
    <3>1. exch' = exch \/ (exch' = [exch EXCEPT ![c] = m.from] /\ session[c][m.from] = m.body.key)
      BY <2>1 DEF RecvSenderKey, Fault
    <3>2. m.type = "sender_key" /\ m = inbox[c][1] /\ 1 \in 1..Len(inbox[c])
      BY <2>1, HeadOfInbox DEF RecvSenderKey, Receiving, GroupInv
    <3>3. Sealed(m.body.val, m.body.key)
      BY <3>2, SealedParts DEF SealedIn
    <3>4. m.body.key # NoKey
      BY <3>3 DEF Sealed, NoKey
    <3>5. m.from = Nick[c] => session[c][m.from] # m.body.key
      BY <1>1, <3>4 DEF NotSelf
    <3> HIDE DEF m
    <3> QED  BY <1>1, <3>1, <3>5 DEF NotWithSelf
  <2>2. CASE HStartKey(c)
    BY <1>1, <2>2 DEF HStartKey, NotWithSelf
  <2>3. CASE KMark(c) \/ KFinish(c)
    BY <1>1, <1>2, <2>3 DEF KMark, KFinish, RatchetToIdle, NotWithSelf
  <2>4. CASE UNCHANGED ratVars
    BY <2>4 DEF NotWithSelf
  <2> QED  BY <1>1, <2>1, <2>2, <2>3, <2>4, StepFrame DEF Frame
<1>4. hcur'[c] # Nick[c]
  <2>1. CASE HDone(c)
    BY <1>1, <2>1 DEF HDone, Fault, NotWithSelf, NotSelf
  <2>2. CASE HTake(c) \/ HAnswer(c) \/ HResend(c) \/ HPutKey(c)
    BY <2>2 DEF HTake, HRequest, HRespond, HAnswer, HResend, HPutKey, NotWithSelf
  <2>3. CASE HCheck(c) \/ HStartKey(c)
    BY <1>1, <1>2, <2>3 DEF HCheck, HStartKey, Fault, NotWithSelf
  <2>4. CASE UNCHANGED hVars
    BY <2>4 DEF NotWithSelf
  <2> QED  BY <1>1, <2>1, <2>2, <2>3, <2>4, StepFrame DEF Frame
<1>5. kmsg'[c].to # Nick[c]
  <2>1. CASE KReadTo(c)
    BY <1>1, <2>1 DEF KReadTo, BuildJson, NotWithSelf
  <2>2. CASE KSeen(c) \/ KAnswer(c)
    BY <1>1, <1>2, <2>2 DEF KSeen, KAnswer
  <2>3. CASE KTake(c) \/ KReadKey(c) \/ KMark(c) \/ KResend(c) \/ KFinish(c)
    BY <2>3 DEF KTake, KReadKey, KMark, KResend, KFinish, Fault, NotWithSelf
  <2>4. CASE UNCHANGED kVars
    BY <2>4 DEF NotWithSelf
  <2> QED  BY <1>1, <2>1, <2>2, <2>3, <2>4, StepFrame DEF Frame
<1> QED
  BY <1>3, <1>4, <1>5 DEF NotWithSelf

\* K of c reads the key of the other client's entry and sends the message to
\* that client, whatever happens in between.
LEMMA KeyMeantStep ==
    ASSUME GroupInv, DistinctNicks, TwoClients, NEW c \in Clients, NEW d \in Clients \ {c},
           NotWithSelf(c), KeyMeant(c, d), NEW b \in Clients, ClientStep(b), [Next]_vars,
           Here(d)
    PROVE  KeyMeant(c, d)'
<1> USE PeerFacts
<1>1. CASE b # c
  <2>1. Untouched(c)
    BY <1>1, ClientStepFacts
  <2> QED  BY <2>1 DEF Untouched, KeyMeant
<1> SUFFICES ASSUME b = c PROVE KeyMeant(c, d)'
  BY <1>1
<1> DEFINE p == Nick[d]
<1>2. p \in known[c] => p \in known'[c] /\ session'[c][p] = session[c][p]
  BY EntryStays
<1>3. TaskNext(c) /\ LocalType /\ RatchetType /\ ExchangerSet(c) /\ ExchangeOpen(c)
  BY DEF ClientStep, GroupInv, ClientInv, ClientsTyped
<1>4. kpc[c] # "take" => exch[c] = p
  <2>1. kpc[c] # "take" => exch[c] \in Names
    BY <1>3 DEF ExchangerSet, ExchangeOpen, RatchetType
  <2>2. \A n \in Names : n = Nick[c] \/ n = p
    BY DEF Names, TwoClients
  <2> QED  BY <2>1, <2>2 DEF NotWithSelf
<1> HIDE DEF p
<1> DEFINE ReadOf(pc, k) == pc = "read_to" => p \in known'[c] /\ k = session'[c][p]
           SentOf(m) == m # NoMsg => /\ m.to = p /\ p \in known'[c]
                                     /\ m.body.key = session'[c][p]
<1>5. ReadOf(kpc[c], kkey[c]) /\ SentOf(kmsg[c])
  BY <1>2 DEF KeyMeant, p
<1>6. ReadOf(kpc'[c], kkey'[c]) /\ SentOf(kmsg'[c])
  <2>1. CASE UNCHANGED kVars
    BY <1>5, <2>1
  <2>2. CASE KReadKey(c)
    <3>1. \/ UNCHANGED kVars
          \/ /\ exch[c] \in known[c] /\ kpc[c] = "read_key" /\ UNCHANGED kmsg
             /\ kkey'[c] = session[c][exch[c]]
      BY <1>3, <2>2 DEF KReadKey, ExchangeKey, Fault, LocalType
    <3> QED  BY <1>2, <1>4, <1>5, <2>1, <3>1
  <2>3. CASE KReadTo(c)
    <3>1. /\ kpc[c] = "read_to" /\ kpc'[c] # "read_to"
          /\ kmsg'[c].to = exch[c] /\ kmsg'[c].body.key = kkey[c]
      BY <1>3, <2>3 DEF KReadTo, KBranch, BuildJson, LocalType
    <3> QED  BY <1>4, <1>5, <3>1
  <2>4. CASE KTake(c) \/ KMark(c) \/ KResend(c) \/ KSeen(c) \/ KAnswer(c) \/ KFinish(c)
    <3>1. /\ UNCHANGED kmsg \/ kmsg'[c] = NoMsg
          /\ kpc'[c] # "read_to" \/ UNCHANGED <<kpc, kkey>>
      BY <1>3, <2>4 DEF KTake, KMark, KResend, KSeen, KAnswer, KFinish, LocalType
    <3> QED  BY <1>5, <3>1
  <2> QED  BY <1>3, <2>1, <2>2, <2>3, <2>4, StepFrame DEF Frame
<1> QED
  BY <1>6 DEF KeyMeant, p

LEMMA ExchangeInvStep ==
    ASSUME GroupInv, DistinctNicks, TwoClients, SealedEndToEnd, ExchangeInv, [Next]_vars
    PROVE  ExchangeInv'
<1>1. CASE UNCHANGED clientVars
  BY <1>1 DEF ExchangeInv, NotWithSelf, KeyMeant, Here
<1>2. ASSUME NEW b \in Clients, ClientStep(b) PROVE ExchangeInv'
  <2>1. ASSUME NEW c \in Clients PROVE NotWithSelf(c)'
    <3>1. CASE c = b
      BY <1>2, <3>1, NotWithSelfStep DEF ExchangeInv
    <3>2. CASE c # b
      BY <1>2, <3>2, ClientStepFacts DEF Untouched, NotWithSelf, ExchangeInv
    <3> QED  BY <3>1, <3>2
  <2>2. ASSUME NEW c \in Clients, NEW d \in Clients \ {c} PROVE KeyMeant(c, d)'
    <3>1. CASE Here(d)
      BY <1>2, <3>1, KeyMeantStep DEF ExchangeInv
    <3>2. CASE ~Here(d)
      BY <1>2, <3>2, ClientStepFacts DEF KeyMeant
    <3> QED  BY <3>1, <3>2
  <2> QED  BY <2>1, <2>2 DEF ExchangeInv
<1> QED
  BY <1>1, <1>2 DEF Next, ServerStep, ResetStep, vars

LEMMA InitExchange ==
    ASSUME Init
    PROVE  ExchangeInv
<1>1. ASSUME NEW c \in Clients
      PROVE  /\ exch[c] = Null /\ hcur[c] = Null /\ kmsg[c] = NoMsg /\ kpc[c] = "take"
             /\ Nick[c] # Null /\ NoMsg.to = Null
  BY ProtocolAssumption DEF Init, ClientInit, NoMsg, BuildJson
<1> QED
  BY <1>1 DEF ExchangeInv, NotWithSelf, KeyMeant

\* The sender key a client sends is for the one it is sent to, in a chat of two,
\* at any pace of the handshakes and of the retries.
THEOREM SenderKeyMeant ==
    ASSUME DistinctNicks, TwoClients
    PROVE  Spec => []SenderKeyForRecipient
<1>1. Init => SealedEndToEnd /\ ExchangeInv
  BY InitSealed, InitExchange
<1>2. GroupInv /\ GroupInv' /\ SealedEndToEnd /\ ExchangeInv /\ [Next]_vars
         => (SealedEndToEnd /\ ExchangeInv)'
  BY SealedStep, ExchangeInvStep
<1>3. ExchangeInv => SenderKeyForRecipient
  <2>1. SUFFICES ASSUME ExchangeInv, NEW c \in Online, NEW d \in Online,
                        kmsg[c].to = Nick[d], Nick[d] \in known[c]
                 PROVE  kmsg[c].body.key = session[c][Nick[d]]
    BY DEF SenderKeyForRecipient
  <2>2. c \in Clients /\ d \in Clients \ {c} /\ Here(d)
    BY <2>1 DEF Online, Here, ExchangeInv, NotWithSelf
  <2>3. kmsg[c] # NoMsg
    BY <2>1, <2>2, ProtocolAssumption DEF NoMsg, BuildJson
  <2>4. KeyMeant(c, d)
    BY <2>1, <2>2 DEF ExchangeInv
  <2> QED  BY <2>2, <2>3, <2>4 DEF KeyMeant
<1> QED
  BY <1>1, <1>2, <1>3, GroupInvariantHolds, PTL DEF Spec

HIDE DEF clientVars, netVars, hsVars, ratVars, dicVars, queVars, rVars, hVars, kVars
=============================================================================
