----------------------------- MODULE ChatClient -----------------------------
(***************************************************************************)
(* The chat client: Program, ServerConnector, ClientRunner, the Handshake  *)
(* state machine, the Ratchet and the four concurrent loops of Sender and  *)
(* Reciever.                                                               *)
(*                                                                         *)
(*   R  Reciever.LoopRecieveAsync    reads the socket, drives both machines *)
(*   H  Sender.LoopHandshakeAsync    woken by dh_exchange_queue            *)
(*   K  Sender.LoopSenderAsync       woken by key_exchange_queue           *)
(*   I  Sender.LoopInputAsync        chat lines and /quit                  *)
(*                                                                         *)
(* The loops run on thread-pool threads.  One step of the model is a piece *)
(* of one loop in which no other loop can observe or disturb it: a section *)
(* under a semaphore, a read made outside of one, a socket send, a queue   *)
(* operation.  R's tests of MyState are merged with the section they guard *)
(* because no other loop moves the handshake machine out of the two states *)
(* tested (HandshakeOwner below says so); tests and reads of the ratchet,  *)
(* where that is not so, are steps of their own.  A local that is dead is   *)
(* set back to its initial value.                                          *)
(*                                                                         *)
(* An exception in any loop completes ClientRunner's WhenAny, which        *)
(* cancels the other loops: the process is "faulted" and takes no further  *)
(* step until it exits and the operating system closes the socket.         *)
(***************************************************************************)
EXTENDS Network

CONSTANTS MaxSends,   \* bound: sends of one request, retries included ...
          Endless,    \* ... unless this is TRUE
          MaxLines    \* bound: chat lines a user types

ASSUME ClientBounds ==
    MaxSends \in Nat \ {0} /\ Endless \in BOOLEAN /\ MaxLines \in Nat

VARIABLES
    status,    \* "off", "up", "quit", "faulted", "closed"
    \* HandshakeStateMachine and DHShare
    hstate, shaker, mynum, opnum,
    draws,     \* exponents drawn so far; the last one is DHShare.myPow
    \* Ratchet
    rstate, exch,
    known, session, sender,    \* whoNkey_dic: its keys, and the two key fields
    \* the two channels of capacity 1
    dhq, keyq,
    \* program counters and locals of R, H and K
    rpc, rtok, hpc, hmsg, hcur, hsent, kpc, ktok, kkey, kmsg, ksent,
    lines      \* chat lines typed so far

hsVars   == <<hstate, shaker, mynum, opnum, draws>>
ratVars  == <<rstate, exch>>
dicVars  == <<known, session, sender>>
queVars  == <<dhq, keyq>>
rVars    == <<rpc, rtok>>
hVars    == <<hpc, hmsg, hcur, hsent>>
kVars    == <<kpc, ktok, kkey, kmsg, ksent>>
clientVars == <<status, hsVars, ratVars, dicVars, queVars,
                rVars, hVars, kVars, lines>>

HState == {"idle", "send_dh", "rcved_dh", "waiting_for_rcv_dh"}
RState == {"idle", "send_key", "rcved_key", "waiting_for_rcv_key"}
Token  == {"send_first", "rcv_first"}

NoMsg == BuildJson("none", Null, Null, Null)

-----------------------------------------------------------------------------
(* Pieces shared by the steps *)

\* An exception ends the loop it is thrown in, and with it the client.
Fault(c) ==
    /\ status' = [status EXCEPT ![c] = "faulted"]
    /\ UNCHANGED <<netVars, hsVars, ratVars, dicVars, queVars,
                   rVars, hVars, kVars, lines>>

\* sock.SendAsync under sock_semaphore, of a packet MakeBytesFormat made.
Send(c, m) == NetSend(c, m)

\* RecieveAsync and ReadNBytesAsync return one whole packet.
Take(c) == NetTake(c)

\* Mutant: the request is sent once.
SendOnce(n) == n = 0

\* The resend loops have no bound of their own.
MayResend(n) == n < MaxSends \/ Endless
CountSend(n) == IF n < MaxSends THEN n + 1 ELSE n

Receiving(c, type) ==
    /\ status[c] = "up"
    /\ rpc[c] = "recv"
    /\ inbox[c] # <<>>
    /\ Head(inbox[c]).type = type

\* Mutant: a number is drawn although my_bignum is set.
DrawNumberAlways(c) ==
    /\ draws' = [draws EXCEPT ![c] = @ + 1]
    /\ mynum' = [mynum EXCEPT ![c] = [by |-> c, n |-> draws[c] + 1]]

\* DHShare.MakeMyNum, unless my_bignum is already set.
DrawNumber(c) ==
    IF mynum[c] = Zero
    THEN /\ draws' = [draws EXCEPT ![c] = @ + 1]
         /\ mynum' = [mynum EXCEPT ![c] = [by |-> c, n |-> draws[c] + 1]]
    ELSE UNCHANGED <<draws, mynum>>

SetHState(c, s) == hstate' = [hstate EXCEPT ![c] = s]

SetMyState_ToSendDH(c) == DrawNumber(c) /\ SetHState(c, "send_dh")

SetMyState_ToRcvedDH(c) == DrawNumber(c) /\ SetHState(c, "rcved_dh")

\* Dictionary.Add throws on a key that is present, and on null.
CanAdd(c, who) == who \notin known[c] /\ who # Null

\* Mutant: the entry of a peer that has left is kept.
RemoveNothing(c, who) == UNCHANGED dicVars

\* Dictionary.Remove does nothing for a key that is absent.
RemoveData(c, who) ==
    /\ known'   = [known EXCEPT ![c] = @ \ {who}]
    /\ session' = [session EXCEPT ![c] =
                      [p \in Peers |-> IF p = who THEN NoKey ELSE @[p]]]
    /\ sender'  = [sender EXCEPT ![c] =
                      [p \in Peers |-> IF p = who THEN Null ELSE @[p]]]

\* GetSharedSecret: the secret comes from DHShare.myPow, the exponent drawn
\* last, and AddData files the key under CurrentHandShaker.
GetSharedSecret(c) ==
    LET secret == SharedSecret([by |-> c, n |-> draws[c]], opnum[c])
    IN  /\ known'   = [known EXCEPT ![c] = @ \cup {shaker[c]}]
        /\ session' = [session EXCEPT ![c][shaker[c]] = ClientKey(secret)]
        /\ sender'  = [sender EXCEPT ![c][shaker[c]] = Null]

\* Mutant: my_bignum is not set back to 0.
ResetKeepsNumber(c) ==
    /\ shaker' = [shaker EXCEPT ![c] = Null]
    /\ opnum'  = [opnum EXCEPT ![c] = Zero]
    /\ SetHState(c, "idle")
    /\ UNCHANGED <<draws, mynum>>

\* Mutant: my_state is not set to idle.
ResetKeepsState(c) ==
    /\ shaker' = [shaker EXCEPT ![c] = Null]
    /\ mynum'  = [mynum EXCEPT ![c] = Zero]
    /\ opnum'  = [opnum EXCEPT ![c] = Zero]
    /\ UNCHANGED <<draws, hstate>>

\* The assignments of SetMyState_ToIdle.
ResetMachine(c) ==
    /\ shaker' = [shaker EXCEPT ![c] = Null]
    /\ mynum'  = [mynum EXCEPT ![c] = Zero]
    /\ opnum'  = [opnum EXCEPT ![c] = Zero]
    /\ SetHState(c, "idle")
    /\ UNCHANGED draws

SetMyState_ToIdle(c) == GetSharedSecret(c) /\ ResetMachine(c)

\* The server's session key opens a notice: AccessData("server"), Decrypt.
OpensNotice(c, m) ==
    "server" \in known[c] /\ session[c]["server"] = m.body.key

-----------------------------------------------------------------------------
(* Start: Program.Main, ServerConnector.Init, Sender's constructor, Init *)

Connect(c) ==
    /\ status[c] = "off"
    /\ NetConnect(c)
    /\ status' = [status EXCEPT ![c] = "up"]
    /\ SetMyState_ToSendDH(c)
    /\ known'  = [known EXCEPT ![c] = {Nick[c]}]
    /\ sender' = [sender EXCEPT ![c][Nick[c]] = c]
    /\ dhq'    = [dhq EXCEPT ![c] = <<"send_first">>]
    /\ UNCHANGED <<shaker, opnum, ratVars, session, keyq,
                   rVars, hVars, kVars, lines>>

-----------------------------------------------------------------------------
(* R: LoopRecieveAsync *)

\* AccessData or Decrypt throws when the sender's key is not there.
RecvMessage(c) ==
    /\ Receiving(c, "message")
    /\ LET m == Head(inbox[c])
       IN  IF m.from \in known[c] /\ sender[c][m.from] = m.body
           THEN /\ Take(c)
                /\ UNCHANGED <<status, hsVars, ratVars, dicVars, queVars,
                               rVars, hVars, kVars, lines>>
           ELSE Fault(c)

\* Mutant: whoever answers first.
IsAnyAnswer(c, m) == hstate[c] = "waiting_for_rcv_dh"

\* The answer R waits for.
IsAnswer(c, m) == hstate[c] = "waiting_for_rcv_dh" /\ m.from = shaker[c]

\* A dh number: the answer, a request, or nothing that can be used now.
RecvDh(c) ==
    /\ Receiving(c, "dh")
    /\ Take(c)
    /\ LET m == Head(inbox[c])
       IN  \/ /\ IsAnswer(c, m)
              /\ opnum' = [opnum EXCEPT ![c] = m.body]
              /\ SetMyState_ToRcvedDH(c)
              /\ UNCHANGED <<shaker, rVars>>
           \/ /\ hstate[c] = "idle"
              /\ opnum'  = [opnum EXCEPT ![c] = m.body]
              /\ shaker' = [shaker EXCEPT ![c] = m.from]
              /\ SetMyState_ToSendDH(c)
              /\ rpc'  = [rpc EXCEPT ![c] = "put_dh"]
              /\ rtok' = [rtok EXCEPT ![c] = "rcv_first"]
           \/ /\ hstate[c] # "idle" /\ ~IsAnswer(c, m)
              /\ UNCHANGED <<hsVars, rVars>>
    /\ UNCHANGED <<status, ratVars, dicVars, queVars, hVars, kVars, lines>>

\* Under ratchet_semaphore: CurrentExchanger is overwritten whatever the
\* ratchet is doing, and a token always follows.
RecvSenderKey(c) ==
    /\ Receiving(c, "sender_key")
    /\ LET m == Head(inbox[c])
       IN  IF m.from \in known[c] /\ session[c][m.from] = m.body.key
           THEN /\ Take(c)
                /\ exch'   = [exch EXCEPT ![c] = m.from]
                /\ sender' = [sender EXCEPT ![c][m.from] = m.body.val]
                /\ rstate' = [rstate EXCEPT ![c] =
                                 CASE @ = "waiting_for_rcv_key" -> "rcved_key"
                                   [] @ = "idle"                -> "send_key"
                                   [] OTHER                     -> @]
                /\ rpc'    = [rpc EXCEPT ![c] = "put_key"]
                /\ rtok'   = [rtok EXCEPT ![c] = "rcv_first"]
                /\ UNCHANGED <<status, hsVars, known, session, queVars,
                               hVars, kVars, lines>>
           ELSE Fault(c)

\* Someone entered: start a handshake, unless one is under way.
RecvEnter(c) ==
    /\ Receiving(c, "enter")
    /\ LET m == Head(inbox[c])
       IN  \/ /\ hstate[c] = "idle"
              /\ OpensNotice(c, m)
              /\ Take(c)
              /\ shaker' = [shaker EXCEPT ![c] = m.body.name]
              /\ SetMyState_ToSendDH(c)
              /\ rpc'  = [rpc EXCEPT ![c] = "put_dh"]
              /\ rtok' = [rtok EXCEPT ![c] = "send_first"]
              /\ UNCHANGED <<status, opnum, ratVars, dicVars, queVars,
                             hVars, kVars, lines>>
           \/ hstate[c] = "idle" /\ ~OpensNotice(c, m) /\ Fault(c)
           \/ /\ hstate[c] # "idle"
              /\ Take(c)
              /\ UNCHANGED <<status, hsVars, ratVars, dicVars, queVars,
                             rVars, hVars, kVars, lines>>

\* Someone left: unlike an entry, decrypted in every handshake state.
RecvLeave(c) ==
    /\ Receiving(c, "leave")
    /\ LET m == Head(inbox[c])
       IN  IF OpensNotice(c, m)
           THEN /\ Take(c)
                /\ RemoveData(c, m.body.name)
                /\ UNCHANGED <<status, hsVars, ratVars, queVars,
                               rVars, hVars, kVars, lines>>
           ELSE Fault(c)

\* ReceiveAsync returns 0 bytes: "server closed" is thrown.
RecvClosed(c) ==
    /\ status[c] = "up" /\ rpc[c] = "recv"
    /\ ~serverUp /\ inbox[c] = <<>>
    /\ Fault(c)

\* WriteAsync on a bounded channel waits while the channel is full.
PutDh(c) ==
    /\ status[c] = "up" /\ rpc[c] = "put_dh"
    /\ dhq[c] = <<>>
    /\ dhq' = [dhq EXCEPT ![c] = <<rtok[c]>>]
    /\ rtok' = [rtok EXCEPT ![c] = "rcv_first"]
    /\ rpc' = [rpc EXCEPT ![c] = "recv"]
    /\ UNCHANGED <<status, netVars, hsVars, ratVars, dicVars, keyq,
                   hVars, kVars, lines>>

\* Mutant: an unbounded channel.
PutKeyUnbounded(c) ==
    /\ status[c] = "up" /\ rpc[c] = "put_key"
    /\ keyq' = [keyq EXCEPT ![c] = Append(@, rtok[c])]
    /\ rtok' = [rtok EXCEPT ![c] = "rcv_first"]
    /\ rpc'  = [rpc EXCEPT ![c] = "recv"]
    /\ UNCHANGED <<status, netVars, hsVars, ratVars, dicVars, dhq,
                   hVars, kVars, lines>>

PutKey(c) ==
    /\ status[c] = "up" /\ rpc[c] = "put_key"
    /\ keyq[c] = <<>>
    /\ keyq' = [keyq EXCEPT ![c] = <<rtok[c]>>]
    /\ rtok' = [rtok EXCEPT ![c] = "rcv_first"]
    /\ rpc'  = [rpc EXCEPT ![c] = "recv"]
    /\ UNCHANGED <<status, netVars, hsVars, ratVars, dicVars, dhq,
                   hVars, kVars, lines>>

RNext(c) ==
    \/ RecvMessage(c) \/ RecvDh(c) \/ RecvSenderKey(c) \/ RecvEnter(c)
    \/ RecvLeave(c) \/ RecvClosed(c) \/ PutDh(c) \/ PutKey(c)

-----------------------------------------------------------------------------
(* H: LoopHandshakeAsync *)

\* Mutant: the request is built and the machine left in send_dh.
HRequestKeepsState(c) ==
    /\ hmsg'  = [hmsg EXCEPT ![c] =
                    BuildJson("dh", Nick[c], shaker[c], mynum[c])]
    /\ hpc'   = [hpc EXCEPT ![c] = "resend"]
    /\ UNCHANGED <<status, hsVars, dicVars, hcur, hsent>>

\* ReadAsync, the test for send_dh, and the request or the answer it builds.
\* The answer's machine is idle again before the answer is sent.
HRequest(c) ==
    /\ SetHState(c, "waiting_for_rcv_dh")
    /\ hmsg'  = [hmsg EXCEPT ![c] =
                    BuildJson("dh", Nick[c], shaker[c], mynum[c])]
    /\ hpc'   = [hpc EXCEPT ![c] = "resend"]
    /\ UNCHANGED <<status, shaker, mynum, opnum, draws, dicVars, hcur, hsent>>

\* Mutant: the machine is reset before the answer is built.
HRespondLate(c) ==
    /\ CanAdd(c, shaker[c])
    /\ SetMyState_ToIdle(c)
    /\ hmsg' = [hmsg EXCEPT ![c] = BuildJson("dh", Nick[c], shaker[c], Zero)]
    /\ hpc'  = [hpc EXCEPT ![c] = "answer"]
    /\ UNCHANGED <<status, hcur, hsent>>

HRespond(c) ==
    \/ /\ CanAdd(c, shaker[c])
       /\ SetMyState_ToIdle(c)
       /\ hmsg' = [hmsg EXCEPT ![c] =
                      BuildJson("dh", Nick[c], shaker[c], mynum[c])]
       /\ hpc'  = [hpc EXCEPT ![c] = "answer"]
       /\ UNCHANGED <<status, hcur, hsent>>
    \/ /\ ~CanAdd(c, shaker[c])
       /\ status' = [status EXCEPT ![c] = "faulted"]
       /\ UNCHANGED <<hsVars, dicVars, hVars>>

HTake(c) ==
    /\ status[c] = "up" /\ hpc[c] = "take"
    /\ dhq[c] # <<>>
    /\ dhq' = [dhq EXCEPT ![c] = <<>>]
    /\ IF hstate[c] = "send_dh"
       THEN IF Head(dhq[c]) = "send_first" THEN HRequest(c) ELSE HRespond(c)
       ELSE UNCHANGED <<status, hsVars, dicVars, hVars>>
    /\ UNCHANGED <<netVars, ratVars, keyq, rVars, kVars, lines>>

HAnswer(c) ==
    /\ status[c] = "up" /\ hpc[c] = "answer"
    /\ Send(c, hmsg[c])
    /\ hpc'  = [hpc EXCEPT ![c] = "take"]
    /\ hmsg' = [hmsg EXCEPT ![c] = NoMsg]
    /\ UNCHANGED <<status, hsVars, ratVars, dicVars, queVars, rVars,
                   hcur, hsent, kVars, lines>>

\* One turn of "repeat untill I get response".
HResend(c) ==
    /\ status[c] = "up" /\ hpc[c] = "resend"
    /\ hstate[c] # "rcved_dh"
    /\ MayResend(hsent[c])
    /\ Send(c, hmsg[c])
    /\ hsent' = [hsent EXCEPT ![c] = CountSend(@)]
    /\ UNCHANGED <<status, hsVars, ratVars, dicVars, queVars, rVars,
                   hpc, hmsg, hcur, kVars, lines>>

HDone(c) ==
    /\ status[c] = "up" /\ hpc[c] = "resend"
    /\ hstate[c] = "rcved_dh"
    /\ IF CanAdd(c, shaker[c])
       THEN /\ SetMyState_ToIdle(c)
            /\ hcur' = [hcur EXCEPT ![c] = shaker[c]]
            /\ hmsg' = [hmsg EXCEPT ![c] = NoMsg]
            /\ hsent' = [hsent EXCEPT ![c] = 0]
            /\ hpc'  = [hpc EXCEPT ![c] = "check"]
            /\ UNCHANGED <<status, netVars, ratVars, queVars, rVars,
                           kVars, lines>>
       ELSE Fault(c)

\* AccessData(current_handshaker), outside of any semaphore.
HCheck(c) ==
    /\ status[c] = "up" /\ hpc[c] = "check"
    /\ IF hcur[c] \in known[c]
       THEN /\ IF sender[c][hcur[c]] = Null /\ hcur[c] # "server"
               THEN /\ hpc' = [hpc EXCEPT ![c] = "start_key"]
                    /\ UNCHANGED hcur
               ELSE /\ hpc'  = [hpc EXCEPT ![c] = "take"]
                    /\ hcur' = [hcur EXCEPT ![c] = Null]
            /\ UNCHANGED <<status, netVars, hsVars, ratVars, dicVars, queVars,
                           rVars, hmsg, hsent, kVars, lines>>
       ELSE Fault(c)

HStartKey(c) ==
    /\ status[c] = "up" /\ hpc[c] = "start_key"
    /\ exch'   = [exch EXCEPT ![c] = hcur[c]]
    /\ rstate' = [rstate EXCEPT ![c] = "send_key"]
    /\ hpc'    = [hpc EXCEPT ![c] = "put_key"]
    /\ hcur'   = [hcur EXCEPT ![c] = Null]
    /\ UNCHANGED <<status, netVars, hsVars, dicVars, queVars, rVars,
                   hmsg, hsent, kVars, lines>>

HPutKey(c) ==
    /\ status[c] = "up" /\ hpc[c] = "put_key"
    /\ keyq[c] = <<>>
    /\ keyq' = [keyq EXCEPT ![c] = <<"send_first">>]
    /\ hpc'  = [hpc EXCEPT ![c] = "take"]
    /\ UNCHANGED <<status, netVars, hsVars, ratVars, dicVars, dhq, rVars,
                   hmsg, hcur, hsent, kVars, lines>>

HNext(c) ==
    \/ HTake(c) \/ HAnswer(c) \/ HResend(c) \/ HDone(c)
    \/ HCheck(c) \/ HStartKey(c) \/ HPutKey(c)

-----------------------------------------------------------------------------
(* K: LoopSenderAsync *)

\* Mutant: only an exchange begun here is taken up.
MustSendKeyFirst(c) ==
    rstate[c] = "send_key" /\ keyq[c] = <<"send_first">>

MustSendKey(c) == rstate[c] = "send_key"

KTake(c) ==
    /\ status[c] = "up" /\ kpc[c] = "take"
    /\ keyq[c] # <<>>
    /\ keyq' = [keyq EXCEPT ![c] = <<>>]
    /\ IF MustSendKey(c)
       THEN /\ kpc'  = [kpc EXCEPT ![c] = "read_key"]
            /\ ktok' = [ktok EXCEPT ![c] = Head(keyq[c])]
       ELSE UNCHANGED <<kpc, ktok>>
    /\ UNCHANGED <<status, netVars, hsVars, ratVars, dicVars, dhq,
                   rVars, hVars, kkey, kmsg, ksent, lines>>

\* Mutant: the wrong entry of the dictionary.
ServerExchangeKey(c) == session[c]["server"]

ExchangeKey(c) == session[c][exch[c]]

\* CurrentExchanger is read twice without the semaphore: for the key ...
KReadKey(c) ==
    /\ status[c] = "up" /\ kpc[c] = "read_key"
    /\ IF exch[c] \in known[c] /\ ExchangeKey(c) # NoKey
       THEN /\ kkey' = [kkey EXCEPT ![c] = ExchangeKey(c)]
            /\ kpc'  = [kpc EXCEPT ![c] = "read_to"]
            /\ UNCHANGED <<status, netVars, hsVars, ratVars, dicVars, queVars,
                           rVars, hVars, ktok, kmsg, ksent, lines>>
       ELSE Fault(c)

\* Mutant: a key that begins an exchange is sent like an answer.
KBranchAnswer(c) == "answer"

KBranch(c) == IF ktok[c] = "send_first" THEN "mark" ELSE "answer"

\* ... and then for the recipient.
KReadTo(c) ==
    /\ status[c] = "up" /\ kpc[c] = "read_to"
    /\ kmsg' = [kmsg EXCEPT ![c] =
                   BuildJson("sender_key", Nick[c], exch[c],
                             [key |-> kkey[c], val |-> c])]
    /\ kkey' = [kkey EXCEPT ![c] = NoKey]
    /\ ktok' = [ktok EXCEPT ![c] = "rcv_first"]
    /\ kpc'  = [kpc EXCEPT ![c] = KBranch(c)]
    /\ UNCHANGED <<status, netVars, hsVars, ratVars, dicVars, queVars,
                   rVars, hVars, ksent, lines>>

KMark(c) ==
    /\ status[c] = "up" /\ kpc[c] = "mark"
    /\ rstate' = [rstate EXCEPT ![c] = "waiting_for_rcv_key"]
    /\ kpc'    = [kpc EXCEPT ![c] = "resend"]
    /\ UNCHANGED <<status, netVars, hsVars, exch, dicVars, queVars,
                   rVars, hVars, ktok, kkey, kmsg, ksent, lines>>

KResend(c) ==
    /\ status[c] = "up" /\ kpc[c] = "resend"
    /\ rstate[c] # "rcved_key"
    /\ MayResend(ksent[c])
    /\ Send(c, kmsg[c])
    /\ ksent' = [ksent EXCEPT ![c] = CountSend(@)]
    /\ UNCHANGED <<status, hsVars, ratVars, dicVars, queVars, rVars, hVars,
                   kpc, ktok, kkey, kmsg, lines>>

\* The loop's test is a read outside of the semaphore.
KSeen(c) ==
    /\ status[c] = "up" /\ kpc[c] = "resend"
    /\ rstate[c] = "rcved_key"
    /\ ksent' = [ksent EXCEPT ![c] = 0]
    /\ kpc' = [kpc EXCEPT ![c] = "finish"]
    /\ kmsg' = [kmsg EXCEPT ![c] = NoMsg]
    /\ UNCHANGED <<status, netVars, hsVars, ratVars, dicVars, queVars,
                   rVars, hVars, ktok, kkey, lines>>

KAnswer(c) ==
    /\ status[c] = "up" /\ kpc[c] = "answer"
    /\ Send(c, kmsg[c])
    /\ kpc'  = [kpc EXCEPT ![c] = "finish"]
    /\ kmsg' = [kmsg EXCEPT ![c] = NoMsg]
    /\ UNCHANGED <<status, hsVars, ratVars, dicVars, queVars, rVars, hVars,
                   ktok, kkey, ksent, lines>>

\* Mutant: CurrentExchanger is not set back to null.
RatchetToIdleKeeps(c) ==
    rstate' = [rstate EXCEPT ![c] = "idle"] /\ UNCHANGED exch

\* Ratchet.SetMyState_ToIdle.
RatchetToIdle(c) ==
    /\ rstate' = [rstate EXCEPT ![c] = "idle"]
    /\ exch'   = [exch EXCEPT ![c] = Null]

\* The end of both branches.
KFinish(c) ==
    /\ status[c] = "up" /\ kpc[c] = "finish"
    /\ RatchetToIdle(c)
    /\ kpc'    = [kpc EXCEPT ![c] = "take"]
    /\ UNCHANGED <<status, netVars, hsVars, dicVars, queVars, rVars, hVars,
                   ktok, kkey, kmsg, ksent, lines>>

KNext(c) ==
    \/ KTake(c) \/ KReadKey(c) \/ KReadTo(c) \/ KMark(c) \/ KResend(c)
    \/ KSeen(c) \/ KAnswer(c) \/ KFinish(c)

-----------------------------------------------------------------------------
(* I: LoopInputAsync, and the end of the process *)

InputLine(c) ==
    /\ status[c] = "up"
    /\ lines[c] < MaxLines
    /\ Send(c, BuildJson("message", Nick[c], "group", c))
    /\ lines' = [lines EXCEPT ![c] = @ + 1]
    /\ UNCHANGED <<status, hsVars, ratVars, dicVars, queVars,
                   rVars, hVars, kVars>>

InputQuit(c) ==
    /\ status[c] = "up"
    /\ status' = [status EXCEPT ![c] = "quit"]
    /\ UNCHANGED <<netVars, hsVars, ratVars, dicVars, queVars,
                   rVars, hVars, kVars, lines>>

\* The server is gone and SendAsync throws in H or K.
SendFails(c) ==
    /\ status[c] = "up" /\ ~serverUp
    /\ hpc[c] \in {"answer", "resend"} \/ kpc[c] \in {"answer", "resend"}
    /\ Fault(c)

\* The two writes to key_exchange_queue take no cancellation token: once K is
\* cancelled, a write to the full channel never returns.  Nor do the sends take it,
\* but here a connection always has room: see ClientShutdown and Backpressure.
Blocked(c) == keyq[c] # <<>> /\ (rpc[c] = "put_key" \/ hpc[c] = "put_key")

\* WhenAll waits for every loop and rethrows, so CloseSockAsync is passed
\* over; the process ends and its socket is closed for it, what it had not
\* read being lost.
Exit(c) ==
    /\ status[c] \in {"quit", "faulted"}
    /\ ~Blocked(c)
    /\ status' = [status EXCEPT ![c] = "closed"]
    /\ NetClose(c)
    /\ UNCHANGED <<hsVars, ratVars, dicVars, queVars,
                   rVars, hVars, kVars, lines>>

INext(c) == InputLine(c) \/ InputQuit(c) \/ SendFails(c) \/ Exit(c)

-----------------------------------------------------------------------------
ClientInit ==
    /\ status  = [c \in Clients |-> "off"]
    /\ hstate  = [c \in Clients |-> "idle"]
    /\ shaker  = [c \in Clients |-> "server"]
    /\ mynum   = [c \in Clients |-> Zero]
    /\ opnum   = [c \in Clients |-> Zero]
    /\ draws   = [c \in Clients |-> 0]
    /\ rstate  = [c \in Clients |-> "idle"]
    /\ exch    = [c \in Clients |-> Null]
    /\ known   = [c \in Clients |-> {}]
    /\ session = [c \in Clients |-> [p \in Peers |-> NoKey]]
    /\ sender  = [c \in Clients |-> [p \in Peers |-> Null]]
    /\ dhq     = [c \in Clients |-> <<>>]
    /\ keyq    = [c \in Clients |-> <<>>]
    /\ rpc     = [c \in Clients |-> "recv"]
    /\ rtok    = [c \in Clients |-> "rcv_first"]
    /\ hpc     = [c \in Clients |-> "take"]
    /\ hmsg    = [c \in Clients |-> NoMsg]
    /\ hcur    = [c \in Clients |-> Null]
    /\ hsent   = [c \in Clients |-> 0]
    /\ kpc     = [c \in Clients |-> "take"]
    /\ ktok    = [c \in Clients |-> "rcv_first"]
    /\ kkey    = [c \in Clients |-> NoKey]
    /\ kmsg    = [c \in Clients |-> NoMsg]
    /\ ksent   = [c \in Clients |-> 0]
    /\ lines   = [c \in Clients |-> 0]

TaskNext(c) == Connect(c) \/ RNext(c) \/ HNext(c) \/ KNext(c) \/ INext(c)

-----------------------------------------------------------------------------
(* What the loops may rely on *)

\* The dh channel and the handshake machine move together: in a client that
\* has not thrown, the machine is in send_dh exactly while one wake-up for H is in the channel or about to be
\* written by R.  Hence R's WriteAsync to a channel of capacity 1 never
\* blocks, no request is queued behind another, and H never finds the
\* machine in another state when it is woken.
DhWakeup(c) ==
    status[c] = "up" =>
        /\ hstate[c] = "send_dh" <=> dhq[c] # <<>> \/ rpc[c] = "put_dh"
        /\ dhq[c] = <<>> \/ rpc[c] # "put_dh"

\* The machine waits for an answer, or has it, exactly while H is in its
\* resend loop: R can neither complete a handshake H has left, nor start one
\* while H is inside, although R tests MyState without the semaphore.
HandshakeOwner(c) ==
    hpc[c] = "resend" <=> hstate[c] \in {"waiting_for_rcv_dh", "rcved_dh"}

\* While H resends, the peer and the number of the message it repeats are
\* still those the session key will be filed under and derived from.
RequestMatches(c) ==
    hpc[c] = "resend" =>
        /\ hmsg[c] = BuildJson("dh", Nick[c], shaker[c], mynum[c])
        /\ mynum[c] = [by |-> c, n |-> draws[c]]

\* Whenever a session key is about to be derived, the opponent's number is
\* one that CurrentHandShaker sent, never a third party's.
OpponentIsPeer(c) ==
    \/ hstate[c] = "rcved_dh"
    \/ hstate[c] = "send_dh" /\ dhq[c] = <<"rcv_first">>
    \/ rpc[c] = "put_dh" /\ rtok[c] = "rcv_first"
    => opnum[c].by # Null /\ NameOf(opnum[c].by) = shaker[c]

\* Numbers this client has drawn.
Drawn(c) == {[by |-> c, n |-> i] : i \in 1..draws[c]}

\* Every session key the client holds comes from one of its own numbers and one
\* that the peer it is filed under drew: two ends, no third party.
SessionEndToEnd(c) ==
    \A p \in known[c] \ {Nick[c]} :
        \E mine \in Drawn(c), theirs \in session[c][p].secret :
            /\ session[c][p].secret = SharedSecret(mine, theirs)
            /\ theirs \in Num /\ NameOf(theirs.by) = p

\* A key that only c and one other client can derive: one number is c's, the
\* other one that client's.
Sealed(c, k) ==
    \E mine \in Drawn(c), theirs \in k.secret :
        /\ theirs.by \in Clients \ {c}
        /\ k = ClientKey(SharedSecret(mine, theirs))

\* The sender key is encrypted under a session key shared with another client,
\* whatever CurrentExchanger has become: never under the server's session key
\* and never under none.
SenderKeySealed(c) ==
    /\ kpc[c] = "read_to" => Sealed(c, kkey[c])
    /\ kmsg[c] # NoMsg => kmsg[c].body.val = c /\ Sealed(c, kmsg[c].body.key)

\* No two of its session keys come from the same own number, nor does one
\* from the number of the handshake under way: DHShare.myPow is drawn anew for
\* every handshake.
FreshNumbers(c) ==
    \A x \in Drawn(c), p \in known[c] :
        x \in session[c][p].secret =>
            /\ x # mynum[c]
            /\ \A q \in known[c] \ {p} : x \notin session[c][q].secret

\* A client that is idle has its session with the server, so the enter
\* handler, which runs only when idle, finds the key it decrypts with.
IdleHasServer(c) ==
    status[c] # "off" /\ hstate[c] = "idle" => "server" \in known[c]

\* The ratchet names an exchanger exactly while it is not idle: K, which
\* reads CurrentExchanger without the semaphore, never reads null.
ExchangerSet(c) == rstate[c] = "idle" <=> exch[c] = Null

\* While the ratchet is in send_key, a token is in the key channel, or a loop is
\* about to write one, or K is at work.  A token may still be taken in vain: K
\* sets the ratchet to idle at the end of an exchange, also when H has set it to
\* send_key meanwhile, and then drops H's token.
KeyWakeup(c) ==
    rstate[c] = "send_key" =>
        \/ keyq[c] # <<>> \/ rpc[c] = "put_key" \/ hpc[c] = "put_key"
        \/ kpc[c] # "take"

=============================================================================
