----------------------------- MODULE GroupChat -----------------------------
(***************************************************************************)
(* The whole system: the clients, the server and the connections between   *)
(* them.  The users and the clock behave as in the example of the README   *)
(* in the respects that Patient names: somebody joins, types or leaves     *)
(* when those present have finished their exchanges, nobody joins under a  *)
(* nickname that is in use, and a request is repeated ("retry") only when  *)
(* neither it nor an answer is on its way, which is what a round trip      *)
(* shorter than the 100 ms of Task.Delay amounts to.  What Patient leaves  *)
(* out happens at any time.                                                *)
(***************************************************************************)
EXTENDS ChatClient, ChatServer

CONSTANTS Patient,
          Quitters     \* bound: the clients whose users may leave

ASSUME GroupAssumption ==
    /\ Patient \subseteq {"join", "type", "leave", "retry"}
    /\ Quitters \subseteq Clients

vars == <<netVars, clientVars, serverVars>>

Online == {c \in Clients : status[c] = "up"}

HasSenderKey(c, d) == Nick[d] \in known[c] /\ sender[c][Nick[d]] # Null

Quiet(c) ==
    /\ inbox[c] = <<>> /\ outbox[c] = <<>>
    /\ hstate[c] = "idle" /\ hpc[c] = "take"
    /\ rstate[c] = "idle" /\ kpc[c] = "take" /\ keyq[c] = <<>>
    /\ rpc[c] = "recv"

\* All exchanges between those present are over.
Settled ==
    /\ members = Online
    /\ \A c \in Online : Quiet(c)
    /\ \A c, d \in Online : HasSenderKey(c, d)

\* Packets that wait to be read, by the server or by a process that has not ended.
Unread(d) == Range(outbox[d]) \cup IF link[d] = "open" THEN Range(inbox[d]) ELSE {}

\* A packet of this type between the two names is among them.
InFlight(type, p, q) ==
    \E d \in Clients : \E m \in Unread(d) : m.type = type /\ {m.from, m.to} = {p, q}

\* The request H repeats is on its way, being answered, or answered.
DhUnderway(c) ==
    \/ InFlight("dh", Nick[c], shaker[c])
    \/ \E d \in Online :
          /\ Nick[d] = shaker[c]
          /\ \/ hstate[d] = "send_dh" /\ shaker[d] = Nick[c]
             \/ hpc[d] = "answer" /\ hmsg[d].to = Nick[c]

KeyUnderway(c) ==
    \/ InFlight("sender_key", Nick[c], kmsg[c].to)
    \/ \E d \in Online :
          /\ Nick[d] = kmsg[c].to
          /\ exch[d] = Nick[c] \/ kmsg[d].to = Nick[c]

NickFree(c) == \A d \in Online : Nick[d] # Nick[c]

InTurn(c) ==
    /\ "join" \in Patient /\ Connect(c) => Settled /\ NickFree(c)
    /\ "type" \in Patient /\ InputLine(c) => Settled
    /\ "leave" \in Patient /\ InputQuit(c) => Settled
    /\ "retry" \in Patient =>
          /\ HResend(c) /\ hsent[c] > 0 => ~DhUnderway(c)
          /\ KResend(c) /\ ksent[c] > 0 => ~KeyUnderway(c)

-----------------------------------------------------------------------------
ClientStep(c) ==
    /\ TaskNext(c)
    /\ InTurn(c)
    /\ status'[c] = "quit" => c \in Quitters
    /\ UNCHANGED serverVars

ServerStep == ServerNext /\ UNCHANGED clientVars

ResetStep(c) == NetReset(c) /\ UNCHANGED <<clientVars, serverVars>>

Init == NetInit /\ ClientInit /\ ServerInit

Next == ServerStep \/ \E c \in Clients : ClientStep(c) \/ ResetStep(c)

Spec == Init /\ [][Next]_vars

\* The server's thread and each loop of a client run when they can, and a process
\* whose loops are over ends.  Nobody has to join, type or leave.
Fairness ==
    /\ WF_vars(ServerStep)
    /\ \A c \in Clients :
          /\ WF_vars(ClientStep(c) /\ RNext(c))
          /\ WF_vars(ClientStep(c) /\ HNext(c))
          /\ WF_vars(ClientStep(c) /\ KNext(c))
          /\ WF_vars(ClientStep(c) /\ Exit(c))

FairSpec == Spec /\ Fairness

-----------------------------------------------------------------------------
\* A client has filed a session with the server whose secret has its top bit set.
TopBit ==
    \E c \in Clients :
        "server" \in known[c] /\ session[c]["server"].secret \in HighSecrets

\* In the README's scenario no loop of a client throws and the server lives, as
\* long as no secret of a client and the server has its top bit set: from then on
\* that client fails at its first notice, and others may fail with it.
NobodyFails == TopBit \/ (serverUp /\ \A c \in Clients : status[c] # "faulted")

\* At any pace there are only two ways for the ends of a client-server session to
\* have different keys.  Either the server has drawn a later number for a repeated
\* request of this very client: both keys are made of the same number of the
\* client, its own of an earlier number of the server.  Or the numbers are the
\* same and the secret has its top bit set.
ServerKeysDifferOnlyThus ==
    \A c \in Online :
        "server" \in known[c] /\ key[c] \notin {NoKey, session[c]["server"]} =>
            LET mine == session[c]["server"].secret
                its  == key[c].secret
            IN  \/ \E x \in Drawn(c), i, j \in 1..sdraws :
                      /\ i < j
                      /\ mine = {x, [by |-> "server", n |-> i]}
                      /\ its = {x, [by |-> "server", n |-> j]}
                \/ mine = its /\ mine \in HighSecrets

\* Two clients that have a session with each other have the same key.
PeerSessionAgrees ==
    \A c, d \in Online :
        c # d /\ Nick[d] \in known[c] /\ Nick[c] \in known[d] =>
            session[c][Nick[d]] = session[d][Nick[c]]

\* The session keys of the clients that run, as the parties of SessionAgreement.
Held == [c \in Clients |-> [d \in Clients |->
            IF status[c] = "up" /\ c # d /\ Nick[d] \in known[c]
            THEN session[c][Nick[d]] ELSE NoKey]]

\* A client has left from the step on in which its user quits or a loop throws.
Left == {c \in Clients : status[c] \notin {"off", "up"}}

Agreement == INSTANCE SessionAgreement
                 WITH Parties <- Clients, None <- NoKey, held <- Held, left <- Left

\* Whoever joins, repeats, answers or leaves when, the two handshake machines,
\* the channel that wakes H, the relay and the leave notices together implement
\* SessionAgreement.
SessionsAgreed == Agreement!Spec

\* The sender key a client sends is encrypted under the session key it shares
\* with the client it is sent to, unless that client is gone.
SenderKeyForRecipient ==
    \A c, d \in Online :
        kmsg[c].to = Nick[d] /\ Nick[d] \in known[c] =>
            kmsg[c].body.key = session[c][Nick[d]]

\* End-to-end encryption: from K's read of the key until the recipient takes the
\* message from its socket, a sender key is under a key that its owner and one
\* other client can derive, so the server never relays one it could open.
SealedEndToEnd ==
    \A c \in Clients :
        /\ SenderKeySealed(c)
        /\ \A i \in 1..Len(outbox[c]) :
              outbox[c][i].type = "sender_key" =>
                  outbox[c][i].body.val = c /\ Sealed(c, outbox[c][i].body.key)
        /\ \A i \in 1..Len(inbox[c]) :
              inbox[c][i].type = "sender_key" =>
                  Sealed(inbox[c][i].body.val, inbox[c][i].body.key)

\* H is in its resend loop for p.
WaitsFor(c, p) == c \in Online /\ hpc[c] = "resend" /\ shaker[c] = p

\* With two nicknames in use, each by one process after the other, H repeats its
\* request for ever only if the server, from some time on, has no route from that
\* name to a client that runs.  (Among three, a peer may itself wait for somebody
\* else for ever.)
HandshakeCompletes ==
    \A c \in Clients, p \in Peers :
        <>[]WaitsFor(c, p) => p \in Names /\ <>[](name2sock[p] \notin Online)

\* The exchange of sender keys comes to an end: from some time on nobody answers
\* a sender key with its own any more.
ExchangeEnds == \A c \in Clients : <>[](c \notin Online \/ kpc[c] # "answer")

\* Two clients that are in the chat end up with each other's sender key.
KeysExchanged ==
    \A c, d \in Clients :
        (c \in Online /\ d \in Online)
            ~> (c \notin Online \/ d \notin Online
                \/ (HasSenderKey(c, d) /\ HasSenderKey(d, c)))
=============================================================================
