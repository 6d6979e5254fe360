-------------------------- MODULE ClientInvariant --------------------------
(***************************************************************************)
(* What every step of a client preserves, whatever reaches its socket:     *)
(* the types of the clients' variables, and for one client c the           *)
(* conjunction of what its loops may rely on with what that needs besides. *)
(***************************************************************************)
EXTENDS ChatClient

Status == {"off", "up", "quit", "faulted", "closed"}
RPc == {"recv", "put_dh", "put_key"}
HPc == {"take", "answer", "resend", "check", "start_key", "put_key"}
KPc == {"take", "read_key", "read_to", "mark", "resend", "answer", "finish"}

NetType ==
    /\ inbox \in [Clients -> Seq(Message)]
    /\ outbox \in [Clients -> Seq(Message)]
    /\ backlog \in Seq(Clients)
    /\ link \in [Clients -> Link]
    /\ serverUp \in BOOLEAN

MachineType ==
    /\ status \in [Clients -> Status]
    /\ hstate \in [Clients -> HState]
    /\ shaker \in [Clients -> Peers \cup {Null}]
    /\ mynum \in [Clients -> Num \cup {Zero}]
    /\ opnum \in [Clients -> Num \cup {Zero}]
    /\ draws \in [Clients -> Nat]

RatchetType ==
    /\ rstate \in [Clients -> RState]
    /\ exch \in [Clients -> Names \cup {Null}]

DictType ==
    /\ known \in [Clients -> SUBSET Peers]
    /\ session \in [Clients -> [Peers -> Key]]
    /\ sender \in [Clients -> [Peers -> Clients \cup {Null}]]

QueueType ==
    /\ dhq \in [Clients -> {<<>>} \cup {<<t>> : t \in Token}]
    /\ keyq \in [Clients -> {<<>>} \cup {<<t>> : t \in Token}]

LocalType ==
    /\ rpc \in [Clients -> RPc]
    /\ rtok \in [Clients -> Token]
    /\ hpc \in [Clients -> HPc]
    /\ hmsg \in [Clients -> DhMsgs \cup {NoMsg}]
    /\ hcur \in [Clients -> Peers \cup {Null}]
    /\ hsent \in [Clients -> Nat]
    /\ kpc \in [Clients -> KPc]
    /\ ktok \in [Clients -> Token]
    /\ kkey \in [Clients -> Key]
    /\ kmsg \in [Clients -> KeyMsgs \cup {NoMsg}]
    /\ ksent \in [Clients -> Nat]
    /\ lines \in [Clients -> Nat]

\* The clients' variables hold what the code can put in them; in particular
\* everything in flight is a well-formed message, and the two channels hold at
\* most their one token.
ClientsTyped ==
    /\ NetType /\ MachineType /\ RatchetType
    /\ DictType /\ QueueType /\ LocalType

-----------------------------------------------------------------------------
\* The handshake machine has a number and a peer exactly when it is not idle,
\* and the number is that of the exponent drawn last.
Engaged(c) ==
    /\ hstate[c] = "idle" <=> mynum[c] = Zero
    /\ hstate[c] # "idle" =>
          shaker[c] \in Peers /\ mynum[c] = [by |-> c, n |-> draws[c]]

\* Before Connect nothing has happened.
Unborn(c) ==
    status[c] = "off" =>
        /\ hstate[c] = "idle" /\ shaker[c] = "server"
        /\ rpc[c] = "recv" /\ hpc[c] = "take" /\ known[c] = {}

\* From Connect on, the server's session is there or is being made.
ServerFirst(c) ==
    status[c] # "off" =>
        "server" \in known[c] \/ (hstate[c] # "idle" /\ shaker[c] = "server")

\* A number that counts as the opponent's is not one's own.
OpponentIsOther(c) ==
    \/ hstate[c] = "rcved_dh"
    \/ hstate[c] = "send_dh" /\ dhq[c] = <<"rcv_first">>
    \/ rpc[c] = "put_dh" /\ rtok[c] = "rcv_first"
    => opnum[c] \in Num /\ opnum[c].by # c /\ NameOf(opnum[c].by) = shaker[c]

\* What waits in the socket is what senders send: a dh message carries a number
\* its sender drew, who is not this client.
InboxHonest(c) ==
    \A i \in 1..Len(inbox[c]) :
        /\ OwnNumber(inbox[c][i])
        /\ inbox[c][i].type = "dh" => inbox[c][i].body.by # c

\* The locals of H and K hold what the step ahead needs: the peer whose
\* handshake is finished, and a message that is built before it is sent.
LocalsReady(c) ==
    /\ hpc[c] = "check" => hcur[c] \in Peers
    /\ hpc[c] = "start_key" => hcur[c] \in Names
    /\ hpc[c] \in {"answer", "resend"} => hmsg[c] \in DhMsgs
    /\ kpc[c] \in {"mark", "resend", "answer"} =>
           kmsg[c] \in KeyMsgs /\ kmsg[c].from = Nick[c]

\* K is at work only on an exchange that is open.
ExchangeOpen(c) == kpc[c] # "take" => rstate[c] # "idle"

\* Own numbers in session keys have been drawn; each is in one key only, and
\* the number in use is in none, entries that were dropped included.
NumbersSpent(c) ==
    \A p \in Peers : \A x \in session[c][p].secret :
        x.by = c =>
            /\ x \in Drawn(c)
            /\ x # mynum[c]
            /\ \A q \in Peers \ {p} : x \notin session[c][q].secret

\* An entry for somebody else has the key GetSharedSecret derives from its two
\* numbers; where there is no entry there is no key.
KeysDerived(c) ==
    \A p \in Peers :
        /\ p \in known[c] /\ p # Nick[c] =>
               session[c][p] = ClientKey(session[c][p].secret)
        /\ p \notin known[c] => session[c][p] = NoKey

\* The session keys K can read are shared with other clients.
EntriesSealed(c) ==
    \A p \in Names : session[c][p] # NoKey => Sealed(c, session[c][p])

\* The conjunction that every step of client c preserves.
ClientInv(c) ==
    /\ DhWakeup(c) /\ HandshakeOwner(c) /\ Unborn(c)
    /\ Engaged(c) /\ RequestMatches(c)
    /\ InboxHonest(c) /\ OpponentIsOther(c)
    /\ ServerFirst(c)
    /\ LocalsReady(c) /\ ExchangerSet(c) /\ ExchangeOpen(c) /\ KeyWakeup(c)
    /\ SessionEndToEnd(c) /\ NumbersSpent(c) /\ KeysDerived(c)
    /\ EntriesSealed(c) /\ SenderKeySealed(c)
=============================================================================
