-------------------------- MODULE OrderlyInvariant --------------------------
(***************************************************************************)
(* What keeps two clients and the server from failing when their users and *)
(* the clock behave as in the README's scenario (the whole of Patient):    *)
(* how far each conversation has come, and what the one who joins or       *)
(* leaves leaves alone.                                                    *)
(***************************************************************************)
EXTENDS GroupInvariant

Up(c) == status[c] = "up"

\* Neither a handshake nor an exchange is under way in c, and all it sent is read.
Resting(c) ==
    /\ outbox[c] = <<>>
    /\ hstate[c] = "idle" /\ hpc[c] = "take"
    /\ rstate[c] = "idle" /\ kpc[c] = "take" /\ keyq[c] = <<>>
    /\ rpc[c] = "recv"

-----------------------------------------------------------------------------
(* Connections, and who may join or leave *)

\* Connections are accepted once each, those of clients that are here.
AcceptedOnce ==
    /\ IsInjective(accepted) /\ IsInjective(backlog)
    /\ ToSet(accepted) \cap ToSet(backlog) = {}
    /\ members \subseteq ToSet(accepted)
    /\ \A c \in ToSet(accepted) : status[c] # "off"
    /\ \A c \in ToSet(backlog) : Up(c)

\* Who is not here rests, and who is about to leave is a member.
RestsUnlessUp(c) ==
    /\ Up(c) \/ Resting(c)
    /\ status[c] = "quit" => c \in members

\* d has not come, or it has gone and the server knows.
Absent(d) == status[d] = "off" \/ (status[d] = "closed" /\ d \notin members)

\* While c joins, d has its session with the server, or is not there.
JoinsAlone(c, d) ==
    Up(c) /\ "server" \notin known[c] => Absent(d) \/ (Up(d) /\ "server" \in known[d])

\* While c leaves, d rests, or is not there.
LeavesAlone(c, d) ==
    status[c] \in {"quit", "closed"} /\ c \in members =>
        Absent(d) \/ (Up(d) /\ Resting(d) /\ inbox[d] = <<>>)

\* When d is told that c has left, c is not there, d rests and nothing else comes.
ToldAlone(c, d) ==
    (\E m \in ToSet(inbox[d]) : m.type = "leave") =>
        /\ status[c] = "closed" /\ c \notin members
        /\ Up(d) /\ Resting(d)
        /\ \A m \in ToSet(inbox[d]) : m.type = "leave"

-----------------------------------------------------------------------------
(* Numbers in the streams *)

NumberTo(m, n)   == m.type = "dh" /\ m.to = n
NumberFrom(m, n) == m.type = "dh" /\ m.from = n
EntryOf(m, n)    == m.type = "enter" /\ m.body.name = n

NumbersTo(s, n)   == {i \in 1..Len(s) : NumberTo(s[i], n)}
NumbersFrom(s, n) == {i \in 1..Len(s) : NumberFrom(s[i], n)}
EntriesOf(s, n)   == {i \in 1..Len(s) : EntryOf(s[i], n)}

AtMostOne(S) == \A i, j \in S : i = j

\* A token for H that R is about to write, or that is in the channel.
Wakes(c, token) == (rpc[c] = "put_dh" /\ rtok[c] = token) \/ dhq[c] = <<token>>

-----------------------------------------------------------------------------
(* The handshake with the server *)

AsksServer(c) ==
    /\ hpc[c] = "resend" /\ shaker[c] = "server"
    /\ hsent[c] # 0 /\ hstate[c] = "waiting_for_rcv_dh"

\* One copy of the request, or of its answer, is somewhere; and where the answer
\* is, there is the number of the server's key.
ServerOnce(c) ==
    /\ AtMostOne(NumbersTo(outbox[c], "server"))
    /\ AtMostOne(NumbersFrom(inbox[c], "server"))
    /\ NumbersTo(outbox[c], "server") # {} =>
          AsksServer(c) /\ key[c] = NoKey /\ NumbersFrom(inbox[c], "server") = {}
    /\ NumbersFrom(inbox[c], "server") # {} => AsksServer(c)
    /\ \A m \in ToSet(outbox[c]) : NumberTo(m, "server") => m.body = mynum[c]
    /\ \A m \in ToSet(inbox[c]) :
          NumberFrom(m, "server") => key[c] = ServerKey({mynum[c], m.body})
    /\ hstate[c] = "rcved_dh" /\ shaker[c] = "server" =>
          key[c] = ServerKey({mynum[c], opnum[c]})

\* The two keys of the session with the server.
ServerAgrees(c) ==
    /\ Up(c) /\ "server" \in known[c] => key[c] = session[c]["server"]
    /\ Up(c) /\ "server" \notin known[c] =>
          /\ known[c] \subseteq {Nick[c]}
          /\ key[c] # NoKey =>
                hstate[c] = "rcved_dh" \/ NumbersFrom(inbox[c], "server") # {}

\* H counts the sends of one request, and answers peers only.
HandshakeLocals(c) ==
    /\ hpc[c] # "resend" => hsent[c] = 0
    /\ hpc[c] = "answer" => hmsg[c].to # "server"
    /\ hstate[c] = "send_dh" /\ Wakes(c, "rcv_first") => shaker[c] # "server"
    /\ hpc[c] = "check" => hcur[c] \in known[c]

\* Nothing a client has sent comes back to it, and its numbers are for it.
NoEcho(c) ==
    \A m \in ToSet(inbox[c]) :
        m.from # Nick[c] /\ (m.type = "dh" => m.to = Nick[c])

\* Every notice in the socket can be read.
NoticesReadable(c) ==
    \A m \in ToSet(inbox[c]) : m.type \in {"enter", "leave"} =>
        "server" \in known[c] /\ m.body.key = session[c]["server"]

-----------------------------------------------------------------------------
(* The handshake of d with c, that d begins *)

\* d has been told that c entered, and has not asked it yet.
Told(d, c)    == EntriesOf(inbox[d], Nick[c]) # {}
WillAsk(d, c) == Told(d, c) \/ (shaker[d] = Nick[c] /\ Wakes(d, "send_first"))
AsksPeer(d, c)   == hpc[d] = "resend" /\ shaker[d] = Nick[c]

\* Numbers of c for d on their way: none, or one.
NoneSent(c, d)   == NumbersTo(outbox[c], Nick[d]) = {}
NoneLanded(c, d) == NumbersFrom(inbox[d], Nick[c]) = {}
NoneOnWay(c, d)  == NoneSent(c, d) /\ NoneLanded(c, d)
OneOnWay(c, d) ==
    /\ AtMostOne(NumbersTo(outbox[c], Nick[d]))
    /\ AtMostOne(NumbersFrom(inbox[d], Nick[c]))
    /\ NoneSent(c, d) \/ NoneLanded(c, d)

\* c has the request of d in its hands; c has filed the session and not answered.
Takes(c, d)   == hstate[c] = "send_dh" /\ shaker[c] = Nick[d] /\ Wakes(c, "rcv_first")
Answers(c, d) == hpc[c] = "answer" /\ hmsg[c].to = Nick[d]

\* The request has not been taken up: one copy of it at most.
Requested(d, c) ==
    /\ OneOnWay(d, c) /\ NoneOnWay(c, d)
    /\ Takes(c, d) => NoneOnWay(d, c)
    /\ ~Answers(c, d) /\ hstate[d] = "waiting_for_rcv_dh"
    /\ hsent[d] = 0 => NoneOnWay(d, c) /\ ~Takes(c, d)

\* It has: one copy of the answer, somewhere.
Answered(d, c) ==
    /\ NoneOnWay(d, c) /\ ~Takes(c, d) /\ hsent[d] # 0
    /\ OneOnWay(c, d)
    /\ Answers(c, d) => NoneOnWay(c, d) /\ hstate[d] # "rcved_dh"
    /\ hstate[d] = "rcved_dh" => NoneOnWay(c, d)
    /\ Answers(c, d) \/ hstate[d] = "rcved_dh" \/ ~NoneOnWay(c, d)

\* Nothing of a handshake.
Silent(d, c) == NoneOnWay(d, c) /\ ~Takes(d, c) /\ ~Answers(d, c)

AsksOnce(d, c) ==
    /\ WillAsk(d, c) \/ AsksPeer(d, c) =>
          /\ Up(c) /\ Up(d) /\ "server" \in known[d] /\ key[c] # NoKey
          /\ ~WillAsk(c, d) /\ ~AsksPeer(c, d)
    /\ WillAsk(d, c) => Nick[d] \notin known[c]
    /\ AtMostOne(EntriesOf(inbox[d], Nick[c]))
    /\ Told(d, c) => ~AsksPeer(d, c) /\ ~(shaker[d] = Nick[c] /\ Wakes(d, "send_first"))
    /\ AsksPeer(d, c) => IF Nick[d] \in known[c] THEN Answered(d, c) ELSE Requested(d, c)
    /\ ~AsksPeer(d, c) /\ ~AsksPeer(c, d) => Silent(d, c)

-----------------------------------------------------------------------------
(* Sender keys and lines *)

\* c exchanges sender keys, or a sender key is in one of its streams.
Exchanging(c) ==
    \/ rstate[c] # "idle" \/ hpc[c] \in {"start_key", "put_key"}
    \/ hpc[c] = "check" /\ hcur[c] # "server"
    \/ \E m \in ToSet(outbox[c]) \cup ToSet(inbox[c]) : m.type = "sender_key"

\* Both have the session by then, and a sender key is encrypted with it.
ExchangeMeant(c, d) ==
    /\ Exchanging(c) => Up(c) /\ Up(d) /\ Nick[d] \in known[c] /\ Nick[c] \in known[d]
    /\ \A m \in ToSet(outbox[c]) : m.type = "sender_key" =>
          m.to = Nick[d] /\ m.body.key = session[c][Nick[d]]
    /\ \A m \in ToSet(inbox[c]) : m.type = "sender_key" =>
          m.from = Nick[d] /\ m.body = [key |-> session[d][Nick[c]], val |-> d]

\* Lines of d for c are encrypted with the sender key of d that c has.
LinesReadable(d, c) ==
    /\ sender[c][Nick[d]] \in {Null, d}
    /\ \A m \in ToSet(outbox[d]) : m.type = "message" =>
          m.body = d /\ (Up(c) => Nick[d] \in known[c] /\ sender[c][Nick[d]] = d)
    /\ \A m \in ToSet(inbox[c]) : m.type = "message" =>
          /\ m.from = Nick[d] /\ m.body = d
          /\ Nick[d] \in known[c] /\ sender[c][Nick[d]] = d

-----------------------------------------------------------------------------
\* The README's scenario with two clients: everybody waits for the others, and
\* there are descriptors enough.
OrderlyScenario ==
    /\ DistinctNicks /\ TwoClients
    /\ Patient = {"join", "type", "leave", "retry"}
    /\ MinFds >= 2

OrderlySingle(c) ==
    /\ status[c] # "faulted"
    /\ RestsUnlessUp(c) /\ ServerOnce(c) /\ ServerAgrees(c)
    /\ HandshakeLocals(c) /\ NoEcho(c) /\ NoticesReadable(c)

OrderlyPair(c, d) ==
    /\ JoinsAlone(c, d) /\ LeavesAlone(c, d) /\ ToldAlone(c, d)
    /\ AsksOnce(c, d) /\ ExchangeMeant(c, d) /\ LinesReadable(c, d)

\* Inductive together with GroupInv, SealedEndToEnd and ExchangeInv, in steps that
\* file no secret with its top bit set.
OrderlyInv ==
    /\ serverUp /\ AcceptedOnce
    /\ \A c \in Clients : OrderlySingle(c)
    /\ \A c, d \in Clients : c # d => OrderlyPair(c, d)
=============================================================================
