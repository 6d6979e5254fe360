--------------------------- MODULE GroupInvariant ---------------------------
(***************************************************************************)
(* What every step of the whole chat preserves when no two clients use the *)
(* same nickname, at whatever pace they join, repeat, type, leave or fail: *)
(* where the numbers of a client may be and which of its sessions they are *)
(* for, and what the notices in a socket say about both.                   *)
(***************************************************************************)
EXTENDS GroupChat, ClientInvariant, ServerInvariant

DistinctNicks == \A c, d \in Clients : Nick[c] = Nick[d] => c = d

\* Not on its way out.
Here(c) == status[c] \in {"off", "up"}

\* Sessions filed under this name are not given up.
Present(p) == p = "server" \/ \E d \in Clients : Nick[d] = p /\ Here(d)

\* The number that c uses, or is about to use, for its session with p is x.
Committed(c, p, x) ==
    IF p \in known[c]
    THEN x \in session[c][p].secret
    ELSE hstate[c] # "idle" /\ shaker[c] = p /\ x = mynum[c]

\* Numbers that c has received, and those in its socket.
Kept(c) == {opnum[c]} \cup UNION {session[c][p].secret : p \in Peers}
Coming(c) == {inbox[c][i].body : i \in {j \in 1..Len(inbox[c]) : inbox[c][j].type = "dh"}}
Heard(c) == Kept(c) \cup Coming(c)

\* Numbers of the server's session with c, as it has come so far.
Shared(c) == Heard(c) \cup key[c].secret

-----------------------------------------------------------------------------
\* A connection exists exactly from Connect on and is closed by Exit only;
\* before it, nothing is known, sent or received.
Linked(c) ==
    /\ status[c] = "off" <=> link[c] = "none"
    /\ status[c] = "closed" <=> link[c] \in {"shut", "probed", "reset"}
    /\ status[c] = "off" =>
          /\ inbox[c] = <<>> /\ outbox[c] = <<>> /\ dhq[c] = <<>>
          /\ opnum[c] = Zero /\ hmsg[c] = NoMsg

\* A number leaves c for the peer whose session it is for.
ForItsSession(c, m) ==
    m.type = "dh" =>
        /\ m.from = Nick[c] /\ m.body.by = c /\ m.to # Nick[c]
        /\ Present(m.to) => Committed(c, m.to, m.body)

SentHonestly(c) ==
    /\ \A i \in 1..Len(outbox[c]) : ForItsSession(c, outbox[c][i])
    /\ ForItsSession(c, hmsg[c])

\* The request to the server goes out before any number for a peer.
ToServer(m) == m.type = "dh" /\ m.to = "server"
ToPeer(m)   == m.type = "dh" /\ m.to # "server"

ServerBeforePeers(c) ==
    /\ \A i \in 1..Len(outbox[c]) :
          ToPeer(outbox[c][i]) =>
              /\ "server" \in known[c]
              /\ \A j \in i..Len(outbox[c]) : ~ToServer(outbox[c][j])
    /\ hmsg[c].type = "dh" => (hmsg[c].to = "server" <=> "server" \notin known[c])
    /\ "server" \notin known[c] => dhq[c] # <<"rcv_first">> /\ rpc[c] # "put_dh"

\* A handshake with a peer that has an entry is one that c answers, and that
\* throws before a number leaves.
SecondRefused(c) ==
    hstate[c] # "idle" /\ shaker[c] \in known[c] =>
        /\ hstate[c] = "send_dh" /\ dhq[c] # <<"send_first">>
        /\ rpc[c] = "put_dh" => rtok[c] = "rcv_first"

\* Nobody has a handshake or a session with itself.
NotSelf(c) ==
    /\ shaker[c] # Nick[c] /\ session[c][Nick[c]] = NoKey
    /\ \A i \in 1..Len(inbox[c]) :
          inbox[c][i].type = "enter" => inbox[c][i].body.name # Nick[c]

\* The server's key for c is made of a number of c, that of the session c has
\* or is making, and of one of its own.
KeyOfTwo(c) ==
    key[c] # NoKey =>
        \E x \in key[c].secret, n \in 1..sdraws :
            /\ key[c] = ServerKey(SharedSecret([by |-> "server", n |-> n], x))
            /\ x.by = c /\ Committed(c, "server", x)

\* The server's numbers have been drawn.
ServerNumbers(c) == \A x \in Shared(c) : x.by = "server" => x.n <= sdraws

\* The server's key for c is made of the last number it has sent to c.
LastNumber(c) ==
    key[c] # NoKey =>
        \A x \in Heard(c), y \in key[c].secret :
            x.by = "server" /\ y.by = "server" => x.n <= y.n

-----------------------------------------------------------------------------
\* A number of c that d has received is the one of c's session with d.
NumbersMeant(c, d) ==
    Here(d) => \A x \in Heard(d) : x.by = c => Committed(c, Nick[d], x)

\* c has its session with the server and asks it for no other.
Past(c) ==
    "server" \in known[c] /\ \A i \in 1..Len(outbox[c]) : ~ToServer(outbox[c][i])

\* Numbers of c reach others when that is so, ...
HeardAfterwards(c, d) == (\E x \in Heard(d) : x.by = c) => Past(c)

\* ... and after the notice that c has entered.
EnterFirst(c, d) ==
    \A i \in 1..Len(inbox[d]) :
        inbox[d][i].type = "enter" /\ inbox[d][i].body.name = Nick[c] =>
            /\ \A j \in 1..i : inbox[d][j].type = "dh" => inbox[d][j].body.by # c
            /\ \A x \in Kept(d) : x.by # c

\* Who has left according to a notice is not here any more.
LeaveTold(c, d) ==
    \A i \in 1..Len(inbox[d]) :
        inbox[d][i].type = "leave" /\ inbox[d][i].body.name = Nick[c] => ~Here(c)

\* A number of the server serves for one client.
ServerNumbersApart(c, d) ==
    \A x \in Shared(c) : x.by = "server" => x \notin Shared(d)

-----------------------------------------------------------------------------
\* What holds of each client ...
Single(c) ==
    /\ Linked(c) /\ SentHonestly(c) /\ ServerBeforePeers(c) /\ SecondRefused(c)
    /\ NotSelf(c) /\ KeyOfTwo(c) /\ ServerNumbers(c) /\ LastNumber(c)

\* ... and of each two of them.
Pair(c, d) ==
    /\ NumbersMeant(c, d) /\ HeardAfterwards(c, d) /\ EnterFirst(c, d)
    /\ LeaveTold(c, d) /\ ServerNumbersApart(c, d)

\* The inductive invariant.
GroupInv ==
    /\ ClientsTyped /\ ServerInv
    /\ \A c \in Clients : ClientInv(c) /\ Single(c)
    /\ \A c, d \in Clients : c # d => Pair(c, d)

-----------------------------------------------------------------------------
(* The exchange of sender keys between two clients *)

TwoClients == \A c, d, e \in Clients : c = d \/ d = e \/ c = e

\* Nobody exchanges sender keys with itself.
NotWithSelf(c) ==
    exch[c] # Nick[c] /\ hcur[c] # Nick[c] /\ kmsg[c].to # Nick[c]

\* The key K has read is still that of the entry for d, and so is that of the
\* message it has built.
KeyMeant(c, d) ==
    Here(d) =>
        /\ kpc[c] = "read_to" => Nick[d] \in known[c] /\ kkey[c] = session[c][Nick[d]]
        /\ kmsg[c] # NoMsg =>
              /\ kmsg[c].to = Nick[d] /\ Nick[d] \in known[c]
              /\ kmsg[c].body.key = session[c][Nick[d]]

\* Inductive together with GroupInv and SealedEndToEnd when there are two clients.
ExchangeInv ==
    /\ \A c \in Clients : NotWithSelf(c)
    /\ \A c, d \in Clients : c # d => KeyMeant(c, d)
=============================================================================
