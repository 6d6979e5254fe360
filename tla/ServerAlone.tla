---------------------------- MODULE ServerAlone ----------------------------
(***************************************************************************)
(* The server among clients that connect, send what their nickname allows  *)
(* and disappear at any moment, also in the middle of a message; and a     *)
(* message may arrive in pieces.  Clients do not read here: the server     *)
(* never looks at what it has written, so inbox[c] is the whole of what it *)
(* wrote to c.                                                             *)
(***************************************************************************)
EXTENDS ServerInvariant

CONSTANTS Offered,    \* messages clients may send
          MaxSaid     \* bound: messages sent by all clients together

ASSUME AloneAssumption ==
    /\ \A m \in Offered : m \in Message /\ m.from \in Names /\ OwnNumber(m)
    /\ MaxSaid \in Nat

VARIABLE said         \* messages sent so far

vars == <<netVars, serverVars, said>>

Arrive(c) == NetConnect(c) /\ UNCHANGED <<serverVars, said>>

\* A client signs with its nickname and sends its own numbers and lines.
MadeBy(c, m) ==
    /\ m.from = Nick[c]
    /\ m.type = "dh" => m.body.by = c
    /\ m.type = "message" => m.body = c

Say(c) ==
    /\ serverUp
    /\ link[c] = "open"
    /\ said < MaxSaid
    /\ said' = said + 1
    /\ \E m \in Offered : MadeBy(c, m) /\ NetSend(c, m)
    /\ UNCHANGED serverVars

Leave(c) ==
    /\ serverUp
    /\ link[c] = "open"
    /\ NetClose(c)
    /\ UNCHANGED <<serverVars, said>>

\* The client dies with a message half sent.
Break(c) ==
    /\ serverUp
    /\ link[c] = "open"
    /\ link'   = [link EXCEPT ![c] = "shut"]
    /\ inbox'  = [inbox EXCEPT ![c] = <<>>]
    /\ outbox' = [outbox EXCEPT ![c] = Append(@, Partial)]
    /\ UNCHANGED <<backlog, serverUp, serverVars, said>>

\* What a client sends is in the connection only in part when the server comes
\* to read it.
Tear(c) ==
    /\ serverUp
    /\ link[c] = "open"
    /\ said < MaxSaid
    /\ said' = said + 1
    /\ NetSend(c, Partial)
    /\ UNCHANGED serverVars

Reset(c) ==
    /\ serverUp
    /\ NetReset(c)
    /\ UNCHANGED <<serverVars, said>>

ClientsNext ==
    \E c \in Clients :
        Arrive(c) \/ Say(c) \/ Leave(c) \/ Break(c) \/ Tear(c) \/ Reset(c)

Init == NetInit /\ ServerInit /\ said = 0

Serve == ServerNext /\ UNCHANGED said

Next == Serve \/ ClientsNext

Spec == Init /\ [][Next]_vars

-----------------------------------------------------------------------------
\* The server's tables and the connections hold what the code can put in them;
\* whatever a handler writes to a client is a whole message of the protocol.
TypeOK == TablesType /\ WireType /\ said \in 0..MaxSaid

\* The last answer of the server among the first i elements of s is the j-th.
LastAnswer(s, j, i) == FromServer(s[j]) /\ \A k \in j + 1..i : ~FromServer(s[k])

NoticesUnderKey(s) ==
    \A i \in 1..Len(s) : IsNotice(s[i]) =>
        \E j \in 1..i : LastAnswer(s, j, i) /\ s[j].body \in s[i].body.key.secret

KeyOfLast(s, k) ==
    \A j \in 1..Len(s) : LastAnswer(s, j, Len(s)) => s[j].body \in k.secret

\* Along the stream of a client whose nickname is its own, every notice comes
\* after an answer to the client's handshake and is under the key made with the
\* last answer before it; and the key the server holds is that of the last
\* answer of the stream.
StreamAgrees ==
    \A c \in Clients :
        Sole(c) => NoticesUnderKey(inbox[c]) /\ KeyOfLast(inbox[c], key[c])

\* The process can end while it handles the event e.
EndsAt(e) ==
    \/ e = "listener" /\ Len(accepted) >= MinFds
    \/ outbox[e] # <<>> /\ Head(outbox[e]) = Partial
    \/ /\ outbox[e] = <<>> \/ Head(outbox[e]).to = "server"
       /\ \E d \in members \ {e} : key[d] = NoKey
    \/ \E d \in members :
          /\ link[d] = "reset"
          /\ \/ d # e \/ outbox[e] # <<>>
             \/ \E c \in members \ {e} : nickname[c] = nickname[e]

\* All the ways in which the server's process ends, by the event e it is handling:
\* accept() has no descriptor left; e broke off inside a message; a message of e
\* is read before all of it is there; e enters or leaves while another connection
\* has not sent its number yet; a write meets a connection that was reset, which
\* is that of e itself only if e still had something to say or shares its
\* nickname.  Nothing else that clients of this kind do ends it.
EndsOnlyThus == [][serverUp /\ ~serverUp' => \A e \in ready \ ready' : EndsAt(e)]_vars

-----------------------------------------------------------------------------
(* The inductive invariant *)

\* Nothing is kept for a client that is not there to read it.
Drained == \A c \in Clients : link[c] # "open" => inbox[c] = <<>>

\* A client the server has a key for has been sent an answer.
Answered ==
    \A c \in Clients :
        Sole(c) /\ link[c] = "open" /\ key[c] # NoKey =>
            \E j \in 1..Len(inbox[c]) : LastAnswer(inbox[c], j, Len(inbox[c]))

\* What the properties above need besides.
Support == Signed /\ NamedByNick /\ Connected /\ Drained /\ Answered

StreamInv == Drained /\ Answered /\ StreamAgrees

\* The conjunction that every step of the server and of its clients preserves.
IndInv == ServerInv /\ StreamInv /\ said \in 0..MaxSaid
=============================================================================
