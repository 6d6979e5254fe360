------------------------------ MODULE Network ------------------------------
(***************************************************************************)
(* The TCP connections between the clients and the server, as the code on  *)
(* either side uses them.  A connection is named by its client: a client   *)
(* process connects once, and the server never closes a descriptor, so no  *)
(* descriptor number is used twice.                                        *)
(***************************************************************************)
EXTENDS Protocol, Sequences

VARIABLES
    inbox,     \* inbox[c]: written by the server, not yet read by c
    outbox,    \* outbox[c]: sent by c, not yet read by the server
    backlog,   \* connections established but not yet accepted
    link,      \* link[c]: state of the connection, see Link
    serverUp   \* FALSE once the server process is gone

netVars == <<inbox, outbox, backlog, link, serverUp>>

\* "none" before connect; "shut" once the client's end is closed; "probed" when
\* the server has written to it since; "reset" when the answer to that write
\* has come back.
Link == {"none", "open", "shut", "probed", "reset"}

\* A message that is not all there when the server reads it: its client died
\* before the rest was sent, or the rest is still under way.
Partial == BuildJson("partial", Null, Null, Null)

NetInit ==
    /\ inbox    = [c \in Clients |-> <<>>]
    /\ outbox   = [c \in Clients |-> <<>>]
    /\ backlog  = <<>>
    /\ link     = [c \in Clients |-> "none"]
    /\ serverUp = TRUE

\* connect() returns once the kernel has queued the connection.
NetConnect(c) ==
    /\ serverUp
    /\ link[c] = "none"
    /\ link'    = [link EXCEPT ![c] = "open"]
    /\ backlog' = Append(backlog, c)
    /\ UNCHANGED <<inbox, outbox, serverUp>>

\* A client sends one packet.  It arrives whole: what becomes of a packet the
\* server reads in two pieces is the matter of ServerAlone and ByteStream.
NetSend(c, m) ==
    /\ outbox' = [outbox EXCEPT ![c] = Append(@, m)]
    /\ UNCHANGED <<inbox, backlog, link, serverUp>>

\* A client reads the next whole packet.
NetTake(c) ==
    /\ inbox' = [inbox EXCEPT ![c] = Tail(@)]
    /\ UNCHANGED <<outbox, backlog, link, serverUp>>

\* The client's process ends; what it had not read is lost.
NetClose(c) ==
    /\ link'  = [link EXCEPT ![c] = "shut"]
    /\ inbox' = [inbox EXCEPT ![c] = <<>>]
    /\ UNCHANGED <<outbox, backlog, serverUp>>

\* The reset that a write to a closed connection provokes arrives.
NetReset(c) ==
    /\ link[c] = "probed"
    /\ link' = [link EXCEPT ![c] = "reset"]
    /\ UNCHANGED <<inbox, outbox, backlog, serverUp>>
=============================================================================
