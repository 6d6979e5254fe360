----------------------------- MODULE ChatServer -----------------------------
(***************************************************************************)
(* The chat server: main, Server, ClientManager, Client, IOepollManager    *)
(* and the server's Communicator.  One thread waits for events and runs    *)
(* one handler per event, in whatever order epoll_wait listed them; a step *)
(* of the model is one wait or one whole handler.                          *)
(*                                                                         *)
(* A handler ends the process when accept() fails, when it reads an empty  *)
(* or garbled message (rapidjson asserts on it), when it dereferences the  *)
(* key of a client that has none, or when it writes to a reset connection  *)
(* (SIGPIPE is not ignored).  The rest of such a handler is of no          *)
(* consequence.                                                            *)
(***************************************************************************)
EXTENDS Network, SequencesExt

CONSTANTS MinFds,   \* descriptors there are for connections: at least this
          MaxFds    \* many, depending on what else is open, and at most this many

ASSUME ServerBounds ==
    /\ MinFds \in Nat /\ MaxFds \in Nat /\ MinFds <= MaxFds
    /\ "listener" \notin Clients

VARIABLES
    ready,      \* events of the current batch still to be handled
    accepted,   \* connections in the order accepted: descriptors only grow
    members,    \* keys of client_map, which is also what epoll watches
    nickname,   \* Client.nickname
    key,        \* Client.my_key; NoKey is the null pointer
    name2sock,  \* name2sock_map
    sock2name,  \* sock2name_map
    sdraws      \* exponents DHCalculator has drawn

memVars    == <<members, nickname, key, name2sock, sock2name>>
serverVars == <<ready, accepted, memVars, sdraws>>

-----------------------------------------------------------------------------
(* Writing *)

When(test, x) == IF test THEN <<x>> ELSE <<>>

\* What reaches d of a handler's write() calls, made in order up to one that
\* raises SIGPIPE.
MessagesFor(d, writes) ==
    FlattenSeq([i \in 1..Len(writes) |->
        When(writes[i].to = d /\ \A j \in 1..i : link[writes[j].to] # "reset",
             writes[i].msg)])

\* What is written to a connection the client has closed is lost.  The process
\* also ends when the handler does not survive its writes.
WriteAll(writes, survives) ==
    /\ inbox' = [d \in Clients |->
                    IF link[d] = "open"
                    THEN inbox[d] \o MessagesFor(d, writes) ELSE inbox[d]]
    /\ link'  = [d \in Clients |->
                    IF link[d] = "shut" /\ MessagesFor(d, writes) # <<>>
                    THEN "probed" ELSE link[d]]
    /\ serverUp' = (survives /\ \A i \in 1..Len(writes) : link[writes[i].to] # "reset")

\* Mutant: the answer goes out before SetClientNickname.
SendUnregistered(route, to, m) ==
    IF to \in Names /\ name2sock[to] # Null
    THEN <<[to |-> name2sock[to], msg |-> m]>> ELSE <<>>

\* ClientManager::SendMsg: a name nobody has is only logged.
SendMsg(route, to, m) ==
    IF to \in Names /\ route[to] # Null
    THEN <<[to |-> route[to], msg |-> m]>> ELSE <<>>

\* Mutant: the connection itself is not left out.
AnyMember(d, c) == d \in members

\* What the loops over client_map on behalf of connection c do not skip.
Other(d, c) == d \in members /\ d # c

\* client_map in its iteration order, without connection c.
Others(c) ==
    FlattenSeq([i \in 1..Len(accepted) |-> When(Other(accepted[i], c), accepted[i])])

\* Server::EncryptAndBroadcast: each member is written to by its name, under
\* its own key, until a member without a key is met.
Notices(type, c, name, route) ==
    FlattenSeq([i \in 1..Len(accepted) |->
        LET d == accepted[i]
        IN  IF /\ Other(d, c)
               /\ \A j \in 1..i : Other(accepted[j], c) => key[accepted[j]] # NoKey
            THEN SendMsg(route, nickname[d],
                         BuildJson(type, "server", nickname[d],
                                   [key |-> key[d], name |-> name]))
            ELSE <<>>])

\* Mutant: the connection itself is not left out.
AllKeyed(c) == \A d \in members : key[d] # NoKey

EveryoneKeyed(c) == \A d \in members \ {c} : key[d] # NoKey

-----------------------------------------------------------------------------
(* Waiting *)

\* EPOLLIN is level triggered: data or an end of stream that is not read yet.
Readable(c) == outbox[c] # <<>> \/ link[c] # "open"

\* Mutant: an end of stream is not an event.
PendingData ==
    {c \in members : outbox[c] # <<>>} \cup (IF backlog # <<>> THEN {"listener"} ELSE {})

\* Mutant: nothing of a closed connection is an event.
PendingOpen ==
    {c \in members : Readable(c) /\ link[c] = "open"}
        \cup (IF backlog # <<>> THEN {"listener"} ELSE {})

Pending ==
    {c \in members : Readable(c)} \cup (IF backlog # <<>> THEN {"listener"} ELSE {})

\* IOepollManager::watch, which blocks until something is ready.
Watch ==
    /\ serverUp
    /\ ready = {}
    /\ Pending # {}
    /\ ready' = Pending
    /\ UNCHANGED <<netVars, accepted, memVars, sdraws>>

\* Mutant: the event is handled again.
HandlingAgain(c) == serverUp /\ c \in ready /\ UNCHANGED ready

\* The loop of Server::run reaches the event of c.
Handling(c) ==
    /\ serverUp
    /\ c \in ready
    /\ ready' = ready \ {c}

-----------------------------------------------------------------------------
(* Handlers *)

\* setup_client: accept() fails when no descriptor is left, which ends the process;
\* otherwise addClient and addToEpoll.
SetupClient ==
    /\ Handling("listener")
    /\ \/ /\ Len(accepted) < MaxFds
          /\ backlog'  = Tail(backlog)
          /\ accepted' = Append(accepted, Head(backlog))
          /\ members'  = members \cup {Head(backlog)}
          /\ UNCHANGED serverUp
       \/ /\ Len(accepted) >= MinFds
          /\ serverUp' = FALSE
          /\ UNCHANGED <<backlog, accepted, members>>
    /\ UNCHANGED <<inbox, outbox, link, nickname, key, name2sock, sock2name, sdraws>>

\* Mutant: name2sock_map keeps its entry.
EraseKeepsRoute(c) ==
    /\ members'   = members \ {c}
    /\ nickname'  = [nickname EXCEPT ![c] = Null]
    /\ key'       = [key EXCEPT ![c] = NoKey]
    /\ sock2name' = [sock2name EXCEPT ![c] = Null]
    /\ UNCHANGED name2sock

\* Mutant: sock2name_map keeps its entry.
EraseKeepsName(c) ==
    /\ members'   = members \ {c}
    /\ nickname'  = [nickname EXCEPT ![c] = Null]
    /\ key'       = [key EXCEPT ![c] = NoKey]
    /\ name2sock' = [n \in Names |-> IF n = sock2name[c] THEN Null ELSE name2sock[n]]
    /\ UNCHANGED sock2name

\* Mutant: name2sock_map is cleared.
EraseAllRoutes(c) ==
    /\ members'   = members \ {c}
    /\ nickname'  = [nickname EXCEPT ![c] = Null]
    /\ key'       = [key EXCEPT ![c] = NoKey]
    /\ name2sock' = [n \in Names |-> Null]
    /\ sock2name' = [sock2name EXCEPT ![c] = Null]

\* ClientManager::removeClient.
EraseClient(c) ==
    /\ members'   = members \ {c}
    /\ nickname'  = [nickname EXCEPT ![c] = Null]
    /\ key'       = [key EXCEPT ![c] = NoKey]
    /\ name2sock' = [n \in Names |-> IF n = sock2name[c] THEN Null ELSE name2sock[n]]
    /\ sock2name' = [sock2name EXCEPT ![c] = Null]

\* ReadNBytes(4) returned "": the others are told, and the client forgotten.
\* Its descriptor stays open.
RemoveClient(c) ==
    /\ c # "listener" /\ Handling(c)
    /\ outbox[c] = <<>>
    /\ WriteAll(Notices("leave", c, sock2name[c], name2sock), EveryoneKeyed(c))
    /\ EraseClient(c)
    /\ UNCHANGED <<outbox, backlog, accepted, sdraws>>

\* A message is read from connection c.
Reading(c) ==
    /\ c # "listener" /\ Handling(c)
    /\ outbox[c] # <<>>
    /\ outbox' = [outbox EXCEPT ![c] = Tail(@)]
    /\ UNCHANGED <<backlog, accepted>>

\* The stream ends inside a message: ReadNBytes(msg_length) returned "" and
\* parsing it aborts.  Or the rest is still under way: ReadNBytes writes it over
\* the beginning, a message that is no JSON aborts as well, and a length is one
\* that a vector refuses or that gives such a message.  (Before that, read() may
\* wait for the bytes that such a length asks for, and the server with it.)
ReadPartial(c) ==
    /\ Reading(c)
    /\ Head(outbox[c]) = Partial
    /\ serverUp' = FALSE
    /\ UNCHANGED <<inbox, link, memVars, sdraws>>

\* broadCastMsg: written to every other connection, named or not.
RelayToGroup(c) ==
    /\ Reading(c)
    /\ Head(outbox[c]).to = "group"
    /\ WriteAll([i \in 1..Len(Others(c)) |->
                    [to |-> Others(c)[i], msg |-> Head(outbox[c])]], TRUE)
    /\ UNCHANGED <<memVars, sdraws>>

\* A dh message for the server: SetClientNickname, a new number, SetClientKey,
\* the answer and the announcement.  No client sends the server another type,
\* which it would ignore.
Handshake(c) ==
    /\ Reading(c)
    /\ Head(outbox[c]).to = "server"
    /\ Head(outbox[c]).type = "dh"
    /\ LET m      == Head(outbox[c])
           my_num == [by |-> "server", n |-> sdraws + 1]
           route  == [name2sock EXCEPT ![m.from] = c]
       IN  /\ nickname'  = [nickname EXCEPT ![c] = m.from]
           /\ name2sock' = route
           /\ sock2name' = [sock2name EXCEPT ![c] = m.from]
           /\ sdraws'    = sdraws + 1
           /\ key'       = [key EXCEPT ![c] = ServerKey(SharedSecret(my_num, m.body))]
           /\ WriteAll(SendMsg(route, m.from, BuildJson("dh", "server", m.from, my_num))
                          \o Notices("enter", c, m.from, route),
                       EveryoneKeyed(c))
    /\ UNCHANGED members

\* Anything else for one client goes to whoever has that name now.
RelayToOne(c) ==
    /\ Reading(c)
    /\ Head(outbox[c]).to \notin {"group", "server", Null}
    /\ WriteAll(SendMsg(name2sock, Head(outbox[c]).to, Head(outbox[c])), TRUE)
    /\ UNCHANGED <<memVars, sdraws>>

-----------------------------------------------------------------------------
ServerInit ==
    /\ ready     = {}
    /\ accepted  = <<>>
    /\ members   = {}
    /\ nickname  = [c \in Clients |-> Null]
    /\ key       = [c \in Clients |-> NoKey]
    /\ name2sock = [n \in Names |-> Null]
    /\ sock2name = [c \in Clients |-> Null]
    /\ sdraws    = 0

Handle(c) ==
    \/ RemoveClient(c) \/ ReadPartial(c) \/ RelayToGroup(c)
    \/ Handshake(c) \/ RelayToOne(c)

ServerNext == Watch \/ SetupClient \/ \E c \in Clients : Handle(c)

-----------------------------------------------------------------------------
(* What must happen while the server lives and its thread runs *)

\* Everything a client sends is read, whatever the others send meanwhile, or
\* the server is gone: no connection starves another.
EveryoneServed ==
    \A c \in Clients : (outbox[c] # <<>>) ~> (outbox[c] = <<>> \/ ~serverUp)

\* A connection that closed is taken out of client_map.
DepartedForgotten ==
    \A c \in Clients :
        (c \in members /\ link[c] # "open") ~> (c \notin members \/ ~serverUp)
=============================================================================
