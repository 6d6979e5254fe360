---------------------------- MODULE ChatLemmas ----------------------------
(***************************************************************************)
(* The steps of the server and of a client preserve ServerInv and          *)
(* ClientInv, whatever is at the other end of the connections: for every   *)
(* set of clients, every assignment of nicknames and every bound.          *)
(*                                                                         *)
(* A handler of the server changes the tables in one of two ways           *)
(* (SetClientNickname with SetClientKey, removeClient), and whatever it    *)
(* writes, a connection that is not open never becomes open; so each       *)
(* conjunct of ServerInv is shown once for the tables and once for the     *)
(* connections.                                                            *)
(***************************************************************************)
EXTENDS ClientInvariant, ServerInvariant, DataFacts

\* Names are neither null nor those of the server and the group.
LEMMA NameFacts ==
    /\ \A c \in Clients : Nick[c] \in Names
    /\ Null \notin Names /\ "server" \notin Names /\ Null \notin Clients
    /\ Null # "server" /\ "listener" \notin Clients
    /\ \A c \in Clients : Nick[c] # "server"
  BY ProtocolAssumption, ServerBounds DEF Names

-----------------------------------------------------------------------------
(* The server *)

LEMMA ServerInitInv ==
    ASSUME NetInit, ServerInit
    PROVE  ServerInv
<1> USE NameFacts
<1>1. TablesType
  BY DEF ServerInit, TablesType, NoKey, Key
<1>2. WireType
  BY DEF ServerInit, NetInit, WireType, Link
<1>3. Signed /\ NamedByNick /\ Connected
  BY DEF ServerInit, NetInit, Signed, NamedByNick, Connected
<1>4. RoutesLive /\ TablesAgree /\ Reachable /\ EventsFresh
  BY DEF ServerInit, NetInit, RoutesLive, TablesAgree, Reachable, EventsFresh
<1> QED
  BY <1>1, <1>2, <1>3, <1>4 DEF ServerInv

-----------------------------------------------------------------------------
(* What a handler does to connections *)

\* Connections open only by connecting, and none is forgotten.
LinkMove ==
    /\ link' \in [Clients -> Link]
    /\ \A c \in Clients : link[c] # "none" => link'[c] # "none"
    /\ \A c \in Clients : link[c] \notin {"none", "open"} => link'[c] # "open"

\* Writing probes closed connections and does nothing else to a link.
LEMMA WritesMoveLinks ==
    ASSUME NEW writes, NEW survives, link \in [Clients -> Link],
           WriteAll(writes, survives)
    PROVE  LinkMove
<1>1. link' = [d \in Clients |-> IF link[d] = "shut" /\ link'[d] # "shut"
                                 THEN "probed" ELSE link[d]]
  BY DEF WriteAll
<1> QED
  BY <1>1 DEF LinkMove, Link

OutboxMove ==
    \/ UNCHANGED outbox
    \/ \E c \in Clients : \E m \in Message \cup {Partial} :
          /\ m.from \in {Nick[c], Null}
          /\ outbox' = [outbox EXCEPT ![c] = Append(@, m)]
    \/ \E c \in Clients :
          outbox[c] # <<>> /\ outbox' = [outbox EXCEPT ![c] = Tail(@)]

BacklogMove ==
    \/ UNCHANGED backlog
    \/ \E c \in Clients : link'[c] # "none" /\ backlog' = Append(backlog, c)
    \/ backlog # <<>> /\ backlog' = Tail(backlog)

WireMove == LinkMove /\ OutboxMove /\ BacklogMove

\* What happens outside of the server's process: messages are sent and read and
\* connections come and go, but what waits for the server goes on waiting.
Outside ==
    /\ WireMove /\ UNCHANGED <<serverUp, serverVars>>
    /\ inbox' \in [Clients -> Seq(Message)]
    /\ backlog # <<>> => backlog' # <<>>
    /\ \A c \in Clients : outbox[c] # <<>> => outbox'[c] # <<>>

ServerMove == ServerNext \/ Outside

-----------------------------------------------------------------------------
(* What a step does to the tables *)

\* SetClientNickname and SetClientKey for connection c.
Registers(c, k) ==
    /\ nickname'  = [nickname EXCEPT ![c] = Nick[c]]
    /\ name2sock' = [name2sock EXCEPT ![Nick[c]] = c]
    /\ sock2name' = [sock2name EXCEPT ![c] = Nick[c]]
    /\ key'       = [key EXCEPT ![c] = k]
    /\ sdraws'    = sdraws + 1
    /\ UNCHANGED members

TableMove ==
    \/ UNCHANGED <<memVars, sdraws>>
    \/ /\ members' \in SUBSET Clients /\ members \subseteq members'
       /\ UNCHANGED <<nickname, key, name2sock, sock2name, sdraws>>
    \/ \E c \in members : EraseClient(c) /\ UNCHANGED sdraws
    \/ \E c \in members : \E k \in Key \ {NoKey} : Registers(c, k)

\* The connection of an event that is being handled is in client_map.
LEMMA EventOfMember ==
    ASSUME ServerInv, NEW c \in Clients, Handling(c)
    PROVE  c \in members /\ Readable(c)
  BY NameFacts DEF ServerInv, EventsFresh, Handling

\* A dh message carries a number.
LEMMA DhBody ==
    ASSUME NEW m \in Message \cup {Partial}, m.type = "dh"
    PROVE  m.body \in Num /\ m.from # Null
<1>1. m \in DhMsgs
  BY DEF Message, Partial, BuildJson, ChatMsgs, KeyMsgs, EnterMsgs, LeaveMsgs
<1> QED
  BY <1>1, NameFacts DEF DhMsgs, Peers

\* The first message of a connection was signed by its client.
LEMMA HeadOfOutbox ==
    ASSUME ServerInv, NEW c \in Clients, outbox[c] # <<>>
    PROVE  /\ Head(outbox[c]) \in Message \cup {Partial}
           /\ Head(outbox[c]).from \in {Nick[c], Null}
<1>1. outbox[c] \in Seq(Message \cup {Partial})
  BY DEF ServerInv, WireType
<1>2. 1 \in 1..Len(outbox[c]) /\ Head(outbox[c]) = outbox[c][1]
  BY <1>1
<1> QED
  BY <1>1, <1>2 DEF ServerInv, Signed

LEMMA HandshakeRegisters ==
    ASSUME ServerInv, NEW c \in Clients, Handshake(c)
    PROVE  c \in members /\ \E k \in Key \ {NoKey} : Registers(c, k)
<1> DEFINE m == Head(outbox[c])
           k == ServerKey(SharedSecret([by |-> "server", n |-> sdraws + 1], m.body))
<1>1. c \in members /\ outbox[c] # <<>> /\ m.type = "dh"
  BY EventOfMember DEF Handshake, Reading
<1>2. m.from = Nick[c] /\ m.body \in Num
  BY <1>1, HeadOfOutbox, DhBody
<1>3. [by |-> "server", n |-> sdraws + 1] \in Num
  BY DEF ServerInv, TablesType, Num
<1>4. k \in Key \ {NoKey}
  BY <1>2, <1>3 DEF ServerKey, SharedSecret, Key, NoKey
<1>5. Registers(c, k)
  BY <1>2 DEF Handshake, Registers
<1> QED
  BY <1>1, <1>4, <1>5

LEMMA TableMoves ==
    ASSUME ServerInv, ServerMove
    PROVE  TableMove
<1>1. CASE Watch \/ Outside
  BY <1>1 DEF Watch, Outside, serverVars, TableMove
<1>2. CASE SetupClient
  <2>1. "listener" \in ready /\ serverUp
    BY <1>2 DEF SetupClient, Handling
  <2>2. backlog \in Seq(Clients) /\ backlog # <<>>
    BY <2>1, NameFacts DEF ServerInv, WireType, TablesType, EventsFresh
  <2>3. Head(backlog) \in Clients
    BY <2>2
  <2> QED
    BY <1>2, <2>3 DEF SetupClient, TableMove, ServerInv, TablesType
<1>3. ASSUME NEW c \in Clients, Handle(c) PROVE TableMove
  <2>1. CASE RemoveClient(c)
    BY <1>3, <2>1, EventOfMember DEF RemoveClient, TableMove
  <2>2. CASE Handshake(c)
    BY <1>3, <2>2, HandshakeRegisters DEF TableMove
  <2>3. CASE ReadPartial(c) \/ RelayToGroup(c) \/ RelayToOne(c)
    BY <2>3 DEF ReadPartial, RelayToGroup, RelayToOne, TableMove
  <2> QED
    BY <1>3, <2>1, <2>2, <2>3 DEF Handle
<1> QED
  BY <1>1, <1>2, <1>3 DEF ServerMove, ServerNext

-----------------------------------------------------------------------------
(* The tables stay consistent *)

TablesInv == TablesType /\ NamedByNick /\ RoutesLive /\ TablesAgree /\ Reachable

\* A connection that has a nickname has that of its client.
LEMMA NickOf ==
    ASSUME TablesInv, NEW c \in Clients, nickname[c] # Null
    PROVE  nickname[c] = Nick[c]
  BY DEF TablesInv, NamedByNick, TablesAgree

LEMMA EraseKeeps ==
    ASSUME TablesInv, NEW c \in members, EraseClient(c), UNCHANGED sdraws
    PROVE  TablesInv'
<1> USE NameFacts DEF TablesInv, EraseClient
<1>1. c \in Clients /\ NoKey \in Key
  BY DEF TablesType, NoKey, Key
<1>2. TablesType'
  BY <1>1 DEF TablesType
<1>3. NamedByNick'
  BY <1>1 DEF TablesType, NamedByNick
<1>4. RoutesLive'
  BY <1>1 DEF TablesType, RoutesLive
<1>5. TablesAgree'
  BY <1>1 DEF TablesType, TablesAgree
<1>6. Reachable'
  <2>1. SUFFICES ASSUME NEW d \in Clients, nickname'[d] # Null,
                        \A e \in Clients \ {d} : Nick[e] # Nick[d]
                 PROVE  name2sock'[nickname'[d]] = d
    BY DEF Reachable
  <2>2. d # c /\ nickname'[d] = nickname[d]
    BY <1>1, <2>1 DEF TablesType
  <2>3. nickname[d] = Nick[d] /\ name2sock[Nick[d]] = d
    BY <2>1, <2>2, NickOf DEF Reachable
  <2>4. sock2name[c] # Nick[d]
    BY <1>1, <2>1, <2>2 DEF NamedByNick
  <2> QED
    BY <2>2, <2>3, <2>4
<1> QED
  BY <1>2, <1>3, <1>4, <1>5, <1>6

LEMMA RegisterKeeps ==
    ASSUME TablesInv, NEW c \in members, NEW k \in Key \ {NoKey}, Registers(c, k)
    PROVE  TablesInv'
<1> USE NameFacts DEF TablesInv, Registers
<1>1. c \in Clients /\ Nick[c] \in Names
  BY DEF TablesType
<1>2. TablesType'
  BY <1>1 DEF TablesType
<1>3. NamedByNick'
  BY <1>1 DEF TablesType, NamedByNick
<1>4. RoutesLive'
  <2>1. SUFFICES ASSUME NEW n \in Names, name2sock'[n] # Null
                 PROVE  name2sock'[n] \in members /\ sock2name'[name2sock'[n]] = n
    BY DEF RoutesLive
  <2>2. CASE n = Nick[c]
    BY <1>1, <2>2 DEF TablesType
  <2>3. CASE n # Nick[c]
    <3>1. name2sock'[n] = name2sock[n] /\ name2sock[n] \in members /\ sock2name[name2sock[n]] = n
      BY <1>1, <2>1, <2>3 DEF TablesType, RoutesLive
    <3>2. name2sock[n] # c
      BY <1>1, <2>3, <3>1 DEF NamedByNick
    <3> QED
      BY <1>1, <3>1, <3>2 DEF TablesType
  <2> QED
    BY <2>2, <2>3
<1>5. TablesAgree'
  BY <1>1 DEF TablesType, TablesAgree
<1>6. Reachable'
  <2>1. SUFFICES ASSUME NEW d \in Clients, nickname'[d] # Null,
                        \A e \in Clients \ {d} : Nick[e] # Nick[d]
                 PROVE  name2sock'[nickname'[d]] = d
    BY DEF Reachable
  <2>2. CASE d = c
    BY <1>1, <2>2 DEF TablesType
  <2>3. CASE d # c
    <3>1. nickname'[d] = nickname[d] /\ nickname[d] = Nick[d] /\ name2sock[Nick[d]] = d
      BY <1>1, <2>1, <2>3, NickOf DEF TablesType, Reachable
    <3>2. Nick[d] # Nick[c] /\ Nick[d] \in Names
      BY <1>1, <2>1, <2>3
    <3> QED
      BY <1>1, <3>1, <3>2 DEF TablesType
  <2> QED
    BY <2>2, <2>3
<1> QED
  BY <1>2, <1>3, <1>4, <1>5, <1>6

LEMMA TablesStep ==
    ASSUME ServerInv, ServerMove
    PROVE  TablesInv'
<1>1. TablesInv
  BY DEF ServerInv, TablesInv
<1>2. CASE UNCHANGED <<memVars, sdraws>>
  BY <1>1, <1>2 DEF memVars, TablesInv, TablesType, NamedByNick, RoutesLive, TablesAgree, Reachable
<1>3. CASE /\ members' \in SUBSET Clients /\ members \subseteq members'
           /\ UNCHANGED <<nickname, key, name2sock, sock2name, sdraws>>
  BY <1>1, <1>3 DEF TablesInv, TablesType, NamedByNick, RoutesLive, TablesAgree, Reachable
<1> QED
  BY <1>1, <1>2, <1>3, TableMoves, EraseKeeps, RegisterKeeps DEF TableMove

-----------------------------------------------------------------------------
(* What a step does to the connections *)

LEMMA HandlerWireMove ==
    ASSUME ServerInv, NEW c \in Clients, Handle(c)
    PROVE  WireMove /\ UNCHANGED backlog
<1> USE DEF WireMove, OutboxMove, BacklogMove
<1>1. link \in [Clients -> Link]
  BY DEF ServerInv, WireType
<1>2. CASE RemoveClient(c)
  BY <1>1, <1>2, WritesMoveLinks DEF RemoveClient
<1>3. CASE ReadPartial(c)
  BY <1>1, <1>3 DEF ReadPartial, Reading, LinkMove
<1>4. CASE RelayToGroup(c) \/ RelayToOne(c)
  BY <1>1, <1>4, WritesMoveLinks DEF RelayToGroup, RelayToOne, Reading
<1>5. CASE Handshake(c)
  BY <1>1, <1>5, WritesMoveLinks DEF Handshake, Reading
<1> QED
  BY <1>2, <1>3, <1>4, <1>5 DEF Handle

\* SetupClient takes the first connection of the backlog, if there is room.
LEMMA SetupMove ==
    ASSUME ServerInv, SetupClient
    PROVE  /\ WireMove
           /\ members' = members \/ members' = members \cup {Head(backlog)}
           /\ backlog # <<>>
<1>1. "listener" \in ready /\ serverUp
  BY DEF SetupClient, Handling
<1>2. backlog # <<>>
  BY <1>1, NameFacts DEF ServerInv, TablesType, EventsFresh
<1> QED
  BY <1>2 DEF SetupClient, WireMove, LinkMove, OutboxMove, BacklogMove,
     ServerInv, WireType

LEMMA WireMoves ==
    ASSUME ServerInv, ServerMove
    PROVE  WireMove
<1>1. CASE Watch
  BY <1>1 DEF Watch, netVars, WireMove, LinkMove, OutboxMove, BacklogMove, ServerInv, WireType
<1>2. CASE Outside
  BY <1>2 DEF Outside
<1> QED
  BY <1>1, <1>2, HandlerWireMove, SetupMove DEF ServerMove, ServerNext

-----------------------------------------------------------------------------
(* The connections stay as the handlers expect them *)

LEMMA OutboxStep ==
    ASSUME ServerInv, OutboxMove
    PROVE  outbox' \in [Clients -> Seq(Message \cup {Partial})] /\ Signed'
<1>1. outbox \in [Clients -> Seq(Message \cup {Partial})] /\ Signed
  BY DEF ServerInv, WireType
<1>2. CASE UNCHANGED outbox
  BY <1>1, <1>2 DEF Signed
<1>3. ASSUME NEW c \in Clients, NEW m \in Message \cup {Partial},
             m.from \in {Nick[c], Null}, outbox' = [outbox EXCEPT ![c] = Append(@, m)]
      PROVE  outbox' \in [Clients -> Seq(Message \cup {Partial})] /\ Signed'
  <2>1. outbox'[c] = Append(outbox[c], m) /\ outbox[c] \in Seq(Message \cup {Partial})
    BY <1>1, <1>3
  <2>2. \A i \in 1..Len(outbox'[c]) : outbox'[c][i].from \in {Nick[c], Null}
    BY <1>1, <1>3, <2>1 DEF Signed
  <2> QED
    BY <1>1, <1>3, <2>1, <2>2 DEF Signed
<1>4. ASSUME NEW c \in Clients, outbox[c] # <<>>, outbox' = [outbox EXCEPT ![c] = Tail(@)]
      PROVE  outbox' \in [Clients -> Seq(Message \cup {Partial})] /\ Signed'
  <2>1. outbox'[c] = Tail(outbox[c]) /\ outbox[c] \in Seq(Message \cup {Partial})
    BY <1>1, <1>4
  <2>2. \A i \in 1..Len(outbox'[c]) : outbox'[c][i].from \in {Nick[c], Null}
    BY <1>1, <1>4, <2>1 DEF Signed
  <2> QED
    BY <1>1, <1>4, <2>1, <2>2 DEF Signed
<1> QED
  BY <1>2, <1>3, <1>4 DEF OutboxMove

LEMMA BacklogStep ==
    ASSUME ServerInv, LinkMove, BacklogMove
    PROVE  /\ backlog' \in Seq(Clients)
           /\ \A i \in 1..Len(backlog') : link'[backlog'[i]] # "none"
<1>1. backlog \in Seq(Clients) /\ \A i \in 1..Len(backlog) : link[backlog[i]] # "none"
  BY DEF ServerInv, WireType, Connected
<1>2. \A i \in 1..Len(backlog) : link'[backlog[i]] # "none"
  BY <1>1 DEF LinkMove
<1>3. ASSUME NEW c \in Clients, link'[c] # "none", backlog' = Append(backlog, c)
      PROVE  /\ backlog' \in Seq(Clients)
             /\ \A i \in 1..Len(backlog') : link'[backlog'[i]] # "none"
  BY <1>1, <1>2, <1>3
<1>4. CASE backlog # <<>> /\ backlog' = Tail(backlog)
  BY <1>1, <1>2, <1>4
<1> QED
  BY <1>1, <1>2, <1>3, <1>4 DEF BacklogMove

LEMMA MembersConnected ==
    ASSUME ServerInv, ServerMove
    PROVE  \A c \in members' : link'[c] # "none"
<1>1. LinkMove /\ members \subseteq Clients /\ \A c \in members : link[c] # "none"
  BY WireMoves DEF WireMove, ServerInv, TablesType, Connected
<1>2. CASE members' \subseteq members
  BY <1>1, <1>2 DEF LinkMove
<1>3. CASE SetupClient
  <2>1. backlog # <<>> /\ backlog \in Seq(Clients)
    BY <1>3, SetupMove DEF ServerInv, WireType
  <2>2. Head(backlog) \in Clients /\ link[Head(backlog)] # "none"
    BY <2>1 DEF ServerInv, Connected
  <2> QED
    BY <1>1, <1>3, <2>2, SetupMove DEF LinkMove
<1>4. ~SetupClient => members' \subseteq members
  BY DEF ServerMove, ServerNext, Watch, Handle, RemoveClient, EraseClient, ReadPartial,
         RelayToGroup, RelayToOne, Handshake, Outside, memVars, serverVars
<1> QED
  BY <1>2, <1>3, <1>4

-----------------------------------------------------------------------------
(* An event stays true until it is handled *)

Fresh(e) == (e = "listener" /\ backlog # <<>>) \/ (e \in members /\ Readable(e))

LEMMA AppendNotEmpty ==
    ASSUME NEW S, NEW s \in Seq(S), NEW x
    PROVE  Append(s, x) # <<>>
<1>1. Len(Append(s, x)) = Len(s) + 1 /\ Len(s) \in Nat
  OBVIOUS
<1> QED
  BY <1>1

\* What happens outside adds to what there is to read and never takes it away.
LEMMA OutsideKeepsEvents ==
    ASSUME ServerInv, Outside, EventsFresh
    PROVE  EventsFresh'
<1>1. SUFFICES ASSUME serverUp, NEW e \in ready PROVE Fresh(e)'
  BY DEF EventsFresh, Fresh, Outside, serverVars
<1>2. Fresh(e) /\ members' = members /\ members \subseteq Clients
  BY <1>1 DEF EventsFresh, Fresh, Outside, serverVars, memVars, ServerInv, TablesType
<1>3. \A d \in members : link[d] # "open" => link'[d] # "open"
  BY <1>2 DEF Outside, WireMove, LinkMove, ServerInv, Connected
<1> QED
  BY <1>2, <1>3 DEF Fresh, Readable, Outside

\* A handler takes only its own event's data and its own connection away.
LEMMA HandlerKeepsEvents ==
    ASSUME ServerInv, NEW c \in Clients, Handle(c), serverUp, EventsFresh
    PROVE  EventsFresh'
<1>1. ready' = ready \ {c} /\ members \ {c} \subseteq members'
  BY DEF Handle, RemoveClient, ReadPartial, RelayToGroup, RelayToOne, Handshake, Reading,
         Handling, EraseClient, memVars
<1>2. WireMove /\ UNCHANGED backlog
  BY HandlerWireMove
<1>3. \A d \in Clients \ {c} : outbox'[d] = outbox[d]
  BY DEF Handle, RemoveClient, ReadPartial, RelayToGroup, RelayToOne, Handshake, Reading,
         ServerInv, WireType
<1>4. SUFFICES ASSUME NEW e \in ready \ {c} PROVE Fresh(e)'
  BY <1>1 DEF EventsFresh, Fresh
<1>5. Fresh(e) /\ (e \in members => e \in Clients)
  BY <1>4 DEF EventsFresh, Fresh, ServerInv, TablesType
<1>6. e \in members /\ link[e] # "open" => link'[e] # "open"
  BY <1>2, <1>5 DEF WireMove, LinkMove, ServerInv, Connected
<1> QED
  BY <1>1, <1>2, <1>3, <1>4, <1>5, <1>6 DEF Fresh, Readable

LEMMA EventsStep ==
    ASSUME ServerInv, ServerMove
    PROVE  EventsFresh'
<1>1. EventsFresh
  BY DEF ServerInv
<1>2. CASE Outside
  BY <1>1, <1>2, OutsideKeepsEvents
<1>3. CASE Watch
  BY <1>3 DEF Watch, Pending, EventsFresh, Readable, netVars, memVars
<1>4. CASE SetupClient
  <2>1. /\ serverUp /\ ready' = ready \ {"listener"} /\ members \subseteq members'
        /\ UNCHANGED <<outbox, link>>
    BY <1>4 DEF SetupClient, Handling
  <2> QED
    BY <1>1, <2>1 DEF EventsFresh, Readable
<1>5. ASSUME NEW c \in Clients, Handle(c) PROVE EventsFresh'
  <2>1. serverUp
    BY <1>5 DEF Handle, RemoveClient, ReadPartial, RelayToGroup, RelayToOne, Handshake,
       Reading, Handling
  <2> QED
    BY <1>1, <1>5, <2>1, HandlerKeepsEvents
<1> QED
  BY <1>2, <1>3, <1>4, <1>5 DEF ServerMove, ServerNext

-----------------------------------------------------------------------------
(* What a handler writes *)

Write == [to : Clients, msg : Message]

\* What reaches d was written to d, and the first write does unless it fails.
LEMMA MessagesForFacts ==
    ASSUME NEW d \in Clients, NEW writes \in Seq(Write)
    PROVE  /\ MessagesFor(d, writes) \in Seq(Message)
           /\ \A i \in 1..Len(MessagesFor(d, writes)) : \E j \in 1..Len(writes) :
                 writes[j].to = d /\ MessagesFor(d, writes)[i] = writes[j].msg
           /\ Len(writes) # 0 /\ writes[1].to = d /\ link[d] # "reset" =>
                 MessagesFor(d, writes) # <<>>
<1> DEFINE n == Len(writes)
           T == {i \in 1..n : writes[i].to = d /\ \A j \in 1..i : link[writes[j].to] # "reset"}
           x == [i \in 1..n |-> writes[i].msg]
           pieces == [i \in 1..n |-> IF i \in T THEN <<x[i]>> ELSE <<>>]
<1>1. MessagesFor(d, writes) = FlattenSeq(pieces)
  <2>1. \A i \in 1..n :
            When(writes[i].to = d /\ \A j \in 1..i : link[writes[j].to] # "reset",
                 writes[i].msg) = IF i \in T THEN <<x[i]>> ELSE <<>>
    BY DEF When
  <2> QED  BY <2>1 DEF MessagesFor
<1>2. n \in Nat /\ \A i \in 1..n : writes[i].msg \in Message
  <2>1. \A i \in 1..n : writes[i] \in Write  OBVIOUS
  <2> QED  BY <2>1 DEF Write
<1>3. \A i \in 1..n : x[i] = writes[i].msg /\ x[i] \in Message  BY <1>2
<1> DEFINE result == FlattenSeq(pieces)
<1>4. /\ result \in Seq(Message)
      /\ \A i \in 1..Len(result) : \E j \in 1..n : j \in T /\ result[i] = x[j]
      /\ \A j \in 1..n : j \in T => result # <<>>
  <2>1. Chosen(pieces, Message, n, T, x)  BY <1>2, <1>3 DEF Chosen
  <2> HIDE DEF pieces, T, x, n
  <2> QED  BY <1>2, <2>1, FlattenChosen
<1> HIDE DEF result, x, pieces
<1>5. Len(writes) # 0 /\ writes[1].to = d /\ link[d] # "reset" => 1 \in 1..n /\ 1 \in T
  BY <1>2
<1> QED  BY <1>1, <1>3, <1>4, <1>5 DEF result

\* Others(c) are members, and not c.
LEMMA OthersFacts ==
    ASSUME NEW c \in Clients, accepted \in Seq(Clients)
    PROVE  /\ Others(c) \in Seq(Clients)
           /\ \A i \in 1..Len(Others(c)) : Others(c)[i] \in members \ {c}
<1> DEFINE n == Len(accepted)
           T == {i \in 1..n : Other(accepted[i], c)}
           pieces == [i \in 1..n |-> IF i \in T THEN <<accepted[i]>> ELSE <<>>]
           result == FlattenSeq(pieces)
<1>1. Others(c) = result
  <2>1. \A i \in 1..n : When(Other(accepted[i], c), accepted[i])
                        = IF i \in T THEN <<accepted[i]>> ELSE <<>>
    BY DEF When
  <2> QED  BY <2>1 DEF Others
<1>2. n \in Nat /\ \A i \in 1..n : accepted[i] \in Clients
  OBVIOUS
<1>3. /\ result \in Seq(Clients)
      /\ \A i \in 1..Len(result) : \E j \in 1..n : j \in T /\ result[i] = accepted[j]
  <2>1. Chosen(pieces, Clients, n, T, accepted)  BY <1>2 DEF Chosen
  <2> HIDE DEF pieces, T, n
  <2> QED  BY <1>2, <2>1, FlattenChosen
<1> HIDE DEF result, pieces
<1> QED  BY <1>1, <1>3 DEF Other

\* The write for member d in EncryptAndBroadcast.
NoticeTo(d, type, name, route) ==
    [to  |-> route[nickname[d]],
     msg |-> BuildJson(type, "server", nickname[d], [key |-> key[d], name |-> name])]

IsRouted(d, route) == nickname[d] \in Names /\ route[nickname[d]] # Null

LEMMA NoticeType ==
    ASSUME TablesType, NEW d \in Clients, NEW type \in {"enter", "leave"},
           NEW name \in Names \cup {Null}, type = "enter" => name \in Names,
           NEW route \in [Names -> Clients \cup {Null}], IsRouted(d, route)
    PROVE  NoticeTo(d, type, name, route) \in Write
<1> DEFINE msg == BuildJson(type, "server", nickname[d], [key |-> key[d], name |-> name])
<1>1. key[d] \in Key /\ nickname[d] \in Names /\ route[nickname[d]] \in Clients
  BY DEF TablesType, IsRouted
<1>2. CASE type = "enter"
  <2>1. msg \in EnterMsgs  BY <1>1, <1>2 DEF BuildJson, EnterMsgs
  <2> QED  BY <1>1, <2>1 DEF NoticeTo, Write, Message
<1>3. CASE type = "leave"
  <2>1. msg \in LeaveMsgs  BY <1>1, <1>3 DEF BuildJson, LeaveMsgs
  <2> QED  BY <1>1, <2>1 DEF NoticeTo, Write, Message
<1> QED  BY <1>2, <1>3

\* What may be announced, and by which routes.
Announcement(type, name, route) ==
    /\ type \in {"enter", "leave"} /\ name \in Names \cup {Null}
    /\ type = "enter" => name \in Names
    /\ route \in [Names -> Clients \cup {Null}]

\* Notices are written to members that have a key, under it.
LEMMA NoticesFacts ==
    ASSUME TablesType, accepted \in Seq(Clients),
           NEW c \in Clients, NEW type, NEW name, NEW route,
           Announcement(type, name, route)
    PROVE  /\ Notices(type, c, name, route) \in Seq(Write)
           /\ \A i \in 1..Len(Notices(type, c, name, route)) : \E d \in members \ {c} :
                 /\ key[d] # NoKey /\ IsRouted(d, route)
                 /\ Notices(type, c, name, route)[i] = NoticeTo(d, type, name, route)
<1> DEFINE n == Len(accepted)
           Told(i) == /\ Other(accepted[i], c)
                      /\ \A j \in 1..i : Other(accepted[j], c) => key[accepted[j]] # NoKey
           T == {i \in 1..n : Told(i) /\ IsRouted(accepted[i], route)}
           x == [i \in 1..n |-> NoticeTo(accepted[i], type, name, route)]
           pieces == [i \in 1..n |-> IF i \in T THEN <<x[i]>> ELSE <<>>]
           result == FlattenSeq(pieces)
<1>1. Notices(type, c, name, route) = result
  <2> DEFINE piece(i) == LET d == accepted[i]
                         IN  IF Told(i)
                             THEN SendMsg(route, nickname[d],
                                          BuildJson(type, "server", nickname[d],
                                                    [key |-> key[d], name |-> name]))
                             ELSE <<>>
  <2>1. ASSUME NEW i \in 1..n PROVE piece(i) = IF i \in T THEN <<x[i]>> ELSE <<>>
    <3> HIDE DEF Told
    <3> QED  BY DEF SendMsg, NoticeTo, IsRouted
  <2>2. Notices(type, c, name, route) = FlattenSeq([i \in 1..n |-> piece(i)])
    BY DEF Notices
  <2> HIDE DEF piece, T, x
  <2> QED  BY <2>1, <2>2
<1>2. n \in Nat /\ \A i \in 1..n : accepted[i] \in Clients
  OBVIOUS
<1>3. \A i \in 1..n : i \in T => x[i] \in Write
  <2> TAKE i \in 1..n
  <2> HAVE i \in T
  <2>1. accepted[i] \in Clients /\ IsRouted(accepted[i], route)  BY <1>2
  <2> QED  BY <2>1, NoticeType DEF Announcement
<1>4. /\ result \in Seq(Write)
      /\ \A i \in 1..Len(result) : \E j \in 1..n : j \in T /\ result[i] = x[j]
  <2>1. Chosen(pieces, Write, n, T, x)  BY <1>2, <1>3 DEF Chosen
  <2> HIDE DEF pieces, T, x, n
  <2> QED  BY <1>2, <2>1, FlattenChosen
<1> HIDE DEF result, pieces
<1>5. ASSUME NEW i \in 1..Len(result)
      PROVE  \E d \in members \ {c} :
                /\ key[d] # NoKey /\ IsRouted(d, route)
                /\ result[i] = NoticeTo(d, type, name, route)
  <2>1. PICK j \in 1..n : j \in T /\ result[i] = x[j]  BY <1>4, <1>5
  <2>2. Told(j) /\ IsRouted(accepted[j], route)
        /\ result[i] = NoticeTo(accepted[j], type, name, route)
    BY <2>1
  <2>3. accepted[j] \in members \ {c} /\ key[accepted[j]] # NoKey
    BY <1>2, <2>1, <2>2 DEF Other
  <2> QED  BY <2>2, <2>3
<1> QED  BY <1>1, <1>4, <1>5

-----------------------------------------------------------------------------
(* The writes of each handler *)

\* A chat line or a message for one client is not signed by the server.
LEMMA RelayedMessage ==
    ASSUME ServerInv, NEW e \in Clients, Reading(e),
           Head(outbox[e]).to \notin {"server", Null}
    PROVE  LET m == Head(outbox[e])
           IN  m \in Message /\ ~FromServer(m) /\ ~IsNotice(m)
<1> DEFINE m == Head(outbox[e])
<1>1. outbox[e] # <<>>  BY DEF Reading
<1>2. m \in Message \cup {Partial} /\ m.from \in {Nick[e], Null}
  BY <1>1, HeadOfOutbox
<1>3. Partial.to = Null  BY DEF Partial, BuildJson
<1>4. m \in Message  BY <1>2, <1>3
<1> HIDE DEF m
<1>5. m.from # "server"  BY <1>2, NameFacts
<1>6. m \notin EnterMsgs /\ m \notin LeaveMsgs  BY <1>5 DEF EnterMsgs, LeaveMsgs
<1>7. m.type \notin {"enter", "leave"}
  BY <1>4, <1>6 DEF Message, ChatMsgs, DhMsgs, KeyMsgs
<1> QED  BY <1>4, <1>5, <1>7 DEF FromServer, IsNotice, m

GroupWrites(e) == [i \in 1..Len(Others(e)) |-> [to |-> Others(e)[i], msg |-> Head(outbox[e])]]

LEMMA GroupWritesFacts ==
    ASSUME ServerInv, NEW e \in Clients, Reading(e), Head(outbox[e]).to = "group"
    PROVE  /\ GroupWrites(e) \in Seq(Write)
           /\ \A i \in 1..Len(GroupWrites(e)) :
                 /\ GroupWrites(e)[i].to \in members \ {e}
                 /\ GroupWrites(e)[i].msg = Head(outbox[e])
<1> DEFINE m == Head(outbox[e])
           others == Others(e)
<1>1. m \in Message  BY RelayedMessage, ProtocolAssumption
<1>2. others \in Seq(Clients) /\ \A i \in 1..Len(others) : others[i] \in members \ {e}
  BY OthersFacts DEF ServerInv, WireType
<1>3. GroupWrites(e) = [i \in 1..Len(others) |-> [to |-> others[i], msg |-> m]]
  BY DEF GroupWrites
<1> HIDE DEF m, others
<1>4. Len(others) \in Nat /\ \A i \in 1..Len(others) : others[i] \in Clients  BY <1>2
<1>5. GroupWrites(e) \in [1..Len(others) -> Write]  BY <1>1, <1>3, <1>4 DEF Write
<1>6. GroupWrites(e) \in Seq(Write) /\ Len(GroupWrites(e)) = Len(others)  BY <1>4, <1>5
<1>7. \A i \in 1..Len(others) : GroupWrites(e)[i] = [to |-> others[i], msg |-> m]
  BY <1>3
<1>8. \A i \in 1..Len(others) :
          GroupWrites(e)[i].to \in members \ {e} /\ GroupWrites(e)[i].msg = m
  <2> TAKE i \in 1..Len(others)
  <2> DEFINE w == [to |-> others[i], msg |-> m]
  <2>1. w.to = others[i] /\ w.msg = m  OBVIOUS
  <2>2. GroupWrites(e)[i] = w  BY <1>7
  <2> HIDE DEF w
  <2> QED  BY <1>2, <2>1, <2>2
<1> QED  BY <1>6, <1>8 DEF m

OneWrites(e) == SendMsg(name2sock, Head(outbox[e]).to, Head(outbox[e]))

LEMMA OneWritesFacts ==
    ASSUME ServerInv, NEW e \in Clients, Reading(e),
           Head(outbox[e]).to \notin {"group", "server", Null}
    PROVE  /\ OneWrites(e) \in Seq(Write)
           /\ \A i \in 1..Len(OneWrites(e)) :
                 /\ OneWrites(e)[i].to \in members
                 /\ OneWrites(e)[i].msg = Head(outbox[e])
<1> DEFINE m == Head(outbox[e])
<1>1. m \in Message  BY RelayedMessage
<1> HIDE DEF m
<1>2. CASE m.to \in Names /\ name2sock[m.to] # Null
  <2> DEFINE w == [to |-> name2sock[m.to], msg |-> m]
  <2>1. name2sock[m.to] \in members /\ name2sock[m.to] \in Clients
    BY <1>2 DEF ServerInv, RoutesLive, TablesType
  <2>2. OneWrites(e) = <<w>>  BY <1>2 DEF OneWrites, SendMsg, m
  <2>3. w \in Write /\ w.to \in members /\ w.msg = m  BY <1>1, <2>1 DEF Write
  <2> HIDE DEF w
  <2> QED  BY <2>2, <2>3 DEF m
<1>3. CASE ~(m.to \in Names /\ name2sock[m.to] # Null)
  BY <1>3 DEF OneWrites, SendMsg, m
<1> QED  BY <1>2, <1>3

LeaveWrites(e) == Notices("leave", e, sock2name[e], name2sock)

LEMMA LeaveWritesFacts ==
    ASSUME ServerInv, NEW e \in Clients
    PROVE  /\ LeaveWrites(e) \in Seq(Write)
           /\ \A i \in 1..Len(LeaveWrites(e)) : \E d \in members \ {e} :
                 /\ key[d] # NoKey /\ IsRouted(d, name2sock)
                 /\ LeaveWrites(e)[i] = NoticeTo(d, "leave", sock2name[e], name2sock)
<1>1. /\ TablesType /\ accepted \in Seq(Clients)
      /\ sock2name[e] \in Names \cup {Null}
      /\ name2sock \in [Names -> Clients \cup {Null}]
  BY DEF ServerInv, TablesType, WireType
<1> DEFINE type == "leave"
           name == sock2name[e]
<1>2. /\ Announcement(type, name, name2sock)
      /\ LeaveWrites(e) = Notices(type, e, name, name2sock)
  BY <1>1 DEF LeaveWrites, Announcement
<1> HIDE DEF type, name
<1>3. /\ Notices(type, e, name, name2sock) \in Seq(Write)
      /\ \A i \in 1..Len(Notices(type, e, name, name2sock)) : \E d \in members \ {e} :
            /\ key[d] # NoKey /\ IsRouted(d, name2sock)
            /\ Notices(type, e, name, name2sock)[i] = NoticeTo(d, type, name, name2sock)
  BY <1>1, <1>2, NoticesFacts
<1> QED  BY <1>2, <1>3 DEF type, name

\* The number the server answers the handshake of e with, and the routes then.
MyNum    == [by |-> "server", n |-> sdraws + 1]
Route(e) == [name2sock EXCEPT ![Nick[e]] = e]

Answer(e)      == [to |-> e, msg |-> BuildJson("dh", "server", Nick[e], MyNum)]
EnterWrites(e) == Notices("enter", e, Nick[e], Route(e))

LEMMA AnswerFacts ==
    ASSUME ServerInv, NEW e \in Clients
    PROVE  /\ Answer(e) \in Write /\ FromServer(Answer(e).msg) /\ ~IsNotice(Answer(e).msg)
           /\ Answer(e).msg.body = MyNum /\ Answer(e).to = e
<1>1. MyNum \in Num  BY DEF ServerInv, TablesType, Num, MyNum
<1> DEFINE msg == BuildJson("dh", "server", Nick[e], MyNum)
<1>2. msg \in DhMsgs  BY <1>1, NameFacts DEF BuildJson, DhMsgs, Peers
<1>3. msg \in Message  BY <1>2 DEF Message
<1>4. msg.type = "dh" /\ msg.from = "server" /\ msg.body = MyNum  BY DEF BuildJson
<1> HIDE DEF msg
<1> QED  BY <1>3, <1>4 DEF Answer, Write, FromServer, IsNotice, msg

LEMMA EnterWritesFacts ==
    ASSUME ServerInv, NEW e \in Clients
    PROVE  /\ EnterWrites(e) \in Seq(Write)
           /\ \A i \in 1..Len(EnterWrites(e)) : \E d \in members \ {e} :
                 /\ key[d] # NoKey /\ IsRouted(d, Route(e))
                 /\ EnterWrites(e)[i] = NoticeTo(d, "enter", Nick[e], Route(e))
<1>1. /\ TablesType /\ accepted \in Seq(Clients) /\ Nick[e] \in Names
      /\ Route(e) \in [Names -> Clients \cup {Null}]
  BY NameFacts DEF ServerInv, TablesType, WireType, Route
<1> DEFINE type == "enter"
           name == Nick[e]
           route == Route(e)
<1>2. /\ Announcement(type, name, route)
      /\ EnterWrites(e) = Notices(type, e, name, route)
  BY <1>1 DEF EnterWrites, Announcement
<1> HIDE DEF type, name, route
<1>3. /\ Notices(type, e, name, route) \in Seq(Write)
      /\ \A i \in 1..Len(Notices(type, e, name, route)) : \E d \in members \ {e} :
            /\ key[d] # NoKey /\ IsRouted(d, route)
            /\ Notices(type, e, name, route)[i] = NoticeTo(d, type, name, route)
  BY <1>1, <1>2, NoticesFacts
<1> QED  BY <1>2, <1>3 DEF type, name, route

\* Handshake(e): the nickname is that of the client, and the answer comes first.
LEMMA HandshakeWrites ==
    ASSUME ServerInv, NEW e \in Clients, Handshake(e)
    PROVE  /\ WriteAll(<<Answer(e)>> \o EnterWrites(e), EveryoneKeyed(e))
           /\ \A d \in Clients : d # e => key'[d] = key[d]
           /\ MyNum \in key'[e].secret
<1> DEFINE m == Head(outbox[e])
           k == ServerKey(SharedSecret(MyNum, m.body))
<1>1. outbox[e] # <<>> /\ m.type = "dh"  BY DEF Handshake, Reading
<1>2. m.from = Nick[e] /\ Nick[e] \in Names /\ e # Null
  BY <1>1, HeadOfOutbox, DhBody, NameFacts
<1>3. key' = [key EXCEPT ![e] = k]  BY DEF Handshake, MyNum
<1>4. k.secret = {MyNum, m.body}  BY DEF ServerKey, SharedSecret
<1> HIDE DEF k
<1>5. key \in [Clients -> Key] /\ name2sock \in [Names -> Clients \cup {Null}]
  BY DEF ServerInv, TablesType
<1>6. WriteAll(SendMsg(Route(e), Nick[e], BuildJson("dh", "server", Nick[e], MyNum))
                   \o EnterWrites(e), EveryoneKeyed(e))
  BY <1>2 DEF Handshake, MyNum, Route, EnterWrites
<1>7. SendMsg(Route(e), Nick[e], BuildJson("dh", "server", Nick[e], MyNum)) = <<Answer(e)>>
  BY <1>2, <1>5 DEF SendMsg, Route, Answer
<1> QED  BY <1>3, <1>4, <1>5, <1>6, <1>7

LEMMA HandshakeWritesType ==
    ASSUME ServerInv, NEW e \in Clients
    PROVE  LET writes == <<Answer(e)>> \o EnterWrites(e)
           IN  /\ writes \in Seq(Write) /\ Len(writes) # 0 /\ writes[1] = Answer(e)
               /\ \A i \in 1..Len(writes) :
                     i # 1 => \E j \in 1..Len(EnterWrites(e)) : writes[i] = EnterWrites(e)[j]
<1> DEFINE w == EnterWrites(e)
           answer == Answer(e)
<1>1. w \in Seq(Write) /\ answer \in Write  BY EnterWritesFacts, AnswerFacts
<1> HIDE DEF w, answer
<1>2. <<answer>> \o w \in Seq(Write)  BY <1>1
<1>3. Len(<<answer>> \o w) = 1 + Len(w) /\ Len(w) \in Nat  BY <1>1
<1>4. (<<answer>> \o w)[1] = answer  BY <1>1
<1>5. \A i \in 1..Len(<<answer>> \o w) :
          i # 1 => i - 1 \in 1..Len(w) /\ (<<answer>> \o w)[i] = w[i - 1]
  BY <1>1, <1>3
<1> QED  BY <1>2, <1>3, <1>4, <1>5 DEF w, answer

LEMMA WritesReceived ==
    ASSUME ServerInv, NEW writes \in Seq(Write), NEW survives, WriteAll(writes, survives)
    PROVE  /\ inbox' \in [Clients -> Seq(Message)]
           /\ \A c \in Clients :
                 /\ link[c] # "open" => inbox'[c] = inbox[c] /\ link'[c] # "open"
                 /\ link[c] = "open" => /\ link'[c] = "open"
                                        /\ inbox'[c] = inbox[c] \o MessagesFor(c, writes)
<1>1. inbox \in [Clients -> Seq(Message)] /\ link \in [Clients -> Link]
  BY DEF ServerInv, WireType
<1>2. \A c \in Clients : MessagesFor(c, writes) \in Seq(Message)
  BY MessagesForFacts
<1>3. \A c \in Clients : inbox'[c] = IF link[c] = "open"
                                    THEN inbox[c] \o MessagesFor(c, writes) ELSE inbox[c]
  BY DEF WriteAll
<1>4. \A c \in Clients : inbox'[c] \in Seq(Message)
  <2> TAKE c \in Clients
  <2> DEFINE s == inbox[c]
             w == MessagesFor(c, writes)
  <2>1. s \in Seq(Message) /\ w \in Seq(Message)  BY <1>1, <1>2
  <2>2. inbox'[c] = s \/ inbox'[c] = s \o w  BY <1>3
  <2> HIDE DEF s, w
  <2>3. s \o w \in Seq(Message)  BY <2>1
  <2> QED  BY <2>1, <2>2, <2>3
<1>5. inbox' = [c \in Clients |-> inbox'[c]]  BY DEF WriteAll
<1>6. \A c \in Clients : link'[c] = "open" <=> link[c] = "open"
  BY DEF WriteAll
<1>7. inbox' \in [Clients -> Seq(Message)]  BY <1>4, <1>5
<1> QED  BY <1>3, <1>6, <1>7

\* A notice that is routed to c is the one for c.
LEMMA NoticeTarget ==
    ASSUME ServerInv, NEW c \in Clients, Sole(c), NEW d \in members, NEW route,
           route = name2sock \/ \E e \in Clients : route = Route(e),
           IsRouted(d, route), route[nickname[d]] = c
    PROVE  d = c
<1>1. d \in Clients /\ nickname[d] = Nick[d] /\ Nick[d] \in Names
  BY NickOf, NameFacts DEF ServerInv, TablesInv, TablesType, IsRouted
<1>2. SUFFICES ASSUME d # c PROVE FALSE
  OBVIOUS
<1>3. Nick[d] # Nick[c]  BY <1>1, <1>2 DEF Sole
<1>4. name2sock[Nick[d]] = c
  <2>1. CASE route = name2sock  BY <1>1, <2>1
  <2>2. ASSUME NEW e \in Clients, route = Route(e) PROVE name2sock[Nick[d]] = c
    <3>1. name2sock \in [Names -> Clients \cup {Null}]  BY DEF ServerInv, TablesType
    <3>2. route[Nick[d]] = IF Nick[d] = Nick[e] THEN e ELSE name2sock[Nick[d]]
      BY <1>1, <2>2, <3>1 DEF Route
    <3> QED  BY <1>1, <1>3, <3>2
  <2> QED  BY <2>1, <2>2
<1>5. sock2name[c] = Nick[d] /\ sock2name[c] \in {Nick[c], Null}
  BY <1>1, <1>4, NameFacts DEF ServerInv, RoutesLive, NamedByNick
<1> QED  BY <1>1, <1>3, <1>5, NameFacts

LEMMA NoticeContent ==
    ASSUME NEW d, NEW type \in {"enter", "leave"}, NEW name, NEW route
    PROVE  LET w == NoticeTo(d, type, name, route)
           IN  /\ w.to = route[nickname[d]] /\ w.msg.body.key = key[d]
               /\ ~FromServer(w.msg) /\ IsNotice(w.msg)
  BY DEF NoticeTo, BuildJson, FromServer, IsNotice

\* What Handle(e) writes when it does not end the process before.
LEMMA HandlerWrites ==
    ASSUME ServerInv, NEW e \in Clients, Handle(e), ~ReadPartial(e)
    PROVE  \E writes \in Seq(Write), survives \in BOOLEAN : WriteAll(writes, survives)
<1>1. CASE RemoveClient(e)
  <2>1. LeaveWrites(e) \in Seq(Write) /\ EveryoneKeyed(e) \in BOOLEAN
        /\ WriteAll(LeaveWrites(e), EveryoneKeyed(e))
    BY <1>1, LeaveWritesFacts DEF RemoveClient, LeaveWrites, EveryoneKeyed
  <2> QED  BY <2>1
<1>2. CASE RelayToGroup(e)
  <2>1. GroupWrites(e) \in Seq(Write) /\ WriteAll(GroupWrites(e), TRUE)
    BY <1>2, GroupWritesFacts DEF RelayToGroup, GroupWrites
  <2> QED  BY <2>1
<1>3. CASE RelayToOne(e)
  <2>1. OneWrites(e) \in Seq(Write) /\ WriteAll(OneWrites(e), TRUE)
    BY <1>3, OneWritesFacts DEF RelayToOne, OneWrites
  <2> QED  BY <2>1
<1>4. CASE Handshake(e)
  <2> DEFINE writes == <<Answer(e)>> \o EnterWrites(e)
  <2>1. writes \in Seq(Write)  BY HandshakeWritesType
  <2>2. WriteAll(writes, EveryoneKeyed(e))  BY <1>4, HandshakeWrites
  <2>3. EveryoneKeyed(e) \in BOOLEAN  BY DEF EveryoneKeyed
  <2> HIDE DEF writes
  <2> QED  BY <2>1, <2>2, <2>3
<1> QED  BY <1>1, <1>2, <1>3, <1>4 DEF Handle

-----------------------------------------------------------------------------
(* ServerInv *)

\* What the step leaves in the variables no other lemma types.
LEMMA ServerTypeStep ==
    ASSUME ServerInv, ServerMove
    PROVE  /\ inbox' \in [Clients -> Seq(Message)] /\ accepted' \in Seq(Clients)
           /\ serverUp' \in BOOLEAN /\ ready' \in SUBSET (Clients \cup {"listener"})
<1>1. /\ inbox \in [Clients -> Seq(Message)] /\ accepted \in Seq(Clients)
      /\ serverUp \in BOOLEAN /\ ready \in SUBSET (Clients \cup {"listener"})
  BY DEF ServerInv, WireType
<1>2. ready' \in SUBSET (Clients \cup {"listener"})
  BY <1>1 DEF ServerInv, TablesType, ServerMove, ServerNext, Watch, Pending,
     SetupClient, Handle, RemoveClient, ReadPartial, RelayToGroup, RelayToOne, Handshake,
     Reading, Handling, Outside, serverVars
<1>3. CASE Watch \/ Outside
  BY <1>1, <1>2, <1>3 DEF Watch, netVars, Outside, serverVars
<1>4. CASE SetupClient
  <2>1. backlog # <<>> /\ backlog \in Seq(Clients)
    BY <1>4, SetupMove DEF ServerInv, WireType
  <2> DEFINE h == Head(backlog)
  <2>2. h \in Clients  BY <2>1
  <2>3. accepted' = accepted \/ accepted' = Append(accepted, h)
    BY <1>4 DEF SetupClient
  <2>4. inbox' = inbox /\ (serverUp' = serverUp \/ serverUp' = FALSE)
    BY <1>4 DEF SetupClient
  <2> HIDE DEF h
  <2>5. Append(accepted, h) \in Seq(Clients)  BY <1>1, <2>2
  <2>6. accepted' \in Seq(Clients)  BY <1>1, <2>3, <2>5
  <2> QED  BY <1>1, <1>2, <2>4, <2>6
<1>5. ASSUME NEW e \in Clients, Handle(e)
      PROVE  /\ inbox' \in [Clients -> Seq(Message)] /\ accepted' \in Seq(Clients)
             /\ serverUp' \in BOOLEAN
  <2>1. UNCHANGED accepted
    BY <1>5 DEF Handle, RemoveClient, ReadPartial, RelayToGroup, RelayToOne, Handshake, Reading
  <2>2. CASE ReadPartial(e)
    BY <1>1, <2>1, <2>2 DEF ReadPartial
  <2>3. CASE ~ReadPartial(e)
    <3>1. PICK writes \in Seq(Write), survives \in BOOLEAN : WriteAll(writes, survives)
      BY <1>5, <2>3, HandlerWrites
    <3>2. inbox' \in [Clients -> Seq(Message)]  BY <3>1, WritesReceived
    <3>3. serverUp' \in BOOLEAN  BY <3>1 DEF WriteAll
    <3> QED  BY <1>1, <2>1, <3>2, <3>3
  <2> QED  BY <2>2, <2>3
<1> QED  BY <1>2, <1>3, <1>4, <1>5 DEF ServerMove, ServerNext

\* Every handler, and everything that happens between two handlers, preserves ServerInv.
LEMMA ServerStepKeeps ==
    ASSUME ServerInv, ServerMove
    PROVE  ServerInv'
<1>1. WireMove
  BY WireMoves
<1>2. WireType' /\ Signed'
  BY <1>1, OutboxStep, BacklogStep, ServerTypeStep DEF WireType, WireMove, LinkMove
<1>3. Connected'
  BY <1>1, BacklogStep, MembersConnected DEF Connected, WireMove
<1> QED
  BY <1>2, <1>3, TablesStep, EventsStep DEF ServerInv, TablesInv

-----------------------------------------------------------------------------
(* One client c *)

USE DEF clientVars, netVars, hsVars, ratVars, dicVars, queVars, rVars, hVars, kVars,
        GetSharedSecret, ResetMachine, IsAnswer, MustSendKey, ExchangeKey, RatchetToIdle

\* The kinds of messages are told apart by their type field.
LEMMA MessageKinds ==
    ASSUME NEW m \in Message
    PROVE  /\ m.type = "message" => m \in ChatMsgs
           /\ m.type = "dh" => m \in DhMsgs
           /\ m.type = "sender_key" => m \in KeyMsgs
           /\ m.type = "enter" => m \in EnterMsgs
           /\ m.type = "leave" => m \in LeaveMsgs
  BY DEF Message, ChatMsgs, DhMsgs, KeyMsgs, EnterMsgs, LeaveMsgs

\* Facts about names that follow from the assumption on nicknames.
LEMMA PeerFacts ==
    ASSUME NEW c \in Clients
    PROVE  /\ c \in Clients /\ Nick[c] \in Names
           /\ Names \subseteq Peers /\ "server" \in Peers /\ "server" \notin Names
           /\ Null \notin Peers
  BY ProtocolAssumption DEF Names, Peers

\* A number that has not been drawn is not a number.
LEMMA ZeroIsNoNumber == Zero \notin Num
  BY ProtocolAssumption DEF Zero, Num

\* Which actions can change which part of the state.
Frame(c) ==
    /\ UNCHANGED status
       \/ Connect(c) \/ RecvMessage(c) \/ RecvSenderKey(c)
       \/ RecvEnter(c) \/ RecvLeave(c) \/ RecvClosed(c) \/ HTake(c)
       \/ HDone(c) \/ HCheck(c) \/ KReadKey(c) \/ InputQuit(c)
       \/ SendFails(c) \/ Exit(c)
    /\ UNCHANGED hsVars
       \/ Connect(c) \/ RecvDh(c) \/ RecvEnter(c) \/ HTake(c)
       \/ HDone(c)
    /\ UNCHANGED ratVars
       \/ RecvSenderKey(c) \/ HStartKey(c) \/ KMark(c) \/ KFinish(c)
    /\ UNCHANGED dicVars
       \/ Connect(c) \/ RecvSenderKey(c) \/ RecvLeave(c) \/ HTake(c)
       \/ HDone(c)
    /\ UNCHANGED dhq
       \/ Connect(c) \/ PutDh(c) \/ HTake(c)
    /\ UNCHANGED keyq
       \/ PutKey(c) \/ HPutKey(c) \/ KTake(c)
    /\ UNCHANGED rVars
       \/ RecvDh(c) \/ RecvSenderKey(c) \/ RecvEnter(c) \/ PutDh(c)
       \/ PutKey(c)
    /\ UNCHANGED hVars
       \/ HTake(c) \/ HAnswer(c) \/ HResend(c) \/ HDone(c)
       \/ HCheck(c) \/ HStartKey(c) \/ HPutKey(c)
    /\ UNCHANGED kVars
       \/ KTake(c) \/ KReadKey(c) \/ KReadTo(c) \/ KMark(c)
       \/ KResend(c) \/ KSeen(c) \/ KAnswer(c) \/ KFinish(c)
    /\ UNCHANGED inbox
       \/ RecvMessage(c) \/ RecvDh(c) \/ RecvSenderKey(c)
       \/ RecvEnter(c) \/ RecvLeave(c) \/ Exit(c)
    /\ UNCHANGED outbox
       \/ HAnswer(c) \/ HResend(c) \/ KResend(c) \/ KAnswer(c)
       \/ InputLine(c)
    /\ UNCHANGED <<backlog, link>>
       \/ Connect(c) \/ Exit(c)
    /\ UNCHANGED lines
       \/ InputLine(c)
    /\ UNCHANGED serverUp

\* Each step of the client changes only what Frame allows it.
LEMMA StepFrame ==
    ASSUME NEW c \in Clients, TaskNext(c) PROVE Frame(c)
<1>1. CASE Connect(c)
  BY <1>1 DEF Connect, NetConnect, Frame
<1>2. CASE RecvMessage(c)
  BY <1>2 DEF RecvMessage, Take, NetTake, Fault, Frame
<1>3. CASE RecvDh(c)
  BY <1>3 DEF RecvDh, Take, NetTake, Frame
<1>4. CASE RecvSenderKey(c)
  BY <1>4 DEF RecvSenderKey, Take, NetTake, Fault, Frame
<1>5. CASE RecvEnter(c)
  BY <1>5 DEF RecvEnter, Take, NetTake, Fault, Frame
<1>6. CASE RecvLeave(c)
  BY <1>6 DEF RecvLeave, Take, NetTake, Fault, Frame
<1>7. CASE RecvClosed(c)
  BY <1>7 DEF RecvClosed, Fault, Frame
<1>8. CASE PutDh(c)
  BY <1>8 DEF PutDh, Frame
<1>9. CASE PutKey(c)
  BY <1>9 DEF PutKey, Frame
<1>10. CASE HTake(c)
  BY <1>10 DEF HTake, HRequest, HRespond, Frame
<1>11. CASE HAnswer(c)
  BY <1>11 DEF HAnswer, Send, NetSend, Frame
<1>12. CASE HResend(c)
  BY <1>12 DEF HResend, Send, NetSend, Frame
<1>13. CASE HDone(c)
  BY <1>13 DEF HDone, Fault, Frame
<1>14. CASE HCheck(c)
  BY <1>14 DEF HCheck, Fault, Frame
<1>15. CASE HStartKey(c)
  BY <1>15 DEF HStartKey, Frame
<1>16. CASE HPutKey(c)
  BY <1>16 DEF HPutKey, Frame
<1>17. CASE KTake(c)
  BY <1>17 DEF KTake, Frame
<1>18. CASE KReadKey(c)
  BY <1>18 DEF KReadKey, Fault, Frame
<1>19. CASE KReadTo(c)
  BY <1>19 DEF KReadTo, Frame
<1>20. CASE KMark(c)
  BY <1>20 DEF KMark, Frame
<1>21. CASE KResend(c)
  BY <1>21 DEF KResend, Send, NetSend, Frame
<1>22. CASE KSeen(c)
  BY <1>22 DEF KSeen, Frame
<1>23. CASE KAnswer(c)
  BY <1>23 DEF KAnswer, Send, NetSend, Frame
<1>24. CASE KFinish(c)
  BY <1>24 DEF KFinish, Frame
<1>25. CASE InputLine(c)
  BY <1>25 DEF InputLine, Send, NetSend, Frame
<1>26. CASE InputQuit(c)
  BY <1>26 DEF InputQuit, Frame
<1>27. CASE SendFails(c)
  BY <1>27 DEF SendFails, Fault, Frame
<1>28. CASE Exit(c)
  BY <1>28 DEF Exit, NetClose, Frame
<1> QED
  BY <1>1, <1>2, <1>3, <1>4, <1>5, <1>6, <1>7, <1>8, <1>9, <1>10, <1>11, <1>12, <1>13, <1>14, <1>15, <1>16, <1>17, <1>18, <1>19, <1>20, <1>21, <1>22, <1>23, <1>24, <1>25, <1>26, <1>27, <1>28
     DEF TaskNext, RNext, HNext, KNext, INext

-----------------------------------------------------------------------------
(* Types *)

\* What the client sends is a well-formed message, and it reads packets whole.
LEMMA NetTypeStep ==
    ASSUME NEW c \in Clients, ClientsTyped, ClientInv(c), TaskNext(c)
    PROVE  NetType'
<1> USE PeerFacts
<1>1. NetType /\ LocalType /\ LocalsReady(c)
  BY DEF ClientInv, ClientsTyped
<1>2. inbox' \in [Clients -> Seq(Message)]
  <2>1. CASE UNCHANGED inbox
    BY <1>1, <2>1 DEF NetType
  <2>2. CASE Exit(c)
    BY <1>1, <2>2 DEF NetType, Exit, NetClose
  <2>3. ASSUME inbox' = [inbox EXCEPT ![c] = Tail(@)], inbox[c] # <<>>
        PROVE  inbox' \in [Clients -> Seq(Message)]
    BY <1>1, <2>3 DEF NetType
  <2>4. CASE RecvMessage(c) \/ RecvDh(c) \/ RecvSenderKey(c)
    BY <1>1, <2>1, <2>3, <2>4
       DEF RecvMessage, RecvDh, RecvSenderKey, Receiving, Take, NetTake, Fault
  <2>5. CASE RecvEnter(c) \/ RecvLeave(c)
    BY <1>1, <2>1, <2>3, <2>5
       DEF RecvEnter, RecvLeave, Receiving, Take, NetTake, Fault
  <2> QED
    BY <2>1, <2>2, <2>4, <2>5, StepFrame DEF Frame
<1>3. outbox' \in [Clients -> Seq(Message)]
  <2>1. ASSUME NEW m \in Message, outbox' = [outbox EXCEPT ![c] = Append(@, m)]
        PROVE  outbox' \in [Clients -> Seq(Message)]
    BY <1>1, <2>1 DEF NetType
  <2>2. CASE HAnswer(c) \/ HResend(c)
    BY <1>1, <2>1, <2>2 DEF HAnswer, HResend, Send, NetSend, LocalsReady, Message
  <2>3. CASE KResend(c) \/ KAnswer(c)
    BY <1>1, <2>1, <2>3 DEF KResend, KAnswer, Send, NetSend, LocalsReady, Message
  <2>4. CASE InputLine(c)
    <3>1. BuildJson("message", Nick[c], "group", c) \in Message
      BY DEF BuildJson, Message, ChatMsgs
    <3> QED
      BY <2>1, <2>4, <3>1 DEF InputLine, Send, NetSend
  <2>5. CASE UNCHANGED outbox
    BY <1>1, <2>5 DEF NetType
  <2> QED
    BY <2>2, <2>3, <2>4, <2>5, StepFrame DEF Frame
<1>4. backlog' \in Seq(Clients) /\ link' \in [Clients -> Link]
  <2>1. CASE Connect(c)
    BY <1>1, <2>1 DEF NetType, Connect, NetConnect, Link
  <2>2. CASE Exit(c)
    BY <1>1, <2>2 DEF NetType, Exit, NetClose, Link
  <2>3. CASE UNCHANGED <<backlog, link>>
    BY <1>1, <2>3 DEF NetType
  <2> QED
    BY <2>1, <2>2, <2>3, StepFrame DEF Frame
<1>5. serverUp' \in BOOLEAN
  BY <1>1, StepFrame DEF Frame, NetType
<1> QED
  BY <1>2, <1>3, <1>4, <1>5 DEF NetType

\* The handshake machine keeps its types.
LEMMA MachineTypeStep ==
    ASSUME NEW c \in Clients, ClientsTyped, ClientInv(c), TaskNext(c)
    PROVE  MachineType'
<1> USE PeerFacts
<1>1. MachineType /\ NetType
  BY DEF ClientInv, ClientsTyped
<1>2. status' \in [Clients -> Status]
  <2>1. CASE UNCHANGED status
    BY <1>1, <2>1 DEF MachineType
  <2>2. ASSUME NEW s \in Status, status' = [status EXCEPT ![c] = s]
        PROVE  status' \in [Clients -> Status]
    BY <1>1, <2>2 DEF MachineType
  <2>3. CASE Connect(c) \/ InputQuit(c) \/ Exit(c)
    BY <2>2, <2>3 DEF Connect, InputQuit, Exit, Status
  <2>4. Fault(c) => status' \in [Clients -> Status]
    BY <2>2 DEF Fault, Status
  <2>5. CASE RecvMessage(c) \/ RecvSenderKey(c) \/ RecvEnter(c)
    BY <2>1, <2>4, <2>5 DEF RecvMessage, RecvSenderKey, RecvEnter
  <2>6. CASE RecvLeave(c) \/ RecvClosed(c) \/ SendFails(c)
    BY <2>1, <2>4, <2>6 DEF RecvLeave, RecvClosed, SendFails
  <2>7. CASE HDone(c) \/ HCheck(c) \/ KReadKey(c)
    BY <2>1, <2>4, <2>7 DEF HDone, HCheck, KReadKey
  <2>8. CASE HTake(c)
    BY <2>1, <2>2, <2>8 DEF HTake, HRequest, HRespond, Status
  <2> QED
    BY <2>1, <2>3, <2>5, <2>6, <2>7, <2>8, StepFrame DEF Frame
<1> DEFINE HsType == /\ hstate \in [Clients -> HState]
                     /\ shaker \in [Clients -> Peers \cup {Null}]
                     /\ mynum \in [Clients -> Num \cup {Zero}]
                     /\ opnum \in [Clients -> Num \cup {Zero}]
                     /\ draws \in [Clients -> Nat]
<1>3. HsType'
  <2>1. CASE UNCHANGED hsVars
    BY <1>1, <2>1 DEF MachineType
  <2>2. DrawNumber(c) => mynum' \in [Clients -> Num \cup {Zero}] /\ draws' \in [Clients -> Nat]
    <3>1. [by |-> c, n |-> draws[c] + 1] \in Num
      BY <1>1 DEF MachineType, Num
    <3> QED
      BY <1>1, <3>1 DEF MachineType, DrawNumber
  <2>3. CASE Connect(c)
    BY <1>1, <2>2, <2>3 DEF MachineType, Connect, SetMyState_ToSendDH, SetHState, HState
  <2>4. CASE RecvDh(c)
    <3>1. Head(inbox[c]) \in DhMsgs
      BY <1>1, <2>4, MessageKinds DEF NetType, RecvDh, Receiving
    <3>2. Head(inbox[c]).from \in Peers /\ Head(inbox[c]).body \in Num
      BY <3>1 DEF DhMsgs
    <3> QED
      BY <1>1, <2>2, <2>4, <3>2 DEF MachineType, RecvDh, SetMyState_ToSendDH,
         SetMyState_ToRcvedDH, SetHState, HState
  <2>5. CASE RecvEnter(c)
    <3>1. Head(inbox[c]) \in EnterMsgs
      BY <1>1, <2>5, MessageKinds DEF NetType, RecvEnter, Receiving
    <3>2. Head(inbox[c]).body.name \in Peers
      BY <3>1 DEF EnterMsgs
    <3> QED
      BY <1>1, <2>2, <2>5, <3>2 DEF MachineType, RecvEnter, SetMyState_ToSendDH,
         SetHState, HState, Fault
  <2>6. SetMyState_ToIdle(c) => HsType'
    BY <1>1 DEF MachineType, SetMyState_ToIdle, SetHState, HState
  <2>7. CASE HTake(c)
    BY <1>1, <2>1, <2>6, <2>7 DEF MachineType, HTake, HRequest, HRespond, SetHState, HState
  <2>8. CASE HDone(c)
    BY <2>1, <2>6, <2>8 DEF HDone, Fault
  <2> QED
    BY <2>1, <2>3, <2>4, <2>5, <2>7, <2>8, StepFrame DEF Frame
<1> QED
  BY <1>2, <1>3 DEF MachineType

\* CurrentExchanger is only ever set to a nickname.
LEMMA RatchetTypeStep ==
    ASSUME NEW c \in Clients, ClientsTyped, ClientInv(c), TaskNext(c)
    PROVE  RatchetType'
<1> USE PeerFacts
<1>1. RatchetType /\ NetType /\ LocalsReady(c)
  BY DEF ClientInv, ClientsTyped
<1>2. CASE UNCHANGED ratVars
  BY <1>1, <1>2 DEF RatchetType
<1>3. CASE RecvSenderKey(c)
  <2>1. Head(inbox[c]) \in KeyMsgs
    BY <1>1, <1>3, MessageKinds DEF NetType, RecvSenderKey, Receiving
  <2>2. Head(inbox[c]).from \in Names
    BY <2>1 DEF KeyMsgs
  <2> QED
    BY <1>1, <1>3, <2>2 DEF RatchetType, RecvSenderKey, Fault, RState
<1>4. CASE HStartKey(c)
  BY <1>1, <1>4 DEF RatchetType, HStartKey, LocalsReady, RState
<1>5. CASE KMark(c) \/ KFinish(c)
  BY <1>1, <1>5 DEF RatchetType, KMark, KFinish, RState
<1> QED
  BY <1>2, <1>3, <1>4, <1>5, StepFrame DEF Frame

\* A session key derived from the current handshake is a key.
LEMMA NewKeyType ==
    ASSUME NEW c \in Clients, MachineType, Engaged(c), hstate[c] # "idle"
    PROVE  /\ [by |-> c, n |-> draws[c]] = mynum[c]
           /\ mynum[c] \in Num
           /\ ClientKey(SharedSecret([by |-> c, n |-> draws[c]], opnum[c])) \in Key
<1>1. mynum[c] \in Num /\ opnum[c] \in Num \cup {Zero}
  BY PeerFacts DEF MachineType, Engaged
<1> QED
  BY <1>1 DEF Engaged, ClientKey, SharedSecret, Key

\* The dictionary holds keys for possible peers only.
LEMMA DictTypeStep ==
    ASSUME NEW c \in Clients, ClientsTyped, ClientInv(c), TaskNext(c)
    PROVE  DictType'
<1> USE PeerFacts
<1>1. DictType /\ NetType /\ MachineType /\ Engaged(c) /\ HandshakeOwner(c)
  BY DEF ClientInv, ClientsTyped
<1>2. CASE UNCHANGED dicVars
  BY <1>1, <1>2 DEF DictType
<1>3. CASE Connect(c)
  BY <1>1, <1>3 DEF DictType, Connect
<1>4. CASE RecvSenderKey(c)
  <2> DEFINE m == Head(inbox[c])
  <2>1. m \in KeyMsgs
    BY <1>1, <1>4, MessageKinds DEF NetType, RecvSenderKey, Receiving
  <2>2. m.from \in Peers /\ m.body.val \in Clients
    BY <2>1 DEF KeyMsgs
  <2>3. /\ UNCHANGED <<known, session>>
        /\ \/ UNCHANGED sender
           \/ sender' = [sender EXCEPT ![c][m.from] = m.body.val]
    BY <1>4 DEF RecvSenderKey, Fault
  <2> HIDE DEF m
  <2>4. sender \in [Clients -> [Peers -> Clients \cup {Null}]]
    BY <1>1 DEF DictType
  <2>5. CASE sender' = [sender EXCEPT ![c][m.from] = m.body.val]
    <3> DEFINE f == [sender[c] EXCEPT ![m.from] = m.body.val]
    <3>1. f \in [Peers -> Clients \cup {Null}]
      <4>1. sender[c] \in [Peers -> Clients \cup {Null}]  BY <2>4
      <4> QED  BY <2>2, <4>1
    <3>2. sender' = [sender EXCEPT ![c] = f]  BY <2>5
    <3> HIDE DEF f
    <3>3. sender' \in [Clients -> [Peers -> Clients \cup {Null}]]
      BY <2>4, <3>1, <3>2
    <3> QED
      BY <1>1, <2>3, <3>3 DEF DictType
  <2> QED
    BY <1>1, <2>3, <2>5 DEF DictType
<1>5. CASE RecvLeave(c)
  <2>1. NoKey \in Key
    BY DEF NoKey, Key
  <2>2. UNCHANGED dicVars \/ \E who : RemoveData(c, who)
    BY <1>5 DEF RecvLeave, Fault
  <2>3. ASSUME NEW who, RemoveData(c, who) PROVE DictType'
    <3>1. known' \in [Clients -> SUBSET Peers]
      BY <1>1, <2>3 DEF DictType, RemoveData
    <3>2. session' \in [Clients -> [Peers -> Key]]
      BY <1>1, <2>1, <2>3 DEF DictType, RemoveData
    <3>3. sender' \in [Clients -> [Peers -> Clients \cup {Null}]]
      BY <1>1, <2>3 DEF DictType, RemoveData
    <3> QED
      BY <3>1, <3>2, <3>3 DEF DictType
  <2> QED
    BY <1>2, <2>2, <2>3
<1>6. ASSUME SetMyState_ToIdle(c), hstate[c] # "idle" PROVE DictType'
  <2>1. shaker[c] \in Peers
    BY <1>1, <1>6 DEF Engaged
  <2> QED
    BY <1>1, <1>6, <2>1, NewKeyType DEF DictType, SetMyState_ToIdle
<1>7. CASE HTake(c)
  BY <1>2, <1>6, <1>7 DEF HTake, HRequest, HRespond
<1>8. CASE HDone(c)
  BY <1>2, <1>6, <1>8 DEF HDone, Fault
<1> QED
  BY <1>2, <1>3, <1>4, <1>5, <1>7, <1>8, StepFrame DEF Frame

\* Each channel holds at most one token.
LEMMA QueueTypeStep ==
    ASSUME NEW c \in Clients, ClientsTyped, ClientInv(c), TaskNext(c)
    PROVE  QueueType'
<1> USE PeerFacts
<1>1. QueueType /\ LocalType
  BY DEF ClientInv, ClientsTyped
<1>2. dhq' \in [Clients -> {<<>>} \cup {<<t>> : t \in Token}]
  <2>1. CASE UNCHANGED dhq
    BY <1>1, <2>1 DEF QueueType
  <2>2. CASE Connect(c) \/ PutDh(c) \/ HTake(c)
    <3>1. \E v \in {<<>>} \cup {<<t>> : t \in Token} : dhq' = [dhq EXCEPT ![c] = v]
      <4>1. CASE Connect(c)
        BY <4>1 DEF Connect, Token
      <4>2. CASE PutDh(c)
        BY <1>1, <4>2 DEF PutDh, LocalType
      <4>3. CASE HTake(c)
        BY <4>3 DEF HTake
      <4> QED
        BY <2>2, <4>1, <4>2, <4>3
    <3> QED
      BY <1>1, <3>1 DEF QueueType
  <2> QED
    BY <2>1, <2>2, StepFrame DEF Frame
<1>3. keyq' \in [Clients -> {<<>>} \cup {<<t>> : t \in Token}]
  <2>1. CASE UNCHANGED keyq
    BY <1>1, <2>1 DEF QueueType
  <2>2. CASE PutKey(c) \/ HPutKey(c) \/ KTake(c)
    BY <1>1, <2>2 DEF QueueType, LocalType, PutKey, HPutKey, KTake, Token
  <2> QED
    BY <2>1, <2>2, StepFrame DEF Frame
<1> QED
  BY <1>2, <1>3 DEF QueueType

\* The locals of the loops keep their types.
LEMMA LocalTypeStep ==
    ASSUME NEW c \in Clients, ClientsTyped, ClientInv(c), TaskNext(c)
    PROVE  LocalType'
<1> USE PeerFacts
<1>1. /\ LocalType /\ MachineType /\ QueueType /\ DictType /\ RatchetType
      /\ Engaged(c) /\ ExchangerSet(c) /\ ExchangeOpen(c) /\ LocalsReady(c)
      /\ HandshakeOwner(c)
  BY DEF ClientInv, ClientsTyped
<1>2. rpc' \in [Clients -> RPc] /\ rtok' \in [Clients -> Token]
  <2>1. CASE UNCHANGED rVars
    BY <1>1, <2>1 DEF LocalType
  <2>2. CASE RecvDh(c) \/ RecvSenderKey(c) \/ RecvEnter(c)
    BY <1>1, <2>2 DEF LocalType, RecvDh, RecvSenderKey, RecvEnter, Fault, RPc, Token
  <2>3. CASE PutDh(c) \/ PutKey(c)
    <3>1. /\ rpc' = [rpc EXCEPT ![c] = "recv"]
          /\ rtok' = [rtok EXCEPT ![c] = "rcv_first"]
      BY <2>3 DEF PutDh, PutKey
    <3>2. rpc \in [Clients -> RPc] /\ rtok \in [Clients -> Token]
      BY <1>1 DEF LocalType
    <3>3. "recv" \in RPc /\ "rcv_first" \in Token
      BY DEF RPc, Token
    <3> QED  BY <3>1, <3>2, <3>3
  <2> QED
    BY <2>1, <2>2, <2>3, StepFrame DEF Frame
<1>3. /\ hpc' \in [Clients -> HPc] /\ hmsg' \in [Clients -> DhMsgs \cup {NoMsg}]
      /\ hcur' \in [Clients -> Peers \cup {Null}] /\ hsent' \in [Clients -> Nat]
  <2>1. CASE UNCHANGED hVars
    BY <1>1, <2>1 DEF LocalType
  <2>2. hstate[c] # "idle" => BuildJson("dh", Nick[c], shaker[c], mynum[c]) \in DhMsgs
    BY <1>1, NewKeyType DEF Engaged, BuildJson, DhMsgs
  <2>3. CASE HTake(c)
    <3>1. \/ UNCHANGED hVars
          \/ /\ hmsg' = [hmsg EXCEPT ![c] =
                            BuildJson("dh", Nick[c], shaker[c], mynum[c])]
             /\ \E p \in HPc : hpc' = [hpc EXCEPT ![c] = p]
             /\ UNCHANGED <<hcur, hsent>>
             /\ hstate[c] = "send_dh"
      BY <2>3 DEF HTake, HRequest, HRespond, HPc
    <3> QED
      BY <1>1, <2>1, <2>2, <3>1 DEF LocalType
  <2>4. CASE HDone(c)
    BY <1>1, <2>4 DEF LocalType, MachineType, HDone, Fault, HPc
  <2>5. CASE HAnswer(c) \/ HResend(c)
    BY <1>1, <2>5 DEF LocalType, HAnswer, HResend, CountSend, HPc
  <2>6. CASE HCheck(c) \/ HStartKey(c) \/ HPutKey(c)
    BY <1>1, <2>6 DEF LocalType, HCheck, HStartKey, HPutKey, Fault, HPc
  <2> QED
    BY <2>1, <2>3, <2>4, <2>5, <2>6, StepFrame DEF Frame
<1>4. /\ kpc' \in [Clients -> KPc] /\ ktok' \in [Clients -> Token]
      /\ kkey' \in [Clients -> Key] /\ kmsg' \in [Clients -> KeyMsgs \cup {NoMsg}]
      /\ ksent' \in [Clients -> Nat]
  <2>1. CASE UNCHANGED kVars
    BY <1>1, <2>1 DEF LocalType
  <2>2. CASE KTake(c)
    <3>1. keyq[c] # <<>> => Head(keyq[c]) \in Token
      BY <1>1 DEF QueueType
    <3>2. /\ UNCHANGED <<kkey, kmsg, ksent>>
          /\ \/ UNCHANGED <<kpc, ktok>>
             \/ /\ kpc' = [kpc EXCEPT ![c] = "read_key"]
                /\ ktok' = [ktok EXCEPT ![c] = Head(keyq[c])]
                /\ keyq[c] # <<>>
      BY <2>2 DEF KTake
    <3>3. CASE UNCHANGED <<kpc, ktok>>
      BY <1>1, <3>2, <3>3 DEF LocalType
    <3>4. ASSUME NEW p \in KPc, NEW t \in Token,
                 kpc' = [kpc EXCEPT ![c] = p], ktok' = [ktok EXCEPT ![c] = t]
          PROVE  kpc' \in [Clients -> KPc] /\ ktok' \in [Clients -> Token]
      BY <1>1, <3>4 DEF LocalType
    <3>5. "read_key" \in KPc
      BY DEF KPc
    <3>6. kpc' \in [Clients -> KPc] /\ ktok' \in [Clients -> Token]
      BY <3>1, <3>2, <3>3, <3>4, <3>5
    <3> QED
      BY <1>1, <3>2, <3>6 DEF LocalType
  <2>3. CASE KReadKey(c)
    <3>1. exch[c] \in known[c] => session[c][exch[c]] \in Key
      BY <1>1 DEF DictType
    <3> QED
      BY <1>1, <2>3, <3>1 DEF LocalType, KReadKey, Fault, KPc
  <2>4. CASE KReadTo(c)
    <3>1. exch[c] \in Names /\ kkey[c] \in Key
      BY <1>1, <2>4 DEF KReadTo, ExchangerSet, ExchangeOpen, RatchetType, LocalType
    <3>2. BuildJson("sender_key", Nick[c], exch[c], [key |-> kkey[c], val |-> c])
             \in KeyMsgs
      BY <3>1 DEF BuildJson, KeyMsgs
    <3>3. NoKey \in Key
      BY DEF NoKey, Key
    <3> QED
      BY <1>1, <2>4, <3>2, <3>3 DEF LocalType, KReadTo, KBranch, KPc, Token
  <2>5. CASE KMark(c) \/ KResend(c) \/ KSeen(c)
    BY <1>1, <2>5 DEF LocalType, KMark, KResend, KSeen, CountSend, KPc
  <2>6. CASE KAnswer(c) \/ KFinish(c)
    BY <1>1, <2>6 DEF LocalType, KAnswer, KFinish, KPc
  <2> QED
    BY <2>1, <2>2, <2>3, <2>4, <2>5, <2>6, StepFrame DEF Frame
<1>5. lines' \in [Clients -> Nat]
  BY <1>1, StepFrame DEF LocalType, Frame, InputLine
<1> QED
  BY <1>2, <1>3, <1>4, <1>5 DEF LocalType

-----------------------------------------------------------------------------
(* Control: the handshake machine, its channel, and the loops R and H *)

\* A client that takes a step is up or on its way out, and only Connect
\* brings it up.
LEMMA StatusStep ==
    ASSUME NEW c \in Clients, ClientsTyped, ClientInv(c), TaskNext(c)
    PROVE  /\ status'[c] # "off"
           /\ Connect(c) \/ status[c] # "off"
           /\ status'[c] = "up" => Connect(c) \/ status[c] = "up"
<1> USE PeerFacts
<1>1. status \in [Clients -> Status]
  BY DEF ClientInv, ClientsTyped, MachineType
<1>2. CASE Connect(c)
  BY <1>1, <1>2 DEF Connect
<1>3. Fault(c) /\ status[c] = "up" => status'[c] = "faulted" /\ status[c] = "up"
  BY <1>1 DEF Fault
<1>4. CASE RNext(c)
  BY <1>3, <1>4 DEF RNext, RecvMessage, RecvDh, RecvSenderKey, RecvEnter, RecvLeave,
     RecvClosed, PutDh, PutKey, Receiving
<1>5. CASE HTake(c)
  BY <1>1, <1>5 DEF HTake, HRequest, HRespond
<1>6. CASE HNext(c) /\ ~HTake(c)
  BY <1>3, <1>6 DEF HNext, HAnswer, HResend, HDone, HCheck, HStartKey, HPutKey
<1>7. CASE KNext(c)
  BY <1>3, <1>7 DEF KNext, KTake, KReadKey, KReadTo, KMark, KResend, KSeen, KAnswer, KFinish
<1>8. CASE INext(c)
  BY <1>1, <1>3, <1>8 DEF INext, InputLine, InputQuit, SendFails, Exit
<1> QED
  BY <1>2, <1>4, <1>5, <1>6, <1>7, <1>8 DEF TaskNext

\* R and H hand the handshake over through the channel.
LEMMA ControlStep ==
    ASSUME NEW c \in Clients, ClientsTyped, ClientInv(c), TaskNext(c)
    PROVE  (DhWakeup(c) /\ HandshakeOwner(c) /\ Unborn(c))'
<1> USE PeerFacts
<1>1. /\ MachineType /\ QueueType /\ LocalType
      /\ DhWakeup(c) /\ HandshakeOwner(c) /\ Unborn(c)
  BY DEF ClientInv, ClientsTyped
<1>2. Unborn(c)'
  BY StatusStep DEF Unborn
<1>3. CASE Connect(c)
  <2>1. /\ hstate'[c] = "send_dh" /\ dhq'[c] = <<"send_first">>
        /\ rpc'[c] = "recv" /\ hpc'[c] = "take"
    BY <1>1, <1>3 DEF Connect, SetMyState_ToSendDH, SetHState, Unborn, MachineType,
       QueueType
  <2> QED
    BY <1>2, <2>1 DEF DhWakeup, HandshakeOwner
<1>4. CASE RecvDh(c)
  <2>1. /\ status[c] = "up" /\ rpc[c] = "recv" /\ UNCHANGED <<dhq, hpc>>
        /\ \/ UNCHANGED <<hstate, rpc>>
           \/ hstate[c] = "waiting_for_rcv_dh" /\ hstate'[c] = "rcved_dh" /\ rpc' = rpc
           \/ hstate[c] = "idle" /\ hstate'[c] = "send_dh" /\ rpc'[c] = "put_dh"
    BY <1>1, <1>4 DEF RecvDh, Receiving, SetMyState_ToSendDH, SetMyState_ToRcvedDH,
       SetHState, MachineType, LocalType
  <2> QED
    BY <1>1, <1>2, <2>1 DEF DhWakeup, HandshakeOwner
<1>5. CASE RecvEnter(c)
  <2>1. /\ status[c] = "up" /\ rpc[c] = "recv" /\ UNCHANGED <<dhq, hpc>>
        /\ \/ UNCHANGED <<hstate, rpc>>
           \/ hstate[c] = "idle" /\ hstate'[c] = "send_dh" /\ rpc'[c] = "put_dh"
    BY <1>1, <1>5 DEF RecvEnter, Receiving, SetMyState_ToSendDH, SetHState, Fault,
       MachineType, LocalType
  <2> QED
    BY <1>1, <1>2, <2>1 DEF DhWakeup, HandshakeOwner
<1>6. CASE RecvSenderKey(c) \/ PutKey(c)
  <2>1. /\ status[c] = "up" /\ UNCHANGED <<hstate, dhq, hpc>>
        /\ rpc[c] # "put_dh" /\ rpc'[c] # "put_dh"
    BY <1>1, <1>6 DEF RecvSenderKey, PutKey, Receiving, Fault, LocalType
  <2> QED
    BY <1>1, <1>2, <2>1 DEF DhWakeup, HandshakeOwner
<1>7. CASE PutDh(c)
  <2>1. /\ status[c] = "up" /\ UNCHANGED <<hstate, hpc>>
        /\ rpc[c] = "put_dh" /\ rpc'[c] = "recv" /\ dhq'[c] # <<>>
    BY <1>1, <1>7 DEF PutDh, LocalType, QueueType
  <2> QED
    BY <1>1, <1>2, <2>1 DEF DhWakeup, HandshakeOwner
<1>8. CASE HTake(c)
  <2>1. /\ status[c] = "up" /\ dhq[c] # <<>> /\ hpc[c] = "take"
        /\ rpc' = rpc /\ dhq'[c] = <<>>
    BY <1>1, <1>8 DEF HTake, QueueType
  <2>2. hstate[c] = "send_dh" /\ rpc[c] # "put_dh"
    BY <1>1, <2>1 DEF DhWakeup
  <2>3. \/ hstate'[c] = "waiting_for_rcv_dh" /\ hpc'[c] = "resend"
        \/ hstate'[c] = "idle" /\ hpc'[c] = "answer"
        \/ status'[c] = "faulted" /\ UNCHANGED <<hstate, hpc>>
    BY <1>1, <1>8, <2>2 DEF HTake, HRequest, HRespond, SetMyState_ToIdle, SetHState,
       MachineType, LocalType
  <2> QED
    BY <1>1, <1>2, <2>1, <2>2, <2>3 DEF DhWakeup, HandshakeOwner
<1>9. CASE HDone(c)
  <2>1. /\ status[c] = "up" /\ hstate[c] = "rcved_dh" /\ UNCHANGED <<rpc, dhq>>
        /\ \/ hstate'[c] = "idle" /\ hpc'[c] = "check"
           \/ UNCHANGED <<hstate, hpc>>
    BY <1>1, <1>9 DEF HDone, Fault, SetMyState_ToIdle, SetHState, MachineType, LocalType
  <2> QED
    BY <1>1, <1>2, <2>1 DEF DhWakeup, HandshakeOwner
<1>10. CASE HAnswer(c) \/ HResend(c) \/ HCheck(c) \/ HStartKey(c) \/ HPutKey(c)
  <2>1. /\ status[c] = "up" /\ UNCHANGED <<hstate, rpc, dhq>>
        /\ hpc[c] = "resend" <=> hpc'[c] = "resend"
    BY <1>1, <1>10 DEF HAnswer, HResend, HCheck, HStartKey, HPutKey, Fault, LocalType
  <2> QED
    BY <1>1, <1>2, <2>1 DEF DhWakeup, HandshakeOwner
<1>11. CASE UNCHANGED <<hsVars, dhq, rVars, hVars>>
  <2>1. UNCHANGED <<hstate, dhq, rpc, hpc>> /\ (status'[c] = "up" => Connect(c) \/ status[c] = "up")
    BY <1>11, StatusStep
  <2> QED
    BY <1>1, <1>2, <1>3, <2>1 DEF DhWakeup, HandshakeOwner
<1> QED
  BY <1>3, <1>4, <1>5, <1>6, <1>7, <1>8, <1>9, <1>10, <1>11, StepFrame DEF Frame

\* The number and the peer of the handshake, and the request that carries them.
LEMMA EngagedStep ==
    ASSUME NEW c \in Clients, ClientsTyped, ClientInv(c), TaskNext(c)
    PROVE  (Engaged(c) /\ RequestMatches(c))'
<1> USE PeerFacts
<1>1. /\ MachineType /\ LocalType /\ NetType
      /\ DhWakeup(c) /\ HandshakeOwner(c) /\ Unborn(c) /\ Engaged(c) /\ RequestMatches(c)
  BY DEF ClientInv, ClientsTyped
<1>2. DrawNumber(c) /\ hstate[c] = "idle" =>
         mynum'[c] = [by |-> c, n |-> draws'[c]] /\ mynum'[c] # Zero
  <2>1. [by |-> c, n |-> draws[c] + 1] # Zero
    BY <1>1 DEF MachineType, Zero
  <2> QED
    BY <1>1, <2>1 DEF MachineType, Engaged, DrawNumber
<1>3. DrawNumber(c) /\ hstate[c] # "idle" => UNCHANGED <<mynum, draws>>
  BY <1>1 DEF Engaged, DrawNumber
<1>4. CASE Connect(c)
  <2>1. /\ hstate[c] = "idle" /\ hstate'[c] = "send_dh" /\ shaker'[c] = "server"
        /\ hpc'[c] = "take" /\ DrawNumber(c)
    BY <1>1, <1>4 DEF Connect, Unborn, SetMyState_ToSendDH, SetHState, MachineType
  <2> QED
    BY <1>2, <2>1 DEF Engaged, RequestMatches
<1>5. CASE RecvDh(c)
  <2>1. Head(inbox[c]).from \in Peers
    BY <1>1, <1>5, MessageKinds DEF NetType, RecvDh, Receiving, DhMsgs
  <2>2. \/ /\ hstate[c] = "waiting_for_rcv_dh" /\ hstate'[c] = "rcved_dh"
           /\ DrawNumber(c) /\ shaker' = shaker
        \/ /\ hstate[c] = "idle" /\ hstate'[c] = "send_dh"
           /\ DrawNumber(c) /\ shaker'[c] \in Peers
        \/ UNCHANGED hsVars
    BY <1>1, <1>5, <2>1 DEF RecvDh, SetMyState_ToSendDH, SetMyState_ToRcvedDH, SetHState,
       MachineType
  <2>3. UNCHANGED hVars
    BY <1>5 DEF RecvDh
  <2> QED
    BY <1>1, <1>2, <1>3, <2>2, <2>3 DEF Engaged, RequestMatches, HandshakeOwner
<1>6. CASE RecvEnter(c)
  <2>1. Head(inbox[c]).body.name \in Peers
    BY <1>1, <1>6, MessageKinds DEF NetType, RecvEnter, Receiving, EnterMsgs
  <2>2. \/ /\ hstate[c] = "idle" /\ hstate'[c] = "send_dh"
           /\ DrawNumber(c) /\ shaker'[c] \in Peers
        \/ UNCHANGED hsVars
    BY <1>1, <1>6, <2>1 DEF RecvEnter, SetMyState_ToSendDH, SetHState, Fault, MachineType
  <2>3. UNCHANGED hVars
    BY <1>6 DEF RecvEnter, Fault
  <2> QED
    BY <1>1, <1>2, <2>2, <2>3 DEF Engaged, RequestMatches, HandshakeOwner
<1>7. CASE HTake(c)
  <2>1. hstate[c] = "send_dh"
    BY <1>1, <1>7 DEF HTake, DhWakeup
  <2>2. \/ /\ hstate'[c] = "waiting_for_rcv_dh" /\ UNCHANGED <<shaker, mynum, draws>>
           /\ hmsg'[c] = BuildJson("dh", Nick[c], shaker[c], mynum[c])
        \/ hstate'[c] = "idle" /\ mynum'[c] = Zero /\ hpc'[c] = "answer"
        \/ UNCHANGED <<hsVars, hVars>>
    BY <1>1, <1>7, <2>1 DEF HTake, HRequest, HRespond, SetMyState_ToIdle, SetHState,
       MachineType, LocalType
  <2> QED
    BY <1>1, <2>1, <2>2 DEF Engaged, RequestMatches
<1>8. CASE HDone(c)
  <2>1. \/ hstate'[c] = "idle" /\ mynum'[c] = Zero /\ hpc'[c] = "check"
        \/ UNCHANGED <<hsVars, hVars>>
    BY <1>1, <1>8 DEF HDone, Fault, SetMyState_ToIdle, SetHState, MachineType, LocalType
  <2> QED
    BY <1>1, <2>1 DEF Engaged, RequestMatches
<1>9. CASE HAnswer(c) \/ HResend(c) \/ HCheck(c) \/ HStartKey(c) \/ HPutKey(c)
  <2>1. UNCHANGED hsVars /\ (hpc'[c] = "resend" => UNCHANGED <<hpc, hmsg>>)
    BY <1>1, <1>9 DEF HAnswer, HResend, HCheck, HStartKey, HPutKey, Fault, LocalType
  <2> QED
    BY <1>1, <2>1 DEF Engaged, RequestMatches
<1>10. CASE UNCHANGED <<hsVars, hVars>>
  BY <1>1, <1>10 DEF Engaged, RequestMatches
<1> QED
  BY <1>4, <1>5, <1>6, <1>7, <1>8, <1>9, <1>10, StepFrame DEF Frame

\* What is left of a sequence whose first element is taken.
LEMMA TailOf ==
    ASSUME NEW S, NEW s \in Seq(S), s # <<>>
    PROVE  /\ Len(Tail(s)) = Len(s) - 1
           /\ \A i \in 1..Len(Tail(s)) : i + 1 \in 1..Len(s) /\ Tail(s)[i] = s[i + 1]
<1>1. Len(s) \in Nat /\ Len(s) # 0
  OBVIOUS
<1>2. Len(Tail(s)) = Len(s) - 1
  BY <1>1
<1> QED
  BY <1>1, <1>2

\* A packet that is read leaves the others as they were.
LEMMA HonestStep ==
    ASSUME NEW c \in Clients, ClientsTyped, ClientInv(c), TaskNext(c)
    PROVE  InboxHonest(c)'
<1> USE PeerFacts
<1>1. NetType /\ InboxHonest(c)
  BY DEF ClientInv, ClientsTyped
<1>2. CASE UNCHANGED inbox
  BY <1>1, <1>2 DEF InboxHonest
<1>3. CASE Exit(c)
  <2>1. inbox'[c] = <<>>
    BY <1>1, <1>3 DEF Exit, NetClose, NetType
  <2> QED
    BY <2>1 DEF InboxHonest
<1>4. ASSUME inbox[c] # <<>>, inbox' = [inbox EXCEPT ![c] = Tail(@)]
      PROVE  InboxHonest(c)'
  <2>1. inbox[c] \in Seq(Message) /\ inbox'[c] = Tail(inbox[c])
    BY <1>1, <1>4 DEF NetType
  <2>2. /\ Len(inbox'[c]) = Len(inbox[c]) - 1
        /\ \A i \in 1..Len(inbox'[c]) :
              i + 1 \in 1..Len(inbox[c]) /\ inbox'[c][i] = inbox[c][i + 1]
    BY <1>4, <2>1, TailOf
  <2> QED
    BY <1>1, <2>2 DEF InboxHonest
<1>5. CASE RecvMessage(c) \/ RecvDh(c) \/ RecvSenderKey(c)
  BY <1>2, <1>4, <1>5
     DEF RecvMessage, RecvDh, RecvSenderKey, Receiving, Take, NetTake, Fault
<1>6. CASE RecvEnter(c) \/ RecvLeave(c)
  BY <1>2, <1>4, <1>6 DEF RecvEnter, RecvLeave, Receiving, Take, NetTake, Fault
<1> QED
  BY <1>2, <1>3, <1>5, <1>6, StepFrame DEF Frame

\* Once taken as the opponent's, a number stays until the session is made.
LEMMA OpponentStep ==
    ASSUME NEW c \in Clients, ClientsTyped, ClientInv(c), TaskNext(c)
    PROVE  OpponentIsOther(c)'
<1> USE PeerFacts
<1>1. /\ NetType /\ MachineType /\ QueueType /\ LocalType
      /\ InboxHonest(c) /\ OpponentIsOther(c) /\ Unborn(c) /\ DhWakeup(c) /\ HandshakeOwner(c)
  BY DEF ClientInv, ClientsTyped
<1>2. CASE Connect(c)
  <2>1. /\ hstate'[c] = "send_dh" /\ dhq'[c] = <<"send_first">> /\ rpc'[c] = "recv"
    BY <1>1, <1>2 DEF Connect, SetMyState_ToSendDH, SetHState, Unborn, MachineType, QueueType
  <2> QED
    BY <2>1 DEF OpponentIsOther
<1>3. CASE RecvDh(c)
  <2> DEFINE m == Head(inbox[c])
  <2>1. m \in DhMsgs
    BY <1>1, <1>3, MessageKinds DEF NetType, RecvDh, Receiving
  <2>2. m.body \in Num /\ m.body.by # c /\ NameOf(m.body.by) = m.from
    <3>1. m = inbox[c][1] /\ 1 \in 1..Len(inbox[c]) /\ m.type = "dh"
      BY <1>1, <1>3 DEF NetType, RecvDh, Receiving
    <3> QED
      BY <1>1, <2>1, <3>1 DEF InboxHonest, OwnNumber, DhMsgs
  <2>3. /\ UNCHANGED dhq /\ status[c] = "up" /\ rpc[c] = "recv"
        /\ \/ opnum'[c] = m.body /\ shaker'[c] = m.from
           \/ UNCHANGED <<hsVars, rVars>>
    BY <1>1, <1>3 DEF RecvDh, Receiving, MachineType
  <2>4. CASE UNCHANGED <<hsVars, rVars>>
    BY <1>1, <2>3, <2>4 DEF OpponentIsOther
  <2> QED
    BY <2>2, <2>3, <2>4 DEF OpponentIsOther
<1>4. CASE RecvEnter(c)
  <2>1. \/ UNCHANGED <<hsVars, rVars, dhq>>
        \/ /\ hstate[c] = "idle" /\ hstate'[c] = "send_dh" /\ UNCHANGED dhq
           /\ rtok'[c] = "send_first" /\ status[c] = "up" /\ rpc[c] = "recv"
    BY <1>1, <1>4 DEF RecvEnter, Receiving, SetMyState_ToSendDH, SetHState, Fault,
       MachineType, LocalType
  <2>2. hstate[c] = "idle" /\ status[c] = "up" => dhq[c] # <<"rcv_first">>
    <3>1. <<>> # <<"rcv_first">>
      OBVIOUS
    <3> QED
      BY <1>1, <3>1 DEF DhWakeup
  <2> QED
    BY <1>1, <2>1, <2>2 DEF OpponentIsOther
<1>5. CASE RecvSenderKey(c) \/ PutKey(c)
  <2>1. UNCHANGED <<hsVars, dhq>> /\ (rVars' = rVars \/ rpc'[c] # "put_dh")
    BY <1>1, <1>5 DEF RecvSenderKey, PutKey, Fault, LocalType
  <2> QED
    BY <1>1, <2>1 DEF OpponentIsOther
<1>6. CASE PutDh(c)
  <2>1. /\ UNCHANGED hsVars /\ rpc[c] = "put_dh" /\ rpc'[c] = "recv"
        /\ dhq'[c] = <<rtok[c]>>
    BY <1>1, <1>6 DEF PutDh, LocalType, QueueType
  <2>2. dhq'[c] = <<"rcv_first">> => rtok[c] = "rcv_first"
    BY <2>1
  <2> QED
    BY <1>1, <2>1, <2>2 DEF OpponentIsOther
<1>7. CASE HTake(c)
  <2>1. status[c] = "up" /\ dhq[c] # <<>> /\ UNCHANGED rpc /\ dhq'[c] = <<>>
    BY <1>1, <1>7 DEF HTake, QueueType
  <2>2. rpc[c] # "put_dh" /\ hstate[c] = "send_dh"
    BY <1>1, <2>1 DEF DhWakeup
  <2>3. hstate'[c] # "rcved_dh"
    BY <1>1, <1>7, <2>2 DEF HTake, HRequest, HRespond, SetMyState_ToIdle, SetHState,
       MachineType
  <2> QED
    BY <2>1, <2>2, <2>3 DEF OpponentIsOther
<1>8. CASE HDone(c)
  <2>1. /\ status[c] = "up" /\ hstate[c] = "rcved_dh" /\ UNCHANGED <<rVars, dhq>>
        /\ hstate'[c] = "idle" \/ UNCHANGED hsVars
    BY <1>1, <1>8 DEF HDone, Fault, SetMyState_ToIdle, SetHState, MachineType
  <2>2. rpc[c] # "put_dh"
    BY <1>1, <2>1 DEF DhWakeup
  <2> QED
    BY <1>1, <2>1, <2>2 DEF OpponentIsOther
<1>9. CASE UNCHANGED <<hsVars, dhq, rVars>>
  BY <1>1, <1>9 DEF OpponentIsOther
<1> QED
  BY <1>2, <1>3, <1>4, <1>5, <1>6, <1>7, <1>8, <1>9, StepFrame DEF Frame

\* No notice takes the server out of the dictionary.
LEMMA ServerFirstStep ==
    ASSUME NEW c \in Clients, ClientsTyped, ClientInv(c), TaskNext(c)
    PROVE  ServerFirst(c)'
<1> USE PeerFacts
<1>1. /\ NetType /\ MachineType /\ DictType /\ QueueType /\ LocalType
      /\ ServerFirst(c) /\ Unborn(c) /\ DhWakeup(c) /\ HandshakeOwner(c)
  BY DEF ClientInv, ClientsTyped
<1>2. CASE Connect(c)
  <2>1. hstate'[c] = "send_dh" /\ shaker'[c] = "server"
    BY <1>1, <1>2 DEF Connect, SetMyState_ToSendDH, SetHState, Unborn, MachineType
  <2> QED
    BY <2>1 DEF ServerFirst
<1>3. CASE RecvDh(c) \/ RecvEnter(c)
  <2>1. /\ status[c] # "off" /\ UNCHANGED known
        /\ \/ UNCHANGED <<hstate, shaker>>
           \/ hstate[c] = "idle"
           \/ hstate'[c] = "rcved_dh" /\ UNCHANGED shaker
    BY <1>1, <1>3 DEF RecvDh, RecvEnter, Receiving, Fault, SetMyState_ToRcvedDH, SetHState,
       MachineType
  <2> QED
    BY <1>1, <2>1 DEF ServerFirst
<1>4. CASE RecvLeave(c)
  <2>1. Head(inbox[c]).body.name # "server"
    <3>1. Head(inbox[c]) \in LeaveMsgs
      BY <1>1, <1>4, MessageKinds DEF NetType, RecvLeave, Receiving
    <3> QED
      BY <3>1, ProtocolAssumption DEF LeaveMsgs
  <2>2. /\ status[c] # "off" /\ UNCHANGED hsVars
        /\ "server" \in known[c] => "server" \in known'[c]
    BY <1>1, <1>4, <2>1 DEF RecvLeave, Receiving, Fault, RemoveData, DictType
  <2> QED
    BY <1>1, <2>2 DEF ServerFirst
<1>5. CASE HTake(c) \/ HDone(c)
  <2>1. /\ status[c] # "off"
        /\ \/ known'[c] = known[c] \cup {shaker[c]}
           \/ UNCHANGED <<known, hstate, shaker>>
           \/ UNCHANGED <<known, shaker>> /\ hstate'[c] = "waiting_for_rcv_dh"
    BY <1>1, <1>5 DEF HTake, HRequest, HRespond, HDone, SetMyState_ToIdle, SetHState, Fault,
       MachineType, DictType
  <2> QED
    BY <1>1, <2>1 DEF ServerFirst
<1>6. CASE RecvSenderKey(c)
  <2>1. UNCHANGED <<known, hsVars>> /\ status[c] # "off"
    BY <1>6 DEF RecvSenderKey, Receiving, Fault
  <2> QED
    BY <1>1, <2>1 DEF ServerFirst
<1>7. CASE UNCHANGED <<hsVars, dicVars>>
  BY <1>1, <1>2, <1>7, StatusStep DEF ServerFirst
<1> QED
  BY <1>2, <1>3, <1>4, <1>5, <1>6, <1>7, StepFrame DEF Frame

-----------------------------------------------------------------------------
(* The key exchange: the ratchet, its channel, and the locals of H and K *)

\* A step finds in its locals what the step before has put there.
LEMMA LocalsReadyStep ==
    ASSUME NEW c \in Clients, ClientsTyped, ClientInv(c), TaskNext(c)
    PROVE  LocalsReady(c)'
<1> USE PeerFacts
<1>1. /\ MachineType /\ LocalType /\ RatchetType /\ QueueType
      /\ LocalsReady(c) /\ Engaged(c) /\ ExchangerSet(c) /\ ExchangeOpen(c)
      /\ HandshakeOwner(c)
  BY DEF ClientInv, ClientsTyped
<1> DEFINE HReady == /\ hpc[c] = "check" => hcur[c] \in Peers
                     /\ hpc[c] = "start_key" => hcur[c] \in Names
                     /\ hpc[c] \in {"answer", "resend"} => hmsg[c] \in DhMsgs
           KReady == kpc[c] \in {"mark", "resend", "answer"} =>
                        kmsg[c] \in KeyMsgs /\ kmsg[c].from = Nick[c]
<1>2. HReady'
  <2>1. CASE UNCHANGED hVars
    BY <1>1, <2>1 DEF LocalsReady
  <2>2. CASE HTake(c)
    <3>1. hstate[c] # "idle" =>
             BuildJson("dh", Nick[c], shaker[c], mynum[c]) \in DhMsgs
      BY <1>1, NewKeyType DEF Engaged, BuildJson, DhMsgs
    <3>2. \/ UNCHANGED hVars
          \/ /\ hmsg'[c] = BuildJson("dh", Nick[c], shaker[c], mynum[c])
             /\ hpc'[c] \in {"resend", "answer"}
             /\ hstate[c] = "send_dh"
      BY <1>1, <2>2 DEF HTake, HRequest, HRespond, LocalType
    <3> QED
      BY <2>1, <3>1, <3>2
  <2>3. CASE HDone(c)
    <3>1. shaker[c] \in Peers
      BY <1>1, <2>3 DEF HDone, Engaged
    <3>2. \/ UNCHANGED hVars
          \/ /\ hcur' = [hcur EXCEPT ![c] = shaker[c]]
             /\ hpc' = [hpc EXCEPT ![c] = "check"]
      BY <2>3 DEF HDone, Fault
    <3>3. CASE ~UNCHANGED hVars
      <4>1. hcur'[c] = shaker[c]
        BY <1>1, <3>2, <3>3 DEF LocalType
      <4>2. hpc'[c] = "check"
        BY <1>1, <3>2, <3>3 DEF LocalType
      <4> QED
        BY <3>1, <4>1, <4>2
    <3> QED
      BY <2>1, <3>3
  <2>4. CASE HCheck(c)
    <3>1. \/ UNCHANGED hVars
          \/ hpc'[c] = "take"
          \/ hpc[c] = "check" /\ hpc'[c] = "start_key" /\ hcur[c] # "server" /\ UNCHANGED hcur
      BY <1>1, <2>4 DEF HCheck, Fault, LocalType
    <3> QED
      BY <1>1, <2>1, <3>1 DEF LocalsReady, Peers
  <2>5. CASE HAnswer(c) \/ HResend(c) \/ HStartKey(c) \/ HPutKey(c)
    <3>1. hpc'[c] \in {"take", "put_key"} \/ UNCHANGED <<hpc, hmsg, hcur>>
      BY <1>1, <2>5 DEF HAnswer, HResend, HStartKey, HPutKey, LocalType
    <3> QED
      BY <1>1, <3>1 DEF LocalsReady
  <2> QED
    BY <2>1, <2>2, <2>3, <2>4, <2>5, StepFrame DEF Frame
<1>3. KReady'
  <2>1. CASE UNCHANGED kVars
    BY <1>1, <2>1 DEF LocalsReady
  <2>2. CASE KReadTo(c)
    <3>1. exch[c] \in Names /\ kkey[c] \in Key
      BY <1>1, <2>2 DEF KReadTo, ExchangerSet, ExchangeOpen, RatchetType, LocalType
    <3>2. BuildJson("sender_key", Nick[c], exch[c], [key |-> kkey[c], val |-> c])
             \in {m \in KeyMsgs : m.from = Nick[c]}
      BY <3>1 DEF BuildJson, KeyMsgs
    <3>3. kmsg'[c] = BuildJson("sender_key", Nick[c], exch[c],
                                [key |-> kkey[c], val |-> c])
      BY <1>1, <2>2 DEF KReadTo, LocalType
    <3> QED
      BY <3>2, <3>3
  <2>3. CASE KMark(c) \/ KResend(c)
    <3>1. kpc[c] \in {"mark", "resend"} /\ UNCHANGED kmsg
      BY <2>3 DEF KMark, KResend
    <3> QED
      BY <1>1, <3>1 DEF LocalsReady
  <2>4. CASE KTake(c) \/ KReadKey(c) \/ KSeen(c) \/ KAnswer(c) \/ KFinish(c)
    <3>1. kpc'[c] \in {"take", "read_key", "read_to", "finish"} \/ UNCHANGED <<kpc, kmsg>>
      BY <1>1, <2>4 DEF KTake, KReadKey, KSeen, KAnswer, KFinish, Fault, LocalType
    <3> QED
      BY <1>1, <3>1 DEF LocalsReady
  <2> QED
    BY <2>1, <2>2, <2>3, <2>4, StepFrame DEF Frame
<1> QED
  BY <1>2, <1>3 DEF LocalsReady

\* The ratchet leaves idle with an exchanger and returns to idle only by K's
\* last step; a wake-up for K is under way whenever there is a key to send.
LEMMA ExchangeStep ==
    ASSUME NEW c \in Clients, ClientsTyped, ClientInv(c), TaskNext(c)
    PROVE  (ExchangerSet(c) /\ ExchangeOpen(c) /\ KeyWakeup(c))'
<1> USE PeerFacts
<1>1. /\ NetType /\ RatchetType /\ QueueType /\ LocalType
      /\ LocalsReady(c) /\ ExchangerSet(c) /\ ExchangeOpen(c) /\ KeyWakeup(c)
  BY DEF ClientInv, ClientsTyped
<1>2. CASE RecvSenderKey(c)
  <2>1. Head(inbox[c]).from # Null
    <3>1. Head(inbox[c]) \in KeyMsgs
      BY <1>1, <1>2, MessageKinds DEF NetType, RecvSenderKey, Receiving
    <3> QED
      BY <3>1 DEF KeyMsgs
  <2>2. \/ /\ exch'[c] = Head(inbox[c]).from /\ rstate'[c] # "idle"
           /\ rpc'[c] = "put_key"
        \/ UNCHANGED <<ratVars, rVars>>
    BY <1>1, <1>2 DEF RecvSenderKey, Fault, RatchetType, LocalType
  <2>3. UNCHANGED <<keyq, hVars, kVars>>
    BY <1>2 DEF RecvSenderKey, Fault
  <2> QED
    BY <1>1, <2>1, <2>2, <2>3 DEF ExchangerSet, ExchangeOpen, KeyWakeup
<1>3. CASE HStartKey(c)
  <2>1. /\ exch'[c] \in Names /\ rstate'[c] = "send_key" /\ hpc'[c] = "put_key"
    BY <1>1, <1>3 DEF HStartKey, RatchetType, LocalType, LocalsReady
  <2> QED
    BY <2>1 DEF ExchangerSet, ExchangeOpen, KeyWakeup
<1>4. CASE KTake(c)
  <2>1. /\ UNCHANGED ratVars
        /\ \/ rstate[c] = "send_key" /\ kpc'[c] = "read_key"
           \/ rstate[c] # "send_key" /\ UNCHANGED kpc
    BY <1>1, <1>4 DEF KTake, LocalType
  <2> QED
    BY <1>1, <2>1 DEF ExchangerSet, ExchangeOpen, KeyWakeup
<1>5. CASE KMark(c) \/ KFinish(c)
  <2>1. \/ /\ rstate'[c] = "waiting_for_rcv_key" /\ kpc[c] = "mark" /\ UNCHANGED exch
        \/ /\ rstate'[c] = "idle" /\ exch'[c] = Null /\ kpc'[c] = "take"
    BY <1>1, <1>5 DEF KMark, KFinish, RatchetType, LocalType
  <2> QED
    BY <1>1, <2>1 DEF ExchangerSet, ExchangeOpen, KeyWakeup
<1>6. CASE KReadKey(c) \/ KReadTo(c) \/ KResend(c) \/ KSeen(c) \/ KAnswer(c)
  <2>1. UNCHANGED ratVars /\ kpc[c] # "take" /\ kpc'[c] # "take"
    BY <1>1, <1>6 DEF KReadKey, KReadTo, KBranch, KResend, KSeen, KAnswer, Fault, LocalType
  <2> QED
    BY <1>1, <2>1 DEF ExchangerSet, ExchangeOpen, KeyWakeup
<1>7. CASE PutKey(c) \/ HPutKey(c)
  <2>1. UNCHANGED <<ratVars, kVars>> /\ keyq'[c] # <<>>
    <3>1. \E t \in Token \cup {"send_first"} : keyq' = [keyq EXCEPT ![c] = <<t>>]
      BY <1>1, <1>7 DEF PutKey, HPutKey, LocalType
    <3>2. keyq'[c] # <<>>
      BY <1>1, <3>1 DEF QueueType
    <3> QED  BY <1>7, <3>2 DEF PutKey, HPutKey
  <2> QED
    BY <1>1, <2>1 DEF ExchangerSet, ExchangeOpen, KeyWakeup
<1>8. CASE RecvDh(c) \/ RecvEnter(c) \/ PutDh(c)
  <2>1. UNCHANGED <<ratVars, keyq, hVars, kVars>> /\ rpc[c] # "put_key"
    BY <1>8 DEF RecvDh, RecvEnter, PutDh, Receiving, Fault
  <2> QED
    BY <1>1, <2>1 DEF ExchangerSet, ExchangeOpen, KeyWakeup
<1>9. CASE HTake(c) \/ HAnswer(c) \/ HResend(c) \/ HDone(c) \/ HCheck(c)
  <2>1. UNCHANGED <<ratVars, keyq, rVars, kVars>> /\ hpc[c] # "put_key"
    BY <1>9 DEF HTake, HAnswer, HResend, HDone, HCheck, Fault
  <2> QED
    BY <1>1, <2>1 DEF ExchangerSet, ExchangeOpen, KeyWakeup
<1>10. CASE UNCHANGED <<ratVars, keyq, rVars, hVars, kVars>>
  BY <1>1, <1>10 DEF ExchangerSet, ExchangeOpen, KeyWakeup
<1> QED
  BY <1>2, <1>3, <1>4, <1>5, <1>6, <1>7, <1>8, <1>9, <1>10, StepFrame DEF Frame

-----------------------------------------------------------------------------
(* Session keys and the numbers they come from *)

\* Numbers are counted up: what has been drawn stays drawn, a new number is
\* none of them, and a client's current number is one of them.
LEMMA DrawnGrows ==
    ASSUME NEW c \in Clients, MachineType, DrawNumber(c)
    PROVE  /\ \A x \in Drawn(c) : x \in Drawn(c)'
           /\ mynum[c] = Zero => mynum'[c] \notin Drawn(c)
<1>1. draws[c] \in Nat /\ mynum[c] \in Num \cup {Zero}
  BY PeerFacts DEF MachineType
<1>2. CASE mynum[c] = Zero
  <2>1. draws'[c] = draws[c] + 1 /\ mynum'[c] = [by |-> c, n |-> draws[c] + 1]
    BY <1>2, PeerFacts DEF DrawNumber, MachineType
  <2>2. \A i \in 1..draws[c] : i \in 1..draws'[c] /\ i # draws[c] + 1
    BY <1>1, <2>1
  <2>3. ASSUME NEW x \in Drawn(c) PROVE x \in Drawn(c)' /\ x # mynum'[c]
    <3>1. PICK i \in 1..draws[c] : x = [by |-> c, n |-> i]
      BY <2>3 DEF Drawn
    <3>2. i \in 1..draws'[c] /\ x.n # draws[c] + 1
      BY <2>2, <3>1
    <3> QED
      BY <2>1, <3>1, <3>2 DEF Drawn
  <2> QED
    BY <2>3
<1>3. CASE mynum[c] # Zero
  BY <1>3 DEF DrawNumber, Drawn
<1> QED
  BY <1>2, <1>3

\* The ways in which the dictionary or the numbers change.
SessionMove(c) ==
    \/ /\ UNCHANGED <<session, draws, mynum>>
       /\ UNCHANGED known \/ known'[c] = known[c] \cup {Nick[c]}
    \/ /\ DrawNumber(c) /\ UNCHANGED session
       /\ UNCHANGED known \/ known'[c] = known[c] \cup {Nick[c]}
    \/ /\ SetMyState_ToIdle(c) /\ hstate[c] # "idle"
       /\ CanAdd(c, shaker[c])
       /\ opnum[c] \in Num /\ opnum[c].by # c
       /\ NameOf(opnum[c].by) = shaker[c]
    \/ (\E who : RemoveData(c, who)) /\ UNCHANGED <<draws, mynum>>

\* Every step is one of them.
LEMMA SessionMoves ==
    ASSUME NEW c \in Clients, ClientsTyped, ClientInv(c), TaskNext(c)
    PROVE  SessionMove(c)
<1> USE PeerFacts
<1>1. /\ NetType /\ MachineType /\ DictType /\ QueueType /\ LocalType
      /\ OpponentIsOther(c) /\ DhWakeup(c) /\ Unborn(c)
  BY DEF ClientInv, ClientsTyped
<1>2. CASE Connect(c)
  BY <1>1, <1>2 DEF Connect, SetMyState_ToSendDH, SessionMove, DictType, Unborn
<1>3. CASE RecvDh(c) \/ RecvEnter(c)
  BY <1>3 DEF RecvDh, RecvEnter, SetMyState_ToSendDH, SetMyState_ToRcvedDH, Fault,
     SessionMove
<1>4. CASE RecvSenderKey(c) \/ RecvLeave(c)
  BY <1>4 DEF RecvSenderKey, RecvLeave, Fault, SessionMove
<1>5. CASE HTake(c)
  <2>1. status[c] = "up" /\ dhq[c] # <<>>
    BY <1>5 DEF HTake
  <2>2. hstate[c] = "send_dh"
    BY <1>1, <2>1 DEF DhWakeup
  <2>3. Head(dhq[c]) # "send_first" => dhq[c] = <<"rcv_first">>
    BY <1>1, <2>1 DEF QueueType, Token
  <2>4. \/ UNCHANGED <<session, draws, mynum, known>>
        \/ /\ SetMyState_ToIdle(c) /\ CanAdd(c, shaker[c])
           /\ Head(dhq[c]) # "send_first"
    BY <1>5 DEF HTake, HRequest, HRespond
  <2> QED
    BY <1>1, <2>2, <2>3, <2>4 DEF OpponentIsOther, SessionMove
<1>6. CASE HDone(c)
  <2>1. /\ hstate[c] = "rcved_dh"
        /\ \/ UNCHANGED <<session, draws, mynum, known>>
           \/ SetMyState_ToIdle(c) /\ CanAdd(c, shaker[c])
    BY <1>6 DEF HDone, Fault
  <2> QED
    BY <1>1, <2>1 DEF OpponentIsOther, SessionMove
<1>7. CASE UNCHANGED <<hsVars, dicVars>>
  BY <1>7 DEF SessionMove
<1> QED
  BY <1>2, <1>3, <1>4, <1>5, <1>6, <1>7, StepFrame DEF Frame

\* What GetSharedSecret files: the two numbers of the handshake, one drawn
\* here and one drawn by the peer.
LEMMA NewSession ==
    ASSUME NEW c \in Clients, ClientsTyped, ClientInv(c),
           SetMyState_ToIdle(c), hstate[c] # "idle", opnum[c] \in Num
    PROVE  /\ shaker[c] \in Peers
           /\ known'[c] = known[c] \cup {shaker[c]}
           /\ session'[c][shaker[c]] = ClientKey({mynum[c], opnum[c]})
           /\ session'[c][shaker[c]].secret = {mynum[c], opnum[c]}
           /\ \A p \in Peers \ {shaker[c]} : session'[c][p] = session[c][p]
           /\ mynum[c] \in Drawn(c) /\ mynum'[c] = Zero /\ UNCHANGED draws
<1> USE PeerFacts
<1>1. MachineType /\ DictType /\ Engaged(c)
  BY DEF ClientInv, ClientsTyped
<1>2. shaker[c] \in Peers /\ mynum[c] = [by |-> c, n |-> draws[c]] /\ mynum[c] \in Num
  BY <1>1, NewKeyType DEF Engaged
<1>3. mynum[c] \in Drawn(c)
  <2>1. draws[c] \in 1..draws[c]
    BY <1>1, <1>2 DEF Num, MachineType
  <2> QED
    BY <1>2, <2>1 DEF Drawn
<1>4. session' = [session EXCEPT ![c][shaker[c]] =
                     ClientKey(SharedSecret(mynum[c], opnum[c]))]
  BY <1>2 DEF SetMyState_ToIdle
<1>5. /\ ClientKey(SharedSecret(mynum[c], opnum[c])).secret = {mynum[c], opnum[c]}
      /\ SharedSecret(mynum[c], opnum[c]) = {mynum[c], opnum[c]}
  BY DEF ClientKey, SharedSecret
<1>6. /\ session'[c][shaker[c]] = ClientKey({mynum[c], opnum[c]})
      /\ session'[c][shaker[c]].secret = {mynum[c], opnum[c]}
      /\ \A p \in Peers \ {shaker[c]} : session'[c][p] = session[c][p]
  BY <1>1, <1>2, <1>4, <1>5 DEF DictType
<1> QED
  BY <1>1, <1>2, <1>3, <1>6 DEF SetMyState_ToIdle, DictType, MachineType

\* Entries that stay keep their two ends, and a new one has them.
LEMMA EndToEndStep ==
    ASSUME NEW c \in Clients, ClientsTyped, ClientInv(c), TaskNext(c)
    PROVE  SessionEndToEnd(c)'
<1> USE PeerFacts
<1>1. MachineType /\ DictType /\ SessionEndToEnd(c)
  BY DEF ClientInv, ClientsTyped
<1> DEFINE Ends(p, k, D) == \E mine \in D, theirs \in k.secret :
                               /\ k.secret = SharedSecret(mine, theirs)
                               /\ theirs \in Num /\ NameOf(theirs.by) = p
<1>2. SUFFICES ASSUME NEW p \in known'[c] \ {Nick[c]}
               PROVE  Ends(p, session'[c][p], Drawn(c)')
  BY DEF SessionEndToEnd
<1>3. ASSUME p \in known[c], session'[c][p] = session[c][p],
             \A x \in Drawn(c) : x \in Drawn(c)'
      PROVE  Ends(p, session'[c][p], Drawn(c)')
  BY <1>1, <1>2, <1>3 DEF SessionEndToEnd
<1>4. UNCHANGED draws => Drawn(c)' = Drawn(c)
  BY DEF Drawn
<1>5. CASE UNCHANGED session
           /\ (UNCHANGED known \/ known'[c] = known[c] \cup {Nick[c]})
           /\ (DrawNumber(c) \/ UNCHANGED draws)
  BY <1>1, <1>2, <1>3, <1>4, <1>5, DrawnGrows
<1>6. CASE /\ SetMyState_ToIdle(c) /\ hstate[c] # "idle"
           /\ opnum[c] \in Num /\ NameOf(opnum[c].by) = shaker[c]
  <2>1. /\ known'[c] = known[c] \cup {shaker[c]} /\ UNCHANGED draws
        /\ session'[c][shaker[c]].secret = {mynum[c], opnum[c]}
        /\ \A q \in Peers \ {shaker[c]} : session'[c][q] = session[c][q]
        /\ mynum[c] \in Drawn(c)
    BY <1>6, NewSession
  <2>2. CASE p = shaker[c]
    <3>1. mynum[c] \in Drawn(c)' /\ opnum[c] \in session'[c][p].secret
      BY <1>4, <2>1, <2>2
    <3>2. session'[c][p].secret = SharedSecret(mynum[c], opnum[c])
      BY <2>1, <2>2 DEF SharedSecret
    <3> QED
      BY <1>6, <2>2, <3>1, <3>2
  <2>3. CASE p # shaker[c]
    <3>1. p \in known[c] /\ p \in Peers
      BY <1>1, <1>2, <2>1, <2>3 DEF DictType
    <3> QED
      BY <1>3, <1>4, <2>1, <2>3, <3>1
  <2> QED
    BY <2>2, <2>3
<1>7. CASE (\E who : RemoveData(c, who)) /\ UNCHANGED <<draws, mynum>>
  <2>1. PICK who : RemoveData(c, who)
    BY <1>7
  <2>2. known'[c] = known[c] \ {who}
    BY <1>1, <2>1 DEF RemoveData, DictType
  <2>3. p \in known[c] /\ p \in Peers /\ p # who
    BY <1>1, <1>2, <2>2 DEF DictType
  <2>4. session'[c][p] = session[c][p]
    BY <1>1, <2>1, <2>3 DEF RemoveData, DictType
  <2> QED
    BY <1>3, <1>4, <1>7, <2>3, <2>4
<1> QED
  BY <1>5, <1>6, <1>7, SessionMoves DEF SessionMove

\* A number goes into one key only: the machine forgets it when the key is
\* filed, and a new number has an index that no key contains.
LEMMA SpentStep ==
    ASSUME NEW c \in Clients, ClientsTyped, ClientInv(c), TaskNext(c)
    PROVE  NumbersSpent(c)'
<1> USE PeerFacts
<1>1. MachineType /\ DictType /\ NumbersSpent(c)
  BY DEF ClientInv, ClientsTyped
<1>2. SUFFICES ASSUME NEW p \in Peers, NEW x \in session'[c][p].secret, x.by = c
               PROVE  /\ x \in Drawn(c)' /\ x # mynum'[c]
                      /\ \A q \in Peers \ {p} : x \notin session'[c][q].secret
  BY DEF NumbersSpent
<1>3. UNCHANGED draws => Drawn(c)' = Drawn(c)
  BY DEF Drawn
<1>4. CASE UNCHANGED session /\ (DrawNumber(c) \/ UNCHANGED <<draws, mynum>>)
  <2>1. x \in Drawn(c) /\ x # mynum[c]
        /\ \A q \in Peers \ {p} : x \notin session[c][q].secret
    BY <1>1, <1>2, <1>4 DEF NumbersSpent
  <2>2. CASE UNCHANGED <<draws, mynum>>
    BY <1>3, <1>4, <2>1, <2>2
  <2>3. CASE DrawNumber(c)
    <3>1. x \in Drawn(c)' /\ x # mynum'[c]
      BY <1>1, <2>1, <2>3, DrawnGrows DEF DrawNumber
    <3> QED
      BY <1>4, <2>1, <3>1
  <2> QED
    BY <1>4, <2>2, <2>3
<1>5. CASE /\ SetMyState_ToIdle(c) /\ hstate[c] # "idle"
           /\ opnum[c] \in Num /\ opnum[c].by # c
  <2>1. /\ shaker[c] \in Peers /\ UNCHANGED draws /\ mynum'[c] = Zero
        /\ session'[c][shaker[c]].secret = {mynum[c], opnum[c]}
        /\ \A q \in Peers \ {shaker[c]} : session'[c][q] = session[c][q]
        /\ mynum[c] \in Drawn(c)
    BY <1>5, NewSession
  <2>2. x # Zero
    BY <1>2, ProtocolAssumption DEF Zero
  <2>3. CASE p = shaker[c]
    <3>1. x = mynum[c]
      BY <1>2, <1>5, <2>1, <2>3
    <3>2. ASSUME NEW q \in Peers \ {p} PROVE x \notin session'[c][q].secret
      <4>1. session'[c][q] = session[c][q]
        BY <2>1, <2>3, <3>2
      <4> QED
        BY <1>1, <1>2, <3>1, <3>2, <4>1 DEF NumbersSpent
    <3> QED
      BY <1>3, <2>1, <2>2, <3>1, <3>2
  <2>4. CASE p # shaker[c]
    <3>1. x \in session[c][p].secret
      BY <1>2, <2>1, <2>4
    <3>2. x \in Drawn(c) /\ x # mynum[c]
          /\ \A q \in Peers \ {p} : x \notin session[c][q].secret
      BY <1>1, <1>2, <3>1 DEF NumbersSpent
    <3>3. x \notin {mynum[c], opnum[c]}
      BY <1>2, <1>5, <3>2
    <3>4. \A q \in Peers \ {p} : x \notin session'[c][q].secret
      BY <2>1, <3>2, <3>3
    <3> QED
      BY <1>3, <2>1, <2>2, <3>2, <3>4
  <2> QED
    BY <2>3, <2>4
<1>6. CASE (\E who : RemoveData(c, who)) /\ UNCHANGED <<draws, mynum>>
  <2>1. PICK who : RemoveData(c, who)
    BY <1>6
  <2>2. \A q \in Peers : session'[c][q] = IF q = who THEN NoKey ELSE session[c][q]
    BY <1>1, <2>1 DEF RemoveData, DictType
  <2>3. NoKey.secret = {}
    BY DEF NoKey
  <2>4. x \in session[c][p].secret
    BY <1>2, <2>2, <2>3
  <2>5. x \in Drawn(c) /\ x # mynum[c]
        /\ \A q \in Peers \ {p} : x \notin session[c][q].secret
    BY <1>1, <1>2, <2>4 DEF NumbersSpent
  <2> QED
    BY <1>3, <1>6, <2>2, <2>3, <2>5
<1> QED
  BY <1>4, <1>5, <1>6, SessionMoves DEF SessionMove

\* Keys are derived when they are filed, and dropped with their entry.
LEMMA DerivedStep ==
    ASSUME NEW c \in Clients, ClientsTyped, ClientInv(c), TaskNext(c)
    PROVE  KeysDerived(c)'
<1> USE PeerFacts
<1>1. MachineType /\ DictType /\ KeysDerived(c)
  BY DEF ClientInv, ClientsTyped
<1>2. CASE UNCHANGED session
           /\ (UNCHANGED known \/ known'[c] = known[c] \cup {Nick[c]})
  BY <1>1, <1>2 DEF KeysDerived
<1>3. CASE SetMyState_ToIdle(c) /\ hstate[c] # "idle" /\ opnum[c] \in Num
  <2>1. /\ known'[c] = known[c] \cup {shaker[c]}
        /\ session'[c][shaker[c]] = ClientKey({mynum[c], opnum[c]})
        /\ session'[c][shaker[c]].secret = {mynum[c], opnum[c]}
        /\ \A q \in Peers \ {shaker[c]} : session'[c][q] = session[c][q]
    BY <1>3, NewSession
  <2> QED
    BY <1>1, <2>1 DEF KeysDerived
<1>4. CASE \E who : RemoveData(c, who)
  <2>1. PICK who : RemoveData(c, who)
    BY <1>4
  <2>2. known'[c] = known[c] \ {who}
    BY <1>1, <2>1 DEF RemoveData, DictType
  <2>3. \A q \in Peers : session'[c][q] = IF q = who THEN NoKey ELSE session[c][q]
    BY <1>1, <2>1 DEF RemoveData, DictType
  <2> QED
    BY <1>1, <2>2, <2>3 DEF KeysDerived
<1> QED
  BY <1>2, <1>3, <1>4, SessionMoves DEF SessionMove

\* What has been drawn stays drawn.
LEMMA DrawnStays ==
    ASSUME NEW c \in Clients, ClientsTyped, ClientInv(c), TaskNext(c)
    PROVE  \A x \in Drawn(c) : x \in Drawn(c)'
<1>1. MachineType /\ (UNCHANGED draws => Drawn(c)' = Drawn(c))
  BY DEF ClientsTyped, Drawn
<1>2. CASE DrawNumber(c)
  BY <1>1, <1>2, DrawnGrows
<1>3. CASE UNCHANGED draws
  BY <1>1, <1>3
<1> QED
  BY <1>2, <1>3, SessionMoves, NewSession DEF SessionMove

\* The keys K can read stay sealed, and a new one is: its other number came from
\* the client it is filed under.
LEMMA EntriesSealedStep ==
    ASSUME NEW c \in Clients, ClientsTyped, ClientInv(c), TaskNext(c)
    PROVE  EntriesSealed(c)'
<1> USE PeerFacts
<1>1. MachineType /\ DictType /\ EntriesSealed(c)
  BY DEF ClientInv, ClientsTyped
<1>2. SUFFICES ASSUME NEW p \in Names, session'[c][p] # NoKey
               PROVE  Sealed(c, session[c][p])'
  BY DEF EntriesSealed
<1>3. ASSUME session'[c][p] = session[c][p] PROVE Sealed(c, session[c][p])'
  BY <1>1, <1>2, <1>3, DrawnStays DEF EntriesSealed, Sealed
<1>4. CASE UNCHANGED session
  BY <1>3, <1>4
<1>5. CASE /\ SetMyState_ToIdle(c) /\ hstate[c] # "idle"
           /\ opnum[c] \in Num /\ opnum[c].by # c
           /\ NameOf(opnum[c].by) = shaker[c]
  <2>1. /\ UNCHANGED draws
        /\ session'[c][shaker[c]] = ClientKey({mynum[c], opnum[c]})
        /\ session'[c][shaker[c]].secret = {mynum[c], opnum[c]}
        /\ \A q \in Peers \ {shaker[c]} : session'[c][q] = session[c][q]
        /\ mynum[c] \in Drawn(c)
    BY <1>5, NewSession
  <2>2. CASE p = shaker[c]
    <3>1. opnum[c].by \in Clients \ {c}
      <4>1. opnum[c].by # "server"
        BY <1>5, <2>2 DEF NameOf
      <4> QED
        BY <1>5, <4>1 DEF Num
    <3>2. /\ mynum[c] \in Drawn(c)' /\ opnum[c] \in session'[c][p].secret
          /\ session'[c][p] = ClientKey(SharedSecret(mynum[c], opnum[c]))
      BY <2>1, <2>2, DrawnStays DEF SharedSecret
    <3> QED
      BY <3>1, <3>2 DEF Sealed
  <2> QED
    BY <1>3, <2>1, <2>2
<1>6. CASE \E who : RemoveData(c, who)
  <2>1. session'[c][p] = session[c][p]
    BY <1>1, <1>2, <1>6 DEF RemoveData, DictType
  <2> QED
    BY <1>3, <2>1
<1> QED
  BY <1>4, <1>5, <1>6, SessionMoves DEF SessionMove

\* What K reads is the key of an entry, and it is the key of the message.
LEMMA SenderKeySealedStep ==
    ASSUME NEW c \in Clients, ClientsTyped, ClientInv(c), TaskNext(c)
    PROVE  SenderKeySealed(c)'
<1> USE PeerFacts
<1>1. /\ LocalType /\ RatchetType /\ SenderKeySealed(c) /\ EntriesSealed(c)
      /\ ExchangerSet(c) /\ ExchangeOpen(c)
  BY DEF ClientInv, ClientsTyped
<1>2. ASSUME NEW k, Sealed(c, k), k = kkey'[c] PROVE Sealed(c, kkey[c])'
  BY <1>2, DrawnStays DEF Sealed
<1>3. ASSUME NEW k, Sealed(c, k), k = kmsg'[c].body.key
      PROVE  Sealed(c, kmsg[c].body.key)'
  BY <1>3, DrawnStays DEF Sealed
<1>4. UNCHANGED kmsg \/ kmsg'[c] = NoMsg
         => (kmsg[c] # NoMsg =>
               kmsg[c].body.val = c /\ Sealed(c, kmsg[c].body.key))'
  BY <1>1, <1>3 DEF SenderKeySealed
<1>5. CASE UNCHANGED kVars
  BY <1>1, <1>2, <1>4, <1>5 DEF SenderKeySealed
<1>6. CASE KReadKey(c)
  <2>1. \/ UNCHANGED kVars
        \/ /\ exch[c] \in known[c] /\ session[c][exch[c]] # NoKey
           /\ kpc[c] = "read_key" /\ kkey'[c] = session[c][exch[c]] /\ UNCHANGED kmsg
    BY <1>1, <1>6 DEF KReadKey, Fault, LocalType
  <2>2. kpc[c] = "read_key" => exch[c] \in Names
    BY <1>1 DEF ExchangerSet, ExchangeOpen, RatchetType
  <2> QED
    BY <1>1, <1>2, <1>4, <1>5, <2>1, <2>2 DEF EntriesSealed, SenderKeySealed
<1>7. CASE KReadTo(c)
  <2>1. /\ kpc[c] = "read_to" /\ kpc'[c] \in {"mark", "answer"}
        /\ kmsg'[c] = BuildJson("sender_key", Nick[c], exch[c],
                                [key |-> kkey[c], val |-> c])
    BY <1>1, <1>7 DEF KReadTo, KBranch, LocalType
  <2>2. kmsg'[c].body.key = kkey[c] /\ kmsg'[c].body.val = c
    BY <2>1 DEF BuildJson
  <2> QED
    BY <1>1, <1>3, <2>1, <2>2 DEF SenderKeySealed
<1>8. CASE KTake(c) \/ KMark(c) \/ KResend(c) \/ KSeen(c) \/ KAnswer(c) \/ KFinish(c)
  <2>1. UNCHANGED kmsg \/ kmsg'[c] = NoMsg
    BY <1>1, <1>8 DEF KTake, KMark, KResend, KSeen, KAnswer, KFinish, LocalType
  <2>2. kpc'[c] # "read_to" \/ UNCHANGED <<kpc, kkey>>
    BY <1>1, <1>8 DEF KTake, KMark, KResend, KSeen, KAnswer, KFinish, LocalType
  <2> QED
    BY <1>1, <1>2, <1>4, <2>1, <2>2 DEF SenderKeySealed
<1> QED
  BY <1>5, <1>6, <1>7, <1>8, StepFrame DEF Frame

\* Every step of a client preserves its invariant.
LEMMA ClientStepKeeps ==
    ASSUME NEW c \in Clients, ClientsTyped, ClientInv(c), TaskNext(c)
    PROVE  ClientsTyped' /\ ClientInv(c)'
<1>1. ClientsTyped'
  BY NetTypeStep, MachineTypeStep, RatchetTypeStep, DictTypeStep, QueueTypeStep,
     LocalTypeStep DEF ClientsTyped
<1>2. (DhWakeup(c) /\ HandshakeOwner(c) /\ Unborn(c) /\ Engaged(c) /\ RequestMatches(c))'
  BY ControlStep, EngagedStep
<1>3. (InboxHonest(c) /\ OpponentIsOther(c) /\ ServerFirst(c) /\ LocalsReady(c))'
  BY HonestStep, OpponentStep, ServerFirstStep, LocalsReadyStep
<1>4. (ExchangerSet(c) /\ ExchangeOpen(c) /\ KeyWakeup(c))'
  BY ExchangeStep
<1>5. (SessionEndToEnd(c) /\ NumbersSpent(c) /\ KeysDerived(c))'
  BY EndToEndStep, SpentStep, DerivedStep
<1>6. (EntriesSealed(c) /\ SenderKeySealed(c))'
  BY EntriesSealedStep, SenderKeySealedStep
<1> QED
  BY <1>1, <1>2, <1>3, <1>4, <1>5, <1>6 DEF ClientInv

\* The initial values satisfy the invariant of every client.
LEMMA ClientInitInv ==
    ASSUME NetInit, ClientInit
    PROVE  ClientsTyped /\ \A c \in Clients : ClientInv(c)
<1>1. ClientsTyped
  BY PeerFacts DEF NetInit, ClientInit, ClientsTyped, NetType, MachineType,
     RatchetType, DictType, QueueType, LocalType, Status, HState, RState, Token,
     RPc, HPc, KPc, Link, NoKey, Key, Peers
<1> SUFFICES ASSUME NEW c \in Clients PROVE ClientInv(c)
  BY <1>1
<1> USE PeerFacts
<1>2. /\ status[c] = "off" /\ hstate[c] = "idle" /\ shaker[c] = "server"
      /\ mynum[c] = Zero /\ rstate[c] = "idle" /\ exch[c] = Null
      /\ known[c] = {} /\ session[c] = [p \in Peers |-> NoKey]
      /\ dhq[c] = <<>> /\ rpc[c] = "recv" /\ hpc[c] = "take" /\ kpc[c] = "take"
      /\ inbox[c] = <<>> /\ kmsg[c] = NoMsg
  BY DEF NetInit, ClientInit
<1>3. DhWakeup(c) /\ HandshakeOwner(c) /\ Unborn(c) /\ Engaged(c) /\ RequestMatches(c)
  BY <1>2 DEF DhWakeup, HandshakeOwner, Unborn, Engaged, RequestMatches
<1>4. InboxHonest(c) /\ OpponentIsOther(c) /\ ServerFirst(c) /\ LocalsReady(c)
  BY <1>2 DEF InboxHonest, OpponentIsOther, ServerFirst, LocalsReady
<1>5. ExchangerSet(c) /\ ExchangeOpen(c) /\ KeyWakeup(c)
  BY <1>2 DEF ExchangerSet, ExchangeOpen, KeyWakeup
<1>6. SessionEndToEnd(c) /\ NumbersSpent(c) /\ KeysDerived(c)
  BY <1>2 DEF SessionEndToEnd, NumbersSpent, KeysDerived, NoKey
<1>7. EntriesSealed(c) /\ SenderKeySealed(c)
  BY <1>2 DEF EntriesSealed, SenderKeySealed
<1> QED
  BY <1>3, <1>4, <1>5, <1>6, <1>7 DEF ClientInv

\* Nothing but the client's own steps and its socket matters to its invariant.
LEMMA ClientUntouched ==
    ASSUME NEW c \in Clients, ClientsTyped, ClientInv(c), UNCHANGED clientVars,
           NetType', InboxHonest(c)'
    PROVE  ClientsTyped' /\ ClientInv(c)'
<1>1. ClientsTyped'
  BY DEF ClientsTyped, MachineType, RatchetType, DictType, QueueType, LocalType
<1>2. (DhWakeup(c) /\ HandshakeOwner(c) /\ Unborn(c) /\ Engaged(c) /\ RequestMatches(c))'
  BY DEF ClientInv, DhWakeup, HandshakeOwner, Unborn, Engaged, RequestMatches
<1>3. (OpponentIsOther(c) /\ ServerFirst(c) /\ LocalsReady(c))'
  BY DEF ClientInv, OpponentIsOther, ServerFirst, LocalsReady
<1>4. (ExchangerSet(c) /\ ExchangeOpen(c) /\ KeyWakeup(c))'
  BY DEF ClientInv, ExchangerSet, ExchangeOpen, KeyWakeup
<1>5. (SessionEndToEnd(c) /\ NumbersSpent(c) /\ KeysDerived(c))'
  BY DEF ClientInv, SessionEndToEnd, NumbersSpent, KeysDerived, Drawn
<1>6. (EntriesSealed(c) /\ SenderKeySealed(c))'
  BY DEF ClientInv, EntriesSealed, SenderKeySealed, Sealed, Drawn
<1> QED
  BY <1>1, <1>2, <1>3, <1>4, <1>5, <1>6 DEF ClientInv

HIDE DEF clientVars, netVars, hsVars, ratVars, dicVars, queVars, rVars, hVars, kVars,
         GetSharedSecret, ResetMachine, IsAnswer, MustSendKey, ExchangeKey, RatchetToIdle
=============================================================================
