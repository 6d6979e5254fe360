-------------------------- MODULE ServerInvariant --------------------------
(***************************************************************************)
(* What every handler of the server preserves, and everything its clients  *)
(* do to their connections meanwhile: the types of its tables and of the   *)
(* connections, the agreement of the tables with each other and with the   *)
(* events of a batch, and what that needs besides.                         *)
(***************************************************************************)
EXTENDS ChatServer

\* The answer to a handshake, and the messages EncryptAndBroadcast makes.
FromServer(m) == m.type = "dh" /\ m.from = "server"
IsNotice(m)   == m.type \in {"enter", "leave"}

\* Nobody else uses the nickname of c.
Sole(c) == \A d \in Clients \ {c} : Nick[d] # Nick[c]

TablesType ==
    /\ members \in SUBSET Clients
    /\ nickname \in [Clients -> Names \cup {Null}]
    /\ key \in [Clients -> Key]
    /\ name2sock \in [Names -> Clients \cup {Null}]
    /\ sock2name \in [Clients -> Names \cup {Null}]
    /\ sdraws \in Nat

WireType ==
    /\ inbox \in [Clients -> Seq(Message)]
    /\ outbox \in [Clients -> Seq(Message \cup {Partial})]
    /\ backlog \in Seq(Clients)
    /\ link \in [Clients -> Link]
    /\ serverUp \in BOOLEAN
    /\ ready \in SUBSET (Clients \cup {"listener"})
    /\ accepted \in Seq(Clients)

-----------------------------------------------------------------------------
\* No stale route: whatever connections come, go or share a nickname, a name
\* leads only to a connection that is still in client_map and that announced
\* this very name, so SendMsg never writes to a forgotten descriptor.
RoutesLive ==
    \A n \in Names : name2sock[n] # Null =>
        /\ name2sock[n] \in members
        /\ sock2name[name2sock[n]] = n

\* The three records of a connection agree: the Client object, sock2name_map
\* and the key are set together and dropped together, so a notice that finds a
\* key also finds the name to send it to.
TablesAgree ==
    \A c \in Clients :
        /\ nickname[c] = sock2name[c]
        /\ nickname[c] # Null <=> key[c] # NoKey
        /\ nickname[c] # Null => c \in members

\* A client that finished its handshake can be reached under its nickname,
\* unless another connection used the same nickname.
Reachable ==
    \A c \in Clients :
        nickname[c] # Null =>
            \/ name2sock[nickname[c]] = c
            \/ \E d \in Clients \ {c} : Nick[d] = Nick[c]

\* The events of a batch stay true until they are handled, although handlers of
\* the same batch run before: accept() finds a connection, and the first read()
\* of a handler finds data or an end of stream and does not block the only thread
\* of the server.  (A later read() of a packet that arrives in pieces, and a
\* write() to a full connection, may.)
EventsFresh ==
    serverUp =>
        \A e \in ready :
            \/ e = "listener" /\ backlog # <<>>
            \/ e \in members /\ Readable(e)

\* What a connection carries is signed with the nickname of its client.
Signed ==
    \A c \in Clients : \A i \in 1..Len(outbox[c]) :
        outbox[c][i].from \in {Nick[c], Null}

\* A connection is known by the nickname of its client or not at all.
NamedByNick == \A c \in Clients : sock2name[c] \in {Nick[c], Null}

\* Whatever waits to be accepted or is in client_map has been connected, so its
\* link does not become open again.
Connected ==
    /\ \A c \in members : link[c] # "none"
    /\ \A i \in 1..Len(backlog) : link[backlog[i]] # "none"

\* The conjunction that every step preserves.
ServerInv ==
    /\ TablesType /\ WireType
    /\ Signed /\ NamedByNick /\ Connected
    /\ RoutesLive /\ TablesAgree /\ Reachable /\ EventsFresh
=============================================================================
