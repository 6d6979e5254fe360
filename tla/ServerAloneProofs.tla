------------------------- MODULE ServerAloneProofs -------------------------
(***************************************************************************)
(* Proofs about the server of ServerAlone, for every set of clients, every *)
(* assignment of nicknames and every bound.  What its handlers do to the   *)
(* tables and the connections is in ChatLemmas; here are what the clients  *)
(* do meanwhile, the stream of answers and notices a client is sent, and   *)
(* the ways in which the process ends.                                     *)
(***************************************************************************)
EXTENDS ServerAlone, ChatLemmas

LEMMA InitInv == Init => IndInv
<1> SUFFICES ASSUME Init PROVE IndInv
  OBVIOUS
<1>1. ServerInv
  BY ServerInitInv DEF Init
<1>2. StreamInv
  <2>1. \A c \in Clients : inbox[c] = <<>> /\ key[c] = NoKey
    BY DEF Init, ServerInit, NetInit
  <2> QED
    BY <2>1 DEF StreamInv, Drained, Answered, StreamAgrees, NoticesUnderKey, KeyOfLast
<1>3. said \in 0..MaxSaid
  BY AloneAssumption DEF Init
<1> QED
  BY <1>1, <1>2, <1>3 DEF IndInv

-----------------------------------------------------------------------------
(* What clients do between two handlers *)

LEMMA ClientWireMove ==
    ASSUME ServerInv, ClientsNext
    PROVE  WireMove /\ UNCHANGED serverVars
<1> USE DEF WireMove, LinkMove, OutboxMove, BacklogMove
<1>1. PICK c \in Clients : Arrive(c) \/ Say(c) \/ Leave(c) \/ Break(c) \/ Tear(c) \/ Reset(c)
  BY DEF ClientsNext
<1>2. link \in [Clients -> Link]
  BY DEF ServerInv, WireType
<1>3. CASE Arrive(c)
  BY <1>2, <1>3 DEF Arrive, NetConnect, Link
<1>4. CASE Say(c)
  <2>1. PICK m \in Offered : MadeBy(c, m) /\ NetSend(c, m)
    BY <1>4 DEF Say
  <2>2. m \in Message /\ m.from = Nick[c]
    BY <2>1, AloneAssumption DEF MadeBy
  <2> QED
    BY <1>2, <1>4, <2>1, <2>2 DEF Say, NetSend
<1>5. CASE Leave(c) \/ Reset(c)
  BY <1>2, <1>5 DEF Leave, NetClose, Reset, NetReset, Link
<1>6. CASE Break(c) \/ Tear(c)
  <2>1. Partial.from = Null
    BY DEF Partial, BuildJson
  <2> QED
    BY <1>2, <1>6, <2>1 DEF Break, Tear, NetSend, Link
<1> QED
  BY <1>1, <1>3, <1>4, <1>5, <1>6

LEMMA ClientsOutside ==
    ASSUME ServerInv, ClientsNext
    PROVE  Outside
<1>1. PICK c \in Clients : Arrive(c) \/ Say(c) \/ Leave(c) \/ Break(c) \/ Tear(c) \/ Reset(c)
  BY DEF ClientsNext
<1>2. WireMove /\ UNCHANGED <<serverUp, serverVars>>
  BY <1>1, ClientWireMove
     DEF Arrive, NetConnect, Say, NetSend, Leave, NetClose, Break, Tear, Reset, NetReset
<1>3. inbox' \in [Clients -> Seq(Message)]
  <2>1. inbox \in [Clients -> Seq(Message)] /\ <<>> \in Seq(Message)
    BY DEF ServerInv, WireType
  <2>2. inbox' = inbox \/ inbox' = [inbox EXCEPT ![c] = <<>>]
    BY <1>1 DEF Arrive, NetConnect, Say, NetSend, Leave, NetClose, Break, Tear, Reset, NetReset
  <2> QED
    BY <2>1, <2>2
<1>4. backlog # <<>> => backlog' # <<>>
  <2>1. backlog \in Seq(Clients)
    BY DEF ServerInv, WireType
  <2>2. Append(backlog, c) # <<>>
    BY <2>1, AppendNotEmpty
  <2> QED
    BY <1>1, <2>2 DEF Arrive, NetConnect, Say, NetSend, Leave, NetClose, Break, Tear, Reset, NetReset
<1>5. \A d \in Clients : outbox[d] # <<>> => outbox'[d] # <<>>
  <2>1. outbox \in [Clients -> Seq(Message \cup {Partial})]
    BY DEF ServerInv, WireType
  <2>2. CASE UNCHANGED outbox
    BY <2>2
  <2>3. CASE Say(c) \/ Break(c) \/ Tear(c)
    <3>1. PICK m : outbox' = [outbox EXCEPT ![c] = Append(@, m)]
      BY <2>3 DEF Say, NetSend, Break, Tear
    <3>2. outbox[c] \in Seq(Message \cup {Partial})
      BY <2>1
    <3>3. Append(outbox[c], m) # <<>>
      BY <3>2, AppendNotEmpty
    <3> QED
      BY <2>1, <3>1, <3>3
  <2> QED
    BY <1>1, <2>2, <2>3 DEF Arrive, NetConnect, Leave, NetClose, Reset, NetReset
<1> QED
  BY <1>2, <1>3, <1>4, <1>5 DEF Outside

LEMMA ServerMoves ==
    ASSUME ServerInv, [Next]_vars
    PROVE  ServerMove
<1>1. CASE UNCHANGED vars
  BY <1>1 DEF vars, netVars, ServerInv, WireType, ServerMove, Outside, WireMove, LinkMove,
     OutboxMove, BacklogMove
<1> QED
  BY <1>1, ClientsOutside DEF ServerMove, Next, Serve

-----------------------------------------------------------------------------
(* What a client with a nickname of its own receives *)

\* W has no answers, and notices only under the key k of the last answer of s.
NoAnswers(W, s, k) ==
    /\ \A i \in 1..Len(W) : ~FromServer(W[i])
    /\ \A i \in 1..Len(W) : IsNotice(W[i]) =>
          /\ W[i].body.key = k
          /\ \E j \in 1..Len(s) : LastAnswer(s, j, Len(s))

\* A stream goes on with messages that are no answers, and with notices only
\* under the key of its last answer.
LEMMA GoesOnWithout ==
    ASSUME NEW s \in Seq(Message), NEW W \in Seq(Message), NEW k,
           NoticesUnderKey(s), KeyOfLast(s, k), NoAnswers(W, s, k)
    PROVE  /\ NoticesUnderKey(s \o W) /\ KeyOfLast(s \o W, k)
           /\ (\E j \in 1..Len(s) : LastAnswer(s, j, Len(s))) =>
                 \E j \in 1..Len(s \o W) : LastAnswer(s \o W, j, Len(s \o W))
<1> DEFINE t == s \o W
           n == Len(s)
<1>1. /\ Len(t) = n + Len(W) /\ n \in Nat /\ Len(W) \in Nat
      /\ \A i \in 1..n : t[i] = s[i]
      /\ \A i \in n + 1..Len(t) : i - n \in 1..Len(W) /\ t[i] = W[i - n]
  OBVIOUS
<1> HIDE DEF t
<1>2. \A i \in n + 1..Len(t) : ~FromServer(t[i])  BY <1>1 DEF NoAnswers
<1>3. \A j, i \in 1..n : LastAnswer(t, j, i) <=> LastAnswer(s, j, i)
  <2>1. TAKE j, i \in 1..n
  <2>2. \A l \in j + 1..i : l \in 1..n /\ t[l] = s[l]  BY <1>1
  <2>3. t[j] = s[j]  BY <1>1
  <2> QED  BY <2>2, <2>3 DEF LastAnswer
<1>4. \A j \in 1..n : \A i \in n..Len(t) : LastAnswer(s, j, n) => LastAnswer(t, j, i)
  <2> TAKE j \in 1..n
  <2> TAKE i \in n..Len(t)
  <2> HAVE LastAnswer(s, j, n)
  <2>1. n \in 1..n  BY <1>1
  <2>2. LastAnswer(t, j, n)  BY <1>3, <2>1
  <2>3. \A l \in j + 1..i : l \in j + 1..n \/ l \in n + 1..Len(t)  BY <1>1
  <2> QED  BY <1>2, <2>2, <2>3 DEF LastAnswer
<1>5. NoticesUnderKey(t)
  <2>1. SUFFICES ASSUME NEW i \in 1..Len(t), IsNotice(t[i])
                 PROVE  \E j \in 1..i : LastAnswer(t, j, i) /\ t[j].body \in t[i].body.key.secret
    BY DEF NoticesUnderKey
  <2>2. CASE i <= n
    <3>1. i \in 1..n /\ t[i] = s[i]  BY <1>1, <2>2
    <3>2. PICK j \in 1..i : LastAnswer(s, j, i) /\ s[j].body \in s[i].body.key.secret
      BY <2>1, <3>1 DEF NoticesUnderKey
    <3>3. j \in 1..n /\ t[j] = s[j]  BY <1>1, <3>1
    <3>4. LastAnswer(t, j, i)  BY <1>3, <3>1, <3>2, <3>3
    <3> QED  BY <3>1, <3>2, <3>3, <3>4
  <2>3. CASE ~(i <= n)
    <3>1. i \in n + 1..Len(t) /\ i \in n..Len(t)  BY <1>1, <2>3
    <3>2. i - n \in 1..Len(W) /\ t[i] = W[i - n]  BY <1>1, <3>1
    <3>3. t[i].body.key = k /\ \E j \in 1..n : LastAnswer(s, j, n)
      BY <2>1, <3>2 DEF NoAnswers
    <3>4. PICK j \in 1..n : LastAnswer(s, j, n)  BY <3>3
    <3>5. s[j].body \in k.secret  BY <3>4 DEF KeyOfLast
    <3>6. LastAnswer(t, j, i)  BY <1>4, <3>1, <3>4
    <3>7. j \in 1..i /\ t[j] = s[j]  BY <1>1, <3>1
    <3> QED  BY <3>3, <3>5, <3>6, <3>7
  <2> QED  BY <2>2, <2>3
<1>6. KeyOfLast(t, k)
  <2>1. SUFFICES ASSUME NEW j \in 1..Len(t), LastAnswer(t, j, Len(t))
                 PROVE  t[j].body \in k.secret
    BY DEF KeyOfLast
  <2>2. FromServer(t[j])  BY <2>1 DEF LastAnswer
  <2>3. j \in 1..n /\ t[j] = s[j]  BY <1>1, <1>2, <2>2
  <2>4. \A l \in j + 1..n : ~FromServer(s[l])
    <3> TAKE l \in j + 1..n
    <3>1. l \in j + 1..Len(t) /\ l \in 1..n /\ t[l] = s[l]  BY <1>1, <2>3
    <3> QED  BY <2>1, <3>1 DEF LastAnswer
  <2>5. LastAnswer(s, j, n)  BY <2>2, <2>3, <2>4 DEF LastAnswer
  <2> QED  BY <2>3, <2>5 DEF KeyOfLast
<1>7. ASSUME NEW j \in 1..n, LastAnswer(s, j, n)
      PROVE  j \in 1..Len(t) /\ LastAnswer(t, j, Len(t))
  BY <1>1, <1>4, <1>7
<1> QED  BY <1>5, <1>6, <1>7 DEF t

\* A stream goes on with answers only, which the new key was made from.
LEMMA GoesOnWith ==
    ASSUME NEW s \in Seq(Message), NEW W \in Seq(Message), NEW k,
           NoticesUnderKey(s), W # <<>>,
           \A i \in 1..Len(W) : FromServer(W[i]) /\ ~IsNotice(W[i]) /\ W[i].body \in k.secret
    PROVE  /\ NoticesUnderKey(s \o W) /\ KeyOfLast(s \o W, k)
           /\ \E j \in 1..Len(s \o W) : LastAnswer(s \o W, j, Len(s \o W))
<1> DEFINE t == s \o W
           n == Len(s)
<1>1. /\ Len(t) = n + Len(W) /\ n \in Nat /\ Len(W) \in Nat /\ Len(W) # 0
      /\ \A i \in 1..n : t[i] = s[i]
      /\ \A i \in n + 1..Len(t) : i - n \in 1..Len(W) /\ t[i] = W[i - n]
  OBVIOUS
<1> HIDE DEF t
<1>2. \A i \in n + 1..Len(t) : FromServer(t[i]) /\ ~IsNotice(t[i]) /\ t[i].body \in k.secret
  BY <1>1
<1>3. NoticesUnderKey(t)
  <2>1. SUFFICES ASSUME NEW i \in 1..Len(t), IsNotice(t[i])
                 PROVE  \E j \in 1..i : LastAnswer(t, j, i) /\ t[j].body \in t[i].body.key.secret
    BY DEF NoticesUnderKey
  <2>2. i \in 1..n /\ t[i] = s[i]  BY <1>1, <1>2, <2>1
  <2>3. PICK j \in 1..i : LastAnswer(s, j, i) /\ s[j].body \in s[i].body.key.secret
    BY <2>1, <2>2 DEF NoticesUnderKey
  <2>4. \A l \in j..i : l \in 1..n /\ t[l] = s[l]  BY <1>1, <2>2
  <2>5. j \in j..i /\ \A l \in j + 1..i : l \in j..i  BY <2>2
  <2>6. LastAnswer(t, j, i) /\ t[j] = s[j]  BY <2>3, <2>4, <2>5 DEF LastAnswer
  <2> QED  BY <2>2, <2>3, <2>6
<1>4. Len(t) \in 1..Len(t) /\ Len(t) \in n + 1..Len(t)  BY <1>1
<1>5. LastAnswer(t, Len(t), Len(t))
  <2>1. \A l \in Len(t) + 1..Len(t) : FALSE  BY <1>1
  <2> QED  BY <1>2, <1>4, <2>1 DEF LastAnswer
<1>6. KeyOfLast(t, k)
  <2>1. SUFFICES ASSUME NEW j \in 1..Len(t), LastAnswer(t, j, Len(t))
                 PROVE  t[j].body \in k.secret
    BY DEF KeyOfLast
  <2>2. j = Len(t)
    <3>1. SUFFICES ASSUME j # Len(t) PROVE FALSE  OBVIOUS
    <3>2. Len(t) \in j + 1..Len(t)  BY <1>1, <3>1
    <3> QED  BY <1>2, <1>4, <2>1, <3>2 DEF LastAnswer
  <2> QED  BY <1>2, <1>4, <2>2
<1> QED  BY <1>3, <1>4, <1>5, <1>6 DEF t

\* What the stream of c must be for the key the server holds for it.
StreamOf(c) ==
    /\ link[c] # "open" => inbox[c] = <<>>
    /\ NoticesUnderKey(inbox[c]) /\ KeyOfLast(inbox[c], key[c])
    /\ link[c] = "open" /\ key[c] # NoKey =>
          \E j \in 1..Len(inbox[c]) : LastAnswer(inbox[c], j, Len(inbox[c]))

\* The ways in which a step may go on with it.
Closes(c) == inbox'[c] = <<>> /\ link'[c] # "open"

Keeps(c) ==
    /\ inbox'[c] = inbox[c] /\ key'[c] = key[c]
    /\ link[c] = "open" => link'[c] = "open"
    /\ link'[c] = "open" => link[c] = "open" \/ key[c] = NoKey

Relays(c, W) ==
    /\ inbox'[c] = inbox[c] \o W /\ key'[c] = key[c]
    /\ link[c] = "open"  /\ link'[c] = "open"
    /\ \A i \in 1..Len(W) : ~FromServer(W[i])
    /\ \A i \in 1..Len(W) : IsNotice(W[i]) => key[c] # NoKey /\ W[i].body.key = key[c]

Answers(c, W) ==
    /\ inbox'[c] = inbox[c] \o W /\ W # <<>>
    /\ link[c] = "open" /\ link'[c] = "open"
    /\ \A i \in 1..Len(W) :
          FromServer(W[i]) /\ ~IsNotice(W[i]) /\ W[i].body \in key'[c].secret

StreamMove(c) ==
    \/ Closes(c) \/ Keeps(c)
    \/ \E W \in Seq(Message) : Relays(c, W) \/ Answers(c, W)

LEMMA StreamKept ==
    ASSUME NEW c \in Clients, inbox[c] \in Seq(Message), StreamOf(c), StreamMove(c)
    PROVE  StreamOf(c)'
<1>1. CASE Closes(c)
  BY <1>1 DEF Closes, StreamOf, NoticesUnderKey, KeyOfLast
<1>2. CASE Keeps(c)
  <2>1. NoticesUnderKey(inbox'[c]) /\ KeyOfLast(inbox'[c], key'[c])
    BY <1>2 DEF Keeps, StreamOf
  <2>2. link'[c] # "open" => inbox'[c] = <<>>
    BY <1>2 DEF Keeps, StreamOf
  <2> QED  BY <1>2, <2>1, <2>2 DEF Keeps, StreamOf
<1>3. ASSUME NEW W \in Seq(Message), Relays(c, W) PROVE StreamOf(c)'
  <2> DEFINE s == inbox[c]
             k == key[c]
  <2>1. NoticesUnderKey(s) /\ KeyOfLast(s, k)  BY DEF StreamOf
  <2>2. NoAnswers(W, s, k)
    BY <1>3 DEF Relays, StreamOf, NoAnswers
  <2>3. inbox'[c] = s \o W /\ key'[c] = k /\ link'[c] = "open" /\ link[c] = "open"
    BY <1>3 DEF Relays
  <2>4. k # NoKey => \E j \in 1..Len(s) : LastAnswer(s, j, Len(s))
    BY <2>3 DEF StreamOf
  <2> HIDE DEF s, k
  <2>5. s \in Seq(Message)  BY DEF s
  <2>6. /\ NoticesUnderKey(s \o W) /\ KeyOfLast(s \o W, k)
        /\ (\E j \in 1..Len(s) : LastAnswer(s, j, Len(s))) =>
              \E j \in 1..Len(s \o W) : LastAnswer(s \o W, j, Len(s \o W))
    BY <2>1, <2>2, <2>5, GoesOnWithout
  <2> QED  BY <2>3, <2>4, <2>6 DEF StreamOf
<1>4. ASSUME NEW W \in Seq(Message), Answers(c, W) PROVE StreamOf(c)'
  <2> DEFINE s == inbox[c]
             k == key'[c]
  <2>1. NoticesUnderKey(s)  BY DEF StreamOf
  <2>2. /\ inbox'[c] = s \o W /\ W # <<>> /\ link'[c] = "open"
        /\ \A i \in 1..Len(W) :
              FromServer(W[i]) /\ ~IsNotice(W[i]) /\ W[i].body \in k.secret
    BY <1>4 DEF Answers
  <2>3. s \in Seq(Message)  OBVIOUS
  <2> HIDE DEF s, k
  <2>4. /\ NoticesUnderKey(s \o W) /\ KeyOfLast(s \o W, k)
        /\ \E j \in 1..Len(s \o W) : LastAnswer(s \o W, j, Len(s \o W))
    BY <2>1, <2>2, <2>3, GoesOnWith
  <2> QED  BY <2>2, <2>4 DEF StreamOf, k
<1> QED  BY <1>1, <1>2, <1>3, <1>4 DEF StreamMove

-----------------------------------------------------------------------------
(* Every step is one of these *)

\* While a connection is not open, handlers add nothing to its stream.
LEMMA ClosedStays ==
    ASSUME ServerInv, StreamInv, NEW writes \in Seq(Write), NEW survives, WriteAll(writes, survives),
           NEW c \in Clients, link[c] # "open"
    PROVE  Closes(c)
  BY WritesReceived DEF Closes, StreamInv, Drained

\* Relaying brings c neither answers nor notices.
LEMMA RelayStream ==
    ASSUME ServerInv, StreamInv, NEW writes \in Seq(Write), WriteAll(writes, TRUE), UNCHANGED key,
           NEW m, ~FromServer(m), ~IsNotice(m),
           \A i \in 1..Len(writes) : writes[i].msg = m,
           NEW c \in Clients
    PROVE  StreamMove(c)
<1>1. CASE link[c] # "open"
  BY <1>1, ClosedStays DEF StreamMove
<1>2. CASE link[c] = "open"
  <2> DEFINE W == MessagesFor(c, writes)
  <2>1. W \in Seq(Message) /\ \A i \in 1..Len(W) : W[i] = m
    BY MessagesForFacts
  <2>2. inbox'[c] = inbox[c] \o W /\ link'[c] = "open"
    BY <1>2, WritesReceived
  <2> HIDE DEF W
  <2>3. Relays(c, W)  BY <1>2, <2>1, <2>2 DEF Relays
  <2> QED  BY <2>1, <2>3 DEF StreamMove
<1> QED  BY <1>1, <1>2

LEMMA RemoveStream ==
    ASSUME ServerInv, StreamInv, NEW e \in Clients, RemoveClient(e), NEW c \in Clients, Sole(c)
    PROVE  StreamMove(c)
<1> DEFINE writes == LeaveWrites(e)
<1>1. writes \in Seq(Write) /\ WriteAll(writes, EveryoneKeyed(e))
  BY LeaveWritesFacts DEF RemoveClient, LeaveWrites
<1> HIDE DEF writes
<1>2. CASE link[c] # "open"
  BY <1>1, <1>2, ClosedStays DEF StreamMove
<1>3. CASE link[c] = "open"
  <2>1. e # c
    BY <1>3, EventOfMember DEF RemoveClient, Readable
  <2>2. key'[c] = key[c]
    BY <2>1 DEF RemoveClient, EraseClient, ServerInv, TablesType
  <2> DEFINE W == MessagesFor(c, writes)
  <2>3. W \in Seq(Message) /\ \A i \in 1..Len(W) : \E j \in 1..Len(writes) :
            writes[j].to = c /\ W[i] = writes[j].msg
    BY <1>1, MessagesForFacts
  <2>4. inbox'[c] = inbox[c] \o W /\ link'[c] = "open"
    BY <1>1, <1>3, WritesReceived
  <2> HIDE DEF W
  <2>5. ASSUME NEW i \in 1..Len(W)
        PROVE  ~FromServer(W[i]) /\ key[c] # NoKey /\ W[i].body.key = key[c]
    <3>1. PICK j \in 1..Len(writes) : writes[j].to = c /\ W[i] = writes[j].msg
      BY <2>3
    <3> DEFINE w == writes[j]
    <3>2. PICK d \in members \ {e} :
              /\ key[d] # NoKey /\ IsRouted(d, name2sock)
              /\ w = NoticeTo(d, "leave", sock2name[e], name2sock)
      BY <3>1, LeaveWritesFacts DEF writes
    <3> HIDE DEF w
    <3>3. w.to = c /\ W[i] = w.msg  BY <3>1 DEF w
    <3>4. w.to = name2sock[nickname[d]]  BY <3>2, NoticeContent
    <3>5. d = c  BY <3>2, <3>3, <3>4, NoticeTarget
    <3>6. ~FromServer(w.msg) /\ w.msg.body.key = key[d]  BY <3>2, NoticeContent
    <3> QED  BY <3>2, <3>3, <3>5, <3>6
  <2>6. Relays(c, W)  BY <1>3, <2>2, <2>4, <2>5 DEF Relays
  <2> QED  BY <2>3, <2>6 DEF StreamMove
<1> QED  BY <1>2, <1>3

LEMMA HandshakeStream ==
    ASSUME ServerInv, StreamInv, NEW e \in Clients, Handshake(e), NEW c \in Clients, Sole(c)
    PROVE  StreamMove(c)
<1> DEFINE writes == <<Answer(e)>> \o EnterWrites(e)
<1>1. /\ writes \in Seq(Write) /\ WriteAll(writes, EveryoneKeyed(e))
      /\ Len(writes) # 0 /\ writes[1] = Answer(e)
      /\ \A j \in 1..Len(writes) : j # 1 => \E d \in members \ {e} :
            /\ key[d] # NoKey /\ IsRouted(d, Route(e))
            /\ writes[j] = NoticeTo(d, "enter", Nick[e], Route(e))
  <2>1. writes \in Seq(Write) /\ Len(writes) # 0 /\ writes[1] = Answer(e)
    BY HandshakeWritesType
  <2>2. WriteAll(writes, EveryoneKeyed(e))  BY HandshakeWrites
  <2>3. ASSUME NEW j \in 1..Len(writes), j # 1
        PROVE  \E d \in members \ {e} :
                  /\ key[d] # NoKey /\ IsRouted(d, Route(e))
                  /\ writes[j] = NoticeTo(d, "enter", Nick[e], Route(e))
    <3>1. PICK i \in 1..Len(EnterWrites(e)) : writes[j] = EnterWrites(e)[i]
      BY <2>3, HandshakeWritesType
    <3> HIDE DEF writes
    <3> QED  BY <3>1, EnterWritesFacts
  <2> HIDE DEF writes
  <2> QED  BY <2>1, <2>2, <2>3
<1> HIDE DEF writes
<1>2. CASE link[c] # "open"
  BY <1>1, <1>2, ClosedStays DEF StreamMove
<1>3. CASE link[c] = "open"
  <2> DEFINE W == MessagesFor(c, writes)
  <2>1. /\ W \in Seq(Message)
        /\ \A i \in 1..Len(W) : \E j \in 1..Len(writes) :
              writes[j].to = c /\ W[i] = writes[j].msg
        /\ writes[1].to = c => W # <<>>
    BY <1>1, <1>3, MessagesForFacts
  <2>2. inbox'[c] = inbox[c] \o W /\ link'[c] = "open"
    BY <1>1, <1>3, WritesReceived
  <2>3. ASSUME NEW j \in 1..Len(writes), writes[j].to = c, j # 1
        PROVE  /\ e # c /\ ~FromServer(writes[j].msg) /\ key[c] # NoKey
               /\ writes[j].msg.body.key = key[c]
    <3> DEFINE w == writes[j]
    <3>1. PICK d \in members \ {e} : /\ key[d] # NoKey /\ IsRouted(d, Route(e))
                                     /\ w = NoticeTo(d, "enter", Nick[e], Route(e))
      BY <1>1, <2>3
    <3>2. w.to = c  BY <2>3
    <3> HIDE DEF w
    <3>3. w.to = Route(e)[nickname[d]]  BY <3>1, NoticeContent
    <3>4. d = c  BY <3>1, <3>2, <3>3, NoticeTarget
    <3>5. ~FromServer(w.msg) /\ w.msg.body.key = key[d]  BY <3>1, NoticeContent
    <3> QED  BY <3>1, <3>4, <3>5 DEF w
  <2>4. /\ writes[1].to = e /\ FromServer(writes[1].msg) /\ ~IsNotice(writes[1].msg)
        /\ writes[1].msg.body = MyNum
    BY <1>1, AnswerFacts
  <2> HIDE DEF W
  <2>5. CASE e = c
    <3>1. \A i \in 1..Len(W) : W[i] = writes[1].msg  BY <2>1, <2>3, <2>5
    <3>2. MyNum \in key'[c].secret  BY <2>5, HandshakeWrites
    <3>3. Answers(c, W)  BY <1>3, <2>1, <2>2, <2>4, <2>5, <3>1, <3>2 DEF Answers
    <3> QED  BY <2>1, <3>3 DEF StreamMove
  <2>6. CASE e # c
    <3>1. \A i \in 1..Len(W) :
              ~FromServer(W[i]) /\ key[c] # NoKey /\ W[i].body.key = key[c]
      BY <2>1, <2>3, <2>4, <2>6
    <3>2. key'[c] = key[c]  BY <2>6, HandshakeWrites
    <3>3. Relays(c, W)  BY <1>3, <2>2, <3>1, <3>2 DEF Relays
    <3> QED  BY <2>1, <3>3 DEF StreamMove
  <2> QED  BY <2>5, <2>6
<1> QED  BY <1>2, <1>3

LEMMA ClientStream ==
    ASSUME ServerInv, StreamInv, ClientsNext, NEW c \in Clients
    PROVE  StreamMove(c)
<1>1. PICK e \in Clients : Arrive(e) \/ Say(e) \/ Leave(e) \/ Break(e) \/ Tear(e) \/ Reset(e)
  BY DEF ClientsNext
<1>2. /\ key' = key /\ inbox \in [Clients -> Seq(Message)] /\ link \in [Clients -> Link]
  BY ClientWireMove DEF serverVars, memVars, ServerInv, WireType
<1>3. CASE Arrive(e)
  <2>1. link[c] = "none" => key[c] = NoKey
    BY DEF ServerInv, Connected, TablesAgree
  <2>2. Keeps(c)
    BY <1>2, <1>3, <2>1 DEF Arrive, NetConnect, Keeps
  <2> QED  BY <2>2 DEF StreamMove
<1>4. CASE Say(e) \/ Tear(e)
  <2>1. Keeps(c)  BY <1>2, <1>4 DEF Say, Tear, NetSend, Keeps
  <2> QED  BY <2>1 DEF StreamMove
<1>5. CASE Leave(e) \/ Break(e)
  <2>1. Closes(c) \/ Keeps(c)
    BY <1>2, <1>5 DEF Leave, NetClose, Break, Keeps, Closes
  <2> QED  BY <2>1 DEF StreamMove
<1>6. CASE Reset(e)
  <2>1. Keeps(c)  BY <1>2, <1>6 DEF Reset, NetReset, Keeps
  <2> QED  BY <2>1 DEF StreamMove
<1> QED  BY <1>1, <1>3, <1>4, <1>5, <1>6

LEMMA StreamMoves ==
    ASSUME ServerInv, StreamInv, [Next]_vars, NEW c \in Clients, Sole(c)
    PROVE  StreamMove(c)
<1>1. CASE Watch \/ SetupClient \/ UNCHANGED vars
  <2>1. Keeps(c)
    BY <1>1 DEF Watch, SetupClient, vars, serverVars, netVars, memVars, Keeps
  <2> QED  BY <2>1 DEF StreamMove
<1>2. CASE ClientsNext
  BY <1>2, ClientStream
<1>3. ASSUME NEW e \in Clients, Handle(e) PROVE StreamMove(c)
  <2>1. CASE RemoveClient(e)  BY <2>1, RemoveStream
  <2>2. CASE ReadPartial(e)
    <3>1. Keeps(c)  BY <2>2 DEF ReadPartial, memVars, Keeps
    <3> QED  BY <3>1 DEF StreamMove
  <2>3. CASE RelayToGroup(e)
    <3>1. Reading(e) /\ Head(outbox[e]).to = "group" /\ UNCHANGED key
          /\ WriteAll(GroupWrites(e), TRUE)
      BY <2>3 DEF RelayToGroup, GroupWrites, memVars
    <3>2. LET m == Head(outbox[e]) IN ~FromServer(m) /\ ~IsNotice(m)
      BY <3>1, RelayedMessage, ProtocolAssumption
    <3>3. GroupWrites(e) \in Seq(Write)
          /\ \A i \in 1..Len(GroupWrites(e)) : GroupWrites(e)[i].msg = Head(outbox[e])
      BY <3>1, GroupWritesFacts
    <3> QED  BY <3>1, <3>2, <3>3, RelayStream
  <2>4. CASE RelayToOne(e)
    <3>1. /\ Reading(e) /\ Head(outbox[e]).to \notin {"group", "server", Null}
          /\ UNCHANGED key /\ WriteAll(OneWrites(e), TRUE)
      BY <2>4 DEF RelayToOne, OneWrites, memVars
    <3>2. LET m == Head(outbox[e]) IN ~FromServer(m) /\ ~IsNotice(m)
      BY <3>1, RelayedMessage
    <3>3. OneWrites(e) \in Seq(Write)
          /\ \A i \in 1..Len(OneWrites(e)) : OneWrites(e)[i].msg = Head(outbox[e])
      BY <3>1, OneWritesFacts
    <3> QED  BY <3>1, <3>2, <3>3, RelayStream
  <2>5. CASE Handshake(e)  BY <2>5, HandshakeStream
  <2> QED  BY <1>3, <2>1, <2>2, <2>3, <2>4, <2>5 DEF Handle
<1> QED  BY <1>1, <1>2, <1>3 DEF Next, Serve, ServerNext

\* For a connection whose nickname is not its own only Drained is kept.
LEMMA DrainedStep ==
    ASSUME ServerInv, StreamInv, [Next]_vars
    PROVE  Drained'
<1> SUFFICES ASSUME NEW c \in Clients, link'[c] # "open" PROVE inbox'[c] = <<>>
  BY DEF Drained
<1>1. link[c] # "open" => inbox[c] = <<>>
  BY DEF StreamInv, Drained
<1>2. CASE Watch \/ SetupClient \/ UNCHANGED vars
  BY <1>1, <1>2 DEF Watch, SetupClient, vars, netVars
<1>3. CASE ClientsNext
  <2>1. StreamMove(c)  BY <1>3, ClientStream
  <2>2. ~(link'[c] = "open")  OBVIOUS
  <2> QED  BY <1>1, <2>1, <2>2 DEF StreamMove, Closes, Keeps, Relays, Answers
<1>4. ASSUME NEW e \in Clients, Handle(e) PROVE inbox'[c] = <<>>
  <2>1. CASE ReadPartial(e)
    BY <1>1, <2>1 DEF ReadPartial
  <2>2. CASE ~ReadPartial(e)
    <3>1. PICK writes \in Seq(Write), survives \in BOOLEAN : WriteAll(writes, survives)
      BY <1>4, <2>2, HandlerWrites
    <3> QED  BY <1>1, <3>1, WritesReceived
  <2> QED  BY <2>1, <2>2
<1> QED  BY <1>2, <1>3, <1>4 DEF Next, Serve, ServerNext

LEMMA StreamsStep ==
    ASSUME ServerInv, StreamInv, [Next]_vars
    PROVE  Drained' /\ Answered' /\ StreamAgrees'
<1>1. ASSUME NEW c \in Clients, Sole(c) PROVE StreamOf(c)'
  <2>1. StreamOf(c)
    BY <1>1 DEF StreamInv, Drained, Answered, StreamAgrees, StreamOf
  <2>2. inbox[c] \in Seq(Message)  BY DEF ServerInv, WireType
  <2> QED  BY <1>1, <2>1, <2>2, StreamMoves, StreamKept
<1>2. ASSUME NEW c \in Clients PROVE Sole(c)' <=> Sole(c)
  BY DEF Sole
<1>3. Answered' /\ StreamAgrees'
  BY <1>1, <1>2 DEF Answered, StreamAgrees, StreamOf
<1> QED  BY <1>3, DrainedStep

-----------------------------------------------------------------------------
(* How the process ends *)

\* A failed write was one to a connection that was reset.
LEMMA FailedWrite ==
    ASSUME NEW writes, WriteAll(writes, TRUE), ~serverUp'
    PROVE  \E i \in 1..Len(writes) : link[writes[i].to] = "reset"
  BY DEF WriteAll

\* A handler ends the process only where EndsAt says so.
LEMMA HandlerEnds ==
    ASSUME ServerInv, NEW e \in Clients, Handle(e), ~serverUp'
    PROVE  EndsAt(e)
<1>1. CASE ReadPartial(e)
  BY <1>1 DEF ReadPartial, Reading, EndsAt
<1>2. CASE RemoveClient(e)
  <2>1. outbox[e] = <<>> /\ WriteAll(LeaveWrites(e), EveryoneKeyed(e))
    BY <1>2 DEF RemoveClient, LeaveWrites
  <2>2. CASE ~EveryoneKeyed(e)
    BY <2>1, <2>2 DEF EveryoneKeyed, EndsAt
  <2>3. CASE EveryoneKeyed(e)
    <3> DEFINE writes == LeaveWrites(e)
    <3>1. PICK i \in 1..Len(writes) : link[writes[i].to] = "reset"
      BY <2>1, <2>3 DEF WriteAll
    <3>2. PICK d \in members \ {e} :
              /\ IsRouted(d, name2sock)
              /\ writes[i] = NoticeTo(d, "leave", sock2name[e], name2sock)
      BY LeaveWritesFacts
    <3>3. writes[i].to = name2sock[nickname[d]]  BY <3>2, NoticeContent
    <3> HIDE DEF writes
    <3>4. d \in Clients  BY DEF ServerInv, TablesType
    <3> DEFINE to == name2sock[nickname[d]]
    <3>5. to \in members /\ link[to] = "reset" /\ sock2name[to] = nickname[d]
      BY <3>1, <3>2, <3>3 DEF ServerInv, RoutesLive, IsRouted
    <3>6. to = e => nickname[d] = nickname[e]
      BY <3>5 DEF ServerInv, TablesAgree
    <3> HIDE DEF to
    <3> QED  BY <3>5, <3>6 DEF EndsAt
  <2> QED  BY <2>2, <2>3
<1>3. CASE RelayToGroup(e)
  <2>1. Reading(e) /\ Head(outbox[e]).to = "group" /\ WriteAll(GroupWrites(e), TRUE)
    BY <1>3 DEF RelayToGroup, GroupWrites
  <2>2. \A i \in 1..Len(GroupWrites(e)) : GroupWrites(e)[i].to \in members \ {e}
    BY <2>1, GroupWritesFacts
  <2> QED  BY <2>1, <2>2, FailedWrite DEF EndsAt
<1>4. CASE RelayToOne(e)
  <2>1. /\ Reading(e) /\ Head(outbox[e]).to \notin {"group", "server", Null}
        /\ WriteAll(OneWrites(e), TRUE)
    BY <1>4 DEF RelayToOne, OneWrites
  <2>2. \A i \in 1..Len(OneWrites(e)) : OneWrites(e)[i].to \in members
    BY <2>1, OneWritesFacts
  <2> QED  BY <2>1, <2>2, FailedWrite DEF EndsAt, Reading
<1>5. CASE Handshake(e)
  <2> DEFINE writes == <<Answer(e)>> \o EnterWrites(e)
  <2>1. outbox[e] # <<>> /\ Head(outbox[e]).to = "server" /\ e \in members
    BY <1>5, EventOfMember DEF Handshake, Reading
  <2>2. WriteAll(writes, EveryoneKeyed(e))  BY <1>5, HandshakeWrites
  <2>3. CASE ~EveryoneKeyed(e)
    BY <2>1, <2>3 DEF EveryoneKeyed, EndsAt
  <2>4. CASE EveryoneKeyed(e)
    <3>1. PICK i \in 1..Len(writes) : link[writes[i].to] = "reset"
      BY <2>2, <2>4 DEF WriteAll
    <3>2. writes[i] = Answer(e) \/ \E j \in 1..Len(EnterWrites(e)) : writes[i] = EnterWrites(e)[j]
      BY HandshakeWritesType
    <3> DEFINE w == writes[i]
    <3>3. w.to \in members
      <4>1. CASE w = Answer(e)  BY <2>1, <4>1, AnswerFacts
      <4>2. ASSUME NEW j \in 1..Len(EnterWrites(e)), w = EnterWrites(e)[j]
            PROVE  w.to \in members
        <5>1. PICK d \in members \ {e} : /\ IsRouted(d, Route(e))
                                        /\ w = NoticeTo(d, "enter", Nick[e], Route(e))
          BY <4>2, EnterWritesFacts
        <5> HIDE DEF w
        <5>2. w.to = Route(e)[nickname[d]]  BY <5>1, NoticeContent
        <5>3. Route(e)[nickname[d]] \in {e, name2sock[nickname[d]]}
          BY <5>1 DEF Route, IsRouted, ServerInv, TablesType
        <5>4. Route(e)[nickname[d]] \in members
          BY <2>1, <5>1, <5>3 DEF IsRouted, ServerInv, RoutesLive
        <5> QED  BY <5>2, <5>4
      <4> QED  BY <3>2, <4>1, <4>2
    <3> QED  BY <2>1, <3>1, <3>3 DEF EndsAt
  <2> QED  BY <2>3, <2>4
<1> QED  BY <1>1, <1>2, <1>3, <1>4, <1>5 DEF Handle

\* The event that a step takes from the batch is the one it handles.
LEMMA StepEnds ==
    ASSUME ServerInv, [Next]_vars, serverUp, ~serverUp', NEW e \in ready \ ready'
    PROVE  EndsAt(e)
<1>1. CASE Watch \/ ClientsNext \/ UNCHANGED vars
  BY <1>1 DEF Watch, ClientsNext, Arrive, NetConnect, Say, NetSend, Leave, NetClose, Break,
     Tear, Reset, NetReset, vars, netVars
<1>2. CASE SetupClient
  <2>1. e = "listener" /\ Len(accepted) >= MinFds
    BY <1>2 DEF SetupClient, Handling
  <2> QED  BY <2>1 DEF EndsAt
<1>3. ASSUME NEW c \in Clients, Handle(c) PROVE EndsAt(e)
  <2>1. e = c
    BY <1>3 DEF Handle, RemoveClient, ReadPartial, RelayToGroup, RelayToOne, Handshake, Reading,
       Handling
  <2> QED  BY <1>3, <2>1, HandlerEnds
<1> QED  BY <1>1, <1>2, <1>3 DEF Next, Serve, ServerNext

-----------------------------------------------------------------------------
(* The theorems *)

\* IndInv is an invariant of the server: every handler, and everything clients do
\* between two handlers, preserves it.
THEOREM Inductive == Spec => []IndInv
<1>1. ASSUME IndInv, [Next]_vars PROVE IndInv'
  <2>1. ServerInv /\ StreamInv /\ said \in 0..MaxSaid
    BY <1>1 DEF IndInv
  <2>2. ServerInv'
    BY <1>1, <2>1, ServerMoves, ServerStepKeeps
  <2>3. StreamInv'
    BY <1>1, <2>1, StreamsStep DEF StreamInv
  <2>4. said' \in 0..MaxSaid
    BY <1>1, <2>1, AloneAssumption
       DEF Next, Serve, ClientsNext, Arrive, Say, Leave, Break, Tear, Reset, vars
  <2> QED
    BY <2>2, <2>3, <2>4 DEF IndInv
<1> QED
  BY <1>1, InitInv, PTL DEF Spec

\* A name never leads to a connection that was removed or announced another name.
THEOREM RoutesStayLive == Spec => []RoutesLive
<1>1. IndInv => RoutesLive
  BY DEF IndInv, ServerInv
<1> QED
  BY <1>1, Inductive, PTL

\* The Client object and the two maps of a connection are set and dropped together.
THEOREM TablesStayTogether == Spec => []TablesAgree
<1>1. IndInv => TablesAgree
  BY DEF IndInv, ServerInv
<1> QED
  BY <1>1, Inductive, PTL

\* A client with a nickname of its own can be reached once its handshake is done.
THEOREM EveryoneReachable == Spec => []Reachable
<1>1. IndInv => Reachable
  BY DEF IndInv, ServerInv
<1> QED
  BY <1>1, Inductive, PTL

\* No handler blocks in accept() or in its first read(), in whatever order a batch
\* of events is handled.
THEOREM HandlersDoNotBlock == Spec => []EventsFresh
<1>1. IndInv => EventsFresh
  BY DEF IndInv, ServerInv
<1> QED
  BY <1>1, Inductive, PTL

\* The tables and the connections hold what the code can put in them, and every
\* message a handler writes is one of the protocol.
THEOREM TypesHold == Spec => []TypeOK
<1>1. IndInv => TypeOK
  BY DEF IndInv, ServerInv, TypeOK
<1> QED
  BY <1>1, Inductive, PTL

\* Messages are signed by their clients, connections known by their nicknames, and
\* whoever has a key has been answered.
THEOREM SupportHolds == Spec => []Support
<1>1. IndInv => Support
  BY DEF IndInv, ServerInv, StreamInv, Support
<1> QED
  BY <1>1, Inductive, PTL

\* Every notice reaches a client with a nickname of its own after an answer to its
\* handshake and under the key of the last answer before it, and the server holds
\* the key of the last answer.
THEOREM StreamsAgree == Spec => []StreamAgrees
<1>1. IndInv => StreamAgrees
  BY DEF IndInv, StreamInv
<1> QED
  BY <1>1, Inductive, PTL

\* The process ends only in accept() without descriptors, on a message broken off, on
\* a message read before all of it is there, on an announcement while a key is missing,
\* or on a write to a connection that was reset.
THEOREM EndsAccountedFor == Spec => EndsOnlyThus
<1>1. IndInv /\ [Next]_vars
          => [serverUp /\ ~serverUp' => \A e \in ready \ ready' : EndsAt(e)]_vars
  BY StepEnds DEF IndInv
<1> QED
  BY <1>1, Inductive, PTL DEF Spec, EndsOnlyThus
=============================================================================
