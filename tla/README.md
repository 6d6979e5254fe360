# A formal model of the E2EE group chat

The repository is a group chat with end-to-end encryption: a client in C#
(`src/Client`) and a relay server in C++ (`src/Server`).  This directory holds
TLA+ modules translated from that code, the TLC configurations that check them
on small instances, and proofs that TLAPS checks for every instance.

## 1. Inventory

| Part | State | Operations | Modelled in |
|---|---|---|---|
| `HandshakeStateMachine`, `DHShare` | `MyState`, `CurrentHandShaker`, own and opponent's number, the last exponent | four state setters, `GetSharedSecret` | `ChatClient`, `DHArithmetic` |
| `Ratchet` | `MyState`, `CurrentExchanger`, `whoNkey_dic` (session and sender keys) | state setters, `AddData`, `RemoveData`, `AccessData`, `SetOpponentSenderKey` | `ChatClient` |
| `Reciever.LoopRecieveAsync` (R) | the message in hand | one case per message type | `ChatClient` |
| `Sender.LoopHandshakeAsync` (H) | token, message, peer | request and resend, or answer | `ChatClient` |
| `Sender.LoopSenderAsync` (K) | token, key, message | send and resend, or answer | `ChatClient` |
| `Sender.LoopInputAsync` (I) | none | chat line, `/quit` | `ChatClient` |
| `Program`, `ServerConnector`, `ClientRunner` | connection, cancellation token, semaphores | connect, start the loops, cancel, end | `ChatClient`, `ClientShutdown` |
| `Server`, `main` | the batch of events | wait, accept, read, relay, handshake, announce | `ChatServer` |
| `ClientManager`, `Client` | `client_map`, `name2sock_map`, `sock2name_map`, nickname, key | add, remove, name, key, broadcast, send | `ChatServer` |
| `IOepollManager`, `Listener` | watched descriptors | watch, add, remove | `ChatServer` |
| `DHCalculator` | last exponent, number, secret | draw, secret, its bytes, key | `Protocol`, `DHArithmetic` |
| `JsonController` (both) | none | messages | `Protocol` |
| `RecieveAsync`, `MakeBytesFormat`; `Communicator` (server) | buffers, `sock_semaphore` | write a packet, read a packet | `ByteStream`, `Framing` |

**How the parts interact.**  R reads the socket and drives both state machines;
it wakes H through `dh_exchange_queue` and K through `key_exchange_queue`, both
channels of capacity 1; H, when a handshake is done, wakes K.  H, K and I write
to one socket.  `state_semaphore` protects the setters of the handshake machine,
`ratchet_semaphore` most, not all, uses of the ratchet.  The server has one
thread: it waits for a batch of events and runs a handler for each.  Clients
and server share nothing but the TCP connections.

**What is hard.**  Four loops over shared state that is partly read outside of
its semaphores; requests that are repeated every 100 ms whether or not they
arrived; peers that answer, enter and leave in any order; cancellation that
some waits do not see; blocking writes in a server of one thread; byte streams
that arrive in pieces; three maps that must stay in agreement while connections
break off, share nicknames or are reset under the server's writes.  The list
with its lines is `hazards` in `PROJECT.json`.

**What makes each part correct.**  Handshake: the key filed under a peer is made
of the number sent to it and the number it sent, each used once, and both ends
get the same key.  Key exchange: a sender key goes to the peer it is encrypted
for, both ends get each other's, and the exchange ends.
Server: a name leads to a live connection that announced it, a notice is
readable by the client it is sent to, no event is handled when it is no longer
true, everything sent is read.  Streams: messages are read whole, in order, all of them.  End of a
client: no permit is lost and every loop ends.

## 2. Modules

```
Protocol      names, numbers, keys, messages
Network       the TCP connections (external, as the code uses them)
ChatClient    the client                      ChatServer   the server
ClientInvariant, ServerInvariant              what each side's steps preserve
ClientAlone   one client, any arrivals        ServerAlone  the server, any clients
GroupChat     clients + server + connections; refines SessionAgreement
GroupInvariant   what the steps of the whole preserve
OrderlyInvariant what they preserve for two users in the README's scenario
ClientShutdown   semaphores, cancellation and the end of a client
Framing, ByteStream   packets as bytes, both directions; refines PacketChannel
Backpressure  full connections and the blocking write() of the server
DHArithmetic  the Diffie-Hellman numbers as numbers, and their bytes
MC...         instances for TLC

ClientAloneProofs, ServerAloneProofs, ClientShutdownProofs,
GroupChatProofs   theorems about the module so named
OrderlyProofs the theorem about OrderlyInvariant
WireProofs    theorems about ByteStream and DHArithmetic
DataFacts     lemmas about numbers, functions and sequences
ChatLemmas    lemmas about the client's and the server's steps, in any environment
```

`Protocol`.  A Diffie-Hellman number is the pair (process, index of its draw), a
shared secret the set of the two numbers, a key the secret plus one bit for the
way the secret's bytes were encoded: `BigInteger.ToByteArray` adds a zero byte
when the top bit is set, `mpz_export` does not.  Which secrets have that bit is
the constant `HighSecrets`.  A ciphertext is a record of key and plaintext; a
sender key is named by its owner.  Decrypting with a wrong key is taken to
throw; in the code the padding check misses about one case in 256, which then
yields garbage.

`Network`.  Per connection one FIFO of whole packets each way.  A connection is
named by its client, which connects once; a packet that is read before all of it
has come is the message `Partial`, which ends the server; the server never
closes a descriptor, so descriptor numbers grow and are not reused.  After the client's end closes,
the first write of the server is answered by a reset, the next write raises
SIGPIPE.

`ChatClient`.  One action per piece of a loop that no other loop can observe
half done.  R's tests of `MyState` are merged with the sections they guard;
that this is sound is `HandshakeOwner`, which is proved.  Reads of
`CurrentExchanger` outside the semaphore (`KReadKey`, `KReadTo`), the loop test
`KSeen` and the `AccessData` of `HCheck` are steps of their own.  `rpc`, `hpc`,
`kpc` are the program counters; locals that are dead are reset.  An exception
makes the client `faulted`: it takes no more steps, then exits.  (In the code
other loops may get a last section done before the cancellation reaches them.)

`ChatServer`.  `Watch` fills the batch `ready`; each element is handled once, in
any order.  Every handler includes all its writes and all ways to end the
process: accept() failing (the limit lies between `MinFds` and `MaxFds`), an
empty or garbled message reaching the JSON parser, a missing key, SIGPIPE.

`ClientAlone` puts one client in an environment that may deliver any offered
message at any time, any number of times: stronger than every real server, so
what is proved there holds in the composition too.  `ServerAlone` does the same
for the server, with clients that break off inside a message and messages that
the server reads before all of them has come (`Tear`).  What is true of
one client, and of the server, whoever is at the other end is stated in
`ClientInvariant` and `ServerInvariant`, which the whole chat uses too.

`GroupChat` composes both.  `Patient` says in which respects users and clock
behave as in the scenario of the repository's README: `"join"`, `"type"`,
`"leave"`, when the others are done; `"retry"`, when a request is repeated only
if neither it nor its answer is under way (a round trip below the 100 ms of
`Task.Delay`).  Under way is what the server or a process that has not ended
still has to read, and what a running client is about to answer.  What is not in
`Patient` happens at any time.

`SessionAgreement` is the abstract handshake: the second end of a session gets
the key of the first, nobody else has it, and neither end gives its key up or gets
another before the other has left.  `GroupChat` maps its dictionaries and the
clients that have quit or failed to it (`Held`, `Left`).  `GroupInvariant` has the
inductive invariant of the whole, `GroupInv`: what `ClientInvariant` and
`ServerInvariant` say of the parts, and what relates the parts to each other.
`OrderlyInvariant` adds how far each conversation has come when two users keep to
the README's scenario.

`ClientShutdown` splits what `ChatClient` takes as one step into `WaitAsync`, try
block and `Release`, and has the token at each wait that is given it and at no
other: `SendAsync` under `sock_semaphore` is given none and need not return.

`ByteStream` has the bytes of one direction.  Upwards, three loops send under
`sock_semaphore` and the server reads with `ReadNBytes`; downwards, the server
writes and `ReadNBytesAsync` reads.  The length is little-endian one way and in
network order the other.  `PacketChannel` is what both ends rely on, and what
`Network` takes for granted: whole packets, in order, all of them.

`Backpressure` leaves out what packets say and keeps where they wait: a bounded
connection each way, one thread that writes with a blocking `write()`, R and H
waiting for room in `key_exchange_queue`, K waiting to send.  H begins an exchange
whatever the ratchet is doing, as in the code, and any number of times.

`DHArithmetic` has the code's masks, loops, exports and byte arrays on a small
modulus with bytes of `Bits` bits.  It does not need a prime, and cannot: the
modulus of the code, said to be the 2048-bit prime of RFC 3526
(`src/Server/include/DHCalculator.h`:22), has 447 digits, 1484 bits, and is
composite.  Both sides use the same one.

Definitions marked "Mutant" are never used by a specification; they are small
wrong versions of the definition after them, with which the property named in
`PROJECT.json` fails.

## 3. Runs

| Run | Instance | Result |
|---|---|---|
| `client_alone` | one client, messages of the server and two peers | passes: `IndInv` and what follows from it |
| `client_repeat` | the same, the messages of exchanges with two peers, fair loops | **violated**: `ReplyEndsRepetition` |
| `client_shutdown` | the four loops, exceptions and cancellation anywhere | passes: `SemaphoresBalanced`, `LoopsEnd` |
| `server_tables` | three connections, two with one nickname, one descriptor that may be missing | passes: `IndInv`, tables, events, notices, `EndsOnlyThus` |
| `pair_orderly` | two users in the README's scenario, one leaves and returns under its nickname, now with a secret whose top bit is set | passes, liveness included |
| `pair_leave` | two users, one of whom leaves at any moment and comes back under its nickname, at once if it likes | passes: the liveness of handshakes and of the server |
| `pair_hasty` | two clients, everything at any time, one retry | passes: refines `SessionAgreement`; `SealedEndToEnd`, `ServerKeysDifferOnlyThus`, and `GroupInv`, the invariant of section 4 |
| `trio_orderly` | three clients, README scenario | **violated**: `SenderKeyForRecipient` |
| `streams` | both directions, up to four packets in pieces of any size, the client's packets read when they are whole | passes: refines `PacketChannel` |
| `up_split` | packets of a client read while they arrive | **violated**: `MessagesIntact` |
| `dh_numbers` | modulus 21, bytes of two bits, every draw | passes |
| `flow_full` | two clients, connections of one packet each way, one types and the other's H begins exchanges | passes: `FlowsUnlessCircle` |

**Violated, each against a sentence of the repository** (quoted in `findings`):

* `trio_orderly`: the sender key of a third client arrives between the two reads
  of `CurrentExchanger`; the key sent to one peer is encrypted for another.
* `client_repeat`: H sets the ratchet to `send_key` between the answer and K's
  test; K repeats its key for ever although it was answered.
* `up_split`: after a short read the server's `ReadNBytes` reads n bytes again to
  the start of its buffer.

**Passing, as exact descriptions of what goes wrong.**  Several properties say in
which cases, and in no others, the program fails; their exceptions are real:

* `EndsOnlyThus`: the server's process ends when no descriptor is left
  (`removeClient` closes none), when a client dies inside a message (the empty
  string is parsed), when a message is read before all of it has come (what
  `up_split` shows in bytes: a garbled text, or a garbled length), when somebody
  enters or leaves while another connection has not sent its number yet (a null
  key), or when a write meets a connection that was reset.
* `ServerKeysDifferOnlyThus`: a client and the server have different keys when
  this client's request was repeated although it had arrived (the server makes a
  new key for each copy, the client keeps the first: both keys have the same
  number of the client, the server's an index drawn later), or when, made of the
  same two numbers, the secret's top bit is set.  `BytesDifferByBit` says the same
  of the bytes.
* `LoopsEnd`: after cancellation R, H or K goes on only if it waits for room, in
  `key_exchange_queue` or, sending, in the connection: `WriteAsync` and
  `SendAsync` are not given the token.  Then `WhenAll` never returns and `/quit`
  hangs.
* `FlowsUnlessCircle`: traffic stops only in one circle: the server in `write()`
  to a client, whose R waits for K, who waits to send to the server, or repeats
  its key until R receives one.  The second is what `client_repeat` shows of a
  client alone, seen from the server.
* `HandshakeCompletes`: with two nicknames in use, each by one process after the
  other, H repeats its request for ever only if the server has, from some time
  on, no route from that name to a running client: the peer is gone, or came back
  and lost its route to the leave of its former self.  With three it can take
  more: each may wait for the next and, meanwhile, ignore every number but the
  one it waits for, and all repeat for ever with everybody present.
* `NobodyFails`: in the README's scenario nobody throws until a secret of a client
  and the server has its top bit set.  That is not rare: with the modulus of 1484
  bits it is a secret of 1480 bits, or of fewer and a multiple of 8, about one in
  twenty.  The client then throws at its first notice, and of the others
  `NobodyFails` says no more.
* `KeysExchanged`, `ExchangeEnds`, `NobodyFails` hold for patient users.  Without
  that, an enter notice read during a handshake is dropped and the pair never
  makes a session; a sender key repeated while its answer is on its way can
  arrive when both ratchets are idle, and the two then answer each other's
  answers for ever; and a leave notice between `SetMyState_ToIdle` and
  `AccessData` throws.  With three clients, the sender key of anybody ends the
  repetition K is in, also when the awaited peer has not answered.

**Bounds.**  `MaxSends` (copies of one request; 2 allow every race of a retry
with its answer), `Endless` (repeat for ever, with a count that saturates, for
liveness), `MaxLines`, `InboxCap` and `MaxDraws` (deliveries stop once the
client has drawn more numbers than that: the server's, one peer's and the one
in use), `MaxSaid`, `MinFds`, `MaxFds`, `Quitters`, `MaxSent`, `Cap`, `Talkers`, `Beginners`.
In `pair_hasty` one of the two requests to the server arrives twice
(`OneRepeatAnswered`), whichever; requests between the clients may all be repeated.
In `client_alone` one packet waits at a time: the client sees only the head of
its socket, and the environment may choose the next packet after every step, so
a longer queue adds no order of arrivals.  Two peers are needed so that a third
party's number can arrive during a handshake; three connections so that two can
share a nickname while a third watches; three processes in `pair_orderly` and
`pair_leave` so that a nickname can return.  In `streams` a byte is a bit and the length has
three, so that lengths differ from their reversal, and a message of one byte
followed by others lets a misplaced read reach into the next packets.  Modulus 21
with bytes of two bits has secrets of one to three bytes, with and without the
top bit.  A connection of one packet is the fullest, and one client that types and
another whose H begins exchanges fill it both ways without any count of lines or
keys.

Deadlock is checked in `dh_numbers` only: elsewhere users may stop typing, the
bounded runs end, and a process that has ended takes no steps.  What must happen
is stated as liveness.

**Fairness.**  `GroupChat`: weak fairness of the server's only thread, which is
never idle when an event is pending, and of R, H and K of each client
separately; they are thread-pool tasks; and of `Exit`, because `ClientRunner.Run`
returns when the loops are over.  Users owe nothing: no fairness for
`Connect`, `InputLine`, `InputQuit`.  `LoopsSpec` of `ClientAlone` has the same
for one client.  `ClientShutdown`: weak fairness of R, H, K and of
`ClientRunner.Run`; none for I, which waits for a key press, and none for the
return of a `SendAsync`, which is the server's to bring about.  `ByteStream`: weak
fairness of reading, and of handing over what was begun to be sent.
`Backpressure`: weak fairness of `write()`, R, K and H's `WriteAsync`, strong fairness of reading
each connection, because a batch of epoll has one event of every readable
connection, and of a line waiting for the socket, because `SemaphoreSlim`
serves its asynchronous waiters in order.

## 4. Proofs

Each theorem holds for every value of the constants that the module's named
assumptions admit: every set of clients, every table of nicknames, every set of
well-formed offered messages, every width of a length, every bound.

| Module | Theorem | Always |
|---|---|---|
| `ClientAloneProofs` | `Inductive` | `IndInv`, the inductive invariant of a client |
| | `TypeCorrect` | `TypeOK` |
| | `HandshakeControl` | `DhWakeupInv` |
| | `HandshakeOwnership` | `HandshakeOwnerInv` |
| | `RequestKept` | `RequestMatchesInv` |
| | `OpponentNamed` | `OpponentIsPeerInv` |
| | `SessionSecrecy` | `SessionEndToEndInv` |
| | `NumbersFresh` | `FreshNumbersInv` |
| | `NoticeReadable` | `IdleHasServerInv` |
| | `SenderKeySealing` | `SenderKeySealedInv` |
| `ServerAloneProofs` | `Inductive` | `IndInv`, the inductive invariant of the server |
| | `TypesHold` | `TypeOK` |
| | `SupportHolds` | `Support` |
| | `RoutesStayLive` | `RoutesLive` |
| | `TablesStayTogether` | `TablesAgree` |
| | `EveryoneReachable` | `Reachable` |
| | `HandlersDoNotBlock` | `EventsFresh` |
| | `StreamsAgree` | `StreamAgrees` |
| | `EndsAccountedFor` | `EndsOnlyThus` (every step) |
| `GroupChatProofs` | `GroupInvariantHolds` | `GroupInv`, the inductive invariant of the chat |
| | `PeersAgreeAlways` | `PeerSessionAgrees` |
| | `ImplementsAgreement` | `GroupChat` implements `SessionAgreement` |
| | `ServerKeysDifferOnlyAsSaid` | `ServerKeysDifferOnlyThus` |
| | `SenderKeysSealed` | `SealedEndToEnd` |
| | `SenderKeyMeant` | `SenderKeyForRecipient`, for two clients (`trio_orderly` refutes it for three) |
| `OrderlyProofs` | `NobodyFailsInOrder` | `NobodyFails`, for two clients in the README's scenario, until a secret has its top bit set |
| `ClientShutdownProofs` | `PermitsKept` | `SemaphoresBalanced` |
| `WireProofs` | `PacketsDoNotMix` | `TurnsTaken` |
| | `ReadersKeepTheirPlace` | `Aligned` |
| | `MessagesArriveIntact` | `MessagesIntact` |
| | `ImplementsChannel` | `ByteStream` implements `PacketChannel` |
| | `ExponentsInRange` | `ExponentInRange` |
| | `SecretsEqual` | `SecretsAgree` |
| | `ExportsFit` | `ExportFits` |
| | `BytesDiffer` | `BytesDifferByBit` |

*Assumptions.*  `ProtocolAssumption`: nobody's nickname is "server" or "group"
(the code does not check this) and null is no name.  `AloneAssumption` of
`ClientAlone`: what is delivered is well formed, a `dh` message carries a number
its sender drew, and no number comes back from the client that drew it.  The
server relays unchanged and the repository's README excludes forged numbers in
the same words.  `AloneAssumption` of `ServerAlone`: what clients send is well
formed; that it is signed with the client's nickname is what `Say` does.
Nicknames may be shared there.  The six theorems of `GroupChatProofs` assume
`DistinctNicks`: no two processes of the table use one nickname.  They need it,
because a session is filed under a nickname: when a user returns under its old
one before a peer has read that it left, the peer still has the key of the
process that is gone while the new process can have another; and two processes
that run under one nickname share the peer's one entry.
`pair_orderly` checks the return in the orderly scenario, where it goes well.
`SenderKeyMeant` assumes `TwoClients` besides: with three its property is false,
as `trio_orderly` shows.
Everything else about the pace is free there: `Patient` and `Quitters` are any
sets, clients may fail and the server may end.  `NobodyFailsInOrder` is about the
README's scenario and assumes it (`OrderlyScenario`): two clients under different
nicknames, all four parts of `Patient`, and a descriptor for each connection.
`Quitters`, `MaxSends`, `Endless`, `MaxLines`, `HighSecrets` and the nicknames are
free; that a secret with its top bit set makes a client throw is in the property
(`TopBit`), not in the assumptions.  `AloneAssumption` is not assumed for
the whole chat: that what arrives is well formed is part of what is proved
(`ClientsTyped`, `SentHonestly`).  `BytesAssumption`, `BodiesAssumption`: a byte has an
even number of values, and a message is not empty and shorter than an int can
say.  `ReadersKeepTheirPlace`, `MessagesArriveIntact` and `ImplementsChannel` assume that the server reads a
client's packet only when it is all there, or that only the other direction is
looked at; `up_split` shows that without this they are false.

*Argument, client.*  None of the properties is inductive alone.  That a session
has the right two halves needs to know whose number `opnum` is
(`OpponentIsOther`), which needs to know that R replaces it only when H is not
using it (`HandshakeOwner`), which rests on the wake-up channel (`DhWakeup`) and
on the number being redrawn only from idle (`Engaged`).  Freshness needs the
stronger `NumbersSpent`, which also covers entries that were dropped.
`IdleHasServer` needs `ServerFirst`; the key exchange needs `LocalsReady` and
`ExchangeOpen`.  That K never encrypts a sender key with the server's session key,
nor with none (`SenderKeySealed`), is that every entry for a name is shared with
another client (`EntriesSealed`), and that a number once drawn stays drawn.  `IndInv` is the conjunction; `client_alone` checks it with TLC as
well.  `Frame` says once which actions change which variables, so that each step
lemma treats only the actions that matter to it.

*Argument, server.*  The tables change in three ways only (`TableMove`): a
connection is added, registered or erased.  That erasing a connection takes no
other's route along, unless they share the nickname, needs `NamedByNick`, which
needs `Signed`: whatever is in a connection carries its client's nickname.  That
the connection of an event is still in `client_map` is `EventsFresh` itself, for
the other events of the batch: a handler takes only its own data and its own
connection away, and a closed connection never opens again (`Connected`,
`LinkMove`).  That a notice comes after an answer, under its key, is a statement
about a whole stream: what a handler writes to one client is at most one answer
followed by notices under the key of that answer, or no answer and notices under
the key the server has, which by `Answered` is that of an answer already in the
stream; `Drained` says that nothing is kept for a client that is gone.  For
`EndsOnlyThus` it is enough which elements the lists of writes have: an element of
a `FlattenSeq` is one of a piece (`FlattenIsMadeOf`), and only a client without a
key or a reset connection among these ends the process (`EndsAt`).
`server_tables` checks every conjunct of this `IndInv` with TLC as well.

*Argument, the whole chat.*  Each side's invariant is proved for a step in any
environment (`ChatLemmas`), and so serves `ClientAlone`, `ServerAlone` and
`GroupChat` alike.  What remains is what relates the two ends.  That the second
end of a session gets the first one's key needs to know which session of its
sender a number under way is for: `Committed` says it is the one the sender has
with that peer or is about to make, `ForItsSession` says this of what leaves a
client, `NumbersMeant` of what has arrived at or is kept by another.  A number
may outlive the handshake it was sent for, as a second copy of a request, so
that must not be undone by a later one: an entry refuses a second handshake
before a number leaves (`SecondRefused`), and a session ends only with the
departure of its peer (`LeaveTold`), after which `NumbersMeant` asks nothing
of it.  An enter notice comes before any number of the client that enters
(`EnterFirst`), because the server announces a client when it has its number,
and a client sends numbers to others only after that (`ServerBeforePeers`,
`HeardAfterwards`).  The server draws a number for each request, and these do not mix
(`ServerNumbersApart`); its key is made of one of them and the number of the
client's session (`KeyOfTwo`).  What makes `ServerKeysDifferOnlyThus` inductive is
`LastNumber`: of all the numbers the server drew for a client, the one its key is
made of is the last, so a client that derived its key from another one has an
earlier one.  In the refinement the two ends' dictionaries
change by `GetSharedSecret` (`Obtain`), `RemoveData` (`Forget`) and the end of a
client (`Leave`); every other step is a stutter.  That `RemoveData` takes only the
keys of peers that have left is `LeaveTold`.  That nobody else holds a key
(`Exclusive`) is that its secret holds a number of each end.
`pair_hasty` checks `GroupInv` with TLC as well.

*Argument, sender keys.*  `SealedEndToEnd` follows a sender key from K to its
recipient: `SenderKeySealed` says it of K's locals, `SealedOut` of what a client
has handed over, `SealedIn` of what the server has passed on.  A handler of the
server moves a message unchanged from one stream to others or writes messages of
its own, which are never sender keys.  That it goes to the client whose key it is
under is another matter: K reads `CurrentExchanger` for the key and again for the
address.  With two clients nobody else's sender key can overwrite it in between
(`NotWithSelf`: a client never exchanges with itself), and the entry of a client
that is here does not change under K's hands (`EntryStays`): an entry is never
replaced, and `LeaveTold` says that only a departure removes it.  `ExchangeInv`
is the inductive form.

*Argument, nobody fails.*  A loop throws when it decrypts without the key or under
another one, or takes a number for which there is nothing; the server ends in the
cases of `EndsOnlyThus`.  To rule each of these out one has to know where in
the conversation everybody is, and `OrderlyInv` says it without listing positions:

* whoever is not here rests and left nothing behind; while one joins, the other has
  its session with the server or is absent (`JoinsAlone`); while one leaves, the
  other rests (`LeavesAlone`, `ToldAlone`).  So no notice meets a connection whose
  number the server does not have yet, and nothing is written to a reset one;
* of a handshake there is at most one copy of the request, or after it was taken
  up one copy of the answer, in the hands of one end or in one stream
  (`ServerOnce` with the server; `AsksOnce` between the clients, in its two stages
  `Requested` and `Answered`).  So a repetition never overtakes its answer, and the
  two keys of the server are one (`ServerAgrees`, hence `NoticesReadable`);
* sender keys are exchanged only when both have the session (`ExchangeMeant`), and
  a line is under a sender key its reader has (`LinesReadable`).

Each is shown for the client that moves, for the other one, and for the pair, and
then for each event of the server; it is inductive together with `GroupInv`,
`SealedEndToEnd` and `ExchangeInv`, as long as there is no `TopBit`, which once
true stays true (`TopBitStays`).  A stream that grows or shrinks by one message
changes the positions of a kind of message by at most one (`PositionsAppend`,
`PositionsTail`).  TLC checks `OrderlyInv` in a second on `pair_orderly.cfg` with
`Clients = {a, b}`, `Nick <- MCNick`, `Quitters = {a, b}`, `MinFds = MaxFds = 2`,
`MaxSends = 2`, `MaxLines = 2`, `SPECIFICATION Spec` and `INVARIANTS OrderlyInv
NobodyFails` (1355 states); it is not one of the runs, because `pair_orderly`
itself checks `NobodyFails` in the wider setting with a returning nickname.

*Argument, byte streams.*  `StreamInv` adds to the properties which messages are
under way: what has arrived and what is still to be handed over are the packets
of `Begun` (`TurnsTaken`), of which the reader has returned a prefix
(`MessagesIntact`); what it holds in its hands and what lies on the wire is the
rest (`Aligned`).  As packets start with their length, and lengths are read as
they were written (`LengthReadBack`: the digits of a number below half of
what `Width` bytes can hold, in the order each side puts them), the bytes of the first read are
the length of the next message, so the second read ends where the message does.
A server that met a short read would store the next piece at the start of its
buffer; that it meets none is where the condition comes in (`WholeArrived`): the
packet in its hands is all there or the sender has ended, and then nothing
follows (`BufferFits`).  The refinement takes the last piece of a packet to
`Submit`, the completed second read to `Collect`, and every other step to a stutter.

*Argument, numbers.*  `ModPow` of `DHArithmetic` is a recursive function.  That
both ends compute one secret is (g^a)^b = (g^b)^a modulo p, by induction over
the exponents.  That the secret's bytes fit the buffer rests on `Magnitude` being
below 2 to the bits counted, that two encodings differ only by the bit on the
highest byte having no leading zero.

*Induction.*  The induction theorems of the provers' library are schemes over
formulas, which these provers do not instantiate.  `DataFacts` states them once
for sets: a set of numbers with 0 that has n + 1 with every n has all numbers
(`SetInduction`), and a function defined from its value before exists
(`NatRecursion`).  A proof by induction names the set of numbers for which its
statement holds.  Recursion in modules with proofs is by functions.

*Only model-checked.*  All liveness, the fairness half of both refinements
included (`PacketsRead` has more than `ImplementsChannel` proves, namely that what
was sent is read): the provers treat no fairness.  Nicknames that return, for
`PeerSessionAgrees` and `NobodyFails`.  `Backpressure`, whose only property is
liveness.

## 5. Not modelled

* Vendored rapidjson and gmp (about nine tenths of the source lines), build
  output and project files; sockets' and epoll's set-up.
* The text of messages: JSON, Base64, IVs, AES, HKDF.  A ciphertext opens under
  the key it was made with.
* Concurrent use of .NET's `Dictionary`: its operations are atomic here.  In the
  code `AddData` runs under `state_semaphore`, `RemoveData` and
  `SetOpponentSenderKey` under `ratchet_semaphore`, and `AccessData` of R, H and K
  under none, so a write can meet another access; what then happens is undefined.
* `Console.ReadLine`, which cancellation does not interrupt: a client that has
  thrown may wait for a key press before it exits.  `ChatClient` lets it exit;
  in `ClientShutdown` the loop I may stay.
* Code that nothing calls: `UpdateSessionKey`, `UpdateMySenderKey`, `ChangeData`,
  the server's `decrypt`, `NameToSock`.

The map of `PROJECT.json` names more than half of the program's own lines; what
is left of them are constructors, includes, logging, set-up, encryption and the
uncalled code above.

## 6. Plan

Done: the core (`Protocol`, `Network`, `ChatClient`, `ClientAlone`, `ChatServer`,
`ServerAlone`, `GroupChat`, the client's proofs), then framing, arithmetic, the
end of a client, flow control, the two refinements, the returning nickname, and
the server's proofs.

Then the proofs: the server's streams and ends, the semaphores of a client, the
numbers, the byte streams with their refinement, the agreement of the two ends
of a session in the whole chat with its refinement, the way of the sender keys
from end to end, and that nobody fails in the README's scenario.

Next, in this order:

1. The same for nicknames that return: `NumbersMeant` for the process that has
   the nickname now, in the orderly scenario, where notices are read before
   anybody joins.
2. `NobodyFails` for nicknames that return.
3. `SemaphoresBalanced` together with the sections of `ChatClient`, so that the
   atomicity of its steps is itself a refinement.
