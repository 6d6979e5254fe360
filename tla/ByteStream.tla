----------------------------- MODULE ByteStream -----------------------------
(***************************************************************************)
(* One direction of a connection as bytes.                                 *)
(*                                                                         *)
(*   "up"    three loops of a client send, one at a time by                *)
(*           sock_semaphore; the server reads with ReadNBytes, which after *)
(*           a short read reads n bytes again to the start of its buffer;  *)
(*   "down"  the server's only thread writes; the client reads with        *)
(*           RecieveAsync and ReadNBytesAsync.                             *)
(*                                                                         *)
(* TCP hands the bytes over in pieces of any size, and the sending process *)
(* may end at any moment.  With Prompt = FALSE the server reads only when  *)
(* what was sent has arrived whole, as on a fast network; the client reads *)
(* at any time.                                                            *)
(***************************************************************************)
EXTENDS Framing

CONSTANTS Directions,  \* the directions to look at
          Loops,       \* the loops of a client that send
          Server,      \* the thread of the server
          None,        \* nobody
          Prompt,
          MaxSent      \* bound: packets sent

ASSUME StreamAssumption ==
    /\ Directions \subseteq {"up", "down"} /\ Prompt \in BOOLEAN /\ MaxSent \in Nat
    /\ Server \notin Loops /\ None \notin Loops \cup {Server}

VARIABLES
    dir,       \* the direction, never changed
    holder,    \* who holds the socket for sending, or None
    body,      \* body[t]: the message t is sending
    rest,      \* rest[t]: bytes of its packet that have not arrived yet
    wire,      \* bytes that have arrived and are not read
    alive,     \* FALSE once the sending process has ended
    phase,     \* "size" or "body": which of the two reads is under way
    buffer,    \* its buffer ...
    have,      \* ... and how many bytes it has so far
    reader,    \* "up"; "left" when the server removed the client; "down"
    stream,    \* history: all bytes that arrived
    sent, got  \* history: messages sent, messages read

sendVars == <<holder, body, rest, alive>>
readVars == <<phase, buffer, have, reader, got>>
vars     == <<dir, sendVars, wire, readVars, stream, sent>>

Senders == Loops \cup {Server}

Init ==
    /\ dir \in Directions
    /\ holder = None /\ alive = TRUE
    /\ body = [t \in Senders |-> <<>>] /\ rest = [t \in Senders |-> <<>>]
    /\ wire = <<>> /\ stream = <<>>
    /\ phase = "size" /\ buffer = Blank(Width) /\ have = 0 /\ reader = "up"
    /\ sent = <<>> /\ got = <<>>

-----------------------------------------------------------------------------
(* Sending *)

Packet(b) == IF dir = "up" THEN MakeBytesFormat(b) ELSE MakePacket(Len(b), b)

\* Mutant: sock_semaphore is not waited for.
SockTaken(t) == rest[t] = <<>>

\* sock_semaphore.WaitAsync returns; the server's thread writes when it is done
\* with the last packet.
SockFree(t) == holder = None

\* A message is built and its sending begins.
WaitSock(t) ==
    /\ alive /\ SockFree(t) /\ Len(sent) < MaxSent
    /\ t = Server <=> dir = "down"
    /\ \E b \in Bodies :
          /\ body' = [body EXCEPT ![t] = b]
          /\ rest' = [rest EXCEPT ![t] = Packet(b)]
    /\ holder' = t
    /\ UNCHANGED <<dir, alive, wire, readVars, stream, sent>>

\* SendAsync or write(): some bytes arrive; with the last the message counts as
\* sent.
SendAsync(t) ==
    /\ alive /\ rest[t] # <<>>
    /\ \E k \in 1..Len(rest[t]) :
          /\ wire'   = wire \o SubSeq(rest[t], 1, k)
          /\ stream' = stream \o SubSeq(rest[t], 1, k)
          /\ rest'   = [rest EXCEPT ![t] = SubSeq(@, k + 1, Len(@))]
          /\ sent'   = IF k = Len(rest[t]) THEN Append(sent, body[t]) ELSE sent
    /\ UNCHANGED <<dir, holder, body, alive, readVars>>

\* The finally block.
ReleaseSock(t) ==
    /\ alive /\ holder = t /\ rest[t] = <<>>
    /\ holder' = None
    /\ body'   = [body EXCEPT ![t] = <<>>]
    /\ UNCHANGED <<dir, rest, alive, wire, readVars, stream, sent>>

SenderEnds ==
    /\ alive
    /\ alive' = FALSE
    /\ UNCHANGED <<dir, holder, body, rest, wire, readVars, stream, sent>>

-----------------------------------------------------------------------------
(* Reading *)

\* Mutant: Array.Reverse forgotten.
SizeOfRaw(bytes) == ToInt32(bytes)

\* memcpy in the server; Array.Reverse and ToInt32 in the client.
SizeOf(bytes) == IF dir = "up" THEN ToInt32(bytes) ELSE ToInt32(Reverse(bytes))

\* Mutant: the client, too, stores every piece at the start of its buffer.
StoreAtStart == 0

\* Where a read stores what it gets; it asks for the rest of the buffer, the
\* server for its whole length.
StoreAt == IF dir = "up" THEN 0 ELSE have

\* The length is there.  A negative one makes the buffer's constructor throw,
\* and 0 yields "", which neither JSON parser takes.
HaveSize(bytes) ==
    IF SizeOf(bytes) > 0
    THEN /\ phase' = "body" /\ buffer' = Blank(SizeOf(bytes)) /\ have' = 0
         /\ UNCHANGED <<reader, got>>
    ELSE reader' = "down" /\ UNCHANGED <<phase, buffer, have, got>>

\* The message is there and is handled.
HaveMessage(bytes) ==
    /\ got' = Append(got, bytes)
    /\ phase' = "size" /\ buffer' = Blank(Width) /\ have' = 0
    /\ UNCHANGED reader

ArrivedWhole == ~alive \/ \A t \in Senders : rest[t] \in {<<>>, Packet(body[t])}

\* One read() of ReadNBytes, one ReceiveAsync of ReadNBytesAsync.
ReadNBytes ==
    /\ reader = "up" /\ wire # <<>>
    /\ dir = "down" \/ Prompt \/ ArrivedWhole
    /\ LET n     == Len(buffer)
           want  == n - StoreAt
           k     == IF Len(wire) < want THEN Len(wire) ELSE want
           bytes == Store(buffer, StoreAt, SubSeq(wire, 1, k))
       IN  /\ wire' = SubSeq(wire, k + 1, Len(wire))
           /\ \/ /\ have + k < n
                 /\ buffer' = bytes /\ have' = have + k
                 /\ UNCHANGED <<phase, reader, got>>
              \/ have + k >= n /\ phase = "size" /\ HaveSize(bytes)
              \/ have + k >= n /\ phase = "body" /\ HaveMessage(bytes)
    /\ UNCHANGED <<dir, sendVars, stream, sent>>

\* The read returns 0.  The server removes the client when it was reading a
\* length, and parses "" when it was reading a message; the client throws.
ReadEnd ==
    /\ reader = "up" /\ wire = <<>> /\ ~alive
    /\ reader' = IF dir = "up" /\ phase = "size" THEN "left" ELSE "down"
    /\ UNCHANGED <<dir, sendVars, wire, phase, buffer, have, got, stream, sent>>

ReaderNext == ReadNBytes \/ ReadEnd

Next ==
    \/ ReaderNext \/ SenderEnds
    \/ \E t \in Senders : WaitSock(t) \/ SendAsync(t) \/ ReleaseSock(t)

\* The server's thread and R run when their read can return, and a process
\* that is alive hands over what it has begun to send.
Spec ==
    /\ Init /\ [][Next]_vars
    /\ WF_vars(ReaderNext)
    /\ \A t \in Senders : WF_vars(SendAsync(t))

-----------------------------------------------------------------------------
Packets(bodies) == FlattenSeq([i \in 1..Len(bodies) |-> Packet(bodies[i])])

Sending == holder # None /\ rest[holder] # <<>>

\* The messages whose sending has begun, and what has not arrived of the last.
Begun == IF Sending THEN Append(sent, body[holder]) ELSE sent
Left  == IF Sending THEN rest[holder] ELSE <<>>

\* The loops take turns on the socket: what has arrived and what is still to be
\* handed over are the packets one after the other, never one inside another.
TurnsTaken == stream \o Left = Packets(Begun)

\* What was already consumed of the packet being read.
Consumed ==
    (IF phase = "body" THEN SubSeq(Packet(buffer), 1, Width) ELSE <<>>)
        \o SubSeq(buffer, 1, have)

\* The reader never loses its place: the part of the packet in its hands and the
\* bytes that have arrived are exactly what arrived of the packets not returned
\* yet, however TCP cuts them.
Aligned ==
    reader = "up" =>
        LET before == Packets(got) \o Consumed
        IN  stream = before \o wire

\* What was read are the messages sent, from the first on.
MessagesIntact == IsPrefix(got, sent)

Channel == INSTANCE PacketChannel

\* Both directions implement the packet channel, byte order and length included:
\* whole messages, in order, all those whose bytes arrived.
PacketsRead == Channel!FairSpec

-----------------------------------------------------------------------------
(* The inductive invariant *)

SendType ==
    /\ dir \in Directions
    /\ holder \in Senders \cup {None}
    /\ body \in [Senders -> Bodies \cup {<<>>}]
    /\ rest \in [Senders -> Seq(Byte)]
    /\ alive \in BOOLEAN
    /\ stream \in Seq(Byte) /\ sent \in Seq(Bodies)

ReadType ==
    /\ wire \in Seq(Byte)
    /\ phase \in {"size", "body"} /\ reader \in {"up", "left", "down"}
    /\ buffer \in Seq(Byte) /\ have \in Nat
    /\ got \in Seq(Bodies)

\* Only who holds the socket has something to send.
OneSends ==
    \A t \in Senders :
        /\ holder # t => rest[t] = <<>>
        /\ holder = t => body[t] \in Bodies

\* The buffer has the length of what is being read, and when the server reads
\* less than that there is nothing more to come.
BufferFits ==
    reader = "up" =>
        /\ have < Len(buffer)
        /\ phase = "size" => Len(buffer) = Width
        /\ phase = "body" => /\ Len(got) < Len(Begun)
                             /\ Len(buffer) = Len(Begun[Len(got) + 1])
        /\ dir = "up" /\ have > 0 => ~alive /\ wire = <<>>

\* What every step preserves, whatever the reader does ...
SendInv == SendType /\ OneSends /\ TurnsTaken

\* ... and what it preserves besides when packets of a client arrive whole.
StreamInv == SendInv /\ ReadType /\ Aligned /\ MessagesIntact /\ BufferFits
=============================================================================
