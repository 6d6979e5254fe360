---------------------------- MODULE Backpressure ----------------------------
(***************************************************************************)
(* Full buffers.  A TCP connection holds a bounded number of packets each  *)
(* way; SendAsync of a client and write() of the server wait for room.     *)
(* The server has one thread, so while it waits to write to one client it  *)
(* reads from nobody.  A client's R reads at any time, except while it     *)
(* waits for room in key_exchange_queue, which K empties, except while K   *)
(* waits to send or repeats its key.  H begins an exchange whatever the    *)
(* ratchet is doing.  Keys, handshakes and the contents of lines are left  *)
(* out: a packet is a chat line for everybody or a sender key for one.     *)
(***************************************************************************)
EXTENDS Naturals, Sequences, SequencesExt

CONSTANTS Clients,
          Cap,         \* packets a connection holds in one direction
          Talkers,     \* the clients whose users type
          Beginners    \* the clients whose H begins exchanges

ASSUME BackpressureAssumption ==
    Cap \in Nat \ {0} /\ Talkers \subseteq Clients /\ Beginners \subseteq Clients

VARIABLES
    up, down,      \* what is in the connection of each client, per direction
    job,           \* the writes the server's handler still has to make
    ipc,           \* I: "read" or "send"
    hpc,           \* H: "take" or "put_key"
    kpc,           \* K: "take", "mark", "resend", "answer" or "finish"
    rstate,        \* the ratchet
    rpc, keyq      \* R: "recv" or "put_key"; key_exchange_queue

vars == <<up, down, job, ipc, hpc, kpc, rstate, rpc, keyq>>

Line   == [type |-> "message"]
Key(c) == [type |-> "sender_key", to |-> c]

Init ==
    /\ up = [c \in Clients |-> <<>>] /\ down = [c \in Clients |-> <<>>]
    /\ job = <<>>
    /\ ipc = [c \in Clients |-> "read"]
    /\ hpc = [c \in Clients |-> "take"]
    /\ kpc = [c \in Clients |-> "take"]
    /\ rpc = [c \in Clients |-> "recv"] /\ keyq = [c \in Clients |-> <<>>]
    /\ rstate = [c \in Clients |-> "idle"]

-----------------------------------------------------------------------------
(* The server *)

\* One handler: broadCastMsg to all others, in some order, or SendMsg to one.
ServerRead(c) ==
    /\ job = <<>> /\ up[c] # <<>>
    /\ up' = [up EXCEPT ![c] = Tail(@)]
    /\ LET p == Head(up[c])
       IN  job' = IF p.type = "message"
                  THEN [i \in 1..Len(SetToSeq(Clients \ {c})) |->
                           [to |-> SetToSeq(Clients \ {c})[i], packet |-> p]]
                  ELSE <<[to |-> p.to, packet |-> p]>>
    /\ UNCHANGED <<down, ipc, hpc, kpc, rstate, rpc, keyq>>

\* A blocking write().
ServerWrite ==
    /\ job # <<>>
    /\ LET w == Head(job)
       IN  /\ Len(down[w.to]) < Cap
           /\ down' = [down EXCEPT ![w.to] = Append(@, w.packet)]
    /\ job' = Tail(job)
    /\ UNCHANGED <<up, ipc, hpc, kpc, rstate, rpc, keyq>>

Server == ServerWrite \/ \E c \in Clients : ServerRead(c)

-----------------------------------------------------------------------------
(* A client *)

SendAsync(c, p) == Len(up[c]) < Cap /\ up' = [up EXCEPT ![c] = Append(@, p)]

TypeLine(c) ==
    /\ c \in Talkers /\ ipc[c] = "read"
    /\ ipc' = [ipc EXCEPT ![c] = "send"]
    /\ UNCHANGED <<up, down, job, hpc, kpc, rstate, rpc, keyq>>

SendLine(c) ==
    /\ ipc[c] = "send"
    /\ SendAsync(c, Line)
    /\ ipc' = [ipc EXCEPT ![c] = "read"]
    /\ UNCHANGED <<down, job, hpc, kpc, rstate, rpc, keyq>>

\* H has finished a handshake: SetMyState_ToSendKey, whatever the ratchet is
\* doing, ...
BeginKey(c) ==
    /\ c \in Beginners /\ hpc[c] = "take"
    /\ rstate' = [rstate EXCEPT ![c] = "send_key"]
    /\ hpc' = [hpc EXCEPT ![c] = "put_key"]
    /\ UNCHANGED <<up, down, job, ipc, kpc, rpc, keyq>>

\* ... and the token for K, when the channel has room for it.
HPutKey(c) ==
    /\ hpc[c] = "put_key" /\ keyq[c] = <<>>
    /\ keyq' = [keyq EXCEPT ![c] = <<"send_first">>]
    /\ hpc' = [hpc EXCEPT ![c] = "take"]
    /\ UNCHANGED <<up, down, job, ipc, kpc, rstate, rpc>>

\* K takes a token: it starts an exchange, answers, or has nothing to do.
TakeToken(c) ==
    /\ kpc[c] = "take" /\ keyq[c] # <<>>
    /\ keyq' = [keyq EXCEPT ![c] = <<>>]
    /\ kpc' = [kpc EXCEPT ![c] = IF rstate[c] # "send_key" THEN "take"
                                 ELSE IF keyq[c] = <<"send_first">> THEN "mark"
                                 ELSE "answer"]
    /\ UNCHANGED <<up, down, job, ipc, hpc, rstate, rpc>>

MarkKey(c) ==
    /\ kpc[c] = "mark"
    /\ kpc' = [kpc EXCEPT ![c] = "resend"]
    /\ rstate' = [rstate EXCEPT ![c] = "waiting_for_rcv_key"]
    /\ UNCHANGED <<up, down, job, ipc, hpc, rpc, keyq>>

\* One turn of the loop that repeats the key, or the answer.
SendKey(c) ==
    /\ \/ /\ kpc[c] = "resend" /\ rstate[c] # "rcved_key"
          /\ UNCHANGED kpc
       \/ kpc[c] = "answer" /\ kpc' = [kpc EXCEPT ![c] = "finish"]
    /\ \E d \in Clients \ {c} : SendAsync(c, Key(d))
    /\ UNCHANGED <<down, job, ipc, hpc, rstate, rpc, keyq>>

\* The loop's test finds the key received, outside of the semaphore.
SeenKey(c) ==
    /\ kpc[c] = "resend" /\ rstate[c] = "rcved_key"
    /\ kpc' = [kpc EXCEPT ![c] = "finish"]
    /\ UNCHANGED <<up, down, job, ipc, hpc, rstate, rpc, keyq>>

\* SetMyState_ToIdle, also over what H has set meanwhile.
FinishKey(c) ==
    /\ kpc[c] = "finish"
    /\ kpc' = [kpc EXCEPT ![c] = "take"]
    /\ rstate' = [rstate EXCEPT ![c] = "idle"]
    /\ UNCHANGED <<up, down, job, ipc, hpc, rpc, keyq>>

\* Mutant: one loop reads and writes, so nothing is read while a send waits.
ReadsBetweenSends(c) == rpc[c] = "recv" /\ ipc[c] = "read"

\* R reads whatever the other loops are doing.
Reads(c) == rpc[c] = "recv"

Recieve(c) ==
    /\ Reads(c) /\ down[c] # <<>>
    /\ down' = [down EXCEPT ![c] = Tail(@)]
    /\ \/ Head(down[c]).type = "message" /\ UNCHANGED <<rpc, rstate>>
       \/ /\ Head(down[c]).type = "sender_key"
          /\ rpc' = [rpc EXCEPT ![c] = "put_key"]
          /\ rstate' = [rstate EXCEPT ![c] =
                           CASE @ = "waiting_for_rcv_key" -> "rcved_key"
                             [] @ = "idle"                -> "send_key"
                             [] OTHER                     -> @]
    /\ UNCHANGED <<up, job, ipc, hpc, kpc, keyq>>

PutKey(c) ==
    /\ rpc[c] = "put_key" /\ keyq[c] = <<>>
    /\ keyq' = [keyq EXCEPT ![c] = <<"rcv_first">>]
    /\ rpc' = [rpc EXCEPT ![c] = "recv"]
    /\ UNCHANGED <<up, down, job, ipc, hpc, kpc, rstate>>

R(c) == Recieve(c) \/ PutKey(c)
K(c) == TakeToken(c) \/ MarkKey(c) \/ SendKey(c) \/ SeenKey(c) \/ FinishKey(c)

Next ==
    \/ Server
    \/ \E c \in Clients :
          TypeLine(c) \/ SendLine(c) \/ BeginKey(c) \/ HPutKey(c) \/ R(c) \/ K(c)

\* The loops and the server's thread run when they can; nobody has to type a
\* line or begin an exchange.  A batch of events has one of each connection that
\* is readable, so no connection is passed over for ever, and sock_semaphore
\* serves in the order of arrival, so neither is a line.
Spec ==
    /\ Init /\ [][Next]_vars
    /\ WF_vars(ServerWrite)
    /\ \A c \in Talkers : SF_vars(SendLine(c))
    /\ \A c \in Beginners : WF_vars(HPutKey(c))
    /\ \A c \in Clients : SF_vars(ServerRead(c)) /\ WF_vars(R(c)) /\ WF_vars(K(c))

-----------------------------------------------------------------------------
\* The server waits to write to c, whose R waits for room in key_exchange_queue
\* that K does not make: K waits to send its answer to the server, or it waits
\* in its loop for a key that only R could receive.
Circle(c) ==
    /\ job # <<>> /\ Head(job).to = c /\ Len(down[c]) = Cap
    /\ rpc[c] = "put_key" /\ keyq[c] # <<>>
    /\ \/ kpc[c] = "answer" /\ Len(up[c]) = Cap
       \/ kpc[c] = "resend" /\ rstate[c] # "rcved_key"

\* Buffers may fill up in every direction at once, and still every handler of
\* the server comes to its end and every line gets into the connection, unless
\* the server waits in a circle that goes through a full key_exchange_queue.
FlowsUnlessCircle ==
    /\ job # <<>> ~> (job = <<>> \/ \E d \in Clients : Circle(d))
    /\ \A c \in Talkers : ipc[c] = "send" ~> (ipc[c] = "read" \/ \E d \in Clients : Circle(d))
=============================================================================
