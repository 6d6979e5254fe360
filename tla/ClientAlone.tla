---------------------------- MODULE ClientAlone ----------------------------
(***************************************************************************)
(* One client against an environment that delivers any of the messages a   *)
(* server may relay to it, in any order and any number of times, and that  *)
(* may vanish.  The environment is bound only by what every sender does:   *)
(* messages are well formed and a dh message carries a number its sender,  *)
(* who is not this client, drew.                                           *)
(***************************************************************************)
EXTENDS ClientInvariant

vars == <<netVars, clientVars>>

CONSTANTS me,         \* the client that is run
          Offered,    \* messages the environment may deliver
          InboxCap,   \* bound: packets waiting in the socket
          MaxDraws    \* bound: exponents drawn before deliveries stop

ASSUME AloneAssumption ==
    /\ me \in Clients
    /\ \A m \in Offered :
          m \in Message /\ OwnNumber(m) /\ (m.type = "dh" => m.body.by # me)
    /\ InboxCap \in Nat /\ MaxDraws \in Nat

\* The server reads what the client has sent and a packet from it reaches the
\* client's socket.  The client never reads outbox, so emptying it here hides
\* none of its behaviours.
Deliver ==
    /\ serverUp
    /\ status[me] = "up"
    /\ Len(inbox[me]) < InboxCap
    /\ draws[me] <= MaxDraws
    /\ \E m \in Offered : inbox' = [inbox EXCEPT ![me] = Append(@, m)]
    /\ outbox' = [outbox EXCEPT ![me] = <<>>]
    /\ UNCHANGED <<backlog, link, serverUp, clientVars>>

ServerGone ==
    /\ status[me] \in {"off", "up"}
    /\ serverUp
    /\ serverUp' = FALSE
    /\ UNCHANGED <<inbox, outbox, backlog, link, clientVars>>

Init == NetInit /\ ClientInit

Next == TaskNext(me) \/ Deliver \/ ServerGone

Spec == Init /\ [][Next]_vars

\* The three loops that nobody types for run when they can.
LoopsSpec ==
    /\ Spec
    /\ WF_vars(RNext(me)) /\ WF_vars(HNext(me)) /\ WF_vars(KNext(me))

-----------------------------------------------------------------------------
\* The variables of the running client hold what the code can put in them;
\* in particular everything in flight is a well-formed message, and the two
\* channels hold at most their one token.
TypeOK == ClientsTyped

\* DhWakeup for the running client: R's write to dh_exchange_queue never
\* blocks and H is never woken in vain.
DhWakeupInv == DhWakeup(me)

\* HandshakeOwner for the running client: MyState read without the semaphore
\* is still what R acts on.
HandshakeOwnerInv == HandshakeOwner(me)

\* RequestMatches for the running client: the number sent is the one the
\* session key is derived from.
RequestMatchesInv == RequestMatches(me)

\* OpponentIsPeer for the running client: a session filed under a peer comes
\* from that peer's number.
OpponentIsPeerInv == OpponentIsPeer(me)

\* SessionEndToEnd for the running client: whatever arrives in whatever order,
\* GetSharedSecret files a key under the peer that holds its other half.
SessionEndToEndInv == SessionEndToEnd(me)

\* FreshNumbers for the running client: an exponent is used for one session.
FreshNumbersInv == FreshNumbers(me)

\* IdleHasServer for the running client: an enter notice handled when idle
\* never meets a missing server key.
IdleHasServerInv == IdleHasServer(me)

\* SenderKeySealed for the running client: whatever arrives between K's reads of
\* CurrentExchanger, the sender key leaves under a key shared with another client.
SenderKeySealedInv == SenderKeySealed(me)

\* LoopSenderAsync repeats its request until a reply comes: once
\* LoopRecieveAsync has noted a reply, the repetition ends.
ReplyEndsRepetition ==
    (status[me] = "up" /\ kpc[me] = "resend" /\ rstate[me] = "rcved_key")
        ~> (status[me] # "up" \/ kpc[me] # "resend")

-----------------------------------------------------------------------------
\* The inductive invariant: the conjunction that every step preserves.
IndInv == TypeOK /\ ClientInv(me)
=============================================================================
