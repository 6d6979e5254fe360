--------------------------- MODULE ClientShutdown ---------------------------
(***************************************************************************)
(* How a client ends: the four loops with their semaphores, the two        *)
(* channels and the cancellation token, and ClientRunner.Run that waits    *)
(* for them.  What ChatClient takes as one step, a section under a         *)
(* semaphore, is here its WaitAsync, its try block and its Release; what   *)
(* the sections do to the keys is left out.  A wait given the token throws *)
(* once the token is cancelled; a wait not given it does not.              *)
(***************************************************************************)
EXTENDS Naturals, FiniteSets

Loops == {"R", "H", "K", "I"}
Sems  == {"state", "ratchet", "sock"}

\* The sections of each loop, by the semaphore they wait for.
Section ==
    [R |-> [begin |-> "state", answer |-> "state", key |-> "ratchet", leave |-> "ratchet"],
     H |-> [request |-> "state", respond |-> "state", done |-> "state",
            start_key |-> "ratchet", resend |-> "sock", reply |-> "sock"],
     K |-> [mark |-> "ratchet", finish |-> "ratchet", resend |-> "sock", answer |-> "sock"],
     I |-> [line |-> "sock"]]

\* Where a loop goes on after a section.
After ==
    [R |-> [begin |-> {"put_dh"}, answer |-> {"recv"}, key |-> {"put_key"}, leave |-> {"recv"}],
     H |-> [request |-> {"test"}, respond |-> {"reply"}, done |-> {"take", "start_key", "thrown"},
            start_key |-> {"put_key"}, resend |-> {"delay"}, reply |-> {"take"}],
     K |-> [mark |-> {"test"}, finish |-> {"take"}, resend |-> {"delay"}, answer |-> {"finish"}],
     I |-> [line |-> {"read"}]]

VARIABLES
    pc,            \* where each loop is; "ended" and "thrown" when it is over
    inside,        \* whether it is in the try block of its section
    count,         \* CurrentCount of each semaphore
    dhq, keyq,     \* whether the channel of capacity 1 is full
    hstate,        \* the handshake machine, which decides who waits for whom
    cancelled,     \* the token
    runner         \* "any": in WhenAny, "all": in WhenAll, then how Run ended

vars == <<pc, inside, count, dhq, keyq, hstate, cancelled, runner>>

Over(l) == pc[l] \in {"ended", "thrown"}

Goto(l, p) == pc' = [pc EXCEPT ![l] = p]

Init ==
    /\ pc = [R |-> "recv", H |-> "take", K |-> "take", I |-> "read"]
    /\ inside = [l \in Loops |-> FALSE]
    /\ count = [s \in Sems |-> 1]
    /\ dhq = TRUE /\ keyq = FALSE          \* Init has queued the first request
    /\ hstate = "send_dh"
    /\ cancelled = FALSE /\ runner = "any"

-----------------------------------------------------------------------------
(* Sections *)

Waiting(l) == pc[l] \in DOMAIN Section[l] /\ ~inside[l]

Enter(l) ==
    /\ Waiting(l) /\ ~cancelled
    /\ LET s == Section[l][pc[l]]
       IN  count[s] > 0 /\ count' = [count EXCEPT ![s] = @ - 1]
    /\ inside' = [inside EXCEPT ![l] = TRUE]
    /\ UNCHANGED <<pc, dhq, keyq, hstate, cancelled, runner>>

\* finally { Release(); }
Release(l) ==
    /\ count' = [count EXCEPT ![Section[l][pc[l]]] = @ + 1]
    /\ inside' = [inside EXCEPT ![l] = FALSE]

\* What the section does to the handshake machine.
Moved(l) ==
    CASE l = "R" /\ pc[l] = "begin"               -> "send_dh"
      [] l = "R" /\ pc[l] = "answer"              -> "rcved_dh"
      [] l = "H" /\ pc[l] = "request"             -> "waiting_for_rcv_dh"
      [] l = "H" /\ pc[l] \in {"respond", "done"} -> "idle"
      [] OTHER                                    -> hstate

Leave(l) ==
    /\ inside[l]
    /\ Release(l)
    /\ hstate' = Moved(l)
    /\ \E p \in After[l][pc[l]] : Goto(l, p)
    /\ UNCHANGED <<dhq, keyq, cancelled, runner>>

\* AddData, SetOpponentSenderKey and SendAsync may throw in the try block.
ThrowInside(l) ==
    /\ inside[l]
    /\ Release(l)
    /\ Goto(l, "thrown")
    /\ UNCHANGED <<dhq, keyq, hstate, cancelled, runner>>

-----------------------------------------------------------------------------
(* Between the sections *)

\* One message: shown or ignored, or the section of its type.
Receive ==
    /\ pc["R"] = "recv" /\ ~cancelled
    /\ \/ Goto("R", "recv") \/ Goto("R", "key") \/ Goto("R", "leave") \/ Goto("R", "thrown")
       \/ hstate = "idle" /\ Goto("R", "begin")
       \/ hstate = "waiting_for_rcv_dh" /\ Goto("R", "answer")
    /\ UNCHANGED <<inside, count, dhq, keyq, hstate, cancelled, runner>>

\* WriteAsync without the token.
PutDh ==
    /\ pc["R"] = "put_dh" /\ ~dhq
    /\ dhq' = TRUE
    /\ Goto("R", "recv")
    /\ UNCHANGED <<inside, count, keyq, hstate, cancelled, runner>>

PutKey(l) ==
    /\ pc[l] = "put_key" /\ ~keyq
    /\ keyq' = TRUE
    /\ Goto(l, IF l = "R" THEN "recv" ELSE "take")
    /\ UNCHANGED <<inside, count, dhq, hstate, cancelled, runner>>

TakeDh ==
    /\ pc["H"] = "take" /\ dhq /\ ~cancelled
    /\ dhq' = FALSE
    /\ Goto("H", "request") \/ Goto("H", "respond")
    /\ UNCHANGED <<inside, count, keyq, hstate, cancelled, runner>>

\* The ratchet is not in send_key, or K reads the key it will send.
TakeKey ==
    /\ pc["K"] = "take" /\ keyq /\ ~cancelled
    /\ keyq' = FALSE
    /\ \E p \in {"take", "mark", "answer", "thrown"} : Goto("K", p)
    /\ UNCHANGED <<inside, count, dhq, hstate, cancelled, runner>>

Delay(l) ==
    /\ pc[l] = "delay" /\ ~cancelled
    /\ Goto(l, "test")
    /\ UNCHANGED <<inside, count, dhq, keyq, hstate, cancelled, runner>>

\* The test of the resend loop.
Test(l) ==
    /\ pc[l] = "test"
    /\ \/ l = "H" /\ Goto(l, IF hstate = "rcved_dh" THEN "done" ELSE "resend")
       \/ l = "K" /\ (Goto(l, "finish") \/ Goto(l, "resend"))
    /\ UNCHANGED <<inside, count, dhq, keyq, hstate, cancelled, runner>>

\* Console.ReadLine knows nothing of the token.
ReadLine ==
    /\ pc["I"] = "read"
    /\ \/ Goto("I", "line")
       \/ Goto("I", "ended")          \* /quit, or the loop's test after cancellation
    /\ UNCHANGED <<inside, count, dhq, keyq, hstate, cancelled, runner>>

\* Mutant: ReadAsync of the channels is not given the token.
TokenAtSome(l) == Waiting(l) \/ pc[l] \in {"recv", "delay"}

\* The waits that are given the token.
TokenAt(l) == Waiting(l) \/ pc[l] \in {"recv", "take", "delay"}

\* Mutant: WaitAsync is inside the try block, so finally releases as well.
AbortReleases(l) ==
    /\ cancelled /\ TokenAt(l)
    /\ IF Waiting(l) THEN Release(l) ELSE UNCHANGED <<inside, count>>
    /\ Goto(l, "thrown")
    /\ UNCHANGED <<dhq, keyq, hstate, cancelled, runner>>

\* The wait throws; at the head of a loop the loop's test may see the token
\* first.  Nothing is released: WaitAsync stands before the try block.
Abort(l) ==
    /\ cancelled /\ TokenAt(l)
    /\ Goto(l, "thrown") \/ (pc[l] \in {"recv", "take"} /\ Goto(l, "ended"))
    /\ UNCHANGED <<inside, count, dhq, keyq, hstate, cancelled, runner>>

\* The section is under sock_semaphore: the one call in it is a SendAsync
\* without the token, which may wait for room in the connection.
Sending(l) == inside[l] /\ Section[l][pc[l]] = "sock"

\* SendAsync returns or throws.  Nothing in the client sees to that: it is the
\* server that has to read.
SendReturns(l) == Sending(l) /\ (Leave(l) \/ ThrowInside(l))

LoopStep(l) ==
    \/ Enter(l) \/ (~Sending(l) /\ (Leave(l) \/ ThrowInside(l))) \/ Abort(l)
    \/ l = "R" /\ (Receive \/ PutDh \/ PutKey(l))
    \/ l = "H" /\ (TakeDh \/ PutKey(l) \/ Delay(l) \/ Test(l))
    \/ l = "K" /\ (TakeKey \/ Delay(l) \/ Test(l))
    \/ l = "I" /\ ReadLine

LoopNext(l) == LoopStep(l) \/ SendReturns(l)

-----------------------------------------------------------------------------
(* ClientRunner.Run *)

\* WhenAny returns, Cancel.
Cancel ==
    /\ runner = "any" /\ \E l \in Loops : Over(l)
    /\ cancelled' = TRUE /\ runner' = "all"
    /\ UNCHANGED <<pc, inside, count, dhq, keyq, hstate>>

\* WhenAll returns: CloseSockAsync is reached only if no loop threw.
Finish ==
    /\ runner = "all" /\ \A l \in Loops : Over(l)
    /\ runner' = IF \E l \in Loops : pc[l] = "thrown" THEN "rethrown" ELSE "closed"
    /\ UNCHANGED <<pc, inside, count, dhq, keyq, hstate, cancelled>>

RunnerNext == Cancel \/ Finish

Next == RunnerNext \/ \E l \in Loops : LoopNext(l)

\* The thread pool runs R, H, K and Run; nobody has to type, and a SendAsync
\* that waits for room need not return.
Spec ==
    /\ Init /\ [][Next]_vars
    /\ WF_vars(RunnerNext)
    /\ WF_vars(LoopStep("R")) /\ WF_vars(LoopStep("H")) /\ WF_vars(LoopStep("K"))

-----------------------------------------------------------------------------
\* Exceptions and cancellation, at whatever point they strike, neither leak a
\* semaphore nor release one that was not taken: every permit is with the
\* semaphore or with the one loop inside its section.
SemaphoresBalanced ==
    \A s \in Sems :
        count[s] + Cardinality({l \in Loops : inside[l] /\ Section[l][pc[l]] = s}) = 1

\* After Cancel the loops R, H and K come to an end and stay there, each by
\* itself; only two waits can keep one for ever, the two that are not given the
\* token: for room in key_exchange_queue, whose reader is gone, and for room in
\* the connection, in SendAsync.  No semaphore keeps one, also not the one that
\* a loop in SendAsync never releases, nor the channel of the handshake.
LoopsEnd ==
    \A l \in {"R", "H", "K"} :
        cancelled ~> [](Over(l) \/ (pc[l] = "put_key" /\ keyq) \/ Sending(l))
=============================================================================
