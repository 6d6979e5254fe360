------------------------ MODULE ClientShutdownProofs ------------------------
(***************************************************************************)
(* Proof that the end of a client neither loses nor invents a permit of a  *)
(* semaphore, whichever loops throw and whenever the token is cancelled.   *)
(***************************************************************************)
EXTENDS ClientShutdown, FiniteSetTheorems, TLAPS

\* Loop l is in a section of semaphore s.
Holds(l, s) == inside[l] /\ Section[l][pc[l]] = s

\* The places of the loops: between the sections, and the sections.
Outside == {"recv", "take", "read", "delay", "test", "put_dh", "put_key", "ended", "thrown"}
Places  == Outside \cup {"begin", "answer", "key", "leave", "request", "respond", "done",
                         "start_key", "resend", "reply", "mark", "finish", "line"}

LoopsTyped ==
    /\ pc \in [Loops -> Places]
    /\ inside \in [Loops -> BOOLEAN]
    /\ count \in [Sems -> {0, 1}]

\* Only a loop that stands at a section can be inside it.
InsideSection == \A l \in Loops : inside[l] => pc[l] \in DOMAIN Section[l]

\* A permit is with its semaphore, or one loop has it.
OneHolder ==
    \A s \in Sems :
        \/ count[s] = 1 /\ \A l \in Loops : ~Holds(l, s)
        \/ /\ count[s] = 0
           /\ \E l \in Loops : Holds(l, s) /\ \A k \in Loops : Holds(k, s) => k = l

IndInv == LoopsTyped /\ InsideSection /\ OneHolder

-----------------------------------------------------------------------------
(* Facts about the tables *)

\* Every section is under one of the semaphores.
LEMMA SectionFacts ==
    ASSUME NEW l \in Loops, NEW p \in DOMAIN Section[l]
    PROVE  Section[l][p] \in Sems
<1>1. CASE l = "R"  BY <1>1 DEF Section, Sems
<1>2. CASE l = "H"  BY <1>2 DEF Section, Sems
<1>3. CASE l = "K"  BY <1>3 DEF Section, Sems
<1>4. CASE l = "I"  BY <1>4 DEF Section, Sems
<1> QED  BY <1>1, <1>2, <1>3, <1>4 DEF Loops

\* What is between the sections is none.
LEMMA OutsideFacts ==
    ASSUME NEW l \in Loops, NEW p \in Outside
    PROVE  p \notin DOMAIN Section[l]
<1>1. CASE l = "R"  BY <1>1 DEF Section, Outside
<1>2. CASE l = "H"  BY <1>2 DEF Section, Outside
<1>3. CASE l = "K"  BY <1>3 DEF Section, Outside
<1>4. CASE l = "I"  BY <1>4 DEF Section, Outside
<1> QED  BY <1>1, <1>2, <1>3, <1>4 DEF Loops

\* Where a loop may go on is a place of the code.
LEMMA AfterFacts ==
    ASSUME NEW l \in Loops, NEW p \in DOMAIN Section[l]
    PROVE  After[l][p] \subseteq Places
<1>1. CASE l = "R"  BY <1>1 DEF Section, After, Places, Outside
<1>2. CASE l = "H"  BY <1>2 DEF Section, After, Places, Outside
<1>3. CASE l = "K"  BY <1>3 DEF Section, After, Places, Outside
<1>4. CASE l = "I"  BY <1>4 DEF Section, After, Places, Outside
<1> QED  BY <1>1, <1>2, <1>3, <1>4 DEF Loops

-----------------------------------------------------------------------------
(* The steps, by what they do to the permits *)

LEMMA InitInv == Init => IndInv
  BY OutsideFacts
  DEF Init, IndInv, LoopsTyped, InsideSection, OneHolder, Holds, Loops, Sems, Places, Outside

LEMMA EnterKeeps ==
    ASSUME IndInv, NEW l \in Loops, Enter(l)
    PROVE  IndInv'
<1> DEFINE s == Section[l][pc[l]]
<1>1. pc[l] \in DOMAIN Section[l] /\ ~inside[l]  BY DEF Enter, Waiting
<1>2. s \in Sems  BY <1>1, SectionFacts
<1>3. /\ count[s] > 0 /\ count' = [count EXCEPT ![s] = @ - 1]
      /\ inside' = [inside EXCEPT ![l] = TRUE] /\ pc' = pc
  BY DEF Enter
<1>4. LoopsTyped'
  BY <1>2, <1>3 DEF IndInv, LoopsTyped
<1>5. InsideSection'
  BY <1>1, <1>3 DEF IndInv, LoopsTyped, InsideSection
<1>6. \A k \in Loops, r \in Sems : Holds(k, r)' <=> Holds(k, r) \/ (k = l /\ r = s)
  BY <1>1, <1>3 DEF IndInv, LoopsTyped, Holds
<1>7. OneHolder'
  <2> HIDE DEF s
  <2> SUFFICES ASSUME NEW r \in Sems
               PROVE  \/ count'[r] = 1 /\ \A k \in Loops : ~Holds(k, r)'
                      \/ /\ count'[r] = 0
                         /\ \E k \in Loops :
                               Holds(k, r)' /\ \A j \in Loops : Holds(j, r)' => j = k
    BY DEF OneHolder
  <2>1. CASE r = s
    BY <1>2, <1>3, <1>6, <2>1 DEF IndInv, LoopsTyped, OneHolder
  <2>2. CASE r # s
    BY <1>2, <1>3, <1>6, <2>2 DEF IndInv, LoopsTyped, OneHolder
  <2> QED  BY <2>1, <2>2
<1> QED  BY <1>4, <1>5, <1>7 DEF IndInv

\* Leaving a section, by its end or by an exception.
LEMMA ReleaseKeeps ==
    ASSUME IndInv, NEW l \in Loops, inside[l], Release(l), NEW p \in Places, Goto(l, p)
    PROVE  IndInv'
<1> DEFINE s == Section[l][pc[l]]
<1>1. pc[l] \in DOMAIN Section[l]  BY DEF IndInv, InsideSection
<1>2. s \in Sems  BY <1>1, SectionFacts
<1>3. /\ count' = [count EXCEPT ![s] = @ + 1]
      /\ inside' = [inside EXCEPT ![l] = FALSE]
      /\ pc' = [pc EXCEPT ![l] = p]
  BY DEF Release, Goto
<1>4. Holds(l, s)  BY DEF Holds
<1>5. count[s] = 0 /\ \A k \in Loops : Holds(k, s) => k = l
  BY <1>2, <1>4 DEF IndInv, LoopsTyped, OneHolder
<1>6. LoopsTyped'
  BY <1>2, <1>3, <1>5 DEF IndInv, LoopsTyped
<1>7. InsideSection'
  BY <1>3 DEF IndInv, LoopsTyped, InsideSection
<1>8. \A k \in Loops, r \in Sems : Holds(k, r)' <=> Holds(k, r) /\ k # l
  BY <1>3 DEF IndInv, LoopsTyped, Holds
<1>9. \A r \in Sems : r # s => ~Holds(l, r)
  BY DEF Holds
<1>10. OneHolder'
  <2> HIDE DEF s
  <2> SUFFICES ASSUME NEW r \in Sems
               PROVE  \/ count'[r] = 1 /\ \A k \in Loops : ~Holds(k, r)'
                      \/ /\ count'[r] = 0
                         /\ \E k \in Loops :
                               Holds(k, r)' /\ \A j \in Loops : Holds(j, r)' => j = k
    BY DEF OneHolder
  <2>1. CASE r = s
    BY <1>2, <1>3, <1>5, <1>8, <2>1 DEF IndInv, LoopsTyped
  <2>2. CASE r # s
    <3>1. count'[r] = count[r]  BY <1>2, <1>3, <2>2 DEF IndInv, LoopsTyped
    <3>2. \A k \in Loops : Holds(k, r)' <=> Holds(k, r)  BY <1>8, <1>9, <2>2
    <3> QED  BY <3>1, <3>2 DEF IndInv, OneHolder
  <2> QED  BY <2>1, <2>2
<1> QED  BY <1>6, <1>7, <1>10 DEF IndInv

\* A loop that is in no section moves on.
LEMMA MoveKeeps ==
    ASSUME IndInv, NEW l \in Loops, ~inside[l], NEW p \in Places, Goto(l, p),
           UNCHANGED <<inside, count>>
    PROVE  IndInv'
<1>1. LoopsTyped'  BY DEF IndInv, LoopsTyped, Goto
<1>2. InsideSection'  BY DEF IndInv, LoopsTyped, InsideSection, Goto
<1>3. \A k \in Loops, r \in Sems : Holds(k, r)' <=> Holds(k, r)
  BY DEF IndInv, LoopsTyped, Holds, Goto
<1>4. OneHolder'  BY <1>3 DEF IndInv, OneHolder
<1> QED  BY <1>1, <1>2, <1>4 DEF IndInv

\* Neither the runner nor a stuttering step moves a loop or a permit.
LEMMA IdleKeeps ==
    ASSUME IndInv, UNCHANGED <<pc, inside, count>>
    PROVE  IndInv'
  BY DEF IndInv, LoopsTyped, InsideSection, OneHolder, Holds

\* A loop that is between two sections is inside none.
LEMMA BetweenSections ==
    ASSUME IndInv, NEW l \in Loops, pc[l] \in Outside
    PROVE  ~inside[l]
  BY OutsideFacts DEF IndInv, InsideSection

LEMMA LoopKeeps ==
    ASSUME IndInv, NEW l \in Loops, LoopNext(l)
    PROVE  IndInv'
<1>1. CASE Enter(l)  BY <1>1, EnterKeeps
<1>2. CASE Leave(l)
  <2>1. pc[l] \in DOMAIN Section[l]  BY <1>2 DEF Leave, IndInv, InsideSection
  <2>2. PICK p \in After[l][pc[l]] : Goto(l, p)  BY <1>2 DEF Leave
  <2>3. p \in Places  BY <2>1, AfterFacts
  <2> QED  BY <1>2, <2>2, <2>3, ReleaseKeeps DEF Leave
<1>3. CASE ThrowInside(l)
  <2>1. inside[l] /\ Release(l) /\ Goto(l, "thrown")  BY <1>3 DEF ThrowInside
  <2>2. "thrown" \in Places  BY DEF Places, Outside
  <2> QED  BY <2>1, <2>2, ReleaseKeeps
<1>4. CASE Abort(l)
  <2>1. ~inside[l]
    BY <1>4, BetweenSections DEF Abort, TokenAt, Waiting, Outside
  <2>2. PICK p \in Places : Goto(l, p)  BY <1>4 DEF Abort, Places, Outside
  <2>3. UNCHANGED <<inside, count>>  BY <1>4 DEF Abort
  <2> QED  BY <2>1, <2>2, <2>3, MoveKeeps
<1>5. CASE l = "R" /\ (Receive \/ PutDh \/ PutKey(l))
  <2>1. pc[l] \in Outside  BY <1>5 DEF Receive, PutDh, PutKey, Outside
  <2>2. PICK p \in Places : Goto(l, p)  BY <1>5 DEF Receive, PutDh, PutKey, Places, Outside
  <2>3. UNCHANGED <<inside, count>>  BY <1>5 DEF Receive, PutDh, PutKey
  <2> QED  BY <2>1, <2>2, <2>3, BetweenSections, MoveKeeps
<1>6. CASE l = "H" /\ (TakeDh \/ PutKey(l) \/ Delay(l) \/ Test(l))
  <2>1. pc[l] \in Outside  BY <1>6 DEF TakeDh, PutKey, Delay, Test, Outside
  <2>2. PICK p \in Places : Goto(l, p)  BY <1>6 DEF TakeDh, PutKey, Delay, Test, Places, Outside
  <2>3. UNCHANGED <<inside, count>>  BY <1>6 DEF TakeDh, PutKey, Delay, Test
  <2> QED  BY <2>1, <2>2, <2>3, BetweenSections, MoveKeeps
<1>7. CASE l = "K" /\ (TakeKey \/ Delay(l) \/ Test(l))
  <2>1. pc[l] \in Outside  BY <1>7 DEF TakeKey, Delay, Test, Outside
  <2>2. PICK p \in Places : Goto(l, p)  BY <1>7 DEF TakeKey, Delay, Test, Places, Outside
  <2>3. UNCHANGED <<inside, count>>  BY <1>7 DEF TakeKey, Delay, Test
  <2> QED  BY <2>1, <2>2, <2>3, BetweenSections, MoveKeeps
<1>8. CASE l = "I" /\ ReadLine
  <2>1. pc[l] \in Outside  BY <1>8 DEF ReadLine, Outside
  <2>2. PICK p \in Places : Goto(l, p)  BY <1>8 DEF ReadLine, Places, Outside
  <2>3. UNCHANGED <<inside, count>>  BY <1>8 DEF ReadLine
  <2> QED  BY <2>1, <2>2, <2>3, BetweenSections, MoveKeeps
<1> QED  BY <1>1, <1>2, <1>3, <1>4, <1>5, <1>6, <1>7, <1>8 DEF LoopNext, LoopStep, SendReturns

\* The count of OneHolder is that of SemaphoresBalanced.
LEMMA HolderCounts == IndInv => SemaphoresBalanced
<1> SUFFICES ASSUME IndInv, NEW s \in Sems
             PROVE  count[s] + Cardinality({l \in Loops : Holds(l, s)}) = 1
  BY DEF SemaphoresBalanced, Holds
<1> DEFINE H == {l \in Loops : Holds(l, s)}
<1>1. CASE count[s] = 1 /\ \A l \in Loops : ~Holds(l, s)
  <2>1. H = {}  BY <1>1
  <2> QED  BY <1>1, <2>1, FS_EmptySet
<1>2. CASE /\ count[s] = 0
           /\ \E l \in Loops : Holds(l, s) /\ \A k \in Loops : Holds(k, s) => k = l
  <2>1. PICK l : H = {l}  BY <1>2
  <2> HIDE DEF H
  <2>2. Cardinality(H) = 1  BY <2>1, FS_Singleton
  <2> QED  BY <1>2, <2>2 DEF H
<1> QED  BY <1>1, <1>2 DEF IndInv, OneHolder

\* Whatever throws in a section, whatever wait the cancellation strikes and in
\* whatever order the loops come and go, every permit of state_semaphore,
\* ratchet_semaphore and sock_semaphore is with the semaphore or with one loop.
THEOREM PermitsKept == Spec => []SemaphoresBalanced
<1>1. IndInv /\ [Next]_vars => IndInv'
  <2> SUFFICES ASSUME IndInv, [Next]_vars PROVE IndInv'
    OBVIOUS
  <2>1. CASE RunnerNext
    BY <2>1, IdleKeeps DEF RunnerNext, Cancel, Finish
  <2>2. CASE \E l \in Loops : LoopNext(l)
    BY <2>2, LoopKeeps
  <2>3. CASE UNCHANGED vars
    BY <2>3, IdleKeeps DEF vars
  <2> QED  BY <2>1, <2>2, <2>3 DEF Next
<1> QED  BY InitInv, <1>1, HolderCounts, PTL DEF Spec
=============================================================================
