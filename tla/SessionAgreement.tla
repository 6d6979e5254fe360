-------------------------- MODULE SessionAgreement --------------------------
(***************************************************************************)
(* What a handshake between two clients promises: each end gets a key for  *)
(* the other, the second end gets the key the first one has, nobody else   *)
(* has it, and neither end gives its key up or gets another one before the *)
(* other has left.                                                         *)
(***************************************************************************)
CONSTANTS Parties,
          None       \* no session

VARIABLES held,      \* held[c][d]: the key party c has for its session with d
          left       \* the parties that have left; nobody comes back

vars == <<held, left>>

Nothing == [d \in Parties |-> None]

Init == held = [c \in Parties |-> Nothing] /\ left = {}

\* No party has this key for a session other than that of c and d.
Exclusive(k, c, d) ==
    \A x, y \in Parties : held[x][y] = k => {x, y} = {c, d}

Obtain(c, d) ==
    /\ c \notin left /\ c # d
    /\ held[c][d] = None
    /\ \E k \in {held'[c][d]} :
          /\ k # None
          /\ held[d][c] \in {None, k}
          /\ Exclusive(k, c, d)
          /\ held' = [held EXCEPT ![c][d] = k]
    /\ UNCHANGED left

\* A party ends, and its keys with it.
Leave(c) ==
    /\ c \notin left
    /\ left' = left \cup {c}
    /\ held' = [held EXCEPT ![c] = Nothing]

\* Sessions with peers that have left are dropped.
Forget(c, gone) ==
    /\ gone \subseteq left
    /\ held' = [held EXCEPT ![c] = [d \in Parties |-> IF d \in gone THEN None ELSE @[d]]]
    /\ UNCHANGED left

Next ==
    \E c \in Parties :
        \/ \E d \in Parties : Obtain(c, d)
        \/ Leave(c)
        \/ \E gone \in SUBSET Parties : Forget(c, gone)

Spec == Init /\ [][Next]_vars
=============================================================================
