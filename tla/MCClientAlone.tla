--------------------------- MODULE MCClientAlone ---------------------------
(* Client A among the names of two others, B and C. *)
EXTENDS ClientAlone

CONSTANTS a, b, c

MCNick == [p \in {a, b, c} |-> CASE p = a -> "A" [] p = b -> "B" [] p = c -> "C"]

N(p, i) == [by |-> p, n |-> i]

\* The session key of client a's i-th number with p's first.
K(i, p) == ClientKey({N(a, i), N(p, 1)})

\* Two answers of the server (it may be asked twice), requests or answers of B
\* and C, their sender keys under the session keys A can have with them, and
\* the notices and chat lines that name them.
MCOffered ==
    {BuildJson("dh", "server", "A", N("server", i)) : i \in 1..2}
    \cup {BuildJson("dh", "B", "A", N(b, 1)), BuildJson("dh", "C", "A", N(c, 1))}
    \cup {BuildJson("sender_key", "B", "A", [key |-> K(i, b), val |-> b]) : i \in 2..3}
    \cup {BuildJson("sender_key", "C", "A", [key |-> K(3, c), val |-> c])}
    \cup {BuildJson("enter", "server", "A", [key |-> K(1, "server"), name |-> n]) :
             n \in {"B", "C"}}
    \cup {BuildJson("leave", "server", "A", [key |-> K(1, "server"), name |-> "B"])}
    \cup {BuildJson("message", "B", "group", b)}

\* Of these, what an exchange of sender keys with B needs while a session with
\* C is made.
MCExchange ==
    {m \in MCOffered : \/ m.type = "dh" /\ m.body # N("server", 2)
                       \/ m.type = "enter"
                       \/ m.type = "sender_key" /\ m.body.key = K(2, b)}
=============================================================================
