--------------------------- MODULE MCServerAlone ---------------------------
(* Connections a, b and c: a and b were given the same nickname. *)
EXTENDS ServerAlone

CONSTANTS a, b, c

MCNick == [p \in {a, b, c} |-> IF p = c THEN "C" ELSE "A"]

N(p, i) == [by |-> p, n |-> i]

\* Handshakes with the server, a chat line, and one message for a single name.
MCOffered ==
    {BuildJson("dh", Nick[p], "server", N(p, 1)) : p \in Clients}
    \cup {BuildJson("message", "A", "group", a)}
    \cup {BuildJson("dh", "C", "A", N(c, 2))}
=============================================================================
