---------------------------- MODULE MCGroupChat ----------------------------
EXTENDS OrderlyInvariant

CONSTANTS a, b, c

\* A second process of the user of client a.
CONSTANT a2

MCNickAgain == [p \in {a, b, a2} |-> IF p = b THEN "B" ELSE "A"]

MCNick == [p \in {a, b, c} |-> CASE p = a -> "A" [] p = b -> "B" [] p = c -> "C"]

\* The first secret of client a and the server has its top bit set.
MCHigh == {{[by |-> a, n |-> 1], [by |-> "server", n |-> 1]}}

\* That of the process a2 and the server, when a2 is the second to join.
MCHighAgain == {{[by |-> a2, n |-> 1], [by |-> "server", n |-> 2]}}

\* Bound: the server answers one request more than there are clients, so one of
\* the requests for its session arrives twice.
OneRepeatAnswered == sdraws <= Cardinality(Clients) + 1
=============================================================================
