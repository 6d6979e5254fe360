----------------------------- MODULE DataFacts -----------------------------
(***************************************************************************)
(* Facts about numbers and sequences that the proofs share.  Induction and *)
(* recursion over the natural numbers are stated with sets and functions   *)
(* in place of operator parameters, so that a proof can use them by giving *)
(* a value: the set of the numbers for which a statement holds, the        *)
(* function that makes one value from the one before.  From them follows   *)
(* what FlattenSeq of the community modules computes, with which the lists *)
(* of writes and packets of the models are built.                          *)
(***************************************************************************)
EXTENDS Naturals, WellFoundedInduction, SequencesExt, TLAPS

\* A set that has 0 and, with every number, the next, has all numbers.
LEMMA SetInduction ==
    ASSUME NEW G, 0 \in G, \A n \in Nat : n \in G => n + 1 \in G
    PROVE  \A n \in Nat : n \in G
<1> DEFINE R == OpToRel(<, Nat)
           T == Nat \ G
<1>1. \A x, y \in Nat : y < x => <<y, x>> \in R
  BY DEF OpToRel
<1>2. IsWellFoundedOn(R, Nat)
  BY NatLessThanWellFounded, Zenon
<1> HIDE DEF R
<1>3. SUFFICES ASSUME T # {} PROVE FALSE
  OBVIOUS
<1>4. T \subseteq Nat
  OBVIOUS
<1>5. PICK x \in T : \A y \in T : <<y, x>> \notin R
  <2> HIDE DEF T
  <2> QED  BY <1>2, <1>3, <1>4, WFMin
<1>6. x \in Nat /\ x # 0 /\ x - 1 \in Nat /\ x - 1 < x
  OBVIOUS
<1>7. x - 1 \in G
  BY <1>1, <1>5, <1>6
<1> QED  BY <1>6, <1>7

-----------------------------------------------------------------------------
\* step makes an element of S from each, at every position.
Steps(S, step) == \A i \in Nat \ {0}, v \in S : step[<<i, v>>] \in S

\* f starts with base and goes on by step, as far as n.
Iterates(f, n, base, step) ==
    f[0] = base /\ \A i \in 1..n : f[i] = step[<<i, f[i - 1]>>]

\* There is such a function ...
LEMMA FiniteRecursion ==
    ASSUME NEW S, NEW base \in S, NEW step,
           Steps(S, step)
    PROVE  \A n \in Nat : \E f \in [0..n -> S] : Iterates(f, n, base, step)
<1> DEFINE G == {n \in Nat : \E f \in [0..n -> S] : Iterates(f, n, base, step)}
<1>1. 0 \in G
  <2>1. [i \in 0..0 |-> base] \in [0..0 -> S]  OBVIOUS
  <2>2. Iterates([i \in 0..0 |-> base], 0, base, step)  BY DEF Iterates
  <2> QED  BY <2>1, <2>2
<1>2. ASSUME NEW n \in Nat, n \in G PROVE n + 1 \in G
  <2>1. PICK f \in [0..n -> S] : Iterates(f, n, base, step)  BY <1>2
  <2> DEFINE g == [i \in 0..n + 1 |->
                      IF i = n + 1 THEN step[<<n + 1, f[n]>>] ELSE f[i]]
  <2>2. g \in [0..n + 1 -> S]
    <3>1. step[<<n + 1, f[n]>>] \in S  BY DEF Steps
    <3> QED  BY <3>1
  <2>3. Iterates(g, n + 1, base, step)
    <3>1. g[0] = base  BY <2>1 DEF Iterates
    <3>2. ASSUME NEW i \in 1..n + 1 PROVE g[i] = step[<<i, g[i - 1]>>]
      <4>1. g[i - 1] = f[i - 1]  OBVIOUS
      <4>2. CASE i = n + 1
        <5>1. g[i] = step[<<n + 1, f[n]>>] /\ i - 1 = n  BY <4>2
        <5> HIDE DEF g
        <5> QED  BY <4>1, <4>2, <5>1
      <4>3. CASE i # n + 1
        <5>1. i \in 1..n  BY <4>3
        <5>2. g[i] = f[i]  BY <5>1
        <5>3. f[i] = step[<<i, f[i - 1]>>]  BY <2>1, <5>1 DEF Iterates
        <5> QED  BY <4>1, <5>2, <5>3
      <4> QED  BY <4>2, <4>3
    <3> QED  BY <3>1, <3>2 DEF Iterates
  <2> HIDE DEF g
  <2> QED  BY <2>2, <2>3
<1> HIDE DEF G
<1>3. \A n \in Nat : n \in G  BY <1>1, <1>2, SetInduction
<1> QED  BY <1>3 DEF G

\* ... and two of them agree as far as both go.
LEMMA IteratesUnique ==
    ASSUME NEW base, NEW step, NEW n \in Nat, NEW m \in Nat, NEW f, NEW g,
           Iterates(f, n, base, step), Iterates(g, m, base, step)
    PROVE  \A i \in Nat : i <= n /\ i <= m => f[i] = g[i]
<1> DEFINE G == {i \in Nat : i <= n /\ i <= m => f[i] = g[i]}
<1>1. 0 \in G  BY DEF Iterates
<1>2. ASSUME NEW i \in Nat, i \in G PROVE i + 1 \in G
  <2> SUFFICES ASSUME i + 1 <= n, i + 1 <= m PROVE f[i + 1] = g[i + 1]
    OBVIOUS
  <2>1. f[i] = g[i]  BY <1>2
  <2>2. i + 1 \in 1..n /\ i + 1 \in 1..m /\ (i + 1) - 1 = i  OBVIOUS
  <2>3. f[i + 1] = step[<<i + 1, f[i]>>] /\ g[i + 1] = step[<<i + 1, g[i]>>]
    BY <2>2 DEF Iterates
  <2> QED  BY <2>1, <2>3
<1> HIDE DEF G
<1>3. \A i \in Nat : i \in G  BY <1>1, <1>2, SetInduction
<1> QED  BY <1>3 DEF G

Recurs(f, base, step) ==
    f[0] = base /\ \A i \in Nat \ {0} : f[i] = step[<<i, f[i - 1]>>]

\* The same for all numbers: what a recursive function over Nat needs to exist.
LEMMA NatRecursion ==
    ASSUME NEW S, NEW base \in S, NEW step,
           Steps(S, step)
    PROVE  \E f \in [Nat -> S] : Recurs(f, base, step)
<1> DEFINE It(n) == CHOOSE f \in [0..n -> S] : Iterates(f, n, base, step)
           f == [n \in Nat |-> It(n)[n]]
<1>1. \A n \in Nat : It(n) \in [0..n -> S] /\ Iterates(It(n), n, base, step)
  <2> TAKE n \in Nat
  <2>1. \E g \in [0..n -> S] : Iterates(g, n, base, step)  BY FiniteRecursion
  <2> QED  BY <2>1
<1> HIDE DEF It
<1>2. f \in [Nat -> S]  BY <1>1
<1>3. f[0] = base  BY <1>1 DEF Iterates
<1>4. ASSUME NEW i \in Nat \ {0} PROVE f[i] = step[<<i, f[i - 1]>>]
  <2>1. Iterates(It(i), i, base, step) /\ Iterates(It(i - 1), i - 1, base, step)
    BY <1>1
  <2>2. i - 1 \in Nat /\ i - 1 <= i /\ i - 1 <= i - 1 /\ i \in 1..i  OBVIOUS
  <2>3. It(i)[i - 1] = It(i - 1)[i - 1]  BY <2>1, <2>2, IteratesUnique
  <2>4. It(i)[i] = step[<<i, It(i)[i - 1]>>]  BY <2>1, <2>2 DEF Iterates
  <2> QED  BY <2>2, <2>3, <2>4
<1>5. Recurs(f, base, step)  BY <1>3, <1>4 DEF Recurs
<1> HIDE DEF f
<1> QED  BY <1>2, <1>5
-----------------------------------------------------------------------------
(* FlattenSeq *)

\* The sequence s is made of elements of the pieces up to the m-th, and is not
\* empty when one of these is not.
MadeOf(s, pieces, m) ==
    /\ \A i \in 1..Len(s) :
          \E j \in 1..m : \E k \in 1..Len(pieces[j]) : s[i] = pieces[j][k]
    /\ \A j \in 1..m : pieces[j] # <<>> => s # <<>>

\* Appending the next piece keeps that.
LEMMA MadeOfNext ==
    ASSUME NEW S, NEW pieces \in Seq(Seq(S)), NEW m \in Nat \ {0},
           m + 1 \in 1..Len(pieces), NEW s \in Seq(S), MadeOf(s, pieces, m)
    PROVE  MadeOf(s \o pieces[m + 1], pieces, m + 1)
<1> DEFINE p == pieces[m + 1]
           t == s \o p
<1>1. p \in Seq(S)  OBVIOUS
<1> HIDE DEF p
<1>2. /\ Len(t) = Len(s) + Len(p) /\ Len(s) \in Nat /\ Len(p) \in Nat
      /\ \A i \in 1..Len(s) : t[i] = s[i]
      /\ \A i \in 1..Len(p) : t[Len(s) + i] = p[i]
  BY <1>1
<1>3. ASSUME NEW i \in 1..Len(t)
      PROVE  \E j \in 1..m + 1 : \E k \in 1..Len(pieces[j]) : t[i] = pieces[j][k]
  <2>1. CASE i <= Len(s)
    <3>1. i \in 1..Len(s) /\ t[i] = s[i]  BY <1>2, <2>1
    <3>2. PICK j \in 1..m : \E k \in 1..Len(pieces[j]) : s[i] = pieces[j][k]
      BY <3>1 DEF MadeOf
    <3>3. j \in 1..m + 1  OBVIOUS
    <3> QED  BY <3>1, <3>2, <3>3
  <2>2. CASE ~(i <= Len(s))
    <3>1. i - Len(s) \in 1..Len(p) /\ i = Len(s) + (i - Len(s))  BY <1>2, <2>2
    <3>2. t[i] = p[i - Len(s)]  BY <1>2, <3>1
    <3>3. m + 1 \in 1..m + 1  OBVIOUS
    <3> QED  BY <3>1, <3>2, <3>3 DEF p
  <2> QED  BY <2>1, <2>2
<1>4. ASSUME NEW j \in 1..m + 1, pieces[j] # <<>> PROVE t # <<>>
  <2>1. Len(s) # 0 \/ Len(p) # 0
    <3>1. CASE j = m + 1  BY <1>1, <1>4, <3>1 DEF p
    <3>2. CASE j # m + 1
      <4>1. j \in 1..m  BY <3>2
      <4> QED  BY <1>4, <4>1 DEF MadeOf
    <3> QED  BY <3>1, <3>2
  <2> QED  BY <1>2, <2>1
<1> QED  BY <1>3, <1>4 DEF MadeOf, p

\* f[i] is what the first i pieces are when put one after the other.
Runs(f, pieces) ==
    /\ f[1] = pieces[1]
    /\ \A i \in 1..Len(pieces) : i # 1 => f[i] = f[i - 1] \o pieces[i]

\* The recursive function in FlattenSeq is one, and FlattenSeq its last value.
LEMMA FlattenRuns ==
    ASSUME NEW S, NEW pieces \in Seq(Seq(S)), pieces # <<>>
    PROVE  \E f : Runs(f, pieces) /\ FlattenSeq(pieces) = f[Len(pieces)]
<1> DEFINE n == Len(pieces)
           Q == Seq(S)
           base == pieces[1]
           step == [t \in (Nat \ {0}) \X Q |->
                      IF t[1] < n THEN t[2] \o pieces[t[1] + 1] ELSE t[2]]
           Is(f) == f = [i \in 1..n |-> IF i = 1 THEN pieces[i]
                                        ELSE f[i - 1] \o pieces[i]]
           flatten == CHOOSE f : Is(f)
<1>1. n \in Nat \ {0} /\ n - 1 \in Nat  OBVIOUS
<1>2. base \in Q /\ \A i \in Nat \ {0} : i < n => pieces[i + 1] \in Q
  <2>1. \A i \in Nat \ {0} : i < n => i + 1 \in 1..n  BY <1>1
  <2> QED  BY <1>1, <2>1
<1>3. \A i \in Nat \ {0}, v \in Q :
          /\ i < n => step[<<i, v>>] = v \o pieces[i + 1]
          /\ ~(i < n) => step[<<i, v>>] = v
  OBVIOUS
<1>4. Steps(Q, step)
  <2> SUFFICES ASSUME NEW i \in Nat \ {0}, NEW v \in Q PROVE step[<<i, v>>] \in Q
    BY DEF Steps
  <2>1. CASE i < n
    <3>1. v \o pieces[i + 1] \in Q  BY <1>2, <2>1
    <3> QED  BY <1>3, <2>1, <3>1
  <2>2. CASE ~(i < n)  BY <1>3, <2>2
  <2> QED  BY <2>1, <2>2
<1> HIDE DEF step, base, Q
<1>5. PICK g \in [0..n - 1 -> Q] : Iterates(g, n - 1, base, step)
  BY <1>1, <1>2, <1>4, FiniteRecursion
<1> DEFINE f == [i \in 1..n |-> g[i - 1]]
<1>6. f \in [1..n -> Q] /\ f[1] = pieces[1]
  BY <1>1, <1>5 DEF Iterates, base
<1>7. \A i \in 2..n : f[i] = f[i - 1] \o pieces[i]
  <2> TAKE i \in 2..n
  <2> DEFINE k == i - 1
  <2>1. k \in 1..n - 1 /\ k \in Nat \ {0} /\ k < n /\ k + 1 = i  BY <1>1
  <2> HIDE DEF k
  <2>2. g[k - 1] \in Q /\ g[k] = step[<<k, g[k - 1]>>]
    <3>1. g \in [0..n - 1 -> Q] /\ \A l \in 1..n - 1 : g[l] = step[<<l, g[l - 1]>>]
      BY <1>5 DEF Iterates
    <3>2. k - 1 \in 0..n - 1  BY <1>1, <2>1
    <3> QED  BY <2>1, <3>1, <3>2
  <2>3. g[k] = g[k - 1] \o pieces[k + 1]  BY <1>3, <2>1, <2>2
  <2>4. f[i] = g[k] /\ f[i - 1] = g[k - 1]
    <3>1. i \in 1..n /\ i - 1 \in 1..n /\ (i - 1) - 1 = k - 1
      BY <1>1, <2>1 DEF k
    <3> QED  BY <3>1 DEF k
  <2> QED  BY <2>1, <2>3, <2>4
<1> HIDE DEF f
<1>8. Is(f)
  <2>1. f = [i \in 1..n |-> f[i]]  BY <1>6
  <2>2. \A i \in 1..n : f[i] = IF i = 1 THEN pieces[i] ELSE f[i - 1] \o pieces[i]
    <3> TAKE i \in 1..n
    <3>1. CASE i = 1  BY <1>6, <3>1
    <3>2. CASE i # 1
      <4>1. i \in 2..n  BY <1>1, <3>2
      <4>2. f[i] = f[i - 1] \o pieces[i]  BY <1>7, <4>1
      <4> QED  BY <3>2, <4>2
    <3> QED  BY <3>1, <3>2
  <2> QED  BY <2>1, <2>2
<1>9. Is(flatten)  BY <1>8
<1>10. FlattenSeq(pieces) = flatten[n]  BY <1>1 DEF FlattenSeq
<1> HIDE DEF flatten
<1>11. Runs(flatten, pieces)
  <2>1. \A i \in 1..n : flatten[i] = IF i = 1 THEN pieces[i]
                                     ELSE flatten[i - 1] \o pieces[i]
    BY <1>9
  <2>2. 1 \in 1..n  BY <1>1
  <2> QED  BY <2>1, <2>2 DEF Runs
<1> QED  BY <1>10, <1>11

\* FlattenSeq is a sequence of the elements of its pieces, and is empty only if
\* all of them are.
LEMMA FlattenIsMadeOf ==
    ASSUME NEW S, NEW pieces \in Seq(Seq(S))
    PROVE  /\ FlattenSeq(pieces) \in Seq(S)
           /\ MadeOf(FlattenSeq(pieces), pieces, Len(pieces))
<1>1. CASE pieces = <<>>
  <2>1. FlattenSeq(pieces) = <<>> /\ Len(pieces) = 0 /\ \A j \in 1..0 : FALSE
    BY <1>1 DEF FlattenSeq
  <2> QED  BY <2>1 DEF MadeOf
<1>2. CASE pieces # <<>>
  <2>1. PICK f : Runs(f, pieces) /\ FlattenSeq(pieces) = f[Len(pieces)]
    BY <1>2, FlattenRuns
  <2> DEFINE n == Len(pieces)
             Good(i) == f[i] \in Seq(S) /\ MadeOf(f[i], pieces, i)
             G == {i \in Nat : i + 1 <= n => Good(i + 1)}
  <2>2. n \in Nat \ {0} /\ n - 1 \in Nat  BY <1>2
  <2>3. 0 \in G
    <3>1. pieces[1] \in Seq(S)  BY <2>2
    <3>2. MadeOf(pieces[1], pieces, 1)  BY <3>1 DEF MadeOf
    <3> QED  BY <2>1, <3>1, <3>2 DEF Runs
  <2>4. ASSUME NEW i \in Nat, i \in G PROVE i + 1 \in G
    <3> SUFFICES ASSUME (i + 1) + 1 <= n PROVE Good((i + 1) + 1)
      OBVIOUS
    <3> DEFINE m == i + 1
    <3>1. m \in Nat \ {0} /\ m + 1 \in 1..n /\ m + 1 # 1 /\ (m + 1) - 1 = m
      BY <2>2
    <3>2. f[m] \in Seq(S) /\ MadeOf(f[m], pieces, m)  BY <2>4, <3>1
    <3> HIDE DEF m
    <3>3. f[m + 1] = f[m] \o pieces[m + 1]  BY <2>1, <3>1 DEF Runs
    <3>4. pieces[m + 1] \in Seq(S)  BY <3>1
    <3>5. f[m] \o pieces[m + 1] \in Seq(S)  BY <3>2, <3>4
    <3>6. MadeOf(f[m] \o pieces[m + 1], pieces, m + 1)
      BY <3>1, <3>2, MadeOfNext
    <3> QED  BY <3>3, <3>5, <3>6 DEF m
  <2>5. \A i \in Nat : i \in G
    <3> HIDE DEF G
    <3> QED  BY <2>3, <2>4, SetInduction
  <2>6. n - 1 \in G
    <3> HIDE DEF G
    <3> QED  BY <2>2, <2>5
  <2>7. Good(n)
    <3>1. (n - 1) + 1 = n /\ (n - 1) + 1 <= n  BY <2>2
    <3>2. Good((n - 1) + 1)  BY <2>6, <3>1
    <3> QED  BY <3>1, <3>2
  <2> QED  BY <2>1, <2>7
<1> QED  BY <1>1, <1>2

\* Of pieces of which all but one are empty, that one is left.
LEMMA FlattenNone ==
    ASSUME NEW S, NEW pieces \in Seq(Seq(S)), \A i \in 1..Len(pieces) : pieces[i] = <<>>
    PROVE  FlattenSeq(pieces) = <<>>
<1>1. /\ FlattenSeq(pieces) \in Seq(S)
      /\ MadeOf(FlattenSeq(pieces), pieces, Len(pieces))
  BY FlattenIsMadeOf
<1>2. \A j \in 1..Len(pieces) : Len(pieces[j]) = 0
  OBVIOUS
<1>3. ~(1 \in 1..Len(FlattenSeq(pieces)))
  BY <1>1, <1>2 DEF MadeOf
<1> QED
  BY <1>1, <1>3

LEMMA FlattenOne ==
    ASSUME NEW S, NEW pieces \in Seq(Seq(S)), NEW k \in 1..Len(pieces),
           \A i \in 1..Len(pieces) : i # k => pieces[i] = <<>>
    PROVE  FlattenSeq(pieces) = pieces[k]
<1>1. pieces # <<>> /\ Len(pieces) \in Nat /\ k \in Nat
  OBVIOUS
<1>2. PICK f : Runs(f, pieces) /\ FlattenSeq(pieces) = f[Len(pieces)]
  BY <1>1, FlattenRuns
<1> DEFINE G == {n \in Nat : n + 1 \in 1..Len(pieces) =>
                    f[n + 1] = IF n + 1 < k THEN <<>> ELSE pieces[k]}
<1>3. 0 \in G
  BY <1>2 DEF Runs
<1>4. ASSUME NEW n \in Nat, n \in G PROVE n + 1 \in G
  <2>1. SUFFICES ASSUME (n + 1) + 1 \in 1..Len(pieces)
                 PROVE  f[(n + 1) + 1] = IF (n + 1) + 1 < k THEN <<>> ELSE pieces[k]
    OBVIOUS
  <2>2. n + 1 \in 1..Len(pieces) /\ ((n + 1) + 1) - 1 = n + 1 /\ (n + 1) + 1 # 1
    BY <2>1
  <2>3. f[(n + 1) + 1] = f[n + 1] \o pieces[(n + 1) + 1]
    BY <1>2, <2>1, <2>2 DEF Runs
  <2>4. f[n + 1] = IF n + 1 < k THEN <<>> ELSE pieces[k]
    BY <1>4, <2>2
  <2>5. CASE (n + 1) + 1 = k
    <3>1. pieces[k] \in Seq(S) /\ \A x \in Seq(S) : <<>> \o x = x
      OBVIOUS
    <3>2. f[n + 1] = <<>>
      BY <2>4, <2>5
    <3> QED  BY <2>3, <2>5, <3>1, <3>2
  <2>6. CASE (n + 1) + 1 # k
    <3>1. pieces[(n + 1) + 1] = <<>>
      BY <2>1, <2>6
    <3> QED  BY <2>3, <2>4, <2>6, <3>1
  <2> QED  BY <2>5, <2>6
<1>5. \A n \in Nat : n \in G
  BY <1>3, <1>4, SetInduction
<1>6. Len(pieces) - 1 \in G /\ (Len(pieces) - 1) + 1 = Len(pieces)
  <2>1. Len(pieces) - 1 \in Nat
    BY <1>1
  <2> HIDE DEF G
  <2> QED  BY <1>1, <1>5, <2>1
<1> QED
  BY <1>1, <1>2, <1>6

\* One more piece adds its elements at the end.
LEMMA FlattenAppend ==
    ASSUME NEW S, NEW pieces \in Seq(Seq(S)), NEW p \in Seq(S)
    PROVE  FlattenSeq(Append(pieces, p)) = FlattenSeq(pieces) \o p
<1> DEFINE more == Append(pieces, p)
           n == Len(pieces)
           Q == Seq(S)
<1>1. /\ more \in Seq(Seq(S)) /\ more # <<>> /\ Len(more) = n + 1 /\ n \in Nat
      /\ more[n + 1] = p /\ \A i \in 1..n : more[i] = pieces[i]
  <2>1. pieces \in Seq(Q) /\ p \in Q  OBVIOUS
  <2> HIDE DEF Q
  <2>2. more \in Seq(Q) /\ Len(more) = n + 1 /\ n \in Nat  BY <2>1
  <2>3. more[n + 1] = p /\ \A i \in 1..n : more[i] = pieces[i]  BY <2>1
  <2>4. more # <<>>  BY <2>2
  <2> QED  BY <2>2, <2>3, <2>4 DEF Q
<1> HIDE DEF more
<1>2. PICK g : Runs(g, more) /\ FlattenSeq(more) = g[n + 1]
  BY <1>1, FlattenRuns
<1>3. CASE pieces = <<>>
  <2>1. FlattenSeq(pieces) = <<>> /\ n = 0  BY <1>3 DEF FlattenSeq
  <2>2. FlattenSeq(more) = p  BY <1>1, <1>2, <2>1 DEF Runs
  <2>3. <<>> \o p = p  OBVIOUS
  <2> QED  BY <2>1, <2>2, <2>3 DEF more
<1>4. CASE pieces # <<>>
  <2>1. PICK f : Runs(f, pieces) /\ FlattenSeq(pieces) = f[n]
    BY <1>4, FlattenRuns
  <2> DEFINE G == {i \in Nat : i + 1 <= n => f[i + 1] = g[i + 1]}
  <2>2. n \in Nat \ {0} /\ n - 1 \in Nat  BY <1>4
  <2>3. 0 \in G  BY <1>1, <1>2, <2>1, <2>2 DEF Runs
  <2>4. ASSUME NEW i \in Nat, i \in G PROVE i + 1 \in G
    <3> SUFFICES ASSUME (i + 1) + 1 <= n PROVE f[(i + 1) + 1] = g[(i + 1) + 1]
      OBVIOUS
    <3> DEFINE m == i + 1
    <3>1. /\ m \in Nat \ {0} /\ m + 1 \in 1..n /\ m + 1 \in 1..n + 1 /\ m + 1 # 1
          /\ (m + 1) - 1 = m
      BY <2>2
    <3>2. f[m] = g[m] /\ more[m + 1] = pieces[m + 1]  BY <1>1, <2>4, <3>1
    <3>3. f[m + 1] = f[m] \o pieces[m + 1]  BY <2>1, <3>1 DEF Runs
    <3>4. g[m + 1] = g[m] \o more[m + 1]  BY <1>1, <1>2, <3>1 DEF Runs
    <3> QED  BY <3>2, <3>3, <3>4
  <2>5. \A i \in Nat : i \in G
    <3> HIDE DEF G
    <3> QED  BY <2>3, <2>4, SetInduction
  <2>6. n - 1 \in G
    <3> HIDE DEF G
    <3> QED  BY <2>2, <2>5
  <2>7. f[n] = g[n]
    <3>1. (n - 1) + 1 = n /\ (n - 1) + 1 <= n  BY <2>2
    <3> QED  BY <2>6, <3>1
  <2>8. g[n + 1] = g[n] \o p
    <3>1. n + 1 \in 1..Len(more) /\ n + 1 # 1 /\ (n + 1) - 1 = n  BY <1>1, <2>2
    <3> QED  BY <1>1, <1>2, <3>1 DEF Runs
  <2> QED  BY <1>2, <2>1, <2>7, <2>8 DEF more
<1> QED  BY <1>3, <1>4

\* The pieces have one element of x, in S, at the positions in T, none elsewhere.
Chosen(pieces, S, n, T, x) ==
    /\ pieces = [i \in 1..n |-> IF i \in T THEN <<x[i]>> ELSE <<>>]
    /\ \A i \in 1..n : i \in T => x[i] \in S

\* FlattenSeq of such pieces is a selection from x.
LEMMA FlattenChosen ==
    ASSUME NEW S, NEW n \in Nat, NEW T, NEW x, NEW pieces,
           Chosen(pieces, S, n, T, x)
    PROVE  /\ FlattenSeq(pieces) \in Seq(S)
           /\ \A i \in 1..Len(FlattenSeq(pieces)) :
                 \E j \in 1..n : j \in T /\ FlattenSeq(pieces)[i] = x[j]
           /\ \A j \in 1..n : j \in T => FlattenSeq(pieces) # <<>>
<1> USE DEF Chosen
<1>1. \A i \in 1..n : pieces[i] \in Seq(S)
  <2> TAKE i \in 1..n
  <2>1. CASE i \in T
    <3>1. <<x[i]>> \in Seq(S)  BY <2>1
    <3> QED  BY <2>1, <3>1
  <2>2. CASE i \notin T  BY <2>2
  <2> QED  BY <2>1, <2>2
<1>2. pieces \in Seq(Seq(S)) /\ Len(pieces) = n
  <2>1. pieces \in [1..n -> Seq(S)]  BY <1>1
  <2> QED  BY <2>1
<1>3. \A j \in 1..n : /\ j \in T => Len(pieces[j]) = 1 /\ pieces[j][1] = x[j]
                      /\ j \in T => pieces[j] # <<>>
                      /\ j \notin T => Len(pieces[j]) = 0
  OBVIOUS
<1>4. /\ FlattenSeq(pieces) \in Seq(S)
      /\ MadeOf(FlattenSeq(pieces), pieces, n)
  BY <1>2, FlattenIsMadeOf
<1>5. ASSUME NEW i \in 1..Len(FlattenSeq(pieces))
      PROVE  \E j \in 1..n : j \in T /\ FlattenSeq(pieces)[i] = x[j]
  <2>1. PICK j \in 1..n :
            \E k \in 1..Len(pieces[j]) : FlattenSeq(pieces)[i] = pieces[j][k]
    BY <1>4, <1>5 DEF MadeOf
  <2>2. PICK k \in 1..Len(pieces[j]) : FlattenSeq(pieces)[i] = pieces[j][k]
    BY <2>1
  <2>3. j \in T  BY <1>3, <2>2
  <2>4. k = 1  BY <1>3, <2>2, <2>3
  <2> QED  BY <1>3, <2>2, <2>3, <2>4
<1>6. ASSUME NEW j \in 1..n, j \in T PROVE FlattenSeq(pieces) # <<>>
  BY <1>3, <1>4, <1>6 DEF MadeOf
<1> QED  BY <1>4, <1>5, <1>6
=============================================================================
