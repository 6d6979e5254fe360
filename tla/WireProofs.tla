----------------------------- MODULE WireProofs -----------------------------
(***************************************************************************)
(* Proofs about the two components under the messages: the byte stream,    *)
(* and the numbers of a handshake.                                         *)
(*                                                                         *)
(* ByteStream, for every set of loops and messages, every width of the     *)
(* length prefix and every number of packets.  What the reader has         *)
(* consumed of the current packet and what lies on the wire is always the  *)
(* stream without the packets it returned; a packet begins with its        *)
(* length, so both of its reads end exactly where the code thinks.         *)
(*                                                                         *)
(* DHArithmetic, for every odd modulus above 2, every size of a byte and   *)
(* every draw of the two generators.                                       *)
(***************************************************************************)
EXTENDS ByteStream, DHArithmetic, DataFacts, SequenceTheorems

-----------------------------------------------------------------------------
(* Lengths and their bytes *)

LEMMA BaseFacts ==
    Base \in Nat \ {0} /\ Width \in Nat \ {0} /\ 0 \in Byte
  BY BytesAssumption DEF Byte

LEMMA PowerDef ==
    /\ Power[0] = 1
    /\ \A n \in Nat : Power[n] \in Nat \ {0} /\ Power[n + 1] = Base * Power[n]
<1> DEFINE Q == Nat \ {0}
           step == [t \in (Nat \ {0}) \X Q |-> Base * t[2]]
           Is(f) == f = [n \in Nat |-> IF n = 0 THEN 1 ELSE Base * f[n - 1]]
<1>1. Steps(Q, step)  BY BaseFacts DEF Steps
<1>2. PICK f \in [Nat -> Q] : Recurs(f, 1, step)
  <2> HIDE DEF step, Q
  <2>1. 1 \in Q  BY DEF Q
  <2> QED  BY <1>1, <2>1, NatRecursion
<1>3. Is(f)
  <2>1. ASSUME NEW n \in Nat \ {0} PROVE f[n] = Base * f[n - 1]
    <3>1. f[n] = step[<<n, f[n - 1]>>]  BY <1>2 DEF Recurs
    <3>2. f[n - 1] \in Q  BY <1>2
    <3> QED  BY <3>1, <3>2
  <2>2. f[0] = 1  BY <1>2 DEF Recurs
  <2>3. f = [n \in Nat |-> f[n]]  BY <1>2
  <2> HIDE DEF step, Q
  <2> QED  BY <2>1, <2>2, <2>3
<1> HIDE DEF step
<1>4. Is(Power)  BY <1>3 DEF Power
<1>5. Power[0] = 1 /\ \A n \in Nat : Power[n + 1] = Base * Power[n]
  <2>1. \A n \in Nat : Power[n] = IF n = 0 THEN 1 ELSE Base * Power[n - 1]  BY <1>4
  <2> QED  BY <2>1
<1> DEFINE G == {n \in Nat : Power[n] \in Q}
<1>6. 0 \in G  BY <1>5
<1>7. ASSUME NEW n \in Nat, n \in G PROVE n + 1 \in G
  BY <1>5, <1>7, BaseFacts
<1> HIDE DEF G
<1>8. \A n \in Nat : n \in G  BY <1>6, <1>7, SetInduction
<1> QED  BY <1>5, <1>8 DEF G

\* One more digit of n: its last digits below p, then the next one.
LEMMA DigitStep ==
    ASSUME NEW n \in Nat, NEW p \in Nat \ {0}
    PROVE  (n % p) + ((n \div p) % Base) * p = n % (Base * p)
<1> DEFINE q == n \div p
           r == n % p
           s == q \div Base
           t == q % Base
<1>1. n = p * q + r /\ r \in 0..p - 1 /\ q \in Nat  OBVIOUS
<1> HIDE DEF q, r
<1>2. q = Base * s + t /\ t \in 0..Base - 1 /\ s \in Nat  BY <1>1, BaseFacts
<1> HIDE DEF s, t
<1> DEFINE d == p * t + r
           m == Base * p
<1>3. m \in Nat \ {0} /\ d \in Nat  BY <1>1, <1>2, BaseFacts
<1> DEFINE pt == p * t
           ps == m * s
           pb == p * (Base - 1)
<1>4. n = ps + (pt + r)
  <2>1. p * (Base * s + t) = (Base * p) * s + p * t  BY <1>2, BaseFacts
  <2>2. p * q = ps + pt  BY <1>2, <2>1
  <2>3. ps \in Nat /\ pt \in Nat  BY <1>2, <1>3
  <2> HIDE DEF ps, pt
  <2> QED  BY <1>1, <2>2, <2>3
<1>5. d < m
  <2>1. pt <= pb /\ pt \in Nat /\ pb \in Int  BY <1>2, BaseFacts
  <2>2. pb + p = m  BY BaseFacts
  <2>3. d = pt + r  OBVIOUS
  <2> HIDE DEF pt, pb, d, m
  <2> QED  BY <1>1, <1>3, <2>1, <2>2, <2>3
<1> HIDE DEF d, m
<1>6. n % m = d
  <2>1. n = m * s + d  BY <1>4 DEF ps, pt, d
  <2> QED  BY <1>2, <1>3, <1>5, <2>1
<1> QED  BY <1>1, <1>2, <1>6 DEF d, m, r, q, t

\* A length that an int can hold is read as it was written.
LEMMA LengthReadBack ==
    ASSUME NEW n \in Nat, n < Power[Width] \div 2
    PROVE  ToInt32(GetBytes(n)) = n
<1> DEFINE bytes == GetBytes(n)
           Is(f) == f = [i \in 0..Width |->
                            IF i = 0 THEN 0 ELSE f[i - 1] + bytes[i] * Power[i - 1]]
           value == CHOOSE f : Is(f)
           f == [i \in 0..Width |-> n % Power[i]]
<1>1. Is(f)
  <2>1. f[0] = 0  BY PowerDef, BaseFacts
  <2>2. ASSUME NEW i \in 1..Width PROVE f[i] = f[i - 1] + bytes[i] * Power[i - 1]
    <3>1. bytes[i] = (n \div Power[i - 1]) % Base  BY DEF GetBytes
    <3>2. i - 1 \in Nat /\ i - 1 \in 0..Width /\ i \in 0..Width /\ (i - 1) + 1 = i
      BY BaseFacts
    <3>3. Power[i - 1] \in Nat \ {0} /\ Power[i] = Base * Power[i - 1]
      BY <3>2, PowerDef
    <3>4. f[i] = n % Power[i] /\ f[i - 1] = n % Power[i - 1]  BY <3>2
    <3> HIDE DEF f, bytes
    <3> QED  BY <3>1, <3>3, <3>4, DigitStep
  <2>3. \A i \in 0..Width : f[i] = IF i = 0 THEN 0 ELSE f[i - 1] + bytes[i] * Power[i - 1]
    <3> HIDE DEF f, bytes
    <3> TAKE i \in 0..Width
    <3>1. CASE i = 0  BY <2>1, <3>1
    <3>2. CASE i # 0
      <4>1. i \in 1..Width  BY <3>2, BaseFacts
      <4> QED  BY <2>2, <3>2, <4>1
    <3> QED  BY <3>1, <3>2
  <2>4. f = [i \in 0..Width |-> f[i]]  OBVIOUS
  <2> HIDE DEF f, bytes
  <2> QED  BY <2>3, <2>4
<1>2. Is(value)
  <2> HIDE DEF f
  <2> QED  BY <1>1
<1> HIDE DEF value
<1> DEFINE G == {i \in Nat : i <= Width => value[i] = f[i]}
<1>3. value[0] = f[0]
  <2>1. 0 \in 0..Width  BY BaseFacts
  <2>2. value[0] = 0  BY <1>2, <2>1
  <2>3. n % 1 = 0  OBVIOUS
  <2>4. f[0] = 0  BY <2>1, <2>3, PowerDef
  <2> QED  BY <2>2, <2>4
<1>4. ASSUME NEW i \in Nat, i + 1 <= Width, value[i] = f[i] PROVE value[i + 1] = f[i + 1]
  <2>1. i + 1 \in 0..Width /\ i + 1 # 0 /\ (i + 1) - 1 = i  BY <1>4, BaseFacts
  <2>2. value[i + 1] = value[i] + bytes[i + 1] * Power[i]  BY <1>2, <2>1
  <2>3. f[i + 1] = f[i] + bytes[i + 1] * Power[i]
    <3> HIDE DEF f, bytes
    <3> QED  BY <1>1, <2>1
  <2> HIDE DEF f, bytes
  <2> QED  BY <1>4, <2>2, <2>3
<1>5. \A i \in Nat : i \in G
  <2>1. 0 \in G  BY <1>3
  <2>2. ASSUME NEW i \in Nat, i \in G PROVE i + 1 \in G
    <3> HIDE DEF f
    <3> QED  BY <1>4, <2>2, BaseFacts
  <2> HIDE DEF G
  <2> QED  BY <2>1, <2>2, SetInduction
<1>6. value[Width] = n % Power[Width]
  <2>1. Width \in G  BY <1>5, BaseFacts
  <2> QED  BY <2>1, BaseFacts
<1>7. n % Power[Width] = n
  <2>1. Power[Width] \in Nat  BY PowerDef, BaseFacts
  <2> QED  BY <2>1
<1>8. ToInt32(bytes) = IF value[Width] < Power[Width] \div 2
                       THEN value[Width] ELSE value[Width] - Power[Width]
  BY DEF ToInt32, value
<1> QED  BY <1>6, <1>7, <1>8

-----------------------------------------------------------------------------
(* Packets *)

\* The length of a message as the packets of direction d begin with it, such a
\* packet, and packets one after the other.
LengthBytes(d, n) == IF d = "up" THEN GetBytes(n) ELSE Reverse(GetBytes(n))
PacketOf(d, b)    == LengthBytes(d, Len(b)) \o b
PacketsOf(d, s)   == FlattenSeq([i \in 1..Len(s) |-> PacketOf(d, s[i])])

LEMMA LengthBytesFacts ==
    ASSUME NEW d, NEW n \in Nat
    PROVE  LengthBytes(d, n) \in Seq(Byte) /\ Len(LengthBytes(d, n)) = Width
<1> DEFINE bytes == GetBytes(n)
<1>1. bytes \in [1..Width -> Byte]
  <2>1. ASSUME NEW i \in 1..Width PROVE (n \div Power[i - 1]) % Base \in Byte
    <3>1. i - 1 \in Nat  BY BaseFacts
    <3>2. Power[i - 1] \in Nat \ {0}  BY <3>1, PowerDef
    <3>3. n \div Power[i - 1] \in Nat  BY <3>2
    <3> QED  BY <3>3, BaseFacts DEF Byte
  <2> QED  BY <2>1 DEF GetBytes
<1> HIDE DEF bytes
<1>2. bytes \in Seq(Byte) /\ Len(bytes) = Width  BY <1>1, BaseFacts
<1>3. Reverse(bytes) \in [1..Width -> Byte]
  <2>1. \A i \in 1..Width : (Width - i) + 1 \in 1..Width  BY BaseFacts
  <2> QED  BY <1>1, <1>2, <2>1 DEF Reverse
<1>4. Reverse(bytes) \in Seq(Byte) /\ Len(Reverse(bytes)) = Width  BY <1>3, BaseFacts
<1> QED  BY <1>2, <1>4 DEF LengthBytes, bytes

\* Reversing twice changes nothing.
LEMMA ReverseTwice ==
    ASSUME NEW S, NEW s \in Seq(S)
    PROVE  Reverse(Reverse(s)) = s
<1> DEFINE n == Len(s)
           r == [i \in 1..n |-> s[(n - i) + 1]]
<1>1. n \in Nat /\ s = [i \in 1..n |-> s[i]]  OBVIOUS
<1>2. \A i \in 1..n : (n - i) + 1 \in 1..n /\ (n - ((n - i) + 1)) + 1 = i  BY <1>1
<1>3. Reverse(s) = r  BY DEF Reverse
<1>4. Len(r) = n  BY <1>1
<1>5. \A i \in 1..n : r[(n - i) + 1] = s[i]  BY <1>2
<1>6. Reverse(r) = [i \in 1..n |-> r[(n - i) + 1]]  BY <1>4 DEF Reverse
<1> HIDE DEF r
<1> QED  BY <1>1, <1>3, <1>5, <1>6

LEMMA ReaderReadsLength ==
    ASSUME NEW n \in Nat, n < Power[Width] \div 2
    PROVE  SizeOf(LengthBytes(dir, n)) = n
<1>1. ToInt32(GetBytes(n)) = n  BY LengthReadBack
<1>2. GetBytes(n) \in Seq(Byte)
  <2>1. LengthBytes("up", n) = GetBytes(n)  BY DEF LengthBytes
  <2> QED  BY <2>1, LengthBytesFacts
<1>3. Reverse(Reverse(GetBytes(n))) = GetBytes(n)  BY <1>2, ReverseTwice
<1> QED  BY <1>1, <1>3 DEF SizeOf, LengthBytes

LEMMA BodyFacts ==
    ASSUME NEW b \in Bodies
    PROVE  /\ b \in Seq(Byte) /\ Len(b) \in Nat \ {0} /\ Len(b) < Power[Width] \div 2
           /\ \A d : PacketOf(d, b) \in Seq(Byte)
           /\ \A d : Len(PacketOf(d, b)) = Width + Len(b)
<1>1. b \in Seq(Byte) /\ Len(b) \in Nat \ {0} /\ Len(b) < Power[Width] \div 2
  BY BodiesAssumption
<1>2. ASSUME NEW d
      PROVE  PacketOf(d, b) \in Seq(Byte) /\ Len(PacketOf(d, b)) = Width + Len(b)
  <2> DEFINE l == LengthBytes(d, Len(b))
  <2>1. l \in Seq(Byte) /\ Len(l) = Width  BY <1>1, LengthBytesFacts
  <2> HIDE DEF l
  <2>2. l \o b \in Seq(Byte) /\ Len(l \o b) = Width + Len(b)
    BY <1>1, <2>1, ConcatProperties
  <2> QED  BY <2>2 DEF PacketOf, l
<1> QED  BY <1>1, <1>2

LEMMA PacketsOfAppend ==
    ASSUME NEW d, NEW s \in Seq(Bodies), NEW b \in Bodies
    PROVE  PacketsOf(d, Append(s, b)) = PacketsOf(d, s) \o PacketOf(d, b)
<1> DEFINE n == Len(s)
           more == Append(s, b)
           ps == [i \in 1..n |-> PacketOf(d, s[i])]
           p == PacketOf(d, b)
<1>1. n \in Nat /\ Len(more) = n + 1 /\ more[n + 1] = b /\ \A i \in 1..n : more[i] = s[i]
  OBVIOUS
<1>2. p \in Seq(Byte)  BY BodyFacts
<1>3. ps \in Seq(Seq(Byte)) /\ Len(ps) = n
  <2>1. \A i \in 1..n : PacketOf(d, s[i]) \in Seq(Byte)
    <3> TAKE i \in 1..n
    <3>1. s[i] \in Bodies  OBVIOUS
    <3> QED  BY <3>1, BodyFacts
  <2>2. ps \in [1..n -> Seq(Byte)]  BY <2>1
  <2> QED  BY <1>1, <2>2
<1>4. \A i \in 1..n : ps[i] = PacketOf(d, more[i])  BY <1>1
<1> HIDE DEF more, ps, p
<1>5. Append(ps, p) = [i \in 1..n + 1 |-> PacketOf(d, more[i])]
  <2> DEFINE Q == Seq(Byte)
             all == [i \in 1..n + 1 |-> PacketOf(d, more[i])]
             app == Append(ps, p)
  <2>1. ps \in Seq(Q) /\ p \in Q  BY <1>2, <1>3
  <2> HIDE DEF Q
  <2>2. /\ app \in Seq(Q) /\ Len(app) = n + 1 /\ app[n + 1] = p
        /\ \A i \in 1..n : app[i] = ps[i]
    BY <1>3, <2>1, AppendProperties
  <2> HIDE DEF app
  <2>3. \A i \in 1..n + 1 : app[i] = PacketOf(d, more[i])
    <3> TAKE i \in 1..n + 1
    <3>1. CASE i = n + 1  BY <1>1, <2>2, <3>1 DEF p
    <3>2. CASE i # n + 1
      <4>1. i \in 1..n  BY <1>1, <3>2
      <4> QED  BY <1>4, <2>2, <4>1
    <3> QED  BY <3>1, <3>2
  <2>4. app = [i \in 1..n + 1 |-> app[i]]  BY <1>1, <2>2
  <2> QED  BY <2>3, <2>4 DEF app
<1>6. FlattenSeq(Append(ps, p)) = FlattenSeq(ps) \o p  BY <1>2, <1>3, FlattenAppend
<1>7. PacketsOf(d, more) = FlattenSeq(Append(ps, p))  BY <1>1, <1>5 DEF PacketsOf
<1>8. PacketsOf(d, s) = FlattenSeq(ps)  BY DEF PacketsOf, ps
<1> QED  BY <1>6, <1>7, <1>8 DEF more, p

LEMMA PacketsOfFacts ==
    ASSUME NEW d
    PROVE  /\ PacketsOf(d, <<>>) = <<>>
           /\ \A s \in Seq(Bodies) : PacketsOf(d, s) \in Seq(Byte)
<1>1. FlattenSeq(<<>>) = <<>>  BY DEF FlattenSeq
<1>2. PacketsOf(d, <<>>) = <<>>
  <2>1. [i \in 1..Len(<<>>) |-> PacketOf(d, <<>>[i])] = <<>>  OBVIOUS
  <2> QED  BY <1>1, <2>1 DEF PacketsOf
<1>3. ASSUME NEW s \in Seq(Bodies) PROVE PacketsOf(d, s) \in Seq(Byte)
  <2> DEFINE n == Len(s)
             ps == [i \in 1..n |-> PacketOf(d, s[i])]
  <2>1. \A i \in 1..n : PacketOf(d, s[i]) \in Seq(Byte)
    <3> TAKE i \in 1..n
    <3>1. s[i] \in Bodies  OBVIOUS
    <3> QED  BY <3>1, BodyFacts
  <2>2. ps \in [1..n -> Seq(Byte)] /\ n \in Nat  BY <2>1
  <2>3. ps \in Seq(Seq(Byte))  BY <2>2
  <2> HIDE DEF ps
  <2>4. FlattenSeq(ps) \in Seq(Byte)  BY <2>3, FlattenIsMadeOf
  <2> QED  BY <2>4 DEF PacketsOf, ps
<1> QED  BY <1>2, <1>3

\* The packets of a sequence begin with those of each of its prefixes.
LEMMA PacketsOfPrefix ==
    ASSUME NEW d
    PROVE  \A j \in Nat : \A s \in Seq(Bodies) : Len(s) = j =>
               \A n \in 0..j : \E r \in Seq(Byte) :
                   PacketsOf(d, s) = PacketsOf(d, SubSeq(s, 1, n)) \o r
<1> DEFINE Good(s, n) == \E r \in Seq(Byte) :
                             PacketsOf(d, s) = PacketsOf(d, SubSeq(s, 1, n)) \o r
           G == {j \in Nat : \A s \in Seq(Bodies) : Len(s) = j => \A n \in 0..j : Good(s, n)}
<1>1. ASSUME NEW s \in Seq(Bodies) PROVE Good(s, Len(s))
  <2> DEFINE P == PacketsOf(d, s)
  <2>1. SubSeq(s, 1, Len(s)) = s  BY SubSeqFull
  <2>2. P \in Seq(Byte)  BY PacketsOfFacts
  <2> HIDE DEF P
  <2>3. P = P \o <<>> /\ <<>> \in Seq(Byte)  BY <2>2
  <2> QED  BY <2>1, <2>3 DEF P
<1>2. 0 \in G
  <2> SUFFICES ASSUME NEW s \in Seq(Bodies), Len(s) = 0, NEW n \in 0..0 PROVE Good(s, n)
    OBVIOUS
  <2>1. n = Len(s)  OBVIOUS
  <2> HIDE DEF Good
  <2> QED  BY <1>1, <2>1
<1>3. ASSUME NEW j \in Nat, j \in G PROVE j + 1 \in G
  <2> SUFFICES ASSUME NEW s \in Seq(Bodies), Len(s) = j + 1, NEW n \in 0..j + 1
               PROVE  Good(s, n)
    OBVIOUS
  <2>1. CASE n = j + 1
    <3> HIDE DEF Good
    <3> QED  BY <1>1, <2>1
  <2>2. CASE n # j + 1
    <3>1. PICK t \in Seq(Bodies), b \in Bodies : s = Append(t, b)
      <4>1. s # <<>>  OBVIOUS
      <4> QED  BY <4>1, SequenceEmptyOrAppend
    <3>2. Len(t) = j /\ n \in 0..j /\ SubSeq(s, 1, n) = SubSeq(t, 1, n)
      BY <2>2, <3>1
    <3>3. PICK r \in Seq(Byte) : PacketsOf(d, t) = PacketsOf(d, SubSeq(t, 1, n)) \o r
      BY <1>3, <3>2
    <3> DEFINE P == PacketsOf(d, SubSeq(t, 1, n))
               p == PacketOf(d, b)
    <3>4. P \in Seq(Byte) /\ p \in Seq(Byte)
      <4>1. SubSeq(t, 1, n) \in Seq(Bodies)  BY <3>2
      <4> QED  BY <4>1, PacketsOfFacts, BodyFacts
    <3>5. PacketsOf(d, s) = (P \o r) \o p  BY <3>1, <3>3, PacketsOfAppend
    <3> HIDE DEF P, p
    <3>6. (P \o r) \o p = P \o (r \o p)  BY <3>4, ConcatAssociative, SMTT(30)
    <3>7. r \o p \in Seq(Byte)  BY <3>4, ConcatProperties
    <3> QED  BY <3>2, <3>5, <3>6, <3>7 DEF P
  <2> QED  BY <2>1, <2>2
<1> HIDE DEF G
<1>4. \A j \in Nat : j \in G  BY <1>2, <1>3, SetInduction
<1> QED  BY <1>4 DEF G

\* After the first n packets comes the next one, and then more unless it is the last.
LEMMA NextPacket ==
    ASSUME NEW d, NEW s \in Seq(Bodies), NEW n \in Nat, n < Len(s)
    PROVE  \E r \in Seq(Byte) :
              /\ PacketsOf(d, s)
                    = PacketsOf(d, SubSeq(s, 1, n)) \o (PacketOf(d, s[n + 1]) \o r)
              /\ n + 1 = Len(s) => r = <<>>
<1> DEFINE t == SubSeq(s, 1, n)
           b == s[n + 1]
           P == PacketsOf(d, t)
           p == PacketOf(d, b)
<1>1. t \in Seq(Bodies) /\ b \in Bodies /\ n + 1 \in 0..Len(s) /\ Len(s) \in Nat
  OBVIOUS
<1>2. SubSeq(s, 1, n + 1) = Append(t, b)  OBVIOUS
<1>3. PICK r \in Seq(Byte) : PacketsOf(d, s) = PacketsOf(d, SubSeq(s, 1, n + 1)) \o r
  BY <1>1, PacketsOfPrefix
<1>4. PacketsOf(d, SubSeq(s, 1, n + 1)) = P \o p  BY <1>1, <1>2, PacketsOfAppend
<1>5. P \in Seq(Byte) /\ p \in Seq(Byte)  BY <1>1, PacketsOfFacts, BodyFacts
<1>6. n + 1 = Len(s) => SubSeq(s, 1, n + 1) = s  BY SubSeqFull
<1> HIDE DEF t, b, P, p
<1>7. (P \o p) \o r = P \o (p \o r) /\ P \o p \in Seq(Byte)
  BY <1>5, ConcatAssociative, ConcatProperties, SMTT(30)
<1>8. n + 1 = Len(s) => r = <<>>
  <2> HAVE n + 1 = Len(s)
  <2>1. P \o p = (P \o p) \o r  BY <1>3, <1>4, <1>6
  <2> QED  BY <1>7, <2>1, ConcatEqualIffEmpty
<1> QED  BY <1>3, <1>4, <1>7, <1>8 DEF P, p, t, b

-----------------------------------------------------------------------------
(* Sequences in two parts *)

LEMMA CutAt ==
    ASSUME NEW S, NEW s \in Seq(S), NEW k \in 0..Len(s)
    PROVE  /\ s = SubSeq(s, 1, k) \o SubSeq(s, k + 1, Len(s))
           /\ SubSeq(s, 1, k) \in Seq(S) /\ Len(SubSeq(s, 1, k)) = k
           /\ SubSeq(s, k + 1, Len(s)) \in Seq(S)
           /\ Len(SubSeq(s, k + 1, Len(s))) = Len(s) - k
<1>1. SubSeq(s, 1, k) \o SubSeq(s, k + 1, Len(s)) = SubSeq(s, 1, Len(s))
  <2>1. 1 \in 1..Len(s) + 1 /\ k \in 1 - 1..Len(s) /\ Len(s) \in k..Len(s)  OBVIOUS
  <2> QED  BY <2>1, ConcatAdjacentSubSeq
<1>2. SubSeq(s, 1, Len(s)) = s  BY SubSeqFull
<1>3. SubSeq(s, 1, k) \in Seq(S) /\ Len(SubSeq(s, 1, k)) = k  OBVIOUS
<1>4. /\ SubSeq(s, k + 1, Len(s)) \in Seq(S)
      /\ Len(SubSeq(s, k + 1, Len(s))) = Len(s) - k
  OBVIOUS
<1> QED  BY <1>1, <1>2, <1>3, <1>4

\* Two ways to cut one sequence, at the same place.
LEMMA SameCut ==
    ASSUME NEW S, NEW s \in Seq(S), NEW t \in Seq(S), NEW u \in Seq(S), NEW v \in Seq(S),
           s \o t = u \o v, Len(s) = Len(u)
    PROVE  s = u /\ t = v
<1>1. \A i \in 1..Len(s) : (s \o t)[i] = s[i] /\ (u \o v)[i] = u[i]  OBVIOUS
<1>2. s = u  BY <1>1, SeqEqual
<1>3. \A S_ : \A s_, t_, v_ \in Seq(S_) : s_ \o t_ = s_ \o v_ => t_ = v_
  BY ConcatSimplifications
<1> QED  BY <1>2, <1>3

LEMMA CancelFirst ==
    ASSUME NEW S, NEW s \in Seq(S), NEW t \in Seq(S), NEW v \in Seq(S), s \o t = s \o v
    PROVE  t = v
  BY SameCut

LEMMA CancelLast ==
    ASSUME NEW S, NEW s \in Seq(S), NEW t \in Seq(S), NEW v \in Seq(S), s \o v = t \o v
    PROVE  s = t
<1>1. Len(s \o v) = Len(s) + Len(v) /\ Len(t \o v) = Len(t) + Len(v)  OBVIOUS
<1>2. Len(s) = Len(t)  BY <1>1
<1> QED  BY <1>2, SameCut

\* What a read leaves in the buffer.
LEMMA StoreFacts ==
    ASSUME NEW buf \in Seq(Byte), NEW at \in Nat, NEW chunk \in Seq(Byte),
           at + Len(chunk) <= Len(buf)
    PROVE  /\ Store(buf, at, chunk) \in Seq(Byte)
           /\ Len(Store(buf, at, chunk)) = Len(buf)
           /\ SubSeq(Store(buf, at, chunk), 1, at + Len(chunk)) = SubSeq(buf, 1, at) \o chunk
<1> DEFINE n == Len(buf)
           k == Len(chunk)
           st == Store(buf, at, chunk)
<1>1. n \in Nat /\ k \in Nat /\ DOMAIN buf = 1..n  OBVIOUS
<1>2. st = [i \in 1..n |-> IF i \in at + 1..at + k THEN chunk[i - at] ELSE buf[i]]
  BY <1>1 DEF Store
<1>3. st \in [1..n -> Byte]
  <2>1. \A i \in 1..n : i \in at + 1..at + k => i - at \in 1..k  BY <1>1
  <2> QED  BY <1>2, <2>1
<1>4. st \in Seq(Byte) /\ Len(st) = n  BY <1>1, <1>3
<1>5. \A i \in 1..n : st[i] = IF i \in at + 1..at + k THEN chunk[i - at] ELSE buf[i]
  BY <1>2
<1> HIDE DEF st
<1> DEFINE u == SubSeq(st, 1, at + k)
           front == SubSeq(buf, 1, at)
           v == front \o chunk
<1>6. front \in Seq(Byte) /\ Len(front) = at /\ \A i \in 1..at : front[i] = buf[i]
  BY <1>1
<1>7. u \in Seq(Byte) /\ Len(u) = at + k /\ \A i \in 1..at + k : u[i] = st[i]
  BY <1>1, <1>4
<1> HIDE DEF front, u
<1>8. v \in Seq(Byte) /\ Len(v) = at + k
      /\ \A i \in 1..at + k : v[i] = IF i <= at THEN front[i] ELSE chunk[i - at]
  BY <1>6, ConcatProperties
<1> HIDE DEF v
<1>9. \A i \in 1..at + k : u[i] = v[i]
  <2> TAKE i \in 1..at + k
  <2>1. i \in 1..n  BY <1>1
  <2>2. CASE i <= at
    <3>1. i \in 1..at /\ i \notin at + 1..at + k  BY <2>2
    <3> QED  BY <1>5, <1>6, <1>7, <1>8, <2>1, <2>2, <3>1
  <2>3. CASE ~(i <= at)
    <3>1. i \in at + 1..at + k  BY <2>3
    <3> QED  BY <1>5, <1>7, <1>8, <2>1, <2>3, <3>1
  <2> QED  BY <2>2, <2>3
<1>10. u = v  BY <1>7, <1>8, <1>9, SeqEqual
<1> QED  BY <1>1, <1>4, <1>10 DEF st, u, v, front

-----------------------------------------------------------------------------
(* The properties in terms of these packets *)

\* The part of the current packet in the reader's hands.
InHand(d, ph, buf, n) ==
    (IF ph = "body" THEN LengthBytes(d, Len(buf)) ELSE <<>>) \o SubSeq(buf, 1, n)

\* Packet and Packets, with the direction as a parameter.
PacketBy(d, b)  == IF d = "up" THEN MakeBytesFormat(b) ELSE MakePacket(Len(b), b)
PacketsBy(d, s) == FlattenSeq([i \in 1..Len(s) |-> PacketBy(d, s[i])])

LEMMA PacketByIs ==
    ASSUME NEW d, NEW b \in Seq(Byte)
    PROVE  PacketBy(d, b) = PacketOf(d, b)
<1>1. SubSeq(b, 1, Len(b)) = b  BY SubSeqFull
<1> QED  BY <1>1 DEF PacketBy, MakeBytesFormat, MakePacket, PacketOf, LengthBytes

LEMMA PacketsByIs ==
    ASSUME NEW d, NEW s \in Seq(Bodies)
    PROVE  PacketsBy(d, s) = PacketsOf(d, s)
<1>1. \A i \in 1..Len(s) : PacketBy(d, s[i]) = PacketOf(d, s[i])
  <2> TAKE i \in 1..Len(s)
  <2>1. s[i] \in Bodies  OBVIOUS
  <2>2. s[i] \in Seq(Byte)  BY <2>1, BodyFacts
  <2> QED  BY <2>2, PacketByIs
<1> QED  BY <1>1 DEF PacketsBy, PacketsOf

LEMMA TurnsAre ==
    /\ Begun \in Seq(Bodies) => (TurnsTaken <=> stream \o Left = PacketsOf(dir, Begun))
    /\ Begun' \in Seq(Bodies) => (TurnsTaken' <=> (stream \o Left)' = PacketsOf(dir', Begun'))
<1>1. TurnsTaken <=> stream \o Left = PacketsBy(dir, Begun)
  BY DEF TurnsTaken, Packets, Packet, PacketsBy, PacketBy
<1>2. TurnsTaken' <=> (stream \o Left)' = PacketsBy(dir', Begun')
  BY DEF TurnsTaken, Packets, Packet, PacketsBy, PacketBy
<1> QED  BY <1>1, <1>2, PacketsByIs

LEMMA LengthFirst ==
    ASSUME NEW d, NEW buf \in Seq(Byte)
    PROVE  SubSeq(PacketBy(d, buf), 1, Width) = LengthBytes(d, Len(buf))
<1> DEFINE l == LengthBytes(d, Len(buf))
<1>1. l \in Seq(Byte) /\ Len(l) = Width  BY LengthBytesFacts
<1>2. PacketBy(d, buf) = l \o buf  BY PacketByIs DEF PacketOf
<1> HIDE DEF l
<1>3. 1 \in 1..Len(l) /\ Len(l) \in 1..Len(l)  BY <1>1, BaseFacts
<1>4. SubSeq(l \o buf, 1, Len(l)) = SubSeq(l, 1, Len(l))
  BY <1>1, <1>3, SubSeqOfConcat1
<1>5. SubSeq(l, 1, Len(l)) = l  BY <1>1, SubSeqFull
<1> QED  BY <1>1, <1>2, <1>4, <1>5 DEF l

\* Where the reader is in the stream.
PlaceIs(d, str, g, hand, w) == str = (PacketsOf(d, g) \o hand) \o w

LEMMA AlignedIs ==
    /\ got \in Seq(Bodies) /\ buffer \in Seq(Byte) =>
          (Aligned <=> (reader = "up" =>
              PlaceIs(dir, stream, got, InHand(dir, phase, buffer, have), wire)))
    /\ got' \in Seq(Bodies) /\ buffer' \in Seq(Byte) =>
          (Aligned' <=> (reader' = "up" =>
              PlaceIs(dir', stream', got', InHand(dir', phase', buffer', have'), wire')))
<1> DEFINE hand(d, ph, buf, n) ==
        (IF ph = "body" THEN SubSeq(PacketBy(d, buf), 1, Width) ELSE <<>>) \o SubSeq(buf, 1, n)
<1>1. \A d, ph, n : \A buf \in Seq(Byte) : hand(d, ph, buf, n) = InHand(d, ph, buf, n)
  BY LengthFirst DEF InHand
<1>2. Aligned <=> (reader = "up" =>
          stream = (PacketsBy(dir, got) \o hand(dir, phase, buffer, have)) \o wire)
  BY DEF Aligned, Consumed, Packets, Packet, PacketsBy, PacketBy
<1>3. Aligned' <=> (reader' = "up" =>
          stream' = (PacketsBy(dir', got') \o hand(dir', phase', buffer', have')) \o wire')
  BY DEF Aligned, Consumed, Packets, Packet, PacketsBy, PacketBy
<1> HIDE DEF hand
<1>4. got \in Seq(Bodies) => PacketsBy(dir, got) = PacketsOf(dir, got)  BY PacketsByIs
<1>5. got' \in Seq(Bodies) => PacketsBy(dir', got') = PacketsOf(dir', got')  BY PacketsByIs
<1>6. buffer \in Seq(Byte) => hand(dir, phase, buffer, have) = InHand(dir, phase, buffer, have)
  BY <1>1
<1>7. buffer' \in Seq(Byte) =>
          hand(dir', phase', buffer', have') = InHand(dir', phase', buffer', have')
  BY <1>1
<1> QED  BY <1>2, <1>3, <1>4, <1>5, <1>6, <1>7 DEF PlaceIs

-----------------------------------------------------------------------------
(* Sending *)

\* t goes on where s ends.
GoesOn(s, t) == Len(s) <= Len(t) /\ \A i \in 1..Len(s) : t[i] = s[i]

LEMMA PrefixIs ==
    ASSUME NEW S, NEW s \in Seq(S), NEW t \in Seq(S)
    PROVE  IsPrefix(s, t) <=> GoesOn(s, t)
<1>1. SubSeq(s, 1, Len(s)) = s  BY SubSeqFull
<1>2. ASSUME Len(s) <= Len(t)
      PROVE  s = SubSeq(t, 1, Len(s)) <=> \A i \in 1..Len(s) : t[i] = s[i]
  <2> DEFINE u == SubSeq(t, 1, Len(s))
  <2>1. u \in Seq(S) /\ Len(u) = Len(s) /\ \A i \in 1..Len(s) : u[i] = t[i]
    BY <1>2
  <2> HIDE DEF u
  <2>2. (\A i \in 1..Len(s) : s[i] = u[i]) => s = u  BY <2>1, SeqEqual
  <2> QED  BY <2>1, <2>2 DEF u
<1> QED  BY <1>1, <1>2 DEF IsPrefix, GoesOn

LEMMA GoesOnFurther ==
    ASSUME NEW S, NEW s \in Seq(S), NEW t \in Seq(S), NEW u \in Seq(S),
           GoesOn(s, t), GoesOn(t, u)
    PROVE  GoesOn(s, u)
<1>1. Len(s) \in Nat /\ Len(t) \in Nat /\ Len(u) \in Nat  OBVIOUS
<1>2. Len(s) <= Len(t) /\ Len(t) <= Len(u)  BY DEF GoesOn
<1>3. \A i \in 1..Len(s) : i \in 1..Len(t)  BY <1>1, <1>2
<1> QED  BY <1>1, <1>2, <1>3 DEF GoesOn

LEMMA SendingFacts ==
    ASSUME SendType, OneSends
    PROVE  /\ Begun \in Seq(Bodies) /\ Left \in Seq(Byte)
           /\ GoesOn(sent, Begun) /\ Len(Begun) <= Len(sent) + 1
           /\ Left = <<>> => Begun = sent
<1>1. sent \in Seq(Bodies)  BY DEF SendType
<1>2. CASE Sending
  <2> DEFINE b == body[holder]
  <2>1. holder \in Senders  BY <1>2 DEF Sending, SendType
  <2>2. b \in Bodies /\ rest[holder] \in Seq(Byte)  BY <2>1 DEF SendType, OneSends
  <2>3. Begun = Append(sent, b) /\ Left = rest[holder] /\ Left # <<>>
    BY <1>2 DEF Begun, Left, Sending
  <2> HIDE DEF b
  <2> QED  BY <1>1, <2>2, <2>3, AppendProperties DEF GoesOn
<1>3. CASE ~Sending
  BY <1>1, <1>3 DEF Begun, Left, GoesOn
<1> QED  BY <1>2, <1>3

\* What a step of the sending side is to the reader: the bytes p arrive, and the
\* messages begun and sent only become more.
SendMove(p) ==
    /\ p \in Seq(Byte) /\ (p # <<>> => alive)
    /\ stream' = stream \o p /\ wire' = wire \o p
    /\ UNCHANGED <<dir, readVars>> /\ (alive' => alive)
    /\ SendInv' /\ Begun' \in Seq(Bodies)
    /\ GoesOn(Begun, Begun') /\ GoesOn(sent, sent')

LEMMA SendKeeps ==
    ASSUME StreamInv, NEW p, SendMove(p)
    PROVE  StreamInv'
<1>1. /\ got \in Seq(Bodies) /\ buffer \in Seq(Byte) /\ have \in Nat
      /\ stream \in Seq(Byte) /\ wire \in Seq(Byte) /\ p \in Seq(Byte)
      /\ sent \in Seq(Bodies) /\ sent' \in Seq(Bodies)
  BY DEF StreamInv, SendInv, SendType, ReadType, SendMove
<1>2. /\ dir' = dir /\ phase' = phase /\ buffer' = buffer /\ have' = have
      /\ reader' = reader /\ got' = got
  BY DEF SendMove, readVars
<1>3. Aligned'
  <2> SUFFICES ASSUME reader = "up"
               PROVE  PlaceIs(dir, stream', got, InHand(dir, phase, buffer, have), wire')
    BY <1>1, <1>2, AlignedIs
  <2> DEFINE before == PacketsOf(dir, got) \o InHand(dir, phase, buffer, have)
  <2>1. stream = before \o wire
    BY <1>1, AlignedIs DEF PlaceIs, StreamInv, SendInv
  <2>2. before \in Seq(Byte)
    <3> DEFINE l == IF phase = "body" THEN LengthBytes(dir, Len(buffer)) ELSE <<>>
               h == SubSeq(buffer, 1, have)
               P == PacketsOf(dir, got)
    <3>1. l \in Seq(Byte)  BY <1>1, LengthBytesFacts
    <3>2. P \in Seq(Byte)  BY <1>1, PacketsOfFacts
    <3>3. h \in Seq(Byte)
      <4>1. reader = "up" => have < Len(buffer)  BY DEF StreamInv, SendInv, BufferFits
      <4> QED  BY <1>1, <4>1
    <3>4. before = P \o (l \o h)  BY DEF InHand
    <3> HIDE DEF l, h, P, before
    <3>5. l \o h \in Seq(Byte)  BY <3>1, <3>3
    <3> QED  BY <3>2, <3>4, <3>5, ConcatProperties
  <2> HIDE DEF before
  <2>3. wire \in Seq(Byte) /\ p \in Seq(Byte)  BY <1>1
  <2>4. (before \o wire) \o p = before \o (wire \o p)  BY <2>2, <2>3, ConcatAssociative, SMTT(30)
  <2> QED  BY <2>1, <2>4 DEF SendMove, PlaceIs, before
<1>4. MessagesIntact'
  <2>1. GoesOn(got, sent)  BY <1>1, PrefixIs DEF StreamInv, SendInv, MessagesIntact
  <2>2. GoesOn(sent, sent')  BY DEF SendMove
  <2>3. GoesOn(got, sent')  BY <1>1, <2>1, <2>2, GoesOnFurther
  <2>4. IsPrefix(got, sent')  BY <1>1, <2>3, PrefixIs
  <2> QED  BY <1>2, <2>4 DEF MessagesIntact
<1>5. BufferFits'
  <2> SUFFICES ASSUME reader = "up"
               PROVE  /\ have < Len(buffer)
                      /\ phase = "size" => Len(buffer) = Width
                      /\ phase = "body" => /\ Len(got) < Len(Begun')
                                           /\ Len(buffer) = Len(Begun'[Len(got) + 1])
                      /\ dir = "up" /\ have > 0 => ~alive' /\ wire' = <<>>
    BY <1>2 DEF BufferFits
  <2>1. /\ have < Len(buffer)
        /\ phase = "size" => Len(buffer) = Width
        /\ phase = "body" => /\ Len(got) < Len(Begun)
                             /\ Len(buffer) = Len(Begun[Len(got) + 1])
        /\ dir = "up" /\ have > 0 => ~alive /\ wire = <<>>
    BY DEF StreamInv, SendInv, BufferFits
  <2>2. phase = "body" => /\ Len(got) < Len(Begun')
                          /\ Len(buffer) = Len(Begun'[Len(got) + 1])
    <3> HAVE phase = "body"
    <3>1. Begun \in Seq(Bodies) /\ Begun' \in Seq(Bodies) /\ GoesOn(Begun, Begun')
      <4>1. SendType /\ ReadType /\ OneSends  BY DEF StreamInv, SendInv
      <4>2. Begun \in Seq(Bodies)  BY <4>1, SendingFacts
      <4> QED  BY <4>2 DEF SendMove
    <3>2. Len(got) + 1 \in 1..Len(Begun)  BY <1>1, <2>1, <3>1
    <3> QED  BY <1>1, <2>1, <3>1, <3>2, SMTT(30) DEF GoesOn
  <2>3. dir = "up" /\ have > 0 => ~alive' /\ wire' = <<>>
    <3> HAVE dir = "up" /\ have > 0
    <3>1. ~alive /\ wire = <<>>  BY <2>1
    <3>2. p = <<>> /\ ~alive' /\ wire' = wire \o p  BY <3>1 DEF SendMove
    <3> QED  BY <3>1, <3>2
  <2> QED  BY <2>1, <2>2, <2>3
<1>6. ReadType'
  <2>1. wire' \in Seq(Byte)  BY <1>1 DEF SendMove
  <2> QED  BY <1>2, <2>1 DEF StreamInv, ReadType
<1> QED  BY <1>3, <1>4, <1>5, <1>6 DEF StreamInv, SendMove

LEMMA GoesOnItself ==
    ASSUME NEW S, NEW s \in Seq(S)
    PROVE  GoesOn(s, s) /\ \A y \in S : GoesOn(s, Append(s, y))
<1>1. Len(s) \in Nat  OBVIOUS
<1>2. ASSUME NEW y \in S PROVE GoesOn(s, Append(s, y))
  BY <1>1, AppendProperties DEF GoesOn
<1> QED  BY <1>1, <1>2 DEF GoesOn

\* A step in which nothing arrives.
NothingArrives ==
    /\ UNCHANGED <<dir, wire, stream, sent, readVars>> /\ (alive' => alive)
    /\ SendInv' /\ Begun' \in Seq(Bodies)
    /\ GoesOn(Begun, Begun')

LEMMA NothingArrivesIs ==
    ASSUME StreamInv, NothingArrives
    PROVE  SendMove(<<>>)
<1>1. stream \in Seq(Byte) /\ wire \in Seq(Byte) /\ sent \in Seq(Bodies)
  BY DEF StreamInv, ReadType, SendInv, SendType
<1>2. stream = stream \o <<>> /\ wire = wire \o <<>> /\ <<>> \in Seq(Byte)
  BY <1>1
<1>3. GoesOn(sent, sent)  BY <1>1, GoesOnItself
<1> QED  BY <1>2, <1>3 DEF NothingArrives, SendMove

LEMMA WaitSockMoves ==
    ASSUME SendInv, NEW t \in Senders, WaitSock(t)
    PROVE  NothingArrives
<1>1. PICK b \in Bodies : /\ body' = [body EXCEPT ![t] = b]
                          /\ rest' = [rest EXCEPT ![t] = Packet(b)]
  BY DEF WaitSock
<1>2. SendType /\ OneSends /\ TurnsTaken  BY DEF SendInv
<1>3. holder = None /\ holder' = t /\ t # None
  BY StreamAssumption DEF WaitSock, SockFree, Senders
<1> DEFINE p == Packet(b)
<1>4. p \in Seq(Byte) /\ p # <<>> /\ p = PacketOf(dir, b)
  <2>1. p = PacketBy(dir, b)  BY DEF Packet, PacketBy
  <2>2. p = PacketOf(dir, b)  BY <2>1, BodyFacts, PacketByIs
  <2>3. p \in Seq(Byte) /\ Len(p) = Width + Len(b) /\ Len(b) \in Nat \ {0}
    BY <2>2, BodyFacts
  <2> HIDE DEF p
  <2> QED  BY <2>2, <2>3, BaseFacts
<1> HIDE DEF p
<1>5. /\ body' = [body EXCEPT ![t] = b] /\ rest' = [rest EXCEPT ![t] = p]
      /\ body'[t] = b /\ rest'[t] = p
  BY <1>1, <1>2 DEF p, SendType
<1>6. Begun = sent /\ Left = <<>>  BY <1>3 DEF Begun, Left, Sending
<1>7. Begun' = Append(sent, b) /\ Left' = p
  <2>1. Sending'  BY <1>3, <1>4, <1>5 DEF Sending
  <2>2. sent' = sent  BY DEF WaitSock
  <2> QED  BY <1>3, <1>5, <2>1, <2>2 DEF Begun, Left
<1>8. sent \in Seq(Bodies) /\ stream \in Seq(Byte)  BY <1>2 DEF SendType
<1>9. Append(sent, b) \in Seq(Bodies)  BY <1>8
<1>10. TurnsTaken'
  <2>1. stream \o <<>> = PacketsOf(dir, sent)  BY <1>2, <1>6, <1>8, TurnsAre
  <2>2. stream = PacketsOf(dir, sent)  BY <1>8, <2>1
  <2>3. stream \o p = PacketsOf(dir, Append(sent, b))
    BY <1>4, <1>8, <2>2, PacketsOfAppend
  <2>4. stream' = stream /\ dir' = dir  BY DEF WaitSock
  <2> QED  BY <1>7, <1>9, <2>3, <2>4, TurnsAre
<1>11. SendType'
  BY <1>2, <1>3, <1>4, <1>5 DEF SendType, WaitSock, readVars
<1>12. OneSends'
  <2> SUFFICES ASSUME NEW u \in Senders
               PROVE  /\ holder' # u => rest'[u] = <<>>
                      /\ holder' = u => body'[u] \in Bodies
    BY DEF OneSends
  <2>1. CASE u = t  BY <1>3, <1>5, <2>1
  <2>2. CASE u # t
    <3>1. rest[u] = <<>> /\ u # None
      BY <1>2, <1>3, StreamAssumption DEF OneSends, Senders
    <3>2. rest'[u] = rest[u]  BY <1>2, <1>5, <2>2 DEF SendType
    <3> QED  BY <1>3, <2>2, <3>1, <3>2
  <2> QED  BY <2>1, <2>2
<1>13. GoesOn(sent, Append(sent, b))  BY <1>8, GoesOnItself
<1> QED  BY <1>6, <1>7, <1>9, <1>10, <1>11, <1>12, <1>13 DEF NothingArrives, WaitSock, SendInv

LEMMA ReleaseMoves ==
    ASSUME SendInv, (\E t \in Senders : ReleaseSock(t)) \/ SenderEnds
    PROVE  NothingArrives
<1>1. SendType /\ OneSends /\ TurnsTaken  BY DEF SendInv
<1>2. /\ UNCHANGED <<dir, rest, wire, readVars, stream, sent>> /\ (alive' => alive)
      /\ alive' \in BOOLEAN
  BY <1>1 DEF ReleaseSock, SenderEnds, SendType
<1>3. Begun' = Begun /\ Left' = Left
  <2>1. CASE SenderEnds
    BY <2>1 DEF SenderEnds, Begun, Left, Sending
  <2>2. ASSUME NEW t \in Senders, ReleaseSock(t) PROVE Begun' = Begun /\ Left' = Left
    <3>1. ~Sending /\ ~Sending'  BY <2>2 DEF ReleaseSock, Sending
    <3> QED  BY <1>2, <3>1 DEF Begun, Left
  <2> QED  BY <2>1, <2>2
<1>4. SendType' /\ OneSends'
  <2>1. CASE SenderEnds
    BY <1>1, <2>1 DEF SenderEnds, SendType, OneSends, readVars
  <2>2. ASSUME NEW t \in Senders, ReleaseSock(t) PROVE SendType' /\ OneSends'
    <3>1. /\ holder = t /\ holder' = None /\ t # None
          /\ body' = [body EXCEPT ![t] = <<>>] /\ rest[t] = <<>>
      BY <2>2, StreamAssumption DEF ReleaseSock, Senders
    <3>2. OneSends'
      BY <1>1, <1>2, <3>1, StreamAssumption DEF SendType, OneSends, Senders
    <3>3. SendType'
      BY <1>1, <1>2, <3>1 DEF SendType, readVars
    <3> QED  BY <3>2, <3>3
  <2> QED  BY <2>1, <2>2
<1>5. Begun \in Seq(Bodies)  BY <1>1, SendingFacts
<1>6. TurnsTaken'
  <2>1. stream \o Left = PacketsOf(dir, Begun)  BY <1>1, <1>5, TurnsAre
  <2> QED  BY <1>2, <1>3, <1>5, <2>1, TurnsAre
<1>7. GoesOn(Begun, Begun)  BY <1>5, GoesOnItself
<1> QED  BY <1>2, <1>3, <1>4, <1>5, <1>6, <1>7 DEF NothingArrives, SendInv

LEMMA SendAsyncMoves ==
    ASSUME SendInv, NEW t \in Senders, SendAsync(t)
    PROVE  \E p : SendMove(p)
<1>1. SendType /\ OneSends /\ TurnsTaken  BY DEF SendInv
<1> DEFINE all == rest[t]
           b == body[t]
<1>2. alive /\ all # <<>> /\ all \in Seq(Byte) /\ holder = t /\ b \in Bodies /\ t # None
  BY <1>1, StreamAssumption DEF SendAsync, SendType, OneSends, Senders
<1>3. PICK k \in 1..Len(all) :
          /\ wire' = wire \o SubSeq(all, 1, k) /\ stream' = stream \o SubSeq(all, 1, k)
          /\ rest' = [rest EXCEPT ![t] = SubSeq(all, k + 1, Len(all))]
          /\ sent' = IF k = Len(all) THEN Append(sent, b) ELSE sent
  BY DEF SendAsync
<1> DEFINE p == SubSeq(all, 1, k)
           q == SubSeq(all, k + 1, Len(all))
<1>4. all = p \o q /\ p \in Seq(Byte) /\ q \in Seq(Byte) /\ Len(q) = Len(all) - k
  BY <1>2, CutAt
<1>5. /\ sent \in Seq(Bodies) /\ stream \in Seq(Byte)
      /\ rest \in [Senders -> Seq(Byte)]
  BY <1>1 DEF SendType
<1>6. rest' = [rest EXCEPT ![t] = q] /\ rest'[t] = q  BY <1>3, <1>5
<1>7. UNCHANGED <<dir, holder, body, alive, readVars>>  BY DEF SendAsync
<1>8. Sending /\ Begun = Append(sent, b) /\ Left = all
  BY <1>2 DEF Sending, Begun, Left
<1>9. Append(sent, b) \in Seq(Bodies)  BY <1>2, <1>5
<1> HIDE DEF p, q, all, b
<1>10. q = <<>> <=> k = Len(all)
  <2>1. k \in Nat /\ Len(all) \in Nat  BY <1>2
  <2>2. q = <<>> <=> Len(q) = 0  BY <1>4
  <2> QED  BY <1>4, <2>1, <2>2
<1>11. /\ Begun' = Append(sent, b) /\ Left' = q
       /\ sent' = sent \/ sent' = Append(sent, b)
  <2>1. CASE q = <<>>
    <3>1. ~Sending'  BY <1>2, <1>6, <1>7, <2>1 DEF Sending
    <3> QED  BY <1>3, <1>10, <2>1, <3>1 DEF Begun, Left
  <2>2. CASE q # <<>>
    <3>1. Sending'  BY <1>2, <1>6, <1>7, <2>2 DEF Sending
    <3>2. sent' = sent /\ body'[holder'] = b /\ rest'[holder'] = q
      BY <1>2, <1>3, <1>6, <1>7, <1>10, <2>2 DEF b
    <3> QED  BY <3>1, <3>2 DEF Begun, Left
  <2> QED  BY <2>1, <2>2
<1>12. stream' = stream \o p /\ wire' = wire \o p  BY <1>3 DEF p
<1>13. stream' \in Seq(Byte)  BY <1>4, <1>5, <1>12
<1>14. TurnsTaken'
  <2>1. stream \o all = PacketsOf(dir, Append(sent, b))
    BY <1>1, <1>8, <1>9, TurnsAre
  <2>2. (stream \o p) \o q = stream \o (p \o q)  BY <1>4, <1>5, ConcatAssociative, SMTT(30)
  <2>3. stream' \o Left' = PacketsOf(dir', Begun')
    BY <1>4, <1>7, <1>11, <1>12, <2>1, <2>2
  <2> QED  BY <1>9, <1>11, <2>3, TurnsAre
<1>15. SendType'
  BY <1>1, <1>4, <1>5, <1>6, <1>7, <1>9, <1>11, <1>13 DEF SendType
<1>16. OneSends'
  BY <1>1, <1>2, <1>5, <1>6, <1>7 DEF OneSends
<1>17. GoesOn(sent, sent') /\ GoesOn(Begun, Begun')
  BY <1>2, <1>5, <1>8, <1>9, <1>11, GoesOnItself
<1>18. SendMove(p)
  BY <1>2, <1>4, <1>7, <1>9, <1>11, <1>12, <1>14, <1>15, <1>16, <1>17 DEF SendMove, SendInv
<1> QED  BY <1>18
-----------------------------------------------------------------------------
(* Reading *)

\* The bytes t begin with the packet of s after those of g.
Follows(d, g, s, t) ==
    /\ Len(g) < Len(s) =>
          \E r \in Seq(Byte) : /\ t = PacketOf(d, s[Len(g) + 1]) \o r
                               /\ Len(g) + 1 = Len(s) => r = <<>>
    /\ Len(g) = Len(s) => t = <<>>

\* What comes after the packets of g in the packets of s: the next of them.
LEMMA AheadOf ==
    ASSUME NEW d, NEW g \in Seq(Bodies), NEW s \in Seq(Bodies), GoesOn(g, s),
           NEW t \in Seq(Byte), PacketsOf(d, g) \o t = PacketsOf(d, s)
    PROVE  Follows(d, g, s, t)
<1> DEFINE n == Len(g)
           P == PacketsOf(d, g)
<1>1. n \in Nat /\ Len(s) \in Nat /\ n <= Len(s)  BY DEF GoesOn
<1>2. SubSeq(s, 1, n) = g
  <2> DEFINE u == SubSeq(s, 1, n)
  <2>1. u \in Seq(Bodies) /\ Len(u) = n /\ \A i \in 1..n : u[i] = s[i]  BY <1>1
  <2> HIDE DEF u
  <2>2. u = g  BY <2>1, SeqEqual DEF GoesOn
  <2> QED  BY <2>2 DEF u
<1>3. P \in Seq(Byte)  BY PacketsOfFacts
<1>4. ASSUME n < Len(s)
      PROVE  \E r \in Seq(Byte) : t = PacketOf(d, s[n + 1]) \o r /\ (n + 1 = Len(s) => r = <<>>)
  <2> DEFINE p == PacketOf(d, s[n + 1])
  <2>0. \E r \in Seq(Byte) :
           /\ PacketsOf(d, s)
                 = PacketsOf(d, SubSeq(s, 1, n)) \o (PacketOf(d, s[n + 1]) \o r)
           /\ n + 1 = Len(s) => r = <<>>
    <3> HIDE DEF n
    <3> QED  BY <1>1, <1>4, NextPacket
  <2>1. PICK r \in Seq(Byte) : PacketsOf(d, s) = P \o (p \o r) /\ (n + 1 = Len(s) => r = <<>>)
    BY <1>2, <2>0
  <2>2. p \in Seq(Byte)
    <3>1. s[n + 1] \in Bodies  BY <1>1, <1>4
    <3> QED  BY <3>1, BodyFacts
  <2> HIDE DEF p, P
  <2>3. p \o r \in Seq(Byte)  BY <2>2
  <2>4. P \o t = P \o (p \o r)  BY <2>1 DEF P
  <2>5. t = p \o r  BY <1>3, <2>3, <2>4, CancelFirst
  <2> QED  BY <2>1, <2>5 DEF p
<1>5. ASSUME n = Len(s) PROVE t = <<>>
  <2>1. SubSeq(s, 1, Len(s)) = s  BY SubSeqFull
  <2>2. P \o t = P  BY <1>2, <1>5, <2>1
  <2> HIDE DEF P
  <2> QED  BY <1>3, <2>2, ConcatEqualIffEmpty
<1> QED  BY <1>4, <1>5 DEF Follows

LEMMA InHandFacts ==
    ASSUME NEW d, NEW ph, NEW buf \in Seq(Byte), NEW n \in 0..Len(buf)
    PROVE  /\ InHand(d, ph, buf, n) \in Seq(Byte)
           /\ Len(InHand(d, ph, buf, n)) = (IF ph = "body" THEN Width ELSE 0) + n
<1> DEFINE l == IF ph = "body" THEN LengthBytes(d, Len(buf)) ELSE <<>>
           h == SubSeq(buf, 1, n)
<1>1. l \in Seq(Byte) /\ Len(l) = IF ph = "body" THEN Width ELSE 0
  BY LengthBytesFacts
<1>2. h \in Seq(Byte) /\ Len(h) = n  OBVIOUS
<1>3. InHand(d, ph, buf, n) = l \o h  BY DEF InHand
<1> HIDE DEF l, h
<1> QED  BY <1>1, <1>2, <1>3, ConcatProperties

\* The bytes after the packets the reader returned.
LEMMA PlaceTail ==
    ASSUME NEW d, NEW str, NEW g \in Seq(Bodies), NEW hand \in Seq(Byte), NEW w \in Seq(Byte)
    PROVE  PlaceIs(d, str, g, hand, w) <=> str = PacketsOf(d, g) \o (hand \o w)
<1> DEFINE P == PacketsOf(d, g)
<1>1. P \in Seq(Byte)  BY PacketsOfFacts
<1> HIDE DEF P
<1>2. (P \o hand) \o w = P \o (hand \o w)  BY <1>1, ConcatAssociative, SMTT(30)
<1> QED  BY <1>2 DEF PlaceIs, P

Hand == InHand(dir, phase, buffer, have)

\* What the reader has in its hands, what has arrived and what is still to be
\* handed over begin with the packet it is reading.
LEMMA ReaderPlace ==
    ASSUME StreamInv, reader = "up"
    PROVE  /\ Hand \in Seq(Byte) /\ stream = PacketsOf(dir, got) \o (Hand \o wire)
           /\ GoesOn(got, Begun) /\ GoesOn(got, sent) /\ GoesOn(sent, Begun)
           /\ Follows(dir, got, Begun, (Hand \o wire) \o Left)
<1> DEFINE P == PacketsOf(dir, got)
           t == (Hand \o wire) \o Left
<1>1. SendType /\ ReadType /\ OneSends /\ TurnsTaken /\ Aligned /\ MessagesIntact /\ BufferFits
  BY DEF StreamInv, SendInv
<1>2. /\ Begun \in Seq(Bodies) /\ Left \in Seq(Byte) /\ GoesOn(sent, Begun)
      /\ sent \in Seq(Bodies) /\ got \in Seq(Bodies) /\ wire \in Seq(Byte)
      /\ buffer \in Seq(Byte) /\ have \in Nat /\ have < Len(buffer)
  BY <1>1, SendingFacts DEF SendType, ReadType, BufferFits
<1>3. Hand \in Seq(Byte)  BY <1>2, InHandFacts DEF Hand
<1>4. stream = P \o (Hand \o wire)
  <2>1. PlaceIs(dir, stream, got, Hand, wire)  BY <1>1, <1>2, AlignedIs DEF Hand
  <2> QED  BY <1>2, <1>3, <2>1, PlaceTail
<1>5. GoesOn(got, sent) /\ GoesOn(got, Begun)
  <2>1. GoesOn(got, sent)  BY <1>1, <1>2, PrefixIs DEF MessagesIntact
  <2> QED  BY <1>2, <2>1, GoesOnFurther
<1>6. P \in Seq(Byte) /\ Hand \o wire \in Seq(Byte) /\ t \in Seq(Byte)
  <2>1. Hand \o wire \in Seq(Byte)  BY <1>2, <1>3, ConcatProperties
  <2> QED  BY <1>2, <2>1, PacketsOfFacts, ConcatProperties
<1>7. P \o t = PacketsOf(dir, Begun)
  <2>1. stream \o Left = PacketsOf(dir, Begun)  BY <1>1, <1>2, TurnsAre
  <2> DEFINE hw == Hand \o wire
  <2>2. stream = P \o hw /\ hw \in Seq(Byte)  BY <1>4, <1>6
  <2> HIDE DEF P, hw
  <2>3. P \in Seq(Byte) /\ hw \in Seq(Byte) /\ Left \in Seq(Byte)  BY <1>2, <1>6, <2>2
  <2>4. (P \o hw) \o Left = P \o (hw \o Left)  BY <2>3, ConcatAssociative, SMTT(30)
  <2> QED  BY <2>1, <2>2, <2>4 DEF hw
<1> HIDE DEF t
<1>8. Follows(dir, got, Begun, t)
  BY <1>2, <1>5, <1>6, <1>7, AheadOf
<1> QED  BY <1>2, <1>3, <1>4, <1>5, <1>8 DEF t

\* When nothing of a packet arrives before the rest of it, a reader that finds
\* anything finds all of the packet it is reading.
LEMMA WholeArrived ==
    ASSUME StreamInv, reader = "up", alive, ArrivedWhole, Hand \o wire # <<>>
    PROVE  /\ Len(got) < Len(sent)
           /\ \E r \in Seq(Byte) : Hand \o wire = PacketOf(dir, sent[Len(got) + 1]) \o r
<1>1. SendType /\ ReadType /\ OneSends /\ TurnsTaken  BY DEF StreamInv, SendInv
<1>2. /\ sent \in Seq(Bodies) /\ got \in Seq(Bodies) /\ wire \in Seq(Byte)
      /\ stream \in Seq(Byte) /\ Begun \in Seq(Bodies)
      /\ Hand \in Seq(Byte) /\ stream = PacketsOf(dir, got) \o (Hand \o wire)
      /\ GoesOn(got, sent)
  BY <1>1, ReaderPlace, SendingFacts DEF SendType, ReadType
<1>3. stream = PacketsOf(dir, sent)
  <2>0. stream \o Left = PacketsOf(dir, Begun)  BY <1>1, <1>2, TurnsAre
  <2>1. CASE ~Sending
    <3>1. Left = <<>> /\ Begun = sent  BY <2>1 DEF Left, Begun
    <3> QED  BY <1>2, <2>0, <3>1
  <2>2. CASE Sending
    <3> DEFINE b == body[holder]
               p == PacketOf(dir, b)
               P == PacketsOf(dir, sent)
    <3>1. holder \in Senders /\ rest[holder] # <<>>
      BY <1>1, <2>2 DEF Sending, SendType, ReadType
    <3>2. b \in Bodies /\ rest[holder] = Packet(b)
      BY <1>1, <3>1 DEF OneSends, ArrivedWhole
    <3>3. Packet(b) = p
      <4>1. Packet(b) = PacketBy(dir, b)  BY DEF Packet, PacketBy
      <4> QED  BY <3>2, <4>1, BodyFacts, PacketByIs
    <3>4. Left = p /\ Begun = Append(sent, b)
      BY <2>2, <3>2, <3>3 DEF Left, Begun
    <3>5. PacketsOf(dir, Append(sent, b)) = P \o p  BY <1>2, <3>2, PacketsOfAppend
    <3>6. P \in Seq(Byte) /\ p \in Seq(Byte)  BY <1>2, <3>2, PacketsOfFacts, BodyFacts
    <3> HIDE DEF b, p, P
    <3>7. stream \o p = P \o p  BY <2>0, <3>4, <3>5
    <3>8. stream = P  BY <1>2, <3>6, <3>7, CancelLast
    <3> QED  BY <3>8 DEF P
  <2> QED  BY <2>1, <2>2
<1> DEFINE t == Hand \o wire
<1>4. t \in Seq(Byte) /\ t # <<>>  BY <1>2, ConcatProperties
<1> HIDE DEF t
<1>5. PacketsOf(dir, got) \o t = PacketsOf(dir, sent)  BY <1>2, <1>3 DEF t
<1>6. Follows(dir, got, sent, t)
  BY <1>2, <1>4, <1>5, AheadOf
<1>7. Len(got) < Len(sent)
  <2>1. Len(got) <= Len(sent) /\ Len(got) \in Nat /\ Len(sent) \in Nat
    BY <1>2 DEF GoesOn
  <2> QED  BY <1>4, <1>6, <2>1 DEF Follows
<1> QED  BY <1>6, <1>7 DEF Follows, t

\* A read that returns k bytes, after which the buffer is bytes.
Piece(k, bytes) ==
    /\ k \in Nat \ {0} /\ have + k <= Len(buffer)
    /\ bytes \in Seq(Byte) /\ Len(bytes) = Len(buffer)
    /\ wire' \in Seq(Byte)
    /\ SubSeq(bytes, 1, have + k) \o wire' = SubSeq(buffer, 1, have) \o wire
    /\ have + k < Len(buffer) => wire' = <<>>
    /\ UNCHANGED <<dir, sendVars, stream, sent>>

Partial(k, bytes) ==
    /\ have + k < Len(buffer)
    /\ buffer' = bytes /\ have' = have + k /\ UNCHANGED <<phase, reader, got>>

LEMMA ReadIsPiece ==
    ASSUME StreamInv, ReadNBytes
    PROVE  \E k, bytes :
              /\ Piece(k, bytes)
              /\ \/ Partial(k, bytes)
                 \/ have + k = Len(buffer) /\ phase = "size" /\ HaveSize(bytes)
                 \/ have + k = Len(buffer) /\ phase = "body" /\ HaveMessage(bytes)
<1> DEFINE n     == Len(buffer)
           want  == n - StoreAt
           k     == IF Len(wire) < want THEN Len(wire) ELSE want
           chunk == SubSeq(wire, 1, k)
           left  == SubSeq(wire, k + 1, Len(wire))
           bytes == Store(buffer, StoreAt, chunk)
<1>1. /\ SendType /\ ReadType /\ BufferFits /\ reader = "up" /\ wire # <<>>
  BY DEF StreamInv, SendInv, ReadNBytes
<1>2. /\ wire \in Seq(Byte) /\ buffer \in Seq(Byte) /\ have \in Nat /\ have < n /\ n \in Nat
      /\ StoreAt = have
  BY <1>1 DEF SendType, ReadType, BufferFits, StoreAt
<1>3. Len(wire) \in Nat \ {0}  BY <1>1, <1>2
<1>4. k \in 1..Len(wire) /\ have + k <= n /\ (have + k < n => k = Len(wire))
  BY <1>2, <1>3
<1>5. /\ wire' = left
      /\ \/ Partial(k, bytes)
         \/ have + k >= n /\ phase = "size" /\ HaveSize(bytes)
         \/ have + k >= n /\ phase = "body" /\ HaveMessage(bytes)
      /\ UNCHANGED <<dir, sendVars, stream, sent>>
  BY DEF ReadNBytes, Partial
<1> HIDE DEF k
<1>6. /\ chunk \in Seq(Byte) /\ left \in Seq(Byte) /\ Len(chunk) = k
      /\ Len(left) = Len(wire) - k /\ wire = chunk \o left
  <2>1. k \in 0..Len(wire)  BY <1>3, <1>4
  <2> QED  BY <1>2, <2>1, CutAt
<1> HIDE DEF chunk, left
<1>7. /\ bytes \in Seq(Byte) /\ Len(bytes) = n
      /\ SubSeq(bytes, 1, have + k) = SubSeq(buffer, 1, have) \o chunk
  BY <1>2, <1>4, <1>6, StoreFacts
<1> HIDE DEF bytes
<1>8. SubSeq(bytes, 1, have + k) \o wire' = SubSeq(buffer, 1, have) \o wire
  <2> DEFINE front == SubSeq(buffer, 1, have)
  <2>1. front \in Seq(Byte)  BY <1>2
  <2> HIDE DEF front
  <2>2. (front \o chunk) \o left = front \o (chunk \o left)
    BY <1>6, <2>1, ConcatAssociative, SMTT(30)
  <2> QED  BY <1>5, <1>6, <1>7, <2>2 DEF front
<1>9. have + k < n => left = <<>>
  <2> HAVE have + k < n
  <2>1. Len(left) = 0  BY <1>3, <1>4, <1>6
  <2> QED  BY <1>6, <2>1
<1>10. Piece(k, bytes)
  <2>1. k \in Nat \ {0}  BY <1>3, <1>4
  <2>2. have + k < n => wire' = <<>>  BY <1>5, <1>9
  <2>3. wire' \in Seq(Byte)  BY <1>5, <1>6
  <2> QED  BY <1>4, <1>5, <1>7, <1>8, <2>1, <2>2, <2>3 DEF Piece
<1>11. have + k >= n => have + k = n  BY <1>2, <1>4
<1> QED  BY <1>5, <1>10, <1>11

\* The piece moves from the wire to the reader's hands.
LEMMA PieceInHand ==
    ASSUME StreamInv, reader = "up", NEW k, NEW bytes, Piece(k, bytes)
    PROVE  /\ InHand(dir, phase, bytes, have + k) \in Seq(Byte)
           /\ InHand(dir, phase, bytes, have + k) \o wire' = Hand \o wire
<1> DEFINE l == IF phase = "body" THEN LengthBytes(dir, Len(buffer)) ELSE <<>>
           old == SubSeq(buffer, 1, have)
           new == SubSeq(bytes, 1, have + k)
<1>1. /\ buffer \in Seq(Byte) /\ have \in Nat /\ have < Len(buffer) /\ wire \in Seq(Byte)
      /\ k \in Nat /\ have + k <= Len(buffer) /\ bytes \in Seq(Byte)
      /\ Len(bytes) = Len(buffer) /\ wire' \in Seq(Byte) /\ new \o wire' = old \o wire
  BY DEF StreamInv, SendInv, SendType, ReadType, BufferFits, Piece
<1>2. l \in Seq(Byte)  BY <1>1, LengthBytesFacts
<1>3. old \in Seq(Byte) /\ new \in Seq(Byte)  BY <1>1
<1>4. InHand(dir, phase, bytes, have + k) = l \o new /\ Hand = l \o old
  BY <1>1 DEF InHand, Hand
<1> HIDE DEF l, old, new
<1>5. (l \o new) \o wire' = l \o (new \o wire')
  <2>1. l \in Seq(Byte) /\ new \in Seq(Byte) /\ wire' \in Seq(Byte)  BY <1>1, <1>2, <1>3
  <2> QED  BY <2>1, ConcatAssociative, SMTT(30)
<1>6. (l \o old) \o wire = l \o (old \o wire)
  <2>1. l \in Seq(Byte) /\ old \in Seq(Byte) /\ wire \in Seq(Byte)  BY <1>1, <1>2, <1>3
  <2> QED  BY <2>1, ConcatAssociative, SMTT(30)
<1>7. l \o new \in Seq(Byte)  BY <1>2, <1>3, ConcatProperties
<1> QED  BY <1>1, <1>4, <1>5, <1>6, <1>7

\* What a read leaves alone, and what it has to establish.
LEMMA ReadLeaves ==
    ASSUME StreamInv, NEW k, NEW bytes, Piece(k, bytes),
           buffer' \in Seq(Byte), have' \in 0..Len(buffer'), got' \in Seq(Bodies),
           phase' \in {"size", "body"}, reader' = "up",
           stream = PacketsOf(dir, got')
                       \o (InHand(dir, phase', buffer', have') \o wire'),
           GoesOn(got', sent), BufferFits'
    PROVE  StreamInv'
<1>1. SendType /\ ReadType /\ OneSends /\ TurnsTaken  BY DEF StreamInv, SendInv
<1>2. /\ UNCHANGED <<dir, holder, body, rest, alive, stream, sent>> /\ wire' \in Seq(Byte)
      /\ sent \in Seq(Bodies)
  BY <1>1 DEF Piece, sendVars, SendType, ReadType
<1>3. SendType' /\ ReadType'  BY <1>1, <1>2 DEF SendType, ReadType
<1>4. OneSends'  BY <1>1, <1>2 DEF OneSends
<1>5. TurnsTaken'
  <2>1. Begun' = Begun /\ Left' = Left  BY <1>2 DEF Begun, Left, Sending
  <2>2. Begun \in Seq(Bodies)  BY <1>1, SendingFacts
  <2>3. stream \o Left = PacketsOf(dir, Begun)  BY <1>1, <2>2, TurnsAre
  <2> QED  BY <1>2, <2>1, <2>2, <2>3, TurnsAre
<1>6. Aligned'
  <2> DEFINE hand == InHand(dir, phase', buffer', have')
  <2>1. hand \in Seq(Byte)  BY InHandFacts
  <2> HIDE DEF hand
  <2>2. PlaceIs(dir, stream, got', hand, wire')  BY <1>2, <2>1, PlaceTail DEF hand
  <2> QED  BY <1>2, <2>2, AlignedIs DEF hand
<1>7. MessagesIntact'
  <2>1. IsPrefix(got', sent)  BY <1>2, PrefixIs
  <2> QED  BY <1>2, <2>1 DEF MessagesIntact
<1> QED  BY <1>3, <1>4, <1>5, <1>6, <1>7 DEF StreamInv, SendInv

\* The server reads nothing but whole packets, or does not read from clients here.
Orderly == ~Prompt \/ "up" \notin Directions

\* A step hands over the next message, or none.
Collects == /\ Len(got) < Len(sent)
            /\ got' = Append(got, sent[Len(got) + 1])

LEMMA PartialKeeps ==
    ASSUME Orderly, StreamInv, ReadNBytes, NEW k, NEW bytes,
           Piece(k, bytes), Partial(k, bytes)
    PROVE  StreamInv' /\ UNCHANGED got
<1> DEFINE hand == InHand(dir, phase, bytes, have + k)
<1>1. /\ SendType /\ ReadType /\ OneSends /\ BufferFits /\ reader = "up" /\ wire # <<>>
      /\ wire \in Seq(Byte) /\ buffer \in Seq(Byte) /\ have \in Nat
      /\ got \in Seq(Bodies) /\ sent \in Seq(Bodies) /\ dir \in Directions
      /\ phase \in {"size", "body"}
  BY DEF StreamInv, SendInv, SendType, ReadType, ReadNBytes
<1>2. /\ k \in Nat \ {0} /\ have + k < Len(buffer) /\ bytes \in Seq(Byte)
      /\ Len(bytes) = Len(buffer) /\ wire' = <<>>
      /\ UNCHANGED <<dir, holder, body, rest, alive, stream, sent, phase, reader, got>>
      /\ buffer' = bytes /\ have' = have + k
  BY DEF Piece, Partial, sendVars
<1>3. /\ Hand \in Seq(Byte) /\ stream = PacketsOf(dir, got) \o (Hand \o wire)
      /\ GoesOn(got, sent) /\ GoesOn(sent, Begun)
  BY <1>1, ReaderPlace
<1>4. hand \in Seq(Byte) /\ hand \o wire' = Hand \o wire
  BY <1>1, PieceInHand
<1>5. hand = Hand \o wire
  <2> HIDE DEF hand
  <2>1. hand \o <<>> = hand  BY <1>4
  <2> QED  BY <1>2, <1>4, <2>1
<1>6. Len(hand) = (IF phase = "body" THEN Width ELSE 0) + (have + k)
  <2>1. have + k \in 0..Len(bytes)  BY <1>1, <1>2
  <2> QED  BY <1>2, <2>1, InHandFacts
<1> HIDE DEF hand
<1>7. dir = "up" => ~alive
  <2> SUFFICES ASSUME dir = "up", alive PROVE FALSE
    OBVIOUS
  <2>1. ArrivedWhole  BY <1>1 DEF Orderly, ReadNBytes
  <2>2. hand # <<>>
    <3>1. Len(hand) > 0  BY <1>1, <1>2, <1>6, BaseFacts
    <3> QED  BY <3>1
  <2> DEFINE c == sent[Len(got) + 1]
             p == PacketOf(dir, c)
  <2>3. PICK r \in Seq(Byte) : Len(got) < Len(sent) /\ hand = p \o r
    BY <1>1, <1>5, <2>1, <2>2, WholeArrived
  <2>4. c \in Bodies  BY <1>1, <2>3
  <2>5. p \in Seq(Byte) /\ Len(p) = Width + Len(c) /\ Len(c) \in Nat  BY <2>4, BodyFacts
  <2>6. phase = "body" => Len(buffer) = Len(c)
    <3> HAVE phase = "body"
    <3>1. Len(buffer) = Len(Begun[Len(got) + 1])  BY <1>1 DEF BufferFits
    <3>2. Begun[Len(got) + 1] = c
      <4>1. Len(got) + 1 \in 1..Len(sent)  BY <1>1, <2>3
      <4> QED  BY <1>3, <4>1 DEF GoesOn
    <3> QED  BY <3>1, <3>2
  <2>7. phase = "size" => Len(buffer) = Width  BY <1>1 DEF BufferFits
  <2> HIDE DEF p, c
  <2>8. Len(hand) = Len(p) + Len(r) /\ Len(r) \in Nat
    <3>1. p \in Seq(Byte) /\ r \in Seq(Byte)  BY <2>3, <2>5
    <3>2. Len(p \o r) = Len(p) + Len(r) /\ Len(r) \in Nat  BY <3>1
    <3> QED  BY <2>3, <3>2
  <2> QED  BY <1>1, <1>2, <1>6, <2>5, <2>6, <2>7, <2>8, BaseFacts
<1>8. BufferFits'
  <2>1. Begun' = Begun  BY <1>2 DEF Begun, Sending
  <2>2. /\ phase = "size" => Len(bytes) = Width
        /\ phase = "body" => /\ Len(got) < Len(Begun)
                             /\ Len(bytes) = Len(Begun[Len(got) + 1])
    BY <1>1, <1>2 DEF BufferFits
  <2> QED  BY <1>2, <1>7, <2>1, <2>2 DEF BufferFits
<1>9. have' \in 0..Len(buffer')  BY <1>1, <1>2
<1>10. stream = PacketsOf(dir, got') \o (InHand(dir, phase', buffer', have') \o wire')
  BY <1>2, <1>3, <1>4 DEF hand
<1> QED  BY <1>1, <1>2, <1>3, <1>8, <1>9, <1>10, ReadLeaves

LEMMA BlankFacts ==
    ASSUME NEW n \in Nat
    PROVE  Blank(n) \in Seq(Byte) /\ Len(Blank(n)) = n /\ SubSeq(Blank(n), 1, 0) = <<>>
<1>1. Blank(n) \in [1..n -> Byte]  BY BaseFacts DEF Blank
<1> QED  BY <1>1

\* The length is there: it is the length of the next message begun.
LEMMA SizeKeeps ==
    ASSUME StreamInv, ReadNBytes, NEW k, NEW bytes, Piece(k, bytes),
           have + k = Len(buffer), phase = "size", HaveSize(bytes)
    PROVE  StreamInv' /\ UNCHANGED got
<1> DEFINE n == Len(got)
           c == Begun[n + 1]
           l == LengthBytes(dir, Len(c))
<1>1. /\ SendType /\ ReadType /\ OneSends /\ BufferFits /\ reader = "up" /\ wire # <<>>
      /\ wire \in Seq(Byte) /\ buffer \in Seq(Byte) /\ have \in Nat
      /\ got \in Seq(Bodies) /\ sent \in Seq(Bodies)
  BY DEF StreamInv, SendInv, SendType, ReadType, ReadNBytes
<1>2. /\ bytes \in Seq(Byte) /\ Len(bytes) = Width /\ wire' \in Seq(Byte)
      /\ UNCHANGED <<dir, holder, body, rest, alive, stream, sent>>
  BY <1>1 DEF Piece, BufferFits, sendVars
<1>3. /\ Hand \in Seq(Byte) /\ stream = PacketsOf(dir, got) \o (Hand \o wire)
      /\ GoesOn(got, sent) /\ GoesOn(got, Begun)
      /\ Follows(dir, got, Begun, (Hand \o wire) \o Left)
  BY <1>1, ReaderPlace
<1>4. Begun \in Seq(Bodies) /\ Left \in Seq(Byte)  BY <1>1, SendingFacts
<1>5. bytes \o wire' = Hand \o wire
  <2>1. InHand(dir, "size", bytes, Len(bytes)) = <<>> \o SubSeq(bytes, 1, Len(bytes))
    BY DEF InHand
  <2>2. SubSeq(bytes, 1, Len(bytes)) = bytes  BY <1>2, SubSeqFull
  <2>3. InHand(dir, phase, bytes, have + k) \o wire' = Hand \o wire
    BY <1>1, PieceInHand
  <2>4. have + k = Len(bytes)  BY DEF Piece
  <2>5. <<>> \o bytes = bytes  BY <1>2
  <2> QED  BY <2>1, <2>2, <2>3, <2>4, <2>5
<1>6. n \in Nat /\ n < Len(Begun)
  <2> DEFINE t == (Hand \o wire) \o Left
  <2>1. Len(t) = Width + Len(wire') + Len(Left) /\ Len(wire') \in Nat /\ Len(Left) \in Nat
    BY <1>2, <1>4, <1>5
  <2>2. t # <<>>
    <3> HIDE DEF t
    <3> QED  BY <2>1, BaseFacts
  <2> HIDE DEF t
  <2>3. n # Len(Begun)  BY <1>3, <2>2 DEF Follows, t
  <2>4. n <= Len(Begun) /\ n \in Nat /\ Len(Begun) \in Nat  BY <1>1, <1>3, <1>4 DEF GoesOn
  <2> QED  BY <2>3, <2>4
<1>7. c \in Bodies  BY <1>4, <1>6
<1>8. /\ c \in Seq(Byte) /\ Len(c) \in Nat \ {0} /\ Len(c) < Power[Width] \div 2
      /\ l \in Seq(Byte) /\ Len(l) = Width
  BY <1>7, BodyFacts, LengthBytesFacts
<1>9. PICK r \in Seq(Byte) : (Hand \o wire) \o Left = (l \o c) \o r
  BY <1>3, <1>6 DEF Follows, PacketOf
<1> HIDE DEF c, l
<1>10. bytes = l
  <2>1. (bytes \o wire') \o Left = bytes \o (wire' \o Left)
    <3>1. bytes \in Seq(Byte) /\ wire' \in Seq(Byte) /\ Left \in Seq(Byte)  BY <1>2, <1>4
    <3> QED  BY <3>1, ConcatAssociative, SMTT(30)
  <2>2. (l \o c) \o r = l \o (c \o r)
    <3>1. l \in Seq(Byte) /\ c \in Seq(Byte) /\ r \in Seq(Byte)  BY <1>8
    <3> QED  BY <3>1, ConcatAssociative, SMTT(30)
  <2> DEFINE h == wire' \o Left
             z == c \o r
  <2>3. h \in Seq(Byte) /\ z \in Seq(Byte)  BY <1>2, <1>4, <1>8, ConcatProperties
  <2>4. bytes \o h = l \o z  BY <1>5, <1>9, <2>1, <2>2
  <2> HIDE DEF h, z
  <2> QED  BY <1>2, <1>8, <2>3, <2>4, SameCut
<1>11. SizeOf(bytes) = Len(c)  BY <1>8, <1>10, ReaderReadsLength DEF l
<1>12. /\ phase' = "body" /\ buffer' = Blank(Len(c)) /\ have' = 0
       /\ reader' = "up" /\ got' = got
  <2>1. SizeOf(bytes) > 0  BY <1>8, <1>11
  <2> QED  BY <1>1, <1>11, <2>1 DEF HaveSize
<1>13. buffer' \in Seq(Byte) /\ Len(buffer') = Len(c) /\ SubSeq(buffer', 1, 0) = <<>>
  BY <1>8, <1>12, BlankFacts
<1>14. InHand(dir, phase', buffer', have') = bytes
  <2>1. InHand(dir, phase', buffer', have') = l \o <<>>  BY <1>12, <1>13 DEF InHand, l
  <2> QED  BY <1>8, <1>10, <2>1
<1>15. BufferFits'
  <2>1. Begun' = Begun  BY <1>2 DEF Begun, Sending
  <2> QED  BY <1>6, <1>8, <1>12, <1>13, <2>1 DEF BufferFits, c
<1>16. stream = PacketsOf(dir, got') \o (InHand(dir, phase', buffer', have') \o wire')
  BY <1>3, <1>5, <1>12, <1>14
<1>17. have' \in 0..Len(buffer')  BY <1>8, <1>12, <1>13
<1> QED  BY <1>1, <1>3, <1>12, <1>13, <1>15, <1>16, <1>17, ReadLeaves

\* The message is there: it is the next one sent.
LEMMA MessageKeeps ==
    ASSUME StreamInv, ReadNBytes, NEW k, NEW bytes, Piece(k, bytes),
           have + k = Len(buffer), phase = "body", HaveMessage(bytes)
    PROVE  StreamInv' /\ Collects
<1> DEFINE n == Len(got)
           c == Begun[n + 1]
           l == LengthBytes(dir, Len(c))
<1>1. /\ SendType /\ ReadType /\ OneSends /\ BufferFits /\ reader = "up"
      /\ wire \in Seq(Byte) /\ buffer \in Seq(Byte) /\ have \in Nat
      /\ got \in Seq(Bodies) /\ sent \in Seq(Bodies)
  BY DEF StreamInv, SendInv, SendType, ReadType, ReadNBytes
<1>2. n \in Nat /\ n < Len(Begun) /\ Len(buffer) = Len(c)
  BY <1>1 DEF BufferFits
<1>3. /\ bytes \in Seq(Byte) /\ Len(bytes) = Len(c) /\ wire' \in Seq(Byte)
      /\ UNCHANGED <<dir, holder, body, rest, alive, stream, sent>>
  BY <1>2 DEF Piece, sendVars
<1>4. /\ Hand \in Seq(Byte) /\ stream = PacketsOf(dir, got) \o (Hand \o wire)
      /\ GoesOn(got, sent) /\ GoesOn(sent, Begun)
      /\ Follows(dir, got, Begun, (Hand \o wire) \o Left)
  BY <1>1, ReaderPlace
<1>5. /\ Begun \in Seq(Bodies) /\ Left \in Seq(Byte)
      /\ Len(Begun) <= Len(sent) + 1 /\ (Left = <<>> => Begun = sent)
  BY <1>1, SendingFacts
<1>6. c \in Bodies  BY <1>2, <1>5
<1>7. /\ c \in Seq(Byte) /\ Len(c) \in Nat \ {0}
      /\ l \in Seq(Byte) /\ Len(l) = Width
  BY <1>6, BodyFacts, LengthBytesFacts
<1>8. PICK r \in Seq(Byte) : /\ (Hand \o wire) \o Left = (l \o c) \o r
                             /\ n + 1 = Len(Begun) => r = <<>>
  BY <1>2, <1>4 DEF Follows, PacketOf
<1>9. (l \o bytes) \o wire' = Hand \o wire
  <2>1. InHand(dir, phase, bytes, have + k) \o wire' = Hand \o wire
    BY <1>1, PieceInHand
  <2>2. InHand(dir, phase, bytes, Len(bytes)) = l \o SubSeq(bytes, 1, Len(bytes))
    BY <1>3 DEF InHand
  <2>3. SubSeq(bytes, 1, Len(bytes)) = bytes  BY <1>3, SubSeqFull
  <2>4. have + k = Len(bytes)  BY <1>2, <1>3
  <2> QED  BY <2>1, <2>2, <2>3, <2>4
<1> HIDE DEF c, l
<1>10. bytes = c /\ wire' \o Left = r
  <2> DEFINE h == l \o bytes
             e == l \o c
             z == wire' \o Left
  <2>1. h \in Seq(Byte) /\ e \in Seq(Byte) /\ Len(h) = Len(e)
    <3>1. l \in Seq(Byte) /\ bytes \in Seq(Byte) /\ c \in Seq(Byte)
      BY <1>3, <1>7
    <3>2. /\ h \in Seq(Byte) /\ Len(h) = Len(l) + Len(bytes)
          /\ e \in Seq(Byte) /\ Len(e) = Len(l) + Len(c)
      BY <3>1, ConcatProperties, SMTT(30)
    <3>3. Len(bytes) = Len(c)  BY <1>3
    <3> HIDE DEF h, e
    <3> QED  BY <3>2, <3>3
  <2>2. z \in Seq(Byte)  BY <1>3, <1>5, ConcatProperties
  <2>3. wire' \in Seq(Byte) /\ Left \in Seq(Byte)  BY <1>3, <1>5
  <2> HIDE DEF h, e
  <2>4. (h \o wire') \o Left = h \o (wire' \o Left)
    <3>1. h \in Seq(Byte) /\ wire' \in Seq(Byte) /\ Left \in Seq(Byte)  BY <2>1, <2>3
    <3> QED  BY <3>1, ConcatAssociative, SMTT(30)
  <2>5. h \o z = e \o r  BY <1>8, <1>9, <2>4 DEF h, e
  <2> HIDE DEF z
  <2>6. h = e /\ z = r  BY <2>1, <2>2, <2>5, SameCut
  <2>7. l \o bytes = l \o c  BY <2>6 DEF h, e
  <2>8. bytes = c  BY <1>3, <1>7, <2>7, CancelFirst
  <2> QED  BY <2>6, <2>8 DEF z
<1>11. n < Len(sent)
  <2> SUFFICES ASSUME ~(n < Len(sent)) PROVE FALSE
    OBVIOUS
  <2>1. Len(sent) \in Nat /\ Len(Begun) \in Nat  BY <1>1, <1>5
  <2>2. n + 1 = Len(Begun)  BY <1>2, <1>5, <2>1
  <2>3. wire' \o Left = <<>>  BY <1>8, <1>10, <2>2
  <2>4. Len(wire' \o Left) = Len(wire') + Len(Left)  BY <1>3, <1>5
  <2>5. Len(Left) = 0
    <3>1. Len(wire' \o Left) = 0  BY <2>3
    <3>2. Len(wire') \in Nat /\ Len(Left) \in Nat  BY <1>3, <1>5
    <3> QED  BY <2>4, <3>1, <3>2
  <2>6. Begun = sent  BY <1>5, <2>5
  <2> QED  BY <1>2, <2>6
<1>12. sent[n + 1] = c
  <2>1. n + 1 \in 1..Len(sent)  BY <1>1, <1>2, <1>11
  <2> QED  BY <1>4, <2>1 DEF GoesOn, c
<1>13. /\ got' = Append(got, c) /\ phase' = "size" /\ buffer' = Blank(Width)
       /\ have' = 0 /\ reader' = "up"
  BY <1>1, <1>10 DEF HaveMessage
<1>14. /\ buffer' \in Seq(Byte) /\ Len(buffer') = Width /\ SubSeq(buffer', 1, 0) = <<>>
  BY <1>13, BlankFacts, BaseFacts
<1>15. got' \in Seq(Bodies) /\ Len(got') = n + 1 /\ got'[n + 1] = c
       /\ \A i \in 1..n : got'[i] = got[i]
  BY <1>1, <1>6, <1>13
<1>16. GoesOn(got', sent)
  <2>1. Len(got') <= Len(sent)  BY <1>1, <1>2, <1>11, <1>15
  <2>2. ASSUME NEW i \in 1..Len(got') PROVE sent[i] = got'[i]
    <3>1. CASE i = n + 1  BY <1>12, <1>15, <3>1
    <3>2. CASE i # n + 1
      <4>1. i \in 1..n  BY <1>2, <1>15, <3>2
      <4> QED  BY <1>4, <1>15, <4>1 DEF GoesOn
    <3> QED  BY <3>1, <3>2
  <2> QED  BY <2>1, <2>2 DEF GoesOn
<1>17. stream = PacketsOf(dir, got') \o (InHand(dir, phase', buffer', have') \o wire')
  <2> DEFINE P == PacketsOf(dir, got)
             p == l \o c
  <2>1. P \in Seq(Byte) /\ p \in Seq(Byte) /\ wire' \in Seq(Byte)
    BY <1>1, <1>3, <1>7, PacketsOfFacts, ConcatProperties
  <2>2. PacketsOf(dir, got') = P \o p
    <3>1. PacketOf(dir, c) = p  BY DEF PacketOf, l
    <3> QED  BY <1>1, <1>6, <1>13, <3>1, PacketsOfAppend
  <2>3. InHand(dir, phase', buffer', have') = <<>> \o <<>>  BY <1>13, <1>14 DEF InHand
  <2>4. stream = P \o (p \o wire')  BY <1>4, <1>9, <1>10
  <2> HIDE DEF P, p
  <2>5. (P \o p) \o wire' = P \o (p \o wire')  BY <2>1, ConcatAssociative, SMTT(30)
  <2>6. (<<>> \o <<>>) \o wire' = wire'  BY <2>1
  <2> QED  BY <2>2, <2>3, <2>4, <2>5, <2>6
<1>18. BufferFits'
  BY <1>13, <1>14, BaseFacts DEF BufferFits
<1>19. have' \in 0..Len(buffer')  BY <1>13, <1>14, BaseFacts
<1>20. Collects  BY <1>11, <1>12, <1>13 DEF Collects
<1> QED  BY <1>13, <1>14, <1>15, <1>16, <1>17, <1>18, <1>19, <1>20, ReadLeaves

LEMMA ReadKeeps ==
    ASSUME Orderly, StreamInv, ReadNBytes
    PROVE  StreamInv' /\ (UNCHANGED got \/ Collects)
<1>1. PICK k, bytes : /\ Piece(k, bytes)
                      /\ \/ Partial(k, bytes)
                         \/ have + k = Len(buffer) /\ phase = "size" /\ HaveSize(bytes)
                         \/ have + k = Len(buffer) /\ phase = "body" /\ HaveMessage(bytes)
  BY ReadIsPiece
<1>2. CASE Partial(k, bytes)  BY <1>1, <1>2, PartialKeeps
<1>3. CASE have + k = Len(buffer) /\ phase = "size" /\ HaveSize(bytes)
  BY <1>1, <1>3, SizeKeeps
<1>4. CASE have + k = Len(buffer) /\ phase = "body" /\ HaveMessage(bytes)
  BY <1>1, <1>4, MessageKeeps
<1> QED  BY <1>1, <1>2, <1>3, <1>4

-----------------------------------------------------------------------------
(* Theorems *)

LEMMA ReadEndKeeps ==
    ASSUME StreamInv, ReadEnd
    PROVE  StreamInv' /\ UNCHANGED got
<1>1. /\ reader' \in {"left", "down"}
      /\ UNCHANGED <<dir, holder, body, rest, alive, wire, phase, buffer, have, got,
                     stream, sent>>
  BY DEF ReadEnd, sendVars
<1>2. SendType' /\ ReadType' /\ OneSends'
  BY <1>1 DEF StreamInv, SendInv, SendType, ReadType, OneSends
<1>3. TurnsTaken'
  BY <1>1 DEF StreamInv, SendInv, TurnsTaken, Packets, Packet, Begun, Left, Sending
<1>4. Aligned' /\ BufferFits' /\ MessagesIntact'
  BY <1>1 DEF StreamInv, Aligned, BufferFits, MessagesIntact
<1> QED  BY <1>1, <1>2, <1>3, <1>4 DEF StreamInv, SendInv

LEMMA StartsRight ==
    ASSUME Init
    PROVE  StreamInv
<1>1. Begun = <<>> /\ Left = <<>> /\ Begun \in Seq(Bodies)
  BY DEF Init, Begun, Left, Sending
<1>2. SendType /\ OneSends
  BY StreamAssumption DEF Init, SendType, OneSends, Senders
<1>3. TurnsTaken
  <2>1. stream \o Left = PacketsOf(dir, Begun)
    BY <1>1, PacketsOfFacts DEF Init
  <2> QED  BY <1>1, <2>1, TurnsAre
<1>4. buffer = Blank(Width) /\ buffer \in Seq(Byte) /\ Len(buffer) = Width
      /\ SubSeq(buffer, 1, 0) = <<>>
  BY BaseFacts, BlankFacts DEF Init
<1>5. ReadType  BY <1>4 DEF Init, ReadType
<1>6. Aligned
  <2>1. InHand(dir, phase, buffer, have) = <<>>  BY <1>4 DEF Init, InHand
  <2>2. PlaceIs(dir, stream, got, InHand(dir, phase, buffer, have), wire)
    BY <2>1, PacketsOfFacts DEF Init, PlaceIs
  <2>3. got \in Seq(Bodies)  BY DEF Init
  <2> QED  BY <1>4, <2>2, <2>3, AlignedIs
<1>7. MessagesIntact
  <2>1. got \in Seq(Bodies) /\ sent = got  BY DEF Init
  <2>2. GoesOn(got, got)  BY <2>1, GoesOnItself
  <2> QED  BY <2>1, <2>2, PrefixIs DEF MessagesIntact
<1>8. BufferFits  BY <1>4, BaseFacts DEF Init, BufferFits
<1> QED  BY <1>2, <1>3, <1>5, <1>6, <1>7, <1>8 DEF StreamInv, SendInv

\* The loops of a client take turns on the socket, and so does the server's one
\* thread: sock_semaphore is enough for the bytes of packets never to mix, however
\* the reader reads them.
THEOREM PacketsDoNotMix == Spec => []TurnsTaken
<1>1. Init => SendInv  BY StartsRight DEF StreamInv
<1>2. SendInv /\ [Next]_vars => SendInv'
  <2> SUFFICES ASSUME SendInv, [Next]_vars PROVE SendInv'
    OBVIOUS
  <2>1. ASSUME UNCHANGED <<dir, sendVars, stream, sent>> PROVE SendInv'
    <3>1. UNCHANGED <<dir, holder, body, rest, alive, stream, sent>>
      BY <2>1 DEF sendVars
    <3>2. SendType' /\ OneSends'  BY <3>1 DEF SendInv, SendType, OneSends
    <3>3. TurnsTaken'
      BY <3>1 DEF SendInv, TurnsTaken, Packets, Packet, Begun, Left, Sending
    <3> QED  BY <3>2, <3>3 DEF SendInv
  <2>2. CASE ReaderNext
    BY <2>1, <2>2 DEF ReaderNext, ReadNBytes, ReadEnd
  <2>3. CASE SenderEnds \/ \E t \in Senders : ReleaseSock(t)
    BY <2>3, ReleaseMoves DEF NothingArrives
  <2>4. ASSUME NEW t \in Senders, WaitSock(t) PROVE SendInv'
    BY <2>4, WaitSockMoves DEF NothingArrives
  <2>5. ASSUME NEW t \in Senders, SendAsync(t) PROVE SendInv'
    BY <2>5, SendAsyncMoves DEF SendMove
  <2>6. CASE UNCHANGED vars
    BY <2>1, <2>6 DEF vars
  <2> QED  BY <2>2, <2>3, <2>4, <2>5, <2>6 DEF Next
<1>3. SendInv => TurnsTaken  BY DEF SendInv
<1> QED  BY <1>1, <1>2, <1>3, PTL DEF Spec

\* What the messages do in a step: nothing, one more sent, or the next one read.
Moves == \/ UNCHANGED <<sent, got>>
         \/ UNCHANGED got /\ \E b \in Bodies : sent' = Append(sent, b)
         \/ UNCHANGED sent /\ Collects

LEMMA StepKeeps ==
    ASSUME Orderly, StreamInv, [Next]_vars
    PROVE  StreamInv' /\ Moves
<1>1. ASSUME NothingArrives PROVE StreamInv' /\ Moves
  <2>1. SendMove(<<>>)  BY <1>1, NothingArrivesIs
  <2>2. UNCHANGED <<sent, got>>  BY <1>1 DEF NothingArrives, readVars
  <2> QED  BY <2>1, <2>2, SendKeeps DEF Moves
<1>2. SendInv  BY DEF StreamInv
<1>3. CASE SenderEnds \/ \E t \in Senders : ReleaseSock(t)
  BY <1>1, <1>2, <1>3, ReleaseMoves
<1>4. ASSUME NEW t \in Senders, WaitSock(t) PROVE StreamInv' /\ Moves
  BY <1>1, <1>2, <1>4, WaitSockMoves
<1>5. ASSUME NEW t \in Senders, SendAsync(t) PROVE StreamInv' /\ Moves
  <2>1. PICK p : SendMove(p)  BY <1>2, <1>5, SendAsyncMoves
  <2>2. StreamInv'  BY <2>1, SendKeeps
  <2>3. rest[t] # <<>> /\ t # None
    BY <1>5, StreamAssumption DEF SendAsync, Senders
  <2>4. body[t] \in Bodies  BY <1>2, <2>3 DEF SendInv, OneSends
  <2>5. UNCHANGED got /\ (sent' = sent \/ sent' = Append(sent, body[t]))
    BY <1>5 DEF SendAsync, readVars
  <2> QED  BY <2>2, <2>4, <2>5 DEF Moves
<1>6. CASE ReadNBytes
  <2>1. UNCHANGED sent  BY <1>6 DEF ReadNBytes
  <2> QED  BY <1>6, <2>1, ReadKeeps DEF Moves
<1>7. CASE ReadEnd
  <2>1. UNCHANGED sent  BY <1>7 DEF ReadEnd
  <2> QED  BY <1>7, <2>1, ReadEndKeeps DEF Moves
<1>8. CASE UNCHANGED vars
  <2>1. UNCHANGED <<dir, holder, body, rest, alive, wire, phase, buffer, have, reader,
                    got, stream, sent>>
    BY <1>8 DEF vars, sendVars, readVars
  <2>2. SendType' /\ ReadType' /\ OneSends'
    BY <2>1 DEF StreamInv, SendInv, SendType, ReadType, OneSends
  <2>3. TurnsTaken'
    BY <2>1 DEF StreamInv, SendInv, TurnsTaken, Packets, Packet, Begun, Left, Sending
  <2>4. Aligned' /\ MessagesIntact'
    BY <2>1 DEF StreamInv, Aligned, Packets, Packet, Consumed, MessagesIntact
  <2>5. BufferFits'
    BY <2>1 DEF StreamInv, BufferFits, Begun, Sending
  <2> QED  BY <2>1, <2>2, <2>3, <2>4, <2>5 DEF StreamInv, SendInv, Moves
<1> QED  BY <1>3, <1>4, <1>5, <1>6, <1>7, <1>8 DEF Next, ReaderNext

LEMMA StreamInvHolds ==
    ASSUME Orderly
    PROVE  Spec => []StreamInv
<1>1. Init => StreamInv  BY StartsRight
<1>2. StreamInv /\ [Next]_vars => StreamInv'  BY StepKeeps
<1> QED  BY <1>1, <1>2, PTL DEF Spec

\* The readers never lose their place: the client's, which asks for the rest of its
\* buffer, however the bytes arrive; the server's, which stores every piece at the
\* start of its buffer, when it reads a client's packet only once it is all there.
THEOREM ReadersKeepTheirPlace ==
    ASSUME ~Prompt \/ "up" \notin Directions
    PROVE  Spec => []Aligned
<1>1. StreamInv => Aligned  BY DEF StreamInv
<1>2. Spec => []StreamInv  BY StreamInvHolds DEF Orderly
<1> QED  BY <1>1, <1>2, PTL

\* Under the same condition every message read is the message sent at its place.
THEOREM MessagesArriveIntact ==
    ASSUME ~Prompt \/ "up" \notin Directions
    PROVE  Spec => []MessagesIntact
<1>1. StreamInv => MessagesIntact  BY DEF StreamInv
<1>2. Spec => []StreamInv  BY StreamInvHolds DEF Orderly
<1> QED  BY <1>1, <1>2, PTL

\* And the byte stream is a packet channel: a packet is sent when its last byte is
\* handed over and collected when its last byte is read; no other step of either
\* side changes what was sent and what was read.
THEOREM ImplementsChannel ==
    ASSUME ~Prompt \/ "up" \notin Directions
    PROVE  Spec => Channel!Spec
<1>1. Init => Channel!Init  BY DEF Init, Channel!Init
<1>2. StreamInv /\ [Next]_vars => [Channel!Next]_(Channel!vars)
  <2> SUFFICES ASSUME StreamInv, [Next]_vars PROVE [Channel!Next]_(Channel!vars)
    OBVIOUS
  <2>1. Moves  BY StepKeeps DEF Orderly
  <2>2. CASE UNCHANGED <<sent, got>>
    BY <2>2 DEF Channel!vars
  <2>3. CASE UNCHANGED got /\ \E b \in Bodies : sent' = Append(sent, b)
    BY <2>3 DEF Channel!Next, Channel!Submit
  <2>4. CASE UNCHANGED sent /\ Collects
    BY <2>4 DEF Collects, Channel!Next, Channel!Collect
  <2> QED  BY <2>1, <2>2, <2>3, <2>4 DEF Moves
<1>3. Spec => []StreamInv  BY StreamInvHolds DEF Orderly
<1> QED  BY <1>1, <1>2, <1>3, PTL DEF Spec, Channel!Spec

-----------------------------------------------------------------------------
(* Remainders *)

LEMMA DivMod ==
    ASSUME NEW u \in Nat, NEW p \in Nat \ {0}
    PROVE  u = p * (u \div p) + (u % p) /\ u % p \in 0..p - 1 /\ u \div p \in Nat
  OBVIOUS

LEMMA ModUnique ==
    ASSUME NEW p \in Nat \ {0}, NEW q \in Nat, NEW r \in 0..p - 1
    PROVE  (p * q + r) % p = r
  OBVIOUS

LEMMA ModAdd ==
    ASSUME NEW p \in Nat \ {0}, NEW k \in Nat, NEW w \in Nat
    PROVE  (p * k + w) % p = w % p
<1> DEFINE q == w \div p
           r == w % p
<1>1. w = p * q + r /\ r \in 0..p - 1 /\ q \in Nat  BY DivMod
<1> HIDE DEF q, r
<1>2. p * k + w = p * (k + q) + r  BY <1>1
<1>3. k + q \in Nat  BY <1>1
<1> QED  BY <1>1, <1>2, <1>3, ModUnique DEF r

LEMMA ModMul ==
    ASSUME NEW p \in Nat \ {0}, NEW u \in Nat, NEW v \in Nat
    PROVE  ((u % p) * v) % p = (u * v) % p
<1> DEFINE q == u \div p
           r == u % p
<1>1. u = p * q + r /\ r \in Nat /\ q \in Nat  BY DivMod
<1> HIDE DEF q, r
<1>2. u * v = p * (q * v) + r * v  BY <1>1
<1>3. q * v \in Nat /\ r * v \in Nat  BY <1>1
<1>4. (p * (q * v) + r * v) % p = (r * v) % p  BY <1>3, ModAdd
<1> QED  BY <1>2, <1>4 DEF r

\* Both factors may be reduced first.
LEMMA ModMulBoth ==
    ASSUME NEW p \in Nat \ {0}, NEW u \in Nat, NEW v \in Nat
    PROVE  ((u % p) * (v % p)) % p = (u * v) % p
<1>1. u % p \in Nat /\ v % p \in Nat  BY DivMod
<1>2. ((u % p) * (v % p)) % p = (u * (v % p)) % p  BY <1>1, ModMul
<1>3. u * (v % p) = (v % p) * u /\ u * v = v * u  BY <1>1
<1>4. ((v % p) * u) % p = (v * u) % p  BY ModMul
<1> QED  BY <1>2, <1>3, <1>4

-----------------------------------------------------------------------------
(* ModPow *)

LEMMA PrimeFacts ==
    /\ prime \in Nat \ {0} /\ prime > 2 /\ prime % 2 = 1 /\ 1 % prime = 1
    /\ Bits \in Nat \ {0} /\ a = 2 /\ Unset = prime
  BY ArithmeticAssumption DEF a, Unset

\* The recursive function in ModPow is one, and its values are residues.
LEMMA ModPowDef ==
    ASSUME NEW b \in Nat
    PROVE  /\ ModPow(b, 0) = 1
           /\ \A n \in Nat : /\ ModPow(b, n) \in 0..prime - 1
                             /\ ModPow(b, n + 1) = (ModPow(b, n) * b) % prime
<1> DEFINE S == 0..prime - 1
           one == 1 % prime
           step == [t \in (Nat \ {0}) \X S |-> (t[2] * b) % prime]
           Is(f) == f = [n \in Nat |->
                           IF n = 0 THEN 1 % prime ELSE (f[n - 1] * b) % prime]
           P == CHOOSE f : Is(f)
<1>1. one \in S  BY PrimeFacts
<1>2. \A i \in Nat \ {0}, v \in S : step[<<i, v>>] = (v * b) % prime
  OBVIOUS
<1>3. \A v \in S : (v * b) % prime \in S
  <2> TAKE v \in S
  <2>1. v * b \in Nat  BY PrimeFacts
  <2> QED  BY <2>1, PrimeFacts, DivMod
<1>4. PICK f \in [Nat -> S] : Recurs(f, one, step)
  <2>1. Steps(S, step)  BY <1>2, <1>3 DEF Steps
  <2> HIDE DEF S, step, one
  <2> QED  BY <1>1, <2>1, NatRecursion
<1>5. \A i \in Nat \ {0} : f[i] = (f[i - 1] * b) % prime
  <2> TAKE i \in Nat \ {0}
  <2>1. f[i - 1] \in S
    <3> HIDE DEF S, step
    <3> QED  BY <1>4
  <2>2. f[i] = step[<<i, f[i - 1]>>]  BY <1>4 DEF Recurs
  <2>3. step[<<i, f[i - 1]>>] = (f[i - 1] * b) % prime  BY <1>2, <2>1
  <2> QED  BY <2>2, <2>3
<1>6. Is(f)
  <2> HIDE DEF S, step
  <2>1. f = [n \in Nat |-> f[n]]  BY <1>4
  <2>2. \A n \in Nat : f[n] = IF n = 0 THEN 1 % prime ELSE (f[n - 1] * b) % prime
    BY <1>4, <1>5 DEF Recurs
  <2> QED  BY <2>1, <2>2
<1>7. Is(P)  BY <1>6
<1>8. \A n \in Nat : ModPow(b, n) = P[n]  BY DEF ModPow
<1> HIDE DEF P
<1>9. P[0] = 1 % prime /\ \A n \in Nat : P[n + 1] = (P[n] * b) % prime
  <2>1. \A n \in Nat : P[n] = IF n = 0 THEN 1 % prime ELSE (P[n - 1] * b) % prime
    BY <1>7
  <2>2. \A n \in Nat : n + 1 \in Nat /\ n + 1 # 0 /\ (n + 1) - 1 = n
    OBVIOUS
  <2> QED  BY <2>1, <2>2
<1> DEFINE G == {n \in Nat : P[n] \in S}
<1>10. \A n \in Nat : n \in G
  <2>1. 0 \in G  BY <1>1, <1>9
  <2>2. \A n \in Nat : n \in G => n + 1 \in G  BY <1>3, <1>9
  <2> HIDE DEF G
  <2> QED  BY <2>1, <2>2, SetInduction
<1> QED  BY <1>8, <1>9, <1>10, PrimeFacts

LEMMA ModPowType == \A b, n \in Nat : ModPow(b, n) \in Nat /\ ModPow(b, n) < prime
  BY ModPowDef, PrimeFacts

\* 1 has the power 1.
LEMMA PowOne == \A n \in Nat : ModPow(1, n) = 1
<1> DEFINE G == {n \in Nat : ModPow(1, n) = 1}
<1>1. 0 \in G  BY ModPowDef
<1>2. \A n \in Nat : n \in G => n + 1 \in G  BY ModPowDef, PrimeFacts
<1> HIDE DEF G
<1>3. \A n \in Nat : n \in G  BY <1>1, <1>2, SetInduction
<1> QED  BY <1>3 DEF G

\* A power of a product is the product of the powers.
LEMMA PowMul ==
    ASSUME NEW b \in Nat, NEW c \in Nat
    PROVE  \A n \in Nat :
               ModPow((b * c) % prime, n) = (ModPow(b, n) * ModPow(c, n)) % prime
<1> DEFINE d == (b * c) % prime
           G == {n \in Nat : ModPow(d, n) = (ModPow(b, n) * ModPow(c, n)) % prime}
<1>1. b * c \in Nat /\ d \in Nat  BY PrimeFacts, DivMod
<1>2. 0 \in G
  <2>1. ModPow(d, 0) = 1 /\ ModPow(b, 0) = 1 /\ ModPow(c, 0) = 1  BY <1>1, ModPowDef
  <2> QED  BY <2>1, PrimeFacts
<1>3. ASSUME NEW n \in Nat, n \in G PROVE n + 1 \in G
  <2> DEFINE B == ModPow(b, n)
             C == ModPow(c, n)
  <2>1. B \in Nat /\ C \in Nat  BY ModPowType
  <2>2. ModPow(d, n) = (B * C) % prime  BY <1>3
  <2>3. ModPow(d, n + 1) = (ModPow(d, n) * d) % prime  BY <1>1, ModPowDef
  <2>4. ModPow(b, n + 1) = (B * b) % prime /\ ModPow(c, n + 1) = (C * c) % prime
    BY ModPowDef
  <2> HIDE DEF B, C
  <2>5. B * C \in Nat /\ B * b \in Nat /\ C * c \in Nat  BY <2>1
  <2>6. (((B * C) % prime) * d) % prime = ((B * C) * (b * c)) % prime
    BY <1>1, <2>5, ModMulBoth, PrimeFacts
  <2>7. (((B * b) % prime) * ((C * c) % prime)) % prime = ((B * b) * (C * c)) % prime
    BY <2>5, ModMulBoth, PrimeFacts
  <2>8. (B * C) * (b * c) = (B * b) * (C * c)  BY <2>1
  <2> QED  BY <2>2, <2>3, <2>4, <2>6, <2>7, <2>8
<1> HIDE DEF G
<1>4. \A n \in Nat : n \in G  BY <1>2, <1>3, SetInduction
<1> QED  BY <1>4 DEF G

\* What makes Diffie-Hellman work: the exponents may be applied in any order.
LEMMA PowCommute ==
    ASSUME NEW b \in Nat, NEW e \in Nat
    PROVE  \A n \in Nat : ModPow(ModPow(b, n), e) = ModPow(ModPow(b, e), n)
<1> DEFINE E == ModPow(b, e)
           G == {n \in Nat : ModPow(ModPow(b, n), e) = ModPow(E, n)}
<1>1. E \in Nat  BY ModPowType
<1>2. 0 \in G  BY <1>1, ModPowDef, PowOne
<1>3. ASSUME NEW n \in Nat, n \in G PROVE n + 1 \in G
  <2> DEFINE B == ModPow(b, n)
  <2>1. B \in Nat  BY ModPowType
  <2>2. ModPow(b, n + 1) = (B * b) % prime  BY ModPowDef
  <2>3. ModPow((B * b) % prime, e) = (ModPow(B, e) * E) % prime  BY <2>1, PowMul
  <2>4. ModPow(B, e) = ModPow(E, n)  BY <1>3
  <2>5. ModPow(E, n + 1) = (ModPow(E, n) * E) % prime  BY <1>1, ModPowDef
  <2> QED  BY <2>2, <2>3, <2>4, <2>5
<1> HIDE DEF G
<1>4. \A n \in Nat : n \in G  BY <1>2, <1>3, SetInduction
<1> QED  BY <1>4 DEF G

-----------------------------------------------------------------------------
(* No number of a handshake is 0 *)

\* w can be cancelled: it has no factor in common with the modulus.
Cancels(w) == \A v \in Nat : (w * v) % prime = 0 => v % prime = 0

LEMMA TwoCancels == Cancels(2)
<1> SUFFICES ASSUME NEW v \in Nat, (2 * v) % prime = 0 PROVE v % prime = 0
  BY DEF Cancels
<1> DEFINE q == v \div prime
           r == v % prime
<1>1. v = prime * q + r /\ r \in 0..prime - 1 /\ q \in Nat  BY DivMod, PrimeFacts
<1> HIDE DEF q, r
<1>2. 2 * v = prime * (2 * q) + 2 * r /\ 2 * q \in Nat /\ 2 * r \in Nat
  BY <1>1, PrimeFacts
<1>3. (2 * r) % prime = 0
  <2> DEFINE k == 2 * q
             w == 2 * r
  <2>1. k \in Nat /\ w \in Nat /\ 2 * v = prime * k + w  BY <1>2
  <2> HIDE DEF k, w
  <2>2. (prime * k + w) % prime = w % prime  BY <2>1, ModAdd, PrimeFacts
  <2> QED  BY <2>1, <2>2 DEF w
<1>4. CASE 2 * r < prime
  BY <1>1, <1>3, <1>4, PrimeFacts DEF r
<1>5. CASE 2 * r >= prime
  <2>1. 2 * r - prime \in 0..prime - 1  BY <1>1, <1>5, PrimeFacts
  <2>2. 2 * r = prime * 1 + (2 * r - prime)  BY <1>1, PrimeFacts
  <2>3. (2 * r) % prime = 2 * r - prime  BY <2>1, <2>2, ModUnique, PrimeFacts
  <2>4. 2 * r = prime  BY <1>1, <1>3, <2>3, PrimeFacts
  <2>5. (2 * r) % 2 = 0  BY <1>1
  <2> QED  BY <2>4, <2>5, PrimeFacts
<1> QED  BY <1>1, <1>4, <1>5, PrimeFacts

LEMMA PowCancels ==
    ASSUME NEW w \in Nat, Cancels(w)
    PROVE  \A n \in Nat : Cancels(ModPow(w, n))
<1> DEFINE G == {n \in Nat : Cancels(ModPow(w, n))}
<1>1. 0 \in G
  <2>1. \A v \in Nat : 1 * v = v  OBVIOUS
  <2> QED  BY <2>1, ModPowDef DEF Cancels
<1>2. ASSUME NEW n \in Nat, n \in G PROVE n + 1 \in G
  <2> DEFINE W == ModPow(w, n)
  <2>1. W \in Nat /\ Cancels(W)  BY <1>2, ModPowType
  <2>2. ModPow(w, n + 1) = (W * w) % prime  BY ModPowDef
  <2> HIDE DEF W
  <2>3. ASSUME NEW v \in Nat, (((W * w) % prime) * v) % prime = 0
        PROVE  v % prime = 0
    <3>1. W * w \in Nat /\ w * v \in Nat  BY <2>1
    <3>2. ((W * w) * v) % prime = 0  BY <2>3, <3>1, ModMul, PrimeFacts
    <3>3. (W * w) * v = W * (w * v)  BY <2>1
    <3>4. (w * v) % prime = 0  BY <2>1, <3>1, <3>2, <3>3 DEF Cancels
    <3> QED  BY <3>4 DEF Cancels
  <2> QED  BY <2>2, <2>3 DEF Cancels
<1> HIDE DEF G
<1>3. \A n \in Nat : n \in G  BY <1>1, <1>2, SetInduction
<1> QED  BY <1>3 DEF G

LEMMA CancelsNotZero == ~Cancels(0)
<1>1. (0 * 1) % prime = 0 /\ 1 % prime # 0  BY PrimeFacts
<1> QED  BY <1>1 DEF Cancels

\* Neither a number that is sent nor a secret made from it is 0.
LEMMA NumbersNotZero ==
    \A m, n \in Nat : ModPow(a, m) # 0 /\ ModPow(ModPow(a, m), n) # 0
<1> TAKE m, n \in Nat
<1>1. ModPow(2, m) \in Nat /\ Cancels(ModPow(2, m))  BY TwoCancels, PowCancels, ModPowType
<1>2. Cancels(ModPow(ModPow(2, m), n))  BY <1>1, PowCancels
<1> QED  BY <1>1, <1>2, CancelsNotZero, PrimeFacts

-----------------------------------------------------------------------------
(* Bits and bytes *)

LEMMA Pow2Def ==
    /\ Pow2[0] = 1
    /\ \A n \in Nat : Pow2[n] \in Nat /\ Pow2[n + 1] = 2 * Pow2[n] /\ Pow2[n] > n
<1> DEFINE step == [t \in (Nat \ {0}) \X Nat |-> 2 * t[2]]
           Is(f) == f = [n \in Nat |-> IF n = 0 THEN 1 ELSE 2 * f[n - 1]]
<1>1. Steps(Nat, step)  BY DEF Steps
<1>2. PICK f \in [Nat -> Nat] : Recurs(f, 1, step)
  <2> HIDE DEF step
  <2> QED  BY <1>1, NatRecursion
<1>3. Is(f)
  <2>1. f = [n \in Nat |-> f[n]]  BY <1>2
  <2>2. \A i \in Nat \ {0} : f[i] = step[<<i, f[i - 1]>>]  BY <1>2 DEF Recurs
  <2>3. \A i \in Nat \ {0} : f[i - 1] \in Nat  BY <1>2
  <2>4. \A i \in Nat \ {0} : f[i] = 2 * f[i - 1]  BY <2>2, <2>3
  <2>5. \A n \in Nat : f[n] = IF n = 0 THEN 1 ELSE 2 * f[n - 1]
    BY <1>2, <2>4 DEF Recurs
  <2> QED  BY <2>1, <2>5
<1>4. Is(Pow2)  BY <1>3 DEF Pow2
<1>5. Pow2[0] = 1 /\ \A n \in Nat : Pow2[n + 1] = 2 * Pow2[n]
  <2>1. \A n \in Nat : Pow2[n] = IF n = 0 THEN 1 ELSE 2 * Pow2[n - 1]  BY <1>4
  <2>2. \A n \in Nat : n + 1 \in Nat /\ n + 1 # 0 /\ (n + 1) - 1 = n  OBVIOUS
  <2> QED  BY <2>1, <2>2
<1> DEFINE G == {n \in Nat : Pow2[n] \in Nat /\ Pow2[n] > n}
<1>6. 0 \in G /\ \A n \in Nat : n \in G => n + 1 \in G  BY <1>5
<1>7. \A n \in Nat : n \in G
  <2> HIDE DEF G
  <2> QED  BY <1>6, SetInduction
<1> QED  BY <1>5, <1>7

LEMMA Pow2Positive == \A n \in Nat : Pow2[n] \in Nat \ {0}
<1> TAKE n \in Nat
<1>1. Pow2[n] \in Nat /\ Pow2[n] > n  BY Pow2Def
<1> QED  BY <1>1

\* There is a number of bits: the search of mpz_sizeinbase ends.
LEMMA SizeDef ==
    ASSUME NEW n \in Nat
    PROVE  SizeInBase2(n) \in Nat \ {0}
<1> DEFINE Is(k) == n < Pow2[k] /\ (k = 1 \/ Pow2[k - 1] <= n)
           G == {m \in Nat : n < Pow2[m + 1] => \E k \in 1..m + 1 : Is(k)}
<1>1. 0 \in G  OBVIOUS
<1>2. ASSUME NEW m \in Nat, m \in G PROVE m + 1 \in G
  <2>1. CASE n < Pow2[m + 1]
    BY <1>2, <2>1
  <2>2. CASE ~(n < Pow2[m + 1])
    <3>1. Pow2[m + 1] <= n /\ ((m + 1) + 1) - 1 = m + 1  BY <2>2, Pow2Def
    <3> QED  BY <3>1
  <2> QED  BY <2>1, <2>2
<1>3. \A m \in Nat : m \in G
  <2> HIDE DEF G
  <2> QED  BY <1>1, <1>2, SetInduction
<1>4. n < Pow2[n + 1]  BY Pow2Def
<1>5. \E k \in 1..n + 1 : Is(k)  BY <1>3, <1>4
<1> QED  BY <1>5 DEF SizeInBase2

\* The bytes of a number are at least one, and fit the buffer of the server.
LEMMA MagnitudeLength ==
    ASSUME NEW n \in Nat
    PROVE  /\ Len(Magnitude(n)) \in Nat \ {0}
           /\ Len(Magnitude(n)) <= GuessSize(n)
           /\ Magnitude(n) \in Seq(Nat)
<1> DEFINE s == SizeInBase2(n)
           l == (s + Bits - 1) \div Bits
           q == s \div Bits
           r == s % Bits
<1>1. s \in Nat \ {0}  BY SizeDef
<1> HIDE DEF s
<1>2. s = Bits * q + r /\ r \in 0..Bits - 1 /\ q \in Nat  BY <1>1, DivMod, PrimeFacts
<1>3. s + Bits - 1 \in Nat  BY <1>1, PrimeFacts
<1>4. l \in Nat /\ \E e \in 0..Bits - 1 : s + Bits - 1 = Bits * l + e
  BY <1>3, DivMod, PrimeFacts
<1> HIDE DEF l, q, r
<1>5. PICK e \in 0..Bits - 1 : s + Bits - 1 = Bits * l + e  BY <1>4
<1>6. l # 0  BY <1>1, <1>5, PrimeFacts
<1>7. l <= q + 1
  <2>1. SUFFICES ASSUME l >= q + 2 PROVE FALSE  BY <1>2, <1>4
  <2>2. Bits * l >= Bits * (q + 2)  BY <1>2, <1>4, <2>1, PrimeFacts
  <2>3. Bits * (q + 2) = Bits * q + 2 * Bits  BY <1>2, PrimeFacts
  <2>4. Bits * l \in Nat /\ Bits * q \in Nat  BY <1>2, <1>4, PrimeFacts
  <2> QED  BY <1>2, <1>5, <2>2, <2>3, <2>4, PrimeFacts
<1>8. Len(Magnitude(n)) = l  BY <1>4 DEF Magnitude, l, s
<1>9. Magnitude(n) \in [1..l -> Nat]
  <2> DEFINE digit(i) == (n \div Pow2[Bits * (i - 1)]) % Pow2[Bits]
  <2>1. \A i \in 1..l : digit(i) \in Nat
    <3> TAKE i \in 1..l
    <3>1. Bits * (i - 1) \in Nat /\ Bits \in Nat  BY <1>4, PrimeFacts
    <3>2. Pow2[Bits * (i - 1)] \in Nat \ {0} /\ Pow2[Bits] \in Nat \ {0}
      BY <3>1, Pow2Positive
    <3>3. n \div Pow2[Bits * (i - 1)] \in Nat  BY <3>2, DivMod
    <3> DEFINE u == n \div Pow2[Bits * (i - 1)]
               p == Pow2[Bits]
    <3>4. u \in Nat /\ p \in Nat \ {0}  BY <3>2, <3>3
    <3> HIDE DEF u, p
    <3>5. u % p \in Nat  BY <3>4, DivMod
    <3> QED  BY <3>5 DEF u, p
  <2>2. Magnitude(n) = [i \in 1..l |-> digit(i)]  BY DEF Magnitude, l, s
  <2> HIDE DEF digit
  <2> QED  BY <2>1, <2>2
<1>10. Magnitude(n) \in Seq(Nat)  BY <1>4, <1>9
<1> QED  BY <1>4, <1>6, <1>7, <1>8, <1>10 DEF GuessSize, q, s

\* A number whose last byte has its sign bit clear is not negative.
LEMMA UnmaskedNotNegative ==
    ASSUME NEW k \in Nat \ {0}, NEW bytes \in [1..k -> Nat],
           bytes[k] < Pow2[Bits - 1]
    PROVE  ToNumber(bytes) \in Nat
<1> DEFINE step == [t \in (Nat \ {0}) \X Nat |->
                      IF t[1] <= k THEN t[2] + bytes[t[1]] * Pow2[Bits * (t[1] - 1)] ELSE 0]
           Is(f) == f = [i \in 0..k |-> IF i = 0 THEN 0
                                        ELSE f[i - 1] + bytes[i] * Pow2[Bits * (i - 1)]]
           value == CHOOSE f : Is(f)
<1>1. \A i \in 1..k : bytes[i] * Pow2[Bits * (i - 1)] \in Nat
  <2> TAKE i \in 1..k
  <2>1. Bits * (i - 1) \in Nat  BY PrimeFacts
  <2>2. Pow2[Bits * (i - 1)] \in Nat  BY <2>1, Pow2Def
  <2> QED  BY <2>2
<1>2. \A i \in Nat \ {0}, v \in Nat :
         step[<<i, v>>] = IF i <= k THEN v + bytes[i] * Pow2[Bits * (i - 1)] ELSE 0
  OBVIOUS
<1>3. Steps(Nat, step)
  <2> SUFFICES ASSUME NEW i \in Nat \ {0}, NEW v \in Nat PROVE step[<<i, v>>] \in Nat
    BY DEF Steps
  <2>1. CASE i <= k
    <3>1. bytes[i] * Pow2[Bits * (i - 1)] \in Nat  BY <1>1, <2>1
    <3> QED  BY <1>2, <2>1, <3>1
  <2>2. CASE ~(i <= k)  BY <1>2, <2>2
  <2> QED  BY <2>1, <2>2
<1>4. PICK f \in [0..k -> Nat] : Iterates(f, k, 0, step)
  <2> HIDE DEF step
  <2> QED  BY <1>3, FiniteRecursion
<1>5. Is(f)
  <2>1. f = [i \in 0..k |-> f[i]]  BY <1>4
  <2>2. \A i \in 1..k : f[i] = f[i - 1] + bytes[i] * Pow2[Bits * (i - 1)]
    <3> TAKE i \in 1..k
    <3>1. f[i] = step[<<i, f[i - 1]>>]  BY <1>4 DEF Iterates
    <3>2. i \in Nat \ {0} /\ f[i - 1] \in Nat /\ i <= k  BY <1>4
    <3> QED  BY <1>2, <3>1, <3>2
  <2>3. \A i \in 0..k : f[i] = IF i = 0 THEN 0
                               ELSE f[i - 1] + bytes[i] * Pow2[Bits * (i - 1)]
    BY <1>4, <2>2 DEF Iterates
  <2> QED  BY <2>1, <2>3
<1>6. Is(value)  BY <1>5
<1> HIDE DEF value
<1>7. \A i \in 0..k : value[i] = IF i = 0 THEN 0
                               ELSE value[i - 1] + bytes[i] * Pow2[Bits * (i - 1)]
  BY <1>6
<1> DEFINE G == {i \in Nat : i <= k => value[i] \in Nat}
<1>8. 0 \in G  BY <1>7
<1>9. ASSUME NEW i \in Nat, i \in G PROVE i + 1 \in G
  <2> SUFFICES ASSUME i + 1 <= k PROVE value[i + 1] \in Nat
    OBVIOUS
  <2>1. value[i] \in Nat  BY <1>9
  <2>2. i + 1 \in 1..k /\ (i + 1) - 1 = i  OBVIOUS
  <2>3. value[i + 1] = value[i] + bytes[i + 1] * Pow2[Bits * i]  BY <1>7, <2>2
  <2>4. bytes[i + 1] * Pow2[Bits * i] \in Nat  BY <1>1, <2>2
  <2> QED  BY <2>1, <2>3, <2>4
<1>10. \A i \in Nat : i \in G
  <2> HIDE DEF G
  <2> QED  BY <1>8, <1>9, SetInduction
<1>11. Len(bytes) = k /\ ~(bytes[k] >= Pow2[Bits - 1])
  <2>1. Bits - 1 \in Nat  BY PrimeFacts
  <2>2. bytes[k] \in Nat /\ Pow2[Bits - 1] \in Nat
    <3>1. \A n \in Nat : Pow2[n] \in Nat  BY Pow2Def
    <3> QED  BY <2>1, <3>1
  <2>3. Len(bytes) = k  OBVIOUS
  <2> QED  BY <2>2, <2>3
<1>12. ToNumber(bytes) = value[k]  BY <1>11 DEF ToNumber, value
<1> QED  BY <1>10, <1>12

\* So the client's generator never yields a negative exponent.
LEMMA DrawNotNegative ==
    ASSUME NEW bytes \in [1..Len(ToByteArray(prime)) -> DHByte]
    PROVE  ToNumber(MaskSign(bytes)) \in Nat
<1> DEFINE k == Len(ToByteArray(prime))
           masked == MaskSign(bytes)
<1>1. k \in Nat \ {0}
  <2>1. Len(Magnitude(prime)) \in Nat \ {0}  BY MagnitudeLength, PrimeFacts
  <2>2. Magnitude(prime) \in Seq(Nat)  BY MagnitudeLength, PrimeFacts
  <2> QED  BY <2>1, <2>2 DEF ToByteArray
<1>2. \A n \in Nat : Pow2[n] \in Nat \ {0}  BY Pow2Positive
<1>3. Bits \in Nat /\ Bits - 1 \in Nat  BY PrimeFacts
<1> HIDE DEF k
<1>4. bytes \in [1..k -> Nat] /\ Len(bytes) = k
  <2>1. DHByte \subseteq Nat  BY <1>2, <1>3 DEF DHByte
  <2>2. bytes \in [1..k -> Nat]  BY <2>1 DEF k
  <2> QED  BY <1>1, <2>2
<1>5. bytes[k] % Pow2[Bits - 1] \in 0..Pow2[Bits - 1] - 1
  <2>1. bytes[k] \in Nat /\ Pow2[Bits - 1] \in Nat \ {0}  BY <1>1, <1>2, <1>3, <1>4
  <2> QED  BY <2>1, DivMod
<1>6. masked \in [1..k -> Nat] /\ masked[k] < Pow2[Bits - 1]
  <2>1. masked = [bytes EXCEPT ![k] = bytes[k] % Pow2[Bits - 1]]  BY <1>4 DEF MaskSign
  <2>2. Pow2[Bits - 1] \in Nat  BY <1>2, <1>3
  <2> QED  BY <1>1, <1>4, <1>5, <2>1, <2>2
<1> HIDE DEF masked
<1> QED  BY <1>1, <1>6, UnmaskedNotNegative DEF masked

-----------------------------------------------------------------------------
(* The invariant *)

\* What each end has is what the code made of the two exponents.
Made ==
    /\ my_bignum # 0 => myPow \in 0..prime - 1 /\ my_bignum = ModPow(a, myPow)
    /\ my_num # Unset \/ secrets.server # Unset =>
          /\ my_bignum # 0 /\ my_num # Unset
          /\ x \in 0..prime - 1 /\ my_num = ModPow(a, x)
          /\ secrets.server = ModPow(my_bignum, x)
          /\ server_bytes = MpzExport(secrets.server)
    /\ secrets.client # Unset \/ client_bytes # <<>> =>
          /\ my_num # Unset
          /\ secrets.client = ModPow(my_num, myPow)
          /\ client_bytes = ToByteArray(secrets.client)

DHInv ==
    /\ secrets \in [client : 0..prime, server : 0..prime]
    /\ ExponentInRange /\ Made

LEMMA DHInitInv == DHInit => DHInv
  BY PrimeFacts DEF DHInit, DHInv, ExponentInRange, Made

LEMMA DHNextInv == DHInv /\ [DHNext]_dhVars => DHInv'
<1> SUFFICES ASSUME DHInv, [DHNext]_dhVars PROVE DHInv'
  OBVIOUS
<1>1. CASE MakeMyNum
  <2>1. PICK bytes \in [1..Len(ToByteArray(prime)) -> DHByte] :
            LET R == ToNumber(MaskSign(bytes))
            IN  InRange(R) /\ myPow' = R /\ my_bignum' = ModPow(a, R)
    BY <1>1 DEF MakeMyNum
  <2>2. myPow' \in Nat /\ myPow' <= prime - 1  BY <2>1, DrawNotNegative DEF InRange
  <2>3. myPow' \in 0..prime - 1 /\ my_bignum' = ModPow(a, myPow')
    BY <2>1, <2>2, PrimeFacts
  <2>4. my_bignum = 0 /\ UNCHANGED <<x, my_num, client_bytes, server_bytes, secrets>>
    BY <1>1 DEF MakeMyNum
  <2> QED  BY <2>3, <2>4 DEF DHInv, ExponentInRange, Made
<1>2. CASE ServerAnswers
  <2>1. PICK e \in 0..prime - 1 :
            /\ x' = e /\ my_num' = ModPow(a, e)
            /\ secrets' = [secrets EXCEPT !.server = ModPow(my_bignum, e)]
            /\ server_bytes' = MpzExport(ModPow(my_bignum, e))
    BY <1>2 DEF ServerAnswers, CalculateSharedSecret
  <2>2. my_bignum # 0 /\ my_num = Unset /\ UNCHANGED <<myPow, my_bignum, client_bytes>>
    BY <1>2 DEF ServerAnswers
  <2>3. my_bignum \in Nat /\ a \in Nat /\ e \in Nat
    <3>1. my_bignum = ModPow(a, myPow) /\ myPow \in Nat  BY <2>2 DEF DHInv, Made
    <3>2. a \in Nat /\ e \in Nat  BY PrimeFacts
    <3>3. ModPow(a, myPow) \in Nat  BY <3>1, <3>2, ModPowType
    <3> QED  BY <3>1, <3>2, <3>3
  <2>4. /\ ModPow(a, e) # Unset
        /\ ModPow(my_bignum, e) \in 0..prime /\ ModPow(my_bignum, e) # Unset
    <3>1. ModPow(a, e) \in Nat /\ ModPow(a, e) < prime  BY <2>3, ModPowType
    <3>2. ModPow(my_bignum, e) \in Nat /\ ModPow(my_bignum, e) < prime
      BY <2>3, ModPowType
    <3> QED  BY <3>1, <3>2, PrimeFacts
  <2> QED  BY <2>1, <2>2, <2>4 DEF DHInv, ExponentInRange, Made
<1>3. CASE GetSharedSecret
  <2>1. /\ my_num # Unset
        /\ secrets' = [secrets EXCEPT !.client = ModPow(my_num, myPow)]
        /\ client_bytes' = ToByteArray(ModPow(my_num, myPow))
        /\ UNCHANGED <<myPow, my_bignum, x, my_num, server_bytes>>
    BY <1>3 DEF GetSharedSecret
  <2>2. myPow \in Nat /\ a \in Nat /\ my_num \in Nat
    <3>1. my_num = ModPow(a, x) /\ x \in Nat /\ myPow \in Nat
      BY <2>1 DEF DHInv, Made
    <3>2. a \in Nat  BY PrimeFacts
    <3>3. ModPow(a, x) \in Nat  BY <3>1, <3>2, ModPowType
    <3> QED  BY <3>1, <3>2, <3>3
  <2>3. ModPow(my_num, myPow) \in 0..prime  BY <2>2, ModPowType, PrimeFacts
  <2> QED  BY <2>1, <2>3 DEF DHInv, ExponentInRange, Made
<1>4. CASE Again
  BY <1>4, PrimeFacts DEF Again, DHInv, ExponentInRange, Made
<1>5. CASE UNCHANGED dhVars
  BY <1>5 DEF dhVars, DHInv, ExponentInRange, Made
<1> QED  BY <1>1, <1>2, <1>3, <1>4, <1>5 DEF DHNext

LEMMA DHInvariance == DHSpec => []DHInv
  BY DHInitInv, DHNextInv, PTL DEF DHSpec

-----------------------------------------------------------------------------
\* GenerateRandomBigInteger never gives MakeMyNum a negative exponent, on which
\* ModPow would throw, nor one above prime - 1.
THEOREM ExponentsInRange == DHSpec => []ExponentInRange
<1>1. DHInv => ExponentInRange  BY DEF DHInv
<1> QED  BY <1>1, DHInvariance, PTL

\* GetSharedSecret on the client and CalculateSharedSecret on the server give
\* the same number for every pair of exponents, and never 0, for every odd
\* modulus: 2 has no factor in common with it, and neither has a power of 2.
THEOREM SecretsEqual == DHSpec => []SecretsAgree
<1>1. DHInv => SecretsAgree
  <2> SUFFICES ASSUME DHInv, secrets.client # Unset
               PROVE  secrets.client = secrets.server /\ secrets.client # 0
    BY DEF SecretsAgree
  <2>1. /\ secrets.client = ModPow(my_num, myPow) /\ my_num = ModPow(a, x)
        /\ secrets.server = ModPow(my_bignum, x) /\ my_bignum = ModPow(a, myPow)
        /\ myPow \in Nat /\ x \in Nat
    BY DEF DHInv, Made
  <2>2. a \in Nat  BY PrimeFacts
  <2>3. ModPow(ModPow(a, x), myPow) = ModPow(ModPow(a, myPow), x)
    BY <2>1, <2>2, PowCommute
  <2>4. ModPow(ModPow(a, x), myPow) # 0  BY <2>1, NumbersNotZero
  <2> QED  BY <2>1, <2>3, <2>4
<1> QED  BY <1>1, DHInvariance, PTL

\* mpz_export in GetShareSecretByte writes no more bytes than the buffer of
\* mpz_sizeinbase / 8 + 1 holds, whatever the secret is.
THEOREM ExportsFit == DHSpec => []ExportFits
<1>1. DHInv => ExportFits
  <2> SUFFICES ASSUME DHInv, secrets.server # Unset
               PROVE  Len(server_bytes) <= GuessSize(secrets.server)
    BY DEF ExportFits
  <2>1. server_bytes = MpzExport(secrets.server) /\ secrets.server \in Nat
    BY PrimeFacts DEF DHInv, Made
  <2>2. /\ Len(Magnitude(secrets.server)) <= GuessSize(secrets.server)
        /\ Len(Magnitude(secrets.server)) \in Nat
        /\ GuessSize(secrets.server) \in Int
    <3>1. SizeInBase2(secrets.server) \in Nat  BY <2>1, SizeDef
    <3>2. GuessSize(secrets.server) \in Int  BY <3>1, PrimeFacts DEF GuessSize
    <3> QED  BY <2>1, <3>2, MagnitudeLength
  <2>3. CASE secrets.server = 0
    <3>1. Len(server_bytes) = 0  BY <2>1, <2>3 DEF MpzExport
    <3> QED  BY <2>2, <3>1
  <2>4. CASE secrets.server # 0
    BY <2>1, <2>2, <2>4 DEF MpzExport
  <2> QED  BY <2>3, <2>4
<1> QED  BY <1>1, DHInvariance, PTL

\* The bytes ToByteArray gives the client and the bytes mpz_export gives the
\* server differ in exactly one way: a zero byte at the end of the client's
\* when the top bit of the secret is set.
THEOREM BytesDiffer == DHSpec => []BytesDifferByBit
<1>1. DHInv => BytesDifferByBit
  <2> SUFFICES ASSUME DHInv, client_bytes # <<>>
               PROVE  client_bytes = IF HighBit(secrets.server)
                                     THEN Append(server_bytes, 0) ELSE server_bytes
    BY DEF BytesDifferByBit
  <2>1. /\ secrets.client = ModPow(my_num, myPow) /\ my_num = ModPow(a, x)
        /\ secrets.server = ModPow(my_bignum, x) /\ my_bignum = ModPow(a, myPow)
        /\ myPow \in Nat /\ x \in Nat
        /\ client_bytes = ToByteArray(secrets.client)
        /\ server_bytes = MpzExport(secrets.server)
    BY DEF DHInv, Made
  <2>2. a \in Nat  BY PrimeFacts
  <2>3. ModPow(ModPow(a, x), myPow) = ModPow(ModPow(a, myPow), x)
    BY <2>1, <2>2, PowCommute
  <2>4. ModPow(ModPow(a, myPow), x) # 0  BY <2>1, NumbersNotZero
  <2>5. server_bytes = Magnitude(secrets.server)  BY <2>1, <2>4 DEF MpzExport
  <2>6. client_bytes = ToByteArray(secrets.server)  BY <2>1, <2>3
  <2> QED  BY <2>5, <2>6 DEF ToByteArray
<1> QED  BY <1>1, DHInvariance, PTL

=============================================================================
