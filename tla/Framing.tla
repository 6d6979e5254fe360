------------------------------ MODULE Framing ------------------------------
(***************************************************************************)
(* Packets as bytes: a length of Width bytes, then the message.  The code  *)
(* has Width = 4 and Base = 256.  The client writes the length in its own, *)
(* little-endian, order and the server reads it that way; the server       *)
(* writes it in network order, which the client reverses.                  *)
(***************************************************************************)
EXTENDS Integers, SequencesExt

CONSTANTS Base,      \* values of a byte
          Width,     \* bytes of the length prefix
          Bodies     \* messages that are sent, as sequences of bytes

ASSUME BytesAssumption == Base \in Nat \ {0, 1} /\ Base % 2 = 0 /\ Width \in Nat \ {0}

Byte == 0..Base - 1

\* How many numbers n bytes can hold.
Power[n \in Nat] == IF n = 0 THEN 1 ELSE Base * Power[n - 1]

\* A message fits a non-negative int, and is never empty: it is a JSON object.
ASSUME BodiesAssumption ==
    \A b \in Bodies : b \in Seq(Byte) /\ Len(b) > 0 /\ Len(b) < Power[Width] \div 2

\* BitConverter.GetBytes and the memory of an int, both little-endian.
GetBytes(n) == [i \in 1..Width |-> (n \div Power[i - 1]) % Base]

\* BitConverter.ToInt32 and memcpy to an int: two's complement.
ToInt32(bytes) ==
    LET value[i \in 0..Width] ==
            IF i = 0 THEN 0 ELSE value[i - 1] + bytes[i] * Power[i - 1]
        n == value[Width]
    IN  IF n < Power[Width] \div 2 THEN n ELSE n - Power[Width]

\* The client's packet.
MakeBytesFormat(body) == GetBytes(Len(body)) \o body

\* The server's packet, with htonl.
MakePacket(size, message) == Reverse(GetBytes(size)) \o SubSeq(message, 1, size)

\* new byte[n], std::vector<char>(n)
Blank(n) == [i \in 1..n |-> 0]

\* The buffer after bytes were stored from position at + 1 on.
Store(buffer, at, bytes) ==
    [i \in DOMAIN buffer |->
        IF i \in at + 1..at + Len(bytes) THEN bytes[i - at] ELSE buffer[i]]
=============================================================================
