---------------------------- MODULE DHArithmetic ----------------------------
(***************************************************************************)
(* The numbers of DHShare (client) and DHCalculator (server) as numbers:   *)
(* how exponents are drawn, what is sent, what is computed from it, and    *)
(* the bytes the keys are derived from.  The modulus of the code is odd;   *)
(* nothing here needs it to be prime.  A byte has Bits bits (8 in the      *)
(* code).                                                                  *)
(***************************************************************************)
EXTENDS Integers, Sequences

CONSTANTS prime,    \* the modulus, the same on both sides
          Bits

ASSUME ArithmeticAssumption ==
    /\ prime \in Nat /\ prime > 2 /\ prime % 2 = 1
    /\ Bits \in Nat \ {0}

\* Powers of two, as shifts make them.
Pow2[n \in Nat] == IF n = 0 THEN 1 ELSE 2 * Pow2[n - 1]

a      == 2          \* the generator
DHByte == 0..Pow2[Bits] - 1
Unset  == prime      \* no exponent or number yet

-----------------------------------------------------------------------------
(* Numbers and bytes *)

\* BigInteger.ModPow and mpz_powm; ModPow throws on a negative exponent.
ModPow(base, exponent) ==
    LET power[n \in Nat] ==
            IF n = 0 THEN 1 % prime ELSE (power[n - 1] * base) % prime
    IN  IF exponent < 0 THEN Unset ELSE power[exponent]

\* mpz_sizeinbase(n, 2): the number of bits; 1 for zero.
SizeInBase2(n) ==
    CHOOSE k \in 1..n + 1 : n < Pow2[k] /\ (k = 1 \/ Pow2[k - 1] <= n)

Magnitude(n) ==
    [i \in 1..((SizeInBase2(n) + Bits - 1) \div Bits) |->
        (n \div Pow2[Bits * (i - 1)]) % Pow2[Bits]]

\* mpz_export, least significant byte first; nothing is written for zero.
MpzExport(n) == IF n = 0 THEN <<>> ELSE Magnitude(n)

HighBit(n) == Magnitude(n)[Len(Magnitude(n))] >= Pow2[Bits - 1]

\* Mutant: the magnitude alone, read back as a negative number.
ToByteArrayUnsigned(n) == Magnitude(n)

\* BigInteger.ToByteArray: least significant byte first, two's complement.
ToByteArray(n) == IF HighBit(n) THEN Append(Magnitude(n), 0) ELSE Magnitude(n)

\* new BigInteger(bytes): two's complement.
ToNumber(bytes) ==
    LET k == Len(bytes)
        value[i \in 0..k] ==
            IF i = 0 THEN 0 ELSE value[i - 1] + bytes[i] * Pow2[Bits * (i - 1)]
    IN  IF bytes[k] >= Pow2[Bits - 1] THEN value[k] - Pow2[Bits * k] ELSE value[k]

\* Mutant: one byte too few when the bits fill whole bytes.
GuessRounded(n) == SizeInBase2(n) \div Bits

\* The buffer that GetShareSecretByte gives to mpz_export.
GuessSize(n) == SizeInBase2(n) \div Bits + 1

-----------------------------------------------------------------------------
VARIABLES
    myPow, my_bignum,         \* client: exponent and number sent
    x, my_num,                \* server: exponent and number sent
    client_bytes,             \* client: what its key is derived from
    server_bytes,             \* server: the same
    secrets                   \* the two values of shared_secret, for comparison

dhVars == <<myPow, my_bignum, x, my_num, client_bytes, server_bytes, secrets>>

DHInit ==
    /\ myPow = Unset /\ my_bignum = 0
    /\ x = 0 /\ my_num = Unset
    /\ client_bytes = <<>> /\ server_bytes = <<>>
    /\ secrets = [client |-> Unset, server |-> Unset]

\* Mutant: the sign bit is masked in the first byte.
MaskFirst(bytes) == [bytes EXCEPT ![1] = @ % Pow2[Bits - 1]]

\* bytes[bytes.Length - 1] &= 0x7F
MaskSign(bytes) == [bytes EXCEPT ![Len(bytes)] = @ % Pow2[Bits - 1]]

\* The loop of GenerateRandomBigInteger goes on while R > prime - 1.
InRange(R) == R <= prime - 1

\* The state setters draw only while my_bignum is 0.
MakeMyNum ==
    /\ my_bignum = 0
    /\ \E bytes \in [1..Len(ToByteArray(prime)) -> DHByte] :
          LET R == ToNumber(MaskSign(bytes))
          IN  /\ InRange(R)
              /\ myPow' = R
              /\ my_bignum' = ModPow(a, R)
    /\ UNCHANGED <<x, my_num, client_bytes, server_bytes, secrets>>

\* Mutant: called before SetMyNum.
SecretBeforeDraw(opponent, exponent) == ModPow(opponent, x)

CalculateSharedSecret(opponent, exponent) == ModPow(opponent, exponent)

\* SetMyNum, CalculateSharedSecret and GetShareSecretByte on a request;
\* mpz_urandomm draws below its bound.
ServerAnswers ==
    /\ my_bignum # 0 /\ my_num = Unset
    /\ \E e \in 0..prime - 1 :
          /\ x' = e
          /\ my_num' = ModPow(a, e)
          /\ secrets' = [secrets EXCEPT !.server = CalculateSharedSecret(my_bignum, e)]
          /\ server_bytes' = MpzExport(CalculateSharedSecret(my_bignum, e))
    /\ UNCHANGED <<myPow, my_bignum, client_bytes>>

\* GetSharedSecret when the answer is there.
GetSharedSecret ==
    /\ my_num # Unset /\ client_bytes = <<>>
    /\ secrets' = [secrets EXCEPT !.client = ModPow(my_num, myPow)]
    /\ client_bytes' = ToByteArray(ModPow(my_num, myPow))
    /\ UNCHANGED <<myPow, my_bignum, x, my_num, server_bytes>>

\* SetMyState_ToIdle sets my_bignum back; the next handshake draws again.
Again ==
    /\ client_bytes # <<>>
    /\ myPow' = myPow /\ my_bignum' = 0
    /\ x' = x /\ my_num' = Unset
    /\ client_bytes' = <<>> /\ server_bytes' = <<>>
    /\ secrets' = [client |-> Unset, server |-> Unset]

DHNext == MakeMyNum \/ ServerAnswers \/ GetSharedSecret \/ Again

DHSpec == DHInit /\ [][DHNext]_dhVars

-----------------------------------------------------------------------------
\* Whatever bytes the generator yields, the exponent is one of the residues,
\* never negative: the sign byte of ToByteArray is the one that is masked.
ExponentInRange == myPow \in 0..prime - 1 \/ (myPow = Unset /\ my_bignum = 0)

\* Both ends compute the same secret, although the modulus need not be prime,
\* and it is never 0, the value SetMyState_ToIdle uses for "none".
SecretsAgree ==
    secrets.client # Unset => secrets.client = secrets.server /\ secrets.client # 0

\* mpz_export stays inside the buffer GetShareSecretByte gave it.
ExportFits ==
    secrets.server # Unset => Len(server_bytes) <= GuessSize(secrets.server)

\* The bytes of the two ends are equal exactly when the secret's top bit is
\* clear; otherwise the client has one zero byte more.
BytesDifferByBit ==
    client_bytes # <<>> =>
        client_bytes = IF HighBit(secrets.server)
                       THEN Append(server_bytes, 0) ELSE server_bytes
=============================================================================
