\* A small composite odd modulus and bytes of two bits.
SPECIFICATION DHSpec
CONSTANTS
    prime = 21
    Bits = 2
INVARIANTS ExponentInRange SecretsAgree ExportFits BytesDifferByBit
