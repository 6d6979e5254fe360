------------------------------ MODULE Protocol ------------------------------
(***************************************************************************)
(* What the clients and the server exchange: the JSON messages of          *)
(* JsonController (both sides), the Diffie-Hellman numbers of DHShare and  *)
(* DHCalculator, and the keys derived from them.                           *)
(*                                                                         *)
(* Data is kept only as far as the properties tell it apart: a DH number   *)
(* is named by the process that drew the exponent and by how many it had   *)
(* drawn, a ciphertext is a record of the key it was made with and of its  *)
(* plaintext, and the text of a chat line, the IVs and the logs are gone.  *)
(***************************************************************************)
EXTENDS Naturals

CONSTANTS Clients,     \* client processes, one connection each
          Nick,        \* Nick[c]: the nickname typed in process c
          Null,        \* C#'s null, and the empty std::string
          HighSecrets  \* shared secrets whose most significant bit is set

ASSUME ProtocolAssumption ==
    /\ \A c \in Clients : Nick[c] \notin {"server", "group", Null}
    /\ Null \notin Clients \cup {"server", "group"}
    /\ "server" \notin Clients

Names == {Nick[c] : c \in Clients}
Peers == Names \cup {"server"}          \* possible keys of whoNkey_dic

-----------------------------------------------------------------------------
(* Diffie-Hellman numbers and keys *)

\* The number g^x, named by the process that drew x and the draw's index.
Num  == [by : Clients \cup {"server"}, n : Nat \ {0}]
Zero == [by |-> Null, n |-> 0]

NameOf(p) == IF p = "server" THEN "server" ELSE Nick[p]

\* GetSharedSecret, CalculateSharedSecret: g^(xy), whoever computes it.
SharedSecret(mine, theirs) == {mine, theirs}

\* A derived key is the HKDF of the secret's bytes, so two keys are equal
\* when the secrets and their encodings are.
Key   == [secret : SUBSET (Num \cup {Zero}), signbyte : BOOLEAN]
NoKey == [secret |-> {}, signbyte |-> FALSE]

\* BigInteger.ToByteArray is two's complement: a 0x00 byte follows the most
\* significant one when that has its top bit set.
ClientKey(s) == [secret |-> s, signbyte |-> s \in HighSecrets]

\* Mutant: a sign byte on the server too.
SignedServerKey(s) == [secret |-> s, signbyte |-> TRUE]

\* mpz_export writes the magnitude only.
ServerKey(s) == [secret |-> s, signbyte |-> FALSE]

-----------------------------------------------------------------------------
(* Messages *)

BuildJson(type, from, to, body) ==
    [type |-> type, from |-> from, to |-> to, body |-> body]

ChatMsgs   == [type : {"message"}, from : Names, to : {"group"}, body : Clients]
DhMsgs     == [type : {"dh"}, from : Peers, to : Peers, body : Num]
KeyMsgs    == [type : {"sender_key"}, from : Names, to : Names,
               body : [key : Key, val : Clients]]
EnterMsgs  == [type : {"enter"}, from : {"server"}, to : Names,
               body : [key : Key, name : Names]]
LeaveMsgs  == [type : {"leave"}, from : {"server"}, to : Names,
               body : [key : Key, name : Names \cup {Null}]]
Message    == ChatMsgs \cup DhMsgs \cup KeyMsgs \cup EnterMsgs \cup LeaveMsgs

\* A dh message carries a number of the process it names as its sender.
OwnNumber(m) == m.type = "dh" => NameOf(m.body.by) = m.from
=============================================================================
