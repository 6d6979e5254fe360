---------------------------- MODULE MCByteStream ----------------------------
(* Bytes are bits and the prefix has three: lengths 1, 2 and 3. *)
EXTENDS ByteStream

CONSTANTS H, K, I

MCBodies == {<<1>>, <<1, 0>>, <<0, 1, 1>>}
=============================================================================
