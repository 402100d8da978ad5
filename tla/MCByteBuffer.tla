---------------------------- MODULE MCByteBuffer -----------------------------
(***************************************************************************)
(* ByteBuffer with bytes of five values and strings over one character.    *)
(***************************************************************************)
EXTENDS ByteBuffer

AllTypes == {"bool", "uint8", "uint16", "time_t", "string"}
OneChar == {4}

==============================================================================
