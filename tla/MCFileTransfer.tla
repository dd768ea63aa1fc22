--------------------------- MODULE MCFileTransfer ---------------------------
(* Values of the constants for the runs of FileTransfer. *)
EXTENDS FileTransfer, TLC

\* Bytes are numbers, NUL is 0; names and the files' contents differ.
MCNUL == 0
MCByte == 1..9

CONSTANTS a, b

\* Three full reads and a short one.
LongFile == [p \in Senders |-> <<<<1, 2>>, <<3, 4>>, <<5, 6>>, <<7>>>>]

\* One full read and a short one.
ShortFile == [p \in Senders |-> <<<<1, 2>>, <<3>>>>]
TinyFile == [p \in Senders |-> IF p = a THEN <<<<1>>, <<3>>>> ELSE <<<<2>>>>]

\* For DATA_LEN = 1: every read but the empty one at the end is a full one.
ByteFile == [p \in Senders |-> IF p = a THEN <<<<1>>, <<2>>, <<3>>>> ELSE <<<<4>>, <<5>>>>]

MCName == [p \in Senders |-> <<9>>]
TwoNames == [p \in Senders |-> IF p = a THEN <<9>> ELSE <<8>>]
NameOfB == {<<8>>}
MCEcho == <<>>

\* The bytes that nobody wrote are the name of a's file.
EchoResidue == <<9>>
=============================================================================
