------------------------------ MODULE MessBuf ------------------------------
(***************************************************************************)
(* The data area of the datagram buffers of p1: every process keeps ONE     *)
(* mess_buf for all its receptions and transmissions, treats its data area  *)
(* as a C string, and never clears it as a whole.  What a datagram leaves    *)
(* untouched is therefore still there when the next one is read.            *)
(***************************************************************************)
EXTENDS Integers, Sequences

CONSTANTS
    DATA_LEN,      \* bytes one read() may fill: MAX_MESS_LEN - sizeof(uhdr) - 1
    POINTER_SIZE,  \* sizeof(data_buf): data_buf is a pointer, so bzero clears this much
    Byte,          \* the bytes of file names and text files
    NUL,           \* '\0'
    Stack          \* the byte an uninitialised buffer is full of

ASSUME BufAssumption ==
    /\ DATA_LEN \in Nat \ {0}
    /\ POINTER_SIZE \in Nat \ {0}
    /\ NUL \notin Byte
    /\ Stack \in Byte \cup {NUL}

Cell == Byte \cup {NUL}

\* data_buf runs to the end of mess_buf: DATA_LEN bytes and room for one NUL.
BUF_LEN == DATA_LEN + 1

Buf == [1..BUF_LEN -> Cell]

Uninitialised == [i \in 1..BUF_LEN |-> Stack]

\* The data part of a datagram, as long as the sender chose to make it.
Payload == UNION {[1..n -> Cell] : n \in 0..BUF_LEN}

\* recvfrom() into a buffer: the bytes past the datagram keep their old value.
Overlay(buf, bytes) ==
    [i \in 1..BUF_LEN |-> IF i <= Len(bytes) THEN bytes[i] ELSE buf[i]]

\* strlen(): the distance to the first NUL (the whole buffer if it has none).
StrLen(buf) ==
    CHOOSE n \in 0..BUF_LEN :
        /\ \A i \in 1..n : buf[i] # NUL
        /\ n < BUF_LEN => buf[n + 1] = NUL

\* The C string a buffer holds, which is what "%s" writes and strlen measures.
Str(buf) == [i \in 1..StrLen(buf) |-> buf[i]]

\* bzero(data_buf, sizeof(data_buf)) clears the first POINTER_SIZE bytes only.
Bzero(buf) ==
    [i \in 1..BUF_LEN |-> IF i <= POINTER_SIZE THEN NUL ELSE buf[i]]
=============================================================================
