--------------------------- MODULE CircularBuffer ---------------------------
(***************************************************************************)
(* circular_buffer.c: bytes in an array, between a read and a write index  *)
(* that only grow, but for a flush; an index is reduced by the capacity    *)
(* when it is used.  A call copies up to the end of the array and then the *)
(* rest from its start.                                                    *)
(***************************************************************************)
EXTENDS Integers, SequencesExt, FiniteSetsExt

CONSTANTS
    CBUFF_CAPACITY,   \* capacity of CbuffCreate
    CBUFF_BYTES,      \* the values of a byte
    CBUFF_CALL,       \* bound: the most bytes one call writes or reads
    SIZE_MODULUS      \* the number of values of an index, 2^64

\* There is an array of one byte more than the capacity.
ASSUME CbuffAssumption ==
    /\ CBUFF_CAPACITY \in Nat \ {0} /\ CBUFF_CALL \in Nat
    /\ SIZE_MODULUS \in Nat /\ CBUFF_CAPACITY + 1 < SIZE_MODULUS

VARIABLES
    cbuffArr,     \* the array, from 0; 0 in it was never written
    cbuffRead,    \* read_index
    cbuffWrite,   \* write_index
    cbuffReply,   \* the last call: the bytes it was given or read, and the number it returned
    cbuffAstray   \* history: the write index left its place by a wrap, and bytes are held since

cbuffVars == <<cbuffArr, cbuffRead, cbuffWrite, cbuffReply, cbuffAstray>>

RealCapacity == CBUFF_CAPACITY + 1

CbuffInit == /\ cbuffArr = [i \in 0 .. RealCapacity - 1 |-> 0]
             /\ cbuffRead = 0 /\ cbuffWrite = 0
             /\ cbuffReply = <<>> /\ cbuffAstray = FALSE

\* The arithmetic of size_t.
CbuffBytes == (cbuffWrite - cbuffRead) % SIZE_MODULUS

CbuffGetFreeSpace == (RealCapacity - cbuffWrite + cbuffRead - 1) % SIZE_MODULUS

\* The first chunk of a copy of n bytes from an index, the second begins at 0.
FirstChunk(index, n) == Min({n, RealCapacity - (index % RealCapacity)})

Stored_OneChunk(index, bytes) ==
    [i \in DOMAIN cbuffArr |->
        LET at == i - (index % RealCapacity) + 1
        IN  IF at \in 1 .. FirstChunk(index, Len(bytes)) THEN bytes[at] ELSE cbuffArr[i]]

Stored(index, bytes) ==
    LET first == FirstChunk(index, Len(bytes))
    IN  [i \in DOMAIN cbuffArr |->
            IF i - (index % RealCapacity) \in 0 .. first - 1
            THEN bytes[i - (index % RealCapacity) + 1]
            ELSE IF i < Len(bytes) - first THEN bytes[first + i + 1] ELSE cbuffArr[i]]

Fetched(index, n) ==
    [k \in 1 .. n |-> IF k <= FirstChunk(index, n) THEN cbuffArr[(index % RealCapacity) + k - 1]
                      ELSE cbuffArr[k - FirstChunk(index, n) - 1]]

\* An index that wraps stays in its place only if the real capacity divides its range,
\* which the code does not see to: it takes 2^64 bytes without a flush.
StaysInPlace(index, n) == index + n < SIZE_MODULUS \/ SIZE_MODULUS % RealCapacity = 0

CbuffWrite(src) ==
    LET n == Min({Len(src), CbuffGetFreeSpace})
    IN  /\ cbuffArr' = Stored(cbuffWrite, SubSeq(src, 1, n))
        /\ cbuffWrite' = (cbuffWrite + n) % SIZE_MODULUS
        /\ cbuffReply' = <<"write", src, n>>
        /\ cbuffAstray' = (cbuffAstray \/ ~StaysInPlace(cbuffWrite, n))
        /\ UNCHANGED cbuffRead

CbuffReadBytes(num) ==
    LET n == Min({num, CbuffBytes})
    IN  /\ cbuffReply' = <<"read", Fetched(cbuffRead, n), n>>
        /\ cbuffRead' = (cbuffRead + n) % SIZE_MODULUS
        /\ cbuffAstray' = (cbuffAstray /\ n < CbuffBytes)
        /\ UNCHANGED <<cbuffArr, cbuffWrite>>

CbuffFlush == /\ cbuffRead' = 0 /\ cbuffWrite' = 0 /\ cbuffReply' = <<>> /\ cbuffAstray' = FALSE
              /\ UNCHANGED cbuffArr

CbuffNext == \/ \E src \in BoundedSeq(CBUFF_BYTES, CBUFF_CALL) : CbuffWrite(src)
             \/ \E num \in 0 .. CBUFF_CALL : CbuffReadBytes(num)
             \/ CbuffFlush

CbuffSpec == CbuffInit /\ [][CbuffNext]_cbuffVars

-----------------------------------------------------------------------------
CbuffTypeOK ==
    /\ cbuffArr \in [0 .. RealCapacity - 1 -> CBUFF_BYTES \cup {0}]
    /\ cbuffRead \in 0 .. SIZE_MODULUS - 1 /\ cbuffWrite \in 0 .. SIZE_MODULUS - 1
    /\ cbuffAstray \in BOOLEAN

\* The bytes from the read index on.
CbuffHeld == [k \in 1 .. CbuffBytes |-> cbuffArr[(cbuffRead + k - 1) % RealCapacity]]

ByteQ == INSTANCE ByteQueue WITH
    Bytes <- CBUFF_BYTES, MaxCall <- CBUFF_CALL, Space <- CBUFF_CAPACITY,
    held <- CbuffHeld, reply <- cbuffReply, astray <- cbuffAstray

\* The buffer is a queue of bytes, of any capacity and through wraps of the array: what a
\* read gives is what was written and not yet read, oldest first.  Only between a wrap of
\* the write index out of its place and the next time that the buffer is empty does the
\* promise shrink to the numbers.
CbuffImplementsByteQueue == ByteQ!Spec
=============================================================================
