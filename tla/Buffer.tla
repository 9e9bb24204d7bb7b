-------------------------------- MODULE Buffer --------------------------------
(***************************************************************************)
(* zing::net::Buffer: a vector with a reader and a writer index, which     *)
(* grows, or moves its content to the front, when there is no room behind  *)
(* the content; readFd, which reads into the free room and a second block  *)
(* at once; prepend into the room in front.                                *)
(*                                                                         *)
(* The caller keeps to the asserts on its arguments (len <= readableBytes  *)
(* and the like are guards); ok records that the asserts on the Buffer's   *)
(* own arithmetic have held.  The variable content is what a queue of      *)
(* bytes would hold after the same calls.                                  *)
(***************************************************************************)
EXTENDS Integers, Sequences, SequencesExt

CONSTANTS
    Bytes,
    kCheapPrepend, kInitialSize,
    ExtraBuf,       \* the size of extrabuf in readFd (65536)
    Widths,         \* the sizes of the integer types, in bytes
    MaxLen,         \* bound: the longest piece that a call appends, reads or reserves
    MaxContent      \* bound: the longest content

SizeAssumption ==
    /\ kCheapPrepend \in Nat /\ kInitialSize \in Nat /\ ExtraBuf \in Nat
    /\ MaxLen \in Nat /\ MaxContent \in Nat
ByteAssumption ==
    /\ Cardinality(Bytes) \in Nat
    /\ Bytes = 0..(Cardinality(Bytes) - 1) /\ {0, 1} \subseteq Bytes

VARIABLES buffer_, readerIndex_, writerIndex_, ok, content

vars == <<buffer_, readerIndex_, writerIndex_, ok, content>>

-----------------------------------------------------------------------------
(* The operations on the three members, as functions of their values.      *)

\* the constructor
Fresh ==
    [buf |-> [i \in 1..(kCheapPrepend + kInitialSize) |-> 0],
     reader |-> kCheapPrepend, writer |-> kCheapPrepend, ok |-> TRUE]

readableBytes(b) == b.writer - b.reader
writableBytes(b) == Len(b.buf) - b.writer
prependableBytes(b) == b.reader
Readable(b) == SubSeq(b.buf, b.reader + 1, b.writer)

\* data copied to position pos (from 0) of buf
Copied(buf, pos, data) ==
    [i \in 1..Len(buf) |-> IF pos < i /\ i <= pos + Len(data) THEN data[i - pos] ELSE buf[i]]

\* vector::resize
Resized(buf, n) == [i \in 1..n |-> IF i <= Len(buf) THEN buf[i] ELSE 0]

\* even with the content moved to the front there would be no room for len bytes
MustGrow(b, len) == writableBytes(b) + prependableBytes(b) < len + kCheapPrepend

MakeSpace(b, len) ==
    IF MustGrow(b, len)
    THEN [b EXCEPT !.buf = Resized(b.buf, b.writer + len)]
    ELSE [buf |-> Copied(b.buf, kCheapPrepend, Readable(b)),
          reader |-> kCheapPrepend,
          writer |-> kCheapPrepend + readableBytes(b),
          ok |-> b.ok /\ kCheapPrepend < b.reader]

\* ensureWritableBytes, with the assert at its end
EnsureWritableBytes(b, len) ==
    LET c == IF writableBytes(b) < len THEN MakeSpace(b, len) ELSE b
    IN  [c EXCEPT !.ok = c.ok /\ writableBytes(c) >= len]

\* bytes written at beginWrite(), then hasWritten
HasWritten(b, data) ==
    [b EXCEPT !.buf = Copied(b.buf, b.writer, data), !.writer = b.writer + Len(data)]

AppendData(b, data) == HasWritten(EnsureWritableBytes(b, Len(data)), data)

\* retrieve; the last byte takes both indexes back to the front (retrieveAll)
Retrieve(b, len) ==
    IF len < readableBytes(b)
    THEN [b EXCEPT !.reader = b.reader + len]
    ELSE [b EXCEPT !.reader = kCheapPrepend, !.writer = kCheapPrepend]

Unwrite(b, len) == [b EXCEPT !.writer = b.writer - len]

Prepend(b, data) ==
    [b EXCEPT !.reader = b.reader - Len(data),
              !.buf = Copied(b.buf, b.reader - Len(data), data)]

\* shrink: a fresh Buffer gets the room and the content and takes the place of this one
Shrink(b, reserve) ==
    LET other == AppendData(EnsureWritableBytes(Fresh, readableBytes(b) + reserve), Readable(b))
    IN  [other EXCEPT !.ok = b.ok /\ other.ok]

\* mutant of ReadFd: the part in the vector is not counted before the rest is appended
ReadFdOverwrites(b, data) ==
    IF Len(data) <= writableBytes(b)
    THEN HasWritten(b, data)
    ELSE AppendData(b, SubSeq(data, writableBytes(b) + 1, Len(data)))

\* readFd: readv fills the room behind the content and then extrabuf, whose part is
\* appended afterwards
ReadFd(b, data) ==
    IF Len(data) <= writableBytes(b)
    THEN HasWritten(b, data)
    ELSE AppendData(HasWritten(b, SubSeq(data, 1, writableBytes(b))),
                    SubSeq(data, writableBytes(b) + 1, Len(data)))

\* what readv can deliver: extrabuf is offered only when the room is smaller
CanRead(b, n) == n <= writableBytes(b) + (IF writableBytes(b) < ExtraBuf THEN ExtraBuf ELSE 0)

-----------------------------------------------------------------------------
(* Integers of w bytes in network byte order, and searching.               *)

Radix == Cardinality(Bytes)   \* 256

\* A fact of arithmetic, which the provers do not know: they know nothing of ^.
PowerAssumption == \A w \in Widths : \A k \in 0..w : Radix^k \in Nat \ {0}

Ints(w) == (-(Radix^w \div 2))..((Radix^w - 1) \div 2)

\* an integer in the memory of a little endian host, and back
InMemory(x, w) == [k \in 1..w |-> (x \div Radix^(k - 1)) % Radix]
FromMemory(bytes) ==
    LET unsigned == FoldRight(LAMBDA byte, high : high * Radix + byte, bytes, 0)
    IN  IF unsigned \in Ints(Len(bytes)) THEN unsigned ELSE unsigned - Radix^Len(bytes)

\* mutant of hostToNetwork: the bytes of the host
hostToNetworkNot(bytes) == bytes

\* htobe16, htobe32, htobe64 and their inverses
hostToNetwork(bytes) == Reverse(bytes)
networkToHost(bytes) == Reverse(bytes)

PeekInt(b, w) == FromMemory(networkToHost(SubSeq(Readable(b), 1, w)))

NULL == -1
CR == 1
LF == 0

\* std::search for kCRLF and memchr for '\n', from position start to beginWrite()
FindCRLF(b, start) ==
    LET found == {k \in start..(b.writer - 2) : b.buf[k + 1] = CR /\ b.buf[k + 2] = LF}
    IN  IF found = {} THEN NULL ELSE Min(found)
FindEOL(b, start) ==
    LET found == {k \in start..(b.writer - 1) : b.buf[k + 1] = LF}
    IN  IF found = {} THEN NULL ELSE Min(found)

-----------------------------------------------------------------------------
this == [buf |-> buffer_, reader |-> readerIndex_, writer |-> writerIndex_, ok |-> ok]

Becomes(b) ==
    /\ buffer_' = b.buf
    /\ readerIndex_' = b.reader
    /\ writerIndex_' = b.writer
    /\ ok' = b.ok

Init ==
    /\ buffer_ = Fresh.buf
    /\ readerIndex_ = Fresh.reader
    /\ writerIndex_ = Fresh.writer
    /\ ok = TRUE
    /\ content = <<>>

\* append
DoAppend(data) ==
    /\ Becomes(AppendData(this, data))
    /\ content' = content \o data

\* ensureWritableBytes, called by a user who then writes at beginWrite()
DoEnsureWritableBytes(len) ==
    /\ Becomes(EnsureWritableBytes(this, len))
    /\ UNCHANGED content

\* hasWritten, after the user has written at beginWrite()
DoHasWritten(data) ==
    /\ Len(data) <= writableBytes(this)
    /\ Becomes(HasWritten(this, data))
    /\ content' = content \o data

\* retrieve, retrieveUntil, retrieveAll, retrieveAsString, read*
DoRetrieve(len) ==
    /\ len <= readableBytes(this)
    /\ Becomes(Retrieve(this, len))
    /\ content' = SubSeq(content, len + 1, Len(content))

DoUnwrite(len) ==
    /\ len <= readableBytes(this)
    /\ Becomes(Unwrite(this, len))
    /\ content' = SubSeq(content, 1, Len(content) - len)

\* prepend
DoPrepend(data) ==
    /\ Len(data) <= prependableBytes(this)
    /\ Becomes(Prepend(this, data))
    /\ content' = data \o content

\* the most significant byte first
BigEndian(x, w) == [k \in 1..w |-> (x \div Radix^(w - k)) % Radix]

\* appendInt8, appendInt16, appendInt32, appendInt64
DoAppendInt(x, w) ==
    /\ Becomes(AppendData(this, hostToNetwork(InMemory(x, w))))
    /\ content' = content \o BigEndian(x, w)

\* prependInt8, ...
DoPrependInt(x, w) ==
    /\ w <= prependableBytes(this)
    /\ Becomes(Prepend(this, hostToNetwork(InMemory(x, w))))
    /\ content' = BigEndian(x, w) \o content

DoShrink(reserve) ==
    /\ Becomes(Shrink(this, reserve))
    /\ UNCHANGED content

\* readFd that reads something (a failed or empty readv changes nothing)
DoReadFd(data) ==
    /\ CanRead(this, Len(data))
    /\ Becomes(ReadFd(this, data))
    /\ content' = content \o data

Pieces == UNION {[1..n -> Bytes] : n \in 0..MaxLen}

Fits(data) == Len(content) + Len(data) <= MaxContent

Next ==
    \/ \E data \in Pieces :
        /\ Fits(data)
        /\ DoAppend(data) \/ DoHasWritten(data) \/ DoPrepend(data) \/ DoReadFd(data)
    \/ \E w \in Widths : \E x \in Ints(w) :
        /\ Len(content) + w <= MaxContent
        /\ DoAppendInt(x, w) \/ DoPrependInt(x, w)
    \/ \E len \in 0..MaxLen : DoEnsureWritableBytes(len) \/ DoShrink(len)
    \/ \E len \in 0..MaxContent : DoRetrieve(len) \/ DoUnwrite(len)

Spec == Init /\ [][Next]_vars

-----------------------------------------------------------------------------
\* The diagram of Buffer.h:31-37: 0 <= readerIndex <= writerIndex <= size, over a vector
\* of bytes that never loses the room for prepending, used or not.
TypeOK ==
    /\ buffer_ \in Seq(Bytes)
    /\ readerIndex_ \in Nat /\ writerIndex_ \in Nat
    /\ readerIndex_ <= writerIndex_
    /\ writerIndex_ <= Len(buffer_)
    /\ kCheapPrepend <= Len(buffer_)
    /\ ok \in BOOLEAN

\* The asserts of makeSpace and ensureWritableBytes hold: content is only ever moved
\* to the front, and the room asked for is there (lines 188, 355, 362).
AssertsHold == ok

\* The bytes between the indexes are those of a queue of bytes, whatever was moved,
\* resized, read in two blocks or prepended.
ContentKept == Readable(this) = content

\* An integer is read back from the bytes that mean it in network byte order, negative
\* ones too, whatever the host's order is and wherever the bytes have been moved
\* (lines 209-312).
IntsRead ==
    \A w \in Widths :
        Len(content) >= w =>
            PeekInt(this, w) \in Ints(w) /\ BigEndian(PeekInt(this, w), w) = SubSeq(content, 1, w)

\* A search, from the front or from where an earlier one stopped, finds the first line
\* end of the content that lies wholly behind its start, and never one in the bytes
\* that are left behind the content (lines 73-99).
LineEndsFound ==
    \A start \in readerIndex_..writerIndex_ :
        LET skipped == start - readerIndex_
            LFs == {k \in 1..Len(content) : k > skipped /\ content[k] = LF}
            CRLFs == {k \in 1..(Len(content) - 1) :
                         k > skipped /\ content[k] = CR /\ content[k + 1] = LF}
            At(ks) == IF ks = {} THEN NULL ELSE readerIndex_ + Min(ks) - 1
        IN  FindEOL(this, start) = At(LFs) /\ FindCRLF(this, start) = At(CRLFs)

=============================================================================
