----------------------------- MODULE ReadSmallFile -----------------------------
(***************************************************************************)
(* zing::FileUtil::ReadSmallFile: readToString and readToBuffer.  The file *)
(* may grow meanwhile; read(2) may deliver less than was asked for, be     *)
(* interrupted, or fail.  The bytes of the file are their positions 1, 2,  *)
(* ...                                                                     *)
(***************************************************************************)
EXTENDS Integers, Sequences

CONSTANTS
    kBufferSize,   \* the size of buf_, 64 KB
    MaxFile        \* bound: the size of the file, and maxSize

SizeAssumption == kBufferSize \in Nat \ {0} /\ MaxFile \in Nat

Errors == {"EINTR", "EIO"}
Untouched == <<0>>     \* what content was before

VARIABLES
    kind, size,        \* the file: "regular", "directory", "none"; its size now
    maxSize,           \* the argument
    content, fileSize, \* the results; fileSize is -1 if the caller does not ask for it
    startSize,         \* history: the size when the file was opened
    err,
    buf_,              \* what buf_ holds, the terminating zero included
    pc                 \* "open", "stat", "read", "return"

vars == <<kind, size, maxSize, content, fileSize, startSize, err, buf_, pc>>

Nul == 0

Init ==
    /\ kind \in {"regular", "directory", "none"}
    /\ size \in 0..MaxFile /\ startSize = size
    /\ maxSize \in 0..MaxFile
    /\ content = Untouched /\ fileSize = -1
    /\ err = "0"
    /\ buf_ = <<Nul>>
    /\ pc = "open"

Grow ==
    /\ kind = "regular" /\ size < MaxFile
    /\ size' = size + 1
    /\ UNCHANGED <<kind, maxSize, content, fileSize, startSize, err, buf_, pc>>

\* the constructor; readToString clears the content, and has fstat called if fileSize is
\* asked for
Open ==
    /\ pc = "open"
    /\ \/ /\ kind = "none"
          /\ err' = "ENOENT" /\ pc' = "return"
          /\ UNCHANGED <<content, startSize>>
       \/ /\ kind # "none"
          /\ pc' \in {"stat", "read"} /\ content' = <<>> /\ startSize' = size
          /\ UNCHANGED err
       \/ /\ kind # "none"
          /\ pc' = "buffer"
          /\ UNCHANGED <<content, startSize, err>>
    /\ UNCHANGED <<kind, size, maxSize, fileSize, buf_>>

\* fstat
Stat ==
    /\ pc = "stat"
    /\ \/ /\ kind = "regular" /\ fileSize' = size /\ UNCHANGED err
       \/ /\ kind = "directory" /\ err' = "EISDIR" /\ UNCHANGED fileSize
       \/ /\ err' = "EIO" /\ UNCHANGED fileSize
    /\ pc' = "read"
    /\ UNCHANGED <<kind, size, maxSize, content, startSize, buf_>>

\* mutant of ToRead: the buffer is always offered as a whole
ToReadAll == kBufferSize

ToRead == IF maxSize - Len(content) < kBufferSize THEN maxSize - Len(content) ELSE kBufferSize

\* the loop of readToString
ReadMore ==
    /\ pc = "read" /\ kind = "regular" /\ Len(content) < maxSize
    /\ \E n \in 1..ToRead :
        /\ Len(content) + n <= size
        /\ buf_' = [k \in 1..n |-> Len(content) + k]
        /\ content' = content \o buf_'
    /\ UNCHANGED <<kind, size, maxSize, fileSize, startSize, err, pc>>

\* n is 0, or the content is large enough
ReadEnds ==
    /\ pc = "read"
    /\ Len(content) >= maxSize \/ (kind = "regular" /\ Len(content) = size)
    /\ pc' = "return"
    /\ UNCHANGED <<kind, size, maxSize, content, fileSize, startSize, err, buf_>>

ReadFails ==
    /\ pc = "read" /\ Len(content) < maxSize
    /\ err' \in IF kind = "directory" THEN {"EISDIR"} ELSE Errors
    /\ pc' = "return"
    /\ UNCHANGED <<kind, size, maxSize, content, fileSize, startSize, buf_>>

\* mutant of ReadToBuffer: sizeof(buf_) is not reduced for the zero
ReadToBufferWhole ==
    /\ pc = "buffer"
    /\ kind = "regular"
    /\ \E n \in 0..kBufferSize :
           n <= size /\ buf_' = Append([k \in 1..n |-> k], Nul)
    /\ pc' = "return"
    /\ UNCHANGED <<kind, size, maxSize, content, fileSize, startSize, err>>

\* readToBuffer: one pread from the beginning, and the zero
ReadToBuffer ==
    /\ pc = "buffer"
    /\ \/ /\ kind = "regular"
          /\ \E n \in 0..(kBufferSize - 1) :
                 n <= size /\ buf_' = Append([k \in 1..n |-> k], Nul)
          /\ UNCHANGED err
       \/ /\ err' \in IF kind = "directory" THEN {"EISDIR"} ELSE Errors
          /\ UNCHANGED buf_
    /\ pc' = "return"
    /\ UNCHANGED <<kind, size, maxSize, content, fileSize, startSize>>

Next == Grow \/ Open \/ Stat \/ ReadMore \/ ReadEnds \/ ReadFails \/ ReadToBuffer

Spec == Init /\ [][Next]_vars

-----------------------------------------------------------------------------
\* What readToString delivers is the beginning of the file, never more than maxSize
\* bytes; without an error it is all of the file that was there when it was opened, or
\* maxSize bytes of it (lines 129-145).
ContentIsBeginning ==
    content # Untouched =>
        /\ content = [k \in 1..Len(content) |-> k]
        /\ Len(content) <= maxSize
        /\ pc = "return" /\ err = "0" => Len(content) = maxSize \/ Len(content) >= startSize

\* buf_ is never overfilled, and ends with the zero for who uses it as a string (line 162).
BufferTerminated ==
    /\ Len(buf_) <= kBufferSize
    /\ pc = "return" /\ content = Untouched => buf_[Len(buf_)] = Nul

\* A file that cannot be opened and a directory are reported, unless nothing was asked.
FailureReported ==
    /\ pc = "return" /\ kind = "none" => err # "0" /\ content = Untouched
    /\ pc = "return" /\ kind = "directory" => err # "0" \/ maxSize = 0

=============================================================================
