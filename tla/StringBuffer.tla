---------------------------- MODULE StringBuffer ----------------------------
(****************************************************************************)
(* data/stringbuffer.c: characters in a chain of segments of fixed size.    *)
(* segs is the chain from readSegment on; writeSegment is its last element. *)
(* When readChar frees the only segment the chain is empty: readSegment is  *)
(* NULL and writeSegment points at freed memory.  What the code does with   *)
(* either is undefined, and the model stops there.                          *)
(****************************************************************************)
EXTENDS Integers, SequencesExt, Answers

CONSTANTS
    Chars,
    SegmentSize,   \* STRINGBUFFER_SEGMENT_SIZE
    MaxChars       \* bound: characters in the buffer

ASSUME SegmentSizeAssumption == SegmentSize \in Nat \ {0}

VARIABLES segs, charCount, defined, charAnswer

bufferVars == <<segs, charCount, defined, charAnswer>>

\* The memory of a new segment is not initialized.
NewSegment ==
    [chars |-> [i \in 0..SegmentSize - 1 |-> NULL], readIndex |-> 0, writeIndex |-> 0]

BufferInit ==
    /\ segs = <<NewSegment>>
    /\ charCount = 0
    /\ defined = TRUE
    /\ charAnswer = NULL

-----------------------------------------------------------------------------
\* The indexes of a segment that is both read and written start over when they
\* meet.
Rewound(s) ==
    IF Len(segs) = 1 /\ s.readIndex = s.writeIndex
    THEN [s EXCEPT !.readIndex = 0, !.writeIndex = 0]
    ELSE s

Written(s, c) == [s EXCEPT !.chars[s.writeIndex] = c, !.writeIndex = @ + 1]

WriteChar(c) ==
    /\ defined /\ segs # <<>> /\ charCount < MaxChars
    /\ LET last == Rewound(Last(segs))
       IN  segs' = IF last.writeIndex = SegmentSize
                   THEN Append(segs, Written(NewSegment, c))
                   ELSE Append(Front(segs), Written(last, c))
    /\ charCount' = charCount + 1
    /\ charAnswer' = NULL
    /\ UNCHANGED defined

ReadChar ==
    /\ defined
    /\ UNCHANGED defined
    /\ \/ /\ charCount = 0
          /\ charAnswer' = NULL
          /\ UNCHANGED <<segs, charCount>>
       \/ /\ charCount # 0
          /\ LET s == Head(segs)
             IN  /\ charAnswer' = s.chars[s.readIndex]
                 /\ segs' = IF s.readIndex + 1 = SegmentSize
                            THEN Tail(segs)
                            ELSE [segs EXCEPT ![1].readIndex = @ + 1]
          /\ charCount' = charCount - 1

\* Mistake: the loop starts at the first index.
ReadCharsFromZero ==
    [n \in 1..charCount |->
        segs[1 + (n - 1) \div SegmentSize].chars[(n - 1) % SegmentSize]]

\* The loops of readChars and show go by the count and leave a segment at its
\* last index, full or not.
ReadChars ==
    LET at(n) == Head(segs).readIndex + n - 1
    IN  [n \in 1..charCount |-> segs[1 + at(n) \div SegmentSize].chars[at(n) % SegmentSize]]

BufferAsString ==
    /\ defined /\ segs # <<>>
    /\ charAnswer' = ReadChars
    /\ UNCHANGED <<segs, charCount, defined>>

\* Mistake: clear forgets the index of reading.
BufferClearWritten ==
    /\ defined /\ segs # <<>>
    /\ segs' = <<[Head(segs) EXCEPT !.writeIndex = 0]>>
    /\ charCount' = 0
    /\ charAnswer' = NULL
    /\ UNCHANGED defined

\* clear keeps the segment that is read, with what its characters were.
BufferClear ==
    /\ defined /\ segs # <<>>
    /\ segs' = <<[Head(segs) EXCEPT !.readIndex = 0, !.writeIndex = 0]>>
    /\ charCount' = 0
    /\ charAnswer' = NULL
    /\ UNCHANGED defined

\* writeChar, readChars, show and clear use readSegment or writeSegment
\* without a test.
UseOfNoSegment ==
    /\ defined /\ segs = <<>>
    /\ defined' = FALSE
    /\ UNCHANGED <<segs, charCount, charAnswer>>

BufferNext ==
    \/ ReadChar \/ BufferAsString \/ BufferClear \/ UseOfNoSegment
    \/ \E c \in Chars : WriteChar(c)

BufferSpec == BufferInit /\ [][BufferNext]_bufferVars

-----------------------------------------------------------------------------
\* What has been written to a segment and not been read.
Unread(s) == [i \in 1..s.writeIndex - s.readIndex |-> s.chars[s.readIndex + i - 1]]

BF == INSTANCE Fifo WITH
    Elems <- Chars, answer <- charAnswer,
    line <- FlattenSeq([i \in 1..Len(segs) |-> Unread(segs[i])])

\* Characters are read in the order they were written, over the boundaries of
\* segments and after clear, and asString returns just those that are unread.
BufferIsFifo == BF!Spec

\* Only the first segment has been read from and only the last one has room;
\* no index leaves its segment; the count, by which readChar decides to touch
\* readSegment, is that of the unread characters.
SegmentsAreExact ==
    /\ \A i \in 1..Len(segs) :
          /\ segs[i].readIndex \in 0..segs[i].writeIndex
          /\ segs[i].writeIndex \in 0..SegmentSize
          /\ i > 1 => segs[i].readIndex = 0 /\ segs[i].writeIndex > 0
          /\ i < Len(segs) => segs[i].writeIndex = SegmentSize
          /\ segs[i].readIndex < SegmentSize
    /\ charCount = Len(FlattenSeq([i \in 1..Len(segs) |-> Unread(segs[i])]))

=============================================================================
