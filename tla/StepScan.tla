------------------------------ MODULE StepScan ------------------------------
(***************************************************************************)
(* scanStep, the streaming scanner of STEP files (cad-parser/step-scan.js). *)
(*                                                                         *)
(* The file comes in chunks that end anywhere, also inside a comment mark. *)
(* The scanner keeps the bytes it has not consumed in a window, finds the  *)
(* next comment or ';' in it, and reports each segment of the DATA section *)
(* with the range of its bytes, from which the record is read again later. *)
(* One action is one round of the loop in scan.                            *)
(*                                                                         *)
(* A byte is one of "/", "*", ";", the words "H", "D" and "E" (HEADER,     *)
(* DATA, ENDSEC) and "n", which stands for the text of a record; blanks,   *)
(* which the scanner trims, are left out.  Offsets count from 0.           *)
(***************************************************************************)
EXTENDS Integers, Sequences, FiniteSets

CONSTANTS
    Files,     \* the files, sequences of bytes
    MaxChunks  \* bound: chunks of one file

OPEN == <<"/", "*">>
CLOSE == <<"*", "/">>
SEMI == ";"
Bytes == {"/", "*", SEMI, "H", "D", "E", "n"}

ASSUME FilesAssumption == Files \subseteq Seq(Bytes) /\ MaxChunks \in Nat

VARIABLES
    file,        \* the file
    ends,        \* offsets at which a chunk ends before the end of the file
    work,        \* unconsumed bytes
    workBase,    \* offset of the first of them
    cursor,      \* scan position in work
    commentPos,  \* cached index of the next OPEN in work: -2 stale, -1 none ahead
    inComment,
    segStart,    \* offset of the current segment
    segChunks,   \* its bytes outside comments so far
    inHeader, inData,
    headerLines, \* texts of the header's segments
    entities,    \* the segments reported to onEntity
    pc           \* "waiting" for a chunk, "scanning", or "ended"

window == <<work, workBase, cursor, commentPos, inComment, pc>>
section == <<inHeader, inData, headerLines, entities>>
vars == <<file, ends, window, segStart, segChunks, section>>

Fed == workBase + Len(work)

(* The bytes of s with indexes from and up to, but not including, to.       *)
subarray(s, from, to) == SubSeq(s, from + 1, to)

(* work.indexOf(pattern, from).                                             *)
IndexOf(s, pattern, from) ==
    LET Found == {i \in from .. Len(s) - Len(pattern) :
                     subarray(s, i, i + Len(pattern)) = pattern}
    IN  IF Found = {} THEN -1 ELSE CHOOSE i \in Found : \A j \in Found : i <= j

Segment == [text : Seq(Bytes), offset : Nat, length : Nat]

TypeOK ==
    /\ file \in Files
    /\ ends \subseteq 1 .. Len(file) - 1
    /\ work \in Seq(Bytes)
    /\ workBase \in Nat
    /\ cursor \in 0 .. Len(work)
    /\ commentPos \in {-2, -1} \cup Nat
    /\ inComment \in BOOLEAN
    /\ segStart \in 0 .. Len(file)
    /\ segChunks \in Seq(Bytes)
    /\ inHeader \in BOOLEAN /\ inData \in BOOLEAN
    /\ headerLines \in Seq(Seq(Bytes))
    /\ entities \in Seq(Segment)
    /\ pc \in {"waiting", "scanning", "ended"}

Init ==
    /\ file \in Files
    /\ ends \in {S \in SUBSET (1 .. Len(file) - 1) : Cardinality(S) < MaxChunks}
    /\ work = <<>> /\ workBase = 0 /\ cursor = 0
    /\ commentPos = -2
    /\ inComment = FALSE
    /\ segStart = 0 /\ segChunks = <<>>
    /\ inHeader = FALSE /\ inData = FALSE
    /\ headerLines = <<>>
    /\ entities = <<>>
    /\ pc = "waiting"

-----------------------------------------------------------------------------
(* The end of the chunk that starts at offset k.                            *)
ChunkEnd(k) == CHOOSE e \in ends \cup {Len(file)} :
                   e > k /\ \A f \in ends \cup {Len(file)} : f > k => e <= f

(* The fault of keeping the cached index over a change of the window.       *)
onDataStaleFault ==
    /\ pc = "waiting" /\ Fed < Len(file)
    /\ workBase' = workBase + cursor
    /\ work' = subarray(work, cursor, Len(work)) \o subarray(file, Fed, ChunkEnd(Fed))
    /\ cursor' = 0
    /\ pc' = "scanning"
    /\ UNCHANGED <<file, ends, commentPos, inComment, segStart, segChunks, section>>

(* on('data'): what is consumed leaves the window, the chunk joins it.      *)
onData ==
    /\ pc = "waiting" /\ Fed < Len(file)
    /\ workBase' = workBase + cursor
    /\ work' = subarray(work, cursor, Len(work)) \o subarray(file, Fed, ChunkEnd(Fed))
    /\ cursor' = 0
    /\ commentPos' = -2
    /\ pc' = "scanning"
    /\ UNCHANGED <<file, ends, inComment, segStart, segChunks, section>>

(* handleSegment.                                                           *)
handleSegment(text, offset, length) ==
    CASE text = <<>> -> UNCHANGED section
      [] text = <<"H">> -> inHeader' = TRUE /\ UNCHANGED <<inData, headerLines, entities>>
      [] text = <<"D">> -> /\ inHeader' = FALSE /\ inData' = TRUE
                           /\ UNCHANGED <<headerLines, entities>>
      [] text = <<"E">> -> /\ inHeader' = FALSE /\ inData' = FALSE
                           /\ UNCHANGED <<headerLines, entities>>
      [] OTHER -> /\ headerLines' = IF inHeader THEN Append(headerLines, text) ELSE headerLines
                  /\ entities' = IF ~inHeader /\ inData
                                 THEN Append(entities, [text |-> text, offset |-> offset,
                                                        length |-> length])
                                 ELSE entities
                  /\ UNCHANGED <<inHeader, inData>>

(* The fault of keeping the cached index behind the comment it points to.   *)
CloseCommentFault ==
    LET end == IndexOf(work, CLOSE, cursor)
    IN  /\ pc = "scanning" /\ inComment
        /\ \/ end # -1 /\ cursor' = end + 2 /\ inComment' = FALSE /\ UNCHANGED pc
           \/ end = -1 /\ pc' = "waiting" /\ UNCHANGED <<cursor, inComment>>
        /\ UNCHANGED <<file, ends, work, workBase, commentPos, segStart, segChunks, section>>

(* A round inside a comment: its end is found, or is in a later chunk.      *)
CloseComment ==
    LET end == IndexOf(work, CLOSE, cursor)
    IN  /\ pc = "scanning" /\ inComment
        /\ \/ /\ end # -1
              /\ cursor' = end + 2
              /\ inComment' = FALSE
              /\ commentPos' = -2
              /\ UNCHANGED pc
           \/ /\ end = -1
              /\ pc' = "waiting"
              /\ UNCHANGED <<cursor, inComment, commentPos>>
        /\ UNCHANGED <<file, ends, work, workBase, segStart, segChunks, section>>

NextComment == IF commentPos = -2 THEN IndexOf(work, OPEN, cursor) ELSE commentPos
NextSemi == IndexOf(work, <<SEMI>>, cursor)
CommentFirst == NextComment # -1 /\ (NextSemi = -1 \/ NextComment < NextSemi)

(* The text before the comment belongs to the segment.                      *)
OpenComment ==
    /\ pc = "scanning" /\ ~inComment
    /\ CommentFirst
    /\ segChunks' = segChunks \o subarray(work, cursor, NextComment)
    /\ cursor' = NextComment + 2
    /\ commentPos' = NextComment
    /\ inComment' = TRUE
    /\ UNCHANGED <<file, ends, work, workBase, segStart, section, pc>>

(* The fault of taking the window for the file.                             *)
emitSegmentFault ==
    /\ pc = "scanning" /\ ~inComment
    /\ ~CommentFirst /\ NextSemi # -1
    /\ handleSegment(segChunks \o subarray(work, cursor, NextSemi),
                     segStart, NextSemi - segStart + 1)
    /\ cursor' = NextSemi + 1
    /\ commentPos' = NextComment
    /\ segStart' = NextSemi + 1
    /\ segChunks' = <<>>
    /\ UNCHANGED <<file, ends, work, workBase, inComment, pc>>

(* A ';' ends the segment.                                                  *)
emitSegment ==
    /\ pc = "scanning" /\ ~inComment
    /\ ~CommentFirst /\ NextSemi # -1
    /\ handleSegment(segChunks \o subarray(work, cursor, NextSemi),
                     segStart, workBase + NextSemi - segStart + 1)
    /\ cursor' = NextSemi + 1
    /\ commentPos' = NextComment
    /\ segStart' = workBase + NextSemi + 1
    /\ segChunks' = <<>>
    /\ UNCHANGED <<file, ends, work, workBase, inComment, pc>>

(* The fault of waiting for the next chunk without consuming the text.      *)
LeftoverFault ==
    /\ pc = "scanning" /\ ~inComment
    /\ ~CommentFirst /\ NextSemi = -1
    /\ segChunks' = segChunks \o subarray(work, cursor, Len(work))
    /\ commentPos' = NextComment
    /\ pc' = "waiting"
    /\ UNCHANGED <<file, ends, work, workBase, cursor, inComment, segStart, section>>

(* Neither is ahead: the rest of the window is text.                        *)
Leftover ==
    /\ pc = "scanning" /\ ~inComment
    /\ ~CommentFirst /\ NextSemi = -1
    /\ segChunks' = segChunks \o subarray(work, cursor, Len(work))
    /\ cursor' = Len(work)
    /\ commentPos' = NextComment
    /\ pc' = "waiting"
    /\ UNCHANGED <<file, ends, work, workBase, inComment, segStart, section>>

(* on('end'): a last segment without ';' is handled too.                    *)
onEnd ==
    /\ pc = "waiting" /\ Fed = Len(file)
    /\ handleSegment(segChunks, segStart, Fed - segStart)
    /\ pc' = "ended"
    /\ UNCHANGED <<file, ends, work, workBase, cursor, commentPos, inComment, segStart,
                   segChunks>>

Next == onData \/ CloseComment \/ OpenComment \/ emitSegment \/ Leftover \/ onEnd

(* The stream delivers the file and ends.                                   *)
Spec == Init /\ [][Next]_vars /\ WF_vars(Next)

-----------------------------------------------------------------------------
(* The reference: the mode of a scanner that looks at one byte after the    *)
(* other, after the first i of them.  "slash" is text that ends in "/",     *)
(* "star" a comment that ends in "*".                                       *)
After(mode, b) ==
    CASE mode \in {"text", "slash"} -> IF mode = "slash" /\ b = "*" THEN "comment"
                                       ELSE IF b = "/" THEN "slash" ELSE "text"
      [] OTHER -> IF mode = "star" /\ b = "/" THEN "text"
                  ELSE IF b = "*" THEN "star" ELSE "comment"

ModesOf(s) ==
    LET mode[i \in 0 .. Len(s)] == IF i = 0 THEN "text" ELSE After(mode[i - 1], s[i])
    IN  mode

(* The positions outside comments: the modes before and after the byte are, *)
(* and it is not the "/" of a comment's first mark.                         *)
Outside(s) ==
    LET mode == ModesOf(s)
    IN  {i \in 1 .. Len(s) :
            /\ mode[i - 1] \in {"text", "slash"} /\ mode[i] \in {"text", "slash"}
            /\ ~(i < Len(s) /\ mode[i] = "slash" /\ mode[i + 1] = "comment")}

(* The entries of s at the positions in P, up to each position, and all of  *)
(* them; s without its comments.                                            *)
Kept(s, P) ==
    LET kept[i \in 0 .. Len(s)] ==
            IF i = 0 THEN <<>>
            ELSE IF i \in P THEN Append(kept[i - 1], s[i]) ELSE kept[i - 1]
    IN  kept
At(s, P) == Kept(s, P)[Len(s)]
Strip(s) == At(s, Outside(s))

(* The segments of the whole file: what lies between two ';' outside        *)
(* comments, and after the last one.                                        *)
Positions(s) == [i \in 1 .. Len(s) |-> i]
SemisOf(s) == At(Positions(s), {i \in Outside(s) : s[i] = SEMI})
SegmentsOf(s) ==
    LET out == Outside(s)
        semi == SemisOf(s)
        first(k) == IF k = 1 THEN 1 ELSE semi[k - 1] + 1
        last(k) == IF k > Len(semi) THEN Len(s) ELSE semi[k]
    IN  [k \in 1 .. Len(semi) + 1 |->
            [text |-> At(s, {i \in out : first(k) <= i /\ i <= last(k) /\ s[i] # SEMI}),
             offset |-> first(k) - 1, length |-> last(k) - first(k) + 1]]

(* Entities are the segments whose last section mark is DATA.               *)
Mark(seg) == seg.text \in {<<"H">>, <<"D">>, <<"E">>}
InSection(segs, k, word) ==
    \E d \in 1 .. (k - 1) : /\ segs[d].text = <<word>>
                           /\ \A m \in d + 1 .. k - 1 : ~Mark(segs[m])
EntitiesOf(s) ==
    LET segs == SegmentsOf(s)
    IN  At(segs, {k \in DOMAIN segs : /\ segs[k].text # <<>> /\ ~Mark(segs[k])
                                      /\ InSection(segs, k, "D")})

(* A chunk ends between the two bytes of a comment's first mark.            *)
MarkCut == \E c \in ends : ModesOf(file)[c] = "slash" /\ ModesOf(file)[c + 1] = "comment"

-----------------------------------------------------------------------------
(* The scanner's window is a window on the file, however chunks were joined *)
(* and cut: offsets computed from workBase are offsets in the file, and the *)
(* cached position of the next comment is still that when it is used.       *)
WindowOK ==
    /\ Fed <= Len(file)
    /\ work = subarray(file, workBase, Fed)
    /\ segStart <= workBase + cursor
    /\ pc = "scanning" /\ ~inComment => NextComment = IndexOf(work, OPEN, cursor)

(* What is reported does not depend on where chunks end: the records and    *)
(* their ranges are those of the whole file, unless a chunk cuts the first  *)
(* mark of a comment in two.                                                *)
ChunksInvisible == pc = "ended" /\ ~MarkCut => entities = EntitiesOf(file)

(* The bytes read again at the range of a record (readEntitiesAt, or the    *)
(* part files of worker-split.js) are those the record was indexed by.      *)
Reread ==
    pc = "ended" /\ ~MarkCut =>
        \A k \in DOMAIN entities :
            LET e == entities[k]
                raw == subarray(file, e.offset, e.offset + e.length)
            IN  Strip(raw) \in {e.text, Append(e.text, SEMI)}

(* The loop of scan ends for every file.                                    *)
ScanEnds == <>(pc = "ended")

(* The comment of scanStep: text is the record with comments removed, as    *)
(* segmenting the whole string gave it (in a file that closes them all).    *)
CommentsRemoved ==
    pc = "ended" /\ ModesOf(file)[Len(file)] \in {"text", "slash"}
        => entities = EntitiesOf(file)
=============================================================================
