-------------------------- MODULE StepScanProofs ---------------------------
(***************************************************************************)
(* The STEP scanner, for every file and every way to cut it into chunks:   *)
(* its window is a window on the file, and it reports the records that a   *)
(* scan of the whole file finds.                                           *)
(*                                                                         *)
(* The offsets scanStep reports are sums of workBase and an index in the   *)
(* window, and the index of the next comment is kept over several rounds   *)
(* of the loop: both are right only while window and file agree, and while *)
(* nothing between the old and the new cursor opens a comment (ScanInv).   *)
(*                                                                         *)
(* The reference reads the file byte after byte (ModesOf) and keeps what   *)
(* lies outside comments (Kept).  After the first p bytes, where p is what *)
(* the scanner has consumed, the two agree on the mode, on the text of the *)
(* segment in progress, on the records so far and on the section (RefInv). *)
(***************************************************************************)
EXTENDS StepScan, SequenceTheorems, WellFoundedInduction, TLAPS

USE FilesAssumption

-----------------------------------------------------------------------------
(* indexOf finds the first place of a pattern, or none.                     *)
LEMMA LeastNat ==
    ASSUME NEW T, T \subseteq Nat, T # {} PROVE \E x \in T : \A y \in T : x <= y
<1>1. PICK R : R = OpToRel(<, Nat)
  OBVIOUS
<1>2. IsWellFoundedOn(R, Nat)
  BY <1>1, NatLessThanWellFounded
<1>3. \A x, y \in Nat : <<y, x>> \in R <=> y < x
  BY <1>1 DEF OpToRel
<1>4. PICK x \in T : \A y \in T : ~(<<y, x>> \in R)
  BY <1>2, WFMin
<1>5. \A y \in T : ~(y < x)
  BY <1>3, <1>4
<1>6. \A y \in T : x <= y
  BY <1>5
<1> QED
  BY <1>6

Found(s, pattern, from) ==
    {i \in from .. Len(s) - Len(pattern) : subarray(s, i, i + Len(pattern)) = pattern}

IsIndex(r, s, pattern, from) ==
    \/ r = -1 /\ Found(s, pattern, from) = {}
    \/ r \in Found(s, pattern, from) /\ \A j \in Found(s, pattern, from) : r <= j

LEMMA IndexOfIs ==
    ASSUME NEW s, NEW pattern, Len(s) \in Nat, Len(pattern) \in Nat, NEW from \in Nat
    PROVE  IsIndex(IndexOf(s, pattern, from), s, pattern, from)
<1>1. PICK F : F = Found(s, pattern, from)
  OBVIOUS
<1>2. IndexOf(s, pattern, from) = IF F = {} THEN -1 ELSE CHOOSE i \in F : \A j \in F : i <= j
  BY <1>1 DEF IndexOf, Found
<1>3. F \subseteq Nat
  BY <1>1 DEF Found
<1>4. F # {} => \E i \in F : \A j \in F : i <= j
  BY <1>3, LeastNat
<1> QED
  BY <1>1, <1>2, <1>4 DEF IsIndex

LEMMA IndexUnique ==
    ASSUME NEW s, NEW pattern, Len(s) \in Nat, Len(pattern) \in Nat, NEW from \in Nat,
           NEW r, IsIndex(r, s, pattern, from)
    PROVE  r = IndexOf(s, pattern, from)
<1>1. PICK F : F = Found(s, pattern, from)
  OBVIOUS
<1>2. PICK q : q = IndexOf(s, pattern, from)
  OBVIOUS
<1>3. /\ (q = -1 /\ F = {}) \/ (q \in F /\ \A j \in F : q <= j)
      /\ (r = -1 /\ F = {}) \/ (r \in F /\ \A j \in F : r <= j)
  BY <1>1, <1>2, IndexOfIs DEF IsIndex
<1>4. F \subseteq Int
  BY <1>1 DEF Found
<1>5. CASE F = {}
  BY <1>2, <1>3, <1>5
<1>6. CASE F # {}
  <2>1. q \in Int /\ r \in Int /\ q <= r /\ r <= q
    BY <1>3, <1>4, <1>6
  <2> QED
    BY <1>2, <2>1
<1> QED
  BY <1>5, <1>6

(* What is found at or behind a later position is what is found from there. *)
LEMMA IndexStays ==
    ASSUME NEW s, NEW pattern, Len(s) \in Nat, Len(pattern) \in Nat,
           NEW from \in Nat, NEW to \in Nat, from <= to,
           NEW r, r = IndexOf(s, pattern, from), r = -1 \/ r >= to
    PROVE  r = IndexOf(s, pattern, to)
<1>1. IsIndex(r, s, pattern, from)
  BY IndexOfIs
<1>2. Found(s, pattern, to) \subseteq Found(s, pattern, from)
  BY DEF Found
<1>3. ASSUME r # -1 PROVE r \in Found(s, pattern, to)
  <2>1. r \in Found(s, pattern, from) /\ r >= to
    BY <1>1, <1>3 DEF IsIndex
  <2>2. /\ r \in from .. (Len(s) - Len(pattern))
        /\ subarray(s, r, r + Len(pattern)) = pattern
    BY <2>1 DEF Found
  <2>3. r \in to .. (Len(s) - Len(pattern))
    BY <2>1, <2>2
  <2> QED
    BY <2>2, <2>3 DEF Found
<1>4. IsIndex(r, s, pattern, to)
  <2>1. CASE r = -1
    <3>1. r \notin Found(s, pattern, from)
      BY <2>1 DEF Found
    <3> QED
      BY <1>1, <1>2, <2>1, <3>1 DEF IsIndex
  <2>2. CASE r # -1
    BY <1>1, <1>2, <1>3, <2>2 DEF IsIndex
  <2> QED
    BY <2>1, <2>2
<1> QED
  BY <1>4, IndexUnique

-----------------------------------------------------------------------------
(* The bytes of a range.                                                    *)
LEMMA SubarrayIs ==
    ASSUME NEW s \in Seq(Bytes), NEW from \in Nat, NEW to \in from .. Len(s)
    PROVE  /\ subarray(s, from, to) \in Seq(Bytes)
           /\ Len(subarray(s, from, to)) = to - from
           /\ \A i \in 1 .. (to - from) : subarray(s, from, to)[i] = s[from + i]
<1>1. /\ Len(s) \in Nat /\ DOMAIN s = 1 .. Len(s) /\ \A i \in DOMAIN s : s[i] \in Bytes
  BY LenProperties
<1>2. /\ from + 1 \in Int /\ to \in Int /\ from <= to /\ to - from \in Nat
      /\ \A i \in (from + 1) .. to : i \in DOMAIN s
  BY <1>1
<1>3. /\ SubSeq(s, from + 1, to) \in Seq(Bytes)
      /\ Len(SubSeq(s, from + 1, to)) = IF from + 1 <= to THEN to - (from + 1) + 1 ELSE 0
      /\ \A i \in 1 .. (to - (from + 1) + 1) : SubSeq(s, from + 1, to)[i] = s[(from + 1) + i - 1]
  <2>1. \A i \in (from + 1) .. to : s[i] \in Bytes
    BY <1>1, <1>2
  <2> QED
    BY <1>2, <2>1, SubSeqProperties
<1>4. Len(SubSeq(s, from + 1, to)) = to - from
  <2>1. CASE from + 1 <= to
    <3>1. Len(SubSeq(s, from + 1, to)) = to - (from + 1) + 1
      BY <1>3, <2>1
    <3> QED
      BY <1>2, <3>1
  <2>2. CASE ~(from + 1 <= to)
    <3>1. Len(SubSeq(s, from + 1, to)) = 0
      BY <1>3, <2>2
    <3> QED
      BY <1>2, <2>2, <3>1
  <2> QED
    BY <2>1, <2>2
<1>5. ASSUME NEW i \in 1 .. (to - from) PROVE SubSeq(s, from + 1, to)[i] = s[from + i]
  <2>1. i \in 1 .. (to - (from + 1) + 1) /\ (from + 1) + i - 1 = from + i
    BY <1>2
  <2> QED
    BY <1>3, <2>1
<1> QED
  BY <1>3, <1>4, <1>5 DEF subarray

(* What is left of a range, and the range behind it, are one range.         *)
LEMMA Joined ==
    ASSUME NEW s \in Seq(Bytes), NEW base \in Nat, NEW fed \in base .. Len(s),
           NEW end \in fed .. Len(s), NEW cut \in 0 .. (fed - base),
           NEW w, w = subarray(s, base, fed)
    PROVE  subarray(w, cut, Len(w)) \o subarray(s, fed, end) = subarray(s, base + cut, end)
<1>1. Len(s) \in Nat /\ fed \in Nat /\ end \in Nat /\ cut \in Nat
  OBVIOUS
<1>2. /\ w \in Seq(Bytes) /\ Len(w) = fed - base
      /\ \A i \in 1 .. (fed - base) : w[i] = s[base + i]
  BY <1>1, SubarrayIs
<1>3. PICK a : a = subarray(w, cut, Len(w))
  OBVIOUS
<1>4. PICK b : b = subarray(s, fed, end)
  OBVIOUS
<1>5. PICK c : c = subarray(s, base + cut, end)
  OBVIOUS
<1>6. /\ a \in Seq(Bytes) /\ Len(a) = (fed - base) - cut
      /\ \A i \in 1 .. ((fed - base) - cut) : a[i] = w[cut + i]
  <2>1. PICK n : n = Len(w)
    OBVIOUS
  <2>2. n = fed - base /\ n \in cut .. Len(w)
    BY <1>1, <1>2, <2>1
  <2>3. /\ a \in Seq(Bytes) /\ Len(a) = n - cut
        /\ \A i \in 1 .. (n - cut) : a[i] = w[cut + i]
    <3>1. cut \in Nat /\ w \in Seq(Bytes) /\ a = subarray(w, cut, n)
      BY <1>1, <1>2, <1>3, <2>1
    <3> QED
      BY <2>2, <3>1, SubarrayIs
  <2> QED
    BY <2>2, <2>3
<1>7. /\ b \in Seq(Bytes) /\ Len(b) = end - fed
      /\ \A i \in 1 .. (end - fed) : b[i] = s[fed + i]
  BY <1>1, <1>4, SubarrayIs
<1>8. /\ c \in Seq(Bytes) /\ Len(c) = end - (base + cut)
      /\ \A i \in 1 .. (end - (base + cut)) : c[i] = s[(base + cut) + i]
  <2>1. base + cut \in Nat /\ end \in (base + cut) .. Len(s)
    BY <1>1
  <2> QED
    BY <1>5, <2>1, SubarrayIs
<1>9. PICK d : d = a \o b
  OBVIOUS
<1>10. /\ d \in Seq(Bytes) /\ Len(d) = Len(a) + Len(b)
       /\ \A i \in 1 .. (Len(a) + Len(b)) :
             d[i] = IF i <= Len(a) THEN a[i] ELSE b[i - Len(a)]
  BY <1>6, <1>7, <1>9, ConcatProperties
<1>11. Len(d) = Len(c)
  BY <1>1, <1>6, <1>7, <1>8, <1>10
<1>12. ASSUME NEW i \in 1 .. Len(d) PROVE d[i] = c[i]
  <2>1. i \in Nat /\ i \in 1 .. (Len(a) + Len(b)) /\ i \in 1 .. (end - (base + cut))
    BY <1>8, <1>10, <1>11
  <2>2. c[i] = s[(base + cut) + i]
    BY <1>8, <2>1
  <2>3. CASE i <= Len(a)
    <3>1. /\ i \in 1 .. ((fed - base) - cut) /\ cut + i \in 1 .. (fed - base)
          /\ base + (cut + i) = (base + cut) + i
      <4>1. i \in Nat /\ i >= 1 /\ i <= (fed - base) - cut
        BY <1>6, <2>1, <2>3
      <4> QED
        BY <1>1, <4>1
    <3>2. d[i] = a[i] /\ a[i] = w[cut + i] /\ w[cut + i] = s[base + (cut + i)]
      BY <1>2, <1>6, <1>10, <2>1, <2>3, <3>1
    <3> QED
      BY <2>2, <3>1, <3>2
  <2>4. CASE ~(i <= Len(a))
    <3>1. i - Len(a) \in 1 .. (end - fed) /\ fed + (i - Len(a)) = (base + cut) + i
      <4>1. PICK n : n = Len(a)
        OBVIOUS
      <4>2. n = (fed - base) - cut /\ i \in Nat /\ ~(i <= n) /\ i <= n + (end - fed)
        BY <1>6, <1>7, <2>1, <2>4, <4>1
      <4>3. i - n \in 1 .. (end - fed) /\ fed + (i - n) = (base + cut) + i
        BY <1>1, <4>2
      <4> QED
        BY <4>1, <4>3
    <3>2. d[i] = b[i - Len(a)] /\ b[i - Len(a)] = s[fed + (i - Len(a))]
      BY <1>7, <1>10, <2>1, <2>4, <3>1
    <3> QED
      BY <2>2, <3>1, <3>2
  <2> QED
    BY <2>3, <2>4
<1>13. d = c
  BY <1>8, <1>10, <1>11, <1>12, SeqEqual
<1> QED
  BY <1>3, <1>4, <1>5, <1>9, <1>13


-----------------------------------------------------------------------------
(* The window, and the cached index while it may be used.                   *)
WindowInv ==
    /\ file \in Seq(Bytes) /\ ends \subseteq 1 .. (Len(file) - 1)
    /\ work \in Seq(Bytes) /\ workBase \in Nat
    /\ cursor \in 0 .. Len(work)
    /\ segStart \in Nat
    /\ Fed <= Len(file)
    /\ work = subarray(file, workBase, Fed)
    /\ segStart <= workBase + cursor

CommentInv ==
    pc = "scanning" /\ ~inComment /\ commentPos # -2 => commentPos = IndexOf(work, OPEN, cursor)

ScanInv == WindowInv /\ CommentInv

LEMMA InitScan == Init => ScanInv
<1> SUFFICES ASSUME Init PROVE ScanInv
  OBVIOUS
<1>1. /\ file \in Seq(Bytes) /\ ends \subseteq 1 .. (Len(file) - 1)
      /\ work = <<>> /\ workBase = 0 /\ cursor = 0 /\ segStart = 0 /\ pc = "waiting"
  BY DEF Init
<1>2. Len(work) = 0 /\ work \in Seq(Bytes) /\ Len(file) \in Nat
  BY <1>1, LenProperties
<1>3. Fed = 0
  BY <1>1, <1>2 DEF Fed
<1>4. work = subarray(file, 0, 0)
  BY <1>1, SubSeqEmpty DEF subarray
<1> QED
  BY <1>1, <1>2, <1>3, <1>4 DEF ScanInv, WindowInv, CommentInv

LEMMA ChunkEndIs ==
    ASSUME WindowInv, Fed < Len(file)
    PROVE  ChunkEnd(Fed) \in (Fed + 1) .. Len(file) /\ ChunkEnd(Fed) \in ends \cup {Len(file)}
<1>1. Len(file) \in Nat /\ Fed \in Nat
  BY LenProperties DEF WindowInv, Fed
<1>2. PICK E : E = {e \in ends \cup {Len(file)} : e > Fed}
  OBVIOUS
<1>3. ends \cup {Len(file)} \subseteq 1 .. Len(file)
  <2>1. ends \subseteq 1 .. (Len(file) - 1)
    BY DEF WindowInv
  <2>2. Len(file) \in 1 .. Len(file)
    BY <1>1
  <2>3. \A e \in 1 .. (Len(file) - 1) : e \in 1 .. Len(file)
    BY <1>1
  <2> QED
    BY <2>1, <2>2, <2>3
<1>4. E \subseteq Nat /\ Len(file) \in E
  BY <1>1, <1>2, <1>3
<1>5. \E e \in E : \A f \in E : e <= f
  BY <1>4, LeastNat
<1>6. \E e \in ends \cup {Len(file)} :
         e > Fed /\ \A f \in ends \cup {Len(file)} : f > Fed => e <= f
  BY <1>2, <1>5
<1>7. ChunkEnd(Fed) \in ends \cup {Len(file)} /\ ChunkEnd(Fed) > Fed
  BY <1>6 DEF ChunkEnd
<1>8. ChunkEnd(Fed) \in 1 .. Len(file)
  BY <1>3, <1>7
<1> QED
  BY <1>1, <1>7, <1>8

LEMMA DataScan == ASSUME ScanInv, onData PROVE ScanInv' /\ Fed' = ChunkEnd(Fed)
<1>1. PICK base : base = workBase
  OBVIOUS
<1>2. PICK end : end = ChunkEnd(Fed)
  OBVIOUS
<1>3. PICK fed : fed = Fed
  OBVIOUS
<1>4. /\ file \in Seq(Bytes) /\ Len(file) \in Nat /\ base \in Nat /\ Len(work) \in Nat
      /\ cursor \in 0 .. Len(work) /\ segStart \in Nat /\ segStart <= base + cursor
      /\ fed = base + Len(work) /\ fed <= Len(file) /\ work = subarray(file, base, fed)
  BY <1>1, <1>3, LenProperties DEF ScanInv, WindowInv, Fed
<1>5. end \in (fed + 1) .. Len(file)
  BY <1>2, <1>3, ChunkEndIs DEF ScanInv, onData
<1>6. /\ workBase' = base + cursor /\ cursor' = 0 /\ commentPos' = -2
      /\ work' = subarray(work, cursor, Len(work)) \o subarray(file, fed, end)
      /\ UNCHANGED <<file, ends, segStart>>
  BY <1>1, <1>2, <1>3 DEF onData
<1>7. /\ fed \in base .. Len(file) /\ end \in fed .. Len(file) /\ cursor \in 0 .. (fed - base)
      /\ base + cursor \in Nat /\ end \in (base + cursor) .. Len(file)
  BY <1>4, <1>5
<1>8. work' = subarray(file, base + cursor, end)
  <2>1. /\ file \in Seq(Bytes) /\ base \in Nat /\ work = subarray(file, base, fed)
        /\ fed \in base .. Len(file) /\ end \in fed .. Len(file)
        /\ cursor \in 0 .. (fed - base)
    BY <1>4, <1>7
  <2>2. subarray(work, cursor, Len(work)) \o subarray(file, fed, end)
          = subarray(file, base + cursor, end)
    BY <2>1, Joined
  <2> QED
    BY <1>6, <2>2
<1>9. work' \in Seq(Bytes) /\ Len(work') = end - (base + cursor)
  BY <1>4, <1>7, <1>8, SubarrayIs
<1>10. Fed' = end
  BY <1>4, <1>6, <1>7, <1>9 DEF Fed
<1>11. end <= Len(file) /\ Len(work') \in Nat /\ segStart <= (base + cursor) + 0
  BY <1>4, <1>7, <1>9
<1>12. WindowInv'
  <2>1. 0 \in 0 .. Len(work')
    BY <1>11
  <2> QED
    BY <1>4, <1>6, <1>7, <1>8, <1>9, <1>10, <1>11, <2>1 DEF WindowInv, ScanInv
<1>13. CommentInv'
  BY <1>6 DEF CommentInv
<1> QED
  BY <1>2, <1>10, <1>12, <1>13 DEF ScanInv

(* The cursor moves in the window.                                          *)
LEMMA CursorMoves ==
    ASSUME WindowInv, UNCHANGED <<file, ends, work, workBase>>,
           cursor' \in cursor .. Len(work),
           segStart' = segStart \/ segStart' = workBase + cursor'
    PROVE  WindowInv'
<1>1. /\ Len(work) \in Nat /\ workBase \in Nat /\ cursor \in 0 .. Len(work)
      /\ segStart \in Nat /\ segStart <= workBase + cursor
  BY LenProperties DEF WindowInv
<1>2. /\ cursor' \in 0 .. Len(work) /\ segStart' \in Nat
      /\ segStart' <= workBase + cursor'
  BY <1>1
<1> QED
  BY <1>2 DEF WindowInv, Fed

(* What indexOf finds lies behind the cursor, with all its bytes.           *)
LEMMA FoundAhead ==
    ASSUME WindowInv, NEW pattern, NEW n \in Nat, Len(pattern) = n,
           NEW r, r = IndexOf(work, pattern, cursor), r # -1
    PROVE  /\ r \in Nat /\ cursor <= r
           /\ r + n \in cursor .. Len(work) /\ r + n \in r .. Len(work)
           /\ subarray(work, r, r + n) = pattern
<1>1. Len(work) \in Nat /\ cursor \in Nat
  BY LenProperties DEF WindowInv
<1>2. r \in Found(work, pattern, cursor)
  BY <1>1, IndexOfIs DEF IsIndex
<1>3. r \in cursor .. (Len(work) - n) /\ subarray(work, r, r + n) = pattern
  BY <1>2 DEF Found
<1>4. r \in Nat /\ cursor <= r /\ r + n \in cursor .. Len(work) /\ r + n \in r .. Len(work)
  BY <1>1, <1>3
<1> QED
  BY <1>3, <1>4

(* The first byte of what is found.                                         *)
LEMMA FirstByte ==
    ASSUME WindowInv, NEW pattern, NEW n \in Nat, n > 0, Len(pattern) = n,
           NEW r, r = IndexOf(work, pattern, cursor), r # -1
    PROVE  work[r + 1] = pattern[1]
<1>1. /\ r \in Nat /\ r + n \in r .. Len(work)
      /\ subarray(work, r, r + n) = pattern
  BY FoundAhead
<1>2. work \in Seq(Bytes)
  BY DEF WindowInv
<1>3. 1 \in 1 .. ((r + n) - r)
  BY <1>1
<1>4. subarray(work, r, r + n)[1] = work[r + 1]
  BY <1>1, <1>2, <1>3, SubarrayIs
<1> QED
  BY <1>1, <1>4

LEMMA Marks == /\ Len(OPEN) = 2 /\ Len(CLOSE) = 2 /\ Len(<<SEMI>>) = 1
               /\ OPEN[1] = "/" /\ <<SEMI>>[1] = SEMI
  BY DEF OPEN, CLOSE

LEMMA SemiIs == SEMI # "/" /\ SEMI # "*" /\ SEMI \in Bytes
  BY Zenon DEF SEMI, Bytes

LEMMA CloseScan == ASSUME ScanInv, CloseComment PROVE ScanInv'
<1>1. PICK end : end = IndexOf(work, CLOSE, cursor)
  OBVIOUS
<1>2. UNCHANGED <<file, ends, work, workBase, segStart>>
  BY DEF CloseComment
<1>3. CASE end # -1
  <2>1. cursor' = end + 2 /\ commentPos' = -2
    BY <1>1, <1>3 DEF CloseComment
  <2>2. end + 2 \in cursor .. Len(work)
    <3>1. Len(CLOSE) = 2 /\ 2 \in Nat
      BY Marks
    <3> QED
      BY <1>1, <1>3, <3>1, FoundAhead DEF ScanInv
  <2> QED
    BY <1>2, <2>1, <2>2, CursorMoves DEF ScanInv, CommentInv
<1>4. CASE end = -1
  <2>1. cursor' = cursor /\ pc' = "waiting"
    BY <1>1, <1>4 DEF CloseComment
  <2>2. cursor \in cursor .. Len(work)
    BY LenProperties DEF ScanInv, WindowInv
  <2> QED
    BY <1>2, <2>1, <2>2, CursorMoves DEF ScanInv, CommentInv
<1> QED
  BY <1>3, <1>4

(* The cached index is right when it is used.                               *)
LEMMA NextCommentIs ==
    ASSUME ScanInv, pc = "scanning", ~inComment
    PROVE  NextComment = IndexOf(work, OPEN, cursor)
  BY DEF ScanInv, CommentInv, NextComment

LEMMA OpenScan == ASSUME ScanInv, OpenComment PROVE ScanInv'
<1>1. /\ UNCHANGED <<file, ends, work, workBase, segStart>>
      /\ NextComment # -1 /\ cursor' = NextComment + 2 /\ inComment' = TRUE
  BY DEF OpenComment, CommentFirst
<1>2. NextComment = IndexOf(work, OPEN, cursor)
  BY NextCommentIs DEF OpenComment
<1>3. NextComment + 2 \in cursor .. Len(work)
  <2>1. Len(OPEN) = 2 /\ 2 \in Nat
    BY Marks
  <2> QED
    BY <1>1, <1>2, <2>1, FoundAhead DEF ScanInv
<1> QED
  BY <1>1, <1>3, CursorMoves DEF ScanInv, CommentInv

(* No comment opens before the ';' that ends the segment, and none at it.   *)
LEMMA EmitScan == ASSUME ScanInv, emitSegment PROVE ScanInv'
<1>1. PICK c : c = NextComment
  OBVIOUS
<1>2. PICK semi : semi = NextSemi
  OBVIOUS
<1>3. /\ UNCHANGED <<file, ends, work, workBase, inComment, pc>>
      /\ cursor' = semi + 1 /\ commentPos' = c /\ segStart' = workBase + semi + 1
      /\ semi # -1 /\ (c = -1 \/ ~(c < semi))
  BY <1>1, <1>2 DEF emitSegment, CommentFirst
<1>4. c = IndexOf(work, OPEN, cursor)
  BY <1>1, NextCommentIs DEF emitSegment
<1>5. semi = IndexOf(work, <<SEMI>>, cursor)
  BY <1>2 DEF NextSemi
<1>6. /\ semi \in Nat /\ cursor <= semi /\ semi + 1 \in cursor .. Len(work)
      /\ work[semi + 1] = SEMI
  <2>1. Len(<<SEMI>>) = 1 /\ 1 \in Nat /\ 1 > 0 /\ <<SEMI>>[1] = SEMI
    BY Marks
  <2>2. semi \in Nat /\ cursor <= semi /\ semi + 1 \in cursor .. Len(work)
    BY <1>3, <1>5, <2>1, FoundAhead DEF ScanInv
  <2>3. work[semi + 1] = <<SEMI>>[1]
    BY <1>3, <1>5, <2>1, FirstByte DEF ScanInv
  <2> QED
    BY <2>1, <2>2, <2>3
<1>7. work \in Seq(Bytes) /\ Len(work) \in Nat /\ cursor \in Nat /\ workBase \in Nat
  BY LenProperties DEF ScanInv, WindowInv
<1>8. ASSUME c # -1 PROVE c \in Nat /\ work[c + 1] = "/"
  <2>1. Len(OPEN) = 2 /\ 2 \in Nat /\ 2 > 0 /\ OPEN[1] = "/"
    BY Marks
  <2>2. c \in Nat
    BY <1>4, <1>8, <2>1, FoundAhead DEF ScanInv
  <2>3. work[c + 1] = OPEN[1]
    BY <1>4, <1>8, <2>1, FirstByte DEF ScanInv
  <2> QED
    BY <2>1, <2>2, <2>3
<1>9. c = -1 \/ c >= semi + 1
  <2> SUFFICES ASSUME c # -1 PROVE c >= semi + 1
    OBVIOUS
  <2>1. c # semi
    BY <1>6, <1>8, SemiIs
  <2>2. c \in Nat /\ semi \in Nat /\ ~(c < semi)
    BY <1>3, <1>6, <1>8
  <2> QED
    BY <2>1, <2>2
<1>10. c = IndexOf(work, OPEN, semi + 1)
  <2>1. semi + 1 \in Nat /\ cursor <= semi + 1 /\ Len(OPEN) \in Nat
    <3>1. semi \in Nat /\ cursor <= semi
      BY <1>6
    <3> QED
      BY <1>7, <3>1, Marks
  <2> QED
    BY <1>4, <1>7, <1>9, <2>1, IndexStays
<1>11. CommentInv'
  BY <1>3, <1>10 DEF CommentInv
<1>12. segStart' = workBase + cursor'
  <2>1. semi \in Nat
    BY <1>6
  <2> QED
    BY <1>3, <1>7, <2>1
<1> QED
  BY <1>3, <1>6, <1>11, <1>12, CursorMoves DEF ScanInv

LEMMA NextScan == ScanInv /\ [Next]_vars => ScanInv'
<1> SUFFICES ASSUME ScanInv, [Next]_vars PROVE ScanInv'
  OBVIOUS
<1>1. CASE Leftover
  <2>1. /\ UNCHANGED <<file, ends, work, workBase, segStart>>
        /\ cursor' = Len(work) /\ pc' = "waiting"
    BY <1>1 DEF Leftover
  <2>2. Len(work) \in cursor .. Len(work)
    BY LenProperties DEF ScanInv, WindowInv
  <2> QED
    BY <2>1, <2>2, CursorMoves DEF ScanInv, CommentInv
<1>2. CASE onEnd
  BY <1>2 DEF onEnd, ScanInv, WindowInv, CommentInv, Fed
<1>3. CASE UNCHANGED vars
  BY <1>3 DEF vars, window, ScanInv, WindowInv, CommentInv, Fed
<1> QED
  BY <1>1, <1>2, <1>3, DataScan, CloseScan, OpenScan, EmitScan DEF Next

(* For every file and every cut into chunks, the window of scanStep is the  *)
(* range of the file it is taken for, and the cached position of the next   *)
(* comment is right whenever it is used: so the ranges given to onEntity    *)
(* are ranges of the file.                                                  *)
THEOREM WindowIsRight == Spec => []WindowOK
<1>1. ScanInv => WindowOK
  BY NextCommentIs DEF ScanInv, WindowInv, WindowOK
<1> QED
  BY <1>1, InitScan, NextScan, PTL DEF Spec

-----------------------------------------------------------------------------
(* A set that holds m, and the successor of each of its numbers below n,    *)
(* holds all numbers from m to n.                                           *)
LEMMA UpTo ==
    ASSUME NEW m \in Nat, NEW n \in Nat, NEW T, m <= n => m \in T,
           \A i \in m .. (n - 1) : i \in T => i + 1 \in T
    PROVE  \A i \in m .. n : i \in T
<1> SUFFICES ASSUME NEW j \in m .. n, j \notin T PROVE FALSE
  OBVIOUS
<1>1. PICK U : U = {i \in m .. n : i \notin T}
  OBVIOUS
<1>2. U \subseteq Nat /\ U # {}
  BY <1>1
<1>3. PICK x \in U : \A y \in U : x <= y
  BY <1>2, LeastNat
<1>4. x \in m .. n /\ x \notin T /\ x # m
  BY <1>1, <1>3
<1>5. x - 1 \in m .. (n - 1) /\ x - 1 \in m .. n /\ (x - 1) + 1 = x /\ ~(x <= x - 1)
  BY <1>4
<1>6. x - 1 \in T
  BY <1>1, <1>3, <1>5
<1> QED
  BY <1>4, <1>5, <1>6

(* The two recursive functions of the reference.                            *)
LEMMA ModesExist ==
    ASSUME NEW s, Len(s) \in Nat
    PROVE  \E f : f = [i \in 0 .. Len(s) |-> IF i = 0 THEN "text" ELSE After(f[i - 1], s[i])]
<1> DEFINE Is(f, n) == f = [i \in 0 .. n |-> IF i = 0 THEN "text" ELSE After(f[i - 1], s[i])]
           T == {n \in 0 .. Len(s) : \E f : Is(f, n)}
<1>1. 0 \in T
  <2>1. PICK f : f = [i \in 0 .. 0 |-> "text"]
    OBVIOUS
  <2>2. f = [i \in 0 .. 0 |-> IF i = 0 THEN "text" ELSE After(f[i - 1], s[i])]
    BY <2>1
  <2> QED
    BY <2>2
<1>2. ASSUME NEW n \in 0 .. (Len(s) - 1), n \in T PROVE n + 1 \in T
  <2>1. PICK f : Is(f, n)
    BY <1>2
  <2>2. PICK g : g = [i \in 0 .. (n + 1) |-> IF i = n + 1 THEN After(f[n], s[n + 1]) ELSE f[i]]
    OBVIOUS
  <2>3. \A i \in 0 .. n : g[i] = f[i]
    BY <2>2
  <2>4. ASSUME NEW i \in 0 .. (n + 1)
        PROVE  g[i] = IF i = 0 THEN "text" ELSE After(g[i - 1], s[i])
    <3>1. CASE i = n + 1
      <4>1. i # 0 /\ i - 1 = n /\ n \in 0 .. n
        BY <3>1
      <4> QED
        BY <2>2, <2>3, <3>1, <4>1
    <3>2. CASE i # n + 1
      <4>1. i \in 0 .. n /\ (i # 0 => i - 1 \in 0 .. n)
        BY <3>2
      <4>2. f[i] = IF i = 0 THEN "text" ELSE After(f[i - 1], s[i])
        BY <2>1, <4>1
      <4> QED
        BY <2>3, <4>1, <4>2
    <3> QED
      BY <3>1, <3>2
  <2>5. Is(g, n + 1)
    BY <2>2, <2>4
  <2> QED
    BY <1>2, <2>5
<1>3. Len(s) \in T
  <2> HIDE DEF T
  <2>1. \A i \in 0 .. Len(s) : i \in T
    BY <1>1, <1>2, UpTo
  <2> QED
    BY <2>1
<1> QED
  BY <1>3

LEMMA ModesUnfold ==
    ASSUME NEW s, Len(s) \in Nat
    PROVE  /\ ModesOf(s)[0] = "text"
           /\ \A i \in 1 .. Len(s) : ModesOf(s)[i] = After(ModesOf(s)[i - 1], s[i])
<1>1. PICK f : f = ModesOf(s)
  OBVIOUS
<1>2. f = [i \in 0 .. Len(s) |-> IF i = 0 THEN "text" ELSE After(f[i - 1], s[i])]
  BY <1>1, ModesExist DEF ModesOf
<1>3. 0 \in 0 .. Len(s) /\ \A i \in 1 .. Len(s) : i \in 0 .. Len(s) /\ i # 0
  OBVIOUS
<1> QED
  BY <1>1, <1>2, <1>3

LEMMA KeptExists ==
    ASSUME NEW s, NEW P, Len(s) \in Nat
    PROVE  \E f : f = [i \in 0 .. Len(s) |->
                          IF i = 0 THEN <<>>
                          ELSE IF i \in P THEN Append(f[i - 1], s[i]) ELSE f[i - 1]]
<1> DEFINE Is(f, n) == f = [i \in 0 .. n |->
                               IF i = 0 THEN <<>>
                               ELSE IF i \in P THEN Append(f[i - 1], s[i]) ELSE f[i - 1]]
           T == {n \in 0 .. Len(s) : \E f : Is(f, n)}
<1>1. 0 \in T
  <2>1. PICK f : f = [i \in 0 .. 0 |-> <<>>]
    OBVIOUS
  <2>2. Is(f, 0)
    BY <2>1
  <2> QED
    BY <2>2
<1>2. ASSUME NEW n \in 0 .. (Len(s) - 1), n \in T PROVE n + 1 \in T
  <2>1. PICK f : Is(f, n)
    BY <1>2
  <2>2. PICK z : z = IF n + 1 \in P THEN Append(f[n], s[n + 1]) ELSE f[n]
    OBVIOUS
  <2>3. PICK g : g = [i \in 0 .. (n + 1) |-> IF i = n + 1 THEN z ELSE f[i]]
    OBVIOUS
  <2>4. \A i \in 0 .. n : g[i] = f[i]
    BY <2>3
  <2>5. ASSUME NEW i \in 0 .. (n + 1)
        PROVE  g[i] = IF i = 0 THEN <<>>
                      ELSE IF i \in P THEN Append(g[i - 1], s[i]) ELSE g[i - 1]
    <3>1. CASE i = n + 1
      <4>1. i # 0 /\ i - 1 = n /\ n \in 0 .. n
        BY <3>1
      <4>2. g[i] = z /\ g[i - 1] = f[n]
        BY <2>3, <2>4, <3>1, <4>1
      <4> QED
        BY <2>2, <3>1, <4>1, <4>2
    <3>2. CASE i # n + 1
      <4>1. i \in 0 .. n /\ (i # 0 => i - 1 \in 0 .. n)
        BY <3>2
      <4>2. f[i] = IF i = 0 THEN <<>>
                   ELSE IF i \in P THEN Append(f[i - 1], s[i]) ELSE f[i - 1]
        BY <2>1, <4>1
      <4> QED
        BY <2>4, <4>1, <4>2
    <3> QED
      BY <3>1, <3>2
  <2>6. Is(g, n + 1)
    BY <2>3, <2>5
  <2>7. n + 1 \in 0 .. Len(s)
    OBVIOUS
  <2> HIDE DEF Is
  <2> QED
    BY <2>6, <2>7
<1>3. Len(s) \in T
  <2> HIDE DEF T
  <2>1. \A i \in 0 .. Len(s) : i \in T
    BY <1>1, <1>2, UpTo
  <2> QED
    BY <2>1
<1> QED
  BY <1>3

LEMMA KeptUnfold ==
    ASSUME NEW s, NEW P, Len(s) \in Nat
    PROVE  /\ Kept(s, P)[0] = <<>>
           /\ \A i \in 1 .. Len(s) :
                 Kept(s, P)[i] = IF i \in P THEN Append(Kept(s, P)[i - 1], s[i])
                                 ELSE Kept(s, P)[i - 1]
<1>1. PICK f : f = Kept(s, P)
  OBVIOUS
<1>2. f = [i \in 0 .. Len(s) |->
              IF i = 0 THEN <<>> ELSE IF i \in P THEN Append(f[i - 1], s[i]) ELSE f[i - 1]]
  <2> DEFINE Is(g) == g = [i \in 0 .. Len(s) |->
                              IF i = 0 THEN <<>>
                              ELSE IF i \in P THEN Append(g[i - 1], s[i]) ELSE g[i - 1]]
  <2>1. \E g : Is(g)
    BY KeptExists
  <2>2. f = CHOOSE g : Is(g)
    BY <1>1 DEF Kept
  <2>3. Is(f)
    <3> HIDE DEF Is
    <3> QED
      BY <2>1, <2>2
  <2> QED
    BY <2>3
<1>3. 0 \in 0 .. Len(s) /\ \A i \in 1 .. Len(s) : i \in 0 .. Len(s) /\ i # 0
  OBVIOUS
<1> QED
  BY <1>1, <1>2, <1>3

(* The same at i + 1, as the inductions below use it.                       *)
LEMMA KeptStep ==
    ASSUME NEW s, NEW P, Len(s) \in Nat, NEW i \in 0 .. (Len(s) - 1)
    PROVE  Kept(s, P)[i + 1] = IF i + 1 \in P THEN Append(Kept(s, P)[i], s[i + 1])
                               ELSE Kept(s, P)[i]
<1>1. i + 1 \in 1 .. Len(s) /\ (i + 1) - 1 = i
  OBVIOUS
<1> QED
  BY <1>1, KeptUnfold

LEMMA KeptType ==
    ASSUME NEW S, NEW s \in Seq(S), NEW P, NEW n \in 0 .. Len(s)
    PROVE  Kept(s, P)[n] \in Seq(S) /\ Len(Kept(s, P)[n]) \in Nat
<1> DEFINE T == {i \in 0 .. Len(s) : Kept(s, P)[i] \in Seq(S)}
<1>1. Len(s) \in Nat /\ \A i \in 1 .. Len(s) : s[i] \in S
  BY LenProperties
<1>2. 0 \in T
  <2>1. Kept(s, P)[0] = <<>>
    BY <1>1, KeptUnfold
  <2>2. 0 \in 0 .. Len(s) /\ <<>> \in Seq(S)
    BY <1>1
  <2> QED
    BY <2>1, <2>2
<1>3. ASSUME NEW i \in 0 .. (Len(s) - 1), i \in T PROVE i + 1 \in T
  <2>1. i + 1 \in 1 .. Len(s) /\ i + 1 \in 0 .. Len(s)
    BY <1>1
  <2>2. Append(Kept(s, P)[i], s[i + 1]) \in Seq(S)
    BY <1>1, <1>3, <2>1, AppendProperties
  <2>3. \/ Kept(s, P)[i + 1] = Append(Kept(s, P)[i], s[i + 1])
        \/ Kept(s, P)[i + 1] = Kept(s, P)[i]
    <3>1. Kept(s, P)[i + 1] = IF i + 1 \in P THEN Append(Kept(s, P)[i], s[i + 1])
                              ELSE Kept(s, P)[i]
      BY <1>1, KeptStep
    <3> QED
      BY <3>1
  <2> QED
    BY <1>3, <2>1, <2>2, <2>3
<1>4. n \in T
  <2> HIDE DEF T
  <2>1. \A i \in 0 .. Len(s) : i \in T
    BY <1>1, <1>2, <1>3, UpTo
  <2> QED
    BY <2>1
<1> QED
  BY <1>4, LenProperties

(* What is kept of t is what is kept of s behind its first a entries.       *)
Shifted(t, Q, n, s, P, a, m) ==
    /\ Len(s) \in Nat /\ Len(t) \in Nat /\ a \in Nat
    /\ n \in 0 .. Len(t) /\ m \in 0 .. Len(s) /\ m = a + n
    /\ Kept(s, P)[a] = Kept(t, Q)[0]
    /\ \A i \in 1 .. n : (i \in Q <=> a + i \in P) /\ (i \in Q => t[i] = s[a + i])

LEMMA KeptShift ==
    ASSUME NEW s, NEW t, NEW P, NEW Q, NEW a, NEW n, NEW m, Shifted(t, Q, n, s, P, a, m)
    PROVE  Kept(t, Q)[n] = Kept(s, P)[m]
<1>1. /\ Len(s) \in Nat /\ Len(t) \in Nat /\ a \in Nat
      /\ n \in 0 .. Len(t) /\ m \in 0 .. Len(s) /\ m = a + n
      /\ Kept(s, P)[a] = Kept(t, Q)[0]
  BY DEF Shifted
<1> DEFINE T == {i \in 0 .. n : Kept(t, Q)[i] = Kept(s, P)[a + i]}
<1>2. 0 \in T
  <2>1. a + 0 = a /\ 0 \in 0 .. n
    BY <1>1
  <2> QED
    BY <1>1, <2>1
<1>3. ASSUME NEW i \in 0 .. (n - 1), i \in T PROVE i + 1 \in T
  <2>1. /\ i + 1 \in 1 .. n /\ i + 1 \in 0 .. n /\ i \in 0 .. (Len(t) - 1)
        /\ a + i \in 0 .. (Len(s) - 1) /\ a + (i + 1) = (a + i) + 1
    BY <1>1
  <2>2. Kept(t, Q)[i + 1] = IF i + 1 \in Q THEN Append(Kept(t, Q)[i], t[i + 1])
                            ELSE Kept(t, Q)[i]
    BY <1>1, <2>1, KeptStep
  <2>3. Kept(s, P)[(a + i) + 1]
          = IF (a + i) + 1 \in P THEN Append(Kept(s, P)[a + i], s[(a + i) + 1])
            ELSE Kept(s, P)[a + i]
    BY <1>1, <2>1, KeptStep
  <2>4. /\ i + 1 \in Q <=> (a + i) + 1 \in P
        /\ i + 1 \in Q => t[i + 1] = s[(a + i) + 1]
    BY <2>1 DEF Shifted
  <2>5. Kept(t, Q)[i + 1] = Kept(s, P)[(a + i) + 1]
    BY <1>3, <2>2, <2>3, <2>4
  <2> QED
    BY <2>1, <2>5
<1>4. n \in T
  <2> HIDE DEF T
  <2>1. n \in Nat
    BY <1>1
  <2>2. \A i \in 0 .. n : i \in T
    BY <1>2, <1>3, <2>1, UpTo
  <2> QED
    BY <2>1, <2>2
<1> QED
  BY <1>1, <1>4

(* Only the positions up to n matter for what is kept up to n.              *)
LEMMA KeptSame ==
    ASSUME NEW s, Len(s) \in Nat, NEW P, NEW Q, NEW n \in 0 .. Len(s),
           \A i \in 1 .. n : i \in Q <=> i \in P
    PROVE  Kept(s, Q)[n] = Kept(s, P)[n]
<1>1. 0 + n = n /\ \A i \in 1 .. n : 0 + i = i
  OBVIOUS
<1>2. Kept(s, P)[0] = Kept(s, Q)[0]
  BY KeptUnfold
<1>3. Shifted(s, Q, n, s, P, 0, n)
  BY <1>1, <1>2 DEF Shifted
<1> QED
  BY <1>3, KeptShift

(* A stretch of which nothing is kept, and one of which everything is.      *)
LEMMA KeptNone ==
    ASSUME NEW s, Len(s) \in Nat, NEW P, NEW m \in Nat, NEW n \in m .. Len(s),
           \A i \in (m + 1) .. n : i \notin P
    PROVE  Kept(s, P)[n] = Kept(s, P)[m]
<1> DEFINE T == {i \in m .. n : Kept(s, P)[i] = Kept(s, P)[m]}
<1>1. m \in T
  OBVIOUS
<1>2. ASSUME NEW i \in m .. (n - 1), i \in T PROVE i + 1 \in T
  <2>1. i + 1 \in (m + 1) .. n /\ i + 1 \in m .. n /\ i \in 0 .. (Len(s) - 1)
    OBVIOUS
  <2>2. Kept(s, P)[i + 1] = Kept(s, P)[i]
    BY <2>1, KeptStep
  <2> QED
    BY <1>2, <2>1, <2>2
<1>3. n \in T
  <2> HIDE DEF T
  <2>1. n \in Nat
    OBVIOUS
  <2>2. \A i \in m .. n : i \in T
    BY <1>1, <1>2, <2>1, UpTo
  <2> QED
    BY <2>1, <2>2
<1> QED
  BY <1>3

LEMMA KeptAll ==
    ASSUME NEW S, NEW s \in Seq(S), NEW P, NEW m \in Nat, NEW n \in m .. Len(s),
           \A i \in (m + 1) .. n : i \in P
    PROVE  Kept(s, P)[n] = Kept(s, P)[m] \o SubSeq(s, m + 1, n)
<1> DEFINE T == {i \in m .. n : Kept(s, P)[i] = Kept(s, P)[m] \o SubSeq(s, m + 1, i)}
<1>1. Len(s) \in Nat /\ m \in 0 .. Len(s) /\ \A i \in 1 .. Len(s) : s[i] \in S
  BY LenProperties
<1>2. PICK k : k = Kept(s, P)[m]
  OBVIOUS
<1>3. k \in Seq(S)
  BY <1>1, <1>2, KeptType
<1>4. m \in T
  <2>1. m \in m .. n
    OBVIOUS
  <2>2. SubSeq(s, m + 1, m) = <<>>
    BY SubSeqEmpty
  <2>3. k \o <<>> = k
    BY <1>3, ConcatEmptySeq
  <2> QED
    BY <1>2, <2>1, <2>2, <2>3
<1>5. ASSUME NEW i \in m .. (n - 1), i \in T PROVE i + 1 \in T
  <2>1. /\ i + 1 \in (m + 1) .. n /\ i + 1 \in m .. n /\ i \in 0 .. (Len(s) - 1)
        /\ i + 1 \in 1 .. Len(s)
    BY <1>1
  <2>2. Kept(s, P)[i + 1] = Append(Kept(s, P)[i], s[i + 1])
    BY <1>1, <2>1, KeptStep
  <2>3. PICK r : r = SubSeq(s, m + 1, i)
    OBVIOUS
  <2>4. r \in Seq(S)
    <3>1. m + 1 \in Int /\ i \in Int /\ \A j \in (m + 1) .. i : s[j] \in S
      BY <1>1, <2>1
    <3> QED
      BY <2>3, <3>1, SubSeqProperties
  <2>5. SubSeq(s, m + 1, i + 1) = Append(r, s[i + 1])
    <3>1. m + 1 \in 1 .. Len(s) /\ i + 1 \in (m + 1) .. Len(s) /\ (i + 1) - 1 = i
      BY <1>1, <2>1
    <3> QED
      BY <2>3, <3>1, SubSeqRecursiveSecond
  <2>6. Append(k \o r, s[i + 1]) = k \o Append(r, s[i + 1])
    <3>1. s[i + 1] \in S
      BY <1>1, <2>1
    <3>2. <<s[i + 1]>> \in Seq(S)
      BY <3>1
    <3>3. k \o r \in Seq(S)
      BY <1>3, <2>4, ConcatProperties
    <3>4. Append(k \o r, s[i + 1]) = (k \o r) \o <<s[i + 1]>>
      BY <3>1, <3>3, AppendIsConcat
    <3>5. Append(r, s[i + 1]) = r \o <<s[i + 1]>>
      BY <2>4, <3>1, AppendIsConcat
    <3>6. (k \o r) \o <<s[i + 1]>> = k \o (r \o <<s[i + 1]>>)
      <4>1. PICK u : u = <<s[i + 1]>>
        OBVIOUS
      <4>2. u \in Seq(S)
        BY <3>2, <4>1
      <4>3. (k \o r) \o u = k \o (r \o u)
        BY <1>3, <2>4, <4>2, ConcatAssociative
      <4> QED
        BY <4>1, <4>3
    <3> QED
      BY <3>4, <3>5, <3>6
  <2>7. Kept(s, P)[i] = k \o r
    BY <1>2, <1>5, <2>3
  <2> QED
    BY <1>2, <2>1, <2>2, <2>5, <2>6, <2>7
<1>6. n \in T
  <2> HIDE DEF T
  <2>1. n \in Nat
    OBVIOUS
  <2>2. \A i \in m .. n : i \in T
    BY <1>4, <1>5, <2>1, UpTo
  <2> QED
    BY <2>1, <2>2
<1> QED
  BY <1>6

(* What is kept up to m is the beginning of what is kept up to n.           *)
LEMMA KeptPrefix ==
    ASSUME NEW S, NEW s \in Seq(S), NEW P, NEW m \in Nat, NEW n \in m .. Len(s)
    PROVE  /\ Len(Kept(s, P)[m]) <= Len(Kept(s, P)[n])
           /\ \A k \in 1 .. Len(Kept(s, P)[m]) : Kept(s, P)[n][k] = Kept(s, P)[m][k]
<1>1. PICK b : b = Kept(s, P)[m]
  OBVIOUS
<1> DEFINE T == {i \in m .. n : /\ Len(b) <= Len(Kept(s, P)[i])
                                /\ \A k \in 1 .. Len(b) : Kept(s, P)[i][k] = b[k]}
<1>2. Len(s) \in Nat /\ m \in 0 .. Len(s) /\ \A i \in 1 .. Len(s) : s[i] \in S
  BY LenProperties
<1>3. Len(b) \in Nat
  BY <1>1, <1>2, KeptType
<1>4. m \in T
  BY <1>1, <1>3
<1>5. ASSUME NEW i \in m .. (n - 1), i \in T PROVE i + 1 \in T
  <2>1. i + 1 \in m .. n /\ i \in 0 .. (Len(s) - 1) /\ i \in 0 .. Len(s) /\ i + 1 \in 1 .. Len(s)
    BY <1>2
  <2>2. PICK c : c = Kept(s, P)[i]
    OBVIOUS
  <2>3. c \in Seq(S) /\ Len(c) \in Nat
    BY <2>1, <2>2, KeptType
  <2>4. Len(b) <= Len(c) /\ \A k \in 1 .. Len(b) : c[k] = b[k]
    BY <1>5, <2>2
  <2>5. Kept(s, P)[i + 1] = IF i + 1 \in P THEN Append(c, s[i + 1]) ELSE c
    BY <1>2, <2>1, <2>2, KeptStep
  <2>6. PICK d : d = Append(c, s[i + 1])
    OBVIOUS
  <2>7. Len(d) = Len(c) + 1 /\ \A k \in 1 .. Len(c) : d[k] = c[k]
    BY <1>2, <2>1, <2>3, <2>6, AppendProperties
  <2>8. Len(b) <= Len(d) /\ \A k \in 1 .. Len(b) : k \in 1 .. Len(c) /\ d[k] = b[k]
    BY <1>3, <2>3, <2>4, <2>7
  <2>9. PICK e : e = Kept(s, P)[i + 1]
    OBVIOUS
  <2>10. e = d \/ e = c
    BY <2>5, <2>6, <2>9
  <2>11. Len(b) <= Len(e) /\ \A k \in 1 .. Len(b) : e[k] = b[k]
    BY <2>4, <2>8, <2>10
  <2> QED
    BY <2>1, <2>9, <2>11
<1>6. n \in T
  <2> HIDE DEF T
  <2>1. n \in Nat
    OBVIOUS
  <2>2. \A i \in m .. n : i \in T
    BY <1>4, <1>5, <2>1, UpTo
  <2> QED
    BY <2>1, <2>2
<1> QED
  BY <1>1, <1>6

(* Every entry that is kept is one of s at a position in P.                 *)
LEMMA KeptEntries ==
    ASSUME NEW S, NEW s \in Seq(S), NEW P, NEW n \in 0 .. Len(s),
           NEW k \in 1 .. Len(Kept(s, P)[n])
    PROVE  \E i \in 1 .. n : i \in P /\ Kept(s, P)[n][k] = s[i]
<1> DEFINE From(q, j) == \A l \in 1 .. Len(q) : \E i \in 1 .. j : i \in P /\ q[l] = s[i]
           T == {j \in 0 .. Len(s) : From(Kept(s, P)[j], j)}
<1>1. Len(s) \in Nat /\ \A i \in 1 .. Len(s) : s[i] \in S
  BY LenProperties
<1>2. 0 \in T
  <2>1. Kept(s, P)[0] = <<>> /\ 0 \in 0 .. Len(s)
    BY <1>1, KeptUnfold
  <2>2. From(<<>>, 0)
    OBVIOUS
  <2> QED
    BY <2>1, <2>2
<1>3. ASSUME NEW j \in 0 .. (Len(s) - 1), j \in T PROVE j + 1 \in T
  <2>1. j + 1 \in 0 .. Len(s) /\ j \in 0 .. Len(s) /\ j + 1 \in 1 .. Len(s)
    BY <1>1
  <2>2. PICK c : c = Kept(s, P)[j]
    OBVIOUS
  <2>3. c \in Seq(S) /\ Len(c) \in Nat
    BY <2>1, <2>2, KeptType
  <2>4. From(c, j)
    BY <1>3, <2>2
  <2>5. From(c, j + 1)
    <3>1. \A i \in 1 .. j : i \in 1 .. (j + 1)
      OBVIOUS
    <3> QED
      BY <2>4, <3>1
  <2>6. PICK e : e = Kept(s, P)[j + 1]
    OBVIOUS
  <2>7. e = IF j + 1 \in P THEN Append(c, s[j + 1]) ELSE c
    BY <1>1, <2>1, <2>2, <2>6, KeptStep
  <2>8. CASE j + 1 \in P
    <3>1. /\ Len(e) = Len(c) + 1 /\ \A l \in 1 .. Len(c) : e[l] = c[l]
          /\ e[Len(c) + 1] = s[j + 1]
      BY <1>1, <2>1, <2>3, <2>7, <2>8, AppendProperties
    <3>2. ASSUME NEW l \in 1 .. Len(e) PROVE \E i \in 1 .. (j + 1) : i \in P /\ e[l] = s[i]
      <4>1. CASE l = Len(c) + 1
        <5>1. j + 1 \in 1 .. (j + 1)
          OBVIOUS
        <5> QED
          BY <2>8, <3>1, <4>1, <5>1
      <4>2. CASE l # Len(c) + 1
        <5>1. l \in 1 .. Len(c)
          BY <2>3, <3>1, <4>2
        <5> QED
          BY <2>5, <3>1, <5>1
      <4> QED
        BY <4>1, <4>2
    <3>3. From(e, j + 1)
      BY <3>2
    <3> QED
      BY <2>1, <2>6, <3>3
  <2>9. CASE j + 1 \notin P
    BY <2>1, <2>5, <2>6, <2>7, <2>9
  <2> QED
    BY <2>8, <2>9
<1>4. n \in T
  <2> HIDE DEF T
  <2>1. \A i \in 0 .. Len(s) : i \in T
    BY <1>1, <1>2, <1>3, UpTo
  <2> QED
    BY <2>1
<1> QED
  BY <1>4

(* q lists the positions of P up to n, in their order.                      *)
Lists(q, P, n) ==
    /\ q \in Seq(Nat)
    /\ \A k \in 1 .. Len(q) : q[k] \in P /\ q[k] \in 1 .. n
    /\ \A k, l \in 1 .. Len(q) : k < l => q[k] < q[l]
    /\ \A i \in 1 .. n : i \in P => \E k \in 1 .. Len(q) : q[k] = i

LEMMA PositionsType ==
    ASSUME NEW s, Len(s) \in Nat
    PROVE  /\ Positions(s) \in Seq(Nat) /\ Len(Positions(s)) = Len(s)
           /\ \A i \in 1 .. Len(s) : Positions(s)[i] = i
<1>1. PICK t : t = [i \in 1 .. Len(s) |-> i]
  OBVIOUS
<1>2. \A i \in 1 .. Len(s) : i \in Nat
  OBVIOUS
<1>3. t \in Seq(Nat) /\ Len(t) = Len(s)
  BY <1>1, <1>2, IsASeq
<1> QED
  BY <1>1, <1>3 DEF Positions

LEMMA KeptLists ==
    ASSUME NEW s, Len(s) \in Nat, NEW P, NEW n \in 0 .. Len(s)
    PROVE  Lists(Kept(Positions(s), P)[n], P, n)
<1>1. PICK t : t = Positions(s)
  OBVIOUS
<1>2. t \in Seq(Nat) /\ Len(t) = Len(s) /\ \A i \in 1 .. Len(s) : t[i] = i
  BY <1>1, PositionsType
<1> DEFINE T == {j \in 0 .. Len(s) : Lists(Kept(t, P)[j], P, j)}
<1>3. 0 \in T
  <2>1. Kept(t, P)[0] = <<>> /\ 0 \in 0 .. Len(s)
    BY <1>2, KeptUnfold
  <2>2. Lists(<<>>, P, 0)
    BY DEF Lists
  <2> QED
    BY <2>1, <2>2
<1>4. ASSUME NEW j \in 0 .. (Len(s) - 1), j \in T PROVE j + 1 \in T
  <2>1. j + 1 \in 0 .. Len(s) /\ j \in 0 .. Len(s) /\ j + 1 \in 1 .. Len(s) /\ j + 1 \in Nat
    OBVIOUS
  <2>2. PICK c : c = Kept(t, P)[j]
    OBVIOUS
  <2>3. Lists(c, P, j)
    BY <1>4, <2>2
  <2>4. c \in Seq(Nat) /\ Len(c) \in Nat
    BY <2>3, LenProperties DEF Lists
  <2>5. PICK e : e = Kept(t, P)[j + 1]
    OBVIOUS
  <2>6. e = IF j + 1 \in P THEN Append(c, j + 1) ELSE c
    <3>1. t[j + 1] = j + 1 /\ j \in 0 .. (Len(t) - 1)
      BY <1>2, <2>1
    <3>2. e = IF j + 1 \in P THEN Append(c, t[j + 1]) ELSE c
      BY <1>2, <2>2, <2>5, <3>1, KeptStep
    <3> QED
      BY <3>1, <3>2
  <2>7. CASE j + 1 \in P
    <3>1. /\ e \in Seq(Nat) /\ Len(e) = Len(c) + 1 /\ \A l \in 1 .. Len(c) : e[l] = c[l]
          /\ e[Len(c) + 1] = j + 1
      BY <2>1, <2>4, <2>6, <2>7, AppendProperties
    <3>2. \A l \in 1 .. Len(e) : l \in 1 .. Len(c) \/ l = Len(c) + 1
      BY <2>4, <3>1
    <3>3. \A k \in 1 .. Len(e) : e[k] \in P /\ e[k] \in 1 .. (j + 1)
      <4>1. \A k \in 1 .. Len(c) : c[k] \in P /\ c[k] \in 1 .. (j + 1)
        BY <2>3 DEF Lists
      <4>2. j + 1 \in 1 .. (j + 1)
        OBVIOUS
      <4> QED
        BY <2>7, <3>1, <3>2, <4>1, <4>2
    <3>4. ASSUME NEW k \in 1 .. Len(e), NEW l \in 1 .. Len(e), k < l PROVE e[k] < e[l]
      <4>1. k \in 1 .. Len(c)
        BY <2>4, <3>1, <3>4
      <4>2. CASE l = Len(c) + 1
        <5>1. c[k] \in 1 .. j
          BY <2>3, <4>1 DEF Lists
        <5> QED
          BY <3>1, <4>1, <4>2, <5>1
      <4>3. CASE l \in 1 .. Len(c)
        BY <2>3, <3>1, <3>4, <4>1, <4>3 DEF Lists
      <4> QED
        BY <3>2, <4>2, <4>3
    <3>5. ASSUME NEW i \in 1 .. (j + 1), i \in P PROVE \E k \in 1 .. Len(e) : e[k] = i
      <4>1. CASE i = j + 1
        <5>1. Len(c) + 1 \in 1 .. Len(e)
          BY <2>4, <3>1
        <5> QED
          BY <3>1, <4>1, <5>1
      <4>2. CASE i # j + 1
        <5>1. i \in 1 .. j
          BY <4>2
        <5>2. PICK k \in 1 .. Len(c) : c[k] = i
          BY <2>3, <3>5, <5>1 DEF Lists
        <5>3. k \in 1 .. Len(e)
          BY <2>4, <3>1
        <5> QED
          BY <3>1, <5>2, <5>3
      <4> QED
        BY <4>1, <4>2
    <3> QED
      BY <2>1, <2>5, <3>1, <3>3, <3>4, <3>5 DEF Lists
  <2>8. CASE j + 1 \notin P
    <3>1. \A k \in 1 .. Len(c) : c[k] \in P /\ c[k] \in 1 .. (j + 1)
      BY <2>3 DEF Lists
    <3>2. \A i \in 1 .. (j + 1) : i \in P => i \in 1 .. j
      BY <2>8
    <3>3. Lists(c, P, j + 1)
      BY <2>3, <3>1, <3>2 DEF Lists
    <3> QED
      BY <2>1, <2>5, <2>6, <2>8, <3>3
  <2> QED
    BY <2>7, <2>8
<1>5. n \in T
  <2> HIDE DEF T
  <2>1. \A i \in 0 .. Len(s) : i \in T
    BY <1>3, <1>4, UpTo
  <2> QED
    BY <2>1
<1> QED
  BY <1>1, <1>5

-----------------------------------------------------------------------------
(* Modes.  A scanner may start to read text at p: it is outside comments,   *)
(* and not between the two bytes of a comment's first mark.                 *)
Ready(s, p) ==
    /\ ModesOf(s)[p] \in {"text", "slash"}
    /\ ~(p < Len(s) /\ ModesOf(s)[p] = "slash" /\ s[p + 1] = "*")

(* The bytes x and y follow one another at no position from a to b.         *)
Nowhere(s, x, y, a, b) == \A i \in a .. b : ~(s[i] = x /\ s[i + 1] = y)

LEMMA ModeStep ==
    ASSUME NEW s, Len(s) \in Nat, NEW i \in 0 .. (Len(s) - 1)
    PROVE  ModesOf(s)[i + 1] = After(ModesOf(s)[i], s[i + 1])
<1>1. i + 1 \in 1 .. Len(s) /\ (i + 1) - 1 = i
  OBVIOUS
<1> QED
  BY <1>1, ModesUnfold

(* As long as no comment opens, the mode stays outside comments.            *)
LEMMA TextStretch ==
    ASSUME NEW s, Len(s) \in Nat, NEW p \in Nat, NEW e \in p .. Len(s), Ready(s, p),
           Nowhere(s, "/", "*", p + 1, e - 1)
    PROVE  \A i \in p .. e : /\ ModesOf(s)[i] \in {"text", "slash"}
                             /\ i > p => (ModesOf(s)[i] = "slash" <=> s[i] = "/")
<1>1. PICK M : M = ModesOf(s)
  OBVIOUS
<1> DEFINE T == {i \in p .. e : /\ M[i] \in {"text", "slash"}
                                /\ i > p => (M[i] = "slash" <=> s[i] = "/")}
<1>2. p \in T
  BY <1>1 DEF Ready
<1>3. ASSUME NEW i \in p .. (e - 1), i \in T PROVE i + 1 \in T
  <2>1. i + 1 \in p .. e /\ i + 1 > p /\ i \in 0 .. (Len(s) - 1) /\ i < Len(s)
    OBVIOUS
  <2>2. M[i + 1] = After(M[i], s[i + 1])
    BY <1>1, <2>1, ModeStep
  <2>3. ~(M[i] = "slash" /\ s[i + 1] = "*")
    <3>1. CASE i = p
      BY <1>1, <2>1, <3>1 DEF Ready
    <3>2. CASE i # p
      <4>1. i > p /\ i \in (p + 1) .. (e - 1)
        BY <3>2
      <4>2. M[i] = "slash" <=> s[i] = "/"
        BY <1>3, <4>1
      <4> QED
        BY <4>1, <4>2 DEF Nowhere
    <3> QED
      BY <3>1, <3>2
  <2>4. M[i] \in {"text", "slash"}
    BY <1>3
  <2>5. M[i + 1] = IF s[i + 1] = "/" THEN "slash" ELSE "text"
    BY <2>2, <2>3, <2>4 DEF After
  <2> QED
    BY <2>1, <2>5
<1>4. \A i \in p .. e : i \in T
  <2> HIDE DEF T
  <2>1. e \in Nat
    OBVIOUS
  <2> QED
    BY <1>2, <1>3, <2>1, UpTo
<1> QED
  BY <1>1, <1>4

(* As long as a comment is not closed, the mode stays inside.               *)
LEMMA CommentStretch ==
    ASSUME NEW s, Len(s) \in Nat, NEW p \in Nat, NEW e \in p .. Len(s),
           ModesOf(s)[p] = "comment", Nowhere(s, "*", "/", p + 1, e - 1)
    PROVE  \A i \in p .. e : /\ ModesOf(s)[i] \in {"comment", "star"}
                             /\ ModesOf(s)[i] = "star" <=> (i > p /\ s[i] = "*")
<1>1. PICK M : M = ModesOf(s)
  OBVIOUS
<1> DEFINE T == {i \in p .. e : /\ M[i] \in {"comment", "star"}
                                /\ M[i] = "star" <=> (i > p /\ s[i] = "*")}
<1>2. p \in T
  BY <1>1
<1>3. ASSUME NEW i \in p .. (e - 1), i \in T PROVE i + 1 \in T
  <2>1. i + 1 \in p .. e /\ i + 1 > p /\ i \in 0 .. (Len(s) - 1)
    OBVIOUS
  <2>2. M[i + 1] = After(M[i], s[i + 1])
    BY <1>1, <2>1, ModeStep
  <2>3. ~(M[i] = "star" /\ s[i + 1] = "/")
    <3> SUFFICES ASSUME M[i] = "star", s[i + 1] = "/" PROVE FALSE
      OBVIOUS
    <3>1. i > p /\ s[i] = "*"
      BY <1>3
    <3>2. i \in (p + 1) .. (e - 1)
      BY <3>1
    <3> QED
      BY <3>1, <3>2 DEF Nowhere
  <2>4. M[i] \in {"comment", "star"}
    BY <1>3
  <2>5. M[i + 1] = IF s[i + 1] = "*" THEN "star" ELSE "comment"
    BY <2>2, <2>3, <2>4 DEF After
  <2> QED
    BY <2>1, <2>5
<1>4. \A i \in p .. e : i \in T
  <2> HIDE DEF T
  <2>1. e \in Nat
    OBVIOUS
  <2> QED
    BY <1>2, <1>3, <2>1, UpTo
<1> QED
  BY <1>1, <1>4

LEMMA OutsideIs ==
    ASSUME NEW s, NEW i
    PROVE  i \in Outside(s) <=>
             /\ i \in 1 .. Len(s)
             /\ ModesOf(s)[i - 1] \in {"text", "slash"} /\ ModesOf(s)[i] \in {"text", "slash"}
             /\ ~(i < Len(s) /\ ModesOf(s)[i] = "slash" /\ ModesOf(s)[i + 1] = "comment")
  BY DEF Outside

(* The bytes of a stretch of text are outside comments, its last one unless *)
(* it is the beginning of a comment's first mark.                           *)
LEMMA TextOutside ==
    ASSUME NEW s, Len(s) \in Nat, NEW p \in Nat, NEW e \in p .. Len(s), Ready(s, p),
           Nowhere(s, "/", "*", p + 1, e - 1),
           ~(e < Len(s) /\ s[e] = "/" /\ s[e + 1] = "*")
    PROVE  \A i \in (p + 1) .. e : i \in Outside(s)
<1> SUFFICES ASSUME NEW i \in (p + 1) .. e PROVE i \in Outside(s)
  OBVIOUS
<1>1. PICK M : M = ModesOf(s)
  OBVIOUS
<1>2. \A j \in p .. e : M[j] \in {"text", "slash"} /\ (j > p => (M[j] = "slash" <=> s[j] = "/"))
  BY <1>1, TextStretch
<1>3. i \in 1 .. Len(s) /\ i \in p .. e /\ i - 1 \in p .. e /\ i > p
  OBVIOUS
<1>4. ~(i < Len(s) /\ M[i] = "slash" /\ M[i + 1] = "comment")
  <2>1. CASE i = e
    <3> SUFFICES ASSUME i < Len(s), M[i] = "slash", M[i + 1] = "comment" PROVE FALSE
      OBVIOUS
    <3>1. s[i] = "/"
      BY <1>2, <1>3
    <3>2. M[i + 1] = After(M[i], s[i + 1])
      <4>1. i \in 0 .. (Len(s) - 1)
        BY <1>3
      <4> QED
        BY <1>1, <4>1, ModeStep
    <3>3. s[i + 1] = "*"
      BY <3>2 DEF After
    <3> QED
      BY <2>1, <3>1, <3>3
  <2>2. CASE i # e
    <3>1. i + 1 \in p .. e
      BY <2>2
    <3> QED
      BY <1>2, <3>1
  <2> QED
    BY <2>1, <2>2
<1> QED
  BY <1>1, <1>2, <1>3, <1>4, OutsideIs

(* Those of an open comment are not.                                        *)
LEMMA CommentInside ==
    ASSUME NEW s, Len(s) \in Nat, NEW p \in Nat, NEW e \in p .. Len(s),
           ModesOf(s)[p] = "comment", Nowhere(s, "*", "/", p + 1, e - 1)
    PROVE  \A i \in (p + 1) .. e : i \notin Outside(s)
<1> SUFFICES ASSUME NEW i \in (p + 1) .. e PROVE i \notin Outside(s)
  OBVIOUS
<1>1. i \in p .. e
  OBVIOUS
<1>2. ModesOf(s)[i] \in {"comment", "star"}
  BY <1>1, CommentStretch
<1> QED
  BY <1>2, OutsideIs

(* A comment's first mark at the end of a stretch of text.                  *)
LEMMA MarkOpens ==
    ASSUME NEW s, Len(s) \in Nat, NEW p \in Nat, NEW e \in p .. (Len(s) - 2), Ready(s, p),
           Nowhere(s, "/", "*", p + 1, e), s[e + 1] = "/", s[e + 2] = "*"
    PROVE  /\ ModesOf(s)[e + 2] = "comment"
           /\ \A i \in (p + 1) .. e : i \in Outside(s)
           /\ \A i \in (e + 1) .. (e + 2) : i \notin Outside(s)
<1>1. PICK M : M = ModesOf(s)
  OBVIOUS
<1>2. /\ e + 1 \in p .. Len(s) /\ (e + 1) - 1 = e /\ e \in p .. Len(s) /\ e + 1 > p
      /\ e + 1 \in p .. (e + 1) /\ e + 1 \in 0 .. (Len(s) - 1) /\ (e + 1) + 1 = e + 2
      /\ e + 1 < Len(s) /\ \A i \in (e + 1) .. (e + 2) : i = e + 1 \/ i = e + 2
  OBVIOUS
<1>3. M[e + 1] = "slash"
  <2>1. \A i \in p .. (e + 1) : M[i] \in {"text", "slash"}
                                /\ (i > p => (M[i] = "slash" <=> s[i] = "/"))
    BY <1>1, <1>2, TextStretch
  <2> QED
    BY <1>2, <2>1
<1>4. M[e + 2] = After(M[e + 1], s[e + 2])
  BY <1>1, <1>2, ModeStep
<1>5. M[e + 2] = "comment"
  BY <1>3, <1>4 DEF After
<1>6. \A i \in (e + 1) .. (e + 2) : i \notin Outside(s)
  BY <1>1, <1>2, <1>3, <1>5, OutsideIs
<1>7. \A i \in (p + 1) .. e : i \in Outside(s)
  <2>1. Nowhere(s, "/", "*", p + 1, e - 1)
    BY DEF Nowhere
  <2>2. ~(e < Len(s) /\ s[e] = "/" /\ s[e + 1] = "*")
    OBVIOUS
  <2> QED
    BY <1>2, <2>1, <2>2, TextOutside
<1> QED
  BY <1>1, <1>5, <1>6, <1>7

(* The second mark at the end of a comment.                                 *)
LEMMA MarkCloses ==
    ASSUME NEW s, Len(s) \in Nat, NEW p \in Nat, NEW e \in p .. (Len(s) - 2),
           ModesOf(s)[p] = "comment",
           Nowhere(s, "*", "/", p + 1, e), s[e + 1] = "*", s[e + 2] = "/"
    PROVE  /\ Ready(s, e + 2)
           /\ \A i \in (p + 1) .. (e + 2) : i \notin Outside(s)
<1>1. PICK M : M = ModesOf(s)
  OBVIOUS
<1>2. /\ e + 1 \in p .. Len(s) /\ (e + 1) - 1 = e /\ e + 1 > p
      /\ e + 1 \in p .. (e + 1) /\ e + 1 \in 0 .. (Len(s) - 1) /\ (e + 1) + 1 = e + 2
      /\ (e + 2) - 1 = e + 1
      /\ \A i \in (p + 1) .. (e + 2) : i \in (p + 1) .. (e + 1) \/ i = e + 2
  OBVIOUS
<1>3. M[e + 1] = "star"
  <2>1. \A i \in p .. (e + 1) : /\ M[i] \in {"comment", "star"}
                                /\ M[i] = "star" <=> (i > p /\ s[i] = "*")
    BY <1>1, <1>2, CommentStretch
  <2> QED
    BY <1>2, <2>1
<1>4. M[e + 2] = After(M[e + 1], s[e + 2])
  BY <1>1, <1>2, ModeStep
<1>5. M[e + 2] = "text"
  BY <1>3, <1>4 DEF After
<1>6. \A i \in (p + 1) .. (e + 1) : i \notin Outside(s)
  BY <1>2, CommentInside
<1>7. e + 2 \notin Outside(s)
  BY <1>1, <1>2, <1>3, OutsideIs
<1> QED
  BY <1>1, <1>2, <1>5, <1>6, <1>7 DEF Ready

(* A ';' at the end of a stretch of text.                                   *)
LEMMA SemiEnds ==
    ASSUME NEW s, Len(s) \in Nat, NEW p \in Nat, NEW e \in p .. (Len(s) - 1), Ready(s, p),
           Nowhere(s, "/", "*", p + 1, e), s[e + 1] = SEMI
    PROVE  /\ Ready(s, e + 1)
           /\ \A i \in (p + 1) .. (e + 1) : i \in Outside(s)
<1>1. PICK M : M = ModesOf(s)
  OBVIOUS
<1>2. /\ e + 1 \in p .. Len(s) /\ (e + 1) - 1 = e /\ e + 1 > p /\ e + 1 \in p .. (e + 1)
  OBVIOUS
<1>3. \A i \in p .. (e + 1) : M[i] \in {"text", "slash"}
                              /\ (i > p => (M[i] = "slash" <=> s[i] = "/"))
  BY <1>1, <1>2, TextStretch
<1>4. M[e + 1] = "text" /\ s[e + 1] # "/"
  BY <1>2, <1>3, SemiIs
<1>5. \A i \in (p + 1) .. (e + 1) : i \in Outside(s)
  BY <1>2, <1>4, TextOutside
<1> QED
  BY <1>1, <1>4, <1>5 DEF Ready

-----------------------------------------------------------------------------
(* What the searches in the window say about the file.  Pos is the number   *)
(* of bytes consumed.                                                       *)
Pos == workBase + cursor

LEMMA PosIs ==
    ASSUME WindowInv
    PROVE  /\ file \in Seq(Bytes) /\ Len(file) \in Nat /\ workBase \in Nat /\ cursor \in Nat
           /\ Len(work) \in Nat /\ cursor <= Len(work) /\ work \in Seq(Bytes)
           /\ Pos = workBase + cursor /\ Pos \in Nat /\ Fed = workBase + Len(work)
           /\ Fed \in Pos .. Len(file) /\ Fed \in Nat /\ Pos \in 0 .. Len(file)
           /\ segStart \in 0 .. Pos
           /\ \A i \in 1 .. Len(work) : work[i] = file[workBase + i]
<1>1. /\ file \in Seq(Bytes) /\ Len(file) \in Nat /\ workBase \in Nat /\ cursor \in Nat
      /\ Len(work) \in Nat /\ cursor <= Len(work) /\ work \in Seq(Bytes) /\ segStart \in Nat
      /\ segStart <= workBase + cursor /\ Fed <= Len(file) /\ Fed = workBase + Len(work)
      /\ work = subarray(file, workBase, Fed)
  <2>1. /\ file \in Seq(Bytes) /\ work \in Seq(Bytes) /\ workBase \in Nat
        /\ cursor \in 0 .. Len(work) /\ segStart \in Nat
        /\ segStart <= workBase + cursor /\ Fed <= Len(file)
        /\ work = subarray(file, workBase, Fed)
    BY DEF WindowInv
  <2>2. Len(file) \in Nat /\ Len(work) \in Nat
    BY <2>1, LenProperties
  <2>3. cursor \in Nat /\ cursor <= Len(work)
    BY <2>1, <2>2
  <2> QED
    BY <2>1, <2>2, <2>3 DEF Fed
<1>2. /\ Pos = workBase + cursor /\ Pos \in Nat
      /\ Fed \in Pos .. Len(file) /\ Fed \in Nat /\ Pos \in 0 .. Len(file)
      /\ segStart \in 0 .. Pos /\ Fed \in workBase .. Len(file) /\ Fed - workBase = Len(work)
  <2>1. PICK f : f = Fed
    OBVIOUS
  <2>2. PICK p : p = Pos
    OBVIOUS
  <2>3. p = workBase + cursor /\ f = workBase + Len(work) /\ f <= Len(file)
    BY <1>1, <2>1, <2>2 DEF Pos
  <2>4. /\ p \in Nat /\ f \in p .. Len(file) /\ f \in Nat /\ p \in 0 .. Len(file)
        /\ segStart \in 0 .. p /\ f \in workBase .. Len(file) /\ f - workBase = Len(work)
    BY <1>1, <2>3
  <2> QED
    BY <2>1, <2>2, <2>3, <2>4
<1>3. \A i \in 1 .. (Fed - workBase) : work[i] = file[workBase + i]
  <2>1. PICK b : b = workBase
    OBVIOUS
  <2>2. PICK f : f = Fed
    OBVIOUS
  <2>3. file \in Seq(Bytes) /\ b \in Nat /\ f \in b .. Len(file) /\ work = subarray(file, b, f)
    BY <1>1, <1>2, <2>1, <2>2
  <2>4. \A i \in 1 .. (f - b) : subarray(file, b, f)[i] = file[b + i]
    BY <2>3, SubarrayIs
  <2> QED
    BY <2>1, <2>2, <2>3, <2>4
<1> QED
  BY <1>1, <1>2, <1>3

(* A range of the window is one of the file.                                *)
LEMMA WindowPart ==
    ASSUME WindowInv, NEW to \in cursor .. Len(work)
    PROVE  subarray(work, cursor, to) = SubSeq(file, Pos + 1, workBase + to)
<1>1. PICK a : a = subarray(work, cursor, to)
  OBVIOUS
<1>2. PICK b : b = subarray(file, Pos, workBase + to)
  OBVIOUS
<1>3. /\ a \in Seq(Bytes) /\ Len(a) = to - cursor
      /\ \A i \in 1 .. (to - cursor) : a[i] = work[cursor + i]
  BY <1>1, PosIs, SubarrayIs
<1>4. /\ Pos \in Nat /\ workBase + to \in Pos .. Len(file)
      /\ (workBase + to) - Pos = to - cursor
  BY PosIs
<1>5. /\ b \in Seq(Bytes) /\ Len(b) = (workBase + to) - Pos
      /\ \A i \in 1 .. ((workBase + to) - Pos) : b[i] = file[Pos + i]
  BY <1>2, <1>4, PosIs, SubarrayIs
<1>6. ASSUME NEW i \in 1 .. Len(a) PROVE a[i] = b[i]
  <2>1. /\ i \in 1 .. (to - cursor) /\ cursor + i \in 1 .. Len(work)
        /\ workBase + (cursor + i) = Pos + i
    BY <1>3, PosIs
  <2>2. a[i] = work[cursor + i] /\ work[cursor + i] = file[workBase + (cursor + i)]
    BY <1>3, <2>1, PosIs
  <2>3. b[i] = file[Pos + i]
    BY <1>4, <1>5, <2>1
  <2> QED
    BY <2>1, <2>2, <2>3
<1>7. a = b
  BY <1>3, <1>4, <1>5, <1>6, SeqEqual
<1> QED
  BY <1>1, <1>2, <1>7 DEF subarray

(* A mark of two bytes is found where it first occurs, or occurs nowhere.   *)
LEMMA MarkFound ==
    ASSUME WindowInv, NEW x \in Bytes, NEW y \in Bytes,
           NEW r, r = IndexOf(work, <<x, y>>, cursor)
    PROVE  /\ r = -1 => Nowhere(file, x, y, Pos + 1, Fed - 1)
           /\ r # -1 => /\ r \in Nat /\ cursor <= r /\ r + 2 <= Len(work)
                        /\ file[workBase + r + 1] = x /\ file[workBase + r + 2] = y
                        /\ Nowhere(file, x, y, Pos + 1, workBase + r)
<1>1. PICK pat : pat = <<x, y>>
  OBVIOUS
<1>2. pat \in Seq(Bytes) /\ Len(pat) = 2 /\ pat[1] = x /\ pat[2] = y
  BY <1>1
<1>3. IsIndex(r, work, pat, cursor)
  BY <1>1, <1>2, IndexOfIs, PosIs
<1>4. ASSUME NEW i \in Nat, i + 2 <= Len(work)
      PROVE  /\ subarray(work, i, i + 2) = pat <=> work[i + 1] = x /\ work[i + 2] = y
             /\ work[i + 1] = file[workBase + i + 1] /\ work[i + 2] = file[workBase + i + 2]
  <2>1. PICK a : a = subarray(work, i, i + 2)
    OBVIOUS
  <2>2. i + 2 \in i .. Len(work) /\ (i + 2) - i = 2 /\ 1 \in 1 .. 2 /\ 2 \in 1 .. 2
    BY <1>4, PosIs
  <2>3. /\ a \in Seq(Bytes) /\ Len(a) = (i + 2) - i
        /\ \A j \in 1 .. ((i + 2) - i) : a[j] = work[i + j]
    BY <2>1, <2>2, PosIs, SubarrayIs
  <2>4. Len(a) = 2 /\ a[1] = work[i + 1] /\ a[2] = work[i + 2]
    BY <2>2, <2>3
  <2>5. (a[1] = x /\ a[2] = y) => a = pat
    <3> SUFFICES ASSUME a[1] = x, a[2] = y PROVE a = pat
      OBVIOUS
    <3>1. \A j \in 1 .. Len(a) : a[j] = pat[j]
      <4>1. \A j \in 1 .. Len(a) : j = 1 \/ j = 2
        BY <2>4
      <4> QED
        BY <1>2, <4>1
    <3> QED
      BY <1>2, <2>3, <2>4, <3>1, SeqEqual
  <2>6. /\ i + 1 \in 1 .. Len(work) /\ i + 2 \in 1 .. Len(work)
        /\ workBase + (i + 1) = workBase + i + 1 /\ workBase + (i + 2) = workBase + i + 2
    BY <1>4, PosIs
  <2>7. work[i + 1] = file[workBase + (i + 1)] /\ work[i + 2] = file[workBase + (i + 2)]
    BY <2>6, PosIs
  <2> QED
    BY <1>2, <2>1, <2>4, <2>5, <2>6, <2>7
<1>5. ASSUME NEW e \in Nat, e + 1 <= Len(work),
             \A j \in cursor .. (e - 1) : j \notin Found(work, pat, cursor)
      PROVE  Nowhere(file, x, y, Pos + 1, workBase + e)
  <2> SUFFICES ASSUME NEW i \in (Pos + 1) .. (workBase + e), file[i] = x, file[i + 1] = y
               PROVE  FALSE
    BY DEF Nowhere
  <2>1. PICK j : j = i - workBase - 1
    OBVIOUS
  <2>2. /\ j \in cursor .. (e - 1) /\ j \in Nat /\ j + 2 <= Len(work)
        /\ workBase + j + 1 = i /\ workBase + j + 2 = i + 1
        /\ j \in cursor .. (Len(work) - 2)
    <3>1. /\ Pos = workBase + cursor /\ workBase \in Nat /\ cursor \in Nat
          /\ Len(work) \in Nat
      BY PosIs
    <3>2. i \in Nat /\ workBase + cursor + 1 <= i /\ i <= workBase + e
      BY <3>1
    <3> QED
      BY <1>5, <2>1, <3>1, <3>2
  <2>3. subarray(work, j, j + 2) = pat
    BY <1>4, <2>2
  <2>4. j \in Found(work, pat, cursor)
    BY <1>2, <2>2, <2>3 DEF Found
  <2> QED
    BY <1>5, <2>2, <2>4
<1>6. ASSUME r = -1 PROVE Nowhere(file, x, y, Pos + 1, Fed - 1)
  <2>1. r \notin Found(work, pat, cursor)
    BY <1>6, PosIs DEF Found
  <2>2. Found(work, pat, cursor) = {}
    BY <1>3, <2>1 DEF IsIndex
  <2>3. CASE Len(work) = 0
    <3>1. \A i \in (Pos + 1) .. (Fed - 1) : FALSE
      BY <2>3, PosIs
    <3> QED
      BY <3>1 DEF Nowhere
  <2>4. CASE Len(work) # 0
    <3>1. PICK e : e = Len(work) - 1
      OBVIOUS
    <3>2. e \in Nat /\ e + 1 <= Len(work) /\ workBase + e = Fed - 1
      BY <2>4, <3>1, PosIs
    <3>3. Nowhere(file, x, y, Pos + 1, workBase + e)
      BY <1>5, <2>2, <3>2
    <3> QED
      BY <3>2, <3>3
  <2> QED
    BY <2>3, <2>4
<1>7. ASSUME r # -1
      PROVE  /\ r \in Nat /\ cursor <= r /\ r + 2 <= Len(work)
             /\ file[workBase + r + 1] = x /\ file[workBase + r + 2] = y
             /\ Nowhere(file, x, y, Pos + 1, workBase + r)
  <2>1. r \in Found(work, pat, cursor) /\ \A j \in Found(work, pat, cursor) : r <= j
    BY <1>3, <1>7 DEF IsIndex
  <2>2. r \in cursor .. (Len(work) - 2) /\ subarray(work, r, r + 2) = pat
    BY <1>2, <2>1 DEF Found
  <2>3. r \in Nat /\ cursor <= r /\ r + 2 <= Len(work) /\ r + 1 <= Len(work)
    BY <2>2, PosIs
  <2>4. file[workBase + r + 1] = x /\ file[workBase + r + 2] = y
    BY <1>4, <2>2, <2>3
  <2>5. \A j \in cursor .. (r - 1) : ~(r <= j)
    BY <2>3, PosIs
  <2> QED
    BY <1>5, <2>1, <2>3, <2>4, <2>5
<1> QED
  BY <1>6, <1>7

(* The same for a ';'.                                                      *)
LEMMA SemiFound ==
    ASSUME WindowInv, NEW r, r = IndexOf(work, <<SEMI>>, cursor)
    PROVE  /\ r = -1 => \A i \in (Pos + 1) .. Fed : file[i] # SEMI
           /\ r # -1 => /\ r \in Nat /\ cursor <= r /\ r + 1 <= Len(work)
                        /\ file[workBase + r + 1] = SEMI
                        /\ \A i \in (Pos + 1) .. (workBase + r) : file[i] # SEMI
<1>1. PICK pat : pat = <<SEMI>>
  OBVIOUS
<1>2. pat \in Seq(Bytes) /\ Len(pat) = 1 /\ pat[1] = SEMI
  BY <1>1, SemiIs
<1>3. IsIndex(r, work, pat, cursor)
  BY <1>1, <1>2, IndexOfIs, PosIs
<1>4. ASSUME NEW i \in Nat, i + 1 <= Len(work)
      PROVE  /\ subarray(work, i, i + 1) = pat <=> work[i + 1] = SEMI
             /\ work[i + 1] = file[workBase + i + 1]
  <2>1. PICK a : a = subarray(work, i, i + 1)
    OBVIOUS
  <2>2. i + 1 \in i .. Len(work) /\ (i + 1) - i = 1 /\ 1 \in 1 .. 1
    BY <1>4, PosIs
  <2>3. /\ a \in Seq(Bytes) /\ Len(a) = (i + 1) - i
        /\ \A j \in 1 .. ((i + 1) - i) : a[j] = work[i + j]
    BY <2>1, <2>2, PosIs, SubarrayIs
  <2>4. Len(a) = 1 /\ a[1] = work[i + 1]
    BY <2>2, <2>3
  <2>5. a[1] = SEMI => a = pat
    <3> SUFFICES ASSUME a[1] = SEMI PROVE a = pat
      OBVIOUS
    <3>1. \A j \in 1 .. Len(a) : a[j] = pat[j]
      <4>1. \A j \in 1 .. Len(a) : j = 1
        BY <2>4
      <4> QED
        BY <1>2, <4>1
    <3> QED
      BY <1>2, <2>3, <2>4, <3>1, SeqEqual
  <2>6. i + 1 \in 1 .. Len(work) /\ workBase + (i + 1) = workBase + i + 1
    BY <1>4, PosIs
  <2>7. work[i + 1] = file[workBase + (i + 1)]
    BY <2>6, PosIs
  <2> QED
    BY <1>2, <2>1, <2>4, <2>5, <2>6, <2>7
<1>5. ASSUME NEW e \in Nat, e <= Len(work),
             \A j \in cursor .. (e - 1) : j \notin Found(work, pat, cursor)
      PROVE  \A i \in (Pos + 1) .. (workBase + e) : file[i] # SEMI
  <2> SUFFICES ASSUME NEW i \in (Pos + 1) .. (workBase + e), file[i] = SEMI
               PROVE  FALSE
    OBVIOUS
  <2>1. PICK j : j = i - workBase - 1
    OBVIOUS
  <2>2. /\ j \in cursor .. (e - 1) /\ j \in Nat /\ j + 1 <= Len(work)
        /\ workBase + j + 1 = i /\ j \in cursor .. (Len(work) - 1)
    <3>1. /\ Pos = workBase + cursor /\ workBase \in Nat /\ cursor \in Nat
          /\ Len(work) \in Nat
      BY PosIs
    <3>2. i \in Nat /\ workBase + cursor + 1 <= i /\ i <= workBase + e
      BY <3>1
    <3> QED
      BY <1>5, <2>1, <3>1, <3>2
  <2>3. subarray(work, j, j + 1) = pat
    BY <1>4, <2>2
  <2>4. j \in Found(work, pat, cursor)
    BY <1>2, <2>2, <2>3 DEF Found
  <2> QED
    BY <1>5, <2>2, <2>4
<1>6. ASSUME r = -1 PROVE \A i \in (Pos + 1) .. Fed : file[i] # SEMI
  <2>1. r \notin Found(work, pat, cursor)
    BY <1>6, PosIs DEF Found
  <2>2. Found(work, pat, cursor) = {}
    BY <1>3, <2>1 DEF IsIndex
  <2>3. PICK e : e = Len(work)
    OBVIOUS
  <2>4. e \in Nat /\ e <= Len(work) /\ workBase + e = Fed
    BY <2>3, PosIs
  <2>5. \A i \in (Pos + 1) .. (workBase + e) : file[i] # SEMI
    BY <1>5, <2>2, <2>4
  <2> QED
    BY <2>4, <2>5
<1>7. ASSUME r # -1
      PROVE  /\ r \in Nat /\ cursor <= r /\ r + 1 <= Len(work)
             /\ file[workBase + r + 1] = SEMI
             /\ \A i \in (Pos + 1) .. (workBase + r) : file[i] # SEMI
  <2>1. r \in Found(work, pat, cursor) /\ \A j \in Found(work, pat, cursor) : r <= j
    BY <1>3, <1>7 DEF IsIndex
  <2>2. r \in cursor .. (Len(work) - 1) /\ subarray(work, r, r + 1) = pat
    BY <1>2, <2>1 DEF Found
  <2>3. r \in Nat /\ cursor <= r /\ r + 1 <= Len(work) /\ r <= Len(work)
    BY <2>2, PosIs
  <2>4. file[workBase + r + 1] = SEMI
    BY <1>4, <2>2, <2>3
  <2>5. \A j \in cursor .. (r - 1) : ~(r <= j)
    BY <2>3, PosIs
  <2> QED
    BY <1>5, <2>1, <2>3, <2>4, <2>5
<1> QED
  BY <1>6, <1>7

-----------------------------------------------------------------------------
(* Segments.  The ';' and the other bytes outside comments; the ';' among   *)
(* the first n bytes, and the text behind offset a among them.              *)
Semis(s) == {i \in Outside(s) : s[i] = SEMI}
Texts(s) == {i \in Outside(s) : s[i] # SEMI}
Done(s, n) == Kept(Positions(s), Semis(s))[n]
Since(s, a, n) == Kept(s, {i \in Texts(s) : i > a})[n]

(* Where the segment behind the ';' in q begins, and where the one at k     *)
(* begins and ends when q has all ';' of s.                                 *)
StartOf(q) == IF Len(q) = 0 THEN 0 ELSE q[Len(q)]
StartAt(q, k) == IF k = 1 THEN 0 ELSE q[k - 1]
EndAt(s, q, k) == IF k > Len(q) THEN Len(s) ELSE q[k]

LEMMA SemisAre ==
    ASSUME NEW s, Len(s) \in Nat
    PROVE  SemisOf(s) = Done(s, Len(s)) /\ Lists(SemisOf(s), Semis(s), Len(s))
<1>1. SemisOf(s) = Done(s, Len(s))
  BY PositionsType DEF SemisOf, At, Done, Semis
<1>2. Lists(Done(s, Len(s)), Semis(s), Len(s))
  <2>1. Len(s) \in 0 .. Len(s)
    OBVIOUS
  <2> QED
    BY <2>1, KeptLists DEF Done
<1> QED
  BY <1>1, <1>2

LEMMA DoneType ==
    ASSUME NEW s, Len(s) \in Nat, NEW n \in 0 .. Len(s)
    PROVE  /\ Done(s, n) \in Seq(Nat) /\ Len(Done(s, n)) \in Nat
           /\ StartOf(Done(s, n)) \in 0 .. n
<1>1. PICK d : d = Done(s, n)
  OBVIOUS
<1>2. Lists(d, Semis(s), n)
  BY <1>1, KeptLists DEF Done
<1>3. d \in Seq(Nat) /\ Len(d) \in Nat
  BY <1>2, LenProperties DEF Lists
<1>4. StartOf(d) \in 0 .. n
  <2>1. CASE Len(d) = 0
    BY <2>1 DEF StartOf
  <2>2. CASE Len(d) # 0
    <3>1. Len(d) \in 1 .. Len(d)
      BY <1>3, <2>2
    <3>2. d[Len(d)] \in 1 .. n
      BY <1>2, <3>1 DEF Lists
    <3>3. d[Len(d)] \in 0 .. n
      BY <3>2
    <3> QED
      BY <2>2, <3>3 DEF StartOf
  <2> QED
    BY <2>1, <2>2
<1> QED
  BY <1>1, <1>3, <1>4

(* The bounds of the segments.                                              *)
LEMMA Bounds ==
    ASSUME NEW s, Len(s) \in Nat, NEW q, q = SemisOf(s), NEW k \in 1 .. (Len(q) + 1)
    PROVE  /\ Len(q) \in Nat /\ StartAt(q, k) \in Nat /\ EndAt(s, q, k) \in Nat
           /\ StartAt(q, k) <= EndAt(s, q, k) /\ EndAt(s, q, k) <= Len(s)
<1>1. Lists(q, Semis(s), Len(s))
  BY SemisAre
<1>2. Len(q) \in Nat /\ k \in Nat
  BY <1>1, LenProperties DEF Lists
<1>3. ASSUME NEW j \in 1 .. Len(q) PROVE q[j] \in Nat /\ 1 <= q[j] /\ q[j] <= Len(s)
  <2>1. q[j] \in 1 .. Len(s)
    BY <1>1, <1>3 DEF Lists
  <2> QED
    BY <2>1
<1>4. StartAt(q, k) \in Nat /\ StartAt(q, k) <= Len(s)
  <2>1. CASE k = 1
    BY <2>1 DEF StartAt
  <2>2. CASE k # 1
    <3>1. k - 1 \in 1 .. Len(q)
      BY <1>2, <2>2
    <3> QED
      BY <1>3, <2>2, <3>1 DEF StartAt
  <2> QED
    BY <2>1, <2>2
<1>5. EndAt(s, q, k) \in Nat /\ EndAt(s, q, k) <= Len(s)
  <2>1. CASE k > Len(q)
    BY <2>1 DEF EndAt
  <2>2. CASE ~(k > Len(q))
    <3>1. k \in 1 .. Len(q)
      BY <1>2, <2>2
    <3> QED
      BY <1>3, <2>2, <3>1 DEF EndAt
  <2> QED
    BY <2>1, <2>2
<1>6. StartAt(q, k) <= EndAt(s, q, k)
  <2>1. CASE k > Len(q)
    BY <1>4, <2>1 DEF EndAt
  <2>2. CASE ~(k > Len(q)) /\ k = 1
    BY <1>5, <2>2 DEF StartAt
  <2>3. CASE ~(k > Len(q)) /\ k # 1
    <3>1. k \in 1 .. Len(q) /\ k - 1 \in 1 .. Len(q) /\ k - 1 < k
      BY <1>2, <2>3
    <3>2. q[k - 1] < q[k]
      BY <1>1, <3>1 DEF Lists
    <3>3. q[k - 1] <= q[k]
      BY <1>3, <3>1, <3>2
    <3> QED
      BY <2>3, <3>3 DEF StartAt, EndAt
  <2> QED
    BY <2>1, <2>2, <2>3
<1> QED
  BY <1>2, <1>4, <1>5, <1>6

(* The segment from offset a to offset b.                                   *)
SegmentIn(s, a, b) == [text |-> Since(s, a, b), offset |-> a, length |-> b - a]

LEMMA SegmentsAre ==
    ASSUME NEW s, Len(s) \in Nat, NEW q, q = SemisOf(s)
    PROVE  /\ SegmentsOf(s) = [k \in 1 .. (Len(q) + 1) |-> SegmentsOf(s)[k]]
           /\ DOMAIN SegmentsOf(s) = 1 .. (Len(q) + 1)
           /\ \A k \in 1 .. (Len(q) + 1) :
                 SegmentsOf(s)[k] = SegmentIn(s, StartAt(q, k), EndAt(s, q, k))
<1> DEFINE first(k) == IF k = 1 THEN 1 ELSE q[k - 1] + 1
           last(k) == IF k > Len(q) THEN Len(s) ELSE q[k]
           P(k) == {i \in Outside(s) : first(k) <= i /\ i <= last(k) /\ s[i] # SEMI}
           seg(k) == [text |-> At(s, P(k)), offset |-> first(k) - 1,
                      length |-> last(k) - first(k) + 1]
<1>1. SegmentsOf(s) = [k \in 1 .. (Len(q) + 1) |-> seg(k)]
  BY DEF SegmentsOf
<1>2. ASSUME NEW k \in 1 .. (Len(q) + 1)
      PROVE  seg(k) = SegmentIn(s, StartAt(q, k), EndAt(s, q, k))
  <2>1. PICK a : a = StartAt(q, k)
    OBVIOUS
  <2>2. PICK b : b = EndAt(s, q, k)
    OBVIOUS
  <2>3. a \in Nat /\ b \in Nat /\ a <= b /\ b <= Len(s) /\ Len(q) \in Nat
    BY <2>1, <2>2, Bounds
  <2>4. last(k) = b
    BY <2>2 DEF EndAt
  <2>5. first(k) = a + 1
    BY <2>1 DEF StartAt
  <2>6. PICK X : X = P(k)
    OBVIOUS
  <2>7. PICK Y : Y = {i \in Texts(s) : i > a}
    OBVIOUS
  <2>8. \A i \in Nat : i \in X <=> (i \in Y /\ i <= b)
    <3>1. X = {i \in Outside(s) : a + 1 <= i /\ i <= b /\ s[i] # SEMI}
      BY <2>4, <2>5, <2>6
    <3>2. \A i \in Nat : a + 1 <= i <=> i > a
      BY <2>3
    <3> QED
      BY <2>7, <3>1, <3>2 DEF Texts
  <2>9. Kept(s, X)[Len(s)] = Kept(s, X)[b]
    <3>1. Len(s) \in b .. Len(s) /\ \A i \in (b + 1) .. Len(s) : i \in Nat /\ ~(i <= b)
      BY <2>3
    <3>2. \A i \in (b + 1) .. Len(s) : i \notin X
      BY <2>8, <3>1
    <3> QED
      BY <2>3, <3>1, <3>2, KeptNone
  <2>10. Kept(s, X)[b] = Kept(s, Y)[b]
    <3>1. b \in 0 .. Len(s) /\ \A i \in 1 .. b : i \in Nat /\ i <= b
      BY <2>3
    <3>2. \A i \in 1 .. b : i \in X <=> i \in Y
      BY <2>8, <3>1
    <3> QED
      BY <3>1, <3>2, KeptSame
  <2>11. At(s, P(k)) = Since(s, a, b)
    BY <2>6, <2>7, <2>9, <2>10 DEF At, Since
  <2>12. first(k) - 1 = a /\ last(k) - first(k) + 1 = b - a
    BY <2>3, <2>4, <2>5
  <2> QED
    BY <2>1, <2>2, <2>11, <2>12 DEF SegmentIn
<1> HIDE DEF seg
<1> QED
  BY <1>1, <1>2

(* The ';' among the first n bytes are the first ones of all.               *)
LEMMA DonePrefix ==
    ASSUME NEW s, Len(s) \in Nat, NEW n \in 0 .. Len(s), NEW m \in n .. Len(s)
    PROVE  /\ Len(Done(s, n)) <= Len(Done(s, m))
           /\ \A k \in 1 .. Len(Done(s, n)) : Done(s, m)[k] = Done(s, n)[k]
<1>1. Positions(s) \in Seq(Nat) /\ Len(Positions(s)) = Len(s)
  BY PositionsType
<1>2. PICK q : q = Positions(s)
  OBVIOUS
<1>3. PICK S : q \in Seq(S)
  BY <1>1, <1>2
<1>4. PICK P : P = Semis(s)
  OBVIOUS
<1>5. n \in Nat /\ m \in n .. Len(q)
  BY <1>1, <1>2
<1>6. /\ Len(Kept(q, P)[n]) <= Len(Kept(q, P)[m])
      /\ \A k \in 1 .. Len(Kept(q, P)[n]) : Kept(q, P)[m][k] = Kept(q, P)[n][k]
  <2>1. Len(Kept(q, P)[n]) <= Len(Kept(q, P)[m])
    BY <1>3, <1>5, KeptPrefix
  <2>2. ASSUME NEW k \in 1 .. Len(Kept(q, P)[n]) PROVE Kept(q, P)[m][k] = Kept(q, P)[n][k]
    BY <1>3, <1>5, <2>2, KeptPrefix
  <2> QED
    BY <2>1, <2>2
<1> QED
  BY <1>2, <1>4, <1>6 DEF Done

(* A ';' outside comments ends the segment of the text before it.           *)
LEMMA SegmentEnds ==
    ASSUME NEW s, Len(s) \in Nat, NEW n \in 0 .. (Len(s) - 1), n + 1 \in Semis(s),
           NEW d, d = Done(s, n)
    PROVE  /\ Done(s, n + 1) = Append(d, n + 1)
           /\ Len(Done(s, n + 1)) = Len(d) + 1 /\ StartOf(Done(s, n + 1)) = n + 1
           /\ Len(d) + 1 \in DOMAIN SegmentsOf(s)
           /\ SegmentsOf(s)[Len(d) + 1] = SegmentIn(s, StartOf(d), n + 1)
           /\ Since(s, StartOf(d), n + 1) = Since(s, StartOf(d), n)
<1>1. PICK q : q = SemisOf(s)
  OBVIOUS
<1>2. PICK e : e = Done(s, n + 1)
  OBVIOUS
<1>3. /\ n \in 0 .. Len(s) /\ n + 1 \in 0 .. Len(s) /\ Len(s) \in (n + 1) .. Len(s)
      /\ n + 1 \in 1 .. Len(s) /\ Len(s) \in n .. Len(s)
  OBVIOUS
<1>4. d \in Seq(Nat) /\ Len(d) \in Nat /\ StartOf(d) \in 0 .. n
  BY <1>3, DoneType
<1>5. e = Append(d, n + 1)
  <2>1. PICK r : r = Positions(s)
    OBVIOUS
  <2>2. Len(r) = Len(s) /\ r[n + 1] = n + 1
    BY <1>3, <2>1, PositionsType
  <2>3. Kept(r, Semis(s))[n + 1] = Append(Kept(r, Semis(s))[n], r[n + 1])
    BY <2>2, KeptStep
  <2> QED
    BY <1>2, <2>1, <2>2, <2>3 DEF Done
<1>6. Len(e) = Len(d) + 1 /\ e[Len(d) + 1] = n + 1
  <2>1. n + 1 \in Nat
    OBVIOUS
  <2> QED
    BY <1>4, <1>5, <2>1, AppendProperties
<1>7. Len(e) # 0 /\ StartOf(e) = n + 1
  BY <1>4, <1>6 DEF StartOf
<1>8. /\ Len(e) <= Len(q) /\ \A k \in 1 .. Len(e) : q[k] = e[k]
  <2>1. q = Done(s, Len(s))
    BY <1>1, SemisAre
  <2> QED
    BY <1>2, <1>3, <2>1, DonePrefix
<1>9. Len(d) <= Len(q) /\ \A k \in 1 .. Len(d) : q[k] = d[k]
  <2>1. q = Done(s, Len(s))
    BY <1>1, SemisAre
  <2> QED
    BY <1>3, <2>1, DonePrefix
<1>10. Len(q) \in Nat
  BY <1>1, SemisAre, LenProperties DEF Lists
<1>11. PICK k : k = Len(d) + 1
  OBVIOUS
<1>12. k \in 1 .. (Len(q) + 1) /\ k \in 1 .. Len(e) /\ ~(k > Len(q))
  BY <1>4, <1>6, <1>8, <1>10, <1>11
<1>13. EndAt(s, q, k) = n + 1
  BY <1>6, <1>8, <1>11, <1>12 DEF EndAt
<1>14. StartAt(q, k) = StartOf(d)
  <2>1. CASE Len(d) = 0
    <3>1. k = 1
      BY <1>11, <2>1
    <3> QED
      BY <2>1, <3>1 DEF StartAt, StartOf
  <2>2. CASE Len(d) # 0
    <3>1. k # 1 /\ k - 1 = Len(d) /\ Len(d) \in 1 .. Len(d)
      BY <1>4, <1>11, <2>2
    <3> QED
      BY <1>9, <2>2, <3>1 DEF StartAt, StartOf
  <2> QED
    BY <2>1, <2>2
<1>15. Since(s, StartOf(d), n + 1) = Since(s, StartOf(d), n)
  <2>1. PICK Y : Y = {i \in Texts(s) : i > StartOf(d)}
    OBVIOUS
  <2>2. n + 1 \notin Y
    BY <2>1 DEF Texts, Semis
  <2>3. Kept(s, Y)[n + 1] = Kept(s, Y)[n]
    BY <2>2, KeptStep
  <2> QED
    BY <2>1, <2>3 DEF Since
<1>16. /\ k \in DOMAIN SegmentsOf(s)
       /\ SegmentsOf(s)[k] = SegmentIn(s, StartOf(d), n + 1)
  BY <1>1, <1>12, <1>13, <1>14, SegmentsAre
<1> QED
  BY <1>2, <1>5, <1>6, <1>7, <1>11, <1>15, <1>16

(* The last segment is what is behind the last ';'.                         *)
LEMMA LastSegment ==
    ASSUME NEW s, Len(s) \in Nat, NEW d, d = Done(s, Len(s))
    PROVE  /\ DOMAIN SegmentsOf(s) = 1 .. (Len(d) + 1) /\ Len(d) \in Nat
           /\ SegmentsOf(s)[Len(d) + 1] = SegmentIn(s, StartOf(d), Len(s))
<1>1. d = SemisOf(s) /\ Len(d) \in Nat
  BY SemisAre, LenProperties DEF Lists
<1>2. PICK k : k = Len(d) + 1
  OBVIOUS
<1>3. k \in 1 .. (Len(d) + 1) /\ k > Len(d) /\ k - 1 = Len(d) /\ (k = 1 <=> Len(d) = 0)
  BY <1>1, <1>2
<1>4. EndAt(s, d, k) = Len(s) /\ StartAt(d, k) = StartOf(d)
  BY <1>3 DEF EndAt, StartAt, StartOf
<1>5. DOMAIN SegmentsOf(s) = 1 .. (Len(d) + 1)
  BY <1>1, SegmentsAre
<1>6. SegmentsOf(s)[k] = SegmentIn(s, StartAt(d, k), EndAt(s, d, k))
  BY <1>1, <1>3, SegmentsAre
<1> QED
  BY <1>1, <1>2, <1>4, <1>5, <1>6

LEMMA SegmentsSeq ==
    ASSUME NEW s, Len(s) \in Nat, NEW d, d = Done(s, Len(s))
    PROVE  Len(SegmentsOf(s)) = Len(d) + 1 /\ \E S : SegmentsOf(s) \in Seq(S)
<1>1. d = SemisOf(s) /\ Len(d) \in Nat
  BY SemisAre, LenProperties DEF Lists
<1>2. PICK f : f = SegmentsOf(s)
  OBVIOUS
<1>3. PICK n : n = Len(d) + 1
  OBVIOUS
<1>4. n \in Nat /\ f = [k \in 1 .. n |-> f[k]]
  BY <1>1, <1>2, <1>3, SegmentsAre
<1>5. PICK S : S = {f[k] : k \in 1 .. n}
  OBVIOUS
<1>6. \A k \in 1 .. n : f[k] \in S
  BY <1>5
<1>7. f \in Seq(S) /\ Len(f) = n
  BY <1>4, <1>6, IsASeq
<1> QED
  BY <1>2, <1>3, <1>7

-----------------------------------------------------------------------------
(* Sections.  The last mark before segment k + 1 is the segment k, or the   *)
(* one that was the last before k.                                          *)
Records(segs) == {k \in DOMAIN segs : /\ segs[k].text # <<>> /\ ~Mark(segs[k])
                                      /\ InSection(segs, k, "D")}

LEMMA SectionStep ==
    ASSUME NEW segs, NEW k \in Nat, k >= 1, NEW w \in {"H", "D"}
    PROVE  InSection(segs, k + 1, w) <=>
             \/ segs[k].text = <<w>>
             \/ ~Mark(segs[k]) /\ InSection(segs, k, w)
<1>1. (k + 1) - 1 = k
  OBVIOUS
<1>2. ASSUME InSection(segs, k + 1, w), segs[k].text # <<w>>
      PROVE  ~Mark(segs[k]) /\ InSection(segs, k, w)
  <2>1. PICK d \in 1 .. k : segs[d].text = <<w>> /\ \A m \in (d + 1) .. k : ~Mark(segs[m])
    BY <1>1, <1>2 DEF InSection
  <2>2. d # k
    BY <1>2, <2>1
  <2>3. d \in 1 .. (k - 1) /\ k \in (d + 1) .. k /\ \A m \in (d + 1) .. (k - 1) : m \in (d + 1) .. k
    BY <2>2
  <2> QED
    BY <2>1, <2>3 DEF InSection
<1>3. ASSUME segs[k].text = <<w>> PROVE InSection(segs, k + 1, w)
  <2>1. k \in 1 .. k /\ \A m \in (k + 1) .. k : FALSE
    OBVIOUS
  <2> QED
    BY <1>1, <1>3, <2>1 DEF InSection
<1>4. ASSUME ~Mark(segs[k]), InSection(segs, k, w) PROVE InSection(segs, k + 1, w)
  <2>1. PICK d \in 1 .. (k - 1) : /\ segs[d].text = <<w>>
                                  /\ \A m \in (d + 1) .. (k - 1) : ~Mark(segs[m])
    BY <1>4 DEF InSection
  <2>2. d \in 1 .. k /\ \A m \in (d + 1) .. k : m = k \/ m \in (d + 1) .. (k - 1)
    OBVIOUS
  <2> QED
    BY <1>1, <1>4, <2>1, <2>2 DEF InSection
<1> QED
  BY <1>2, <1>3, <1>4

LEMMA NoSection == ASSUME NEW segs, NEW w PROVE ~InSection(segs, 1, w)
<1>1. \A d \in 1 .. (1 - 1) : FALSE
  OBVIOUS
<1> QED
  BY <1>1 DEF InSection

LEMMA Words == /\ <<"H">> # <<"D">> /\ <<"H">> # <<"E">> /\ <<"D">> # <<"E">>
               /\ <<"H">> # <<>> /\ <<"D">> # <<>> /\ <<"E">> # <<>>
  OBVIOUS

(* What handleSegment does for each text.                                   *)
LEMMA HandleCases ==
    ASSUME NEW t, NEW o, NEW l, handleSegment(t, o, l)
    PROVE  /\ t = <<>> => UNCHANGED <<inHeader, inData, entities>>
           /\ t = <<"H">> => inHeader' = TRUE /\ UNCHANGED entities
           /\ t = <<"D">> => inHeader' = FALSE /\ inData' = TRUE /\ UNCHANGED entities
           /\ t = <<"E">> => inHeader' = FALSE /\ inData' = FALSE /\ UNCHANGED entities
           /\ t \notin {<<>>, <<"H">>, <<"D">>, <<"E">>} =>
                 /\ UNCHANGED <<inHeader, inData>>
                 /\ entities' = IF ~inHeader /\ inData
                                THEN Append(entities, [text |-> t, offset |-> o, length |-> l])
                                ELSE entities
  BY Words DEF handleSegment, section

(* The scanner and the reference at the segment k: the records before it,   *)
(* and the section it lies in.                                              *)
SectionIs(segs, k) ==
    /\ entities = Kept(segs, Records(segs))[k - 1]
    /\ inHeader <=> InSection(segs, k, "H")
    /\ (~inHeader /\ inData) <=> InSection(segs, k, "D")

LEMMA HandleIs ==
    ASSUME NEW segs, Len(segs) \in Nat, DOMAIN segs = 1 .. Len(segs),
           NEW k \in 1 .. Len(segs), NEW t, NEW o, NEW l,
           segs[k] = [text |-> t, offset |-> o, length |-> l],
           handleSegment(t, o, l), SectionIs(segs, k)
    PROVE  /\ entities' = Kept(segs, Records(segs))[k]
           /\ inHeader' <=> InSection(segs, k + 1, "H")
           /\ (~inHeader' /\ inData') <=> InSection(segs, k + 1, "D")
<1>1. PICK R : R = Records(segs)
  OBVIOUS
<1>2. segs[k].text = t
  OBVIOUS
<1>3. Mark(segs[k]) <=> t \in {<<"H">>, <<"D">>, <<"E">>}
  BY <1>2 DEF Mark
<1>4. k \in R <=> t # <<>> /\ ~Mark(segs[k]) /\ InSection(segs, k, "D")
  BY <1>1, <1>2 DEF Records
<1>5. Kept(segs, R)[k] = IF k \in R THEN Append(Kept(segs, R)[k - 1], segs[k])
                         ELSE Kept(segs, R)[k - 1]
  BY KeptUnfold
<1>6. /\ entities = Kept(segs, R)[k - 1]
      /\ inHeader <=> InSection(segs, k, "H")
      /\ (~inHeader /\ inData) <=> InSection(segs, k, "D")
  BY <1>1 DEF SectionIs
<1>7. /\ InSection(segs, k + 1, "H") <=> t = <<"H">> \/ (~Mark(segs[k]) /\ InSection(segs, k, "H"))
      /\ InSection(segs, k + 1, "D") <=> t = <<"D">> \/ (~Mark(segs[k]) /\ InSection(segs, k, "D"))
  <2>1. k \in Nat /\ k >= 1
    OBVIOUS
  <2> QED
    BY <1>2, <2>1, SectionStep
<1> QED
  <2>1. CASE t = <<>>
    <3>1. inHeader' = inHeader /\ inData' = inData /\ entities' = entities
      BY <2>1, HandleCases
    <3> QED
      BY <1>1, <1>3, <1>4, <1>5, <1>6, <1>7, <2>1, <3>1, Words
  <2>2. CASE t \in {<<"H">>, <<"D">>, <<"E">>}
    <3>1. entities' = Kept(segs, R)[k]
      BY <1>3, <1>4, <1>5, <1>6, <2>2, HandleCases
    <3>2. CASE t = <<"H">>
      BY <1>1, <1>3, <1>7, <3>1, <3>2, HandleCases, Words
    <3>3. CASE t = <<"D">>
      BY <1>1, <1>3, <1>7, <3>1, <3>3, HandleCases, Words
    <3>4. CASE t = <<"E">>
      BY <1>1, <1>3, <1>7, <3>1, <3>4, HandleCases, Words
    <3> QED
      BY <2>2, <3>2, <3>3, <3>4
  <2>3. CASE t \notin {<<>>, <<"H">>, <<"D">>, <<"E">>}
    <3>1. /\ inHeader' = inHeader /\ inData' = inData
          /\ entities' = IF ~inHeader /\ inData THEN Append(entities, segs[k]) ELSE entities
      BY <2>3, HandleCases
    <3>2. ~Mark(segs[k]) /\ t # <<>>
      BY <1>3, <2>3
    <3>3. k \in R <=> (~inHeader /\ inData)
      BY <1>4, <1>6, <3>2
    <3>4. entities' = Kept(segs, R)[k]
      BY <1>5, <1>6, <3>1, <3>3
    <3> QED
      BY <1>1, <1>6, <1>7, <2>3, <3>1, <3>2, <3>4
  <2> QED
    BY <2>1, <2>2, <2>3

-----------------------------------------------------------------------------
(* What a stretch of text, and one of a comment, add to the segment.        *)
LEMMA TextGrows ==
    ASSUME NEW s \in Seq(Bytes), NEW p \in Nat, NEW e \in p .. Len(s), NEW a \in 0 .. p,
           \A i \in (p + 1) .. e : i \in Outside(s) /\ s[i] # SEMI
    PROVE  Done(s, e) = Done(s, p) /\ Since(s, a, e) = Since(s, a, p) \o SubSeq(s, p + 1, e)
<1>1. Len(s) \in Nat
  BY LenProperties
<1>2. Done(s, e) = Done(s, p)
  <2>1. PICK q : q = Positions(s)
    OBVIOUS
  <2>2. Len(q) = Len(s)
    BY <1>1, <2>1, PositionsType
  <2>3. \A i \in (p + 1) .. e : i \notin Semis(s)
    BY DEF Semis
  <2>4. Kept(q, Semis(s))[e] = Kept(q, Semis(s))[p]
    BY <1>1, <2>2, <2>3, KeptNone
  <2> QED
    BY <2>1, <2>4 DEF Done
<1>3. PICK Y : Y = {i \in Texts(s) : i > a}
  OBVIOUS
<1>4. \A i \in (p + 1) .. e : i \in Y
  BY <1>3 DEF Texts
<1>5. Kept(s, Y)[e] = Kept(s, Y)[p] \o SubSeq(s, p + 1, e)
  BY <1>4, KeptAll
<1> QED
  BY <1>2, <1>3, <1>5 DEF Since

LEMMA CommentSkips ==
    ASSUME NEW s, Len(s) \in Nat, NEW p \in Nat, NEW e \in p .. Len(s), NEW a,
           \A i \in (p + 1) .. e : i \notin Outside(s)
    PROVE  Done(s, e) = Done(s, p) /\ Since(s, a, e) = Since(s, a, p)
<1>1. Done(s, e) = Done(s, p)
  <2>1. PICK q : q = Positions(s)
    OBVIOUS
  <2>2. Len(q) = Len(s)
    BY <2>1, PositionsType
  <2>3. \A i \in (p + 1) .. e : i \notin Semis(s)
    BY DEF Semis
  <2>4. Kept(q, Semis(s))[e] = Kept(q, Semis(s))[p]
    BY <2>2, <2>3, KeptNone
  <2> QED
    BY <2>1, <2>4 DEF Done
<1>2. PICK Y : Y = {i \in Texts(s) : i > a}
  OBVIOUS
<1>3. \A i \in (p + 1) .. e : i \notin Y
  BY <1>2 DEF Texts
<1>4. Kept(s, Y)[e] = Kept(s, Y)[p]
  BY <1>3, KeptNone
<1> QED
  BY <1>1, <1>2, <1>4 DEF Since

LEMMA SinceNothing ==
    ASSUME NEW s, Len(s) \in Nat, NEW a \in 0 .. Len(s) PROVE Since(s, a, a) = <<>>
<1>1. PICK Y : Y = {i \in Texts(s) : i > a}
  OBVIOUS
<1>2. \A i \in (0 + 1) .. a : i \notin Y
  BY <1>1
<1>3. Kept(s, Y)[a] = Kept(s, Y)[0]
  BY <1>2, KeptNone
<1> QED
  BY <1>1, <1>3, KeptUnfold DEF Since

-----------------------------------------------------------------------------
(* The scanner and the reference after the first p bytes of s: the segment  *)
(* in progress, the records and the section, and the mode.                  *)
Parsed(s, p) ==
    /\ segStart = StartOf(Done(s, p)) /\ segChunks = Since(s, segStart, p)
    /\ SectionIs(SegmentsOf(s), Len(Done(s, p)) + 1)

ModeIs(s, p) == IF inComment THEN ModesOf(s)[p] = "comment" ELSE Ready(s, p)

(* Before the next chunk, everything is consumed but an open comment.       *)
Waiting(s, p) ==
    pc = "waiting" => IF inComment THEN Nowhere(s, "*", "/", p + 1, Fed - 1) ELSE p = Fed

RefInv ==
    ~MarkCut => /\ Fed \in ends \cup {0, Len(file)}
                /\ pc = "ended" => entities = EntitiesOf(file)
                /\ pc # "ended" => /\ Parsed(file, Pos) /\ ModeIs(file, Pos)
                                   /\ Waiting(file, Pos)

LEMMA InitRef == Init => RefInv
<1> SUFFICES ASSUME Init PROVE RefInv
  OBVIOUS
<1>1. ScanInv
  BY InitScan
<1>2. /\ file \in Seq(Bytes) /\ Len(file) \in Nat
  BY <1>1, PosIs DEF ScanInv
<1>3. /\ work = <<>> /\ workBase = 0 /\ cursor = 0 /\ segStart = 0 /\ pc = "waiting"
      /\ inComment = FALSE /\ segChunks = <<>> /\ inHeader = FALSE /\ inData = FALSE
      /\ entities = <<>>
  BY DEF Init
<1>4. Pos = 0 /\ Fed = 0
  BY <1>3 DEF Pos, Fed
<1>5. PICK s : s = file
  OBVIOUS
<1>6. Done(s, 0) = <<>> /\ Len(Done(s, 0)) = 0
  <2>1. Len(Positions(s)) \in Nat
    BY <1>2, <1>5, PositionsType
  <2> QED
    BY <2>1, KeptUnfold DEF Done
<1>7. segStart = StartOf(Done(s, 0)) /\ segChunks = Since(s, segStart, 0)
  BY <1>2, <1>3, <1>5, <1>6, SinceNothing DEF StartOf
<1>8. SectionIs(SegmentsOf(s), 0 + 1)
  <2>1. PICK g : g = SegmentsOf(s)
    OBVIOUS
  <2>2. Len(g) \in Nat
    <3>1. Len(Done(s, Len(s))) \in Nat
      BY <1>2, <1>5, LastSegment
    <3> QED
      BY <1>2, <1>5, <2>1, <3>1, SegmentsSeq
  <2>3. Kept(g, Records(g))[0] = <<>>
    BY <2>2, KeptUnfold
  <2>4. 0 + 1 = 1 /\ 1 - 1 = 0
    OBVIOUS
  <2> QED
    BY <1>3, <2>1, <2>3, <2>4, NoSection DEF SectionIs
<1>9. Parsed(s, 0)
  BY <1>6, <1>7, <1>8 DEF Parsed
<1>10. Ready(s, 0)
  <2>1. ModesOf(s)[0] = "text"
    BY <1>2, <1>5, ModesUnfold
  <2> QED
    BY <2>1 DEF Ready
<1> QED
  BY <1>3, <1>4, <1>5, <1>9, <1>10 DEF RefInv, ModeIs, Waiting

(* The scanner moves, and stays with the reference.                         *)
LEMMA Moves ==
    ASSUME ~MarkCut => Fed \in ends \cup {0, Len(file)}, UNCHANGED <<file, ends, work, workBase>>,
           pc' # "ended",
           ~MarkCut => Parsed(file, Pos)' /\ ModeIs(file, Pos)' /\ Waiting(file, Pos)'
    PROVE  RefInv'
<1>1. Fed' = Fed /\ MarkCut' = MarkCut
  BY DEF Fed, MarkCut
<1> QED
  BY <1>1 DEF RefInv

LEMMA CloseRef == ASSUME ScanInv, RefInv, CloseComment PROVE RefInv'
<1> SUFFICES ASSUME ~MarkCut PROVE RefInv'
  BY DEF RefInv, CloseComment, MarkCut
<1>1. PICK end : end = IndexOf(work, CLOSE, cursor)
  OBVIOUS
<1>2. /\ UNCHANGED <<file, ends, work, workBase, segStart, segChunks, inHeader, inData, entities>>
      /\ pc = "scanning" /\ inComment
  BY DEF CloseComment, section
<1>3. PICK s : s = file
  OBVIOUS
<1>4. PICK p : p = Pos
  OBVIOUS
<1>5. /\ Fed \in ends \cup {0, Len(file)} /\ Parsed(s, p) /\ ModesOf(s)[p] = "comment"
  BY <1>2, <1>3, <1>4 DEF RefInv, ModeIs
<1>6. WindowInv
  BY DEF ScanInv
<1>7. "*" \in Bytes /\ "/" \in Bytes /\ CLOSE = <<"*", "/">>
  BY DEF Bytes, CLOSE
<1>8. CASE end = -1
  <2>1. cursor' = cursor /\ inComment' = inComment /\ pc' = "waiting"
    BY <1>1, <1>8 DEF CloseComment
  <2>2. Pos' = p /\ file' = s /\ Fed' = Fed
    BY <1>2, <1>3, <1>4, <2>1 DEF Pos, Fed
  <2>3. Nowhere(s, "*", "/", p + 1, Fed - 1)
    BY <1>1, <1>3, <1>4, <1>6, <1>7, <1>8, MarkFound
  <2>4. Parsed(s, p)'
    BY <1>2, <1>5 DEF Parsed, SectionIs
  <2>5. ModeIs(s, p)' /\ Waiting(s, p)'
    BY <1>2, <1>5, <2>1, <2>2, <2>3 DEF ModeIs, Waiting
  <2> QED
    BY <1>2, <1>5, <2>1, <2>2, <2>4, <2>5, Moves
<1>9. CASE end # -1
  <2>1. cursor' = end + 2 /\ inComment' = FALSE /\ pc' = "scanning"
    BY <1>1, <1>2, <1>9 DEF CloseComment
  <2>2. /\ end \in Nat /\ cursor <= end /\ end + 2 <= Len(work)
        /\ s[workBase + end + 1] = "*" /\ s[workBase + end + 2] = "/"
        /\ Nowhere(s, "*", "/", p + 1, workBase + end)
    BY <1>1, <1>3, <1>4, <1>6, <1>7, <1>9, MarkFound
  <2>3. PICK e : e = workBase + end
    OBVIOUS
  <2>4. /\ e \in p .. (Len(s) - 2) /\ p \in Nat /\ Len(s) \in Nat /\ e + 2 \in p .. Len(s)
        /\ Pos' = e + 2 /\ file' = s
    <3>1. /\ workBase \in Nat /\ cursor \in Nat /\ Len(work) \in Nat /\ p = workBase + cursor
          /\ Len(s) \in Nat /\ workBase + Len(work) <= Len(s) /\ file' = s
      BY <1>2, <1>3, <1>4, <1>6, PosIs
    <3>2. Pos' = workBase + (end + 2)
      BY <1>2, <2>1 DEF Pos
    <3> QED
      BY <2>2, <2>3, <3>1, <3>2
  <2>5. Ready(s, e + 2) /\ \A i \in (p + 1) .. (e + 2) : i \notin Outside(s)
    BY <1>5, <2>2, <2>3, <2>4, MarkCloses
  <2>6. Done(s, e + 2) = Done(s, p) /\ Since(s, segStart, e + 2) = Since(s, segStart, p)
    BY <2>4, <2>5, CommentSkips
  <2>7. Parsed(s, e + 2)'
    BY <1>2, <1>5, <2>6 DEF Parsed, SectionIs
  <2>8. ModeIs(s, e + 2)' /\ Waiting(s, e + 2)'
    BY <2>1, <2>5 DEF ModeIs, Waiting
  <2> QED
    BY <1>2, <1>5, <2>1, <2>4, <2>7, <2>8, Moves
<1> QED
  BY <1>8, <1>9

(* The bytes the searches have passed are text.                             *)
LEMMA TextAhead ==
    ASSUME ScanInv, pc = "scanning", ~inComment, NEW c, c = NextComment, NEW semi, semi = NextSemi
    PROVE  /\ c = -1 => Nowhere(file, "/", "*", Pos + 1, Fed - 1)
           /\ c # -1 => /\ c \in Nat /\ cursor <= c /\ c + 2 <= Len(work)
                        /\ file[workBase + c + 1] = "/" /\ file[workBase + c + 2] = "*"
                        /\ Nowhere(file, "/", "*", Pos + 1, workBase + c)
           /\ semi = -1 => \A i \in (Pos + 1) .. Fed : file[i] # SEMI
           /\ semi # -1 => /\ semi \in Nat /\ cursor <= semi /\ semi + 1 <= Len(work)
                           /\ file[workBase + semi + 1] = SEMI
                           /\ \A i \in (Pos + 1) .. (workBase + semi) : file[i] # SEMI
<1>1. WindowInv
  BY DEF ScanInv
<1>2. c = IndexOf(work, <<"/", "*">>, cursor)
  BY NextCommentIs DEF OPEN
<1>3. semi = IndexOf(work, <<SEMI>>, cursor)
  BY DEF NextSemi
<1>4. "*" \in Bytes /\ "/" \in Bytes
  BY DEF Bytes
<1>5. /\ c = -1 => Nowhere(file, "/", "*", Pos + 1, Fed - 1)
      /\ c # -1 => /\ c \in Nat /\ cursor <= c /\ c + 2 <= Len(work)
                   /\ file[workBase + c + 1] = "/" /\ file[workBase + c + 2] = "*"
                   /\ Nowhere(file, "/", "*", Pos + 1, workBase + c)
  BY <1>1, <1>2, <1>4, MarkFound
<1>6. /\ semi = -1 => \A i \in (Pos + 1) .. Fed : file[i] # SEMI
      /\ semi # -1 => /\ semi \in Nat /\ cursor <= semi /\ semi + 1 <= Len(work)
                      /\ file[workBase + semi + 1] = SEMI
                      /\ \A i \in (Pos + 1) .. (workBase + semi) : file[i] # SEMI
  BY <1>1, <1>3, SemiFound
<1> QED
  BY <1>5, <1>6

LEMMA OpenRef == ASSUME ScanInv, RefInv, OpenComment PROVE RefInv'
<1> SUFFICES ASSUME ~MarkCut PROVE RefInv'
  BY DEF RefInv, OpenComment, MarkCut
<1>1. PICK c : c = NextComment
  OBVIOUS
<1>2. PICK semi : semi = NextSemi
  OBVIOUS
<1>3. /\ UNCHANGED <<file, ends, work, workBase, segStart, inHeader, inData, entities, pc>>
      /\ pc = "scanning" /\ ~inComment /\ inComment' = TRUE /\ cursor' = c + 2
      /\ c # -1 /\ (semi = -1 \/ c < semi)
      /\ segChunks' = segChunks \o subarray(work, cursor, c)
  BY <1>1, <1>2 DEF OpenComment, section, CommentFirst
<1>4. PICK s : s = file
  OBVIOUS
<1>5. PICK p : p = Pos
  OBVIOUS
<1>6. PICK e : e = workBase + c
  OBVIOUS
<1>7. /\ Fed \in ends \cup {0, Len(file)} /\ Parsed(s, p) /\ Ready(s, p)
  BY <1>3, <1>4, <1>5 DEF RefInv, ModeIs
<1>8. /\ WindowInv /\ s \in Seq(Bytes) /\ workBase \in Nat /\ cursor \in Nat
      /\ Len(work) \in Nat /\ p = workBase + cursor /\ Len(s) \in Nat
      /\ workBase + Len(work) = Fed /\ Fed <= Len(s) /\ segStart \in 0 .. p
  BY <1>4, <1>5, PosIs DEF ScanInv
<1>9. /\ c \in Nat /\ cursor <= c /\ c + 2 <= Len(work)
      /\ s[workBase + c + 1] = "/" /\ s[workBase + c + 2] = "*"
      /\ Nowhere(s, "/", "*", p + 1, workBase + c)
  BY <1>1, <1>3, <1>4, <1>5, TextAhead
<1>10. /\ e \in p .. (Len(s) - 2) /\ p \in Nat /\ e \in p .. Len(s) /\ e \in Nat
       /\ e + 2 \in e .. Len(s) /\ c \in cursor .. Len(work)
  BY <1>6, <1>8, <1>9
<1>11. \A i \in (p + 1) .. e : s[i] # SEMI
  <2>1. CASE semi = -1
    <3>1. \A i \in (p + 1) .. Fed : s[i] # SEMI
      BY <1>2, <1>3, <1>4, <1>5, <2>1, TextAhead
    <3>2. \A i \in (p + 1) .. e : i \in (p + 1) .. Fed
      BY <1>6, <1>8, <1>9
    <3> QED
      BY <3>1, <3>2
  <2>2. CASE semi # -1
    <3>1. semi \in Nat /\ \A i \in (p + 1) .. (workBase + semi) : s[i] # SEMI
      BY <1>2, <1>3, <1>4, <1>5, <2>2, TextAhead
    <3>2. \A i \in (p + 1) .. e : i \in (p + 1) .. (workBase + semi)
      BY <1>3, <1>6, <1>8, <1>9, <2>2, <3>1
    <3> QED
      BY <3>1, <3>2
  <2> QED
    BY <2>1, <2>2
<1>12. /\ ModesOf(s)[e + 2] = "comment"
       /\ \A i \in (p + 1) .. e : i \in Outside(s)
       /\ \A i \in (e + 1) .. (e + 2) : i \notin Outside(s)
  BY <1>6, <1>7, <1>8, <1>9, <1>10, MarkOpens
<1>13. /\ Done(s, e) = Done(s, p)
       /\ Since(s, segStart, e) = Since(s, segStart, p) \o SubSeq(s, p + 1, e)
  <2>1. PICK a : a = segStart
    OBVIOUS
  <2>2. s \in Seq(Bytes) /\ p \in Nat /\ e \in p .. Len(s) /\ a \in 0 .. p
    BY <1>8, <1>10, <2>1
  <2>3. \A i \in (p + 1) .. e : i \in Outside(s) /\ s[i] # SEMI
    BY <1>11, <1>12
  <2>4. Done(s, e) = Done(s, p) /\ Since(s, a, e) = Since(s, a, p) \o SubSeq(s, p + 1, e)
    BY <2>2, <2>3, TextGrows
  <2> QED
    BY <2>1, <2>4
<1>14. Done(s, e + 2) = Done(s, e) /\ Since(s, segStart, e + 2) = Since(s, segStart, e)
  BY <1>8, <1>10, <1>12, CommentSkips
<1>15. subarray(work, cursor, c) = SubSeq(s, p + 1, e)
  BY <1>4, <1>5, <1>6, <1>8, <1>10, WindowPart
<1>16. Parsed(s, e + 2)'
  BY <1>3, <1>7, <1>13, <1>14, <1>15 DEF Parsed, SectionIs
<1>17. ModeIs(s, e + 2)' /\ Waiting(s, e + 2)'
  BY <1>3, <1>12 DEF ModeIs, Waiting
<1>18. Pos' = e + 2 /\ file' = s
  <2>1. Pos' = workBase + (c + 2)
    BY <1>3 DEF Pos
  <2> QED
    BY <1>3, <1>4, <1>6, <1>8, <1>9, <2>1
<1> QED
  BY <1>3, <1>7, <1>16, <1>17, <1>18, Moves

(* The text up to e, in front of which nothing was found.                   *)
LEMMA TextTaken ==
    ASSUME ScanInv, NEW s, s = file, NEW p, p = Pos, Parsed(s, p),
           NEW to \in cursor .. Len(work), NEW e, e = workBase + to,
           \A i \in (p + 1) .. e : i \in Outside(s) /\ s[i] # SEMI
    PROVE  /\ e \in p .. Len(s) /\ p \in Nat
           /\ Done(s, e) = Done(s, p)
           /\ segChunks \o subarray(work, cursor, to) = Since(s, segStart, e)
<1>1. /\ WindowInv /\ s \in Seq(Bytes) /\ workBase \in Nat /\ cursor \in Nat
      /\ Len(work) \in Nat /\ p = workBase + cursor /\ Len(s) \in Nat
      /\ workBase + Len(work) <= Len(s) /\ segStart \in 0 .. p
  BY PosIs DEF ScanInv
<1>2. e \in p .. Len(s) /\ p \in Nat
  BY <1>1
<1>3. PICK a : a = segStart
  OBVIOUS
<1>4. a \in 0 .. p
  BY <1>1, <1>3
<1>5. Done(s, e) = Done(s, p) /\ Since(s, a, e) = Since(s, a, p) \o SubSeq(s, p + 1, e)
  BY <1>1, <1>2, <1>4, TextGrows
<1>6. subarray(work, cursor, to) = SubSeq(s, p + 1, e)
  BY <1>1, WindowPart
<1>7. segChunks = Since(s, a, p)
  BY <1>3 DEF Parsed
<1> QED
  BY <1>2, <1>3, <1>5, <1>6, <1>7

(* A number of segments is an index of the segments.                        *)
LEMMA SegmentsIs ==
    ASSUME NEW s, Len(s) \in Nat, NEW g, g = SegmentsOf(s)
    PROVE  Len(g) \in Nat /\ DOMAIN g = 1 .. Len(g) /\ Len(g) = Len(Done(s, Len(s))) + 1
<1>1. PICK d : d = Done(s, Len(s))
  OBVIOUS
<1>2. DOMAIN g = 1 .. (Len(d) + 1) /\ Len(d) \in Nat
  BY <1>1, LastSegment
<1>3. Len(g) = Len(d) + 1
  BY <1>1, SegmentsSeq
<1> QED
  BY <1>1, <1>2, <1>3

LEMMA EmitRef == ASSUME ScanInv, RefInv, emitSegment PROVE RefInv'
<1> SUFFICES ASSUME ~MarkCut PROVE RefInv'
  BY DEF RefInv, emitSegment, MarkCut
<1>1. PICK c : c = NextComment
  OBVIOUS
<1>2. PICK semi : semi = NextSemi
  OBVIOUS
<1>3. PICK t : t = segChunks \o subarray(work, cursor, semi)
  OBVIOUS
<1>4. /\ UNCHANGED <<file, ends, work, workBase, inComment, pc>>
      /\ pc = "scanning" /\ ~inComment /\ cursor' = semi + 1
      /\ semi # -1 /\ (c = -1 \/ ~(c < semi))
      /\ segStart' = workBase + semi + 1 /\ segChunks' = <<>>
      /\ handleSegment(t, segStart, workBase + semi - segStart + 1)
  BY <1>1, <1>2, <1>3 DEF emitSegment, CommentFirst
<1>5. PICK s : s = file
  OBVIOUS
<1>6. PICK p : p = Pos
  OBVIOUS
<1>7. PICK e : e = workBase + semi
  OBVIOUS
<1>8. /\ Fed \in ends \cup {0, Len(file)} /\ Parsed(s, p) /\ Ready(s, p)
  BY <1>4, <1>5, <1>6 DEF RefInv, ModeIs
<1>9. /\ s \in Seq(Bytes) /\ workBase \in Nat /\ cursor \in Nat
      /\ Len(work) \in Nat /\ p = workBase + cursor /\ Len(s) \in Nat /\ Fed \in Nat
      /\ workBase + Len(work) = Fed /\ Fed <= Len(s) /\ segStart \in 0 .. p
  BY <1>5, <1>6, PosIs DEF ScanInv
<1>10. /\ semi \in Nat /\ cursor <= semi /\ semi + 1 <= Len(work)
       /\ s[workBase + semi + 1] = SEMI
       /\ \A i \in (p + 1) .. (workBase + semi) : s[i] # SEMI
  BY <1>2, <1>4, <1>5, <1>6, TextAhead
<1>11. /\ e \in p .. (Len(s) - 1) /\ p \in Nat /\ e \in Nat /\ e \in 0 .. (Len(s) - 1)
       /\ semi \in cursor .. Len(work) /\ s[e + 1] = SEMI /\ e <= Fed - 1
       /\ e + 1 \in 0 .. Len(s) /\ e + 1 \in (p + 1) .. (e + 1)
  BY <1>7, <1>9, <1>10
<1>12. Nowhere(s, "/", "*", p + 1, e)
  <2>1. CASE c = -1
    <3>1. Nowhere(s, "/", "*", p + 1, Fed - 1)
      BY <1>1, <1>4, <1>5, <1>6, <2>1, TextAhead
    <3>2. \A i \in (p + 1) .. e : i \in (p + 1) .. (Fed - 1)
      BY <1>9, <1>11
    <3> QED
      BY <3>1, <3>2 DEF Nowhere
  <2>2. CASE c # -1
    <3>1. c \in Nat /\ Nowhere(s, "/", "*", p + 1, workBase + c)
      BY <1>1, <1>4, <1>5, <1>6, <2>2, TextAhead
    <3>2. \A i \in (p + 1) .. e : i \in (p + 1) .. (workBase + c)
      BY <1>4, <1>7, <1>9, <1>10, <1>11, <2>2, <3>1
    <3> QED
      BY <3>1, <3>2 DEF Nowhere
  <2> QED
    BY <2>1, <2>2
<1>13. Ready(s, e + 1) /\ \A i \in (p + 1) .. (e + 1) : i \in Outside(s)
  BY <1>8, <1>9, <1>11, <1>12, SemiEnds
<1>14. e + 1 \in Semis(s)
  BY <1>11, <1>13 DEF Semis
<1>15. \A i \in (p + 1) .. e : i \in Outside(s) /\ s[i] # SEMI
  <2>1. \A i \in (p + 1) .. e : i \in (p + 1) .. (e + 1)
    BY <1>11
  <2> QED
    BY <1>7, <1>10, <1>13, <2>1
<1>16. PICK d : d = Done(s, e)
  OBVIOUS
<1>17. d = Done(s, p) /\ t = Since(s, segStart, e)
  BY <1>3, <1>5, <1>6, <1>7, <1>8, <1>11, <1>15, <1>16, TextTaken
<1>18. PICK a : a = segStart
  OBVIOUS
<1>19. a = StartOf(d) /\ SectionIs(SegmentsOf(s), Len(d) + 1)
  BY <1>8, <1>17, <1>18 DEF Parsed
<1>20. PICK g : g = SegmentsOf(s)
  OBVIOUS
<1>21. /\ Len(Done(s, e + 1)) = Len(d) + 1 /\ StartOf(Done(s, e + 1)) = e + 1
       /\ Len(d) + 1 \in DOMAIN g
       /\ g[Len(d) + 1] = SegmentIn(s, StartOf(d), e + 1)
       /\ Since(s, StartOf(d), e + 1) = Since(s, StartOf(d), e)
  <2>1. Len(s) \in Nat /\ e \in 0 .. (Len(s) - 1)
    BY <1>9, <1>11
  <2> QED
    BY <1>14, <1>16, <1>20, <2>1, SegmentEnds
<1>22. PICK k : k = Len(d) + 1
  OBVIOUS
<1>23. PICK l : l = (e + 1) - a
  OBVIOUS
<1>24. /\ g[k] = [text |-> t, offset |-> a, length |-> l]
       /\ handleSegment(t, a, l)
  <2>1. workBase + semi - segStart + 1 = l
    BY <1>7, <1>9, <1>10, <1>18, <1>23
  <2>2. g[k] = SegmentIn(s, a, e + 1) /\ Since(s, a, e + 1) = t
    BY <1>17, <1>18, <1>19, <1>21, <1>22
  <2>3. g[k] = [text |-> t, offset |-> a, length |-> l]
    BY <1>23, <2>2 DEF SegmentIn
  <2>4. handleSegment(t, a, l)
    BY <1>4, <1>18, <2>1
  <2> QED
    BY <2>3, <2>4
<1>25. Len(g) \in Nat /\ DOMAIN g = 1 .. Len(g) /\ k \in 1 .. Len(g)
  BY <1>9, <1>20, <1>21, <1>22, SegmentsIs
<1>26. /\ entities' = Kept(g, Records(g))[k]
       /\ inHeader' <=> InSection(g, k + 1, "H")
       /\ (~inHeader' /\ inData') <=> InSection(g, k + 1, "D")
  BY <1>19, <1>20, <1>22, <1>24, <1>25, HandleIs
<1>27. SectionIs(g, k + 1)'
  <2>1. (k + 1) - 1 = k
    BY <1>25
  <2> QED
    BY <1>26, <2>1 DEF SectionIs
<1>28. segStart' = e + 1 /\ segChunks' = Since(s, e + 1, e + 1)
  <2>1. workBase + semi + 1 = e + 1
    BY <1>7
  <2>2. Since(s, e + 1, e + 1) = <<>>
    BY <1>9, <1>11, SinceNothing
  <2> QED
    BY <1>4, <2>1, <2>2
<1>29. Parsed(s, e + 1)'
  BY <1>20, <1>21, <1>22, <1>27, <1>28 DEF Parsed
<1>30. ModeIs(s, e + 1)' /\ Waiting(s, e + 1)'
  BY <1>4, <1>13 DEF ModeIs, Waiting
<1>31. Pos' = e + 1 /\ file' = s
  <2>1. Pos' = workBase + (semi + 1)
    BY <1>4 DEF Pos
  <2> QED
    BY <1>4, <1>5, <1>7, <1>9, <1>10, <2>1
<1> QED
  BY <1>4, <1>8, <1>29, <1>30, <1>31, Moves

(* A chunk that does not end inside a comment's first mark ends where the   *)
(* next text may begin.                                                     *)
LEMMA ChunkReady ==
    ASSUME NEW s, s = file, Len(s) \in Nat, ends \subseteq 1 .. (Len(s) - 1), ~MarkCut,
           NEW e \in ends \cup {0, Len(s)}, ModesOf(s)[e] \in {"text", "slash"}
    PROVE  Ready(s, e)
<1> SUFFICES ASSUME e < Len(s), ModesOf(s)[e] = "slash", s[e + 1] = "*" PROVE FALSE
  BY DEF Ready
<1>1. e # 0
  BY ModesUnfold
<1>2. e \in ends
  BY <1>1
<1>3. e \in 0 .. (Len(s) - 1)
  BY <1>2
<1>4. ModesOf(s)[e + 1] = After(ModesOf(s)[e], s[e + 1])
  BY <1>3, ModeStep
<1>5. ModesOf(s)[e + 1] = "comment"
  BY <1>4 DEF After
<1> QED
  BY <1>2, <1>5 DEF MarkCut

LEMMA LeftoverRef == ASSUME ScanInv, RefInv, Leftover PROVE RefInv'
<1> SUFFICES ASSUME ~MarkCut PROVE RefInv'
  BY DEF RefInv, Leftover, MarkCut
<1>1. /\ UNCHANGED <<file, ends, work, workBase, segStart, inComment, inHeader, inData, entities>>
      /\ pc = "scanning" /\ ~inComment /\ cursor' = Len(work) /\ pc' = "waiting"
      /\ NextSemi = -1 /\ NextComment = -1
      /\ segChunks' = segChunks \o subarray(work, cursor, Len(work))
  BY DEF Leftover, section, CommentFirst
<1>2. PICK s : s = file
  OBVIOUS
<1>3. PICK p : p = Pos
  OBVIOUS
<1>4. PICK e : e = Fed
  OBVIOUS
<1>5. /\ e \in ends \cup {0, Len(s)} /\ Parsed(s, p) /\ Ready(s, p)
  BY <1>1, <1>2, <1>3, <1>4 DEF RefInv, ModeIs
<1>6. /\ s \in Seq(Bytes) /\ workBase \in Nat /\ cursor \in Nat /\ cursor <= Len(work)
      /\ Len(work) \in Nat /\ p = workBase + cursor /\ Len(s) \in Nat
      /\ workBase + Len(work) = e /\ e \in p .. Len(s) /\ p \in Nat
  BY <1>2, <1>3, <1>4, PosIs DEF ScanInv
<1>7. /\ Nowhere(s, "/", "*", p + 1, e - 1) /\ \A i \in (p + 1) .. e : s[i] # SEMI
  BY <1>1, <1>2, <1>3, <1>4, TextAhead
<1>8. \A i \in p .. e : /\ ModesOf(s)[i] \in {"text", "slash"}
                        /\ i > p => (ModesOf(s)[i] = "slash" <=> s[i] = "/")
  BY <1>5, <1>6, <1>7, TextStretch
<1>9. Ready(s, e)
  <2>1. ModesOf(s)[e] \in {"text", "slash"}
    BY <1>6, <1>8
  <2>2. ends \subseteq 1 .. (Len(s) - 1)
    BY <1>2 DEF ScanInv, WindowInv
  <2> QED
    BY <1>2, <1>5, <1>6, <2>1, <2>2, ChunkReady
<1>10. \A i \in (p + 1) .. e : i \in Outside(s)
  <2>1. CASE e = p
    BY <1>6, <2>1
  <2>2. CASE e # p
    <3>1. e > p /\ e \in p .. e
      BY <1>6, <2>2
    <3>2. ~(e < Len(s) /\ s[e] = "/" /\ s[e + 1] = "*")
      BY <1>8, <1>9, <3>1 DEF Ready
    <3> QED
      BY <1>5, <1>6, <1>7, <3>2, TextOutside
  <2> QED
    BY <2>1, <2>2
<1>11. PICK to : to = Len(work)
  OBVIOUS
<1>12. to \in cursor .. Len(work) /\ e = workBase + to
  BY <1>6, <1>11
<1>13. \A i \in (p + 1) .. e : i \in Outside(s) /\ s[i] # SEMI
  BY <1>7, <1>10
<1>14. /\ Done(s, e) = Done(s, p)
       /\ segChunks \o subarray(work, cursor, to) = Since(s, segStart, e)
  BY <1>2, <1>3, <1>5, <1>12, <1>13, TextTaken
<1>15. Parsed(s, e)'
  BY <1>1, <1>5, <1>11, <1>14 DEF Parsed, SectionIs
<1>16. Pos' = e /\ file' = s /\ Fed' = e
  BY <1>1, <1>2, <1>4, <1>6 DEF Pos, Fed
<1>17. ModeIs(s, e)' /\ Waiting(s, e)'
  BY <1>1, <1>9, <1>16 DEF ModeIs, Waiting
<1> QED
  BY <1>1, <1>2, <1>4, <1>5, <1>15, <1>16, <1>17, Moves

LEMMA DataRef == ASSUME ScanInv, RefInv, onData PROVE RefInv'
<1> SUFFICES ASSUME ~MarkCut PROVE RefInv'
  BY DEF RefInv, onData, MarkCut
<1>1. /\ UNCHANGED <<file, ends, segStart, segChunks, inComment, inHeader, inData, entities>>
      /\ workBase' = workBase + cursor /\ cursor' = 0
      /\ pc = "waiting" /\ pc' = "scanning" /\ Fed < Len(file)
  BY DEF onData, section
<1>2. PICK s : s = file
  OBVIOUS
<1>3. PICK p : p = Pos
  OBVIOUS
<1>4. Parsed(s, p) /\ ModeIs(s, p)
  BY <1>1, <1>2, <1>3 DEF RefInv
<1>5. Fed' \in ends \cup {0, Len(file)}
  <2>1. Fed' = ChunkEnd(Fed)
    BY DataScan
  <2>2. ChunkEnd(Fed) \in ends \cup {Len(file)}
    BY <1>1, ChunkEndIs DEF ScanInv
  <2> QED
    BY <2>1, <2>2
<1>6. Pos' = p /\ file' = s
  <2>1. workBase + cursor \in Nat /\ p = workBase + cursor
    BY <1>3, PosIs DEF ScanInv
  <2>2. Pos' = (workBase + cursor) + 0
    BY <1>1 DEF Pos
  <2> QED
    BY <1>1, <1>2, <2>1, <2>2
<1>7. Parsed(s, p)'
  BY <1>1, <1>4 DEF Parsed, SectionIs
<1>8. ModeIs(s, p)' /\ Waiting(s, p)'
  BY <1>1, <1>4 DEF ModeIs, Waiting
<1> QED
  BY <1>1, <1>5, <1>6, <1>7, <1>8 DEF RefInv

(* The last segment, and a comment that is never closed.                    *)
LEMMA EndRef == ASSUME ScanInv, RefInv, onEnd PROVE RefInv'
<1> SUFFICES ASSUME ~MarkCut PROVE RefInv'
  BY DEF RefInv, onEnd, MarkCut
<1>1. /\ UNCHANGED <<file, ends, work, workBase>>
      /\ pc = "waiting" /\ pc' = "ended" /\ Fed = Len(file)
      /\ handleSegment(segChunks, segStart, Fed - segStart)
  BY DEF onEnd
<1>2. PICK s : s = file
  OBVIOUS
<1>3. PICK p : p = Pos
  OBVIOUS
<1>4. PICK e : e = Len(s)
  OBVIOUS
<1>5. /\ Parsed(s, p) /\ ModeIs(s, p) /\ Waiting(s, p) /\ Fed = e
  BY <1>1, <1>2, <1>3, <1>4 DEF RefInv
<1>6. e \in Nat /\ p \in Nat /\ e \in p .. Len(s) /\ p \in 0 .. Len(s) /\ Len(s) \in Nat
  BY <1>2, <1>3, <1>4, PosIs DEF ScanInv
<1>7. PICK a : a = segStart
  OBVIOUS
<1>8. PICK d : d = Done(s, e)
  OBVIOUS
<1>9. d = Done(s, p) /\ Since(s, a, e) = Since(s, a, p)
  <2>1. CASE inComment
    <3>1. ModesOf(s)[p] = "comment" /\ Nowhere(s, "*", "/", p + 1, e - 1)
      BY <1>1, <1>5, <2>1 DEF ModeIs, Waiting
    <3>2. \A i \in (p + 1) .. e : i \notin Outside(s)
      BY <1>6, <3>1, CommentInside
    <3> QED
      BY <1>6, <1>8, <3>2, CommentSkips
  <2>2. CASE ~inComment
    <3>1. p = e
      BY <1>1, <1>5, <2>2 DEF Waiting
    <3> QED
      BY <1>8, <3>1
  <2> QED
    BY <2>1, <2>2
<1>10. PICK t : t = segChunks
  OBVIOUS
<1>11. a = StartOf(d) /\ t = Since(s, a, e) /\ SectionIs(SegmentsOf(s), Len(d) + 1)
  BY <1>5, <1>7, <1>9, <1>10 DEF Parsed
<1>12. PICK g : g = SegmentsOf(s)
  OBVIOUS
<1>13. PICK k : k = Len(d) + 1
  OBVIOUS
<1>14. PICK l : l = e - a
  OBVIOUS
<1>15. g[k] = [text |-> t, offset |-> a, length |-> l] /\ Len(d) \in Nat
  <2>1. g[k] = SegmentIn(s, a, e) /\ Len(d) \in Nat
    BY <1>4, <1>6, <1>8, <1>11, <1>12, <1>13, LastSegment
  <2> QED
    BY <1>11, <1>14, <2>1 DEF SegmentIn
<1>16. Len(g) \in Nat /\ DOMAIN g = 1 .. Len(g) /\ Len(g) = k /\ k \in 1 .. Len(g)
  <2>1. Len(g) \in Nat /\ DOMAIN g = 1 .. Len(g) /\ Len(g) = Len(d) + 1
    BY <1>4, <1>6, <1>8, <1>12, SegmentsIs
  <2> QED
    BY <1>13, <1>15, <2>1
<1>17. handleSegment(t, a, l)
  BY <1>1, <1>5, <1>7, <1>10, <1>14
<1>18. entities' = Kept(g, Records(g))[k]
  BY <1>11, <1>12, <1>13, <1>15, <1>16, <1>17, HandleIs
<1>19. EntitiesOf(s) = Kept(g, Records(g))[k]
  BY <1>12, <1>16 DEF EntitiesOf, At, Records
<1>20. Fed' = Fed /\ file' = s
  BY <1>1, <1>2 DEF Fed
<1>21. Fed' \in (ends \cup {0, Len(file)})'
  BY <1>1, <1>20
<1>22. entities' = EntitiesOf(file)'
  BY <1>18, <1>19, <1>20
<1> QED
  BY <1>1, <1>21, <1>22 DEF RefInv

LEMMA NextRef == ScanInv /\ RefInv /\ [Next]_vars => RefInv'
<1> SUFFICES ASSUME ScanInv, RefInv, [Next]_vars PROVE RefInv'
  OBVIOUS
<1>1. CASE UNCHANGED vars
  BY <1>1 DEF vars, window, section, RefInv, Parsed, SectionIs, ModeIs, Waiting, Pos, Fed, MarkCut
<1> QED
  BY <1>1, DataRef, CloseRef, OpenRef, EmitRef, LeftoverRef, EndRef DEF Next

(* For every file and every cut into chunks that leaves the first marks of  *)
(* comments whole, onEntity is called with the records, and their ranges,   *)
(* that a scan of the whole file, byte after byte, finds.                   *)
THEOREM ChunksAreInvisible == Spec => []ChunksInvisible
<1>1. ScanInv /\ RefInv => ChunksInvisible
  BY DEF RefInv, ChunksInvisible
<1> QED
  BY <1>1, InitScan, NextScan, InitRef, NextRef, PTL DEF Spec

-----------------------------------------------------------------------------
(* Reading a segment again.  No ';' outside comments lies inside one.       *)
LEMMA SemiBehind ==
    ASSUME NEW s, Len(s) \in Nat, NEW q, q = SemisOf(s), NEW k \in 1 .. (Len(q) + 1),
           NEW i \in Semis(s), StartAt(q, k) < i
    PROVE  k <= Len(q) /\ EndAt(s, q, k) <= i
<1>1. Lists(q, Semis(s), Len(s))
  BY SemisAre
<1>2. Len(q) \in Nat /\ k \in Nat
  BY <1>1, LenProperties DEF Lists
<1>3. i \in 1 .. Len(s)
  BY OutsideIs DEF Semis
<1>4. PICK m \in 1 .. Len(q) : q[m] = i
  BY <1>1, <1>3 DEF Lists
<1>5. \A l \in 1 .. Len(q) : q[l] \in Nat
  <2>1. \A l \in 1 .. Len(q) : q[l] \in 1 .. Len(s)
    BY <1>1 DEF Lists
  <2> QED
    BY <2>1
<1>6. k <= m
  <2> SUFFICES ASSUME ~(k <= m) PROVE FALSE
    OBVIOUS
  <2>1. k # 1 /\ k - 1 \in 1 .. Len(q) /\ (m = k - 1 \/ m < k - 1)
    BY <1>2
  <2>2. q[k - 1] < i
    BY <2>1 DEF StartAt
  <2>3. CASE m = k - 1
    BY <1>4, <1>5, <2>2, <2>3
  <2>4. CASE m < k - 1
    <3>1. q[m] < q[k - 1]
      BY <1>1, <2>1, <2>4 DEF Lists
    <3> QED
      BY <1>4, <1>5, <2>1, <2>2, <3>1
  <2> QED
    BY <2>1, <2>3, <2>4
<1>7. k <= Len(q) /\ k \in 1 .. Len(q) /\ ~(k > Len(q))
  BY <1>2, <1>6
<1>8. EndAt(s, q, k) = q[k]
  BY <1>7 DEF EndAt
<1>9. q[k] <= i
  <2>1. CASE k = m
    BY <1>4, <1>5, <1>7, <2>1
  <2>2. CASE k # m
    <3>1. k < m
      BY <1>2, <1>6, <2>2
    <3>2. q[k] < q[m]
      BY <1>1, <1>7, <3>1 DEF Lists
    <3> QED
      BY <1>4, <1>5, <1>7, <3>2
  <2> QED
    BY <2>1, <2>2
<1> QED
  BY <1>7, <1>8, <1>9

(* A segment begins outside comments, and ends at a ';' or with the file.   *)
LEMMA SegmentStarts ==
    ASSUME NEW s, Len(s) \in Nat, NEW q, q = SemisOf(s), NEW k \in 1 .. (Len(q) + 1)
    PROVE  /\ ModesOf(s)[StartAt(q, k)] = "text"
           /\ k <= Len(q) => EndAt(s, q, k) \in Semis(s) /\ StartAt(q, k) < EndAt(s, q, k)
           /\ ~(k <= Len(q)) => EndAt(s, q, k) = Len(s)
<1>1. Lists(q, Semis(s), Len(s))
  BY SemisAre
<1>2. Len(q) \in Nat /\ k \in Nat
  BY <1>1, LenProperties DEF Lists
<1>3. ModesOf(s)[StartAt(q, k)] = "text"
  <2>1. CASE k = 1
    BY <2>1, ModesUnfold DEF StartAt
  <2>2. CASE k # 1
    <3>1. PICK a : a = q[k - 1]
      OBVIOUS
    <3>2. k - 1 \in 1 .. Len(q)
      BY <1>2, <2>2
    <3>3. a \in Semis(s) /\ a \in 1 .. Len(s)
      BY <1>1, <3>1, <3>2 DEF Lists
    <3>4. s[a] = SEMI /\ ModesOf(s)[a - 1] \in {"text", "slash"}
      BY <3>3, OutsideIs DEF Semis
    <3>5. ModesOf(s)[a] = After(ModesOf(s)[a - 1], s[a])
      BY <3>3, ModesUnfold
    <3>6. ModesOf(s)[a] = "text"
      BY <3>4, <3>5, SemiIs DEF After
    <3> QED
      BY <2>2, <3>1, <3>6 DEF StartAt
  <2> QED
    BY <2>1, <2>2
<1>4. ASSUME k <= Len(q)
      PROVE  EndAt(s, q, k) \in Semis(s) /\ StartAt(q, k) < EndAt(s, q, k)
  <2>1. k \in 1 .. Len(q) /\ ~(k > Len(q))
    BY <1>2, <1>4
  <2>2. EndAt(s, q, k) = q[k] /\ q[k] \in Semis(s) /\ q[k] \in 1 .. Len(s)
    BY <1>1, <2>1 DEF Lists, EndAt
  <2>3. CASE k = 1
    BY <2>2, <2>3 DEF StartAt
  <2>4. CASE k # 1
    <3>1. k - 1 \in 1 .. Len(q) /\ k - 1 < k
      BY <1>2, <2>1, <2>4
    <3>2. q[k - 1] < q[k]
      BY <1>1, <2>1, <3>1 DEF Lists
    <3> QED
      BY <2>2, <2>4, <3>2 DEF StartAt
  <2> QED
    BY <2>3, <2>4
<1>5. ASSUME ~(k <= Len(q)) PROVE EndAt(s, q, k) = Len(s)
  BY <1>2, <1>5 DEF EndAt
<1> QED
  BY <1>3, <1>4, <1>5

(* A scan that starts at a, where the mode is "text", goes through the      *)
(* modes of the scan of s.  r is the range of s of length n behind a.       *)
RangeOf(r, s, a, n) ==
    /\ a \in Nat /\ n \in Nat /\ Len(s) \in Nat /\ a + n <= Len(s)
    /\ Len(r) = n /\ \A i \in 1 .. n : r[i] = s[a + i]
    /\ ModesOf(s)[a] = "text"

LEMMA ModesShift ==
    ASSUME NEW s, NEW r, NEW a, NEW n, RangeOf(r, s, a, n), NEW j \in 0 .. n
    PROVE  ModesOf(r)[j] = ModesOf(s)[a + j]
<1> DEFINE T == {i \in 0 .. n : ModesOf(r)[i] = ModesOf(s)[a + i]}
<1>1. /\ a \in Nat /\ n \in Nat /\ Len(s) \in Nat /\ a + n <= Len(s) /\ Len(r) = n
      /\ \A i \in 1 .. n : r[i] = s[a + i]
      /\ ModesOf(s)[a] = "text"
  BY DEF RangeOf
<1>2. 0 \in T
  <2>1. ModesOf(r)[0] = "text"
    BY <1>1, ModesUnfold
  <2>2. a + 0 = a /\ 0 \in 0 .. n
    BY <1>1
  <2> QED
    BY <1>1, <2>1, <2>2
<1>3. ASSUME NEW i \in 0 .. (n - 1), i \in T PROVE i + 1 \in T
  <2>1. /\ i \in 0 .. (Len(r) - 1) /\ a + i \in 0 .. (Len(s) - 1) /\ i + 1 \in 1 .. n
        /\ (a + i) + 1 = a + (i + 1) /\ i + 1 \in 0 .. n
    BY <1>1
  <2>2. ModesOf(r)[i + 1] = After(ModesOf(r)[i], r[i + 1])
    BY <1>1, <2>1, ModeStep
  <2>3. ModesOf(s)[(a + i) + 1] = After(ModesOf(s)[a + i], s[(a + i) + 1])
    BY <1>1, <2>1, ModeStep
  <2>4. r[i + 1] = s[(a + i) + 1] /\ ModesOf(r)[i] = ModesOf(s)[a + i]
    BY <1>1, <1>3, <2>1
  <2>5. ModesOf(r)[i + 1] = ModesOf(s)[a + (i + 1)]
    BY <2>1, <2>2, <2>3, <2>4
  <2> QED
    BY <2>1, <2>5
<1> HIDE DEF T
<1>4. \A i \in 0 .. n : i \in T
  BY <1>1, <1>2, <1>3, UpTo
<1> QED
  BY <1>4 DEF T

(* What lies outside comments in a range does so in the file.  The range    *)
(* ends with the file, or with a byte outside comments.                     *)
LEMMA OutsideShift ==
    ASSUME NEW s, NEW r, NEW a, NEW n, RangeOf(r, s, a, n),
           a + n = Len(s) \/ a + n \in Outside(s), NEW i \in 1 .. n
    PROVE  i \in Outside(r) <=> a + i \in Outside(s)
<1>1. /\ a \in Nat /\ n \in Nat /\ Len(s) \in Nat /\ a + n <= Len(s) /\ Len(r) = n
  BY DEF RangeOf
<1>2. /\ i \in 0 .. n /\ i - 1 \in 0 .. n /\ a + (i - 1) = (a + i) - 1
      /\ i \in 1 .. Len(r) /\ a + i \in 1 .. Len(s) /\ i \in Nat
  BY <1>1
<1>3. ModesOf(r)[i - 1] = ModesOf(s)[(a + i) - 1] /\ ModesOf(r)[i] = ModesOf(s)[a + i]
  <2>1. ModesOf(r)[i - 1] = ModesOf(s)[a + (i - 1)]
    BY <1>2, ModesShift
  <2>2. ModesOf(r)[i] = ModesOf(s)[a + i]
    BY <1>2, ModesShift
  <2> QED
    BY <1>2, <2>1, <2>2
<1>4. i \in Outside(r) <=>
        /\ ModesOf(r)[i - 1] \in {"text", "slash"} /\ ModesOf(r)[i] \in {"text", "slash"}
        /\ ~(i < Len(r) /\ ModesOf(r)[i] = "slash" /\ ModesOf(r)[i + 1] = "comment")
  BY <1>2, OutsideIs
<1>5. a + i \in Outside(s) <=>
        /\ ModesOf(s)[(a + i) - 1] \in {"text", "slash"} /\ ModesOf(s)[a + i] \in {"text", "slash"}
        /\ ~(a + i < Len(s) /\ ModesOf(s)[a + i] = "slash" /\ ModesOf(s)[(a + i) + 1] = "comment")
  BY <1>2, OutsideIs
<1>6. CASE i < n
  <2>1. i + 1 \in 0 .. n /\ a + (i + 1) = (a + i) + 1 /\ a + i < Len(s) /\ i < Len(r)
    BY <1>1, <1>2, <1>6
  <2>2. ModesOf(r)[i + 1] = ModesOf(s)[a + (i + 1)]
    BY <2>1, ModesShift
  <2> QED
    BY <1>3, <1>4, <1>5, <2>1, <2>2
<1>7. CASE ~(i < n)
  <2>1. a + i = a + n /\ ~(i < Len(r))
    BY <1>1, <1>2, <1>7
  <2>2. CASE a + n = Len(s)
    <3>1. ~(a + i < Len(s))
      BY <1>1, <1>2, <2>1, <2>2
    <3> QED
      BY <1>3, <1>4, <1>5, <2>1, <3>1
  <2>3. CASE a + n \in Outside(s)
    <3>1. a + i \in Outside(s)
      BY <2>1, <2>3
    <3>2. i \in Outside(r)
      BY <1>3, <1>4, <1>5, <2>1, <3>1
    <3> QED
      BY <3>1, <3>2
  <2> QED
    BY <2>2, <2>3
<1> QED
  BY <1>6, <1>7

(* The range, without its comments, is what of the file is kept there.      *)
LEMMA RangeStripped ==
    ASSUME NEW s, NEW r, NEW a, NEW n, RangeOf(r, s, a, n),
           a + n = Len(s) \/ a + n \in Outside(s),
           NEW P, P = {i \in Outside(s) : i > a}
    PROVE  Strip(r) = Kept(s, P)[a + n]
<1>1. /\ a \in Nat /\ n \in Nat /\ Len(s) \in Nat /\ a + n <= Len(s) /\ Len(r) = n
      /\ \A i \in 1 .. n : r[i] = s[a + i]
  BY DEF RangeOf
<1>2. Kept(s, P)[a] = Kept(r, Outside(r))[0]
  <2>1. PICK z : z = 0
    OBVIOUS
  <2>2. z \in Nat /\ a \in z .. Len(s)
    BY <1>1, <2>1
  <2>3. \A i \in (z + 1) .. a : i \notin P
    BY <1>1, <2>1
  <2>4. Kept(s, P)[a] = Kept(s, P)[z]
    BY <1>1, <2>2, <2>3, KeptNone
  <2> QED
    BY <1>1, <2>1, <2>4, KeptUnfold
<1>3. PICK Q : Q = Outside(r)
  OBVIOUS
<1>4. ASSUME NEW i \in 1 .. n PROVE (i \in Q <=> a + i \in P) /\ (i \in Q => r[i] = s[a + i])
  <2>1. i \in Outside(r) <=> a + i \in Outside(s)
    BY OutsideShift
  <2>2. a + i > a
    BY <1>1
  <2> QED
    BY <1>1, <1>3, <2>1, <2>2
<1>5. Len(r) \in Nat /\ n \in 0 .. Len(r)
  BY <1>1
<1>6. Shifted(r, Q, n, s, P, a, a + n)
  <2>1. a + n \in 0 .. Len(s) /\ Kept(s, P)[a] = Kept(r, Q)[0]
    BY <1>1, <1>2, <1>3
  <2> QED
    BY <1>1, <1>4, <1>5, <2>1 DEF Shifted
<1>7. Kept(r, Q)[n] = Kept(s, P)[a + n]
  BY <1>6, KeptShift
<1> QED
  BY <1>1, <1>3, <1>7 DEF Strip, At

(* The range of a segment, without its comments, is its text, with the ';'  *)
(* that ends it.                                                            *)
LEMMA SegmentReread ==
    ASSUME NEW s \in Seq(Bytes), NEW q, q = SemisOf(s), NEW k \in 1 .. (Len(q) + 1),
           NEW a, a = StartAt(q, k), NEW b, b = EndAt(s, q, k),
           NEW r, r = subarray(s, a, b), NEW t, t = Since(s, a, b)
    PROVE  Strip(r) \in {t, Append(t, SEMI)}
<1>1. Len(s) \in Nat
  BY LenProperties
<1>2. a \in Nat /\ b \in Nat /\ a <= b /\ b <= Len(s)
  BY <1>1, Bounds
<1>3. PICK n : n = b - a
  OBVIOUS
<1>4. n \in Nat /\ a + n = b /\ a + n <= Len(s) /\ b \in a .. Len(s)
  BY <1>1, <1>2, <1>3
<1>5. /\ ModesOf(s)[a] = "text"
      /\ k <= Len(q) => b \in Semis(s) /\ a < b
      /\ ~(k <= Len(q)) => b = Len(s)
  BY <1>1, SegmentStarts
<1>6. RangeOf(r, s, a, n)
  <2>1. /\ Len(subarray(s, a, b)) = b - a
        /\ \A i \in 1 .. (b - a) : subarray(s, a, b)[i] = s[a + i]
    BY <1>2, <1>4, SubarrayIs
  <2> QED
    BY <1>1, <1>2, <1>3, <1>4, <1>5, <2>1 DEF RangeOf
<1>7. b = Len(s) \/ b \in Outside(s)
  BY <1>5 DEF Semis
<1>8. PICK P : P = {i \in Outside(s) : i > a}
  OBVIOUS
<1>9. PICK Y : Y = {i \in Texts(s) : i > a}
  OBVIOUS
<1>10. Strip(r) = Kept(s, P)[b]
  <2>1. Strip(r) = Kept(s, P)[a + n]
    BY <1>4, <1>6, <1>7, <1>8, RangeStripped
  <2> QED
    BY <1>4, <2>1
<1>11. t = Kept(s, Y)[b]
  BY <1>9 DEF Since
<1>12. ASSUME NEW i \in P PROVE i \in Y \/ (i \in Semis(s) /\ k <= Len(q) /\ b <= i)
  <2>1. i \in Outside(s) /\ i > a /\ i \in 1 .. Len(s)
    BY <1>8, <1>12, OutsideIs
  <2>2. CASE s[i] = SEMI
    <3>1. i \in Semis(s) /\ a < i
      BY <1>2, <2>1, <2>2 DEF Semis
    <3> QED
      BY <1>1, <3>1, SemiBehind
  <2>3. CASE s[i] # SEMI
    BY <1>9, <2>1, <2>3 DEF Texts
  <2> QED
    BY <2>2, <2>3
<1>13. \A i : i \in Y => i \in P
  BY <1>8, <1>9 DEF Texts
<1>14. ASSUME NEW c \in 0 .. Len(s), \A i \in 1 .. c : i \in P <=> i \in Y
       PROVE  Kept(s, P)[c] = Kept(s, Y)[c]
  <2>1. PICK Z : Z = Y
    OBVIOUS
  <2>2. PICK X : X = P
    OBVIOUS
  <2>3. \A i \in 1 .. c : i \in X <=> i \in Z
    BY <1>14, <2>1, <2>2
  <2>4. Kept(s, X)[c] = Kept(s, Z)[c]
    BY ONLY <1>1, <1>14, <2>3, KeptSame
  <2> QED
    BY <2>1, <2>2, <2>4
<1>15. CASE ~(k <= Len(q))
  <2>1. \A i \in 1 .. b : i \in P <=> i \in Y
    BY <1>12, <1>13, <1>15
  <2>2. b \in 0 .. Len(s)
    BY <1>2
  <2>3. Kept(s, P)[b] = Kept(s, Y)[b]
    BY <1>14, <2>1, <2>2
  <2> QED
    BY <1>10, <1>11, <2>3
<1>16. CASE k <= Len(q)
  <2>1. PICK c : c = b - 1
    OBVIOUS
  <2>2. /\ c \in 0 .. (Len(s) - 1) /\ c + 1 = b /\ c \in 0 .. Len(s)
        /\ \A i \in 1 .. c : ~(b <= i)
    BY <1>1, <1>2, <1>5, <1>16, <2>1
  <2>3. \A i \in 1 .. c : i \in P <=> i \in Y
    BY <1>12, <1>13, <2>2
  <2>4. Kept(s, P)[c] = Kept(s, Y)[c]
    BY <1>14, <2>2, <2>3
  <2>5. c + 1 \in P /\ c + 1 \notin Y /\ s[c + 1] = SEMI
    <3>1. b \in P /\ b \notin Y /\ s[b] = SEMI
      BY <1>2, <1>5, <1>8, <1>9, <1>16 DEF Semis, Texts
    <3> QED
      BY <2>2, <3>1
  <2>6. Kept(s, P)[c + 1] = Append(Kept(s, P)[c], s[c + 1])
    <3>1. Kept(s, P)[c + 1] = IF c + 1 \in P THEN Append(Kept(s, P)[c], s[c + 1])
                              ELSE Kept(s, P)[c]
      BY <1>1, <2>2, KeptStep
    <3> QED
      BY <2>5, <3>1
  <2>7. Kept(s, Y)[c + 1] = Kept(s, Y)[c]
    <3>1. Kept(s, Y)[c + 1] = IF c + 1 \in Y THEN Append(Kept(s, Y)[c], s[c + 1])
                              ELSE Kept(s, Y)[c]
      BY <1>1, <2>2, KeptStep
    <3> QED
      BY <2>5, <3>1
  <2> QED
    BY <1>10, <1>11, <2>2, <2>4, <2>5, <2>6, <2>7
<1> QED
  BY <1>15, <1>16

(* So it is for every record.                                               *)
LEMMA RecordsAreSegments ==
    ASSUME NEW s \in Seq(Bytes), NEW x \in DOMAIN EntitiesOf(s), NEW q, q = SemisOf(s)
    PROVE  \E k \in 1 .. (Len(q) + 1) :
              EntitiesOf(s)[x] = SegmentIn(s, StartAt(q, k), EndAt(s, q, k))
<1>1. Len(s) \in Nat
  BY LenProperties
<1>2. PICK g : g = SegmentsOf(s)
  OBVIOUS
<1>3. PICK S : g \in Seq(S)
  BY <1>1, <1>2, SegmentsSeq
<1>4. Len(g) \in Nat /\ Len(g) = Len(q) + 1
  BY <1>1, <1>2, SegmentsIs, SemisAre
<1>5. PICK R : R = Records(g)
  OBVIOUS
<1>6. PICK n : n = Len(g)
  OBVIOUS
<1>7. EntitiesOf(s) = Kept(g, R)[n]
  BY <1>2, <1>5, <1>6 DEF EntitiesOf, At, Records
<1>8. n \in 0 .. Len(g)
  BY <1>4, <1>6
<1>9. PICK f : f = Kept(g, R)[n]
  OBVIOUS
<1>10. f \in Seq(S)
  BY <1>3, <1>8, <1>9, KeptType
<1>11. x \in 1 .. Len(f)
  <2>1. DOMAIN f = 1 .. Len(f)
    BY <1>10, LenProperties
  <2> QED
    BY <1>7, <1>9, <2>1
<1>12. \E i \in 1 .. n : i \in R /\ Kept(g, R)[n][x] = g[i]
  <2>1. x \in 1 .. Len(Kept(g, R)[n])
    BY <1>9, <1>11
  <2> QED
    BY ONLY <1>3, <1>8, <2>1, KeptEntries
<1>13. PICK k \in 1 .. n : EntitiesOf(s)[x] = g[k]
  BY <1>7, <1>12
<1>14. k \in 1 .. (Len(q) + 1)
  BY <1>4, <1>6, <1>13
<1> QED
  BY <1>1, <1>2, <1>13, <1>14, SegmentsAre

(* For every file and every such cut, the range given to onEntity holds the *)
(* record: readEntitiesAt, and the part files of worker-split.js, get the   *)
(* text it was indexed by, with its comments and the ';' that ends it.      *)
THEOREM RecordsReread == Spec => []Reread
<1>1. ASSUME ScanInv, RefInv PROVE Reread
  <2> SUFFICES ASSUME pc = "ended", ~MarkCut, NEW x \in DOMAIN entities,
                      NEW e, e = entities[x],
                      NEW r, r = subarray(file, e.offset, e.offset + e.length)
               PROVE  Strip(r) \in {e.text, Append(e.text, SEMI)}
    BY DEF Reread
  <2>1. PICK s : s = file
    OBVIOUS
  <2>2. s \in Seq(Bytes) /\ Len(s) \in Nat
    BY <1>1, <2>1, PosIs DEF ScanInv
  <2>3. entities = EntitiesOf(s)
    BY <1>1, <2>1 DEF RefInv
  <2>4. PICK q : q = SemisOf(s)
    OBVIOUS
  <2>5. PICK k \in 1 .. (Len(q) + 1) : e = SegmentIn(s, StartAt(q, k), EndAt(s, q, k))
    BY <2>2, <2>3, <2>4, RecordsAreSegments
  <2>6. PICK a : a = StartAt(q, k)
    OBVIOUS
  <2>7. PICK b : b = EndAt(s, q, k)
    OBVIOUS
  <2>8. a \in Nat /\ b \in Nat
    BY <2>2, <2>4, <2>5, <2>6, <2>7, Bounds
  <2>9. e.text = Since(s, a, b) /\ e.offset = a /\ e.length = b - a
    BY <2>5, <2>6, <2>7 DEF SegmentIn
  <2>10. r = subarray(s, a, b)
    <3>1. a + (b - a) = b
      BY <2>8
    <3> QED
      BY <2>1, <2>9, <3>1
  <2> QED
    BY <2>2, <2>4, <2>5, <2>6, <2>7, <2>9, <2>10, SegmentReread
<1> QED
  BY <1>1, InitScan, NextScan, InitRef, NextRef, PTL DEF Spec
=============================================================================
