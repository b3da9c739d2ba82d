------------------------- MODULE LineFramingProofs --------------------------
(***************************************************************************)
(* What LineFraming keeps for any number of connections and requests, any  *)
(* blank lines and every way of cutting the bytes: lines reach             *)
(* processResponse whole and by themselves, and the read thread ends only  *)
(* with its connection.                                                    *)
(***************************************************************************)
EXTENDS LineFraming, SequenceTheorems, NaturalsInduction,
        WellFoundedInduction, TLAPS

-----------------------------------------------------------------------------
(* Bytes and their sequences.                                              *)

LEMMA ByteKinds ==
    /\ Newline \in Byte /\ CR \in Byte /\ Newline # CR
    /\ Requests \subseteq Byte
    /\ \A n \in Requests : n # Newline /\ n # CR
    /\ \A b \in Byte : b # Newline /\ b # CR => b \in Requests
<1>1. MaxRequests \in Nat
  BY FramingAssumption
<1> QED
  BY <1>1 DEF Byte, Requests, Newline, CR

(* What stands between two newlines is at most one byte. *)
OneByteLines(s) == \A i \in 1 .. Len(s) - 1 : s[i] # Newline => s[i + 1] = Newline

EndsLine(s) == s # <<>> => s[Len(s)] = Newline

(* The bytes of whole answers: a number, a newline, a number, ... *)
AnswerBytes(s) ==
    /\ OneByteLines(s) /\ EndsLine(s)
    /\ \A i \in 1 .. Len(s) : s[i] # CR
    /\ s # <<>> => s[1] # Newline
    /\ \A i \in 1 .. Len(s) - 1 : s[i] = Newline => s[i + 1] # Newline

LEMMA EmptyBytes ==
    /\ <<>> \in Seq(Byte) /\ Len(<<>>) = 0 /\ <<>> \o <<>> = <<>>
    /\ OneByteLines(<<>>) /\ EndsLine(<<>>) /\ AnswerBytes(<<>>)
<1>1. <<>> \in Seq(Byte) /\ Len(<<>>) = 0
  BY EmptySeq
<1>2. <<>> \o <<>> = <<>>
  BY <1>1, ConcatEmptySeq
<1>3. 1 .. Len(<<>>) - 1 = {} /\ 1 .. Len(<<>>) = {}
  BY <1>1
<1> QED
  BY <1>1, <1>2, <1>3, Zenon DEF OneByteLines, EndsLine, AnswerBytes

LEMMA Regrouped ==
    ASSUME NEW a \in Seq(Byte), NEW b \in Seq(Byte), NEW c \in Seq(Byte)
    PROVE  (a \o b) \o c = a \o (b \o c)
  BY ConcatAssociative

(* Moving a chunk from one buffer to the one before it changes nothing.    *)
LEMMA ChunkMoves ==
    ASSUME NEW a \in Seq(Byte), NEW b \in Seq(Byte), NEW n \in 1 .. Len(b)
    PROVE  /\ a \o SubSeq(b, 1, n) \in Seq(Byte)
           /\ SubSeq(b, n + 1, Len(b)) \in Seq(Byte)
           /\ (a \o SubSeq(b, 1, n)) \o SubSeq(b, n + 1, Len(b)) = a \o b
<1>1. Len(b) \in Nat /\ \A i \in 1 .. Len(b) : b[i] \in Byte
  BY LenProperties, ElementOfSeq
<1>2. SubSeq(b, 1, n) \in Seq(Byte)
  <2>1. \A i \in 1 .. n : b[i] \in Byte
    BY <1>1
  <2> QED
    BY <1>1, <2>1, SubSeqProperties
<1>3. SubSeq(b, n + 1, Len(b)) \in Seq(Byte)
  <2>1. \A i \in n + 1 .. Len(b) : b[i] \in Byte
    BY <1>1
  <2> QED
    BY <1>1, <2>1, SubSeqProperties
<1>4. SubSeq(b, 1, n) \o SubSeq(b, n + 1, Len(b)) = b
  <2>1. 1 \in 1 .. Len(b) + 1 /\ n \in 1 - 1 .. Len(b) /\ Len(b) \in n .. Len(b)
    BY <1>1
  <2>2. SubSeq(b, 1, n) \o SubSeq(b, n + 1, Len(b)) = SubSeq(b, 1, Len(b))
    BY <2>1, ConcatAdjacentSubSeq
  <2> QED
    BY <2>2, SubSeqFull
<1> DEFINE x == SubSeq(b, 1, n)
           y == SubSeq(b, n + 1, Len(b))
<1>5. x \in Seq(Byte) /\ y \in Seq(Byte)
  BY <1>2, <1>3
<1>6. x \o y = b
  BY <1>4
<1> HIDE DEF x, y
<1>7. (a \o x) \o y = a \o (x \o y)
  BY <1>5, Regrouped, Zenon
<1>8. a \o x \in Seq(Byte)
  BY <1>5, ConcatProperties
<1>9. (a \o x) \o y = a \o b
  BY <1>6, <1>7
<1> QED
  BY <1>5, <1>8, <1>9 DEF x, y

(* The end of a stream keeps its lines short, and so does its beginning.   *)
LEMMA BeginningShort ==
    ASSUME NEW s \in Seq(Byte), NEW t \in Seq(Byte), OneByteLines(s \o t)
    PROVE  OneByteLines(s)
<1>1. Len(s) \in Nat /\ Len(t) \in Nat
  BY LenProperties
<1>2. /\ Len(s \o t) = Len(s) + Len(t)
      /\ \A i \in 1 .. Len(s) + Len(t) :
            (s \o t)[i] = IF i <= Len(s) THEN s[i] ELSE t[i - Len(s)]
  BY ConcatProperties
<1>3. ASSUME NEW i \in 1 .. Len(s) - 1, s[i] # Newline
      PROVE  s[i + 1] = Newline
  <2>1. i \in 1 .. (Len(s) + Len(t)) - 1 /\ i + 1 \in 1 .. Len(s) + Len(t)
        /\ i <= Len(s) /\ i + 1 <= Len(s) /\ i \in 1 .. Len(s) + Len(t)
    BY <1>1
  <2>2. (s \o t)[i] = s[i] /\ (s \o t)[i + 1] = s[i + 1]
    BY <1>2, <2>1
  <2> QED
    BY <1>2, <1>3, <2>1, <2>2 DEF OneByteLines
<1> QED
  BY <1>3 DEF OneByteLines

(* t is s without its first p bytes. *)
Dropped(s, p, t) ==
    /\ p \in 1 .. Len(s) /\ Len(t) = Len(s) - p
    /\ \A i \in 1 .. Len(t) : t[i] = s[i + p]

LEMMA DroppedShort ==
    ASSUME NEW s \in Seq(Byte), NEW t \in Seq(Byte), NEW p, Dropped(s, p, t)
    PROVE  /\ OneByteLines(s) => OneByteLines(t)
           /\ EndsLine(s) => EndsLine(t)
<1>1. /\ Len(s) \in Nat /\ Len(t) \in Nat /\ p \in 1 .. Len(s)
      /\ Len(t) = Len(s) - p /\ \A i \in 1 .. Len(t) : t[i] = s[i + p]
  BY LenProperties DEF Dropped
<1>2. ASSUME OneByteLines(s), NEW i \in 1 .. Len(t) - 1, t[i] # Newline
      PROVE  t[i + 1] = Newline
  <2>1. /\ i \in 1 .. Len(t) /\ i + 1 \in 1 .. Len(t)
        /\ i + p \in 1 .. Len(s) - 1 /\ (i + 1) + p = (i + p) + 1
    BY <1>1
  <2>2. t[i] = s[i + p] /\ t[i + 1] = s[(i + p) + 1]
    <3>1. t[i] = s[i + p] /\ t[i + 1] = s[(i + 1) + p]
      BY <1>1, <2>1
    <3> QED
      BY <2>1, <3>1
  <2> QED
    BY <1>2, <2>1, <2>2 DEF OneByteLines
<1>3. ASSUME EndsLine(s), t # <<>>
      PROVE  t[Len(t)] = Newline
  <2>1. Len(t) >= 1 /\ s # <<>>
    BY <1>1, <1>3, EmptySeq
  <2>2. Len(t) \in 1 .. Len(t) /\ Len(t) + p = Len(s)
    BY <1>1, <2>1
  <2> QED
    BY <1>1, <1>3, <2>1, <2>2 DEF EndsLine
<1> QED
  BY <1>2, <1>3 DEF OneByteLines, EndsLine

(* After whole lines another line starts. *)
LEMMA JoinedShort ==
    ASSUME NEW s \in Seq(Byte), NEW t \in Seq(Byte),
           OneByteLines(s), EndsLine(s), OneByteLines(t)
    PROVE  OneByteLines(s \o t)
<1>1. Len(s) \in Nat /\ Len(t) \in Nat
  BY LenProperties
<1>2. /\ Len(s \o t) = Len(s) + Len(t)
      /\ \A i \in 1 .. Len(s) + Len(t) :
            (s \o t)[i] = IF i <= Len(s) THEN s[i] ELSE t[i - Len(s)]
  BY ConcatProperties
<1>3. ASSUME NEW i \in 1 .. (Len(s) + Len(t)) - 1, (s \o t)[i] # Newline
      PROVE  (s \o t)[i + 1] = Newline
  <2>0. i \in 1 .. Len(s) + Len(t) /\ i + 1 \in 1 .. Len(s) + Len(t)
    BY <1>1
  <2>1. CASE i < Len(s)
    <3>1. i \in 1 .. Len(s) - 1 /\ i <= Len(s) /\ i + 1 <= Len(s)
      BY <1>1, <2>1
    <3>2. (s \o t)[i] = s[i] /\ (s \o t)[i + 1] = s[i + 1]
      BY <1>2, <2>0, <3>1
    <3> QED
      BY <1>3, <3>1, <3>2 DEF OneByteLines
  <2>2. CASE i = Len(s)
    <3>1. (s \o t)[i] = s[Len(s)]
      BY <1>1, <1>2, <2>0, <2>2
    <3>2. s # <<>>
      BY <1>1, <2>0, <2>2, EmptySeq
    <3> QED
      BY <1>3, <3>1, <3>2 DEF EndsLine
  <2>3. CASE i > Len(s)
    <3>1. /\ i - Len(s) \in 1 .. Len(t) - 1 /\ ~(i <= Len(s)) /\ ~(i + 1 <= Len(s))
          /\ (i + 1) - Len(s) = (i - Len(s)) + 1
      BY <1>1, <2>0, <2>3
    <3>2. (s \o t)[i] = t[i - Len(s)] /\ (s \o t)[i + 1] = t[(i - Len(s)) + 1]
      BY <1>2, <2>0, <3>1
    <3> QED
      BY <1>3, <3>1, <3>2 DEF OneByteLines
  <2> QED
    BY <1>1, <2>1, <2>2, <2>3
<1> QED
  BY <1>2, <1>3 DEF OneByteLines

LEMMA JoinedEnds ==
    ASSUME NEW s \in Seq(Byte), NEW t \in Seq(Byte), EndsLine(s), EndsLine(t)
    PROVE  EndsLine(s \o t)
<1>1. Len(s) \in Nat /\ Len(t) \in Nat
  BY LenProperties
<1>2. /\ Len(s \o t) = Len(s) + Len(t)
      /\ \A i \in 1 .. Len(s) + Len(t) :
            (s \o t)[i] = IF i <= Len(s) THEN s[i] ELSE t[i - Len(s)]
  BY ConcatProperties
<1>3. CASE t = <<>>
  BY <1>3, ConcatEmptySeq
<1>4. CASE t # <<>>
  <2>1. Len(t) >= 1
    BY <1>4, EmptySeq
  <2>2. /\ Len(s) + Len(t) \in 1 .. Len(s) + Len(t)
        /\ ~(Len(s) + Len(t) <= Len(s)) /\ (Len(s) + Len(t)) - Len(s) = Len(t)
    BY <1>1, <2>1
  <2>3. (s \o t)[Len(s \o t)] = t[Len(t)]
    BY <1>2, <2>2
  <2> QED
    BY <1>4, <2>3 DEF EndsLine
<1> QED
  BY <1>3, <1>4

-----------------------------------------------------------------------------
(* Lines.                                                                  *)

LEMMA LeastElement ==
    ASSUME NEW S \in SUBSET Nat, S # {}
    PROVE  Min(S) \in S /\ \A y \in S : Min(S) <= y
<1>1. PICK x \in S : \A y \in S : ~ (<<y, x>> \in OpToRel(<, Nat))
  BY NatLessThanWellFounded, WFMin
<1>2. ASSUME NEW y \in S
      PROVE  x <= y
  <2>1. <<y, x>> \in Nat \X Nat
    OBVIOUS
  <2>2. ~ (y < x)
    BY <1>1, <2>1 DEF OpToRel
  <2> QED
    BY <2>2
<1> QED
  BY <1>2 DEF Min

(* find('\n') returns the first newline; what is erased is what was taken  *)
(* and the newline.                                                        *)
LEMMA LineTaken ==
    ASSUME NEW b \in Seq(Byte), HasLine(b)
    PROVE  \E p \in 1 .. Len(b) :
              /\ b[p] = Newline /\ \A i \in 1 .. p - 1 : b[i] # Newline
              /\ FirstLine(b) = SubSeq(b, 1, p - 1)
              /\ AfterLine(b) = SubSeq(b, p + 1, Len(b))
<1> DEFINE I == {i \in 1 .. Len(b) : b[i] = Newline}
<1>1. DOMAIN b = 1 .. Len(b) /\ Len(b) \in Nat
  BY LenProperties
<1>2. I # {} /\ I \in SUBSET Nat
  BY <1>1 DEF HasLine, Range
<1>3. Min(I) \in I /\ \A y \in I : Min(I) <= y
  BY <1>2, LeastElement
<1>4. /\ FirstLine(b) = SubSeq(b, 1, Min(I) - 1)
      /\ AfterLine(b) = SubSeq(b, Min(I) + 1, Len(b))
  BY <1>2 DEF FirstLine, AfterLine, SelectInSeq
<1>5. \A i \in 1 .. Min(I) - 1 : b[i] # Newline
  <2> SUFFICES ASSUME NEW i \in 1 .. Min(I) - 1, b[i] = Newline
               PROVE  FALSE
    OBVIOUS
  <2>1. Min(I) \in 1 .. Len(b)
    BY <1>3
  <2>2. i \in 1 .. Len(b) /\ i < Min(I)
    BY <1>1, <2>1
  <2> QED
    BY <1>1, <1>3, <2>1, <2>2
<1> QED
  BY <1>3, <1>4, <1>5

(* Taking a line off a buffer drops the beginning of the stream it is in.  *)
LEMMA AfterLineDrops ==
    ASSUME NEW b \in Seq(Byte), NEW c \in Seq(Byte), HasLine(b)
    PROVE  /\ AfterLine(b) \in Seq(Byte)
           /\ \E p \in 1 .. Len(b) :
                 b[p] = Newline /\ Dropped(b \o c, p, AfterLine(b) \o c)
<1>1. PICK p \in 1 .. Len(b) :
         /\ b[p] = Newline
         /\ AfterLine(b) = SubSeq(b, p + 1, Len(b))
  BY LineTaken
<1>2. Len(b) \in Nat /\ Len(c) \in Nat /\ \A i \in 1 .. Len(b) : b[i] \in Byte
  BY LenProperties, ElementOfSeq
<1> DEFINE a == AfterLine(b)
<1>3. /\ a \in Seq(Byte) /\ Len(a) = Len(b) - p
      /\ \A i \in 1 .. Len(b) - p : a[i] = b[i + p]
  <2>1. \A i \in p + 1 .. Len(b) : b[i] \in Byte
    BY <1>2
  <2>2. /\ a \in Seq(Byte)
        /\ Len(a) = IF p + 1 <= Len(b) THEN Len(b) - (p + 1) + 1 ELSE 0
        /\ \A i \in 1 .. Len(b) - (p + 1) + 1 : a[i] = b[(p + 1) + i - 1]
    BY <1>1, <1>2, <2>1, SubSeqProperties
  <2>3. /\ Len(b) - (p + 1) + 1 = Len(b) - p
        /\ \A i \in 1 .. Len(b) - p : (p + 1) + i - 1 = i + p
        /\ ~(p + 1 <= Len(b)) => Len(b) - p = 0
    BY <1>2
  <2> QED
    BY <2>2, <2>3
<1> HIDE DEF a
<1>4. /\ Len(b \o c) = Len(b) + Len(c)
      /\ \A i \in 1 .. Len(b) + Len(c) :
            (b \o c)[i] = IF i <= Len(b) THEN b[i] ELSE c[i - Len(b)]
  BY ConcatProperties
<1>5. /\ Len(a \o c) = Len(a) + Len(c)
      /\ \A i \in 1 .. Len(a) + Len(c) :
            (a \o c)[i] = IF i <= Len(a) THEN a[i] ELSE c[i - Len(a)]
  BY <1>3, ConcatProperties
<1>6. ASSUME NEW i \in 1 .. Len(a) + Len(c)
      PROVE  (a \o c)[i] = (b \o c)[i + p]
  <2>0. i + p \in 1 .. Len(b) + Len(c)
    BY <1>2, <1>3
  <2>1. CASE i <= Len(a)
    <3>1. i + p <= Len(b) /\ i \in 1 .. Len(b) - p
      BY <1>2, <1>3, <2>1
    <3> QED
      BY <1>3, <1>4, <1>5, <2>0, <2>1, <3>1
  <2>2. CASE ~(i <= Len(a))
    <3>1. ~(i + p <= Len(b)) /\ (i + p) - Len(b) = i - Len(a)
      BY <1>2, <1>3, <2>2
    <3> QED
      BY <1>4, <1>5, <2>0, <2>2, <3>1
  <2> QED
    BY <2>1, <2>2
<1>7. /\ Len(a \o c) = Len(b \o c) - p /\ p \in 1 .. Len(b \o c)
  BY <1>2, <1>3, <1>4, <1>5
<1>8. Dropped(b \o c, p, a \o c)
  BY <1>5, <1>6, <1>7 DEF Dropped
<1> QED
  BY <1>1, <1>3, <1>8 DEF a

(* A buffer of short lines starts with an empty line or one of one byte.   *)
LEMMA FirstLineShort ==
    ASSUME NEW b \in Seq(Byte), HasLine(b), OneByteLines(b)
    PROVE  \/ FirstLine(b) = <<>> /\ b[1] = Newline
           \/ FirstLine(b) = <<b[1]>> /\ b[1] # Newline /\ b[1] \in Byte
<1>1. PICK p \in 1 .. Len(b) :
         /\ b[p] = Newline /\ \A i \in 1 .. p - 1 : b[i] # Newline
         /\ FirstLine(b) = SubSeq(b, 1, p - 1)
  BY LineTaken
<1>2. Len(b) \in Nat /\ \A i \in 1 .. Len(b) : b[i] \in Byte
  BY LenProperties, ElementOfSeq
<1>3. p = 1 \/ p = 2
  <2> SUFFICES ASSUME p > 2
               PROVE  FALSE
    BY <1>2
  <2>1. 1 \in 1 .. p - 1 /\ 2 \in 1 .. p - 1 /\ 1 \in 1 .. Len(b) - 1 /\ 1 + 1 = 2
    BY <1>2
  <2> QED
    BY <1>1, <2>1 DEF OneByteLines
<1>4. CASE p = 1
  <2>1. SubSeq(b, 1, p - 1) = <<>>
    BY <1>4, SubSeqEmpty
  <2> QED
    BY <1>1, <1>4, <2>1
<1>5. CASE p = 2
  <2>1. b[1] # Newline /\ b[1] \in Byte
    BY <1>1, <1>2, <1>5
  <2>2. SubSeq(b, 1, p - 1) \in Seq(Byte) /\ Len(SubSeq(b, 1, p - 1)) = 1
        /\ SubSeq(b, 1, p - 1)[1] = b[1]
    <3>1. \A i \in 1 .. 1 : b[i] \in Byte
      BY <2>1
    <3> QED
      BY <1>5, <3>1, SubSeqProperties
  <2>3. SubSeq(b, 1, p - 1) = <<b[1]>>
    <3>1. <<b[1]>> \in Seq(Byte) /\ Len(<<b[1]>>) = 1 /\ <<b[1]>>[1] = b[1]
      BY <2>1
    <3>2. \A i \in 1 .. 1 : i = 1
      OBVIOUS
    <3> QED
      BY <2>2, <3>1, <3>2, SeqEqual
  <2> QED
    BY <1>1, <2>1, <2>3
<1> QED
  BY <1>3, <1>4, <1>5

(* What the desk sends for a request: lines of at most a byte, all ended.  *)
LEMMA MessageBytes ==
    ASSUME NEW blank \in BlankLines, NEW n \in Requests
    PROVE  /\ blank \o <<n, Newline>> \in Seq(Byte)
           /\ OneByteLines(blank \o <<n, Newline>>)
           /\ EndsLine(blank \o <<n, Newline>>)
<1>1. /\ blank \in Seq({Newline, CR})
      /\ \A i \in DOMAIN blank :
            blank[i] = CR => i < Len(blank) /\ blank[i + 1] = Newline
  BY FramingAssumption
<1>2. blank \in Seq(Byte) /\ DOMAIN blank = 1 .. Len(blank) /\ Len(blank) \in Nat
  BY <1>1, ByteKinds, SeqMonotonic, LenProperties
<1>3. \A i \in 1 .. Len(blank) : blank[i] = Newline \/ blank[i] = CR
  BY <1>1, <1>2, ElementOfSeq
<1>4. OneByteLines(blank)
  <2>1. 1 .. Len(blank) - 1 \subseteq 1 .. Len(blank)
    BY <1>2
  <2> QED
    BY <1>1, <1>2, <1>3, <2>1, Zenon DEF OneByteLines
<1>5. EndsLine(blank)
  <2> SUFFICES ASSUME blank # <<>>
               PROVE  blank[Len(blank)] = Newline
    BY DEF EndsLine
  <2>1. Len(blank) \in 1 .. Len(blank) /\ ~(Len(blank) < Len(blank))
    BY <1>2, EmptySeq
  <2> QED
    BY <1>1, <1>2, <1>3, <2>1, Zenon
<1> DEFINE m == <<n, Newline>>
<1>6. /\ m \in Seq(Byte) /\ Len(m) = 2 /\ m[1] = n /\ m[2] = Newline
  BY ByteKinds
<1> HIDE DEF m
<1>7. OneByteLines(m) /\ EndsLine(m)
  <2>1. \A i \in 1 .. Len(m) - 1 : m[i + 1] = Newline
    BY <1>6
  <2> QED
    BY <1>6, <2>1, Zenon DEF OneByteLines, EndsLine
<1> QED
  BY <1>2, <1>4, <1>5, <1>6, <1>7, JoinedShort, JoinedEnds, ConcatProperties DEF m

(* The bytes writeLine sends for an answer and its newline, in one message. *)
LEMMA AnswerMessage ==
    ASSUME NEW n \in Requests
    PROVE  <<n>> \o <<Newline>> = <<n, Newline>>
<1> DEFINE one == <<n>>
           end == <<Newline>>
           both == <<n, Newline>>
           sent == one \o end
<1>1. one \in Seq(Byte) /\ Len(one) = 1 /\ one[1] = n
  BY ByteKinds
<1>2. end \in Seq(Byte) /\ Len(end) = 1 /\ end[1] = Newline
  BY ByteKinds
<1>3. both \in Seq(Byte) /\ Len(both) = 2 /\ both[1] = n /\ both[2] = Newline
  BY ByteKinds
<1> HIDE DEF one, end, both
<1>4. /\ sent \in Seq(Byte) /\ Len(sent) = Len(one) + Len(end)
      /\ \A i \in 1 .. Len(one) + Len(end) :
            sent[i] = IF i <= Len(one) THEN one[i] ELSE end[i - Len(one)]
  BY <1>1, <1>2, ConcatProperties
<1> HIDE DEF sent
<1>5. Len(sent) = 2 /\ sent[1] = n /\ sent[2] = Newline
  BY <1>1, <1>2, <1>4
<1>6. \A i \in 1 .. 2 : i = 1 \/ i = 2
  OBVIOUS
<1>7. sent = both
  BY <1>3, <1>4, <1>5, <1>6, SeqEqual
<1> QED
  BY <1>7 DEF sent, one, end, both

(* An answer is added to answers.                                          *)
LEMMA AnswerJoined ==
    ASSUME NEW s \in Seq(Byte), AnswerBytes(s), NEW n \in Requests
    PROVE  AnswerBytes(s \o <<n, Newline>>)
<1> DEFINE m == <<n, Newline>>
           t == s \o m
<1>1. /\ m \in Seq(Byte) /\ Len(m) = 2 /\ m[1] = n /\ m[2] = Newline
      /\ n # Newline /\ n # CR /\ Newline # CR
  BY ByteKinds
<1> HIDE DEF m
<1>2. OneByteLines(m) /\ EndsLine(m)
  <2>1. \A i \in 1 .. Len(m) - 1 : m[i + 1] = Newline
    BY <1>1
  <2> QED
    BY <1>1, <2>1, Zenon DEF OneByteLines, EndsLine
<1>3. OneByteLines(t) /\ EndsLine(t)
  BY <1>1, <1>2, JoinedShort, JoinedEnds DEF AnswerBytes
<1>4. Len(s) \in Nat /\ \A i \in 1 .. Len(s) : s[i] # CR
  BY LenProperties DEF AnswerBytes
<1>5. /\ Len(t) = Len(s) + 2 /\ \A i \in 1 .. Len(s) : t[i] = s[i]
      /\ t[Len(s) + 1] = n /\ t[Len(s) + 2] = Newline
  <2>1. /\ Len(t) = Len(s) + Len(m)
        /\ \A i \in 1 .. Len(s) + Len(m) :
              t[i] = IF i <= Len(s) THEN s[i] ELSE m[i - Len(s)]
    BY <1>1, ConcatProperties
  <2>2. /\ Len(s) + 1 \in 1 .. Len(s) + Len(m) /\ ~(Len(s) + 1 <= Len(s))
        /\ (Len(s) + 1) - Len(s) = 1
        /\ Len(s) + 2 \in 1 .. Len(s) + Len(m) /\ ~(Len(s) + 2 <= Len(s))
        /\ (Len(s) + 2) - Len(s) = 2
    BY <1>1, <1>4
  <2>3. \A i \in 1 .. Len(s) : i \in 1 .. Len(s) + Len(m) /\ i <= Len(s)
    BY <1>1, <1>4
  <2> QED
    BY <1>1, <2>1, <2>2, <2>3
<1> HIDE DEF t
<1>6. ASSUME NEW i \in 1 .. Len(t)
      PROVE  t[i] # CR
  <2>1. i \in 1 .. Len(s) \/ i = Len(s) + 1 \/ i = Len(s) + 2
    BY <1>4, <1>5
  <2> QED
    BY <1>1, <1>4, <1>5, <2>1, Zenon
<1>7. t[1] # Newline
  <2>1. CASE s = <<>>
    <3>1. Len(s) + 1 = 1
      BY <2>1, EmptySeq
    <3> QED
      BY <1>1, <1>5, <3>1
  <2>2. CASE s # <<>>
    <3>1. 1 \in 1 .. Len(s) /\ s[1] # Newline
      BY <1>4, <2>2, EmptySeq DEF AnswerBytes
    <3> QED
      BY <1>5, <3>1
  <2> QED
    BY <2>1, <2>2
<1>8. ASSUME NEW i \in 1 .. Len(t) - 1, t[i] = Newline
      PROVE  t[i + 1] # Newline
  <2>1. i \in 1 .. Len(s) + 1
    BY <1>4, <1>5
  <2>2. i # Len(s) + 1
    BY <1>1, <1>5, <1>8
  <2>3. CASE i = Len(s)
    BY <1>1, <1>5, <2>3
  <2>4. CASE i # Len(s)
    <3>1. i \in 1 .. Len(s) - 1 /\ i \in 1 .. Len(s) /\ i + 1 \in 1 .. Len(s)
      BY <1>4, <2>1, <2>2, <2>4
    <3> QED
      BY <1>5, <1>8, <3>1 DEF AnswerBytes
  <2> QED
    BY <2>3, <2>4
<1> QED
  BY <1>3, <1>6, <1>7, <1>8 DEF AnswerBytes, t, m

(* Up to a newline, whole answers are dropped. *)
LEMMA DroppedAnswers ==
    ASSUME NEW s \in Seq(Byte), NEW t \in Seq(Byte), NEW p, Dropped(s, p, t),
           s[p] = Newline, AnswerBytes(s)
    PROVE  AnswerBytes(t)
<1>1. /\ Len(s) \in Nat /\ Len(t) \in Nat /\ p \in 1 .. Len(s)
      /\ Len(t) = Len(s) - p /\ \A i \in 1 .. Len(t) : t[i] = s[i + p]
  BY LenProperties DEF Dropped
<1>2. OneByteLines(t) /\ EndsLine(t)
  BY DroppedShort DEF AnswerBytes
<1>3. ASSUME NEW i \in 1 .. Len(t)
      PROVE  t[i] # CR
  <2>1. i + p \in 1 .. Len(s)
    BY <1>1
  <2> QED
    BY <1>1, <2>1 DEF AnswerBytes
<1>4. ASSUME t # <<>>
      PROVE  t[1] # Newline
  <2>1. Len(t) >= 1
    BY <1>4, EmptySeq
  <2>2. 1 \in 1 .. Len(t) /\ p \in 1 .. Len(s) - 1 /\ 1 + p = p + 1
    BY <1>1, <2>1
  <2>3. t[1] = s[p + 1]
    BY <1>1, <2>2
  <2> QED
    BY <2>2, <2>3 DEF AnswerBytes
<1>5. ASSUME NEW i \in 1 .. Len(t) - 1, t[i] = Newline
      PROVE  t[i + 1] # Newline
  <2>1. /\ i \in 1 .. Len(t) /\ i + 1 \in 1 .. Len(t)
        /\ i + p \in 1 .. Len(s) - 1 /\ (i + 1) + p = (i + p) + 1
    BY <1>1
  <2>2. t[i] = s[i + p] /\ t[i + 1] = s[(i + p) + 1]
    <3>1. t[i] = s[i + p] /\ t[i + 1] = s[(i + 1) + p]
      BY <1>1, <2>1
    <3> QED
      BY <2>1, <3>1
  <2> QED
    BY <1>5, <2>1, <2>2 DEF AnswerBytes
<1> QED
  BY <1>2, <1>3, <1>4, <1>5 DEF AnswerBytes

(* So the first line among answers is an answer. *)
LEMMA FirstAnswer ==
    ASSUME NEW b \in Seq(Byte), NEW c \in Seq(Byte), HasLine(b), AnswerBytes(b \o c)
    PROVE  FirstLine(b) \in {<<n>> : n \in Requests}
<1>1. OneByteLines(b)
  BY BeginningShort DEF AnswerBytes
<1>2. PICK p \in 1 .. Len(b) : b[p] = Newline
  BY LineTaken
<1>3. /\ Len(b) \in Nat /\ Len(c) \in Nat /\ Len(b \o c) = Len(b) + Len(c)
      /\ \A i \in 1 .. Len(b) + Len(c) :
            (b \o c)[i] = IF i <= Len(b) THEN b[i] ELSE c[i - Len(b)]
  BY LenProperties, ConcatProperties
<1>4. 1 \in 1 .. Len(b) + Len(c) /\ 1 <= Len(b) /\ Len(b) + Len(c) # 0
  BY <1>2, <1>3
<1>5. (b \o c)[1] = b[1] /\ b \o c # <<>>
  <2>1. Len(b \o c) # 0
    BY <1>3, <1>4
  <2> QED
    BY <1>3, <1>4, <2>1, EmptySeq
<1>6. b[1] # Newline /\ b[1] # CR
  BY <1>3, <1>4, <1>5 DEF AnswerBytes
<1>7. FirstLine(b) = <<b[1]>> /\ b[1] \in Byte
  BY <1>1, <1>6, FirstLineShort
<1>8. b[1] \in Requests
  BY <1>6, <1>7, ByteKinds
<1> QED
  BY <1>7, <1>8

-----------------------------------------------------------------------------
(* The inductive invariant.                                                *)

(* The part of a message send() still holds counts as long as the          *)
(* connection stands; then it is lost.                                     *)
Unsent(k) == IF k = conn /\ k \in up THEN sending ELSE <<>>

ToServe(k) == requestBuffer[k] \o (toServer[k] \o Unsent(k))

ToDeliver == readBuffer \o toDesk[conn]

Control ==
    /\ reader # "ended" => open
    /\ open => conn \in Conns
    /\ ~open => readBuffer = <<>> /\ sending = <<>>

(* Nothing of a connection is there before it is made. *)
Fresh ==
    \A k \in Conns : k > conn =>
        /\ requestBuffer[k] = <<>> /\ toServer[k] = <<>> /\ toDesk[k] = <<>>
        /\ server[k] = "none" /\ k \notin up

Served ==
    \A k \in Conns :
        /\ OneByteLines(ToServe(k))
        /\ k = conn /\ k \in up => EndsLine(ToServe(k))

Delivering == open => AnswerBytes(ToDeliver)

FramingInv == FramingTypeOK /\ Control /\ Fresh /\ Served /\ Delivering

LEMMA Buffers ==
    ASSUME FramingTypeOK, NEW k \in Conns
    PROVE  /\ sending \in Seq(Byte) /\ readBuffer \in Seq(Byte)
           /\ toServer[k] \in Seq(Byte) /\ toDesk[k] \in Seq(Byte)
           /\ requestBuffer[k] \in Seq(Byte) /\ Unsent(k) \in Seq(Byte)
           /\ toServer[k] \o Unsent(k) \in Seq(Byte)
<1>1. /\ sending \in Seq(Byte) /\ readBuffer \in Seq(Byte)
      /\ toServer[k] \in Seq(Byte) /\ toDesk[k] \in Seq(Byte)
      /\ requestBuffer[k] \in Seq(Byte)
  BY DEF FramingTypeOK
<1>2. Unsent(k) \in Seq(Byte)
  BY <1>1, EmptyBytes DEF Unsent
<1> QED
  BY <1>1, <1>2, ConcatProperties

(* A step that leaves every stream to the daemon as it is. *)
LEMMA ServedSame ==
    ASSUME Served, UNCHANGED conn, up' \subseteq up,
           \A k \in Conns : ToServe(k)' = ToServe(k)
    PROVE  Served'
<1>1. ASSUME NEW k \in Conns
      PROVE  /\ OneByteLines(ToServe(k)')
             /\ k = conn' /\ k \in up' => EndsLine(ToServe(k)')
  <2>1. /\ OneByteLines(ToServe(k))
        /\ k = conn /\ k \in up => EndsLine(ToServe(k))
    BY DEF Served
  <2>2. ToServe(k)' = ToServe(k)
    OBVIOUS
  <2> QED
    BY <2>1, <2>2
<1> QED
  BY <1>1 DEF Served, OneByteLines, EndsLine

(* A step that changes at most one of them. *)
LEMMA ServedOne ==
    ASSUME Served, UNCHANGED <<conn, up>>, NEW k \in Conns,
           OneByteLines(ToServe(k)'),
           k = conn /\ k \in up => EndsLine(ToServe(k)'),
           \A j \in Conns \ {k} : ToServe(j)' = ToServe(j)
    PROVE  Served'
<1>1. ASSUME NEW j \in Conns
      PROVE  /\ OneByteLines(ToServe(j)')
             /\ j = conn' /\ j \in up' => EndsLine(ToServe(j)')
  <2>1. /\ OneByteLines(ToServe(j))
        /\ j = conn /\ j \in up => EndsLine(ToServe(j))
    BY DEF Served
  <2>2. CASE j # k
    <3>1. ToServe(j)' = ToServe(j)
      BY <2>2
    <3> QED
      BY <2>1, <3>1
  <2>3. CASE j = k
    BY <2>3
  <2> QED
    BY <2>2, <2>3
<1> QED
  BY <1>1 DEF Served, OneByteLines, EndsLine

LEMMA DeliveringSame ==
    ASSUME Delivering, open' => open, ToDeliver' = ToDeliver
    PROVE  Delivering'
<1>1. open' => AnswerBytes(ToDeliver')
  BY DEF Delivering
<1> QED
  BY <1>1 DEF Delivering, AnswerBytes, OneByteLines, EndsLine

-----------------------------------------------------------------------------
(* The UI thread.                                                          *)

LEMMA ConnectKeeps ==
    ASSUME FramingInv, Connect
    PROVE  FramingInv'
<1>1. /\ ~open /\ conn < MaxConns /\ conn' = conn + 1
      /\ up' = up \union {conn + 1} /\ server' = [server EXCEPT ![conn + 1] = "read"]
      /\ open' = TRUE /\ running' = TRUE /\ reader' = "test"
  BY DEF Connect
<1>2. UNCHANGED <<asked, sending, delivered, readBuffer, toServer, toDesk, requestBuffer>>
  BY DEF Connect, wire
<1>3. conn \in 0 .. MaxConns /\ MaxConns \in Nat /\ up \subseteq Conns
  BY FramingAssumption DEF FramingInv, FramingTypeOK
<1>4. /\ conn' \in 0 .. MaxConns /\ conn' \in Conns /\ conn' # conn /\ conn' > conn
      /\ \A k \in Conns : k > conn' => k > conn /\ k # conn'
  BY <1>1, <1>3 DEF Conns
<1>5. readBuffer = <<>> /\ sending = <<>>
  BY <1>1 DEF FramingInv, Control
<1>6. /\ requestBuffer[conn'] = <<>> /\ toServer[conn'] = <<>> /\ toDesk[conn'] = <<>>
      /\ conn' \notin up
  BY <1>4 DEF FramingInv, Fresh
<1>7. FramingTypeOK'
  <2>1. up' \subseteq Conns /\ server' \in [Conns -> {"none", "read", "ended"}]
    BY <1>1, <1>3, <1>4 DEF FramingInv, FramingTypeOK
  <2>2. open' \in BOOLEAN /\ running' \in BOOLEAN
    BY <1>1
  <2> QED
    BY <1>1, <1>2, <1>4, <2>1, <2>2 DEF FramingInv, FramingTypeOK
<1>8. Control'
  BY <1>1, <1>4 DEF Control
<1>9. Fresh'
  <2> SUFFICES ASSUME NEW k \in Conns, k > conn'
               PROVE  /\ requestBuffer'[k] = <<>> /\ toServer'[k] = <<>>
                      /\ toDesk'[k] = <<>> /\ server'[k] = "none" /\ k \notin up'
    BY DEF Fresh
  <2>1. k > conn /\ k # conn + 1
    BY <1>1, <1>4
  <2>2. /\ requestBuffer[k] = <<>> /\ toServer[k] = <<>> /\ toDesk[k] = <<>>
        /\ server[k] = "none" /\ k \notin up
    BY <2>1 DEF FramingInv, Fresh
  <2>3. server'[k] = "none" /\ k \notin up'
    BY <1>1, <2>1, <2>2 DEF FramingInv, FramingTypeOK
  <2> QED
    BY <1>2, <2>2, <2>3
<1>10. Served'
  <2>1. ASSUME NEW k \in Conns
        PROVE  OneByteLines(ToServe(k)') /\ (k = conn' => EndsLine(ToServe(k)'))
    <3>1. Unsent(k) = <<>> /\ Unsent(k)' = <<>>
      BY <1>2, <1>5 DEF Unsent
    <3>2. ToServe(k)' = ToServe(k)
      BY <1>2, <3>1 DEF ToServe
    <3>3. OneByteLines(ToServe(k))
      BY DEF FramingInv, Served
    <3>4. CASE k = conn'
      <4>1. ToServe(k) = <<>>
        BY <1>6, <3>1, <3>4, EmptyBytes DEF ToServe
      <4> QED
        BY <3>2, <3>3, <4>1, EmptyBytes
    <3> QED
      BY <3>2, <3>3, <3>4
  <2> QED
    BY <2>1 DEF Served, OneByteLines, EndsLine
<1>11. Delivering'
  <2>1. readBuffer' = <<>> /\ toDesk'[conn'] = <<>>
    BY <1>2, <1>5, <1>6
  <2>2. ToDeliver' = <<>>
    BY <2>1, EmptyBytes DEF ToDeliver
  <2>3. AnswerBytes(ToDeliver')
    BY <2>2, EmptyBytes
  <2> QED
    BY <2>3 DEF Delivering, AnswerBytes, OneByteLines, EndsLine
<1> QED
  BY <1>7, <1>8, <1>9, <1>10, <1>11 DEF FramingInv

LEMMA DisconnectKeeps ==
    ASSUME FramingInv, Disconnect
    PROVE  FramingInv'
<1>1. /\ sending = <<>> /\ running' = FALSE /\ up' = up \ {conn}
      /\ UNCHANGED <<conn, open, reader, asked, sending, readBuffer, delivered>>
      /\ UNCHANGED <<toServer, toDesk, server, requestBuffer>>
  BY DEF Disconnect, wire, daemon
<1>2. FramingTypeOK'
  <2>1. running' \in BOOLEAN /\ up' \subseteq Conns
    BY <1>1 DEF FramingInv, FramingTypeOK
  <2> QED
    BY <1>1, <2>1 DEF FramingInv, FramingTypeOK
<1>3. Control' /\ Fresh'
  BY <1>1, Zenon DEF FramingInv, Control, Fresh
<1>4. \A k \in Conns : ToServe(k)' = ToServe(k)
  BY <1>1, Zenon DEF ToServe, Unsent
<1>5. Served'
  BY <1>1, <1>4, ServedSame DEF FramingInv
<1>6. Delivering'
  BY <1>1, DeliveringSame DEF FramingInv, ToDeliver
<1> QED
  BY <1>2, <1>3, <1>5, <1>6 DEF FramingInv

LEMMA CloseKeeps ==
    ASSUME FramingInv, Close
    PROVE  FramingInv'
<1>1. /\ conn \notin up /\ reader = "ended" /\ sending = <<>>
      /\ open' = FALSE /\ readBuffer' = <<>>
      /\ UNCHANGED <<conn, running, reader, asked, sending, delivered, up>>
      /\ UNCHANGED <<toServer, toDesk, server, requestBuffer>>
  BY DEF Close, wire, daemon
<1>2. FramingTypeOK'
  BY <1>1, EmptyBytes DEF FramingInv, FramingTypeOK
<1>3. Control' /\ Delivering'
  BY <1>1 DEF Control, Delivering
<1>4. Fresh'
  BY <1>1, Zenon DEF FramingInv, Fresh
<1>5. \A k \in Conns : ToServe(k)' = ToServe(k)
  BY <1>1, Zenon DEF ToServe, Unsent
<1>6. Served'
  BY <1>1, <1>5, ServedSame DEF FramingInv
<1> QED
  BY <1>2, <1>3, <1>4, <1>6 DEF FramingInv

LEMMA AskKeeps ==
    ASSUME FramingInv, Ask
    PROVE  FramingInv'
<1>1. PICK blank \in BlankLines : sending' = blank \o <<asked + 1, Newline>>
  BY DEF Ask
<1>2. /\ open /\ sending = <<>> /\ asked < MaxRequests /\ asked' = asked + 1
      /\ UNCHANGED <<conn, open, running, reader, readBuffer, delivered, up>>
      /\ UNCHANGED <<toServer, toDesk, server, requestBuffer>>
  BY DEF Ask, wire, daemon
<1>3. asked + 1 \in Requests /\ asked' \in 0 .. MaxRequests
  <2>1. asked \in 0 .. MaxRequests /\ MaxRequests \in Nat
    BY FramingAssumption DEF FramingInv, FramingTypeOK
  <2> QED
    BY <1>2, <2>1 DEF Requests
<1>4. /\ sending' \in Seq(Byte) /\ OneByteLines(sending') /\ EndsLine(sending')
  BY <1>1, <1>3, MessageBytes
<1>5. FramingTypeOK'
  BY <1>2, <1>3, <1>4 DEF FramingInv, FramingTypeOK
<1>6. Control' /\ Fresh'
  BY <1>2, Zenon DEF FramingInv, Control, Fresh
<1>7. conn \in Conns
  BY <1>2 DEF FramingInv, Control
<1>8. \A k \in Conns \ {conn} : ToServe(k)' = ToServe(k)
  BY <1>2, Zenon DEF ToServe, Unsent
<1>9. OneByteLines(ToServe(conn)') /\ (conn \in up => EndsLine(ToServe(conn)'))
  <2>1. OneByteLines(ToServe(conn)) /\ (conn \in up => EndsLine(ToServe(conn)))
    BY <1>7 DEF FramingInv, Served
  <2>2. /\ requestBuffer[conn] \in Seq(Byte) /\ toServer[conn] \in Seq(Byte)
        /\ toServer[conn] \o Unsent(conn) \in Seq(Byte)
    BY <1>7, Buffers DEF FramingInv
  <2>3. CASE conn \in up
    <3> DEFINE s == ToServe(conn)
    <3>1. s = requestBuffer[conn] \o toServer[conn]
      <4>1. Unsent(conn) = <<>>
        BY <1>2 DEF Unsent
      <4>2. toServer[conn] \o <<>> = toServer[conn]
        BY <2>2, ConcatEmptySeq
      <4> QED
        BY <4>1, <4>2 DEF ToServe
    <3>2. s \in Seq(Byte)
      BY <2>2, <3>1, ConcatProperties
    <3>3. ToServe(conn)' = requestBuffer[conn] \o (toServer[conn] \o sending')
      BY <1>2, <2>3 DEF ToServe, Unsent
    <3>4. ToServe(conn)' = s \o sending'
      <4>1. (requestBuffer[conn] \o toServer[conn]) \o sending'
               = requestBuffer[conn] \o (toServer[conn] \o sending')
        BY <1>4, <2>2, Regrouped
      <4> HIDE DEF s
      <4> QED
        BY <3>1, <3>3, <4>1
    <3>5. OneByteLines(s) /\ EndsLine(s)
      BY <2>1, <2>3
    <3> HIDE DEF s
    <3>6. OneByteLines(s \o sending') /\ EndsLine(s \o sending')
      BY <1>4, <3>2, <3>5, JoinedShort, JoinedEnds
    <3> QED
      BY <3>4, <3>6
  <2>4. CASE conn \notin up
    <3>1. ToServe(conn)' = ToServe(conn)
      BY <1>2, <2>4, Zenon DEF ToServe, Unsent
    <3> QED
      BY <2>1, <2>4, <3>1
  <2> QED
    BY <2>3, <2>4
<1>10. Served'
  BY <1>2, <1>7, <1>8, <1>9, ServedOne DEF FramingInv
<1>11. Delivering'
  BY <1>2, DeliveringSame DEF FramingInv, ToDeliver
<1> QED
  BY <1>5, <1>6, <1>10, <1>11 DEF FramingInv

LEMMA SendSomeKeeps ==
    ASSUME FramingInv, SendSome
    PROVE  FramingInv'
<1>1. PICK n \in 1 .. Len(sending) :
         /\ toServer' = [toServer EXCEPT ![conn] = @ \o SubSeq(sending, 1, n)]
         /\ sending' = SubSeq(sending, n + 1, Len(sending))
  BY DEF SendSome
<1>2. /\ sending # <<>> /\ conn \in up
      /\ UNCHANGED <<conn, open, running, reader, asked, readBuffer, delivered>>
      /\ UNCHANGED <<up, toDesk, server, requestBuffer>>
  BY DEF SendSome, daemon
<1>3. conn \in Conns /\ open
  BY <1>2 DEF FramingInv, FramingTypeOK, Control
<1>4. toServer[conn] \in Seq(Byte) /\ sending \in Seq(Byte)
  BY <1>3, Buffers DEF FramingInv
<1>5. /\ toServer[conn] \o SubSeq(sending, 1, n) \in Seq(Byte)
      /\ SubSeq(sending, n + 1, Len(sending)) \in Seq(Byte)
      /\ (toServer[conn] \o SubSeq(sending, 1, n))
            \o SubSeq(sending, n + 1, Len(sending)) = toServer[conn] \o sending
  BY <1>4, ChunkMoves
<1>6. /\ toServer' \in [Conns -> Seq(Byte)] /\ sending' \in Seq(Byte)
      /\ toServer'[conn] \o sending' = toServer[conn] \o sending
      /\ \A k \in Conns \ {conn} : toServer'[k] = toServer[k]
  BY <1>1, <1>3, <1>5 DEF FramingInv, FramingTypeOK
<1>7. FramingTypeOK'
  BY <1>2, <1>6 DEF FramingInv, FramingTypeOK
<1>8. Control'
  BY <1>2, <1>3 DEF FramingInv, Control
<1>9. Fresh'
  <2>1. \A k \in Conns : k > conn => k # conn
    BY <1>3 DEF Conns
  <2> QED
    BY <1>2, <1>6, <2>1, Zenon DEF FramingInv, Fresh
<1>10. ASSUME NEW k \in Conns
       PROVE  ToServe(k)' = ToServe(k)
  <2>1. toServer'[k] \o Unsent(k)' = toServer[k] \o Unsent(k)
    <3>1. CASE k = conn
      <4>1. Unsent(k) = sending /\ Unsent(k)' = sending'
        BY <1>2, <3>1 DEF Unsent
      <4> QED
        BY <1>6, <3>1, <4>1
    <3>2. CASE k # conn
      BY <1>2, <1>6, <3>2 DEF Unsent
    <3> QED
      BY <3>1, <3>2
  <2> QED
    BY <1>2, <2>1 DEF ToServe
<1>11. Served'
  BY <1>2, <1>10, ServedSame DEF FramingInv
<1>12. Delivering'
  BY <1>2, DeliveringSame DEF FramingInv, ToDeliver
<1> QED
  BY <1>7, <1>8, <1>9, <1>11, <1>12 DEF FramingInv

LEMMA SendFailsKeeps ==
    ASSUME FramingInv, SendFails
    PROVE  FramingInv'
<1>1. /\ conn \notin up /\ sending' = <<>>
      /\ UNCHANGED <<conn, open, running, reader, asked, readBuffer, delivered>>
      /\ UNCHANGED <<up, toServer, toDesk, server, requestBuffer>>
  BY DEF SendFails, wire, daemon
<1>2. FramingTypeOK'
  BY <1>1, EmptyBytes DEF FramingInv, FramingTypeOK
<1>3. Control' /\ Fresh'
  BY <1>1, Zenon DEF FramingInv, Control, Fresh
<1>4. \A k \in Conns : ToServe(k)' = ToServe(k)
  BY <1>1, Zenon DEF ToServe, Unsent
<1>5. Served'
  BY <1>1, <1>4, ServedSame DEF FramingInv
<1>6. Delivering'
  BY <1>1, DeliveringSame DEF FramingInv, ToDeliver
<1> QED
  BY <1>2, <1>3, <1>5, <1>6 DEF FramingInv

-----------------------------------------------------------------------------
(* The read thread.                                                        *)

LEMMA ReaderTestKeeps ==
    ASSUME FramingInv, ReaderTest
    PROVE  FramingInv'
<1>1. /\ reader = "test" /\ reader' \in {"receive", "ended"}
      /\ UNCHANGED <<conn, open, running, asked, sending, readBuffer, delivered, up>>
      /\ UNCHANGED <<toServer, toDesk, server, requestBuffer>>
  BY DEF ReaderTest, wire, daemon
<1>2. FramingTypeOK'
  BY <1>1 DEF FramingInv, FramingTypeOK
<1>3. Control'
  BY <1>1 DEF FramingInv, Control
<1>4. Fresh'
  BY <1>1, Zenon DEF FramingInv, Fresh
<1>5. \A k \in Conns : ToServe(k)' = ToServe(k)
  BY <1>1, Zenon DEF ToServe, Unsent
<1>6. Served'
  BY <1>1, <1>5, ServedSame DEF FramingInv
<1>7. Delivering'
  BY <1>1, DeliveringSame DEF FramingInv, ToDeliver
<1> QED
  BY <1>2, <1>3, <1>4, <1>6, <1>7 DEF FramingInv

(* What the read thread finds at the head of its buffer is an answer: it   *)
(* never takes an empty line for the end of the connection.                *)
LEMMA TakesAnswer ==
    ASSUME FramingInv, TakeLine
    PROVE  /\ FirstLine(readBuffer) \in {<<n>> : n \in Requests}
           /\ FirstLine(readBuffer) # <<>>
<1>1. open /\ HasLine(readBuffer) /\ conn \in Conns
  BY DEF TakeLine, FramingInv, Control
<1>2. readBuffer \in Seq(Byte) /\ toDesk[conn] \in Seq(Byte)
  BY <1>1, Buffers DEF FramingInv
<1>3. AnswerBytes(readBuffer \o toDesk[conn])
  BY <1>1 DEF FramingInv, Delivering, ToDeliver
<1>4. FirstLine(readBuffer) \in {<<n>> : n \in Requests}
  BY <1>1, <1>2, <1>3, FirstAnswer
<1> QED
  BY <1>4

LEMMA TakeLineKeeps ==
    ASSUME FramingInv, TakeLine
    PROVE  FramingInv'
<1>1. PICK answer : answer = FirstLine(readBuffer)
  OBVIOUS
<1>2. answer \in {<<n>> : n \in Requests} /\ answer # <<>>
  BY <1>1, TakesAnswer
<1>3. /\ reader = "receive" /\ reader' = "test" /\ UNCHANGED running
      /\ readBuffer' = AfterLine(readBuffer)
      /\ delivered' = Append(delivered, <<conn, answer>>)
      /\ UNCHANGED <<conn, open, asked, sending, up>>
      /\ UNCHANGED <<toServer, toDesk, server, requestBuffer>>
  BY <1>1, <1>2 DEF TakeLine, Return, wire, daemon
<1>4. /\ open /\ HasLine(readBuffer) /\ conn \in Conns
      /\ readBuffer \in Seq(Byte) /\ toDesk[conn] \in Seq(Byte)
  BY <1>3, Buffers DEF TakeLine, FramingInv, Control
<1>5. /\ AfterLine(readBuffer) \in Seq(Byte)
      /\ \E p \in 1 .. Len(readBuffer) :
            /\ readBuffer[p] = Newline
            /\ Dropped(readBuffer \o toDesk[conn], p,
                       AfterLine(readBuffer) \o toDesk[conn])
  BY <1>4, AfterLineDrops
<1>6. FramingTypeOK'
  <2>1. delivered' \in Seq(Conns \X {<<n>> : n \in Requests})
    <3>1. <<conn, answer>> \in Conns \X {<<n>> : n \in Requests}
      BY <1>2, <1>4
    <3>2. delivered \in Seq(Conns \X {<<n>> : n \in Requests})
      BY DEF FramingInv, FramingTypeOK
    <3> QED
      BY <1>3, <3>1, <3>2, AppendProperties
  <2> QED
    BY <1>3, <1>5, <2>1 DEF FramingInv, FramingTypeOK
<1>7. Control'
  BY <1>3, <1>4 DEF FramingInv, Control
<1>8. Fresh'
  BY <1>3, Zenon DEF FramingInv, Fresh
<1>9. \A k \in Conns : ToServe(k)' = ToServe(k)
  BY <1>3, Zenon DEF ToServe, Unsent
<1>10. Served'
  BY <1>3, <1>9, ServedSame DEF FramingInv
<1>11. Delivering'
  <2> DEFINE s == readBuffer \o toDesk[conn]
             t == AfterLine(readBuffer) \o toDesk[conn]
  <2>1. AnswerBytes(s)
    BY <1>4 DEF FramingInv, Delivering, ToDeliver
  <2>2. s \in Seq(Byte) /\ t \in Seq(Byte)
    BY <1>4, <1>5, ConcatProperties
  <2>3. PICK p \in 1 .. Len(readBuffer) : readBuffer[p] = Newline /\ Dropped(s, p, t)
    BY <1>5
  <2>4. s[p] = Newline
    <3>1. /\ Len(readBuffer) \in Nat /\ Len(toDesk[conn]) \in Nat
          /\ \A i \in 1 .. Len(readBuffer) + Len(toDesk[conn]) :
                s[i] = IF i <= Len(readBuffer) THEN readBuffer[i]
                       ELSE toDesk[conn][i - Len(readBuffer)]
      BY <1>4, LenProperties, ConcatProperties
    <3>2. p \in 1 .. Len(readBuffer) + Len(toDesk[conn]) /\ p <= Len(readBuffer)
      BY <3>1
    <3> QED
      BY <2>3, <3>1, <3>2
  <2>5. ToDeliver' = t
    BY <1>3 DEF ToDeliver
  <2> HIDE DEF s, t
  <2>6. AnswerBytes(t)
    BY <2>1, <2>2, <2>3, <2>4, DroppedAnswers
  <2> QED
    BY <2>5, <2>6 DEF Delivering, AnswerBytes, OneByteLines, EndsLine
<1> QED
  BY <1>6, <1>7, <1>8, <1>10, <1>11 DEF FramingInv

LEMMA ReceiveChunkKeeps ==
    ASSUME FramingInv, ReceiveChunk
    PROVE  FramingInv'
<1>1. PICK n \in 1 .. Len(toDesk[conn]) :
         /\ readBuffer' = readBuffer \o SubSeq(toDesk[conn], 1, n)
         /\ toDesk' = [toDesk EXCEPT ![conn] = SubSeq(@, n + 1, Len(@))]
  BY DEF ReceiveChunk
<1>2. /\ reader = "receive"
      /\ UNCHANGED <<conn, open, running, reader, asked, sending, delivered, up>>
      /\ UNCHANGED <<toServer, server, requestBuffer>>
  BY DEF ReceiveChunk, daemon
<1>3. /\ open /\ conn \in Conns
      /\ readBuffer \in Seq(Byte) /\ toDesk[conn] \in Seq(Byte)
  BY <1>2, Buffers DEF FramingInv, Control
<1>4. /\ readBuffer \o SubSeq(toDesk[conn], 1, n) \in Seq(Byte)
      /\ SubSeq(toDesk[conn], n + 1, Len(toDesk[conn])) \in Seq(Byte)
      /\ (readBuffer \o SubSeq(toDesk[conn], 1, n))
            \o SubSeq(toDesk[conn], n + 1, Len(toDesk[conn]))
         = readBuffer \o toDesk[conn]
  BY <1>3, ChunkMoves
<1>5. /\ readBuffer' \in Seq(Byte) /\ toDesk' \in [Conns -> Seq(Byte)]
      /\ readBuffer' \o toDesk'[conn] = readBuffer \o toDesk[conn]
      /\ \A k \in Conns \ {conn} : toDesk'[k] = toDesk[k]
  BY <1>1, <1>3, <1>4 DEF FramingInv, FramingTypeOK
<1>6. FramingTypeOK'
  BY <1>2, <1>5 DEF FramingInv, FramingTypeOK
<1>7. Control'
  BY <1>2, <1>3 DEF FramingInv, Control
<1>8. Fresh'
  <2>1. \A k \in Conns : k > conn => k # conn
    BY <1>3 DEF Conns
  <2> QED
    BY <1>2, <1>5, <2>1, Zenon DEF FramingInv, Fresh
<1>9. \A k \in Conns : ToServe(k)' = ToServe(k)
  BY <1>2, Zenon DEF ToServe, Unsent
<1>10. Served'
  BY <1>2, <1>9, ServedSame DEF FramingInv
<1>11. Delivering'
  BY <1>2, <1>5, DeliveringSame DEF FramingInv, ToDeliver
<1> QED
  BY <1>6, <1>7, <1>8, <1>10, <1>11 DEF FramingInv

LEMMA ReceiveEndKeeps ==
    ASSUME FramingInv, ReceiveEnd
    PROVE  FramingInv'
<1>1. /\ reader = "receive" /\ reader' = "ended" /\ running' = FALSE
      /\ UNCHANGED <<conn, open, asked, sending, readBuffer, delivered, up>>
      /\ UNCHANGED <<toServer, toDesk, server, requestBuffer>>
  BY DEF ReceiveEnd, Return, wire, daemon
<1>2. FramingTypeOK'
  <2>1. running' \in BOOLEAN
    BY <1>1
  <2> QED
    BY <1>1, <2>1 DEF FramingInv, FramingTypeOK
<1>3. Control'
  BY <1>1 DEF FramingInv, Control
<1>4. Fresh'
  BY <1>1, Zenon DEF FramingInv, Fresh
<1>5. \A k \in Conns : ToServe(k)' = ToServe(k)
  BY <1>1, Zenon DEF ToServe, Unsent
<1>6. Served'
  BY <1>1, <1>5, ServedSame DEF FramingInv
<1>7. Delivering'
  BY <1>1, DeliveringSame DEF FramingInv, ToDeliver
<1> QED
  BY <1>2, <1>3, <1>4, <1>6, <1>7 DEF FramingInv

-----------------------------------------------------------------------------
(* The daemon's threads and the network.                                   *)

LEMMA ServerChunkKeeps ==
    ASSUME FramingInv, NEW k \in Conns, ServerChunk(k)
    PROVE  FramingInv'
<1>1. PICK n \in 1 .. Len(toServer[k]) :
         /\ requestBuffer' =
               [requestBuffer EXCEPT ![k] = @ \o SubSeq(toServer[k], 1, n)]
         /\ toServer' = [toServer EXCEPT ![k] = SubSeq(@, n + 1, Len(@))]
  BY DEF ServerChunk
<1>2. /\ server[k] = "read"
      /\ UNCHANGED <<conn, open, running, reader, asked, sending, readBuffer>>
      /\ UNCHANGED <<delivered, up, toDesk, server>>
  BY DEF ServerChunk, desk
<1>3. /\ requestBuffer[k] \in Seq(Byte) /\ toServer[k] \in Seq(Byte)
      /\ Unsent(k) \in Seq(Byte)
  BY Buffers DEF FramingInv
<1> DEFINE x == requestBuffer[k] \o SubSeq(toServer[k], 1, n)
           y == SubSeq(toServer[k], n + 1, Len(toServer[k]))
<1>4. /\ x \in Seq(Byte) /\ y \in Seq(Byte)
      /\ x \o y = requestBuffer[k] \o toServer[k]
  BY <1>3, ChunkMoves
<1>5. /\ requestBuffer' = [requestBuffer EXCEPT ![k] = x]
      /\ toServer' = [toServer EXCEPT ![k] = y]
      /\ requestBuffer \in [Conns -> Seq(Byte)] /\ toServer \in [Conns -> Seq(Byte)]
  BY <1>1 DEF FramingInv, FramingTypeOK
<1> HIDE DEF x, y
<1>6. /\ requestBuffer' \in [Conns -> Seq(Byte)] /\ toServer' \in [Conns -> Seq(Byte)]
      /\ requestBuffer'[k] = x /\ toServer'[k] = y
      /\ \A j \in Conns \ {k} :
            requestBuffer'[j] = requestBuffer[j] /\ toServer'[j] = toServer[j]
  BY <1>4, <1>5
<1>7. FramingTypeOK'
  BY <1>2, <1>6 DEF FramingInv, FramingTypeOK
<1>8. Control'
  BY <1>2, Zenon DEF FramingInv, Control
<1>9. Fresh'
  <2>1. ~(k > conn)
    BY <1>2 DEF FramingInv, Fresh
  <2> QED
    BY <1>2, <1>6, <2>1, Zenon DEF FramingInv, Fresh
<1>10. ASSUME NEW j \in Conns
       PROVE  ToServe(j)' = ToServe(j)
  <2>1. Unsent(j)' = Unsent(j)
    BY <1>2 DEF Unsent
  <2>2. CASE j = k
    <3>1. (x \o y) \o Unsent(k) = x \o (y \o Unsent(k))
      BY <1>3, <1>4, Regrouped, Zenon
    <3>2. (requestBuffer[k] \o toServer[k]) \o Unsent(k)
             = requestBuffer[k] \o (toServer[k] \o Unsent(k))
      BY <1>3, Regrouped, Zenon
    <3>3. x \o (y \o Unsent(k)) = requestBuffer[k] \o (toServer[k] \o Unsent(k))
      BY <1>4, <3>1, <3>2
    <3>4. ToServe(k)' = x \o (y \o Unsent(k))
      BY <1>6, <2>1, <2>2 DEF ToServe
    <3> QED
      BY <2>2, <3>3, <3>4 DEF ToServe
  <2>3. CASE j # k
    BY <1>6, <2>1, <2>3 DEF ToServe
  <2> QED
    BY <2>2, <2>3
<1>11. Served'
  BY <1>2, <1>10, ServedSame DEF FramingInv
<1>12. Delivering'
  BY <1>2, DeliveringSame DEF FramingInv, ToDeliver
<1> QED
  BY <1>7, <1>8, <1>9, <1>11, <1>12 DEF FramingInv

(* A request's answer, or nothing for a blank line. *)
LEMMA ServedLine ==
    ASSUME FramingInv, NEW k \in Conns, HasLine(requestBuffer[k])
    PROVE  \/ Blank(FirstLine(requestBuffer[k]))
           \/ \E n \in Requests : FirstLine(requestBuffer[k]) = <<n>>
<1> DEFINE b == requestBuffer[k]
<1>1. b \in Seq(Byte) /\ toServer[k] \o Unsent(k) \in Seq(Byte)
  BY Buffers DEF FramingInv
<1>2. OneByteLines(b \o (toServer[k] \o Unsent(k)))
  BY DEF FramingInv, Served, ToServe
<1> HIDE DEF b
<1>3. OneByteLines(b)
  BY <1>1, <1>2, BeginningShort
<1>4. HasLine(b)
  BY DEF b
<1>5. FirstLine(b) = <<>> \/ (FirstLine(b) = <<b[1]>> /\ b[1] # Newline /\ b[1] \in Byte)
  BY <1>1, <1>3, <1>4, FirstLineShort
<1>6. CASE FirstLine(b) = <<>>
  BY <1>6 DEF Blank, b
<1>7. CASE FirstLine(b) = <<b[1]>> /\ b[1] # Newline /\ b[1] \in Byte
  <2>1. b[1] = CR \/ b[1] \in Requests
    BY <1>7, ByteKinds
  <2> QED
    BY <1>7, <2>1 DEF Blank, b
<1> QED
  BY <1>5, <1>6, <1>7

LEMMA ServeLineKeeps ==
    ASSUME FramingInv, NEW k \in Conns, ServeLine(k)
    PROVE  FramingInv'
<1>1. PICK taken : taken = FirstLine(requestBuffer[k])
  OBVIOUS
<1>2. /\ server[k] = "read" /\ HasLine(requestBuffer[k])
      /\ toDesk' = IF Blank(taken) \/ k \notin up THEN toDesk
                   ELSE [toDesk EXCEPT ![k] = @ \o taken \o <<Newline>>]
      /\ requestBuffer' = [requestBuffer EXCEPT ![k] = AfterLine(@)]
      /\ UNCHANGED <<conn, open, running, reader, asked, sending, readBuffer>>
      /\ UNCHANGED <<delivered, up, toServer, server>>
  BY <1>1 DEF ServeLine, desk
<1>3. /\ requestBuffer[k] \in Seq(Byte) /\ toServer[k] \o Unsent(k) \in Seq(Byte)
      /\ toDesk[k] \in Seq(Byte)
      /\ requestBuffer \in [Conns -> Seq(Byte)] /\ toDesk \in [Conns -> Seq(Byte)]
  BY Buffers DEF FramingInv, FramingTypeOK
<1> DEFINE rest == toServer[k] \o Unsent(k)
           a == AfterLine(requestBuffer[k])
           s == requestBuffer[k] \o rest
           t == a \o rest
<1>4. a \in Seq(Byte) /\ \E p : Dropped(s, p, t)
  BY <1>2, <1>3, AfterLineDrops
<1>5. s \in Seq(Byte) /\ t \in Seq(Byte)
  BY <1>3, <1>4, ConcatProperties
<1>6. /\ requestBuffer' \in [Conns -> Seq(Byte)] /\ requestBuffer'[k] = a
      /\ \A j \in Conns \ {k} : requestBuffer'[j] = requestBuffer[j]
  BY <1>2, <1>3, <1>4
<1>7. \A j \in Conns : Unsent(j)' = Unsent(j)
  BY <1>2 DEF Unsent
<1>8. ToServe(k) = s /\ ToServe(k)' = t
  BY <1>2, <1>6, <1>7 DEF ToServe
<1> HIDE DEF s, t, a, rest
<1>9. OneByteLines(ToServe(k)') /\ (k = conn /\ k \in up => EndsLine(ToServe(k)'))
  <2>1. OneByteLines(s) /\ (k = conn /\ k \in up => EndsLine(s))
    BY <1>8 DEF FramingInv, Served
  <2>2. OneByteLines(t) /\ (k = conn /\ k \in up => EndsLine(t))
    BY <1>4, <1>5, <2>1, DroppedShort
  <2> QED
    BY <1>8, <2>2
<1>10. Served'
  <2>1. \A j \in Conns \ {k} : ToServe(j)' = ToServe(j)
    BY <1>2, <1>6, <1>7, Zenon DEF ToServe
  <2> QED
    BY <1>2, <1>9, <2>1, ServedOne DEF FramingInv
<1>11. \/ UNCHANGED toDesk
       \/ \E n \in Requests :
             toDesk' = [toDesk EXCEPT ![k] = toDesk[k] \o <<n, Newline>>]
  <2>1. CASE Blank(taken) \/ k \notin up
    BY <1>2, <2>1
  <2>2. CASE ~Blank(taken) /\ k \in up
    <3>1. PICK n \in Requests : taken = <<n>>
      BY <1>1, <1>2, <2>2, ServedLine
    <3>2. toDesk' = [toDesk EXCEPT ![k] = (toDesk[k] \o <<n>>) \o <<Newline>>]
      BY <1>2, <2>2, <3>1
    <3>3. <<n>> \in Seq(Byte) /\ <<Newline>> \in Seq(Byte)
      BY ByteKinds
    <3>4. (toDesk[k] \o <<n>>) \o <<Newline>> = toDesk[k] \o (<<n>> \o <<Newline>>)
      BY <1>3, <3>3, Regrouped, Zenon
    <3>5. <<n>> \o <<Newline>> = <<n, Newline>>
      BY AnswerMessage
    <3> QED
      BY <3>2, <3>4, <3>5
  <2> QED
    BY <2>1, <2>2
<1>12. /\ toDesk' \in [Conns -> Seq(Byte)]
       /\ \A j \in Conns \ {k} : toDesk'[j] = toDesk[j]
       /\ \/ toDesk'[k] = toDesk[k]
          \/ \E n \in Requests : toDesk'[k] = toDesk[k] \o <<n, Newline>>
  <2>1. CASE UNCHANGED toDesk
    BY <1>3, <2>1
  <2>2. ASSUME NEW n \in Requests,
               toDesk' = [toDesk EXCEPT ![k] = toDesk[k] \o <<n, Newline>>]
        PROVE  <1>12!1 /\ <1>12!2 /\ toDesk'[k] = toDesk[k] \o <<n, Newline>>
    <3>1. toDesk[k] \o <<n, Newline>> \in Seq(Byte)
      <4>1. <<n, Newline>> \in Seq(Byte)
        BY ByteKinds
      <4> QED
        BY <1>3, <4>1, ConcatProperties
    <3> QED
      BY <1>3, <2>2, <3>1
  <2> QED
    BY <1>11, <2>1, <2>2
<1>13. FramingTypeOK'
  BY <1>2, <1>6, <1>12 DEF FramingInv, FramingTypeOK
<1>14. Control'
  BY <1>2, Zenon DEF FramingInv, Control
<1>15. Fresh'
  <2>1. ~(k > conn)
    BY <1>2 DEF FramingInv, Fresh
  <2> QED
    BY <1>2, <1>6, <1>12, <2>1, Zenon DEF FramingInv, Fresh
<1>16. Delivering'
  <2>1. CASE ~open
    BY <1>2, <2>1 DEF Delivering
  <2>2. CASE open
    <3>1. conn \in Conns /\ AnswerBytes(readBuffer \o toDesk[conn])
      BY <2>2 DEF FramingInv, Control, Delivering, ToDeliver
    <3>2. readBuffer \in Seq(Byte) /\ toDesk[conn] \in Seq(Byte)
      BY <3>1, Buffers DEF FramingInv
    <3>3. ToDeliver' = readBuffer \o toDesk'[conn]
      BY <1>2 DEF ToDeliver
    <3>4. CASE toDesk'[conn] = toDesk[conn]
      <4>1. ToDeliver' = ToDeliver
        BY <3>3, <3>4 DEF ToDeliver
      <4> QED
        BY <1>2, <4>1, DeliveringSame DEF FramingInv
    <3>5. ASSUME NEW n \in Requests,
                 toDesk'[conn] = toDesk[conn] \o <<n, Newline>>
          PROVE  Delivering'
      <4>1. <<n, Newline>> \in Seq(Byte)
        BY ByteKinds
      <4>2. (readBuffer \o toDesk[conn]) \o <<n, Newline>>
               = readBuffer \o (toDesk[conn] \o <<n, Newline>>)
        BY <3>2, <4>1, Regrouped
      <4>3. readBuffer \o toDesk[conn] \in Seq(Byte)
        BY <3>2, ConcatProperties
      <4>4. AnswerBytes((readBuffer \o toDesk[conn]) \o <<n, Newline>>)
        BY <3>1, <4>3, AnswerJoined
      <4>5. AnswerBytes(ToDeliver')
        BY <3>3, <3>5, <4>2, <4>4
      <4> QED
        BY <4>5 DEF Delivering, AnswerBytes, OneByteLines, EndsLine
    <3> QED
      BY <1>12, <3>1, <3>4, <3>5
  <2> QED
    BY <2>1, <2>2
<1> QED
  BY <1>10, <1>13, <1>14, <1>15, <1>16 DEF FramingInv

LEMMA ServerEndKeeps ==
    ASSUME FramingInv, NEW k \in Conns, ServerEnd(k)
    PROVE  FramingInv'
<1>1. /\ server[k] = "read" /\ k \notin up
      /\ server' = [server EXCEPT ![k] = "ended"]
      /\ requestBuffer' = [requestBuffer EXCEPT ![k] = <<>>]
      /\ toServer' = [toServer EXCEPT ![k] = <<>>]
      /\ UNCHANGED <<conn, open, running, reader, asked, sending, readBuffer>>
      /\ UNCHANGED <<delivered, up, toDesk>>
  BY DEF ServerEnd, desk
<1>2. /\ requestBuffer' \in [Conns -> Seq(Byte)] /\ toServer' \in [Conns -> Seq(Byte)]
      /\ server' \in [Conns -> {"none", "read", "ended"}]
      /\ requestBuffer'[k] = <<>> /\ toServer'[k] = <<>>
      /\ \A j \in Conns \ {k} :
            /\ requestBuffer'[j] = requestBuffer[j] /\ toServer'[j] = toServer[j]
            /\ server'[j] = server[j]
  BY <1>1, EmptyBytes DEF FramingInv, FramingTypeOK
<1>3. FramingTypeOK'
  BY <1>1, <1>2 DEF FramingInv, FramingTypeOK
<1>4. Control'
  BY <1>1, Zenon DEF FramingInv, Control
<1>5. Fresh'
  <2>1. ~(k > conn)
    BY <1>1 DEF FramingInv, Fresh
  <2> QED
    BY <1>1, <1>2, <2>1, Zenon DEF FramingInv, Fresh
<1>6. Served'
  <2>1. \A j \in Conns \ {k} : ToServe(j)' = ToServe(j)
    BY <1>1, <1>2, Zenon DEF ToServe, Unsent
  <2>2. ToServe(k)' = <<>>
    <3>1. Unsent(k)' = <<>>
      BY <1>1 DEF Unsent
    <3> QED
      BY <1>2, <3>1, EmptyBytes DEF ToServe
  <2>3. OneByteLines(ToServe(k)') /\ EndsLine(ToServe(k)')
    BY <2>2, EmptyBytes
  <2> QED
    BY <1>1, <2>1, <2>3, ServedOne DEF FramingInv
<1>7. Delivering'
  BY <1>1, DeliveringSame DEF FramingInv, ToDeliver
<1> QED
  BY <1>3, <1>4, <1>5, <1>6, <1>7 DEF FramingInv

LEMMA BreakDownKeeps ==
    ASSUME FramingInv, NEW k \in Conns, BreakDown(k)
    PROVE  FramingInv'
<1>1. /\ up' = up \ {k}
      /\ UNCHANGED <<conn, open, running, reader, asked, sending, readBuffer>>
      /\ UNCHANGED <<delivered, toServer, toDesk, server, requestBuffer>>
  BY DEF BreakDown, desk, wire, daemon
<1>2. FramingTypeOK'
  <2>1. up' \subseteq Conns
    BY <1>1 DEF FramingInv, FramingTypeOK
  <2> QED
    BY <1>1, <2>1 DEF FramingInv, FramingTypeOK
<1>3. Control' /\ Fresh'
  BY <1>1, Zenon DEF FramingInv, Control, Fresh
<1>4. Served'
  <2>1. ASSUME NEW j \in Conns
        PROVE  /\ OneByteLines(ToServe(j)')
               /\ j = conn' /\ j \in up' => EndsLine(ToServe(j)')
    <3>1. /\ OneByteLines(ToServe(j))
          /\ j = conn /\ j \in up => EndsLine(ToServe(j))
      BY DEF FramingInv, Served
    <3>2. CASE j # k
      <4>1. ToServe(j)' = ToServe(j)
        BY <1>1, <3>2, Zenon DEF ToServe, Unsent
      <4> QED
        BY <1>1, <3>1, <4>1
    <3>3. CASE j = k
      <4>1. /\ requestBuffer[k] \in Seq(Byte) /\ toServer[k] \in Seq(Byte)
            /\ Unsent(k) \in Seq(Byte)
        BY Buffers DEF FramingInv
      <4>2. ToServe(k)' = requestBuffer[k] \o toServer[k]
        <5>1. Unsent(k)' = <<>>
          BY <1>1 DEF Unsent
        <5>2. toServer[k] \o <<>> = toServer[k]
          BY <4>1, ConcatEmptySeq
        <5> QED
          BY <1>1, <5>1, <5>2 DEF ToServe
      <4>3. requestBuffer[k] \o toServer[k] \in Seq(Byte)
        BY <4>1, ConcatProperties
      <4>4. ToServe(k) = (requestBuffer[k] \o toServer[k]) \o Unsent(k)
        BY <4>1, Regrouped, Zenon DEF ToServe
      <4>5. OneByteLines(requestBuffer[k] \o toServer[k])
        BY <3>1, <3>3, <4>1, <4>3, <4>4, BeginningShort
      <4> QED
        BY <1>1, <3>3, <4>2, <4>5
    <3> QED
      BY <3>2, <3>3
  <2> QED
    BY <2>1 DEF Served, OneByteLines, EndsLine
<1>5. Delivering'
  BY <1>1, DeliveringSame DEF FramingInv, ToDeliver
<1> QED
  BY <1>2, <1>3, <1>4, <1>5 DEF FramingInv

-----------------------------------------------------------------------------
(* Streams are cut into lines the same way on both sides of every step.    *)
THEOREM FramingInductive == Spec => []FramingInv
<1>1. Init => FramingInv
  <2> SUFFICES ASSUME Init
               PROVE  FramingInv
    OBVIOUS
  <2>1. /\ conn \in 0 .. MaxConns /\ asked \in 0 .. MaxRequests
        /\ \A k \in Conns : k # conn
    BY FramingAssumption DEF Init, Conns
  <2>2. FramingTypeOK
    <3>1. <<>> \in Seq(Conns \X {<<n>> : n \in Requests})
      BY EmptySeq
    <3> QED
      BY <2>1, <3>1, EmptyBytes DEF Init, FramingTypeOK
  <2>3. Control /\ Fresh /\ Delivering
    BY DEF Init, Control, Fresh, Delivering
  <2>4. \A k \in Conns : ToServe(k) = <<>>
    BY <2>1, EmptyBytes DEF Init, ToServe, Unsent
  <2>5. Served
    BY <2>4, EmptyBytes, Zenon DEF Served
  <2> QED
    BY <2>2, <2>3, <2>5 DEF FramingInv
<1>2. FramingInv /\ [Next]_vars => FramingInv'
  <2> SUFFICES ASSUME FramingInv, [Next]_vars
               PROVE  FramingInv'
    OBVIOUS
  <2>1. CASE UiNext
    BY <2>1, ConnectKeeps, DisconnectKeeps, CloseKeeps, AskKeeps,
       SendSomeKeeps, SendFailsKeeps DEF UiNext
  <2>2. CASE ReaderNext
    BY <2>2, ReaderTestKeeps, TakeLineKeeps, ReceiveChunkKeeps,
       ReceiveEndKeeps DEF ReaderNext
  <2>3. ASSUME NEW k \in Conns, ServerNext(k)
        PROVE  FramingInv'
    BY <2>3, ServerChunkKeeps, ServeLineKeeps, ServerEndKeeps DEF ServerNext
  <2>4. CASE UNCHANGED vars
    <3>1. /\ UNCHANGED <<conn, open, running, reader, asked, sending, readBuffer>>
          /\ UNCHANGED <<delivered, up, toServer, toDesk, server, requestBuffer>>
      BY <2>4 DEF vars, desk, wire, daemon
    <3>2. FramingTypeOK'
      BY <3>1 DEF FramingInv, FramingTypeOK
    <3>3. Control' /\ Fresh'
      BY <3>1, Zenon DEF FramingInv, Control, Fresh
    <3>4. \A k \in Conns : ToServe(k)' = ToServe(k)
      BY <3>1, Zenon DEF ToServe, Unsent
    <3>5. Served'
      BY <3>1, <3>4, ServedSame DEF FramingInv
    <3>6. Delivering'
      BY <3>1, DeliveringSame DEF FramingInv, ToDeliver
    <3> QED
      BY <3>2, <3>3, <3>5, <3>6 DEF FramingInv
  <2> QED
    BY <2>1, <2>2, <2>3, <2>4, BreakDownKeeps DEF Next
<1> QED
  BY <1>1, <1>2, PTL DEF Spec

(* Whatever the chunks, processResponse is given one whole answer at a     *)
(* time, and buffers hold bytes of the protocol only.                      *)
THEOREM WholeLines == Spec => []FramingTypeOK
<1>1. FramingInv => FramingTypeOK
  BY DEF FramingInv
<1> QED
  BY <1>1, FramingInductive, PTL

(* The read thread gives a connection up only when it is broken: the empty *)
(* line that also stands for the end is never among the answers.           *)
THEOREM EmptyLineIsEnd == Spec => EmptyMeansEnd
<1>1. FramingInv /\ [Next]_vars =>
        [reader = "receive" /\ reader' = "ended" => conn \notin up]_vars
  <2> SUFFICES ASSUME FramingInv, Next, reader = "receive", reader' = "ended"
               PROVE  conn \notin up
    OBVIOUS
  <2>1. CASE UiNext
    BY <2>1 DEF UiNext, Connect, Disconnect, Close, Ask, SendSome, SendFails
  <2>2. CASE TakeLine
    <3>1. reader' = "test"
      BY <2>2, TakesAnswer DEF TakeLine, Return
    <3> QED
      BY <3>1
  <2>3. CASE ReaderTest \/ ReceiveChunk \/ ReceiveEnd
    BY <2>3 DEF ReaderTest, ReceiveChunk, ReceiveEnd
  <2>4. ASSUME NEW k \in Conns, ServerNext(k) \/ BreakDown(k)
        PROVE  conn \notin up
    BY <2>4 DEF ServerNext, ServerChunk, ServeLine, ServerEnd, BreakDown, desk
  <2> QED
    BY <2>1, <2>2, <2>3, <2>4 DEF Next, ReaderNext
<1> QED
  BY <1>1, FramingInductive, PTL DEF Spec, EmptyMeansEnd
=============================================================================
