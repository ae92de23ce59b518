-------------------------- MODULE FieldTextProofs --------------------------
(***************************************************************************)
(* Proofs about FieldText, for comments and names of tables of any length: *)
(* whatever breaks its lines, a comment of the database stays a comment.   *)
(***************************************************************************)
EXTENDS FieldText, DataLemmas

(* What a file is made of.                                                 *)
Token == {LF, " ", Slashes, "source: ", "escape sequence", "type", "field", "}"}
Given == UNION {Range(text) : text \in AnyTable \cup AnyComment}
Good  == (Given \cup Token) \ {NotUTF8}

Texts == Seq(Good)

(* A text that leaves no comment open, ...                                 *)
Ended(text) ==
  \A j \in 1..Len(text) : text[j] = Slashes => \E k \in j..Len(text) : text[k] = LF

(* ... and one in which all is comment.                                    *)
Covered(text) ==
  \A i \in 1..Len(text) : InComment(text, i) \/ text[i] \in White

Comment(text) == text \in Texts /\ Ended(text) /\ Covered(text)

LEMMA Tokens ==
  /\ Token \subseteq Good
  /\ NotUTF8 \notin Good
  /\ LF \notin {" ", Slashes, "source: ", "escape sequence", "type", "field", "}"}
  /\ Slashes \notin {LF, " ", "type", "field", "}"}
<1>1. NotUTF8 \notin Token
  BY DEF Token, NotUTF8, LF, Slashes
<1>2. LF \notin {" ", Slashes, "source: ", "escape sequence", "type", "field", "}"}
  BY DEF LF, Slashes
<1>3. Slashes \notin {LF, " ", "type", "field", "}"}
  BY DEF LF, Slashes
<1>4. Token \subseteq Good
  BY <1>1 DEF Good
<1>5. NotUTF8 \notin Good
  BY DEF Good
<1> QED
  BY <1>2, <1>3, <1>4, <1>5

(* Texts in a row.                                                         *)
LEMMA Joint ==
  ASSUME NEW a \in Texts, NEW b \in Texts
  PROVE  /\ a \o b \in Texts /\ Len(a) \in Nat /\ Len(b) \in Nat
         /\ Len(a \o b) = Len(a) + Len(b)
         /\ \A i \in 1..Len(a) : (a \o b)[i] = a[i]
         /\ \A i \in 1..Len(b) : (a \o b)[Len(a) + i] = b[i]
<1>1. /\ a \o b \in Seq(Good) /\ Len(a \o b) = Len(a) + Len(b)
      /\ \A i \in 1..(Len(a) + Len(b)) : (a \o b)[i] = IF i <= Len(a) THEN a[i] ELSE b[i - Len(a)]
  BY ConcatProperties DEF Texts
<1>2. Len(a) \in Nat /\ Len(b) \in Nat
  BY DEF Texts
<1> DEFINE c == a \o b
           m == Len(a)
           n == Len(b)
<1>3. /\ c \in Texts /\ m \in Nat /\ n \in Nat /\ Len(c) = m + n
      /\ \A i \in 1..(m + n) : c[i] = IF i <= m THEN a[i] ELSE b[i - m]
  BY <1>1, <1>2 DEF Texts
<1> HIDE DEF c, m, n
<1>4. \A i \in 1..m : c[i] = a[i]
  BY <1>3
<1>5. \A i \in 1..n : c[m + i] = b[i]
  <2> SUFFICES ASSUME NEW i \in 1..n PROVE c[m + i] = b[i]
    OBVIOUS
  <2>1. m + i \in 1..(m + n) /\ ~(m + i <= m) /\ (m + i) - m = i
    BY <1>3
  <2> QED
    BY <1>3, <2>1
<1> QED
  BY <1>3, <1>4, <1>5 DEF c, m, n

LEMMA OneWord ==
  ASSUME NEW word \in Good
  PROVE  <<word>> \in Texts /\ Len(<<word>>) = 1 /\ <<word>>[1] = word
BY DEF Texts

LEMMA UnbrokenWord ==
  ASSUME NEW word, word # LF
  PROVE  \A k \in 1..Len(<<word>>) : <<word>>[k] # LF
<1>1. Len(<<word>>) = 1 /\ <<word>>[1] = word
  OBVIOUS
<1>2. \A k \in 1..1 : k = 1
  OBVIOUS
<1> QED
  BY <1>1, <1>2

LEMMA TwoWords ==
  ASSUME NEW first \in Good, NEW second \in Good
  PROVE  <<first, second>> \in Texts
BY DEF Texts

LEMMA ThreeWords ==
  ASSUME NEW first \in Good, NEW second \in Good, NEW third \in Good
  PROVE  <<first, second, third>> \in Texts
BY DEF Texts

(* A comment goes on in the next text only if it was left open.            *)
LEMMA InCommentBefore ==
  ASSUME NEW a \in Texts, NEW b \in Texts, NEW i \in 1..Len(a)
  PROVE  InComment(a \o b, i) <=> InComment(a, i)
<1>1. Len(a) \in Nat /\ \A k \in 1..Len(a) : (a \o b)[k] = a[k]
  BY Joint
<1>2. \A j \in 1..i : (a \o b)[j] = a[j] /\ \A k \in j..i : (a \o b)[k] = a[k]
  BY <1>1
<1> QED
  BY <1>2 DEF InComment

LEMMA InCommentBehind ==
  ASSUME NEW a \in Texts, NEW b \in Texts, Ended(a), NEW i \in 1..Len(b)
  PROVE  InComment(a \o b, Len(a) + i) <=> InComment(b, i)
<1> DEFINE c == a \o b
           m == Len(a)
           n == Len(b)
<1>1. /\ m \in Nat /\ n \in Nat
      /\ \A k \in 1..m : c[k] = a[k]
      /\ \A k \in 1..n : c[m + k] = b[k]
  BY Joint
<1>2. \A j \in 1..m : a[j] = Slashes => \E k \in j..m : a[k] = LF
  BY DEF Ended
<1>3. i \in 1..n
  OBVIOUS
<1> HIDE DEF c, m, n
<1>4. ASSUME InComment(b, i) PROVE InComment(c, m + i)
  <2>1. PICK j \in 1..i : b[j] = Slashes /\ \A k \in j..i : b[k] # LF
    BY <1>4 DEF InComment
  <2>2. m + j \in 1..(m + i) /\ c[m + j] = Slashes
    BY <1>1, <1>3, <2>1
  <2>3. ASSUME NEW k \in (m + j)..(m + i) PROVE c[k] # LF
    <3>1. k - m \in j..i /\ k - m \in 1..n /\ m + (k - m) = k
      BY <1>1, <1>3, <2>1
    <3> QED
      BY <1>1, <2>1, <3>1
  <2> QED
    BY <2>2, <2>3 DEF InComment
<1>5. ASSUME InComment(c, m + i) PROVE InComment(b, i)
  <2>1. PICK j \in 1..(m + i) : c[j] = Slashes /\ \A k \in j..(m + i) : c[k] # LF
    BY <1>5 DEF InComment
  <2>2. j > m
    <3> SUFFICES ASSUME j <= m PROVE FALSE
      BY <1>1, <2>1
    <3>1. j \in 1..m
      BY <1>1, <2>1
    <3>2. a[j] = Slashes
      BY <1>1, <2>1, <3>1
    <3>3. PICK k \in j..m : a[k] = LF
      BY <1>2, <3>1, <3>2
    <3>4. k \in j..(m + i) /\ k \in 1..m
      BY <1>1, <1>3, <3>1, <3>3
    <3> QED
      BY <1>1, <2>1, <3>3, <3>4
  <2>3. j - m \in 1..i /\ j - m \in 1..n /\ m + (j - m) = j
    BY <1>1, <1>3, <2>1, <2>2
  <2>4. b[j - m] = Slashes
    BY <1>1, <2>1, <2>3
  <2>5. ASSUME NEW k \in (j - m)..i PROVE b[k] # LF
    <3>1. m + k \in j..(m + i) /\ k \in 1..n
      BY <1>1, <1>3, <2>1, <2>2
    <3> QED
      BY <1>1, <2>1, <3>1
  <2> QED
    BY <2>3, <2>4, <2>5 DEF InComment
<1> QED
  BY <1>4, <1>5 DEF c, m

LEMMA EndedInARow ==
  ASSUME NEW a \in Texts, NEW b \in Texts, Ended(a), Ended(b)
  PROVE  Ended(a \o b)
<1> DEFINE c == a \o b
           m == Len(a)
           n == Len(b)
<1>1. /\ m \in Nat /\ n \in Nat /\ Len(c) = m + n
      /\ \A k \in 1..m : c[k] = a[k]
      /\ \A k \in 1..n : c[m + k] = b[k]
  BY Joint
<1>2. /\ \A j \in 1..m : a[j] = Slashes => \E k \in j..m : a[k] = LF
      /\ \A j \in 1..n : b[j] = Slashes => \E k \in j..n : b[k] = LF
  BY DEF Ended
<1> HIDE DEF c, m, n
<1> SUFFICES ASSUME NEW j \in 1..(m + n), c[j] = Slashes PROVE \E k \in j..(m + n) : c[k] = LF
  BY <1>1 DEF Ended, c
<1>3. CASE j <= m
  <2>1. j \in 1..m
    BY <1>1, <1>3
  <2>2. PICK k \in j..m : a[k] = LF
    BY <1>1, <1>2, <2>1
  <2>3. k \in 1..m /\ k \in j..(m + n)
    BY <1>1, <2>1, <2>2
  <2> QED
    BY <1>1, <2>2, <2>3
<1>4. CASE j > m
  <2>1. j - m \in 1..n /\ m + (j - m) = j
    BY <1>1, <1>4
  <2>2. PICK k \in (j - m)..n : b[k] = LF
    BY <1>1, <1>2, <2>1
  <2>3. k \in 1..n /\ m + k \in j..(m + n)
    BY <1>1, <1>4, <2>1, <2>2
  <2> QED
    BY <1>1, <2>2, <2>3
<1> QED
  BY <1>1, <1>3, <1>4

LEMMA CommentInARow ==
  ASSUME NEW a, NEW b, Comment(a), Comment(b)
  PROVE  Comment(a \o b)
<1> DEFINE c == a \o b
           m == Len(a)
           n == Len(b)
<1>1. a \in Texts /\ b \in Texts /\ Ended(a) /\ Ended(b)
  BY DEF Comment
<1>2. /\ c \in Texts /\ m \in Nat /\ n \in Nat /\ Len(c) = m + n
      /\ \A k \in 1..m : c[k] = a[k]
      /\ \A k \in 1..n : c[m + k] = b[k]
  BY <1>1, Joint
<1>3. Ended(c)
  BY <1>1, EndedInARow
<1>4. \A i \in 1..m : InComment(c, i) \/ c[i] \in White
  <2>1. \A i \in 1..m : InComment(c, i) <=> InComment(a, i)
    BY <1>1, InCommentBefore
  <2>2. \A i \in 1..m : InComment(a, i) \/ a[i] \in White
    BY DEF Comment, Covered
  <2> HIDE DEF c, m
  <2> QED
    BY <1>2, <2>1, <2>2
<1>5. \A i \in 1..n : InComment(c, m + i) \/ c[m + i] \in White
  <2>1. \A i \in 1..n : InComment(c, m + i) <=> InComment(b, i)
    BY <1>1, InCommentBehind
  <2>2. \A i \in 1..n : InComment(b, i) \/ b[i] \in White
    BY DEF Comment, Covered
  <2> HIDE DEF c, m, n
  <2> QED
    BY <1>2, <2>1, <2>2
<1> HIDE DEF c, m, n
<1>6. ASSUME NEW i \in 1..(m + n) PROVE InComment(c, i) \/ c[i] \in White
  <2>1. CASE i <= m
    BY <1>2, <1>4, <2>1
  <2>2. CASE i > m
    <3>1. i - m \in 1..n /\ m + (i - m) = i
      BY <1>2, <2>2
    <3> QED
      BY <1>5, <3>1
  <2> QED
    BY <1>2, <2>1, <2>2
<1>7. Covered(c)
  BY <1>2, <1>6 DEF Covered
<1> QED
  BY <1>2, <1>3, <1>7 DEF Comment, c

-----------------------------------------------------------------------------
(* The code of texts in a row.                                             *)
Bits(text) == [i \in 1..Len(text) |-> IF IsCode(text, i) THEN <<text[i]>> ELSE <<>>]

LEMMA BitsTyped ==
  ASSUME NEW text \in Texts
  PROVE  /\ Bits(text) \in Seq(Texts) /\ Len(Bits(text)) = Len(text)
         /\ \A i \in 1..Len(text) : Bits(text)[i] = IF IsCode(text, i) THEN <<text[i]>> ELSE <<>>
         /\ Code(text) = FlattenSeq(Bits(text))
<1>1. Len(text) \in Nat /\ DOMAIN text = 1..Len(text) /\ \A i \in 1..Len(text) : text[i] \in Good
  BY DEF Texts
<1>2. \A i \in 1..Len(text) : <<text[i]>> \in Texts
  BY <1>1, OneWord
<1>3. <<>> \in Texts
  BY EmptySeq DEF Texts
<1>4. Bits(text) \in Seq(Texts) /\ Len(Bits(text)) = Len(text)
  BY <1>1, <1>2, <1>3 DEF Bits
<1>5. Code(text) = FlattenSeq(Bits(text))
  BY <1>1 DEF Code, Bits
<1> QED
  BY <1>4, <1>5 DEF Bits

LEMMA CodeTyped ==
  ASSUME NEW text \in Texts
  PROVE  Code(text) \in Texts
<1>1. Bits(text) \in Seq(Seq(Good)) /\ Code(text) = FlattenSeq(Bits(text))
  BY BitsTyped DEF Texts
<1> QED
  BY <1>1, FlattenTyped DEF Texts

LEMMA CodeInARow ==
  ASSUME NEW a \in Texts, NEW b \in Texts, Ended(a)
  PROVE  Code(a \o b) = Code(a) \o Code(b)
<1> DEFINE c == a \o b
           m == Len(a)
           n == Len(b)
           A == Bits(a)
           B == Bits(b)
           C == Bits(c)
<1>1. /\ c \in Texts /\ m \in Nat /\ n \in Nat /\ Len(c) = m + n
      /\ \A k \in 1..m : c[k] = a[k]
      /\ \A k \in 1..n : c[m + k] = b[k]
  BY Joint
<1>2. \A i \in 1..m : InComment(c, i) <=> InComment(a, i)
  BY InCommentBefore
<1>3. \A i \in 1..n : InComment(c, m + i) <=> InComment(b, i)
  BY InCommentBehind
<1>4. /\ A \in Seq(Texts) /\ Len(A) = m /\ Code(a) = FlattenSeq(A)
      /\ \A i \in 1..m : A[i] = IF IsCode(a, i) THEN <<a[i]>> ELSE <<>>
  BY BitsTyped
<1>5. /\ B \in Seq(Texts) /\ Len(B) = n /\ Code(b) = FlattenSeq(B)
      /\ \A i \in 1..n : B[i] = IF IsCode(b, i) THEN <<b[i]>> ELSE <<>>
  BY BitsTyped
<1> HIDE DEF A, B, c, m, n
<1>6. /\ C \in Seq(Texts) /\ Len(C) = m + n /\ Code(c) = FlattenSeq(C)
      /\ \A i \in 1..(m + n) : C[i] = IF IsCode(c, i) THEN <<c[i]>> ELSE <<>>
  BY <1>1, BitsTyped
<1> HIDE DEF C
<1>7. /\ A \o B \in Seq(Texts) /\ Len(A \o B) = m + n
      /\ \A i \in 1..(m + n) : (A \o B)[i] = IF i <= m THEN A[i] ELSE B[i - m]
  BY <1>4, <1>5, ConcatProperties
<1>8. \A i \in 1..m : C[i] = A[i]
  <2> SUFFICES ASSUME NEW i \in 1..m PROVE C[i] = A[i]
    OBVIOUS
  <2>1. i \in 1..(m + n)
    BY <1>1
  <2>2. IsCode(c, i) <=> IsCode(a, i)
    BY <1>1, <1>2 DEF IsCode
  <2> QED
    BY <1>1, <1>4, <1>6, <2>1, <2>2
<1>9. \A i \in 1..n : C[m + i] = B[i]
  <2> SUFFICES ASSUME NEW i \in 1..n PROVE C[m + i] = B[i]
    OBVIOUS
  <2>1. m + i \in 1..(m + n)
    BY <1>1
  <2>2. IsCode(c, m + i) <=> IsCode(b, i)
    BY <1>1, <1>3 DEF IsCode
  <2> QED
    BY <1>1, <1>5, <1>6, <2>1, <2>2
<1>10. \A i \in 1..(m + n) : C[i] = (A \o B)[i]
  <2> SUFFICES ASSUME NEW i \in 1..(m + n) PROVE C[i] = (A \o B)[i]
    OBVIOUS
  <2>1. CASE i <= m
    BY <1>1, <1>7, <1>8, <2>1
  <2>2. CASE i > m
    <3>1. i - m \in 1..n /\ m + (i - m) = i /\ ~(i <= m)
      BY <1>1, <2>2
    <3>2. C[i] = B[i - m]
      BY <1>9, <3>1
    <3> QED
      BY <1>7, <3>1, <3>2
  <2>3. i <= m \/ i > m
    BY <1>1
  <2> QED
    BY <2>1, <2>2, <2>3
<1>11. C = A \o B
  <2> DEFINE D == A \o B
  <2>1. D \in Seq(Texts) /\ Len(D) = Len(C) /\ \A i \in 1..Len(C) : C[i] = D[i]
    BY <1>6, <1>7, <1>10
  <2> HIDE DEF D
  <2>2. C = D
    BY <1>6, <2>1, SeqEqual
  <2> QED
    BY <2>2 DEF D
<1>12. FlattenSeq(A \o B) = FlattenSeq(A) \o FlattenSeq(B)
  <2>1. A \in Seq(Seq(Good)) /\ B \in Seq(Seq(Good))
    BY <1>4, <1>5 DEF Texts
  <2> QED
    BY <2>1, FlattenInARow
<1> QED
  BY <1>4, <1>5, <1>6, <1>11, <1>12 DEF c

LEMMA CodeOfComment ==
  ASSUME NEW text, Comment(text)
  PROVE  Code(text) = <<>>
<1> DEFINE B == Bits(text)
           T == {<<>>}
<1>1. text \in Texts /\ \A i \in 1..Len(text) : ~IsCode(text, i)
  BY DEF Comment, Covered, IsCode
<1>2. /\ B \in Seq(Texts) /\ Len(B) = Len(text) /\ Code(text) = FlattenSeq(B)
      /\ \A i \in 1..Len(text) : B[i] = IF IsCode(text, i) THEN <<text[i]>> ELSE <<>>
  BY <1>1, BitsTyped
<1> HIDE DEF B
<1>3. \A i \in 1..Len(B) : B[i] \in T
  BY <1>1, <1>2
<1>4. <<>> \in T /\ \A s, t \in T : s \o t \in T
  BY EmptySeq, ConcatEmptySeq
<1> HIDE DEF T
<1>5. FlattenSeq(B) \in T
  BY <1>2, <1>3, <1>4, FlattenKeeps
<1> QED
  BY <1>2, <1>5 DEF T

LEMMA CodeOfWord ==
  ASSUME NEW word \in Good, word \notin White, word # Slashes
  PROVE  Code(<<word>>) = <<word>> /\ Ended(<<word>>)
<1> DEFINE text == <<word>>
           B == Bits(text)
<1>1. text \in Texts /\ Len(text) = 1 /\ text[1] = word
  BY OneWord
<1> HIDE DEF text
<1>2. /\ B \in Seq(Texts) /\ Len(B) = 1 /\ Code(text) = FlattenSeq(B)
      /\ B[1] = IF IsCode(text, 1) THEN <<text[1]>> ELSE <<>>
  BY <1>1, BitsTyped
<1> HIDE DEF B
<1>3. IsCode(text, 1)
  BY <1>1 DEF IsCode, InComment
<1>4. FlattenSeq(B) = B[1]
  <2>1. /\ Len(B) > 0 => Joined(B)[1] = B[1]
        /\ FlattenSeq(B) = IF Len(B) = 0 THEN <<>> ELSE Joined(B)[Len(B)]
    BY <1>2, JoinedSteps
  <2> QED
    BY <1>2, <2>1
<1>5. Ended(text)
  BY <1>1 DEF Ended
<1> QED
  BY <1>1, <1>2, <1>3, <1>4, <1>5 DEF text

-----------------------------------------------------------------------------
(* What normalizeComment leaves of a comment.                              *)
LEMMA Normalized ==
  ASSUME NEW text \in AnyComment
  PROVE  NormalizeComment(text) \in Texts
<1> DEFINE valid == Valid(text)
           lines == NewlinesReplaced(valid)
<1>1. /\ Len(text) \in Nat /\ DOMAIN text = 1..Len(text)
      /\ \A i \in 1..Len(text) : text[i] \in Given
  <2>1. text \in Seq(Range(text))
    BY TextAssumption
  <2>2. Range(text) \subseteq Given
    BY DEF Given
  <2> QED
    BY <2>1, <2>2
<1>2. valid \in Texts
  <2> DEFINE seqs == [i \in 1..Len(text) |-> IF text[i] = NotUTF8 THEN <<>> ELSE <<text[i]>>]
  <2>1. ASSUME NEW i \in 1..Len(text) PROVE (IF text[i] = NotUTF8 THEN <<>> ELSE <<text[i]>>) \in Texts
    <3>1. CASE text[i] = NotUTF8
      BY <3>1, EmptySeq DEF Texts
    <3>2. CASE text[i] # NotUTF8
      <4>1. text[i] \in Good
        BY <1>1, <3>2 DEF Good
      <4> QED
        BY <3>2, <4>1, OneWord
    <3> QED
      BY <3>1, <3>2
  <2>2. seqs \in Seq(Texts)
    BY <1>1, <2>1
  <2>3. valid = FlattenSeq(seqs)
    BY <1>1 DEF Valid
  <2> HIDE DEF seqs, valid
  <2>4. seqs \in Seq(Seq(Good))
    BY <2>2 DEF Texts
  <2>5. FlattenSeq(seqs) \in Seq(Good)
    BY <2>4, FlattenTyped
  <2> QED
    BY <2>3, <2>5 DEF Texts
<1> HIDE DEF valid
<1>3. lines \in Texts
  <2> DEFINE TextAt(i) == IF valid[i] # CR THEN <<valid[i]>>
                        ELSE IF i < Len(valid) /\ valid[i + 1] = LF THEN <<>> ELSE <<LF>>
             seqs == [i \in 1..Len(valid) |-> TextAt(i)]
  <2>1. Len(valid) \in Nat /\ DOMAIN valid = 1..Len(valid) /\ \A i \in 1..Len(valid) : valid[i] \in Good
    BY <1>2 DEF Texts
  <2>2. ASSUME NEW i \in 1..Len(valid) PROVE TextAt(i) \in Texts
    <3>1. <<valid[i]>> \in Texts
      BY <2>1, OneWord
    <3>2. <<>> \in Texts
      BY EmptySeq DEF Texts
    <3>3. <<LF>> \in Texts
      BY OneWord, Tokens DEF Token
    <3> QED
      BY <3>1, <3>2, <3>3
  <2>3. lines = FlattenSeq(seqs)
    BY <2>1 DEF NewlinesReplaced
  <2> HIDE DEF TextAt
  <2>4. seqs \in Seq(Texts)
    BY <2>1, <2>2
  <2> HIDE DEF seqs, lines
  <2>5. seqs \in Seq(Seq(Good))
    BY <2>4 DEF Texts
  <2>6. FlattenSeq(seqs) \in Seq(Good)
    BY <2>5, FlattenTyped
  <2> QED
    BY <2>3, <2>6 DEF Texts
<1> HIDE DEF lines
<1>4. CASE Inked(lines) = {}
  <2>1. NormalizeComment(text) = <<>>
    BY <1>4 DEF NormalizeComment, Trimmed, lines, valid
  <2> QED
    BY <2>1, EmptySeq DEF Texts
<1>5. CASE Inked(lines) # {}
  <2> DEFINE S == Inked(lines)
             m == Min(S)
             n == Max(S)
  <2>1. Len(lines) \in Nat /\ DOMAIN lines = 1..Len(lines) /\ \A i \in 1..Len(lines) : lines[i] \in Good
    BY <1>3 DEF Texts
  <2>2. S \subseteq 1..Len(lines)
    BY <2>1 DEF Inked
  <2>3. S \in SUBSET Nat /\ S \in SUBSET (0..Len(lines)) /\ S # {}
    BY <1>5, <2>1, <2>2
  <2> HIDE DEF S
  <2>4. m \in S
    BY <2>3, MinIsLeast
  <2>5. n \in S
    BY <2>1, <2>3, MaxIsGreatest
  <2> HIDE DEF m, n
  <2>6. m \in Int /\ n \in Int /\ \A i \in m..n : lines[i] \in Good
    BY <2>1, <2>2, <2>4, <2>5
  <2>7. SubSeq(lines, m, n) \in Seq(Good)
    BY <2>6, SubSeqProperties
  <2>8. NormalizeComment(text) = SubSeq(lines, m, n)
    BY <1>5 DEF NormalizeComment, Trimmed, lines, valid, m, n, S
  <2> QED
    BY <2>7, <2>8 DEF Texts
<1> QED
  BY <1>4, <1>5

(* A text in which a comment begins after each line break.                 *)
Guarded(text) ==
  \A i \in 1..Len(text) : text[i] = LF => i < Len(text) /\ text[i + 1] = Slashes

(* The text t is q with what a line comment has before and after it.       *)
Lined(t, q, n) ==
  /\ n \in Nat /\ Len(q) = n /\ Len(t) = n + 3
  /\ t[1] = Slashes /\ t[2] = " " /\ t[n + 3] = LF
  /\ \A i \in 1..n : t[2 + i] = q[i]

LEMMA LinesOfComment ==
  ASSUME NEW q \in Texts, Guarded(q), NEW t \in Texts, NEW n, Lined(t, q, n)
  PROVE  Comment(t)
<1>1. n \in Nat /\ Len(t) = n + 3 /\ \A i \in 1..n : t[2 + i] = q[i]
  BY DEF Lined
<1>2. \A i \in 1..n : q[i] = LF => i < n /\ q[i + 1] = Slashes
  BY DEF Guarded, Lined
<1>3. t[1] = Slashes /\ t[2] = " " /\ t[n + 3] = LF
  BY DEF Lined
<1>4. Ended(t)
  <2>1. ASSUME NEW j \in 1..(n + 3) PROVE \E k \in j..(n + 3) : t[k] = LF
    <3>1. n + 3 \in j..(n + 3)
      BY <1>1
    <3> QED
      BY <1>3, <3>1
  <2> QED
    BY <1>1, <2>1 DEF Ended
<1>5. t[1] # LF /\ t[2] # LF
  BY <1>3, Tokens
<1>6. ASSUME NEW i \in 1..(n + 3) PROVE InComment(t, i) \/ t[i] \in White
  <2>1. CASE t[i] = LF
    BY <2>1, WhiteAssumption
  <2>2. CASE t[i] # LF
    <3> DEFINE M == {j \in 1..i : t[j] = LF}
    <3>0. i # n + 3
      BY <1>3, <2>2
    <3>1. i \in Nat /\ i < n + 3 /\ 1 \in 1..i /\ M \in SUBSET (0..i)
      BY <1>1, <3>0
    <3>2. CASE M = {}
      <4>1. \A k \in 1..i : t[k] # LF
        BY <3>2
      <4>2. 1 \in 1..i /\ t[1] = Slashes /\ \A k \in 1..i : t[k] # LF
        BY <1>3, <3>1, <4>1
      <4> QED
        BY <4>2 DEF InComment
    <3>3. CASE M # {}
      <4> DEFINE m == Max(M)
      <4>1. m \in M /\ \A k \in M : k <= m
        <5> HIDE DEF M
        <5> QED
          BY <3>1, <3>3, MaxIsGreatest
      <4> HIDE DEF m
      <4>2. m \in 1..i /\ t[m] = LF /\ \A k \in 1..i : k > m => t[k] # LF
        BY <4>1
      <4>3. m # 1 /\ m # 2 /\ m # i
        BY <1>5, <2>2, <4>2
      <4>4. m - 2 \in 1..n /\ 2 + (m - 2) = m /\ (m - 2) + 1 = m - 1
        BY <1>1, <3>1, <4>2, <4>3
      <4>5. m - 2 < n /\ q[m - 1] = Slashes
        BY <1>1, <1>2, <4>2, <4>4
      <4>6. m - 1 \in 1..n /\ 2 + (m - 1) = m + 1
        BY <1>1, <4>4, <4>5
      <4>7. t[m + 1] = Slashes
        BY <1>1, <4>5, <4>6
      <4>8. m + 1 \in 1..i /\ \A k \in (m + 1)..i : t[k] # LF
        BY <3>1, <4>2, <4>3
      <4> QED
        BY <4>7, <4>8 DEF InComment
    <3> QED
      BY <3>2, <3>3
  <2> QED
    BY <2>1, <2>2
<1>7. Covered(t)
  BY <1>1, <1>6 DEF Covered
<1> QED
  BY <1>4, <1>7 DEF Comment

(* The text t begins a comment at h that goes on to e; all else is white.  *)
OneLine(t, n, h, e) ==
  /\ n \in Nat /\ Len(t) = n /\ h \in 1..n /\ e \in h..(n - 1)
  /\ t[h] = Slashes /\ t[n] = LF
  /\ \A k \in 1..(h - 1) : t[k] \in White
  /\ \A k \in h..e : t[k] # LF
  /\ \A k \in (e + 1)..n : t[k] \in White

LEMMA LineOfComment ==
  ASSUME NEW t \in Texts, NEW n, NEW h, NEW e, OneLine(t, n, h, e)
  PROVE  Comment(t)
<1>1. n \in Nat /\ Len(t) = n /\ h \in 1..n /\ e \in h..(n - 1) /\ t[h] = Slashes /\ t[n] = LF
  BY DEF OneLine
<1>2. /\ \A k \in 1..(h - 1) : t[k] \in White
      /\ \A k \in h..e : t[k] # LF
      /\ \A k \in (e + 1)..n : t[k] \in White
  BY DEF OneLine
<1>3. ASSUME NEW j \in 1..n PROVE \E k \in j..n : t[k] = LF
  <2>1. n \in j..n
    BY <1>1
  <2> QED
    BY <1>1, <2>1
<1>4. Ended(t)
  BY <1>1, <1>3 DEF Ended
<1>5. ASSUME NEW i \in 1..n PROVE InComment(t, i) \/ t[i] \in White
  <2>1. CASE i \in 1..(h - 1) \/ i \in (e + 1)..n
    BY <1>2, <2>1
  <2>2. CASE i \in h..e
    <3>1. h \in 1..i /\ \A k \in h..i : t[k] # LF
      BY <1>1, <1>2, <2>2
    <3> QED
      BY <1>1, <3>1 DEF InComment
  <2>3. i \in 1..(h - 1) \/ i \in (e + 1)..n \/ i \in h..e
    BY <1>1
  <2> QED
    BY <2>1, <2>2, <2>3
<1>6. Covered(t)
  BY <1>1, <1>5 DEF Covered
<1> QED
  BY <1>4, <1>6 DEF Comment

LEMMA NoComment == Comment(<<>>)
<1>1. <<>> \in Texts /\ Len(<<>>) = 0
  BY EmptySeq DEF Texts
<1> QED
  BY <1>1 DEF Comment, Ended, Covered

LEMMA LineBreak == Comment(<<LF>>)
<1>1. LF \in Good /\ LF \in White /\ LF # Slashes
  BY Tokens, WhiteAssumption DEF Token
<1>2. <<LF>> \in Texts /\ Len(<<LF>>) = 1 /\ <<LF>>[1] = LF
  BY <1>1, OneWord
<1> DEFINE t == <<LF>>
<1> HIDE DEF t
<1>3. t \in Texts /\ Len(t) = 1 /\ t[1] = LF
  BY <1>2 DEF t
<1>4. Comment(t)
  BY <1>1, <1>3 DEF Comment, Ended, Covered
<1> QED
  BY <1>4 DEF t

(* A text with something before and after it.                              *)
Around(t, head, text, tail) ==
  /\ t \in Texts /\ Len(t) = (Len(head) + Len(text)) + Len(tail)
  /\ \A i \in 1..Len(head) : t[i] = head[i]
  /\ \A i \in 1..Len(text) : t[Len(head) + i] = text[i]
  /\ \A i \in 1..Len(tail) : t[(Len(head) + Len(text)) + i] = tail[i]

LEMMA PutAround ==
  ASSUME NEW head \in Texts, NEW text \in Texts, NEW tail \in Texts
  PROVE  Around((head \o text) \o tail, head, text, tail)
<1> DEFINE c == head \o text
           t == c \o tail
           h == Len(head)
           n == Len(text)
           k == Len(tail)
<1>1. /\ c \in Texts /\ h \in Nat /\ n \in Nat /\ Len(c) = h + n
      /\ \A i \in 1..h : c[i] = head[i]
      /\ \A i \in 1..n : c[h + i] = text[i]
  BY Joint
<1> HIDE DEF c
<1>2. /\ t \in Texts /\ k \in Nat /\ Len(t) = Len(c) + k
      /\ \A i \in 1..Len(c) : t[i] = c[i]
      /\ \A i \in 1..k : t[Len(c) + i] = tail[i]
  BY <1>1, Joint
<1> HIDE DEF t, h, n, k
<1>3. \A i \in 1..h : t[i] = head[i]
  <2>1. \A i \in 1..h : i \in 1..(h + n)
    BY <1>1
  <2> QED
    BY <1>1, <1>2, <2>1
<1>4. \A i \in 1..n : t[h + i] = text[i]
  <2>1. \A i \in 1..n : h + i \in 1..(h + n)
    BY <1>1
  <2> QED
    BY <1>1, <1>2, <2>1
<1>5. t \in Texts /\ Len(t) = (h + n) + k /\ \A i \in 1..k : t[(h + n) + i] = tail[i]
  BY <1>1, <1>2
<1> QED
  BY <1>3, <1>4, <1>5 DEF Around, t, c, h, n, k

LEMMA LineCommentIsOne ==
  ASSUME NEW text \in AnyComment
  PROVE  Comment(LineComment(text))
<1> DEFINE lines == NormalizeComment(text)
           TextAt(i) == IF lines[i] = LF THEN <<LF, Slashes, " ">> ELSE <<lines[i]>>
           seqs == [i \in 1..Len(lines) |-> TextAt(i)]
           q == FlattenSeq(seqs)
           T == {x \in Texts : Guarded(x)}
<1>1. Len(lines) \in Nat /\ DOMAIN lines = 1..Len(lines) /\ \A i \in 1..Len(lines) : lines[i] \in Good
  BY Normalized DEF Texts
<1>2. LineComment(text) = IF lines = <<>> THEN <<>> ELSE (<<Slashes, " ">> \o q) \o <<LF>>
  BY <1>1 DEF LineComment
<1> HIDE DEF lines
<1>3. \A i \in 1..Len(lines) : TextAt(i) \in T
  <2> SUFFICES ASSUME NEW i \in 1..Len(lines) PROVE TextAt(i) \in T
    OBVIOUS
  <2>1. CASE lines[i] = LF
    <3> DEFINE x == <<LF, Slashes, " ">>
    <3>1. LF \in Good /\ Slashes \in Good /\ " " \in Good
      BY Tokens DEF Token
    <3>2. x \in Texts
      BY <3>1, ThreeWords
    <3>7. Len(x) = 3 /\ x[1] = LF /\ x[2] = Slashes /\ x[3] = " "
      OBVIOUS
    <3>3. Slashes # LF /\ " " # LF
      BY Tokens
    <3>4. TextAt(i) = x
      BY <2>1
    <3> HIDE DEF x, TextAt
    <3>6. \A at \in 1..3 : x[at] = LF => at = 1
      <4>1. \A at \in 1..3 : at = 1 \/ at = 2 \/ at = 3
        OBVIOUS
      <4> QED
        BY <3>3, <3>7, <4>1
    <3>5. Guarded(x)
      <4>1. ASSUME NEW at \in 1..3, x[at] = LF PROVE at < 3 /\ x[at + 1] = Slashes
        <5>1. at = 1
          BY <3>6, <4>1
        <5>2. at + 1 = 2
          BY <5>1
        <5>3. at < 3
          BY <5>1
        <5>4. x[at + 1] = x[2]
          BY <5>2
        <5>5. x[2] = Slashes
          BY <3>7
        <5> QED
          BY <5>3, <5>4, <5>5
      <4> QED
        BY <3>7, <4>1 DEF Guarded
    <3> QED
      BY <3>2, <3>4, <3>5
  <2>2. CASE lines[i] # LF
    <3> DEFINE x == <<lines[i]>>
    <3>1. x \in Texts /\ Len(x) = 1 /\ x[1] # LF
      BY <1>1, <2>2, OneWord
    <3>2. TextAt(i) = x
      BY <2>2
    <3> HIDE DEF x, TextAt
    <3>3. Guarded(x)
      BY <3>1 DEF Guarded
    <3> QED
      BY <3>1, <3>2, <3>3
  <2> QED
    BY <2>1, <2>2
<1> HIDE DEF TextAt
<1>4. <<>> \in T
  <2>1. <<>> \in Texts /\ Len(<<>>) = 0
    BY EmptySeq DEF Texts
  <2> QED
    BY <2>1 DEF Guarded
<1>5. ASSUME NEW x \in T, NEW y \in T PROVE x \o y \in T
  <2> DEFINE z == x \o y
             m == Len(x)
             n == Len(y)
  <2>1. /\ z \in Texts /\ m \in Nat /\ n \in Nat /\ Len(z) = m + n
        /\ \A i \in 1..m : z[i] = x[i]
        /\ \A i \in 1..n : z[m + i] = y[i]
    BY Joint
  <2>2. /\ \A i \in 1..m : x[i] = LF => i < m /\ x[i + 1] = Slashes
        /\ \A i \in 1..n : y[i] = LF => i < n /\ y[i + 1] = Slashes
    BY DEF Guarded
  <2> HIDE DEF m, n, z
  <2>3. ASSUME NEW i \in 1..(m + n), z[i] = LF PROVE i < m + n /\ z[i + 1] = Slashes
    <3>1. CASE i <= m
      <4>1. i \in 1..m
        BY <2>1, <3>1
      <4>2. i < m /\ x[i + 1] = Slashes
        BY <2>1, <2>2, <2>3, <4>1
      <4>3. i + 1 \in 1..m
        BY <2>1, <4>1, <4>2
      <4> QED
        BY <2>1, <4>2, <4>3
    <3>2. CASE i > m
      <4>1. i - m \in 1..n /\ m + (i - m) = i
        BY <2>1, <3>2
      <4>2. i - m < n /\ y[(i - m) + 1] = Slashes
        BY <2>1, <2>2, <2>3, <4>1
      <4>3. (i - m) + 1 \in 1..n /\ m + ((i - m) + 1) = i + 1
        BY <2>1, <4>1, <4>2
      <4>4. z[i + 1] = Slashes
        BY <2>1, <4>2, <4>3
      <4> QED
        BY <2>1, <4>2, <4>4
    <3> QED
      BY <2>1, <3>1, <3>2
  <2>4. Guarded(z)
    BY <2>1, <2>3 DEF Guarded
  <2> QED
    BY <2>1, <2>4 DEF z
<1>6. q \in T
  <2>1. seqs \in Seq(T) /\ Len(seqs) = Len(lines) /\ \A i \in 1..Len(seqs) : seqs[i] \in T
    <3> HIDE DEF T
    <3> QED
      BY <1>1, <1>3
  <2> HIDE DEF seqs, T
  <2> QED
    BY <2>1, <1>4, <1>5, FlattenKeeps
<1>7. q \in Texts /\ Guarded(q)
  BY <1>6
<1> DEFINE head == <<Slashes, " ">>
           tail == <<LF>>
           t == (head \o q) \o tail
<1>8. head \in Texts /\ tail \in Texts
  <2>1. LF \in Good /\ Slashes \in Good /\ " " \in Good
    BY Tokens DEF Token
  <2>2. head \in Texts
    BY <2>1, TwoWords
  <2>3. tail \in Texts
    BY <2>1, OneWord
  <2> QED
    BY <2>2, <2>3
<1>12. Len(head) = 2 /\ head[1] = Slashes /\ head[2] = " " /\ Len(tail) = 1 /\ tail[1] = LF
  OBVIOUS
<1>9. LineComment(text) = IF lines = <<>> THEN <<>> ELSE t
  BY <1>2
<1> HIDE DEF head, tail, q, T
<1>10. t \in Texts /\ Lined(t, q, Len(q))
  <2> DEFINE n == Len(q)
  <2>1. Around(t, head, q, tail)
    BY <1>7, <1>8, PutAround
  <2>2. n \in Nat /\ Len(q) = n
    BY <1>7 DEF Texts
  <2> HIDE DEF t, n
  <2>3. /\ t \in Texts /\ Len(t) = (2 + n) + 1
        /\ \A i \in 1..2 : t[i] = head[i]
        /\ \A i \in 1..n : t[2 + i] = q[i]
        /\ \A i \in 1..1 : t[(2 + n) + i] = tail[i]
    BY <1>12, <2>1, <2>2 DEF Around
  <2>4. t[1] = Slashes /\ t[2] = " "
    <3>1. 1 \in 1..2 /\ 2 \in 1..2
      OBVIOUS
    <3> QED
      BY <1>12, <2>3, <3>1
  <2>5. t[n + 3] = LF
    <3>1. 1 \in 1..1 /\ (2 + n) + 1 = n + 3
      BY <2>2
    <3>2. t[(2 + n) + 1] = tail[1]
      BY <2>3, <3>1
    <3> QED
      BY <1>12, <3>1, <3>2
  <2>6. Len(t) = n + 3
    BY <2>2, <2>3
  <2>7. Lined(t, q, n)
    BY <2>2, <2>3, <2>4, <2>5, <2>6 DEF Lined
  <2> QED
    BY <2>3, <2>7 DEF n
<1> HIDE DEF t
<1>11. Comment(t)
  BY <1>7, <1>10, LinesOfComment
<1> QED
  BY <1>9, <1>11, NoComment

LEMMA WithoutLineBreak ==
  ASSUME NEW seqs \in Seq(Texts), \A i \in 1..Len(seqs) : \A k \in 1..Len(seqs[i]) : seqs[i][k] # LF
  PROVE  /\ FlattenSeq(seqs) \in Texts
         /\ \A k \in 1..Len(FlattenSeq(seqs)) : FlattenSeq(seqs)[k] # LF
<1> DEFINE T == {x \in Texts : \A k \in 1..Len(x) : x[k] # LF}
<1>1. \A i \in 1..Len(seqs) : seqs[i] \in T
  BY ElementOfSeq
<1>2. <<>> \in T
  <2>1. <<>> \in Texts /\ Len(<<>>) = 0
    BY EmptySeq DEF Texts
  <2> QED
    BY <2>1
<1>3. ASSUME NEW x \in T, NEW y \in T PROVE x \o y \in T
  <2> DEFINE z == x \o y
             m == Len(x)
             n == Len(y)
  <2>1. /\ z \in Texts /\ m \in Nat /\ n \in Nat /\ Len(z) = m + n
        /\ \A i \in 1..m : z[i] = x[i]
        /\ \A i \in 1..n : z[m + i] = y[i]
    BY Joint
  <2>2. (\A i \in 1..m : x[i] # LF) /\ (\A i \in 1..n : y[i] # LF)
    OBVIOUS
  <2> HIDE DEF m, n, z
  <2>3. ASSUME NEW i \in 1..(m + n) PROVE z[i] # LF
    <3>1. CASE i <= m
      BY <2>1, <2>2, <3>1
    <3>2. CASE i > m
      <4>1. i - m \in 1..n /\ m + (i - m) = i
        BY <2>1, <3>2
      <4> QED
        BY <2>1, <2>2, <4>1
    <3> QED
      BY <2>1, <3>1, <3>2
  <2> QED
    BY <2>1, <2>3 DEF z
<1> HIDE DEF T
<1>4. FlattenSeq(seqs) \in T
  BY <1>1, <1>2, <1>3, FlattenKeeps
<1> QED
  BY <1>4 DEF T

LEMMA InlineCommentIsOne ==
  ASSUME NEW text \in AnyComment
  PROVE  InlineComment(text) \in Texts /\ Comment(InlineComment(text) \o <<LF>>)
<1> DEFINE words == NormalizeComment(text)
           TextAt(i) == IF words[i] \notin White THEN <<words[i]>>
                      ELSE IF words[i - 1] \in White THEN <<>> ELSE <<" ">>
           seqs == [i \in 1..Len(words) |-> TextAt(i)]
           q == FlattenSeq(seqs)
<1>1. Len(words) \in Nat /\ DOMAIN words = 1..Len(words) /\ \A i \in 1..Len(words) : words[i] \in Good
  BY Normalized DEF Texts
<1>2. InlineComment(text) = IF words = <<>> THEN <<>> ELSE <<" ", Slashes, " ">> \o q
  BY <1>1 DEF InlineComment
<1> HIDE DEF words
<1>3. LF \in Good /\ Slashes \in Good /\ " " \in Good /\ " " # LF /\ Slashes # LF
  BY Tokens DEF Token
<1>4. LF \in White /\ " " \in White
  BY WhiteAssumption
<1>5. ASSUME NEW i \in 1..Len(words)
      PROVE  TextAt(i) \in Texts /\ \A k \in 1..Len(TextAt(i)) : TextAt(i)[k] # LF
  <2>1. CASE words[i] \notin White
    <3> DEFINE x == <<words[i]>>
    <3>1. x \in Texts
      BY <1>1, OneWord
    <3>2. words[i] # LF
      BY <1>4, <2>1
    <3>3. \A k \in 1..Len(x) : x[k] # LF
      BY <3>2, UnbrokenWord
    <3>4. TextAt(i) = x
      BY <2>1
    <3> HIDE DEF x, TextAt
    <3> QED
      BY <3>1, <3>3, <3>4
  <2>2. CASE words[i] \in White
    <3> DEFINE x == <<" ">>
    <3>1. x \in Texts /\ \A k \in 1..Len(x) : x[k] # LF
      BY <1>3, OneWord, UnbrokenWord
    <3>2. <<>> \in Texts /\ \A k \in 1..Len(<<>>) : <<>>[k] # LF
      BY EmptySeq DEF Texts
    <3>3. TextAt(i) = <<>> \/ TextAt(i) = x
      BY <2>2
    <3> HIDE DEF x, TextAt
    <3>4. CASE TextAt(i) = <<>>
      BY <3>2, <3>4
    <3>5. CASE TextAt(i) = x
      BY <3>1, <3>5
    <3> QED
      BY <3>3, <3>4, <3>5
  <2> QED
    BY <2>1, <2>2
<1> HIDE DEF TextAt
<1>6. seqs \in Seq(Texts) /\ \A i \in 1..Len(seqs) : \A k \in 1..Len(seqs[i]) : seqs[i][k] # LF
  BY <1>1, <1>5
<1> HIDE DEF seqs
<1>7. q \in Texts /\ \A k \in 1..Len(q) : q[k] # LF
  BY <1>6, WithoutLineBreak
<1> DEFINE head == <<" ", Slashes, " ">>
           tail == <<LF>>
           t == (head \o q) \o tail
<1>8. head \in Texts /\ tail \in Texts
  BY <1>3, ThreeWords, OneWord
<1>9. Len(head) = 3 /\ head[1] = " " /\ head[2] = Slashes /\ head[3] = " " /\ Len(tail) = 1 /\ tail[1] = LF
  OBVIOUS
<1>10. InlineComment(text) = IF words = <<>> THEN <<>> ELSE head \o q
  BY <1>2
<1> HIDE DEF head, q
<1>11. Comment(t)
  <2> DEFINE n == Len(q)
             e == 3 + n
             all == (3 + n) + 1
  <2>1. Around(t, head, q, tail)
    BY <1>7, <1>8, PutAround
  <2>2. n \in Nat /\ Len(q) = n
    BY <1>7 DEF Texts
  <2>3. \A k \in 1..n : q[k] # LF
    BY <1>7
  <2> HIDE DEF t, n, tail
  <2>4. /\ t \in Texts /\ Len(t) = (3 + n) + 1
        /\ \A i \in 1..3 : t[i] = head[i]
        /\ \A i \in 1..n : t[3 + i] = q[i]
        /\ \A i \in 1..1 : t[(3 + n) + i] = tail[i]
    BY <1>9, <2>1, <2>2 DEF Around
  <2>5. t[1] = " " /\ t[2] = Slashes /\ t[3] = " "
    <3>1. 1 \in 1..3 /\ 2 \in 1..3 /\ 3 \in 1..3
      OBVIOUS
    <3> QED
      BY <1>9, <2>4, <3>1
  <2>6. t[all] = LF
    <3>1. 1 \in 1..1
      OBVIOUS
    <3>2. t[(3 + n) + 1] = tail[1]
      BY <2>4, <3>1
    <3> QED
      BY <1>9, <3>2
  <2>7. /\ e \in Nat /\ all \in Nat /\ all = e + 1 /\ 2 \in 1..all /\ e \in 2..(all - 1)
        /\ Len(t) = all
    BY <2>2, <2>4
  <2>8. \A k \in 1..(2 - 1) : t[k] \in White
    <3>1. \A k \in 1..(2 - 1) : k = 1
      OBVIOUS
    <3> QED
      BY <1>4, <2>5, <3>1
  <2>9. ASSUME NEW k \in 2..e PROVE t[k] # LF
    <3>1. CASE k = 2 \/ k = 3
      BY <1>3, <2>5, <3>1
    <3>2. CASE k > 3
      <4>1. k - 3 \in 1..n /\ 3 + (k - 3) = k
        BY <2>2, <3>2
      <4> QED
        BY <2>3, <2>4, <4>1
    <3>3. k = 2 \/ k = 3 \/ k > 3
      BY <2>2
    <3> QED
      BY <3>1, <3>2, <3>3
  <2> HIDE DEF e, all
  <2>10. \A k \in (e + 1)..all : t[k] \in White
    <3>1. \A k \in (e + 1)..all : k = all
      BY <2>7
    <3> QED
      BY <1>4, <2>6, <3>1
  <2>11. OneLine(t, all, 2, e)
    BY <2>5, <2>6, <2>7, <2>8, <2>9, <2>10 DEF OneLine
  <2> QED
    BY <2>4, <2>11, LineOfComment
<1>12. CASE words = <<>>
  <2>1. InlineComment(text) = <<>>
    BY <1>10, <1>12
  <2>2. <<>> \in Texts /\ <<>> \o <<LF>> = <<LF>>
    BY EmptySeq, ConcatEmptySeq DEF Texts
  <2> QED
    BY <2>1, <2>2, LineBreak
<1>13. CASE words # <<>>
  <2>1. InlineComment(text) = head \o q
    BY <1>10, <1>13
  <2>2. head \o q \in Texts
    BY <1>7, <1>8, Joint
  <2> QED
    BY <1>11, <2>1, <2>2
<1> QED
  BY <1>12, <1>13

LEMMA SourceLineIsOne ==
  ASSUME NEW table \in AnyTable
  PROVE  Comment(SourceLine(table))
<1> DEFINE n == Len(table)
           TextAt(i) == IF table[i] \in Control THEN "escape sequence" ELSE table[i]
           q == [i \in 1..n |-> TextAt(i)]
           head == <<Slashes, " ", "source: ">>
           tail == <<LF, LF>>
           t == (head \o q) \o tail
<1>1. /\ n \in Nat /\ DOMAIN table = 1..n
      /\ \A i \in 1..n : table[i] \in Given
  <2>1. table \in Seq(Symbol) /\ Range(table) = {table[k] : k \in DOMAIN table}
    BY TextAssumption DEF Range
  <2>2. Range(table) \subseteq Given
    BY DEF Given
  <2> QED
    BY <2>1, <2>2
<1>2. SourceLine(table) = t
  BY <1>1 DEF SourceLine
<1> HIDE DEF n
<1>3. /\ {LF, NotUTF8} \subseteq Control /\ LF \in White
      /\ LF \in Good /\ Slashes \in Good /\ " " \in Good /\ "source: " \in Good /\ "escape sequence" \in Good
      /\ LF \notin {" ", Slashes, "source: ", "escape sequence"}
  BY Tokens, WhiteAssumption DEF Token
<1>4. ASSUME NEW i \in 1..n
      PROVE  TextAt(i) \in Good /\ TextAt(i) # LF
  <2>1. CASE table[i] \in Control
    BY <1>3, <2>1
  <2>2. CASE table[i] \notin Control
    BY <1>1, <1>3, <2>2 DEF Good
  <2> QED
    BY <2>1, <2>2
<1> HIDE DEF TextAt
<1>5. q \in Texts /\ Len(q) = n /\ \A i \in 1..n : q[i] # LF
  <2>1. q \in Seq(Good) /\ Len(q) = n
    BY <1>1, <1>4
  <2>2. \A i \in 1..n : q[i] # LF
    BY <1>4
  <2> QED
    BY <2>1, <2>2 DEF Texts
<1>6. head \in Texts /\ tail \in Texts
  BY <1>3, ThreeWords, TwoWords
<1>7. /\ Len(head) = 3 /\ head[1] = Slashes /\ head[2] = " " /\ head[3] = "source: "
      /\ Len(tail) = 2 /\ tail[1] = LF /\ tail[2] = LF
  OBVIOUS
<1> HIDE DEF head, tail, q
<1>8. Around(t, head, q, tail)
  BY <1>5, <1>6, PutAround
<1> DEFINE e == 3 + n
           all == (3 + n) + 2
<1> HIDE DEF t
<1>9. /\ t \in Texts /\ Len(t) = (3 + n) + 2
      /\ \A i \in 1..3 : t[i] = head[i]
      /\ \A i \in 1..n : t[3 + i] = q[i]
      /\ \A i \in 1..2 : t[(3 + n) + i] = tail[i]
  BY <1>1, <1>5, <1>7, <1>8 DEF Around
<1>10. t[1] = Slashes /\ t[1] # LF /\ t[2] # LF /\ t[3] # LF
  <2>1. 1 \in 1..3 /\ 2 \in 1..3 /\ 3 \in 1..3
    OBVIOUS
  <2> QED
    BY <1>3, <1>7, <1>9, <2>1
<1>11. t[e + 1] = LF /\ t[e + 2] = LF
  <2>1. 1 \in 1..2 /\ 2 \in 1..2
    OBVIOUS
  <2> QED
    BY <1>7, <1>9, <2>1
<1>12. /\ e \in Nat /\ all \in Nat /\ all = e + 2 /\ 1 \in 1..all /\ e \in 1..(all - 1)
       /\ Len(t) = all
  BY <1>1, <1>9
<1>13. ASSUME NEW k \in 1..e PROVE t[k] # LF
  <2>1. CASE k = 1 \/ k = 2 \/ k = 3
    BY <1>10, <2>1
  <2>2. CASE k > 3
    <3>1. k - 3 \in 1..n /\ 3 + (k - 3) = k
      BY <1>1, <2>2
    <3> QED
      BY <1>5, <1>9, <3>1
  <2>3. k = 1 \/ k = 2 \/ k = 3 \/ k > 3
    BY <1>1
  <2> QED
    BY <2>1, <2>2, <2>3
<1> HIDE DEF e, all
<1>14. \A k \in (e + 1)..all : t[k] \in White
  <2>1. \A k \in (e + 1)..all : k = e + 1 \/ k = e + 2
    BY <1>12
  <2> QED
    BY <1>3, <1>11, <2>1
<1>15. t[all] = LF
  BY <1>11, <1>12
<1>16. \A k \in 1..(1 - 1) : t[k] \in White
  OBVIOUS
<1>17. OneLine(t, all, 1, e)
  BY <1>10, <1>12, <1>13, <1>14, <1>15, <1>16 DEF OneLine
<1> QED
  BY <1>2, <1>9, <1>17, LineOfComment DEF t

-----------------------------------------------------------------------------
(* The steps that write.                                                   *)
FieldInv ==
  /\ column \in Columns
  /\ stage = "file" => source \in Texts /\ Ended(source) /\ Code(source) = <<"field">>
  /\ stage = "written" => source \in Texts /\ Code(source) = <<"type", "field", "}">>

LEMMA CodeOfTokens ==
  /\ \A word \in {"type", "field", "}"} :
       <<word>> \in Texts /\ Code(<<word>>) = <<word>> /\ Ended(<<word>>)
<1> SUFFICES ASSUME NEW word \in {"type", "field", "}"}
             PROVE  <<word>> \in Texts /\ Code(<<word>>) = <<word>> /\ Ended(<<word>>)
  OBVIOUS
<1>1. word \in Good /\ word # Slashes /\ word \notin White
  BY Tokens, CodeAssumption DEF Token
<1> QED
  BY <1>1, OneWord, CodeOfWord

LEMMA CommentParts ==
  ASSUME NEW text, Comment(text)
  PROVE  text \in Texts /\ Ended(text) /\ Code(text) = <<>>
BY CodeOfComment DEF Comment

LEMMA FieldWritten ==
  ASSUME column \in Columns, WriteField
  PROVE  source' \in Texts /\ Ended(source') /\ Code(source') = <<"field">>
<1> DEFINE above  == IF settings.comments = "line" THEN LineComment(column.comment) ELSE <<>>
           inline == (IF settings.comments = "inline" THEN InlineComment(column.comment) ELSE <<>>) \o <<LF>>
           word   == <<"field">>
<1>1. column.comment \in AnyComment
  BY DEF Columns
<1>2. source' = (above \o word) \o inline
  BY DEF WriteField
<1>3. Comment(above)
  BY <1>1, LineCommentIsOne, NoComment
<1>4. Comment(inline)
  <2>1. <<>> \o <<LF>> = <<LF>>
    BY EmptySeq, ConcatEmptySeq, LineBreak DEF Comment, Texts
  <2> QED
    BY <1>1, <2>1, InlineCommentIsOne, LineBreak
<1>5. word \in Texts /\ Code(word) = word /\ Ended(word)
  BY CodeOfTokens
<1> HIDE DEF above, inline, word
<1>6. /\ above \in Texts /\ Ended(above) /\ Code(above) = <<>>
      /\ inline \in Texts /\ Ended(inline) /\ Code(inline) = <<>>
  BY <1>3, <1>4, CommentParts
<1>7. above \o word \in Texts /\ Ended(above \o word) /\ Code(above \o word) = <<>> \o word
  <2>1. above \o word \in Texts
    BY <1>5, <1>6, Joint
  <2>2. Ended(above \o word)
    BY <1>5, <1>6, EndedInARow
  <2>3. Code(above \o word) = Code(above) \o Code(word)
    BY <1>5, <1>6, CodeInARow
  <2> QED
    BY <1>5, <1>6, <2>1, <2>2, <2>3
<1>8. /\ (above \o word) \o inline \in Texts /\ Ended((above \o word) \o inline)
      /\ Code((above \o word) \o inline) = (<<>> \o word) \o <<>>
  BY <1>6, <1>7, Joint, EndedInARow, CodeInARow
<1>9. (<<>> \o word) \o <<>> = word
  BY <1>5, ConcatEmptySeq DEF Texts
<1> QED
  BY <1>2, <1>8, <1>9 DEF word

LEMMA OneMoreToken ==
  ASSUME NEW S, NEW s \in Seq(S), NEW t \in Seq(S), NEW u \in Seq(S),
         Len(u) = Len(s) + 1, Len(t) = 1, \A i \in 1..Len(s) : u[i] = s[i],
         u[Len(s) + 1] = t[1]
  PROVE  s \o t = u
<1>1. /\ s \o t \in Seq(S)
      /\ Len(s \o t) = Len(s) + Len(t)
      /\ \A i \in 1..(Len(s) + Len(t)) :
           (s \o t)[i] = IF i <= Len(s) THEN s[i] ELSE t[i - Len(s)]
  BY ConcatProperties
<1>2. Len(s) \in Nat
  OBVIOUS
<1> DEFINE w == s \o t
<1>3. ASSUME NEW i \in 1..Len(w) PROVE w[i] = u[i]
  <2>1. CASE i <= Len(s)
    <3>1. i \in 1..Len(s)
      BY <1>1, <1>2, <2>1
    <3> QED
      BY <1>1, <1>2, <2>1, <3>1
  <2>2. CASE i > Len(s)
    <3>1. i = Len(s) + 1 /\ i - Len(s) = 1 /\ i \in 1..(Len(s) + Len(t))
      BY <1>1, <1>2, <2>2
    <3>2. w[i] = t[i - Len(s)]
      BY <1>1, <1>2, <2>2, <3>1
    <3> QED
      BY <3>1, <3>2
  <2> QED
    BY <1>1, <1>2, <2>1, <2>2
<1>4. w \in Seq(S) /\ Len(w) = Len(u)
  BY <1>1
<1> HIDE DEF w
<1>5. w = u
  BY <1>3, <1>4, SeqEqual
<1> QED
  BY <1>5 DEF w

LEMMA ThreeTokens ==
  ASSUME NEW a, NEW b, NEW c
  PROVE  (<<a>> \o <<b>>) \o <<c>> = <<a, b, c>>
<1> DEFINE S == {a, b, c}
           one == <<a>>
           next == <<b>>
           last == <<c>>
           two == <<a, b>>
           all == <<a, b, c>>
<1>1. /\ Len(one) = 1 /\ one[1] = a /\ Len(next) = 1 /\ next[1] = b
      /\ Len(last) = 1 /\ last[1] = c
  OBVIOUS
<1>2. Len(two) = 2 /\ two[1] = a /\ two[2] = b
  OBVIOUS
<1>3. Len(all) = 3 /\ all[1] = a /\ all[2] = b /\ all[3] = c
  OBVIOUS
<1>4. one \in Seq(S) /\ next \in Seq(S) /\ last \in Seq(S)
  OBVIOUS
<1>5. two \in Seq(S)
  OBVIOUS
<1>6. all \in Seq(S)
  OBVIOUS
<1> HIDE DEF S, one, next, last, two, all
<1>7. one \o next = two
  <2>1. \A i \in 1..Len(one) : two[i] = one[i]
    BY <1>1, <1>2
  <2>2. Len(two) = Len(one) + 1 /\ two[Len(one) + 1] = next[1]
    BY <1>1, <1>2
  <2> QED
    BY <1>1, <1>4, <1>5, <2>1, <2>2, OneMoreToken
<1>8. two \o last = all
  <2>1. \A i \in 1..Len(two) : all[i] = two[i]
    <3>1. \A i \in 1..2 : i = 1 \/ i = 2
      OBVIOUS
    <3> QED
      BY <1>2, <1>3, <3>1
  <2>2. Len(all) = Len(two) + 1 /\ all[Len(two) + 1] = last[1]
    BY <1>1, <1>2, <1>3
  <2> QED
    BY <1>1, <1>4, <1>5, <1>6, <2>1, <2>2, OneMoreToken
<1>9. (one \o next) \o last = all
  BY <1>7, <1>8
<1> QED
  BY <1>9 DEF one, next, last, all

LEMMA FileWritten ==
  ASSUME column \in Columns, WriteFile,
         source \in Texts, Ended(source), Code(source) = <<"field">>
  PROVE  source' \in Texts /\ Code(source') = <<"type", "field", "}">>
<1> DEFINE header == IF settings.header THEN SourceLine(column.table) ELSE <<>>
           above  == IF settings.comments = "off" THEN <<>> ELSE LineComment(column.comment)
           type   == <<"type", LF>>
           closed == <<"}">>
           a == header \o above
           b == a \o type
           c == b \o source
           d == c \o closed
<1>1. column.comment \in AnyComment /\ column.table \in AnyTable
  BY DEF Columns
<1>2. source' = d
  BY DEF WriteFile
<1>3. Comment(header) /\ Comment(above)
  BY <1>1, SourceLineIsOne, LineCommentIsOne, NoComment
<1>4. type \in Texts /\ Ended(type) /\ Code(type) = <<"type">>
  <2> DEFINE word == <<"type">>
             break == <<LF>>
  <2>1. word \in Texts /\ Code(word) = word /\ Ended(word)
    BY CodeOfTokens
  <2>2. break \in Texts /\ Code(break) = <<>> /\ Ended(break)
    BY LineBreak, CommentParts
  <2>3. type = word \o break
    OBVIOUS
  <2> HIDE DEF word, break, type
  <2>4. word \o break \in Texts
    BY <2>1, <2>2, Joint
  <2>5. Ended(word \o break)
    BY <2>1, <2>2, EndedInARow
  <2>6. Code(word \o break) = word \o <<>>
    BY <2>1, <2>2, CodeInARow
  <2>7. word \o <<>> = word
    BY <2>1, ConcatEmptySeq DEF Texts
  <2> QED
    BY <2>3, <2>4, <2>5, <2>6, <2>7 DEF word
<1>5. closed \in Texts /\ Code(closed) = closed
  BY CodeOfTokens
<1> HIDE DEF header, above, type, closed
<1>6. Comment(a)
  BY <1>3, CommentInARow
<1>7. a \in Texts /\ Ended(a) /\ Code(a) = <<>>
  BY <1>6, CommentParts
<1> HIDE DEF a
<1>8. b \in Texts /\ Ended(b) /\ Code(b) = <<"type">>
  <2>1. b \in Texts
    BY <1>4, <1>7, Joint
  <2>2. Ended(b)
    BY <1>4, <1>7, EndedInARow
  <2>3. Code(b) = Code(a) \o Code(type)
    BY <1>4, <1>7, CodeInARow
  <2>4. Code(type) \in Texts
    BY <1>4, CodeTyped
  <2>5. <<>> \o Code(type) = Code(type)
    BY <2>4, ConcatEmptySeq DEF Texts
  <2> QED
    BY <1>4, <1>7, <2>1, <2>2, <2>3, <2>5
<1> HIDE DEF b
<1>9. c \in Texts /\ Ended(c) /\ Code(c) = <<"type">> \o <<"field">>
  <2>1. c \in Texts
    BY <1>8, Joint
  <2>2. Ended(c)
    BY <1>8, EndedInARow
  <2>3. Code(c) = Code(b) \o Code(source)
    BY <1>8, CodeInARow
  <2> QED
    BY <1>8, <2>1, <2>2, <2>3
<1> HIDE DEF c
<1>10. d \in Texts /\ Code(d) = (<<"type">> \o <<"field">>) \o <<"}">>
  <2>1. d \in Texts
    BY <1>5, <1>9, Joint
  <2>2. Code(d) = Code(c) \o Code(closed)
    BY <1>5, <1>9, CodeInARow
  <2> QED
    BY <1>5, <1>9, <2>1, <2>2 DEF closed
<1>11. (<<"type">> \o <<"field">>) \o <<"}">> = <<"type", "field", "}">>
  BY ThreeTokens
<1> QED
  BY <1>2, <1>10, <1>11

LEMMA FieldStep ==
  ASSUME FieldInv, [FieldNext]_allVars
  PROVE  FieldInv'
<1>1. CASE WriteField
  <2>1. source' \in Texts /\ Ended(source') /\ Code(source') = <<"field">>
    BY <1>1, FieldWritten DEF FieldInv
  <2>2. stage' = "file" /\ column' = column
    BY <1>1 DEF WriteField, Generate
  <2> QED
    BY <2>1, <2>2 DEF FieldInv, Ended, Code, IsCode, InComment
<1>2. CASE WriteFile
  <2>1. stage = "file" /\ stage' = "written" /\ column' = column
    BY <1>2 DEF WriteFile, vars
  <2>2. source' \in Texts /\ Code(source') = <<"type", "field", "}">>
    BY <1>2, <2>1, FileWritten DEF FieldInv
  <2> QED
    BY <2>1, <2>2 DEF FieldInv, Code, IsCode, InComment
<1>3. CASE NameStruct \/ RefuseTable \/ NameField \/ RefuseColumn \/ PanicAtColumn
  <2>1. stage' \notin {"file", "written"} /\ column' = column
    BY <1>3 DEF NameStruct, RefuseTable, NameField, RefuseColumn, PanicAtColumn, vars
  <2> QED
    BY <2>1 DEF FieldInv
<1>4. CASE ReadTag \/ UNCHANGED allVars
  <2>1. stage' = stage /\ source' = source /\ column' = column
    BY <1>4 DEF ReadTag, Lookup, LookupFails, Parse, allVars, fieldVars, vars
  <2> QED
    BY <2>1 DEF FieldInv, Ended, Code, IsCode, InComment
<1> QED
  BY <1>1, <1>2, <1>3, <1>4 DEF FieldNext

(* Whatever the database has in its comments and in the name of the table, *)
(* the file is the struct and its field, and valid UTF-8.                  *)
THEOREM FieldCommentsStayComments == FieldSpec => []CommentsStayComments
<1>1. FieldInit => FieldInv
  BY DEF FieldInit, Started, FieldInv
<1>2. FieldInv /\ [FieldNext]_allVars => FieldInv'
  BY FieldStep
<1>3. FieldInv => CommentsStayComments
  <2> SUFFICES ASSUME FieldInv, stage = "written"
               PROVE  Code(source) = <<"type", "field", "}">> /\ ~Has(source, {NotUTF8})
    BY DEF CommentsStayComments
  <2>1. source \in Texts /\ Code(source) = <<"type", "field", "}">>
    BY DEF FieldInv
  <2>2. \A i \in DOMAIN source : source[i] \in Good
    <3>1. source \in Seq(Good)
      BY <2>1 DEF Texts
    <3> QED
      BY <3>1, ElementOfSeq, LenProperties
  <2> QED
    BY <2>1, <2>2, Tokens DEF Has
<1> QED
  BY <1>1, <1>2, <1>3, PTL DEF FieldSpec
=============================================================================
