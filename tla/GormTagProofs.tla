--------------------------- MODULE GormTagProofs ---------------------------
(***************************************************************************)
(* Proofs about GormTag, in FieldText, for names and defaults of any       *)
(* length: what the tags of a column are read back as, and, with what      *)
(* NamesProofs has of the names that are accepted, that these do no harm.  *)
(***************************************************************************)
EXTENDS NamesProofs

(* What a tag is made of.                                                  *)
Words == {"column", "primaryKey", "default", "json", ":", ";", " ", "t", LF, Quote, Backslash, Tab}
Foreign == UNION {Range(text) : text \in AnyDefault}
Sign == Words \cup Symbol \cup Foreign
Line == Seq(Sign)

(* Text whose backslashes are those that escape a quote or a semicolon.    *)
Straight == Sign \ {Backslash}

LEMMA WordsDiffer ==
  /\ Words \subseteq Sign
  /\ Backslash \notin {"column", "primaryKey", "default", "json", ":", ";", " ", "t", LF, Quote, Tab}
  /\ Quote \notin {"column", "primaryKey", "default", "json", ":", ";", " ", "t", LF, Tab}
  /\ ";" \notin {"column", "primaryKey", "default", "json", ":", " ", "t", LF, Tab}
  /\ ":" \notin {"column", "primaryKey", "default", "json"}
  /\ LF \notin {"column", "primaryKey", "default", "json", ":", " "}
<1>1. Words \subseteq Sign
  BY DEF Sign
<1>2. Backslash \notin {"column", "primaryKey", "default", "json", ":", ";", " ", "t", LF, Quote, Tab}
  BY DEF Backslash, Quote, LF, Tab
<1>3. Quote \notin {"column", "primaryKey", "default", "json", ":", ";", " ", "t", LF, Tab}
  BY DEF Quote, LF, Tab
<1>4. ";" \notin {"column", "primaryKey", "default", "json", ":", " ", "t", LF, Tab}
  BY DEF LF, Tab
<1>5. ":" \notin {"column", "primaryKey", "default", "json"}
  OBVIOUS
<1>6. LF \notin {"column", "primaryKey", "default", "json", ":", " "}
  BY DEF LF
<1> QED
  BY <1>1, <1>2, <1>3, <1>4, <1>5, <1>6

LEMMA LineLength ==
  ASSUME NEW t \in Line
  PROVE  Len(t) \in Nat /\ DOMAIN t = 1..Len(t) /\ \A i \in 1..Len(t) : t[i] \in Sign
BY LenProperties, ElementOfSeq DEF Line

LEMMA LinesInARow ==
  ASSUME NEW a \in Line, NEW b \in Line
  PROVE  /\ a \o b \in Line /\ Len(a) \in Nat /\ Len(b) \in Nat
         /\ Len(a \o b) = Len(a) + Len(b)
         /\ \A i \in 1..Len(a) : (a \o b)[i] = a[i]
         /\ \A i \in 1..Len(b) : (a \o b)[Len(a) + i] = b[i]
BY InARow DEF Line

LEMMA LinesAssociate ==
  ASSUME NEW a \in Line, NEW b \in Line, NEW c \in Line
  PROVE  (a \o b) \o c = a \o (b \o c)
BY ConcatAssociative DEF Line

LEMMA Cut ==
  ASSUME NEW t \in Line, NEW x \in Nat, NEW n \in Nat, x + n <= Len(t)
  PROVE  /\ SubSeq(t, x + 1, x + n) \in Line /\ Len(SubSeq(t, x + 1, x + n)) = n
         /\ \A i \in 1..n : SubSeq(t, x + 1, x + n)[i] = t[x + i]
<1> DEFINE a == x + 1
           b == x + n
           c == SubSeq(t, a, b)
<1>1. Len(t) \in Nat /\ \A i \in 1..Len(t) : t[i] \in Sign
  BY LineLength
<1>2. /\ a \in Int /\ b \in Int /\ b - a + 1 = n /\ \A i \in a..b : i \in 1..Len(t)
      /\ \A i \in 1..n : i \in 1..(b - a + 1) /\ a + i - 1 = x + i
      /\ a <= b \/ (n = 0 /\ ~(a <= b))
  BY <1>1
<1> HIDE DEF a, b
<1>3. \A i \in a..b : t[i] \in Sign
  BY <1>1, <1>2
<1>4. /\ c \in Seq(Sign) /\ Len(c) = IF a <= b THEN b - a + 1 ELSE 0
      /\ \A i \in 1..(b - a + 1) : c[i] = t[a + i - 1]
  BY <1>2, <1>3, SubSeqProperties
<1> HIDE DEF c
<1>5. c \in Seq(Sign) /\ Len(c) = n
  BY <1>2, <1>4
<1>6. \A i \in 1..n : c[i] = t[x + i]
  BY <1>2, <1>4
<1> QED
  BY <1>5, <1>6 DEF Line, a, b, c

LEMMA CutFirst ==
  ASSUME NEW t \in Line, NEW n \in Nat, n <= Len(t)
  PROVE  /\ SubSeq(t, 1, n) \in Line /\ Len(SubSeq(t, 1, n)) = n
         /\ \A i \in 1..n : SubSeq(t, 1, n)[i] = t[i]
<1> DEFINE o == 0
<1>1. o \in Nat /\ o + n <= Len(t) /\ o + 1 = 1 /\ o + n = n /\ \A i \in 1..n : o + i = i
  OBVIOUS
<1> HIDE DEF o
<1>2. /\ SubSeq(t, o + 1, o + n) \in Line /\ Len(SubSeq(t, o + 1, o + n)) = n
      /\ \A i \in 1..n : SubSeq(t, o + 1, o + n)[i] = t[o + i]
  BY <1>1, Cut
<1> QED
  BY <1>1, <1>2

(* The same with a name for the row: the provers take it as it is.         *)
Row(a, b) == a \o b

LEMMA RowsOfLines ==
  /\ \A a, b \in Line : Row(a, b) \in Line
  /\ \A a, b, c \in Line : Row(Row(a, b), c) = Row(a, Row(b, c))
BY LinesInARow, LinesAssociate DEF Row

LEMMA EmptyLine ==
  /\ <<>> \in Line
  /\ \A a \in Line : a \o <<>> = a /\ <<>> \o a = a
BY EmptySeq, ConcatEmptySeq DEF Line

-----------------------------------------------------------------------------
(* Which characters are escaped.                                           *)
Escapes(g, text, n) == g = [i \in 1..n |-> i > 1 /\ text[i - 1] = Backslash /\ ~g[i - 1]]

LEMMA EscapesExist ==
  ASSUME NEW text, NEW n \in Nat
  PROVE  \E g : Escapes(g, text, n)
<1> DEFINE T == {m \in Nat : \E g : Escapes(g, text, m)}
<1>1. 0 \in T
  <2>1. Escapes([i \in 1..0 |-> FALSE], text, 0)
    BY DEF Escapes
  <2> QED
    BY <2>1
<1>2. ASSUME NEW m \in Nat, NEW g, Escapes(g, text, m)
      PROVE  \E h : Escapes(h, text, m + 1)
  <2> DEFINE Value(i) == i > 1 /\ text[i - 1] = Backslash /\ ~g[i - 1]
             h == [i \in 1..(m + 1) |-> Value(i)]
  <2>1. \A i \in 1..m : g[i] = Value(i)
    <3>1. g = [i \in 1..m |-> Value(i)]
      BY <1>2 DEF Escapes
    <3> HIDE DEF Value
    <3> QED
      BY <3>1
  <2>2. \A i \in 1..m : h[i] = g[i]
    <3> HIDE DEF Value
    <3> QED
      BY <2>1
  <2>3. \A i \in 1..(m + 1) : i > 1 => i - 1 \in 1..m
    OBVIOUS
  <2>4. \A i \in 1..(m + 1) : Value(i) = (i > 1 /\ text[i - 1] = Backslash /\ ~h[i - 1])
    <3> HIDE DEF h
    <3> QED
      BY <2>2, <2>3
  <2>5. h = [i \in 1..(m + 1) |-> i > 1 /\ text[i - 1] = Backslash /\ ~h[i - 1]]
    <3> HIDE DEF Value
    <3> SUFFICES h = [i \in 1..(m + 1) |-> Value(i)]
      BY <2>4
    <3> QED
      OBVIOUS
  <2> HIDE DEF h
  <2> QED
    BY <2>5 DEF Escapes
<1>3. \A m \in Nat : m \in T => m + 1 \in T
  BY <1>2
<1> HIDE DEF T
<1>4. n \in T
  BY <1>1, <1>3, Induction
<1> QED
  BY <1>4 DEF T

(* The places of the characters that are escaped.                          *)
Places(text) == {i \in 1..Len(text) : Escaped(text)[i]}

LEMMA PlacesAre ==
  ASSUME NEW t \in Line, NEW i \in 1..Len(t)
  PROVE  i \in Places(t) <=> i > 1 /\ t[i - 1] = Backslash /\ i - 1 \notin Places(t)
<1> DEFINE g == Escaped(t)
           n == Len(t)
<1>1. n \in Nat
  BY LineLength
<1>2. g = CHOOSE h : h = [j \in 1..n |-> j > 1 /\ t[j - 1] = Backslash /\ ~h[j - 1]]
  BY DEF Escaped
<1> HIDE DEF g, n
<1>3. Escapes(g, t, n)
  <2>1. \E h : h = [j \in 1..n |-> j > 1 /\ t[j - 1] = Backslash /\ ~h[j - 1]]
    BY <1>1, EscapesExist DEF Escapes
  <2>2. g = [j \in 1..n |-> j > 1 /\ t[j - 1] = Backslash /\ ~g[j - 1]]
    BY <1>2, <2>1
  <2> QED
    BY <2>2 DEF Escapes
<1>4. \A j \in 1..n : g[j] = (j > 1 /\ t[j - 1] = Backslash /\ ~g[j - 1])
  <2> DEFINE Value(j) == j > 1 /\ t[j - 1] = Backslash /\ ~g[j - 1]
  <2>1. g = [j \in 1..n |-> Value(j)]
    BY <1>3 DEF Escapes
  <2> HIDE DEF Value
  <2>2. \A j \in 1..n : g[j] = Value(j)
    BY <2>1
  <2> QED
    BY <2>2 DEF Value
<1>5. \A j : j \in Places(t) <=> j \in 1..n /\ g[j]
  BY DEF Places, g, n
<1>6. i \in 1..n /\ (i > 1 => i - 1 \in 1..n)
  BY <1>1 DEF n
<1> QED
  BY <1>4, <1>5, <1>6

(* No backslash at the end waits for a character.                          *)
Closed(text) == Len(text) = 0 \/ text[Len(text)] # Backslash \/ Len(text) \in Places(text)

(* What comes after does not matter, ...                                   *)
LEMMA PlacesBefore ==
  ASSUME NEW a \in Line, NEW b \in Line
  PROVE  \A i \in 1..Len(a) : i \in Places(a \o b) <=> i \in Places(a)
<1> DEFINE c == a \o b
           m == Len(a)
           n == Len(c)
           T == {i \in Nat : i > m \/ (i \in Places(c) <=> i \in Places(a))}
<1>1. c \in Line /\ m \in Nat /\ n \in Nat /\ m <= n /\ \A i \in 1..m : c[i] = a[i]
  <2>1. /\ c \in Line /\ m \in Nat /\ Len(b) \in Nat /\ n = m + Len(b)
        /\ \A i \in 1..m : c[i] = a[i]
    BY LinesInARow
  <2> HIDE DEF c, m, n
  <2> QED
    BY <2>1
<1>2. \A i \in 1..m : i \in Places(a) <=> i > 1 /\ a[i - 1] = Backslash /\ i - 1 \notin Places(a)
  BY PlacesAre
<1>3. \A i \in 1..n : i \in Places(c) <=> i > 1 /\ c[i - 1] = Backslash /\ i - 1 \notin Places(c)
  BY <1>1, PlacesAre
<1> HIDE DEF c, m, n
<1>4. 1 \in T
  <2>1. 1 <= m => 1 \in 1..m /\ 1 \in 1..n
    BY <1>1
  <2> QED
    BY <1>1, <1>2, <1>3, <2>1
<1>5. \A i \in 1..(m - 1) : i \in T => i + 1 \in T
  <2> SUFFICES ASSUME NEW i \in 1..(m - 1), i \in Places(c) <=> i \in Places(a)
               PROVE  i + 1 \in Places(c) <=> i + 1 \in Places(a)
    BY <1>1
  <2>1. i \in 1..m /\ i + 1 \in 1..m /\ i + 1 \in 1..n /\ (i + 1) - 1 = i /\ i + 1 > 1
    BY <1>1
  <2>2. i + 1 \in Places(a) <=> a[i] = Backslash /\ i \notin Places(a)
    BY <1>2, <2>1
  <2>3. i + 1 \in Places(c) <=> c[i] = Backslash /\ i \notin Places(c)
    BY <1>3, <2>1
  <2> QED
    BY <1>1, <2>1, <2>2, <2>3
<1>6. \A i \in 1..m : i \in T
  <2> HIDE DEF T
  <2> QED
    BY <1>1, <1>4, <1>5, InductionUpTo
<1> QED
  BY <1>1, <1>6 DEF c, m

(* ... nor what comes before, if it is closed.                             *)
LEMMA PlacesBehind ==
  ASSUME NEW a \in Line, NEW b \in Line, Closed(a)
  PROVE  \A i \in 1..Len(b) : Len(a) + i \in Places(a \o b) <=> i \in Places(b)
<1> DEFINE c == a \o b
           m == Len(a)
           n == Len(b)
           T == {i \in Nat : i > n \/ (m + i \in Places(c) <=> i \in Places(b))}
<1>1. /\ c \in Line /\ m \in Nat /\ n \in Nat /\ Len(c) = m + n
      /\ \A i \in 1..m : c[i] = a[i]
      /\ \A i \in 1..n : c[m + i] = b[i]
  BY LinesInARow
<1>2. \A i \in 1..n : i \in Places(b) <=> i > 1 /\ b[i - 1] = Backslash /\ i - 1 \notin Places(b)
  BY PlacesAre
<1>3. \A i \in 1..(m + n) : i \in Places(c) <=> i > 1 /\ c[i - 1] = Backslash /\ i - 1 \notin Places(c)
  BY <1>1, PlacesAre
<1>4. m > 0 => (m \in Places(c) <=> m \in Places(a))
  BY <1>1, PlacesBefore
<1>5. m = 0 \/ a[m] # Backslash \/ m \in Places(a)
  BY DEF Closed
<1> HIDE DEF c, m, n
<1>6. 1 \in T
  <2> SUFFICES ASSUME 1 <= n PROVE m + 1 \in Places(c) <=> 1 \in Places(b)
    BY <1>1
  <2>1. 1 \in 1..n /\ m + 1 \in 1..(m + n) /\ (m + 1) - 1 = m
    BY <1>1
  <2>2. 1 \notin Places(b)
    BY <1>2, <2>1
  <2>3. m > 0 => m \in 1..m
    BY <1>1
  <2>4. m + 1 \notin Places(c)
    BY <1>1, <1>3, <1>4, <1>5, <2>1, <2>3
  <2> QED
    BY <2>2, <2>4
<1>7. \A i \in 1..(n - 1) : i \in T => i + 1 \in T
  <2> SUFFICES ASSUME NEW i \in 1..(n - 1), m + i \in Places(c) <=> i \in Places(b)
               PROVE  m + (i + 1) \in Places(c) <=> i + 1 \in Places(b)
    BY <1>1
  <2>1. /\ i \in 1..n /\ i + 1 \in 1..n /\ m + (i + 1) \in 1..(m + n)
        /\ (i + 1) - 1 = i /\ i + 1 > 1 /\ (m + (i + 1)) - 1 = m + i /\ m + (i + 1) > 1
    BY <1>1
  <2>2. i + 1 \in Places(b) <=> b[i] = Backslash /\ i \notin Places(b)
    BY <1>2, <2>1
  <2>3. m + (i + 1) \in Places(c) <=> c[m + i] = Backslash /\ m + i \notin Places(c)
    BY <1>3, <2>1
  <2> QED
    BY <1>1, <2>1, <2>2, <2>3
<1>8. \A i \in 1..n : i \in T
  <2> HIDE DEF T
  <2> QED
    BY <1>1, <1>6, <1>7, InductionUpTo
<1> QED
  BY <1>1, <1>8 DEF c, m, n

LEMMA ClosedInARow ==
  ASSUME NEW a \in Line, NEW b \in Line, Closed(a), Closed(b)
  PROVE  Closed(a \o b)
<1>1. /\ a \o b \in Line /\ Len(a) \in Nat /\ Len(b) \in Nat
      /\ Len(a \o b) = Len(a) + Len(b)
      /\ \A i \in 1..Len(b) : (a \o b)[Len(a) + i] = b[i]
  BY LinesInARow
<1>2. CASE Len(b) = 0
  <2>1. b = <<>>
    BY <1>2, EmptySeq DEF Line
  <2> QED
    BY <2>1, EmptyLine
<1>3. CASE Len(b) > 0
  <2>1. Len(b) \in 1..Len(b)
    BY <1>1, <1>3
  <2>2. (a \o b)[Len(a) + Len(b)] = b[Len(b)]
    BY <1>1, <2>1
  <2>3. Len(a) + Len(b) \in Places(a \o b) <=> Len(b) \in Places(b)
    BY <2>1, PlacesBehind
  <2>4. Len(b) # 0
    BY <1>3, <1>1
  <2> QED
    BY <1>1, <2>2, <2>3, <2>4 DEF Closed
<1> QED
  BY <1>1, <1>2, <1>3

-----------------------------------------------------------------------------
(* What a text is unquoted to, character by character.                     *)
Bit(text, i) ==
  IF i \in Places(text) THEN <<IF text[i] = "t" THEN Tab ELSE text[i]>>
  ELSE IF text[i] = Backslash THEN <<>> ELSE <<text[i]>>

Bits(text) == [i \in 1..Len(text) |-> Bit(text, i)]

LEMMA BitsAre ==
  ASSUME NEW t \in Line
  PROVE  /\ Bits(t) \in Seq(Line) /\ Len(Bits(t)) = Len(t)
         /\ \A i \in 1..Len(t) : Bits(t)[i] = Bit(t, i)
<1> DEFINE n == Len(t)
<1>1. n \in Nat /\ \A i \in 1..n : t[i] \in Sign
  BY LineLength
<1>2. Tab \in Sign
  BY WordsDiffer DEF Words
<1>3. \A s \in Sign : <<s>> \in Line
  BY DEF Line
<1>4. \A i \in 1..n : Bit(t, i) \in Line
  BY <1>1, <1>2, <1>3, EmptyLine DEF Bit
<1> HIDE DEF n
<1>5. [i \in 1..n |-> Bit(t, i)] \in Seq(Line)
  BY <1>1, <1>4
<1>6. /\ Len([i \in 1..n |-> Bit(t, i)]) = n
      /\ \A i \in 1..n : [j \in 1..n |-> Bit(t, j)][i] = Bit(t, i)
  BY <1>1
<1> QED
  BY <1>5, <1>6 DEF Bits, n

LEMMA UnquoteIs ==
  ASSUME NEW t \in Line
  PROVE  /\ Unquote(t) = FlattenSeq(Bits(t)) /\ Unquote(t) \in Line
         /\ CanUnquote(t) <=> \A i \in 1..Len(t) :
              t[i] # LF /\ (i \in Places(t) => t[i] \in {Quote, Backslash, "t"})
<1>1. DOMAIN t = 1..Len(t)
  BY LineLength
<1>2. \A i \in 1..Len(t) : Escaped(t)[i] <=> i \in Places(t)
  BY DEF Places
<1>3. Unquote(t) = FlattenSeq(Bits(t))
  <2> DEFINE Reading(i) == IF Escaped(t)[i] THEN <<IF t[i] = "t" THEN Tab ELSE t[i]>>
                        ELSE IF t[i] = Backslash THEN <<>> ELSE <<t[i]>>
  <2>1. \A i \in 1..Len(t) : Reading(i) = Bit(t, i)
    BY <1>2 DEF Bit
  <2>2. Unquote(t) = FlattenSeq([i \in 1..Len(t) |-> Reading(i)])
    BY <1>1 DEF Unquote
  <2> HIDE DEF Reading
  <2>3. [i \in 1..Len(t) |-> Reading(i)] = Bits(t)
    BY <2>1 DEF Bits
  <2> QED
    BY <2>2, <2>3
<1>4. Unquote(t) \in Line
  BY <1>3, BitsAre, FlattenTyped DEF Line
<1> QED
  BY <1>1, <1>2, <1>3, <1>4 DEF CanUnquote

LEMMA UnquoteInARow ==
  ASSUME NEW a \in Line, NEW b \in Line, Closed(a)
  PROVE  /\ Unquote(a \o b) = Unquote(a) \o Unquote(b)
         /\ CanUnquote(a \o b) <=> CanUnquote(a) /\ CanUnquote(b)
<1> DEFINE c == a \o b
<1>1. /\ c \in Line /\ Len(a) \in Nat /\ Len(b) \in Nat /\ Len(c) = Len(a) + Len(b)
      /\ \A i \in 1..Len(a) : c[i] = a[i]
      /\ \A i \in 1..Len(b) : c[Len(a) + i] = b[i]
  BY LinesInARow
<1>2. \A i \in 1..Len(a) : i \in Places(c) <=> i \in Places(a)
  BY PlacesBefore
<1>3. \A i \in 1..Len(b) : Len(a) + i \in Places(c) <=> i \in Places(b)
  BY PlacesBehind
<1> HIDE DEF c
<1>4. \A i \in 1..Len(a) : i \in 1..Len(c)
  BY <1>1
<1>5. \A i \in 1..Len(b) : Len(a) + i \in 1..Len(c)
  BY <1>1
<1>6. Unquote(c) = Unquote(a) \o Unquote(b)
  <2>1. \A i \in 1..Len(a) : Bit(c, i) = Bit(a, i)
    BY <1>1, <1>2 DEF Bit
  <2>2. \A i \in 1..Len(b) : Bit(c, Len(a) + i) = Bit(b, i)
    BY <1>1, <1>3 DEF Bit
  <2>3. /\ Bits(a) \in Seq(Line) /\ Len(Bits(a)) = Len(a)
        /\ \A i \in 1..Len(a) : Bits(a)[i] = Bit(a, i)
    BY BitsAre
  <2>4. /\ Bits(b) \in Seq(Line) /\ Len(Bits(b)) = Len(b)
        /\ \A i \in 1..Len(b) : Bits(b)[i] = Bit(b, i)
    BY BitsAre
  <2>5. /\ Bits(c) \in Seq(Line) /\ Len(Bits(c)) = Len(c)
        /\ \A i \in 1..Len(c) : Bits(c)[i] = Bit(c, i)
    BY <1>1, BitsAre
  <2>6. Bits(c) = Bits(a) \o Bits(b)
    <3>1. Len(Bits(c)) = Len(Bits(a)) + Len(Bits(b))
      BY <1>1, <2>3, <2>4, <2>5
    <3>2. \A i \in 1..Len(Bits(a)) : Bits(c)[i] = Bits(a)[i]
      BY <1>4, <2>1, <2>3, <2>5
    <3>3. \A i \in 1..Len(Bits(b)) : Bits(c)[Len(Bits(a)) + i] = Bits(b)[i]
      BY <1>5, <2>2, <2>3, <2>4, <2>5
    <3> QED
      BY ONLY <2>3, <2>4, <2>5, <3>1, <3>2, <3>3, RowIs
  <2>7. FlattenSeq(Bits(a) \o Bits(b)) = FlattenSeq(Bits(a)) \o FlattenSeq(Bits(b))
    BY ONLY <2>3, <2>4, FlattenInARow DEF Line
  <2> QED
    BY <1>1, <2>6, <2>7, UnquoteIs
<1>7. CanUnquote(c) <=> CanUnquote(a) /\ CanUnquote(b)
  <2> DEFINE Fine(t, i) == t[i] # LF /\ (i \in Places(t) => t[i] \in {Quote, Backslash, "t"})
  <2>1. \A i \in 1..Len(a) : Fine(c, i) <=> Fine(a, i)
    BY <1>1, <1>2
  <2>2. \A i \in 1..Len(b) : Fine(c, Len(a) + i) <=> Fine(b, i)
    BY <1>1, <1>3
  <2>3. \A t \in Line : CanUnquote(t) <=> \A i \in 1..Len(t) : Fine(t, i)
    BY UnquoteIs
  <2> HIDE DEF Fine
  <2>4. CanUnquote(c) => CanUnquote(a) /\ CanUnquote(b)
    BY <1>1, <1>4, <1>5, <2>1, <2>2, <2>3
  <2>5. ASSUME CanUnquote(a), CanUnquote(b), NEW i \in 1..Len(c) PROVE Fine(c, i)
    <3>1. i \in 1..Len(a) \/ \E j \in 1..Len(b) : i = Len(a) + j
      BY <1>1, PlaceInARow DEF Line
    <3> QED
      BY <2>1, <2>2, <2>3, <2>5, <3>1
  <2> QED
    BY <1>1, <2>3, <2>4, <2>5
<1> QED
  BY <1>6, <1>7 DEF c

(* A text that stands for another one: no backslash waits, no quote ends   *)
(* it, and that is what it is unquoted to.                                 *)
Sealed(text) == \A i \in 1..Len(text) : text[i] = Quote => i \in Places(text)
Stands(text, for) == Closed(text) /\ Sealed(text) /\ Unquote(text) = for

LEMMA StandsInARow ==
  ASSUME NEW a \in Line, NEW b \in Line, NEW t \in Line, NEW u \in Line,
         Stands(a, t), Stands(b, u)
  PROVE  Stands(a \o b, t \o u)
<1>1. /\ a \o b \in Line /\ Len(a) \in Nat /\ Len(b) \in Nat /\ Len(a \o b) = Len(a) + Len(b)
      /\ \A i \in 1..Len(a) : (a \o b)[i] = a[i]
      /\ \A i \in 1..Len(b) : (a \o b)[Len(a) + i] = b[i]
  BY LinesInARow
<1>2. Closed(a) /\ Closed(b) /\ Sealed(a) /\ Sealed(b) /\ Unquote(a) = t /\ Unquote(b) = u
  BY DEF Stands
<1>3. Closed(a \o b)
  BY <1>2, ClosedInARow
<1>4. Unquote(a \o b) = t \o u
  BY <1>2, UnquoteInARow
<1>5. ASSUME NEW i \in 1..Len(a \o b), (a \o b)[i] = Quote
      PROVE  i \in Places(a \o b)
  <2>1. i \in 1..Len(a) \/ \E j \in 1..Len(b) : i = Len(a) + j
    BY <1>1, PlaceInARow DEF Line
  <2>2. CASE i \in 1..Len(a)
    BY <1>1, <1>2, <1>5, <2>2, PlacesBefore DEF Sealed
  <2>3. CASE \E j \in 1..Len(b) : i = Len(a) + j
    BY <1>1, <1>2, <1>5, <2>3, PlacesBehind DEF Sealed
  <2> QED
    BY <2>1, <2>2, <2>3
<1> QED
  BY <1>3, <1>4, <1>5 DEF Stands, Sealed

LEMMA OneSign ==
  ASSUME NEW s \in Sign
  PROVE  /\ <<s>> \in Line
         /\ Places(<<s>>) = {}
         /\ s # Backslash => Unquote(<<s>>) = <<s>> /\ Closed(<<s>>)
         /\ CanUnquote(<<s>>) <=> s # LF
         /\ s \notin {Backslash, Quote} => Stands(<<s>>, <<s>>)
<1> DEFINE t == <<s>>
<1>1. t \in Line /\ Len(t) = 1 /\ t[1] = s /\ \A i \in 1..1 : i = 1
  BY DEF Line
<1> HIDE DEF t
<1>2. Places(t) = {}
  <2>1. 1 \notin Places(t)
    BY <1>1, PlacesAre
  <2> QED
    BY <1>1, <2>1 DEF Places
<1>3. ASSUME s # Backslash PROVE Unquote(t) = t
  <2>1. Bits(t) \in Seq(Line) /\ Len(Bits(t)) = 1 /\ Bits(t)[1] = t
    <3>1. Bit(t, 1) = <<s>>
      BY <1>1, <1>2, <1>3 DEF Bit
    <3>2. Bits(t) \in Seq(Line) /\ Len(Bits(t)) = Len(t) /\ \A i \in 1..Len(t) : Bits(t)[i] = Bit(t, i)
      BY <1>1, BitsAre
    <3> QED
      BY <1>1, <3>1, <3>2 DEF t
  <2> DEFINE list == Bits(t)
  <2>2. Len(list) > 0 /\ Len(list) # 0
    BY <2>1
  <2>3. FlattenSeq(list) = list[1]
    <3>1. Joined(list)[1] = list[1] /\ FlattenSeq(list) = Joined(list)[Len(list)]
      BY <2>1, <2>2, JoinedSteps
    <3> QED
      BY <2>1, <3>1
  <2> QED
    BY <1>1, <2>1, <2>3, UnquoteIs
<1>4. CanUnquote(t) <=> s # LF
  BY <1>1, <1>2, UnquoteIs
<1>5. s # Backslash => Closed(t)
  BY <1>1 DEF Closed
<1>6. s \notin {Backslash, Quote} => Stands(t, t)
  BY <1>1, <1>3, <1>5 DEF Stands, Sealed
<1> QED
  BY <1>1, <1>2, <1>3, <1>4, <1>5, <1>6 DEF t

(* Text without backslash and quote stands for itself.                     *)
LEMMA PlainStands ==
  ASSUME NEW t \in Seq(Sign \ {Backslash, Quote})
  PROVE  /\ t \in Line /\ Stands(t, t)
         /\ (\A i \in 1..Len(t) : t[i] # LF) => CanUnquote(t)
<1> DEFINE A == Sign \ {Backslash, Quote}
           T == {u \in Line : Stands(u, u) /\ ((\A i \in 1..Len(u) : u[i] # LF) => CanUnquote(u))}
<1>1. <<>> \in T
  <2>1. <<>> \in Line /\ Len(<<>>) = 0 /\ \A i : i \notin 1..0
    BY EmptyLine
  <2>2. Len(Bits(<<>>)) = 0
    BY <2>1, BitsAre
  <2>3. Unquote(<<>>) = <<>>
    BY <2>1, <2>2, BitsAre, UnquoteIs, JoinedSteps
  <2> QED
    BY <2>1, <2>3, UnquoteIs DEF Stands, Closed, Sealed
<1>2. \A u \in Seq(A) : \A s \in A : u \in T => Append(u, s) \in T
  <2> SUFFICES ASSUME NEW u \in Seq(A), NEW s \in A, u \in T PROVE Append(u, s) \in T
    OBVIOUS
  <2>1. s \in Sign /\ s \notin {Backslash, Quote}
    OBVIOUS
  <2>2. /\ <<s>> \in Line /\ Stands(<<s>>, <<s>>) /\ (s # LF => CanUnquote(<<s>>))
    BY <2>1, OneSign
  <2>3. Append(u, s) = u \o <<s>> /\ u \in Line /\ Stands(u, u)
    BY AppendIsConcat
  <2>4. u \o <<s>> \in Line /\ Stands(u \o <<s>>, u \o <<s>>)
    BY <2>2, <2>3, LinesInARow, StandsInARow
  <2>5. ASSUME \A i \in 1..Len(u \o <<s>>) : (u \o <<s>>)[i] # LF
        PROVE  CanUnquote(u \o <<s>>)
    <3>1. /\ Len(u) \in Nat /\ Len(u \o <<s>>) = Len(u) + 1
          /\ \A i \in 1..Len(u) : (u \o <<s>>)[i] = u[i]
          /\ (u \o <<s>>)[Len(u) + 1] = s
      BY <2>2, <2>3, LinesInARow
    <3>2. \A i \in 1..Len(u) : u[i] # LF
      BY <2>5, <3>1
    <3>3. s # LF
      BY <2>5, <3>1
    <3> QED
      BY <2>2, <2>3, <3>2, <3>3, UnquoteInARow DEF Stands
  <2> QED
    BY <2>3, <2>4, <2>5
<1> HIDE DEF T, A
<1>3. \A u \in Seq(A) : u \in T
  BY <1>1, <1>2, SeqInduction
<1> QED
  BY <1>3 DEF T, A

-----------------------------------------------------------------------------
(* The escapes of GenerateTag.                                             *)
EscapeOf(s) == IF s \in {Quote, ";"} THEN <<Backslash, s>> ELSE <<s>>

LEMMA EscapeSteps ==
  /\ Escape(<<>>) = <<>>
  /\ \A s \in Sign : EscapeOf(s) \in Line
  /\ \A t \in Line : Escape(t) \in Line /\ \A s \in Sign : Escape(Append(t, s)) = Escape(t) \o EscapeOf(s)
  /\ \A a, b \in Line : Escape(a \o b) = Escape(a) \o Escape(b)
<1> DEFINE f == [s \in Sign |-> EscapeOf(s)]
<1>1. \A s \in Sign : EscapeOf(s) \in Line
  <2>1. Backslash \in Sign
    BY WordsDiffer DEF Words
  <2>2. \A s \in Sign : <<s>> \in Line
    BY OneSign
  <2>3. \A s \in Sign : <<Backslash, s>> \in Line
    BY <2>1 DEF Line
  <2> QED
    BY <2>2, <2>3 DEF EscapeOf
<1>2. f \in [Sign -> Seq(Sign)]
  <2> HIDE DEF Line
  <2>1. f \in [Sign -> Line]
    BY <1>1
  <2> QED
    BY <2>1 DEF Line
<1>3. ASSUME NEW t \in Line PROVE Escape(t) = Flat(f, t)
  <2>1. DOMAIN t = 1..Len(t) /\ \A i \in 1..Len(t) : t[i] \in Sign
    BY <1>3, LineLength
  <2>2. \A i \in DOMAIN t : f[t[i]] = EscapeOf(t[i])
    BY <2>1
  <2>3. [i \in DOMAIN t |-> f[t[i]]] = [i \in DOMAIN t |-> EscapeOf(t[i])]
    <3> HIDE DEF f
    <3> QED
      BY <2>2
  <2> QED
    BY <2>3 DEF Escape, EscapeOf, Flat
<1> HIDE DEF f
<1>4. Escape(<<>>) = <<>>
  BY <1>3, EmptyLine, FlatOfEmpty
<1>5. \A s \in Sign : f[s] = EscapeOf(s)
  BY DEF f
<1>6. ASSUME NEW t \in Line PROVE Escape(t) \in Line
  BY <1>2, <1>3, <1>6, FlatTyped DEF Line
<1>7. ASSUME NEW t \in Line, NEW s \in Sign PROVE Escape(Append(t, s)) = Escape(t) \o EscapeOf(s)
  <2>1. Append(t, s) \in Line
    BY DEF Line
  <2> DEFINE T == Sign
  <2>2. f \in [Sign -> Seq(T)] /\ t \in Seq(Sign) /\ s \in Sign
    BY <1>2 DEF Line
  <2> HIDE DEF T
  <2>3. Flat(f, Append(t, s)) = Flat(f, t) \o f[s]
    BY ONLY <2>2, FlatOfAppend, SMTT(30)
  <2> QED
    BY <1>3, <1>5, <2>1, <2>3
<1>8. ASSUME NEW a \in Line, NEW b \in Line PROVE Escape(a \o b) = Escape(a) \o Escape(b)
  <2>1. a \o b \in Line
    BY LinesInARow
  <2>2. Flat(f, a \o b) = Flat(f, a) \o Flat(f, b)
    BY <1>2, FlatInARow DEF Line
  <2> QED
    BY <1>3, <2>1, <2>2
<1> QED
  BY <1>1, <1>4, <1>6, <1>7, <1>8

LEMMA OneEscape ==
  ASSUME NEW s \in Straight
  PROVE  /\ Stands(EscapeOf(s), <<s>>)
         /\ CanUnquote(EscapeOf(s)) <=> s \notin {";", LF}
<1>1. s \in Sign /\ s # Backslash /\ Backslash \in Sign
  BY WordsDiffer DEF Straight, Words
<1>2. CASE s \notin {Quote, ";"}
  <2>1. EscapeOf(s) = <<s>>
    BY <1>2 DEF EscapeOf
  <2> QED
    BY <1>1, <1>2, <2>1, OneSign
<1>3. CASE s \in {Quote, ";"}
  <2> DEFINE t == <<Backslash, s>>
  <2>1. EscapeOf(s) = t
    BY <1>3 DEF EscapeOf
  <2>2. t \in Line /\ Len(t) = 2 /\ t[1] = Backslash /\ t[2] = s /\ 1..2 = {1, 2}
    BY <1>1 DEF Line
  <2> HIDE DEF t
  <2>3. s # "t" /\ s # LF /\ Backslash # Quote /\ Backslash # LF /\ ";" \notin {Quote, Backslash, "t"}
    BY <1>3, WordsDiffer
  <2>4. 1 \notin Places(t) /\ 2 \in Places(t)
    BY <2>2, PlacesAre
  <2>5. Unquote(t) = <<s>>
    <3>1. Bit(t, 1) = <<>> /\ Bit(t, 2) = <<s>>
      BY <2>2, <2>3, <2>4 DEF Bit
    <3>2. Bits(t) \in Seq(Line) /\ Len(Bits(t)) = 2 /\ Bits(t)[1] = <<>> /\ Bits(t)[2] = <<s>>
      BY <2>2, <3>1, BitsAre
    <3>3. Joined(Bits(t))[1] = <<>> /\ FlattenSeq(Bits(t)) = Joined(Bits(t))[2]
      <4>1. /\ Len(Bits(t)) > 0 => Joined(Bits(t))[1] = Bits(t)[1]
            /\ FlattenSeq(Bits(t)) = IF Len(Bits(t)) = 0 THEN <<>> ELSE Joined(Bits(t))[Len(Bits(t))]
        BY <3>2, JoinedSteps
      <4> QED
        BY <3>2, <4>1
    <3>4. Joined(Bits(t))[2] = Joined(Bits(t))[1] \o <<s>>
      <4>1. /\ \A i \in 1..(Len(Bits(t)) - 1) : Joined(Bits(t))[i + 1] = Joined(Bits(t))[i] \o Bits(t)[i + 1]
        BY <3>2, JoinedSteps
      <4>2. 1 \in 1..(Len(Bits(t)) - 1) /\ 1 + 1 = 2
        BY <3>2
      <4> QED
        BY <3>2, <4>1, <4>2
    <3>5. <<s>> \in Line
      BY <1>1, OneSign
    <3> QED
      BY <2>2, <3>3, <3>4, <3>5, EmptyLine, UnquoteIs
  <2>6. Closed(t) /\ Sealed(t)
    BY <2>2, <2>3, <2>4 DEF Closed, Sealed
  <2>7. CanUnquote(t) <=> s # ";"
    BY <1>3, <2>2, <2>3, <2>4, UnquoteIs
  <2> QED
    BY <2>1, <2>3, <2>5, <2>6, <2>7 DEF Stands
<1> QED
  BY <1>2, <1>3

(* An escaped text stands for the text, if that has no backslash.          *)
LEMMA EscapeStands ==
  ASSUME NEW t \in Seq(Straight)
  PROVE  /\ t \in Line /\ Escape(t) \in Line /\ Stands(Escape(t), t)
         /\ CanUnquote(Escape(t)) <=> \A i \in 1..Len(t) : t[i] \notin {";", LF}
<1> DEFINE Says(u) == /\ Stands(Escape(u), u)
                      /\ CanUnquote(Escape(u)) <=> \A i \in 1..Len(u) : u[i] \notin {";", LF}
           T == {u \in Line : Says(u)}
<1>1. <<>> \in T
  <2>1. <<>> \in Seq(Sign \ {Backslash, Quote}) /\ Len(<<>>) = 0 /\ \A i : i \notin 1..0
    BY EmptySeq
  <2>2. Stands(<<>>, <<>>) /\ CanUnquote(<<>>)
    BY <2>1, PlainStands
  <2> QED
    BY <2>1, <2>2, EmptyLine, EscapeSteps
<1>2. ASSUME NEW u \in Seq(Straight), NEW s \in Straight, u \in T PROVE Append(u, s) \in T
  <2> HIDE DEF Says
  <2>1. s \in Sign /\ <<s>> \in Line
    BY OneSign DEF Straight
  <2>2. u \in Line /\ Says(u)
    BY <1>2
  <2>3. /\ Append(u, s) = u \o <<s>> /\ Append(u, s) \in Line /\ Len(u) \in Nat
        /\ Len(Append(u, s)) = Len(u) + 1 /\ Append(u, s)[Len(u) + 1] = s
        /\ \A i \in 1..Len(u) : Append(u, s)[i] = u[i]
    BY <2>1, <2>2, AppendIsConcat, AppendProperties, LenProperties DEF Line
  <2>4. /\ Escape(Append(u, s)) = Escape(u) \o EscapeOf(s)
        /\ Escape(u) \in Line /\ EscapeOf(s) \in Line
    BY <2>1, <2>2, EscapeSteps
  <2>5. Stands(EscapeOf(s), <<s>>) /\ (CanUnquote(EscapeOf(s)) <=> s \notin {";", LF})
    BY OneEscape
  <2>6. /\ Stands(Escape(u), u)
        /\ CanUnquote(Escape(u)) <=> \A i \in 1..Len(u) : u[i] \notin {";", LF}
    BY <2>2 DEF Says
  <2>7. Stands(Escape(Append(u, s)), Append(u, s))
    BY <2>1, <2>2, <2>3, <2>4, <2>5, <2>6, StandsInARow
  <2>8. CanUnquote(Escape(Append(u, s))) <=> CanUnquote(Escape(u)) /\ CanUnquote(EscapeOf(s))
    <3>1. Closed(Escape(u))
      BY <2>6 DEF Stands
    <3>2. CanUnquote(Escape(u) \o EscapeOf(s)) <=> CanUnquote(Escape(u)) /\ CanUnquote(EscapeOf(s))
      BY ONLY <2>4, <3>1, UnquoteInARow
    <3> QED
      BY <2>4, <3>2
  <2>9. (\A i \in 1..(Len(u) + 1) : Append(u, s)[i] \notin {";", LF})
          <=> (\A i \in 1..Len(u) : u[i] \notin {";", LF}) /\ s \notin {";", LF}
    <3>1. Len(u) + 1 \in 1..(Len(u) + 1) /\ \A i \in 1..Len(u) : i \in 1..(Len(u) + 1)
      BY <2>3
    <3>2. \A i \in 1..(Len(u) + 1) : i \in 1..Len(u) \/ i = Len(u) + 1
      BY <2>3
    <3> QED
      BY <2>3, <3>1, <3>2
  <2>10. Says(Append(u, s))
    BY <2>3, <2>5, <2>6, <2>7, <2>8, <2>9 DEF Says
  <2> QED
    BY <2>3, <2>10
<1> HIDE DEF T
<1>3. \A u \in Seq(Straight) : u \in T
  BY <1>1, <1>2, SeqInduction
<1>4. t \in Line /\ Says(t)
  BY <1>3 DEF T
<1>5. Escape(t) \in Line
  BY <1>4, EscapeSteps
<1> QED
  BY <1>4, <1>5

-----------------------------------------------------------------------------
(* A raw literal is what is left of the tags without carriage returns.     *)
WithoutCR(text) ==
  FlattenSeq([i \in DOMAIN text |-> IF text[i] = CR THEN <<>> ELSE <<text[i]>>])

LEMMA LeftOfSigns ==
  ASSUME NEW A, A \subseteq Sign
  PROVE  /\ WithoutCR(<<>>) = <<>>
         /\ \A t \in Seq(A) : WithoutCR(t) \in Seq(A)
         /\ \A t \in Seq(A) : \A s \in A :
              WithoutCR(Append(t, s)) = WithoutCR(t) \o (IF s = CR THEN <<>> ELSE <<s>>)
         /\ \A a, b \in Seq(A) : WithoutCR(a \o b) = WithoutCR(a) \o WithoutCR(b)
<1> DEFINE T == A
           Keep(s) == IF s = CR THEN <<>> ELSE <<s>>
           f == [s \in A |-> Keep(s)]
<1>1. f \in [A -> Seq(T)]
  <2>1. \A s \in A : Keep(s) \in Seq(T)
    OBVIOUS
  <2> HIDE DEF Keep, T
  <2> QED
    BY <2>1
<1>2. \A s \in A : f[s] = Keep(s)
  <2> HIDE DEF Keep
  <2> QED
    OBVIOUS
<1> HIDE DEF f, T
<1>3. ASSUME NEW t \in Seq(A) PROVE WithoutCR(t) = Flat(f, t)
  <2>1. \A i \in DOMAIN t : f[t[i]] = Keep(t[i])
    BY <1>2, <1>3
  <2>2. [i \in DOMAIN t |-> f[t[i]]] = [i \in DOMAIN t |-> Keep(t[i])]
    <3> HIDE DEF Keep
    <3> QED
      BY <2>1
  <2> QED
    BY <2>2 DEF WithoutCR, Flat
<1>4. WithoutCR(<<>>) = <<>>
  BY <1>3, EmptySeq, FlatOfEmpty
<1>5. ASSUME NEW t \in Seq(A) PROVE WithoutCR(t) \in Seq(A)
  <2>1. Flat(f, t) \in Seq(T)
    BY ONLY <1>1, <1>5, FlatTyped
  <2> QED
    BY <1>3, <2>1 DEF T
<1>6. ASSUME NEW t \in Seq(A), NEW s \in A PROVE WithoutCR(Append(t, s)) = WithoutCR(t) \o Keep(s)
  <2>1. Flat(f, Append(t, s)) = Flat(f, t) \o f[s]
    BY ONLY <1>1, <1>6, FlatOfAppend, SMTT(30)
  <2>2. Append(t, s) \in Seq(A)
    OBVIOUS
  <2> HIDE DEF Keep
  <2> QED
    BY <1>2, <1>3, <2>1, <2>2
<1>7. ASSUME NEW a \in Seq(A), NEW b \in Seq(A) PROVE WithoutCR(a \o b) = WithoutCR(a) \o WithoutCR(b)
  <2>1. Flat(f, a \o b) = Flat(f, a) \o Flat(f, b)
    BY ONLY <1>1, <1>7, FlatInARow, SMTT(30)
  <2>2. a \o b \in Seq(A)
    BY ConcatProperties
  <2> QED
    BY <1>3, <2>1, <2>2
<1> QED
  BY <1>4, <1>5, <1>6, <1>7

LEMMA NothingToLose ==
  ASSUME NEW t \in Seq(Sign \ {CR})
  PROVE  t \in Line /\ WithoutCR(t) = t
<1> DEFINE A == Sign \ {CR}
           T == {u \in Seq(A) : WithoutCR(u) = u}
<1>1. A \subseteq Sign /\ CR \notin A
  OBVIOUS
<1>2. t \in Line
  BY DEF Line
<1> HIDE DEF A
<1>3. <<>> \in T
  BY <1>1, EmptySeq, LeftOfSigns
<1>4. ASSUME NEW u \in Seq(A), NEW s \in A, u \in T PROVE Append(u, s) \in T
  <2>1. WithoutCR(Append(u, s)) = WithoutCR(u) \o <<s>>
    BY <1>1, LeftOfSigns
  <2>2. Append(u, s) \in Seq(A) /\ Append(u, s) = u \o <<s>>
    BY AppendIsConcat, AppendProperties
  <2> QED
    BY <1>4, <2>1, <2>2
<1> HIDE DEF T
<1>5. \A u \in Seq(A) : u \in T
  BY <1>3, <1>4, SeqInduction
<1> QED
  BY <1>2, <1>5 DEF T, A

LEMMA EscapesAreLeft ==
  ASSUME NEW t \in Line
  PROVE  WithoutCR(Escape(t)) = Escape(WithoutCR(t))
<1> DEFINE T == {u \in Line : WithoutCR(Escape(u)) = Escape(WithoutCR(u))}
<1>1. /\ WithoutCR(<<>>) = <<>>
      /\ \A u \in Line : WithoutCR(u) \in Line
      /\ \A u \in Line : \A s \in Sign :
           WithoutCR(Append(u, s)) = WithoutCR(u) \o (IF s = CR THEN <<>> ELSE <<s>>)
      /\ \A a, b \in Line : WithoutCR(a \o b) = WithoutCR(a) \o WithoutCR(b)
  BY LeftOfSigns DEF Line
<1>2. <<>> \in T
  BY <1>1, EmptyLine, EscapeSteps
<1>3. ASSUME NEW s \in Sign
      PROVE  WithoutCR(EscapeOf(s)) = Escape(IF s = CR THEN <<>> ELSE <<s>>)
  <2>1. Escape(<<s>>) = EscapeOf(s)
    <3>1. Append(<<>>, s) = <<s>> /\ <<>> \o EscapeOf(s) = EscapeOf(s)
      BY EscapeSteps, EmptyLine
    <3>2. Escape(Append(<<>>, s)) = Escape(<<>>) \o EscapeOf(s) /\ Escape(<<>>) = <<>>
      BY EscapeSteps, EmptyLine
    <3> QED
      BY <3>1, <3>2
  <2>2. CASE s = CR
    <3>1. EscapeOf(s) = <<CR>> /\ Append(<<>>, CR) = <<CR>>
      <4>1. CR \notin {Quote, ";"}
        BY DEF CR, Quote
      <4>2. EscapeOf(s) = <<s>>
        BY <2>2, <4>1 DEF EscapeOf
      <4>3. Append(<<>>, CR) = <<CR>>
        OBVIOUS
      <4> QED
        BY <2>2, <4>2, <4>3
    <3>2. WithoutCR(<<CR>>) = <<>>
      <4>1. WithoutCR(Append(<<>>, CR)) = WithoutCR(<<>>) \o <<>>
        BY <1>1, <2>2, EmptyLine
      <4> QED
        BY <1>1, <3>1, <4>1, EmptyLine
    <3> QED
      BY <2>2, <3>1, <3>2, EscapeSteps
  <2>3. CASE s # CR
    <3>1. EscapeOf(s) \in Seq(Sign \ {CR})
      <4>1. Backslash \in Sign \ {CR}
        BY WordsDiffer DEF Words, CR, Backslash
      <4>2. <<s>> \in Seq(Sign \ {CR})
        BY <2>3
      <4>3. <<Backslash, s>> \in Seq(Sign \ {CR})
        BY <2>3, <4>1
      <4> QED
        BY <4>2, <4>3 DEF EscapeOf
    <3> QED
      BY <2>1, <2>3, <3>1, NothingToLose
  <2> QED
    BY <2>2, <2>3
<1>4. ASSUME NEW u \in Seq(Sign), NEW s \in Sign, u \in T PROVE Append(u, s) \in T
  <2> DEFINE left == IF s = CR THEN <<>> ELSE <<s>>
  <2>1. u \in Line /\ Append(u, s) \in Line /\ left \in Line
    BY <1>4, OneSign, EmptyLine, AppendProperties DEF Line
  <2>2. WithoutCR(Append(u, s)) = WithoutCR(u) \o left
    BY <1>1, <2>1
  <2>3. WithoutCR(EscapeOf(s)) = Escape(left)
    BY <1>3
  <2> HIDE DEF left
  <2>4. Escape(Append(u, s)) = Escape(u) \o EscapeOf(s) /\ Escape(u) \in Line /\ EscapeOf(s) \in Line
    BY <2>1, EscapeSteps
  <2>5. WithoutCR(Escape(Append(u, s))) = WithoutCR(Escape(u)) \o WithoutCR(EscapeOf(s))
    <3>1. WithoutCR(Escape(u) \o EscapeOf(s)) = WithoutCR(Escape(u)) \o WithoutCR(EscapeOf(s))
      BY ONLY <1>1, <2>4
    <3> QED
      BY <2>4, <3>1
  <2>6. Escape(WithoutCR(u) \o left) = Escape(WithoutCR(u)) \o Escape(left)
    BY <1>1, <2>1, EscapeSteps
  <2>7. WithoutCR(Escape(u)) = Escape(WithoutCR(u))
    BY <1>4
  <2> QED
    BY <2>1, <2>2, <2>3, <2>5, <2>6, <2>7
<1> HIDE DEF T
<1>5. \A u \in Seq(Sign) : u \in T
  BY <1>2, <1>4, SeqInduction
<1> QED
  BY <1>5 DEF T, Line

-----------------------------------------------------------------------------
(* The tags of a column: up to its default, and from there on.             *)
Key      == IF column.primaryKey THEN <<";", "primaryKey">> ELSE <<>>
Assigned == IF column.default # Nothing THEN <<";", "default", ":">> ELSE <<>>
Default  == IF column.default # Nothing THEN column.default ELSE <<>>

BeginningOf(name)   == ((<<"column", ":">> \o Escape(name)) \o Key) \o Assigned
Next(name)    == IF column.next THEN (<<" ", "json", ":", Quote>> \o name) \o <<Quote>> ELSE <<>>
Back(name, d) == Escape(d) \o (<<Quote>> \o Next(name))

TagOf(name, d) == (<<Quote>> \o BeginningOf(name)) \o Back(name, d)

LEMMA ShortText ==
  ASSUME NEW A
  PROVE  /\ <<>> \in Seq(A)
         /\ \A a \in A : <<a>> \in Seq(A)
         /\ \A a, b \in A : <<a, b>> \in Seq(A)
         /\ \A a, b, c \in A : <<a, b, c>> \in Seq(A)
         /\ \A a, b, c, d \in A : <<a, b, c, d>> \in Seq(A)
OBVIOUS

LEMMA WordsOfTags ==
  /\ <<"column", ":">> \in Seq(Sign \ {Backslash, Quote, CR, LF})
  /\ Key \in Seq(Sign \ {Backslash, Quote, CR, LF})
  /\ Assigned \in Seq(Sign \ {Backslash, Quote, CR, LF})
  /\ <<Quote>> \in Seq(Sign \ {Backslash, CR, LF})
  /\ <<" ", "json", ":", Quote>> \in Seq(Sign \ {Backslash, CR, LF})
<1>1. /\ {"column", ":", ";", "primaryKey", "default", " ", "json", Quote} \subseteq Sign
      /\ {"column", ":", ";", "primaryKey", "default", " ", "json", Quote} \cap {Backslash, CR, LF} = {}
      /\ {"column", ":", ";", "primaryKey", "default", " ", "json"} \cap {Quote} = {}
  <2>1. Words \subseteq Sign
    BY WordsDiffer
  <2>2. {"column", ":", ";", "primaryKey", "default", " ", "json", Quote} \subseteq Words
    BY DEF Words
  <2>3. {"column", ":", ";", "primaryKey", "default", " ", "json", Quote} \cap {Backslash, CR, LF} = {}
    BY DEF Quote, Backslash, CR, LF
  <2>4. {"column", ":", ";", "primaryKey", "default", " ", "json"} \cap {Quote} = {}
    BY DEF Quote
  <2> QED
    BY <2>1, <2>2, <2>3, <2>4
<1> DEFINE Bare1 == Sign \ {Backslash, Quote, CR, LF}
           Bare2 == Sign \ {Backslash, CR, LF}
<1>2. "column" \in Bare1 /\ ":" \in Bare1 /\ ";" \in Bare1 /\ "primaryKey" \in Bare1 /\ "default" \in Bare1
  BY <1>1
<1>3. " " \in Bare2 /\ "json" \in Bare2 /\ ":" \in Bare2 /\ Quote \in Bare2
  BY <1>1
<1> HIDE DEF Bare1, Bare2
<1>4. <<"column", ":">> \in Seq(Bare1)
  BY <1>2, ShortText, Zenon
<1>5. Key \in Seq(Bare1)
  <2>1. <<";", "primaryKey">> \in Seq(Bare1) /\ <<>> \in Seq(Bare1)
    BY <1>2, ShortText, Zenon
  <2> QED
    BY <2>1 DEF Key
<1>6. Assigned \in Seq(Bare1)
  <2>1. <<";", "default", ":">> \in Seq(Bare1) /\ <<>> \in Seq(Bare1)
    BY <1>2, ShortText, Zenon
  <2> QED
    BY <2>1 DEF Assigned
<1>7. <<Quote>> \in Seq(Bare2) /\ <<" ", "json", ":", Quote>> \in Seq(Bare2)
  BY <1>3, ShortText, Zenon
<1> QED
  BY <1>4, <1>5, <1>6, <1>7 DEF Bare1, Bare2

LEMMA WordsAreLines ==
  /\ <<"column", ":">> \in Line /\ Key \in Line /\ Assigned \in Line
  /\ <<Quote>> \in Line /\ <<" ", "json", ":", Quote>> \in Line
  /\ WithoutCR(<<"column", ":">>) = <<"column", ":">> /\ WithoutCR(Key) = Key
  /\ WithoutCR(Assigned) = Assigned /\ WithoutCR(<<Quote>>) = <<Quote>>
  /\ WithoutCR(<<" ", "json", ":", Quote>>) = <<" ", "json", ":", Quote>>
<1> DEFINE A == Sign \ {Backslash, Quote, CR, LF}
           B == Sign \ {Backslash, CR, LF}
           C == Sign \ {CR}
<1>1. A \subseteq C /\ B \subseteq C
  OBVIOUS
<1>2. Seq(A) \subseteq Seq(C) /\ Seq(B) \subseteq Seq(C)
  <2> HIDE DEF A, B, C
  <2> QED
    BY <1>1, SeqMonotonic
<1>3. \A t \in Seq(C) : t \in Line /\ WithoutCR(t) = t
  BY NothingToLose
<1>4. \A t \in Seq(A) \cup Seq(B) : t \in Line /\ WithoutCR(t) = t
  BY <1>2, <1>3
<1> QED
  BY <1>4, WordsOfTags

LEMMA PartsOfTags ==
  ASSUME NEW name \in Line, NEW d \in Line
  PROVE  /\ BeginningOf(name) \in Line /\ Next(name) \in Line /\ Back(name, d) \in Line
         /\ WithoutCR(TagOf(name, d)) = TagOf(WithoutCR(name), WithoutCR(d))
<1> DEFINE opening == <<"column", ":">>
           closing == <<Quote>>
           json == <<" ", "json", ":", Quote>>
           FrontOf(e) == Row(Row(Row(opening, e), Key), Assigned)
           NextOf(n)  == IF column.next THEN Row(Row(json, n), closing) ELSE <<>>
           BackOf(n, e) == Row(e, Row(closing, NextOf(n)))
           Kept(t) == t \in Line /\ WithoutCR(t) = t
<1>1. Kept(opening) /\ Kept(closing) /\ Kept(json) /\ Kept(Key) /\ Kept(Assigned) /\ Kept(<<>>)
  BY WordsAreLines, LeftOfSigns, EmptyLine
<1>2. \A a, b \in Line : Row(a, b) \in Line
  BY RowsOfLines
<1>3. \A t \in Line : Escape(t) \in Line /\ WithoutCR(t) \in Line /\ WithoutCR(Escape(t)) = Escape(WithoutCR(t))
  BY EscapeSteps, EscapesAreLeft, LeftOfSigns DEF Line
<1>4. \A a, b \in Line : WithoutCR(Row(a, b)) = Row(WithoutCR(a), WithoutCR(b))
  <2>1. ASSUME NEW a \in Seq(Sign), NEW b \in Seq(Sign)
        PROVE  WithoutCR(a \o b) = WithoutCR(a) \o WithoutCR(b)
    BY LeftOfSigns
  <2> QED
    BY <2>1 DEF Row, Line
<1>5. /\ BeginningOf(name) = FrontOf(Escape(name)) /\ BeginningOf(WithoutCR(name)) = FrontOf(Escape(WithoutCR(name)))
      /\ Next(name) = NextOf(name) /\ Next(WithoutCR(name)) = NextOf(WithoutCR(name))
      /\ Back(name, d) = BackOf(name, Escape(d))
      /\ Back(WithoutCR(name), WithoutCR(d)) = BackOf(WithoutCR(name), Escape(WithoutCR(d)))
      /\ TagOf(name, d) = Row(Row(closing, BeginningOf(name)), Back(name, d))
      /\ TagOf(WithoutCR(name), WithoutCR(d))
           = Row(Row(closing, BeginningOf(WithoutCR(name))), Back(WithoutCR(name), WithoutCR(d)))
  BY DEF BeginningOf, Next, Back, TagOf, Row
<1> HIDE DEF opening, closing, json
<1>6. ASSUME NEW e \in Line
      PROVE  FrontOf(e) \in Line /\ WithoutCR(FrontOf(e)) = FrontOf(WithoutCR(e))
  <2>1. Row(opening, e) \in Line /\ WithoutCR(Row(opening, e)) = Row(opening, WithoutCR(e))
    BY <1>1, <1>2, <1>4, <1>6
  <2>2. /\ Row(Row(opening, e), Key) \in Line
        /\ WithoutCR(Row(Row(opening, e), Key)) = Row(Row(opening, WithoutCR(e)), Key)
    BY <1>1, <1>2, <1>4, <2>1
  <2> QED
    BY <1>1, <1>2, <1>4, <2>2
<1>7. NextOf(name) \in Line /\ WithoutCR(NextOf(name)) = NextOf(WithoutCR(name))
  <2>1. Row(json, name) \in Line /\ WithoutCR(Row(json, name)) = Row(json, WithoutCR(name))
    BY <1>1, <1>2, <1>4
  <2>2. /\ Row(Row(json, name), closing) \in Line
        /\ WithoutCR(Row(Row(json, name), closing)) = Row(Row(json, WithoutCR(name)), closing)
    BY <1>1, <1>2, <1>4, <2>1
  <2> QED
    BY <1>1, <2>2
<1> HIDE DEF NextOf, FrontOf
<1>8. ASSUME NEW e \in Line
      PROVE  BackOf(name, e) \in Line /\ WithoutCR(BackOf(name, e)) = BackOf(WithoutCR(name), WithoutCR(e))
  <2>1. /\ Row(closing, NextOf(name)) \in Line
        /\ WithoutCR(Row(closing, NextOf(name))) = Row(closing, NextOf(WithoutCR(name)))
    BY <1>1, <1>2, <1>4, <1>7
  <2> QED
    BY <1>2, <1>4, <1>8, <2>1
<1> HIDE DEF BackOf
<1>9. BeginningOf(name) \in Line /\ WithoutCR(BeginningOf(name)) = BeginningOf(WithoutCR(name))
  BY <1>3, <1>5, <1>6
<1>10. Back(name, d) \in Line /\ WithoutCR(Back(name, d)) = Back(WithoutCR(name), WithoutCR(d))
  BY <1>3, <1>5, <1>8
<1>11. /\ Row(closing, BeginningOf(name)) \in Line
       /\ WithoutCR(Row(closing, BeginningOf(name))) = Row(closing, BeginningOf(WithoutCR(name)))
  BY <1>1, <1>2, <1>4, <1>9
<1>12. WithoutCR(TagOf(name, d)) = TagOf(WithoutCR(name), WithoutCR(d))
  BY <1>4, <1>5, <1>10, <1>11
<1> QED
  BY <1>5, <1>7, <1>9, <1>10, <1>12

LEMMA Rearranged ==
  ASSUME NEW q \in Line, NEW x \in Line, NEW a \in Line, NEW e \in Line, NEW f \in Line
  PROVE  Row(Row(Row(q, Row(x, Row(a, e))), q), f) = Row(Row(q, Row(x, a)), Row(e, Row(q, f)))
<1>1. \A s, t \in Line : Row(s, t) \in Line
  BY RowsOfLines
<1>2. \A s, t, u \in Line : Row(Row(s, t), u) = Row(s, Row(t, u))
  BY RowsOfLines
<1> DEFINE p == Row(x, a)
           h == Row(q, p)
           g == Row(q, f)
<1>3. p \in Line /\ h \in Line /\ g \in Line /\ Row(h, e) \in Line
  BY <1>1
<1>4. Row(x, Row(a, e)) = Row(p, e)
  BY <1>2
<1>5. Row(q, Row(p, e)) = Row(h, e)
  BY <1>2, <1>3
<1> HIDE DEF p, h, g
<1>6. Row(Row(Row(h, e), q), f) = Row(Row(h, e), g)
  BY <1>2, <1>3 DEF g
<1>7. Row(Row(h, e), g) = Row(h, Row(e, g))
  BY <1>2, <1>3
<1> QED
  BY <1>4, <1>5, <1>6, <1>7 DEF p, h, g

LEMMA ColumnTyped ==
  ASSUME column \in Columns
  PROVE  column.name \in Line /\ Default \in Line
<1>1. column.name \in AnyName /\ column.default \in AnyDefault \cup {Nothing}
  BY DEF Columns
<1>2. column.name \in Line
  <2>1. column.name \in Seq(Symbol) /\ Symbol \subseteq Sign
    BY <1>1, TextAssumption DEF Sign
  <2> QED
    BY <2>1, SeqMonotonic DEF Line
<1>3. ASSUME column.default # Nothing PROVE column.default \in Line
  <2>1. column.default \in AnyDefault
    BY <1>1, <1>3
  <2>2. column.default \in Seq(Range(column.default))
    BY <2>1, TextAssumption
  <2>3. Range(column.default) \subseteq Foreign
    BY <2>1 DEF Foreign
  <2>4. Range(column.default) \subseteq Sign
    BY <2>3 DEF Sign
  <2> QED
    BY ONLY <2>2, <2>4, SeqMonotonic DEF Line
<1> QED
  BY <1>2, <1>3, EmptyLine DEF Default

(* The tags are of that form, without the carriage returns of a raw        *)
(* literal.                                                                *)
LEMMA TagsAre ==
  ASSUME column \in Columns, column.name \in Seq(Straight)
  PROVE  \E name \in Seq(Straight), d \in Line :
           /\ AsLiteral(Quoted \o Following) = TagOf(name, d)
           /\ column.default = Nothing => d = <<>>
           /\ ~Has(column.name, {CR}) /\ ~Has(column.default, {CR}) =>
                name = column.name /\ d = Default
<1>1. column.name \in Line /\ Default \in Line
  BY ColumnTyped
<1>2. Quoted \o Following = TagOf(column.name, Default)
  <2> DEFINE x == (<<"column", ":">> \o Escape(column.name)) \o Key
             e == Escape(Default)
             f == Next(column.name)
  <2>1. e \in Line /\ f \in Line /\ Assigned \in Line /\ <<Quote>> \in Line
    BY <1>1, PartsOfTags, EscapeSteps, WordsAreLines
  <2>2. x \in Line
    <3>1. <<"column", ":">> \o Escape(column.name) \in Line
      BY <1>1, EscapeSteps, WordsAreLines, LinesInARow
    <3> QED
      BY ONLY <3>1, WordsAreLines, LinesInARow
  <2>3. Options = x \o (Assigned \o e)
    <3>1. CASE column.default = Nothing
      <4>1. Assigned \o e = <<>>
        BY <3>1, EscapeSteps, EmptyLine DEF Assigned, Default
      <4> QED
        BY <3>1, <4>1 DEF Options, Key
    <3>2. CASE column.default # Nothing
      BY <3>2 DEF Options, Key, Assigned, Default
    <3> QED
      BY <3>1, <3>2
  <2>4. Following = f
    BY DEF Following, Next
  <2>5. TagOf(column.name, Default) = (<<Quote>> \o (x \o Assigned)) \o (e \o (<<Quote>> \o f))
    BY DEF TagOf, BeginningOf, Back
  <2>6. Quoted = (<<Quote>> \o (x \o (Assigned \o e))) \o <<Quote>>
    BY <2>3 DEF Quoted
  <2> HIDE DEF x, e, f
  <2> DEFINE q == <<Quote>>
             a == Assigned
  <2>7. q \in Line /\ x \in Line /\ a \in Line /\ e \in Line /\ f \in Line
    BY <2>1, <2>2
  <2> HIDE DEF q, a
  <2>8. Row(Row(Row(q, Row(x, Row(a, e))), q), f) = Row(Row(q, Row(x, a)), Row(e, Row(q, f)))
    BY ONLY <2>7, Rearranged
  <2>9. ((<<Quote>> \o (x \o (Assigned \o e))) \o <<Quote>>) \o f
          = (<<Quote>> \o (x \o Assigned)) \o (e \o (<<Quote>> \o f))
    BY <2>8 DEF q, a, Row
  <2> QED
    BY <2>4, <2>5, <2>6, <2>9
<1>3. WithoutCR(column.name) \in Seq(Straight) /\ WithoutCR(Default) \in Line
  <2>1. Straight \subseteq Sign
    BY DEF Straight
  <2> QED
    BY <1>1, <2>1, LeftOfSigns DEF Line
<1>4. WithoutCR(TagOf(column.name, Default)) = TagOf(WithoutCR(column.name), WithoutCR(Default))
  BY <1>1, PartsOfTags
<1>5. ASSUME NEW t \in Line, ~Has(t, {CR}) PROVE WithoutCR(t) = t
  <2>1. \A i \in 1..Len(t) : t[i] \in Sign \ {CR}
    BY <1>5, LineLength DEF Has
  <2>2. t \in Seq(Sign \ {CR})
    <3>1. Len(t) \in Nat /\ t = [i \in 1..Len(t) |-> t[i]]
      BY LenProperties DEF Line
    <3> DEFINE A == Sign \ {CR}
    <3>2. \A i \in 1..Len(t) : t[i] \in A
      BY <2>1
    <3> HIDE DEF A
    <3>3. [i \in 1..Len(t) |-> t[i]] \in Seq(A)
      BY <3>1, <3>2
    <3> QED
      BY <3>1, <3>3 DEF A
  <2> QED
    BY <2>2, NothingToLose
<1>6. ASSUME ~Has(column.default, {CR}) PROVE ~Has(Default, {CR})
  BY <1>6 DEF Default, Has
<1>7. /\ WithoutCR(<<>>) = <<>>
      /\ column.default = Nothing => Default = <<>>
  BY LeftOfSigns DEF Default
<1>8. CASE Contains(Quoted \o Following, Backtick)
  <2>1. AsLiteral(Quoted \o Following) = TagOf(column.name, Default)
    BY <1>2, <1>8 DEF AsLiteral
  <2> QED
    BY <1>1, <1>7, <2>1
<1>9. CASE ~Contains(Quoted \o Following, Backtick)
  <2>1. AsLiteral(Quoted \o Following) = TagOf(WithoutCR(column.name), WithoutCR(Default))
    BY <1>2, <1>4, <1>9 DEF AsLiteral, WithoutCR
  <2>2. ~Has(column.name, {CR}) /\ ~Has(column.default, {CR}) =>
          WithoutCR(column.name) = column.name /\ WithoutCR(Default) = Default
    BY <1>1, <1>5, <1>6
  <2> QED
    BY <1>3, <1>7, <2>1, <2>2
<1> QED
  BY <1>8, <1>9

-----------------------------------------------------------------------------
(* Where the value ends.                                                   *)
FrontValue(name) == ((<<"column", ":">> \o name) \o Key) \o Assigned

LEMMA FrontStands ==
  ASSUME NEW name \in Seq(Straight)
  PROVE  /\ name \in Line /\ FrontValue(name) \in Line
         /\ Stands(BeginningOf(name), FrontValue(name))
         /\ CanUnquote(BeginningOf(name)) => \A i \in 1..Len(name) : name[i] # ";"
         /\ (\A i \in 1..Len(name) : name[i] \notin {";", LF}) => CanUnquote(BeginningOf(name))
<1> DEFINE opening == <<"column", ":">>
           e == Escape(name)
           A == Sign \ {Backslash, Quote, CR, LF}
           B == Sign \ {Backslash, Quote}
           Word(t) == t \in Line /\ Stands(t, t) /\ CanUnquote(t)
<1>1. Word(opening) /\ Word(Key) /\ Word(Assigned)
  <2>1. ASSUME NEW t \in Seq(A) PROVE Word(t)
    <3>1. A \subseteq B /\ LF \notin A
      OBVIOUS
    <3> HIDE DEF A
    <3>2. t \in Seq(B)
      <4> HIDE DEF B
      <4> QED
        BY <3>1, SeqMonotonic
    <3>3. \A i \in 1..Len(t) : t[i] # LF
      BY <3>1, ElementOfSeq
    <3> QED
      BY <3>2, <3>3, PlainStands
  <2> QED
    BY <2>1, WordsOfTags
<1>2. /\ name \in Line /\ e \in Line /\ Stands(e, name)
      /\ CanUnquote(e) <=> \A i \in 1..Len(name) : name[i] \notin {";", LF}
  BY EscapeStands
<1> HIDE DEF opening, e
<1>3. ASSUME NEW a \in Line, NEW b \in Line, NEW t \in Line, NEW u \in Line, Stands(a, t), Stands(b, u)
      PROVE  /\ Row(a, b) \in Line /\ Row(t, u) \in Line /\ Stands(Row(a, b), Row(t, u))
             /\ CanUnquote(Row(a, b)) <=> CanUnquote(a) /\ CanUnquote(b)
  <2>1. Row(a, b) \in Line /\ Row(t, u) \in Line
    BY RowsOfLines
  <2>2. Stands(Row(a, b), Row(t, u))
    BY <1>3, StandsInARow DEF Row
  <2>3. Closed(a)
    BY <1>3 DEF Stands
  <2>4. CanUnquote(Row(a, b)) <=> CanUnquote(a) /\ CanUnquote(b)
    BY <2>3, UnquoteInARow DEF Row
  <2> QED
    BY <2>1, <2>2, <2>4
<1>4. /\ Row(opening, e) \in Line /\ Row(opening, name) \in Line
      /\ Stands(Row(opening, e), Row(opening, name))
      /\ CanUnquote(Row(opening, e)) <=> CanUnquote(e)
  BY <1>1, <1>2, <1>3
<1>5. /\ Row(Row(opening, e), Key) \in Line /\ Row(Row(opening, name), Key) \in Line
      /\ Stands(Row(Row(opening, e), Key), Row(Row(opening, name), Key))
      /\ CanUnquote(Row(Row(opening, e), Key)) <=> CanUnquote(e)
  BY <1>1, <1>3, <1>4
<1> DEFINE f == Row(Row(Row(opening, e), Key), Assigned)
           v == Row(Row(Row(opening, name), Key), Assigned)
<1>6. f \in Line /\ v \in Line /\ Stands(f, v) /\ (CanUnquote(f) <=> CanUnquote(e))
  BY <1>1, <1>3, <1>5
<1>7. f = BeginningOf(name) /\ v = FrontValue(name)
  BY DEF BeginningOf, FrontValue, Row, opening, e
<1> QED
  BY <1>2, <1>6, <1>7

(* The quotes that end a value.                                            *)
Quotes(text) == {j \in 1..Len(text) : text[j] = Quote /\ j \notin Places(text)}

LEMMA EndsAre ==
  ASSUME NEW p \in Line, NEW r \in Line, Closed(p), Sealed(p), tag = (<<Quote>> \o p) \o r
  PROVE  /\ tag \in Line /\ Len(tag) = (1 + Len(p)) + Len(r)
         /\ \A i \in 1..Len(p) : tag[1 + i] = p[i]
         /\ \A i \in 1..Len(r) : tag[(1 + Len(p)) + i] = r[i]
         /\ Ends \subseteq Nat
         /\ \A i \in Ends : \E j \in Quotes(r) : i = (1 + Len(p)) + j
         /\ \A j \in Quotes(r) : (1 + Len(p)) + j \in Ends
<1> DEFINE q == <<Quote>>
           a == q \o p
           m == Len(p)
           n == Len(r)
<1>1. q \in Line /\ Len(q) = 1 /\ Closed(q)
  BY WordsDiffer, OneSign DEF Words
<1>2. m \in Nat /\ n \in Nat
  BY LineLength
<1>3. a \in Line /\ Len(a) = 1 + m /\ \A i \in 1..m : a[1 + i] = p[i]
  BY <1>1, LinesInARow
<1>4. Closed(a) /\ \A i \in 1..m : 1 + i \in Places(a) <=> i \in Places(p)
  BY <1>1, ClosedInARow, PlacesBehind
<1> HIDE DEF a, m, n, q
<1>5. tag = a \o r
  BY DEF a, q
<1>6. /\ tag \in Line /\ Len(tag) = (1 + m) + n
      /\ \A i \in 1..(1 + m) : tag[i] = a[i]
      /\ \A i \in 1..n : tag[(1 + m) + i] = r[i]
  <2>1. /\ a \o r \in Line /\ Len(a \o r) = Len(a) + Len(r)
        /\ \A i \in 1..Len(a) : (a \o r)[i] = a[i]
        /\ \A i \in 1..Len(r) : (a \o r)[Len(a) + i] = r[i]
    BY ONLY <1>3, r \in Line, LinesInARow
  <2> QED
    BY <1>3, <1>5, <2>1 DEF n
<1>7. \A i \in 1..(1 + m) : i \in Places(tag) <=> i \in Places(a)
  BY <1>3, <1>5, PlacesBefore
<1>8. \A i \in 1..n : (1 + m) + i \in Places(tag) <=> i \in Places(r)
  BY <1>3, <1>4, <1>5, PlacesBehind DEF n
<1>9. \A i : i \in Ends <=> i \in 2..((1 + m) + n) /\ tag[i] = Quote /\ i \notin Places(tag)
  <2>1. \A i \in 2..Len(tag) : i \in Places(tag) <=> Escaped(tag)[i]
    BY <1>2, <1>6 DEF Places
  <2> QED
    BY <1>6, <2>1 DEF Ends
<1>10. \A i \in 1..m : 1 + i \in 1..(1 + m) /\ tag[1 + i] = p[i]
  BY <1>2, <1>3, <1>6
<1>11. \A i \in 1..m : p[i] = Quote => i \in Places(p)
  BY DEF Sealed, m
<1>12. ASSUME NEW i \in Ends PROVE \E j \in Quotes(r) : i = (1 + m) + j
  <2>1. i \in 2..((1 + m) + n) /\ tag[i] = Quote /\ i \notin Places(tag)
    BY <1>9
  <2>2. CASE i <= 1 + m
    <3>1. i - 1 \in 1..m /\ 1 + (i - 1) = i
      BY <1>2, <2>1, <2>2
    <3>2. i - 1 \notin Places(p) /\ p[i - 1] = Quote
      BY <1>4, <1>7, <1>10, <2>1, <3>1
    <3> QED
      BY <1>11, <3>1, <3>2
  <2>3. CASE i > 1 + m
    <3>1. i - (1 + m) \in 1..n /\ (1 + m) + (i - (1 + m)) = i
      BY <1>2, <2>1, <2>3
    <3>2. i - (1 + m) \in Quotes(r)
      BY <1>6, <1>8, <2>1, <3>1 DEF Quotes, n
    <3> QED
      BY <3>1, <3>2
  <2> QED
    BY <1>2, <2>1, <2>2, <2>3
<1>13. ASSUME NEW j \in Quotes(r) PROVE (1 + m) + j \in Ends
  <2>1. j \in 1..n /\ r[j] = Quote /\ j \notin Places(r)
    BY DEF Quotes, n
  <2>2. (1 + m) + j \in 2..((1 + m) + n)
    BY <1>2, <2>1
  <2> QED
    BY <1>6, <1>8, <1>9, <2>1, <2>2
<1>14. Ends \subseteq Nat
  BY <1>2, <1>9
<1> QED
  BY <1>6, <1>10, <1>12, <1>13, <1>14 DEF m, n

LEMMA InnerIs ==
  ASSUME NEW p \in Line, NEW r \in Line, Closed(p), Sealed(p), tag = (<<Quote>> \o p) \o r
  PROVE  /\ Ends # {} <=> Quotes(r) # {}
         /\ Ends # {} =>
              /\ Inner = p \o SubSeq(r, 1, Min(Quotes(r)) - 1)
              /\ Rest = SubSeq(r, Min(Quotes(r)) + 1, Len(r))
<1> DEFINE m == Len(p)
           n == Len(r)
           k == Min(Quotes(r))
<1>1. /\ tag \in Line /\ Len(tag) = (1 + m) + n
      /\ \A i \in 1..m : tag[1 + i] = p[i]
      /\ \A i \in 1..n : tag[(1 + m) + i] = r[i]
      /\ Ends \subseteq Nat
      /\ \A i \in Ends : \E j \in Quotes(r) : i = (1 + m) + j
      /\ \A j \in Quotes(r) : (1 + m) + j \in Ends
  BY EndsAre
<1>2. m \in Nat /\ n \in Nat /\ Quotes(r) \subseteq 1..n
  BY LineLength DEF Quotes
<1>3. /\ \A i \in 1..m : p[i] \in Sign
      /\ \A i \in 1..n : r[i] \in Sign
      /\ \A i \in 1..((1 + m) + n) : tag[i] \in Sign
  BY <1>1, LineLength
<1>4. Ends # {} <=> Quotes(r) # {}
  BY <1>1
<1> SUFFICES ASSUME Quotes(r) # {}
             PROVE  Inner = p \o SubSeq(r, 1, k - 1) /\ Rest = SubSeq(r, k + 1, n)
  BY <1>4
<1>5. k \in Quotes(r) /\ k \in 1..n /\ \A j \in Quotes(r) : k <= j
  <2>1. Quotes(r) \in SUBSET Nat
    BY <1>2
  <2> QED
    BY <1>2, <2>1, MinIsLeast
<1>6. Min(Ends) = (1 + m) + k
  <2>1. (1 + m) + k \in Ends
    BY <1>1, <1>5
  <2>2. \A i \in Ends : (1 + m) + k <= i
    <3> SUFFICES ASSUME NEW i \in Ends PROVE (1 + m) + k <= i
      OBVIOUS
    <3> PICK j \in Quotes(r) : i = (1 + m) + j
      BY <1>1
    <3>1. k <= j /\ j \in 1..n
      BY <1>2, <1>5
    <3> QED
      BY <1>2, <1>5, <3>1
  <2> QED
    BY <1>1, <2>1, <2>2, MinIsThat
<1> HIDE DEF m, n, k
<1> DEFINE inner == SubSeq(tag, 1 + 1, 1 + (m + (k - 1)))
           rest  == SubSeq(tag, ((1 + m) + k) + 1, ((1 + m) + k) + (n - k))
           left  == SubSeq(r, 1, k - 1)
           right == SubSeq(r, k + 1, k + (n - k))
<1>7. /\ inner \in Line /\ Len(inner) = m + (k - 1)
      /\ \A i \in 1..(m + (k - 1)) : inner[i] = tag[1 + i]
  <2> DEFINE l == m + (k - 1)
             o == 1
  <2>1. o \in Nat /\ l \in Nat /\ o + l <= Len(tag)
    BY <1>1, <1>2, <1>5
  <2>2. tag \in Line
    BY <1>1
  <2> HIDE DEF l, o
  <2>3. /\ SubSeq(tag, o + 1, o + l) \in Line /\ Len(SubSeq(tag, o + 1, o + l)) = l
        /\ \A i \in 1..l : SubSeq(tag, o + 1, o + l)[i] = tag[o + i]
    BY ONLY <2>1, <2>2, Cut
  <2> QED
    BY <2>3 DEF l, o
<1>8. /\ rest \in Line /\ Len(rest) = n - k
      /\ \A i \in 1..(n - k) : rest[i] = tag[((1 + m) + k) + i]
  <2>1. (1 + m) + k \in Nat /\ n - k \in Nat /\ ((1 + m) + k) + (n - k) <= Len(tag)
    BY <1>1, <1>2, <1>5
  <2> QED
    BY <1>1, <2>1, Cut
<1>9. /\ left \in Line /\ Len(left) = k - 1
      /\ \A i \in 1..(k - 1) : left[i] = r[i]
  <2>1. k - 1 \in Nat /\ k - 1 <= Len(r)
    BY <1>2, <1>5 DEF n
  <2> QED
    BY <2>1, CutFirst
<1>10. /\ right \in Line /\ Len(right) = n - k
       /\ \A i \in 1..(n - k) : right[i] = r[k + i]
  <2>1. k \in Nat /\ n - k \in Nat /\ k + (n - k) <= Len(r)
    BY <1>2, <1>5 DEF n
  <2> QED
    BY <2>1, Cut
<1>11. Inner = inner /\ Rest = rest /\ right = SubSeq(r, k + 1, n)
  <2>1. Inner = inner
    <3>1. 2 = 1 + 1 /\ ((1 + m) + k) - 1 = 1 + (m + (k - 1))
      BY <1>2, <1>5
    <3> QED
      BY <1>6, <3>1 DEF Inner
  <2>2. Rest = rest
    <3>1. (1 + m) + n = ((1 + m) + k) + (n - k)
      BY <1>2, <1>5
    <3> QED
      BY <1>1, <1>6, <3>1 DEF Rest
  <2>3. k + (n - k) = n
    BY <1>2, <1>5
  <2> QED
    BY <2>1, <2>2, <2>3
<1> HIDE DEF inner, rest, left, right
<1>12. inner = p \o left
  <2>1. \A i \in 1..m : inner[i] = p[i]
    <3>1. \A i \in 1..m : i \in 1..(m + (k - 1))
      BY <1>2, <1>5
    <3> QED
      BY <1>1, <1>7, <3>1
  <2>2. \A i \in 1..(k - 1) : inner[m + i] = left[i]
    <3> SUFFICES ASSUME NEW i \in 1..(k - 1) PROVE inner[m + i] = left[i]
      OBVIOUS
    <3>1. m + i \in 1..(m + (k - 1)) /\ 1 + (m + i) = (1 + m) + i /\ i \in 1..n
      BY <1>2, <1>5
    <3>2. inner[m + i] = tag[(1 + m) + i]
      BY <1>7, <3>1
    <3> QED
      BY <1>1, <1>9, <3>1, <3>2
  <2>3. p \in Seq(Sign) /\ inner \in Seq(Sign) /\ left \in Seq(Sign)
    BY <1>7, <1>9 DEF Line
  <2>4. /\ Len(inner) = Len(p) + Len(left)
        /\ \A i \in 1..Len(p) : inner[i] = p[i]
        /\ \A i \in 1..Len(left) : inner[Len(p) + i] = left[i]
    BY <1>7, <1>9, <2>1, <2>2 DEF m
  <2> QED
    BY ONLY <2>3, <2>4, RowIs
<1>13. rest = right
  <2>1. ASSUME NEW i \in 1..(n - k) PROVE rest[i] = right[i]
    <3>1. k + i \in 1..n /\ ((1 + m) + k) + i = (1 + m) + (k + i)
      BY <1>2, <1>5
    <3>2. tag[(1 + m) + (k + i)] = r[k + i]
      BY <1>1, <3>1
    <3> QED
      BY <1>8, <1>10, <3>1, <3>2
  <2>2. rest \in Seq(Sign) /\ right \in Seq(Sign)
    BY <1>8, <1>10 DEF Line
  <2> QED
    BY <1>8, <1>10, <2>1, <2>2, SeqEqual
<1> QED
  BY <1>11, <1>12, <1>13 DEF left, k, n

-----------------------------------------------------------------------------
(* Text in which a backslash precedes every semicolon: gorm finds no       *)
(* separator in it.                                                        *)
Guarded(text) == \A j \in 1..Len(text) : text[j] = ";" => j > 1 /\ text[j - 1] = Backslash

LEMMA GuardedInARow ==
  ASSUME NEW a \in Line, NEW b \in Line, Guarded(a), Guarded(b)
  PROVE  Guarded(a \o b)
<1>1. /\ Len(a) \in Nat /\ Len(b) \in Nat /\ Len(a \o b) = Len(a) + Len(b)
      /\ \A i \in 1..Len(a) : (a \o b)[i] = a[i]
      /\ \A i \in 1..Len(b) : (a \o b)[Len(a) + i] = b[i]
  BY LinesInARow
<1> DEFINE c == a \o b
<1> HIDE DEF c
<1>2. ASSUME NEW j \in 1..(Len(a) + Len(b)), c[j] = ";" PROVE j > 1 /\ c[j - 1] = Backslash
  <2>1. j \in 1..Len(a) \/ \E i \in 1..Len(b) : j = Len(a) + i
    BY PlaceInARow DEF Line
  <2>2. CASE j \in 1..Len(a)
    <3>1. j > 1 /\ a[j - 1] = Backslash
      BY <1>1, <1>2, <2>2 DEF Guarded, c
    <3>2. j - 1 \in 1..Len(a)
      BY <1>1, <2>2, <3>1
    <3> QED
      BY <1>1, <3>1, <3>2 DEF c
  <2>3. CASE \E i \in 1..Len(b) : j = Len(a) + i
    <3> PICK i \in 1..Len(b) : j = Len(a) + i
      BY <2>3
    <3>1. i > 1 /\ b[i - 1] = Backslash
      BY <1>1, <1>2 DEF Guarded, c
    <3>2. i - 1 \in 1..Len(b) /\ j - 1 = Len(a) + (i - 1) /\ j > 1
      BY <1>1, <3>1
    <3> QED
      BY <1>1, <3>1, <3>2 DEF c
  <2> QED
    BY <2>1, <2>2, <2>3
<1> QED
  BY <1>1, <1>2 DEF Guarded, c

LEMMA ShortGuarded ==
  /\ Guarded(<<>>)
  /\ \A x : x # ";" => Guarded(<<x>>)
  /\ \A x, y : x # ";" /\ (y = ";" => x = Backslash) => Guarded(<<x, y>>)
<1>1. Guarded(<<>>)
  <2>1. Len(<<>>) = 0 /\ \A j : j \notin 1..0
    BY EmptySeq
  <2> QED
    BY <2>1 DEF Guarded
<1>2. ASSUME NEW x, x # ";" PROVE Guarded(<<x>>)
  <2>1. Len(<<x>>) = 1 /\ 1..1 = {1} /\ <<x>>[1] = x
    OBVIOUS
  <2> QED
    BY <1>2, <2>1 DEF Guarded
<1>3. ASSUME NEW x, NEW y, x # ";", y = ";" => x = Backslash PROVE Guarded(<<x, y>>)
  <2> DEFINE t == <<x, y>>
  <2>1. Len(t) = 2 /\ 1..2 = {1, 2} /\ t[1] = x /\ t[2] = y /\ 2 > 1 /\ 2 - 1 = 1
    OBVIOUS
  <2> HIDE DEF t
  <2>2. \A j \in {1, 2} : t[j] = ";" => j > 1 /\ t[j - 1] = Backslash
    BY <1>3, <2>1
  <2>3. Guarded(t)
    BY <2>1, <2>2 DEF Guarded
  <2> QED
    BY <2>3 DEF t
<1> QED
  BY <1>1, <1>2, <1>3

LEMMA EscapesAreGuarded ==
  ASSUME NEW t \in Line
  PROVE  Escape(t) \in Line /\ Guarded(Escape(t))
<1> DEFINE T == {u \in Line : Guarded(Escape(u))}
<1>1. <<>> \in T
  <2>1. Escape(<<>>) = <<>>
    BY EscapeSteps
  <2> QED
    BY <2>1, EmptyLine, ShortGuarded
<1>2. ASSUME NEW s \in Sign PROVE Guarded(EscapeOf(s))
  <2>1. Backslash # ";"
    BY WordsDiffer
  <2>2. Guarded(<<Backslash, s>>)
    BY <2>1, ShortGuarded
  <2>3. s # ";" => Guarded(<<s>>)
    BY ShortGuarded
  <2> QED
    BY <2>2, <2>3 DEF EscapeOf
<1>3. ASSUME NEW u \in Seq(Sign), NEW s \in Sign, u \in T PROVE Append(u, s) \in T
  <2>1. u \in Line /\ Append(u, s) \in Line /\ Guarded(Escape(u))
    BY <1>3 DEF Line
  <2>2. Escape(Append(u, s)) = Escape(u) \o EscapeOf(s) /\ Escape(u) \in Line /\ EscapeOf(s) \in Line
    BY <2>1, EscapeSteps
  <2>3. Guarded(Escape(u) \o EscapeOf(s))
    BY <1>2, <2>1, <2>2, GuardedInARow
  <2> QED
    BY <2>1, <2>2, <2>3
<1> HIDE DEF T
<1>4. \A u \in Seq(Sign) : u \in T
  BY <1>1, <1>3, SeqInduction
<1> QED
  BY <1>4, EscapeSteps DEF T, Line

LEMMA UnquoteOneMore ==
  ASSUME NEW t \in Line, NEW s \in Sign
  PROVE  /\ Append(t, s) \in Line
         /\ Unquote(Append(t, s)) = Unquote(t) \o Bit(Append(t, s), Len(t) + 1)
         /\ Bit(Append(t, s), Len(t) + 1) \in Line
         /\ CanUnquote(Append(t, s)) => CanUnquote(t)
<1> DEFINE r == Append(t, s)
           n == Len(t)
<1>1. /\ n \in Nat /\ r \in Line /\ Len(r) = n + 1 /\ r[n + 1] = s /\ r = t \o <<s>>
      /\ \A i \in 1..n : r[i] = t[i]
  BY AppendProperties, AppendIsConcat, LenProperties DEF Line
<1>2. \A i \in 1..n : i \in Places(r) <=> i \in Places(t)
  BY <1>1, OneSign, PlacesBefore
<1> HIDE DEF r
<1>3. \A i \in 1..n : Bit(r, i) = Bit(t, i) /\ i \in 1..(n + 1)
  BY <1>1, <1>2 DEF Bit
<1>4. /\ Bits(t) \in Seq(Line) /\ Len(Bits(t)) = n /\ \A i \in 1..n : Bits(t)[i] = Bit(t, i)
  BY BitsAre
<1>5. /\ Bits(r) \in Seq(Line) /\ Len(Bits(r)) = n + 1 /\ \A i \in 1..(n + 1) : Bits(r)[i] = Bit(r, i)
  BY <1>1, BitsAre
<1>6. n + 1 \in 1..(n + 1) /\ Bit(r, n + 1) \in Line
  <2>1. n + 1 \in 1..(n + 1)
    BY <1>1
  <2>2. Bits(r)[n + 1] \in Line
    BY <1>5, <2>1, ElementOfSeq
  <2> QED
    BY <1>5, <2>1, <2>2
<1> HIDE DEF n
<1>7. Bits(r) = Append(Bits(t), Bit(r, n + 1))
  <2> DEFINE more == Append(Bits(t), Bit(r, n + 1))
  <2>1. /\ more \in Seq(Line) /\ Len(more) = n + 1 /\ more[n + 1] = Bit(r, n + 1)
        /\ \A i \in 1..n : more[i] = Bits(t)[i]
    BY <1>4, <1>6, AppendProperties
  <2> HIDE DEF more
  <2>2. \A i \in 1..(n + 1) : i \in 1..n \/ i = n + 1
    BY <1>1
  <2>3. \A i \in 1..(n + 1) : Bits(r)[i] = more[i]
    BY <1>3, <1>4, <1>5, <2>1, <2>2
  <2>4. Bits(r) = more
    BY <1>5, <2>1, <2>3, SeqEqual
  <2> QED
    BY <2>4 DEF more
<1>8. FlattenSeq(Append(Bits(t), Bit(r, n + 1))) = FlattenSeq(Bits(t)) \o Bit(r, n + 1)
  BY ONLY <1>4, <1>6, FlattenOneMore DEF Line
<1>9. Unquote(r) = Unquote(t) \o Bit(r, n + 1)
  BY <1>1, <1>7, <1>8, UnquoteIs
<1>10. CanUnquote(r) => CanUnquote(t)
  <2> DEFINE Fine(u, i) == u[i] # LF /\ (i \in Places(u) => u[i] \in {Quote, Backslash, "t"})
  <2>1. \A i \in 1..n : Fine(r, i) <=> Fine(t, i)
    BY <1>1, <1>2
  <2>2. CanUnquote(t) <=> \A i \in 1..n : Fine(t, i)
    BY UnquoteIs DEF n
  <2>3. CanUnquote(r) <=> \A i \in 1..(n + 1) : Fine(r, i)
    BY <1>1, UnquoteIs
  <2> HIDE DEF Fine
  <2> QED
    BY <1>3, <2>1, <2>2, <2>3
<1> QED
  BY <1>1, <1>6, <1>9, <1>10 DEF r, n

(* The backslash that precedes a semicolon is an escaped one, if the text  *)
(* can be unquoted at all, and what it is unquoted to has it, too.         *)
LEMMA UnquoteKeepsGuards ==
  ASSUME NEW t \in Line, Guarded(t), CanUnquote(t)
  PROVE  Unquote(t) \in Line /\ Guarded(Unquote(t))
<1> DEFINE Waits(u) == Len(u) \in Places(u) /\ u[Len(u)] = Backslash
           EndsSo(v) == Len(v) > 0 /\ v[Len(v)] = Backslash
           T == {u \in Line : Guarded(u) /\ CanUnquote(u) =>
                   Guarded(Unquote(u)) /\ (Waits(u) => EndsSo(Unquote(u)))}
<1>1. <<>> \in T
  <2>1. <<>> \in Seq(Sign \ {Backslash, Quote}) /\ Len(<<>>) = 0
    BY EmptySeq
  <2>2. Unquote(<<>>) = <<>>
    BY <2>1, PlainStands DEF Stands
  <2>3. Places(<<>>) = {}
    BY <2>1 DEF Places
  <2> QED
    BY <2>1, <2>2, <2>3, EmptyLine DEF Guarded
<1>2. ASSUME NEW u \in Seq(Sign), NEW s \in Sign, u \in T PROVE Append(u, s) \in T
  <2> DEFINE r == Append(u, s)
             n == Len(u)
             bit == Bit(r, n + 1)
             v == Unquote(u)
  <2>1. u \in Line /\ (Guarded(u) /\ CanUnquote(u) => Guarded(v) /\ (Waits(u) => EndsSo(v)))
    BY <1>2
  <2>2. /\ n \in Nat /\ r \in Line /\ Len(r) = n + 1 /\ r[n + 1] = s /\ r = u \o <<s>>
        /\ \A i \in 1..n : r[i] = u[i]
    BY <2>1, AppendProperties, AppendIsConcat, LenProperties DEF Line
  <2>3. Unquote(r) = v \o bit /\ bit \in Line /\ (CanUnquote(r) => CanUnquote(u)) /\ v \in Line
    BY <2>1, UnquoteOneMore, UnquoteIs
  <2>4. \A i \in 1..n : i \in Places(r) <=> i \in Places(u)
    BY <2>1, <2>2, OneSign, PlacesBefore
  <2>5. n + 1 \in Places(r) <=> n > 0 /\ u[n] = Backslash /\ n \notin Places(u)
    <3>1. n + 1 \in 1..Len(r) /\ (n + 1) - 1 = n /\ (n + 1 > 1 <=> n > 0) /\ (n > 0 => n \in 1..n)
      BY <2>2
    <3>2. n + 1 \in Places(r) <=> n + 1 > 1 /\ r[(n + 1) - 1] = Backslash /\ (n + 1) - 1 \notin Places(r)
      BY <2>2, <3>1, PlacesAre
    <3> QED
      BY <2>2, <2>4, <3>1, <3>2
  <2> SUFFICES ASSUME Guarded(r), CanUnquote(r)
               PROVE  Guarded(v \o bit) /\ (Waits(r) => EndsSo(v \o bit))
    BY <2>2, <2>3
  <2>6. Guarded(v) /\ (Waits(u) => EndsSo(v))
    <3>1. Guarded(u)
      <4>1. \A j \in 1..n : j \in 1..(n + 1) /\ (j > 1 => j - 1 \in 1..n)
        BY <2>2
      <4> HIDE DEF r
      <4> QED
        BY <2>2, <4>1 DEF Guarded
    <3> QED
      BY <2>1, <2>3, <3>1
  <2>7. s # LF /\ (n + 1 \in Places(r) => s \in {Quote, Backslash, "t"})
    <3>1. n + 1 \in 1..Len(r)
      BY <2>2
    <3> QED
      BY <2>2, <3>1, UnquoteIs
  <2>8. bit = IF n + 1 \in Places(r) THEN <<IF s = "t" THEN Tab ELSE s>>
              ELSE IF s = Backslash THEN <<>> ELSE <<s>>
    BY <2>2 DEF Bit
  <2>9. Waits(u) <=> n \in Places(u) /\ u[n] = Backslash
    OBVIOUS
  <2>10. Waits(r) <=> n + 1 \in Places(r) /\ s = Backslash
    BY <2>2
  <2> HIDE DEF r, n, bit, v, T, Waits
  <2>11. ";" \notin {Quote, Backslash, "t", Tab}
    BY WordsDiffer
  <2> DEFINE w == v \o bit
  <2>12. /\ w \in Line /\ Len(v) \in Nat /\ Len(bit) \in Nat /\ Len(w) = Len(v) + Len(bit)
         /\ \A i \in 1..Len(v) : w[i] = v[i]
         /\ \A i \in 1..Len(bit) : w[Len(v) + i] = bit[i]
    <3>1. v \in Line /\ bit \in Line
      BY <2>3
    <3> QED
      BY ONLY <3>1, LinesInARow
  <2> HIDE DEF w
  <2>13. CASE s = ";"
    <3>1. n > 0 /\ u[n] = Backslash
      <4>1. n + 1 \in 1..Len(r) /\ (n + 1) - 1 = n /\ (n + 1 > 1 => n > 0) /\ (n > 0 => n \in 1..n)
        BY <2>2
      <4>2. n + 1 > 1 /\ r[(n + 1) - 1] = Backslash
        BY <2>2, <2>13, <4>1 DEF Guarded
      <4> QED
        BY <2>2, <4>1, <4>2
    <3>2. n + 1 \notin Places(r)
      BY <2>7, <2>11, <2>13
    <3>3. EndsSo(v)
      BY <2>5, <2>6, <2>9, <3>1, <3>2
    <3>4. bit = <<";">> /\ ~Waits(r)
      BY <2>8, <2>10, <2>11, <2>13, <3>2
    <3>5. Guarded(v \o bit)
      <4>1. /\ Len(v) \in Nat /\ Len(w) = Len(v) + 1
            /\ \A i \in 1..Len(v) : w[i] = v[i]
        <5>1. Len(bit) = 1
          BY <3>4
        <5> QED
          BY <2>12, <5>1
      <4>2. ASSUME NEW j \in 1..(Len(v) + 1), w[j] = ";" PROVE j > 1 /\ w[j - 1] = Backslash
        <5>1. CASE j = Len(v) + 1
          <6>1. Len(v) \in 1..Len(v) /\ j - 1 = Len(v)
            BY <3>3, <4>1, <5>1
          <6> QED
            BY <3>3, <4>1, <6>1
        <5>2. CASE j \in 1..Len(v)
          <6>1. v[j] = ";"
            BY <4>1, <4>2, <5>2
          <6>2. j > 1 /\ v[j - 1] = Backslash
            BY <2>6, <5>2, <6>1 DEF Guarded
          <6>3. j - 1 \in 1..Len(v)
            BY <4>1, <5>2, <6>2
          <6> QED
            BY <4>1, <6>2, <6>3
        <5> QED
          BY <4>1, <5>1, <5>2
      <4> QED
        BY <4>1, <4>2 DEF Guarded, w
    <3> QED
      BY <3>4, <3>5
  <2>14. CASE s # ";"
    <3>1. Guarded(bit)
      <4>1. Tab # ";"
        BY <2>11
      <4>2. Guarded(<<>>) /\ Guarded(<<s>>) /\ Guarded(<<Tab>>)
        BY <2>14, <4>1, ShortGuarded
      <4> QED
        BY <2>8, <4>2
    <3>2. Guarded(v \o bit)
      BY <2>3, <2>6, <3>1, GuardedInARow
    <3>3. ASSUME Waits(r) PROVE EndsSo(v \o bit)
      <4>1. bit = <<Backslash>>
        <5>1. n + 1 \in Places(r) /\ s = Backslash
          BY <2>10, <3>3
        <5>2. Backslash # "t"
          BY WordsDiffer
        <5> QED
          BY <2>8, <5>1, <5>2
      <4>2. Len(bit) = 1 /\ bit[1] = Backslash
        BY <4>1
      <4>3. Len(v) \in Nat /\ Len(w) = Len(v) + 1 /\ w[Len(v) + 1] = Backslash
        BY <2>12, <4>2
      <4> QED
        BY <4>3 DEF w
    <3> QED
      BY <3>2, <3>3
  <2> QED
    BY <2>13, <2>14
<1> HIDE DEF T
<1>3. \A u \in Seq(Sign) : u \in T
  BY <1>1, <1>2, SeqInduction
<1>4. t \in T
  BY <1>3 DEF Line
<1> QED
  BY <1>4, UnquoteIs DEF T

(* The value ends in the default, at the quote behind it, or, if that is   *)
(* escaped by a backslash at the end of the default, before the next tag.  *)
LEMMA FourSigns ==
  ASSUME NEW a \in Sign, NEW b \in Sign, NEW c \in Sign, NEW d \in Sign
  PROVE  LET t == <<a, b, c, d>>
         IN t \in Line /\ Len(t) = 4 /\ t[1] = a /\ t[2] = b /\ t[3] = c /\ t[4] = d
BY DEF Line

LEMMA JsonWord ==
  LET t == <<" ", "json", ":", Quote>>
  IN t \in Line /\ Len(t) = 4 /\ t[3] # Backslash /\ t[4] = Quote /\ Guarded(t)
<1> DEFINE a == " "
           b == "json"
           c == ":"
           t == <<a, b, c, Quote>>
<1>1. a \in Sign /\ b \in Sign /\ c \in Sign /\ Quote \in Sign
  BY WordsDiffer DEF Words
<1>2. a # ";" /\ b # ";" /\ c # ";" /\ Quote # ";" /\ c # Backslash
  BY WordsDiffer
<1> HIDE DEF a, b, c
<1>3. t \in Line /\ Len(t) = 4 /\ t[1] = a /\ t[2] = b /\ t[3] = c /\ t[4] = Quote
  BY <1>1, FourSigns
<1> HIDE DEF t
<1>4. \A i \in 1..4 : i \in {1, 2, 3, 4}
  OBVIOUS
<1>5. \A i \in 1..4 : t[i] # ";"
  BY <1>2, <1>3, <1>4
<1>6. Guarded(t)
  BY <1>3, <1>5 DEF Guarded
<1>7. t \in Line /\ Len(t) = 4 /\ t[3] # Backslash /\ t[4] = Quote /\ Guarded(t)
  BY <1>2, <1>3, <1>6
<1> QED
  BY <1>7 DEF t, a, b, c

LEMMA BackIsGuarded ==
  ASSUME NEW name \in Line, NEW d \in Line
  PROVE  \E m, x \in Line : /\ Back(name, d) = m \o x /\ Guarded(m)
                            /\ Quotes(Back(name, d)) # {} => Min(Quotes(Back(name, d))) <= Len(m)
<1> DEFINE q == <<Quote>>
           json == <<" ", "json", ":", Quote>>
           e == Escape(d)
           r == Back(name, d)
<1>1. q \in Line /\ json \in Line /\ e \in Line /\ r \in Line /\ Next(name) \in Line
  BY WordsAreLines, EscapeSteps, PartsOfTags
<1>2. Guarded(e) /\ Guarded(q) /\ Guarded(json)
  <2>1. Quote # ";"
    BY WordsDiffer
  <2> QED
    BY <2>1, EscapesAreGuarded, ShortGuarded, JsonWord
<1>3. r = Row(e, Row(q, Next(name)))
  BY DEF Back, Row
<1>4. Quotes(r) \in SUBSET Nat /\ (Quotes(r) # {} => Min(Quotes(r)) \in 1..Len(r))
  <2>1. Quotes(r) \in SUBSET Nat /\ Quotes(r) \subseteq 1..Len(r)
    <3> HIDE DEF r
    <3>1. Len(r) \in Nat
      BY <1>1, LineLength
    <3> QED
      BY <3>1 DEF Quotes
  <2> QED
    BY <2>1, MinIsLeast
<1>5. CASE column.next
  <2> DEFINE n == Row(e, q)
             m == Row(n, json)
             x == Row(name, q)
  <2>1. Next(name) = Row(Row(json, name), q)
    BY <1>5 DEF Next, Row
  <2> HIDE DEF q, json, e, r
  <2>2. n \in Line /\ m \in Line /\ x \in Line
    BY <1>1, RowsOfLines
  <2>3. r = Row(m, x)
    <3>1. Row(Row(json, name), q) = Row(json, x)
      BY <1>1, RowsOfLines
    <3>2. Row(q, Row(json, x)) = Row(Row(q, json), x)
      BY <1>1, <2>2, RowsOfLines
    <3>3. Row(e, Row(Row(q, json), x)) = Row(Row(e, Row(q, json)), x)
      <4>1. Row(q, json) \in Line
        BY <1>1, RowsOfLines
      <4> QED
        BY <1>1, <2>2, <4>1, RowsOfLines
    <3>4. Row(e, Row(q, json)) = m
      BY <1>1, RowsOfLines
    <3> HIDE DEF m, x
    <3> QED
      BY <1>3, <2>1, <3>1, <3>2, <3>3, <3>4
  <2>4. Guarded(m)
    <3>1. Guarded(n)
      BY <1>1, <1>2, GuardedInARow DEF Row
    <3> HIDE DEF n
    <3> QED
      BY <1>1, <1>2, <2>2, <3>1, GuardedInARow DEF Row
  <2>5. Len(json) = 4 /\ json[3] # Backslash /\ json[4] = Quote
    BY JsonWord DEF json
  <2>6. Len(n) \in Nat /\ Len(m) = Len(n) + 4 /\ m[Len(n) + 3] # Backslash /\ m[Len(n) + 4] = Quote
    <3>1. /\ Len(n) \in Nat /\ Len(m) = Len(n) + Len(json)
          /\ \A i \in 1..Len(json) : m[Len(n) + i] = json[i]
      <4> HIDE DEF n
      <4> QED
        BY <1>1, <2>2, LinesInARow DEF Row
    <3>2. 3 \in 1..4 /\ 4 \in 1..4
      OBVIOUS
    <3> HIDE DEF n, m
    <3> QED
      BY <2>5, <3>1, <3>2
  <2> HIDE DEF n, m, x
  <2>7. Len(m) \in Quotes(r)
    <3>1. /\ r \in Line /\ Len(m) \in Nat /\ Len(x) \in Nat /\ Len(r) = Len(m) + Len(x)
          /\ \A i \in 1..Len(m) : r[i] = m[i] /\ (i \in Places(r) <=> i \in Places(m))
      BY <2>2, <2>3, LinesInARow, PlacesBefore DEF Row
    <3>2. Len(m) \in 1..Len(m) /\ Len(m) \in 1..Len(r) /\ Len(m) - 1 = Len(n) + 3
      BY <2>6, <3>1
    <3>3. Len(m) \notin Places(m)
      <4>1. Len(m) \in Places(m) => m[Len(m) - 1] = Backslash
        BY <2>2, <3>2, PlacesAre
      <4> QED
        BY <2>6, <3>2, <4>1
    <3> QED
      BY <2>6, <3>1, <3>2, <3>3 DEF Quotes
  <2>8. Min(Quotes(r)) <= Len(m)
    BY <1>4, <2>7, MinIsLeast
  <2>9. r = m \o x
    BY <2>3 DEF Row
  <2> QED
    BY <2>2, <2>4, <2>8, <2>9 DEF r
<1>6. CASE ~column.next
  <2>1. Next(name) = <<>>
    BY <1>6 DEF Next
  <2>2. r = Row(e, q) /\ r \o <<>> = r
    BY <1>1, <1>3, <2>1, EmptyLine DEF Row
  <2> HIDE DEF q, json, e, r
  <2>3. Guarded(r)
    BY <1>1, <1>2, <2>2, GuardedInARow DEF Row
  <2>4. Quotes(r) # {} => Min(Quotes(r)) <= Len(r)
    <3>1. Len(r) \in Nat
      BY <1>1, LineLength
    <3> QED
      BY <1>4, <3>1
  <2> QED
    BY <1>1, <2>2, <2>3, <2>4, EmptyLine DEF r
<1> QED
  BY <1>5, <1>6

LEMMA BeginningIsGuarded ==
  ASSUME NEW name \in Line, NEW d \in Line, Quotes(Back(name, d)) # {}
  PROVE  LET begin == SubSeq(Back(name, d), 1, Min(Quotes(Back(name, d))) - 1)
         IN begin \in Line /\ Guarded(begin)
<1> DEFINE r == Back(name, d)
           k == Min(Quotes(r))
           begin == SubSeq(r, 1, k - 1)
<1>1. r \in Line
  BY PartsOfTags
<1>2. PICK m \in Line, x \in Line : r = m \o x /\ Guarded(m) /\ k <= Len(m)
  BY BackIsGuarded
<1> HIDE DEF r
<1>3. k \in 1..Len(r) /\ Len(r) \in Nat
  <2>1. Quotes(r) \in SUBSET Nat /\ Quotes(r) \subseteq 1..Len(r) /\ Len(r) \in Nat /\ Quotes(r) # {}
    BY <1>1, LineLength DEF Quotes, r
  <2> QED
    BY <2>1, MinIsLeast
<1> HIDE DEF k, begin
<1>4. begin \in Line /\ Len(begin) = k - 1 /\ \A i \in 1..(k - 1) : begin[i] = r[i]
  <2> DEFINE l == k - 1
  <2>1. l \in Nat /\ l <= Len(r)
    BY <1>3
  <2> HIDE DEF l
  <2>2. SubSeq(r, 1, l) \in Line /\ Len(SubSeq(r, 1, l)) = l /\ \A i \in 1..l : SubSeq(r, 1, l)[i] = r[i]
    BY ONLY <1>1, <2>1, CutFirst
  <2> QED
    BY <2>2 DEF begin, l
<1>5. \A i \in 1..(k - 1) : r[i] = m[i] /\ i \in 1..Len(m)
  <2>1. Len(m) \in Nat /\ \A i \in 1..Len(m) : r[i] = m[i]
    BY <1>2, LinesInARow
  <2>2. \A i \in 1..(k - 1) : i \in 1..Len(m)
    BY <1>2, <1>3, <2>1
  <2> QED
    BY <2>1, <2>2
<1>6. ASSUME NEW j \in 1..(k - 1), begin[j] = ";" PROVE j > 1 /\ begin[j - 1] = Backslash
  <2>1. m[j] = ";" /\ j \in 1..Len(m)
    BY <1>4, <1>5, <1>6
  <2>2. j > 1 /\ m[j - 1] = Backslash
    BY <1>2, <2>1 DEF Guarded
  <2>3. j - 1 \in 1..(k - 1)
    BY <1>3, <2>2
  <2> QED
    BY <1>4, <1>5, <2>2, <2>3
<1> QED
  BY <1>4, <1>6 DEF Guarded, r, k, begin

(* Behind a default without backslash it is the quote that was written.    *)
LEMMA StraightBack ==
  ASSUME NEW name \in Line, NEW d \in Seq(Straight)
  PROVE  LET r == Back(name, d)
             k == Min(Quotes(r))
         IN Quotes(r) # {} /\ SubSeq(r, 1, k - 1) = Escape(d) /\ SubSeq(r, k + 1, Len(r)) = Next(name)
<1> DEFINE r == Back(name, d)
           e == Escape(d)
           q == <<Quote>>
           x == q \o Next(name)
           n == Len(e)
           k == Min(Quotes(r))
<1>1. d \in Line /\ e \in Line /\ Closed(e) /\ Sealed(e)
  BY EscapeStands DEF Stands
<1>2. Next(name) \in Line /\ r \in Line /\ q \in Line
  BY <1>1, PartsOfTags, WordsAreLines
<1> HIDE DEF e, q
<1>3. /\ x \in Line /\ Len(x) = 1 + Len(Next(name)) /\ Len(Next(name)) \in Nat /\ x[1] = Quote
      /\ \A i \in 1..Len(Next(name)) : x[1 + i] = Next(name)[i]
  <2>1. Len(q) = 1 /\ q[1] = Quote /\ 1 \in 1..1
    BY DEF q
  <2> DEFINE f == Next(name)
  <2>2. q \in Line /\ f \in Line
    BY <1>2
  <2> HIDE DEF f
  <2>3. /\ q \o f \in Line /\ Len(f) \in Nat /\ Len(q \o f) = Len(q) + Len(f)
        /\ \A i \in 1..Len(q) : (q \o f)[i] = q[i]
        /\ \A i \in 1..Len(f) : (q \o f)[Len(q) + i] = f[i]
    BY ONLY <2>2, LinesInARow
  <2> QED
    BY <2>1, <2>3 DEF f
<1>4. r = e \o x
  BY DEF Back, e, q
<1> HIDE DEF x, r
<1>5. /\ n \in Nat /\ Len(r) = n + Len(x)
      /\ \A i \in 1..n : r[i] = e[i] /\ (i \in Places(r) <=> i \in Places(e))
      /\ \A i \in 1..Len(x) : r[n + i] = x[i] /\ (n + i \in Places(r) <=> i \in Places(x))
  <2>1. e \in Line /\ x \in Line /\ Closed(e)
    BY <1>1, <1>3
  <2>2. /\ Len(e) \in Nat /\ Len(e \o x) = Len(e) + Len(x)
        /\ \A i \in 1..Len(e) : (e \o x)[i] = e[i]
        /\ \A i \in 1..Len(x) : (e \o x)[Len(e) + i] = x[i]
    BY ONLY <2>1, LinesInARow
  <2>3. \A i \in 1..Len(e) : i \in Places(e \o x) <=> i \in Places(e)
    BY ONLY <2>1, PlacesBefore
  <2>4. \A i \in 1..Len(x) : Len(e) + i \in Places(e \o x) <=> i \in Places(x)
    BY ONLY <2>1, PlacesBehind
  <2> QED
    BY <1>4, <2>2, <2>3, <2>4
<1>6. 1 \notin Places(x) /\ 1 \in 1..Len(x)
  <2>1. 1 \in 1..Len(x)
    BY <1>3
  <2> QED
    BY <1>3, <2>1, PlacesAre
<1>7. n + 1 \in Quotes(r)
  BY <1>3, <1>5, <1>6 DEF Quotes
<1>8. \A i \in Quotes(r) : n + 1 <= i
  <2> SUFFICES ASSUME NEW i \in 1..n, r[i] = Quote, i \notin Places(r) PROVE FALSE
    BY <1>3, <1>5 DEF Quotes
  <2> QED
    BY <1>1, <1>5 DEF Sealed
<1>9. k = n + 1
  <2>1. Quotes(r) \in SUBSET Nat
    BY <1>3, <1>5 DEF Quotes
  <2> QED
    BY <1>7, <1>8, <2>1, MinIsThat
<1> HIDE DEF k
<1>10. SubSeq(r, 1, k - 1) = e
  <2> DEFINE c == SubSeq(r, 1, n)
  <2>1. c \in Seq(Sign) /\ Len(c) = n /\ \A i \in 1..n : c[i] = r[i]
    <3>1. n \in Nat /\ n <= Len(r)
      BY <1>3, <1>5
    <3>2. SubSeq(r, 1, n) \in Line /\ Len(SubSeq(r, 1, n)) = n /\ \A i \in 1..n : SubSeq(r, 1, n)[i] = r[i]
      BY ONLY <1>2, <3>1, CutFirst
    <3> QED
      BY <3>2 DEF Line
  <2> HIDE DEF c
  <2>2. c = e
    BY <1>1, <1>5, <2>1, SeqEqual DEF Line
  <2>3. k - 1 = n
    BY <1>5, <1>9
  <2> QED
    BY <2>2, <2>3 DEF c
<1>11. SubSeq(r, k + 1, Len(r)) = Next(name)
  <2> DEFINE l == Len(Next(name))
             c == SubSeq(r, k + 1, k + l)
  <2>1. k \in Nat /\ l \in Nat /\ k + l <= Len(r) /\ k + l = Len(r)
    BY <1>3, <1>5, <1>9
  <2> HIDE DEF l
  <2>2. c \in Line /\ Len(c) = l /\ \A i \in 1..l : c[i] = r[k + i]
    BY <1>2, <2>1, Cut
  <2>3. \A i \in 1..l : c[i] = Next(name)[i]
    <3> SUFFICES ASSUME NEW i \in 1..l PROVE r[k + i] = Next(name)[i]
      BY <2>2
    <3>1. 1 + i \in 1..Len(x) /\ k + i = n + (1 + i) /\ i \in 1..Len(Next(name))
      BY <1>3, <1>5, <1>9, <2>1 DEF l
    <3> QED
      BY <1>3, <1>5, <3>1
  <2> HIDE DEF c
  <2>4. c \in Seq(Sign) /\ Next(name) \in Seq(Sign) /\ Len(Next(name)) = l
    BY <1>2, <2>2 DEF Line, l
  <2>5. c = Next(name)
    BY <2>2, <2>3, <2>4, SeqEqual
  <2> QED
    BY <2>1, <2>5 DEF c
<1> QED
  BY <1>7, <1>10, <1>11 DEF r, e, k

-----------------------------------------------------------------------------
(* What reflect makes of the tag.                                          *)
PlainColumn ==
  /\ ~Has(column.default, {Backslash, ";", LF, CR})
  /\ ~Has(column.name, {Backslash, ";", LF, CR, Quote})

(* The value of gorm's tag, with some of the default, or more than that.   *)
FoundValue(name, z) ==
  /\ name \in Seq(Straight) /\ z \in Line /\ Guarded(z)
  /\ \A i \in 1..Len(name) : name[i] # ";"
  /\ column.default = Nothing => z = <<>>

LEMMA WithoutBackslash ==
  ASSUME NEW t \in Line, ~Has(t, {Backslash})
  PROVE  t \in Seq(Straight)
<1>1. Len(t) \in Nat /\ DOMAIN t = 1..Len(t) /\ \A i \in 1..Len(t) : t[i] \in Sign
  BY LineLength
<1>2. \A i \in 1..Len(t) : t[i] \in Straight
  BY <1>1 DEF Has, Straight
<1>3. t = [i \in 1..Len(t) |-> t[i]]
  BY LenProperties DEF Line
<1>4. [i \in 1..Len(t) |-> t[i]] \in Seq(Straight)
  BY <1>1, <1>2
<1> QED
  BY <1>3, <1>4

LEMMA LookupFinds ==
  ASSUME column \in Columns, column.name \in Seq(Straight), tag = AsLiteral(Quoted \o Following)
  PROVE  /\ Readable => \E name, z : FoundValue(name, z) /\ Unquote(Inner) = FrontValue(name) \o z
         /\ PlainColumn =>
              /\ Readable
              /\ Unquote(Inner) = FrontValue(column.name) \o Default
              /\ Rest = Next(column.name)
<1>1. PICK name \in Seq(Straight), d \in Line :
        /\ tag = TagOf(name, d)
        /\ column.default = Nothing => d = <<>>
        /\ ~Has(column.name, {CR}) /\ ~Has(column.default, {CR}) => name = column.name /\ d = Default
  BY TagsAre
<1> DEFINE p == BeginningOf(name)
           r == Back(name, d)
           k == Min(Quotes(r))
           begin == SubSeq(r, 1, k - 1)
<1>2. /\ name \in Line /\ p \in Line /\ r \in Line
      /\ Closed(p) /\ Sealed(p) /\ Unquote(p) = FrontValue(name)
      /\ CanUnquote(p) => \A i \in 1..Len(name) : name[i] # ";"
      /\ (\A i \in 1..Len(name) : name[i] \notin {";", LF}) => CanUnquote(p)
  <2>1. name \in Line
    BY FrontStands
  <2> QED
    BY <2>1, FrontStands, PartsOfTags DEF Stands
<1>3. /\ Ends # {} <=> Quotes(r) # {}
      /\ Ends # {} => Inner = p \o begin /\ Rest = SubSeq(r, k + 1, Len(r))
  <2>1. tag = (<<Quote>> \o p) \o r
    BY <1>1 DEF TagOf
  <2> HIDE DEF p, r
  <2> QED
    BY <1>2, <2>1, InnerIs
<1>4. Quotes(r) # {} => begin \in Line /\ Guarded(begin)
  BY <1>2, BeginningIsGuarded
<1>5. d \in Seq(Straight) =>
        Quotes(r) # {} /\ begin = Escape(d) /\ SubSeq(r, k + 1, Len(r)) = Next(name)
  BY <1>2, StraightBack
<1> HIDE DEF p, r, k, begin
<1>6. Ends # {} => /\ Unquote(Inner) = FrontValue(name) \o Unquote(begin)
                   /\ CanUnquote(Inner) <=> CanUnquote(p) /\ CanUnquote(begin)
  <2> SUFFICES ASSUME Ends # {} PROVE /\ Unquote(Inner) = FrontValue(name) \o Unquote(begin)
                                      /\ CanUnquote(Inner) <=> CanUnquote(p) /\ CanUnquote(begin)
    OBVIOUS
  <2>1. begin \in Line /\ p \in Line /\ Closed(p)
    BY <1>2, <1>3, <1>4
  <2>2. /\ Unquote(p \o begin) = Unquote(p) \o Unquote(begin)
        /\ CanUnquote(p \o begin) <=> CanUnquote(p) /\ CanUnquote(begin)
    BY ONLY <2>1, UnquoteInARow
  <2> QED
    BY <1>2, <1>3, <2>2
<1>7. ASSUME Readable
      PROVE  FoundValue(name, Unquote(begin)) /\ Unquote(Inner) = FrontValue(name) \o Unquote(begin)
  <2>1. Ends # {} /\ CanUnquote(Inner)
    BY <1>7 DEF Readable
  <2>2. Guarded(begin) /\ begin \in Line /\ CanUnquote(begin) /\ CanUnquote(p)
    BY <1>3, <1>4, <1>6, <2>1
  <2>3. Unquote(begin) \in Line /\ Guarded(Unquote(begin))
    BY <2>2, UnquoteKeepsGuards
  <2>4. column.default = Nothing => Unquote(begin) = <<>>
    <3> SUFFICES ASSUME column.default = Nothing PROVE Unquote(begin) = <<>>
      OBVIOUS
    <3>1. d = <<>> /\ <<>> \in Seq(Straight)
      BY <1>1, EmptySeq
    <3>2. begin = Escape(<<>>)
      BY <1>5, <3>1
    <3> QED
      BY <3>1, <3>2, EscapeStands DEF Stands
  <2> QED
    BY <1>2, <1>6, <2>1, <2>2, <2>3, <2>4 DEF FoundValue
<1>8. ASSUME PlainColumn
      PROVE  Readable /\ Unquote(Inner) = FrontValue(column.name) \o Default /\ Rest = Next(column.name)
  <2>1. name = column.name /\ d = Default
    BY <1>1, <1>8 DEF PlainColumn, Has
  <2>2. ~Has(d, {Backslash, ";", LF})
    <3>1. CASE column.default = Nothing
      <4>1. d = <<>> /\ \A i : i \notin DOMAIN <<>>
        BY <1>1, <3>1
      <4> QED
        BY <4>1 DEF Has
    <3>2. CASE column.default # Nothing
      <4>1. d = column.default
        BY <2>1, <3>2 DEF Default
      <4> QED
        BY <1>8, <4>1 DEF PlainColumn, Has
    <3> QED
      BY <3>1, <3>2
  <2>3. d \in Seq(Straight)
    <3>1. ~Has(d, {Backslash})
      BY <2>2 DEF Has
    <3> QED
      BY <3>1, WithoutBackslash
  <2>4. \A i \in 1..Len(d) : d[i] \notin {";", LF}
    BY <2>2, LineLength DEF Has
  <2>5. \A i \in 1..Len(name) : name[i] \notin {";", LF}
    <3>1. DOMAIN name = 1..Len(name)
      BY <1>2, LineLength
    <3> QED
      BY <1>8, <2>1, <3>1 DEF PlainColumn, Has
  <2>6. Ends # {} /\ begin = Escape(d) /\ Rest = Next(name)
    BY <1>3, <1>5, <2>3
  <2>7. Unquote(begin) = d /\ CanUnquote(begin)
    BY <2>3, <2>4, <2>6, EscapeStands DEF Stands
  <2> QED
    BY <1>2, <1>6, <2>1, <2>5, <2>6, <2>7 DEF Readable
<1> QED
  BY <1>7, <1>8

-----------------------------------------------------------------------------
(* What gorm parses.                                                       *)
LEMMA Singles ==
  ASSUME NEW t \in Line
  PROVE  FlattenSeq([i \in 1..Len(t) |-> <<t[i]>>]) = t
<1> DEFINE One(s) == <<s>>
           f == [s \in Sign |-> One(s)]
           A == Sign
           T == {u \in Seq(A) : Flat(f, u) = u}
<1>1. f \in [A -> Seq(Sign)] /\ \A s \in A : f[s] = <<s>>
  <2>1. \A s \in A : One(s) \in Seq(Sign) /\ One(s) = <<s>>
    OBVIOUS
  <2> HIDE DEF One
  <2> QED
    BY <2>1
<1> HIDE DEF f, A
<1>2. <<>> \in T
  BY EmptySeq, FlatOfEmpty
<1>3. ASSUME NEW u \in Seq(A), NEW s \in A, u \in T PROVE Append(u, s) \in T
  <2>1. Flat(f, Append(u, s)) = Flat(f, u) \o f[s]
    <3> DEFINE S == Sign
    <3>1. f \in [A -> Seq(S)] /\ u \in Seq(A) /\ s \in A
      BY <1>1
    <3> HIDE DEF S
    <3> QED
      BY ONLY <3>1, FlatOfAppend, SMTT(30)
  <2>2. Append(u, s) = u \o <<s>> /\ Append(u, s) \in Seq(A)
    BY AppendIsConcat, AppendProperties
  <2> QED
    BY <1>1, <1>3, <2>1, <2>2
<1> HIDE DEF T
<1>4. \A u \in Seq(A) : u \in T
  BY <1>2, <1>3, SeqInduction
<1>5. Flat(f, t) = t
  BY <1>4 DEF T, A, Line
<1>6. [i \in DOMAIN t |-> f[t[i]]] = [i \in 1..Len(t) |-> <<t[i]>>]
  BY <1>1, LineLength DEF A
<1> QED
  BY <1>5, <1>6 DEF Flat

LEMMA NothingUnescaped ==
  ASSUME NEW t \in Seq(Straight)
  PROVE  Unescaped(t) = t
<1>1. t \in Line /\ DOMAIN t = 1..Len(t) /\ \A i \in 1..Len(t) : t[i] # Backslash
  <2>1. t \in Line
    BY EscapeStands
  <2>2. \A i \in 1..Len(t) : t[i] # Backslash
    BY ElementOfSeq DEF Straight
  <2> QED
    BY <2>1, <2>2, LineLength
<1> DEFINE Kept(i) == IF t[i] = Backslash /\ i < Len(t) /\ t[i + 1] = Quote THEN <<>> ELSE <<t[i]>>
<1>2. \A i \in 1..Len(t) : Kept(i) = <<t[i]>>
  BY <1>1
<1>3. Unescaped(t) = FlattenSeq([i \in 1..Len(t) |-> Kept(i)])
  BY <1>1 DEF Unescaped
<1> HIDE DEF Kept
<1>4. [i \in 1..Len(t) |-> Kept(i)] = [i \in 1..Len(t) |-> <<t[i]>>]
  BY <1>2
<1> QED
  BY <1>1, <1>3, <1>4, Singles

LEMMA SettingIs ==
  ASSUME NEW w \in Sign, w # ":", NEW t \in Line
  PROVE  Setting(<<w, ":">> \o t) = <<<<w>>, Unescaped(t)>>
<1> DEFINE head == <<w, ":">>
           part == head \o t
           colons == {i \in DOMAIN part : part[i] = ":"}
           n == Len(part)
<1>1. head \in Line /\ Len(head) = 2 /\ head[1] = w /\ head[2] = ":"
  <2>1. ":" \in Sign
    BY WordsDiffer DEF Words
  <2> QED
    BY <2>1 DEF Line
<1> HIDE DEF head
<1>2. /\ part \in Line /\ n = 2 + Len(t) /\ Len(t) \in Nat
      /\ part[1] = w /\ part[2] = ":" /\ \A i \in 1..Len(t) : part[2 + i] = t[i]
  <2>1. /\ part \in Line /\ Len(t) \in Nat /\ n = 2 + Len(t)
        /\ \A i \in 1..2 : part[i] = head[i]
        /\ \A i \in 1..Len(t) : part[2 + i] = t[i]
    <3>1. /\ head \o t \in Line /\ Len(t) \in Nat /\ Len(head \o t) = Len(head) + Len(t)
          /\ \A i \in 1..Len(head) : (head \o t)[i] = head[i]
          /\ \A i \in 1..Len(t) : (head \o t)[Len(head) + i] = t[i]
      BY ONLY <1>1, t \in Line, LinesInARow
    <3> QED
      BY <1>1, <3>1
  <2>2. 1 \in 1..2 /\ 2 \in 1..2
    OBVIOUS
  <2> HIDE DEF part, n
  <2> QED
    BY <1>1, <2>1, <2>2
<1> HIDE DEF part
<1>3. DOMAIN part = 1..n /\ 2 \in 1..n
  BY <1>2, LineLength
<1>4. Min(colons) = 2
  <2>1. 2 \in colons /\ colons \in SUBSET Nat
    BY <1>2, <1>3
  <2>2. \A i \in colons : 2 <= i
    BY <1>2, <1>3
  <2> QED
    BY <2>1, <2>2, MinIsThat
<1>5. Contains(part, ":")
  BY <1>2, <1>3 DEF Contains
<1> HIDE DEF n
<1>6. SubSeq(part, 1, 2 - 1) = <<w>>
  <2> DEFINE c == SubSeq(part, 1, 1)
  <2>1. c \in Line /\ Len(c) = 1 /\ c[1] = w
    <3> DEFINE o == 1
    <3>1. o \in Nat /\ o <= Len(part) /\ 1 \in 1..o
      BY <1>2 DEF n
    <3> HIDE DEF o
    <3>2. SubSeq(part, 1, o) \in Line /\ Len(SubSeq(part, 1, o)) = o /\ \A i \in 1..o : SubSeq(part, 1, o)[i] = part[i]
      BY ONLY <1>2, <3>1, CutFirst
    <3> QED
      BY <1>2, <3>1, <3>2 DEF o
  <2>2. <<w>> \in Line /\ Len(<<w>>) = 1 /\ <<w>>[1] = w
    BY DEF Line
  <2> HIDE DEF c
  <2>3. \A i \in 1..Len(c) : c[i] = <<w>>[i]
    <3>1. 1..1 = {1}
      OBVIOUS
    <3> QED
      BY <2>1, <2>2, <3>1
  <2>4. c = <<w>>
    BY <2>1, <2>2, <2>3, SeqEqual DEF Line
  <2> QED
    BY <2>4 DEF c
<1>7. SubSeq(part, 2 + 1, Len(part)) = t
  <2> DEFINE x == 2
             l == Len(t)
             c == SubSeq(part, x + 1, x + l)
  <2>1. x \in Nat /\ l \in Nat /\ x + l <= Len(part) /\ x + l = Len(part)
    BY <1>2 DEF n
  <2>2. \A i \in 1..l : part[x + i] = t[i]
    BY <1>2
  <2> HIDE DEF x, l
  <2>3. c \in Line /\ Len(c) = l /\ \A i \in 1..l : c[i] = part[x + i]
    BY <1>2, <2>1, Cut
  <2> HIDE DEF c
  <2>4. c = t
    BY <2>2, <2>3, SeqEqual DEF Line, l
  <2> QED
    BY <2>1, <2>4 DEF c, x
<1> QED
  BY <1>4, <1>5, <1>6, <1>7 DEF Setting, part, head

LEMMA SettingOfKey ==
  Setting(<<"primaryKey">>) = <<<<"primaryKey">>, <<"primaryKey">>>>
<1> DEFINE w == "primaryKey"
<1>1. w # ":"
  OBVIOUS
<1> HIDE DEF w
<1>2. ~Contains(<<w>>, ":")
  BY <1>1 DEF Contains
<1>3. Setting(<<w>>) = <<<<w>>, <<w>>>>
  BY <1>2 DEF Setting
<1> QED
  BY <1>3 DEF w

(* A text of which every backslash before a semicolon is left out.         *)
Semicolon == ";"
LiteralAt(v, i) == v[i] = Semicolon /\ i > 1 /\ v[i - 1] = Backslash
KeepAt(v, i) == IF i + 1 \in DOMAIN v /\ LiteralAt(v, i + 1) THEN <<>> ELSE <<v[i]>>
KeptText(v) == FlattenSeq([i \in 1..Len(v) |-> KeepAt(v, i)])

(* Such a text is what a part is, ...                                      *)
LEMMA PartIs ==
  ASSUME NEW v \in Line, value = v, NEW x \in Nat, NEW t \in Line, x + Len(t) <= Len(v),
         \A i \in 1..Len(t) : v[x + i] = t[i],
         (x + Len(t)) + 1 \in DOMAIN v => ~LiteralAt(v, (x + Len(t)) + 1)
  PROVE  Part(<<x, (x + Len(t)) + 1>>) = KeptText(t)
<1> DEFINE n == Len(t)
           y == (x + n) + 1
<1>1. n \in Nat /\ Len(v) \in Nat /\ DOMAIN v = 1..Len(v) /\ DOMAIN t = 1..n
  BY LineLength
<1>2. Part(<<x, y>>) = FlattenSeq([i \in 1..(y - x - 1) |-> KeepAt(v, x + i)])
  BY DEF Part, KeepAt, LiteralAt, IsLiteral, Semicolon
<1>3. y - x - 1 = n /\ x + n <= Len(v)
  BY <1>1
<1>4. y \in DOMAIN v => ~LiteralAt(v, y)
  OBVIOUS
<1>5. y = (x + n) + 1
  OBVIOUS
<1> HIDE DEF n, y
<1>6. ASSUME NEW i \in 1..n PROVE KeepAt(v, x + i) = KeepAt(t, i)
  <2>1. v[x + i] = t[i]
    BY DEF n
  <2>2. CASE i = n
    <3>1. (x + i) + 1 = y /\ i + 1 \notin DOMAIN t
      BY <1>1, <1>5, <2>2
    <3> QED
      BY <1>4, <2>1, <3>1 DEF KeepAt
  <2>3. CASE i # n
    <3>1. /\ i + 1 \in 1..n /\ (x + i) + 1 = x + (i + 1) /\ x + (i + 1) \in 1..Len(v)
          /\ i + 1 > 1 /\ x + (i + 1) > 1 /\ (i + 1) - 1 = i /\ (x + (i + 1)) - 1 = x + i
      BY <1>1, <1>3, <2>3
    <3>2. v[x + (i + 1)] = t[i + 1]
      BY <3>1 DEF n
    <3> QED
      BY <1>1, <2>1, <3>1, <3>2 DEF KeepAt, LiteralAt
  <2> QED
    BY <2>2, <2>3
<1>7. [i \in 1..n |-> KeepAt(v, x + i)] = [i \in 1..n |-> KeepAt(t, i)]
  BY <1>6
<1>8. Part(<<x, y>>) = FlattenSeq([i \in 1..n |-> KeepAt(t, i)])
  BY <1>2, <1>3, <1>7
<1> QED
  BY <1>8 DEF KeptText, n, y

(* ... a text without semicolon is one, ...                                *)
LEMMA KeptAsItIs ==
  ASSUME NEW t \in Line, \A i \in 1..Len(t) : t[i] # Semicolon
  PROVE  KeptText(t) = t
<1>1. Len(t) \in Nat /\ DOMAIN t = 1..Len(t)
  BY LineLength
<1>2. \A i \in 1..Len(t) : KeepAt(t, i) = <<t[i]>>
  BY <1>1 DEF KeepAt, LiteralAt
<1>3. [i \in 1..Len(t) |-> KeepAt(t, i)] = [i \in 1..Len(t) |-> <<t[i]>>]
  BY <1>2
<1> QED
  BY <1>3, Singles DEF KeptText

(* ... and one that begins with two other characters begins with them.     *)
LEMMA KeptBeginning ==
  ASSUME NEW a \in Sign, NEW b \in Sign \ {Semicolon, Backslash}, NEW z \in Line
  PROVE  \E u \in Line : KeptText(<<a, b>> \o z) = <<a, b>> \o u
<1>b. b \in Sign
  OBVIOUS
<1> DEFINE two == <<a, b>>
           v == two \o z
           n == Len(v)
           m == Len(z)
           list == [i \in 1..n |-> KeepAt(v, i)]
           head == <<<<a>>, <<b>>>>
           tail == [i \in 1..m |-> KeepAt(v, 2 + i)]
<1> HIDE DEF list, tail
<1>1. two \in Line /\ Len(two) = 2 /\ two[1] = a /\ two[2] = b
  BY DEF Line
<1>2. head \in Seq(Line) /\ Len(head) = 2 /\ head[1] = <<a>> /\ head[2] = <<b>>
  <2>1. <<a>> \in Line /\ <<b>> \in Line
    BY OneSign
  <2> QED
    BY <2>1
<1>3. \A i \in 1..2 : i = 1 \/ i = 2
  OBVIOUS
<1> HIDE DEF two, head
<1>4. KeptText(two) = two
  <2>1. Len(two) = 2 /\ DOMAIN two = 1..2
    BY <1>1, LineLength
  <2>2. KeepAt(two, 1) = <<a>> /\ KeepAt(two, 2) = <<b>>
    BY <1>1, <2>1 DEF KeepAt, LiteralAt
  <2>3. [i \in 1..2 |-> KeepAt(two, i)] = [i \in 1..2 |-> <<two[i]>>]
    BY <1>1, <1>3, <2>2
  <2> QED
    BY <1>1, <2>3, Singles DEF KeptText
<1>5. FlattenSeq(head) = two
  <2>1. [i \in 1..2 |-> <<two[i]>>] = head
    <3>1. head = [i \in 1..2 |-> head[i]]
      BY <1>2, LenProperties
    <3>2. \A i \in 1..2 : <<two[i]>> = head[i]
      BY <1>1, <1>2, <1>3
    <3> QED
      BY <3>1, <3>2
  <2> QED
    BY <1>1, <2>1, Singles
<1>6. v \in Line /\ m \in Nat /\ n = 2 + m /\ v[1] = a /\ v[2] = b
  <2>1. /\ two \o z \in Line /\ Len(z) \in Nat /\ Len(two \o z) = Len(two) + Len(z)
        /\ \A i \in 1..Len(two) : (two \o z)[i] = two[i]
    BY ONLY <1>1, z \in Line, LinesInARow
  <2>2. 1 \in 1..2 /\ 2 \in 1..2
    OBVIOUS
  <2> QED
    BY <1>1, <2>1, <2>2
<1> HIDE DEF v, m
<1>7. DOMAIN v = 1..n /\ \A i \in 1..n : v[i] \in Sign
  BY <1>6, LineLength
<1> HIDE DEF n
<1>8. \A i \in 1..n : KeepAt(v, i) \in Line
  <2> SUFFICES ASSUME NEW i \in 1..n PROVE KeepAt(v, i) \in Line
    OBVIOUS
  <2>1. <<v[i]>> \in Line
    BY <1>7, OneSign
  <2> QED
    BY <2>1, EmptyLine DEF KeepAt
<1>9. KeepAt(v, 1) = <<a>> /\ KeepAt(v, 2) = <<b>>
  BY <1>6 DEF KeepAt, LiteralAt
<1>10. \A i \in 1..m : 2 + i \in 1..n
  BY <1>6
<1>11. list \in Seq(Line) /\ Len(list) = n /\ \A i \in 1..n : list[i] = KeepAt(v, i)
  BY <1>6, <1>8 DEF list
<1>12. tail \in Seq(Line) /\ Len(tail) = m /\ \A i \in 1..m : tail[i] = KeepAt(v, 2 + i)
  BY <1>6, <1>8, <1>10 DEF tail
<1>13. KeptText(v) = FlattenSeq(list)
  BY DEF KeptText, n, list
<1>14. list = head \o tail
  <2>1. Len(list) = Len(head) + Len(tail)
    BY <1>2, <1>6, <1>11, <1>12
  <2>2. \A i \in 1..Len(head) : list[i] = head[i]
    <3>1. 1 \in 1..n /\ 2 \in 1..n
      BY <1>6
    <3> QED
      BY <1>2, <1>3, <1>9, <1>11, <3>1
  <2>3. \A i \in 1..Len(tail) : list[Len(head) + i] = tail[i]
    BY <1>2, <1>10, <1>11, <1>12
  <2> QED
    BY ONLY <1>2, <1>11, <1>12, <2>1, <2>2, <2>3, RowIs
<1>15. FlattenSeq(head \o tail) = FlattenSeq(head) \o FlattenSeq(tail) /\ FlattenSeq(tail) \in Line
  <2>1. head \in Seq(Seq(Sign)) /\ tail \in Seq(Seq(Sign))
    BY <1>2, <1>12 DEF Line
  <2>2. FlattenSeq(head \o tail) = FlattenSeq(head) \o FlattenSeq(tail)
    BY ONLY <2>1, FlattenInARow
  <2>3. FlattenSeq(tail) \in Seq(Sign)
    BY ONLY <2>1, FlattenTyped
  <2> QED
    BY <2>2, <2>3 DEF Line
<1>16. KeptText(v) = two \o FlattenSeq(tail)
  BY <1>5, <1>13, <1>14, <1>15
<1> QED
  BY <1>15, <1>16 DEF v, two

(* A text with no separator to come, and one with none at all.             *)
Dense(t) == t \in Line /\ \A i \in 1..Len(t) : t[i] = Semicolon => i > 1 /\ t[i - 1] = Backslash
Solid(t) == t \in Line /\ \A i \in 1..Len(t) : t[i] # Semicolon /\ t[i] # Backslash

LEMMA SeparatorsAre ==
  ASSUME NEW v \in Line, value = v
  PROVE  /\ Separators = {i \in 1..Len(v) : v[i] = Semicolon /\ ~LiteralAt(v, i)}
         /\ DOMAIN v = 1..Len(v) /\ Len(v) \in Nat
<1>1. DOMAIN v = 1..Len(v) /\ Len(v) \in Nat
  BY LineLength
<1> QED
  BY <1>1 DEF Separators, LiteralAt, IsLiteral, Semicolon

LEMMA AfterSemicolon ==
  ASSUME NEW e \in Line
  PROVE  LET r == Row(<<Semicolon>>, e)
         IN /\ r \in Line /\ Len(e) \in Nat /\ Len(r) = 1 + Len(e) /\ r[1] = Semicolon
            /\ \A i \in 1..Len(e) : r[1 + i] = e[i]
<1> DEFINE s == <<Semicolon>>
           r == Row(s, e)
<1>1. s \in Line /\ Len(s) = 1 /\ s[1] = Semicolon /\ 1 \in 1..1
  <2>1. Semicolon \in Sign
    BY WordsDiffer DEF Words, Semicolon
  <2> QED
    BY <2>1, OneSign
<1> HIDE DEF s
<1>2. /\ r \in Line /\ Len(e) \in Nat /\ Len(r) = Len(s) + Len(e)
      /\ \A i \in 1..Len(s) : r[i] = s[i]
      /\ \A i \in 1..Len(e) : r[Len(s) + i] = e[i]
  BY ONLY <1>1, e \in Line, LinesInARow DEF Row
<1> HIDE DEF r
<1>3. /\ r \in Line /\ Len(e) \in Nat /\ Len(r) = 1 + Len(e) /\ r[1] = Semicolon
      /\ \A i \in 1..Len(e) : r[1 + i] = e[i]
  BY <1>1, <1>2
<1> QED
  BY <1>3 DEF r, s

(* A text, a semicolon and another text, place by place.                   *)
LEMMA Parted ==
  ASSUME NEW c \in Line, NEW e \in Line
  PROVE  LET v == Row(c, Row(<<Semicolon>>, e))
         IN /\ v \in Line /\ Len(c) \in Nat /\ Len(e) \in Nat /\ Len(v) = (Len(c) + 1) + Len(e)
            /\ \A i \in 1..Len(c) : v[i] = c[i]
            /\ v[Len(c) + 1] = Semicolon
            /\ \A i \in 1..Len(e) : v[(Len(c) + 1) + i] = e[i]
<1> DEFINE r == Row(<<Semicolon>>, e)
           v == Row(c, r)
<1>1. /\ r \in Line /\ Len(e) \in Nat /\ Len(r) = 1 + Len(e) /\ r[1] = Semicolon
      /\ \A i \in 1..Len(e) : r[1 + i] = e[i]
  BY AfterSemicolon
<1> HIDE DEF r
<1>2. /\ v \in Line /\ Len(c) \in Nat /\ Len(v) = Len(c) + Len(r)
      /\ \A i \in 1..Len(c) : v[i] = c[i]
      /\ \A i \in 1..Len(r) : v[Len(c) + i] = r[i]
  BY ONLY <1>1, c \in Line, LinesInARow DEF Row
<1> HIDE DEF v
<1>3. v[Len(c) + 1] = Semicolon
  <2>1. 1 \in 1..Len(r)
    BY <1>1
  <2> QED
    BY <1>1, <1>2, <2>1
<1>4. ASSUME NEW i \in 1..Len(e) PROVE v[(Len(c) + 1) + i] = e[i]
  <2>1. 1 + i \in 1..Len(r) /\ (Len(c) + 1) + i = Len(c) + (1 + i)
    BY <1>1, <1>2
  <2> QED
    BY <1>1, <1>2, <2>1
<1>5. Len(v) = (Len(c) + 1) + Len(e)
  BY <1>1, <1>2
<1>6. /\ v \in Line /\ Len(c) \in Nat /\ Len(e) \in Nat /\ Len(v) = (Len(c) + 1) + Len(e)
      /\ \A i \in 1..Len(c) : v[i] = c[i]
      /\ v[Len(c) + 1] = Semicolon
      /\ \A i \in 1..Len(e) : v[(Len(c) + 1) + i] = e[i]
  BY <1>1, <1>2, <1>3, <1>4, <1>5
<1> QED
  BY <1>6 DEF v, r

(* Such a text has one separator more than what comes last.                *)
LEMMA OneSeparator ==
  ASSUME NEW c, Solid(c), NEW e \in Line, NEW v, v = Row(c, Row(<<Semicolon>>, e)), value = v
  PROVE  \A i : i \in Separators <=>
           \/ i = Len(c) + 1
           \/ \E j \in 1..Len(e) : i = (Len(c) + 1) + j /\ e[j] = Semicolon /\ ~LiteralAt(e, j)
<1> DEFINE n == Len(c)
           a == n + 1
           m == Len(e)
<1>1. /\ v \in Line /\ n \in Nat /\ m \in Nat /\ Len(v) = a + m
      /\ \A i \in 1..n : v[i] = c[i]
      /\ v[a] = Semicolon
      /\ \A i \in 1..m : v[a + i] = e[i]
  BY Parted DEF Solid
<1>2. Separators = {i \in 1..Len(v) : v[i] = Semicolon /\ ~LiteralAt(v, i)}
  BY <1>1, SeparatorsAre
<1>3. \A i \in 1..n : c[i] # Semicolon /\ c[i] # Backslash
  BY DEF Solid
<1>4. a = n + 1
  OBVIOUS
<1> HIDE DEF n, a, m
<1>5. \A i \in 1..n : i \notin Separators
  BY <1>1, <1>2, <1>3
<1>6. a \in Separators
  <2>1. a \in 1..Len(v) /\ (a > 1 => a - 1 \in 1..n)
    BY <1>1, <1>4
  <2> QED
    BY <1>1, <1>2, <1>3, <2>1 DEF LiteralAt
<1>7. ASSUME NEW j \in 1..m
      PROVE  a + j \in Separators <=> e[j] = Semicolon /\ ~LiteralAt(e, j)
  <2>1. a + j \in 1..Len(v) /\ a + j > 1 /\ v[a + j] = e[j]
    BY <1>1, <1>4
  <2>2. CASE j = 1
    <3>1. (a + j) - 1 = a /\ ~(j > 1)
      BY <1>1, <1>4, <2>2
    <3>2. Semicolon # Backslash
      BY WordsDiffer DEF Semicolon
    <3> QED
      BY <1>1, <1>2, <2>1, <3>1, <3>2 DEF LiteralAt
  <2>3. CASE j # 1
    <3>1. j > 1 /\ j - 1 \in 1..m /\ (a + j) - 1 = a + (j - 1)
      BY <1>1, <1>4, <2>3
    <3>2. v[(a + j) - 1] = e[j - 1]
      BY <1>1, <3>1
    <3> QED
      BY <1>2, <2>1, <3>1, <3>2 DEF LiteralAt
  <2> QED
    BY <2>2, <2>3
<1>8. \A i \in Separators : i \in 1..n \/ i = a \/ \E j \in 1..m : i = a + j
  <2> SUFFICES ASSUME NEW i \in 1..(a + m), i \notin 1..n, i # a PROVE \E j \in 1..m : i = a + j
    BY <1>1, <1>2
  <2>1. i - a \in 1..m /\ i = a + (i - a)
    BY <1>1, <1>4
  <2> QED
    BY <2>1
<1>9. \A i : i \in Separators <=> i = a \/ \E j \in 1..m : i = a + j /\ e[j] = Semicolon /\ ~LiteralAt(e, j)
  BY <1>5, <1>6, <1>7, <1>8
<1> QED
  BY <1>9 DEF n, a, m

(* Between the separators are the parts.                                   *)
Between(S, p) == p[1] < p[2] /\ \A s \in S : ~(p[1] < s /\ s < p[2])

LEMMA PartsAre ==
  ASSUME NEW n \in Nat, Len(value) = n
  PROVE  /\ Separators = {} => Parts = {<<0, n + 1>>}
         /\ \A a \in 1..n : Separators = {a} => Parts = {<<0, a>>, <<a, n + 1>>}
         /\ \A a, b \in 1..n : a < b /\ Separators = {a, b} => Parts = {<<0, a>>, <<a, b>>, <<b, n + 1>>}
<1> DEFINE S == Separators
           L == {0} \cup S
           R == S \cup {n + 1}
<1>1. Parts = {p \in L \X R : Between(S, p)}
  BY DEF Parts, Between
<1>2. \A x \in L, y \in R : <<x, y>> \in Parts <=> Between(S, <<x, y>>)
  <2> HIDE DEF L, R, S
  <2> QED
    BY <1>1
<1>3. \A p \in Parts : \E x \in L, y \in R : p = <<x, y>>
  <2> HIDE DEF L, R, S
  <2> QED
    BY <1>1
<1>4. \A x, y : Between(S, <<x, y>>) <=> x < y /\ \A s \in S : ~(x < s /\ s < y)
  BY DEF Between
<1> HIDE DEF S
<1>5. ASSUME S = {} PROVE Parts = {<<0, n + 1>>}
  <2>1. L = {0} /\ R = {n + 1} /\ Between(S, <<0, n + 1>>)
    BY <1>4, <1>5
  <2> HIDE DEF L, R
  <2> QED
    BY <1>2, <1>3, <2>1
<1>6. ASSUME NEW a \in 1..n, S = {a} PROVE Parts = {<<0, a>>, <<a, n + 1>>}
  <2>1. /\ Between(S, <<0, a>>) /\ Between(S, <<a, n + 1>>)
        /\ ~Between(S, <<0, n + 1>>) /\ ~Between(S, <<a, a>>)
    BY <1>4, <1>6
  <2>2. L = {0, a} /\ R = {a, n + 1}
    BY <1>6
  <2> HIDE DEF L, R
  <2>3. \A p \in Parts : p \in {<<0, a>>, <<a, n + 1>>}
    BY <1>2, <1>3, <2>1, <2>2
  <2>4. <<0, a>> \in Parts /\ <<a, n + 1>> \in Parts
    BY <1>2, <2>1, <2>2
  <2> QED
    BY <2>3, <2>4
<1>7. ASSUME NEW a \in 1..n, NEW b \in 1..n, a < b, S = {a, b} PROVE Parts = {<<0, a>>, <<a, b>>, <<b, n + 1>>}
  <2>0. /\ \A x, y : Between(S, <<x, y>>) <=> x < y /\ ~(x < a /\ a < y) /\ ~(x < b /\ b < y)
        /\ 0 < a /\ a < b /\ b < n + 1 /\ a \in Nat /\ b \in Nat
    <3>1. 0 < a /\ a < b /\ b < n + 1 /\ a \in Nat /\ b \in Nat
      BY <1>7
    <3>3. ASSUME NEW x, NEW y PROVE Between(S, <<x, y>>) <=> x < y /\ ~(x < a /\ a < y) /\ ~(x < b /\ b < y)
      <4> DEFINE In(s) == x < s /\ s < y
      <4>1. Between(S, <<x, y>>) <=> x < y /\ \A s \in S : ~In(s)
        BY <1>4
      <4> HIDE DEF In
      <4>2. (\A s \in S : ~In(s)) <=> ~In(a) /\ ~In(b)
        BY <1>7
      <4> QED
        BY <4>1, <4>2 DEF In
    <3> QED
      BY <3>1, <3>3
  <2> HIDE <1>7
  <2>1. Between(S, <<0, a>>) /\ Between(S, <<a, b>>) /\ Between(S, <<b, n + 1>>)
    BY <2>0
  <2>2. /\ ~Between(S, <<0, b>>) /\ ~Between(S, <<0, n + 1>>)
        /\ ~Between(S, <<a, a>>) /\ ~Between(S, <<a, n + 1>>)
        /\ ~Between(S, <<b, a>>) /\ ~Between(S, <<b, b>>)
    BY <2>0
  <2>3. L = {0, a, b} /\ R = {a, b, n + 1} /\ a \in L /\ b \in L /\ 0 \in L /\ a \in R /\ b \in R /\ n + 1 \in R
    BY <1>7
  <2> HIDE DEF L, R
  <2>4. \A p \in Parts : p \in {<<0, a>>, <<a, b>>, <<b, n + 1>>}
    <3> SUFFICES ASSUME NEW x \in L, NEW y \in R, Between(S, <<x, y>>)
                 PROVE  <<x, y>> \in {<<0, a>>, <<a, b>>, <<b, n + 1>>}
      BY <1>2, <1>3
    <3>1. x = 0 \/ x = a \/ x = b
      BY <2>3
    <3>2. y = a \/ y = b \/ y = n + 1
      BY <2>3
    <3> QED
      BY <2>2, <3>1, <3>2
  <2>5. <<0, a>> \in Parts /\ <<a, b>> \in Parts /\ <<b, n + 1>> \in Parts
    BY <1>2, <2>1, <2>3
  <2> QED
    BY <2>4, <2>5
<1> QED
  BY <1>5, <1>6, <1>7 DEF S

(* What is in the parts, where there is no separator, ...                  *)
Texts == {Part(p) : p \in Parts}

LEMMA OnePart ==
  ASSUME NEW c, Solid(c), value = c
  PROVE  Texts = {c}
<1>1. c \in Line /\ \A i \in 1..Len(c) : c[i] # Semicolon
  BY DEF Solid
<1>2. Separators = {} /\ Len(c) \in Nat /\ DOMAIN c = 1..Len(c)
  <2>1. Separators = {i \in 1..Len(c) : c[i] = Semicolon /\ ~LiteralAt(c, i)} /\ Len(c) \in Nat
    BY <1>1, SeparatorsAre
  <2> QED
    BY <1>1, <2>1, LineLength
<1>3. Parts = {<<0, Len(c) + 1>>}
  BY <1>2, PartsAre
<1>4. Part(<<0, Len(c) + 1>>) = KeptText(c)
  <2> DEFINE x == 0
  <2>1. x \in Nat /\ x + Len(c) = Len(c) /\ x + Len(c) <= Len(c) /\ \A i \in 1..Len(c) : x + i = i
    BY <1>2
  <2>2. Len(c) + 1 \notin DOMAIN c
    BY <1>2
  <2> HIDE DEF x
  <2>3. Part(<<x, (x + Len(c)) + 1>>) = KeptText(c)
    <3>1. (x + Len(c)) + 1 \notin DOMAIN c
      BY <2>1, <2>2
    <3>2. \A i \in 1..Len(c) : c[x + i] = c[i]
      BY <2>1
    <3> QED
      BY <1>1, <2>1, <3>1, <3>2, PartIs
  <2> QED
    BY <2>1, <2>3 DEF x
<1>5. KeptText(c) = c
  BY <1>1, KeptAsItIs
<1> QED
  BY <1>3, <1>4, <1>5 DEF Texts

(* ... where there is one, ...                                             *)
LEMMA TwoParts ==
  ASSUME NEW c, Solid(c), NEW e, Dense(e), value = Row(c, Row(<<Semicolon>>, e))
  PROVE  Texts = {c, KeptText(e)}
<1> DEFINE v == Row(c, Row(<<Semicolon>>, e))
           n == Len(c)
           a == n + 1
           m == Len(e)
<1>1. c \in Line /\ e \in Line
  BY DEF Solid, Dense
<1>2. /\ v \in Line /\ n \in Nat /\ m \in Nat /\ Len(v) = a + m
      /\ \A i \in 1..n : v[i] = c[i]
      /\ v[a] = Semicolon
      /\ \A i \in 1..m : v[a + i] = e[i]
  BY <1>1, Parted
<1>3. Separators = {a}
  <2>1. \A i : i \in Separators <=>
           \/ i = n + 1
           \/ \E j \in 1..m : i = (n + 1) + j /\ e[j] = Semicolon /\ ~LiteralAt(e, j)
    BY <1>1, OneSeparator
  <2>2. \A j \in 1..m : e[j] = Semicolon => LiteralAt(e, j)
    BY DEF Dense, LiteralAt
  <2> QED
    BY <2>1, <2>2
<1>4. value = v
  OBVIOUS
<1>5. a = n + 1 /\ n = Len(c) /\ m = Len(e)
  OBVIOUS
<1> HIDE DEF v, a, n, m
<1>6. Parts = {<<0, a>>, <<a, Len(v) + 1>>}
  <2>1. a \in 1..Len(v) /\ Len(v) \in Nat
    BY <1>2, <1>5
  <2> QED
    BY <1>3, <1>4, <2>1, PartsAre
<1>7. Part(<<0, a>>) = c
  <2> DEFINE x == 0
  <2>1. x \in Nat /\ x + Len(c) <= Len(v) /\ (x + Len(c)) + 1 = a /\ \A i \in 1..Len(c) : x + i = i
    BY <1>2, <1>5
  <2> HIDE DEF x
  <2>2. \A i \in 1..Len(c) : v[x + i] = c[i]
    BY <1>2, <1>5, <2>1
  <2>3. ~LiteralAt(v, a)
    <3>1. a \in Separators
      BY <1>3
    <3> QED
      BY <1>2, <1>4, <3>1, SeparatorsAre
  <2>4. Part(<<x, (x + Len(c)) + 1>>) = KeptText(c)
    BY <1>1, <1>2, <1>4, <2>1, <2>2, <2>3, PartIs
  <2>5. KeptText(c) = c
    BY <1>1, KeptAsItIs DEF Solid
  <2> QED
    BY <2>1, <2>4, <2>5 DEF x
<1>8. Part(<<a, Len(v) + 1>>) = KeptText(e)
  <2>1. a \in Nat /\ a + Len(e) = Len(v) /\ a + Len(e) <= Len(v) /\ (a + Len(e)) + 1 = Len(v) + 1
    BY <1>2, <1>5
  <2>2. (a + Len(e)) + 1 \notin DOMAIN v
    BY <1>2, <1>5, LineLength
  <2>3. e \in Line /\ v \in Line /\ \A i \in 1..Len(e) : v[a + i] = e[i]
    BY <1>1, <1>2, <1>5
  <2>4. Part(<<a, (a + Len(e)) + 1>>) = KeptText(e)
    BY ONLY <1>4, <2>1, <2>2, <2>3, PartIs
  <2> QED
    BY <2>1, <2>4
<1> QED
  BY <1>6, <1>7, <1>8 DEF Texts

(* ... and where there are two.                                            *)
LEMMA Sums ==
  ASSUME NEW n \in Nat, NEW l \in Nat, NEW m \in Nat, NEW a, a = n + 1, NEW o, o = l + 1, NEW b, b = a + o
  PROVE  /\ a \in Nat /\ o \in Nat /\ b \in Nat /\ a + (o + m) = b + m /\ b + m \in Nat
         /\ a + l <= b + m /\ (a + l) + 1 = b
         /\ \A i \in 1..m : o + i \in 1..(o + m) /\ b + i = a + (o + i)
OBVIOUS

LEMMA ThreeParts ==
  ASSUME NEW c, Solid(c), NEW w, Solid(w), NEW e, Dense(e),
         value = Row(c, Row(<<Semicolon>>, Row(w, Row(<<Semicolon>>, e))))
  PROVE  Texts = {c, w, KeptText(e)}
<1> DEFINE u == Row(w, Row(<<Semicolon>>, e))
           v == Row(c, Row(<<Semicolon>>, u))
           n == Len(c)
           a == n + 1
           l == Len(w)
           o == l + 1
           b == a + o
           m == Len(e)
<1>1. c \in Line /\ w \in Line /\ e \in Line
  BY DEF Solid, Dense
<1>2. /\ u \in Line /\ l \in Nat /\ m \in Nat /\ Len(u) = o + m
      /\ \A i \in 1..l : u[i] = w[i]
      /\ u[o] = Semicolon
      /\ \A i \in 1..m : u[o + i] = e[i]
  BY <1>1, Parted
<1> HIDE DEF u
<1>3. /\ v \in Line /\ n \in Nat /\ Len(v) = a + Len(u)
      /\ \A i \in 1..n : v[i] = c[i]
      /\ v[a] = Semicolon
      /\ \A i \in 1..Len(u) : v[a + i] = u[i]
  BY <1>1, <1>2, Parted
<1>4. value = v
  BY DEF u
<1>5. a = n + 1 /\ n = Len(c) /\ m = Len(e) /\ o = l + 1 /\ b = a + o /\ l = Len(w)
  OBVIOUS
<1> HIDE DEF v, a, n, m, o, b, l
<1>5a. /\ a \in Nat /\ o \in Nat /\ b \in Nat /\ Len(v) = b + m /\ b + m \in Nat
      /\ a + l <= Len(v) /\ (a + l) + 1 = b
      /\ \A i \in 1..m : o + i \in 1..Len(u) /\ b + i = a + (o + i)
  <2>1. n \in Nat /\ l \in Nat /\ m \in Nat /\ a = n + 1 /\ o = l + 1 /\ b = a + o
    BY <1>2, <1>3, <1>5
  <2>2. /\ a \in Nat /\ o \in Nat /\ b \in Nat /\ a + (o + m) = b + m /\ b + m \in Nat
        /\ a + l <= b + m /\ (a + l) + 1 = b
        /\ \A i \in 1..m : o + i \in 1..(o + m) /\ b + i = a + (o + i)
    BY ONLY <2>1, Sums
  <2>3. Len(u) = o + m /\ Len(v) = b + m
    BY <1>2, <1>3, <2>2
  <2> QED
    BY <2>2, <2>3
<1>6. \A i : i \in Separators <=> i = a \/ \E j \in 1..Len(u) : i = a + j /\ u[j] = Semicolon /\ ~LiteralAt(u, j)
  <2>1. v = Row(c, Row(<<Semicolon>>, u))
    BY DEF v
  <2>2. \A i : i \in Separators <=>
           \/ i = Len(c) + 1
           \/ \E j \in 1..Len(u) : i = (Len(c) + 1) + j /\ u[j] = Semicolon /\ ~LiteralAt(u, j)
    <3>1. Solid(c) /\ u \in Line
      BY <1>2
    <3> QED
      BY ONLY <1>4, <2>1, <3>1, OneSeparator
  <2> QED
    BY <1>5, <2>2
<1>7. \A j \in 1..Len(u) : u[j] = Semicolon /\ ~LiteralAt(u, j) <=> j = o
  <2>1. \A j \in 1..l : u[j] # Semicolon
    BY <1>2, <1>5 DEF Solid
  <2>2. ~LiteralAt(u, o)
    <3>1. o > 1 => o - 1 = l /\ l \in 1..l
      BY <1>2, <1>5
    <3>2. o > 1 => u[o - 1] # Backslash
      BY <1>2, <1>5, <3>1 DEF Solid
    <3> QED
      BY <3>2 DEF LiteralAt
  <2>3. ASSUME NEW j \in 1..m, u[o + j] = Semicolon PROVE LiteralAt(u, o + j)
    <3>1. e[j] = Semicolon
      BY <1>2, <2>3
    <3>2. j > 1 /\ e[j - 1] = Backslash
      BY <1>5, <3>1 DEF Dense
    <3>3. j - 1 \in 1..m /\ (o + j) - 1 = o + (j - 1) /\ o + j > 1
      BY <1>2, <1>5, <3>2
    <3>4. u[(o + j) - 1] = Backslash
      BY <1>2, <3>2, <3>3
    <3> QED
      BY <2>3, <3>3, <3>4 DEF LiteralAt
  <2>4. \A j \in 1..Len(u) : j \in 1..l \/ j = o \/ \E i \in 1..m : j = o + i
    <3> SUFFICES ASSUME NEW j \in 1..(o + m), j \notin 1..l, j # o PROVE \E i \in 1..m : j = o + i
      BY <1>2
    <3>1. j - o \in 1..m /\ j = o + (j - o)
      BY <1>2, <1>5
    <3> QED
      BY <3>1
  <2> QED
    BY <1>2, <2>1, <2>2, <2>3, <2>4
<1>8. Separators = {a, b} /\ a \in 1..Len(v) /\ b \in 1..Len(v) /\ a < b /\ Len(v) \in Nat
  <2>1. o \in 1..Len(u)
    BY <1>2, <1>5
  <2>2. a \in 1..Len(v) /\ b \in 1..Len(v) /\ a < b /\ Len(v) \in Nat
    BY <1>2, <1>3, <1>5
  <2> QED
    BY <1>5, <1>6, <1>7, <2>1, <2>2
<1>9. Parts = {<<0, a>>, <<a, b>>, <<b, Len(v) + 1>>}
  BY <1>4, <1>8, PartsAre
<1>10. ~LiteralAt(v, a) /\ ~LiteralAt(v, b)
  BY <1>3, <1>4, <1>8, SeparatorsAre
<1>11. Part(<<0, a>>) = c
  <2> DEFINE x == 0
  <2>1. x \in Nat /\ x + Len(c) <= Len(v) /\ (x + Len(c)) + 1 = a /\ \A i \in 1..Len(c) : x + i = i
    BY <1>2, <1>3, <1>5
  <2> HIDE DEF x
  <2>2. \A i \in 1..Len(c) : v[x + i] = c[i]
    BY <1>3, <1>5, <2>1
  <2>3. Part(<<x, (x + Len(c)) + 1>>) = KeptText(c)
    BY <1>1, <1>3, <1>4, <1>10, <2>1, <2>2, PartIs
  <2>4. KeptText(c) = c
    BY <1>1, KeptAsItIs DEF Solid
  <2> QED
    BY <2>1, <2>3, <2>4 DEF x
<1>12. Part(<<a, b>>) = w
  <2>1. a \in Nat /\ a + Len(w) <= Len(v) /\ (a + Len(w)) + 1 = b
    BY <1>5, <1>5a
  <2>2. \A i \in 1..Len(w) : v[a + i] = w[i]
    <3>1. \A i \in 1..l : i \in 1..Len(u)
      BY <1>2, <1>5
    <3> QED
      BY <1>2, <1>3, <1>5, <3>1
  <2>3. Part(<<a, (a + Len(w)) + 1>>) = KeptText(w)
    BY <1>1, <1>3, <1>4, <1>10, <2>1, <2>2, PartIs
  <2>4. KeptText(w) = w
    BY <1>1, KeptAsItIs DEF Solid
  <2> QED
    BY <2>1, <2>3, <2>4
<1>13. Part(<<b, Len(v) + 1>>) = KeptText(e)
  <2>1. b \in Nat /\ b + Len(e) <= Len(v) /\ (b + Len(e)) + 1 = Len(v) + 1
    <3>1. b + Len(e) = Len(v) /\ b \in Nat /\ Len(v) \in Nat
      <4>1. b + m = Len(v) /\ b \in Nat /\ Len(v) \in Nat
        BY <1>5a
      <4> QED
        BY <4>1 DEF m
    <3> QED
      BY ONLY <3>1
  <2>2. (b + Len(e)) + 1 \notin DOMAIN v
    BY <1>2, <1>3, <1>5, <2>1, LineLength
  <2>3. \A i \in 1..Len(e) : v[b + i] = e[i]
    <3> SUFFICES ASSUME NEW i \in 1..m PROVE v[b + i] = e[i]
      BY <1>5
    <3>1. o + i \in 1..Len(u) /\ b + i = a + (o + i)
      BY <1>5a
    <3>2. v[a + (o + i)] = u[o + i]
      BY <1>3, <3>1
    <3> QED
      BY <1>2, <3>1, <3>2
  <2>4. e \in Line /\ v \in Line
    BY <1>1, <1>3
  <2>5. Part(<<b, (b + Len(e)) + 1>>) = KeptText(e)
    BY ONLY <1>4, <2>1, <2>2, <2>3, <2>4, PartIs
  <2> QED
    BY <2>1, <2>5
<1> QED
  BY <1>9, <1>11, <1>12, <1>13 DEF Texts

(* The words of the options, and the values between them.                  *)
ColumnWord  == <<"column", ":">>
KeyWord     == <<"primaryKey">>
DefaultWord == <<"default", ":">>
Separator   == <<Semicolon>>

LEMMA ShortRows ==
  ASSUME NEW a \in Sign, NEW b \in Sign, NEW c \in Sign
  PROVE  <<a>> \o <<b>> = <<a, b>> /\ <<a>> \o <<b, c>> = <<a, b, c>>
<1> DEFINE one == <<a>>
           two == <<b, c>>
           last == <<b>>
           pair == <<a, b>>
           all == <<a, b, c>>
<1>1. one \in Line /\ Len(one) = 1 /\ one[1] = a
  BY DEF Line
<1>2. last \in Line /\ Len(last) = 1 /\ last[1] = b
  BY DEF Line
<1>3. two \in Line /\ Len(two) = 2 /\ two[1] = b /\ two[2] = c
  BY DEF Line
<1>4. pair \in Line /\ Len(pair) = 2 /\ pair[1] = a /\ pair[2] = b
  BY DEF Line
<1>5. all \in Line /\ Len(all) = 3 /\ all[1] = a /\ all[2] = b /\ all[3] = c
  BY DEF Line
<1> HIDE DEF one, two, last, pair, all
<1>6. pair = one \o last
  <2>1. \A i \in 1..1 : i = 1
    OBVIOUS
  <2>2. /\ Len(pair) = Len(one) + Len(last)
        /\ \A i \in 1..Len(one) : pair[i] = one[i]
        /\ \A i \in 1..Len(last) : pair[Len(one) + i] = last[i]
    BY <1>1, <1>2, <1>4, <2>1
  <2> QED
    BY <1>1, <1>2, <1>4, <2>2, RowIs DEF Line
<1>7. all = one \o two
  <2>1. \A i \in 1..1 : i = 1
    OBVIOUS
  <2>2. \A i \in 1..2 : i = 1 \/ i = 2
    OBVIOUS
  <2>3. /\ Len(all) = Len(one) + Len(two)
        /\ \A i \in 1..Len(one) : all[i] = one[i]
        /\ \A i \in 1..Len(two) : all[Len(one) + i] = two[i]
    BY <1>1, <1>3, <1>5, <2>1, <2>2
  <2> QED
    BY <1>1, <1>3, <1>5, <2>3, RowIs DEF Line
<1> QED
  BY <1>6, <1>7 DEF one, two, last, pair, all

LEMMA ShortSolid ==
  ASSUME NEW a \in Sign \ {Semicolon, Backslash}, NEW b \in Sign \ {Semicolon, Backslash}
  PROVE  Solid(<<a>>) /\ Solid(<<a, b>>)
<1>1. a \in Sign /\ a # Semicolon /\ a # Backslash /\ b \in Sign /\ b # Semicolon /\ b # Backslash
  OBVIOUS
<1>2. <<a>> \in Line /\ Len(<<a>>) = 1 /\ <<a>>[1] = a
  BY <1>1 DEF Line
<1>3. <<a, b>> \in Line /\ Len(<<a, b>>) = 2 /\ <<a, b>>[1] = a /\ <<a, b>>[2] = b
  BY <1>1 DEF Line
<1> DEFINE s == <<a>>
           t == <<a, b>>
<1> HIDE DEF s, t
<1>4. \A i \in 1..Len(s) : i = 1
  BY <1>2 DEF s
<1>5. \A i \in 1..Len(t) : i = 1 \/ i = 2
  BY <1>3 DEF t
<1>6. s \in Line /\ s[1] = a /\ t \in Line /\ t[1] = a /\ t[2] = b
  BY <1>2, <1>3 DEF s, t
<1>7. Solid(s) /\ Solid(t)
  BY <1>1, <1>4, <1>5, <1>6 DEF Solid
<1> QED
  BY <1>7 DEF s, t

LEMMA WordsOfOptions ==
  /\ Solid(ColumnWord) /\ Solid(KeyWord) /\ Solid(DefaultWord) /\ Separator \in Line
  /\ Key = IF column.primaryKey THEN Row(Separator, KeyWord) ELSE <<>>
  /\ Assigned = IF column.default # Nothing THEN Row(Separator, DefaultWord) ELSE <<>>
<1> DEFINE A == Sign \ {Semicolon, Backslash}
<1>1. "column" \in A /\ ":" \in A /\ "primaryKey" \in A /\ "default" \in A
  BY WordsDiffer DEF Words, Semicolon
<1>2. Semicolon \in Sign
  BY WordsDiffer DEF Words, Semicolon
<1>3. Solid(ColumnWord)
  <2>1. Solid(<<"column", ":">>)
    BY <1>1, ShortSolid, Zenon
  <2> QED
    BY <2>1 DEF ColumnWord
<1>4. Solid(KeyWord)
  <2>1. Solid(<<"primaryKey">>)
    BY <1>1, ShortSolid, Zenon
  <2> QED
    BY <2>1 DEF KeyWord
<1>5. Solid(DefaultWord)
  <2>1. Solid(<<"default", ":">>)
    BY <1>1, ShortSolid, Zenon
  <2> QED
    BY <2>1 DEF DefaultWord
<1>6. Separator \in Line
  BY <1>2, OneSign DEF Separator
<1>7. Row(Separator, KeyWord) = <<";", "primaryKey">> /\ Row(Separator, DefaultWord) = <<";", "default", ":">>
  <2>1. Semicolon \in Sign /\ "primaryKey" \in Sign /\ "default" \in Sign /\ ":" \in Sign
    BY <1>1, <1>2
  <2>2. <<Semicolon>> \o <<"primaryKey">> = <<Semicolon, "primaryKey">>
    BY <2>1, ShortRows, Zenon
  <2>3. <<Semicolon>> \o <<"default", ":">> = <<Semicolon, "default", ":">>
    BY <2>1, ShortRows, Zenon
  <2> QED
    BY <2>2, <2>3, Zenon DEF Row, Separator, KeyWord, DefaultWord, Semicolon
<1> QED
  BY <1>3, <1>4, <1>5, <1>6, <1>7, Zenon DEF Key, Assigned

LEMMA SolidInARow ==
  ASSUME NEW a, Solid(a), NEW b, Solid(b)
  PROVE  Solid(a \o b)
<1> DEFINE c == a \o b
<1>1. a \in Line /\ b \in Line
  BY DEF Solid
<1>2. /\ c \in Line /\ Len(a) \in Nat /\ Len(b) \in Nat /\ Len(c) = Len(a) + Len(b)
      /\ \A i \in 1..Len(a) : c[i] = a[i]
      /\ \A i \in 1..Len(b) : c[Len(a) + i] = b[i]
  BY <1>1, LinesInARow
<1>3. \A i \in 1..(Len(a) + Len(b)) : i \in 1..Len(a) \/ \E j \in 1..Len(b) : i = Len(a) + j
  BY <1>1, PlaceInARow DEF Line
<1> HIDE DEF c
<1>4. \A i \in 1..Len(c) : c[i] # Semicolon /\ c[i] # Backslash
  <2> SUFFICES ASSUME NEW i \in 1..(Len(a) + Len(b)) PROVE c[i] # Semicolon /\ c[i] # Backslash
    BY <1>2
  <2>1. CASE i \in 1..Len(a)
    BY <1>2, <2>1 DEF Solid
  <2>2. CASE \E j \in 1..Len(b) : i = Len(a) + j
    BY <1>2, <2>2 DEF Solid
  <2> QED
    BY <1>3, <2>1, <2>2
<1>5. Solid(c)
  BY <1>2, <1>4 DEF Solid
<1> QED
  BY <1>5 DEF c

LEMMA SettingOfColumn ==
  ASSUME NEW name \in Seq(Straight), \A i \in 1..Len(name) : name[i] # Semicolon
  PROVE  /\ Solid(ColumnWord \o name)
         /\ Setting(ColumnWord \o name) = <<<<"column">>, name>>
<1>1. name \in Line /\ \A i \in 1..Len(name) : name[i] # Backslash
  <2>1. name \in Line
    BY EscapeStands
  <2>2. \A i \in 1..Len(name) : name[i] # Backslash
    BY ElementOfSeq DEF Straight
  <2> QED
    BY <2>1, <2>2
<1>2. Solid(name)
  BY <1>1 DEF Solid
<1>3. Solid(ColumnWord \o name)
  BY <1>2, WordsOfOptions, SolidInARow
<1>4. "column" \in Sign /\ "column" # ":"
  BY WordsDiffer DEF Words
<1>5. Setting(<<"column", ":">> \o name) = <<<<"column">>, Unescaped(name)>>
  BY <1>1, <1>4, SettingIs, Zenon
<1>6. Unescaped(name) = name
  BY NothingUnescaped
<1> QED
  BY <1>3, <1>5, <1>6, Zenon DEF ColumnWord

(* A default reads as itself, if nothing in it was escaped.                *)
LEMMA SettingOfDefault ==
  ASSUME NEW z \in Line, Guarded(z)
  PROVE  /\ Dense(DefaultWord \o z)
         /\ KeptText(DefaultWord \o z) # <<>>
         /\ \E x : /\ Setting(KeptText(DefaultWord \o z)) = <<<<"default">>, x>>
                   /\ z \in Seq(Straight) /\ (\A i \in 1..Len(z) : z[i] # Semicolon) => x = z
<1> DEFINE t == DefaultWord \o z
           n == Len(DefaultWord)
<1>1. DefaultWord \in Line /\ Solid(DefaultWord)
  BY WordsOfOptions DEF Solid
<1>2. /\ t \in Line /\ n \in Nat /\ Len(z) \in Nat /\ Len(t) = n + Len(z)
      /\ \A i \in 1..n : t[i] = DefaultWord[i]
      /\ \A i \in 1..Len(z) : t[n + i] = z[i]
  BY <1>1, LinesInARow
<1>3. \A i \in 1..(n + Len(z)) : i \in 1..n \/ \E j \in 1..Len(z) : i = n + j
  BY <1>1, PlaceInARow DEF Line
<1>4. \A j \in 1..Len(z) : z[j] = Semicolon => j > 1 /\ z[j - 1] = Backslash
  BY DEF Guarded, Semicolon
<1>5. "default" \in Sign /\ "default" # ":" /\ ":" \in Sign \ {Semicolon, Backslash} /\ ":" \in Sign
  BY WordsDiffer DEF Words, Semicolon
<1>6. Dense(t)
  <2> HIDE DEF t, n
  <2>1. ASSUME NEW i \in 1..Len(t), t[i] = Semicolon PROVE i > 1 /\ t[i - 1] = Backslash
    <3>1. i \notin 1..n
      BY <1>1, <1>2, <2>1 DEF Solid, n
    <3>2. PICK j \in 1..Len(z) : i = n + j
      BY <1>2, <1>3, <3>1
    <3>3. j > 1 /\ z[j - 1] = Backslash
      BY <1>2, <1>4, <2>1, <3>2
    <3>4. j - 1 \in 1..Len(z) /\ i - 1 = n + (j - 1) /\ i > 1
      BY <1>2, <3>2, <3>3
    <3> QED
      BY <1>2, <3>3, <3>4
  <2> QED
    BY <1>2, <2>1 DEF Dense
<1>7. PICK u \in Line : KeptText(t) = DefaultWord \o u
  <2>1. \E u \in Line : KeptText(<<"default", ":">> \o z) = <<"default", ":">> \o u
    BY <1>5, KeptBeginning, Zenon
  <2> QED
    BY <2>1, Zenon DEF DefaultWord
<1>8. Setting(KeptText(t)) = <<<<"default">>, Unescaped(u)>>
  <2>1. Setting(<<"default", ":">> \o u) = <<<<"default">>, Unescaped(u)>>
    BY <1>5, SettingIs, Zenon
  <2> QED
    BY <1>7, <2>1, Zenon DEF DefaultWord
<1>9. KeptText(t) # <<>>
  <2>1. Len(DefaultWord) = 2
    BY DEF DefaultWord
  <2>2. Len(DefaultWord \o u) = Len(DefaultWord) + Len(u) /\ Len(u) \in Nat
    BY <1>1, LinesInARow
  <2>3. Len(<<>>) = 0
    OBVIOUS
  <2> HIDE DEF t
  <2> QED
    BY <1>7, <2>1, <2>2, <2>3
<1>10. ASSUME z \in Seq(Straight), \A i \in 1..Len(z) : z[i] # Semicolon
       PROVE  Unescaped(u) = z
  <2>1. \A i \in 1..Len(t) : t[i] # Semicolon
    <3> HIDE DEF t
    <3> SUFFICES ASSUME NEW i \in 1..(n + Len(z)) PROVE t[i] # Semicolon
      BY <1>2
    <3>1. CASE i \in 1..n
      BY <1>1, <1>2, <3>1 DEF Solid
    <3>2. CASE \E j \in 1..Len(z) : i = n + j
      BY <1>2, <1>10, <3>2
    <3> QED
      BY <1>3, <3>1, <3>2
  <2>2. KeptText(t) = DefaultWord \o z
    BY <1>2, <2>1, KeptAsItIs
  <2>3. u = z
    <3>1. Row(DefaultWord, u) = Row(DefaultWord, z)
      BY <1>7, <2>2 DEF Row
    <3>2. /\ Len(Row(DefaultWord, u)) = n + Len(u) /\ Len(u) \in Nat
          /\ \A i \in 1..Len(u) : Row(DefaultWord, u)[n + i] = u[i]
      BY <1>1, LinesInARow DEF Row
    <3>3. /\ Len(Row(DefaultWord, z)) = n + Len(z)
          /\ \A i \in 1..Len(z) : Row(DefaultWord, z)[n + i] = z[i]
      BY <1>1, LinesInARow DEF Row
    <3> HIDE DEF t, n
    <3>4. Len(u) = Len(z)
      BY <1>2, <3>1, <3>2, <3>3
    <3>5. \A i \in 1..Len(u) : u[i] = z[i]
      BY <3>1, <3>2, <3>3, <3>4
    <3> QED
      BY <3>4, <3>5, SeqEqual DEF Line
  <2> QED
    BY <1>10, <2>3, NothingUnescaped
<1> QED
  BY <1>6, <1>8, <1>9, <1>10

(* What gorm reads of a value.                                             *)
Parsed == {Setting(Part(p)) : p \in {q \in Parts : Part(q) # <<>>}}

Named(name) == <<<<"column">>, name>>
Keyed       == <<<<"primaryKey">>, <<"primaryKey">>>>
Valued(x)   == <<<<"default">>, x>>

LEMMA ParsedTexts ==
  Parsed = {Setting(t) : t \in Texts \ {<<>>}}
<1>1. \A o : o \in Parsed <=> \E p \in Parts : Part(p) # <<>> /\ o = Setting(Part(p))
  BY DEF Parsed
<1>2. \A t : t \in Texts <=> \E p \in Parts : t = Part(p)
  BY DEF Texts
<1> QED
  BY <1>1, <1>2

LEMMA SolidIsDense ==
  ASSUME NEW t, Solid(t)
  PROVE  Dense(t) /\ KeptText(t) = t
<1>1. t \in Line /\ \A i \in 1..Len(t) : t[i] # Semicolon
  BY DEF Solid
<1> QED
  BY <1>1, KeptAsItIs DEF Dense

LEMMA ParseReads ==
  ASSUME NEW name, NEW z, FoundValue(name, z), value = FrontValue(name) \o z
  PROVE  \E x :
           /\ Parsed = {Named(name)}
                       \cup (IF column.primaryKey THEN {Keyed} ELSE {})
                       \cup (IF column.default # Nothing THEN {Valued(x)} ELSE {})
           /\ z \in Seq(Straight) /\ (\A i \in 1..Len(z) : z[i] # Semicolon) => x = z
<1> DEFINE c == ColumnWord \o name
           e == DefaultWord \o z
           s == Separator
           w == KeyWord
           d == DefaultWord
           Clear == z \in Seq(Straight) /\ \A i \in 1..Len(z) : z[i] # Semicolon
           Options2(x) == {Named(name)}
                          \cup (IF column.primaryKey THEN {Keyed} ELSE {})
                          \cup (IF column.default # Nothing THEN {Valued(x)} ELSE {})
<1>1. /\ name \in Seq(Straight) /\ z \in Line /\ Guarded(z)
      /\ \A i \in 1..Len(name) : name[i] # Semicolon
      /\ column.default = Nothing => z = <<>>
  BY DEF FoundValue, Semicolon
<1>2. Solid(c) /\ Setting(c) = Named(name)
  BY <1>1, SettingOfColumn DEF Named
<1>3. Dense(e) /\ KeptText(e) # <<>> /\ \E x : Setting(KeptText(e)) = Valued(x) /\ (Clear => x = z)
  BY <1>1, SettingOfDefault DEF Valued
<1>4. Solid(w) /\ Solid(d) /\ Setting(w) = Keyed
  BY WordsOfOptions, SettingOfKey DEF KeyWord, Keyed
<1>5. c \in Line /\ w \in Line /\ d \in Line /\ s \in Line /\ z \in Line /\ e \in Line
  BY <1>1, <1>2, <1>3, <1>4, WordsOfOptions DEF Solid, Dense
<1>6. c # <<>> /\ w # <<>>
  <2>1. Len(ColumnWord) = 2 /\ Len(w) = 1 /\ Len(<<>>) = 0
    BY DEF ColumnWord, KeyWord
  <2>2. ColumnWord \in Line /\ name \in Line
    BY <1>1, WordsOfOptions, EscapeStands DEF Solid
  <2>3. Len(c) = Len(ColumnWord) + Len(name) /\ Len(name) \in Nat
    BY ONLY <2>2, LinesInARow
  <2> DEFINE empty == <<>>
  <2>4. Len(empty) = 0
    BY <2>1
  <2> HIDE DEF c, w, empty
  <2>5. Len(c) # 0 /\ Len(w) # 0
    BY ONLY <2>1, <2>3
  <2>6. c # empty /\ w # empty
    BY ONLY <2>4, <2>5
  <2> QED
    BY <2>6 DEF empty
<1>7. Key = (IF column.primaryKey THEN Row(s, w) ELSE <<>>) /\ Assigned = IF column.default # Nothing THEN Row(s, d) ELSE <<>>
  BY WordsOfOptions
<1>8. value = Row(Row(Row(c, Key), Assigned), z) /\ e = Row(d, z) /\ s = <<Semicolon>>
  BY DEF FrontValue, Row, ColumnWord, Separator
<1> HIDE DEF c, e, s, w, d, Clear
<1>9. Row(c, <<>>) = c /\ Row(Row(c, Row(s, w)), <<>>) = Row(c, Row(s, w))
  <2>1. Row(c, Row(s, w)) \in Line
    BY <1>5, RowsOfLines
  <2> QED
    BY <1>5, <2>1, EmptyLine DEF Row
<1>10. CASE ~column.primaryKey /\ column.default = Nothing
  <2>1. value = c
    BY <1>1, <1>7, <1>8, <1>9, <1>10
  <2>2. Texts = {c}
    BY <1>2, <2>1, OnePart
  <2>3. Parsed = {Named(name)}
    BY <1>2, <1>6, <2>2, ParsedTexts
  <2>4. Options2(z) = {Named(name)}
    BY <1>10
  <2> QED
    BY <2>3, <2>4 DEF Clear
<1>11. CASE column.primaryKey /\ column.default = Nothing
  <2>1. value = Row(c, Row(<<Semicolon>>, w))
    BY <1>1, <1>7, <1>8, <1>9, <1>11
  <2>2. Texts = {c, w}
    BY <1>2, <1>4, <2>1, TwoParts, SolidIsDense
  <2>3. Parsed = {Named(name), Keyed}
    BY <1>2, <1>4, <1>6, <2>2, ParsedTexts
  <2>4. Options2(z) = {Named(name), Keyed}
    BY <1>11
  <2> QED
    BY <2>3, <2>4 DEF Clear
<1>12. CASE ~column.primaryKey /\ column.default # Nothing
  <2>1. value = Row(c, Row(<<Semicolon>>, e))
    <3>1. value = Row(Row(c, Row(s, d)), z)
      BY <1>7, <1>8, <1>9, <1>12
    <3>2. Row(s, d) \in Line /\ Row(Row(s, d), z) = Row(s, Row(d, z))
      BY <1>5, RowsOfLines
    <3>3. Row(Row(c, Row(s, d)), z) = Row(c, Row(Row(s, d), z))
      BY <1>5, <3>2, RowsOfLines
    <3> QED
      BY <1>8, <3>1, <3>2, <3>3
  <2>2. Texts = {c, KeptText(e)}
    BY <1>2, <1>3, <2>1, TwoParts
  <2>3. PICK x : Setting(KeptText(e)) = Valued(x) /\ (Clear => x = z)
    BY <1>3
  <2>4. Parsed = {Named(name), Valued(x)}
    BY <1>2, <1>3, <1>6, <2>2, <2>3, ParsedTexts
  <2>5. Options2(x) = {Named(name), Valued(x)}
    BY <1>12
  <2> QED
    BY <2>3, <2>4, <2>5 DEF Clear
<1>13. CASE column.primaryKey /\ column.default # Nothing
  <2>1. value = Row(c, Row(<<Semicolon>>, Row(w, Row(<<Semicolon>>, e))))
    <3>1. value = Row(Row(Row(c, Row(s, w)), Row(s, d)), z)
      BY <1>7, <1>8, <1>13
    <3>2. Row(s, d) \in Line /\ Row(s, w) \in Line /\ Row(s, e) \in Line /\ Row(c, Row(s, w)) \in Line
      BY <1>5, RowsOfLines
    <3>3. Row(Row(s, d), z) = Row(s, e)
      BY <1>5, <1>8, RowsOfLines
    <3>4. value = Row(Row(c, Row(s, w)), Row(s, e))
      BY <1>5, <3>1, <3>2, <3>3, RowsOfLines
    <3>5. Row(Row(c, Row(s, w)), Row(s, e)) = Row(c, Row(Row(s, w), Row(s, e)))
      BY <1>5, <3>2, RowsOfLines
    <3>6. Row(Row(s, w), Row(s, e)) = Row(s, Row(w, Row(s, e)))
      BY <1>5, <3>2, RowsOfLines
    <3> QED
      BY <1>8, <3>4, <3>5, <3>6
  <2>2. Texts = {c, w, KeptText(e)}
    BY <1>2, <1>3, <1>4, <2>1, ThreeParts
  <2>3. PICK x : Setting(KeptText(e)) = Valued(x) /\ (Clear => x = z)
    BY <1>3
  <2>4. Parsed = {Named(name), Keyed, Valued(x)}
    BY <1>2, <1>3, <1>4, <1>6, <2>2, <2>3, ParsedTexts
  <2>5. Options2(x) = {Named(name), Keyed, Valued(x)}
    BY <1>13
  <2> QED
    BY <2>3, <2>4, <2>5 DEF Clear
<1> QED
  BY <1>10, <1>11, <1>12, <1>13

-----------------------------------------------------------------------------
(* The invariant: the tag is what was written, the value that was found is *)
(* that of the options, whatever is left of the default, and so is what    *)
(* gorm reads; all of it is there if the column is a plain one.            *)
Found ==
  /\ column.name \in Seq(Straight) =>
       \E name, z : FoundValue(name, z) /\ value = FrontValue(name) \o z
  /\ PlainColumn => value = FrontValue(column.name) \o Default /\ other = column.next

OptionsRead ==
  /\ column.name \in Seq(Straight) => {o[1] : o \in options} = {o[1] : o \in Written}
  /\ PlainColumn => options = Written /\ other = column.next

GormInv ==
  /\ column \in Columns
  /\ phase \in {"column", "tagged", "looked up", "read", "lost"}
  /\ phase = "tagged" => tag = AsLiteral(Quoted \o Following)
  /\ phase = "looked up" => Found
  /\ phase = "read" => OptionsRead
  /\ phase = "lost" => ~PlainColumn

LEMMA PlainTexts ==
  ASSUME column \in Columns
  PROVE  /\ column.name \in Line /\ column.next \in BOOLEAN
         /\ ~Has(column.name, {Backslash}) => column.name \in Seq(Straight)
         /\ PlainColumn =>
              /\ column.name \in Seq(Straight)
              /\ FoundValue(column.name, Default)
              /\ Default \in Seq(Straight) /\ \A i \in 1..Len(Default) : Default[i] # Semicolon
<1>1. column.name \in Line /\ column.next \in BOOLEAN /\ Default \in Line
  BY ColumnTyped DEF Columns
<1>2. ~Has(column.name, {Backslash}) => column.name \in Seq(Straight)
  BY <1>1, WithoutBackslash
<1>3. ASSUME PlainColumn
      PROVE  /\ column.name \in Seq(Straight)
             /\ FoundValue(column.name, Default)
             /\ Default \in Seq(Straight) /\ \A i \in 1..Len(Default) : Default[i] # Semicolon
  <2>1. ~Has(column.name, {Backslash}) /\ ~Has(column.name, {Semicolon})
    BY <1>3 DEF PlainColumn, Has, Semicolon
  <2>2. ~Has(Default, {Backslash}) /\ ~Has(Default, {Semicolon})
    <3>1. CASE column.default = Nothing
      <4>1. Default = <<>> /\ \A i : i \notin DOMAIN <<>>
        BY <3>1 DEF Default
      <4> QED
        BY <4>1 DEF Has
    <3>2. CASE column.default # Nothing
      <4>1. Default = column.default
        BY <3>2 DEF Default
      <4> QED
        BY <1>3, <4>1 DEF PlainColumn, Has, Semicolon
    <3> QED
      BY <3>1, <3>2
  <2>3. \A i \in 1..Len(Default) : Default[i] # Semicolon
    BY <1>1, <2>2, LineLength DEF Has
  <2>4. \A i \in 1..Len(column.name) : column.name[i] # Semicolon
    BY <1>1, <2>1, LineLength DEF Has
  <2>5. Default \in Seq(Straight) /\ column.name \in Seq(Straight)
    BY <1>1, <1>2, <2>1, <2>2, WithoutBackslash
  <2>6. Guarded(Default)
    BY <2>3 DEF Guarded, Semicolon
  <2>7. column.default = Nothing => Default = <<>>
    BY DEF Default
  <2> QED
    BY <1>1, <2>3, <2>4, <2>5, <2>6, <2>7 DEF FoundValue, Semicolon
<1> QED
  BY <1>1, <1>2, <1>3

LEMMA OptionsWritten ==
  /\ Written = {Named(column.name)}
               \cup (IF column.primaryKey THEN {Keyed} ELSE {})
               \cup (IF column.default # Nothing THEN {Valued(Default)} ELSE {})
  /\ \A name, x :
       {o[1] : o \in {Named(name)}
                     \cup (IF column.primaryKey THEN {Keyed} ELSE {})
                     \cup (IF column.default # Nothing THEN {Valued(x)} ELSE {})}
       = {o[1] : o \in Written}
<1>1. Written = {Named(column.name)}
                \cup (IF column.primaryKey THEN {Keyed} ELSE {})
                \cup (IF column.default # Nothing THEN {Valued(Default)} ELSE {})
  <2>1. CASE column.default = Nothing
    BY <2>1, Zenon DEF Written, Named, Keyed
  <2>2. CASE column.default # Nothing
    <3>1. Default = column.default
      BY <2>2 DEF Default
    <3> QED
      BY <2>2, <3>1, Zenon DEF Written, Named, Keyed, Valued
  <2> QED
    BY <2>1, <2>2
<1>2. \A name, x : /\ Named(name)[1] = Named(column.name)[1]
                   /\ Valued(x)[1] = Valued(Default)[1]
  BY DEF Named, Valued
<1>3. ASSUME NEW name, NEW x
      PROVE  {o[1] : o \in {Named(name)}
                     \cup (IF column.primaryKey THEN {Keyed} ELSE {})
                     \cup (IF column.default # Nothing THEN {Valued(x)} ELSE {})}
             = {o[1] : o \in Written}
  <2>1. CASE column.primaryKey /\ column.default # Nothing
    BY <1>1, <1>2, <2>1
  <2>2. CASE column.primaryKey /\ column.default = Nothing
    BY <1>1, <1>2, <2>2
  <2>3. CASE ~column.primaryKey /\ column.default # Nothing
    BY <1>1, <1>2, <2>3
  <2>4. CASE ~column.primaryKey /\ column.default = Nothing
    BY <1>1, <1>2, <2>4
  <2> QED
    BY <2>1, <2>2, <2>3, <2>4
<1> QED
  BY <1>1, <1>3

(* Gorm finds the tag, ...                                                 *)
LEMMA LookupKeeps ==
  ASSUME GormInv, Lookup
  PROVE  GormInv'
<1>1. /\ phase = "tagged" /\ Readable /\ phase' = "looked up"
      /\ value' = Unquote(Inner) /\ column' = column
      /\ other' = (Rest = <<" ", "json", ":", Quote>> \o column.name \o <<Quote>>)
  BY DEF Lookup
<1>2. column \in Columns /\ tag = AsLiteral(Quoted \o Following)
  BY <1>1 DEF GormInv
<1>3. column.name \in Seq(Straight) =>
        \E name, z : FoundValue(name, z) /\ value' = FrontValue(name) \o z
  BY <1>1, <1>2, LookupFinds
<1>4. ASSUME PlainColumn PROVE value' = FrontValue(column.name) \o Default /\ other' = column.next
  <2>1. column.name \in Seq(Straight) /\ column.name \in Line /\ column.next \in BOOLEAN
    BY <1>2, <1>4, PlainTexts
  <2>2. Unquote(Inner) = FrontValue(column.name) \o Default /\ Rest = Next(column.name)
    BY <1>2, <1>4, <2>1, LookupFinds
  <2>3. CASE column.next
    <3>1. Next(column.name) = <<" ", "json", ":", Quote>> \o column.name \o <<Quote>>
      BY <2>3 DEF Next
    <3> QED
      BY <1>1, <2>1, <2>2, <2>3, <3>1
  <2>4. CASE ~column.next
    <3> DEFINE json == <<" ", "json", ":", Quote>>
               q == <<Quote>>
               empty == <<>>
    <3>1. Rest = empty /\ Len(empty) = 0
      BY <2>2, <2>4 DEF Next
    <3>2. json \in Line /\ q \in Line /\ Len(json) = 4
      BY WordsAreLines, JsonWord
    <3> HIDE DEF json, q, empty
    <3>3. json \o column.name \in Line /\ Len(json \o column.name) = 4 + Len(column.name) /\ Len(column.name) \in Nat
      <4> DEFINE n == column.name
      <4>1. json \in Line /\ n \in Line
        BY <2>1, <3>2
      <4> HIDE DEF n
      <4>2. json \o n \in Line /\ Len(json \o n) = Len(json) + Len(n) /\ Len(n) \in Nat
        BY ONLY <4>1, LinesInARow
      <4> QED
        BY <3>2, <4>2 DEF n
    <3> DEFINE t == json \o column.name
    <3>4. t \in Line /\ Len(t) > 0
      BY <3>3
    <3> HIDE DEF t
    <3>5. Len(t \o q) = Len(t) + Len(q) /\ Len(q) \in Nat /\ Len(t) \in Nat
      BY <3>2, <3>4, LinesInARow
    <3>6. t \o q # empty
      BY <3>1, <3>4, <3>5
    <3>7. Rest # (json \o column.name) \o q
      BY <3>1, <3>6 DEF t
    <3>8. Rest # <<" ", "json", ":", Quote>> \o column.name \o <<Quote>>
      BY <3>7 DEF json, q
    <3> QED
      BY <1>1, <2>1, <2>2, <2>4, <3>8
  <2> QED
    BY <2>3, <2>4
<1> QED
  BY <1>1, <1>2, <1>3, <1>4 DEF GormInv, Found, PlainColumn, FoundValue, FrontValue, Key, Assigned, Default

(* ... or not, ...                                                         *)
LEMMA LookupFailsKeeps ==
  ASSUME GormInv, LookupFails
  PROVE  GormInv'
<1>1. phase = "tagged" /\ ~Readable /\ phase' = "lost" /\ column' = column
  BY DEF LookupFails
<1>2. column \in Columns /\ tag = AsLiteral(Quoted \o Following)
  BY <1>1 DEF GormInv
<1>3. ~PlainColumn
  BY <1>1, <1>2, PlainTexts, LookupFinds
<1> QED
  BY <1>1, <1>2, <1>3 DEF GormInv, PlainColumn

(* ... and parses it.                                                      *)
LEMMA ParseKeeps ==
  ASSUME GormInv, Parse
  PROVE  GormInv'
<1>1. /\ phase = "looked up" /\ phase' = "read" /\ options' = Parsed
      /\ column' = column /\ other' = other
  BY DEF Parse, Parsed
<1>2. column \in Columns /\ Found
  BY <1>1 DEF GormInv
<1>3. ASSUME column.name \in Seq(Straight)
      PROVE  {o[1] : o \in Parsed} = {o[1] : o \in Written}
  <2>1. PICK name, z : FoundValue(name, z) /\ value = FrontValue(name) \o z
    BY <1>2, <1>3 DEF Found
  <2>2. PICK x : Parsed = {Named(name)}
                          \cup (IF column.primaryKey THEN {Keyed} ELSE {})
                          \cup (IF column.default # Nothing THEN {Valued(x)} ELSE {})
    BY <2>1, ParseReads
  <2> QED
    BY <2>2, OptionsWritten
<1>4. ASSUME PlainColumn
      PROVE  Parsed = Written /\ other = column.next
  <2>1. value = FrontValue(column.name) \o Default /\ other = column.next
    BY <1>2, <1>4 DEF Found
  <2>2. /\ FoundValue(column.name, Default)
        /\ Default \in Seq(Straight) /\ \A i \in 1..Len(Default) : Default[i] # Semicolon
    BY <1>2, <1>4, PlainTexts
  <2>3. PICK x : /\ Parsed = {Named(column.name)}
                             \cup (IF column.primaryKey THEN {Keyed} ELSE {})
                             \cup (IF column.default # Nothing THEN {Valued(x)} ELSE {})
                 /\ x = Default
    BY <2>1, <2>2, ParseReads
  <2> QED
    BY <2>1, <2>3, OptionsWritten
<1>5. Written' = Written /\ (PlainColumn' <=> PlainColumn)
  BY <1>1 DEF Written, PlainColumn
<1>6. OptionsRead'
  BY <1>1, <1>3, <1>4, <1>5 DEF OptionsRead
<1> QED
  BY <1>1, <1>2, <1>6 DEF GormInv

LEMMA GormInitially == FieldInit => GormInv
BY DEF FieldInit, Started, Unwritten, GormInv

LEMMA GormStep == GormInv /\ [FieldNext]_allVars => GormInv'
<1> SUFFICES ASSUME GormInv, [FieldNext]_allVars PROVE GormInv'
  OBVIOUS
<1>1. ASSUME UNCHANGED vars PROVE GormInv'
  BY <1>1 DEF vars, GormInv, Found, OptionsRead, PlainColumn, FoundValue, FrontValue, Key, Assigned,
              Default, Written, Quoted, Options, Following
<1>2. CASE WriteField
  <2>1. phase = "column" /\ tag' = AsLiteral(Quoted \o Following) /\ phase' = "tagged" /\ column' = column
    BY <1>2 DEF WriteField, Generate
  <2>2. tag' = AsLiteral(Quoted' \o Following')
    BY <2>1 DEF Quoted, Options, Following
  <2> QED
    BY <2>1, <2>2 DEF GormInv
<1>3. CASE ReadTag
  BY <1>3, LookupKeeps, LookupFailsKeeps, ParseKeeps DEF ReadTag
<1>4. CASE NameStruct \/ RefuseTable \/ NameField \/ RefuseColumn \/ PanicAtColumn \/ WriteFile
  BY <1>1, <1>4 DEF NameStruct, RefuseTable, NameField, RefuseColumn, PanicAtColumn, WriteFile
<1>5. CASE UNCHANGED allVars
  BY <1>1, <1>5 DEF allVars
<1> QED
  BY <1>2, <1>3, <1>4, <1>5 DEF FieldNext

(* Whatever is in a default, and whatever its names and tags, gorm sees    *)
(* the options that GenerateTag wrote or none: for every column.           *)
THEOREM FieldNoDefaultMakesAnOption == FieldSpec => []NoDefaultMakesAnOption
<1>1. GormInv => NoDefaultMakesAnOption
  BY PlainTexts DEF GormInv, OptionsRead, NoDefaultMakesAnOption
<1> QED
  BY <1>1, GormInitially, GormStep, PTL DEF FieldSpec

(* A column with neither backslash, semicolon nor line break, nor a quote  *)
(* in its name, has its tags read as they were written: for every column.  *)
THEOREM FieldPlainColumnsAreReadBack == FieldSpec => []PlainColumnsAreReadBack
<1>1. GormInv => PlainColumnsAreReadBack
  BY DEF GormInv, OptionsRead, PlainColumnsAreReadBack, PlainColumn, Intact
<1> QED
  BY <1>1, GormInitially, GormStep, PTL DEF FieldSpec

-----------------------------------------------------------------------------
(* The names decide what reaches the tags: a tag is read of a field that   *)
(* was accepted, and then nothing in its name is special to a reader.      *)
TagsOfFields == phase = "column" \/ stage \in {"file", "written"}

LEMMA TagsOfFieldsStep == TagsOfFields /\ [FieldNext]_allVars => TagsOfFields'
<1> SUFFICES ASSUME TagsOfFields, [FieldNext]_allVars PROVE TagsOfFields'
  OBVIOUS
<1>1. CASE NameStruct \/ RefuseTable \/ NameField \/ RefuseColumn \/ PanicAtColumn \/ UNCHANGED allVars
  BY <1>1 DEF TagsOfFields, NameStruct, RefuseTable, NameField, RefuseColumn, PanicAtColumn,
              allVars, fieldVars, vars
<1>2. CASE WriteField \/ WriteFile \/ ReadTag
  BY <1>2 DEF TagsOfFields, WriteField, WriteFile, ReadTag, fieldVars
<1> QED
  BY <1>1, <1>2 DEF FieldNext

LEMMA AcceptedIsPlain ==
  ASSUME NamesInv, TagsOfFields, phase \in {"read", "lost"}, AllPlain(column.name),
         ~Has(column.name, {LF, CR}), ~Has(column.default, {Backslash, ";", LF, CR})
  PROVE  PlainColumn
<1>1. FieldNamed.kind = "accepted"
  BY DEF NamesInv, TagsOfFields
<1>2. ~Refusable(column.name)
  <2>1. PICK u, v :
          /\ FieldNamed = IF ~ValidText(u) THEN [kind |-> "refused", ident |-> <<>>]
                          ELSE [kind |-> "accepted",
                                ident |-> FieldOf(u, v, settings.camel, settings.initialisms)]
          /\ ValidText(u) <=> ~Refusable(column.name)
    BY NameDecided
  <2> QED
    BY <1>1, <2>1
<1>3. \A i \in DOMAIN column.name : column.name[i] \in Letter \cup Digit \cup Space \cup {Underscore}
  BY <1>2 DEF Refusable
<1>4. {Quote, Backslash, Semicolon} \cap (Letter \cup Digit \cup Space \cup {Underscore}) = {}
  <2>1. {Quote, Backslash, Semicolon} \cap {Underscore} = {}
    BY DEF Quote, Backslash, Semicolon, Underscore
  <2> QED
    BY <2>1, MarkAssumption DEF Semicolon
<1>5. \A i \in DOMAIN column.name : column.name[i] \notin {Quote, Backslash, Semicolon}
  BY <1>3, <1>4
<1>6. ~Has(column.name, {Backslash, Semicolon, LF, CR, Quote})
  BY <1>5 DEF Has
<1> QED
  BY <1>6 DEF PlainColumn, Semicolon

(* A name of plain characters that was accepted has, without a condition   *)
(* of its own but that on line breaks, its tags read as they were written. *)
THEOREM FieldAcceptedNamesAreReadBack == FieldSpec => []AcceptedNamesAreReadBack
<1>1. FieldInit => TagsOfFields
  BY DEF FieldInit, Started, Unwritten, TagsOfFields
<1>2. GormInv /\ NamesInv /\ TagsOfFields => AcceptedNamesAreReadBack
  BY AcceptedIsPlain DEF GormInv, OptionsRead, AcceptedNamesAreReadBack, Intact
<1> QED
  BY <1>1, <1>2, TagsOfFieldsStep, GormInitially, GormStep, NamesAlways, PTL DEF FieldSpec

=============================================================================
