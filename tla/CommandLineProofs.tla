------------------------- MODULE CommandLineProofs -------------------------
(***************************************************************************)
(* Proofs about CommandLine, for all command lines: what it does to the    *)
(* tags is a behaviour of Tags, so that what is proved of Tags holds of    *)
(* the program and of all programs that use the package settings; every    *)
(* flag counts, and the driver is told the server that they name.          *)
(***************************************************************************)
EXTENDS CommandLine, TagsProofs, DataLemmas

-----------------------------------------------------------------------------
(* What the readers of a data source name find in one that DSN has built,  *)
(* as long as no part of it holds a delimiter that ends it before its time.*)

Text == Seq(Symbol)

(* Two texts in a row.                                                     *)
LEMMA TextInARow ==
  ASSUME NEW a \in Text, NEW b \in Text
  PROVE  /\ a \o b \in Text /\ Len(a) \in Nat /\ Len(b) \in Nat
         /\ Len(a \o b) = Len(a) + Len(b)
         /\ DOMAIN a = 1..Len(a) /\ DOMAIN b = 1..Len(b)
         /\ DOMAIN (a \o b) = 1..(Len(a) + Len(b))
BY ConcatProperties, LenProperties DEF Text

LEMMA InARowAt ==
  ASSUME NEW a \in Text, NEW b \in Text
  PROVE  /\ \A i \in 1..Len(a) : (a \o b)[i] = a[i]
         /\ \A i \in (Len(a) + 1)..(Len(a) + Len(b)) : (a \o b)[i] = b[i - Len(a)]
<1>1. Len(a) \in Nat /\ Len(b) \in Nat
  BY DEF Text
<1> QED
  BY <1>1 DEF Text

LEMMA InARowHolds ==
  ASSUME NEW a \in Text, NEW b \in Text, NEW symbol
  PROVE  Holds(a \o b, symbol) <=> Holds(a, symbol) \/ Holds(b, symbol)
<1>1. /\ Len(a) \in Nat /\ Len(b) \in Nat
      /\ DOMAIN a = 1..Len(a) /\ DOMAIN b = 1..Len(b)
      /\ DOMAIN (a \o b) = 1..(Len(a) + Len(b))
  BY TextInARow
<1>2. /\ \A i \in 1..Len(a) : (a \o b)[i] = a[i]
      /\ \A i \in (Len(a) + 1)..(Len(a) + Len(b)) : (a \o b)[i] = b[i - Len(a)]
  BY InARowAt
<1>3. /\ \A i \in 1..Len(a) : i \in 1..(Len(a) + Len(b))
      /\ \A i \in 1..Len(b) :
           /\ Len(a) + i \in (Len(a) + 1)..(Len(a) + Len(b)) /\ Len(a) + i \in 1..(Len(a) + Len(b))
           /\ (Len(a) + i) - Len(a) = i
      /\ \A i \in 1..(Len(a) + Len(b)) :
           i \in 1..Len(a) \/ (i \in (Len(a) + 1)..(Len(a) + Len(b)) /\ i - Len(a) \in 1..Len(b))
  BY <1>1
<1>4. \A i \in 1..Len(b) : (a \o b)[Len(a) + i] = b[i]
  BY <1>2, <1>3
<1>5. Holds(a, symbol) => Holds(a \o b, symbol)
  BY <1>1, <1>2, <1>3 DEF Holds
<1>6. Holds(b, symbol) => Holds(a \o b, symbol)
  BY <1>1, <1>3, <1>4 DEF Holds
<1>7. ASSUME Holds(a \o b, symbol) PROVE Holds(a, symbol) \/ Holds(b, symbol)
  <2>1. PICK i \in 1..(Len(a) + Len(b)) : (a \o b)[i] = symbol
    BY <1>1, <1>7 DEF Holds
  <2>2. i \in 1..Len(a) => a[i] = symbol
    BY <1>2, <2>1
  <2>3. i \notin 1..Len(a) => i - Len(a) \in 1..Len(b) /\ b[i - Len(a)] = symbol
    BY <1>2, <1>3, <2>1
  <2> QED
    BY <1>1, <2>2, <2>3 DEF Holds
<1> QED
  BY <1>5, <1>6, <1>7

LEMMA OneSymbol ==
  ASSUME NEW c \in Symbol
  PROVE  /\ <<c>> \in Text /\ Len(<<c>>) = 1 /\ <<c>> # <<>> /\ <<c>>[1] = c
         /\ \A symbol : Holds(<<c>>, symbol) <=> c = symbol
<1>1. <<c>> \in Text /\ Len(<<c>>) = 1 /\ <<c>> # <<>> /\ <<c>>[1] = c
  BY DEF Text
<1>2. DOMAIN <<c>> = 1..1
  OBVIOUS
<1> QED
  BY <1>1, <1>2 DEF Holds

LEMMA NoSymbol == <<>> \in Text /\ Len(<<>>) = 0 /\ \A symbol : ~Holds(<<>>, symbol)
BY DEF Text, Holds

(* The symbol between a and b is where it is, ...                          *)
LEMMA TheSymbol ==
  ASSUME NEW a \in Text, NEW c \in Symbol, NEW b \in Text, NEW text, text = a \o <<c>> \o b
  PROVE  /\ text \in Text
         /\ Len(text) = Len(a) + 1 + Len(b)
         /\ text[Len(a) + 1] = c
<1> DEFINE head == a \o <<c>>
<1>1. <<c>> \in Text /\ Len(<<c>>) = 1 /\ <<c>>[1] = c
  BY OneSymbol
<1>2. head \in Text /\ Len(a) \in Nat /\ Len(head) = Len(a) + 1
  BY <1>1, TextInARow
<1>3. head[Len(a) + 1] = c
  <2>1. \A i \in (Len(a) + 1)..(Len(a) + 1) : head[i] = <<c>>[i - Len(a)]
    BY <1>1, InARowAt
  <2>2. Len(a) + 1 \in (Len(a) + 1)..(Len(a) + 1) /\ (Len(a) + 1) - Len(a) = 1
    BY <1>2
  <2> QED
    BY <1>1, <2>1, <2>2
<1> HIDE DEF head
<1>4. text = head \o b
  BY DEF head
<1>5. text \in Text /\ Len(b) \in Nat /\ Len(text) = Len(head) + Len(b)
  BY <1>2, <1>4, TextInARow
<1>6. \A i \in 1..Len(head) : text[i] = head[i]
  BY <1>2, <1>4, InARowAt
<1>7. Len(a) + 1 \in 1..Len(head)
  BY <1>2
<1> QED
  BY <1>2, <1>3, <1>5, <1>6, <1>7

LEMMA AroundSymbol ==
  ASSUME NEW a \in Text, NEW c \in Symbol, NEW b \in Text, NEW text, text = a \o <<c>> \o b
  PROVE  /\ \A i \in 1..Len(a) : text[i] = a[i]
         /\ \A i \in 1..Len(b) : text[Len(a) + 1 + i] = b[i]
<1> DEFINE head == a \o <<c>>
<1>1. <<c>> \in Text /\ Len(<<c>>) = 1
  BY OneSymbol
<1>2. head \in Text /\ Len(a) \in Nat /\ Len(b) \in Nat /\ Len(head) = Len(a) + 1
  BY <1>1, TextInARow
<1>3. \A i \in 1..Len(a) : head[i] = a[i]
  BY <1>1, InARowAt
<1> HIDE DEF head
<1>4. text = head \o b
  BY DEF head
<1>5. /\ \A i \in 1..Len(head) : text[i] = head[i]
      /\ \A i \in (Len(head) + 1)..(Len(head) + Len(b)) : text[i] = b[i - Len(head)]
  <2>1. /\ \A i \in 1..Len(head) : (head \o b)[i] = head[i]
        /\ \A i \in (Len(head) + 1)..(Len(head) + Len(b)) : (head \o b)[i] = b[i - Len(head)]
    BY <1>2, InARowAt
  <2> QED
    BY <1>4, <2>1
<1>6. /\ \A i \in 1..Len(a) : i \in 1..Len(head)
      /\ \A i \in 1..Len(b) : /\ Len(a) + 1 + i \in (Len(head) + 1)..(Len(head) + Len(b))
                              /\ (Len(a) + 1 + i) - Len(head) = i
  BY <1>2
<1> QED
  BY <1>3, <1>5, <1>6

(* ... before it is a, and after it b.                                     *)
LEMMA Cut ==
  ASSUME NEW a \in Text, NEW c \in Symbol, NEW b \in Text, NEW text, text = a \o <<c>> \o b
  PROVE  Before(text, Len(a) + 1) = a /\ After(text, Len(a) + 1) = b
<1>1. /\ text \in Seq(Symbol) /\ Len(text) = Len(a) + 1 + Len(b)
      /\ a \in Seq(Symbol) /\ b \in Seq(Symbol) /\ Len(a) \in Nat /\ Len(b) \in Nat
  BY TheSymbol DEF Text
<1>2. \A i \in 1..Len(text) : text[i] \in Symbol
  BY <1>1
<1>3. /\ \A i \in 1..Len(a) : text[i] = a[i]
      /\ \A i \in 1..Len(b) : text[Len(a) + 1 + i] = b[i]
  BY AroundSymbol
<1>4. SubSeq(text, 1, Len(a)) = a
  <2> DEFINE part == SubSeq(text, 1, Len(a))
  <2>1. \A i \in 1..Len(a) : text[i] \in Symbol
    BY <1>1, <1>2
  <2>2. /\ part \in Seq(Symbol) /\ Len(part) = IF 1 <= Len(a) THEN Len(a) - 1 + 1 ELSE 0
        /\ \A i \in 1..(Len(a) - 1 + 1) : part[i] = text[1 + i - 1]
    BY <1>1, <2>1, SubSeqProperties
  <2> HIDE DEF part
  <2>3. Len(part) = Len(a) /\ \A i \in 1..Len(a) : part[i] = text[i]
    BY <1>1, <2>2
  <2>4. part = a
    BY <1>1, <1>3, <2>2, <2>3, SeqEqual
  <2> QED
    BY <2>4 DEF part
<1>5. SubSeq(text, Len(a) + 2, Len(text)) = b
  <2> DEFINE part == SubSeq(text, Len(a) + 2, Len(text))
  <2>1. \A i \in (Len(a) + 2)..Len(text) : text[i] \in Symbol
    BY <1>1, <1>2
  <2>2. /\ part \in Seq(Symbol)
        /\ Len(part) = IF Len(a) + 2 <= Len(text) THEN Len(text) - (Len(a) + 2) + 1 ELSE 0
        /\ \A i \in 1..(Len(text) - (Len(a) + 2) + 1) : part[i] = text[(Len(a) + 2) + i - 1]
    BY <1>1, <2>1, SubSeqProperties
  <2> HIDE DEF part
  <2>3. Len(part) = Len(b)
    BY <1>1, <2>2
  <2>4. Len(text) - (Len(a) + 2) + 1 = Len(b)
    BY <1>1
  <2>5. \A i \in 1..Len(b) : (Len(a) + 2) + i - 1 = Len(a) + 1 + i
    BY <1>1
  <2>6. \A i \in 1..Len(b) : part[i] = b[i]
    BY <1>3, <2>2, <2>4, <2>5
  <2>7. part = b
    BY <1>1, <2>2, <2>3, <2>6, SeqEqual
  <2> QED
    BY <2>7 DEF part
<1>6. (Len(a) + 1) - 1 = Len(a) /\ (Len(a) + 1) + 1 = Len(a) + 2
  BY <1>1
<1> QED
  BY <1>4, <1>5, <1>6 DEF Before, After

(* The text that is a, then c, then b.                                     *)
Splits(text, a, c, b) ==
  a \in Text /\ b \in Text /\ c \in Symbol /\ text = a \o <<c>> \o b

LEMMA SplitTyped ==
  ASSUME NEW a, NEW c, NEW b, NEW text, Splits(text, a, c, b)
  PROVE  /\ text \in Text /\ Len(text) = Len(a) + 1 + Len(b)
         /\ \A i \in 1..Len(a) : text[i] = a[i]
         /\ \A i \in 1..Len(b) : text[Len(a) + 1 + i] = b[i]
<1>1. a \in Text /\ b \in Text /\ c \in Symbol /\ text = a \o <<c>> \o b
  BY DEF Splits
<1>2. text \in Text
  BY <1>1, TheSymbol
<1>3. Len(text) = Len(a) + 1 + Len(b)
  BY <1>1, TheSymbol
<1>4. /\ \A i \in 1..Len(a) : text[i] = a[i]
      /\ \A i \in 1..Len(b) : text[Len(a) + 1 + i] = b[i]
  BY <1>1, AroundSymbol
<1> QED
  BY <1>2, <1>3, <1>4

LEMMA SplitHolds ==
  ASSUME NEW a, NEW c, NEW b, NEW text, Splits(text, a, c, b), NEW symbol
  PROVE  Holds(text, symbol) <=> Holds(a, symbol) \/ c = symbol \/ Holds(b, symbol)
<1>1. a \in Text /\ b \in Text /\ c \in Symbol /\ text = a \o <<c>> \o b
  BY DEF Splits
<1> DEFINE one == <<c>>
           head == a \o one
<1>2. one \in Text /\ (Holds(one, symbol) <=> c = symbol)
  BY <1>1, OneSymbol
<1>3. text = head \o b
  BY <1>1
<1> HIDE DEF one
<1>4. head \in Text
  BY <1>1, <1>2, TextInARow
<1>5. Holds(head, symbol) <=> Holds(a, symbol) \/ Holds(one, symbol)
  BY <1>1, <1>2, InARowHolds
<1> HIDE DEF head
<1>6. Holds(head \o b, symbol) <=> Holds(head, symbol) \/ Holds(b, symbol)
  BY <1>1, <1>4, InARowHolds
<1> QED
  BY <1>2, <1>3, <1>5, <1>6

(* The first is the one after a, if a holds none, ...                      *)
LEMMA SplitAtFirst ==
  ASSUME NEW a, NEW c, NEW b, NEW text, Splits(text, a, c, b), ~Holds(a, c)
  PROVE  /\ FirstAt(text, c) = Len(a) + 1
         /\ Before(text, FirstAt(text, c)) = a
         /\ After(text, FirstAt(text, c)) = b
<1> DEFINE Places == {i \in DOMAIN text : text[i] = c} \cup {Len(text) + 1}
<1>1. Len(a) \in Nat /\ Len(b) \in Nat /\ DOMAIN a = 1..Len(a)
  BY DEF Text, Splits
<1> HIDE DEF Places
<1>2. text \in Text /\ Len(text) = Len(a) + 1 + Len(b) /\ text[Len(a) + 1] = c
  <2>4. a \in Text /\ b \in Text /\ c \in Symbol /\ text = a \o <<c>> \o b
    BY DEF Splits
  <2>1. text \in Text
    BY <2>4, TheSymbol
  <2>3. Len(text) = Len(a) + 1 + Len(b)
    BY <2>4, TheSymbol
  <2>2. text[Len(a) + 1] = c
    BY <2>4, TheSymbol
  <2> QED
    BY <2>1, <2>2, <2>3
<1>3. \A i \in 1..Len(a) : text[i] = a[i]
  BY SplitTyped
<1>4. DOMAIN text = 1..Len(text)
  BY <1>2 DEF Text
<1>5. Places \in SUBSET Nat
  BY <1>1, <1>2, <1>4 DEF Places
<1>6. Len(a) + 1 \in Places
  BY <1>1, <1>2, <1>4 DEF Places
<1>7. \A i \in Places : Len(a) + 1 <= i
  <2>1. \A i \in 1..Len(a) : text[i] # c
    BY <1>1, <1>3 DEF Holds
  <2>2. \A i \in 1..Len(text) : i \in 1..Len(a) \/ Len(a) + 1 <= i
    BY <1>1, <1>2
  <2>3. \A i \in Places : (i \in 1..Len(text) /\ text[i] = c) \/ i = Len(text) + 1
    BY <1>4 DEF Places
  <2>4. Len(a) + 1 <= Len(text) + 1
    BY <1>1, <1>2
  <2> QED
    BY <2>1, <2>2, <2>3, <2>4
<1>8. Min(Places) = Len(a) + 1
  BY <1>5, <1>6, <1>7, MinIsThat
<1>9. Before(text, Len(a) + 1) = a /\ After(text, Len(a) + 1) = b
  <2>1. a \in Text /\ b \in Text /\ c \in Symbol /\ text = a \o <<c>> \o b
    BY DEF Splits
  <2> QED
    BY <2>1, Cut
<1> QED
  BY <1>8, <1>9 DEF FirstAt, Places

(* ... and the last, if b holds none.                                      *)
LEMMA SplitAtLast ==
  ASSUME NEW a, NEW c, NEW b, NEW text, Splits(text, a, c, b), ~Holds(b, c)
  PROVE  /\ LastAt(text, c) = Len(a) + 1
         /\ Before(text, LastAt(text, c)) = a
         /\ After(text, LastAt(text, c)) = b
<1> DEFINE Places == {i \in DOMAIN text : text[i] = c} \cup {0}
<1>1. Len(a) \in Nat /\ Len(b) \in Nat /\ DOMAIN b = 1..Len(b)
  BY DEF Text, Splits
<1> HIDE DEF Places
<1>2. text \in Text /\ Len(text) = Len(a) + 1 + Len(b) /\ text[Len(a) + 1] = c
  <2>4. a \in Text /\ b \in Text /\ c \in Symbol /\ text = a \o <<c>> \o b
    BY DEF Splits
  <2>1. text \in Text
    BY <2>4, TheSymbol
  <2>3. Len(text) = Len(a) + 1 + Len(b)
    BY <2>4, TheSymbol
  <2>2. text[Len(a) + 1] = c
    BY <2>4, TheSymbol
  <2> QED
    BY <2>1, <2>2, <2>3
<1>3. \A i \in 1..Len(b) : text[Len(a) + 1 + i] = b[i]
  BY SplitTyped
<1>4. DOMAIN text = 1..Len(text) /\ Len(text) \in Nat
  BY <1>2 DEF Text
<1>5. Places \in SUBSET (0..Len(text))
  BY <1>4 DEF Places
<1>6. Len(a) + 1 \in Places
  BY <1>1, <1>2, <1>4 DEF Places
<1>7. \A i \in Places : i <= Len(a) + 1
  <2>1. \A i \in 1..Len(b) : text[Len(a) + 1 + i] # c
    BY <1>1, <1>3 DEF Holds
  <2>2. \A i \in 1..Len(text) :
          \/ i <= Len(a) + 1
          \/ i - (Len(a) + 1) \in 1..Len(b) /\ Len(a) + 1 + (i - (Len(a) + 1)) = i
    BY <1>1, <1>2
  <2>3. \A i \in Places : (i \in 1..Len(text) /\ text[i] = c) \/ i = 0
    BY <1>4 DEF Places
  <2>4. 0 <= Len(a) + 1
    BY <1>1
  <2>5. \A i \in 1..Len(text) : text[i] = c => i <= Len(a) + 1
    BY <2>1, <2>2
  <2> QED
    BY <2>3, <2>4, <2>5
<1>8. Max(Places) = Len(a) + 1
  BY <1>4, <1>5, <1>6, <1>7, MaxIsThat
<1>9. Before(text, Len(a) + 1) = a /\ After(text, Len(a) + 1) = b
  <2>1. a \in Text /\ b \in Text /\ c \in Symbol /\ text = a \o <<c>> \o b
    BY DEF Splits
  <2> QED
    BY <2>1, Cut
<1> QED
  BY <1>8, <1>9 DEF LastAt, Places

(* Without the symbol nothing is cut off.                                  *)
LEMMA NothingToCut ==
  ASSUME NEW a \in Text, NEW c \in Symbol, ~Holds(a, c)
  PROVE  Before(a, FirstAt(a, c)) = a
<1>1. Len(a) \in Nat /\ DOMAIN a = 1..Len(a)
  BY DEF Text
<1>2. {i \in DOMAIN a : a[i] = c} \cup {Len(a) + 1} = {Len(a) + 1}
  BY DEF Holds
<1>3. FirstAt(a, c) = Len(a) + 1
  <2> DEFINE S == {Len(a) + 1}
  <2>1. S \subseteq Nat /\ Len(a) + 1 \in S /\ \A k \in S : Len(a) + 1 <= k
    BY <1>1
  <2> HIDE DEF S
  <2>2. Min(S) = Len(a) + 1
    BY <2>1, MinIsThat
  <2> QED
    BY <1>2, <2>2 DEF FirstAt, S
<1>4. SubSeq(a, 1, (Len(a) + 1) - 1) = a
  BY <1>1 DEF Text
<1> QED
  BY <1>3, <1>4 DEF Before

LEMMA NothingAfter ==
  ASSUME NEW a \in Text, NEW c \in Symbol, ~Holds(a, c)
  PROVE  After(a, FirstAt(a, c)) = <<>>
<1>1. Len(a) \in Nat
  BY DEF Text
<1>2. {i \in DOMAIN a : a[i] = c} \cup {Len(a) + 1} = {Len(a) + 1}
  BY DEF Holds
<1>3. FirstAt(a, c) = Len(a) + 1
  <2> DEFINE S == {Len(a) + 1}
  <2>1. S \subseteq Nat /\ Len(a) + 1 \in S /\ \A k \in S : Len(a) + 1 <= k
    BY <1>1
  <2> HIDE DEF S
  <2>2. Min(S) = Len(a) + 1
    BY <2>1, MinIsThat
  <2> QED
    BY <1>2, <2>2 DEF FirstAt, S
<1>4. SubSeq(a, (Len(a) + 1) + 1, Len(a)) = <<>>
  <2> DEFINE m == Len(a) + 2
             part == SubSeq(a, m, Len(a))
  <2>1. \A i \in m..Len(a) : a[i] \in Symbol
    BY <1>1
  <2>2. part \in Seq(Symbol) /\ Len(part) = IF m <= Len(a) THEN Len(a) - m + 1 ELSE 0
    BY <1>1, <2>1, SubSeqProperties DEF Text
  <2> HIDE DEF part
  <2>3. Len(part) = 0
    BY <1>1, <2>2
  <2>4. part = <<>>
    BY <2>2, <2>3
  <2>5. (Len(a) + 1) + 1 = m
    BY <1>1
  <2> QED
    BY <2>4, <2>5 DEF part
<1> QED
  BY <1>3, <1>4 DEF After

(* A text that holds the symbol is cut at the first one.                   *)
LEMMA FirstOne ==
  ASSUME NEW b \in Text, NEW c \in Symbol, Holds(b, c)
  PROVE  \E x \in Text, y \in Text : b = x \o <<c>> \o y /\ ~Holds(x, c)
<1>1. /\ b \in Seq(Symbol) /\ DOMAIN b = 1..Len(b) /\ Len(b) \in Nat
      /\ \A i \in 1..Len(b) : b[i] \in Symbol
  BY DEF Text
<1>2. PICK n \in 1..Len(b) : b[n] = c /\ \A k \in 1..Len(b) : b[k] = c => n <= k
  <2> DEFINE Places == {i \in 1..Len(b) : b[i] = c}
  <2>1. Places # {} /\ Places \in SUBSET Nat
    BY <1>1 DEF Holds
  <2> HIDE DEF Places
  <2>2. \E m \in Places : \A k \in Places : m <= k
    BY <2>1, LeastNumber
  <2> QED
    BY <2>2 DEF Places
<1> DEFINE x == SubSeq(b, 1, n - 1)
           y == SubSeq(b, n + 1, Len(b))
           whole == x \o <<c>> \o y
<1>3. x \in Text /\ Len(x) = n - 1 /\ \A i \in 1..(n - 1) : x[i] = b[i]
  <2>1. \A i \in 1..(n - 1) : b[i] \in Symbol
    BY <1>1
  <2>2. /\ x \in Seq(Symbol) /\ Len(x) = IF 1 <= n - 1 THEN (n - 1) - 1 + 1 ELSE 0
        /\ \A i \in 1..((n - 1) - 1 + 1) : x[i] = b[1 + i - 1]
    BY <1>1, <2>1, SubSeqProperties
  <2> HIDE DEF x, y
  <2>3. Len(x) = n - 1 /\ (n - 1) - 1 + 1 = n - 1 /\ \A i \in 1..(n - 1) : 1 + i - 1 = i
    BY <1>1, <2>2
  <2> QED
    BY <2>2, <2>3 DEF Text
<1>4. y \in Text /\ Len(y) = Len(b) - n /\ \A i \in 1..(Len(b) - n) : y[i] = b[n + i]
  <2>1. \A i \in (n + 1)..Len(b) : b[i] \in Symbol
    BY <1>1
  <2>2. /\ y \in Seq(Symbol) /\ Len(y) = IF n + 1 <= Len(b) THEN Len(b) - (n + 1) + 1 ELSE 0
        /\ \A i \in 1..(Len(b) - (n + 1) + 1) : y[i] = b[(n + 1) + i - 1]
    BY <1>1, <2>1, SubSeqProperties
  <2> HIDE DEF x, y
  <2>3. Len(y) = Len(b) - n
    <3>1. CASE n + 1 <= Len(b)
      BY <1>1, <2>2, <3>1
    <3>2. CASE n = Len(b)
      BY <1>1, <2>2, <3>2
    <3>3. Len(b) \in Nat /\ n \in 1..Len(b)
      BY <1>1
    <3>4. n + 1 <= Len(b) \/ n = Len(b)
      BY <3>3
    <3> QED
      BY <3>1, <3>2, <3>4
  <2>4. Len(b) - (n + 1) + 1 = Len(b) - n /\ \A i \in 1..(Len(b) - n) : (n + 1) + i - 1 = n + i
    BY <1>1
  <2> QED
    BY <2>2, <2>3, <2>4 DEF Text
<1> HIDE DEF x, y
<1>5. ~Holds(x, c)
  <2>1. DOMAIN x = 1..(n - 1)
    BY <1>3 DEF Text
  <2>2. \A i \in 1..(n - 1) : i \in 1..Len(b) /\ ~(n <= i)
    BY <1>1
  <2> QED
    BY <1>2, <1>3, <2>1, <2>2 DEF Holds
<1> HIDE DEF whole
<1>12. whole = x \o <<c>> \o y /\ x \in Text /\ y \in Text
  BY <1>3, <1>4 DEF whole
<1>6. whole \in Text /\ Len(whole) = Len(x) + 1 + Len(y) /\ whole[Len(x) + 1] = c
  <2>1. whole \in Text
    BY <1>12, TheSymbol
  <2>2. whole[Len(x) + 1] = c
    BY <1>12, TheSymbol
  <2>3. Len(whole) = Len(x) + 1 + Len(y)
    BY <1>12, TheSymbol
  <2> QED
    BY <2>1, <2>2, <2>3
<1>7. /\ \A i \in 1..Len(x) : whole[i] = x[i]
      /\ \A i \in 1..Len(y) : whole[Len(x) + 1 + i] = y[i]
  BY <1>12, AroundSymbol
<1>8. Len(whole) = Len(b) /\ whole[n] = c /\ \A i \in 1..(Len(b) - n) : whole[n + i] = y[i]
  <2>1. Len(x) + 1 = n /\ Len(y) = Len(b) - n /\ Len(x) + 1 + Len(y) = Len(b)
    BY <1>1, <1>3, <1>4
  <2> QED
    BY <1>6, <1>7, <2>1
<1>9. \A i \in 1..Len(b) : whole[i] = b[i]
  <2> SUFFICES ASSUME NEW i \in 1..Len(b) PROVE whole[i] = b[i]
    OBVIOUS
  <2>1. CASE i \in 1..(n - 1)
    BY <2>1, <1>3, <1>7
  <2>2. CASE i = n
    BY <2>2, <1>2, <1>8
  <2>3. CASE i \in (n + 1)..Len(b)
    <3>1. i - n \in 1..(Len(b) - n) /\ n + (i - n) = i
      BY <1>1, <2>3
    <3> QED
      BY <1>4, <1>8, <3>1
  <2>4. i \in 1..(n - 1) \/ i = n \/ i \in (n + 1)..Len(b)
    BY <1>1
  <2> QED
    BY <2>1, <2>2, <2>3, <2>4
<1>10. whole \in Seq(Symbol)
  BY <1>6 DEF Text
<1>11. whole = b
  BY <1>1, <1>8, <1>9, <1>10, SeqEqual
<1> QED
  BY <1>3, <1>4, <1>5, <1>11 DEF whole

(* A text before and after the first of a symbol, if there is one.         *)
LEMMA FirstParts ==
  ASSUME NEW t \in Text, NEW c \in Symbol, NEW x, x = Before(t, FirstAt(t, c)),
         NEW y, y = After(t, FirstAt(t, c))
  PROVE  \/ ~Holds(t, c) /\ x = t /\ y = <<>>
         \/ Splits(t, x, c, y) /\ ~Holds(x, c)
<1>1. CASE ~Holds(t, c)
  BY <1>1, NothingToCut, NothingAfter
<1>2. CASE Holds(t, c)
  <2>1. PICK a \in Text, b \in Text : t = a \o <<c>> \o b /\ ~Holds(a, c)
    BY <1>2, FirstOne
  <2>2. Splits(t, a, c, b)
    BY <2>1 DEF Splits
  <2> QED
    BY <2>1, <2>2, SplitAtFirst
<1> QED
  BY <1>1, <1>2

(* Both parts are of the text, ...                                         *)
LEMMA PartsHold ==
  ASSUME NEW t \in Text, NEW c \in Symbol, NEW x, x = Before(t, FirstAt(t, c)),
         NEW y, y = After(t, FirstAt(t, c)), NEW symbol
  PROVE  /\ x \in Text /\ y \in Text
         /\ Holds(x, symbol) \/ Holds(y, symbol) => Holds(t, symbol)
         /\ Holds(t, symbol) => Holds(x, symbol) \/ Holds(y, symbol) \/ symbol = c
<1>1. CASE ~Holds(t, c) /\ x = t /\ y = <<>>
  BY <1>1, NoSymbol
<1>2. CASE Splits(t, x, c, y) /\ ~Holds(x, c)
  <2>1. Holds(t, symbol) <=> Holds(x, symbol) \/ c = symbol \/ Holds(y, symbol)
    BY <1>2, SplitHolds
  <2> QED
    BY <1>2, <2>1 DEF Splits
<1> QED
  BY <1>1, <1>2, FirstParts

(* ... and the first begins as it does.                                    *)
LEMMA BeginningKept ==
  ASSUME NEW t \in Text, NEW c \in Symbol, NEW d, d # c, Begins(t, d)
  PROVE  Begins(Before(t, FirstAt(t, c)), d)
<1> DEFINE x == Before(t, FirstAt(t, c))
           y == After(t, FirstAt(t, c))
<1> HIDE DEF x, y
<1>1. CASE x = t
  BY <1>1 DEF x
<1>2. CASE Splits(t, x, c, y)
  <2>1. x \in Text /\ y \in Text /\ c \in Symbol /\ t = x \o <<c>> \o y
    BY <1>2 DEF Splits
  <2>2. t[Len(x) + 1] = c
    BY <2>1, TheSymbol
  <2>3. \A i \in 1..Len(x) : t[i] = x[i]
    BY <1>2, SplitTyped
  <2>4. Len(x) \in Nat /\ t[1] = d
    BY <2>1 DEF Text, Begins
  <2>5. Len(x) # 0
    BY <2>2, <2>4
  <2>6. 1 \in 1..Len(x)
    BY <2>4, <2>5
  <2>7. x # <<>>
    BY <2>5, NoSymbol
  <2> QED
    BY <2>3, <2>4, <2>6, <2>7 DEF Begins, x
<1> QED
  BY <1>1, <1>2, FirstParts DEF x, y

-----------------------------------------------------------------------------
LEMMA Delimiters ==
  /\ Delimiter \subseteq Symbol /\ {"tcp", "unix"} \subseteq Symbol
  /\ {Colon, At, Slash, Question, Hash, Percent, Ampersand, Equal, Open, Close,
      LeftBracket, RightBracket} \subseteq Delimiter
  /\ Open # At /\ Close # At
  /\ \A net \in {"tcp", "unix"} : net # Open /\ net # At
<1>1. Delimiter \subseteq Symbol /\ {"tcp", "unix"} \subseteq Symbol
  BY SymbolAssumption
<1>2. {Colon, At, Slash, Question, Hash, Percent, Ampersand, Equal, Open, Close,
       LeftBracket, RightBracket} \subseteq Delimiter
  BY DEF Delimiter, InURL, Brackets
<1>3. Open # At /\ Close # At
  BY DEF Open, Close, At
<1>4. \A net \in {"tcp", "unix"} : net # Open /\ net # At
  BY DEF Open, At
<1> QED
  BY <1>1, <1>2, <1>3, <1>4

(* What is between the brackets of an address.                             *)
LEMMA NetHolds ==
  ASSUME NEW net \in Symbol, NEW address \in Text, NEW n, n = Net(net, address),
         net # Open, net # At, ~Holds(address, At)
  PROVE  /\ n \in Text /\ n # <<>> /\ n[1] = net /\ n[Len(n)] = Close
         /\ ~Holds(n, At) /\ FirstAt(n, Open) = 2
         /\ Holds(n, Open) /\ Before(n, FirstAt(n, Open)) = <<net>>
         /\ SubSeq(n, 2 + 1, Len(n) - 1) = address
<1> DEFINE one == <<net>>
           close == <<Close>>
           rest == address \o close
<1>1. Open \in Symbol /\ Close \in Symbol /\ At # Open /\ At # Close
  BY Delimiters
<1>2. /\ one \in Text /\ Len(one) = 1 /\ one[1] = net /\ ~Holds(one, Open) /\ ~Holds(one, At)
      /\ close \in Text /\ Len(close) = 1 /\ close[1] = Close /\ ~Holds(close, At)
      /\ <<Open>> \in Text /\ ~Holds(<<Open>>, At)
  BY <1>1, OneSymbol
<1> HIDE DEF one, close
<1>3. rest \in Text /\ Len(address) \in Nat /\ Len(rest) = Len(address) + 1
  BY <1>2, TextInARow
<1>4. \A i \in 1..Len(address) : rest[i] = address[i]
  BY <1>2, InARowAt
<1>5. rest[Len(address) + 1] = Close
  <2>1. \A i \in (Len(address) + 1)..(Len(address) + Len(close)) : rest[i] = close[i - Len(address)]
    BY <1>2, InARowAt
  <2>2. Len(address) + 1 \in (Len(address) + 1)..(Len(address) + Len(close)) /\ (Len(address) + 1) - Len(address) = 1
    BY <1>2, <1>3
  <2> QED
    BY <1>2, <2>1, <2>2
<1>6. ~Holds(rest, At)
  <2>1. Holds(rest, At) <=> Holds(address, At) \/ Holds(close, At)
    BY <1>2, InARowHolds
  <2> QED
    BY <1>2, <2>1
<1> HIDE DEF rest
<1>7. Splits(n, one, Open, rest)
  BY <1>1, <1>2, <1>3 DEF Net, one, close, rest, Splits
<1>8. n \in Text
  BY <1>7, SplitTyped
<1>9. Len(n) = Len(address) + 3
  <2>1. Len(n) = Len(one) + 1 + Len(rest)
    BY <1>7, SplitTyped
  <2> QED
    BY <1>2, <1>3, <2>1
<1>10. /\ \A i \in 1..Len(one) : n[i] = one[i]
       /\ \A i \in 1..Len(rest) : n[Len(one) + 1 + i] = rest[i]
  BY <1>7, SplitTyped
<1>11. n[1] = net
  BY <1>2, <1>10
<1>12. \A i \in 1..Len(rest) : n[2 + i] = rest[i]
  BY <1>2, <1>10
<1>13. n[Len(n)] = Close
  <2>1. Len(address) + 1 \in 1..Len(rest) /\ 2 + (Len(address) + 1) = Len(n)
    BY <1>3, <1>9
  <2> QED
    BY <1>5, <1>12, <2>1
<1>14. \A i \in 1..Len(address) : n[2 + i] = address[i]
  BY <1>3, <1>4, <1>12
<1>15. FirstAt(n, Open) = 2
  <2>1. FirstAt(n, Open) = Len(one) + 1
    BY <1>2, <1>7, SplitAtFirst
  <2> QED
    BY <1>2, <2>1
<1>16. ~Holds(n, At)
  <2>1. Holds(n, At) <=> Holds(one, At) \/ Open = At \/ Holds(rest, At)
    BY <1>7, SplitHolds
  <2> QED
    BY <1>1, <1>2, <1>6, <2>1
<1>17. SubSeq(n, 3, Len(n) - 1) = address
  <2> DEFINE part == SubSeq(n, 3, Len(n) - 1)
  <2>1. /\ n \in Seq(Symbol) /\ Len(n) \in Nat /\ \A i \in 1..Len(n) : n[i] \in Symbol
        /\ address \in Seq(Symbol)
    BY <1>8 DEF Text
  <2>2. \A i \in 3..(Len(n) - 1) : n[i] \in Symbol
    BY <2>1
  <2>3. /\ part \in Seq(Symbol) /\ Len(part) = IF 3 <= Len(n) - 1 THEN (Len(n) - 1) - 3 + 1 ELSE 0
        /\ \A i \in 1..((Len(n) - 1) - 3 + 1) : part[i] = n[3 + i - 1]
    BY <2>1, <2>2, SubSeqProperties
  <2> HIDE DEF part
  <2>4. Len(part) = Len(address)
    BY <1>3, <1>9, <2>3
  <2>5. (Len(n) - 1) - 3 + 1 = Len(address) /\ \A i \in 1..Len(address) : 3 + i - 1 = 2 + i
    BY <1>3, <1>9
  <2>6. \A i \in 1..Len(address) : part[i] = address[i]
    BY <1>14, <2>3, <2>5
  <2>7. part = address
    BY <2>1, <2>3, <2>4, <2>6, SeqEqual
  <2> QED
    BY <2>7 DEF part
<1>18. n # <<>>
  BY <1>3, <1>9
<1>19. Holds(n, Open) /\ Before(n, FirstAt(n, Open)) = <<net>>
  <2>1. Before(n, FirstAt(n, Open)) = one
    BY <1>2, <1>7, SplitAtFirst
  <2>2. Holds(n, Open)
    BY <1>7, SplitHolds
  <2> QED
    BY <2>1, <2>2 DEF one
<1> QED
  BY <1>8, <1>11, <1>13, <1>15, <1>16, <1>17, <1>18, <1>19

(* A host and a port are told apart again.                                 *)
LEMMA AddressSplits ==
  ASSUME NEW host, NEW port, NEW address, Splits(address, host, Colon, port),
         IsHost(host), \A symbol \in {Colon} \cup Brackets : ~Holds(port, symbol)
  PROVE  /\ SplitsHostPort(address) /\ LastAt(address, Colon) = Len(host) + 1
         /\ HostPart(address) = host /\ PortPart(address) = port
<1>1. LastAt(address, Colon) = Len(host) + 1
  BY SplitAtLast
<1>2. HostPart(address) = host
  BY SplitAtLast DEF HostPart
<1>3. PortPart(address) = port
  BY SplitAtLast DEF PortPart
<1>4. Holds(address, Colon)
  BY SplitHolds
<1> QED
  BY <1>1, <1>2, <1>3, <1>4 DEF SplitsHostPort, HoldsAny

(* MySQL reads back what was asked for, out of a text whose parts a reader *)
(* from the right finds.                                                   *)
MySQLParts(text, left, login, n, net, address, user, password, name) ==
  /\ net \in {"tcp", "unix"} /\ address \in Text
  /\ Splits(login, user, Colon, password) /\ n = Net(net, address)
  /\ Splits(left, login, At, n) /\ Splits(text, left, Slash, name)
  /\ ~Holds(user, Colon) /\ ~Holds(address, At) /\ Normalized(net, address) = address
  /\ ~Holds(name, Slash) /\ ~Holds(name, Question) /\ ~Holds(name, Percent)

LEMMA MySQLReadsBack ==
  ASSUME NEW text, NEW left, NEW login, NEW n, NEW net, NEW address, NEW user, NEW password, NEW name,
         MySQLParts(text, left, login, n, net, address, user, password, name)
  PROVE  MySQLReads(text) = Server(net, address, user, password, name)
<1> USE DEF MySQLParts
<1>1. {Slash, Question} \subseteq Symbol /\ net \in Symbol /\ net # Open /\ net # At
  BY Delimiters
<1>2. /\ n # <<>> /\ n[1] = net /\ n[Len(n)] = Close
      /\ ~Holds(n, At) /\ FirstAt(n, Open) = 2 /\ SubSeq(n, 2 + 1, Len(n) - 1) = address
      /\ Holds(n, Open) /\ Before(n, FirstAt(n, Open)) = <<net>>
  BY <1>1, NetHolds
<1>3. Before(login, FirstAt(login, Colon)) = user /\ After(login, FirstAt(login, Colon)) = password
  BY SplitAtFirst
<1>4. Before(left, LastAt(left, At)) = login /\ After(left, LastAt(left, At)) = n
  BY <1>2, SplitAtLast
<1>5. LastAt(text, Slash) = Len(left) + 1
  BY SplitAtLast
<1>6. Before(text, LastAt(text, Slash)) = left /\ After(text, LastAt(text, Slash)) = name
  BY SplitAtLast
<1>7. LastAt(text, Slash) # 0
  <2>1. Len(left) \in Nat
    BY DEF Splits, Text
  <2> QED
    BY <1>5, <2>1
<1>8. Before(name, FirstAt(name, Question)) = name
  <2>1. name \in Text
    BY DEF Splits
  <2> QED
    BY <1>1, <2>1, NothingToCut
<1> DEFINE network == OrElse(Before(n, FirstAt(n, Open)), <<"tcp">>)
<1>9. network = <<net>>
  BY <1>2 DEF OrElse
<1>10. network[1] = net /\ network \in {<<"tcp">>, <<"unix">>}
  BY <1>9
<1>11. address = IF Holds(n, Open) THEN SubSeq(n, FirstAt(n, Open) + 1, Len(n) - 1) ELSE <<>>
  BY <1>2
<1> HIDE DEF network
<1>12. OrElse(Before(n, FirstAt(n, Open)), <<"tcp">>) = network
  BY DEF network
<1>13. MySQLReads(text) = Server(network[1], Normalized(network[1], address), user, password, name)
  BY <1>2, <1>3, <1>4, <1>6, <1>7, <1>8, <1>10, <1>11, <1>12, ZenonT(60) DEF MySQLReads
<1> QED
  BY <1>10, <1>13

(* Postgres reads back what was asked for.                                 *)
LEMMA Distinct ==
  /\ \A symbol \in InURL : symbol # Colon /\ symbol # At
  /\ {Slash, Question, Hash, Percent, Caret, Backslash} \subseteq InURL
  /\ \A symbol \in Brackets : symbol # Colon /\ symbol # At /\ symbol \notin InURL
  /\ LeftBracket \in Brackets /\ RightBracket \in Brackets /\ LeftBracket # RightBracket
  /\ Colon # At /\ Slash # Question /\ Slash # Hash /\ Slash # Percent
  /\ Question # Hash /\ Question # Percent
<1>1. \A symbol \in InURL : symbol # Colon /\ symbol # At
  BY DEF InURL, Slash, Question, Hash, Percent, Caret, Backslash, Colon, At
<1>2. {Slash, Question, Hash, Percent, Caret, Backslash} \subseteq InURL
  BY DEF InURL
<1>3. Colon # At
  BY DEF Colon, At
<1>4. Slash # Question /\ Slash # Hash /\ Slash # Percent
  BY DEF Slash, Question, Hash, Percent
<1>5. Question # Hash /\ Question # Percent
  BY DEF Question, Hash, Percent
<1>6. \A symbol \in Brackets : symbol # Colon /\ symbol # At
  BY DEF Brackets, LeftBracket, RightBracket, Colon, At
<1>7. \A symbol \in Brackets : symbol \notin InURL
  BY DEF Brackets, LeftBracket, RightBracket, InURL, Slash, Question, Hash, Percent, Caret, Backslash
<1>8. LeftBracket \in Brackets /\ RightBracket \in Brackets
  BY DEF Brackets
<1>9. LeftBracket # RightBracket
  BY DEF LeftBracket, RightBracket
<1> QED
  BY <1>1, <1>2, <1>3, <1>4, <1>5, <1>6, <1>7, <1>8, <1>9

LEMMA NumberHolds ==
  ASSUME NEW port \in Text, IsNumber(port)
  PROVE  port # <<>> /\ \A symbol \in Delimiter : ~Holds(port, symbol)
<1>1. Len(port) = 1 /\ port[1] \in Number /\ DOMAIN port = 1..1
  BY DEF IsNumber, Text
<1>2. \A symbol \in Delimiter : symbol \notin Number
  BY NumberAssumption
<1> QED
  BY <1>1, <1>2 DEF Holds

(* A host in brackets is its brackets and what is between them.            *)
Inner(host) == SubSeq(host, 2, Len(host) - 1)

LEMMA BracketsAround ==
  ASSUME NEW host \in Text, Bracketed(host)
  PROVE  /\ Inner(host) \in Text /\ Len(Inner(host)) = Len(host) - 2
         /\ \A i \in 1..Len(Inner(host)) : Inner(host)[i] = host[i + 1]
         /\ <<LeftBracket>> \o Inner(host) \o <<RightBracket>> = host
<1> DEFINE inner == Inner(host)
<1>1. /\ host \in Seq(Symbol) /\ Len(host) \in Nat /\ Len(host) >= 2
      /\ \A i \in 1..Len(host) : host[i] \in Symbol
      /\ host[1] = LeftBracket /\ host[Len(host)] = RightBracket
  BY DEF Bracketed, Text
<1>2. \A i \in 2..(Len(host) - 1) : host[i] \in Symbol
  BY <1>1
<1>3. /\ inner \in Seq(Symbol)
      /\ Len(inner) = IF 2 <= Len(host) - 1 THEN (Len(host) - 1) - 2 + 1 ELSE 0
      /\ \A i \in 1..((Len(host) - 1) - 2 + 1) : inner[i] = host[2 + i - 1]
  BY <1>1, <1>2, SubSeqProperties DEF Inner
<1> HIDE DEF inner
<1>0. Len(host) \in Nat /\ Len(host) >= 2
  BY <1>1
<1>4. Len(inner) = Len(host) - 2 /\ (Len(host) - 1) - 2 + 1 = Len(host) - 2
  <2>1. (Len(host) - 1) - 2 + 1 = Len(host) - 2
    BY <1>0
  <2>2. CASE 2 <= Len(host) - 1
    BY <1>3, <2>1, <2>2
  <2>3. CASE ~(2 <= Len(host) - 1)
    <3>2. \A k \in Nat : k >= 2 /\ ~(2 <= k - 1) => k - 2 = 0
      OBVIOUS
    <3>1. Len(host) - 2 = 0
      BY <1>0, <2>3, <3>2
    <3> QED
      BY <1>3, <2>1, <2>3, <3>1
  <2> QED
    BY <2>2, <2>3
<1>5. \A i \in 1..Len(inner) : 2 + i - 1 = i + 1
  BY <1>3
<1>6. \A i \in 1..Len(inner) : inner[i] = host[i + 1]
  BY <1>3, <1>4, <1>5
<1> DEFINE one   == <<LeftBracket>>
           begin == one \o inner
           end   == <<RightBracket>>
           whole == begin \o end
<1>7. /\ one \in Text /\ Len(one) = 1 /\ one[1] = LeftBracket
      /\ end \in Text /\ Len(end) = 1 /\ end[1] = RightBracket
  <2>1. LeftBracket \in Symbol /\ RightBracket \in Symbol
    BY Delimiters
  <2> QED
    BY <2>1, OneSymbol
<1> HIDE DEF one, end
<1>8. inner \in Text
  BY <1>3 DEF Text
<1>9. begin \in Text /\ Len(begin) = 1 + Len(inner) /\ Len(inner) \in Nat
  BY <1>7, <1>8, TextInARow
<1>10. /\ \A i \in 1..Len(one) : begin[i] = one[i]
       /\ \A i \in (Len(one) + 1)..(Len(one) + Len(inner)) : begin[i] = inner[i - Len(one)]
  BY <1>7, <1>8, InARowAt
<1> HIDE DEF begin, inner
<1>11. whole \in Text /\ Len(whole) = Len(begin) + Len(end)
  BY <1>7, <1>9, TextInARow
<1>12. /\ \A i \in 1..Len(begin) : whole[i] = begin[i]
       /\ \A i \in (Len(begin) + 1)..(Len(begin) + Len(end)) : whole[i] = end[i - Len(begin)]
  BY <1>7, <1>9, InARowAt
<1> HIDE DEF whole
<1>13. Len(whole) = Len(host)
  BY <1>1, <1>4, <1>7, <1>9, <1>11
<1>14. whole[1] = LeftBracket
  <2>1. 1 \in 1..Len(begin) /\ 1 \in 1..Len(one)
    BY <1>7, <1>9
  <2> QED
    BY <1>7, <1>10, <1>12, <2>1
<1>15. \A i \in 2..(Len(host) - 1) : whole[i] = host[i]
  <2> SUFFICES ASSUME NEW i \in 2..(Len(host) - 1) PROVE whole[i] = host[i]
    OBVIOUS
  <2>1. /\ i \in 1..Len(begin) /\ i \in (Len(one) + 1)..(Len(one) + Len(inner))
        /\ i - Len(one) \in 1..Len(inner) /\ (i - Len(one)) + 1 = i
    BY <1>1, <1>4, <1>7, <1>9
  <2>2. whole[i] = inner[i - Len(one)]
    BY <1>10, <1>12, <2>1
  <2> QED
    BY <1>6, <2>1, <2>2
<1>16. whole[Len(host)] = RightBracket
  <2>2. Len(begin) + 1 = Len(host) /\ Len(end) = 1 /\ Len(begin) \in Nat
    <3>1. Len(begin) = 1 + (Len(host) - 2) /\ Len(end) = 1
      BY <1>4, <1>7, <1>9
    <3> QED
      BY <1>0, <3>1
  <2>1. /\ Len(host) \in (Len(begin) + 1)..(Len(begin) + Len(end)) /\ Len(host) - Len(begin) = 1
    BY <2>2
  <2> QED
    BY <1>7, <1>12, <2>1
<1>17. \A i \in 1..Len(host) : whole[i] = host[i]
  <2>1. \A i \in 1..Len(host) : i = 1 \/ i = Len(host) \/ i \in 2..(Len(host) - 1)
    BY <1>1
  <2> QED
    BY <1>1, <1>14, <1>15, <1>16, <2>1
<1>18. whole = host
  BY <1>1, <1>11, <1>13, <1>17, SeqEqual DEF Text
<1> QED
  BY <1>4, <1>6, <1>8, <1>18 DEF whole, begin, one, end, inner

(* An address of such a host and a port is one that a URL may have, ...    *)
LEMMA HostIsValid ==
  ASSUME NEW host, NEW port, NEW address, Splits(address, host, Colon, port), IsNumber(port),
         IsHost(host), Bracketed(host) => Unbracketed(host) \in IPv6
  PROVE  ValidHost(address)
<1>1. host \in Text /\ port \in Text /\ address \in Text /\ address = host \o <<Colon>> \o port
  BY SplitTyped DEF Splits
<1>2. \A symbol \in Delimiter : ~Holds(port, symbol)
  BY <1>1, NumberHolds
<1>3. {Colon} \cup Brackets \subseteq Delimiter
  BY DEF Delimiter
<1>4. LastAt(address, Colon) = Len(host) + 1 /\ PortPart(address) = port
  BY <1>2, <1>3, AddressSplits
<1>5. ValidPort(PortPart(address))
  BY <1>4 DEF ValidPort
<1>6. CASE ~Bracketed(host)
  <2>1. ~Holds(host, LeftBracket)
    BY <1>6, Distinct DEF IsHost, HoldsAny
  <2>2. ~Holds(address, LeftBracket)
    BY <1>2, <1>3, <2>1, SplitHolds, Distinct
  <2>3. 1 \in DOMAIN address \/ address = <<>>
    BY <1>1 DEF Text
  <2>4. ~Begins(address, LeftBracket)
    BY <2>2, <2>3 DEF Begins, Holds
  <2> QED
    BY <1>5, <2>2, <2>4 DEF ValidHost
<1>7. CASE Bracketed(host)
  <2> DEFINE inner == Inner(host)
  <2>1. /\ Len(host) \in Nat /\ Len(host) >= 2 /\ host[1] = LeftBracket
        /\ host[Len(host)] = RightBracket
    BY <1>1, <1>7 DEF Bracketed, Text
  <2>2. inner \in IPv6
    BY <1>7 DEF Unbracketed, Inner
  <2>3. Len(address) = Len(host) + 1 + Len(port) /\ Len(port) = 1
    <3>1. Len(address) = Len(host) + 1 + Len(port)
      BY SplitTyped
    <3>2. Len(port) = 1
      BY DEF IsNumber
    <3> QED
      BY <3>1, <3>2
  <2>4. /\ \A i \in 1..Len(host) : address[i] = host[i]
        /\ \A i \in 1..Len(port) : address[Len(host) + 1 + i] = port[i]
        /\ address[Len(host) + 1] = Colon
    <3>1. Colon \in Symbol
      BY DEF Splits
    <3> QED
      BY <1>1, <3>1, AroundSymbol, TheSymbol
  <2>5. LastAt(address, RightBracket) = Len(host)
    <3> DEFINE Places == {i \in DOMAIN address : address[i] = RightBracket} \cup {0}
    <3>1. DOMAIN address = 1..(Len(host) + 2) /\ DOMAIN port = 1..1
      BY <1>1, <2>1, <2>3 DEF Text
    <3>2. Len(host) \in Places
      BY <2>1, <2>4, <3>1
    <3>3. \A i \in Places : i <= Len(host)
      <4>1. address[Len(host) + 1] # RightBracket
        BY <2>4, Distinct
      <4>2. address[Len(host) + 2] # RightBracket
        <5>1. port[1] # RightBracket
          BY <1>2, <1>3, <3>1, Distinct DEF Holds
        <5>2. 1 \in 1..Len(port) /\ Len(host) + 1 + 1 = Len(host) + 2
          BY <2>1, <2>3
        <5> QED
          BY <2>4, <5>1, <5>2
      <4>3. \A i \in 1..(Len(host) + 2) : i <= Len(host) \/ i = Len(host) + 1 \/ i = Len(host) + 2
        BY <2>1
      <4> QED
        BY <2>1, <3>1, <4>1, <4>2, <4>3
    <3>4. Places \in SUBSET (0..(Len(host) + 2))
      BY <2>1, <3>1
    <3>5. Len(host) + 2 \in Nat
      BY <2>1
    <3> HIDE DEF Places
    <3>6. Max(Places) = Len(host)
      BY <3>2, <3>3, <3>4, <3>5, MaxIsThat
    <3> QED
      BY <3>6 DEF LastAt, Places
  <2>6. SubSeq(address, 2, Len(host) - 1) = inner
    <3> DEFINE part == SubSeq(address, 2, Len(host) - 1)
    <3>1. \A i \in 2..(Len(host) - 1) : address[i] \in Symbol
      <4>1. \A i \in 2..(Len(host) - 1) : i \in 1..Len(address)
        BY <2>1, <2>3
      <4>2. \A i \in 1..Len(address) : address[i] \in Symbol
        BY <1>1 DEF Text
      <4> QED
        BY <4>1, <4>2
    <3>2. /\ part \in Seq(Symbol)
          /\ Len(part) = IF 2 <= Len(host) - 1 THEN (Len(host) - 1) - 2 + 1 ELSE 0
          /\ \A i \in 1..((Len(host) - 1) - 2 + 1) : part[i] = address[2 + i - 1]
      BY <1>1, <2>1, <3>1, SubSeqProperties DEF Text
    <3>3. /\ inner \in Text /\ Len(inner) = Len(host) - 2
          /\ \A i \in 1..Len(inner) : inner[i] = host[i + 1]
      BY <1>1, <1>7, BracketsAround
    <3> HIDE DEF part, inner
    <3>8. Len(inner) \in Nat
      BY <3>3 DEF Text
    <3>4. Len(part) = Len(inner) /\ (Len(host) - 1) - 2 + 1 = Len(inner)
      BY <2>1, <3>2, <3>3
    <3>5. \A i \in 1..Len(inner) : 2 + i - 1 = i + 1 /\ i + 1 \in 1..Len(host)
      BY <2>1, <3>3
    <3>6. \A i \in 1..Len(inner) : part[i] = inner[i]
      BY <2>4, <3>2, <3>3, <3>4, <3>5
    <3>7. part = inner
      BY <3>2, <3>3, <3>4, <3>6, SeqEqual DEF Text
    <3> QED
      BY <3>7 DEF part
  <2>7. Begins(address, LeftBracket)
    <3>1. address[1] = LeftBracket /\ Len(address) # 0
      BY <2>1, <2>3, <2>4
    <3> QED
      BY <3>1, NoSymbol DEF Begins
  <2>8. Len(host) # 0
    BY <2>1
  <2> HIDE DEF inner
  <2> QED
    BY <1>4, <1>5, <2>2, <2>5, <2>6, <2>7, <2>8 DEF ValidHost
<1> QED
  BY <1>6, <1>7

(* ... and the host gets its brackets back.                                *)
LEMMA AddressJoined ==
  ASSUME NEW host, NEW port, NEW address, Splits(address, host, Colon, port),
         IsHost(host), Bracketed(host) => Unbracketed(host) \in IPv6
  PROVE  JoinHostPort(Unbracketed(host), port) = address
<1>1. host \in Text /\ address = host \o <<Colon>> \o port
  BY DEF Splits
<1>2. CASE ~Bracketed(host)
  <2>1. Unbracketed(host) = host /\ ~Holds(host, Colon)
    BY <1>2 DEF Unbracketed, IsHost, HoldsAny
  <2> QED
    BY <1>1, <2>1 DEF JoinHostPort
<1>3. CASE Bracketed(host)
  <2>1. <<LeftBracket>> \o Unbracketed(host) \o <<RightBracket>> = host
    BY <1>1, <1>3, BracketsAround DEF Unbracketed, Inner
  <2>2. Holds(Unbracketed(host), Colon)
    BY <1>3, IPv6Assumption
  <2> QED
    BY <1>1, <2>1, <2>2 DEF JoinHostPort
<1> QED
  BY <1>2, <1>3

(* The query is the mode, and nothing else.                                *)
ModeQuery(mode) == <<"sslmode", Equal>> \o mode

LEMMA OnePair ==
  ASSUME NEW mode \in Text, ~Holds(mode, Ampersand), ~Holds(mode, Percent)
  PROVE  /\ ModeQuery(mode) \in Text
         /\ \A symbol \in Delimiter \ {Equal} : Holds(ModeQuery(mode), symbol) => Holds(mode, symbol)
         /\ QueryKeys(ModeQuery(mode)) = {<<"sslmode">>}
         /\ QueryValue(ModeQuery(mode), <<"sslmode">>) = mode
<1> DEFINE query == ModeQuery(mode)
           key == <<"sslmode">>
           asked == <<"sslmode", Equal>>
<1>1. "sslmode" \in Symbol /\ Equal \in Symbol /\ Ampersand \in Symbol
  BY SymbolAssumption, Delimiters
<1>2. "sslmode" \notin Delimiter
  BY DEF Delimiter, InURL, Brackets, Colon, At, Slash, Question, Hash, Ampersand, Equal, Percent,
         Caret, Backslash, Open, Close, LeftBracket, RightBracket
<1>3. /\ key \in Text /\ \A symbol : Holds(key, symbol) <=> "sslmode" = symbol
  BY <1>1, OneSymbol
<1>4. asked = key \o <<Equal>>
  OBVIOUS
<1>5. query = key \o <<Equal>> \o mode
  BY <1>4 DEF ModeQuery
<1> HIDE DEF key, asked, query
<1>6. Splits(query, key, Equal, mode)
  BY <1>1, <1>3, <1>5 DEF Splits
<1>7. query \in Text /\ Len(query) \in Nat
  BY <1>6, SplitTyped DEF Text
<1>8. \A symbol : Holds(query, symbol) <=> "sslmode" = symbol \/ Equal = symbol \/ Holds(mode, symbol)
  BY <1>3, <1>6, SplitHolds
<1>9. \A symbol \in Delimiter \ {Equal} : Holds(query, symbol) => Holds(mode, symbol)
  BY <1>2, <1>8
<1>10. Ampersand \in Delimiter \ {Equal} /\ Percent \in Delimiter \ {Equal}
  BY Delimiters DEF Ampersand, Percent, Equal
<1>11. ~Holds(query, Ampersand) /\ ~Holds(query, Percent)
  BY <1>9, <1>10
<1>12. PairStarts(query) = {1}
  BY <1>11 DEF PairStarts, Holds
<1>13. After(query, 1 - 1) = query
  <2>1. SubSeq(query, 1, Len(query)) = query
    BY <1>7 DEF Text
  <2> QED
    BY <2>1 DEF After
<1>14. PairAt(query, 1) = query
  BY <1>1, <1>7, <1>11, <1>13, NothingToCut DEF PairAt
<1>15. ~Holds(key, Equal)
  BY <1>2, <1>3, Delimiters
<1>16. PairKey(query) = key /\ PairValue(query) = mode
  BY <1>6, <1>15, SplitAtFirst DEF PairKey, PairValue
<1>17. QueryKeys(query) = {key}
  BY <1>12, <1>14, <1>16 DEF QueryKeys
<1>18. Counted(query, key) = {1}
  BY <1>11, <1>12, <1>14, <1>16 DEF Counted
<1>19. Min({1}) = 1
  <2>1. {1} \subseteq Nat /\ 1 \in {1} /\ \A k \in {1} : 1 <= k
    OBVIOUS
  <2> QED
    BY <2>1, MinIsThat
<1>20. QueryValue(query, key) = mode
  BY <1>14, <1>16, <1>18, <1>19 DEF QueryValue
<1> QED
  BY <1>7, <1>9, <1>17, <1>20 DEF key, query

(* Postgres is a URL, of which each part ends where the next begins.       *)
PostgresParts(text, path, query, authority, login, address,
              user, password, host, port, name, mode) ==
  /\ Splits(login, user, Colon, password) /\ Splits(address, host, Colon, port)
  /\ Splits(authority, login, At, address) /\ Splits(path, authority, Slash, name)
  /\ Splits(text, path, Question, query)
  /\ user # <<>> /\ host # <<>> /\ name # <<>> /\ IsNumber(port)
  /\ \A symbol \in InURL \cup Brackets \cup {Colon} : ~Holds(user, symbol)
  /\ \A symbol \in InURL \cup Brackets : ~Holds(password, symbol)
  /\ \A symbol \in InURL \cup {At} : ~Holds(host, symbol)
  /\ IsHost(host) /\ (Bracketed(host) => Unbracketed(host) \in IPv6)
  /\ \A symbol \in {Question, Hash, Percent} : ~Holds(name, symbol)
  /\ ~Holds(query, Hash) /\ mode # <<>>
  /\ QueryKeys(query) = {<<"sslmode">>} /\ QueryValue(query, <<"sslmode">>) = mode

LEMMA PostgresReadsBack ==
  ASSUME NEW text, NEW path, NEW query, NEW authority, NEW login, NEW address,
         NEW user, NEW password, NEW host, NEW port, NEW name, NEW mode,
         PostgresParts(text, path, query, authority, login, address,
                       user, password, host, port, name, mode)
  PROVE  PostgresReads(text) = IF mode \in {<<m>> : m \in SSLModes}
                               THEN Server("tcp", address, user, password, name) ELSE Refused
<1> USE DEF PostgresParts
<1>1. Hash \in Symbol
  BY Delimiters
<1>2. port # <<>> /\ \A symbol \in InURL \cup Brackets \cup {Colon, At} : ~Holds(port, symbol)
  BY NumberHolds DEF Splits, Delimiter
<1>3. \A symbol \in InURL : ~Holds(login, symbol) /\ ~Holds(address, symbol)
  BY <1>2, SplitHolds, Distinct
<1>4. ~Holds(address, At)
  BY <1>2, SplitHolds, Distinct
<1>5. \A symbol \in InURL : ~Holds(authority, symbol)
  BY <1>3, SplitHolds, Distinct
<1>6. ~Holds(authority, Slash)
  BY <1>5, Distinct
<1>7. ~Holds(path, Question) /\ ~Holds(path, Hash)
  BY <1>5, SplitHolds, Distinct
<1>8. ~Holds(text, Hash) /\ text \in Text
  BY <1>7, SplitHolds, SplitTyped, Distinct
<1>9. Before(text, FirstAt(text, Hash)) = text /\ After(text, FirstAt(text, Hash)) = <<>>
  BY <1>1, <1>8, NothingToCut, NothingAfter
<1>10. Before(text, FirstAt(text, Question)) = path /\ After(text, FirstAt(text, Question)) = query
  BY <1>7, SplitAtFirst
<1>11. Before(path, FirstAt(path, Slash)) = authority /\ After(path, FirstAt(path, Slash)) = name
  BY <1>6, SplitAtFirst
<1>12. Before(authority, LastAt(authority, At)) = login /\ After(authority, LastAt(authority, At)) = address
  BY <1>4, SplitAtLast
<1>13. Before(login, FirstAt(login, Colon)) = user /\ After(login, FirstAt(login, Colon)) = password
  BY SplitAtFirst
<1>14. SplitsHostPort(address) /\ HostPart(address) = host /\ PortPart(address) = port
  BY <1>2, AddressSplits
<1>15. ValidAuthority(login, address)
  <2>1. \A symbol \in Brackets : ~Holds(login, symbol)
    BY SplitHolds, Distinct
  <2>2. ValidHost(address)
    BY HostIsValid
  <2>3. {Percent, Caret, Backslash} \subseteq InURL
    BY Distinct
  <2> QED
    BY <1>3, <2>1, <2>2, <2>3 DEF ValidAuthority, HoldsAny
<1>16. ~Holds(name, Percent) /\ ~Holds(<<>>, Percent)
  BY NoSymbol
<1>17. ~(\E key \in QueryKeys(query) \ {<<"sslmode">>} : QueryValue(query, key) # <<>>)
  OBVIOUS
<1> DEFINE host1 == Unbracketed(host)
           read == JoinHostPort(OrElse(host1, <<"localhost">>), OrElse(port, <<"5432">>))
           user1 == OrElse(user, <<"login name">>)
           known == {<<m>> : m \in SSLModes}
<1>18. read = address
  <2>1. host1 # <<>>
    <3>1. CASE Bracketed(host)
      <4>1. Holds(host1, Colon)
        BY <3>1, IPv6Assumption
      <4> QED
        BY <4>1, NoSymbol
    <3>2. CASE ~Bracketed(host)
      BY <3>2 DEF Unbracketed
    <3> QED
      BY <3>1, <3>2
  <2>2. OrElse(host1, <<"localhost">>) = host1 /\ OrElse(port, <<"5432">>) = port
    BY <1>2, <2>1 DEF OrElse
  <2> QED
    BY <2>2, AddressJoined
<1>19. user1 = user /\ OrElse(name, user) = name
  BY DEF OrElse
<1> HIDE DEF read, user1, host1, known
<1>20. JoinHostPort(OrElse(Unbracketed(host), <<"localhost">>), OrElse(port, <<"5432">>)) = address
  BY <1>18 DEF read, host1
<1>21. OrElse(user, <<"login name">>) = user
  BY <1>19 DEF user1
<1>22. CASE mode \in {<<m>> : m \in SSLModes}
  <2>1. ~(mode # <<>> /\ mode \notin {<<m>> : m \in SSLModes})
    BY <1>22
  <2>2. PostgresReads(text) = Server("tcp", address, user, password, name)
    BY <1>9, <1>10, <1>11, <1>12, <1>13, <1>14, <1>15, <1>16, <1>17, <1>19, <1>20, <1>21, <2>1,
       ZenonT(60) DEF PostgresReads
  <2> QED
    BY <1>22, <2>2
<1>23. CASE mode \notin {<<m>> : m \in SSLModes}
  <2>1. mode # <<>> /\ mode \notin {<<m>> : m \in SSLModes}
    BY <1>23
  <2>2. PostgresReads(text) = Refused
    BY <1>9, <1>10, <1>11, <1>12, <1>15, <1>16, <1>17, <2>1, ZenonT(60) DEF PostgresReads
  <2> QED
    BY <1>23, <2>2
<1> QED
  BY <1>22, <1>23

(* SQLite opens the file of that name, unless it is no URL.                *)
LEMMA NoScheme ==
  ASSUME NEW t \in Text, ~Holds(t, Percent), ~Holds(t, Colon)
  PROVE  ~BadURL(t) /\ ~HasScheme(t)
<1> DEFINE url  == Before(t, FirstAt(t, Hash))
           rest == Before(url, FirstAt(url, Question))
           first == Before(rest, FirstAt(rest, Slash))
<1>1. Hash \in Symbol /\ Question \in Symbol /\ Slash \in Symbol
  BY Delimiters
<1>2. url \in Text /\ \A symbol : Holds(url, symbol) => Holds(t, symbol)
  BY <1>1, PartsHold
<1>3. ~Holds(After(t, FirstAt(t, Hash)), Percent)
  BY <1>1, PartsHold
<1> HIDE DEF url
<1>4. rest \in Text /\ \A symbol : Holds(rest, symbol) => Holds(url, symbol)
  BY <1>1, <1>2, PartsHold
<1> HIDE DEF rest
<1>5. \A symbol : Holds(first, symbol) => Holds(rest, symbol)
  BY <1>1, <1>4, PartsHold
<1> HIDE DEF first
<1>6. ~Holds(rest, Percent) /\ ~Holds(rest, Colon) /\ ~Holds(first, Colon)
  BY <1>2, <1>4, <1>5
<1>7. ~HasScheme(rest) /\ ~HasScheme(t)
  BY <1>6 DEF HasScheme
<1> QED
  BY <1>3, <1>6, <1>7 DEF BadURL, url, rest, first

LEMMA BadPercent ==
  ASSUME NEW t \in Text, Holds(t, Percent), ~Holds(t, Colon), ~Holds(t, Question)
  PROVE  BadURL(t)
<1> DEFINE url  == Before(t, FirstAt(t, Hash))
           rest == Before(url, FirstAt(url, Question))
           fragment == After(t, FirstAt(t, Hash))
<1>1. Hash \in Symbol /\ Question \in Symbol /\ Percent # Hash
  BY Delimiters DEF Percent, Hash
<1>2. /\ url \in Text /\ ~Holds(url, Colon) /\ ~Holds(url, Question)
      /\ Holds(url, Percent) \/ Holds(fragment, Percent)
  BY <1>1, PartsHold
<1> HIDE DEF url, fragment
<1>3. rest = url
  BY <1>1, <1>2, NothingToCut
<1>4. ~HasScheme(rest)
  BY <1>2, <1>3 DEF HasScheme
<1> QED
  BY <1>2, <1>3, <1>4 DEF BadURL, url, rest, fragment

LEMMA BadColon ==
  ASSUME NEW t \in Text, Begins(t, Colon)
  PROVE  BadURL(t)
<1> DEFINE url  == Before(t, FirstAt(t, Hash))
           rest == Before(url, FirstAt(url, Question))
           first == Before(rest, FirstAt(rest, Slash))
<1>1. /\ Hash \in Symbol /\ Question \in Symbol /\ Slash \in Symbol
      /\ Colon # Hash /\ Colon # Question /\ Colon # Slash /\ Colon \in Symbol
  BY Delimiters DEF Colon, Hash, Question, Slash
<1>2. url \in Text /\ Begins(url, Colon)
  BY <1>1, PartsHold, BeginningKept
<1> HIDE DEF url
<1>3. rest \in Text /\ Begins(rest, Colon)
  BY <1>1, <1>2, PartsHold, BeginningKept
<1> HIDE DEF rest
<1>4. first \in Text /\ Begins(first, Colon)
  BY <1>1, <1>3, PartsHold, BeginningKept
<1> HIDE DEF first
<1>5. \A x \in Text : Begins(x, Colon) => 1 \in DOMAIN x /\ x[1] = Colon
  BY DEF Begins, Text
<1>6. Holds(first, Colon)
  BY <1>4, <1>5 DEF Holds
<1>7. ~HasScheme(rest)
  <2>1. FirstAt(rest, Colon) = 1
    <3> DEFINE Places == {i \in DOMAIN rest : rest[i] = Colon} \cup {Len(rest) + 1}
    <3>1. DOMAIN rest = 1..Len(rest) /\ Len(rest) \in Nat /\ 1 \in DOMAIN rest /\ rest[1] = Colon
      BY <1>3, <1>5 DEF Text
    <3>2. Places \subseteq Nat /\ 1 \in Places /\ \A k \in Places : 1 <= k
      BY <3>1
    <3> HIDE DEF Places
    <3>3. Min(Places) = 1
      BY <3>2, MinIsThat
    <3> QED
      BY <3>3 DEF FirstAt, Places
  <2> QED
    BY <2>1 DEF HasScheme
<1> QED
  BY <1>6, <1>7 DEF BadURL, url, rest, first

LEMMA SQLiteReadsBack ==
  ASSUME NEW s, s["d"] \in Text, NEW name, name = s["d"], NEW conn1, conn1 = SQLiteReads(SQLiteDSN(s))
  PROVE  /\ Begins(name, Colon) => conn1 = Refused
         /\ Holds(name, Percent) /\ ~Holds(name, Colon) /\ ~Holds(name, Question) => conn1 = Refused
         /\ \/ \E symbol \in {Percent, Colon, Question, Backslash} : Holds(name, symbol)
            \/ Begins(name, Slash) /\ Begins(Tail(name), Slash)
            \/ conn1.net = "file" /\ conn1.address = name
<1> DEFINE text == SQLiteDSN(s)
<1>1. /\ Percent # Backslash /\ Percent # Slash /\ Colon # Backslash /\ Colon # Slash
      /\ Question # Backslash /\ Question # Slash
  BY DEF Percent, Backslash, Slash, Colon, Question
<1>2. /\ name \in Seq(Symbol) /\ DOMAIN name = 1..Len(name) /\ Len(name) \in Nat
      /\ \A i \in 1..Len(name) : name[i] \in Symbol
  BY DEF Text
<1>3. text = [i \in DOMAIN name |-> IF name[i] = Backslash THEN Slash ELSE name[i]]
  BY DEF SQLiteDSN
<1>4. Slash \in Symbol
  BY Delimiters
<1> HIDE DEF text
<1>5. text \in Text
  <2>1. text \in [1..Len(name) -> Symbol]
    BY <1>2, <1>3, <1>4
  <2>2. [1..Len(name) -> Symbol] \subseteq Seq(Symbol)
    BY <1>2
  <2> QED
    BY <2>1, <2>2 DEF Text
<1>6. \A symbol \in {Percent, Colon, Question} : Holds(text, symbol) <=> Holds(name, symbol)
  BY <1>1, <1>3 DEF Holds
<1>7. ASSUME Begins(name, Colon) PROVE conn1 = Refused
  <2>1. name # <<>> /\ name[1] = Colon
    BY <1>7 DEF Begins
  <2>2. 1 \in 1..Len(name)
    BY <1>2, <2>1
  <2>3. text[1] = Colon
    BY <1>1, <1>2, <1>3, <2>1, <2>2
  <2>4. text # <<>>
    <3>1. 1 \in DOMAIN text
      BY <1>2, <1>3, <2>2
    <3>2. DOMAIN <<>> = {}
      OBVIOUS
    <3> QED
      BY <3>1, <3>2
  <2>5. BadURL(text)
    BY <1>5, <2>3, <2>4, BadColon DEF Begins
  <2> QED
    BY <2>5 DEF SQLiteReads, text
<1>8. ASSUME Holds(name, Percent), ~Holds(name, Colon), ~Holds(name, Question) PROVE conn1 = Refused
  <2>1. BadURL(text)
    BY <1>5, <1>6, <1>8, BadPercent
  <2> QED
    BY <2>1 DEF SQLiteReads, text
<1>9. ASSUME \A symbol \in {Percent, Colon, Question, Backslash} : ~Holds(name, symbol),
             ~(Begins(name, Slash) /\ Begins(Tail(name), Slash))
      PROVE  conn1.net = "file" /\ conn1.address = name
  <2>1. text = name
    <3>1. \A i \in DOMAIN name : name[i] # Backslash
      BY <1>9 DEF Holds
    <3>2. text = [i \in DOMAIN name |-> name[i]]
      BY <1>3, <3>1
    <3> QED
      BY <1>2, <3>2
  <2>2. ~Holds(text, Percent) /\ ~Holds(text, Colon) /\ ~Holds(text, Question)
    BY <1>6, <1>9
  <2>3. ~BadURL(text) /\ ~HasScheme(text)
    BY <1>5, <2>2, NoScheme
  <2>4. ~NamesHost(text)
    BY <1>9, <2>1, <2>3 DEF NamesHost
  <2>5. SQLiteReads(text) = Server("file", text, <<>>, <<>>, text)
    BY <2>2, <2>3, <2>4 DEF SQLiteReads
  <2>6. conn1 = Server("file", name, <<>>, <<>>, name)
    BY <2>1, <2>5 DEF text
  <2> QED
    BY <2>6 DEF Server
<1> QED
  BY <1>7, <1>8, <1>9

-----------------------------------------------------------------------------
(* The same of the data source names that DSN builds.                      *)
Texts(s) == \A part \in {"u", "p", "h", "port", "d", "socket", "sslmode"} : s[part] \in Text

User(s) == OrElse(s["u"], DefaultUser(s))

LEMMA MySQLServer ==
  ASSUME NEW s, Texts(s), s["t"] = "mysql",
         ~Holds(User(s), Colon), ~Holds(s["d"], Slash), ~Holds(s["d"], Question), ~Holds(s["d"], Percent)
  PROVE  /\ /\ s["socket"] = <<>> /\ ~Holds(s["h"], At) /\ IsHost(s["h"])
            /\ \A symbol \in {Colon, At} \cup Brackets : ~Holds(s["port"], symbol)
            => Reads(s) = Server("tcp", Address(s), User(s), s["p"], s["d"])
         /\ s["socket"] # <<>> /\ ~Holds(s["socket"], At) =>
              Reads(s) = Server("unix", s["socket"], User(s), s["p"], s["d"])
<1>1. /\ s["u"] \in Text /\ s["p"] \in Text /\ s["h"] \in Text /\ s["port"] \in Text
      /\ s["d"] \in Text /\ s["socket"] \in Text
  BY DEF Texts
<1>2. User(s) \in Text
  <2>1. "root" \in Symbol
    BY SymbolAssumption
  <2>2. <<"root">> \in Text
    BY <2>1, OneSymbol
  <2> QED
    BY <1>1, <2>2 DEF User, OrElse, DefaultUser
<1>3. Splits(Login(s), User(s), Colon, s["p"])
  BY <1>1, <1>2, Delimiters DEF Login, User, Splits
<1>4. Reads(s) = MySQLReads(MySQLDSN(s))
  BY DEF Reads
<1>5. Splits(Address(s), s["h"], Colon, s["port"])
  BY <1>1, Delimiters DEF Address, Splits
<1>6. Address(s) \in Text /\ Login(s) \in Text
  BY <1>3, <1>5, SplitTyped
<1>7. Holds(Address(s), At) <=> Holds(s["h"], At) \/ Holds(s["port"], At)
  BY <1>5, SplitHolds, Distinct
<1>8. ASSUME NEW net \in {"tcp", "unix"}, NEW address \in Text, ~Holds(address, At),
             Normalized(net, address) = address,
             MySQLDSN(s) = (Login(s) \o <<At>> \o Net(net, address)) \o <<Slash>> \o s["d"]
      PROVE  Reads(s) = Server(net, address, User(s), s["p"], s["d"])
  <2> DEFINE n    == Net(net, address)
             left == Login(s) \o <<At>> \o n
  <2>1. n \in Text
    <3>1. n = Net(net, address)
      OBVIOUS
    <3> HIDE DEF n
    <3>2. net \in Symbol /\ net # Open /\ net # At
      BY Delimiters
    <3> QED
      BY <1>8, <3>1, <3>2, NetHolds
  <2>2. n = Net(net, address)
    OBVIOUS
  <2> HIDE DEF n
  <2>3. Splits(left, Login(s), At, n)
    BY <1>6, <2>1, Delimiters DEF Splits
  <2>4. left \in Text
    BY <2>3, SplitTyped
  <2>5. MySQLDSN(s) = left \o <<Slash>> \o s["d"]
    BY <1>8 DEF n
  <2> HIDE DEF left
  <2>6. Splits(MySQLDSN(s), left, Slash, s["d"])
    BY <1>1, <2>4, <2>5, Delimiters DEF Splits
  <2>7. MySQLReads(MySQLDSN(s)) = Server(net, address, User(s), s["p"], s["d"])
    <3> DEFINE text == MySQLDSN(s)
               login == Login(s)
               user == User(s)
               password == s["p"]
               name == s["d"]
    <3>1. Splits(login, user, Colon, password) /\ ~Holds(user, Colon)
      BY <1>3
    <3>2. /\ Splits(left, login, At, n) /\ n = Net(net, address) /\ address \in Text
          /\ ~Holds(address, At) /\ Normalized(net, address) = address
      BY <1>8, <2>2, <2>3
    <3>3. Splits(text, left, Slash, name)
      BY <2>6
    <3>4. ~Holds(name, Slash) /\ ~Holds(name, Question) /\ ~Holds(name, Percent)
      OBVIOUS
    <3> HIDE DEF text, login, user, password, name
    <3>5. MySQLReads(text) = Server(net, address, user, password, name)
      <4>1. MySQLParts(text, left, login, n, net, address, user, password, name)
        BY <3>1, <3>2, <3>3, <3>4 DEF MySQLParts
      <4> QED
        BY <4>1, MySQLReadsBack
    <3> QED
      BY <3>5 DEF text, user, password, name
  <2> QED
    BY <1>4, <2>7
<1>9. ASSUME s["socket"] = <<>>, ~Holds(s["h"], At), IsHost(s["h"]),
             \A symbol \in {Colon, At} \cup Brackets : ~Holds(s["port"], symbol)
      PROVE  Reads(s) = Server("tcp", Address(s), User(s), s["p"], s["d"])
  <2>2. SplitsHostPort(Address(s))
    BY <1>5, <1>9, AddressSplits
  <2>3. Address(s) # <<>>
    BY <1>5, SplitHolds, NoSymbol
  <2>4. Normalized("tcp", Address(s)) = Address(s)
    BY <2>2, <2>3 DEF Normalized, EnsureHavePort
  <2>1. MySQLDSN(s) = (Login(s) \o <<At>> \o Net("tcp", Address(s))) \o <<Slash>> \o s["d"]
    BY <1>9 DEF MySQLDSN
  <2>5. ~Holds(Address(s), At)
    BY <1>7, <1>9
  <2> QED
    BY <1>6, <1>8, <2>1, <2>4, <2>5
<1>10. ASSUME s["socket"] # <<>>, ~Holds(s["socket"], At)
       PROVE  Reads(s) = Server("unix", s["socket"], User(s), s["p"], s["d"])
  <2>1. MySQLDSN(s) = (Login(s) \o <<At>> \o Net("unix", s["socket"])) \o <<Slash>> \o s["d"]
    BY <1>10 DEF MySQLDSN
  <2>2. Normalized("unix", s["socket"]) = s["socket"]
    BY <1>10 DEF Normalized
  <2> QED
    BY <1>1, <1>8, <1>10, <2>1, <2>2
<1> QED
  BY <1>9, <1>10

LEMMA PostgresServer ==
  ASSUME NEW s, Texts(s), s["t"] = "pg", s["socket"] = <<>>,
         s["h"] # <<>>, s["d"] # <<>>, s["sslmode"] # <<>>, IsNumber(s["port"]),
         \A symbol \in InURL \cup Brackets \cup {Colon} : ~Holds(User(s), symbol),
         \A symbol \in InURL \cup Brackets : ~Holds(s["p"], symbol),
         \A symbol \in InURL \cup {At} : ~Holds(s["h"], symbol),
         IsHost(s["h"]), Bracketed(s["h"]) => Unbracketed(s["h"]) \in IPv6,
         \A symbol \in {Question, Hash, Percent} : ~Holds(s["d"], symbol),
         \A symbol \in {Ampersand, Hash, Percent} : ~Holds(s["sslmode"], symbol)
  PROVE  Reads(s) = IF s["sslmode"] \in {<<m>> : m \in SSLModes}
                    THEN Server("tcp", Address(s), User(s), s["p"], s["d"]) ELSE Refused
<1>1. /\ s["u"] \in Text /\ s["p"] \in Text /\ s["h"] \in Text /\ s["port"] \in Text
      /\ s["d"] \in Text /\ s["sslmode"] \in Text
  BY DEF Texts
<1>2. User(s) \in Text /\ User(s) # <<>>
  <2>1. "postgres" \in Symbol
    BY SymbolAssumption
  <2>2. <<"postgres">> \in Text /\ <<"postgres">> # <<>>
    BY <2>1, OneSymbol
  <2> QED
    BY <1>1, <2>2 DEF User, OrElse, DefaultUser
<1> DEFINE query     == ModeQuery(s["sslmode"])
           authority == Login(s) \o <<At>> \o Address(s)
           path      == authority \o <<Slash>> \o s["d"]
<1>3. /\ query \in Text /\ ~Holds(query, Hash)
      /\ QueryKeys(query) = {<<"sslmode">>} /\ QueryValue(query, <<"sslmode">>) = s["sslmode"]
  <2>1. Hash \in Delimiter \ {Equal}
    BY Delimiters DEF Hash, Equal
  <2> QED
    BY <1>1, <2>1, OnePair
<1>4. Reads(s) = PostgresReads(PostgresDSN(s))
  BY DEF Reads
<1>5. PostgresDSN(s) = path \o <<Question>> \o query
  BY DEF PostgresDSN, ModeQuery
<1> HIDE DEF query, authority, path
<1>6. {Colon, At, Slash, Question} \subseteq Symbol
  BY Delimiters
<1>7. Splits(Login(s), User(s), Colon, s["p"])
  BY <1>1, <1>2, <1>6 DEF Login, User, Splits
<1>8. Splits(Address(s), s["h"], Colon, s["port"])
  BY <1>1, <1>6 DEF Address, Splits
<1>9. Address(s) \in Text /\ Login(s) \in Text
  BY <1>7, <1>8, SplitTyped
<1>10. Splits(authority, Login(s), At, Address(s))
  BY <1>6, <1>9 DEF authority, Splits
<1>11. authority \in Text
  BY <1>10, SplitTyped
<1>12. Splits(path, authority, Slash, s["d"])
  BY <1>1, <1>6, <1>11 DEF path, Splits
<1>13. path \in Text
  BY <1>12, SplitTyped
<1>14. Splits(PostgresDSN(s), path, Question, query)
  BY <1>3, <1>5, <1>6, <1>13 DEF Splits
<1>15. PostgresReads(PostgresDSN(s)) =
         IF s["sslmode"] \in {<<m>> : m \in SSLModes}
         THEN Server("tcp", Address(s), User(s), s["p"], s["d"]) ELSE Refused
  <2>1. PostgresParts(PostgresDSN(s), path, query, authority, Login(s), Address(s),
                      User(s), s["p"], s["h"], s["port"], s["d"], s["sslmode"])
    BY <1>2, <1>3, <1>7, <1>8, <1>10, <1>12, <1>14 DEF PostgresParts
  <2> QED
    BY <2>1, PostgresReadsBack
<1> QED
  BY <1>4, <1>15

-----------------------------------------------------------------------------
(* The command line.                                                       *)

(* While flags are read nothing is being resolved.                         *)
LineInv ==
  /\ settings \in SettingsType
  /\ args \in CommandLines
  /\ phase = "parse" => loop = 0

(* A step of the command line is a step of Tags, or none.                  *)
LEMMA LineStep ==
  ASSUME LineInv, [LineNext]_allVars
  PROVE  LineInv' /\ [Next]_vars
<1>1. CASE AddTags
  <2>1. /\ phase = "parse" /\ next \in DOMAIN args /\ args[next][1] = "tag"
        /\ settings' = [settings EXCEPT !.tags = @ \o args[next][2]]
        /\ current' = FALSE /\ phase' = phase /\ args' = args
        /\ UNCHANGED <<heap, tags, loop, given, calls>>
    BY <1>1 DEF AddTags, Parsing, Flag, Appended
  <2>2. Len(args[next]) = 2
    BY <1>1, <2>1 DEF AddTags, Wrong, HasValue, Switches, TagSwitches
  <2>3. args[next][2] \in Seq(Value)
    BY <2>1, <2>2, LinesAssumption DEF LineInv
  <2>4. settings.tags \o args[next][2] \in Seq(Value)
    BY <2>3 DEF LineInv, SettingsType
  <2>5. settings' \in SettingsType
    BY <2>1, <2>4 DEF LineInv, SettingsType
  <2> QED
    BY <2>1, <2>5 DEF LineInv, Next, Configure
<1>2. CASE SetTagSwitch
  <2>1. settings' \in SettingsType
    BY <1>2 DEF SetTagSwitch, LineInv, SettingsType
  <2> QED
    BY <1>2, <2>1 DEF SetTagSwitch, Parsing, LineInv, Next, Configure
<1>3. CASE SetOption \/ Usage \/ EndParse \/ WarnLegacy \/ AfterNewArgs \/ VerifyPanics \/ Verify \/ Connect
  <2>1. UNCHANGED vars /\ args' = args /\ (phase' = phase \/ phase' # "parse")
    BY <1>3 DEF SetOption, Usage, EndParse, WarnLegacy, AfterNewArgs, VerifyPanics, Verify, Connect, To
  <2> QED
    BY <2>1 DEF LineInv, vars
<1>4. CASE Resolve \/ OtherResolves
  <2>1. ResolveTags /\ args' = args /\ phase' # "parse" /\ settings' = settings
    BY <1>4 DEF Resolve, OtherResolves, To, lineVars, ResolveTags, ResolveOnly, BeginResolve,
                AddNext, EndResolve
  <2> QED
    BY <2>1 DEF LineInv, Next
<1>5. CASE WarnRecorder \/ WarnGorm \/ NewApp \/ OtherAsks
  <2>1. (ResolvedTags \/ UNCHANGED vars) /\ args' = args /\ phase' # "parse"
    BY <1>5 DEF WarnRecorder, WarnGorm, NewApp, OtherAsks, WarnWithout, To, lineVars
  <2> QED
    BY <2>1 DEF LineInv, Next, ResolvedTags, vars
<1>6. CASE OtherConfigures
  BY <1>6 DEF OtherConfigures, lineVars, Configure, Next, LineInv
<1>7. CASE UNCHANGED allVars
  BY <1>7 DEF allVars, lineVars, vars, LineInv
<1> QED
  BY <1>1, <1>2, <1>3, <1>4, <1>5, <1>6, <1>7 DEF LineNext

(* The program and every other user of the package treat the tags as Tags  *)
(* says.                                                                   *)
THEOREM TagsWithinCommandLine == LineSpec => Spec
<1>1. LineInit => LineInv /\ Init
  BY DEF LineInit, LineInv, Init, SettingsType
<1>2. LineInv /\ [LineNext]_allVars => LineInv' /\ [Next]_vars
  BY LineStep
<1> QED
  BY <1>1, <1>2, PTL DEF LineSpec, Spec

(* The keys the warnings, Verify and the taggers see are those the flags   *)
(* ask for, ...                                                            *)
THEOREM LineResolvedRightly == LineSpec => []ResolvedFromSettings
<1> QED
  BY TagsWithinCommandLine, ResolvedRightly, PTL

(* ... and the taggers keep theirs.                                        *)
THEOREM LineHandedOutForGood == LineSpec => []HandedOutStays
<1> QED
  BY TagsWithinCommandLine, HandedOutForGood, PTL

-----------------------------------------------------------------------------
(* The flags: what is read of them step by step is what they say as a      *)
(* whole.                                                                  *)

(* The value of an argument, of a flag that takes one.                     *)
ValueOf(arg) ==
  IF arg[1] \in Switches THEN IF HasValue(arg) THEN arg[2] ELSE "true"
  ELSE IF arg[1] \in ChoiceFlags THEN Chosen(arg[1], arg[2]) ELSE arg[2]

(* What the arguments of a line before k make of a flag: the last one counts, ...    *)
SetBefore(line, k, flag, value) ==
  \/ value = Default(flag) /\ \A i \in 1..(k - 1) : line[i][1] # flag
  \/ \E i \in 1..(k - 1) :
       /\ line[i][1] = flag /\ value = ValueOf(line[i])
       /\ \A j \in 1..(k - 1) : line[j][1] = flag => j <= i

(* ... or all do.                                                          *)
Parts(line, flag) == [i \in DOMAIN line |-> IF line[i][1] = flag THEN line[i][2] ELSE <<>>]

AllBefore(line, k, flag) == FlattenSeq([i \in 1..(k - 1) |-> Parts(line, flag)[i]])

(* The settings are those of the arguments before k.                       *)
SoFar(k) ==
  /\ \A flag \in Options \ {"table"} : SetBefore(args, k, flag, options[flag])
  /\ options["table"] = AllBefore(args, k, "table")
  /\ settings.tags = AllBefore(args, k, "tag")
  /\ \E value \in {"true", "false"} : SetBefore(args, k, "tags-no-db", value) /\ settings.noDb = (value = "true")
  /\ \E value \in {"true", "false"} : SetBefore(args, k, "tags-structable", value) /\ settings.structable = (value = "true")
  /\ \E value \in {"true", "false"} : SetBefore(args, k, "tags-structable-only", value) /\ settings.only = (value = "true")

(* While the flags are read, ...                                           *)
Reading ==
  /\ next \in 1..(Len(args) + 1)
  /\ options = [flag \in Options |-> options[flag]]
  /\ \A i \in 1..(next - 1) : args[i][1] # Word /\ ~Wrong(args[i])
  /\ phase \in Phases
  /\ phase = "parse" => SoFar(next)
  /\ ~Read => warnings = {}
  /\ phase = "usage" => \E i \in FlagsRead : Wrong(args[i])

(* ... and afterwards, when every flag has got its final value.            *)
FinalOptions ==
  [flag \in Options |-> IF flag = "table" THEN AllOf("table") ELSE Final(flag)]

FilledIn ==
  [FinalOptions EXCEPT !["port"]    = OrElse(@, DefaultPort(Final("t"))),
                       !["sslmode"] = OrElse(@, <<"disable">>)]

VerifiedOptions == [FilledIn EXCEPT !["v"] = IF On("vv") THEN "true" ELSE @]

FinalSettings ==
  [noDb |-> On("tags-no-db"), structable |-> On("tags-structable"),
   only |-> On("tags-structable-only"), tags |-> AllOf("tag")]

AfterRead ==
  Read =>
    /\ \A i \in FlagsRead : ~Wrong(args[i])
    /\ settings = FinalSettings
    /\ phase # "resolve" => current /\ loop = 0
    /\ phase \notin {"refused"} /\ ~Verified => options = FinalOptions
    /\ phase = "refused" => options \in {FinalOptions, FilledIn}
    /\ Verified => options = VerifiedOptions

(* The warnings so far.                                                    *)
WarnedSoFar ==
  Read =>
    /\ warnings \subseteq WarningNames
    /\ phase \in {"resolve", "legacy"} => warnings = {}
    /\ "legacy" \in warnings <=>
         /\ phase \notin {"resolve", "legacy"}
         /\ On("tags-structable") \/ On("tags-structable-only")
    /\ "structable-recorder" \in warnings <=>
         /\ phase \notin {"resolve", "legacy", "recorder"}
         /\ On("structable-recorder") /\ ~FlagsAskFor(structable)
    /\ "gorm-model" \in warnings <=>
         /\ phase \notin {"resolve", "legacy", "recorder", "gorm"}
         /\ On("gorm-model") /\ ~FlagsAskFor(gorm)

Asks == phase \in {"down", "app", "done"} => conn = Reads(options)

LEMMA LineTyped ==
  ASSUME NEW line \in CommandLines
  PROVE  /\ Len(line) \in Nat /\ DOMAIN line = 1..Len(line)
         /\ \A i \in 1..Len(line) : ~Wrong(line[i]) /\ line[i][1] = "tag" => line[i][2] \in Seq(Value)
         /\ \A i \in 1..Len(line) : ~Wrong(line[i]) /\ line[i][1] = "table" => line[i][2] \in Seq(STRING)
         /\ \A i \in 1..Len(line) :
              ~Wrong(line[i]) /\ line[i][1] \in TextFlags \ {"of"} => line[i][2] \in Seq(Symbol)
<1>1. line \in Seq(Range(line))
  BY LinesAssumption
<1>2. Len(line) \in Nat /\ DOMAIN line = 1..Len(line)
  BY <1>1, LenProperties
<1>3. \A i \in 1..Len(line) : ~Wrong(line[i]) /\ line[i][1] \in TextFlags \cup ListFlags => Len(line[i]) = 2
  BY DEF Wrong, HasValue, Switches, TagSwitches, TextFlags, ListFlags
<1>4. "tag" \in ListFlags /\ "table" \in ListFlags
  BY DEF ListFlags
<1>5. \A i \in 1..Len(line) : Len(line[i]) = 2 =>
        /\ line[i][1] = "tag" => line[i][2] \in Seq(Value)
        /\ line[i][1] = "table" => line[i][2] \in Seq(STRING)
        /\ line[i][1] \in TextFlags \ {"of"} => line[i][2] \in Seq(Symbol)
  BY <1>2, LinesAssumption
<1> QED
  BY <1>2, <1>3, <1>4, <1>5

(* One argument more is of another flag, or the last so far.               *)
LEMMA SetByOthers ==
  ASSUME NEW line, NEW k \in Nat \ {0}, NEW flag, NEW value,
         SetBefore(line, k, flag, value), line[k][1] # flag
  PROVE  SetBefore(line, k + 1, flag, value)
<1>1. /\ \A i \in 1..((k + 1) - 1) : i \in 1..(k - 1) \/ i = k
      /\ \A i \in 1..(k - 1) : i \in 1..((k + 1) - 1)
  OBVIOUS
<1> QED
  BY <1>1 DEF SetBefore

LEMMA SetByLast ==
  ASSUME NEW line, NEW k \in Nat \ {0}
  PROVE  SetBefore(line, k + 1, line[k][1], ValueOf(line[k]))
<1>1. k \in 1..((k + 1) - 1) /\ \A j \in 1..((k + 1) - 1) : j <= k
  OBVIOUS
<1> QED
  BY <1>1 DEF SetBefore

LEMMA AllTyped ==
  ASSUME NEW line \in CommandLines, NEW k \in 1..(Len(line) + 1),
         NEW S, NEW flag, \A i \in 1..(k - 1) : line[i][1] = flag => line[i][2] \in Seq(S)
  PROVE  /\ AllBefore(line, k, flag) \in Seq(S)
         /\ \A i \in 1..(k - 1) : Parts(line, flag)[i] \in Seq(S)
<1> DEFINE n == k - 1
           list == Parts(line, flag)
           short == [i \in 1..n |-> list[i]]
           T == Seq(S)
<1>1. Len(line) \in Nat /\ DOMAIN line = 1..Len(line)
  BY LineTyped
<1>2. n \in Nat /\ \A i \in 1..n : i \in DOMAIN line
  BY <1>1
<1>3. <<>> \in T
  BY EmptySeq
<1>4. \A i \in 1..n : list[i] \in T
  BY <1>2, <1>3 DEF Parts
<1> HIDE DEF T, list, n
<1>5. short \in Seq(T)
  BY <1>2, <1>4
<1> HIDE DEF short
<1>6. FlattenSeq(short) \in Seq(S)
  BY <1>5, FlattenTyped DEF T
<1> QED
  BY <1>4, <1>6 DEF short, list, n, T, AllBefore

LEMMA AllStep ==
  ASSUME NEW line \in CommandLines, NEW k \in 1..Len(line),
         NEW S, NEW flag, \A i \in 1..k : line[i][1] = flag => line[i][2] \in Seq(S)
  PROVE  /\ line[k][1] = flag =>
              AllBefore(line, k + 1, flag) = AllBefore(line, k, flag) \o line[k][2]
         /\ line[k][1] # flag => AllBefore(line, k + 1, flag) = AllBefore(line, k, flag)
<1> DEFINE n == k - 1
           list == Parts(line, flag)
<1>1. Len(line) \in Nat /\ DOMAIN line = 1..Len(line)
  BY LineTyped
<1>2. n \in Nat /\ n + 1 = k /\ (k + 1) - 1 = n + 1 /\ k + 1 \in 1..(Len(line) + 1) /\ k \in 1..(Len(line) + 1)
  BY <1>1
<1>3. \A i \in 1..(n + 1) : list[i] \in Seq(S)
  <2>1. \A i \in 1..((k + 1) - 1) : line[i][1] = flag => line[i][2] \in Seq(S)
    BY <1>2
  <2> QED
    BY <1>2, <2>1, AllTyped
<1>4. AllBefore(line, k, flag) \in Seq(S)
  <2>1. \A i \in 1..(k - 1) : line[i][1] = flag => line[i][2] \in Seq(S)
    OBVIOUS
  <2> QED
    BY <1>2, <2>1, AllTyped
<1>5. list[k] = IF line[k][1] = flag THEN line[k][2] ELSE <<>>
  BY <1>1 DEF Parts
<1> HIDE DEF list, n
<1>6. FlattenSeq([i \in 1..(n + 1) |-> list[i]]) = FlattenSeq([i \in 1..n |-> list[i]]) \o list[n + 1]
  BY <1>2, <1>3, FlattenUpTo
<1>7. AllBefore(line, k + 1, flag) = AllBefore(line, k, flag) \o list[k]
  BY <1>2, <1>6 DEF AllBefore, list, n
<1>8. AllBefore(line, k, flag) \o <<>> = AllBefore(line, k, flag)
  BY <1>4, ConcatEmptySeq
<1> QED
  BY <1>5, <1>7, <1>8

(* At the end of the flags ...                                             *)
LEMMA ReadUpTo ==
  ASSUME args \in CommandLines, NEW k \in 1..(Len(args) + 1),
         k = Len(args) + 1 \/ args[k][1] = Word, \A i \in 1..(k - 1) : args[i][1] # Word
  PROVE  FlagsRead = 1..(k - 1)
<1>1. Len(args) \in Nat /\ DOMAIN args = 1..Len(args)
  BY LineTyped
<1>2. \A i \in 1..(k - 1) : i \in DOMAIN args /\ \A j \in 1..i : j \in 1..(k - 1)
  BY <1>1
<1>3. \A i \in DOMAIN args : i \in 1..(k - 1) \/ (k \in 1..i /\ k # Len(args) + 1)
  BY <1>1
<1> QED
  BY <1>2, <1>3 DEF FlagsRead

(* ... each has its final value.                                           *)
LEMMA FinalValue ==
  ASSUME NEW k \in 1..(Len(args) + 1), args \in CommandLines, FlagsRead = 1..(k - 1),
         NEW flag, NEW value, SetBefore(args, k, flag, value)
  PROVE  value = Final(flag)
<1>1. Len(args) \in Nat /\ k - 1 \in Nat
  BY LineTyped
<1>2. Those(flag) = {i \in 1..(k - 1) : args[i][1] = flag}
  BY DEF Those
<1>3. CASE \A i \in 1..(k - 1) : args[i][1] # flag
  <2>1. value = Default(flag)
    BY <1>3 DEF SetBefore
  <2>2. Those(flag) = {}
    BY <1>2, <1>3
  <2> QED
    BY <2>1, <2>2 DEF Final
<1>4. ASSUME NEW i \in 1..(k - 1), args[i][1] = flag, value = ValueOf(args[i]),
             \A j \in 1..(k - 1) : args[j][1] = flag => j <= i
      PROVE  value = Final(flag)
  <2>1. i \in Those(flag) /\ \A j \in Those(flag) : j <= i
    BY <1>2, <1>4
  <2>2. Those(flag) \in SUBSET (0..(k - 1))
    BY <1>2
  <2>3. Max(Those(flag)) = i
    BY <1>1, <2>1, <2>2, MaxIsThat
  <2>4. Final(flag) = IF flag \in Switches /\ ~HasValue(args[i]) THEN "true"
                      ELSE IF flag \in ChoiceFlags THEN Chosen(flag, args[i][2]) ELSE args[i][2]
    BY <2>1, <2>3 DEF Final
  <2>5. flag \in Switches => flag \notin ChoiceFlags
    BY DEF Switches, TagSwitches, ChoiceFlags
  <2> QED
    BY <1>4, <2>4, <2>5 DEF ValueOf
<1> QED
  BY <1>3, <1>4 DEF SetBefore

LEMMA FinalList ==
  ASSUME NEW k \in 1..(Len(args) + 1), args \in CommandLines, FlagsRead = 1..(k - 1),
         NEW S, NEW flag, \A i \in 1..(k - 1) : args[i][1] = flag => args[i][2] \in Seq(S)
  PROVE  AllBefore(args, k, flag) = AllOf(flag)
<1> DEFINE list == [i \in DOMAIN args |-> IF i \in Those(flag) THEN args[i][2] ELSE <<>>]
           n == Len(args)
           UpTo(m) == FlattenSeq([i \in 1..m |-> list[i]])
           T == Seq(S)
           U == {m \in Nat : (k - 1) + m <= n => UpTo((k - 1) + m) = AllBefore(args, k, flag)}
<1>1. n \in Nat /\ DOMAIN args = 1..n /\ k - 1 \in Nat /\ k - 1 <= n /\ k \in Nat
  BY LineTyped
<1>2. \A i \in 1..n : i \in Those(flag) <=> i \in 1..(k - 1) /\ args[i][1] = flag
  BY <1>1 DEF Those
<1>3. <<>> \in T
  BY EmptySeq
<1>4. \A i \in 1..n : list[i] \in T
  BY <1>1, <1>2, <1>3
<1>5. \A i \in 1..n : i > k - 1 => list[i] = <<>>
  BY <1>1, <1>2
<1>6. \A i \in 1..(k - 1) : i \in 1..n /\ list[i] = Parts(args, flag)[i]
  BY <1>1, <1>2 DEF Parts
<1>7. AllOf(flag) = UpTo(n)
  <2>1. list = [i \in 1..n |-> list[i]]
    BY <1>1
  <2>2. AllOf(flag) = FlattenSeq(list)
    BY DEF AllOf
  <2> HIDE DEF list
  <2> QED
    BY <2>1, <2>2
<1> HIDE DEF list, n, T
<1>8. UpTo(k - 1) = AllBefore(args, k, flag)
  <2>1. [i \in 1..(k - 1) |-> list[i]] = [i \in 1..(k - 1) |-> Parts(args, flag)[i]]
    BY <1>6
  <2> QED
    BY <2>1 DEF AllBefore
<1> HIDE DEF UpTo
<1>9. 0 \in U
  BY <1>1, <1>8
<1>10. \A m \in Nat : m \in U => m + 1 \in U
  <2> SUFFICES ASSUME NEW m \in Nat, (k - 1) + m <= n => UpTo((k - 1) + m) = AllBefore(args, k, flag),
                      (k - 1) + (m + 1) <= n
               PROVE  UpTo((k - 1) + (m + 1)) = AllBefore(args, k, flag)
    OBVIOUS
  <2> DEFINE l == (k - 1) + m
  <2>1. l \in Nat /\ l + 1 = (k - 1) + (m + 1) /\ l + 1 \in 1..n /\ l + 1 > k - 1 /\ l <= n
    BY <1>1
  <2> HIDE DEF l
  <2>2. \A i \in 1..(l + 1) : list[i] \in Seq(S)
    BY <1>1, <1>4, <2>1 DEF T
  <2>3. UpTo(l) \in Seq(S) /\ UpTo(l + 1) = UpTo(l) \o list[l + 1]
    BY <2>1, <2>2, FlattenUpTo DEF UpTo
  <2>4. list[l + 1] = <<>>
    BY <1>5, <2>1
  <2>5. UpTo(l) \o <<>> = UpTo(l)
    BY <2>3, ConcatEmptySeq
  <2> QED
    BY <2>1, <2>3, <2>4, <2>5 DEF l
<1>11. \A m \in Nat : m \in U
  <2> HIDE DEF U
  <2> QED
    BY <1>9, <1>10, Induction
<1>12. n - (k - 1) \in Nat /\ (k - 1) + (n - (k - 1)) = n
  BY <1>1
<1>13. UpTo(n) = AllBefore(args, k, flag)
  <2>1. n - (k - 1) \in U
    BY <1>11, <1>12
  <2>2. UpTo((k - 1) + (n - (k - 1))) = AllBefore(args, k, flag)
    BY <1>1, <1>12, <2>1
  <2> QED
    BY <1>12, <2>2
<1> QED
  BY <1>7, <1>13

LEMMA EndOfFlags ==
  ASSUME LineInv, Reading, EndParse
  PROVE  /\ \A i \in FlagsRead : ~Wrong(args[i])
         /\ settings = FinalSettings /\ options = FinalOptions
<1>1. /\ args \in CommandLines /\ next \in 1..(Len(args) + 1)
      /\ \A i \in 1..(next - 1) : args[i][1] # Word /\ ~Wrong(args[i])
  BY DEF LineInv, Reading
<1>2. next = Len(args) + 1 \/ args[next][1] = Word
  BY DEF EndParse, Flag
<1>3. FlagsRead = 1..(next - 1)
  BY <1>1, <1>2, ReadUpTo
<1>4. SoFar(next) /\ options = [flag \in Options |-> options[flag]] /\ settings \in SettingsType
  BY DEF LineInv, Reading, EndParse
<1>5. Len(args) \in Nat /\ \A i \in 1..(next - 1) : i \in 1..Len(args)
  BY <1>1, LineTyped
<1>6. AllBefore(args, next, "tag") = AllOf("tag")
  <2>1. \A i \in 1..(next - 1) : args[i][1] = "tag" => args[i][2] \in Seq(Value)
    BY <1>1, <1>5, LineTyped
  <2> QED
    BY <1>1, <1>3, <2>1, FinalList
<1>7. AllBefore(args, next, "table") = AllOf("table")
  <2>1. \A i \in 1..(next - 1) : args[i][1] = "table" => args[i][2] \in Seq(STRING)
    BY <1>1, <1>5, LineTyped
  <2> QED
    BY <1>1, <1>3, <2>1, FinalList
<1>8. \A flag, value : SetBefore(args, next, flag, value) => value = Final(flag)
  BY <1>1, <1>3, FinalValue
<1>9. options = FinalOptions
  <2>1. \A flag \in Options \ {"table"} : options[flag] = Final(flag)
    BY <1>4, <1>8 DEF SoFar
  <2>2. options["table"] = AllOf("table")
    BY <1>4, <1>7 DEF SoFar
  <2>3. [flag \in Options |-> options[flag]] = FinalOptions
    BY <2>1, <2>2 DEF FinalOptions
  <2> QED
    BY <1>4, <2>3
<1>10. settings = FinalSettings
  <2>1. /\ settings.noDb = On("tags-no-db") /\ settings.structable = On("tags-structable")
        /\ settings.only = On("tags-structable-only") /\ settings.tags = AllOf("tag")
    BY <1>4, <1>6, <1>8 DEF SoFar, On
  <2> QED
    BY <1>4, <2>1 DEF FinalSettings, SettingsType
<1> QED
  BY <1>1, <1>3, <1>9, <1>10

(* The final values are those of the arguments.                            *)
LEMMA SameArguments ==
  ASSUME args' = args
  PROVE  /\ FlagsRead' = FlagsRead
         /\ \A flag : Final(flag)' = Final(flag) /\ AllOf(flag)' = AllOf(flag) /\ On(flag)' = On(flag)
         /\ FinalSettings' = FinalSettings /\ FinalOptions' = FinalOptions
         /\ FilledIn' = FilledIn /\ VerifiedOptions' = VerifiedOptions
         /\ \A key : FlagsAskFor(key)' = FlagsAskFor(key)
<1>1. FlagsRead' = FlagsRead
  BY DEF FlagsRead
<1>2. \A flag : Those(flag)' = Those(flag)
  BY <1>1 DEF Those
<1>3. \A flag : Final(flag)' = Final(flag)
  BY <1>2 DEF Final
<1>4. \A flag : AllOf(flag)' = AllOf(flag)
  BY <1>2 DEF AllOf
<1>5. \A flag : On(flag)' = On(flag)
  BY <1>3 DEF On
<1>6. FinalSettings' = FinalSettings
  BY <1>4, <1>5 DEF FinalSettings
<1>7. FinalOptions' = FinalOptions
  BY <1>3, <1>4 DEF FinalOptions
<1>8. FilledIn' = FilledIn
  BY <1>3, <1>7 DEF FilledIn
<1>9. VerifiedOptions' = VerifiedOptions
  BY <1>5, <1>8 DEF VerifiedOptions
<1>10. \A key : FlagsAskFor(key)' = FlagsAskFor(key)
  BY <1>4, <1>5 DEF FlagsAskFor
<1> QED
  BY <1>1, <1>3, <1>4, <1>5, <1>6, <1>7, <1>8, <1>9, <1>10

(* Of the argument at hand the settings hold what they should.             *)
LEMMA OneFlag ==
  ASSUME LineInv, Reading, Parsing, ~Wrong(args[next])
  PROVE  /\ next + 1 \in 1..(Len(args) + 1)
         /\ \A i \in 1..((next + 1) - 1) : args[i][1] # Word /\ ~Wrong(args[i])
         /\ SetBefore(args, next + 1, Flag, ValueOf(args[next]))
         /\ \A flag, value :
              flag # Flag /\ SetBefore(args, next, flag, value) => SetBefore(args, next + 1, flag, value)
         /\ \A flag \in ListFlags :
              AllBefore(args, next + 1, flag) =
                IF Flag = flag THEN AllBefore(args, next, flag) \o args[next][2]
                ELSE AllBefore(args, next, flag)
<1>1. /\ args \in CommandLines /\ next \in 1..(Len(args) + 1)
      /\ \A i \in 1..(next - 1) : args[i][1] # Word /\ ~Wrong(args[i])
  BY DEF LineInv, Reading
<1>2. Len(args) \in Nat /\ DOMAIN args = 1..Len(args)
  BY <1>1, LineTyped
<1>3. next \in 1..Len(args) /\ args[next][1] # Word
  BY <1>2 DEF Parsing
<1>4. \A i \in 1..next : i \in 1..Len(args) /\ ~Wrong(args[i]) /\ args[i][1] # Word
  <2>1. \A i \in 1..next : i \in 1..Len(args) /\ (i \in 1..(next - 1) \/ i = next)
    BY <1>2, <1>3
  <2> QED
    BY <1>1, <1>3, <2>1
<1>5. next + 1 \in 1..(Len(args) + 1) /\ (next + 1) - 1 = next /\ next \in Nat \ {0}
  BY <1>2, <1>3
<1>6. SetBefore(args, next + 1, Flag, ValueOf(args[next]))
  BY <1>5, SetByLast DEF Flag
<1>7. \A flag, value :
        flag # Flag /\ SetBefore(args, next, flag, value) => SetBefore(args, next + 1, flag, value)
  BY <1>5, SetByOthers DEF Flag
<1>8. ASSUME NEW flag \in ListFlags
      PROVE  AllBefore(args, next + 1, flag) =
               IF Flag = flag THEN AllBefore(args, next, flag) \o args[next][2]
               ELSE AllBefore(args, next, flag)
  <2>1. CASE flag = "tag"
    <3>1. \A i \in 1..next : args[i][1] = flag => args[i][2] \in Seq(Value)
      BY <1>1, <1>4, <2>1, LineTyped
    <3> QED
      BY <1>1, <1>3, <3>1, AllStep DEF Flag
  <2>2. CASE flag = "table"
    <3>1. \A i \in 1..next : args[i][1] = flag => args[i][2] \in Seq(STRING)
      BY <1>1, <1>4, <2>2, LineTyped
    <3> QED
      BY <1>1, <1>3, <3>1, AllStep DEF Flag
  <2> QED
    BY <2>1, <2>2 DEF ListFlags
<1> QED
  BY <1>4, <1>5, <1>6, <1>7, <1>8

LEMMA SetOptionReads ==
  ASSUME LineInv, Reading, SetOption
  PROVE  Reading'
<1>1. /\ Parsing /\ phase = "parse" /\ ~Wrong(args[next]) /\ Flag \in Options
      /\ options' = [options EXCEPT ![Flag] = Assigned(Flag, args[next])]
      /\ next' = next + 1 /\ args' = args /\ phase' = phase /\ settings' = settings /\ warnings' = warnings
  BY DEF SetOption, Parsing, vars
<1>2. Flag \notin TagSwitches /\ Flag # "tag" /\ "table" \in ListFlags /\ "tag" \in ListFlags
  BY <1>1 DEF Options, ListFlags
<1>3. SoFar(next) /\ options = [flag \in Options |-> options[flag]] /\ phase \in Phases /\ warnings = {}
  BY <1>1 DEF Reading, Read
<1>4. \A flag \in Options : options'[flag] = IF flag = Flag THEN Assigned(Flag, args[next]) ELSE options[flag]
  BY <1>1, <1>3
<1>5. options' = [flag \in Options |-> options'[flag]]
  BY <1>1, <1>3
<1>6. \A flag \in Options \ {"table"} : SetBefore(args, next + 1, flag, options'[flag])
  <2> SUFFICES ASSUME NEW flag \in Options \ {"table"}
               PROVE  SetBefore(args, next + 1, flag, options'[flag])
    OBVIOUS
  <2>1. CASE flag = Flag
    <3>1. Flag \notin ListFlags
      BY <1>2, <2>1 DEF ListFlags
    <3>2. Assigned(Flag, args[next]) = ValueOf(args[next])
      BY <3>1 DEF Assigned, ValueOf, Flag
    <3> QED
      BY <1>1, <1>4, <2>1, <3>2, OneFlag
  <2>2. CASE flag # Flag
    <3>1. SetBefore(args, next, flag, options[flag])
      BY <1>3 DEF SoFar
    <3> QED
      BY <1>1, <1>4, <2>2, <3>1, OneFlag
  <2> QED
    BY <2>1, <2>2
<1>7. options'["table"] = AllBefore(args, next + 1, "table")
  <2>1. options["table"] = AllBefore(args, next, "table")
    BY <1>3 DEF SoFar
  <2>2. "table" \in Options /\ "table" \notin Switches /\ "table" \notin ChoiceFlags
    BY DEF Options, Flags, ListFlags, TagSwitches, Switches, ChoiceFlags
  <2>3. Flag = "table" => Assigned(Flag, args[next]) = options["table"] \o args[next][2]
    BY <1>2, <2>2 DEF Assigned, Appended
  <2> QED
    BY <1>1, <1>2, <1>4, <2>1, <2>2, <2>3, OneFlag
<1>8. settings.tags = AllBefore(args, next + 1, "tag")
  BY <1>1, <1>2, <1>3, OneFlag DEF SoFar
<1>9. \A value : \A flag \in TagSwitches :
        SetBefore(args, next, flag, value) => SetBefore(args, next + 1, flag, value)
  BY <1>1, <1>2, OneFlag
<1>10. {"tags-no-db", "tags-structable", "tags-structable-only"} = TagSwitches
  BY DEF TagSwitches
<1>11. SoFar(next)'
  BY <1>1, <1>3, <1>6, <1>7, <1>8, <1>9, <1>10 DEF SoFar
<1> QED
  BY <1>1, <1>3, <1>5, <1>11, OneFlag DEF Reading, Read

LEMMA TagFlagReads ==
  ASSUME LineInv, Reading, AddTags \/ SetTagSwitch
  PROVE  Reading'
<1>1. /\ Parsing /\ phase = "parse" /\ ~Wrong(args[next]) /\ Flag \in TagSwitches \cup {"tag"}
      /\ next' = next + 1 /\ args' = args /\ phase' = phase /\ options' = options /\ warnings' = warnings
  BY DEF AddTags, SetTagSwitch, Parsing
<1>2. "table" \in ListFlags /\ "tag" \in ListFlags /\ Flag \notin Options /\ "table" # Flag
  BY <1>1 DEF Options, ListFlags, TagSwitches
<1>3. /\ SoFar(next) /\ options = [flag \in Options |-> options[flag]] /\ phase \in Phases /\ warnings = {}
      /\ settings \in SettingsType
  BY <1>1 DEF Reading, LineInv, Read
<1>4. \A flag \in Options \ {"table"} : SetBefore(args, next + 1, flag, options[flag])
  BY <1>1, <1>2, <1>3, OneFlag DEF SoFar
<1>5. options["table"] = AllBefore(args, next + 1, "table")
  BY <1>1, <1>2, <1>3, OneFlag DEF SoFar
<1>6. SoFar(next)'
  <2>1. CASE AddTags
    <3>1. Flag = "tag" /\ settings' = [settings EXCEPT !.tags = @ \o args[next][2]]
      BY <2>1 DEF AddTags, Appended
    <3>2. settings'.tags = AllBefore(args, next + 1, "tag")
      BY <1>1, <1>2, <1>3, <3>1, OneFlag DEF SoFar, SettingsType
    <3>3. \A value : \A flag \in TagSwitches :
            SetBefore(args, next, flag, value) => SetBefore(args, next + 1, flag, value)
      BY <1>1, <3>1, OneFlag DEF TagSwitches
    <3>4. /\ settings'.noDb = settings.noDb /\ settings'.structable = settings.structable
          /\ settings'.only = settings.only
      BY <1>3, <3>1 DEF SettingsType
    <3>5. {"tags-no-db", "tags-structable", "tags-structable-only"} = TagSwitches
      BY DEF TagSwitches
    <3> QED
      BY <1>1, <1>3, <1>4, <1>5, <3>2, <3>3, <3>4, <3>5 DEF SoFar
  <2>2. CASE SetTagSwitch
    <3> DEFINE value == ValueOf(args[next])
    <3>1. /\ Flag \in TagSwitches /\ Flag # "tag" /\ Assigned(Flag, args[next]) = value
          /\ Flag \in Switches
      BY <2>2 DEF SetTagSwitch, TagSwitches, Switches, Assigned, ValueOf, Flag
    <3>2. value \in {"true", "false"}
      BY <1>1, <3>1 DEF Wrong, ValueOf, Flag
    <3>3. SetBefore(args, next + 1, Flag, value)
      BY <1>1, OneFlag
    <3> HIDE DEF value
    <3>4. settings' = CASE Flag = "tags-no-db"      -> [settings EXCEPT !.noDb = (value = "true")]
                        [] Flag = "tags-structable" -> [settings EXCEPT !.structable = (value = "true")]
                        [] OTHER                    -> [settings EXCEPT !.only = (value = "true")]
      BY <2>2, <3>1 DEF SetTagSwitch
    <3>5. settings'.tags = settings.tags
      BY <1>3, <3>4 DEF SettingsType
    <3>6. settings.tags = AllBefore(args, next + 1, "tag")
      BY <1>1, <1>2, <1>3, <3>1, OneFlag DEF SoFar
    <3>7. \E v \in {"true", "false"} :
            SetBefore(args, next + 1, "tags-no-db", v) /\ settings'.noDb = (v = "true")
      <4>1. CASE Flag = "tags-no-db"
        <5>1. settings'.noDb = (value = "true")
          BY <1>3, <3>4, <4>1 DEF SettingsType
        <5> QED
          BY <3>2, <3>3, <4>1, <5>1
      <4>2. CASE Flag # "tags-no-db"
        <5>1. settings'.noDb = settings.noDb
          BY <1>3, <3>4, <4>2 DEF SettingsType
        <5> QED
          BY <1>1, <1>3, <4>2, <5>1, OneFlag DEF SoFar
      <4> QED
        BY <4>1, <4>2
    <3>8. \E v \in {"true", "false"} :
            SetBefore(args, next + 1, "tags-structable", v) /\ settings'.structable = (v = "true")
      <4>1. CASE Flag = "tags-structable"
        <5>1. settings'.structable = (value = "true")
          BY <1>3, <3>4, <4>1 DEF SettingsType
        <5> QED
          BY <3>2, <3>3, <4>1, <5>1
      <4>2. CASE Flag # "tags-structable"
        <5>1. settings'.structable = settings.structable
          BY <1>3, <3>4, <4>2 DEF SettingsType
        <5> QED
          BY <1>1, <1>3, <4>2, <5>1, OneFlag DEF SoFar
      <4> QED
        BY <4>1, <4>2
    <3>9. \E v \in {"true", "false"} :
            SetBefore(args, next + 1, "tags-structable-only", v) /\ settings'.only = (v = "true")
      <4>1. CASE Flag = "tags-structable-only"
        <5>1. settings'.only = (value = "true")
          BY <1>3, <3>4, <4>1 DEF SettingsType
        <5> QED
          BY <3>2, <3>3, <4>1, <5>1
      <4>2. CASE Flag # "tags-structable-only"
        <5>1. settings'.only = settings.only
          BY <1>3, <3>1, <3>4, <4>2 DEF SettingsType, TagSwitches
        <5> QED
          BY <1>1, <1>3, <4>2, <5>1, OneFlag DEF SoFar
      <4> QED
        BY <4>1, <4>2
    <3> QED
      BY <1>1, <1>4, <1>5, <3>5, <3>6, <3>7, <3>8, <3>9 DEF SoFar
  <2> QED
    BY <2>1, <2>2
<1> QED
  BY <1>1, <1>3, <1>6, OneFlag DEF Reading, Read

LEMMA OptionsTyped ==
  ASSUME options = [flag \in Options |-> options[flag]]
  PROVE  /\ Filled = [flag \in Options |-> Filled[flag]]
         /\ \A value : [Filled EXCEPT !["v"] = value] =
                         [flag \in Options |-> [Filled EXCEPT !["v"] = value][flag]]
<1>1. DOMAIN Filled = Options /\ Filled = [flag \in DOMAIN Filled |-> Filled[flag]]
  BY DEF Filled
<1> HIDE DEF Filled
<1> QED
  BY <1>1

LEMMA ReadingStep ==
  ASSUME LineInv, Reading, [LineNext]_allVars
  PROVE  Reading'
<1>1. CASE SetOption
  BY <1>1, SetOptionReads
<1>2. CASE AddTags \/ SetTagSwitch
  BY <1>2, TagFlagReads
<1>3. CASE Usage
  <2>1. /\ Parsing /\ Wrong(args[next]) /\ phase' = "usage"
        /\ args' = args /\ next' = next /\ options' = options /\ warnings' = {}
    BY <1>3 DEF Usage, To, Parsing, Reading, Read
  <2>2. next \in FlagsRead
    <3>1. \A i \in 1..(next - 1) : args[i][1] # Word
      BY DEF Reading
    <3>2. Len(args) \in Nat /\ DOMAIN args = 1..Len(args)
      BY LineTyped DEF LineInv
    <3>3. \A i \in 1..next : i \in 1..(next - 1) \/ i = next
      BY <2>1, <3>2 DEF Parsing
    <3> QED
      BY <2>1, <3>1, <3>2, <3>3 DEF Parsing, FlagsRead
  <2>3. (\E i \in FlagsRead : Wrong(args[i]))'
    BY <2>1, <2>2, SameArguments
  <2>4. "usage" \in Phases
    BY DEF Phases
  <2> QED
    BY <2>1, <2>3, <2>4 DEF Reading, Read
<1>4. CASE Verify
  <2>1. /\ args' = args /\ next' = next /\ phase' \in {"refused", "connect"}
        /\ options' = options \/ options' = Filled \/ \E value : options' = [Filled EXCEPT !["v"] = value]
    BY <1>4 DEF Verify, To
  <2>2. options' = [flag \in Options |-> options'[flag]]
    BY <2>1, OptionsTyped DEF Reading
  <2>3. {"refused", "connect"} \subseteq Phases
    BY DEF Phases
  <2> QED
    BY <2>1, <2>2, <2>3 DEF Reading, Read
<1>5. CASE \/ EndParse \/ Resolve \/ WarnLegacy \/ WarnRecorder \/ WarnGorm
           \/ AfterNewArgs \/ VerifyPanics \/ Connect \/ NewApp
  <2>1. /\ args' = args /\ next' = next /\ options' = options
        /\ phase' \in Phases \ {"parse", "usage", "library"}
    BY <1>5 DEF EndParse, Resolve, WarnLegacy, WarnRecorder, WarnGorm, WarnWithout, AfterNewArgs,
                VerifyPanics, Connect, NewApp, To, Phases
  <2> QED
    BY <2>1 DEF Reading, Read
<1>6. CASE OtherConfigures \/ OtherResolves \/ OtherAsks
  <2>1. phase = "library" /\ UNCHANGED lineVars
    BY <1>6 DEF OtherConfigures, OtherResolves, OtherAsks
  <2> QED
    BY <2>1 DEF Reading, Read, lineVars
<1>7. CASE UNCHANGED allVars
  <2>1. UNCHANGED lineVars /\ settings' = settings
    BY <1>7 DEF allVars, vars
  <2>2. FlagsRead' = FlagsRead
    BY <2>1, SameArguments DEF lineVars
  <2> QED
    BY <2>1, <2>2 DEF Reading, Read, SoFar, lineVars
<1> QED
  BY <1>1, <1>2, <1>3, <1>4, <1>5, <1>6, <1>7 DEF LineNext

(* The keys that were resolved are those the flags ask for.                *)
LEMMA KeysAskedFor ==
  ASSUME TagsTypeOK, ResolvedFromSettings, AfterRead, Read, phase # "resolve", NEW key \in Key
  PROVE  Has(key) <=> FlagsAskFor(key)
<1> DEFINE list == Held(tags, heap)
<1>1. current /\ loop = 0 /\ settings = FinalSettings /\ settings \in SettingsType
  BY DEF AfterRead, TagsTypeOK
<1>2. Exactly(list)
  BY <1>1 DEF ResolvedFromSettings
<1>3. DOMAIN list = 1..tags.len /\ \A i \in 1..tags.len : list[i] = heap[tags.array][i]
  BY DEF Held
<1>4. Has(key) <=> \E i \in DOMAIN list : list[i] = key
  BY <1>3 DEF Has
<1>5. Has(key) <=> ~Forbidden(key) /\ \E p \in DOMAIN Asked : Asked[p] = key
  <2> HIDE DEF list
  <2> QED
    BY <1>2, <1>4 DEF Exactly
<1>6. key # NoKey /\ structable # NoKey /\ db # NoKey /\ db # structable
  BY KeyAssumption
<1>7. /\ settings.noDb = On("tags-no-db") /\ settings.structable = On("tags-structable")
      /\ settings.only = On("tags-structable-only") /\ settings.tags = AllOf("tag")
  BY <1>1 DEF FinalSettings
<1>8. CASE settings.only
  <2>1. Asked = <<structable>> /\ DOMAIN <<structable>> = {1} /\ <<structable>>[1] = structable
    BY <1>8 DEF Asked
  <2> QED
    BY <1>5, <1>6, <1>7, <1>8, <2>1 DEF Forbidden, FlagsAskFor
<1>9. CASE ~settings.only
  <2> DEFINE legacy == IF settings.structable THEN <<structable>> ELSE <<>>
             named  == [i \in DOMAIN settings.tags |-> KeyOf[settings.tags[i]]]
  <2>1. Asked = (<<db>> \o legacy) \o named
    BY <1>9 DEF Asked, Values
  <2>2. settings.tags \in Seq(Value) /\ DOMAIN settings.tags = 1..Len(settings.tags) /\ Len(settings.tags) \in Nat
    BY <1>1, LenProperties DEF SettingsType
  <2>3. named \in Seq(Keys) /\ Len(named) = Len(settings.tags)
    BY <2>2, KeyOfAssumption DEF Keys
  <2>4. <<db>> \in Seq(Keys) /\ legacy \in Seq(Keys)
    <3>1. db \in Keys /\ structable \in Keys
      BY KeyAssumption DEF Keys
    <3>2. <<db>> \in Seq(Keys) /\ <<structable>> \in Seq(Keys) /\ <<>> \in Seq(Keys)
      BY <3>1
    <3> QED
      BY <3>2
  <2>5. (\E p \in DOMAIN Asked : Asked[p] = key)
          <=> key = db \/ (settings.structable /\ key = structable) \/ \E i \in DOMAIN named : named[i] = key
    <3> DEFINE one  == <<db>>
               both == one \o legacy
    <3>1. key \in Range(one) <=> key = db
      BY DEF Range
    <3>2. key \in Range(legacy) <=> settings.structable /\ key = structable
      BY DEF Range
    <3>3. one \in Seq(Keys) /\ Asked = both \o named
      BY <2>1, <2>4
    <3> HIDE DEF one, legacy, named
    <3>4. both \in Seq(Keys)
      BY <2>4, <3>3, ConcatProperties
    <3>5. Range(both) = Range(one) \cup Range(legacy)
      BY <2>4, <3>3, RangeConcatenation
    <3> HIDE DEF both
    <3>6. Range(both \o named) = Range(both) \cup Range(named)
      BY <2>3, <3>4, RangeConcatenation
    <3>7. key \in Range(Asked) <=> \E p \in DOMAIN Asked : Asked[p] = key
      BY DEF Range
    <3>8. key \in Range(named) <=> \E i \in DOMAIN named : named[i] = key
      BY DEF Range
    <3>9. key \in Range(Asked)
            <=> key \in Range(one) \/ key \in Range(legacy) \/ key \in Range(named)
      BY <3>3, <3>5, <3>6
    <3> HIDE DEF Asked
    <3> QED
      BY <3>1, <3>2, <3>7, <3>8, <3>9, Zenon
  <2>6. (\E i \in DOMAIN named : named[i] = key)
          <=> \E i \in DOMAIN AllOf("tag") : KeyOf[AllOf("tag")[i]] = key
    BY <1>7
  <2>7. FlagsAskFor(key) <=>
          \/ key = db /\ ~settings.noDb
          \/ key = structable /\ settings.structable
          \/ key # db /\ \E i \in DOMAIN named : named[i] = key
    BY <1>7, <1>9, <2>6 DEF FlagsAskFor
  <2>8. Forbidden(key) <=> settings.noDb /\ key = db
    BY <1>6, <1>9 DEF Forbidden
  <2>9. settings.noDb \in BOOLEAN /\ settings.structable \in BOOLEAN
    BY <1>1 DEF SettingsType
  <2> HIDE DEF named, legacy
  <2>10. CASE key = db
    BY <1>5, <1>6, <2>5, <2>7, <2>8, <2>9, <2>10
  <2>11. CASE key # db
    BY <1>5, <2>5, <2>7, <2>8, <2>9, <2>11
  <2> QED
    BY <2>10, <2>11
<1> QED
  BY <1>8, <1>9

LEMMA AfterReadStep ==
  ASSUME LineInv, Reading, AfterRead, TagsTypeOK, [LineNext]_allVars
  PROVE  AfterRead'
<1>1. CASE EndParse
  <2>1. args' = args /\ options' = options /\ settings' = settings /\ phase' = "resolve"
    BY <1>1 DEF EndParse, To, vars
  <2>2. /\ \A i \in FlagsRead : ~Wrong(args[i])
        /\ settings = FinalSettings /\ options = FinalOptions
    BY <1>1, EndOfFlags
  <2>3. FlagsRead' = FlagsRead /\ FinalSettings' = FinalSettings /\ FinalOptions' = FinalOptions
    BY <2>1, SameArguments
  <2> QED
    BY <2>1, <2>2, <2>3 DEF AfterRead, Verified
<1>2. ASSUME args' = args, settings' = settings, options' = options, Read,
             phase' # "resolve" => current' /\ loop' = 0,
             \/ phase' = phase
             \/ phase' \notin {"refused"} \cup {"connect", "down", "app", "done"} /\ ~Verified /\ phase # "refused"
             \/ phase = "verify" /\ phase' = "refused"
             \/ Verified /\ Verified'
      PROVE  AfterRead'
  <2>1. /\ FlagsRead' = FlagsRead /\ FinalSettings' = FinalSettings /\ FinalOptions' = FinalOptions
        /\ FilledIn' = FilledIn /\ VerifiedOptions' = VerifiedOptions
    BY <1>2, SameArguments
  <2> QED
    BY <1>2, <2>1 DEF AfterRead, Verified
<1>3. CASE Resolve
  <2>1. /\ args' = args /\ options' = options /\ settings' = settings /\ phase = "resolve"
        /\ phase' = IF loop' = 0 THEN "legacy" ELSE "resolve"
        /\ ResolveTags
    BY <1>3 DEF Resolve, To, ResolveTags, ResolveOnly, BeginResolve, AddNext, EndResolve
  <2>2. loop' = 0 => current'
    <3>1. CASE ResolveOnly \/ EndResolve
      BY <3>1 DEF ResolveOnly, EndResolve
    <3>2. CASE BeginResolve
      BY <3>2 DEF BeginResolve
    <3>3. CASE AddNext
      <4>1. loop \in DOMAIN Values /\ loop' = loop + 1
        BY <3>3 DEF AddNext
      <4>2. DOMAIN Values = 1..Len(Values) /\ Len(Values) \in Nat
        BY ValuesTyped, LenProperties DEF TagsTypeOK
      <4> QED
        BY <4>1, <4>2
    <3> QED
      BY <2>1, <3>1, <3>2, <3>3 DEF ResolveTags
  <2> QED
    BY <1>2, <2>1, <2>2 DEF Read, Verified
<1>4. CASE WarnLegacy \/ AfterNewArgs \/ VerifyPanics \/ Connect
  <2>1. /\ args' = args /\ options' = options /\ settings' = settings
        /\ current' = current /\ loop' = loop
    BY <1>4 DEF WarnLegacy, AfterNewArgs, VerifyPanics, Connect, To, vars
  <2>2. \/ phase \in {"legacy", "run", "verify"} /\ phase' \in {"recorder", "help", "version", "verify", "panic"}
        \/ phase = "connect" /\ phase' \in {"down", "app"}
    BY <1>4 DEF WarnLegacy, AfterNewArgs, VerifyPanics, Connect, To
  <2>3. Read /\ phase # "resolve"
    BY <2>2 DEF Read
  <2>4. current /\ loop = 0
    BY <2>3 DEF AfterRead
  <2> QED
    BY <1>2, <2>1, <2>2, <2>3, <2>4 DEF Verified
<1>5. CASE WarnRecorder \/ WarnGorm \/ NewApp
  <2>1. /\ args' = args /\ options' = options
        /\ settings' = settings /\ current' = current /\ loop' = loop
    BY <1>5 DEF WarnRecorder, WarnGorm, WarnWithout, NewApp, To, ResolvedTags, vars
  <2>2. \/ phase = "recorder" /\ phase' = "gorm"
        \/ phase = "gorm" /\ phase' = "run"
        \/ phase = "app" /\ phase' = "done"
    BY <1>5 DEF WarnRecorder, WarnGorm, NewApp, To
  <2>3. Read /\ phase # "resolve"
    BY <2>2 DEF Read
  <2>4. current /\ loop = 0
    BY <2>3 DEF AfterRead
  <2> QED
    BY <1>2, <2>1, <2>2, <2>3, <2>4 DEF Verified
<1>6. CASE Verify
  <2>1. /\ args' = args /\ settings' = settings /\ current' = current /\ loop' = loop /\ phase = "verify"
    BY <1>6 DEF Verify, To, vars
  <2>2. Read /\ phase # "resolve" /\ phase # "refused" /\ ~Verified
    BY <2>1 DEF Read, Verified
  <2>3. current /\ loop = 0 /\ options = FinalOptions
    BY <2>2 DEF AfterRead
  <2>4. Filled = FilledIn
    <3>1. options["t"] = Final("t")
      BY <2>3 DEF FinalOptions, Options, Flags, ChoiceFlags, TagSwitches
    <3> QED
      BY <2>3, <3>1 DEF Filled, FilledIn
  <2>5. options["vv"] = "true" <=> On("vv")
    <3>1. options["vv"] = Final("vv")
      BY <2>3 DEF FinalOptions, Options, Flags, Switches, TagSwitches
    <3> QED
      BY <3>1 DEF On
  <2>6. [Filled EXCEPT !["v"] = IF options["vv"] = "true" THEN "true" ELSE @] = VerifiedOptions
    BY <2>4, <2>5 DEF VerifiedOptions
  <2>7. \/ phase' = "refused" /\ options' = options
        \/ phase' = "refused" /\ options' = Filled
        \/ phase' = "connect" /\ options' = [Filled EXCEPT !["v"] = IF options["vv"] = "true" THEN "true" ELSE @]
    BY <1>6 DEF Verify, To
  <2>8. \/ phase' = "refused" /\ options' \in {FinalOptions, FilledIn}
        \/ phase' = "connect" /\ options' = VerifiedOptions
    BY <2>3, <2>4, <2>6, <2>7
  <2>9. /\ FlagsRead' = FlagsRead /\ FinalSettings' = FinalSettings /\ FinalOptions' = FinalOptions
        /\ FilledIn' = FilledIn /\ VerifiedOptions' = VerifiedOptions
    BY <2>1, SameArguments
  <2> QED
    BY <2>1, <2>2, <2>3, <2>8, <2>9 DEF AfterRead, Read, Verified
<1>7. CASE SetOption \/ AddTags \/ SetTagSwitch \/ Usage \/ OtherConfigures \/ OtherResolves \/ OtherAsks
  <2>1. phase' \in {"parse", "usage", "library"}
    BY <1>7 DEF SetOption, AddTags, SetTagSwitch, Usage, Parsing, To, OtherConfigures, OtherResolves,
                OtherAsks, lineVars
  <2> QED
    BY <2>1 DEF AfterRead, Read
<1>8. CASE UNCHANGED allVars
  <2>1. /\ args' = args /\ settings' = settings /\ options' = options /\ phase' = phase
        /\ current' = current /\ loop' = loop
    BY <1>8 DEF allVars, vars, lineVars
  <2>2. CASE Read
    BY <1>2, <2>1, <2>2 DEF AfterRead
  <2>3. CASE ~Read
    BY <2>1, <2>3 DEF AfterRead, Read
  <2> QED
    BY <2>2, <2>3
<1> QED
  BY <1>1, <1>3, <1>4, <1>5, <1>6, <1>7, <1>8 DEF LineNext

(* Warnings and refusals go by what the flags ask for.                     *)
LEMMA OptionIsFinal ==
  ASSUME AfterRead, Read, phase # "refused", ~Verified, NEW flag \in Options \ {"table"}
  PROVE  options[flag] = Final(flag)
BY DEF AfterRead, FinalOptions

LEMMA WarnedStep ==
  ASSUME LineInv, Reading, AfterRead, WarnedSoFar, TagsTypeOK, ResolvedFromSettings, [LineNext]_allVars
  PROVE  WarnedSoFar'
<1> USE DEF WarningNames
<1>1. CASE EndParse
  BY <1>1 DEF EndParse, To, WarnedSoFar, Reading, Read
<1>2. CASE WarnLegacy
  <2>1. /\ args' = args /\ phase = "legacy" /\ phase' = "recorder" /\ Read
        /\ warnings' = IF settings.structable \/ settings.only THEN {"legacy"} ELSE {}
    BY <1>2 DEF WarnLegacy, Read
  <2>2. settings.structable = On("tags-structable") /\ settings.only = On("tags-structable-only")
    BY <2>1 DEF AfterRead, FinalSettings
  <2>3. (On("tags-structable") \/ On("tags-structable-only"))' = (On("tags-structable") \/ On("tags-structable-only"))
    BY <2>1, SameArguments
  <2> QED
    BY <2>1, <2>2, <2>3 DEF WarnedSoFar, On
<1>3. CASE WarnRecorder
  <2>1. /\ args' = args /\ phase = "recorder" /\ phase' = "gorm" /\ Read /\ phase # "resolve"
        /\ phase # "refused" /\ ~Verified
        /\ warnings' = IF options["structable-recorder"] = "true" /\ ~Has(structable)
                       THEN warnings \cup {"structable-recorder"} ELSE warnings
    BY <1>3 DEF WarnRecorder, WarnWithout, Contained, Read, Verified
  <2>2. Has(structable) <=> FlagsAskFor(structable)
    BY <2>1, KeysAskedFor, KeyAssumption
  <2>3. options["structable-recorder"] = "true" <=> On("structable-recorder")
    BY <2>1, OptionIsFinal DEF On, Options, Flags, Switches, TagSwitches
  <2>4. \A flag : On(flag)' = On(flag)
    BY <2>1, SameArguments
  <2>5. \A key : FlagsAskFor(key)' = FlagsAskFor(key)
    BY <2>1, SameArguments
  <2> HIDE DEF WarningNames
  <2>6. "structable-recorder" \in WarningNames
    BY DEF WarningNames
  <2> QED
    BY <2>1, <2>2, <2>3, <2>4, <2>5, <2>6 DEF WarnedSoFar
<1>4. CASE WarnGorm
  <2>1. /\ args' = args /\ phase = "gorm" /\ phase' = "run" /\ Read /\ phase # "resolve"
        /\ phase # "refused" /\ ~Verified
        /\ warnings' = IF options["gorm-model"] = "true" /\ ~Has(gorm)
                       THEN warnings \cup {"gorm-model"} ELSE warnings
    BY <1>4 DEF WarnGorm, WarnWithout, Contained, Read, Verified
  <2>2. Has(gorm) <=> FlagsAskFor(gorm)
    BY <2>1, KeysAskedFor, BadKeyAssumption
  <2>3. options["gorm-model"] = "true" <=> On("gorm-model")
    BY <2>1, OptionIsFinal DEF On, Options, Flags, Switches, TagSwitches
  <2>4. \A flag : On(flag)' = On(flag)
    BY <2>1, SameArguments
  <2>5. \A key : FlagsAskFor(key)' = FlagsAskFor(key)
    BY <2>1, SameArguments
  <2> HIDE DEF WarningNames
  <2>6. "gorm-model" \in WarningNames
    BY DEF WarningNames
  <2> QED
    BY <2>1, <2>2, <2>3, <2>4, <2>5, <2>6 DEF WarnedSoFar
<1>5. ASSUME args' = args, warnings' = warnings, Read,
             \/ phase' = phase
             \/ phase = "resolve" /\ phase' = "legacy"
             \/ /\ phase \notin {"resolve", "legacy", "recorder", "gorm"}
                /\ phase' \notin {"resolve", "legacy", "recorder", "gorm"}
      PROVE  WarnedSoFar'
  <2>1. \A flag : On(flag)' = On(flag)
    BY <1>5, SameArguments
  <2>2. \A key : FlagsAskFor(key)' = FlagsAskFor(key)
    BY <1>5, SameArguments
  <2> HIDE DEF WarningNames
  <2> QED
    BY <1>5, <2>1, <2>2 DEF WarnedSoFar
<1>6. CASE Resolve \/ AfterNewArgs \/ VerifyPanics \/ Verify \/ Connect \/ NewApp
  <2>1. /\ args' = args /\ warnings' = warnings
        /\ \/ phase = "resolve" /\ phase' \in {"resolve", "legacy"}
           \/ /\ phase \in {"run", "verify", "connect", "app"}
              /\ phase' \in {"help", "version", "verify", "panic", "refused", "connect", "down", "app", "done"}
    BY <1>6 DEF Resolve, AfterNewArgs, VerifyPanics, Verify, Connect, NewApp, To
  <2>2. Read
    BY <2>1 DEF Read
  <2> QED
    BY <1>5, <2>1, <2>2
<1>7. CASE SetOption \/ AddTags \/ SetTagSwitch \/ Usage \/ OtherConfigures \/ OtherResolves \/ OtherAsks
  <2>1. phase' \in {"parse", "usage", "library"}
    BY <1>7 DEF SetOption, AddTags, SetTagSwitch, Usage, Parsing, To, OtherConfigures, OtherResolves,
                OtherAsks, lineVars
  <2> QED
    BY <2>1 DEF WarnedSoFar, Read
<1>8. CASE UNCHANGED allVars
  <2>1. args' = args /\ warnings' = warnings /\ phase' = phase
    BY <1>8 DEF allVars, lineVars
  <2>2. CASE Read
    BY <1>5, <2>1, <2>2
  <2>3. CASE ~Read
    BY <2>1, <2>3 DEF WarnedSoFar, Read
  <2> QED
    BY <2>2, <2>3
<1> QED
  BY <1>1, <1>2, <1>3, <1>4, <1>6, <1>7, <1>8 DEF LineNext

LEMMA RefusedStep ==
  ASSUME LineInv, Reading, AfterRead, RefusedRightly, TagsTypeOK, ResolvedFromSettings,
         [LineNext]_allVars
  PROVE  RefusedRightly'
<1>1. ASSUME args' = args
      PROVE  Unusable' = Unusable
  <2>1. \A flag : Final(flag)' = Final(flag)
    BY <1>1, SameArguments
  <2>2. \A key : FlagsAskFor(key)' = FlagsAskFor(key)
    BY <1>1, SameArguments
  <2> QED
    BY <2>1, <2>2 DEF Unusable
<1>2. CASE Verify
  <2>1. phase = "verify" /\ args' = args
    BY <1>2 DEF Verify, To
  <2>2. Read /\ phase # "resolve" /\ phase # "refused" /\ ~Verified
    BY <2>1 DEF Read, Verified
  <2>3. options["of"] = Final("of") /\ options["pn"] = Final("pn")
    BY <2>2, OptionIsFinal DEF Options, Flags, TextFlags, TagSwitches
  <2>4. Filled["pn"] = options["pn"]
    BY DEF Filled, Reading, Options, Flags, TextFlags, TagSwitches
  <2>5. \A key \in BadKey : Has(key) <=> FlagsAskFor(key)
    BY <2>2, KeysAskedFor, BadKeyAssumption
  <2>6. Validate <=> \A key \in BadKey : ~FlagsAskFor(key)
    BY <2>5 DEF Validate
  <2>7. Unusable <=> ~(options["of"] = "directory" /\ Filled["pn"] # <<>> /\ Validate)
    BY <2>3, <2>4, <2>6 DEF Unusable
  <2>8. phase' = IF options["of"] = "directory" /\ Filled["pn"] # <<>> /\ Validate
                 THEN "connect" ELSE "refused"
    BY <1>2 DEF Verify, To
  <2> HIDE DEF Filled, Validate
  <2> QED
    BY <1>1, <2>1, <2>7, <2>8 DEF RefusedRightly, Verified
<1>3. ASSUME phase' = phase \/ phase' \notin {"refused", "connect", "down", "app", "done"}
             \/ (Verified /\ Verified'), args' = args
      PROVE  RefusedRightly'
  BY <1>1, <1>3 DEF RefusedRightly, Verified
<1>4. CASE \/ SetOption \/ AddTags \/ SetTagSwitch \/ Usage \/ EndParse \/ Resolve \/ WarnLegacy
           \/ WarnRecorder \/ WarnGorm \/ AfterNewArgs \/ VerifyPanics
  <2>1. args' = args /\ phase' \notin {"refused", "connect", "down", "app", "done"}
    BY <1>4 DEF SetOption, AddTags, SetTagSwitch, Usage, EndParse, Resolve, WarnLegacy,
                WarnRecorder, WarnGorm, AfterNewArgs, VerifyPanics, Parsing, To
  <2> QED
    BY <1>3, <2>1
<1>5. CASE Connect \/ NewApp
  <2>1. args' = args /\ Verified /\ Verified'
    BY <1>5 DEF Connect, NewApp, To, Verified
  <2> QED
    BY <1>3, <2>1
<1>6. CASE OtherConfigures \/ OtherResolves \/ OtherAsks \/ UNCHANGED allVars
  <2>1. args' = args /\ phase' = phase
    BY <1>6 DEF OtherConfigures, OtherResolves, OtherAsks, lineVars, allVars
  <2> QED
    BY <1>3, <2>1
<1> QED
  BY <1>2, <1>4, <1>5, <1>6 DEF LineNext

(* The connection is what the driver reads of the options.                 *)
LEMMA AsksStep ==
  ASSUME Reading, Asks, [LineNext]_allVars
  PROVE  Asks'
<1>1. CASE Connect
  BY <1>1 DEF Connect, Asks, Reads
<1>2. CASE NewApp
  <2>1. phase = "app" /\ conn' = conn /\ options' = options
    BY <1>2 DEF NewApp, To
  <2>2. conn = Reads(options)
    BY <2>1 DEF Asks
  <2>3. Reads(options)' = Reads(options)
    BY <2>1 DEF Reads
  <2> QED
    BY <2>1, <2>2, <2>3 DEF Asks
<1>3. CASE \/ SetOption \/ AddTags \/ SetTagSwitch \/ Usage \/ EndParse \/ Resolve \/ WarnLegacy
           \/ WarnRecorder \/ WarnGorm \/ AfterNewArgs \/ VerifyPanics \/ Verify
  <2>1. phase' \notin {"down", "app", "done"}
    BY <1>3 DEF SetOption, AddTags, SetTagSwitch, Usage, EndParse, Resolve, WarnLegacy,
                WarnRecorder, WarnGorm, AfterNewArgs, VerifyPanics, Verify, Parsing, To
  <2> QED
    BY <2>1 DEF Asks
<1>4. CASE OtherConfigures \/ OtherResolves \/ OtherAsks \/ UNCHANGED allVars
  <2>1. phase' = phase /\ conn' = conn /\ options' = options
    BY <1>4 DEF OtherConfigures, OtherResolves, OtherAsks, lineVars, allVars
  <2>2. Reads(options)' = Reads(options)
    BY <2>1 DEF Reads
  <2> QED
    BY <2>1, <2>2 DEF Asks
<1> QED
  BY <1>1, <1>2, <1>3, <1>4 DEF LineNext

LEMMA LineInvariantInit ==
  ASSUME LineInit
  PROVE  LineInv /\ Reading /\ AfterRead /\ WarnedSoFar /\ RefusedRightly /\ Asks
<1>1. /\ args \in CommandLines /\ next = 1 /\ warnings = {}
      /\ options = [flag \in Options |-> Default(flag)]
      /\ phase \in {"parse", "library"}
      /\ settings = [noDb |-> FALSE, structable |-> FALSE, only |-> FALSE, tags |-> <<>>]
  BY DEF LineInit, Init
<1>2. LineInv
  BY DEF LineInit, LineInv, Init, SettingsType
<1>3. Len(args) \in Nat
  BY <1>1, LineTyped
<1>4. \A flag : SetBefore(args, 1, flag, Default(flag))
  BY DEF SetBefore
<1>5. \A flag : AllBefore(args, 1, flag) = <<>>
  <2> SUFFICES ASSUME NEW flag PROVE AllBefore(args, 1, flag) = <<>>
    OBVIOUS
  <2>1. [i \in 1..(1 - 1) |-> Parts(args, flag)[i]] = <<>>
    OBVIOUS
  <2>2. <<>> \in Seq(Seq({})) /\ Len(<<>>) = 0
    BY EmptySeq
  <2>3. FlattenSeq(<<>>) = <<>>
    BY <2>2, JoinedSteps
  <2> QED
    BY <2>1, <2>3 DEF AllBefore
<1>6. Reading
  <2>1. \A flag \in Options : options[flag] = Default(flag)
    BY <1>1
  <2>2. "table" \in Options /\ Default("table") = <<>>
    BY DEF Options, Flags, ListFlags, TagSwitches, Default, Switches
  <2>3. \A flag \in TagSwitches : Default(flag) = "false"
    BY DEF Default, Switches, TagSwitches
  <2>4. {"tags-no-db", "tags-structable", "tags-structable-only"} = TagSwitches
    BY DEF TagSwitches
  <2> HIDE DEF Default
  <2>5. SoFar(1)
    <3>1. \A flag \in TagSwitches : SetBefore(args, 1, flag, "false")
      BY <1>4, <2>3
    <3> QED
      BY <1>1, <1>4, <1>5, <2>1, <2>2, <2>4, <3>1 DEF SoFar
  <2>6. {"parse", "library"} \subseteq Phases
    BY DEF Phases
  <2> QED
    BY <1>1, <1>3, <2>5, <2>6 DEF Reading, Read
<1> QED
  BY <1>1, <1>2, <1>6 DEF AfterRead, WarnedSoFar, RefusedRightly, Asks, Read, Verified

LineInvariant == LineInv /\ Reading /\ AfterRead /\ WarnedSoFar /\ RefusedRightly /\ Asks

LEMMA LineInvariantHolds == LineSpec => []LineInvariant
<1>1. LineInit => LineInvariant
  BY LineInvariantInit DEF LineInvariant
<1>2. LineInvariant /\ TagsTypeOK /\ ResolvedFromSettings /\ [LineNext]_allVars => LineInvariant'
  BY LineStep, ReadingStep, AfterReadStep, WarnedStep, RefusedStep, AsksStep DEF LineInvariant
<1>3. LineSpec => [](TagsTypeOK /\ ResolvedFromSettings)
  BY TagsWithinCommandLine, TagsTypeCorrect, ResolvedRightly, PTL
<1> QED
  BY <1>1, <1>2, <1>3, PTL DEF LineSpec

(* No step takes the program where the types of the settings end.          *)
THEOREM LineTypeCorrect == LineSpec => []LineTypeOK
<1>1. LineInvariant /\ TagsTypeOK => LineTypeOK
  <2> SUFFICES ASSUME LineInvariant, TagsTypeOK PROVE LineTypeOK
    OBVIOUS
  <2>1. args \in CommandLines /\ next \in 1..(Len(args) + 1) /\ phase \in Phases
    BY DEF LineInvariant, LineInv, Reading
  <2>2. options = [flag \in Options |-> options[flag]]
    BY DEF LineInvariant, Reading
  <2>3. DOMAIN options = Options
    BY <2>2
  <2>4. warnings \subseteq WarningNames
    BY DEF LineInvariant, Reading, WarnedSoFar
  <2> QED
    BY <2>1, <2>3, <2>4 DEF LineTypeOK
<1>2. LineSpec => []TagsTypeOK
  BY TagsWithinCommandLine, TagsTypeCorrect, PTL
<1> QED
  BY <1>1, <1>2, LineInvariantHolds, PTL

(* Verify refuses what would go wrong later and nothing else.              *)
THEOREM LineRefusedRightly == LineSpec => []RefusedRightly
<1>1. LineInvariant => RefusedRightly
  BY DEF LineInvariant
<1> QED
  BY <1>1, LineInvariantHolds, PTL

(* The three warnings are printed if they are called for, and only then.   *)
THEOREM LineWarningsAreRight == LineSpec => []WarningsAreRight
<1>1. LineInvariant => WarningsAreRight
  BY DEF LineInvariant, WarnedSoFar, WarningsAreRight
<1> QED
  BY <1>1, LineInvariantHolds, PTL

(* The settings that are filled in, one by one.                            *)
LEMMA ValuesOfOptions ==
  /\ {"table", "port", "sslmode", "v"} \subseteq Options
  /\ \A flag \in Options : FinalOptions[flag] = IF flag = "table" THEN AllOf("table") ELSE Final(flag)
  /\ \A flag \in Options :
       FilledIn[flag] = IF flag = "port" THEN OrElse(Final("port"), DefaultPort(Final("t")))
                        ELSE IF flag = "sslmode" THEN OrElse(Final("sslmode"), <<"disable">>)
                        ELSE FinalOptions[flag]
  /\ \A flag \in Options :
       VerifiedOptions[flag] = IF flag = "v" THEN IF On("vv") THEN "true" ELSE FilledIn["v"]
                               ELSE FilledIn[flag]
<1>1. /\ \A flag \in Options : FinalOptions[flag] = IF flag = "table" THEN AllOf("table") ELSE Final(flag)
      /\ DOMAIN FinalOptions = Options
  BY DEF FinalOptions
<1>2. {"table", "port", "sslmode", "v"} \subseteq Options
  BY DEF Options, Flags, TextFlags, ListFlags, Switches, TagSwitches
<1>3. FinalOptions = [flag \in Options |-> FinalOptions[flag]]
  BY DEF FinalOptions
<1> HIDE DEF FinalOptions
<1>4. \A flag \in Options :
        FilledIn[flag] = IF flag = "port" THEN OrElse(Final("port"), DefaultPort(Final("t")))
                         ELSE IF flag = "sslmode" THEN OrElse(Final("sslmode"), <<"disable">>)
                         ELSE FinalOptions[flag]
  BY <1>1, <1>2, <1>3 DEF FilledIn
<1>5. FilledIn = [flag \in Options |-> FilledIn[flag]]
  BY <1>3 DEF FilledIn
<1> HIDE DEF FilledIn
<1>6. \A flag \in Options :
        VerifiedOptions[flag] = IF flag = "v" THEN IF On("vv") THEN "true" ELSE FilledIn["v"]
                                ELSE FilledIn[flag]
  BY <1>2, <1>5 DEF VerifiedOptions
<1> HIDE DEF VerifiedOptions
<1> QED
  BY <1>1, <1>2, <1>4, <1>6

(* What the settings are once the flags are read, and are for good, is     *)
(* what the arguments say as a whole.                                      *)
THEOREM LineEveryFlagCounts == LineSpec => []EveryFlagCounts
<1>1. LineInvariant => EveryFlagCounts
  <2> SUFFICES ASSUME LineInvariant PROVE EveryFlagCounts
    OBVIOUS
  <2>1. phase = "usage" => \E i \in FlagsRead : Wrong(args[i])
    BY DEF LineInvariant, Reading
  <2>2. /\ \A flag \in Options : FinalOptions[flag] = IF flag = "table" THEN AllOf("table") ELSE Final(flag)
        /\ {"table", "port", "sslmode", "v"} \subseteq Options
    BY ValuesOfOptions
  <2>5. \A flag \in Options :
          FilledIn[flag] = IF flag = "port" THEN OrElse(Final("port"), DefaultPort(Final("t")))
                           ELSE IF flag = "sslmode" THEN OrElse(Final("sslmode"), <<"disable">>)
                           ELSE FinalOptions[flag]
    BY ValuesOfOptions
  <2>7. \A flag \in Options :
          VerifiedOptions[flag] = IF flag = "v" THEN IF On("vv") THEN "true" ELSE FilledIn["v"]
                                  ELSE FilledIn[flag]
    BY ValuesOfOptions
  <2>8. ASSUME Read
        PROVE  /\ \A i \in FlagsRead : ~Wrong(args[i])
               /\ \A flag \in Options \ {"table", "port", "sslmode", "v"} : options[flag] = Final(flag)
               /\ options["table"] = AllOf("table")
               /\ \A flag \in {"port", "sslmode"} : options[flag] # Final(flag) => Final(flag) = <<>>
               /\ settings = FinalSettings
    <3>1. /\ \A i \in FlagsRead : ~Wrong(args[i])
          /\ settings = FinalSettings /\ options \in {FinalOptions, FilledIn, VerifiedOptions}
      BY <2>8 DEF LineInvariant, AfterRead
    <3> QED
      BY <2>2, <2>5, <2>7, <3>1 DEF OrElse
  <2>9. ASSUME Verified
        PROVE  /\ options["v"] = "true" <=> On("v") \/ On("vv")
               /\ options["sslmode"] # <<>>
    <3>1. Read
      BY <2>9 DEF Verified, Read
    <3>2. options = VerifiedOptions
      BY <2>9, <3>1 DEF LineInvariant, AfterRead
    <3>3. options["v"] = IF On("vv") THEN "true" ELSE Final("v")
      BY <2>2, <2>5, <2>7, <3>2
    <3>4. options["sslmode"] = OrElse(Final("sslmode"), <<"disable">>)
      BY <2>2, <2>5, <2>7, <3>2
    <3> QED
      BY <3>3, <3>4 DEF OrElse, On
  <2> QED
    BY <2>1, <2>8, <2>9 DEF EveryFlagCounts, FinalSettings
<1> QED
  BY <1>1, LineInvariantHolds, PTL

(* The values that reach the data source name are texts.                   *)
LEMMA Defaults ==
  /\ \A flag \in {"u", "p", "d", "h", "port", "sslmode", "socket"} : Default(flag) \in Seq(Symbol)
  /\ Default("t") \in Supported("t")
  /\ \A word \in {"postgres", "root", "5432", "3306", "disable"} : <<word>> \in Seq(Symbol)
<1>1. \A word \in Symbol : <<word>> \in Seq(Symbol)
  OBVIOUS
<1>2. {"postgres", "root", "5432", "3306", "disable", "127.0.0.1"} \subseteq Symbol
  BY WordsAssumption, SymbolAssumption
<1>3. \A word \in {"postgres", "root", "5432", "3306", "disable"} : <<word>> \in Seq(Symbol)
  BY <1>1, <1>2
<1>4. Default("d") \in Seq(Symbol)
  <2>1. "postgres" \in Symbol
    BY <1>2
  <2>2. Default("d") = <<"postgres">>
    BY DEF Default, Switches, TagSwitches
  <2> QED
    BY <1>1, <2>1, <2>2
<1>5. Default("h") \in Seq(Symbol)
  <2>1. "127.0.0.1" \in Symbol
    BY <1>2
  <2>2. Default("h") = <<"127.0.0.1">>
    BY DEF Default, Switches, TagSwitches
  <2> QED
    BY <1>1, <2>1, <2>2
<1>6. \A flag \in {"u", "p", "port", "sslmode", "socket"} : Default(flag) \in Seq(Symbol)
  <2>1. <<>> \in Seq(Symbol)
    BY EmptySeq
  <2>2. \A flag \in {"u", "p", "port", "sslmode", "socket"} : Default(flag) = <<>>
    BY DEF Default, Switches, TagSwitches
  <2> QED
    BY <2>1, <2>2
<1>7. Default("t") \in Supported("t")
  BY DEF Default, Supported, Switches, TagSwitches
<1> QED
  BY <1>3, <1>4, <1>5, <1>6, <1>7

LEMMA FinalTyped ==
  ASSUME args \in CommandLines, \A i \in FlagsRead : ~Wrong(args[i])
  PROVE  /\ \A flag \in {"u", "p", "d", "h", "port", "sslmode", "socket"} : Final(flag) \in Seq(Symbol)
         /\ Final("t") \in {"pg", "mysql", "sqlite3"}
<1>1. /\ Len(args) \in Nat /\ DOMAIN args = 1..Len(args)
      /\ \A i \in 1..Len(args) :
           ~Wrong(args[i]) /\ args[i][1] \in TextFlags \ {"of"} => args[i][2] \in Seq(Symbol)
  BY LineTyped
<1>2. ASSUME NEW flag, Those(flag) # {}
      PROVE  /\ args[Max(Those(flag))][1] = flag /\ ~Wrong(args[Max(Those(flag))])
             /\ Max(Those(flag)) \in 1..Len(args)
  <2>1. Those(flag) \subseteq 0..Len(args)
    BY <1>1 DEF Those, FlagsRead
  <2>2. Max(Those(flag)) \in Those(flag)
    <3> DEFINE S == Those(flag)
    <3>1. S \in SUBSET (0..Len(args)) /\ S # {}
      BY <1>2, <2>1
    <3> HIDE DEF S
    <3>2. Max(S) \in S
      BY <1>1, <3>1, MaxIsGreatest
    <3> QED
      BY <3>2 DEF S
  <2> QED
    BY <1>1, <2>2 DEF Those, FlagsRead
<1>3. ASSUME NEW flag \in {"u", "p", "d", "h", "port", "sslmode", "socket"}
      PROVE  Final(flag) \in Seq(Symbol)
  <2>1. flag \in TextFlags \ {"of"} /\ flag \notin Switches /\ flag \notin ChoiceFlags
    BY DEF TextFlags, Switches, TagSwitches, ChoiceFlags
  <2>2. CASE Those(flag) = {}
    BY <2>2, Defaults DEF Final
  <2>3. CASE Those(flag) # {}
    <3>1. args[Max(Those(flag))][2] \in Seq(Symbol)
      BY <1>1, <1>2, <2>1, <2>3
    <3> QED
      BY <2>1, <2>3, <3>1 DEF Final
  <2> QED
    BY <2>2, <2>3
<1>4. Final("t") \in {"pg", "mysql", "sqlite3"}
  <2>1. "t" \notin Switches /\ "t" \in ChoiceFlags /\ Supported("t") = {"pg", "mysql", "sqlite3"}
    BY DEF Switches, TagSwitches, ChoiceFlags, Supported
  <2>2. CASE Those("t") = {}
    BY <2>1, <2>2, Defaults DEF Final
  <2>3. CASE Those("t") # {}
    <3> DEFINE last == args[Max(Those("t"))]
    <3>1. last[1] = "t" /\ ~Wrong(last)
      BY <1>2, <2>3
    <3> HIDE DEF last
    <3>2. Chosen("t", last[2]) \in Supported("t")
      BY <2>1, <3>1 DEF Wrong
    <3>3. Final("t") = Chosen("t", last[2])
      BY <2>1, <2>3 DEF Final, last
    <3> QED
      BY <2>1, <3>2, <3>3
  <2> QED
    BY <2>2, <2>3
<1> QED
  BY <1>3, <1>4

(* The settings that Connect reads, by the flags they come from.           *)
LEMMA OptionsVerified ==
  ASSUME LineInvariant, phase \in {"down", "app", "done"}
  PROVE  /\ \A flag \in {"t", "u", "p", "d", "h", "socket"} : options[flag] = Final(flag)
         /\ options["port"] = OrElse(Final("port"), DefaultPort(Final("t")))
         /\ options["sslmode"] = OrElse(Final("sslmode"), <<"disable">>)
         /\ conn = Reads(options)
         /\ Final("t") \in {"pg", "mysql", "sqlite3"}
         /\ Texts(options)
<1>1. Read /\ Verified
  BY DEF Read, Verified
<1>2. options = VerifiedOptions /\ \A i \in FlagsRead : ~Wrong(args[i])
  BY <1>1 DEF LineInvariant, AfterRead
<1>3. conn = Reads(options) /\ args \in CommandLines
  BY DEF LineInvariant, Asks, LineInv
<1>4. {"t", "u", "p", "d", "h", "socket", "port", "sslmode"} \subseteq Options \ {"table", "v"}
  BY DEF Options, Flags, TextFlags, ListFlags, Switches, TagSwitches, ChoiceFlags
<1>5. \A flag \in {"t", "u", "p", "d", "h", "socket"} : options[flag] = Final(flag)
  <2> SUFFICES ASSUME NEW flag \in {"t", "u", "p", "d", "h", "socket"} PROVE options[flag] = Final(flag)
    OBVIOUS
  <2>1. flag \in Options /\ flag \notin {"table", "v", "port", "sslmode"}
    BY <1>4
  <2>2. VerifiedOptions[flag] = FilledIn[flag]
    BY <2>1, ValuesOfOptions
  <2>3. FilledIn[flag] = FinalOptions[flag]
    BY <2>1, ValuesOfOptions
  <2>4. FinalOptions[flag] = Final(flag)
    BY <2>1, ValuesOfOptions
  <2> QED
    BY <1>2, <2>2, <2>3, <2>4
<1>6. /\ options["port"] = OrElse(Final("port"), DefaultPort(Final("t")))
      /\ options["sslmode"] = OrElse(Final("sslmode"), <<"disable">>)
  <2>1. /\ VerifiedOptions["port"] = FilledIn["port"]
        /\ VerifiedOptions["sslmode"] = FilledIn["sslmode"]
    BY <1>4, ValuesOfOptions
  <2>2. /\ FilledIn["port"] = OrElse(Final("port"), DefaultPort(Final("t")))
        /\ FilledIn["sslmode"] = OrElse(Final("sslmode"), <<"disable">>)
    BY <1>4, ValuesOfOptions
  <2> QED
    BY <1>2, <2>1, <2>2
<1>7. /\ \A flag \in {"u", "p", "d", "h", "port", "sslmode", "socket"} : Final(flag) \in Seq(Symbol)
      /\ Final("t") \in {"pg", "mysql", "sqlite3"}
  BY <1>2, <1>3, FinalTyped
<1>8. options["port"] \in Text
  <2>1. <<"5432">> \in Seq(Symbol) /\ <<"3306">> \in Seq(Symbol)
    BY Defaults
  <2>2. <<>> \in Seq(Symbol)
    BY EmptySeq
  <2>3. DefaultPort(Final("t")) \in Seq(Symbol)
    BY <1>7, <2>1, <2>2 DEF DefaultPort
  <2> QED
    BY <1>6, <1>7, <2>3 DEF OrElse, Text
<1>9. options["sslmode"] \in Text
  <2>1. <<"disable">> \in Seq(Symbol)
    BY Defaults
  <2> QED
    BY <1>6, <1>7, <2>1 DEF OrElse, Text
<1>10. \A flag \in {"u", "p", "d", "h", "socket"} : options[flag] \in Text
  BY <1>5, <1>7 DEF Text
<1>11. Texts(options)
  BY <1>8, <1>9, <1>10 DEF Texts
<1> QED
  BY <1>3, <1>5, <1>6, <1>7, <1>11

LEMMA ServerIsAskedFor ==
  ASSUME LineInvariant, phase \in {"down", "app", "done"}
  PROVE  ServerAskedFor
<1> DEFINE name == Final("d")
           host == Final("h")
           socket == Final("socket")
           type == Final("t")
           user == GivenOr("u", IF type = "pg" THEN <<"postgres">> ELSE <<"root">>)
           port == GivenOr("port", IF type = "pg" THEN <<"5432">> ELSE <<"3306">>)
           mode == GivenOr("sslmode", <<"disable">>)
           tcp  == host \o <<":">> \o port
<1>1. /\ options["t"] = type /\ options["u"] = Final("u") /\ options["p"] = Final("p")
      /\ options["d"] = name /\ options["h"] = host /\ options["socket"] = socket
  BY OptionsVerified
<1>2. /\ options["port"] = OrElse(Final("port"), DefaultPort(type))
      /\ options["sslmode"] = OrElse(Final("sslmode"), <<"disable">>)
      /\ conn = Reads(options) /\ Texts(options)
      /\ type \in {"pg", "mysql", "sqlite3"}
  BY OptionsVerified
<1>3. User(options) = user
  BY <1>1 DEF User, DefaultUser, GivenOr
<1>4. type \in {"pg", "mysql"} => options["port"] = port /\ Address(options) = tcp
  <2>1. type \in {"pg", "mysql"} => options["port"] = port
    BY <1>2 DEF DefaultPort, GivenOr
  <2> QED
    BY <1>1, <2>1 DEF Address, Colon
<1>9. options["sslmode"] = mode /\ mode # <<>>
  BY <1>2 DEF GivenOr, OrElse
<1>5. ASSUME type = "sqlite3"
      PROVE  /\ Begins(name, Colon) => conn = Refused
             /\ Holds(name, Percent) /\ ~HoldsAny(name, {Colon, Question}) => conn = Refused
             /\ \/ HoldsAny(name, {Percent, Colon, Question, Backslash})
                \/ Begins(name, Slash) /\ Begins(Tail(name), Slash)
                \/ conn.net = "file" /\ conn.address = name
  <2>1. conn = SQLiteReads(SQLiteDSN(options))
    BY <1>1, <1>2, <1>5 DEF Reads
  <2>2. options["d"] \in Text /\ options["d"] = name
    BY <1>1, <1>2 DEF Texts
  <2> HIDE DEF name
  <2>3. /\ Begins(name, Colon) => conn = Refused
        /\ Holds(name, Percent) /\ ~Holds(name, Colon) /\ ~Holds(name, Question) => conn = Refused
        /\ \/ \E symbol \in {Percent, Colon, Question, Backslash} : Holds(name, symbol)
           \/ Begins(name, Slash) /\ Begins(Tail(name), Slash)
           \/ conn.net = "file" /\ conn.address = name
    BY <2>1, <2>2, SQLiteReadsBack
  <2> QED
    BY <2>3 DEF HoldsAny
<1>6. ASSUME type = "mysql"
      PROVE  \/ Holds(user, Colon)
             \/ HoldsAny(name, {Slash, Question, Percent})
             \/ IF socket = <<>>
                THEN \/ Holds(host, At) \/ ~IsHost(host)
                     \/ HoldsAny(port, {Colon, At} \cup Brackets)
                     \/ conn = Server("tcp", tcp, user, Final("p"), name)
                ELSE Holds(socket, At) \/ conn = Server("unix", socket, user, Final("p"), name)
  <2>1. options["t"] = "mysql" /\ options["port"] = port /\ Address(options) = tcp
    BY <1>1, <1>4, <1>6
  <2> HIDE DEF name, host, socket, type, user, port, tcp
  <2>2. SUFFICES ASSUME ~Holds(user, Colon), ~Holds(name, Slash), ~Holds(name, Question), ~Holds(name, Percent)
                 PROVE  IF socket = <<>>
                        THEN \/ Holds(host, At) \/ ~IsHost(host)
                             \/ HoldsAny(port, {Colon, At} \cup Brackets)
                             \/ conn = Server("tcp", tcp, user, Final("p"), name)
                        ELSE Holds(socket, At) \/ conn = Server("unix", socket, user, Final("p"), name)
    BY DEF HoldsAny
  <2>3. /\ ~Holds(User(options), Colon) /\ ~Holds(options["d"], Slash)
        /\ ~Holds(options["d"], Question) /\ ~Holds(options["d"], Percent)
    BY <1>1, <1>3, <2>2
  <2>4. /\ /\ options["socket"] = <<>> /\ ~Holds(options["h"], At) /\ IsHost(options["h"])
           /\ \A symbol \in {Colon, At} \cup Brackets : ~Holds(options["port"], symbol)
           => Reads(options) = Server("tcp", Address(options), User(options), options["p"], options["d"])
        /\ options["socket"] # <<>> /\ ~Holds(options["socket"], At) =>
             Reads(options) = Server("unix", options["socket"], User(options), options["p"], options["d"])
    BY <1>2, <2>1, <2>3, MySQLServer
  <2>5. /\ options["socket"] = socket /\ options["h"] = host /\ options["port"] = port
        /\ Address(options) = tcp /\ User(options) = user /\ options["p"] = Final("p")
        /\ options["d"] = name /\ conn = Reads(options)
    BY <1>1, <1>2, <1>3, <2>1
  <2> QED
    BY <2>4, <2>5 DEF HoldsAny
<1>7. ASSUME type = "pg"
      PROVE  \/ socket # <<>>
             \/ HoldsAny(user, InURL \cup Brackets \cup {Colon})
             \/ HoldsAny(Final("p"), InURL \cup Brackets)
             \/ host = <<>> \/ HoldsAny(host, InURL \cup {At})
             \/ ~IsHost(host) \/ (Bracketed(host) /\ Unbracketed(host) \notin IPv6)
             \/ ~IsNumber(port)
             \/ name = <<>> \/ HoldsAny(name, {Question, Hash, Percent})
             \/ HoldsAny(mode, {Ampersand, Hash, Percent})
             \/ conn = IF mode \in {<<m>> : m \in SSLModes}
                       THEN Server("tcp", tcp, user, Final("p"), name) ELSE Refused
  <2>1. options["t"] = "pg" /\ options["port"] = port /\ Address(options) = tcp
    BY <1>1, <1>4, <1>7
  <2> HIDE DEF name, host, socket, type, user, port, mode, tcp
  <2>2. SUFFICES ASSUME socket = <<>>, host # <<>>, IsNumber(port), name # <<>>,
                        \A symbol \in InURL \cup Brackets \cup {Colon} : ~Holds(user, symbol),
                        \A symbol \in InURL \cup Brackets : ~Holds(Final("p"), symbol),
                        \A symbol \in InURL \cup {At} : ~Holds(host, symbol),
                        IsHost(host), Bracketed(host) => Unbracketed(host) \in IPv6,
                        \A symbol \in {Question, Hash, Percent} : ~Holds(name, symbol),
                        \A symbol \in {Ampersand, Hash, Percent} : ~Holds(mode, symbol)
                 PROVE  conn = IF mode \in {<<m>> : m \in SSLModes}
                               THEN Server("tcp", tcp, user, Final("p"), name) ELSE Refused
    BY DEF HoldsAny
  <2>3. /\ options["socket"] = socket /\ options["h"] = host /\ options["port"] = port
        /\ Address(options) = tcp /\ User(options) = user /\ options["p"] = Final("p")
        /\ options["d"] = name /\ options["sslmode"] = mode /\ mode # <<>> /\ conn = Reads(options)
    BY <1>1, <1>2, <1>3, <1>9, <2>1
  <2>4. Reads(options) = IF options["sslmode"] \in {<<m>> : m \in SSLModes}
                         THEN Server("tcp", Address(options), User(options), options["p"], options["d"])
                         ELSE Refused
    <3>1. /\ options["socket"] = <<>> /\ options["h"] # <<>> /\ options["d"] # <<>>
          /\ options["sslmode"] # <<>> /\ IsNumber(options["port"])
      BY <2>2, <2>3
    <3>2. /\ \A symbol \in InURL \cup Brackets \cup {Colon} : ~Holds(User(options), symbol)
          /\ \A symbol \in InURL \cup Brackets : ~Holds(options["p"], symbol)
          /\ \A symbol \in InURL \cup {At} : ~Holds(options["h"], symbol)
          /\ IsHost(options["h"]) /\ (Bracketed(options["h"]) => Unbracketed(options["h"]) \in IPv6)
          /\ \A symbol \in {Question, Hash, Percent} : ~Holds(options["d"], symbol)
          /\ \A symbol \in {Ampersand, Hash, Percent} : ~Holds(options["sslmode"], symbol)
      BY <2>2, <2>3
    <3> QED
      BY <1>2, <2>1, <3>1, <3>2, PostgresServer
  <2> QED
    BY <2>3, <2>4
<1>8. type \in {"pg", "mysql", "sqlite3"}
  BY <1>2
<1> QED
  BY <1>5, <1>6, <1>7, <1>8 DEF ServerAskedFor

(* What the driver reads out of the data source name is what was asked for,*)
(* for every text that no delimiter ends before its time.                  *)
THEOREM LineServerAskedFor == LineSpec => []ServerAskedFor
<1>1. LineInvariant => ServerAskedFor
  <2> SUFFICES ASSUME LineInvariant PROVE ServerAskedFor
    OBVIOUS
  <2>1. CASE phase \in {"down", "app", "done"}
    BY <2>1, ServerIsAskedFor
  <2>2. CASE phase \notin {"down", "app", "done"}
    BY <2>2 DEF ServerAskedFor
  <2> QED
    BY <2>1, <2>2
<1> QED
  BY <1>1, LineInvariantHolds, PTL
=============================================================================
