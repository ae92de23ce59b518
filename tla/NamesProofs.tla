---------------------------- MODULE NamesProofs ----------------------------
(***************************************************************************)
(* Proofs about the names of FieldText, for names of any length and with   *)
(* any characters.  First the bytes: as long as no character changes its   *)
(* length with its case, the bytes of a name are read as its characters,   *)
(* toInitialisms replaces characters by their capitals, and no slice is    *)
(* out of range.  Then the characters: what the steps before it make of    *)
(* each, which names are refused, and what remains of the others.          *)
(***************************************************************************)
EXTENDS FieldText, DataLemmas

Byte == Symbol \X (1..4)
Name == Seq(Symbol)

LEMMA Widths ==
  ASSUME NEW s \in Symbol
  PROVE  Width[s] \in 1..4
BY SymbolAssumption

LEMMA Pair ==
  ASSUME NEW x, NEW y
  PROVE  <<x, y>>[1] = x /\ <<x, y>>[2] = y
OBVIOUS

LEMMA ByteSeqTyped ==
  ASSUME NEW s \in Symbol
  PROVE  /\ ByteSeq(s) \in Seq(Byte) /\ Len(ByteSeq(s)) = Width[s]
         /\ \A k \in 1..Width[s] : ByteSeq(s)[k] = <<s, k>>
<1> DEFINE w == Width[s]
<1>1. w \in 1..4
  BY Widths
<1> HIDE DEF w
<1>2. \A k \in 1..w : <<s, k>> \in Byte
  BY <1>1 DEF Byte
<1>3. ByteSeq(s) = [k \in 1..w |-> <<s, k>>]
  BY DEF ByteSeq, w
<1>4. ByteSeq(s) \in Seq(Byte)
  BY <1>1, <1>2, <1>3
<1>5. Len(ByteSeq(s)) = w
  BY <1>1, <1>3
<1>6. \A k \in 1..w : ByteSeq(s)[k] = <<s, k>>
  BY <1>3
<1> QED
  BY <1>4, <1>5, <1>6 DEF w

-----------------------------------------------------------------------------
(* Bytes, character by character.                                          *)
UTF8 == [s \in Symbol |-> ByteSeq(s)]

LEMMA UTF8Typed == UTF8 \in [Symbol -> Seq(Byte)]
BY ByteSeqTyped DEF UTF8

LEMMA BytesAreFlat ==
  ASSUME NEW t \in Name
  PROVE  Bytes(t) = Flat(UTF8, t)
<1>1. \A i \in DOMAIN t : t[i] \in Symbol
  BY ElementOfSeq, LenProperties DEF Name
<1>2. \A i \in DOMAIN t : UTF8[t[i]] = ByteSeq(t[i])
  BY <1>1 DEF UTF8
<1>3. [i \in DOMAIN t |-> UTF8[t[i]]] = [i \in DOMAIN t |-> ByteSeq(t[i])]
  BY <1>2
<1> QED
  BY <1>3 DEF Bytes, Flat

LEMMA NoBytes == Bytes(<<>>) = <<>> /\ <<>> \in Name
<1>1. <<>> \in Name
  BY EmptySeq DEF Name
<1> QED
  BY <1>1, BytesAreFlat, FlatOfEmpty

LEMMA BytesTyped ==
  ASSUME NEW t \in Name
  PROVE  Bytes(t) \in Seq(Byte)
BY BytesAreFlat, UTF8Typed, FlatTyped DEF Name

LEMMA BytesOfAppend ==
  ASSUME NEW t \in Name, NEW s \in Symbol
  PROVE  Append(t, s) \in Name /\ Bytes(Append(t, s)) = Bytes(t) \o ByteSeq(s)
<1>1. Append(t, s) \in Name
  BY AppendProperties DEF Name
<1>2. Bytes(Append(t, s)) = Flat(UTF8, Append(t, s))
  BY <1>1, BytesAreFlat
<1>3. Flat(UTF8, Append(t, s)) = Flat(UTF8, t) \o UTF8[s]
  BY UTF8Typed, FlatOfAppend, SMTT(30) DEF Name
<1>4. UTF8[s] = ByteSeq(s)
  BY DEF UTF8
<1> QED
  BY <1>1, <1>2, <1>3, <1>4, BytesAreFlat

(* The same, place by place.                                               *)
LEMMA OneMoreCharacter ==
  ASSUME NEW t \in Name, NEW s \in Symbol
  PROVE  LET b == Bytes(t)
             c == Bytes(Append(t, s))
         IN /\ b \in Seq(Byte) /\ c \in Seq(Byte) /\ Len(b) \in Nat /\ Width[s] \in 1..4
            /\ Len(c) = Len(b) + Width[s]
            /\ \A p \in 1..Len(b) : c[p] = b[p]
            /\ \A k \in 1..Width[s] : c[Len(b) + k] = <<s, k>>
            /\ \A p \in 1..Len(c) : p \in 1..Len(b) \/ \E k \in 1..Width[s] : p = Len(b) + k
<1> DEFINE b == Bytes(t)
           d == ByteSeq(s)
           c == b \o d
           w == Width[s]
<1>1. b \in Seq(Byte) /\ d \in Seq(Byte) /\ Len(d) = w /\ \A k \in 1..w : d[k] = <<s, k>>
  BY BytesTyped, ByteSeqTyped
<1>2. w \in 1..4
  BY Widths
<1>3. Bytes(Append(t, s)) = c
  BY BytesOfAppend
<1> HIDE DEF b, d, w
<1>4. /\ c \in Seq(Byte) /\ Len(b) \in Nat /\ Len(c) = Len(b) + Len(d)
      /\ \A p \in 1..Len(b) : c[p] = b[p]
      /\ \A k \in 1..Len(d) : c[Len(b) + k] = d[k]
  <2>1. b \in Seq(Byte) /\ d \in Seq(Byte)
    BY <1>1
  <2> QED
    BY <2>1, InARow
<1>5. \A k \in 1..w : c[Len(b) + k] = <<s, k>>
  BY <1>1, <1>4
<1>6. \A p \in 1..(Len(b) + w) : p \in 1..Len(b) \/ \E k \in 1..w : p = Len(b) + k
  <2> SUFFICES ASSUME NEW p \in 1..(Len(b) + w)
               PROVE  p \in 1..Len(b) \/ \E k \in 1..w : p = Len(b) + k
    OBVIOUS
  <2>1. b \in Seq(Byte) /\ d \in Seq(Byte) /\ p \in 1..(Len(b) + Len(d))
    BY <1>1
  <2>2. p \in 1..Len(b) \/ \E k \in 1..Len(d) : p = Len(b) + k
    BY <2>1, PlaceInARow
  <2> QED
    BY <1>1, <2>2
<1> HIDE DEF c
<1>7. /\ b \in Seq(Byte) /\ c \in Seq(Byte) /\ Len(b) \in Nat /\ w \in 1..4
      /\ Len(c) = Len(b) + w
      /\ \A p \in 1..Len(b) : c[p] = b[p]
      /\ \A p \in 1..Len(c) : p \in 1..Len(b) \/ \E k \in 1..w : p = Len(b) + k
  BY <1>1, <1>2, <1>4, <1>6
<1> QED
  BY <1>3, <1>5, <1>7 DEF b, w

-----------------------------------------------------------------------------
(* The characters are read back.                                           *)
LEMMA Occurs ==
  ASSUME NEW S, NEW b \in Seq(S), NEW w \in Seq(S), NEW q \in Nat \ {0}
  PROVE  OccursAt(b, w, q) <=>
           /\ q + Len(w) <= Len(b) + 1
           /\ \A i \in 1..Len(w) : b[q + i - 1] = w[i]
<1> DEFINE m == Len(w)
           e == q + m - 1
           cut == SubSeq(b, q, e)
<1>1. m \in Nat /\ Len(b) \in Nat
  OBVIOUS
<1>2. ASSUME q + m <= Len(b) + 1
      PROVE  cut \in Seq(S) /\ Len(cut) = m /\ \A i \in 1..m : cut[i] = b[q + i - 1]
  <2>1. q \in 1..(Len(b) + 1) /\ e \in (q - 1)..Len(b)
    BY <1>1, <1>2
  <2>2. /\ cut \in Seq(S)
        /\ Len(cut) = IF q <= e THEN e - q + 1 ELSE 0
        /\ \A i \in 1..(e - q + 1) : cut[i] = b[q + i - 1]
    <3> HIDE DEF e, m
    <3> QED
      BY <2>1, SubSeqProperties
  <2>3. e - q + 1 = m /\ (IF q <= e THEN e - q + 1 ELSE 0) = m
    BY <1>1
  <2> QED
    BY <2>2, <2>3
<1>3. ASSUME q + m <= Len(b) + 1, \A i \in 1..m : b[q + i - 1] = w[i]
      PROVE  cut = w
  <2>1. \A i \in 1..Len(cut) : cut[i] = w[i]
    BY <1>2, <1>3
  <2>2. cut \in Seq(S) /\ Len(cut) = Len(w)
    BY <1>2, <1>3
  <2> HIDE DEF cut
  <2> QED
    BY <2>1, <2>2, SeqEqual
<1> QED
  BY <1>2, <1>3 DEF OccursAt

(* A byte of a character that is complete.                                 *)
InPlace(b, p) ==
  \E s \in Symbol : \E k \in 1..Width[s] :
    /\ b[p] = <<s, k>>
    /\ k <= p /\ p - k + Width[s] <= Len(b)
    /\ \A i \in 1..Width[s] : b[p - k + i] = <<s, i>>

LEMMA InPlaceIsWhole ==
  ASSUME NEW b \in Seq(Byte), NEW p \in 1..Len(b), InPlace(b, p)
  PROVE  Whole(b, p)
<1>0. PICK s \in Symbol : \E k \in 1..Width[s] :
        /\ b[p] = <<s, k>>
        /\ k <= p /\ p - k + Width[s] <= Len(b)
        /\ \A i \in 1..Width[s] : b[p - k + i] = <<s, i>>
  BY DEF InPlace
<1>1. PICK k \in 1..Width[s] :
        /\ b[p] = <<s, k>>
        /\ k <= p /\ p - k + Width[s] <= Len(b)
        /\ \A i \in 1..Width[s] : b[p - k + i] = <<s, i>>
  BY <1>0
<1> DEFINE w == Width[s]
           q == (p + 1) - k
           d == ByteSeq(s)
<1>2. w \in 1..4 /\ Len(b) \in Nat
  BY Widths
<1>3. d \in Seq(Byte) /\ Len(d) = w /\ \A i \in 1..w : d[i] = <<s, i>>
  BY ByteSeqTyped
<1>4. b[p][1] = s /\ b[p][2] = k
  BY <1>1
<1>5. k \in 1..w /\ p \in Nat /\ k <= p /\ p - k + w <= Len(b) /\ \A i \in 1..w : b[p - k + i] = <<s, i>>
  BY <1>1
<1> HIDE DEF w, d
<1>6. q \in Nat \ {0} /\ q + w <= Len(b) + 1 /\ \A i \in 1..w : q + i - 1 = p - k + i
  BY <1>2, <1>5
<1>7. q + Len(d) <= Len(b) + 1 /\ \A i \in 1..Len(d) : b[q + i - 1] = d[i]
  BY <1>3, <1>5, <1>6
<1> HIDE DEF q
<1>8. OccursAt(b, d, q)
  BY <1>3, <1>6, <1>7, Occurs
<1> QED
  BY <1>4, <1>5, <1>8 DEF Whole, d, q

LEMMA AllInPlace ==
  ASSUME NEW t \in Name
  PROVE  \A p \in 1..Len(Bytes(t)) : InPlace(Bytes(t), p)
<1> DEFINE T == {u \in Name : \A p \in 1..Len(Bytes(u)) : InPlace(Bytes(u), p)}
<1>1. <<>> \in T
  BY NoBytes, EmptySeq
<1>2. ASSUME NEW u \in Name, NEW s \in Symbol, \A p \in 1..Len(Bytes(u)) : InPlace(Bytes(u), p)
      PROVE  \A p \in 1..Len(Bytes(Append(u, s))) : InPlace(Bytes(Append(u, s)), p)
  <2> DEFINE b == Bytes(u)
             c == Bytes(Append(u, s))
             n == Len(b)
             w == Width[s]
  <2>1. /\ n \in Nat /\ w \in 1..4 /\ Len(c) = n + w
        /\ \A p \in 1..n : c[p] = b[p]
        /\ \A k \in 1..w : c[n + k] = <<s, k>>
        /\ \A p \in 1..Len(c) : p \in 1..n \/ \E k \in 1..w : p = n + k
    BY OneMoreCharacter
  <2>2. \A p \in 1..n : InPlace(b, p)
    BY <1>2
  <2> SUFFICES ASSUME NEW p \in 1..Len(c) PROVE InPlace(c, p)
    OBVIOUS
  <2> HIDE DEF b, c, n, w
  <2>3. CASE p \in 1..n
    <3>0. PICK r \in Symbol : \E k \in 1..Width[r] :
            /\ b[p] = <<r, k>>
            /\ k <= p /\ p - k + Width[r] <= Len(b)
            /\ \A i \in 1..Width[r] : b[p - k + i] = <<r, i>>
      BY <2>2, <2>3 DEF InPlace
    <3>1. PICK k \in 1..Width[r] :
            /\ b[p] = <<r, k>>
            /\ k <= p /\ p - k + Width[r] <= Len(b)
            /\ \A i \in 1..Width[r] : b[p - k + i] = <<r, i>>
      BY <3>0
    <3>2. Width[r] \in 1..4
      BY Widths
    <3>3. Len(b) = n
      BY DEF n
    <3>4. p - k + Width[r] <= Len(c)
      BY <2>1, <2>3, <3>1, <3>2, <3>3
    <3>5. c[p] = <<r, k>>
      BY <2>1, <2>3, <3>1
    <3>6. ASSUME NEW i \in 1..Width[r] PROVE c[p - k + i] = <<r, i>>
      <4>1. p - k + i \in 1..n
        BY <2>1, <2>3, <3>1, <3>2, <3>3, SMTT(30)
      <4> QED
        BY <2>1, <3>1, <4>1
    <3> QED
      BY <3>1, <3>4, <3>5, <3>6 DEF InPlace
  <2>4. CASE \E k \in 1..w : p = n + k
    <3> PICK k \in 1..w : p = n + k
      BY <2>4
    <3>1. k \in 1..Width[s] /\ c[p] = <<s, k>>
      BY <2>1 DEF w
    <3>2. k <= p /\ p - k + w <= Len(c)
      BY <2>1
    <3>3. ASSUME NEW i \in 1..w PROVE c[p - k + i] = <<s, i>>
      <4>1. p - k + i = n + i
        BY <2>1
      <4> QED
        BY <2>1, <4>1
    <3> QED
      BY <3>1, <3>2, <3>3 DEF InPlace, w
  <2> QED
    BY <2>1, <2>3, <2>4
<1>3. \A u \in Name : \A s \in Symbol : u \in T => Append(u, s) \in T
  BY <1>2, BytesOfAppend
<1>4. t \in T
  <2> HIDE DEF T
  <2> QED
    BY <1>1, <1>3, SeqInduction DEF Name
<1> QED
  BY <1>4

(* A character begins at its first byte.                                   *)
Begun == [x \in Byte |-> IF x[2] = 1 THEN <<x[1]>> ELSE <<>>]

LEMMA BegunTyped == Begun \in [Byte -> Name]
<1>1. ASSUME NEW x \in Byte PROVE (IF x[2] = 1 THEN <<x[1]>> ELSE <<>>) \in Name
  <2>1. x[1] \in Symbol
    BY DEF Byte
  <2> QED
    BY <2>1, NoBytes DEF Name
<1> QED
  BY <1>1 DEF Begun

LEMMA BegunOnce ==
  ASSUME NEW s \in Symbol
  PROVE  Flat(Begun, ByteSeq(s)) = <<s>>
<1> DEFINE w == Width[s]
           list == [k \in 1..w |-> IF k = 1 THEN <<s>> ELSE <<>>]
           F(k) == FlattenSeq([i \in 1..k |-> list[i]])
           U == {k \in Nat : k > w \/ F(k) = <<s>>}
<1>1. w \in 1..4
  BY Widths
<1> HIDE DEF w
<1>2. <<s>> \in Name /\ <<>> \in Name
  BY NoBytes DEF Name
<1>3. \A k \in 1..w : list[k] = (IF k = 1 THEN <<s>> ELSE <<>>) /\ list[k] \in Name
  BY <1>2
<1>4. Flat(Begun, ByteSeq(s)) = F(w)
  <2>1. DOMAIN ByteSeq(s) = 1..w /\ \A k \in 1..w : ByteSeq(s)[k] = <<s, k>>
    BY DEF ByteSeq, w
  <2>2. ASSUME NEW k \in 1..w PROVE Begun[<<s, k>>] = list[k]
    <3>1. <<s, k>> \in Byte
      BY <1>1 DEF Byte
    <3> QED
      BY <1>3, <3>1 DEF Begun
  <2> DEFINE d == ByteSeq(s)
  <2>3. DOMAIN d = 1..w /\ \A k \in 1..w : Begun[d[k]] = list[k]
    BY <2>1, <2>2
  <2> HIDE DEF list, d
  <2>4. [k \in DOMAIN d |-> Begun[d[k]]] = [k \in 1..w |-> list[k]]
    BY <2>3
  <2> QED
    BY <2>4 DEF Flat, d
<1> HIDE DEF list
<1>5. F(1) = <<s>>
  <2>1. \A k \in 1..(0 + 1) : list[k] \in Seq(Symbol)
    BY <1>1, <1>3 DEF Name
  <2>2. FlattenSeq([i \in 1..(0 + 1) |-> list[i]]) = FlattenSeq([i \in 1..0 |-> list[i]]) \o list[0 + 1]
    BY <2>1, FlattenUpTo
  <2>3. FlattenSeq([i \in 1..0 |-> list[i]]) = <<>>
    BY EmptyFlat
  <2>4. list[0 + 1] = <<s>>
    BY <1>1, <1>3
  <2>5. <<>> \o <<s>> = <<s>>
    BY <1>2, ConcatEmptySeq DEF Name
  <2>6. 0 + 1 = 1
    OBVIOUS
  <2> QED
    BY <2>2, <2>3, <2>4, <2>5, <2>6
<1>6. ASSUME NEW k \in 1..(w - 1), F(k) = <<s>> PROVE F(k + 1) = <<s>>
  <2>1. k \in Nat /\ k + 1 \in 1..w /\ k + 1 # 1 /\ 1..(k + 1) \subseteq 1..w
    BY <1>1
  <2>2. \A i \in 1..(k + 1) : list[i] \in Seq(Symbol)
    BY <1>3, <2>1 DEF Name
  <2>3. F(k + 1) = F(k) \o list[k + 1]
    BY <2>1, <2>2, FlattenUpTo
  <2>4. list[k + 1] = <<>>
    BY <1>3, <2>1
  <2>5. <<s>> \o <<>> = <<s>>
    BY <1>2, ConcatEmptySeq DEF Name
  <2> QED
    BY <1>6, <2>3, <2>4, <2>5
<1> HIDE DEF F
<1>7. \A k \in 1..w : k \in U
  <2>1. 1 \in U
    BY <1>5
  <2>2. \A k \in 1..(w - 1) : k \in U => k + 1 \in U
    <3> SUFFICES ASSUME NEW k \in 1..(w - 1), k \in U PROVE k + 1 \in U
      OBVIOUS
    <3>1. ~(k > w) /\ k + 1 \in Nat
      BY <1>1
    <3>2. F(k) = <<s>>
      BY <3>1
    <3> QED
      BY <1>6, <3>1, <3>2
  <2> HIDE DEF U
  <2> QED
    BY <1>1, <2>1, <2>2, InductionUpTo
<1>8. w \in U /\ ~(w > w)
  BY <1>1, <1>7
<1> QED
  BY <1>4, <1>8

LEMMA Decoded ==
  ASSUME NEW t \in Name
  PROVE  Runes(Bytes(t)) = t
<1> DEFINE T == {u \in Name : Flat(Begun, Bytes(u)) = u}
<1>1. <<>> \in T
  BY NoBytes, FlatOfEmpty
<1>2. ASSUME NEW u \in Name, NEW s \in Symbol, Flat(Begun, Bytes(u)) = u
      PROVE  Flat(Begun, Bytes(Append(u, s))) = Append(u, s)
  <2>1. Bytes(Append(u, s)) = Bytes(u) \o ByteSeq(s)
    BY BytesOfAppend
  <2>2. Bytes(u) \in Seq(Byte) /\ ByteSeq(s) \in Seq(Byte)
    BY BytesTyped, ByteSeqTyped
  <2>3. Flat(Begun, Bytes(u) \o ByteSeq(s)) = Flat(Begun, Bytes(u)) \o Flat(Begun, ByteSeq(s))
    <3>1. Begun \in [Byte -> Seq(Symbol)]
      BY BegunTyped DEF Name
    <3> DEFINE b == Bytes(u)
               d == ByteSeq(s)
    <3>2. b \in Seq(Byte)
      BY <2>2
    <3>3. d \in Seq(Byte)
      BY <2>2
    <3> HIDE DEF b, d
    <3>4. Flat(Begun, b \o d) = Flat(Begun, b) \o Flat(Begun, d)
      BY <3>1, <3>2, <3>3, FlatInARow
    <3> QED
      BY <3>4 DEF b, d
  <2>4. u \o <<s>> = Append(u, s)
    BY AppendIsConcat DEF Name
  <2> QED
    BY <1>2, <2>1, <2>3, <2>4, BegunOnce
<1>3. \A u \in Name : \A s \in Symbol : u \in T => Append(u, s) \in T
  BY <1>2, BytesOfAppend
<1>4. t \in T
  <2> HIDE DEF T
  <2> QED
    BY <1>1, <1>3, SeqInduction DEF Name
<1> DEFINE b == Bytes(t)
<1>5. b \in Seq(Byte) /\ \A p \in DOMAIN b : p \in 1..Len(b) /\ b[p] \in Byte
  <2>1. b \in Seq(Byte)
    BY BytesTyped
  <2> HIDE DEF b
  <2> QED
    BY <2>1, ElementOfSeq, LenProperties
<1>6. \A p \in 1..Len(b) : InPlace(b, p)
  BY AllInPlace
<1> HIDE DEF b
<1>7. ASSUME NEW p \in DOMAIN b PROVE Read(b, p) = Begun[b[p]]
  <2>1. Whole(b, p)
    BY <1>5, <1>6, InPlaceIsWhole
  <2> QED
    BY <1>5, <2>1 DEF Read, Begun
<1>8. [p \in DOMAIN b |-> Read(b, p)] = [p \in DOMAIN b |-> Begun[b[p]]]
  BY <1>7
<1>9. Runes(b) = Flat(Begun, b)
  BY <1>8 DEF Runes, Flat
<1> QED
  BY <1>4, <1>9 DEF b

-----------------------------------------------------------------------------
(* Lower case, byte by byte, of characters that keep their length.         *)
Even == {s \in Symbol : Width[Lower[s]] = Width[s]}
Thin == {s \in Symbol : Width[s] = 1}

LEMMA LoweredTyped ==
  ASSUME NEW t \in Name
  PROVE  /\ Lowered(t) \in Name /\ Len(Lowered(t)) = Len(t) /\ Len(t) \in Nat
         /\ \A i \in 1..Len(t) : Lowered(t)[i] = Lower[t[i]]
<1>1. Len(t) \in Nat /\ DOMAIN t = 1..Len(t) /\ \A i \in 1..Len(t) : t[i] \in Symbol
  BY LenProperties, ElementOfSeq DEF Name
<1>2. \A i \in 1..Len(t) : Lower[t[i]] \in Symbol
  BY <1>1, SymbolAssumption
<1> DEFINE n == Len(t)
           low == [i \in 1..n |-> Lower[t[i]]]
<1> HIDE DEF n
<1>3. \A i \in 1..n : Lower[t[i]] \in Symbol
  BY <1>2 DEF n
<1>4. low \in Seq(Symbol)
  BY <1>1, <1>3 DEF n
<1>5. Len(low) = n /\ \A i \in 1..n : low[i] = Lower[t[i]]
  BY <1>1 DEF n
<1>6. Lowered(t) = low
  BY <1>1 DEF Lowered, n
<1> QED
  BY <1>1, <1>4, <1>5, <1>6 DEF Name, n

LEMMA LoweredAppend ==
  ASSUME NEW t \in Name, NEW s \in Symbol
  PROVE  Lower[s] \in Symbol /\ Lowered(Append(t, s)) = Append(Lowered(t), Lower[s])
<1> DEFINE n == Len(t)
           r == Append(t, s)
           a == Lowered(r)
           b == Append(Lowered(t), Lower[s])
<1>1. Lower[s] \in Symbol
  BY SymbolAssumption
<1>2. n \in Nat /\ r \in Name /\ Len(r) = n + 1 /\ r[n + 1] = s /\ \A i \in 1..n : r[i] = t[i]
  BY AppendProperties, LenProperties DEF Name
<1>3. a \in Name /\ Len(a) = Len(r) /\ \A i \in 1..Len(r) : a[i] = Lower[r[i]]
  BY <1>2, LoweredTyped
<1>4. Lowered(t) \in Name /\ Len(Lowered(t)) = n /\ \A i \in 1..n : Lowered(t)[i] = Lower[t[i]]
  BY LoweredTyped
<1>5. /\ b \in Name /\ Len(b) = n + 1 /\ b[n + 1] = Lower[s]
      /\ \A i \in 1..n : b[i] = Lowered(t)[i]
  BY <1>1, <1>4, AppendProperties DEF Name
<1> HIDE DEF n, r, a, b
<1>6. \A i \in 1..Len(a) : a[i] = b[i]
  <2> SUFFICES ASSUME NEW i \in 1..(n + 1) PROVE a[i] = b[i]
    BY <1>2, <1>3
  <2>1. i \in 1..n \/ i = n + 1
    BY <1>2
  <2> QED
    BY <1>2, <1>3, <1>4, <1>5, <2>1
<1>7. a = b
  BY <1>2, <1>3, <1>5, <1>6, SeqEqual DEF Name
<1> QED
  BY <1>1, <1>7 DEF a, b, r

LEMMA Aligned ==
  ASSUME NEW t \in Seq(Even)
  PROVE  /\ t \in Name
         /\ Len(Bytes(Lowered(t))) = Len(Bytes(t))
         /\ \A p \in 1..Len(Bytes(t)) :
              Bytes(Lowered(t))[p] = <<Lower[Bytes(t)[p][1]], Bytes(t)[p][2]>>
<1> DEFINE Even2(u) == /\ Len(Bytes(Lowered(u))) = Len(Bytes(u))
                       /\ \A p \in 1..Len(Bytes(u)) :
                            Bytes(Lowered(u))[p] = <<Lower[Bytes(u)[p][1]], Bytes(u)[p][2]>>
           T == {u \in Name : Even2(u)}
<1>1. <<>> \in T
  <2>1. Lowered(<<>>) = <<>>
    BY DEF Lowered
  <2> QED
    BY <2>1, NoBytes, EmptySeq
<1>2. ASSUME NEW u \in Name, NEW s \in Even, Even2(u)
      PROVE  Even2(Append(u, s))
  <2>1. s \in Symbol /\ Lower[s] \in Symbol /\ Width[Lower[s]] = Width[s]
    BY SymbolAssumption DEF Even
  <2> DEFINE b == Bytes(u)
             c == Bytes(Append(u, s))
             d == Bytes(Lowered(u))
             e == Bytes(Lowered(Append(u, s)))
             n == Len(b)
             w == Width[s]
  <2>2. /\ n \in Nat /\ w \in 1..4 /\ Len(c) = n + w
        /\ \A p \in 1..n : c[p] = b[p]
        /\ \A k \in 1..w : c[n + k] = <<s, k>>
        /\ \A p \in 1..Len(c) : p \in 1..n \/ \E k \in 1..w : p = n + k
    BY <2>1, OneMoreCharacter
  <2>3. e = Bytes(Append(Lowered(u), Lower[s])) /\ Lowered(u) \in Name
    BY <2>1, LoweredAppend, LoweredTyped
  <2>4. /\ Len(e) = Len(d) + Width[Lower[s]]
        /\ \A p \in 1..Len(d) : e[p] = d[p]
        /\ \A k \in 1..Width[Lower[s]] : e[Len(d) + k] = <<Lower[s], k>>
    <3> DEFINE ls == Lower[s]
               f == Bytes(Append(Lowered(u), ls))
    <3>1. ls \in Symbol /\ Lowered(u) \in Name
      BY <2>1, <2>3
    <3> HIDE DEF ls
    <3>2. /\ Len(f) = Len(d) + Width[ls]
          /\ \A p \in 1..Len(d) : f[p] = d[p]
          /\ \A k \in 1..Width[ls] : f[Len(d) + k] = <<ls, k>>
      BY ONLY <3>1, OneMoreCharacter
    <3>3. e = f
      BY <2>3 DEF ls
    <3> HIDE DEF f
    <3> QED
      BY <3>2, <3>3 DEF ls
  <2>5. Len(d) = n /\ \A p \in 1..n : d[p] = <<Lower[b[p][1]], b[p][2]>>
    BY <1>2
  <2> HIDE DEF b, c, d, e, n, w
  <2>6. /\ Len(e) = n + w
        /\ \A p \in 1..n : e[p] = d[p]
        /\ \A k \in 1..w : e[n + k] = <<Lower[s], k>>
    BY <2>1, <2>4, <2>5 DEF w
  <2>7. ASSUME NEW p \in 1..Len(c) PROVE e[p] = <<Lower[c[p][1]], c[p][2]>>
    <3>1. CASE p \in 1..n
      <4>1. e[p] = d[p] /\ d[p] = <<Lower[b[p][1]], b[p][2]>> /\ c[p] = b[p]
        BY <2>2, <2>5, <2>6, <3>1
      <4> QED
        BY <4>1
    <3>2. CASE \E k \in 1..w : p = n + k
      <4> PICK k \in 1..w : p = n + k
        BY <3>2
      <4>1. e[p] = <<Lower[s], k>> /\ c[p] = <<s, k>>
        BY <2>2, <2>6
      <4> QED
        BY <4>1, Pair
    <3> QED
      BY <2>2, <3>1, <3>2
  <2>8. Len(e) = Len(c)
    BY <2>2, <2>6
  <2> QED
    BY <2>7, <2>8 DEF c, e
<1>3. \A u \in Seq(Even) : \A s \in Even : u \in T => Append(u, s) \in T
  <2>1. \A s \in Even : s \in Symbol
    BY DEF Even
  <2> HIDE DEF Even2
  <2> QED
    BY <1>2, <2>1, BytesOfAppend
<1>4. t \in T
  <2> HIDE DEF T
  <2> QED
    BY <1>1, <1>3, SeqInduction
<1> QED
  BY <1>4

LEMMA Narrow ==
  ASSUME NEW t \in Seq(Thin)
  PROVE  t \in Name /\ Len(Bytes(t)) = Len(t) /\ \A i \in 1..Len(t) : Bytes(t)[i] = <<t[i], 1>>
<1> DEFINE Narrow2(u) == Len(Bytes(u)) = Len(u) /\ \A i \in 1..Len(u) : Bytes(u)[i] = <<u[i], 1>>
           T == {u \in Name : Narrow2(u)}
<1>1. <<>> \in T
  BY NoBytes, EmptySeq
<1>2. ASSUME NEW u \in Name, NEW s \in Thin, Narrow2(u)
      PROVE  Narrow2(Append(u, s))
  <2> DEFINE b == Bytes(u)
             r == Append(u, s)
             c == Bytes(r)
             n == Len(u)
  <2>1. s \in Symbol /\ Width[s] = 1
    BY DEF Thin
  <2>2. /\ Len(c) = Len(b) + Width[s]
        /\ \A p \in 1..Len(b) : c[p] = b[p]
        /\ \A k \in 1..Width[s] : c[Len(b) + k] = <<s, k>>
    BY <2>1, OneMoreCharacter
  <2>3. Len(b) = n /\ \A i \in 1..n : b[i] = <<u[i], 1>>
    BY <1>2
  <2>4. n \in Nat /\ Len(r) = n + 1 /\ r[n + 1] = s /\ \A i \in 1..n : r[i] = u[i]
    BY <2>1, AppendProperties, LenProperties DEF Name
  <2> HIDE DEF b, r, c, n
  <2>5. Len(c) = n + 1 /\ c[n + 1] = <<s, 1>>
    BY <2>1, <2>2, <2>3
  <2>6. ASSUME NEW i \in 1..(n + 1) PROVE c[i] = <<r[i], 1>>
    <3>1. i \in 1..n \/ i = n + 1
      BY <2>4
    <3> QED
      BY <2>2, <2>3, <2>4, <2>5, <3>1
  <2>7. Len(c) = Len(r) /\ \A i \in 1..Len(r) : c[i] = <<r[i], 1>>
    BY <2>4, <2>5, <2>6
  <2> QED
    BY <2>7 DEF c, r
<1>3. \A u \in Seq(Thin) : \A s \in Thin : u \in T => Append(u, s) \in T
  <2>1. \A s \in Thin : s \in Symbol
    BY DEF Thin
  <2> HIDE DEF Narrow2
  <2> QED
    BY <1>2, <2>1, BytesOfAppend
<1>4. t \in T
  <2> HIDE DEF T
  <2> QED
    BY <1>1, <1>3, SeqInduction
<1> QED
  BY <1>4

-----------------------------------------------------------------------------
(* strings.ReplaceAll of a text by one of the same length.                 *)
Rests(g, bytes, old, new, f) ==
  g = [p \in f..(Len(bytes) + 1) |->
         IF p > Len(bytes) THEN <<>>
         ELSE IF OccursAt(bytes, old, p) THEN new \o g[p + Len(old)]
         ELSE <<bytes[p]>> \o g[p + 1]]

LEMMA RestsExist ==
  ASSUME NEW S, NEW bytes \in Seq(S), NEW old \in Seq(S), Len(old) > 0, NEW new
  PROVE  \E g : Rests(g, bytes, old, new, 1)
<1> DEFINE n == Len(bytes)
           k == Len(old)
           Cut(p) == OccursAt(bytes, old, p)
           T == {m \in Nat : m > n \/ \E g : Rests(g, bytes, old, new, (n + 1) - m)}
<1>1. n \in Nat /\ k \in Nat \ {0}
  BY LenProperties
<1>2. \A p \in 1..n : Cut(p) => p + k <= n + 1
  BY DEF OccursAt
<1>3. 0 \in T
  <2> DEFINE g == [p \in (n + 1)..(n + 1) |-> <<>>]
  <2>1. (n + 1) - 0 = n + 1 /\ \A p \in (n + 1)..(n + 1) : p > n
    BY <1>1
  <2>2. Rests(g, bytes, old, new, n + 1)
    BY <2>1 DEF Rests
  <2> QED
    BY <2>1, <2>2
<1>4. ASSUME NEW m \in Nat, m + 1 <= n, NEW g, Rests(g, bytes, old, new, (n + 1) - m)
      PROVE  \E h : Rests(h, bytes, old, new, (n + 1) - (m + 1))
  <2> DEFINE f == (n + 1) - m
             e == (n + 1) - (m + 1)
             Value(p) == IF p > n THEN <<>>
                         ELSE IF Cut(p) THEN new \o g[p + k] ELSE <<bytes[p]>> \o g[p + 1]
             h == [p \in e..(n + 1) |-> Value(p)]
             Other(p) == IF p > n THEN <<>>
                         ELSE IF Cut(p) THEN new \o h[p + k] ELSE <<bytes[p]>> \o h[p + 1]
  <2>1. \A p \in f..(n + 1) : g[p] = Value(p)
    <3>1. g = [p \in f..(n + 1) |-> Value(p)]
      BY <1>4 DEF Rests
    <3> HIDE DEF Value
    <3> QED
      BY <3>1
  <2>2. f \in 1..(n + 1) /\ e \in 1..n /\ f = e + 1
    BY <1>1, <1>4
  <2> HIDE DEF e, f, Cut
  <2>3. \A p \in e..(n + 1) : h[p] = Value(p)
    <3> HIDE DEF Value
    <3> QED
      OBVIOUS
  <2>4. \A p \in f..(n + 1) : h[p] = g[p]
    <3>1. \A p \in f..(n + 1) : p \in e..(n + 1)
      BY <1>1, <2>2
    <3> HIDE DEF Value, h
    <3> QED
      BY <2>1, <2>3, <3>1
  <2>5. ASSUME NEW p \in e..(n + 1) PROVE Value(p) = Other(p)
    <3> HIDE DEF h
    <3>1. CASE p > n
      BY <3>1
    <3>2. CASE p <= n /\ Cut(p)
      <4>1. p \in 1..n
        BY <1>1, <2>2, <3>2
      <4>2. p + k \in f..(n + 1)
        BY <1>1, <1>2, <2>2, <3>2, <4>1 DEF Cut
      <4>3. h[p + k] = g[p + k]
        BY <2>4, <4>2
      <4> QED
        BY <3>2, <4>1, <4>3
    <3>3. CASE p <= n /\ ~Cut(p)
      <4>1. p + 1 \in f..(n + 1) /\ ~(p > n)
        BY <1>1, <2>2, <3>3
      <4>2. h[p + 1] = g[p + 1]
        BY <2>4, <4>1
      <4> QED
        BY <3>3, <4>1, <4>2
    <3> QED
      BY <1>1, <2>2, <3>1, <3>2, <3>3
  <2>6. h = [p \in e..(n + 1) |-> Other(p)]
    <3>1. h = [p \in e..(n + 1) |-> Value(p)]
      OBVIOUS
    <3> HIDE DEF h, Value, Other
    <3> QED
      BY <2>5, <3>1
  <2> HIDE DEF h
  <2>7. Rests(h, bytes, old, new, e)
    BY <2>6 DEF Rests, Cut
  <2> QED
    BY <2>7 DEF e
<1>5. \A m \in Nat : m \in T => m + 1 \in T
  <2> SUFFICES ASSUME NEW m \in Nat, m \in T PROVE m + 1 \in T
    OBVIOUS
  <2>1. CASE m + 1 > n
    BY <2>1
  <2>2. CASE m + 1 <= n
    <3>1. ~(m > n)
      BY <1>1, <2>2
    <3>2. PICK g : Rests(g, bytes, old, new, (n + 1) - m)
      BY <3>1
    <3>3. \E h : Rests(h, bytes, old, new, (n + 1) - (m + 1))
      BY <1>4, <2>2, <3>2
    <3> QED
      BY <3>3
  <2> QED
    BY <1>1, <2>1, <2>2
<1>6. n \in T
  <2> HIDE DEF T
  <2> QED
    BY <1>1, <1>3, <1>5, Induction
<1>7. ~(n > n) /\ (n + 1) - n = 1
  BY <1>1
<1> QED
  BY <1>6, <1>7

(* Nothing else changes, and nothing moves.                                *)
Exchanged(part, bytes, old, new, q) ==
  \A i \in 1..Len(part) :
    \/ part[i] = bytes[q + i - 1]
    \/ \E j \in 1..Len(old) : bytes[q + i - 1] = old[j] /\ part[i] = new[j]

LEMMA Replaced ==
  ASSUME NEW S, NEW bytes \in Seq(S), NEW old \in Seq(S), NEW new \in Seq(S),
         Len(old) > 0, Len(new) = Len(old)
  PROVE  LET r == ReplaceEvery(bytes, old, new)
         IN r \in Seq(S) /\ Len(r) = Len(bytes) /\ Exchanged(r, bytes, old, new, 1)
<1> DEFINE n == Len(bytes)
           k == Len(old)
           Cut(p) == OccursAt(bytes, old, p)
           g == CHOOSE x : Rests(x, bytes, old, new, 1)
<1>1. n \in Nat /\ k \in Nat \ {0} /\ Len(new) = k
  BY LenProperties
<1>2. Rests(g, bytes, old, new, 1)
  BY RestsExist
<1>3. ReplaceEvery(bytes, old, new) = g[1]
  BY DEF ReplaceEvery, Rests
<1> HIDE DEF g
<1>4. \A p \in 1..(n + 1) :
        g[p] = IF p > n THEN <<>> ELSE IF Cut(p) THEN new \o g[p + k] ELSE <<bytes[p]>> \o g[p + 1]
  <2>1. g = [p \in 1..(n + 1) |->
               IF p > n THEN <<>> ELSE IF Cut(p) THEN new \o g[p + k] ELSE <<bytes[p]>> \o g[p + 1]]
    BY <1>2 DEF Rests
  <2> HIDE DEF Cut
  <2> QED
    BY <2>1
<1>5. \A p \in 1..n : Cut(p) => p + k <= n + 1 /\ \A i \in 1..k : bytes[p + i - 1] = old[i]
  BY Occurs
<1>a. g[n + 1] = <<>>
  <2>1. n + 1 \in 1..(n + 1) /\ n + 1 > n
    BY <1>1
  <2> HIDE DEF n, k, Cut
  <2> QED
    BY <1>4, <2>1
<1>b. \A q \in 1..n : Cut(q) => g[q] = new \o g[q + k]
  <2>1. \A q \in 1..n : q \in 1..(n + 1) /\ ~(q > n)
    BY <1>1
  <2> HIDE DEF n, k, Cut
  <2> QED
    BY <1>4, <2>1
<1>c. \A q \in 1..n : ~Cut(q) => g[q] = <<bytes[q]>> \o g[q + 1]
  <2>1. \A q \in 1..n : q \in 1..(n + 1) /\ ~(q > n)
    BY <1>1
  <2> HIDE DEF n, k, Cut
  <2> QED
    BY <1>4, <2>1
<1> DEFINE Right(q) == g[q] \in Seq(S) /\ Len(g[q]) = (n + 1) - q /\ Exchanged(g[q], bytes, old, new, q)
           T == {m \in Nat : \A q \in 1..(n + 1) : q + m >= n + 1 => Right(q)}
<1> HIDE DEF Cut
<1>6. Right(n + 1)
  <2>1. g[n + 1] = <<>>
    BY <1>a
  <2>2. <<>> \in Seq(S) /\ Len(<<>>) = 0
    BY EmptySeq
  <2>3. 1..0 = {} /\ (n + 1) - (n + 1) = 0
    BY <1>1
  <2> QED
    BY <2>1, <2>2, <2>3 DEF Exchanged
<1>7. ASSUME NEW q \in 1..n, Cut(q), Right(q + k)
      PROVE  Right(q)
  <2> DEFINE rest == g[q + k]
             all  == new \o rest
  <2>1. q + k <= n + 1 /\ \A i \in 1..k : bytes[q + i - 1] = old[i]
    BY <1>5, <1>7
  <2>2. g[q] = all
    BY <1>b, <1>7
  <2>3. rest \in Seq(S) /\ Len(rest) = (n + 1) - (q + k) /\ Exchanged(rest, bytes, old, new, q + k)
    BY <1>7
  <2>4. /\ all \in Seq(S) /\ Len(all) = Len(new) + Len(rest)
        /\ \A i \in 1..Len(new) : all[i] = new[i]
        /\ \A i \in 1..Len(rest) : all[Len(new) + i] = rest[i]
    <3>1. new \in Seq(S) /\ rest \in Seq(S)
      BY <2>3
    <3> HIDE DEF rest
    <3> QED
      BY ONLY <3>1, InARow
  <2> HIDE DEF rest
  <2>5. Len(all) = (n + 1) - q
    BY <1>1, <2>1, <2>3, <2>4
  <2>6. \A i \in 1..Len(all) : i \in 1..k \/ \E j \in 1..Len(rest) : i = k + j
    <3> SUFFICES ASSUME NEW i \in 1..Len(all)
                 PROVE  i \in 1..k \/ \E j \in 1..Len(rest) : i = k + j
      OBVIOUS
    <3>1. rest \in Seq(S) /\ i \in 1..(Len(new) + Len(rest))
      BY <2>3, <2>4
    <3>2. i \in 1..Len(new) \/ \E j \in 1..Len(rest) : i = Len(new) + j
      BY <3>1, PlaceInARow
    <3> QED
      BY <1>1, <3>2
  <2> HIDE DEF all
  <2>7. \A i \in 1..k : all[i] = new[i]
    BY <1>1, <2>4
  <2>8. \A i \in 1..Len(rest) : all[k + i] = rest[i]
    BY <1>1, <2>4
  <2>9. ASSUME NEW i \in 1..Len(all)
        PROVE  \/ all[i] = bytes[q + i - 1]
               \/ \E j \in 1..Len(old) : bytes[q + i - 1] = old[j] /\ all[i] = new[j]
    <3>1. CASE i \in 1..k
      BY <2>1, <2>7, <3>1
    <3>2. CASE \E j \in 1..Len(rest) : i = k + j
      <4> PICK j \in 1..Len(rest) : i = k + j
        BY <3>2
      <4>1. q + i - 1 = (q + k) + j - 1
        BY <1>1, <2>3
      <4>2. all[i] = rest[j]
        BY <2>8
      <4>3. \/ rest[j] = bytes[(q + k) + j - 1]
            \/ \E l \in 1..Len(old) : bytes[(q + k) + j - 1] = old[l] /\ rest[j] = new[l]
        BY <2>3 DEF Exchanged
      <4> QED
        BY <4>1, <4>2, <4>3
    <3> QED
      BY <2>6, <3>1, <3>2
  <2> QED
    <3>1. Exchanged(all, bytes, old, new, q)
      BY ONLY <2>9 DEF Exchanged
    <3> QED
      BY <2>2, <2>4, <2>5, <3>1
<1>8. ASSUME NEW q \in 1..n, ~Cut(q), Right(q + 1)
      PROVE  Right(q)
  <2> DEFINE one  == <<bytes[q]>>
             rest == g[q + 1]
             all  == one \o rest
  <2>1. g[q] = all
    BY <1>c, <1>8
  <2>2. rest \in Seq(S) /\ Len(rest) = (n + 1) - (q + 1) /\ Exchanged(rest, bytes, old, new, q + 1)
    BY <1>8
  <2>3. bytes[q] \in S
    BY ElementOfSeq
  <2>4. one \in Seq(S) /\ Len(one) = 1 /\ one[1] = bytes[q]
    BY <2>3
  <2> HIDE DEF one, rest
  <2>5. /\ all \in Seq(S) /\ Len(all) = Len(one) + Len(rest)
        /\ \A i \in 1..Len(one) : all[i] = one[i]
        /\ \A i \in 1..Len(rest) : all[Len(one) + i] = rest[i]
    <3>1. one \in Seq(S) /\ rest \in Seq(S)
      BY <2>2, <2>4
    <3> QED
      BY <3>1, InARow
  <2>6. all[1] = bytes[q] /\ Len(all) = (n + 1) - q /\ \A i \in 1..Len(rest) : all[1 + i] = rest[i]
    BY <1>1, <2>2, <2>4, <2>5
  <2> HIDE DEF all
  <2>7. ASSUME NEW i \in 1..Len(all)
        PROVE  \/ all[i] = bytes[q + i - 1]
               \/ \E j \in 1..Len(old) : bytes[q + i - 1] = old[j] /\ all[i] = new[j]
    <3>1. CASE i = 1
      <4>1. q + 1 - 1 = q
        OBVIOUS
      <4> QED
        BY <2>6, <3>1, <4>1
    <3>2. CASE i # 1
      <4>1. i - 1 \in 1..Len(rest) /\ 1 + (i - 1) = i /\ q + i - 1 = (q + 1) + (i - 1) - 1
        BY <1>1, <2>2, <2>6, <3>2
      <4>2. all[i] = rest[i - 1]
        BY <2>6, <4>1
      <4>3. \/ rest[i - 1] = bytes[(q + 1) + (i - 1) - 1]
            \/ \E l \in 1..Len(old) : bytes[(q + 1) + (i - 1) - 1] = old[l] /\ rest[i - 1] = new[l]
        BY <2>2, <4>1 DEF Exchanged
      <4> QED
        BY <4>1, <4>2, <4>3
    <3> QED
      BY <3>1, <3>2
  <2> QED
    <3>1. Exchanged(all, bytes, old, new, q)
      BY ONLY <2>7 DEF Exchanged
    <3> QED
      BY <2>1, <2>5, <2>6, <3>1
<1>9. 0 \in T
  <2>1. \A q \in 1..(n + 1) : q + 0 >= n + 1 => q = n + 1
    BY <1>1
  <2> HIDE DEF Right
  <2> QED
    BY <1>6, <2>1
<1> HIDE DEF Right
<1>10. \A m \in Nat : m \in T => m + 1 \in T
  <2> SUFFICES ASSUME NEW m \in Nat, m \in T, NEW q \in 1..(n + 1), q + (m + 1) >= n + 1
               PROVE  Right(q)
    <3>1. \A m \in Nat : m + 1 \in Nat
      OBVIOUS
    <3> QED
      BY <3>1
  <2>0. \A r \in 1..(n + 1) : r + m >= n + 1 => Right(r)
    OBVIOUS
  <2>1. CASE q = n + 1
    BY <1>6, <2>1
  <2>2. CASE q \in 1..n /\ Cut(q)
    <3>1. q + k \in 1..(n + 1) /\ (q + k) + m >= n + 1
      BY <1>1, <1>5, <2>2
    <3> QED
      BY <1>7, <2>0, <2>2, <3>1
  <2>3. CASE q \in 1..n /\ ~Cut(q)
    <3>1. q + 1 \in 1..(n + 1) /\ (q + 1) + m >= n + 1
      BY <1>1, <2>3
    <3> QED
      BY <1>8, <2>0, <2>3, <3>1
  <2> QED
    BY <1>1, <2>1, <2>2, <2>3
<1>11. n \in T
  <2> HIDE DEF T
  <2> QED
    BY <1>1, <1>9, <1>10, Induction
<1>12. Right(1)
  <2>1. 1 \in 1..(n + 1) /\ 1 + n >= n + 1
    BY <1>1
  <2> QED
    BY <1>11, <2>1
<1>13. (n + 1) - 1 = n
  BY <1>1
<1> QED
  BY <1>3, <1>12, <1>13 DEF Right

-----------------------------------------------------------------------------
(* A name with some of its characters replaced by their capitals.          *)
Capital == {s \in Letter : Width[s] = 1 /\ Width[Lower[s]] = 1 /\ Upper[s] = s}

Capitalises(a, c) == a \in Capital /\ c \in Symbol /\ Width[c] = 1 /\ Lower[a] = Lower[c]

Alike(u, t) ==
  /\ u \in Name /\ Len(u) = Len(t)
  /\ \A i \in 1..Len(t) : u[i] = t[i] \/ Capitalises(u[i], t[i])

LEMMA Capitals == Capital \subseteq Letter /\ Capital \subseteq Thin /\ Capital \subseteq Even
BY SymbolAssumption DEF Capital, Thin, Even

LEMMA SymbolsOfBytes ==
  ASSUME NEW t \in Seq(Even)
  PROVE  \A p \in 1..Len(Bytes(t)) : Bytes(t)[p][1] \in Even
<1> DEFINE Of(u) == \A p \in 1..Len(Bytes(u)) : Bytes(u)[p][1] \in Even
           T == {u \in Name : Of(u)}
<1>1. <<>> \in T
  BY NoBytes, EmptySeq
<1>2. ASSUME NEW u \in Name, NEW s \in Even, Of(u)
      PROVE  Of(Append(u, s))
  <2> DEFINE b == Bytes(u)
             c == Bytes(Append(u, s))
             n == Len(b)
             w == Width[s]
  <2>1. s \in Symbol
    BY DEF Even
  <2>2. /\ \A p \in 1..n : c[p] = b[p]
        /\ \A k \in 1..w : c[n + k] = <<s, k>>
        /\ \A p \in 1..Len(c) : p \in 1..n \/ \E k \in 1..w : p = n + k
    BY <2>1, OneMoreCharacter
  <2>3. \A p \in 1..n : b[p][1] \in Even
    BY <1>2
  <2> HIDE DEF b, c, n, w
  <2>4. ASSUME NEW p \in 1..Len(c) PROVE c[p][1] \in Even
    <3>1. CASE p \in 1..n
      BY <2>2, <2>3, <3>1
    <3>2. CASE \E k \in 1..w : p = n + k
      <4> PICK k \in 1..w : p = n + k
        BY <3>2
      <4>1. c[p] = <<s, k>>
        BY <2>2
      <4> QED
        BY <4>1, Pair
    <3> QED
      BY <2>2, <3>1, <3>2
  <2> QED
    BY <2>4 DEF c
<1>3. \A u \in Seq(Even) : \A s \in Even : u \in T => Append(u, s) \in T
  <2>1. \A s \in Even : s \in Symbol
    BY DEF Even
  <2> HIDE DEF Of
  <2> QED
    BY <1>2, <2>1, BytesOfAppend
<1>4. t \in T
  <2> HIDE DEF T
  <2> QED
    BY <1>1, <1>3, SeqInduction
<1> QED
  BY <1>4

(* Bytes of which some are replaced by those of capitals are those of such *)
(* a name.                                                                 *)
Recapped(r, b) ==
  /\ Len(r) = Len(b)
  /\ \A p \in 1..Len(b) :
       r[p] = b[p] \/ \E a \in Capital, c \in Symbol : Capitalises(a, c) /\ b[p] = <<c, 1>> /\ r[p] = <<a, 1>>

LEMMA Recoded ==
  ASSUME NEW t \in Name, NEW r \in Seq(Byte), Recapped(r, Bytes(t))
  PROVE  \E u : Alike(u, t) /\ r = Bytes(u)
<1> DEFINE Of(v) == \A x \in Seq(Byte) : Recapped(x, Bytes(v)) => \E u : Alike(u, v) /\ x = Bytes(u)
           T == {v \in Name : Of(v)}
<1>1. <<>> \in T
  <2>1. ASSUME NEW x \in Seq(Byte), Recapped(x, Bytes(<<>>))
        PROVE  Alike(<<>>, <<>>) /\ x = Bytes(<<>>)
    <3>1. Len(x) = 0
      BY <2>1, NoBytes, EmptySeq DEF Recapped
    <3>2. x = <<>>
      BY <3>1, EmptySeq
    <3> QED
      BY <3>2, NoBytes, EmptySeq DEF Alike
  <2> QED
    BY <2>1, NoBytes
<1>2. ASSUME NEW v \in Name, NEW s \in Symbol, Of(v)
      PROVE  Of(Append(v, s))
  <2> SUFFICES ASSUME NEW x \in Seq(Byte), Recapped(x, Bytes(Append(v, s)))
               PROVE  \E u : Alike(u, Append(v, s)) /\ x = Bytes(u)
    OBVIOUS
  <2> DEFINE b == Bytes(v)
             z == Append(v, s)
             c == Bytes(z)
             n == Len(b)
             w == Width[s]
             y == SubSeq(x, 1, n)
  <2>1. /\ b \in Seq(Byte) /\ n \in Nat /\ w \in 1..4 /\ Len(c) = n + w
        /\ \A p \in 1..n : c[p] = b[p]
        /\ \A k \in 1..w : c[n + k] = <<s, k>>
        /\ \A p \in 1..Len(c) : p \in 1..n \/ \E k \in 1..w : p = n + k
    BY OneMoreCharacter
  <2>2. /\ Len(x) = n + w
        /\ \A p \in 1..(n + w) :
             x[p] = c[p] \/ \E a \in Capital, d \in Symbol : Capitalises(a, d) /\ c[p] = <<d, 1>> /\ x[p] = <<a, 1>>
    BY <2>1 DEF Recapped
  <2>3. z \in Name /\ Len(z) = Len(v) + 1 /\ z[Len(v) + 1] = s /\ \A i \in 1..Len(v) : z[i] = v[i]
    BY AppendProperties DEF Name
  <2> HIDE DEF b, z, c, n, w
  <2>4. y \in Seq(Byte) /\ Len(y) = n /\ \A p \in 1..n : y[p] = x[p]
    <3>1. \A p \in 1..n : x[p] \in Byte
      <4>1. \A p \in 1..n : p \in 1..Len(x)
        BY <2>1, <2>2
      <4> QED
        BY <4>1, ElementOfSeq
    <3>2. y \in Seq(Byte) /\ Len(y) = (IF 1 <= n THEN n - 1 + 1 ELSE 0) /\ \A p \in 1..(n - 1 + 1) : y[p] = x[1 + p - 1]
      BY <2>1, <3>1, SubSeqProperties
    <3>3. n - 1 + 1 = n /\ (IF 1 <= n THEN n - 1 + 1 ELSE 0) = n /\ \A p \in 1..n : 1 + p - 1 = p
      BY <2>1
    <3> HIDE DEF y
    <3> QED
      BY <3>2, <3>3
  <2> HIDE DEF y
  <2>5. Recapped(y, b)
    <3>1. Len(b) = n
      BY DEF n
    <3>2. \A p \in 1..n : p \in 1..(n + w)
      BY <2>1
    <3> SUFFICES ASSUME NEW p \in 1..n
                 PROVE  y[p] = b[p] \/ \E a \in Capital, d \in Symbol :
                                         Capitalises(a, d) /\ b[p] = <<d, 1>> /\ y[p] = <<a, 1>>
      BY <2>4, <3>1 DEF Recapped
    <3> QED
      BY <2>1, <2>2, <2>4, <3>2
  <2>6. PICK u : Alike(u, v) /\ y = Bytes(u)
    BY <1>2, <2>4, <2>5 DEF b
  <2>7. PICK e \in Symbol : /\ e = s \/ Capitalises(e, s)
                            /\ Width[e] = w
                            /\ \A k \in 1..w : x[n + k] = <<e, k>>
    <3>1. CASE \A k \in 1..w : x[n + k] = c[n + k]
      BY <2>1, <3>1 DEF w
    <3>2. CASE \E k \in 1..w : x[n + k] # c[n + k]
      <4>1. PICK k \in 1..w : x[n + k] # c[n + k]
        BY <3>2
      <4>2. n + k \in 1..(n + w) /\ c[n + k] = <<s, k>>
        BY <2>1, SMTT(30)
      <4>3. PICK a \in Capital, d \in Symbol :
              Capitalises(a, d) /\ c[n + k] = <<d, 1>> /\ x[n + k] = <<a, 1>>
        BY <2>2, <4>1, <4>2
      <4>4. d = s /\ k = 1
        BY <4>2, <4>3, Pair
      <4>5. w = 1 /\ a \in Symbol /\ Width[a] = 1
        BY <4>3, <4>4, Capitals DEF Capitalises, w, Thin
      <4>6. \A l \in 1..w : l = 1
        BY <4>5
      <4> QED
        BY <4>3, <4>4, <4>5, <4>6
    <3> QED
      BY <3>1, <3>2
  <2> DEFINE o == Append(u, e)
             q == Bytes(o)
  <2>8. u \in Name /\ Len(u) = Len(v) /\ Len(v) \in Nat
    BY <2>6 DEF Alike, Name
  <2>9. /\ q \in Seq(Byte) /\ Len(q) = Len(y) + Width[e]
        /\ \A p \in 1..Len(y) : q[p] = y[p]
        /\ \A k \in 1..Width[e] : q[Len(y) + k] = <<e, k>>
    BY <2>6, <2>8, OneMoreCharacter
  <2>10. /\ o \in Name /\ Len(o) = Len(u) + 1 /\ o[Len(u) + 1] = e
         /\ \A i \in 1..Len(u) : o[i] = u[i]
    <3>1. u \in Seq(Symbol)
      BY <2>8 DEF Name
    <3>2. /\ o \in Seq(Symbol) /\ Len(o) = Len(u) + 1 /\ o[Len(u) + 1] = e
          /\ \A i \in 1..Len(u) : o[i] = u[i]
      BY ONLY <3>1, e \in Symbol, AppendProperties
    <3> QED
      BY <3>2 DEF Name
  <2> HIDE DEF o, q
  <2>11. /\ Len(q) = n + w
         /\ \A p \in 1..n : q[p] = x[p]
         /\ \A k \in 1..w : q[n + k] = x[n + k]
    BY <2>4, <2>7, <2>9
  <2>12. \A p \in 1..Len(x) : x[p] = q[p]
    <3> SUFFICES ASSUME NEW p \in 1..(n + w) PROVE x[p] = q[p]
      BY <2>2
    <3>1. CASE p \in 1..n
      BY <2>11, <3>1
    <3>2. CASE \E k \in 1..w : p = n + k
      BY <2>11, <3>2
    <3> QED
      BY <2>1, <3>1, <3>2
  <2>13. x = q
    BY <2>2, <2>9, <2>11, <2>12, SeqEqual
  <2>14. Alike(o, z)
    <3>1. \A i \in 1..Len(v) : u[i] = v[i] \/ Capitalises(u[i], v[i])
      BY <2>6 DEF Alike
    <3>2. ASSUME NEW i \in 1..Len(z) PROVE o[i] = z[i] \/ Capitalises(o[i], z[i])
      <4>1. i \in 1..Len(v) \/ i = Len(v) + 1
        BY <2>3, <2>8
      <4>2. CASE i \in 1..Len(v)
        BY <2>3, <2>8, <2>10, <3>1, <4>2
      <4>3. CASE i = Len(v) + 1
        BY <2>3, <2>7, <2>8, <2>10, <4>3
      <4> QED
        BY <4>1, <4>2, <4>3
    <3> QED
      BY <2>3, <2>8, <2>10, <3>2 DEF Alike
  <2> QED
    BY <2>13, <2>14 DEF q, z
<1>3. \A v \in Name : \A s \in Symbol : v \in T => Append(v, s) \in T
  <2> HIDE DEF Of
  <2> QED
    BY <1>2, BytesOfAppend
<1>4. t \in T
  <2> HIDE DEF T
  <2> QED
    BY <1>1, <1>3, SeqInduction DEF Name
<1>5. Of(t)
  <2> HIDE DEF Of
  <2> QED
    BY <1>4
<1> QED
  BY <1>5

-----------------------------------------------------------------------------
(* toInitialisms.                                                          *)
LEMMA NoPanic ==
  ASSUME NEW t \in Name
  PROVE  Bytes(t) # Panic
<1> SUFFICES ASSUME Bytes(t) = Panic PROVE FALSE
  OBVIOUS
<1> DEFINE b == Bytes(t)
<1>1. b \in Seq(Byte)
  BY BytesTyped
<1>2. Len(b) = 1 /\ b[1] = <<Broken, 0>>
  BY DEF Panic
<1> HIDE DEF b
<1>3. b[1] \in Byte
  BY <1>1, <1>2, ElementOfSeq
<1>4. b[1][2] \in 1..4 /\ b[1][2] = 0
  BY <1>2, <1>3, Pair DEF Byte
<1> QED
  BY <1>4

LEMMA Myself ==
  ASSUME NEW t \in Name
  PROVE  Alike(t, t)
BY DEF Alike

(* As long as every character keeps its length, what is found in the lower *)
(* case is at the same place of the name, and each byte there a character. *)
LEMMA InitialisedRightly ==
  ASSUME NEW t \in Seq(Even), NEW word \in Seq(Capital), word # <<>>
  PROVE  \E u : Alike(u, t) /\ Initialised(Bytes(t), word) = Bytes(u)
<1> DEFINE b     == Bytes(t)
           low   == Bytes(Lowered(Runes(b)))
           part  == Bytes(Lowered(word))
           found == {p \in DOMAIN low : OccursAt(low, part, p)}
           n == Len(b)
           m == Len(word)
           p == Min(found)
           end == p + m - 1
           old == SubSeq(b, p, end)
           new == Bytes(word)
           r   == ReplaceEvery(b, old, new)
<1>1. t \in Name /\ b \in Seq(Byte) /\ n \in Nat
  <2>1. t \in Name /\ b \in Seq(Byte)
    BY Aligned, BytesTyped
  <2> HIDE DEF b
  <2> QED
    BY <2>1
<1>2. low \in Seq(Byte) /\ Len(low) = n /\ \A q \in 1..n : low[q] = <<Lower[b[q][1]], b[q][2]>>
  <2>1. low = Bytes(Lowered(t)) /\ Lowered(t) \in Name
    BY <1>1, Decoded, LoweredTyped
  <2> QED
    BY <2>1, Aligned, BytesTyped
<1>3. \A q \in 1..n : b[q][1] \in Even
  BY SymbolsOfBytes
<1>4. m \in Nat \ {0} /\ \A i \in 1..m : word[i] \in Capital
  BY EmptySeq, ElementOfSeq, LenProperties
<1>5. part \in Seq(Byte) /\ Len(part) = m /\ \A i \in 1..m : part[i] = <<Lower[word[i]], 1>>
  <2>1. word \in Name
    <3>1. \A i \in 1..m : word[i] \in Symbol
      BY <1>4, Capitals DEF Thin
    <3> QED
      BY <3>1, LenProperties DEF Name
  <2>2. Lowered(word) \in Name /\ Len(Lowered(word)) = m /\ \A i \in 1..m : Lowered(word)[i] = Lower[word[i]]
    BY <2>1, LoweredTyped
  <2> DEFINE lw == Lowered(word)
  <2>3. \A i \in 1..m : lw[i] \in Thin
    BY <1>4, <2>2, SymbolAssumption DEF Capital, Thin
  <2> HIDE DEF lw, m
  <2>4. lw \in Name /\ Len(lw) = m /\ \A i \in 1..m : lw[i] = Lower[word[i]]
    BY <2>2 DEF lw
  <2>5. lw \in Seq(Thin)
    BY <2>3, <2>4, LenProperties DEF Name
  <2>6. Bytes(lw) \in Seq(Byte) /\ Len(Bytes(lw)) = m /\ \A i \in 1..m : Bytes(lw)[i] = <<lw[i], 1>>
    BY <2>4, <2>5, Narrow, BytesTyped
  <2> QED
    BY <2>4, <2>6 DEF lw
<1>6. new \in Seq(Byte) /\ Len(new) = m /\ \A i \in 1..m : new[i] = <<word[i], 1>>
  <2>1. \A i \in 1..m : word[i] \in Thin
    BY <1>4, Capitals
  <2>2. word \in Seq(Thin)
    BY <2>1, LenProperties
  <2> QED
    BY <2>2, Narrow, BytesTyped
<1>7. b # Panic
  BY <1>1, NoPanic
<1>8. Initialised(b, word) = IF found = {} THEN b ELSE IF end > n THEN Panic ELSE r
  BY <1>7 DEF Initialised
<1> HIDE DEF b, low, part, new
<1>9. CASE found = {}
  <2>1. Initialised(b, word) = b
    BY <1>8, <1>9
  <2> QED
    BY <1>1, <2>1, Myself DEF b
<1>10. CASE found # {}
  <2>1. p \in found
    <3>1. DOMAIN low = 1..Len(low)
      BY <1>2, LenProperties
    <3>2. found \in SUBSET Nat
      BY <3>1
    <3> HIDE DEF found
    <3> QED
      BY <1>10, <3>2, MinIsLeast
  <2>2. p \in Nat \ {0} /\ OccursAt(low, part, p)
    <3>1. DOMAIN low = 1..Len(low)
      BY <1>2, LenProperties
    <3> HIDE DEF p
    <3> QED
      BY <2>1, <3>1
  <2> HIDE DEF found, p
  <2>3. p + m <= n + 1 /\ \A i \in 1..m : low[p + i - 1] = <<Lower[word[i]], 1>>
    <3>1. p + Len(part) <= Len(low) + 1 /\ \A i \in 1..Len(part) : low[p + i - 1] = part[i]
      BY <1>2, <1>5, <2>2, Occurs
    <3> QED
      BY <1>2, <1>5, <3>1
  <2>4. Initialised(b, word) = r
    BY <1>1, <1>4, <1>8, <1>10, <2>2, <2>3
  <2>5. old \in Seq(Byte) /\ Len(old) = m /\ \A i \in 1..m : old[i] = b[p + i - 1]
    <3>1. \A q \in p..end : b[q] \in Byte
      <4>1. \A q \in p..end : q \in 1..n
        BY <1>1, <1>4, <2>2, <2>3
      <4> QED
        BY <1>1, <4>1, ElementOfSeq
    <3>2. p \in Int /\ end \in Int /\ end - p + 1 = m /\ p <= end
      BY <1>4, <2>2
    <3> HIDE DEF end
    <3>3. /\ SubSeq(b, p, end) \in Seq(Byte)
          /\ Len(SubSeq(b, p, end)) = IF p <= end THEN end - p + 1 ELSE 0
          /\ \A i \in 1..(end - p + 1) : SubSeq(b, p, end)[i] = b[p + i - 1]
      BY <3>1, <3>2, SubSeqProperties
    <3> QED
      BY <3>2, <3>3
  <2> HIDE DEF old
  <2>6. r \in Seq(Byte) /\ Len(r) = n /\ Exchanged(r, b, old, new, 1)
    <3>1. Len(old) > 0 /\ Len(new) = Len(old)
      BY <1>4, <1>6, <2>5
    <3> QED
      BY <1>1, <1>6, <2>5, <3>1, Replaced
  <2> HIDE DEF r
  <2>7. ASSUME NEW j \in 1..m
        PROVE  \E c \in Symbol : Capitalises(word[j], c) /\ old[j] = <<c, 1>>
    <3> DEFINE q == p + j - 1
               c == b[q][1]
    <3>1. q \in 1..n
      BY <1>1, <1>4, <2>2, <2>3
    <3> HIDE DEF q
    <3>2. b[q] \in Byte /\ c \in Even
      BY <1>1, <1>3, <3>1, ElementOfSeq
    <3>3. low[q] = <<Lower[word[j]], 1>> /\ low[q] = <<Lower[b[q][1]], b[q][2]>>
      BY <1>2, <2>3, <3>1 DEF q
    <3>4. Lower[c] = Lower[word[j]] /\ b[q][2] = 1
      BY <3>3, Pair
    <3>5. b[q] = <<c, 1>>
      BY <3>2, <3>4 DEF Byte
    <3> HIDE DEF c
    <3>6. Width[Lower[word[j]]] = 1 /\ word[j] \in Capital
      BY <1>4 DEF Capital
    <3>7. c \in Symbol /\ Width[c] = 1
      BY <3>2, <3>4, <3>6 DEF Even
    <3>8. old[j] = b[q]
      BY <2>5 DEF q
    <3> QED
      BY <3>4, <3>5, <3>6, <3>7, <3>8 DEF Capitalises
  <2>8. Recapped(r, b)
    <3>1. ASSUME NEW q \in 1..n
          PROVE  r[q] = b[q] \/ \E a \in Capital, c \in Symbol :
                                  Capitalises(a, c) /\ b[q] = <<c, 1>> /\ r[q] = <<a, 1>>
      <4>1. 1 + q - 1 = q
        BY <1>1
      <4>2. r[q] = b[q] \/ \E j \in 1..m : b[q] = old[j] /\ r[q] = new[j]
        BY <2>5, <2>6, <4>1 DEF Exchanged
      <4>3. CASE r[q] # b[q]
        <5>1. PICK j \in 1..m : b[q] = old[j] /\ r[q] = new[j]
          BY <4>2, <4>3
        <5>2. PICK c \in Symbol : Capitalises(word[j], c) /\ old[j] = <<c, 1>>
          BY <2>7
        <5> QED
          BY <1>4, <1>6, <5>1, <5>2
      <4> QED
        BY <4>3
    <3> QED
      BY <2>6, <3>1 DEF Recapped, n
  <2>9. PICK u : Alike(u, t) /\ r = Bytes(u)
    BY <1>1, <2>6, <2>8, Recoded DEF b
  <2> QED
    BY <2>4, <2>9 DEF b
<1> QED
  BY <1>9, <1>10

LEMMA AlikeEven ==
  ASSUME NEW t \in Seq(Even), NEW u, Alike(u, t)
  PROVE  u \in Seq(Even)
<1>1. Len(u) = Len(t) /\ \A i \in 1..Len(t) : t[i] \in Even
  BY ElementOfSeq DEF Alike
<1>2. \A i \in 1..Len(u) : u[i] \in Even
  BY <1>1, Capitals DEF Alike, Capitalises
<1>3. u \in Seq(Symbol)
  BY DEF Alike, Name
<1> QED
  BY <1>2, <1>3, LenProperties

LEMMA AlikeFurther ==
  ASSUME NEW t, NEW u, NEW v, Alike(u, t), Alike(v, u)
  PROVE  Alike(v, t)
BY DEF Alike, Capitalises

Turns(g, bytes, n) ==
  g = [i \in 0..n |-> IF i = 0 THEN bytes ELSE Initialised(g[i - 1], Initialisms[i])]

LEMMA TurnsExist ==
  ASSUME NEW bytes, NEW n \in Nat
  PROVE  \E g : Turns(g, bytes, n)
<1> DEFINE T == {m \in Nat : \E g : Turns(g, bytes, m)}
<1>1. 0 \in T
  <2>1. Turns([i \in 0..0 |-> bytes], bytes, 0)
    <3>1. \A i \in 0..0 : i = 0
      OBVIOUS
    <3> QED
      BY <3>1 DEF Turns
  <2> QED
    BY <2>1
<1>2. ASSUME NEW m \in Nat, NEW g, Turns(g, bytes, m)
      PROVE  \E h : Turns(h, bytes, m + 1)
  <2> DEFINE Value(i) == IF i = 0 THEN bytes ELSE Initialised(g[i - 1], Initialisms[i])
             h == [i \in 0..(m + 1) |-> Value(i)]
             Other(i) == IF i = 0 THEN bytes ELSE Initialised(h[i - 1], Initialisms[i])
  <2>1. \A i \in 0..m : g[i] = Value(i)
    <3>1. g = [i \in 0..m |-> Value(i)]
      BY <1>2 DEF Turns
    <3> HIDE DEF Value
    <3> QED
      BY <3>1
  <2>2. \A i \in 0..(m + 1) : h[i] = Value(i)
    <3> HIDE DEF Value
    <3> QED
      OBVIOUS
  <2>3. \A i \in 0..m : h[i] = g[i]
    <3> HIDE DEF Value, h
    <3> QED
      BY <2>1, <2>2
  <2>4. ASSUME NEW i \in 0..(m + 1) PROVE Value(i) = Other(i)
    <3>1. i # 0 => i - 1 \in 0..m
      OBVIOUS
    <3> HIDE DEF h
    <3> QED
      BY <2>3, <3>1
  <2>5. h = [i \in 0..(m + 1) |-> Other(i)]
    <3>1. h = [i \in 0..(m + 1) |-> Value(i)]
      OBVIOUS
    <3> HIDE DEF h, Value, Other
    <3> QED
      BY <2>4, <3>1
  <2> HIDE DEF h
  <2> QED
    BY <2>5 DEF Turns
<1>3. \A m \in Nat : m \in T => m + 1 \in T
  BY <1>2
<1> HIDE DEF T
<1>4. n \in T
  BY <1>1, <1>3, Induction
<1> QED
  BY <1>4 DEF T

(* No slice is out of range, and only the case of characters changes.      *)
LEMMA ToInitialismsRightly ==
  ASSUME NEW t \in Seq(Even)
  PROVE  \E u : Alike(u, t) /\ ToInitialisms(Bytes(t)) = Bytes(u)
<1> DEFINE b == Bytes(t)
           n == Len(Initialisms)
           g == CHOOSE x : Turns(x, b, n)
           T == {i \in Nat : i > n \/ \E u : Alike(u, t) /\ g[i] = Bytes(u)}
<1>1. Initialisms \in Seq(Seq(Capital) \ {<<>>})
  BY InitialismAssumption DEF Capital
<1>2. n \in Nat /\ \A i \in 1..n : Initialisms[i] \in Seq(Capital) /\ Initialisms[i] # <<>>
  BY <1>1, ElementOfSeq, LenProperties
<1>3. Turns(g, b, n)
  BY <1>2, TurnsExist
<1>4. ToInitialisms(b) = g[n]
  BY DEF ToInitialisms, Turns
<1> HIDE DEF b, n, g
<1>5. \A i \in 0..n : g[i] = IF i = 0 THEN b ELSE Initialised(g[i - 1], Initialisms[i])
  <2>1. g = [i \in 0..n |-> IF i = 0 THEN b ELSE Initialised(g[i - 1], Initialisms[i])]
    BY <1>3 DEF Turns
  <2> QED
    BY <2>1
<1>6. 0 \in T
  <2>1. g[0] = b
    BY <1>2, <1>5
  <2> QED
    BY <2>1, Aligned, Myself DEF b
<1>7. ASSUME NEW i \in Nat, i + 1 <= n, NEW u, Alike(u, t), g[i] = Bytes(u)
      PROVE  \E v : Alike(v, t) /\ g[i + 1] = Bytes(v)
  <2>1. i + 1 \in 0..n /\ i + 1 # 0 /\ (i + 1) - 1 = i /\ i + 1 \in 1..n
    BY <1>2, <1>7
  <2>2. g[i + 1] = Initialised(Bytes(u), Initialisms[i + 1])
    BY <1>5, <1>7, <2>1
  <2>3. Initialisms[i + 1] \in Seq(Capital) /\ Initialisms[i + 1] # <<>>
    BY <1>2, <2>1
  <2>4. u \in Seq(Even)
    BY <1>7, AlikeEven
  <2>5. PICK v : Alike(v, u) /\ Initialised(Bytes(u), Initialisms[i + 1]) = Bytes(v)
    BY <2>3, <2>4, InitialisedRightly
  <2> QED
    BY <1>7, <2>2, <2>5, AlikeFurther
<1>8. \A i \in Nat : i \in T => i + 1 \in T
  <2> SUFFICES ASSUME NEW i \in Nat, i \in T PROVE i + 1 \in T
    OBVIOUS
  <2>1. CASE i + 1 > n
    BY <2>1
  <2>2. CASE i + 1 <= n
    <3>1. ~(i > n)
      BY <1>2, <2>2
    <3>2. PICK u : Alike(u, t) /\ g[i] = Bytes(u)
      BY <3>1
    <3>3. \E v : Alike(v, t) /\ g[i + 1] = Bytes(v)
      BY <1>7, <2>2, <3>2
    <3> QED
      BY <3>3
  <2> QED
    BY <1>2, <2>1, <2>2
<1>9. n \in T /\ ~(n > n)
  <2>1. n \in T
    <3> HIDE DEF T
    <3> QED
      BY <1>2, <1>6, <1>8, Induction
  <2> QED
    BY <1>2, <2>1
<1> QED
  BY <1>4, <1>9 DEF b

-----------------------------------------------------------------------------
(* formatColumnName, by characters.                                        *)
LEMMA FirstByte ==
  ASSUME NEW t \in Name
  PROVE  /\ (Bytes(t) = <<>>) <=> (t = <<>>)
         /\ t # <<>> => Bytes(t)[1] = <<t[1], 1>>
<1> DEFINE Of(u) == u # <<>> => Len(Bytes(u)) > 0 /\ Bytes(u)[1] = <<u[1], 1>>
           T == {u \in Name : Of(u)}
<1>1. <<>> \in T
  BY NoBytes
<1>2. ASSUME NEW u \in Name, NEW s \in Symbol, Of(u)
      PROVE  Of(Append(u, s))
  <2> DEFINE b == Bytes(u)
             z == Append(u, s)
             c == Bytes(z)
             n == Len(b)
             w == Width[s]
  <2>1. /\ n \in Nat /\ w \in 1..4 /\ Len(c) = n + w
        /\ \A p \in 1..n : c[p] = b[p]
        /\ \A k \in 1..w : c[n + k] = <<s, k>>
    BY OneMoreCharacter
  <2>2. Len(z) = Len(u) + 1 /\ z[Len(u) + 1] = s /\ Len(u) \in Nat /\ \A i \in 1..Len(u) : z[i] = u[i]
    BY AppendProperties, LenProperties DEF Name
  <2>3. u # <<>> => n > 0 /\ b[1] = <<u[1], 1>>
    BY <1>2
  <2>4. u = <<>> => n = 0 /\ Len(u) = 0
    BY NoBytes, EmptySeq
  <2>5. u # <<>> => Len(u) > 0
    BY EmptySeq DEF Name
  <2> HIDE DEF b, z, c, n, w
  <2>6. CASE u = <<>>
    <3>1. n + 1 = 1 /\ Len(u) + 1 = 1 /\ 1 \in 1..w
      BY <2>1, <2>4, <2>6
    <3>2. c[1] = <<s, 1>> /\ z[1] = s
      BY <2>1, <2>2, <3>1
    <3>3. Len(c) > 0
      BY <2>1
    <3> QED
      BY <3>2, <3>3 DEF c, z
  <2>7. CASE u # <<>>
    <3>1. 1 \in 1..n /\ 1 \in 1..Len(u)
      BY <2>1, <2>2, <2>3, <2>5, <2>7
    <3>2. c[1] = <<u[1], 1>> /\ z[1] = u[1]
      BY <2>1, <2>2, <2>3, <2>7, <3>1
    <3>3. Len(c) > 0
      BY <2>1
    <3> QED
      BY <3>2, <3>3 DEF c, z
  <2> QED
    BY <2>6, <2>7
<1>3. \A u \in Name : \A s \in Symbol : u \in T => Append(u, s) \in T
  <2> HIDE DEF Of
  <2> QED
    BY <1>2, BytesOfAppend
<1>4. t \in T
  <2> HIDE DEF T
  <2> QED
    BY <1>1, <1>3, SeqInduction DEF Name
<1>5. Len(<<>>) = 0
  OBVIOUS
<1> QED
  BY <1>4, <1>5, NoBytes

LEMMA BytesInARow ==
  ASSUME NEW a \in Name, NEW b \in Name
  PROVE  a \o b \in Name /\ Bytes(a \o b) = Bytes(a) \o Bytes(b)
<1>1. a \o b \in Name
  BY ConcatProperties DEF Name
<1>2. Flat(UTF8, a \o b) = Flat(UTF8, a) \o Flat(UTF8, b)
  BY UTF8Typed, FlatInARow DEF Name
<1> QED
  BY <1>1, <1>2, BytesAreFlat

ValidText(t) == t # <<>> /\ \A i \in 1..Len(t) : t[i] \in Letter \cup Digit \cup {Underscore}

LEMMA ValidIs ==
  ASSUME NEW t \in Name
  PROVE  ValidVariableName(Bytes(t)) <=> ValidText(t)
<1>1. Runes(Bytes(t)) = t
  BY Decoded
<1>2. DOMAIN t = 1..Len(t)
  BY LenProperties DEF Name
<1> QED
  BY <1>1, <1>2, FirstByte DEF ValidVariableName, ValidText

CasedName(text, camel) == IF camel THEN CamelCase(Title(Spaced(text))) ELSE Title(Spaced(text))

LEMMA Formatted ==
  ASSUME NEW text, NEW camel \in BOOLEAN, NEW initialisms \in BOOLEAN,
         CasedName(text, camel) \in Seq(Even), Spaced(text) \in Seq(Even)
  PROVE  \E u, v :
           /\ Alike(u, CasedName(text, camel)) /\ Alike(v, Spaced(text))
           /\ FormatColumnName(text, camel, initialisms) =
                IF ~ValidText(u) THEN [kind |-> "refused", ident |-> <<>>]
                ELSE [kind |-> "accepted",
                      ident |-> IF u[1] \in LetterByte THEN u
                                ELSE Prefix(camel) \o (IF initialisms THEN v ELSE u)]
<1> DEFINE c == CasedName(text, camel)
           s == Spaced(text)
           name == IF initialisms THEN ToInitialisms(Bytes(c)) ELSE Bytes(c)
           raw  == IF initialisms THEN ToInitialisms(Bytes(s)) ELSE name
<1>1. c \in Name /\ s \in Name
  BY Aligned
<1>2. Bytes(IF camel THEN CamelCase(Title(Spaced(text))) ELSE Title(Spaced(text))) = Bytes(c)
  BY DEF CasedName
<1>3. FormatColumnName(text, camel, initialisms) =
        IF name = Panic THEN Outcome(Panic)
        ELSE IF ~ValidVariableName(name) THEN [kind |-> "refused", ident |-> <<>>]
        ELSE IF BeginsWithLetter(name) THEN Outcome(name)
        ELSE Outcome(WithPrefix(camel, raw))
  BY <1>2 DEF FormatColumnName
<1> HIDE DEF c, s
<1>4. PICK u : Alike(u, c) /\ name = Bytes(u)
  <2>1. CASE initialisms
    <3>1. \E u : Alike(u, c) /\ ToInitialisms(Bytes(c)) = Bytes(u)
      BY ToInitialismsRightly DEF c
    <3> QED
      BY <2>1, <3>1
  <2>2. CASE ~initialisms
    BY <1>1, <2>2, Myself
  <2> QED
    BY <2>1, <2>2
<1>5. PICK v : Alike(v, s) /\ raw = Bytes(IF initialisms THEN v ELSE u)
  <2>1. CASE initialisms
    <3>1. \E x : Alike(x, s) /\ ToInitialisms(Bytes(s)) = Bytes(x)
      BY ToInitialismsRightly DEF s
    <3> QED
      BY <2>1, <3>1
  <2>2. CASE ~initialisms
    BY <1>1, <1>4, <2>2, Myself
  <2> QED
    BY <2>1, <2>2
<1> HIDE DEF name, raw
<1> DEFINE rest == IF initialisms THEN v ELSE u
           full == Prefix(camel) \o rest
<1>6. u \in Name /\ v \in Name /\ rest \in Name
  BY <1>4, <1>5 DEF Alike
<1>7. name # Panic /\ Outcome(name) = [kind |-> "accepted", ident |-> u]
  BY <1>4, <1>6, NoPanic, Decoded DEF Outcome
<1>8. ValidVariableName(name) <=> ValidText(u)
  BY <1>4, <1>6, ValidIs
<1>9. ValidText(u) => (BeginsWithLetter(name) <=> u[1] \in LetterByte)
  <2>1. ValidText(u) => name[1] = <<u[1], 1>>
    BY <1>4, <1>6, FirstByte DEF ValidText
  <2> QED
    BY <2>1, Pair DEF BeginsWithLetter
<1>10. Prefix(camel) \in Name
  <2>1. Cross \in Symbol /\ Underscore \in Symbol
    BY SymbolAssumption
  <2>2. <<Cross>> \in Name /\ <<Cross, Underscore>> \in Name
    BY <2>1 DEF Name
  <2> QED
    BY <2>2 DEF Prefix
<1> HIDE DEF rest
<1>11. full \in Name /\ Bytes(full) = Bytes(Prefix(camel)) \o Bytes(rest)
  BY <1>6, <1>10, BytesInARow
<1>12. raw = Bytes(rest)
  BY <1>5 DEF rest
<1>13. WithPrefix(camel, raw) = Bytes(full)
  BY <1>6, <1>11, <1>12, NoPanic DEF WithPrefix
<1>14. Outcome(WithPrefix(camel, raw)) = [kind |-> "accepted", ident |-> full]
  BY <1>11, <1>13, NoPanic, Decoded DEF Outcome
<1>15. FormatColumnName(text, camel, initialisms) =
         IF ~ValidText(u) THEN [kind |-> "refused", ident |-> <<>>]
         ELSE [kind |-> "accepted", ident |-> IF u[1] \in LetterByte THEN u ELSE full]
  BY <1>3, <1>7, <1>8, <1>9, <1>14
<1> QED
  BY <1>4, <1>5, <1>15 DEF c, s, rest

-----------------------------------------------------------------------------
(* What cases a character has.                                             *)
LEMMA FormsHave ==
  ASSUME NEW S, NEW s \in S
  PROVE  {s, Lower[s], Upper[s]} \subseteq Forms(S)
BY DEF Forms

LEMMA FormsOnly ==
  ASSUME NEW S \in SUBSET Symbol, NEW x \in Forms(S)
  PROVE  x \in Symbol /\ \E s \in S : x \in {s, Lower[s], Upper[s]}
<1>1. \E s \in S : x \in {s, Lower[s], Upper[s]}
  BY DEF Forms
<1> QED
  BY <1>1, SymbolAssumption

LEMMA CasesTyped ==
  ASSUME NEW s \in Symbol
  PROVE  CasesOf(s) \subseteq Symbol
<1> DEFINE one == {s}
           two == Forms(one)
           three == Forms(two)
<1>1. one \in SUBSET Symbol
  OBVIOUS
<1> HIDE DEF one
<1>2. two \in SUBSET Symbol
  BY <1>1, FormsOnly
<1> HIDE DEF two
<1>3. three \in SUBSET Symbol
  BY <1>2, FormsOnly
<1> HIDE DEF three
<1>4. Forms(three) \in SUBSET Symbol
  BY <1>3, FormsOnly
<1> QED
  BY <1>4 DEF CasesOf, one, two, three

(* Title, lower and title case are among them.                             *)
LEMMA CasesHave ==
  ASSUME NEW s \in Symbol, NEW t \in {s, Upper[s]}, NEW low \in {t, Lower[t]}
  PROVE  low \in CasesOf(s) /\ Upper[low] \in CasesOf(s)
<1> DEFINE one == {s}
           two == Forms(one)
           three == Forms(two)
<1>1. s \in one
  OBVIOUS
<1> HIDE DEF one
<1>2. t \in two
  BY <1>1, FormsHave
<1> HIDE DEF two
<1>3. low \in three
  BY <1>2, FormsHave
<1> HIDE DEF three
<1>4. low \in Forms(three) /\ Upper[low] \in Forms(three)
  BY <1>3, FormsHave
<1> QED
  BY <1>4 DEF CasesOf, one, two, three

(* What has no case remains what it is, and nothing becomes it.            *)
LEMMA CaselessStays ==
  ASSUME NEW s \in Symbol, NEW x \in CasesOf(s), s \in Caseless \/ x \in Caseless
  PROVE  x = s
<1> DEFINE one == {s}
           two == Forms(one)
           three == Forms(two)
<1>1. \A a \in Symbol : {a, Lower[a], Upper[a]} \cap Caseless # {} => Lower[a] = a /\ Upper[a] = a
  BY CaseAssumption
<1>2. one \in SUBSET Symbol /\ two \in SUBSET Symbol /\ three \in SUBSET Symbol
  <2>1. one \in SUBSET Symbol
    OBVIOUS
  <2> HIDE DEF one
  <2>2. two \in SUBSET Symbol
    BY <2>1, FormsOnly
  <2> HIDE DEF two
  <2>3. three \in SUBSET Symbol
    BY <2>2, FormsOnly
  <2> QED
    BY <2>1, <2>2, <2>3
<1>3. \A r \in one : r = s
  OBVIOUS
<1>4. x \in Forms(three)
  BY DEF CasesOf
<1> HIDE DEF one, two, three
<1>5. PICK a \in three : x \in {a, Lower[a], Upper[a]}
  BY <1>2, <1>4, FormsOnly
<1>6. PICK b \in two : a \in {b, Lower[b], Upper[b]}
  <2>1. a \in Forms(two)
    BY DEF three
  <2> QED
    BY <1>2, <2>1, FormsOnly
<1>7. b \in {s, Lower[s], Upper[s]}
  <2>1. b \in Forms(one)
    BY DEF two
  <2>2. PICK r \in one : b \in {r, Lower[r], Upper[r]}
    BY <1>2, <2>1, FormsOnly
  <2> QED
    BY <1>3, <2>2
<1>8. a \in Symbol /\ b \in Symbol /\ x \in Symbol
  BY <1>2, <1>4, FormsOnly
<1>9. CASE s \in Caseless
  <2>1. b = s
    BY <1>1, <1>7, <1>9
  <2>2. a = s
    BY <1>1, <1>6, <1>9, <2>1
  <2> QED
    BY <1>1, <1>5, <1>9, <2>2
<1>10. CASE x \in Caseless
  <2>1. a = x
    BY <1>1, <1>5, <1>8, <1>10
  <2>2. b = x
    BY <1>1, <1>6, <1>8, <1>10, <2>1
  <2> QED
    BY <1>1, <1>7, <1>8, <1>10, <2>2
<1> QED
  BY <1>9, <1>10

LEMMA LettersStay ==
  ASSUME NEW s \in Letter, NEW x \in CasesOf(s)
  PROVE  x \in Letter
<1> DEFINE L == {a \in Symbol : a \in Letter}
<1>1. s \in Symbol
  BY SymbolAssumption
<1>2. ASSUME NEW S \in SUBSET L PROVE Forms(S) \in SUBSET L
  <2> SUFFICES ASSUME NEW y \in Forms(S) PROVE y \in L
    OBVIOUS
  <2>1. S \in SUBSET Symbol /\ \A r \in S : r \in Letter
    BY DEF L
  <2> HIDE DEF L
  <2>2. y \in Symbol /\ \E r \in S : y \in {r, Lower[r], Upper[r]}
    BY <2>1, FormsOnly
  <2>3. y \in Letter
    BY <2>1, <2>2, CaseAssumption
  <2> QED
    BY <2>2, <2>3 DEF L
<1>3. {s} \in SUBSET L
  BY <1>1
<1> HIDE DEF L
<1>4. CasesOf(s) \in SUBSET L
  BY <1>2, <1>3 DEF CasesOf
<1> QED
  BY <1>4 DEF L

LEMMA PlainUnderscore == Underscore \in Symbol /\ Plain(Underscore)
<1>1. Underscore \in Symbol /\ Underscore \notin Letter /\ Underscore \notin LetterByte
  BY SymbolAssumption
<1>2. Underscore \in Caseless
  BY DEF Caseless
<1>3. \A c \in CasesOf(Underscore) : c = Underscore
  BY <1>1, <1>2, CaselessStays
<1>4. Lower[Underscore] = Underscore
  BY <1>1, <1>2, CaseAssumption
<1> QED
  BY <1>1, <1>3, <1>4 DEF Plain, Steady

-----------------------------------------------------------------------------
(* Capitals at the beginning of words.                                     *)
LEMMA SpacedTyped ==
  ASSUME NEW t \in Name
  PROVE  /\ Spaced(t) \in Name /\ Len(Spaced(t)) = Len(t) /\ Len(t) \in Nat
         /\ \A i \in 1..Len(t) : /\ t[i] \in Symbol
                                 /\ Spaced(t)[i] = IF t[i] \in Space THEN Underscore ELSE t[i]
<1>1. Len(t) \in Nat /\ DOMAIN t = 1..Len(t) /\ \A i \in 1..Len(t) : t[i] \in Symbol
  BY DEF Name
<1> DEFINE n == Len(t)
           sp == [i \in 1..n |-> IF t[i] \in Space THEN Underscore ELSE t[i]]
<1>2. Spaced(t) = sp
  BY <1>1 DEF Spaced
<1>3. \A i \in 1..n : (IF t[i] \in Space THEN Underscore ELSE t[i]) \in Symbol
  BY <1>1, SymbolAssumption
<1>4. sp \in Seq(Symbol) /\ Len(sp) = n
  BY <1>1, <1>3
<1> QED
  BY <1>1, <1>2, <1>4 DEF Name

LEMMA CapitalisedTyped ==
  ASSUME NEW t \in Name, NEW breaks
  PROVE  LET c == Capitalised(t, breaks)
         IN /\ c \in Name /\ Len(c) = Len(t) /\ Len(t) \in Nat
            /\ \A i \in 1..Len(t) : /\ c[i] = t[i] \/ c[i] = Upper[t[i]]
                                    /\ (\A j \in 1..(i - 1) : ~Cased(t[j])) => c[i] = Upper[t[i]]
<1> DEFINE n == Len(t)
           C(i) == IF BeginsWord(t, i, breaks) THEN Upper[t[i]] ELSE t[i]
           c == [i \in 1..n |-> C(i)]
<1>1. n \in Nat /\ DOMAIN t = 1..n /\ \A i \in 1..n : t[i] \in Symbol
  BY DEF Name
<1>2. Capitalised(t, breaks) = c
  BY <1>1 DEF Capitalised
<1>3. \A i \in 1..n : C(i) \in Symbol /\ (C(i) = t[i] \/ C(i) = Upper[t[i]])
  BY <1>1, SymbolAssumption
<1>4. ASSUME NEW i \in 1..n, \A j \in 1..(i - 1) : ~Cased(t[j])
      PROVE  C(i) = Upper[t[i]]
  <2>1. BeginsWord(t, i, breaks) <=> Cased(t[i])
    BY <1>4 DEF BeginsWord
  <2>2. ~Cased(t[i]) => Upper[t[i]] = t[i]
    BY <1>1, CaseAssumption DEF Cased
  <2> QED
    BY <2>1, <2>2
<1> HIDE DEF n, C
<1>5. c \in Seq(Symbol) /\ Len(c) = n /\ \A i \in 1..n : c[i] = C(i)
  BY <1>1, <1>3
<1> QED
  BY <1>1, <1>2, <1>3, <1>4, <1>5 DEF Name, n

-----------------------------------------------------------------------------
(* What is left of a text without some of its symbols.                     *)
Drop(symbols) == [s \in Symbol |-> IF s \in symbols THEN <<>> ELSE <<s>>]

LEMMA DropTyped ==
  ASSUME NEW symbols
  PROVE  /\ Drop(symbols) \in [Symbol -> Seq(Symbol)]
         /\ \A s \in Symbol : Drop(symbols)[s] = IF s \in symbols THEN <<>> ELSE <<s>>
<1>1. \A s \in Symbol : (IF s \in symbols THEN <<>> ELSE <<s>>) \in Seq(Symbol)
  <2> SUFFICES ASSUME NEW s \in Symbol PROVE (IF s \in symbols THEN <<>> ELSE <<s>>) \in Seq(Symbol)
    OBVIOUS
  <2>1. <<>> \in Seq(Symbol) /\ <<s>> \in Seq(Symbol)
    BY EmptySeq
  <2> QED
    BY <2>1
<1> QED
  BY <1>1 DEF Drop

LEMMA WithoutIsFlat ==
  ASSUME NEW t \in Name, NEW symbols
  PROVE  Without(t, symbols) = Flat(Drop(symbols), t)
<1>1. \A i \in DOMAIN t : t[i] \in Symbol
  BY DEF Name
<1>2. \A i \in DOMAIN t : Drop(symbols)[t[i]] = IF t[i] \in symbols THEN <<>> ELSE <<t[i]>>
  BY <1>1, DropTyped
<1>3. [i \in DOMAIN t |-> Drop(symbols)[t[i]]]
        = [i \in DOMAIN t |-> IF t[i] \in symbols THEN <<>> ELSE <<t[i]>>]
  BY <1>2
<1> QED
  BY <1>3 DEF Without, Flat

LEMMA OneMoreDropped ==
  ASSUME NEW t \in Name, NEW s \in Symbol, NEW symbols
  PROVE  Without(Append(t, s), symbols) = Without(t, symbols) \o Drop(symbols)[s]
<1> DEFINE f == Drop(symbols)
           T == Symbol
<1>1. f \in [Symbol -> Seq(T)] /\ t \in Seq(Symbol)
  BY DropTyped DEF Name
<1>2. Append(t, s) \in Name
  BY <1>1 DEF Name
<1>3. Without(Append(t, s), symbols) = Flat(f, Append(t, s)) /\ Without(t, symbols) = Flat(f, t)
  BY <1>2, WithoutIsFlat
<1> HIDE DEF f, T
<1>4. Flat(f, Append(t, s)) = Flat(f, t) \o f[s]
  BY <1>1, FlatOfAppend, SMTT(30)
<1> QED
  BY <1>3, <1>4 DEF f

(* It begins with the first of the others.                                 *)
Left(t, symbols) ==
  LET w == Without(t, symbols)
  IN /\ w \in Name
     /\ \A k \in 1..Len(w) : \E i \in 1..Len(t) : w[k] = t[i] /\ t[i] \notin symbols
     /\ \A i \in 1..Len(t) : t[i] \notin symbols => \E k \in 1..Len(w) : w[k] = t[i]
     /\ Len(w) > 0 => \E i \in 1..Len(t) : /\ w[1] = t[i] /\ t[i] \notin symbols
                                           /\ \A j \in 1..(i - 1) : t[j] \in symbols

LEMMA WithoutLeaves ==
  ASSUME NEW t \in Name, NEW symbols
  PROVE  Left(t, symbols)
<1> DEFINE T == {u \in Name : Left(u, symbols)}
<1>1. <<>> \in T
  <2>1. <<>> \in Name /\ Without(<<>>, symbols) = <<>>
    <3>1. <<>> \in Name
      BY EmptySeq DEF Name
    <3> QED
      BY <3>1, WithoutIsFlat, FlatOfEmpty
  <2> QED
    BY <2>1 DEF Left
<1>2. ASSUME NEW u \in Name, NEW s \in Symbol, u \in T PROVE Append(u, s) \in T
  <2> DEFINE z == Append(u, s)
             w == Without(u, symbols)
             x == Without(z, symbols)
             n == Len(u)
             m == Len(w)
  <2>1. /\ z \in Name /\ n \in Nat /\ Len(z) = n + 1 /\ z[n + 1] = s
        /\ \A i \in 1..n : z[i] = u[i]
    BY DEF Name
  <2>2. x = w \o Drop(symbols)[s]
    BY OneMoreDropped
  <2>3. /\ w \in Name /\ m \in Nat
        /\ m > 0 => \E i \in 1..n : /\ w[1] = u[i] /\ u[i] \notin symbols
                                    /\ \A j \in 1..(i - 1) : u[j] \in symbols
    <3>1. Left(u, symbols)
      BY <1>2
    <3>2. \A y \in Name : Len(y) \in Nat
      BY DEF Name
    <3> QED
      BY <3>1, <3>2 DEF Left
  <2>7. \A k \in 1..m : \E i \in 1..n : w[k] = u[i] /\ u[i] \notin symbols
    BY <1>2 DEF Left
  <2>8. \A i \in 1..n : u[i] \notin symbols => \E k \in 1..m : w[k] = u[i]
    BY <1>2 DEF Left
  <2>4. Drop(symbols)[s] = IF s \in symbols THEN <<>> ELSE <<s>>
    BY DropTyped
  <2> HIDE DEF z, w, x, n, m
  <2>5. CASE s \in symbols
    <3>1. x = w
      <4>1. x = w \o <<>> /\ w \in Seq(Symbol)
        BY <2>2, <2>3, <2>4, <2>5 DEF Name
      <4> QED
        BY ONLY <4>1, ConcatEmptySeq
    <3>2. \A k \in 1..m : \E i \in 1..(n + 1) : w[k] = z[i] /\ z[i] \notin symbols
      <4> SUFFICES ASSUME NEW k \in 1..m
                   PROVE  \E i \in 1..(n + 1) : w[k] = z[i] /\ z[i] \notin symbols
        OBVIOUS
      <4>1. PICK i \in 1..n : w[k] = u[i] /\ u[i] \notin symbols
        BY <2>7
      <4> QED
        BY <2>1, <4>1
    <3>3. \A i \in 1..(n + 1) : z[i] \notin symbols => \E k \in 1..m : w[k] = z[i]
      <4> SUFFICES ASSUME NEW i \in 1..(n + 1), z[i] \notin symbols
                   PROVE  \E k \in 1..m : w[k] = z[i]
        OBVIOUS
      <4>1. i # n + 1
        BY <2>1, <2>5
      <4>2. i \in 1..n
        BY <2>1, <4>1
      <4>3. u[i] \notin symbols /\ z[i] = u[i]
        BY <2>1, <4>2
      <4>4. \E k \in 1..m : w[k] = u[i]
        BY <2>8, <4>2, <4>3
      <4> QED
        BY <4>3, <4>4
    <3>4. m > 0 => \E i \in 1..(n + 1) : /\ w[1] = z[i] /\ z[i] \notin symbols
                                         /\ \A j \in 1..(i - 1) : z[j] \in symbols
      <4> SUFFICES ASSUME m > 0
                   PROVE  \E i \in 1..(n + 1) : /\ w[1] = z[i] /\ z[i] \notin symbols
                                                /\ \A j \in 1..(i - 1) : z[j] \in symbols
        OBVIOUS
      <4>1. PICK i \in 1..n : /\ w[1] = u[i] /\ u[i] \notin symbols
                              /\ \A j \in 1..(i - 1) : u[j] \in symbols
        BY <2>3
      <4>2. i \in 1..(n + 1) /\ \A j \in 1..(i - 1) : j \in 1..n
        BY <2>1
      <4> QED
        BY <2>1, <4>1, <4>2
    <3>5. Len(z) = n + 1 /\ z \in Name
      BY <2>1
    <3>6. Without(z, symbols) = w
      BY <3>1 DEF x
    <3>7. \A q : q = w =>
            /\ q \in Name
            /\ \A k \in 1..Len(q) : \E i \in 1..Len(z) : q[k] = z[i] /\ z[i] \notin symbols
            /\ \A i \in 1..Len(z) : z[i] \notin symbols => \E k \in 1..Len(q) : q[k] = z[i]
            /\ Len(q) > 0 => \E i \in 1..Len(z) : /\ q[1] = z[i] /\ z[i] \notin symbols
                                                  /\ \A j \in 1..(i - 1) : z[j] \in symbols
      BY <2>3, <3>2, <3>3, <3>4, <3>5 DEF m
    <3>8. Left(z, symbols)
      BY <3>6, <3>7 DEF Left
    <3> QED
      BY <3>5, <3>8 DEF z
  <2>6. CASE s \notin symbols
    <3> DEFINE one == <<s>>
    <3>1. Len(one) = 1 /\ one[1] = s /\ x = w \o one
      BY <2>2, <2>4, <2>6
    <3>7. w \in Seq(Symbol) /\ one \in Seq(Symbol)
      BY <2>3 DEF Name
    <3> HIDE DEF one
    <3>2. /\ x \in Name /\ Len(x) = m + 1
          /\ \A k \in 1..m : x[k] = w[k]
          /\ \A k \in 1..1 : x[m + k] = one[k]
      <4>1. /\ w \o one \in Seq(Symbol) /\ Len(w \o one) = Len(w) + Len(one)
            /\ \A k \in 1..Len(w) : (w \o one)[k] = w[k]
            /\ \A k \in 1..Len(one) : (w \o one)[Len(w) + k] = one[k]
        BY ONLY <3>7, InARow
      <4> QED
        BY <3>1, <4>1 DEF Name, m
    <3>3. x[m + 1] = s
      <4>1. 1 \in 1..1
        OBVIOUS
      <4> QED
        BY <3>1, <3>2, <4>1
    <3>4. \A k \in 1..(m + 1) : \E i \in 1..(n + 1) : x[k] = z[i] /\ z[i] \notin symbols
      <4> SUFFICES ASSUME NEW k \in 1..(m + 1)
                   PROVE  \E i \in 1..(n + 1) : x[k] = z[i] /\ z[i] \notin symbols
        OBVIOUS
      <4>1. CASE k \in 1..m
        <5>1. PICK i \in 1..n : w[k] = u[i] /\ u[i] \notin symbols
          BY <2>7, <4>1
        <5> QED
          BY <2>1, <3>2, <4>1, <5>1
      <4>2. CASE k = m + 1
        BY <2>1, <2>6, <3>3, <4>2
      <4> QED
        BY <2>3, <4>1, <4>2
    <3>5. \A i \in 1..(n + 1) : z[i] \notin symbols => \E k \in 1..(m + 1) : x[k] = z[i]
      <4> SUFFICES ASSUME NEW i \in 1..(n + 1), z[i] \notin symbols
                   PROVE  \E k \in 1..(m + 1) : x[k] = z[i]
        OBVIOUS
      <4>1. CASE i \in 1..n
        <5>1. PICK k \in 1..m : w[k] = u[i]
          BY <2>1, <2>8, <4>1
        <5> QED
          BY <2>1, <2>3, <3>2, <4>1, <5>1
      <4>2. CASE i = n + 1
        BY <2>1, <2>3, <3>3, <4>2
      <4> QED
        BY <2>1, <4>1, <4>2
    <3>6. \E i \in 1..(n + 1) : /\ x[1] = z[i] /\ z[i] \notin symbols
                                /\ \A j \in 1..(i - 1) : z[j] \in symbols
      <4>1. CASE m > 0
        <5>1. PICK i \in 1..n : /\ w[1] = u[i] /\ u[i] \notin symbols
                                /\ \A j \in 1..(i - 1) : u[j] \in symbols
          BY <2>3, <4>1
        <5>2. i \in 1..(n + 1) /\ (\A j \in 1..(i - 1) : j \in 1..n) /\ 1 \in 1..m
          BY <2>1, <2>3, <4>1
        <5> QED
          BY <2>1, <3>2, <5>1, <5>2
      <4>2. CASE m = 0
        <5>1. \A i \in 1..n : u[i] \in symbols
          BY <2>8, <4>2
        <5>2. n + 1 \in 1..(n + 1) /\ \A j \in 1..((n + 1) - 1) : j \in 1..n
          BY <2>1
        <5>3. x[1] = s
          BY <3>3, <4>2
        <5> QED
          BY <2>1, <2>6, <5>1, <5>2, <5>3
      <4> QED
        BY <2>3, <4>1, <4>2
    <3> QED
      BY <2>1, <3>2, <3>4, <3>5, <3>6 DEF Left, x, z, n, m, w
  <2> QED
    BY <2>5, <2>6 DEF z
<1>3. \A u \in Seq(Symbol) : u \in T
  <2> HIDE DEF T
  <2>1. \A u \in Seq(Symbol) : \A s \in Symbol : u \in T => Append(u, s) \in T
    BY <1>2 DEF Name
  <2> QED
    BY <1>1, <2>1, SeqInduction
<1> QED
  BY <1>3 DEF Name

-----------------------------------------------------------------------------
(* camelCaseString: where its characters come from.                        *)
Turned(s) == {s, Upper[s], Lower[s], Upper[Lower[s]]}

LEMMA CamelCased ==
  ASSUME NEW t \in Name
  PROVE  LET c == CamelCase(t)
         IN /\ c \in Name
            /\ \A k \in 1..Len(c) : \E i \in 1..Len(t) : c[k] \in Turned(t[i]) /\ t[i] # Underscore
            /\ \A i \in 1..Len(t) : t[i] # Underscore => \E k \in 1..Len(c) : c[k] \in Turned(t[i])
            /\ Len(c) > 0 => Upper[c[1]] = c[1]
<1> DEFINE c == CamelCase(t)
           n == Len(t)
<1>1. n \in Nat /\ \A i \in 1..n : t[i] \in Symbol
  BY DEF Name
<1>2. \A s \in Symbol : Upper[Upper[s]] = Upper[s]
  BY CaseAssumption
<1>3. CASE ~Contains(t, Underscore)
  <2>1. \A i \in 1..n : t[i] # Underscore
    BY <1>3 DEF Contains
  <2>2. c = Capitalised(t, Break)
    BY <1>3 DEF CamelCase, Title
  <2> HIDE DEF c
  <2>3. /\ c \in Name /\ Len(c) = n
        /\ \A i \in 1..n : c[i] = t[i] \/ c[i] = Upper[t[i]]
        /\ \A i \in 1..n : (\A j \in 1..(i - 1) : ~Cased(t[j])) => c[i] = Upper[t[i]]
    BY <2>2, CapitalisedTyped
  <2>4. \A i \in 1..n : c[i] \in Turned(t[i])
    BY <2>3 DEF Turned
  <2>5. n > 0 => Upper[c[1]] = c[1]
    <3> SUFFICES ASSUME n > 0 PROVE Upper[c[1]] = c[1]
      OBVIOUS
    <3>1. 1 \in 1..n /\ \A j \in 1..(1 - 1) : ~Cased(t[j])
      BY <1>1
    <3>2. c[1] = Upper[t[1]]
      BY <2>3, <3>1
    <3> QED
      BY <1>1, <1>2, <3>1, <3>2
  <2> QED
    BY <2>1, <2>3, <2>4, <2>5 DEF c
<1>4. CASE Contains(t, Underscore)
  <2> DEFINE l == Lowered(t)
             z == Capitalised(l, Break \cup {Underscore})
  <2>1. c = Without(z, {Underscore})
    BY <1>4 DEF CamelCase
  <2> HIDE DEF c
  <2>2. l \in Name /\ Len(l) = n /\ \A i \in 1..n : l[i] = Lower[t[i]]
    BY LoweredTyped
  <2> HIDE DEF l
  <2>3. /\ z \in Name /\ Len(z) = n
        /\ \A i \in 1..n : z[i] = l[i] \/ z[i] = Upper[l[i]]
        /\ \A i \in 1..n : (\A j \in 1..(i - 1) : ~Cased(l[j])) => z[i] = Upper[l[i]]
    BY <2>2, CapitalisedTyped
  <2> HIDE DEF z
  <2>10. \A y \in Name : Len(y) \in Nat
    BY DEF Name
  <2>4. /\ c \in Name /\ Len(c) \in Nat
        /\ \A k \in 1..Len(c) : \E i \in 1..n : c[k] = z[i] /\ z[i] # Underscore
        /\ \A i \in 1..n : z[i] # Underscore => \E k \in 1..Len(c) : c[k] = z[i]
        /\ Len(c) > 0 => \E i \in 1..n : /\ c[1] = z[i]
                                         /\ \A j \in 1..(i - 1) : z[j] = Underscore
    <3>1. Left(z, {Underscore})
      BY <2>3, WithoutLeaves
    <3>2. /\ c \in Name
          /\ \A k \in 1..Len(c) : \E i \in 1..Len(z) : c[k] = z[i] /\ z[i] \notin {Underscore}
          /\ \A i \in 1..Len(z) : z[i] \notin {Underscore} => \E k \in 1..Len(c) : c[k] = z[i]
          /\ Len(c) > 0 => \E i \in 1..Len(z) : /\ c[1] = z[i] /\ z[i] \notin {Underscore}
                                                /\ \A j \in 1..(i - 1) : z[j] \in {Underscore}
      BY <2>1, <3>1 DEF Left
    <3> QED
      BY <2>3, <2>10, <3>2
  <2>5. \A i \in 1..n : z[i] \in Turned(t[i])
    BY <2>2, <2>3 DEF Turned
  <2>6. \A i \in 1..n : (z[i] = Underscore <=> t[i] = Underscore) /\ (z[i] = Underscore => ~Cased(l[i]))
    <3> SUFFICES ASSUME NEW i \in 1..n
                 PROVE  (z[i] = Underscore <=> t[i] = Underscore) /\ (z[i] = Underscore => ~Cased(l[i]))
      OBVIOUS
    <3>1. \A a \in Symbol : a = Underscore \/ Lower[a] = Underscore \/ Upper[a] = Underscore
                              => Lower[a] = a /\ Upper[a] = a
      BY CaseAssumption DEF Caseless
    <3>2. t[i] \in Symbol /\ Lower[t[i]] \in Symbol
      BY <1>1, SymbolAssumption
    <3>3. z[i] \in {Lower[t[i]], Upper[Lower[t[i]]]}
      BY <2>2, <2>3
    <3>4. z[i] = Underscore <=> t[i] = Underscore
      BY <3>1, <3>2, <3>3
    <3>5. t[i] = Underscore => Lower[l[i]] = Upper[l[i]]
      BY <2>2, <3>1, <3>2
    <3> QED
      BY <3>4, <3>5 DEF Cased
  <2>7. Len(c) > 0 => Upper[c[1]] = c[1]
    <3> SUFFICES ASSUME Len(c) > 0 PROVE Upper[c[1]] = c[1]
      OBVIOUS
    <3>1. PICK i \in 1..n : c[1] = z[i] /\ \A j \in 1..(i - 1) : z[j] = Underscore
      BY <2>4
    <3>2. \A j \in 1..(i - 1) : j \in 1..n
      BY <1>1
    <3>3. \A j \in 1..(i - 1) : ~Cased(l[j])
      BY <2>6, <3>1, <3>2
    <3>4. c[1] = Upper[l[i]] /\ l[i] \in Symbol
      BY <2>2, <2>3, <3>1, <3>3 DEF Name
    <3> QED
      BY <1>2, <3>4
  <2>8. \A k \in 1..Len(c) : \E i \in 1..n : c[k] \in Turned(t[i]) /\ t[i] # Underscore
    BY <2>4, <2>5, <2>6
  <2>9. \A i \in 1..n : t[i] # Underscore => \E k \in 1..Len(c) : c[k] \in Turned(t[i])
    <3> SUFFICES ASSUME NEW i \in 1..n, t[i] # Underscore
                 PROVE  \E k \in 1..Len(c) : c[k] \in Turned(t[i])
      OBVIOUS
    <3>1. PICK k \in 1..Len(c) : c[k] = z[i]
      BY <2>4, <2>6
    <3> QED
      BY <2>5, <3>1
  <2> QED
    BY <2>4, <2>7, <2>8, <2>9 DEF c
<1> QED
  BY <1>3, <1>4

(* The characters of a field are cases of those of the column.             *)
LEMMA TitledTyped ==
  ASSUME NEW t \in Name
  PROVE  /\ Title(Spaced(t)) \in Name /\ Len(Title(Spaced(t))) = Len(t) /\ Len(t) \in Nat
         /\ \A i \in 1..Len(t) :
              /\ t[i] \in Symbol /\ Spaced(t)[i] \in Symbol
              /\ Title(Spaced(t))[i] \in {Spaced(t)[i], Upper[Spaced(t)[i]]}
         /\ Len(t) > 0 => Title(Spaced(t))[1] = Upper[Spaced(t)[1]]
<1> DEFINE s == Spaced(t)
           n == Len(t)
<1>1. s \in Name /\ Len(s) = n /\ n \in Nat /\ \A i \in 1..n : t[i] \in Symbol
  BY SpacedTyped
<1>2. \A i \in 1..n : s[i] \in Symbol
  BY <1>1 DEF Name
<1> DEFINE c == Capitalised(s, Break)
<1>3. Title(Spaced(t)) = c
  BY DEF Title
<1> HIDE DEF s, n
<1>4. /\ c \in Name /\ Len(c) = n
      /\ \A i \in 1..n : c[i] = s[i] \/ c[i] = Upper[s[i]]
      /\ \A i \in 1..n : (\A j \in 1..(i - 1) : ~Cased(s[j])) => c[i] = Upper[s[i]]
  BY <1>1, CapitalisedTyped
<1> HIDE DEF c
<1>5. n > 0 => c[1] = Upper[s[1]]
  <2>1. \A j \in 1..(1 - 1) : ~Cased(s[j])
    OBVIOUS
  <2>2. n > 0 => 1 \in 1..n
    BY <1>1
  <2> QED
    BY <1>4, <2>1, <2>2
<1>6. \A i \in 1..n : c[i] \in {s[i], Upper[s[i]]}
  BY <1>4
<1> QED
  BY <1>1, <1>2, <1>3, <1>4, <1>5, <1>6 DEF s, n

LEMMA TurnedIsCase ==
  ASSUME NEW s \in Symbol, NEW t \in {s, Upper[s]}, NEW x \in Turned(t)
  PROVE  x \in CasesOf(s)
<1>1. t \in CasesOf(s) /\ Upper[t] \in CasesOf(s)
  BY CasesHave
<1>2. Lower[t] \in CasesOf(s) /\ Upper[Lower[t]] \in CasesOf(s)
  BY CasesHave
<1> QED
  BY <1>1, <1>2 DEF Turned

LEMMA CasedTyped ==
  ASSUME NEW t \in Name, NEW camel \in BOOLEAN
  PROVE  LET c == CasedName(t, camel)
             s == Spaced(t)
         IN /\ c \in Name
            /\ \A k \in 1..Len(c) : \E i \in 1..Len(t) :
                 c[k] \in CasesOf(s[i]) /\ (camel => s[i] # Underscore)
            /\ \A i \in 1..Len(t) :
                 ~camel \/ s[i] # Underscore => \E k \in 1..Len(c) : c[k] \in CasesOf(s[i])
            /\ Len(c) > 0 => Upper[c[1]] = c[1]
<1> DEFINE c == CasedName(t, camel)
           s == Spaced(t)
           d == Title(s)
           n == Len(t)
<1>1. /\ d \in Name /\ Len(d) = n /\ n \in Nat
      /\ n > 0 => d[1] = Upper[s[1]]
  BY TitledTyped
<1>2. \A i \in 1..n : s[i] \in Symbol /\ d[i] \in {s[i], Upper[s[i]]}
  BY TitledTyped
<1>3. c = IF camel THEN CamelCase(d) ELSE d
  BY DEF CasedName
<1> HIDE DEF c, s, d, n
<1>4. \A a \in Symbol : Upper[Upper[a]] = Upper[a]
  BY CaseAssumption
<1>5. CASE ~camel
  <2>1. c = d
    BY <1>3, <1>5
  <2>2. \A i \in 1..n : d[i] \in CasesOf(s[i])
    BY <1>2, CasesHave
  <2>3. n > 0 => Upper[d[1]] = d[1]
    <3>1. n > 0 => 1 \in 1..n
      BY <1>1
    <3> QED
      BY <1>1, <1>2, <1>4, <3>1
  <2> QED
    BY <1>1, <1>5, <2>1, <2>2, <2>3 DEF c, s, n
<1>6. CASE camel
  <2>1. c = CamelCase(d)
    BY <1>3, <1>6
  <2>2. /\ c \in Name
        /\ \A k \in 1..Len(c) : \E i \in 1..n : c[k] \in Turned(d[i]) /\ d[i] # Underscore
        /\ \A i \in 1..n : d[i] # Underscore => \E k \in 1..Len(c) : c[k] \in Turned(d[i])
        /\ Len(c) > 0 => Upper[c[1]] = c[1]
    BY <1>1, <2>1, CamelCased
  <2>3. \A i \in 1..n : d[i] = Underscore <=> s[i] = Underscore
    <3>1. \A a \in Symbol : a = Underscore \/ Upper[a] = Underscore => Upper[a] = a
      BY CaseAssumption DEF Caseless
    <3> QED
      BY <1>2, <3>1
  <2>4. \A i \in 1..n : \A x \in Turned(d[i]) : x \in CasesOf(s[i])
    BY <1>2, TurnedIsCase
  <2>5. \A k \in 1..Len(c) : \E i \in 1..n : c[k] \in CasesOf(s[i]) /\ s[i] # Underscore
    <3> SUFFICES ASSUME NEW k \in 1..Len(c)
                 PROVE  \E i \in 1..n : c[k] \in CasesOf(s[i]) /\ s[i] # Underscore
      OBVIOUS
    <3>1. PICK i \in 1..n : c[k] \in Turned(d[i]) /\ d[i] # Underscore
      BY <2>2
    <3> QED
      BY <2>3, <2>4, <3>1
  <2>6. \A i \in 1..n : s[i] # Underscore => \E k \in 1..Len(c) : c[k] \in CasesOf(s[i])
    <3> SUFFICES ASSUME NEW i \in 1..n, s[i] # Underscore
                 PROVE  \E k \in 1..Len(c) : c[k] \in CasesOf(s[i])
      OBVIOUS
    <3>1. PICK k \in 1..Len(c) : c[k] \in Turned(d[i])
      BY <2>2, <2>3
    <3> QED
      BY <2>4, <3>1
  <2> QED
    BY <1>6, <2>2, <2>5, <2>6 DEF c, s, n
<1> QED
  BY <1>5, <1>6

-----------------------------------------------------------------------------
(* A name without a character that changes its length does not panic.      *)
LEMMA SteadyIsEven ==
  ASSUME NEW s \in Symbol, Steady(s), NEW x \in CasesOf(s)
  PROVE  x \in Even
<1>1. x \in Symbol
  BY CasesTyped
<1> QED
  BY <1>1 DEF Steady, Even

LEMMA SpacedSteady ==
  ASSUME NEW t \in Name, \A i \in 1..Len(t) : Steady(t[i])
  PROVE  \A i \in 1..Len(t) : Steady(Spaced(t)[i]) /\ Spaced(t)[i] \in Even
<1> SUFFICES ASSUME NEW i \in 1..Len(t)
             PROVE  Steady(Spaced(t)[i]) /\ Spaced(t)[i] \in Even
  OBVIOUS
<1>1. t[i] \in Symbol /\ Spaced(t)[i] = IF t[i] \in Space THEN Underscore ELSE t[i]
  BY SpacedTyped
<1>2. Steady(Underscore) /\ Underscore \in Symbol
  BY PlainUnderscore DEF Plain
<1> DEFINE s == Spaced(t)[i]
<1>3. s \in Symbol /\ Steady(s)
  BY <1>1, <1>2
<1> HIDE DEF s
<1>4. s \in CasesOf(s)
  BY <1>3, CasesHave
<1>5. s \in Even
  BY <1>3, <1>4, SteadyIsEven
<1> QED
  BY <1>3, <1>5 DEF s

LEMMA SeqOfOthers ==
  ASSUME NEW S, NEW T, NEW t \in Seq(T), \A i \in 1..Len(t) : t[i] \in S
  PROVE  t \in Seq(S)
OBVIOUS

LEMMA SteadyNames ==
  ASSUME NEW t \in Name, \A i \in 1..Len(t) : Steady(t[i]), NEW camel \in BOOLEAN
  PROVE  CasedName(t, camel) \in Seq(Even) /\ Spaced(t) \in Seq(Even)
<1> DEFINE c == CasedName(t, camel)
           s == Spaced(t)
           n == Len(t)
<1>1. s \in Name /\ Len(s) = n /\ n \in Nat
  BY SpacedTyped
<1>2. \A i \in 1..n : Steady(s[i]) /\ s[i] \in Even
  BY SpacedSteady
<1>3. /\ c \in Name
      /\ \A k \in 1..Len(c) : \E i \in 1..n : c[k] \in CasesOf(s[i])
  BY CasedTyped
<1> HIDE DEF c, s, n
<1>4. s \in Seq(Even)
  <2>1. s \in Seq(Symbol)
    BY <1>1 DEF Name
  <2>2. \A i \in 1..Len(s) : s[i] \in Even
    BY <1>1, <1>2
  <2> QED
    BY <2>1, <2>2, SeqOfOthers
<1>5. c \in Seq(Even)
  <2>1. c \in Seq(Symbol)
    BY <1>3 DEF Name
  <2>2. ASSUME NEW k \in 1..Len(c) PROVE c[k] \in Even
    <3>1. PICK i \in 1..n : c[k] \in CasesOf(s[i])
      BY <1>3
    <3>2. s[i] \in Symbol /\ Steady(s[i])
      BY <1>2 DEF Even
    <3> QED
      BY <3>1, <3>2, SteadyIsEven
  <2> QED
    BY <2>1, <2>2, SeqOfOthers
<1> QED
  BY <1>4, <1>5 DEF c, s

(* What the stages say of the names.                                       *)
NamesInv ==
  /\ column \in Columns /\ settings \in SettingsType
  /\ stage \in {"table", "column", "field", "file", "written", "refused", "panicked"}
  /\ stage = "refused" => StructNamed.kind = "refused" \/ FieldNamed.kind = "refused"
  /\ stage = "panicked" => FieldNamed.kind = "panicked"
  /\ stage \in {"field", "file", "written"} => FieldNamed.kind = "accepted" /\ field = FieldNamed.ident

LEMMA NamesStep ==
  ASSUME NamesInv, [FieldNext]_allVars
  PROVE  NamesInv'
<1>1. column' = column /\ settings' = settings
  BY DEF FieldNext, NameStruct, RefuseTable, NameField, RefuseColumn, PanicAtColumn, WriteField,
         WriteFile, ReadTag, Generate, Lookup, LookupFails, Parse, allVars, fieldVars, vars
<1>2. StructNamed' = StructNamed /\ FieldNamed' = FieldNamed
  BY <1>1 DEF StructNamed, FieldNamed
<1>3. CASE NameStruct \/ RefuseTable
  BY <1>1, <1>2, <1>3 DEF NamesInv, NameStruct, RefuseTable
<1>4. CASE NameField \/ RefuseColumn \/ PanicAtColumn
  BY <1>1, <1>2, <1>4 DEF NamesInv, NameField, RefuseColumn, PanicAtColumn
<1>5. CASE WriteField \/ WriteFile
  BY <1>1, <1>2, <1>5 DEF NamesInv, WriteField, WriteFile
<1>6. CASE ReadTag \/ UNCHANGED allVars
  <2>1. stage' = stage /\ field' = field
    BY <1>6 DEF ReadTag, allVars, fieldVars
  <2> QED
    BY <1>1, <1>2, <2>1 DEF NamesInv
<1> QED
  BY <1>3, <1>4, <1>5, <1>6 DEF FieldNext

LEMMA NamesAlways == FieldSpec => []NamesInv
<1>1. FieldInit => NamesInv
  BY DEF FieldInit, Started, NamesInv
<1>2. NamesInv /\ [FieldNext]_allVars => NamesInv'
  BY NamesStep
<1> QED
  BY <1>1, <1>2, PTL DEF FieldSpec

LEMMA NamesTyped ==
  ASSUME NamesInv
  PROVE  /\ column.name \in Name /\ column.table \in Name
         /\ settings.camel \in BOOLEAN /\ settings.initialisms \in BOOLEAN
<1>1. column.name \in AnyName /\ column.table \in AnyTable
  BY DEF NamesInv, Columns
<1>2. column.name \in Seq(Symbol) /\ column.table \in Seq(Symbol)
  BY <1>1, TextAssumption
<1>3. column.name \in Name /\ column.table \in Name
  BY <1>2 DEF Name
<1> QED
  BY <1>3 DEF NamesInv, SettingsType

(* toInitialisms slices out of range only over a character whose case      *)
(* takes more or fewer bytes than it, whatever the name.                   *)
THEOREM FieldSteadyNamesDoNotPanic == FieldSpec => []SteadyNamesDoNotPanic
<1>1. NamesInv => SteadyNamesDoNotPanic
  <2> SUFFICES ASSUME NamesInv, stage = "panicked", \A i \in DOMAIN column.name : Steady(column.name[i])
               PROVE  FALSE
    BY DEF SteadyNamesDoNotPanic
  <2> DEFINE t == column.name
             camel == settings.camel
             initialisms == settings.initialisms
  <2>1. t \in Name /\ camel \in BOOLEAN /\ initialisms \in BOOLEAN
    BY NamesTyped
  <2>2. FormatColumnName(t, camel, initialisms).kind = "panicked"
    BY DEF NamesInv, FieldNamed
  <2>3. \A i \in 1..Len(t) : Steady(t[i])
    BY <2>1 DEF Name
  <2> HIDE DEF t, camel, initialisms
  <2>4. CasedName(t, camel) \in Seq(Even) /\ Spaced(t) \in Seq(Even)
    BY <2>1, <2>3, SteadyNames
  <2>5. PICK u, v :
          /\ Alike(u, CasedName(t, camel)) /\ Alike(v, Spaced(t))
          /\ FormatColumnName(t, camel, initialisms) =
            IF ~ValidText(u) THEN [kind |-> "refused", ident |-> <<>>]
            ELSE [kind |-> "accepted",
                  ident |-> IF u[1] \in LetterByte THEN u
                            ELSE Prefix(camel) \o (IF initialisms THEN v ELSE u)]
    BY <2>1, <2>4, Formatted
  <2>6. FormatColumnName(t, camel, initialisms).kind \in {"refused", "accepted"}
    BY <2>5
  <2> QED
    BY <2>2, <2>6
<1> QED
  BY <1>1, NamesAlways, PTL

-----------------------------------------------------------------------------
(* Which names are refused.                                                *)
Shown == Letter \cup Digit \cup {Underscore}

LEMMA ShownStays ==
  ASSUME NEW s \in Symbol, s \in Shown, NEW x \in CasesOf(s)
  PROVE  x \in Shown
<1>1. CASE s \in Letter
  BY <1>1, LettersStay DEF Shown
<1>2. CASE s \notin Letter
  <2>1. s \in Caseless
    BY <1>2 DEF Shown, Caseless
  <2> QED
    BY <2>1, CaselessStays
<1> QED
  BY <1>1, <1>2

LEMMA ShownBefore ==
  ASSUME NEW s \in Symbol, Plain(s), NEW x \in CasesOf(s), x \in Shown
  PROVE  s \in Shown
<1>1. CASE x \in Letter
  BY <1>1 DEF Plain, Shown
<1>2. CASE x \notin Letter
  <2>1. x \in Caseless
    BY <1>2 DEF Shown, Caseless
  <2> QED
    BY <2>1, CaselessStays
<1> QED
  BY <1>1, <1>2

LEMMA CapitalsOfLetters ==
  ASSUME NEW s \in Symbol, Plain(s), NEW x \in CasesOf(s), NEW a, Capitalises(a, x)
  PROVE  a \in Letter /\ x \in Letter /\ Upper[a] = a
<1>1. a \in Letter /\ Upper[a] = a /\ Lower[a] = Lower[x]
  BY DEF Capitalises, Capital
<1>2. Lower[a] \in Letter
  BY <1>1, CaseAssumption
<1>3. Lower[x] = Lower[s]
  BY DEF Plain
<1>4. Lower[s] \in CasesOf(s)
  BY CasesHave
<1>5. s \in Letter
  BY <1>1, <1>2, <1>3, <1>4 DEF Plain
<1> QED
  BY <1>1, <1>5, LettersStay

LEMMA SpacedPlain ==
  ASSUME NEW t \in Name, \A i \in 1..Len(t) : Plain(t[i])
  PROVE  \A i \in 1..Len(t) : Spaced(t)[i] \in Symbol /\ Plain(Spaced(t)[i])
<1> SUFFICES ASSUME NEW i \in 1..Len(t)
             PROVE  Spaced(t)[i] \in Symbol /\ Plain(Spaced(t)[i])
  OBVIOUS
<1>1. t[i] \in Symbol /\ Spaced(t)[i] = IF t[i] \in Space THEN Underscore ELSE t[i]
  BY SpacedTyped
<1> QED
  BY <1>1, PlainUnderscore

Decided(t, camel) ==
  /\ \A i \in 1..Len(t) : t[i] \in Letter \cup Digit \cup Space \cup {Underscore}
  /\ camel => \E i \in 1..Len(t) : t[i] \notin Space \cup {Underscore}
  /\ Len(t) > 0

LEMMA RefusableIs ==
  ASSUME NEW t \in Name
  PROVE  Refusable(t) <=> ~Decided(t, settings.camel)
<1>1. DOMAIN t = 1..Len(t) /\ Len(t) \in Nat /\ (t = <<>> <=> ~(Len(t) > 0))
  BY EmptySeq DEF Name
<1> QED
  BY <1>1 DEF Refusable, Decided

LEMMA SpacedShown ==
  ASSUME NEW t \in Name, NEW i \in 1..Len(t)
  PROVE  /\ Spaced(t)[i] \in Shown <=> t[i] \in Letter \cup Digit \cup Space \cup {Underscore}
         /\ Spaced(t)[i] = Underscore <=> t[i] \in Space \cup {Underscore}
<1>1. t[i] \in Symbol /\ Spaced(t)[i] = IF t[i] \in Space THEN Underscore ELSE t[i]
  BY SpacedTyped
<1> QED
  BY <1>1 DEF Shown

LEMMA CasedValid ==
  ASSUME NEW t \in Name, \A i \in 1..Len(t) : Plain(t[i]), NEW camel \in BOOLEAN
  PROVE  ValidText(CasedName(t, camel)) <=> Decided(t, camel)
<1> DEFINE c == CasedName(t, camel)
           s == Spaced(t)
           n == Len(t)
<1>1. /\ c \in Name
      /\ \A k \in 1..Len(c) : \E i \in 1..n : c[k] \in CasesOf(s[i]) /\ (camel => s[i] # Underscore)
      /\ \A i \in 1..n : ~camel \/ s[i] # Underscore => \E k \in 1..Len(c) : c[k] \in CasesOf(s[i])
  BY CasedTyped
<1>2. \A i \in 1..n : s[i] \in Symbol /\ Plain(s[i])
  BY SpacedPlain
<1>3. \A i \in 1..n : s[i] \in Shown <=> t[i] \in Letter \cup Digit \cup Space \cup {Underscore}
  BY SpacedShown
<1>4. \A i \in 1..n : s[i] = Underscore <=> t[i] \in Space \cup {Underscore}
  BY SpacedShown
<1>5. n \in Nat /\ Len(c) \in Nat /\ (c # <<>> <=> Len(c) > 0)
  BY <1>1, EmptySeq DEF Name
<1>6. ValidText(c) <=> Len(c) > 0 /\ \A k \in 1..Len(c) : c[k] \in Shown
  BY <1>5 DEF ValidText, Shown
<1> HIDE DEF c, s, n
<1>7. Decided(t, camel) <=> /\ \A i \in 1..n : s[i] \in Shown
                            /\ camel => \E i \in 1..n : s[i] # Underscore
                            /\ n > 0
  BY <1>3, <1>4 DEF Decided, n
<1>8. ASSUME Len(c) > 0, \A k \in 1..Len(c) : c[k] \in Shown
      PROVE  /\ \A i \in 1..n : s[i] \in Shown
             /\ camel => \E i \in 1..n : s[i] # Underscore
             /\ n > 0
  <2>1. 1 \in 1..Len(c)
    BY <1>5, <1>8
  <2>2. PICK i \in 1..n : camel => s[i] # Underscore
    BY <1>1, <2>1
  <2>3. ASSUME NEW j \in 1..n PROVE s[j] \in Shown
    <3>1. CASE s[j] = Underscore
      BY <3>1 DEF Shown
    <3>2. CASE s[j] # Underscore
      <4>1. PICK k \in 1..Len(c) : c[k] \in CasesOf(s[j])
        BY <1>1, <3>2
      <4>2. c[k] \in Shown
        BY <1>8
      <4> QED
        BY <1>2, <4>1, <4>2, ShownBefore
    <3> QED
      BY <3>1, <3>2
  <2>4. n > 0
    BY <1>5, <2>2
  <2> QED
    BY <2>2, <2>3, <2>4
<1>9. ASSUME \A i \in 1..n : s[i] \in Shown, camel => \E i \in 1..n : s[i] # Underscore, n > 0
      PROVE  Len(c) > 0 /\ \A k \in 1..Len(c) : c[k] \in Shown
  <2>1. ASSUME NEW k \in 1..Len(c) PROVE c[k] \in Shown
    <3>1. PICK i \in 1..n : c[k] \in CasesOf(s[i])
      BY <1>1
    <3> QED
      BY <1>2, <1>9, <3>1, ShownStays
  <2>2. \E i \in 1..n : ~camel \/ s[i] # Underscore
    <3>1. 1 \in 1..n
      BY <1>5, <1>9
    <3> QED
      BY <1>9, <3>1
  <2>3. PICK i \in 1..n : ~camel \/ s[i] # Underscore
    BY <2>2
  <2>4. PICK k \in 1..Len(c) : c[k] \in CasesOf(s[i])
    BY <1>1, <2>3
  <2>5. Len(c) > 0
    BY <1>5, <2>4
  <2> QED
    BY <2>1, <2>5
<1> QED
  BY <1>6, <1>7, <1>8, <1>9 DEF c

(* Capitals of initialisms take the place of letters.                      *)
PlainCases(t) == \A i \in 1..Len(t) : \E s \in Symbol : Plain(s) /\ t[i] \in CasesOf(s)

LEMMA AlikeShown ==
  ASSUME NEW t \in Name, PlainCases(t), NEW u, Alike(u, t)
  PROVE  /\ u \in Name /\ Len(u) = Len(t) /\ Len(t) \in Nat
         /\ \A i \in 1..Len(t) : u[i] \in Shown <=> t[i] \in Shown
         /\ \A i \in 1..Len(t) : u[i] \in Letter <=> t[i] \in Letter
         /\ \A i \in 1..Len(t) : Upper[t[i]] = t[i] => Upper[u[i]] = u[i]
<1>1. /\ u \in Name /\ Len(u) = Len(t) /\ Len(t) \in Nat
      /\ \A i \in 1..Len(t) : u[i] = t[i] \/ Capitalises(u[i], t[i])
  BY DEF Alike, Name
<1>2. ASSUME NEW i \in 1..Len(t)
      PROVE  u[i] = t[i] \/ (u[i] \in Letter /\ t[i] \in Letter /\ Upper[u[i]] = u[i])
  <2>1. PICK s \in Symbol : Plain(s) /\ t[i] \in CasesOf(s)
    BY DEF PlainCases
  <2>2. CASE Capitalises(u[i], t[i])
    BY <2>1, <2>2, CapitalsOfLetters
  <2> QED
    BY <1>1, <2>2
<1> QED
  BY <1>1, <1>2 DEF Shown

LEMMA AlikeValid ==
  ASSUME NEW t \in Name, PlainCases(t), NEW u, Alike(u, t)
  PROVE  ValidText(u) <=> ValidText(t)
<1>1. /\ u \in Name /\ Len(u) = Len(t) /\ Len(t) \in Nat
      /\ \A i \in 1..Len(t) : u[i] \in Shown <=> t[i] \in Shown
  BY AlikeShown
<1>2. (u # <<>> <=> Len(u) > 0) /\ (t # <<>> <=> Len(t) > 0)
  BY <1>1, EmptySeq DEF Name
<1> QED
  BY <1>1, <1>2 DEF ValidText, Shown

LEMMA CasedPlain ==
  ASSUME NEW t \in Name, \A i \in 1..Len(t) : Plain(t[i]), NEW camel \in BOOLEAN
  PROVE  /\ CasedName(t, camel) \in Name /\ PlainCases(CasedName(t, camel))
         /\ Spaced(t) \in Name /\ PlainCases(Spaced(t))
<1> DEFINE c == CasedName(t, camel)
           s == Spaced(t)
           n == Len(t)
<1>1. /\ c \in Name
      /\ \A k \in 1..Len(c) : \E i \in 1..n : c[k] \in CasesOf(s[i])
  BY CasedTyped
<1>2. s \in Name /\ Len(s) = n
  BY SpacedTyped
<1>3. \A i \in 1..n : s[i] \in Symbol /\ Plain(s[i])
  BY SpacedPlain
<1> HIDE DEF c, s, n
<1>4. PlainCases(c)
  BY <1>1, <1>3 DEF PlainCases
<1>5. \A i \in 1..n : s[i] \in CasesOf(s[i])
  BY <1>3, CasesHave
<1>6. PlainCases(s)
  BY <1>2, <1>3, <1>5 DEF PlainCases
<1> QED
  BY <1>1, <1>2, <1>4, <1>6 DEF c, s

(* The test of the first byte finds out whether it is a letter.            *)
LEMMA FirstLetter ==
  ASSUME NEW s \in Symbol, Plain(s), NEW x \in CasesOf(s), NEW a, a = x \/ Capitalises(a, x)
  PROVE  a \in LetterByte => a \in Letter
<1>1. CASE a = x
  BY <1>1 DEF Plain
<1>2. CASE Capitalises(a, x)
  BY <1>2, CapitalsOfLetters
<1> QED
  BY <1>1, <1>2

(* The field of a name that is accepted.                                   *)
FieldOf(u, v, camel, initialisms) ==
  IF u[1] \in LetterByte THEN u ELSE Prefix(camel) \o (IF initialisms THEN v ELSE u)

LEMMA PrefixTyped ==
  ASSUME NEW camel \in BOOLEAN
  PROVE  /\ Prefix(camel) \in Name /\ Len(Prefix(camel)) \in 1..2
         /\ Prefix(camel)[1] = Cross
         /\ \A i \in 1..Len(Prefix(camel)) : Prefix(camel)[i] \in {Cross, Underscore}
<1>1. Cross \in Symbol /\ Underscore \in Symbol
  BY SymbolAssumption
<1> DEFINE one == <<Cross>>
           two == <<Cross, Underscore>>
<1>2. one \in Seq(Symbol) /\ Len(one) = 1 /\ one[1] = Cross
  BY <1>1
<1>3. two \in Seq(Symbol) /\ Len(two) = 2 /\ two[1] = Cross /\ two[2] = Underscore
  BY <1>1
<1>4. Prefix(camel) = IF camel THEN one ELSE two
  BY DEF Prefix
<1> HIDE DEF one, two
<1>5. \A i \in 1..1 : one[i] = Cross
  BY <1>2
<1>6. \A i \in 1..2 : two[i] \in {Cross, Underscore}
  BY <1>3
<1>7. CASE camel
  <2>1. Prefix(camel) = one
    BY <1>4, <1>7
  <2> QED
    BY <1>2, <1>5, <2>1 DEF Name
<1>8. CASE ~camel
  <2>1. Prefix(camel) = two
    BY <1>4, <1>8
  <2>2. two \in Name /\ Len(two) \in 1..2 /\ two[1] = Cross
    BY <1>3 DEF Name
  <2>3. \A i \in 1..Len(two) : two[i] \in {Cross, Underscore}
    BY <1>3, <1>6
  <2> QED
    BY <2>1, <2>2, <2>3
<1> QED
  BY <1>7, <1>8

LEMMA FieldIsIdentifier ==
  ASSUME NEW t \in Name, \A i \in 1..Len(t) : Plain(t[i]),
         NEW camel \in BOOLEAN, NEW initialisms \in BOOLEAN,
         NEW u, Alike(u, CasedName(t, camel)), NEW v, Alike(v, Spaced(t)), ValidText(u)
  PROVE  LET f == FieldOf(u, v, camel, initialisms) IN Identifier(f) /\ Upper[f[1]] = f[1]
<1> DEFINE c == CasedName(t, camel)
           s == Spaced(t)
           n == Len(t)
           rest == IF initialisms THEN v ELSE u
           p == Prefix(camel)
           f == p \o rest
<1>1. /\ c \in Name /\ PlainCases(c) /\ s \in Name /\ PlainCases(s)
  BY CasedPlain
<1>2. Len(c) > 0 => Upper[c[1]] = c[1]
  BY CasedTyped
<1>3. \A i \in 1..Len(s) : s[i] \in Shown
  <2>1. ValidText(c)
    BY <1>1, AlikeValid
  <2>2. Decided(t, camel)
    BY <2>1, CasedValid
  <2>3. Len(s) = n
    BY SpacedTyped
  <2>4. \A i \in 1..n : t[i] \in Letter \cup Digit \cup Space \cup {Underscore}
    BY <2>2 DEF Decided
  <2>5. \A i \in 1..n : s[i] \in Shown
    BY <2>4, SpacedShown
  <2> QED
    BY <2>3, <2>5
<1>4. Alike(u, c) /\ Alike(v, s)
  OBVIOUS
<1>5. \A g : FieldOf(u, v, camel, initialisms) = IF u[1] \in LetterByte THEN u ELSE f
  BY DEF FieldOf
<1>6. \A q \in Name : DOMAIN q = 1..Len(q) /\ Len(q) \in Nat /\ (q # <<>> <=> Len(q) > 0)
  BY EmptySeq DEF Name
<1> HIDE DEF c, s, n, f, p
<1>7. /\ u \in Name /\ Len(u) = Len(c)
      /\ \A i \in 1..Len(c) : u[i] = c[i] \/ Capitalises(u[i], c[i])
      /\ \A i \in 1..Len(c) : Upper[c[i]] = c[i] => Upper[u[i]] = u[i]
  BY <1>1, <1>4, AlikeShown DEF Alike
<1>8. v \in Name /\ \A i \in 1..Len(v) : v[i] \in Shown
  <2>1. /\ v \in Name /\ Len(v) = Len(s)
        /\ \A i \in 1..Len(s) : v[i] \in Shown <=> s[i] \in Shown
    BY <1>1, <1>4, AlikeShown
  <2> QED
    BY <1>3, <2>1
<1>9. Len(u) > 0 /\ \A i \in 1..Len(u) : u[i] \in Shown
  BY <1>6, <1>7 DEF ValidText, Shown
<1>10. 1 \in 1..Len(u) /\ Len(c) > 0
  BY <1>6, <1>7, <1>9
<1>11. CASE u[1] \in LetterByte
  <2>1. PICK x \in Symbol : Plain(x) /\ c[1] \in CasesOf(x)
    BY <1>1, <1>7, <1>10 DEF PlainCases
  <2>2. u[1] = c[1] \/ Capitalises(u[1], c[1])
    BY <1>7, <1>10
  <2>3. u[1] \in Letter
    BY <1>11, <2>1, <2>2, FirstLetter
  <2>4. Upper[u[1]] = u[1]
    BY <1>2, <1>7, <1>10
  <2>5. Identifier(u)
    BY <1>6, <1>7, <1>9, <2>3 DEF Identifier, Shown
  <2> QED
    BY <1>5, <1>11, <2>4, <2>5
<1>12. CASE u[1] \notin LetterByte
  <2>1. rest \in Name /\ \A i \in 1..Len(rest) : rest[i] \in Shown
    BY <1>7, <1>8, <1>9
  <2> HIDE DEF rest
  <2>2. /\ p \in Name /\ Len(p) \in 1..2 /\ p[1] = Cross
        /\ \A i \in 1..Len(p) : p[i] \in {Cross, Underscore}
    BY PrefixTyped DEF p
  <2>3. p \in Seq(Symbol) /\ rest \in Seq(Symbol)
    BY <2>1, <2>2 DEF Name
  <2>4. /\ f \in Seq(Symbol) /\ Len(f) = Len(p) + Len(rest) /\ Len(rest) \in Nat
        /\ \A i \in 1..Len(p) : f[i] = p[i]
        /\ \A i \in 1..Len(rest) : f[Len(p) + i] = rest[i]
    BY <2>3, InARow DEF f
  <2>5. f \in Name
    BY <2>4 DEF Name
  <2>6. f[1] = Cross
    <3>1. 1 \in 1..Len(p)
      BY <2>2
    <3> QED
      BY <2>2, <2>4, <3>1
  <2>7. Cross \in Letter /\ Upper[Cross] = Cross
    BY CaseAssumption
  <2>8. ASSUME NEW i \in 1..Len(f) PROVE f[i] \in Shown
    <3>1. i \in 1..(Len(p) + Len(rest))
      BY <2>4
    <3>2. i \in 1..Len(p) \/ \E j \in 1..Len(rest) : i = Len(p) + j
      BY <2>3, <3>1, PlaceInARow
    <3>3. CASE i \in 1..Len(p)
      BY <2>2, <2>4, <2>7, <3>3 DEF Shown
    <3>4. CASE \E j \in 1..Len(rest) : i = Len(p) + j
      <4>1. PICK j \in 1..Len(rest) : i = Len(p) + j
        BY <3>4
      <4>2. f[i] = rest[j]
        BY <2>4, <4>1
      <4> QED
        BY <2>1, <4>2
    <3> QED
      BY <3>2, <3>3, <3>4
  <2>9. Len(f) > 0
    BY <2>2, <2>4
  <2>10. Identifier(f)
    BY <1>6, <2>5, <2>6, <2>7, <2>8, <2>9 DEF Identifier, Shown
  <2> QED
    BY <1>5, <1>12, <2>6, <2>7, <2>10
<1> QED
  BY <1>11, <1>12

(* The name of a table, which is not split before white space is replaced. *)
LEMMA TitleTyped ==
  ASSUME NEW t \in Name
  PROVE  /\ Title(t) \in Name /\ Len(Title(t)) = Len(t) /\ Len(t) \in Nat
         /\ \A i \in 1..Len(t) : t[i] \in Symbol /\ Title(t)[i] \in {t[i], Upper[t[i]]}
<1> DEFINE c == Capitalised(t, Break)
<1>1. Title(t) = c
  BY DEF Title
<1> HIDE DEF c
<1>2. /\ c \in Name /\ Len(c) = Len(t) /\ Len(t) \in Nat
      /\ \A i \in 1..Len(t) : c[i] = t[i] \/ c[i] = Upper[t[i]]
  BY CapitalisedTyped DEF c
<1>3. \A i \in 1..Len(t) : t[i] \in Symbol
  BY DEF Name
<1> QED
  BY <1>1, <1>2, <1>3

LEMMA TableNamed ==
  ASSUME NEW table \in Name, NEW camel \in BOOLEAN, Decided(table, camel)
  PROVE  StructName(table, <<>>, <<>>, camel).kind = "accepted"
<1> DEFINE t == Title(table)
           none == Title(<<>>)
           s == Spaced(t)
           n == Len(table)
           c == IF camel THEN CamelCase(s) ELSE s
<1>1. /\ t \in Name /\ Len(t) = n /\ n \in Nat
      /\ \A i \in 1..n : table[i] \in Symbol /\ t[i] \in {table[i], Upper[table[i]]}
  BY TitleTyped
<1>2. none = <<>>
  BY DEF Title, Capitalised
<1> HIDE DEF t, none
<1>3. (none \o t) \o none = t
  <2>1. t \in Seq(Symbol)
    BY <1>1 DEF Name
  <2>2. (<<>> \o t) \o <<>> = t
    BY ONLY <2>1, ConcatEmptySeq
  <2> QED
    BY <1>2, <2>2
<1>4. s \in Name /\ Len(s) = n /\ \A i \in 1..n : s[i] = IF t[i] \in Space THEN Underscore ELSE t[i]
  BY <1>1, SpacedTyped
<1>5. StructName(table, <<>>, <<>>, camel) =
        IF ValidVariableName(Bytes(c)) THEN [kind |-> "accepted", ident |-> c]
        ELSE [kind |-> "refused", ident |-> <<>>]
  <2>1. (Title(<<>>) \o Title(table)) \o Title(<<>>) = t
    BY <1>3 DEF t, none
  <2> HIDE DEF s, c
  <2>2. s = Spaced((Title(<<>>) \o Title(table)) \o Title(<<>>))
    BY <2>1 DEF s
  <2>3. CASE camel
    <3>1. c = CamelCase(s)
      BY <2>3 DEF c
    <3> QED
      BY <2>2, <2>3, <3>1 DEF StructName
  <2>4. CASE ~camel
    <3>1. c = s
      BY <2>4 DEF c
    <3> QED
      BY <2>2, <2>4, <3>1 DEF StructName
  <2> QED
    BY <2>3, <2>4
<1> HIDE DEF s
<1>6. \A a \in Symbol : /\ {a, Lower[a], Upper[a]} \cap Caseless # {} => Lower[a] = a /\ Upper[a] = a
                        /\ a \in Letter => Lower[a] \in Letter /\ Upper[a] \in Letter
  BY CaseAssumption
<1>7. ASSUME NEW i \in 1..n
      PROVE  /\ s[i] \in Symbol /\ s[i] \in Shown
             /\ table[i] \notin Space \cup {Underscore} => s[i] # Underscore
  <2>1. table[i] \in Letter \cup Digit \cup Space \cup {Underscore} /\ table[i] \in Symbol
    BY <1>1 DEF Decided, n
  <2>2. CASE table[i] \in Letter
    <3>1. t[i] \in Letter
      BY <1>1, <1>6, <2>1, <2>2
    <3>2. s[i] = t[i] /\ t[i] # Underscore
      BY <1>4, <3>1, SymbolAssumption
    <3> QED
      BY <3>1, <3>2, SymbolAssumption DEF Shown
  <2>3. CASE table[i] \in Caseless
    <3>1. t[i] = table[i]
      BY <1>1, <1>6, <2>1, <2>3
    <3>2. s[i] = IF table[i] \in Space THEN Underscore ELSE table[i]
      BY <1>4, <3>1
    <3> QED
      BY <2>1, <3>2, SymbolAssumption DEF Shown
  <2> QED
    BY <2>1, <2>2, <2>3 DEF Caseless
<1>8. n > 0 /\ (camel => \E i \in 1..n : s[i] # Underscore)
  <2>1. n > 0 /\ (camel => \E i \in 1..n : table[i] \notin Space \cup {Underscore})
    BY DEF Decided, n
  <2> QED
    BY <1>7, <2>1
<1> HIDE DEF n
<1>9. c \in Name /\ ValidText(c)
  <2>1. \A q \in Name : Len(q) \in Nat /\ (q # <<>> <=> Len(q) > 0)
    BY EmptySeq DEF Name
  <2>2. CASE ~camel
    <3>1. c = s
      BY <2>2
    <3> QED
      BY <1>4, <1>7, <1>8, <2>1, <3>1 DEF ValidText, Shown
  <2>3. CASE camel
    <3>1. c = CamelCase(s)
      BY <2>3
    <3> HIDE DEF c
    <3>2. /\ c \in Name
          /\ \A k \in 1..Len(c) : \E i \in 1..n : c[k] \in Turned(s[i])
          /\ \A i \in 1..n : s[i] # Underscore => \E k \in 1..Len(c) : c[k] \in Turned(s[i])
      BY <1>4, <3>1, CamelCased
    <3>3. ASSUME NEW k \in 1..Len(c) PROVE c[k] \in Shown
      <4>1. PICK i \in 1..n : c[k] \in Turned(s[i])
        BY <3>2
      <4>2. s[i] \in Symbol /\ s[i] \in Shown
        BY <1>7
      <4>3. c[k] \in CasesOf(s[i])
        BY <4>1, <4>2, TurnedIsCase
      <4> QED
        BY <4>2, <4>3, ShownStays
    <3>4. Len(c) > 0
      <4>1. PICK i \in 1..n : s[i] # Underscore
        BY <1>8, <2>3
      <4>2. PICK k \in 1..Len(c) : c[k] \in Turned(s[i])
        BY <3>2, <4>1
      <4>3. Len(c) \in Nat
        BY <2>1, <3>2
      <4> QED
        BY <4>2, <4>3
    <3> QED
      BY <2>1, <3>2, <3>3, <3>4 DEF ValidText, Shown
  <2> QED
    BY <2>2, <2>3
<1>10. ValidVariableName(Bytes(c))
  BY <1>9, ValidIs
<1> HIDE DEF c
<1> QED
  BY <1>5, <1>10

(* What formatColumnName decides about a name of plain characters.         *)
LEMMA NameDecided ==
  ASSUME NamesInv, AllPlain(column.name)
  PROVE  \E u, v :
           /\ Alike(u, CasedName(column.name, settings.camel)) /\ Alike(v, Spaced(column.name))
           /\ FieldNamed = IF ~ValidText(u) THEN [kind |-> "refused", ident |-> <<>>]
                           ELSE [kind |-> "accepted",
                                 ident |-> FieldOf(u, v, settings.camel, settings.initialisms)]
           /\ ValidText(u) <=> ~Refusable(column.name)
<1> DEFINE t == column.name
           camel == settings.camel
           initialisms == settings.initialisms
           named == FormatColumnName(t, camel, initialisms)
<1>1. t \in Name /\ camel \in BOOLEAN /\ initialisms \in BOOLEAN
  BY NamesTyped
<1>2. Refusable(t) <=> ~Decided(t, camel)
  BY <1>1, RefusableIs
<1>3. \A i \in 1..Len(t) : Plain(t[i])
  BY <1>1 DEF AllPlain, Name
<1>4. \A i \in 1..Len(t) : Steady(t[i])
  BY <1>3 DEF Plain
<1> HIDE DEF t, camel, initialisms
<1>5. CasedName(t, camel) \in Seq(Even) /\ Spaced(t) \in Seq(Even)
  BY <1>1, <1>4, SteadyNames
<1>6. PICK u, v :
        /\ Alike(u, CasedName(t, camel)) /\ Alike(v, Spaced(t))
        /\ named = IF ~ValidText(u) THEN [kind |-> "refused", ident |-> <<>>]
                   ELSE [kind |-> "accepted",
                         ident |-> IF u[1] \in LetterByte THEN u
                                   ELSE Prefix(camel) \o (IF initialisms THEN v ELSE u)]
  BY <1>1, <1>5, Formatted
<1>7. ValidText(u) <=> Decided(t, camel)
  <2>1. CasedName(t, camel) \in Name /\ PlainCases(CasedName(t, camel))
    BY <1>1, <1>3, CasedPlain
  <2>2. ValidText(u) <=> ValidText(CasedName(t, camel))
    BY <1>6, <2>1, AlikeValid
  <2> QED
    BY <1>1, <1>3, <2>2, CasedValid
<1>8. named = IF ~ValidText(u) THEN [kind |-> "refused", ident |-> <<>>]
              ELSE [kind |-> "accepted", ident |-> FieldOf(u, v, camel, initialisms)]
  BY <1>6 DEF FieldOf
<1> QED
  BY <1>2, <1>6, <1>7, <1>8 DEF t, camel, initialisms, FieldNamed

(* A name of plain characters is refused exactly if no identifier can be   *)
(* made of it, however long it is; and no field begins in lower case.      *)
THEOREM FieldPlainNamesAreDecided == FieldSpec => []PlainNamesAreDecided
<1>1. NamesInv => PlainNamesAreDecided
  <2> SUFFICES ASSUME NamesInv, AllPlain(column.name), ~Refusable(column.table)
               PROVE  /\ stage = "refused" => Refusable(column.name)
                      /\ stage \notin {"table", "column", "refused"} =>
                           /\ ~Refusable(column.name)
                           /\ Identifier(field) /\ Upper[field[1]] = field[1]
    BY DEF PlainNamesAreDecided
  <2> DEFINE t == column.name
             camel == settings.camel
             initialisms == settings.initialisms
  <2>1. t \in Name /\ column.table \in Name /\ camel \in BOOLEAN /\ initialisms \in BOOLEAN
    BY NamesTyped
  <2>2. Decided(column.table, camel)
    BY <2>1, RefusableIs
  <2>3. StructNamed.kind = "accepted"
    BY <2>1, <2>2, TableNamed DEF StructNamed
  <2>4. /\ stage = "refused" => FieldNamed.kind = "refused"
        /\ stage \notin {"table", "column", "refused"} =>
             FieldNamed.kind = "panicked" \/ (FieldNamed.kind = "accepted" /\ field = FieldNamed.ident)
    BY <2>3 DEF NamesInv
  <2>5. \A i \in 1..Len(t) : Plain(t[i])
    BY <2>1 DEF AllPlain, Name
  <2>6. PICK u, v :
          /\ Alike(u, CasedName(t, camel)) /\ Alike(v, Spaced(t))
          /\ FieldNamed = IF ~ValidText(u) THEN [kind |-> "refused", ident |-> <<>>]
                          ELSE [kind |-> "accepted", ident |-> FieldOf(u, v, camel, initialisms)]
          /\ ValidText(u) <=> ~Refusable(t)
    BY NameDecided
  <2> HIDE DEF t, camel, initialisms
  <2>7. ASSUME ValidText(u)
        PROVE  Identifier(FieldOf(u, v, camel, initialisms))
               /\ Upper[FieldOf(u, v, camel, initialisms)[1]] = FieldOf(u, v, camel, initialisms)[1]
    BY <2>1, <2>5, <2>6, <2>7, FieldIsIdentifier
  <2>8. CASE stage = "refused"
    BY <2>4, <2>6, <2>8 DEF t
  <2>9. CASE stage \notin {"table", "column", "refused"}
    <3>1. ValidText(u) /\ field = FieldOf(u, v, camel, initialisms)
      BY <2>4, <2>6, <2>9
    <3> QED
      BY <2>6, <2>7, <2>9, <3>1 DEF t
  <2> QED
    BY <2>8, <2>9
<1> QED
  BY <1>1, NamesAlways, PTL

-----------------------------------------------------------------------------
(* What remains of a name but for case, white space and underscores.       *)
Gone == Space \cup {Underscore}

Kernel == [s \in Symbol |-> IF Lower[s] \in Gone THEN <<>> ELSE <<Lower[s]>>]

LEMMA KernelTyped ==
  /\ Kernel \in [Symbol -> Seq(Symbol)]
  /\ \A s \in Symbol : Kernel[s] = IF Lower[s] \in Gone THEN <<>> ELSE <<Lower[s]>>
<1>1. ASSUME NEW s \in Symbol
      PROVE  (IF Lower[s] \in Gone THEN <<>> ELSE <<Lower[s]>>) \in Seq(Symbol)
  <2>1. Lower[s] \in Symbol
    BY SymbolAssumption
  <2>2. <<>> \in Seq(Symbol) /\ <<Lower[s]>> \in Seq(Symbol)
    BY <2>1, EmptySeq
  <2> QED
    BY <2>2
<1> QED
  BY <1>1 DEF Kernel

LEMMA BareIsFlat ==
  ASSUME NEW t \in Name
  PROVE  Bare(t) = Flat(Kernel, t)
<1> DEFINE l == Lowered(t)
<1>1. DOMAIN t = 1..Len(t) /\ \A i \in 1..Len(t) : t[i] \in Symbol
  BY DEF Name
<1>2. l \in Name /\ Len(l) = Len(t) /\ \A i \in 1..Len(t) : l[i] = Lower[t[i]]
  BY LoweredTyped
<1>3. Bare(t) = Without(l, Gone)
  BY DEF Bare, Gone
<1> HIDE DEF l
<1>4. DOMAIN l = 1..Len(t)
  BY <1>2 DEF Name
<1>5. \A i \in 1..Len(t) : (IF l[i] \in Gone THEN <<>> ELSE <<l[i]>>) = Kernel[t[i]]
  BY <1>1, <1>2, KernelTyped
<1>6. [i \in DOMAIN l |-> IF l[i] \in Gone THEN <<>> ELSE <<l[i]>>] = [i \in DOMAIN t |-> Kernel[t[i]]]
  BY <1>1, <1>4, <1>5
<1> QED
  BY <1>3, <1>6 DEF Without, Flat

(* It goes by characters, ...                                              *)
LEMMA BareOfLike ==
  ASSUME NEW t \in Name, NEW u \in Name, Len(u) = Len(t),
         \A i \in 1..Len(t) : Kernel[u[i]] = Kernel[t[i]]
  PROVE  Bare(u) = Bare(t)
<1>1. DOMAIN t = 1..Len(t) /\ DOMAIN u = 1..Len(t)
  BY DEF Name
<1>2. [i \in DOMAIN u |-> Kernel[u[i]]] = [i \in DOMAIN t |-> Kernel[t[i]]]
  BY <1>1
<1> QED
  BY <1>2, BareIsFlat DEF Flat

LEMMA BareOfAppend ==
  ASSUME NEW t \in Name, NEW s \in Symbol
  PROVE  Append(t, s) \in Name /\ Bare(Append(t, s)) = Bare(t) \o Kernel[s]
<1> DEFINE T == Symbol
           f == Kernel
<1>1. f \in [Symbol -> Seq(T)] /\ t \in Seq(Symbol)
  BY KernelTyped DEF Name
<1>2. Append(t, s) \in Name
  BY <1>1 DEF Name
<1> HIDE DEF T, f
<1>3. Flat(f, Append(t, s)) = Flat(f, t) \o f[s]
  BY <1>1, FlatOfAppend
<1>4. Bare(Append(t, s)) = Flat(f, Append(t, s)) /\ Bare(t) = Flat(f, t)
  BY <1>2, BareIsFlat DEF f
<1> QED
  BY <1>2, <1>3, <1>4 DEF f

LEMMA BareInARow ==
  ASSUME NEW a \in Name, NEW b \in Name
  PROVE  Bare(a \o b) = Bare(a) \o Bare(b)
<1> DEFINE T == Symbol
           f == Kernel
           c == a \o b
<1>1. f \in [Symbol -> Seq(T)]
  BY KernelTyped
<1>2. a \in Seq(Symbol) /\ b \in Seq(Symbol)
  BY DEF Name
<1>3. c \in Name
  BY <1>2 DEF Name
<1>4. Bare(c) = Flat(f, c) /\ Bare(a) = Flat(f, a) /\ Bare(b) = Flat(f, b)
  BY <1>3, BareIsFlat
<1> HIDE DEF T, f
<1>5. Flat(f, a \o b) = Flat(f, a) \o Flat(f, b)
  BY <1>1, <1>2, FlatInARow
<1> QED
  BY <1>4, <1>5

LEMMA BareOfNone == Bare(<<>>) = <<>> /\ <<>> \in Name
<1>1. <<>> \in Name
  BY EmptySeq DEF Name
<1> QED
  BY <1>1, BareIsFlat, FlatOfEmpty

LEMMA BareTyped ==
  ASSUME NEW t \in Name
  PROVE  Bare(t) \in Seq(Symbol)
<1> DEFINE T == Symbol
<1>1. Kernel \in [Symbol -> Seq(T)] /\ t \in Seq(Symbol)
  BY KernelTyped DEF Name
<1> HIDE DEF T
<1>2. Flat(Kernel, t) \in Seq(T)
  BY <1>1, FlatTyped
<1> QED
  BY <1>2, BareIsFlat DEF T

LEMMA KernelOfUnderscore == Underscore \in Symbol /\ Kernel[Underscore] = <<>>
<1>1. Underscore \in Symbol
  BY SymbolAssumption
<1>2. Lower[Underscore] = Underscore
  BY <1>1, CaseAssumption DEF Caseless
<1> QED
  BY <1>1, <1>2, KernelTyped DEF Gone

(* ... so that underscores can be left out before.                         *)
LEMMA BareWithout ==
  ASSUME NEW t \in Name
  PROVE  Bare(Without(t, {Underscore})) = Bare(t)
<1> DEFINE W(u) == Without(u, {Underscore})
           T == {u \in Name : Bare(W(u)) = Bare(u)}
<1>1. <<>> \in T
  <2>1. W(<<>>) = <<>>
    BY BareOfNone, WithoutIsFlat, FlatOfEmpty
  <2> QED
    BY <2>1, BareOfNone
<1>2. ASSUME NEW u \in Name, NEW s \in Symbol, u \in T PROVE Append(u, s) \in T
  <2> DEFINE w == W(u)
             z == Append(u, s)
  <2>1. z \in Name /\ Bare(z) = Bare(u) \o Kernel[s]
    BY BareOfAppend
  <2>2. Bare(w) = Bare(u)
    BY <1>2
  <2>3. w \in Name
    BY WithoutLeaves DEF Left
  <2>4. W(z) = w \o Drop({Underscore})[s]
    BY OneMoreDropped
  <2>5. Drop({Underscore})[s] = IF s = Underscore THEN <<>> ELSE <<s>>
    BY DropTyped
  <2> HIDE DEF w, z, W
  <2>6. CASE s = Underscore
    <3>1. W(z) = w
      <4>1. W(z) = w \o <<>> /\ w \in Seq(Symbol)
        BY <2>3, <2>4, <2>5, <2>6 DEF Name
      <4> QED
        BY ONLY <4>1, ConcatEmptySeq
    <3>2. Kernel[s] = <<>>
      BY <2>6, KernelOfUnderscore
    <3>3. Bare(z) = Bare(u)
      <4>1. Bare(u) \in Seq(Symbol) /\ Bare(z) = Bare(u) \o <<>>
        BY <2>1, <3>2, BareTyped
      <4> QED
        BY ONLY <4>1, ConcatEmptySeq
    <3> QED
      BY <2>1, <2>2, <3>1, <3>3 DEF z
  <2>7. CASE s # Underscore
    <3>1. W(z) = w \o <<s>>
      BY <2>4, <2>5, <2>7
    <3>2. w \o <<s>> = Append(w, s)
      <4>1. w \in Seq(Symbol)
        BY <2>3 DEF Name
      <4> QED
        BY <4>1
    <3>3. Bare(W(z)) = Bare(w) \o Kernel[s]
      BY <2>3, <3>1, <3>2, BareOfAppend
    <3> QED
      BY <2>1, <2>2, <3>3 DEF z
  <2> QED
    BY <2>6, <2>7
<1>3. \A u \in Seq(Symbol) : u \in T
  <2> HIDE DEF T
  <2>1. \A u \in Seq(Symbol) : \A s \in Symbol : u \in T => Append(u, s) \in T
    BY <1>2 DEF Name
  <2> QED
    BY <1>1, <2>1, SeqInduction
<1> QED
  BY <1>3 DEF Name

-----------------------------------------------------------------------------
(* Nothing is lost on the way to the field.                                *)
LEMMA KernelOfCase ==
  ASSUME NEW s \in Symbol, Plain(s), NEW x \in CasesOf(s)
  PROVE  x \in Symbol /\ Kernel[x] = Kernel[s]
<1>1. x \in Symbol
  BY CasesTyped
<1>2. Lower[x] = Lower[s]
  BY DEF Plain
<1> QED
  BY <1>1, <1>2, KernelTyped

LEMMA BareSpaced ==
  ASSUME NEW t \in Name
  PROVE  Bare(Spaced(t)) = Bare(t)
<1> DEFINE s == Spaced(t)
<1>1. s \in Name /\ Len(s) = Len(t)
  BY SpacedTyped
<1>2. ASSUME NEW i \in 1..Len(t) PROVE Kernel[s[i]] = Kernel[t[i]]
  <2>1. t[i] \in Symbol /\ s[i] = IF t[i] \in Space THEN Underscore ELSE t[i]
    BY SpacedTyped
  <2>2. CASE t[i] \in Space
    <3>1. Lower[t[i]] = t[i]
      BY <2>1, <2>2, CaseAssumption DEF Caseless
    <3>2. Kernel[t[i]] = <<>>
      BY <2>1, <2>2, <3>1, KernelTyped DEF Gone
    <3> QED
      BY <2>1, <2>2, <3>2, KernelOfUnderscore
  <2> QED
    BY <2>1, <2>2
<1> HIDE DEF s
<1>3. Bare(s) = Bare(t)
  BY <1>1, <1>2, BareOfLike
<1> QED
  BY <1>3 DEF s

LEMMA BareCased ==
  ASSUME NEW t \in Name, \A i \in 1..Len(t) : Plain(t[i]), NEW camel \in BOOLEAN
  PROVE  Bare(CasedName(t, camel)) = Bare(t)
<1> DEFINE s == Spaced(t)
           d == Title(s)
           n == Len(t)
           l == Lowered(d)
           z == Capitalised(l, Break \cup {Underscore})
           c == CasedName(t, camel)
<1>1. s \in Name /\ Len(s) = n /\ Bare(s) = Bare(t)
  BY SpacedTyped, BareSpaced
<1>2. \A i \in 1..n : s[i] \in Symbol /\ Plain(s[i])
  BY SpacedPlain
<1>3. /\ d \in Name /\ Len(d) = n
      /\ \A i \in 1..n : d[i] \in {s[i], Upper[s[i]]}
  BY TitledTyped
<1>4. c = IF ~camel THEN d ELSE IF ~Contains(d, Underscore) THEN Title(d) ELSE Without(z, {Underscore})
  BY DEF CasedName, CamelCase
<1> HIDE DEF s, d, n, c
<1>5. Bare(d) = Bare(s)
  <2>1. \A i \in 1..n : d[i] \in CasesOf(s[i])
    BY <1>2, <1>3, CasesHave
  <2>2. \A i \in 1..n : Kernel[d[i]] = Kernel[s[i]]
    BY <1>2, <2>1, KernelOfCase
  <2> QED
    BY <1>1, <1>3, <2>2, BareOfLike
<1>6. Bare(Title(d)) = Bare(s)
  <2> DEFINE e == Title(d)
  <2>1. /\ e \in Name /\ Len(e) = n
        /\ \A i \in 1..n : e[i] \in {d[i], Upper[d[i]]}
    BY <1>3, TitleTyped
  <2> HIDE DEF e
  <2>2. \A i \in 1..n : e[i] \in CasesOf(s[i])
    <3> SUFFICES ASSUME NEW i \in 1..n PROVE e[i] \in CasesOf(s[i])
      OBVIOUS
    <3>1. e[i] \in Turned(d[i])
      BY <2>1 DEF Turned
    <3> QED
      BY <1>2, <1>3, <3>1, TurnedIsCase
  <2>3. \A i \in 1..n : Kernel[e[i]] = Kernel[s[i]]
    BY <1>2, <2>2, KernelOfCase
  <2>4. Bare(e) = Bare(s)
    BY <1>1, <2>1, <2>3, BareOfLike
  <2> QED
    BY <2>4 DEF e
<1>7. Bare(Without(z, {Underscore})) = Bare(s)
  <2>1. l \in Name /\ Len(l) = n /\ \A i \in 1..n : l[i] = Lower[d[i]]
    BY <1>3, LoweredTyped
  <2> HIDE DEF l
  <2>2. /\ z \in Name /\ Len(z) = n
        /\ \A i \in 1..n : z[i] = l[i] \/ z[i] = Upper[l[i]]
    BY <2>1, CapitalisedTyped
  <2> HIDE DEF z
  <2>3. \A i \in 1..n : z[i] \in CasesOf(s[i])
    <3> SUFFICES ASSUME NEW i \in 1..n PROVE z[i] \in CasesOf(s[i])
      OBVIOUS
    <3>1. z[i] \in Turned(d[i])
      BY <2>1, <2>2 DEF Turned
    <3> QED
      BY <1>2, <1>3, <3>1, TurnedIsCase
  <2>4. \A i \in 1..n : Kernel[z[i]] = Kernel[s[i]]
    BY <1>2, <2>3, KernelOfCase
  <2>5. Bare(z) = Bare(s)
    BY <1>1, <2>2, <2>4, BareOfLike
  <2> QED
    BY <2>2, <2>5, BareWithout
<1>8. Bare(c) = Bare(s)
  BY <1>4, <1>5, <1>6, <1>7
<1> QED
  BY <1>1, <1>8 DEF c

LEMMA BareAlike ==
  ASSUME NEW t \in Name, NEW u, Alike(u, t)
  PROVE  u \in Name /\ Bare(u) = Bare(t)
<1>1. /\ u \in Name /\ Len(u) = Len(t)
      /\ \A i \in 1..Len(t) : u[i] = t[i] \/ Capitalises(u[i], t[i])
  BY DEF Alike
<1>2. ASSUME NEW i \in 1..Len(t) PROVE Kernel[u[i]] = Kernel[t[i]]
  <2>1. t[i] \in Symbol /\ u[i] \in Symbol
    BY <1>1 DEF Name
  <2>2. CASE Capitalises(u[i], t[i])
    <3>1. Lower[u[i]] = Lower[t[i]]
      BY <2>2 DEF Capitalises
    <3> QED
      BY <2>1, <3>1, KernelTyped
  <2> QED
    BY <1>1, <2>2
<1>3. Bare(u) = Bare(t)
  BY <1>1, <1>2, BareOfLike
<1> QED
  BY <1>1, <1>3

LEMMA BarePrefix ==
  ASSUME NEW camel \in BOOLEAN
  PROVE  Prefix(camel) \in Name /\ Bare(Prefix(camel)) = Bare(<<Cross>>)
<1> DEFINE one == <<Cross>>
           two == <<Cross, Underscore>>
<1>1. Cross \in Symbol /\ Underscore \in Symbol
  BY SymbolAssumption
<1>2. one \in Name
  <2>1. one \in Seq(Symbol)
    BY <1>1
  <2> QED
    BY <2>1 DEF Name
<1>3. two = Append(one, Underscore)
  OBVIOUS
<1>4. Prefix(camel) = IF camel THEN one ELSE two
  BY DEF Prefix
<1> HIDE DEF one, two
<1>5. two \in Name /\ Bare(two) = Bare(one) \o <<>>
  BY <1>1, <1>2, <1>3, BareOfAppend, KernelOfUnderscore
<1>6. Bare(one) \o <<>> = Bare(one)
  <2>1. Bare(one) \in Seq(Symbol)
    BY <1>2, BareTyped
  <2> QED
    BY ONLY <2>1, ConcatEmptySeq
<1>7. Bare(Prefix(camel)) = Bare(one) /\ Prefix(camel) \in Name
  BY <1>2, <1>4, <1>5, <1>6
<1> QED
  BY <1>7 DEF one

LEMMA FieldKeepsLetters ==
  ASSUME NEW t \in Name, \A i \in 1..Len(t) : Plain(t[i]),
         NEW camel \in BOOLEAN, NEW initialisms \in BOOLEAN,
         NEW u, Alike(u, CasedName(t, camel)), NEW v, Alike(v, Spaced(t))
  PROVE  Bare(FieldOf(u, v, camel, initialisms)) \in {Bare(t), Bare(<<Cross>>) \o Bare(t)}
<1> DEFINE rest == IF initialisms THEN v ELSE u
           p == Prefix(camel)
           f == p \o rest
<1>1. CasedName(t, camel) \in Name /\ Spaced(t) \in Name
  BY CasedPlain
<1>2. u \in Name /\ Bare(u) = Bare(t)
  BY <1>1, BareAlike, BareCased
<1>3. v \in Name /\ Bare(v) = Bare(t)
  BY <1>1, BareAlike, BareSpaced
<1>4. rest \in Name /\ Bare(rest) = Bare(t)
  BY <1>2, <1>3
<1>5. p \in Name /\ Bare(p) = Bare(<<Cross>>)
  BY BarePrefix
<1>6. FieldOf(u, v, camel, initialisms) = IF u[1] \in LetterByte THEN u ELSE f
  BY DEF FieldOf
<1> HIDE DEF rest, p
<1>7. Bare(f) = Bare(p) \o Bare(rest)
  BY <1>4, <1>5, BareInARow
<1> HIDE DEF f
<1> QED
  BY <1>2, <1>4, <1>5, <1>6, <1>7

(* Nothing of a name of plain characters is lost or doubled on the way to  *)
(* the field, however long it is.                                          *)
THEOREM FieldNamesKeepTheirLetters == FieldSpec => []NamesKeepTheirLetters
<1>1. NamesInv => NamesKeepTheirLetters
  <2> SUFFICES ASSUME NamesInv, stage \in {"field", "file", "written"}, AllPlain(column.name)
               PROVE  Bare(field) \in {Bare(column.name), Bare(<<Cross>>) \o Bare(column.name)}
    BY DEF NamesKeepTheirLetters
  <2> DEFINE t == column.name
             camel == settings.camel
             initialisms == settings.initialisms
             named == FormatColumnName(t, camel, initialisms)
  <2>1. t \in Name /\ camel \in BOOLEAN /\ initialisms \in BOOLEAN
    BY NamesTyped
  <2>2. named.kind = "accepted" /\ field = named.ident
    BY DEF NamesInv, FieldNamed
  <2>3. \A i \in 1..Len(t) : Plain(t[i])
    BY <2>1 DEF AllPlain, Name
  <2>4. \A i \in 1..Len(t) : Steady(t[i])
    BY <2>3 DEF Plain
  <2> HIDE DEF t, camel, initialisms
  <2>5. CasedName(t, camel) \in Seq(Even) /\ Spaced(t) \in Seq(Even)
    BY <2>1, <2>4, SteadyNames
  <2>6. PICK u, v :
          /\ Alike(u, CasedName(t, camel)) /\ Alike(v, Spaced(t))
          /\ named = IF ~ValidText(u) THEN [kind |-> "refused", ident |-> <<>>]
                     ELSE [kind |-> "accepted",
                           ident |-> IF u[1] \in LetterByte THEN u
                                     ELSE Prefix(camel) \o (IF initialisms THEN v ELSE u)]
    BY <2>1, <2>5, Formatted
  <2>7. named = IF ~ValidText(u) THEN [kind |-> "refused", ident |-> <<>>]
                ELSE [kind |-> "accepted", ident |-> FieldOf(u, v, camel, initialisms)]
    BY <2>6 DEF FieldOf
  <2> HIDE DEF named
  <2>8. field = FieldOf(u, v, camel, initialisms)
    BY <2>2, <2>7
  <2>9. Bare(field) \in {Bare(t), Bare(<<Cross>>) \o Bare(t)}
    BY <2>1, <2>3, <2>6, <2>8, FieldKeepsLetters
  <2> QED
    BY <2>9 DEF t
<1> QED
  BY <1>1, NamesAlways, PTL
=============================================================================
