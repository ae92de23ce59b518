----------------------------- MODULE TagsProofs -----------------------------
(***************************************************************************)
(* Proofs about Tags, for all flags and all programs that set, resolve and *)
(* ask in any order: types, that a list once handed out is never written,  *)
(* and that the keys resolved are those of the settings at hand, however   *)
(* often the array was used before.                                        *)
(***************************************************************************)
EXTENDS Tags, SequenceTheorems, TLAPS

Keys == Key \cup {NoKey}

USE DEF Keys

(* The values that are added are keys or blank.                            *)
LEMMA ValuesTyped ==
  ASSUME settings \in SettingsType
  PROVE  Values \in Seq(Keys) /\ Len(Values) \in Nat \ {0} /\ Values[1] = db
<1> DEFINE legacy == IF settings.structable THEN <<structable>> ELSE <<>>
           named  == [i \in DOMAIN settings.tags |-> KeyOf[settings.tags[i]]]
<1>1. settings.tags \in Seq(Value)
  BY DEF SettingsType
<1>2. named \in Seq(Keys)
  <2>1. DOMAIN settings.tags = 1..Len(settings.tags) /\ Len(settings.tags) \in Nat
    BY <1>1
  <2>2. \A i \in 1..Len(settings.tags) : KeyOf[settings.tags[i]] \in Keys
    BY <1>1, KeyOfAssumption
  <2> QED
    BY <2>1, <2>2
<1>3. legacy \in Seq(Keys) /\ <<db>> \in Seq(Keys) /\ Len(<<db>>) = 1 /\ <<db>>[1] = db
  <2>1. db \in Keys /\ structable \in Keys
    BY KeyAssumption
  <2>2. <<db>> \in Seq(Keys) /\ <<structable>> \in Seq(Keys) /\ <<>> \in Seq(Keys)
    BY <2>1
  <2> QED
    BY <2>2
<1> HIDE DEF legacy, named
<1>4. /\ <<db>> \o legacy \in Seq(Keys)
      /\ Len(<<db>> \o legacy) = 1 + Len(legacy)
      /\ (<<db>> \o legacy)[1] = db
  BY <1>3, ConcatProperties, LenProperties
<1>5. /\ (<<db>> \o legacy) \o named \in Seq(Keys)
      /\ Len((<<db>> \o legacy) \o named) = 1 + Len(legacy) + Len(named)
      /\ ((<<db>> \o legacy) \o named)[1] = db
  BY <1>2, <1>3, <1>4, ConcatProperties, LenProperties
<1>6. Values = (<<db>> \o legacy) \o named
  BY DEF Values, legacy, named
<1> QED
  BY <1>2, <1>3, <1>5, <1>6, LenProperties

-----------------------------------------------------------------------------
(* What the operations on the slice do to the arrays: all but that of tags *)
(* stay as they are, and tags moves to none that was there before.         *)
HeapTyped == heap \in Seq(Seq(Keys))

TagsTyped == tags \in Slice /\ Within(tags) /\ Len(heap[tags.array]) > 0

Careful ==
  /\ HeapTyped' /\ TagsTyped'
  /\ \A a \in DOMAIN heap : a \in DOMAIN heap' /\ Len(heap'[a]) = Len(heap[a])
  /\ \A a \in DOMAIN heap : a # tags.array => heap'[a] = heap[a]
  /\ tags'.array = tags.array \/ tags'.array \notin DOMAIN heap

(* A new array leaves the others alone.                                    *)
LEMMA NewArray ==
  ASSUME HeapTyped, NEW content \in Seq(Keys), heap' = Append(heap, content)
  PROVE  /\ HeapTyped'
         /\ Len(heap) \in Nat /\ Len(heap) + 1 \notin DOMAIN heap /\ Len(heap) + 1 \in DOMAIN heap'
         /\ heap'[Len(heap) + 1] = content
         /\ \A a \in DOMAIN heap : a \in DOMAIN heap' /\ heap'[a] = heap[a]
<1> DEFINE Lists == Seq(Keys)
<1>1. heap \in Seq(Lists) /\ content \in Lists
  BY DEF HeapTyped
<1> HIDE DEF Lists
<1>2. /\ heap' \in Seq(Lists)
      /\ Len(heap') = Len(heap) + 1
      /\ \A a \in 1..Len(heap) : heap'[a] = heap[a]
      /\ heap'[Len(heap) + 1] = content
  BY <1>1, AppendProperties
<1>3. /\ Len(heap) \in Nat /\ DOMAIN heap = 1..Len(heap)
      /\ DOMAIN heap' = 1..Len(heap')
  BY <1>1, <1>2, LenProperties
<1> QED
  BY <1>2, <1>3 DEF HeapTyped, Lists

(* An array is a list; what a slice holds is its beginning.                *)
LEMMA ArrayTyped ==
  ASSUME HeapTyped, NEW a \in DOMAIN heap
  PROVE  /\ heap[a] \in Seq(Keys)
         /\ Len(heap[a]) \in Nat /\ DOMAIN heap[a] = 1..Len(heap[a])
         /\ \A i \in 1..Len(heap[a]) : heap[a][i] \in Keys
<1> DEFINE Lists == Seq(Keys)
<1>1. heap \in Seq(Lists)
  BY DEF HeapTyped
<1>2. heap[a] \in Lists
  <2> HIDE DEF Lists
  <2> QED BY <1>1, ElementOfSeq, LenProperties
<1> QED
  BY <1>2, ElementOfSeq, LenProperties

LEMMA HeldTyped ==
  ASSUME HeapTyped, NEW slice \in Slice, Within(slice)
  PROVE  /\ Held(slice, heap) \in Seq(Keys)
         /\ Len(Held(slice, heap)) = slice.len
         /\ DOMAIN Held(slice, heap) = 1..slice.len
         /\ \A i \in 1..slice.len : Held(slice, heap)[i] = heap[slice.array][i]
<1>1. slice.len \in Nat /\ slice.len <= Len(heap[slice.array]) /\ slice.array \in DOMAIN heap
  BY DEF Slice, Within
<1>2. \A i \in 1..slice.len : heap[slice.array][i] \in Keys
  BY <1>1, ArrayTyped
<1> QED
  BY <1>1, <1>2 DEF Held

LEMMA CloneCareful ==
  ASSUME HeapTyped, NEW content \in Seq(Keys), Len(content) > 0, Clone(content)
  PROVE  Careful /\ Held(tags', heap') = content
<1>1. Len(content) \in Nat /\ content \in [1..Len(content) -> Keys]
  BY LenProperties
<1>2. tags' = [array |-> Len(heap) + 1, len |-> Len(content)]
  BY DEF Clone
<1>3. heap' = Append(heap, content)
  BY DEF Clone
<1>4. TagsTyped'
  BY <1>1, <1>2, <1>3, NewArray DEF TagsTyped, Slice, Within
<1>5. Held(tags', heap') = content
  BY <1>1, <1>2, <1>3, NewArray DEF Held
<1> QED
  BY <1>2, <1>3, <1>4, <1>5, NewArray DEF Careful

(* An array that is written at some places only.                           *)
LEMMA WrittenArray ==
  ASSUME HeapTyped, NEW a \in DOMAIN heap, NEW array \in Seq(Keys),
         heap' = [heap EXCEPT ![a] = array]
  PROVE  /\ HeapTyped'
         /\ DOMAIN heap' = DOMAIN heap
         /\ heap'[a] = array
         /\ \A b \in DOMAIN heap : b # a => heap'[b] = heap[b]
<1> DEFINE Lists == Seq(Keys)
<1>1. heap \in Seq(Lists) /\ array \in Lists
  BY DEF HeapTyped
<1> HIDE DEF Lists
<1>2. heap' \in Seq(Lists)
  BY <1>1, ExceptSeq, LenProperties
<1> QED
  BY <1>1, <1>2 DEF HeapTyped, Lists

(* append adds the key at the end, in either way.                          *)
LEMMA AppendCareful ==
  ASSUME HeapTyped, TagsTyped, NEW key \in Keys, AppendKey(key)
  PROVE  Careful /\ Held(tags', heap') = Append(Held(tags, heap), key)
<1> DEFINE array == heap[tags.array]
<1>1. /\ tags.array \in DOMAIN heap /\ tags.len \in Nat /\ tags.array \in Nat
      /\ tags.len <= Len(array) /\ Len(array) > 0
  BY DEF TagsTyped, Slice, Within
<1>2. /\ array \in Seq(Keys) /\ Len(array) \in Nat
      /\ DOMAIN array = 1..Len(array) /\ \A i \in 1..Len(array) : array[i] \in Keys
  BY <1>1, ArrayTyped
<1>3. /\ Held(tags, heap) \in Seq(Keys) /\ Len(Held(tags, heap)) = tags.len
      /\ \A i \in 1..tags.len : Held(tags, heap)[i] = array[i]
  BY <1>1, HeldTyped DEF TagsTyped
<1> DEFINE longer == Append(Held(tags, heap), key)
<1>4. /\ longer \in Seq(Keys) /\ Len(longer) = tags.len + 1
      /\ \A i \in 1..tags.len : longer[i] = array[i]
      /\ longer[tags.len + 1] = key
  BY <1>3, AppendProperties
<1>5. CASE tags.len < Len(array)
  <2> DEFINE written == [array EXCEPT ![tags.len + 1] = key]
  <2>1. heap' = [heap EXCEPT ![tags.array] = written] /\ tags' = [tags EXCEPT !.len = @ + 1]
    BY <1>5, <1>1 DEF AppendKey, AppendInPlace
  <2>2. tags.len + 1 \in 1..Len(array)
    BY <1>1, <1>2, <1>5
  <2>3. /\ written \in Seq(Keys) /\ Len(written) = Len(array)
        /\ \A i \in 1..Len(array) : i # tags.len + 1 => written[i] = array[i]
        /\ written[tags.len + 1] = key
    BY <1>2, <2>2, ExceptSeq
  <2> HIDE DEF written
  <2>4. /\ HeapTyped' /\ DOMAIN heap' = DOMAIN heap
        /\ heap'[tags.array] = written
        /\ \A b \in DOMAIN heap : b # tags.array => heap'[b] = heap[b]
    BY <1>1, <2>1, <2>3, WrittenArray
  <2>5. tags'.array = tags.array /\ tags'.len = tags.len + 1 /\ tags' \in Slice
    BY <1>1, <2>1 DEF TagsTyped, Slice
  <2>6. Careful
    BY <1>1, <1>2, <2>2, <2>3, <2>4, <2>5 DEF Careful, TagsTyped, Within
  <2>7. Held(tags', heap') = [i \in 1..(tags.len + 1) |-> written[i]]
    BY <2>4, <2>5 DEF Held
  <2>8. \A i \in 1..(tags.len + 1) : written[i] = longer[i]
    BY <1>1, <1>4, <2>2, <2>3
  <2> HIDE DEF longer
  <2>9. Held(tags', heap') = longer
    BY <1>1, <1>4, <2>7, <2>8
  <2> QED
    BY <2>6, <2>9 DEF longer
<1>6. CASE ~(tags.len < Len(array))
  <2>1. heap' = Append(heap, Grown(key)) /\ tags' = [array |-> Len(heap) + 1, len |-> tags.len + 1]
    BY <1>6 DEF AppendKey, AppendGrowing
  <2>2. tags.len = Len(array)
    BY <1>1, <1>2, <1>6
  <2>3. /\ \A i \in 1..(2 * tags.len) : Grown(key)[i] \in Keys
        /\ \A i \in 1..(tags.len + 1) : Grown(key)[i] = longer[i]
    <3> HIDE DEF longer, array
    <3>1. ASSUME NEW i \in 1..(2 * tags.len)
          PROVE  Grown(key)[i] = IF i <= tags.len THEN array[i]
                                 ELSE IF i = tags.len + 1 THEN key ELSE NoKey
      BY DEF Grown, array
    <3>2. \A i \in 1..(2 * tags.len) : i <= tags.len => i \in 1..Len(array)
      BY <1>1, <2>2
    <3>3. \A i \in 1..(tags.len + 1) : i \in 1..(2 * tags.len) /\ (i <= tags.len \/ i = tags.len + 1)
      BY <1>1, <1>2, <2>2
    <3>4. \A i \in 1..(2 * tags.len) : Grown(key)[i] \in Keys
      BY <1>2, <3>1, <3>2
    <3>5. ASSUME NEW i \in 1..(tags.len + 1) PROVE Grown(key)[i] = longer[i]
      <4>1. CASE i \in 1..tags.len
        BY <1>1, <1>4, <3>1, <3>3, <4>1
      <4>2. CASE i = tags.len + 1
        <5>1. ~(tags.len + 1 <= tags.len)
          BY <1>1
        <5> QED
          BY <1>4, <3>1, <3>3, <4>2, <5>1
      <4> QED
        BY <1>1, <4>1, <4>2
    <3> QED
      BY <3>4, <3>5
  <2>4. Grown(key) \in Seq(Keys) /\ Len(Grown(key)) = 2 * tags.len
    <3> DEFINE size == 2 * tags.len
    <3>1. Grown(key) = [i \in 1..size |-> Grown(key)[i]]
      BY DEF Grown
    <3>2. size \in Nat
      BY <1>1
    <3>3. \A i \in 1..size : Grown(key)[i] \in Keys
      BY <2>3
    <3> HIDE DEF size
    <3>4. Grown(key) \in [1..size -> Keys]
      BY <3>1, <3>3
    <3>5. Grown(key) \in Seq(Keys) /\ Len(Grown(key)) = size
      BY <3>2, <3>4
    <3> QED
      BY <3>5 DEF size
  <2> HIDE DEF longer
  <2>5. /\ HeapTyped'
        /\ Len(heap) \in Nat /\ Len(heap) + 1 \notin DOMAIN heap /\ Len(heap) + 1 \in DOMAIN heap'
        /\ heap'[Len(heap) + 1] = Grown(key)
        /\ \A a \in DOMAIN heap : a \in DOMAIN heap' /\ heap'[a] = heap[a]
    BY <2>1, <2>4, NewArray
  <2>6. tags'.array = Len(heap) + 1 /\ tags'.len = tags.len + 1 /\ tags' \in Slice
    BY <1>1, <2>1, <2>5 DEF Slice
  <2>7. Careful
    BY <1>1, <2>2, <2>4, <2>5, <2>6 DEF Careful, TagsTyped, Within
  <2>8. Held(tags', heap') = [i \in 1..(tags.len + 1) |-> Grown(key)[i]]
    BY <2>5, <2>6 DEF Held
  <2>9. Held(tags', heap') = longer
    BY <1>1, <1>4, <2>3, <2>8
  <2> QED
    BY <2>7, <2>9 DEF longer
<1> QED
  BY <1>5, <1>6

(* What is removed is one key, and those after it close up.                *)
LEMMA RemoveCareful ==
  ASSUME HeapTyped, TagsTyped, NEW key \in Keys, Has(key), RemoveKey(key)
  PROVE  /\ Careful
         /\ tags'.len = tags.len - 1
         /\ \E at \in 1..tags.len :
              /\ Held(tags, heap)[at] = key
              /\ \A i \in 1..(tags.len - 1) :
                   Held(tags', heap')[i] = Held(tags, heap)[IF i < at THEN i ELSE i + 1]
<1> DEFINE array == heap[tags.array]
<1>1. /\ tags.array \in DOMAIN heap /\ tags.len \in Nat /\ tags.array \in Nat
      /\ tags.len <= Len(array) /\ Len(array) > 0
  BY DEF TagsTyped, Slice, Within
<1>2. /\ array \in Seq(Keys) /\ Len(array) \in Nat
      /\ DOMAIN array = 1..Len(array) /\ \A i \in 1..Len(array) : array[i] \in Keys
  BY <1>1, ArrayTyped
<1>3. \A i \in 1..tags.len : Held(tags, heap)[i] = array[i]
  BY <1>1, HeldTyped DEF TagsTyped
<1>4. PICK at \in 1..tags.len :
        /\ array[at] = key
        /\ heap' = [heap EXCEPT ![tags.array] = Without(array, at)]
        /\ tags' = [tags EXCEPT !.len = @ - 1]
  <2>1. PICK at \in 1..tags.len :
          /\ array[at] = key
          /\ heap' = [heap EXCEPT ![tags.array] = Without(@, at)]
          /\ tags' = [tags EXCEPT !.len = @ - 1]
    BY DEF RemoveKey
  <2>2. heap' = [heap EXCEPT ![tags.array] = Without(array, at)]
    BY <1>1, <2>1
  <2> QED
    BY <2>1, <2>2
<1> DEFINE closed == Without(array, at)
<1>5. /\ closed \in Seq(Keys) /\ Len(closed) = Len(array)
      /\ \A i \in 1..(tags.len - 1) : closed[i] = array[IF i < at THEN i ELSE i + 1]
  <2> HIDE DEF array
  <2>1. closed = [i \in 1..Len(array) |-> IF at <= i /\ i < tags.len THEN array[i + 1] ELSE array[i]]
    BY <1>2 DEF Without
  <2>2. ASSUME NEW i \in 1..Len(array) PROVE closed[i] \in Keys
    <3>1. CASE at <= i /\ i < tags.len
      <4>1. i + 1 \in 1..Len(array)
        BY <1>1, <1>2, <3>1
      <4> QED
        BY <1>2, <2>1, <3>1, <4>1
    <3>2. CASE ~(at <= i /\ i < tags.len)
      BY <1>2, <2>1, <3>2
    <3> QED
      BY <3>1, <3>2
  <2>3. closed \in [1..Len(array) -> Keys]
    BY <2>1, <2>2
  <2>4. closed \in Seq(Keys) /\ Len(closed) = Len(array)
    BY <1>2, <2>3
  <2>5. ASSUME NEW i \in 1..(tags.len - 1)
        PROVE  closed[i] = array[IF i < at THEN i ELSE i + 1]
    <3>1. i \in 1..Len(array) /\ i < tags.len /\ at \in Nat
      BY <1>1, <1>2
    <3>2. CASE i < at
      BY <2>1, <3>1, <3>2
    <3>3. CASE ~(i < at)
      <4>1. at <= i
        BY <3>1, <3>3
      <4> QED
        BY <2>1, <3>1, <3>3, <4>1
    <3> QED
      BY <3>2, <3>3
  <2> QED
    BY <2>4, <2>5
<1> HIDE DEF closed
<1>6. /\ HeapTyped' /\ DOMAIN heap' = DOMAIN heap
      /\ heap'[tags.array] = closed
      /\ \A b \in DOMAIN heap : b # tags.array => heap'[b] = heap[b]
  BY <1>1, <1>4, <1>5, WrittenArray DEF closed
<1>7. tags'.array = tags.array /\ tags'.len = tags.len - 1 /\ tags' \in Slice
  BY <1>1, <1>4 DEF TagsTyped, Slice
<1>8. Careful
  BY <1>1, <1>2, <1>5, <1>6, <1>7 DEF Careful, TagsTyped, Within
<1>9. ASSUME NEW i \in 1..(tags.len - 1)
      PROVE  Held(tags', heap')[i] = Held(tags, heap)[IF i < at THEN i ELSE i + 1]
  <2>1. Held(tags', heap')[i] = closed[i]
    BY <1>6, <1>7 DEF Held
  <2>2. (IF i < at THEN i ELSE i + 1) \in 1..tags.len
    BY <1>1
  <2> QED
    BY <1>3, <1>5, <2>1, <2>2
<1> QED
  BY <1>3, <1>4, <1>7, <1>8, <1>9

(* Every step is careful, and only ResolvedTags hands out a list.          *)
LEMMA StepCareful ==
  ASSUME HeapTyped, TagsTyped, settings \in SettingsType, Next
  PROVE  Careful /\ (given' = given \/ ResolvedTags)
<1>1. UNCHANGED <<heap, tags>> => Careful
  BY DEF Careful, HeapTyped, TagsTyped, Within
<1>2. CASE Configure
  BY <1>1, <1>2 DEF Configure
<1>3. CASE ResolveOnly
  <2>1. <<structable>> \in Seq(Keys) /\ Len(<<structable>>) = 1
    <3>1. structable \in Keys
      BY KeyAssumption
    <3> QED BY <3>1
  <2>2. Clone(<<structable>>) /\ given' = given
    BY <1>3 DEF ResolveOnly
  <2>3. Careful
    <3> DEFINE content == <<structable>>
    <3>1. content \in Seq(Keys) /\ Len(content) > 0 /\ Clone(content)
      BY <2>1, <2>2
    <3> HIDE DEF content
    <3> QED
      BY <3>1, CloneCareful
  <2> QED
    BY <2>2, <2>3
<1>4. CASE BeginResolve
  <2>1. heap' = heap /\ given' = given /\ tags' = [tags EXCEPT !.len = 0]
    BY <1>4 DEF BeginResolve, Reset
  <2>2. tags' \in Slice /\ tags'.array = tags.array /\ tags'.len = 0
    BY <2>1 DEF TagsTyped, Slice
  <2>3. HeapTyped' /\ TagsTyped'
    <3>1. Len(heap[tags.array]) \in Nat
      BY DEF HeapTyped, TagsTyped, Within
    <3> QED
      BY <2>1, <2>2, <3>1 DEF HeapTyped, TagsTyped, Within
  <2> QED
    BY <2>1, <2>2, <2>3 DEF Careful
<1>5. CASE AddNext
  <2>1. Values[loop] \in Keys
    BY <1>5, ValuesTyped, ElementOfSeq, LenProperties DEF AddNext
  <2>2. AddKey(Values[loop]) /\ given' = given
    BY <1>5 DEF AddNext
  <2> QED
    BY <1>1, <2>1, <2>2, AppendCareful DEF AddKey
<1>6. CASE EndResolve
  <2>1. db \in Keys
    BY KeyAssumption
  <2> QED
    BY <1>1, <1>6, <2>1, RemoveCareful DEF EndResolve, RemoveKey
<1>7. CASE ResolvedTags
  <2>1. Held(tags, heap) \in Seq(Keys)
    BY HeldTyped DEF TagsTyped
  <2>2. heap' = Append(heap, Held(tags, heap)) /\ tags' = tags
    BY <1>7 DEF ResolvedTags
  <2>3. Careful
    BY <2>1, <2>2, NewArray DEF Careful, TagsTyped, Within
  <2> QED
    BY <1>7, <2>3
<1> QED
  BY <1>2, <1>3, <1>4, <1>5, <1>6, <1>7 DEF Next, ResolveTags

-----------------------------------------------------------------------------
(* Types.                                                                  *)
LEMMA TagsTypeInit ==
  ASSUME Init
  PROVE  TagsTypeOK
<1>1. db \in Keys
  BY KeyAssumption
<1>2. /\ heap = <<<<db>>>> /\ tags = [array |-> 1, len |-> 1] /\ loop = 0
      /\ given = <<>> /\ calls = 0 /\ current = TRUE
      /\ settings = [noDb |-> FALSE, structable |-> FALSE, only |-> FALSE, tags |-> <<>>]
  BY DEF Init
<1>3. settings \in SettingsType
  BY <1>2 DEF SettingsType
<1>4. HeapTyped
  <2>1. <<db>> \in Seq(Keys)
    BY <1>1
  <2> DEFINE Lists == Seq(Keys)
             array == <<db>>
  <2>2. array \in Lists
    BY <2>1
  <2> HIDE DEF Lists, array
  <2>3. <<array>> \in Seq(Lists)
    BY <2>2
  <2> QED
    BY <1>2, <2>3 DEF HeapTyped, Lists, array
<1>5. tags \in Slice /\ Within(tags) /\ Len(heap[tags.array]) > 0
  BY <1>2 DEF Slice, Within
<1>6. calls \in 0..MaxCalls
  BY <1>2, BoundAssumption
<1>7. given \in Seq([slice : Slice, held : Seq(Key \cup {NoKey})]) /\ DOMAIN given = {}
  BY <1>2
<1> QED
  BY <1>2, <1>3, <1>4, <1>5, <1>6, <1>7 DEF TagsTypeOK, HeapTyped

(* Lists handed out earlier stay in their arrays.                          *)
LEMMA GivenTyped ==
  ASSUME TagsTypeOK, Next
  PROVE  /\ given' \in Seq([slice : Slice, held : Seq(Key \cup {NoKey})])
         /\ \A i \in DOMAIN given' : Within(given[i].slice)'
<1> DEFINE Lists == [slice : Slice, held : Seq(Key \cup {NoKey})]
<1>1. HeapTyped /\ TagsTyped /\ settings \in SettingsType /\ given \in Seq(Lists)
  BY DEF TagsTypeOK, HeapTyped, TagsTyped
<1>2. Careful /\ (given' = given \/ ResolvedTags)
  BY <1>1, StepCareful
<1>3. \A i \in DOMAIN given : given[i].slice.array \in DOMAIN heap
                              /\ given[i].slice.len <= Len(heap[given[i].slice.array])
  BY DEF TagsTypeOK, Within
<1>4. \A i \in DOMAIN given :
        given[i].slice.array \in DOMAIN heap' /\ given[i].slice.len <= Len(heap'[given[i].slice.array])
  BY <1>2, <1>3 DEF Careful
<1>5. CASE given' = given
  BY <1>1, <1>4, <1>5 DEF Within
<1>6. CASE ResolvedTags
  <2> DEFINE new == [slice |-> [array |-> Len(heap) + 1, len |-> tags.len], held |-> Held(tags, heap)]
  <2>1. /\ Held(tags, heap) \in Seq(Keys) /\ Len(Held(tags, heap)) = tags.len /\ tags.len \in Nat
    BY <1>1, HeldTyped DEF TagsTyped, Slice
  <2>2. heap' = Append(heap, Held(tags, heap)) /\ given' = Append(given, new)
    BY <1>6 DEF ResolvedTags
  <2>3. /\ Len(heap) \in Nat /\ Len(heap) + 1 \in DOMAIN heap'
        /\ heap'[Len(heap) + 1] = Held(tags, heap)
    BY <1>1, <2>1, <2>2, NewArray
  <2>4. new \in Lists
    BY <2>1, <2>3 DEF Slice
  <2>5. new.slice.array \in DOMAIN heap' /\ new.slice.len <= Len(heap'[new.slice.array])
    BY <2>1, <2>3
  <2> HIDE DEF new, Lists
  <2>6. /\ given' \in Seq(Lists)
        /\ DOMAIN given' = 1..(Len(given) + 1) /\ Len(given) \in Nat
        /\ \A i \in 1..Len(given) : given'[i] = given[i]
        /\ given'[Len(given) + 1] = new
        /\ DOMAIN given = 1..Len(given)
    BY <1>1, <2>2, <2>4, AppendProperties, LenProperties
  <2>7. \A i \in DOMAIN given' : i \in DOMAIN given \/ i = Len(given) + 1
    BY <2>6
  <2>8. \A i \in DOMAIN given' : Within(given[i].slice)'
    BY <1>4, <2>5, <2>6, <2>7 DEF Within
  <2> QED
    BY <2>6, <2>8 DEF Lists
<1> QED
  BY <1>2, <1>5, <1>6

LEMMA TagsTypeStep ==
  ASSUME TagsTypeOK, [Next]_vars
  PROVE  TagsTypeOK'
<1>1. CASE Next
  <2>1. Careful
    BY <1>1, StepCareful DEF TagsTypeOK, HeapTyped, TagsTyped
  <2>2. heap' \in Seq(Seq(Key \cup {NoKey})) /\ tags' \in Slice /\ Within(tags)'
        /\ Len(heap'[tags'.array]) > 0
    BY <2>1 DEF Careful, HeapTyped, TagsTyped
  <2>3. settings' \in SettingsType /\ (loop' = 0 \/ settings' = settings)
    BY <1>1 DEF TagsTypeOK, Next, ResolveTags, Configure, ResolveOnly,
         BeginResolve, AddNext, EndResolve, ResolvedTags
  <2>4. current' \in BOOLEAN
    BY <1>1 DEF TagsTypeOK, Next, ResolveTags, Configure, ResolveOnly,
         BeginResolve, AddNext, EndResolve, ResolvedTags
  <2>5. calls' \in 0..MaxCalls
    <3>1. calls' = calls \/ (calls < MaxCalls /\ calls' = calls + 1)
      BY <1>1 DEF Next, ResolveTags, Configure, ResolveOnly,
           BeginResolve, AddNext, EndResolve, ResolvedTags
    <3> QED
      BY <3>1, BoundAssumption DEF TagsTypeOK
  <2>6. Len(Values) \in Nat \ {0} /\ DOMAIN Values = 1..Len(Values)
    BY ValuesTyped, LenProperties DEF TagsTypeOK
  <2>7. loop' \in {0} \cup 1..(Len(Values) + 1)
    <3>1. CASE AddNext
      BY <2>6, <3>1 DEF AddNext
    <3>2. CASE BeginResolve
      BY <2>6, <3>2 DEF BeginResolve
    <3>3. CASE Configure \/ ResolveOnly \/ EndResolve \/ ResolvedTags
      BY <3>3 DEF TagsTypeOK, Configure, ResolveOnly, EndResolve, ResolvedTags
    <3> QED
      BY <1>1, <3>1, <3>2, <3>3 DEF Next, ResolveTags
  <2>8. loop' \in {0} \cup 1..(Len(Values') + 1)
    <3>1. settings' = settings => Values' = Values
      BY DEF Values
    <3> QED
      BY <2>3, <2>7, <3>1
  <2> QED
    BY <1>1, <2>2, <2>3, <2>4, <2>5, <2>8, GivenTyped DEF TagsTypeOK
<1>2. CASE UNCHANGED vars
  BY <1>2 DEF vars, TagsTypeOK, Within, Values
<1> QED
  BY <1>1, <1>2

(* Every slice lies within its array, ResolveTags stays within the values. *)
THEOREM TagsTypeCorrect == Spec => []TagsTypeOK
<1>1. Init => TagsTypeOK
  BY TagsTypeInit
<1>2. TagsTypeOK /\ [Next]_vars => TagsTypeOK'
  BY TagsTypeStep
<1> QED
  BY <1>1, <1>2, PTL DEF Spec

-----------------------------------------------------------------------------
(* HandedOutStays is inductive with this: the array of tags is not one of  *)
(* a list that was handed out.                                             *)
Separate == \A i \in DOMAIN given : given[i].slice.array # tags.array

LEMMA SeparateStep ==
  ASSUME TagsTypeOK, Separate, HandedOutStays, Next
  PROVE  Separate' /\ HandedOutStays'
<1> DEFINE Lists == [slice : Slice, held : Seq(Key \cup {NoKey})]
<1>1. HeapTyped /\ TagsTyped /\ settings \in SettingsType /\ given \in Seq(Lists)
  BY DEF TagsTypeOK, HeapTyped, TagsTyped
<1>2. Careful /\ (given' = given \/ ResolvedTags)
  BY <1>1, StepCareful
<1>3. ASSUME NEW i \in DOMAIN given
      PROVE  given[i].slice.array # tags'.array /\ Held(given[i].slice, heap') = given[i].held
  <2>1. /\ given[i].slice.array \in DOMAIN heap /\ given[i].slice.array # tags.array
        /\ Held(given[i].slice, heap) = given[i].held
    BY DEF TagsTypeOK, Within, Separate, HandedOutStays
  <2>2. heap'[given[i].slice.array] = heap[given[i].slice.array] /\ given[i].slice.array # tags'.array
    BY <1>2, <2>1 DEF Careful
  <2> QED
    BY <2>1, <2>2 DEF Held
<1>4. CASE given' = given
  BY <1>3, <1>4 DEF Separate, HandedOutStays
<1>5. CASE ResolvedTags
  <2> DEFINE new == [slice |-> [array |-> Len(heap) + 1, len |-> tags.len], held |-> Held(tags, heap)]
  <2>1. /\ Held(tags, heap) \in Seq(Keys) /\ tags.len \in Nat
        /\ DOMAIN Held(tags, heap) = 1..tags.len
    BY <1>1, HeldTyped DEF TagsTyped, Slice
  <2>2. heap' = Append(heap, Held(tags, heap)) /\ given' = Append(given, new) /\ tags' = tags
    BY <1>5 DEF ResolvedTags
  <2>3. /\ Len(heap) \in Nat /\ Len(heap) + 1 \notin DOMAIN heap
        /\ heap'[Len(heap) + 1] = Held(tags, heap)
    BY <1>1, <2>1, <2>2, NewArray
  <2>4. new \in Lists
    BY <2>1, <2>3 DEF Slice
  <2>5. new.slice.array # tags'.array
    BY <2>2, <2>3 DEF TagsTypeOK, Within
  <2>6. Held(new.slice, heap') = new.held
    <3>1. Held(new.slice, heap') = [i \in 1..tags.len |-> Held(tags, heap)[i]]
      BY <2>3 DEF Held
    <3>2. Held(tags, heap) = [i \in 1..tags.len |-> Held(tags, heap)[i]]
      BY DEF Held
    <3> QED
      BY <3>1, <3>2
  <2> HIDE DEF new, Lists
  <2>7. /\ DOMAIN given' = 1..(Len(given) + 1) /\ Len(given) \in Nat
        /\ \A i \in 1..Len(given) : given'[i] = given[i]
        /\ given'[Len(given) + 1] = new
        /\ DOMAIN given = 1..Len(given)
    BY <1>1, <2>2, <2>4, AppendProperties, LenProperties
  <2>8. \A i \in DOMAIN given' : i \in DOMAIN given \/ i = Len(given) + 1
    BY <2>7
  <2> QED
    BY <1>3, <2>5, <2>6, <2>7, <2>8 DEF Separate, HandedOutStays
<1> QED
  BY <1>2, <1>4, <1>5

(* Whoever was given a list of keys keeps it, whatever is set, resolved or *)
(* asked for later.                                                        *)
THEOREM HandedOutForGood == Spec => []HandedOutStays
<1> DEFINE Inv == TagsTypeOK /\ Separate /\ HandedOutStays
<1>1. Init => Inv
  <2>1. Init => DOMAIN given = {}
    BY DEF Init
  <2> QED
    BY <2>1, TagsTypeInit DEF Separate, HandedOutStays
<1>2. Inv /\ [Next]_vars => Inv'
  <2>1. Inv /\ UNCHANGED vars => Separate' /\ HandedOutStays'
    BY DEF vars, Separate, HandedOutStays, Held
  <2> QED
    BY <2>1, TagsTypeStep, SeparateStep
<1>3. Inv => HandedOutStays
  OBVIOUS
<1> QED
  BY <1>1, <1>2, <1>3, PTL DEF Spec

-----------------------------------------------------------------------------
(* The invariant of the loop in ResolveTags: the list holds the first n-1  *)
(* values, each key once and by when it was asked for first.               *)
Built(list, values, n) ==
  /\ EachOnce(list)
  /\ \A i \in DOMAIN list : list[i] # NoKey /\ \E p \in 1..(n - 1) : values[p] = list[i]
  /\ \A p \in 1..(n - 1) : values[p] = NoKey \/ \E i \in DOMAIN list : list[i] = values[p]
  /\ \A i, j \in DOMAIN list : i < j =>
       \E p \in 1..(n - 1) : values[p] = list[i] /\ \A q \in 1..p : values[q] # list[j]

(* A value that is blank or there already adds nothing.                    *)
LEMMA BuiltWithout ==
  ASSUME NEW list, NEW values, NEW n \in Nat \ {0}, Built(list, values, n),
         values[n] = NoKey \/ \E i \in DOMAIN list : list[i] = values[n]
  PROVE  Built(list, values, n + 1)
<1>1. /\ \A p \in 1..(n - 1) : p \in 1..((n + 1) - 1)
      /\ \A p \in 1..((n + 1) - 1) : p \in 1..(n - 1) \/ p = n
  OBVIOUS
<1> QED
  BY <1>1 DEF Built

(* A new key is later than all before it.                                  *)
LEMMA BuiltWith ==
  ASSUME NEW list \in Seq(Keys), NEW values, NEW n \in Nat \ {0}, Built(list, values, n),
         values[n] \in Keys, values[n] # NoKey, \A i \in DOMAIN list : list[i] # values[n]
  PROVE  Built(Append(list, values[n]), values, n + 1)
<1> DEFINE longer == Append(list, values[n])
           m == Len(list) + 1
<1>1. /\ \A p \in 1..(n - 1) : p \in 1..((n + 1) - 1)
      /\ \A p \in 1..((n + 1) - 1) : p \in 1..(n - 1) \/ p = n
      /\ n \in 1..((n + 1) - 1)
  OBVIOUS
<1>2. /\ DOMAIN list = 1..Len(list) /\ Len(list) \in Nat
      /\ DOMAIN longer = 1..m /\ longer[m] = values[n]
      /\ \A i \in DOMAIN list : longer[i] = list[i]
  BY AppendProperties, LenProperties
<1>3. /\ m \in DOMAIN longer
      /\ \A i \in DOMAIN longer : i \in DOMAIN list \/ i = m
      /\ \A i \in DOMAIN list : i \in DOMAIN longer /\ i # m
      /\ \A j \in DOMAIN longer : ~(m < j)
  BY <1>2
<1> HIDE DEF longer, m
<1>4. EachOnce(longer)
  BY <1>2, <1>3 DEF Built, EachOnce
<1>5. \A i \in DOMAIN longer : longer[i] # NoKey /\ \E p \in 1..((n + 1) - 1) : values[p] = longer[i]
  <2>1. ASSUME NEW i \in DOMAIN list
        PROVE  longer[i] # NoKey /\ \E p \in 1..((n + 1) - 1) : values[p] = longer[i]
    <3>1. list[i] # NoKey /\ \E p \in 1..(n - 1) : values[p] = list[i]
      BY Zenon DEF Built
    <3> QED
      BY <1>1, <1>2, <3>1, Zenon
  <2>2. longer[m] # NoKey /\ \E p \in 1..((n + 1) - 1) : values[p] = longer[m]
    BY <1>1, <1>2, Zenon
  <2> QED
    BY <1>3, <2>1, <2>2, Zenon
<1>6. ASSUME NEW p \in 1..((n + 1) - 1)
      PROVE  values[p] = NoKey \/ \E i \in DOMAIN longer : longer[i] = values[p]
  <2>1. CASE p \in 1..(n - 1)
    <3>1. values[p] = NoKey \/ \E i \in DOMAIN list : list[i] = values[p]
      BY <2>1, Zenon DEF Built
    <3> QED
      BY <1>2, <1>3, <3>1, Zenon
  <2>2. CASE p = n
    BY <1>2, <1>3, <2>2, Zenon
  <2> QED
    BY <1>1, <2>1, <2>2, Zenon
<1>7. ASSUME NEW i \in DOMAIN longer, NEW j \in DOMAIN longer, i < j
      PROVE  \E p \in 1..((n + 1) - 1) : values[p] = longer[i] /\ \A q \in 1..p : values[q] # longer[j]
  <2>1. i \in DOMAIN list /\ longer[i] = list[i]
    BY <1>2, <1>3, <1>7
  <2>2. CASE j \in DOMAIN list
    <3>1. \E p \in 1..(n - 1) : values[p] = list[i] /\ \A q \in 1..p : values[q] # list[j]
      BY <1>7, <2>1, <2>2 DEF Built
    <3> QED
      BY <1>1, <1>2, <2>1, <2>2, <3>1, Zenon
  <2>3. CASE j = m
    <3>1. PICK p \in 1..(n - 1) : values[p] = list[i]
      BY <2>1 DEF Built
    <3>2. \A q \in 1..p : q \in 1..(n - 1)
      BY <3>1
    <3>3. \A q \in 1..p : values[q] # values[n]
      <4>1. \A q \in 1..(n - 1) : values[q] = NoKey \/ \E k \in DOMAIN list : list[k] = values[q]
        BY Zenon DEF Built
      <4> QED
        BY <3>2, <4>1, Zenon
    <3> QED
      BY <1>1, <1>2, <2>1, <2>3, <3>1, <3>3, Zenon
  <2> QED
    BY <1>3, <2>2, <2>3
<1> QED
  BY <1>4, <1>5, <1>6, <1>7 DEF Built, longer

(* What the whole loop built is what is asked for, if db is allowed, ...   *)
LEMMA BuiltIsRight ==
  ASSUME NEW list, settings \in SettingsType, ~settings.only, ~settings.noDb,
         Built(list, Values, Len(Values) + 1)
  PROVE  EachOnce(list) /\ Exactly(list) /\ InOrder(list)
<1>1. /\ DOMAIN Values = 1..Len(Values) /\ Len(Values) \in Nat
      /\ 1..((Len(Values) + 1) - 1) = DOMAIN Values
  BY ValuesTyped, LenProperties
<1>2. Asked = Values /\ \A key : Forbidden(key) <=> key = NoKey
  BY DEF Asked, Forbidden
<1>3. EachOnce(list) /\ InOrder(list)
  <2> SUFFICES ASSUME NEW i \in DOMAIN list, NEW j \in DOMAIN list, i < j
               PROVE  \E p \in DOMAIN Asked : Asked[p] = list[i] /\ \A q \in 1..p : Asked[q] # list[j]
    BY DEF Built, InOrder
  <2>1. \E p \in 1..((Len(Values) + 1) - 1) : Values[p] = list[i] /\ \A q \in 1..p : Values[q] # list[j]
    BY Zenon DEF Built
  <2> QED
    BY <1>1, <1>2, <2>1, Zenon
<1>4. \A i \in DOMAIN list : ~Forbidden(list[i]) /\ \E p \in DOMAIN Asked : Asked[p] = list[i]
  <2> TAKE i \in DOMAIN list
  <2>1. list[i] # NoKey /\ \E p \in DOMAIN Values : Values[p] = list[i]
    BY <1>1 DEF Built
  <2> QED
    BY <1>2, <2>1
<1>5. \A p \in DOMAIN Asked : Forbidden(Asked[p]) \/ \E i \in DOMAIN list : Asked[p] = list[i]
  <2> TAKE p \in DOMAIN Asked
  <2>1. Values[p] = NoKey \/ \E i \in DOMAIN list : list[i] = Values[p]
    BY <1>1, <1>2 DEF Built
  <2> QED
    BY <1>2, <2>1
<1> QED
  BY <1>3, <1>4, <1>5 DEF Exactly

(* ... and what is left of it without db if not.                           *)
LEMMA BuiltLessDb ==
  ASSUME NEW list \in Seq(Keys), settings \in SettingsType, ~settings.only, settings.noDb,
         Built(list, Values, Len(Values) + 1),
         NEW at \in 1..Len(list), list[at] = db, NEW rest, DOMAIN rest = 1..(Len(list) - 1),
         \A i \in 1..(Len(list) - 1) : rest[i] = list[IF i < at THEN i ELSE i + 1]
  PROVE  EachOnce(rest) /\ Exactly(rest) /\ InOrder(rest)
<1> DEFINE Old(i) == IF i < at THEN i ELSE i + 1
<1>1. /\ DOMAIN Values = 1..Len(Values) /\ Len(Values) \in Nat
      /\ 1..((Len(Values) + 1) - 1) = DOMAIN Values
  BY ValuesTyped, LenProperties
<1>2. Asked = Values /\ \A key : Forbidden(key) <=> key = NoKey \/ key = db
  BY DEF Asked, Forbidden
<1>3. Len(list) \in Nat /\ DOMAIN list = 1..Len(list)
  BY LenProperties
<1>4. /\ \A i \in DOMAIN rest : rest[i] = list[Old(i)] /\ Old(i) \in DOMAIN list /\ Old(i) # at
      /\ \A i, j \in DOMAIN rest : (i # j => Old(i) # Old(j)) /\ (i < j => Old(i) < Old(j))
      /\ \A k \in DOMAIN list : k # at => \E i \in DOMAIN rest : Old(i) = k
  <2>1. \A i \in DOMAIN rest : rest[i] = list[Old(i)] /\ Old(i) \in DOMAIN list /\ Old(i) # at
    BY <1>3
  <2>2. \A i, j \in DOMAIN rest : (i # j => Old(i) # Old(j)) /\ (i < j => Old(i) < Old(j))
    BY <1>3
  <2>3. ASSUME NEW k \in DOMAIN list, k # at PROVE \E i \in DOMAIN rest : Old(i) = k
    <3>1. CASE k < at
      <4>1. k \in DOMAIN rest /\ Old(k) = k
        BY <1>3, <3>1
      <4> QED BY <4>1
    <3>2. CASE ~(k < at)
      <4>1. k - 1 \in DOMAIN rest /\ Old(k - 1) = k
        BY <1>3, <2>3, <3>2
      <4> QED BY <4>1
    <3> QED
      BY <3>1, <3>2
  <2> QED
    BY <2>1, <2>2, <2>3
<1> HIDE DEF Old
<1>5. \A k \in DOMAIN list : k # at => list[k] # db
  BY <1>3 DEF Built, EachOnce
<1>6. EachOnce(rest)
  BY <1>4 DEF Built, EachOnce
<1>7. \A i \in DOMAIN rest : ~Forbidden(rest[i]) /\ \E p \in DOMAIN Values : Values[p] = rest[i]
  <2> TAKE i \in DOMAIN rest
  <2>1. rest[i] = list[Old(i)] /\ Old(i) \in DOMAIN list /\ rest[i] # db
    BY <1>4, <1>5
  <2>2. list[Old(i)] # NoKey /\ \E p \in DOMAIN Values : Values[p] = list[Old(i)]
    BY <1>1, <2>1 DEF Built
  <2> QED
    BY <1>2, <2>1, <2>2
<1>8. ASSUME NEW p \in DOMAIN Values, ~Forbidden(Values[p])
      PROVE  \E i \in DOMAIN rest : Values[p] = rest[i]
  <2>1. PICK k \in DOMAIN list : list[k] = Values[p]
    BY <1>1, <1>2, <1>8, Zenon DEF Built
  <2>2. k # at
    BY <1>2, <1>8, <2>1
  <2> QED
    BY <1>4, <2>1, <2>2, ZenonT(40)
<1>9. InOrder(rest)
  <2> SUFFICES ASSUME NEW i \in DOMAIN rest, NEW j \in DOMAIN rest, i < j
               PROVE  \E p \in DOMAIN Asked : Asked[p] = rest[i] /\ \A q \in 1..p : Asked[q] # rest[j]
    BY DEF InOrder
  <2>1. /\ Old(i) \in DOMAIN list /\ Old(j) \in DOMAIN list /\ Old(i) < Old(j)
        /\ rest[i] = list[Old(i)] /\ rest[j] = list[Old(j)]
    BY <1>4
  <2>2. \E p \in DOMAIN Values :
          Values[p] = list[Old(i)] /\ \A q \in 1..p : Values[q] # list[Old(j)]
    <3>1. \E p \in 1..((Len(Values) + 1) - 1) :
            Values[p] = list[Old(i)] /\ \A q \in 1..p : Values[q] # list[Old(j)]
      <4>1. \A k, l \in DOMAIN list : k < l =>
              \E p \in 1..((Len(Values) + 1) - 1) :
                 Values[p] = list[k] /\ \A q \in 1..p : Values[q] # list[l]
        BY Zenon DEF Built
      <4> QED
        BY <2>1, <4>1, Zenon
    <3> QED
      BY <1>1, <3>1, Zenon
  <2> QED
    BY <1>2, <2>1, <2>2
<1> QED
  BY <1>2, <1>6, <1>7, <1>8, <1>9 DEF Exactly

List == Held(tags, heap)

Looping == loop > 0 => ~settings.only /\ Built(List, Values, loop)

(* The list of tags is a list of keys.                                     *)
LEMMA ListTyped ==
  ASSUME TagsTypeOK
  PROVE  /\ HeapTyped /\ TagsTyped
         /\ List \in Seq(Keys) /\ Len(List) = tags.len /\ DOMAIN List = 1..tags.len
         /\ tags.len \in Nat
<1>1. HeapTyped /\ TagsTyped /\ tags \in Slice /\ Within(tags) /\ tags.len \in Nat
  BY DEF TagsTypeOK, HeapTyped, TagsTyped, Slice
<1> QED
  BY <1>1, HeldTyped DEF List

(* One turn of the loop.                                                   *)
LEMMA BuiltNext ==
  ASSUME TagsTypeOK, Looping, AddNext
  PROVE  Looping'
<1>1. /\ loop \in Nat \ {0} /\ loop' = loop + 1 /\ settings' = settings
      /\ Values[loop] \in Keys
  BY ValuesTyped, ElementOfSeq, LenProperties DEF TagsTypeOK, AddNext
<1>2. Values' = Values
  BY <1>1 DEF Values
<1>3. ~settings.only /\ Built(List, Values, loop)
  BY <1>1 DEF Looping
<1>4. Has(Values[loop]) <=> \E i \in DOMAIN List : List[i] = Values[loop]
  BY ListTyped DEF Has, List, Held
<1>5. CASE Values[loop] = NoKey \/ Has(Values[loop])
  <2>1. List' = List
    BY <1>5 DEF AddNext, AddKey, List
  <2>2. Built(List, Values, loop + 1)
    BY <1>1, <1>3, <1>4, <1>5, BuiltWithout
  <2> QED
    BY <1>1, <1>2, <1>3, <2>1, <2>2 DEF Looping
<1>6. CASE ~(Values[loop] = NoKey \/ Has(Values[loop]))
  <2>1. AppendKey(Values[loop])
    BY <1>6 DEF AddNext, AddKey
  <2>2. List' = Append(List, Values[loop])
    BY <1>1, <2>1, AppendCareful, ListTyped DEF List
  <2>3. Built(Append(List, Values[loop]), Values, loop + 1)
    BY <1>1, <1>3, <1>4, <1>6, BuiltWith, ListTyped
  <2> QED
    BY <1>1, <1>2, <1>3, <2>2, <2>3 DEF Looping
<1> QED
  BY <1>5, <1>6

(* The end of it.                                                          *)
LEMMA RightAtEnd ==
  ASSUME TagsTypeOK, Looping, EndResolve
  PROVE  EachOnce(List') /\ Exactly(List') /\ InOrder(List')
<1>1. /\ settings \in SettingsType /\ loop = Len(Values) + 1 /\ loop > 0
      /\ Len(Values) \in Nat
  BY ValuesTyped DEF TagsTypeOK, EndResolve
<1>2. ~settings.only /\ Built(List, Values, Len(Values) + 1)
  BY <1>1 DEF Looping
<1>3. /\ Len(List) = tags.len /\ DOMAIN List = 1..tags.len /\ tags.len \in Nat
      /\ List \in Seq(Keys) /\ HeapTyped /\ TagsTyped
  BY ListTyped
<1>4. CASE ~settings.noDb
  <2>1. List' = List
    BY <1>4 DEF EndResolve, List
  <2> QED
    BY <1>1, <1>2, <1>4, <2>1, BuiltIsRight
<1>5. CASE settings.noDb
  <2>1. RemoveKey(db) /\ db \in Keys
    BY <1>5, KeyAssumption DEF EndResolve
  <2>2. Has(db)
    <3>1. 1 \in 1..((Len(Values) + 1) - 1) /\ Values[1] = db
      BY <1>1, ValuesTyped
    <3>2. db # NoKey
      BY KeyAssumption
    <3>3. \E i \in DOMAIN List : List[i] = db
      BY <1>2, <3>1, <3>2 DEF Built
    <3> QED
      BY <1>3, <3>3 DEF Has, List, Held
  <2>3. PICK at \in 1..tags.len :
          /\ List[at] = db
          /\ \A i \in 1..(tags.len - 1) : List'[i] = List[IF i < at THEN i ELSE i + 1]
    BY <1>3, <2>1, <2>2, RemoveCareful DEF List
  <2>4. DOMAIN List' = 1..(tags.len - 1)
    <3>1. tags'.len = tags.len - 1
      BY <1>3, <2>1, <2>2, RemoveCareful
    <3> QED
      BY <3>1 DEF List, Held
  <2> DEFINE rest == List'
  <2>5. /\ DOMAIN rest = 1..(Len(List) - 1) /\ at \in 1..Len(List)
        /\ \A i \in 1..(Len(List) - 1) : rest[i] = List[IF i < at THEN i ELSE i + 1]
    BY <1>3, <2>3, <2>4
  <2> HIDE DEF rest
  <2>6. EachOnce(rest) /\ Exactly(rest) /\ InOrder(rest)
    BY <1>1, <1>2, <1>3, <1>5, <2>3, <2>5, BuiltLessDb
  <2> QED
    BY <2>6 DEF rest
<1> QED
  BY <1>4, <1>5

LEMMA ResolvedStep ==
  ASSUME TagsTypeOK, Looping, ResolvedFromSettings, Next
  PROVE  Looping' /\ ResolvedFromSettings'
<1>1. CASE Configure
  BY <1>1 DEF Configure, Looping, ResolvedFromSettings
<1>2. CASE ResolveOnly
  <2>1. List' = <<structable>>
    <3> DEFINE content == <<structable>>
    <3>1. content \in Seq(Keys) /\ Len(content) > 0 /\ Clone(content)
      <4>1. structable \in Keys
        BY KeyAssumption
      <4> QED
        BY <1>2, <4>1 DEF ResolveOnly
    <3> HIDE DEF content
    <3>2. List' = content
      BY <3>1, CloneCareful, ListTyped DEF List
    <3> QED
      BY <3>2 DEF content
  <2>2. settings' = settings /\ settings.only /\ loop' = 0
    BY <1>2 DEF ResolveOnly
  <2>3. Asked' = <<structable>>
    BY <2>2 DEF Asked
  <2>4. structable # NoKey /\ ~Forbidden(structable)'
    BY <2>2, KeyAssumption DEF Forbidden
  <2>5. EachOnce(List)' /\ InOrder(List)'
    BY <2>1 DEF EachOnce, InOrder
  <2>6. Exactly(List)'
    BY <2>1, <2>3, <2>4 DEF Exactly
  <2> QED
    BY <2>2, <2>5, <2>6 DEF Looping, ResolvedFromSettings, List
<1>3. CASE BeginResolve
  <2>1. loop' = 1 /\ settings' = settings /\ ~settings.only /\ tags'.len = 0
    BY <1>3 DEF BeginResolve, Reset, TagsTypeOK, Slice
  <2>2. DOMAIN List' = {}
    BY <2>1 DEF List, Held
  <2> QED
    BY <2>1, <2>2 DEF Looping, ResolvedFromSettings, Built, EachOnce
<1>4. CASE AddNext
  <2>1. loop' # 0
    BY <1>4, ValuesTyped, LenProperties DEF AddNext, TagsTypeOK
  <2> QED
    BY <1>4, <2>1, BuiltNext DEF ResolvedFromSettings
<1>5. CASE EndResolve
  <2>1. settings' = settings /\ loop' = 0
    BY <1>5 DEF EndResolve
  <2>2. Asked' = Asked /\ \A key : Forbidden(key)' <=> Forbidden(key)
    BY <2>1 DEF Asked, Values, Forbidden
  <2>3. EachOnce(List)' /\ Exactly(List)' /\ InOrder(List)'
    BY <1>5, <2>2, RightAtEnd DEF EachOnce, Exactly, InOrder
  <2> QED
    BY <2>1, <2>3 DEF Looping, ResolvedFromSettings, List
<1>6. CASE ResolvedTags
  <2>1. /\ tags' = tags /\ settings' = settings /\ loop' = 0 /\ loop = 0 /\ current' = current
        /\ heap' = Append(heap, Held(tags, heap))
    BY <1>6 DEF ResolvedTags
  <2>2. heap'[tags.array] = heap[tags.array]
    BY <2>1, NewArray, ListTyped DEF TagsTyped, Within, List
  <2>3. List' = List
    BY <2>1, <2>2 DEF List, Held
  <2>4. Asked' = Asked /\ \A key : Forbidden(key)' <=> Forbidden(key)
    BY <2>1 DEF Asked, Values, Forbidden
  <2> QED
    BY <2>1, <2>3, <2>4 DEF Looping, ResolvedFromSettings, List, EachOnce, Exactly, InOrder
<1> QED
  BY <1>1, <1>2, <1>3, <1>4, <1>5, <1>6 DEF Next, ResolveTags

(* ResolveTags is stateless: whatever was in the array, and whoever was    *)
(* given a copy, the keys are those that the settings at hand ask for.     *)
THEOREM ResolvedRightly == Spec => []ResolvedFromSettings
<1> DEFINE Inv == TagsTypeOK /\ Looping /\ ResolvedFromSettings
<1>1. Init => Inv
  <2> SUFFICES ASSUME Init PROVE Looping /\ ResolvedFromSettings
    BY TagsTypeInit
  <2>1. loop = 0 /\ Values = <<db>> /\ Asked = <<db>> /\ ~Forbidden(db)
    BY KeyAssumption DEF Init, Values, Asked, Forbidden
  <2>2. List = <<db>>
    BY DEF Init, List, Held
  <2> QED
    BY <2>1, <2>2 DEF Looping, ResolvedFromSettings, List, EachOnce, Exactly, InOrder
<1>2. Inv /\ [Next]_vars => Inv'
  <2>1. Inv /\ UNCHANGED vars => Looping' /\ ResolvedFromSettings'
    <3> SUFFICES ASSUME Inv, UNCHANGED vars PROVE Looping' /\ ResolvedFromSettings'
      OBVIOUS
    <3>1. /\ List' = List /\ Asked' = Asked /\ Values' = Values
          /\ \A key : Forbidden(key)' <=> Forbidden(key)
      BY DEF vars, List, Held, Asked, Values, Forbidden
    <3>2. settings' = settings /\ loop' = loop /\ current' = current
      BY DEF vars
    <3> QED
      BY <3>1, <3>2 DEF Looping, ResolvedFromSettings, List, EachOnce, Exactly, InOrder
  <2> QED
    BY <2>1, TagsTypeStep, ResolvedStep
<1>3. Inv => ResolvedFromSettings
  OBVIOUS
<1> QED
  BY <1>1, <1>2, <1>3, PTL DEF Spec
=============================================================================
