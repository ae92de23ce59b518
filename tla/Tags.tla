-------------------------------- MODULE Tags --------------------------------
(***************************************************************************)
(* Which struct tags a field gets: settings.ResolveTags computes the list  *)
(* of keys from the flags and keeps it in a slice of the Settings, whose   *)
(* array it uses again on the next call; ResolvedTags hands copies out, to *)
(* the taggers of App among others.                                        *)
(*                                                                         *)
(* Slices are modelled as Go has them: a length over an array that others  *)
(* may hold too, written in place as long as the capacity allows.          *)
(***************************************************************************)
EXTENDS Naturals, Sequences

CONSTANTS
  Value,        \* what -tags takes: the values of the flag
  Key,          \* the keys of struct tags
  NoKey,        \* of a value that is blank
  KeyOf,        \* normalizeTag: the key of a value
  db, structable,
  MaxCalls      \* bound: how often ResolveTags and ResolvedTags are called

ASSUME KeyAssumption == NoKey \notin Key /\ {db, structable} \subseteq Key /\ db # structable
ASSUME KeyOfAssumption == KeyOf \in [Value -> Key \cup {NoKey}]
ASSUME BoundAssumption == MaxCalls \in Nat

VARIABLES
  settings,  \* the fields of Settings that are about tags
  current,   \* ResolveTags was called since settings changed
  heap,      \* the arrays
  tags,      \* Settings.tags
  loop,      \* index of the next value in ResolveTags; 0 outside of it
  given,     \* slices that ResolvedTags returned, and what they held then
  calls

vars == <<settings, current, heap, tags, loop, given, calls>>

SettingsType == [noDb : BOOLEAN, structable : BOOLEAN, only : BOOLEAN, tags : Seq(Value)]

-----------------------------------------------------------------------------
(* Slices, which all begin where their array does.                         *)

Held(slice, arrays) == [i \in 1..slice.len |-> arrays[slice.array][i]]

Has(key) == \E i \in 1..tags.len : heap[tags.array][i] = key

Clone(content) == \* a new array, and the slice of it
  /\ heap' = Append(heap, content)
  /\ tags' = [array |-> Len(heap) + 1, len |-> Len(content)]

AppendInPlace(key) ==
  /\ heap' = [heap EXCEPT ![tags.array] = [@ EXCEPT ![tags.len + 1] = key]]
  /\ tags' = [tags EXCEPT !.len = @ + 1]

(* An array that is full is copied to one of more capacity; twice the size *)
(* is what Go makes of these small ones.                                   *)
Grown(key) ==
  [i \in 1..(2 * tags.len) |->
     IF i <= tags.len THEN heap[tags.array][i] ELSE IF i = tags.len + 1 THEN key ELSE NoKey]

AppendGrowing(key) ==
  /\ heap' = Append(heap, Grown(key))
  /\ tags' = [array |-> Len(heap) + 1, len |-> tags.len + 1]

AppendKey(key) ==
  IF tags.len < Len(heap[tags.array]) THEN AppendInPlace(key) ELSE AppendGrowing(key)

-----------------------------------------------------------------------------
(* addTag and removeTag.                                                   *)
AddKey(key) ==
  IF key = NoKey \/ Has(key) THEN UNCHANGED <<heap, tags>> ELSE AppendKey(key)

(* append(r[:i], r[i+1:]...) moves the keys after it within the array.     *)
Without(array, at) ==
  [i \in DOMAIN array |-> IF at <= i /\ i < tags.len THEN array[i + 1] ELSE array[i]]

RemoveKey(key) ==
  IF ~Has(key) THEN UNCHANGED <<heap, tags>>
  ELSE \E at \in 1..tags.len :
         /\ heap[tags.array][at] = key
         /\ \A i \in 1..(at - 1) : heap[tags.array][i] # key
         /\ heap' = [heap EXCEPT ![tags.array] = Without(@, at)]
         /\ tags' = [tags EXCEPT !.len = @ - 1]

(* ResolveTags, whose loop over s.Tags is steps of its own.                *)
NotReset == tags \* a slip: the next resolution goes on from the last

Reset == [tags EXCEPT !.len = 0]

ResolveOnly ==
  /\ loop = 0 /\ calls < MaxCalls
  /\ settings.only
  /\ Clone(<<structable>>)
  /\ current' = TRUE
  /\ calls' = calls + 1
  /\ UNCHANGED <<settings, loop, given>>

BeginResolve ==
  /\ loop = 0 /\ calls < MaxCalls
  /\ ~settings.only
  /\ tags' = Reset
  /\ loop' = 1
  /\ calls' = calls + 1
  /\ UNCHANGED <<settings, current, heap, given>>

(* What is added in turn: db, structable if the legacy flag is set, and    *)
(* the values of the flag.                                                 *)
Values == <<db>> \o (IF settings.structable THEN <<structable>> ELSE <<>>)
                 \o [i \in DOMAIN settings.tags |-> KeyOf[settings.tags[i]]]

AddNext ==
  /\ loop \in DOMAIN Values
  /\ AddKey(Values[loop])
  /\ loop' = loop + 1
  /\ UNCHANGED <<settings, current, given, calls>>

EndResolve ==
  /\ loop = Len(Values) + 1
  /\ IF settings.noDb THEN RemoveKey(db) ELSE UNCHANGED <<heap, tags>>
  /\ current' = TRUE
  /\ loop' = 0
  /\ UNCHANGED <<settings, given, calls>>

HandOutItself == \* a slip: s.tags is returned, not a clone
  /\ loop = 0 /\ calls < MaxCalls
  /\ given' = Append(given, [slice |-> tags, held |-> Held(tags, heap)])
  /\ calls' = calls + 1
  /\ UNCHANGED <<settings, current, heap, tags, loop>>

(* settings.ResolvedTags: slices.Clone.                                    *)
ResolvedTags ==
  /\ loop = 0 /\ calls < MaxCalls
  /\ heap' = Append(heap, Held(tags, heap))
  /\ given' = Append(given, [slice |-> [array |-> Len(heap) + 1, len |-> tags.len],
                             held |-> Held(tags, heap)])
  /\ calls' = calls + 1
  /\ UNCHANGED <<settings, current, tags, loop>>

(* The flags are parsed, or a program that uses the package sets fields.   *)
Configure ==
  /\ loop = 0
  /\ settings' \in SettingsType
  /\ current' = FALSE
  /\ UNCHANGED <<heap, tags, loop, given, calls>>

(* settings.New: tags is ResolvedTags{TagDB}.                              *)
Init ==
  /\ settings = [noDb |-> FALSE, structable |-> FALSE, only |-> FALSE, tags |-> <<>>]
  /\ current = TRUE
  /\ heap = <<<<db>>>>
  /\ tags = [array |-> 1, len |-> 1]
  /\ loop = 0
  /\ given = <<>>
  /\ calls = 0

ResolveTags == ResolveOnly \/ BeginResolve \/ AddNext \/ EndResolve

Next == Configure \/ ResolveTags \/ ResolvedTags

Spec == Init /\ [][Next]_vars

-----------------------------------------------------------------------------
(* Properties.                                                             *)

(* A slice lies within its array, and no array of tags is of no length.    *)
Slice == [array : Nat, len : Nat]

Within(slice) == slice.array \in DOMAIN heap /\ slice.len <= Len(heap[slice.array])

TagsTypeOK ==
  /\ settings \in SettingsType
  /\ current \in BOOLEAN
  /\ heap \in Seq(Seq(Key \cup {NoKey}))
  /\ tags \in Slice /\ Within(tags) /\ Len(heap[tags.array]) > 0
  /\ loop \in {0} \cup 1..(Len(Values) + 1)
  /\ given \in Seq([slice : Slice, held : Seq(Key \cup {NoKey})])
  /\ \A i \in DOMAIN given : Within(given[i].slice)
  /\ calls \in 0..MaxCalls

(* What the settings ask for, in order and with repetitions.               *)
Asked == IF settings.only THEN <<structable>> ELSE Values

Forbidden(key) == key = NoKey \/ (settings.noDb /\ ~settings.only /\ key = db)

(* ResolveTags is stateless, as its comment has it: whatever was resolved  *)
(* before in the same array, its result is that of the settings at hand.   *)
(* Every key that they ask for is there once, ordered by when it was asked *)
(* for first; db is first unless it is forbidden, and not reintroduced by  *)
(* an alias then.                                                          *)
EachOnce(list) == \A i, j \in DOMAIN list : i # j => list[i] # list[j]

Exactly(list) ==
  /\ \A i \in DOMAIN list : ~Forbidden(list[i]) /\ \E p \in DOMAIN Asked : Asked[p] = list[i]
  /\ \A p \in DOMAIN Asked : Forbidden(Asked[p]) \/ \E i \in DOMAIN list : Asked[p] = list[i]

InOrder(list) ==
  \A i, j \in DOMAIN list : i < j =>
    \E p \in DOMAIN Asked : Asked[p] = list[i] /\ \A q \in 1..p : Asked[q] # list[j]

ResolvedFromSettings ==
  current /\ loop = 0 =>
    LET list == Held(tags, heap) IN EachOnce(list) /\ Exactly(list) /\ InOrder(list)

(* A list once handed out, to the taggers say, does not change any more    *)
(* when the settings are changed and resolved again.                       *)
HandedOutStays == \A i \in DOMAIN given : Held(given[i].slice, heap) = given[i].held
=============================================================================
