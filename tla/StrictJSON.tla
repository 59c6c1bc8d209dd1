----------------------------- MODULE StrictJSON -----------------------------
(***************************************************************************)
(* What the walks and scans of internal/strictjson find in a JSON document *)
(* that encoding/json would decode without a word.                         *)
(*                                                                         *)
(* A document is a tree of values.  What a name folds to, which fields the *)
(* struct types have and how names are ordered are constants; the bytes of *)
(* names and literals are not modelled.  No type of a profile embeds a     *)
(* struct or holds a map, so the walks have no branch for those here.      *)
(***************************************************************************)
EXTENDS Integers, Sequences, SequencesExt, FiniteSetsExt

CONSTANTS
  Names,             \* every member name, in the order of the strings
  Fold,              \* the case-folded form of each
  Fields,            \* of every struct type: its fields, each [type, required]
  RootType,          \* the struct type a document decodes into
  MaxReportedPaths

Name == ToSet(Names)

ASSUME NamesAssumption ==
  /\ Fold \in [Name -> STRING]
  /\ \A struct \in DOMAIN Fields :
       /\ DOMAIN Fields[struct] \subseteq Name
       /\ \A f, g \in DOMAIN Fields[struct] : Fold[f] = Fold[g] => f = g
  /\ RootType \in DOMAIN Fields
  /\ MaxReportedPaths \in Nat \ {0}

Object(members) == [kind |-> "object", members |-> members]
Array(items) == [kind |-> "array", items |-> items]
Number(n) == [kind |-> "number", data |-> n]
Text(t) == [kind |-> "text", data |-> t]
Null == [kind |-> "null"]

StructOf(name) == [shape |-> "struct", of |-> name]
ListOf(type) == [shape |-> "list", of |-> type]
NumberType == [shape |-> "number"]
TextType == [shape |-> "text"]

At(name) == [name |-> name]
Item(i) == [index |-> i]

\* pathCollector: the paths that are kept, and how many are not.
Collected(paths) ==
  [paths |-> SubSeq(paths, 1, IF Len(paths) > MaxReportedPaths THEN MaxReportedPaths ELSE Len(paths)),
   omitted |-> IF Len(paths) > MaxReportedPaths THEN Len(paths) - MaxReportedPaths ELSE 0]

-----------------------------------------------------------------------------
(* Members and fields *)

NoField == ""

\* fieldSet.lookup: exactly, else ignoring case.
FieldOf(struct, name) ==
  LET alike == {f \in DOMAIN Fields[struct] : Fold[f] = Fold[name]} IN
  IF name \in alike THEN name ELSE IF alike = {} THEN NoField ELSE CHOOSE f \in alike : TRUE

\* An object as a map holds the last of the members of one name.
KeysOf(object) == {object.members[i][1] : i \in DOMAIN object.members}
ValueAt(object, name) ==
  object.members[Max({i \in DOMAIN object.members : object.members[i][1] = name})][2]

SortedKeys(object) == SelectSeq(Names, LAMBDA name : name \in KeysOf(object))

-----------------------------------------------------------------------------
(* The decoder, encoding/json *)

RECURSIVE Zero(_)
Zero(type) ==
  CASE type.shape = "struct" -> [f \in DOMAIN Fields[type.of] |-> Zero(Fields[type.of][f].type)]
    [] type.shape = "list" -> <<>>
    [] type.shape = "number" -> 0
    [] type.shape = "text" -> ""

\* Whether a value is of another kind than the type, at some depth.
RECURSIVE Mismatched(_, _)
Mismatched(value, type) ==
  CASE value.kind = "null" -> FALSE
    [] value.kind = "object" /\ type.shape = "struct" ->
         \E i \in DOMAIN value.members :
           LET field == FieldOf(type.of, value.members[i][1]) IN
           field # NoField /\ Mismatched(value.members[i][2], Fields[type.of][field].type)
    [] value.kind = "array" /\ type.shape = "list" ->
         \E i \in DOMAIN value.items : Mismatched(value.items[i], type.of)
    [] OTHER -> value.kind # type.shape

\* Decoding into a value that holds something already, as a repeated member
\* does: null leaves numbers, texts and structs alone, and the items of an
\* array are decoded into the items that are there.
RECURSIVE Decoded(_, _, _)
Decoded(value, type, old) ==
  CASE value.kind = "null" -> IF type.shape = "list" THEN <<>> ELSE old
    [] value.kind = "object" ->
         LET fill(acc, member) ==
               LET field == FieldOf(type.of, member[1]) IN
               IF field = NoField THEN acc
               ELSE [acc EXCEPT ![field] = Decoded(member[2], Fields[type.of][field].type, @)]
         IN FoldLeft(fill, old, value.members)
    [] value.kind = "array" ->
         [i \in DOMAIN value.items |->
            Decoded(value.items[i], type.of, IF i <= Len(old) THEN old[i] ELSE Zero(type.of))]
    [] OTHER -> value.data

\* The members a decoder that refuses unknown ones comes across, in order.
RECURSIVE DecoderUnknown(_, _)
DecoderUnknown(value, type) ==
  CASE value.kind = "object" /\ type.shape = "struct" ->
         LET unknownIn(member) ==
               LET field == FieldOf(type.of, member[1]) IN
               IF field = NoField THEN <<member[1]>>
               ELSE DecoderUnknown(member[2], Fields[type.of][field].type)
         IN FlattenSeq([i \in DOMAIN value.members |-> unknownIn(value.members[i])])
    [] value.kind = "array" /\ type.shape = "list" ->
         FlattenSeq([i \in DOMAIN value.items |-> DecoderUnknown(value.items[i], type.of)])
    [] OTHER -> <<>>

-----------------------------------------------------------------------------
(* The walk of members without a field, or with one that is spelled in     *)
(* another way: walkUnknownFields                                          *)

Findings(unknown, misspelled) == [unknown |-> unknown, misspelled |-> misspelled]

Joined(findings) ==
  Findings(FlattenSeq([i \in DOMAIN findings |-> findings[i].unknown]),
           FlattenSeq([i \in DOMAIN findings |-> findings[i].misspelled]))

RECURSIVE WalkFields(_, _, _)
WalkMember(value, struct, name, prefix) ==
  LET field == FieldOf(struct, name) path == Append(prefix, At(name)) IN
  IF field = NoField THEN Findings(<<path>>, <<>>)
  ELSE LET below == WalkFields(value, Fields[struct][field].type, path) IN
       [below EXCEPT !.misspelled = (IF field = name THEN <<>> ELSE <<path>>) \o @]

WalkFields(value, type, prefix) ==
  CASE value.kind = "object" /\ type.shape = "struct" ->
         LET keys == SortedKeys(value) IN
         Joined([i \in DOMAIN keys |->
                   WalkMember(ValueAt(value, keys[i]), type.of, keys[i], prefix)])
    [] value.kind = "array" /\ type.shape = "list" ->
         Joined([i \in DOMAIN value.items |->
                   WalkFields(value.items[i], type.of, Append(prefix, Item(i)))])
    [] OTHER -> Findings(<<>>, <<>>)

Root == StructOf(RootType)

\* Fault: only what the walk finds is reported.
UnknownFieldsOfWalk(document) ==
  Collected(IF DecoderUnknown(document, Root) = <<>> THEN <<>>
            ELSE WalkFields(document, Root, <<>>).unknown)

\* UnknownFieldsOf: the walk sees the last of repeated members only, so what
\* the decoder objects to is reported where the walk finds nothing.
UnknownFieldsOf(document) ==
  LET objected == DecoderUnknown(document, Root)
      walked == WalkFields(document, Root, <<>>).unknown
  IN Collected(IF objected = <<>> THEN <<>>
               ELSE IF walked = <<>> THEN << <<At(Head(objected))>> >>
               ELSE walked)

-----------------------------------------------------------------------------
(* The scan that decides whether the walk for misspelled members runs *)

RECURSIVE Reachable(_)
Reachable(type) ==
  CASE type.shape = "struct" ->
         {type.of} \cup UNION {Reachable(Fields[type.of][f].type) : f \in DOMAIN Fields[type.of]}
    [] type.shape = "list" -> Reachable(type.of)
    [] OTHER -> {}

\* fieldSpellings: every way a field of the types spells a folded name; code
\* keeps the first it finds, and whether there are several.
FieldSpellings(type) ==
  LET names == UNION {DOMAIN Fields[struct] : struct \in Reachable(type)} IN
  [folded \in {Fold[f] : f \in names} |-> {f \in names : Fold[f] = folded}]

\* Decoder.Token: the tokens of a document, in order.
Delim(mark) == [delim |-> mark]
Literal(data) == [literal |-> data]

RECURSIVE Tokens(_)
Tokens(value) ==
  CASE value.kind = "object" ->
         <<Delim("{")>>
           \o FlattenSeq([i \in DOMAIN value.members |->
                            <<Literal(value.members[i][1])>> \o Tokens(value.members[i][2])])
           \o <<Delim("}")>>
    [] value.kind = "array" ->
         <<Delim("[")>> \o FlattenSeq([i \in DOMAIN value.items |-> Tokens(value.items[i])])
           \o <<Delim("]")>>
    [] value.kind = "text" -> <<Literal(value.data)>>
    [] OTHER -> <<Literal(NoField)>>

\* Fault: one spelling of each folded name is remembered.
MayMisspellAny(document, spellings) ==
  \E i \in DOMAIN Tokens(document) :
    LET token == Tokens(document)[i] IN
    /\ "literal" \in DOMAIN token /\ token.literal \in Name
    /\ Fold[token.literal] \in DOMAIN spellings
    /\ token.literal \notin spellings[Fold[token.literal]]

\* mayMisspell: texts are looked at as well as names.
MayMisspell(document, spellings) ==
  \E i \in DOMAIN Tokens(document) :
    LET token == Tokens(document)[i] IN
    /\ "literal" \in DOMAIN token /\ token.literal \in Name
    /\ Fold[token.literal] \in DOMAIN spellings
    /\ spellings[Fold[token.literal]] # {token.literal}

MisspelledFieldsOf(document) ==
  Collected(IF MayMisspell(document, FieldSpellings(Root))
            THEN WalkFields(document, Root, <<>>).misspelled ELSE <<>>)

-----------------------------------------------------------------------------
(* Required fields without a value: MissingFieldsOf *)

RequiresFields(type) ==
  \E struct \in Reachable(type) : \E f \in DOMAIN Fields[struct] : Fields[struct][f].required

RECURSIVE HoldsZeroRequired(_, _)
HoldsZeroRequired(decoded, type) ==
  CASE type.shape = "struct" ->
         \E f \in DOMAIN Fields[type.of] :
           LET field == Fields[type.of][f] IN
           \/ field.required /\ decoded[f] = Zero(field.type)
           \/ HoldsZeroRequired(decoded[f], field.type)
    [] type.shape = "list" -> \E i \in DOMAIN decoded : HoldsZeroRequired(decoded[i], type.of)
    [] OTHER -> FALSE

\* memberOf: exactly, else whichever member ignoring case the iteration over
\* the map, in some order of the names, comes to first.
MemberOf(value, name, order) ==
  LET keys == IF value.kind = "object" THEN KeysOf(value) ELSE {}
      alike == SelectSeq(order, LAMBDA key : key \in keys /\ Fold[key] = Fold[name])
  IN IF name \in keys THEN ValueAt(value, name)
     ELSE IF alike = <<>> THEN Null ELSE ValueAt(value, Head(alike))

RECURSIVE WalkMissing(_, _, _, _, _)
WalkMissing(value, type, decoded, prefix, order) ==
  CASE type.shape = "struct" ->
         LET fields == SelectSeq(Names, LAMBDA f : f \in DOMAIN Fields[type.of])
             missingIn(f) ==
               LET field == Fields[type.of][f]
                   member == MemberOf(value, f, order)
                   path == Append(prefix, At(f))
               IN (IF field.required /\ member = Null /\ decoded[f] = Zero(field.type)
                   THEN <<path>> ELSE <<>>)
                    \o WalkMissing(member, field.type, decoded[f], path, order)
         IN FlattenSeq([i \in DOMAIN fields |-> missingIn(fields[i])])
    [] type.shape = "list" ->
         LET item(i) == IF value.kind = "array" /\ i <= Len(value.items)
                        THEN value.items[i] ELSE Null
         IN FlattenSeq([i \in DOMAIN decoded |->
                          WalkMissing(item(i), type.of, decoded[i], Append(prefix, Item(i)), order)])
    [] OTHER -> <<>>

MissingFieldsOf(document, decoded, order) ==
  Collected(IF RequiresFields(Root) /\ HoldsZeroRequired(decoded, Root)
            THEN WalkMissing(document, Root, decoded, <<>>, order) ELSE <<>>)

-----------------------------------------------------------------------------
(* Repeated members: DuplicateKeys, a frame per open object or array *)

\* keys maps the folded names seen so far to whether they were reported.
ScanFrame(object) ==
  [isObject |-> object, keys |-> <<>>, member |-> NoField, index |-> 0, wantKey |-> object]

StartValue(frame) ==
  IF frame.isObject THEN [frame EXCEPT !.wantKey = TRUE] ELSE [frame EXCEPT !.index = @ + 1]

AddKey(frame, key) ==
  [frame EXCEPT !.member = key, !.wantKey = FALSE, !.keys = (Fold[key] :> (Fold[key] \in DOMAIN @)) @@ @]

\* Whether this is the first time that the name repeats.
Repeats(frame, key) == Fold[key] \in DOMAIN frame.keys /\ ~frame.keys[Fold[key]]

\* The member the innermost frame is at; every outer frame is at the value
\* that holds the next one.
MemberPath(stack) ==
  [i \in DOMAIN stack |->
     IF stack[i].isObject THEN At(stack[i].member) ELSE Item(stack[i].index)]

StartTop(stack) ==
  IF stack = <<>> THEN stack ELSE Append(Front(stack), StartValue(Last(stack)))

ScanToken(scan, token) ==
  LET stack == scan.stack
      expectsKey == stack # <<>> /\ Last(stack).wantKey
  IN CASE token \in {Delim("}"), Delim("]")} -> [scan EXCEPT !.stack = Front(@)]
       [] token \notin {Delim("}"), Delim("]")} /\ expectsKey ->
            LET named == Append(Front(stack), AddKey(Last(stack), token.literal)) IN
            [stack |-> named,
             found |-> IF Repeats(Last(stack), token.literal)
                       THEN Append(scan.found, MemberPath(named)) ELSE scan.found]
       [] token \in {Delim("{"), Delim("[")} /\ ~expectsKey ->
            [scan EXCEPT !.stack = Append(StartTop(@), ScanFrame(token = Delim("{")))]
       [] OTHER -> [scan EXCEPT !.stack = StartTop(@)]

DuplicateKeys(document) ==
  Collected(FoldLeft(ScanToken, [stack |-> <<>>, found |-> <<>>], Tokens(document)).found)

=============================================================================
