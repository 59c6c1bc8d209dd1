---------------------------- MODULE StrictDecode ----------------------------
(***************************************************************************)
(* The two readers of profile documents: the command, which decodes every  *)
(* input under its own policy and warns of what the policy does not        *)
(* reject, and the library's Unmarshal, which refuses all of it.  Both are *)
(* given the same documents, the command first.                            *)
(***************************************************************************)
EXTENDS StrictJSON

\* The lists of inputs, each [document, trailing, utf8, policy]: the value,
\* whether there is data behind it, whether its bytes are valid, and the
\* checks that the input's policy rejects.
CONSTANT Inputs

Rejectable == {"duplicates", "unknown", "misspelled", "missing", "utf8"}

\* Fault: the command does not look at the bytes.
CommandStepsOnValues ==
  <<"decode", "object", "duplicates", "unknown", "misspelled", "missing", "return">>

\* unmarshalAll and documentChecks, for every input
CommandSteps ==
  <<"decode", "object", "duplicates", "unknown", "misspelled", "missing", "utf8", "return">>

\* Unmarshal, for every document
LibrarySteps ==
  <<"utf8", "decode", "trailing", "object",
    "duplicates", "unknown", "misspelled", "missing", "return">>

ASSUME InputsAssumption ==
  \A list \in Inputs : \A i \in DOMAIN list :
    /\ list[i].trailing \in BOOLEAN /\ list[i].utf8 \in BOOLEAN
    /\ list[i].policy \subseteq Rejectable

VARIABLES
  inputs,
  reader,    \* "command", then "library", then "none"
  next,      \* the input that is read
  at,        \* the reader's step
  profile,   \* what the input decoded into
  results,   \* of each reader: what it got of the inputs, in turn
  warnings   \* of the command: the checks it warned of, by input

vars == <<inputs, reader, next, at, profile, results, warnings>>

Input == inputs[next]
NoProfile == Zero(Root)

\* What a reader gets of an input.
Refused(check) == [refused |-> check]
Read(value) == [profile |-> value]
IsRead(result) == "profile" \in DOMAIN result

Init ==
  /\ inputs \in Inputs
  /\ reader = "command" /\ next = 1 /\ at = 1
  /\ profile = NoProfile
  /\ results = [command |-> <<>>, library |-> <<>>]
  /\ warnings = [i \in DOMAIN inputs |-> {}]

StepIs(step) ==
  /\ reader # "none"
  /\ step = (IF reader = "command" THEN CommandSteps ELSE LibrarySteps)[at]

GoOn == at' = at + 1 /\ UNCHANGED <<inputs, reader, next, results>>

\* The command gives up at the first input that it refuses; every call of
\* the library is about one document.
Finish(result) ==
  LET more == next < Len(inputs) /\ (reader = "command" => IsRead(result)) IN
  /\ results' = [results EXCEPT ![reader] = Append(@, result)]
  /\ next' = IF more THEN next + 1 ELSE 1
  /\ reader' = IF more THEN reader ELSE IF reader = "command" THEN "library" ELSE "none"
  /\ at' = 1 /\ profile' = NoProfile
  /\ UNCHANGED inputs

\* json.Unmarshal of the command refuses what is behind the document; the
\* library's Decode stops in front of it.
Decode ==
  /\ StepIs("decode") /\ UNCHANGED warnings
  /\ IF Mismatched(Input.document, Root) \/ (reader = "command" /\ Input.trailing)
     THEN Finish(Refused("decode"))
     ELSE GoOn /\ profile' = Decoded(Input.document, Root, profile)

Trailing ==
  /\ StepIs("trailing") /\ UNCHANGED warnings
  /\ IF Input.trailing THEN Finish(Refused("trailing")) ELSE GoOn /\ UNCHANGED profile

\* Every other value but null has failed to decode.
IsObject ==
  /\ StepIs("object") /\ UNCHANGED warnings
  /\ IF Input.document = Null THEN Finish(Refused("object")) ELSE GoOn /\ UNCHANGED profile

\* A finding about a document that decoded: the library refuses, and so does
\* the command where the policy says so.
Judge(check, found) ==
  IF found /\ (reader = "library" \/ check \in Input.policy)
  THEN Finish(Refused(check)) /\ UNCHANGED warnings
  ELSE /\ GoOn /\ UNCHANGED profile
       /\ warnings' = IF found THEN [warnings EXCEPT ![next] = @ \cup {check}] ELSE warnings

IsFound(report) == report.paths # <<>>

CheckDuplicates ==
  StepIs("duplicates") /\ Judge("duplicates", IsFound(DuplicateKeys(Input.document)))

CheckUnknown ==
  StepIs("unknown") /\ Judge("unknown", IsFound(UnknownFieldsOf(Input.document)))

CheckMisspelled ==
  StepIs("misspelled") /\ Judge("misspelled", IsFound(MisspelledFieldsOf(Input.document)))

CheckMissing ==
  /\ StepIs("missing")
  /\ \E order \in {Names, Reverse(Names)} :
       Judge("missing", IsFound(MissingFieldsOf(Input.document, profile, order)))

CheckUTF8 == StepIs("utf8") /\ Judge("utf8", ~Input.utf8)

\* The library writes its target, and the command keeps the profile, once
\* every check has passed.
Return == StepIs("return") /\ Finish(Read(profile)) /\ UNCHANGED warnings

Next ==
  \/ Decode \/ Trailing \/ IsObject \/ Return
  \/ CheckDuplicates \/ CheckUnknown \/ CheckMisspelled \/ CheckMissing \/ CheckUTF8

Spec == Init /\ [][Next]_vars

-----------------------------------------------------------------------------
(* Properties *)

\* How another parser may read a value: names match exactly or ignoring case,
\* and of repeated members the first counts or the last.
RECURSIVE ReadBy(_, _, _, _)
ReadBy(value, type, exact, keep) ==
  CASE value.kind = "null" -> Zero(type)
    [] value.kind = "object" ->
         [f \in DOMAIN Fields[type.of] |->
            LET fills(i) == LET name == value.members[i][1] IN
                  IF exact THEN name = f ELSE FieldOf(type.of, name) = f
                filling == {i \in DOMAIN value.members : fills(i)}
            IN IF filling = {} THEN Zero(Fields[type.of][f].type)
               ELSE ReadBy(value.members[IF keep = "first" THEN Min(filling) ELSE Max(filling)][2],
                           Fields[type.of][f].type, exact, keep)]
    [] value.kind = "array" ->
         [i \in DOMAIN value.items |-> ReadBy(value.items[i], type.of, exact, keep)]
    [] OTHER -> value.data

\* What the library accepts means the same to every reader: whichever member
\* of a repeated name it keeps, however it compares names, and whether or
\* not it refuses members that it does not know (unmarshal.go).
AcceptedDocumentsReadAlike ==
  \A i \in DOMAIN results.library :
    LET document == inputs[i].document IN
    IsRead(results.library[i]) =>
      /\ inputs[i].utf8 /\ ~inputs[i].trailing /\ document.kind = "object"
      /\ DecoderUnknown(document, Root) = <<>>
      /\ \A exact \in BOOLEAN, keep \in {"first", "last"} :
           results.library[i].profile = ReadBy(document, Root, exact, keep)

Unread == [shape |-> "unread"]   \* what an unknown member holds

\* Every member of an object at any depth: where it is (by position), its
\* path and name, the field it fills, NoField where it should fill one, and
\* how many members before it have a name that folds alike.
RECURSIVE MembersOf(_, _, _, _)
MembersOf(value, type, place, path) ==
  CASE value.kind = "object" ->
         UNION {LET name == value.members[i][1]
                    field == IF type = Unread THEN "unread" ELSE FieldOf(type.of, name)
                    below == IF field \in {"unread", NoField} THEN Unread
                             ELSE Fields[type.of][field].type
                    alike == {j \in 1 .. i - 1 : Fold[value.members[j][1]] = Fold[name]}
                IN {[place |-> Append(place, i), path |-> Append(path, At(name)), name |-> name,
                     field |-> field, earlier |-> Cardinality(alike)]}
                     \cup MembersOf(value.members[i][2], below,
                                    Append(place, i), Append(path, At(name)))
                : i \in DOMAIN value.members}
    [] value.kind = "array" ->
         UNION {MembersOf(value.items[i], IF type = Unread THEN Unread ELSE type.of,
                          Append(place, i), Append(path, Item(i)))
                : i \in DOMAIN value.items}
    [] OTHER -> {}

\* The required fields for which a value without repeated members names none.
RECURSIVE Unnamed(_, _, _)
Unnamed(value, type, path) ==
  CASE type.shape = "struct" ->
         UNION {LET field == Fields[type.of][f]
                    here == Append(path, At(f))
                    naming == {i \in DOMAIN value.members :
                                 /\ FieldOf(type.of, value.members[i][1]) = f
                                 /\ value.members[i][2] # Null}
                IN IF naming = {} THEN IF field.required THEN {[path |-> here]} ELSE {}
                   ELSE UNION {Unnamed(value.members[i][2], field.type, here) : i \in naming}
                : f \in DOMAIN Fields[type.of]}
    [] type.shape = "list" ->
         UNION {Unnamed(IF value.items[i] = Null THEN Object(<<>>) ELSE value.items[i],
                        type.of, Append(path, Item(i)))
                : i \in DOMAIN value.items}
    [] OTHER -> {}

\* A report lists the paths of some places and counts the others.
Reports(report, places) ==
  /\ \A i \in DOMAIN report.paths : \E p \in places : p.path = report.paths[i]
  /\ Len(report.paths) = Min({Cardinality(places), MaxReportedPaths})
  /\ Len(report.paths) + report.omitted = Cardinality(places)

\* No check misses what it looks for, though each stops early where a cheap
\* look says there is nothing, walks a map that holds one of several repeated
\* members, and lists a bounded number of paths: repeated and unknown members
\* are found in every document, and the others in every one that repeats none
\* (duplicates.go, fields.go).
ScansMissNothing ==
  reader = "command" /\ StepIs("duplicates") =>
    LET document == Input.document
        members == MembersOf(document, Root, <<>>, <<>>)
        repeated == {m \in members : m.earlier = 1}
        unknown == {m \in members : m.field = NoField}
        misspelled == {m \in members : m.field \notin {NoField, "unread", m.name}}
    IN /\ Reports(DuplicateKeys(document), repeated)
       /\ IsFound(UnknownFieldsOf(document)) <=> unknown # {}
       /\ repeated = {} =>
            /\ Reports(UnknownFieldsOf(document), unknown)
            /\ Reports(MisspelledFieldsOf(document), misspelled)
            /\ \A order \in {Names, Reverse(Names)} :
                 Reports(MissingFieldsOf(document, profile, order), Unnamed(document, Root, <<>>))

\* The command and the library agree on every document under every policy,
\* though they look at different things in a different order: what the command
\* takes without a warning the library takes as the same profile, what it
\* takes with warnings the library refuses for one of them, and what it
\* refuses the library refuses (decode.go, unmarshal.go).
CommandAgreesWithLibrary ==
  reader = "none" =>
    \A i \in DOMAIN results.command :
      LET command == results.command[i] library == results.library[i] IN
      IF IsRead(command)
      THEN IF warnings[i] = {} THEN library = command
           ELSE ~IsRead(library) /\ library.refused \in warnings[i]
      ELSE ~IsRead(library)
=============================================================================
