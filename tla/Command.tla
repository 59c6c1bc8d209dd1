------------------------------- MODULE Command -------------------------------
(***************************************************************************)
(* One run of spm merge, spm validate or spm diff (cmd/spm): it checks its *)
(* flags, reads the inputs, settles on a profile type, decodes and checks  *)
(* every input under the input's own mode, merges or compares, and writes  *)
(* what it buffered.  StrictDecode says what decoding finds, the modules   *)
(* of the packages what a check accepts and a merge returns, and           *)
(* OutputFile how a file is written; here these are data of the documents. *)
(***************************************************************************)
EXTENDS Naturals, FiniteSets, SequencesExt

CONSTANTS
  ProfileType, Seccomp,   \* the three types, and the one with architectures
  Rejectable,             \* what decoding may find that a policy rejects
  Stdin,                  \* the argument "-"
  FlagLike,               \* the paths that start with a dash
  Files,                  \* what is at every path that may be named
  Calls,                  \* the command lines, with what is on stdin
  MaxInputFiles, MaxInputSize, MaxTotalInputSize

(* A text is [form, size, docs].  The form is "missing", "unreadable",     *)
(* "blank", "one" (docs is its document), "array" (docs are its elements)  *)
(* or "torn" (an array that ends in a syntax error behind docs).           *)
(* A document is [shape, size, types, others, decodes, findings, accepts,  *)
(* merges, means]: an object, another value or broken; the types that know *)
(* one of its members, and whether it has members no type knows; whether   *)
(* it decodes and what is found in it then; the modes whose check passes,  *)
(* and whether a merge takes it; and what it says, to a comparison.        *)

Mode == {"default", "strict", "artifact"}

Document ==
  [shape : {"object", "other", "broken"}, size : Nat, types : SUBSET ProfileType,
   others : BOOLEAN, decodes : BOOLEAN, findings : SUBSET Rejectable, accepts : SUBSET Mode,
   merges : BOOLEAN, means : STRING]

SumOf(sizes) == MapThenSumSet(LAMBDA i : sizes[i], DOMAIN sizes)

\* A text is at least as long as the documents in it.
IsText(text) ==
  /\ text.form \in {"missing", "unreadable", "blank", "one", "array", "torn"}
  /\ text.size \in Nat /\ text.docs \in Seq(Document)
  /\ text.form = "one" => Len(text.docs) = 1 /\ text.docs[1].size = text.size
  /\ text.form = "array" => SumOf([i \in DOMAIN text.docs |-> text.docs[i].size]) <= text.size

ASSUME CommandAssumption ==
  /\ IsFiniteSet(ProfileType)
  /\ MaxInputFiles \in Nat \ {0} /\ MaxInputSize \in Nat /\ MaxTotalInputSize \in Nat
  /\ MaxInputSize <= MaxTotalInputSize
  /\ \A path \in DOMAIN Files : IsText(Files[path])
  /\ \A c \in Calls :
       /\ c.command \in {"merge", "validate", "diff"}
       /\ c.args \in Seq(DOMAIN Files \cup {Stdin}) /\ c.modes \in Seq(STRING)
       /\ IsText(c.stdin)

VARIABLES
  call,
  pc,         \* flags, read, type, decode, check, run, write or exited
  taken,      \* how many arguments are read
  inputs,     \* the profiles read, [name, doc]
  total,      \* their size
  type,       \* the profile type, NoType until it is settled
  decoded,    \* how many inputs are decoded
  warned,     \* those that decoded with warnings
  equal,      \* what a comparison found
  delivered,  \* how much of the result was written: none, part or all
  blamed,     \* the inputs that errors name
  failedAt,   \* where the run failed, "nowhere" if it did not
  exit

vars == <<call, pc, taken, inputs, total, type, decoded, warned, equal, delivered,
          blamed, failedAt, exit>>

NoType == "none"
Is(command) == call.command = command

Init ==
  /\ call \in Calls
  /\ pc = "flags" /\ taken = 0 /\ inputs = <<>> /\ total = 0
  /\ type = NoType /\ decoded = 0 /\ warned = {} /\ equal = FALSE
  /\ delivered = "none" /\ blamed = {} /\ failedAt = "nowhere" /\ exit = 0

Usage == 2

\* Fault: a diff that cannot be written exits like one that found a difference.
FailureExitOfMerge(mistake, where) ==
  IF mistake \/ (Is("diff") /\ where # "write") THEN Usage ELSE 1

\* readErrorExit and the parseExit of resolveKind: 2 for a mistake of the
\* caller, else 1.  A diff, whose 1 means different, exits 2 for any failure.
FailureExit(mistake, where) == IF mistake \/ Is("diff") THEN Usage ELSE 1

Fail(names, mistake) ==
  /\ pc' = "exited" /\ failedAt' = pc /\ blamed' = names
  /\ exit' = FailureExit(mistake, pc)

GoOn(next) == pc' = next /\ UNCHANGED <<blamed, failedAt, exit>>

-----------------------------------------------------------------------------
(* Flags: parseFlags to checkStdin *)

\* A flag behind the file arguments is taken for a file, unless "--" says so.
MisplacedFlag ==
  ~call.separated /\ \E i \in DOMAIN call.args :
    call.args[i] \in FlagLike /\ Files[call.args[i]].form = "missing"

WrongFlags ==
  \/ ~call.parses \/ ~call.formatKnown
  \/ call.type \notin ProfileType \cup {NoType}
  \/ Is("merge") /\ (~call.strategyKnown \/ ~(ToSet(call.modes) \subseteq Mode))
  \/ Is("validate") /\ call.strict /\ call.artifact
  \/ Is("validate") /\ call.quiet /\ (call.output # "" \/ call.formatSet)
  \/ Is("diff") /\ ~call.archKnown

WouldBlock == call.args = <<>> /\ call.terminal

\* readDiffInputs, before it reads.
WrongFileCount ==
  Is("diff") /\ call.args # <<>> /\ Stdin \notin ToSet(call.args) /\ Len(call.args) # 2

CheckFlags ==
  /\ pc = "flags"
  /\ IF WrongFlags \/ MisplacedFlag \/ WouldBlock \/ WrongFileCount
     THEN Fail({}, TRUE) ELSE GoOn("read")
  /\ UNCHANGED <<call, taken, inputs, total, type, decoded, warned, equal, delivered>>

-----------------------------------------------------------------------------
(* Inputs: readInputs *)

\* A text read as one document.  An array in a file is a value of its own.
AsDocument(text) ==
  IF text.form = "one" THEN text.docs[1]
  ELSE [shape |-> IF text.form = "torn" THEN "broken" ELSE "other", size |-> text.size]

Named(source, element, doc) == [name |-> [source |-> source, element |-> element], doc |-> doc]

\* The profiles on stdin: readStdinArray.
StdinInputs ==
  IF call.stdin.form = "array"
  THEN [i \in DOMAIN call.stdin.docs |-> Named(Stdin, i, call.stdin.docs[i])]
  ELSE <<Named(Stdin, 0, AsDocument(call.stdin))>>

HoldsNothing(text) == text.form = "blank" \/ (text.form = "array" /\ text.docs = <<>>)

\* A file that holds an empty array holds a value.
ReadsNothing(source, text) ==
  \/ text.form \in {"missing", "unreadable", "blank"}
  \/ source = Stdin /\ HoldsNothing(text)

\* The elements are counted before any of them is decoded.
TooManyElements == call.stdin.form \in {"array", "torn"} /\ Len(call.stdin.docs) > MaxInputFiles

TooLarge(source, text) ==
  \/ text.form \notin {"missing", "unreadable"} /\ text.size > MaxInputSize
  \/ source = Stdin /\ text.form # "unreadable" /\ TooManyElements

TextOf(c, source) == IF source = Stdin THEN c.stdin ELSE Files[source]
SizeOf(list) == SumOf([i \in DOMAIN list |-> list[i].doc.size])

\* The "-" of several arguments, each of which is one more profile.
TooManyInputs(items) == Len(items) + Len(call.args) - 1 > MaxInputFiles

Take(source, bounded) ==
  LET text == TextOf(call, source)
      items == IF source = Stdin THEN StdinInputs ELSE <<Named(source, 0, AsDocument(text))>>
      named == IF source = Stdin THEN {} ELSE {[source |-> source, element |-> 0]}
  IN IF TooLarge(source, text) THEN Fail(named, TRUE) /\ UNCHANGED <<taken, inputs, total>>
     ELSE IF ReadsNothing(source, text)
     THEN Fail(named, FALSE) /\ UNCHANGED <<taken, inputs, total>>
     ELSE IF bounded /\ ((source = Stdin /\ TooManyInputs(items))
                           \/ total + SizeOf(items) > MaxTotalInputSize)
     THEN Fail({}, TRUE) /\ UNCHANGED <<taken, inputs, total>>
     ELSE /\ inputs' = inputs \o items
          /\ total' = total + SizeOf(items)
          /\ taken' = taken + 1
          /\ UNCHANGED <<pc, blamed, failedAt, exit>>

\* Without arguments stdin is read, whose size is its only limit.
ReadStdin ==
  /\ pc = "read" /\ call.args = <<>> /\ taken = 0
  /\ Take(Stdin, FALSE)
  /\ UNCHANGED <<call, type, decoded, warned, equal, delivered>>

StdinTwice == Cardinality({i \in 1..(taken + 1) : call.args[i] = Stdin}) > 1

ReadArgument ==
  /\ pc = "read" /\ taken < Len(call.args)
  /\ IF Len(call.args) > MaxInputFiles \/ StdinTwice
     THEN Fail({}, TRUE) /\ UNCHANGED <<taken, inputs, total>>
     ELSE Take(call.args[taken + 1], TRUE)
  /\ UNCHANGED <<call, type, decoded, warned, equal, delivered>>

\* The inputs are counted once they are read: a "-" may stand for several.
WrongInputCount ==
  \/ Is("diff") /\ Len(inputs) # 2
  \/ Is("merge") /\ Len(call.modes) \notin {1, Len(inputs)}

CountInputs ==
  /\ pc = "read" /\ taken > 0 /\ taken >= Len(call.args)
  /\ IF WrongInputCount THEN Fail({}, TRUE) ELSE GoOn("type")
  /\ UNCHANGED <<call, taken, inputs, total, type, decoded, warned, equal, delivered>>

-----------------------------------------------------------------------------
(* The profile type: resolveKind *)

Inputs == DOMAIN inputs
Doc(i) == inputs[i].doc
Names(some) == {inputs[i].name : i \in some}
First(some) == CHOOSE i \in some : \A j \in some : i <= j

HasMembers(doc) == doc.others \/ doc.types # {}

Unparsable == {i \in Inputs : Doc(i).shape # "object"}

\* The inputs that a named type is not the type of; one of two types will do.
NotOfType == {i \in Inputs : HasMembers(Doc(i)) /\ call.type \notin Doc(i).types}

\* The first input that tells another type than those before it, or two.
Conflicting ==
  {i \in Inputs : \/ Cardinality(Doc(i).types) > 1
                  \/ \E j \in 1..(i - 1) : Doc(j).types # {} /\ Doc(i).types \ Doc(j).types # {}}

\* The type all inputs that tell one agree on, if any.
Detected == IF Conflicting # {} THEN {} ELSE UNION {Doc(i).types : i \in Inputs}

ResolveType ==
  /\ pc = "type"
  /\ IF Unparsable # {} THEN Fail(Names({First(Unparsable)}), FALSE) /\ UNCHANGED type
     ELSE IF call.type # NoType
     THEN IF NotOfType # {} THEN Fail(Names({First(NotOfType)}), TRUE) /\ UNCHANGED type
          ELSE GoOn("decode") /\ type' = call.type
     ELSE IF Cardinality(Detected) # 1
     THEN /\ LET mixed == {i \in Conflicting : i = First(Conflicting)
                                                 /\ Cardinality(Doc(i).types) > 1}
             IN Fail(Names(mixed), TRUE)
          /\ UNCHANGED type
     ELSE GoOn("decode") /\ \E t \in Detected : type' = t
  /\ UNCHANGED <<call, taken, inputs, total, decoded, warned, equal, delivered>>

-----------------------------------------------------------------------------
(* Decoding and checks, each under the input's mode *)

\* Fault: the first mode goes for every input.
FirstMode(i) ==
  CASE Is("merge") -> call.modes[1]
    [] Is("validate") -> IF call.artifact THEN "artifact" ELSE IF call.strict THEN "strict" ELSE "default"
    [] Is("diff") -> "lenient"

\* parseValidateModes, modeFromFlags and lenientDecode.
ModeOf(i) ==
  CASE Is("merge") -> call.modes[IF Len(call.modes) = 1 THEN 1 ELSE i]
    [] Is("validate") -> IF call.artifact THEN "artifact" ELSE IF call.strict THEN "strict" ELSE "default"
    [] Is("diff") -> "lenient"

\* decodePolicy
Rejected(mode) ==
  CASE mode = "strict" -> Rejectable
    [] mode = "artifact" -> Rejectable \ {"unknown"}
    [] OTHER -> {}

\* Members of another type are unknown to the one that is decoded.
Findings(doc) ==
  doc.findings \cup (IF doc.others \/ doc.types \ {type} # {} THEN {"unknown"} ELSE {})

\* --arch asks for something that only seccomp profiles have.
RefuseArch ==
  /\ pc = "decode" /\ decoded = 0 /\ Is("diff") /\ call.archNamed /\ type # Seccomp
  /\ Fail({}, TRUE)
  /\ UNCHANGED <<call, taken, inputs, total, type, decoded, warned, equal, delivered>>

\* One turn of unmarshalAll, which gives up at the first input it refuses.
DecodeNext ==
  /\ pc = "decode" /\ decoded < Len(inputs)
  /\ Is("diff") /\ call.archNamed => type = Seccomp
  /\ LET i == decoded + 1 doc == Doc(i) IN
     IF ~doc.decodes \/ Findings(doc) \cap Rejected(ModeOf(i)) # {}
     THEN Fail(Names({i}), FALSE) /\ UNCHANGED <<decoded, warned>>
     ELSE /\ decoded' = i
          /\ warned' = IF Findings(doc) # {} THEN warned \cup {i} ELSE warned
          /\ IF i = Len(inputs) THEN GoOn("check") ELSE UNCHANGED <<pc, blamed, failedAt, exit>>
  /\ UNCHANGED <<call, taken, inputs, total, type, equal, delivered>>

\* The default checks of a merge are left to it.
Checked(i) == Is("validate") \/ (Is("merge") /\ ModeOf(i) # "default")
Failing == {i \in Inputs : Checked(i) /\ ModeOf(i) \notin Doc(i).accepts}

\* Every input is checked, so that one run names every problem.
CheckInputs ==
  /\ pc = "check"
  /\ IF Failing # {} THEN Fail(Names(Failing), FALSE) ELSE GoOn("run")
  /\ UNCHANGED <<call, taken, inputs, total, type, decoded, warned, equal, delivered>>

-----------------------------------------------------------------------------
(* The result *)

\* A merge names one of the profiles that it refuses by its position, which
\* nameMergeFailure replaces, and none where it refuses them together.
Unmergeable == {i \in Inputs : Is("merge") /\ ~Doc(i).merges}

Run ==
  /\ pc = "run"
  /\ IF Unmergeable # {} THEN (\E i \in Unmergeable : Fail(Names({i}), FALSE)) /\ UNCHANGED equal
     ELSE IF Is("merge") /\ ~call.mergeable THEN Fail({}, FALSE) /\ UNCHANGED equal
     ELSE GoOn("write") /\ equal' = (Is("diff") => Doc(1).means = Doc(2).means)
  /\ UNCHANGED <<call, taken, inputs, total, type, decoded, warned, delivered>>

SuccessExit == IF equal THEN 0 ELSE 1

\* flushOutput: what was buffered until now is written, unless --quiet.
Write ==
  /\ pc = "write"
  /\ \/ /\ Is("validate") /\ call.quiet
        /\ UNCHANGED delivered /\ GoOn("exited")
     \/ /\ ~(Is("validate") /\ call.quiet) /\ call.output # "directory/"
        /\ delivered' = "all" /\ pc' = "exited" /\ exit' = SuccessExit
        /\ UNCHANGED <<blamed, failedAt>>
     \/ /\ ~(Is("validate") /\ call.quiet)
        /\ delivered' \in (IF call.output = "directory/" THEN {"none"} ELSE {"none", "part"})
        /\ Fail({}, FALSE)
  /\ UNCHANGED <<call, taken, inputs, total, type, decoded, warned, equal>>

Returned == pc = "exited" /\ UNCHANGED vars

Next ==
  \/ CheckFlags \/ ReadStdin \/ ReadArgument \/ CountInputs \/ ResolveType
  \/ RefuseArch \/ DecodeNext \/ CheckInputs \/ Run \/ Write
  \/ Returned

Spec == Init /\ [][Next]_vars

-----------------------------------------------------------------------------
(* Properties *)

Exited == pc = "exited"

Sources(c) == IF c.args = <<>> THEN <<Stdin>> ELSE c.args

ProfilesAt(c, source) ==
  IF source = Stdin /\ c.stdin.form = "array" THEN c.stdin.docs ELSE <<AsDocument(TextOf(c, source))>>

ProfilesOf(c) ==
  FlattenSeq([i \in DOMAIN Sources(c) |-> ProfilesAt(c, Sources(c)[i])])

\* The profiles that the command line stands for, in their order.
Meant == ProfilesOf(call)

\* The checks that the command line asks of its n-th profile.
MeantMode(n) ==
  IF Is("merge") /\ Len(call.modes) > 1
  THEN IF n \in DOMAIN call.modes THEN call.modes[n] ELSE "none" ELSE ModeOf(1)

\* docs/cli.md, Exit codes: what exits with 2.
LimitsExceeded ==
  \/ \E s \in ToSet(Sources(call)) :
       LET text == TextOf(call, s) IN
       text.form \notin {"missing", "unreadable"} /\ text.size > MaxInputSize
  \/ Stdin \in ToSet(Sources(call)) /\ TooManyElements
  \/ Len(call.args) > MaxInputFiles \/ Len(Meant) > MaxInputFiles
  \/ SumOf([n \in DOMAIN Meant |-> Meant[n].size]) > MaxTotalInputSize

TypesIn(docs) == UNION {docs[n].types : n \in {n \in DOMAIN docs : docs[n].shape = "object"}}

TypeUnclear ==
  IF call.type = NoType THEN Cardinality(TypesIn(Meant)) # 1
  ELSE \E n \in DOMAIN Meant :
         Meant[n].shape = "object" /\ HasMembers(Meant[n]) /\ call.type \notin Meant[n].types

\* The type that all inputs are read as: the one named, or those their members tell.
MeantTypes == IF call.type = NoType THEN TypesIn(Meant) ELSE {call.type}

StdinArgs(c) == {i \in DOMAIN c.args : c.args[i] = Stdin}

Mistaken ==
  \/ WrongFlags \/ MisplacedFlag \/ WouldBlock \/ LimitsExceeded \/ TypeUnclear
  \/ Cardinality(StdinArgs(call)) > 1
  \/ Is("merge") /\ Len(call.modes) \notin {1, Len(Meant)}
  \/ Is("diff") /\ (Len(Meant) # 2 \/ (call.archNamed /\ MeantTypes # {Seccomp}))

\* What the checks of a mode find wrong with a profile of the settled type.
BadProfile(doc, mode) ==
  \/ doc.shape # "object" \/ ~doc.decodes
  \/ Findings(doc) \cap Rejected(mode) # {}
  \/ Is("validate") /\ mode \notin doc.accepts
  \/ Is("merge") /\ (~doc.merges \/ (mode # "default" /\ mode \notin doc.accepts))

OffType(doc) ==
  IF call.type = NoType THEN Cardinality(doc.types) > 1
  ELSE HasMembers(doc) /\ call.type \notin doc.types

BadInput ==
  \/ Is("merge") /\ ~call.mergeable
  \/ \E s \in ToSet(Sources(call)) :
       \/ TextOf(call, s).form \in {"missing", "unreadable", "blank"}
       \/ s = Stdin /\ HoldsNothing(call.stdin)
  \/ \E n \in DOMAIN Meant : BadProfile(Meant[n], MeantMode(n))

\* The exit code tells the truth about the inputs and the output: 0, or 1 of a
\* diff, only where nothing is wrong with the command line or any profile it
\* stands for and the whole result, or none of it for --quiet, is written; 1
\* only where a profile is bad or nothing could be written, and 2 only for a
\* mistake on the command line, or any failure of a diff, which never exits 1
\* for one; and then the result is not there (docs/cli.md, Exit codes).
ExitCodeTellsTheTruth ==
  Exited =>
    LET quiet == Is("validate") /\ call.quiet
        unwritten == failedAt = "write"
    IN IF exit = 0 \/ (Is("diff") /\ exit = 1)
       THEN /\ ~Mistaken /\ ~BadInput
            /\ delivered = (IF quiet THEN "none" ELSE "all")
            /\ Is("diff") => (exit = 0) = (Meant[1].means = Meant[2].means)
       ELSE /\ delivered # "all"
            /\ IF exit = 1 THEN BadInput \/ unwritten
               ELSE Mistaken \/ (Is("diff") /\ (BadInput \/ unwritten))

\* Errors name inputs that are at fault under their own modes, whatever
\* elements of stdin stand between them, and the checks name all of them.  And
\* where a run succeeds no profile was read as an empty one of another type:
\* the type is one that it tells, if it tells any or if the caller named the
\* type of its members, and what was not read of it was warned of.
BlameFallsOnTheRightInput ==
  Exited =>
    LET nameOf(n) == inputs[n].name
        blames(bad(_)) == \A name \in blamed : \E n \in DOMAIN Meant :
                            name = nameOf(n) /\ bad(n)
    IN /\ failedAt = "read" =>
            \A name \in blamed : LET text == TextOf(call, name.source) IN
              \/ text.form \in {"missing", "unreadable", "blank"} \/ text.size > MaxInputSize
       /\ failedAt = "type" =>
            blames(LAMBDA n : Meant[n].shape # "object" \/ OffType(Meant[n]))
       /\ failedAt \in {"decode", "run"} =>
            blames(LAMBDA n : BadProfile(Meant[n], MeantMode(n)))
       /\ failedAt = "check" =>
            blamed = {nameOf(n) : n \in {n \in DOMAIN Meant :
                        /\ Is("validate") \/ MeantMode(n) # "default"
                        /\ MeantMode(n) \notin Meant[n].accepts}}
       /\ failedAt = "nowhere" =>
            \A n \in DOMAIN Meant :
              /\ Meant[n].types # {} \/ (call.type # NoType /\ Meant[n].others) => type \in Meant[n].types
              /\ Meant[n].others \/ Meant[n].types \ {type} # {} => n \in warned
=============================================================================
