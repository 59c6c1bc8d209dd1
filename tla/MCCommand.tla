----------------------------- MODULE MCCommand -----------------------------
(***************************************************************************)
(* Command lines of one to four arguments over profiles that differ in one *)
(* way from an ordinary one, under limits of four inputs of at most three  *)
(* units each and six together.                                            *)
(***************************************************************************)
EXTENDS Command

Types == {"seccomp", "landlock"}
MCRejectable == {"duplicate", "unknown"}
Plain == [shape |-> "object", size |-> 1, types |-> {"seccomp"}, others |-> FALSE, decodes |-> TRUE,
          findings |-> {}, accepts |-> Mode, merges |-> TRUE, means |-> "one policy"]

Noted == [Plain EXCEPT !.others = TRUE, !.means = "another policy"]
Repeating == [Plain EXCEPT !.findings = {"duplicate"}]
Lax == [Plain EXCEPT !.accepts = {"default"}, !.size = 3]
Wordy == [Plain EXCEPT !.accepts = {}]      \* a merge drops what a check refuses
Refused == [Plain EXCEPT !.accepts = {}, !.merges = FALSE]
Typo == [Plain EXCEPT !.decodes = FALSE]
Landlock == [Plain EXCEPT !.types = {"landlock"}]
Both == [Plain EXCEPT !.types = Types]
Empty == [Plain EXCEPT !.types = {}]
Foreign == [Empty EXCEPT !.others = TRUE]
List == [Plain EXCEPT !.shape = "other"]
Broken == [Plain EXCEPT !.shape = "broken"]
Huge == [Plain EXCEPT !.size = 4]

One(doc) == [form |-> "one", size |-> doc.size, docs |-> <<doc>>]
SizeOfDocs(docs) == FoldLeft(LAMBDA sum, doc : sum + doc.size, 0, docs)
Text(form, docs) == [form |-> form, size |-> SizeOfDocs(docs), docs |-> docs]
Array(docs) == Text("array", docs)

MCFiles ==
  [plain |-> One(Plain), noted |-> One(Noted), repeating |-> One(Repeating), lax |-> One(Lax),
   wordy |-> One(Wordy), refused |-> One(Refused), typo |-> One(Typo),
   landlock |-> One(Landlock), both |-> One(Both), empty |-> One(Empty),
   foreign |-> One(Foreign), list |-> One(List), broken |-> One(Broken), huge |-> One(Huge),
   blank |-> Text("blank", <<>>), array |-> Array(<<Plain>>),
   missing |-> Text("missing", <<>>), unreadable |-> Text("unreadable", <<>>),
   dashed |-> One(Plain), flag |-> Text("missing", <<>>)]
MCFlagLike == {"dashed", "flag"}

Blank == Text("blank", <<>>)
Stdins ==
  {Blank, One(Noted), One(List), One(Huge), Array(<<>>), Array(<<Plain>>), Array(<<Plain, Lax>>),
   Array(<<Repeating, Noted>>), Array(<<Plain, Landlock>>), Array(<<Plain, Wordy, Refused>>),
   Array(<<Lax, Huge>>), Array(<<Empty, Empty, Empty, Empty, Empty>>),
   Text("torn", <<Plain, Noted>>), Text("unreadable", <<>>)}

Ordinary ==
  [command |-> "merge", args |-> <<"plain">>, separated |-> FALSE, parses |-> TRUE,
   formatKnown |-> TRUE, type |-> NoType, modes |-> <<"default">>, strategyKnown |-> TRUE,
   mergeable |-> TRUE, strict |-> FALSE, artifact |-> FALSE, quiet |-> FALSE, output |-> "",
   formatSet |-> FALSE, archKnown |-> TRUE, archNamed |-> FALSE, terminal |-> FALSE,
   stdin |-> Blank]

ModeLists ==
  {<<m>> : m \in Mode} \cup {<<"default", "artifact">>, <<"strict", "default">>,
                             <<"default", "strict", "default">>, <<"artifact", "default", "default">>}
Commands ==
  {[Ordinary EXCEPT !.modes = modes, !.mergeable = together] :
     modes \in ModeLists, together \in BOOLEAN}
    \cup {[Ordinary EXCEPT !.command = "validate", !.strict = mode = "strict",
                           !.artifact = mode = "artifact", !.quiet = quiet] :
            mode \in Mode, quiet \in BOOLEAN}
    \cup {[Ordinary EXCEPT !.command = "diff", !.archNamed = named, !.output = output] :
            named \in BOOLEAN, output \in {"", "directory/"}}

Pairs == {<<one, other>> : one, other \in DOMAIN MCFiles \ {"array", "list", "unreadable"}}
FilesOnly ==
  {[c EXCEPT !.args = args, !.type = named] :
     c \in Commands, args \in Pairs \cup {<<path>> : path \in DOMAIN MCFiles}, named \in {NoType, "seccomp"}}
WithStdin ==
  {[c EXCEPT !.args = args, !.stdin = stdin, !.type = named] :
     c \in Commands, stdin \in Stdins, named \in {NoType, "landlock"},
     args \in {<<>>, <<Stdin>>, <<Stdin, "plain">>, <<"noted", Stdin>>, <<Stdin, Stdin>>,
               <<"lax", Stdin, "refused">>}}
Long ==
  {[c EXCEPT !.args = args] : c \in Commands,
     args \in {<<"plain", "lax", "plain">>, <<"lax", "plain", "lax">>, <<"plain", "lax", "noted", "plain">>,
               <<"plain", "plain", "plain", "plain", "plain">>}}

\* Command lines with one or two of the mistakes that are found before reading.
Mistakes(c) ==
  {[c EXCEPT !.parses = FALSE], [c EXCEPT !.formatKnown = FALSE], [c EXCEPT !.type = "selinux"],
   [c EXCEPT !.modes = <<"lenient", "strict">>], [c EXCEPT !.strategyKnown = FALSE],
   [c EXCEPT !.strict = TRUE], [c EXCEPT !.output = "file"], [c EXCEPT !.output = "directory/"],
   [c EXCEPT !.formatSet = TRUE], [c EXCEPT !.archKnown = FALSE], [c EXCEPT !.separated = TRUE],
   [c EXCEPT !.args = <<>>, !.terminal = TRUE], [c EXCEPT !.args = <<"flag", "plain">>],
   [c EXCEPT !.args = <<"flag">>, !.separated = TRUE], [c EXCEPT !.args = <<"dashed">>]}
MCCalls == FilesOnly \cup WithStdin \cup Long \cup UNION {Mistakes(c) : c \in Commands}
=============================================================================
