--------------------------- MODULE MCAppArmorMerge ---------------------------
(***************************************************************************)
(* Small instances of AppArmorMerge over the names "/etc/", "/etc/a",      *)
(* "/etc/s/" and "/etc/s/ b", whose space a profile has to escape.         *)
(***************************************************************************)
EXTENDS AppArmorArtifact, TLC

Etc == <<"/", "etc/">>
Sub == <<"/", "etc/", "s/">>
FileA == <<"/", "etc/", "a">>
FileB == <<"/", "etc/", "s/", " b">>

MCName == {Etc, FileA, Sub, FileB}

Literal(name) ==
  [kind |-> "literal", literal |-> name, prefix |-> Front(name), covers |-> {name},
   starStar |-> FALSE, doubleSlash |-> FALSE]

Glob(prefix, covers) ==
  [kind |-> "glob", literal |-> prefix, prefix |-> prefix, covers |-> covers,
   starStar |-> FALSE, doubleSlash |-> FALSE]

StarStarGlob(prefix) ==
  [Glob(prefix, {name \in MCName : StartsWith(name, prefix) /\ name # prefix})
     EXCEPT !.starStar = TRUE]

UnusableGlob(prefix) == [Glob(prefix, {}) EXCEPT !.kind = "unusable"]

\* "/etc/\a" and "/etc//a" spell "/etc/a", "/etc/***" spells "/etc/**".
MCMatcher ==
  ("/etc/a" :> Literal(FileA)) @@ ("/etc/\\a" :> Literal(FileA))
    @@ ("/etc//a" :> Literal(FileA)) @@ ("/etc/s/ b" :> Literal(FileB))
    @@ ("/etc/s/\\ b" :> Literal(FileB)) @@ ("etc/a" :> Literal(<<"etc/", "a">>))
    @@ ("/etc/./a" :> Literal(<<"/", "etc/", "./", "a">>))
    @@ ("/etc/" :> Literal(Etc))
    @@ ("/etc/**" :> StarStarGlob(Etc)) @@ ("/etc/***" :> StarStarGlob(Etc))
    @@ ("/etc/s/**" :> StarStarGlob(Sub))
    @@ ("/etc/*" :> Glob(Etc, {FileA})) @@ ("/etc/s/*" :> Glob(Sub, {FileB}))
    @@ ("/etc/{,**}" :> Glob(Etc, MCName))
    @@ ("/etc/\\/s/*" :> [Glob(<<"/", "etc/", "/", "s/">>, {}) EXCEPT !.doubleSlash = TRUE])
    @@ ("/etc/[a-]" :> UnusableGlob(Etc)) @@ ("/{etc" :> UnusableGlob(<<"/">>))
    @@ ("" :> Literal(<<"">>)) @@ ("/@{HOME}" :> Literal(<<"/", "@{HOME}">>))

MCPath == DOMAIN MCMatcher

MCKey ==
  [p \in MCPath |-> CASE p \in {"/etc/\\a", "/etc//a"} -> "/etc/a"
                      [] p = "/etc/***" -> "/etc/**"
                      [] p = "/etc/s/\\ b" -> "/etc/s/ b"
                      [] OTHER -> p]

MCFiltered == [p \in MCPath |-> IF p = "/etc//a" THEN "/etc/a" ELSE p]

\* The literals covering a name that is not canonical cover nothing.
MCMatcherOf == [p \in MCPath |-> [MCMatcher[p] EXCEPT !.covers = @ \cap MCName]]

MCRank == [p \in MCPath |-> IF p = "/etc//a" THEN 1 ELSE 0]

MCLength ==
  [p \in MCPath |->
     CASE p \in {"/etc/{,**}", "/etc/[a-]"} -> 3
       [] p \in {"/etc/\\a", "/etc//a", "/etc/***", "/etc/s/\\ b"} -> 2
       [] OTHER -> 1]

MCPatternSyntax ==
  {p \in MCPath : MCMatcher[p].kind # "literal" \/ p \in {"/etc/\\a", "/etc/s/\\ b"}}

-----------------------------------------------------------------------------
NoSections == [exec |-> Nil, fs |-> Nil, net |-> Nil, caps |-> Nil]

\* Profiles with a filesystem section of n of the paths.
FsProfiles(paths, n, granted) ==
  {[NoSections EXCEPT !.fs = CollapseFsPerms(perms)] :
     perms \in {[p \in Path |-> IF p \in DOMAIN f THEN f[p] ELSE {}] :
       f \in UNION {[S -> granted] : S \in kSubset(n, paths)}}}

AnyPerm == (SUBSET Perm) \ {{}}
OnePerm == {{"read"}, {"write"}}

MatchedPaths == {"/etc/a", "/etc/\\a", "/etc/s/\\ b", "/etc/", "/etc/**", "/etc/***", "/etc/*",
                 "/etc/s/**", "/etc/s/*", "/etc/{,**}", "/etc/\\/s/*"}

PairProfiles ==
  FsProfiles(MatchedPaths, 1, AnyPerm)
    \cup FsProfiles(MatchedPaths \ {"/etc/***", "/etc/\\/s/*", "/etc/s/*"}, 2, OnePerm)
    \cup FsProfiles({"/etc/a", "/etc/s/\\ b", "/etc/*"}, 3, {{"read"}})

\* Triples, where literals and patterns meet the result of a merge.
TripleProfiles ==
  FsProfiles({"/etc/a", "/etc/**", "/etc/*", "/etc/[a-]"}, 1, AnyPerm)
    \cup FsProfiles({"/etc/\\a", "/etc/{,**}"}, 2, OnePerm)

\* Every section, and everything the merge refuses.
ExecProfiles ==
  {[NoSections EXCEPT !.exec = [exe |-> paths, lib |-> {}]] :
     paths \in {{}, {"/etc/a"}, {"/etc//a"}, {"/etc/**", "/etc/[a-]"},
               {"etc/a"}, {"/etc/./a"}, {"/etc/s/\\ b"}, {"/etc/s/ b"}}}
CapProfiles ==
  {[NoSections EXCEPT !.caps = caps] :
     caps \in {{}, {"chown"}, {"CHOWN"}, {"KILL", "kill"}, {""}, {"k,ill"}}}
NetProfiles ==
  {[NoSections EXCEPT !.net = net] :
     net \in {[raw |-> raw, protocols |-> Nil] : raw \in Bool}
         \cup {[raw |-> Nil, protocols |-> [tcp |-> tcp, udp |-> Nil]] : tcp \in Bool}}
BadProfiles ==
  {Nil, [NoSections EXCEPT !.exec = [exe |-> {""}, lib |-> {}]],
   [NoSections EXCEPT !.exec = [exe |-> {}, lib |-> {"/@{HOME}"}]],
   [NoSections EXCEPT !.fs = [ro |-> {"/etc/a"}, wo |-> {"/etc/\\a"}, rw |-> {}]],
   [NoSections EXCEPT !.fs = [ro |-> {"/etc/**"}, wo |-> {}, rw |-> {"/etc/***"}]]}
FullProfile ==
  [exec |-> [exe |-> {"/etc/*", "/etc/a"}, lib |-> {"/{etc"}],
   fs |-> [ro |-> {"/etc/\\a", "/etc//a"}, wo |-> {"/etc/[a-]"}, rw |-> {}],
   net |-> [raw |-> TRUE, protocols |-> [tcp |-> TRUE, udp |-> FALSE]],
   caps |-> {"chown", "KILL"}]
SectionProfiles ==
  ExecProfiles \cup CapProfiles \cup NetProfiles \cup BadProfiles
    \cup {FullProfile, NoSections} \cup FsProfiles({"/etc/a", "/etc/\\a", "/etc//a", "/etc/s/ b", "/etc/s/\\ b"}, 1, OnePerm)

MCCapability == {"chown", "CHOWN", "kill", "KILL", "", "k,ill"}
MCUpper == [cap \in MCCapability |->
              CASE cap = "chown" -> "CHOWN" [] cap = "kill" -> "KILL" [] OTHER -> cap]

MCProfiles ==
  [n \in 0..3 |-> CASE n < 2 -> SectionProfiles
                     [] n = 2 -> PairProfiles \cup SectionProfiles
                     [] n = 3 -> TripleProfiles]
=============================================================================
