--------------------------- MODULE MCLandlockMerge ---------------------------
(***************************************************************************)
(* Small instances of LandlockABI.                                         *)
(***************************************************************************)
EXTENDS LandlockABI

MCRoot == [rooted |-> TRUE, names |-> <<>>]
Abs(names) == [rooted |-> TRUE, names |-> names]

\* "/", "/a", "/a/b", "/c" may carry rules, and "a" those of single profiles;
\* "/d" never does.
MCRulePath == {MCRoot, Abs(<<"a">>), Abs(<<"a", "b">>), Abs(<<"c">>)}
RelPath == [rooted |-> FALSE, names |-> <<"a">>]
MCPath == MCRulePath \cup {RelPath, Abs(<<"d">>)}

Spell(path) == IF path = MCRoot THEN <<"", "">> ELSE <<"">> \o path.names
MCFSRight == {"truncate", "read_file", "remove_dir", "refer"}
MCFileRight == {"truncate", "read_file"}
PairRight == MCFSRight \ {"read_file"}

\* The versions of types.go.
MCRightABI ==
  [right \in MCFSRight \cup {"bind_tcp", "connect_tcp", "signal"} |->
     CASE right \in {"remove_dir", "read_file"} -> 1 [] right = "refer" -> 2 [] right = "truncate" -> 3
       [] right \in {"bind_tcp", "connect_tcp"} -> 4 [] right = "signal" -> 6]

\* Profiles over at most n of the paths, each granting one of the access sets.
FSProfiles(handled, paths, access, n) ==
  LET rulesOn(S) == [S -> (access \cap SUBSET handled) \ {{}}]
      spelled(f) == SetToSeq({[path |-> Spell(p), access |-> f[p]] : p \in DOMAIN f})
  IN {[handledFS |-> handled, handledNet |-> {}, scoped |-> {},
       pathRules |-> spelled(f), netRules |-> <<>>] :
        f \in UNION {rulesOn(S) : S \in {S \in SUBSET paths : Cardinality(S) <= n}}}

PairProfiles ==
  FSProfiles(PairRight, MCRulePath, SUBSET PairRight, 1)
    \cup FSProfiles(PairRight, MCRulePath,
                   {{"truncate"}, {"remove_dir"}, {"refer"}, {"truncate", "refer"}}, 2)

-----------------------------------------------------------------------------
(* Calls of three profiles that handle different rights *)

A == Abs(<<"a">>)
AB == Abs(<<"a", "b">>)

OtherProfile(net, scoped, port) ==
  [handledFS |-> {}, handledNet |-> net, scoped |-> scoped, pathRules |-> <<>>,
   netRules |-> IF port = 0 THEN <<>> ELSE <<[port |-> port, access |-> net]>>]

PathProfile(handled, rules) ==
  [handledFS |-> handled, handledNet |-> {}, scoped |-> {}, pathRules |-> rules,
   netRules |-> <<>>]

MixedProfiles ==
  FSProfiles({"truncate", "refer"}, {MCRoot, A, AB}, SUBSET PairRight, 1)
    \cup FSProfiles({"truncate", "refer"}, {A, AB}, {{"truncate"}, {"refer"}}, 2)
    \cup FSProfiles({"truncate"}, {MCRoot, AB}, SUBSET PairRight, 1)
    \cup FSProfiles({"remove_dir", "refer"}, {A}, {{"refer"}, {"remove_dir"}}, 1)
    \cup FSProfiles({"refer"}, {A}, {{"refer"}}, 1)
    \cup {PathProfile({"truncate"}, <<[path |-> Spell(A), access |-> {"refer"}]>>),
          PathProfile({"read_file"}, <<[path |-> Spell(A), access |-> {"read_file"}]>>),
          PathProfile({"remove_dir"}, <<[path |-> Spell(A), access |-> {"remove_dir"}]>>),
          OtherProfile({}, {}, 0), OtherProfile({"bind_tcp"}, {}, 0),
          OtherProfile({"bind_tcp"}, {"signal"}, 1)}

-----------------------------------------------------------------------------
(* Single profiles in every spelling, valid or not *)

GoodSpelling == {<<"", "">>, <<"", "a">>, <<"", "a", "">>, <<"", "", "a">>,
                 <<"", ".", "a">>, <<"", "a", ".", "b">>, <<"a">>, <<".", "a">>}
BadSpelling == {<<"">>, <<".">>, <<".", "">>, <<"", "..", "a">>, <<"a", "..">>,
                <<"", "nul">>, <<"", "a", "a", "a", "a">>}

MCRawPath == {Spell(path) : path \in MCRulePath} \cup GoodSpelling \cup BadSpelling

SpellingRule == [path : GoodSpelling \cup BadSpelling,
                 access : {{"truncate"}, {"refer"}, {"truncate", "refer"}}]

SpellingProfiles ==
  {PathProfile(handled, rules) :
     handled \in {{"truncate", "refer"}, {"truncate"}, {}},
     rules \in {<<>>} \cup {<<r>> : r \in SpellingRule}
                     \cup {<<r, s>> : r, s \in SpellingRule}}
    \cup {NilProfile, OtherProfile({"bogus"}, {}, 0), OtherProfile({}, {"bogus"}, 0),
          PathProfile({"bogus"}, <<>>),
          PathProfile({"truncate"}, <<[path |-> <<"", "a">>, access |-> {"bogus"}]>>)}
    \cup {[OtherProfile({"bind_tcp"}, {"signal"}, 0) EXCEPT !.netRules = rules] :
            rules \in {<<[port |-> 1, access |-> {}], [port |-> 1, access |-> {"bind_tcp"}]>>,
                       <<[port |-> 1, access |-> {"connect_tcp"}]>>,
                       <<[port |-> 1, access |-> {"bogus"}]>>}}
-----------------------------------------------------------------------------
MCProfiles ==
  [n \in 0..3 |-> CASE n = 0 -> {} [] n = 1 -> SpellingProfiles
                     [] n = 2 -> PairProfiles [] n = 3 -> MixedProfiles]
=============================================================================
