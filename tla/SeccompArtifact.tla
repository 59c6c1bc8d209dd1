-------------------------- MODULE SeccompArtifact --------------------------
(***************************************************************************)
(* ValidateArtifactForArch (seccomp/validate.go), and what it is for: a    *)
(* runtime validates an artifact from a source it does not trust and       *)
(* intersects it with its baseline.  The checks of fields run first; then  *)
(* the rules are visited one by one, as a runtime would add them.          *)
(***************************************************************************)
EXTENDS SeccompSafety, ConflictTracker

CONSTANTS
  Artifacts,                     \* the profiles a source may offer, and Nil
  Baselines,                     \* the profiles of the runtime
  MaxErrno,
  MaxArtifactEntriesPerSyscall,  \* bounds
  MaxArtifactNamesPerEntry,
  MaxArtifactClauses,
  MaxArtifactClausesPerSyscall

ASSUME ArtifactAssumption ==
  /\ {MaxErrno, MaxArtifactEntriesPerSyscall, MaxArtifactNamesPerEntry,
      MaxArtifactClauses, MaxArtifactClausesPerSyscall} \subseteq Nat
  /\ MaxArtifactClauses <= MaxLoadedClauses
  /\ \A profile \in Artifacts :
       profile # Nil => /\ profile.default \in Action /\ profile.errno \in Int
                        /\ profile.entries \in Seq(Entry)

VARIABLES
  artifact,
  stage,     \* fields, counts, rules, multiplexers or verdict
  visited,   \* how many rules were recorded, or skipped
  states,    \* of every syscall with recorded rules
  reported,  \* the entry at which a syscall was reported
  problems   \* the checks that failed besides

checkVars == <<artifact, stage, visited, states, reported, problems>>

-----------------------------------------------------------------------------
(* The fields: artifactChecks *)

ErrnoValues(profile) ==
  {<<profile.default, profile.errno>>}
    \cup {<<entry.action, entry.errno>> : entry \in ToSet(profile.entries)}

Clauses(profile, name) == LoadedClauses(profile.entries, Default(profile), name)

TotalClauses(profile) == MapThenSumSet(LAMBDA name : Len(Clauses(profile, name)), Name)

EntriesNaming(profile, name) == {i \in DOMAIN profile.entries : name \in profile.entries[i].names}

\* Fault: the architecture of the node is forgotten.
ReadAlikeOnListed(profile) ==
  profile.architectures \cap NarrowArchitectures # {} =>
    \A entry \in ToSet(profile.entries) : \A arg \in ToSet(entry.args) :
      ~WideArg(CanonicalArg(arg))

\* validateValueWidth: no condition that a 32-bit architecture would misread.
ReadAlike(profile) ==
  CoversAny(profile.architectures, NarrowArchitectures) =>
    \A entry \in ToSet(profile.entries) : \A arg \in ToSet(entry.args) :
      ~WideArg(CanonicalArg(arg))

\* What every check of a field demands.  Lists of architectures and flags are
\* sets here, which hold nothing twice, and names are spelled properly.
Demands(profile) ==
  [errnoInRange |-> \A pair \in ErrnoValues(profile) :
                      ErrnoSignificant(pair[1]) => pair[2] <= MaxErrno,
   errnoUsed |-> \A pair \in ErrnoValues(profile) :
                   pair[2] # Unset => ErrnoSignificant(pair[1]),
   noNotify |-> \A pair \in ErrnoValues(profile) : pair[1] # "NOTIFY",
   noListener |-> /\ profile.path = NoPath /\ profile.metadata = ""
                  /\ "WAIT_KILLABLE_RECV" \notin profile.flags,
   fewEntries |-> \A name \in Name :
                    Cardinality(EntriesNaming(profile, name)) <= MaxArtifactEntriesPerSyscall,
   fewNames |-> \A entry \in ToSet(profile.entries) :
                  Cardinality(entry.names) <= MaxArtifactNamesPerEntry,
   fewClauses |-> TotalClauses(profile) <= MaxArtifactClauses,
   narrowValues |-> ReadAlike(profile)]

Unmet(profile) == {check \in DOMAIN Demands(profile) : ~Demands(profile)[check]}

\* validateWith: every check runs, those of the rules only on a profile that
\* Validate accepts.
CheckFields ==
  /\ stage = "fields"
  /\ problems' = (IF artifact = Nil THEN {} ELSE Unmet(artifact))
                   \cup (IF ValidProfile(artifact) THEN {} ELSE {"valid"})
  /\ stage' = IF ValidProfile(artifact) THEN "counts" ELSE "verdict"
  /\ UNCHANGED <<artifact, visited, states, reported>>

-----------------------------------------------------------------------------
(* The rules: validateSyscallRules *)

\* The rules a runtime adds, in the order it adds them: forEachClause.
Visits(profile) ==
  FlattenSeq([i \in DOMAIN profile.entries |->
    IF Skipped(profile.entries[i], Default(profile)) THEN <<>>
    ELSE LET clauses == EntryClauses(profile.entries[i])
             names == Keep(Names, {j \in DOMAIN Names : Names[j] \in profile.entries[i].names})
         IN FlattenSeq([j \in DOMAIN names |-> [k \in DOMAIN clauses |->
              [entry |-> i, name |-> names[j], clause |-> clauses[k]]]])])

OverBound(name) == Len(Clauses(artifact, name)) > MaxArtifactClausesPerSyscall

Skip(name) == name \in DOMAIN reported \/ OverBound(name)

\* Past the bound on all rules they are not visited at all.
CheckCounts ==
  /\ stage = "counts"
  /\ problems' = problems \cup (IF \E name \in Name : OverBound(name) THEN {"fewRules"} ELSE {})
  /\ stage' = IF TotalClauses(artifact) <= MaxArtifactClauses THEN "rules" ELSE "verdict"
  /\ UNCHANGED <<artifact, visited, states, reported>>

\* truncatedClause: the rule a 32-bit architecture gets.
TruncatedClause(clause) ==
  [clause EXCEPT !.args =
     {arg \in {[a EXCEPT !.value = And[a.value, MaxLow], !.two = And[a.two, MaxLow]] : a \in @} :
        ~Tautology(arg)}]

NewState(first) ==
  [written |-> NewTracker, truncated |-> NewTracker, conditional |-> <<>>,
   first |-> first, mixedAt |-> 0]

StateOf(name, first) == IF name \in DOMAIN states THEN states[name] ELSE NewState(first)

ConflictsNow(state, next) ==
  \/ TrackerConflicts(state.written, next)
  \/ LoadsWideValue(artifact) /\ TrackerConflicts(state.truncated, TruncatedClause(next))

\* Entries are counted from 1, and mixedAt is 0 where all results agree.
Recorded(state, next, entry) ==
  [written |-> TrackerRecord(state.written, next),
   truncated |-> IF LoadsWideValue(artifact)
                 THEN TrackerRecord(state.truncated, TruncatedClause(next)) ELSE state.truncated,
   conditional |-> IF Unconditional(next) THEN state.conditional
                   ELSE Append(state.conditional, next),
   first |-> state.first,
   mixedAt |-> IF state.mixedAt = 0 /\ ~SameResult(state.first, next) THEN entry
               ELSE state.mixedAt]

\* conflict: a syscall is reported once, at one of its entries.
Report(found) ==
  reported' = [name \in DOMAIN reported \cup DOMAIN found |->
                 IF name \in DOMAIN found THEN found[name] ELSE reported[name]]

\* record.
RecordRule(visit) ==
  LET state == StateOf(visit.name, visit.clause) IN
  IF Skip(visit.name) THEN UNCHANGED <<states, reported>>
  ELSE /\ states' = [name \in DOMAIN states \cup {visit.name} |->
                       IF name = visit.name THEN Recorded(state, visit.clause, visit.entry)
                       ELSE states[name]]
       /\ IF ConflictsNow(state, visit.clause)
          THEN Report([name \in {visit.name} |-> visit.entry])
          ELSE UNCHANGED reported

VisitRule ==
  /\ stage = "rules"
  /\ visited < Len(Visits(artifact))
  /\ RecordRule(Visits(artifact)[visited + 1])
  /\ visited' = visited + 1
  /\ UNCHANGED <<artifact, stage, problems>>

\* checkShapes: rules with different results that libseccomp does not evaluate
\* as written.
Shapeless(name) ==
  /\ states[name].mixedAt # 0
  /\ ~SafeShape(ToSet(states[name].conditional))

CheckShapes ==
  /\ stage = "rules"
  /\ visited = Len(Visits(artifact))
  /\ Report([name \in {n \in DOMAIN states \ DOMAIN reported : Shapeless(n)} |->
               states[name].mixedAt])
  /\ stage' = "multiplexers"
  /\ UNCHANGED <<artifact, visited, states, problems>>

Mixes(clauses) == clauses # <<>> /\ Mixed(clauses)

\* Fault: the rules of a multiplexer itself go unnoticed.
RefusedCopies(name) ==
  /\ name \notin ToSet(Multiplexers)
  /\ Mixes(Clauses(artifact, name)) /\ Refused(Clauses(artifact, name))

\* checkMultiplexed: what libseccomp may refuse on a multiplexer.
RefusedThere(name) ==
  \/ /\ name \notin ToSet(Multiplexers)
     /\ Mixes(Clauses(artifact, name)) /\ Refused(Clauses(artifact, name))
  \/ /\ name \in ToSet(Multiplexers)
     /\ \E i \in DOMAIN Clauses(artifact, name) : ~Unconditional(Clauses(artifact, name)[i])
     /\ \E carried \in ToSet(Carried[name]) : Clauses(artifact, carried) # <<>>

FirstEntry(name) ==
  Min({i \in EntriesNaming(artifact, name) : ~Skipped(artifact.entries[i], Default(artifact))})

CheckMultiplexed ==
  /\ stage = "multiplexers"
  /\ IF CoversAny(artifact.architectures, MultiplexingArchitectures)
     THEN Report([name \in {n \in MultiplexName : ~Skip(n) /\ RefusedThere(n)} |->
                    FirstEntry(name)])
     ELSE UNCHANGED reported
  /\ stage' = "verdict"
  /\ UNCHANGED <<artifact, visited, states, problems>>

Accepted == stage = "verdict" /\ problems = {} /\ DOMAIN reported = {}

-----------------------------------------------------------------------------
(* The runtime *)

ArtifactInit ==
  /\ Init
  /\ strategy = "intersect"
  /\ artifact \in Artifacts
  /\ stage = "fields"
  /\ visited = 0
  /\ states = <<>>
  /\ reported = <<>>
  /\ problems = {}

Validate ==
  /\ CheckFields \/ CheckCounts \/ VisitRule \/ CheckShapes \/ CheckMultiplexed
  /\ UNCHANGED vars

\* An accepted artifact is merged alone or with a baseline.
MergeArtifact ==
  /\ Accepted
  /\ \/ passed = <<>> /\ ValidateNext(artifact)
     \/ Len(passed) = 1 /\ \E baseline \in Baselines : ValidateNext(baseline)
     \/ NormalizeOnly \/ FoldFirstTwo \/ Folded \/ ResolveListener \/ Regroup
  /\ UNCHANGED checkVars

Settled ==
  /\ stage = "verdict"
  /\ ~Accepted \/ pc \in {"done", "failed"}
  /\ UNCHANGED <<vars, checkVars>>

ArtifactNext == Validate \/ MergeArtifact \/ Settled

ArtifactSpec == ArtifactInit /\ [][ArtifactNext]_<<vars, checkVars>>
-----------------------------------------------------------------------------
(* Properties *)

\* Rules of one syscall that a runtime cannot rely on: they differ, and one
\* hides others or libseccomp does not compile them to what they say.
Unreliable(clauses) ==
  /\ \E i, j \in DOMAIN clauses : ~SameResult(clauses[i], clauses[j])
  /\ FirstUnconditional(clauses) # NoClause \/ ~SafeShape(ToSet(clauses))

\* The rules of a syscall visited so far, and what a 32-bit architecture gets
\* instead of them.
Seen(name) == {Visits(artifact)[i].clause :
                 i \in {k \in 1..visited : Visits(artifact)[k].name = name}}

SeenTruncated(name) == {TruncatedClause(clause) : clause \in Seen(name)}

Clashing(rules) == \E left, right \in rules : Nested(left, right) /\ ~SameResult(left, right)

ReportedExactly(name) ==
  name \in DOMAIN reported <=>
    /\ ~OverBound(name)
    /\ \/ Clashing(Seen(name))
       \/ LoadsWideValue(artifact) /\ Clashing(SeenTruncated(name))

\* At every point of the scan of the rules, a syscall within the bound has been
\* reported exactly if two of its rules seen so far, or the rules a 32-bit
\* architecture gets instead of them, differ and one filter covers the other:
\* the trackers forget nothing that a comparison of all pairs would find.
ScanIsExact == stage = "rules" => \A name \in Name : ReportedExactly(name)

\* The scan, which sees one rule at a time and gives up on a syscall at its
\* first conflict, is exact as it goes.  In the end it has reported exactly the
\* syscalls whose rules, taken together, conflict: none is missed because an
\* earlier entry was skipped, and none is reported for what it has no rule for.
\* It points at an entry with a rule of the syscall that some other entry
\* contradicts.
ConflictsAreFound ==
  /\ ScanIsExact
  /\ stage \in {"multiplexers", "verdict"} /\ {"fewClauses", "valid"} \cap problems = {} =>
      /\ \A name \in Name : ~OverBound(name) =>
           (Unreliable(Clauses(artifact, name)) => name \in DOMAIN reported)
      /\ \A name \in DOMAIN reported :
           LET entries == {i \in EntriesNaming(artifact, name) :
                             ~Skipped(artifact.entries[i], Default(artifact))}
           IN /\ reported[name] \in entries
              /\ stage = "multiplexers" =>
                   /\ Unreliable(Clauses(artifact, name))
                   /\ \E i \in entries :
                        ~SameResult(Decision(artifact.entries[i].action, artifact.entries[i].errno),
                                    Decision(artifact.entries[reported[name]].action,
                                             artifact.entries[reported[name]].errno))

\* No rule of an accepted artifact clashes with one that has another result: in
\* no order of the rules does libseccomp refuse, hide or displace one for the
\* other, as they stand or as the copies it adds to a multiplexer that the
\* filter covers (checkMultiplexed; doc.go:354-357), and no 32-bit architecture
\* reads a condition otherwise than it says.  It is not said that libseccomp
\* evaluates rules that share one result as they are written, or finishes adding
\* them (doc.go:557-559), nor what becomes of the artifact on a node with
\* another native architecture than the check was made for.
AcceptedRulesDoNotClash ==
  Accepted =>
    LET loaded == Loaded(artifact) IN
    /\ \A name \in Name :
         \/ Cardinality({<<Rank(c), c.errno>> : c \in ToSet(loaded[name])}) <= 1
         \/ FirstUnconditional(loaded[name]) = NoClause /\ Compiled(ToSet(loaded[name]))
    /\ Covered(artifact) \cap MultiplexingArchitectures # {} =>
         \A target \in ToSet(Multiplexers), name \in Name :
           name \in ToSet(Carried[target]) =>
             /\ ~Refusable(loaded[name])
             /\ loaded[name] # <<>> =>
                  \A i \in DOMAIN loaded[target] : Unconditional(loaded[target][i])
    /\ Covered(artifact) \cap NarrowArchitectures # {} =>
         \A name \in Name, i \in Index : \A clause \in ToSet(loaded[name]) :
           \A call \in Calls(TRUE) :
             Matches(LowHalf(clause.args), call) <=> Matches(clause.args, call)

Permissive(profile) == profile.default = "ALLOW" /\ profile.entries = <<>>

Decided(before, after) == Cardinality(before) = 1 => after = before

\* What accepting an artifact is for: merged alone, or with a baseline that
\* allows everything, no call that its rules decide is decided otherwise, be it
\* made directly or through a multiplexer, whose own rules aside.
ArtifactsMergePrecisely ==
  Accepted /\ pc = "done" /\ (arity = 1 \/ Permissive(passed[arity])) =>
    LET before == Loaded(artifact) after == Loaded(result)
        ofArtifact == Default(artifact) ofResult == Default(result)
        shared == Covered(artifact) \cap Covered(result)
    IN /\ \A narrow \in Widths(shared), name \in Name \ ToSet(Multiplexers) :
            \A call \in Calls(narrow) :
              Decided(DirectResults(before, ofArtifact, name, narrow, call),
                      DirectResults(after, ofResult, name, narrow, call))
       /\ \A narrow \in Widths(shared \cap MultiplexingArchitectures),
             target \in ToSet(Multiplexers) :
            \A name \in ToSet(Carried[target]), call \in Calls(narrow) :
              Decided(SubcallResults(before, ofArtifact, target, name, narrow, call),
                      SubcallResults(after, ofResult, target, name, narrow, call))

=============================================================================
