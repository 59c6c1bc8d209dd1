-------------------------- MODULE ConflictTracker --------------------------
(***************************************************************************)
(* How the artifact validator remembers the rules of one syscall           *)
(* (resultSet and conflictTracker of seccomp/validate.go): by their filter *)
(* and by every filter wider than theirs, so that a rule can be compared   *)
(* with all earlier ones without visiting them.                            *)
(***************************************************************************)
EXTENDS SeccompClauses

NewTracker == [exact |-> <<>>, narrower |-> <<>>]

\* resultSet.conflicts, of the set under a filter, where there is one.
ConflictsWith(sets, filter, next) ==
  /\ filter \in DOMAIN sets
  /\ sets[filter].mixed \/ ~SameResult(sets[filter].first, next)

\* recordResult, for every one of some filters.
RecordResult(sets, filters, next) ==
  [filter \in DOMAIN sets \cup filters |->
     IF filter \notin DOMAIN sets THEN [first |-> next, mixed |-> FALSE]
     ELSE [first |-> sets[filter].first,
           mixed |-> \/ sets[filter].mixed
                     \/ filter \in filters /\ ~SameResult(sets[filter].first, next)]]

\* forEachProperSubset: the filters strictly wider than this one.
WiderThan(filter) == (SUBSET filter) \ {filter}

\* Fault: an earlier rule with a wider filter goes unnoticed.
TrackerConflictsNarrow(tracker, next) ==
  ConflictsWith(tracker.exact, next.args, next) \/ ConflictsWith(tracker.narrower, next.args, next)

\* Whether an earlier rule yields a different result while its filter is equal
\* to, narrower than, or wider than that of the next one.
TrackerConflicts(tracker, next) ==
  \/ ConflictsWith(tracker.exact, next.args, next)
  \/ ConflictsWith(tracker.narrower, next.args, next)
  \/ \E filter \in WiderThan(next.args) : ConflictsWith(tracker.exact, filter, next)

TrackerRecord(tracker, next) ==
  [exact |-> RecordResult(tracker.exact, {next.args}, next),
   narrower |-> RecordResult(tracker.narrower, WiderThan(next.args), next)]

\* Two rules of which one filter is equal to or wider than the other.
Nested(left, right) == left.args \subseteq right.args \/ right.args \subseteq left.args
=============================================================================
