---------------------------- MODULE LandlockDiff -----------------------------
(***************************************************************************)
(* How two profiles are compared (landlock/diff.go): rules are keyed by    *)
(* cleaned path and by port, duplicates folded, and compared as written,   *)
(* not by the access they grant.  Neither profile is validated.            *)
(***************************************************************************)
EXTENDS LandlockRules

RightsDiff(left, right) == [added |-> right \ left, removed |-> left \ right]

\* The rules of a profile on the keys they are written for, those without
\* rights included.
PathMap(profile) ==
  LET rules == profile.pathRules
      on(path) == {i \in DOMAIN rules : CleanPath(rules[i].path) = path}
  IN [path \in {CleanPath(rules[i].path) : i \in DOMAIN rules} |->
       UNION {rules[i].access : i \in on(path)}]

NetMap(profile) ==
  LET rules == profile.netRules
      on(port) == {i \in DOMAIN rules : rules[i].port = port}
  IN [port \in {rules[i].port : i \in DOMAIN rules} |->
       UNION {rules[i].access : i \in on(port)}]

RulesDiff(left, right) ==
  [added   |-> DOMAIN right \ DOMAIN left,
   removed |-> DOMAIN left \ DOMAIN right,
   changed |-> {key \in DOMAIN left \cap DOMAIN right : left[key] # right[key]}]

Diff(left, right) ==
  [handledFS  |-> RightsDiff(left.handledFS, right.handledFS),
   handledNet |-> RightsDiff(left.handledNet, right.handledNet),
   scoped     |-> RightsDiff(left.scoped, right.scoped),
   pathRules  |-> RulesDiff(PathMap(left), PathMap(right)),
   netRules   |-> RulesDiff(NetMap(left), NetMap(right))]

Equal(diff) ==
  \A section \in DOMAIN diff :
    \A side \in DOMAIN diff[section] : diff[section][side] = {}

AddsNothing(diff) == \A section \in DOMAIN diff : diff[section].added = {}
=============================================================================
