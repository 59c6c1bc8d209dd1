# Formal models of security-profiles-merger

This directory holds TLA+ models of the merges of this repository, the TLC runs
that check them on small instances, and TLAPS proofs of the results that matter
most. A merge takes several profiles of one kind (seccomp, Landlock or AppArmor)
and answers with one: the *intersection* must never permit what an input denies,
and the *union* must never deny what an input permits. Nearly everything that is
hard here comes from that sentence being about what the kernel does with a
profile, while the merge sees lists of rules.

## 1. Inventory

| Component | State | Operations | Interacts with |
|---|---|---|---|
| `landlock` merge | per call: normalized inputs, the folded profile | validate and normalize each input, fold pairwise, settle refer and moves, `LoweredRulePaths` | `internal/merge.Fold`; kernel |
| `landlock` validation, ABI | none | `Validate`, `ValidateArtifact`, `RequiredABIVersion`, `ValidateForABI`, `DowngradeToABI` | merge validates every input |
| `apparmor` merge | per call: canonical copies, the folded profile, a budget of pattern pairs | check, canonicalize, unify spellings, prepare, fold | pattern matching, the shared cache |
| `apparmor` pattern matching | none | compile a pattern, match a name, cover | called by the merge through `matcherFor` |
| `apparmor` pattern cache | process-wide map, byte count, `RWMutex` | `matcherFor`: lookup, analyze, second lookup, evict, insert | every goroutine that merges |
| `apparmor` validation, parser port | none | `Validate`, `ValidateArtifact`, the parser's conversion of patterns | merge |
| `seccomp` merge | per call: folded profile, summary budgets | validate, normalize, fold, resolve the listener, regroup | rules, multiplex, flags |
| `seccomp` rules | per syscall: clauses and a fallback | settle an input, merge pairwise, raise, prune, settle the output | argument filters, shapes |
| `seccomp` multiplexed syscalls | per merge: what each input does on the multiplexed path | read inputs, settle the multiplexer and its sub-calls | rules; libseccomp |
| `seccomp` flags, listener | part of the profile | merge by polarity, carry the listener | container runtime |
| `seccomp` validation | per check: the rules recorded of every syscall | `Validate`, `ValidateArtifact` and its search for rules that conflict | rules, shapes, multiplexers; a runtime checks before it merges |
| `seccomp` bare lists | none | `IntersectSyscalls`, `UnionSyscalls` | rules |
| diffs (three packages) | none | compare two profiles | normalization of the merges |
| `internal/merge` | none | `Fold`, set operations, `JoinLimited` | all merges |
| `internal/strictjson` | two `sync.Map` caches | strict decoding, scans for duplicate, unknown, misspelled and missing members | all packages, `cmd/spm` |
| `cmd/spm` output | the file at `--output`, a temporary file beside it | decide how to write, replace by rename, write in place | the file system, other runs, readers |
| `cmd/spm` command line, input, decoding | per run: the inputs read so far, their type, the warnings | check the flags, read files and stdin, detect the type, decode and check under a mode per input, merge or compare, deliver | all packages, `strictjson`, the output |
| `spm` | none | sentinels, `InputError`, diff results | all packages |

What is hard, and where:

- **Interleavings.** Two pieces of state are shared. The AppArmor pattern cache is
  shared by all goroutines of a process: `matcherFor` gives up its read lock,
  analyzes the pattern and takes the write lock. The output file is shared by
  everything on the machine: other runs of `spm`, readers, and whoever puts a
  symbolic link at the path between two system calls.
- **Failures and crashes.** Only the output file outlives a call. Each system call
  may fail, the process may be killed, and the machine may stop before blocks are
  written back.
- **Long sequences of pure steps.** A fold of profiles runs through intermediate
  profiles nobody wrote. Each pairwise step has to be exact, or at least on the
  safe side, with respect to all inputs so far.
- **Somebody else's semantics.** libseccomp evaluates some sets of clauses in an
  order of its own, hides conditional rules behind unconditional ones, and derives
  rules of `socketcall` and `ipc` from those of other syscalls; Landlock compares
  the rights of two directories for a move and denies `refer` to rulesets that never
  mention it; the AppArmor parser reads several spellings as one rule.
- **Several readers of one text.** `encoding/json` reads members that are repeated,
  misspelled, unknown or null without a word; what the scans after it find, the command
  and the library must agree on. A command line of several inputs, one of which may
  expand to many, has a mode, a type, errors and warnings for each of them.
- **Validators of what others will load.** An artifact is accepted or refused before it is
  merged: no rules of what is accepted may clash, and it has to merge without a silent loss.
- **Limits.** Both the seccomp and the AppArmor merge have budgets, past which they
  summarize; 32-bit architectures compare the lower half of a value.

`PROJECT.json` lists these hazards at their lines, with the properties that cover
each, and the components with their status.

What makes each component correct: for the merges, the two sentences at the top, in
the terms of the kernel, at every step and for every grouping, together with results
that load, that can be merged again and that lose nothing they need not lose; for
the cache, no race on the map, an exact byte count, both bounds, and that every lookup
returns; for the output file, that links are not followed, that readers and crashes
see whole profiles, and that success means the profile is there; for the validators,
that they find exactly the rules that clash, so that one would be refused or lost when
loaded; for the diffs, that profiles which compare equal differ at most by the order of
their rules (and, for seccomp, by rules that others hide); for the decoders, that what is accepted reads alike by
every parser; and for the command, that its exit code and its errors are true.

## 2. Modules

A definition bears the name of the function it translates wherever TLA+ allows; `map`
in `PROJECT.json` gives the lines. A definition under a comment that begins with
`Fault:` is the one after it with a plausible bug. No action uses it: it is the form in
which a property is shown to be able to fail.

### Landlock

- `RulePaths`: paths, cleaning them, and which path is above which.
- `LandlockRules`: the operators of `merge.go` and `validate.go` on profiles:
  normalization, pruning, the two pairwise merges, `FinishIntersect` (minimize, strip
  refer), `FinishUnion` (give up rights in conflict with moves), `LoweredRulePaths`.
- `LandlockKernel` (external): which accesses a ruleset permits and which moves it
  allows.
- `LandlockMerge`: `foldProfiles` as a process. `AcceptInput`/`RejectInput` are the
  loop that validates and normalizes, `FoldFirst`/`FoldNext` the calls of `mergeTwo`,
  `Finish` the settlement. The arguments are chosen as they are read, since nothing
  changes them during a call.
- `LandlockLayers`: the abstract specification. A layer is only a set of answers (this
  access on this path, this port, this scope); the layers are combined one by one,
  and the settlement may take away grants of refer or free whole rights.
  `LandlockMerge!MergesLayers` is the refinement, with every profile mapped to its
  answers.
- `LandlockDiff`: `Diff` and `Equal`. Rules are keyed by cleaned path, and compared as
  written.
- `LandlockABI`: which ABI version a profile needs (`RequiredABIVersion`), whether a
  version takes it (`ValidForABI`), and what `DowngradeToABI` leaves of it; a merged
  profile as the caller gets it (`AsWritten`).
- `LandlockProofs`: see section 5.

A rule list becomes a function from paths to rights once a profile is normalized, which
is what the code's maps and sorted lists stand for after `mergeRules`.

### AppArmor

- `AppArmorPaths`: what a merge asks of a path (literal or pattern, what it covers, its
  literal prefix, the rule it spells), as constants under `PathAssumption`, and the
  merge of two permission maps: matching pairs, covering, raising, the pair budget.
- `AppArmorRules`: sections, capabilities, canonicalization, the unification of
  spellings over all inputs, preparation (an omitted section denies everything), and
  the merge of every section.
- `AppArmorMerge`: `ReadProfile` (the check of the paths as written), `AllRead`,
  validation of the canonical copies, preparation and the fold.
- `AppArmorDiff`: `Diff` and `Equal`, on what the rules of the lists spell.
- `AppArmorArtifact`: `ValidateArtifact`, with its limits.
- `GlobCache`: `matcherFor`. A step is what one goroutine does under one lock:
  `RLock`, `Lookup` (which releases it), `Analyze`, `Lock`, `Locked`, `RecheckHit` or
  `RecheckMiss`, `EvictOne` for each iteration over the map, `Insert` with the deferred
  unlock. `Lock` shuts readers out and `Locked` waits for those inside, as a
  `sync.RWMutex` does: without that, readers that overlap for ever would starve a writer.
  `quota` is the local counter of the eviction loop; `Insert` resets it only so that
  equal states are equal.
- `AppArmorMergeProofs`, `GlobCacheProofs`: see section 5.

Names are split behind every slash, so that a prefix is an initial segment. Lists are
sets: the merge sorts them, and their order decides nothing.

### Seccomp

- `SeccompArgs`: conditions on arguments and filters (`args.go`). A filter is a set of
  conditions; 64-bit values are scaled down to `0..MaxValue`, with `MaxLow` for the
  mask of the lower 32 bits, and the bitwise and is a constant function with the laws
  the code needs (`ArgsAssumption`).
- `SeccompClauses`: clauses and decisions, their restrictiveness, `FirstUnconditional`,
  and `SafeShape`, the sets of clauses `shape.go` takes to be compiled as written.
- `SeccompRules`: merging the rules of one syscall (`rules.go`): `SettleInput`, the
  pairwise merge with its budgets, `RaiseOverlaps` of a union, `PruneDominated`,
  `ResolveMixed`, `SettleOutput`, and `MergeBareSyscalls`.
- `SeccompKernel` (external): what libseccomp and the kernel make of loaded clauses, on
  the direct path and through a multiplexer. Where libseccomp picks an order of its
  own, every result it may come to is possible. A sub-call none of whose rules tests the
  first argument is decided as the syscall is, since libseccomp then loads them as they are.
- `SeccompMultiplex`: the views a merge has of a multiplexed syscall and how a result is
  settled on that path.
- `SeccompFlags`: flags by polarity, lists left to the runtime, flags of a listener.
- `SeccompMerge`: `foldProfiles` as a process: `ValidateNext`, `NormalizeOnly` (a call
  with one profile), `FoldFirstTwo`, `FoldNext`, `ResolveListener`, `Regroup`.
- `SeccompSafety`: the properties of `SeccompMerge`, in the terms of `SeccompKernel`.
- `SeccompBare`: `IntersectSyscalls` or `UnionSyscalls`, and the result merged again.
- `SeccompProofs`, `SeccompSafetyProofs`: see section 5.
- `SeccompDiff`: `DiffForArch`, which compares the rules a runtime loads, and the entries
  themselves for a syscall past the budgets.
- `ConflictTracker`: how the validator remembers the rules of a syscall, by their filter
  and by every wider one (`conflictTracker`).
- `SeccompArtifact`: `ValidateArtifactForArch` as a process: `CheckFields`, `CheckCounts`,
  `VisitRule` for each rule as a runtime would add it, `CheckShapes` and
  `CheckMultiplexed`. An accepted artifact is then merged alone, or with a baseline.

The order of the keys under which the code sorts filters is a numeric total order.
Unknown actions, operators and indices, which validation refuses, are left out by the
types of the profiles. The names of an entry are a set. `SeccompDiff` compares profiles
that validate, although `Diff` itself does not ask for that.

### Output file

- `OutputFile`: runs of `writeOutputFile` on Unix. Each system call that other
  processes can see the effect of is an action: `Lstat`, `CheckWritable`,
  `IsMountedFile`, then `CreateTemp` .. `Rename` with `RemoveTemp` on the way out, or
  `OpenInPlace` .. `CloseInPlace`. Around them a reader reads, somebody removes the file
  or puts a symbolic link there, the kernel writes back what it likes, runs are killed
  and the machine crashes.
- `OutputFileProofs`: see section 5.

### Documents and the command

- `StrictJSON`: the scans of `internal/strictjson` on a document as a tree of members:
  `DuplicateKeys`, `UnknownFieldsOf` with the decoder's own report before its walk,
  `MisspelledFieldsOf` with the scan of all strings before its walk, `MissingFieldsOf`,
  and what the decoder makes of the document.
- `StrictDecode`: `unmarshalAll` of the command, which decodes every input under a policy
  of its own, and `Unmarshal` of the library, one check at a time, on the same documents.
- `Command`: one run of `merge`, `validate` or `diff` from its flags to its exit code:
  `CheckFlags`, `ReadStdin` and `ReadArgument`, where stdin may hold an array of profiles,
  `CountInputs`, `ResolveType`, `DecodeNext` and `CheckInputs` under every input's mode, `Run`,
  which merges or compares, and `Write`, the flush of what was buffered. The other modules
  say what decoding finds, what a check accepts and what a merge returns; here these are
  data of the documents.

Maps of Go are walked in an order of their own. Where that order can show
(`MissingFieldsOf` lists the first few of its findings) the model tries an order and
its reverse.

## 3. Runs

Small instances are in the modules whose names begin with `MC`. Every run is exhaustive.
A call of a merge has as many arguments as `Arities` allows, each of them any member of
`Profiles[n]` for a call with `n` arguments: many kinds of pairs, and fewer triples,
chosen so that intermediate results matter. In the AppArmor and seccomp models the
strategy is a variable, so that one run covers `Intersect` and `Union`; in the
Landlock model, whose two settlements are proved about apart, it is a constant.

| Run | Question |
|---|---|
| `landlock_intersect` | Single profiles in every spelling, pairs with up to two rules each, triples that handle different rights: accesses, moves of files and directories in the root mount and in others, grouping, loadability, refinement of `LandlockLayers`; for every ABI version, what a downgrade keeps (`RewritingKeepsPolicy`) and which moves it allows; what a diff of a profile with its rewritten form shows. |
| `landlock_union` | The same calls: accesses, moves, what the settlement gives up for them and nothing else, and the ABI version a result needs. |
| `apparmor` | Single profiles with every section, omitted or not, and everything the merge or the validator refuses; pairs of filesystem sections past the budget; triples folded from both ends: the safe side, what must survive and under which spelling (`RulesSurvive`), artifacts that stay loadable, and what a diff with the result tells. |
| `glob_cache` | All interleavings of three goroutines: races, counting, bounds, and that every lookup returns. |
| `output_file` | Two runs, a reader, interference, kills and a crash, for every kind of file at the path. |
| `seccomp_rules` | Pairs and triples of profiles for one syscall: the safe side at every call, compiled as written, and merging again changes nothing. |
| `seccomp_limits` | Two syscalls, past every budget, entries that name both, and architectures that compare the lower half of a value: the safe side, how far profiles that compare equal may differ (`EqualUpToOrder`), and lists without a profile, merged twice in a row. |
| `seccomp_multiplexed` | `socketcall`: pairs and triples, on listed architectures and on a node that multiplexes itself. |
| `seccomp_fields` | Flags, listener, metadata, validity. |
| `seccomp_artifact` | Artifacts of up to three rules for one syscall, or with a multiplexer, or with a setting an artifact may not have: conflicts found exactly, no clash among the rules of what is accepted (`AcceptedRulesDoNotClash`), and merges that lose nothing silently. |
| `strict_json` | Documents of a type like Landlock's `Profile` under several policies: one meaning for every parser, scans that miss nothing, and a command that agrees with the library. |
| `command` | Command lines with one to five arguments, with stdin arrays, modes per input and mistakes in the flags: true exit codes, and blame on the right inputs. |

All of them pass. Three statements of the documentation need care beside them:

- *Accepted artifacts and multiplexers.* `seccomp/doc.go:557-562` and `validate.go:392-396`
  warn that a profile which `ValidateArtifact` accepts may hold rules that libseccomp
  refuses on a multiplexing architecture; `doc.go:354-357` and `checkMultiplexed`
  (`validate.go:877-884`) say that where the profile covers such an architecture, these
  rules are reported. The two do not fit each other. `AcceptedRulesDoNotClash` sides
  with the second: with the native architecture that the check was made for, no such
  rules remain in what is accepted. The warning stays true elsewhere: on a node whose own
  architecture multiplexes and is neither listed nor the one checked for. What the
  warning says of rules with one result, which libseccomp evaluates in its own order or
  never finishes adding, is not contradicted: the property is about rules with different
  results.
- *Profiles that compare equal.* `diff.go:126-130` and `doc.go:443-446` say that two
  profiles with the same rules in another order compare equal although a runtime may load
  only one of them. So equal profiles are not one filter. `EqualUpToOrder` says what
  they share: the answers that some order of the rules may give to a call made directly, and whether
  the order matters at all, which may differ only where an unconditional rule hides others. Profiles
  that differ in their order, or by a hidden rule, are among its instances.
- *Members of no type.* Without `--type`, an input that holds only members no type knows
  follows the type of the other inputs with a warning; with `--type` it is refused. The
  code says so itself (`kinds.go:409-422`).

### Bounds, and why they are enough

- *Paths (Landlock).* `/`, `/a`, `/a/b`, `/c`, and `/d`, which no rule names: a chain of
  three, a sibling and a bystander; single profiles also have relative paths, and
  spellings with empty names and dots. A move relates two directories and their
  ancestors, so that each relation between two rules and two directories occurs. Rights
  are one for files (`read_file`), one for directories only (`remove_dir`) and
  `refer`; the code treats all others as it does one of these. `MaxArtifactRules` is 3
  and `MaxPathLen` 7, so that inputs reach both. The rights of the instance are
  introduced at ABI versions 1, 2, 3, 4 and 6, as in the code.
- *Names (AppArmor).* `/etc/`, `/etc/a`, `/etc/s/` and `/etc/s/ b`, and nineteen spellings: three
  of one literal, an escaped space and a bare one, `*`, `**` and `***`, an alternation
  that covers the directory itself, a doubled slash, a relative path, a dot component,
  and patterns that cannot be used. The budget is 4 pairs and 6 units of work, so that
  pairs fall on both sides of it, and an artifact has at most 2 paths: as in the code,
  the square of that is the budget of pairs.
- *Cache.* Three goroutines: one that reads, one that writes, one that waits. Patterns of
  length 1, 3, 6 and 7 with bounds of 2 entries and 6 bytes: either bound is reached
  first, one pattern empties the cache by itself, one is over the limit, and one path
  is not a pattern.
- *Output.* A profile is two blocks, so that it can be half written; the file before it
  has three, so that truncation matters. One crash is enough: nothing follows it. Two
  runs, since each interferes with the other through the path alone; the proofs hold
  for any number.
- *Values (seccomp).* `0..3` has values next to both ends, two bits for masks, and, with
  `MaxLow = 1`, a low half. The multiplexed run has `0..1`: there the conditions are on
  the number of the sub-call and on one argument. Two argument indices suffice for
  conditions on one and on several arguments.
- *Architectures.* `x86_64`, `x86` (narrow and multiplexing), `x32` (narrow), `ppc64`
  (multiplexing): every combination the code distinguishes.
- *Budgets (seccomp).* 1 or 2 in `seccomp_limits`, and out of reach in the others. The
  limits of an artifact are 4 rules, 3 of one syscall, 2 names and 3 entries: an artifact
  of the run exceeds each of them.
- *Documents.* Objects of up to three members, two of which fold to one field name in
  every way, inside lists of up to three; two reported paths at most, so that a report is
  cut off. Longer repetitions of a list add no case: the decoder reuses the elements of
  the one before, of which two lists already show every combination.
- *Command lines.* Four inputs, of three units each and six together, so that every limit
  is exceeded; two types, since a third adds no case; every mistake that the flags can
  have, alone and beside another one.
- *Number of profiles.* Pairs for properties of one merge, triples wherever an
  intermediate result matters, none and one where the call treats them apart.

### Fairness

Only `glob_cache` states a liveness property. Its `FairSpec` assumes weak fairness of
the steps a goroutine takes by itself, since the Go scheduler runs every goroutine that
can run, and strong fairness of `RLock` and `Lock`: a `sync.RWMutex` hands over to the
waiting readers at every unlock and admits the waiting writers one after the other, so
that a goroutine which finds it free again and again is let in. Nothing makes a goroutine
start a lookup. The runs of the output file and of the decoders do not check deadlock,
since all of their processes may come to an end; those of the merges and of the command
stutter when they returned.

## 4. Assumptions about the environment

- *Kernel and libseccomp.* As `landlock/doc.go`, `seccomp/doc.go` and the comments of the
  code describe them. What `seccomp/doc.go` lists as a defect of libseccomp beyond the
  reach of a merge is not modelled, nor is the ENOSYS that newer kernels and runtimes
  answer for syscalls they do not know.
- *Patterns.* `PathAssumption`: spellings of one rule cover the same names, a pattern
  covers only what its literal prefix starts, `<prefix>**` covers all of that. The
  package's reference tests of the matcher are about these facts. Only canonical names
  are asked about. Literals of one name are one rule (`ruleText`, `keyForPath`); filtering
  slashes twice is filtering them once. `RulesAssumption` and `ArtifactAssumption` add that
  neither filtering nor upper-casing makes a path or a capability worse than it was
  written (unreadable, unquotable, relative, of dot components, empty, no word), that a
  profile lists finitely many paths, and that two artifacts of `MaxArtifactPaths` paths
  stay within the budget of pairs, as the code's constants do.
- *Multiplexers.* `MultiplexAssumption`: a multiplexed syscall is a sub-call of one
  multiplexer, and no multiplexer is a sub-call, as in the tables of `multiplex.go`.
- *Seccomp calls.* Profiles are of the fields of `specs.LinuxSeccomp` (`Profile`), with the
  actions, operators and flags that `Validate` knows (`CallsAssumption`), and so are the
  artifacts as far as the checks read them (`ArtifactAssumption`); `write`, the syscall a
  listener makes itself, is in none of the tables of `multiplex.go`.
- *Calls.* `NilProfile` and `Nil`, which stand for a nil pointer, are no profiles
  (`NilAssumption`, `CallsAssumption`). A Landlock profile is made of lists of rules (`CallsAssumption`), and
  names a few paths: some directory is below none of them but `/`
  (`FreshPathAssumption`); only the proof that a union gives rights up for a move needs it,
  for a right may clash on a directory that no rule is above.
- *File system.* Removing one's own temporary file succeeds; whoever interferes removes
  the file or puts a symbolic link at the path, and leaves a mounted path alone; a
  rename is atomic; a synced file survives a crash.
- *JSON.* The decoder of `encoding/json` as its documentation states it: the last member
  wins, but for null, names match a field when they fold alike, an exact match first.
- *Command lines.* `CommandAssumption`: a command line is one of the three commands with
  arguments that name files or stdin; a text is at least as long as the documents in it,
  and the limit on one input is not above the limit on all, as in `input.go`.
- *Locks.* `sync.RWMutex` as the Go documentation states it.

## 5. Proofs

TLAPS proves these for every value of the constants that satisfies the named
assumptions.

**`LandlockProofs`, the fold.** `TypeCorrect`, `FoldExact`, `IntersectionIsTight` and
`UnionKeepsAccess`: for any set of paths with any hierarchy (`PathAssumption`), any
rights, ports and profiles and any number of arguments. The inductive invariant is

    TypeOK /\ PhasesOK /\ ProfilesWellFormed
      /\ FoldIsExact /\ FoldDenies
      /\ IntersectNeverPermitsMore /\ UnionNeverPermitsLess

`PhasesOK` ties the counters to `pc`. `ProfilesWellFormed` says that inputs and result
grant only rights they handle, without which dropping a handled right would change what
rules mean. `FoldDenies` says which rights the folded profile denies by default: the
next step of the fold is exact only because an empty list of handled rights and one
without `refer` are told apart. The lemmas before it are about the operators: pruning,
minimizing and stripping rules, each with what it does to `Granted`.

**`LandlockProofs`, the result.** `ImplementsLayers`: `Spec => Layers!Spec`. `FoldExact` and
`FoldDenies` give the steps of the fold, and the two theorems on settled results give
the settlement.

`ReportIsComplete` and `ResultLoads`, on that invariant and `ResultInv`: the inputs are the canonical forms of the arguments, the result has rules on
no path that no input has one on, and a settled intersection grants refer only where a
rule of an input does. For the first theorem, a right that an input denies by default and
the result grants was granted by that input (`FoldIsExact`), so by a rule on the path or
above it, and a nearest rule above is what `LoweredRulePaths` compares with
(`NearestAbove`). For the second, the lemmas on the two settlements show which keys and
which rights they leave.

`AnyOrderAndGrouping`: the answers of a merge determine its canonical form, so two merges
with equal answers are equal. A fold in another order, and the merge of an input with the
merge of the others, answer as the run's fold does, since a conjunction or disjunction over
the inputs does not depend on their order.

`UnionAllowsMoves`: a move compares the rights of two directories, so nothing about single
paths tells whether it is allowed. The settlement looks at pairs of rule paths, and parents
of one; the deepest rule path above each directory stands for it (`DeepestAbove`,
`SameGrants`), so that a right which an allowed move would gain was seen there and given up
(`MoveKept`). That nothing else was given up (`GivenUpForSome`) needs a directory below no
rule but the one on `/`. `ReferIsSafe` is the same argument for an intersection, where refer
is stripped instead. The theorem inherits the two restrictions that `UnionAllowsEveryMove`
names for moves below other mounts.

**`LandlockProofs`, as written.** The result as a caller gets it, and a kernel that knows fewer
rights. `KnownFacts` shows that dropping rights commutes with everything a rule decides,
`NormalizedDowngrade` that `DowngradeToABI` does this to the canonical form although it
works on the written lists, and `WrittenFacts` that writing a canonical profile and
cleaning its paths again gives it back. From these:
`IntersectionAllowsNoDeniedMove`, which adds the older kernels to the moves of an
intersection; `NoNewerKernelNeeded`; and `RewritingIsFaithful`, whose comparisons rest on
`DiffFacts`, that a diff is empty exactly where two profiles handle and grant the same.

**`GlobCacheProofs`.** `NoRace`, `EntriesBounded` and `CacheIsBounded`, for any number of
goroutines, any patterns and any bounds. `LockInv` says that a goroutine holds the read
lock exactly while it looks up and the write lock exactly from `Lock` to the unlock, and
that no reader is left when the write section starts; for the bounds it is joined by how
far the holder of the write lock has evicted, and by what the byte counter owes to the
patterns in the map, a sum over a set that `FoldLemmas` takes apart.

**`AppArmorMergeProofs`.** `GroupingIsSafe`: for any paths and patterns, whatever they
match (`PathAssumption`), any number of profiles and any budget of pairs. An intersection
of two prepared sections permits only what both permit, a union exactly what one of them
does, section by section: the merge of two permission maps by its cases (an equal rule, a
covering rule, a raised one, the pairs given up when the budget is spent), then file
systems, executables, network and capabilities. `OnSafeSide(result, 1..folded)` carries this
along the fold, and the fold from the right needs the same facts of one step.

**`AppArmorMergeProofs`, rules and spellings.** `RulesSurviveMerges` and `DiffTellsTheChange`,
from the invariant `RulesInv`. What a profile permits says nothing of how it is spelled, so
`RulesInv` adds to the invariant above what the inputs and the result list.
`SpelledInput` says that a prepared input has in each list exactly the rules that its author
wrote there, each in the simplest spelling any input has for it; `BuiltFrom` that the
result is made of such spellings only, has no rule in two filesystem lists, and names no
capability of its own; and `Same`, that the result of inputs which compare equal lists what
each of them does. A spelling is simplest for one rule only (`SpelledOnce`), so that
equality of paths stands for equality of rules from `Prepare` on, which is what the merge
relies on: the literals both sides have in common meet (`LiteralKept`), no rule of the
result is in two categories (`BuiltSeparately`) or twice in a list (`SpelledIsOnce`), and a
comparison by rules is a comparison of lists (`SpelledCompares`). A result loads because
each of its paths is the filtered form of one that loads (`BuiltPaths`, `BuiltLoads`), and
two artifacts fit the budget because preparing them lists no more paths than they did
(`PreparedCount`, `FewPairs`). Spellings that a consumer cannot render are the last choice
of `Simpler`, so the result has one only where all inputs do (`SpelledUnquotable`).

**`FoldLemmas`.** What the folds of the community modules and sums over sets compute. A
fold is a `CHOOSE` of a function on the subsets of a set: `RecursionExists` shows that
there is one, `Unfolds` what any such function satisfies, and the rest follows by taking a
smallest counterexample (`WFMin`), which stands in for the induction theorems that the
provers cannot instantiate.

**`OutputFileProofs`.** The five properties of the output file, for any number of runs:
`LinkTargetSafe`, `ReaderIsSafe`, `FailureIsClean`, `CrashIsSafe` and `SuccessIsReal`, all
from one inductive invariant, `Inv`. `PathFitsWorld` says what the path may still name
given what it named at first, and `StageFitsWorld` that a run only writes in place where
it cannot replace: together they keep every write away from the target of a link and
from the former file. `TempContents` says that a temporary file is exactly the blocks
written so far, and on disk once it is synced, `PathNamesSuccess` that the path, in
memory and on disk, names a temporary file only after its run succeeded. The invariant
is also what makes a reader's file stable (`ReaderReadsOne`).

**`SeccompProofs`, conditions.** What the merge reads off two conditions without evaluating them is
right for values of any width and any bitwise and with the laws of `ArgsAssumption`:
`ComplementArgIsExact`, `CondImpliesIsSound`, `CondsDisjointIsSound`,
`ArgsCoverIsSound`, `ArgsDisjointIsSound`, `ConjoinArgsIsExact`. The chain is: ranges are
exact (`IntervalIsExact`), masks imply by associativity of the bitwise and
(`MaskedTwice`, `MaskImpliesIsSound`), then one condition, then filters. These are the
facts that let a 64-bit argument be checked with two bits.

**`SeccompProofs`, fields.** `FlagsAreMerged` and `ListenerIsTheFirst`, for any profiles, any
rules in them, any architectures and any number of arguments. `StandsFor(result, n)` says
what the fields of the result owe to the first `n` inputs: its flags are theirs under
each polarity, and one of the inputs, the first with a listener, gave it the listener,
the metadata and the flag that goes with them. `MergeNext` shows that `mergeTwo` takes it
from `n` to `n + 1`; a `nil` list of flags is the hard case, for the flag it stands for
is not in it (`MergedFlags`). `FieldsInv` adds the counters, and that every profile the
fold reads was validated.

**`SeccompProofs`, conflict trackers.** `TrackerIsExact`, for any filters and any number of
rules. `Represents(tracker, rules)` says what a tracker keeps of the rules recorded in it:
under each filter the first rule, and whether another has a different result. That is
enough because having the same result is an equivalence (`SameResultComparesResults`: an
errno counts for ERRNO and TRACE only, which share their rank with no other action), and
`RecordIsExact` keeps it so. The module goes on with the lemmas of the next paragraphs: the
rules of one syscall, the settling of multiplexed syscalls state by state, and what these
operators make of actions.

**`SeccompSafetyProofs`, direct calls.** `DirectCallsAreSafe` and `ResultIsCompiled`, for any
profiles, any widths of values, any budgets and any multiplexers. A
call meets a set of filters (`Met`), as its architecture compares values, and rules matter
through that set alone. Clauses *heed* a restrictiveness if what they decide on a call is on its
safe side (`Heeds`: at least as restrictive for an intersection, at most for a union), and
rules *follow* others if they heed whatever those do (`Safer`, `Follows`). Both compose, so
that the pieces of `rules.go` are taken one by one: `SettleInput` (an input that libseccomp
would compile in an order of its own becomes one result), the pairwise merge of two
rules with both of its budgets, `RaiseOverlaps` of a union with its fixed point
(`ClosedUnderOverlaps`), `PruneDominated`, `ResolveMixed`, `SettleOutput`. Following is about
each call by itself and says nothing of what libseccomp makes of the clauses; for that the rules a
step leaves have `ResultForm`: an unconditional rule or conditional ones, never both, of which
`SafeShape` holds. It is about sets of clauses, so that the order in which they are listed
cannot matter; that what libseccomp makes of such clauses is what they say (`DirectAlike`) is the case
analysis behind `ResultIsCompiled`.

The fold then needs `SidesInv` beside `FieldsInv`: the profiles read so far, and the result,
have settled rules (`PassedOK`, `ResultOK`), and the result is on its side of each input
folded so far (`OnEverySide`), for every width of values that both profiles' architectures
have. A result is on the side of an input if it is on the side of an intermediate profile
that is (`SideOfSide`): the architectures a further step covers only shrink under an
intersection, and a union compares on those of the input. The entries of a result are
not its rules: they are regrouped by the rules they share and read back, and `LoadedAre`,
`KeepIs` and `FlattenedElements` show that a syscall is loaded with the clauses it had.

**`SeccompSafetyProofs`, multiplexed calls.** `MultiplexedCallsAreSafe` and `ResultIsTaken`,
for any disjoint groups of multiplexed syscalls (`MultiplexAssumption`). The
settlement walks over multiplexers and their sub-calls and replaces rules as it goes, so that a
later replacement could undo what an earlier one established. It does not, since the groups
are disjoint and a replacement only touches its own: when the walk is over every group is
settled (`AllSettled`), which says of the multiplexer that it decides every input's
unnamed sub-calls safely (`TargetSettled`), and of each sub-call that it heeds every
input in the view that libseccomp has of it: as the rules of the syscall, of the
multiplexer, or of both (`NameSettled`). The result is written as entries and read back as
an input of the next merge, with its rules in an order of its own: everything above depends
on the sets of clauses only (`Alike`). `MuxInv` carries it along the fold: the result is
clean, in that no multiplexer keeps a rule with filters and none of the rules derived from it
is refused (`CleanOver`), and it is safe for every input folded so far on the multiplexed
path (`MuxOver`). The step of it is `SubSafeTwice`: being safe for an intermediate result
that is safe for an input is being safe for the input, sub-call by sub-call, whichever of
the views applies at each of the three.

**`SeccompSafetyProofs`, results are valid.** `ResultsAreValid`. A profile may not notify a
listener by default, on `write`, or without the path of one. No input does, and the actions of
a result are picked among those of the inputs, but a merge collapses rules, conjoins them,
complements and spreads them over syscalls, so that which action ends up on which syscall is
decided all over `rules.go` and `multiplex.go`. `Quiet` rules have no notify action. For each of
these operators there is a lemma that quiet rules on both sides, and quiet defaults, give quiet
rules (`QuietMerged`, `QuietElided`, `QuietMixed`, `QuietOutput`); an input that notifies
elsewhere stays out because they work on one syscall at a time. The settling of multiplexers
does not: there a syscall takes over what other syscalls of its group have, and the lemmas ask for all of the group in all
inputs to be quiet (`QuietReadBack`). That is so where no input has a listener; and a
`write` in such a group would be notified about, which is why `CallsAssumption` says it is in
none. `MuteInv` carries this along the fold, with the names of entries: an entry
without names would be invalid whatever its action.

**`SeccompSafetyProofs`, artifacts.** `ScanReportsEveryClash`, `ArtifactConflictsAreFound` and
`AcceptedDoNotClash`, for any artifact and any bounds. `ScanInv` lifts the exactness of trackers to
the scan: the trackers of a syscall that is not skipped represent what was seen of it, and a
skipped one was reported for a clash that later rules cannot undo. For the other two,
`ArtifactInv` follows the checks from stage to stage. `StatesOK` says that the two lists of
clauses kept for a syscall, as written and as a 32-bit architecture gets them, are those of
the rules visited so far (`Fits`); `ReportedOK` that what was reported is an entry that an
earlier one contradicts (`Contradicted`), `ProblemsOK` that every problem has a reason, and
`AllFound` and `AllTaken`, from the checks that follow the scan, that a syscall without a
problem has a safe shape and is one libseccomp takes on a multiplexer. A clash leaves no
safe shape, in either width (`ShapesTellApart`), so the order of scan and checks cannot hide one;
and a rule that is doubtful on a 32-bit architecture only is seen in the truncated list
(`DoubtfulIsSeen`).

**`SeccompSafetyProofs`, diffs.** `EqualIsUpToOrder`. A diff compares the rules of a syscall as sets
of clauses where both sides list each once, and otherwise as lists of the entries that rule; an
unconditional rule hides what follows it, so that neither gives the other. What
the kernel may decide, in some order of the rules, depends on the set of loaded clauses and on the first
unconditional one (`AnswersAlike`), and on the default, whose errno a diff compares as a
result spells it (`DefaultsAlike`). That one is the leader of the list of clauses, found in the
leading decisive entry (`DecisiveLeads`), so that equal lists of entries have equal leaders
(`SameEntries`), and equal sets have the same unconditional clause if any (`SameListed`). Without
one the loaded sets are equal, and so is whether their order matters (`EqualOrders`).

**`CommandProofs`.** `ExitCodesAreTrue` and `BlameIsRight`, for any command lines, files,
documents and limits. Both properties compare the end of a run with `Meant`, the profiles
that the command line stands for, while the run reads its sources one by one, counts as it
goes and gives up at the first failure. The type is the one that the whole command line
names (`MeantTypes`), however the run came to it (`TypeSettled`). `Progress` says at each step what has been found
right so far: `ReadSoFar` that the inputs are the profiles of the sources read
(`Prefix`), that their size is the running total and that no limit is passed, counting one
profile at least for every source still unread; `CountsRight`, `TypeFits`, `ArchRight`,
`DecodedWell`, `Accepts` and `Merges` what each later step adds. A step that fails on a
count of what is read must find a mistake in the whole command line, parts of it unread:
the flattened list and its size only grow (`PrefixGrows`, `SizeAppends`), which is shown
on the recursive functions behind `FlattenSeq` and the fold by a smallest counterexample.
A run that reaches the writing has nothing wrong with it (`NothingWrong`). `BlameTells`
splits the second property by the step at which the run failed.

`TypeCorrect`, `FoldExact`, `EntriesBounded`, the theorems on conditions, `TrackerIsExact` and
`ScanReportsEveryClash` state no property of a run by themselves (`ScanIsExact` is the first
conjunct of `ConflictsAreFound`): they are parts of what the runs check, or lemmas a reader
should know of.

What stays with TLC:

- liveness (`LookupsReturn`): the prover does not reason about fairness and `ENABLED`;
- the decoders (`AcceptedDocumentsReadAlike`, `ScansMissNothing`, `CommandAgreesWithLibrary`),
  whose definitions are recursive operators, as documents are nested;
- that a merge is a fixed point (`MergingAgainChangesNothing`): the proofs above bound the rules a
  step leaves from one side, and this asks for the very same rules again, so for the exact result of
  each step on rules already in its form, their order included;
- bare lists (`BareCallsOnTheSafeSide`) and the precision of merging accepted artifacts
  (`ArtifactsMergePrecisely`).

What one recursive definition computes for every input can be proved where it is a fold or a
function, by a smallest counterexample; a `SelectSeq` cannot be expanded, so the names of a
path are filtered by a fold (`Without`), and a string literal is not known to the provers as a
member of `STRING`, so the parts of a path are of the set `Part`.

## 6. Not modelled, and why

- The matcher's automata, the parser port and the lexer of paths: searches over
  characters, whose outcome (usable, unquotable, relative, ...) is a constant here.
- The tokenizer of JSON, the escaping of names in reports, and the caches of
  `strictjson`, which keep one of two equal values. A list that a document gives more
  than twice.
- The wording of messages, the printed forms of profiles and diffs, help and version.
- What `ValidateStrict` adds in each package: names it knows, and duplicates in lists
  that are sets here (rights of a rule, names of an entry, capabilities).
- `JoinLimited`: it only decides how many errors a message lists.
- A comparison of seccomp profiles that do not validate.
- Builds for systems other than Unix.
- The cgo bridge to libseccomp and the test helpers.

## 7. Plan

Done, in this order: the Landlock merge with its kernel and its abstract
specification; the pattern cache; the output file; the AppArmor merge; the seccomp
argument filters, rules, multiplexers, profiles and bare lists, with their proofs; then
the artifact validators, the ABI versions, the three diffs, the decoders, the command,
and the proofs: the Landlock results, moves and ABI versions, the AppArmor merge, its
artifacts and its diff, the cache, the output file, the conditions, fields, rules and
multiplexers of seccomp, its results, artifacts and diff, and the command.

Next:

1. Proofs: `BareCallsOnTheSafeSide` and `ArtifactsMergePrecisely` on the lemmas of
   `SeccompSafetyProofs`; the form of a result as a fixed point of each step, for
   `MergingAgainChangesNothing`.
2. `JoinLimited`: that at most the limit is listed and that the rest is counted, through
   nested joins.
