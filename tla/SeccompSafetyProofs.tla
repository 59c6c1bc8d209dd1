------------------------- MODULE SeccompSafetyProofs -------------------------
(***************************************************************************)
(* What seccomp.Intersect and seccomp.Union promise, for every profile,    *)
(* any number of them, any budget and any multiplexers: the settling of    *)
(* multiplexed syscalls, the regrouping of entries and the fold keep a     *)
(* result on the safe side of every input, for a call made directly and    *)
(* for one made through a multiplexer, and its rules such that libseccomp  *)
(* loads them and compiles them to what they say; and a result is as valid *)
(* as the profiles it stands for.                                          *)
(*                                                                         *)
(* What seccomp.ValidateArtifact promises, for any artifact and any        *)
(* bounds: the scan of its rules is exact at every point, the checks find  *)
(* every syscall whose rules conflict and point at an entry that another   *)
(* one contradicts, and no rules of what they accept clash.                *)
(*                                                                         *)
(* And what seccomp.Diff promises: profiles between which it reports no    *)
(* difference answer every call alike, up to the order of their rules.     *)
(***************************************************************************)
EXTENDS SeccompProofs, SeccompDiff

-----------------------------------------------------------------------------
(* A profile on the safe side of another one *)

Loads(profile, name) == LoadedClauses(profile.entries, Default(profile), name)

\* What the kernel makes of a call that is made directly.
Decides(profile, name, narrow, call) ==
  Direct(Loads(profile, name), Default(profile), narrow, call)

ProfileOK(profile) ==
  profile.default \in Action /\ profile.errno \in Int /\ profile.entries \in Seq(Entry)

\* A profile that a merge builds, before it regroups the entries.
Built(profile) ==
  /\ ProfileOK(profile) /\ OneNamed(profile.entries)
  /\ \A name \in Name : Exact(ToSet(Loads(profile, name)))

Beneath(profile, input, narrow) ==
  \A name \in Name : \A call \in Calls(narrow) :
    AllOnSide(Decides(profile, name, narrow, call), Decides(input, name, narrow, call))

\* The architectures on which they are compared.
ComparedOf(profile, input) == IF Intersecting THEN Covered(profile) ELSE Covered(input)

OnItsSide(profile, input) ==
  /\ ComparedOf(profile, input) \subseteq Covered(profile) \cap Covered(input)
  /\ \A narrow \in Widths(ComparedOf(profile, input)) : Beneath(profile, input, narrow)

LEMMA ProfileDecides ==
  ASSUME NEW profile, ProfileOK(profile), NEW name, NEW narrow, NEW call
  PROVE  /\ Default(profile) \in Decisive /\ Loads(profile, name) \in Seq(Clause)
         /\ Decides(profile, name, narrow, call) # {}
         /\ Decides(profile, name, narrow, call) \in SUBSET Int
<1>1. Default(profile) \in Decisive
  BY DecisionIs DEF ProfileOK, Default
<1>2. Loads(profile, name) \in Seq(Clause)
  BY LoadedAre DEF ProfileOK, Loads
<1> QED
  BY <1>1, <1>2, DirectSome DEF Decides

LEMMA BeneathTwice ==
  ASSUME NEW a, NEW b, NEW c, ProfileOK(a), ProfileOK(b), ProfileOK(c), NEW narrow,
         Beneath(a, b, narrow), Beneath(b, c, narrow)
  PROVE  Beneath(a, c, narrow)
<1>1. SUFFICES ASSUME NEW name \in Name, NEW call \in Calls(narrow)
               PROVE  AllOnSide(Decides(a, name, narrow, call), Decides(c, name, narrow, call))
  BY DEF Beneath
<1> DEFINE A == Decides(a, name, narrow, call)
           B == Decides(b, name, narrow, call)
           C == Decides(c, name, narrow, call)
<1>2. A \in SUBSET Int /\ B \in SUBSET Int /\ C \in SUBSET Int /\ B # {}
  BY ProfileDecides
<1>3. AllOnSide(A, B) /\ AllOnSide(B, C)
  BY DEF Beneath
<1> HIDE DEF A, B, C
<1>4. AllOnSide(A, C)
  BY <1>2, <1>3, AllSidesTwice
<1> QED
  BY <1>4 DEF A, C

LEMMA SideOfSide ==
  ASSUME NEW a, NEW b, NEW c, ProfileOK(a), ProfileOK(b), ProfileOK(c),
         OnItsSide(a, b), OnItsSide(b, c)
  PROVE  OnItsSide(a, c)
<1>1. /\ ComparedOf(a, b) \subseteq Covered(a) \cap Covered(b)
      /\ ComparedOf(b, c) \subseteq Covered(b) \cap Covered(c)
  BY DEF OnItsSide
<1>2. /\ ComparedOf(a, c) \subseteq ComparedOf(a, b) /\ ComparedOf(a, c) \subseteq ComparedOf(b, c)
      /\ ComparedOf(a, c) \subseteq Covered(a) \cap Covered(c)
  <2>1. CASE Intersecting
    BY <1>1, <2>1 DEF ComparedOf
  <2>2. CASE ~Intersecting
    BY <1>1, <2>2 DEF ComparedOf
  <2> QED
    BY <2>1, <2>2
<1>3. ASSUME NEW narrow \in Widths(ComparedOf(a, c)) PROVE Beneath(a, c, narrow)
  <2>1. narrow \in Widths(ComparedOf(a, b)) /\ narrow \in Widths(ComparedOf(b, c))
    BY <1>2, WidthsGrow
  <2>2. Beneath(a, b, narrow) /\ Beneath(b, c, narrow)
    BY <2>1 DEF OnItsSide
  <2> QED
    BY <2>2, BeneathTwice
<1> QED
  BY <1>2, <1>3 DEF OnItsSide

\* Profiles with one default, and exact rules that load alike.
LEMMA BeneathItself ==
  ASSUME NEW a, NEW b, ProfileOK(a), ProfileOK(b), Default(a) = Default(b),
         \A name \in Name : ToSet(Loads(a, name)) = ToSet(Loads(b, name)),
         \A name \in Name : Exact(ToSet(Loads(b, name))), NEW narrow \in BOOLEAN
  PROVE  Beneath(a, b, narrow)
<1>1. SUFFICES ASSUME NEW name \in Name, NEW call \in Calls(narrow)
               PROVE  AllOnSide(Decides(a, name, narrow, call), Decides(b, name, narrow, call))
  BY DEF Beneath
<1> DEFINE s == Loads(a, name)
           t == Loads(b, name)
           d == Default(b)
           B == Direct(t, d, narrow, call)
<1>2. /\ s \in Seq(Clause) /\ t \in Seq(Clause) /\ d \in Decisive
      /\ ToSet(s) = ToSet(t) /\ Exact(ToSet(s)) /\ Exact(ToSet(t))
  BY ProfileDecides
<1>3. Decides(a, name, narrow, call) = Direct(s, d, narrow, call)
      /\ Decides(b, name, narrow, call) = B
  BY DEF Decides
<1> HIDE DEF s, t, d
<1>4. Direct(s, d, narrow, call) = B
  BY <1>2, DirectAlike
<1>5. \A x, y \in B : x = y /\ x \in Int
  BY <1>2, DirectSingle, DirectSome
<1> HIDE DEF B
<1>6. AllOnSide(B, B)
  BY <1>5 DEF AllOnSide, OnSide
<1> QED
  BY <1>3, <1>4, <1>6

LEMMA ReadInputs ==
  ASSUME NEW n \in Nat, NEW inputs, DOMAIN inputs = 1..n, \A i \in 1..n : ProfileOK(inputs[i])
  PROVE  [i \in DOMAIN inputs |-> MultiplexInput(inputs[i].entries, Default(inputs[i]))]
           \in Seq(InputType)
<1>1. \A i \in 1..n : MultiplexInput(inputs[i].entries, Default(inputs[i])) \in InputType
  BY ProfileDecides, MultiplexInputIs DEF ProfileOK
<1> QED
  BY <1>1

\* Settling the architectures keeps on the safe side of what was built.
LEMMA ArchitecturesSettled ==
  ASSUME NEW profile, Built(profile),
         NEW n \in Nat, NEW inputs, DOMAIN inputs = 1..n, \A i \in 1..n : ProfileOK(inputs[i])
  PROVE  /\ Built(SettleArchitectures(profile, inputs))
         /\ OnItsSide(SettleArchitectures(profile, inputs), profile)
<1> DEFINE q == SettleArchitectures(profile, inputs)
           entries == profile.entries
           default == Default(profile)
           read == [i \in DOMAIN inputs |->
                      MultiplexInput(inputs[i].entries, Default(inputs[i]))]
           settled == SettleMultiplexed(entries, default, read)
           F == settled.entries
<1>1. /\ entries \in Seq(Entry) /\ OneNamed(entries) /\ default \in Decisive /\ ProfileOK(profile)
      /\ \A name \in Name : Exact(ToSet(LoadedClauses(entries, default, name)))
  BY ProfileDecides DEF Built, ProfileOK, Loads
<1>2. read \in Seq(InputType)
  BY ReadInputs
<1> HIDE DEF read, entries, default
<1>3. /\ F \in Seq(Entry) /\ OneNamed(F)
      /\ \A name \in Name : Exact(ToSet(LoadedClauses(F, default, name)))
      /\ \A narrow \in BOOLEAN : \A call \in Calls(narrow) : \A name \in Name :
           AllOnSide(Direct(LoadedClauses(F, default, name), default, narrow, call),
                     Direct(LoadedClauses(entries, default, name), default, narrow, call))
  BY <1>1, <1>2, MultiplexSettled
<1>4. \/ q = profile
      \/ /\ q = Rebuilt(profile, profile.architectures \ MultiplexingArchitectures,
                        profile.entries, profile.flags)
         /\ Intersecting
      \/ q = Rebuilt(profile, profile.architectures, F, profile.flags)
  BY DEF SettleArchitectures, NarrowOrSettle, read, entries, default
<1> HIDE DEF settled, F, q
<1>5. CASE q = profile
  <2>1. \A narrow \in BOOLEAN : Beneath(profile, profile, narrow)
    BY <1>1, BeneathItself DEF Built
  <2>2. OnItsSide(profile, profile)
    BY <2>1, WidthsAre DEF OnItsSide, ComparedOf
  <2> QED
    BY <1>5, <2>2 DEF q
<1>6. CASE /\ q = Rebuilt(profile, profile.architectures \ MultiplexingArchitectures,
                          profile.entries, profile.flags)
           /\ Intersecting
  <2>1. /\ q.default = profile.default /\ q.errno = profile.errno /\ q.entries = profile.entries
        /\ q.architectures = profile.architectures \ MultiplexingArchitectures
    BY <1>6 DEF Rebuilt
  <2>2. Default(q) = Default(profile) /\ \A name : Loads(q, name) = Loads(profile, name)
    BY <2>1 DEF Default, Loads
  <2>3. Built(q)
    BY <2>1, <2>2 DEF Built, ProfileOK
  <2>4. \A narrow \in BOOLEAN : Beneath(q, profile, narrow)
    BY <1>1, <2>2, <2>3, BeneathItself DEF Built
  <2>5. ComparedOf(q, profile) \subseteq Covered(q) \cap Covered(profile)
    BY <1>6, <2>1 DEF ComparedOf, Covered
  <2> QED
    BY <2>3, <2>4, <2>5, WidthsAre DEF OnItsSide, q
<1>7. CASE q = Rebuilt(profile, profile.architectures, F, profile.flags)
  <2>1. /\ q.default = profile.default /\ q.errno = profile.errno /\ q.entries = F
        /\ q.architectures = profile.architectures
    BY <1>7 DEF Rebuilt
  <2>2. /\ Default(q) = default /\ default = Default(profile)
        /\ \A name : Loads(q, name) = LoadedClauses(F, default, name)
        /\ \A name : Loads(profile, name) = LoadedClauses(entries, default, name)
    BY <2>1 DEF Default, Loads, entries, default
  <2>3. Built(q)
    BY <1>1, <1>3, <2>1, <2>2 DEF Built, ProfileOK
  <2>4. \A narrow \in BOOLEAN : Beneath(q, profile, narrow)
    BY <1>3, <2>2 DEF Beneath, Decides
  <2>5. ComparedOf(q, profile) \subseteq Covered(q) \cap Covered(profile)
    BY <2>1 DEF ComparedOf, Covered
  <2> QED
    BY <2>3, <2>4, <2>5, WidthsAre DEF OnItsSide, q
<1> QED
  BY <1>4, <1>5, <1>6, <1>7

LEMMA DefaultWritten ==
  ASSUME NEW d \in Decisive
  PROVE  /\ d.action \in Action /\ OutputErrno(d.action, d.errno) \in Int
         /\ Decision(d.action, OutputErrno(d.action, d.errno)) = d
<1>1. d \in Clause /\ d.args = {}
  BY DecisiveIs
<1>2. /\ d.action \in Action \ {"KILL_THREAD"} /\ d.errno \in Errnos(d.action)
      /\ d = [action |-> d.action, errno |-> d.errno, args |-> d.args]
  BY <1>1, ClauseFields
<1>3. /\ OutputErrno(d.action, d.errno) \in Int
      /\ RuntimeErrno(d.action, OutputErrno(d.action, d.errno)) = d.errno
  BY <1>2, ErrnoWritten
<1>4. CanonicalAction(d.action) = d.action
  BY <1>2 DEF CanonicalAction
<1> QED
  BY <1>1, <1>2, <1>3, <1>4 DEF Decision

\* A profile with the default and the entries of rules that a merge settled.
LEMMA WrittenBuilt ==
  ASSUME NEW d \in Decisive, NEW rules,
         \A name \in Name : rules[name] \in RulesType(FALSE) /\ ResultForm(rules[name]),
         NEW profile, profile.default = d.action, profile.errno = OutputErrno(d.action, d.errno),
         profile.entries = EmittedAll(d, rules)
  PROVE  Built(profile) /\ Default(profile) = d
<1>1. Default(profile) = d /\ profile.default \in Action /\ profile.errno \in Int
  BY DefaultWritten DEF Default
<1>2. /\ profile.entries \in Seq(Entry) /\ OneNamed(profile.entries)
      /\ \A name \in Name : ToSet(LoadedClauses(profile.entries, d, name))
                              = WrittenRules(rules[name], d)
  BY Reloaded
<1>3. \A name \in Name : Exact(WrittenRules(rules[name], d))
  BY WrittenExact
<1>4. \A name \in Name : Exact(ToSet(Loads(profile, name)))
  BY <1>1, <1>2, <1>3 DEF Loads
<1> QED
  BY <1>1, <1>2, <1>4 DEF Built, ProfileOK

\* A single profile in the form of a result.
LEMMA NormalizedSafe ==
  ASSUME NEW profile, ProfileOK(profile)
  PROVE  Built(Normalized(profile)) /\ OnItsSide(Normalized(profile), profile)
<1> DEFINE d == Default(profile)
           entries == profile.entries
           p == [default |-> d.action, errno |-> OutputErrno(d.action, d.errno),
                 entries |-> SettledSyscalls(entries, d),
                 architectures |-> profile.architectures, flags |-> profile.flags,
                 path |-> profile.path, metadata |-> profile.metadata]
           inputs == <<profile>>
           rules == SortedRules(SettledRules(entries, d, FALSE))
<1>1. d \in Decisive /\ entries \in Seq(Entry)
  BY ProfileDecides DEF ProfileOK
<1>2. Normalized(profile) = SettleArchitectures(p, inputs)
  BY DEF Normalized
<1>3. DOMAIN inputs = 1..1 /\ \A i \in 1..1 : ProfileOK(inputs[i])
  OBVIOUS
<1>4. /\ p.default = d.action /\ p.errno = OutputErrno(d.action, d.errno)
      /\ p.entries = SettledSyscalls(entries, d) /\ p.architectures = profile.architectures
  OBVIOUS
<1> HIDE DEF p, inputs
<1>5. p.entries = EmittedAll(d, rules)
  BY <1>4 DEF SettledSyscalls
<1>6. \A name \in Name : rules[name] \in RulesType(FALSE) /\ ResultForm(rules[name])
  <2> HIDE DEF d, entries
  <2> QED
    BY <1>1, NormalRules
<1> HIDE DEF rules
<1>7. Built(p) /\ Default(p) = d
  <2> HIDE DEF d
  <2> QED
    BY <1>1, <1>4, <1>5, <1>6, WrittenBuilt
<1>8. ASSUME NEW narrow \in BOOLEAN PROVE Beneath(p, profile, narrow)
  <2>1. SUFFICES ASSUME NEW name \in Name, NEW call \in Calls(narrow)
                 PROVE  AllOnSide(Decides(p, name, narrow, call),
                                  Decides(profile, name, narrow, call))
    BY DEF Beneath
  <2> DEFINE E == SettledSyscalls(entries, d)
  <2>2. /\ Decides(p, name, narrow, call) = Direct(LoadedClauses(E, d, name), d, narrow, call)
        /\ Decides(profile, name, narrow, call)
             = Direct(LoadedClauses(entries, d, name), d, narrow, call)
    BY <1>4, <1>7 DEF Decides, Loads
  <2> HIDE DEF d, entries
  <2>3. AllOnSide(Direct(LoadedClauses(E, d, name), d, narrow, call),
                  Direct(LoadedClauses(entries, d, name), d, narrow, call))
    BY <1>1, NormalSides
  <2> QED
    BY <2>2, <2>3
<1>9. OnItsSide(p, profile)
  <2>1. ComparedOf(p, profile) \subseteq Covered(p) \cap Covered(profile)
    BY <1>4 DEF ComparedOf, Covered
  <2> QED
    BY <1>8, <2>1, WidthsAre DEF OnItsSide
<1> DEFINE q == SettleArchitectures(p, inputs)
<1>10. Built(q) /\ OnItsSide(q, p)
  BY <1>3, <1>7, ArchitecturesSettled
<1> HIDE DEF q
<1>11. OnItsSide(q, profile)
  BY <1>7, <1>9, <1>10, SideOfSide DEF Built
<1> QED
  BY <1>2, <1>10, <1>11 DEF q

\* Two profiles, before the architectures of their merge are settled.
LEMMA MergeBuilt ==
  ASSUME NEW left, NEW right, ProfileOK(left), ProfileOK(right), NEW flag \in BOOLEAN, NEW p,
         p.default = PickClause(Default(left), Default(right)).action,
         p.errno = OutputErrno(PickClause(Default(left), Default(right)).action,
                               PickClause(Default(left), Default(right)).errno),
         p.entries = MergeProfileSyscalls(Side(left.entries, Default(left)),
                                          Side(right.entries, Default(right)),
                                          PickClause(Default(left), Default(right)), flag)
  PROVE  /\ Built(p)
         /\ \A narrow \in BOOLEAN :
              flag \/ ~narrow \/ (~LoadsWideValue(left) /\ ~LoadsWideValue(right)) =>
                Beneath(p, left, narrow) /\ Beneath(p, right, narrow)
<1> DEFINE ld == Default(left)
           rd == Default(right)
           le == left.entries
           re == right.entries
           d == PickClause(ld, rd)
           rules == MergedOf(le, ld, re, rd, flag)
           E == MergeProfileSyscalls(Side(le, ld), Side(re, rd), d, flag)
<1>1. ld \in Decisive /\ rd \in Decisive /\ le \in Seq(Entry) /\ re \in Seq(Entry)
  BY ProfileDecides DEF ProfileOK
<1>2. /\ p.default = d.action /\ p.errno = OutputErrno(d.action, d.errno) /\ p.entries = E
      /\ \A name : Loads(left, name) = LoadedClauses(le, ld, name)
      /\ \A name : Loads(right, name) = LoadedClauses(re, rd, name)
      /\ \A name, narrow, call : Decides(left, name, narrow, call)
                                   = Direct(LoadedClauses(le, ld, name), ld, narrow, call)
      /\ \A name, narrow, call : Decides(right, name, narrow, call)
                                   = Direct(LoadedClauses(re, rd, name), rd, narrow, call)
  BY DEF Loads, Decides
<1>3. ASSUME NEW name \in Name, NEW narrow,
             ~narrow \/ (~LoadsWideValue(left) /\ ~LoadsWideValue(right))
      PROVE  /\ ReadsAsWritten(LoadedClauses(le, ld, name), narrow)
             /\ ReadsAsWritten(LoadedClauses(re, rd, name), narrow)
  <2>1. CASE ~narrow
    BY <2>1, WideReadsAsWritten
  <2>2. CASE ~LoadsWideValue(left) /\ ~LoadsWideValue(right)
    BY <2>2, NarrowlyLoaded DEF ProfileOK
  <2> QED
    BY <1>3, <2>1, <2>2
<1> HIDE DEF ld, rd, le, re
<1>4. d \in Decisive
  BY <1>1, PickedDecisive
<1>5. /\ E = EmittedAll(d, rules)
      /\ \A name \in Name : rules[name] \in RulesType(FALSE) /\ ResultForm(rules[name])
  BY <1>1, MergedExact
<1> HIDE DEF rules, E
<1>6. Built(p) /\ Default(p) = d
  <2> HIDE DEF d
  <2>1. p.entries = EmittedAll(d, rules)
    BY <1>2, <1>5
  <2> QED
    BY <1>2, <1>4, <1>5, <2>1, WrittenBuilt
<1>7. \A name, narrow, call : Decides(p, name, narrow, call)
                                = Direct(LoadedClauses(E, d, name), d, narrow, call)
  BY <1>2, <1>6 DEF Decides, Loads
<1>8. ASSUME NEW narrow \in BOOLEAN,
             flag \/ ~narrow \/ (~LoadsWideValue(left) /\ ~LoadsWideValue(right)),
             NEW name \in Name, NEW call \in Calls(narrow)
      PROVE  /\ AllOnSide(Decides(p, name, narrow, call), Decides(left, name, narrow, call))
             /\ AllOnSide(Decides(p, name, narrow, call), Decides(right, name, narrow, call))
  <2>1. flag \/ /\ ReadsAsWritten(LoadedClauses(le, ld, name), narrow)
                /\ ReadsAsWritten(LoadedClauses(re, rd, name), narrow)
    BY <1>3, <1>8
  <2>2. LET results == Direct(LoadedClauses(E, d, name), d, narrow, call)
        IN /\ AllOnSide(results, Direct(LoadedClauses(le, ld, name), ld, narrow, call))
           /\ AllOnSide(results, Direct(LoadedClauses(re, rd, name), rd, narrow, call))
    BY <1>1, <2>1, MergedSides DEF E
  <2> HIDE DEF d
  <2> QED
    BY <1>2, <1>7, <2>2
<1>9. ASSUME NEW narrow \in BOOLEAN,
             flag \/ ~narrow \/ (~LoadsWideValue(left) /\ ~LoadsWideValue(right))
      PROVE  Beneath(p, left, narrow) /\ Beneath(p, right, narrow)
  BY <1>8, <1>9 DEF Beneath
<1> QED
  BY <1>6, <1>9

\* A merge never compares where it may misread: it either drops the narrow
\* architectures, or does without wide conditions.
LEMMA MergedWidths ==
  ASSUME NEW left, NEW right, NEW shared, NEW misread, NEW drops, NEW A,
         misread = /\ CoversAny(shared, NarrowArchitectures)
                   /\ LoadsWideValue(left) \/ LoadsWideValue(right),
         drops = (misread /\ Intersecting /\ native \notin NarrowArchitectures),
         A = IF drops THEN shared \ NarrowArchitectures ELSE shared
  PROVE  \/ misread /\ ~drops
         \/ ~LoadsWideValue(left) /\ ~LoadsWideValue(right)
         \/ (A \cup ({native} \ {NoArch})) \cap NarrowArchitectures = {}
<1>1. CASE drops
  <2>1. native \notin NarrowArchitectures /\ A = shared \ NarrowArchitectures
    BY <1>1
  <2> QED
    BY <2>1
<1>2. CASE ~drops /\ ~misread
  <2>1. A = shared
    BY <1>2
  <2>2. CASE ~CoversAny(shared, NarrowArchitectures)
    BY <2>1, <2>2 DEF CoversAny
  <2>3. CASE CoversAny(shared, NarrowArchitectures)
    BY <1>2, <2>3
  <2> QED
    BY <2>2, <2>3
<1> QED
  BY <1>1, <1>2

LEMMA MergeTwoSafe ==
  ASSUME NEW left, NEW right, ProfileOK(left), ProfileOK(right)
  PROVE  /\ Built(MergeTwo(left, right))
         /\ OnItsSide(MergeTwo(left, right), left) /\ OnItsSide(MergeTwo(left, right), right)
<1> DEFINE d == PickClause(Default(left), Default(right))
           listener == ListenerOf(left, right)
           shared == IF Intersecting THEN left.architectures \cap right.architectures
                     ELSE left.architectures \cup right.architectures
           misread == /\ CoversAny(shared, NarrowArchitectures)
                      /\ LoadsWideValue(left) \/ LoadsWideValue(right)
           drops == misread /\ Intersecting /\ native \notin NarrowArchitectures
           A == IF drops THEN shared \ NarrowArchitectures ELSE shared
           flag == misread /\ ~drops
           inputs == <<left, right>>
           p == [default |-> d.action, errno |-> OutputErrno(d.action, d.errno),
                 path |-> listener.path, metadata |-> listener.metadata,
                 flags |-> MergeFlags(left.flags, right.flags, Intersecting, listener = left),
                 architectures |-> A,
                 entries |-> MergeProfileSyscalls(Side(left.entries, Default(left)),
                               Side(right.entries, Default(right)), d, flag)]
           q == SettleArchitectures(p, inputs)
<1>1. MergeTwo(left, right) = q
  BY DEF MergeTwo, Side
<1>2. DOMAIN inputs = 1..2 /\ \A i \in 1..2 : ProfileOK(inputs[i])
  OBVIOUS
<1>3. /\ p.default = d.action /\ p.errno = OutputErrno(d.action, d.errno)
      /\ p.architectures = A
      /\ p.entries = MergeProfileSyscalls(Side(left.entries, Default(left)),
                       Side(right.entries, Default(right)), d, flag)
  OBVIOUS
<1> HIDE DEF p, inputs, q
<1>4. /\ flag \in BOOLEAN
      /\ flag \/ (~LoadsWideValue(left) /\ ~LoadsWideValue(right))
           \/ Covered(p) \cap NarrowArchitectures = {}
  <2>1. \/ misread /\ ~drops
        \/ ~LoadsWideValue(left) /\ ~LoadsWideValue(right)
        \/ (A \cup ({native} \ {NoArch})) \cap NarrowArchitectures = {}
    <3> HIDE DEF shared
    <3> QED
      BY MergedWidths, Zenon
  <2> HIDE DEF A, misread, drops
  <2> QED
    BY <1>3, <2>1 DEF Covered
<1>5. /\ Intersecting => A \subseteq left.architectures /\ A \subseteq right.architectures
      /\ ~Intersecting => left.architectures \subseteq A /\ right.architectures \subseteq A
  OBVIOUS
<1> HIDE DEF A, flag
<1>6. /\ Built(p)
      /\ \A narrow \in BOOLEAN :
           flag \/ ~narrow \/ (~LoadsWideValue(left) /\ ~LoadsWideValue(right)) =>
             Beneath(p, left, narrow) /\ Beneath(p, right, narrow)
  BY <1>3, <1>4, MergeBuilt
<1>7. /\ ComparedOf(p, left) \subseteq Covered(p) \cap Covered(left)
      /\ ComparedOf(p, right) \subseteq Covered(p) \cap Covered(right)
  BY <1>3, <1>5 DEF ComparedOf, Covered
<1>8. ASSUME NEW set, set \subseteq Covered(p), NEW narrow \in Widths(set)
      PROVE  Beneath(p, left, narrow) /\ Beneath(p, right, narrow)
  <2>1. narrow \in BOOLEAN /\ (narrow => set \cap NarrowArchitectures # {})
    BY WidthsAre
  <2>2. flag \/ ~narrow \/ (~LoadsWideValue(left) /\ ~LoadsWideValue(right))
    BY <1>4, <1>8, <2>1
  <2> QED
    BY <1>6, <2>1, <2>2
<1>9. OnItsSide(p, left) /\ OnItsSide(p, right)
  BY <1>7, <1>8 DEF OnItsSide
<1>10. Built(q) /\ OnItsSide(q, p)
  BY <1>2, <1>6, ArchitecturesSettled DEF q
<1>11. OnItsSide(q, left) /\ OnItsSide(q, right)
  BY <1>6, <1>9, <1>10, SideOfSide DEF Built
<1> QED
  BY <1>1, <1>10, <1>11

-----------------------------------------------------------------------------
(* Regrouping the entries of a result *)

\* The first entry of every rule.
FirstEntries(entries) ==
  {i \in DOMAIN entries : \A j \in 1..(i - 1) : ~SameRule(entries[j], entries[i])}

\* The names of the entries with its rule.
NamesOfRule(entries, entry) ==
  UNION {other.names : other \in {e \in ToSet(entries) : SameRule(e, entry)}}

Grouped(entries, entry) == [entry EXCEPT !.names = NamesOfRule(entries, entry)]

LEMMA NamesGrouped ==
  ASSUME NEW entries \in Seq(Entry), NEW entry \in Entry
  PROVE  LET g == Grouped(entries, entry) IN
         /\ g \in Entry /\ g.names = NamesOfRule(entries, entry)
         /\ g.action = entry.action /\ g.errno = entry.errno /\ g.args = entry.args
<1> DEFINE names == NamesOfRule(entries, entry)
<1>1. /\ entry = [names |-> entry.names, action |-> entry.action, errno |-> entry.errno,
                  args |-> entry.args]
      /\ entry.action \in Action /\ entry.errno \in Int /\ entry.args \in Seq(Arg)
  BY DEF Entry
<1>2. names \in SUBSET Name
  <2>1. \A e \in ToSet(entries) : e \in Entry
    BY SeqIs
  <2>2. \A e \in Entry : e.names \in SUBSET Name
    BY DEF Entry
  <2> QED
    BY <2>1, <2>2 DEF NamesOfRule
<1> HIDE DEF names
<1>3. Grouped(entries, entry) = [names |-> names, action |-> entry.action,
                                 errno |-> entry.errno, args |-> entry.args]
  <2> SUFFICES ASSUME NEW g, g = [entry EXCEPT !.names = names]
               PROVE  g = [names |-> names, action |-> entry.action, errno |-> entry.errno,
                           args |-> entry.args]
    BY DEF Grouped, names
  <2> QED
    BY <1>1
<1>4. Grouped(entries, entry) \in Entry
  BY <1>1, <1>2, <1>3 DEF Entry
<1> QED
  BY <1>3, <1>4 DEF names

LEMMA SameRuleLoads ==
  ASSUME NEW a, NEW b, SameRule(a, b)
  PROVE  /\ EntryClauses(a) = EntryClauses(b)
         /\ \A default : Skipped(a, default) <=> Skipped(b, default)
<1>1. a.action = b.action /\ a.errno = b.errno /\ a.args = b.args
  BY DEF SameRule
<1> QED
  BY <1>1 DEF EntryClauses, Skipped

\* Every rule has a first entry.
LEMMA FirstOfRule ==
  ASSUME NEW entries \in Seq(Entry), NEW e \in ToSet(entries)
  PROVE  \E i \in FirstEntries(entries) : SameRule(entries[i], e)
<1> DEFINE T == {i \in DOMAIN entries : SameRule(entries[i], e)}
<1>1. Len(entries) \in Nat /\ DOMAIN entries = 1..Len(entries)
  BY SeqIs
<1>2. T \in SUBSET Nat /\ T # {}
  <2>1. PICK i \in DOMAIN entries : entries[i] = e
    BY SeqIs
  <2>2. i \in T
    BY <2>1 DEF SameRule
  <2> QED
    BY <1>1, <2>2
<1>3. PICK i \in T : \A j \in T : i <= j
  <2> HIDE DEF T
  <2> QED
    BY <1>2, LeastNatural
<1>4. i \in 1..Len(entries) /\ SameRule(entries[i], e)
  BY <1>1
<1>5. ASSUME NEW j \in 1..(i - 1), SameRule(entries[j], entries[i]) PROVE FALSE
  <2>1. j \in 1..Len(entries) /\ ~(i <= j)
    BY <1>1, <1>4
  <2>2. SameRule(entries[j], e)
    BY <1>4, <1>5 DEF SameRule
  <2>3. j \in T
    BY <1>1, <2>1, <2>2
  <2> HIDE DEF T
  <2> QED
    BY <1>3, <2>1, <2>3
<1> QED
  BY <1>1, <1>4, <1>5 DEF FirstEntries

LEMMA RegroupedAre ==
  ASSUME NEW entries \in Seq(Entry)
  PROVE  /\ Regrouped(entries) \in Seq(Entry)
         /\ \A e : e \in ToSet(Regrouped(entries)) <=>
              \E i \in FirstEntries(entries) : e = Grouped(entries, entries[i])
<1> DEFINE firsts == Keep(entries, FirstEntries(entries))
           grouped == [i \in DOMAIN firsts |-> Grouped(entries, firsts[i])]
           first(entry) == Min({i \in DOMAIN Names : Names[i] \in entry.names})
           key == [i \in DOMAIN grouped |-> ArgsKey(ToSet(grouped[i].args))]
           place == [i \in DOMAIN grouped |-> first(grouped[i])]
           before == [i \in DOMAIN grouped |-> {j \in DOMAIN grouped \ {i} :
                        \/ place[j] < place[i]
                        \/ place[j] = place[i] /\ (key[j] < key[i] \/ (key[j] = key[i] /\ j < i))}]
<1>1. Regrouped(entries) = Arranged(grouped, before)
  BY DEF Regrouped, FirstEntries, Grouped, NamesOfRule
<1>2. /\ firsts \in Seq(Entry)
      /\ ToSet(firsts) = {entries[i] : i \in {j \in DOMAIN entries : j \in FirstEntries(entries)}}
  BY KeepIs
<1>3. \A e : e \in ToSet(firsts) <=> \E i \in FirstEntries(entries) : e = entries[i]
  BY <1>2 DEF FirstEntries
<1> HIDE DEF firsts
<1>4. /\ Len(firsts) \in Nat /\ DOMAIN firsts = 1..Len(firsts)
      /\ \A i \in 1..Len(firsts) : firsts[i] \in Entry /\ firsts[i] \in ToSet(firsts)
      /\ \A e \in ToSet(firsts) : \E i \in 1..Len(firsts) : firsts[i] = e
  <2>1. firsts \in Seq(Entry)
    BY <1>2
  <2>2. Len(firsts) \in Nat /\ DOMAIN firsts = 1..Len(firsts)
    BY <2>1, SeqIs
  <2>3. \A i \in DOMAIN firsts : firsts[i] \in Entry /\ firsts[i] \in ToSet(firsts)
    BY <2>1, SeqIs
  <2>4. \A e \in ToSet(firsts) : \E i \in DOMAIN firsts : firsts[i] = e
    BY <2>1, SeqIs
  <2> QED
    BY <2>2, <2>3, <2>4
<1>5. \A i \in 1..Len(firsts) : Grouped(entries, firsts[i]) \in Entry
  BY <1>4, NamesGrouped
<1>6. grouped \in Seq(Entry) /\ DOMAIN grouped = 1..Len(firsts)
  BY <1>4, <1>5
<1>7. \A e : e \in ToSet(grouped) <=> \E f \in ToSet(firsts) : e = Grouped(entries, f)
  BY <1>4, <1>6 DEF ToSet
<1>8. \A i \in DOMAIN grouped : before[i] \in SUBSET ((DOMAIN grouped) \ {i})
  <2> HIDE DEF grouped, key, place
  <2> QED
    OBVIOUS
<1> HIDE DEF grouped, before
<1>9. Arranged(grouped, before) \in Seq(Entry)
      /\ ToSet(Arranged(grouped, before)) = ToSet(grouped)
  BY <1>6, <1>8, ArrangedIs
<1> QED
  BY <1>1, <1>3, <1>7, <1>9

\* A runtime loads the same clauses for every name.
LEMMA RegroupedLoads ==
  ASSUME NEW entries \in Seq(Entry), NEW default, NEW name
  PROVE  ToSet(LoadedClauses(Regrouped(entries), default, name))
           = ToSet(LoadedClauses(entries, default, name))
<1> DEFINE R == Regrouped(entries)
<1>1. /\ R \in Seq(Entry)
      /\ \A e : e \in ToSet(R) <=>
           \E i \in FirstEntries(entries) : e = Grouped(entries, entries[i])
  BY RegroupedAre
<1> HIDE DEF R
<1>2. ASSUME NEW c
      PROVE  c \in ToSet(LoadedClauses(R, default, name)) <=>
               \E e \in ToSet(R) : name \in e.names /\ ~Skipped(e, default) /\ c \in ToSet(EntryClauses(e))
  BY <1>1, LoadedOf
<1>3. ASSUME NEW c
      PROVE  c \in ToSet(LoadedClauses(entries, default, name)) <=>
               \E e \in ToSet(entries) : /\ name \in e.names /\ ~Skipped(e, default)
                                         /\ c \in ToSet(EntryClauses(e))
  BY LoadedOf
<1>4. \A i \in FirstEntries(entries) : entries[i] \in Entry
  BY SeqIs DEF FirstEntries
<1>5. ASSUME NEW i \in FirstEntries(entries)
      PROVE  LET g == Grouped(entries, entries[i]) IN
             /\ SameRule(g, entries[i])
             /\ name \in g.names <=> \E e \in ToSet(entries) : SameRule(e, entries[i]) /\ name \in e.names
  BY <1>4, NamesGrouped DEF SameRule, NamesOfRule
<1>6. ASSUME NEW c, NEW g \in ToSet(R), name \in g.names, ~Skipped(g, default),
             c \in ToSet(EntryClauses(g))
      PROVE  \E e \in ToSet(entries) : /\ name \in e.names /\ ~Skipped(e, default)
                                       /\ c \in ToSet(EntryClauses(e))
  <2>1. PICK i \in FirstEntries(entries) : g = Grouped(entries, entries[i])
    BY <1>1
  <2>2. SameRule(g, entries[i])
    BY <1>5, <2>1
  <2>3. PICK e \in ToSet(entries) : SameRule(e, entries[i]) /\ name \in e.names
    BY <1>5, <1>6, <2>1
  <2>4. SameRule(e, g)
    BY <2>2, <2>3 DEF SameRule
  <2> QED
    BY <1>6, <2>3, <2>4, SameRuleLoads
<1>7. ASSUME NEW c, NEW e \in ToSet(entries), name \in e.names, ~Skipped(e, default),
             c \in ToSet(EntryClauses(e))
      PROVE  \E g \in ToSet(R) : /\ name \in g.names /\ ~Skipped(g, default)
                                 /\ c \in ToSet(EntryClauses(g))
  <2>1. PICK i \in FirstEntries(entries) : SameRule(entries[i], e)
    BY FirstOfRule
  <2> DEFINE g == Grouped(entries, entries[i])
  <2>2. g \in ToSet(R) /\ SameRule(g, entries[i])
    BY <1>1, <1>5
  <2>3. SameRule(e, entries[i]) /\ SameRule(g, e)
    BY <2>1, <2>2 DEF SameRule
  <2>4. name \in g.names
    BY <1>5, <1>7, <2>3
  <2> HIDE DEF g
  <2>5. EntryClauses(g) = EntryClauses(e) /\ (Skipped(g, default) <=> Skipped(e, default))
    BY <2>3, SameRuleLoads
  <2> QED
    BY <1>7, <2>2, <2>4, <2>5
<1>8. ASSUME NEW c
      PROVE  c \in ToSet(LoadedClauses(R, default, name)) <=>
               c \in ToSet(LoadedClauses(entries, default, name))
  BY <1>2, <1>3, <1>6, <1>7
<1> QED
  BY <1>8 DEF R

-----------------------------------------------------------------------------
(* A whole call *)

\* A profile whose rules the kernel compiles as they are written.
Finished(profile) ==
  ProfileOK(profile) /\ \A name \in Name : Exact(ToSet(Loads(profile, name)))

LEMMA RegroupSafe ==
  ASSUME NEW profile, Finished(profile), NEW flags
  PROVE  LET q == Rebuilt(profile, profile.architectures, Regrouped(profile.entries), flags)
         IN Finished(q) /\ OnItsSide(q, profile)
<1> DEFINE q == Rebuilt(profile, profile.architectures, Regrouped(profile.entries), flags)
<1>1. /\ q.default = profile.default /\ q.errno = profile.errno
      /\ q.architectures = profile.architectures /\ q.entries = Regrouped(profile.entries)
  BY DEF Rebuilt
<1> HIDE DEF q
<1>2. Default(q) = Default(profile)
  BY <1>1 DEF Default
<1>3. ProfileOK(q) /\ ProfileOK(profile)
  BY <1>1, RegroupedAre DEF Finished, ProfileOK
<1>4. \A name : ToSet(Loads(q, name)) = ToSet(Loads(profile, name))
  BY <1>1, <1>2, <1>3, RegroupedLoads DEF Loads, ProfileOK
<1>5. Finished(q)
  BY <1>3, <1>4 DEF Finished
<1>6. \A narrow \in BOOLEAN : Beneath(q, profile, narrow)
  BY <1>2, <1>3, <1>4, BeneathItself DEF Finished
<1>7. ComparedOf(q, profile) \subseteq Covered(q) \cap Covered(profile)
  BY <1>1 DEF ComparedOf, Covered
<1> QED
  BY <1>5, <1>6, <1>7, WidthsAre DEF OnItsSide, q

\* The inductive invariant of the fold.
PassedOK ==
  pc = "validate" \/ folded > 0 =>
    \A i \in 1..Len(passed) :
      ProfileOK(passed[i]) /\ passed[i].architectures \subseteq Architectures

ResultOK ==
  folded > 0 => /\ Finished(result)
                /\ pc # "done" => OneNamed(result.entries)

OnEverySide == \A i \in 1..folded : OnItsSide(result, passed[i])

SidesInv == PassedOK /\ ResultOK /\ OnEverySide

\* Whether a result is on the safe side of a profile depends on the strategy
\* and the native architecture, which no step changes once they are chosen.
LEMMA SameSides ==
  ASSUME strategy' = strategy, native' = native, passed' = passed,
         NEW CONSTANT p, result' = p, NEW CONSTANT n, folded' = n,
         \A i \in 1..n : OnItsSide(p, passed[i])
  PROVE  OnEverySide'
  BY DEF OnEverySide, OnItsSide, ComparedOf, Covered, Beneath, AllOnSide, OnSide, Intersecting

LEMMA SidesMoved ==
  ASSUME UNCHANGED <<strategy, native, passed>>, NEW CONSTANT p, result' = p, Finished(p),
         pc' # "done" => OneNamed(p.entries), PassedOK', NEW CONSTANT n, folded' = n,
         \A i \in 1..n : OnItsSide(p, passed[i])
  PROVE  SidesInv'
<1>1. strategy' = strategy /\ native' = native /\ passed' = passed
  OBVIOUS
<1>2. OnEverySide'
  BY <1>1, SameSides
<1>3. ResultOK'
  BY DEF ResultOK
<1> QED
  BY <1>2, <1>3 DEF SidesInv

LEMMA SidesKept ==
  ASSUME SidesInv, UNCHANGED <<strategy, native, passed, folded, result>>,
         folded > 0 => pc # "validate" /\ (pc = "done" => pc' = "done"), pc # "validate" => pc' # "validate"
  PROVE  SidesInv'
<1>1. OnEverySide'
  <2>1. /\ strategy' = strategy /\ native' = native /\ passed' = passed
        /\ folded' = folded /\ result' = result
    OBVIOUS
  <2>2. PICK p, n : p = result /\ n = folded
    OBVIOUS
  <2>3. result' = p /\ folded' = n /\ \A i \in 1..n : OnItsSide(p, passed[i])
    BY <2>1, <2>2 DEF SidesInv, OnEverySide
  <2> QED
    BY <2>1, <2>3, SameSides
<1>2. ResultOK'
  BY DEF SidesInv, ResultOK
<1>3. PassedOK'
  BY DEF SidesInv, PassedOK
<1> QED
  BY <1>1, <1>2, <1>3 DEF SidesInv

LEMMA InitSides == Init => SidesInv
<1> SUFFICES ASSUME Init PROVE SidesInv
  OBVIOUS
<1>1. folded = 0 /\ passed = <<>>
  BY DEF Init
<1>2. Len(passed) = 0
  BY <1>1
<1> QED
  BY <1>1, <1>2 DEF SidesInv, PassedOK, ResultOK, OnEverySide

LEMMA ValidateSides ==
  ASSUME FieldsInv, SidesInv, NEW profile \in Profiles[arity], ValidateNext(profile)
  PROVE  SidesInv'
<1>1. /\ folded = 0 /\ folded' = 0 /\ passed \in Seq(Profiles[arity]) /\ arity \in Arities
      /\ passed' = Append(passed, profile) /\ pc = "validate"
      /\ pc' = "validate" => ValidProfile(profile)
  BY DEF ValidateNext, FieldsInv, CountsOK
<1>2. ASSUME pc' = "validate"
      PROVE  ProfileOK(profile) /\ profile.architectures \subseteq Architectures
  <2>1. profile # Nil
    BY <1>1, <1>2 DEF ValidProfile
  <2> QED
    BY <1>1, <2>1, PassedAre DEF ProfileOK
<1>3. ASSUME pc' = "validate", NEW i \in 1..Len(passed')
      PROVE  ProfileOK(passed'[i]) /\ passed'[i].architectures \subseteq Architectures
  <2>1. CASE i = Len(passed) + 1
    <3>1. passed'[i] = profile
      BY <1>1, <2>1
    <3> QED
      BY <1>2, <1>3, <3>1
  <2>2. CASE i # Len(passed) + 1
    <3>1. i \in 1..Len(passed) /\ passed'[i] = passed[i]
      BY <1>1, <1>3, <2>2
    <3> QED
      BY <1>1, <3>1 DEF SidesInv, PassedOK
  <2> QED
    BY <2>1, <2>2
<1>4. PassedOK'
  BY <1>1, <1>3 DEF PassedOK
<1> QED
  BY <1>1, <1>4 DEF SidesInv, ResultOK, OnEverySide

LEMMA NormalizeSides ==
  ASSUME FieldsInv, SidesInv, NormalizeOnly
  PROVE  SidesInv'
<1>1. /\ Len(passed) = 1 /\ pc = "validate" /\ pc' = "listener" /\ folded' = 1
      /\ UNCHANGED <<strategy, native, passed>> /\ result' = Normalized(passed[1])
  BY DEF NormalizeOnly
<1>2. PICK p : p = Normalized(passed[1])
  OBVIOUS
<1>3. ProfileOK(passed[1])
  BY <1>1 DEF SidesInv, PassedOK
<1>4. Built(p) /\ OnItsSide(p, passed[1])
  BY <1>2, <1>3, NormalizedSafe
<1>5. Finished(p) /\ OneNamed(p.entries)
  BY <1>4 DEF Built, Finished
<1>6. \A i \in 1..1 : OnItsSide(p, passed[i])
  BY <1>4
<1>7. PassedOK'
  BY <1>1 DEF SidesInv, PassedOK
<1> QED
  BY <1>1, <1>2, <1>5, <1>6, <1>7, SidesMoved

LEMMA FirstTwoSides ==
  ASSUME FieldsInv, SidesInv, FoldFirstTwo
  PROVE  SidesInv'
<1>1. /\ Len(passed) \in Nat /\ Len(passed) > 1 /\ pc = "validate" /\ pc' = "fold" /\ folded' = 2
      /\ UNCHANGED <<strategy, native, passed>> /\ result' = MergeTwo(passed[1], passed[2])
  BY DEF FoldFirstTwo, FieldsInv, CountsOK
<1>2. PICK p : p = MergeTwo(passed[1], passed[2])
  OBVIOUS
<1>3. ProfileOK(passed[1]) /\ ProfileOK(passed[2])
  <2>1. 1 \in 1..Len(passed) /\ 2 \in 1..Len(passed)
    BY <1>1
  <2> QED
    BY <1>1, <2>1 DEF SidesInv, PassedOK
<1>4. Built(p) /\ OnItsSide(p, passed[1]) /\ OnItsSide(p, passed[2])
  BY <1>2, <1>3, MergeTwoSafe
<1>5. Finished(p) /\ OneNamed(p.entries)
  BY <1>4 DEF Built, Finished
<1>6. \A i \in 1..2 : OnItsSide(p, passed[i])
  <2>1. \A i \in 1..2 : i = 1 \/ i = 2
    OBVIOUS
  <2> QED
    BY <1>4, <2>1
<1>7. PassedOK'
  BY <1>1 DEF SidesInv, PassedOK
<1> QED
  BY <1>1, <1>2, <1>5, <1>6, <1>7, SidesMoved

LEMMA NextSides ==
  ASSUME FieldsInv, SidesInv, FoldNext
  PROVE  SidesInv'
<1>1. /\ Len(passed) = arity /\ arity \in Nat /\ folded \in 1..arity /\ folded < arity
      /\ pc = "fold" /\ pc' = "fold" /\ folded' = folded + 1
      /\ UNCHANGED <<strategy, native, passed>>
      /\ result' = MergeTwo(result, passed[folded + 1])
  BY DEF FoldNext, FieldsInv, CountsOK
<1>2. PICK p : p = MergeTwo(result, passed[folded + 1])
  OBVIOUS
<1>3. /\ ProfileOK(passed[folded + 1]) /\ ProfileOK(result)
      /\ \A i \in 1..folded : ProfileOK(passed[i])
  <2>1. folded + 1 \in 1..Len(passed) /\ \A i \in 1..folded : i \in 1..Len(passed)
    BY <1>1
  <2> QED
    BY <1>1, <2>1 DEF SidesInv, PassedOK, ResultOK, Finished
<1>4. Built(p) /\ OnItsSide(p, result) /\ OnItsSide(p, passed[folded + 1])
  BY <1>2, <1>3, MergeTwoSafe
<1>5. Finished(p) /\ OneNamed(p.entries) /\ ProfileOK(p)
  BY <1>4 DEF Built, Finished
<1>6. ASSUME NEW i \in 1..folded PROVE OnItsSide(p, passed[i])
  <2>1. OnItsSide(result, passed[i])
    BY DEF SidesInv, OnEverySide
  <2> QED
    BY <1>3, <1>4, <1>5, <2>1, SideOfSide
<1>7. PICK n : n = folded + 1
  OBVIOUS
<1>8. \A i \in 1..n : OnItsSide(p, passed[i])
  <2>1. \A i \in 1..n : i \in 1..folded \/ i = folded + 1
    BY <1>1, <1>7
  <2> QED
    BY <1>4, <1>6, <2>1
<1>9. PassedOK' /\ folded' = n /\ result' = p
  BY <1>1, <1>2, <1>7 DEF SidesInv, PassedOK
<1> QED
  BY <1>1, <1>5, <1>8, <1>9, SidesMoved

LEMMA RegroupSides ==
  ASSUME FieldsInv, SidesInv, Regroup
  PROVE  SidesInv'
<1>1. /\ folded \in 1..arity /\ arity \in Nat /\ Len(passed) = arity
      /\ pc = "regroup" /\ pc' = "done" /\ folded' = folded
      /\ UNCHANGED <<strategy, native, passed>>
      /\ result' = Rebuilt(result, result.architectures, Regrouped(result.entries),
                           FlagsForListener(result.flags, result.path))
  BY DEF Regroup, FieldsInv, CountsOK
<1>2. PICK p : p = Rebuilt(result, result.architectures, Regrouped(result.entries),
                           FlagsForListener(result.flags, result.path))
  OBVIOUS
<1>3. Finished(result) /\ ProfileOK(result) /\ \A i \in 1..folded : ProfileOK(passed[i])
  BY <1>1 DEF SidesInv, PassedOK, ResultOK, Finished
<1>4. Finished(p) /\ OnItsSide(p, result) /\ ProfileOK(p)
  <2>1. Finished(p) /\ OnItsSide(p, result)
    BY <1>2, <1>3, RegroupSafe
  <2> QED
    BY <2>1 DEF Finished
<1>5. ASSUME NEW i \in 1..folded PROVE OnItsSide(p, passed[i])
  <2>1. OnItsSide(result, passed[i])
    BY DEF SidesInv, OnEverySide
  <2> QED
    BY <1>3, <1>4, <2>1, SideOfSide
<1>6. PICK n : n = folded
  OBVIOUS
<1>7. PassedOK' /\ folded' = n /\ result' = p /\ pc' = "done"
  BY <1>1, <1>2, <1>6 DEF SidesInv, PassedOK
<1>8. \A i \in 1..n : OnItsSide(p, passed[i])
  BY <1>5, <1>6
<1> QED
  BY <1>1, <1>4, <1>7, <1>8, SidesMoved

LEMMA StepSides ==
  ASSUME FieldsInv, SidesInv, Next \/ UNCHANGED vars
  PROVE  SidesInv'
<1>1. ASSUME NEW profile \in Profiles[arity], ValidateNext(profile) PROVE SidesInv'
  BY <1>1, ValidateSides
<1>2. CASE RejectEmptyCall
  <2>1. /\ UNCHANGED <<strategy, native, passed, folded, result>>
        /\ pc = "validate" /\ pc' = "failed" /\ folded = 0
    BY <1>2 DEF RejectEmptyCall, FieldsInv, CountsOK
  <2> QED
    BY <2>1, SidesKept
<1>3. CASE NormalizeOnly
  BY <1>3, NormalizeSides
<1>4. CASE FoldFirstTwo
  BY <1>4, FirstTwoSides
<1>5. CASE FoldNext
  BY <1>5, NextSides
<1>6. CASE Folded
  BY <1>6, SidesKept DEF Folded, FieldsInv, CountsOK
<1>7. CASE ResolveListener
  BY <1>7, SidesKept DEF ResolveListener, FieldsInv, CountsOK
<1>8. CASE Regroup
  BY <1>8, RegroupSides
<1>9. CASE UNCHANGED vars
  BY <1>9, SidesKept DEF vars, FieldsInv, CountsOK
<1>10. CASE Returned
  BY <1>9, <1>10 DEF Returned
<1> QED
  BY <1>1, <1>2, <1>3, <1>4, <1>5, <1>6, <1>7, <1>8, <1>9, <1>10 DEF Next

LEMMA Sides == Spec => []SidesInv
<1>1. FieldsInv /\ SidesInv /\ [Next]_vars => SidesInv'
  BY StepSides
<1> QED
  BY <1>1, InitSides, Fields, PTL DEF Spec

LEMMA SidesAreSafe == CountsOK /\ SidesInv => DirectCallsOnTheSafeSide
<1> SUFFICES ASSUME CountsOK, SidesInv, NEW i \in 1..folded
             PROVE  /\ Compared(passed[i]) \subseteq Covered(result) \cap Covered(passed[i])
                    /\ \A narrow \in Widths(Compared(passed[i])) :
                         SafeOnDirectPath(passed[i], narrow)
  BY DEF DirectCallsOnTheSafeSide
<1>1. OnItsSide(result, passed[i]) /\ Compared(passed[i]) = ComparedOf(result, passed[i])
  BY DEF SidesInv, OnEverySide, Compared, ComparedOf
<1>2. ASSUME NEW narrow \in Widths(Compared(passed[i])) PROVE SafeOnDirectPath(passed[i], narrow)
  <2>1. Beneath(result, passed[i], narrow)
    BY <1>1 DEF OnItsSide
  <2>2. SUFFICES ASSUME NEW name \in Name, NEW call \in Calls(narrow)
                 PROVE  OnSafeSide(
                   DirectResults(Loaded(result), Default(result), name, narrow, call),
                   DirectResults(Loaded(passed[i]), Default(passed[i]), name, narrow, call))
    BY DEF SafeOnDirectPath
  <2>3. \A profile : DirectResults(Loaded(profile), Default(profile), name, narrow, call)
                       = Decides(profile, name, narrow, call)
    BY DEF DirectResults, Loaded, Decides, Direct, Loads
  <2>4. AllOnSide(Decides(result, name, narrow, call), Decides(passed[i], name, narrow, call))
    BY <2>1 DEF Beneath
  <2> QED
    BY <2>3, <2>4 DEF AllOnSide, OnSide, OnSafeSide
<1> QED
  BY <1>1, <1>2 DEF OnItsSide

\* At every step of the fold a call that is made directly gets no more from an
\* intersection than from each of the profiles folded so far, and no less from
\* a union, on every architecture they share: for any number of profiles, with
\* any rules, whatever the budgets and the multiplexers are (foldProfiles,
\* mergeTwo, mergeProfileSyscalls, settleMultiplexed, regroupSyscalls).
THEOREM DirectCallsAreSafe == Spec => []DirectCallsOnTheSafeSide
<1>1. FieldsInv => CountsOK
  BY DEF FieldsInv
<1> QED
  BY <1>1, Fields, Sides, SidesAreSafe, PTL

-----------------------------------------------------------------------------
(* Sequences without two elements that exclude each other *)

\* R maps an element to those that may not come beside it.
Separate(s, R) == \A i, j \in DOMAIN s : i # j => s[j] \notin R[s[i]]

LEMMA ShortSeparate ==
  ASSUME NEW V, NEW R
  PROVE  /\ <<>> \in Seq(V) /\ Separate(<<>>, R)
         /\ \A x \in V : <<x>> \in Seq(V) /\ Separate(<<x>>, R)
<1>1. DOMAIN <<>> = {} /\ \A x : DOMAIN <<x>> = {1}
  OBVIOUS
<1> QED
  BY <1>1 DEF Separate

LEMMA ConcatSeparate ==
  ASSUME NEW V, NEW R, NEW s \in Seq(V), NEW t \in Seq(V), Separate(s, R), Separate(t, R),
         \A a \in ToSet(s) : \A b \in ToSet(t) : a \notin R[b] /\ b \notin R[a]
  PROVE  Separate(s \o t, R)
<1>1. /\ DOMAIN s = 1..Len(s) /\ DOMAIN t = 1..Len(t) /\ Len(s) \in Nat /\ Len(t) \in Nat
      /\ DOMAIN (s \o t) = 1..(Len(s) + Len(t))
  OBVIOUS
<1>2. /\ \A i \in 1..Len(s) : (s \o t)[i] = s[i] /\ s[i] \in ToSet(s)
      /\ \A i \in 1..Len(t) : (s \o t)[Len(s) + i] = t[i] /\ t[i] \in ToSet(t)
  BY <1>1, SeqIs
<1>3. \A i \in DOMAIN (s \o t) : i \in 1..Len(s) \/ \E j \in 1..Len(t) : i = Len(s) + j
  <2>1. TAKE i \in DOMAIN (s \o t)
  <2>2. i > Len(s) => i - Len(s) \in 1..Len(t) /\ i = Len(s) + (i - Len(s))
    BY <1>1
  <2> QED
    BY <1>1, <2>2
<1> DEFINE u == s \o t
           n == Len(s)
           m == Len(t)
<1>4. /\ \A i \in 1..n : u[i] = s[i] /\ s[i] \in ToSet(s)
      /\ \A i \in 1..m : u[n + i] = t[i] /\ t[i] \in ToSet(t)
      /\ \A i \in DOMAIN u : i \in 1..n \/ \E j \in 1..m : i = n + j
  BY <1>2, <1>3
<1>5. DOMAIN s = 1..n /\ DOMAIN t = 1..m /\ n \in Nat /\ m \in Nat
  BY <1>1
<1> HIDE DEF u, n, m
<1>6. SUFFICES ASSUME NEW i \in DOMAIN u, NEW j \in DOMAIN u, i # j
               PROVE  u[j] \notin R[u[i]]
  BY DEF Separate, u
<1>7. CASE i \in 1..n /\ j \in 1..n
  BY <1>4, <1>5, <1>6, <1>7 DEF Separate
<1>8. CASE i \in 1..n /\ \E k \in 1..m : j = n + k
  BY <1>4, <1>8
<1>9. CASE (\E k \in 1..m : i = n + k) /\ j \in 1..n
  BY <1>4, <1>9
<1>10. CASE (\E k \in 1..m : i = n + k) /\ \E k \in 1..m : j = n + k
  <2>1. PICK k \in 1..m, l \in 1..m : i = n + k /\ j = n + l
    BY <1>10
  <2>2. k # l
    BY <1>6, <2>1
  <2>3. u[i] = t[k] /\ u[j] = t[l] /\ t[l] \notin R[t[k]]
    BY <1>4, <1>5, <2>1, <2>2 DEF Separate
  <2> QED
    BY <2>3
<1> QED
  BY <1>4, <1>7, <1>8, <1>9, <1>10

LEMMA FlattenedPrefix ==
  ASSUME NEW V, NEW k, k \in Nat, NEW lists, lists \in [1..k -> Seq(V)]
  PROVE  /\ FlattenSeq(lists) \in Seq(V)
         /\ ToSet(FlattenSeq(lists)) = UNION {ToSet(lists[i]) : i \in 1..k}
  BY FlattenedElements

LEMMA FlattenSeparate ==
  ASSUME NEW V, NEW R, NEW n \in Nat, NEW lists \in [1..n -> Seq(V)],
         \A i \in 1..n : Separate(lists[i], R),
         \A i, j \in 1..n : i # j =>
           \A a \in ToSet(lists[i]) : \A b \in ToSet(lists[j]) : b \notin R[a]
  PROVE  Separate(FlattenSeq(lists), R)
<1> DEFINE L(k) == [i \in 1..k |-> lists[i]]
           Holds(k) == Separate(FlattenSeq(L(k)), R)
           Bad == {k \in 0..n : ~Holds(k)}
<1>1. Holds(0)
  <2>1. L(0) = <<>>
    OBVIOUS
  <2>2. FlattenSeq(<<>>) = <<>>
    BY DEF FlattenSeq
  <2>3. Separate(<<>>, R)
    BY ShortSeparate
  <2> HIDE DEF L
  <2> QED
    BY <2>1, <2>2, <2>3
<1>2. ASSUME NEW k \in 0..n, k + 1 \in 0..n, Holds(k)
      PROVE  Holds(k + 1)
  <2>1. k \in Nat /\ k + 1 \in 1..n /\ k + 1 \in Nat
    BY <1>2
  <2>2. L(k) \in [1..k -> Seq(V)] /\ L(k + 1) \in [1..(k + 1) -> Seq(V)]
    BY <1>2
  <2>3. /\ [i \in 1..k |-> L(k + 1)[i]] = L(k)
        /\ L(k + 1)[k + 1] = lists[k + 1]
        /\ \A i \in 1..k : L(k)[i] = lists[i]
    BY <2>1
  <2>4. lists[k + 1] \in Seq(V) /\ Separate(lists[k + 1], R)
    BY <2>1
  <2> HIDE DEF L
  <2>5. FlattenSeq(L(k)) \in Seq(V) /\ ToSet(FlattenSeq(L(k))) = UNION {ToSet(L(k)[i]) : i \in 1..k}
    <3>1. PICK first : first = L(k)
      OBVIOUS
    <3>2. k \in Nat /\ first \in [1..k -> Seq(V)]
      BY <2>1, <2>2, <3>1
    <3> HIDE DEF Holds
    <3>3. /\ FlattenSeq(first) \in Seq(V)
          /\ ToSet(FlattenSeq(first)) = UNION {ToSet(first[i]) : i \in 1..k}
      BY <3>2, FlattenedPrefix
    <3> QED
      BY <3>1, <3>3
  <2>6. FlattenSeq(L(k + 1)) = FlattenSeq(L(k)) \o lists[k + 1]
    <3>1. FlattenSeq(L(k + 1)) = FlattenSeq([i \in 1..k |-> L(k + 1)[i]]) \o L(k + 1)[k + 1]
      BY <2>1, <2>2, FlattenStep
    <3> QED
      BY <2>3, <3>1
  <2>7. ASSUME NEW a \in ToSet(FlattenSeq(L(k))), NEW b \in ToSet(lists[k + 1])
        PROVE  a \notin R[b] /\ b \notin R[a]
    <3>1. PICK i \in 1..k : a \in ToSet(lists[i])
      BY <2>3, <2>5
    <3>2. i \in 1..n /\ i # k + 1
      BY <1>2, <2>1
    <3> QED
      BY <2>1, <3>1, <3>2
  <2>8. Separate(FlattenSeq(L(k)) \o lists[k + 1], R)
    BY <1>2, <2>4, <2>5, <2>7, ConcatSeparate
  <2> QED
    BY <2>6, <2>8
<1>3. SUFFICES ASSUME Bad # {} PROVE FALSE
  <2>1. L(n) = lists /\ n \in 0..n
    OBVIOUS
  <2> SUFFICES ASSUME Bad = {} PROVE Holds(n)
    BY <2>1
  <2> HIDE DEF Holds
  <2> QED
    BY <2>1
<1> HIDE DEF Holds, L
<1>4. PICK k \in Bad : \A j \in Bad : k <= j
  <2>1. Bad \in SUBSET Nat
    OBVIOUS
  <2> HIDE DEF Bad
  <2> QED
    BY <1>3, <2>1, LeastNatural
<1>5. k \in 0..n /\ ~Holds(k)
  OBVIOUS
<1>6. k # 0 /\ k - 1 \in 0..n /\ (k - 1) + 1 = k
  BY <1>1, <1>5
<1>7. Holds(k - 1)
  BY <1>4, <1>6
<1> QED
  BY <1>2, <1>5, <1>6, <1>7

LEMMA KeepSeparate ==
  ASSUME NEW V, NEW R, NEW s \in Seq(V), NEW indices,
         \A i, j \in DOMAIN s : i \in indices /\ j \in indices /\ i # j => s[j] \notin R[s[i]]
  PROVE  Separate(Keep(s, indices), R)
<1> DEFINE n == Len(s)
           lists == [i \in DOMAIN s |-> IF i \in indices THEN <<s[i]>> ELSE <<>>]
<1>1. n \in Nat /\ DOMAIN s = 1..n /\ \A i \in 1..n : s[i] \in V
  OBVIOUS
<1>2. \A x \in V : ToSet(<<x>>) = {x} /\ <<x>> \in Seq(V) /\ Separate(<<x>>, R)
  BY OneElement, ShortSeparate
<1>3. <<>> \in Seq(V) /\ ToSet(<<>>) = {} /\ Separate(<<>>, R)
  BY EmptyList, ShortSeparate
<1> HIDE DEF n
<1>4. /\ lists \in [1..n -> Seq(V)]
      /\ \A i \in 1..n : /\ Separate(lists[i], R)
                         /\ ToSet(lists[i]) = IF i \in indices THEN {s[i]} ELSE {}
  BY <1>1, <1>2, <1>3
<1>5. Keep(s, indices) = FlattenSeq(lists)
  BY DEF Keep
<1> HIDE DEF lists
<1>6. ASSUME NEW i \in 1..n, NEW j \in 1..n, i # j,
             NEW a \in ToSet(lists[i]), NEW b \in ToSet(lists[j])
      PROVE  b \notin R[a]
  <2>1. i \in indices /\ a = s[i] /\ j \in indices /\ b = s[j]
    BY <1>4, <1>6
  <2> QED
    BY <1>1, <1>6, <2>1
<1>7. Separate(FlattenSeq(lists), R)
  BY <1>1, <1>4, <1>6, FlattenSeparate
<1> QED
  BY <1>5, <1>7

LEMMA ArrangedSeparate ==
  ASSUME NEW V, NEW R, NEW s \in Seq(V), Separate(s, R), NEW before
  PROVE  Separate(Arranged(s, before), R)
<1> DEFINE n == Len(s)
           at(k) == {i \in DOMAIN s : Cardinality(before[i]) = k - 1}
           lists == [k \in DOMAIN s |-> Keep(s, at(k))]
<1>1. n \in Nat /\ DOMAIN s = 1..n
  OBVIOUS
<1> HIDE DEF n
<1>2. \A k \in 1..n : /\ Keep(s, at(k)) \in Seq(V)
                      /\ ToSet(Keep(s, at(k))) = {s[i] : i \in {j \in DOMAIN s : j \in at(k)}}
                      /\ Separate(Keep(s, at(k)), R)
  <2> HIDE DEF at
  <2>1. \A i, j \in DOMAIN s : i # j => s[j] \notin R[s[i]]
    BY DEF Separate
  <2> QED
    BY <2>1, KeepIs, KeepSeparate
<1>3. /\ lists \in [1..n -> Seq(V)]
      /\ \A k \in 1..n : /\ Separate(lists[k], R)
                         /\ \A x \in ToSet(lists[k]) : \E i \in DOMAIN s : i \in at(k) /\ x = s[i]
  <2> HIDE DEF at
  <2> QED
    BY <1>1, <1>2
<1>4. Arranged(s, before) = FlattenSeq(lists)
  BY DEF Arranged
<1>5. \A k, l \in 1..n : \A i : i \in at(k) /\ i \in at(l) => k = l
  BY <1>1
<1> HIDE DEF lists, at
<1>6. ASSUME NEW k \in 1..n, NEW l \in 1..n, k # l,
             NEW a \in ToSet(lists[k]), NEW b \in ToSet(lists[l])
      PROVE  b \notin R[a]
  <2>1. PICK i \in DOMAIN s : i \in at(k) /\ a = s[i]
    BY <1>3
  <2>2. PICK j \in DOMAIN s : j \in at(l) /\ b = s[j]
    BY <1>3
  <2>3. i # j
    BY <1>5, <1>6, <2>1, <2>2
  <2> QED
    BY <2>1, <2>2, <2>3 DEF Separate
<1>7. Separate(FlattenSeq(lists), R)
  BY <1>1, <1>3, <1>6, FlattenSeparate
<1> QED
  BY <1>4, <1>7

-----------------------------------------------------------------------------
(* A rule that decides every call of a name stands alone *)

\* An entry that loads one clause, without conditions.
Unfiltered(entry) == \E c \in Decisive : EntryClauses(entry) = <<c>>

\* An entry may not come beside an unfiltered one of a name of its own.
Excluded ==
  [a \in Entry |-> {b \in Entry : /\ a.names \cap b.names # {}
                                  /\ Unfiltered(a) \/ Unfiltered(b)}]

LoadsOne(entry) == \E c \in Clause : EntryClauses(entry) = <<c>>

Lone(entries) == Separate(entries, Excluded) /\ \A e \in ToSet(entries) : LoadsOne(e)

LEMMA ExcludedBy ==
  ASSUME NEW a \in Entry, NEW b \in Entry
  PROVE  b \in Excluded[a] <=> /\ a.names \cap b.names # {}
                               /\ Unfiltered(a) \/ Unfiltered(b)
  BY DEF Excluded

LEMMA OneOfSeparate ==
  ASSUME NEW V, NEW s \in Seq(V), Separate(s, [x \in V |-> V]), s # <<>>
  PROVE  Len(s) = 1
<1>1. Len(s) \in Nat /\ DOMAIN s = 1..Len(s) /\ Len(s) # 0 /\ \A i \in DOMAIN s : s[i] \in V
  OBVIOUS
<1>2. \A i, j \in DOMAIN s : i = j
  BY <1>1 DEF Separate
<1>3. Len(s) > 1 => 1 \in DOMAIN s /\ 2 \in DOMAIN s
  BY <1>1
<1> QED
  BY <1>1, <1>2, <1>3

\* A runtime that loads a decision for a name loads nothing else for it.
LEMMA LoneLoads ==
  ASSUME NEW entries \in Seq(Entry), Lone(entries), NEW default, NEW name,
         NEW c \in Decisive, c \in ToSet(LoadedClauses(entries, default, name))
  PROVE  Len(LoadedClauses(entries, default, name)) = 1
<1> DEFINE n == Len(entries)
           rules(i) == name \in entries[i].names /\ ~Skipped(entries[i], default)
           lists == [i \in DOMAIN entries |->
                       IF rules(i) THEN EntryClauses(entries[i]) ELSE <<>>]
           all == LoadedClauses(entries, default, name)
           R == [x \in Clause |-> Clause]
<1>1. n \in Nat /\ DOMAIN entries = 1..n
      /\ \A i \in 1..n : entries[i] \in Entry /\ entries[i] \in ToSet(entries)
  BY SeqIs
<1>2. \A i \in 1..n : \E d \in Clause : EntryClauses(entries[i]) = <<d>>
  BY <1>1 DEF Lone, LoadsOne
<1>3. PICK k \in 1..n : rules(k) /\ c \in ToSet(EntryClauses(entries[k]))
  BY <1>1, LoadedAre DEF Ruling
<1>4. EntryClauses(entries[k]) = <<c>> /\ Unfiltered(entries[k])
  <2>1. PICK d \in Clause : EntryClauses(entries[k]) = <<d>>
    BY <1>2
  <2>2. c = d
    BY <1>3, <2>1, OneElement
  <2> QED
    BY <2>1, <2>2 DEF Unfiltered
<1>5. ASSUME NEW i \in 1..n, rules(i) PROVE i = k
  <2>1. entries[k].names \cap entries[i].names # {}
    BY <1>3, <1>5
  <2>2. entries[i] \in Excluded[entries[k]]
    BY <1>1, <1>4, <2>1, ExcludedBy
  <2> QED
    BY <1>1, <2>2 DEF Lone, Separate
<1>6. all = FlattenSeq(lists)
  BY DEF LoadedClauses
<1>7. /\ \A x \in Clause : ToSet(<<x>>) = {x} /\ <<x>> \in Seq(Clause) /\ Separate(<<x>>, R)
      /\ <<>> \in Seq(Clause) /\ ToSet(<<>>) = {} /\ Separate(<<>>, R)
  <2> HIDE DEF R
  <2> QED
    BY OneElement, EmptyList, ShortSeparate
<1>8. ASSUME NEW i \in 1..n
      PROVE  lists[i] \in Seq(Clause) /\ Separate(lists[i], R) /\ (ToSet(lists[i]) # {} => i = k)
  <2> HIDE DEF R, rules
  <2>1. lists[i] = IF rules(i) THEN EntryClauses(entries[i]) ELSE <<>>
    BY <1>1
  <2> HIDE DEF lists
  <2>2. CASE rules(i)
    <3>1. PICK d \in Clause : EntryClauses(entries[i]) = <<d>>
      BY <1>2
    <3> QED
      BY <1>5, <1>7, <2>1, <2>2, <3>1
  <2>3. CASE ~rules(i)
    BY <1>7, <2>1, <2>3
  <2> QED
    BY <2>2, <2>3
<1>9. lists \in [1..n -> Seq(Clause)]
  BY <1>1, <1>8
<1> HIDE DEF lists, rules, n, R
<1>10. Separate(FlattenSeq(lists), R)
  BY <1>1, <1>8, <1>9, FlattenSeparate
<1>11. all \in Seq(Clause) /\ all # <<>>
  <2>1. all \in Seq(Clause)
    BY LoadedAre
  <2> QED
    BY <2>1, SeqIs
<1>12. Separate(all, [x \in Clause |-> Clause])
  BY <1>6, <1>10 DEF R
<1> HIDE DEF all
<1>13. Len(all) = 1
  BY <1>11, <1>12, OneOfSeparate
<1> QED
  BY <1>13 DEF all

-----------------------------------------------------------------------------
(* The entries that a merge emits *)

LEMMA WrittenEntries ==
  ASSUME NEW name \in Name, NEW c \in Clause
  PROVE  LET e == ClauseToSyscall(name, c) IN
         /\ e \in Entry /\ e.names = {name} /\ LoadsOne(e)
         /\ Unfiltered(e) => c \in Decisive
<1> DEFINE e == ClauseToSyscall(name, c)
<1>1. e \in Entry /\ e.names = {name} /\ EntryClauses(e) = <<c>>
  BY ClauseWritten
<1> HIDE DEF e
<1>2. ASSUME NEW d, EntryClauses(e) = <<d>> PROVE c = d
  BY <1>1, <1>2
<1> QED
  BY <1>1, <1>2 DEF LoadsOne, Unfiltered, e

\* The entries of one name.
LEMMA EmittedLone ==
  ASSUME NEW name \in Name, NEW default \in Decisive, NEW rules \in RulesType(FALSE), Apart(rules)
  PROVE  /\ Separate(Emitted(name, default, rules), Excluded)
         /\ \A e \in ToSet(Emitted(name, default, rules)) :
              e \in Entry /\ e.names = {name} /\ LoadsOne(e)
<1> DEFINE u == rules.unconditional
           s == rules.conditional
           all == ({u} \ {NoClause}) \cup ToSet(s)
           of(c) == ClauseToSyscall(name, c)
           E == Emitted(name, default, rules)
<1>1. /\ E \in Seq(Entry)
      /\ \A e \in ToSet(E) : \E c \in all : e = of(c)
  BY EmittedIs
<1>2. /\ all \in SUBSET Clause /\ u \in Decisive \cup {NoClause}
      /\ s \in Seq(Clause) /\ ToSet(s) \in SUBSET Conditional
  <2>1. all \in SUBSET Clause
    BY WrittenAre
  <2> QED
    BY <2>1, RulesFields, ReadableClauses DEF Readable
<1>3. ASSUME NEW c \in all
      PROVE  of(c) \in Entry /\ of(c).names = {name} /\ LoadsOne(of(c)) /\ (Unfiltered(of(c)) => c \in Decisive)
  BY <1>2, WrittenEntries
<1>4. \A e \in ToSet(E) : e \in Entry /\ e.names = {name} /\ LoadsOne(e)
  <2> HIDE DEF E, all, of
  <2> QED
    BY <1>1, <1>3
<1>5. CASE u = NoClause
  <2>1. \A e \in ToSet(E) : ~Unfiltered(e)
    <3>1. all = ToSet(s)
      BY <1>5
    <3>2. \A c \in all : c \notin Decisive
      BY <1>2, <3>1 DEF Decisive, Conditional
    <3> HIDE DEF E, all, of
    <3> QED
      BY <1>1, <1>3, <3>2
  <2> HIDE DEF E
  <2>2. \A i \in DOMAIN E : E[i] \in ToSet(E) /\ E[i] \in Entry
    BY <1>1, SeqIs
  <2>3. Separate(E, Excluded)
    BY <2>1, <2>2, ExcludedBy DEF Separate
  <2> QED
    BY <1>4, <2>3 DEF E
<1>6. CASE u # NoClause
  <2> DEFINE none == u = NoClause \/ (default # NoClause /\ SameResult(u, default))
             first == IF none THEN <<>> ELSE <<of(u)>>
             rest == [i \in DOMAIN s |-> of(s[i])]
  <2>1. E = first \o rest
    BY DEF Emitted
  <2>2. s = <<>>
    BY <1>6 DEF Apart
  <2>3. rest = <<>>
    <3>1. DOMAIN s = {}
      BY <2>2
    <3> HIDE DEF of, s
    <3> QED
      BY <3>1
  <2>4. of(u) \in Entry
    BY <1>3, <1>6
  <2>5. first \in Seq(Entry) /\ Separate(first, Excluded)
    <3> HIDE DEF of, none
    <3> QED
      BY <2>4, ShortSeparate
  <2> HIDE DEF first, rest, E
  <2>6. E = first
    BY <2>1, <2>3, <2>5
  <2> QED
    BY <1>4, <2>5, <2>6 DEF E
<1> QED
  BY <1>5, <1>6

LEMMA DistinctNames == \A i, j \in 1..Len(Names) : Names[i] = Names[j] => i = j
  BY ClausesAssumption DEF IsInjective

LEMMA EmittedAllLone ==
  ASSUME NEW default \in Decisive, NEW rules,
         \A name \in Name : rules[name] \in RulesType(FALSE) /\ ResultForm(rules[name])
  PROVE  Lone(EmittedAll(default, rules))
<1> DEFINE n == Len(Names)
           of(name) == Emitted(name, default, rules[name])
           lists == [i \in DOMAIN Names |-> of(Names[i])]
           E == EmittedAll(default, rules)
<1>1. E = FlattenSeq(lists)
  BY DEF EmittedAll
<1>2. /\ E \in Seq(Entry)
      /\ \A e \in ToSet(E) : \E name \in Name : e \in ToSet(of(name))
  BY EmittedAllIs
<1>3. \A name \in Name : /\ of(name) \in Seq(Entry) /\ Separate(of(name), Excluded)
                         /\ \A e \in ToSet(of(name)) : e \in Entry /\ e.names = {name} /\ LoadsOne(e)
  BY EmittedIs, EmittedLone DEF ResultForm
<1>4. /\ lists \in [1..n -> Seq(Entry)] /\ n \in Nat
      /\ \A i \in 1..n : lists[i] = of(Names[i]) /\ Names[i] \in Name
  BY <1>3, NamesAre
<1>5. \A i, j \in 1..n : Names[i] = Names[j] => i = j
  BY DistinctNames
<1> HIDE DEF lists, n, of, E
<1>6. ASSUME NEW i \in 1..n, NEW j \in 1..n, i # j,
             NEW a \in ToSet(lists[i]), NEW b \in ToSet(lists[j])
      PROVE  b \notin Excluded[a]
  <2>1. a \in Entry /\ b \in Entry /\ a.names = {Names[i]} /\ b.names = {Names[j]}
    BY <1>3, <1>4
  <2>2. a.names \cap b.names = {}
    BY <1>5, <1>6, <2>1
  <2> QED
    BY <2>1, <2>2, ExcludedBy
<1>7. \A i \in 1..n : Separate(lists[i], Excluded)
  BY <1>3, <1>4
<1>8. Separate(E, Excluded)
  BY <1>1, <1>4, <1>6, <1>7, FlattenSeparate
<1>9. \A e \in ToSet(E) : LoadsOne(e)
  BY <1>2, <1>3
<1> QED
  BY <1>8, <1>9 DEF Lone, E

LEMMA OrderIsDistinct ==
  ASSUME NEW replaced, NEW i \in DOMAIN InOrder(replaced), NEW j \in DOMAIN InOrder(replaced),
         InOrder(replaced)[i] = InOrder(replaced)[j]
  PROVE  i = j
<1> DEFINE I == {k \in DOMAIN Names : Names[k] \in DOMAIN replaced}
           R == [x \in STRING |-> {x}]
<1>1. Names \in Seq(STRING) /\ InOrder(replaced) = Keep(Names, I)
  BY ClausesAssumption DEF InOrder
<1>2. \A k, l \in DOMAIN Names : k # l => Names[l] \notin R[Names[k]]
  <2>1. /\ DOMAIN Names = 1..Len(Names) /\ \A k \in DOMAIN Names : Names[k] \in STRING
    BY <1>1, SeqIs
  <2> QED
    BY <2>1, DistinctNames
<1> HIDE DEF I
<1>3. Keep(Names, I) \in Seq(STRING)
  BY <1>1, KeepIs
<1>4. \A k \in DOMAIN InOrder(replaced) : InOrder(replaced)[k] \in STRING
  BY <1>1, <1>3, SeqIs
<1> HIDE DEF R
<1>5. Separate(InOrder(replaced), R)
  BY <1>1, <1>2, KeepSeparate
<1> QED
  BY <1>4, <1>5 DEF Separate, R

LEMMA ReplacedLone ==
  ASSUME NEW default \in Decisive, NEW replaced, DOMAIN replaced \in SUBSET Name,
         Standing(replaced, default)
  PROVE  Lone(ReplacedEmitted(replaced, default))
<1> DEFINE order == InOrder(replaced)
           n == Len(order)
           of(name) == Emitted(name, default, Replaced(replaced[name]))
           lists == [i \in DOMAIN order |-> of(order[i])]
           all == FlattenSeq(lists)
<1>1. ReplacedEmitted(replaced, default) = all
  BY DEF ReplacedEmitted
<1>2. ToSet(order) = DOMAIN replaced /\ order \in Seq(STRING)
  BY InOrderIs
<1>3. /\ n \in Nat /\ DOMAIN order = 1..n
      /\ \A i \in 1..n : order[i] \in DOMAIN replaced
      /\ \A i, j \in 1..n : order[i] = order[j] => i = j
  BY <1>2, SeqIs, OrderIsDistinct
<1>4. ASSUME NEW name \in DOMAIN replaced
      PROVE  /\ of(name) \in Seq(Entry) /\ Separate(of(name), Excluded)
             /\ \A e \in ToSet(of(name)) : e \in Entry /\ e.names = {name} /\ LoadsOne(e)
  <2> DEFINE rules == Replaced(replaced[name])
  <2>1. name \in Name /\ replaced[name] \in Decisive \cup {NoClause}
    BY DEF Standing
  <2>2. rules = [unconditional |-> replaced[name], conditional |-> <<>>] /\ rules \in RulesType(FALSE)
    BY <2>1, ReplacedRules
  <2>3. Apart(rules)
    BY <2>2 DEF Apart
  <2> HIDE DEF rules
  <2>4. rules \in RulesType(FALSE)
    BY <2>2
  <2>5. Emitted(name, default, rules) \in Seq(Entry)
    BY <2>1, <2>4, EmittedIs
  <2>6. /\ Separate(Emitted(name, default, rules), Excluded)
        /\ \A e \in ToSet(Emitted(name, default, rules)) :
             e \in Entry /\ e.names = {name} /\ LoadsOne(e)
    BY <2>1, <2>3, <2>4, EmittedLone
  <2> QED
    BY <2>5, <2>6 DEF rules
<1> HIDE DEF order, of, n
<1>5. lists \in [1..n -> Seq(Entry)] /\ \A i \in 1..n : lists[i] = of(order[i])
  BY <1>3, <1>4
<1> HIDE DEF lists
<1>6. all \in Seq(Entry) /\ ToSet(all) = UNION {ToSet(lists[i]) : i \in 1..n}
  BY <1>3, <1>5, FlattenedElements
<1>7. ASSUME NEW i \in 1..n, NEW j \in 1..n, i # j,
             NEW a \in ToSet(lists[i]), NEW b \in ToSet(lists[j])
      PROVE  b \notin Excluded[a]
  <2>1. a \in Entry /\ b \in Entry /\ a.names = {order[i]} /\ b.names = {order[j]}
    BY <1>3, <1>4, <1>5
  <2>2. a.names \cap b.names = {}
    BY <1>3, <1>7, <2>1
  <2> QED
    BY <2>1, <2>2, ExcludedBy
<1>8. \A i \in 1..n : Separate(lists[i], Excluded)
  BY <1>3, <1>4, <1>5
<1>9. Separate(all, Excluded)
  BY <1>3, <1>5, <1>7, <1>8, FlattenSeparate
<1> HIDE DEF all
<1>10. \A e \in ToSet(all) : LoadsOne(e)
  BY <1>3, <1>4, <1>5, <1>6
<1> QED
  BY <1>1, <1>9, <1>10 DEF Lone

LEMMA ReadLone ==
  ASSUME NEW entries \in Seq(Entry), Lone(entries), NEW default \in Decisive, NEW st,
         DOMAIN st.replaced \in SUBSET Name, Standing(st.replaced, default)
  PROVE  Lone(ReadSettled(entries, default, st).entries)
<1> DEFINE R == DOMAIN st.replaced
           I == {i \in DOMAIN entries : entries[i].names \cap R = {}}
           kept == Keep(entries, I)
           new == ReplacedEmitted(st.replaced, default)
           F == ReadSettled(entries, default, st).entries
<1>1. F = IF R = {} THEN entries ELSE kept \o new
  BY DEF ReadSettled, ReplacedEmitted, InOrder, Replaced
<1> HIDE DEF F
<1>2. CASE R = {}
  BY <1>1, <1>2 DEF F
<1>3. CASE R # {}
  <2>1. /\ kept \in Seq(Entry)
        /\ ToSet(kept) = {entries[i] : i \in {j \in DOMAIN entries : j \in I}}
    BY KeepIs
  <2>2. \A i, j \in DOMAIN entries : i # j => entries[j] \notin Excluded[entries[i]]
    BY DEF Lone, Separate
  <2>3. Separate(kept, Excluded)
    <3> HIDE DEF I
    <3> QED
      BY <2>2, KeepSeparate
  <2>4. \A e \in ToSet(kept) : e \in Entry /\ e.names \cap R = {} /\ LoadsOne(e)
    <3>1. \A i \in DOMAIN entries : entries[i] \in Entry /\ entries[i] \in ToSet(entries)
      BY SeqIs
    <3>2. \A e \in ToSet(kept) : \E i \in DOMAIN entries : e = entries[i] /\ e.names \cap R = {}
      BY <2>1
    <3> QED
      BY <3>1, <3>2 DEF Lone
  <2>5. /\ new \in Seq(Entry) /\ Lone(new)
        /\ \A e \in ToSet(new) : e \in Entry /\ \E name \in R : e.names = {name}
    <3> DEFINE replaced == st.replaced
    <3>1. DOMAIN replaced \in SUBSET Name /\ Standing(replaced, default)
      OBVIOUS
    <3> HIDE DEF replaced
    <3>2. /\ ReplacedEmitted(replaced, default) \in Seq(Entry)
          /\ \A e : e \in ToSet(ReplacedEmitted(replaced, default)) <=>
               \E name \in DOMAIN replaced :
                 replaced[name] # NoClause /\ e = ClauseToSyscall(name, replaced[name])
      BY <3>1, EmittedReplaced
    <3>3. Lone(ReplacedEmitted(replaced, default))
      BY <3>1, ReplacedLone
    <3>4. ASSUME NEW name \in DOMAIN replaced, replaced[name] # NoClause
          PROVE  LET e == ClauseToSyscall(name, replaced[name])
                 IN e \in Entry /\ e.names = {name}
      <4>1. name \in Name /\ replaced[name] \in Clause
        BY <3>1, <3>4, DecisiveIs DEF Standing
      <4> QED
        BY <4>1, ClauseWritten
    <3>5. \A e \in ToSet(ReplacedEmitted(replaced, default)) :
            e \in Entry /\ \E name \in DOMAIN replaced : e.names = {name}
      BY <3>2, <3>4
    <3> QED
      BY <3>2, <3>3, <3>5 DEF replaced
  <2> HIDE DEF kept, new, R, I
  <2>6. ASSUME NEW a \in ToSet(kept), NEW b \in ToSet(new)
        PROVE  a \notin Excluded[b] /\ b \notin Excluded[a]
    <3>1. a \in Entry /\ b \in Entry /\ a.names \cap b.names = {} /\ b.names \cap a.names = {}
      BY <2>4, <2>5
    <3> QED
      BY <3>1, ExcludedBy
  <2>7. Separate(kept \o new, Excluded)
    BY <2>1, <2>3, <2>5, <2>6, ConcatSeparate DEF Lone
  <2>8. ToSet(kept \o new) = ToSet(kept) \cup ToSet(new)
    BY <2>1, <2>5, ConcatElements
  <2>9. \A e \in ToSet(kept \o new) : LoadsOne(e)
    BY <2>4, <2>5, <2>8 DEF Lone
  <2> QED
    BY <1>1, <1>3, <2>7, <2>9 DEF Lone, F
<1> QED
  BY <1>2, <1>3

LEMMA ArchitecturesLone ==
  ASSUME NEW profile, Built(profile), Lone(profile.entries),
         NEW n \in Nat, NEW inputs, DOMAIN inputs = 1..n, \A i \in 1..n : ProfileOK(inputs[i])
  PROVE  Lone(SettleArchitectures(profile, inputs).entries)
<1> DEFINE q == SettleArchitectures(profile, inputs)
           entries == profile.entries
           default == Default(profile)
           read == [i \in DOMAIN inputs |->
                      MultiplexInput(inputs[i].entries, Default(inputs[i]))]
           st == SettledState(entries, default, read)
           F == SettleMultiplexed(entries, default, read).entries
<1>1. entries \in Seq(Entry) /\ default \in Decisive
  BY ProfileDecides DEF Built, ProfileOK
<1>2. read \in Seq(InputType)
  BY ReadInputs
<1> HIDE DEF read, entries, default
<1>3. st \in State(LoadedBefore(entries, default), default)
  BY <1>1, <1>2, AllStay
<1>4. F = ReadSettled(entries, default, st).entries
  BY DEF SettleMultiplexed, SettledState
<1> HIDE DEF st
<1>5. /\ DOMAIN st.replaced \in SUBSET MultiplexName
      /\ Faithful(st.result.rules, st.replaced, LoadedBefore(entries, default), default)
  <2> DEFINE before == LoadedBefore(entries, default)
  <2>1. st \in State(before, default)
    BY <1>3
  <2> HIDE DEF before
  <2> QED
    BY <1>1, <2>1, StateFields DEF before
<1>6. DOMAIN st.replaced \in SUBSET Name /\ Standing(st.replaced, default)
  BY <1>5, MultiplexNames DEF Standing, Faithful, Stands
<1>7. Lone(F)
  BY <1>1, <1>4, <1>6, ReadLone DEF entries
<1>8. q.entries = entries \/ q.entries = F
  BY DEF SettleArchitectures, NarrowOrSettle, Rebuilt, read, entries, default
<1> HIDE DEF q, F
<1> QED
  BY <1>7, <1>8 DEF q, entries

LEMMA NormalizedLone ==
  ASSUME NEW profile, ProfileOK(profile)
  PROVE  Lone(Normalized(profile).entries)
<1> DEFINE d == Default(profile)
           entries == profile.entries
           p == [default |-> d.action, errno |-> OutputErrno(d.action, d.errno),
                 entries |-> SettledSyscalls(entries, d),
                 architectures |-> profile.architectures, flags |-> profile.flags,
                 path |-> profile.path, metadata |-> profile.metadata]
           inputs == <<profile>>
           rules == SortedRules(SettledRules(entries, d, FALSE))
<1>1. d \in Decisive /\ entries \in Seq(Entry)
  BY ProfileDecides DEF ProfileOK
<1>2. Normalized(profile) = SettleArchitectures(p, inputs)
  BY DEF Normalized
<1>3. DOMAIN inputs = 1..1 /\ \A i \in 1..1 : ProfileOK(inputs[i])
  OBVIOUS
<1>4. /\ p.default = d.action /\ p.errno = OutputErrno(d.action, d.errno)
      /\ p.entries = SettledSyscalls(entries, d)
  OBVIOUS
<1> HIDE DEF p, inputs
<1>5. p.entries = EmittedAll(d, rules)
  BY <1>4 DEF SettledSyscalls
<1>6. \A name \in Name : rules[name] \in RulesType(FALSE) /\ ResultForm(rules[name])
  <2> HIDE DEF d, entries
  <2> QED
    BY <1>1, NormalRules
<1> HIDE DEF rules, d
<1>7. Built(p)
  BY <1>1, <1>4, <1>5, <1>6, WrittenBuilt
<1>8. Lone(p.entries)
  BY <1>1, <1>5, <1>6, EmittedAllLone
<1> QED
  BY <1>2, <1>3, <1>7, <1>8, ArchitecturesLone

LEMMA MergedLone ==
  ASSUME NEW le \in Seq(Entry), NEW re \in Seq(Entry), NEW ld \in Decisive, NEW rd \in Decisive,
         NEW flag \in BOOLEAN
  PROVE  Lone(MergeProfileSyscalls(Side(le, ld), Side(re, rd), PickClause(ld, rd), flag))
<1> DEFINE d == PickClause(ld, rd)
           rules == MergedOf(le, ld, re, rd, flag)
           E == MergeProfileSyscalls(Side(le, ld), Side(re, rd), d, flag)
<1>1. d \in Decisive
  BY PickedDecisive
<1>2. /\ E = EmittedAll(d, rules)
      /\ \A name \in Name : rules[name] \in RulesType(FALSE) /\ ResultForm(rules[name])
  BY MergedExact
<1> HIDE DEF rules, E, d
<1>3. Lone(EmittedAll(d, rules))
  BY <1>1, <1>2, EmittedAllLone
<1> QED
  BY <1>2, <1>3 DEF E, d

LEMMA MergeTwoLone ==
  ASSUME NEW left, NEW right, ProfileOK(left), ProfileOK(right)
  PROVE  Lone(MergeTwo(left, right).entries)
<1> DEFINE ld == Default(left)
           rd == Default(right)
           le == left.entries
           re == right.entries
           d == PickClause(ld, rd)
           listener == ListenerOf(left, right)
           shared == IF Intersecting THEN left.architectures \cap right.architectures
                     ELSE left.architectures \cup right.architectures
           misread == /\ CoversAny(shared, NarrowArchitectures)
                      /\ LoadsWideValue(left) \/ LoadsWideValue(right)
           drops == misread /\ Intersecting /\ native \notin NarrowArchitectures
           A == IF drops THEN shared \ NarrowArchitectures ELSE shared
           flag == misread /\ ~drops
           inputs == <<left, right>>
           p == [default |-> d.action, errno |-> OutputErrno(d.action, d.errno),
                 path |-> listener.path, metadata |-> listener.metadata,
                 flags |-> MergeFlags(left.flags, right.flags, Intersecting, listener = left),
                 architectures |-> A,
                 entries |-> MergeProfileSyscalls(Side(le, ld), Side(re, rd), d, flag)]
<1>1. MergeTwo(left, right) = SettleArchitectures(p, inputs)
  BY DEF MergeTwo, Side
<1>2. DOMAIN inputs = 1..2 /\ \A i \in 1..2 : ProfileOK(inputs[i])
  OBVIOUS
<1>3. /\ p.default = d.action /\ p.errno = OutputErrno(d.action, d.errno)
      /\ p.entries = MergeProfileSyscalls(Side(le, ld), Side(re, rd), d, flag)
  OBVIOUS
<1> HIDE DEF p, inputs
<1>4. flag \in BOOLEAN
  BY DEF CoversAny, LoadsWideValue
<1> HIDE DEF flag
<1>5. Built(p)
  BY <1>3, <1>4, MergeBuilt
<1>6. ld \in Decisive /\ rd \in Decisive /\ le \in Seq(Entry) /\ re \in Seq(Entry)
  BY ProfileDecides DEF ProfileOK
<1> HIDE DEF ld, rd, le, re
<1>7. Lone(p.entries)
  BY <1>3, <1>4, <1>6, MergedLone
<1> QED
  BY <1>1, <1>2, <1>5, <1>7, ArchitecturesLone

LEMMA RegroupLone ==
  ASSUME NEW entries \in Seq(Entry), Lone(entries)
  PROVE  Lone(Regrouped(entries))
<1> DEFINE firsts == Keep(entries, FirstEntries(entries))
           grouped == [i \in DOMAIN firsts |-> Grouped(entries, firsts[i])]
           first(entry) == Min({i \in DOMAIN Names : Names[i] \in entry.names})
           key == [i \in DOMAIN grouped |-> ArgsKey(ToSet(grouped[i].args))]
           place == [i \in DOMAIN grouped |-> first(grouped[i])]
           before == [i \in DOMAIN grouped |-> {j \in DOMAIN grouped \ {i} :
                        \/ place[j] < place[i]
                        \/ place[j] = place[i] /\ (key[j] < key[i] \/ (key[j] = key[i] /\ j < i))}]
           Alike == [x \in Entry |-> {y \in Entry : SameRule(x, y)}]
<1>1. Regrouped(entries) = Arranged(grouped, before)
  BY DEF Regrouped, FirstEntries, Grouped, NamesOfRule
<1>2. /\ DOMAIN entries = 1..Len(entries) /\ Len(entries) \in Nat
      /\ \A i \in DOMAIN entries : entries[i] \in Entry /\ entries[i] \in ToSet(entries)
      /\ \A e \in ToSet(entries) : e \in Entry /\ \E i \in DOMAIN entries : entries[i] = e
  BY SeqIs
<1>3. ASSUME NEW i \in FirstEntries(entries), NEW j \in FirstEntries(entries), i # j
      PROVE  ~SameRule(entries[i], entries[j])
  <2>1. i < j \/ j < i
    BY <1>2, <1>3 DEF FirstEntries
  <2>2. CASE i < j
    BY <1>2, <2>2 DEF FirstEntries
  <2>3. CASE j < i
    <3>1. ~SameRule(entries[j], entries[i])
      BY <1>2, <2>3 DEF FirstEntries
    <3> QED
      BY <3>1 DEF SameRule
  <2> QED
    BY <2>1, <2>2, <2>3
<1>4. firsts \in Seq(Entry) /\ Separate(firsts, Alike)
  <2>1. \A i, j \in DOMAIN entries :
          i \in FirstEntries(entries) /\ j \in FirstEntries(entries) /\ i # j =>
            entries[j] \notin Alike[entries[i]]
    BY <1>2, <1>3
  <2> HIDE DEF Alike
  <2> QED
    BY <2>1, KeepIs, KeepSeparate
<1>5. /\ DOMAIN firsts = 1..Len(firsts) /\ Len(firsts) \in Nat
      /\ \A i \in DOMAIN firsts : firsts[i] \in Entry
  BY <1>4
<1>6. \A i, j \in DOMAIN firsts : i # j => ~SameRule(firsts[i], firsts[j])
  BY <1>4, <1>5 DEF Separate
<1> HIDE DEF firsts, Alike
<1>7. ASSUME NEW i \in DOMAIN firsts
      PROVE  LET g == Grouped(entries, firsts[i]) IN
             /\ g \in Entry /\ SameRule(g, firsts[i]) /\ g.names = NamesOfRule(entries, firsts[i])
  BY <1>5, NamesGrouped DEF SameRule
<1>8. /\ grouped \in Seq(Entry) /\ DOMAIN grouped = DOMAIN firsts
      /\ \A i \in DOMAIN firsts : /\ grouped[i] \in Entry /\ SameRule(grouped[i], firsts[i])
                                  /\ grouped[i].names = NamesOfRule(entries, firsts[i])
  BY <1>5, <1>7
<1> HIDE DEF grouped, before
<1>9. ASSUME NEW a \in DOMAIN firsts, NEW b \in DOMAIN firsts, a # b,
             grouped[b] \in Excluded[grouped[a]]
      PROVE  FALSE
  <2>1. /\ grouped[a].names \cap grouped[b].names # {}
        /\ Unfiltered(grouped[a]) \/ Unfiltered(grouped[b])
    BY <1>8, <1>9, ExcludedBy
  <2>2. PICK name : name \in NamesOfRule(entries, firsts[a]) /\ name \in NamesOfRule(entries, firsts[b])
    BY <1>8, <2>1
  <2>3. PICK k \in DOMAIN entries : SameRule(entries[k], firsts[a]) /\ name \in entries[k].names
    BY <1>2, <2>2 DEF NamesOfRule
  <2>4. PICK l \in DOMAIN entries : SameRule(entries[l], firsts[b]) /\ name \in entries[l].names
    BY <1>2, <2>2 DEF NamesOfRule
  <2>5. k # l
    <3>1. SUFFICES ASSUME k = l PROVE SameRule(firsts[a], firsts[b])
      BY <1>6, <1>9
    <3> QED
      BY <2>3, <2>4, <3>1 DEF SameRule
  <2>6. SameRule(grouped[a], entries[k]) /\ SameRule(grouped[b], entries[l])
    BY <1>8, <2>3, <2>4 DEF SameRule
  <2>7. Unfiltered(entries[k]) \/ Unfiltered(entries[l])
    BY <2>1, <2>6, SameRuleLoads DEF Unfiltered
  <2>8. entries[l] \in Excluded[entries[k]]
    BY <1>2, <2>3, <2>4, <2>7, ExcludedBy
  <2> QED
    BY <2>5, <2>8 DEF Lone, Separate
<1>10. Separate(grouped, Excluded)
  BY <1>8, <1>9 DEF Separate
<1>11. Separate(Arranged(grouped, before), Excluded)
  BY <1>8, <1>10, ArrangedSeparate
<1>12. ASSUME NEW g \in ToSet(Regrouped(entries)) PROVE LoadsOne(g)
  <2>1. PICK i \in FirstEntries(entries) : g = Grouped(entries, entries[i])
    BY RegroupedAre
  <2>2. entries[i] \in Entry /\ LoadsOne(entries[i])
    BY <1>2 DEF FirstEntries, Lone
  <2>3. SameRule(g, entries[i])
    BY <2>1, <2>2, NamesGrouped DEF SameRule
  <2> QED
    BY <2>2, <2>3, SameRuleLoads DEF LoadsOne
<1> QED
  BY <1>1, <1>11, <1>12 DEF Lone

\* Every rule of a result that decides all calls of a name stands alone.
LoneInv == folded > 0 => Lone(result.entries)

LEMMA LoneKept == ASSUME LoneInv, folded' = folded, result' = result PROVE LoneInv'
  BY DEF LoneInv

LEMMA StepLone ==
  ASSUME FieldsInv, SidesInv, LoneInv, Next \/ UNCHANGED vars
  PROVE  LoneInv'
<1>1. ASSUME NEW profile \in Profiles[arity], ValidateNext(profile) PROVE LoneInv'
  <2>1. folded' = 0
    BY <1>1 DEF ValidateNext, FieldsInv, CountsOK
  <2> QED
    BY <2>1 DEF LoneInv
<1>2. CASE RejectEmptyCall
  BY <1>2, LoneKept DEF RejectEmptyCall
<1>3. CASE NormalizeOnly
  <2>1. /\ Len(passed) = 1 /\ pc = "validate" /\ result' = Normalized(passed[1])
    BY <1>3 DEF NormalizeOnly
  <2>2. ProfileOK(passed[1])
    BY <2>1 DEF SidesInv, PassedOK
  <2>3. Lone(Normalized(passed[1]).entries)
    BY <2>2, NormalizedLone
  <2> QED
    BY <2>1, <2>3 DEF LoneInv
<1>4. CASE FoldFirstTwo
  <2>1. /\ Len(passed) \in Nat /\ Len(passed) > 1 /\ pc = "validate"
        /\ result' = MergeTwo(passed[1], passed[2])
    BY <1>4 DEF FoldFirstTwo, FieldsInv, CountsOK
  <2>2. 1 \in 1..Len(passed) /\ 2 \in 1..Len(passed)
    BY <2>1
  <2>3. ProfileOK(passed[1]) /\ ProfileOK(passed[2])
    BY <2>1, <2>2 DEF SidesInv, PassedOK
  <2>4. Lone(MergeTwo(passed[1], passed[2]).entries)
    BY <2>3, MergeTwoLone
  <2> QED
    BY <2>1, <2>4 DEF LoneInv
<1>5. CASE FoldNext
  <2>1. /\ Len(passed) = arity /\ arity \in Nat /\ folded \in 1..arity /\ folded < arity
        /\ result' = MergeTwo(result, passed[folded + 1])
    BY <1>5 DEF FoldNext, FieldsInv, CountsOK
  <2>2. folded + 1 \in 1..Len(passed) /\ folded > 0
    BY <2>1
  <2>3. ProfileOK(passed[folded + 1]) /\ ProfileOK(result)
    BY <2>2 DEF SidesInv, PassedOK, ResultOK, Finished
  <2>4. Lone(MergeTwo(result, passed[folded + 1]).entries)
    BY <2>3, MergeTwoLone
  <2> QED
    BY <2>1, <2>4 DEF LoneInv
<1>6. CASE Folded
  BY <1>6, LoneKept DEF Folded
<1>7. CASE ResolveListener
  BY <1>7, LoneKept DEF ResolveListener
<1>8. CASE Regroup
  <2>1. /\ folded > 0 /\ result'.entries = Regrouped(result.entries)
    BY <1>8 DEF Regroup, Rebuilt, FieldsInv, CountsOK
  <2>2. result.entries \in Seq(Entry) /\ Lone(result.entries)
    BY <2>1 DEF SidesInv, ResultOK, Finished, ProfileOK, LoneInv
  <2>3. Lone(Regrouped(result.entries))
    BY <2>2, RegroupLone
  <2> QED
    BY <2>1, <2>3 DEF LoneInv
<1>9. CASE UNCHANGED vars
  BY <1>9, LoneKept DEF vars
<1>10. CASE Returned
  BY <1>10, LoneKept DEF Returned, vars
<1> QED
  BY <1>1, <1>2, <1>3, <1>4, <1>5, <1>6, <1>7, <1>8, <1>9, <1>10 DEF Next

LEMMA AloneRules == Spec => []LoneInv
<1>1. Init => LoneInv
  BY DEF Init, LoneInv
<1>2. FieldsInv /\ SidesInv /\ LoneInv /\ [Next]_vars => LoneInv'
  BY StepLone
<1> QED
  BY <1>1, <1>2, Fields, Sides, PTL DEF Spec

LEMMA AloneIsCompiled == SidesInv /\ LoneInv => ResultIsCompiledAsWritten
<1> SUFFICES ASSUME SidesInv, LoneInv, folded > 0, NEW name \in Name
             PROVE  IF FirstUnconditional(Loads(result, name)) # NoClause
                    THEN Len(Loads(result, name)) = 1
                    ELSE Compiled(ToSet(Loads(result, name)))
  BY DEF ResultIsCompiledAsWritten, Loaded, Loads
<1> DEFINE s == Loads(result, name)
           first == FirstUnconditional(s)
           C == ToSet(s)
<1>1. /\ result.entries \in Seq(Entry) /\ Lone(result.entries)
      /\ s \in Seq(Clause) /\ Exact(C)
  BY ProfileDecides DEF SidesInv, ResultOK, LoneInv, Finished, ProfileOK
<1>2. CASE first \in Decisive /\ first \in C
  <2>1. first # NoClause
    BY <1>2, DecisiveIs
  <2>2. Len(s) = 1
    BY <1>1, <1>2, LoneLoads DEF Loads
  <2> QED
    BY <2>1, <2>2
<1>3. CASE first = NoClause /\ \A c \in C : c \in Conditional
  <2>1. C \in SUBSET Clause
    BY <1>1, SeqIs
  <2> HIDE DEF s, first
  <2>2. SafeShape(C)
    <3> HIDE DEF C
    <3>1. CASE \E c \in Decisive : C = {c}
      BY <1>3, <3>1 DEF Decisive, Conditional
    <3>2. CASE C \in SUBSET Conditional /\ SafeShape(C)
      BY <3>2
    <3> QED
      BY <1>1, <3>1, <3>2 DEF Exact
  <2>3. Compiled(C)
    <3> HIDE DEF C
    <3> QED
      BY <2>1, <2>2, ShapeCompiles
  <2> QED
    BY <1>3, <2>3 DEF s, first
<1> QED
  BY <1>1, <1>2, <1>3, FirstIs

\* Whatever rules the inputs hold, the result of every step loads and means
\* what it says: a syscall with an unconditional rule has that rule only, and
\* the rules of every other one are of a shape whose outcome libseccomp does
\* not leave to an order of its own (mergeProfileSyscalls, emitSyscall,
\* settleMultiplexed, regroupSyscalls).
THEOREM ResultIsCompiled == Spec => []ResultIsCompiledAsWritten
  BY AloneRules, Sides, AloneIsCompiled, PTL

-----------------------------------------------------------------------------
(* Bounds of the multiplexer path *)

\* On the safe side of every clause of a list.
Clears(c, s) == \A d \in ToSet(s) : OnSide(Rank(c), Rank(d))

LEMMA ClearsMore ==
  ASSUME NEW c \in Clause, NEW b \in Clause, OnSide(Rank(c), Rank(b)), NEW s \in Seq(Clause),
         Clears(b, s)
  PROVE  Clears(c, s)
<1>1. SUFFICES ASSUME NEW d \in ToSet(s) PROVE OnSide(Rank(c), Rank(d))
  BY DEF Clears
<1>2. d \in Clause /\ OnSide(Rank(b), Rank(d))
  BY SeqIs DEF Clears
<1>3. Rank(c) \in Int /\ Rank(b) \in Int /\ Rank(d) \in Int
  BY <1>2, RankIs
<1> QED
  BY <1>2, <1>3, SideTwice

LEMMA SafestClears ==
  ASSUME NEW s \in Seq(Clause), s # <<>>
  PROVE  Safest(s) \in Clause /\ Clears(Safest(s), s)
  BY SafestIs, DecisiveIs DEF Clears

LEMMA BoundClears ==
  ASSUME NEW c \in Clause, NEW s \in Seq(Clause), s # <<>>, OnSide(Rank(c), Rank(Safest(s)))
  PROVE  Clears(c, s)
  BY SafestClears, ClearsMore

LEMMA WithinClears ==
  ASSUME NEW c \in Clause, NEW s \in Seq(Clause), s # <<>>, Within(c, Safest(s))
  PROVE  Clears(c, s)
<1> DEFINE b == Safest(s)
<1>1. b \in Clause
  BY SafestClears
<1>2. Within(c, b)
  OBVIOUS
<1> HIDE DEF b
<1>3. Rank(PickClause(c, b)) = Rank(c)
  BY <1>2, Comparisons DEF Within
<1>4. OnSide(Rank(c), Rank(b))
  BY <1>1, <1>3, PickedClause DEF OnSide
<1> QED
  BY <1>4, BoundClears DEF b

\* A pick among a clause and bounds is on the safe side of each bound.
LEMMA PickedClears ==
  ASSUME NEW c \in Clause, NEW bounds \in Seq(Clause), NEW b \in ToSet(bounds)
  PROVE  OnSide(Rank(PickAmong(<<c>> \o bounds)), Rank(b))
<1> DEFINE one == <<c>>
           all == one \o bounds
<1>1. one \in Seq(Clause) /\ ToSet(one) = {c} /\ Len(one) = 1
  BY OneElement
<1> HIDE DEF one
<1>2. all \in Seq(Clause) /\ ToSet(all) = {c} \cup ToSet(bounds)
  BY <1>1, ConcatElements
<1>3. b \in ToSet(all)
  BY <1>2
<1>4. all # <<>>
  <2> HIDE DEF all
  <2> QED
    BY <1>3, EmptyList
<1> HIDE DEF all
<1>5. OnSide(Rank(PickAmong(all)), Rank(b))
  BY <1>2, <1>3, <1>4, PickedAmong DEF OnSide
<1> QED
  BY <1>5 DEF all, one

LEMMA BoundIsOne ==
  ASSUME NEW target \in ToSet(Multiplexers), NEW name \in ToSet(Carried[target]),
         NEW inputs \in Seq(InputType), NEW i \in DOMAIN inputs
  PROVE  /\ Bounds(target, name, inputs) \in Seq(Clause)
         /\ Safest(View(inputs[i], target, name)) \in ToSet(Bounds(target, name, inputs))
<1>1. Bounds(target, name, inputs) \in Seq(Clause)
  BY BoundsAre
<1>2. /\ i \in DOMAIN Bounds(target, name, inputs)
      /\ Bounds(target, name, inputs)[i] = Safest(View(inputs[i], target, name))
  BY DEF Bounds
<1> QED
  BY <1>1, <1>2, SeqIs

LEMMA PickInputsClears ==
  ASSUME NEW c \in Clause, NEW target \in ToSet(Multiplexers),
         NEW name \in ToSet(Carried[target]), NEW inputs \in Seq(InputType),
         NEW i \in DOMAIN inputs
  PROVE  Clears(PickInputs(c, target, name, inputs), View(inputs[i], target, name))
<1> DEFINE p == PickInputs(c, target, name, inputs)
           s == View(inputs[i], target, name)
           bounds == Bounds(target, name, inputs)
<1>1. p \in Clause /\ p = PickAmong(<<c>> \o bounds)
  BY PickInputsIs DEF PickInputs
<1>2. s \in Seq(Clause) /\ s # <<>>
  BY SeqIs, ViewIs
<1>3. bounds \in Seq(Clause) /\ Safest(s) \in ToSet(bounds)
  BY BoundIsOne
<1> HIDE DEF p, s, bounds
<1>4. OnSide(Rank(p), Rank(Safest(s)))
  BY <1>1, <1>3, PickedClears
<1>5. Clears(p, s)
  BY <1>1, <1>2, <1>4, BoundClears
<1> QED
  BY <1>5 DEF p, s

LEMMA PickAllInputsClears ==
  ASSUME NEW c \in Clause, NEW target \in ToSet(Multiplexers),
         NEW name \in ToSet(Carried[target]), NEW inputs \in Seq(InputType),
         NEW i \in DOMAIN inputs
  PROVE  Clears(PickAllInputs(c, target, inputs), View(inputs[i], target, name))
<1> DEFINE p == PickAllInputs(c, target, inputs)
           s == View(inputs[i], target, name)
           names == Carried[target]
           lists == [k \in DOMAIN names |-> Bounds(target, names[k], inputs)]
           all == FlattenSeq(lists)
           b == Safest(s)
<1>1. p \in Clause /\ p = PickAmong(<<c>> \o all)
  BY PickAllInputsIs DEF PickAllInputs
<1>2. s \in Seq(Clause) /\ s # <<>>
  BY SeqIs, ViewIs
<1>3. names \in Seq(Name)
  BY MultiplexNames
<1>4. /\ Len(names) \in Nat /\ DOMAIN names = 1..Len(names)
      /\ \A k \in 1..Len(names) : names[k] \in ToSet(names)
      /\ \E k \in 1..Len(names) : names[k] = name
  BY <1>3, SeqIs
<1>5. \A k \in 1..Len(names) : Bounds(target, names[k], inputs) \in Seq(Clause)
  BY <1>4, BoundsAre
<1>6. lists \in [1..Len(names) -> Seq(Clause)]
  BY <1>4, <1>5
<1>7. b \in ToSet(Bounds(target, name, inputs))
  BY BoundIsOne
<1>8. \E k \in 1..Len(names) : b \in ToSet(lists[k])
  BY <1>4, <1>7
<1> HIDE DEF lists, b
<1>9. all \in Seq(Clause) /\ ToSet(all) = UNION {ToSet(lists[k]) : k \in 1..Len(names)}
  <2> HIDE DEF names
  <2> QED
    BY <1>4, <1>6, FlattenedElements
<1>10. b \in ToSet(all)
  BY <1>8, <1>9
<1> HIDE DEF all, p, s
<1>11. OnSide(Rank(p), Rank(b))
  BY <1>1, <1>9, <1>10, PickedClears
<1>12. Clears(p, s)
  BY <1>1, <1>2, <1>11, BoundClears DEF b
<1> QED
  BY <1>12 DEF p, s

\* A profile whose rules for a multiplexer all have filters.
Filtered(in, target) ==
  in.rules[target] # <<>> /\ FirstUnconditional(in.rules[target]) = NoClause

LEMMA PickAnyCallClears ==
  ASSUME NEW c \in Clause, NEW target \in ToSet(Multiplexers), NEW inputs \in Seq(InputType),
         NEW i \in DOMAIN inputs, Filtered(inputs[i], target)
  PROVE  Clears(PickAnyCall(c, target, inputs), AnyCall(inputs[i], target))
<1> DEFINE in == inputs[i]
           p == PickAnyCall(c, target, inputs)
           s == AnyCall(in, target)
           I == {k \in DOMAIN inputs : /\ inputs[k].rules[target] # <<>>
                                       /\ FirstUnconditional(inputs[k].rules[target]) = NoClause}
           bounding == WithConditionalTarget(inputs, target)
           bounds == [k \in DOMAIN bounding |-> Safest(AnyCall(bounding[k], target))]
<1>1. in \in InputType /\ i \in I
  BY SeqIs DEF Filtered
<1>2. bounding \in Seq(InputType) /\ in \in ToSet(bounding)
  <2>1. bounding = Keep(inputs, I)
    BY DEF WithConditionalTarget
  <2> HIDE DEF I
  <2>2. /\ Keep(inputs, I) \in Seq(InputType)
        /\ ToSet(Keep(inputs, I)) = {inputs[k] : k \in {j \in DOMAIN inputs : j \in I}}
    BY KeepIs
  <2> QED
    BY <1>1, <2>1, <2>2
<1>3. p \in Clause /\ p = PickAmong(<<c>> \o bounds)
  BY PickAnyCallIs DEF PickAnyCall
<1>4. s \in Seq(Clause) /\ s # <<>>
  BY <1>1, AnyCallIs
<1> HIDE DEF bounding, in, I
<1>5. /\ Len(bounding) \in Nat /\ DOMAIN bounding = 1..Len(bounding)
      /\ \A k \in 1..Len(bounding) : bounding[k] \in InputType
      /\ \E k \in 1..Len(bounding) : bounding[k] = in
  BY <1>2, SeqIs
<1>6. \A k \in 1..Len(bounding) : Safest(AnyCall(bounding[k], target)) \in Clause
  BY <1>5, AnyCallIs, SafestIs, DecisiveIs
<1>7. bounds \in Seq(Clause)
  BY <1>5, <1>6
<1>8. \E k \in DOMAIN bounds : bounds[k] = Safest(s)
  BY <1>5
<1> HIDE DEF bounds, p, s
<1>9. Safest(s) \in ToSet(bounds)
  BY <1>7, <1>8, SeqIs
<1>10. OnSide(Rank(p), Rank(Safest(s)))
  BY <1>3, <1>7, <1>9, PickedClears
<1>11. Clears(p, s)
  BY <1>3, <1>4, <1>10, BoundClears
<1> QED
  BY <1>11 DEF p, s, in

-----------------------------------------------------------------------------
(* What settling makes of a multiplexer *)

LEMMA ClearsAlike ==
  ASSUME NEW c, NEW d, Rank(c) = Rank(d), NEW s, Clears(c, s)
  PROVE  Clears(d, s)
  BY DEF Clears

LEMMA HeldFirst ==
  ASSUME NEW kept \in Decisive \cup {NoClause}
  PROVE  /\ FirstUnconditional(Holding(kept)) = kept
         /\ \A c \in ToSet(Holding(kept)) : Unconditional(c)
         /\ Holding(kept) \in Seq(Clause) /\ (Holding(kept) = <<>> <=> kept = NoClause)
<1>1. CASE kept = NoClause
  <2> DEFINE none == <<>>
  <2>1. none \in Seq(Clause) /\ ToSet(none) = {}
    BY EmptyList
  <2>2. Holding(kept) = none
    BY <1>1 DEF Holding
  <2>3. none = <<>>
    OBVIOUS
  <2> HIDE DEF none
  <2>4. FirstUnconditional(none) = NoClause
    BY <2>1, FirstIs, DecisiveIs
  <2> QED
    BY <1>1, <2>1, <2>2, <2>3, <2>4
<1>2. CASE kept # NoClause
  <2> DEFINE one == <<kept>>
  <2>1. kept \in Decisive /\ kept \in Clause /\ kept.args = {}
    BY <1>2, DecisiveIs
  <2>2. Holding(kept) = one
    BY <1>2 DEF Holding
  <2>3. one \in Seq(Clause) /\ ToSet(one) = {kept} /\ one # <<>>
    BY <2>1, OneElement
  <2> HIDE DEF one
  <2>4. FirstUnconditional(one) = kept
    BY <2>1, <2>3, DirectOne
  <2> QED
    BY <1>2, <2>1, <2>2, <2>3, <2>4 DEF Unconditional
<1> QED
  BY <1>1, <1>2

\* The clause that decides a call of a multiplexer.
Decider(in, target) ==
  IF FirstUnconditional(in.rules[target]) = NoClause THEN in.default
  ELSE FirstUnconditional(in.rules[target])

TargetSettled(in, target, inputs) ==
  /\ \A c \in ToSet(in.rules[target]) : Unconditional(c)
  /\ FirstUnconditional(in.rules[target]) # NoClause =>
       \A name \in ToSet(Carried[target]), i \in DOMAIN inputs :
         Clears(FirstUnconditional(in.rules[target]), View(inputs[i], target, name))
  /\ \A i \in DOMAIN inputs :
       Filtered(inputs[i], target) => Clears(Decider(in, target), AnyCall(inputs[i], target))

\* It is about the rules of the multiplexer and the default only.
LEMMA TargetAlike ==
  ASSUME NEW in, NEW other, NEW target, NEW inputs, TargetSettled(in, target, inputs),
         other.rules[target] = in.rules[target], other.default = in.default
  PROVE  TargetSettled(other, target, inputs)
  BY DEF TargetSettled, Decider

LEMMA TargetHeld ==
  ASSUME NEW in, NEW target, NEW inputs, NEW kept \in Decisive \cup {NoClause},
         in.rules[target] = Holding(kept),
         kept # NoClause =>
           \A name \in ToSet(Carried[target]), i \in DOMAIN inputs :
             Clears(kept, View(inputs[i], target, name)),
         \A i \in DOMAIN inputs :
           Filtered(inputs[i], target) =>
             Clears(Deciding(kept, in.default), AnyCall(inputs[i], target))
  PROVE  TargetSettled(in, target, inputs)
<1>1. /\ FirstUnconditional(in.rules[target]) = kept
      /\ \A c \in ToSet(in.rules[target]) : Unconditional(c)
  BY HeldFirst
<1>2. Decider(in, target) = Deciding(kept, in.default)
  BY <1>1 DEF Decider, Deciding
<1> QED
  BY <1>1, <1>2 DEF TargetSettled

LEMMA ReplaceRules ==
  ASSUME NEW default \in Decisive, NEW before, NEW st \in State(before, default),
         NEW name \in MultiplexName, NEW rule \in Clause
  PROVE  LET q == Replace(st, name, rule)
             kept == KeptRule(rule, default)
         IN /\ q.result.default = default
            /\ q.result.rules[name] = Holding(kept)
            /\ \A other \in MultiplexName \ {name} :
                 q.result.rules[other] = st.result.rules[other]
            /\ kept \in Decisive \cup {NoClause}
            /\ Rank(Deciding(kept, default)) = Rank(rule)
<1> DEFINE q == Replace(st, name, rule)
           kept == KeptRule(rule, default)
           rules == [st.result.rules EXCEPT ![name] = Holding(kept)]
<1>1. st.result.rules \in [MultiplexName -> Seq(Clause)]
  BY StateFields
<1>2. q.result.rules = rules /\ q.result.default = default
  BY ReplaceIs
<1>3. kept \in Decisive \cup {NoClause} /\ Rank(Deciding(kept, default)) = Rank(rule)
  BY KeptRuleIs
<1> HIDE DEF q, kept
<1> QED
  BY <1>1, <1>2, <1>3 DEF q, kept

\* A rule that clears what the inputs apply may replace those of a multiplexer.
LEMMA TargetReplaced ==
  ASSUME NEW default \in Decisive, NEW before, NEW st \in State(before, default),
         NEW target \in ToSet(Multiplexers), NEW inputs, NEW rule \in Clause,
         \A name \in ToSet(Carried[target]), i \in DOMAIN inputs :
           Clears(rule, View(inputs[i], target, name)),
         \A i \in DOMAIN inputs :
           Filtered(inputs[i], target) => Clears(rule, AnyCall(inputs[i], target))
  PROVE  TargetSettled(Replace(st, target, rule).result, target, inputs)
<1> DEFINE in == Replace(st, target, rule).result
           kept == KeptRule(rule, default)
<1>1. target \in MultiplexName
  BY MultiplexNames
<1>2. /\ in.default = default /\ in.rules[target] = Holding(kept)
      /\ kept \in Decisive \cup {NoClause} /\ Rank(Deciding(kept, default)) = Rank(rule)
  BY <1>1, ReplaceRules
<1> HIDE DEF in, kept
<1>3. ASSUME kept # NoClause, NEW name \in ToSet(Carried[target]), NEW i \in DOMAIN inputs
      PROVE  Clears(kept, View(inputs[i], target, name))
  <2>1. Rank(rule) = Rank(kept)
    BY <1>2, <1>3 DEF Deciding
  <2>2. Clears(rule, View(inputs[i], target, name))
    OBVIOUS
  <2> QED
    BY <2>1, <2>2, ClearsAlike
<1>4. ASSUME NEW i \in DOMAIN inputs, Filtered(inputs[i], target)
      PROVE  Clears(Deciding(kept, in.default), AnyCall(inputs[i], target))
  <2>1. Rank(rule) = Rank(Deciding(kept, in.default))
    BY <1>2
  <2>2. Clears(rule, AnyCall(inputs[i], target))
    BY <1>4
  <2> QED
    BY <2>1, <2>2, ClearsAlike
<1>5. TargetSettled(in, target, inputs)
  BY <1>2, <1>3, <1>4, TargetHeld
<1> QED
  BY <1>5 DEF in

\* Rules of a multiplexer that hide the others are kept where they clear what
\* the inputs apply.
LEMMA HiddenClears ==
  ASSUME NEW current \in Seq(Clause), current # <<>>, NEW target \in ToSet(Multiplexers),
         NEW inputs \in Seq(InputType), HidesOnly(current, FirstUnconditional(current), target, inputs)
  PROVE  LET first == FirstUnconditional(current) IN
         /\ first \in Decisive /\ first # NoClause
         /\ \A c \in ToSet(current) : Unconditional(c)
         /\ \A name \in ToSet(Carried[target]), i \in DOMAIN inputs :
              Clears(first, View(inputs[i], target, name))
         /\ \A i \in DOMAIN inputs :
              Filtered(inputs[i], target) => Clears(first, AnyCall(inputs[i], target))
<1> DEFINE first == FirstUnconditional(current)
<1>1. \A c \in ToSet(current) : Unconditional(c)
  BY SeqIs DEF HidesOnly
<1>2. first \in Decisive
  <2>1. PICK c \in ToSet(current) : TRUE
    BY SeqIs
  <2>2. c \notin Conditional
    BY <1>1, <2>1 DEF Conditional, Unconditional
  <2> QED
    BY <2>1, <2>2, FirstIs
<1>3. first \in Clause /\ first # NoClause /\ Rank(first) \in Int
  BY <1>2, DecisiveIs
<1>4. HidesSafely(first, target, inputs) /\ SameResult(PickAnyCall(first, target, inputs), first)
  BY DEF HidesOnly
<1> HIDE DEF first
<1>5. ASSUME NEW name \in ToSet(Carried[target]), NEW i \in DOMAIN inputs
      PROVE  Clears(first, View(inputs[i], target, name))
  <2>1. PICK k \in DOMAIN Carried[target] : Carried[target][k] = name
    BY MultiplexNames, SeqIs
  <2>2. Within(first, Safest(View(inputs[i], target, name)))
    BY <1>4, <2>1 DEF HidesSafely
  <2>3. inputs[i] \in InputType
    BY SeqIs
  <2>4. View(inputs[i], target, name) \in Seq(Clause) /\ View(inputs[i], target, name) # <<>>
    BY <2>3, ViewIs
  <2> QED
    BY <1>3, <2>2, <2>4, WithinClears
<1>6. ASSUME NEW i \in DOMAIN inputs, Filtered(inputs[i], target)
      PROVE  Clears(first, AnyCall(inputs[i], target))
  <2>1. Clears(PickAnyCall(first, target, inputs), AnyCall(inputs[i], target))
    BY <1>3, <1>6, PickAnyCallClears
  <2>2. Rank(PickAnyCall(first, target, inputs)) = Rank(first)
    BY <1>4, Comparisons
  <2> QED
    BY <2>1, <2>2, ClearsAlike
<1> QED
  BY <1>1, <1>2, <1>3, <1>5, <1>6 DEF first

\* The four ways to settle a multiplexer.
LEMMA MultiplexerWays ==
  ASSUME NEW st, NEW target, NEW inputs
  PROVE  LET current == st.result.rules[target]
             collapsed == PickAnyCall(Collapsed(st.result, target), target, inputs)
             q == SettleMultiplexer(st, target, inputs)
         IN \/ current = <<>> /\ SameResult(collapsed, st.result.default) /\ q = st
            \/ /\ current # <<>>
               /\ HidesOnly(current, FirstUnconditional(current), target, inputs)
               /\ \/ q = st
                  \/ /\ Equivalent(FirstUnconditional(current), st.result.default)
                     /\ q = [Replace(st, target, st.result.default)
                               EXCEPT !.unhidden = @ \cup {target}]
            \/ q = Replace(st, target, PickAllInputs(collapsed, target, inputs))
<1> DEFINE current == st.result.rules[target]
           collapsed == PickAnyCall(Collapsed(st.result, target), target, inputs)
           hides == HidesOnly(current, FirstUnconditional(current), target, inputs)
<1>1. SettleMultiplexer(st, target, inputs)
        = IF current = <<>> /\ SameResult(collapsed, st.result.default) THEN st
          ELSE IF current # <<>> /\ hides
          THEN IF Unhides(st.result, target, inputs)
               THEN [Replace(st, target, st.result.default) EXCEPT !.unhidden = @ \cup {target}]
               ELSE st
          ELSE Replace(st, target, PickAllInputs(collapsed, target, inputs))
  BY DEF SettleMultiplexer, SettleTo
<1>2. Unhides(st.result, target, inputs) => Equivalent(FirstUnconditional(current), st.result.default)
  BY DEF Unhides
<1> HIDE DEF collapsed, current
<1> QED
  <2> DEFINE dropped == [Replace(st, target, st.result.default) EXCEPT !.unhidden = @ \cup {target}]
             picked == Replace(st, target, PickAllInputs(collapsed, target, inputs))
             same == SameResult(collapsed, st.result.default)
  <2> HIDE DEF dropped, picked, hides, same
  <2> QED
    BY <1>1, <1>2 DEF dropped, picked, hides, same, collapsed, current

LEMMA SameRecordResult ==
  ASSUME NEW st, NEW R, NEW d, NEW P, NEW U,
         st = [result |-> [rules |-> R, default |-> d], replaced |-> P, unhidden |-> U],
         NEW V, NEW q, q = [st EXCEPT !.unhidden = V]
  PROVE  q.result = st.result
  OBVIOUS

LEMMA UnhiddenResult ==
  ASSUME NEW default \in Decisive, NEW before, NEW st \in State(before, default), NEW name,
         NEW rule, NEW target
  PROVE  [Replace(st, name, rule) EXCEPT !.unhidden = @ \cup {target}].result
           = Replace(st, name, rule).result
<1> DEFINE r == Replace(st, name, rule)
           R == [st.result.rules EXCEPT ![name] = Holding(KeptRule(rule, default))]
           P == WithRule(st.replaced, name, KeptRule(rule, default))
           U == st.unhidden
           q == [r EXCEPT !.unhidden = @ \cup {target}]
           V == r.unhidden \cup {target}
<1>1. r = [result |-> [rules |-> R, default |-> default], replaced |-> P, unhidden |-> U]
  BY ReplaceIs
<1>2. q = [r EXCEPT !.unhidden = V]
  OBVIOUS
<1> HIDE DEF r, R, P, U, V, q
<1>3. q.result = r.result
  BY <1>1, <1>2, SameRecordResult
<1> QED
  BY <1>3 DEF q, r

LEMMA MultiplexerSettles ==
  ASSUME NEW default \in Decisive, NEW before \in [MultiplexName -> Seq(Clause)],
         NEW st \in State(before, default), NEW target \in ToSet(Multiplexers),
         NEW inputs \in Seq(InputType)
  PROVE  TargetSettled(SettleMultiplexer(st, target, inputs).result, target, inputs)
<1> DEFINE current == st.result.rules[target]
           own == Collapsed(st.result, target)
           collapsed == PickAnyCall(own, target, inputs)
           rule == PickAllInputs(collapsed, target, inputs)
           first == FirstUnconditional(current)
           q == SettleMultiplexer(st, target, inputs)
<1>1. target \in MultiplexName
  BY MultiplexNames
<1>2. st.result \in InputType /\ st.result.default = default /\ current \in Seq(Clause)
  <2>1. /\ st.result \in InputType /\ st.result.default = default
        /\ st.result.rules \in [MultiplexName -> Seq(Clause)]
    BY StateFields
  <2> QED
    BY <1>1, <2>1
<1>3. own \in Clause
  BY <1>1, <1>2, CollapsedBeyond
<1>4. collapsed \in Clause
  BY <1>3, PickAnyCallIs
<1>5. ASSUME NEW i \in DOMAIN inputs, Filtered(inputs[i], target)
      PROVE  Clears(collapsed, AnyCall(inputs[i], target))
  BY <1>3, <1>5, PickAnyCallClears
<1>6. ASSUME current = <<>>, SameResult(collapsed, st.result.default), q = st
      PROVE  TargetSettled(q.result, target, inputs)
  <2> HIDE DEF own, collapsed
  <2>1. Rank(collapsed) = Rank(default)
    BY <1>2, <1>6, Comparisons
  <2>2. NoClause \in Decisive \cup {NoClause} /\ Holding(NoClause) = <<>>
        /\ Deciding(NoClause, st.result.default) = default
    BY <1>2 DEF Holding, Deciding
  <2>3. ASSUME NEW i \in DOMAIN inputs, Filtered(inputs[i], target)
        PROVE  Clears(default, AnyCall(inputs[i], target))
    BY <1>5, <2>1, <2>3, ClearsAlike
  <2>4. TargetSettled(st.result, target, inputs)
    BY <1>6, <2>2, <2>3, TargetHeld
  <2> QED
    BY <1>6, <2>4
<1>7. ASSUME current # <<>>, HidesOnly(current, first, target, inputs), q = st
      PROVE  TargetSettled(q.result, target, inputs)
  <2>1. /\ first # NoClause
        /\ \A c \in ToSet(current) : Unconditional(c)
        /\ \A name \in ToSet(Carried[target]), i \in DOMAIN inputs :
             Clears(first, View(inputs[i], target, name))
        /\ \A i \in DOMAIN inputs :
             Filtered(inputs[i], target) => Clears(first, AnyCall(inputs[i], target))
    <3> HIDE DEF current
    <3> QED
      BY <1>2, <1>7, HiddenClears DEF first
  <2>2. Decider(st.result, target) = first
    BY <2>1 DEF Decider
  <2> QED
    BY <1>7, <2>1, <2>2 DEF TargetSettled
<1>8. ASSUME current # <<>>, HidesOnly(current, first, target, inputs),
             Equivalent(first, st.result.default),
             q = [Replace(st, target, st.result.default) EXCEPT !.unhidden = @ \cup {target}]
      PROVE  TargetSettled(q.result, target, inputs)
  <2>1. /\ first \in Decisive
        /\ \A name \in ToSet(Carried[target]), i \in DOMAIN inputs :
             Clears(first, View(inputs[i], target, name))
        /\ \A i \in DOMAIN inputs :
             Filtered(inputs[i], target) => Clears(first, AnyCall(inputs[i], target))
    <3> HIDE DEF current
    <3> QED
      BY <1>2, <1>8, HiddenClears DEF first
  <2>2. Rank(first) = Rank(default) /\ default \in Clause
    BY <1>2, <1>8, Comparisons, DecisiveIs
  <2>3. /\ \A name \in ToSet(Carried[target]), i \in DOMAIN inputs :
             Clears(default, View(inputs[i], target, name))
        /\ \A i \in DOMAIN inputs :
             Filtered(inputs[i], target) => Clears(default, AnyCall(inputs[i], target))
    <3> HIDE DEF first
    <3> QED
      BY <2>1, <2>2 DEF Clears
  <2>4. q.result = Replace(st, target, default).result
    BY <1>2, <1>8, UnhiddenResult
  <2> HIDE DEF q, first
  <2>5. TargetSettled(Replace(st, target, default).result, target, inputs)
    BY <2>2, <2>3, TargetReplaced
  <2> QED
    BY <2>4, <2>5
<1>9. ASSUME q = Replace(st, target, rule)
      PROVE  TargetSettled(q.result, target, inputs)
  <2>1. rule \in Clause /\ OnSide(Rank(rule), Rank(collapsed))
    BY <1>4, PickAllInputsIs
  <2>2. ASSUME NEW name \in ToSet(Carried[target]), NEW i \in DOMAIN inputs
        PROVE  Clears(rule, View(inputs[i], target, name))
    BY <1>4, PickAllInputsClears
  <2> HIDE DEF collapsed, rule
  <2>3. ASSUME NEW i \in DOMAIN inputs, Filtered(inputs[i], target)
        PROVE  Clears(rule, AnyCall(inputs[i], target))
    <3>1. inputs[i] \in InputType
      BY SeqIs
    <3>2. AnyCall(inputs[i], target) \in Seq(Clause)
      BY <3>1, AnyCallIs
    <3>3. Clears(collapsed, AnyCall(inputs[i], target))
      BY <1>5, <2>3
    <3> QED
      BY <1>4, <2>1, <3>2, <3>3, ClearsMore
  <2>4. TargetSettled(Replace(st, target, rule).result, target, inputs)
    BY <2>1, <2>2, <2>3, TargetReplaced
  <2> QED
    BY <1>9, <2>4
<1>10. \/ current = <<>> /\ SameResult(collapsed, st.result.default) /\ q = st
       \/ /\ current # <<>> /\ HidesOnly(current, first, target, inputs)
          /\ \/ q = st
             \/ /\ Equivalent(first, st.result.default)
                /\ q = [Replace(st, target, st.result.default) EXCEPT !.unhidden = @ \cup {target}]
       \/ q = Replace(st, target, rule)
  BY MultiplexerWays
<1> HIDE DEF q, current, first, rule, collapsed
<1>11. TargetSettled(q.result, target, inputs)
  <2>1. CASE current = <<>> /\ SameResult(collapsed, st.result.default) /\ q = st
    BY <1>6, <2>1
  <2>2. CASE /\ current # <<>> /\ HidesOnly(current, first, target, inputs)
             /\ q = st
    BY <1>7, <2>2
  <2>3. CASE /\ current # <<>> /\ HidesOnly(current, first, target, inputs)
             /\ Equivalent(first, st.result.default)
             /\ q = [Replace(st, target, st.result.default) EXCEPT !.unhidden = @ \cup {target}]
    BY <1>8, <2>3
  <2>4. CASE q = Replace(st, target, rule)
    BY <1>9, <2>4
  <2> QED
    BY <1>10, <2>1, <2>2, <2>3, <2>4
<1> QED
  BY <1>11 DEF q

\* Neither touches the rules of other names.
LEMMA MultiplexerOthers ==
  ASSUME NEW default \in Decisive, NEW before \in [MultiplexName -> Seq(Clause)],
         NEW st \in State(before, default), NEW target \in ToSet(Multiplexers),
         NEW inputs \in Seq(InputType), NEW other \in MultiplexName \ {target}
  PROVE  SettleMultiplexer(st, target, inputs).result.rules[other] = st.result.rules[other]
<1> DEFINE collapsed == PickAnyCall(Collapsed(st.result, target), target, inputs)
           rule == PickAllInputs(collapsed, target, inputs)
           q == SettleMultiplexer(st, target, inputs)
<1>1. target \in MultiplexName
  BY MultiplexNames
<1>2. st.result \in InputType /\ st.result.default = default /\ default \in Clause
  BY StateFields, DecisiveIs
<1>3. collapsed \in Clause
  BY <1>1, <1>2, CollapsedBeyond, PickAnyCallIs
<1>4. rule \in Clause
  BY <1>3, PickAllInputsIs
<1> HIDE DEF collapsed, rule
<1>5. /\ Replace(st, target, rule).result.rules[other] = st.result.rules[other]
      /\ Replace(st, target, default).result.rules[other] = st.result.rules[other]
  BY <1>1, <1>2, <1>4, ReplaceRules
<1>6. [Replace(st, target, default) EXCEPT !.unhidden = @ \cup {target}].result
        = Replace(st, target, default).result
  BY UnhiddenResult
<1>7. q \in {st, Replace(st, target, rule),
             [Replace(st, target, default) EXCEPT !.unhidden = @ \cup {target}]}
  BY <1>2, MultiplexerWays DEF rule, collapsed
<1> HIDE DEF q
<1>8. q.result \in {st.result, Replace(st, target, rule).result, Replace(st, target, default).result}
  BY <1>6, <1>7
<1>9. q.result.rules[other] = st.result.rules[other]
  BY <1>5, <1>8
<1> QED
  BY <1>9 DEF q

SyscallOthersHold(st, q, name) ==
  \A other \in MultiplexName \ {name} : q.result.rules[other] = st.result.rules[other]

LEMMA SyscallOthers ==
  ASSUME NEW default \in Decisive, NEW before \in [MultiplexName -> Seq(Clause)],
         NEW st \in State(before, default), NEW target \in ToSet(Multiplexers),
         NEW name \in ToSet(Carried[target]), NEW inputs \in Seq(InputType)
  PROVE  SyscallOthersHold(st, SettleMultiplexedSyscall(st, target, name, inputs), name)
<1> DEFINE collapsed == Collapsed(st.result, name)
           picked == PickInputs(collapsed, target, name, inputs)
           q == SettleMultiplexedSyscall(st, target, name, inputs)
<1>1. name \in MultiplexName /\ st.result \in InputType
  BY MultiplexNames, StateFields
<1>2. collapsed \in Clause
  BY <1>1, CollapsedBeyond
<1> HIDE DEF collapsed
<1>3. picked \in Clause
  BY <1>2, PickInputsIs
<1> HIDE DEF picked
<1>4. q \in {st, Replace(st, name, collapsed), Replace(st, name, picked)}
  BY DEF SettleMultiplexedSyscall, collapsed, picked
<1>5. SyscallOthersHold(st, Replace(st, name, collapsed), name)
  BY <1>1, <1>2, ReplaceRules DEF SyscallOthersHold
<1>6. SyscallOthersHold(st, Replace(st, name, picked), name)
  BY <1>1, <1>3, ReplaceRules DEF SyscallOthersHold
<1>7. SyscallOthersHold(st, st, name)
  BY DEF SyscallOthersHold
<1> HIDE DEF q
<1>8. SyscallOthersHold(st, q, name)
  BY <1>4, <1>5, <1>6, <1>7
<1> QED
  BY <1>8 DEF q

-----------------------------------------------------------------------------
(* What settling makes of a syscall of a multiplexer *)

LEMMA LeastSafeIs ==
  ASSUME NEW s \in Seq(Clause), s # <<>>
  PROVE  LeastSafe(s) \in Clause /\ \A c \in ToSet(s) : OnSide(Rank(c), Rank(LeastSafe(s)))
<1> DEFINE p == IF Intersecting THEN FirstLoosest(s) ELSE FirstStrictest(s)
<1>1. /\ p \in ToSet(s) /\ p \in Clause
      /\ \A c \in ToSet(s) : OnSide(Rank(c), Rank(p))
  <2>1. ToSet(s) \subseteq Clause
    BY SeqIs
  <2> QED
    BY <2>1, StrictestIs, LoosestIs DEF OnSide
<1>2. LeastSafe(s) = Under(p, {})
  BY DEF LeastSafe, Strictest, Loosest, Under
<1> HIDE DEF p
<1>3. Under(p, {}) \in Clause /\ Rank(Under(p, {})) = Rank(p)
  BY <1>1, EmptyFilter, UnderIs, RankUnder
<1> QED
  BY <1>1, <1>2, <1>3

\* A copy on the multiplexer is a clause like any other.
LEMMA CopiesAre ==
  ASSUME NEW s \in Seq(Clause)
  PROVE  /\ Copies(s) \in SUBSET Clause /\ Multiplexed(s) = Copies(s)
         /\ \A d \in Copies(s) : \E c \in ToSet(s) : d.action = c.action /\ d.errno = c.errno
         /\ \A c \in ToSet(s) : \E d \in Copies(s) : d.action = c.action /\ d.errno = c.errno
<1> DEFINE rest(c) == {arg \in c.args : arg.index # 0}
           copy(c) == [c EXCEPT !.args = {arg \in @ : arg.index # 0}]
<1>1. Multiplexed(s) = Copies(s) /\ Copies(s) = {copy(c) : c \in ToSet(s)}
  BY DEF Multiplexed, Copies
<1>2. ASSUME NEW c \in ToSet(s)
      PROVE  copy(c) \in Clause /\ copy(c).action = c.action /\ copy(c).errno = c.errno
  <2>1. c \in Clause
    BY SeqIs
  <2>2. copy(c) = Under(c, rest(c))
    BY DEF Under
  <2>3. LoadedFilter(c.args) /\ rest(c) \subseteq c.args
    BY <2>1, ClauseFields
  <2>4. LoadedFilter(rest(c))
    <3>1. IsFiniteSet(rest(c))
      BY <2>3, FS_Subset DEF LoadedFilter
    <3> QED
      BY <2>3, <3>1 DEF LoadedFilter, Filter
  <2> HIDE DEF rest
  <2>5. Under(c, rest(c)) \in Clause /\ Under(c, rest(c)).action = c.action
        /\ Under(c, rest(c)).errno = c.errno
    BY <2>1, <2>4, UnderIs
  <2> QED
    BY <2>2, <2>5
<1> HIDE DEF copy
<1> QED
  BY <1>1, <1>2

\* Whether rules can be refused is a matter of their set.
LEMMA RefusableAlike ==
  ASSUME NEW s, NEW t, ToSet(s) = ToSet(t)
  PROVE  Refusable(s) <=> Refusable(t)
<1>1. Copies(s) = Copies(t)
  BY DEF Copies
<1> QED
  BY <1>1 DEF Refusable

\* What the code takes libseccomp to accept, it does accept.
LEMMA NotRefused ==
  ASSUME NEW s \in Seq(Clause), s = <<>> \/ ~Refused(s)
  PROVE  ~Refusable(s)
<1> DEFINE M == Copies(s)
<1>1. /\ M \in SUBSET Clause /\ Multiplexed(s) = M
      /\ \A d \in M : \E c \in ToSet(s) : d.action = c.action /\ d.errno = c.errno
  BY CopiesAre
<1> HIDE DEF M
<1>2. SUFFICES ASSUME NEW c \in M, NEW d \in M, Rank(c) # Rank(d) \/ c.errno # d.errno,
                      Whole(M) \/ ~Compiled(M)
               PROVE  FALSE
  BY DEF Refusable, M
<1>3. PICK x \in ToSet(s), y \in ToSet(s) :
        c.action = x.action /\ c.errno = x.errno /\ d.action = y.action /\ d.errno = y.errno
  BY <1>1, <1>2
<1>4. Rank(x) # Rank(y) \/ x.errno # y.errno
  BY <1>2, <1>3 DEF Rank
<1>5. s # <<>> /\ s[1] \in Clause /\ x \in Clause /\ y \in Clause /\ 1 \in DOMAIN s
  BY <1>3, SeqIs
<1>6. Mixed(s)
  <2>1. SUFFICES ASSUME \A i \in DOMAIN s : SameResult(s[i], s[1]) PROVE FALSE
    BY DEF Mixed
  <2>2. \A z \in ToSet(s) : SameResult(z, s[1])
    BY <2>1, SeqIs
  <2>3. SameResult(x, s[1]) /\ SameResult(y, s[1])
    BY <1>3, <2>2
  <2>4. SameResult(s[1], y)
    BY <1>5, <2>3, SameResults
  <2>5. SameResult(x, y)
    BY <1>5, <2>3, <2>4, SameResultTwice
  <2> QED
    BY <1>4, <1>5, <2>5, SameResults, Comparisons
<1>7. ~WholeSubcall(s) /\ SafeShape(M)
  BY <1>1, <1>5, <1>6 DEF Refused
<1>8. ~Whole(M)
  BY <1>1, <1>7 DEF WholeSubcall, Whole
<1> QED
  BY <1>1, <1>2, <1>7, <1>8, ShapeCompiles

\* One rule in place of many cannot.
LEMMA RefusableHeld ==
  ASSUME NEW kept \in Decisive \cup {NoClause}
  PROVE  ~Refusable(Holding(kept))
<1> DEFINE s == Holding(kept)
<1>1. s \in Seq(Clause) /\ \A c, d \in ToSet(s) : c = d
  BY HeldFirst, HeldExact
<1> HIDE DEF s
<1>2. \A c, d \in Copies(s) : c.action = d.action /\ c.errno = d.errno
  BY <1>1, CopiesAre
<1>3. ~Refusable(s)
  BY <1>2 DEF Refusable, Rank
<1> QED
  BY <1>3 DEF s

ViewRanks(in, target, name) == RanksOf(ToSet(View(in, target, name)))

\* The three ways in which the rules of a syscall heed those of an input.
Heeded(in, input, target, name) ==
  \/ SameRules(in, input, target, name)
  \/ SameDirect(in, input, target, name)
  \/ AllOnSide(ViewRanks(in, target, name), ViewRanks(input, target, name))

NameSettled(in, target, name, inputs) ==
  /\ ~Refusable(in.rules[name])
  /\ in.rules[target] = <<>> => \A i \in DOMAIN inputs : Heeded(in, inputs[i], target, name)

LEMMA NoneFirst == FirstUnconditional(<<>>) = NoClause
<1>1. Holding(NoClause) = <<>> /\ FirstUnconditional(Holding(NoClause)) = NoClause
  BY HeldFirst DEF Holding
<1> QED
  BY <1>1

\* It is about the rules of the syscall and of the multiplexer, and the default.
LEMMA NameAlike ==
  ASSUME NEW in, NEW other, NEW target, NEW name, NEW inputs,
         NameSettled(in, target, name, inputs),
         other.rules[target] = in.rules[target], other.rules[name] = in.rules[name],
         other.default = in.default
  PROVE  NameSettled(other, target, name, inputs)
<1>1. ASSUME in.rules[target] = <<>> PROVE View(other, target, name) = View(in, target, name)
  BY <1>1, NoneFirst DEF View
<1>2. ASSUME in.rules[target] = <<>>, NEW i \in DOMAIN inputs,
             Heeded(in, inputs[i], target, name)
      PROVE  Heeded(other, inputs[i], target, name)
  BY <1>1, <1>2 DEF Heeded, SameRules, SameDirect, NoTarget, ViewRanks
<1> QED
  BY <1>2 DEF NameSettled

\* The view of one rule, or of none, with no rules of the multiplexer.
LEMMA HeldView ==
  ASSUME NEW in, NEW target, NEW name, NEW kept \in Decisive \cup {NoClause},
         in.default \in Decisive,
         in.rules[target] = <<>>, in.rules[name] = Holding(kept)
  PROVE  ViewRanks(in, target, name) = {Rank(Deciding(kept, in.default))}
<1>1. CASE kept = NoClause
  <2>1. View(in, target, name) = Append(<<>>, in.default)
    BY <1>1, NoneFirst DEF View, Holding
  <2>2. Append(<<>>, in.default) = <<in.default>>
    OBVIOUS
  <2>3. ToSet(<<in.default>>) = {in.default}
    BY OneElement
  <2> QED
    BY <1>1, <2>1, <2>2, <2>3 DEF ViewRanks, RanksOf, Deciding
<1>2. CASE kept # NoClause
  <2> DEFINE one == <<kept>>
  <2>1. kept \in Decisive /\ kept \in Clause /\ kept.args = {}
    BY <1>2, DecisiveIs
  <2>2. one \in Seq(Clause) /\ ToSet(one) = {kept} /\ one # <<>> /\ Holding(kept) = one
    BY <1>2, <2>1, OneElement DEF Holding
  <2> HIDE DEF one
  <2>3. WholeSubcall(one)
    <3>1. [kept EXCEPT !.args = {arg \in @ : arg.index # 0}] \in Multiplexed(one)
      BY <2>2 DEF Multiplexed
    <3>2. [kept EXCEPT !.args = {arg \in @ : arg.index # 0}] = Under(kept, {})
      BY <2>1 DEF Under
    <3>3. Under(kept, {}).args = {}
      BY <2>1, EmptyFilter, UnderIs
    <3> QED
      BY <3>1, <3>2, <3>3 DEF WholeSubcall, Unconditional
  <2>4. View(in, target, name) = one
    BY <2>2, <2>3, NoneFirst DEF View
  <2> QED
    BY <1>2, <2>2, <2>4 DEF ViewRanks, RanksOf, Deciding
<1> QED
  BY <1>1, <1>2

\* Rules that the code takes to cover an input heed it.
LEMMA CoversHeeds ==
  ASSUME NEW in \in InputType, NEW input \in InputType, NEW target \in ToSet(Multiplexers),
         NEW name \in ToSet(Carried[target]), Covers(in, input, target, name)
  PROVE  Heeded(in, input, target, name)
<1> DEFINE mine == View(in, target, name)
           theirs == View(input, target, name)
           least == LeastSafe(mine)
           most == Safest(theirs)
<1>1. /\ mine \in Seq(Clause) /\ mine # <<>> /\ theirs \in Seq(Clause) /\ theirs # <<>>
  BY ViewIs
<1>2. /\ least \in Clause /\ \A c \in ToSet(mine) : OnSide(Rank(c), Rank(least))
  BY <1>1, LeastSafeIs
<1>3. CASE Within(least, most)
  <2>1. Clears(least, theirs)
    BY <1>1, <1>2, <1>3, WithinClears
  <2> HIDE DEF mine, theirs, least, most
  <2>2. ASSUME NEW c \in ToSet(mine), NEW d \in ToSet(theirs)
        PROVE  OnSide(Rank(c), Rank(d))
    <3>1. OnSide(Rank(c), Rank(least)) /\ OnSide(Rank(least), Rank(d))
      BY <1>2, <2>1 DEF Clears
    <3>2. c \in Clause /\ d \in Clause
      BY <1>1, SeqIs
    <3>3. Rank(c) \in Int /\ Rank(d) \in Int /\ Rank(least) \in Int
      BY <1>2, <3>2, RankIs
    <3> QED
      BY <3>1, <3>3, SideTwice
  <2>3. AllOnSide(RanksOf(ToSet(mine)), RanksOf(ToSet(theirs)))
    BY <2>2 DEF AllOnSide, RanksOf
  <2> QED
    BY <2>3 DEF Heeded, ViewRanks, mine, theirs
<1>4. CASE SameRules(in, input, target, name) \/ SameDirect(in, input, target, name)
  BY <1>4 DEF Heeded
<1> QED
  BY <1>3, <1>4 DEF Covers

LEMMA SyscallSettles ==
  ASSUME NEW default \in Decisive, NEW before \in [MultiplexName -> Seq(Clause)],
         NEW st \in State(before, default), NEW target \in ToSet(Multiplexers),
         NEW name \in ToSet(Carried[target]), NEW inputs \in Seq(InputType),
         \A c \in ToSet(st.result.rules[target]) : Unconditional(c)
  PROVE  NameSettled(SettleMultiplexedSyscall(st, target, name, inputs).result, target, name,
                     inputs)
<1> DEFINE own == st.result.rules[name]
           refused == own # <<>> /\ Refused(own)
           hiding == FirstUnconditional(st.result.rules[target]) # NoClause
           collapsed == Collapsed(st.result, name)
           picked == PickInputs(collapsed, target, name, inputs)
           q == SettleMultiplexedSyscall(st, target, name, inputs)
<1>1. name \in MultiplexName /\ target \in MultiplexName /\ target # name
  BY MultiplexNames, MultiplexAssumption
<1>2. st.result \in InputType /\ st.result.default = default /\ own \in Seq(Clause)
  BY <1>1, StateFields, InputFields
<1>3. collapsed \in Clause /\ picked \in Clause
  BY <1>1, <1>2, CollapsedBeyond, PickInputsIs
<1>4. \/ ~refused /\ (hiding \/ \A i \in DOMAIN inputs : Covers(st.result, inputs[i], target, name))
         /\ q = st
      \/ hiding /\ q = Replace(st, name, collapsed)
      \/ q = Replace(st, name, picked)
  BY DEF SettleMultiplexedSyscall
<1>5. ASSUME NEW rule \in Clause,
             hiding \/ \A i \in DOMAIN inputs : Clears(rule, View(inputs[i], target, name))
      PROVE  NameSettled(Replace(st, name, rule).result, target, name, inputs)
  <2> DEFINE r == Replace(st, name, rule).result
             kept == KeptRule(rule, default)
  <2>1. /\ r.default = default /\ r.rules[name] = Holding(kept)
        /\ r.rules[target] = st.result.rules[target]
        /\ kept \in Decisive \cup {NoClause}
        /\ Rank(Deciding(kept, default)) = Rank(rule)
    BY <1>1, ReplaceRules
  <2> HIDE DEF r, kept
  <2>2. ~Refusable(r.rules[name])
    BY <2>1, RefusableHeld
  <2>3. ASSUME r.rules[target] = <<>>, NEW i \in DOMAIN inputs
        PROVE  Heeded(r, inputs[i], target, name)
    <3>1. ~hiding
      BY <2>1, <2>3, NoneFirst
    <3>2. Clears(rule, View(inputs[i], target, name))
      BY <1>5, <3>1
    <3>3. ViewRanks(r, target, name) = {Rank(rule)}
      BY <2>1, <2>3, HeldView
    <3>4. AllOnSide(ViewRanks(r, target, name), ViewRanks(inputs[i], target, name))
      BY <3>2, <3>3 DEF AllOnSide, Clears, ViewRanks, RanksOf
    <3> QED
      BY <3>4 DEF Heeded
  <2>4. NameSettled(r, target, name, inputs)
    BY <2>2, <2>3 DEF NameSettled
  <2> QED
    BY <2>4 DEF r
<1>6. ASSUME ~refused, q = st,
             hiding \/ \A i \in DOMAIN inputs : Covers(st.result, inputs[i], target, name)
      PROVE  NameSettled(q.result, target, name, inputs)
  <2>1. ~Refusable(own)
    BY <1>2, <1>6, NotRefused
  <2>2. ASSUME st.result.rules[target] = <<>>, NEW i \in DOMAIN inputs
        PROVE  Heeded(st.result, inputs[i], target, name)
    <3>1. ~hiding
      BY <2>2, NoneFirst
    <3>2. inputs[i] \in InputType
      BY SeqIs
    <3> QED
      BY <1>2, <1>6, <3>1, <3>2, CoversHeeds
  <2> QED
    BY <1>6, <2>1, <2>2 DEF NameSettled
<1>7. hiding => NameSettled(Replace(st, name, collapsed).result, target, name, inputs)
  BY <1>3, <1>5
<1>8. NameSettled(Replace(st, name, picked).result, target, name, inputs)
  <2>1. \A i \in DOMAIN inputs : Clears(picked, View(inputs[i], target, name))
    BY <1>3, PickInputsClears
  <2> HIDE DEF picked, hiding
  <2> QED
    BY <1>3, <1>5, <2>1
<1> HIDE DEF q, collapsed, picked, hiding, refused
<1>9. NameSettled(q.result, target, name, inputs)
  BY <1>4, <1>6, <1>7, <1>8
<1> QED
  BY <1>9 DEF q

-----------------------------------------------------------------------------
(* Settling a multiplexer and its syscalls, and all of them *)

LEMMA NumbersReached ==
  ASSUME NEW n \in Nat, NEW good, {} \in good,
         \A s \in (SUBSET (1..n)) \ {{}} :
           Max(s) \in s /\ s \ {Max(s)} \in good => s \in good
  PROVE  1..n \in good
<1> DEFINE S == 1..n
           choose == [s \in SUBSET S |-> Max(s)]
<1>1. IsFiniteSet(S)
  BY FS_Interval
<1>2. \A s \in (SUBSET S) \ {{}} : Max(s) \in s
  BY GreatestPicks
<1>3. Picks(choose, S)
  BY <1>2 DEF Picks
<1>4. \A s \in (SUBSET S) \ {{}} : choose[s] = Max(s)
  OBVIOUS
<1> HIDE DEF choose
<1>5. \A s \in (SUBSET S) \ {{}} : s \ {choose[s]} \in good => s \in good
  BY <1>2, <1>4
<1> HIDE DEF S
<1>6. S \in good
  BY <1>1, <1>3, <1>5, SetsStay
<1> QED
  BY <1>6 DEF S

Group(target) == {target} \cup ToSet(Carried[target])

GroupSettled(in, target, inputs) ==
  /\ TargetSettled(in, target, inputs)
  /\ \A name \in ToSet(Carried[target]) : NameSettled(in, target, name, inputs)

LEMMA GroupAlike ==
  ASSUME NEW in, NEW other, NEW target, NEW inputs, GroupSettled(in, target, inputs),
         \A name \in Group(target) : other.rules[name] = in.rules[name],
         other.default = in.default
  PROVE  GroupSettled(other, target, inputs)
<1>1. other.rules[target] = in.rules[target]
      /\ \A name \in ToSet(Carried[target]) : other.rules[name] = in.rules[name]
  BY DEF Group
<1>2. TargetSettled(other, target, inputs)
  BY <1>1, TargetAlike DEF GroupSettled
<1>3. ASSUME NEW name \in ToSet(Carried[target])
      PROVE  NameSettled(other, target, name, inputs)
  <2>1. NameSettled(in, target, name, inputs) /\ other.rules[name] = in.rules[name]
    BY <1>1 DEF GroupSettled
  <2> QED
    BY <1>1, <2>1, NameAlike
<1> QED
  BY <1>2, <1>3 DEF GroupSettled

\* Only the rules of the multiplexer and of its syscalls change.
OthersHold(st, q, target) ==
  \A other \in MultiplexName \ Group(target) : q.result.rules[other] = st.result.rules[other]

LEMMA TargetDone ==
  ASSUME NEW default \in Decisive, NEW before \in [MultiplexName -> Seq(Clause)],
         NEW st \in State(before, default), NEW target \in ToSet(Multiplexers),
         NEW inputs \in Seq(InputType)
  PROVE  /\ GroupSettled(SettleTarget(st, target, inputs).result, target, inputs)
         /\ OthersHold(st, SettleTarget(st, target, inputs), target)
<1> DEFINE names == Carried[target]
           n == Len(names)
           S == 1..n
           V == State(before, default)
<1>1. n \in Nat /\ (\A i \in S : names[i] \in ToSet(names))
      /\ (\A name \in ToSet(names) : \E i \in S : names[i] = name)
  <2>1. names \in Seq(Name)
    BY MultiplexNames
  <2> HIDE DEF names
  <2>2. DOMAIN names = S /\ n \in Nat
    BY <2>1, SeqIs
  <2>3. /\ \A i \in DOMAIN names : names[i] \in ToSet(names)
        /\ \A name \in ToSet(names) : \E i \in DOMAIN names : names[i] = name
    BY <2>1, SeqIs
  <2> QED
    BY <2>2, <2>3
<1>2. PICK iter \in [SUBSET S -> V] : TargetSteps(iter, st, target, inputs)
  BY TargetUnfolds
<1>3. /\ iter[{}] = SettleMultiplexer(st, target, inputs)
      /\ \A s \in (SUBSET S) \ {{}} :
           iter[s] = SettleMultiplexedSyscall(iter[s \ {Max(s)}], target, names[Max(s)], inputs)
      /\ iter[S] = SettleTarget(st, target, inputs)
  BY <1>2 DEF TargetSteps
<1> DEFINE some(s) == /\ TargetSettled(iter[s].result, target, inputs)
                      /\ \A i \in s : NameSettled(iter[s].result, target, names[i], inputs)
                      /\ OthersHold(st, iter[s], target)
           good == {s \in SUBSET S : some(s)}
<1>4. \A s \in SUBSET S : /\ iter[s] \in V
                          /\ iter[s].result.default = default
  BY <1>2, StateFields
<1> HIDE DEF S, V
<1>5. {} \in good
  <2>1. TargetSettled(iter[{}].result, target, inputs)
    BY <1>3, MultiplexerSettles
  <2>2. OthersHold(st, iter[{}], target)
    BY <1>3, MultiplexerOthers DEF OthersHold, Group
  <2> QED
    BY <2>1, <2>2
<1>6. ASSUME NEW s \in (SUBSET S) \ {{}}, Max(s) \in s, s \ {Max(s)} \in good
      PROVE  s \in good
  <2> DEFINE t == s \ {Max(s)}
             u == iter[t]
             name == names[Max(s)]
             q == iter[s]
  <2>1. t \in SUBSET S /\ some(t)
    BY <1>6
  <2>2. u \in V /\ q \in V /\ u.result.default = default /\ q.result.default = default
    BY <1>4, <2>1
  <2>3. name \in ToSet(names) /\ q = SettleMultiplexedSyscall(u, target, name, inputs)
    BY <1>1, <1>3, <1>6
  <2>4. /\ TargetSettled(u.result, target, inputs)
        /\ \A i \in t : NameSettled(u.result, target, names[i], inputs)
        /\ OthersHold(st, u, target)
    BY <2>1
  <2>5. \A i \in s : i = Max(s) \/ i \in t
    OBVIOUS
  <2> HIDE DEF u, q, name, t, good, some
  <2>6. target # name /\ target \in MultiplexName /\ \A i \in S : names[i] \in MultiplexName
    BY <1>1, <2>3, MultiplexNames, MultiplexAssumption
  <2>7. SyscallOthersHold(u, q, name)
    BY <2>2, <2>3, SyscallOthers DEF V
  <2>8. q.result.rules[target] = u.result.rules[target]
    BY <2>6, <2>7 DEF SyscallOthersHold
  <2>9. TargetSettled(q.result, target, inputs)
    BY <2>2, <2>4, <2>8, TargetAlike
  <2>10. NameSettled(q.result, target, name, inputs)
    <3>1. \A c \in ToSet(u.result.rules[target]) : Unconditional(c)
      BY <2>4 DEF TargetSettled
    <3> QED
      BY <2>2, <2>3, <3>1, SyscallSettles DEF V
  <2>11. ASSUME NEW i \in s
         PROVE  NameSettled(q.result, target, names[i], inputs)
    <3>1. CASE names[i] = name
      BY <2>10, <3>1
    <3>2. CASE names[i] # name
      <4>1. i \in t
        BY <2>5, <3>2 DEF name
      <4>2. q.result.rules[names[i]] = u.result.rules[names[i]]
        BY <2>6, <2>7, <3>2 DEF SyscallOthersHold
      <4>3. NameSettled(u.result, target, names[i], inputs)
        BY <2>4, <4>1
      <4> QED
        BY <2>2, <2>8, <4>2, <4>3, NameAlike
    <3> QED
      BY <3>1, <3>2
  <2>12. OthersHold(st, q, target)
    <3>1. \A other \in MultiplexName \ Group(target) : other # name
      BY <2>3 DEF Group
    <3> QED
      BY <2>4, <2>7, <3>1 DEF OthersHold, SyscallOthersHold
  <2> QED
    BY <2>9, <2>11, <2>12 DEF good, some, q
<1>7. S \in good
  <2> HIDE DEF good, n
  <2> QED
    BY <1>1, <1>5, <1>6, NumbersReached DEF S
<1>8. some(S)
  BY <1>7
<1>9. \A name \in ToSet(names) : NameSettled(iter[S].result, target, name, inputs)
  BY <1>1, <1>8 DEF S
<1> QED
  BY <1>3, <1>8, <1>9 DEF GroupSettled

AllSettled(in, inputs) ==
  \A target \in ToSet(Multiplexers) : GroupSettled(in, target, inputs)

LEMMA AllDone ==
  ASSUME NEW entries \in Seq(Entry), NEW default \in Decisive, NEW inputs \in Seq(InputType)
  PROVE  AllSettled(SettledState(entries, default, inputs).result, inputs)
<1> DEFINE before == LoadedBefore(entries, default)
           n == Len(Multiplexers)
           S == 1..n
           V == State(before, default)
<1>1. n \in Nat /\ (\A i \in S : Multiplexers[i] \in ToSet(Multiplexers))
      /\ (\A target \in ToSet(Multiplexers) : \E i \in S : Multiplexers[i] = target)
  BY ClausesAssumption, SeqIs
<1>2. PICK iter \in [SUBSET S -> V] : SettlingSteps(iter, entries, default, inputs)
  BY SettlingUnfolds
<1>3. /\ \A s \in (SUBSET S) \ {{}} :
           iter[s] = SettleTarget(iter[s \ {Max(s)}], Multiplexers[Max(s)], inputs)
      /\ iter[S] = SettledState(entries, default, inputs)
  BY <1>2 DEF SettlingSteps
<1> DEFINE some(s) == \A i \in s : GroupSettled(iter[s].result, Multiplexers[i], inputs)
           good == {s \in SUBSET S : some(s)}
<1>4. \A s \in SUBSET S : iter[s] \in V /\ iter[s].result.default = default
  <2>1. \A v \in V : v.result.default = default
    <3> HIDE DEF before
    <3> QED
      BY StateFields
  <2> HIDE DEF V, S
  <2> QED
    BY <1>2, <2>1
<1>5. before \in [MultiplexName -> Seq(Clause)]
  BY FirstState
<1> HIDE DEF S, V, before
<1>6. {} \in good
  OBVIOUS
<1>7. ASSUME NEW s \in (SUBSET S) \ {{}}, Max(s) \in s, s \ {Max(s)} \in good
      PROVE  s \in good
  <2> DEFINE t == s \ {Max(s)}
             u == iter[t]
             target == Multiplexers[Max(s)]
             q == iter[s]
  <2>1. t \in SUBSET S /\ some(t)
    BY <1>7
  <2>2. u \in V /\ u.result.default = default /\ q.result.default = default
    BY <1>4, <2>1
  <2>3. target \in ToSet(Multiplexers) /\ q = SettleTarget(u, target, inputs)
    BY <1>1, <1>3, <1>7
  <2>4. \A i \in t : GroupSettled(u.result, Multiplexers[i], inputs)
    BY <2>1
  <2>5. \A i \in s : i = Max(s) \/ i \in t
    OBVIOUS
  <2> HIDE DEF u, q, target, t, good, some
  <2>6. GroupSettled(q.result, target, inputs) /\ OthersHold(u, q, target)
    BY <1>5, <2>2, <2>3, TargetDone DEF V
  <2>7. ASSUME NEW i \in s
        PROVE  GroupSettled(q.result, Multiplexers[i], inputs)
    <3> DEFINE other == Multiplexers[i]
    <3>1. other \in ToSet(Multiplexers)
      BY <1>1
    <3>2. other # target => GroupSettled(u.result, other, inputs)
      BY <2>4, <2>5 DEF target
    <3> HIDE DEF other
    <3>3. CASE other = target
      BY <2>6, <3>3 DEF other
    <3>4. CASE other # target
      <4>1. Group(target) \cap Group(other) = {}
        BY <2>3, <3>1, <3>4, MultiplexAssumption DEF Group
      <4>2. Group(other) \subseteq MultiplexName
        BY <3>1, MultiplexNames DEF Group
      <4>3. \A name \in Group(other) : q.result.rules[name] = u.result.rules[name]
        BY <2>6, <4>1, <4>2 DEF OthersHold
      <4>4. GroupSettled(u.result, other, inputs)
        BY <3>2, <3>4
      <4>5. q.result.default = u.result.default
        BY <2>2
      <4> QED
        BY <4>3, <4>4, <4>5, GroupAlike DEF other
    <3> QED
      BY <3>3, <3>4
  <2> QED
    BY <2>7 DEF good, some, q
<1>8. S \in good
  <2> HIDE DEF good, n
  <2> QED
    BY <1>1, <1>6, <1>7, NumbersReached DEF S
<1>9. some(S)
  BY <1>8
<1>10. \A target \in ToSet(Multiplexers) : GroupSettled(iter[S].result, target, inputs)
  BY <1>1, <1>9 DEF S
<1> QED
  BY <1>3, <1>10 DEF AllSettled

-----------------------------------------------------------------------------
(* What a call of a multiplexer can get, as a set *)

AnySet(in, target) ==
  {in.default} \cup ToSet(in.rules[target])
    \cup UNION {ToSet(in.rules[name]) : name \in ToSet(Carried[target])}

LEMMA AnyElements ==
  ASSUME NEW in \in InputType, NEW target \in ToSet(Multiplexers)
  PROVE  ToSet(AnyCall(in, target)) = AnySet(in, target)
<1> DEFINE own == in.rules[target]
           names == Carried[target]
           n == Len(names)
           lists == [i \in DOMAIN names |-> in.rules[names[i]]]
           others == FlattenSeq(lists)
           last == <<in.default>>
<1>1. names \in Seq(Name) /\ \A name \in ToSet(names) : name \in MultiplexName
  BY MultiplexNames
<1>2. n \in Nat /\ DOMAIN names = 1..n /\ \A i \in 1..n : names[i] \in MultiplexName
  BY <1>1, SeqIs
<1>3. ToSet(names) = {names[i] : i \in 1..n}
  <2> HIDE DEF names
  <2>1. DOMAIN names = 1..n
    BY <1>2
  <2> QED
    BY <1>1, <2>1, SeqIs
<1>4. own \in Seq(Clause) /\ lists \in [1..n -> Seq(Clause)]
  BY <1>2, InputFields, MultiplexNames
<1>5. \A i \in 1..n : lists[i] = in.rules[names[i]]
  BY <1>2
<1>6. AnyCall(in, target) = own \o others \o last
  BY DEF AnyCall
<1> HIDE DEF n, lists, own, names
<1>7. /\ others \in Seq(Clause)
      /\ ToSet(others) = UNION {ToSet(lists[i]) : i \in 1..n}
  BY <1>2, <1>4, FlattenedElements
<1>8. last \in Seq(Clause) /\ ToSet(last) = {in.default}
  BY InputFields, OneElement
<1> HIDE DEF others, last
<1>9. own \o others \in Seq(Clause) /\ ToSet(own \o others) = ToSet(own) \cup ToSet(others)
  BY <1>4, <1>7, ConcatElements
<1> DEFINE before == own \o others
<1>10. ToSet(before \o last) = ToSet(before) \cup ToSet(last)
  <2> HIDE DEF before
  <2>1. before \in Seq(Clause)
    BY <1>9 DEF before
  <2> QED
    BY <1>8, <2>1, ConcatElements
<1>11. UNION {ToSet(lists[i]) : i \in 1..n} = UNION {ToSet(in.rules[name]) : name \in ToSet(names)}
  BY <1>3, <1>5
<1>12. ToSet(AnyCall(in, target))
         = {in.default} \cup ToSet(own) \cup UNION {ToSet(lists[i]) : i \in 1..n}
  BY <1>6, <1>7, <1>8, <1>9, <1>10
<1>13. AnySet(in, target)
         = {in.default} \cup ToSet(own) \cup UNION {ToSet(in.rules[name]) : name \in ToSet(names)}
  BY DEF AnySet, own, names
<1> QED
  BY <1>11, <1>12, <1>13

ViewSet(in, target, name) ==
  LET own == in.rules[name] IN
  IF FirstUnconditional(in.rules[target]) # NoClause
  THEN {FirstUnconditional(in.rules[target])}
  ELSE IF in.rules[target] # <<>> THEN AnySet(in, target)
  ELSE IF own # <<>> /\ Whole(Copies(own)) THEN ToSet(own)
  ELSE ToSet(own) \cup {in.default}

LEMMA ViewElements ==
  ASSUME NEW in \in InputType, NEW target \in ToSet(Multiplexers),
         NEW name \in ToSet(Carried[target])
  PROVE  ToSet(View(in, target, name)) = ViewSet(in, target, name)
<1> DEFINE own == in.rules[name]
           first == FirstUnconditional(in.rules[target])
<1>1. /\ own \in Seq(Clause) /\ in.rules[target] \in Seq(Clause) /\ in.default \in Clause
  BY MultiplexNames, InputFields
<1>2. first # NoClause => ToSet(<<first>>) = {first}
  <2>1. first # NoClause => first \in Clause
    BY <1>1, FirstIs, DecisiveIs
  <2> HIDE DEF first
  <2> QED
    BY <2>1, OneElement
<1> HIDE DEF own
<1>3. ToSet(Append(own, in.default)) = ToSet(own) \cup {in.default}
  <2> DEFINE last == <<in.default>>
  <2>1. Append(own, in.default) = own \o last
    BY <1>1
  <2>2. last \in Seq(Clause) /\ ToSet(last) = {in.default}
    BY <1>1, OneElement
  <2> HIDE DEF last
  <2> QED
    BY <1>1, <2>1, <2>2, ConcatElements
<1>4. WholeSubcall(own) <=> Whole(Copies(own))
  BY DEF WholeSubcall, Whole, Multiplexed, Copies
<1>5. ToSet(AnyCall(in, target)) = AnySet(in, target)
  BY AnyElements
<1>6. View(in, target, name) =
        IF first # NoClause THEN <<first>>
        ELSE IF in.rules[target] # <<>> THEN AnyCall(in, target)
        ELSE IF own # <<>> /\ WholeSubcall(own) THEN own ELSE Append(own, in.default)
  BY DEF View, own
<1>7. ViewSet(in, target, name) =
        IF first # NoClause THEN {first}
        ELSE IF in.rules[target] # <<>> THEN AnySet(in, target)
        ELSE IF own # <<>> /\ Whole(Copies(own)) THEN ToSet(own) ELSE ToSet(own) \cup {in.default}
  BY DEF ViewSet, own
<1> HIDE DEF first
<1> QED
  BY <1>2, <1>3, <1>4, <1>5, <1>6, <1>7

-----------------------------------------------------------------------------
(* Inputs with the same sets of exact rules *)

Alike(a, b) ==
  /\ a.default = b.default
  /\ \A name \in MultiplexName : /\ ToSet(a.rules[name]) = ToSet(b.rules[name])
                                 /\ Exact(ToSet(b.rules[name]))

LEMMA FirstAlike ==
  ASSUME NEW s \in Seq(Clause), NEW t \in Seq(Clause), ToSet(s) = ToSet(t), Exact(ToSet(t))
  PROVE  /\ FirstUnconditional(s) = FirstUnconditional(t)
         /\ s = <<>> <=> t = <<>>
<1>1. s = <<>> <=> t = <<>>
  BY SeqIs
<1>2. CASE \E c \in Decisive : ToSet(t) = {c}
  BY <1>1, <1>2, DirectOne
<1>3. CASE ToSet(t) \in SUBSET Conditional
  BY <1>1, <1>3, DirectMany
<1> QED
  BY <1>2, <1>3 DEF Exact

LEMMA ViewAlike ==
  ASSUME NEW a \in InputType, NEW b \in InputType, Alike(a, b),
         NEW target \in ToSet(Multiplexers), NEW name \in ToSet(Carried[target])
  PROVE  /\ ViewSet(a, target, name) = ViewSet(b, target, name)
         /\ AnySet(a, target) = AnySet(b, target)
<1>1. /\ target \in MultiplexName /\ name \in MultiplexName
      /\ \A other \in ToSet(Carried[target]) : other \in MultiplexName
  BY MultiplexNames
<1>2. \A other \in MultiplexName :
        /\ FirstUnconditional(a.rules[other]) = FirstUnconditional(b.rules[other])
        /\ a.rules[other] = <<>> <=> b.rules[other] = <<>>
        /\ ToSet(a.rules[other]) = ToSet(b.rules[other])
  BY InputFields, FirstAlike DEF Alike
<1>3. Copies(a.rules[name]) = Copies(b.rules[name])
  BY <1>1, <1>2 DEF Copies
<1>4. AnySet(a, target) = AnySet(b, target)
  <2>1. UNION {ToSet(a.rules[other]) : other \in ToSet(Carried[target])}
          = UNION {ToSet(b.rules[other]) : other \in ToSet(Carried[target])}
    BY <1>1, <1>2
  <2> QED
    BY <1>1, <1>2, <2>1 DEF AnySet, Alike
<1>5. a.default = b.default
  BY DEF Alike
<1> QED
  BY <1>1, <1>2, <1>3, <1>4, <1>5 DEF ViewSet

LEMMA RanksViewed ==
  ASSUME NEW in \in InputType, NEW target \in ToSet(Multiplexers),
         NEW name \in ToSet(Carried[target])
  PROVE  /\ ViewRanks(in, target, name) = RanksOf(ViewSet(in, target, name))
         /\ ViewRanks(in, target, name) \in SUBSET Int /\ ViewRanks(in, target, name) # {}
<1> DEFINE s == View(in, target, name)
<1>1. s \in Seq(Clause) /\ s # <<>>
  BY ViewIs
<1>2. ToSet(s) = ViewSet(in, target, name)
  BY ViewElements
<1> HIDE DEF s
<1>3. ToSet(s) # {} /\ ToSet(s) \in SUBSET Clause
  BY <1>1, SeqIs
<1>4. RanksOf(ToSet(s)) # {} /\ RanksOf(ToSet(s)) \in SUBSET Int
  BY <1>3, RankIs DEF RanksOf
<1> QED
  BY <1>2, <1>4 DEF ViewRanks, s

\* What settling makes of a group holds of rules that read alike.
LEMMA HeededAlike ==
  ASSUME NEW a \in InputType, NEW b \in InputType, Alike(a, b), NEW input,
         NEW target \in ToSet(Multiplexers), NEW name \in ToSet(Carried[target]),
         Heeded(b, input, target, name)
  PROVE  Heeded(a, input, target, name)
<1>1. target \in MultiplexName /\ name \in MultiplexName
  BY MultiplexNames
<1>2. /\ a.rules[target] = <<>> <=> b.rules[target] = <<>>
      /\ ToSet(a.rules[name]) = ToSet(b.rules[name]) /\ a.default = b.default
  BY <1>1, InputFields, FirstAlike DEF Alike
<1>3. ViewRanks(a, target, name) = ViewRanks(b, target, name)
  BY RanksViewed, ViewAlike
<1>4. RuleKeys(a.rules[name]) = RuleKeys(b.rules[name])
  BY <1>2 DEF RuleKeys
<1>5. FirstArg(a.rules[name]) <=> FirstArg(b.rules[name])
  <2>1. a.rules[name] \in Seq(Clause) /\ b.rules[name] \in Seq(Clause)
    BY <1>1, InputFields
  <2> DEFINE s == a.rules[name]
             t == b.rules[name]
  <2> HIDE DEF s, t
  <2>2. s \in Seq(Clause) /\ t \in Seq(Clause) /\ ToSet(s) = ToSet(t)
    BY <1>2, <2>1 DEF s, t
  <2>3. /\ FirstArg(s) <=> \E c \in ToSet(s) : \E arg \in c.args : arg.index = 0
        /\ FirstArg(t) <=> \E c \in ToSet(t) : \E arg \in c.args : arg.index = 0
    BY <2>2, SeqIs DEF FirstArg
  <2> QED
    BY <2>2, <2>3 DEF s, t
<1>6. CASE SameRules(b, input, target, name)
  BY <1>2, <1>4, <1>6 DEF Heeded, SameRules, NoTarget
<1>7. CASE SameDirect(b, input, target, name)
  BY <1>2, <1>5, <1>7 DEF Heeded, SameDirect, NoTarget
<1>8. CASE AllOnSide(ViewRanks(b, target, name), ViewRanks(input, target, name))
  BY <1>3, <1>8 DEF Heeded
<1> QED
  BY <1>6, <1>7, <1>8 DEF Heeded

LEMMA GroupRead ==
  ASSUME NEW a \in InputType, NEW b \in InputType, Alike(a, b),
         NEW target \in ToSet(Multiplexers), NEW inputs, GroupSettled(b, target, inputs)
  PROVE  GroupSettled(a, target, inputs)
<1>1. /\ target \in MultiplexName
      /\ \A name \in ToSet(Carried[target]) : name \in MultiplexName
  BY MultiplexNames
<1>2. \A name \in MultiplexName :
        /\ FirstUnconditional(a.rules[name]) = FirstUnconditional(b.rules[name])
        /\ a.rules[name] = <<>> <=> b.rules[name] = <<>>
        /\ ToSet(a.rules[name]) = ToSet(b.rules[name])
  BY InputFields, FirstAlike DEF Alike
<1>3. a.default = b.default
  BY DEF Alike
<1>4. TargetSettled(a, target, inputs)
  <2>1. Decider(a, target) = Decider(b, target)
    BY <1>1, <1>2, <1>3 DEF Decider
  <2>2. TargetSettled(b, target, inputs)
    BY DEF GroupSettled
  <2> QED
    BY <1>1, <1>2, <2>1, <2>2 DEF TargetSettled
<1>5. ASSUME NEW name \in ToSet(Carried[target])
      PROVE  NameSettled(a, target, name, inputs)
  <2>1. NameSettled(b, target, name, inputs)
    BY DEF GroupSettled
  <2>2. ~Refusable(a.rules[name])
    BY <1>1, <1>2, <2>1, RefusableAlike DEF NameSettled
  <2>3. ASSUME a.rules[target] = <<>>, NEW i \in DOMAIN inputs
        PROVE  Heeded(a, inputs[i], target, name)
    BY <1>1, <1>2, <2>1, <2>3, HeededAlike DEF NameSettled
  <2> QED
    BY <2>2, <2>3 DEF NameSettled
<1> QED
  BY <1>4, <1>5 DEF GroupSettled

-----------------------------------------------------------------------------
(* What the kernel makes of a sub-call *)

Sub(in, target, name, narrow, call) ==
  SubcallResults(in.rules, in.default, target, name, narrow, call)

LEMMA EvaluatedSome ==
  ASSUME NEW C, NEW default, NEW narrow, NEW call
  PROVE  /\ Evaluated(C, default, narrow, call) # {}
         /\ Evaluated(C, default, narrow, call) \subseteq RanksOf(C) \cup {Rank(default)}
  BY DEF Evaluated, RanksOf

LEMMA SubWithin ==
  ASSUME NEW in \in InputType, NEW target \in ToSet(Multiplexers),
         NEW name \in ToSet(Carried[target]), NEW narrow, NEW call
  PROVE  /\ Sub(in, target, name, narrow, call) # {}
         /\ Sub(in, target, name, narrow, call) \subseteq ViewRanks(in, target, name)
         /\ Sub(in, target, name, narrow, call) \in SUBSET Int
<1> DEFINE own == in.rules[name]
           first == FirstUnconditional(in.rules[target])
           copies == Copies(own)
           view == ViewSet(in, target, name)
           sub == Sub(in, target, name, narrow, call)
           default == in.default
<1>1. /\ target \in MultiplexName /\ name \in MultiplexName
      /\ own \in Seq(Clause) /\ default \in Decisive
  BY MultiplexNames, InputFields
<1>2. sub = IF first # NoClause THEN {Rank(first)}
            ELSE IF in.rules[target] # <<>> THEN AnyResult(in.rules, default, target)
            ELSE IF copies = ToSet(own) THEN DirectResults(in.rules, default, name, narrow, call)
            ELSE IF Whole(copies) THEN RanksOf(copies)
            ELSE IF Refusable(own) THEN RanksOf(copies) \cup {Rank(default)}
            ELSE Evaluated(copies, default, narrow, call)
  BY DEF Sub, SubcallResults
<1>3. view = IF first # NoClause THEN {first}
             ELSE IF in.rules[target] # <<>> THEN AnySet(in, target)
             ELSE IF own # <<>> /\ Whole(copies) THEN ToSet(own)
             ELSE ToSet(own) \cup {default}
  BY DEF ViewSet
<1>4. AnyResult(in.rules, default, target) = RanksOf(AnySet(in, target))
      /\ AnyResult(in.rules, default, target) # {}
  BY DEF AnyResult, AnySet, RanksOf
<1>5. DirectResults(in.rules, default, name, narrow, call) = Direct(own, default, narrow, call)
  BY DEF DirectResults, Direct
<1>6. /\ RanksOf(copies) = RanksOf(ToSet(own))
      /\ Whole(copies) => own # <<>>
  <2> HIDE DEF own
  <2>1. \A d \in copies : \E c \in ToSet(own) : d.action = c.action
    BY <1>1, CopiesAre
  <2>2. \A c \in ToSet(own) : \E d \in copies : d.action = c.action
    BY <1>1, CopiesAre
  <2>3. Whole(copies) => ToSet(own) # {}
    BY <2>1 DEF Whole
  <2> QED
    BY <1>1, <2>1, <2>2, <2>3, SeqIs DEF RanksOf, Rank
<1>7. /\ Direct(own, default, narrow, call) # {}
      /\ Direct(own, default, narrow, call) \subseteq RanksOf(ToSet(own)) \cup {Rank(default)}
      /\ copies = ToSet(own) /\ Whole(copies) =>
           Direct(own, default, narrow, call) \subseteq RanksOf(ToSet(own))
  <2> HIDE DEF own, default
  <2>1. Direct(own, default, narrow, call) # {}
    BY <1>1, DirectSome
  <2>2. Direct(own, default, narrow, call) \subseteq RanksOf(ToSet(own)) \cup {Rank(default)}
    BY <1>1, DirectWithin DEF RanksOf
  <2>3. ASSUME copies = ToSet(own), Whole(copies)
        PROVE  Direct(own, default, narrow, call) \subseteq RanksOf(ToSet(own))
    <3>1. \E c \in ToSet(own) : c.args = {}
      BY <2>3 DEF Whole, Unconditional
    <3>2. FirstUnconditional(own) # NoClause /\ FirstUnconditional(own) \in ToSet(own)
      BY <1>1, <3>1, FirstIs, DecisiveIs DEF Conditional
    <3> QED
      BY <3>2 DEF Direct, RanksOf
  <2> QED
    BY <2>1, <2>2, <2>3
<1>8. /\ Evaluated(copies, default, narrow, call) # {}
      /\ Evaluated(copies, default, narrow, call) \subseteq RanksOf(copies) \cup {Rank(default)}
  BY EvaluatedSome
<1>9. RanksOf(ToSet(own) \cup {default}) = RanksOf(ToSet(own)) \cup {Rank(default)}
      /\ RanksOf({first}) = {Rank(first)}
  BY DEF RanksOf
<1>10. Whole(copies) => RanksOf(copies) # {}
  BY DEF Whole, RanksOf
<1> HIDE DEF own, first, copies, view, sub, default
<1>11. sub # {} /\ sub \subseteq RanksOf(view)
  <2>1. CASE first # NoClause
    BY <1>2, <1>3, <1>9, <2>1
  <2>2. CASE first = NoClause /\ in.rules[target] # <<>>
    BY <1>2, <1>3, <1>4, <2>2
  <2>3. CASE first = NoClause /\ in.rules[target] = <<>> /\ copies = ToSet(own)
    <3>1. sub = Direct(own, default, narrow, call)
      BY <1>2, <1>5, <2>3
    <3>2. view = IF own # <<>> /\ Whole(copies) THEN ToSet(own) ELSE ToSet(own) \cup {default}
      BY <1>3, <2>3
    <3> QED
      BY <1>6, <1>7, <1>9, <2>3, <3>1, <3>2
  <2>4. CASE first = NoClause /\ in.rules[target] = <<>> /\ copies # ToSet(own)
    <3>1. sub = IF Whole(copies) THEN RanksOf(copies)
                ELSE IF Refusable(own) THEN RanksOf(copies) \cup {Rank(default)}
                ELSE Evaluated(copies, default, narrow, call)
      BY <1>2, <2>4
    <3>2. view = IF own # <<>> /\ Whole(copies) THEN ToSet(own) ELSE ToSet(own) \cup {default}
      BY <1>3, <2>4
    <3> QED
      BY <1>6, <1>8, <1>9, <1>10, <3>1, <3>2
  <2> QED
    BY <2>1, <2>2, <2>3, <2>4
<1>12. ViewRanks(in, target, name) = RanksOf(view) /\ ViewRanks(in, target, name) \in SUBSET Int
  BY RanksViewed DEF view
<1> QED
  BY <1>11, <1>12 DEF sub

-----------------------------------------------------------------------------
(* What settled rules are to an input, and to the inputs of inputs *)

\* On the direct path.
BeneathIn(a, b, narrow) ==
  \A name \in MultiplexName : \A call \in Calls(narrow) :
    AllOnSide(Direct(a.rules[name], a.default, narrow, call),
              Direct(b.rules[name], b.default, narrow, call))

\* The sub-call is decided as the syscall is.
AsDirect(in, target, name) == in.rules[target] = <<>> /\ ~FirstArg(in.rules[name])

ViewOver(a, c, target, name, narrow) ==
  \A call \in Calls(narrow) :
    AllOnSide(ViewRanks(a, target, name), Sub(c, target, name, narrow, call))

SubOver(a, c, target, name, narrow) ==
  \A call \in Calls(narrow) :
    AllOnSide(Sub(a, target, name, narrow, call), Sub(c, target, name, narrow, call))

SubSafe(a, c, target, name, narrow) ==
  \/ SameRules(a, c, target, name)
  \/ ViewOver(a, c, target, name, narrow)
  \/ AsDirect(a, target, name) /\ SubOver(a, c, target, name, narrow)

LEMMA DirectSub ==
  ASSUME NEW in \in InputType, NEW target \in ToSet(Multiplexers),
         NEW name \in ToSet(Carried[target]), AsDirect(in, target, name), NEW narrow, NEW call
  PROVE  Sub(in, target, name, narrow, call)
           = Direct(in.rules[name], in.default, narrow, call)
<1> DEFINE own == in.rules[name]
<1>1. own \in Seq(Clause)
  BY MultiplexNames, InputFields
<1>2. ~FirstArg(own) /\ in.rules[target] = <<>>
  BY DEF AsDirect
<1> HIDE DEF own
<1>3. \A c \in ToSet(own) : c \in Clause /\ \A arg \in c.args : arg.index # 0
  BY <1>1, <1>2, SeqIs DEF FirstArg
<1>4. \A c \in ToSet(own) : [c EXCEPT !.args = {arg \in @ : arg.index # 0}] = c
  <2>1. SUFFICES ASSUME NEW c \in ToSet(own)
                 PROVE  [c EXCEPT !.args = {arg \in @ : arg.index # 0}] = c
    OBVIOUS
  <2>2. {arg \in c.args : arg.index # 0} = c.args
    BY <1>3
  <2>3. [c EXCEPT !.args = {arg \in @ : arg.index # 0}] = [c EXCEPT !.args = c.args]
    BY <2>2
  <2>4. c = [action |-> c.action, errno |-> c.errno, args |-> c.args]
    BY <1>3, ClauseFields
  <2>5. [c EXCEPT !.args = c.args] = c
    BY <2>4
  <2> QED
    BY <2>3, <2>5
<1>5. Copies(own) = ToSet(own)
  BY <1>4 DEF Copies
<1> QED
  BY <1>2, <1>5, NoneFirst DEF Sub, SubcallResults, DirectResults, Direct, own

\* Rules that differ in their errno at most are viewed alike.
LEMMA KeysMatch ==
  ASSUME NEW s, NEW t, RuleKeys(s) = RuleKeys(t), NEW c \in ToSet(s)
  PROVE  \E d \in ToSet(t) : d.action = c.action /\ d.args = c.args
<1>1. [action |-> c.action, args |-> c.args] \in RuleKeys(t)
  BY DEF RuleKeys
<1> QED
  BY <1>1 DEF RuleKeys

LEMMA KeysView ==
  ASSUME NEW a \in InputType, NEW b \in InputType, NEW target \in ToSet(Multiplexers),
         NEW name \in ToSet(Carried[target]), SameRules(a, b, target, name)
  PROVE  /\ ViewRanks(a, target, name) = ViewRanks(b, target, name)
         /\ AsDirect(a, target, name) <=> AsDirect(b, target, name)
<1> DEFINE s == a.rules[name]
           t == b.rules[name]
<1>1. /\ s \in Seq(Clause) /\ t \in Seq(Clause)
      /\ a.rules[target] = <<>> /\ b.rules[target] = <<>>
      /\ RuleKeys(s) = RuleKeys(t) /\ Rank(a.default) = Rank(b.default)
  BY MultiplexNames, InputFields, Comparisons DEF SameRules, NoTarget
<1>2. /\ ViewSet(a, target, name)
           = IF s # <<>> /\ Whole(Copies(s)) THEN ToSet(s) ELSE ToSet(s) \cup {a.default}
      /\ ViewSet(b, target, name)
           = IF t # <<>> /\ Whole(Copies(t)) THEN ToSet(t) ELSE ToSet(t) \cup {b.default}
  BY <1>1, NoneFirst DEF ViewSet
<1> HIDE DEF s, t
<1>3. /\ \A c \in ToSet(s) : \E d \in ToSet(t) : d.action = c.action /\ d.args = c.args
      /\ \A c \in ToSet(t) : \E d \in ToSet(s) : d.action = c.action /\ d.args = c.args
  BY <1>1, KeysMatch
<1>4. RanksOf(ToSet(s)) = RanksOf(ToSet(t)) /\ (s = <<>> <=> t = <<>>)
  <2>1. s = <<>> <=> t = <<>>
    BY <1>1, <1>3, SeqIs
  <2> QED
    BY <1>3, <2>1 DEF RanksOf, Rank
<1>5. Whole(Copies(s)) <=> Whole(Copies(t))
  <2>1. /\ Whole(Copies(s)) <=> \E c \in ToSet(s) : {arg \in c.args : arg.index # 0} = {}
        /\ Whole(Copies(t)) <=> \E c \in ToSet(t) : {arg \in c.args : arg.index # 0} = {}
    <3>1. ASSUME NEW r \in Seq(Clause)
          PROVE  Whole(Copies(r)) <=> \E c \in ToSet(r) : {arg \in c.args : arg.index # 0} = {}
      <4>1. ASSUME NEW c \in ToSet(r)
            PROVE  [c EXCEPT !.args = {arg \in @ : arg.index # 0}].args
                     = {arg \in c.args : arg.index # 0}
        <5>1. c \in Clause
          BY <3>1, SeqIs
        <5>2. c = [action |-> c.action, errno |-> c.errno, args |-> c.args]
          BY <5>1, ClauseFields
        <5> QED
          BY <5>2
      <4> QED
        BY <4>1 DEF Whole, Copies, Unconditional
    <3> QED
      BY <1>1, <3>1
  <2> QED
    BY <1>3, <2>1
<1>6. FirstArg(s) <=> FirstArg(t)
  <2>1. /\ FirstArg(s) <=> \E c \in ToSet(s) : \E arg \in c.args : arg.index = 0
        /\ FirstArg(t) <=> \E c \in ToSet(t) : \E arg \in c.args : arg.index = 0
    BY <1>1, SeqIs DEF FirstArg
  <2> QED
    BY <1>3, <2>1
<1>7. RanksOf(ViewSet(a, target, name)) = RanksOf(ViewSet(b, target, name))
  <2>1. /\ RanksOf(ToSet(s) \cup {a.default}) = RanksOf(ToSet(s)) \cup {Rank(a.default)}
        /\ RanksOf(ToSet(t) \cup {b.default}) = RanksOf(ToSet(t)) \cup {Rank(b.default)}
    BY DEF RanksOf
  <2> QED
    BY <1>1, <1>2, <1>4, <1>5, <2>1
<1>8. AsDirect(a, target, name) <=> AsDirect(b, target, name)
  BY <1>1, <1>6 DEF AsDirect, s, t
<1> QED
  BY <1>7, <1>8, RanksViewed

LEMMA SubBeneath ==
  ASSUME NEW a \in InputType, NEW b \in InputType, NEW target \in ToSet(Multiplexers),
         NEW name \in ToSet(Carried[target]), NEW narrow, BeneathIn(a, b, narrow),
         AsDirect(a, target, name), AsDirect(b, target, name)
  PROVE  SubOver(a, b, target, name, narrow)
<1>1. SUFFICES ASSUME NEW call \in Calls(narrow)
               PROVE  AllOnSide(Sub(a, target, name, narrow, call),
                                Sub(b, target, name, narrow, call))
  BY DEF SubOver
<1>2. name \in MultiplexName
  BY MultiplexNames
<1>3. AllOnSide(Direct(a.rules[name], a.default, narrow, call),
                Direct(b.rules[name], b.default, narrow, call))
  BY <1>2 DEF BeneathIn
<1> QED
  BY <1>3, DirectSub

\* A step is a relation of its own.
LEMMA SafeOfHeeded ==
  ASSUME NEW a \in InputType, NEW b \in InputType, NEW target \in ToSet(Multiplexers),
         NEW name \in ToSet(Carried[target]), NEW narrow, BeneathIn(a, b, narrow),
         Heeded(a, b, target, name)
  PROVE  SubSafe(a, b, target, name, narrow)
<1>1. CASE SameDirect(a, b, target, name)
  BY <1>1, SubBeneath DEF SubSafe, SameDirect, NoTarget, AsDirect
<1>2. CASE AllOnSide(ViewRanks(a, target, name), ViewRanks(b, target, name))
  <2>1. ViewOver(a, b, target, name, narrow)
    BY <1>2, SubWithin DEF ViewOver, AllOnSide
  <2> QED
    BY <2>1 DEF SubSafe
<1> QED
  BY <1>1, <1>2 DEF Heeded, SubSafe

LEMMA ViewOverTwice ==
  ASSUME NEW a \in InputType, NEW b \in InputType, NEW c \in InputType,
         NEW target \in ToSet(Multiplexers), NEW name \in ToSet(Carried[target]), NEW narrow,
         AllOnSide(ViewRanks(a, target, name), ViewRanks(b, target, name)),
         SubSafe(b, c, target, name, narrow)
  PROVE  ViewOver(a, c, target, name, narrow)
<1>1. SUFFICES ASSUME NEW call \in Calls(narrow)
               PROVE  AllOnSide(ViewRanks(a, target, name), Sub(c, target, name, narrow, call))
  BY DEF ViewOver
<1> DEFINE A == ViewRanks(a, target, name)
           B == ViewRanks(b, target, name)
           sub == Sub(b, target, name, narrow, call)
           C == Sub(c, target, name, narrow, call)
<1>2. A \in SUBSET Int /\ B \in SUBSET Int /\ B # {} /\ C \in SUBSET Int
  BY RanksViewed, SubWithin
<1>3. sub # {} /\ sub \in SUBSET Int /\ sub \subseteq B
  BY SubWithin
<1>4. CASE SameRules(b, c, target, name)
  <2>1. B = ViewRanks(c, target, name)
    BY <1>4, KeysView
  <2>2. C \subseteq B
    BY <2>1, SubWithin
  <2> HIDE DEF A, B, C
  <2>3. AllOnSide(A, C)
    BY <2>2 DEF AllOnSide, A, B
  <2> QED
    BY <2>3 DEF A, C
<1>5. CASE ViewOver(b, c, target, name, narrow)
  <2>1. AllOnSide(A, B) /\ AllOnSide(B, C)
    BY <1>5 DEF ViewOver
  <2> HIDE DEF A, B, C
  <2>2. AllOnSide(A, C)
    BY <1>2, <2>1, AllSidesTwice
  <2> QED
    BY <2>2 DEF A, C
<1>6. CASE SubOver(b, c, target, name, narrow)
  <2>1. AllOnSide(A, B) /\ AllOnSide(sub, C)
    BY <1>6 DEF SubOver
  <2> HIDE DEF A, B, C, sub
  <2>2. AllOnSide(A, sub)
    BY <1>3, <2>1 DEF AllOnSide
  <2>3. AllOnSide(A, C)
    BY <1>2, <1>3, <2>1, <2>2, AllSidesTwice
  <2> QED
    BY <2>3 DEF A, C
<1> QED
  BY <1>4, <1>5, <1>6 DEF SubSafe

LEMMA SubOverTwice ==
  ASSUME NEW a \in InputType, NEW b \in InputType, NEW c \in InputType,
         NEW target \in ToSet(Multiplexers), NEW name \in ToSet(Carried[target]), NEW narrow,
         SubOver(a, b, target, name, narrow),
         ViewOver(b, c, target, name, narrow) \/ SubOver(b, c, target, name, narrow)
  PROVE  SubOver(a, c, target, name, narrow)
<1>1. SUFFICES ASSUME NEW call \in Calls(narrow)
               PROVE  AllOnSide(Sub(a, target, name, narrow, call),
                                Sub(c, target, name, narrow, call))
  BY DEF SubOver
<1> DEFINE A == Sub(a, target, name, narrow, call)
           B == Sub(b, target, name, narrow, call)
           C == Sub(c, target, name, narrow, call)
<1>2. /\ A \in SUBSET Int /\ B \in SUBSET Int /\ B # {} /\ C \in SUBSET Int
      /\ B \subseteq ViewRanks(b, target, name)
  BY SubWithin
<1>3. AllOnSide(A, B)
  BY DEF SubOver
<1>4. AllOnSide(B, C)
  <2>1. CASE SubOver(b, c, target, name, narrow)
    BY <2>1 DEF SubOver
  <2>2. CASE ViewOver(b, c, target, name, narrow)
    <3>1. AllOnSide(ViewRanks(b, target, name), C)
      BY <2>2 DEF ViewOver
    <3> HIDE DEF B, C
    <3>2. AllOnSide(B, C)
      BY <1>2, <3>1 DEF AllOnSide
    <3> QED
      BY <3>2 DEF B, C
  <2> QED
    BY <2>1, <2>2
<1> HIDE DEF A, B, C
<1>5. AllOnSide(A, C)
  BY <1>2, <1>3, <1>4, AllSidesTwice
<1> QED
  BY <1>5 DEF A, C

LEMMA SubSafeTwice ==
  ASSUME NEW a \in InputType, NEW b \in InputType, NEW c \in InputType,
         NEW target \in ToSet(Multiplexers), NEW name \in ToSet(Carried[target]), NEW narrow,
         BeneathIn(a, b, narrow), BeneathIn(a, c, narrow),
         Heeded(a, b, target, name), SubSafe(b, c, target, name, narrow)
  PROVE  SubSafe(a, c, target, name, narrow)
<1>1. CASE AllOnSide(ViewRanks(a, target, name), ViewRanks(b, target, name))
  BY <1>1, ViewOverTwice DEF SubSafe
<1>2. CASE SameRules(a, b, target, name)
  <2>1. ViewRanks(a, target, name) = ViewRanks(b, target, name)
        /\ (AsDirect(a, target, name) <=> AsDirect(b, target, name))
    BY <1>2, KeysView
  <2>2. CASE SameRules(b, c, target, name)
    <3>1. SameRules(a, c, target, name)
      BY <1>2, <2>2 DEF SameRules, NoTarget, Equivalent
    <3> QED
      BY <3>1 DEF SubSafe
  <2>3. CASE ViewOver(b, c, target, name, narrow)
    <3>1. ViewOver(a, c, target, name, narrow)
      BY <2>1, <2>3 DEF ViewOver
    <3> QED
      BY <3>1 DEF SubSafe
  <2>4. CASE AsDirect(b, target, name) /\ SubOver(b, c, target, name, narrow)
    <3>1. AsDirect(a, target, name)
      BY <2>1, <2>4
    <3>2. SubOver(a, b, target, name, narrow)
      BY <2>4, <3>1, SubBeneath
    <3>3. SubOver(a, c, target, name, narrow)
      BY <2>4, <3>2, SubOverTwice
    <3> QED
      BY <3>1, <3>3 DEF SubSafe
  <2> QED
    BY <2>2, <2>3, <2>4 DEF SubSafe
<1>3. CASE SameDirect(a, b, target, name)
  <2>1. AsDirect(a, target, name) /\ AsDirect(b, target, name)
    BY <1>3 DEF SameDirect, NoTarget, AsDirect
  <2>2. SubOver(a, b, target, name, narrow)
    BY <2>1, SubBeneath
  <2>3. CASE SameRules(b, c, target, name)
    <3>1. AsDirect(c, target, name)
      BY <2>1, <2>3, KeysView
    <3>2. SubOver(a, c, target, name, narrow)
      BY <2>1, <3>1, SubBeneath
    <3> QED
      BY <2>1, <3>2 DEF SubSafe
  <2>4. CASE ViewOver(b, c, target, name, narrow) \/ SubOver(b, c, target, name, narrow)
    <3>1. SubOver(a, c, target, name, narrow)
      BY <2>2, <2>4, SubOverTwice
    <3> QED
      BY <2>1, <3>1 DEF SubSafe
  <2> QED
    BY <2>3, <2>4 DEF SubSafe
<1> QED
  BY <1>1, <1>2, <1>3 DEF Heeded

\* Settled rules heed every input of theirs.
LEMMA GroupHeeds ==
  ASSUME NEW in \in InputType, NEW target \in ToSet(Multiplexers),
         NEW name \in ToSet(Carried[target]), NEW inputs, GroupSettled(in, target, inputs),
         NEW i \in DOMAIN inputs
  PROVE  Heeded(in, inputs[i], target, name)
<1>1. CASE in.rules[target] = <<>>
  BY <1>1 DEF GroupSettled, NameSettled
<1>2. CASE in.rules[target] # <<>>
  <2> DEFINE s == in.rules[target]
             first == FirstUnconditional(s)
  <2>1. s \in Seq(Clause) /\ s # <<>> /\ \A c \in ToSet(s) : Unconditional(c)
    BY <1>2, MultiplexNames, InputFields DEF GroupSettled, TargetSettled
  <2> HIDE DEF s
  <2>2. first # NoClause
    <3>1. PICK c \in ToSet(s) : TRUE
      BY <2>1, SeqIs
    <3>2. c.args = {}
      BY <2>1 DEF Unconditional
    <3> QED
      BY <2>1, <3>2, FirstIs, DecisiveIs DEF Conditional
  <2>3. Clears(first, View(inputs[i], target, name))
    BY <2>2 DEF GroupSettled, TargetSettled, s
  <2>4. ViewSet(in, target, name) = {first}
    BY <2>2 DEF ViewSet, s
  <2>5. ViewRanks(in, target, name) = {Rank(first)}
    BY <2>4, RanksViewed DEF RanksOf
  <2> HIDE DEF first
  <2>6. AllOnSide(ViewRanks(in, target, name), ViewRanks(inputs[i], target, name))
    BY <2>3, <2>5 DEF AllOnSide, Clears, ViewRanks, RanksOf
  <2> QED
    BY <2>6 DEF Heeded
<1> QED
  BY <1>1, <1>2

-----------------------------------------------------------------------------
(* Sub-calls that no rule names, and the whole of a result *)

OtherSub(in, target) == OtherSubcallResults(in.rules, in.default, target)

FilteredClears(a, c, target) ==
  Filtered(c, target) => Clears(Decider(a, target), AnyCall(c, target))

\* All the rules that libseccomp finds for the multiplexers of a result.
Clean(in) ==
  \A target \in ToSet(Multiplexers) :
    /\ \A c \in ToSet(in.rules[target]) : Unconditional(c)
    /\ \A name \in ToSet(Carried[target]) : ~Refusable(in.rules[name])

MuxSafe(a, c, narrow) ==
  \A target \in ToSet(Multiplexers) :
    /\ FilteredClears(a, c, target)
    /\ \A name \in ToSet(Carried[target]) : SubSafe(a, c, target, name, narrow)

LEMMA PlainTarget ==
  ASSUME NEW in \in InputType, Clean(in), NEW target \in ToSet(Multiplexers)
  PROVE  ~Filtered(in, target)
<1> DEFINE s == in.rules[target]
<1>1. s \in Seq(Clause) /\ \A c \in ToSet(s) : c.args = {}
  BY MultiplexNames, InputFields DEF Clean, Unconditional
<1> HIDE DEF s
<1>2. s # <<>> => \E c \in ToSet(s) : TRUE
  BY <1>1, SeqIs
<1>3. FirstUnconditional(s) = NoClause => s = <<>>
  BY <1>1, <1>2, FirstIs, DecisiveIs DEF Conditional
<1> QED
  BY <1>3 DEF Filtered, s

LEMMA DeciderIs ==
  ASSUME NEW in \in InputType, NEW target \in ToSet(Multiplexers), ~Filtered(in, target)
  PROVE  /\ Decider(in, target) \in Clause
         /\ OtherSub(in, target) = {Rank(Decider(in, target))}
         /\ \A narrow, call :
              Direct(in.rules[target], in.default, narrow, call) = {Rank(Decider(in, target))}
<1>1. in.default \in Decisive /\ in.default \in Clause /\ in.rules[target] \in Seq(Clause)
  BY MultiplexNames, InputFields
<1>2. CASE in.rules[target] = <<>>
  <2>1. Decider(in, target) = in.default
    BY <1>2, NoneFirst DEF Decider
  <2>2. Holding(NoClause) = <<>> /\ Deciding(NoClause, in.default) = in.default
        /\ NoClause \in Decisive \cup {NoClause}
    BY DEF Holding, Deciding
  <2>3. \A narrow, call : Direct(<<>>, in.default, narrow, call) = {Rank(in.default)}
    BY <1>1, <2>2, HeldIs
  <2> QED
    BY <1>1, <1>2, <2>1, <2>3, NoneFirst DEF OtherSub, OtherSubcallResults
<1>3. CASE FirstUnconditional(in.rules[target]) # NoClause
  <2>1. Decider(in, target) = FirstUnconditional(in.rules[target])
    BY <1>3 DEF Decider
  <2>2. FirstUnconditional(in.rules[target]) \in Clause
    BY <1>1, <1>3, FirstIs, DecisiveIs
  <2> QED
    BY <1>3, <2>1, <2>2 DEF OtherSub, OtherSubcallResults, Direct
<1> QED
  BY <1>2, <1>3 DEF Filtered

\* On the direct path a multiplexer is a syscall like any other.
LEMMA DeciderBeneath ==
  ASSUME NEW a \in InputType, NEW b \in InputType, NEW target \in ToSet(Multiplexers),
         ~Filtered(a, target), ~Filtered(b, target), NEW narrow \in BOOLEAN,
         BeneathIn(a, b, narrow)
  PROVE  OnSide(Rank(Decider(a, target)), Rank(Decider(b, target)))
<1>1. PICK call : call \in Calls(narrow)
  BY SomeCall
<1>2. target \in MultiplexName
  BY MultiplexNames
<1>3. AllOnSide(Direct(a.rules[target], a.default, narrow, call),
                Direct(b.rules[target], b.default, narrow, call))
  BY <1>1, <1>2 DEF BeneathIn
<1>4. AllOnSide({Rank(Decider(a, target))}, {Rank(Decider(b, target))})
  BY <1>3, DeciderIs
<1> QED
  BY <1>4 DEF AllOnSide

LEMMA OtherIsSafe ==
  ASSUME NEW a \in InputType, NEW c \in InputType, NEW target \in ToSet(Multiplexers),
         ~Filtered(a, target), NEW narrow \in BOOLEAN, BeneathIn(a, c, narrow),
         FilteredClears(a, c, target)
  PROVE  AllOnSide(OtherSub(a, target), OtherSub(c, target))
<1>1. OtherSub(a, target) = {Rank(Decider(a, target))}
  BY DeciderIs
<1>2. CASE ~Filtered(c, target)
  <2>1. OtherSub(c, target) = {Rank(Decider(c, target))}
    BY <1>2, DeciderIs
  <2>2. OnSide(Rank(Decider(a, target)), Rank(Decider(c, target)))
    BY <1>2, DeciderBeneath
  <2> QED
    BY <1>1, <2>1, <2>2 DEF AllOnSide
<1>3. CASE Filtered(c, target)
  <2>1. Clears(Decider(a, target), AnyCall(c, target))
    BY <1>3 DEF FilteredClears
  <2>2. OtherSub(c, target) = AnyResult(c.rules, c.default, target)
    BY <1>3 DEF Filtered, OtherSub, OtherSubcallResults
  <2>3. AnyResult(c.rules, c.default, target) = RanksOf(AnySet(c, target))
    BY DEF AnyResult, AnySet, RanksOf
  <2>4. ToSet(AnyCall(c, target)) = AnySet(c, target)
    BY AnyElements
  <2> QED
    BY <1>1, <2>1, <2>2, <2>3, <2>4 DEF AllOnSide, Clears, RanksOf
<1> QED
  BY <1>2, <1>3

LEMMA FilteredTwice ==
  ASSUME NEW a \in InputType, NEW b \in InputType, NEW c \in InputType,
         NEW target \in ToSet(Multiplexers), ~Filtered(a, target), ~Filtered(b, target),
         NEW narrow \in BOOLEAN, BeneathIn(a, b, narrow), FilteredClears(b, c, target)
  PROVE  FilteredClears(a, c, target)
<1>1. Decider(a, target) \in Clause /\ Decider(b, target) \in Clause
  BY DeciderIs
<1>2. OnSide(Rank(Decider(a, target)), Rank(Decider(b, target)))
  BY DeciderBeneath
<1>3. AnyCall(c, target) \in Seq(Clause)
  BY AnyCallIs
<1> QED
  BY <1>1, <1>2, <1>3, ClearsMore DEF FilteredClears

LEMMA SettledIsClean ==
  ASSUME NEW in, NEW inputs, AllSettled(in, inputs)
  PROVE  Clean(in)
  BY DEF AllSettled, GroupSettled, TargetSettled, NameSettled, Clean

LEMMA SettledSafe ==
  ASSUME NEW in \in InputType, NEW inputs \in Seq(InputType), AllSettled(in, inputs),
         NEW i \in DOMAIN inputs, NEW narrow, BeneathIn(in, inputs[i], narrow)
  PROVE  MuxSafe(in, inputs[i], narrow)
<1>1. inputs[i] \in InputType
  BY SeqIs
<1>2. ASSUME NEW target \in ToSet(Multiplexers)
      PROVE  FilteredClears(in, inputs[i], target)
  BY DEF AllSettled, GroupSettled, TargetSettled, FilteredClears
<1>3. ASSUME NEW target \in ToSet(Multiplexers), NEW name \in ToSet(Carried[target])
      PROVE  SubSafe(in, inputs[i], target, name, narrow)
  <2>1. Heeded(in, inputs[i], target, name)
    BY GroupHeeds DEF AllSettled
  <2> QED
    BY <1>1, <2>1, SafeOfHeeded
<1> QED
  BY <1>2, <1>3 DEF MuxSafe

LEMMA SettledTwice ==
  ASSUME NEW in \in InputType, NEW inputs \in Seq(InputType), AllSettled(in, inputs),
         NEW i \in DOMAIN inputs, Clean(inputs[i]), NEW c \in InputType,
         NEW narrow \in BOOLEAN, BeneathIn(in, inputs[i], narrow), BeneathIn(in, c, narrow),
         MuxSafe(inputs[i], c, narrow)
  PROVE  MuxSafe(in, c, narrow)
<1>1. inputs[i] \in InputType
  BY SeqIs
<1>2. Clean(in)
  BY SettledIsClean
<1>3. ASSUME NEW target \in ToSet(Multiplexers)
      PROVE  FilteredClears(in, c, target)
  <2>1. ~Filtered(in, target) /\ ~Filtered(inputs[i], target)
    BY <1>1, <1>2, PlainTarget
  <2>2. FilteredClears(inputs[i], c, target)
    BY DEF MuxSafe
  <2> QED
    BY <1>1, <2>1, <2>2, FilteredTwice
<1>4. ASSUME NEW target \in ToSet(Multiplexers), NEW name \in ToSet(Carried[target])
      PROVE  SubSafe(in, c, target, name, narrow)
  <2>1. Heeded(in, inputs[i], target, name)
    BY GroupHeeds DEF AllSettled
  <2>2. SubSafe(inputs[i], c, target, name, narrow)
    BY DEF MuxSafe
  <2> QED
    BY <1>1, <2>1, <2>2, SubSafeTwice
<1> QED
  BY <1>3, <1>4 DEF MuxSafe

-----------------------------------------------------------------------------
(* What is safe about a result holds of every order of its rules *)

LEMMA RulesAlike ==
  ASSUME NEW a \in InputType, NEW b \in InputType, Alike(a, b), NEW name \in MultiplexName
  PROVE  /\ a.rules[name] \in Seq(Clause) /\ b.rules[name] \in Seq(Clause)
         /\ a.default = b.default
         /\ ToSet(a.rules[name]) = ToSet(b.rules[name])
         /\ FirstUnconditional(a.rules[name]) = FirstUnconditional(b.rules[name])
         /\ a.rules[name] = <<>> <=> b.rules[name] = <<>>
         /\ FirstArg(a.rules[name]) <=> FirstArg(b.rules[name])
         /\ Exact(ToSet(a.rules[name]))
<1> DEFINE s == a.rules[name]
           t == b.rules[name]
<1>1. s \in Seq(Clause) /\ t \in Seq(Clause)
  BY InputFields
<1>2. ToSet(s) = ToSet(t) /\ Exact(ToSet(t)) /\ a.default = b.default
  BY DEF Alike
<1> HIDE DEF s, t
<1>3. FirstUnconditional(s) = FirstUnconditional(t) /\ (s = <<>> <=> t = <<>>)
  BY <1>1, <1>2, FirstAlike
<1>4. /\ FirstArg(s) <=> \E c \in ToSet(s) : \E arg \in c.args : arg.index = 0
      /\ FirstArg(t) <=> \E c \in ToSet(t) : \E arg \in c.args : arg.index = 0
  BY <1>1, SeqIs DEF FirstArg
<1> QED
  BY <1>1, <1>2, <1>3, <1>4 DEF s, t

LEMMA CleanAlike ==
  ASSUME NEW a \in InputType, NEW b \in InputType, Alike(a, b), Clean(b)
  PROVE  Clean(a)
<1>1. ASSUME NEW target \in ToSet(Multiplexers), NEW c \in ToSet(a.rules[target])
      PROVE  Unconditional(c)
  BY <1>1, MultiplexNames, RulesAlike DEF Clean
<1>2. ASSUME NEW target \in ToSet(Multiplexers), NEW name \in ToSet(Carried[target])
      PROVE  ~Refusable(a.rules[name])
  BY <1>2, MultiplexNames, RulesAlike, RefusableAlike DEF Clean
<1> QED
  BY <1>1, <1>2 DEF Clean

LEMMA SubAlike ==
  ASSUME NEW a \in InputType, NEW b \in InputType, Alike(a, b),
         NEW target \in ToSet(Multiplexers), NEW name \in ToSet(Carried[target]),
         AsDirect(b, target, name)
  PROVE  /\ AsDirect(a, target, name)
         /\ \A narrow, call : Sub(a, target, name, narrow, call) = Sub(b, target, name, narrow, call)
<1>1. target \in MultiplexName /\ name \in MultiplexName
  BY MultiplexNames
<1>2. AsDirect(a, target, name)
  BY <1>1, RulesAlike DEF AsDirect
<1>3. ASSUME NEW narrow, NEW call
      PROVE  Sub(a, target, name, narrow, call) = Sub(b, target, name, narrow, call)
  <2> DEFINE s == a.rules[name]
             t == b.rules[name]
  <2>1. /\ s \in Seq(Clause) /\ t \in Seq(Clause) /\ ToSet(s) = ToSet(t) /\ Exact(ToSet(s))
        /\ a.default = b.default
    BY <1>1, RulesAlike
  <2>2. /\ Sub(a, target, name, narrow, call) = Direct(s, a.default, narrow, call)
        /\ Sub(b, target, name, narrow, call) = Direct(t, b.default, narrow, call)
    BY <1>2, DirectSub
  <2> HIDE DEF s, t
  <2>3. Direct(s, a.default, narrow, call) = Direct(t, a.default, narrow, call)
    BY <2>1, DirectAlike
  <2> QED
    BY <2>1, <2>2, <2>3
<1> QED
  BY <1>2, <1>3

LEMMA SubSafeAlike ==
  ASSUME NEW a \in InputType, NEW b \in InputType, Alike(a, b), NEW c, NEW narrow,
         NEW target \in ToSet(Multiplexers), NEW name \in ToSet(Carried[target]),
         SubSafe(b, c, target, name, narrow)
  PROVE  SubSafe(a, c, target, name, narrow)
<1>1. target \in MultiplexName /\ name \in MultiplexName
  BY MultiplexNames
<1>2. CASE SameRules(b, c, target, name)
  <2>1. /\ a.rules[target] = <<>> <=> b.rules[target] = <<>>
        /\ ToSet(a.rules[name]) = ToSet(b.rules[name]) /\ a.default = b.default
    BY <1>1, RulesAlike
  <2>2. RuleKeys(a.rules[name]) = RuleKeys(b.rules[name])
    BY <2>1 DEF RuleKeys
  <2> QED
    BY <1>2, <2>1, <2>2 DEF SubSafe, SameRules, NoTarget
<1>3. CASE ViewOver(b, c, target, name, narrow)
  <2>1. ViewRanks(a, target, name) = ViewRanks(b, target, name)
    BY RanksViewed, ViewAlike
  <2> QED
    BY <1>3, <2>1 DEF SubSafe, ViewOver
<1>4. CASE AsDirect(b, target, name) /\ SubOver(b, c, target, name, narrow)
  BY <1>4, SubAlike DEF SubSafe, SubOver
<1> QED
  BY <1>2, <1>3, <1>4 DEF SubSafe

LEMMA MuxSafeAlike ==
  ASSUME NEW a \in InputType, NEW b \in InputType, Alike(a, b), NEW c, NEW narrow,
         MuxSafe(b, c, narrow)
  PROVE  MuxSafe(a, c, narrow)
<1>1. ASSUME NEW target \in ToSet(Multiplexers)
      PROVE  FilteredClears(a, c, target)
  <2>1. Decider(a, target) = Decider(b, target)
    BY MultiplexNames, RulesAlike DEF Decider
  <2> QED
    BY <2>1 DEF MuxSafe, FilteredClears
<1>2. ASSUME NEW target \in ToSet(Multiplexers), NEW name \in ToSet(Carried[target])
      PROVE  SubSafe(a, c, target, name, narrow)
  <2>1. SubSafe(b, c, target, name, narrow)
    BY DEF MuxSafe
  <2> QED
    BY <2>1, SubSafeAlike
<1> QED
  BY <1>1, <1>2 DEF MuxSafe

-----------------------------------------------------------------------------
(* The profiles that a merge reads and builds *)

\* What the multiplexers' settling reads of a profile.
Reading(profile) == MultiplexInput(profile.entries, Default(profile))

Readings(inputs) == [i \in DOMAIN inputs |-> Reading(inputs[i])]

LEMMA ReadingIs ==
  ASSUME NEW profile, ProfileOK(profile)
  PROVE  /\ Reading(profile) \in InputType /\ Reading(profile).default = Default(profile)
         /\ \A name \in MultiplexName : Reading(profile).rules[name] = Loads(profile, name)
<1>1. profile.entries \in Seq(Entry) /\ Default(profile) \in Decisive
  BY ProfileDecides DEF ProfileOK
<1> QED
  BY <1>1, MultiplexInputIs DEF Reading, Loads

LEMMA ReadingsAre ==
  ASSUME NEW n \in Nat, NEW inputs, DOMAIN inputs = 1..n, \A i \in 1..n : ProfileOK(inputs[i])
  PROVE  Readings(inputs) \in Seq(InputType)
  BY ReadInputs DEF Readings, Reading

LEMMA SettledRead ==
  ASSUME NEW entries \in Seq(Entry), OneNamed(entries), NEW default \in Decisive,
         NEW inputs \in Seq(InputType),
         \A name \in Name : Exact(ToSet(LoadedClauses(entries, default, name)))
  PROVE  AllSettled(MultiplexInput(SettleMultiplexed(entries, default, inputs).entries, default),
                    inputs)
<1> DEFINE st == SettledState(entries, default, inputs)
           before == LoadedBefore(entries, default)
           R == DOMAIN st.replaced
           kept(name) == st.replaced[name]
           F == SettleMultiplexed(entries, default, inputs).entries
           old(name) == LoadedClauses(entries, default, name)
           new(name) == LoadedClauses(F, default, name)
           in == MultiplexInput(F, default)
           out == st.result
<1>1. st \in State(before, default)
  BY AllStay
<1>2. F = ReadSettled(entries, default, st).entries
  BY DEF SettleMultiplexed, SettledState
<1>a. AllSettled(out, inputs)
  BY AllDone
<1> HIDE DEF st
<1>3. /\ R \in SUBSET MultiplexName /\ Faithful(out.rules, st.replaced, before, default)
      /\ out \in InputType /\ out.default = default
  BY <1>1, StateFields
<1>4. R \in SUBSET Name /\ MultiplexName \subseteq Name
  BY <1>3, MultiplexNames
<1>5. \A name \in R : /\ kept(name) \in Decisive \cup {NoClause}
                      /\ kept(name) # NoClause => ~SameResult(kept(name), default)
                      /\ out.rules[name] = Holding(kept(name))
  BY <1>3 DEF Faithful, Stands
<1>6. Standing(st.replaced, default)
  BY <1>5 DEF Standing
<1>7. \A name \in MultiplexName \ R : out.rules[name] = old(name)
  BY <1>3, MultiplexInputIs DEF LoadedBefore, Faithful
<1>8. /\ F \in Seq(Entry)
      /\ \A name \in Name :
           ToSet(new(name)) = IF name \in R THEN ToSet(Holding(kept(name))) ELSE ToSet(old(name))
  BY <1>2, <1>4, <1>6, ReadLoads
<1>9. /\ in \in InputType /\ in.default = default
      /\ \A name \in MultiplexName : in.rules[name] = new(name)
  BY <1>8, MultiplexInputIs
<1> HIDE DEF F, before, kept, R, new, in, out
<1>10. ASSUME NEW name \in MultiplexName
       PROVE  ToSet(in.rules[name]) = ToSet(out.rules[name]) /\ Exact(ToSet(out.rules[name]))
  <2>1. name \in Name
    BY <1>4
  <2>2. CASE name \in R
    BY <1>5, <1>8, <1>9, <2>1, <2>2, HeldExact
  <2>3. CASE name \notin R
    BY <1>7, <1>8, <1>9, <2>1, <2>3 DEF old
  <2> QED
    BY <2>2, <2>3
<1>11. Alike(in, out)
  BY <1>3, <1>9, <1>10 DEF Alike
<1>12. ASSUME NEW target \in ToSet(Multiplexers) PROVE GroupSettled(in, target, inputs)
  BY <1>3, <1>9, <1>11, <1>a, GroupRead DEF AllSettled
<1> QED
  BY <1>12 DEF AllSettled, in, F

Multiplexing(profile) == Covered(profile) \cap MultiplexingArchitectures # {}

\* Where a result covers an architecture with a multiplexer, it is settled.
LEMMA ArchitecturesMultiplexed ==
  ASSUME NEW profile, Built(profile),
         NEW n \in Nat, NEW inputs, DOMAIN inputs = 1..n, \A i \in 1..n : ProfileOK(inputs[i]),
         Multiplexing(SettleArchitectures(profile, inputs))
  PROVE  AllSettled(Reading(SettleArchitectures(profile, inputs)), Readings(inputs))
<1> DEFINE q == SettleArchitectures(profile, inputs)
           entries == profile.entries
           default == Default(profile)
           read == Readings(inputs)
           F == SettleMultiplexed(entries, default, read).entries
<1>1. /\ entries \in Seq(Entry) /\ OneNamed(entries) /\ default \in Decisive
      /\ \A name \in Name : Exact(ToSet(LoadedClauses(entries, default, name)))
  BY ProfileDecides DEF Built, ProfileOK, Loads
<1>2. read \in Seq(InputType)
  BY ReadingsAre
<1> HIDE DEF entries, default
<1>3. AllSettled(MultiplexInput(F, default), read)
  <2> HIDE DEF read
  <2> QED
    BY <1>1, <1>2, SettledRead
<1>4. NoArch \notin MultiplexingArchitectures
  BY CallsAssumption
<1>5. \/ q = profile /\ ~CoversAny(profile.architectures, MultiplexingArchitectures)
      \/ /\ q = Rebuilt(profile, profile.architectures \ MultiplexingArchitectures,
                        profile.entries, profile.flags)
         /\ native \notin MultiplexingArchitectures
      \/ q = Rebuilt(profile, profile.architectures, F, profile.flags)
  BY DEF SettleArchitectures, NarrowOrSettle, read, Readings, Reading, entries, default
<1> HIDE DEF F, q
<1>6. Covered(q) \cap MultiplexingArchitectures # {}
  BY DEF Multiplexing, q
<1>7. q # profile \/ CoversAny(profile.architectures, MultiplexingArchitectures)
  BY <1>4, <1>6 DEF Covered, CoversAny
<1>8. ~ /\ q = Rebuilt(profile, profile.architectures \ MultiplexingArchitectures,
                       profile.entries, profile.flags)
        /\ native \notin MultiplexingArchitectures
  BY <1>6 DEF Covered, Rebuilt
<1>9. q = Rebuilt(profile, profile.architectures, F, profile.flags)
  BY <1>5, <1>7, <1>8
<1>10. Default(q) = default /\ q.entries = F
  BY <1>9 DEF Rebuilt, Default, default
<1>11. AllSettled(Reading(q), read)
  BY <1>3, <1>10 DEF Reading
<1> QED
  BY <1>11 DEF q, read

SettledOver(profile, inputs) ==
  Multiplexing(profile) => AllSettled(Reading(profile), Readings(inputs))

CleanOver(profile) == Multiplexing(profile) => Clean(Reading(profile))

\* On the safe side of a call through a multiplexer.
MuxOver(profile, input) ==
  \A narrow \in Widths(ComparedOf(profile, input) \cap MultiplexingArchitectures) :
    MuxSafe(Reading(profile), Reading(input), narrow)

LEMMA NormalizedSettled ==
  ASSUME NEW profile, ProfileOK(profile)
  PROVE  SettledOver(Normalized(profile), <<profile>>)
<1> DEFINE d == Default(profile)
           entries == profile.entries
           p == [default |-> d.action, errno |-> OutputErrno(d.action, d.errno),
                 entries |-> SettledSyscalls(entries, d),
                 architectures |-> profile.architectures, flags |-> profile.flags,
                 path |-> profile.path, metadata |-> profile.metadata]
           inputs == <<profile>>
           rules == SortedRules(SettledRules(entries, d, FALSE))
<1>1. d \in Decisive /\ entries \in Seq(Entry)
  BY ProfileDecides DEF ProfileOK
<1>2. Normalized(profile) = SettleArchitectures(p, inputs)
  BY DEF Normalized
<1>3. DOMAIN inputs = 1..1 /\ \A i \in 1..1 : ProfileOK(inputs[i])
  OBVIOUS
<1>4. /\ p.default = d.action /\ p.errno = OutputErrno(d.action, d.errno)
      /\ p.entries = SettledSyscalls(entries, d)
  OBVIOUS
<1> HIDE DEF p, inputs
<1>5. p.entries = EmittedAll(d, rules)
  BY <1>4 DEF SettledSyscalls
<1>6. \A name \in Name : rules[name] \in RulesType(FALSE) /\ ResultForm(rules[name])
  <2> HIDE DEF d, entries
  <2> QED
    BY <1>1, NormalRules
<1> HIDE DEF rules
<1>7. Built(p)
  <2> HIDE DEF d
  <2> QED
    BY <1>1, <1>4, <1>5, <1>6, WrittenBuilt
<1> DEFINE q == SettleArchitectures(p, inputs)
<1>8. ASSUME Multiplexing(q) PROVE AllSettled(Reading(q), Readings(inputs))
  BY <1>3, <1>7, <1>8, ArchitecturesMultiplexed
<1> HIDE DEF q
<1> QED
  BY <1>2, <1>8 DEF SettledOver, q, inputs

LEMMA MergedSettled ==
  ASSUME NEW left, NEW right, ProfileOK(left), ProfileOK(right)
  PROVE  SettledOver(MergeTwo(left, right), <<left, right>>)
<1> DEFINE d == PickClause(Default(left), Default(right))
           listener == ListenerOf(left, right)
           shared == IF Intersecting THEN left.architectures \cap right.architectures
                     ELSE left.architectures \cup right.architectures
           misread == /\ CoversAny(shared, NarrowArchitectures)
                      /\ LoadsWideValue(left) \/ LoadsWideValue(right)
           drops == misread /\ Intersecting /\ native \notin NarrowArchitectures
           A == IF drops THEN shared \ NarrowArchitectures ELSE shared
           flag == misread /\ ~drops
           inputs == <<left, right>>
           p == [default |-> d.action, errno |-> OutputErrno(d.action, d.errno),
                 path |-> listener.path, metadata |-> listener.metadata,
                 flags |-> MergeFlags(left.flags, right.flags, Intersecting, listener = left),
                 architectures |-> A,
                 entries |-> MergeProfileSyscalls(Side(left.entries, Default(left)),
                               Side(right.entries, Default(right)), d, flag)]
           q == SettleArchitectures(p, inputs)
<1>1. MergeTwo(left, right) = q
  BY DEF MergeTwo, Side
<1>2. DOMAIN inputs = 1..2 /\ \A i \in 1..2 : ProfileOK(inputs[i])
  OBVIOUS
<1>3. /\ p.default = d.action /\ p.errno = OutputErrno(d.action, d.errno)
      /\ p.entries = MergeProfileSyscalls(Side(left.entries, Default(left)),
                       Side(right.entries, Default(right)), d, flag)
  OBVIOUS
<1>4. flag \in BOOLEAN
  BY MergedWidths, Zenon
<1> HIDE DEF p, inputs, flag
<1>5. Built(p)
  BY <1>3, <1>4, MergeBuilt
<1>6. ASSUME Multiplexing(q) PROVE AllSettled(Reading(q), Readings(inputs))
  BY <1>2, <1>5, <1>6, ArchitecturesMultiplexed
<1> HIDE DEF q
<1> QED
  BY <1>1, <1>6 DEF SettledOver, inputs

LEMMA BeneathRead ==
  ASSUME NEW a, NEW b, ProfileOK(a), ProfileOK(b), NEW narrow, Beneath(a, b, narrow)
  PROVE  BeneathIn(Reading(a), Reading(b), narrow)
<1> SUFFICES ASSUME NEW name \in MultiplexName, NEW call \in Calls(narrow)
             PROVE  AllOnSide(Direct(Reading(a).rules[name], Reading(a).default, narrow, call),
                              Direct(Reading(b).rules[name], Reading(b).default, narrow, call))
  BY DEF BeneathIn
<1>1. name \in Name
  BY MultiplexNames
<1>2. AllOnSide(Decides(a, name, narrow, call), Decides(b, name, narrow, call))
  BY <1>1 DEF Beneath
<1> QED
  BY <1>2, ReadingIs DEF Decides

\* The architectures on which a result is compared are among those of both.
LEMMA ComparedMux ==
  ASSUME NEW a, NEW b, ProfileOK(a), ProfileOK(b), OnItsSide(a, b),
         NEW narrow \in Widths(ComparedOf(a, b) \cap MultiplexingArchitectures)
  PROVE  /\ Multiplexing(a) /\ Multiplexing(b) /\ narrow \in BOOLEAN
         /\ BeneathIn(Reading(a), Reading(b), narrow)
<1> DEFINE A == ComparedOf(a, b)
           M == MultiplexingArchitectures
<1>1. A \subseteq Covered(a) \cap Covered(b)
  BY DEF OnItsSide
<1>2. A \cap M # {}
  BY Zenon DEF Widths
<1>3. narrow \in Widths(A)
  <2> HIDE DEF A
  <2>1. A \cap M \subseteq A
    OBVIOUS
  <2> QED
    BY <2>1, WidthsGrow
<1>4. Beneath(a, b, narrow)
  BY <1>3 DEF OnItsSide
<1>5. narrow \in BOOLEAN
  BY <1>3, WidthsAre
<1>6. BeneathIn(Reading(a), Reading(b), narrow)
  BY <1>4, BeneathRead
<1> HIDE DEF A
<1>7. Multiplexing(a) /\ Multiplexing(b)
  BY <1>1, <1>2 DEF Multiplexing
<1> QED
  BY <1>5, <1>6, <1>7

LEMMA OverClean ==
  ASSUME NEW profile, NEW inputs, SettledOver(profile, inputs)
  PROVE  CleanOver(profile)
  BY SettledIsClean DEF SettledOver, CleanOver

\* A profile that is settled for others is safe with regard to each of them.
LEMMA SettledIsOver ==
  ASSUME NEW q, ProfileOK(q), NEW n \in Nat, NEW inputs, DOMAIN inputs = 1..n,
         \A i \in 1..n : ProfileOK(inputs[i]), SettledOver(q, inputs),
         NEW i \in 1..n, OnItsSide(q, inputs[i])
  PROVE  MuxOver(q, inputs[i])
<1> DEFINE R == Readings(inputs)
           c == inputs[i]
<1>1. R \in Seq(InputType)
  BY ReadingsAre
<1>2. i \in DOMAIN R /\ R[i] = Reading(c) /\ ProfileOK(c) /\ OnItsSide(q, c)
  BY DEF Readings
<1>3. Reading(q) \in InputType
  BY ReadingIs
<1>4. Multiplexing(q) => AllSettled(Reading(q), R)
  BY DEF SettledOver
<1> HIDE DEF R, c
<1>5. ASSUME NEW narrow \in Widths(ComparedOf(q, c) \cap MultiplexingArchitectures)
      PROVE  MuxSafe(Reading(q), Reading(c), narrow)
  <2>1. Multiplexing(q) /\ BeneathIn(Reading(q), R[i], narrow)
    BY <1>2, ComparedMux
  <2>2. AllSettled(Reading(q), R)
    BY <1>4, <2>1
  <2>3. MuxSafe(Reading(q), R[i], narrow)
    BY <1>1, <1>2, <1>3, <2>1, <2>2, SettledSafe
  <2> QED
    BY <1>2, <2>3
<1> QED
  BY <1>5 DEF MuxOver, c

\* And with regard to what one of them is safe with regard to.
LEMMA SettledIsOverTwice ==
  ASSUME NEW q, ProfileOK(q), NEW n \in Nat, NEW inputs, DOMAIN inputs = 1..n,
         \A i \in 1..n : ProfileOK(inputs[i]), SettledOver(q, inputs),
         NEW i \in 1..n, OnItsSide(q, inputs[i]), CleanOver(inputs[i]),
         NEW c, ProfileOK(c), OnItsSide(q, c), OnItsSide(inputs[i], c), MuxOver(inputs[i], c)
  PROVE  MuxOver(q, c)
<1> DEFINE R == Readings(inputs)
           b == inputs[i]
           M == MultiplexingArchitectures
<1>1. R \in Seq(InputType)
  BY ReadingsAre
<1>2. /\ i \in DOMAIN R /\ R[i] = Reading(b) /\ ProfileOK(b) /\ OnItsSide(q, b)
      /\ OnItsSide(b, c) /\ CleanOver(b) /\ MuxOver(b, c)
  BY DEF Readings
<1>3. Reading(q) \in InputType /\ Reading(b) \in InputType /\ Reading(c) \in InputType
  BY <1>2, ReadingIs
<1>4. Multiplexing(q) => AllSettled(Reading(q), R)
  BY DEF SettledOver
<1> HIDE DEF R, b
<1>5. ASSUME NEW narrow \in Widths(ComparedOf(q, c) \cap M)
      PROVE  MuxSafe(Reading(q), Reading(c), narrow)
  <2>1. /\ Multiplexing(q) /\ narrow \in BOOLEAN
        /\ BeneathIn(Reading(q), Reading(c), narrow)
    BY ComparedMux
  <2>2. ComparedOf(q, c) \subseteq ComparedOf(q, b) /\ ComparedOf(q, c) \subseteq ComparedOf(b, c)
    BY <1>2 DEF OnItsSide, ComparedOf
  <2>3. narrow \in Widths(ComparedOf(q, b) \cap M) /\ narrow \in Widths(ComparedOf(b, c) \cap M)
    <3> DEFINE A == ComparedOf(q, c) \cap M
               B == ComparedOf(q, b) \cap M
               C == ComparedOf(b, c) \cap M
    <3>1. A \subseteq B /\ A \subseteq C
      BY <2>2
    <3> HIDE DEF A, B, C
    <3>2. narrow \in Widths(A)
      BY DEF A
    <3> QED
      BY <3>1, <3>2, WidthsGrow DEF B, C
  <2>4. Multiplexing(b) /\ BeneathIn(Reading(q), R[i], narrow)
    BY <1>2, <2>3, ComparedMux
  <2>5. MuxSafe(R[i], Reading(c), narrow) /\ Clean(R[i]) /\ R[i] \in InputType
    BY <1>2, <1>3, <2>3, <2>4 DEF MuxOver, CleanOver
  <2>6. AllSettled(Reading(q), R)
    BY <1>4, <2>1
  <2> QED
    BY <1>1, <1>2, <1>3, <2>1, <2>4, <2>5, <2>6, SettledTwice
<1> QED
  BY <1>5 DEF MuxOver

LEMMA RegroupedOver ==
  ASSUME NEW profile, Finished(profile), NEW flags
  PROVE  LET q == Rebuilt(profile, profile.architectures, Regrouped(profile.entries), flags)
         IN /\ CleanOver(profile) => CleanOver(q)
            /\ \A c : ProfileOK(c) /\ OnItsSide(profile, c) /\ MuxOver(profile, c) => MuxOver(q, c)
<1> DEFINE q == Rebuilt(profile, profile.architectures, Regrouped(profile.entries), flags)
           a == Reading(q)
           b == Reading(profile)
<1>1. /\ q.default = profile.default /\ q.errno = profile.errno
      /\ q.architectures = profile.architectures /\ q.entries = Regrouped(profile.entries)
  BY DEF Rebuilt
<1> HIDE DEF q
<1>2. Default(q) = Default(profile) /\ Covered(q) = Covered(profile)
  BY <1>1 DEF Default, Covered
<1>3. ProfileOK(q) /\ ProfileOK(profile)
  BY <1>1, RegroupedAre DEF Finished, ProfileOK
<1>4. \A name : ToSet(Loads(q, name)) = ToSet(Loads(profile, name))
  BY <1>1, <1>2, <1>3, RegroupedLoads DEF Loads, ProfileOK
<1>5. /\ a \in InputType /\ b \in InputType
      /\ a.default = Default(q) /\ b.default = Default(profile)
      /\ \A name \in MultiplexName :
           a.rules[name] = Loads(q, name) /\ b.rules[name] = Loads(profile, name)
  BY <1>3, ReadingIs
<1>6. \A name \in MultiplexName : Exact(ToSet(Loads(profile, name)))
  BY MultiplexNames DEF Finished
<1> HIDE DEF a, b
<1>7. Alike(a, b)
  BY <1>2, <1>4, <1>5, <1>6 DEF Alike
<1>8. CleanOver(profile) => CleanOver(q)
  <2>1. Multiplexing(q) <=> Multiplexing(profile)
    BY <1>2 DEF Multiplexing
  <2>2. Clean(b) => Clean(a)
    BY <1>5, <1>7, CleanAlike
  <2> QED
    BY <2>1, <2>2 DEF CleanOver, a, b
<1>9. ASSUME NEW c, MuxOver(profile, c) PROVE MuxOver(q, c)
  <2>1. ComparedOf(q, c) = ComparedOf(profile, c)
    BY <1>2 DEF ComparedOf
  <2>2. ASSUME NEW narrow, MuxSafe(b, Reading(c), narrow) PROVE MuxSafe(a, Reading(c), narrow)
    BY <1>5, <1>7, <2>2, MuxSafeAlike
  <2> QED
    BY <1>9, <2>1, <2>2 DEF MuxOver, a, b
<1> QED
  BY <1>8, <1>9 DEF q

\* The inductive invariant of the multiplexers.
MuxInv ==
  /\ folded > 0 => CleanOver(result)
  /\ \A i \in 1..folded : MuxOver(result, passed[i])

LEMMA MuxSafeKept ==
  ASSUME strategy' = strategy, NEW CONSTANT a, NEW CONSTANT c, NEW CONSTANT narrow,
         MuxSafe(a, c, narrow)
  PROVE  MuxSafe(a, c, narrow)'
  BY DEF MuxSafe, FilteredClears, Clears, SubSafe, ViewOver, SubOver, AllOnSide, OnSide,
         Intersecting

LEMMA MuxMoved ==
  ASSUME UNCHANGED <<strategy, native, passed>>, NEW CONSTANT p, result' = p, CleanOver(p),
         NEW CONSTANT n, folded' = n, \A i \in 1..n : MuxOver(p, passed[i])
  PROVE  MuxInv'
<1>1. strategy' = strategy /\ native' = native /\ passed' = passed
  OBVIOUS
<1>2. CleanOver(result)'
  BY <1>1 DEF CleanOver, Multiplexing, Covered
<1>3. \A i \in 1..n : MuxOver(p, passed[i])'
  BY <1>1, MuxSafeKept DEF MuxOver, ComparedOf, Covered, Intersecting
<1> QED
  BY <1>2, <1>3 DEF MuxInv

LEMMA MuxKept ==
  ASSUME MuxInv, UNCHANGED <<strategy, native, passed, folded, result>>
  PROVE  MuxInv'
<1>1. CASE folded > 0
  <2>1. PICK p, n : p = result /\ n = folded
    OBVIOUS
  <2>2. /\ result' = p /\ folded' = n /\ CleanOver(p)
        /\ \A i \in 1..n : MuxOver(p, passed[i])
    BY <1>1, <2>1 DEF MuxInv
  <2> QED
    BY <2>2, MuxMoved
<1>2. CASE ~(folded > 0)
  <2>1. strategy' = strategy /\ native' = native /\ passed' = passed
    OBVIOUS
  <2>2. PICK p, n : p = result /\ n = folded
    OBVIOUS
  <2>3. result' = p /\ folded' = n /\ ~(n > 0) /\ \A i \in 1..n : MuxOver(p, passed[i])
    BY <1>2, <2>2 DEF MuxInv
  <2>4. \A i \in 1..n : MuxOver(p, passed[i])'
    BY <2>1, <2>3, MuxSafeKept DEF MuxOver, ComparedOf, Covered, Intersecting
  <2> QED
    BY <2>1, <2>3, <2>4 DEF MuxInv
<1> QED
  BY <1>1, <1>2

LEMMA NormalizeMux ==
  ASSUME FieldsInv, SidesInv, NormalizeOnly
  PROVE  MuxInv'
<1>1. /\ Len(passed) = 1 /\ pc = "validate" /\ folded' = 1
      /\ UNCHANGED <<strategy, native, passed>> /\ result' = Normalized(passed[1])
  BY DEF NormalizeOnly
<1>2. PICK p : p = Normalized(passed[1])
  OBVIOUS
<1>3. ProfileOK(passed[1])
  BY <1>1 DEF SidesInv, PassedOK
<1> DEFINE inputs == <<passed[1]>>
<1>4. Built(p) /\ OnItsSide(p, passed[1]) /\ SettledOver(p, inputs)
  BY <1>2, <1>3, NormalizedSafe, NormalizedSettled
<1>5. ProfileOK(p) /\ CleanOver(p)
  BY <1>4, OverClean DEF Built
<1>6. DOMAIN inputs = 1..1 /\ inputs[1] = passed[1]
  OBVIOUS
<1> HIDE DEF inputs
<1>7. \A i \in 1..1 : ProfileOK(inputs[i]) /\ OnItsSide(p, inputs[i])
  BY <1>3, <1>4, <1>6
<1>8. \A i \in 1..1 : MuxOver(p, inputs[i])
  BY <1>4, <1>5, <1>6, <1>7, SettledIsOver
<1>9. \A i \in 1..1 : MuxOver(p, passed[i])
  BY <1>6, <1>8
<1> QED
  BY <1>1, <1>2, <1>5, <1>9, MuxMoved

LEMMA FirstTwoMux ==
  ASSUME FieldsInv, SidesInv, FoldFirstTwo
  PROVE  MuxInv'
<1>1. /\ Len(passed) \in Nat /\ Len(passed) > 1 /\ pc = "validate" /\ folded' = 2
      /\ UNCHANGED <<strategy, native, passed>> /\ result' = MergeTwo(passed[1], passed[2])
  BY DEF FoldFirstTwo, FieldsInv, CountsOK
<1>2. PICK p : p = MergeTwo(passed[1], passed[2])
  OBVIOUS
<1>3. ProfileOK(passed[1]) /\ ProfileOK(passed[2])
  <2>1. 1 \in 1..Len(passed) /\ 2 \in 1..Len(passed)
    BY <1>1
  <2> QED
    BY <1>1, <2>1 DEF SidesInv, PassedOK
<1> DEFINE inputs == <<passed[1], passed[2]>>
<1>4. /\ Built(p) /\ OnItsSide(p, passed[1]) /\ OnItsSide(p, passed[2])
      /\ SettledOver(p, inputs)
  BY <1>2, <1>3, MergeTwoSafe, MergedSettled
<1>5. ProfileOK(p) /\ CleanOver(p)
  BY <1>4, OverClean DEF Built
<1>6. DOMAIN inputs = 1..2 /\ inputs[1] = passed[1] /\ inputs[2] = passed[2]
  OBVIOUS
<1> HIDE DEF inputs
<1>7. \A i \in 1..2 : i = 1 \/ i = 2
  OBVIOUS
<1>8. \A i \in 1..2 : inputs[i] = passed[i] /\ ProfileOK(inputs[i]) /\ OnItsSide(p, inputs[i])
  BY <1>3, <1>4, <1>6, <1>7
<1>9. \A i \in 1..2 : MuxOver(p, inputs[i])
  BY <1>4, <1>5, <1>6, <1>8, SettledIsOver
<1>10. \A i \in 1..2 : MuxOver(p, passed[i])
  BY <1>8, <1>9
<1> QED
  BY <1>1, <1>2, <1>5, <1>10, MuxMoved

LEMMA NextMux ==
  ASSUME FieldsInv, SidesInv, MuxInv, FoldNext
  PROVE  MuxInv'
<1>1. /\ Len(passed) = arity /\ arity \in Nat /\ folded \in 1..arity /\ folded < arity
      /\ pc = "fold" /\ folded' = folded + 1
      /\ UNCHANGED <<strategy, native, passed>>
      /\ result' = MergeTwo(result, passed[folded + 1])
  BY DEF FoldNext, FieldsInv, CountsOK
<1>2. PICK p : p = MergeTwo(result, passed[folded + 1])
  OBVIOUS
<1>3. /\ ProfileOK(passed[folded + 1]) /\ ProfileOK(result)
      /\ \A i \in 1..folded : ProfileOK(passed[i])
  <2>1. folded + 1 \in 1..Len(passed) /\ \A i \in 1..folded : i \in 1..Len(passed)
    BY <1>1
  <2> QED
    BY <1>1, <2>1 DEF SidesInv, PassedOK, ResultOK, Finished
<1> DEFINE inputs == <<result, passed[folded + 1]>>
<1>4. /\ Built(p) /\ OnItsSide(p, result) /\ OnItsSide(p, passed[folded + 1])
      /\ SettledOver(p, inputs)
  BY <1>2, <1>3, MergeTwoSafe, MergedSettled
<1>5. ProfileOK(p) /\ CleanOver(p)
  BY <1>4, OverClean DEF Built
<1>6. DOMAIN inputs = 1..2 /\ inputs[1] = result /\ inputs[2] = passed[folded + 1]
  OBVIOUS
<1> HIDE DEF inputs
<1>7. 1 \in 1..2 /\ 2 \in 1..2 /\ \A i \in 1..2 : i = 1 \/ i = 2
  OBVIOUS
<1>8. \A i \in 1..2 : ProfileOK(inputs[i]) /\ OnItsSide(p, inputs[i])
  BY <1>3, <1>4, <1>6, <1>7
<1>9. MuxOver(p, passed[folded + 1])
  <2>1. MuxOver(p, inputs[2])
    BY <1>4, <1>5, <1>6, <1>7, <1>8, SettledIsOver
  <2> QED
    BY <1>6, <2>1
<1>10. ASSUME NEW i \in 1..folded PROVE MuxOver(p, passed[i])
  <2>1. OnItsSide(result, passed[i]) /\ ProfileOK(passed[i]) /\ MuxOver(result, passed[i])
    BY <1>3 DEF SidesInv, OnEverySide, MuxInv
  <2>2. CleanOver(result)
    BY <1>1 DEF MuxInv
  <2>3. OnItsSide(p, passed[i])
    BY <1>3, <1>4, <1>5, <2>1, SideOfSide
  <2>4. /\ OnItsSide(inputs[1], passed[i]) /\ MuxOver(inputs[1], passed[i])
        /\ CleanOver(inputs[1]) /\ OnItsSide(p, inputs[1])
    BY <1>4, <1>6, <2>1, <2>2
  <2> QED
    BY <1>4, <1>5, <1>6, <1>7, <1>8, <2>1, <2>3, <2>4, SettledIsOverTwice
<1>11. PICK n : n = folded + 1
  OBVIOUS
<1>12. \A i \in 1..n : MuxOver(p, passed[i])
  <2>1. \A i \in 1..n : i \in 1..folded \/ i = folded + 1
    BY <1>1, <1>11
  <2> QED
    BY <1>9, <1>10, <2>1
<1>13. folded' = n /\ result' = p
  BY <1>1, <1>2, <1>11
<1> QED
  BY <1>1, <1>5, <1>12, <1>13, MuxMoved

LEMMA RegroupMux ==
  ASSUME FieldsInv, SidesInv, MuxInv, Regroup
  PROVE  MuxInv'
<1>1. /\ folded \in 1..arity /\ arity \in Nat /\ Len(passed) = arity
      /\ pc = "regroup" /\ folded' = folded
      /\ UNCHANGED <<strategy, native, passed>>
      /\ result' = Rebuilt(result, result.architectures, Regrouped(result.entries),
                           FlagsForListener(result.flags, result.path))
  BY DEF Regroup, FieldsInv, CountsOK
<1>2. PICK p : p = Rebuilt(result, result.architectures, Regrouped(result.entries),
                           FlagsForListener(result.flags, result.path))
  OBVIOUS
<1>3. Finished(result) /\ \A i \in 1..folded : ProfileOK(passed[i])
  BY <1>1 DEF SidesInv, PassedOK, ResultOK
<1>4. CleanOver(p)
  <2>1. CleanOver(result)
    BY <1>1 DEF MuxInv
  <2> QED
    BY <1>2, <1>3, <2>1, RegroupedOver
<1>5. ASSUME NEW i \in 1..folded PROVE MuxOver(p, passed[i])
  <2>1. OnItsSide(result, passed[i]) /\ MuxOver(result, passed[i]) /\ ProfileOK(passed[i])
    BY <1>3 DEF SidesInv, OnEverySide, MuxInv
  <2> QED
    BY <1>2, <1>3, <2>1, RegroupedOver
<1>6. PICK n : n = folded
  OBVIOUS
<1>7. folded' = n /\ result' = p /\ \A i \in 1..n : MuxOver(p, passed[i])
  BY <1>1, <1>2, <1>5, <1>6
<1> QED
  BY <1>1, <1>4, <1>7, MuxMoved

LEMMA StepMux ==
  ASSUME FieldsInv, SidesInv, MuxInv, Next \/ UNCHANGED vars
  PROVE  MuxInv'
<1>1. ASSUME NEW profile \in Profiles[arity], ValidateNext(profile) PROVE MuxInv'
  <2>1. folded = 0 /\ folded' = 0
    BY <1>1 DEF ValidateNext, FieldsInv, CountsOK
  <2> QED
    BY <2>1 DEF MuxInv
<1>2. CASE RejectEmptyCall
  BY <1>2, MuxKept DEF RejectEmptyCall
<1>3. CASE NormalizeOnly
  BY <1>3, NormalizeMux
<1>4. CASE FoldFirstTwo
  BY <1>4, FirstTwoMux
<1>5. CASE FoldNext
  BY <1>5, NextMux
<1>6. CASE Folded
  BY <1>6, MuxKept DEF Folded
<1>7. CASE ResolveListener
  BY <1>7, MuxKept DEF ResolveListener
<1>8. CASE Regroup
  BY <1>8, RegroupMux
<1>9. CASE UNCHANGED vars
  BY <1>9, MuxKept DEF vars
<1>10. CASE Returned
  BY <1>9, <1>10 DEF Returned
<1> QED
  BY <1>1, <1>2, <1>3, <1>4, <1>5, <1>6, <1>7, <1>8, <1>9, <1>10 DEF Next

LEMMA InitMux == Init => MuxInv
  BY DEF Init, MuxInv

LEMMA Muxes == Spec => []MuxInv
<1>1. FieldsInv /\ SidesInv /\ MuxInv /\ [Next]_vars => MuxInv'
  BY StepMux
<1> QED
  BY <1>1, InitMux, Fields, Sides, PTL DEF Spec

-----------------------------------------------------------------------------
(* What the invariants say of the kernel *)

LEMMA LoadedReads ==
  ASSUME NEW profile, ProfileOK(profile), NEW target \in ToSet(Multiplexers)
  PROVE  /\ Loaded(profile)[target] = Reading(profile).rules[target]
         /\ OtherSubcallResults(Loaded(profile), Default(profile), target)
              = OtherSub(Reading(profile), target)
         /\ \A name \in ToSet(Carried[target]) :
              /\ Loaded(profile)[name] = Reading(profile).rules[name]
              /\ \A narrow, call :
                   SubcallResults(Loaded(profile), Default(profile), target, name, narrow, call)
                     = Sub(Reading(profile), target, name, narrow, call)
<1> DEFINE L == Loaded(profile)
           in == Reading(profile)
           d == Default(profile)
<1>1. \A name \in MultiplexName : L[name] = Loads(profile, name)
  BY MultiplexNames DEF Loaded, Loads
<1>2. /\ in.default = d
      /\ \A name \in MultiplexName : in.rules[name] = Loads(profile, name)
  BY ReadingIs
<1> HIDE DEF L, in, d
<1>3. L[target] = in.rules[target] /\ \A name \in ToSet(Carried[target]) : L[name] = in.rules[name]
  BY <1>1, <1>2, MultiplexNames
<1>4. AnyResult(L, d, target) = AnyResult(in.rules, d, target)
  BY <1>3 DEF AnyResult
<1>5. OtherSubcallResults(L, d, target) = OtherSub(in, target)
  BY <1>2, <1>3, <1>4 DEF OtherSub, OtherSubcallResults
<1>6. ASSUME NEW name \in ToSet(Carried[target]), NEW narrow, NEW call
      PROVE  SubcallResults(L, d, target, name, narrow, call) = Sub(in, target, name, narrow, call)
  <2>1. DirectResults(L, d, name, narrow, call) = DirectResults(in.rules, d, name, narrow, call)
    BY <1>3, <1>6 DEF DirectResults
  <2> QED
    BY <1>2, <1>3, <1>4, <1>6, <2>1 DEF Sub, SubcallResults
<1> QED
  BY <1>3, <1>5, <1>6 DEF L, in, d

LEMMA SubSafeIsSafe ==
  ASSUME NEW a \in InputType, NEW c, NEW target \in ToSet(Multiplexers),
         NEW name \in ToSet(Carried[target]), NEW narrow, SubSafe(a, c, target, name, narrow)
  PROVE  \/ /\ a.rules[target] = <<>> /\ c.rules[target] = <<>>
            /\ Equivalent(a.default, c.default)
            /\ RuleKeys(a.rules[name]) = RuleKeys(c.rules[name])
         \/ SubOver(a, c, target, name, narrow)
<1>1. CASE SameRules(a, c, target, name)
  BY <1>1 DEF SameRules, NoTarget
<1>2. CASE ViewOver(a, c, target, name, narrow)
  <2>1. \A call : Sub(a, target, name, narrow, call) \subseteq ViewRanks(a, target, name)
    BY SubWithin
  <2> QED
    BY <1>2, <2>1 DEF ViewOver, SubOver, AllOnSide
<1> QED
  BY <1>1, <1>2 DEF SubSafe

LEMMA MuxIsSafe == CountsOK /\ SidesInv /\ MuxInv => MultiplexedCallsOnTheSafeSide
<1> SUFFICES ASSUME CountsOK, SidesInv, MuxInv, NEW i \in 1..folded,
                    NEW narrow \in Widths(Compared(passed[i]) \cap MultiplexingArchitectures),
                    NEW target \in ToSet(Multiplexers)
             PROVE  SafeOnMultiplexer(passed[i], target, narrow)
  BY DEF MultiplexedCallsOnTheSafeSide
<1> DEFINE p == result
           q == passed[i]
           a == Reading(p)
           c == Reading(q)
<1>1. folded > 0 /\ folded \in 1..arity /\ Len(passed) = arity /\ arity \in Nat
  BY DEF CountsOK
<1>2. ProfileOK(p) /\ ProfileOK(q)
  BY <1>1 DEF SidesInv, PassedOK, ResultOK, Finished
<1>3. OnItsSide(p, q) /\ Compared(q) = ComparedOf(p, q)
  BY DEF SidesInv, OnEverySide, Compared, ComparedOf
<1>4. narrow \in Widths(ComparedOf(p, q) \cap MultiplexingArchitectures)
  BY <1>3
<1>5. MuxOver(p, q) /\ CleanOver(p)
  BY <1>1 DEF MuxInv
<1> HIDE DEF p, q
<1>6. /\ Multiplexing(p) /\ narrow \in BOOLEAN /\ BeneathIn(a, c, narrow)
  BY <1>2, <1>3, <1>4, ComparedMux
<1>7. Clean(a) /\ MuxSafe(a, c, narrow)
  BY <1>4, <1>5, <1>6 DEF MuxOver, CleanOver
<1>8. a \in InputType /\ c \in InputType /\ a.default = Default(p) /\ c.default = Default(q)
  BY <1>2, ReadingIs
<1>9. AllOnSide(OtherSubcallResults(Loaded(p), Default(p), target),
                OtherSubcallResults(Loaded(q), Default(q), target))
  <2>1. AllOnSide(OtherSub(a, target), OtherSub(c, target))
    <3> HIDE DEF a, c
    <3>1. ~Filtered(a, target)
      BY <1>7, <1>8, PlainTarget
    <3>2. FilteredClears(a, c, target)
      BY <1>7 DEF MuxSafe
    <3> QED
      BY <1>6, <1>8, <3>1, <3>2, OtherIsSafe
  <2> QED
    BY <1>2, <2>1, LoadedReads
<1>10. ASSUME NEW name \in ToSet(Carried[target])
       PROVE  \/ /\ Loaded(p)[target] = <<>>
                 /\ SameFilter(Loaded(p), Loaded(q), q, {target, name})
              \/ \A call \in Calls(narrow) :
                   AllOnSide(SubcallResults(Loaded(p), Default(p), target, name, narrow, call),
                             SubcallResults(Loaded(q), Default(q), target, name, narrow, call))
  <2>1. \/ /\ a.rules[target] = <<>> /\ c.rules[target] = <<>>
           /\ Equivalent(a.default, c.default)
           /\ RuleKeys(a.rules[name]) = RuleKeys(c.rules[name])
        \/ SubOver(a, c, target, name, narrow)
    <3> HIDE DEF a, c
    <3> QED
      BY <1>7, <1>8, SubSafeIsSafe DEF MuxSafe
  <2>2. /\ Loaded(p)[target] = a.rules[target] /\ Loaded(q)[target] = c.rules[target]
        /\ Loaded(p)[name] = a.rules[name] /\ Loaded(q)[name] = c.rules[name]
    BY <1>2, LoadedReads
  <2>3. \A call :
          /\ SubcallResults(Loaded(p), Default(p), target, name, narrow, call)
               = Sub(a, target, name, narrow, call)
          /\ SubcallResults(Loaded(q), Default(q), target, name, narrow, call)
               = Sub(c, target, name, narrow, call)
    BY <1>2, LoadedReads
  <2> HIDE DEF a, c
  <2>4. CASE SubOver(a, c, target, name, narrow)
    BY <2>3, <2>4 DEF SubOver
  <2>5. CASE /\ a.rules[target] = <<>> /\ c.rules[target] = <<>>
             /\ Equivalent(a.default, c.default)
             /\ RuleKeys(a.rules[name]) = RuleKeys(c.rules[name])
    BY <1>8, <2>2, <2>5 DEF SameFilter, p
  <2> QED
    BY <2>1, <2>4, <2>5
<1>11. \A m, n : AllOnSide(m, n) <=> OnSafeSide(m, n)
  BY DEF AllOnSide, OnSafeSide, OnSide
<1> QED
  BY <1>9, <1>10, <1>11 DEF SafeOnMultiplexer, p, q

LEMMA MuxIsTaken == CountsOK /\ SidesInv /\ MuxInv => MultiplexersTakeTheResult
<1> SUFFICES ASSUME CountsOK, SidesInv, MuxInv, folded > 0,
                    Covered(result) \cap MultiplexingArchitectures # {},
                    NEW target \in ToSet(Multiplexers)
             PROVE  /\ \A i \in DOMAIN Loaded(result)[target] :
                         Unconditional(Loaded(result)[target][i])
                    /\ \A name \in ToSet(Carried[target]) : ~Refusable(Loaded(result)[name])
  BY DEF MultiplexersTakeTheResult
<1> DEFINE a == Reading(result)
<1>1. ProfileOK(result)
  BY DEF SidesInv, ResultOK, Finished
<1>2. Clean(a)
  BY DEF MuxInv, CleanOver, Multiplexing
<1>3. /\ Loaded(result)[target] = a.rules[target]
      /\ \A name \in ToSet(Carried[target]) : Loaded(result)[name] = a.rules[name]
  BY <1>1, LoadedReads
<1>4. a.rules[target] \in Seq(Clause)
  BY <1>1, ReadingIs, InputFields, MultiplexNames
<1> HIDE DEF a
<1>5. \A i \in DOMAIN a.rules[target] : Unconditional(a.rules[target][i])
  <2>1. \A i \in DOMAIN a.rules[target] : a.rules[target][i] \in ToSet(a.rules[target])
    BY <1>4, SeqIs
  <2> QED
    BY <1>2, <2>1 DEF Clean
<1> QED
  BY <1>2, <1>3, <1>5 DEF Clean

\* The same of a call that is made through a multiplexer, whose rules
\* libseccomp derives from those of other syscalls: for any number of profiles,
\* any multiplexers and any rules (settleMultiplexed, settleMultiplexer,
\* settleMultiplexedSyscall).
THEOREM MultiplexedCallsAreSafe == Spec => []MultiplexedCallsOnTheSafeSide
<1>1. FieldsInv => CountsOK
  BY DEF FieldsInv
<1> QED
  BY <1>1, Fields, Sides, Muxes, MuxIsSafe, PTL

\* No rule of a result is refused on a multiplexer, and none there is left to
\* the order of the compiler (settleMultiplexed).
THEOREM ResultIsTaken == Spec => []MultiplexersTakeTheResult
<1>1. FieldsInv => CountsOK
  BY DEF FieldsInv
<1> QED
  BY <1>1, Fields, Sides, Muxes, MuxIsTaken, PTL

-----------------------------------------------------------------------------
(* The rules of an artifact, as its validator visits them *)

Visit == [entry : Nat, name : Name, clause : Clause]

AsVisit(i, name, clause) == [entry |-> i, name |-> name, clause |-> clause]

NamesIn(set) == Keep(Names, {j \in DOMAIN Names : Names[j] \in set})

VisitsOf(i, clauses, names) ==
  FlattenSeq([j \in DOMAIN names |-> [k \in DOMAIN clauses |->
    [entry |-> i, name |-> names[j], clause |-> clauses[k]]]])

LEMMA NamesInAre ==
  ASSUME NEW set \in SUBSET Name
  PROVE  NamesIn(set) \in Seq(Name) /\ ToSet(NamesIn(set)) = set
<1> DEFINE I == {j \in DOMAIN Names : Names[j] \in set}
<1>1. Names \in Seq(Name)
  <2>1. Names \in Seq(STRING)
    BY ClausesAssumption
  <2>2. \A j \in 1..Len(Names) : Names[j] \in Name
    BY NamesAre
  <2> QED
    BY <2>1, <2>2
<1>2. /\ Keep(Names, I) \in Seq(Name)
      /\ ToSet(Keep(Names, I)) = {Names[j] : j \in {k \in DOMAIN Names : k \in I}}
  BY <1>1, KeepIs
<1>3. \A name \in set : \E j \in DOMAIN Names : Names[j] = name
  BY NamesAre
<1>4. {Names[j] : j \in {k \in DOMAIN Names : k \in I}} = set
  BY <1>3
<1> QED
  BY <1>2, <1>4 DEF NamesIn

LEMMA OneNameVisits ==
  ASSUME NEW i \in Nat, NEW name \in Name, NEW clauses \in Seq(Clause)
  PROVE  LET s == [k \in DOMAIN clauses |-> [entry |-> i, name |-> name, clause |-> clauses[k]]]
         IN s \in Seq(Visit) /\ ToSet(s) = {AsVisit(i, name, c) : c \in ToSet(clauses)}
<1> DEFINE s == [k \in DOMAIN clauses |-> [entry |-> i, name |-> name, clause |-> clauses[k]]]
           n == Len(clauses)
<1>1. n \in Nat /\ DOMAIN clauses = 1..n /\ \A k \in 1..n : clauses[k] \in Clause
  BY SeqIs
<1>2. \A k \in 1..n : s[k] = AsVisit(i, name, clauses[k]) /\ s[k] \in Visit
  BY <1>1 DEF AsVisit, Visit
<1>3. s \in [1..n -> Visit]
  BY <1>1, <1>2
<1>4. s \in Seq(Visit) /\ DOMAIN s = 1..n
  <2> HIDE DEF s, n
  <2> QED
    BY <1>1, <1>3
<1> HIDE DEF s
<1>5. ToSet(s) = {s[k] : k \in 1..n} /\ ToSet(clauses) = {clauses[k] : k \in 1..n}
  BY <1>1, <1>4 DEF ToSet
<1> HIDE DEF n
<1>6. ToSet(s) = {AsVisit(i, name, c) : c \in ToSet(clauses)}
  BY <1>2, <1>5
<1> QED
  BY <1>4, <1>6 DEF s

LEMMA NamesVisited ==
  ASSUME NEW i \in Nat, NEW clauses \in Seq(Clause), NEW names \in Seq(Name)
  PROVE  /\ VisitsOf(i, clauses, names) \in Seq(Visit)
         /\ \A v : v \in ToSet(VisitsOf(i, clauses, names)) <=>
              \E name \in ToSet(names), c \in ToSet(clauses) : v = AsVisit(i, name, c)
<1> DEFINE n == Len(names)
           of(name) == [k \in DOMAIN clauses |->
                          [entry |-> i, name |-> name, clause |-> clauses[k]]]
           lists == [j \in DOMAIN names |-> of(names[j])]
<1>1. n \in Nat /\ DOMAIN names = 1..n /\ \A j \in 1..n : names[j] \in Name
  BY SeqIs
<1>2. ToSet(names) = {names[j] : j \in 1..n}
  BY <1>1 DEF ToSet
<1>3. \A name \in Name :
        of(name) \in Seq(Visit) /\ ToSet(of(name)) = {AsVisit(i, name, c) : c \in ToSet(clauses)}
  BY OneNameVisits
<1>4. VisitsOf(i, clauses, names) = FlattenSeq(lists)
  BY DEF VisitsOf
<1> HIDE DEF of, n
<1>5. lists \in [1..n -> Seq(Visit)] /\ \A j \in 1..n : lists[j] = of(names[j])
  BY <1>1, <1>3
<1> HIDE DEF lists
<1>6. /\ FlattenSeq(lists) \in Seq(Visit)
      /\ ToSet(FlattenSeq(lists)) = UNION {ToSet(lists[j]) : j \in 1..n}
  <2>1. n \in Nat
    BY <1>1
  <2>2. lists \in [1..n -> Seq(Visit)]
    BY <1>5
  <2> QED
    BY <2>1, <2>2, FlattenedPrefix
<1>7. ASSUME NEW v
      PROVE  v \in UNION {ToSet(lists[j]) : j \in 1..n} <=>
               \E name \in ToSet(names), c \in ToSet(clauses) : v = AsVisit(i, name, c)
  <2>1. v \in UNION {ToSet(lists[j]) : j \in 1..n} <=> \E j \in 1..n : v \in ToSet(of(names[j]))
    BY <1>5
  <2>2. \A j \in 1..n : ToSet(of(names[j])) = {AsVisit(i, names[j], c) : c \in ToSet(clauses)}
    BY <1>1, <1>3
  <2> QED
    BY <1>2, <2>1, <2>2
<1> QED
  BY <1>4, <1>6, <1>7

\* forEachClause visits every clause of every entry that is not skipped, for
\* every name of the entry.
LEMMA VisitsAre ==
  ASSUME NEW profile, profile.entries \in Seq(Entry)
  PROVE  /\ Visits(profile) \in Seq(Visit)
         /\ \A v : v \in ToSet(Visits(profile)) <=>
              \E name \in Name : \E i \in Ruling(profile.entries, Default(profile), name) :
                \E c \in ToSet(EntryClauses(profile.entries[i])) : v = AsVisit(i, name, c)
<1> DEFINE entries == profile.entries
           default == Default(profile)
           n == Len(entries)
           of(i) == VisitsOf(i, EntryClauses(entries[i]), NamesIn(entries[i].names))
           lists == [i \in DOMAIN entries |-> IF Skipped(entries[i], default) THEN <<>> ELSE of(i)]
<1>1. n \in Nat /\ DOMAIN entries = 1..n /\ \A i \in 1..n : entries[i] \in Entry
  BY SeqIs
<1>2. Visits(profile) = FlattenSeq(lists)
  BY DEF Visits, VisitsOf, NamesIn
<1>3. ASSUME NEW i \in 1..n
      PROVE  /\ of(i) \in Seq(Visit)
             /\ \A v : v \in ToSet(of(i)) <=>
                  \E name \in entries[i].names, c \in ToSet(EntryClauses(entries[i])) :
                    v = AsVisit(i, name, c)
  <2>1. i \in Nat /\ entries[i] \in Entry /\ entries[i].names \in SUBSET Name
    BY <1>1 DEF Entry
  <2>2. EntryClauses(entries[i]) \in Seq(Clause)
    BY <2>1, EntryLoads
  <2>3. NamesIn(entries[i].names) \in Seq(Name) /\ ToSet(NamesIn(entries[i].names)) = entries[i].names
    BY <2>1, NamesInAre
  <2> QED
    BY <2>1, <2>2, <2>3, NamesVisited
<1>4. \A name \in Name, i \in 1..n :
        i \in Ruling(entries, default, name)
          <=> name \in entries[i].names /\ ~Skipped(entries[i], default)
  BY <1>1 DEF Ruling
<1>5. \A name : Ruling(entries, default, name) \subseteq 1..n
  BY <1>1 DEF Ruling
<1>6. \A i \in 1..n : entries[i].names \in SUBSET Name
  BY <1>1 DEF Entry
<1> HIDE DEF of, n, default, entries
<1>7. \A i \in 1..n : lists[i] = IF Skipped(entries[i], default) THEN <<>> ELSE of(i)
  BY <1>1
<1>8. lists \in [1..n -> Seq(Visit)]
  BY <1>1, <1>3, EmptyList
<1>9. \A i \in 1..n : ToSet(lists[i]) = IF Skipped(entries[i], default) THEN {} ELSE ToSet(of(i))
  <2>1. ToSet(<<>>) = {}
    BY EmptyList
  <2> SUFFICES ASSUME NEW i \in 1..n
               PROVE  ToSet(lists[i]) = IF Skipped(entries[i], default) THEN {} ELSE ToSet(of(i))
    OBVIOUS
  <2>2. CASE Skipped(entries[i], default)
    <3>1. lists[i] = <<>>
      BY <1>7, <2>2
    <3> QED
      BY <2>1, <2>2, <3>1
  <2>3. CASE ~Skipped(entries[i], default)
    BY <1>7, <2>3
  <2> QED
    BY <2>2, <2>3
<1> HIDE DEF lists
<1>10. /\ FlattenSeq(lists) \in Seq(Visit)
       /\ ToSet(FlattenSeq(lists)) = UNION {ToSet(lists[i]) : i \in 1..n}
  BY <1>1, <1>8, FlattenedElements
<1>11. ASSUME NEW v
       PROVE  v \in UNION {ToSet(lists[i]) : i \in 1..n} <=>
                \E name \in Name : \E i \in Ruling(entries, default, name) :
                  \E c \in ToSet(EntryClauses(entries[i])) : v = AsVisit(i, name, c)
  <2>1. v \in UNION {ToSet(lists[i]) : i \in 1..n}
          <=> \E i \in 1..n : ~Skipped(entries[i], default) /\ v \in ToSet(of(i))
    BY <1>9
  <2>2. \A i \in 1..n : v \in ToSet(of(i)) <=>
          \E name \in entries[i].names, c \in ToSet(EntryClauses(entries[i])) : v = AsVisit(i, name, c)
    BY <1>3
  <2> QED
    BY <2>1, <2>2, <1>4, <1>5, <1>6
<1> QED
  BY <1>2, <1>10, <1>11 DEF default, entries

VisitsFor(profile, name) == {v \in ToSet(Visits(profile)) : v.name = name}

\* Together they are the clauses of the syscalls.
LEMMA VisitsCover ==
  ASSUME NEW profile, profile.entries \in Seq(Entry), NEW name \in Name
  PROVE  /\ {v.clause : v \in VisitsFor(profile, name)} = ToSet(Clauses(profile, name))
         /\ Clauses(profile, name) \in Seq(Clause)
         /\ \A v \in VisitsFor(profile, name) :
              /\ v.entry \in Ruling(profile.entries, Default(profile), name)
              /\ v.clause \in ToSet(EntryClauses(profile.entries[v.entry]))
<1> DEFINE entries == profile.entries
           default == Default(profile)
<1>1. /\ Clauses(profile, name) \in Seq(Clause)
      /\ ToSet(Clauses(profile, name)) =
           UNION {ToSet(EntryClauses(entries[i])) : i \in Ruling(entries, default, name)}
  BY LoadedAre DEF Clauses
<1>2. \A v : v \in VisitsFor(profile, name) <=>
        \E i \in Ruling(entries, default, name) :
          \E c \in ToSet(EntryClauses(entries[i])) : v = AsVisit(i, name, c)
  BY VisitsAre DEF VisitsFor, AsVisit
<1>3. \A i, c : AsVisit(i, name, c).entry = i /\ AsVisit(i, name, c).clause = c
  BY DEF AsVisit
<1> HIDE DEF entries, default
<1>4. {v.clause : v \in VisitsFor(profile, name)} =
        UNION {ToSet(EntryClauses(entries[i])) : i \in Ruling(entries, default, name)}
  <2>1. ASSUME NEW c, NEW i \in Ruling(entries, default, name), c \in ToSet(EntryClauses(entries[i]))
        PROVE  c \in {v.clause : v \in VisitsFor(profile, name)}
    BY <1>2, <1>3, <2>1
  <2>2. ASSUME NEW v \in VisitsFor(profile, name)
        PROVE  \E i \in Ruling(entries, default, name) : v.clause \in ToSet(EntryClauses(entries[i]))
    BY <1>2, <1>3
  <2> QED
    BY <2>1, <2>2
<1>5. \A v \in VisitsFor(profile, name) :
        v.entry \in Ruling(entries, default, name) /\ v.clause \in ToSet(EntryClauses(entries[v.entry]))
  BY <1>2, <1>3
<1> QED
  BY <1>1, <1>4, <1>5 DEF entries, default

-----------------------------------------------------------------------------
(* The scan of the rules *)

Written(name) == StateOf(name, NoClause).written
Truncated(name) == StateOf(name, NoClause).truncated

\* The trackers of a syscall that is not skipped represent what was seen of it.
Current(name) ==
  ~Skip(name) =>
    /\ Represents(Written(name), Seen(name))
    /\ LoadsWideValue(artifact) => Represents(Truncated(name), SeenTruncated(name))

TrackersAreCurrent == \A name \in Name : Current(name)

ScanInv ==
  /\ artifact \in Artifacts
  /\ stage \in {"fields", "counts"} => visited = 0 /\ states = <<>> /\ reported = <<>>
  /\ stage \in {"counts", "rules"} => ValidProfile(artifact)
  /\ stage = "rules" => visited \in Nat /\ visited <= Len(Visits(artifact)) /\ TrackersAreCurrent
  /\ ScanIsExact

LEMMA ArtifactIs ==
  ASSUME artifact \in Artifacts, ValidProfile(artifact)
  PROVE  ProfileOK(artifact) /\ Default(artifact) \in Decisive
<1>1. ProfileOK(artifact)
  BY ArtifactAssumption DEF ValidProfile, ProfileOK
<1> QED
  BY <1>1, DecisionIs DEF ProfileOK, Default

LEMMA KnownRules ==
  ASSUME artifact \in Artifacts, ValidProfile(artifact), visited \in Nat,
         visited <= Len(Visits(artifact))
  PROVE /\ Len(Visits(artifact)) \in Nat
        /\ \A i \in 1..Len(Visits(artifact)) :
             LET visit == Visits(artifact)[i]
             IN visit \in Visit /\ visit.clause \in Clause /\ visit \in ToSet(Visits(artifact))
        /\ \A clause \in Clause :
             clause.action \in Action /\ TruncatedClause(clause).action \in Action
        /\ \A name : /\ Seen(name) \in SUBSET Clause
                      /\ Known(Seen(name)) /\ Known(SeenTruncated(name))
<1> DEFINE visits == Visits(artifact)
<1>1. visits \in Seq(Visit)
  BY ArtifactIs, VisitsAre DEF ProfileOK
<1>2. /\ Len(visits) \in Nat
      /\ \A i \in 1..Len(visits) : visits[i] \in Visit /\ visits[i] \in ToSet(visits)
  BY <1>1, SeqIs
<1>3. \A i \in 1..Len(visits) : visits[i].clause \in Clause
  BY <1>2 DEF Visit
<1>4. \A clause \in Clause : clause.action \in Action /\ TruncatedClause(clause).action \in Action
  BY DEF Clause, TruncatedClause
<1>5. \A name : \A rule \in Seen(name) : rule \in Clause
  BY <1>2, <1>3 DEF Seen
<1> QED
  BY <1>2, <1>3, <1>4, <1>5 DEF Known, SeenTruncated

\* Nothing but the checks of the rules bears on the scan.
LEMMA UnchangedScan ==
  ASSUME ScanInv, UNCHANGED checkVars
  PROVE ScanInv'
<1>1. UNCHANGED <<artifact, stage, visited, states, reported>>
  BY DEF checkVars
<1>2. TrackersAreCurrent' <=> TrackersAreCurrent
  BY <1>1 DEF TrackersAreCurrent, Current, Written, Truncated, SeenTruncated, Seen,
              StateOf, Skip, OverBound
<1>3. ScanIsExact' <=> ScanIsExact
  BY <1>1 DEF ScanIsExact, ReportedExactly, SeenTruncated, Seen, OverBound
<1> QED BY <1>1, <1>2, <1>3 DEF ScanInv

LEMMA NothingSeen ==
  ASSUME visited = 0, states = <<>>, reported = <<>>
  PROVE \A name : /\ Seen(name) = {} /\ SeenTruncated(name) = {}
                  /\ Written(name) = NewTracker /\ Truncated(name) = NewTracker
                  /\ name \notin DOMAIN reported
                  /\ ~Clashing(Seen(name)) /\ ~Clashing(SeenTruncated(name))
BY DEF Seen, SeenTruncated, Written, Truncated, StateOf, NewState, Clashing

LEMMA CountsKeepScan ==
  ASSUME ScanInv, CheckCounts
  PROVE ScanInv'
<1>1. visited = 0 /\ states = <<>> /\ reported = <<>>
  BY DEF ScanInv, CheckCounts
<1>2. UNCHANGED <<artifact, visited, states, reported>>
  BY DEF CheckCounts
<1>3. visited <= Len(Visits(artifact))
  <2>1. Visits(artifact) \in Seq(Visit)
    BY ArtifactIs, VisitsAre DEF ScanInv, CheckCounts, ProfileOK
  <2> QED
    BY <1>1, <2>1, SeqIs
<1>4. TrackersAreCurrent
  BY <1>1, NothingSeen, NewTrackerIsEmpty DEF TrackersAreCurrent, Current
<1>5. TrackersAreCurrent'
  BY <1>2, <1>4 DEF TrackersAreCurrent, Current, Written, Truncated, SeenTruncated, Seen,
                    StateOf, Skip, OverBound
<1>6. \A name \in Name : name \notin DOMAIN reported'
                          /\ ~Clashing(Seen(name)') /\ ~Clashing(SeenTruncated(name)')
  BY <1>1, <1>2, NothingSeen DEF Seen, SeenTruncated
<1>7. ScanIsExact'
  BY <1>6 DEF ScanIsExact, ReportedExactly
<1> QED BY <1>1, <1>2, <1>3, <1>5, <1>7 DEF ScanInv, CheckCounts

LEMMA StateParts ==
  ASSUME NEW name, NEW first
  PROVE /\ StateOf(name, first).written = Written(name)
        /\ StateOf(name, first).truncated = Truncated(name)
BY DEF Written, Truncated, StateOf, NewState

\* One more rule of one syscall was seen.
LEMMA VisitSeesRule ==
  ASSUME visited \in Nat, visited' = visited + 1, artifact' = artifact, NEW name
  PROVE LET visit == Visits(artifact)[visited + 1] IN
        /\ visit.name = name =>
             /\ Seen(name)' = Seen(name) \cup {visit.clause}
             /\ SeenTruncated(name)' = SeenTruncated(name) \cup {TruncatedClause(visit.clause)}
        /\ visit.name # name =>
             Seen(name)' = Seen(name) /\ SeenTruncated(name)' = SeenTruncated(name)
<1> DEFINE visits == Visits(artifact)
           grown == {visits[i].clause : i \in {k \in 1..(visited + 1) : visits[k].name = name}}
<1>1. Seen(name)' = grown
  BY DEF Seen
<1>2. SeenTruncated(name)' = {TruncatedClause(clause) : clause \in grown}
  BY <1>1 DEF SeenTruncated
<1>3. 1..(visited + 1) = (1..visited) \cup {visited + 1}
  OBVIOUS
<1>4. Seen(name) = {visits[i].clause : i \in {k \in 1..visited : visits[k].name = name}}
  BY DEF Seen
<1> HIDE DEF visits
<1>5. visits[visited + 1].name = name => grown = Seen(name) \cup {visits[visited + 1].clause}
  BY <1>3, <1>4
<1>6. visits[visited + 1].name # name => grown = Seen(name)
  BY <1>3, <1>4
<1> HIDE DEF grown
<1> QED BY <1>1, <1>2, <1>5, <1>6 DEF SeenTruncated, visits

LEMMA VisitKeepsName ==
  ASSUME ScanInv, VisitRule, NEW name \in Name
  PROVE Current(name)' /\ ReportedExactly(name)'
<1> DEFINE visit == Visits(artifact)[visited + 1]
           next == visit.clause
           narrowed == TruncatedClause(next)
<1>1. /\ stage = "rules" /\ visited \in Nat /\ visited + 1 \in 1..Len(Visits(artifact))
      /\ visited' = visited + 1 /\ artifact' = artifact
      /\ RecordRule(visit)
      /\ artifact \in Artifacts /\ ValidProfile(artifact) /\ visited <= Len(Visits(artifact))
  <2>1. /\ stage = "rules" /\ artifact \in Artifacts /\ ValidProfile(artifact)
        /\ visited \in Nat /\ visited <= Len(Visits(artifact)) /\ visited < Len(Visits(artifact))
        /\ visited' = visited + 1 /\ artifact' = artifact
        /\ RecordRule(visit)
    BY DEF ScanInv, VisitRule
  <2>2. Len(Visits(artifact)) \in Nat
    BY <2>1, KnownRules
  <2> QED
    BY <2>1, <2>2
<1>2. /\ next.action \in Action /\ narrowed.action \in Action
      /\ Known(Seen(name)) /\ Known(SeenTruncated(name))
  BY <1>1, KnownRules
<1>3. Current(name) /\ ReportedExactly(name)
  BY <1>1 DEF ScanInv, ScanIsExact, TrackersAreCurrent
<1>4. /\ visit.name = name =>
           /\ Seen(name)' = Seen(name) \cup {next}
           /\ SeenTruncated(name)' = SeenTruncated(name) \cup {narrowed}
      /\ visit.name # name => Seen(name)' = Seen(name) /\ SeenTruncated(name)' = SeenTruncated(name)
  BY <1>1, VisitSeesRule
<1>5. OverBound(name)' = OverBound(name) /\ LoadsWideValue(artifact)' = LoadsWideValue(artifact)
  BY <1>1 DEF OverBound
<1> HIDE DEF visit
<1>6. CASE visit.name # name
  <2>1. /\ name \in DOMAIN reported' <=> name \in DOMAIN reported
        /\ name \in DOMAIN states' <=> name \in DOMAIN states
        /\ name \in DOMAIN states => states'[name] = states[name]
    BY <1>1, <1>6 DEF RecordRule, Report
  <2>2. Written(name)' = Written(name) /\ Truncated(name)' = Truncated(name)
    BY <2>1 DEF Written, Truncated, StateOf
  <2> QED BY <1>3, <1>4, <1>5, <1>6, <2>1, <2>2 DEF Current, ReportedExactly, Skip
<1>7. CASE visit.name = name /\ Skip(name)
  <2>1. reported' = reported
    BY <1>1, <1>7 DEF RecordRule
  <2>2. /\ Clashing(Seen(name)) => Clashing(Seen(name)')
        /\ Clashing(SeenTruncated(name)) => Clashing(SeenTruncated(name)')
    BY <1>4, <1>7 DEF Clashing
  <2> QED BY <1>3, <1>5, <1>7, <2>1, <2>2 DEF Current, ReportedExactly, Skip
<1>8. CASE visit.name = name /\ ~Skip(name)
  <2> DEFINE state == StateOf(name, next)
  <2>1. /\ states'[name] = Recorded(state, next, visit.entry) /\ name \in DOMAIN states'
        /\ name \in DOMAIN reported' <=> ConflictsNow(state, next)
    BY <1>1, <1>8 DEF RecordRule, Report, Skip
  <2>2. state.written = Written(name) /\ state.truncated = Truncated(name)
    BY StateParts
  <2>3. /\ Written(name)' = TrackerRecord(Written(name), next)
        /\ LoadsWideValue(artifact) => Truncated(name)' = TrackerRecord(Truncated(name), narrowed)
    BY <2>1, <2>2 DEF Written, Truncated, StateOf, Recorded
  <2>4. /\ Represents(Written(name), Seen(name)) /\ ~Clashing(Seen(name))
        /\ LoadsWideValue(artifact) =>
             Represents(Truncated(name), SeenTruncated(name)) /\ ~Clashing(SeenTruncated(name))
    <3>1. name \notin DOMAIN reported /\ ~OverBound(name)
      BY <1>8 DEF Skip
    <3>2. ~Clashing(Seen(name)) /\ ~(LoadsWideValue(artifact) /\ Clashing(SeenTruncated(name)))
      BY <1>3, <3>1 DEF ReportedExactly
    <3>3. /\ Represents(Written(name), Seen(name))
          /\ LoadsWideValue(artifact) => Represents(Truncated(name), SeenTruncated(name))
      BY <1>3, <1>8 DEF Current
    <3> QED BY <3>2, <3>3
  <2>5. /\ TrackerConflicts(Written(name), next) <=> Clashing(Seen(name)')
        /\ Represents(Written(name)', Seen(name)')
    BY <1>2, <1>4, <1>8, <2>3, <2>4, TrackerStep
  <2>6. LoadsWideValue(artifact) =>
          /\ TrackerConflicts(Truncated(name), narrowed) <=> Clashing(SeenTruncated(name)')
          /\ Represents(Truncated(name)', SeenTruncated(name)')
    BY <1>2, <1>4, <1>8, <2>3, <2>4, TrackerStep
  <2>7. ConflictsNow(state, next)
          <=> \/ Clashing(Seen(name)')
              \/ LoadsWideValue(artifact) /\ Clashing(SeenTruncated(name)')
    BY <2>2, <2>5, <2>6 DEF ConflictsNow
  <2>8. ~OverBound(name)
    BY <1>8 DEF Skip
  <2>9. ReportedExactly(name)'
    <3>1. name \in DOMAIN reported'
            <=> \/ Clashing(Seen(name)')
                \/ LoadsWideValue(artifact) /\ Clashing(SeenTruncated(name)')
      BY <2>1, <2>7
    <3> QED BY <1>5, <2>8, <3>1 DEF ReportedExactly
  <2>10. Current(name)'
    BY <1>5, <2>5, <2>6 DEF Current
  <2> QED BY <2>9, <2>10
<1> QED BY <1>6, <1>7, <1>8

LEMMA VisitKeepsScan ==
  ASSUME ScanInv, VisitRule
  PROVE ScanInv'
<1>1. /\ stage = "rules" /\ visited \in Nat /\ visited < Len(Visits(artifact))
      /\ Len(Visits(artifact)) \in Nat
      /\ visited' = visited + 1 /\ artifact' = artifact /\ stage' = stage
  <2>1. /\ stage = "rules" /\ artifact \in Artifacts /\ ValidProfile(artifact)
        /\ visited \in Nat /\ visited <= Len(Visits(artifact)) /\ visited < Len(Visits(artifact))
        /\ visited' = visited + 1 /\ artifact' = artifact /\ stage' = stage
    BY DEF ScanInv, VisitRule
  <2> QED
    BY <2>1, KnownRules
<1>2. \A name \in Name : Current(name)' /\ ReportedExactly(name)'
  BY VisitKeepsName
<1>3. TrackersAreCurrent' /\ ScanIsExact'
  BY <1>2 DEF TrackersAreCurrent, ScanIsExact
<1> QED BY <1>1, <1>3 DEF ScanInv

\* Before the rules and after them, ScanIsExact says nothing.
LEMMA OtherChecksKeepScan ==
  ASSUME ScanInv, CheckFields \/ CheckShapes \/ CheckMultiplexed
  PROVE ScanInv'
<1>1. CASE CheckFields
  BY <1>1 DEF CheckFields, ScanInv, ScanIsExact
<1>2. CASE CheckShapes
  BY <1>2 DEF CheckShapes, ScanInv, ScanIsExact
<1>3. CASE CheckMultiplexed
  BY <1>3 DEF CheckMultiplexed, ScanInv, ScanIsExact
<1> QED BY <1>1, <1>2, <1>3

LEMMA StepKeepsScan ==
  ASSUME ScanInv, [ArtifactNext]_<<vars, checkVars>>
  PROVE ScanInv'
<1>1. CASE Validate
  BY <1>1, OtherChecksKeepScan, CountsKeepScan, VisitKeepsScan DEF Validate
<1>2. CASE MergeArtifact
  BY <1>2, UnchangedScan DEF MergeArtifact
<1>3. CASE Settled
  BY <1>3, UnchangedScan DEF Settled
<1>4. CASE UNCHANGED <<vars, checkVars>>
  BY <1>4, UnchangedScan
<1> QED BY <1>1, <1>2, <1>3, <1>4 DEF ArtifactNext

\* validateSyscallRules: at every point of the scan, the syscalls reported are
\* those of which two rules seen so far, as written or as a 32-bit architecture
\* gets them, differ while the filter of one covers that of the other.
THEOREM ScanReportsEveryClash ==
  ArtifactSpec => []ScanIsExact
<1>1. ArtifactInit => ScanInv
  BY DEF ArtifactInit, ScanInv, ScanIsExact
<1>2. ScanInv /\ [ArtifactNext]_<<vars, checkVars>> => ScanInv'
  BY StepKeepsScan
<1>3. ScanInv => ScanIsExact
  BY DEF ScanInv
<1> QED BY <1>1, <1>2, <1>3, PTL DEF ArtifactSpec

-----------------------------------------------------------------------------
(* Clashes and shapes *)

\* A condition as a 32-bit architecture gets it.
Halved(arg) == [arg EXCEPT !.value = And[arg.value, MaxLow], !.two = And[arg.two, MaxLow]]

LEMMA HalvedIs ==
  ASSUME NEW arg \in Arg
  PROVE  /\ Halved(arg).op = arg.op /\ Halved(arg).index = arg.index
         /\ Halved(arg).value = And[arg.value, MaxLow]
  BY DEF Halved, Arg

LEMMA TruncatedIs ==
  ASSUME NEW c \in Clause
  PROVE  /\ TruncatedClause(c).args = {arg \in {Halved(a) : a \in c.args} : ~Tautology(arg)}
         /\ TruncatedClause(c).action = c.action /\ TruncatedClause(c).errno = c.errno
  BY DEF TruncatedClause, Halved, Clause

LEMMA TruncatedResult ==
  ASSUME NEW c \in Clause, NEW d \in Clause
  PROVE  SameResult(TruncatedClause(c), TruncatedClause(d)) <=> SameResult(c, d)
  BY TruncatedIs DEF SameResult, Equivalent

LEMMA TruncatedSingle ==
  ASSUME NEW c \in Clause, NEW a \in Arg, c.args = {a}, a.op # "MASKED_EQ"
  PROVE  TruncatedClause(c).args = {Halved(a)}
<1>1. ~Tautology(Halved(a))
  BY HalvedIs DEF Tautology
<1>2. TruncatedClause(c).args = {arg \in {Halved(b) : b \in c.args} : ~Tautology(arg)}
  BY TruncatedIs
<1> QED
  BY <1>1, <1>2

LEMMA ComplementDiffers ==
  ASSUME NEW a \in Arg, NEW b \in Arg, HasComplement(a), ComplementArg(a) = b
  PROVE  a.op # "MASKED_EQ" /\ b.op # "MASKED_EQ" /\ a.op # b.op
<1>1. a.op \in Op \ {"MASKED_EQ"}
  BY ArgFields DEF HasComplement
<1>2. b.op = ComplementOp[a.op]
  BY DEF ComplementArg
<1> QED
  BY <1>1, <1>2 DEF Op, ComplementOp

\* Two clauses with different results in a shape that libseccomp compiles as
\* written: an equality each, or two opposite conditions.
LEMMA ShapesTellApart ==
  ASSUME NEW C \in SUBSET Clause, SafeShape(C), NEW c \in C, NEW d \in C, ~SameResult(c, d)
  PROVE  \E a, b \in Arg : /\ c.args = {a} /\ d.args = {b}
                           /\ a.op # "MASKED_EQ" /\ b.op # "MASKED_EQ"
                           /\ a # b /\ Halved(a) # Halved(b)
<1> DEFINE a == OnlyArg(c)
           b == OnlyArg(d)
<1>1. c # d
  BY SameResults
<1>2. /\ \A e \in C : Single(e.args)
      /\ DistinctEqualities(C) \/ ComplementPair(C) \/ UniformResult(C)
  BY <1>1 DEF SafeShape
<1>3. a \in Arg /\ b \in Arg /\ c.args = {a} /\ d.args = {b}
  BY <1>2, OnlyIs
<1>4. CASE DistinctEqualities(C)
  <2>1. a.op = "EQ" /\ b.op = "EQ" /\ And[a.value, MaxLow] # And[b.value, MaxLow]
    BY <1>1, <1>4 DEF DistinctEqualities
  <2> HIDE DEF a, b
  <2>2. Halved(a) # Halved(b)
    BY <1>3, <2>1, HalvedIs
  <2>3. a # b
    BY <2>2
  <2> QED
    BY <1>3, <2>1, <2>2, <2>3
<1>5. CASE ComplementPair(C)
  <2>1. PICK x, y \in C : C = {x, y} /\ HasComplement(OnlyArg(x)) /\ ComplementArg(OnlyArg(x)) = OnlyArg(y)
    BY <1>5 DEF ComplementPair
  <2>2. (c = x /\ d = y) \/ (c = y /\ d = x)
    BY <1>1, <2>1
  <2>3. a.op # "MASKED_EQ" /\ b.op # "MASKED_EQ" /\ a.op # b.op
    <3>1. CASE c = x /\ d = y
      BY <1>3, <2>1, <3>1, ComplementDiffers
    <3>2. CASE c = y /\ d = x
      BY <1>3, <2>1, <3>2, ComplementDiffers
    <3> QED
      BY <2>2, <3>1, <3>2
  <2> HIDE DEF a, b
  <2>4. Halved(a) # Halved(b)
    BY <1>3, <2>3, HalvedIs
  <2> QED
    BY <1>3, <2>3, <2>4
<1>6. CASE UniformResult(C)
  BY <1>6 DEF UniformResult
<1> QED
  BY <1>2, <1>4, <1>5, <1>6

Differing(C) == \E c, d \in C : ~SameResult(c, d)

\* Unreliable, of the set of a syscall's clauses.
Doubtful(C) == Differing(C) /\ ((\E c \in C : Unconditional(c)) \/ ~SafeShape(C))

LEMMA UnreliableIs ==
  ASSUME NEW s \in Seq(Clause)
  PROVE  Unreliable(s) <=> Doubtful(ToSet(s))
<1>1. /\ \A i \in DOMAIN s : s[i] \in ToSet(s)
      /\ \A c \in ToSet(s) : \E i \in DOMAIN s : s[i] = c
  BY SeqIs
<1>2. (\E i, j \in DOMAIN s : ~SameResult(s[i], s[j])) <=> Differing(ToSet(s))
  BY <1>1 DEF Differing
<1>3. FirstUnconditional(s) # NoClause <=> \E c \in ToSet(s) : Unconditional(c)
  <2>1. CASE FirstUnconditional(s) = NoClause
    <3>1. \A c \in ToSet(s) : c \in Conditional
      BY <2>1, FirstIs, DecisiveIs
    <3> QED
      BY <2>1, <3>1 DEF Conditional, Unconditional
  <2>2. CASE FirstUnconditional(s) # NoClause
    BY <2>2, FirstIs DEF Decisive, Unconditional
  <2> QED
    BY <2>1, <2>2
<1> QED
  BY <1>2, <1>3 DEF Unreliable, Doubtful

LEMMA ClashIsDoubtful ==
  ASSUME NEW C \in SUBSET Clause, NEW c \in C, NEW d \in C, ~SameResult(c, d),
         Nested(c, d) \/ Nested(TruncatedClause(c), TruncatedClause(d))
  PROVE  Doubtful(C)
<1>1. Differing(C)
  BY DEF Differing
<1>2. ~SafeShape(C)
  <2> SUFFICES ASSUME SafeShape(C)
               PROVE  FALSE
    OBVIOUS
  <2>1. PICK a, b \in Arg : /\ c.args = {a} /\ d.args = {b}
                            /\ a.op # "MASKED_EQ" /\ b.op # "MASKED_EQ"
                            /\ a # b /\ Halved(a) # Halved(b)
    BY ShapesTellApart
  <2>2. TruncatedClause(c).args = {Halved(a)} /\ TruncatedClause(d).args = {Halved(b)}
    BY <2>1, TruncatedSingle
  <2> QED
    BY <2>1, <2>2 DEF Nested
<1> QED
  BY <1>1, <1>2 DEF Doubtful

\* What the scan reports cannot be relied on.
LEMMA ClashingIsDoubtful ==
  ASSUME NEW C \in SUBSET Clause, NEW S \in SUBSET C,
         Clashing(S) \/ Clashing({TruncatedClause(c) : c \in S})
  PROVE  Doubtful(C)
<1>1. CASE Clashing(S)
  BY <1>1, ClashIsDoubtful DEF Clashing
<1>2. CASE Clashing({TruncatedClause(c) : c \in S})
  <2>1. PICK c \in S, d \in S : /\ Nested(TruncatedClause(c), TruncatedClause(d))
                                /\ ~SameResult(TruncatedClause(c), TruncatedClause(d))
    BY <1>2 DEF Clashing
  <2>2. ~SameResult(c, d)
    BY <2>1, TruncatedResult
  <2> QED
    BY <2>1, <2>2, ClashIsDoubtful
<1> QED
  BY <1>1, <1>2

\* An unconditional clause clashes with every other result.
LEMMA DoubtfulIsSeen ==
  ASSUME NEW C \in SUBSET Clause, Doubtful(C), ~Clashing(C)
  PROVE  (\A c \in C : ~Unconditional(c)) /\ ~SafeShape(C)
<1>1. \A c \in C : ~Unconditional(c)
  <2> SUFFICES ASSUME NEW u \in C, Unconditional(u)
               PROVE  FALSE
    OBVIOUS
  <2>1. \A c \in C : Nested(u, c)
    BY DEF Nested, Unconditional
  <2>2. \A c \in C : SameResult(u, c)
    BY <2>1 DEF Clashing
  <2>3. \A c, d \in C : SameResult(c, d)
    <3> SUFFICES ASSUME NEW c \in C, NEW d \in C
                 PROVE  SameResult(c, d)
      OBVIOUS
    <3>1. SameResult(c, u) /\ SameResult(u, d)
      BY <2>2, SameResults
    <3> QED
      BY <3>1, SameResultTwice
  <2> QED
    BY <2>3 DEF Doubtful, Differing
<1> QED
  BY <1>1 DEF Doubtful

-----------------------------------------------------------------------------
(* What the scan knows of a syscall *)

ResultAt(profile, i) == Decision(profile.entries[i].action, profile.entries[i].errno)

Loading(profile, name) == Ruling(profile.entries, Default(profile), name)

\* What is recorded of some rules beside the trackers.
Fits(state, rules, profile, name) ==
  /\ state.first \in rules
  /\ state.conditional \in Seq(Clause)
  /\ ToSet(state.conditional) = {c \in rules : ~Unconditional(c)}
  /\ state.mixedAt = 0 <=> \A c \in rules : SameResult(state.first, c)
  /\ state.mixedAt # 0 => /\ state.mixedAt \in Loading(profile, name)
                          /\ ~SameResult(state.first, ResultAt(profile, state.mixedAt))

LEMMA BearsAlike ==
  ASSUME NEW c, NEW base, Bears(c, base), NEW x
  PROVE  /\ SameResult(x, c) <=> SameResult(x, base)
         /\ SameResult(c, x) <=> SameResult(base, x)
  BY DEF Bears, SameResult, Equivalent

LEMMA LoadingIs ==
  ASSUME NEW profile, ProfileOK(profile), NEW name, NEW i \in Loading(profile, name)
  PROVE  /\ i \in Nat /\ i # 0 /\ i \in DOMAIN profile.entries /\ profile.entries[i] \in Entry
         /\ ResultAt(profile, i) \in Clause
         /\ \A c \in ToSet(EntryClauses(profile.entries[i])) : Bears(c, ResultAt(profile, i))
<1>1. i \in DOMAIN profile.entries
  BY DEF Loading, Ruling
<1>2. profile.entries \in Seq(Entry)
  BY DEF ProfileOK
<1>3. i \in Nat /\ i # 0 /\ profile.entries[i] \in Entry
  <2>1. Len(profile.entries) \in Nat /\ DOMAIN profile.entries = 1..Len(profile.entries)
    BY <1>2, SeqIs
  <2> QED
    BY <1>1, <1>2, <2>1, SeqIs
<1>4. profile.entries[i].action \in Action /\ profile.entries[i].errno \in Int
  BY <1>3 DEF Entry
<1>5. ResultAt(profile, i) \in Clause
  BY <1>4, DecisionIs, DecisiveIs DEF ResultAt
<1>6. \A c \in ToSet(EntryClauses(profile.entries[i])) : Bears(c, ResultAt(profile, i))
  BY <1>3, EntryLoads DEF ResultAt
<1> QED
  BY <1>1, <1>3, <1>5, <1>6

LEMMA RecordFits ==
  ASSUME NEW rules \in SUBSET Clause, NEW next \in Clause, NEW profile, ProfileOK(profile),
         NEW name, NEW entry \in Loading(profile, name), Bears(next, ResultAt(profile, entry)),
         NEW state,
         \/ rules = {} /\ state.first = next /\ state.conditional = <<>> /\ state.mixedAt = 0
         \/ Fits(state, rules, profile, name)
  PROVE  Fits(Recorded(state, next, entry), rules \cup {next}, profile, name)
<1> DEFINE after == Recorded(state, next, entry)
           all == rules \cup {next}
<1>1. /\ after.first = state.first
      /\ after.conditional = IF Unconditional(next) THEN state.conditional
                             ELSE Append(state.conditional, next)
      /\ after.mixedAt = IF state.mixedAt = 0 /\ ~SameResult(state.first, next) THEN entry
                         ELSE state.mixedAt
  BY DEF Recorded
<1>2. /\ state.first \in all
      /\ state.conditional \in Seq(Clause)
      /\ ToSet(state.conditional) = {c \in rules : ~Unconditional(c)}
      /\ state.mixedAt = 0 <=> \A c \in rules : SameResult(state.first, c)
      /\ state.mixedAt # 0 => /\ state.mixedAt \in Loading(profile, name)
                              /\ ~SameResult(state.first, ResultAt(profile, state.mixedAt))
  <2>1. CASE rules = {} /\ state.first = next /\ state.conditional = <<>> /\ state.mixedAt = 0
    BY <2>1, EmptyList
  <2>2. CASE Fits(state, rules, profile, name)
    BY <2>2 DEF Fits
  <2> QED
    BY <2>1, <2>2
<1> HIDE DEF after
<1>3. /\ after.conditional \in Seq(Clause)
      /\ ToSet(after.conditional) = {c \in all : ~Unconditional(c)}
  <2>1. CASE Unconditional(next)
    BY <1>1, <1>2, <2>1
  <2>2. CASE ~Unconditional(next)
    <3>1. after.conditional = state.conditional \o <<next>>
      BY <1>1, <1>2, <2>2
    <3>2. <<next>> \in Seq(Clause) /\ ToSet(<<next>>) = {next}
      BY OneElement
    <3>3. /\ after.conditional \in Seq(Clause)
          /\ ToSet(after.conditional) = ToSet(state.conditional) \cup {next}
      <4> DEFINE s == state.conditional
                 t == <<next>>
      <4>1. s \in Seq(Clause) /\ t \in Seq(Clause) /\ ToSet(t) = {next}
        BY <1>2, <3>2
      <4> HIDE DEF s, t
      <4>2. s \o t \in Seq(Clause) /\ ToSet(s \o t) = ToSet(s) \cup ToSet(t)
        BY <4>1, ConcatElements
      <4> QED
        BY <3>1, <4>1, <4>2 DEF s, t
    <3> QED
      BY <1>2, <2>2, <3>3
  <2> QED
    BY <2>1, <2>2
<1>4. entry # 0
  BY LoadingIs
<1>5. after.mixedAt = 0 <=> \A c \in all : SameResult(state.first, c)
  BY <1>1, <1>2, <1>4
<1>6. SameResult(state.first, next) <=> SameResult(state.first, ResultAt(profile, entry))
  BY BearsAlike
<1>7. after.mixedAt # 0 => /\ after.mixedAt \in Loading(profile, name)
                           /\ ~SameResult(state.first, ResultAt(profile, after.mixedAt))
  <2>1. CASE state.mixedAt = 0 /\ ~SameResult(state.first, next)
    BY <1>1, <1>6, <2>1
  <2>2. CASE ~(state.mixedAt = 0 /\ ~SameResult(state.first, next))
    BY <1>1, <1>2, <2>2
  <2> QED
    BY <2>1, <2>2
<1> QED
  BY <1>1, <1>2, <1>3, <1>5, <1>7 DEF Fits, after

\* Where a rule that was seen comes from.
LEMMA SeenIs ==
  ASSUME artifact \in Artifacts, ValidProfile(artifact), visited \in Nat,
         visited <= Len(Visits(artifact)), NEW name \in Name
  PROVE  /\ Seen(name) \in SUBSET ToSet(Clauses(artifact, name))
         /\ \A c \in Seen(name) :
              \E j \in Loading(artifact, name) : Bears(c, ResultAt(artifact, j))
         /\ visited = Len(Visits(artifact)) => Seen(name) = ToSet(Clauses(artifact, name))
<1> DEFINE visits == Visits(artifact)
           n == Len(visits)
<1>1. ProfileOK(artifact) /\ artifact.entries \in Seq(Entry)
  BY ArtifactIs DEF ProfileOK
<1>2. /\ {v.clause : v \in VisitsFor(artifact, name)} = ToSet(Clauses(artifact, name))
      /\ \A v \in VisitsFor(artifact, name) :
           /\ v.entry \in Loading(artifact, name)
           /\ v.clause \in ToSet(EntryClauses(artifact.entries[v.entry]))
  BY <1>1, VisitsCover DEF Loading
<1>3. n \in Nat /\ DOMAIN visits = 1..n /\ ToSet(visits) = {visits[i] : i \in 1..n}
  <2>1. visits \in Seq(Visit)
    BY <1>1, VisitsAre
  <2>2. n \in Nat /\ DOMAIN visits = 1..n
    BY <2>1, SeqIs
  <2> QED
    BY <2>2 DEF ToSet
<1>4. Seen(name) = {visits[i].clause : i \in {k \in 1..visited : visits[k].name = name}}
  BY DEF Seen
<1>5. VisitsFor(artifact, name) = {v \in ToSet(visits) : v.name = name}
  BY DEF VisitsFor
<1> HIDE DEF visits, n
<1>6. ASSUME NEW c \in Seen(name)
      PROVE  \E v \in VisitsFor(artifact, name) : v.clause = c
  <2>1. PICK i \in 1..visited : visits[i].name = name /\ c = visits[i].clause
    BY <1>4
  <2>2. i \in 1..n
    BY <1>3 DEF n, visits
  <2> QED
    BY <1>3, <1>5, <2>1, <2>2
<1>7. \A c \in Seen(name) :
        \E j \in Loading(artifact, name) : Bears(c, ResultAt(artifact, j))
  BY <1>1, <1>2, <1>6, LoadingIs
<1>8. visited = n => \A v \in VisitsFor(artifact, name) : v.clause \in Seen(name)
  BY <1>3, <1>4, <1>5
<1> QED
  BY <1>2, <1>6, <1>7, <1>8 DEF n, visits

-----------------------------------------------------------------------------
(* The checks of an artifact, one after the other *)

StateOK(name) ==
  ~Skip(name) =>
    /\ name \in DOMAIN states <=> Seen(name) # {}
    /\ name \in DOMAIN states => Fits(states[name], Seen(name), artifact, name)

StatesOK ==
  stage = "rules" => /\ \A name \in DOMAIN states : name \in Name /\ ~OverBound(name)
                     /\ \A name \in Name : StateOK(name)

\* An entry of a syscall that another of its entries contradicts.
Contradicted(name, i) ==
  /\ i \in Loading(artifact, name)
  /\ \E j \in Loading(artifact, name) : ~SameResult(ResultAt(artifact, j), ResultAt(artifact, i))

ReportedOK ==
  \A name \in DOMAIN reported :
    /\ name \in Name /\ reported[name] \in Loading(artifact, name)
    /\ stage \in {"rules", "multiplexers"} => Contradicted(name, reported[name])
    /\ stage = "multiplexers" => Unreliable(Clauses(artifact, name))

\* Nothing kept the rules from being visited.
Sound == "fewClauses" \notin problems /\ "valid" \notin problems

ProblemsOK ==
  /\ stage # "fields" => /\ "valid" \notin problems => ValidProfile(artifact)
                         /\ artifact # Nil => Unmet(artifact) \subseteq problems
  /\ stage \in {"counts", "rules", "multiplexers"} => ValidProfile(artifact)
  /\ stage \notin {"fields", "counts"} /\ Sound =>
       \A name \in Name : OverBound(name) => "fewRules" \in problems

AllFound ==
  stage \in {"multiplexers", "verdict"} /\ Sound =>
    \A name \in Name :
      ~OverBound(name) /\ Unreliable(Clauses(artifact, name)) => name \in DOMAIN reported

AllTaken ==
  stage = "verdict" /\ Sound /\ CoversAny(artifact.architectures, MultiplexingArchitectures) =>
    \A name \in MultiplexName : RefusedThere(name) => Skip(name)

ArtifactInv ==
  ScanInv /\ StatesOK /\ ReportedOK /\ ProblemsOK /\ AllFound /\ AllTaken

LEMMA SkipAlike ==
  ASSUME UNCHANGED <<artifact, reported>>, NEW name
  PROVE  /\ Skip(name)' <=> Skip(name)
         /\ OverBound(name)' <=> OverBound(name)
         /\ RefusedThere(name)' <=> RefusedThere(name)
  BY DEF Skip, OverBound, RefusedThere

LEMMA UnmetAlike ==
  ASSUME UNCHANGED <<artifact, native>>
  PROVE  /\ Unmet(artifact)' = Unmet(artifact)
         /\ \A set : CoversAny(artifact.architectures, set)' <=> CoversAny(artifact.architectures, set)
<1>1. \A set : CoversAny(artifact.architectures, set)' <=> CoversAny(artifact.architectures, set)
  BY DEF CoversAny
<1>2. ReadAlike(artifact)' = ReadAlike(artifact)
  BY DEF ReadAlike, CoversAny
<1>3. Demands(artifact)' = Demands(artifact)
  BY DEF Demands, ReadAlike, CoversAny
<1> QED
  BY <1>1, <1>3 DEF Unmet

LEMMA OthersKeepArtifact ==
  ASSUME ArtifactInv, UNCHANGED <<checkVars, native>>
  PROVE  ArtifactInv'
<1>1. UNCHANGED <<artifact, stage, visited, states, reported, problems, native>>
  BY DEF checkVars
<1>2. ScanInv'
  BY UnchangedScan DEF ArtifactInv
<1>3. StatesOK'
  <2>1. \A name : StateOK(name)' <=> StateOK(name)
    <3> SUFFICES ASSUME NEW name
                 PROVE  StateOK(name)' <=> StateOK(name)
      OBVIOUS
    <3>1. Seen(name)' = Seen(name)
      BY <1>1 DEF Seen
    <3> QED
      BY <1>1, <3>1, SkipAlike DEF StateOK
  <2> QED
    BY <1>1, <2>1, SkipAlike DEF ArtifactInv, StatesOK
<1>4. ReportedOK'
  BY <1>1 DEF ArtifactInv, ReportedOK, Contradicted
<1>5. ProblemsOK'
  BY <1>1, UnmetAlike, SkipAlike DEF ArtifactInv, ProblemsOK, Sound
<1>6. AllFound'
  BY <1>1, SkipAlike DEF ArtifactInv, AllFound, Sound
<1>7. AllTaken'
  BY <1>1, UnmetAlike, SkipAlike DEF ArtifactInv, AllTaken, Sound
<1> QED
  BY <1>2, <1>3, <1>4, <1>5, <1>6, <1>7 DEF ArtifactInv

LEMMA FieldsKeepArtifact ==
  ASSUME ArtifactInv, CheckFields, native' = native
  PROVE  ArtifactInv'
<1>1. /\ stage = "fields" /\ reported = <<>> /\ UNCHANGED <<artifact, native, visited, states, reported>>
      /\ stage' = IF ValidProfile(artifact) THEN "counts" ELSE "verdict"
  BY DEF ArtifactInv, ScanInv, CheckFields
<1>2. /\ ~ValidProfile(artifact) => "valid" \in problems'
      /\ artifact # Nil => Unmet(artifact) \subseteq problems'
  BY DEF CheckFields
<1>3. ScanInv'
  BY OtherChecksKeepScan DEF ArtifactInv
<1>4. StatesOK' /\ ReportedOK'
  BY <1>1 DEF StatesOK, ReportedOK
<1>5. stage' = "verdict" => ~Sound'
  BY <1>1, <1>2 DEF Sound
<1>6. AllFound' /\ AllTaken'
  BY <1>1, <1>5 DEF AllFound, AllTaken
<1>7. ProblemsOK'
  BY <1>1, <1>2, <1>5, UnmetAlike DEF ProblemsOK
<1> QED
  BY <1>3, <1>4, <1>6, <1>7 DEF ArtifactInv

LEMMA CountsKeepArtifact ==
  ASSUME ArtifactInv, CheckCounts, native' = native
  PROVE  ArtifactInv'
<1>1. /\ stage = "counts" /\ visited = 0 /\ states = <<>> /\ reported = <<>>
      /\ ValidProfile(artifact) /\ artifact # Nil
      /\ Unmet(artifact) \subseteq problems
  BY DEF ArtifactInv, ScanInv, CheckCounts, ProblemsOK, ValidProfile
<1>2. /\ UNCHANGED <<artifact, native, visited, states, reported>>
      /\ problems \subseteq problems'
      /\ stage' = IF TotalClauses(artifact) <= MaxArtifactClauses THEN "rules" ELSE "verdict"
  BY DEF CheckCounts
<1>3. \A name \in Name : OverBound(name) => "fewRules" \in problems'
  BY DEF CheckCounts
<1>4. ScanInv'
  BY CountsKeepScan DEF ArtifactInv
<1>5. stage' = "verdict" => ~Sound'
  <2>1. ~(TotalClauses(artifact) <= MaxArtifactClauses) => "fewClauses" \in Unmet(artifact)
    BY DEF Unmet, Demands
  <2> QED
    BY <1>1, <1>2, <2>1 DEF Sound
<1>6. StatesOK'
  <2>1. \A name : Seen(name)' = {}
    BY <1>1, <1>2 DEF Seen
  <2>2. DOMAIN states' = {}
    BY <1>1, <1>2
  <2> QED
    BY <2>1, <2>2 DEF StatesOK, StateOK
<1>7. ReportedOK'
  BY <1>1, <1>2 DEF ReportedOK
<1>8. AllFound' /\ AllTaken'
  BY <1>2, <1>5 DEF AllFound, AllTaken
<1>9. ProblemsOK'
  BY <1>1, <1>2, <1>3, UnmetAlike, SkipAlike DEF ProblemsOK
<1> QED
  BY <1>4, <1>6, <1>7, <1>8, <1>9 DEF ArtifactInv

LEMMA VisitIs ==
  ASSUME ArtifactInv, VisitRule
  PROVE  LET visit == Visits(artifact)[visited + 1] IN
         /\ stage = "rules" /\ UNCHANGED <<artifact, stage, problems>>
         /\ artifact \in Artifacts /\ ValidProfile(artifact) /\ ProfileOK(artifact)
         /\ visited \in Nat /\ visited <= Len(Visits(artifact)) /\ visited' = visited + 1
         /\ RecordRule(visit)
         /\ visit.name \in Name /\ visit.clause \in Clause
         /\ visit.entry \in Loading(artifact, visit.name)
         /\ Bears(visit.clause, ResultAt(artifact, visit.entry))
<1> DEFINE visit == Visits(artifact)[visited + 1]
<1>1. /\ stage = "rules" /\ UNCHANGED <<artifact, stage, problems>>
      /\ artifact \in Artifacts /\ ValidProfile(artifact)
      /\ visited \in Nat /\ visited <= Len(Visits(artifact)) /\ visited' = visited + 1
      /\ visited < Len(Visits(artifact))
      /\ RecordRule(visit)
  BY DEF ArtifactInv, ScanInv, VisitRule
<1>2. ProfileOK(artifact)
  BY <1>1, ArtifactIs
<1>3. Len(Visits(artifact)) \in Nat
  BY <1>1, KnownRules
<1>4. visited + 1 \in 1..Len(Visits(artifact))
  BY <1>1, <1>3
<1>5. visit \in Visit /\ visit.clause \in Clause /\ visit \in ToSet(Visits(artifact))
  BY <1>1, <1>4, KnownRules
<1> HIDE DEF visit
<1>6. visit.name \in Name
  BY <1>5 DEF Visit
<1>7. visit \in VisitsFor(artifact, visit.name)
  BY <1>5 DEF VisitsFor
<1>8. /\ visit.entry \in Loading(artifact, visit.name)
      /\ visit.clause \in ToSet(EntryClauses(artifact.entries[visit.entry]))
  BY <1>2, <1>6, <1>7, VisitsCover DEF ProfileOK, Loading
<1>9. Bears(visit.clause, ResultAt(artifact, visit.entry))
  BY <1>2, <1>8, LoadingIs
<1> QED
  BY <1>1, <1>2, <1>5, <1>6, <1>8, <1>9 DEF visit

LEMMA StateAfter ==
  ASSUME ArtifactInv, VisitRule, NEW name \in Name,
         Visits(artifact)[visited + 1].name = name, ~Skip(name)
  PROVE  /\ name \in DOMAIN states'
         /\ Fits(states'[name], Seen(name)', artifact, name)
<1> DEFINE visit == Visits(artifact)[visited + 1]
           next == visit.clause
           entry == visit.entry
           state == StateOf(name, next)
<1>1. /\ stage = "rules"
      /\ artifact \in Artifacts /\ ValidProfile(artifact) /\ ProfileOK(artifact)
      /\ visited \in Nat /\ visited <= Len(Visits(artifact))
      /\ RecordRule(visit) /\ next \in Clause
      /\ entry \in Loading(artifact, name) /\ Bears(next, ResultAt(artifact, entry))
  BY VisitIs
<1>2. Seen(name)' = Seen(name) \cup {next}
  BY VisitIs, VisitSeesRule
<1>3. Seen(name) \in SUBSET Clause
  BY <1>1, KnownRules
<1>4. visit.name = name
  OBVIOUS
<1>5. StateOK(name)
  BY <1>1 DEF ArtifactInv, StatesOK
<1> HIDE DEF visit
<1>6. states' = [n \in DOMAIN states \cup {name} |->
                   IF n = name THEN Recorded(state, next, entry) ELSE states[n]]
  BY <1>1, <1>4 DEF RecordRule
<1>7. name \in DOMAIN states' /\ states'[name] = Recorded(state, next, entry)
  BY <1>6
<1>8. \/ /\ Seen(name) = {} /\ state.first = next /\ state.conditional = <<>>
         /\ state.mixedAt = 0
      \/ Fits(state, Seen(name), artifact, name)
  BY <1>5 DEF StateOK, StateOf, NewState
<1> HIDE DEF state, next, entry
<1>9. Fits(Recorded(state, next, entry), Seen(name) \cup {next}, artifact, name)
  BY <1>1, <1>3, <1>8, RecordFits
<1> QED
  BY <1>2, <1>7, <1>9

LEMMA VisitKeepsStates ==
  ASSUME ArtifactInv, VisitRule
  PROVE  StatesOK'
<1> DEFINE visit == Visits(artifact)[visited + 1]
<1>1. /\ stage = "rules" /\ artifact' = artifact /\ visited \in Nat /\ visited' = visited + 1
      /\ RecordRule(visit) /\ visit.name \in Name
  BY VisitIs
<1>2. /\ \A name \in DOMAIN states : name \in Name /\ ~OverBound(name)
      /\ \A name \in Name : StateOK(name)
  BY <1>1 DEF ArtifactInv, StatesOK
<1>3. ASSUME NEW name \in Name
      PROVE  StateOK(name)'
  <2>1. CASE visit.name = name /\ ~Skip(name)
    <3>1. name \in DOMAIN states' /\ Fits(states'[name], Seen(name)', artifact, name)
      BY <2>1, StateAfter
    <3>2. Seen(name)' # {}
      BY <3>1 DEF Fits
    <3> QED
      BY <1>1, <3>1, <3>2 DEF StateOK
  <2>2. CASE visit.name = name /\ Skip(name)
    <3> HIDE DEF visit
    <3>1. reported' = reported
      BY <1>1, <2>2 DEF RecordRule
    <3>2. Skip(name)'
      BY <1>1, <2>2, <3>1, SkipAlike
    <3> QED
      BY <3>2 DEF StateOK
  <2>3. CASE visit.name # name
    <3>1. Seen(name)' = Seen(name)
      BY <1>1, <2>3, VisitSeesRule
    <3> HIDE DEF visit
    <3>2. /\ name \in DOMAIN reported' <=> name \in DOMAIN reported
          /\ name \in DOMAIN states' <=> name \in DOMAIN states
          /\ name \in DOMAIN states => states'[name] = states[name]
      BY <1>1, <2>3 DEF RecordRule, Report
    <3>3. Skip(name)' <=> Skip(name)
      BY <1>1, <3>2 DEF Skip, OverBound
    <3> QED
      BY <1>1, <1>2, <3>1, <3>2, <3>3 DEF StateOK
  <2> QED
    BY <2>1, <2>2, <2>3
<1> HIDE DEF visit
<1>4. \A name \in DOMAIN states' : name \in Name /\ ~OverBound(name)'
  <2>1. \A name : OverBound(name)' <=> OverBound(name)
    BY <1>1 DEF OverBound
  <2>2. DOMAIN states' \subseteq DOMAIN states \cup {visit.name}
    BY <1>1 DEF RecordRule
  <2>3. visit.name \in DOMAIN states' => visit.name \in DOMAIN states \/ ~OverBound(visit.name)
    BY <1>1 DEF RecordRule, Skip
  <2> QED
    BY <1>1, <1>2, <2>1, <2>2, <2>3
<1> QED
  BY <1>3, <1>4 DEF StatesOK

\* A report points at an entry that a rule seen before contradicts.
LEMMA ConflictContradicts ==
  ASSUME ArtifactInv, VisitRule,
         LET visit == Visits(artifact)[visited + 1] IN
         /\ ~Skip(visit.name)
         /\ ConflictsNow(StateOf(visit.name, visit.clause), visit.clause)
  PROVE  LET visit == Visits(artifact)[visited + 1] IN Contradicted(visit.name, visit.entry)
<1> DEFINE visit == Visits(artifact)[visited + 1]
           name == visit.name
           next == visit.clause
           entry == visit.entry
           state == StateOf(name, next)
<1>1. /\ stage = "rules"
      /\ artifact \in Artifacts /\ ValidProfile(artifact) /\ ProfileOK(artifact)
      /\ visited \in Nat /\ visited <= Len(Visits(artifact))
      /\ name \in Name /\ next \in Clause
      /\ entry \in Loading(artifact, name) /\ Bears(next, ResultAt(artifact, entry))
  BY VisitIs
<1>2. ~Skip(name) /\ ConflictsNow(state, next)
  OBVIOUS
<1> HIDE DEF visit
<1>3. state.written = Written(name) /\ state.truncated = Truncated(name)
  BY StateParts
<1>4. /\ Represents(Written(name), Seen(name))
      /\ LoadsWideValue(artifact) => Represents(Truncated(name), SeenTruncated(name))
  BY <1>1, <1>2 DEF ArtifactInv, ScanInv, TrackersAreCurrent, Current
<1> HIDE DEF name, next, entry, state
<1>5. /\ Seen(name) \in SUBSET Clause /\ Known(Seen(name)) /\ Known(SeenTruncated(name))
      /\ next.action \in Action /\ TruncatedClause(next).action \in Action
  BY <1>1, KnownRules
<1>6. \E c \in Seen(name) : ~SameResult(c, next)
  <2>1. CASE TrackerConflicts(Written(name), next)
    BY <1>4, <1>5, <2>1, TrackerIsExact
  <2>2. CASE LoadsWideValue(artifact) /\ TrackerConflicts(Truncated(name), TruncatedClause(next))
    <3>1. \E rule \in SeenTruncated(name) : ~SameResult(rule, TruncatedClause(next))
      BY <1>4, <1>5, <2>2, TrackerIsExact
    <3>2. PICK c \in Seen(name) : ~SameResult(TruncatedClause(c), TruncatedClause(next))
      BY <3>1 DEF SeenTruncated
    <3> QED
      BY <1>1, <1>5, <3>2, TruncatedResult
  <2> QED
    BY <1>2, <1>3, <2>1, <2>2 DEF ConflictsNow
<1>7. PICK c \in Seen(name) : ~SameResult(c, next)
  BY <1>6
<1>8. PICK j \in Loading(artifact, name) : Bears(c, ResultAt(artifact, j))
  BY <1>1, SeenIs
<1>9. ~SameResult(ResultAt(artifact, j), ResultAt(artifact, entry))
  BY <1>1, <1>7, <1>8, BearsAlike
<1>10. Contradicted(name, entry)
  BY <1>1, <1>8, <1>9 DEF Contradicted
<1> QED
  BY <1>10 DEF name, entry, visit

LEMMA VisitKeepsArtifact ==
  ASSUME ArtifactInv, VisitRule, native' = native
  PROVE  ArtifactInv'
<1> DEFINE visit == Visits(artifact)[visited + 1]
<1>1. /\ stage = "rules" /\ UNCHANGED <<artifact, stage, problems, native>>
      /\ RecordRule(visit) /\ visit.name \in Name
  BY VisitIs
<1>2. ScanInv'
  BY VisitKeepsScan DEF ArtifactInv
<1>3. StatesOK'
  BY VisitKeepsStates
<1>4. \/ reported' = reported
      \/ /\ Contradicted(visit.name, visit.entry)
         /\ reported' = [n \in DOMAIN reported \cup {visit.name} |->
                           IF n = visit.name THEN visit.entry ELSE reported[n]]
  <2>1. CASE Skip(visit.name)
    BY <1>1, <2>1 DEF RecordRule
  <2>2. CASE ~Skip(visit.name) /\ ~ConflictsNow(StateOf(visit.name, visit.clause), visit.clause)
    BY <1>1, <2>2 DEF RecordRule
  <2>3. CASE ~Skip(visit.name) /\ ConflictsNow(StateOf(visit.name, visit.clause), visit.clause)
    <3>1. Contradicted(visit.name, visit.entry)
      BY <2>3, ConflictContradicts
    <3>2. Report([name \in {visit.name} |-> visit.entry])
      BY <1>1, <2>3 DEF RecordRule
    <3> QED
      BY <3>1, <3>2 DEF Report
  <2> QED
    BY <2>1, <2>2, <2>3
<1>5. ReportedOK
  BY DEF ArtifactInv
<1> HIDE DEF visit
<1>6. ReportedOK'
  <2> SUFFICES ASSUME NEW name \in DOMAIN reported'
               PROVE  name \in Name /\ Contradicted(name, reported'[name])
    BY <1>1 DEF ReportedOK, Contradicted
  <2>1. \A n \in DOMAIN reported : n \in Name /\ Contradicted(n, reported[n])
    BY <1>1, <1>5 DEF ReportedOK
  <2>2. CASE reported' = reported
    BY <2>1, <2>2
  <2>3. CASE /\ Contradicted(visit.name, visit.entry)
             /\ reported' = [n \in DOMAIN reported \cup {visit.name} |->
                               IF n = visit.name THEN visit.entry ELSE reported[n]]
    <3>1. name = visit.name \/ name \in DOMAIN reported
      BY <2>3
    <3>2. reported'[name] = IF name = visit.name THEN visit.entry ELSE reported[name]
      BY <2>3, <3>1
    <3>3. CASE name = visit.name
      BY <1>1, <2>3, <3>2, <3>3
    <3>4. CASE name # visit.name
      BY <2>1, <3>1, <3>2, <3>4
    <3> QED
      BY <3>3, <3>4
  <2> QED
    BY <1>4, <2>2, <2>3, Zenon
<1>7. ProblemsOK'
  BY <1>1, UnmetAlike DEF ArtifactInv, ProblemsOK, Sound, OverBound
<1>8. AllFound' /\ AllTaken'
  BY <1>1 DEF AllFound, AllTaken
<1> QED
  BY <1>2, <1>3, <1>6, <1>7, <1>8 DEF ArtifactInv

\* After the last visit, the rules seen are those of the artifact.
LEMMA AllSeen ==
  ASSUME ArtifactInv, stage = "rules", visited = Len(Visits(artifact)), NEW name \in Name
  PROVE  /\ Seen(name) = ToSet(Clauses(artifact, name))
         /\ Clauses(artifact, name) \in Seq(Clause) /\ Seen(name) \in SUBSET Clause
         /\ Unreliable(Clauses(artifact, name)) <=> Doubtful(Seen(name))
         /\ StateOK(name) /\ ReportedExactly(name)
         /\ \A c \in Seen(name) :
              \E j \in Loading(artifact, name) : Bears(c, ResultAt(artifact, j))
<1>1. /\ artifact \in Artifacts /\ ValidProfile(artifact) /\ visited \in Nat
      /\ visited <= Len(Visits(artifact))
      /\ StateOK(name) /\ ReportedExactly(name)
  BY DEF ArtifactInv, ScanInv, ScanIsExact, StatesOK
<1>2. Seen(name) = ToSet(Clauses(artifact, name))
  BY <1>1, SeenIs
<1>3. Clauses(artifact, name) \in Seq(Clause)
  BY <1>1, ArtifactIs, VisitsCover DEF ProfileOK
<1>4. Seen(name) \in SUBSET Clause
  BY <1>1, KnownRules
<1>5. Unreliable(Clauses(artifact, name)) <=> Doubtful(Seen(name))
  BY <1>2, <1>3, UnreliableIs
<1>6. \A c \in Seen(name) :
        \E j \in Loading(artifact, name) : Bears(c, ResultAt(artifact, j))
  BY <1>1, SeenIs
<1> QED
  BY <1>1, <1>2, <1>3, <1>4, <1>5, <1>6

\* What checkShapes reports, and that nothing is left to report after it.
LEMMA ShapelessIs ==
  ASSUME ArtifactInv, stage = "rules", visited = Len(Visits(artifact)), NEW name \in Name,
         name \notin DOMAIN reported, ~OverBound(name)
  PROVE  /\ name \in DOMAIN states /\ Shapeless(name) =>
              /\ Unreliable(Clauses(artifact, name))
              /\ Contradicted(name, states[name].mixedAt)
         /\ Unreliable(Clauses(artifact, name)) => name \in DOMAIN states /\ Shapeless(name)
<1> DEFINE C == Seen(name)
           state == states[name]
<1>1. /\ C \in SUBSET Clause
      /\ Unreliable(Clauses(artifact, name)) <=> Doubtful(C)
      /\ StateOK(name) /\ ReportedExactly(name)
      /\ \A c \in C : \E j \in Loading(artifact, name) : Bears(c, ResultAt(artifact, j))
  BY AllSeen
<1>2. /\ name \in DOMAIN states <=> C # {}
      /\ name \in DOMAIN states => Fits(state, C, artifact, name)
  BY <1>1 DEF StateOK, Skip
<1>3. ~Clashing(C)
  BY <1>1 DEF ReportedExactly
<1> HIDE DEF C, state
<1>4. ASSUME name \in DOMAIN states, state.mixedAt # 0, ~SafeShape(ToSet(state.conditional))
      PROVE  Doubtful(C) /\ Contradicted(name, state.mixedAt)
  <2>1. /\ state.first \in C
        /\ ToSet(state.conditional) = {c \in C : ~Unconditional(c)}
        /\ ~(\A c \in C : SameResult(state.first, c))
        /\ state.mixedAt \in Loading(artifact, name)
        /\ ~SameResult(state.first, ResultAt(artifact, state.mixedAt))
    BY <1>2, <1>4 DEF Fits
  <2>2. Differing(C)
    BY <2>1 DEF Differing
  <2>3. (\E c \in C : Unconditional(c)) \/ ~SafeShape(C)
    <3>1. CASE \A c \in C : ~Unconditional(c)
      <4>1. ToSet(state.conditional) = C
        BY <2>1, <3>1
      <4> QED
        BY <1>4, <4>1
    <3> QED
      BY <3>1
  <2>4. PICK j \in Loading(artifact, name) : Bears(state.first, ResultAt(artifact, j))
    BY <1>1, <2>1
  <2>5. ~SameResult(ResultAt(artifact, j), ResultAt(artifact, state.mixedAt))
    BY <2>1, <2>4, BearsAlike
  <2> QED
    BY <2>1, <2>2, <2>3, <2>5 DEF Doubtful, Contradicted
<1>5. ASSUME Doubtful(C)
      PROVE  name \in DOMAIN states /\ state.mixedAt # 0 /\ ~SafeShape(ToSet(state.conditional))
  <2>1. (\A c \in C : ~Unconditional(c)) /\ ~SafeShape(C)
    BY <1>1, <1>3, <1>5, DoubtfulIsSeen
  <2>2. PICK c \in C, d \in C : ~SameResult(c, d)
    BY <1>5 DEF Doubtful, Differing
  <2>3. name \in DOMAIN states /\ Fits(state, C, artifact, name)
    BY <1>2, <2>2
  <2>4. ToSet(state.conditional) = C
    BY <2>1, <2>3 DEF Fits
  <2>5. state.mixedAt # 0
    <3> SUFFICES ASSUME state.mixedAt = 0
                 PROVE  FALSE
      OBVIOUS
    <3>1. state.first \in C /\ SameResult(state.first, c) /\ SameResult(state.first, d)
      BY <2>3 DEF Fits
    <3>2. c \in Clause /\ d \in Clause /\ state.first \in Clause
      BY <1>1, <3>1
    <3>3. SameResult(c, state.first)
      BY <3>1, <3>2, SameResults
    <3> QED
      BY <2>2, <3>1, <3>2, <3>3, SameResultTwice
  <2> QED
    BY <2>1, <2>3, <2>4, <2>5
<1>6. Shapeless(name) <=> state.mixedAt # 0 /\ ~SafeShape(ToSet(state.conditional))
  BY DEF Shapeless, state
<1> QED
  BY <1>1, <1>4, <1>5, <1>6 DEF state

\* What the scan reported cannot be relied on.
LEMMA ReportedIsUnreliable ==
  ASSUME ArtifactInv, stage = "rules", visited = Len(Visits(artifact)), NEW name \in Name,
         name \in DOMAIN reported
  PROVE  Unreliable(Clauses(artifact, name))
<1>1. /\ Seen(name) \in SUBSET Clause
      /\ Unreliable(Clauses(artifact, name)) <=> Doubtful(Seen(name))
      /\ ReportedExactly(name)
  BY AllSeen
<1>2. Clashing(Seen(name)) \/ Clashing(SeenTruncated(name))
  BY <1>1 DEF ReportedExactly
<1>3. Doubtful(Seen(name))
  BY <1>1, <1>2, ClashingIsDoubtful DEF SeenTruncated
<1> QED
  BY <1>1, <1>3

LEMMA ShapesKeepArtifact ==
  ASSUME ArtifactInv, CheckShapes, native' = native
  PROVE  ArtifactInv'
<1> DEFINE found == {n \in DOMAIN states \ DOMAIN reported : Shapeless(n)}
<1>1. /\ stage = "rules" /\ visited = Len(Visits(artifact))
      /\ UNCHANGED <<artifact, visited, states, problems, native>> /\ stage' = "multiplexers"
      /\ Report([name \in found |-> states[name].mixedAt])
  BY DEF CheckShapes
<1>2. /\ DOMAIN reported' = DOMAIN reported \cup found
      /\ \A name \in DOMAIN reported' :
           reported'[name] = IF name \in found THEN states[name].mixedAt ELSE reported[name]
  BY <1>1 DEF Report
<1>3. /\ ReportedOK /\ ProblemsOK /\ ValidProfile(artifact)
      /\ \A name \in DOMAIN states : name \in Name /\ ~OverBound(name)
  BY <1>1 DEF ArtifactInv, StatesOK, ProblemsOK
<1>4. ScanInv'
  BY OtherChecksKeepScan DEF ArtifactInv
<1>5. StatesOK'
  BY <1>1 DEF StatesOK
<1>6. ASSUME NEW name \in DOMAIN reported'
      PROVE  /\ name \in Name /\ Contradicted(name, reported'[name])
             /\ Unreliable(Clauses(artifact, name))
  <2>1. CASE name \in found
    <3>1. /\ name \in Name /\ name \notin DOMAIN reported /\ ~OverBound(name)
          /\ name \in DOMAIN states /\ Shapeless(name)
      BY <1>3, <2>1
    <3>2. reported'[name] = states[name].mixedAt
      BY <1>2, <2>1
    <3> QED
      BY <1>1, <3>1, <3>2, ShapelessIs
  <2>2. CASE name \notin found
    <3>1. name \in DOMAIN reported /\ reported'[name] = reported[name]
      BY <1>2, <2>2
    <3>2. name \in Name /\ Contradicted(name, reported[name])
      BY <1>1, <1>3, <3>1 DEF ReportedOK
    <3> QED
      BY <1>1, <3>1, <3>2, ReportedIsUnreliable
  <2> QED
    BY <2>1, <2>2
<1> HIDE DEF found
<1>7. ReportedOK'
  BY <1>1, <1>6 DEF ReportedOK, Contradicted
<1>8. ProblemsOK'
  BY <1>1, <1>3, UnmetAlike DEF ProblemsOK, Sound, OverBound
<1>9. ASSUME NEW name \in Name, ~OverBound(name), Unreliable(Clauses(artifact, name))
      PROVE  name \in DOMAIN reported'
  <2>1. CASE name \in DOMAIN reported
    BY <1>2, <2>1
  <2>2. CASE name \notin DOMAIN reported
    <3>1. name \in DOMAIN states /\ Shapeless(name)
      BY <1>1, <1>9, <2>2, ShapelessIs
    <3> QED
      BY <1>2, <2>2, <3>1 DEF found
  <2> QED
    BY <2>1, <2>2
<1>10. AllFound'
  BY <1>1, <1>9 DEF AllFound, OverBound
<1>11. AllTaken'
  BY <1>1 DEF AllTaken
<1> QED
  BY <1>4, <1>5, <1>7, <1>8, <1>10, <1>11 DEF ArtifactInv

LEMMA LoadingEntries ==
  ASSUME NEW profile, NEW name
  PROVE  Loading(profile, name)
           = {i \in EntriesNaming(profile, name) : ~Skipped(profile.entries[i], Default(profile))}
  BY DEF Loading, Ruling, EntriesNaming

LEMMA FirstEntryIs ==
  ASSUME artifact \in Artifacts, ValidProfile(artifact), NEW name \in MultiplexName,
         RefusedThere(name)
  PROVE  name \in Name /\ FirstEntry(name) \in Loading(artifact, name)
<1> DEFINE L == Loading(artifact, name)
           n == Len(artifact.entries)
<1>1. name \in Name
  BY MultiplexNames
<1>2. ProfileOK(artifact) /\ artifact.entries \in Seq(Entry)
  BY ArtifactIs DEF ProfileOK
<1>3. Clauses(artifact, name) # <<>>
  BY DEF RefusedThere, Mixes
<1>4. /\ Clauses(artifact, name) \in Seq(Clause)
      /\ ToSet(Clauses(artifact, name)) = UNION {ToSet(EntryClauses(artifact.entries[i])) : i \in L}
  BY <1>2, LoadedAre DEF Clauses, Loading
<1>5. ToSet(Clauses(artifact, name)) # {}
  <2> DEFINE s == Clauses(artifact, name)
  <2>1. s \in Seq(Clause) /\ s # <<>>
    BY <1>3, <1>4
  <2> HIDE DEF s
  <2>2. ToSet(s) # {}
    BY <2>1, SeqIs
  <2> QED
    BY <2>2 DEF s
<1>6. L # {}
  BY <1>4, <1>5
<1>7. n \in Nat /\ L \in SUBSET (1..n)
  BY <1>2, SeqIs DEF Loading, Ruling
<1>8. FirstEntry(name) = Min(L)
  BY LoadingEntries DEF FirstEntry
<1> HIDE DEF L, n
<1> QED
  BY <1>1, <1>6, <1>7, <1>8, LeastPicks DEF L

LEMMA MultiplexersKeepArtifact ==
  ASSUME ArtifactInv, CheckMultiplexed, native' = native
  PROVE  ArtifactInv'
<1> DEFINE found == {n \in MultiplexName : ~Skip(n) /\ RefusedThere(n)}
           covers == CoversAny(artifact.architectures, MultiplexingArchitectures)
<1>1. /\ stage = "multiplexers" /\ UNCHANGED <<artifact, visited, states, problems, native>>
      /\ stage' = "verdict"
      /\ IF covers THEN Report([name \in found |-> FirstEntry(name)]) ELSE UNCHANGED reported
  BY DEF CheckMultiplexed
<1>2. /\ ReportedOK /\ ProblemsOK /\ AllFound /\ artifact \in Artifacts /\ ValidProfile(artifact)
  BY <1>1 DEF ArtifactInv, ScanInv, ProblemsOK
<1>3. /\ DOMAIN reported \subseteq DOMAIN reported'
      /\ covers => found \subseteq DOMAIN reported'
      /\ \A name \in DOMAIN reported' :
           \/ name \in DOMAIN reported /\ reported'[name] = reported[name]
           \/ name \in found /\ reported'[name] = FirstEntry(name)
  <2>1. CASE covers
    <3>1. /\ DOMAIN reported' = DOMAIN reported \cup found
          /\ \A name \in DOMAIN reported' :
               reported'[name] = IF name \in found THEN FirstEntry(name) ELSE reported[name]
      BY <1>1, <2>1 DEF Report
    <3> HIDE DEF found
    <3> QED
      BY <3>1
  <2>2. CASE ~covers
    BY <1>1, <2>2
  <2> QED
    BY <2>1, <2>2
<1>4. ScanInv'
  BY OtherChecksKeepScan DEF ArtifactInv
<1>5. StatesOK'
  BY <1>1 DEF StatesOK
<1>6. ASSUME NEW name \in DOMAIN reported'
      PROVE  name \in Name /\ reported'[name] \in Loading(artifact, name)
  <2>1. CASE name \in DOMAIN reported /\ reported'[name] = reported[name]
    BY <1>2, <2>1 DEF ReportedOK
  <2>2. CASE name \in found /\ reported'[name] = FirstEntry(name)
    BY <1>2, <2>2, FirstEntryIs
  <2> QED
    BY <1>3, <2>1, <2>2
<1>7. ReportedOK'
  BY <1>1, <1>6 DEF ReportedOK
<1>8. ProblemsOK'
  BY <1>1, <1>2, UnmetAlike DEF ProblemsOK, Sound, OverBound
<1>9. AllFound'
  BY <1>1, <1>2, <1>3 DEF AllFound, Sound, OverBound
<1>10. AllTaken'
  <2>1. covers' <=> covers
    BY <1>1, UnmetAlike
  <2>2. ASSUME NEW name \in MultiplexName, RefusedThere(name)', covers
        PROVE  Skip(name)'
    <3>1. RefusedThere(name)
      BY <1>1, <2>2 DEF RefusedThere
    <3>2. CASE Skip(name)
      BY <1>1, <1>3, <3>2 DEF Skip, OverBound
    <3>3. CASE ~Skip(name)
      <4>1. name \in found
        BY <3>1, <3>3
      <4>2. name \in DOMAIN reported'
        BY <1>3, <2>2, <4>1
      <4> QED
        BY <4>2 DEF Skip
    <3> QED
      BY <3>2, <3>3
  <2> HIDE DEF found
  <2> QED
    BY <2>1, <2>2 DEF AllTaken
<1> QED
  BY <1>4, <1>5, <1>7, <1>8, <1>9, <1>10 DEF ArtifactInv

LEMMA MergingKeepsNative ==
  ASSUME MergeArtifact
  PROVE  UNCHANGED <<checkVars, native>>
  BY DEF MergeArtifact, ValidateNext, NormalizeOnly, FoldFirstTwo, Folded, ResolveListener, Regroup

LEMMA StepKeepsArtifact ==
  ASSUME ArtifactInv, ArtifactNext \/ UNCHANGED <<vars, checkVars>>
  PROVE  ArtifactInv'
<1>1. CASE Validate
  <2>1. native' = native
    BY <1>1 DEF Validate, vars
  <2> QED
    BY <1>1, <2>1, FieldsKeepArtifact, CountsKeepArtifact, VisitKeepsArtifact, ShapesKeepArtifact,
       MultiplexersKeepArtifact DEF Validate
<1>2. CASE MergeArtifact
  BY <1>2, MergingKeepsNative, OthersKeepArtifact
<1>3. CASE Settled
  BY <1>3, OthersKeepArtifact DEF Settled, vars
<1>4. CASE UNCHANGED <<vars, checkVars>>
  BY <1>4, OthersKeepArtifact DEF vars
<1> QED
  BY <1>1, <1>2, <1>3, <1>4 DEF ArtifactNext

LEMMA InitArtifact == ArtifactInit => ArtifactInv
<1> SUFFICES ASSUME ArtifactInit
             PROVE  ArtifactInv
  OBVIOUS
<1>1. /\ artifact \in Artifacts /\ stage = "fields" /\ visited = 0 /\ states = <<>> /\ reported = <<>>
  BY DEF ArtifactInit
<1>2. ScanInv
  BY <1>1 DEF ScanInv, ScanIsExact
<1> QED
  BY <1>1, <1>2 DEF ArtifactInv, StatesOK, ReportedOK, ProblemsOK, AllFound, AllTaken

LEMMA ArtifactIsInvariant == ArtifactSpec => []ArtifactInv
<1>1. ArtifactInv /\ [ArtifactNext]_<<vars, checkVars>> => ArtifactInv'
  BY StepKeepsArtifact
<1> QED
  BY <1>1, InitArtifact, PTL DEF ArtifactSpec

LEMMA FoundOf == ArtifactInv => ConflictsAreFound
<1> SUFFICES ASSUME ArtifactInv
             PROVE  ConflictsAreFound
  OBVIOUS
<1>1. ScanIsExact /\ AllFound /\ ReportedOK
  BY DEF ArtifactInv, ScanInv
<1>2. ASSUME stage \in {"multiplexers", "verdict"}, {"fewClauses", "valid"} \cap problems = {}
      PROVE  /\ \A name \in Name : ~OverBound(name) =>
                  (Unreliable(Clauses(artifact, name)) => name \in DOMAIN reported)
             /\ \A name \in DOMAIN reported :
                  LET entries == {i \in EntriesNaming(artifact, name) :
                                    ~Skipped(artifact.entries[i], Default(artifact))}
                  IN /\ reported[name] \in entries
                     /\ stage = "multiplexers" =>
                          /\ Unreliable(Clauses(artifact, name))
                          /\ \E i \in entries :
                               ~SameResult(Decision(artifact.entries[i].action, artifact.entries[i].errno),
                                           Decision(artifact.entries[reported[name]].action,
                                                    artifact.entries[reported[name]].errno))
  <2>1. Sound
    BY <1>2 DEF Sound
  <2>2. \A name \in Name : ~OverBound(name) =>
          (Unreliable(Clauses(artifact, name)) => name \in DOMAIN reported)
    BY <1>1, <1>2, <2>1 DEF AllFound
  <2>3. ASSUME NEW name \in DOMAIN reported
        PROVE  LET entries == {i \in EntriesNaming(artifact, name) :
                                 ~Skipped(artifact.entries[i], Default(artifact))}
               IN /\ reported[name] \in entries
                  /\ stage = "multiplexers" =>
                       /\ Unreliable(Clauses(artifact, name))
                       /\ \E i \in entries :
                            ~SameResult(Decision(artifact.entries[i].action, artifact.entries[i].errno),
                                        Decision(artifact.entries[reported[name]].action,
                                                 artifact.entries[reported[name]].errno))
    <3> DEFINE entries == {i \in EntriesNaming(artifact, name) :
                             ~Skipped(artifact.entries[i], Default(artifact))}
    <3>1. entries = Loading(artifact, name)
      BY LoadingEntries
    <3> HIDE DEF entries
    <3>2. reported[name] \in entries
      BY <1>1, <3>1 DEF ReportedOK
    <3>3. ASSUME stage = "multiplexers"
          PROVE  /\ Unreliable(Clauses(artifact, name))
                 /\ \E i \in entries : ~SameResult(ResultAt(artifact, i), ResultAt(artifact, reported[name]))
      BY <1>1, <3>1, <3>3 DEF ReportedOK, Contradicted
    <3> QED
      BY <3>2, <3>3 DEF entries, ResultAt
  <2> QED
    BY <2>2, <2>3
<1> QED
  BY <1>1, <1>2 DEF ConflictsAreFound

\* ValidateArtifact finds exactly the syscalls whose rules conflict, for any
\* artifact, any filters and any bounds, and points at an entry that another
\* one contradicts.
THEOREM ArtifactConflictsAreFound == ArtifactSpec => []ConflictsAreFound
<1>1. ArtifactInv => ConflictsAreFound
  BY FoundOf
<1> QED
  BY <1>1, ArtifactIsInvariant, PTL

-----------------------------------------------------------------------------
(* An accepted artifact loads *)

\* Nothing is wrong with the rules of any syscall, of a multiplexer or not, and
\* every condition reads alike on 64 and on 32 bits.
LEMMA AcceptedIs ==
  ASSUME ArtifactInv, Accepted
  PROVE  /\ ProfileOK(artifact) /\ Default(artifact) \in Decisive
         /\ \A name \in Name : Clauses(artifact, name) \in Seq(Clause)
         /\ \A name \in Name : ~Unreliable(Clauses(artifact, name))
         /\ CoversAny(artifact.architectures, MultiplexingArchitectures) =>
              \A name \in MultiplexName : ~RefusedThere(name)
         /\ CoversAny(artifact.architectures, NarrowArchitectures) => ~LoadsWideValue(artifact)
<1>1. stage = "verdict" /\ problems = {} /\ DOMAIN reported = {} /\ Sound
  BY DEF Accepted, Sound
<1>2. /\ artifact \in Artifacts /\ ValidProfile(artifact) /\ artifact # Nil
      /\ Unmet(artifact) \subseteq {}
      /\ \A name \in Name : ~OverBound(name)
  BY <1>1 DEF ArtifactInv, ScanInv, ProblemsOK, Sound, ValidProfile
<1>3. ProfileOK(artifact) /\ Default(artifact) \in Decisive
  BY <1>2, ArtifactIs
<1>4. artifact.entries \in Seq(Entry)
  BY <1>3 DEF ProfileOK
<1>5. \A name \in Name : Clauses(artifact, name) \in Seq(Clause)
  BY <1>4, LoadedAre DEF Clauses
<1>6. \A name \in Name : ~Unreliable(Clauses(artifact, name))
  BY <1>1, <1>2 DEF ArtifactInv, AllFound
<1>7. ASSUME CoversAny(artifact.architectures, MultiplexingArchitectures)
      PROVE  \A name \in MultiplexName : ~RefusedThere(name)
  <2>1. \A name \in MultiplexName : ~Skip(name)
    BY <1>1, <1>2, MultiplexNames DEF Skip
  <2> QED
    BY <1>1, <1>7, <2>1 DEF ArtifactInv, AllTaken
<1>8. ASSUME CoversAny(artifact.architectures, NarrowArchitectures)
      PROVE  ~LoadsWideValue(artifact)
  <2>1. ReadAlike(artifact)
    <3>1. ~ReadAlike(artifact) => "narrowValues" \in Unmet(artifact)
      BY DEF Unmet, Demands
    <3> QED
      BY <1>2, <3>1
  <2>2. \A i \in DOMAIN artifact.entries : /\ artifact.entries[i] \in ToSet(artifact.entries)
                                           /\ artifact.entries[i].args \in Seq(Arg)
    <3>1. \A i \in DOMAIN artifact.entries :
            artifact.entries[i] \in Entry /\ artifact.entries[i] \in ToSet(artifact.entries)
      BY <1>4, SeqIs
    <3>2. \A entry \in Entry : entry.args \in Seq(Arg)
      BY DEF Entry
    <3> QED
      BY <3>1, <3>2
  <2>3. ASSUME NEW i \in DOMAIN artifact.entries, NEW j \in DOMAIN artifact.entries[i].args
        PROVE  ~WideArg(CanonicalArg(artifact.entries[i].args[j]))
    <3>1. artifact.entries[i].args[j] \in ToSet(artifact.entries[i].args)
      BY <2>2, SeqIs
    <3> QED
      BY <1>8, <2>1, <2>2, <3>1 DEF ReadAlike
  <2> QED
    BY <2>3 DEF LoadsWideValue
<1> QED
  BY <1>3, <1>5, <1>6, <1>7, <1>8

\* Rules a runtime can rely on have one result, or are compiled as written.
LEMMA ReliableLoads ==
  ASSUME NEW s \in Seq(Clause), ~Unreliable(s)
  PROVE  \/ Cardinality({<<Rank(c), c.errno>> : c \in ToSet(s)}) <= 1
         \/ FirstUnconditional(s) = NoClause /\ Compiled(ToSet(s))
<1> DEFINE results == {<<Rank(c), c.errno>> : c \in ToSet(s)}
<1>1. ~Doubtful(ToSet(s)) /\ ToSet(s) \in SUBSET Clause
  BY UnreliableIs, SeqIs
<1>2. CASE Differing(ToSet(s))
  <2>1. (\A c \in ToSet(s) : ~Unconditional(c)) /\ SafeShape(ToSet(s))
    BY <1>1, <1>2 DEF Doubtful
  <2>2. Compiled(ToSet(s))
    BY <1>1, <2>1, ShapeCompiles
  <2>3. FirstUnconditional(s) = NoClause
    BY <2>1, FirstIs DEF Decisive, Unconditional
  <2> QED
    BY <2>2, <2>3
<1>3. CASE ~Differing(ToSet(s))
  <2>1. \A x, y \in results : x = y
    <3> SUFFICES ASSUME NEW c \in ToSet(s), NEW d \in ToSet(s)
                 PROVE  <<Rank(c), c.errno>> = <<Rank(d), d.errno>>
      OBVIOUS
    <3>1. SameResult(c, d) /\ c \in Clause /\ d \in Clause
      BY <1>1, <1>3 DEF Differing
    <3>2. Rank(c) = Rank(d)
      BY <3>1, Comparisons
    <3>3. c.errno = d.errno
      BY <3>1, SameResults
    <3> QED
      BY <3>2, <3>3
  <2> HIDE DEF results
  <2>2. ASSUME results = {}
        PROVE  Cardinality(results) <= 1
    BY <2>2, FS_EmptySet
  <2>3. ASSUME NEW x \in results
        PROVE  Cardinality(results) <= 1
    <3>1. results = {x}
      BY <2>1, <2>3
    <3>2. Cardinality(results) = 1
      BY <3>1, FS_Singleton
    <3> QED
      BY <3>2
  <2>4. Cardinality(results) <= 1
    <3>1. CASE results = {}
      BY <3>1, <2>2
    <3>2. CASE results # {}
      BY <3>2, <2>3
    <3> QED
      BY <3>1, <3>2
  <2> QED
    BY <2>4 DEF results
<1> QED
  BY <1>2, <1>3

\* Of a multiplexer that is not refused nothing is dropped.
LEMMA TakenLoads ==
  ASSUME NEW target \in ToSet(Multiplexers), NEW name \in ToSet(Carried[target]),
         ~RefusedThere(target), ~RefusedThere(name),
         Clauses(artifact, name) \in Seq(Clause)
  PROVE  /\ ~Refusable(Clauses(artifact, name))
         /\ Clauses(artifact, name) # <<>> =>
              \A i \in DOMAIN Clauses(artifact, target) :
                Unconditional(Clauses(artifact, target)[i])
<1>1. name \notin ToSet(Multiplexers)
  <2> SUFFICES ASSUME name \in ToSet(Multiplexers)
               PROVE  FALSE
    OBVIOUS
  <2>1. name # target
    BY MultiplexAssumption
  <2>2. ({target} \cup ToSet(Carried[target])) \cap ({name} \cup ToSet(Carried[name])) = {}
    BY <2>1, MultiplexAssumption
  <2> QED
    BY <2>2
<1>2. Clauses(artifact, name) = <<>> \/ ~Refused(Clauses(artifact, name))
  BY <1>1 DEF RefusedThere, Mixes, Refused
<1>3. ~Refusable(Clauses(artifact, name))
  BY <1>2, NotRefused
<1> QED
  BY <1>3 DEF RefusedThere

\* A filter without wide values says on 32 bits what it says on 64.
LEMMA NarrowHalf ==
  ASSUME NEW args \in SUBSET Arg, \A arg \in args : ~WideArg(arg)
  PROVE  LowHalf(args) = args
<1>1. ASSUME NEW arg \in args
      PROVE  [arg EXCEPT !.value = And[arg.value, MaxLow], !.two = And[arg.two, MaxLow]] = arg
  <2>1. arg.value \in Value /\ arg.two \in Value
    BY <1>1 DEF Arg
  <2>2. arg.value <= MaxLow /\ arg.two <= MaxLow
    <3>1. ~(arg.value > MaxLow) /\ ~(arg.two > MaxLow)
      BY <1>1, Zenon DEF WideArg
    <3>2. arg.value \in Int /\ arg.two \in Int
      BY <2>1, ValueFacts
    <3> QED
      BY <3>1, <3>2, LowIs
  <2>3. And[arg.value, MaxLow] = arg.value /\ And[arg.two, MaxLow] = arg.two
    BY <2>1, <2>2, LowBits
  <2> QED
    BY <2>3 DEF Arg
<1> QED
  BY <1>1 DEF LowHalf

LEMMA LoadsOf == ArtifactInv => AcceptedRulesDoNotClash
<1> SUFFICES ASSUME ArtifactInv, Accepted
             PROVE  AcceptedRulesDoNotClash
  BY DEF AcceptedRulesDoNotClash
<1> DEFINE loaded == Loaded(artifact)
<1>1. \A name \in Name : loaded[name] = Clauses(artifact, name)
  BY DEF Loaded, Clauses
<1> HIDE DEF loaded
<1>2. \A name \in Name : Clauses(artifact, name) \in Seq(Clause)
  BY AcceptedIs
<1>3. \A name \in Name :
         \/ Cardinality({<<Rank(c), c.errno>> : c \in ToSet(loaded[name])}) <= 1
         \/ FirstUnconditional(loaded[name]) = NoClause /\ Compiled(ToSet(loaded[name]))
  <2> SUFFICES ASSUME NEW name \in Name
               PROVE  \/ Cardinality({<<Rank(c), c.errno>> : c \in ToSet(loaded[name])}) <= 1
                      \/ FirstUnconditional(loaded[name]) = NoClause /\ Compiled(ToSet(loaded[name]))
    OBVIOUS
  <2>1. loaded[name] \in Seq(Clause) /\ ~Unreliable(loaded[name])
    BY <1>1, AcceptedIs
  <2> QED
    BY <2>1, ReliableLoads
<1>4. ASSUME Covered(artifact) \cap MultiplexingArchitectures # {},
             NEW target \in ToSet(Multiplexers), NEW name \in Name, name \in ToSet(Carried[target])
      PROVE  /\ ~Refusable(loaded[name])
             /\ loaded[name] # <<>> =>
                  \A i \in DOMAIN loaded[target] : Unconditional(loaded[target][i])
  <2>1. CoversAny(artifact.architectures, MultiplexingArchitectures)
    BY <1>4 DEF Covered, CoversAny
  <2>2. target \in MultiplexName /\ name \in MultiplexName /\ target \in Name
    BY <1>4, MultiplexNames
  <2>3. ~RefusedThere(target) /\ ~RefusedThere(name)
    BY <2>1, <2>2, AcceptedIs
  <2> QED
    BY <1>1, <1>2, <1>4, <2>2, <2>3, TakenLoads
<1>5. ASSUME Covered(artifact) \cap NarrowArchitectures # {},
             NEW name \in Name, NEW clause \in ToSet(loaded[name])
      PROVE  LowHalf(clause.args) = clause.args
  <2>1. CoversAny(artifact.architectures, NarrowArchitectures)
    BY <1>5 DEF Covered, CoversAny
  <2>2. ~LoadsWideValue(artifact) /\ artifact.entries \in Seq(Entry)
    BY <2>1, AcceptedIs DEF ProfileOK
  <2>3. ReadsAsWritten(Clauses(artifact, name), TRUE)
    BY <2>2, NarrowlyLoaded DEF Clauses
  <2>4. clause \in ToSet(Clauses(artifact, name)) /\ clause \in Clause
    BY <1>1, <1>2, <1>5, SeqIs
  <2>5. ~WideClause(clause)
    BY <2>3, <2>4 DEF ReadsAsWritten
  <2>6. clause.args \in SUBSET Arg /\ \A arg \in clause.args : ~WideArg(arg)
    BY <2>4, <2>5, ClauseFields DEF WideClause
  <2> QED
    BY <2>6, NarrowHalf
<1> QED
  BY <1>3, <1>4, <1>5 DEF AcceptedRulesDoNotClash, loaded

\* What ValidateArtifact accepts holds no rules with different results between
\* which libseccomp would choose: for any artifact, any filters, any multiplexers
\* and any architecture.
THEOREM AcceptedDoNotClash == ArtifactSpec => []AcceptedRulesDoNotClash
<1>1. ArtifactInv => AcceptedRulesDoNotClash
  BY LoadsOf
<1> QED
  BY <1>1, ArtifactIsInvariant, PTL

-----------------------------------------------------------------------------
(* The first element of a sequence that some set holds *)

Leads(x, s, P) ==
  \E k \in DOMAIN s : s[k] = x /\ x \in P /\ \A j \in 1..(k - 1) : s[j] \notin P

LEMMA LeaderExists ==
  ASSUME NEW V, NEW s \in Seq(V), NEW P, NEW y \in ToSet(s), y \in P
  PROVE  \E x : Leads(x, s, P)
<1> DEFINE T == {k \in DOMAIN s : s[k] \in P}
<1>1. Len(s) \in Nat /\ DOMAIN s = 1..Len(s)
  BY SeqIs
<1>2. \E k \in DOMAIN s : s[k] = y
  BY SeqIs
<1>3. T \in SUBSET Nat /\ T # {}
  BY <1>1, <1>2
<1>4. PICK m \in T : \A k \in T : m <= k
  <2> HIDE DEF T
  <2> QED
    BY <1>3, LeastNatural
<1>5. \A j \in 1..(m - 1) : j \in DOMAIN s /\ ~(m <= j)
  BY <1>1, <1>4
<1> QED
  BY <1>4, <1>5 DEF Leads

LEMMA OneLeader ==
  ASSUME NEW V, NEW s \in Seq(V), NEW P, NEW x, NEW y, Leads(x, s, P), Leads(y, s, P)
  PROVE  x = y
<1>1. PICK k \in DOMAIN s : s[k] = x /\ x \in P /\ \A j \in 1..(k - 1) : s[j] \notin P
  BY DEF Leads
<1>2. PICK m \in DOMAIN s : s[m] = y /\ y \in P /\ \A j \in 1..(m - 1) : s[j] \notin P
  BY DEF Leads
<1>3. k \in Nat \ {0} /\ m \in Nat \ {0}
  BY SeqIs
<1>4. CASE k < m
  BY <1>1, <1>2, <1>3, <1>4
<1>5. CASE m < k
  BY <1>1, <1>2, <1>3, <1>5
<1> QED
  BY <1>1, <1>2, <1>3, <1>4, <1>5

LEMMA LeaderWithin ==
  ASSUME NEW V, NEW s \in Seq(V), NEW P, NEW x, Leads(x, s, P)
  PROVE  x \in ToSet(s) /\ x \in V /\ x \in P
  BY SeqIs DEF Leads

LEMMA LeadersJoined ==
  ASSUME NEW V, NEW s \in Seq(V), NEW t \in Seq(V), NEW P, NEW x
  PROVE  /\ Leads(x, s, P) => Leads(x, s \o t, P)
         /\ Leads(x, t, P) /\ (\A y \in ToSet(s) : y \notin P) => Leads(x, s \o t, P)
<1>1. /\ Len(s) \in Nat /\ DOMAIN s = 1..Len(s) /\ Len(t) \in Nat /\ DOMAIN t = 1..Len(t)
      /\ DOMAIN (s \o t) = 1..(Len(s) + Len(t))
      /\ \A i \in 1..Len(s) : (s \o t)[i] = s[i]
      /\ \A i \in 1..Len(t) : (s \o t)[Len(s) + i] = t[i]
      /\ \A i \in 1..(Len(s) + Len(t)) : i > Len(s) => (s \o t)[i] = t[i - Len(s)]
  OBVIOUS
<1> DEFINE u == s \o t
<1> HIDE DEF u
<1>2. ASSUME Leads(x, s, P)
      PROVE  Leads(x, u, P)
  <2>1. PICK k \in DOMAIN s : s[k] = x /\ x \in P /\ \A j \in 1..(k - 1) : s[j] \notin P
    BY <1>2 DEF Leads
  <2>2. k \in DOMAIN u /\ u[k] = x
    BY <1>1, <2>1 DEF u
  <2>3. \A j \in 1..(k - 1) : j \in 1..Len(s) /\ u[j] = s[j]
    BY <1>1, <2>1 DEF u
  <2> QED
    BY <2>1, <2>2, <2>3 DEF Leads
<1>3. ASSUME Leads(x, t, P), \A y \in ToSet(s) : y \notin P
      PROVE  Leads(x, u, P)
  <2>1. PICK k \in DOMAIN t : t[k] = x /\ x \in P /\ \A j \in 1..(k - 1) : t[j] \notin P
    BY <1>3 DEF Leads
  <2>2. Len(s) + k \in DOMAIN u /\ u[Len(s) + k] = x
    BY <1>1, <2>1 DEF u
  <2>3. ASSUME NEW j \in 1..(Len(s) + k - 1)
        PROVE  u[j] \notin P
    <3>1. CASE j <= Len(s)
      <4>1. j \in DOMAIN s /\ u[j] = s[j]
        BY <1>1, <3>1 DEF u
      <4> QED
        BY <1>3, <4>1, SeqIs
    <3>2. CASE ~(j <= Len(s))
      <4>1. u[j] = t[j - Len(s)] /\ j - Len(s) \in 1..(k - 1)
        BY <1>1, <2>1, <3>2 DEF u
      <4> QED
        BY <2>1, <4>1
    <3> QED
      BY <3>1, <3>2
  <2> QED
    BY <2>1, <2>2, <2>3 DEF Leads
<1> QED
  BY <1>2, <1>3 DEF u

LEMMA PrefixElements ==
  ASSUME NEW V, NEW lists, NEW k \in Nat,
         NEW first \in [1..k -> Seq(V)], \A i \in 1..k : first[i] = lists[i]
  PROVE  \A y \in ToSet(FlattenSeq(first)) : \E i \in 1..k : y \in ToSet(lists[i])
<1>1. /\ FlattenSeq(first) \in Seq(V)
      /\ ToSet(FlattenSeq(first)) = UNION {ToSet(first[i]) : i \in 1..k}
  BY FlattenedPrefix
<1> QED
  BY <1>1

LEMMA FlattenLeader ==
  ASSUME NEW V, NEW n \in Nat, NEW lists \in [1..n -> Seq(V)], NEW P, NEW m \in 1..n,
         \A i \in 1..(m - 1) : \A y \in ToSet(lists[i]) : y \notin P,
         NEW x, Leads(x, lists[m], P)
  PROVE  Leads(x, FlattenSeq(lists), P)
<1> DEFINE L(k) == [i \in 1..k |-> lists[i]]
           Holds(k) == Leads(x, FlattenSeq(L(k)), P)
           Bad == {k \in m..n : ~Holds(k)}
<1>1. \A k \in 0..n : L(k) \in [1..k -> Seq(V)]
  OBVIOUS
<1>2. ASSUME NEW k \in 0..n, k + 1 \in 0..n
      PROVE  /\ FlattenSeq(L(k)) \in Seq(V)
             /\ FlattenSeq(L(k + 1)) = FlattenSeq(L(k)) \o lists[k + 1]
  <2>1. k \in Nat /\ k + 1 \in 1..n /\ L(k + 1) \in [1..(k + 1) -> Seq(V)] /\ L(k) \in [1..k -> Seq(V)]
    BY <1>1, <1>2
  <2>2. [i \in 1..k |-> L(k + 1)[i]] = L(k) /\ L(k + 1)[k + 1] = lists[k + 1]
    BY <2>1
  <2> HIDE DEF L
  <2>3. FlattenSeq(L(k)) \in Seq(V)
    BY <2>1, FlattenedPrefix
  <2>4. FlattenSeq(L(k + 1)) = FlattenSeq([i \in 1..k |-> L(k + 1)[i]]) \o L(k + 1)[k + 1]
    BY <2>1, FlattenStep
  <2> QED
    BY <2>2, <2>3, <2>4
<1>3. Holds(m)
  <2>1. m - 1 \in Nat /\ m - 1 \in 0..n /\ (m - 1) + 1 = m /\ m \in 0..n
    OBVIOUS
  <2>2. /\ FlattenSeq(L(m - 1)) \in Seq(V) /\ lists[m] \in Seq(V)
        /\ FlattenSeq(L(m)) = FlattenSeq(L(m - 1)) \o lists[m]
    BY <1>2, <2>1
  <2>3. \A y \in ToSet(FlattenSeq(L(m - 1))) : y \notin P
    <3>1. PICK k, first : k = m - 1 /\ first = L(k)
      OBVIOUS
    <3>2. k \in Nat /\ first \in [1..k -> Seq(V)] /\ \A i \in 1..k : first[i] = lists[i]
      BY <2>1, <3>1
    <3>3. \A y \in ToSet(FlattenSeq(first)) : \E i \in 1..k : y \in ToSet(lists[i])
      BY <3>2, PrefixElements
    <3> HIDE DEF L
    <3> QED
      BY <3>1, <3>3
  <2> HIDE DEF L
  <2> QED
    BY <2>2, <2>3, LeadersJoined
<1>4. ASSUME NEW k \in m..n, k + 1 \in m..n, Holds(k)
      PROVE  Holds(k + 1)
  <2>1. k \in 0..n /\ k + 1 \in 0..n /\ lists[k + 1] \in Seq(V)
    BY <1>4
  <2>2. /\ FlattenSeq(L(k)) \in Seq(V)
        /\ FlattenSeq(L(k + 1)) = FlattenSeq(L(k)) \o lists[k + 1]
    BY <1>2, <2>1
  <2> HIDE DEF L
  <2> QED
    BY <1>4, <2>1, <2>2, LeadersJoined
<1>5. SUFFICES ASSUME Bad # {} PROVE FALSE
  <2>1. L(n) = lists /\ n \in m..n
    OBVIOUS
  <2> SUFFICES ASSUME Bad = {} PROVE Holds(n)
    BY <2>1
  <2> HIDE DEF Holds
  <2> QED
    BY <2>1
<1> HIDE DEF Holds, L
<1>6. PICK k \in Bad : \A j \in Bad : k <= j
  <2>1. Bad \in SUBSET Nat
    OBVIOUS
  <2> HIDE DEF Bad
  <2> QED
    BY <1>5, <2>1, LeastNatural
<1>7. k \in m..n /\ ~Holds(k)
  OBVIOUS
<1>8. k # m
  BY <1>3, <1>7
<1>9. k - 1 \in m..n /\ (k - 1) + 1 = k /\ ~(k <= k - 1)
  BY <1>7, <1>8
<1>10. Holds(k - 1)
  BY <1>6, <1>9
<1>11. Holds((k - 1) + 1)
  BY <1>4, <1>7, <1>9, <1>10
<1> QED
  BY <1>7, <1>9, <1>11

LEMMA SingleLeads ==
  ASSUME NEW x, NEW P, x \in P
  PROVE  Leads(x, <<x>>, P)
  BY DEF Leads

LEMMA KeptLeader ==
  ASSUME NEW V, NEW s \in Seq(V), NEW I, NEW P, NEW m \in DOMAIN s, m \in I, s[m] \in P,
         \A i \in 1..(m - 1) : i \in I => s[i] \notin P
  PROVE  Leads(s[m], Keep(s, I), P)
<1> DEFINE n == Len(s)
           lists == [i \in DOMAIN s |-> IF i \in I THEN <<s[i]>> ELSE <<>>]
<1>1. n \in Nat /\ DOMAIN s = 1..n /\ \A i \in 1..n : s[i] \in V
  BY SeqIs
<1>2. \A i \in 1..n : <<s[i]>> \in Seq(V) /\ ToSet(<<s[i]>>) = {s[i]}
  BY <1>1 DEF ToSet
<1>3. <<>> \in Seq(V) /\ ToSet(<<>>) = {}
  BY DEF ToSet
<1> HIDE DEF n
<1>4. /\ lists \in [1..n -> Seq(V)] /\ lists[m] = <<s[m]>>
      /\ \A i \in 1..n : ToSet(lists[i]) = IF i \in I THEN {s[i]} ELSE {}
  BY <1>1, <1>2, <1>3
<1>5. Keep(s, I) = FlattenSeq(lists)
  BY DEF Keep
<1> HIDE DEF lists
<1>6. m \in 1..n /\ \A i \in 1..(m - 1) : i \in 1..n
  BY <1>1
<1>7. \A i \in 1..(m - 1) : \A y \in ToSet(lists[i]) : y \notin P
  BY <1>4, <1>6
<1>8. Leads(s[m], lists[m], P)
  BY <1>4, SingleLeads
<1>9. Leads(s[m], FlattenSeq(lists), P)
  BY <1>1, <1>4, <1>6, <1>7, <1>8, FlattenLeader
<1> QED
  BY <1>5, <1>9

-----------------------------------------------------------------------------
(* Profiles that compare equal *)

\* Two lists of clauses that are one but for their order and for hidden clauses.
AnswersAlike(s, t) ==
  /\ FirstUnconditional(s) = NoClause <=> FirstUnconditional(t) = NoClause
  /\ FirstUnconditional(s) # NoClause => FirstUnconditional(s) = FirstUnconditional(t)
  /\ FirstUnconditional(s) = NoClause => ToSet(s) = ToSet(t)

LEMMA FirstLeads ==
  ASSUME NEW s \in Seq(Clause), NEW x, Leads(x, s, Decisive)
  PROVE  FirstUnconditional(s) = x
<1> DEFINE found == {i \in DOMAIN s : Unconditional(s[i])}
<1>1. Len(s) \in Nat /\ DOMAIN s = 1..Len(s) /\ \A i \in DOMAIN s : s[i] \in Clause
  BY SeqIs
<1>2. \A i \in DOMAIN s : s[i] \in Decisive <=> Unconditional(s[i])
  BY <1>1 DEF Decisive, Unconditional
<1>3. PICK k \in DOMAIN s : s[k] = x /\ x \in Decisive /\ \A j \in 1..(k - 1) : s[j] \notin Decisive
  BY DEF Leads
<1>4. k \in found /\ found \in SUBSET Nat
  BY <1>1, <1>2, <1>3
<1>5. \A j \in found : k <= j
  <2> SUFFICES ASSUME NEW j \in found, ~(k <= j)
               PROVE  FALSE
    OBVIOUS
  <2>1. j \in 1..(k - 1) /\ s[j] \in Decisive
    BY <1>1, <1>2
  <2> QED
    BY <1>3, <2>1
<1> HIDE DEF found
<1>6. Min(found) = k
  BY <1>4, <1>5, MinIs
<1> QED
  BY <1>3, <1>4, <1>6 DEF FirstUnconditional, found

\* The first of the entries of a name with a clause that decides every call.
FirstDecisive(profile, name, m) ==
  /\ m \in Ruling(profile.entries, Default(profile), name)
  /\ \E c \in ToSet(EntryClauses(profile.entries[m])) : c \in Decisive
  /\ \A i \in 1..(m - 1) : i \in Ruling(profile.entries, Default(profile), name) =>
       \A c \in ToSet(EntryClauses(profile.entries[i])) : c \notin Decisive

\* Lists of clauses with one that decides every call.
Deciders == {s \in Seq(Clause) : \E c \in ToSet(s) : c \in Decisive}

LEMMA DecisiveEntry ==
  ASSUME NEW profile, ProfileOK(profile), NEW name,
         FirstUnconditional(Loads(profile, name)) # NoClause
  PROVE  \E m \in DOMAIN profile.entries : FirstDecisive(profile, name, m)
<1> DEFINE R == Ruling(profile.entries, Default(profile), name)
           T == {i \in R : \E c \in ToSet(EntryClauses(profile.entries[i])) : c \in Decisive}
           s == Loads(profile, name)
<1>1. profile.entries \in Seq(Entry)
  BY DEF ProfileOK
<1>2. s \in Seq(Clause) /\ ToSet(s) = UNION {ToSet(EntryClauses(profile.entries[i])) : i \in R}
  BY <1>1, LoadedAre DEF Loads
<1> HIDE DEF s
<1>3. FirstUnconditional(s) \in Decisive /\ FirstUnconditional(s) \in ToSet(s)
  BY <1>2, FirstIs DEF s
<1>4. R \in SUBSET Nat /\ R \in SUBSET (DOMAIN profile.entries) /\ R \in SUBSET (Nat \ {0})
  BY <1>1, SeqIs DEF Ruling
<1> HIDE DEF R
<1>5. T \in SUBSET Nat /\ T # {}
  BY <1>2, <1>3, <1>4
<1>6. PICK m \in T : \A k \in T : m <= k
  <2> HIDE DEF T
  <2> QED
    BY <1>5, LeastNatural
<1>7. \A i \in 1..(m - 1) : i \notin T
  BY <1>4, <1>6
<1> QED
  BY <1>4, <1>6, <1>7 DEF FirstDecisive, R

\* What is loaded of a name leads with what that entry leads with.
LEMMA DecisiveLeads ==
  ASSUME NEW profile, ProfileOK(profile), NEW name, NEW m \in DOMAIN profile.entries,
         FirstDecisive(profile, name, m),
         NEW x, Leads(x, EntryClauses(profile.entries[m]), Decisive)
  PROVE  FirstUnconditional(Loads(profile, name)) = x
<1> DEFINE entries == profile.entries
           default == Default(profile)
           n == Len(entries)
           rules(i) == name \in entries[i].names /\ ~Skipped(entries[i], default)
           lists == [i \in DOMAIN entries |->
                       IF rules(i) THEN EntryClauses(entries[i]) ELSE <<>>]
           all == FlattenSeq(lists)
<1>1. n \in Nat /\ DOMAIN entries = 1..n /\ \A i \in 1..n : entries[i] \in Entry
  BY SeqIs DEF ProfileOK
<1>2. all = Loads(profile, name)
  BY DEF LoadedClauses, Loads
<1>3. \A i \in 1..n : EntryClauses(entries[i]) \in Seq(Clause)
  BY <1>1, EntryLoads
<1>4. \A i \in 1..n : i \in Ruling(entries, default, name) <=> rules(i)
  BY <1>1 DEF Ruling
<1>5. m \in 1..n /\ rules(m)
  BY <1>1, <1>4 DEF FirstDecisive
<1>6. \A i \in 1..(m - 1) : i \in 1..n
  BY <1>1, <1>5
<1>7. \A i \in 1..(m - 1) : rules(i) => \A c \in ToSet(EntryClauses(entries[i])) : c \notin Decisive
  BY <1>4, <1>6 DEF FirstDecisive
<1> HIDE DEF n, rules
<1>8. /\ lists \in [1..n -> Seq(Clause)] /\ lists[m] = EntryClauses(entries[m])
      /\ \A i \in 1..n : ToSet(lists[i]) = IF rules(i) THEN ToSet(EntryClauses(entries[i])) ELSE {}
  BY <1>1, <1>3, <1>5, EmptyList
<1>9. all \in Seq(Clause)
  BY <1>2, ProfileDecides
<1> HIDE DEF lists
<1>10. \A i \in 1..(m - 1) : \A y \in ToSet(lists[i]) : y \notin Decisive
  BY <1>6, <1>7, <1>8
<1>11. Leads(x, lists[m], Decisive)
  BY <1>8
<1>12. Leads(x, all, Decisive)
  BY <1>1, <1>5, <1>8, <1>10, <1>11, FlattenLeader
<1> HIDE DEF all
<1> QED
  BY <1>2, <1>9, <1>12, FirstLeads

\* The entries that a comparison reads of a name.
LEMMA EntriesRead ==
  ASSUME NEW profile, ProfileOK(profile), NEW name
  PROVE  /\ LoadedEntries(profile, name) \in Seq(Seq(Clause))
         /\ ToSet(Loads(profile, name)) = UNION {ToSet(s) : s \in ToSet(LoadedEntries(profile, name))}
         /\ \A m \in DOMAIN profile.entries : FirstDecisive(profile, name, m) =>
              Leads(EntryClauses(profile.entries[m]), LoadedEntries(profile, name), Deciders)
<1> DEFINE R == Ruling(profile.entries, Default(profile), name)
           E == [i \in DOMAIN profile.entries |-> EntryClauses(profile.entries[i])]
           keys == Keep(E, R)
           first == {i \in DOMAIN keys : \A j \in 1..(i - 1) : keys[j] # keys[i]}
           V == Seq(Clause)
<1>1. profile.entries \in Seq(Entry)
  BY DEF ProfileOK
<1>2. /\ Len(profile.entries) \in Nat /\ DOMAIN profile.entries = 1..Len(profile.entries)
      /\ \A i \in DOMAIN profile.entries : profile.entries[i] \in Entry
  BY <1>1, SeqIs
<1>3. E \in Seq(V) /\ DOMAIN E = DOMAIN profile.entries
  BY <1>2, EntryLoads
<1>4. LoadedEntries(profile, name) = Keep(keys, first) /\ LoadedEntries(profile, name) = DedupeClauses(keys)
  BY DEF LoadedEntries, Ruling, DedupeClauses
<1>5. R \in SUBSET (DOMAIN profile.entries)
  BY DEF Ruling
<1>6. \A i \in DOMAIN profile.entries : E[i] = EntryClauses(profile.entries[i])
  OBVIOUS
<1> HIDE DEF E, R, V
<1>7. keys \in Seq(V) /\ ToSet(keys) = {E[i] : i \in {j \in DOMAIN E : j \in R}}
  BY <1>3, KeepIs
<1> HIDE DEF keys, first
<1>8. LoadedEntries(profile, name) \in Seq(V) /\ ToSet(LoadedEntries(profile, name)) = ToSet(keys)
  BY <1>4, <1>7, DedupeIs
<1>9. ToSet(Loads(profile, name)) = UNION {ToSet(EntryClauses(profile.entries[i])) : i \in R}
  BY <1>1, LoadedAre DEF Loads, R
<1>10. UNION {ToSet(EntryClauses(profile.entries[i])) : i \in R}
         = UNION {ToSet(s) : s \in ToSet(LoadedEntries(profile, name))}
  BY <1>3, <1>5, <1>6, <1>7, <1>8
<1>11. ASSUME NEW m \in DOMAIN profile.entries, FirstDecisive(profile, name, m)
       PROVE  Leads(E[m], Keep(keys, first), Deciders)
  <2>1. m \in DOMAIN E /\ m \in R /\ E[m] \in Deciders
    <3>1. E[m] \in Seq(Clause)
      BY <1>2, <1>6, EntryLoads
    <3> QED
      BY <1>3, <1>6, <1>11, <3>1 DEF FirstDecisive, R, Deciders
  <2>2. \A i \in 1..(m - 1) : i \in R => E[i] \notin Deciders
    <3>1. \A i \in 1..(m - 1) : i \in DOMAIN profile.entries
      BY <1>2
    <3> QED
      BY <1>6, <1>11, <3>1 DEF FirstDecisive, R, Deciders
  <2>3. Leads(E[m], keys, Deciders)
    BY <1>3, <2>1, <2>2, KeptLeader DEF keys
  <2>4. PICK k \in DOMAIN keys : keys[k] = E[m] /\ \A j \in 1..(k - 1) : keys[j] \notin Deciders
    BY <2>3 DEF Leads
  <2>5. k \in first
    BY <2>1, <2>4 DEF first
  <2>6. Leads(keys[k], Keep(keys, first), Deciders)
    BY <1>7, <2>1, <2>4, <2>5, KeptLeader
  <2> QED
    BY <2>4, <2>6
<1> QED
  BY <1>4, <1>6, <1>8, <1>9, <1>10, <1>11 DEF V

\* A syscall whose entries load the same clauses in the same order.
LEMMA SameEntries ==
  ASSUME NEW left, ProfileOK(left), NEW right, ProfileOK(right), NEW name,
         LoadedEntries(left, name) = LoadedEntries(right, name)
  PROVE  AnswersAlike(Loads(left, name), Loads(right, name))
<1> DEFINE s == Loads(left, name)
           t == Loads(right, name)
<1>1. s \in Seq(Clause) /\ t \in Seq(Clause)
  BY ProfileDecides
<1>2. ToSet(s) = ToSet(t)
  BY EntriesRead
<1> HIDE DEF s, t
<1>3. FirstUnconditional(s) = NoClause <=> FirstUnconditional(t) = NoClause
  <2>1. FirstUnconditional(s) # NoClause <=> \E c \in ToSet(s) : c \in Decisive
    BY <1>1, FirstIs, NoClauseIsNone DEF Decisive, Conditional
  <2>2. FirstUnconditional(t) # NoClause <=> \E c \in ToSet(t) : c \in Decisive
    BY <1>1, FirstIs, NoClauseIsNone DEF Decisive, Conditional
  <2> QED
    BY <1>2, <2>1, <2>2
<1>4. ASSUME FirstUnconditional(s) # NoClause
      PROVE  FirstUnconditional(s) = FirstUnconditional(t)
  <2>1. PICK m \in DOMAIN left.entries : FirstDecisive(left, name, m)
    BY <1>4, DecisiveEntry DEF s
  <2>2. PICK k \in DOMAIN right.entries : FirstDecisive(right, name, k)
    BY <1>3, <1>4, DecisiveEntry DEF t
  <2>3. /\ Leads(EntryClauses(left.entries[m]), LoadedEntries(left, name), Deciders)
        /\ Leads(EntryClauses(right.entries[k]), LoadedEntries(left, name), Deciders)
        /\ LoadedEntries(left, name) \in Seq(Seq(Clause))
    BY <2>1, <2>2, EntriesRead
  <2>4. EntryClauses(left.entries[m]) = EntryClauses(right.entries[k])
    BY <2>3, OneLeader
  <2>5. EntryClauses(left.entries[m]) \in Seq(Clause)
    BY <2>3, LeaderWithin
  <2>6. PICK c \in ToSet(EntryClauses(left.entries[m])) : c \in Decisive
    BY <2>1 DEF FirstDecisive
  <2>7. PICK x : Leads(x, EntryClauses(left.entries[m]), Decisive)
    BY <2>5, <2>6, LeaderExists
  <2>8. FirstUnconditional(s) = x
    BY <2>1, <2>7, DecisiveLeads DEF s
  <2>9. FirstUnconditional(t) = x
    BY <2>2, <2>4, <2>7, DecisiveLeads DEF t
  <2> QED
    BY <2>8, <2>9
<1> QED
  BY <1>2, <1>3, <1>4 DEF AnswersAlike, s, t

\* A syscall whose rules are listed alike.
LEMMA SameListed ==
  ASSUME NEW left, ProfileOK(left), NEW right, ProfileOK(right), NEW name \in Name,
         ListedClauses(left, name, {}) = ListedClauses(right, name, {})
  PROVE  AnswersAlike(Loads(left, name), Loads(right, name))
<1>1. ASSUME NEW profile, ProfileOK(profile)
      PROVE  LET s == Loads(profile, name) IN
             /\ s \in Seq(Clause)
             /\ FirstUnconditional(s) # NoClause =>
                  /\ ListedClauses(profile, name, {}) = {FirstUnconditional(s)}
                  /\ FirstUnconditional(s) \in Decisive
             /\ FirstUnconditional(s) = NoClause =>
                  /\ ListedClauses(profile, name, {}) = ToSet(s)
                  /\ \A c \in ToSet(s) : c \notin Decisive
  <2> DEFINE s == Loads(profile, name)
  <2>1. s \in Seq(Clause)
    BY <1>1, ProfileDecides
  <2>2. Loaded(profile)[name] = s
    BY DEF Loaded, Loads
  <2> HIDE DEF s
  <2>3. ListedClauses(profile, name, {}) =
          IF RulesOf(s).unconditional # NoClause THEN {RulesOf(s).unconditional}
          ELSE ToSet(RulesOf(s).conditional)
    BY <2>2 DEF ListedClauses
  <2>4. ASSUME FirstUnconditional(s) # NoClause
        PROVE  /\ ListedClauses(profile, name, {}) = {FirstUnconditional(s)}
               /\ FirstUnconditional(s) \in Decisive
    <3>1. RulesOf(s).unconditional = FirstUnconditional(s)
      BY <2>4 DEF RulesOf, NoRules
    <3> QED
      BY <2>1, <2>3, <2>4, <3>1, FirstIs
  <2>5. ASSUME FirstUnconditional(s) = NoClause
        PROVE  /\ ListedClauses(profile, name, {}) = ToSet(s)
               /\ \A c \in ToSet(s) : c \notin Decisive
    <3>1. RulesOf(s).unconditional = NoClause /\ RulesOf(s).conditional = DedupeClauses(s)
      BY <2>5 DEF RulesOf, NoRules
    <3>2. ToSet(DedupeClauses(s)) = ToSet(s)
      BY <2>1, DedupeIs
    <3>3. NoClause \notin Decisive
      BY NoClauseIsNone DEF Decisive
    <3> QED
      BY <2>1, <2>3, <2>5, <3>1, <3>2, <3>3, FirstIs DEF Decisive, Conditional
  <2> QED
    BY <2>1, <2>4, <2>5 DEF s
<1> DEFINE s == Loads(left, name)
           t == Loads(right, name)
<1>2. /\ FirstUnconditional(s) # NoClause =>
           /\ ListedClauses(left, name, {}) = {FirstUnconditional(s)}
           /\ FirstUnconditional(s) \in Decisive
      /\ FirstUnconditional(s) = NoClause =>
           /\ ListedClauses(left, name, {}) = ToSet(s)
           /\ \A c \in ToSet(s) : c \notin Decisive
  BY <1>1
<1>3. /\ FirstUnconditional(t) # NoClause =>
           /\ ListedClauses(right, name, {}) = {FirstUnconditional(t)}
           /\ FirstUnconditional(t) \in Decisive
      /\ FirstUnconditional(t) = NoClause =>
           /\ ListedClauses(right, name, {}) = ToSet(t)
           /\ \A c \in ToSet(t) : c \notin Decisive
  BY <1>1
<1> HIDE DEF s, t
<1>4. CASE FirstUnconditional(s) = NoClause /\ FirstUnconditional(t) = NoClause
  BY <1>2, <1>3, <1>4 DEF AnswersAlike, s, t
<1>5. CASE FirstUnconditional(s) # NoClause /\ FirstUnconditional(t) # NoClause
  <2>1. {FirstUnconditional(s)} = {FirstUnconditional(t)}
    BY <1>2, <1>3, <1>5
  <2>2. FirstUnconditional(s) = FirstUnconditional(t)
    BY <2>1
  <2> QED
    BY <1>5, <2>2 DEF AnswersAlike, s, t
<1>6. CASE FirstUnconditional(s) # NoClause /\ FirstUnconditional(t) = NoClause
  BY <1>2, <1>3, <1>6
<1>7. CASE FirstUnconditional(s) = NoClause /\ FirstUnconditional(t) # NoClause
  BY <1>2, <1>3, <1>7
<1> QED
  BY <1>4, <1>5, <1>6, <1>7

\* Defaults with one action whose errno is spelled alike in a result.
LEMMA DefaultsAlike ==
  ASSUME NEW left, ProfileOK(left), NEW right, ProfileOK(right),
         Default(left).action = Default(right).action,
         OutputErrno(left.default, left.errno) = OutputErrno(right.default, right.errno)
  PROVE  Default(left) = Default(right)
<1> DEFINE a == left.default
           b == right.default
           d == RuntimeErrno(a, left.errno)
           e == RuntimeErrno(b, right.errno)
<1>1. CanonicalAction(a) = CanonicalAction(b)
  BY DEF Default, Decision
<1>2. a \in Action /\ left.errno \in Int /\ b \in Action /\ right.errno \in Int
  BY DEF ProfileOK
<1>3. d \in Errnos(CanonicalAction(a)) /\ e \in Errnos(CanonicalAction(a))
  BY <1>1, <1>2, ErrnoIs
<1>4. /\ OutputErrno(a, left.errno) = IF d = DefaultErrno THEN Unset ELSE d
      /\ OutputErrno(b, right.errno) = IF e = DefaultErrno THEN Unset ELSE e
  BY DEF OutputErrno
<1>5. Default(left) = [action |-> CanonicalAction(a), errno |-> d, args |-> {}]
  BY DEF Default, Decision
<1>6. Default(right) = [action |-> CanonicalAction(b), errno |-> e, args |-> {}]
  BY DEF Default, Decision
<1> HIDE DEF a, b, d, e
<1>7. d = e
  <2>1. CASE ErrnoSignificant(CanonicalAction(a))
    <3>1. d # Unset /\ e # Unset
      BY <1>3, <2>1, ErrnoModulo DEF Errnos
    <3> QED
      BY <1>4, <3>1 DEF a, b
  <2>2. CASE ~ErrnoSignificant(CanonicalAction(a))
    BY <1>3, <2>2 DEF Errnos
  <2> QED
    BY <2>1, <2>2
<1> QED
  BY <1>1, <1>5, <1>6, <1>7

LEMMA EqualMeans ==
  ASSUME NEW left, NEW right, Equal(left, right)
  PROVE  /\ Default(left).action = Default(right).action
         /\ OutputErrno(left.default, left.errno) = OutputErrno(right.default, right.errno)
         /\ left.architectures \ {native} = right.architectures \ {native}
         /\ \A name \in Name : Loads(left, name) = <<>> <=> Loads(right, name) = <<>>
         /\ \A name \in Name : Loads(left, name) # <<>> =>
              \/ LoadedEntries(left, name) = LoadedEntries(right, name)
              \/ ListedClauses(left, name, {}) = ListedClauses(right, name, {})
<1> DEFINE d == Diff(left, right)
<1>1. /\ d.scalars = {} /\ d.changed = {}
      /\ d.architectures = NothingDiffers /\ d.syscalls = NothingDiffers
  <2> HIDE DEF d
  <2>1. IsEqual(d)
    BY DEF Equal, d
  <2> QED
    BY <2>1 DEF IsEqual
<1>2. /\ ScalarsOf(left).action = ScalarsOf(right).action
      /\ ScalarsOf(left).errno = ScalarsOf(right).errno
  <2>1. d.scalars = {field \in DOMAIN ScalarsOf(left) :
                       ScalarsOf(left)[field] # ScalarsOf(right)[field]}
    BY DEF Diff
  <2>2. "action" \in DOMAIN ScalarsOf(left) /\ "errno" \in DOMAIN ScalarsOf(left)
    BY DEF ScalarsOf
  <2> HIDE DEF d
  <2> QED
    BY <1>1, <2>1, <2>2
<1>3. Added(ListedArchitectures(left), ListedArchitectures(right)) = NothingDiffers
  BY <1>1 DEF Diff
<1>4. Added(LoadedNames(left), LoadedNames(right)) = NothingDiffers
  BY <1>1 DEF Diff
<1>5. ASSUME NEW a, NEW b, Added(a, b) = NothingDiffers
      PROVE  a = b
  <2>1. b \ a = {} /\ a \ b = {}
    BY <1>5 DEF Added, NothingDiffers
  <2> QED
    BY <2>1
<1>6. /\ ListedArchitectures(left) = ListedArchitectures(right)
      /\ LoadedNames(left) = LoadedNames(right)
  BY <1>3, <1>4, <1>5
<1>7. \A profile, name : name \in LoadedNames(profile) <=> name \in Name /\ Loads(profile, name) # <<>>
  BY DEF LoadedNames, Loaded, Loads
<1>8. ASSUME NEW name \in Name, Loads(left, name) # <<>>
      PROVE  \/ LoadedEntries(left, name) = LoadedEntries(right, name)
             \/ ListedClauses(left, name, {}) = ListedClauses(right, name, {})
  <2>1. name \in LoadedNames(left) \cap LoadedNames(right)
    BY <1>6, <1>7, <1>8
  <2>2. name \notin ChangedNames(left, right)
    BY <1>1 DEF Diff
  <2>3. ComparesAlike(left, right, name, SummarizedBy(left), SummarizedBy(right))
    BY <2>1, <2>2 DEF ChangedNames
  <2>4. CASE name \in SummarizedBy(left) \cup SummarizedBy(right)
    BY <2>3, <2>4 DEF ComparesAlike
  <2>5. CASE name \notin SummarizedBy(left) \cup SummarizedBy(right)
    <3>1. ListedClauses(left, name, SummarizedBy(left)) = ListedClauses(right, name, SummarizedBy(right))
      BY <2>3, <2>5 DEF ComparesAlike
    <3>2. \A profile, some : name \notin some =>
            ListedClauses(profile, name, some) = ListedClauses(profile, name, {})
      BY DEF ListedClauses
    <3> QED
      BY <2>5, <3>1, <3>2
  <2> QED
    BY <2>4, <2>5
<1> QED
  BY <1>2, <1>6, <1>7, <1>8 DEF ScalarsOf, ListedArchitectures

\* Profiles that compare equal have one default, and the same rules but for their
\* order and for hidden ones.
LEMMA EqualRules ==
  ASSUME NEW left, ProfileOK(left), NEW right, ProfileOK(right), Equal(left, right)
  PROVE  /\ Default(left) = Default(right)
         /\ \A name \in Name : AnswersAlike(Loads(left, name), Loads(right, name))
<1>1. Default(left) = Default(right)
  BY EqualMeans, DefaultsAlike
<1>2. ASSUME NEW name \in Name
      PROVE  AnswersAlike(Loads(left, name), Loads(right, name))
  <2>1. CASE Loads(left, name) = <<>>
    <3>1. Loads(right, name) = <<>>
      BY <2>1, EqualMeans
    <3> QED
      BY <2>1, <3>1 DEF AnswersAlike
  <2>2. CASE Loads(left, name) # <<>>
    BY <2>2, EqualMeans, SameEntries, SameListed
  <2> QED
    BY <2>1, <2>2
<1> QED
  BY <1>1, <1>2

\* So every order of the rules that answers a call in one has its like in the
\* other.
LEMMA EqualAnswers ==
  ASSUME NEW left, ProfileOK(left), NEW right, ProfileOK(right), Equal(left, right),
         NEW name \in Name, NEW narrow, NEW call
  PROVE  PossibleAnswers(left, name, narrow, call) = PossibleAnswers(right, name, narrow, call)
<1> DEFINE s == Loads(left, name)
           t == Loads(right, name)
<1>1. Loaded(left)[name] = s /\ Loaded(right)[name] = t
  BY DEF Loaded, Loads
<1>2. AnswersAlike(s, t) /\ Default(left) = Default(right)
  BY EqualRules
<1> HIDE DEF s, t
<1>3. CASE FirstUnconditional(s) # NoClause
  <2>1. FirstUnconditional(t) = FirstUnconditional(s)
    BY <1>2, <1>3 DEF AnswersAlike
  <2> QED
    BY <1>1, <1>3, <2>1 DEF PossibleAnswers
<1>4. CASE FirstUnconditional(s) = NoClause
  <2>1. FirstUnconditional(t) = NoClause /\ ToSet(s) = ToSet(t)
    BY <1>2, <1>4 DEF AnswersAlike
  <2> QED
    BY <1>1, <1>2, <1>4, <2>1 DEF PossibleAnswers
<1> QED
  BY <1>3, <1>4

\* Nor does the order matter in one of them only.
LEMMA EqualOrders ==
  ASSUME NEW left, ProfileOK(left), NEW right, ProfileOK(right), Equal(left, right),
         NEW name \in Name, FirstUnconditional(Loaded(left)[name]) = NoClause
  PROVE  OrderDecides(Loaded(left)[name]) <=> OrderDecides(Loaded(right)[name])
<1> DEFINE s == Loads(left, name)
           t == Loads(right, name)
<1>1. Loaded(left)[name] = s /\ Loaded(right)[name] = t
  BY DEF Loaded, Loads
<1>2. AnswersAlike(s, t)
  BY EqualRules
<1> HIDE DEF s, t
<1>3. /\ FirstUnconditional(s) = NoClause /\ FirstUnconditional(t) = NoClause
      /\ ToSet(s) = ToSet(t)
  BY <1>1, <1>2 DEF AnswersAlike
<1> QED
  BY <1>1, <1>3 DEF OrderDecides

LEMMA CoveredAlike ==
  ASSUME NEW left, NEW right, left.architectures \subseteq Architectures,
         right.architectures \subseteq Architectures,
         left.architectures \ {native} = right.architectures \ {native}
  PROVE  Covered(left) = Covered(right)
<1>1. NoArch \notin left.architectures /\ NoArch \notin right.architectures
  BY CallsAssumption
<1> QED
  BY <1>1 DEF Covered

LEMMA AnswersOf == CountsOK /\ SidesInv => EqualUpToOrder
<1> DEFINE left == passed[1]
           right == passed[2]
<1> SUFFICES ASSUME CountsOK, SidesInv, pc = "done", arity = 2, Equal(left, right)
             PROVE  EqualUpToOrder
  BY DEF EqualUpToOrder
<1>1. passed \in Seq(Profiles[2]) /\ Len(passed) = 2 /\ 2 \in Arities /\ folded = 2
  BY DEF CountsOK
<1>2. 1 \in 1..Len(passed) /\ 2 \in 1..Len(passed)
  BY <1>1
<1>3. /\ ProfileOK(left) /\ left.architectures \subseteq Architectures
      /\ ProfileOK(right) /\ right.architectures \subseteq Architectures
  BY <1>1, <1>2 DEF SidesInv, PassedOK
<1>4. Covered(left) = Covered(right)
  BY <1>3, EqualMeans, CoveredAlike
<1>5. \A narrow \in Widths(Covered(left)), name \in Name : \A call \in Calls(narrow) :
        PossibleAnswers(left, name, narrow, call) = PossibleAnswers(right, name, narrow, call)
  BY <1>3, EqualAnswers
<1>6. \A name \in Name :
        FirstUnconditional(Loaded(left)[name]) = NoClause =>
          (OrderDecides(Loaded(left)[name]) <=> OrderDecides(Loaded(right)[name]))
  BY <1>3, EqualOrders
<1> QED
  BY <1>4, <1>5, <1>6 DEF EqualUpToOrder

\* seccomp.Diff compares profiles by what it reads of their rules, past the
\* budget by their entries: whatever the profiles are, two that it calls equal
\* have the same possible answers to every call: which one is given, and whether
\* both load, is up to the order of their rules.
THEOREM EqualIsUpToOrder == Spec => []EqualUpToOrder
<1>1. FieldsInv => CountsOK
  BY DEF FieldsInv
<1> QED
  BY <1>1, Fields, Sides, AnswersOf, PTL

-----------------------------------------------------------------------------
(* Nor does the settling of multiplexed syscalls *)

QuietIn(in) == Mute(in.default) /\ \A name \in MultiplexName : Quiet(ToSet(in.rules[name]))

QuietInputs(inputs) == \A i \in DOMAIN inputs : QuietIn(inputs[i])

LEMMA QuietAny ==
  ASSUME NEW in \in InputType, QuietIn(in), NEW target \in ToSet(Multiplexers)
  PROVE  Quiet(ToSet(AnyCall(in, target)))
<1>1. /\ target \in MultiplexName
      /\ \A name \in ToSet(Carried[target]) : name \in MultiplexName
  BY MultiplexNames
<1>2. Quiet(AnySet(in, target))
  BY <1>1 DEF AnySet, Quiet, QuietIn
<1> QED
  BY <1>2, AnyElements

LEMMA QuietView ==
  ASSUME NEW in \in InputType, QuietIn(in), NEW target \in ToSet(Multiplexers),
         NEW name \in ToSet(Carried[target])
  PROVE  Quiet(ToSet(View(in, target, name)))
<1>1. target \in MultiplexName /\ name \in MultiplexName
  BY MultiplexNames
<1>2. in.rules[target] \in Seq(Clause)
  BY <1>1, InputFields
<1>3. Mute(FirstUnconditional(in.rules[target]))
  BY <1>1, <1>2, FirstIs, NoClauseMute DEF Quiet, QuietIn
<1>4. Quiet(AnySet(in, target))
  BY QuietAny, AnyElements
<1>5. Quiet(ToSet(in.rules[name])) /\ Mute(in.default)
  BY <1>1 DEF QuietIn
<1>6. Quiet(ViewSet(in, target, name))
  BY <1>3, <1>4, <1>5 DEF ViewSet, Quiet
<1> QED
  BY <1>6, ViewElements

LEMMA MuteSafest ==
  ASSUME NEW s \in Seq(Clause), s # <<>>, Quiet(ToSet(s))
  PROVE  Mute(Safest(s)) /\ Safest(s) \in Clause
<1> DEFINE p == IF Intersecting THEN FirstStrictest(s) ELSE FirstLoosest(s)
<1>1. p \in ToSet(s)
  BY StrictestIs, LoosestIs
<1>2. p \in Clause /\ Mute(p)
  BY <1>1, SeqIs DEF Quiet
<1>3. Safest(s) = [p EXCEPT !.args = {}]
  BY DEF Safest, Strictest, Loosest
<1> HIDE DEF p
<1> QED
  BY <1>2, <1>3, MuteUnder, SafestIs, DecisiveIs

LEMMA QuietBounds ==
  ASSUME NEW target \in ToSet(Multiplexers), NEW name \in ToSet(Carried[target]),
         NEW inputs \in Seq(InputType), QuietInputs(inputs)
  PROVE  Bounds(target, name, inputs) \in Seq(Clause) /\ Quiet(ToSet(Bounds(target, name, inputs)))
<1>1. \A i \in DOMAIN inputs : inputs[i] \in InputType /\ QuietIn(inputs[i])
  BY SeqIs DEF QuietInputs
<1>2. \A i \in DOMAIN inputs : Mute(Safest(View(inputs[i], target, name)))
  BY <1>1, ViewIs, QuietView, MuteSafest
<1>3. ToSet(Bounds(target, name, inputs))
        = {Safest(View(inputs[i], target, name)) : i \in DOMAIN inputs}
  BY DEF Bounds, ToSet
<1> QED
  BY <1>2, <1>3, BoundsAre DEF Quiet

LEMMA MutePicked ==
  ASSUME NEW c \in Clause, Mute(c), NEW target \in ToSet(Multiplexers),
         NEW name \in ToSet(Carried[target]), NEW inputs \in Seq(InputType), QuietInputs(inputs)
  PROVE  Mute(PickInputs(c, target, name, inputs))
  BY QuietBounds, QuietMore DEF PickInputs

LEMMA MutePickedAll ==
  ASSUME NEW c \in Clause, Mute(c), NEW target \in ToSet(Multiplexers),
         NEW inputs \in Seq(InputType), QuietInputs(inputs)
  PROVE  Mute(PickAllInputs(c, target, inputs))
<1> DEFINE names == Carried[target]
           n == Len(names)
           lists == [i \in DOMAIN names |-> Bounds(target, names[i], inputs)]
           all == FlattenSeq(lists)
<1>1. names \in Seq(Name)
  BY MultiplexNames
<1>2. n \in Nat /\ DOMAIN names = 1..n /\ \A i \in 1..n : names[i] \in ToSet(names)
  BY <1>1, SeqIs
<1>3. \A i \in 1..n : /\ Bounds(target, names[i], inputs) \in Seq(Clause)
                      /\ Quiet(ToSet(Bounds(target, names[i], inputs)))
  BY <1>2, QuietBounds
<1>4. lists \in [1..n -> Seq(Clause)] /\ \A i \in 1..n : Quiet(ToSet(lists[i]))
  BY <1>2, <1>3
<1>5. PickAllInputs(c, target, inputs) = PickAmong(<<c>> \o all)
  BY DEF PickAllInputs
<1> HIDE DEF lists, n
<1>6. all \in Seq(Clause) /\ ToSet(all) = UNION {ToSet(lists[i]) : i \in 1..n}
  BY <1>2, <1>4, FlattenedElements
<1> HIDE DEF all
<1>7. Quiet(ToSet(all))
  BY <1>4, <1>6 DEF Quiet
<1> QED
  BY <1>5, <1>6, <1>7, QuietMore

LEMMA MutePickedAny ==
  ASSUME NEW c \in Clause, Mute(c), NEW target \in ToSet(Multiplexers),
         NEW inputs \in Seq(InputType), QuietInputs(inputs)
  PROVE  Mute(PickAnyCall(c, target, inputs))
<1> DEFINE bounding == WithConditionalTarget(inputs, target)
           bounds == [i \in DOMAIN bounding |-> Safest(AnyCall(bounding[i], target))]
           some == {i \in DOMAIN inputs :
                      /\ inputs[i].rules[target] # <<>>
                      /\ FirstUnconditional(inputs[i].rules[target]) = NoClause}
<1>1. /\ bounding \in Seq(InputType)
      /\ ToSet(bounding) = {inputs[i] : i \in {j \in DOMAIN inputs : j \in some}}
  BY KeepIs DEF WithConditionalTarget
<1>2. PickAnyCall(c, target, inputs) = PickAmong(<<c>> \o bounds)
  BY DEF PickAnyCall
<1> HIDE DEF bounding, some
<1>3. /\ Len(bounding) \in Nat /\ DOMAIN bounding = 1..Len(bounding)
      /\ \A i \in 1..Len(bounding) : bounding[i] \in InputType /\ bounding[i] \in ToSet(bounding)
  BY <1>1, SeqIs
<1>4. \A i \in 1..Len(bounding) : QuietIn(bounding[i])
  BY <1>1, <1>3 DEF QuietInputs
<1>5. \A i \in 1..Len(bounding) : /\ Safest(AnyCall(bounding[i], target)) \in Clause
                                  /\ Mute(Safest(AnyCall(bounding[i], target)))
  BY <1>3, <1>4, AnyCallIs, QuietAny, MuteSafest
<1>6. bounds \in Seq(Clause) /\ Quiet(ToSet(bounds))
  <2>1. ToSet(bounds) = {Safest(AnyCall(bounding[i], target)) : i \in 1..Len(bounding)}
    BY <1>3 DEF ToSet
  <2> QED
    BY <1>3, <1>5, <2>1 DEF Quiet
<1> HIDE DEF bounds
<1> QED
  BY <1>2, <1>6, QuietMore

LEMMA MuteCollapsedRules ==
  ASSUME NEW in \in InputType, QuietIn(in), NEW name \in MultiplexName
  PROVE  Mute(Collapsed(in, name))
<1> DEFINE own == in.rules[name]
<1>1. own \in Seq(Clause) /\ Quiet(ToSet(own)) /\ Mute(in.default)
  BY InputFields DEF QuietIn
<1>2. \/ Collapsed(in, name) = in.default
      \/ own # <<>> /\ Collapsed(in, name) = Safest(own)
      \/ own # <<>> /\ Collapsed(in, name) = PickClause(Safest(own), in.default)
  BY Zenon DEF Collapsed
<1> HIDE DEF own
<1> QED
  BY <1>1, <1>2, MuteSafest, MutePick

LEMMA QuietReplace ==
  ASSUME NEW default \in Decisive, NEW before, NEW st \in State(before, default),
         QuietIn(st.result), NEW name \in MultiplexName, NEW rule \in Clause, Mute(rule)
  PROVE  QuietIn(Replace(st, name, rule).result)
<1> DEFINE q == Replace(st, name, rule)
           kept == KeptRule(rule, default)
<1>1. /\ q.result.default = default /\ q.result.rules[name] = Holding(kept)
      /\ \A other \in MultiplexName \ {name} : q.result.rules[other] = st.result.rules[other]
      /\ kept \in Decisive \cup {NoClause}
  BY ReplaceRules
<1>2. st.result.default = default
  BY StateFields
<1>3. Mute(kept)
  BY MuteUnder, NoClauseMute DEF KeptRule, Under
<1> HIDE DEF q, kept
<1>4. Quiet(ToSet(Holding(kept)))
  BY <1>1, <1>3, HeldExact DEF Quiet
<1>5. QuietIn(q.result)
  BY <1>1, <1>2, <1>4 DEF QuietIn
<1> QED
  BY <1>5 DEF q

LEMMA QuietMultiplexer ==
  ASSUME NEW default \in Decisive, NEW before \in [MultiplexName -> Seq(Clause)],
         NEW st \in State(before, default), QuietIn(st.result), NEW target \in ToSet(Multiplexers),
         NEW inputs \in Seq(InputType), QuietInputs(inputs)
  PROVE  QuietIn(SettleMultiplexer(st, target, inputs).result)
<1> DEFINE own == Collapsed(st.result, target)
           collapsed == PickAnyCall(own, target, inputs)
           rule == PickAllInputs(collapsed, target, inputs)
<1>1. target \in MultiplexName /\ st.result \in InputType /\ st.result.default = default
      /\ default \in Clause
  BY MultiplexNames, StateFields, DecisiveIs
<1>2. own \in Clause /\ Mute(own)
  BY <1>1, CollapsedBeyond, MuteCollapsedRules
<1> HIDE DEF own
<1>3. collapsed \in Clause /\ Mute(collapsed)
  BY <1>2, PickAnyCallIs, MutePickedAny
<1> HIDE DEF collapsed
<1>4. rule \in Clause /\ Mute(rule)
  BY <1>3, PickAllInputsIs, MutePickedAll
<1> HIDE DEF rule
<1> DEFINE dropped == Replace(st, target, default)
           q == SettleMultiplexer(st, target, inputs)
<1>5. QuietIn(dropped.result) /\ QuietIn(Replace(st, target, rule).result)
  <2>1. Mute(default)
    BY <1>1 DEF QuietIn
  <2> QED
    BY <1>1, <1>4, <2>1, QuietReplace
<1>6. \/ q = st
      \/ q = [Replace(st, target, st.result.default) EXCEPT !.unhidden = @ \cup {target}]
      \/ q = Replace(st, target, rule)
  BY MultiplexerWays DEF rule, collapsed, own
<1>7. [Replace(st, target, default) EXCEPT !.unhidden = @ \cup {target}].result = dropped.result
  BY UnhiddenResult
<1> QED
  BY <1>1, <1>5, <1>6, <1>7

LEMMA QuietSettledSyscall ==
  ASSUME NEW default \in Decisive, NEW before \in [MultiplexName -> Seq(Clause)],
         NEW st \in State(before, default), QuietIn(st.result), NEW target \in ToSet(Multiplexers),
         NEW name \in ToSet(Carried[target]), NEW inputs \in Seq(InputType), QuietInputs(inputs)
  PROVE  QuietIn(SettleMultiplexedSyscall(st, target, name, inputs).result)
<1> DEFINE collapsed == Collapsed(st.result, name)
           picked == PickInputs(collapsed, target, name, inputs)
<1>1. name \in MultiplexName /\ st.result \in InputType
  BY MultiplexNames, StateFields
<1>2. collapsed \in Clause /\ Mute(collapsed)
  BY <1>1, CollapsedBeyond, MuteCollapsedRules
<1> HIDE DEF collapsed
<1>3. picked \in Clause /\ Mute(picked)
  BY <1>2, PickInputsIs, MutePicked
<1> HIDE DEF picked
<1>4. SettleMultiplexedSyscall(st, target, name, inputs)
        \in {st, Replace(st, name, collapsed), Replace(st, name, picked)}
  BY DEF SettleMultiplexedSyscall, collapsed, picked
<1>5. /\ QuietIn(Replace(st, name, collapsed).result)
      /\ QuietIn(Replace(st, name, picked).result)
  BY <1>1, <1>2, <1>3, QuietReplace
<1> QED
  BY <1>4, <1>5

LEMMA QuietTarget ==
  ASSUME NEW default \in Decisive, NEW before \in [MultiplexName -> Seq(Clause)],
         NEW st \in State(before, default), QuietIn(st.result), NEW target \in ToSet(Multiplexers),
         NEW inputs \in Seq(InputType), QuietInputs(inputs)
  PROVE  QuietIn(SettleTarget(st, target, inputs).result)
<1> DEFINE names == Carried[target]
           n == Len(names)
           S == 1..n
           V == State(before, default)
<1>1. n \in Nat /\ \A i \in S : names[i] \in ToSet(names)
  BY MultiplexNames, SeqIs
<1>2. PICK iter \in [SUBSET S -> V] : TargetSteps(iter, st, target, inputs)
  BY TargetUnfolds
<1>3. /\ iter[{}] = SettleMultiplexer(st, target, inputs)
      /\ \A s \in (SUBSET S) \ {{}} :
           iter[s] = SettleMultiplexedSyscall(iter[s \ {Max(s)}], target, names[Max(s)], inputs)
      /\ iter[S] = SettleTarget(st, target, inputs)
  BY <1>2 DEF TargetSteps
<1> DEFINE good == {s \in SUBSET S : QuietIn(iter[s].result)}
<1>4. \A s \in SUBSET S : iter[s] \in State(before, default)
  BY <1>2
<1> HIDE DEF S, V
<1>5. {} \in good
  BY <1>3, QuietMultiplexer
<1>6. ASSUME NEW s \in (SUBSET S) \ {{}}, Max(s) \in s, s \ {Max(s)} \in good
      PROVE  s \in good
  <2> DEFINE u == iter[s \ {Max(s)}]
             name == names[Max(s)]
  <2>1. u \in State(before, default) /\ QuietIn(u.result) /\ name \in ToSet(names)
    BY <1>1, <1>4, <1>6
  <2>2. iter[s] = SettleMultiplexedSyscall(u, target, name, inputs)
    BY <1>3
  <2> HIDE DEF u, name
  <2>3. QuietIn(iter[s].result)
    BY <2>1, <2>2, QuietSettledSyscall
  <2> QED
    BY <2>3
<1>7. S \in good
  <2> HIDE DEF good, n
  <2> QED
    BY <1>1, <1>5, <1>6, NumbersReached DEF S
<1> QED
  BY <1>3, <1>7

LEMMA QuietSettling ==
  ASSUME NEW entries \in Seq(Entry), NEW default \in Decisive, NEW inputs \in Seq(InputType),
         QuietInputs(inputs), QuietIn(MultiplexInput(entries, default))
  PROVE  QuietIn(SettledState(entries, default, inputs).result)
<1> DEFINE before == LoadedBefore(entries, default)
           n == Len(Multiplexers)
           S == 1..n
           V == State(before, default)
           base == [result |-> MultiplexInput(entries, default), replaced |-> <<>>,
                    unhidden |-> {}]
<1>1. n \in Nat /\ \A i \in S : Multiplexers[i] \in ToSet(Multiplexers)
  BY ClausesAssumption, SeqIs
<1>2. PICK iter \in [SUBSET S -> V] : SettlingSteps(iter, entries, default, inputs)
  BY SettlingUnfolds
<1>3. /\ iter[{}] = base
      /\ \A s \in (SUBSET S) \ {{}} :
           iter[s] = SettleTarget(iter[s \ {Max(s)}], Multiplexers[Max(s)], inputs)
      /\ iter[S] = SettledState(entries, default, inputs)
  BY <1>2 DEF SettlingSteps
<1> DEFINE good == {s \in SUBSET S : QuietIn(iter[s].result)}
<1>4. \A s \in SUBSET S : iter[s] \in State(before, default)
  BY <1>2
<1>5. before \in [MultiplexName -> Seq(Clause)]
  BY FirstState
<1>6. base.result = MultiplexInput(entries, default)
  OBVIOUS
<1> HIDE DEF S, V, before, base
<1>7. {} \in good
  BY <1>3, <1>6
<1>8. ASSUME NEW s \in (SUBSET S) \ {{}}, Max(s) \in s, s \ {Max(s)} \in good
      PROVE  s \in good
  <2> DEFINE u == iter[s \ {Max(s)}]
             target == Multiplexers[Max(s)]
  <2>1. u \in State(before, default) /\ QuietIn(u.result) /\ target \in ToSet(Multiplexers)
    BY <1>1, <1>4, <1>8
  <2>2. iter[s] = SettleTarget(u, target, inputs)
    BY <1>3
  <2> HIDE DEF u, target
  <2>3. QuietIn(iter[s].result)
    BY <1>5, <2>1, <2>2, QuietTarget
  <2> QED
    BY <2>3
<1>9. S \in good
  <2> HIDE DEF good, n
  <2> QED
    BY <1>1, <1>7, <1>8, NumbersReached DEF S
<1> QED
  BY <1>3, <1>9

\* The entries that are read back after the settling.
LEMMA QuietReadBack ==
  ASSUME NEW entries \in Seq(Entry), NEW default \in Decisive, Mute(default),
         NEW inputs \in Seq(InputType), NEW name, QuietAt(entries, name),
         \/ name \notin MultiplexName
         \/ QuietInputs(inputs) /\ QuietIn(MultiplexInput(entries, default))
  PROVE  QuietAt(SettleMultiplexed(entries, default, inputs).entries, name)
<1> DEFINE st == SettledState(entries, default, inputs)
           before == LoadedBefore(entries, default)
           F == ReadSettled(entries, default, st).entries
<1>1. SettleMultiplexed(entries, default, inputs) = ReadSettled(entries, default, st)
  BY DEF SettleMultiplexed, SettledState
<1>2. st \in State(before, default)
  BY AllStay
<1>3. name \in MultiplexName => QuietIn(st.result)
  BY QuietSettling
<1> HIDE DEF st, before
<1>4. /\ DOMAIN st.replaced \in SUBSET MultiplexName
      /\ Faithful(st.result.rules, st.replaced, before, default)
  BY <1>2, StateFields
<1>5. \A other \in DOMAIN st.replaced :
        Stands(st.replaced[other], st.result.rules[other], before[other], default)
  BY <1>4 DEF Faithful
<1>6. DOMAIN st.replaced \in SUBSET Name /\ Standing(st.replaced, default)
  BY <1>4, <1>5, MultiplexNames DEF Standing, Stands
<1>7. /\ F \in Seq(Entry)
      /\ \A e : e \in ToSet(F) <=>
           \/ e \in ToSet(entries) /\ e.names \cap DOMAIN st.replaced = {}
           \/ \E other \in DOMAIN st.replaced :
                /\ st.replaced[other] # NoClause
                /\ e = ClauseToSyscall(other, st.replaced[other])
  BY <1>6, ReadEntries
<1> HIDE DEF F
<1>8. ASSUME NEW other \in DOMAIN st.replaced, st.replaced[other] # NoClause, other = name
      PROVE  Mute(st.replaced[other])
  <2> DEFINE kept == st.replaced[other]
  <2>1. st.result.rules[other] = Holding(kept) /\ kept \in Decisive \cup {NoClause}
    BY <1>5 DEF Stands
  <2>2. Quiet(ToSet(st.result.rules[other]))
    BY <1>3, <1>4, <1>8 DEF QuietIn
  <2> HIDE DEF kept
  <2>3. kept \in ToSet(Holding(kept))
    BY <1>8, <2>1, HeldExact DEF kept
  <2>4. Mute(kept)
    BY <2>1, <2>2, <2>3 DEF Quiet
  <2> QED
    BY <2>4 DEF kept
<1>9. ASSUME NEW e \in ToSet(F), name \in e.names PROVE ~Notifying(e)
  <2>1. CASE e \in ToSet(entries)
    BY <1>9, <2>1 DEF QuietAt
  <2>2. CASE e \notin ToSet(entries)
    <3>1. PICK other \in DOMAIN st.replaced :
            /\ st.replaced[other] # NoClause
            /\ e = ClauseToSyscall(other, st.replaced[other])
      BY <1>7, <2>2
    <3>2. e.names = {other} /\ e.action = st.replaced[other].action
      BY <3>1 DEF ClauseToSyscall
    <3>3. other = name
      BY <1>9, <3>2
    <3> QED
      BY <1>8, <3>1, <3>2, <3>3 DEF Mute, Notifying
  <2> QED
    BY <2>1, <2>2
<1> QED
  BY <1>1, <1>9 DEF QuietAt, F

-----------------------------------------------------------------------------
(* The results are valid *)

\* A profile that leaves no call to a listener it does not name, nor ever the
\* one a listener makes itself.
MuteProfile(profile) ==
  /\ profile.default # "NOTIFY"
  /\ \A name \in Name :
       profile.path = NoPath \/ name = NotifyWriteSyscall => QuietAt(profile.entries, name)

LEMMA MuteDefault ==
  ASSUME NEW profile, profile.default # "NOTIFY"
  PROVE  Mute(Default(profile))
<1>1. Default(profile).action = CanonicalAction(profile.default)
  BY DEF Default, Decision
<1> QED
  BY <1>1 DEF CanonicalAction, Mute

LEMMA ValidMute ==
  ASSUME NEW profile, ProfileOK(profile), ValidProfile(profile)
  PROVE  MuteProfile(profile)
<1>1. ASSUME NEW name \in Name, profile.path = NoPath \/ name = NotifyWriteSyscall,
             NEW e \in ToSet(profile.entries), name \in e.names
      PROVE  ~Notifying(e)
  <2>1. PICK i \in DOMAIN profile.entries : profile.entries[i] = e
    BY DEF ToSet
  <2>2. e.action = "NOTIFY" => NotifyWriteSyscall \notin e.names /\ profile.path # NoPath
    BY <2>1 DEF ValidProfile
  <2> QED
    BY <1>1, <2>2 DEF Notifying
<1>2. profile.default # "NOTIFY"
  BY DEF ValidProfile
<1> QED
  BY <1>1, <1>2 DEF MuteProfile, QuietAt

LEMMA MuteValid ==
  ASSUME NEW profile, profile \in Profile, MuteProfile(profile),
         \A e \in ToSet(profile.entries) : e.names # {}
  PROVE  ValidProfile(profile)
<1>1. profile.entries \in Seq(Entry)
  BY DEF Profile
<1>2. ASSUME NEW i \in DOMAIN profile.entries
      PROVE  LET entry == profile.entries[i] IN
             /\ entry.names # {}
             /\ entry.action = "NOTIFY" =>
                  NotifyWriteSyscall \notin entry.names /\ profile.path # NoPath
  <2> DEFINE entry == profile.entries[i]
  <2>1. entry \in ToSet(profile.entries) /\ entry \in Entry
    BY <1>1, SeqIs
  <2> HIDE DEF entry
  <2>2. entry.names # {} /\ entry.names \subseteq Name
    BY <2>1 DEF Entry
  <2>3. ASSUME entry.action = "NOTIFY", NEW name \in entry.names
        PROVE  name # NotifyWriteSyscall /\ profile.path # NoPath
    BY <2>1, <2>2, <2>3 DEF MuteProfile, QuietAt, Notifying
  <2> QED
    BY <2>2, <2>3 DEF entry
<1>3. profile # Nil
  BY CallsAssumption
<1> QED
  BY <1>2, <1>3 DEF ValidProfile, MuteProfile

\* What the settling of multiplexed syscalls reads of a profile without a
\* listener.
LEMMA MuteReading ==
  ASSUME NEW profile, ProfileOK(profile), MuteProfile(profile), profile.path = NoPath
  PROVE  QuietIn(Reading(profile))
<1>1. Mute(Default(profile))
  BY MuteDefault DEF MuteProfile
<1>2. Reading(profile).default = Default(profile)
  BY ReadingIs
<1>3. ASSUME NEW name \in MultiplexName PROVE Quiet(ToSet(Reading(profile).rules[name]))
  <2>1. Reading(profile).rules[name] = Loads(profile, name)
    BY ReadingIs
  <2>2. name \in Name
    BY MultiplexNames
  <2>3. QuietAt(profile.entries, name)
    BY <2>2 DEF MuteProfile
  <2>4. Quiet(ToSet(LoadedClauses(profile.entries, Default(profile), name)))
    BY <2>3, QuietLoaded DEF ProfileOK
  <2> QED
    BY <2>1, <2>4 DEF Loads
<1> QED
  BY <1>1, <1>2, <1>3 DEF QuietIn

LEMMA ArchitecturesMute ==
  ASSUME NEW profile \in Profile, Built(profile), MuteProfile(profile),
         NEW n \in Nat, NEW inputs, DOMAIN inputs = 1..n,
         \A i \in 1..n : /\ ProfileOK(inputs[i]) /\ MuteProfile(inputs[i])
                         /\ profile.path = NoPath => inputs[i].path = NoPath
  PROVE  LET q == SettleArchitectures(profile, inputs) IN q \in Profile /\ MuteProfile(q)
<1> DEFINE q == SettleArchitectures(profile, inputs)
           entries == profile.entries
           default == Default(profile)
           read == Readings(inputs)
           F == SettleMultiplexed(entries, default, read).entries
<1>1. /\ entries \in Seq(Entry) /\ OneNamed(entries) /\ default \in Decisive /\ ProfileOK(profile)
      /\ \A name \in Name : Exact(ToSet(LoadedClauses(entries, default, name)))
  BY ProfileDecides DEF Built, ProfileOK, Loads
<1>2. read \in Seq(InputType)
  BY ReadingsAre
<1>3. Mute(default)
  BY MuteDefault DEF MuteProfile
<1>4. ASSUME profile.path = NoPath
      PROVE  QuietInputs(read) /\ QuietIn(MultiplexInput(entries, default))
  <2>1. QuietIn(Reading(profile))
    BY <1>1, <1>4, MuteReading
  <2>2. \A i \in 1..n : QuietIn(Reading(inputs[i]))
    BY <1>4, MuteReading
  <2>3. QuietInputs(read)
    BY <2>2 DEF QuietInputs, Readings
  <2> QED
    BY <2>1, <2>3 DEF Reading
<1>5. ASSUME NEW name \in Name, profile.path = NoPath \/ name = NotifyWriteSyscall
      PROVE  QuietAt(F, name)
  <2>1. QuietAt(entries, name)
    BY <1>5 DEF MuteProfile
  <2>2. \/ name \notin MultiplexName
        \/ QuietInputs(read) /\ QuietIn(MultiplexInput(entries, default))
    BY <1>4, <1>5, CallsAssumption
  <2> HIDE DEF read, entries, default
  <2> QED
    BY <1>1, <1>2, <1>3, <2>1, <2>2, QuietReadBack
<1>6. F \in Seq(Entry)
  <2> HIDE DEF read, entries, default
  <2> QED
    BY <1>1, <1>2, MultiplexSettled
<1>7. \/ q = profile
      \/ q = Rebuilt(profile, profile.architectures \ MultiplexingArchitectures,
                     profile.entries, profile.flags)
      \/ q = Rebuilt(profile, profile.architectures, F, profile.flags)
  BY DEF SettleArchitectures, NarrowOrSettle, Readings, Reading
<1> HIDE DEF F, q, read
<1>8. /\ profile.default \in Action /\ profile.errno \in Int /\ profile.entries \in Seq(Entry)
      /\ profile.architectures \in SUBSET Architectures /\ profile.flags \in FlagList
      /\ profile.path \in STRING /\ profile.metadata \in STRING
  BY DEF Profile
<1>9. CASE q = profile
  BY <1>9 DEF q
<1>10. CASE q = Rebuilt(profile, profile.architectures \ MultiplexingArchitectures,
                        profile.entries, profile.flags)
  <2>1. q \in Profile
    BY <1>8, <1>10 DEF Rebuilt, Profile
  <2>2. q.default = profile.default /\ q.path = profile.path /\ q.entries = profile.entries
    BY <1>10 DEF Rebuilt
  <2>3. MuteProfile(q)
    BY <2>2 DEF MuteProfile
  <2> QED
    BY <2>1, <2>3 DEF q
<1>11. CASE q = Rebuilt(profile, profile.architectures, F, profile.flags)
  <2>1. q \in Profile
    BY <1>6, <1>8, <1>11 DEF Rebuilt, Profile
  <2>2. q.default = profile.default /\ q.path = profile.path /\ q.entries = F
    BY <1>11 DEF Rebuilt
  <2>3. MuteProfile(q)
    BY <1>5, <2>2 DEF MuteProfile
  <2> QED
    BY <2>1, <2>3 DEF q
<1> QED
  BY <1>7, <1>9, <1>10, <1>11

LEMMA MuteNormalized ==
  ASSUME NEW profile \in Profile, MuteProfile(profile)
  PROVE  Normalized(profile) \in Profile /\ MuteProfile(Normalized(profile))
<1> DEFINE d == Default(profile)
           entries == profile.entries
           p == [default |-> d.action, errno |-> OutputErrno(d.action, d.errno),
                 entries |-> SettledSyscalls(entries, d),
                 architectures |-> profile.architectures, flags |-> profile.flags,
                 path |-> profile.path, metadata |-> profile.metadata]
           inputs == <<profile>>
           rules == SortedRules(SettledRules(entries, d, FALSE))
<1>0. /\ profile.architectures \in SUBSET Architectures /\ profile.flags \in FlagList
      /\ profile.path \in STRING /\ profile.metadata \in STRING /\ ProfileOK(profile)
  BY DEF Profile, ProfileOK
<1>1. d \in Decisive /\ entries \in Seq(Entry) /\ Mute(d)
  BY <1>0, ProfileDecides, MuteDefault DEF ProfileOK, MuteProfile
<1>2. Normalized(profile) = SettleArchitectures(p, inputs)
  BY DEF Normalized
<1>3. DOMAIN inputs = 1..1 /\ \A i \in 1..1 : inputs[i] = profile
  OBVIOUS
<1>4. /\ p.default = d.action /\ p.errno = OutputErrno(d.action, d.errno)
      /\ p.entries = SettledSyscalls(entries, d) /\ p.path = profile.path
      /\ p = [default |-> p.default, errno |-> p.errno, entries |-> p.entries,
              architectures |-> profile.architectures, flags |-> profile.flags,
              path |-> profile.path, metadata |-> profile.metadata]
  OBVIOUS
<1> HIDE DEF p, inputs
<1>5. p.entries = EmittedAll(d, rules)
  BY <1>4 DEF SettledSyscalls
<1>6. \A name \in Name : rules[name] \in RulesType(FALSE) /\ ResultForm(rules[name])
  <2> HIDE DEF d, entries
  <2> QED
    BY <1>1, NormalRules
<1> HIDE DEF rules
<1>7. Built(p)
  <2> HIDE DEF d
  <2> QED
    BY <1>1, <1>4, <1>5, <1>6, WrittenBuilt
<1>8. p \in Profile
  BY <1>0, <1>4, <1>7 DEF Built, ProfileOK, Profile
<1>9. MuteProfile(p)
  <2>1. ASSUME NEW name \in Name, p.path = NoPath \/ name = NotifyWriteSyscall
        PROVE  QuietAt(p.entries, name)
    <3>1. QuietAt(entries, name)
      BY <1>4, <2>1 DEF MuteProfile
    <3> HIDE DEF d, entries
    <3> QED
      BY <1>1, <1>4, <3>1, QuietNormalEntries
  <2>2. p.default # "NOTIFY"
    BY <1>1, <1>4 DEF Mute
  <2> QED
    BY <2>1, <2>2 DEF MuteProfile
<1> DEFINE q == SettleArchitectures(p, inputs)
<1>10. \A i \in 1..1 : /\ ProfileOK(inputs[i]) /\ MuteProfile(inputs[i])
                       /\ p.path = NoPath => inputs[i].path = NoPath
  BY <1>0, <1>3, <1>4
<1>11. q \in Profile /\ MuteProfile(q)
  BY <1>3, <1>7, <1>8, <1>9, <1>10, ArchitecturesMute
<1> QED
  BY <1>2, <1>11

LEMMA FlagsMerged ==
  ASSUME NEW left \in FlagList, NEW right \in FlagList, NEW intersect, NEW fromLeft
  PROVE  MergeFlags(left, right, intersect, fromLeft) \in FlagList
<1> DEFINE kept == KeptFlags(left, right, intersect, fromLeft)
<1>1. kept \subseteq Flag
  BY DEF KeptFlags, Named
<1>2. "SPEC_ALLOW" \in Flag
  BY DEF Flag
<1>3. MergeFlags(left, right, intersect, fromLeft) \in {kept, LeftToRuntime, kept \cup {"SPEC_ALLOW"}}
  BY DEF MergeFlags
<1> HIDE DEF kept
<1> QED
  BY <1>1, <1>2, <1>3 DEF FlagList

LEMMA FlagsWithout ==
  ASSUME NEW flags \in FlagList, NEW path
  PROVE  FlagsForListener(flags, path) \in FlagList
<1>1. CASE flags = LeftToRuntime
  <2>1. LeftToRuntime \ {"TSYNC"} = LeftToRuntime
    BY DEF LeftToRuntime
  <2> QED
    BY <1>1, <2>1 DEF FlagsForListener
<1>2. CASE flags \in SUBSET Flag
  BY <1>2 DEF FlagsForListener, FlagList
<1> QED
  BY <1>1, <1>2 DEF FlagList

LEMMA MuteMerged ==
  ASSUME NEW left \in Profile, NEW right \in Profile, MuteProfile(left), MuteProfile(right)
  PROVE  MergeTwo(left, right) \in Profile /\ MuteProfile(MergeTwo(left, right))
<1> DEFINE d == PickClause(Default(left), Default(right))
           listener == ListenerOf(left, right)
           shared == IF Intersecting THEN left.architectures \cap right.architectures
                     ELSE left.architectures \cup right.architectures
           misread == /\ CoversAny(shared, NarrowArchitectures)
                      /\ LoadsWideValue(left) \/ LoadsWideValue(right)
           drops == misread /\ Intersecting /\ native \notin NarrowArchitectures
           A == IF drops THEN shared \ NarrowArchitectures ELSE shared
           flag == misread /\ ~drops
           flags == MergeFlags(left.flags, right.flags, Intersecting, listener = left)
           inputs == <<left, right>>
           E == MergeProfileSyscalls(Side(left.entries, Default(left)),
                                     Side(right.entries, Default(right)), d, flag)
           p == [default |-> d.action, errno |-> OutputErrno(d.action, d.errno),
                 path |-> listener.path, metadata |-> listener.metadata, flags |-> flags,
                 architectures |-> A, entries |-> E]
           q == SettleArchitectures(p, inputs)
<1>1. MergeTwo(left, right) = q
  BY DEF MergeTwo, Side
<1>2. DOMAIN inputs = 1..2 /\ \A i \in 1..2 : inputs[i] = left \/ inputs[i] = right
  OBVIOUS
<1>3. /\ p.default = d.action /\ p.errno = OutputErrno(d.action, d.errno)
      /\ p.entries = E /\ p.path = listener.path
      /\ p = [default |-> p.default, errno |-> p.errno, entries |-> p.entries,
              architectures |-> A, flags |-> flags,
              path |-> listener.path, metadata |-> listener.metadata]
  OBVIOUS
<1>4. flag \in BOOLEAN
  OBVIOUS
<1>5. /\ left.architectures \in SUBSET Architectures /\ left.flags \in FlagList
      /\ left.path \in STRING /\ left.metadata \in STRING /\ ProfileOK(left)
      /\ right.architectures \in SUBSET Architectures /\ right.flags \in FlagList
      /\ right.path \in STRING /\ right.metadata \in STRING /\ ProfileOK(right)
  BY DEF Profile, ProfileOK
<1>6. A \in SUBSET Architectures
  BY <1>5
<1>7. flags \in FlagList
  BY <1>5, FlagsMerged
<1>8. /\ listener.path \in STRING /\ listener.metadata \in STRING
      /\ listener.path = NoPath => left.path = NoPath /\ right.path = NoPath
  BY <1>5 DEF ListenerOf
<1>9. /\ Default(left) \in Decisive /\ Default(right) \in Decisive
      /\ left.entries \in Seq(Entry) /\ right.entries \in Seq(Entry)
      /\ Mute(Default(left)) /\ Mute(Default(right))
  BY <1>5, ProfileDecides, MuteDefault DEF ProfileOK, MuteProfile
<1> HIDE DEF p, inputs, q, A, flag, flags, listener
<1>10. Built(p)
  BY <1>3, <1>4, <1>5, MergeBuilt
<1>11. p \in Profile
  BY <1>3, <1>6, <1>7, <1>8, <1>10 DEF Built, ProfileOK, Profile
<1>12. MuteProfile(p)
  <2>1. ASSUME NEW name \in Name, p.path = NoPath \/ name = NotifyWriteSyscall
        PROVE  QuietAt(p.entries, name)
    <3>1. QuietAt(left.entries, name) /\ QuietAt(right.entries, name)
      BY <1>3, <1>8, <2>1 DEF MuteProfile
    <3>2. QuietAt(E, name)
      BY <1>4, <1>9, <3>1, QuietMergedEntries
    <3> QED
      BY <1>3, <3>2
  <2>2. Mute(d)
    BY <1>9, MutePick
  <2>3. p.default # "NOTIFY"
    BY <1>3, <2>2 DEF Mute
  <2> QED
    BY <2>1, <2>3 DEF MuteProfile
<1>13. \A i \in 1..2 : /\ ProfileOK(inputs[i]) /\ MuteProfile(inputs[i])
                       /\ p.path = NoPath => inputs[i].path = NoPath
  BY <1>2, <1>3, <1>5, <1>8
<1>14. q \in Profile /\ MuteProfile(q)
  BY <1>2, <1>10, <1>11, <1>12, <1>13, ArchitecturesMute DEF q
<1> QED
  BY <1>1, <1>14

\* Every entry of a profile that a merge builds names a syscall.
AllNamed(entries) == \A e \in ToSet(entries) : e.names # {}

LEMMA QuietRegrouped ==
  ASSUME NEW entries \in Seq(Entry), AllNamed(entries)
  PROVE  /\ Regrouped(entries) \in Seq(Entry) /\ AllNamed(Regrouped(entries))
         /\ \A name \in Name : QuietAt(entries, name) => QuietAt(Regrouped(entries), name)
<1>1. /\ Regrouped(entries) \in Seq(Entry)
      /\ \A e : e \in ToSet(Regrouped(entries)) <=>
           \E i \in FirstEntries(entries) : e = Grouped(entries, entries[i])
  BY RegroupedAre
<1>2. \A i \in FirstEntries(entries) : entries[i] \in Entry /\ entries[i] \in ToSet(entries)
  BY SeqIs DEF FirstEntries
<1>3. ASSUME NEW g \in ToSet(Regrouped(entries))
      PROVE  \E entry \in ToSet(entries) : /\ g.names = NamesOfRule(entries, entry)
                                           /\ g.action = entry.action
  BY <1>1, <1>2, NamesGrouped
<1>4. AllNamed(Regrouped(entries))
  <2>1. ASSUME NEW g \in ToSet(Regrouped(entries)) PROVE g.names # {}
    <3>1. PICK entry \in ToSet(entries) : g.names = NamesOfRule(entries, entry)
      BY <1>3
    <3>2. PICK name : name \in entry.names
      BY DEF AllNamed
    <3>3. name \in NamesOfRule(entries, entry)
      BY <3>2 DEF NamesOfRule, SameRule
    <3> QED
      BY <3>1, <3>3
  <2> QED
    BY <2>1 DEF AllNamed
<1>5. ASSUME NEW name \in Name, QuietAt(entries, name) PROVE QuietAt(Regrouped(entries), name)
  <2>1. ASSUME NEW g \in ToSet(Regrouped(entries)), name \in g.names PROVE ~Notifying(g)
    <3>1. PICK entry \in ToSet(entries) : /\ g.names = NamesOfRule(entries, entry)
                                          /\ g.action = entry.action
      BY <1>3
    <3>2. PICK other \in ToSet(entries) : SameRule(other, entry) /\ name \in other.names
      BY <2>1, <3>1 DEF NamesOfRule
    <3>3. ~Notifying(other) /\ other.action = g.action
      BY <1>5, <3>1, <3>2 DEF QuietAt, SameRule
    <3> QED
      BY <3>3 DEF Notifying
  <2> QED
    BY <2>1 DEF QuietAt
<1> QED
  BY <1>1, <1>4, <1>5

LEMMA RegroupedMute ==
  ASSUME NEW profile \in Profile, MuteProfile(profile), AllNamed(profile.entries), NEW q,
         q = Rebuilt(profile, profile.architectures, Regrouped(profile.entries),
                     FlagsForListener(profile.flags, profile.path))
  PROVE  q \in Profile /\ MuteProfile(q) /\ AllNamed(q.entries)
<1>1. /\ profile.default \in Action /\ profile.errno \in Int /\ profile.entries \in Seq(Entry)
      /\ profile.architectures \in SUBSET Architectures /\ profile.flags \in FlagList
      /\ profile.path \in STRING /\ profile.metadata \in STRING
  BY DEF Profile
<1>2. FlagsForListener(profile.flags, profile.path) \in FlagList
  BY <1>1, FlagsWithout
<1>3. /\ Regrouped(profile.entries) \in Seq(Entry) /\ AllNamed(Regrouped(profile.entries))
      /\ \A name \in Name : QuietAt(profile.entries, name) => QuietAt(Regrouped(profile.entries), name)
  BY <1>1, QuietRegrouped
<1>4. q \in Profile
  BY <1>1, <1>2, <1>3 DEF Rebuilt, Profile
<1>5. /\ q.default = profile.default /\ q.path = profile.path
      /\ q.entries = Regrouped(profile.entries)
  BY DEF Rebuilt
<1>6. MuteProfile(q)
  BY <1>3, <1>5 DEF MuteProfile
<1> QED
  BY <1>3, <1>4, <1>5, <1>6

\* The inductive invariant of valid results: the profiles a call passes are
\* valid, and what is folded from them leaves nothing to a listener it lacks.
PassedValid ==
  pc = "validate" \/ folded > 0 =>
    \A i \in 1..Len(passed) : passed[i] \in Profile /\ MuteProfile(passed[i])

ResultMute ==
  folded > 0 => result \in Profile /\ MuteProfile(result) /\ AllNamed(result.entries)

MuteInv == PassedValid /\ ResultMute /\ error # "notify without a listener"

LEMMA BuiltNamed ==
  ASSUME NEW profile, Built(profile)
  PROVE  AllNamed(profile.entries)
  BY DEF Built, OneNamed, AllNamed

LEMMA MuteMoved ==
  ASSUME MuteInv, UNCHANGED <<passed, error>>, pc = "validate" \/ folded > 0,
         NEW CONSTANT p, result' = p, p \in Profile, MuteProfile(p), AllNamed(p.entries)
  PROVE  MuteInv'
<1>1. \A i \in 1..Len(passed) : passed[i] \in Profile /\ MuteProfile(passed[i])
  BY DEF MuteInv, PassedValid
<1>2. PassedValid'
  BY <1>1 DEF PassedValid
<1>3. ResultMute'
  BY DEF ResultMute
<1> QED
  BY <1>2, <1>3 DEF MuteInv

LEMMA MuteKept ==
  ASSUME MuteInv, UNCHANGED <<passed, folded, result>>, pc # "validate" => pc' # "validate",
         error' # "notify without a listener"
  PROVE  MuteInv'
<1>1. PassedValid'
  BY DEF MuteInv, PassedValid
<1>2. ResultMute'
  BY DEF MuteInv, ResultMute
<1> QED
  BY <1>1, <1>2 DEF MuteInv

LEMMA InitMute == Init => MuteInv
<1> SUFFICES ASSUME Init PROVE MuteInv
  OBVIOUS
<1>1. folded = 0 /\ passed = <<>> /\ error = "none"
  BY DEF Init
<1>2. Len(passed) = 0
  BY <1>1
<1> QED
  BY <1>1, <1>2 DEF MuteInv, PassedValid, ResultMute

LEMMA ValidateMute ==
  ASSUME CountsOK, MuteInv, NEW profile \in Profiles[arity], ValidateNext(profile)
  PROVE  MuteInv'
<1>1. /\ folded = 0 /\ folded' = 0 /\ passed \in Seq(Profiles[arity]) /\ arity \in Arities
      /\ passed' = Append(passed, profile) /\ pc = "validate"
      /\ pc' = "validate" => ValidProfile(profile)
  BY DEF ValidateNext, CountsOK
<1>2. ASSUME pc' = "validate" PROVE profile \in Profile /\ MuteProfile(profile)
  <2>1. ValidProfile(profile) /\ profile # Nil
    BY <1>1, <1>2 DEF ValidProfile
  <2>2. profile \in Profile /\ ProfileOK(profile)
    BY <1>1, <2>1, PassedAre DEF ProfileOK
  <2> QED
    BY <2>1, <2>2, ValidMute
<1>3. ASSUME pc' = "validate", NEW i \in 1..Len(passed')
      PROVE  passed'[i] \in Profile /\ MuteProfile(passed'[i])
  <2>1. CASE i = Len(passed) + 1
    <3>1. passed'[i] = profile
      BY <1>1, <2>1
    <3> QED
      BY <1>2, <1>3, <3>1
  <2>2. CASE i # Len(passed) + 1
    <3>1. i \in 1..Len(passed) /\ passed'[i] = passed[i]
      BY <1>1, <1>3, <2>2
    <3> QED
      BY <1>1, <3>1 DEF MuteInv, PassedValid
  <2> QED
    BY <2>1, <2>2
<1>4. PassedValid'
  BY <1>1, <1>3 DEF PassedValid
<1>5. error' # "notify without a listener"
  BY DEF ValidateNext, MuteInv
<1>6. ResultMute'
  BY <1>1 DEF ResultMute
<1> QED
  BY <1>4, <1>5, <1>6 DEF MuteInv

LEMMA NormalizeMute ==
  ASSUME CountsOK, MuteInv, NormalizeOnly
  PROVE  MuteInv'
<1>1. /\ Len(passed) = 1 /\ pc = "validate" /\ UNCHANGED <<passed, error>>
      /\ result' = Normalized(passed[1])
  BY DEF NormalizeOnly
<1>2. PICK p : p = Normalized(passed[1])
  OBVIOUS
<1>3. passed[1] \in Profile /\ MuteProfile(passed[1])
  <2>1. 1 \in 1..Len(passed)
    BY <1>1
  <2> QED
    BY <1>1, <2>1 DEF MuteInv, PassedValid
<1>4. ProfileOK(passed[1])
  BY <1>3 DEF Profile, ProfileOK
<1>5. p \in Profile /\ MuteProfile(p) /\ Built(p)
  BY <1>2, <1>3, <1>4, MuteNormalized, NormalizedSafe
<1> QED
  BY <1>1, <1>2, <1>5, BuiltNamed, MuteMoved

LEMMA FirstTwoMute ==
  ASSUME CountsOK, MuteInv, FoldFirstTwo
  PROVE  MuteInv'
<1>1. /\ Len(passed) \in Nat /\ Len(passed) > 1 /\ pc = "validate" /\ UNCHANGED <<passed, error>>
      /\ result' = MergeTwo(passed[1], passed[2])
  BY DEF FoldFirstTwo, CountsOK
<1>2. PICK p : p = MergeTwo(passed[1], passed[2])
  OBVIOUS
<1>3. /\ passed[1] \in Profile /\ MuteProfile(passed[1])
      /\ passed[2] \in Profile /\ MuteProfile(passed[2])
  <2>1. 1 \in 1..Len(passed) /\ 2 \in 1..Len(passed)
    BY <1>1
  <2> QED
    BY <1>1, <2>1 DEF MuteInv, PassedValid
<1>4. ProfileOK(passed[1]) /\ ProfileOK(passed[2])
  BY <1>3 DEF Profile, ProfileOK
<1>5. p \in Profile /\ MuteProfile(p) /\ Built(p)
  BY <1>2, <1>3, <1>4, MuteMerged, MergeTwoSafe
<1> QED
  BY <1>1, <1>2, <1>5, BuiltNamed, MuteMoved

LEMMA NextMute ==
  ASSUME CountsOK, MuteInv, FoldNext
  PROVE  MuteInv'
<1>1. /\ Len(passed) = arity /\ arity \in Nat /\ folded \in 1..arity /\ folded < arity
      /\ UNCHANGED <<passed, error>> /\ result' = MergeTwo(result, passed[folded + 1])
  BY DEF FoldNext, CountsOK
<1>2. PICK p : p = MergeTwo(result, passed[folded + 1])
  OBVIOUS
<1>3. /\ passed[folded + 1] \in Profile /\ MuteProfile(passed[folded + 1])
      /\ result \in Profile /\ MuteProfile(result)
  <2>1. folded + 1 \in 1..Len(passed) /\ folded > 0
    BY <1>1
  <2>2. \A i \in 1..Len(passed) : passed[i] \in Profile /\ MuteProfile(passed[i])
    BY <2>1 DEF MuteInv, PassedValid
  <2>3. result \in Profile /\ MuteProfile(result)
    BY <2>1 DEF MuteInv, ResultMute
  <2> QED
    BY <2>1, <2>2, <2>3
<1>4. ProfileOK(result) /\ ProfileOK(passed[folded + 1])
  BY <1>3 DEF Profile, ProfileOK
<1>5. p \in Profile /\ MuteProfile(p) /\ Built(p)
  BY <1>2, <1>3, <1>4, MuteMerged, MergeTwoSafe
<1> QED
  BY <1>1, <1>2, <1>5, BuiltNamed, MuteMoved

LEMMA RegroupMute ==
  ASSUME CountsOK, MuteInv, Regroup
  PROVE  MuteInv'
<1>1. /\ folded > 0 /\ UNCHANGED <<passed, error>>
      /\ result' = Rebuilt(result, result.architectures, Regrouped(result.entries),
                           FlagsForListener(result.flags, result.path))
  BY DEF Regroup, CountsOK
<1>2. PICK p : p = Rebuilt(result, result.architectures, Regrouped(result.entries),
                           FlagsForListener(result.flags, result.path))
  OBVIOUS
<1>3. result \in Profile /\ MuteProfile(result) /\ AllNamed(result.entries)
  BY <1>1 DEF MuteInv, ResultMute
<1>4. p \in Profile /\ MuteProfile(p) /\ AllNamed(p.entries)
  BY <1>2, <1>3, RegroupedMute
<1> QED
  BY <1>1, <1>2, <1>4, MuteMoved

\* No result notifies without a listener.
LEMMA ListenerMute ==
  ASSUME CountsOK, MuteInv, ResolveListener
  PROVE  MuteInv'
<1>1. folded > 0 /\ pc = "listener" /\ UNCHANGED <<passed, folded, result>>
  BY DEF ResolveListener, CountsOK
<1>2. result \in Profile /\ MuteProfile(result) /\ AllNamed(result.entries)
  BY <1>1 DEF MuteInv, ResultMute
<1>3. ASSUME result.path = NoPath, Notifies(result) PROVE FALSE
  <2>1. PICK i \in DOMAIN result.entries : result.entries[i].action = "NOTIFY"
    BY <1>3 DEF Notifies
  <2> DEFINE e == result.entries[i]
  <2>2. e \in ToSet(result.entries) /\ e \in Entry
    BY <1>2, SeqIs DEF Profile
  <2>3. PICK name \in Name : name \in e.names
    BY <1>2, <2>2 DEF AllNamed, Entry
  <2>4. QuietAt(result.entries, name)
    BY <1>2, <1>3 DEF MuteProfile
  <2> QED
    BY <2>1, <2>2, <2>3, <2>4 DEF QuietAt, Notifying
<1>4. pc' = "regroup" /\ error' = error
  BY <1>3 DEF ResolveListener
<1> QED
  BY <1>1, <1>4, MuteKept DEF MuteInv

LEMMA StepMute ==
  ASSUME CountsOK, MuteInv, Next \/ UNCHANGED vars
  PROVE  MuteInv'
<1>1. ASSUME NEW profile \in Profiles[arity], ValidateNext(profile) PROVE MuteInv'
  BY <1>1, ValidateMute
<1>2. CASE RejectEmptyCall
  BY <1>2, MuteKept DEF RejectEmptyCall
<1>3. CASE NormalizeOnly
  BY <1>3, NormalizeMute
<1>4. CASE FoldFirstTwo
  BY <1>4, FirstTwoMute
<1>5. CASE FoldNext
  BY <1>5, NextMute
<1>6. CASE Folded
  BY <1>6, MuteKept DEF Folded, MuteInv
<1>7. CASE ResolveListener
  BY <1>7, ListenerMute
<1>8. CASE Regroup
  BY <1>8, RegroupMute
<1>9. CASE UNCHANGED vars
  BY <1>9, MuteKept DEF vars, MuteInv
<1>10. CASE Returned
  BY <1>9, <1>10 DEF Returned
<1> QED
  BY <1>1, <1>2, <1>3, <1>4, <1>5, <1>6, <1>7, <1>8, <1>9, <1>10 DEF Next

LEMMA MuteIsValid == CountsOK /\ MuteInv => ResultIsValid
<1> SUFFICES ASSUME CountsOK, MuteInv PROVE ResultIsValid
  OBVIOUS
<1>1. pc = "done" => folded > 0
  BY DEF CountsOK
<1>2. ASSUME pc = "done" PROVE ValidProfile(result)
  <2>1. result \in Profile /\ MuteProfile(result) /\ AllNamed(result.entries)
    BY <1>1, <1>2 DEF MuteInv, ResultMute
  <2> QED
    BY <2>1, MuteValid DEF AllNamed
<1> QED
  BY <1>2 DEF ResultIsValid, MuteInv

\* Whatever valid profiles a call passes, its result is valid: no merge of
\* them makes up a notify action where none of the inputs had one, on a
\* profile without a listener or on the syscall a listener makes itself, and
\* the one error that could come of it is never returned (mergeTwo,
\* mergeProfileSyscalls, settleMultiplexed, resolveListener, Validate).
THEOREM ResultsAreValid == Spec => []ResultIsValid
<1>1. FieldsInv => CountsOK
  BY DEF FieldsInv
<1>2. CountsOK /\ MuteInv /\ [Next]_vars => MuteInv'
  BY StepMute
<1> QED
  BY <1>1, <1>2, InitMute, Fields, MuteIsValid, PTL DEF Spec
=============================================================================
