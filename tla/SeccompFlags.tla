---------------------------- MODULE SeccompFlags ----------------------------
(***************************************************************************)
(* The filter flags of a profile (seccomp/flags.go): a set of flags, or    *)
(* LeftToRuntime where the profile has no list and the runtime sets        *)
(* SPEC_ALLOW on its own.                                                  *)
(***************************************************************************)

Flag == {"SPEC_ALLOW", "LOG", "TSYNC", "WAIT_KILLABLE_RECV"}

LeftToRuntime == {"left to the runtime"}

FlagList == (SUBSET Flag) \cup {LeftToRuntime}

Polarity == [SPEC_ALLOW |-> "permissive", LOG |-> "hardening", TSYNC |-> "hardening",
             WAIT_KILLABLE_RECV |-> "listener"]

\* The flags a list names, and those a runtime sets for it.
Named(flags) == flags \cap Flag
LoadedFlags(flags) == IF flags = LeftToRuntime THEN {"SPEC_ALLOW"} ELSE flags

\* Fault: the listener's flag is kept when any input sets it.
KeepFlagOfAny(flag, left, right, intersect, listenerFromLeft) ==
  IF (Polarity[flag] = "permissive") = intersect
  THEN flag \in left /\ flag \in right
  ELSE flag \in left \/ flag \in right

\* A flag that loosens survives an intersection, and one that hardens a union,
\* when every input sets it; the listener's comes with the listener.
KeepFlag(flag, left, right, intersect, listenerFromLeft) ==
  IF Polarity[flag] = "listener" THEN flag \in (IF listenerFromLeft THEN left ELSE right)
  ELSE IF (Polarity[flag] = "permissive") = intersect
  THEN flag \in left /\ flag \in right
  ELSE flag \in left \/ flag \in right

Off(flags) == flags # LeftToRuntime /\ "SPEC_ALLOW" \notin flags

SpecAllowLeftToRuntime(left, right, intersect) ==
  IF intersect THEN ~Off(left) /\ ~Off(right)
  ELSE left = LeftToRuntime \/ right = LeftToRuntime

\* The flags either side names that the merge keeps.
KeptFlags(left, right, intersect, listenerFromLeft) ==
  {flag \in Named(left) \cup Named(right) :
     KeepFlag(flag, left, right, intersect, listenerFromLeft)}

\* Fault: what an input leaves to the runtime is left to it again, whatever
\* the others set.
MergeFlagsNil(left, right, intersect, listenerFromLeft) ==
  IF SpecAllowLeftToRuntime(left, right, intersect) THEN LeftToRuntime
  ELSE KeptFlags(left, right, intersect, listenerFromLeft)

MergeFlags(left, right, intersect, listenerFromLeft) ==
  LET kept == KeptFlags(left, right, intersect, listenerFromLeft)
  IN IF "SPEC_ALLOW" \in kept \/ ~SpecAllowLeftToRuntime(left, right, intersect) THEN kept
     ELSE IF kept = {} THEN LeftToRuntime
     ELSE kept \cup {"SPEC_ALLOW"}

NoPath == "no listener"

\* The kernel refuses TSYNC beside a listener.
FlagsForListener(flags, path) ==
  IF path = NoPath THEN flags ELSE flags \ {"TSYNC"}
=============================================================================
