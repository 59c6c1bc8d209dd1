--------------------------- MODULE LandlockLayers ---------------------------
(***************************************************************************)
(* What merging Landlock profiles promises, said without rules, paths that *)
(* cover each other, or handled sets: every input is a layer that answers  *)
(* which accesses it permits, the merge combines the answers one layer at  *)
(* a time, and settling may then drop refer from an intersection, or stop  *)
(* denying a right anywhere in a union, and nothing else.                  *)
(***************************************************************************)
EXTENDS Naturals, Sequences

CONSTANTS Path, FSRight, Refer, Port, NetRight, ScopeRight, Strategy

VARIABLES
  phase,    \* reading, combining, settled or refused
  layers,   \* the answers of the inputs read so far
  merged,   \* how many of them the answer stands for
  answer    \* what the merge permits, once merged > 0

vars == <<phase, layers, merged, answer>>

Answer == [fs : SUBSET (Path \X FSRight), net : SUBSET (Port \X NetRight),
           scope : SUBSET ScopeRight]

Combine(a, b) ==
  IF Strategy = "intersect"
  THEN [fs |-> a.fs \cap b.fs, net |-> a.net \cap b.net, scope |-> a.scope \cap b.scope]
  ELSE [fs |-> a.fs \cup b.fs, net |-> a.net \cup b.net, scope |-> a.scope \cup b.scope]

Init ==
  /\ phase = "reading"
  /\ layers = <<>>
  /\ merged = 0
  /\ answer \in Answer

ReadLayer ==
  /\ phase = "reading"
  /\ layers' \in Seq(Answer)
  /\ Len(layers') = Len(layers) + 1
  /\ \A i \in DOMAIN layers : layers'[i] = layers[i]
  /\ UNCHANGED <<phase, merged, answer>>

\* An unusable input, or none at all, refuses the whole merge.
Refuse ==
  /\ phase = "reading"
  /\ phase' = "refused"
  /\ UNCHANGED <<layers, merged, answer>>

CombineNext ==
  /\ phase \in {"reading", "combining"}
  /\ merged < Len(layers)
  /\ phase' = "combining"
  /\ merged' = merged + 1
  /\ answer' = IF merged = 0 THEN layers[1]
               ELSE Combine(answer, layers[merged + 1])
  /\ UNCHANGED layers

\* An intersection may be left with fewer grants of refer; a union may permit
\* a right other than refer on every path.
SettledFrom(before, after) ==
  /\ after.net = before.net /\ after.scope = before.scope
  /\ IF Strategy = "intersect"
     THEN /\ after.fs \subseteq before.fs
          /\ before.fs \ after.fs \subseteq Path \X {Refer}
     ELSE \E freed \in SUBSET (FSRight \ {Refer}) :
            after.fs = before.fs \cup (Path \X freed)

Settle ==
  /\ phase = "combining"
  /\ merged = Len(layers)
  /\ phase' = "settled"
  /\ answer' \in Answer
  /\ SettledFrom(answer, answer')
  /\ UNCHANGED <<layers, merged>>

Next == ReadLayer \/ Refuse \/ CombineNext \/ Settle

Spec == Init /\ [][Next]_vars
=============================================================================
