----------------------------- MODULE SliceWaves -----------------------------
(***************************************************************************)
(* How phase planning numbers the slices of a remediation plan, the wave   *)
(* it gives each, and the order in which phase next dispatches the plans.  *)
(* Each state is one remediation plan and what is made of it.              *)
(***************************************************************************)
EXTENDS Integers, FiniteSets, Sequences, Relation

CONSTANTS
  N,          \* the slices are 1 .. N, in the order of the remediation plan
  Priorities, \* the priorities that occur
  Cycle       \* the outcome of a dependency cycle

VARIABLES priority, needs, numbered, waves

vars == <<priority, needs, numbered, waves>>

Slices == 1 .. N

\* A slice the remediation plan does not contain.
Elsewhere == N + 1

WaveByPriority == [p \in {"high", "medium", "low"} |->
                     CASE p = "high" -> 1 [] p = "medium" -> 2 [] p = "low" -> 3]

\* ordered_slices: by priority, and in the given order within one.
Ordered(pri) ==
  LET before(s) == {t \in Slices : \/ WaveByPriority[pri[t]] < WaveByPriority[pri[s]]
                                   \/ pri[t] = pri[s] /\ t < s}
  IN  [k \in Slices |-> CHOOSE s \in Slices : Cardinality(before(s)) = k - 1]

Latest(numbers) == CHOOSE n \in numbers : \A m \in numbers : m <= n

\* Mutant: a dependent may share the wave of what it needs.
ResolveShared(pri, deps) ==
  LET wave[s \in Slices, visiting \in SUBSET Slices] ==
        LET inner == {wave[d, visiting \cup {s}] : d \in deps[s] \cap Slices}
        IN  IF s \in visiting \/ Cycle \in inner THEN Cycle
            ELSE Latest({WaveByPriority[pri[s]]} \cup inner)
  IN  wave

\* resolve: the wave of a slice, while those of the slices that are visited are
\* being resolved. What was resolved is kept, which changes no wave.
Resolve(pri, deps) ==
  LET wave[s \in Slices, visiting \in SUBSET Slices] ==
        LET inner == {wave[d, visiting \cup {s}] : d \in deps[s] \cap Slices}
        IN  IF s \in visiting \/ Cycle \in inner THEN Cycle
            ELSE Latest({WaveByPriority[pri[s]]} \cup {w + 1 : w \in inner})
  IN  wave

\* wave_by_slice
Waves(pri, deps) ==
  LET waveOf == [s \in Slices |-> Resolve(pri, deps)[s, {}]]
  IN  IF \E s \in Slices : waveOf[s] = Cycle THEN Cycle ELSE waveOf

-----------------------------------------------------------------------------
Init ==
  /\ priority \in [Slices -> Priorities]
  /\ needs \in [Slices -> SUBSET (Slices \cup {Elsewhere})]
  /\ numbered = <<>>
  /\ waves = Cycle

Plan ==
  /\ numbered = <<>>
  /\ numbered' = Ordered(priority)
  /\ waves' = Waves(priority, needs)
  /\ UNCHANGED <<priority, needs>>

Spec == Init /\ [][Plan]_vars

-----------------------------------------------------------------------------
Planned == numbered # <<>>

Needs == [s, t \in Slices |-> t \in needs[s]]

(* Planning fails exactly when some slice needs itself in the end, and        *)
(* otherwise the wave of a slice is the lowest that its priority and the      *)
(* waves of what it needs allow.                                              *)
WavesAreLeast ==
  Planned =>
    /\ waves = Cycle <=> \E s \in Slices : TransitiveClosure(Needs, Slices)[s, s]
    /\ waves # Cycle =>
         \A s \in Slices :
           LET floor == {WaveByPriority[priority[s]]}
                        \cup {waves[t] + 1 : t \in needs[s] \cap Slices}
           IN  waves[s] \in floor /\ \A w \in floor : w <= waves[s]
=============================================================================
