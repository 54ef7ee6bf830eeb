--------------------------- MODULE TimeoutBudgets ---------------------------
(***************************************************************************)
(* From the timings of earlier refreshes to the budgets of the phases of   *)
(* the next one.  Times are whole seconds.                                 *)
(***************************************************************************)
EXTENDS Integers, Sequences, FiniteSets

CONSTANTS
  Options,       \* [gate, explicit, execute, overlay, focus, ambiguous]
  Works,         \* phase -> seconds that a refresh needs
  MaxSeconds,
  SampleLimit, ActivationSamples,
  None

Phases == {"inspect", "run", "verify"}

ASSUME SampleAssumption ==
  /\ SampleLimit \in 1 .. 19 /\ ActivationSamples \in 1 .. SampleLimit
  /\ MaxSeconds \in Nat /\ Works \subseteq [Phases -> 0 .. MaxSeconds]
  /\ \A o \in Options : o.gate \in Nat

ASSUME NoneAssumption == None \notin [Phases \cup {"total"} -> Nat]

UpBy(seconds, percent) == (seconds * percent + 99) \div 100

Larger(x, y) == IF x > y THEN x ELSE y

Floor(phase, gate) == IF phase = "verify" THEN Larger(60, gate) ELSE 30

TotalOf(phaseBudget) ==
  Larger(180, UpBy(phaseBudget["inspect"] + phaseBudget["run"] + phaseBudget["verify"], 115))

WithTotal(phaseBudget) ==
  [p \in Phases \cup {"total"} |-> IF p = "total" THEN TotalOf(phaseBudget) ELSE phaseBudget[p]]

CandidateTimeouts(work, gate) ==
  WithTotal([p \in Phases |-> Larger(Floor(p, gate), 2 * work[p])])

\* ceil(0.95 n)
Rank(n) == UpBy(n, 95)

\* The value of that rank among those of the samples.
Percentile(samples, p) ==
  CHOOSE v \in {samples[i].work[p] : i \in DOMAIN samples} :
    /\ Cardinality({i \in DOMAIN samples : samples[i].work[p] < v}) < Rank(Len(samples))
    /\ Cardinality({i \in DOMAIN samples : samples[i].work[p] <= v}) >= Rank(Len(samples))

\* Mutant: the newest sample decides.
ActiveTimeoutsOfNewest(samples, gate) ==
  WithTotal([p \in Phases |-> Larger(Floor(p, gate), UpBy(samples[Len(samples)].work[p], 150))])

ActiveTimeouts(samples, gate) ==
  WithTotal([p \in Phases |-> Larger(Floor(p, gate), UpBy(Percentile(samples, p), 150))])

\* default_workflow_timeout_seconds
Fixed(gate) == Larger(3 * gate, gate + 60)

\* _minimum_verify_timeout
AtLeastGate(learned, gate) ==
  [learned EXCEPT !["verify"] = Larger(@, gate), !["total"] = Larger(@, gate)]

\* resolve_refresh_timeout_contract. Without an active baseline nothing caps
\* the refresh as a whole.
Contract(o, adaptive) ==
  LET budgeted == Phases \cup DOMAIN o.explicit \cup (IF adaptive = None THEN {} ELSE {"total"})
  IN  [p \in budgeted |-> IF p \in DOMAIN o.explicit THEN o.explicit[p]
                          ELSE IF adaptive # None THEN adaptive[p]
                          ELSE Fixed(o.gate)]

TimesOut(work, contract) ==
  \/ \E p \in Phases : work[p] > contract[p]
  \/ "total" \in DOMAIN contract
       /\ work["inspect"] + work["run"] + work["verify"] > contract["total"]
=============================================================================
