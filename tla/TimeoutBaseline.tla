--------------------------- MODULE TimeoutBaseline ---------------------------
(***************************************************************************)
(* What refreshes of one repository learn about how long they take. A      *)
(* refresh resolves its budgets from the cached baseline, works, and if it *)
(* was complete and in time adds its timings to the baseline: it reads the *)
(* file, and later writes it, with no lock.                                *)
(***************************************************************************)
EXTENDS TimeoutBudgets

CONSTANTS
  Processes,
  Repositories,  \* what a repository may look like: [static, plan, validated]
  MaxRefreshes   \* bound on the refreshes of a behaviour

VARIABLES
  repo,
  cache,     \* the baseline: [identity, state, samples, learned], or None
  refresh,   \* process -> its refresh
  started,   \* refreshes so far
  whole      \* those that ended in time and were complete: [id, work]

vars == <<repo, cache, refresh, started, whole>>

-----------------------------------------------------------------------------
\* resolve_timeout_context: the learned budgets if they may be used, or None.
\* `left` is the gate plan left by an earlier refresh of the same name.
Adaptive(o, left) ==
  IF /\ ~o.overlay
     /\ repo.validated
     /\ cache # None
     /\ cache.identity.static = repo.static
     /\ left \in {None, cache.identity.plan}
     /\ cache.state = "active"
  THEN AtLeastGate(cache.learned, o.gate) ELSE None

-----------------------------------------------------------------------------
Identity == [static |-> repo.static, plan |-> repo.plan]

\* _sample_ineligibility_reason, of a refresh that was in time and complete
Eligible(o) ==
  /\ o.execute
  /\ ~o.overlay /\ ~o.focus /\ ~o.ambiguous
  /\ repo.validated

\* Mutant: the samples are kept whatever they were taken of.
KeptSamplesOfAny(read, identity) == IF read # None THEN read.samples ELSE <<>>

KeptSamples(read, identity) ==
  IF read # None /\ read.identity = identity THEN read.samples ELSE <<>>

LastOf(s, n) == IF Len(s) <= n THEN s ELSE SubSeq(s, Len(s) - n + 1, Len(s))

Baseline(r) ==
  LET sample  == [id |-> r.id, work |-> r.work, identity |-> r.identity]
      samples == LastOf(Append(KeptSamples(r.read, r.identity), sample), SampleLimit)
      active  == Len(samples) >= ActivationSamples
  IN  [identity |-> r.identity, samples |-> samples,
       state    |-> IF active THEN "active" ELSE "candidate",
       learned  |-> IF active THEN ActiveTimeouts(samples, r.gate)
                    ELSE CandidateTimeouts(r.work, r.gate)]

-----------------------------------------------------------------------------
Idle == [pc |-> "idle"]

Init ==
  /\ repo \in Repositories
  /\ cache = None
  /\ refresh = [p \in Processes |-> Idle]
  /\ started = 0
  /\ whole = {}

Start(p) ==
  /\ refresh[p].pc = "idle" /\ started < MaxRefreshes
  /\ started' = started + 1
  /\ \E o \in Options, left \in {None} \cup {r.plan : r \in Repositories} :
       refresh' = [refresh EXCEPT ![p] = [pc |-> "working", id |-> started', options |-> o,
                                          contract |-> Contract(o, Adaptive(o, left))]]
  /\ UNCHANGED <<repo, cache, whole>>

\* A refresh that times out records nothing.
TimeOut(p) ==
  /\ refresh[p].pc = "working"
  /\ \E w \in Works : TimesOut(w, refresh[p].contract)
  /\ refresh' = [refresh EXCEPT ![p] = Idle]
  /\ UNCHANGED <<repo, cache, started, whole>>

\* One in time is complete or not; record_timeout_sample then looks at the
\* repository as it is now, and reads the baseline.
Finish(p) ==
  LET r == refresh[p]
  IN  /\ r.pc = "working"
      /\ \E w \in Works, complete \in BOOLEAN :
           /\ ~TimesOut(w, r.contract)
           /\ IF complete /\ Eligible(r.options)
              THEN refresh' = [refresh EXCEPT ![p] =
                                 [pc |-> "recording", id |-> r.id, gate |-> r.options.gate,
                                  work |-> w, identity |-> Identity, read |-> cache]]
              ELSE refresh' = [refresh EXCEPT ![p] = Idle]
           /\ whole' = IF complete /\ r.options.execute /\ ~r.options.focus
                       THEN whole \cup {[id |-> r.id, work |-> w]} ELSE whole
      /\ UNCHANGED <<repo, cache, started>>

Record(p) ==
  /\ refresh[p].pc = "recording"
  /\ cache' = Baseline(refresh[p])
  /\ refresh' = [refresh EXCEPT ![p] = Idle]
  /\ UNCHANGED <<repo, started, whole>>

\* A process may end at any time; inside the write it leaves a file that is no
\* JSON, which counts as none.
Die(p) ==
  /\ refresh[p].pc # "idle"
  /\ \/ UNCHANGED cache
     \/ refresh[p].pc = "recording" /\ cache' = None
  /\ refresh' = [refresh EXCEPT ![p] = Idle]
  /\ UNCHANGED <<repo, started, whole>>

ChangeRepository ==
  /\ repo' \in Repositories
  /\ UNCHANGED <<cache, refresh, started, whole>>

Next ==
  \/ \E p \in Processes : Start(p) \/ TimeOut(p) \/ Finish(p) \/ Record(p) \/ Die(p)
  \/ ChangeRepository

Spec == Init /\ [][Next]_vars

-----------------------------------------------------------------------------
(* However the refreshes overlap, and whatever the gate timeout is raised   *)
(* to later: what an active baseline was learned from fits into the budgets *)
(* it gives, each phase and all together, so that a refresh that does no    *)
(* more than one of the kept samples did is not ended by its own baseline.  *)
KeptSamplesFit ==
  (cache # None /\ cache.state = "active") =>
    \A i \in DOMAIN cache.samples, o \in Options :
      o.explicit = <<>> =>
        ~TimesOut(cache.samples[i].work, Contract(o, AtLeastGate(cache.learned, o.gate)))

(* A baseline becomes active only by different refreshes, enough of them,   *)
(* that all ended in time, ran every gate on the whole repository, and      *)
(* found what the baseline is the baseline of. A refresh may be lost when   *)
(* two end together, but is never counted twice.                            *)
LearnedFromComparable ==
  cache # None =>
    /\ \A i, j \in DOMAIN cache.samples : cache.samples[i].id = cache.samples[j].id => i = j
    /\ \A i \in DOMAIN cache.samples :
         /\ [id |-> cache.samples[i].id, work |-> cache.samples[i].work] \in whole
         /\ cache.samples[i].identity = cache.identity
    /\ cache.state = "active" => Len(cache.samples) >= ActivationSamples

(* What an active baseline gives is what comparable refreshes took, and     *)
(* enough for each of them.                                                 *)
SamplesAreSound == LearnedFromComparable /\ KeptSamplesFit
=============================================================================
