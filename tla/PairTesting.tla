---------------------------- MODULE PairTesting -----------------------------
(***************************************************************************)
(* What RunPairwise promises its caller, without pods or goroutines: round *)
(* by round, every pair collects outcomes until its first PASS or until    *)
(* maxAttempts of them, and nothing else ever happens to its results.      *)
(* Only a cancelled context lets a round end earlier.                      *)
(***************************************************************************)
EXTENDS Integers, Sequences

CONSTANTS Tasks, MaxAttempts

VARIABLES
  schedule,   \* the rounds, made once from the caller's job map
  round, results, cancelled

vars == <<schedule, round, results, cancelled>>

Outcomes == {"PASS", "FAIL", "ERROR"}

Passed(t) == results[t] # <<>> /\ results[t][Len(results[t])] = "PASS"
Settled(t) == Passed(t) \/ Len(results[t]) = MaxAttempts

Init ==
  /\ schedule \in Seq(SUBSET Tasks)
  /\ round = 1
  /\ results = [t \in Tasks |-> <<>>]
  /\ cancelled = FALSE

Report(t) ==
  /\ round <= Len(schedule) /\ t \in schedule[round]
  /\ ~Settled(t)
  /\ \E o \in Outcomes : results' = [results EXCEPT ![t] = Append(@, o)]
  /\ UNCHANGED <<schedule, round, cancelled>>

EndRound ==
  /\ round <= Len(schedule)
  /\ cancelled \/ \A t \in schedule[round] : Settled(t)
  /\ round' = round + 1
  /\ UNCHANGED <<schedule, results, cancelled>>

Cancel ==
  /\ ~cancelled
  /\ cancelled' = TRUE
  /\ UNCHANGED <<schedule, round, results>>

Next == (\E t \in Tasks : Report(t)) \/ EndRound \/ Cancel

(* A pair is tested as long as nobody cancels, and no round lasts forever. *)
Fairness ==
  /\ WF_vars(EndRound)
  /\ \A t \in Tasks : WF_vars(~cancelled /\ Report(t))

SafeSpec == Init /\ [][Next]_vars
Spec == SafeSpec /\ Fairness

=============================================================================
