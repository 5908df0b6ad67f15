---------------------------- MODULE JudgeRequest ----------------------------
(***************************************************************************)
(* What the backend asks of the runner: the test cases a request is for    *)
(* and its limits (backend/app/services/public.py, prepare_* and           *)
(* _limits_for; backend/app/services/admin.py, the preview runs), and what *)
(* the runner's payload model accepts of it (runner/app/main.py).          *)
(***************************************************************************)
EXTENDS Integers, FiniteSets, Sequences

CONSTANTS TestCases,   \* the test cases of the problem, in their order
          Enabled,     \* those that are enabled
          Public,      \* those that are public
          MaxCases,    \* max_test_cases
          Modes,       \* the modes of the requests
          TimeLimits   \* the time_limit_ms a problem may have

\* The bounds of the schema, and of the runner's payload model on the wall clock.
MinTime == 100
MaxTime == 30000
MinWall == 500
MaxWall == 60000

ASSUME RequestAssumption ==
    /\ TestCases \subseteq Nat \ {0} /\ IsFiniteSet(TestCases)
    /\ Enabled \subseteq TestCases /\ Public \subseteq TestCases
    /\ MaxCases \in Nat
    /\ Modes \subseteq {"sample", "custom", "all", "verify"}
    /\ TimeLimits \subseteq MinTime..MaxTime

Custom == 0   \* the case of a custom run, the only one without an expected output

\* The cases of S in their order.
Sorted(S) == CHOOSE f \in [1..Cardinality(S) -> S] :
                \A i, j \in DOMAIN f : i < j => f[i] < f[j]

\* Mutant of Samples: the first enabled cases.
SamplesUnfiltered == Sorted(Enabled)

Samples == Sorted(Enabled \cap Public)

\* The requests the backend turns down before it calls the runner: a sample
\* that does not exist, no case at all, more cases than it may send.
TurnedDown(mode, i) ==
    CASE mode = "sample" -> i \notin DOMAIN Samples
      [] mode = "custom" -> FALSE
      [] OTHER -> Enabled = {} \/ Cardinality(Enabled) > MaxCases

\* The cases of the payload; i is the index of the sample.
CasesOf(mode, i) ==
    CASE mode = "sample" -> <<Samples[i]>>
      [] mode = "custom" -> <<Custom>>
      [] OTHER -> Sorted(Enabled)

\* Mutant of WallTime: the factor of the wall clock is four.
WallTimeWider(ms) == IF 4 * ms > 5000 THEN 4 * ms ELSE 5000

WallTime(ms) == IF 3 * ms > 5000 THEN 3 * ms ELSE 5000

\* LimitsPayload; 422 if not.
LimitsValid(ms) == ms \in MinTime..MaxTime /\ WallTime(ms) \in MinWall..MaxWall

\* The modes in which the runner answers with the contents of the cases.
Reveals(mode) == mode \in {"sample", "custom", "verify"}
=============================================================================
