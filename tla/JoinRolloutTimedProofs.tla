------------------------ MODULE JoinRolloutTimedProofs ------------------------
(***************************************************************************)
(* TLAPS proof that the join's two condition waits stay within twice the   *)
(* --timeout flag, for every positive timeout and every MaxEvents.  The    *)
(* budget is not inductive on its own: a step that opens the second watch  *)
(* must know that the first wait spent at most one timeout.  BudgetInv     *)
(* says how much a wait may have spent: nothing before the first watch,    *)
(* at most one timeout before the second, and the open watch's elapsed    *)
(* seconds on top of that.                                                 *)
(***************************************************************************)
EXTENDS JoinRolloutTimed, TLAPS

USE TimedAssumption

\* The seconds spent in the waits that returned before the current one: none
\* for the operator wait, at most one timeout for the klusterlet wait.
Spent == IF target = "klusterlet" THEN Timeout ELSE 0

\* run() has not yet opened the current wait's watch.
BeforeWatch == stage \notin {"waitStream", "write", "done", "failed"}

BudgetInv ==
    /\ waited \in Nat /\ elapsed \in Nat /\ deadline \in 0..Timeout
    /\ elapsed <= deadline
    /\ BeforeWatch => waited <= Spent
    /\ waited <= elapsed + Spent


\* The proofs take the budget for a positive timeout: with --timeout 0 the
\* server chooses the deadline and the budget does not hold (run
\* join_zero_timeout).
PositiveTimeout == Timeout \in Nat \ {0}

THEOREM InitBudget == TInit => BudgetInv
BY DEF TInit, Init, BudgetInv, Spent, BeforeWatch

\* A step that keeps the wait and the clock, and does not move run() back
\* before a watch, keeps the budget.
LEMMA QuietStep ==
    ASSUME BudgetInv, UNCHANGED <<target, timed>>,
           BeforeWatch' => BeforeWatch
    PROVE  BudgetInv'
BY DEF BudgetInv, Spent, BeforeWatch, timed

\* A wait that returns: success moves on to the klusterlet wait, any
\* error fails run() in the same wait.
LEMMA ReturnStep ==
    ASSUME BudgetInv, NEW e, WaitReturn(e), UNCHANGED timed,
           stage = "waitStream"
    PROVE  BudgetInv'
<1>1. CASE e = "none"
    <2>1. /\ target' = "klusterlet" /\ stage' \in {"waitClient", "write"}
          /\ stage' = "waitClient" => target = "operator"
        BY <1>1 DEF WaitReturn
    <2>3. target = "operator" => waited <= Timeout
        BY DEF BudgetInv, Spent, BeforeWatch
    <2>2. QED
        BY <2>1, <2>3 DEF BudgetInv, Spent, BeforeWatch, timed
<1>2. CASE e # "none"
    BY <1>2, QuietStep DEF WaitReturn, BeforeWatch
<1>3. QED
    BY <1>1, <1>2

\* Outside the opening of a watch the clock does not move.
LEMMA StillClock ==
    ASSUME ~(stage = "waitOpen" /\ stage' = "waitStream"), StartClock
    PROVE  UNCHANGED timed
BY DEF StartClock

THEOREM NextBudget ==
    ASSUME PositiveTimeout, BudgetInv, [TNext]_<<vars, timed>>
    PROVE  BudgetInv'
<1>1. CASE (GetClients \/ ApplyDirectly \/ ApplyDeployments
            \/ WaitUntilCRDReady \/ ApplyCustomResources \/ WriteOutput
            \/ WaitClient) /\ StartClock
    <2>1. UNCHANGED target /\ stage # "waitOpen"
          /\ (BeforeWatch' => BeforeWatch)
        BY <1>1 DEF GetClients, ApplyDirectly, ApplyDeployments,
                    WaitUntilCRDReady, ApplyCustomResources, WriteOutput,
                    WaitClient, BeforeWatch
    <2>2. QED
        BY <1>1, <2>1, StillClock, QuietStep
<1>2. CASE OpenWatch /\ StartClock
    <2>1. CASE stage' = "waitStream"
        <3>1. stage = "waitOpen" /\ UNCHANGED target
            BY <1>2, <2>1 DEF OpenWatch, WaitReturn
        <3>2. deadline' = Timeout /\ elapsed' = 0 /\ UNCHANGED waited
            BY <1>2, <3>1, <2>1 DEF StartClock, Deadlines, PositiveTimeout
        <3>3. waited <= Spent
            BY <3>1 DEF BudgetInv, BeforeWatch
        <3>4. QED
            BY <3>1, <3>2, <3>3, <2>1 DEF BudgetInv, Spent, BeforeWatch,
                                         PositiveTimeout
    <2>2. CASE stage' # "waitStream"
        <3>1. WaitReturn("watch") /\ UNCHANGED timed
            BY <1>2, <2>2, StillClock DEF OpenWatch
        <3>2. QED
            BY <3>1, QuietStep DEF WaitReturn, BeforeWatch
    <2>3. QED
        BY <2>1, <2>2
<1>3. CASE Consume /\ StartClock
    <2>1. stage = "waitStream" /\ UNCHANGED timed
        BY <1>3, StillClock DEF Consume
    <2>2. CASE Outcome(NextEvent) = "continue"
        BY <1>3, <2>1, <2>2, QuietStep DEF Consume, BeforeWatch
    <2>3. CASE Outcome(NextEvent) # "continue"
        BY <1>3, <2>1, <2>3, ReturnStep DEF Consume
    <2>4. QED
        BY <2>2, <2>3
<1>4. CASE (Render \/ PodBecomesReady \/ Terminated) /\ StartClock
    <2>1. UNCHANGED <<stage, target>>
        BY <1>4 DEF Render, PodBecomesReady, Terminated, vars
    <2>2. QED
        BY <1>4, <2>1, StillClock, QuietStep DEF BeforeWatch
<1>5. CASE (Emit \/ EndWatch("error")) /\ elapsed < deadline
           /\ UNCHANGED timed
    <2>1. UNCHANGED <<stage, target>>
        BY <1>5 DEF Emit, EndWatch
    <2>2. QED
        BY <1>5, <2>1, QuietStep DEF BeforeWatch, timed
<1>6. CASE EndWatch("closed") /\ elapsed = deadline /\ UNCHANGED timed
    <2>1. UNCHANGED <<stage, target>>
        BY <1>6 DEF EndWatch
    <2>2. QED
        BY <1>6, <2>1, QuietStep DEF BeforeWatch, timed
<1>7. CASE Tick
    BY <1>7 DEF Tick, BudgetInv, Spent, BeforeWatch, vars
<1>8. CASE UNCHANGED <<vars, timed>>
    BY <1>8, QuietStep DEF vars, timed, BeforeWatch
<1>9. QED
    BY <1>1, <1>2, <1>3, <1>4, <1>5, <1>6, <1>7, <1>8 DEF TNext, RunStep

LEMMA BudgetSafe == PositiveTimeout /\ BudgetInv => WaitsWithinBudget
BY DEF BudgetInv, Spent, WaitsWithinBudget, PositiveTimeout

\* For every positive --timeout and every MaxEvents, the join spends at most
\* twice the timeout blocked in its two condition waits
\* (waitUntilRegistrationOperatorConditionIsTrue and
\* waitUntilKlusterletConditionIsTrue, each one watch with TimeoutSeconds
\* set to the flag).
THEOREM WaitsWithinBudgetHolds ==
    ASSUME PositiveTimeout
    PROVE  TSpec => []WaitsWithinBudget
<1>1. BudgetInv /\ [TNext]_<<vars, timed>> => BudgetInv'
    BY NextBudget
<1>2. BudgetInv => WaitsWithinBudget
    BY BudgetSafe
<1>3. QED
    BY InitBudget, <1>1, <1>2, PTL DEF TSpec


\* The watch clock only restricts the join: every behaviour of
\* JoinRolloutTimed, with the clock hidden, is a behaviour of JoinRollout's
\* safety part, so what is proved of Init /\ [][Next]_vars holds of it too.
THEOREM TimedRefinesRollout == TSpec => Init /\ [][Next]_vars
<1>1. TInit => Init
    BY DEF TInit
<1>2. [TNext]_<<vars, timed>> => [Next]_vars
    BY DEF TNext, Tick, Next, vars
<1>3. QED
    BY <1>1, <1>2, PTL DEF TSpec

=============================================================================
