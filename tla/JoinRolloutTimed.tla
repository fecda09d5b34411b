--------------------------- MODULE JoinRolloutTimed ---------------------------
(***************************************************************************)
(* JoinRollout composed with the API server's watch clock.  run() passes   *)
(* int64(o.ClusteradmFlags.Timeout) to both waits, and each wait sends it  *)
(* unchanged as TimeoutSeconds of its pod watch.  The server starts the    *)
(* deadline when it opens the watch, and closes the watch when the         *)
(* deadline passes, not before.  TimeoutSeconds 0 does not bound the watch *)
(* to zero seconds: the API server then picks its own deadline, any        *)
(* duration up to MaxServerDeadline here.  Time is counted in seconds, and *)
(* only while run() is blocked in WatchUntil on an open watch.             *)
(***************************************************************************)
EXTENDS JoinRollout

CONSTANTS
    Timeout,           \* the --timeout flag, in seconds
    MaxServerDeadline  \* bound on the deadline the server picks for 0

ASSUME TimedAssumption ==
    /\ Timeout \in Nat
    /\ MaxServerDeadline \in Nat \ {0}

VARIABLES
    deadline, \* the seconds the server gives the current watch
    elapsed,  \* the seconds since the server opened the current watch
    waited    \* the seconds run() has spent blocked in its waits

timed == <<deadline, elapsed, waited>>

\* The deadlines the server may give a watch opened with TimeoutSeconds =
\* Timeout.
Deadlines == IF Timeout = 0 THEN 1..MaxServerDeadline ELSE {Timeout}

TInit ==
    /\ Init
    /\ deadline = 0 /\ elapsed = 0 /\ waited = 0

\* A step of run() or of the spinner: the Watch call of OpenWatch starts a
\* new deadline, and every other step leaves the clock alone.
StartClock ==
    IF stage = "waitOpen" /\ stage' = "waitStream"
       THEN deadline' \in Deadlines /\ elapsed' = 0 /\ UNCHANGED waited
       ELSE UNCHANGED timed

\* One second passes while WatchUntil blocks on the open watch.
Tick ==
    /\ stage = "waitStream" /\ ~Ended(stream)
    /\ elapsed < deadline
    /\ elapsed' = elapsed + 1 /\ waited' = waited + 1
    /\ UNCHANGED <<vars, deadline>>

\* The server sends events and errors before the deadline, and closes the
\* watch when the deadline has passed.
TNext ==
    \/ (RunStep \/ Render \/ PodBecomesReady \/ Terminated) /\ StartClock
    \/ (Emit \/ EndWatch("error")) /\ elapsed < deadline /\ UNCHANGED timed
    \/ EndWatch("closed") /\ elapsed = deadline /\ UNCHANGED timed
    \/ Tick

TSpec == TInit /\ [][TNext]_<<vars, timed>>

-----------------------------------------------------------------------------
(* Properties *)

\* The time the join spends in its condition waits stays within twice the
\* --timeout flag, the worst case spec section 4.4 states for the two
\* sequential waits that each get the full timeout (run() calls each wait
\* once, and each wait sends the flag as its watch's TimeoutSeconds).
WaitsWithinBudget == waited <= 2 * Timeout

=============================================================================
