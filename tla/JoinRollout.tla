----------------------------- MODULE JoinRollout -----------------------------
(***************************************************************************)
(* The readiness orchestration of `clusteradm join`: Options.run() applies *)
(* the klusterlet manifests, waits for the klusterlet CRD, applies the     *)
(* klusterlet CR and then, when --wait is set and this is not a dry run,   *)
(* calls the two condition waits in sequence:                              *)
(* waitUntilRegistrationOperatorConditionIsTrue and                        *)
(* waitUntilKlusterletConditionIsTrue.  Each wait builds a client, resets  *)
(* its phase, starts a spinner that renders the phase, and runs            *)
(* helpers.WatchUntil over a pod watch with a server-side timeout; the     *)
(* predicate skips non-pod objects, stores the pod's status in the phase   *)
(* and is satisfied by a Ready pod.  The deferred Stop ends the spinner on *)
(* every return.                                                           *)
(*                                                                         *)
(* The API server and the cluster are the environment: pods become Ready   *)
(* once their manifests are applied, and a watch delivers pod events,      *)
(* other objects, an error, or the close at its TimeoutSeconds deadline.   *)
(* The deadline itself is not counted in seconds: the server closes the    *)
(* watch at some point, and always eventually.                             *)
(***************************************************************************)
EXTENDS Naturals, Sequences

CONSTANTS
    MaxEvents   \* bound on the events one watch delivers before it ends

ASSUME MaxEventsAssumption == MaxEvents \in Nat \ {0}

VARIABLES
    o,            \* [wait, dryRun]: the --wait and --dry-run flags
    stage,        \* where run() and the current wait are
    target,       \* which of the two waits is current
    applied,      \* manifest groups the applier has created on the cluster
    output,       \* the rendered resources run() collects for --output-file
    outputWritten,\* apply.WriteOutput returned
    err,          \* the error run() returned
    podReady,     \* per target: its pod reports condition Ready
    stream,       \* the events the current watch has sent, in order
    read,         \* how many of them WatchUntil has consumed
    streamOpen,   \* WatchUntil holds the watch
    spinner,      \* the current wait's spinner goroutine runs
    phase,        \* the wait's atomic.Value phase
    shown         \* the status the spinner last rendered

vars == <<o, stage, target, applied, output, outputWritten, err, podReady,
          stream, read, streamOpen, spinner, phase, shown>>

Targets == {"operator", "klusterlet"}

\* The manifest groups of the three applier calls.
Groups == {"direct", "deployments", "cr"}

\* What a watch event is to the predicate: a pod that is or is not Ready, an
\* object that is not a pod, and the two ways the result channel ends.
PodEvents == {"notready", "ready"}
Events == PodEvents \cup {"other", "error", "closed"}

\* The status a fresh phase holds before the predicate stores one: the empty
\* string of phase.Store("").
NoStatus == "nostatus"

Stages == {"clients", "direct", "deployments", "crd", "cr", "waitClient",
           "waitOpen", "waitStream", "write", "done", "failed"}

WaitStages == {"waitClient", "waitOpen", "waitStream"}

Errors == {"none", "apply", "client", "watch", "stream", "timeout", "write"}

\* The watch has delivered its last event.
Ended(s) == Len(s) > 0 /\ s[Len(s)] \in {"error", "closed"}

\* A target's pod can become Ready only once its manifests are on the
\* cluster: the operator Deployment, resp. the Klusterlet CR it reconciles.
Deployed(t) ==
    IF t = "operator" THEN "deployments" \in applied ELSE "cr" \in applied

\* An applier call with dryRun renders without creating anything; a failed
\* call may have created part of its files before it returned the error.
Apply(g, next) ==
    \/ /\ stage' = next
       /\ output' = Append(output, g)
       /\ applied' = IF o.dryRun THEN applied ELSE applied \cup {g}
       /\ UNCHANGED err
    \/ /\ stage' = "failed" /\ err' = "apply"
       /\ applied' \in {applied, IF o.dryRun THEN applied ELSE applied \cup {g}}
       /\ UNCHANGED output

Init ==
    /\ o \in [wait: BOOLEAN, dryRun: BOOLEAN]
    /\ stage = "clients"
    /\ target = "operator"
    /\ applied = {}
    /\ output = << >>
    /\ outputWritten = FALSE
    /\ err = "none"
    /\ podReady = [t \in Targets |-> FALSE]
    /\ stream = << >>
    /\ read = 0
    /\ streamOpen = FALSE
    /\ spinner = FALSE
    /\ phase = NoStatus
    /\ shown = NoStatus

-----------------------------------------------------------------------------
(* run() *)

\* helpers.GetClients.
GetClients ==
    /\ stage = "clients"
    /\ \/ stage' = "direct" /\ UNCHANGED err
       \/ stage' = "failed" /\ err' = "client"
    /\ UNCHANGED <<o, target, applied, output, outputWritten, podReady, stream,
                   read, streamOpen, spinner, phase, shown>>

\* applier.ApplyDirectly of the namespaces, bootstrap secret, RBAC, CRD and
\* service account.
ApplyDirectly ==
    /\ stage = "direct"
    /\ Apply("direct", "deployments")
    /\ UNCHANGED <<o, target, outputWritten, podReady, stream, read,
                   streamOpen, spinner, phase, shown>>

\* applier.ApplyDeployments of the registration operator; the CRD wait is
\* skipped in a dry run.
ApplyDeployments ==
    /\ stage = "deployments"
    /\ Apply("deployments", IF o.dryRun THEN "cr" ELSE "crd")
    /\ UNCHANGED <<o, target, outputWritten, podReady, stream, read,
                   streamOpen, spinner, phase, shown>>

\* wait.WaitUntilCRDReady for the klusterlets CRD.
WaitUntilCRDReady ==
    /\ stage = "crd"
    /\ \/ stage' = "cr" /\ UNCHANGED err
       \/ stage' = "failed" /\ err' = "client"
    /\ UNCHANGED <<o, target, applied, output, outputWritten, podReady, stream,
                   read, streamOpen, spinner, phase, shown>>

\* The guard of both waits: o.wait && !o.ClusteradmFlags.DryRun.
WaitRequested == o.wait /\ ~o.dryRun

\* applier.ApplyCustomResources of the Klusterlet CR, then the first wait.
ApplyCustomResources ==
    /\ stage = "cr"
    /\ Apply("cr", IF WaitRequested THEN "waitClient" ELSE "write")
    /\ UNCHANGED <<o, target, outputWritten, podReady, stream, read,
                   streamOpen, spinner, phase, shown>>

\* Print the accept hint and apply.WriteOutput.
WriteOutput ==
    /\ stage = "write"
    /\ \/ stage' = "done" /\ outputWritten' = TRUE /\ UNCHANGED err
       \/ stage' = "failed" /\ err' = "write" /\ UNCHANGED outputWritten
    /\ UNCHANGED <<o, target, applied, output, podReady, stream, read,
                   streamOpen, spinner, phase, shown>>

-----------------------------------------------------------------------------
(* The two waits and helpers.WatchUntil *)

\* Mutant: one phase shared by both waits, so the second spinner starts on
\* the first wait's last status.
WaitClientSharedPhase ==
    /\ stage = "waitClient"
    /\ \/ /\ stage' = "waitOpen" /\ spinner' = TRUE
          /\ UNCHANGED <<err, phase, shown>>
       \/ /\ stage' = "failed" /\ err' = "client"
          /\ UNCHANGED <<phase, spinner, shown>>
    /\ UNCHANGED <<o, target, applied, output, outputWritten, podReady, stream,
                   read, streamOpen>>

\* The wait builds its client: ToRESTConfig and kubernetes.NewForConfig for
\* the operator, KubernetesClientSet for the klusterlet.  On success it
\* stores the empty status in a fresh phase and starts a fresh spinner.
WaitClient ==
    /\ stage = "waitClient"
    /\ \/ /\ stage' = "waitOpen"
          /\ phase' = NoStatus /\ spinner' = TRUE /\ shown' = NoStatus
          /\ UNCHANGED err
       \/ /\ stage' = "failed" /\ err' = "client"
          /\ UNCHANGED <<phase, spinner, shown>>
    /\ UNCHANGED <<o, target, applied, output, outputWritten, podReady, stream,
                   read, streamOpen>>

\* Mutant: the spinner is not stopped when the wait returns an error.
WaitReturnKeepSpinner(e) ==
    /\ streamOpen' = FALSE
    /\ spinner' = (e # "none")
    /\ IF e = "none"
          THEN /\ stage' = IF target = "operator" /\ WaitRequested
                              THEN "waitClient" ELSE "write"
               /\ target' = "klusterlet"
               /\ UNCHANGED err
          ELSE stage' = "failed" /\ err' = e /\ UNCHANGED target

\* Mutant: run() goes on to the klusterlet wait whatever the first returned.
WaitReturnAlwaysAdvance(e) ==
    /\ streamOpen' = FALSE
    /\ spinner' = FALSE
    /\ target' = "klusterlet"
    /\ IF e = "none"
          THEN /\ stage' = IF target = "operator" /\ WaitRequested
                              THEN "waitClient" ELSE "write"
               /\ UNCHANGED err
          ELSE stage' = "failed" /\ err' = e

\* Mutant: a wait that timed out is retried with a fresh watch.
WaitReturnRetryTimeout(e) ==
    /\ streamOpen' = FALSE
    /\ spinner' = FALSE
    /\ CASE e = "none" ->
              /\ stage' = IF target = "operator" /\ WaitRequested
                             THEN "waitClient" ELSE "write"
              /\ target' = "klusterlet"
              /\ UNCHANGED err
         [] e = "timeout" -> stage' = "waitClient" /\ UNCHANGED <<err, target>>
         [] OTHER -> stage' = "failed" /\ err' = e /\ UNCHANGED target

\* The return of a wait: WatchUntil has released the watch and the deferred
\* Stop ends the spinner; run() goes on to the next wait or returns e.
WaitReturn(e) ==
    /\ streamOpen' = FALSE
    /\ spinner' = FALSE
    /\ IF e = "none"
          THEN /\ stage' = IF target = "operator" /\ WaitRequested
                              THEN "waitClient" ELSE "write"
               /\ target' = "klusterlet"
               /\ UNCHANGED err
          ELSE stage' = "failed" /\ err' = e /\ UNCHANGED target

\* Mutant: the second wait resumes at the read position of the first watch.
OpenWatchKeepPosition ==
    /\ stage = "waitOpen"
    /\ \/ /\ stage' = "waitStream" /\ streamOpen' = TRUE
          /\ stream' = << >>
          /\ UNCHANGED <<err, target, spinner, read>>
       \/ WaitReturn("watch") /\ UNCHANGED <<stream, read>>
    /\ UNCHANGED <<o, applied, output, outputWritten, podReady, phase, shown>>

\* WatchUntil opens the watch (TimeoutSeconds = the flag, the target's label
\* selector); a failed Watch call returns its error.
OpenWatch ==
    /\ stage = "waitOpen"
    /\ \/ /\ stage' = "waitStream" /\ streamOpen' = TRUE
          /\ stream' = << >> /\ read' = 0
          /\ UNCHANGED <<err, target, spinner>>
       \/ WaitReturn("watch") /\ UNCHANGED <<stream, read>>
    /\ UNCHANGED <<o, applied, output, outputWritten, podReady, phase, shown>>

\* Mutant: the end of the watch is noticed before the events queued ahead
\* of it (a select that prefers the done channel).
NextEventCloseFirst ==
    IF Ended(stream) THEN stream[Len(stream)] ELSE stream[read + 1]

\* The next event WatchUntil takes from the result channel: the channel
\* delivers in order.
NextEvent == stream[read + 1]

\* Mutant: the predicate satisfied by any pod event, Ready or not.
SatisfiedAnyPod(ev) == ev \in PodEvents

\* The predicate: a non-pod object is skipped, a pod satisfies it when its
\* Ready condition is true (meta.IsStatusConditionTrue(conds, "Ready")).
Satisfied(ev) == ev = "ready"

\* Mutant: a closed result channel read as one more skipped event.
OutcomeClosedSkipped(ev) ==
    CASE ev \in PodEvents -> IF Satisfied(ev) THEN "none" ELSE "continue"
      [] ev = "other"     -> "continue"
      [] ev = "error"     -> "stream"
      [] ev = "closed"    -> "continue"

\* What WatchUntil does with an event: the predicate decides pod events, an
\* error event is returned, and a closed channel is a timeout.
Outcome(ev) ==
    CASE ev \in PodEvents -> IF Satisfied(ev) THEN "none" ELSE "continue"
      [] ev = "other"     -> "continue"
      [] ev = "error"     -> "stream"
      [] ev = "closed"    -> "timeout"

\* WatchUntil consumes one event; a pod event first stores the pod's status
\* in the phase (printer.GetSpinnerPodStatus).
Consume ==
    /\ stage = "waitStream"
    /\ read < Len(stream)
    /\ read' = read + 1
    /\ phase' = IF NextEvent \in PodEvents THEN NextEvent ELSE phase
    /\ IF Outcome(NextEvent) = "continue"
          THEN UNCHANGED <<stage, target, err, streamOpen, spinner>>
          ELSE WaitReturn(Outcome(NextEvent))
    /\ UNCHANGED <<o, applied, output, outputWritten, podReady, stream, shown>>

\* The spinner goroutine renders phase.Load() every 500ms.
Render ==
    /\ spinner
    /\ shown # phase
    /\ shown' = phase
    /\ UNCHANGED <<o, stage, target, applied, output, outputWritten, err,
                   podReady, stream, read, streamOpen, spinner, phase>>

-----------------------------------------------------------------------------
(* The cluster and the API server *)

\* A pod whose manifests are applied becomes Ready.
PodBecomesReady ==
    /\ \E t \in Targets :
          /\ Deployed(t) /\ ~podReady[t]
          /\ podReady' = [podReady EXCEPT ![t] = TRUE]
    /\ UNCHANGED <<o, stage, target, applied, output, outputWritten, err,
                   stream, read, streamOpen, spinner, phase, shown>>

\* The open watch sends the target pod's current state, or an object that
\* is not a pod.
Emit ==
    /\ stage = "waitStream"
    /\ ~Ended(stream) /\ Len(stream) < MaxEvents
    /\ \E ev \in {IF podReady[target] THEN "ready" ELSE "notready", "other"} :
          stream' = Append(stream, ev)
    /\ UNCHANGED <<o, stage, target, applied, output, outputWritten, err,
                   podReady, read, streamOpen, spinner, phase, shown>>

\* The watch fails, or the server closes it at its TimeoutSeconds deadline.
EndWatch(ev) ==
    /\ stage = "waitStream"
    /\ ~Ended(stream)
    /\ stream' = Append(stream, ev)
    /\ UNCHANGED <<o, stage, target, applied, output, outputWritten, err,
                   podReady, read, streamOpen, spinner, phase, shown>>

\* run() has returned.
Terminated ==
    /\ stage \in {"done", "failed"}
    /\ UNCHANGED vars

RunStep ==
    \/ GetClients \/ ApplyDirectly \/ ApplyDeployments \/ WaitUntilCRDReady
    \/ ApplyCustomResources \/ WriteOutput
    \/ WaitClient \/ OpenWatch \/ Consume

Next ==
    \/ RunStep
    \/ Render
    \/ PodBecomesReady
    \/ Emit
    \/ EndWatch("error")
    \/ EndWatch("closed")
    \/ Terminated

\* run() is one goroutine that keeps running while it is not blocked, and the
\* API server closes every watch at its deadline.
Fairness ==
    /\ WF_vars(RunStep)
    /\ WF_vars(EndWatch("closed"))

Spec == Init /\ [][Next]_vars /\ Fairness

-----------------------------------------------------------------------------
(* Properties *)

TypeOK ==
    /\ o \in [wait: BOOLEAN, dryRun: BOOLEAN]
    /\ stage \in Stages
    /\ target \in Targets
    /\ applied \subseteq Groups
    /\ output \in Seq(Groups)
    /\ outputWritten \in BOOLEAN
    /\ err \in Errors
    /\ podReady \in [Targets -> BOOLEAN]
    /\ stream \in Seq(Events)
    /\ read \in 0..Len(stream)
    /\ streamOpen \in BOOLEAN
    /\ spinner \in BOOLEAN
    /\ phase \in {NoStatus} \cup PodEvents
    /\ shown \in {NoStatus} \cup PodEvents

\* With --wait and no dry run, a join that returned success saw both the
\* registration operator pod and the klusterlet agent pod Ready, and the
\* second wait began only once the operator pod was Ready (the predicate
\* passed to WatchUntil and the sequencing of the two waits in run()).
ReadinessObserved ==
    /\ stage = "done" /\ WaitRequested => \A t \in Targets : podReady[t]
    /\ stage \in WaitStages /\ target = "klusterlet" => podReady["operator"]

\* A wait that returned the timeout error never had a Ready pod event sent on
\* its watch: WatchUntil drains the events the server sent before it closed
\* the watch, so a Ready pod just before the deadline is still a success.
TimeoutMeansNeverReady ==
    err = "timeout" => \A i \in 1..Len(stream) : stream[i] # "ready"

\* The spinner runs and the watch is held only inside a wait, and both are
\* released on every return path (the deferred Stop and WatchUntil's close),
\* so nothing keeps rendering after run() has returned.
Released ==
    /\ streamOpen => stage = "waitStream"
    /\ spinner <=> stage \in {"waitOpen", "waitStream"}

\* The spinner shows only a status the current wait's predicate stored from
\* a pod of the current watch, never one left over from the previous wait.
PhaseCurrent ==
    spinner =>
        \/ shown = NoStatus
        \/ stage = "waitStream"
           /\ \E i \in 1..read : stream[i] \in PodEvents /\ shown = stream[i]

\* run() returns: each WatchUntil ends when the server closes the watch, so
\* the join never blocks forever (the spec's TimeoutError path).
Terminates == <>(stage \in {"done", "failed"})

-----------------------------------------------------------------------------
(* The inductive invariant behind TypeOK, Released, TimeoutMeansNeverReady *)
(* and ReadinessObserved                                                   *)

\* The current watch: only its last event can end it, every Ready event it
\* sent reflects a Ready pod, and WatchUntil is still waiting, so nothing it
\* consumed so far was Ready or an end.
WatchInv ==
    /\ \A i \in 1..Len(stream) - 1 : stream[i] \notin {"error", "closed"}
    /\ stage = "waitStream" =>
          /\ \A i \in 1..Len(stream) : stream[i] = "ready" => podReady[target]
          /\ \A i \in 1..read : stream[i] \in {"notready", "other"}

\* Where run() is says which waits have passed.
StageInv ==
    /\ (stage = "failed") <=> (err # "none")
    /\ streamOpen <=> (stage = "waitStream")
    /\ spinner <=> (stage \in {"waitOpen", "waitStream"})
    /\ stage \in WaitStages => WaitRequested
    /\ stage \in {"clients", "direct", "deployments", "crd", "cr"} =>
          target = "operator"
    /\ stage \in WaitStages /\ target = "klusterlet" => podReady["operator"]
    /\ stage \in {"write", "done"} /\ WaitRequested =>
          \A t \in Targets : podReady[t]

RInv ==
    /\ TypeOK
    /\ StageInv
    /\ WatchInv
    /\ TimeoutMeansNeverReady


-----------------------------------------------------------------------------
(* Refinement: the two waits implement ConditionWait *)

\* The state of the wait for pod t in a state of run() where the current
\* target is tgt, the step stg, the error e and the waits are requested when
\* wr.  A wait runs from its client being built (the spinner starts) to its
\* return; the error or timeout it returned stays with the failed run.  The
\* operator's wait has passed once run() moved on to the klusterlet, the
\* klusterlet's once run() reached the output with --wait set (writing it
\* may have failed since).
WaitOfIn(t, tgt, stg, e, wr) ==
    CASE tgt = t /\ stg \in {"waitOpen", "waitStream"}         -> "waiting"
      [] tgt = t /\ stg = "failed" /\ e \in {"watch", "stream"} -> "error"
      [] tgt = t /\ stg = "failed" /\ e = "timeout"             -> "timeout"
      [] t = "operator" /\ tgt = "klusterlet"                  -> "ok"
      [] /\ t = "klusterlet" /\ tgt = "klusterlet" /\ wr
         /\ \/ stg \in {"write", "done"}
            \/ stg = "failed" /\ e = "write"                   -> "ok"
      [] OTHER                                                -> "idle"

\* The refinement mapping: the abstract waits seen from run()'s state.
WaitMap == [t \in Targets |-> WaitOfIn(t, target, stage, err, WaitRequested)]

CW == INSTANCE ConditionWait
        WITH First <- "operator", Second <- "klusterlet",
             ready <- podReady, wait <- WaitMap

\* run()'s two calls of the condition waits behave as ConditionWait says: the
\* klusterlet wait begins only after the operator wait succeeded, success
\* is returned only for a Ready pod, a wait that returned never runs again,
\* and every wait that began returns.
ConditionWaitRefined == CW!Spec

=============================================================================
