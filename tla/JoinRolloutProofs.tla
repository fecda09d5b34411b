-------------------------- MODULE JoinRolloutProofs --------------------------
(***************************************************************************)
(* TLAPS proofs about JoinRollout.  RInv (TypeOK, StageInv, WatchInv and   *)
(* TimeoutMeansNeverReady) is an inductive invariant of the join's rollout *)
(* and its two waits; it gives TypeOK, Released, TimeoutMeansNeverReady    *)
(* and ReadinessObserved for every bound MaxEvents.  The step lemmas state *)
(* what each action does once its helpers (Apply, WaitReturn) are          *)
(* expanded; the invariant lemmas take one action at a time.               *)
(***************************************************************************)
EXTENDS JoinRollout, SequenceTheorems, TLAPS

USE MaxEventsAssumption

-----------------------------------------------------------------------------
(* What the actions do *)

\* An applier call goes on to next with its group rendered (and created
\* unless dry), or fails having created all or none of the group.
LEMMA ApplyStep ==
    ASSUME NEW g, NEW next, Apply(g, next)
    PROVE  \/ /\ stage' = next /\ err' = err /\ output' = Append(output, g)
              /\ applied' = IF o.dryRun THEN applied ELSE applied \cup {g}
           \/ /\ stage' = "failed" /\ err' = "apply" /\ output' = output
              /\ applied' = applied \/ applied' = applied \cup {g}
<1>1. CASE /\ stage' = next
           /\ output' = Append(output, g)
           /\ applied' = IF o.dryRun THEN applied ELSE applied \cup {g}
           /\ UNCHANGED err
    BY <1>1
<1>2. CASE /\ stage' = "failed" /\ err' = "apply"
           /\ applied' \in {applied,
                            IF o.dryRun THEN applied ELSE applied \cup {g}}
           /\ UNCHANGED output
    <2>1. applied' = applied \/ applied' = applied \cup {g}
        <3>1. CASE o.dryRun
            BY <1>2, <3>1
        <3>2. CASE ~o.dryRun
            BY <1>2, <3>2
        <3>3. QED
            BY <3>1, <3>2
    <2>2. QED
        BY <1>2, <2>1
<1>3. QED
    BY <1>1, <1>2 DEF Apply

\* The same for an applier call whose next step depends on a flag.
LEMMA ApplyIfStep ==
    ASSUME NEW g, NEW b \in BOOLEAN, NEW n1, NEW n2,
           Apply(g, IF b THEN n1 ELSE n2)
    PROVE  \/ /\ stage' = (IF b THEN n1 ELSE n2) /\ err' = err
              /\ output' = Append(output, g)
              /\ applied' = IF o.dryRun THEN applied ELSE applied \cup {g}
           \/ /\ stage' = "failed" /\ err' = "apply" /\ output' = output
              /\ applied' = applied \/ applied' = applied \cup {g}
<1>1. CASE b
    <2>1. Apply(g, n1)
        BY <1>1
    <2>2. QED
        BY <1>1, <2>1, ApplyStep
<1>2. CASE ~b
    <2>1. Apply(g, n2)
        BY <1>2
    <2>2. QED
        BY <1>2, <2>1, ApplyStep
<1>3. QED
    BY <1>1, <1>2

\* WatchUntil consumes the next event: it keeps waiting, returns success
\* (the next wait or the output), or returns the error.
LEMMA ConsumeStep ==
    ASSUME Consume
    PROVE  /\ stage = "waitStream" /\ read < Len(stream) /\ read' = read + 1
           /\ phase' = IF NextEvent \in PodEvents THEN NextEvent ELSE phase
           /\ UNCHANGED <<o, applied, output, outputWritten, podReady, stream,
                          shown>>
           /\ Outcome(NextEvent) = "continue" =>
                 UNCHANGED <<stage, target, err, streamOpen, spinner>>
           /\ Outcome(NextEvent) = "none" =>
                 /\ stage' = IF target = "operator" /\ WaitRequested
                                THEN "waitClient" ELSE "write"
                 /\ target' = "klusterlet" /\ err' = err
                 /\ streamOpen' = FALSE /\ spinner' = FALSE
           /\ Outcome(NextEvent) \notin {"continue", "none"} =>
                 /\ stage' = "failed" /\ err' = Outcome(NextEvent)
                 /\ target' = target
                 /\ streamOpen' = FALSE /\ spinner' = FALSE
BY DEF Consume, WaitReturn

\* What WatchUntil makes of each kind of event.
LEMMA OutcomeCases ==
    ASSUME NEW ev \in Events
    PROVE  /\ Outcome(ev) = "continue" <=> ev \in {"notready", "other"}
           /\ Outcome(ev) = "none" <=> ev = "ready"
           /\ Outcome(ev) = "timeout" <=> ev = "closed"
           /\ Outcome(ev) \in {"continue", "none", "stream", "timeout"}
BY DEF Outcome, Satisfied, Events, PodEvents

\* A pod that becomes Ready stays Ready.
LEMMA PodStep ==
    ASSUME TypeOK, PodBecomesReady
    PROVE  /\ podReady' \in [Targets -> BOOLEAN]
           /\ \A t \in Targets : podReady[t] => podReady'[t]
           /\ UNCHANGED <<o, stage, target, applied, output, outputWritten,
                          err, stream, read, streamOpen, spinner, phase,
                          shown>>
<1>1. PICK t \in Targets : podReady' = [podReady EXCEPT ![t] = TRUE]
    BY DEF PodBecomesReady
<1>2. QED
    BY <1>1 DEF PodBecomesReady, TypeOK

-----------------------------------------------------------------------------
(* The invariant, one part at a time *)

THEOREM InitRInv == Init => RInv
<1> SUFFICES ASSUME Init PROVE RInv
    OBVIOUS
<1>1. TypeOK
    <2>1. << >> \in Seq(Groups) /\ << >> \in Seq(Events) /\ Len(<< >>) = 0
        BY EmptySeq
    <2>2. podReady \in [Targets -> BOOLEAN]
        BY DEF Init
    <2>3. /\ o \in [wait: BOOLEAN, dryRun: BOOLEAN]
          /\ stage \in Stages /\ target \in Targets /\ err \in Errors
        BY DEF Init, Stages, Targets, Errors
    <2>4. /\ applied \subseteq Groups /\ output \in Seq(Groups)
          /\ stream \in Seq(Events) /\ read \in 0..Len(stream)
        BY <2>1 DEF Init
    <2>5. /\ outputWritten \in BOOLEAN /\ streamOpen \in BOOLEAN
          /\ spinner \in BOOLEAN
          /\ phase \in {NoStatus} \cup PodEvents
          /\ shown \in {NoStatus} \cup PodEvents
        <3>1. /\ outputWritten = FALSE /\ streamOpen = FALSE
              /\ spinner = FALSE /\ phase = NoStatus /\ shown = NoStatus
            BY DEF Init
        <3>2. QED
            BY <3>1, Zenon
    <2>6. QED
        BY <2>2, <2>3, <2>4, <2>5 DEF TypeOK
<1>2. StageInv
    BY DEF Init, StageInv, WaitStages
<1>3. WatchInv
    BY DEF Init, WatchInv
<1>4. TimeoutMeansNeverReady
    BY DEF Init, TimeoutMeansNeverReady
<1>5. QED
    BY <1>1, <1>2, <1>3, <1>4 DEF RInv

LEMMA TypeNext == TypeOK /\ [Next]_vars => TypeOK'
<1> SUFFICES ASSUME TypeOK, [Next]_vars PROVE TypeOK'
    OBVIOUS
<1> USE DEF TypeOK, NoStatus
<1>1. CASE GetClients
    BY <1>1 DEF GetClients, Stages, Errors
<1>2. ASSUME NEW g \in Groups, NEW next \in Stages, Apply(g, next)
      PROVE  /\ applied' \subseteq Groups /\ output' \in Seq(Groups)
             /\ stage' \in Stages /\ err' \in Errors
    <2>1. \/ stage' = next /\ err' = err /\ output' = Append(output, g)
             /\ applied' \subseteq applied \cup {g}
          \/ stage' = "failed" /\ err' = "apply" /\ output' = output
             /\ applied' \subseteq applied \cup {g}
        BY <1>2, ApplyStep
    <2>2. Append(output, g) \in Seq(Groups)
        BY AppendProperties
    <2>3. QED
        BY <2>1, <2>2 DEF Stages, Errors
<1>3. CASE ApplyDirectly
    BY <1>3, <1>2 DEF ApplyDirectly, Groups, Stages
<1>4. CASE ApplyDeployments
    BY <1>4, <1>2 DEF ApplyDeployments, Groups, Stages
<1>5. CASE ApplyCustomResources
    BY <1>5, <1>2 DEF ApplyCustomResources, Groups, Stages
<1>6. CASE WaitUntilCRDReady
    BY <1>6 DEF WaitUntilCRDReady, Stages, Errors
<1>7. CASE WriteOutput
    BY <1>7 DEF WriteOutput, Stages, Errors
<1>8. CASE WaitClient
    BY <1>8 DEF WaitClient, Stages, Errors
<1>9. ASSUME NEW e \in Errors, WaitReturn(e)
      PROVE  /\ stage' \in Stages /\ err' \in Errors /\ target' \in Targets
             /\ streamOpen' \in BOOLEAN /\ spinner' \in BOOLEAN
    BY <1>9 DEF WaitReturn, Stages, Targets
<1>10. CASE OpenWatch
    <2>1. CASE /\ stage' = "waitStream" /\ streamOpen' = TRUE
               /\ stream' = << >> /\ read' = 0
               /\ UNCHANGED <<err, target, spinner>>
        BY <1>10, <2>1, EmptySeq DEF OpenWatch, Stages
    <2>2. CASE WaitReturn("watch") /\ UNCHANGED <<stream, read>>
        BY <1>10, <2>2, <1>9 DEF OpenWatch, Errors
    <2>3. QED
        BY <1>10, <2>1, <2>2 DEF OpenWatch
<1>11. CASE Consume
    <2>1. NextEvent \in Events /\ read + 1 \in 1..Len(stream)
        BY <1>11 DEF Consume, NextEvent
    <2>2. Outcome(NextEvent) \in {"continue"} \cup Errors
        BY <2>1 DEF Outcome, Events, PodEvents, Satisfied, Errors
    <2>3. QED
        BY <1>11, <1>9, <2>1, <2>2 DEF Consume, Events, PodEvents
<1>12. CASE Render
    BY <1>12 DEF Render
<1>13. CASE PodBecomesReady
    BY <1>13 DEF PodBecomesReady
<1>14. CASE Emit
    <2>1. PICK ev \in Events : stream' = Append(stream, ev)
        BY <1>14 DEF Emit, Events, PodEvents
    <2>2. stream' \in Seq(Events) /\ Len(stream') = Len(stream) + 1
        BY <2>1, AppendProperties
    <2>3. QED
        BY <1>14, <2>2 DEF Emit
<1>15. CASE EndWatch("error") \/ EndWatch("closed")
    <2>1. PICK ev \in Events : EndWatch(ev)
        BY <1>15 DEF Events
    <2>2. stream' \in Seq(Events) /\ Len(stream') = Len(stream) + 1
        BY <2>1, AppendProperties DEF EndWatch
    <2>3. QED
        BY <2>1, <2>2 DEF EndWatch
<1>16. CASE Terminated \/ UNCHANGED vars
    BY <1>16 DEF Terminated, vars
<1>17. QED
    BY <1>1, <1>3, <1>4, <1>5, <1>6, <1>7, <1>8, <1>10, <1>11, <1>12,
       <1>13, <1>14, <1>15, <1>16 DEF Next, RunStep

LEMMA StageNext == TypeOK /\ StageInv /\ WatchInv /\ [Next]_vars => StageInv'
<1> SUFFICES ASSUME TypeOK, StageInv, WatchInv, [Next]_vars
             PROVE  StageInv'
    OBVIOUS
<1> USE DEF StageInv, WaitRequested, TypeOK
<1>1. CASE GetClients
    BY <1>1 DEF GetClients, WaitStages
<1>2. CASE ApplyDirectly
    BY <1>2 DEF ApplyDirectly, Apply, WaitStages
<1>3. CASE ApplyDeployments
    <2>1. \/ stage' = (IF o.dryRun THEN "cr" ELSE "crd") /\ err' = err
          \/ stage' = "failed" /\ err' = "apply"
        BY <1>3, ApplyIfStep DEF ApplyDeployments
    <2>2. QED
        BY <1>3, <2>1 DEF ApplyDeployments, WaitStages
<1>4. CASE ApplyCustomResources
    <2>1. \/ /\ stage' = (IF WaitRequested THEN "waitClient" ELSE "write")
             /\ err' = err
          \/ stage' = "failed" /\ err' = "apply"
        BY <1>4, ApplyIfStep DEF ApplyCustomResources
    <2>2. CASE WaitRequested
        <3>1. \/ stage' = "waitClient" /\ err' = err
              \/ stage' = "failed" /\ err' = "apply"
            BY <2>1, <2>2
        <3>2. QED
            BY <1>4, <2>2, <3>1 DEF ApplyCustomResources, WaitStages
    <2>3. CASE ~WaitRequested
        <3>1. \/ stage' = "write" /\ err' = err
              \/ stage' = "failed" /\ err' = "apply"
            BY <2>1, <2>3
        <3>2. QED
            BY <1>4, <3>1, <2>3 DEF ApplyCustomResources, WaitStages
    <2>4. QED
        BY <2>2, <2>3
<1>5. CASE WaitUntilCRDReady
    BY <1>5 DEF WaitUntilCRDReady, WaitStages
<1>6. CASE WriteOutput
    BY <1>6 DEF WriteOutput, WaitStages
<1>7. CASE WaitClient
    BY <1>7 DEF WaitClient, WaitStages
<1>8. CASE OpenWatch
    BY <1>8 DEF OpenWatch, WaitReturn, WaitStages
<1>9. CASE Consume
    <2>1. /\ stage = "waitStream" /\ read + 1 \in 1..Len(stream)
          /\ UNCHANGED <<o, podReady>>
          /\ NextEvent \in Events
        BY <1>9, ConsumeStep DEF NextEvent
    <2>2. CASE Outcome(NextEvent) = "continue"
        BY <1>9, <2>1, <2>2, ConsumeStep
    <2>3. CASE Outcome(NextEvent) = "none"
        <3>1. NextEvent = "ready"
            BY <2>1, <2>3, OutcomeCases
        <3>2. podReady[target]
            BY <2>1, <3>1 DEF WatchInv, NextEvent
        <3>3. /\ stage' = IF target = "operator" /\ WaitRequested
                             THEN "waitClient" ELSE "write"
              /\ target' = "klusterlet" /\ err' = err
              /\ streamOpen' = FALSE /\ spinner' = FALSE
            BY <1>9, <2>3, ConsumeStep
        <3>4. target = "klusterlet" => podReady["operator"]
            BY <2>1 DEF WaitStages
        <3>5. QED
            BY <2>1, <3>2, <3>3, <3>4 DEF WaitStages, Targets
    <2>4. CASE Outcome(NextEvent) \notin {"continue", "none"}
        <3>1. /\ stage' = "failed" /\ err' = Outcome(NextEvent)
              /\ streamOpen' = FALSE /\ spinner' = FALSE
            BY <1>9, <2>4, ConsumeStep
        <3>2. QED
            BY <2>1, <2>4, <3>1 DEF WaitStages
    <2>5. QED
        BY <2>2, <2>3, <2>4
<1>10. CASE Render
    BY <1>10 DEF Render
<1>11. CASE PodBecomesReady
    BY <1>11, PodStep DEF Targets
<1>12. CASE Emit
    BY <1>12 DEF Emit
<1>13. CASE EndWatch("error") \/ EndWatch("closed")
    BY <1>13 DEF EndWatch
<1>14. CASE Terminated \/ UNCHANGED vars
    BY <1>14 DEF Terminated, vars
<1>15. QED
    BY <1>1, <1>2, <1>3, <1>4, <1>5, <1>6, <1>7, <1>8, <1>9, <1>10, <1>11,
       <1>12, <1>13, <1>14 DEF Next, RunStep

\* A step that keeps the stream and does not stay in or enter the stream
\* stage keeps WatchInv.
LEMMA LeaveWatch ==
    ASSUME WatchInv, stream' = stream, stage' # "waitStream"
    PROVE  WatchInv'
BY DEF WatchInv

\* A step that touches none of the watch's state keeps WatchInv.
LEMMA KeepWatch ==
    ASSUME WatchInv,
           UNCHANGED <<stage, target, podReady, stream, read>>
    PROVE  WatchInv'
BY DEF WatchInv

\* Appending an event that is not Ready unless the pod is Ready, to a watch
\* that has not ended, keeps WatchInv.
LEMMA AppendWatch ==
    ASSUME TypeOK, WatchInv, NEW ev \in Events,
           stage = "waitStream", ~Ended(stream),
           ev = "ready" => podReady[target],
           stream' = Append(stream, ev),
           UNCHANGED <<stage, target, podReady, read>>
    PROVE  WatchInv'
<1>1. /\ Len(stream') = Len(stream) + 1
      /\ \A i \in 1..Len(stream) : stream'[i] = stream[i]
      /\ stream'[Len(stream) + 1] = ev
    BY AppendProperties DEF TypeOK
<1>2. \A i \in 1..Len(stream) : stream[i] \notin {"error", "closed"}
    BY <1>1 DEF WatchInv, Ended, TypeOK
<1>3. read \in 0..Len(stream)
    BY DEF TypeOK
<1>4. QED
    BY <1>1, <1>2, <1>3 DEF WatchInv

LEMMA WatchNext ==
    TypeOK /\ StageInv /\ WatchInv /\ [Next]_vars => WatchInv'
<1> SUFFICES ASSUME TypeOK, StageInv, WatchInv, [Next]_vars
             PROVE  WatchInv'
    OBVIOUS
<1>1. CASE GetClients \/ WaitUntilCRDReady \/ WriteOutput \/ WaitClient
    BY <1>1, LeaveWatch
       DEF GetClients, WaitUntilCRDReady, WriteOutput, WaitClient
<1>2. CASE ApplyDirectly \/ ApplyDeployments \/ ApplyCustomResources
    <2>1. stage' \in {"deployments", "crd", "cr", "waitClient", "write",
                      "failed"}
        <3>1. CASE ApplyDirectly
            BY <3>1, ApplyStep DEF ApplyDirectly
        <3>2. CASE ApplyDeployments
            BY <3>2, ApplyIfStep DEF ApplyDeployments, TypeOK
        <3>3. CASE ApplyCustomResources
            BY <3>3, ApplyIfStep DEF ApplyCustomResources, WaitRequested,
                                     TypeOK
        <3>4. QED
            BY <1>2, <3>1, <3>2, <3>3
    <2>2. QED
        BY <1>2, <2>1, LeaveWatch
           DEF ApplyDirectly, ApplyDeployments, ApplyCustomResources
<1>3. CASE OpenWatch
    <2>1. CASE stream' = << >> /\ read' = 0
        BY <2>1 DEF WatchInv
    <2>2. CASE WaitReturn("watch") /\ UNCHANGED <<stream, read>>
        BY <2>2, LeaveWatch DEF WaitReturn
    <2>3. QED
        BY <1>3, <2>1, <2>2 DEF OpenWatch
<1>4. CASE Consume
    <2>1. /\ stage = "waitStream" /\ read + 1 \in 1..Len(stream)
          /\ read' = read + 1 /\ UNCHANGED <<podReady, stream>>
          /\ NextEvent \in Events
        BY <1>4, ConsumeStep DEF NextEvent, TypeOK
    <2>2. CASE Outcome(NextEvent) = "continue"
        <3>1. NextEvent \in {"notready", "other"}
            BY <2>1, <2>2, OutcomeCases
        <3>2. UNCHANGED <<stage, target>>
            BY <1>4, <2>2, ConsumeStep
        <3>3. \A i \in 1..read + 1 : stream[i] \in {"notready", "other"}
            BY <2>1, <3>1 DEF WatchInv, NextEvent, TypeOK
        <3>4. QED
            BY <2>1, <3>2, <3>3 DEF WatchInv
    <2>3. CASE Outcome(NextEvent) # "continue"
        <3>1. stage' \in {"waitClient", "write", "failed"}
            BY <1>4, <2>3, ConsumeStep
        <3>2. QED
            BY <2>1, <3>1, LeaveWatch
    <2>4. QED
        BY <2>2, <2>3
<1>5. CASE Render
    BY <1>5, KeepWatch DEF Render
<1>6. CASE PodBecomesReady
    <2>1. /\ \A t \in Targets : podReady[t] => podReady'[t]
          /\ target \in Targets
          /\ UNCHANGED <<stage, target, stream, read>>
        BY <1>6, PodStep DEF TypeOK
    <2>2. QED
        BY <2>1 DEF WatchInv
<1>7. CASE Emit
    <2>1. PICK ev \in {IF podReady[target] THEN "ready" ELSE "notready",
                      "other"} : stream' = Append(stream, ev)
        BY <1>7 DEF Emit
    <2>2. ev \in Events /\ (ev = "ready" => podReady[target])
        BY <2>1 DEF Events, PodEvents
    <2>3. QED
        BY <1>7, <2>1, <2>2, AppendWatch DEF Emit
<1>8. CASE EndWatch("error") \/ EndWatch("closed")
    <2>1. PICK ev \in {"error", "closed"} : EndWatch(ev)
        BY <1>8
    <2>2. QED
        BY <2>1, AppendWatch DEF EndWatch, Events
<1>9. CASE Terminated \/ UNCHANGED vars
    BY <1>9, KeepWatch DEF Terminated, vars
<1>10. QED
    BY <1>1, <1>2, <1>3, <1>4, <1>5, <1>6, <1>7, <1>8, <1>9 DEF Next, RunStep

\* Only the step that reads the close of a watch can set the timeout error;
\* every other step keeps it together with the stream it speaks of.
LEMMA TimeoutNext ==
    RInv /\ [Next]_vars => TimeoutMeansNeverReady'
<1> SUFFICES ASSUME TypeOK, StageInv, WatchInv, TimeoutMeansNeverReady,
                    [Next]_vars, err' = "timeout"
             PROVE  \A i \in 1..Len(stream') : stream'[i] # "ready"
    BY DEF RInv, TimeoutMeansNeverReady
<1>1. CASE Consume
    <2>1. /\ stage = "waitStream" /\ read + 1 \in 1..Len(stream)
          /\ stream' = stream /\ NextEvent \in Events
        BY <1>1, ConsumeStep DEF NextEvent, TypeOK
    <2>2. CASE Outcome(NextEvent) = "timeout"
        <3>1. stream[read + 1] = "closed"
            BY <2>1, <2>2, OutcomeCases DEF NextEvent
        <3>2. read + 1 = Len(stream)
            BY <2>1, <3>1 DEF WatchInv
        <3>3. \A i \in 1..read : stream[i] \in {"notready", "other"}
            BY <2>1 DEF WatchInv
        <3>4. read \in Nat
            BY DEF TypeOK
        <3>5. QED
            BY <2>1, <3>1, <3>2, <3>3, <3>4
    <2>3. CASE Outcome(NextEvent) \in {"continue", "none"}
        <3>1. err = "timeout"
            BY <1>1, <2>3, ConsumeStep
        <3>2. QED
            BY <2>1, <3>1 DEF TimeoutMeansNeverReady
    <2>4. CASE Outcome(NextEvent) \notin {"continue", "none", "timeout"}
        BY <1>1, <2>4, ConsumeStep
    <2>5. QED
        BY <2>2, <2>3, <2>4
<1>2. CASE ApplyDirectly \/ ApplyDeployments \/ ApplyCustomResources
    <2>1. err' \in {err, "apply"} /\ stream' = stream
        <3>1. CASE ApplyDirectly
            BY <3>1, ApplyStep DEF ApplyDirectly
        <3>2. CASE ApplyDeployments
            BY <3>2, ApplyIfStep DEF ApplyDeployments, TypeOK
        <3>3. CASE ApplyCustomResources
            BY <3>3, ApplyIfStep DEF ApplyCustomResources, WaitRequested,
                                     TypeOK
        <3>4. QED
            BY <1>2, <3>1, <3>2, <3>3
    <2>2. QED
        BY <2>1 DEF TimeoutMeansNeverReady
<1>3. CASE OpenWatch
    <2>1. err = "none"
        BY <1>3 DEF OpenWatch, StageInv
    <2>2. QED
        BY <1>3, <2>1 DEF OpenWatch, WaitReturn
<1>4. CASE Emit \/ EndWatch("error") \/ EndWatch("closed")
    <2>1. err = "none" /\ err' = err
        BY <1>4 DEF Emit, EndWatch, StageInv
    <2>2. QED
        BY <2>1
<1>5. CASE GetClients \/ WaitUntilCRDReady \/ WriteOutput \/ WaitClient
          \/ Render \/ Terminated \/ UNCHANGED vars
    <2>1. err' \in {err, "client", "write"} /\ stream' = stream
        BY <1>5 DEF GetClients, WaitUntilCRDReady, WriteOutput, WaitClient,
                   Render, Terminated, vars
    <2>2. QED
        BY <2>1 DEF TimeoutMeansNeverReady
<1>6. CASE PodBecomesReady
    BY <1>6, PodStep DEF TimeoutMeansNeverReady
<1>7. QED
    BY <1>1, <1>2, <1>3, <1>4, <1>5, <1>6 DEF Next, RunStep

THEOREM NextRInv == RInv /\ [Next]_vars => RInv'
BY TypeNext, StageNext, WatchNext, TimeoutNext DEF RInv

-----------------------------------------------------------------------------
(* What the spinner shows *)

\* A status the current wait may show: the empty one, or the status of a pod
\* event the predicate has read from the current watch.
SeenStatus(s) ==
    \/ s = NoStatus
    \/ /\ stage = "waitStream"
       /\ \E i \in 1..read : stream[i] \in PodEvents /\ s = stream[i]

\* PhaseCurrent speaks of shown, which Render copies from phase, so the
\* invariant says the same of the phase.
PhaseInv == spinner => SeenStatus(phase) /\ SeenStatus(shown)

LEMMA PhaseInit == Init => PhaseInv
BY DEF Init, PhaseInv

\* A step that keeps stage, read, phase and shown and only appends to the
\* stream keeps every status seen.
LEMMA PhaseAppend ==
    ASSUME TypeOK, PhaseInv, NEW ev, stream' = Append(stream, ev),
           UNCHANGED <<stage, read, spinner, phase, shown>>
    PROVE  PhaseInv'
<1>1. \A i \in 1..read : stream'[i] = stream[i]
    BY AppendProperties DEF TypeOK
<1>2. QED
    BY <1>1 DEF PhaseInv, SeenStatus

LEMMA PhaseNext == RInv /\ PhaseInv /\ [Next]_vars => PhaseInv'
<1> SUFFICES ASSUME RInv, PhaseInv, [Next]_vars PROVE PhaseInv'
    OBVIOUS
<1>0. TypeOK /\ StageInv
    BY DEF RInv
<1>1. CASE \/ GetClients \/ ApplyDirectly \/ ApplyDeployments
           \/ WaitUntilCRDReady \/ ApplyCustomResources \/ WriteOutput
    <2>1. ~spinner' 
        <3>1. CASE GetClients
            BY <1>0, <3>1 DEF GetClients, StageInv
        <3>2. CASE ApplyDirectly \/ ApplyDeployments \/ ApplyCustomResources
            BY <1>0, <3>2 DEF ApplyDirectly, ApplyDeployments,
                              ApplyCustomResources, StageInv
        <3>3. CASE WaitUntilCRDReady \/ WriteOutput
            BY <1>0, <3>3 DEF WaitUntilCRDReady, WriteOutput, StageInv
        <3>4. QED
            BY <1>1, <3>1, <3>2, <3>3
    <2>2. QED
        BY <2>1 DEF PhaseInv
<1>2. CASE WaitClient
    BY <1>2 DEF WaitClient, PhaseInv, SeenStatus
<1>3. CASE OpenWatch
    <2>1. stage = "waitOpen" /\ spinner
        BY <1>0, <1>3 DEF OpenWatch, StageInv
    <2>2. phase = NoStatus /\ shown = NoStatus
        BY <2>1 DEF PhaseInv, SeenStatus
    <2>3. QED
        BY <1>3, <2>2 DEF OpenWatch, WaitReturn, PhaseInv, SeenStatus
<1>4. CASE Consume
    <2>1. /\ stage = "waitStream" /\ read < Len(stream) /\ read' = read + 1
          /\ phase' = IF NextEvent \in PodEvents THEN NextEvent ELSE phase
          /\ UNCHANGED <<stream, shown>>
          /\ read \in Nat
        BY <1>0, <1>4, ConsumeStep DEF TypeOK
    <2>2. CASE Outcome(NextEvent) = "continue"
        <3>1. stage' = "waitStream" /\ spinner' = spinner
            BY <1>4, <2>2, ConsumeStep
        <3>2. \A i \in 1..read : i \in 1..read' /\ stream'[i] = stream[i]
            BY <2>1
        <3>3. SeenStatus(shown) => SeenStatus(shown)'
            BY <2>1, <3>1, <3>2 DEF SeenStatus
        <3>4. NextEvent \notin PodEvents =>
                 (SeenStatus(phase) => SeenStatus(phase)')
            BY <2>1, <3>1, <3>2 DEF SeenStatus
        <3>5. NextEvent \in PodEvents => SeenStatus(phase)'
            <4>1. /\ read + 1 \in 1..read'
                  /\ stream'[read + 1] = stream[read + 1]
                  /\ NextEvent = stream[read + 1]
                BY <2>1 DEF NextEvent
            <4>2. QED
                BY <2>1, <3>1, <4>1 DEF SeenStatus
        <3>6. QED
            BY <3>1, <3>3, <3>4, <3>5 DEF PhaseInv
    <2>3. CASE Outcome(NextEvent) # "continue"
        <3>1. ~spinner'
            BY <1>4, <2>3, ConsumeStep
        <3>2. QED
            BY <3>1 DEF PhaseInv
    <2>4. QED
        BY <2>2, <2>3
<1>5. CASE Render
    BY <1>5 DEF Render, PhaseInv, SeenStatus
<1>6. CASE Emit
    <2>1. PICK ev : stream' = Append(stream, ev)
        BY <1>6 DEF Emit
    <2>2. QED
        BY <1>0, <1>6, <2>1, PhaseAppend DEF Emit
<1>7. CASE EndWatch("error") \/ EndWatch("closed")
    <2>1. PICK ev : stream' = Append(stream, ev)
        BY <1>7 DEF EndWatch
    <2>2. QED
        BY <1>0, <1>7, <2>1, PhaseAppend DEF EndWatch
<1>8. CASE PodBecomesReady \/ Terminated \/ UNCHANGED vars
    BY <1>8 DEF PodBecomesReady, Terminated, vars, PhaseInv, SeenStatus
<1>9. QED
    BY <1>1, <1>2, <1>3, <1>4, <1>5, <1>6, <1>7, <1>8 DEF Next, RunStep

-----------------------------------------------------------------------------
(* The properties of run *)

\* Every reachable state of the join's rollout is well typed.
THEOREM RolloutTypeCorrect == Spec => []TypeOK
<1>1. RInv => TypeOK
    BY DEF RInv
<1>2. QED
    BY InitRInv, NextRInv, <1>1, PTL DEF Spec

\* The spinner and the pod watch are held only inside a wait, on every path
\* of run() and both waits.
THEOREM ReleasedHolds == Spec => []Released
<1>1. RInv => Released
    BY DEF RInv, StageInv, Released
<1>2. QED
    BY InitRInv, NextRInv, <1>1, PTL DEF Spec

\* A wait that returned the timeout error never had a Ready pod event sent on
\* its watch.
THEOREM TimeoutMeansNeverReadyHolds == Spec => []TimeoutMeansNeverReady
<1>1. RInv => TimeoutMeansNeverReady
    BY DEF RInv
<1>2. QED
    BY InitRInv, NextRInv, <1>1, PTL DEF Spec

\* A --wait join that returned success saw both pods Ready, the operator
\* pod before the second wait began.
THEOREM ReadinessObservedHolds == Spec => []ReadinessObserved
<1>1. RInv => ReadinessObserved
    BY DEF RInv, StageInv, ReadinessObserved
<1>2. QED
    BY InitRInv, NextRInv, <1>1, PTL DEF Spec


\* While a wait's spinner runs, it shows only the empty status or the status
\* of a pod the current wait's predicate read from the current watch, never
\* a status left over from the previous wait.
THEOREM PhaseCurrentHolds == Spec => []PhaseCurrent
<1>1. Init => RInv /\ PhaseInv
    BY InitRInv, PhaseInit
<1>2. RInv /\ PhaseInv /\ [Next]_vars => RInv' /\ PhaseInv'
    BY NextRInv, PhaseNext
<1>3. PhaseInv => PhaseCurrent
    BY DEF PhaseInv, SeenStatus, PhaseCurrent
<1>4. QED
    BY <1>1, <1>2, <1>3, PTL DEF Spec

=============================================================================
