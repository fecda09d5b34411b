------------------------ MODULE JoinRolloutRefinement ------------------------
(***************************************************************************)
(* TLAPS proof that the join's two condition waits implement the safety    *)
(* part of ConditionWait under the mapping WaitMap: Init maps to the       *)
(* abstract initial state and, in every state satisfying the inductive     *)
(* invariant RInv of JoinRolloutProofs, every step of run(), of the        *)
(* spinner, of the cluster and of the watch maps to an abstract Begin,     *)
(* Return or BecomeReady, or to a stutter.  The fairness of CW!Spec is a   *)
(* liveness property and is left to the run join_rollout_refines.          *)
(***************************************************************************)
EXTENDS JoinRolloutProofs

\* WaitOfIn written as nested IFs, the form the SMT backend reasons about.
WaitIf(t, tgt, stg, e, wr) ==
    IF tgt = t /\ stg \in {"waitOpen", "waitStream"} THEN "waiting"
    ELSE IF tgt = t /\ stg = "failed" /\ e \in {"watch", "stream"} THEN "error"
    ELSE IF tgt = t /\ stg = "failed" /\ e = "timeout" THEN "timeout"
    ELSE IF t = "operator" /\ tgt = "klusterlet" THEN "ok"
    ELSE IF /\ t = "klusterlet" /\ tgt = "klusterlet" /\ wr
            /\ \/ stg \in {"write", "done"}
               \/ stg = "failed" /\ e = "write" THEN "ok"
    ELSE "idle"

\* The arms of WaitOfIn are disjoint, so the CASE is the IF chain.
LEMMA WaitOfIf ==
    ASSUME NEW t, NEW tgt, NEW stg, NEW e, NEW wr
    PROVE  WaitOfIn(t, tgt, stg, e, wr) = WaitIf(t, tgt, stg, e, wr)
<1>1. CASE tgt = t /\ stg \in {"waitOpen", "waitStream"}
    BY <1>1, Zenon DEF WaitOfIn, WaitIf
<1>2. CASE tgt = t /\ stg = "failed" /\ e \in {"watch", "stream"}
    BY <1>2, Zenon DEF WaitOfIn, WaitIf
<1>3. CASE tgt = t /\ stg = "failed" /\ e = "timeout"
    BY <1>3, Zenon DEF WaitOfIn, WaitIf
<1>4. CASE t = "operator" /\ tgt = "klusterlet"
    BY <1>4, Zenon DEF WaitOfIn, WaitIf
<1>5. CASE /\ t = "klusterlet" /\ tgt = "klusterlet" /\ wr
           /\ \/ stg \in {"write", "done"}
              \/ stg = "failed" /\ e = "write"
    BY <1>5, Zenon DEF WaitOfIn, WaitIf
<1>6. CASE ~ \/ tgt = t /\ stg \in {"waitOpen", "waitStream"}
             \/ tgt = t /\ stg = "failed" /\ e \in {"watch", "stream"}
             \/ tgt = t /\ stg = "failed" /\ e = "timeout"
             \/ t = "operator" /\ tgt = "klusterlet"
             \/ /\ t = "klusterlet" /\ tgt = "klusterlet" /\ wr
                /\ \/ stg \in {"write", "done"}
                   \/ stg = "failed" /\ e = "write"
    BY <1>6, Zenon DEF WaitOfIn, WaitIf
<1>7. QED
    BY <1>1, <1>2, <1>3, <1>4, <1>5, <1>6

\* The mapping in a state and in the next one.
LEMMA WaitMapIf ==
    /\ WaitMap = [t \in Targets |-> WaitIf(t, target, stage, err, WaitRequested)]
    /\ WaitMap' = [t \in Targets |->
                     WaitIf(t, target', stage', err', WaitRequested')]
BY WaitOfIf DEF WaitMap

\* A join that has not started waiting maps to the abstract initial state.
THEOREM RefinementInit == Init => CW!Init
<1> SUFFICES ASSUME Init PROVE CW!Init
    OBVIOUS
<1>1. \A t \in Targets : WaitIf(t, target, stage, err, WaitRequested) = "idle"
    BY DEF Init, WaitIf, Targets
<1>2. QED
    BY <1>1, WaitMapIf DEF Init, CW!Init, CW!Pods, Targets

\* Every step of the join keeps the flags.
LEMMA FlagsKept == [Next]_vars => o' = o
BY DEF Next, RunStep, GetClients, ApplyDirectly, ApplyDeployments,
       WaitUntilCRDReady, ApplyCustomResources, WriteOutput, WaitClient,
       OpenWatch, Consume, Render, PodBecomesReady, Emit, EndWatch,
       Terminated, vars

\* A step that keeps the pods and the state of each wait is an abstract
\* stutter.
LEMMA StutterStep ==
    ASSUME podReady' = podReady,
           \A t \in Targets : WaitIf(t, target', stage', err', WaitRequested')
                                = WaitIf(t, target, stage, err, WaitRequested)
    PROVE  [CW!Next]_CW!vars
BY WaitMapIf DEF CW!vars

\* A step that keeps where run() is and the pods is an abstract stutter.
LEMMA KeepStep ==
    ASSUME o' = o, UNCHANGED <<target, stage, err, podReady>>
    PROVE  [CW!Next]_CW!vars
BY DEF WaitMap, WaitRequested, CW!vars

\* Before the first wait starts, and while the output is written, no wait
\* changes its state.
LEMMA SetupStep ==
    ASSUME RInv, o' = o,
           \/ GetClients \/ ApplyDirectly \/ ApplyDeployments
           \/ WaitUntilCRDReady \/ ApplyCustomResources \/ WriteOutput
    PROVE  [CW!Next]_CW!vars
<1>0. /\ stage \in {"clients", "direct", "deployments", "crd", "cr"} =>
            target = "operator"
      /\ stage # "failed" => err = "none"
      /\ o \in [wait: BOOLEAN, dryRun: BOOLEAN]
    BY DEF RInv, StageInv, TypeOK
<1>1. /\ target' = target /\ podReady' = podReady
      /\ \/ /\ stage \in {"clients", "direct", "deployments", "crd", "cr"}
            /\ stage' \notin {"waitOpen", "waitStream"}
            /\ err' \in {"none", "apply", "client"}
         \/ /\ stage = "write"
            /\ \/ stage' = "done" /\ err' = err
               \/ stage' = "failed" /\ err' = "write"
    <2>1. CASE GetClients
        BY <1>0, <2>1 DEF GetClients
    <2>2. CASE ApplyDirectly
        BY <1>0, <2>2, ApplyStep DEF ApplyDirectly
    <2>3. CASE ApplyDeployments
        BY <1>0, <2>3, ApplyIfStep DEF ApplyDeployments
    <2>4. CASE WaitUntilCRDReady
        BY <1>0, <2>4 DEF WaitUntilCRDReady
    <2>5. CASE ApplyCustomResources
        <3>1. WaitRequested \in BOOLEAN
            BY DEF WaitRequested, RInv, TypeOK
        <3>2. \/ /\ stage' = (IF WaitRequested THEN "waitClient" ELSE "write")
                 /\ err' = err
              \/ stage' = "failed" /\ err' = "apply"
            BY <2>5, <3>1, ApplyIfStep DEF ApplyCustomResources
        <3>3. QED
            BY <1>0, <2>5, <3>2 DEF ApplyCustomResources
    <2>6. CASE WriteOutput
        BY <1>0, <2>6 DEF WriteOutput
    <2>7. QED
        BY <2>1, <2>2, <2>3, <2>4, <2>5, <2>6
<1>3. WaitRequested' = WaitRequested
    BY DEF WaitRequested
<1>4. QED
    BY <1>0, <1>1, <1>3, StutterStep DEF WaitIf


\* A wait whose client was built begins: the operator's while the klusterlet
\* wait has not run, the klusterlet's once the operator wait succeeded.  A
\* failed client build returns before the wait began.
LEMMA WaitClientStep ==
    ASSUME RInv, o' = o, WaitClient
    PROVE  [CW!Next]_CW!vars
<1>0. /\ stage = "waitClient" /\ err = "none" /\ target \in Targets
      /\ target' = target /\ podReady' = podReady
      /\ WaitRequested' = WaitRequested
    BY DEF WaitClient, RInv, StageInv, TypeOK, WaitRequested
<1>1. CASE stage' = "failed" /\ err' = "client"
    BY <1>0, <1>1, StutterStep DEF WaitIf
<1>2. CASE stage' = "waitOpen"
    <2>1. WaitMap[target] = "idle"
        BY <1>0, WaitMapIf DEF WaitIf
    <2>2. target = "operator" => WaitMap["klusterlet"] = "idle"
        BY <1>0, WaitMapIf DEF WaitIf, Targets
    <2>3. target = "klusterlet" => WaitMap["operator"] = "ok"
        BY <1>0, WaitMapIf DEF WaitIf, Targets
    <2>4. WaitMap' = [WaitMap EXCEPT ![target] = "waiting"]
        BY <1>0, <1>2, WaitMapIf DEF WaitIf, Targets
    <2>5. CW!Begin(target)
        BY <1>0, <2>1, <2>2, <2>3, <2>4 DEF CW!Begin
    <2>6. QED
        BY <1>0, <2>5 DEF CW!Next, CW!Pods, Targets
<1>3. QED
    BY <1>1, <1>2 DEF WaitClient

\* A running wait that run() leaves with the error r of WatchUntil returns r
\* to the abstract spec: "error" for a failed watch or an error event,
\* "timeout" for the closed watch.
LEMMA WaitErrorStep ==
    ASSUME RInv, o' = o, NEW r \in {"watch", "stream", "timeout"},
           stage \in {"waitOpen", "waitStream"},
           stage' = "failed", err' = r, target' = target,
           podReady' = podReady
    PROVE  [CW!Next]_CW!vars
<1> DEFINE a == IF r = "timeout" THEN "timeout" ELSE "error"
<1>0. target \in Targets /\ WaitRequested' = WaitRequested
    BY DEF RInv, TypeOK, WaitRequested
<1>1. WaitMap[target] = "waiting"
    BY <1>0, WaitMapIf DEF WaitIf
<1>2. WaitMap' = [WaitMap EXCEPT ![target] = a]
    BY <1>0, WaitMapIf DEF WaitIf, Targets
<1>3. CW!Return(target, a)
    BY <1>1, <1>2 DEF CW!Return
<1>4. QED
    BY <1>0, <1>3 DEF CW!Next, CW!Pods, Targets


\* A wait satisfied by a Ready pod returns success, and run() goes on to
\* the klusterlet wait or to the output.
LEMMA WaitOkStep ==
    ASSUME RInv, o' = o, stage = "waitStream", podReady[target],
           stage' = IF target = "operator" /\ WaitRequested
                       THEN "waitClient" ELSE "write",
           target' = "klusterlet", err' = err, podReady' = podReady
    PROVE  [CW!Next]_CW!vars
<1>0. /\ target \in Targets /\ WaitRequested /\ err = "none"
      /\ WaitRequested' = WaitRequested
    BY DEF RInv, TypeOK, StageInv, WaitStages, WaitRequested
<1>1. WaitMap[target] = "waiting"
    BY <1>0, WaitMapIf DEF WaitIf
<1>2. WaitMap' = [WaitMap EXCEPT ![target] = "ok"]
    BY <1>0, WaitMapIf DEF WaitIf, Targets
<1>3. CW!Return(target, "ok")
    BY <1>1, <1>2 DEF CW!Return
<1>4. QED
    BY <1>0, <1>3 DEF CW!Next, CW!Pods, Targets

\* Every step of the join is a step of ConditionWait or leaves the pods and
\* the waits as they were.
THEOREM RefinementStep == RInv /\ [Next]_vars => [CW!Next]_CW!vars
<1> SUFFICES ASSUME RInv, [Next]_vars PROVE [CW!Next]_CW!vars
    OBVIOUS
<1>0. o' = o
    BY FlagsKept
<1>1. CASE \/ GetClients \/ ApplyDirectly \/ ApplyDeployments
           \/ WaitUntilCRDReady \/ ApplyCustomResources \/ WriteOutput
    BY <1>0, <1>1, SetupStep
<1>2. CASE WaitClient
    BY <1>0, <1>2, WaitClientStep
<1>3. CASE OpenWatch
    <2>1. CASE stage' = "waitStream"
        <3>1. /\ stage = "waitOpen" /\ target \in Targets
              /\ UNCHANGED <<target, err, podReady>>
              /\ WaitRequested' = WaitRequested
            BY <1>0, <1>3, <2>1 DEF OpenWatch, WaitReturn, RInv, TypeOK,
                                    WaitRequested
        <3>2. QED
            BY <2>1, <3>1, StutterStep DEF WaitIf
    <2>2. CASE stage' # "waitStream"
        <3>1. /\ stage = "waitOpen" /\ stage' = "failed" /\ err' = "watch"
              /\ target' = target /\ podReady' = podReady
            BY <1>3, <2>2 DEF OpenWatch, WaitReturn
        <3>2. QED
            BY <1>0, <3>1, WaitErrorStep
    <2>3. QED
        BY <2>1, <2>2
<1>4. CASE Consume
    <2>1. /\ stage = "waitStream" /\ read + 1 \in 1..Len(stream)
          /\ podReady' = podReady
          /\ NextEvent \in Events
        BY <1>4, ConsumeStep DEF NextEvent, RInv, TypeOK
    <2>2. CASE Outcome(NextEvent) = "continue"
        BY <1>0, <1>4, <2>1, <2>2, ConsumeStep, KeepStep
    <2>3. CASE Outcome(NextEvent) = "none"
        <3>1. podReady[target]
            BY <2>1, <2>3, OutcomeCases DEF RInv, WatchInv, NextEvent
        <3>2. QED
            BY <1>0, <1>4, <2>1, <2>3, <3>1, ConsumeStep, WaitOkStep
    <2>4. CASE Outcome(NextEvent) \notin {"continue", "none"}
        <3>1. Outcome(NextEvent) \in {"stream", "timeout"}
            BY <2>1, <2>4, OutcomeCases
        <3>2. /\ stage' = "failed" /\ err' = Outcome(NextEvent)
              /\ target' = target
            BY <1>4, <2>4, ConsumeStep
        <3>3. QED
            BY <1>0, <2>1, <3>1, <3>2, WaitErrorStep
    <2>5. QED
        BY <2>2, <2>3, <2>4
<1>5. CASE PodBecomesReady
    <2>1. PICK t \in Targets :
             /\ ~podReady[t]
             /\ podReady' = [podReady EXCEPT ![t] = TRUE]
        BY <1>5 DEF PodBecomesReady
    <2>2. WaitMap' = WaitMap
        BY <1>0, <1>5, WaitMapIf DEF PodBecomesReady, WaitRequested
    <2>3. CW!BecomeReady(t)
        BY <2>1, <2>2 DEF CW!BecomeReady
    <2>4. QED
        BY <2>3 DEF CW!Next, CW!Pods, Targets
<1>6. CASE Render \/ Emit \/ EndWatch("error") \/ EndWatch("closed")
              \/ Terminated \/ UNCHANGED vars
    BY <1>0, <1>6, KeepStep DEF Render, Emit, EndWatch, Terminated, vars
<1>7. QED
    BY <1>1, <1>2, <1>3, <1>4, <1>5, <1>6 DEF Next, RunStep


\* The join implements the safety part of ConditionWait: its two waits
\* begin in order, succeed only on a Ready pod and never run again once
\* returned, for every bound on the events of a watch.
THEOREM RefinementSafety == Spec => CW!Init /\ [][CW!Next]_CW!vars
<1>1. Init => CW!Init /\ RInv
    BY RefinementInit, InitRInv
<1>2. RInv /\ [Next]_vars => RInv' /\ [CW!Next]_CW!vars
    BY NextRInv, RefinementStep
<1>3. QED
    BY <1>1, <1>2, PTL DEF Spec

=============================================================================
