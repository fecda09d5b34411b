------------------------------- MODULE GetWork -------------------------------
(***************************************************************************)
(* `clusteradm get work [NAME] --cluster C` (package work, exec.go):       *)
(* Options.complete, Options.validate and Options.run, with the table and  *)
(* tree converters and getFileds.                                          *)
(*                                                                         *)
(* The command is one thread; each action is one step of it between two   *)
(* calls.  The hub is the environment and changes concurrently with the   *)
(* command: ManifestWorks are created, have their status rewritten and are *)
(* deleted, and ManagedClusters come and go, up to MaxHubChanges changes.  *)
(* The hub answers each request from its state at that moment.             *)
(***************************************************************************)
EXTENDS Naturals, Sequences

CONSTANTS
    Clusters,       \* managed cluster names, which are also namespaces
    WorkNames,      \* ManifestWork names
    Empty,          \* the empty string
    ConditionLists, \* the status.conditions lists the work agent may write
    MaxHubChanges   \* how many changes the hub makes during one command

ASSUME GetWorkAssumption ==
    /\ Empty \notin Clusters \cup WorkNames
    /\ MaxHubChanges \in Nat

VARIABLES
    args,         \* the positional arguments of the command line
    o,            \* [cluster, workName]: o.cluster and o.workName
    hubValid,     \* ClusteradmFlags.ValidateHub() succeeds
    printerValid, \* o.printer.Validate() succeeds (a known output format)
    pc,           \* the step of complete/validate/run to take next
    err,          \* the error the command returned
    managed,      \* the ManagedClusters the hub holds
    works,        \* the ManifestWorks the hub holds
    changes,      \* how many changes the hub has made
    calls,        \* the requests sent to the hub, in order
    snapshot,     \* the hub's works when the List request was answered
    workList,     \* the ManifestWorkList the List request returned
    output        \* what the printer printed: one entry per listed work

vars == <<args, o, hubValid, printerValid, pc, err, managed, works, changes,
          calls, snapshot, workList, output>>

-----------------------------------------------------------------------------
(* Data *)

\* metav1.Condition, reduced to what getFileds reads.
ConditionTypes == {"Applied", "Available", "Progressing"}
ConditionStatuses == {"True", "False", "Unknown"}
Condition == [type: ConditionTypes, status: ConditionStatuses]

\* status.conditions is a []metav1.Condition.
ASSUME ConditionListsAssumption == ConditionLists \subseteq Seq(Condition)

\* A ManifestWork: its name, namespace, the length of spec.workload.manifests
\* and status.conditions.
ManifestWork == [name: WorkNames, namespace: Clusters, manifests: 0..1,
                 conditions: ConditionLists]

\* What getFileds returns for one work, with the work's name that both
\* converters print beside it.
Row == [name: WorkNames, cluster: Clusters, number: 0..1,
        applied: ConditionStatuses \cup {Empty},
        available: ConditionStatuses \cup {Empty}]

\* A nil *metav1.Condition.
NoCondition == [type |-> Empty, status |-> Empty]

Steps == {"complete", "validate", "clients", "getCluster", "list", "print",
          "done", "failed"}
Errors == {"none", "args", "hub", "cluster", "printer", "config", "notFound",
           "network", "print"}

-----------------------------------------------------------------------------
(* getFileds and the helper it calls *)

\* meta.FindStatusCondition: the first condition of the given type, or nil.
FindStatusCondition(conditions, conditionType) ==
    LET find[i \in 1..Len(conditions) + 1] ==
            IF i > Len(conditions) THEN NoCondition
            ELSE IF conditions[i].type = conditionType THEN conditions[i]
            ELSE find[i + 1]
    IN  find[1]

\* getFileds: the namespace, the number of manifests, and the status of the
\* Applied and Available conditions ("" when there is none).
getFileds(work) ==
    [name      |-> work.name,
     cluster   |-> work.namespace,
     number    |-> work.manifests,
     applied   |-> FindStatusCondition(work.conditions, "Applied").status,
     available |-> FindStatusCondition(work.conditions, "Available").status]

\* convertToTree and converToTable: one entry per item of the list, each
\* from getFileds (the tree keys it by work.Name, the table adds a row).
ConvertList(list) == {getFileds(w) : w \in list}

-----------------------------------------------------------------------------
(* The command *)

Init ==
    /\ args \in {<< >>} \cup {<<n>> : n \in WorkNames}
                        \cup {<<n, m>> : n, m \in WorkNames}
    /\ o \in [cluster: Clusters \cup {Empty}, workName: {Empty}]
    /\ hubValid \in BOOLEAN
    /\ printerValid \in BOOLEAN
    /\ pc = "complete"
    /\ err = "none"
    /\ managed \in SUBSET Clusters
    /\ works = {}
    /\ changes = 0
    /\ calls = << >>
    /\ snapshot = {}
    /\ workList = {}
    /\ output = {}

Fail(e) ==
    /\ pc' = "failed" /\ err' = e
    /\ UNCHANGED <<o, calls, snapshot, workList, output>>

\* complete: more than one argument is an error; one names the work.
Complete ==
    /\ pc = "complete"
    /\ IF Len(args) > 1
          THEN Fail("args")
          ELSE /\ pc' = "validate"
               /\ o' = IF Len(args) = 1 THEN [o EXCEPT !.workName = args[1]]
                                        ELSE o
               /\ UNCHANGED <<err, calls, snapshot, workList, output>>

\* Mutant: validate without the cluster-name check.
ValidateNoClusterCheck ==
    /\ pc = "validate"
    /\ \/ ~hubValid /\ Fail("hub")
       \/ hubValid /\ ~printerValid /\ Fail("printer")
       \/ /\ hubValid /\ printerValid /\ pc' = "clients"
          /\ UNCHANGED <<o, err, calls, snapshot, workList, output>>

\* validate: the hub flags, then a cluster name, then the output format;
\* the first check that fails gives the error.
Validate ==
    /\ pc = "validate"
    /\ \/ ~hubValid /\ Fail("hub")
       \/ hubValid /\ o.cluster = Empty /\ Fail("cluster")
       \/ hubValid /\ o.cluster # Empty /\ ~printerValid /\ Fail("printer")
       \/ /\ hubValid /\ o.cluster # Empty /\ printerValid /\ pc' = "clients"
          /\ UNCHANGED <<o, err, calls, snapshot, workList, output>>

\* ToRESTConfig and the two NewForConfig calls build clients without a
\* request; each may fail (no kubeconfig, a malformed one).
BuildClients ==
    /\ pc = "clients"
    /\ \/ /\ pc' = "getCluster"
          /\ UNCHANGED <<o, err, calls, snapshot, workList, output>>
       \/ Fail("config")

\* ManagedClusters().Get(o.cluster): NotFound when the hub holds no such
\* cluster, or a transport error.
GetCluster ==
    /\ pc = "getCluster"
    /\ calls' = Append(calls, "getCluster")
    /\ \/ /\ o.cluster \in managed
          /\ pc' = "list" /\ UNCHANGED err
       \/ /\ o.cluster \notin managed
          /\ pc' = "failed" /\ err' = "notFound"
       \/ pc' = "failed" /\ err' = "network"
    /\ UNCHANGED <<o, snapshot, workList, output>>

\* Mutant: the field selector is left out.
ListWithoutSelector ==
    /\ pc = "list"
    /\ calls' = Append(calls, "list")
    /\ \/ /\ pc' = "print" /\ snapshot' = works
          /\ workList' = {w \in works : w.namespace = o.cluster}
          /\ UNCHANGED err
       \/ /\ pc' = "failed" /\ err' = "network"
          /\ UNCHANGED <<snapshot, workList>>
    /\ UNCHANGED <<o, output>>

\* ManifestWorks(o.cluster).List: every work of the namespace, or, when a
\* name was given, those the field selector "name=<workName>" selects.
List ==
    /\ pc = "list"
    /\ calls' = Append(calls, "list")
    /\ \/ /\ pc' = "print" /\ snapshot' = works
          /\ workList' = {w \in works : /\ w.namespace = o.cluster
                                        /\ o.workName = Empty
                                           \/ w.name = o.workName}
          /\ UNCHANGED err
       \/ /\ pc' = "failed" /\ err' = "network"
          /\ UNCHANGED <<snapshot, workList>>
    /\ UNCHANGED <<o, output>>

\* Mutant: the list is printed without the converters.
ShowWorksUnconverted ==
    /\ pc = "print"
    /\ \/ /\ pc' = "done" /\ output' = workList
          /\ UNCHANGED err
       \/ /\ pc' = "failed" /\ err' = "print"
          /\ UNCHANGED output
    /\ UNCHANGED <<o, calls, snapshot, workList>>

\* printer.ShowWorks with the converters installed; writing may fail.
ShowWorks ==
    /\ pc = "print"
    /\ \/ /\ pc' = "done" /\ output' = ConvertList(workList)
          /\ UNCHANGED err
       \/ /\ pc' = "failed" /\ err' = "print"
          /\ UNCHANGED output
    /\ UNCHANGED <<o, calls, snapshot, workList>>

\* A step of the command, which leaves the command line and the hub alone.
Command ==
    /\ Complete \/ Validate \/ BuildClients \/ GetCluster \/ List \/ ShowWorks
    /\ UNCHANGED <<args, hubValid, printerValid, managed, works, changes>>

-----------------------------------------------------------------------------
(* The hub *)

HubStep ==
    /\ changes < MaxHubChanges
    /\ changes' = changes + 1
    /\ UNCHANGED <<args, o, hubValid, printerValid, pc, err, calls, snapshot,
                   workList, output>>

\* A work is created, or its spec or status rewritten.
HubApplyWork ==
    /\ HubStep
    /\ \E w \in ManifestWork :
          works' = {v \in works : v.name # w.name \/ v.namespace # w.namespace}
                   \cup {w}
    /\ UNCHANGED managed

HubDeleteWork ==
    /\ HubStep
    /\ \E w \in works : works' = works \ {w}
    /\ UNCHANGED managed

\* A ManagedCluster is registered or removed.
HubToggleCluster ==
    /\ HubStep
    /\ \E c \in Clusters :
          managed' = IF c \in managed THEN managed \ {c} ELSE managed \cup {c}
    /\ UNCHANGED works

Hub == HubApplyWork \/ HubDeleteWork \/ HubToggleCluster

Terminated ==
    /\ pc \in {"done", "failed"}
    /\ UNCHANGED vars

Next == Command \/ Hub \/ Terminated

\* No fairness: the Get and the List are sent with context.TODO() and no
\* timeout, so nothing in the code makes the command return if the hub
\* never answers; the properties are safety properties.
Spec == Init /\ [][Next]_vars

-----------------------------------------------------------------------------
(* Properties *)

TypeOK ==
    /\ args \in Seq(WorkNames)
    /\ o \in [cluster: Clusters \cup {Empty}, workName: WorkNames \cup {Empty}]
    /\ hubValid \in BOOLEAN /\ printerValid \in BOOLEAN
    /\ pc \in Steps /\ err \in Errors
    /\ managed \subseteq Clusters
    /\ works \subseteq ManifestWork /\ snapshot \subseteq ManifestWork
    /\ workList \subseteq ManifestWork
    /\ changes \in 0..MaxHubChanges
    /\ calls \in Seq({"getCluster", "list"})
    /\ output \subseteq Row


\* The condition of the type at the lowest index of the list, if any: the
\* status the expected rows of `get work` show.
FirstOfType(conditions, t) ==
    IF \E i \in 1..Len(conditions) : conditions[i].type = t
       THEN conditions[CHOOSE i \in 1..Len(conditions) :
                          /\ conditions[i].type = t
                          /\ \A j \in 1..i - 1 : conditions[j].type # t]
       ELSE NoCondition

\* What `get work` should show for a work: its name and namespace, its
\* number of manifests and the first Applied and Available status.
ExpectedRow(w) ==
    [name |-> w.name, cluster |-> w.namespace, number |-> w.manifests,
     applied |-> FirstOfType(w.conditions, "Applied").status,
     available |-> FirstOfType(w.conditions, "Available").status]

\* A successful `get work` printed exactly the works that the hub held in
\* the cluster's namespace when it answered the List, restricted to the
\* named work when one was given, each with its expected fields, even when
\* the hub changed between the Get of the cluster, the List and the ShowWorks.
OutputMatchesHub ==
    pc = "done" =>
        output = {ExpectedRow(w) :
                    w \in {v \in snapshot :
                              /\ v.namespace = o.cluster
                              /\ args = << >> \/ v.name = args[1]}}

\* No request reaches the hub unless the command line is valid: at most one
\* argument, a cluster name, valid hub flags and a known output format
\* (complete and validate run before run() builds a client).
RequestsOnlyWhenValid ==
    calls # << >> =>
        /\ Len(args) <= 1 /\ o.cluster # Empty
        /\ hubValid /\ printerValid

=============================================================================
