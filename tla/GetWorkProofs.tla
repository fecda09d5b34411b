----------------------------- MODULE GetWorkProofs -----------------------------
(***************************************************************************)
(* TLAPS proofs about `get work`, for all sets of clusters, works and      *)
(* condition lists and every bound on the hub's changes:                   *)
(*  - no request reaches the hub from an invalid command line;            *)
(*  - every state is well typed, and a successful run printed the         *)
(*    expected rows of exactly the works the List returned.               *)
(* RequestsOnlyWhenValid is not inductive by itself: a step from          *)
(* "getCluster" sends the first request, so the invariant also says that  *)
(* every step of run() is reached only from a valid command line and that *)
(* complete and validate have sent nothing.                                *)
(***************************************************************************)
EXTENDS GetWork, SequenceTheorems, WellFoundedInduction, TLAPS

\* What complete and validate established before run() began.
ValidCommandLine ==
    /\ Len(args) <= 1 /\ o.cluster # Empty
    /\ hubValid /\ printerValid

\* The inductive invariant.
ReqInv ==
    /\ args \in Seq(WorkNames)
    /\ calls \in Seq({"getCluster", "list"})
    /\ pc \in {"clients", "getCluster", "list", "print", "done"} =>
          ValidCommandLine
    /\ pc \in {"complete", "validate"} => calls = << >>
    /\ pc = "validate" => Len(args) <= 1
    /\ calls # << >> => ValidCommandLine

THEOREM ReqInit == Init => ReqInv
<1> SUFFICES ASSUME Init PROVE ReqInv
    OBVIOUS
<1>1. args \in Seq(WorkNames)
    <2>1. << >> \in Seq(WorkNames)
        BY EmptySeq
    <2>2. ASSUME NEW n \in WorkNames, NEW m \in WorkNames
          PROVE  <<n>> \in Seq(WorkNames) /\ <<n, m>> \in Seq(WorkNames)
        <3>1. <<n>> = Append(<< >>, n) /\ <<n, m>> = Append(<<n>>, m)
            OBVIOUS
        <3>2. QED
            BY <2>1, <3>1, AppendProperties
    <2>3. \A a \in {<< >>} \cup {<<n>> : n \in WorkNames}
                         \cup {<<n, m>> : n, m \in WorkNames} :
             a \in Seq(WorkNames)
        <3> SUFFICES ASSUME NEW a \in {<< >>} \cup {<<n>> : n \in WorkNames}
                                       \cup {<<n, m>> : n, m \in WorkNames}
                     PROVE  a \in Seq(WorkNames)
            OBVIOUS
        <3>1. CASE a = << >>
            BY <2>1, <3>1
        <3>2. CASE \E n \in WorkNames : a = <<n>>
            BY <2>2, <3>2
        <3>3. CASE \E n, m \in WorkNames : a = <<n, m>>
            BY <2>2, <3>3
        <3>4. QED
            BY <3>1, <3>2, <3>3
    <2>4. QED
        BY <2>3 DEF Init
<1>2. QED
    BY <1>1, EmptySeq DEF Init, ReqInv

\* Each step of the command or of the hub keeps the invariant.
THEOREM ReqNext == ReqInv /\ [Next]_vars => ReqInv'
<1> SUFFICES ASSUME ReqInv, [Next]_vars PROVE ReqInv'
    OBVIOUS
<1>1. CASE Command
    <2> USE <1>1 DEF Command, ReqInv, ValidCommandLine
    <2>1. CASE Complete
        <3>1. CASE Len(args) > 1
            <4>1. pc' = "failed" /\ calls' = calls /\ pc = "complete"
                BY <2>1, <3>1 DEF Complete, Fail
            <4>2. QED
                BY <1>1, <4>1 DEF Command, ReqInv, ValidCommandLine
        <3>2. CASE ~(Len(args) > 1)
            <4>1. pc' = "validate" /\ calls' = calls /\ pc = "complete"
                BY <2>1, <3>2 DEF Complete
            <4>2. Len(args) \in Nat
                BY LenProperties DEF ReqInv
            <4>3. QED
                BY <1>1, <3>2, <4>1, <4>2 DEF Command, ReqInv
        <3>3. QED
            BY <3>1, <3>2
    <2>2. CASE Validate
        <3>1. CASE pc' = "clients"
            <4>1. pc = "validate" /\ hubValid /\ o.cluster # Empty /\ printerValid
                  /\ o' = o /\ calls' = calls
                BY <2>2, <3>1 DEF Validate, Fail
            <4>2. QED
                BY <1>1, <4>1 DEF Command, ReqInv, ValidCommandLine
        <3>2. CASE pc' # "clients"
            <4>1. pc' = "failed" /\ calls' = calls /\ o' = o
                BY <2>2, <3>2 DEF Validate, Fail
            <4>2. QED
                BY <1>1, <4>1 DEF Command, ReqInv, ValidCommandLine
        <3>3. QED
            BY <3>1, <3>2
    <2>3. CASE BuildClients
        BY <2>3 DEF BuildClients, Fail
    <2>4. CASE GetCluster
        BY <2>4, AppendProperties DEF GetCluster
    <2>5. CASE List
        BY <2>5, AppendProperties DEF List
    <2>6. CASE ShowWorks
        BY <2>6 DEF ShowWorks
    <2>7. QED
        BY <2>1, <2>2, <2>3, <2>4, <2>5, <2>6
<1>2. CASE Hub
    BY <1>2 DEF Hub, HubApplyWork, HubDeleteWork, HubToggleCluster, HubStep,
                ReqInv, ValidCommandLine
<1>3. CASE Terminated \/ UNCHANGED vars
    BY <1>3 DEF Terminated, vars, ReqInv, ValidCommandLine
<1>4. QED
    BY <1>1, <1>2, <1>3 DEF Next

\* `get work` never sends the Get of the cluster or the List of its works
\* from a command line that complete or validate rejects, whatever the hub
\* does meanwhile.
THEOREM RequestsOnlyWhenValidHolds == Spec => []RequestsOnlyWhenValid
<1>1. ReqInv => RequestsOnlyWhenValid
    BY DEF ReqInv, ValidCommandLine, RequestsOnlyWhenValid
<1>2. QED
    BY ReqInit, ReqNext, <1>1, PTL DEF Spec

-----------------------------------------------------------------------------
(***************************************************************************)
(* FindStatusCondition is the first condition of the type.  Its LET        *)
(* defines find by a recursive function, which stands for                  *)
(* CHOOSE find : find = FindBody(c, t, find).  The proof exhibits the      *)
(* function that maps i to the first condition of the type at or after i, *)
(* shows that it satisfies that equation, and that nothing else does: two  *)
(* solutions that differ differ at a greatest index, and there both are    *)
(* determined by the next index, where they agree.                         *)
(***************************************************************************)

\* The body of find, for a given function find.
FindBody(c, t, f) ==
    [i \in 1..Len(c) + 1 |->
        IF i > Len(c) THEN NoCondition
        ELSE IF c[i].type = t THEN c[i]
        ELSE f[i + 1]]

LEMMA FindIsChoose ==
    ASSUME NEW c, NEW t
    PROVE  FindStatusCondition(c, t) = (CHOOSE f : f = FindBody(c, t, f))[1]
    BY DEF FindStatusCondition, FindBody


\* Every non-empty set of naturals has a least element.
LEMMA LeastNat ==
    ASSUME NEW T \in SUBSET Nat, T # {}
    PROVE  \E m \in T : \A k \in T : m <= k
<1> DEFINE Less == OpToRel(<, Nat)
<1>1. IsWellFoundedOn(Less, Nat)
    BY NatLessThanWellFounded, Zenon DEF Less
<1>2. PICK x \in T : \A y \in T : ~(<<y, x>> \in Less)
    BY <1>1, WFMin, Zenon
<1>3. \A y \in T : ~(y < x)
    BY <1>2, Zenon DEF Less, OpToRel
<1>4. QED
    BY <1>3

\* Every non-empty set of indexes of a bounded range has a greatest element.
LEMMA GreatestIndex ==
    ASSUME NEW N \in Nat, NEW T \in SUBSET (1..N), T # {}
    PROVE  \E m \in T : \A k \in T : k <= m
<1> DEFINE D == {N - k : k \in T}
<1>1. D \in SUBSET Nat /\ D # {}
    <2>1. \A k \in T : N - k \in Nat
        OBVIOUS
    <2>2. QED
        BY <2>1, Zenon
<1>2. PICK d \in D : \A e \in D : d <= e
    BY <1>1, LeastNat, Zenon
<1>3. PICK m \in T : d = N - m
    BY <1>2, Zenon
<1>4. ASSUME NEW k \in T PROVE k <= m
    <2>1. N - k \in D
        BY Zenon
    <2>2. d <= N - k
        BY <1>2, <2>1, Zenon
    <2>3. QED
        BY <1>3, <2>2
<1>5. QED
    BY <1>4, Zenon

\* k is the first index at or after i of a condition of type t.
IsFirst(c, t, i, k) ==
    /\ k \in i..Len(c) /\ c[k].type = t
    /\ \A j \in i..k - 1 : c[j].type # t

\* The first condition of type t at or after index i.
FirstFrom(c, t, i) ==
    IF \E k \in i..Len(c) : c[k].type = t
       THEN c[CHOOSE k \in i..Len(c) :
                  /\ c[k].type = t
                  /\ \A j \in i..k - 1 : c[j].type # t]
       ELSE NoCondition

\* The solution of find's equation.
Witness(c, t) == [i \in 1..Len(c) + 1 |-> FirstFrom(c, t, i)]

\* There is one first index, and FirstFrom returns its condition.
LEMMA FirstFromIs ==
    ASSUME NEW c \in Seq(Condition), NEW t, NEW i \in 1..Len(c) + 1,
           NEW k, IsFirst(c, t, i, k)
    PROVE  FirstFrom(c, t, i) = c[k]
<1>1. \A k1, k2 : IsFirst(c, t, i, k1) /\ IsFirst(c, t, i, k2) => k1 = k2
    BY LenProperties DEF IsFirst
<1>2. \E x \in i..Len(c) : c[x].type = t
    BY DEF IsFirst
<1>3. IsFirst(c, t, i, CHOOSE x \in i..Len(c) :
                          /\ c[x].type = t
                          /\ \A j \in i..x - 1 : c[j].type # t)
    BY DEF IsFirst
<1>4. QED
    BY <1>1, <1>2, <1>3 DEF FirstFrom


\* When a condition of the type lies at or after i, a first one does.
LEMMA FirstExists ==
    ASSUME NEW c \in Seq(Condition), NEW t, NEW i \in 1..Len(c) + 1,
           \E k \in i..Len(c) : c[k].type = t
    PROVE  \E k : IsFirst(c, t, i, k)
<1> DEFINE S == {k \in i..Len(c) : c[k].type = t}
<1>1. S \in SUBSET Nat /\ S # {}
    OBVIOUS
<1>2. PICK k \in S : \A j \in S : k <= j
    BY <1>1, LeastNat, Zenon
<1>3. IsFirst(c, t, i, k)
    BY <1>2 DEF IsFirst
<1>4. QED
    BY <1>3

\* The witness satisfies find's equation.
LEMMA WitnessSolves ==
    ASSUME NEW c \in Seq(Condition), NEW t
    PROVE  Witness(c, t) = FindBody(c, t, Witness(c, t))
<1> DEFINE L == Len(c)  W == Witness(c, t)
<1>0. L \in Nat
    BY LenProperties
<1> SUFFICES ASSUME NEW i \in 1..L + 1
             PROVE  W[i] = FindBody(c, t, W)[i]
    BY DEF Witness, FindBody
<1>1. CASE i = L + 1
    <2>1. ~\E k \in i..L : c[k].type = t
        BY <1>0, <1>1
    <2>2. QED
        BY <1>1, <2>1 DEF Witness, FirstFrom, FindBody
<1>2. CASE i <= L /\ c[i].type = t
    <2>1. IsFirst(c, t, i, i)
        BY <1>0, <1>2 DEF IsFirst
    <2>2. FirstFrom(c, t, i) = c[i]
        BY <2>1, FirstFromIs
    <2>3. QED
        BY <1>0, <1>2, <2>2 DEF Witness, FindBody
<1>3. CASE i <= L /\ c[i].type # t
    <2>1. FindBody(c, t, W)[i] = FirstFrom(c, t, i + 1)
        BY <1>0, <1>3 DEF Witness, FindBody
    <2>2. CASE \E k \in i + 1..L : c[k].type = t
        <3>0. i + 1 \in 1..Len(c) + 1
            BY <1>0, <1>3
        <3>1. PICK k : IsFirst(c, t, i + 1, k)
            BY <3>0, <2>2, FirstExists, Zenon
        <3>2. IsFirst(c, t, i, k)
            BY <1>0, <1>3, <3>1 DEF IsFirst
        <3>3. FirstFrom(c, t, i) = c[k] /\ FirstFrom(c, t, i + 1) = c[k]
            BY <1>0, <1>3, <3>1, <3>2, FirstFromIs
        <3>4. QED
            BY <2>1, <3>3 DEF Witness
    <2>3. CASE ~\E k \in i + 1..L : c[k].type = t
        <3>1. ~\E k \in i..L : c[k].type = t
            BY <1>0, <1>3, <2>3
        <3>2. FirstFrom(c, t, i) = NoCondition
              /\ FirstFrom(c, t, i + 1) = NoCondition
            BY <2>3, <3>1 DEF FirstFrom
        <3>3. QED
            BY <2>1, <3>2 DEF Witness
    <2>4. QED
        BY <2>2, <2>3
<1>4. QED
    BY <1>0, <1>1, <1>2, <1>3


\* Nothing else satisfies find's equation: a solution that differed from the
\* witness would differ at a greatest index, below which both are fixed.
LEMMA FindUnique ==
    ASSUME NEW c \in Seq(Condition), NEW t, NEW f, f = FindBody(c, t, f)
    PROVE  f = Witness(c, t)
<1> DEFINE L == Len(c)  W == Witness(c, t)
<1>0. L \in Nat
    BY LenProperties
<1>1. W = FindBody(c, t, W)
    BY WitnessSolves
<1> SUFFICES ASSUME f # W PROVE FALSE
    OBVIOUS
<1> DEFINE T == {i \in 1..L + 1 : f[i] # W[i]}
<1>2. T \in SUBSET (1..L + 1) /\ T # {}
    <2>1. \E i \in 1..L + 1 : f[i] # W[i]
        BY <1>1, Zenon DEF FindBody
    <2>2. QED
        BY <2>1
<1>3. PICK m \in T : \A k \in T : k <= m
    <2>1. L + 1 \in Nat
        BY <1>0
    <2>2. QED
        BY <2>1, <1>2, GreatestIndex, Zenon
<1>4. f[m] = FindBody(c, t, f)[m] /\ W[m] = FindBody(c, t, W)[m]
    BY <1>1
<1>5. CASE m = L + 1
    BY <1>3, <1>4, <1>5 DEF FindBody
<1>6. CASE m <= L /\ c[m].type = t
    BY <1>3, <1>4, <1>6 DEF FindBody
<1>7. CASE m <= L /\ c[m].type # t
    <2>1. f[m] = f[m + 1] /\ W[m] = W[m + 1]
        BY <1>4, <1>7 DEF FindBody
    <2>2. m + 1 \in 1..L + 1 /\ m + 1 \notin T
        BY <1>0, <1>3, <1>7
    <2>3. QED
        BY <1>3, <2>1, <2>2
<1>8. QED
    BY <1>0, <1>3, <1>5, <1>6, <1>7

\* The model of meta.FindStatusCondition is FirstOfType, the form the
\* expected rows of OutputMatchesHub are stated in.
LEMMA FindStatusConditionIsFirst ==
    ASSUME NEW c \in Seq(Condition), NEW t
    PROVE  FindStatusCondition(c, t) = FirstOfType(c, t)
<1>1. \E f : f = FindBody(c, t, f)
    BY WitnessSolves
<1>2. (CHOOSE f : f = FindBody(c, t, f)) = Witness(c, t)
    BY <1>1, FindUnique
<1>3. Witness(c, t)[1] = FirstFrom(c, t, 1)
    BY LenProperties DEF Witness
<1>4. FirstFrom(c, t, 1) = FirstOfType(c, t)
    BY DEF FirstFrom, FirstOfType
<1>5. QED
    BY <1>2, <1>3, <1>4, FindIsChoose


-----------------------------------------------------------------------------
(***************************************************************************)
(* What `get work` prints.  OutputMatchesHub is not inductive: it needs    *)
(* that the list the printer received is the hub's answer filtered by the  *)
(* namespace and the name complete took from the arguments, and that the   *)
(* printer printed getFileds of each of its works, which by               *)
(* FindStatusConditionIsFirst is the row the property expects.            *)
(***************************************************************************)

\* The work name complete takes from the arguments.
ArgName == IF Len(args) = 1 THEN args[1] ELSE Empty

\* The inductive invariant.
OutInv ==
    /\ TypeOK
    /\ pc = "complete" => o.workName = Empty
    /\ pc \in {"validate", "clients", "getCluster", "list", "print", "done"} =>
          Len(args) <= 1 /\ o.workName = ArgName
    /\ pc \in {"print", "done"} =>
          workList = {v \in snapshot : /\ v.namespace = o.cluster
                                       /\ \/ o.workName = Empty
                                          \/ v.name = o.workName}
    /\ pc = "done" => output = ConvertList(workList)


\* The reference's status is a condition's status, or "" for none.
LEMMA FirstOfTypeStatus ==
    ASSUME NEW c \in Seq(Condition), NEW t
    PROVE  FirstOfType(c, t).status \in ConditionStatuses \cup {Empty}
<1>1. CASE \E k \in 1..Len(c) : c[k].type = t
    <2>0. 1 \in 1..Len(c) + 1
        BY LenProperties
    <2>1. PICK k : IsFirst(c, t, 1, k)
        BY <1>1, <2>0, FirstExists
    <2>2. FirstOfType(c, t) = c[k]
        BY <2>0, <2>1, FirstFromIs DEF FirstFrom, FirstOfType
    <2>3. c[k] \in Condition
        BY <2>1 DEF IsFirst
    <2>4. QED
        BY <2>2, <2>3 DEF Condition
<1>2. CASE ~\E k \in 1..Len(c) : c[k].type = t
    BY <1>2 DEF FirstOfType, NoCondition
<1>3. QED
    BY <1>1, <1>2

\* getFileds of a work is a row, and the row the properties expect.
LEMMA RowOf ==
    ASSUME NEW w \in ManifestWork
    PROVE  getFileds(w) \in Row /\ getFileds(w) = ExpectedRow(w)
<1>1. w.conditions \in Seq(Condition)
    BY ConditionListsAssumption DEF ManifestWork
<1>2. /\ FindStatusCondition(w.conditions, "Applied")
            = FirstOfType(w.conditions, "Applied")
      /\ FindStatusCondition(w.conditions, "Available")
            = FirstOfType(w.conditions, "Available")
    BY <1>1, FindStatusConditionIsFirst
<1>3. /\ FirstOfType(w.conditions, "Applied").status
            \in ConditionStatuses \cup {Empty}
      /\ FirstOfType(w.conditions, "Available").status
            \in ConditionStatuses \cup {Empty}
    BY <1>1, FirstOfTypeStatus
<1>4. QED
    BY <1>2, <1>3 DEF getFileds, ExpectedRow, Row, ManifestWork


THEOREM OutInit == Init => OutInv
<1> SUFFICES ASSUME Init PROVE OutInv
    OBVIOUS
<1>1. args \in Seq(WorkNames)
    BY ReqInit DEF ReqInv
<1>2. TypeOK
    BY <1>1, EmptySeq, GetWorkAssumption DEF Init, TypeOK, Steps, Errors
<1>3. QED
    BY <1>2 DEF Init, OutInv

\* Each step of the command or of the hub keeps the invariant.
THEOREM OutNext == OutInv /\ [Next]_vars => OutInv'
<1> SUFFICES ASSUME OutInv, [Next]_vars PROVE OutInv'
    OBVIOUS
<1>0. TypeOK
    BY DEF OutInv
<1>1. CASE Command
    <2> USE <1>1 DEF Command
    <2>1. CASE Complete
        <3>1. CASE Len(args) > 1
            BY <1>0, <2>1, <3>1 DEF Complete, Fail, OutInv, TypeOK, Errors,
                                    Steps
        <3>2. CASE ~(Len(args) > 1)
            <4>1. Len(args) \in Nat /\ (Len(args) = 1 => args[1] \in WorkNames)
                BY <1>0, LenProperties DEF TypeOK
            <4>2. pc = "complete" /\ pc' = "validate" /\ Len(args) <= 1
                BY <2>1, <3>2, <4>1 DEF Complete
            <4>3. o' \in [cluster: Clusters \cup {Empty},
                          workName: WorkNames \cup {Empty}]
                  /\ o'.workName = ArgName
                BY <1>0, <2>1, <3>2, <4>1, <4>2 DEF Complete, OutInv, ArgName,
                                                    TypeOK
            <4>4. QED
                BY <1>0, <2>1, <3>2, <4>2, <4>3 DEF Complete, OutInv, TypeOK,
                                                    ArgName, Steps
        <3>3. QED
            BY <3>1, <3>2
    <2>2. CASE Validate
        BY <1>0, <2>2 DEF Validate, Fail, OutInv, TypeOK, ArgName, Errors,
                          Steps
    <2>3. CASE BuildClients
        BY <1>0, <2>3 DEF BuildClients, Fail, OutInv, TypeOK, ArgName,
                          Errors, Steps
    <2>4. CASE GetCluster
        BY <1>0, <2>4, AppendProperties DEF GetCluster, OutInv, TypeOK,
                                            ArgName, Errors, Steps
    <2>5. CASE List
        BY <1>0, <2>5, AppendProperties DEF List, OutInv, TypeOK, ArgName,
                                            Errors, Steps
    <2>6. CASE ShowWorks
        <3>1. ConvertList(workList) \subseteq Row
            BY <1>0, RowOf DEF ConvertList, TypeOK
        <3>2. QED
            BY <1>0, <2>6, <3>1 DEF ShowWorks, OutInv, TypeOK, ArgName,
                                    Errors, Steps
    <2>7. QED
        BY <2>1, <2>2, <2>3, <2>4, <2>5, <2>6
<1>2. CASE Hub
    <2>1. works' \subseteq ManifestWork /\ managed' \subseteq Clusters
          /\ changes' \in 0..MaxHubChanges
        <3>1. changes' \in 0..MaxHubChanges
            BY <1>0, <1>2, GetWorkAssumption
            DEF Hub, HubApplyWork, HubDeleteWork, HubToggleCluster, HubStep,
                TypeOK
        <3>2. CASE HubApplyWork
            BY <1>0, <3>1, <3>2 DEF HubApplyWork, TypeOK
        <3>3. CASE HubDeleteWork
            BY <1>0, <3>1, <3>3 DEF HubDeleteWork, TypeOK
        <3>4. CASE HubToggleCluster
            BY <1>0, <3>1, <3>4 DEF HubToggleCluster, TypeOK
        <3>5. QED
            BY <1>2, <3>2, <3>3, <3>4 DEF Hub
    <2>2. UNCHANGED <<args, o, hubValid, printerValid, pc, err, calls,
                      snapshot, workList, output>>
        BY <1>2 DEF Hub, HubApplyWork, HubDeleteWork, HubToggleCluster,
                    HubStep
    <2>3. QED
        BY <1>0, <2>1, <2>2 DEF OutInv, TypeOK, ArgName
<1>3. CASE Terminated \/ UNCHANGED vars
    BY <1>3 DEF Terminated, vars, OutInv, TypeOK, ArgName
<1>4. QED
    BY <1>1, <1>2, <1>3 DEF Next


\* The hub only ever holds works, and the printer only ever prints rows, of
\* the types the command and the hub use (status.conditions included).
THEOREM GetWorkTypeCorrect == Spec => []TypeOK
<1>1. OutInv => TypeOK
    BY DEF OutInv
<1>2. QED
    BY OutInit, OutNext, <1>1, PTL DEF Spec

\* The invariant gives the property: the printed rows are getFileds of the
\* listed works, which are the expected rows, and the filter on the name
\* complete stored is the filter on the argument.
LEMMA OutSafe == OutInv => OutputMatchesHub
<1> SUFFICES ASSUME OutInv, pc = "done"
             PROVE  output = {ExpectedRow(w) :
                                w \in {v \in snapshot :
                                         /\ v.namespace = o.cluster
                                         /\ args = << >> \/ v.name = args[1]}}
    BY DEF OutputMatchesHub
<1>1. /\ args \in Seq(WorkNames) /\ Len(args) <= 1 /\ o.workName = ArgName
      /\ workList \subseteq ManifestWork /\ snapshot \subseteq ManifestWork
      /\ output = ConvertList(workList)
    BY DEF OutInv, TypeOK
<1>2. ASSUME NEW v \in snapshot
      PROVE  (o.workName = Empty \/ v.name = o.workName)
               <=> (args = << >> \/ v.name = args[1])
    <2>1. v.name \in WorkNames
        BY <1>1 DEF ManifestWork
    <2>2. CASE Len(args) = 0
        BY <1>1, <2>2, EmptySeq DEF ArgName
    <2>3. CASE Len(args) = 1
        <3>1. args # << >>
            BY <2>3
        <3>2. o.workName = args[1] /\ args[1] \in WorkNames
            BY <1>1, <2>3, ElementOfSeq DEF ArgName
        <3>3. QED
            BY <2>1, <3>1, <3>2, GetWorkAssumption
    <2>4. Len(args) = 0 \/ Len(args) = 1
        <3>1. args \in Seq(WorkNames) /\ Len(args) <= 1
            BY <1>1
        <3>2. Len(args) \in Nat
            BY <3>1, LenProperties
        <3>3. \A n \in Nat : n <= 1 => n = 0 \/ n = 1
            OBVIOUS
        <3>4. QED
            BY <3>1, <3>2, <3>3, Zenon
    <2>5. QED
        BY <2>2, <2>3, <2>4
<1>3. workList = {v \in snapshot : /\ v.namespace = o.cluster
                                   /\ args = << >> \/ v.name = args[1]}
    <2>1. workList = {v \in snapshot : /\ v.namespace = o.cluster
                                       /\ \/ o.workName = Empty
                                          \/ v.name = o.workName}
        BY DEF OutInv
    <2>2. QED
        BY <2>1, <1>2
<1>4. \A w \in workList : getFileds(w) = ExpectedRow(w)
    BY <1>1, RowOf
<1>5. QED
    BY <1>1, <1>3, <1>4 DEF ConvertList

\* OutputMatchesHub holds in every state: what a successful `get work`
\* printed is the hub's answer to the List, filtered and converted as the
\* command means to, for every number of clusters, works and hub changes.
THEOREM OutputMatchesHubHolds == Spec => []OutputMatchesHub
BY OutInit, OutNext, OutSafe, PTL DEF Spec


=============================================================================
