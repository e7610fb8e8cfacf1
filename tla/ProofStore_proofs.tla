--------------------------- MODULE ProofStore_proofs ---------------------------
(***************************************************************************)
(* Theorems about ProofStore for any number of companies, drivers,         *)
(* deliveries, proofs and concurrent calls: the types, the lifecycle of a  *)
(* delivery and its refinement, the tenants, the capture rules and sending *)
(* a proof again.                                                          *)
(***************************************************************************)
EXTENDS ProofStore, TLAPS

-----------------------------------------------------------------------------
(* Type correctness.                                                        *)

\* A proof call that goes on keeps its request, one that ends forgets it.
LEMMA ProofCallTypes ==
  ASSUME ConstantsAssumption, ProofCallsTypeOK, NEW c \in ProofCalls,
         \/ /\ step[c] \in Running
            /\ \E next \in Running : Continue(c, next)
            /\ seen' \in [ProofCalls -> Statuses]
         \/ \E answer \in Answers : Answer(c, answer)
  PROVE  ProofCallsTypeOK'
<1>1. CASE /\ step[c] \in Running
           /\ \E next \in Running : Continue(c, next)
           /\ seen' \in [ProofCalls -> Statuses]
  <2>1. PICK next \in Running : Continue(c, next)
    BY <1>1
  <2>2. next \in ProofSteps
    BY DEF ProofSteps
  <2>3. QED
    BY <1>1, <2>1, <2>2 DEF ProofCallsTypeOK, Continue
<1>2. CASE \E answer \in Answers : Answer(c, answer)
  <2>1. PICK answer \in Answers : Answer(c, answer)
    BY <1>2
  <2>2. answer \in ProofSteps /\ answer \notin Running
    BY DEF ProofSteps, Answers, Running, Confirmed, Rejected, Conflict, Unprocessable
  <2>3. QED
    BY <2>1, <2>2 DEF ProofCallsTypeOK, Answer, DriverOrNone, Statuses
<1>3. QED
  BY <1>1, <1>2

\* Every statement of a proof call leaves its own variables well typed.
LEMMA ProofCallKeepsTypes ==
  ASSUME ConstantsAssumption, TypeOK, NEW c \in ProofCalls, ProofCall(c)
  PROVE  TypeOK'
<1> USE DEF TypeOK
<1>1. ASSUME NEW u \in Uuids, RefuseMalformed(c, u) PROVE TypeOK'
  <2>1. ProofCallsTypeOK'
    BY <1>1, ProofCallTypes DEF RefuseMalformed, Answers, Rejected
  <2>2. QED
    BY <1>1, <2>1 DEF RefuseMalformed, tables, deskVars, TablesTypeOK, DeskTypeOK
<1>2. ASSUME NEW u \in Uuids, NEW r \in Drivers, Receive(c, u, r) PROVE TypeOK'
  <2>1. ProofCallsTypeOK'
    BY <1>2 DEF Receive, ProofCallsTypeOK, ProofSteps, Running, DriverOrNone, NotRequiredBy
  <2>2. QED
    BY <1>2, <2>1 DEF Receive, tables, deskVars, TablesTypeOK, DeskTypeOK
<1>3. CASE Dedupe(c)
  <2>1. ProofCallsTypeOK'
    BY <1>3, ProofCallTypes
    DEF Dedupe, Answers, Confirmed, Running, ProofCallsTypeOK
  <2>2. QED
    BY <1>3, <2>1 DEF Dedupe, tables, deskVars, TablesTypeOK, DeskTypeOK
<1>4. CASE ReadDelivery(c)
  <2>1. Content[uuid[c]].delivery \in Deliveries
    BY <1>4 DEF ReadDelivery, ProofCallsTypeOK, Running, ConstantsAssumption, ProofContent
  <2>2. seen' = [seen EXCEPT ![c] = status[Content[uuid[c]].delivery]]
          => seen' \in [ProofCalls -> Statuses]
    BY <2>1 DEF ProofCallsTypeOK, TablesTypeOK
  <2>3. ProofCallsTypeOK'
    BY <1>4, <2>2, ProofCallTypes
    DEF ReadDelivery, Answers, Rejected, Running
  <2>4. QED
    BY <1>4, <2>3 DEF ReadDelivery, tables, deskVars, TablesTypeOK, DeskTypeOK
<1>5. CASE ReadExisting(c)
  <2>1. ProofCallsTypeOK'
    BY <1>5, ProofCallTypes
    DEF ReadExisting, AfterLifecycleChecks, Answers, Rejected, Conflict, Running, ProofCallsTypeOK
  <2>2. QED
    BY <1>5, <2>1 DEF ReadExisting, tables, deskVars, TablesTypeOK, DeskTypeOK
<1>6. CASE ReadPickup(c)
  <2>1. ProofCallsTypeOK'
    BY <1>6, ProofCallTypes
    DEF ReadPickup, AfterLifecycleChecks, Answers, Rejected, Conflict, Running, ProofCallsTypeOK
  <2>2. QED
    BY <1>6, <2>1 DEF ReadPickup, tables, deskVars, TablesTypeOK, DeskTypeOK
<1>7. CASE ReadSettings(c)
  <2>1. ProofCallsTypeOK'
    BY <1>7, ProofCallTypes
    DEF ReadSettings, Answers, Rejected, Unprocessable, Running, ProofCallsTypeOK
  <2>2. QED
    BY <1>7, <2>1 DEF ReadSettings, tables, deskVars, TablesTypeOK, DeskTypeOK
<1>8. CASE Insert(c)
  <2>1. ProofCallsTypeOK'
    BY <1>8, ProofCallTypes DEF Insert, Answers, Confirmed
  <2>2. /\ uuid[c] \in Uuids /\ caller[c] \in DriverOrNone
        /\ Content[uuid[c]].delivery \in Deliveries
    BY <1>8 DEF Insert, ProofCallsTypeOK, Running, ConstantsAssumption, ProofContent
  <2>3. StatusAfter(Content[uuid[c]]) \in Statuses
    BY DEF StatusAfter, Statuses
  <2>4. TablesTypeOK'
    BY <1>8, <2>2, <2>3 DEF Insert, TablesTypeOK
  <2>5. QED
    BY <1>8, <2>1, <2>4 DEF Insert, deskVars, DeskTypeOK
<1>9. CASE Cancel(c)
  <2>1. ProofCallsTypeOK'
    BY <1>9, ProofCallTypes DEF Cancel, Answers
  <2>2. QED
    BY <1>9, <2>1 DEF Cancel, tables, deskVars, TablesTypeOK, DeskTypeOK
<1>10. QED
  BY <1>1, <1>2, <1>3, <1>4, <1>5, <1>6, <1>7, <1>8, <1>9 DEF ProofCall

\* Every statement of a desk call leaves its own variables and the tables well typed.
LEMMA DeskCallKeepsTypes ==
  ASSUME ConstantsAssumption, TypeOK, NEW a \in DeskCalls, DeskCall(a)
  PROVE  TypeOK'
<1> USE DEF TypeOK
<1>1. ASSUME NEW to \in DeskRunning, deskStep[a] \in DeskRunning, DeskGoes(a, to)
      PROVE  DeskTypeOK'
  BY <1>1 DEF DeskTypeOK, DeskGoes, DeskSteps
<1>2. ASSUME DeskEnds(a) PROVE DeskTypeOK'
  <2>1. <<"idle">> \in DeskSteps /\ <<"idle">> \notin DeskRunning
    BY DEF DeskSteps, DeskRunning
  <2>2. QED
    BY <1>2, <2>1 DEF DeskTypeOK, DeskEnds
<1>3. ASSUME NEW op \in {"create", "assign"}, NEW d \in Deliveries, NEW r \in DriverOrNone,
             NEW k \in Companies, BeginDesk(a, op, d, r, k)
      PROVE  TypeOK'
  <2>1. <<op, "findDelivery">> \in DeskSteps
    BY DEF DeskSteps, DeskRunning
  <2>2. DeskTypeOK'
    BY <1>3, <2>1 DEF BeginDesk, DeskTypeOK, Orders
  <2>3. QED
    BY <1>3, <2>2 DEF BeginDesk, tables, proofCallVars, TablesTypeOK, ProofCallsTypeOK
<1>4. CASE FindDelivery(a)
  <2>1. /\ deskStep[a] \in DeskRunning
        /\ <<deskStep[a][1], "findDriver">> \in DeskRunning
    BY <1>4 DEF FindDelivery, DeskRunning
  <2>2. DeskTypeOK'
    BY <1>1, <1>2, <1>4, <2>1 DEF FindDelivery
  <2>3. QED
    BY <1>4, <2>2 DEF FindDelivery, tables, proofCallVars, TablesTypeOK, ProofCallsTypeOK
<1>5. CASE FindDriver(a)
  <2>1. /\ deskStep[a] \in DeskRunning
        /\ <<deskStep[a][1], IF deskStep[a][1] = "create" THEN "write" ELSE "readStatus">>
             \in DeskRunning
    BY <1>5 DEF FindDriver, DeskRunning
  <2>2. DeskTypeOK'
    BY <1>1, <1>2, <1>5, <2>1 DEF FindDriver
  <2>3. QED
    BY <1>5, <2>2 DEF FindDriver, tables, proofCallVars, TablesTypeOK, ProofCallsTypeOK
<1>6. CASE ReadStatus(a)
  <2>1. deskStep[a] \in DeskRunning /\ <<"assign", "write">> \in DeskRunning
    BY <1>6 DEF ReadStatus, DeskRunning
  <2>2. DeskTypeOK'
    BY <1>1, <1>2, <1>6, <2>1 DEF ReadStatus
  <2>3. QED
    BY <1>6, <2>2 DEF ReadStatus, tables, proofCallVars, TablesTypeOK, ProofCallsTypeOK
<1>7. CASE InsertDelivery(a)
  <2>1. order[a][1] \in Deliveries /\ order[a][2] \in DriverOrNone
    <3>1. <<"create", "write">> \in DeskRunning
      BY DEF DeskRunning
    <3>2. QED
      BY <1>7, <3>1 DEF InsertDelivery, DeskTypeOK, Orders
  <2>2. TablesTypeOK'
    BY <1>7, <2>1 DEF InsertDelivery, TablesTypeOK, Statuses
  <2>3. DeskTypeOK'
    BY <1>2, <1>7 DEF InsertDelivery
  <2>4. QED
    BY <1>7, <2>2, <2>3 DEF InsertDelivery, proofCallVars, ProofCallsTypeOK
<1>8. CASE UpdateAssignee(a)
  <2>1. order[a][1] \in Deliveries /\ order[a][2] \in DriverOrNone
    <3>1. <<"assign", "write">> \in DeskRunning
      BY DEF DeskRunning
    <3>2. QED
      BY <1>8, <3>1 DEF UpdateAssignee, DeskTypeOK, Orders
  <2>2. TablesTypeOK'
    BY <1>8, <2>1 DEF UpdateAssignee, TablesTypeOK
  <2>3. DeskTypeOK'
    BY <1>2, <1>8 DEF UpdateAssignee
  <2>4. QED
    BY <1>8, <2>2, <2>3 DEF UpdateAssignee, proofCallVars, ProofCallsTypeOK
<1>9. QED
  BY <1>3, <1>4, <1>5, <1>6, <1>7, <1>8 DEF DeskCall

\* So do the two administrative calls, each a single statement.
LEMMA AdministrationKeepsTypes ==
  ASSUME ConstantsAssumption, TypeOK,
         \/ \E k \in Companies, q \in SettingsMenu : UpdateSettings(k, q)
         \/ \E r \in Drivers, b \in BOOLEAN : SetDriverActive(r, b)
  PROVE  TypeOK'
<1> USE DEF TypeOK, TablesTypeOK
<1>1. ASSUME NEW k \in Companies, NEW q \in SettingsMenu, UpdateSettings(k, q) PROVE TypeOK'
  <2>1. q \in SUBSET Requirements
    BY DEF ConstantsAssumption
  <2>2. TablesTypeOK'
    BY <1>1, <2>1 DEF UpdateSettings
  <2>3. QED
    BY <1>1, <2>2 DEF UpdateSettings, ProofCallsTypeOK, deskVars, DeskTypeOK
<1>2. ASSUME NEW r \in Drivers, NEW b \in BOOLEAN, SetDriverActive(r, b) PROVE TypeOK'
  BY <1>2 DEF SetDriverActive, ProofCallsTypeOK, DeskTypeOK, proofCallVars, deskVars
<1>3. QED
  BY <1>1, <1>2

\* All variables keep the types of TypeOK, whatever calls run concurrently.
THEOREM TypeCorrect == Spec => []TypeOK
<1> USE ConstantsAssumption
<1>1. Init => TypeOK
  BY DEF Init, TypeOK, TablesTypeOK, ProofCallsTypeOK, DeskTypeOK, Statuses, DriverOrNone,
         Requirements, ProofSteps, Running, DeskSteps, DeskRunning
<1>2. TypeOK /\ [Next]_vars => TypeOK'
  <2> SUFFICES ASSUME TypeOK, [Next]_vars PROVE TypeOK'
    OBVIOUS
  <2>1. CASE UNCHANGED vars
    BY <2>1 DEF vars, tables, proofCallVars, deskVars, TypeOK, TablesTypeOK,
                ProofCallsTypeOK, DeskTypeOK
  <2>2. QED
    BY <2>1, ProofCallKeepsTypes, DeskCallKeepsTypes, AdministrationKeepsTypes DEF Next
<1>3. QED
  BY <1>1, <1>2, PTL DEF Spec

-----------------------------------------------------------------------------
(* The lifecycle.  The procedure reads rows, forgets the locks and writes;  *)
(* the two unique keys and the monotonicity of the tables are what makes    *)
(* the old reads good enough.                                               *)

\* Only what passed the validator is executed or stored.
SentWellFormed ==
  /\ \A u \in Uuids : IsRecorded(u) => WellFormed(Content[u])
  /\ \A c \in ProofCalls : step[c] \in Running => WellFormed(Content[uuid[c]])

\* The inductive invariant: the last three parts are inductive only together.
IInv ==
  /\ TypeOK
  /\ SentWellFormed
  /\ OneProofPerType
  /\ StatusMatchesProofs
  /\ ReadsStayTrue

\* The two ways in which a step changes the deliveries and the proofs.
Opens(d) ==
  /\ status[d] = "Absent"
  /\ status' = [status EXCEPT ![d] = "Pending"]
  /\ UNCHANGED proof

Stores(u, r) ==
  /\ ~ViolatesUniqueKey(u)
  /\ proof' = [proof EXCEPT ![u] = r]
  /\ status' = [status EXCEPT ![Content[u].delivery] = StatusAfter(Content[u])]

\* What is sent under a uuid has the fields of a proof.
LEMMA ContentType ==
  ASSUME ConstantsAssumption, NEW u \in Uuids
  PROVE  /\ Content[u].delivery \in Deliveries
         /\ Content[u].type \in {"Pickup", "Delivery"}
         /\ Content[u].status \in {"PickedUp", "Delivered", "Failed"}
BY DEF ConstantsAssumption, ProofContent

\* Every step opens an order, stores one proof, or leaves both tables alone.
LEMMA TableSteps ==
  ASSUME ConstantsAssumption, TypeOK, [Next]_vars
  PROVE  \/ UNCHANGED <<status, proof>>
         \/ \E d \in Deliveries : Opens(d)
         \/ \E c \in ProofCalls : step[c] = "insert" /\ Stores(uuid[c], caller[c])
<1>1. ASSUME NEW c \in ProofCalls, ProofCall(c)
      PROVE  \/ UNCHANGED <<status, proof>>
             \/ step[c] = "insert" /\ Stores(uuid[c], caller[c])
  BY <1>1 DEF ProofCall, RefuseMalformed, Receive, Dedupe, ReadDelivery, ReadExisting,
              ReadPickup, ReadSettings, Insert, Cancel, tables, Stores
<1>2. ASSUME NEW a \in DeskCalls, DeskCall(a)
      PROVE  UNCHANGED <<status, proof>> \/ \E d \in Deliveries : Opens(d)
  <2>1. CASE InsertDelivery(a)
    <3>1. order[a][1] \in Deliveries
      <4>1. <<"create", "write">> \in DeskRunning
        BY DEF DeskRunning
      <4>2. QED
        BY <2>1, <4>1 DEF InsertDelivery, TypeOK, DeskTypeOK, Orders
    <3>2. QED
      BY <2>1, <3>1 DEF InsertDelivery, Opens
  <2>2. CASE ~InsertDelivery(a)
    BY <1>2, <2>2 DEF DeskCall, BeginDesk, FindDelivery, FindDriver, ReadStatus,
                      UpdateAssignee, tables
  <2>3. QED
    BY <2>1, <2>2
<1>3. ASSUME NEW k \in Companies, NEW q \in SettingsMenu, UpdateSettings(k, q)
      PROVE  UNCHANGED <<status, proof>>
  BY <1>3 DEF UpdateSettings
<1>4. ASSUME NEW r \in Drivers, NEW b \in BOOLEAN, SetDriverActive(r, b)
      PROVE  UNCHANGED <<status, proof>>
  BY <1>4 DEF SetDriverActive
<1>5. CASE UNCHANGED vars
  BY <1>5 DEF vars, tables
<1>6. CASE Next
  <2>1. CASE \E c \in ProofCalls : ProofCall(c)
    BY <1>1, <2>1
  <2>2. CASE \E a \in DeskCalls : DeskCall(a)
    BY <1>2, <2>2
  <2>3. CASE \E k \in Companies, q \in SettingsMenu : UpdateSettings(k, q)
    BY <1>3, <2>3
  <2>4. CASE \E r \in Drivers, b \in BOOLEAN : SetDriverActive(r, b)
    BY <1>4, <2>4
  <2>5. QED
    BY <1>6, <2>1, <2>2, <2>3, <2>4 DEF Next
<1>7. QED
  BY <1>5, <1>6

\* Orders are never withdrawn and proofs never deleted.
LEMMA TablesGrow ==
  ASSUME ConstantsAssumption, TypeOK, [Next]_vars
  PROVE  /\ \A d \in Deliveries : status[d] # "Absent" => status'[d] # "Absent"
         /\ \A u \in Uuids : IsRecorded(u) => IsRecorded(u)'
         /\ \A d \in Deliveries : PickupSucceeded(d) => PickupSucceeded(d)'
<1>1. /\ \A d \in Deliveries : status[d] # "Absent" => status'[d] # "Absent"
      /\ \A u \in Uuids : IsRecorded(u) => IsRecorded(u)'
  <2>1. CASE UNCHANGED <<status, proof>>
    BY <2>1 DEF IsRecorded
  <2>2. ASSUME NEW d \in Deliveries, Opens(d) PROVE <1>1!1 /\ <1>1!2
    BY <2>2 DEF Opens, IsRecorded, TypeOK, TablesTypeOK
  <2>3. ASSUME NEW c \in ProofCalls, step[c] = "insert", Stores(uuid[c], caller[c])
        PROVE  <1>1!1 /\ <1>1!2
    <3>1. uuid[c] \in Uuids
      BY <2>3 DEF TypeOK, ProofCallsTypeOK, Running
    <3>2. StatusAfter(Content[uuid[c]]) # "Absent"
      BY DEF StatusAfter
    <3>3. QED
      BY <2>3, <3>1, <3>2, ContentType
      DEF Stores, ViolatesUniqueKey, IsRecorded, TypeOK, TablesTypeOK
  <2>4. QED
    BY <2>1, <2>2, <2>3, TableSteps
<1>2. \A d \in Deliveries : PickupSucceeded(d) => PickupSucceeded(d)'
  <2>1. SUFFICES ASSUME NEW d \in Deliveries, PickupSucceeded(d) PROVE PickupSucceeded(d)'
    OBVIOUS
  <2>2. PICK v \in Uuids : /\ IsRecorded(v)
                           /\ Content[v].delivery = d
                           /\ Content[v].type = "Pickup"
                           /\ Content[v].status = "PickedUp"
    BY <2>1 DEF PickupSucceeded, ProofsOf
  <2>3. IsRecorded(v)'
    BY <1>1, <2>2
  <2>4. QED
    BY <2>2, <2>3 DEF PickupSucceeded, ProofsOf
<1>3. QED
  BY <1>1, <1>2

\* A stored proof has moved its delivery on.
LEMMA RecordedMovesOn ==
  ASSUME ConstantsAssumption, IInv, NEW u \in Uuids, IsRecorded(u)
  PROVE  status[Content[u].delivery] \notin {"Absent", "Pending"}
<1>1. Content[u].status \notin {"Absent", "Pending"}
  BY ContentType
<1>2. CASE Content[u].type = "Delivery"
  BY <1>1, <1>2 DEF IInv, StatusMatchesProofs
<1>3. CASE Content[u].type = "Pickup"
  <2>1. CASE HasProof(Content[u].delivery, "Delivery")
    <3>1. PICK v \in Uuids : /\ IsRecorded(v)
                             /\ Content[v].delivery = Content[u].delivery
                             /\ Content[v].type = "Delivery"
      BY <2>1 DEF HasProof, ProofsOf
    <3>2. Content[v].status \notin {"Absent", "Pending"}
      BY ContentType
    <3>3. QED
      BY <3>1, <3>2 DEF IInv, StatusMatchesProofs
  <2>2. CASE status[Content[u].delivery] = Content[u].status
    BY <1>1, <2>2
  <2>3. QED
    BY <1>3, <2>1, <2>2 DEF IInv, StatusMatchesProofs
<1>4. QED
  BY <1>2, <1>3, ContentType

\* A delivery in status PickedUp stands on a successful pickup proof.
LEMMA PickedUpHasProof ==
  ASSUME ConstantsAssumption, IInv, NEW d \in Deliveries, status[d] = "PickedUp"
  PROVE  PickupSucceeded(d)
<1>1. PICK v \in Uuids : IsRecorded(v) /\ Content[v].delivery = d /\ Content[v].type = "Pickup"
  BY DEF IInv, StatusMatchesProofs, HasProof, ProofsOf
<1>2. ~HasProof(d, "Delivery")
  <2>1. SUFFICES ASSUME NEW u \in Uuids, IsRecorded(u), Content[u].delivery = d,
                        Content[u].type = "Delivery"
                 PROVE  FALSE
    BY DEF HasProof, ProofsOf
  <2>2. Content[u].status = "PickedUp"
    BY <2>1 DEF IInv, StatusMatchesProofs
  <2>3. WellFormed(Content[u])
    BY <2>1 DEF IInv, SentWellFormed
  <2>4. QED
    BY <2>1, <2>2, <2>3 DEF WellFormed
<1>3. Content[v].status = "PickedUp"
  BY <1>1, <1>2 DEF IInv, StatusMatchesProofs
<1>4. QED
  BY <1>1, <1>3 DEF PickupSucceeded, ProofsOf

\* A proof call that does not act keeps what it knows.
Undisturbed(c) ==
  /\ step'[c] = step[c]
  /\ uuid'[c] = uuid[c]
  /\ caller'[c] = caller[c]
  /\ seen'[c] = seen[c]

\* A step of the system is the step of one proof call, or leaves every call alone.
LEMMA CallSteps ==
  ASSUME TypeOK, [Next]_vars, NEW c \in ProofCalls
  PROVE  ProofCall(c) \/ Undisturbed(c)
<1>1. ASSUME NEW e \in ProofCalls, ProofCall(e), e # c PROVE Undisturbed(c)
  <2> USE DEF TypeOK, ProofCallsTypeOK, Undisturbed, Continue, Answer
  <2>1. CASE \E u \in Uuids : RefuseMalformed(e, u)
    BY <1>1, <2>1 DEF RefuseMalformed
  <2>2. CASE \E u \in Uuids, r \in Drivers : Receive(e, u, r)
    BY <1>1, <2>2 DEF Receive
  <2>3. CASE Dedupe(e)
    BY <1>1, <2>3 DEF Dedupe
  <2>4. CASE ReadDelivery(e)
    BY <1>1, <2>4 DEF ReadDelivery
  <2>5. CASE ReadExisting(e)
    BY <1>1, <2>5 DEF ReadExisting
  <2>6. CASE ReadPickup(e)
    BY <1>1, <2>6 DEF ReadPickup
  <2>7. CASE ReadSettings(e)
    BY <1>1, <2>7 DEF ReadSettings
  <2>8. CASE Insert(e)
    BY <1>1, <2>8 DEF Insert
  <2>9. CASE Cancel(e)
    BY <1>1, <2>9 DEF Cancel
  <2>10. QED
    BY <1>1, <2>1, <2>2, <2>3, <2>4, <2>5, <2>6, <2>7, <2>8, <2>9 DEF ProofCall
<1>2. ASSUME NEW a \in DeskCalls, DeskCall(a) PROVE Undisturbed(c)
  BY <1>2 DEF DeskCall, BeginDesk, FindDelivery, FindDriver, ReadStatus, InsertDelivery,
              UpdateAssignee, proofCallVars, Undisturbed
<1>3. ASSUME NEW k \in Companies, NEW q \in SettingsMenu, UpdateSettings(k, q)
      PROVE  Undisturbed(c)
  BY <1>3 DEF UpdateSettings, Undisturbed
<1>4. ASSUME NEW r \in Drivers, NEW b \in BOOLEAN, SetDriverActive(r, b)
      PROVE  Undisturbed(c)
  BY <1>4 DEF SetDriverActive, proofCallVars, Undisturbed
<1>5. CASE UNCHANGED vars
  BY <1>5 DEF vars, proofCallVars, Undisturbed
<1>6. CASE \E e \in ProofCalls : ProofCall(e)
  BY <1>1, <1>6
<1>7. QED
  BY <1>2, <1>3, <1>4, <1>5, <1>6 DEF Next

\* What an acting call may still be running with.
LEMMA CallGoesOn ==
  ASSUME ConstantsAssumption, TypeOK, NEW c \in ProofCalls, ProofCall(c), step'[c] \in Running
  PROVE  \/ step'[c] = "dedupe" /\ WellFormed(Content[uuid'[c]])
         \/ step[c] = "dedupe" /\ step'[c] = "readDelivery" /\ uuid'[c] = uuid[c]
         \/ ReadDelivery(c) /\ step'[c] = "readExisting" /\ uuid'[c] = uuid[c]
              /\ seen'[c] = status[Content[uuid[c]].delivery]
              /\ status[Content[uuid[c]].delivery] # "Absent"
         \/ /\ step[c] \in {"readExisting", "readPickup", "readSettings"}
            /\ uuid'[c] = uuid[c] /\ seen'[c] = seen[c]
            /\ step'[c] \in {"readPickup", "readSettings", "insert"}
            /\ step'[c] \in {"readSettings", "insert"} /\ Content[uuid[c]].type = "Delivery"
                 => \/ step[c] = "readPickup" /\ seen[c] = "PickedUp"
                    \/ step[c] = "readSettings"
<1> USE DEF TypeOK, ProofCallsTypeOK
<1>1. ASSUME NEW answer \in Answers, Answer(c, answer) PROVE FALSE
  BY <1>1 DEF Answer, Answers, Running, Confirmed, Rejected, Conflict, Unprocessable
<1>2. CASE \E u \in Uuids : RefuseMalformed(c, u)
  BY <1>1, <1>2 DEF RefuseMalformed, Answers, Rejected
<1>3. CASE \E u \in Uuids, r \in Drivers : Receive(c, u, r)
  BY <1>3 DEF Receive
<1>4. CASE Dedupe(c)
  BY <1>1, <1>4 DEF Dedupe, Continue, Answers, Confirmed
<1>5. CASE ReadDelivery(c)
  BY <1>1, <1>5 DEF ReadDelivery, Continue, Answers, Rejected, InTenant
<1>6. CASE ReadExisting(c)
  BY <1>1, <1>6 DEF ReadExisting, AfterLifecycleChecks, Continue, Answers, Rejected, Conflict
<1>7. CASE ReadPickup(c)
  BY <1>1, <1>7 DEF ReadPickup, AfterLifecycleChecks, Continue, Answers, Rejected, Conflict
<1>8. CASE ReadSettings(c)
  BY <1>1, <1>8 DEF ReadSettings, Continue, Answers, Rejected, Unprocessable
<1>9. CASE Insert(c)
  BY <1>1, <1>9 DEF Insert, Answers, Confirmed
<1>10. CASE Cancel(c)
  BY <1>1, <1>10 DEF Cancel, Answers
<1>11. QED
  BY <1>2, <1>3, <1>4, <1>5, <1>6, <1>7, <1>8, <1>9, <1>10 DEF ProofCall

\* Only validated requests run, so only validated proofs are stored.
LEMMA StepKeepsSentWellFormed ==
  ASSUME ConstantsAssumption, IInv, [Next]_vars
  PROVE  SentWellFormed'
<1>1. ASSUME NEW u \in Uuids, IsRecorded(u)' PROVE WellFormed(Content[u])
  <2>1. CASE IsRecorded(u)
    BY <2>1 DEF IInv, SentWellFormed
  <2>2. CASE ~IsRecorded(u)
    <3>1. PICK c \in ProofCalls : step[c] = "insert" /\ Stores(uuid[c], caller[c])
      BY <1>1, <2>2, TableSteps DEF IInv, Opens, IsRecorded
    <3>2. uuid[c] \in Uuids
      BY <3>1 DEF IInv, TypeOK, ProofCallsTypeOK, Running
    <3>3. u = uuid[c]
      BY <1>1, <2>2, <3>1, <3>2 DEF Stores, IsRecorded, IInv, TypeOK, TablesTypeOK
    <3>4. QED
      BY <3>1, <3>3 DEF IInv, SentWellFormed, Running
  <2>3. QED
    BY <2>1, <2>2
<1>2. ASSUME NEW c \in ProofCalls, step'[c] \in Running PROVE WellFormed(Content[uuid'[c]])
  <2>1. CASE Undisturbed(c)
    BY <1>2, <2>1 DEF Undisturbed, IInv, SentWellFormed
  <2>2. CASE ProofCall(c)
    BY <1>2, <2>2, CallGoesOn DEF IInv, SentWellFormed, Running, ReadDelivery
  <2>3. QED
    BY <2>1, <2>2, CallSteps DEF IInv
<1>3. QED
  BY <1>1, <1>2 DEF SentWellFormed, IsRecorded, WellFormed

\* The unique keys keep two proofs of one type apart.
LEMMA StepKeepsOneProofPerType ==
  ASSUME ConstantsAssumption, IInv, [Next]_vars
  PROVE  OneProofPerType'
<1>1. CASE proof' = proof
  BY <1>1 DEF IInv, OneProofPerType, IsRecorded
<1>2. ASSUME NEW c \in ProofCalls, step[c] = "insert", Stores(uuid[c], caller[c])
      PROVE  OneProofPerType'
  <2>1. uuid[c] \in Uuids
    BY <1>2 DEF IInv, TypeOK, ProofCallsTypeOK, Running
  <2>2. \A v \in Uuids : v # uuid[c] /\ IsRecorded(v)' => IsRecorded(v)
    BY <1>2, <2>1 DEF Stores, IsRecorded, IInv, TypeOK, TablesTypeOK
  <2>3. \A v \in Uuids : IsRecorded(v) => \/ Content[v].delivery # Content[uuid[c]].delivery
                                         \/ Content[v].type # Content[uuid[c]].type
    BY <1>2 DEF Stores, ViolatesUniqueKey, HasProof, ProofsOf
  <2>4. SUFFICES ASSUME NEW u \in Uuids, NEW v \in Uuids, u # v,
                        IsRecorded(u)', IsRecorded(v)',
                        Content[u].delivery = Content[v].delivery,
                        Content[u].type = Content[v].type
                 PROVE  FALSE
    BY DEF OneProofPerType
  <2>5. QED
    BY <2>2, <2>3, <2>4 DEF IInv, OneProofPerType
<1>3. QED
  BY <1>1, <1>2, TableSteps DEF IInv, Opens

\* No step makes untrue what a running call has read.
LEMMA StepKeepsReads ==
  ASSUME ConstantsAssumption, IInv, [Next]_vars
  PROVE  ReadsStayTrue'
<1> DEFINE Known(c) ==
      LET p == Content[uuid[c]] IN
      /\ step[c] \notin {"dedupe", "readDelivery"} => status[p.delivery] # "Absent"
      /\ step[c] \notin {"dedupe", "readDelivery"} /\ seen[c] = "PickedUp"
           => PickupSucceeded(p.delivery)
      /\ step[c] \in {"readSettings", "insert"} /\ p.type = "Delivery"
           => PickupSucceeded(p.delivery)
<1>1. \A c \in ProofCalls : step[c] \in Running => Known(c)
  BY DEF IInv, ReadsStayTrue
<1>2. TypeOK
  BY DEF IInv
<1>3. ASSUME NEW c \in ProofCalls, step'[c] \in Running PROVE Known(c)'
  <2>1. CASE step'[c] \in {"dedupe", "readDelivery"}
    BY <2>1
  <2>2. CASE step[c] \in Running /\ uuid'[c] = uuid[c] /\ step'[c] \notin {"dedupe", "readDelivery"}
    <3>1. PICK d \in Deliveries : d = Content[uuid[c]].delivery
      BY <1>2, <2>2, ContentType DEF TypeOK, ProofCallsTypeOK
    <3>2. /\ status[d] # "Absent" => status'[d] # "Absent"
          /\ PickupSucceeded(d) => PickupSucceeded(d)'
      BY <1>2, TablesGrow
    <3>3. SUFFICES
            /\ status[d] # "Absent"
            /\ seen'[c] = "PickedUp" => PickupSucceeded(d)
            /\ step'[c] \in {"readSettings", "insert"} /\ Content[uuid[c]].type = "Delivery"
                 => PickupSucceeded(d)
      BY <2>2, <3>1, <3>2 DEF PickupSucceeded, ProofsOf, IsRecorded
    <3>4. step[c] \notin {"dedupe", "readDelivery"} =>
            /\ status[d] # "Absent"
            /\ seen[c] = "PickedUp" => PickupSucceeded(d)
            /\ step[c] \in {"readSettings", "insert"} /\ Content[uuid[c]].type = "Delivery"
                 => PickupSucceeded(d)
      BY <1>1, <2>2, <3>1
    <3>5. CASE Undisturbed(c)
      BY <2>2, <3>4, <3>5 DEF Undisturbed
    <3>6. CASE ReadDelivery(c) /\ step'[c] = "readExisting" /\ seen'[c] = status[d]
               /\ status[d] # "Absent"
      BY <3>6, PickedUpHasProof
    <3>7. CASE /\ step[c] \in {"readExisting", "readPickup", "readSettings"}
               /\ seen'[c] = seen[c]
               /\ step'[c] \in {"readSettings", "insert"} /\ Content[uuid[c]].type = "Delivery"
                    => \/ step[c] = "readPickup" /\ seen[c] = "PickedUp"
                       \/ step[c] = "readSettings"
      BY <3>4, <3>7
    <3>8. QED
      BY <1>2, <1>3, <2>2, <3>1, <3>5, <3>6, <3>7, CallSteps, CallGoesOn
  <2>3. QED
    BY <1>2, <1>3, <2>1, <2>2, CallSteps, CallGoesOn DEF Undisturbed, ReadDelivery, Running
<1>4. QED
  BY <1>3 DEF ReadsStayTrue

\* When a proof is stored, its delivery is where the lifecycle wants it, although the
\* status was read several statements earlier: a pickup still finds it pending and a
\* delivery proof still finds it picked up.
LEMMA StoredInTime ==
  ASSUME ConstantsAssumption, IInv, NEW c \in ProofCalls, step[c] = "insert",
         ~ViolatesUniqueKey(uuid[c])
  PROVE  LET p == Content[uuid[c]] IN
         /\ uuid[c] \in Uuids
         /\ WellFormed(p)
         /\ StatusAfter(p) = p.status
         /\ p.type = "Pickup" => status[p.delivery] = "Pending" /\ p.status \in {"PickedUp", "Failed"}
         /\ p.type = "Delivery" => /\ status[p.delivery] = "PickedUp"
                                  /\ p.status \in {"Delivered", "Failed"}
                                  /\ PickupSucceeded(p.delivery)
<1> DEFINE p == Content[uuid[c]]
<1>1. step[c] \in Running
  BY DEF Running
<1>2. uuid[c] \in Uuids
  BY <1>1 DEF IInv, TypeOK, ProofCallsTypeOK
<1>3. WellFormed(p)
  BY <1>1 DEF IInv, SentWellFormed
<1>4. StatusAfter(p) = p.status
  BY <1>2, <1>3, ContentType DEF WellFormed, StatusAfter
<1>5. p.delivery \in Deliveries /\ status[p.delivery] # "Absent"
  BY <1>1, <1>2, ContentType DEF IInv, ReadsStayTrue
<1>6. ~HasProof(p.delivery, p.type)
  BY DEF ViolatesUniqueKey
<1>7. ASSUME p.type = "Pickup" PROVE status[p.delivery] = "Pending" /\ p.status \in {"PickedUp", "Failed"}
  BY <1>3, <1>5, <1>6, <1>7 DEF IInv, StatusMatchesProofs, WellFormed
<1>8. ASSUME p.type = "Delivery"
      PROVE  /\ status[p.delivery] = "PickedUp"
             /\ p.status \in {"Delivered", "Failed"}
             /\ PickupSucceeded(p.delivery)
  <2>1. PickupSucceeded(p.delivery)
    BY <1>1, <1>8 DEF IInv, ReadsStayTrue
  <2>2. PICK v \in Uuids : /\ IsRecorded(v) /\ Content[v].delivery = p.delivery
                           /\ Content[v].type = "Pickup" /\ Content[v].status = "PickedUp"
    BY <2>1 DEF PickupSucceeded, ProofsOf
  <2>3. status[p.delivery] = "PickedUp"
    BY <1>6, <1>8, <2>2 DEF IInv, StatusMatchesProofs
  <2>4. QED
    BY <1>3, <1>8, <2>1, <2>3 DEF WellFormed
<1>9. QED
  BY <1>2, <1>3, <1>4, <1>7, <1>8

\* Storing a proof sets the status to its result, and nothing else changes a status.
LEMMA StepKeepsStatus ==
  ASSUME ConstantsAssumption, IInv, [Next]_vars
  PROVE  StatusMatchesProofs'
<1>1. CASE UNCHANGED <<status, proof>>
  BY <1>1 DEF IInv, StatusMatchesProofs, PickupSucceeded, HasProof, ProofsOf, IsRecorded
<1>2. ASSUME NEW d \in Deliveries, Opens(d) PROVE StatusMatchesProofs'
  <2>1. \A e \in Deliveries : status'[e] = IF e = d THEN "Pending" ELSE status[e]
    BY <1>2 DEF Opens, IInv, TypeOK, TablesTypeOK
  <2>2. \A u \in Uuids : IsRecorded(u) => Content[u].delivery # d
    BY <1>2, RecordedMovesOn DEF Opens
  <2>3. \A u \in Uuids : Content[u].delivery \in Deliveries
    BY ContentType
  <2>4. UNCHANGED proof
    BY <1>2 DEF Opens
  <2>5. QED
    BY <2>1, <2>2, <2>3, <2>4
    DEF IInv, StatusMatchesProofs, PickupSucceeded, HasProof, ProofsOf, IsRecorded
<1>3. ASSUME NEW c \in ProofCalls, step[c] = "insert", Stores(uuid[c], caller[c])
      PROVE  StatusMatchesProofs'
  <2>1. PICK n \in Uuids : n = uuid[c]
    BY <1>3, StoredInTime DEF Stores
  <2>2. PICK d \in Deliveries : d = Content[n].delivery
    BY ContentType
  <2>3. /\ \A e \in Deliveries : status'[e] = IF e = d THEN Content[n].status ELSE status[e]
        /\ \A u \in Uuids : IsRecorded(u)' => u = n \/ IsRecorded(u)
        /\ \A u \in Uuids : IsRecorded(u) => IsRecorded(u)'
    <3>1. StatusAfter(Content[n]) = Content[n].status
      BY <1>3, <2>1, StoredInTime DEF Stores
    <3>2. caller[c] # NoDriver
      BY <1>3 DEF IInv, TypeOK, ProofCallsTypeOK, Running, ConstantsAssumption
    <3>3. QED
      BY <1>3, <2>1, <2>2, <3>1, <3>2 DEF Stores, IsRecorded, IInv, TypeOK, TablesTypeOK
  <2>4. IsRecorded(n)'
    BY <1>3, <2>1 DEF Stores, IsRecorded, IInv, TypeOK, ProofCallsTypeOK, TablesTypeOK, Running,
                      ConstantsAssumption
  <2>5. /\ Content[n].type \in {"Pickup", "Delivery"}
        /\ Content[n].type = "Delivery" => PickupSucceeded(d)
        /\ Content[n].type = "Pickup" => status[d] = "Pending"
    BY <1>3, <2>1, <2>2, StoredInTime, ContentType DEF Stores
  <2>6. \A u \in Uuids : IsRecorded(u) /\ Content[u].delivery = d => Content[n].type = "Delivery"
    BY <2>5, RecordedMovesOn
  <2>7. PickupSucceeded(d) => PickupSucceeded(d)'
    BY <2>3 DEF PickupSucceeded, ProofsOf
  <2>8. ASSUME NEW u \in Uuids, IsRecorded(u)', NEW e \in Deliveries, e = Content[u].delivery
        PROVE  IF Content[u].type = "Delivery"
               THEN status'[e] = Content[u].status /\ PickupSucceeded(e)'
               ELSE status'[e] = Content[u].status \/ HasProof(e, "Delivery")'
    <3>1. CASE u = n
      <4>1. e = d
        BY <2>2, <2>8, <3>1
      <4>2. QED
        BY <2>3, <2>5, <2>7, <3>1, <4>1
    <3>2. CASE u # n /\ e = d
      <4>1. IsRecorded(u)
        BY <2>3, <2>8, <3>2
      <4>2. Content[n].type = "Delivery"
        BY <2>6, <2>8, <3>2, <4>1
      <4>3. HasProof(d, "Delivery")'
        BY <2>2, <2>4, <4>2 DEF HasProof, ProofsOf
      <4>4. Content[u].type # "Delivery"
        BY <1>3, <2>1, <2>2, <2>8, <3>2, <4>1, <4>2
        DEF Stores, ViolatesUniqueKey, HasProof, ProofsOf
      <4>5. QED
        BY <3>2, <4>3, <4>4
    <3>3. CASE u # n /\ e # d
      <4>1. IsRecorded(u) /\ status'[e] = status[e]
        BY <2>3, <2>8, <3>3
      <4>2. IF Content[u].type = "Delivery"
            THEN status[e] = Content[u].status /\ PickupSucceeded(e)
            ELSE status[e] = Content[u].status \/ HasProof(e, "Delivery")
        BY <2>8, <4>1 DEF IInv, StatusMatchesProofs
      <4>3. PickupSucceeded(e) => PickupSucceeded(e)'
        BY <2>3 DEF PickupSucceeded, ProofsOf
      <4>4. HasProof(e, "Delivery") => HasProof(e, "Delivery")'
        BY <2>3 DEF HasProof, ProofsOf
      <4>5. QED
        BY <4>1, <4>2, <4>3, <4>4
    <3>4. QED
      BY <3>1, <3>2, <3>3
  <2>9. ASSUME NEW e \in Deliveries, status'[e] \notin {"Absent", "Pending"}
        PROVE  HasProof(e, "Pickup")'
    <3>1. CASE e = d /\ Content[n].type = "Pickup"
      BY <2>2, <2>4, <3>1 DEF HasProof, ProofsOf
    <3>2. CASE e = d /\ Content[n].type = "Delivery"
      BY <2>5, <2>7, <3>2 DEF PickupSucceeded, HasProof, ProofsOf
    <3>3. CASE e # d
      <4>1. HasProof(e, "Pickup")
        BY <2>3, <2>9, <3>3 DEF IInv, StatusMatchesProofs
      <4>2. QED
        BY <2>3, <4>1 DEF HasProof, ProofsOf
    <3>4. QED
      BY <2>5, <3>1, <3>2, <3>3
  <2>10. QED
    BY <2>8, <2>9, ContentType DEF StatusMatchesProofs
<1>4. QED
  BY <1>1, <1>2, <1>3, TableSteps DEF IInv

\* The strengthening of the safety invariants that every step preserves.
LEMMA Inductive == Spec => []IInv
<1> USE ConstantsAssumption
<1>1. Init => IInv
  BY DEF Init, IInv, TypeOK, TablesTypeOK, ProofCallsTypeOK, DeskTypeOK, Statuses, DriverOrNone,
         Requirements, ProofSteps, Running, DeskSteps, DeskRunning, SentWellFormed,
         OneProofPerType, StatusMatchesProofs, ReadsStayTrue, IsRecorded, HasProof, ProofsOf
<1>2. TypeOK' /\ IInv /\ [Next]_vars => IInv'
  BY StepKeepsSentWellFormed, StepKeepsOneProofPerType, StepKeepsStatus, StepKeepsReads
  DEF IInv
<1>3. QED
  BY <1>1, <1>2, TypeCorrect, PTL DEF Spec

\* A delivery never has two proofs of one type, however calls race.
THEOREM OneRecordExactly == Spec => []OneProofPerType
BY Inductive, PTL DEF IInv

\* The status of every delivery is the result of its last proof, and every delivery
\* proof stands on a successful pickup.
THEOREM StatusIsEarned == Spec => []StatusMatchesProofs
BY Inductive, PTL DEF IInv

\* What a call has read stays true until it acts on it.
THEOREM StaleReadsHold == Spec => []ReadsStayTrue
BY Inductive, PTL DEF IInv

\* A confirmed request is stored, and its delivery has moved on.
THEOREM ConfirmedIsStored == Spec => ConfirmationsAreTrue
<1> USE ConstantsAssumption
<1>1. ASSUME IInv, [Next]_vars, NEW c \in ProofCalls, step[c] \in Running, step'[c] \in Confirmed
      PROVE  /\ proof'[uuid[c]] # NoDriver
             /\ status'[Content[uuid[c]].delivery] \notin {"Absent", "Pending"}
  <2> USE DEF IInv, TypeOK, ProofCallsTypeOK
  <2>1. uuid[c] \in Uuids /\ caller[c] \in Drivers
    BY <1>1
  <2>2. Content[uuid[c]].delivery \in Deliveries
    BY <2>1, ContentType
  <2>3. ProofCall(c)
    BY <1>1, CallSteps DEF Undisturbed, Running, Confirmed
  <2>4. CASE Dedupe(c) /\ IsRecorded(uuid[c])
    BY <1>1, <2>1, <2>4, RecordedMovesOn DEF Dedupe, tables, IsRecorded
  <2>5. CASE Insert(c) /\ ~ViolatesUniqueKey(uuid[c])
    <3>1. StatusAfter(Content[uuid[c]]) \notin {"Absent", "Pending"}
      BY DEF StatusAfter
    <3>2. QED
      BY <1>1, <2>1, <2>2, <2>5, <3>1 DEF Insert, TablesTypeOK, ConstantsAssumption
  <2>6. (Dedupe(c) /\ IsRecorded(uuid[c])) \/ (Insert(c) /\ ~ViolatesUniqueKey(uuid[c]))
    BY <1>1, <2>3
    DEF ProofCall, RefuseMalformed, Receive, Dedupe, ReadDelivery, ReadExisting, ReadPickup,
        ReadSettings, Insert, Cancel, Continue, Answer, AfterLifecycleChecks, Confirmed
  <2>7. QED
    BY <2>4, <2>5, <2>6
<1>2. IInv /\ [Next]_vars =>
        [\A c \in ProofCalls :
           step[c] \in Running /\ step'[c] \in Confirmed =>
             /\ proof'[uuid[c]] # NoDriver
             /\ status'[Content[uuid[c]].delivery] \notin {"Absent", "Pending"}]_vars
  BY <1>1
<1>3. QED
  BY <1>2, Inductive, PTL DEF Spec, ConfirmationsAreTrue

-----------------------------------------------------------------------------
(* The refinement: what the tables show of every delivery is a behaviour of *)
(* ProofLifecycle.                                                          *)

Evidence == [d \in Deliveries |->
               {<<Content[u].type, Content[u].status>> :
                  u \in {v \in Uuids : IsRecorded(v) /\ Content[v].delivery = d}}]

\* Storing a proof adds one piece of evidence to its delivery.
LEMMA StoresEvidence ==
  ASSUME ConstantsAssumption, TypeOK, NEW n \in Uuids, NEW r \in Drivers, Stores(n, r)
  PROVE  Evidence' = [Evidence EXCEPT ![Content[n].delivery] =
                        @ \cup {<<Content[n].type, Content[n].status>>}]
<1>1. PICK d \in Deliveries : d = Content[n].delivery
  BY ContentType
<1>2. \A u \in Uuids : IsRecorded(u)' <=> IsRecorded(u) \/ u = n
  BY DEF Stores, IsRecorded, TypeOK, TablesTypeOK, ConstantsAssumption
<1>3. \A e \in Deliveries : Evidence'[e] =
        {<<Content[u].type, Content[u].status>> :
           u \in {v \in Uuids : (IsRecorded(v) \/ v = n) /\ Content[v].delivery = e}}
  BY <1>2 DEF Evidence
<1>4. Evidence'[d] = Evidence[d] \cup {<<Content[n].type, Content[n].status>>}
  <2> DEFINE Before == {v \in Uuids : IsRecorded(v) /\ Content[v].delivery = d}
             After == {v \in Uuids : (IsRecorded(v) \/ v = n) /\ Content[v].delivery = d}
  <2>1. After = Before \cup {n}
    BY <1>1
  <2>2. /\ Evidence[d] = {<<Content[u].type, Content[u].status>> : u \in Before}
        /\ Evidence'[d] = {<<Content[u].type, Content[u].status>> : u \in After}
    BY <1>3 DEF Evidence
  <2> HIDE DEF Before, After
  <2>3. QED
    BY <2>1, <2>2
<1>5. \A e \in Deliveries : e # d => Evidence'[e] = Evidence[e]
  BY <1>1, <1>3 DEF Evidence
<1>6. QED
  BY <1>1, <1>4, <1>5 DEF Evidence

\* The stored procedures, run concurrently, implement the lifecycle of a delivery.
THEOREM Refinement == Spec => ImplementsLifecycle
<1> USE ConstantsAssumption
<1>1. Init => Lifecycle!Init
  BY DEF Init, Lifecycle!Init, IsRecorded
<1>2. ASSUME IInv, [Next]_vars PROVE [Lifecycle!Next]_(Lifecycle!vars)
  <2>1. CASE UNCHANGED <<status, proof>>
    BY <2>1 DEF Lifecycle!vars, IsRecorded
  <2>2. ASSUME NEW d \in Deliveries, Opens(d) PROVE Lifecycle!Next
    <3>1. Lifecycle!Open(d)
      BY <2>2 DEF Opens, Lifecycle!Open, IsRecorded
    <3>2. QED
      BY <3>1 DEF Lifecycle!Next
  <2>3. ASSUME NEW c \in ProofCalls, step[c] = "insert", Stores(uuid[c], caller[c])
        PROVE  Lifecycle!Next
    <3>1. PICK n \in Uuids : n = uuid[c]
      BY <1>2, <2>3, StoredInTime DEF Stores
    <3>2. caller[c] \in Drivers
      BY <1>2, <2>3 DEF IInv, TypeOK, ProofCallsTypeOK, Running
    <3>3. PICK d \in Deliveries, type \in {"Pickup", "Delivery"} :
            d = Content[n].delivery /\ type = Content[n].type
      BY ContentType
    <3>4. /\ Content[n].status \in Lifecycle!ResultsFor[type]
          /\ status[d] = Lifecycle!StatusBefore[type]
          /\ StatusAfter(Content[n]) = Content[n].status
      BY <1>2, <2>3, <3>1, <3>3, StoredInTime
      DEF Stores, Lifecycle!ResultsFor, Lifecycle!StatusBefore
    <3>5. Evidence' = [Evidence EXCEPT ![d] = @ \cup {<<type, Content[n].status>>}]
      BY <1>2, <2>3, <3>1, <3>2, <3>3, StoresEvidence DEF IInv
    <3>6. status' = [status EXCEPT ![d] = Content[n].status]
      BY <2>3, <3>1, <3>3, <3>4 DEF Stores
    <3>7. Lifecycle!Record(d, type, Content[n].status)
      BY <3>4, <3>5, <3>6 DEF Lifecycle!Record, Evidence
    <3>8. QED
      BY <3>3, <3>4, <3>7 DEF Lifecycle!Next
  <2>4. QED
    BY <1>2, <2>1, <2>2, <2>3, TableSteps DEF IInv
<1>3. QED
  BY <1>1, <1>2, Inductive, PTL DEF Spec, ImplementsLifecycle, Lifecycle!Spec

-----------------------------------------------------------------------------
(* Isolation.  The company is compared once, early in each call; the write  *)
(* comes later and compares nothing.                                        *)

\* A proof call past its read of the delivery is of the delivery's tenant.
CallsInTenant ==
  \A c \in ProofCalls :
    step[c] \in {"readExisting", "readPickup", "readSettings", "insert"} =>
      DriverCompany[caller[c]] = DeliveryCompany[Content[uuid[c]].delivery]

\* The desk calls past the check of the delivery: creating, the admin names one of the
\* own company from the start.
Found == DeskRunning \ {<<"assign", "findDelivery">>}

\* The desk calls past the check of the driver.
Checked == {<<"create", "write">>, <<"assign", "readStatus">>, <<"assign", "write">>}

\* Each check compares with the calling admin's company, none with the other check.
OrderInTenant(a) ==
  /\ deskStep[a] \in Found => DeliveryCompany[order[a][1]] = order[a][3]
  /\ deskStep[a] \in Checked /\ order[a][2] # NoDriver => DriverCompany[order[a][2]] = order[a][3]

OrdersInTenant == \A a \in DeskCalls : OrderInTenant(a)

TenantInv == TypeOK /\ CallsInTenant /\ OrdersInTenant /\ TenantIsolation

\* A step of one desk call leaves the others where they are.
LEMMA OtherDesksRest ==
  ASSUME TypeOK, NEW a \in DeskCalls, DeskCall(a), NEW b \in DeskCalls, b # a
  PROVE  deskStep'[b] = deskStep[b] /\ order'[b] = order[b]
BY DEF TypeOK, DeskTypeOK, DeskCall, BeginDesk, FindDelivery, FindDriver, ReadStatus,
       InsertDelivery, UpdateAssignee, DeskGoes, DeskEnds

\* What an acting desk call does to its own order and to the assignees.
LEMMA DeskKeepsTenant ==
  ASSUME ConstantsAssumption, TenantInv, NEW a \in DeskCalls, DeskCall(a)
  PROVE  /\ OrdersInTenant'
         /\ \A d \in Deliveries : assigned'[d] # NoDriver =>
              DriverCompany[assigned'[d]] = DeliveryCompany[d]
<1> USE DEF TenantInv, TypeOK, TablesTypeOK, DeskTypeOK
<1> DEFINE Assignees == \A d \in Deliveries : assigned'[d] # NoDriver =>
                          DriverCompany[assigned'[d]] = DeliveryCompany[d]
<1>1. /\ <<"assign", "findDelivery">> \notin Found
      /\ <<"create", "findDelivery">> \in Found
      /\ \A op \in {"create", "assign"} :
           <<op, "findDelivery">> \notin Checked /\ <<op, "findDriver">> \notin Checked
      /\ <<"create", "findDriver">> \in Found /\ <<"assign", "findDriver">> \in Found
      /\ <<"idle">> \notin Found /\ <<"idle">> \notin Checked
  BY DEF Found, DeskRunning, Checked
<1>2. Checked \subseteq Found /\ Found \subseteq DeskRunning /\ DeskRunning \subseteq DeskSteps
  BY DEF Checked, Found, DeskRunning, DeskSteps
<1>3. ASSUME UNCHANGED assigned PROVE Assignees
  BY <1>3 DEF TenantIsolation
<1>4. ASSUME DeskEnds(a) PROVE OrderInTenant(a)'
  BY <1>1, <1>4 DEF DeskEnds, OrderInTenant
<1>5. ASSUME NEW op \in {"create", "assign"}, NEW d \in Deliveries, NEW r \in DriverOrNone,
             NEW k \in Companies, BeginDesk(a, op, d, r, k)
      PROVE  OrderInTenant(a)' /\ Assignees
  <2>1. deskStep'[a] = <<op, "findDelivery">> /\ order'[a] = <<d, r, k>>
    BY <1>5 DEF BeginDesk
  <2>2. op = "assign" \/ DeliveryCompany[d] = k
    BY <1>5 DEF BeginDesk
  <2>3. OrderInTenant(a)'
    BY <1>1, <2>1, <2>2 DEF OrderInTenant
  <2>4. QED
    BY <1>3, <1>5, <2>3 DEF BeginDesk, tables
<1>6. ASSUME FindDelivery(a) PROVE OrderInTenant(a)' /\ Assignees
  <2>1. deskStep[a][1] \in {"create", "assign"}
    BY <1>6 DEF FindDelivery
  <2>2. ASSUME DeskGoes(a, <<deskStep[a][1], "findDriver">>),
               Acceptable(deskStep[a][1], order[a][1], order[a][3])
        PROVE  OrderInTenant(a)'
    <3>1. DeliveryCompany[order[a][1]] = order[a][3]
      BY <1>1, <1>6, <2>2 DEF FindDelivery, Acceptable, OrdersInTenant, OrderInTenant
    <3>2. deskStep'[a] = <<deskStep[a][1], "findDriver">> /\ order'[a] = order[a]
      BY <2>2 DEF DeskGoes
    <3>3. QED
      BY <1>1, <2>1, <3>1, <3>2 DEF OrderInTenant
  <2>3. QED
    BY <1>3, <1>4, <1>6, <2>2 DEF FindDelivery, tables
<1>7. ASSUME NEW to \in Found, deskStep[a] \in Found, DeskGoes(a, to),
             \/ deskStep[a] \in Checked
             \/ order[a][2] = NoDriver \/ Assignable(order[a][2], order[a][3])
      PROVE  OrderInTenant(a)'
  <2>1. order'[a] = order[a] /\ deskStep'[a] = to
    BY <1>2, <1>7 DEF DeskGoes
  <2>2. DeliveryCompany[order[a][1]] = order[a][3]
    BY <1>7 DEF OrdersInTenant, OrderInTenant
  <2>3. order[a][2] # NoDriver => DriverCompany[order[a][2]] = order[a][3]
    BY <1>7 DEF OrdersInTenant, OrderInTenant, Assignable
  <2>4. QED
    BY <2>1, <2>2, <2>3 DEF OrderInTenant
<1>8. ASSUME FindDriver(a) PROVE OrderInTenant(a)' /\ Assignees
  <2>1. <<deskStep[a][1], IF deskStep[a][1] = "create" THEN "write" ELSE "readStatus">> \in Found
    BY <1>8 DEF FindDriver, Found, DeskRunning
  <2>2. QED
    BY <1>1, <1>3, <1>4, <1>7, <1>8, <2>1 DEF FindDriver, tables
<1>9. ASSUME ReadStatus(a) PROVE OrderInTenant(a)' /\ Assignees
  <2>1. <<"assign", "write">> \in Found /\ <<"assign", "readStatus">> \in Checked
    BY DEF Found, DeskRunning, Checked
  <2>2. QED
    BY <1>2, <1>3, <1>4, <1>7, <1>9, <2>1 DEF ReadStatus, tables
<1>10. ASSUME deskStep[a] \in Checked
       PROVE  /\ order[a][1] \in Deliveries
              /\ order[a][2] # NoDriver =>
                   DriverCompany[order[a][2]] = DeliveryCompany[order[a][1]]
  BY <1>2, <1>10 DEF OrdersInTenant, OrderInTenant, Orders
<1>11. ASSUME deskStep[a] \in Checked, assigned' = [assigned EXCEPT ![order[a][1]] = order[a][2]]
       PROVE  Assignees
  BY <1>10, <1>11 DEF TenantIsolation
<1>12. <<"create", "write">> \in Checked /\ <<"assign", "write">> \in Checked
  BY DEF Checked
<1>13. ASSUME InsertDelivery(a) PROVE OrderInTenant(a)' /\ Assignees
  BY <1>3, <1>4, <1>11, <1>12, <1>13 DEF InsertDelivery
<1>14. ASSUME UpdateAssignee(a) PROVE OrderInTenant(a)' /\ Assignees
  BY <1>4, <1>11, <1>12, <1>14 DEF UpdateAssignee
<1>15. OrderInTenant(a)' /\ Assignees
  BY <1>5, <1>6, <1>8, <1>9, <1>13, <1>14 DEF DeskCall
<1>16. OrdersInTenant'
  BY <1>15, OtherDesksRest DEF OrdersInTenant, OrderInTenant
<1>17. QED
  BY <1>15, <1>16

\* A proof call that has passed ReadDelivery found itself in the delivery's tenant.
LEMMA CallsStayInTenant ==
  ASSUME ConstantsAssumption, TypeOK, CallsInTenant, [Next]_vars
  PROVE  CallsInTenant'
<1> USE DEF TypeOK, ProofCallsTypeOK
<1> DEFINE Past == {"readExisting", "readPickup", "readSettings", "insert"}
<1> SUFFICES ASSUME NEW c \in ProofCalls, step'[c] \in Past
             PROVE  DriverCompany[caller'[c]] = DeliveryCompany[Content[uuid'[c]].delivery]
  BY DEF CallsInTenant
<1>1. CASE Undisturbed(c)
  BY <1>1 DEF Undisturbed, CallsInTenant
<1>2. CASE ProofCall(c)
  <2>1. ASSUME NEW answer \in Answers, Answer(c, answer) PROVE FALSE
    BY <2>1 DEF Answer, Answers, Confirmed, Rejected, Conflict, Unprocessable
  <2>2. CASE \E u \in Uuids : RefuseMalformed(c, u)
    BY <2>1, <2>2 DEF RefuseMalformed, Answers, Rejected
  <2>3. CASE \E u \in Uuids, r \in Drivers : Receive(c, u, r)
    BY <2>3 DEF Receive
  <2>4. CASE Dedupe(c)
    BY <2>1, <2>4 DEF Dedupe, Continue, Answers, Confirmed
  <2>5. CASE ReadDelivery(c)
    BY <2>1, <2>5 DEF ReadDelivery, Continue, Answers, Rejected, InTenant
  <2>6. CASE ReadExisting(c)
    BY <2>1, <2>6 DEF ReadExisting, Continue, Answers, Rejected, Conflict, CallsInTenant
  <2>7. CASE ReadPickup(c)
    BY <2>1, <2>7 DEF ReadPickup, Continue, Answers, Rejected, Conflict, CallsInTenant
  <2>8. CASE ReadSettings(c)
    BY <2>1, <2>8 DEF ReadSettings, Continue, Answers, Rejected, Unprocessable, CallsInTenant
  <2>9. CASE Insert(c)
    BY <2>1, <2>9 DEF Insert, Answers, Confirmed
  <2>10. CASE Cancel(c)
    BY <2>1, <2>10 DEF Cancel, Answers
  <2>11. QED
    BY <1>2, <2>2, <2>3, <2>4, <2>5, <2>6, <2>7, <2>8, <2>9, <2>10 DEF ProofCall
<1>3. QED
  BY <1>1, <1>2, CallSteps

\* No delivery is ever assigned to a driver of another tenant, or proven by one, though
\* the admin of any company may call with the Id of any delivery and of any driver.
THEOREM TenantsStayApart == Spec => []TenantIsolation
<1> USE ConstantsAssumption
<1>1. Init => TenantInv
  <2> SUFFICES ASSUME Init PROVE TenantInv
    OBVIOUS
  <2>1. TypeOK
    BY DEF Init, TypeOK, TablesTypeOK, ProofCallsTypeOK, DeskTypeOK, Statuses, DriverOrNone,
           Requirements, ProofSteps, Running, DeskSteps, DeskRunning
  <2>2. <<"idle">> \notin Found /\ <<"idle">> \notin Checked
    BY DEF Found, DeskRunning, Checked
  <2>3. QED
    BY <2>1, <2>2 DEF Init, TenantInv, CallsInTenant, OrdersInTenant, OrderInTenant,
                      TenantIsolation, IsRecorded
<1>2. ASSUME TypeOK', TenantInv, [Next]_vars PROVE TenantInv'
  <2>1. CallsInTenant'
    BY <1>2, CallsStayInTenant DEF TenantInv
  <2>2. ASSUME UNCHANGED <<deskVars, assigned, proof>> PROVE OrdersInTenant' /\ TenantIsolation'
    BY <1>2, <2>2 DEF TenantInv, OrdersInTenant, OrderInTenant, TenantIsolation, deskVars,
                      IsRecorded
  <2>3. ASSUME NEW c \in ProofCalls, ProofCall(c) PROVE OrdersInTenant' /\ TenantIsolation'
    <3>1. CASE Insert(c)
      <4>1. /\ uuid[c] \in Uuids
            /\ caller[c] \in Drivers
            /\ DriverCompany[caller[c]] = DeliveryCompany[Content[uuid[c]].delivery]
        BY <1>2, <3>1 DEF Insert, TenantInv, TypeOK, ProofCallsTypeOK, Running, CallsInTenant
      <4>2. \A u \in Uuids : proof'[u] \in {proof[u]} \cup (IF u = uuid[c] THEN {caller[c]} ELSE {})
        BY <1>2, <3>1 DEF Insert, TenantInv, TypeOK, TablesTypeOK
      <4>3. TenantIsolation'
        BY <1>2, <3>1, <4>1, <4>2 DEF Insert, TenantInv, TenantIsolation, IsRecorded
      <4>4. OrdersInTenant'
        BY <1>2, <3>1 DEF Insert, TenantInv, OrdersInTenant, OrderInTenant, deskVars
      <4>5. QED
        BY <4>3, <4>4
    <3>2. CASE ~Insert(c)
      <4>1. UNCHANGED <<deskVars, assigned, proof>>
        BY <2>3, <3>2 DEF ProofCall, RefuseMalformed, Receive, Dedupe, ReadDelivery,
                          ReadExisting, ReadPickup, ReadSettings, Cancel, tables
      <4>2. QED
        BY <2>2, <4>1
    <3>3. QED
      BY <3>1, <3>2
  <2>4. ASSUME NEW a \in DeskCalls, DeskCall(a) PROVE OrdersInTenant' /\ TenantIsolation'
    <3>1. UNCHANGED proof
      BY <2>4 DEF DeskCall, BeginDesk, FindDelivery, FindDriver, ReadStatus, InsertDelivery,
                  UpdateAssignee, tables
    <3>2. QED
      BY <1>2, <2>4, <3>1, DeskKeepsTenant DEF TenantInv, TenantIsolation, IsRecorded
  <2>5. ASSUME NEW k \in Companies, NEW q \in SettingsMenu, UpdateSettings(k, q)
        PROVE  OrdersInTenant' /\ TenantIsolation'
    BY <2>2, <2>5 DEF UpdateSettings
  <2>6. ASSUME NEW r \in Drivers, NEW b \in BOOLEAN, SetDriverActive(r, b)
        PROVE  OrdersInTenant' /\ TenantIsolation'
    BY <2>2, <2>6 DEF SetDriverActive
  <2>7. ASSUME UNCHANGED vars PROVE OrdersInTenant' /\ TenantIsolation'
    BY <2>2, <2>7 DEF vars, tables
  <2>8. OrdersInTenant' /\ TenantIsolation'
    BY <1>2, <2>3, <2>4, <2>5, <2>6, <2>7 DEF Next
  <2>9. QED
    BY <1>2, <2>1, <2>8 DEF TenantInv
<1>3. TenantInv => TenantIsolation
  BY DEF TenantInv
<1>4. QED
  BY <1>1, <1>2, <1>3, TypeCorrect, PTL DEF Spec
-----------------------------------------------------------------------------
(* Capture rules.  The admin may change them between any two statements of *)
(* a proof call; what counts is what the company did not require at some   *)
(* moment of the call.                                                     *)

\* What the company does not require now it did not require during the call, and a call
\* that reaches the INSERT lacks nothing that was required throughout.
RulesFollowed(c) ==
  step[c] \in Running =>
    /\ NotRequiredBy(DriverCompany[caller[c]]) \subseteq waived[c]
    /\ step[c] = "insert" /\ Content[uuid[c]].status # "Failed"
         => Missing(Content[uuid[c]]) \subseteq waived[c]

RulesInv == TypeOK /\ \A c \in ProofCalls : RulesFollowed(c)

\* A proof call that acts follows the rules, and the others go on following them.
LEMMA ProofCallFollowsRules ==
  ASSUME ConstantsAssumption, RulesInv, NEW c \in ProofCalls, ProofCall(c),
         NEW e \in ProofCalls
  PROVE  RulesFollowed(e)'
<1> USE DEF RulesInv, TypeOK, TablesTypeOK, ProofCallsTypeOK
<1>1. UNCHANGED required
  BY DEF ProofCall, RefuseMalformed, Receive, Dedupe, ReadDelivery, ReadExisting,
         ReadPickup, ReadSettings, Insert, Cancel, tables
<1>2. CASE e # c
  <2>1. Undisturbed(e) /\ waived'[e] = waived[e]
    <3> USE DEF Undisturbed, Continue, Answer
    <3>1. CASE \E u \in Uuids : RefuseMalformed(c, u)
      BY <1>2, <3>1 DEF RefuseMalformed
    <3>2. CASE \E u \in Uuids, r \in Drivers : Receive(c, u, r)
      BY <1>2, <3>2 DEF Receive
    <3>3. CASE Dedupe(c)
      BY <1>2, <3>3 DEF Dedupe
    <3>4. CASE ReadDelivery(c)
      BY <1>2, <3>4 DEF ReadDelivery
    <3>5. CASE ReadExisting(c)
      BY <1>2, <3>5 DEF ReadExisting
    <3>6. CASE ReadPickup(c)
      BY <1>2, <3>6 DEF ReadPickup
    <3>7. CASE ReadSettings(c)
      BY <1>2, <3>7 DEF ReadSettings
    <3>8. CASE Insert(c)
      BY <1>2, <3>8 DEF Insert
    <3>9. CASE Cancel(c)
      BY <1>2, <3>9 DEF Cancel
    <3>10. QED
      BY <3>1, <3>2, <3>3, <3>4, <3>5, <3>6, <3>7, <3>8, <3>9 DEF ProofCall
  <2>2. QED
    BY <1>1, <2>1 DEF Undisturbed, RulesFollowed, NotRequiredBy
<1>3. RulesFollowed(c)'
  <2>1. ASSUME NEW answer \in Answers, Answer(c, answer) PROVE RulesFollowed(c)'
    BY <2>1 DEF Answer, Answers, Running, Confirmed, Rejected, Conflict, Unprocessable,
                RulesFollowed
  <2>2. ASSUME NEW next \in Running, Continue(c, next), step[c] \in Running,
               next = "insert" => \/ Content[uuid[c]].status = "Failed"
                                  \/ Missing(Content[uuid[c]]) \subseteq waived[c]
        PROVE  RulesFollowed(c)'
    BY <1>1, <2>2 DEF Continue, RulesFollowed, NotRequiredBy
  <2>3. CASE \E u \in Uuids : RefuseMalformed(c, u)
    BY <2>1, <2>3 DEF RefuseMalformed, Answers, Rejected
  <2>4. CASE \E u \in Uuids, r \in Drivers : Receive(c, u, r)
    BY <1>1, <2>4 DEF Receive, RulesFollowed, NotRequiredBy
  <2>5. CASE Dedupe(c)
    BY <2>1, <2>2, <2>5 DEF Dedupe, Answers, Confirmed, Running
  <2>6. CASE ReadDelivery(c)
    BY <2>1, <2>2, <2>6 DEF ReadDelivery, Answers, Rejected, Running
  <2>7. CASE ReadExisting(c)
    BY <2>1, <2>2, <2>7 DEF ReadExisting, AfterLifecycleChecks, Answers, Rejected, Conflict,
                            Running
  <2>8. CASE ReadPickup(c)
    BY <2>1, <2>2, <2>8 DEF ReadPickup, AfterLifecycleChecks, Answers, Rejected, Conflict,
                            Running
  <2>9. CASE ReadSettings(c)
    <3>1. Missing(Content[uuid[c]]) \cap required[DriverCompany[caller[c]]] = {}
            => Missing(Content[uuid[c]]) \subseteq waived[c]
      BY <2>9 DEF ReadSettings, RulesFollowed, NotRequiredBy, Missing, Running
    <3>2. QED
      BY <2>1, <2>2, <2>9, <3>1 DEF ReadSettings, Answers, Rejected, Unprocessable, Running
  <2>10. CASE Insert(c)
    BY <2>1, <2>10 DEF Insert, Answers, Confirmed
  <2>11. CASE Cancel(c)
    BY <2>1, <2>11 DEF Cancel, Answers
  <2>12. QED
    BY <2>3, <2>4, <2>5, <2>6, <2>7, <2>8, <2>9, <2>10, <2>11 DEF ProofCall
<1>4. QED
  BY <1>2, <1>3

\* A change of the rules waives them for the calls it meets.
LEMMA SettingsFollowRules ==
  ASSUME ConstantsAssumption, RulesInv, NEW k \in Companies, NEW q \in SettingsMenu,
         UpdateSettings(k, q), NEW c \in ProofCalls
  PROVE  RulesFollowed(c)'
<1> SUFFICES ASSUME step[c] \in Running PROVE RulesFollowed(c)'
  BY DEF UpdateSettings, RulesFollowed
<1>1. DriverCompany[caller[c]] \in Companies
  BY DEF RulesInv, TypeOK, ProofCallsTypeOK, ConstantsAssumption
<1>2. CASE DriverCompany[caller[c]] = k
  <2>1. waived'[c] = waived[c] \cup (Requirements \ q) /\ required'[k] = q
    BY <1>2 DEF UpdateSettings, RulesInv, TypeOK, TablesTypeOK
  <2>2. QED
    BY <1>2, <2>1 DEF UpdateSettings, RulesInv, RulesFollowed, NotRequiredBy
<1>3. CASE DriverCompany[caller[c]] # k
  <2>1. /\ waived'[c] = waived[c]
        /\ required'[DriverCompany[caller[c]]] = required[DriverCompany[caller[c]]]
    BY <1>1, <1>3 DEF UpdateSettings, RulesInv, TypeOK, TablesTypeOK
  <2>2. QED
    BY <2>1 DEF UpdateSettings, RulesInv, RulesFollowed, NotRequiredBy
<1>4. QED
  BY <1>2, <1>3

\* A proof that lacks something is stored only if its company did not require it at some
\* moment of the call.
THEOREM RulesAreEnforced == Spec => CaptureRulesEnforced
<1> USE ConstantsAssumption
<1>1. Init /\ TypeOK => RulesInv
  BY DEF Init, RulesInv, RulesFollowed, Running
<1>2. ASSUME TypeOK', RulesInv, [Next]_vars PROVE RulesInv'
  <2> SUFFICES ASSUME NEW c \in ProofCalls PROVE RulesFollowed(c)'
    BY <1>2 DEF RulesInv
  <2>1. ASSUME NEW e \in ProofCalls, ProofCall(e) PROVE RulesFollowed(c)'
    BY <1>2, <2>1, ProofCallFollowsRules
  <2>2. ASSUME UNCHANGED <<proofCallVars, required>> PROVE RulesFollowed(c)'
    BY <1>2, <2>2 DEF RulesInv, RulesFollowed, NotRequiredBy, proofCallVars
  <2>3. ASSUME NEW a \in DeskCalls, DeskCall(a) PROVE RulesFollowed(c)'
    BY <2>2, <2>3 DEF DeskCall, BeginDesk, FindDelivery, FindDriver, ReadStatus,
                      InsertDelivery, UpdateAssignee, tables
  <2>4. ASSUME NEW k \in Companies, NEW q \in SettingsMenu, UpdateSettings(k, q)
        PROVE  RulesFollowed(c)'
    BY <1>2, <2>4, SettingsFollowRules
  <2>5. ASSUME NEW r \in Drivers, NEW b \in BOOLEAN, SetDriverActive(r, b)
        PROVE  RulesFollowed(c)'
    BY <2>2, <2>5 DEF SetDriverActive
  <2>6. ASSUME UNCHANGED vars PROVE RulesFollowed(c)'
    BY <2>2, <2>6 DEF vars, tables
  <2>7. QED
    BY <1>2, <2>1, <2>3, <2>4, <2>5, <2>6 DEF Next
<1>3. RulesInv => \A c \in ProofCalls :
        step[c] = "insert" /\ step'[c] = "Created" /\ Content[uuid[c]].status # "Failed" =>
          Missing(Content[uuid[c]]) \subseteq waived[c]
  BY DEF RulesInv, RulesFollowed, Running
<1>4. QED
  BY <1>1, <1>2, <1>3, TypeCorrect, PTL DEF Spec, CaptureRulesEnforced

-----------------------------------------------------------------------------
(* Sending again.  The run of ReSendingIsSafe shows that two executions of  *)
(* one request break it; here is that nothing else does.                    *)

\* No two executions of one request overlap: a client sends a proof again only after the
\* server has finished with the request before.
SentOneAtATime ==
  \A b, c \in ProofCalls :
    step[b] \in Running /\ step[c] \in Running /\ uuid[b] = uuid[c] => b = c

\* A call past its idempotency read executes a request that is not stored.
Unrecorded ==
  \A c \in ProofCalls : step[c] \in Running \ {"dedupe"} => ~IsRecorded(uuid[c])

\* A proof enters the table by the INSERT of the call that executes it, which ends there.
LEMMA StoringCall ==
  ASSUME ConstantsAssumption, TypeOK, [Next]_vars, NEW u \in Uuids,
         ~IsRecorded(u), IsRecorded(u)'
  PROVE  \E e \in ProofCalls : step[e] = "insert" /\ uuid[e] = u /\ step'[e] = "Created"
<1>1. ASSUME UNCHANGED proof PROVE FALSE
  BY <1>1 DEF IsRecorded
<1>2. ASSUME NEW e \in ProofCalls, ProofCall(e)
      PROVE  step[e] = "insert" /\ uuid[e] = u /\ step'[e] = "Created"
  <2>1. Insert(e)
    BY <1>1, <1>2 DEF ProofCall, RefuseMalformed, Receive, Dedupe, ReadDelivery,
                      ReadExisting, ReadPickup, ReadSettings, Cancel, tables
  <2>2. QED
    BY <1>1, <2>1 DEF Insert, Answer, IsRecorded, TypeOK, TablesTypeOK, ProofCallsTypeOK
<1>3. ASSUME NEW a \in DeskCalls, DeskCall(a) PROVE FALSE
  BY <1>1, <1>3 DEF DeskCall, BeginDesk, FindDelivery, FindDriver, ReadStatus,
                    InsertDelivery, UpdateAssignee, tables
<1>4. ASSUME NEW k \in Companies, NEW q \in SettingsMenu, UpdateSettings(k, q) PROVE FALSE
  BY <1>1, <1>4 DEF UpdateSettings
<1>5. ASSUME NEW r \in Drivers, NEW b \in BOOLEAN, SetDriverActive(r, b) PROVE FALSE
  BY <1>1, <1>5 DEF SetDriverActive
<1>6. CASE UNCHANGED vars
  BY <1>1, <1>6 DEF vars, tables
<1>7. QED
  BY <1>2, <1>3, <1>4, <1>5, <1>6 DEF Next

\* While no other call executes the same request, nobody stores it behind a call's back.
LEMMA StepKeepsUnrecorded ==
  ASSUME ConstantsAssumption, TypeOK, SentOneAtATime, Unrecorded, [Next]_vars
  PROVE  Unrecorded'
<1> USE DEF TypeOK, ProofCallsTypeOK
<1> SUFFICES ASSUME NEW c \in ProofCalls, step'[c] \in Running \ {"dedupe"}, IsRecorded(uuid[c])'
             PROVE  FALSE
  BY DEF Unrecorded, IsRecorded
<1>1. step[c] \in Running /\ uuid'[c] = uuid[c] /\ ~IsRecorded(uuid[c])
  <2>1. CASE Undisturbed(c)
    BY <2>1 DEF Undisturbed, Unrecorded
  <2>2. CASE ProofCall(c)
    <3>1. CASE step[c] = "dedupe" /\ step'[c] = "readDelivery"
      <4>1. Dedupe(c)
        BY <2>2, <3>1 DEF ProofCall, RefuseMalformed, Receive, ReadDelivery, ReadExisting,
                          ReadPickup, ReadSettings, Insert, Cancel, Answer, Running
      <4>2. QED
        BY <3>1, <4>1 DEF Dedupe, Answer, Continue, Running
    <3>2. CASE ~(step[c] = "dedupe" /\ step'[c] = "readDelivery")
      BY <2>2, <3>2, CallGoesOn DEF ReadDelivery, Unrecorded, Running
    <3>3. QED
      BY <3>1, <3>2
  <2>3. QED
    BY <2>1, <2>2, CallSteps
<1>2. PICK u \in Uuids : u = uuid[c]
  BY <1>1
<1>3. PICK e \in ProofCalls : step[e] = "insert" /\ uuid[e] = u /\ step'[e] = "Created"
  BY <1>1, <1>2, StoringCall DEF IsRecorded
<1>4. e = c
  BY <1>1, <1>2, <1>3 DEF SentOneAtATime, Running
<1>5. QED
  BY <1>3, <1>4 DEF Running

\* Sending a stored proof again is never answered by a final rejection, as
\* ProofSyncService.cs:15 promises, if no two executions of one request overlap: the
\* idempotency read of the later one answers it, and no other check is reached.
THEOREM ReSendingAloneIsSafe == Spec /\ []SentOneAtATime => ReSendingIsSafe
<1> USE ConstantsAssumption
<1>1. Init => Unrecorded
  BY DEF Init, Unrecorded, Running
<1>2. TypeOK /\ SentOneAtATime /\ Unrecorded /\ [Next]_vars => Unrecorded'
  BY StepKeepsUnrecorded
<1>3. TypeOK /\ Unrecorded /\ [Next]_vars =>
        [\A c \in ProofCalls :
           step[c] \in Running /\ IsRecorded(uuid[c]) => step'[c] \notin Rejected]_vars
  <2> SUFFICES ASSUME TypeOK, Unrecorded, [Next]_vars, NEW c \in ProofCalls,
                      step[c] \in Running, IsRecorded(uuid[c])
               PROVE  step'[c] \notin Rejected
    OBVIOUS
  <2>1. step[c] = "dedupe"
    BY DEF Unrecorded
  <2>2. CASE Undisturbed(c)
    BY <2>1, <2>2 DEF Undisturbed, Rejected, Conflict, Unprocessable
  <2>3. CASE ProofCall(c)
    <3>1. Dedupe(c) \/ Cancel(c)
      BY <2>1, <2>3 DEF ProofCall, RefuseMalformed, Receive, ReadDelivery, ReadExisting,
                        ReadPickup, ReadSettings, Insert, Running
    <3>2. step'[c] \in {"Duplicate", "Cancelled"}
      BY <3>1 DEF Dedupe, Cancel, Answer, TypeOK, ProofCallsTypeOK
    <3>3. QED
      BY <3>2 DEF Rejected, Conflict, Unprocessable
  <2>4. QED
    BY <2>2, <2>3, CallSteps
<1>4. QED
  BY <1>1, <1>2, <1>3, TypeCorrect, PTL DEF Spec, ReSendingIsSafe

-----------------------------------------------------------------------------
(* Reassigning.  The run of OnlyPendingReassigned shows a proof that is     *)
(* stored between the check of an assignment and its UPDATE; here is that   *)
(* nothing else breaks the rule, two assignments of one order included.     *)

\* No proof of a delivery is about to be stored while an assignment of it is about to be.
AssignedAlone ==
  \A a \in DeskCalls, c \in ProofCalls :
    deskStep[a] = <<"assign", "write">> /\ step[c] = "insert" =>
      order[a][1] # Content[uuid[c]].delivery

\* What an assignment has checked still holds when it writes.
PendingAtWrite ==
  \A a \in DeskCalls : deskStep[a] = <<"assign", "write">> => status[order[a][1]] = "Pending"

\* An assignment comes to its UPDATE by its check only.
LEMMA ComesToWrite ==
  ASSUME TypeOK, [Next]_vars, NEW a \in DeskCalls, deskStep'[a] = <<"assign", "write">>
  PROVE  /\ order'[a] = order[a]
         /\ order[a][1] \in Deliveries
         /\ \/ ReadStatus(a) /\ status[order[a][1]] = "Pending" /\ UNCHANGED status
            \/ deskStep[a] = <<"assign", "write">>
<1>1. ASSUME NEW b \in DeskCalls, DeskCall(b), b # a
      PROVE  order'[a] = order[a] /\ deskStep[a] = <<"assign", "write">>
  BY <1>1, OtherDesksRest
<1>2. ASSUME DeskCall(a)
      PROVE  /\ order'[a] = order[a]
             /\ ReadStatus(a) /\ status[order[a][1]] = "Pending" /\ UNCHANGED status
  <2> USE DEF TypeOK, DeskTypeOK, DeskGoes, DeskEnds
  <2>1. CASE ReadStatus(a)
    BY <2>1 DEF ReadStatus, tables
  <2>2. CASE FindDriver(a)
    BY <2>2 DEF FindDriver
  <2>3. CASE ~ReadStatus(a) /\ ~FindDriver(a)
    BY <1>2, <2>3 DEF DeskCall, BeginDesk, FindDelivery, InsertDelivery, UpdateAssignee
  <2>4. QED
    BY <2>1, <2>2, <2>3
<1>3. ASSUME ~\E b \in DeskCalls : DeskCall(b)
      PROVE  order'[a] = order[a] /\ deskStep[a] = <<"assign", "write">>
  BY <1>3 DEF Next, ProofCall, RefuseMalformed, Receive, Dedupe, ReadDelivery, ReadExisting,
              ReadPickup, ReadSettings, Insert, Cancel, UpdateSettings, SetDriverActive, vars, deskVars
<1>4. /\ order'[a] = order[a]
      /\ \/ ReadStatus(a) /\ status[order[a][1]] = "Pending" /\ UNCHANGED status
         \/ deskStep[a] = <<"assign", "write">>
  BY <1>1, <1>2, <1>3
<1>5. order[a][1] \in Deliveries
  <2>1. /\ <<"assign", "readStatus">> \in DeskRunning
        /\ <<"assign", "write">> \in DeskRunning
    BY DEF DeskRunning
  <2>2. QED
    BY <1>4, <2>1 DEF ReadStatus, TypeOK, DeskTypeOK, Orders
<1>6. QED
  BY <1>4, <1>5

\* Only a stored proof moves a pending delivery on.
LEMMA StepKeepsPendingAtWrite ==
  ASSUME ConstantsAssumption, TypeOK, AssignedAlone, PendingAtWrite, [Next]_vars
  PROVE  PendingAtWrite'
<1> SUFFICES ASSUME NEW a \in DeskCalls, deskStep'[a] = <<"assign", "write">>
             PROVE  status'[order'[a][1]] = "Pending"
  BY DEF PendingAtWrite
<1>1. order'[a] = order[a] /\ order[a][1] \in Deliveries
  BY ComesToWrite
<1>2. CASE status[order[a][1]] = "Pending" /\ UNCHANGED status
  BY <1>1, <1>2
<1>3. CASE deskStep[a] = <<"assign", "write">>
  <2>1. status[order[a][1]] = "Pending"
    BY <1>3 DEF PendingAtWrite
  <2>2. ASSUME NEW d \in Deliveries, Opens(d) PROVE status'[order[a][1]] = "Pending"
    BY <1>1, <2>1, <2>2 DEF Opens, TypeOK, TablesTypeOK
  <2>3. ASSUME NEW c \in ProofCalls, step[c] = "insert", Stores(uuid[c], caller[c])
        PROVE  status'[order[a][1]] = "Pending"
    BY <1>1, <1>3, <2>1, <2>3 DEF AssignedAlone, Stores, TypeOK, TablesTypeOK
  <2>4. QED
    BY <1>1, <2>1, <2>2, <2>3, TableSteps
<1>4. QED
  BY <1>2, <1>3, ComesToWrite

\* "Only pending deliveries can be reassigned." (db/scripts/022_tenant.sql:258), as long as no
\* proof is stored between the check of usp_Delivery_Assign and its UPDATE.
THEOREM ReassignedAlone == Spec /\ []AssignedAlone => OnlyPendingReassigned
<1> USE ConstantsAssumption
<1>1. Init => PendingAtWrite
  BY DEF Init, PendingAtWrite
<1>2. TypeOK /\ AssignedAlone /\ PendingAtWrite /\ [Next]_vars => PendingAtWrite'
  BY StepKeepsPendingAtWrite
<1>3. TypeOK /\ PendingAtWrite /\ [Next]_vars =>
        [\A d \in Deliveries :
           assigned'[d] # assigned[d] => status[d] \in {"Absent", "Pending"}]_vars
  <2> SUFFICES ASSUME TypeOK, PendingAtWrite, [Next]_vars, NEW d \in Deliveries,
                      assigned'[d] # assigned[d]
               PROVE  status[d] \in {"Absent", "Pending"}
    OBVIOUS
  <2>1. PICK a \in DeskCalls : InsertDelivery(a) \/ UpdateAssignee(a)
    BY DEF Next, ProofCall, RefuseMalformed, Receive, Dedupe, ReadDelivery, ReadExisting,
           ReadPickup, ReadSettings, Insert, Cancel, DeskCall, BeginDesk, FindDelivery, FindDriver,
           ReadStatus, UpdateSettings, SetDriverActive, vars, tables
  <2>2. assigned' \in {assigned, [assigned EXCEPT ![order[a][1]] = order[a][2]]}
    BY <2>1 DEF InsertDelivery, UpdateAssignee
  <2>3. d = order[a][1]
    BY <2>2 DEF TypeOK, TablesTypeOK
  <2>4. QED
    BY <2>1, <2>3 DEF InsertDelivery, UpdateAssignee, PendingAtWrite
<1>4. QED
  BY <1>1, <1>2, <1>3, TypeCorrect, PTL DEF Spec, OnlyPendingReassigned
=============================================================================
