------------------------------ MODULE ProofStore ------------------------------
(***************************************************************************)
(* The server's record of deliveries and proofs: the stored procedures     *)
(* usp_Proof_Create, usp_Delivery_Create, usp_Delivery_Assign,             *)
(* usp_Company_UpdateSettings and usp_AppUser_SetDriverActive in their     *)
(* latest versions, executed concurrently.                                 *)
(*                                                                         *)
(* The procedures check and then write without a transaction around the    *)
(* two, under READ COMMITTED, so every SQL statement is a step of its own  *)
(* and what a statement read may have changed when the next one runs.  The *)
(* transaction at the end of usp_Proof_Create is one step: readers block   *)
(* on its uncommitted rows, or see the delivery as it was before it.       *)
(*                                                                         *)
(* A proof is identified by its ClientUuid, and a client sends the same    *)
(* content under the same uuid every time (Content); only the caller comes *)
(* from the token of the request.  A delivery is identified by its order   *)
(* reference within its company, which the schema makes unique.            *)
(***************************************************************************)
EXTENDS Integers

CONSTANTS
  Companies, Drivers, Deliveries, Uuids,
  ProofCalls,       \* slots for concurrent executions of usp_Proof_Create
  DeskCalls,        \* slots for concurrent Delivery_Create / Delivery_Assign
  DriverCompany,    \* the company claim of each driver's token
  DeliveryCompany,  \* the tenant each order belongs to
  Content,          \* what is sent under each ClientUuid
  SettingsMenu,     \* the capture rules an admin may choose (a bound; all of them in use)
  NoDriver,         \* NULL in AssignedDriverId
  NoUuid            \* an idle call slot holds no request

MaxPhotos == 5

\* Delivery statuses as the lifecycle knows them; "Absent" is no row.
Statuses == {"Absent", "Pending", "PickedUp", "Delivered", "Failed"}

ProofContent ==
  [delivery : Deliveries,
   type     : {"Pickup", "Delivery"},
   status   : {"PickedUp", "Delivered", "Failed"},
   photos   : Nat,       \* how many photo keys
   signed   : BOOLEAN,   \* a signature key is present
   reason   : BOOLEAN]   \* a failure reason is present

\* What a company may insist on (CompanySettings.RequirePhoto / RequireSignature).
Requirements == {"photo", "signature"}

ASSUME ConstantsAssumption ==
  /\ DriverCompany \in [Drivers -> Companies]
  /\ DeliveryCompany \in [Deliveries -> Companies]
  /\ Content \in [Uuids -> ProofContent]
  /\ SettingsMenu \subseteq SUBSET Requirements
  /\ NoDriver \notin Drivers
  /\ NoUuid \notin Uuids

VARIABLES
  status,     \* Delivery.Status
  assigned,   \* Delivery.AssignedDriverId
  active,     \* AppUser.IsActive
  required,   \* the requirements each company has switched on
  proof,      \* the Proof table: the DriverId recorded under each uuid
  step,       \* where each proof call is, or how it was answered
  uuid,       \* the request each proof call executes
  caller,     \* the driver of its token
  seen,       \* @deliveryStatus of each proof call
  waived,     \* history: what the caller's company did not require
              \* at some moment of the call
  deskStep,   \* where each desk call is; its answer is for the panel to show
  order       \* the <<delivery, driver, company>> it was given: the company is the
              \* claim of the calling admin's token

proofCallVars == <<step, uuid, caller, seen, waived>>
deskVars == <<deskStep, order>>
tables == <<status, assigned, active, required, proof>>
vars == <<tables, proofCallVars, deskVars>>

-----------------------------------------------------------------------------
(* The rows of dbo.Proof.                                                   *)

IsRecorded(u) == proof[u] # NoDriver

ProofsOf(d, type) ==
  {u \in Uuids : IsRecorded(u) /\ Content[u].delivery = d /\ Content[u].type = type}

HasProof(d, type) == ProofsOf(d, type) # {}

PickupSucceeded(d) == \E v \in ProofsOf(d, "Pickup") : Content[v].status = "PickedUp"

(* How a proof call can be where it is.                                     *)

Running == {"dedupe", "readDelivery", "readExisting", "readPickup",
            "readSettings", "insert"}

Confirmed == {"Created", "Duplicate"}                     \* HTTP 201, 200
Conflict == {"AlreadyProven", "PickupMissing", "WrongState"} \* 50022/25/27: 409
Unprocessable == {"PhotoRequired", "SignatureRequired"}    \* 50028/29: 422

\* The answers the offline queue takes as final (400, 403, 409, 422).
Rejected == {"BadRequest", "NotAssigned"} \cup Conflict \cup Unprocessable

Answers == Confirmed \cup Rejected \cup
           {"NotFound",          \* 50020: 404
            "UniqueViolation",   \* 2627 or 2601, in no map: 500
            "Cancelled"}         \* the client went away, nobody reads it

ProofSteps == {"idle"} \cup Running \cup Answers

DeskRunning == {<<op, at>> : op \in {"create", "assign"},
                             at \in {"findDelivery", "findDriver", "readStatus", "write"}}

DeskSteps == DeskRunning \cup {<<"idle">>}

DriverOrNone == Drivers \cup {NoDriver}

Orders == Deliveries \X DriverOrNone \X Companies

TablesTypeOK ==
  /\ status \in [Deliveries -> Statuses]
  /\ assigned \in [Deliveries -> DriverOrNone]
  /\ active \in [Drivers -> BOOLEAN]
  /\ required \in [Companies -> SUBSET Requirements]
  /\ proof \in [Uuids -> DriverOrNone]

ProofCallsTypeOK ==
  /\ step \in [ProofCalls -> ProofSteps]
  /\ uuid \in [ProofCalls -> Uuids \cup {NoUuid}]
  /\ caller \in [ProofCalls -> DriverOrNone]
  /\ seen \in [ProofCalls -> Statuses]
  /\ waived \in [ProofCalls -> SUBSET Requirements]
  /\ \A c \in ProofCalls : step[c] \in Running => uuid[c] \in Uuids /\ caller[c] \in Drivers

DeskTypeOK ==
  /\ deskStep \in [DeskCalls -> DeskSteps]
  /\ order \in [DeskCalls -> Orders \cup {<<>>}]
  /\ \A a \in DeskCalls : deskStep[a] \in DeskRunning => order[a] \in Orders

TypeOK == TablesTypeOK /\ ProofCallsTypeOK /\ DeskTypeOK

\* An empty database of companies with the default settings (a photo, no signature).
Init ==
  /\ status = [d \in Deliveries |-> "Absent"]
  /\ assigned = [d \in Deliveries |-> NoDriver]
  /\ active = [r \in Drivers |-> TRUE]
  /\ required = [k \in Companies |-> {"photo"}]
  /\ proof = [u \in Uuids |-> NoDriver]
  /\ step = [c \in ProofCalls |-> "idle"]
  /\ uuid = [c \in ProofCalls |-> NoUuid]
  /\ caller = [c \in ProofCalls |-> NoDriver]
  /\ seen = [c \in ProofCalls |-> "Absent"]
  /\ waived = [c \in ProofCalls |-> {}]
  /\ deskStep = [a \in DeskCalls |-> <<"idle">>]
  /\ order = [a \in DeskCalls |-> <<>>]
-----------------------------------------------------------------------------
(* POST /proofs: one execution of usp_Proof_Create, statement by statement. *)

\* The call goes on with the next statement.
Continue(c, next) ==
  /\ step' = [step EXCEPT ![c] = next]
  /\ UNCHANGED <<uuid, caller, waived>>

\* The call ends: a THROW, a result set or a broken connection.
Answer(c, answer) ==
  /\ step' = [step EXCEPT ![c] = answer]
  /\ uuid' = [uuid EXCEPT ![c] = NoUuid]
  /\ caller' = [caller EXCEPT ![c] = NoDriver]
  /\ seen' = [seen EXCEPT ![c] = "Absent"]
  /\ waived' = [waived EXCEPT ![c] = {}]

\* Mutant: which results fit which type is not asked.
WellFormedAnyResult(p) ==
  /\ p.status = "Failed" => p.reason
  /\ p.photos <= MaxPhotos

\* CreateProofRequestValidator, which runs before the controller action.
WellFormed(p) ==
  /\ p.type = "Pickup" => p.status \in {"PickedUp", "Failed"}
  /\ p.type = "Delivery" => p.status \in {"Delivered", "Failed"}
  /\ p.status = "Failed" => p.reason
  /\ p.photos <= MaxPhotos

NotRequiredBy(k) == Requirements \ required[k]

Receive(c, u, r) ==
  /\ step[c] \notin Running
  /\ WellFormed(Content[u])
  /\ step' = [step EXCEPT ![c] = "dedupe"]
  /\ uuid' = [uuid EXCEPT ![c] = u]
  /\ caller' = [caller EXCEPT ![c] = r]
  /\ waived' = [waived EXCEPT ![c] = NotRequiredBy(DriverCompany[r])]
  /\ UNCHANGED <<tables, seen, deskVars>>

RefuseMalformed(c, u) ==
  /\ step[c] \notin Running
  /\ ~WellFormed(Content[u])
  /\ Answer(c, "BadRequest")
  /\ UNCHANGED <<tables, deskVars>>

\* The idempotency read by ClientUuid.
Dedupe(c) ==
  /\ step[c] = "dedupe"
  /\ \/ /\ IsRecorded(uuid[c])
        /\ Answer(c, "Duplicate")
     \/ /\ ~IsRecorded(uuid[c])
        /\ Continue(c, "readDelivery")
        /\ UNCHANGED seen
  /\ UNCHANGED <<tables, deskVars>>

\* The delivery is a row of the caller's tenant.
InTenant(d, r) == status[d] # "Absent" /\ DeliveryCompany[d] = DriverCompany[r]

\* Reads assignee, status and company of the delivery; the status is kept.
ReadDelivery(c) ==
  LET d == Content[uuid[c]].delivery IN
  /\ step[c] = "readDelivery"
  /\ \/ /\ ~InTenant(d, caller[c])
        /\ Answer(c, "NotFound")
     \/ /\ InTenant(d, caller[c])
        /\ assigned[d] # caller[c]
        /\ Answer(c, "NotAssigned")
     \/ /\ InTenant(d, caller[c])
        /\ assigned[d] = caller[c]
        /\ seen' = [seen EXCEPT ![c] = status[d]]
        /\ Continue(c, "readExisting")
  /\ UNCHANGED <<tables, deskVars>>

\* Mutant: pickups are exempt from the capture rules as well.
AfterLifecycleChecksOfHandover(p) ==
  IF p.status = "Failed" \/ p.type = "Pickup" THEN "insert" ELSE "readSettings"

\* A failed proof is exempt from the tenant's capture rules, so it skips the read.
AfterLifecycleChecks(p) == IF p.status = "Failed" THEN "insert" ELSE "readSettings"

\* Looks for a proof of the same type; for a pickup the kept status decides next.
ReadExisting(c) ==
  LET p == Content[uuid[c]] IN
  /\ step[c] = "readExisting"
  /\ \/ /\ HasProof(p.delivery, p.type)
        /\ Answer(c, "AlreadyProven")
     \/ /\ ~HasProof(p.delivery, p.type)
        /\ p.type = "Pickup"
        /\ seen[c] # "Pending"
        /\ Answer(c, "WrongState")
     \/ /\ ~HasProof(p.delivery, p.type)
        /\ p.type = "Pickup" => seen[c] = "Pending"
        /\ Continue(c, IF p.type = "Delivery" THEN "readPickup" ELSE AfterLifecycleChecks(p))
        /\ UNCHANGED seen
  /\ UNCHANGED <<tables, deskVars>>

\* Mutant: the kept status is not checked, any pickup proof will do.
ReadPickupOnly(c) ==
  LET p == Content[uuid[c]] IN
  /\ step[c] = "readPickup"
  /\ \/ /\ ~HasProof(p.delivery, "Pickup")
        /\ Answer(c, "PickupMissing")
     \/ /\ HasProof(p.delivery, "Pickup")
        /\ Continue(c, AfterLifecycleChecks(p))
        /\ UNCHANGED seen
  /\ UNCHANGED <<tables, deskVars>>

\* A delivery proof needs a pickup proof and the kept status PickedUp.
ReadPickup(c) ==
  LET p == Content[uuid[c]] IN
  /\ step[c] = "readPickup"
  /\ \/ /\ ~HasProof(p.delivery, "Pickup")
        /\ Answer(c, "PickupMissing")
     \/ /\ HasProof(p.delivery, "Pickup")
        /\ seen[c] # "PickedUp"
        /\ Answer(c, "WrongState")
     \/ /\ HasProof(p.delivery, "Pickup")
        /\ seen[c] = "PickedUp"
        /\ Continue(c, AfterLifecycleChecks(p))
        /\ UNCHANGED seen
  /\ UNCHANGED <<tables, deskVars>>

\* What a proof lacks of the requirements that apply to its type.
Missing(p) ==
  {q \in Requirements : \/ q = "photo" /\ p.photos = 0
                        \/ q = "signature" /\ p.type = "Delivery" /\ ~p.signed}

ReadSettings(c) ==
  LET p == Content[uuid[c]]
      lacking == Missing(p) \cap required[DriverCompany[caller[c]]] IN
  /\ step[c] = "readSettings"
  /\ \/ /\ "photo" \in lacking
        /\ Answer(c, "PhotoRequired")
     \/ /\ lacking = {"signature"}
        /\ Answer(c, "SignatureRequired")
     \/ /\ lacking = {}
        /\ Continue(c, "insert")
        /\ UNCHANGED seen
  /\ UNCHANGED <<tables, deskVars>>

\* Mutant: the schema before 024, with the uuid as its only key.
ViolatesUuidKey(u) == IsRecorded(u)

\* UQ_Proof_ClientUuid and UQ_Proof_Delivery_Type.
ViolatesUniqueKey(u) ==
  IsRecorded(u) \/ HasProof(Content[u].delivery, Content[u].type)

\* Mutant: the CASE before pickups were recorded.
StatusAfterHandover(p) == IF p.status = "Failed" THEN "Failed" ELSE "Delivered"

\* Mutant: the proof's type is written where its result belongs.
StatusAfterIsType(p) == IF p.status = "Failed" THEN "Failed" ELSE p.type

\* The CASE of the UPDATE: the delivery's status after the proof.
StatusAfter(p) ==
  IF p.status = "Failed" THEN "Failed"
  ELSE IF p.type = "Pickup" THEN "PickedUp" ELSE "Delivered"

\* Mutant: any violated key is taken for a proof sent twice.
InsertOrDuplicate(c) ==
  LET u == uuid[c]
      p == Content[u] IN
  /\ step[c] = "insert"
  /\ \/ /\ ViolatesUniqueKey(u)
        /\ Answer(c, "Duplicate")
        /\ UNCHANGED <<proof, status>>
     \/ /\ ~ViolatesUniqueKey(u)
        /\ proof' = [proof EXCEPT ![u] = caller[c]]
        /\ status' = [status EXCEPT ![p.delivery] = StatusAfter(p)]
        /\ Answer(c, "Created")
  /\ UNCHANGED <<assigned, active, required, deskVars>>

\* BEGIN TRAN: the proof, its photos and the delivery's status; COMMIT.
Insert(c) ==
  LET u == uuid[c]
      p == Content[u] IN
  /\ step[c] = "insert"
  /\ \/ /\ ViolatesUniqueKey(u)
        /\ Answer(c, "UniqueViolation")
        /\ UNCHANGED <<proof, status>>
     \/ /\ ~ViolatesUniqueKey(u)
        /\ proof' = [proof EXCEPT ![u] = caller[c]]
        /\ status' = [status EXCEPT ![p.delivery] = StatusAfter(p)]
        /\ Answer(c, "Created")
  /\ UNCHANGED <<assigned, active, required, deskVars>>

\* RequestAborted or a lost connection: the command is cancelled, and
\* XACT_ABORT rolls an open transaction back.
Cancel(c) ==
  /\ step[c] \in Running
  /\ Answer(c, "Cancelled")
  /\ UNCHANGED <<tables, deskVars>>
-----------------------------------------------------------------------------
(* The admin's desk: usp_Delivery_Create and usp_Delivery_Assign.           *)

\* An admin of company k opens an order or assigns a driver.  An order reference is
\* one of the admin's own company; the delivery to assign is named by its Id, which any
\* admin may send, and so is the driver.
BeginDesk(a, op, d, r, k) ==
  /\ deskStep[a] \notin DeskRunning
  /\ op = "create" => DeliveryCompany[d] = k
  /\ op = "assign" => r # NoDriver
  /\ deskStep' = [deskStep EXCEPT ![a] = <<op, "findDelivery">>]
  /\ order' = [order EXCEPT ![a] = <<d, r, k>>]
  /\ UNCHANGED <<tables, proofCallVars>>

DeskGoes(a, to) ==
  /\ deskStep' = [deskStep EXCEPT ![a] = to]
  /\ UNCHANGED order

DeskEnds(a) ==
  /\ deskStep' = [deskStep EXCEPT ![a] = <<"idle">>]
  /\ order' = [order EXCEPT ![a] = <<>>]

\* Mutant: the delivery is found by its Id alone.
AcceptableAnywhere(op, d, k) == (status[d] = "Absent") = (op = "create")

\* Create wants a free order reference, assign a delivery of the admin's company.
Acceptable(op, d, k) ==
  \/ op = "create" /\ status[d] = "Absent"
  \/ op = "assign" /\ status[d] # "Absent" /\ DeliveryCompany[d] = k

FindDelivery(a) ==
  LET op == deskStep[a][1] IN
  /\ deskStep[a] \in {<<"create", "findDelivery">>, <<"assign", "findDelivery">>}
  /\ IF Acceptable(op, order[a][1], order[a][3])
     THEN DeskGoes(a, <<op, "findDriver">>)
     ELSE DeskEnds(a)    \* 50010, 50012
  /\ UNCHANGED <<tables, proofCallVars>>

\* Mutant: the driver's company is not compared.
AssignableAnywhere(r, k) == active[r]

\* An active driver of the admin's company; an order may be opened without one.
Assignable(r, k) == active[r] /\ DriverCompany[r] = k

FindDriver(a) ==
  LET r == order[a][2]
      op == deskStep[a][1] IN
  /\ deskStep[a] \in {<<"create", "findDriver">>, <<"assign", "findDriver">>}
  /\ IF r = NoDriver \/ Assignable(r, order[a][3])
     THEN DeskGoes(a, <<op, IF op = "create" THEN "write" ELSE "readStatus">>)
     ELSE DeskEnds(a)    \* 50011
  /\ UNCHANGED <<tables, proofCallVars>>

ReadStatus(a) ==
  /\ deskStep[a] = <<"assign", "readStatus">>
  /\ IF status[order[a][1]] = "Pending"
     THEN DeskGoes(a, <<"assign", "write">>)
     ELSE DeskEnds(a)    \* 50013
  /\ UNCHANGED <<tables, proofCallVars>>

\* Mutant: an order reference used twice overwrites the first order.
UpsertDelivery(a) ==
  LET d == order[a][1] IN
  /\ deskStep[a] = <<"create", "write">>
  /\ status' = [status EXCEPT ![d] = "Pending"]
  /\ assigned' = [assigned EXCEPT ![d] = order[a][2]]
  /\ DeskEnds(a)
  /\ UNCHANGED <<active, required, proof, proofCallVars>>

\* The INSERT, under UQ_Delivery_OrderRef.
InsertDelivery(a) ==
  LET d == order[a][1] IN
  /\ deskStep[a] = <<"create", "write">>
  /\ \/ /\ status[d] # "Absent"
        /\ DeskEnds(a)    \* 2627
        /\ UNCHANGED <<status, assigned>>
     \/ /\ status[d] = "Absent"
        /\ status' = [status EXCEPT ![d] = "Pending"]
        /\ assigned' = [assigned EXCEPT ![d] = order[a][2]]
        /\ DeskEnds(a)
  /\ UNCHANGED <<active, required, proof, proofCallVars>>

\* The UPDATE of AssignedDriverId, which asks nothing any more.
UpdateAssignee(a) ==
  /\ deskStep[a] = <<"assign", "write">>
  /\ assigned' = [assigned EXCEPT ![order[a][1]] = order[a][2]]
  /\ DeskEnds(a)
  /\ UNCHANGED <<status, active, required, proof, proofCallVars>>

-----------------------------------------------------------------------------
(* Procedures with one statement that matters.                              *)

\* usp_Company_UpdateSettings.
UpdateSettings(k, requirements) ==
  /\ required' = [required EXCEPT ![k] = requirements]
  /\ waived' = [c \in ProofCalls |->
                  IF step[c] \in Running /\ DriverCompany[caller[c]] = k
                  THEN waived[c] \cup (Requirements \ requirements)
                  ELSE waived[c]]
  /\ UNCHANGED <<status, assigned, active, proof, step, uuid, caller, seen, deskVars>>

\* usp_AppUser_SetDriverActive.
SetDriverActive(r, isActive) ==
  /\ active' = [active EXCEPT ![r] = isActive]
  /\ UNCHANGED <<status, assigned, required, proof, proofCallVars, deskVars>>

-----------------------------------------------------------------------------
ProofCall(c) ==
  \/ \E u \in Uuids : RefuseMalformed(c, u)
  \/ \E u \in Uuids, r \in Drivers : Receive(c, u, r)
  \/ Dedupe(c)
  \/ ReadDelivery(c)
  \/ ReadExisting(c)
  \/ ReadPickup(c)
  \/ ReadSettings(c)
  \/ Insert(c)
  \/ Cancel(c)

DeskCall(a) ==
  \/ \E op \in {"create", "assign"}, d \in Deliveries, r \in DriverOrNone, k \in Companies :
       BeginDesk(a, op, d, r, k)
  \/ FindDelivery(a)
  \/ FindDriver(a)
  \/ ReadStatus(a)
  \/ InsertDelivery(a)
  \/ UpdateAssignee(a)

Next ==
  \/ \E c \in ProofCalls : ProofCall(c)
  \/ \E a \in DeskCalls : DeskCall(a)
  \/ \E k \in Companies, q \in SettingsMenu : UpdateSettings(k, q)
  \/ \E r \in Drivers, b \in BOOLEAN : SetDriverActive(r, b)

Spec == Init /\ [][Next]_vars

-----------------------------------------------------------------------------
(* Properties.                                                              *)

\* A delivery never has two proofs of the same type, whatever races with what:
\* "exactly one record is ever created" (docs/architecture.md:84-85).
OneProofPerType ==
  \A u, v \in Uuids :
    /\ IsRecorded(u) /\ IsRecorded(v)
    /\ Content[u].delivery = Content[v].delivery
    /\ Content[u].type = Content[v].type
    => u = v

\* The status of a delivery is the result of its last proof; a delivery proof stands
\* on a successful pickup proof; and a status past Pending is never without a proof.
\* The status is written by one procedure after checks made on stale reads, so this
\* relates four statements of concurrent calls.
StatusMatchesProofs ==
  /\ \A u \in Uuids :
       LET d == Content[u].delivery IN
       IsRecorded(u) =>
         IF Content[u].type = "Delivery"
         THEN /\ status[d] = Content[u].status
              /\ PickupSucceeded(d)
         ELSE status[d] = Content[u].status \/ HasProof(d, "Delivery")
  /\ \A d \in Deliveries : status[d] \notin {"Absent", "Pending"} => HasProof(d, "Pickup")

\* What a call concluded from rows it read earlier still holds when it acts on it, though
\* other calls have run in between: a delivery past its read exists, a kept PickedUp
\* stands on a successful pickup proof, and so does every delivery proof on its way to
\* the INSERT.  The procedure rests on this: it never reads those rows again.
ReadsStayTrue ==
  \A c \in ProofCalls : step[c] \in Running =>
    LET p == Content[uuid[c]] IN
    /\ step[c] \notin {"dedupe", "readDelivery"} => status[p.delivery] # "Absent"
    /\ step[c] \notin {"dedupe", "readDelivery"} /\ seen[c] = "PickedUp"
         => PickupSucceeded(p.delivery)
    /\ step[c] \in {"readSettings", "insert"} /\ p.type = "Delivery"
         => PickupSucceeded(p.delivery)

\* No delivery is ever assigned to, or proven by, a driver of another tenant, whichever
\* admin calls with whichever delivery and driver: create and assign compare the driver,
\* and assign the delivery, with the caller's company, and the write comes two or three
\* statements later and compares nothing.
TenantIsolation ==
  /\ \A d \in Deliveries :
       assigned[d] # NoDriver => DriverCompany[assigned[d]] = DeliveryCompany[d]
  /\ \A u \in Uuids :
       IsRecorded(u) => DriverCompany[proof[u]] = DeliveryCompany[Content[u].delivery]

\* What a client is told: a 200 or 201 means that the proof under its uuid is stored
\* and its delivery has moved on, and it is given to nobody else.  The device deletes
\* its only copy of the proof on that answer.
ConfirmationsAreTrue ==
  [][\A c \in ProofCalls :
       step[c] \in Running /\ step'[c] \in Confirmed =>
         /\ proof'[uuid[c]] # NoDriver
         /\ status'[Content[uuid[c]].delivery] \notin {"Absent", "Pending"}]_vars

\* The capture rules of a tenant are enforced on the server: a proof that lacks a
\* photo or a signature is stored only if the caller's company did not require it at
\* some moment of the call, however the admin's changes interleave with it.
CaptureRulesEnforced ==
  [][\A c \in ProofCalls :
       step[c] = "insert" /\ step'[c] = "Created" /\ Content[uuid[c]].status # "Failed" =>
         Missing(Content[uuid[c]]) \subseteq waived[c]]_vars

\* What the database shows of each delivery obeys the lifecycle.
Lifecycle == INSTANCE ProofLifecycle WITH
  evidence <- [d \in Deliveries |->
                 {<<Content[u].type, Content[u].status>> :
                    u \in {v \in Uuids : IsRecorded(v) /\ Content[v].delivery = d}}]

ImplementsLifecycle == Lifecycle!Spec

\* "Only pending deliveries can be reassigned." (db/scripts/022_tenant.sql:258)
OnlyPendingReassigned ==
  [][\A d \in Deliveries :
       assigned'[d] # assigned[d] => status[d] \in {"Absent", "Pending"}]_vars

\* "re-sending is safe - the API dedupes on ClientUuid" (ProofSyncService.cs:15): once a
\* proof is stored, sending it again is never answered by a final rejection.
ReSendingIsSafe ==
  [][\A c \in ProofCalls :
       step[c] \in Running /\ IsRecorded(uuid[c]) => step'[c] \notin Rejected]_vars
=============================================================================
