------------------------------ MODULE ProofQueue ------------------------------
(***************************************************************************)
(* The offline proof queue of the driver's phone: capture (view models),   *)
(* ProofQueue.EnqueueAsync, the SQLite rows and files it leaves, and       *)
(* ProofSyncService, which drains them to the API, with the app killed at  *)
(* any moment, the network lost, and requests and answers lost or late.    *)
(*                                                                         *)
(* Every await of the two services is a point where the other, or a crash, *)
(* comes between, so the steps are what happens from one await to the      *)
(* next.  What _runLock lets through is one drain at a time.               *)
(*                                                                         *)
(* The API is the sequential meaning of usp_Proof_Create (see ProofStore): *)
(* a request is answered at once, but may be answered late or unheard.     *)
(***************************************************************************)
EXTENDS Integers, FiniteSets

CONSTANTS
  Deliveries,   \* the driver's deliveries
  Proofs,       \* the ClientUuids capturing may draw
  Content,      \* what is captured under each
  MaxAttempts,  \* 5 in OfflineQueueRetryPolicy; smaller in the runs
  Faults,       \* what may go wrong: "outage", "loss" of a request or an answer, and
                \* "refusal" for reasons the device cannot know
  MaxCrashes,   \* a bound: how often the app is killed
  MaxLate,      \* a bound: how many requests may arrive after their caller gave up
  NoProof       \* nothing is being saved, or drained

DeliveryStatuses == {"Pending", "PickedUp", "Delivered", "Failed"}

ASSUME ConstantsAssumption ==
  /\ Content \in [Proofs -> [delivery : Deliveries,
                             type : {"Pickup", "Delivery"},
                             status : DeliveryStatuses \ {"Pending"},
                             photos : 0..5]]
  /\ \A u \in Proofs : Content[u].status \in
       {"Failed", IF Content[u].type = "Pickup" THEN "PickedUp" ELSE "Delivered"}
  /\ MaxAttempts \in Nat \ {0}
  /\ Faults \subseteq {"outage", "loss", "refusal"}
  /\ MaxCrashes \in Nat
  /\ MaxLate \in Nat
  /\ NoProof \notin Proofs

VARIABLES
  row,       \* PendingProof.State, or "None" before and "Deleted" after the row
  attempts,  \* PendingProof.Attempts
  due,       \* NextAttemptUtc has passed
  earlier,   \* the proofs with an earlier CreatedAt
  files,     \* the photo files of each proof on disk, by OrderIndex
  photoRows, \* the PendingPhoto rows of each proof
  keys,      \* those with a RemoteKey
  saving,    \* the proof EnqueueAsync is at, or NoProof
  progress,  \* how many of its photos it has saved
  saved,     \* history: the proofs whose driver was told "Kaydedildi"
  batch,     \* the proofs the running drain still has to process
  current,   \* the one it processes, or NoProof
  stage,     \* where it is with that one
  snapshot,  \* the photos it read for that one
  raced,     \* history: a late copy of its request was stored since it was sent
  recorded,  \* the server's proofs
  evidence,  \* the photos the server has of each
  late,      \* requests nobody waits for any more: <<proof, photos>>
  shown,     \* the status the delivery page shows
  cached,    \* CachedDelivery.Status
  online,    \* IConnectivity.NetworkAccess
  crashes

deviceRows == <<row, attempts, due, earlier, photoRows, keys>>
saveVars == <<saving, progress, saved>>
drainVars == <<batch, current, stage, snapshot, raced>>
serverVars == <<recorded, evidence, late>>
pageVars == <<shown, cached>>
vars == <<deviceRows, files, saveVars, drainVars, serverVars, pageVars, online, crashes>>

-----------------------------------------------------------------------------
RowStates == {"None", "Pending", "Syncing", "Failed", "Deleted"}

Stages == {"idle", "next", "marked", "upload", "sent", "confirmed", "rejected",
           "cleaned", "photosDeleted"}

Photos(u) == 0..Content[u].photos - 1

OnDevice(u) == row[u] \in {"Pending", "Syncing", "Failed"}

\* LocalDatabase.HasUnsyncedPickupAsync: a failed row counts.
HasUnsyncedPickup(d) ==
  \E u \in Proofs : OnDevice(u) /\ Content[u].delivery = d /\ Content[u].type = "Pickup"

\* Mutant: a delivery proof does not move the delivery on.
ServerStatusOfPickup(d) ==
  LET results == {Content[u].status : u \in {v \in recorded : Content[v].delivery = d
                                                            /\ Content[v].type = "Pickup"}}
  IN  IF results = {} THEN "Pending" ELSE CHOOSE s \in DeliveryStatuses : s \in results

\* The server's delivery status, a function of its proofs.
ServerStatus(d) ==
  LET results(type) == {Content[u].status : u \in {v \in recorded : Content[v].delivery = d
                                                                  /\ Content[v].type = type}}
  IN  IF results("Pickup") = {} THEN "Pending"
      ELSE CHOOSE s \in DeliveryStatuses :
             s \in IF results("Delivery") = {} THEN results("Pickup") ELSE results("Delivery")

\* Each proof has its own photos, and a key is written to a row.
PhotosTypeOK ==
  /\ files \in [Proofs -> SUBSET (0..4)]
  /\ photoRows \in [Proofs -> SUBSET (0..4)]
  /\ keys \in [Proofs -> SUBSET (0..4)]
  /\ evidence \in [Proofs -> SUBSET (0..4)]
  /\ \A u \in Proofs : /\ files[u] \subseteq Photos(u)
                       /\ keys[u] \subseteq photoRows[u]
                       /\ photoRows[u] \subseteq Photos(u)
                       /\ evidence[u] \subseteq Photos(u)
  /\ late \subseteq Proofs \X SUBSET (0..4)
  /\ \A r \in late : r[2] \subseteq Photos(r[1])

\* The drain processes one proof at a time.
DrainTypeOK ==
  /\ batch \subseteq Proofs
  /\ stage \in Stages
  /\ current \in Proofs \cup {NoProof}
  /\ current = NoProof <=> stage \in {"idle", "next"}
  /\ current \notin batch
  /\ stage = "idle" => batch = {}
  /\ stage = "next" => batch # {}
  /\ snapshot \subseteq IF current = NoProof THEN {} ELSE Photos(current)
  /\ stage = "upload" => snapshot \subseteq photoRows[current]
  /\ raced \in BOOLEAN

TypeOK ==
  /\ row \in [Proofs -> RowStates]
  /\ attempts \in [Proofs -> 0..MaxAttempts]
  /\ due \in [Proofs -> BOOLEAN]
  /\ earlier \in [Proofs -> SUBSET Proofs]
  /\ PhotosTypeOK
  /\ saving \in Proofs \cup {NoProof}
  /\ progress \in 0..5
  /\ saved \subseteq Proofs
  /\ DrainTypeOK
  /\ recorded \subseteq Proofs
  /\ shown \in [Deliveries -> DeliveryStatuses \cup {"None"}]
  /\ cached \in [Deliveries -> DeliveryStatuses \cup {"None"}]
  /\ online \in BOOLEAN
  /\ crashes \in 0..MaxCrashes

Init ==
  /\ row = [u \in Proofs |-> "None"]
  /\ attempts = [u \in Proofs |-> 0]
  /\ due = [u \in Proofs |-> FALSE]
  /\ earlier = [u \in Proofs |-> {}]
  /\ files = [u \in Proofs |-> {}]
  /\ photoRows = [u \in Proofs |-> {}]
  /\ keys = [u \in Proofs |-> {}]
  /\ saving = NoProof
  /\ progress = 0
  /\ saved = {}
  /\ batch = {}
  /\ current = NoProof
  /\ stage = "idle"
  /\ snapshot = {}
  /\ raced = FALSE
  /\ recorded = {}
  /\ evidence = [u \in Proofs |-> {}]
  /\ late = {}
  /\ shown = [d \in Deliveries |-> "None"]
  /\ cached = [d \in Deliveries |-> "None"]
  /\ online = TRUE
  /\ crashes = 0
-----------------------------------------------------------------------------
(* The delivery page and capture.                                           *)

\* DeliveryListViewModel.LoadAsync: the list is fetched and replaces the cache.
LoadList ==
  /\ online
  /\ cached' = [d \in Deliveries |-> ServerStatus(d)]
  /\ UNCHANGED <<deviceRows, files, saveVars, drainVars, serverVars, shown, online, crashes>>

\* DeliveryDetailViewModel.LoadAsync: the server's word, or the cache's without network.
OpenPage(d) ==
  /\ saving = NoProof
  /\ shown' = [shown EXCEPT ![d] = IF online THEN ServerStatus(d) ELSE cached[d]]
  /\ UNCHANGED <<deviceRows, files, saveVars, drainVars, serverVars, cached, online, crashes>>

\* Mutant: any delivery on the page may be proven.
CanCaptureAnyTime(u) == shown[Content[u].delivery] # "None"

\* CanCapturePickup and CanCaptureDelivery, by the status shown when the page was opened.
CanCapture(u) ==
  shown[Content[u].delivery] = IF Content[u].type = "Pickup" THEN "Pending" ELSE "PickedUp"

\* SubmitAsync draws a new uuid and EnqueueAsync inserts its row, due at once.
InsertProof(u) ==
  /\ saving = NoProof
  /\ row[u] = "None"
  /\ CanCapture(u)
  /\ row' = [row EXCEPT ![u] = "Pending"]
  /\ due' = [due EXCEPT ![u] = TRUE]
  /\ earlier' = [earlier EXCEPT ![u] = {v \in Proofs : row[v] # "None"}]
  /\ saving' = u
  /\ progress' = 0
  /\ UNCHANGED <<attempts, photoRows, keys, files, saved, drainVars, serverVars, pageVars,
                 online, crashes>>

\* One turn of EnqueueAsync's loop: the file, then its row.
SavePhoto ==
  /\ saving # NoProof
  /\ progress < Content[saving].photos
  /\ files' = [files EXCEPT ![saving] = @ \cup {progress}]
  /\ photoRows' = [photoRows EXCEPT ![saving] = @ \cup {progress}]
  /\ progress' = progress + 1
  /\ UNCHANGED <<row, attempts, due, earlier, keys, saving, saved, drainVars, serverVars,
                 pageVars, online, crashes>>

\* Mutant: the driver is told as soon as the proof's row exists.
FinishSavingEarly ==
  /\ saving # NoProof
  /\ saved' = saved \cup {saving}
  /\ shown' = [shown EXCEPT ![Content[saving].delivery] = "None"]
  /\ saving' = NoProof
  /\ progress' = 0
  /\ UNCHANGED <<deviceRows, files, drainVars, serverVars, cached, online, crashes>>

\* EnqueueAsync returns, the driver is told and the pages are left.
FinishSaving ==
  /\ saving # NoProof
  /\ progress = Content[saving].photos
  /\ saved' = saved \cup {saving}
  /\ shown' = [shown EXCEPT ![Content[saving].delivery] = "None"]
  /\ saving' = NoProof
  /\ progress' = 0
  /\ UNCHANGED <<deviceRows, files, drainVars, serverVars, cached, online, crashes>>

\* EnqueueAsync throws: the driver is told it was not saved and may submit again,
\* under another uuid; what is written stays.
SavingFails ==
  /\ saving # NoProof
  /\ progress < Content[saving].photos
  /\ saving' = NoProof
  /\ progress' = 0
  /\ UNCHANGED <<deviceRows, files, saved, drainVars, serverVars, pageVars, online, crashes>>

-----------------------------------------------------------------------------
(* ProofSyncService.                                                        *)

\* Mutant: rows a killed drain left as syncing are not taken up again.
IsDuePending(states, isDue, u) == states[u] = "Pending" /\ isDue[u]

\* LocalDatabase.GetDueAsync: syncing rows are left over from a killed drain.
IsDue(states, isDue, u) == states[u] \in {"Pending", "Syncing"} /\ isDue[u]

DueBatch(states, isDue) == {u \in Proofs : IsDue(states, isDue, u)}

BeginDrain(states, isDue) ==
  /\ batch' = DueBatch(states, isDue)
  /\ stage' = IF DueBatch(states, isDue) = {} THEN "idle" ELSE "next"
  /\ UNCHANGED <<current, snapshot, raced>>

\* RunOnceAsync from the timer, a connectivity change or a queue change.
RunOnce ==
  /\ stage = "idle"
  /\ online
  /\ DueBatch(row, due) # {}
  /\ BeginDrain(row, due)
  /\ UNCHANGED <<deviceRows, files, saveVars, serverVars, pageVars, online, crashes>>

\* Mutant: re-armed proofs keep their attempts.
RetryAllCounting ==
  LET rearmed == {u \in Proofs : row[u] = "Failed"}
      newRow == [u \in Proofs |-> IF u \in rearmed THEN "Pending" ELSE row[u]]
      newDue == [u \in Proofs |-> u \in rearmed \/ due[u]] IN
  /\ rearmed # {}
  /\ row' = newRow
  /\ due' = newDue
  /\ IF stage = "idle" THEN BeginDrain(newRow, newDue) ELSE UNCHANGED drainVars
  /\ UNCHANGED <<attempts, earlier, photoRows, keys, files, saveVars, serverVars, pageVars,
                 online, crashes>>

\* RetryAllAsync: "send now" re-arms what failed and drains whatever the network says,
\* unless a drain is running.
RetryAll ==
  LET rearmed == {u \in Proofs : row[u] = "Failed"}
      newRow == [u \in Proofs |-> IF u \in rearmed THEN "Pending" ELSE row[u]]
      newDue == [u \in Proofs |-> u \in rearmed \/ due[u]] IN
  /\ rearmed # {}
  /\ row' = newRow
  /\ due' = newDue
  /\ attempts' = [u \in Proofs |-> IF u \in rearmed THEN 0 ELSE attempts[u]]
  /\ IF stage = "idle" THEN BeginDrain(newRow, newDue) ELSE UNCHANGED drainVars
  /\ UNCHANGED <<earlier, photoRows, keys, files, saveVars, serverVars, pageVars, online, crashes>>

\* The drain takes the oldest of its batch (OrderBy CreatedAt).
IsNext(u) == u \in batch /\ earlier[u] \cap batch = {}

\* The drain is done with the current proof.
Advance ==
  /\ current' = NoProof
  /\ stage' = IF batch = {} THEN "idle" ELSE "next"
  /\ snapshot' = {}
  /\ raced' = FALSE
  /\ UNCHANGED batch

\* The drain goes on with the current proof.
GoTo(next) ==
  /\ stage' = next
  /\ UNCHANGED <<batch, current, snapshot, raced>>

\* Mutant: a delivery proof never waits.
MustHoldNever(u) == FALSE

MustHold(u) == Content[u].type = "Delivery" /\ HasUnsyncedPickup(Content[u].delivery)

\* ProcessAsync puts a delivery proof off while its pickup is on the device.
Hold(u) ==
  /\ stage = "next"
  /\ IsNext(u)
  /\ MustHold(u)
  /\ row' = [row EXCEPT ![u] = "Pending"]
  /\ due' = [due EXCEPT ![u] = FALSE]
  /\ batch' = batch \ {u}
  /\ stage' = IF batch = {u} THEN "idle" ELSE "next"
  /\ UNCHANGED <<current, snapshot, raced, attempts, earlier, photoRows, keys, files, saveVars,
                 serverVars, pageVars, online, crashes>>

Mark(u) ==
  /\ stage = "next"
  /\ IsNext(u)
  /\ ~MustHold(u)
  /\ row' = [row EXCEPT ![u] = "Syncing"]
  /\ batch' = batch \ {u}
  /\ current' = u
  /\ stage' = "marked"
  /\ UNCHANGED <<snapshot, raced, attempts, due, earlier, photoRows, keys, files, saveVars,
                 serverVars, pageVars, online, crashes>>

ReadPhotos ==
  /\ stage = "marked"
  /\ snapshot' = photoRows[current]
  /\ stage' = "upload"
  /\ UNCHANGED <<batch, current, raced, deviceRows, files, saveVars, serverVars, pageVars, online, crashes>>

\* The photos the drain has read that still lack a RemoteKey.
Unsent == snapshot \ keys[current]
IsNextPhoto(i) == i \in Unsent /\ \A j \in Unsent : i <= j

\* A file that DeleteLocalFiles took with the directory, its row surviving a crash.
MissingFile == stage = "upload" /\ \E i \in Unsent : IsNextPhoto(i) /\ i \notin files[current]

\* Presign, PUT, and the key written to its row.
UploadPhoto(i) ==
  /\ stage = "upload"
  /\ online
  /\ IsNextPhoto(i)
  /\ i \in files[current]
  /\ keys' = [keys EXCEPT ![current] = @ \cup {i}]
  /\ UNCHANGED <<row, attempts, due, earlier, photoRows, files, saveVars, drainVars, serverVars,
                 pageVars, online, crashes>>

Send ==
  /\ stage = "upload"
  /\ online
  /\ Unsent = {}
  /\ GoTo("sent")
  /\ UNCHANGED <<deviceRows, files, saveVars, serverVars, pageVars, online, crashes>>

\* usp_Proof_Create takes a new proof in the right state, with a photo if it succeeded
\* (the default capture rule).
Accepts(u, photos) ==
  LET p == Content[u] IN
  /\ u \notin recorded
  /\ \A v \in recorded : ~(Content[v].delivery = p.delivery /\ Content[v].type = p.type)
  /\ ServerStatus(p.delivery) = IF p.type = "Pickup" THEN "Pending" ELSE "PickedUp"
  /\ p.status # "Failed" => photos # {}

\* Mutant: a proof that is sent again is stored over the first.
StoreAgain(u, photos) ==
  IF Accepts(u, photos) \/ u \in recorded
  THEN /\ recorded' = recorded \cup {u}
       /\ evidence' = [evidence EXCEPT ![u] = photos]
  ELSE UNCHANGED <<recorded, evidence>>

Store(u, photos) ==
  IF Accepts(u, photos)
  THEN /\ recorded' = recorded \cup {u}
       /\ evidence' = [evidence EXCEPT ![u] = photos]
  ELSE UNCHANGED <<recorded, evidence>>

\* The request reaches the API while the drain waits.  A duplicate is confirmed, except
\* that one whose first copy was stored while it ran may find the delivery proven.
Arrive ==
  /\ stage = "sent"
  /\ Store(current, snapshot)
  /\ \/ /\ Accepts(current, snapshot) \/ current \in recorded
        /\ GoTo("confirmed")
     \/ /\ ~Accepts(current, snapshot)
        /\ current \notin recorded \/ raced
        /\ GoTo("rejected")
  /\ UNCHANGED <<late, deviceRows, files, saveVars, pageVars, online, crashes>>

\* The API refuses what it would accept of this device alone: the delivery was given to
\* another driver, or the company's capture rules were tightened.
ArriveUnwelcome ==
  /\ stage = "sent"
  /\ "refusal" \in Faults
  /\ current \notin recorded
  /\ GoTo("rejected")
  /\ UNCHANGED <<serverVars, deviceRows, files, saveVars, pageVars, online, crashes>>

\* A request whose caller gave up reaches the API after all.
ArriveLate(r) ==
  /\ r \in late
  /\ late' = late \ {r}
  /\ Store(r[1], r[2])
  /\ raced' = (raced \/ (stage = "sent" /\ r[1] = current /\ Accepts(r[1], r[2])))
  /\ UNCHANGED <<batch, current, stage, snapshot, deviceRows, files, saveVars, pageVars, online, crashes>>

\* Nobody waits for the request any more; it is lost or may still arrive.
Abandon ==
  \/ UNCHANGED late
  \/ /\ stage = "sent"
     /\ late' = late \cup {<<current, snapshot>>}
     /\ Cardinality(late') <= MaxLate

\* Mutant: one attempt too many.
IsExhaustedAbove(n) == n > MaxAttempts

\* OfflineQueueRetryPolicy.IsExhausted.
IsExhausted(n) == n >= MaxAttempts

\* The catch-all: no network, a missing file, or a loss: a timeout, a lost answer, a 401,
\* 404 or 5xx.
FailAttempt ==
  LET n == attempts[current] + 1 IN
  /\ stage \in {"upload", "sent", "confirmed", "rejected"}
  /\ ~online \/ MissingFile \/ "loss" \in Faults
  /\ attempts' = [attempts EXCEPT ![current] = n]
  /\ row' = [row EXCEPT ![current] = IF IsExhausted(n) THEN "Failed" ELSE "Pending"]
  /\ due' = [due EXCEPT ![current] = IsExhausted(n) /\ @]
  /\ Abandon
  /\ Advance
  /\ UNCHANGED <<earlier, photoRows, keys, files, saveVars, recorded, evidence, pageVars,
                 online, crashes>>

\* The object storage refuses a photo (403: the link has expired, say), which
\* ApiClient.UploadAsync raises like a refusal of the API.
UploadRefused == stage = "upload" /\ Unsent # {} /\ ~MissingFile /\ "refusal" \in Faults

\* Mutant: what the API refuses for good is dropped from the queue.
RejectAndDrop ==
  /\ stage = "rejected" \/ UploadRefused
  /\ online
  /\ row' = [row EXCEPT ![current] = "Deleted"]
  /\ Advance
  /\ UNCHANGED <<attempts, due, earlier, photoRows, keys, files, saveVars, serverVars, pageVars,
                 online, crashes>>

\* IsPermanentFailure: a 400, 403, 409 or 422 is heard.
Reject ==
  /\ stage = "rejected" \/ UploadRefused
  /\ online
  /\ attempts' = [attempts EXCEPT ![current] = MaxAttempts]
  /\ row' = [row EXCEPT ![current] = "Failed"]
  /\ Advance
  /\ UNCHANGED <<due, earlier, photoRows, keys, files, saveVars, serverVars, pageVars, online, crashes>>

\* A 200 or 201 is heard: DeleteLocalFiles removes the proof's directory.
DeleteLocalFiles ==
  /\ stage = "confirmed"
  /\ online
  /\ files' = [files EXCEPT ![current] = {}]
  /\ GoTo("cleaned")
  /\ UNCHANGED <<deviceRows, saveVars, serverVars, pageVars, online, crashes>>

\* LocalDatabase.DeleteProofAsync: the photo rows, then the proof's.
DeletePhotoRows ==
  /\ stage = "cleaned"
  /\ photoRows' = [photoRows EXCEPT ![current] = {}]
  /\ keys' = [keys EXCEPT ![current] = {}]
  /\ GoTo("photosDeleted")
  /\ UNCHANGED <<row, attempts, due, earlier, files, saveVars, serverVars, pageVars, online, crashes>>

DeleteProofRow ==
  /\ stage = "photosDeleted"
  /\ row' = [row EXCEPT ![current] = "Deleted"]
  /\ Advance
  /\ UNCHANGED <<attempts, due, earlier, photoRows, keys, files, saveVars, serverVars, pageVars,
                 online, crashes>>

-----------------------------------------------------------------------------
(* The world.                                                               *)

\* NextAttemptUtc passes: the backoff, or the 15 seconds of a hold.
Elapse(u) ==
  /\ OnDevice(u)
  /\ ~due[u]
  /\ due' = [due EXCEPT ![u] = TRUE]
  /\ UNCHANGED <<row, attempts, earlier, photoRows, keys, files, saveVars, drainVars, serverVars,
                 pageVars, online, crashes>>

GoOnline ==
  /\ ~online
  /\ online' = TRUE
  /\ UNCHANGED <<deviceRows, files, saveVars, drainVars, serverVars, pageVars, crashes>>

GoOffline ==
  /\ "outage" \in Faults
  /\ online
  /\ online' = FALSE
  /\ UNCHANGED <<deviceRows, files, saveVars, drainVars, serverVars, pageVars, crashes>>

\* The app is killed and started again: rows and files stay, the rest is gone.
Crash ==
  /\ crashes < MaxCrashes
  /\ crashes' = crashes + 1
  /\ saving' = NoProof
  /\ progress' = 0
  /\ batch' = {}
  /\ current' = NoProof
  /\ stage' = "idle"
  /\ snapshot' = {}
  /\ raced' = FALSE
  /\ shown' = [d \in Deliveries |-> "None"]
  /\ Abandon
  /\ UNCHANGED <<deviceRows, files, saved, recorded, evidence, cached, online>>

-----------------------------------------------------------------------------
Capture ==
  \/ LoadList
  \/ \E d \in Deliveries : OpenPage(d)
  \/ \E u \in Proofs : InsertProof(u)
  \/ SavePhoto
  \/ FinishSaving
  \/ SavingFails

DrainStep ==
  \/ \E u \in batch : Hold(u) \/ Mark(u)
  \/ ReadPhotos
  \/ \E i \in snapshot : UploadPhoto(i)
  \/ Send
  \/ Arrive
  \/ ArriveUnwelcome
  \/ FailAttempt
  \/ Reject
  \/ DeleteLocalFiles
  \/ DeletePhotoRows
  \/ DeleteProofRow

Environment ==
  \/ \E u \in Proofs : Elapse(u)
  \/ \E r \in late : ArriveLate(r)
  \/ GoOnline
  \/ GoOffline
  \/ Crash

Next == Capture \/ RunOnce \/ RetryAll \/ DrainStep \/ Environment

Spec == Init /\ [][Next]_vars

\* The drain's own steps are taken (its HTTP calls have timeouts), the timer ticks for ever,
\* time passes and the network comes back; the driver owes nothing.
Fairness ==
  /\ WF_vars(DrainStep)
  /\ SF_vars(RunOnce)
  /\ \A u \in Proofs : WF_vars(Elapse(u))
  /\ WF_vars(GoOnline)

FairSpec == Spec /\ Fairness

\* And the driver presses "send now" whenever something has failed.
PatientSpec == FairSpec /\ SF_vars(RetryAll)

-----------------------------------------------------------------------------
(* Properties.                                                              *)

\* A proof row is deleted only when the API has the proof (ProofSyncService.cs:13), through
\* crashes, late copies and repeated sends.
DeletedOnlyWhenStored == \A u \in Proofs : row[u] = "Deleted" => u \in recorded

\* A proof the driver was told is saved, and that the API does not have yet, is still on
\* the device with every photo: in a file, or uploaded and its key in the photo's row.
NothingLostUnsent ==
  \A u \in saved \ recorded :
    /\ OnDevice(u)
    /\ photoRows[u] = Photos(u)
    /\ Photos(u) \subseteq keys[u] \cup files[u]

\* A proof is queued as long as it has attempts left, and failed when it has none.
FailedWhenExhausted ==
  \A u \in Proofs :
    /\ row[u] \in {"Pending", "Syncing"} => attempts[u] < MaxAttempts
    /\ row[u] = "Failed" => attempts[u] = MaxAttempts

\* A delivery proof never reaches the API before a pickup of its delivery is stored there,
\* where it would be refused for good (50025).
NeverTooEarly ==
  stage = "sent" /\ Content[current].type = "Delivery" =>
    \E v \in recorded : Content[v].delivery = Content[current].delivery /\ Content[v].type = "Pickup"

\* While the drain is at a delivery proof, no pickup of the delivery that was captured before
\* it is on the device, queued or failed (ProofSyncService.cs:137): not one whose answer was
\* lost either, which the server has and whose row a later drain sends once more.
PickupLeavesFirst ==
  current # NoProof /\ Content[current].type = "Delivery" =>
    \A v \in earlier[current] :
      Content[v].delivery = Content[current].delivery /\ Content[v].type = "Pickup" => ~OnDevice(v)

\* Where the driver finds a proof, by the state of its row.
PlaceOf ==
  [None |-> "absent", Pending |-> "waiting", Syncing |-> "waiting",
   Failed |-> "failed", Deleted |-> "removed"]

Outbox == INSTANCE ProofOutbox WITH
  MaxTries <- MaxAttempts,
  PhotosOf <- [u \in Proofs |-> Photos(u)],
  outbox   <- [u \in Proofs |-> PlaceOf[row[u]]],
  tries    <- attempts,
  promised <- saved,
  stored   <- recorded

\* The services implement the outbox: whatever is killed, lost, late or repeated, a proof is
\* stored by the API at most once and never changed there, is tried and counted as the
\* policy says, and leaves the device only when it is stored.
ImplementsOutbox == Outbox!Spec

Lifecycle == INSTANCE ProofLifecycle WITH
  status   <- [d \in Deliveries |-> ServerStatus(d)],
  evidence <- [d \in Deliveries |->
                 {<<Content[u].type, Content[u].status>> :
                    u \in {v \in recorded : Content[v].delivery = d}}]

\* Each proof that the API stores, here in a single step, moves its delivery as the lifecycle
\* says that usp_Proof_Create, statement by statement in ProofStore, implements: copies, late
\* requests and retries of the queue move no delivery twice and add no evidence to it.
ApiFollowsLifecycle == [][recorded' # recorded => Lifecycle!Next]_vars

Queued(u) == row[u] \in {"Pending", "Syncing"}
Settled(u) == row[u] \in {"Deleted", "Failed"}

\* Under FairSpec: every queued proof is delivered or shown as failed, or waits for a pickup on the device.
QueuedSettlesOrWaits ==
  \A u \in Proofs : Queued(u) ~> Settled(u) \/ MustHold(u)

\* "failures back off exponentially [...] and surface a visible error after 5 attempts. Data
\* is never lost silently." (README.md:153-155)
QueuedSettles == \A u \in Proofs : Queued(u) ~> Settled(u)

\* A proof that left the device is on the server with all its photos: "a row is deleted only
\* after a confirmed sync [...] Data is never lost silently." (README.md:153-155)
AllPhotosArrive == \A u \in saved : row[u] = "Deleted" => evidence[u] = Photos(u)
=============================================================================
