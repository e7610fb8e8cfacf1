--------------------------- MODULE ProofQueue_proofs ---------------------------
(***************************************************************************)
(* Theorems about ProofQueue for any number of deliveries, proofs, retries,*)
(* crashes and late requests: what the queue promises whatever the network *)
(* and the operating system do.                                            *)
(***************************************************************************)
EXTENDS ProofQueue, TLAPS

-----------------------------------------------------------------------------
(* The inductive invariant.                                                 *)

\* The drain works on rows that are queued, and marks the one it is at.
Working ==
  /\ \A u \in batch : Queued(u)
  /\ current # NoProof => row[current] = "Syncing"

\* A row that does not exist yet has not been tried.
NewUntried == \A u \in Proofs : row[u] = "None" => attempts[u] = 0

\* Only a proof that the API has stored is cleaned up.
ConfirmedStored == stage \in {"confirmed", "cleaned", "photosDeleted"} => current \in recorded

\* The photos saved so far are on the device, in a file or by their key, until the API has
\* the proof.
SavedSoFar ==
  saving # NoProof =>
    /\ progress <= Content[saving].photos
    /\ saving \in recorded \/
         /\ OnDevice(saving)
         /\ \A i \in 0..progress - 1 : i \in photoRows[saving] /\ i \in keys[saving] \cup files[saving]

PickupStored(d) == \E v \in recorded : Content[v].delivery = d /\ Content[v].type = "Pickup"

\* Whatever is known on the phone as picked up is picked up on the server.
KnownPickups ==
  /\ \A d \in Deliveries : shown[d] = "PickedUp" \/ cached[d] = "PickedUp" => PickupStored(d)
  /\ \A u \in Proofs : row[u] # "None" /\ Content[u].type = "Delivery" =>
       PickupStored(Content[u].delivery)

IInv ==
  /\ TypeOK
  /\ Working
  /\ NewUntried
  /\ FailedWhenExhausted
  /\ ConfirmedStored
  /\ DeletedOnlyWhenStored
  /\ SavedSoFar
  /\ NothingLostUnsent
  /\ KnownPickups

-----------------------------------------------------------------------------
(* What the operators return.                                               *)

\* The photos of a proof are few, and what is known of it has its type.
LEMMA ContentType ==
  ASSUME ConstantsAssumption, NEW u \in Proofs
  PROVE  /\ Content[u].delivery \in Deliveries
         /\ Content[u].type \in {"Pickup", "Delivery"}
         /\ Content[u].status \in DeliveryStatuses
         /\ Content[u].photos \in 0..5
         /\ Photos(u) \subseteq 0..4
BY DEF ConstantsAssumption, Photos

\* The server's answer is a status, and a delivery it calls picked up has a pickup proof.
LEMMA ServerStatusMeans ==
  ASSUME ConstantsAssumption, recorded \subseteq Proofs, NEW d
  PROVE  /\ ServerStatus(d) \in DeliveryStatuses
         /\ ServerStatus(d) = "PickedUp" => PickupStored(d)
<1> DEFINE of(type) == {v \in recorded : Content[v].delivery = d /\ Content[v].type = type}
           results(type) == {Content[u].status : u \in of(type)}
           known == IF results("Delivery") = {} THEN results("Pickup") ELSE results("Delivery")
<1>1. ServerStatus(d) = IF results("Pickup") = {} THEN "Pending"
                        ELSE CHOOSE s \in DeliveryStatuses : s \in known
  BY DEF ServerStatus
<1>2. \A type : results(type) \subseteq DeliveryStatuses
  BY ContentType
<1>3. results("Pickup") # {} => \E s \in DeliveryStatuses : s \in known
  BY <1>2
<1>4. ServerStatus(d) \in DeliveryStatuses
  <2>1. CASE results("Pickup") = {}
    BY <1>1, <2>1 DEF DeliveryStatuses
  <2>2. CASE results("Pickup") # {}
    <3> HIDE DEF results, known
    <3>1. (CHOOSE s \in DeliveryStatuses : s \in known) \in DeliveryStatuses
      BY <1>3, <2>2
    <3>2. QED
      BY <1>1, <2>2, <3>1
  <2>3. QED
    BY <2>1, <2>2
<1>5. results("Pickup") # {} => PickupStored(d)
  BY DEF PickupStored
<1>6. QED
  <2> HIDE DEF results, known
  <2>1. QED
    BY <1>1, <1>4, <1>5

-----------------------------------------------------------------------------
(* Photos.                                                                  *)

photoVars == <<files, photoRows, keys, evidence, late>>

\* The steps that touch no photo.
LEMMA StepsWithoutPhotos ==
  ASSUME [Next]_vars, ~SavePhoto, \A i \in snapshot : ~UploadPhoto(i), ~Arrive,
         \A r \in late : ~ArriveLate(r), ~FailAttempt, ~DeleteLocalFiles, ~DeletePhotoRows,
         ~Crash
  PROVE  UNCHANGED photoVars
<1> USE DEF photoVars, deviceRows, serverVars
<1>1. CASE Capture
  BY <1>1 DEF Capture, LoadList, OpenPage, InsertProof, FinishSaving, SavingFails
<1>2. CASE RunOnce \/ RetryAll
  BY <1>2 DEF RunOnce, RetryAll
<1>3. CASE DrainStep
  BY <1>3 DEF DrainStep, Hold, Mark, ReadPhotos, Send, ArriveUnwelcome, Reject, DeleteProofRow
<1>4. CASE Environment
  BY <1>4 DEF Environment, Elapse, GoOnline, GoOffline
<1>5. CASE UNCHANGED vars
  BY <1>5 DEF vars
<1>6. QED
  BY <1>1, <1>2, <1>3, <1>4, <1>5 DEF Next

\* A late request carries photos of its proof.
LEMMA AbandonKeepsPhotos ==
  ASSUME ConstantsAssumption, TypeOK, Abandon, UNCHANGED <<files, photoRows, keys, evidence>>
  PROVE  PhotosTypeOK'
<1> USE DEF TypeOK, PhotosTypeOK
<1>1. CASE UNCHANGED late
  BY <1>1 DEF Photos
<1>2. CASE stage = "sent" /\ late' = late \cup {<<current, snapshot>>}
  <2>1. current \in Proofs /\ snapshot \subseteq Photos(current)
    BY <1>2 DEF DrainTypeOK
  <2>2. snapshot \subseteq 0..4
    BY <2>1, ContentType
  <2>3. late' \subseteq Proofs \X SUBSET (0..4)
    <3>1. <<current, snapshot>> \in Proofs \X SUBSET (0..4)
      BY <2>1, <2>2
    <3>2. QED
      BY <1>2, <3>1
  <2>4. \A r \in late' : r[2] \subseteq Photos(r[1])
    BY <1>2, <2>1
  <2>5. QED
    BY <2>3, <2>4 DEF Photos
<1>3. QED
  BY <1>1, <1>2 DEF Abandon

\* The server records photos of the proof.
LEMMA StoreKeepsPhotos ==
  ASSUME ConstantsAssumption, TypeOK, NEW u \in Proofs, NEW photos \in SUBSET Photos(u),
         Store(u, photos)
  PROVE  /\ evidence' \in [Proofs -> SUBSET (0..4)]
         /\ \A v \in Proofs : evidence'[v] \subseteq Photos(v)
         /\ recorded' \subseteq Proofs
         /\ recorded \subseteq recorded'
<1>1. photos \subseteq 0..4
  BY ContentType
<1>2. CASE ~Accepts(u, photos)
  BY <1>2 DEF Store, TypeOK, PhotosTypeOK
<1>3. CASE Accepts(u, photos)
  <2>1. evidence' = [evidence EXCEPT ![u] = photos] /\ recorded' = recorded \cup {u}
    BY <1>3 DEF Store
  <2>2. QED
    BY <1>1, <2>1 DEF TypeOK, PhotosTypeOK
<1>4. QED
  BY <1>2, <1>3

\* Every step keeps each photo with its proof, and each key with its row.
LEMMA StepKeepsPhotos ==
  ASSUME ConstantsAssumption, IInv, [Next]_vars
  PROVE  PhotosTypeOK'
<1> USE DEF IInv, TypeOK, PhotosTypeOK
<1>1. CASE SavePhoto
  <2>1. saving \in Proofs /\ progress \in Photos(saving)
    <3>1. saving \in Proofs /\ progress \in 0..5 /\ progress < Content[saving].photos
      BY <1>1 DEF SavePhoto
    <3>2. Content[saving].photos \in 0..5
      BY <3>1, ContentType
    <3>3. QED
      BY <3>1, <3>2 DEF Photos
  <2>2. progress \in 0..4
    BY <2>1, ContentType
  <2>3. QED
    BY <1>1, <2>1, <2>2 DEF SavePhoto, serverVars, Photos
<1>2. ASSUME NEW i \in snapshot, UploadPhoto(i) PROVE PhotosTypeOK'
  <2>1. current \in Proofs /\ i \in photoRows[current]
    BY <1>2 DEF UploadPhoto, DrainTypeOK, IsNextPhoto, Unsent
  <2>2. QED
    BY <1>2, <2>1 DEF UploadPhoto, serverVars, Photos
<1>3. CASE Arrive
  <2>1. current \in Proofs /\ snapshot \in SUBSET Photos(current) /\ Store(current, snapshot)
    BY <1>3 DEF Arrive, DrainTypeOK
  <2>2. QED
    BY <1>3, <2>1, StoreKeepsPhotos DEF Arrive, deviceRows, Photos
<1>4. ASSUME NEW r \in late, ArriveLate(r) PROVE PhotosTypeOK'
  <2>1. r[1] \in Proofs /\ r[2] \in SUBSET Photos(r[1]) /\ Store(r[1], r[2])
    BY <1>4 DEF ArriveLate
  <2>2. QED
    BY <1>4, <2>1, StoreKeepsPhotos DEF ArriveLate, deviceRows, Photos
<1>5. CASE FailAttempt
  BY <1>5, AbandonKeepsPhotos DEF FailAttempt
<1>6. CASE Crash
  BY <1>6, AbandonKeepsPhotos DEF Crash, deviceRows
<1>7. CASE DeleteLocalFiles
  BY <1>7 DEF DeleteLocalFiles, deviceRows, serverVars, Photos
<1>8. CASE DeletePhotoRows
  BY <1>8 DEF DeletePhotoRows, serverVars, Photos
<1>9. CASE UNCHANGED photoVars
  BY <1>9 DEF photoVars, Photos
<1>10. QED
  BY <1>1, <1>2, <1>3, <1>4, <1>5, <1>6, <1>7, <1>8, <1>9, StepsWithoutPhotos

-----------------------------------------------------------------------------
(* The drain.                                                               *)

\* The drain starts with rows that are queued, or does not start.
LEMMA DrainBegins ==
  ASSUME NEW states, NEW isDue, BeginDrain(states, isDue), stage = "idle", TypeOK,
         row' = states, NoProof \notin Proofs
  PROVE  DrainTypeOK' /\ Working'
BY DEF BeginDrain, DueBatch, IsDue, TypeOK, DrainTypeOK, Working, Queued, Stages

\* The drain leaves the current proof.
LEMMA DrainAdvances ==
  ASSUME TypeOK, Working, Advance, \A u \in batch : row'[u] = row[u], NoProof \notin Proofs
  PROVE  DrainTypeOK' /\ Working'
BY DEF Advance, TypeOK, DrainTypeOK, Working, Queued, Stages

\* The drain goes on with the current proof, and no photo row of it goes before it is confirmed.
LEMMA DrainGoesOn ==
  ASSUME TypeOK, Working, NEW next \in Stages \ {"idle", "next", "upload"}, GoTo(next),
         current # NoProof, UNCHANGED row
  PROVE  DrainTypeOK' /\ Working'
BY DEF GoTo, TypeOK, DrainTypeOK, Working, Queued, Photos

\* What the drain works on is not disturbed.
LEMMA DrainRests ==
  ASSUME TypeOK, Working, UNCHANGED <<batch, current, stage, snapshot>>, raced' \in BOOLEAN,
         \A u \in Proofs : Queued(u) => row'[u] = row[u],
         stage = "upload" => photoRows[current] \subseteq photoRows'[current]
  PROVE  DrainTypeOK' /\ Working'
BY DEF TypeOK, DrainTypeOK, Working, Queued, Photos

\* Every step keeps one proof at a time at work, on rows that are queued.
LEMMA StepKeepsDrain ==
  ASSUME ConstantsAssumption, IInv, [Next]_vars
  PROVE  DrainTypeOK' /\ Working'
<1> USE DEF IInv
<1>0. TypeOK /\ NoProof \notin Proofs /\ raced \in BOOLEAN /\ row \in [Proofs -> RowStates]
  BY DEF ConstantsAssumption, TypeOK, DrainTypeOK
<1>1. CASE UNCHANGED <<drainVars, row, photoRows>>
  BY <1>0, <1>1, DrainRests DEF drainVars
<1>2. CASE Capture
  <2>1. ASSUME NEW u \in Proofs, InsertProof(u) PROVE DrainTypeOK' /\ Working'
    BY <1>0, <2>1, DrainRests DEF InsertProof, drainVars, Queued
  <2>2. CASE SavePhoto
    <3>1. stage = "upload" => photoRows[current] \subseteq photoRows'[current]
      BY <2>2 DEF SavePhoto, TypeOK, PhotosTypeOK, DrainTypeOK
    <3>2. QED
      BY <1>0, <2>2, <3>1, DrainRests DEF SavePhoto, drainVars
  <2>3. CASE LoadList \/ (\E d \in Deliveries : OpenPage(d)) \/ FinishSaving \/ SavingFails
    BY <1>1, <2>3 DEF LoadList, OpenPage, FinishSaving, SavingFails, deviceRows
  <2>4. QED
    BY <1>2, <2>1, <2>2, <2>3 DEF Capture
<1>3. CASE RunOnce
  BY <1>0, <1>3, DrainBegins DEF RunOnce, deviceRows
<1>4. CASE RetryAll
  <2>1. CASE stage = "idle"
    BY <1>0, <1>4, <2>1, DrainBegins DEF RetryAll
  <2>2. CASE stage # "idle"
    <3>1. \A u \in Proofs : Queued(u) => row'[u] = row[u]
      BY <1>4 DEF RetryAll, Queued
    <3>2. UNCHANGED <<drainVars, photoRows>>
      BY <1>4, <2>2 DEF RetryAll
    <3>3. QED
      BY <1>0, <3>1, <3>2, DrainRests DEF drainVars
  <2>3. QED
    BY <2>1, <2>2
<1>5. ASSUME NEW u \in batch, Hold(u) PROVE DrainTypeOK' /\ Working'
  BY <1>0, <1>5 DEF Hold, IsNext, TypeOK, DrainTypeOK, Working, Queued, Stages
<1>6. ASSUME NEW u \in batch, Mark(u) PROVE DrainTypeOK' /\ Working'
  BY <1>0, <1>6 DEF Mark, IsNext, TypeOK, DrainTypeOK, Working, Queued, Stages
<1>7. CASE ReadPhotos
  BY <1>0, <1>7 DEF ReadPhotos, deviceRows, TypeOK, PhotosTypeOK, DrainTypeOK, Working, Queued,
                    Stages, Photos
<1>8. ASSUME NEW i \in snapshot, UploadPhoto(i) PROVE DrainTypeOK' /\ Working'
  BY <1>1, <1>8 DEF UploadPhoto
<1>9. stage \notin {"idle", "next"} => current # NoProof
  BY <1>0 DEF TypeOK, DrainTypeOK
<1>10. CASE Send \/ Arrive \/ ArriveUnwelcome \/ DeleteLocalFiles \/ DeletePhotoRows
  <2>1. \E next \in {"sent", "confirmed", "rejected", "cleaned", "photosDeleted"} : GoTo(next)
    BY <1>10 DEF Send, Arrive, ArriveUnwelcome, DeleteLocalFiles, DeletePhotoRows
  <2>2. current # NoProof /\ UNCHANGED row
    BY <1>9, <1>10 DEF Send, Arrive, ArriveUnwelcome, DeleteLocalFiles, DeletePhotoRows, deviceRows
  <2>3. QED
    BY <1>0, <2>1, <2>2, DrainGoesOn DEF Stages
<1>11. CASE FailAttempt \/ Reject \/ DeleteProofRow
  <2>1. Advance /\ \E state : row' = [row EXCEPT ![current] = state]
    BY <1>11 DEF FailAttempt, Reject, DeleteProofRow
  <2>2. \A u \in batch : row'[u] = row[u]
    BY <1>0, <2>1 DEF TypeOK, DrainTypeOK
  <2>3. QED
    BY <1>0, <2>1, <2>2, DrainAdvances
<1>12. ASSUME NEW r \in late, ArriveLate(r) PROVE DrainTypeOK' /\ Working'
  <2>1. raced' \in BOOLEAN
    BY <1>0, <1>12 DEF ArriveLate, Accepts
  <2>2. QED
    BY <1>0, <1>12, <2>1, DrainRests DEF ArriveLate, deviceRows
<1>13. CASE Crash
  BY <1>0, <1>13 DEF Crash, DrainTypeOK, Working, Stages
<1>14. CASE (\E u \in Proofs : Elapse(u)) \/ GoOnline \/ GoOffline \/ UNCHANGED vars
  BY <1>1, <1>14 DEF Elapse, GoOnline, GoOffline, vars, deviceRows
<1>15. QED
  BY <1>2, <1>3, <1>4, <1>5, <1>6, <1>7, <1>8, <1>10, <1>11, <1>12, <1>13, <1>14
  DEF Next, DrainStep, Environment

-----------------------------------------------------------------------------
(* The rows.                                                                *)

RowTypes ==
  /\ row \in [Proofs -> RowStates]
  /\ attempts \in [Proofs -> 0..MaxAttempts]
  /\ due \in [Proofs -> BOOLEAN]
  /\ earlier \in [Proofs -> SUBSET Proofs]

RowsInv == RowTypes /\ NewUntried /\ FailedWhenExhausted

\* The current row is marked and has attempts left.
LEMMA CurrentHasAttempts ==
  ASSUME ConstantsAssumption, IInv, current # NoProof
  PROVE  current \in Proofs /\ row[current] = "Syncing" /\ attempts[current] < MaxAttempts
BY DEF IInv, TypeOK, DrainTypeOK, Working, FailedWhenExhausted

\* Every step keeps a row queued exactly while it has attempts left.
LEMMA StepKeepsRows ==
  ASSUME ConstantsAssumption, IInv, [Next]_vars
  PROVE  RowsInv'
<1>0. RowsInv /\ MaxAttempts \in Nat \ {0}
  BY DEF IInv, TypeOK, RowsInv, RowTypes, ConstantsAssumption
<1> USE DEF RowsInv, RowTypes, NewUntried, FailedWhenExhausted, RowStates
<1>1. CASE UNCHANGED <<row, attempts, due, earlier>>
  BY <1>0, <1>1
<1>2. CASE Capture
  <2>1. ASSUME NEW u \in Proofs, InsertProof(u) PROVE RowsInv'
    BY <1>0, <2>1 DEF InsertProof
  <2>2. CASE LoadList \/ (\E d \in Deliveries : OpenPage(d)) \/ SavePhoto \/ FinishSaving \/ SavingFails
    BY <1>1, <2>2 DEF LoadList, OpenPage, SavePhoto, FinishSaving, SavingFails, deviceRows
  <2>3. QED
    BY <1>2, <2>1, <2>2 DEF Capture
<1>3. CASE RunOnce
  BY <1>1, <1>3 DEF RunOnce, deviceRows
<1>4. CASE RetryAll
  BY <1>0, <1>4 DEF RetryAll
<1>5. ASSUME NEW u \in batch, Hold(u) \/ Mark(u) PROVE RowsInv'
  <2>1. u \in Proofs /\ row[u] \in {"Pending", "Syncing"}
    BY <1>5 DEF IInv, TypeOK, DrainTypeOK, Working, Queued
  <2>2. QED
    BY <1>0, <1>5, <2>1 DEF Hold, Mark
<1>6. stage \notin {"idle", "next"} =>
        current \in Proofs /\ row[current] = "Syncing" /\ attempts[current] < MaxAttempts
  BY CurrentHasAttempts DEF IInv, TypeOK, DrainTypeOK
<1>7. CASE FailAttempt
  BY <1>0, <1>6, <1>7 DEF FailAttempt, IsExhausted
<1>8. CASE Reject
  BY <1>0, <1>6, <1>8 DEF Reject, UploadRefused
<1>9. CASE DeleteProofRow
  BY <1>0, <1>6, <1>9 DEF DeleteProofRow
<1>10. CASE DrainStep /\ ~FailAttempt /\ ~Reject /\ ~DeleteProofRow
            /\ \A u \in batch : ~(Hold(u) \/ Mark(u))
  BY <1>1, <1>10 DEF DrainStep, ReadPhotos, UploadPhoto, Send, Arrive, ArriveUnwelcome,
                     DeleteLocalFiles, DeletePhotoRows, deviceRows
<1>11. ASSUME NEW u \in Proofs, Elapse(u) PROVE RowsInv'
  BY <1>0, <1>11 DEF Elapse
<1>12. CASE Environment /\ \A u \in Proofs : ~Elapse(u)
  BY <1>1, <1>12 DEF Environment, ArriveLate, GoOnline, GoOffline, Crash, deviceRows
<1>13. CASE UNCHANGED vars
  BY <1>1, <1>13 DEF vars, deviceRows
<1>14. QED
  BY <1>2, <1>3, <1>4, <1>5, <1>7, <1>8, <1>9, <1>10, <1>11, <1>12, <1>13 DEF Next

-----------------------------------------------------------------------------
(* Nothing is lost.                                                         *)

\* What the API has it keeps.
LEMMA RecordedGrows ==
  ASSUME TypeOK, [Next]_vars
  PROVE  recorded \subseteq recorded'
<1> USE DEF Store, serverVars
<1>1. CASE Capture
  BY <1>1 DEF Capture, LoadList, OpenPage, InsertProof, SavePhoto, FinishSaving, SavingFails
<1>2. CASE RunOnce \/ RetryAll
  BY <1>2 DEF RunOnce, RetryAll
<1>3. CASE DrainStep
  BY <1>3 DEF DrainStep, Hold, Mark, ReadPhotos, UploadPhoto, Send, Arrive, ArriveUnwelcome,
              FailAttempt, Reject, DeleteLocalFiles, DeletePhotoRows, DeleteProofRow
<1>4. CASE Environment
  BY <1>4 DEF Environment, Elapse, ArriveLate, GoOnline, GoOffline, Crash
<1>5. CASE UNCHANGED vars
  BY <1>5 DEF vars
<1>6. QED
  BY <1>1, <1>2, <1>3, <1>4, <1>5 DEF Next

\* A confirmed proof is one the API has, and only it is cleaned up.
LEMMA StepKeepsConfirmed ==
  ASSUME ConstantsAssumption, IInv, [Next]_vars
  PROVE  ConfirmedStored' /\ DeletedOnlyWhenStored'
<1>0. /\ ConfirmedStored /\ DeletedOnlyWhenStored
      /\ recorded \subseteq recorded'
      /\ row \in [Proofs -> RowStates]
  BY RecordedGrows DEF IInv, TypeOK
<1> USE DEF ConfirmedStored, DeletedOnlyWhenStored
<1>1. CASE UNCHANGED <<row, current, stage>>
  BY <1>0, <1>1
<1>2. CASE Capture
  BY <1>0, <1>2 DEF Capture, LoadList, OpenPage, InsertProof, SavePhoto, FinishSaving,
                    SavingFails, deviceRows, drainVars
<1>3. CASE RunOnce \/ RetryAll
  BY <1>0, <1>3 DEF RunOnce, RetryAll, BeginDrain, deviceRows, drainVars
<1>4. ASSUME NEW u \in batch, Hold(u) \/ Mark(u)
      PROVE  ConfirmedStored' /\ DeletedOnlyWhenStored'
  BY <1>0, <1>4 DEF Hold, Mark
<1>5. CASE Arrive
  BY <1>0, <1>5 DEF Arrive, Store, GoTo, deviceRows
<1>6. CASE FailAttempt \/ Reject
  BY <1>0, <1>6 DEF FailAttempt, Reject, Advance
<1>7. CASE DeleteProofRow
  BY <1>0, <1>7 DEF DeleteProofRow, Advance
<1>8. CASE DrainStep /\ ~Arrive /\ ~FailAttempt /\ ~Reject /\ ~DeleteProofRow
           /\ \A u \in batch : ~(Hold(u) \/ Mark(u))
  BY <1>0, <1>8 DEF DrainStep, ReadPhotos, UploadPhoto, Send, ArriveUnwelcome, DeleteLocalFiles,
                    DeletePhotoRows, GoTo, deviceRows, drainVars
<1>9. CASE Environment
  BY <1>0, <1>9 DEF Environment, Elapse, ArriveLate, GoOnline, GoOffline, Crash, deviceRows,
                    drainVars
<1>10. CASE UNCHANGED vars
  BY <1>1, <1>10 DEF vars, deviceRows, drainVars
<1>11. QED
  BY <1>2, <1>3, <1>4, <1>5, <1>6, <1>7, <1>8, <1>9, <1>10 DEF Next

\* What the phone keeps of a proof that the API does not have never shrinks.
Kept(u) ==
  /\ OnDevice(u) => OnDevice(u)'
  /\ photoRows[u] \subseteq photoRows'[u]
  /\ keys[u] \cup files[u] \subseteq keys'[u] \cup files'[u]

\* No step takes from the phone what the API lacks: the drain cleans up only what it confirmed.
LEMMA UnsentIsKept ==
  ASSUME ConstantsAssumption, IInv, [Next]_vars, NEW u \in Proofs, u \notin recorded
  PROVE  Kept(u)
<1>0. /\ PhotosTypeOK
      /\ row \in [Proofs -> RowStates]
      /\ stage \in {"confirmed", "cleaned", "photosDeleted"} => current # u
  BY DEF IInv, TypeOK, ConfirmedStored
<1> USE DEF Kept, OnDevice, RowStates
<1>1. CASE UNCHANGED <<row, photoRows, keys, files>>
  BY <1>1
<1>2. CASE Capture
  <2>1. ASSUME NEW v \in Proofs, InsertProof(v) PROVE Kept(u)
    BY <1>0, <2>1 DEF InsertProof
  <2>2. CASE SavePhoto
    BY <1>0, <2>2 DEF SavePhoto, PhotosTypeOK
  <2>3. CASE LoadList \/ (\E d \in Deliveries : OpenPage(d)) \/ FinishSaving \/ SavingFails
    BY <1>1, <2>3 DEF LoadList, OpenPage, FinishSaving, SavingFails, deviceRows
  <2>4. QED
    BY <1>2, <2>1, <2>2, <2>3 DEF Capture
<1>3. CASE RunOnce
  BY <1>1, <1>3 DEF RunOnce, deviceRows
<1>4. CASE RetryAll
  BY <1>0, <1>4 DEF RetryAll
<1>5. ASSUME NEW v \in batch, Hold(v) \/ Mark(v) PROVE Kept(u)
  BY <1>0, <1>5 DEF Hold, Mark
<1>6. ASSUME NEW i \in snapshot, UploadPhoto(i) PROVE Kept(u)
  BY <1>0, <1>6 DEF UploadPhoto, PhotosTypeOK
<1>7. CASE FailAttempt
  BY <1>0, <1>7 DEF FailAttempt
<1>8. CASE Reject
  BY <1>0, <1>8 DEF Reject
<1>9. CASE DeleteLocalFiles
  BY <1>0, <1>9 DEF DeleteLocalFiles, PhotosTypeOK, deviceRows
<1>10. CASE DeletePhotoRows
  BY <1>0, <1>10 DEF DeletePhotoRows, PhotosTypeOK
<1>11. CASE DeleteProofRow
  BY <1>0, <1>11 DEF DeleteProofRow
<1>12. CASE ReadPhotos \/ Send \/ Arrive \/ ArriveUnwelcome
  BY <1>1, <1>12 DEF ReadPhotos, Send, Arrive, ArriveUnwelcome, deviceRows
<1>13. CASE Environment
  BY <1>1, <1>13 DEF Environment, Elapse, ArriveLate, GoOnline, GoOffline, Crash, deviceRows
<1>14. CASE UNCHANGED vars
  BY <1>1, <1>14 DEF vars, deviceRows
<1>15. QED
  BY <1>2, <1>3, <1>4, <1>5, <1>6, <1>7, <1>8, <1>9, <1>10, <1>11, <1>12, <1>13, <1>14
  DEF Next, DrainStep

\* The steps that save.
LEMMA SavingSteps ==
  ASSUME [Next]_vars
  PROVE  \/ UNCHANGED saveVars
         \/ \E u \in Proofs : InsertProof(u)
         \/ SavePhoto \/ FinishSaving \/ SavingFails \/ Crash
<1>1. CASE Capture
  BY <1>1 DEF Capture, LoadList, OpenPage
<1>2. CASE RunOnce \/ RetryAll
  BY <1>2 DEF RunOnce, RetryAll
<1>3. CASE DrainStep
  BY <1>3 DEF DrainStep, Hold, Mark, ReadPhotos, UploadPhoto, Send, Arrive, ArriveUnwelcome,
              FailAttempt, Reject, DeleteLocalFiles, DeletePhotoRows, DeleteProofRow
<1>4. CASE Environment
  BY <1>4 DEF Environment, Elapse, ArriveLate, GoOnline, GoOffline
<1>5. CASE UNCHANGED vars
  BY <1>5 DEF vars
<1>6. QED
  BY <1>1, <1>2, <1>3, <1>4, <1>5 DEF Next

\* The proof being saved is on the device as far as it has been saved, or on the server.
LEMMA StepKeepsSavedSoFar ==
  ASSUME ConstantsAssumption, IInv, [Next]_vars
  PROVE  SavedSoFar'
<1>0. /\ saving \in Proofs \cup {NoProof} /\ NoProof \notin Proofs /\ progress \in 0..5
      /\ SavedSoFar
      /\ recorded \subseteq recorded'
  BY RecordedGrows DEF IInv, TypeOK, ConstantsAssumption
<1>1. CASE UNCHANGED saveVars
  <2>1. SUFFICES ASSUME saving \in Proofs, saving \notin recorded' PROVE SavedSoFar'
    BY <1>0, <1>1 DEF SavedSoFar, saveVars
  <2>2. Kept(saving)
    BY <1>0, <2>1, UnsentIsKept
  <2>3. QED
    BY <1>0, <1>1, <2>1, <2>2 DEF SavedSoFar, saveVars, Kept
<1>2. ASSUME NEW u \in Proofs, InsertProof(u) PROVE SavedSoFar'
  <2>1. 0 <= Content[u].photos
    BY ContentType
  <2>2. saving' = u /\ progress' = 0 /\ row'[u] = "Pending"
    BY <1>2 DEF InsertProof, IInv, TypeOK
  <2>3. QED
    BY <2>1, <2>2 DEF SavedSoFar, OnDevice
<1>3. CASE SavePhoto
  <2>1. saving \in Proofs /\ saving' = saving /\ progress' = progress + 1
    BY <1>0, <1>3 DEF SavePhoto
  <2>2. Content[saving].photos \in 0..5 /\ progress < Content[saving].photos
    BY <1>3, <2>1, ContentType DEF SavePhoto
  <2>3. CASE saving \in recorded
    BY <1>0, <2>1, <2>2, <2>3 DEF SavedSoFar
  <2>4. CASE saving \notin recorded
    <3>1. Kept(saving)
      BY <2>1, <2>4, UnsentIsKept
    <3>2. progress \in photoRows'[saving] /\ progress \in files'[saving]
      BY <1>3, <2>1 DEF SavePhoto, IInv, TypeOK, PhotosTypeOK
    <3>3. ASSUME NEW i \in 0..progress
          PROVE  i \in photoRows'[saving] /\ i \in keys'[saving] \cup files'[saving]
      <4>1. CASE i = progress
        BY <3>2, <4>1
      <4>2. CASE i # progress
        <5>1. i \in 0..progress - 1
          BY <1>0, <4>2
        <5>2. QED
          BY <1>0, <2>1, <2>4, <3>1, <5>1 DEF SavedSoFar, Kept
      <4>3. QED
        BY <4>1, <4>2
    <3>4. progress' - 1 = progress
      BY <1>0, <2>1
    <3>5. OnDevice(saving)'
      BY <1>0, <2>1, <2>4, <3>1 DEF SavedSoFar, Kept
    <3>6. QED
      BY <1>0, <2>1, <2>2, <3>3, <3>4, <3>5 DEF SavedSoFar
  <2>5. QED
    BY <2>3, <2>4
<1>4. CASE FinishSaving \/ SavingFails \/ Crash
  BY <1>4 DEF FinishSaving, SavingFails, Crash, SavedSoFar
<1>5. QED
  BY <1>1, <1>2, <1>3, <1>4, SavingSteps

\* A saved proof is whole on the device until the API has it.
LEMMA StepKeepsUnsent ==
  ASSUME ConstantsAssumption, IInv, [Next]_vars
  PROVE  NothingLostUnsent'
<1>1. ASSUME NEW u \in saved', u \notin recorded'
      PROVE  /\ OnDevice(u)'
             /\ photoRows'[u] = Photos(u)
             /\ Photos(u) \subseteq keys'[u] \cup files'[u]
  <2>1. u \notin recorded /\ (u \in saved \/ (FinishSaving /\ u = saving))
    BY <1>1, RecordedGrows, SavingSteps
    DEF IInv, saveVars, InsertProof, SavePhoto, FinishSaving, SavingFails, Crash
  <2>2. u \in Proofs
    BY <2>1 DEF IInv, TypeOK, FinishSaving
  <2>3. /\ OnDevice(u)
        /\ Photos(u) \subseteq photoRows[u]
        /\ Photos(u) \subseteq keys[u] \cup files[u]
    <3>1. CASE u \in saved
      BY <2>1, <3>1 DEF IInv, NothingLostUnsent
    <3>2. CASE FinishSaving /\ u = saving
      BY <2>1, <3>2 DEF IInv, SavedSoFar, FinishSaving, Photos
    <3>3. QED
      BY <2>1, <3>1, <3>2
  <2>4. Kept(u)
    BY <2>1, <2>2, UnsentIsKept
  <2>5. photoRows'[u] \subseteq Photos(u)
    BY <2>2, StepKeepsPhotos DEF PhotosTypeOK, Photos
  <2>6. QED
    BY <2>3, <2>4, <2>5 DEF Kept
<1>2. QED
  BY <1>1 DEF NothingLostUnsent, Photos

-----------------------------------------------------------------------------
(* Nothing is sent too early.                                               *)

\* Rows appear only where a capture is allowed.
LEMMA RowsAppear ==
  ASSUME ConstantsAssumption, IInv, [Next]_vars, NEW u \in Proofs, row[u] = "None", row'[u] # "None"
  PROVE  CanCapture(u)
<1>0. /\ row \in [Proofs -> RowStates]
      /\ \A v \in batch : v # u
      /\ stage \notin {"idle", "next"} => current # u
  BY DEF IInv, TypeOK, DrainTypeOK, Working, Queued
<1>1. CASE Capture
  BY <1>0, <1>1 DEF Capture, LoadList, OpenPage, InsertProof, SavePhoto, FinishSaving,
                    SavingFails, deviceRows
<1>2. CASE RunOnce \/ RetryAll
  BY <1>0, <1>2 DEF RunOnce, RetryAll, deviceRows
<1>3. CASE DrainStep
  BY <1>0, <1>3 DEF DrainStep, Hold, Mark, ReadPhotos, UploadPhoto, Send, Arrive, ArriveUnwelcome,
                    FailAttempt, Reject, UploadRefused, DeleteLocalFiles, DeletePhotoRows,
                    DeleteProofRow, deviceRows
<1>4. CASE Environment
  BY <1>4 DEF Environment, Elapse, ArriveLate, GoOnline, GoOffline, Crash, deviceRows
<1>5. CASE UNCHANGED vars
  BY <1>5 DEF vars, deviceRows
<1>6. QED
  BY <1>1, <1>2, <1>3, <1>4, <1>5 DEF Next

\* The status on the page or in the cache is an old one, the server's of now, or none.
LEMMA PagesKnow ==
  ASSUME ConstantsAssumption, IInv, [Next]_vars, NEW d \in Deliveries
  PROVE  /\ shown'[d] \in {shown[d], cached[d], ServerStatus(d), "None"}
         /\ cached'[d] \in {cached[d], ServerStatus(d)}
<1>0. /\ shown \in [Deliveries -> DeliveryStatuses \cup {"None"}]
      /\ cached \in [Deliveries -> DeliveryStatuses \cup {"None"}]
  BY DEF IInv, TypeOK
<1> USE DEF pageVars
<1>1. CASE Capture
  BY <1>0, <1>1 DEF Capture, LoadList, OpenPage, InsertProof, SavePhoto, FinishSaving, SavingFails
<1>2. CASE RunOnce \/ RetryAll
  BY <1>2 DEF RunOnce, RetryAll
<1>3. CASE DrainStep
  BY <1>3 DEF DrainStep, Hold, Mark, ReadPhotos, UploadPhoto, Send, Arrive, ArriveUnwelcome,
              FailAttempt, Reject, DeleteLocalFiles, DeletePhotoRows, DeleteProofRow
<1>4. CASE Environment
  BY <1>4 DEF Environment, Elapse, ArriveLate, GoOnline, GoOffline, Crash
<1>5. CASE UNCHANGED vars
  BY <1>5 DEF vars
<1>6. QED
  BY <1>1, <1>2, <1>3, <1>4, <1>5 DEF Next

\* What the phone takes for picked up is picked up on the server.
LEMMA StepKeepsPickups ==
  ASSUME ConstantsAssumption, IInv, [Next]_vars
  PROVE  KnownPickups'
<1>1. \A d : PickupStored(d) => PickupStored(d)'
  BY RecordedGrows DEF IInv, PickupStored
<1>2. \A d : ServerStatus(d) = "PickedUp" => PickupStored(d)
  BY ServerStatusMeans DEF IInv, TypeOK
<1>3. ASSUME NEW d \in Deliveries, shown'[d] = "PickedUp" \/ cached'[d] = "PickedUp"
      PROVE  PickupStored(d)'
  BY <1>1, <1>2, <1>3, PagesKnow DEF IInv, KnownPickups
<1>4. ASSUME NEW u \in Proofs, row'[u] # "None", Content[u].type = "Delivery"
      PROVE  PickupStored(Content[u].delivery)'
  <2>1. CASE row[u] # "None"
    BY <1>1, <1>4, <2>1 DEF IInv, KnownPickups
  <2>2. CASE row[u] = "None"
    BY <1>1, <1>4, <2>2, RowsAppear, ContentType DEF IInv, KnownPickups, CanCapture
  <2>3. QED
    BY <2>1, <2>2
<1>5. QED
  BY <1>3, <1>4 DEF KnownPickups

-----------------------------------------------------------------------------
(* The theorems.                                                            *)

\* The remaining variables keep their types.
LEMMA StepKeepsOtherTypes ==
  ASSUME ConstantsAssumption, IInv, [Next]_vars
  PROVE  /\ saving' \in Proofs \cup {NoProof}
         /\ progress' \in 0..5
         /\ saved' \subseteq Proofs
         /\ recorded' \subseteq Proofs
         /\ shown' \in [Deliveries -> DeliveryStatuses \cup {"None"}]
         /\ cached' \in [Deliveries -> DeliveryStatuses \cup {"None"}]
         /\ online' \in BOOLEAN
         /\ crashes' \in 0..MaxCrashes
<1>0. TypeOK
  BY DEF IInv
<1>1. /\ saving' \in Proofs \cup {NoProof}
      /\ progress' \in 0..5
      /\ saved' \subseteq Proofs
  <2>1. CASE SavePhoto
    <3>1. saving \in Proofs /\ progress \in 0..5 /\ progress < Content[saving].photos
      BY <1>0, <2>1 DEF SavePhoto, TypeOK
    <3>2. Content[saving].photos \in 0..5
      BY <3>1, ContentType
    <3>3. progress + 1 \in 0..5
      BY <3>1, <3>2
    <3>4. QED
      BY <1>0, <2>1, <3>3 DEF SavePhoto, TypeOK
  <2>2. CASE UNCHANGED saveVars
    BY <1>0, <2>2 DEF TypeOK, saveVars
  <2>3. ASSUME NEW u \in Proofs, InsertProof(u)
        PROVE  saving' = u /\ progress' = 0 /\ saved' = saved
    BY <2>3 DEF InsertProof
  <2>4. CASE FinishSaving
    <3>1. saved' = saved \cup {saving} /\ saving' = NoProof /\ progress' = 0
      BY <2>4 DEF FinishSaving
    <3>2. saving \in Proofs
      BY <1>0, <2>4 DEF FinishSaving, TypeOK
    <3>3. QED
      BY <1>0, <3>1, <3>2 DEF TypeOK
  <2>5. CASE SavingFails
    BY <1>0, <2>5 DEF TypeOK, SavingFails
  <2>6. CASE Crash
    BY <1>0, <2>6 DEF TypeOK, Crash
  <2>7. CASE \E u \in Proofs : InsertProof(u)
    BY <1>0, <2>3, <2>7 DEF TypeOK
  <2>8. QED
    BY <2>1, <2>2, <2>4, <2>5, <2>6, <2>7, SavingSteps
<1>2. recorded' \subseteq Proofs
  <2> USE DEF Store, serverVars, TypeOK, DrainTypeOK, PhotosTypeOK
  <2>1. CASE Capture
    BY <1>0, <2>1 DEF Capture, LoadList, OpenPage, InsertProof, SavePhoto, FinishSaving, SavingFails
  <2>2. CASE RunOnce \/ RetryAll \/ UNCHANGED vars
    BY <1>0, <2>2 DEF RunOnce, RetryAll, vars
  <2>3. CASE DrainStep
    BY <1>0, <2>3 DEF DrainStep, Hold, Mark, ReadPhotos, UploadPhoto, Send, Arrive, ArriveUnwelcome,
                      FailAttempt, Reject, DeleteLocalFiles, DeletePhotoRows, DeleteProofRow
  <2>4. CASE Environment
    BY <1>0, <2>4 DEF Environment, Elapse, ArriveLate, GoOnline, GoOffline, Crash
  <2>5. QED
    BY <2>1, <2>2, <2>3, <2>4 DEF Next
<1>3. /\ shown' \in [Deliveries -> DeliveryStatuses \cup {"None"}]
      /\ cached' \in [Deliveries -> DeliveryStatuses \cup {"None"}]
  <2>1. \A d : ServerStatus(d) \in DeliveryStatuses
    BY <1>0, ServerStatusMeans DEF TypeOK
  <2> USE DEF pageVars, TypeOK
  <2>2. CASE Capture
    BY <1>0, <2>1, <2>2 DEF Capture, LoadList, OpenPage, InsertProof, SavePhoto, FinishSaving,
                            SavingFails
  <2>3. CASE RunOnce \/ RetryAll
    BY <1>0, <2>3 DEF RunOnce, RetryAll
  <2>4. CASE DrainStep
    BY <1>0, <2>4 DEF DrainStep, Hold, Mark, ReadPhotos, UploadPhoto, Send, Arrive, ArriveUnwelcome,
                      FailAttempt, Reject, DeleteLocalFiles, DeletePhotoRows, DeleteProofRow
  <2>5. CASE Environment
    BY <1>0, <2>5 DEF Environment, Elapse, ArriveLate, GoOnline, GoOffline, Crash
  <2>6. CASE UNCHANGED vars
    BY <1>0, <2>6 DEF vars
  <2>7. QED
    BY <2>2, <2>3, <2>4, <2>5, <2>6 DEF Next
<1>4. online' \in BOOLEAN /\ crashes' \in 0..MaxCrashes
  <2> USE DEF TypeOK
  <2>1. MaxCrashes \in Nat
    BY DEF ConstantsAssumption
  <2>2. CASE Capture
    BY <1>0, <2>2 DEF Capture, LoadList, OpenPage, InsertProof, SavePhoto, FinishSaving, SavingFails
  <2>3. CASE RunOnce \/ RetryAll
    BY <1>0, <2>3 DEF RunOnce, RetryAll
  <2>4. CASE DrainStep
    BY <1>0, <2>4 DEF DrainStep, Hold, Mark, ReadPhotos, UploadPhoto, Send, Arrive, ArriveUnwelcome,
                      FailAttempt, Reject, DeleteLocalFiles, DeletePhotoRows, DeleteProofRow
  <2>5. CASE Environment
    <3>1. CASE Crash
      <4>1. crashes < MaxCrashes /\ crashes' = crashes + 1 /\ online' = online
        BY <3>1 DEF Crash
      <4>2. QED
        BY <1>0, <2>1, <4>1
    <3>2. CASE GoOnline \/ GoOffline
      BY <1>0, <3>2 DEF GoOnline, GoOffline
    <3>3. CASE (\E u \in Proofs : Elapse(u)) \/ \E r \in late : ArriveLate(r)
      BY <1>0, <3>3 DEF Elapse, ArriveLate
    <3>4. QED
      BY <2>5, <3>1, <3>2, <3>3 DEF Environment
  <2>6. CASE UNCHANGED vars
    BY <1>0, <2>6 DEF vars
  <2>7. QED
    BY <2>2, <2>3, <2>4, <2>5, <2>6 DEF Next
<1>5. QED
  BY <1>1, <1>2, <1>3, <1>4

\* The invariant holds at first and is kept by every step.
LEMMA Inductive == Spec => []IInv
<1> USE ConstantsAssumption
<1>1. Init => IInv
  <2> SUFFICES ASSUME Init PROVE IInv
    OBVIOUS
  <2>0. MaxAttempts \in Nat \ {0} /\ MaxCrashes \in Nat
    BY DEF ConstantsAssumption
  <2>1. TypeOK
    <3>1. PhotosTypeOK
      BY DEF Init, PhotosTypeOK
    <3>2. DrainTypeOK
      BY DEF Init, DrainTypeOK, Stages
    <3>3. row \in [Proofs -> RowStates] /\ attempts \in [Proofs -> 0..MaxAttempts]
      BY <2>0 DEF Init, RowStates
    <3>4. crashes \in 0..MaxCrashes /\ progress \in 0..5
      BY <2>0 DEF Init
    <3>5. QED
      BY <3>1, <3>2, <3>3, <3>4 DEF Init, TypeOK
  <2>2. MaxAttempts > 0
    BY DEF ConstantsAssumption
  <2>3. QED
    BY <2>1, <2>2 DEF Init, IInv, Working, NewUntried, FailedWhenExhausted, ConfirmedStored,
                      DeletedOnlyWhenStored, SavedSoFar, NothingLostUnsent, KnownPickups
<1>2. IInv /\ [Next]_vars => IInv'
  <2> SUFFICES ASSUME IInv, [Next]_vars PROVE IInv'
    OBVIOUS
  <2>1. TypeOK'
    BY StepKeepsRows, StepKeepsPhotos, StepKeepsDrain, StepKeepsOtherTypes
    DEF TypeOK, RowsInv, RowTypes
  <2>2. QED
    BY <2>1, StepKeepsRows, StepKeepsDrain, StepKeepsConfirmed, StepKeepsSavedSoFar,
       StepKeepsUnsent, StepKeepsPickups
    DEF IInv, RowsInv
<1>3. QED
  BY <1>1, <1>2, PTL DEF Spec

\* The rows, the drain and the server keep their types.
THEOREM TypeCorrect == Spec => []TypeOK
BY Inductive, PTL DEF IInv

\* A proof's row is deleted only when the API has the proof.
THEOREM DeletionIsEarned == Spec => []DeletedOnlyWhenStored
BY Inductive, PTL DEF IInv

\* A proof that was saved is whole on the device until the API has it.
THEOREM SavedIsKept == Spec => []NothingLostUnsent
BY Inductive, PTL DEF IInv

\* A proof fails exactly when it has no attempts left.
THEOREM FailureIsExhaustion == Spec => []FailedWhenExhausted
BY Inductive, PTL DEF IInv

\* A delivery proof is sent only when the API has a pickup proof of its delivery.
THEOREM PickupGoesFirst == Spec => []NeverTooEarly
<1>1. ASSUME IInv PROVE NeverTooEarly
  <2>1. SUFFICES ASSUME stage = "sent", Content[current].type = "Delivery"
                 PROVE  PickupStored(Content[current].delivery)
    BY DEF NeverTooEarly, PickupStored
  <2>2. current \in Proofs /\ row[current] # "None"
    BY <1>1, <2>1 DEF IInv, TypeOK, DrainTypeOK, Working
  <2>3. QED
    BY <1>1, <2>1, <2>2 DEF IInv, KnownPickups
<1>2. QED
  BY <1>1, Inductive, PTL

-----------------------------------------------------------------------------
(* A delivery proof waits for the pickups captured before it.               *)

\* What is earlier than a proof has a row, or had one.
EarlierRows == \A u \in Proofs : \A v \in earlier[u] : row[v] # "None"

\* A deleted row never comes back, and the time of capture is set with the row.
LEMMA RowsStay ==
  ASSUME ConstantsAssumption, IInv, [Next]_vars, NEW u \in Proofs
  PROVE  /\ row[u] # "None" => row'[u] # "None" /\ earlier'[u] = earlier[u]
         /\ row[u] = "Deleted" => row'[u] = "Deleted"
         /\ earlier'[u] \in {earlier[u], {v \in Proofs : row[v] # "None"}}
<1>0. /\ row \in [Proofs -> RowStates]
      /\ earlier \in [Proofs -> SUBSET Proofs]
      /\ \A v \in batch : Queued(v)
      /\ stage \notin {"idle", "next"} => row[current] = "Syncing"
  BY DEF IInv, TypeOK, DrainTypeOK, Working
<1>1. CASE Capture
  BY <1>0, <1>1 DEF Capture, LoadList, OpenPage, InsertProof, SavePhoto, FinishSaving,
                    SavingFails, deviceRows
<1>2. CASE RunOnce \/ RetryAll
  BY <1>0, <1>2 DEF RunOnce, RetryAll, deviceRows
<1>3. CASE DrainStep
  BY <1>0, <1>3 DEF DrainStep, Hold, Mark, ReadPhotos, UploadPhoto, Send, Arrive, ArriveUnwelcome,
                    FailAttempt, Reject, UploadRefused, DeleteLocalFiles, DeletePhotoRows,
                    DeleteProofRow, deviceRows, Queued
<1>4. CASE Environment
  BY <1>4 DEF Environment, Elapse, ArriveLate, GoOnline, GoOffline, Crash, deviceRows
<1>5. CASE UNCHANGED vars
  BY <1>5 DEF vars, deviceRows
<1>6. QED
  BY <1>1, <1>2, <1>3, <1>4, <1>5 DEF Next

\* The drain turns to a proof only after the check.
LEMMA CurrentIsChecked ==
  ASSUME ConstantsAssumption, IInv, [Next]_vars
  PROVE  current' \in {current, NoProof} \/ \E u \in batch : Mark(u) /\ current' = u
<1> USE DEF drainVars
<1>1. CASE Capture
  BY <1>1 DEF Capture, LoadList, OpenPage, InsertProof, SavePhoto, FinishSaving, SavingFails
<1>2. CASE RunOnce \/ RetryAll
  BY <1>2 DEF RunOnce, RetryAll, BeginDrain
<1>3. CASE DrainStep
  BY <1>3 DEF DrainStep, Hold, Mark, ReadPhotos, UploadPhoto, Send, Arrive, ArriveUnwelcome,
              FailAttempt, Reject, DeleteLocalFiles, DeletePhotoRows, DeleteProofRow, GoTo, Advance
<1>4. CASE Environment
  BY <1>4 DEF Environment, Elapse, ArriveLate, GoOnline, GoOffline, Crash
<1>5. CASE UNCHANGED vars
  BY <1>5 DEF vars
<1>6. QED
  BY <1>1, <1>2, <1>3, <1>4, <1>5 DEF Next

\* The order of capture is kept, and with it the pickups that a delivery proof waited for.
LEMMA StepKeepsWaiting ==
  ASSUME ConstantsAssumption, IInv, [Next]_vars, EarlierRows, PickupLeavesFirst
  PROVE  EarlierRows' /\ PickupLeavesFirst'
<1>0. /\ row \in [Proofs -> RowStates]
      /\ earlier \in [Proofs -> SUBSET Proofs]
      /\ current \in Proofs \cup {NoProof}
      /\ batch \subseteq Proofs
      /\ current # NoProof => row[current] = "Syncing"
      /\ \A u \in batch : Queued(u)
  BY DEF IInv, TypeOK, DrainTypeOK, Working
<1>1. EarlierRows'
  BY <1>0, RowsStay DEF EarlierRows
<1>2. ASSUME current' # NoProof, Content[current'].type = "Delivery", NEW v \in earlier'[current'],
             Content[v].delivery = Content[current'].delivery, Content[v].type = "Pickup"
      PROVE  ~OnDevice(v)'
  <2>1. CASE current' = current
    <3>1. earlier'[current] = earlier[current] /\ v \in earlier[current] /\ v \in Proofs
      BY <1>0, <1>2, <2>1, RowsStay
    <3>2. ~OnDevice(v) /\ row[v] # "None"
      BY <1>2, <2>1, <3>1, <1>0 DEF PickupLeavesFirst, EarlierRows
    <3>3. row[v] = "Deleted"
      BY <1>0, <3>1, <3>2 DEF OnDevice, RowStates
    <3>4. QED
      BY <3>1, <3>3, RowsStay DEF OnDevice
  <2>2. CASE current' # current
    <3>1. PICK u \in batch : Mark(u) /\ current' = u
      BY <1>2, <2>2, CurrentIsChecked
    <3>2. u \in Proofs /\ row[u] # "None" /\ earlier'[u] = earlier[u]
      BY <1>0, <3>1, RowsStay DEF Queued
    <3>3. v \in Proofs /\ v \in earlier[u]
      BY <1>0, <1>2, <3>1, <3>2
    <3>4. ~OnDevice(v)
      BY <1>2, <3>1, <3>3 DEF Mark, MustHold, HasUnsyncedPickup
    <3>5. row[v] = "Deleted"
      BY <1>0, <3>2, <3>3, <3>4 DEF EarlierRows, OnDevice, RowStates
    <3>6. QED
      BY <3>3, <3>5, RowsStay DEF OnDevice
  <2>3. QED
    BY <2>1, <2>2
<1>3. QED
  BY <1>1, <1>2 DEF PickupLeavesFirst

\* While a delivery proof is uploaded and sent, no pickup captured before it is on the phone.
THEOREM PickupIsGone == Spec => []PickupLeavesFirst
<1>1. Init => EarlierRows /\ PickupLeavesFirst
  BY DEF Init, EarlierRows, PickupLeavesFirst
<1>2. IInv /\ EarlierRows /\ PickupLeavesFirst /\ [Next]_vars => EarlierRows' /\ PickupLeavesFirst'
  BY StepKeepsWaiting, ConstantsAssumption
<1>3. QED
  BY <1>1, <1>2, Inductive, PTL DEF Spec

-----------------------------------------------------------------------------
(* Requests, in time and late.                                              *)

\* What is sent now, or was sent by a drain that gave up.
IsSent(u, photos) ==
  \/ stage = "sent" /\ u = current /\ photos = snapshot
  \/ <<u, photos>> \in late

\* The API's proofs change only by one that was sent and that it accepts.
LEMMA StoresOne ==
  ASSUME ConstantsAssumption, TypeOK, [Next]_vars
  PROVE  \/ UNCHANGED <<recorded, evidence>>
         \/ \E u \in Proofs : \E photos :
              /\ IsSent(u, photos)
              /\ Accepts(u, photos)
              /\ recorded' = recorded \cup {u}
              /\ evidence' = [evidence EXCEPT ![u] = photos]
<1> USE DEF serverVars
<1> DEFINE Stores == \E u \in Proofs : \E photos :
                       /\ IsSent(u, photos)
                       /\ Accepts(u, photos)
                       /\ recorded' = recorded \cup {u}
                       /\ evidence' = [evidence EXCEPT ![u] = photos]
<1>1. ASSUME NEW u \in Proofs, NEW photos, IsSent(u, photos), Store(u, photos)
      PROVE  UNCHANGED <<recorded, evidence>> \/ Stores
  BY <1>1 DEF Store
<1> SUFFICES UNCHANGED <<recorded, evidence>> \/ Stores
  OBVIOUS
<1> HIDE DEF Stores
<1>2. CASE Arrive
  <2>1. current \in Proofs /\ Store(current, snapshot) /\ IsSent(current, snapshot)
    BY <1>2 DEF Arrive, TypeOK, DrainTypeOK, IsSent
  <2>2. QED
    BY <1>1, <2>1
<1>3. CASE \E r \in late : ArriveLate(r)
  <2>0. PICK r \in late : ArriveLate(r)
    BY <1>3
  <2>1. r[1] \in Proofs /\ r = <<r[1], r[2]>> /\ Store(r[1], r[2])
    BY <2>0 DEF ArriveLate, TypeOK, PhotosTypeOK
  <2>2. IsSent(r[1], r[2])
    BY <2>1 DEF IsSent
  <2>3. QED
    BY <1>1, <2>1, <2>2
<1>4. CASE Capture
  BY <1>4 DEF Capture, LoadList, OpenPage, InsertProof, SavePhoto, FinishSaving, SavingFails
<1>5. CASE RunOnce \/ RetryAll
  BY <1>5 DEF RunOnce, RetryAll
<1>6. CASE DrainStep /\ ~Arrive
  BY <1>6 DEF DrainStep, Hold, Mark, ReadPhotos, UploadPhoto, Send, ArriveUnwelcome, FailAttempt,
              Reject, DeleteLocalFiles, DeletePhotoRows, DeleteProofRow
<1>7. CASE Environment /\ \A r \in late : ~ArriveLate(r)
  BY <1>7 DEF Environment, Elapse, GoOnline, GoOffline, Crash
<1>8. CASE UNCHANGED vars
  BY <1>8 DEF vars
<1>9. QED
  BY <1>2, <1>3, <1>4, <1>5, <1>6, <1>7, <1>8 DEF Next

\* A late request is one that the drain was waiting for.
LEMMA BecomesLate ==
  ASSUME [Next]_vars, NEW r \in late', r \notin late
  PROVE  stage = "sent" /\ r = <<current, snapshot>>
<1>1. Abandon \/ late' \subseteq late
  <2>1. CASE FailAttempt \/ Crash
    BY <2>1 DEF FailAttempt, Crash
  <2>2. CASE \E q \in late : ArriveLate(q)
    BY <2>2 DEF ArriveLate
  <2>3. CASE SavePhoto \/ (\E i \in snapshot : UploadPhoto(i)) \/ DeleteLocalFiles \/ DeletePhotoRows
    BY <2>3 DEF SavePhoto, UploadPhoto, DeleteLocalFiles, DeletePhotoRows, serverVars
  <2>4. CASE Arrive
    BY <2>4 DEF Arrive
  <2>5. QED
    BY <2>1, <2>2, <2>3, <2>4, StepsWithoutPhotos DEF photoVars
<1>2. QED
  BY <1>1 DEF Abandon

-----------------------------------------------------------------------------
(* ProofOutbox.                                                             *)

\* What the API has, or may still receive, was captured.
CapturedFirst ==
  /\ \A u \in recorded : row[u] # "None"
  /\ \A r \in late : row[r[1]] # "None"

\* Rows do not become new again, and only the proof at work is sent, in time or late.
LEMMA StepKeepsCaptured ==
  ASSUME ConstantsAssumption, IInv, CapturedFirst, [Next]_vars
  PROVE  CapturedFirst'
<1>0. /\ row \in [Proofs -> RowStates]
      /\ late \subseteq Proofs \X SUBSET (0..4)
      /\ batch \subseteq Proofs
      /\ stage \notin {"idle", "next"} => current \in Proofs /\ row[current] = "Syncing"
  BY DEF IInv, TypeOK, PhotosTypeOK, DrainTypeOK, Working
<1>1. ASSUME NEW u \in Proofs, row[u] # "None" PROVE row'[u] # "None"
  <2>1. CASE Capture
    BY <1>0, <1>1, <2>1 DEF Capture, LoadList, OpenPage, InsertProof, SavePhoto, FinishSaving,
                            SavingFails, deviceRows
  <2>2. CASE RunOnce \/ RetryAll \/ UNCHANGED vars
    BY <1>0, <1>1, <2>2 DEF RunOnce, RetryAll, deviceRows, vars
  <2>3. CASE DrainStep
    BY <1>0, <1>1, <2>3 DEF DrainStep, Hold, Mark, ReadPhotos, UploadPhoto, Send, Arrive,
                            ArriveUnwelcome, FailAttempt, Reject, DeleteLocalFiles, DeletePhotoRows,
                            DeleteProofRow, deviceRows
  <2>4. CASE Environment
    BY <1>0, <1>1, <2>4 DEF Environment, Elapse, ArriveLate, GoOnline, GoOffline, Crash, deviceRows
  <2>5. QED
    BY <2>1, <2>2, <2>3, <2>4 DEF Next
<1>2. ASSUME NEW r \in late', r \notin late PROVE r[1] \in Proofs /\ row[r[1]] # "None"
  BY <1>0, <1>2, BecomesLate
<1>3. ASSUME NEW u \in recorded', u \notin recorded PROVE u \in Proofs /\ row[u] # "None"
  <2>1. PICK photos : u \in Proofs /\ IsSent(u, photos)
    BY <1>3, StoresOne DEF IInv
  <2>2. QED
    BY <1>0, <2>1 DEF IsSent, CapturedFirst
<1>4. recorded \subseteq Proofs
  BY DEF IInv, TypeOK
<1>5. QED
  BY <1>0, <1>1, <1>2, <1>3, <1>4 DEF CapturedFirst

\* The places of the proofs follow their rows.
LEMMA Places ==
  ASSUME TypeOK, NEW u \in Proofs
  PROVE  /\ row[u] = "None" <=> PlaceOf[row[u]] = "absent"
         /\ row[u] \in {"Pending", "Syncing"} <=> PlaceOf[row[u]] = "waiting"
         /\ row[u] = "Failed" <=> PlaceOf[row[u]] = "failed"
         /\ row[u] = "Deleted" <=> PlaceOf[row[u]] = "removed"
BY DEF TypeOK, RowStates, PlaceOf

\* A step that moves no proof from its place and touches no count and nothing stored.
LEMMA OutboxRests ==
  ASSUME \A u \in Proofs : PlaceOf[row'[u]] = PlaceOf[row[u]],
         UNCHANGED <<attempts, saved, recorded, evidence>>
  PROVE  UNCHANGED Outbox!vars
BY DEF Outbox!vars

\* What the API stores it had not stored, and it is still on the device.
LEMMA StoreDelivers ==
  ASSUME ConstantsAssumption, IInv, NEW u \in Proofs, NEW photos \in SUBSET Photos(u),
         row[u] # "None", Store(u, photos), UNCHANGED <<row, attempts, saved>>
  PROVE  [Outbox!Next]_(Outbox!vars)
<1>1. CASE ~Accepts(u, photos)
  BY <1>1, OutboxRests DEF Store
<1>2. CASE Accepts(u, photos)
  <2>1. u \notin recorded /\ recorded' = recorded \cup {u} /\ evidence' = [evidence EXCEPT ![u] = photos]
    BY <1>2 DEF Store, Accepts
  <2>2. PlaceOf[row[u]] \in {"waiting", "failed"}
    BY <2>1, Places DEF IInv, DeletedOnlyWhenStored, TypeOK, RowStates
  <2>3. Outbox!Deliver(u, photos)
    BY <2>1, <2>2 DEF Outbox!Deliver
  <2>4. photos \in SUBSET UNION {[v \in Proofs |-> Photos(v)][w] : w \in Proofs}
    OBVIOUS
  <2>5. QED
    BY <2>3, <2>4 DEF Outbox!Next
<1>3. QED
  BY <1>1, <1>2

\* A try of the current proof fails and is counted.
LEMMA TryFails ==
  ASSUME ConstantsAssumption, IInv, current # NoProof,
         NEW count \in {attempts[current] + 1, MaxAttempts},
         attempts' = [attempts EXCEPT ![current] = count],
         row' = [row EXCEPT ![current] = IF count = MaxAttempts THEN "Failed" ELSE "Pending"],
         UNCHANGED <<saved, recorded, evidence>>
  PROVE  Outbox!Next
<1>1. /\ current \in Proofs /\ row[current] = "Syncing" /\ attempts[current] < MaxAttempts
      /\ attempts[current] \in Nat /\ MaxAttempts \in Nat
      /\ row \in [Proofs -> RowStates]
  BY CurrentHasAttempts DEF IInv, TypeOK, ConstantsAssumption
<1>2. count \in 1..MaxAttempts
  BY <1>1
<1>3. [u \in Proofs |-> PlaceOf[row[u]]]' =
        [[u \in Proofs |-> PlaceOf[row[u]]] EXCEPT ![current] =
           IF count = MaxAttempts THEN "failed" ELSE "waiting"]
  BY <1>1 DEF PlaceOf
<1>4. [u \in Proofs |-> PlaceOf[row[u]]][current] = "waiting"
  BY <1>1 DEF PlaceOf
<1>5. Outbox!Fail(current, count)
  BY <1>1, <1>3, <1>4 DEF Outbox!Fail
<1>6. QED
  BY <1>1, <1>2, <1>5 DEF Outbox!Next

\* Every step of the services is one of the outbox, or none.
THEOREM Refinement == Spec => ImplementsOutbox
<1> USE ConstantsAssumption
<1>1. Init => Outbox!Init
  BY DEF Init, Outbox!Init, PlaceOf
<1>2. ASSUME IInv, CapturedFirst, [Next]_vars PROVE [Outbox!Next]_(Outbox!vars)
  <2>0. /\ TypeOK
        /\ row \in [Proofs -> RowStates]
        /\ \A u \in batch : u \in Proofs /\ Queued(u)
        /\ stage \notin {"idle", "next"} =>
             current # NoProof /\ current \in Proofs /\ row[current] = "Syncing"
    BY <1>2 DEF IInv, TypeOK, DrainTypeOK, Working
  <2> DEFINE Refines == [Outbox!Next]_(Outbox!vars)
  <2>1. ASSUME UNCHANGED <<row, attempts, saved, recorded, evidence>> PROVE Refines
    BY <2>1, OutboxRests
  <2>2. CASE Capture
    <3>1. ASSUME NEW u \in Proofs, InsertProof(u) PROVE Refines
      <4>1. [v \in Proofs |-> PlaceOf[row[v]]]' =
              [[v \in Proofs |-> PlaceOf[row[v]]] EXCEPT ![u] = "waiting"]
        BY <2>0, <3>1 DEF InsertProof, PlaceOf
      <4>2. Outbox!Capture(u)
        BY <3>1, <4>1 DEF InsertProof, Outbox!Capture, PlaceOf, serverVars
      <4>3. QED
        BY <4>2 DEF Outbox!Next
    <3>2. CASE FinishSaving
      <4>1. saving \in Proofs /\ row[saving] # "None"
        BY <1>2, <3>2 DEF FinishSaving, IInv, TypeOK, SavedSoFar, OnDevice, CapturedFirst
      <4>2. PlaceOf[row[saving]] # "absent"
        BY <2>0, <4>1, Places
      <4>3. Outbox!Promise(saving)
        BY <3>2, <4>1, <4>2 DEF FinishSaving, Outbox!Promise, deviceRows, serverVars
      <4>4. QED
        BY <4>1, <4>3 DEF Outbox!Next
    <3>3. CASE LoadList \/ (\E d \in Deliveries : OpenPage(d)) \/ SavePhoto \/ SavingFails
      BY <2>1, <3>3 DEF LoadList, OpenPage, SavePhoto, SavingFails, deviceRows, saveVars, serverVars
    <3>4. QED
      BY <2>2, <3>1, <3>2, <3>3 DEF Capture
  <2>3. CASE RunOnce
    BY <2>1, <2>3 DEF RunOnce, deviceRows, saveVars, serverVars
  <2>4. CASE RetryAll
    <3> DEFINE rearmed == {u \in Proofs : row[u] = "Failed"}
    <3>1. Outbox!Failed = rearmed
      BY <2>0, Places DEF Outbox!Failed
    <3>2. /\ rearmed # {}
          /\ row' = [u \in Proofs |-> IF u \in rearmed THEN "Pending" ELSE row[u]]
          /\ attempts' = [u \in Proofs |-> IF u \in rearmed THEN 0 ELSE attempts[u]]
          /\ UNCHANGED <<saved, recorded, evidence>>
      BY <2>4 DEF RetryAll, saveVars, serverVars
    <3>3. [u \in Proofs |-> PlaceOf[row[u]]]' =
            [u \in Proofs |-> IF u \in rearmed THEN "waiting" ELSE PlaceOf[row[u]]]
      BY <3>2 DEF PlaceOf
    <3> HIDE DEF rearmed
    <3>4. Outbox!SendAgain
      BY <3>1, <3>2, <3>3 DEF Outbox!SendAgain
    <3>5. QED
      BY <3>4 DEF Outbox!Next
  <2>5. ASSUME NEW u \in batch, Hold(u) \/ Mark(u) PROVE Refines
    <3>1. /\ \A v \in Proofs : PlaceOf[row'[v]] = PlaceOf[row[v]]
      BY <2>0, <2>5 DEF Hold, Mark, Queued, PlaceOf
    <3>2. QED
      BY <2>5, <3>1, OutboxRests DEF Hold, Mark, saveVars, serverVars
  <2>6. CASE ReadPhotos \/ (\E i \in snapshot : UploadPhoto(i)) \/ Send \/ ArriveUnwelcome
             \/ DeleteLocalFiles \/ DeletePhotoRows
    BY <2>1, <2>6 DEF ReadPhotos, UploadPhoto, Send, ArriveUnwelcome, DeleteLocalFiles,
                      DeletePhotoRows, deviceRows, saveVars, serverVars
  <2>7. CASE Arrive
    <3>1. /\ current \in Proofs /\ row[current] # "None"
          /\ snapshot \in SUBSET Photos(current)
      BY <2>0, <2>7 DEF Arrive, TypeOK, DrainTypeOK
    <3>2. QED
      BY <1>2, <2>7, <3>1, StoreDelivers DEF Arrive, deviceRows, saveVars
  <2>8. CASE FailAttempt
    <3>1. current # NoProof /\ attempts[current] \in Nat /\ MaxAttempts \in Nat
          /\ attempts[current] < MaxAttempts
      BY <1>2, <2>0, <2>8, CurrentHasAttempts DEF FailAttempt, TypeOK, ConstantsAssumption
    <3>2. IsExhausted(attempts[current] + 1) <=> attempts[current] + 1 = MaxAttempts
      BY <3>1 DEF IsExhausted
    <3>3. QED
      BY <1>2, <2>8, <3>1, <3>2, TryFails DEF FailAttempt, saveVars
  <2>9. CASE Reject
    <3>1. current # NoProof
      BY <2>0, <2>9 DEF Reject, UploadRefused
    <3>2. QED
      BY <1>2, <2>9, <3>1, TryFails DEF Reject, saveVars, serverVars
  <2>10. CASE DeleteProofRow
    <3>1. PICK u \in Proofs : u = current /\ row[u] = "Syncing" /\ u \in recorded
      BY <1>2, <2>0, <2>10 DEF DeleteProofRow, IInv, ConfirmedStored
    <3>2. [v \in Proofs |-> PlaceOf[row[v]]]' =
            [[v \in Proofs |-> PlaceOf[row[v]]] EXCEPT ![u] = "removed"]
      BY <2>0, <2>10, <3>1 DEF DeleteProofRow, PlaceOf
    <3>3. Outbox!Remove(u)
      BY <2>10, <3>1, <3>2 DEF DeleteProofRow, Outbox!Remove, PlaceOf, saveVars, serverVars
    <3>4. QED
      BY <3>3 DEF Outbox!Next
  <2>11. ASSUME NEW r \in late, ArriveLate(r) PROVE Refines
    <3>1. r[1] \in Proofs /\ row[r[1]] # "None" /\ r[2] \in SUBSET Photos(r[1])
      BY <1>2 DEF IInv, TypeOK, PhotosTypeOK, CapturedFirst
    <3>2. QED
      BY <1>2, <2>11, <3>1, StoreDelivers DEF ArriveLate, deviceRows, saveVars
  <2>12. CASE (\E u \in Proofs : Elapse(u)) \/ GoOnline \/ GoOffline \/ Crash
    BY <2>1, <2>12 DEF Elapse, GoOnline, GoOffline, Crash, deviceRows, saveVars, serverVars
  <2>13. CASE UNCHANGED vars
    BY <2>1, <2>13 DEF vars, deviceRows, saveVars, serverVars
  <2>14. QED
    BY <1>2, <2>2, <2>3, <2>4, <2>5, <2>6, <2>7, <2>8, <2>9, <2>10, <2>11, <2>12, <2>13
    DEF Next, DrainStep, Environment
<1>3. Init => CapturedFirst
  BY DEF Init, CapturedFirst
<1>4. IInv /\ CapturedFirst /\ [Next]_vars => CapturedFirst'
  BY StepKeepsCaptured
<1>5. QED
  BY <1>1, <1>2, <1>3, <1>4, Inductive, PTL DEF Spec, ImplementsOutbox, Outbox!Spec

-----------------------------------------------------------------------------
(* The lifecycle of a delivery, as the queue moves it.                      *)

Of(stored, d, type) == {v \in stored : Content[v].delivery = d /\ Content[v].type = type}

\* Of each type the API has one proof of a delivery, and of a delivery proof the pickup too.
OneOfEach(stored) ==
  /\ \A u, v \in stored :
       Content[u].delivery = Content[v].delivery /\ Content[u].type = Content[v].type => u = v
  /\ \A v \in stored : Content[v].type = "Delivery" =>
       Of(stored, Content[v].delivery, "Pickup") # {}

\* The status that the proofs of a delivery give it.
StatusOf(pickups, handovers) ==
  LET results(of) == {Content[u].status : u \in of}
  IN  IF results(pickups) = {} THEN "Pending"
      ELSE CHOOSE s \in DeliveryStatuses :
             s \in IF results(handovers) = {} THEN results(pickups) ELSE results(handovers)

StatusFrom(stored, d) == StatusOf(Of(stored, d, "Pickup"), Of(stored, d, "Delivery"))

EvidenceFrom(stored, d) ==
  {<<Content[u].type, Content[u].status>> : u \in {v \in stored : Content[v].delivery = d}}

LEMMA ResultsOfNone == \A S : S = {} <=> {Content[u].status : u \in S} = {}
OBVIOUS

\* It is the result of the last proof.
LEMMA StatusIsLast ==
  ASSUME ConstantsAssumption, NEW stored \in SUBSET Proofs, OneOfEach(stored), NEW d
  PROVE  /\ Of(stored, d, "Pickup") = {} =>
              StatusFrom(stored, d) = "Pending" /\ Of(stored, d, "Delivery") = {}
         /\ \A u \in Of(stored, d, "Pickup") :
              Of(stored, d, "Delivery") = {} => StatusFrom(stored, d) = Content[u].status
         /\ \A u \in Of(stored, d, "Delivery") : StatusFrom(stored, d) = Content[u].status
<1> DEFINE results(type) == {Content[u].status : u \in Of(stored, d, type)}
           known == IF results("Delivery") = {} THEN results("Pickup") ELSE results("Delivery")
<1>1. StatusFrom(stored, d) = IF results("Pickup") = {} THEN "Pending"
                              ELSE CHOOSE s \in DeliveryStatuses : s \in known
  BY DEF StatusFrom, StatusOf
<1>2. Of(stored, d, "Pickup") = {} => Of(stored, d, "Delivery") = {}
  BY DEF Of, OneOfEach
<1>3. ASSUME NEW type \in {"Pickup", "Delivery"}, NEW u \in Of(stored, d, type)
      PROVE  results(type) = {Content[u].status} /\ Content[u].status \in DeliveryStatuses
  <2>1. Of(stored, d, type) = {u}
    BY <1>3 DEF Of, OneOfEach
  <2>2. Content[u].status \in DeliveryStatuses
    BY <1>3, ContentType DEF Of
  <2>3. QED
    BY <2>1, <2>2
<1>4. /\ Of(stored, d, "Pickup") = {} <=> results("Pickup") = {}
      /\ Of(stored, d, "Delivery") = {} <=> results("Delivery") = {}
  BY ResultsOfNone
<1>5. ASSUME NEW s \in DeliveryStatuses, known = {s}
      PROVE  (CHOOSE x \in DeliveryStatuses : x \in known) = s
  BY <1>5
<1> HIDE DEF results
<1>6. ASSUME NEW u \in Of(stored, d, "Pickup"), Of(stored, d, "Delivery") = {}
      PROVE  StatusFrom(stored, d) = Content[u].status
  <2>1. results("Pickup") # {} /\ known = {Content[u].status}
    BY <1>3, <1>4, <1>6
  <2>2. QED
    BY <1>1, <1>3, <1>5, <2>1
<1>7. ASSUME NEW u \in Of(stored, d, "Delivery")
      PROVE  StatusFrom(stored, d) = Content[u].status
  <2>1. results("Pickup") # {} /\ known = {Content[u].status}
    BY <1>2, <1>3, <1>4, <1>7
  <2>2. QED
    BY <1>1, <1>3, <1>5, <2>1
<1>8. QED
  BY <1>1, <1>2, <1>4, <1>6, <1>7

\* The status and the evidence of the model are those of its proofs, before and after a step.
LEMMA ServerIs ==
  /\ Lifecycle!vars = <<[d \in Deliveries |-> StatusFrom(recorded, d)],
                        [d \in Deliveries |-> EvidenceFrom(recorded, d)]>>
  /\ \A d : ServerStatus(d) = StatusFrom(recorded, d)
BY DEF Lifecycle!vars, ServerStatus, StatusFrom, StatusOf, EvidenceFrom, Of

\* What the API accepts keeps one proof of each type.
LEMMA StoreKeepsOneOfEach ==
  ASSUME ConstantsAssumption, recorded \subseteq Proofs, OneOfEach(recorded), NEW u \in Proofs,
         NEW photos, Accepts(u, photos)
  PROVE  OneOfEach(recorded \cup {u})
<1>1. ServerStatus(Content[u].delivery) = IF Content[u].type = "Pickup" THEN "Pending" ELSE "PickedUp"
  BY DEF Accepts
<1>2. Content[u].type = "Delivery" => Of(recorded, Content[u].delivery, "Pickup") # {}
  BY <1>1, ServerIs, StatusIsLast
<1>3. \A v \in recorded :
        ~(Content[v].delivery = Content[u].delivery /\ Content[v].type = Content[u].type)
  BY DEF Accepts
<1>4. QED
  BY <1>2, <1>3 DEF OneOfEach, Of

\* A proof that the API accepts is a step of its delivery's lifecycle.
LEMMA StoreRecords ==
  ASSUME ConstantsAssumption, recorded \subseteq Proofs, OneOfEach(recorded), NEW u \in Proofs,
         NEW photos, Accepts(u, photos), recorded' = recorded \cup {u}
  PROVE  Lifecycle!Next
<1> DEFINE p == Content[u]
           status == [d \in Deliveries |-> ServerStatus(d)]
<1>1. OneOfEach(recorded') /\ recorded' \subseteq Proofs
  BY StoreKeepsOneOfEach
<1>2. p.delivery \in Deliveries /\ p.type \in {"Pickup", "Delivery"}
      /\ p.status \in Lifecycle!ResultsFor[p.type]
  <2>1. p.status \in {"Failed", IF p.type = "Pickup" THEN "PickedUp" ELSE "Delivered"}
    BY DEF ConstantsAssumption
  <2>2. QED
    BY <2>1, ContentType DEF Lifecycle!ResultsFor
<1>3. status[p.delivery] = Lifecycle!StatusBefore[p.type]
  BY <1>2 DEF Accepts, Lifecycle!StatusBefore
<1>4. ServerStatus(p.delivery)' = p.status
  <2>1. StatusFrom(recorded', p.delivery) = p.status
    <3>1. u \in Of(recorded', p.delivery, p.type)
      BY DEF Of
    <3>2. CASE p.type = "Delivery"
      BY <1>1, <3>1, <3>2, StatusIsLast
    <3>3. CASE p.type = "Pickup"
      <4>1. Of(recorded, p.delivery, "Pickup") = {}
        BY <3>3 DEF Accepts, Of
      <4>2. Of(recorded, p.delivery, "Delivery") = {}
        BY <4>1, StatusIsLast
      <4>3. Of(recorded', p.delivery, "Delivery") = {}
        BY <3>3, <4>2 DEF Of
      <4>4. QED
        BY <1>1, <3>1, <3>3, <4>3, StatusIsLast
    <3>4. QED
      BY <1>2, <3>2, <3>3
  <2>2. ServerStatus(p.delivery)' = StatusFrom(recorded', p.delivery)
    BY DEF ServerStatus, StatusFrom, StatusOf, Of
  <2>3. QED
    BY <2>1, <2>2
<1>5. ASSUME NEW d \in Deliveries, d # p.delivery PROVE ServerStatus(d)' = ServerStatus(d)
  <2>1. /\ Of(recorded', d, "Pickup") = Of(recorded, d, "Pickup")
        /\ Of(recorded', d, "Delivery") = Of(recorded, d, "Delivery")
    BY <1>5 DEF Of
  <2>2. StatusFrom(recorded', d) = StatusFrom(recorded, d)
    BY <2>1, Zenon DEF StatusFrom
  <2>3. ServerStatus(d)' = StatusFrom(recorded', d)
    BY DEF ServerStatus, StatusFrom, StatusOf, Of
  <2>4. QED
    BY <2>2, <2>3, ServerIs
<1>6. status' = [status EXCEPT ![p.delivery] = p.status]
  BY <1>2, <1>4, <1>5
<1>7. ASSUME NEW d \in Deliveries
      PROVE  EvidenceFrom(recorded', d) =
               EvidenceFrom(recorded, d) \cup (IF d = p.delivery THEN {<<p.type, p.status>>} ELSE {})
  <2> DEFINE of(stored) == {v \in stored : Content[v].delivery = d}
  <2>1. of(recorded') = of(recorded) \cup (IF d = p.delivery THEN {u} ELSE {})
    OBVIOUS
  <2>2. /\ EvidenceFrom(recorded, d) = {<<Content[v].type, Content[v].status>> : v \in of(recorded)}
        /\ EvidenceFrom(recorded', d) = {<<Content[v].type, Content[v].status>> : v \in of(recorded')}
    BY DEF EvidenceFrom
  <2> HIDE DEF of
  <2>3. QED
    BY <2>1, <2>2
<1>8. [d \in Deliveries |-> EvidenceFrom(recorded', d)] =
        [[d \in Deliveries |-> EvidenceFrom(recorded, d)] EXCEPT
           ![p.delivery] = @ \cup {<<p.type, p.status>>}]
  <2>1. EvidenceFrom(recorded', p.delivery) =
          EvidenceFrom(recorded, p.delivery) \cup {<<p.type, p.status>>}
    BY <1>2, <1>7
  <2>2. \A d \in Deliveries : d # p.delivery => EvidenceFrom(recorded', d) = EvidenceFrom(recorded, d)
    BY <1>7
  <2> HIDE DEF p
  <2>3. QED
    BY <1>2, <2>1, <2>2
<1>9. Lifecycle!Record(p.delivery, p.type, p.status)
  BY <1>2, <1>3, <1>6, <1>8 DEF Lifecycle!Record, EvidenceFrom
<1>10. QED
  BY <1>2, <1>9 DEF Lifecycle!Next

\* Whatever is repeated, late or lost, each proof the API stores is one step of its delivery's
\* lifecycle, the one that the stored procedures implement.
THEOREM LifecycleIsFollowed == Spec => ApiFollowsLifecycle
<1> USE ConstantsAssumption
<1> DEFINE Inv == TypeOK /\ OneOfEach(recorded)
<1>1. Init => OneOfEach(recorded)
  BY DEF Init, OneOfEach
<1>2. TypeOK /\ OneOfEach(recorded) /\ [Next]_vars => OneOfEach(recorded)'
  BY StoresOne, StoreKeepsOneOfEach DEF TypeOK
<1>3. TypeOK /\ OneOfEach(recorded) /\ [Next]_vars =>
        [recorded' # recorded => Lifecycle!Next]_vars
  BY StoresOne, StoreRecords DEF TypeOK
<1>4. QED
  BY <1>1, <1>2, <1>3, TypeCorrect, PTL DEF Spec, ApiFollowsLifecycle

-----------------------------------------------------------------------------
(* Photos.  The run of AllPhotosArrive shows a drain that sends a proof     *)
(* while it is being saved; here is that no photo is lost in another way.   *)

\* The drain leaves the proof alone that is being saved.
SavedBeforeSent == saving # NoProof => current # saving

\* A proof that is being saved has not been sent yet, ...
NotSentYet ==
  saving # NoProof => saving \notin recorded /\ \A r \in late : r[1] # saving

\* ... and a saved one is sent with all its photos, until the API has them.
SentWhole ==
  /\ stage \in {"upload", "sent"} /\ current \in saved \ recorded => snapshot = Photos(current)
  /\ \A r \in late : r[1] \in saved \ recorded => r[2] = Photos(r[1])
  /\ \A u \in saved \cap recorded : evidence[u] = Photos(u)

\* What the drain has read it keeps until it has sent it.
LEMMA SnapshotSteps ==
  ASSUME [Next]_vars, stage' \in {"upload", "sent"}
  PROVE  \/ ReadPhotos
         \/ stage \in {"upload", "sent"} /\ UNCHANGED <<current, snapshot>>
<1> USE DEF drainVars, GoTo, Advance
<1>1. CASE Capture
  BY <1>1 DEF Capture, LoadList, OpenPage, InsertProof, SavePhoto, FinishSaving, SavingFails
<1>2. CASE RunOnce \/ RetryAll
  BY <1>2 DEF RunOnce, RetryAll, BeginDrain
<1>3. CASE DrainStep
  BY <1>3 DEF DrainStep, Hold, Mark, UploadPhoto, Send, Arrive, ArriveUnwelcome, FailAttempt,
              Reject, DeleteLocalFiles, DeletePhotoRows, DeleteProofRow
<1>4. CASE Environment
  BY <1>4 DEF Environment, Elapse, ArriveLate, GoOnline, GoOffline, Crash
<1>5. CASE UNCHANGED vars
  BY <1>5 DEF vars
<1>6. QED
  BY <1>1, <1>2, <1>3, <1>4, <1>5 DEF Next

\* Only the end of saving makes a proof a saved one.
LEMMA BecomesSaved ==
  ASSUME [Next]_vars, NEW u \in saved', u \notin saved
  PROVE  saving # NoProof /\ u = saving /\ UNCHANGED <<drainVars, serverVars>>
BY SavingSteps DEF saveVars, InsertProof, SavePhoto, FinishSaving, SavingFails, Crash

\* Saving begins with a proof nobody has sent, and the drain sends others meanwhile.
LEMMA StepKeepsNotSent ==
  ASSUME ConstantsAssumption, IInv, CapturedFirst, SavedBeforeSent, NotSentYet, [Next]_vars
  PROVE  NotSentYet'
<1> SUFFICES ASSUME saving' # NoProof
             PROVE  saving' \notin recorded' /\ \A r \in late' : r[1] # saving'
  BY DEF NotSentYet
<1>1. CASE \E u \in Proofs : InsertProof(u)
  BY <1>1 DEF InsertProof, CapturedFirst, serverVars
<1>2. CASE saving' = saving
  <2>1. saving' \notin recorded'
    <3>1. CASE UNCHANGED <<recorded, evidence>>
      BY <1>2, <3>1 DEF NotSentYet
    <3>2. ASSUME NEW u \in Proofs, NEW photos, IsSent(u, photos), recorded' = recorded \cup {u}
          PROVE  saving' \notin recorded'
      BY <1>2, <3>2 DEF IsSent, SavedBeforeSent, NotSentYet
    <3>3. QED
      BY <3>1, <3>2, StoresOne DEF IInv
  <2>2. ASSUME NEW r \in late' PROVE r[1] # saving'
    BY <1>2, BecomesLate DEF SavedBeforeSent, NotSentYet
  <2>3. QED
    BY <2>1, <2>2
<1>3. QED
  BY <1>1, <1>2, SavingSteps DEF saveVars, SavePhoto, FinishSaving, SavingFails, Crash

\* What is sent of a saved proof is whole, because its rows are (NothingLostUnsent).
LEMMA StepKeepsWhole ==
  ASSUME ConstantsAssumption, IInv, SavedBeforeSent, NotSentYet, SentWhole, [Next]_vars
  PROVE  SentWhole'
<1>0. recorded \subseteq recorded'
  BY RecordedGrows DEF IInv
<1>1. ASSUME NEW u \in Proofs, NEW photos, IsSent(u, photos), u \in saved' \ recorded
      PROVE  photos = Photos(u)
  <2>1. u \in saved
    BY <1>1, BecomesSaved DEF IsSent, SavedBeforeSent, NotSentYet
  <2>2. QED
    BY <1>1, <2>1 DEF IsSent, SentWhole
<1>2. ASSUME stage' \in {"upload", "sent"}, current' \in saved' \ recorded'
      PROVE  snapshot' = Photos(current')
  <2>1. CASE ReadPhotos
    <3>1. current \in saved \ recorded
      BY <1>0, <1>2, <2>1 DEF ReadPhotos, saveVars
    <3>2. QED
      BY <2>1, <3>1 DEF ReadPhotos, IInv, NothingLostUnsent
  <2>2. CASE stage \in {"upload", "sent"} /\ UNCHANGED <<current, snapshot>>
    <3>1. current \in saved \ recorded
      BY <1>0, <1>2, <2>2, BecomesSaved DEF SavedBeforeSent
    <3>2. QED
      BY <2>2, <3>1 DEF SentWhole
  <2>3. QED
    BY <1>2, <2>1, <2>2, SnapshotSteps
<1>3. ASSUME NEW r \in late', r[1] \in saved' \ recorded' PROVE r[2] = Photos(r[1])
  <2>1. r[1] \in Proofs /\ IsSent(r[1], r[2])
    <3>1. CASE r \in late
      <4>1. r[1] \in Proofs /\ r = <<r[1], r[2]>>
        BY <3>1 DEF IInv, TypeOK, PhotosTypeOK
      <4>2. QED
        BY <3>1, <4>1 DEF IsSent
    <3>2. CASE r \notin late
      BY <3>2, BecomesLate DEF IsSent, IInv, TypeOK, DrainTypeOK
    <3>3. QED
      BY <3>1, <3>2
  <2>2. QED
    BY <1>0, <1>1, <1>3, <2>1
<1>4. ASSUME NEW u \in saved', u \in recorded' PROVE evidence'[u] = Photos(u)
  <2>0. u \in Proofs /\ evidence \in [Proofs -> SUBSET (0..4)]
    BY <1>4, StepKeepsOtherTypes DEF IInv, TypeOK, PhotosTypeOK
  <2>1. CASE u \in recorded
    <3>1. u \in saved
      BY <2>1, BecomesSaved DEF NotSentYet
    <3>2. evidence'[u] = evidence[u]
      BY <2>0, <2>1, StoresOne DEF IInv, Accepts
    <3>3. QED
      BY <2>1, <3>1, <3>2 DEF SentWhole
  <2>2. CASE u \notin recorded
    <3>1. PICK photos : IsSent(u, photos) /\ evidence' = [evidence EXCEPT ![u] = photos]
      BY <1>4, <2>2, StoresOne DEF IInv
    <3>2. QED
      BY <1>1, <1>4, <2>0, <2>2, <3>1
  <2>3. QED
    BY <2>1, <2>2
<1>5. QED
  BY <1>2, <1>3, <1>4 DEF SentWhole, Photos

\* As long as the drain leaves alone what is being saved, a proof that left the device is on
\* the server with all its photos, as README.md:153-155 promises, whatever is killed, lost,
\* late or repeated: the overlap of EnqueueAsync and the drain is the only way to lose one.
THEOREM SavedFirstArrivesWhole == Spec /\ []SavedBeforeSent => []AllPhotosArrive
<1> USE ConstantsAssumption
<1> DEFINE Inv == CapturedFirst /\ NotSentYet /\ SentWhole
<1>1. Init => Inv
  BY DEF Init, CapturedFirst, NotSentYet, SentWhole
<1>2. IInv /\ SavedBeforeSent /\ Inv /\ [Next]_vars => Inv'
  BY StepKeepsCaptured, StepKeepsNotSent, StepKeepsWhole
<1>3. IInv /\ Inv => AllPhotosArrive
  BY DEF IInv, TypeOK, DeletedOnlyWhenStored, SentWhole, AllPhotosArrive
<1> HIDE DEF Inv
<1>4. QED
  BY <1>1, <1>2, <1>3, Inductive, PTL DEF Spec
=============================================================================
