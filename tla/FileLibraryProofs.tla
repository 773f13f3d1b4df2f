------------------------- MODULE FileLibraryProofs -------------------------
(***************************************************************************)
(* Proofs about the files of one person, for any number of files, uploads  *)
(* started at once and faults, and for every quota.                        *)
(***************************************************************************)
EXTENDS FileLibrary, FiniteSetTheorems, TLAPS

(* The parts of the invariant that speak of one file at a time.            *)
FilesAreKnown ==
  ReadyIsStored /\ MissingIsGone /\ UploadIsKnown /\ RemovalIsKnown /\ NothingLeftLying

LEMMA InitEstablishes == Init => LibraryInv
<1> SUFFICES ASSUME Init PROVE LibraryInv
  OBVIOUS
<1> USE DEF Init
<1>1. TypeOK
  BY BoundsType DEF TypeOK, RowType, Bytes, Starting, Uploading, Serving
<1>2. FilesAreKnown
  BY DEF FilesAreKnown, ReadyIsStored, MissingIsGone, UploadIsKnown, RemovalIsKnown,
     NothingLeftLying, Listed, Starting, Uploading, Serving
<1>3. StartingIsBounded /\ OverrunIsBounded
  <2>1. /\ {f \in Files : upload[f] \in Starting} = {}
        /\ InTime = {} /\ Admitted = {}
    BY DEF Starting, InTime, Admitted, Counts
  <2> QED
    BY <2>1, FS_EmptySet, BoundsType DEF StartingIsBounded, OverrunIsBounded
<1> QED
  BY <1>1, <1>2, <1>3 DEF LibraryInv, FilesAreKnown

(* One step of one file.                                                   *)
FileStep(f) ==
  \/ UploadNext(f) \/ RemovalNext(f)
  \/ DayPasses(f) \/ RawExpires(f) \/ StorageLoses(f)
  \/ Open(f) \/ Stream(f) \/ StreamFails(f) \/ MarkMissing(f)
  \/ LookUp(f) \/ AddMaterial(f)

(* What the three kinds of UPDATE do to a row, and to the others.           *)
LEMMA StatusIsSet ==
  ASSUME row \in [Files -> RowType], NEW f \in Files,
         NEW s \in {"none", "pending", "ready", "rejected", "missing"},
         row' = [row EXCEPT ![f].status = s]
  PROVE  /\ row' \in [Files -> RowType]
         /\ row'[f].status = s
         /\ row'[f].deleted = row[f].deleted /\ row'[f].old = row[f].old
         /\ \A g \in Files \ {f} : row'[g] = row[g]
BY DEF RowType

LEMMA DeletedIsSet ==
  ASSUME row \in [Files -> RowType], NEW f \in Files,
         row' = [row EXCEPT ![f].deleted = TRUE]
  PROVE  /\ row' \in [Files -> RowType]
         /\ row'[f].status = row[f].status /\ row'[f].deleted
         /\ \A g \in Files \ {f} : row'[g] = row[g]
BY DEF RowType

LEMMA OldIsSet ==
  ASSUME row \in [Files -> RowType], NEW f \in Files,
         row' = [row EXCEPT ![f].old = TRUE]
  PROVE  /\ row' \in [Files -> RowType]
         /\ row'[f].status = row[f].status /\ row'[f].deleted = row[f].deleted
         /\ \A g \in Files \ {f} : row'[g] = row[g]
BY DEF RowType

LEMMA TypeStep ==
  ASSUME TypeOK, NEW f \in Files, FileStep(f)
  PROVE  TypeOK'
<1> USE BoundsType DEF TypeOK, RowType, Bytes, Starting, Uploading, Serving, rowVars, blobVars,
    callVars, Fault
<1>1. CASE UploadNext(f)
  <2> USE DEF UploadStep, Goes
  <2>1. CASE Choose(f)
    BY <2>1 DEF Choose
  <2>2. CASE CountUsage(f)
    BY <2>2 DEF CountUsage
  <2>3. CASE Reserve(f)
    BY <2>3 DEF Reserve
  <2>4. CASE Put(f)
    BY <2>4 DEF Put
  <2>5. CASE Cancel(f)
    BY <2>5 DEF Cancel
  <2>6. CASE Complete(f)
    BY <2>6 DEF Complete
  <2>7. CASE Check(f)
    BY <2>7 DEF Check, Verdict
  <2>8. CASE ScanFails(f)
    BY <2>8 DEF ScanFails
  <2>9. CASE RejectRow(f)
    BY <2>9 DEF RejectRow
  <2>10. CASE RejectObject(f)
    BY <2>10 DEF RejectObject
  <2>11. CASE Copy(f)
    BY <2>11 DEF Copy
  <2>12. CASE Drop(f)
    BY <2>12 DEF Drop
  <2>13. CASE Mark(f)
    BY <2>13 DEF Mark
  <2>14. CASE UploadFails(f)
    BY <2>14 DEF UploadFails
  <2> QED
    BY <1>1, <2>1, <2>2, <2>3, <2>4, <2>5, <2>6, <2>7, <2>8, <2>9,
       <2>10, <2>11, <2>12, <2>13, <2>14 DEF UploadNext
<1>2. CASE RemovalNext(f)
  <2> USE DEF RemovalStep
  <2>1. CASE Remove(f)
    BY <2>1 DEF Remove
  <2>2. CASE RemoveRow(f)
    <3> HIDE DEF RowType
    <3>1. row' \in [Files -> RowType]
      BY <2>2, DeletedIsSet DEF RemoveRow
    <3>2. removal' \in [Files -> {"idle", "marking", "materials", "unlinking"}]
      BY <2>2 DEF RemoveRow
    <3> QED
      BY <2>2, <3>1, <3>2, Zenon DEF RemoveRow
  <2>3. CASE RemoveMaterials(f)
    <3>1. material' \in [Files -> BOOLEAN]
      BY <2>3, Zenon DEF RemoveMaterials
    <3>2. faults' \in 0 .. MaxFaults
      BY <2>3 DEF RemoveMaterials
    <3>3. removal' \in [Files -> {"idle", "marking", "materials", "unlinking"}]
      BY <2>3 DEF RemoveMaterials
    <3> QED
      BY <2>3, <3>1, <3>2, <3>3, Zenon DEF RemoveMaterials
  <2>4. CASE RemoveObject(f)
    BY <2>4 DEF RemoveObject
  <2>5. CASE RemovalFails(f)
    BY <2>5 DEF RemovalFails
  <2> QED
    BY <1>2, <2>1, <2>2, <2>3, <2>4, <2>5 DEF RemovalNext
<1>3. CASE DayPasses(f)
  BY <1>3 DEF DayPasses
<1>4. CASE RawExpires(f)
  BY <1>4 DEF RawExpires
<1>5. CASE StorageLoses(f)
  BY <1>5 DEF StorageLoses
<1>6. CASE Open(f)
  BY <1>6 DEF Open, OpeningStep
<1>7. CASE Stream(f)
  BY <1>7 DEF Stream, OpeningStep
<1>8. CASE StreamFails(f)
  BY <1>8 DEF StreamFails, OpeningStep
<1>9. CASE MarkMissing(f)
  BY <1>9 DEF MarkMissing, OpeningStep
<1>10. CASE LookUp(f)
  BY <1>10 DEF LookUp
<1>11. CASE AddMaterial(f)
  BY <1>11 DEF AddMaterial
<1> QED
  BY <1>1, <1>2, <1>3, <1>4, <1>5, <1>6, <1>7, <1>8, <1>9, <1>10, <1>11 DEF FileStep

LEMMA KnownStep ==
  ASSUME TypeOK, FilesAreKnown, NEW f \in Files, FileStep(f)
  PROVE  FilesAreKnown'
<1> USE DEF TypeOK, RowType, Bytes, Starting, Uploading, Serving, rowVars, blobVars,
    callVars, Fault, FilesAreKnown, ReadyIsStored, MissingIsGone, UploadIsKnown,
    RemovalIsKnown, NothingLeftLying, Listed
<1>1. CASE UploadNext(f)
  <2> USE DEF UploadStep, Goes
  <2>1. CASE Choose(f)
    BY <2>1 DEF Choose
  <2>2. CASE CountUsage(f)
    BY <2>2 DEF CountUsage
  <2>3. CASE Reserve(f)
    BY <2>3 DEF Reserve
  <2>4. CASE Put(f)
    BY <2>4 DEF Put
  <2>5. CASE Cancel(f)
    BY <2>5 DEF Cancel
  <2>6. CASE Complete(f)
    BY <2>6 DEF Complete
  <2>7. CASE Check(f)
    BY <2>7 DEF Check, Verdict
  <2>8. CASE ScanFails(f)
    BY <2>8 DEF ScanFails
  <2>9. CASE RejectRow(f)
    BY <2>9 DEF RejectRow
  <2>10. CASE RejectObject(f)
    BY <2>10 DEF RejectObject
  <2>11. CASE Copy(f)
    BY <2>11 DEF Copy
  <2>12. CASE Drop(f)
    BY <2>12 DEF Drop
  <2>13. CASE Mark(f)
    BY <2>13 DEF Mark
  <2>14. CASE UploadFails(f)
    BY <2>14 DEF UploadFails
  <2> QED
    BY <1>1, <2>1, <2>2, <2>3, <2>4, <2>5, <2>6, <2>7, <2>8, <2>9, <2>10, <2>11, <2>12,
       <2>13, <2>14 DEF UploadNext
<1>2. CASE RemovalNext(f)
  <2> USE DEF RemovalStep
  <2>1. CASE Remove(f)
    BY <2>1 DEF Remove
  <2>2. CASE RemoveRow(f)
    <3>1. /\ row'[f].status = row[f].status /\ row'[f].deleted
          /\ \A g \in Files \ {f} : row'[g] = row[g]
      BY <2>2, DeletedIsSet DEF RemoveRow
    <3>2. /\ removal' = [removal EXCEPT ![f] = "materials"]
          /\ removal[f] = "marking"
          /\ UNCHANGED <<raw, delivery, upload, opening, gone, faults>>
      BY <2>2 DEF RemoveRow
    <3>3. upload[f] \notin {"idle"} \cup Starting
      BY <3>2
    <3> QED
      BY <3>1, <3>2, <3>3
  <2>3. CASE RemoveMaterials(f)
    BY <2>3 DEF RemoveMaterials
  <2>4. CASE RemoveObject(f)
    BY <2>4 DEF RemoveObject
  <2>5. CASE RemovalFails(f)
    BY <2>5 DEF RemovalFails
  <2> QED
    BY <1>2, <2>1, <2>2, <2>3, <2>4, <2>5 DEF RemovalNext
<1>3. CASE DayPasses(f)
  <2>1. /\ row'[f].status = row[f].status /\ (row'[f].deleted <=> row[f].deleted)
        /\ \A g \in Files \ {f} : row'[g] = row[g]
    BY <1>3, OldIsSet DEF DayPasses
  <2>2. row[f].status = "pending" /\ UNCHANGED <<raw, delivery, upload, removal, opening, gone, faults>>
    BY <1>3 DEF DayPasses
  <2>3. ReadyIsStored'
    BY <2>1, <2>2
  <2>4. MissingIsGone'
    BY <2>1, <2>2
  <2>5. UploadIsKnown'
    BY <2>1, <2>2
  <2>6. RemovalIsKnown'
    BY <2>1, <2>2
  <2>7. NothingLeftLying'
    BY <2>1, <2>2
  <2> QED
    BY <2>3, <2>4, <2>5, <2>6, <2>7
<1>4. CASE RawExpires(f)
  BY <1>4 DEF RawExpires
<1>5. CASE StorageLoses(f)
  BY <1>5 DEF StorageLoses
<1>6. CASE Open(f)
  BY <1>6 DEF Open, OpeningStep
<1>7. CASE Stream(f)
  BY <1>7 DEF Stream, OpeningStep
<1>8. CASE StreamFails(f)
  BY <1>8 DEF StreamFails, OpeningStep
<1>9. CASE MarkMissing(f)
  <2>1. /\ opening[f] = "missing" /\ opening' = [opening EXCEPT ![f] = "idle"]
        /\ UNCHANGED <<raw, delivery, upload, removal, gone, faults>>
    BY <1>9 DEF MarkMissing, OpeningStep
  <2>2. /\ row[f].status \in {"ready", "missing"} /\ delivery[f] = "none"
        /\ faults = 0 => row[f].deleted
        /\ upload[f] = "over"
    BY <2>1
  <2>3. /\ row'[f].status = "missing" /\ (row'[f].deleted <=> row[f].deleted)
        /\ \A g \in Files \ {f} : row'[g] = row[g]
    BY <1>9, <2>2 DEF MarkMissing
  <2>4. ReadyIsStored'
    BY <2>1, <2>2, <2>3
  <2>5. MissingIsGone'
    BY <2>1, <2>2, <2>3
  <2>6. UploadIsKnown'
    <3>1. \A g \in Files \ {f} : row'[g] = row[g]
      BY <2>3
    <3>2. UNCHANGED <<raw, delivery, upload, gone>>
      BY <2>1
    <3>3. upload[f] = "over" /\ upload[f]' = "over"
      BY <2>1, <2>2
    <3> QED
      BY <3>1, <3>2, <3>3
  <2>7. RemovalIsKnown'
    BY <2>1, <2>2, <2>3
  <2>8. NothingLeftLying'
    BY <2>1, <2>2, <2>3
  <2> QED
    BY <2>4, <2>5, <2>6, <2>7, <2>8
<1>10. CASE LookUp(f)
  BY <1>10 DEF LookUp
<1>11. CASE AddMaterial(f)
  BY <1>11 DEF AddMaterial
<1> QED
  BY <1>1, <1>2, <1>3, <1>4, <1>5, <1>6, <1>7, <1>8, <1>9, <1>10, <1>11 DEF FileStep

(* The files that are being started and those that count against the quota *)
(* change by one at a time, and a file that is reserved moves from the one *)
(* set to the other.                                                       *)
StartingFiles == {g \in Files : upload[g] \in Starting}

LEMMA SetsAreFinite ==
  /\ IsFiniteSet(StartingFiles) /\ Cardinality(StartingFiles) \in Nat
  /\ IsFiniteSet(InTime) /\ Cardinality(InTime) \in Nat
  /\ IsFiniteSet(Admitted) /\ Cardinality(Admitted) \in Nat
BY FilesAreFinite, FS_Subset, FS_CardinalityType DEF StartingFiles, InTime, Admitted

LEMMA SetsAreFiniteNext ==
  /\ IsFiniteSet(StartingFiles') /\ Cardinality(StartingFiles') \in Nat
  /\ IsFiniteSet(InTime') /\ Cardinality(InTime') \in Nat
  /\ IsFiniteSet(Admitted') /\ Cardinality(Admitted') \in Nat
BY FilesAreFinite, FS_Subset, FS_CardinalityType DEF StartingFiles, InTime, Admitted

(* A step other than Choose, CountUsage and Reserve adds nothing to any of *)
(* the three sets.                                                         *)
LEMMA NothingIsStarted ==
  ASSUME TypeOK, FilesAreKnown, NEW f \in Files, FileStep(f),
         ~Choose(f), ~CountUsage(f), ~Reserve(f)
  PROVE  /\ StartingFiles' \subseteq StartingFiles
         /\ InTime' \subseteq InTime
         /\ Admitted' \subseteq Admitted
<1> USE DEF TypeOK, RowType, Starting, Uploading, Serving, rowVars, blobVars, callVars,
    StartingFiles, InTime, Admitted, Counts
<1>1. CASE UploadNext(f)
  <2> USE DEF UploadStep, Goes
  <2>1. CASE Put(f) \/ Complete(f)
    BY <2>1 DEF Put, Complete
  <2>8. CASE Cancel(f)
    BY <2>8 DEF Cancel
  <2>2. CASE Check(f) \/ ScanFails(f)
    <3>1. UNCHANGED row /\ \E to \in {"over", "rejecting", "copying"} : UploadStep(f, "checking", to)
      BY <2>2 DEF Check, Verdict, ScanFails, Bytes
    <3> QED
      BY <3>1
  <2>3. CASE RejectRow(f)
    BY <2>3 DEF RejectRow
  <2>4. CASE RejectObject(f) \/ Copy(f)
    BY <2>4 DEF RejectObject, Copy
  <2>5. CASE Drop(f)
    BY <2>5 DEF Drop
  <2>6. CASE Mark(f)
    <3>1. row[f].status = "pending"
      BY <2>6 DEF Mark, FilesAreKnown, UploadIsKnown
    <3> QED
      BY <2>6, <3>1 DEF Mark
  <2>7. CASE UploadFails(f)
    BY <2>7 DEF UploadFails
  <2> QED
    BY <1>1, <2>1, <2>2, <2>3, <2>4, <2>5, <2>6, <2>7, <2>8 DEF UploadNext
<1>2. CASE RemovalNext(f)
  <2> USE DEF RemovalStep
  <2>1. CASE RemoveRow(f)
    BY <2>1 DEF RemoveRow
  <2>2. CASE Remove(f) \/ RemoveMaterials(f) \/ RemoveObject(f) \/ RemovalFails(f)
    BY <2>2 DEF Remove, RemoveMaterials, RemoveObject, RemovalFails
  <2> QED
    BY <1>2, <2>1, <2>2 DEF RemovalNext
<1>3. CASE DayPasses(f)
  BY <1>3 DEF DayPasses
<1>4. CASE RawExpires(f) \/ StorageLoses(f)
  BY <1>4 DEF RawExpires, StorageLoses
<1>5. CASE Open(f) \/ Stream(f) \/ StreamFails(f)
  BY <1>5 DEF Open, Stream, StreamFails, OpeningStep
<1>6. CASE MarkMissing(f)
  BY <1>6 DEF MarkMissing, OpeningStep
<1>7. CASE LookUp(f) \/ AddMaterial(f)
  BY <1>7 DEF LookUp, AddMaterial
<1> QED
  BY <1>1, <1>2, <1>3, <1>4, <1>5, <1>6, <1>7 DEF FileStep

(* The usage of whoever is let in was below the quota, and at most AtOnce  *)
(* uploads are between their look and their row.                           *)
LEMMA QuotaStep ==
  ASSUME TypeOK, FilesAreKnown, StartingIsBounded, OverrunIsBounded,
         NEW f \in Files, FileStep(f)
  PROVE  StartingIsBounded' /\ OverrunIsBounded'
<1> USE BoundsType, SetsAreFinite, SetsAreFiniteNext
<1>0. /\ StartingIsBounded <=> Cardinality(StartingFiles) <= AtOnce
      /\ StartingIsBounded' <=> Cardinality(StartingFiles') <= AtOnce
  BY DEF StartingIsBounded, StartingFiles
<1>1. CASE Choose(f)
  <2>1. StartingFiles' = StartingFiles \cup {f} /\ f \notin StartingFiles
    BY <1>1 DEF Choose, UploadStep, Goes, StartingFiles, Starting, TypeOK
  <2>2. InTime' = InTime /\ Admitted' = Admitted
    BY <1>1 DEF Choose, UploadStep, Goes, InTime, Admitted, Counts, TypeOK, rowVars, blobVars
  <2>3. Cardinality(StartingFiles) < AtOnce
    BY <1>1 DEF Choose, StartingFiles
  <2> QED
    BY <1>0, <2>1, <2>2, <2>3, FS_AddElement DEF OverrunIsBounded
<1>2. CASE CountUsage(f) /\ upload'[f] = "reserving"
  <2>1. StartingFiles' = StartingFiles /\ Admitted' \subseteq StartingFiles
    BY <1>2 DEF CountUsage, UploadStep, Goes, StartingFiles, Starting, Admitted, TypeOK
  <2>2. InTime' = InTime
    BY <1>2 DEF CountUsage, UploadStep, Goes, InTime, Counts, rowVars, blobVars
  <2>3. Usage + 1 <= Quota
    <3>1. Usage \in Nat
      BY FilesAreFinite, FS_Subset, FS_CardinalityType DEF Usage
    <3>2. ~(Usage + 1 > Quota)
      BY <1>2 DEF CountUsage, UploadStep, Goes, TypeOK
    <3> QED
      BY <3>1, <3>2
  <2>4. Cardinality(InTime) <= Usage /\ Usage \in Nat
    BY FilesAreFinite, FS_Subset, FS_CardinalityType DEF Usage, InTime
  <2>5. Cardinality(Admitted') <= Cardinality(StartingFiles)
    BY <2>1, FS_Subset
  <2> QED
    BY <1>0, <2>1, <2>2, <2>3, <2>4, <2>5 DEF OverrunIsBounded
<1>3. CASE CountUsage(f) /\ upload'[f] # "reserving"
  <2>1. StartingFiles' \subseteq StartingFiles /\ Admitted' \subseteq Admitted
    BY <1>3 DEF CountUsage, UploadStep, Goes, StartingFiles, Starting, Admitted, TypeOK
  <2>2. InTime' = InTime
    BY <1>3 DEF CountUsage, UploadStep, Goes, InTime, Counts, rowVars, blobVars
  <2> QED
    BY <1>0, <2>1, <2>2, FS_Subset DEF OverrunIsBounded
<1>4. CASE Reserve(f)
  <2>1. f \in Admitted /\ Admitted' = Admitted \ {f} /\ StartingFiles' \subseteq StartingFiles
    BY <1>4 DEF Reserve, UploadStep, Goes, StartingFiles, Starting, Admitted, TypeOK
  <2>2. f \notin InTime /\ InTime' = InTime \cup {f}
    BY <1>4 DEF Reserve, UploadStep, Goes, InTime, Counts, TypeOK, RowType, FilesAreKnown,
       UploadIsKnown, Starting
  <2>3. /\ Cardinality(Admitted') = Cardinality(Admitted) - 1
        /\ Cardinality(InTime') = Cardinality(InTime) + 1
    BY <2>1, <2>2, FS_AddElement, FS_RemoveElement
  <2>4. Cardinality(StartingFiles') <= Cardinality(StartingFiles)
    BY <2>1, FS_Subset
  <2> QED
    BY <1>0, <2>3, <2>4 DEF OverrunIsBounded
<1>5. CASE ~Choose(f) /\ ~CountUsage(f) /\ ~Reserve(f)
  <2>1. /\ StartingFiles' \subseteq StartingFiles
        /\ InTime' \subseteq InTime
        /\ Admitted' \subseteq Admitted
    BY <1>5, NothingIsStarted
  <2> QED
    BY <1>0, <2>1, FS_Subset DEF OverrunIsBounded
<1> QED
  BY <1>1, <1>2, <1>3, <1>4, <1>5

(* Every step preserves the invariant.                                     *)
LEMMA StepPreserves == LibraryInv /\ [Next]_vars => LibraryInv'
<1> SUFFICES ASSUME LibraryInv, [Next]_vars PROVE LibraryInv'
  OBVIOUS
<1>1. TypeOK /\ FilesAreKnown /\ StartingIsBounded /\ OverrunIsBounded
  BY DEF LibraryInv, FilesAreKnown
<1>2. CASE UNCHANGED vars
  BY <1>2 DEF vars, rowVars, blobVars, callVars, LibraryInv, TypeOK, ReadyIsStored,
     MissingIsGone, UploadIsKnown, RemovalIsKnown, NothingLeftLying, StartingIsBounded,
     OverrunIsBounded, Listed, InTime, Admitted, Counts
<1>3. ASSUME NEW f \in Files, FileStep(f)
      PROVE  LibraryInv'
  BY <1>1, <1>3, TypeStep, KnownStep, QuotaStep DEF LibraryInv, FilesAreKnown
<1> QED
  BY <1>2, <1>3 DEF Next, FileStep

(***************************************************************************)
(* The inductive invariant: at each point of an upload, a deletion and an  *)
(* opening the row and the two buckets are where the calls left them, also *)
(* after calls that broke off.  A listed file can be opened.               *)
(***************************************************************************)
THEOREM LibraryHolds == Spec => []LibraryInv
BY InitEstablishes, StepPreserves, PTL DEF Spec

(***************************************************************************)
(* createUpload checks the usage and then inserts the row: the uploads     *)
(* started together overrun the quota by less than their number.           *)
(***************************************************************************)
THEOREM QuotaOverrunIsBounded == Spec => []OverrunIsBounded
<1>1. LibraryInv => OverrunIsBounded
  BY DEF LibraryInv
<1> QED
  BY <1>1, LibraryHolds, PTL

(***************************************************************************)
(* When no call failed, refused and deleted files have left both buckets,  *)
(* and what is in the delivery bucket is listed.                           *)
(***************************************************************************)
THEOREM QuietBucketsMatch == Spec => []BucketsMatchRows
<1>1. LibraryInv => BucketsMatchRows
  BY DEF LibraryInv, BucketsMatchRows, Quiet, Listed, TypeOK, RowType, Bytes, ReadyIsStored,
     UploadIsKnown, RemovalIsKnown, NothingLeftLying, Starting, Uploading, Serving
<1> QED
  BY <1>1, LibraryHolds, PTL

(***************************************************************************)
(* No step of promote, reject, remove, or of the buckets' own, takes away  *)
(* the last copy of an upload that is neither refused nor deleted nor left *)
(* lying: what promote copies is there before the original goes.           *)
(***************************************************************************)
THEOREM LastCopyStays == Spec => LastCopyIsKept
<1>1. LibraryInv /\ [Next]_vars =>
        [\A f \in Files :
             Stored(f) /\ ~Stored(f)' =>
               \/ row[f].status = "rejected" \/ row[f].deleted
               \/ row[f].old \/ f \in gone']_vars
  <2> SUFFICES ASSUME LibraryInv, Next, NEW g \in Files, Stored(g), ~Stored(g)'
               PROVE  \/ row[g].status = "rejected" \/ row[g].deleted
                      \/ row[g].old \/ g \in gone'
    OBVIOUS
  <2> PICK f \in Files : FileStep(f)
    BY DEF Next, FileStep
  <2> USE DEF LibraryInv, TypeOK, RowType, Bytes, Stored, rowVars, blobVars, callVars,
      UploadStep, RemovalStep, OpeningStep
  <2>1. CASE UNCHANGED blobVars
    BY <2>1
  <2>2. CASE Put(f)
    BY <2>2 DEF Put
  <2>3. CASE RejectObject(f)
    BY <2>3 DEF RejectObject, UploadIsKnown
  <2>4. CASE Copy(f)
    BY <2>4 DEF Copy
  <2>5. CASE Drop(f)
    BY <2>5 DEF Drop, UploadIsKnown
  <2>6. CASE RawExpires(f)
    BY <2>6 DEF RawExpires
  <2>7. CASE RemoveObject(f)
    BY <2>7 DEF RemoveObject, RemovalIsKnown
  <2>8. CASE StorageLoses(f)
    BY <2>8 DEF StorageLoses
  <2> QED
    BY <2>1, <2>2, <2>3, <2>4, <2>5, <2>6, <2>7, <2>8
       DEF FileStep, UploadNext, RemovalNext, Choose, CountUsage, Reserve, Cancel, Complete,
           Check, ScanFails, RejectRow, Mark, UploadFails, Remove, RemoveRow, RemoveMaterials,
           RemovalFails, DayPasses, Open, Stream, StreamFails, MarkMissing, LookUp, AddMaterial
<1> QED
  BY <1>1, LibraryHolds, PTL DEF Spec, LastCopyIsKept
=============================================================================
