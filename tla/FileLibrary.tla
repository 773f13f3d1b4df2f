---------------------------- MODULE FileLibrary ----------------------------
(***************************************************************************)
(* The files of one person: rows in Postgres, bytes in two buckets.        *)
(*                                                                         *)
(* Sources: files/FileService.js (createUpload, completeUpload, remove,    *)
(* open) and files/FileStore.js; addMaterial of hub/HubExtras.js;          *)
(* uploadFile of apps/web/src/lib/files.js, which makes the calls of an    *)
(* upload once each, and does not retry; the age limit of the raw bucket   *)
(* (infra/media.tf).                                                       *)
(*                                                                         *)
(* Postgres and the storage share no transaction, and no job goes over     *)
(* them afterwards: what a call that broke off leaves behind, stays.  All  *)
(* files have the same size, and the virus scan is on, as in production.   *)
(***************************************************************************)
EXTENDS Naturals, FiniteSets

CONSTANTS
  Files,      \* uploads, each with an id and an object key of its own
  Quota,      \* FILES_QUOTA_MB, in files
  AtOnce,     \* bound: uploads a page starts at once
  MaxFaults   \* bound: calls that fail, objects the storage loses

ASSUME FilesAreFinite == IsFiniteSet(Files)
ASSUME BoundsType     == Quota \in Nat /\ AtOnce \in Nat \ {0} /\ MaxFaults \in Nat

VARIABLES
  row,        \* the files table
  raw,        \* the bucket the browser uploads to: what is there, per file
  delivery,   \* the bucket that is served
  upload,     \* how far each upload is, in the browser and on the server
  removal,    \* how far the deletion of each file is
  opening,    \* how far somebody is who opens the file by a link
  adding,     \* is addMaterial between its look and its INSERT?
  material,   \* is the file a material of a space?
  gone,       \* history: files whose object the storage lost
  faults

rowVars  == <<row, material>>
blobVars == <<raw, delivery>>
callVars == <<upload, removal, opening, adding>>
vars == <<rowVars, blobVars, callVars, gone, faults>>

(* "bad": incomplete, not the announced format, or flagged by the scanner. *)
Bytes == {"none", "good", "bad"}

(* "missing" is 'rejected' with the reason of markMissing.  old: reserved  *)
(* more than a day ago and not ready since.                                *)
RowType == [status : {"none", "pending", "ready", "rejected", "missing"},
            deleted : BOOLEAN, old : BOOLEAN]

Starting  == {"counting", "reserving"}
Uploading == {"reserved", "arrived"}
Serving   == {"checking", "rejecting", "discarding", "copying", "dropping", "marking"}

TypeOK ==
  /\ row \in [Files -> RowType]
  /\ raw \in [Files -> Bytes]
  /\ delivery \in [Files -> Bytes]
  /\ upload \in [Files -> {"idle", "over"} \cup Starting \cup Uploading \cup Serving]
  /\ removal \in [Files -> {"idle", "marking", "materials", "unlinking"}]
  /\ opening \in [Files -> {"idle", "streaming", "missing"}]
  /\ adding \in [Files -> BOOLEAN]
  /\ material \in [Files -> BOOLEAN]
  /\ gone \subseteq Files
  /\ faults \in 0 .. MaxFaults

Init ==
  /\ row = [f \in Files |-> [status |-> "none", deleted |-> FALSE, old |-> FALSE]]
  /\ raw = [f \in Files |-> "none"]
  /\ delivery = [f \in Files |-> "none"]
  /\ upload = [f \in Files |-> "idle"]
  /\ removal = [f \in Files |-> "idle"]
  /\ opening = [f \in Files |-> "idle"]
  /\ adding = [f \in Files |-> FALSE]
  /\ material = [f \in Files |-> FALSE]
  /\ gone = {}
  /\ faults = 0

Listed(f) == row[f].status = "ready" /\ ~row[f].deleted

(* Mutant of Counts: reservations do not count.                            *)
CountsReady(f) == Listed(f)

(* usageOf: ready, or reserved within the day.                             *)
Counts(f) ==
  /\ ~row[f].deleted
  /\ row[f].status = "ready" \/ (row[f].status = "pending" /\ ~row[f].old)

Usage == Cardinality({f \in Files : Counts(f)})

Fault == faults < MaxFaults /\ faults' = faults + 1

-----------------------------------------------------------------------------
(* Uploading                                                               *)

Goes(f, point) == upload' = [upload EXCEPT ![f] = point]

UploadStep(f, from, to) ==
  upload[f] = from /\ Goes(f, to) /\ UNCHANGED <<removal, opening, adding, gone>>

(* FileDrop and the composer start what was chosen together at once.       *)
Choose(f) ==
  /\ Cardinality({g \in Files : upload[g] \in Starting}) < AtOnce
  /\ UploadStep(f, "idle", "counting")
  /\ UNCHANGED <<rowVars, blobVars, faults>>

(* createUpload: the usage ...                                             *)
CountUsage(f) ==
  /\ UploadStep(f, "counting", IF Usage + 1 > Quota THEN "over" ELSE "reserving")
  /\ UNCHANGED <<rowVars, blobVars, faults>>

(* ... and then the row.                                                   *)
Reserve(f) ==
  /\ UploadStep(f, "reserving", "reserved")
  /\ row' = [row EXCEPT ![f].status = "pending"]
  /\ UNCHANGED <<material, blobVars, faults>>

(* The PUT to the signed URL.                                              *)
Put(f) ==
  /\ UploadStep(f, "reserved", "arrived")
  /\ ~row[f].old
  /\ \E b \in {"good", "bad"} : raw' = [raw EXCEPT ![f] = b]
  /\ UNCHANGED <<rowVars, delivery, faults>>

(* The person removes it from the tray, or leaves the page.                *)
Cancel(f) ==
  /\ upload[f] \in Uploading
  /\ UploadStep(f, upload[f], "over")
  /\ UNCHANGED <<rowVars, blobVars, faults>>

(* completeUpload: the row is read ...                                     *)
Complete(f) ==
  /\ UploadStep(f, "arrived", "checking")
  /\ UNCHANGED <<rowVars, blobVars, faults>>

Verdict(f) ==
  CASE raw[f] = "none" -> "over"
    [] raw[f] = "bad"  -> "rejecting"
    [] raw[f] = "good" -> "copying"

(* ... the object is measured, sniffed and scanned.  The signed URL stays  *)
(* valid for UPLOAD_TTL; the page uses it once.                            *)
Check(f) ==
  /\ UploadStep(f, "checking", Verdict(f))
  /\ UNCHANGED <<rowVars, blobVars, faults>>

(* A scanner that does not answer is a reason to refuse.                   *)
ScanFails(f) ==
  /\ Fault
  /\ raw[f] # "none"
  /\ UploadStep(f, "checking", "rejecting")
  /\ UNCHANGED <<rowVars, blobVars>>

(* reject: the row ...                                                     *)
RejectRow(f) ==
  /\ UploadStep(f, "rejecting", "discarding")
  /\ row' = [row EXCEPT ![f].status = "rejected"]
  /\ UNCHANGED <<material, blobVars, faults>>

(* Mutant of RejectObject: the object is left where it is.                 *)
RejectRowOnly(f) ==
  /\ UploadStep(f, "discarding", "over")
  /\ UNCHANGED <<rowVars, blobVars, faults>>

(* ... then the object.                                                    *)
RejectObject(f) ==
  /\ UploadStep(f, "discarding", "over")
  /\ raw' = [raw EXCEPT ![f] = "none"]
  /\ UNCHANGED <<rowVars, delivery, faults>>

(* Mutant of Copy: what is copied is taken out of the raw bucket first,    *)
(* and a copy that fails does not put it back.                             *)
TakeOutFirst(f) ==
  /\ raw[f] # "none"
  /\ raw' = [raw EXCEPT ![f] = "none"]
  /\ \/ UploadStep(f, "copying", "dropping") /\ UNCHANGED faults
        /\ delivery' = [delivery EXCEPT ![f] = raw[f]]
     \/ UploadStep(f, "copying", "over") /\ Fault /\ UNCHANGED delivery
  /\ UNCHANGED rowVars

(* promote: copy first ...                                                 *)
Copy(f) ==
  /\ raw[f] # "none"
  /\ UploadStep(f, "copying", "dropping")
  /\ delivery' = [delivery EXCEPT ![f] = raw[f]]
  /\ UNCHANGED <<rowVars, raw, faults>>

(* ... delete after; a failure of the delete is swallowed.                 *)
Drop(f) ==
  /\ UploadStep(f, "dropping", "marking")
  /\ \/ raw' = [raw EXCEPT ![f] = "none"] /\ UNCHANGED faults
     \/ Fault /\ UNCHANGED raw
  /\ UNCHANGED <<rowVars, delivery>>

(* Mutant of Mark: ready while the object is still being moved.            *)
MarkEarly(f) ==
  /\ upload[f] \in {"copying", "marking"}
  /\ UploadStep(f, upload[f], IF upload[f] = "copying" THEN "copying" ELSE "over")
  /\ row' = [row EXCEPT ![f].status = "ready"]
  /\ UNCHANGED <<material, blobVars, faults>>

Mark(f) ==
  /\ UploadStep(f, "marking", "over")
  /\ row' = [row EXCEPT ![f].status = "ready"]
  /\ UNCHANGED <<material, blobVars, faults>>

(* The call fails at its await, the browser or the process dies; a copy    *)
(* finds nothing to copy.                                                  *)
UploadFails(f) ==
  /\ upload[f] \in Starting \cup Uploading \cup Serving
  /\ UploadStep(f, upload[f], "over")
  /\ IF upload[f] = "copying" /\ raw[f] = "none" THEN UNCHANGED faults ELSE Fault
  /\ UNCHANGED <<rowVars, blobVars>>

UploadNext(f) ==
  \/ Choose(f) \/ CountUsage(f) \/ Reserve(f) \/ Put(f) \/ Cancel(f) \/ Complete(f)
  \/ Check(f) \/ ScanFails(f) \/ RejectRow(f) \/ RejectObject(f)
  \/ Copy(f) \/ Drop(f) \/ Mark(f) \/ UploadFails(f)

-----------------------------------------------------------------------------
(* Time: a day after the reservation, and two days in the raw bucket       *)

DayPasses(f) ==
  /\ row[f].status = "pending"
  /\ ~row[f].old
  /\ row' = [row EXCEPT ![f].old = TRUE]
  /\ UNCHANGED <<material, blobVars, callVars, gone, faults>>

RawExpires(f) ==
  /\ row[f].old
  /\ raw[f] # "none"
  /\ raw' = [raw EXCEPT ![f] = "none"]
  /\ UNCHANGED <<rowVars, delivery, callVars, gone, faults>>

-----------------------------------------------------------------------------
(* Deleting                                                                *)

RemovalStep(f, from, to) ==
  /\ removal[f] = from
  /\ removal' = [removal EXCEPT ![f] = to]
  /\ UNCHANGED <<upload, opening, adding, gone>>

(* remove, ownFile: asked for from a list, where the file was ready.       *)
Remove(f) ==
  /\ row[f].status \in {"ready", "missing"} /\ ~row[f].deleted
  /\ RemovalStep(f, "idle", "marking")
  /\ UNCHANGED <<rowVars, blobVars, faults>>

RemoveRow(f) ==
  /\ RemovalStep(f, "marking", "materials")
  /\ row' = [row EXCEPT ![f].deleted = TRUE]
  /\ UNCHANGED <<material, blobVars, faults>>

(* A failure here is swallowed.                                            *)
RemoveMaterials(f) ==
  /\ RemovalStep(f, "materials", "unlinking")
  /\ \/ material' = [material EXCEPT ![f] = FALSE] /\ UNCHANGED faults
     \/ Fault /\ UNCHANGED material
  /\ UNCHANGED <<row, blobVars>>

RemoveObject(f) ==
  /\ RemovalStep(f, "unlinking", "idle")
  /\ delivery' = [delivery EXCEPT ![f] = "none"]
  /\ UNCHANGED <<rowVars, raw, faults>>

RemovalFails(f) ==
  /\ Fault
  /\ removal[f] # "idle"
  /\ RemovalStep(f, removal[f], "idle")
  /\ UNCHANGED <<rowVars, blobVars>>

RemovalNext(f) ==
  Remove(f) \/ RemoveRow(f) \/ RemoveMaterials(f) \/ RemoveObject(f) \/ RemovalFails(f)

-----------------------------------------------------------------------------
(* Opening, and adding to a space                                          *)

OpeningStep(f, from, to) ==
  /\ opening[f] = from
  /\ opening' = [opening EXCEPT ![f] = to]
  /\ UNCHANGED <<upload, removal, adding>>

(* open: the row ...                                                       *)
Open(f) ==
  /\ Listed(f)
  /\ OpeningStep(f, "idle", "streaming")
  /\ UNCHANGED <<rowVars, blobVars, gone, faults>>

(* ... and the object.                                                     *)
Stream(f) ==
  /\ OpeningStep(f, "streaming", IF delivery[f] = "none" THEN "missing" ELSE "idle")
  /\ UNCHANGED <<rowVars, blobVars, gone, faults>>

(* "The storage answered that the object is not there (as opposed to not   *)
(* answering)".                                                            *)
StreamFails(f) ==
  /\ Fault
  /\ OpeningStep(f, "streaming", "idle")
  /\ UNCHANGED <<rowVars, blobVars, gone>>

MarkMissing(f) ==
  /\ OpeningStep(f, "missing", "idle")
  /\ row' = [row EXCEPT ![f].status = IF @ = "ready" THEN "missing" ELSE @]
  /\ UNCHANGED <<material, blobVars, gone, faults>>

(* "for example after the storage was replaced"                            *)
StorageLoses(f) ==
  /\ Fault
  /\ delivery[f] # "none"
  /\ delivery' = [delivery EXCEPT ![f] = "none"]
  /\ gone' = gone \cup {f}
  /\ UNCHANGED <<rowVars, raw, callVars>>

(* addMaterial: ready and not deleted; then the INSERT.                    *)
LookUp(f) ==
  /\ Listed(f)
  /\ ~adding[f] /\ ~material[f]
  /\ adding' = [adding EXCEPT ![f] = TRUE]
  /\ UNCHANGED <<rowVars, blobVars, upload, removal, opening, gone, faults>>

AddMaterial(f) ==
  /\ adding[f]
  /\ adding' = [adding EXCEPT ![f] = FALSE]
  /\ material' = [material EXCEPT ![f] = TRUE]
  /\ UNCHANGED <<row, blobVars, upload, removal, opening, gone, faults>>

Next ==
  \E f \in Files :
    \/ UploadNext(f) \/ RemovalNext(f)
    \/ DayPasses(f) \/ RawExpires(f) \/ StorageLoses(f)
    \/ Open(f) \/ Stream(f) \/ StreamFails(f) \/ MarkMissing(f)
    \/ LookUp(f) \/ AddMaterial(f)

Spec == Init /\ [][Next]_vars

-----------------------------------------------------------------------------
(* A file of the library can be opened: its bytes are in the delivery      *)
(* bucket and passed the checks, unless the storage lost them (steps of    *)
(* completeUpload and remove, whichever of them fails).                    *)
ReadyIsStored ==
  \A f \in Files : Listed(f) => delivery[f] = "good" \/ f \in gone

(* A file leaves the library as missing only if its bytes are: not because *)
(* the storage did not answer (open, isMissingObject, markMissing).        *)
MissingIsGone == \A f \in Files : row[f].status = "missing" => delivery[f] = "none"

(* "a failed copy loses nothing" (FileStore.js): no step takes away the    *)
(* last copy of an upload that was not refused, deleted, or left lying.    *)
Stored(f) == raw[f] # "none" \/ delivery[f] # "none"
LastCopyIsKept ==
  [][\A f \in Files :
       Stored(f) /\ ~Stored(f)' =>
         \/ row[f].status = "rejected" \/ row[f].deleted
         \/ row[f].old \/ f \in gone']_vars

(* When nothing failed, the buckets hold what the rows say once every call *)
(* has ended: a refused or deleted file has no bytes anywhere.             *)
Quiet(f) ==
  upload[f] \in {"idle", "over"} /\ removal[f] = "idle"
BucketsMatchRows ==
  faults = 0 => \A f \in Files : Quiet(f) =>
    /\ delivery[f] # "none" <=> Listed(f)
    /\ raw[f] # "none" => row[f].status = "pending"

(* The quota is exceeded by no more than the uploads that were started     *)
(* together: each of them may have counted before the others reserved.     *)
(* Uploads completed later than a day after their reservation come on top, *)
(* for they stopped counting meanwhile.                                    *)
InTime   == {f \in Files : Counts(f) /\ ~row[f].old}
Admitted == {f \in Files : upload[f] = "reserving"}
OverrunIsBounded ==
  Cardinality(InTime) + Cardinality(Admitted) < Quota + AtOnce

-----------------------------------------------------------------------------
(* What row and buckets hold at each point of an upload; a row is ready    *)
(* after its copy, and the calls of an upload are over by then.            *)
UploadIsKnown ==
  \A f \in Files :
    /\ upload[f] \in {"idle"} \cup Starting =>
         row[f].status = "none" /\ ~row[f].deleted /\ ~row[f].old /\ raw[f] = "none"
    /\ upload[f] \in Uploading \cup (Serving \ {"discarding"}) => row[f].status = "pending"
    /\ upload[f] = "reserved" => raw[f] = "none"
    /\ upload[f] = "copying" => raw[f] # "bad"
    /\ upload[f] = "discarding" => row[f].status = "rejected"
    /\ upload[f] \in {"dropping", "marking"} => delivery[f] = "good" \/ f \in gone
    /\ upload[f] \notin {"dropping", "marking", "over"} => delivery[f] = "none"

(* Whatever is deleted, or opened, has been ready, and the row goes first. *)
RemovalIsKnown ==
  \A f \in Files :
    /\ removal[f] # "idle" \/ opening[f] # "idle" \/ row[f].deleted =>
         row[f].status \in {"ready", "missing"}
    /\ removal[f] \in {"materials", "unlinking"} => row[f].deleted
    /\ opening[f] = "missing" => delivery[f] = "none"

(* As long as nothing failed: what is still to be taken out of a bucket is *)
(* on somebody's way, and only a deleted file is found missing.            *)
NothingLeftLying ==
  faults = 0 => \A f \in Files :
    /\ f \notin gone
    /\ upload[f] = "marking" => raw[f] = "none"
    /\ upload[f] = "over" /\ raw[f] # "none" => row[f].status = "pending"
    /\ upload[f] = "over" /\ delivery[f] # "none" => row[f].status = "ready"
    /\ row[f].deleted /\ removal[f] \in {"idle", "marking"} => delivery[f] = "none"
    /\ row[f].status = "missing" \/ opening[f] = "missing" => row[f].deleted

StartingIsBounded == Cardinality({f \in Files : upload[f] \in Starting}) <= AtOnce

(* The inductive invariant.                                                *)
LibraryInv ==
  /\ TypeOK
  /\ ReadyIsStored
  /\ MissingIsGone
  /\ UploadIsKnown
  /\ RemovalIsKnown
  /\ NothingLeftLying
  /\ StartingIsBounded
  /\ OverrunIsBounded

-----------------------------------------------------------------------------
(* What comments say, and the code does not keep.                          *)

(* "Limits: ... FILES_QUOTA_MB (default 2048) per person" (FileService.js).*)
QuotaIsKept == Usage <= Quota

(* "Deleting a file also removes it from every space it was a material in" *)
(* (FileService.js).                                                       *)
DeletedIsNoMaterial ==
  faults = 0 => \A f \in Files : Quiet(f) /\ row[f].deleted /\ ~adding[f] => ~material[f]

(* "Anything else is deleted" (FileService.js): also when a call fails,    *)
(* what is neither ready nor waiting leaves the buckets.                   *)
NothingElseIsKept ==
  \A f \in Files : Quiet(f) /\ delivery[f] # "none" => Listed(f)
=============================================================================
