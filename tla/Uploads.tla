---------------------------------- MODULE Uploads -------------------------------
(***************************************************************************)
(* Files on local disk (no S3_BUCKET): storage.service.ts behind           *)
(* uploads.controller.ts, and the handlers that save a photo or a logo and *)
(* then store its URL in a row.                                            *)
(*                                                                         *)
(* File names are fresh UUIDs: a presigned file is named after its token,  *)
(* a saved one after its request.  writeFile first opens an empty file, so *)
(* a file is partial until it is whole.                                    *)
(***************************************************************************)
EXTENDS Integers

CONSTANTS
  Requests,  \* PUTs of bytes and multipart saves
  Tokens,    \* what presignUpload hands out
  Logos, VehiclePhotos, SidePhotos,  \* rows with a URL, the last per job and side
  NoFile

ASSUME NamesAssumption == Requests \cap Tokens = {} /\ NoFile \notin Requests \cup Tokens

Files == Tokens \cup Requests
Slots == Logos \cup VehiclePhotos \cup SidePhotos

VARIABLES
  pending,  \* StorageService.pending, in memory
  disk,     \* uploads/
  url,      \* the file each row names
  posted,   \* tokens whose fileUrl is in a PHOTO event
  pc, file, \* where each request stands, the file it is about
  slot,     \* the row a save is for
  issued, forgotten  \* history: tokens handed out, tokens a restart forgot

vars == <<pending, disk, url, posted, pc, file, slot, issued, forgotten>>

TypeOK ==
  /\ pending \subseteq Tokens /\ posted \subseteq Tokens
  /\ issued \subseteq Tokens /\ forgotten \subseteq Tokens
  /\ disk \in [Files -> {"none", "partial", "whole"}]
  /\ url  \in [Slots -> Files \cup {NoFile}]
  /\ pc   \in [Requests -> {"idle", "body", "open", "write", "row", "done", "gone", "refused", "dead"}]
  /\ file \in [Requests -> Files \cup {NoFile}]
  /\ slot \in [Requests -> Slots]

Init ==
  /\ pending = {} /\ posted = {} /\ issued = {} /\ forgotten = {}
  /\ disk = [f \in Files |-> "none"]
  /\ url  = [s \in Slots |-> NoFile]
  /\ pc   = [r \in Requests |-> "idle"]
  /\ file = [r \in Requests |-> NoFile]
  /\ slot \in [Requests -> Slots]

Goto(r, step) == pc' = [pc EXCEPT ![r] = step]
IsPut(r)      == file[r] \in Tokens

--------------------------------------------------------------------------------
(* createPresignedUpload, and the PUT that consumes its token                *)

Presign(t) ==
  /\ t \notin issued
  /\ pending' = pending \cup {t}
  /\ issued'  = issued \cup {t}
  /\ UNCHANGED <<disk, url, posted, pc, file, slot, forgotten>>

\* Variant: the token is taken before the body is read.
PutTakesToken(r, t) ==
  /\ pc[r] = "idle" /\ t \in issued
  /\ file' = [file EXCEPT ![r] = t]
  /\ pending' = pending \ {t}
  /\ Goto(r, "body")
  /\ UNCHANGED <<disk, url, posted, slot, issued, forgotten>>

Put(r, t) ==
  /\ pc[r] = "idle" /\ t \in issued
  /\ file' = [file EXCEPT ![r] = t]
  /\ Goto(r, "body")
  /\ UNCHANGED <<pending, disk, url, posted, slot, issued, forgotten>>

\* readBody: over 25 MB, or a broken connection
BodyRefused(r) ==
  /\ pc[r] = "body"
  /\ Goto(r, "refused")
  /\ UNCHANGED <<pending, disk, url, posted, file, slot, issued, forgotten>>

\* Variant: the token is deleted once the file is written.
ConsumeLater(r) ==
  /\ pc[r] = "body"
  /\ Goto(r, IF file[r] \in pending THEN "open" ELSE "gone")
  /\ UNCHANGED <<pending, disk, url, posted, file, slot, issued, forgotten>>

\* consumePresigned takes the token without awaiting anything.
Consume(r) ==
  /\ pc[r] = "body"
  /\ Goto(r, IF file[r] \in pending THEN "open" ELSE "gone")
  /\ pending' = pending \ {file[r]}
  /\ UNCHANGED <<disk, url, posted, file, slot, issued, forgotten>>

--------------------------------------------------------------------------------
(* save(), and the row                                                       *)

Save(r) ==
  /\ pc[r] = "idle"
  /\ file' = [file EXCEPT ![r] = r]
  /\ Goto(r, "open")
  /\ UNCHANGED <<pending, disk, url, posted, slot, issued, forgotten>>

\* Variant: writeFile is not awaited.
OpenAndGoOn(r) ==
  /\ pc[r] = "open"
  /\ disk' = [disk EXCEPT ![file[r]] = "partial"]
  /\ Goto(r, IF IsPut(r) THEN "done" ELSE "row")
  /\ UNCHANGED <<pending, url, posted, file, slot, issued, forgotten>>

Open(r) ==
  /\ pc[r] = "open"
  /\ disk' = [disk EXCEPT ![file[r]] = "partial"]
  /\ Goto(r, "write")
  /\ UNCHANGED <<pending, url, posted, file, slot, issued, forgotten>>

Write(r) ==
  /\ pc[r] = "write"
  /\ disk' = [disk EXCEPT ![file[r]] = "whole"]
  /\ Goto(r, IF IsPut(r) THEN "done" ELSE "row")
  /\ UNCHANGED <<pending, url, posted, file, slot, issued, forgotten>>

Fails(r) ==
  /\ pc[r] \in {"open", "write", "row"}
  /\ Goto(r, "dead")
  /\ UNCHANGED <<pending, disk, url, posted, file, slot, issued, forgotten>>

StoreUrl(r, rows) ==
  /\ pc[r] = "row" /\ slot[r] \in rows
  /\ url' = [url EXCEPT ![slot[r]] = file[r]]
  /\ Goto(r, "done")
  /\ UNCHANGED <<pending, disk, posted, file, slot, issued, forgotten>>

\* An update, or for a side of a job an upsert: nothing is asked of the row but
\* that its workshop, vehicle or job was there before the file was saved.
SaveLogo(r)         == StoreUrl(r, Logos)
SaveVehiclePhoto(r) == StoreUrl(r, VehiclePhotos)
SaveSidePhoto(r)    == StoreUrl(r, SidePhotos)

\* The client of an answered PUT posts the PHOTO event with its fileUrl.
PostPhoto(r) ==
  /\ pc[r] = "done" /\ IsPut(r)
  /\ posted' = posted \cup {file[r]}
  /\ UNCHANGED <<pending, disk, url, pc, file, slot, issued, forgotten>>

Restart ==
  /\ forgotten' = forgotten \cup pending
  /\ pending'   = {}
  /\ pc' = [r \in Requests |-> IF pc[r] \in {"body", "open", "write", "row"} THEN "dead" ELSE pc[r]]
  /\ UNCHANGED <<disk, url, posted, file, slot, issued>>

Step(r) ==
  \/ \E t \in Tokens : Put(r, t)
  \/ BodyRefused(r) \/ Consume(r) \/ Save(r) \/ Open(r) \/ Write(r)
  \/ Fails(r) \/ SaveLogo(r) \/ SaveVehiclePhoto(r) \/ SaveSidePhoto(r) \/ PostPhoto(r)

Next == Restart \/ (\E t \in Tokens : Presign(t)) \/ (\E r \in Requests : Step(r))
Spec == Init /\ [][Next]_vars

--------------------------------------------------------------------------------
(***************************************************************************)
(* What the app is shown is there: the file behind a row's URL or a posted *)
(* photo is whole, whatever failed, restarted or was replaced meanwhile.   *)
(***************************************************************************)
ShownIsWhole ==
  /\ \A s \in Slots : url[s] # NoFile => disk[url[s]] = "whole"
  /\ \A t \in posted : disk[t] = "whole"

(***************************************************************************)
(* consumePresigned: "one-time": of all PUTs to one URL, also when they    *)
(* overlap, at most one gets to write the file.                            *)
(***************************************************************************)
OneWriter == \A q, r \in Requests :
  /\ IsPut(q) /\ file[q] = file[r]
  /\ pc[q] \in {"open", "write", "done"} /\ pc[r] \in {"open", "write", "done"}
  => q = r

(***************************************************************************)
(* "Upload token is invalid or already used": a PUT to a URL handed out is *)
(* only told so if another PUT got as far as writing or dying, or the      *)
(* process restarted; a body that was refused leaves the URL usable.       *)
(***************************************************************************)
GoneMeansSpent == \A r \in Requests :
  pc[r] = "gone" =>
    \/ file[r] \in forgotten
    \/ \E q \in Requests \ {r} : file[q] = file[r] /\ pc[q] \in {"open", "write", "done", "dead"}

================================================================================
