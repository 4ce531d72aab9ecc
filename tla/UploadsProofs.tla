------------------------------ MODULE UploadsProofs -----------------------------
(***************************************************************************)
(* Proofs about Uploads, for any requests, tokens and rows.                *)
(*                                                                         *)
(* The inductive invariant says whose a file is and where its token went:  *)
(* who writes a presigned file took its token (TokenTaken), a token that   *)
(* is no longer pending was taken by someone or forgotten (TokenAccounted),*)
(* and what a request finished is whole and is all that is ever shown      *)
(* (FinishedWhole, ShownFinished).                                         *)
(***************************************************************************)
EXTENDS Uploads, TLAPS

\* Which file a request is about.
FileOfRequest == \A r \in Requests :
  /\ pc[r] = "body" => IsPut(r)
  /\ pc[r] = "row" => file[r] = r
  /\ pc[r] \in {"open", "write", "done"} => file[r] # NoFile
  /\ file[r] \in Requests => file[r] = r
  /\ IsPut(r) => file[r] \in issued

TokenTaken == \A r \in Requests :
  IsPut(r) /\ pc[r] \in {"open", "write", "done", "gone", "dead"} => file[r] \notin pending

TokenAccounted == \A t \in issued \ pending :
  \/ t \in forgotten
  \/ \E q \in Requests : file[q] = t /\ pc[q] \in {"open", "write", "done", "dead"}

FinishedWhole == \A r \in Requests : pc[r] \in {"row", "done"} => disk[file[r]] = "whole"

ShownFinished ==
  /\ \A s \in Slots : url[s] # NoFile =>
       url[s] \in Requests /\ pc[url[s]] = "done" /\ file[url[s]] = url[s]
  /\ \A t \in posted : \E q \in Requests : file[q] = t /\ pc[q] = "done"

GoneIsPut == \A r \in Requests : pc[r] = "gone" => IsPut(r)

Stores(r) == SaveLogo(r) \/ SaveVehiclePhoto(r) \/ SaveSidePhoto(r)

LEMMA InitTyped == Init => TypeOK
  BY DEF Init, TypeOK, Files

LEMMA TypeStep == TypeOK /\ [Next]_vars => TypeOK'
<1> SUFFICES ASSUME TypeOK, [Next]_vars PROVE TypeOK'
  OBVIOUS
<1> USE DEF TypeOK, Goto, Files
<1>1. ASSUME NEW t \in Tokens, Presign(t) PROVE TypeOK'
  BY <1>1 DEF Presign
<1>2. CASE Restart
  BY <1>2 DEF Restart
<1>3. ASSUME NEW r \in Requests, NEW t \in Tokens, Put(r, t) PROVE TypeOK'
  BY <1>3 DEF Put
<1>4. ASSUME NEW r \in Requests, BodyRefused(r) \/ Consume(r) \/ Save(r) \/ Fails(r) PROVE TypeOK'
  BY <1>4 DEF BodyRefused, Consume, Save, Fails
<1>5. ASSUME NEW r \in Requests, Open(r) \/ Write(r) PROVE TypeOK'
  BY <1>5 DEF Open, Write
<1>6. ASSUME NEW r \in Requests, Stores(r) PROVE TypeOK'
  BY <1>6 DEF Stores, SaveLogo, SaveVehiclePhoto, SaveSidePhoto, StoreUrl
<1>7. ASSUME NEW r \in Requests, PostPhoto(r) PROVE TypeOK'
  BY <1>7 DEF PostPhoto, IsPut
<1>8. CASE UNCHANGED vars
  BY <1>8 DEF vars
<1> QED
  BY <1>1, <1>2, <1>3, <1>4, <1>5, <1>6, <1>7, <1>8 DEF Next, Step, Stores

(***************************************************************************)
(* Tokens, files, rows and requests keep their types.                      *)
(***************************************************************************)
THEOREM TypeCorrect == Spec => []TypeOK
  BY InitTyped, TypeStep, PTL DEF Spec

--------------------------------------------------------------------------------
(* One writer per presigned file.                                            *)

LEMMA FilesStep == TypeOK /\ FileOfRequest /\ [Next]_vars => FileOfRequest'
<1> SUFFICES ASSUME TypeOK, FileOfRequest, [Next]_vars PROVE FileOfRequest'
  OBVIOUS
<1> USE NamesAssumption DEF TypeOK, FileOfRequest, IsPut, Goto, Files
<1>1. ASSUME NEW t \in Tokens, Presign(t) PROVE FileOfRequest'
  BY <1>1 DEF Presign
<1>2. CASE Restart
  BY <1>2 DEF Restart
<1>3. ASSUME NEW r \in Requests, NEW t \in Tokens, Put(r, t) PROVE FileOfRequest'
  BY <1>3 DEF Put
<1>4. ASSUME NEW r \in Requests, BodyRefused(r) \/ Consume(r) \/ Save(r) \/ Fails(r)
      PROVE  FileOfRequest'
  BY <1>4 DEF BodyRefused, Consume, Save, Fails
<1>5. ASSUME NEW r \in Requests, Open(r) \/ Write(r) PROVE FileOfRequest'
  BY <1>5 DEF Open, Write
<1>6. ASSUME NEW r \in Requests, Stores(r) \/ PostPhoto(r) PROVE FileOfRequest'
  BY <1>6 DEF Stores, SaveLogo, SaveVehiclePhoto, SaveSidePhoto, StoreUrl, PostPhoto
<1>7. CASE UNCHANGED vars
  BY <1>7 DEF vars
<1> QED
  BY <1>1, <1>2, <1>3, <1>4, <1>5, <1>6, <1>7 DEF Next, Step, Stores

Taken == TokenTaken /\ OneWriter

LEMMA TakenStep == TypeOK /\ FileOfRequest /\ Taken /\ [Next]_vars => Taken'
<1> SUFFICES ASSUME TypeOK, FileOfRequest, TokenTaken, OneWriter, [Next]_vars
             PROVE  TokenTaken' /\ OneWriter'
  BY DEF Taken
<1> USE NamesAssumption DEF TypeOK, FileOfRequest, TokenTaken, OneWriter, IsPut, Goto, Files
<1>1. ASSUME NEW t \in Tokens, Presign(t) PROVE TokenTaken' /\ OneWriter'
  BY <1>1 DEF Presign
<1>2. CASE Restart
  BY <1>2 DEF Restart
<1>3. ASSUME NEW r \in Requests, NEW t \in Tokens, Put(r, t) PROVE TokenTaken' /\ OneWriter'
  BY <1>3 DEF Put
<1>4. ASSUME NEW r \in Requests, Consume(r) PROVE TokenTaken' /\ OneWriter'
  BY <1>4 DEF Consume
<1>5. ASSUME NEW r \in Requests, BodyRefused(r) \/ Save(r) \/ Fails(r)
      PROVE  TokenTaken' /\ OneWriter'
  BY <1>5 DEF BodyRefused, Save, Fails
<1>6. ASSUME NEW r \in Requests, Open(r) \/ Write(r) PROVE TokenTaken' /\ OneWriter'
  BY <1>6 DEF Open, Write
<1>7. ASSUME NEW r \in Requests, Stores(r) \/ PostPhoto(r) PROVE TokenTaken' /\ OneWriter'
  BY <1>7 DEF Stores, SaveLogo, SaveVehiclePhoto, SaveSidePhoto, StoreUrl, PostPhoto
<1>8. CASE UNCHANGED vars
  BY <1>8 DEF vars
<1> QED
  BY <1>1, <1>2, <1>3, <1>4, <1>5, <1>6, <1>7, <1>8 DEF Next, Step, Stores

WritersInv == TypeOK /\ FileOfRequest /\ Taken

LEMMA AlwaysTaken == Spec => []WritersInv
<1>1. Init => WritersInv
  BY InitTyped, NamesAssumption
     DEF Init, WritersInv, FileOfRequest, Taken, TokenTaken, OneWriter, IsPut
<1>2. WritersInv /\ [Next]_vars => WritersInv'
  BY TypeStep, FilesStep, TakenStep DEF WritersInv
<1> QED
  BY <1>1, <1>2, PTL DEF Spec

(***************************************************************************)
(* Of all PUTs to one URL at most one writes its file.                     *)
(***************************************************************************)
THEOREM OnePutWrites == Spec => []OneWriter
<1>1. WritersInv => OneWriter
  BY DEF WritersInv, Taken
<1> QED
  BY AlwaysTaken, <1>1, PTL

--------------------------------------------------------------------------------
(* Shown files are whole.                                                    *)

Shown == FinishedWhole /\ ShownFinished

LEMMA ShownStep == WritersInv /\ Shown /\ [Next]_vars => Shown'
<1> SUFFICES ASSUME TypeOK, FileOfRequest, OneWriter, FinishedWhole, ShownFinished, [Next]_vars
             PROVE  FinishedWhole' /\ ShownFinished'
  BY DEF WritersInv, Taken, Shown
<1> USE NamesAssumption DEF TypeOK, FileOfRequest, FinishedWhole, ShownFinished, IsPut, Goto, Files
<1>1. ASSUME NEW t \in Tokens, Presign(t) PROVE FinishedWhole' /\ ShownFinished'
  BY <1>1 DEF Presign
<1>2. CASE Restart
  BY <1>2 DEF Restart
<1>3. ASSUME NEW r \in Requests, NEW t \in Tokens, Put(r, t)
      PROVE  FinishedWhole' /\ ShownFinished'
  BY <1>3 DEF Put
<1>4. ASSUME NEW r \in Requests, BodyRefused(r) \/ Consume(r) \/ Save(r) \/ Fails(r)
      PROVE  FinishedWhole' /\ ShownFinished'
  BY <1>4 DEF BodyRefused, Consume, Save, Fails
<1>5. ASSUME NEW r \in Requests, Open(r) \/ Write(r) PROVE FinishedWhole' /\ ShownFinished'
  <2>1. \A q \in Requests \ {r} : pc[q] \in {"row", "done"} => file[q] # file[r]
    BY <1>5 DEF Open, Write, OneWriter
  <2>2. FinishedWhole'
    BY <1>5, <2>1 DEF Open, Write
  <2>3. ShownFinished'
    BY <1>5 DEF Open, Write
  <2> QED
    BY <2>2, <2>3
<1>6. ASSUME NEW r \in Requests, Stores(r) PROVE FinishedWhole' /\ ShownFinished'
  BY <1>6 DEF Stores, SaveLogo, SaveVehiclePhoto, SaveSidePhoto, StoreUrl
<1>7. ASSUME NEW r \in Requests, PostPhoto(r) PROVE FinishedWhole' /\ ShownFinished'
  BY <1>7 DEF PostPhoto
<1>8. CASE UNCHANGED vars
  BY <1>8 DEF vars
<1> QED
  BY <1>1, <1>2, <1>3, <1>4, <1>5, <1>6, <1>7, <1>8 DEF Next, Step, Stores

(***************************************************************************)
(* A file that a row or a posted photo names is whole.                     *)
(***************************************************************************)
THEOREM ShownFilesWhole == Spec => []ShownIsWhole
<1>1. Init => Shown
  BY DEF Init, Shown, FinishedWhole, ShownFinished
<1>2. Shown => ShownIsWhole
  BY DEF Shown, FinishedWhole, ShownFinished, ShownIsWhole
<1> QED
  BY AlwaysTaken, ShownStep, <1>1, <1>2, PTL DEF Spec

--------------------------------------------------------------------------------
(* A URL that is gone was spent.                                             *)

Accounted == TokenAccounted /\ GoneIsPut

LEMMA AccountedStep == WritersInv /\ Accounted /\ [Next]_vars => Accounted'
<1> SUFFICES ASSUME TypeOK, FileOfRequest, TokenAccounted, GoneIsPut, [Next]_vars
             PROVE  TokenAccounted' /\ GoneIsPut'
  BY DEF WritersInv, Accounted
<1> USE NamesAssumption DEF TypeOK, FileOfRequest, TokenAccounted, GoneIsPut, IsPut, Goto, Files
<1>1. ASSUME NEW t \in Tokens, Presign(t) PROVE TokenAccounted' /\ GoneIsPut'
  BY <1>1 DEF Presign
<1>2. CASE Restart
  BY <1>2 DEF Restart
<1>3. ASSUME NEW r \in Requests, NEW t \in Tokens, Put(r, t)
      PROVE  TokenAccounted' /\ GoneIsPut'
  BY <1>3 DEF Put
<1>4. ASSUME NEW r \in Requests, Consume(r) PROVE TokenAccounted' /\ GoneIsPut'
  BY <1>4 DEF Consume
<1>5. ASSUME NEW r \in Requests, BodyRefused(r) \/ Save(r) \/ Fails(r)
      PROVE  TokenAccounted' /\ GoneIsPut'
  BY <1>5 DEF BodyRefused, Save, Fails
<1>6. ASSUME NEW r \in Requests, Open(r) \/ Write(r) PROVE TokenAccounted' /\ GoneIsPut'
  BY <1>6 DEF Open, Write
<1>7. ASSUME NEW r \in Requests, Stores(r) \/ PostPhoto(r)
      PROVE  TokenAccounted' /\ GoneIsPut'
  BY <1>7 DEF Stores, SaveLogo, SaveVehiclePhoto, SaveSidePhoto, StoreUrl, PostPhoto
<1>8. CASE UNCHANGED vars
  BY <1>8 DEF vars
<1> QED
  BY <1>1, <1>2, <1>3, <1>4, <1>5, <1>6, <1>7, <1>8 DEF Next, Step, Stores

(***************************************************************************)
(* A PUT is told that its URL is gone only if the token was spent by       *)
(* another PUT or forgotten by a restart.                                  *)
(***************************************************************************)
THEOREM GoneUrlsSpent == Spec => []GoneMeansSpent
<1>1. Init => Accounted
  BY DEF Init, Accounted, TokenAccounted, GoneIsPut
<1>2. WritersInv /\ Accounted => GoneMeansSpent
  BY DEF WritersInv, Taken, TokenTaken, FileOfRequest, Accounted, TokenAccounted, GoneIsPut,
         GoneMeansSpent
<1> QED
  BY AlwaysTaken, AccountedStep, <1>1, <1>2, PTL DEF Spec

================================================================================
