---------------------------- MODULE FilesProofs ----------------------------
(***************************************************************************)
(* What the rows of file_uploads and the objects in the bucket have to do  *)
(* with each other, for any number of requests, users and files.           *)
(*                                                                         *)
(* None of the three invariants is inductive.  They rest on keys being     *)
(* made once: until the row of a file is committed, the request that       *)
(* uploads it is the only one that knows its key (Uploading); so an object *)
(* that delete_file has removed is not stored again behind its back.       *)
(***************************************************************************)
EXTENDS Files, TLAPS

\* A key that is not made yet is nowhere.
NotMade ==
  \A f \in File : by[f] = "none" => owner[f] = "none" /\ f \notin object /\ f \notin removed

\* A request works for the user who uploaded the file.
ForUploader ==
  \A r \in Req : req[r] # Idle => by[req[r].file] = req[r].user

\* Until the commit of its row, a file is known to its upload alone.
Uploading ==
  \A r \in Req : req[r].pc \in {"put", "commit"} =>
    LET f == req[r].file IN
    /\ owner[f] = "none" /\ f \notin removed
    /\ req[r].pc = "commit" <=> f \in object
    /\ \A s \in Req \ {r} : req[s] # Idle => req[s].file # f

\* Once delete_object has returned the object is gone for good.
ObjectGone ==
  \A r \in Req : req[r].pc = "delete_row" => req[r].file \notin object

\* A row belongs to the uploader, whose account is there.
OwnerIsUploader ==
  \A f \in File : owner[f] # "none" => owner[f] = by[f] /\ owner[f] \in accounts

Inv ==
  /\ TypeOK
  /\ NotMade /\ ForUploader /\ Uploading /\ ObjectGone /\ OwnerIsUploader
  /\ RowHasObject /\ OrphansExplained /\ DeleteRemovesBoth

\* A slot that is not idle works on a file for a user.
LEMMA Working == ASSUME TypeOK, NEW r \in Req, req[r].pc # "idle"
                 PROVE  req[r] \in Busy /\ req[r] # Idle
  BY DEF TypeOK, Busy, Idle

\* At the start there are no files.
LEMMA InvInit == Init => Inv
  BY NoneAssumption DEF Init, Inv, TypeOK, NotMade, ForUploader, Uploading, ObjectGone,
     OwnerIsUploader, RowHasObject, OrphansExplained, DeleteRemovesBoth, Idle, On

\* The steps of the two handlers, their failures and the deletion of an account
\* preserve the invariant.
LEMMA InvNext == Inv /\ [Next]_vars => Inv'
<1> SUFFICES ASSUME Inv, [Next]_vars PROVE Inv'
    OBVIOUS
<1> USE NoneAssumption DEF Inv, Idle
<1>1. ASSUME NEW r \in Req, NEW u \in User, NEW f \in File, UploadStart(r, u, f) PROVE Inv'
  <2>1. TypeOK'
    BY <1>1, Working DEF UploadStart, TypeOK, Busy
  <2>2. Uploading'
    BY <1>1, Working DEF UploadStart, TypeOK, Busy, Uploading, NotMade, ForUploader
  <2>3. OrphansExplained'
    BY <1>1, Working DEF UploadStart, TypeOK, Busy, OrphansExplained, NotMade, On
  <2>4. NotMade' /\ ForUploader' /\ ObjectGone' /\ OwnerIsUploader' /\ RowHasObject'
     /\ DeleteRemovesBoth'
    BY <1>1, Working DEF UploadStart, TypeOK, Busy, NotMade, ForUploader, ObjectGone,
       OwnerIsUploader, RowHasObject, DeleteRemovesBoth, On
  <2> QED BY <2>1, <2>2, <2>3, <2>4
<1>2. ASSUME NEW r \in Req, upload_fileobj(r) PROVE Inv'
  <2>1. TypeOK'
    BY <1>2, Working DEF upload_fileobj, Go, TypeOK, Busy
  <2>2. NotMade'
    BY <1>2, Working DEF upload_fileobj, Go, TypeOK, Busy, NotMade, ForUploader
  <2>3. Uploading'
    BY <1>2, Working DEF upload_fileobj, Go, TypeOK, Busy, Uploading
  <2>4. ObjectGone'
    BY <1>2, Working DEF upload_fileobj, Go, TypeOK, Busy, ObjectGone, Uploading
  <2>5. OrphansExplained'
    BY <1>2, Working DEF upload_fileobj, Go, TypeOK, Busy, OrphansExplained, On
  <2>6. DeleteRemovesBoth'
    BY <1>2, Working DEF upload_fileobj, Go, TypeOK, Busy, DeleteRemovesBoth, Uploading
  <2>7. ForUploader' /\ OwnerIsUploader' /\ RowHasObject'
    BY <1>2, Working DEF upload_fileobj, Go, TypeOK, Busy, ForUploader, OwnerIsUploader,
       RowHasObject, On
  <2> QED BY <2>1, <2>2, <2>3, <2>4, <2>5, <2>6, <2>7
<1>3. ASSUME NEW r \in Req, UploadCommit(r) PROVE Inv'
  <2>1. TypeOK'
    BY <1>3, Working DEF UploadCommit, Go, Done, TypeOK, Busy
  <2>2. NotMade'
    BY <1>3, Working DEF UploadCommit, Go, Done, TypeOK, Busy, NotMade, ForUploader
  <2>3. Uploading'
    BY <1>3, Working DEF UploadCommit, Go, Done, TypeOK, Busy, Uploading
  <2>4. OwnerIsUploader'
    BY <1>3, Working DEF UploadCommit, Go, Done, TypeOK, Busy, OwnerIsUploader,
       ForUploader
  <2>5. RowHasObject'
    BY <1>3, Working DEF UploadCommit, Go, Done, TypeOK, Busy, RowHasObject, Uploading,
       On
  <2>6. OrphansExplained'
    BY <1>3, Working DEF UploadCommit, Go, Done, TypeOK, Busy, OrphansExplained,
       ForUploader, On
  <2>7. DeleteRemovesBoth'
    BY <1>3, Working DEF UploadCommit, Go, Done, TypeOK, Busy, DeleteRemovesBoth,
       Uploading
  <2>8. ForUploader' /\ ObjectGone'
    BY <1>3, Working DEF UploadCommit, Go, Done, TypeOK, Busy, ForUploader, ObjectGone
  <2> QED BY <2>1, <2>2, <2>3, <2>4, <2>5, <2>6, <2>7, <2>8
<1>4. ASSUME NEW r \in Req, UploadRefresh(r) PROVE Inv'
  <2>1. TypeOK'
    BY <1>4, Working DEF UploadRefresh, Done, TypeOK, Busy
  <2>2. NotMade' /\ ForUploader' /\ Uploading' /\ ObjectGone' /\ OwnerIsUploader'
     /\ RowHasObject' /\ OrphansExplained' /\ DeleteRemovesBoth'
    BY <1>4, Working DEF UploadRefresh, Done, TypeOK, Busy, NotMade, ForUploader,
       Uploading, ObjectGone, OwnerIsUploader, RowHasObject, OrphansExplained,
       DeleteRemovesBoth, On
  <2> QED BY <2>1, <2>2
<1>5. ASSUME NEW r \in Req, NEW u \in User, NEW f \in File, DeleteLoad(r, u, f) PROVE Inv'
  <2>1. TypeOK'
    BY <1>5, Working DEF DeleteLoad, TypeOK, Busy
  <2>2. ForUploader'
    BY <1>5, Working DEF DeleteLoad, TypeOK, Busy, ForUploader, OwnerIsUploader
  <2>3. Uploading'
    BY <1>5, Working DEF DeleteLoad, TypeOK, Busy, Uploading
  <2>4. NotMade' /\ ObjectGone' /\ OwnerIsUploader' /\ RowHasObject'
     /\ OrphansExplained' /\ DeleteRemovesBoth'
    BY <1>5, Working DEF DeleteLoad, TypeOK, Busy, NotMade, ObjectGone, OwnerIsUploader,
       RowHasObject, OrphansExplained, DeleteRemovesBoth, On
  <2> QED BY <2>1, <2>2, <2>3, <2>4
<1>6. ASSUME NEW r \in Req, delete_object(r) PROVE Inv'
  <2>1. TypeOK'
    BY <1>6, Working DEF delete_object, Go, TypeOK, Busy
  <2>2. Uploading'
    BY <1>6, Working DEF delete_object, Go, TypeOK, Busy, Uploading
  <2>3. RowHasObject'
    BY <1>6, Working DEF delete_object, Go, TypeOK, Busy, RowHasObject, On
  <2>4. OrphansExplained'
    BY <1>6, Working DEF delete_object, Go, TypeOK, Busy, OrphansExplained, On
  <2>5. NotMade' /\ ForUploader' /\ ObjectGone' /\ OwnerIsUploader'
     /\ DeleteRemovesBoth'
    BY <1>6, Working DEF delete_object, Go, TypeOK, Busy, NotMade, ForUploader,
       ObjectGone, OwnerIsUploader, DeleteRemovesBoth
  <2> QED BY <2>1, <2>2, <2>3, <2>4, <2>5
<1>7. ASSUME NEW r \in Req, DeleteRow(r) PROVE Inv'
  <2>1. TypeOK'
    BY <1>7, Working DEF DeleteRow, Done, TypeOK, Busy
  <2>2. NotMade'
    BY <1>7, Working DEF DeleteRow, Done, TypeOK, Busy, NotMade, ForUploader
  <2>3. Uploading'
    BY <1>7, Working DEF DeleteRow, Done, TypeOK, Busy, Uploading
  <2>4. RowHasObject'
    BY <1>7, Working DEF DeleteRow, Done, TypeOK, Busy, RowHasObject, On
  <2>5. OrphansExplained'
    BY <1>7, Working DEF DeleteRow, Done, TypeOK, Busy, OrphansExplained, ObjectGone, On
  <2>6. DeleteRemovesBoth'
    BY <1>7, Working DEF DeleteRow, Done, TypeOK, Busy, DeleteRemovesBoth, ObjectGone
  <2>7. ForUploader' /\ ObjectGone' /\ OwnerIsUploader'
    BY <1>7, Working DEF DeleteRow, Done, TypeOK, Busy, ForUploader, ObjectGone,
       OwnerIsUploader
  <2> QED BY <2>1, <2>2, <2>3, <2>4, <2>5, <2>6, <2>7
<1>8. ASSUME NEW r \in Req, Fail(r) PROVE Inv'
  <2>1. TypeOK'
    BY <1>8, Working DEF Fail, Done, TypeOK, Busy
  <2>2. RowHasObject'
    BY <1>8, Working DEF Fail, Done, TypeOK, Busy, RowHasObject, On
  <2>3. OrphansExplained'
    BY <1>8, Working DEF Fail, Done, TypeOK, Busy, OrphansExplained, Uploading, On
  <2>4. NotMade' /\ ForUploader' /\ Uploading' /\ ObjectGone' /\ OwnerIsUploader'
     /\ DeleteRemovesBoth'
    BY <1>8, Working DEF Fail, Done, TypeOK, Busy, NotMade, ForUploader, Uploading,
       ObjectGone, OwnerIsUploader, DeleteRemovesBoth
  <2> QED BY <2>1, <2>2, <2>3, <2>4
<1>9. ASSUME NEW u \in User, AccountDeleted(u) PROVE Inv'
  BY <1>9 DEF AccountDeleted, TypeOK, NotMade, ForUploader, Uploading, ObjectGone,
     OwnerIsUploader, RowHasObject, OrphansExplained, DeleteRemovesBoth, On, Busy
<1>10. CASE UNCHANGED vars
  BY <1>10 DEF vars, TypeOK, NotMade, ForUploader, Uploading, ObjectGone,
     OwnerIsUploader, RowHasObject, OrphansExplained, DeleteRemovesBoth, On
<1> QED BY <1>1, <1>2, <1>3, <1>4, <1>5, <1>6, <1>7, <1>8, <1>9, <1>10 DEF Next

\* The invariant holds throughout.
THEOREM Invariance == Spec => []Inv
  BY InvInit, InvNext, PTL DEF Spec

\* The state of the two stores and of the requests stays well formed.
THEOREM TypeCorrect == Spec => []TypeOK
  BY Invariance, PTL DEF Inv

\* A row whose object is missing is one that delete_file is removing, or has
\* failed to remove.
THEOREM RowsHaveObjects == Spec => []RowHasObject
  BY Invariance, PTL DEF Inv

\* An object without a row is about to get one, or was left by a failure or by
\* the deletion of an account.
THEOREM OrphansAreExplained == Spec => []OrphansExplained
  BY Invariance, PTL DEF Inv

\* What delete_file has answered 204 for is gone from the bucket and from the
\* table, and stays so.
THEOREM DeletionIsComplete == Spec => []DeleteRemovesBoth
  BY Invariance, PTL DEF Inv
=============================================================================
