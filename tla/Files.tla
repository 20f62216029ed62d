-------------------------------- MODULE Files --------------------------------
(***************************************************************************)
(* Uploaded files: an object in S3 and a row in file_uploads for each      *)
(* (api/files.py, services/storage.py, models/file_upload.py).  No         *)
(* transaction spans the two, so a step is one S3 call or one commit, and  *)
(* requests interleave and fail between them.                              *)
(*                                                                         *)
(* The checks of an upload are the subject of module FileValidation; one   *)
(* that is refused, or finds no storage configured, changes nothing and is *)
(* not a step.  S3 is external: put and delete take effect as a whole.     *)
(***************************************************************************)

CONSTANTS
  Req,          \* request slots
  User,
  File          \* keys of build_object_key (uuid4), never used twice; also
                \* names the row with that storage_key

ASSUME NoneAssumption == "none" \notin User

VARIABLES
  accounts,     \* users that have a row in table users
  object,       \* objects in the bucket
  owner,        \* file_uploads: user_id of the row of each file
  req,          \* what each request slot is doing
  (* history *)
  by,           \* who uploaded a file; "none": its key is not made yet
  removed,      \* files delete_file has answered 204 for
  cut           \* files whose upload or deletion failed between the two stores

vars == <<accounts, object, owner, req, by, removed, cut>>

Idle == [pc |-> "idle"]

Busy == [pc : {"put", "commit", "refresh", "delete_object", "delete_row"},
         user : User, file : File]

Go(r, pc) == req' = [req EXCEPT ![r].pc = pc]

Done(r) == req' = [req EXCEPT ![r] = Idle]

-----------------------------------------------------------------------------
(* upload_file *)

\* Mutated form: the row is committed and the object not stored.
UploadStart_NoPut(r, u, f) ==
  /\ req[r] = Idle /\ u \in accounts /\ by[f] = "none"
  /\ by' = [by EXCEPT ![f] = u]
  /\ req' = [req EXCEPT ![r] = [pc |-> "commit", user |-> u, file |-> f]]
  /\ UNCHANGED <<accounts, object, owner, removed, cut>>

\* The user is authenticated, the file validated, the key made.
UploadStart(r, u, f) ==
  /\ req[r] = Idle /\ u \in accounts /\ by[f] = "none"
  /\ by' = [by EXCEPT ![f] = u]
  /\ req' = [req EXCEPT ![r] = [pc |-> "put", user |-> u, file |-> f]]
  /\ UNCHANGED <<accounts, object, owner, removed, cut>>

upload_fileobj(r) ==
  /\ req[r].pc = "put"
  /\ object' = object \cup {req[r].file}
  /\ Go(r, "commit")
  /\ UNCHANGED <<accounts, owner, by, removed, cut>>

\* The INSERT fails if the account has gone meanwhile (foreign key).
UploadCommit(r) ==
  /\ req[r].pc = "commit"
  /\ IF req[r].user \in accounts
     THEN owner' = [owner EXCEPT ![req[r].file] = req[r].user] /\ Go(r, "refresh")
     ELSE Done(r) /\ UNCHANGED owner
  /\ UNCHANGED <<accounts, object, by, removed, cut>>

\* The row is read again for the answer.
UploadRefresh(r) ==
  /\ req[r].pc = "refresh"
  /\ Done(r)
  /\ UNCHANGED <<accounts, object, owner, by, removed, cut>>

-----------------------------------------------------------------------------
(* delete_file *)

DeleteLoad(r, u, f) ==
  /\ req[r] = Idle /\ u \in accounts /\ owner[f] = u
  /\ req' = [req EXCEPT ![r] = [pc |-> "delete_object", user |-> u, file |-> f]]
  /\ UNCHANGED <<accounts, object, owner, by, removed, cut>>

\* Mutated form: the object stays.
delete_object_Kept(r) ==
  /\ req[r].pc = "delete_object"
  /\ Go(r, "delete_row")
  /\ UNCHANGED <<accounts, object, owner, by, removed, cut>>

\* S3 does not mind an object that is not there.
delete_object(r) ==
  /\ req[r].pc = "delete_object"
  /\ object' = object \ {req[r].file}
  /\ Go(r, "delete_row")
  /\ UNCHANGED <<accounts, owner, by, removed, cut>>

\* Mutated form: the session is closed without a commit.
DeleteRow_NoCommit(r) ==
  /\ req[r].pc = "delete_row"
  /\ removed' = removed \cup {req[r].file}
  /\ Done(r)
  /\ UNCHANGED <<accounts, object, owner, by, cut>>

\* The DELETE may match no row: another request was faster.
DeleteRow(r) ==
  /\ req[r].pc = "delete_row"
  /\ owner' = [owner EXCEPT ![req[r].file] = "none"]
  /\ removed' = removed \cup {req[r].file}
  /\ Done(r)
  /\ UNCHANGED <<accounts, object, by, cut>>

-----------------------------------------------------------------------------

\* S3 or the database fails, or the worker dies.  Before its first store is
\* touched, and after the second, a request leaves nothing half done.
Fail(r) ==
  /\ req[r] # Idle
  /\ cut' = IF req[r].pc \in {"commit", "delete_row"} THEN cut \cup {req[r].file} ELSE cut
  /\ Done(r)
  /\ UNCHANGED <<accounts, object, owner, by, removed>>

\* The cleanup deletes an account: its rows go too (ON DELETE CASCADE), and
\* nobody deletes the objects.
AccountDeleted(u) ==
  /\ u \in accounts
  /\ accounts' = accounts \ {u}
  /\ owner' = [f \in File |-> IF owner[f] = u THEN "none" ELSE owner[f]]
  /\ UNCHANGED <<object, req, by, removed, cut>>

Init ==
  /\ accounts = User /\ object = {}
  /\ owner = [f \in File |-> "none"] /\ by = [f \in File |-> "none"]
  /\ req = [r \in Req |-> Idle]
  /\ removed = {} /\ cut = {}

Next ==
  \/ \E r \in Req :
       \/ \E u \in User, f \in File : UploadStart(r, u, f) \/ DeleteLoad(r, u, f)
       \/ upload_fileobj(r) \/ UploadCommit(r) \/ UploadRefresh(r)
       \/ delete_object(r) \/ DeleteRow(r)
       \/ Fail(r)
  \/ \E u \in User : AccountDeleted(u)

Spec == Init /\ [][Next]_vars

-----------------------------------------------------------------------------
(* Properties *)

TypeOK ==
  /\ accounts \in SUBSET User /\ object \in SUBSET File
  /\ owner \in [File -> User \cup {"none"}] /\ by \in [File -> User \cup {"none"}]
  /\ req \in [Req -> Busy \cup {Idle}]
  /\ removed \in SUBSET File /\ cut \in SUBSET File

On(r, f, pcs) == req[r].pc \in pcs /\ req[r].file = f

\* get_file and list_my_files show rows; a row without its object is one that
\* delete_file is about to delete, or has failed to.
RowHasObject ==
  \A f \in File : (owner[f] # "none" /\ f \notin object)
    => f \in cut \/ \E r \in Req : On(r, f, {"delete_row"})

\* An object that no row points to, and whose row no upload is about to commit,
\* was left by a failed request or belonged to an account that was deleted.
OrphansExplained ==
  \A f \in object : owner[f] = "none"
    => \/ f \in cut \/ by[f] \notin accounts
       \/ \E r \in Req : On(r, f, {"commit"})

\* README, File uploads: DELETE "removes both the S3 object and the DB row";
\* no request that was under way at the time brings either back.
DeleteRemovesBoth == \A f \in removed : f \notin object /\ owner[f] = "none"
==============================================================================
