----------------------------- MODULE MCUploads -----------------------------
(***************************************************************************)
(* upload_file on a small instance, from the first chunk to the row: the   *)
(* checks of FileValidation come first, then the steps of Files.  Those    *)
(* never look at the bytes, so they follow one of the accepted files only. *)
(***************************************************************************)
EXTENDS Files, FileValidation, TLC

\* Two alternatives, one with a string that is not at the start.
Image == [name |-> "image", max_size_bytes |-> 4,
          signature |-> {{[at |-> 0, bytes |-> <<"m", "a">>]},
                         {[at |-> 0, bytes |-> <<"a">>], [at |-> 2, bytes |-> <<"m", "a">>]}}]

Csv == [name |-> "csv", max_size_bytes |-> 4, signature |-> {{}}]

ImageAndCsv == {Image, Csv}
TestString == <<"t", "a">>

\* The file that is followed into the stores.
Followed == category = Csv /\ file = <<"a">>

UploadsInit == Init /\ ChecksInit

UploadsNext ==
  \/ ChecksNext /\ UNCHANGED vars
  \/ verdict = "accepted" /\ Followed /\ Next /\ UNCHANGED checkVars

UploadsSpec == UploadsInit /\ [][UploadsNext]_<<vars, checkVars>>

Symmetry == Permutations(Req) \cup Permutations(User) \cup Permutations(File)
============================================================================
