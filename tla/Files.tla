------------------------------- MODULE Files --------------------------------
(***************************************************************************)
(* write_private of src/src/fsutil.rs, for the two files that outlive the  *)
(* program: opening truncates, then the bytes are written.  The process    *)
(* may end or fail before, between and during the two; the machine itself  *)
(* does not (nothing is synced to the disk).                               *)
(***************************************************************************)
CONSTANTS
  Absent,  \* there is no such file
  Torn     \* the file is empty or cut short: it does not parse

\* create(true).truncate(true)
Open(file) == file' = Torn

WriteAll(file, content) == file' = content
=============================================================================
