------------------------------ MODULE Blockstore ------------------------------
(***************************************************************************)
(* The blocks on disk (blockstore.rs), one file per CID.  A store maps     *)
(* each block to what its file holds: nothing, the content that the CID    *)
(* names, or something else (a disk error, another program).  A file is    *)
(* written aside and renamed (put), so that a reader never sees a part of  *)
(* it; errors of the disk other than a missing file are outcomes of those  *)
(* who call.                                                               *)
(***************************************************************************)
Held == {"none", "good", "rotten"}

\* Blockstore::has looks for the file and not at its content; get does look.
Has(s, c) == s[c] # "none"
Verifies(s, c) == s[c] = "good"

Put(s, c) == [s EXCEPT ![c] = "good"]
Erase(s, c) == [s EXCEPT ![c] = "none"]
===============================================================================
