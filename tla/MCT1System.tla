----------------------------- MODULE MCT1System -----------------------------
(***************************************************************************)
(* Values for the constants of T1System that a .cfg cannot write itself.   *)
(***************************************************************************)
EXTENDS T1System

\* One operation answered through fileQueue and one through dirQueue.
FileAndDirOps == {"RD", "DC"}

\* One operation only, where the kind of reply makes no difference.
OneFileOp == {"RD"}
============================================================================
