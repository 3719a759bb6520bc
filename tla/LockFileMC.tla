----------------------------- MODULE LockFileMC -----------------------------
(* Instances of LockFile for TLC.                                          *)
EXTENDS LockFile, TLC

CONSTANTS r1, r2, r3

\* One run per process.
ToolRuns == r1 :> r1 @@ r2 :> r2 @@ r3 :> r3

=============================================================================
