--------------------------- MODULE MCFileTransfer ---------------------------
(***************************************************************************)
(* A file of three bytes in sectors of three: its two data sectors hold    *)
(* four bytes, as many as the largest transfer the size check lets pass.   *)
(* An empty file beside it, of which one byte can be transferred all the   *)
(* same.  The table of two indexes overflows when a file is opened twice.  *)
(***************************************************************************)
EXTENDS FileTransfer, TLC

CONSTANTS f1, f2

MCFiles  == {f1, f2}
MCSizeOf == f1 :> 3 @@ f2 :> 0
=============================================================================
