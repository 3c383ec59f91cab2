------------------------------ MODULE MCSectors -----------------------------
(***************************************************************************)
(* The allocator on a device of twelve sectors of four bytes.  The sizes ask  *)
(* for one, two and three data sectors; size 3 sits on the boundary where  *)
(* one more data sector than the bytes need is taken.                      *)
(***************************************************************************)
EXTENDS Sectors
=============================================================================
