----------------------------- MODULE MCDirectory ----------------------------
(***************************************************************************)
(* The root directory on a small device.  Sectors of 16 bytes, directories *)
(* of 14 and references of 6 scale the 32, 30 and 4 of the kernel down to  *)
(* two references in a block, with the same relations: a directory is full *)
(* at all the references it can store, an extent at one less, and a        *)
(* directory is a header and one data sector.  Files of 14 bytes fit the   *)
(* same gaps as directories; those of 60, of a header and four sectors     *)
(* more, leave larger ones.                                                *)
(***************************************************************************)
EXTENDS Directory

(* The links of a block outside the directory are not read before a        *)
(* creation sets them, nor the last handle: states that differ in them     *)
(* alone have the same behaviours.                                         *)
Observed ==
  <<marker, size, held, listed, formatted,
    [h \in Hops |-> <<refs[h], next[h], parent[h]>>]>>
=============================================================================
