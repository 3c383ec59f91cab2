----------------------------- MODULE MCBusCache -----------------------------
(***************************************************************************)
(* The bus cache on a small bus: three RAM addresses, a window of two      *)
(* bytes and two peripheral registers, so that windows overlap by one      *)
(* byte, straddle the end of RAM and wrap at the top of the bus.           *)
(***************************************************************************)
EXTENDS BusCache
=============================================================================
