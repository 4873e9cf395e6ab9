----------------------------- MODULE MCDownload -----------------------------
(* Small instances of Download for TLC.                                    *)
(*                                                                         *)
(* Peers are numbers, since the order in which they are listed decides who *)
(* is polled first: they are not interchangeable, and no symmetry is used. *)
(***************************************************************************)
EXTENDS Download

CONSTANTS a, b   \* two paths
=============================================================================
