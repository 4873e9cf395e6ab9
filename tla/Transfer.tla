------------------------------ MODULE Transfer ------------------------------
(***************************************************************************)
(* What a push promises its receiver, whatever the connection does: the    *)
(* request arrives whole or not at all, the copy is always the beginning   *)
(* of the file, and the copy is whole when the receiver takes it as such.  *)
(***************************************************************************)
EXTENDS Naturals, Sequences

VARIABLES
  file,      \* what is sent
  request,   \* "waiting", "whole" or "none"
  copy,      \* what has been received of it
  over       \* the receiver has seen the end

Init ==
  /\ request = "waiting"
  /\ copy = << >>
  /\ over = FALSE

Deliver ==
  /\ request = "waiting"
  /\ request' \in {"whole", "none"}
  /\ UNCHANGED <<file, copy, over>>

Receive ==
  /\ request = "whole" /\ ~over
  /\ \E n \in 1..Len(file) : n > Len(copy) /\ copy' = SubSeq(file, 1, n)
  /\ UNCHANGED <<file, request, over>>

Finish ==
  /\ request = "whole" /\ ~over
  /\ copy = file
  /\ over' = TRUE
  /\ UNCHANGED <<file, request, copy>>

Next == Deliver \/ Receive \/ Finish

Spec == Init /\ [][Next]_<<file, request, copy, over>>

=============================================================================
