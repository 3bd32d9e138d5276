---------------------------- MODULE MCAbiBuffers ----------------------------
(***************************************************************************)
(* A C int of 3 bits, a Go int of 5: no request, the greatest length that  *)
(* fits, one that narrows to a negative number and one that narrows to a   *)
(* shorter copy.                                                           *)
(***************************************************************************)
EXTENDS AbiBuffers

MCRequestLens == {0, 3, 4, 9}
MCAnswerLens == {0, 3, 9}
=============================================================================
