---------------------------- MODULE MCMallSaga ----------------------------
(* Small instance of MallSaga for TLC: two sagas of one user that compete  *)
(* for the last units and points.                                          *)
EXTENDS MallSaga

CONSTANTS u1, r1, r2, p1

Stock3 == [p \in Products |-> 3]
Points3 == [u \in Users |-> 3]
=============================================================================
