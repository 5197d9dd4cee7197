------------------------------ MODULE MCQuiz ------------------------------
(* Small instance of the lessons and the quiz service for TLC.             *)
EXTENDS Quiz, TLC

CONSTANTS c1, c2, s1

\* One call of any operation, beside a student who answers and lists questions
\* again and again.
MCCaller == c2 :> s1
=============================================================================
