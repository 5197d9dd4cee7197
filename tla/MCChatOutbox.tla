---------------------------- MODULE MCChatOutbox ----------------------------
(* Small instances of ChatOutbox for TLC: two messages of one lesson and a *)
(* retry of the first, drained by the workers of two instances.            *)
EXTENDS ChatOutbox

CONSTANTS a, b, again, l1, i1, i2, w1, w2

OneLesson == [c \in Calls |-> l1]
RetryKey == [c \in Calls |-> IF c = b THEN 2 ELSE 1]
Spread == [w \in Workers |-> IF w = w1 THEN i1 ELSE i2]
\* Of the three, any may be stored first, last, or not at all.
InOrder == [c \in Calls |-> IF c = a THEN {1} ELSE IF c = b THEN {2} ELSE {3}]
AllServe == [w \in Workers |-> Lessons]
=============================================================================
