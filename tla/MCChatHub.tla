------------------------------ MODULE MCChatHub ------------------------------
(* Small instances of ChatHub for TLC: two connections to one lesson.      *)
EXTENDS ChatHub

CONSTANTS c1, c2

(* Bound of the model: the second client comes and goes before the first   *)
(* message, and leaves no room behind it.  Its room may be left to the     *)
(* first client, or be removed under it, until then.                       *)
VisitorFirst ==
  c2 \in Clients /\ history # <<>> =>
    at[c2] = "gone" /\ send[c2] = <<>> /\ room # c2 /\ c2 \notin emptied

(* Bound of the model: one ack or status waits in a queue at a time.       *)
OneNotice ==
  \A c \in Clients : Cardinality({k \in DOMAIN send[c] : send[c][k] = Notice}) <= 1
==============================================================================
