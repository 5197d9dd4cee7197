------------------------------ MODULE ChatLog ------------------------------
(***************************************************************************)
(* What the chat service promises its readers about one lesson: a message  *)
(* is in the history before its first record is in the partition, records  *)
(* are never taken back, and a message that was stored while earlier ones  *)
(* were there is recorded after each of them, unless the history was       *)
(* deleted in between.  A record may be repeated, and nothing is said      *)
(* about messages stored in another order than that of their stamps.       *)
(***************************************************************************)
EXTENDS Sequences

CONSTANT Messages

VARIABLES
  stored,    \* messages of the history
  before,    \* message -> the earlier messages it found in the history
  deleted,   \* messages DelHistory removed
  log        \* records of the partition

vars == <<stored, before, deleted, log>>

Recorded == {log[k] : k \in DOMAIN log}

Init ==
  /\ stored = {} /\ deleted = {}
  /\ before = [m \in Messages |-> {}]
  /\ log = <<>>

\* A message enters the history once.
Store(m, earlier) ==
  /\ m \notin stored \cup deleted
  /\ earlier \subseteq stored
  /\ stored' = stored \cup {m}
  /\ before' = [before EXCEPT ![m] = earlier]
  /\ UNCHANGED <<deleted, log>>

\* A record, the first one or a repetition.
Record(m) ==
  /\ m \in stored \cup deleted
  /\ before[m] \subseteq Recorded \cup deleted
  /\ log' = Append(log, m)
  /\ UNCHANGED <<stored, before, deleted>>

DeleteAll ==
  /\ stored' = {}
  /\ deleted' = deleted \cup stored
  /\ UNCHANGED <<before, log>>

Next ==
  \/ \E m \in Messages : (\E earlier \in SUBSET stored : Store(m, earlier)) \/ Record(m)
  \/ DeleteAll

Spec == Init /\ [][Next]_vars
=============================================================================
