--------------------------- MODULE ExecutionStore ---------------------------
(***************************************************************************)
(* What the recording of executions promises to its callers: records are   *)
(* only added, a call is answered with a record, two calls with one match  *)
(* and one key are answered with one record, and a call without a key is   *)
(* answered with a record of its own.                                      *)
(***************************************************************************)
EXTENDS Sequences

CONSTANT NoKey

VARIABLES
  stored,  \* the records: id, match, key and what was calculated
  answers  \* the records that calls were answered with, in order

vars == <<stored, answers>>

Init == stored = {} /\ answers = <<>>

IsNew(record) ==
  /\ \A s \in stored : s.id # record.id
  /\ record.key # NoKey => \A s \in stored : s.match # record.match \/ s.key # record.key

\* The caller may be gone before it is answered.
Create ==
  \E record \in stored' \ stored :
    /\ IsNew(record)
    /\ stored' = stored \cup {record}
    /\ answers' \in {answers, Append(answers, record)}

Repeat ==
  \E record \in stored :
    /\ record.key # NoKey
    /\ answers' = Append(answers, record)
    /\ UNCHANGED stored

Next == Create \/ Repeat

Spec == Init /\ [][Next]_vars
=============================================================================
