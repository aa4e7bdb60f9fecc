------------------------------ MODULE ChainedLog ------------------------------
(***************************************************************************)
(* What an audit trail promises: logs that only grow at their end, each    *)
(* entry naming the hash of the one before it.                             *)
(***************************************************************************)
EXTENDS Integers, SequencesExt

CONSTANTS Logs, Genesis
VARIABLE log

Linked(s) ==
  \A k \in 1..Len(s) : s[k].prev = IF k = 1 THEN Genesis ELSE s[k - 1].hash

Init == log = [l \in Logs |-> <<>>]

Extend(l) ==
  /\ IsStrictPrefix(log[l], log'[l])
  /\ Linked(log'[l])
  /\ \A k \in Logs \ {l} : log'[k] = log[k]

Next == DOMAIN log' = Logs /\ \E l \in Logs : Extend(l)
Spec == Init /\ [][Next]_log
===============================================================================
