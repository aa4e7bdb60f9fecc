----------------------------- MODULE AuditHistory -----------------------------
(***************************************************************************)
(* The audit trail as an auditor reads it, tenant by tenant in the order   *)
(* of the sequence, of the tenants whose users wait for each other.        *)
(***************************************************************************)
EXTENDS AuditChain, FiniteSets

Orderly == {t \in Tenants : \A r \in Requests : input[r].tenant = t => input[r].waits}

History(t) ==
  LET mine == {x \in rows : x.tenant = t}
      nth(k) == CHOOSE x \in mine : Cardinality({y \in mine : y.seq <= x.seq}) = k
  IN [k \in 1..Cardinality(mine) |-> [hash |-> nth(k).by, prev |-> nth(k).prev]]

Chained == INSTANCE ChainedLog WITH
  Logs <- Tenants, log <- [t \in Tenants |-> IF t \in Orderly THEN History(t) ELSE <<>>]

(* While the requests of a tenant wait for each other, its trail is the    *)
(* log it is meant to be, whatever the other tenants do and whatever       *)
(* fails: it grows at its end and every entry names the one before.        *)
TrailIsChainedLog == Chained!Spec
===============================================================================
