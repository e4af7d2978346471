---------------------------- MODULE NumberSeries ----------------------------
(***************************************************************************)
(* What "tenant-scoped auto-increment" promises for the numbers of one     *)
(* kind of document: each tenant counts from one, no number is skipped and *)
(* none is given twice, not even that of a deleted document.               *)
(***************************************************************************)
EXTENDS Naturals

CONSTANTS Tenants, Series

VARIABLE last  \* the latest number of each tenant in each series

SInit == last = [t \in Tenants |-> [s \in Series |-> 0]]

Take(t, s) == last' = [last EXCEPT ![t][s] = @ + 1]

SNext == \E t \in Tenants, s \in Series : Take(t, s)

SSpec == SInit /\ [][SNext]_last
=============================================================================
