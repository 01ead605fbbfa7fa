---------------------------- MODULE MCWorkQueue ----------------------------
(***************************************************************************)
(* Small instances of WorkQueue for TLC: items of one organization, one of *)
(* them (b) with manual recovery, a single attempt and the recovery pool.  *)
(***************************************************************************)
EXTENDS WorkQueue, TLC

CONSTANTS a, b, c, org

ABOrgOf == [i \in Item |-> org]
ABPoolOf == [i \in Item |-> IF i = b THEN "recovery" ELSE "standard"]
ABAttempts == [i \in Item |-> IF i = b THEN 1 ELSE 2]
ShortBackoff == [n \in 1..10 |-> 1]
\* An operator may cut every pool down to one slot.
OneSlotEach == {[p \in Pool |-> 1]}

Symmetric == Permutations(Token) \cup Permutations(Worker)
=============================================================================
