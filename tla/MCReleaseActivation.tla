-------------------------- MODULE MCReleaseActivation --------------------------
(* Coordinators are interchangeable, and so are releases.                   *)
EXTENDS ReleaseActivation, TLC

Symmetric == Permutations(Coordinator) \cup Permutations(Release)

\* After a fault by which an operation outlived its lease nothing is promised.
Promised == faults = 0 \/ ~overrun
=============================================================================
