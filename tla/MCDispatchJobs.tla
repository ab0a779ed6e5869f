---------------------------- MODULE MCDispatchJobs ----------------------------
(***************************************************************************)
(* One service on one worker, and one teacher who starts and stops it.     *)
(***************************************************************************)
EXTENDS DispatchJobs

CONSTANTS web, lab, tess

MCService == {web}
MCWorker == {lab}
MCAble == [s \in MCService |-> MCWorker]
OneManager == {tess}
MCContained == {2} \cap 1..MaxJobs   (* the second of three jobs, or none *)
=============================================================================
