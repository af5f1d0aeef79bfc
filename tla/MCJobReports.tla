---------------------------- MODULE MCJobReports ----------------------------
(* Instances of JobReports for TLC.                                        *)
EXTENDS JobReports

\* The final states normalizeSlurmStatus knows.
KnownEnds == {"COMPLETED", "FAILED", "CANCELLED", "TIMEOUT", "NODE_FAIL", "OUT_OF_MEMORY"}

\* The states sacct documents besides, and a cancellation as sacct spells it.
AllEnds == KnownEnds \cup {"CANCELLED by 1000", "PREEMPTED", "BOOT_FAIL", "DEADLINE"}
=============================================================================
