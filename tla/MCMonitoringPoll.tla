-------------------------- MODULE MCMonitoringPoll --------------------------
(* Finite instances of MonitoringPoll: s1 and s2 belong to one series, s3  *)
(* to another.                                                             *)
EXTENDS MonitoringPoll, TLC

CONSTANTS s1, s2, s3, x, y

MCSeriesOf == [s \in Snapshots |-> IF s = s3 THEN y ELSE x]
=============================================================================
