---------------------------- MODULE MCReportStore ----------------------------
(* Three requests to save, of which two may meet.                           *)
EXTENDS ReportStore

MCSave == {"s1", "s2", "s3"}
MCSource == [s \in MCSave |-> IF s = "s1" THEN "fs" ELSE IF s = "s2" THEN "rclone" ELSE "cache"]
MCSize == [s \in MCSave |-> IF s = "s1" THEN 2 ELSE 1]

=============================================================================
