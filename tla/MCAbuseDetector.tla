-------------------------- MODULE MCAbuseDetector --------------------------
(* An instance of AbuseDetector for TLC: an empty table, or one with a row *)
(* that an earlier version left, of a publisher with an anomaly: muted or  *)
(* not, with what is lacking repaired, or not to be read.                  *)
EXTENDS AbuseDetector

Suspect(status) ==
    [NewClient(0) EXCEPT !.status = status, !.anomalyCount = 1,
                         !.totalPacketsReceived = 1]

OldTable(status, lacks) ==
    [k \in {CHOOSE key \in Keys : TRUE} |-> [state |-> Suspect(status), lacks |-> lacks]]

MCfirstRows ==
    {NoStates, OldTable("allowed", {"peakRateWindow"}),
     OldTable("muted", Additions \ {"clockTracking"}), OldTable("muted", {"clockTracking"})}

=============================================================================
