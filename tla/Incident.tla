------------------------------- MODULE Incident -------------------------------
(* One incident, as the capture thread puts it together and an operator then    *)
(* sees it: attribution::collect judges who stalled and who moved the bytes;    *)
(* the processes of the whole machine are drilled; its own conditions are       *)
(* scanned, and a scrape measures them.  No part reads what another has kept:   *)
(* the pass is put away when it has judged, and what follows it is explored     *)
(* from there, the drill and the scan each by itself.                           *)
EXTENDS Causes, Drill, Metrics

passVars == <<vars, judged, causes>>
hardwareVars == <<btrfs, hwmon, warnings, pressed, scraped>>
incidentVars == <<passVars, drillVars, hardwareVars>>

IncidentInit == CausesInit /\ DrillInit /\ PathologyInit /\ MetricsInit

(* collect returns.                                                             *)
PutAway ==
    /\ judged /\ Present # {}
    /\ deltas' = << >> /\ todo' = {} /\ maxDescendant' = << >> /\ causes' = {}
    /\ UNCHANGED <<judged, drillVars, hardwareVars>>

Returned == judged /\ Present = {}

DrillMachine == Returned /\ BeginDrill /\ UNCHANGED <<passVars, hardwareVars>>

ScanMachine ==
    /\ Returned /\ stage = "idle"
    /\ Scan
    /\ stage' = "scanned"
    /\ UNCHANGED <<passVars, kernelVars, sweepVars, closed, pressed, scraped>>

ScrapeMachine ==
    /\ stage = "scanned" /\ ~scraped
    /\ Scrape
    /\ UNCHANGED <<passVars, drillVars>>

IncidentNext ==
    \/ \E p \in Paths : PropagateBytes(p) /\ UNCHANGED <<drillVars, hardwareVars>>
    \/ CollectCauses /\ UNCHANGED <<drillVars, hardwareVars>>
    \/ PutAway
    \/ DrillMachine
    \/ DrillNext /\ UNCHANGED <<passVars, hardwareVars>>
    \/ ScanMachine
    \/ ScrapeMachine

IncidentSpec == IncidentInit /\ [][IncidentNext]_incidentVars
=============================================================================
