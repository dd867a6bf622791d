------------------------- MODULE MCSchedulesDirect --------------------------
(* SchedulesDirect for one station of two days, which air one programme.   *)
EXTENDS SchedulesDirect

CONSTANT x

MCStationDays == {<<1, 1>>, <<1, 2>>}
MCProgrammes == {x}
MCAirs == [sd \in MCStationDays |-> {x}]

\* One day listed and one past what the service has; the programme to come.
MCInit == Init /\ listing = [sd \in StationDays |-> 2 - sd[2]] /\ detail[x] = "queued"
MCSpec == MCInit /\ [][Next]_vars /\ Fairness
=============================================================================
