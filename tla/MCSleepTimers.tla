--------------------------- MODULE MCSleepTimers ----------------------------
(* SleepTimers with the idle thread, the base thread and a worker of equal   *)
(* priority, on a counter that wraps after a few ticks.                      *)
EXTENDS SleepTimers, TLC

MCTids == 0..2
MCPrio == 0 :> 98 @@ 1 :> 80 @@ 2 :> 80
=============================================================================
