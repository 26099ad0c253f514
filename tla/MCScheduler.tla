---------------------------- MODULE MCScheduler ----------------------------
(* Scheduler with an idle thread (98), the base thread, whose attributes    *)
(* ask for priority 0, a kernel thread (1) and a user thread (80).          *)
EXTENDS Scheduler, TLC

MCTids     == 0..3
MCUserTids == {3}
MCAttrPrio == 0 :> 98 @@ 1 :> 0 @@ 2 :> 1 @@ 3 :> 80

\* Two user threads as important as the base thread turns out to be.
MCTids5     == 0..4
MCUserTids5 == {3, 4}
MCAttrPrio5 == MCAttrPrio @@ 4 :> 80

NoLatePrio == {}

\* fwk_netif_init: the thread gets its priority after it is registered.
NetifPrio  == {<<3, 20>>}
=============================================================================
