------------------------ MODULE MCRepeatingScheduler ------------------------
(* Small instances of RepeatingScheduler: the orders that are set.  The     *)
(* proportions are the code's, on a coarser scale.                          *)
EXTENDS RepeatingScheduler

\* Two turns within DropDur, a third after a gap but within CheckDur.
Cluster == << [offset |-> 0, rate |-> 8], [offset |-> 1, rate |-> 8], [offset |-> 3, rate |-> 8] >>

\* Different rates: the turns meet only now and then.
Drifting == << [offset |-> 0, rate |-> 8], [offset |-> 2, rate |-> 11] >>

\* One slow order: the timer naps.
Slow == << [offset |-> 5, rate |-> 20] >>

MCOrderLists == { << >>, Cluster, Drifting, Slow }

\* Every second turn of the first order is a turn of the second: both from the start, as
\* the Java handlers set their orders, one at twice the rate of the other.
Harmonic == { << [offset |-> 0, rate |-> 10], [offset |-> 0, rate |-> 20] >> }

=============================================================================
