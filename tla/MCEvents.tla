------------------------------ MODULE MCEvents ------------------------------
EXTENDS EventDelivery

\* Two runs with both their ends and a fault, or with one end and a move; two
\* ends of a run and a move; losing the socket twice; going to another thread and
\* back; and losing the socket around a move.
DeliveryBudgets ==
    {[runs |-> 2, moves |-> 0, faults |-> 1, events |-> 2],
     [runs |-> 2, moves |-> 1, faults |-> 0, events |-> 1],
     [runs |-> 1, moves |-> 1, faults |-> 0, events |-> 2],
     [runs |-> 1, moves |-> 0, faults |-> 2, events |-> 1],
     [runs |-> 1, moves |-> 2, faults |-> 0, events |-> 1],
     [runs |-> 1, moves |-> 1, faults |-> 1, events |-> 1]}
=============================================================================
