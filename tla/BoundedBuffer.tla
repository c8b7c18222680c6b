---------------------------- MODULE BoundedBuffer ---------------------------
(* A buffer of bounded capacity: what the semaphores of ProducerConsumer      *)
(* are there to provide.                                                    *)
EXTENDS Integers

CONSTANT Capacity
VARIABLE held   \* the items in the buffer

BInit == held = 0
Put   == held < Capacity /\ held' = held + 1
Take  == held > 0 /\ held' = held - 1
BNext == Put \/ Take
BSpec == BInit /\ [][BNext]_held
=============================================================================
