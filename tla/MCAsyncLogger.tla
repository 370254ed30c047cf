---------------------------- MODULE MCAsyncLogger ----------------------------
EXTENDS AsyncLogger

MCCapacity == [q \in QueueNames |-> 1]
================================================================================
