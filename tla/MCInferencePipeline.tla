-------------------------- MODULE MCInferencePipeline --------------------------
EXTENDS InferencePipeline, TLC

MCCapacity == [q \in Queues |-> 1]

Symmetric == Permutations(Buffers)
================================================================================
