---------------------------- MODULE MCCaptureBroker ----------------------------
EXTENDS CaptureBroker, TLC

Symmetric == Permutations(Buffers) \cup Permutations(Consumers)
                \cup Permutations(Threads)
================================================================================
