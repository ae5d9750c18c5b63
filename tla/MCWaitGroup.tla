---------------------------- MODULE MCWaitGroup ----------------------------
EXTENDS WaitGroup, TLC

CONSTANTS a1, a2, w1

MCWorkers == {a1, a2}
MCWaiters == {w1}
=============================================================================
