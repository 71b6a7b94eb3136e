------------------------------ MODULE MCKernel ------------------------------
EXTENDS Kernel, TLC

CONSTANTS mutex, signal

MCInputValue == [s \in Semaphore |-> IF s = mutex THEN 1 ELSE 0]
=============================================================================
