-------------------------- MODULE MCEnhancedThreads --------------------------
EXTENDS EnhancedThreads, TLC

MCItem == Thread \cup Parent

MCInputValue == [s \in Semaphore |-> 0]

MCSymmetry == Permutations(Thread) \cup Permutations(Parent)
=============================================================================
