----------------------------- MODULE MCPrograms -----------------------------
\* Threads, sizes and orders for the example programs.
EXTENDS Programs

\* Nothing, a part of the buffer, more than the buffer, and without end.
MCOrders == {-1, 0, 2, 6}
=============================================================================
