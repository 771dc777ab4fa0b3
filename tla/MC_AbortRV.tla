---------------------------- MODULE MC_AbortRV ----------------------------
EXTENDS AbortRV

\* Arguments that fit the four bits between the reserved byte and the pid.
NarrowArgs == 0..15

\* userAbortTM takes any 32-bit argument from the simulated program.
WideArgs == {0, 1, 15, 16, 255, 4096}

\* No aborter (-1), small pids, the pids either side of a byte boundary
\* and the largest pid of MAX_CPU_COUNT.
MCPidValues == {-1, 0, 1, 2, 255, 256, 511}
=============================================================================
