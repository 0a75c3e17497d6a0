-------------------------------- MODULE MCPipe --------------------------------
EXTENDS Pipe, TLC

Symmetric == Permutations(Procs)
==============================================================================
