------------------------------ MODULE MCFatRead ------------------------------
EXTENDS FatRead

\* twice the largest file, so that a byte written behind the request shows
MCMemory == 0..(2 * ClusterSize * (LastCluster - 1))
=============================================================================
