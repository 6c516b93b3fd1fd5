---------------------------- MODULE MCRpcSessions ----------------------------
EXTENDS RpcSessions, TLC

CONSTANTS named

ClientSymmetry == Permutations(Clients)
=============================================================================
