---------------------------- MODULE MCEngineApi ----------------------------
(* Two endpoints, the proposer and one other caller of Eth1Api.            *)
EXTENDS EngineApi

CONSTANTS prop, sync, u1, u2

MCOriginal == <<u1, u2>>

=============================================================================
