----------------------------- MODULE MCNetwork -----------------------------
(***************************************************************************)
(* Network for TLC: the gateway, a neighbour and a host behind the         *)
(* gateway, a cache of one entry, two calls of ping_ip.                    *)
(***************************************************************************)
EXTENDS Network

CONSTANTS gw, neighbour, remote

MCLinks == {gw, neighbour}
MCRemotes == {remote}
=============================================================================
