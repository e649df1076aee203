---------------------------- MODULE MCDockerEvents ----------------------------
(***************************************************************************)
(* Two containers of one service: each has a host name of its own, and     *)
(* both have that of the service.                                          *)
(***************************************************************************)
EXTENDS DockerEvents, TLC

CONSTANTS c1, c2, h1, h2, service

MCServiceNames == (c1 :> {h1, service}) @@ (c2 :> {h2, service})
===============================================================================
