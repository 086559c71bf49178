------------------------------- MODULE MCEgress -------------------------------
(***************************************************************************)
(* EgressFilter for TLC.  The addresses of every .cfg: web is a server,    *)
(* office is covered by allowed-ips, raw is neither, host is the host's    *)
(* own non-loopback address (routed through lo), docker is 127.0.0.11; h1  *)
(* serves UDP, h2 TCP.                                                     *)
(***************************************************************************)
EXTENDS EgressFilter
=============================================================================
