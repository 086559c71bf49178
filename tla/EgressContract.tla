---------------------------- MODULE EgressContract ----------------------------
(***************************************************************************)
(* What block mode promises about the build's connections off the host,    *)
(* without the proxy's goroutines, locks or labels: an address is open     *)
(* only in a window of at most MaxTTL that starts after a trusted answer   *)
(* named it, or for the whole run when the operator listed it, and an      *)
(* attempt gets through exactly when the address is open.                  *)
(***************************************************************************)
EXTENDS Integers

CONSTANTS IPs, LoIPs, StaticIPs, MaxTTL

VARIABLES
  now,      \* the clock
  vouched,  \* addresses a trusted answer named
  window,   \* when the window of each address ends; 0 is none
  log       \* connection attempts not reported yet

vars == <<now, vouched, window, log>>

Open(ip) == ip \in StaticIPs \/ now < window[ip]

Init == now = 0 /\ vouched = {} /\ window = [ip \in IPs |-> 0] /\ log = {}

Vouch == vouched \subseteq vouched' /\ vouched' \subseteq IPs /\ UNCHANGED <<now, window, log>>

(* Windows start or move for vouched addresses only. *)
Grant(t) ==
  /\ window' = [ip \in IPs |-> window'[ip]]
  /\ \A ip \in IPs : window'[ip] = window[ip] \/ (ip \in vouched /\ window'[ip] = now + t)
  /\ UNCHANGED <<now, vouched, log>>

Attempt(e) ==
  /\ e.ip \notin LoIPs => (e.admitted <=> Open(e.ip))
  /\ log' = log \cup {e}
  /\ UNCHANGED <<now, vouched, window>>

Report(e) == log' = log \ {e} /\ UNCHANGED <<now, vouched, window>>

(* The run is over: the filter and the build are gone. *)
Withdraw == window' = [ip \in IPs |-> 0] /\ UNCHANGED <<now, vouched, log>>

Tick == now' = now + 1 /\ UNCHANGED <<vouched, window, log>>

Next ==
  \/ Vouch
  \/ \E t \in 0..MaxTTL : Grant(t)
  \/ \E e \in [ip : IPs, admitted : BOOLEAN] : Attempt(e) \/ Report(e)
  \/ Withdraw
  \/ Tick

Spec == Init /\ [][Next]_vars
=============================================================================
