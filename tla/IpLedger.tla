------------------------------ MODULE IpLedger ------------------------------
(***************************************************************************)
(* What an address pool promises: an abstract ledger that says, for every  *)
(* address of a host subnet, whether it is free, set aside without an      *)
(* owner yet, or owned by one holder (a container's MAC or a service).     *)
(* An owned address never passes from one holder to another: it has to     *)
(* become free in between.  AddressPool implements this ledger.            *)
(***************************************************************************)
CONSTANTS
  IPs,      \* the addresses of the host subnet that can be handed out
  Holders,  \* everything that can own an address
  Free,     \* nobody has the address
  Reserved  \* set aside for a holder that is not known yet

VARIABLE owner

TypeOK == owner \in [IPs -> Holders \cup {Free, Reserved}]

Init == owner = [ip \in IPs |-> Free]

Reserve(ip) ==
  /\ owner[ip] = Free
  /\ owner' = [owner EXCEPT ![ip] = Reserved]

\* A reservation or a free address becomes a holder's.
Assign(ip, h) ==
  /\ owner[ip] \in {Free, Reserved}
  /\ owner' = [owner EXCEPT ![ip] = h]

\* Any number of addresses are given back at once: the restart's clean-up and
\* the removal of the network release several.
Release(ips) == owner' = [ip \in IPs |-> IF ip \in ips THEN Free ELSE owner[ip]]

Next ==
  \/ \E ip \in IPs : Reserve(ip)
  \/ \E ip \in IPs, h \in Holders : Assign(ip, h)
  \/ \E ips \in SUBSET IPs : Release(ips)

Spec == Init /\ [][Next]_owner
=============================================================================
