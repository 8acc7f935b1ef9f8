-------------------------- MODULE GatewayIdentity --------------------------
(***************************************************************************)
(* What the enrollments of a box promise ClawOps and the tunnel: the box   *)
(* is one gateway.  It makes a key only when it has none, registers no key *)
(* while it has another, and configures the tunnel with the key it has and *)
(* the address ClawOps assigned to that very key, each in a single step;   *)
(* the tunnel goes up and down with the configuration there is.            *)
(*                                                                         *)
(* Agent implements it with handlers of a dozen steps, a mutex around one  *)
(* of them, and a reset that takes no lock.                                *)
(***************************************************************************)
EXTENDS Provisioning

VARIABLES box_key, generated, registered, wg_conf, iface

identity == <<box_key, generated, registered, wg_conf, iface>>

TunnelOf(k) == [key |-> k, addr |-> k]

NoTunnel == TunnelOf(Blank)

Init ==
    /\ box_key = Blank
    /\ generated = {} /\ registered = {}
    /\ wg_conf = NoTunnel /\ iface = NoTunnel

Generate ==
    /\ box_key = Blank
    /\ \E k \in Keys \ generated : box_key' = k /\ generated' = generated \cup {k}
    /\ UNCHANGED <<registered, wg_conf, iface>>

\* The reply may be lost, and the key wiped while the call is under way.
Register ==
    /\ \E k \in generated : /\ box_key \in {k, Blank}
                            /\ registered' = registered \cup {k}
    /\ UNCHANGED <<box_key, generated, wg_conf, iface>>

Configure ==
    /\ box_key \in registered
    /\ wg_conf' = TunnelOf(box_key)
    /\ UNCHANGED <<box_key, generated, registered, iface>>

\* wg0.conf is removed or cut short; the interface is started with what there
\* is, stopped, or fails to start.
TunnelChanges ==
    /\ wg_conf' \in {wg_conf, NoTunnel}
    /\ iface' \in {iface, wg_conf', NoTunnel}
    /\ UNCHANGED <<box_key, generated, registered>>

Wipe ==
    /\ box_key' = Blank
    /\ UNCHANGED <<generated, registered, wg_conf, iface>>

Next == Generate \/ Register \/ Configure \/ TunnelChanges \/ Wipe

Spec == Init /\ [][Next]_identity
=============================================================================
