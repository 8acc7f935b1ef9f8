-------------------------- MODULE MCConfigManager --------------------------
(* Two handlers on one ConfigManager.  They save two complete records that *)
(* differ in the fields of every template, or the empty record of a first  *)
(* start.                                                                  *)
EXTENDS ConfigManager, TLC

CONSTANTS a1, m1, m2, k1, k2, n1, n2, r1, r2

FullRecord(m, k, n) ==
    [ adapter_mac |-> a1, phone_mac |-> m, hfp_port |-> m,
      tunnel_ip |-> k, kamailio_ip |-> "kamailio", did |-> n ]

MCInputs == {FullRecord(m1, k1, n1), FullRecord(m2, k2, n2)}

MCSessions == {[nonce |-> 1, verified_number |-> Blank]}

\* The two requests are alike, and so are the two records.
SwapRecords == m1 :> m2 @@ m2 :> m1 @@ k1 :> k2 @@ k2 :> k1 @@ n1 :> n2 @@ n2 :> n1

Symmetry == Permutations({r1, r2}) \cup {SwapRecords}
=============================================================================
