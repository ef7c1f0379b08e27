---------------------------- MODULE MCBookOptimizer ----------------------------
(* Two securities of two issuers with two counterparties, one of them limited. *)
EXTENDS BookOptimizer, TLC

CONSTANTS a, b, c1, c2

MCIssuerOf == a :> "issuer a" @@ b :> "issuer b"
MCLimit == c1 :> 3 @@ c2 :> None
MCBook == a :> (c1 :> 3 @@ c2 :> 0) @@ b :> (c1 :> 0 @@ c2 :> 2)
=============================================================================
