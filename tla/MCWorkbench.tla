---------------------------- MODULE MCWorkbench -----------------------------
(***************************************************************************)
(* An instance of Workbench for TLC: the calls b -> a and c -> f -> a,     *)
(* a callback d of a, a module and a community.                            *)
(***************************************************************************)
EXTENDS Workbench, TLC

CONSTANTS a, b, c, d, f, m, k, cf, ba, fa, ad

MCSource == (cf :> c) @@ (fa :> f) @@ (ba :> b) @@ (ad :> a)
MCTarget == (cf :> f) @@ (fa :> a) @@ (ba :> a) @@ (ad :> d)
MCPlace ==
  (b :> 0) @@ (a :> 1) @@ (c :> 2) @@ (f :> 3) @@ (d :> 4) @@ (m :> 5) @@ (k :> 6)
    @@ (ad :> 7) @@ (ba :> 8) @@ (fa :> 9) @@ (cf :> 10)
MCQuota == [l \in Lanes |-> 1]
MCMaps ==
  {[nodes |-> {a, b, c, d, f}, edges |-> {ba, fa, cf, ad}], [nodes |-> {b, m, k}, edges |-> {}]}

=============================================================================
