------------------------------ MODULE MCScopes ------------------------------
(***************************************************************************)
(* An umbrella fund with three classes, and one of its classes registered  *)
(* by itself.  The name of class a finds two ids, the second of them that  *)
(* of class b, whose own name is filed under the second fund type; id 2    *)
(* serves documents of both.                                               *)
(***************************************************************************)
EXTENDS Scopes, TLC

CONSTANTS fund, class, a, b, c, d1, d2

MCScopesSet == {fund, class}
MCCnpjs == {a, b, c}
MCIds == 1..3
MCDocs == {d1, d2}
MCExpand == (fund :> {a, b, c}) @@ (class :> {a})
MCHits == (a :> <<<<1, 2>>>>) @@ (b :> <<<<>>, <<2>>>>) @@ (c :> <<<<3>>>>)
MCMayFail == {Search(a), Search(b), Probe(1)}
MCVolume == <<2, 1, 0>>
MCIdOf == (d1 :> 2) @@ (d2 :> 2)
MCServed == (d1 :> a) @@ (d2 :> b)
=============================================================================
