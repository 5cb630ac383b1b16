----------------------- MODULE MCMessageRouterBasic -----------------------
(* A small instance of the message router: three receivers.                *)
EXTENDS MessageRouterBasic

CONSTANTS J2735, BSM, RouteDSRC

\* A BSM with a flag set.
OneMessage == {[type |-> J2735, subtype |-> BSM, flags |-> {RouteDSRC}]}

Filter(t, st, fl) == [type |-> t, subtype |-> st, flagmask |-> fl]

\* No filters; two filters that both match the BSM.
TwoFilterLists ==
  {{}, {Filter(J2735, BSM, {}), Filter(Wildcard, Wildcard, {RouteDSRC})}}
===========================================================================
