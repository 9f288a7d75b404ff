------------------------------- MODULE Endpoints -------------------------------
(***************************************************************************)
(* What the two RPC connection managers have in common: the list of        *)
(* endpoints they rotate over, and the limit of consecutive failures.      *)
(***************************************************************************)
EXTENDS Naturals

CONSTANTS NumUrls,                \* urls.length
          MAX_CONSECUTIVE_FAILS,  \* 3 in the code
          Caller                  \* bound: withFallback() calls in progress

ASSUME EndpointsAssumption == {NumUrls, MAX_CONSECUTIVE_FAILS} \subseteq Nat \ {0}

Endpoint == 0..(NumUrls - 1)

=============================================================================
