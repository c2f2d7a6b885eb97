--------------------------- MODULE MCAuditExport ----------------------------
(***************************************************************************)
(* AuditExport on a small instance: detector rules 1 and 2 share a         *)
(* category of personal data, rule 3 has another, rules 4 and 5 find an    *)
(* indicator of health and a secret.                                       *)
(***************************************************************************)
EXTENDS AuditExport

MCCategoryOf == <<2, 2, 1, 3, 4>>

Member == [method |-> "oidc", issuer |-> <<"issuer">>]
Service == [method |-> "api_key", issuer |-> <<"issuer">>]

\* The clock reads nanoseconds, in the zone of the process.
Clock == [rest |-> 1, zone |-> "local"]

Request(type, principal, hits) ==
  [type |-> type, principal |-> principal, reason |-> 1, hits |-> hits,
   reserve |-> 2, charge |-> 0, code |-> 5, clock |-> Clock]

\* A refused request, and a run that starts and then completes or fails.
MCInputs ==
  <<{Request("denied", Service, <<1, 2, 1, 0, 0>>)},
    {Request("started", Member, <<0, 0, 0, 1, 1>>)},
    {Request("completed", Service, <<0, 0, 0, 0, 0>>),
     Request("failed", Member, <<0, 0, 1, 0, 0>>)}>>

Symmetry == Permutations(Tools)
=============================================================================
