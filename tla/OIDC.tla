-------------------------------- MODULE OIDC --------------------------------
(***************************************************************************)
(* Validation of an OIDC token and what is made of its group claim.        *)
(*                                                                         *)
(* A token is a record of the header fields and claims that are looked at, *)
(* and of the key it is signed with.  A claim that may be missing is a     *)
(* sequence of length 0 or 1.  Names are numbers, 0 an ill-formed one.     *)
(***************************************************************************)
EXTENDS Integers, Sequences, SequencesExt, Sorting

CONSTANTS
  Issuer, Audience,  \* the configured ones
  Leeway,            \* the tolerated difference of clocks
  MaxGroups          \* maxOIDCGroups

-----------------------------------------------------------------------------
(***************************************************************************)
(* jwt.ParseWithClaims with the options AuthenticateOIDC gives it.         *)
(***************************************************************************)

\* Mutant: nbf and iat are compared without leeway.
TimesWithoutLeeway(token, now) ==
  /\ token.exp # <<>> /\ now < token.exp[1] + Leeway
  /\ token.nbf # <<>> => now >= token.nbf[1]
  /\ token.iat # <<>> => now >= token.iat[1]

\* exp is required, nbf and iat count where they are present.
TimesValid(token, now) ==
  /\ token.exp # <<>> /\ now < token.exp[1] + Leeway
  /\ token.nbf # <<>> => now >= token.nbf[1] - Leeway
  /\ token.iat # <<>> => now >= token.iat[1] - Leeway

\* Algorithm and kid are looked at before a key is asked for; answer is what
\* the key provider says: a key, "unknown" or "unavailable".
ParseWithClaims(token, answer, now) ==
  IF token.alg \notin {"RS256", "ES256"} \/ token.kid = 0 THEN "unauthenticated"
  ELSE IF answer = "unavailable" THEN "unavailable"
  ELSE IF /\ answer = token.key
          /\ token.iss = Issuer /\ token.aud = Audience
          /\ TimesValid(token, now)
          /\ token.sub > 0
       THEN "valid" ELSE "unauthenticated"

-----------------------------------------------------------------------------
(***************************************************************************)
(* Groups.  Both operators return <<groups>>, or <<>> for a refusal.       *)
(***************************************************************************)

\* The claim is missing, a string (perhaps empty), a list, or something else.
extractOIDCGroups(claim) ==
  IF claim.kind \in {"absent", "string", "list"} THEN <<claim.values>> ELSE <<>>

\* Each group once, in ascending order.
normalizeOIDCGroups(groups) ==
  IF Len(groups) <= MaxGroups /\ \A i \in 1..Len(groups) : groups[i] > 0
  THEN <<Ascending(Range(groups))>> ELSE <<>>

validOIDCGroups(groups) ==
  /\ Len(groups) <= MaxGroups
  /\ \A i \in 1..Len(groups) : groups[i] > 0
  /\ \A i \in 2..Len(groups) : groups[i-1] < groups[i]

\* Principal.Validate.
PrincipalValid(principal) ==
  /\ principal.id > 0
  /\ \/ principal.method = "api_key" /\ principal.groups = <<>>
     \/ principal.method = "oidc" /\ validOIDCGroups(principal.groups)
=============================================================================
