---------------------------- MODULE MCAdmission -----------------------------
(***************************************************************************)
(* Admission on three small deployments: one with several policies and     *)
(* kinds of group claims, one with clocks that differ and tokens for       *)
(* others, and one with prices and usages at the ends of the integers.     *)
(***************************************************************************)
EXTENDS Admission

Rule(id, effect, principals, groups, endpoints, models) ==
  [id |-> id, effect |-> effect, principals |-> principals, groups |-> groups,
   endpoints |-> endpoints, models |-> models]

Document(version, rules) == [version |-> version, rules |-> rules]

\* Group 1 or 2 may use every model, principal 2 not model 2.
TeamRules == <<Rule(2, "deny", <<2>>, <<>>, <<1>>, <<2>>),
               Rule(1, "allow", <<>>, <<2, 1>>, <<2, 1>>, <<2, 3, 1>>)>>

\* The same in another order.
TeamReordered == <<Rule(1, "allow", <<>>, <<1, 2>>, <<1, 2>>, <<1, 2, 3>>),
                   Rule(2, "deny", <<2>>, <<>>, <<1>>, <<2>>)>>

\* The same in both orders, and under another version.
Team == {Document(1, TeamRules), Document(1, TeamReordered), Document(2, TeamReordered)}

\* Principals 1 and 2 may, 1 only as a member of group 2, and group 3 not model 3.
Both == Document(1, <<Rule(3, "allow", <<1>>, <<2>>, <<1, 2>>, <<1, 3>>),
                      Rule(1, "allow", <<2>>, <<>>, <<1>>, <<1, 2>>),
                      Rule(2, "deny", <<>>, <<3>>, <<1, 2>>, <<3>>)>>)

\* Not accepted: two rules of one id, a rule for nobody, a selector that repeats,
\* a version that its pattern rejects.
Refused == {Document(1, <<Rule(1, "allow", <<1>>, <<>>, <<1>>, <<1>>),
                          Rule(1, "deny", <<2>>, <<>>, <<1>>, <<1>>)>>),
            Document(1, <<Rule(1, "allow", <<>>, <<>>, <<1>>, <<1>>)>>),
            Document(1, <<Rule(1, "allow", <<1, 1>>, <<>>, <<1>>, <<1>>)>>),
            Document(0, TeamRules)}

Everyone == Document(1, <<Rule(1, "allow", <<1, 2>>, <<>>, <<1>>, <<1>>)>>)

Token(sub, kind, groups) ==
  [alg |-> "RS256", kid |-> 1, key |-> IssuerKey, iss |-> Issuer, aud |-> Audience,
   sub |-> sub, groups |-> [kind |-> kind, values |-> groups],
   iat |-> <<>>, nbf |-> <<>>, exp |-> <<>>]

Plain == Token(1, "absent", <<>>)

NoUsage == [prompt |-> 1, completion |-> 0, total |-> 1]
OnePrice == [input |-> 1, output |-> 1, maxOutput |-> 1]

Policies ==
  [documents |-> Team \cup {Both} \cup Refused,
   tokens |-> {Plain, Token(1, "string", <<2>>), Token(1, "list", <<2, 1>>), Token(2, "list", <<1, 1>>),
               Token(2, "list", <<3, 2>>), Token(1, "list", <<1, 2, 3>>), Token(1, "list", <<0>>),
               Token(1, "other", <<>>)},
   skews |-> {0}, horizon |-> 0,
   prices |-> {OnePrice}, bodies |-> {0}, usages |-> {NoUsage}]

Clocks ==
  [documents |-> {Everyone},
   tokens |-> {Plain, [Plain EXCEPT !.aud = "other"], [Plain EXCEPT !.iss = "other"],
               [Plain EXCEPT !.alg = "none"], [Plain EXCEPT !.kid = 0], [Plain EXCEPT !.key = "other_key"],
               [Plain EXCEPT !.sub = 0]},
   skews |-> -2..2, horizon |-> 3,
   prices |-> {OnePrice}, bodies |-> {0}, usages |-> {NoUsage}]

Prices ==
  [documents |-> {Everyone}, tokens |-> {Plain}, skews |-> {0}, horizon |-> 0,
   prices |-> [input : {1, 7, 31}, output : {1, 9, 63}, maxOutput : {1, 6, 63}] \cup {[OnePrice EXCEPT !.input = 0]},
   bodies |-> {0, 3, 20, 100, 251},
   usages |-> {[prompt |-> p, completion |-> c, total |-> Wrap(p + c)] :
                 p \in {0, 1, 6, 26, 63}, c \in {0, 1, 7, 63}} \cup {[NoUsage EXCEPT !.total = 2]}]

PolicyDeployments == [policies |-> Policies]
MCDeployments == [policies |-> Policies, clocks |-> Clocks, prices |-> Prices]
=============================================================================
