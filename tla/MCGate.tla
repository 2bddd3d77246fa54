------------------------------- MODULE MCGate -------------------------------
(***************************************************************************)
(* Five families of cases for TLC, each varying one part of the decision.   *)
(***************************************************************************)
EXTENDS Gate

a == <<"a">>
Https == <<"https", ":", "/", "/">>
Host == Https \o <<"v">>
Page == <<"/", "p">>

Config == [rule |-> NoRule, assertions |-> <<>>, checkOnEveryRequest |-> FALSE,
           unauthenticated |-> "Unauthorized", unauthorized |-> "Unauthorized",
           validUris |-> <<>>, wildcards |-> FALSE, postLogin |-> <<>>, postLogout |-> <<"/">>]
NoSession == [kind |-> "none", authorized |-> FALSE, challenged |-> FALSE]
NoClaims == [n \in Names |-> <<>>]
Request == [to |-> "page", session |-> NoSession, claims |-> NoClaims, accept |-> <<>>,
            redirectUri |-> <<>>, origin |-> Host, uri |-> Page,
            path |-> <<"a", "b">>, host |-> a, method |-> a, header |-> <<"x">> :> a, query |-> <<"x">> :> a]

(***************************************************************************)
(* Rules: expressions of three operators over matchers that hold, that do   *)
(* not hold, and that can not be compiled                                   *)
(***************************************************************************)
Lit(s) == [op |-> "lit", value |-> s]
NoText == [op |-> "ident"]
Root(n) == <<>> :> n
Operand(i, x) == [p \in {Under(i, q) : q \in DOMAIN x} |-> x[Tail(p)]]
Call(name, args) == Root([op |-> "call", name |-> name, args |-> args])
Binary(op, x, y) == Root([op |-> op]) @@ Operand(1, x) @@ Operand(2, y)
Unary(op, x) == Root([op |-> op]) @@ Operand(1, x)

Plain == {Call("Path", <<Lit(<<"a", "b">>)>>), Call("PathPrefix", <<Lit(a)>>), Call("Method", <<Lit(<<"b">>)>>)}
Calls ==
  {Call(name, [i \in 1..n |-> Lit(s)]) : name \in DOMAIN Matchers, n \in 0..3, s \in {a, Empty, BadPattern}}
  \cup {Call(name, <<Lit(<<x>>), Lit(v)>>) : name \in {"Header", "HeaderRegexp", "Query", "QueryRegexp"},
          x \in {"x", "y"}, v \in {a, <<"b">>}}
  \cup {Call("Nothing", <<Lit(a)>>), Call("Path", <<NoText>>), Call("Header", <<Lit(a), NoText>>)}
Others == {Root(Lit(a)), Root(NoText)}
Unaries(S) == {Unary(op, x) : op \in {"!", "paren"}, x \in S}
Binaries(S, T) == {Binary(op, x, y) : op \in {"&&", "||", ">"}, x \in S, y \in T}

Small == Plain \cup Others
Once == Small \cup Unaries(Small) \cup Binaries(Plain, Plain) \cup Binaries(Others, Plain)
Rules == Calls \cup Unaries(Calls) \cup Unaries(Unaries(Once)) \cup Binaries(Once, Once)

RuleFamily == [configs |-> {[Config EXCEPT !.rule = rule] : rule \in Rules}, requests |-> {Request}]

(***************************************************************************)
(* Assertions: one against up to three nodes, and two in turn               *)
(***************************************************************************)
Quantified(name, anys, alls) == [name : {name}, anyOf : anys, allOf : alls]
Alls == {<<>>, <<"x">>, <<"x", "y">>, <<"x", "x">>, <<"y", "x">>}
Anys == {{}, {"x"}, {"z"}, {"y", "z"}}
Nodes == {[array |-> TRUE, values |-> vs] : vs \in SUBSET Values}
         \cup {[array |-> FALSE, values |-> {v}] : v \in Values}
UpTo(S, n) == UNION {[1..k -> S] : k \in 0..n}
Asking(lists) == {[Config EXCEPT !.assertions = as] : as \in lists}
Claiming(claimed) == {[Request EXCEPT !.claims = c, !.session.kind = "header"] : c \in claimed}

OneAssertion ==
  [configs |-> Asking({<<as>> : as \in Quantified("n", Anys, Alls)}),
   requests |-> Claiming({[NoClaims EXCEPT !["n"] = found] : found \in UpTo(Nodes, 3)})]
TwoAssertions ==
  [configs |-> Asking({<<as, more>> : as \in Quantified("n", {{}, {"x"}}, {<<>>, <<"x">>}),
                                      more \in Quantified("m", {{}, {"z"}}, {<<>>, <<"x", "y">>})}),
   requests |-> Claiming([Names -> UpTo(Nodes, 1)])]

(***************************************************************************)
(* Redirects: URIs and entries of several sites and paths                   *)
(***************************************************************************)
Sites == {<<>>} \cup {Https \o h : h \in
           {<<"v">>, <<"v", ".", "w">>, <<"w", "w", ".", "w">>, <<"v", ".", "v", ".", "w">>,
            <<"v", ".", "w", ":", "v">>, <<"v", ".", "w", "@", "w">>}} \cup {<<"http", ":", "/", "/", "v", ".", "w">>}
SitePatterns == Sites \cup {Https \o h : h \in
           {<<"*">>, <<"*", ".", "w">>, <<"v", ".", "*">>, <<"v", ".", "w", ":", "*">>, <<"v", "*", ".", "w">>}}
Paths == {<<>>, <<"/">>, <<"/", "v">>, <<"/", "v", "/", "w">>, <<"/", "v", "w">>, <<"/", "v", "/", ".", ".">>,
          <<"/", "v", "%2f", "%2e", ".", "%00">>, <<"/", ".", ".", "w">>, <<"/", "v", "?", "w">>, <<"?", "w">>,
          <<"/", "v", "#", "/", "w">>, <<"/", "v", "?", "http", ":", "/", "/", "w">>, <<"/", "/", "v">>,
          <<"/", "v", ":", "/">>, <<":", "/", "/", "w">>}
PathPatterns == {<<>>, <<"/">>, <<"/", "v">>, <<"/", "*">>, <<"/", "v", "/", "*">>, <<"/", "v", "*">>,
                 <<"*">>, <<"/", "v", "?", "w">>, <<"/", "v", "?", "*">>,
                 <<"/", "v", "?", "http", ":", "/", "/", "*">>, <<"/", "v", ":", "/", "/", "*">>}

RedirectFamily ==
  [configs |-> {[Config EXCEPT !.validUris = entries, !.wildcards = w, !.postLogin = <<"v">>] :
                  w \in BOOLEAN,
                  entries \in {<<s \o p>> : s \in SitePatterns, p \in PathPatterns}
                              \cup {<<>>, <<<<"/", "v">>, Https \o <<"*", "/", "*">>>>}},
   requests |-> {[Request EXCEPT !.to = "login", !.redirectUri = s \o p] : s \in Sites, p \in Paths}]

(***************************************************************************)
(* Routes: sessions, behaviours and kinds of requests                       *)
(***************************************************************************)
Accepts == {<<>>, <<[type |-> "malformed", weight |-> 2], [type |-> "text/html", weight |-> 1]>>,
            <<[type |-> "*/*", weight |-> 1], [type |-> "text/html", weight |-> 1]>>,
            <<[type |-> "*/*", weight |-> 1], [type |-> "text/html", weight |-> 2]>>}
HasX == [name |-> "n", anyOf |-> {"x"}, allOf |-> <<>>]
Sessions == {s \in [kind : {"none", "cookie", "header"}, authorized : BOOLEAN, challenged : BOOLEAN] :
               s.kind # "cookie" => s = [NoSession EXCEPT !.kind = s.kind]}

RouteFamily ==
  [configs |-> {[Config EXCEPT !.rule = rule, !.assertions = <<HasX>>, !.checkOnEveryRequest = check,
                               !.unauthenticated = unauthenticated, !.unauthorized = unauthorized,
                               !.validUris = <<Page>>] :
                  rule \in {NoRule, Call("PathPrefix", <<Lit(a)>>)}, check \in BOOLEAN,
                  unauthenticated \in Behaviors, unauthorized \in Behaviors \ {"Auto"}},
   requests |-> {[Request EXCEPT !.to = to, !.session = session, !.accept = accept, !.redirectUri = uri,
                                 !.claims = [NoClaims EXCEPT !["n"] = <<[array |-> FALSE, values |-> {v}]>>]] :
                  to \in {"page", "login", "logout", "callback"}, session \in Sessions, accept \in Accepts,
                  uri \in {<<>>, Page, <<"/", "v">>}, v \in {"x", "y"}}]

MCFamilies == <<RuleFamily, OneAssertion, TwoAssertions, RedirectFamily, RouteFamily>>
=============================================================================
