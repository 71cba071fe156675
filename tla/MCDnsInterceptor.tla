--------------------------- MODULE MCDnsInterceptor ---------------------------
(* Two names, one below the other: the lower one may be an alias of the upper one. *)
EXTENDS DnsInterceptor, TLC

MCName == {<<"com", "site">>, <<"com", "site", "cdn">>}
MCSelections == {[match |-> {<<"com", "site">>}, target |-> {}],
                 [match |-> {<<"com", "site", "cdn">>, <<"com", "site">>},
                  target |-> {<<"com", "site">>}]}

\* Nothing tells one look-up of the proxy from another.
Alike == Permutations(Resolver)
=============================================================================
