----------------------------- MODULE MCRequest -----------------------------
(* A server with a location of each kind for TLC.                          *)
EXTENDS Request

Static(k, p) == [matchType |-> k, pattern |-> p, isStatic |-> TRUE,
                 strategy |-> "ROUND_ROBIN", servers |-> 0]

Proxy(k, p, s, n) == [matchType |-> k, pattern |-> p, isStatic |-> FALSE,
                      strategy |-> s, servers |-> n]

MCLocations == << Static("EXACT", <<"/", "a">>),
                  Proxy("PREFIX", <<"/", "b">>, "ROUND_ROBIN", 2),
                  Proxy("REGEX", <<"a">>, "IP_HASH", 1),
                  Proxy("NONE", <<"h", "a">>, "WEIGHTED_ROUND_ROBIN", 1) >>

\* Served by the first, second, third and fourth location, and by none.  The
\* second address is the third location's too, and the third the fourth's; the
\* fourth only begins like its location.
MCUris == { <<"/", "a">>, <<"/", "b", "a">>, <<"h", "a">>, <<"h">>, <<"*">> }

=============================================================================
