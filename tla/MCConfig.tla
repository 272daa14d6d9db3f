------------------------------ MODULE MCConfig ------------------------------
(* Small instances of the loader of proxy.conf. *)
EXTENDS Config

PlainLocations == {[arg |-> "none", word |-> "none"]}

\* Two kinds of location, each with a path that holds no keyword and with one
\* that holds a keyword.
SomeLocations == {[arg |-> "=", word |-> "none"], [arg |-> "=", word |-> "server"],
                  [arg |-> "~*", word |-> "none"], [arg |-> "~*", word |-> "listen"]}
=============================================================================
