---------------------------- MODULE MCContainers ----------------------------
(* Small instances of the containers. *)
EXTENDS Containers

\* The empty string, one character and two.
ShortStrings == UNION {[1 .. n -> Values] : n \in 0 .. 2}

\* Two keys of each remainder, one of them negative: the descriptors of
\* listeners that could not be opened are keys too.
KeysAndErrors == {-2, -1, 0, 1, 3}
=============================================================================
