------------------------------ MODULE MCNetAsio ------------------------------
(* NetAsio with two sessions (an old one and its successor). *)
EXTENDS NetAsio

CONSTANTS s1, s2

MCSessions == {s1, s2}
==============================================================================
