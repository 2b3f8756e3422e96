---------------------------- MODULE MCProviders ----------------------------
(* Two providers; the first is stored in two spellings, as the setup       *)
(* script does (init-testbed.sh:402-405).                                  *)
EXTENDS Providers
CONSTANTS a, a_slash, b
NamedIssuer == [u \in Url |-> IF u = a_slash THEN a ELSE u]
=============================================================================
