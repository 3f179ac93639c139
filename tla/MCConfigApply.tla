---------------------------- MODULE MCConfigApply ----------------------------
(* A small host: an editor, a script and a Cockpit page; the installation  *)
(* left write mode with a token file, as the packages do.                  *)
EXTENDS ConfigApply

CONSTANT vipA

Packaged == [vip |-> vipA, read_only |-> FALSE, token_file |-> TRUE]
=============================================================================
