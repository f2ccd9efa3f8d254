------------------------------ MODULE MCRules -------------------------------
(* Constants for model-checking Rules.tla.                                 *)
EXTENDS Rules

\* One editor of everything, as the platform's super admin is.
MCManages == [u \in Users |-> Scopes]
=============================================================================
