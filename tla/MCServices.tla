----------------------------- MODULE MCServices -----------------------------
(***************************************************************************)
(* The four services for TLC.  Registry: one founder and one agent to      *)
(* come, calls of every kind.  Logins: one integration with two keys, the  *)
(* shared login and an agent's own.  Containers: two runs, two calls of    *)
(* cancel().  Artefacts: two paths, two files, limits that both pass.      *)
(***************************************************************************)
EXTENDS Services

CONSTANTS ann, bob       \* agents

MCDmName(a) == IF a = ann THEN "dm-ann" ELSE "dm-bob"
=============================================================================
