----------------------------- MODULE MCSchemas -----------------------------
(***************************************************************************)
(* Instances of Schemas for TLC: two keys of one name and a third of       *)
(* another, documents that parse, do not parse or have recursive $refs.    *)
(***************************************************************************)
EXTENDS Schemas

MCKeys == {<<"pay", "json">>, <<"pay", "yaml">>, <<"user">>}
MCRank == [k \in MCKeys |->
  CASE k = <<"pay", "json">> -> 1 [] k = <<"pay", "yaml">> -> 2 [] OTHER -> 3]
=============================================================================
