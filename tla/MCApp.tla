-------------------------------- MODULE MCApp --------------------------------
(* App with two boards, and answers of the release service that are right,  *)
(* out of order, from before the catalogs, or none.                         *)
EXTENDS App

CONSTANTS pi4, pi5

Manifest(schema, ch, version, second) ==
  [schema |-> schema, channel |-> ch, version |-> version,
   image |-> [b \in Boards |-> IF b = pi4 THEN "complete" ELSE second]]

Catalogue(ch, releases) ==
  [kind |-> "catalog", catalog |-> [schema |-> 1, channel |-> ch, releases |-> releases]]

MCAnswers ==
  LET new(ch) == Manifest(2, ch, 2, "unhashed")
      old(ch) == Manifest(2, ch, 1, "complete")
  IN  {Catalogue("release", <<new("release")>>),
       Catalogue("beta", <<new("beta"), old("beta")>>),
       Catalogue("beta", <<old("beta"), new("beta")>>),
       [kind |-> "latest", manifest |-> Manifest(NoSchema, "release", 2, "movable")],
       [kind |-> "unreachable"]}
=============================================================================
