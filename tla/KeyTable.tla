------------------------------ MODULE KeyTable ------------------------------
(***************************************************************************)
(* The table "keys" as the jobs that read it see it: AddAuthzKey, the last *)
(* statement of a create-key command, adds rows at the end, and at most    *)
(* one for a chain and a type.  What comes before it in the command is in  *)
(* Keyring.                                                                *)
(***************************************************************************)
EXTENDS Sequences

VARIABLE keys      \* the table, in order of insertion

Taken(row) ==
  \E i \in DOMAIN keys : keys[i].chain = row.chain /\ keys[i].type = row.type

Init == keys = << >>

Insert(row) ==
  /\ ~Taken(row)
  /\ keys' = Append(keys, row)
=============================================================================
