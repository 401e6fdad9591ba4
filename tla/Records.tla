------------------------------ MODULE Records ------------------------------
(***************************************************************************)
(* Records whose fields grow as a request goes on: what a handler has read *)
(* so far and where it stands.                                             *)
(***************************************************************************)

\* The fields of "fields", and those of "record" besides.
Over(fields, record) ==
  [f \in DOMAIN fields \cup DOMAIN record |->
     IF f \in DOMAIN fields THEN fields[f] ELSE record[f]]
=============================================================================
