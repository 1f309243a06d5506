------------------------------- MODULE MCIngest -------------------------------
(* Ingest for model checking: a PUT and three records, two of them with    *)
(* the same key.                                                           *)
EXTENDS Ingest, TLC

CONSTANTS put, first, retry, other, k1, k2

MCKey == (put :> NoKey) @@ (first :> k1) @@ (retry :> k1) @@ (other :> k2)

===============================================================================
