------------------------------ MODULE MCIngest ------------------------------
(* Two articles, one of them with an address memcached refuses; two crawls   *)
(* beside each other, which are alike, and a submission that may save twice. *)
EXTENDS Ingest, TLC

Alike == Permutations(Crawls)

=============================================================================
