---- MODULE MCTxn ----
(* TxnEngine on small purchases. *)
EXTENDS TxnEngine
====
