------------------------------- MODULE MCHttp -------------------------------
(***************************************************************************)
(* Instances of HttpServer for TLC.                                        *)
(***************************************************************************)
EXTENDS HttpServer

CONSTANTS w1, w2

TwoWorkers == {w1, w2}

Job(route, coins) == [route |-> route, coins |-> coins, good |-> TRUE, auth |-> TRUE]

\* Every route, a purchase without change, a bad body on both routes and a bad token.
SmallRequests ==
  {Job("txn", 2), Job("txn", 0), Job("dispense", 1), Job("open", 0), Job("close", 0)}
  \cup {[Job(r, 0) EXCEPT !.good = FALSE] : r \in {"txn", "open"}}
  \cup {[Job("txn", 0) EXCEPT !.auth = FALSE]}

\* The requests that move something.
MovingRequests == {Job("txn", 2), Job("dispense", 1), Job("open", 0), Job("close", 0)}
=============================================================================
