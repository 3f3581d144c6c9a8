------------------------- MODULE MCKiteAuthentication -------------------------
(***************************************************************************)
(* Instances of KiteAuthentication: account reads and orders beside two    *)
(* logins; two WebSockets beside two logins; two operators with a failing  *)
(* database and a crash.  part says which one this behaviour is.  Threads  *)
(* of one kind, sockets and request tokens are interchangeable.            *)
(***************************************************************************)
EXTENDS KiteAuthentication, TLC

CONSTANTS a1, a2, r1, w1, w2, q1, q2

VARIABLE part

Symmetry == Permutations({a1, a2}) \cup Permutations({w1, w2}) \cup Permutations({q1, q2})

Streaming == INSTANCE KiteAuthentication WITH
               Operators <- {a1}, Readers <- {}, Threads <- {a1}, Sockets <- {w1, w2},
               MaxRequests <- 0
Storing == INSTANCE KiteAuthentication WITH
             Operators <- {a1, a2}, Readers <- {}, Threads <- {a1, a2}, Sockets <- {},
             MaxRemembered <- 1, MaxRequests <- 0, MaxCrashes <- 1, DatabaseFails <- TRUE

KiteInit ==
  \/ part = "requests" /\ Init
  \/ part = "sockets" /\ Streaming!Init
  \/ part = "store" /\ Storing!Init

KiteNext ==
  /\ UNCHANGED part
  /\ \/ part = "requests" /\ Next
     \/ part = "sockets" /\ Streaming!Next
     \/ part = "store" /\ Storing!Next

KiteSpec == KiteInit /\ [][KiteNext]_<<part, vars>>

=============================================================================
