------------------------ MODULE MCEPollSocketServer ------------------------
(* The epoll server on small instances: clients are interchangeable. *)
EXTENDS EPollSocketServer

Symmetry == Permutations(Conns)
=============================================================================
