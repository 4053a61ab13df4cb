------------------------------ MODULE MCClient ------------------------------
(***************************************************************************)
(* Two goroutines and three calls of Start, Stop or Restart; a message in  *)
(* each direction; the remote user's clock is behind.                      *)
(***************************************************************************)
EXTENDS Client, TLC

CONSTANTS local, remote, m1, m2, t1, t2

MCUsers == {local, remote}
MCMessages == {m1, m2}
MCFrom == (m1 :> remote) @@ (m2 :> local)
MCCreated == (m1 :> 0) @@ (m2 :> 1)
MCThreads == {t1, t2}
=============================================================================
