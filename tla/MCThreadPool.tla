--------------------------- MODULE MCThreadPool ----------------------------
(* ThreadPool on a session and its children and grandchildren.             *)
EXTENDS ThreadPool, TLC

CONSTANTS p1, p2, p3

MCProcs == {p1, p2, p3}

(* Blocks nest in the session; a child opens one, a grandchild none.       *)
MCDepth == (p1 :> 2) @@ (p2 :> 1) @@ (p3 :> 0)
(* PIDs are only compared, so the session's may be fixed.                  *)
MCInit == Init /\ pid[p1] = 101

MCSpec == MCInit /\ [][Next]_vars /\ Fairness
=============================================================================
