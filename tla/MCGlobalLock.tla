---------------------------- MODULE MCGlobalLock ----------------------------
(* GlobalLock for TLC: two worker processes, t1 and t2 threads of the first. *)
EXTENDS GlobalLock, TLC

CONSTANTS t1, t2, t3, p1, p2, a1, a2, e1, e2

MCThreads == {t1, t2, t3}
MCLocker == [t \in {t1, t2, t3} |-> IF t = t3 THEN p2 ELSE p1]
MCTwoThreads == {t1, t2}
MCTwoLockers == [t \in {t1, t2} |-> p1]
MCHome == (e1 :> a1) @@ (e2 :> a2)
MCOneHome == e1 :> a1
=============================================================================
