-------------------------- MODULE MCPermissionCache --------------------------
(***************************************************************************)
(* Instances of PermissionCache: two requests, in one worker with threads  *)
(* or in a worker each.                                                    *)
(***************************************************************************)
EXTENDS PermissionCache, TLC

\* Any slot in any process: requests share one, or have one each.
MCDeployments == [Requests -> Workers]

MCSymmetry == Permutations(Requests) \cup Permutations(Workers)

\* An entry whose time has come is as good as none.
Present(cache) == [w \in Workers |-> [n \in Names |->
                    IF Valid(cache[w][n]) THEN cache[w][n] ELSE Absent]]

\* How long ago a right was held, and who changed it last, matter as far as the
\* properties ask.
Ages == [n \in Names |-> [x \in Rights |->
            IF HeldWithin(n, x, Window) THEN lastHeld[n][x] ELSE -1]]
Changers == IF \E w \in Workers : Sequential(w) THEN lastBy ELSE None

MCView == <<primary, secondary, rights, Present(groups), Present(perms), req,
            workerOf, now, Ages, Changers>>
=============================================================================
