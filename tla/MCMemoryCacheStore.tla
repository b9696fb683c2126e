------------------------- MODULE MCMemoryCacheStore -------------------------
(* The response cache on both of its levels: the store, two entries large,    *)
(* under calls that overlap (three keys, two goroutines, four Sets), and a    *)
(* cached route as two clients and two users see it, whose data changes once. *)
(* Each behaviour is of one level, the other standing still.                  *)
EXTENDS MemoryCacheStore, RouteCache, TLC

VARIABLE subject

allVars == <<subject, vars, routeCacheVars>>

MCInit == subject \in {"store", "route"} /\ Init /\ RouteCacheInit

MCNext ==
  \/ subject = "store" /\ Next /\ UNCHANGED <<subject, routeCacheVars>>
  \/ subject = "route" /\ RouteCacheNext /\ UNCHANGED <<subject, vars>>

MCSpec == MCInit /\ [][MCNext]_allVars

\* Both levels keep their types.
MCTypeOK == TypeOK /\ RouteCacheTypeOK

Symmetry == Permutations(Keys) \cup Permutations(Goroutines)
              \cup Permutations(Callers) \cup Permutations(Users)
=============================================================================
