--------------------------- MODULE MCOpenAPICache ---------------------------
(* The instance of OpenAPICache that TLC checks: three routers, one of them    *)
(* unversioned, two of them of one version, mounted by two goroutines while    *)
(* two requests read the documents.                                            *)
EXTENDS OpenAPICache, TLC

CONSTANTS r1, r2, r3, v1, v2

MCVersionOf == r1 :> v1 @@ r2 :> v1 @@ r3 :> Unversioned
=============================================================================
