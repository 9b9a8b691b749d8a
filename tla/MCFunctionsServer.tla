--------------------------- MODULE MCFunctionsServer ---------------------------
(* Instances of FunctionsServer for TLC.                                       *)
EXTENDS FunctionsServer, TLC

CONSTANTS a, b, r1, r2

(* Two requests to one workspace; one to two workspaces; a request and a run of *)
(* the debugger                                                                 *)
AllScenarios ==
    {(r1 :> {a}) @@ (r2 :> {a}), (r1 :> {a, b}), (r1 :> {a}) @@ (r2 :> {})}
=============================================================================
