----------------------------- MODULE MCIncident ------------------------------
(* A chain of four with a sibling halfway: root, root/app, root/app/fox,        *)
(* root/app/fox/tab, root/app/vim.                                              *)
EXTENDS Incident

CONSTANTS root, app, fox, tab, vim

MCAbove ==
    (root :> {}) @@ (app :> {root}) @@ (fox :> {root, app}) @@ (tab :> {root, app, fox})
        @@ (vim :> {root, app})

MCPlace == (root :> 1) @@ (app :> 2) @@ (fox :> 3) @@ (tab :> 4) @@ (vim :> 5)

MCPairs == <<<<"app", "cpu">>, <<"app", "io">>, <<"fox", "cpu">>, <<"fox", "io">>, <<"vim", "memory">>>>
=============================================================================
