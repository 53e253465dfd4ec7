------------------------------ MODULE MCStore -------------------------------
(* Store with one backend of each type, two chunks, the drain and a handler. *)
EXTENDS Store, TLC

CONSTANTS c1, c2, github, wandb, telegram, local, drain, handler

MCKey == {c1, c2}
MCBackend == {github, wandb, telegram, local}
MCKind == github :> "github" @@ wandb :> "wandb" @@ telegram :> "telegram" @@ local :> "local"
MCIx == {Router, github, wandb, telegram}
MCRef == MCBackend \cup 1..MaxWrites
MCLimit == github :> 2 @@ wandb :> 1 @@ telegram :> 1 @@ local :> 1
MCCaller == {drain, handler}
MCDoes == drain :> {"write"} @@ handler :> {"delete"}
Symmetry == Permutations(MCKey)

=============================================================================
