--------------------------- MODULE MCHookDispatch ---------------------------
(***************************************************************************)
(* TLC instances of HookDispatch: a hook for everything, one aimed at a    *)
(* transition, and one that is disabled.                                   *)
(***************************************************************************)
EXTENDS HookDispatch, TLC

all == [events |-> Kinds, transitions |-> {}, target |-> Inline, enabled |-> TRUE]

aimed == [events |-> {"deploy.status_changed", "deploy.created"},
          transitions |-> { << "DEPLOYED", "TESTING" >> }, target |-> Inline, enabled |-> TRUE]

disabled == [all EXCEPT !.enabled = FALSE]

EverySubscription == {all, aimed, disabled}

AimedOnly == {aimed}

Interchangeable == Permutations(Hooks)

=============================================================================
