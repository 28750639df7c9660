-------------------------- MODULE MCServiceLifecycle --------------------------
(* ServiceLifecycle on small instances. *)
EXTENDS ServiceLifecycle

Production == [production |-> TRUE, valid |-> TRUE, allowPrivate |-> FALSE,
               origins |-> TRUE, storage |-> Storage]
Development == [production |-> FALSE, valid |-> TRUE, allowPrivate |-> TRUE,
                origins |-> FALSE, storage |-> Storage]

\* A production and a development, and what may be wrong with either: guard off,
\* origins open, a setting invalid, storage half configured.
Deployments ==
    {Production, Development,
     [Production EXCEPT !.allowPrivate = TRUE],
     [Production EXCEPT !.origins = FALSE],
     [Production EXCEPT !.valid = FALSE],
     [Production EXCEPT !.storage = {"STORAGE_BUCKET"}]}
=============================================================================
