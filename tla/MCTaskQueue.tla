------------------------------ MODULE MCTaskQueue ------------------------------
(* Small instances of TaskQueue for TLC. *)
EXTENDS TaskQueue

CONSTANTS w1, w2

\* NewServer's configuration.
ServerDefault == <<"default">>
ServerNames   == {<<>>, <<"default">>}

\* A configuration whose workers read what clients of queue "jobs" push: the
\* default name spells out the key.
PrefixedDefault == <<"queue", "jobs">>
PrefixedNames   == {<<"jobs">>, <<>>}
===============================================================================
