----------------------------- MODULE MCForkExec -----------------------------
(***************************************************************************)
(* Instances of ForkExec for TLC.  With nine descriptors two calls in      *)
(* flight run into the limit.                                              *)
(***************************************************************************)
EXTENDS ForkExec

\* A command with merged output, and a call with a mode that is refused after
\* a pipe was made for the first stream.
Modes == {<<"DevNull", "Pipe", "MergeWithStdout">>, <<"Pipe", "MergeWithStdout", "Pipe">>}

\* Two entries that must be moved up, and a nil entry in a short list.
Lists == {<<0, 0, 1>>, <<2, -1>>}

=============================================================================
