----------------------------- MODULE MCWorkflow -----------------------------
(* Two executions over one or two run ids; the two labels share a file. *)
EXTENDS Workflow

MCFiles == {"f"}
MCOptions == <<{<<"x", None>>}, {<<"y", "x">>, <<"x", "x">>, <<"x", None>>}>>
MCMaxCalls == <<2, 1>>
MCFile == [k \in Keys |-> "f"]
=============================================================================
