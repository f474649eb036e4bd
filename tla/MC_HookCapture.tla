-------------------------- MODULE MC_HookCapture --------------------------
(* Instances of HookCapture for TLC. *)
EXTENDS HookCapture, TLC

CONSTANTS h1, h2, h3, h4, e1, e2, e3

\* h1 and h2 handle the same event.
Calls == [h \in {h1, h2} |-> e1] @@ (h3 :> e2) @@ (h4 :> e3)

\* All edits are of one file; e2 differs from e1 only after the first 1200 characters.
OneFile == [e \in Edits |-> "file"]
Openings == [e \in Edits |-> IF e = e2 THEN e1 ELSE e]

\* A handler that has capture switched off runs beside another of its event, or
\* beside one of an edit without observation; or two edits that begin alike meet.
Pairs == {{h1, h2}, {h2, h4}, {h1, h3}}
=============================================================================
