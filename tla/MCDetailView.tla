----------------------------- MODULE MCDetailView -----------------------------
(* Instances of DetailView for TLC. *)
EXTENDS DetailView, TLC

DetailSymmetry ==
  Permutations(Viewer) \union Permutations(Container) \union Permutations(Req)

(***************************************************************************)
(* What the comments of showDetail and connectLogsWS say and the code does *)
(* not keep; each is violated under DetailDisagreements.                   *)
(***************************************************************************)

\* "Kill every managed refresh interval from the previous tab": it no longer stomps
\* on the tab that was opened.  The request it had sent still does.
DetailNotStomped == content.tab \in Tab => content.tab = shown.tab

\* "clean close (navigation away or disconnect)": a stream whose viewer was left does
\* not come back.  The close of a tab switch carries no code, and a log viewer of
\* another container is enough for the timer.
DetailNoGhost ==
  \A v \in Viewer : Is(v, "open") /\ stream[v].tries > 0 => v = viewer
=============================================================================
