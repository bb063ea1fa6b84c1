---------------------------- MODULE JobLifecycle -----------------------------
(***************************************************************************)
(* What a media job promises its owner, media_torrent_manager: it gathers, *)
(* then renders on one detached thread or gives up, and its verdict is     *)
(* final ("done, safe to delete now").  The manager deletes the job as     *)
(* soon as is_finish() holds, so a second thread, a rendering thread that  *)
(* outlives the verdict, or a verdict taken back would be fatal.           *)
(***************************************************************************)
EXTENDS Integers

VARIABLES
  phase,    \* "gathering", "rendering", "done" or "failed"
  running,  \* detached threads of the job that have not reported their verdict
  started   \* detached threads the job has ever started

Init == phase = "gathering" /\ running = 0 /\ started = 0

GiveUp ==
  /\ phase = "gathering"
  /\ phase' = "failed"
  /\ UNCHANGED <<running, started>>

StartRendering ==
  /\ phase = "gathering"
  /\ started = 0
  /\ phase' = "rendering"
  /\ running' = 1
  /\ started' = 1

ReportVerdict ==
  /\ phase = "rendering"
  /\ phase' \in {"done", "failed"}
  /\ running' = 0
  /\ UNCHANGED started

Next == GiveUp \/ StartRendering \/ ReportVerdict

Spec == Init /\ [][Next]_<<phase, running, started>>
=============================================================================
