----------------------------- MODULE MCResumeFile -----------------------------
(***************************************************************************)
(* Small instances of ResumeFile: headers rounded to a few bytes.          *)
(***************************************************************************)
EXTENDS ResumeFile
=============================================================================
