------------------------------ MODULE MediaBase ------------------------------
(***************************************************************************)
(* media_base (include/media_base.hpp, src/media_base.cpp): the part of a  *)
(* media job that gathers torrent pieces for its subclass, together with   *)
(* the calls media_torrent_manager::handle_loop makes on it and the part   *)
(* of the libtorrent session it talks to.                                  *)
(*                                                                         *)
(* Simplifications:                                                        *)
(*  - m_set_handle is TRUE from the constructor on and is left out;        *)
(*  - a piece's buffer is always that piece's content, so m_piece_data is  *)
(*    the set of its keys;                                                 *)
(*  - of m_last_receive only whether it is more than 10 seconds old is     *)
(*    kept ("overdue");                                                    *)
(*  - every method of this class runs on the thread of handle_loop, which  *)
(*    holds the manager's mutex, so a call is one step.                    *)
(***************************************************************************)
EXTENDS Integers, FiniteSets

CONSTANTS
  PieceLength,   \* fs.piece_length()
  TorrentSize,   \* fs.total_size()
  Files,         \* the files of the torrent a job may be created for
  SharedPieces,  \* the pieces jobs of other files of the torrent may ask for
  InitHave,      \* the sets of pieces the torrent may have when the job is created
  MaxLoss        \* bound on the alerts dropped and the reads that fail

Ceiling(a, b) == (a + b - 1) \div b
Pieces == 0 .. (Ceiling(TorrentSize, PieceLength) - 1)

ASSUME BaseAssumption ==
  /\ PieceLength \in Nat \ {0}
  /\ TorrentSize \in Nat \ {0}
  /\ \A f \in Files : f.off \in Nat /\ f.size \in Nat /\ f.off + f.size <= TorrentSize
  /\ SharedPieces \subseteq Pieces
  /\ InitHave \subseteq SUBSET Pieces
  /\ MaxLoss \in Nat

VARIABLES
  file,               \* m_file_index: the file of this job, never changes
  m_mode,             \* media_action_mode
  m_awaiting_pieces,  \* pieces asked for and not received
  m_piece_data,       \* pieces received
  overdue,            \* now - m_last_receive > 10 s
  wanted,             \* session: pieces with priority above dont_download
  have,               \* session: pieces downloaded and verified
  finished,           \* piece_finished_alert queued, not yet handled
  reading,            \* read_piece issued, its read_piece_alert not yet handled
  losses              \* alerts dropped and reads failed so far

jobVars == <<m_awaiting_pieces, m_piece_data, overdue>>
sessionVars == <<wanted, have, finished, reading, losses>>
baseVars == <<file, m_mode, jobVars, sessionVars>>

Modes == {"INIT", "READY", "CAN_FINISH", "TRY_TO_FINISH", "FINISH", "FAIL"}

BaseInit ==
  /\ file \in Files
  /\ m_mode = "INIT"
  /\ m_awaiting_pieces = {}
  /\ m_piece_data = {}
  /\ overdue = FALSE
  /\ wanted = {}
  /\ have \in InitHave
  /\ finished = {}
  /\ reading = {}
  /\ losses = 0

-----------------------------------------------------------------------------
(* Predicates and pure helpers of the class.                               *)

is_busy == m_mode \in {"CAN_FINISH", "TRY_TO_FINISH", "FINISH", "FAIL"}
is_finish == m_mode \in {"FINISH", "FAIL"}

\* The piece of the torrent that holds byte x of the file.
PieceOf(x) == (file.off + x) \div PieceLength

\* Mutant: the number of pieces taken from the size alone.
RangeOfSizeAlone(offset, size) ==
  IF size <= 0 THEN {} ELSE PieceOf(offset) .. (PieceOf(offset) + Ceiling(size, PieceLength) - 1)

map_byte_range(offset, size) ==
  IF size <= 0 THEN {} ELSE PieceOf(offset) .. PieceOf(offset + size - 1)

\* The piece get_piece_at_offset returns, {} for its nullptr: the key it looks
\* up is computed from the offset in the file, not in the torrent.
get_piece_at_offset(offset) ==
  IF m_awaiting_pieces = {} THEN {offset \div PieceLength} \intersect m_piece_data
                            ELSE {}

-----------------------------------------------------------------------------
(* Methods that change the job.  Each is a disjunction: what it does, or   *)
(* its early returns.                                                      *)

\* Mutant: the piece is no longer awaited, but not stored.
ReceiveWithoutStoring(p) ==
  \/ /\ ~is_busy
     /\ p \in m_awaiting_pieces
     /\ m_awaiting_pieces' = m_awaiting_pieces \ {p}
     /\ overdue' = FALSE
     /\ UNCHANGED m_piece_data
  \/ /\ is_busy \/ p \notin m_awaiting_pieces
     /\ UNCHANGED jobVars

receive_piece(p) ==
  \/ /\ ~is_busy
     /\ p \in m_awaiting_pieces
     /\ m_awaiting_pieces' = m_awaiting_pieces \ {p}
     /\ m_piece_data' = m_piece_data \union {p}
     /\ overdue' = FALSE
  \/ /\ is_busy \/ p \notin m_awaiting_pieces
     /\ UNCHANGED jobVars

\* piece_priority on an index outside the torrent has no effect in the session.
set_receive_pieces(pieces_list) ==
  /\ \/ /\ ~is_busy
        /\ m_awaiting_pieces = {}
        /\ m_awaiting_pieces' = pieces_list \ m_piece_data
        /\ wanted' = wanted \union ((pieces_list \ m_piece_data) \intersect Pieces)
        /\ overdue' = FALSE
     \/ /\ is_busy \/ m_awaiting_pieces # {}
        /\ UNCHANGED <<m_awaiting_pieces, wanted, overdue>>
  /\ UNCHANGED <<m_piece_data, have, finished, reading, losses>>

\* Mutant: read without asking have_piece.
RequestUnchecked ==
  /\ reading' = reading \union m_awaiting_pieces
  /\ overdue' = FALSE

\* Mutant: the retry only resets the clock.
RequestNothing == overdue' = FALSE /\ UNCHANGED reading

request_awaiting_pieces ==
  /\ reading' = reading \union (m_awaiting_pieces \intersect have)
  /\ overdue' = FALSE

\* process() while pieces are missing: check_last_receive_with_now.
ProcessWaiting ==
  /\ m_awaiting_pieces # {}
  /\ ~is_busy
  /\ overdue
  /\ request_awaiting_pieces
  /\ UNCHANGED <<file, m_mode, m_awaiting_pieces, m_piece_data,
                 wanted, have, finished, losses>>

ProcessInit ==
  /\ m_awaiting_pieces = {}
  /\ m_mode = "INIT"
  /\ m_mode' = "READY"
  /\ UNCHANGED <<file, jobVars, sessionVars>>

\* The guard under which process() calls the subclass's process_ready.
CallsProcessReady == m_awaiting_pieces = {} /\ m_mode = "READY"

\* The guard under which process() sets TRY_TO_FINISH and calls process_final.
CallsProcessFinal == m_awaiting_pieces = {} /\ m_mode = "CAN_FINISH"

-----------------------------------------------------------------------------
(* handle_loop's treatment of the piece alerts, and the session.           *)

PieceFinishedAlert(p) ==
  /\ p \in finished
  /\ finished' = finished \ {p}
  /\ reading' = reading \union {p}
  /\ UNCHANGED <<file, m_mode, jobVars, wanted, have, losses>>

ReadPieceAlert(p) ==
  /\ p \in reading
  /\ reading' = reading \ {p}
  /\ receive_piece(p)
  /\ UNCHANGED <<file, m_mode, wanted, have, finished, losses>>

\* The read fails (only logged), or its alert is dropped by a full alert queue.
ReadPieceLost(p) ==
  /\ p \in reading
  /\ losses < MaxLoss
  /\ losses' = losses + 1
  /\ reading' = reading \ {p}
  /\ UNCHANGED <<file, m_mode, jobVars, wanted, have, finished>>

Download(p) ==
  /\ p \in wanted \ have
  /\ have' = have \union {p}
  /\ \/ finished' = finished \union {p} /\ UNCHANGED losses
     \/ losses < MaxLoss /\ losses' = losses + 1 /\ UNCHANGED finished
  /\ UNCHANGED <<file, m_mode, jobVars, wanted, reading>>

OtherJobWants(p) ==
  /\ p \in SharedPieces \ wanted
  /\ wanted' = wanted \union {p}
  /\ UNCHANGED <<file, m_mode, jobVars, have, finished, reading, losses>>

\* Ten seconds pass; only a job that waits for pieces ever looks at the clock.
TenSeconds ==
  /\ m_awaiting_pieces # {}
  /\ ~overdue
  /\ overdue' = TRUE
  /\ UNCHANGED <<file, m_mode, m_awaiting_pieces, m_piece_data, sessionVars>>

-----------------------------------------------------------------------------
(* Type invariant of this part of the state.                               *)
BaseTypeOK ==
  /\ file \in Files
  /\ m_mode \in Modes
  /\ m_awaiting_pieces \subseteq Int
  /\ m_piece_data \subseteq Pieces
  /\ overdue \in BOOLEAN
  /\ wanted \subseteq Pieces
  /\ have \subseteq Pieces
  /\ finished \subseteq have
  /\ reading \subseteq have
  /\ losses \in 0 .. MaxLoss
=============================================================================
