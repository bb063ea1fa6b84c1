------------------------------ MODULE MediaTest ------------------------------
(***************************************************************************)
(* media_test (include/media_test.hpp, src/media_test.cpp): the job the    *)
(* gathering of media_base is tried out with.  It asks for the start of    *)
(* the file, then for a sample behind 40% of it, and looks the pieces up.  *)
(***************************************************************************)
EXTENDS MediaBase

CONSTANT InitSpan   \* the first 1 MB, which get_init_pieces asks for

ASSUME TestAssumption == InitSpan \in Nat

VARIABLE m_cur_mode

vars == <<baseVars, m_cur_mode>>

Init == BaseInit /\ m_cur_mode = "STARTUP"

-----------------------------------------------------------------------------
get_init_pieces == map_byte_range(0, InitSpan)

get_data_pieces == map_byte_range((file.size \div 10) * 4, file.size \div 20)

process_ready ==
  /\ CallsProcessReady
  /\ \/ /\ m_cur_mode = "STARTUP"
        /\ set_receive_pieces(get_init_pieces)
        /\ m_cur_mode' = "FINAL"
        /\ UNCHANGED m_mode
     \/ /\ m_cur_mode = "FINAL"
        /\ set_receive_pieces(get_data_pieces)
        /\ m_mode' = "CAN_FINISH"
        /\ UNCHANGED m_cur_mode
  /\ UNCHANGED file

\* Where in the file a piece starts, 0 for the piece the file starts in.
OffsetOfPiece(p) ==
  IF p * PieceLength >= file.off THEN p * PieceLength - file.off ELSE 0

Found(p) == get_piece_at_offset(OffsetOfPiece(p)) # {}

\* process() sets TRY_TO_FINISH, and process_final decides before it returns.
process_final ==
  /\ CallsProcessFinal
  /\ LET complete == get_piece_at_offset(0) # {} /\ \A p \in get_data_pieces : Found(p)
     IN  m_mode' = IF complete THEN "FINISH" ELSE "FAIL"
  /\ UNCHANGED <<file, m_cur_mode, jobVars, sessionVars>>

-----------------------------------------------------------------------------
Finished == \E p \in Pieces : PieceFinishedAlert(p)
Answered == \E p \in Pieces : ReadPieceAlert(p)
Downloaded == \E p \in Pieces : Download(p)

BaseStep ==
  /\ \/ ProcessWaiting
     \/ ProcessInit
     \/ TenSeconds
     \/ Finished
     \/ Answered
     \/ Downloaded
     \/ \E p \in Pieces : ReadPieceLost(p) \/ OtherJobWants(p)
  /\ UNCHANGED m_cur_mode

Next == BaseStep \/ process_ready \/ process_final

\* handle_loop runs every 200 ms, the session's threads run, and the swarm has
\* every piece.
Fairness ==
  /\ WF_vars(process_ready)
  /\ WF_vars(process_final)
  /\ WF_vars(ProcessWaiting /\ UNCHANGED m_cur_mode)
  /\ WF_vars(ProcessInit /\ UNCHANGED m_cur_mode)
  /\ WF_vars(TenSeconds /\ UNCHANGED m_cur_mode)
  /\ WF_vars(Finished /\ UNCHANGED m_cur_mode)
  /\ WF_vars(Answered /\ UNCHANGED m_cur_mode)
  /\ WF_vars(Downloaded /\ UNCHANGED m_cur_mode)

Spec == Init /\ [][Next]_vars /\ Fairness

-----------------------------------------------------------------------------
(* Properties.                                                             *)

\* Every variable of the job and its session, the ones of media_base and the
\* job's own, holds a value of its type.
TypeOK == BaseTypeOK /\ m_cur_mode \in {"STARTUP", "FINAL"}

\* The sample lies in the pieces asked for first, all of them in the torrent.
SampleAtHand == get_data_pieces \subseteq get_init_pieces /\ get_init_pieces \subseteq Pieces

\* A job for a file at the start of the torrent whose sample comes with its
\* start succeeds, whatever alerts are lost and whichever pieces are there.
SampleAtHandSucceeds == file.off = 0 /\ SampleAtHand ~> m_mode = "FINISH"

\* process_final looks the pieces up by their offset in the file: that never
\* fails a job whose file starts with the torrent, and no job is decided while
\* a piece of its sample is missing, although CAN_FINISH is set without a look
\* at what is still awaited.
NoVerdictOnMissingData ==
  /\ file.off = 0 /\ InitSpan > 0 => m_mode # "FAIL"
  /\ is_finish => get_data_pieces \subseteq m_piece_data
=============================================================================
