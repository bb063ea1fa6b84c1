--------------------------- MODULE MediaTestProofs ----------------------------
(***************************************************************************)
(* Proofs about MediaTest, for every torrent, file and length of the first *)
(* request, and any loss of alerts.                                        *)
(***************************************************************************)
EXTENDS MediaTest, MediaBaseProofs

\* The start of the file is asked for before its sample, the sample before the job can
\* finish, and a verdict is only reached with nothing awaited.
Asked ==
  /\ m_cur_mode \in {"STARTUP", "FINAL"}
  /\ m_cur_mode = "FINAL" => get_init_pieces \subseteq m_awaiting_pieces \union m_piece_data
  /\ m_mode \in {"CAN_FINISH", "FINISH", "FAIL"} =>
       /\ m_cur_mode = "FINAL"
       /\ get_data_pieces \subseteq m_awaiting_pieces \union m_piece_data
  /\ is_finish => m_awaiting_pieces = {}

Inv == BaseTypeOK /\ Asked /\ NoVerdictOnMissingData

\* A job for a file at the start of the torrent asks for the first piece.
LEMMA FirstPieceAsked ==
  ASSUME file \in Files, file.off = 0, InitSpan > 0
  PROVE  0 \in get_init_pieces
<1>1. InitSpan \in Nat \ {0} /\ PieceLength \in Nat \ {0}
  BY TestAssumption, BaseAssumption
<1>2. 0 \div PieceLength = 0 /\ (InitSpan - 1) \div PieceLength >= 0
  BY <1>1
<1>3. PieceOf(0) = 0 /\ PieceOf(0 + InitSpan - 1) = (InitSpan - 1) \div PieceLength
  BY <1>1, <1>2 DEF PieceOf
<1>4. (InitSpan - 1) \div PieceLength \in Int
  BY <1>1
<1> QED
  BY <1>1, <1>2, <1>3, <1>4 DEF get_init_pieces, map_byte_range

\* The pieces of a file are looked up under their own numbers if it starts the torrent.
LEMMA OwnNumber ==
  ASSUME file.off = 0, m_awaiting_pieces = {}, NEW p \in m_piece_data \intersect Nat
  PROVE  Found(p)
<1>1. PieceLength \in Nat \ {0}
  BY BaseAssumption
<1>2. p * PieceLength \in Nat /\ (p * PieceLength) \div PieceLength = p
  BY <1>1
<1>3. OffsetOfPiece(p) = p * PieceLength
  BY <1>2 DEF OffsetOfPiece
<1> QED
  BY <1>2, <1>3 DEF Found, get_piece_at_offset

\* The pieces to ask for only depend on the file.
LEMMA SameRequests ==
  ASSUME file' = file
  PROVE  get_init_pieces' = get_init_pieces /\ get_data_pieces' = get_data_pieces
BY DEF get_init_pieces, get_data_pieces, map_byte_range, PieceOf

\* The job starts in a state of the invariant.
LEMMA InitInv == Init => Inv
<1> SUFFICES ASSUME Init PROVE Inv
  OBVIOUS
<1>1. BaseTypeOK
  BY BaseInitTypes DEF Init
<1>2. m_mode = "INIT" /\ m_cur_mode = "STARTUP"
  BY DEF Init, BaseInit
<1> QED
  BY <1>1, <1>2 DEF Inv, Asked, NoVerdictOnMissingData, is_finish

\* A step of the base class keeps the invariant.
LEMMA BaseKeeps ==
  ASSUME Inv, BaseAction, UNCHANGED m_cur_mode
  PROVE  Inv'
<1>1. BaseTypeOK'
  BY BaseActionTypes DEF Inv
<1>2. /\ m_awaiting_pieces \union m_piece_data \subseteq m_awaiting_pieces' \union m_piece_data'
      /\ m_piece_data \subseteq m_piece_data'
      /\ m_awaiting_pieces' \subseteq m_awaiting_pieces
      /\ file' = file
      /\ m_mode' = m_mode \/ (m_mode = "INIT" /\ m_mode' = "READY")
  BY BaseActionGathers
<1>3. get_init_pieces' = get_init_pieces /\ get_data_pieces' = get_data_pieces
  BY <1>2, SameRequests
<1>4. is_finish' => is_finish
  BY <1>2 DEF is_finish
<1>5. Asked'
  BY <1>2, <1>3, <1>4 DEF Inv, Asked
<1>6. NoVerdictOnMissingData'
  BY <1>2, <1>3, <1>4 DEF Inv, NoVerdictOnMissingData
<1> QED
  BY <1>1, <1>5, <1>6 DEF Inv

\* Asking for the start or the sample keeps the invariant.
LEMMA ReadyKeeps ==
  ASSUME Inv, process_ready
  PROVE  Inv'
<1>1. BaseTypeOK /\ Asked /\ m_mode = "READY" /\ m_awaiting_pieces = {} /\ file' = file
  BY DEF Inv, process_ready, CallsProcessReady
<1>2. get_init_pieces \in SUBSET Int /\ get_data_pieces \in SUBSET Int
  BY RangeOfIntegers DEF get_init_pieces, get_data_pieces
<1>3. get_init_pieces' = get_init_pieces /\ get_data_pieces' = get_data_pieces
  BY <1>1, SameRequests
<1>4. ~is_busy
  BY <1>1 DEF is_busy
<1>5. CASE /\ m_cur_mode = "STARTUP"
           /\ set_receive_pieces(get_init_pieces)
           /\ m_cur_mode' = "FINAL"
           /\ UNCHANGED m_mode
  <2>1. BaseTypeOK'
    BY <1>1, <1>2, <1>5, AskingTypes DEF BaseTypeOK
  <2>2. get_init_pieces \subseteq m_awaiting_pieces' \union m_piece_data'
    BY <1>4, <1>5, <1>1 DEF set_receive_pieces
  <2>3. m_mode' = "READY"
    BY <1>1, <1>5
  <2> QED
    BY <1>3, <1>5, <2>1, <2>2, <2>3 DEF Inv, Asked, NoVerdictOnMissingData, is_finish
<1>6. CASE /\ m_cur_mode = "FINAL"
           /\ set_receive_pieces(get_data_pieces)
           /\ m_mode' = "CAN_FINISH"
           /\ UNCHANGED m_cur_mode
  <2>1. BaseTypeOK'
    BY <1>1, <1>2, <1>6, AskingTypes DEF BaseTypeOK, Modes
  <2>2. /\ get_data_pieces \subseteq m_awaiting_pieces' \union m_piece_data'
        /\ m_piece_data' = m_piece_data
    BY <1>4, <1>6, <1>1 DEF set_receive_pieces
  <2>3. get_init_pieces \subseteq m_piece_data'
    BY <1>1, <1>6, <2>2 DEF Asked
  <2> QED
    BY <1>3, <1>6, <2>1, <2>2, <2>3 DEF Inv, Asked, NoVerdictOnMissingData, is_finish
<1> QED
  BY <1>5, <1>6 DEF process_ready

\* The verdict is reached with the start and the sample received, which are found if the
\* file starts the torrent.
LEMMA FinalKeeps ==
  ASSUME Inv, process_final
  PROVE  Inv'
<1> USE DEF jobVars, sessionVars
<1>1. /\ BaseTypeOK /\ Asked /\ m_mode = "CAN_FINISH" /\ m_awaiting_pieces = {} /\ file' = file
      /\ UNCHANGED <<m_cur_mode, jobVars, sessionVars>>
  BY DEF Inv, process_final, CallsProcessFinal
<1>2. get_init_pieces' = get_init_pieces /\ get_data_pieces' = get_data_pieces
  BY <1>1, SameRequests
<1>3. m_mode' \in {"FINISH", "FAIL"}
  BY DEF process_final
<1>4. BaseTypeOK'
  BY <1>1, <1>3 DEF BaseTypeOK, Modes
<1>5. get_init_pieces \subseteq m_piece_data /\ get_data_pieces \subseteq m_piece_data
  BY <1>1 DEF Asked
<1>6. Asked'
  BY <1>1, <1>2, <1>3, <1>5 DEF Asked
<1>7. ASSUME file.off = 0, InitSpan > 0 PROVE m_mode' # "FAIL"
  <2>1. 0 \in m_piece_data
    BY <1>1, <1>5, <1>7, FirstPieceAsked DEF BaseTypeOK
  <2>2. 0 \div PieceLength = 0
    BY BaseAssumption
  <2>3. get_piece_at_offset(0) # {}
    BY <1>1, <2>1, <2>2 DEF get_piece_at_offset
  <2>4. ASSUME NEW p \in get_data_pieces PROVE Found(p)
    <3>1. p \in m_piece_data /\ p \in Nat
      BY <1>1, <1>5 DEF BaseTypeOK, Pieces
    <3> QED
      BY <1>1, <1>7, <3>1, OwnNumber
  <2> QED
    BY <2>3, <2>4 DEF process_final
<1>8. NoVerdictOnMissingData'
  BY <1>1, <1>2, <1>5, <1>7 DEF NoVerdictOnMissingData
<1> QED
  BY <1>4, <1>6, <1>8 DEF Inv

\* The invariant holds in every state of the job.
THEOREM InvariantHolds == Spec => []Inv
<1>1. ASSUME Inv, [Next]_vars PROVE Inv'
  <2>1. CASE BaseStep
    <3>1. BaseAction /\ UNCHANGED m_cur_mode
      BY <2>1 DEF BaseStep, BaseAction, Finished, Answered, Downloaded
    <3> QED
      BY <1>1, <3>1, BaseKeeps
  <2>2. CASE process_ready
    BY <1>1, <2>2, ReadyKeeps
  <2>3. CASE process_final
    BY <1>1, <2>3, FinalKeeps
  <2>4. CASE UNCHANGED vars
    <3>1. file' = file
      BY <2>4 DEF vars, baseVars
    <3>2. get_init_pieces' = get_init_pieces /\ get_data_pieces' = get_data_pieces
      BY <3>1, SameRequests
    <3> QED
      BY <1>1, <2>4, <3>2 DEF Inv, Asked, NoVerdictOnMissingData, BaseTypeOK, is_finish,
                              vars, baseVars, jobVars, sessionVars
  <2> QED
    BY <1>1, <2>1, <2>2, <2>3, <2>4 DEF Next
<1> QED
  BY <1>1, InitInv, PTL DEF Spec

\* Every variable of the job and its session, its own m_cur_mode included, holds a
\* value of its type.
THEOREM TypeCorrect == Spec => []TypeOK
<1>1. Inv => TypeOK
  BY DEF Inv, Asked, TypeOK
<1> QED
  BY <1>1, InvariantHolds, PTL

\* No job is decided while a piece of its sample is missing, although CAN_FINISH is set
\* without a look at what is awaited; a job whose file starts the torrent never fails.
THEOREM NeverDecidedWithoutData == Spec => []NoVerdictOnMissingData
<1>1. Inv => NoVerdictOnMissingData
  BY DEF Inv
<1> QED
  BY <1>1, InvariantHolds, PTL
=============================================================================
