--------------------------- MODULE MediaBaseProofs ---------------------------
(***************************************************************************)
(* What the proofs about MediaMkv and MediaTest share: the arithmetic of   *)
(* pieces, and what the steps of MediaBase do for every kind of job.       *)
(***************************************************************************)
EXTENDS MediaBase, TLAPS

\* Division by a piece's length keeps the order.
LEMMA DivMonotone ==
  ASSUME NEW a \in Int, NEW b \in Int, NEW p \in Nat \ {0}, a <= b
  PROVE  a \div p <= b \div p
<1>1. a \div p \in Int /\ b \div p \in Int
  OBVIOUS
<1>2. p * (a \div p) <= a
  OBVIOUS
<1>3. b < p * ((b \div p) + 1)
  OBVIOUS
<1> QED  BY <1>1, <1>2, <1>3

\* map_byte_range returns a set of integers.
LEMMA RangeOfIntegers ==
  ASSUME NEW offset, NEW size
  PROVE  map_byte_range(offset, size) \subseteq Int
BY DEF map_byte_range

\* The steps of the job, its session and its clock that do not depend on the subclass.
BaseAction ==
  \/ ProcessWaiting
  \/ ProcessInit
  \/ TenSeconds
  \/ \E p \in Pieces : \/ PieceFinishedAlert(p) \/ ReadPieceAlert(p) \/ ReadPieceLost(p)
                       \/ Download(p) \/ OtherJobWants(p)

\* A new job and its session have their types.
LEMMA BaseInitTypes ==
  ASSUME BaseInit
  PROVE  BaseTypeOK
<1>1. have \subseteq Pieces /\ losses \in 0 .. MaxLoss
  BY BaseAssumption DEF BaseInit
<1> QED  BY <1>1 DEF BaseInit, BaseTypeOK, Modes

\* These steps keep the types; a read is only under way for a piece the torrent has.
LEMMA BaseActionTypes ==
  ASSUME BaseTypeOK, BaseAction
  PROVE  BaseTypeOK'
<1> USE BaseAssumption DEF BaseTypeOK, jobVars, sessionVars
<1>1. CASE ProcessWaiting
  BY <1>1 DEF ProcessWaiting, request_awaiting_pieces
<1>2. CASE ProcessInit
  BY <1>2 DEF ProcessInit, Modes
<1>3. CASE TenSeconds
  BY <1>3 DEF TenSeconds
<1>4. ASSUME NEW p \in Pieces, PieceFinishedAlert(p) PROVE BaseTypeOK'
  BY <1>4 DEF PieceFinishedAlert
<1>5. ASSUME NEW p \in Pieces, ReadPieceAlert(p) PROVE BaseTypeOK'
  BY <1>5 DEF ReadPieceAlert, receive_piece
<1>6. ASSUME NEW p \in Pieces, ReadPieceLost(p) PROVE BaseTypeOK'
  BY <1>6 DEF ReadPieceLost
<1>7. ASSUME NEW p \in Pieces, Download(p) PROVE BaseTypeOK'
  BY <1>7 DEF Download
<1>8. ASSUME NEW p \in Pieces, OtherJobWants(p) PROVE BaseTypeOK'
  BY <1>8 DEF OtherJobWants
<1> QED
  BY <1>1, <1>2, <1>3, <1>4, <1>5, <1>6, <1>7, <1>8 DEF BaseAction

\* Asking for pieces keeps the types, whether the job is busy or not.
LEMMA AskingTypes ==
  ASSUME BaseTypeOK, NEW pieces \in SUBSET Int, set_receive_pieces(pieces)
  PROVE  /\ m_awaiting_pieces' \subseteq Int
         /\ wanted' \subseteq Pieces
         /\ overdue' \in BOOLEAN
         /\ UNCHANGED <<m_piece_data, have, finished, reading, losses>>
BY DEF set_receive_pieces, BaseTypeOK

\* Whatever alerts come, a piece asked for is awaited or received; pieces are kept; a
\* busy job takes none.
LEMMA BaseActionGathers ==
  ASSUME BaseAction
  PROVE  /\ m_awaiting_pieces \union m_piece_data \subseteq m_awaiting_pieces' \union m_piece_data'
         /\ m_piece_data \subseteq m_piece_data'
         /\ m_awaiting_pieces' \subseteq m_awaiting_pieces
         /\ file' = file
         /\ m_mode' = m_mode \/ (m_mode = "INIT" /\ m_mode' = "READY")
<1> USE DEF jobVars, sessionVars
<1>1. CASE ProcessWaiting
  BY <1>1 DEF ProcessWaiting, request_awaiting_pieces
<1>2. CASE ProcessInit
  BY <1>2 DEF ProcessInit
<1>3. CASE TenSeconds
  BY <1>3 DEF TenSeconds
<1>4. ASSUME NEW p \in Pieces, ReadPieceAlert(p)
      PROVE  /\ m_awaiting_pieces \union m_piece_data
                  \subseteq m_awaiting_pieces' \union m_piece_data'
             /\ m_piece_data \subseteq m_piece_data'
             /\ m_awaiting_pieces' \subseteq m_awaiting_pieces
             /\ file' = file /\ m_mode' = m_mode
  BY <1>4 DEF ReadPieceAlert, receive_piece
<1>5. CASE \E p \in Pieces : PieceFinishedAlert(p) \/ ReadPieceLost(p) \/ Download(p) \/ OtherJobWants(p)
  BY <1>5 DEF PieceFinishedAlert, ReadPieceLost, Download, OtherJobWants
<1> QED
  BY <1>1, <1>2, <1>3, <1>4, <1>5 DEF BaseAction
=============================================================================
