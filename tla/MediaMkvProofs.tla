--------------------------- MODULE MediaMkvProofs ----------------------------
(***************************************************************************)
(* Theorems about MediaMkv.                                                *)
(***************************************************************************)
EXTENDS MediaMkv, MediaBaseProofs, TLAPS

-----------------------------------------------------------------------------
(* Arithmetic of pieces.                                                   *)

\* map_byte_range names the piece of every byte of its range.
LEMMA RangeCovers ==
  ASSUME NEW offset \in Int, NEW size \in Int, NEW x \in Span(offset, size),
         file \in Files
  PROVE  PieceOf(x) \in map_byte_range(offset, size)
<1>1. x \in Int /\ offset <= x /\ x <= offset + size - 1 /\ size > 0
  BY DEF Span
<1>2. PieceLength \in Nat \ {0} /\ file.off \in Nat
  BY BaseAssumption
<1>3. PieceOf(offset) <= PieceOf(x)
  <2>1. file.off + offset \in Int /\ file.off + x \in Int /\ file.off + offset <= file.off + x
    BY <1>1, <1>2
  <2> QED  BY <2>1, <1>2, DivMonotone DEF PieceOf
<1>4. PieceOf(x) <= PieceOf(offset + size - 1)
  <2>1. /\ file.off + x \in Int
        /\ file.off + (offset + size - 1) \in Int
        /\ file.off + x <= file.off + (offset + size - 1)
    BY <1>1, <1>2
  <2> QED  BY <2>1, <1>2, DivMonotone DEF PieceOf
<1>5. PieceOf(x) \in Int /\ PieceOf(offset) \in Int /\ PieceOf(offset + size - 1) \in Int
  BY <1>1, <1>2 DEF PieceOf
<1> QED  BY <1>1, <1>3, <1>4, <1>5 DEF map_byte_range

\* The clusters kept are clusters of the cue list.
LEMMA PickInRange ==
  ASSUME NEW n \in Nat, NEW i \in 0 .. (ClustersNeeded - 1), EnoughCues(n)
  PROVE  PickIndex(n, i) + 1 \in 1 .. n
<1> DEFINE d == EndIndex(n) - StartIndex
           c == ClustersNeeded - 1
           q == (d * i) \div c
<1>1. d \in Nat /\ c \in Nat \ {0} /\ i \in Nat /\ i <= c /\ d = n - 5
  BY MkvAssumption DEF EndIndex, StartIndex, EnoughCues
<1>2. d * i \in Nat /\ d * i <= d * c
  BY <1>1
<1> HIDE DEF d, c
<1>3. q \in Int /\ c * q <= d * i /\ d * i < c * (q + 1)
  BY <1>1, <1>2
<1> HIDE DEF q
<1>4. q >= 0
  <2>1. ASSUME q <= -1 PROVE FALSE
    <3>1. c * (q + 1) <= 0
      BY <2>1, <1>1, <1>3
    <3> QED  BY <3>1, <1>2, <1>3, <1>1
  <2> QED  BY <2>1, <1>3
<1>5. q <= d
  <2>1. ASSUME q >= d + 1 PROVE FALSE
    <3>1. c * q >= c * (d + 1)
      BY <2>1, <1>1, <1>3
    <3>2. c * (d + 1) = d * c + c
      BY <1>1
    <3> QED  BY <3>1, <3>2, <1>2, <1>3, <1>1
  <2> QED  BY <2>1, <1>3, <1>1
<1>6. PickIndex(n, i) = 2 + q
  BY DEF PickIndex, q, d, c, StartIndex
<1> QED  BY <1>1, <1>3, <1>4, <1>5, <1>6

-----------------------------------------------------------------------------
(* Type correctness.                                                       *)

\* A new job has its types.
LEMMA InitTypeOK == Init => TypeOK
<1> SUFFICES ASSUME Init PROVE TypeOK
  OBVIOUS
<1>2. BaseTypeOK
  BY BaseInitTypes DEF Init
<1>3. m_search_length \in Nat /\ clustersRead \in 0 .. ClustersNeeded /\ started \in Nat
  BY MkvAssumption DEF Init
<1>4. m_found_segment \in BOOLEAN /\ main = "running"
  BY DEF Init
<1> QED  BY <1>2, <1>3, <1>4 DEF Init, TypeOK, MkvModes

\* Asking for pieces and moving to the next phase keeps the types.
LEMMA AskForTypes ==
  ASSUME TypeOK, NEW pieces \in SUBSET Int, NEW next \in MkvModes, AskFor(pieces, next)
  PROVE  /\ m_awaiting_pieces' \subseteq Int
         /\ wanted' \subseteq Pieces
         /\ overdue' \in BOOLEAN
         /\ m_cur_mode' \in MkvModes
         /\ UNCHANGED <<m_mode, m_piece_data, have, finished, reading, losses, verdict>>
BY AskingTypes DEF AskFor, TypeOK

\* A phase that either asks for pieces and moves on or fails keeps the types.
LEMMA PhaseTypes ==
  ASSUME TypeOK, NEW mode, NEW accepted, NEW pieces \in SUBSET Int, NEW next \in MkvModes,
         Phase(mode, accepted, pieces, next)
  PROVE  TypeOK'
<1>1. UNCHANGED <<file, threadVars, m_search_length, m_found_segment, main>>
  BY DEF Phase, InPhase
<1>2. CASE AskFor(pieces, next)
  BY <1>1, <1>2, AskForTypes DEF TypeOK, BaseTypeOK, threadVars
<1>3. CASE process_final_fail /\ UNCHANGED m_cur_mode
  BY <1>1, <1>3 DEF process_final_fail, TypeOK, BaseTypeOK, Modes, threadVars, jobVars, sessionVars
<1> QED  BY <1>2, <1>3 DEF Phase

\* Every step keeps the types.
LEMMA StepTypeOK == TypeOK /\ [Next]_vars => TypeOK'
<1> SUFFICES ASSUME TypeOK, [Next]_vars PROVE TypeOK'
  OBVIOUS
<1> USE BaseAssumption, MkvAssumption
<1>1. CASE BaseStep
  <2>1. BaseAction /\ UNCHANGED OutsideBase
    BY <1>1 DEF BaseStep, MainLoopBase, SessionBase, BaseAction
  <2>2. BaseTypeOK'
    BY <2>1, BaseActionTypes DEF TypeOK
  <2> QED
    BY <2>1, <2>2 DEF TypeOK, OutsideBase, mkvVars, threadVars
<1>2. CASE ProcessReady
  <2>1. CASE StartSearch
    <3>1. AskFor(map_byte_range(0, SearchStep), "FINDING_SEEKHEAD")
      BY <2>1 DEF StartSearch
    <3> QED  BY <2>1, <3>1, AskForTypes, RangeOfIntegers
             DEF StartSearch, InPhase, threadVars, MkvModes, TypeOK, BaseTypeOK
  <2>2. CASE NotAnEbmlDocument
    BY <2>2 DEF NotAnEbmlDocument, InPhase, process_final_fail, jobVars, sessionVars,
                mkvVars, threadVars, TypeOK, BaseTypeOK, Modes
  <2>3. CASE FoundSeekHead
    <3>1. AskFor(DataPieces(file.seekHead), "GET_SEEKHEAD")
      BY <2>3 DEF FoundSeekHead
    <3> QED  BY <2>3, <3>1, AskForTypes, RangeOfIntegers
             DEF FoundSeekHead, DataPieces, InPhase, threadVars, MkvModes, TypeOK, BaseTypeOK
  <2>4. CASE extend_search_head
    <3>1. /\ m_search_length' \in Nat
          /\ m_found_segment' \in BOOLEAN
          /\ UNCHANGED <<file, threadVars, main>>
      BY <2>4 DEF extend_search_head, InPhase, TypeOK
    <3>2. CASE process_final_fail /\ UNCHANGED m_cur_mode
      BY <3>1, <3>2 DEF process_final_fail, jobVars, sessionVars, threadVars,
                        TypeOK, BaseTypeOK, Modes
    <3>3. CASE AskFor(map_byte_range(0, m_search_length'), m_cur_mode)
      BY <3>1, <3>3, AskForTypes, RangeOfIntegers DEF threadVars, TypeOK, BaseTypeOK
    <3> QED  BY <2>4, <3>2, <3>3 DEF extend_search_head
  <2>5. CASE ScanPastTheEnd
    BY <2>5 DEF ScanPastTheEnd, InPhase, jobVars, sessionVars, threadVars, TypeOK, BaseTypeOK
  <2>11. CASE NullSeek
    BY <2>11 DEF NullSeek, InPhase, jobVars, sessionVars, mkvVars, threadVars, TypeOK, BaseTypeOK
  <2>6. CASE handle_get_seekhead
    BY <2>6, PhaseTypes, RangeOfIntegers DEF handle_get_seekhead, HeadPieces, MkvModes
  <2>7. CASE handle_cue_and_track_head
    BY <2>7, PhaseTypes, RangeOfIntegers DEF handle_cue_and_track_head, DataPieces, MkvModes
  <2>8. CASE handle_cue_and_track_data
    <3>1. UNION {HeadPieces(m_cluster_list[i]) : i \in 1 .. ClustersNeeded} \subseteq Int
      BY RangeOfIntegers DEF HeadPieces
    <3> QED  BY <2>8, <3>1, PhaseTypes DEF handle_cue_and_track_data, MkvModes
  <2>9. CASE handle_cluster_head
    <3>1. UNION {DataPieces(m_cluster_list[i]) : i \in 1 .. ClustersNeeded} \subseteq Int
      BY RangeOfIntegers DEF DataPieces
    <3> QED  BY <2>9, <3>1, PhaseTypes DEF handle_cluster_head, MkvModes
  <2>10. CASE HaveEverything
    BY <2>10 DEF HaveEverything, InPhase, process_final_ready, jobVars, sessionVars,
                 mkvVars, threadVars, TypeOK, BaseTypeOK, Modes
  <2> QED  BY <1>2, <2>1, <2>2, <2>3, <2>4, <2>5, <2>6, <2>7, <2>8, <2>9, <2>10, <2>11
           DEF ProcessReady
<1>3. CASE process_final
  BY <1>3 DEF process_final, jobVars, sessionVars, mkvVars, TypeOK, BaseTypeOK, Modes
<1>4. CASE ThreadStep
  <2> USE DEF TypeOK, BaseTypeOK, Modes, baseVars, jobVars, sessionVars, mkvVars, threadVars
  <2>1. CASE ThreadReadsCluster
    BY <2>1 DEF ThreadReadsCluster
  <2>2. CASE ThreadCannotRead
    BY <2>2 DEF ThreadCannotRead, ThreadReturns
  <2>3. CASE ThreadFails
    BY <2>3 DEF ThreadFails, ThreadReturns
  <2>4. CASE ThreadSucceeds
    BY <2>4 DEF ThreadSucceeds, ThreadReturns
  <2> QED  BY <1>4, <2>1, <2>2, <2>3, <2>4 DEF ThreadStep
<1>5. CASE UNCHANGED vars
  BY <1>5 DEF vars, baseVars, jobVars, sessionVars, mkvVars, threadVars, TypeOK, BaseTypeOK
<1> QED  BY <1>1, <1>2, <1>3, <1>4, <1>5 DEF Next

\* Every variable holds a value of its type in every state of the job.
THEOREM TypeCorrect == Spec => []TypeOK
BY InitTypeOK, StepTypeOK, PTL DEF Spec

-----------------------------------------------------------------------------
(* Every byte a phase reads is received.                                   *)

\* What a read accepts lies in pieces received.
LEMMA ReadHolds ==
  ASSUME NEW a, NEW n, ReadOk(a, n), NEW x \in Span(a, n)
  PROVE  PieceOf(x) \in m_piece_data
BY DEF ReadOk, get_piece_at_offset

\* Asking for HeadSpan bytes of an element covers its header.
LEMMA HeaderAskedFor ==
  ASSUME file \in Files, NEW e \in Element, e.head <= HeadSpan, NEW x \in HeaderBytes(e)
  PROVE  PieceOf(x) \in HeadPieces(e)
<1>1. e.pos \in Int /\ HeadSpan \in Int /\ x \in Span(e.pos, HeadSpan)
  BY MkvAssumption DEF HeaderBytes, Span, Element
<1> QED  BY <1>1, RangeCovers DEF HeadPieces

\* Once an element's header is read, asking for its data covers the rest of it.
LEMMA WholeAskedFor ==
  ASSUME file \in Files, NEW e \in Element, ReadOk(e.pos, e.head), NEW x \in WholeBytes(e)
  PROVE  PieceOf(x) \in m_piece_data \union DataPieces(e)
<1>1. CASE x \in Span(e.pos, e.head)
  BY <1>1, ReadHolds
<1>2. CASE x \in Span(DataStart(e), e.size)
  <2>1. DataStart(e) \in Int /\ e.size \in Int
    BY DEF DataStart, Element
  <2> QED  BY <1>2, <2>1, RangeCovers DEF DataPieces
<1> QED  BY <1>1, <1>2 DEF WholeBytes, WholeLength, Span, DataStart, Element

\* The clusters kept are elements whose header HeadSpan covers.
LEMMA ClusterIsElement ==
  ASSUME file \in Files, EnoughCues(Len(file.cueList)), NEW i \in 1 .. ClustersNeeded
  PROVE  m_cluster_list[i] \in Element /\ m_cluster_list[i].head <= HeadSpan
<1> DEFINE k == PickIndex(Len(file.cueList), i - 1) + 1
<1>1. /\ file.cueList \in Seq(Element)
      /\ \A j \in DOMAIN file.cueList : file.cueList[j].head <= HeadSpan
      /\ ClustersNeeded \in Nat
  BY MkvAssumption
<1>2. k \in DOMAIN file.cueList
  <2>1. Len(file.cueList) \in Nat /\ DOMAIN file.cueList = 1 .. Len(file.cueList)
    BY <1>1
  <2>2. i - 1 \in 0 .. (ClustersNeeded - 1)
    BY <1>1
  <2> QED  BY <2>1, <2>2, PickInRange
<1>3. m_cluster_list[i] = file.cueList[k]
  BY DEF m_cluster_list
<1> QED  BY <1>1, <1>2, <1>3

\* The bytes a phase reads and the piece a byte lies in depend on the file only,
\* but for the growing search.
LEMMA SameBytes ==
  ASSUME file' = file, NEW phase, phase = "FINDING_SEEKHEAD" => m_search_length' = m_search_length
  PROVE  BytesRead(phase)' = BytesRead(phase)
BY DEF BytesRead, WholeBytes, HeaderBytes, m_cluster_list

LEMMA SamePiece ==
  ASSUME file' = file, NEW x
  PROVE  PieceOf(x)' = PieceOf(x)
BY DEF PieceOf

\* A step that keeps mode, phase, file and search and loses no piece that is
\* received or awaited.
LEMMA GatheringKept ==
  ASSUME Gathering,
         UNCHANGED <<file, m_mode, m_cur_mode, m_search_length>>,
         m_piece_data \subseteq m_piece_data',
         m_piece_data \union m_awaiting_pieces \subseteq m_piece_data' \union m_awaiting_pieces',
         m_awaiting_pieces' \subseteq m_awaiting_pieces
  PROVE  Gathering'
<1>1. \A ph : BytesRead(ph)' = BytesRead(ph)
  BY SameBytes
<1>2. \A x : PieceOf(x)' = PieceOf(x)
  BY SamePiece
<1>3. (m_mode = "INIT" => m_cur_mode = "READY")'
  BY DEF Gathering
<1>4. (m_mode = "READY" =>
         \A x \in BytesRead(m_cur_mode) : PieceOf(x) \in m_piece_data \union m_awaiting_pieces)'
  BY <1>1, <1>2 DEF Gathering
<1>5. (m_mode \in {"CAN_FINISH", "TRY_TO_FINISH"} =>
         m_awaiting_pieces = {} /\ Held(BytesRead("FINAL")))'
  BY <1>1, <1>2 DEF Gathering, Held
<1>6. (m_cur_mode \in {"GET_CLUSTER_HEAD", "FINAL"} => EnoughCues(Len(file.cueList)))'
  BY DEF Gathering, EnoughCues, EndIndex, StartIndex
<1> QED  BY <1>3, <1>4, <1>5, <1>6 DEF Gathering

\* A phase that asks for pieces which, with those received, hold every byte the
\* next phase reads.
LEMMA GatheringAsked ==
  ASSUME NEW mode, NEW next, NEW pieces,
         InPhase(mode), AskFor(pieces, next),
         next \in {"GET_CLUSTER_HEAD", "FINAL"} => EnoughCues(Len(file.cueList)),
         \A x \in BytesRead(next)' : PieceOf(x) \in m_piece_data \union pieces
  PROVE  Gathering'
<1>1. /\ m_mode' = "READY" /\ m_cur_mode' = next /\ file' = file
      /\ m_piece_data' = m_piece_data
      /\ m_piece_data \union pieces \subseteq m_piece_data' \union m_awaiting_pieces'
  BY DEF InPhase, CallsProcessReady, AskFor, set_receive_pieces, is_busy
<1>2. \A x : PieceOf(x)' = PieceOf(x)
  BY <1>1, SamePiece
<1>3. EnoughCues(Len(file.cueList))' = EnoughCues(Len(file.cueList))
  BY <1>1 DEF EnoughCues, EndIndex, StartIndex
<1> QED  BY <1>1, <1>2, <1>3 DEF Gathering

\* A job that fails has nothing left to read.
LEMMA GatheringFailed ==
  ASSUME Gathering, m_mode' \in {"FINISH", "FAIL"}, UNCHANGED <<file, m_cur_mode>>
  PROVE  Gathering'
BY DEF Gathering, EnoughCues, EndIndex, StartIndex

\* A new job has asked for nothing and reads nothing.
LEMMA InitGathering == Init => Gathering
BY DEF Init, BaseInit, Gathering, BytesRead

\* Every phase asks for what the next one reads.
LEMMA StepGathering == TypeOK /\ Gathering /\ [Next]_vars => Gathering'
<1> SUFFICES ASSUME TypeOK, Gathering, [Next]_vars PROVE Gathering'
  OBVIOUS
<1>f. file \in Files
  BY DEF TypeOK, BaseTypeOK
<1>e. /\ file.seekHead \in Element /\ file.cues \in Element /\ file.tracks \in Element
      /\ file.cues.head <= HeadSpan /\ file.tracks.head <= HeadSpan
      /\ file.segment \in Nat /\ file.segment <= file.seekHead.pos
  BY <1>f, MkvAssumption
<1>1. CASE BaseStep
  <2>1. CASE ProcessInit
    BY <1>1, <2>1 DEF BaseStep, OutsideBase, mkvVars, ProcessInit, Gathering, BytesRead,
                      EnoughCues, EndIndex, StartIndex
  <2>2. CASE m_mode' = m_mode
    <3>1. BaseAction /\ UNCHANGED OutsideBase
      BY <1>1 DEF BaseStep, MainLoopBase, SessionBase, BaseAction
    <3> QED  BY <2>2, <3>1, BaseActionGathers, GatheringKept DEF OutsideBase, mkvVars
  <2>3. BaseAction
    BY <1>1 DEF BaseStep, MainLoopBase, SessionBase, BaseAction
  <2>4. ProcessInit \/ m_mode' = m_mode
    BY <2>3 DEF BaseAction, ProcessWaiting, TenSeconds, PieceFinishedAlert, ReadPieceAlert,
                ReadPieceLost, Download, OtherJobWants
  <2> QED  BY <2>1, <2>2, <2>4
<1>2. CASE ProcessReady
  <2>1. CASE StartSearch
    <3>1. /\ InPhase("READY")
          /\ AskFor(map_byte_range(0, SearchStep), "FINDING_SEEKHEAD")
          /\ m_search_length' = SearchStep
          /\ file' = file
      BY <2>1 DEF StartSearch, InPhase
    <3>2. BytesRead("FINDING_SEEKHEAD")' = Span(0, SearchStep)
      BY <3>1 DEF BytesRead
    <3>3. \A x \in Span(0, SearchStep) : PieceOf(x) \in map_byte_range(0, SearchStep)
      BY <1>f, RangeCovers, MkvAssumption
    <3> QED  BY <3>1, <3>2, <3>3, GatheringAsked
  <2>2. CASE NotAnEbmlDocument
    BY <2>2, GatheringFailed DEF NotAnEbmlDocument, InPhase, process_final_fail, mkvVars
  <2>3. CASE FoundSeekHead
    <3>1. /\ InPhase("FINDING_SEEKHEAD")
          /\ AskFor(DataPieces(file.seekHead), "GET_SEEKHEAD")
          /\ file' = file
      BY <2>3 DEF FoundSeekHead, InPhase
    <3>2. BytesRead("GET_SEEKHEAD")' = WholeBytes(file.seekHead)
      BY <3>1 DEF BytesRead, WholeBytes
    <3>3. ReadOk(file.segment, DataStart(file.seekHead) - file.segment)
      BY <2>3 DEF FoundSeekHead, SeekHeadRead
    <3>4. \A x \in Span(file.seekHead.pos, file.seekHead.head) : PieceOf(x) \in m_piece_data
      <4>1. Span(file.seekHead.pos, file.seekHead.head)
              \subseteq Span(file.segment, DataStart(file.seekHead) - file.segment)
        BY <1>e DEF Span, DataStart, Element
      <4> QED  BY <4>1, <3>3, ReadHolds
    <3>5. \A x \in Span(DataStart(file.seekHead), file.seekHead.size) :
            PieceOf(x) \in DataPieces(file.seekHead)
      <4>1. DataStart(file.seekHead) \in Int /\ file.seekHead.size \in Int
        BY <1>e DEF DataStart, Element
      <4> QED  BY <4>1, <1>f, RangeCovers DEF DataPieces
    <3>6. WholeBytes(file.seekHead)
            \subseteq Span(file.seekHead.pos, file.seekHead.head)
                      \union Span(DataStart(file.seekHead), file.seekHead.size)
      BY <1>e DEF WholeBytes, WholeLength, Span, DataStart, Element
    <3> QED  BY <3>1, <3>2, <3>4, <3>5, <3>6, GatheringAsked
  <2>4. CASE extend_search_head
    <3>1. InPhase("FINDING_SEEKHEAD") /\ file' = file /\ m_search_length' \in Nat
      BY <2>4, MkvAssumption DEF extend_search_head, InPhase, TypeOK
    <3>2. CASE process_final_fail /\ UNCHANGED m_cur_mode
      BY <3>1, <3>2, GatheringFailed DEF process_final_fail
    <3>3. CASE AskFor(map_byte_range(0, m_search_length'), m_cur_mode)
      <4>1. AskFor(map_byte_range(0, m_search_length'), "FINDING_SEEKHEAD")
        BY <3>1, <3>3 DEF InPhase
      <4>2. BytesRead("FINDING_SEEKHEAD")' = Span(0, m_search_length')
        BY DEF BytesRead
      <4>3. \A x \in Span(0, m_search_length') :
              PieceOf(x) \in map_byte_range(0, m_search_length')
        BY <1>f, <3>1, RangeCovers
      <4> QED  BY <3>1, <4>1, <4>2, <4>3, GatheringAsked
    <3> QED  BY <2>4, <3>2, <3>3 DEF extend_search_head
  <2>5. CASE ScanPastTheEnd
    BY <2>5, GatheringKept DEF ScanPastTheEnd, InPhase, jobVars
  <2>11. CASE NullSeek
    BY <2>11, GatheringKept DEF NullSeek, InPhase, jobVars, mkvVars
  <2>6. CASE handle_get_seekhead
    <3> DEFINE pieces == HeadPieces(file.cues) \union HeadPieces(file.tracks)
    <3>1. InPhase("GET_SEEKHEAD") /\ file' = file
      BY <2>6 DEF handle_get_seekhead, Phase, InPhase
    <3>2. CASE AskFor(pieces, "GET_CUE_AND_TRACK_HEAD")
      <4>1. BytesRead("GET_CUE_AND_TRACK_HEAD")'
              = HeaderBytes(file.cues) \union HeaderBytes(file.tracks)
        BY <3>1 DEF BytesRead, HeaderBytes
      <4>2. \A x \in HeaderBytes(file.cues) \union HeaderBytes(file.tracks) : PieceOf(x) \in pieces
        BY <1>f, <1>e, HeaderAskedFor
      <4> QED  BY <3>1, <3>2, <4>1, <4>2, GatheringAsked
    <3>3. CASE process_final_fail /\ UNCHANGED m_cur_mode
      BY <3>1, <3>3, GatheringFailed DEF process_final_fail
    <3> QED  BY <2>6, <3>2, <3>3 DEF handle_get_seekhead, Phase
  <2>7. CASE handle_cue_and_track_head
    <3> DEFINE pieces == DataPieces(file.cues) \union DataPieces(file.tracks)
    <3>1. InPhase("GET_CUE_AND_TRACK_HEAD") /\ file' = file
      BY <2>7 DEF handle_cue_and_track_head, Phase, InPhase
    <3>2. CASE HeadsAccepted /\ AskFor(pieces, "GET_CUE_AND_TRACK_DATA")
      <4>1. BytesRead("GET_CUE_AND_TRACK_DATA")'
              = WholeBytes(file.cues) \union WholeBytes(file.tracks)
        BY <3>1 DEF BytesRead, WholeBytes
      <4>2. \A x \in WholeBytes(file.cues) : PieceOf(x) \in m_piece_data \union pieces
        BY <1>f, <1>e, <3>2, WholeAskedFor DEF HeadsAccepted
      <4>3. \A x \in WholeBytes(file.tracks) : PieceOf(x) \in m_piece_data \union pieces
        BY <1>f, <1>e, <3>2, WholeAskedFor DEF HeadsAccepted
      <4> QED  BY <3>1, <3>2, <4>1, <4>2, <4>3, GatheringAsked
    <3>3. CASE process_final_fail /\ UNCHANGED m_cur_mode
      BY <3>1, <3>3, GatheringFailed DEF process_final_fail
    <3> QED  BY <2>7, <3>2, <3>3 DEF handle_cue_and_track_head, Phase
  <2>8. CASE handle_cue_and_track_data
    <3> DEFINE pieces == UNION {HeadPieces(m_cluster_list[i]) : i \in 1 .. ClustersNeeded}
    <3>1. InPhase("GET_CUE_AND_TRACK_DATA") /\ file' = file
      BY <2>8 DEF handle_cue_and_track_data, Phase, InPhase
    <3>2. CASE DataAccepted /\ AskFor(pieces, "GET_CLUSTER_HEAD")
      <4>1. BytesRead("GET_CLUSTER_HEAD")'
              = UNION {HeaderBytes(m_cluster_list[i]) : i \in 1 .. ClustersNeeded}
        BY <3>1 DEF BytesRead, HeaderBytes, m_cluster_list
      <4>2. EnoughCues(Len(file.cueList))
        BY <3>2 DEF DataAccepted
      <4>3. ASSUME NEW i \in 1 .. ClustersNeeded, NEW x \in HeaderBytes(m_cluster_list[i])
            PROVE  PieceOf(x) \in HeadPieces(m_cluster_list[i])
        BY <1>f, <4>2, <4>3, ClusterIsElement, HeaderAskedFor
      <4> QED  BY <3>1, <3>2, <4>1, <4>2, <4>3, GatheringAsked
    <3>3. CASE process_final_fail /\ UNCHANGED m_cur_mode
      BY <3>1, <3>3, GatheringFailed DEF process_final_fail
    <3> QED  BY <2>8, <3>2, <3>3 DEF handle_cue_and_track_data, Phase
  <2>9. CASE handle_cluster_head
    <3> DEFINE pieces == UNION {DataPieces(m_cluster_list[i]) : i \in 1 .. ClustersNeeded}
    <3>1. InPhase("GET_CLUSTER_HEAD") /\ file' = file
      BY <2>9 DEF handle_cluster_head, Phase, InPhase
    <3>2. CASE ClusterHeadsAccepted /\ AskFor(pieces, "FINAL")
      <4>1. BytesRead("FINAL")'
              = UNION {WholeBytes(m_cluster_list[i]) : i \in 1 .. ClustersNeeded}
        BY <3>1 DEF BytesRead, WholeBytes, m_cluster_list
      <4>2. EnoughCues(Len(file.cueList))
        BY <3>1 DEF InPhase, Gathering
      <4>3. ASSUME NEW i \in 1 .. ClustersNeeded, NEW x \in WholeBytes(m_cluster_list[i])
            PROVE  PieceOf(x) \in m_piece_data \union DataPieces(m_cluster_list[i])
        BY <1>f, <3>2, <4>2, <4>3, ClusterIsElement, WholeAskedFor DEF ClusterHeadsAccepted
      <4> QED  BY <3>1, <3>2, <4>1, <4>2, <4>3, GatheringAsked
    <3>3. CASE process_final_fail /\ UNCHANGED m_cur_mode
      BY <3>1, <3>3, GatheringFailed DEF process_final_fail
    <3> QED  BY <2>9, <3>2, <3>3 DEF handle_cluster_head, Phase
  <2>10. CASE HaveEverything
    <3>1. /\ m_awaiting_pieces = {} /\ m_mode = "READY" /\ m_cur_mode = "FINAL"
          /\ m_mode' = "CAN_FINISH"
          /\ UNCHANGED <<file, m_cur_mode, m_search_length, m_awaiting_pieces, m_piece_data>>
      BY <2>10 DEF HaveEverything, InPhase, CallsProcessReady, process_final_ready,
                   jobVars, mkvVars
    <3>2. Held(BytesRead("FINAL"))
      BY <3>1 DEF Gathering, Held
    <3>3. BytesRead("FINAL")' = BytesRead("FINAL") /\ (\A x : PieceOf(x)' = PieceOf(x))
      BY <3>1, SameBytes, SamePiece
    <3> QED  BY <3>1, <3>2, <3>3 DEF Gathering, Held, EnoughCues, EndIndex, StartIndex
  <2> QED  BY <1>2, <2>1, <2>2, <2>3, <2>4, <2>5, <2>6, <2>7, <2>8, <2>9, <2>10, <2>11
           DEF ProcessReady
<1>3. CASE process_final
  <2>1. /\ m_mode = "CAN_FINISH" /\ m_mode' = "TRY_TO_FINISH"
        /\ UNCHANGED <<file, m_cur_mode, m_search_length, m_awaiting_pieces, m_piece_data>>
    BY <1>3 DEF process_final, CallsProcessFinal, jobVars, mkvVars
  <2>2. BytesRead("FINAL")' = BytesRead("FINAL") /\ (\A x : PieceOf(x)' = PieceOf(x))
    BY <2>1, SameBytes, SamePiece
  <2> QED  BY <2>1, <2>2 DEF Gathering, Held, EnoughCues, EndIndex, StartIndex
<1>4. CASE ThreadStep
  <2>1. CASE ThreadReadsCluster
    BY <2>1, GatheringKept DEF ThreadReadsCluster, baseVars, jobVars, mkvVars
  <2>2. CASE \E mode \in {"FINISH", "FAIL"}, why \in {"unreadable", "renderer", "success"} :
               ThreadReturns(mode, why)
    BY <2>2, GatheringFailed DEF ThreadReturns, mkvVars
  <2> QED  BY <1>4, <2>1, <2>2 DEF ThreadStep, ThreadCannotRead, ThreadFails, ThreadSucceeds
<1>5. CASE UNCHANGED vars
  BY <1>5, GatheringKept DEF vars, baseVars, jobVars, mkvVars
<1> QED  BY <1>1, <1>2, <1>3, <1>4, <1>5 DEF Next

\* A phase never reads a byte it does not have, and from CAN_FINISH on nothing is
\* awaited and every byte of the clusters is there: for every file, piece length,
\* search step and number of clusters, whatever the session loses.
THEOREM ReadsAlwaysCovered == Spec => []ReadsCovered
<1>1. Gathering => ReadsCovered
  BY DEF Gathering, ReadsCovered, CallsProcessReady, Held
<1> QED  BY <1>1, InitTypeOK, StepTypeOK, InitGathering, StepGathering, PTL DEF Spec

-----------------------------------------------------------------------------
(* The job implements the lifecycle its owner relies on.                   *)

\* A new job has no thread, as a new lifecycle has.
LEMMA InitOneThread == Init => OneThread /\ Lifecycle!Init
BY DEF Init, BaseInit, OneThread, is_finish, Lifecycle!Init, Phase2Lifecycle

\* What a step does to mode and thread.
LEMMA StepModes ==
  ASSUME TypeOK, [Next]_vars
  PROVE  \/ UNCHANGED <<m_mode, thread, started>>
         \/ m_mode = "INIT" /\ m_mode' = "READY" /\ UNCHANGED <<thread, started>>
         \/ m_mode = "READY" /\ m_mode' \in {"CAN_FINISH", "FAIL"} /\ UNCHANGED <<thread, started>>
         \/ /\ m_mode = "CAN_FINISH" /\ m_mode' = "TRY_TO_FINISH"
            /\ thread' = "running" /\ started' = started + 1
         \/ /\ thread = "running" /\ thread' = "returned"
            /\ m_mode' \in {"FINISH", "FAIL"} /\ started' = started
<1>1. CASE BaseStep
  BY <1>1 DEF BaseStep, MainLoopBase, SessionBase, OutsideBase, threadVars, ProcessInit,
     ProcessWaiting, PieceFinishedAlert, ReadPieceAlert, ReadPieceLost, Download,
     OtherJobWants, TenSeconds
<1>2. CASE ProcessReady
  <2> USE DEF InPhase, CallsProcessReady, threadVars
  <2>1. CASE StartSearch \/ FoundSeekHead \/ extend_search_head
    BY <2>1 DEF StartSearch, FoundSeekHead, extend_search_head, AskFor, process_final_fail
  <2>2. CASE NotAnEbmlDocument \/ ScanPastTheEnd \/ NullSeek \/ HaveEverything
    BY <2>2 DEF NotAnEbmlDocument, ScanPastTheEnd, NullSeek, HaveEverything, process_final_fail,
       process_final_ready
  <2>3. ASSUME NEW mode, NEW accepted, NEW pieces, NEW next, Phase(mode, accepted, pieces, next)
        PROVE  /\ m_mode = "READY" /\ m_mode' \in {"READY", "FAIL"}
               /\ UNCHANGED <<thread, started>>
    BY <2>3 DEF Phase, AskFor, process_final_fail
  <2>4. CASE handle_get_seekhead \/ handle_cue_and_track_head
    BY <2>3, <2>4 DEF handle_get_seekhead, handle_cue_and_track_head
  <2>5. CASE handle_cue_and_track_data \/ handle_cluster_head
    BY <2>3, <2>5 DEF handle_cue_and_track_data, handle_cluster_head
  <2> QED  BY <1>2, <2>1, <2>2, <2>4, <2>5 DEF ProcessReady
<1>3. CASE process_final
  BY <1>3 DEF process_final, CallsProcessFinal
<1>4. CASE ThreadStep
  BY <1>4 DEF ThreadStep, ThreadReadsCluster, ThreadCannotRead, ThreadFails, ThreadSucceeds,
     ThreadReturns, baseVars
<1>5. CASE UNCHANGED vars
  BY <1>5 DEF vars, baseVars, threadVars
<1> QED  BY <1>1, <1>2, <1>3, <1>4, <1>5 DEF Next

\* Every step keeps the mode in agreement with the thread.
LEMMA StepOneThread == TypeOK /\ OneThread /\ [Next]_vars => OneThread'
BY StepModes DEF OneThread, is_finish

\* Every step of the job is a step of the lifecycle or leaves it as it is.
LEMMA StepLifecycle ==
  TypeOK /\ OneThread /\ [Next]_vars
    => [Lifecycle!Next]_<<Phase2Lifecycle, IF thread = "running" THEN 1 ELSE 0, started>>
BY StepModes DEF OneThread, is_finish, TypeOK, BaseTypeOK, Modes, Phase2Lifecycle,
   Lifecycle!Next, Lifecycle!GiveUp, Lifecycle!StartRendering, Lifecycle!ReportVerdict

\* A job starts at most one detached thread, gives its verdict only when that
\* thread has returned, and never takes the verdict back.
THEOREM LifecycleImplemented == Spec => ImplementsLifecycle
<1>1. Spec => []TypeOK
  BY TypeCorrect
<1> QED  BY <1>1, InitOneThread, StepOneThread, StepLifecycle, PTL
         DEF Spec, ImplementsLifecycle, Lifecycle!Spec

-----------------------------------------------------------------------------
(* A well-formed file is not given up for what the parser could not read.  *)

\* Why: the search has a whole number of steps of the file.
Searching ==
  m_cur_mode = "FINDING_SEEKHEAD" => \E j \in Nat \ {0} : m_search_length = j * SearchStep

\* In a file at the start of the torrent the lookup by file offset finds the
\* piece of the byte: a read of bytes whose pieces are received is right.
LEMMA HeldIsReadable ==
  ASSUME file \in Files, file.off = 0, m_awaiting_pieces = {},
         NEW a \in Nat, NEW n \in Int, Held(Span(a, n))
  PROVE  ReadOk(a, n)
<1> SUFFICES ASSUME NEW x \in Span(a, n)
             PROVE  get_piece_at_offset(LoadPoint(a, x)) = {PieceOf(x)}
  BY DEF ReadOk
<1>1. x \in Nat /\ a <= x
  BY DEF Span
<1>2. PieceLength \in Nat \ {0}
  BY BaseAssumption
<1> DEFINE q == x \div PieceLength
           l == LoadPoint(a, x)
<1>3. PieceOf(x) = q /\ q \in Int
  BY <1>1, <1>2 DEF PieceOf
<1>4. q * PieceLength <= x /\ x < (q + 1) * PieceLength
  BY <1>1, <1>2
<1> HIDE DEF q
<1>5. q * PieceLength \in Int /\ l = Larger(a, q * PieceLength)
  BY <1>2, <1>3 DEF LoadPoint
<1>6. l \in Int /\ q * PieceLength <= l /\ l < (q + 1) * PieceLength
  BY <1>1, <1>2, <1>3, <1>4, <1>5 DEF Larger
<1> HIDE DEF l
<1>7. l \div PieceLength = q
  <2> DEFINE r == l \div PieceLength
  <2>1. r \in Int /\ r * PieceLength <= l /\ l < (r + 1) * PieceLength
    BY <1>2, <1>6
  <2> HIDE DEF r
  <2>2. ASSUME r <= q - 1 PROVE FALSE
    <3>1. (r + 1) * PieceLength <= q * PieceLength
      BY <2>1, <2>2, <1>2, <1>3
    <3> QED  BY <3>1, <2>1, <1>2, <1>3, <1>6
  <2>3. ASSUME r >= q + 1 PROVE FALSE
    <3>1. (q + 1) * PieceLength <= r * PieceLength
      BY <2>1, <2>3, <1>2, <1>3
    <3> QED  BY <3>1, <2>1, <1>2, <1>3, <1>6
  <2>4. r = q
    BY <2>1, <2>2, <2>3, <1>3
  <2> QED  BY <2>4 DEF r
<1>8. q \in m_piece_data
  BY <1>3 DEF Held
<1> QED  BY <1>3, <1>7, <1>8 DEF get_piece_at_offset, l

\* A read within a read that is right is right.
LEMMA ReadOkPrefix ==
  ASSUME NEW a \in Int, NEW n \in Int, NEW k \in Int, k <= n, ReadOk(a, n)
  PROVE  ReadOk(a, k)
BY DEF ReadOk, Span

\* Every step keeps what is known of the search.
LEMMA StepSearching == TypeOK /\ Searching /\ [Next]_vars => Searching'
<1> SUFFICES ASSUME TypeOK, Searching, [Next]_vars PROVE Searching'
  OBVIOUS
<1>s. SearchStep \in Nat \ {0}
  BY MkvAssumption
<1>1. CASE UNCHANGED <<m_cur_mode, m_search_length>>
  BY <1>1 DEF Searching
<1>2. CASE StartSearch
  BY <1>2, <1>s DEF StartSearch, AskFor, Searching
<1>3. CASE m_cur_mode' # "FINDING_SEEKHEAD"
  BY <1>3 DEF Searching
<1>4. CASE extend_search_head
  <2>1. PICK j \in Nat \ {0} : m_search_length = j * SearchStep
    BY <1>4 DEF extend_search_head, InPhase, Searching
  <2>2. m_search_length' = m_search_length + SearchStep
    BY <1>4 DEF extend_search_head
  <2>3. m_search_length' = (j + 1) * SearchStep /\ j + 1 \in Nat \ {0}
    BY <2>1, <2>2, <1>s
  <2> QED  BY <2>3 DEF Searching
<1>5. CASE BaseStep \/ process_final \/ ThreadStep \/ UNCHANGED vars
  BY <1>1, <1>5 DEF BaseStep, OutsideBase, process_final, ThreadStep, ThreadReadsCluster,
     ThreadCannotRead, ThreadFails, ThreadSucceeds, ThreadReturns, mkvVars, vars
<1>6. CASE NotAnEbmlDocument \/ FoundSeekHead \/ ScanPastTheEnd \/ NullSeek \/ HaveEverything
  BY <1>1, <1>3, <1>6 DEF NotAnEbmlDocument, FoundSeekHead, ScanPastTheEnd, NullSeek, HaveEverything,
     AskFor, mkvVars
<1>7. CASE handle_get_seekhead \/ handle_cue_and_track_head
  BY <1>1, <1>3, <1>7 DEF handle_get_seekhead, handle_cue_and_track_head, Phase, AskFor
<1>8. CASE handle_cue_and_track_data \/ handle_cluster_head
  BY <1>1, <1>3, <1>8 DEF handle_cue_and_track_data, handle_cluster_head, Phase, AskFor
<1> QED  BY <1>2, <1>4, <1>5, <1>6, <1>7, <1>8 DEF Next, ProcessReady

\* When a phase of a well-formed file runs, what it reads is readable.
LEMMA PhaseReadable ==
  ASSUME TypeOK, Gathering, WellFormed(file), CallsProcessReady,
         NEW a \in Nat, NEW n \in Int, Span(a, n) \subseteq BytesRead(m_cur_mode)
  PROVE  ReadOk(a, n)
<1>1. m_awaiting_pieces = {} /\ file.off = 0 /\ file \in Files
  BY DEF CallsProcessReady, WellFormed, TypeOK, BaseTypeOK
<1>2. Held(Span(a, n))
  BY <1>1 DEF Gathering, CallsProcessReady, Held
<1> QED  BY <1>1, <1>2, HeldIsReadable

\* The search of a well-formed file always has its segment; if it lacks the
\* SeekHead, the next step of the search is within the limit.
LEMMA SearchSucceeds ==
  ASSUME TypeOK, Gathering, Searching, WellFormed(file), CallsProcessReady,
         m_cur_mode = "FINDING_SEEKHEAD"
  PROVE  /\ SegmentRead
         /\ ~SeekHeadRead => m_search_length + SearchStep <= SearchLimit
         /\ ScanSpins(file.segment) => SeekHeadRead
<1>1. /\ SearchStep \in Nat \ {0} /\ SearchLimit \in Nat /\ file \in Files /\ file.off = 0
      /\ file.segment \in Nat /\ file.segment <= SearchStep /\ file.seekHead \in Element
      /\ file.segment <= file.seekHead.pos /\ file.size \in Nat /\ file.size <= TorrentSize
      /\ DataStart(file.seekHead) \in Nat /\ DataStart(file.seekHead) <= file.size
      /\ file.segment <= DataStart(file.seekHead) /\ TorrentSize \in Nat
  <2>1. file \in Files /\ WellFormed(file)
    BY DEF TypeOK, BaseTypeOK
  <2>2. SearchStep \in Nat \ {0} /\ SearchLimit \in Nat /\ TorrentSize \in Nat
    BY MkvAssumption, BaseAssumption
  <2>3. /\ file.off = 0 /\ file.segment <= SearchStep
        /\ DataStart(file.seekHead) <= file.size
    BY <2>1 DEF WellFormed
  <2>4. file.size \in Nat /\ file.off + file.size <= TorrentSize
    BY <2>1, BaseAssumption
  <2>5. /\ file.segment \in Nat /\ file.segment <= file.seekHead.pos
        /\ file.seekHead \in Element
    BY <2>1, MkvAssumption
  <2>6. /\ file.seekHead.pos \in Nat /\ file.seekHead.head \in Nat
        /\ DataStart(file.seekHead) = file.seekHead.pos + file.seekHead.head
    BY <2>5 DEF Element, DataStart
  <2> QED
    BY <2>1, <2>2, <2>3, <2>4, <2>5, <2>6
<1>2. PICK j \in Nat \ {0} : m_search_length = j * SearchStep
  BY DEF Searching
<1>3. m_search_length >= SearchStep /\ m_search_length \in Nat
  BY <1>1, <1>2
<1>4. BytesRead(m_cur_mode) = Span(0, m_search_length)
  BY DEF BytesRead
<1>5. SegmentRead
  <2>1. Span(0, file.segment) \subseteq Span(0, m_search_length)
    BY <1>1, <1>3 DEF Span
  <2>2. 0 \in Nat /\ file.segment \in Int
    BY <1>1
  <2>3. ReadOk(0, file.segment)
    BY <2>1, <2>2, <1>4, PhaseReadable
  <2> QED  BY <2>3 DEF SegmentRead, WellFormed
<1>6. ASSUME DataStart(file.seekHead) <= m_search_length
      PROVE  SeekHeadRead
  <2>1. Span(file.segment, DataStart(file.seekHead) - file.segment) \subseteq Span(0, m_search_length)
    BY <1>1, <1>3, <1>6 DEF Span
  <2>2. file.segment \in Nat /\ DataStart(file.seekHead) - file.segment \in Int
    BY <1>1
  <2>3. ReadOk(file.segment, DataStart(file.seekHead) - file.segment)
    BY <2>1, <2>2, <1>4, PhaseReadable
  <2> QED  BY <2>3 DEF SeekHeadRead, WellFormed
<1>7. ASSUME ~SeekHeadRead PROVE m_search_length + SearchStep <= SearchLimit
  <2>1. PICK k \in 1 .. (SearchLimit \div SearchStep) : DataStart(file.seekHead) <= k * SearchStep
    BY DEF WellFormed
  <2>2. SearchLimit \div SearchStep \in Int /\ SearchStep * (SearchLimit \div SearchStep) <= SearchLimit
    BY <1>1
  <2>3. k \in Nat /\ SearchStep * k <= SearchLimit
    <3>1. k \in Nat /\ k <= SearchLimit \div SearchStep
      BY <2>1, <2>2
    <3>2. SearchStep * k <= SearchStep * (SearchLimit \div SearchStep)
      BY <3>1, <2>2, <1>1
    <3> QED  BY <3>1, <3>2, <2>2, <1>1
  <2>4. j * SearchStep < k * SearchStep
    BY <1>1, <1>2, <1>3, <1>6, <1>7, <2>1, <2>3
  <2>5. j + 1 <= k
    <3>1. ASSUME k <= j PROVE FALSE
      <4>1. k * SearchStep <= j * SearchStep
        BY <3>1, <1>1, <1>2, <2>3
      <4> QED  BY <4>1, <2>4, <1>1, <1>2, <2>3
    <3> QED  BY <3>1, <1>2, <2>3
  <2>6. (j + 1) * SearchStep <= k * SearchStep
    BY <2>5, <1>1, <1>2, <2>3
  <2> QED  BY <2>3, <2>6, <1>1, <1>2
<1>8. ASSUME ScanSpins(file.segment) PROVE SeekHeadRead
  <2>1. TorrentEnd \in Int /\ DataStart(file.seekHead) <= TorrentEnd
    BY <1>1 DEF TorrentEnd
  <2>2. ReadOk(file.segment, TorrentEnd - file.segment)
    BY <1>8 DEF ScanSpins
  <2>3. ReadOk(file.segment, DataStart(file.seekHead) - file.segment)
    BY <2>1, <2>2, <1>1, ReadOkPrefix
  <2> QED  BY <2>3 DEF SeekHeadRead, WellFormed
<1> QED  BY <1>5, <1>7, <1>8

\* The phases behind the SeekHead accept what they read of a well-formed file.
LEMMA PhasesAccept ==
  ASSUME TypeOK, Gathering, WellFormed(file), CallsProcessReady
  PROVE  /\ m_cur_mode = "GET_SEEKHEAD" => SeekHeadAccepted
         /\ m_cur_mode = "GET_CUE_AND_TRACK_HEAD" => HeadsAccepted
         /\ m_cur_mode = "GET_CUE_AND_TRACK_DATA" => DataAccepted
         /\ m_cur_mode = "GET_CLUSTER_HEAD" => ClusterHeadsAccepted
<1>1. /\ file \in Files
      /\ file.seekHead \in Element /\ file.cues \in Element /\ file.tracks \in Element
  BY MkvAssumption DEF TypeOK, BaseTypeOK
<1>2. \A e \in Element : e.pos \in Nat /\ e.head \in Int /\ WholeLength(e) \in Int
  BY DEF Element, WholeLength
<1>3. \A e \in Element : WholeBytes(e) \subseteq BytesRead(m_cur_mode)
                          => ReadOk(e.pos, WholeLength(e))
  BY <1>2, PhaseReadable DEF WholeBytes
<1>4. \A e \in Element : HeaderBytes(e) \subseteq BytesRead(m_cur_mode) => ReadOk(e.pos, e.head)
  BY <1>2, PhaseReadable DEF HeaderBytes
<1>5. ASSUME m_cur_mode = "GET_SEEKHEAD" PROVE SeekHeadAccepted
  BY <1>1, <1>3, <1>5 DEF BytesRead, SeekHeadAccepted, SeekHeadReadable, WellFormed
<1>6. ASSUME m_cur_mode = "GET_CUE_AND_TRACK_HEAD" PROVE HeadsAccepted
  BY <1>1, <1>4, <1>6 DEF BytesRead, HeadsAccepted, WellFormed
<1>7. ASSUME m_cur_mode = "GET_CUE_AND_TRACK_DATA" PROVE DataAccepted
  BY <1>1, <1>3, <1>7 DEF BytesRead, DataAccepted, WellFormed
<1>8. ASSUME m_cur_mode = "GET_CLUSTER_HEAD" PROVE ClusterHeadsAccepted
  <2>1. ASSUME NEW i \in 1 .. ClustersNeeded
        PROVE  ReadOk(m_cluster_list[i].pos, m_cluster_list[i].head)
    <3>1. m_cluster_list[i] \in Element
      BY <1>1, ClusterIsElement DEF WellFormed
    <3>2. HeaderBytes(m_cluster_list[i]) \subseteq BytesRead(m_cur_mode)
      BY <1>8 DEF BytesRead
    <3> QED  BY <3>1, <3>2, <1>4
  <2> QED  BY <2>1 DEF ClusterHeadsAccepted, WellFormed
<1> QED  BY <1>5, <1>6, <1>7, <1>8

\* The detached thread can read each cluster of a well-formed file.
LEMMA ThreadReads ==
  ASSUME TypeOK, Gathering, OneThread, WellFormed(file),
         thread = "running", clustersRead < ClustersNeeded
  PROVE  ClusterReadable
<1>1. m_mode = "TRY_TO_FINISH" /\ file \in Files
  BY DEF TypeOK, BaseTypeOK, Modes, OneThread, is_finish
<1>2. m_awaiting_pieces = {} /\ Held(BytesRead("FINAL"))
  BY <1>1 DEF Gathering
<1>3. clustersRead + 1 \in 1 .. ClustersNeeded
  BY MkvAssumption DEF TypeOK
<1>4. NextCluster \in Element
  BY <1>1, <1>3, ClusterIsElement DEF WellFormed, NextCluster
<1>5. WholeBytes(NextCluster) \subseteq BytesRead("FINAL")
  BY <1>3 DEF NextCluster, BytesRead
<1>6. Held(Span(NextCluster.pos, WholeLength(NextCluster)))
  BY <1>2, <1>5 DEF Held, WholeBytes
<1>7. NextCluster.pos \in Nat /\ WholeLength(NextCluster) \in Int
  BY <1>4 DEF Element, WholeLength
<1> QED  BY <1>1, <1>2, <1>6, <1>7, HeldIsReadable DEF WellFormed, ClusterReadable

\* A step of a job for a well-formed file does not give it up.
LEMMA StepAccepted ==
  TypeOK /\ Gathering /\ OneThread /\ Searching /\ WellFormedFileAccepted /\ [Next]_vars
    => WellFormedFileAccepted'
<1> SUFFICES ASSUME TypeOK, Gathering, OneThread, Searching, WellFormedFileAccepted,
                    [Next]_vars, WellFormed(file)'
             PROVE  WellFormedFileAccepted'
  BY DEF WellFormedFileAccepted
<1>1. file' = file
  BY DEF Next, vars, baseVars, BaseStep, MainLoopBase, SessionBase, ProcessWaiting, ProcessInit,
     PieceFinishedAlert, ReadPieceAlert, ReadPieceLost, Download, OtherJobWants, TenSeconds,
     ProcessReady, StartSearch, NotAnEbmlDocument, FoundSeekHead, extend_search_head,
     ScanPastTheEnd, NullSeek, handle_get_seekhead, handle_cue_and_track_head, handle_cue_and_track_data,
     handle_cluster_head, Phase, HaveEverything, InPhase, process_final, ThreadStep,
     ThreadReadsCluster, ThreadCannotRead, ThreadFails, ThreadSucceeds, ThreadReturns
<1>2. WellFormed(file)
  BY <1>1 DEF WellFormed, DataStart, EnoughCues, EndIndex, StartIndex
<1>3. verdict \notin {"parser", "unreadable"} /\ main = "running"
  BY <1>2 DEF WellFormedFileAccepted
<1>4. CASE UNCHANGED <<verdict, main>>
  BY <1>3, <1>4 DEF WellFormedFileAccepted
<1>5. CASE NotAnEbmlDocument
  <2>1. CallsProcessReady /\ m_cur_mode = "FINDING_SEEKHEAD" /\ ~SegmentRead
    BY <1>5 DEF NotAnEbmlDocument, InPhase
  <2> QED  BY <2>1, <1>2, SearchSucceeds
<1>6. CASE extend_search_head
  <2>1. /\ CallsProcessReady /\ m_cur_mode = "FINDING_SEEKHEAD" /\ ~SeekHeadRead
        /\ m_search_length' = m_search_length + SearchStep
    BY <1>6 DEF extend_search_head, InPhase
  <2>2. m_search_length' <= SearchLimit
    BY <2>1, <1>2, SearchSucceeds
  <2>3. m_search_length' \in Nat /\ SearchLimit \in Nat
    BY <2>1, MkvAssumption DEF TypeOK
  <2>4. ~(m_search_length' > SearchLimit)
    BY <2>2, <2>3
  <2> QED  BY <1>4, <1>6, <2>4 DEF extend_search_head, AskFor
<1>7. CASE ScanPastTheEnd
  <2>1. /\ CallsProcessReady /\ m_cur_mode = "FINDING_SEEKHEAD"
        /\ ~SeekHeadRead /\ ScanSpins(file.segment)
    BY <1>7 DEF ScanPastTheEnd, InPhase
  <2> QED  BY <2>1, <1>2, SearchSucceeds
<1>8. CASE StartSearch \/ FoundSeekHead \/ HaveEverything
  BY <1>4, <1>8 DEF StartSearch, FoundSeekHead, HaveEverything, AskFor, process_final_ready
<1>9. ASSUME NEW mode, NEW accepted, NEW pieces, NEW next, Phase(mode, accepted, pieces, next),
             CallsProcessReady /\ m_cur_mode = mode => accepted
      PROVE  UNCHANGED <<verdict, main>>
  BY <1>9 DEF Phase, InPhase, AskFor
<1>10. CASE handle_get_seekhead
  BY <1>2, <1>4, <1>9, <1>10, PhasesAccept DEF handle_get_seekhead
<1>16. CASE NullSeek
  <2>1. CallsProcessReady /\ m_cur_mode = "GET_SEEKHEAD"
    BY <1>16 DEF NullSeek, InPhase
  <2>2. SeekHeadAccepted
    BY <2>1, <1>2, PhasesAccept
  <2> QED  BY <1>2, <1>16, <2>2 DEF NullSeek, SeekHeadAccepted, WellFormed
<1>11. CASE handle_cue_and_track_head
  BY <1>2, <1>4, <1>9, <1>11, PhasesAccept DEF handle_cue_and_track_head
<1>12. CASE handle_cue_and_track_data
  BY <1>2, <1>4, <1>9, <1>12, PhasesAccept DEF handle_cue_and_track_data
<1>13. CASE handle_cluster_head
  BY <1>2, <1>4, <1>9, <1>13, PhasesAccept DEF handle_cluster_head
<1>14. CASE ThreadStep
  <2>1. CASE ThreadReadsCluster
    BY <1>4, <2>1 DEF ThreadReadsCluster
  <2>2. CASE ThreadCannotRead
    BY <1>2, <2>2, ThreadReads DEF ThreadCannotRead, ThreadReturns
  <2>3. CASE ThreadFails \/ ThreadSucceeds
    BY <1>3, <2>3 DEF ThreadFails, ThreadSucceeds, ThreadReturns, WellFormedFileAccepted
  <2> QED  BY <1>14, <2>1, <2>2, <2>3 DEF ThreadStep
<1>15. CASE BaseStep \/ process_final \/ UNCHANGED vars
  BY <1>4, <1>15 DEF BaseStep, OutsideBase, process_final, vars
<1> QED  BY <1>5, <1>6, <1>7, <1>8, <1>10, <1>11, <1>12, <1>13, <1>14, <1>15,
            <1>16 DEF Next, ProcessReady

\* Only the renderer can fail a well-formed file at the start of its torrent:
\* the search stays within its limit, each phase finds what it reads and so does
\* the detached thread, whatever alerts are lost.
THEOREM WellFormedAlwaysAccepted == Spec => []WellFormedFileAccepted
<1>1. Init => Searching /\ WellFormedFileAccepted
  BY DEF Init, Searching, WellFormedFileAccepted
<1> QED  BY <1>1, InitTypeOK, StepTypeOK, InitGathering, StepGathering, InitOneThread,
            StepOneThread, StepSearching, StepAccepted, PTL DEF Spec
=============================================================================
