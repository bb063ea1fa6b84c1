------------------------------ MODULE MediaMkv -------------------------------
(***************************************************************************)
(* media_mkv (include/media_mkv.hpp, src/media_mkv.cpp): the media job for *)
(* a Matroska file.  On the thread of handle_loop it walks the file from   *)
(* its SeekHead to the clusters it wants, asking in each phase for the     *)
(* pieces the next phase will read; when it has them all it renders on a   *)
(* detached thread.                                                        *)
(*                                                                         *)
(* Simplifications:                                                        *)
(*  - what the parser (libebml, libmatroska) finds in the file is the      *)
(*    record "file": where the elements lie, and the first thing wrong     *)
(*    with them ("flaw"); m_segment_pos, m_seekhead_pos, m_cue_pos,        *)
(*    m_track_pos and m_cluster_list are functions of that record;         *)
(*  - cueList holds the clusters of the cue points kept by                 *)
(*    handle_cue_and_track_data, in cue time order;                        *)
(*  - the index of a cluster kept is computed exactly; in floating point   *)
(*    it may come out one lower (first with 397 cue points), still among   *)
(*    the cue points;                                                      *)
(*  - decoding, encoding and sending the result are one verdict.           *)
(***************************************************************************)
EXTENDS MediaBase, Sequences

CONSTANTS
  SearchStep,         \* 1 MB, by which the search for the SeekHead grows
  SearchLimit,        \* m_search_head_limit
  HeadSpan,           \* the 20 bytes asked for to read an element's header
  ClustersNeeded      \* m_cluster_need_size

\* A Matroska element: its header at pos, its data behind the header.
Element == [pos : Nat, head : Nat, size : Nat]
Flaws == {"none", "ebml", "noSeekHead", "seek", "seekId", "heads", "tracks", "cues",
          "cluster", "noBlock"}

\* A header is at most 12 bytes of the HeadSpan asked for: "20 for sure"; the
\* search finds the SeekHead behind the head of its segment.
ASSUME MkvAssumption ==
  /\ SearchStep \in Nat \ {0}
  /\ SearchLimit \in Nat
  /\ HeadSpan \in Nat
  /\ ClustersNeeded \in Nat \ {0, 1}
  /\ \A f \in Files :
       /\ f.segment \in Nat /\ f.segment <= f.seekHead.pos
       /\ f.seekHead \in Element /\ f.cues \in Element /\ f.tracks \in Element
       /\ f.cueList \in Seq(Element)
       /\ f.flaw \in Flaws
       /\ f.cues.head <= HeadSpan /\ f.tracks.head <= HeadSpan
       /\ \A i \in DOMAIN f.cueList : f.cueList[i].head <= HeadSpan

VARIABLES
  m_cur_mode,
  m_search_length,
  m_found_segment,
  thread,          \* the detached thread: "none", "running", "returned"
  clustersRead,    \* clusters the thread has read so far
  started,         \* detached threads ever started
  verdict,         \* the process_final_* call that decided the job, "none" before
  main             \* the main thread: "running", "spinning" (in the endless loop of
                   \* io_helper::read, the mutex held), "crashed" (with the program)

mkvVars == <<m_cur_mode, m_search_length, m_found_segment>>
threadVars == <<thread, clustersRead, started>>
vars == <<baseVars, mkvVars, threadVars, verdict, main>>

MkvModes == {"READY", "FINDING_SEEKHEAD", "GET_SEEKHEAD", "GET_CUE_AND_TRACK_HEAD",
             "GET_CUE_AND_TRACK_DATA", "GET_CLUSTER_HEAD", "FINAL"}

Init ==
  /\ BaseInit
  /\ m_cur_mode = "READY"
  /\ m_search_length = 0
  /\ m_found_segment = FALSE
  /\ thread = "none"
  /\ clustersRead = 0
  /\ started = 0
  /\ verdict = "none"
  /\ main = "running"

-----------------------------------------------------------------------------
(* io_helper: seek to a, then read on.                                     *)

Larger(a, b) == IF a >= b THEN a ELSE b
Span(a, n) == a .. (a + n - 1)
HeaderBytes(e) == Span(e.pos, e.head)
DataStart(e) == e.pos + e.head
WholeLength(e) == e.head + e.size

\* m_curpos when load_piece loaded the buffer byte x of a read from a comes
\* from: a buffer is loaded at the seek position and at each piece boundary.
LoadPoint(a, x) == Larger(a, PieceOf(x) * PieceLength - file.off)

\* The n bytes read from a are all there and are the bytes of the file.
ReadOk(a, n) ==
  \A x \in Span(a, n) : get_piece_at_offset(LoadPoint(a, x)) = {PieceOf(x)}

\* A scan from a that finds nothing ends at the first piece that is not loaded,
\* or never: at the end of a last piece shorter than the others load_piece
\* succeeds again and again with no byte left in the buffer.
TorrentEnd == TorrentSize - file.off
ScanSpins(a) ==
  /\ ReadOk(a, TorrentEnd - a)
  /\ get_piece_at_offset(TorrentEnd) = {TorrentSize \div PieceLength}
  /\ TorrentSize % PieceLength # 0

-----------------------------------------------------------------------------
(* The clusters handle_cue_and_track_data keeps.                           *)

StartIndex == 2
EndIndex(n) == n - 3
EnoughCues(n) == EndIndex(n) - StartIndex + 1 >= ClustersNeeded

\* The index, from 0, of the i-th cluster kept of n: (int)(start_index + step * i).
PickIndex(n, i) ==
  StartIndex + ((EndIndex(n) - StartIndex) * i) \div (ClustersNeeded - 1)

m_cluster_list ==
  [i \in 1 .. ClustersNeeded |-> file.cueList[PickIndex(Len(file.cueList), i - 1) + 1]]

-----------------------------------------------------------------------------
(* process_final_*: how the main thread leaves READY.                      *)

process_final_fail ==
  /\ m_mode' = "FAIL"
  /\ verdict' = "parser"
  /\ UNCHANGED <<jobVars, sessionVars>>

process_final_ready ==
  /\ m_mode' = "CAN_FINISH"
  /\ UNCHANGED <<verdict, jobVars, sessionVars>>

\* A phase ends by asking for the pieces of the next one.
AskFor(pieces, next) ==
  /\ set_receive_pieces(pieces)
  /\ m_cur_mode' = next
  /\ UNCHANGED <<m_mode, verdict>>

HeadPieces(e) == map_byte_range(e.pos, HeadSpan)
DataPieces(e) == map_byte_range(DataStart(e), e.size)

-----------------------------------------------------------------------------
(* process_ready, one action per phase and outcome.                        *)

InPhase(mode) ==
  /\ CallsProcessReady
  /\ main = "running"
  /\ m_cur_mode = mode
  /\ UNCHANGED <<file, threadVars>>

StartSearch ==
  /\ InPhase("READY")
  /\ m_search_length' = SearchStep
  /\ AskFor(map_byte_range(0, SearchStep), "FINDING_SEEKHEAD")
  /\ UNCHANGED <<m_found_segment, main>>

SegmentRead == m_found_segment \/ (file.flaw # "ebml" /\ ReadOk(0, file.segment))

SeekHeadRead ==
  /\ file.flaw # "noSeekHead"
  /\ ReadOk(file.segment, DataStart(file.seekHead) - file.segment)

NotAnEbmlDocument ==
  /\ InPhase("FINDING_SEEKHEAD")
  /\ ~SegmentRead
  /\ process_final_fail
  /\ UNCHANGED <<mkvVars, main>>

FoundSeekHead ==
  /\ InPhase("FINDING_SEEKHEAD")
  /\ SegmentRead
  /\ SeekHeadRead
  /\ m_found_segment' = TRUE
  /\ AskFor(DataPieces(file.seekHead), "GET_SEEKHEAD")
  /\ UNCHANGED <<m_search_length, main>>

extend_search_head ==
  /\ InPhase("FINDING_SEEKHEAD")
  /\ SegmentRead
  /\ ~SeekHeadRead
  /\ ~ScanSpins(file.segment)
  /\ m_found_segment' = TRUE
  /\ m_search_length' = m_search_length + SearchStep
  /\ \/ /\ m_search_length' > SearchLimit
        /\ process_final_fail
        /\ UNCHANGED m_cur_mode
     \/ /\ m_search_length' <= SearchLimit
        /\ AskFor(map_byte_range(0, m_search_length'), m_cur_mode)
  /\ UNCHANGED main

ScanPastTheEnd ==
  /\ InPhase("FINDING_SEEKHEAD")
  /\ SegmentRead
  /\ ~SeekHeadRead
  /\ ScanSpins(file.segment)
  /\ m_found_segment' = TRUE
  /\ main' = "spinning"
  /\ UNCHANGED <<m_mode, verdict, jobVars, sessionVars, m_cur_mode, m_search_length>>

\* The phases after the SeekHead all work the same way: the parser accepts
\* what the phase reads, and the next phase's pieces are asked for, or the
\* job fails.
Phase(mode, accepted, pieces, next) ==
  /\ InPhase(mode)
  /\ \/ accepted /\ AskFor(pieces, next)
     \/ ~accepted /\ process_final_fail /\ UNCHANGED m_cur_mode
  /\ UNCHANGED <<m_search_length, m_found_segment, main>>

SeekHeadReadable == ReadOk(file.seekHead.pos, WholeLength(file.seekHead))
SeekHeadAccepted == SeekHeadReadable /\ file.flaw \notin {"seek", "seekId"}

handle_get_seekhead ==
  /\ file.flaw = "seekId" => ~SeekHeadReadable
  /\ Phase("GET_SEEKHEAD", SeekHeadAccepted,
           HeadPieces(file.cues) \union HeadPieces(file.tracks),
           "GET_CUE_AND_TRACK_HEAD")

\* A Seek without a SeekID, or a SeekHead that is not found again or read as
\* something else, gives a null pointer that is used unchecked.
NullSeek ==
  /\ InPhase("GET_SEEKHEAD")
  /\ file.flaw = "seekId" \/ ~SeekHeadReadable
  /\ main' = "crashed"
  /\ UNCHANGED <<m_mode, verdict, jobVars, sessionVars, mkvVars>>

HeadsAccepted ==
  /\ file.flaw # "heads"
  /\ ReadOk(file.cues.pos, file.cues.head)
  /\ ReadOk(file.tracks.pos, file.tracks.head)

handle_cue_and_track_head ==
  Phase("GET_CUE_AND_TRACK_HEAD", HeadsAccepted,
        DataPieces(file.cues) \union DataPieces(file.tracks),
        "GET_CUE_AND_TRACK_DATA")

DataAccepted ==
  /\ file.flaw \notin {"tracks", "cues"}
  /\ ReadOk(file.tracks.pos, WholeLength(file.tracks))
  /\ ReadOk(file.cues.pos, WholeLength(file.cues))
  /\ EnoughCues(Len(file.cueList))

handle_cue_and_track_data ==
  Phase("GET_CUE_AND_TRACK_DATA", DataAccepted,
        UNION {HeadPieces(m_cluster_list[i]) : i \in 1 .. ClustersNeeded},
        "GET_CLUSTER_HEAD")

ClusterHeadsAccepted ==
  /\ file.flaw # "cluster"
  /\ \A i \in 1 .. ClustersNeeded :
       ReadOk(m_cluster_list[i].pos, m_cluster_list[i].head)

\* Mutant: the heads of the clusters are asked for once more.
AskForHeadsAgain ==
  Phase("GET_CLUSTER_HEAD", ClusterHeadsAccepted,
        UNION {HeadPieces(m_cluster_list[i]) : i \in 1 .. ClustersNeeded},
        "FINAL")

handle_cluster_head ==
  Phase("GET_CLUSTER_HEAD", ClusterHeadsAccepted,
        UNION {DataPieces(m_cluster_list[i]) : i \in 1 .. ClustersNeeded},
        "FINAL")

HaveEverything ==
  /\ InPhase("FINAL")
  /\ process_final_ready
  /\ UNCHANGED <<mkvVars, main>>

-----------------------------------------------------------------------------
(* process_final and the detached thread it starts.                        *)

\* Mutant: the job stays in CAN_FINISH while its thread runs.
FinalWithoutTrying ==
  /\ main = "running"
  /\ CallsProcessFinal
  /\ thread' = "running"
  /\ clustersRead' = 0
  /\ started' = started + 1
  /\ UNCHANGED <<file, m_mode, jobVars, sessionVars, mkvVars, verdict, main>>

process_final ==
  /\ main = "running"
  /\ CallsProcessFinal
  /\ m_mode' = "TRY_TO_FINISH"
  /\ thread' = "running"
  /\ clustersRead' = 0
  /\ started' = started + 1
  /\ UNCHANGED <<file, jobVars, sessionVars, mkvVars, verdict, main>>

NextCluster == m_cluster_list[clustersRead + 1]
ClusterReadable ==
  /\ file.flaw # "noBlock"
  /\ ReadOk(NextCluster.pos, WholeLength(NextCluster))

ThreadReadsCluster ==
  /\ thread = "running"
  /\ clustersRead < ClustersNeeded
  /\ ClusterReadable
  /\ clustersRead' = clustersRead + 1
  /\ UNCHANGED <<baseVars, mkvVars, thread, started, verdict, main>>

ThreadReturns(mode, why) ==
  /\ thread = "running"
  /\ thread' = "returned"
  /\ m_mode' = mode
  /\ verdict' = why
  /\ UNCHANGED <<file, jobVars, sessionVars, mkvVars, clustersRead, started, main>>

ThreadCannotRead ==
  /\ clustersRead < ClustersNeeded
  /\ ~ClusterReadable
  /\ ThreadReturns("FAIL", "unreadable")

\* No codec, an allocation, the decoder, the encoder or the connection to the
\* receiver of the result fails.
ThreadFails == ThreadReturns("FAIL", "renderer")

ThreadSucceeds ==
  /\ clustersRead = ClustersNeeded
  /\ ThreadReturns("FINISH", "success")

-----------------------------------------------------------------------------
\* handle_loop never gets to an alert or a job again once a read spins.
MainLoopBase ==
  /\ main = "running"
  /\ ProcessWaiting \/ ProcessInit \/ \E p \in Pieces : PieceFinishedAlert(p) \/ ReadPieceAlert(p)

SessionBase ==
  /\ main # "crashed"
  /\ \/ TenSeconds
     \/ \E p \in Pieces : ReadPieceLost(p) \/ Download(p) \/ OtherJobWants(p)

OutsideBase == <<mkvVars, threadVars, verdict, main>>

BaseStep == (MainLoopBase \/ SessionBase) /\ UNCHANGED OutsideBase

ProcessReady ==
  \/ StartSearch
  \/ NotAnEbmlDocument
  \/ FoundSeekHead
  \/ extend_search_head
  \/ ScanPastTheEnd
  \/ handle_get_seekhead
  \/ NullSeek
  \/ handle_cue_and_track_head
  \/ handle_cue_and_track_data
  \/ handle_cluster_head
  \/ HaveEverything

ThreadStep ==
  \/ ThreadReadsCluster
  \/ ThreadCannotRead
  \/ ThreadFails
  \/ ThreadSucceeds

Next == BaseStep \/ ProcessReady \/ process_final \/ ThreadStep

\* handle_loop runs every 200 ms until the program stops, the session's threads
\* run, the swarm has every piece, and decoding and encoding a cluster end.
Fairness ==
  /\ WF_vars(main = "running" /\ ProcessWaiting /\ UNCHANGED OutsideBase)
  /\ WF_vars(main = "running" /\ ProcessInit /\ UNCHANGED OutsideBase)
  /\ WF_vars(main = "running" /\ (\E p \in Pieces : PieceFinishedAlert(p)) /\ UNCHANGED OutsideBase)
  /\ WF_vars(main = "running" /\ (\E p \in Pieces : ReadPieceAlert(p)) /\ UNCHANGED OutsideBase)
  /\ WF_vars(ProcessReady)
  /\ WF_vars(process_final)
  /\ WF_vars(main # "crashed" /\ (\E p \in Pieces : Download(p)) /\ UNCHANGED OutsideBase)
  /\ WF_vars(main # "crashed" /\ TenSeconds /\ UNCHANGED OutsideBase)
  /\ WF_vars(ThreadStep)

Spec == Init /\ [][Next]_vars /\ Fairness

-----------------------------------------------------------------------------
(* Properties.                                                             *)

\* Every variable holds a value of its type.
TypeOK ==
  /\ BaseTypeOK
  /\ m_cur_mode \in MkvModes
  /\ m_search_length \in Nat
  /\ m_found_segment \in BOOLEAN
  /\ thread \in {"none", "running", "returned"}
  /\ clustersRead \in 0 .. ClustersNeeded
  /\ started \in Nat
  /\ verdict \in {"none", "parser", "unreadable", "renderer", "success"}
  /\ main \in {"running", "spinning", "crashed"}

WholeBytes(e) == Span(e.pos, WholeLength(e))

\* The bytes of the file the code reads in a phase, whatever it finds there.
BytesRead(phase) ==
  CASE phase = "READY" -> {}
    [] phase = "FINDING_SEEKHEAD" -> Span(0, m_search_length)
    [] phase = "GET_SEEKHEAD" -> WholeBytes(file.seekHead)
    [] phase = "GET_CUE_AND_TRACK_HEAD" -> HeaderBytes(file.cues) \union HeaderBytes(file.tracks)
    [] phase = "GET_CUE_AND_TRACK_DATA" -> WholeBytes(file.cues) \union WholeBytes(file.tracks)
    [] phase = "GET_CLUSTER_HEAD" -> UNION {HeaderBytes(m_cluster_list[i]) : i \in 1 .. ClustersNeeded}
    [] phase = "FINAL" -> UNION {WholeBytes(m_cluster_list[i]) : i \in 1 .. ClustersNeeded}

Held(bytes) == \A x \in bytes : PieceOf(x) \in m_piece_data

\* When a phase runs, every byte it is about to read lies in a piece already
\* received; and from CAN_FINISH on nothing is awaited any more and the
\* clusters the detached thread reads are all there ("have enough data to
\* generate what we want").  Each phase relies on what the phases before asked
\* for, pieces received earlier not being asked for again.
ReadsCovered ==
  /\ CallsProcessReady => Held(BytesRead(m_cur_mode))
  /\ m_mode \in {"CAN_FINISH", "TRY_TO_FINISH"} =>
       m_awaiting_pieces = {} /\ Held(BytesRead("FINAL"))

\* Why ReadsCovered holds: while a job gathers, each byte its phase will read is
\* received or awaited, and the clusters are only chosen among cues enough.
Gathering ==
  /\ m_mode = "INIT" => m_cur_mode = "READY"
  /\ m_mode = "READY" =>
       \A x \in BytesRead(m_cur_mode) : PieceOf(x) \in m_piece_data \union m_awaiting_pieces
  /\ m_mode \in {"CAN_FINISH", "TRY_TO_FINISH"} =>
       m_awaiting_pieces = {} /\ Held(BytesRead("FINAL"))
  /\ m_cur_mode \in {"GET_CLUSTER_HEAD", "FINAL"} => EnoughCues(Len(file.cueList))

\* A well-formed Matroska file at the start of the torrent, whose SeekHead lies
\* within the search limit and that has cue points enough.
WellFormed(f) ==
  /\ f.off = 0
  /\ f.flaw = "none"
  /\ f.segment <= SearchStep
  /\ DataStart(f.seekHead) <= f.size
  /\ \E k \in 1 .. (SearchLimit \div SearchStep) : DataStart(f.seekHead) <= k * SearchStep
  /\ EnoughCues(Len(f.cueList))

\* A well-formed file is never given up for what the parser could not read, on
\* either thread, and the main thread neither spins nor crashes over it: only the
\* renderer can fail it.
WellFormedFileAccepted ==
  WellFormed(file) => verdict \notin {"parser", "unreadable"} /\ main = "running"

\* Every job comes to a verdict, whatever alerts are lost and whichever pieces
\* were there before the job asked for them, unless it waits for a piece the
\* torrent does not have, a read spins past the end of the torrent, or the program
\* crashes over its SeekHead.
JobEnds == <>(is_finish \/ main # "running" \/ m_awaiting_pieces \ Pieces # {})

\* The job is the lifecycle its owner relies on: one thread, one final verdict.
Phase2Lifecycle ==
  CASE m_mode \in {"INIT", "READY", "CAN_FINISH"} -> "gathering"
    [] m_mode = "TRY_TO_FINISH" -> "rendering"
    [] m_mode = "FINISH" -> "done"
    [] m_mode = "FAIL" -> "failed"
Lifecycle == INSTANCE JobLifecycle
  WITH phase <- Phase2Lifecycle, running <- IF thread = "running" THEN 1 ELSE 0
ImplementsLifecycle == Lifecycle!Spec

\* Why it does: the detached thread runs exactly while the job tries to finish.
OneThread ==
  /\ m_mode \in {"INIT", "READY", "CAN_FINISH"} => thread = "none" /\ started = 0
  /\ m_mode = "TRY_TO_FINISH" => thread = "running" /\ started = 1
  /\ is_finish => thread # "running"

\* "we presearch 1MB, so must found": a file whose segment starts in the first
\* megabyte is never given up for want of a segment.
PresearchFindsSegment ==
  file.flaw # "ebml" /\ file.segment <= SearchStep =>
    ~(verdict = "parser" /\ ~m_found_segment)
=============================================================================
