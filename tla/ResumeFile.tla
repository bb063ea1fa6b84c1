------------------------------ MODULE ResumeFile ------------------------------
(***************************************************************************)
(* ram_storage (include/ram_storage.hpp, src/ram_storage.cpp), which keeps *)
(* the pieces of a torrent in memory and writes them to a resume file, and *)
(* media_torrent_manager::check_resume_data, which reads that file back    *)
(* when the torrent is added again.  The storage lives on the thread of    *)
(* the session, the reader on the main thread, and the program may end at  *)
(* any step.                                                               *)
(*                                                                         *)
(* Simplifications:                                                        *)
(*  - the file is a sequence of cells; a cell is a byte of the header or a *)
(*    block of a piece;                                                    *)
(*  - of a block only whether it has the content the torrent says is kept; *)
(*  - the stream's buffer may be written out at any moment: the file holds *)
(*    some prefix of what release_files has to write, over what was there; *)
(*  - moving the storage and the file priorities do not touch pieces.      *)
(***************************************************************************)
EXTENDS Integers, Sequences, FiniteSets

CONSTANTS
  NumPieces,     \* fs.num_pieces()
  PieceLength,   \* blocks of a piece
  LastLength,    \* blocks of the last piece
  HeaderBlock,   \* the 1024 bytes headers are rounded to and read by
  IntBytes       \* the bytes of num_piece and piece_size

ASSUME ResumeAssumption ==
  /\ NumPieces \in Nat \ {0}
  /\ PieceLength \in Nat \ {0}
  /\ LastLength \in 1 .. PieceLength
  /\ HeaderBlock \in Nat \ {0}
  /\ IntBytes \in 1 .. HeaderBlock

Pieces == 0 .. (NumPieces - 1)
Blocks(p) == 0 .. (IF p = NumPieces - 1 THEN LastLength - 1 ELSE PieceLength - 1)
Contents == {"zero", "good", "bad"}

VARIABLES
  m_file_data,        \* the content of each block of the pieces written to
  m_invalid,          \* pieces cleared and not written to again
  has_changed_since,
  received,           \* session: blocks of each piece it has since it last gave it up
  have,               \* session: pieces verified
  file,               \* the resume file, <<>> if there is none
  flushed,            \* cells release_files has written, -1 when it does not run
  reader,             \* where check_resume_data is
  flags, pos,         \* the flags it has read, the cells it has read
  todo, hold,         \* the used pieces left to read, the cells of the one read
  loaded,             \* check_resume_data has returned in this run of the program
  promised,           \* history: the pieces verified when the file was last written
  cut_short           \* history: writing the file failed the last time

storageVars == <<m_file_data, m_invalid, has_changed_since>>
sessionVars == <<received, have>>
fileVars == <<file, flushed, promised, cut_short>>
readerVars == <<reader, flags, pos, todo, hold, loaded>>
vars == <<storageVars, sessionVars, fileVars, readerVars>>

Init ==
  /\ m_file_data = <<>> /\ m_invalid = {} /\ has_changed_since = FALSE
  /\ received = [p \in Pieces |-> {}] /\ have = {}
  /\ file = <<>> /\ flushed = -1 /\ promised = {} /\ cut_short = FALSE
  /\ reader = "due" /\ flags = <<>> /\ pos = 0 /\ todo = {} /\ hold = <<>>
  /\ loaded = FALSE

\* The program ends and starts again: nothing is kept but the file.
Crash ==
  /\ m_file_data' = <<>> /\ m_invalid' = {} /\ has_changed_since' = FALSE
  /\ received' = [p \in Pieces |-> {}] /\ have' = {}
  /\ flushed' = -1 /\ cut_short' = FALSE
  /\ reader' = "due" /\ flags' = <<>> /\ pos' = 0 /\ todo' = {} /\ hold' = <<>>
  /\ loaded' = FALSE
  /\ UNCHANGED <<file, promised>>

-----------------------------------------------------------------------------
(* ram_storage.                                                            *)

AllZero(p) == [k \in Blocks(p) |-> "zero"]

\* The piece's blocks after a write of some of them.
Written(p, blocks) ==
  LET old == IF p \in DOMAIN m_file_data THEN m_file_data[p] ELSE AllZero(p)
  IN  [k \in Blocks(p) |-> IF k \in DOMAIN blocks THEN blocks[k] ELSE old[k]]

Put(p, blocks) ==
  m_file_data' = [q \in DOMAIN m_file_data \union {p} |->
                    IF q = p THEN Written(p, blocks) ELSE m_file_data[q]]

\* Mutant: a piece once cleared stays invalid.
KeepsInvalid(p, blocks) ==
  /\ Put(p, blocks)
  /\ has_changed_since' = TRUE
  /\ UNCHANGED m_invalid

\* Mutant: the file is not marked out of date.
ForgetsChange(p, blocks) ==
  /\ Put(p, blocks)
  /\ m_invalid' = m_invalid \ {p}
  /\ UNCHANGED has_changed_since

writev(p, blocks) ==
  /\ Put(p, blocks)
  /\ m_invalid' = m_invalid \ {p}
  /\ has_changed_since' = TRUE

\* What readv would give for the whole piece is what the torrent says.
Readable(p) ==
  /\ p \notin m_invalid
  /\ p \in DOMAIN m_file_data
  /\ \A k \in Blocks(p) : m_file_data[p][k] = "good"

header_size ==
  HeaderBlock * ((IntBytes + NumPieces + HeaderBlock - 1) \div HeaderBlock)

\* The cells of the file.
HeaderCell(v) == <<-1, 0, v>>
Flag(p) == HeaderCell(IF p \in DOMAIN m_file_data THEN "used" ELSE "zero")
DataCell(p, k) == <<p, k, IF k \in Blocks(p) THEN m_file_data[p][k] ELSE "left over">>

\* The pieces are written in the order of their index.
Rank(p) == Cardinality({q \in DOMAIN m_file_data : q < p})
Saved(slot) == CHOOSE p \in DOMAIN m_file_data : Rank(p) = slot

ImageSize == header_size + Cardinality(DOMAIN m_file_data) * PieceLength
Image ==
  [c \in 1 .. ImageSize |->
     CASE c <= IntBytes -> HeaderCell("number")
       [] c > IntBytes /\ c <= IntBytes + NumPieces -> Flag(c - IntBytes - 1)
       [] c > IntBytes + NumPieces /\ c <= header_size -> HeaderCell("zero")
       [] OTHER -> LET d == c - header_size - 1
                   IN  DataCell(Saved(d \div PieceLength), d % PieceLength)]

\* release_files, called by the session and by the destructor.
release_files ==
  /\ flushed = -1
  /\ has_changed_since
  /\ flushed' = 0
  /\ promised' = {}
  /\ UNCHANGED <<storageVars, sessionVars, file, cut_short, readerVars>>

\* The header, then the pieces; the file is not truncated.
Write ==
  /\ flushed \in 0 .. (ImageSize - 1)
  /\ flushed' = flushed + 1
  /\ file' = [c \in DOMAIN file \union {flushed + 1} |->
                IF c = flushed + 1 THEN Image[c] ELSE file[c]]
  /\ UNCHANGED <<storageVars, sessionVars, readerVars, promised, cut_short>>

FlushDone ==
  /\ flushed = ImageSize
  /\ flushed' = -1
  /\ has_changed_since' = FALSE
  /\ promised' = have
  /\ cut_short' = FALSE
  /\ UNCHANGED <<m_file_data, m_invalid, sessionVars, file, readerVars>>

\* "assume write success": on a full disk nothing more is written, and the storage
\* is marked as saved all the same.
WriteFails ==
  /\ flushed \in 0 .. (ImageSize - 1)
  /\ flushed' = -1
  /\ has_changed_since' = FALSE
  /\ cut_short' = TRUE
  /\ UNCHANGED <<m_file_data, m_invalid, sessionVars, file, promised, readerVars>>

-----------------------------------------------------------------------------
(* The session, busy while release_files runs.  Peers may send wrong data. *)

DownloadBlock(p, k, content) ==
  /\ flushed = -1
  /\ loaded
  /\ p \notin have
  /\ k \in Blocks(p) \ received[p]
  /\ writev(p, [j \in {k} |-> content])
  /\ received' = [received EXCEPT ![p] = @ \union {k}]
  /\ UNCHANGED <<have, fileVars, readerVars>>

\* All blocks are there: hash, and clear_piece if the hash is wrong.
HashPiece(p) ==
  /\ flushed = -1
  /\ p \notin have
  /\ received[p] = Blocks(p)
  /\ \/ /\ \A k \in Blocks(p) : m_file_data[p][k] = "good"
        /\ have' = have \union {p}
        /\ UNCHANGED <<received, m_invalid>>
     \/ /\ \E k \in Blocks(p) : m_file_data[p][k] # "good"
        /\ m_invalid' = m_invalid \union {p}
        /\ received' = [received EXCEPT ![p] = {}]
        /\ UNCHANGED have
  /\ UNCHANGED <<m_file_data, has_changed_since, fileVars, readerVars>>

-----------------------------------------------------------------------------
(* check_resume_data.                                                      *)

Return ==
  /\ reader' = "done"
  /\ loaded' = TRUE
  /\ flags' = <<>> /\ pos' = 0 /\ todo' = {} /\ hold' = <<>>

Smaller(a, b) == IF a <= b THEN a ELSE b

\* A torrent handed over twice is read twice.
check_resume_data ==
  /\ reader \in {"due", "done"}
  /\ \/ /\ Len(file) < HeaderBlock
        /\ Return
     \/ /\ Len(file) >= HeaderBlock
        /\ reader' = "flags"
        /\ flags' = SubSeq(file, IntBytes + 1, Smaller(HeaderBlock, IntBytes + NumPieces))
        /\ pos' = HeaderBlock
        /\ UNCHANGED <<todo, hold, loaded>>
  /\ UNCHANGED <<storageVars, sessionVars, fileVars>>

\* Mutant: the flags of the second block are read without moving on.
RefillsInPlace ==
  /\ reader = "flags"
  /\ Len(flags) < NumPieces
  /\ LET n == Smaller(NumPieces - Len(flags), HeaderBlock)
     IN  \/ /\ Len(file) < pos + n
            /\ Return
         \/ /\ Len(file) >= pos + n
            /\ flags' = flags \o SubSeq(file, pos + 1, pos + n)
            /\ UNCHANGED <<reader, pos, todo, hold, loaded>>
  /\ UNCHANGED <<storageVars, sessionVars, fileVars>>

RefillHeader ==
  /\ reader = "flags"
  /\ Len(flags) < NumPieces
  /\ LET n == Smaller(NumPieces - Len(flags), HeaderBlock)
     IN  \/ /\ Len(file) < pos + n
            /\ Return
         \/ /\ Len(file) >= pos + n
            /\ flags' = flags \o SubSeq(file, pos + 1, pos + n)
            /\ pos' = pos + n
            /\ UNCHANGED <<reader, todo, hold, loaded>>
  /\ UNCHANGED <<storageVars, sessionVars, fileVars>>

\* Mutant: the pieces are counted from one.
CountsFromOne ==
  /\ reader = "flags"
  /\ Len(flags) >= NumPieces
  /\ reader' = "pieces"
  /\ todo' = {p \in 1 .. NumPieces : flags[p] # HeaderCell("zero")}
  /\ UNCHANGED <<flags, pos, hold, loaded, storageVars, sessionVars, fileVars>>

FlagsRead ==
  /\ reader = "flags"
  /\ Len(flags) >= NumPieces
  /\ reader' = "pieces"
  /\ todo' = {p \in Pieces : flags[p + 1] # HeaderCell("zero")}
  /\ UNCHANGED <<flags, pos, hold, loaded, storageVars, sessionVars, fileVars>>

ReadSavedPiece ==
  /\ reader = "pieces"
  /\ todo # {}
  /\ hold = <<>>
  /\ \/ /\ Len(file) < pos + PieceLength
        /\ Return
     \/ /\ Len(file) >= pos + PieceLength
        /\ hold' = SubSeq(file, pos + 1, pos + PieceLength)
        /\ pos' = pos + PieceLength
        /\ UNCHANGED <<reader, flags, todo, loaded>>
  /\ UNCHANGED <<storageVars, sessionVars, fileVars>>

ContentIn(p, k) == IF hold[k + 1] = <<p, k, "good">> THEN "good" ELSE "bad"

\* th.add_piece waits for the session, which writes the blocks it does not have.
add_piece(p) ==
  /\ reader = "pieces"
  /\ hold # <<>>
  /\ flushed = -1
  /\ p \in todo /\ \A q \in todo : p <= q
  /\ LET missing == IF p \in have THEN {} ELSE Blocks(p) \ received[p]
     IN  \/ /\ missing # {}
            /\ writev(p, [k \in missing |-> ContentIn(p, k)])
            /\ received' = [received EXCEPT ![p] = Blocks(p)]
         \/ /\ missing = {}
            /\ UNCHANGED <<storageVars, received>>
  /\ todo' = todo \ {p}
  /\ hold' = <<>>
  /\ UNCHANGED <<have, fileVars, reader, flags, pos, loaded>>

ReadDone ==
  /\ reader = "pieces"
  /\ todo = {}
  /\ Return
  /\ UNCHANGED <<storageVars, sessionVars, fileVars>>

-----------------------------------------------------------------------------
SessionThread ==
  \/ \E p \in Pieces : HashPiece(p)
  \/ \E p \in Pieces : \E k \in Blocks(p), content \in {"good", "bad"} : DownloadBlock(p, k, content)
  \/ release_files
  \/ Write
  \/ WriteFails
  \/ FlushDone

MainThread ==
  \/ check_resume_data
  \/ RefillHeader
  \/ FlagsRead
  \/ ReadSavedPiece
  \/ \E p \in todo : add_piece(p)
  \/ ReadDone

Next == SessionThread \/ MainThread \/ Crash

Spec == Init /\ [][Next]_vars

-----------------------------------------------------------------------------
(* Properties.                                                             *)

Cell == (Pieces \union {-1}) \X (0 .. (PieceLength - 1))
          \X (Contents \union {"number", "used", "left over"})

\* Every variable holds a value of its type.
TypeOK ==
  /\ DOMAIN m_file_data \subseteq Pieces
  /\ \A p \in DOMAIN m_file_data : m_file_data[p] \in [Blocks(p) -> Contents]
  /\ m_invalid \subseteq DOMAIN m_file_data
  /\ has_changed_since \in BOOLEAN
  /\ DOMAIN received = Pieces /\ \A p \in Pieces : received[p] \subseteq Blocks(p)
  /\ have \subseteq Pieces
  /\ file \in Seq(Cell)
  /\ flushed \in -1 .. ImageSize
  /\ reader \in {"due", "flags", "pieces", "done"}
  /\ flags \in Seq(Cell) /\ Len(flags) <= NumPieces
  /\ pos \in 0 .. Len(file)
  /\ todo \subseteq Pieces
  /\ hold \in Seq(Cell) /\ Len(hold) \in {0, PieceLength}
  /\ loaded \in BOOLEAN
  /\ promised \subseteq Pieces
  /\ cut_short \in BOOLEAN

\* A piece the session has verified can be read, with the right content, however
\* often it failed its hash before and whatever the resume file offers.
VerifiedIsReadable == \A p \in have : Readable(p)

\* Where the reader looks for the data, and whether the data is there.
DataRead == IF IntBytes + NumPieces <= HeaderBlock THEN HeaderBlock ELSE IntBytes + NumPieces
Aligned == DataRead = header_size

\* While no block was written since the last flush the file is the memory's image:
\* a crash, or a release_files that returns at once, loses no piece, unless that
\* flush failed.
UnchangedIsSaved ==
  ~has_changed_since /\ ~cut_short /\ m_file_data # <<>> =>
    \A c \in 1 .. ImageSize : c \in DOMAIN file /\ file[c] = Image[c]

\* A run of the program that finds a file written to its end is given every piece
\* that was verified then, unless the file is rewritten meanwhile.
Resumed == loaded => \A p \in promised : Readable(p)
AlignedFileResumed == Aligned => Resumed

\* The manager's comment: "save and load a fast resume file, which is better".
FileResumed == Resumed
=============================================================================
