--------------------------- MODULE ResumeFileProofs ---------------------------
(***************************************************************************)
(* Proofs about ResumeFile, for every number and length of pieces and      *)
(* every size of the header.                                               *)
(***************************************************************************)
EXTENDS ResumeFile, FiniteSetTheorems, SequenceTheorems, WellFoundedInduction, TLAPS

\* Every piece has a block, so a piece with all its blocks has been written to.
LEMMA SomeBlock == \A p \in Pieces : Blocks(p) # {} /\ Blocks(p) \subseteq Int
<1>1. PieceLength \in Nat \ {0} /\ LastLength \in 1 .. PieceLength
  BY ResumeAssumption
<1>2. \A p : 0 \in Blocks(p)
  BY <1>1 DEF Blocks
<1>3. \A p : Blocks(p) \subseteq Int
  BY <1>1 DEF Blocks, Pieces
<1> QED  BY <1>2, <1>3

\* A piece with a block received since it was last given up is in memory and valid;
\* verified pieces are readable; the reader hands over pieces of the torrent.
Kept ==
  /\ received \in [Pieces -> SUBSET Int]
  /\ have \subseteq Pieces
  /\ todo \subseteq Pieces
  /\ \A p \in Pieces : received[p] # {} => p \in DOMAIN m_file_data /\ p \notin m_invalid
  /\ VerifiedIsReadable

\* What a write does: the piece is there and valid, the others stay as they are.
LEMMA WriteKeepsOthers ==
  ASSUME NEW p, NEW blocks, writev(p, blocks)
  PROVE  /\ DOMAIN m_file_data' = DOMAIN m_file_data \union {p}
         /\ m_invalid' = m_invalid \ {p}
         /\ \A q \in DOMAIN m_file_data : q # p => m_file_data'[q] = m_file_data[q]
BY DEF writev, Put

\* A step that only writes to a piece not verified yet keeps what is kept.
LEMMA WriteKeeps ==
  ASSUME Kept, NEW p \in Pieces, p \notin have,
         NEW blocks, writev(p, blocks),
         NEW got \in SUBSET Int, received' = [received EXCEPT ![p] = got],
         have' = have, todo' \subseteq Pieces
  PROVE  Kept'
<1>1. /\ DOMAIN m_file_data' = DOMAIN m_file_data \union {p}
      /\ m_invalid' = m_invalid \ {p}
      /\ \A q \in DOMAIN m_file_data : q # p => m_file_data'[q] = m_file_data[q]
  BY WriteKeepsOthers
<1>2. received' \in [Pieces -> SUBSET Int] /\ have' \subseteq Pieces /\ todo' \subseteq Pieces
  BY DEF Kept
<1>3. ASSUME NEW q \in Pieces, received'[q] # {}
      PROVE  q \in DOMAIN m_file_data' /\ q \notin m_invalid'
  <2>1. CASE q = p
    BY <1>1, <2>1
  <2>2. CASE q # p
    BY <1>1, <1>3, <2>2 DEF Kept
  <2> QED  BY <2>1, <2>2
<1>4. VerifiedIsReadable'
  BY <1>1 DEF Kept, VerifiedIsReadable, Readable
<1> QED  BY <1>2, <1>3, <1>4 DEF Kept

\* Kept holds at first.
LEMMA InitKept == Init => Kept
BY DEF Init, Kept, VerifiedIsReadable

\* Kept is kept by every step.
LEMMA StepKept == Kept /\ [Next]_vars => Kept'
<1> SUFFICES ASSUME Kept, [Next]_vars PROVE Kept'
  OBVIOUS
<1>1. ASSUME UNCHANGED <<m_file_data, m_invalid, received, have>>, todo' \subseteq Pieces
      PROVE  Kept'
  BY <1>1 DEF Kept, VerifiedIsReadable, Readable
<1>2. CASE UNCHANGED vars
  BY <1>1, <1>2 DEF Kept, vars, storageVars, sessionVars, readerVars
<1>3. CASE Crash
  BY <1>3 DEF Crash, Kept, VerifiedIsReadable
<1>4. CASE SessionThread
  <2>1. ASSUME NEW p \in Pieces, HashPiece(p) PROVE Kept'
    <3>1. Blocks(p) # {} /\ received[p] = Blocks(p) /\ p \notin have
      BY <2>1, SomeBlock DEF HashPiece
    <3>2. p \in DOMAIN m_file_data /\ p \notin m_invalid
      BY <3>1 DEF Kept
    <3>5. todo' = todo
      BY <2>1 DEF HashPiece, readerVars
    <3>3. CASE /\ \A k \in Blocks(p) : m_file_data[p][k] = "good"
               /\ have' = have \union {p}
               /\ UNCHANGED <<received, m_invalid>>
      BY <2>1, <3>2, <3>3, <3>5 DEF HashPiece, Kept, VerifiedIsReadable, Readable
    <3>4. CASE /\ m_invalid' = m_invalid \union {p}
               /\ received' = [received EXCEPT ![p] = {}]
               /\ UNCHANGED have
      <4>1. /\ received' \in [Pieces -> SUBSET Int]
            /\ have' \subseteq Pieces /\ todo' \subseteq Pieces
        BY <3>4, <3>5 DEF Kept
      <4>2. \A q \in Pieces :
              received'[q] # {} => q \in DOMAIN m_file_data' /\ q \notin m_invalid'
        BY <2>1, <3>4 DEF HashPiece, Kept
      <4>3. VerifiedIsReadable'
        BY <2>1, <3>1, <3>4 DEF HashPiece, Kept, VerifiedIsReadable, Readable
      <4> QED  BY <4>1, <4>2, <4>3 DEF Kept
    <3> QED  BY <2>1, <3>3, <3>4 DEF HashPiece
  <2>2. ASSUME NEW p \in Pieces, NEW k \in Blocks(p), NEW content, DownloadBlock(p, k, content)
        PROVE  Kept'
    <3>1. received[p] \union {k} \in SUBSET Int
      BY SomeBlock DEF Kept
    <3>2. received' = [received EXCEPT ![p] = received[p] \union {k}]
      BY <2>2 DEF DownloadBlock
    <3>3. /\ p \notin have /\ have' = have
          /\ writev(p, [j \in {k} |-> content])
          /\ todo' \subseteq Pieces
      BY <2>2 DEF DownloadBlock, readerVars, Kept
    <3> QED  BY <3>1, <3>2, <3>3, WriteKeeps
  <2>3. CASE release_files \/ Write \/ WriteFails \/ FlushDone
    BY <1>1, <2>3 DEF Kept, release_files, Write, WriteFails, FlushDone,
                      storageVars, sessionVars, readerVars
  <2> QED  BY <1>4, <2>1, <2>2, <2>3 DEF SessionThread
<1>5. CASE MainThread
  <2>1. ASSUME NEW p \in todo, add_piece(p) PROVE Kept'
    <3> DEFINE missing == IF p \in have THEN {} ELSE Blocks(p) \ received[p]
    <3>1. p \in Pieces /\ todo' \subseteq Pieces /\ have' = have
      BY <2>1 DEF Kept, add_piece
    <3>2. CASE missing = {}
      BY <1>1, <2>1, <3>1, <3>2 DEF add_piece, storageVars
    <3>3. CASE missing # {}
      <4>1. /\ writev(p, [k \in missing |-> ContentIn(p, k)])
            /\ received' = [received EXCEPT ![p] = Blocks(p)]
        BY <2>1, <3>3 DEF add_piece
      <4>2. p \notin have
        BY <3>3
      <4>3. Blocks(p) \in SUBSET Int
        BY <3>1, SomeBlock
      <4> HIDE DEF missing
      <4> QED  BY <3>1, <4>1, <4>2, <4>3, WriteKeeps
    <3> QED  BY <3>2, <3>3
  <2>2. CASE check_resume_data \/ RefillHeader \/ FlagsRead \/ ReadSavedPiece \/ ReadDone
    <3>1. UNCHANGED <<m_file_data, m_invalid, received, have>>
      BY <2>2 DEF check_resume_data, RefillHeader, FlagsRead, ReadSavedPiece, ReadDone,
                  storageVars, sessionVars
    <3>2. todo' \subseteq Pieces
      BY <2>2 DEF Kept, check_resume_data, RefillHeader, FlagsRead, ReadSavedPiece, ReadDone, Return
    <3> QED  BY <1>1, <3>1, <3>2
  <2> QED  BY <1>5, <2>1, <2>2 DEF MainThread
<1> QED  BY <1>2, <1>3, <1>4, <1>5 DEF Next

\* A piece the session has verified is never made unreadable or overwritten: not
\* by clear_piece and the writes after it, not by what check_resume_data offers.
THEOREM VerifiedStaysReadable == Spec => []VerifiedIsReadable
<1>1. Kept => VerifiedIsReadable
  BY DEF Kept
<1> QED  BY <1>1, InitKept, StepKept, PTL DEF Spec

-----------------------------------------------------------------------------
(* The resume file holds what the memory holds.                            *)

\* What release_files has written so far is the start of the memory's image.
WrittenSoFar ==
  /\ flushed # -1 => has_changed_since
  /\ \A c \in 1 .. flushed : c \in DOMAIN file /\ file[c] = Image[c]
  /\ flushed \in Int
  /\ UnchangedIsSaved

\* The image only depends on the pieces in memory.
LEMMA SameImage ==
  ASSUME m_file_data' = m_file_data
  PROVE  Image' = Image /\ ImageSize' = ImageSize
<1>1. ImageSize' = ImageSize
  BY DEF ImageSize
<1>2. \A p : Rank(p)' = Rank(p)
  BY DEF Rank
<1>3. \A slot : Saved(slot)' = Saved(slot)
  BY <1>2 DEF Saved
<1>4. \A p, k : DataCell(p, k)' = DataCell(p, k)
  BY DEF DataCell
<1>5. \A p : Flag(p)' = Flag(p)
  BY DEF Flag
<1> QED  BY <1>1, <1>3, <1>4, <1>5 DEF Image

\* WrittenSoFar holds at first.
LEMMA InitWritten == Init => WrittenSoFar
BY DEF Init, WrittenSoFar, UnchangedIsSaved

\* A write to the memory while no flush runs marks the file out of date.
LEMMA WriteMarks ==
  ASSUME flushed = -1, NEW p, NEW blocks, writev(p, blocks), UNCHANGED fileVars
  PROVE  WrittenSoFar'
BY DEF writev, fileVars, WrittenSoFar, UnchangedIsSaved

\* WrittenSoFar is kept by every step, of the session, of release_files and of a crash.
LEMMA StepWritten == WrittenSoFar /\ [Next]_vars => WrittenSoFar'
<1> SUFFICES ASSUME WrittenSoFar, [Next]_vars PROVE WrittenSoFar'
  OBVIOUS
<1>1. ASSUME UNCHANGED <<m_file_data, has_changed_since, file, flushed, cut_short>>
      PROVE  WrittenSoFar'
  BY <1>1, SameImage DEF WrittenSoFar, UnchangedIsSaved
<1>2. CASE UNCHANGED vars
  BY <1>1, <1>2 DEF vars, storageVars, fileVars
<1>3. CASE Crash
  BY <1>3 DEF Crash, WrittenSoFar, UnchangedIsSaved
<1>4. CASE SessionThread
  <2>1. ASSUME NEW p \in Pieces, HashPiece(p) PROVE WrittenSoFar'
    BY <1>1, <2>1 DEF HashPiece, fileVars
  <2>2. ASSUME NEW p \in Pieces, NEW k \in Blocks(p), NEW content, DownloadBlock(p, k, content)
        PROVE  WrittenSoFar'
    BY <2>2, WriteMarks DEF DownloadBlock
  <2>3. CASE release_files
    BY <2>3, SameImage DEF release_files, storageVars, WrittenSoFar, UnchangedIsSaved
  <2>4. CASE Write
    <3>1. flushed' = flushed + 1 /\ flushed >= 0 /\ has_changed_since /\ has_changed_since'
      BY <2>4 DEF Write, storageVars, WrittenSoFar
    <3>2. Image' = Image
      BY <2>4, SameImage DEF Write, storageVars
    <3>3. ASSUME NEW c \in 1 .. flushed'
          PROVE  c \in DOMAIN file' /\ file'[c] = Image[c]
      BY <2>4, <3>1, <3>3 DEF Write, WrittenSoFar
    <3> QED  BY <3>1, <3>2, <3>3 DEF WrittenSoFar, UnchangedIsSaved
  <2>5. CASE FlushDone
    <3>1. Image' = Image /\ ImageSize' = ImageSize
      BY <2>5, SameImage DEF FlushDone
    <3>2. \A c \in 1 .. ImageSize : c \in DOMAIN file /\ file[c] = Image[c]
      BY <2>5 DEF FlushDone, WrittenSoFar
    <3> QED  BY <2>5, <3>1, <3>2 DEF FlushDone, WrittenSoFar, UnchangedIsSaved
  <2>6. CASE WriteFails
    BY <2>6 DEF WriteFails, WrittenSoFar, UnchangedIsSaved
  <2> QED  BY <1>4, <2>1, <2>2, <2>3, <2>4, <2>5, <2>6 DEF SessionThread
<1>5. CASE MainThread
  <2>1. ASSUME NEW p \in todo, add_piece(p) PROVE WrittenSoFar'
    BY <1>1, <2>1, WriteMarks DEF add_piece, storageVars, fileVars
  <2>2. CASE check_resume_data \/ RefillHeader \/ FlagsRead \/ ReadSavedPiece \/ ReadDone
    BY <1>1, <2>2 DEF check_resume_data, RefillHeader, FlagsRead, ReadSavedPiece, ReadDone,
                      storageVars, fileVars
  <2> QED  BY <1>5, <2>1, <2>2 DEF MainThread
<1> QED  BY <1>2, <1>3, <1>4, <1>5 DEF Next

\* When release_files finds nothing changed and returns at once, the file already
\* holds the image of the memory, header and pieces, unless writing it failed.
THEOREM UnchangedStaysSaved == Spec => []UnchangedIsSaved
<1>1. WrittenSoFar => UnchangedIsSaved
  BY DEF WrittenSoFar
<1> QED  BY <1>1, InitWritten, StepWritten, PTL DEF Spec

-----------------------------------------------------------------------------
(* Ranks in sets of numbers.                                               *)

\* A set of numbers has a smallest one.
LEMMA SmallestExists ==
  ASSUME NEW S, S \subseteq Nat, S # {}
  PROVE  \E m \in S : \A k \in S : m <= k
<1>1. PICK m \in S : \A k \in S : <<k, m>> \notin OpToRel(<, Nat)
  BY WFMin, NatLessThanWellFounded, Zenon
<1>2. \A k \in S : ~(k < m)
  BY <1>1, Zenon DEF OpToRel
<1> QED
  BY <1>2

\* The members of a set before p; their number is the rank of p.
Below(S, p) == {q \in S : q < p}

\* Ranks are numbers below the size of the set.
LEMMA RankBound ==
  ASSUME NEW S, IsFiniteSet(S), S \subseteq Nat, NEW p \in S
  PROVE  /\ Cardinality(S) \in Nat /\ Cardinality(Below(S, p)) \in Nat
         /\ IsFiniteSet(Below(S, p))
         /\ Cardinality(Below(S, p)) < Cardinality(S)
<1>1. Below(S, p) \in SUBSET S /\ p \notin Below(S, p)
  BY DEF Below
<1>2. /\ IsFiniteSet(Below(S, p))
      /\ Cardinality(Below(S, p)) <= Cardinality(S)
      /\ Cardinality(S) = Cardinality(Below(S, p)) => S = Below(S, p)
  BY <1>1, FS_Subset
<1>3. Cardinality(S) \in Nat /\ Cardinality(Below(S, p)) \in Nat
  BY <1>2, FS_CardinalityType
<1> QED
  BY <1>1, <1>2, <1>3

\* A larger number has a larger rank.
LEMMA RankGrows ==
  ASSUME NEW S, IsFiniteSet(S), S \subseteq Nat, NEW p \in S, NEW q \in S, p < q
  PROVE  Cardinality(Below(S, p)) < Cardinality(Below(S, q))
<1>1. IsFiniteSet(Below(S, q)) /\ Below(S, q) \subseteq Nat /\ p \in Below(S, q)
  BY RankBound DEF Below
<1>2. \A r \in S : r < p => r < q
  OBVIOUS
<1>3. Below(Below(S, q), p) = Below(S, p)
  BY <1>2 DEF Below
<1>4. Cardinality(Below(Below(S, q), p)) < Cardinality(Below(S, q))
  BY <1>1, RankBound
<1> QED
  BY <1>3, <1>4

\* Every number below the size of the set is the rank of a member.
LEMMA RankHits ==
  ASSUME NEW S, IsFiniteSet(S), S \subseteq Nat, NEW n \in Nat, n < Cardinality(S)
  PROVE  \E p \in S : Cardinality(Below(S, p)) = n
<1> DEFINE N == {x \in Nat : x < Cardinality(S) /\ \A p \in S : Cardinality(Below(S, p)) # x}
<1> SUFFICES N = {}
  OBVIOUS
<1> SUFFICES ASSUME N # {} PROVE FALSE
  OBVIOUS
<1>0. Cardinality(S) \in Nat
  BY FS_CardinalityType
<1>1. PICK m \in N : \A k \in N : m <= k
  BY SmallestExists
<1>2. m \in Nat /\ m < Cardinality(S) /\ \A p \in S : Cardinality(Below(S, p)) # m
  OBVIOUS
<1>3. ASSUME NEW B \in SUBSET S, IsFiniteSet(B), Cardinality(B) = m,
             \A p \in B, r \in S \ B : p < r
      PROVE  FALSE
  <2>0. Cardinality(B) # Cardinality(S)
    BY <1>0, <1>2, <1>3
  <2>1. S \ B # {}
    <3>1. S \ B = {} => B = S
      BY <1>3
    <3> QED
      BY <2>0, <3>1
  <2>2. PICK q \in S \ B : \A r \in S \ B : q <= r
    BY <2>1, SmallestExists
  <2>3. \A r \in S : r < q <=> r \in B
    <3>1. q \in Nat /\ \A r \in B : r < q
      BY <1>3, <2>2
    <3>2. \A r \in S \ B : ~(r < q)
      BY <2>2, <3>1
    <3> QED
      BY <3>1, <3>2
  <2>4. Below(S, q) = B
    BY <2>3 DEF Below
  <2> QED
    BY <1>2, <1>3, <2>2, <2>4
<1>4. CASE m = 0
  BY <1>3, <1>4, FS_EmptySet
<1>5. CASE m # 0
  <2>1. m - 1 \in Nat /\ m - 1 < Cardinality(S) /\ ~(m <= m - 1)
    BY <1>0, <1>2, <1>5
  <2>2. PICK p \in S : Cardinality(Below(S, p)) = m - 1
    BY <1>1, <2>1
  <2>3. p \in Nat /\ ~(p < p)
    OBVIOUS
  <2>7. IsFiniteSet(Below(S, p)) /\ p \notin Below(S, p)
    <3>1. p \notin Below(S, p)
      BY <2>3 DEF Below
    <3> QED
      BY <3>1, RankBound
  <2>4. /\ IsFiniteSet(Below(S, p) \union {p})
        /\ Cardinality(Below(S, p) \union {p}) = m
    <3>1. Cardinality(Below(S, p) \union {p}) = Cardinality(Below(S, p)) + 1
      BY <2>7, FS_AddElement
    <3> QED
      BY <1>2, <2>2, <2>7, <3>1, FS_AddElement
  <2>5. Below(S, p) \union {p} \in SUBSET S
    BY DEF Below
  <2>6. \A a \in Below(S, p) \union {p}, r \in S \ (Below(S, p) \union {p}) : a < r
    BY DEF Below
  <2> QED
    BY <1>3, <2>4, <2>5, <2>6
<1> QED
  BY <1>4, <1>5

-----------------------------------------------------------------------------
(* Numbers of two digits, and where the file has what.                     *)

\* A product grows with its factors.
LEMMA Grows ==
  ASSUME NEW a \in Nat, NEW b \in Nat, NEW c \in Nat, a <= b
  PROVE  a * c <= b * c /\ a * c \in Nat /\ b * c \in Nat
<1>1. PICK d \in Nat : b = a + d
  <2>1. b - a \in Nat /\ b = a + (b - a)
    OBVIOUS
  <2> QED
    BY <2>1
<1>2. d * c \in Nat /\ a * c \in Nat
  OBVIOUS
<1>3. b * c = a * c + d * c
  BY <1>1
<1> QED
  BY <1>2, <1>3

\* There is one way to write a number with a digit below b.
LEMMA UniqueDigits ==
  ASSUME NEW b \in Nat, NEW q \in Nat, NEW s \in Nat, NEW r \in Nat, NEW t \in Nat,
         r < b, t < b, q * b + r = s * b + t
  PROVE  q = s /\ r = t
<1>1. ASSUME NEW x \in Nat, NEW y \in Nat, NEW u \in Nat, NEW v \in Nat,
             x < y, u < b, x * b + u = y * b + v
      PROVE  FALSE
  <2>1. x + 1 <= y /\ x + 1 \in Nat
    BY <1>1
  <2>2. (x + 1) * b <= y * b
    BY <2>1, Grows
  <2>3. (x + 1) * b = x * b + b
    OBVIOUS
  <2>4. x * b \in Nat /\ y * b \in Nat
    OBVIOUS
  <2> QED
    BY <1>1, <2>2, <2>3, <2>4
<1>2. ~(q < s) /\ ~(s < q)
  BY <1>1
<1>3. q = s
  BY <1>2
<1>4. q * b \in Nat
  OBVIOUS
<1> QED
  BY <1>3, <1>4

\* A number below n * b has a first digit below n and a last digit below b.
LEMMA FirstDigit ==
  ASSUME NEW b \in Nat \ {0}, NEW n \in Nat, NEW a \in Nat, a < n * b
  PROVE  \E q \in Nat, r \in Nat :
           q = a \div b /\ r = a % b /\ q < n /\ r < b /\ a = q * b + r
<1>1. PICK q \in Nat : q = a \div b
  OBVIOUS
<1>2. PICK r \in Nat : r = a % b /\ r < b
  OBVIOUS
<1>3. a = q * b + r
  <2>1. a = b * (a \div b) + (a % b)
    OBVIOUS
  <2>2. \A x \in Nat : b * x = x * b
    OBVIOUS
  <2> QED
    BY <1>1, <1>2, <2>1, <2>2
<1>4. ~(n <= q)
  <2>1. n <= q => n * b <= q * b /\ q * b \in Nat /\ n * b \in Nat
    BY Grows
  <2>2. n * b \in Nat /\ q * b \in Nat
    OBVIOUS
  <2> QED
    BY <1>2, <1>3, <2>1, <2>2
<1>5. q < n
  BY <1>4
<1> QED
  BY <1>1, <1>2, <1>3, <1>5

\* The digits of a number that is given by them.
LEMMA DigitsOf ==
  ASSUME NEW b \in Nat \ {0}, NEW q \in Nat, NEW r \in Nat, r < b
  PROVE  (q * b + r) \div b = q /\ (q * b + r) % b = r
<1>1. PICK a \in Nat : a = q * b + r
  OBVIOUS
<1>2. q < q + 1 /\ q + 1 \in Nat /\ (q + 1) * b = q * b + b /\ q * b \in Nat
  OBVIOUS
<1>3. a < (q + 1) * b
  BY <1>1, <1>2
<1>4. PICK s \in Nat, t \in Nat : s = a \div b /\ t = a % b /\ t < b /\ a = s * b + t
  BY <1>2, <1>3, FirstDigit
<1>5. q = s /\ r = t
  BY <1>1, <1>4, UniqueDigits
<1> QED
  BY <1>1, <1>4, <1>5

\* The header is a whole number of blocks and holds a flag for each piece.
LEMMA HeaderFits ==
  /\ header_size \in Nat
  /\ IntBytes + NumPieces <= header_size
  /\ HeaderBlock <= header_size
  /\ IntBytes \in Nat \ {0} /\ NumPieces \in Nat \ {0} /\ HeaderBlock \in Nat \ {0}
  /\ PieceLength \in Nat \ {0} /\ IntBytes <= HeaderBlock
<1>1. /\ IntBytes \in Nat \ {0} /\ NumPieces \in Nat \ {0} /\ HeaderBlock \in Nat \ {0}
      /\ PieceLength \in Nat \ {0} /\ IntBytes <= HeaderBlock
  BY ResumeAssumption
<1>2. PICK x \in Nat : x = IntBytes + NumPieces + HeaderBlock - 1
  BY <1>1
<1>3. PICK q \in Nat, r \in Nat : q = x \div HeaderBlock /\ r < HeaderBlock /\ x = q * HeaderBlock + r
  <2>1. x + 1 \in Nat /\ x < x + 1 /\ x + 1 <= (x + 1) * HeaderBlock /\ (x + 1) * HeaderBlock \in Nat
    <3>1. 1 * (x + 1) <= HeaderBlock * (x + 1)
      BY <1>1, Grows
    <3>2. 1 * (x + 1) = x + 1 /\ HeaderBlock * (x + 1) = (x + 1) * HeaderBlock
      BY <1>1
    <3> QED
      BY <1>1, <3>1, <3>2
  <2>2. x < (x + 1) * HeaderBlock
    BY <2>1
  <2> QED
    BY <1>1, <2>1, <2>2, FirstDigit
<1>4. header_size = q * HeaderBlock
  <2>1. header_size = HeaderBlock * q
    BY <1>2, <1>3 DEF header_size
  <2> QED
    BY <1>1, <2>1
<1>5. q * HeaderBlock \in Nat
  BY <1>1
<1>6. IntBytes + NumPieces <= q * HeaderBlock
  BY <1>1, <1>2, <1>3, <1>5
<1>7. HeaderBlock <= q * HeaderBlock
  <2>1. q # 0
    <3>1. 0 * HeaderBlock = 0
      BY <1>1
    <3> QED
      BY <1>1, <1>6, <3>1
  <2>2. 1 * HeaderBlock <= q * HeaderBlock /\ 1 * HeaderBlock = HeaderBlock
    BY <1>1, <2>1, Grows
  <2> QED
    BY <2>2
<1> QED
  BY <1>1, <1>4, <1>5, <1>6, <1>7

\* The pieces are finitely many numbers, and so are those of any set of them.
LEMMA FinitePieces ==
  ASSUME NEW S, S \subseteq Pieces
  PROVE  IsFiniteSet(S) /\ Cardinality(S) \in Nat /\ S \subseteq Nat
<1>1. NumPieces - 1 \in Int /\ Pieces = 0 .. NumPieces - 1
  BY HeaderFits DEF Pieces
<1>2. IsFiniteSet(Pieces)
  BY <1>1, FS_Interval
<1>3. IsFiniteSet(S)
  BY <1>2, FS_Subset
<1> QED
  BY <1>1, <1>3, FS_CardinalityType

\* A piece's blocks come before its length, from 0 on.
LEMMA BlockNumbers ==
  ASSUME NEW p
  PROVE  Blocks(p) \subseteq 0 .. PieceLength - 1 /\ 0 \in Blocks(p)
BY ResumeAssumption DEF Blocks

\* The slots of the pieces in memory: each has one, and each slot has its piece.
LEMMA SlotOfPiece ==
  ASSUME DOMAIN m_file_data \subseteq Pieces
  PROVE  /\ \A p \in DOMAIN m_file_data :
              /\ Rank(p) \in Nat /\ Rank(p) < Cardinality(DOMAIN m_file_data)
              /\ Saved(Rank(p)) = p
         /\ \A n \in Nat : n < Cardinality(DOMAIN m_file_data) => Saved(n) \in DOMAIN m_file_data
<1> DEFINE D == DOMAIN m_file_data
<1>1. IsFiniteSet(D) /\ D \subseteq Nat
  BY FinitePieces
<1>2. \A p : Rank(p) = Cardinality(Below(D, p))
  BY DEF Rank, Below
<1> HIDE DEF D
<1>3. \A p \in D : Rank(p) \in Nat /\ Rank(p) < Cardinality(D)
  BY <1>1, <1>2, RankBound
<1>4. \A p, q \in D : p < q => Rank(p) < Rank(q)
  BY <1>1, <1>2, RankGrows
<1>5. \A p, q \in D : Rank(p) = Rank(q) => p = q
  <2> SUFFICES ASSUME NEW p \in D, NEW q \in D, Rank(p) = Rank(q) PROVE p = q
    OBVIOUS
  <2>1. ~(p < q) /\ ~(q < p)
    BY <1>3, <1>4
  <2> QED
    BY <1>1, <2>1
<1>6. \A n : Saved(n) = CHOOSE p \in D : Rank(p) = n
  BY DEF Saved, D
<1>7. ASSUME NEW n \in Nat, n < Cardinality(D) PROVE Saved(n) \in D
  <2>1. \E p \in D : Rank(p) = n
    BY <1>1, <1>2, <1>7, RankHits
  <2> QED
    BY <1>6, <2>1
<1>8. ASSUME NEW p \in D PROVE Saved(Rank(p)) = p
  <2>1. Saved(Rank(p)) \in D /\ Rank(Saved(Rank(p))) = Rank(p)
    BY <1>6, <1>8
  <2> QED
    BY <1>5, <1>8, <2>1
<1> QED
  BY <1>3, <1>7, <1>8 DEF D

\* A position behind the header is in the slot of a piece in memory.
LEMMA DataPosition ==
  ASSUME DOMAIN m_file_data \subseteq Pieces,
         NEW c \in 1 .. ImageSize, c > header_size
  PROVE  \E p \in DOMAIN m_file_data, k \in 0 .. PieceLength - 1 : Image[c] = DataCell(p, k)
<1> DEFINE n == Cardinality(DOMAIN m_file_data)
<1>1. n \in Nat
  BY FinitePieces
<1>2. PICK a \in Nat : a = n * PieceLength
  BY <1>1, HeaderFits
<1> HIDE DEF n
<1>3. ImageSize = header_size + a
  BY <1>2 DEF ImageSize, n
<1>4. c - header_size - 1 \in Nat /\ c - header_size - 1 < a
  BY <1>3, HeaderFits
<1>5. PICK d \in Nat : d = c - header_size - 1 /\ d < n * PieceLength
  BY <1>2, <1>4
<1>6. PICK q \in Nat, r \in Nat :
        q = d \div PieceLength /\ r = d % PieceLength /\ q < n /\ r < PieceLength
  BY <1>1, <1>5, HeaderFits, FirstDigit
<1>7. Saved(q) \in DOMAIN m_file_data
  BY <1>6, SlotOfPiece DEF n
<1>8. ~(c <= IntBytes) /\ ~(c <= IntBytes + NumPieces) /\ ~(c <= header_size)
  BY HeaderFits
<1>9. Image[c] = DataCell(Saved(q), r)
  BY <1>5, <1>6, <1>8 DEF Image
<1>10. r \in 0 .. PieceLength - 1
  BY <1>6, HeaderFits
<1> QED
  BY <1>7, <1>9, <1>10

\* The blocks of a piece in memory are in its slot, behind the flags.
LEMMA ImageOfPiece ==
  ASSUME DOMAIN m_file_data \subseteq Pieces,
         NEW p \in DOMAIN m_file_data, NEW k \in 0 .. PieceLength - 1
  PROVE  /\ header_size + Rank(p) * PieceLength + k + 1 \in 1 .. ImageSize
         /\ Image[header_size + Rank(p) * PieceLength + k + 1] = DataCell(p, k)
<1> DEFINE n == Cardinality(DOMAIN m_file_data)
<1>1. n \in Nat
  BY FinitePieces
<1>2. PICK q \in Nat : q = Rank(p) /\ q < n /\ Saved(q) = p
  BY SlotOfPiece
<1>3. PICK d \in Nat : d = q * PieceLength + k
  BY HeaderFits
<1>4. d \div PieceLength = q /\ d % PieceLength = k
  BY <1>3, HeaderFits, DigitsOf
<1>5. PICK a \in Nat : a = n * PieceLength
  BY <1>1, HeaderFits
<1> HIDE DEF n
<1>6. d < a
  <2>1. (q + 1) * PieceLength <= n * PieceLength
    BY <1>1, <1>2, Grows, HeaderFits
  <2>2. (q + 1) * PieceLength = q * PieceLength + PieceLength /\ q * PieceLength \in Nat
    BY HeaderFits
  <2> QED
    BY <1>3, <1>5, <2>1, <2>2, HeaderFits
<1>7. ImageSize = header_size + a
  BY <1>5 DEF ImageSize, n
<1>8. PICK c \in Int : c = header_size + d + 1
  BY HeaderFits
<1>9. c \in 1 .. ImageSize /\ c - header_size - 1 = d
  BY <1>6, <1>7, <1>8, HeaderFits
<1>10. ~(c <= IntBytes) /\ ~(c <= IntBytes + NumPieces) /\ ~(c <= header_size)
  BY <1>8, HeaderFits
<1>11. Image[c] = DataCell(p, k)
  BY <1>2, <1>4, <1>9, <1>10 DEF Image
<1>12. header_size + Rank(p) * PieceLength + k + 1 = c
  <2>1. q * PieceLength \in Nat /\ k \in Nat
    BY HeaderFits
  <2> QED
    BY <1>2, <1>3, <1>8, <2>1, HeaderFits
<1> QED
  BY <1>9, <1>11, <1>12

\* The flags are behind the number and the size of the pieces.
LEMMA ImageOfFlag ==
  ASSUME DOMAIN m_file_data \subseteq Pieces, NEW p \in Pieces
  PROVE  /\ IntBytes + p + 1 \in 1 .. ImageSize
         /\ Image[IntBytes + p + 1] = Flag(p)
<1>1. PICK a \in Nat : a = Cardinality(DOMAIN m_file_data) * PieceLength
  BY FinitePieces, HeaderFits
<1>2. ImageSize = header_size + a
  BY <1>1 DEF ImageSize
<1>3. p \in Nat /\ p < NumPieces
  BY HeaderFits DEF Pieces
<1>4. PICK c \in Nat : c = IntBytes + p + 1
  BY <1>3, HeaderFits
<1>5. c \in 1 .. ImageSize /\ ~(c <= IntBytes) /\ c > IntBytes /\ c <= IntBytes + NumPieces
      /\ c - IntBytes - 1 = p
  BY <1>2, <1>3, <1>4, HeaderFits
<1>6. ~(c > IntBytes + NumPieces)
  BY <1>5, HeaderFits
<1>7. Image[c] = Flag(c - IntBytes - 1)
  BY <1>5, <1>6 DEF Image
<1> QED
  BY <1>4, <1>5, <1>7

\* The image consists of cells, at least those of the header.
LEMMA ImageTypes ==
  ASSUME DOMAIN m_file_data \subseteq Pieces,
         \A p \in DOMAIN m_file_data : m_file_data[p] \in [Blocks(p) -> Contents]
  PROVE  /\ ImageSize \in Nat /\ header_size <= ImageSize
         /\ \A c \in 1 .. ImageSize : Image[c] \in Cell
<1>1. PICK a \in Nat : a = Cardinality(DOMAIN m_file_data) * PieceLength
  BY FinitePieces, HeaderFits
<1>2. ImageSize = header_size + a
  BY <1>1 DEF ImageSize
<1>3. 0 \in 0 .. PieceLength - 1
  BY HeaderFits
<1>4. \A v \in Contents \union {"number", "used", "left over"} : HeaderCell(v) \in Cell
  BY <1>3 DEF HeaderCell, Cell
<1>5. ASSUME NEW c \in 1 .. ImageSize PROVE Image[c] \in Cell
  <2>1. CASE c > header_size
    <3>1. PICK p \in DOMAIN m_file_data, k \in 0 .. PieceLength - 1 : Image[c] = DataCell(p, k)
      BY <2>1, DataPosition
    <3>2. k \in Blocks(p) => m_file_data[p][k] \in Contents
      OBVIOUS
    <3>3. PICK v \in Contents \union {"number", "used", "left over"} :
            v = IF k \in Blocks(p) THEN m_file_data[p][k] ELSE "left over"
      BY <3>2
    <3>4. <<p, k, v>> \in Cell
      BY DEF Cell
    <3> QED
      BY <3>1, <3>3, <3>4 DEF DataCell
  <2>2. CASE ~(c > header_size)
    <3>1. c <= header_size
      BY <2>2, HeaderFits
    <3>2. \/ Image[c] = HeaderCell("number") \/ Image[c] = HeaderCell("zero")
          \/ Image[c] = Flag(c - IntBytes - 1)
      <4>1. \/ c <= IntBytes
            \/ c > IntBytes /\ c <= IntBytes + NumPieces
            \/ c > IntBytes + NumPieces /\ c <= header_size
        BY <3>1, HeaderFits
      <4> QED
        BY <4>1, HeaderFits DEF Image
    <3> QED
      BY <1>4, <3>2 DEF Flag, Contents
  <2> QED
    BY <2>1, <2>2
<1> QED
  BY <1>2, <1>5, HeaderFits

-----------------------------------------------------------------------------
(* Type correctness.                                                       *)

\* The types of the memory and the session's state.
MemoryTypes ==
  /\ DOMAIN m_file_data \subseteq Pieces
  /\ \A p \in DOMAIN m_file_data : m_file_data[p] \in [Blocks(p) -> Contents]
  /\ m_invalid \subseteq DOMAIN m_file_data
  /\ has_changed_since \in BOOLEAN
  /\ DOMAIN received = Pieces /\ \A p \in Pieces : received[p] \subseteq Blocks(p)
  /\ have \subseteq Pieces
  /\ flushed \in -1 .. ImageSize
  /\ promised \subseteq Pieces
  /\ cut_short \in BOOLEAN

\* The types of the file and of its reader.
ReaderTypes ==
  /\ file \in Seq(Cell)
  /\ reader \in {"due", "flags", "pieces", "done"}
  /\ flags \in Seq(Cell) /\ Len(flags) <= NumPieces
  /\ pos \in 0 .. Len(file)
  /\ todo \subseteq Pieces
  /\ hold \in Seq(Cell) /\ Len(hold) \in {0, PieceLength}
  /\ loaded \in BOOLEAN

\* The size of the image of any set of pieces.
LEMMA SizeOfImage ==
  ASSUME NEW S, S \subseteq Pieces
  PROVE  header_size + Cardinality(S) * PieceLength \in Nat
<1>1. Cardinality(S) \in Nat /\ header_size \in Nat /\ PieceLength \in Nat
  BY FinitePieces, HeaderFits
<1>2. Cardinality(S) * PieceLength \in Nat
  BY <1>1
<1> QED
  BY <1>1, <1>2

\* A part of the file.
LEMMA PartOfFile ==
  ASSUME file \in Seq(Cell), NEW a \in Nat, NEW b \in Nat, a <= b, b <= Len(file)
  PROVE  /\ SubSeq(file, a + 1, b) \in Seq(Cell)
         /\ Len(SubSeq(file, a + 1, b)) = b - a
         /\ \A j \in 1 .. b - a : SubSeq(file, a + 1, b)[j] = file[a + j]
<1>1. a + 1 \in Int /\ Len(file) \in Nat
  BY LenProperties
<1>2. \A j \in a + 1 .. b : file[j] \in Cell
  BY <1>1, ElementOfSeq
<1>3. /\ SubSeq(file, a + 1, b) \in Seq(Cell)
      /\ Len(SubSeq(file, a + 1, b)) = IF a + 1 <= b THEN b - (a + 1) + 1 ELSE 0
      /\ \A j \in 1 .. b - (a + 1) + 1 : SubSeq(file, a + 1, b)[j] = file[(a + 1) + j - 1]
  BY <1>1, <1>2, SubSeqProperties
<1>4. b - (a + 1) + 1 = b - a /\ \A j \in 1 .. b - a : (a + 1) + j - 1 = a + j
  BY <1>1
<1>5. (IF a + 1 <= b THEN b - (a + 1) + 1 ELSE 0) = b - a
  OBVIOUS
<1> QED
  BY <1>3, <1>4, <1>5

\* The flags in the first block of the file.
LEMMA FirstFlags ==
  ASSUME file \in Seq(Cell), HeaderBlock <= Len(file),
         NEW f, f = SubSeq(file, IntBytes + 1, Smaller(HeaderBlock, IntBytes + NumPieces))
  PROVE  /\ f \in Seq(Cell)
         /\ Len(f) = Smaller(HeaderBlock, IntBytes + NumPieces) - IntBytes
         /\ Len(f) \in Nat /\ Len(f) <= NumPieces
         /\ \A j \in 1 .. Len(f) : f[j] = file[IntBytes + j]
<1>1. PICK b \in Nat : /\ b = Smaller(HeaderBlock, IntBytes + NumPieces)
                       /\ b <= HeaderBlock /\ b <= IntBytes + NumPieces /\ IntBytes <= b
  BY HeaderFits DEF Smaller
<1>2. b <= Len(file)
  BY <1>1, HeaderFits, LenProperties
<1>3. /\ f \in Seq(Cell)
      /\ Len(f) = b - IntBytes
      /\ \A j \in 1 .. b - IntBytes : f[j] = file[IntBytes + j]
  BY <1>1, <1>2, HeaderFits, PartOfFile
<1>4. b - IntBytes \in Nat /\ b - IntBytes <= NumPieces
  BY <1>1, HeaderFits
<1> QED
  BY <1>1, <1>3, <1>4

\* The indices of two sequences one after the other.
LEMMA Indices ==
  ASSUME NEW l \in Nat, NEW n \in Nat
  PROVE  /\ \A j \in 1 .. l : j \in 1 .. l + n /\ j <= l
         /\ \A j \in 1 .. n : l + j \in 1 .. l + n /\ ~(l + j <= l) /\ (l + j) - l = j
OBVIOUS

\* The flags of a further block.
LEMMA MoreFlags ==
  ASSUME file \in Seq(Cell), flags \in Seq(Cell), pos \in Nat, Len(flags) < NumPieces,
         NEW n, n = Smaller(NumPieces - Len(flags), HeaderBlock), pos + n <= Len(file),
         NEW f, f = flags \o SubSeq(file, pos + 1, pos + n)
  PROVE  /\ n \in Nat \ {0}
         /\ f \in Seq(Cell)
         /\ Len(f) = Len(flags) + n /\ Len(f) <= NumPieces
         /\ \A j \in 1 .. Len(flags) : f[j] = flags[j]
         /\ \A j \in 1 .. n : f[Len(flags) + j] = file[pos + j]
<1>1. Len(flags) \in Nat
  BY LenProperties
<1>2. n \in Nat \ {0} /\ Len(flags) + n <= NumPieces
  BY <1>1, HeaderFits DEF Smaller
<1>3. PICK g : g = SubSeq(file, pos + 1, pos + n)
  OBVIOUS
<1>4. pos + n \in Nat /\ pos <= pos + n /\ (pos + n) - pos = n
  BY <1>2
<1>5. /\ g \in Seq(Cell) /\ Len(g) = n
      /\ \A j \in 1 .. n : g[j] = file[pos + j]
  BY <1>3, <1>4, PartOfFile
<1>6. f = flags \o g
  BY <1>3
<1>7. /\ f \in Seq(Cell) /\ Len(f) = Len(flags) + n
      /\ \A j \in 1 .. Len(flags) + n :
           f[j] = IF j <= Len(flags) THEN flags[j] ELSE g[j - Len(flags)]
  <2>1. /\ flags \o g \in Seq(Cell) /\ Len(flags \o g) = Len(flags) + Len(g)
        /\ \A j \in 1 .. Len(flags) + Len(g) :
             (flags \o g)[j] = IF j <= Len(flags) THEN flags[j] ELSE g[j - Len(flags)]
    BY <1>5, ConcatProperties
  <2> QED
    BY <1>5, <1>6, <2>1
<1>8. \A j \in 1 .. Len(flags) : j \in 1 .. Len(flags) + n /\ j <= Len(flags)
  BY <1>1, <1>2, Indices
<1>9. \A j \in 1 .. n : /\ Len(flags) + j \in 1 .. Len(flags) + n /\ ~(Len(flags) + j <= Len(flags))
                        /\ (Len(flags) + j) - Len(flags) = j
  <2>1. PICK l \in Nat : l = Len(flags)
    BY <1>1
  <2>2. PICK m \in Nat : m = n
    BY <1>2
  <2>3. \A j \in 1 .. m : l + j \in 1 .. l + m /\ ~(l + j <= l) /\ (l + j) - l = j
    BY Indices
  <2> QED
    BY <2>1, <2>2, <2>3
<1>10. \A j \in 1 .. Len(flags) : f[j] = flags[j]
  BY <1>7, <1>8
<1>11. \A j \in 1 .. n : f[Len(flags) + j] = file[pos + j]
  BY <1>5, <1>7, <1>9
<1> QED
  BY <1>2, <1>7, <1>10, <1>11

\* The slot of a piece.
LEMMA NextSlot ==
  ASSUME file \in Seq(Cell), pos \in Nat, pos + PieceLength <= Len(file),
         NEW h, h = SubSeq(file, pos + 1, pos + PieceLength)
  PROVE  /\ h \in Seq(Cell) /\ Len(h) = PieceLength
         /\ \A j \in 1 .. PieceLength : h[j] = file[pos + j]
<1>1. /\ pos + PieceLength \in Nat /\ pos <= pos + PieceLength
      /\ (pos + PieceLength) - pos = PieceLength
  BY HeaderFits
<1> QED
  BY <1>1, PartOfFile

\* Writing on makes the file no shorter.
LEMMA FileGrows ==
  ASSUME MemoryTypes, WrittenSoFar, file \in Seq(Cell), Write
  PROVE  file' \in Seq(Cell) /\ Len(file) <= Len(file') /\ Len(file') \in Nat /\ Len(file) \in Nat
<1>1. Len(file) \in Nat /\ DOMAIN file = 1 .. Len(file) /\ \A c \in DOMAIN file : file[c] \in Cell
  BY LenProperties, ElementOfSeq
<1>2. flushed \in Nat /\ flushed <= ImageSize - 1 /\ ImageSize \in Nat
  <2>1. ImageSize \in Nat
    BY SizeOfImage DEF MemoryTypes, ImageSize
  <2> QED
    BY <2>1 DEF Write
<1>3. flushed <= Len(file)
  <2>1. flushed # 0 => flushed \in 1 .. Len(file)
    BY <1>1, <1>2 DEF WrittenSoFar
  <2> QED
    BY <1>1, <1>2, <2>1
<1>4. flushed + 1 \in 1 .. ImageSize
  BY <1>2
<1>5. Image[flushed + 1] \in Cell
  BY <1>4, ImageTypes DEF MemoryTypes
<1>i. PICK l \in Nat : l = Len(file)
  BY <1>1
<1>j. PICK x \in Nat : x = flushed + 1
  BY <1>2
<1>6. l = Len(file) /\ x = flushed + 1 /\ x \in 1 .. l + 1
  BY <1>i, <1>j, <1>2, <1>3
<1>7. PICK m \in Nat : 1 .. l \union {x} = 1 .. m /\ l <= m
  <2>1. CASE x <= l
    <3>1. 1 .. l \union {x} = 1 .. l
      BY <1>6, <2>1
    <3> QED
      BY <3>1
  <2>2. CASE ~(x <= l)
    <3>1. x = l + 1
      BY <1>6, <2>2
    <3>2. 1 .. l \union {x} = 1 .. l + 1
      BY <3>1
    <3> QED
      BY <3>2
  <2> QED
    BY <2>1, <2>2
<1>8. file' = [c \in 1 .. m |-> IF c = flushed + 1 THEN Image[c] ELSE file[c]]
  BY <1>1, <1>6, <1>7 DEF Write
<1>9. \A c \in 1 .. m : c # flushed + 1 => c \in DOMAIN file
  BY <1>1, <1>6, <1>7
<1>10. file' \in [1 .. m -> Cell]
  BY <1>1, <1>5, <1>8, <1>9
<1>11. file' \in Seq(Cell)
  BY <1>10, SeqDef
<1>12. DOMAIN file' = 1 .. Len(file') /\ Len(file') \in Nat
  BY <1>11, LenProperties
<1>13. Len(file') = m
  BY <1>10, <1>12
<1> QED
  BY <1>1, <1>6, <1>7, <1>11, <1>13

\* A write to a piece keeps the types of the memory.
LEMMA WriteTypes ==
  ASSUME MemoryTypes, flushed = -1, received \in [Pieces -> SUBSET Int],
         NEW p \in Pieces, NEW blocks, \A k \in DOMAIN blocks : blocks[k] \in Contents,
         writev(p, blocks),
         NEW got, got \subseteq Blocks(p), received' = [received EXCEPT ![p] = got],
         UNCHANGED <<have, flushed, promised, cut_short>>
  PROVE  MemoryTypes'
<1>1. /\ DOMAIN m_file_data' = DOMAIN m_file_data \union {p}
      /\ m_invalid' = m_invalid \ {p}
      /\ \A q \in DOMAIN m_file_data : q # p => m_file_data'[q] = m_file_data[q]
  BY WriteKeepsOthers
<1>2. m_file_data'[p] = Written(p, blocks) /\ has_changed_since' = TRUE
  BY DEF writev, Put
<1>3. Written(p, blocks) \in [Blocks(p) -> Contents]
  BY DEF Written, AllZero, MemoryTypes, Contents
<1>4. /\ DOMAIN m_file_data' \subseteq Pieces
      /\ \A q \in DOMAIN m_file_data' : m_file_data'[q] \in [Blocks(q) -> Contents]
      /\ m_invalid' \subseteq DOMAIN m_file_data'
  BY <1>1, <1>2, <1>3 DEF MemoryTypes
<1>5. flushed' \in -1 .. ImageSize'
  <2>1. ImageSize' = header_size + Cardinality(DOMAIN m_file_data') * PieceLength
    BY DEF ImageSize
  <2>2. PICK D : D = DOMAIN m_file_data'
    OBVIOUS
  <2>3. header_size + Cardinality(D) * PieceLength \in Nat
    BY <1>4, <2>2, SizeOfImage
  <2>4. ImageSize' \in Nat
    BY <2>1, <2>2, <2>3
  <2> QED
    BY <2>4
<1>6. DOMAIN received' = Pieces /\ \A q \in Pieces : received'[q] \subseteq Blocks(q)
  BY DEF MemoryTypes
<1>7. has_changed_since' \in BOOLEAN
  BY <1>2
<1> QED
  BY <1>4, <1>5, <1>6, <1>7 DEF MemoryTypes

\* Steps that leave the pieces in memory alone keep the types of the memory.
LEMMA MemorySame ==
  ASSUME MemoryTypes, UNCHANGED <<m_file_data, received>>,
         m_invalid' \subseteq DOMAIN m_file_data, has_changed_since' \in BOOLEAN,
         have' \subseteq Pieces, flushed' \in -1 .. ImageSize,
         promised' \subseteq Pieces, cut_short' \in BOOLEAN
  PROVE  MemoryTypes'
BY SameImage DEF MemoryTypes

\* Every variable has its type at first.
LEMMA InitTypes == Init => MemoryTypes /\ ReaderTypes
<1> SUFFICES ASSUME Init PROVE MemoryTypes /\ ReaderTypes
  OBVIOUS
<1> USE DEF Init
<1>1. DOMAIN m_file_data = {}
  OBVIOUS
<1>2. ImageSize \in Nat
  BY <1>1, SizeOfImage DEF ImageSize
<1>b. has_changed_since \in BOOLEAN /\ cut_short \in BOOLEAN /\ loaded \in BOOLEAN
  BY Zenon
<1>3. MemoryTypes
  <2>1. DOMAIN received = Pieces /\ \A p \in Pieces : received[p] \subseteq Blocks(p)
    OBVIOUS
  <2>2. flushed \in -1 .. ImageSize
    BY <1>2
  <2>3. m_invalid = {} /\ have = {} /\ promised = {}
    OBVIOUS
  <2> HIDE DEF Init
  <2> QED
    BY <1>1, <1>b, <2>1, <2>2, <2>3 DEF MemoryTypes
<1>4. <<>> \in Seq(Cell) /\ Len(<<>>) = 0 /\ 0 <= NumPieces /\ 0 \in 0 .. 0
  BY EmptySeq, HeaderFits
<1>5. ReaderTypes
  <2>1. file = <<>> /\ flags = <<>> /\ hold = <<>> /\ pos = 0 /\ todo = {} /\ reader = "due"
    OBVIOUS
  <2> HIDE DEF Init
  <2> QED
    BY <1>4, <1>b, <2>1 DEF ReaderTypes
<1> QED
  BY <1>3, <1>5

\* The session's thread and a crash keep the types of the memory.
LEMMA StepMemory ==
  ASSUME MemoryTypes, ReaderTypes, Kept, [Next]_vars
  PROVE  MemoryTypes'
<1> USE DEF storageVars, sessionVars, fileVars, readerVars
<1>0. /\ received \in [Pieces -> SUBSET Int] /\ \A p \in Pieces : received[p] \subseteq Blocks(p)
      /\ m_invalid \subseteq DOMAIN m_file_data /\ have \subseteq Pieces /\ flushed \in -1 .. ImageSize
      /\ promised \subseteq Pieces /\ cut_short \in BOOLEAN /\ has_changed_since \in BOOLEAN
  BY DEF MemoryTypes, Kept
<1>z. ImageSize \in Nat
  BY SizeOfImage DEF MemoryTypes, ImageSize
<1>1. CASE UNCHANGED <<storageVars, sessionVars, fileVars>>
  BY <1>0, <1>1, MemorySame
<1>2. CASE Crash
  <2>1. /\ DOMAIN m_file_data' = {} /\ m_invalid' = {} /\ has_changed_since' = FALSE
        /\ received' = [p \in Pieces |-> {}] /\ have' = {} /\ flushed' = -1 /\ cut_short' = FALSE
        /\ promised' = promised
    BY <1>2 DEF Crash
  <2>2. ImageSize' = header_size + Cardinality({}) * PieceLength
    BY <2>1 DEF ImageSize
  <2>3. ImageSize' \in Nat
    BY <2>2, SizeOfImage
  <2>4. flushed' \in -1 .. ImageSize'
    BY <2>1, <2>3
  <2>5. has_changed_since' \in BOOLEAN /\ cut_short' \in BOOLEAN
    BY <2>1
  <2> QED
    BY <1>0, <2>1, <2>4, <2>5 DEF MemoryTypes
<1>3. ASSUME NEW p \in Pieces, HashPiece(p) PROVE MemoryTypes'
  <2>1. Blocks(p) # {} /\ received[p] = Blocks(p)
    BY <1>3, SomeBlock DEF HashPiece
  <2>2. p \in DOMAIN m_file_data
    BY <2>1 DEF Kept
  <2>3. CASE have' = have \union {p} /\ UNCHANGED <<received, m_invalid>>
    BY <1>0, <1>3, <2>3, MemorySame DEF HashPiece
  <2>4. CASE /\ m_invalid' = m_invalid \union {p}
             /\ received' = [received EXCEPT ![p] = {}]
             /\ UNCHANGED have
    <3>1. UNCHANGED <<m_file_data, has_changed_since, fileVars>>
      BY <1>3 DEF HashPiece
    <3>2. ImageSize' = ImageSize
      BY <3>1, SameImage
    <3>3. DOMAIN received' = Pieces /\ \A q \in Pieces : received'[q] \subseteq Blocks(q)
      BY <1>0, <2>4
    <3> QED
      BY <2>2, <2>4, <3>1, <3>2, <3>3 DEF MemoryTypes
  <2> QED
    BY <1>3, <2>3, <2>4 DEF HashPiece
<1>4. ASSUME NEW p \in Pieces, NEW k \in Blocks(p), NEW content \in {"good", "bad"},
             DownloadBlock(p, k, content)
      PROVE  MemoryTypes'
  <2>1. PICK blocks : blocks = [j \in {k} |-> content]
    OBVIOUS
  <2>2. \A j \in DOMAIN blocks : blocks[j] \in Contents
    BY <2>1 DEF Contents
  <2>3. /\ writev(p, blocks) /\ flushed = -1
        /\ received' = [received EXCEPT ![p] = received[p] \union {k}]
        /\ UNCHANGED <<have, flushed, promised, cut_short>>
    BY <1>4, <2>1 DEF DownloadBlock
  <2>4. received[p] \union {k} \subseteq Blocks(p)
    BY <1>0
  <2> QED
    BY <1>0, <2>2, <2>3, <2>4, WriteTypes
<1>5. CASE release_files
  <2>1. 0 \in -1 .. ImageSize
    BY <1>z
  <2> QED
    BY <1>0, <1>5, <2>1, MemorySame DEF release_files
<1>6. CASE Write
  <2>1. flushed + 1 \in -1 .. ImageSize
    BY <1>6, <1>z DEF Write
  <2> QED
    BY <1>0, <1>6, <2>1, MemorySame DEF Write
<1>7. CASE WriteFails \/ FlushDone
  <2>1. -1 \in -1 .. ImageSize
    BY <1>z
  <2>2. has_changed_since' = FALSE /\ cut_short' \in {TRUE, FALSE} /\ flushed' = -1
    BY <1>7 DEF WriteFails, FlushDone
  <2>3. has_changed_since' \in BOOLEAN /\ cut_short' \in BOOLEAN
    BY <2>2
  <2>4. /\ UNCHANGED <<m_file_data, received, m_invalid, have>>
        /\ promised' = promised \/ promised' = have
    BY <1>7 DEF WriteFails, FlushDone
  <2> QED
    BY <1>0, <2>1, <2>2, <2>3, <2>4, MemorySame
<1>8. ASSUME NEW p \in todo, add_piece(p) PROVE MemoryTypes'
  <2> DEFINE missing == IF p \in have THEN {} ELSE Blocks(p) \ received[p]
  <2>1. p \in Pieces
    BY DEF ReaderTypes
  <2>2. CASE missing = {}
    BY <1>1, <1>8, <2>2 DEF add_piece
  <2>3. CASE missing # {}
    <3>1. PICK blocks : blocks = [k \in missing |-> ContentIn(p, k)]
      OBVIOUS
    <3>2. /\ writev(p, blocks) /\ flushed = -1
          /\ received' = [received EXCEPT ![p] = Blocks(p)]
          /\ UNCHANGED <<have, flushed, promised, cut_short>>
      BY <1>8, <2>3, <3>1 DEF add_piece
    <3>3. \A k \in DOMAIN blocks : blocks[k] \in Contents
      BY <3>1 DEF ContentIn, Contents
    <3> HIDE DEF missing
    <3> QED
      BY <1>0, <2>1, <3>2, <3>3, WriteTypes
  <2> QED
    BY <2>2, <2>3
<1>9. CASE check_resume_data \/ RefillHeader \/ FlagsRead \/ ReadSavedPiece \/ ReadDone
  BY <1>1, <1>9 DEF check_resume_data, RefillHeader, FlagsRead, ReadSavedPiece, ReadDone
<1>10. CASE UNCHANGED vars
  BY <1>1, <1>10 DEF vars
<1> QED
  BY <1>2, <1>3, <1>4, <1>5, <1>6, <1>7, <1>8, <1>9, <1>10 DEF Next, SessionThread, MainThread

\* The main thread, writes to the file and a crash keep the types of the reader.
LEMMA StepReader ==
  ASSUME MemoryTypes, ReaderTypes, WrittenSoFar, [Next]_vars
  PROVE  ReaderTypes'
<1> USE DEF storageVars, sessionVars, fileVars, readerVars
<1>0. /\ Len(file) \in Nat /\ Len(flags) \in Nat /\ pos \in Nat /\ pos <= Len(file)
      /\ file \in Seq(Cell) /\ flags \in Seq(Cell) /\ Len(flags) <= NumPieces
      /\ <<>> \in Seq(Cell) /\ Len(<<>>) = 0 /\ 0 <= NumPieces
  BY EmptySeq, LenProperties, HeaderFits DEF ReaderTypes
<1>1. CASE UNCHANGED <<readerVars, file>>
  BY <1>1 DEF ReaderTypes
<1>2. CASE Crash
  <2>1. 0 \in 0 .. Len(file)
    BY <1>0
  <2> QED
    BY <1>0, <1>2, <2>1 DEF Crash, ReaderTypes
<1>3. CASE Write
  <2>1. file' \in Seq(Cell) /\ Len(file) <= Len(file') /\ Len(file') \in Nat
    BY <1>0, <1>3, FileGrows
  <2>2. pos' \in 0 .. Len(file')
    BY <1>0, <1>3, <2>1 DEF Write
  <2> QED
    BY <1>3, <2>1, <2>2 DEF Write, ReaderTypes
<1>4. ASSUME Return, UNCHANGED file PROVE ReaderTypes'
  <2>1. 0 \in 0 .. Len(file)
    BY <1>0
  <2> QED
    BY <1>0, <1>4, <2>1 DEF Return, ReaderTypes
<1>5. CASE check_resume_data
  <2>1. CASE Return
    BY <1>4, <1>5, <2>1 DEF check_resume_data
  <2>2. CASE /\ Len(file) >= HeaderBlock
             /\ reader' = "flags"
             /\ flags' = SubSeq(file, IntBytes + 1, Smaller(HeaderBlock, IntBytes + NumPieces))
             /\ pos' = HeaderBlock
             /\ UNCHANGED <<todo, hold, loaded>>
    <3>1. HeaderBlock <= Len(file) /\ HeaderBlock \in 0 .. Len(file)
      BY <1>0, <2>2, HeaderFits
    <3>2. flags' \in Seq(Cell) /\ Len(flags') <= NumPieces
      BY <1>0, <2>2, <3>1, FirstFlags
    <3>3. file' = file
      BY <1>5 DEF check_resume_data
    <3> QED
      BY <2>2, <3>1, <3>2, <3>3 DEF ReaderTypes
  <2> QED
    BY <1>5, <2>1, <2>2 DEF check_resume_data
<1>6. CASE RefillHeader
  <2>1. CASE Return
    BY <1>4, <1>6, <2>1 DEF RefillHeader
  <2>2. CASE ~Return
    <3>1. PICK n : n = Smaller(NumPieces - Len(flags), HeaderBlock)
      OBVIOUS
    <3>2. /\ Len(flags) < NumPieces /\ Len(file) >= pos + n
          /\ flags' = flags \o SubSeq(file, pos + 1, pos + n)
          /\ pos' = pos + n
          /\ UNCHANGED <<reader, todo, hold, loaded, file>>
      BY <1>6, <2>2, <3>1 DEF RefillHeader
    <3>3. n \in Nat
      BY <1>0, <3>1, <3>2, HeaderFits DEF Smaller
    <3>4. pos + n <= Len(file) /\ pos + n \in 0 .. Len(file)
      BY <1>0, <3>2, <3>3
    <3>5. flags' \in Seq(Cell) /\ Len(flags') <= NumPieces
      BY <1>0, <3>1, <3>2, <3>4, MoreFlags
    <3> QED
      BY <3>2, <3>4, <3>5 DEF ReaderTypes
  <2> QED
    BY <2>1, <2>2
<1>7. CASE FlagsRead
  <2>1. reader' = "pieces" /\ todo' \subseteq Pieces /\ UNCHANGED <<flags, pos, hold, loaded, file>>
    BY <1>7 DEF FlagsRead
  <2> QED
    BY <2>1 DEF ReaderTypes
<1>8. CASE ReadSavedPiece
  <2>1. CASE Return
    BY <1>4, <1>8, <2>1 DEF ReadSavedPiece
  <2>2. CASE ~Return
    <3>1. /\ Len(file) >= pos + PieceLength
          /\ hold' = SubSeq(file, pos + 1, pos + PieceLength)
          /\ pos' = pos + PieceLength
          /\ UNCHANGED <<reader, flags, todo, loaded, file>>
      BY <1>8, <2>2 DEF ReadSavedPiece
    <3>2. pos + PieceLength <= Len(file) /\ pos + PieceLength \in 0 .. Len(file)
      BY <1>0, <3>1, HeaderFits
    <3>3. hold' \in Seq(Cell) /\ Len(hold') = PieceLength
      BY <1>0, <3>1, <3>2, NextSlot
    <3> QED
      BY <3>1, <3>2, <3>3 DEF ReaderTypes
  <2> QED
    BY <2>1, <2>2
<1>9. ASSUME NEW p \in todo, add_piece(p) PROVE ReaderTypes'
  <2>1. todo' = todo \ {p} /\ hold' = <<>> /\ UNCHANGED <<reader, flags, pos, loaded, file>>
    BY <1>9 DEF add_piece
  <2> QED
    BY <1>0, <2>1 DEF ReaderTypes
<1>10. CASE ReadDone
  BY <1>4, <1>10 DEF ReadDone
<1>11. CASE UNCHANGED vars
  BY <1>1, <1>11 DEF vars
<1>12. CASE SessionThread /\ ~Write
  BY <1>1, <1>12 DEF SessionThread, HashPiece, DownloadBlock, release_files, WriteFails, FlushDone
<1> QED
  BY <1>2, <1>3, <1>5, <1>6, <1>7, <1>8, <1>9, <1>10, <1>11, <1>12 DEF Next, MainThread

\* Every variable holds a value of its type, the file and what is read of it included.
THEOREM TypeCorrect == Spec => []TypeOK
<1> DEFINE I == MemoryTypes /\ ReaderTypes /\ Kept /\ WrittenSoFar
<1>1. Init => I
  BY InitTypes, InitKept, InitWritten
<1>2. I /\ [Next]_vars => I'
  BY StepMemory, StepReader, StepKept, StepWritten
<1>3. I => TypeOK
  BY DEF MemoryTypes, ReaderTypes, TypeOK
<1> QED
  BY <1>1, <1>2, <1>3, PTL DEF Spec

-----------------------------------------------------------------------------
(* What was saved comes back: the file keeps what it promises, and the     *)
(* reader gets through it.                                                 *)

\* The pieces the flags of the file name, and the slot of one among them.
FileUsed == {p \in Pieces : file[IntBytes + p + 1] # HeaderCell("zero")}
FileRank(p) == Cardinality({q \in FileUsed : q < p})

\* The file holds the piece, with the right content.
Offers(p) ==
  /\ p \in FileUsed
  /\ \A k \in Blocks(p) : file[header_size + FileRank(p) * PieceLength + k + 1] = <<p, k, "good">>

\* A file that promises something is not being written, complete, and holds it.
PromiseOK ==
  promised # {} =>
    /\ flushed = -1
    /\ Len(file) >= header_size + Cardinality(FileUsed) * PieceLength
    /\ \A p \in promised : Offers(p)

\* A piece the session has all blocks of, with the right content.
Delivered(p) == Readable(p) /\ received[p] = Blocks(p)
Waiting == {p \in promised : ~Delivered(p)}

\* The session has the blocks of what it verified.  The reader only holds a piece while
\* it reads pieces, and before it is through a piece it has not handed over has no block.
UntouchedOK ==
  /\ \A p \in have : received[p] = Blocks(p)
  /\ reader # "pieces" => hold = <<>>
  /\ ~loaded =>
       /\ reader # "done"
       /\ reader \in {"due", "flags"} => \A p \in Pieces : received[p] = {}
       /\ reader = "pieces" => \A p \in todo : received[p] = {}

\* The reader stands where the next flag is.
AtFlags ==
  /\ \A j \in 1 .. Len(flags) : flags[j] = file[IntBytes + j]
  /\ IF IntBytes + NumPieces <= HeaderBlock
     THEN Len(flags) = NumPieces /\ pos = HeaderBlock
     ELSE pos = IntBytes + Len(flags)

\* The reader stands where the smallest piece left is, or behind it when it holds it.
AtPieces ==
  /\ todo \subseteq FileUsed
  /\ Waiting \subseteq todo
  /\ \A p \in FileUsed \ todo, q \in todo : p < q
  /\ pos = header_size + Cardinality(FileUsed \ todo) * PieceLength + Len(hold)
  /\ \A k \in 1 .. Len(hold) : hold[k] = file[pos - Len(hold) + k]

\* As long as a promised piece is not delivered the reader is on its way to it.
ReaderOK ==
  Aligned /\ Waiting # {} =>
    /\ ~loaded
    /\ reader = "flags" => AtFlags
    /\ reader = "pieces" => AtPieces

\* A step that leaves the file, what it promises and release_files alone keeps it true.
LEMMA SamePromise ==
  ASSUME PromiseOK, file' = file, promised' = promised, flushed' = flushed \/ flushed' = -1
  PROVE  PromiseOK'
<1>1. FileUsed' = FileUsed
  BY DEF FileUsed
<1>2. \A p : FileRank(p)' = FileRank(p)
  BY <1>1 DEF FileRank
<1>3. \A p : Offers(p)' <=> Offers(p)
  BY <1>1, <1>2 DEF Offers
<1> QED
  BY <1>1, <1>3 DEF PromiseOK

\* A file written to its end holds what was verified.
LEMMA FlushPromises ==
  ASSUME MemoryTypes, ReaderTypes, Kept, WrittenSoFar, flushed = ImageSize
  PROVE  /\ Len(file) >= header_size + Cardinality(FileUsed) * PieceLength
         /\ \A p \in have : Offers(p)
<1> DEFINE D == DOMAIN m_file_data
<1>1. /\ ImageSize \in Nat /\ header_size <= ImageSize /\ D \subseteq Pieces
      /\ Len(file) \in Nat /\ DOMAIN file = 1 .. Len(file)
  BY ImageTypes, LenProperties DEF MemoryTypes, ReaderTypes
<1>2. \A c \in 1 .. ImageSize : c \in DOMAIN file /\ file[c] = Image[c]
  BY DEF WrittenSoFar
<1>3. \A p \in Pieces : file[IntBytes + p + 1] = Flag(p)
  BY <1>1, <1>2, ImageOfFlag
<1>4. FileUsed = D
  <2>1. HeaderCell("used") # HeaderCell("zero")
    BY DEF HeaderCell
  <2>2. ASSUME NEW p \in Pieces PROVE p \in FileUsed <=> p \in D
    <3>1. p \in FileUsed <=> Flag(p) # HeaderCell("zero")
      BY <1>3 DEF FileUsed
    <3>2. CASE p \in D
      BY <2>1, <3>1, <3>2 DEF Flag
    <3>3. CASE p \notin D
      BY <3>1, <3>3 DEF Flag
    <3> QED
      BY <3>2, <3>3
  <2>3. FileUsed \subseteq Pieces
    BY DEF FileUsed
  <2> HIDE DEF D
  <2> QED
    BY <1>1, <2>2, <2>3
<1>5. \A p : FileRank(p) = Rank(p)
  BY <1>4 DEF FileRank, Rank
<1>6. Len(file) >= ImageSize
  <2>1. ImageSize # 0
    BY <1>1, HeaderFits
  <2>2. ImageSize \in 1 .. ImageSize
    BY <1>1, <2>1
  <2> QED
    BY <1>1, <1>2, <2>2
<1>7. ImageSize = header_size + Cardinality(FileUsed) * PieceLength
  BY <1>4 DEF ImageSize
<1>8. ASSUME NEW p \in have PROVE Offers(p)
  <2>1. p \in D /\ \A k \in Blocks(p) : m_file_data[p][k] = "good"
    BY DEF Kept, VerifiedIsReadable, Readable
  <2>2. ASSUME NEW k \in Blocks(p)
        PROVE  file[header_size + FileRank(p) * PieceLength + k + 1] = <<p, k, "good">>
    <3>1. k \in 0 .. PieceLength - 1
      BY BlockNumbers
    <3>2. PICK c : c = header_size + Rank(p) * PieceLength + k + 1
      OBVIOUS
    <3>3. c \in 1 .. ImageSize /\ Image[c] = DataCell(p, k)
      BY <1>1, <2>1, <3>1, <3>2, ImageOfPiece
    <3>4. DataCell(p, k) = <<p, k, "good">>
      BY <2>1 DEF DataCell
    <3> QED
      BY <1>2, <1>5, <3>2, <3>3, <3>4
  <2> QED
    BY <1>4, <2>1, <2>2 DEF Offers
<1> QED
  BY <1>6, <1>7, <1>8

\* Nothing but release_files writes to the file, and it first takes back what was promised.
LEMMA PromiseKept ==
  ASSUME MemoryTypes, ReaderTypes, Kept, WrittenSoFar, PromiseOK, [Next]_vars
  PROVE  PromiseOK'
<1> USE DEF storageVars, sessionVars, fileVars, readerVars
<1>0. ImageSize \in Nat
  BY ImageTypes DEF MemoryTypes
<1>1. CASE release_files
  BY <1>1 DEF release_files, PromiseOK
<1>2. CASE Write \/ WriteFails
  <2>1. flushed # -1 /\ promised' = promised
    BY <1>2 DEF Write, WriteFails
  <2> QED
    BY <2>1 DEF PromiseOK
<1>3. CASE FlushDone
  <2>1. flushed = ImageSize /\ flushed' = -1 /\ promised' = have /\ file' = file
    BY <1>3 DEF FlushDone
  <2>2. /\ Len(file) >= header_size + Cardinality(FileUsed) * PieceLength
        /\ \A p \in have : Offers(p)
    BY <2>1, FlushPromises
  <2>3. FileUsed' = FileUsed
    BY <2>1 DEF FileUsed
  <2>4. \A p : FileRank(p)' = FileRank(p)
    BY <2>3 DEF FileRank
  <2>5. \A p : Offers(p)' <=> Offers(p)
    BY <2>1, <2>3, <2>4 DEF Offers
  <2> QED
    BY <2>1, <2>2, <2>3, <2>5 DEF PromiseOK
<1>4. CASE file' = file /\ promised' = promised /\ (flushed' = flushed \/ flushed' = -1)
  BY <1>4, SamePromise
<1>5. \/ release_files \/ Write \/ WriteFails \/ FlushDone
      \/ file' = file /\ promised' = promised /\ (flushed' = flushed \/ flushed' = -1)
  BY DEF Next, SessionThread, MainThread, Crash, HashPiece, DownloadBlock, check_resume_data,
         RefillHeader, FlagsRead, ReadSavedPiece, add_piece, ReadDone, vars
<1> QED
  BY <1>1, <1>2, <1>3, <1>4, <1>5

\* What is known of pieces the reader has not handed over stays so.
LEMMA UntouchedKept ==
  ASSUME MemoryTypes, ReaderTypes, Kept, UntouchedOK, [Next]_vars
  PROVE  UntouchedOK'
<1> USE DEF storageVars, sessionVars, fileVars, readerVars
<1>0. received \in [Pieces -> SUBSET Int] /\ have \subseteq Pieces /\ todo \subseteq Pieces
  BY DEF Kept
<1>1. CASE UNCHANGED <<sessionVars, readerVars>>
  BY <1>1 DEF UntouchedOK
<1>2. CASE Crash
  <2>1. \A p \in Pieces : received'[p] = {}
    BY <1>2 DEF Crash
  <2> QED
    BY <1>2, <2>1 DEF Crash, UntouchedOK
<1>3. ASSUME NEW p \in Pieces, HashPiece(p) PROVE UntouchedOK'
  <2>1. /\ p \notin have /\ received[p] = Blocks(p) /\ UNCHANGED readerVars
        /\ \/ have' = have \union {p} /\ UNCHANGED received
           \/ received' = [received EXCEPT ![p] = {}] /\ UNCHANGED have
    BY <1>3 DEF HashPiece
  <2> QED
    BY <1>0, <2>1 DEF UntouchedOK
<1>4. ASSUME NEW p \in Pieces, NEW k \in Blocks(p), NEW content, DownloadBlock(p, k, content)
      PROVE  UntouchedOK'
  <2>1. /\ p \notin have /\ loaded /\ UNCHANGED <<have, readerVars>>
        /\ received' = [received EXCEPT ![p] = received[p] \union {k}]
    BY <1>4 DEF DownloadBlock
  <2> QED
    BY <1>0, <2>1 DEF UntouchedOK
<1>5. ASSUME Return, UNCHANGED sessionVars PROVE UntouchedOK'
  BY <1>5 DEF Return, UntouchedOK
<1>6. CASE check_resume_data
  <2>1. CASE Return
    BY <1>5, <1>6, <2>1 DEF check_resume_data
  <2>2. CASE ~Return
    <3>1. /\ reader \in {"due", "done"} /\ reader' = "flags"
          /\ UNCHANGED <<sessionVars, hold, loaded>>
      BY <1>6, <2>2 DEF check_resume_data
    <3> QED
      BY <3>1 DEF UntouchedOK
  <2> QED
    BY <2>1, <2>2
<1>7. CASE RefillHeader \/ ReadSavedPiece
  <2>1. CASE Return
    BY <1>5, <1>7, <2>1 DEF RefillHeader, ReadSavedPiece
  <2>2. CASE ~Return
    <3>1. /\ reader' = reader /\ UNCHANGED <<sessionVars, todo, loaded>>
          /\ reader # "pieces" => hold' = hold
      BY <1>7, <2>2 DEF RefillHeader, ReadSavedPiece
    <3> QED
      BY <3>1 DEF UntouchedOK
  <2> QED
    BY <2>1, <2>2
<1>8. CASE FlagsRead
  <2>1. reader = "flags" /\ reader' = "pieces" /\ todo' \subseteq Pieces
        /\ UNCHANGED <<sessionVars, loaded>>
    BY <1>8 DEF FlagsRead
  <2> QED
    BY <2>1 DEF UntouchedOK
<1>9. ASSUME NEW p \in todo, add_piece(p) PROVE UntouchedOK'
  <2>1. /\ reader = "pieces" /\ todo' = todo \ {p} /\ UNCHANGED <<have, reader, loaded>>
        /\ received' = [received EXCEPT ![p] = Blocks(p)] \/ UNCHANGED received
    BY <1>9 DEF add_piece
  <2>2. \A q \in Pieces : received'[q] = received[q] \/ (q = p /\ received'[q] = Blocks(q))
    BY <1>0, <2>1
  <2> QED
    BY <1>0, <2>1, <2>2 DEF UntouchedOK
<1>10. CASE ReadDone
  BY <1>5, <1>10 DEF ReadDone
<1>11. CASE release_files \/ Write \/ WriteFails \/ FlushDone \/ UNCHANGED vars
  BY <1>1, <1>11 DEF release_files, Write, WriteFails, FlushDone, vars
<1> QED
  BY <1>2, <1>3, <1>4, <1>6, <1>7, <1>8, <1>9, <1>10, <1>11 DEF Next, SessionThread, MainThread

\* A write to another piece leaves a delivered piece as it is.
LEMMA WriteElsewhere ==
  ASSUME NEW p, NEW q, p # q, Delivered(p), received \in [Pieces -> SUBSET Int],
         NEW blocks, writev(q, blocks), NEW got, received' = [received EXCEPT ![q] = got]
  PROVE  Delivered(p)'
<1>1. p \notin m_invalid /\ p \in DOMAIN m_file_data /\ received[p] = Blocks(p)
      /\ \A k \in Blocks(p) : m_file_data[p][k] = "good"
  BY DEF Delivered, Readable
<1>2. p \in DOMAIN m_file_data' /\ p \notin m_invalid' /\ m_file_data'[p] = m_file_data[p]
  BY <1>1, WriteKeepsOthers
<1>3. received'[p] = received[p]
  OBVIOUS
<1> QED
  BY <1>1, <1>2, <1>3 DEF Delivered, Readable

\* As long as the program runs a delivered piece stays delivered.
LEMMA DeliveredKept ==
  ASSUME ReaderTypes, Kept, [Next]_vars, ~Crash, NEW p \in Pieces, Delivered(p)
  PROVE  Delivered(p)'
<1> USE DEF storageVars, sessionVars, fileVars, readerVars
<1>0. received \in [Pieces -> SUBSET Int]
  BY DEF Kept
<1>1. CASE UNCHANGED <<m_file_data, m_invalid, received>>
  BY <1>1 DEF Delivered, Readable
<1>2. ASSUME NEW q \in Pieces, HashPiece(q) PROVE Delivered(p)'
  <2>1. CASE UNCHANGED <<received, m_invalid>>
    BY <1>1, <1>2, <2>1 DEF HashPiece
  <2>2. CASE /\ \E k \in Blocks(q) : m_file_data[q][k] # "good"
             /\ m_invalid' = m_invalid \union {q}
             /\ received' = [received EXCEPT ![q] = {}]
    <3>1. p # q
      BY <2>2 DEF Delivered, Readable
    <3>2. received'[p] = received[p]
      BY <1>0, <2>2, <3>1
    <3> QED
      BY <1>2, <2>2, <3>1, <3>2 DEF HashPiece, Delivered, Readable
  <2> QED
    BY <1>2, <2>1, <2>2 DEF HashPiece
<1>3. ASSUME NEW q \in Pieces, NEW k \in Blocks(q), NEW content, DownloadBlock(q, k, content)
      PROVE  Delivered(p)'
  <2>1. PICK blocks : blocks = [j \in {k} |-> content]
    OBVIOUS
  <2>2. /\ k \notin received[q] /\ writev(q, blocks)
        /\ received' = [received EXCEPT ![q] = received[q] \union {k}]
    BY <1>3, <2>1 DEF DownloadBlock
  <2>3. p # q
    BY <2>2 DEF Delivered
  <2> QED
    BY <1>0, <2>2, <2>3, WriteElsewhere
<1>4. ASSUME NEW q \in todo, add_piece(q) PROVE Delivered(p)'
  <2> DEFINE missing == IF q \in have THEN {} ELSE Blocks(q) \ received[q]
  <2>1. CASE missing = {}
    BY <1>1, <1>4, <2>1 DEF add_piece
  <2>2. CASE missing # {}
    <3>1. PICK blocks : blocks = [k \in missing |-> ContentIn(q, k)]
      OBVIOUS
    <3>2. writev(q, blocks) /\ received' = [received EXCEPT ![q] = Blocks(q)]
      BY <1>4, <2>2, <3>1 DEF add_piece
    <3>3. p # q
      BY <2>2 DEF Delivered
    <3> HIDE DEF missing
    <3> QED
      BY <1>0, <3>2, <3>3, WriteElsewhere
  <2> QED
    BY <2>1, <2>2
<1>5. CASE \/ release_files \/ Write \/ WriteFails \/ FlushDone \/ check_resume_data
           \/ RefillHeader \/ FlagsRead \/ ReadSavedPiece \/ ReadDone \/ UNCHANGED vars
  BY <1>1, <1>5 DEF release_files, Write, WriteFails, FlushDone, check_resume_data, RefillHeader,
                    FlagsRead, ReadSavedPiece, ReadDone, vars
<1> QED
  BY <1>2, <1>3, <1>4, <1>5 DEF Next, SessionThread, MainThread

\* As long as the program runs no piece starts to wait.
LEMMA WaitingShrinks ==
  ASSUME MemoryTypes, ReaderTypes, Kept, UntouchedOK, [Next]_vars, ~Crash
  PROVE  Waiting' \subseteq Waiting
<1>1. promised \subseteq Pieces /\ have \subseteq Pieces
  BY DEF MemoryTypes
<1>2. \A p \in Pieces : Delivered(p) => Delivered(p)'
  BY DeliveredKept
<1>3. \A p \in have : Delivered(p)
  BY DEF Kept, VerifiedIsReadable, UntouchedOK, Delivered
<1>4. promised' = promised \/ promised' = {} \/ promised' = have
  BY DEF Next, SessionThread, MainThread, HashPiece, DownloadBlock, release_files, Write,
         WriteFails, FlushDone, check_resume_data, RefillHeader, FlagsRead, ReadSavedPiece,
         add_piece, ReadDone, vars, fileVars
<1> QED
  BY <1>1, <1>2, <1>3, <1>4 DEF Waiting

\* What the reader rests on in the file while a promised piece waits.
LEMMA FileComplete ==
  ASSUME MemoryTypes, ReaderTypes, PromiseOK, Waiting # {}
  PROVE  /\ flushed = -1
         /\ \E n \in Nat : /\ n = Cardinality(FileUsed) * PieceLength
                           /\ Len(file) >= header_size + n
         /\ \A p \in Waiting : Offers(p)
         /\ FileUsed \subseteq Pieces /\ Waiting \subseteq FileUsed
         /\ Len(file) \in Nat /\ Len(file) >= header_size
<1>1. promised # {} /\ Waiting \subseteq promised
  BY DEF Waiting
<1>2. FileUsed \subseteq Pieces
  BY DEF FileUsed
<1>3. PICK u \in Nat : u = Cardinality(FileUsed)
  BY <1>2, FinitePieces
<1>4. PICK n \in Nat : n = u * PieceLength
  BY <1>3, HeaderFits
<1>5. Len(file) \in Nat
  BY LenProperties DEF ReaderTypes
<1>6. Len(file) >= header_size + n
  BY <1>1, <1>3, <1>4 DEF PromiseOK
<1>7. Len(file) >= header_size
  BY <1>4, <1>5, <1>6, HeaderFits
<1>8. \A p \in Waiting : Offers(p)
  BY <1>1 DEF PromiseOK
<1>9. Waiting \subseteq FileUsed
  BY <1>8 DEF Offers
<1>10. flushed = -1
  BY <1>1 DEF PromiseOK
<1>11. n = Cardinality(FileUsed) * PieceLength
  BY <1>3, <1>4
<1> QED
  BY <1>2, <1>5, <1>6, <1>7, <1>8, <1>9, <1>10, <1>11

\* The first block of the file gives the first flags.
LEMMA FlagsBegin ==
  ASSUME ReaderTypes, check_resume_data, Len(file) \in Nat, Len(file) >= header_size
  PROVE  reader' = "flags" /\ loaded' = loaded /\ AtFlags'
<1>1. HeaderBlock <= Len(file) /\ file \in Seq(Cell)
  BY HeaderFits DEF ReaderTypes
<1>2. /\ reader' = "flags" /\ pos' = HeaderBlock /\ loaded' = loaded /\ file' = file
      /\ flags' = SubSeq(file, IntBytes + 1, Smaller(HeaderBlock, IntBytes + NumPieces))
  BY <1>1, HeaderFits DEF check_resume_data, fileVars
<1>3. PICK f : f = flags'
  OBVIOUS
<1>4. /\ Len(f) = Smaller(HeaderBlock, IntBytes + NumPieces) - IntBytes
      /\ \A j \in 1 .. Len(f) : f[j] = file[IntBytes + j]
  BY <1>1, <1>2, <1>3, FirstFlags
<1>5. CASE IntBytes + NumPieces <= HeaderBlock
  <2>1. Len(f) = NumPieces
    BY <1>4, <1>5, HeaderFits DEF Smaller
  <2> QED
    BY <1>2, <1>3, <1>4, <1>5, <2>1 DEF AtFlags
<1>6. CASE ~(IntBytes + NumPieces <= HeaderBlock)
  <2>1. HeaderBlock = IntBytes + Len(f)
    BY <1>4, <1>6, HeaderFits DEF Smaller
  <2> QED
    BY <1>2, <1>3, <1>4, <1>6, <2>1 DEF AtFlags
<1> QED
  BY <1>2, <1>5, <1>6

\* A further block gives the flags that follow.
LEMMA FlagsGoOn ==
  ASSUME ReaderTypes, AtFlags, RefillHeader, Len(file) \in Nat, Len(file) >= header_size
  PROVE  reader' = "flags" /\ loaded' = loaded /\ AtFlags'
<1>1. /\ file \in Seq(Cell) /\ flags \in Seq(Cell) /\ Len(flags) \in Nat /\ pos \in Nat
  BY LenProperties DEF ReaderTypes
<1>2. Len(flags) < NumPieces
  BY DEF RefillHeader
<1>3. ~(IntBytes + NumPieces <= HeaderBlock) /\ pos = IntBytes + Len(flags)
  BY <1>1, <1>2, HeaderFits DEF AtFlags
<1>4. PICK n : n = Smaller(NumPieces - Len(flags), HeaderBlock)
  OBVIOUS
<1>5. n \in Nat /\ n <= NumPieces - Len(flags)
  BY <1>1, <1>2, <1>4, HeaderFits DEF Smaller
<1>6. pos + n <= Len(file)
  BY <1>1, <1>3, <1>5, HeaderFits
<1>7. /\ reader' = "flags" /\ loaded' = loaded /\ file' = file /\ pos' = pos + n
      /\ flags' = flags \o SubSeq(file, pos + 1, pos + n)
  <2>1. ~(Len(file) < pos + n)
    BY <1>1, <1>5, <1>6
  <2> QED
    BY <1>4, <2>1 DEF RefillHeader, fileVars
<1>8. PICK f : f = flags'
  OBVIOUS
<1>9. /\ Len(f) = Len(flags) + n
      /\ \A j \in 1 .. Len(flags) : f[j] = flags[j]
      /\ \A j \in 1 .. n : f[Len(flags) + j] = file[pos + j]
  <2>1. f = flags \o SubSeq(file, pos + 1, pos + n)
    BY <1>7, <1>8
  <2> QED
    BY <1>1, <1>2, <1>4, <1>6, <2>1, MoreFlags, ZenonT(60)
<1>10. ASSUME NEW j \in 1 .. Len(f) PROVE f[j] = file[IntBytes + j]
  <2>1. CASE j \in 1 .. Len(flags)
    BY <1>9, <2>1 DEF AtFlags
  <2>2. CASE j \notin 1 .. Len(flags)
    <3>1. PICK i \in 1 .. n : j = Len(flags) + i
      <4>1. j - Len(flags) \in 1 .. n /\ j = Len(flags) + (j - Len(flags))
        BY <1>1, <1>5, <1>9, <2>2
      <4> QED
        BY <4>1
    <3>2. pos + i = IntBytes + j
      BY <1>1, <1>3, <1>5, <3>1, HeaderFits
    <3> QED
      BY <1>9, <3>1, <3>2
  <2> QED
    BY <2>1, <2>2
<1>11. pos' = IntBytes + Len(f)
  BY <1>1, <1>3, <1>5, <1>7, <1>9, HeaderFits
<1> QED
  BY <1>3, <1>7, <1>8, <1>10, <1>11 DEF AtFlags

\* With all flags read the reader stands at the first piece, if the data is aligned.
LEMMA PiecesBegin ==
  ASSUME MemoryTypes, ReaderTypes, UntouchedOK, AtFlags, Aligned, FlagsRead,
         Waiting' \subseteq FileUsed
  PROVE  reader' = "pieces" /\ loaded' = loaded /\ AtPieces'
<1>1. /\ reader = "flags" /\ reader' = "pieces" /\ loaded' = loaded /\ file' = file
      /\ pos' = pos /\ hold' = hold
      /\ todo' = {p \in Pieces : flags[p + 1] # HeaderCell("zero")}
  BY DEF FlagsRead, fileVars
<1>2. Len(flags) \in Nat /\ Len(flags) <= NumPieces /\ Len(flags) >= NumPieces
  BY LenProperties DEF ReaderTypes, FlagsRead
<1>3. Len(flags) = NumPieces
  BY <1>2, HeaderFits
<1>4. pos = header_size
  BY <1>3 DEF AtFlags, Aligned, DataRead
<1>5. \A p \in Pieces : flags[p + 1] = file[IntBytes + p + 1]
  <2> SUFFICES ASSUME NEW p \in Pieces PROVE flags[p + 1] = file[IntBytes + p + 1]
    OBVIOUS
  <2>1. p + 1 \in 1 .. Len(flags) /\ IntBytes + (p + 1) = IntBytes + p + 1
    BY <1>3, HeaderFits DEF Pieces
  <2>2. flags[p + 1] = file[IntBytes + (p + 1)]
    BY <2>1 DEF AtFlags
  <2> QED
    BY <2>1, <2>2
<1>6. PICK u : u = FileUsed
  OBVIOUS
<1>7. todo' = u /\ FileUsed' = u
  BY <1>1, <1>5, <1>6 DEF FileUsed
<1>8. hold' = <<>> /\ Len(<<>>) = 0
  BY <1>1 DEF UntouchedOK
<1>9. u \ u = {} /\ Cardinality({}) = 0
  BY FS_EmptySet
<1>10. header_size + 0 * PieceLength + 0 = header_size
  BY HeaderFits
<1>11. pos' = header_size + Cardinality(u \ u) * PieceLength + Len(hold')
  BY <1>1, <1>4, <1>8, <1>9, <1>10
<1>12. \A k \in 1 .. Len(hold') : FALSE
  BY <1>8
<1> QED
  BY <1>1, <1>6, <1>7, <1>9, <1>11, <1>12 DEF AtPieces

\* Of the pieces of the file some are left, so its slot is in the file.
LEMMA SlotInFile ==
  ASSUME FileUsed \subseteq Pieces, todo \subseteq FileUsed, todo # {}
  PROVE  \E a \in Nat, m \in Nat :
           /\ a = Cardinality(FileUsed \ todo) * PieceLength
           /\ m = Cardinality(FileUsed) * PieceLength
           /\ a + PieceLength <= m
<1>1. FileUsed \ todo \in SUBSET FileUsed /\ FileUsed \ todo # FileUsed
  OBVIOUS
<1>2. IsFiniteSet(FileUsed) /\ Cardinality(FileUsed) \in Nat
  BY FinitePieces
<1>3. Cardinality(FileUsed \ todo) \in Nat /\ Cardinality(FileUsed \ todo) < Cardinality(FileUsed)
  BY <1>1, <1>2, FS_Subset, FS_CardinalityType
<1>4. PICK r \in Nat : r = Cardinality(FileUsed \ todo)
  BY <1>3
<1>5. PICK u \in Nat : u = Cardinality(FileUsed)
  BY <1>2
<1>6. r + 1 <= u /\ r + 1 \in Nat /\ PieceLength \in Nat
  BY <1>3, <1>4, <1>5, HeaderFits
<1>7. (r + 1) * PieceLength <= u * PieceLength /\ u * PieceLength \in Nat
  BY <1>6, Grows
<1>8. (r + 1) * PieceLength = r * PieceLength + PieceLength /\ r * PieceLength \in Nat
  BY <1>6
<1> QED
  BY <1>4, <1>5, <1>7, <1>8

\* The slot of the smallest piece left is read whole.
LEMMA PieceIsRead ==
  ASSUME MemoryTypes, ReaderTypes, AtPieces, ReadSavedPiece, Waiting' \subseteq Waiting,
         FileUsed \subseteq Pieces,
         NEW n \in Nat, n = Cardinality(FileUsed) * PieceLength, Len(file) >= header_size + n,
         Len(file) \in Nat
  PROVE  reader' = "pieces" /\ loaded' = loaded /\ AtPieces'
<1>1. /\ todo # {} /\ hold = <<>> /\ reader = "pieces" /\ file' = file
  BY DEF ReadSavedPiece, fileVars
<1>2. todo \subseteq FileUsed /\ Waiting \subseteq todo /\ \A p \in FileUsed \ todo, q \in todo : p < q
  BY DEF AtPieces
<1>3. PICK a \in Nat : a = Cardinality(FileUsed \ todo) * PieceLength /\ a + PieceLength <= n
  BY <1>1, <1>2, SlotInFile
<1>4. Len(hold) = 0
  BY <1>1
<1>5. pos = header_size + a + Len(hold)
  BY <1>3 DEF AtPieces
<1>6. pos = header_size + a /\ pos \in Nat
  BY <1>4, <1>5, <1>3, HeaderFits
<1>7. pos + PieceLength <= Len(file)
  BY <1>3, <1>6, HeaderFits
<1>8. /\ hold' = SubSeq(file, pos + 1, pos + PieceLength)
      /\ pos' = pos + PieceLength
      /\ UNCHANGED <<reader, todo, loaded>>
  BY <1>6, <1>7, HeaderFits DEF ReadSavedPiece
<1>9. PICK h : h = hold'
  OBVIOUS
<1>10. Len(h) = PieceLength /\ \A j \in 1 .. PieceLength : h[j] = file[pos + j]
  BY <1>6, <1>7, <1>8, <1>9, NextSlot DEF ReaderTypes
<1>11. pos' - Len(h) = pos
  BY <1>6, <1>8, <1>10, HeaderFits
<1>12. \A j \in 1 .. Len(h) : h[j] = file[pos' - Len(h) + j]
  BY <1>10, <1>11
<1>13. PICK u : u = FileUsed
  OBVIOUS
<1>14. FileUsed' = u
  BY <1>1, <1>13 DEF FileUsed
<1>15. pos' = header_size + a + Len(h)
  BY <1>6, <1>8, <1>10
<1>16. pos' = header_size + Cardinality(u \ todo) * PieceLength + Len(h)
  BY <1>3, <1>13, <1>15
<1> QED
  BY <1>1, <1>2, <1>8, <1>9, <1>12, <1>13, <1>14, <1>16 DEF AtPieces

\* The piece handed over is the one the slot is of, with the content of the file.
LEMMA SlotIsOf ==
  ASSUME AtPieces, FileUsed \subseteq Pieces, Len(hold) = PieceLength,
         NEW p \in todo, \A q \in todo : p <= q, Offers(p)
  PROVE  \A k \in Blocks(p) : ContentIn(p, k) = "good"
<1>1. todo \subseteq FileUsed /\ FileUsed \subseteq Nat /\ \A q \in FileUsed \ todo : q < p
  BY FinitePieces DEF AtPieces
<1>2. {q \in FileUsed : q < p} = FileUsed \ todo
  <2>1. \A q \in FileUsed : q < p => q \notin todo
    BY <1>1
  <2> QED
    BY <1>1, <2>1
<1>3. FileRank(p) = Cardinality(FileUsed \ todo)
  BY <1>2 DEF FileRank
<1>4. Cardinality(FileUsed \ todo) \in Nat
  BY FinitePieces
<1>5. PICK r \in Nat : r = FileRank(p)
  BY <1>3, <1>4
<1>6. PICK a \in Nat : a = r * PieceLength
  BY <1>5, HeaderFits
<1>7. pos = header_size + a + PieceLength
  BY <1>3, <1>5, <1>6 DEF AtPieces
<1>8. ASSUME NEW k \in Blocks(p) PROVE ContentIn(p, k) = "good"
  <2>1. k \in 0 .. PieceLength - 1
    BY BlockNumbers
  <2>2. k + 1 \in 1 .. Len(hold) /\ pos - Len(hold) + (k + 1) = header_size + a + k + 1
    BY <1>7, <2>1, HeaderFits
  <2>3. hold[k + 1] = file[pos - Len(hold) + (k + 1)]
    BY <2>2 DEF AtPieces
  <2>4. file[header_size + a + k + 1] = <<p, k, "good">>
    BY <1>5, <1>6 DEF Offers
  <2> QED
    BY <2>2, <2>3, <2>4 DEF ContentIn
<1> QED
  BY <1>8

\* A promised piece that waits is delivered when it is handed over.
LEMMA HandedOver ==
  ASSUME MemoryTypes, ReaderTypes, Kept, UntouchedOK, AtPieces, ~loaded, FileUsed \subseteq Pieces,
         NEW p \in todo, add_piece(p), Offers(p)
  PROVE  Delivered(p)'
<1>1. /\ reader = "pieces" /\ hold # <<>> /\ \A q \in todo : p <= q
  BY DEF add_piece
<1>2. Len(hold) = PieceLength
  BY <1>1, EmptySeq, LenProperties DEF ReaderTypes
<1>3. \A k \in Blocks(p) : ContentIn(p, k) = "good"
  BY <1>1, <1>2, SlotIsOf
<1>4. received[p] = {} /\ received \in [Pieces -> SUBSET Int] /\ p \in Pieces
  BY <1>1 DEF UntouchedOK, Kept
<1>5. 0 \in Blocks(p)
  BY BlockNumbers
<1>6. p \notin have
  BY <1>4, <1>5 DEF UntouchedOK
<1>7. Blocks(p) \ received[p] = Blocks(p)
  BY <1>4
<1>8. PICK blocks : blocks = [k \in Blocks(p) |-> ContentIn(p, k)]
  OBVIOUS
<1>9. writev(p, blocks) /\ received' = [received EXCEPT ![p] = Blocks(p)]
  BY <1>5, <1>6, <1>7, <1>8 DEF add_piece
<1>10. DOMAIN blocks = Blocks(p) /\ \A k \in Blocks(p) : blocks[k] = "good"
  BY <1>3, <1>8
<1>11. p \in DOMAIN m_file_data' /\ p \notin m_invalid' /\ m_file_data'[p] = Written(p, blocks)
  BY <1>9 DEF writev, Put
<1>12. \A k \in Blocks(p) : Written(p, blocks)[k] = "good"
  BY <1>10 DEF Written
<1>13. received'[p] = Blocks(p)
  BY <1>4, <1>9
<1> QED
  BY <1>11, <1>12, <1>13 DEF Delivered, Readable

\* Handing a piece over leaves the reader at the next one.
LEMMA NextPiece ==
  ASSUME MemoryTypes, ReaderTypes, AtPieces, FileUsed \subseteq Pieces,
         NEW p \in todo, add_piece(p), Waiting' \subseteq Waiting, p \notin Waiting'
  PROVE  reader' = "pieces" /\ loaded' = loaded /\ AtPieces'
<1>1. /\ reader = "pieces" /\ hold # <<>> /\ \A q \in todo : p <= q
      /\ todo' = todo \ {p} /\ hold' = <<>> /\ UNCHANGED <<file, reader, pos, loaded>>
  BY DEF add_piece, fileVars
<1>2. Len(hold) = PieceLength /\ Len(<<>>) = 0
  BY <1>1, EmptySeq, LenProperties DEF ReaderTypes
<1>3. todo \subseteq FileUsed /\ Waiting \subseteq todo /\ \A q \in FileUsed \ todo, r \in todo : q < r
  BY DEF AtPieces
<1>4. PICK u : u = FileUsed
  OBVIOUS
<1>5. u \subseteq Nat /\ FileUsed' = u /\ p \in u \ todo' /\ p \in u
  BY <1>1, <1>3, <1>4, FinitePieces DEF FileUsed
<1>6. u \ todo' = (u \ todo) \union {p} /\ p \notin u \ todo
  BY <1>1, <1>3, <1>4
<1>7. IsFiniteSet(u \ todo) /\ Cardinality(u \ todo) \in Nat
  BY <1>4, FinitePieces
<1>8. Cardinality(u \ todo') = Cardinality(u \ todo) + 1
  BY <1>6, <1>7, FS_AddElement
<1>9. PICK r \in Nat : r = Cardinality(u \ todo)
  BY <1>7
<1>10. pos = header_size + r * PieceLength + PieceLength
  BY <1>2, <1>4, <1>9 DEF AtPieces
<1>11. (r + 1) * PieceLength = r * PieceLength + PieceLength /\ r * PieceLength \in Nat
  BY <1>9, HeaderFits
<1>12. pos = header_size + (r + 1) * PieceLength + 0
  BY <1>10, <1>11, HeaderFits
<1>13. pos' = header_size + Cardinality(u \ todo') * PieceLength + Len(hold')
  BY <1>1, <1>2, <1>8, <1>9, <1>12
<1>14. ASSUME NEW q \in u \ todo', NEW s \in todo' PROVE q < s
  <2>1. s \in todo /\ p <= s /\ s # p /\ p \in Nat /\ s \in Nat
    BY <1>1, <1>3, <1>4, <1>5
  <2>2. CASE q = p
    BY <2>1, <2>2
  <2>3. CASE q # p
    BY <1>3, <1>4, <1>6, <2>1, <2>3
  <2> QED
    BY <2>2, <2>3
<1>15. todo' \subseteq u /\ Waiting' \subseteq todo'
  BY <1>1, <1>3, <1>4
<1>16. \A k \in 1 .. Len(hold') : FALSE
  BY <1>1, <1>2
<1> QED
  BY <1>1, <1>5, <1>13, <1>14, <1>15, <1>16 DEF AtPieces

\* Every step keeps the reader on its way to the promised pieces that wait.
LEMMA ReaderKept ==
  ASSUME MemoryTypes, ReaderTypes, Kept, UntouchedOK, PromiseOK, ReaderOK, [Next]_vars
  PROVE  ReaderOK'
<1> USE DEF storageVars, sessionVars, fileVars, readerVars
<1>1. CASE Crash
  BY <1>1 DEF Crash, ReaderOK
<1>2. CASE ~Crash /\ Aligned /\ Waiting' # {}
  <2>1. Waiting' \subseteq Waiting
    BY <1>2, WaitingShrinks
  <2>2. Waiting # {} /\ ~loaded
    BY <1>2, <2>1 DEF ReaderOK
  <2>3. /\ reader = "flags" => AtFlags
        /\ reader = "pieces" => AtPieces
    BY <1>2, <2>2 DEF ReaderOK
  <2>4. /\ flushed = -1 /\ \A p \in Waiting : Offers(p)
        /\ FileUsed \subseteq Pieces /\ Waiting \subseteq FileUsed
        /\ Len(file) \in Nat /\ Len(file) >= header_size
    BY <2>2, FileComplete
  <2>5. PICK n \in Nat : n = Cardinality(FileUsed) * PieceLength /\ Len(file) >= header_size + n
    BY <2>2, FileComplete
  <2>6. ASSUME UNCHANGED <<file, readerVars>> PROVE ReaderOK'
    <3>1. FileUsed' = FileUsed
      BY <2>6 DEF FileUsed
    <3>2. AtFlags => AtFlags'
      BY <2>6 DEF AtFlags
    <3>3. AtPieces => AtPieces'
      BY <2>1, <2>6, <3>1 DEF AtPieces
    <3> QED
      BY <2>2, <2>3, <2>6, <3>2, <3>3 DEF ReaderOK
  <2>7. ASSUME reader' = "flags", loaded' = loaded, AtFlags' PROVE ReaderOK'
    BY <2>2, <2>7 DEF ReaderOK
  <2>8. ASSUME reader' = "pieces", loaded' = loaded, AtPieces' PROVE ReaderOK'
    BY <2>2, <2>8 DEF ReaderOK
  <2>9. CASE SessionThread \/ UNCHANGED vars
    <3>1. ~release_files
      BY <1>2 DEF release_files, Waiting
    <3>2. ~Write /\ ~WriteFails
      BY <2>4 DEF Write, WriteFails
    <3>3. ~FlushDone
      BY <2>4, ImageTypes DEF FlushDone, MemoryTypes
    <3> QED
      BY <2>6, <2>9, <3>1, <3>2, <3>3 DEF SessionThread, HashPiece, DownloadBlock, vars
  <2>10. CASE check_resume_data
    BY <2>4, <2>7, <2>10, FlagsBegin
  <2>11. CASE RefillHeader
    <3>1. reader = "flags"
      BY <2>11 DEF RefillHeader
    <3> QED
      BY <2>3, <2>4, <2>7, <2>11, <3>1, FlagsGoOn
  <2>12. CASE FlagsRead
    <3>1. reader = "flags"
      BY <2>12 DEF FlagsRead
    <3>2. Waiting' \subseteq FileUsed
      BY <2>1, <2>4
    <3> QED
      BY <1>2, <2>3, <2>8, <2>12, <3>1, <3>2, PiecesBegin
  <2>13. CASE ReadSavedPiece
    <3>1. reader = "pieces"
      BY <2>13 DEF ReadSavedPiece
    <3> QED
      BY <2>1, <2>3, <2>4, <2>5, <2>8, <2>13, <3>1, PieceIsRead
  <2>14. ASSUME NEW p \in todo, add_piece(p) PROVE ReaderOK'
    <3>1. reader = "pieces" /\ AtPieces
      BY <2>3, <2>14 DEF add_piece
    <3>2. p \notin Waiting'
      <4>1. CASE p \in Waiting
        <5>1. Offers(p)
          BY <2>4, <4>1
        <5>2. Delivered(p)'
          BY <2>2, <2>4, <2>14, <3>1, <5>1, HandedOver
        <5> QED
          BY <5>2 DEF Waiting
      <4>2. CASE p \notin Waiting
        BY <2>1, <4>2
      <4> QED
        BY <4>1, <4>2
    <3> QED
      BY <2>1, <2>4, <2>8, <2>14, <3>1, <3>2, NextPiece
  <2>15. CASE ReadDone
    <3>1. todo = {} /\ reader = "pieces"
      BY <2>15 DEF ReadDone
    <3> QED
      BY <2>2, <2>3, <3>1 DEF AtPieces
  <2> QED
    BY <1>2, <2>9, <2>10, <2>11, <2>12, <2>13, <2>14, <2>15 DEF Next, MainThread
<1>3. CASE ~Crash /\ ~(Aligned /\ Waiting' # {})
  <2>1. Aligned' <=> Aligned
    BY DEF Aligned, DataRead, header_size
  <2> QED
    BY <1>3, <2>1 DEF ReaderOK
<1> QED
  BY <1>1, <1>2, <1>3

\* A program that has not started promises nothing.
LEMMA InitPromise == Init => PromiseOK /\ UntouchedOK /\ ReaderOK
<1> SUFFICES ASSUME Init PROVE PromiseOK /\ UntouchedOK /\ ReaderOK
  OBVIOUS
<1>1. promised = {}
  BY DEF Init
<1>2. \A p \in Pieces : received[p] = {}
  BY DEF Init
<1>3. have = {} /\ hold = <<>> /\ reader = "due"
  BY DEF Init
<1>4. PromiseOK /\ ReaderOK
  BY <1>1 DEF PromiseOK, ReaderOK, Waiting
<1>5. UntouchedOK
  BY <1>2, <1>3 DEF UntouchedOK
<1> QED
  BY <1>4, <1>5

\* Where the data is read where it was written, a run of the program that finds a file
\* written to its end is given every piece that was verified then.
THEOREM SavedComesBack == Spec => []AlignedFileResumed
<1> DEFINE I == /\ MemoryTypes /\ ReaderTypes /\ Kept /\ WrittenSoFar
                /\ PromiseOK /\ UntouchedOK /\ ReaderOK
<1>1. Init => I
  BY InitTypes, InitKept, InitWritten, InitPromise
<1>2. I /\ [Next]_vars => I'
  BY StepMemory, StepReader, StepKept, StepWritten, PromiseKept, UntouchedKept, ReaderKept
<1>3. I => AlignedFileResumed
  BY DEF AlignedFileResumed, Resumed, ReaderOK, Waiting, Delivered
<1> QED
  BY <1>1, <1>2, <1>3, PTL DEF Spec
=============================================================================
