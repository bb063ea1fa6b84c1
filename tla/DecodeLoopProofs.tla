-------------------------- MODULE DecodeLoopProofs ---------------------------
(***************************************************************************)
(* Proofs about DecodeLoop, for every size of the grid, every layout of    *)
(* the clusters, every size of the picture and any errors of the decoders. *)
(***************************************************************************)
EXTENDS DecodeLoop, FiniteSetTheorems, SequenceTheorems, WellFoundedInduction, TLAPS

-----------------------------------------------------------------------------
(* The inductive invariant.                                                *)

\* The functions of a cluster have one value for each.
Shape ==
  /\ TypeOK
  /\ blockVt \in [Clusters -> Nat]
  /\ sent \in [Clusters -> Seq(Nat)]

\* There is a verdict in the end only, and parts are sent of an animation with a picture.
ResultOK ==
  /\ step # "ended" => verdict = "none"
  /\ step \notin {"send", "ended"} => parts = 0
  /\ step = "send" => frame_cnt > 0
  /\ ReportedAsSent
  /\ SafeOnTrack

\* Clusters are set up in turn, and have a block as long as pictures are made.
SetUpOK ==
  /\ step = "setup" => \A c \in Clusters : IF c < i THEN blockVt[c] # 0
                                           ELSE blockVt[c] = 0 /\ sent[c] = <<>>
  /\ step \in {"decode", "draw", "add"} => \A c \in Clusters : blockVt[c] # 0

\* How many frames the clusters gave, while the picture after frame_cnt is made.
GivenOK ==
  /\ step = "setup" => frame_cnt = 0 /\ \A c \in Clusters : given[c] = 0
  /\ step \in {"decode", "finish", "send"} =>
       \A c \in Clusters : given[c] = IF c < i THEN frame_cnt + 1 ELSE frame_cnt
  /\ step = "draw" =>
       \A c \in Clusters : given[c] = IF c <= i THEN frame_cnt + 1 ELSE frame_cnt
  /\ step = "add" => i = 0 /\ \A c \in Clusters : given[c] = frame_cnt + 1

\* The blocks of a cluster that have been sent to its decoder, if they are of its track.
Behind(c, b) == b < blockVt[c] \/ (b = blockVt[c] /\ ~needPacketVt[c])

\* A decoder has been sent the blocks of the track up to the current one, in order.
Fed(c) ==
  /\ \A k \in DOMAIN sent[c] : OfTrack(c, sent[c][k])
  /\ \A k, l \in DOMAIN sent[c] : k < l => sent[c][k] < sent[c][l]
  /\ \A k \in DOMAIN sent[c] : \A b \in 1 .. sent[c][k] :
       OfTrack(c, b) => \E l \in 1 .. k : sent[c][l] = b
  /\ blockVt[c] # 0 =>
       /\ \A b \in 1 .. Len(layout[c]) :
            OfTrack(c, b) /\ Behind(c, b) => \E l \in DOMAIN sent[c] : sent[c][l] = b
       /\ \A k \in DOMAIN sent[c] : Behind(c, sent[c][k])

FedOK == \A c \in Clusters : Fed(c)

\* The cells drawn so far show the frame of the picture that is made.
Shows(c) == \A p \in Cell(c) : imageData[p] = frame_cnt + 1
PictureOK ==
  /\ step \in {"decode", "draw"} => \A c \in Clusters : c < i => Shows(c)
  /\ step = "add" => \A c \in Clusters : Shows(c)

Inv == Shape /\ ResultOK /\ SetUpOK /\ GivenOK /\ FedOK /\ PictureOK

-----------------------------------------------------------------------------
(* Arithmetic.                                                             *)

\* A product grows with its factors.
LEMMA Grows ==
  ASSUME NEW a \in Nat, NEW b \in Nat, NEW c \in Nat, a <= b
  PROVE  a * c <= b * c /\ a * c \in Nat /\ b * c \in Nat
<1>1. PICK d \in Nat : b = a + d
  <2>1. b - a \in Nat /\ b = a + (b - a)
    OBVIOUS
  <2> QED
    BY <2>1
<1>2. d * c \in Nat /\ a * c \in Nat
  OBVIOUS
<1>3. b * c = a * c + d * c
  BY <1>1
<1> QED
  BY <1>2, <1>3

\* Quotient and remainder.
LEMMA DivMod ==
  ASSUME NEW a \in Nat, NEW b \in Nat \ {0}
  PROVE  /\ a \div b \in Nat
         /\ a % b \in 0 .. b - 1
         /\ a = (a \div b) * b + (a % b)
<1>1. a \div b \in Nat
  OBVIOUS
<1>2. a % b \in 0 .. b - 1
  OBVIOUS
<1>3. a = b * (a \div b) + (a % b)
  OBVIOUS
<1>4. \A x \in Nat : b * x = x * b
  OBVIOUS
<1> QED
  BY <1>1, <1>2, <1>3, <1>4

\* The two digits of a number.
LEMMA Digits ==
  ASSUME NEW a \in Nat, NEW b \in Nat \ {0}
  PROVE  \E q \in Nat, r \in Nat : q = a \div b /\ r = a % b /\ r < b /\ a = q * b + r
<1>1. PICK q \in Nat : q = a \div b
  BY DivMod
<1>2. PICK r \in 0 .. b - 1 : r = a % b
  BY DivMod
<1>3. r \in Nat /\ r < b
  OBVIOUS
<1>4. a = q * b + r
  BY <1>1, <1>2, DivMod
<1> QED
  BY <1>1, <1>2, <1>3, <1>4

\* There is one way to write a number with a digit below b.
LEMMA UniqueDigits ==
  ASSUME NEW b \in Nat, NEW q \in Nat, NEW s \in Nat, NEW r \in Nat, NEW t \in Nat,
         r < b, t < b, q * b + r = s * b + t
  PROVE  q = s /\ r = t
<1>1. ASSUME q < s PROVE FALSE
  <2>1. q + 1 <= s /\ q + 1 \in Nat
    BY <1>1
  <2>2. (q + 1) * b <= s * b
    BY <2>1, Grows
  <2>3. (q + 1) * b = q * b + b
    OBVIOUS
  <2>4. q * b \in Nat /\ s * b \in Nat
    OBVIOUS
  <2> QED
    BY <2>2, <2>3, <2>4
<1>2. ASSUME s < q PROVE FALSE
  <2>1. s + 1 <= q /\ s + 1 \in Nat
    BY <1>2
  <2>2. (s + 1) * b <= q * b
    BY <2>1, Grows
  <2>3. (s + 1) * b = s * b + b
    OBVIOUS
  <2>4. q * b \in Nat /\ s * b \in Nat
    OBVIOUS
  <2> QED
    BY <2>2, <2>3, <2>4
<1>3. q = s
  BY <1>1, <1>2
<1>4. q * b \in Nat
  OBVIOUS
<1> QED
  BY <1>3, <1>4

\* A number of two digits is below the bound of its first digit times the base.
LEMMA TwoDigits ==
  ASSUME NEW b \in Nat, NEW n \in Nat, NEW q \in Nat, NEW r \in Nat, q < n, r < b
  PROVE  q * b + r \in Nat /\ q * b + r < n * b
<1>1. (q + 1) * b <= n * b
  BY Grows
<1>2. (q + 1) * b = q * b + b /\ q * b \in Nat /\ n * b \in Nat
  OBVIOUS
<1> QED
  BY <1>1, <1>2

\* The clusters are numbered from 0, row by row.
LEMMA ClusterNumbers ==
  /\ 0 \in Clusters /\ Clusters \subseteq Nat
  /\ GridSize * GridSize - 1 \in Clusters
  /\ \A c \in Clusters : c # GridSize * GridSize - 1 => c + 1 \in Clusters
<1>1. GridSize \in Nat /\ 1 <= GridSize
  BY DecodeAssumption
<1>2. 1 * GridSize <= GridSize * GridSize /\ GridSize * GridSize \in Nat
  BY <1>1, Grows
<1>3. PICK d \in Nat : d = GridSize * GridSize
  BY <1>2
<1>4. d >= 1
  BY <1>1, <1>2, <1>3
<1>5. Clusters = 0 .. d - 1
  BY <1>3 DEF Clusters
<1> QED
  BY <1>3, <1>4, <1>5

\* The row and the column of a cluster.
LEMMA ClusterDigits ==
  ASSUME NEW c \in Clusters
  PROVE  /\ c \div GridSize \in 0 .. GridSize - 1
         /\ c % GridSize \in 0 .. GridSize - 1
         /\ c = (c \div GridSize) * GridSize + (c % GridSize)
<1>1. GridSize \in Nat \ {0} /\ c \in Nat
  BY DecodeAssumption, ClusterNumbers
<1>2. /\ c \div GridSize \in Nat
      /\ c % GridSize \in 0 .. GridSize - 1
      /\ c = (c \div GridSize) * GridSize + (c % GridSize)
  BY <1>1, DivMod
<1>3. PICK q \in Nat : q = c \div GridSize
  BY <1>2
<1>4. PICK d \in Nat : d = GridSize * GridSize
  BY <1>1, Grows
<1>5. c <= d - 1
  BY <1>4 DEF Clusters
<1>6. q >= GridSize => d <= q * GridSize /\ q * GridSize \in Nat
  BY <1>1, <1>4, Grows
<1>7. q < GridSize
  <2>1. PICK r \in Nat : r = c % GridSize
    BY <1>1, <1>2
  <2>2. c = q * GridSize + r
    BY <1>2, <1>3, <2>1
  <2> QED
    BY <1>1, <1>5, <1>6, <2>2
<1> QED
  BY <1>1, <1>2, <1>3, <1>7

-----------------------------------------------------------------------------
(* The cells of the picture.                                               *)

\* The grid fits into the picture.
LEMMA GridFits ==
  ASSUME size \in Sizes
  PROVE  /\ Width \in Nat /\ Height \in Nat /\ FrameWidth \in Nat /\ FrameHeight \in Nat
         /\ GridSize * FrameWidth <= Width
         /\ GridSize * FrameHeight <= Height
<1>1. Width \in Nat /\ Height \in Nat /\ GridSize \in Nat \ {0}
  BY DecodeAssumption DEF Width, Height
<1>2. ASSUME NEW w \in Nat PROVE w \div GridSize \in Nat /\ GridSize * (w \div GridSize) <= w
  <2>1. PICK q \in Nat, r \in Nat : q = w \div GridSize /\ w = q * GridSize + r
    BY <1>1, DivMod
  <2>2. q * GridSize = GridSize * q /\ q * GridSize \in Nat
    BY <1>1
  <2> QED
    BY <2>1, <2>2
<1> QED
  BY <1>1, <1>2 DEF FrameWidth, FrameHeight

\* The pixel in row hi and column x of the cell of cluster c.
Row(c, hi) == (c \div GridSize) * FrameHeight + hi
Column(c, x) == (c % GridSize) * FrameWidth + x

\* A cell holds its rows of its columns.
LEMMA CellPixels ==
  ASSUME size \in Sizes, NEW c \in Clusters
  PROVE  \A p : p \in Cell(c) <=>
           \E hi \in 0 .. FrameHeight - 1, x \in 0 .. FrameWidth - 1 :
             p = Row(c, hi) * Width + Column(c, x)
<1>1. PICK oh \in Nat, ow \in Nat : oh = c \div GridSize /\ ow = c % GridSize
  BY ClusterDigits
<1>2. Width \in Nat /\ FrameWidth \in Nat /\ FrameHeight \in Nat
  BY GridFits
<1>3. ASSUME NEW hi \in Nat, NEW x \in Nat
      PROVE  oh * FrameHeight * Width + ow * FrameWidth + hi * Width + x
               = Row(c, hi) * Width + Column(c, x)
  <2>1. PICK a \in Nat : a = oh * FrameHeight
    BY <1>2
  <2>2. PICK b \in Nat : b = ow * FrameWidth
    BY <1>2
  <2>3. (a + hi) * Width = a * Width + hi * Width /\ a * Width \in Nat /\ hi * Width \in Nat
    BY <1>2
  <2>4. Row(c, hi) = a + hi /\ Column(c, x) = b + x
    BY <1>1, <2>1, <2>2 DEF Row, Column
  <2> QED
    BY <2>1, <2>2, <2>3, <2>4
<1>4. \A hi \in 0 .. FrameHeight - 1, x \in 0 .. FrameWidth - 1 : hi \in Nat /\ x \in Nat
  BY <1>2
<1> QED
  BY <1>1, <1>3, <1>4 DEF Cell

\* A pixel of a cell is in a row and a column of the picture.
LEMMA InPicture ==
  ASSUME size \in Sizes, NEW c \in Clusters,
         NEW hi \in 0 .. FrameHeight - 1, NEW x \in 0 .. FrameWidth - 1
  PROVE  /\ Row(c, hi) \in Nat /\ Row(c, hi) < Height
         /\ Column(c, x) \in Nat /\ Column(c, x) < Width
<1>1. PICK oh \in Nat, ow \in Nat :
        oh = c \div GridSize /\ ow = c % GridSize /\ oh < GridSize /\ ow < GridSize
  BY ClusterDigits, DecodeAssumption
<1>2. /\ Width \in Nat /\ Height \in Nat /\ FrameWidth \in Nat /\ FrameHeight \in Nat
      /\ GridSize * FrameWidth <= Width /\ GridSize * FrameHeight <= Height
      /\ GridSize \in Nat
  BY GridFits, DecodeAssumption
<1>3. hi \in Nat /\ hi < FrameHeight /\ x \in Nat /\ x < FrameWidth
  BY <1>2
<1>4. oh * FrameHeight + hi \in Nat /\ oh * FrameHeight + hi < GridSize * FrameHeight
  BY <1>1, <1>2, <1>3, TwoDigits
<1>5. ow * FrameWidth + x \in Nat /\ ow * FrameWidth + x < GridSize * FrameWidth
  BY <1>1, <1>2, <1>3, TwoDigits
<1>6. GridSize * FrameHeight \in Nat /\ GridSize * FrameWidth \in Nat
  BY <1>2
<1> QED
  BY <1>1, <1>2, <1>4, <1>5, <1>6 DEF Row, Column

\* Every cell lies in the picture.
LEMMA CellInside ==
  ASSUME size \in Sizes, NEW c \in Clusters
  PROVE  Cell(c) \subseteq Pixels
<1> SUFFICES ASSUME NEW p \in Cell(c) PROVE p \in Pixels
  OBVIOUS
<1>1. PICK hi \in 0 .. FrameHeight - 1, x \in 0 .. FrameWidth - 1 :
        p = Row(c, hi) * Width + Column(c, x)
  BY CellPixels
<1>2. /\ Row(c, hi) \in Nat /\ Row(c, hi) < Height
      /\ Column(c, x) \in Nat /\ Column(c, x) < Width
  BY InPicture
<1>3. Width \in Nat /\ Height \in Nat
  BY GridFits
<1>4. p \in Nat /\ p < Height * Width
  BY <1>1, <1>2, <1>3, TwoDigits
<1>5. Height * Width = Width * Height /\ Width * Height \in Nat
  BY <1>3
<1> QED
  BY <1>4, <1>5 DEF Pixels

\* No pixel is in two cells.
LEMMA CellsApart ==
  ASSUME size \in Sizes, NEW c \in Clusters, NEW d \in Clusters, NEW p, p \in Cell(c), p \in Cell(d)
  PROVE  c = d
<1>0. /\ Width \in Nat /\ FrameWidth \in Nat /\ FrameHeight \in Nat
  BY GridFits
<1>1. PICK hi \in 0 .. FrameHeight - 1, x \in 0 .. FrameWidth - 1 :
        p = Row(c, hi) * Width + Column(c, x)
  BY CellPixels
<1>2. PICK hj \in 0 .. FrameHeight - 1, y \in 0 .. FrameWidth - 1 :
        p = Row(d, hj) * Width + Column(d, y)
  BY CellPixels
<1>3. /\ Row(c, hi) \in Nat /\ Column(c, x) \in Nat /\ Column(c, x) < Width
      /\ Row(d, hj) \in Nat /\ Column(d, y) \in Nat /\ Column(d, y) < Width
  BY InPicture
<1>4. Row(c, hi) = Row(d, hj) /\ Column(c, x) = Column(d, y)
  <2>1. PICK q \in Nat, s \in Nat, r \in Nat, t \in Nat :
          q = Row(c, hi) /\ s = Row(d, hj) /\ r = Column(c, x) /\ t = Column(d, y)
    BY <1>3
  <2>2. r < Width /\ t < Width /\ q * Width + r = s * Width + t
    BY <1>1, <1>2, <1>3, <2>1
  <2>3. q = s /\ r = t
    BY <1>0, <2>2, UniqueDigits
  <2> QED
    BY <2>1, <2>3
<1>5. PICK oh \in Nat, ow \in Nat :
        oh = c \div GridSize /\ ow = c % GridSize /\ c = oh * GridSize + ow
  BY ClusterDigits
<1>6. PICK ph \in Nat, pw \in Nat :
        ph = d \div GridSize /\ pw = d % GridSize /\ d = ph * GridSize + pw
  BY ClusterDigits
<1>7. /\ hi \in Nat /\ hi < FrameHeight /\ hj \in Nat /\ hj < FrameHeight
      /\ x \in Nat /\ x < FrameWidth /\ y \in Nat /\ y < FrameWidth
  BY <1>0
<1>8. oh * FrameHeight + hi = ph * FrameHeight + hj /\ ow * FrameWidth + x = pw * FrameWidth + y
  BY <1>4, <1>5, <1>6 DEF Row, Column
<1>9. oh = ph
  BY <1>0, <1>7, <1>8, UniqueDigits
<1>10. ow = pw
  BY <1>0, <1>7, <1>8, UniqueDigits
<1> QED
  BY <1>5, <1>6, <1>9, <1>10

\* Every place of the grid is in the cell of the cluster GridInStep says.
LEMMA PlaceInCell ==
  ASSUME size \in Sizes,
         NEW x \in 0 .. FrameWidth * GridSize - 1, NEW y \in 0 .. FrameHeight * GridSize - 1,
         NEW c, c = (y \div FrameHeight) * GridSize + x \div FrameWidth
  PROVE  c \in Clusters /\ y * Width + x \in Cell(c)
<1>0. /\ Width \in Nat /\ FrameWidth \in Nat /\ FrameHeight \in Nat /\ GridSize \in Nat \ {0}
  BY GridFits, DecodeAssumption
<1>1. FrameWidth * GridSize \in Nat /\ FrameHeight * GridSize \in Nat
  BY <1>0
<1>2. /\ x \in Nat /\ x < FrameWidth * GridSize /\ y \in Nat /\ y < FrameHeight * GridSize
  BY <1>1
<1>3. FrameWidth # 0 /\ FrameHeight # 0
  <2>1. 0 * GridSize = 0
    BY <1>0
  <2> QED
    BY <1>2, <2>1
<1>4. PICK ow \in Nat, u \in Nat : ow = x \div FrameWidth /\ u < FrameWidth /\ x = ow * FrameWidth + u
  <2>1. FrameWidth \in Nat \ {0}
    BY <1>0, <1>3
  <2> QED
    BY <1>2, <2>1, Digits
<1>5. PICK oh \in Nat, v \in Nat : oh = y \div FrameHeight /\ v < FrameHeight /\ y = oh * FrameHeight + v
  <2>1. FrameHeight \in Nat \ {0}
    BY <1>0, <1>3
  <2> QED
    BY <1>2, <2>1, Digits
<1>6. ow < GridSize
  <2>1. GridSize <= ow => GridSize * FrameWidth <= ow * FrameWidth
    BY <1>0, Grows
  <2>2. GridSize * FrameWidth = FrameWidth * GridSize /\ ow * FrameWidth \in Nat
    BY <1>0
  <2> QED
    BY <1>0, <1>1, <1>2, <1>4, <2>1, <2>2
<1>7. oh < GridSize
  <2>1. GridSize <= oh => GridSize * FrameHeight <= oh * FrameHeight
    BY <1>0, Grows
  <2>2. GridSize * FrameHeight = FrameHeight * GridSize /\ oh * FrameHeight \in Nat
    BY <1>0
  <2> QED
    BY <1>0, <1>1, <1>2, <1>5, <2>1, <2>2
<1>8. c = oh * GridSize + ow
  BY <1>4, <1>5
<1>9. c \in Nat /\ c < GridSize * GridSize
  BY <1>0, <1>6, <1>7, <1>8, TwoDigits
<1>10. c \in Clusters
  <2>1. PICK d \in Nat : d = GridSize * GridSize
    BY <1>0, Grows
  <2> QED
    BY <1>9, <2>1 DEF Clusters
<1>11. c \div GridSize = oh /\ c % GridSize = ow
  <2>1. PICK q \in Nat, r \in Nat :
          q = c \div GridSize /\ r = c % GridSize /\ r < GridSize /\ c = q * GridSize + r
    BY <1>0, <1>9, Digits
  <2> QED
    BY <1>0, <1>6, <1>8, <2>1, UniqueDigits
<1>12. Row(c, v) = y /\ Column(c, u) = x
  BY <1>4, <1>5, <1>11 DEF Row, Column
<1>13. v \in 0 .. FrameHeight - 1 /\ u \in 0 .. FrameWidth - 1
  BY <1>0, <1>4, <1>5
<1> QED
  BY <1>10, <1>12, <1>13, CellPixels

-----------------------------------------------------------------------------
(* Types.                                                                  *)

\* What the constants say of the layout and the size.
LEMMA InputTypes ==
  ASSUME Shape
  PROVE  /\ \A c \in Clusters : layout[c] \in Seq(Blocks) /\ Len(layout[c]) \in Nat
         /\ size \in Sizes
         /\ i \in Clusters /\ i \in Nat
<1>1. \A c \in Clusters : layout[c] \in Seq(Blocks)
  BY DecodeAssumption DEF Shape, TypeOK
<1>2. i \in Clusters /\ i \in Nat
  BY ClusterNumbers DEF Shape, TypeOK
<1> QED
  BY <1>1, <1>2, LenProperties DEF Shape, TypeOK

\* The cluster after one that is not the last.
LEMMA NextCluster ==
  ASSUME Shape
  PROVE  /\ (IF Last(i) THEN 0 ELSE i + 1) \in Clusters
         /\ ~Last(i) => \A c \in Clusters : c < i + 1 <=> c < i \/ c = i
         /\ Last(i) => \A c \in Clusters : c < i \/ c = i
<1>1. i \in Clusters /\ Clusters \subseteq Nat
  BY InputTypes, ClusterNumbers
<1>2. (IF Last(i) THEN 0 ELSE i + 1) \in Clusters
  BY <1>1, ClusterNumbers DEF Last
<1>3. Last(i) => \A c \in Clusters : c <= i
  <2>1. PICK d \in Int : d = GridSize * GridSize - 1
    BY DecodeAssumption
  <2> QED
    BY <1>1, <2>1 DEF Last, Clusters
<1> QED
  BY <1>1, <1>2, <1>3

\* The types of what a step leaves alone.
LEMMA InputKept ==
  ASSUME Shape, UNCHANGED inputVars
  PROVE  /\ layout' = layout /\ size' = size /\ layout' \in Layouts /\ size' \in Sizes
         /\ Width' = Width /\ Height' = Height /\ Pixels' = Pixels
         /\ FrameWidth' = FrameWidth /\ FrameHeight' = FrameHeight
         /\ \A c : Cell(c)' = Cell(c)
         /\ \A c, b : OfTrack(c, b)' <=> OfTrack(c, b)
<1>1. layout' = layout /\ size' = size
  BY DEF inputVars
<1>2. Width' = Width /\ Height' = Height
  BY <1>1 DEF Width, Height
<1>3. FrameWidth' = FrameWidth /\ FrameHeight' = FrameHeight /\ Pixels' = Pixels
  BY <1>2 DEF FrameWidth, FrameHeight, Pixels
<1>4. \A c : Cell(c)' = Cell(c)
  BY <1>2, <1>3 DEF Cell
<1>5. \A c, b : OfTrack(c, b)' <=> OfTrack(c, b)
  BY <1>1 DEF OfTrack
<1> QED
  BY <1>1, <1>2, <1>3, <1>4, <1>5 DEF Shape, TypeOK

\* The thread goes on to another step, with nothing else changed but cluster, result or
\* picture count.
LEMMA ShapeSame ==
  ASSUME Shape, UNCHANGED <<inputVars, blockVars, given, sent>>,
         step' \in {"setup", "decode", "draw", "add", "finish", "send", "ended"},
         i' \in Clusters, stuck' \subseteq Clusters, imageData' \in [Pixels -> Nat],
         frame_cnt' \in Nat, parts' \in 0 .. Parts,
         verdict' \in {"none", "success", "fail", "null block", "null scaler"},
         faults' \in 0 .. MaxFaults
  PROVE  Shape'
<1>1. /\ layout' = layout /\ size' = size /\ layout' \in Layouts /\ size' \in Sizes
      /\ Pixels' = Pixels
  BY InputKept
<1> QED
  BY <1>1 DEF Shape, TypeOK, blockVars

\* Every step keeps the types.
LEMMA ShapeKept ==
  ASSUME Shape, SetUpOK, Next
  PROVE  Shape'
<1> USE DEF inputVars, blockVars, decoderVars, pictureVars, resultVars
<1>0. /\ i \in Clusters /\ stuck \subseteq Clusters /\ imageData \in [Pixels -> Nat]
      /\ frame_cnt \in Nat /\ parts \in 0 .. Parts /\ faults \in 0 .. MaxFaults
      /\ step \in {"setup", "decode", "draw", "add", "finish", "send", "ended"}
      /\ verdict \in {"none", "success", "fail", "null block", "null scaler"}
      /\ given \in [Clusters -> Nat] /\ needPacketVt \in [Clusters -> BOOLEAN]
      /\ blockVt \in [Clusters -> Nat] /\ sent \in [Clusters -> Seq(Nat)]
      /\ \A c \in Clusters : blockVt[c] \in 0 .. Len(layout[c])
      /\ \A c \in Clusters : sent[c] \in Seq(1 .. Len(layout[c]))
      /\ MaxFaults \in Nat
  BY DecodeAssumption DEF Shape, TypeOK
<1>1. /\ \A c \in Clusters : layout[c] \in Seq(Blocks) /\ Len(layout[c]) \in Nat
      /\ (IF Last(i) THEN 0 ELSE i + 1) \in Clusters
  BY InputTypes, NextCluster
<1>14. frame_cnt + 1 \in Nat /\ given[i] + 1 \in Nat
  <2>1. frame_cnt \in Nat /\ given[i] \in Nat
    BY <1>0
  <2> QED
    BY <2>1
<1>15. (parts < Parts => parts + 1 \in 0 .. Parts) /\ (faults < MaxFaults => faults + 1 \in 0 .. MaxFaults)
  <2>1. parts \in 0 .. Parts /\ faults \in 0 .. MaxFaults /\ MaxFaults \in Nat
    BY <1>0
  <2> QED
    BY <2>1 DEF Parts
<1>16. blockVt[i] \in Nat /\ Len(layout[i]) \in Nat /\ blockVt[i] \in 0 .. Len(layout[i])
  BY <1>0, <1>1
<1>2. ASSUME NEW v \in {"success", "fail", "null block", "null scaler"}, Ends(v) PROVE Shape'
  BY <1>0, <1>2, ShapeSame DEF Ends
<1>3. CASE \/ SetUpFails \/ SendPacketFails \/ NullBlock \/ NullScaler \/ AddFrameFails
           \/ FinalizeFails \/ SendingThrows \/ process_final_success
  BY <1>2, <1>3 DEF SetUpFails, SendPacketFails, NullBlock, NullScaler, AddFrameFails,
                    FinalizeFails, SendingThrows, process_final_success
<1>4. CASE ReceiveEnd \/ finalize
  BY <1>0, <1>4, ShapeSame DEF ReceiveEnd, finalize
<1>5. CASE add_frame
  <2>1. frame_cnt' \in Nat
    BY <1>5, <1>14 DEF add_frame
  <2> QED
    BY <1>0, <1>5, <2>1, ShapeSame DEF add_frame
<1>6. CASE WritePart
  <2>1. parts' \in 0 .. Parts
    BY <1>6, <1>15 DEF WritePart
  <2> QED
    BY <1>0, <1>6, <2>1, ShapeSame DEF WritePart
<1>7. CASE ReceiveError
  <2>1. faults' \in 0 .. MaxFaults
    BY <1>7, <1>15 DEF ReceiveError
  <2>2. stuck' \subseteq Clusters
    BY <1>0, <1>7 DEF ReceiveError
  <2> QED
    BY <1>0, <1>7, <2>1, <2>2, ShapeSame DEF ReceiveError
<1>8. CASE DrawCell
  <2>1. imageData' \in [Pixels -> Nat]
    BY <1>0, <1>8 DEF DrawCell
  <2> QED
    BY <1>0, <1>1, <1>8, <2>1, ShapeSame DEF DrawCell
<1>9. CASE ReceiveFrame
  <2>1. given' \in [Clusters -> Nat]
    <3>1. given' = [given EXCEPT ![i] = given[i] + 1] /\ given \in [Clusters -> Nat] /\ i \in Clusters
      BY <1>0, <1>9 DEF ReceiveFrame
    <3> QED
      BY <1>14, <3>1
  <2> QED
    BY <1>0, <1>9, <2>1, InputKept DEF ReceiveFrame, Shape, TypeOK
<1>10. ASSUME NEW b \in 0 .. Len(layout[i]), NEW n \in BOOLEAN, blockVt' = [blockVt EXCEPT ![i] = b],
              needPacketVt' \in {needPacketVt, [needPacketVt EXCEPT ![i] = n]},
              sent' = sent \/ (b # 0 /\ sent' = [sent EXCEPT ![i] = Append(@, b)]),
              UNCHANGED <<inputVars, given, stuck, faults, pictureVars, resultVars>>,
              i' \in Clusters, step' \in {"setup", "decode", "finish"}
       PROVE  Shape'
  <2>1. blockVt' \in [Clusters -> Nat] /\ \A c \in Clusters : blockVt'[c] \in 0 .. Len(layout[c])
    <3>1. b \in Nat
      BY <1>16
    <3>2. blockVt \in [Clusters -> Nat] /\ i \in Clusters
      BY <1>0
    <3> QED
      BY <1>0, <1>10, <3>1, <3>2
  <2>2. needPacketVt' \in [Clusters -> BOOLEAN]
    BY <1>0, <1>10
  <2>3. sent' \in [Clusters -> Seq(Nat)] /\ \A c \in Clusters : sent'[c] \in Seq(1 .. Len(layout[c]))
    <3>1. CASE sent' = sent
      BY <1>0, <3>1
    <3>2. CASE b # 0 /\ sent' = [sent EXCEPT ![i] = Append(@, b)]
      <4>1. b \in Nat /\ b \in 1 .. Len(layout[i])
        BY <1>16, <3>2
      <4>2. Append(sent[i], b) \in Seq(Nat) /\ Append(sent[i], b) \in Seq(1 .. Len(layout[i]))
        BY <1>0, <4>1, AppendProperties
      <4> QED
        BY <1>0, <3>2, <4>2
    <3> QED
      BY <1>10, <3>1, <3>2
  <2> QED
    BY <1>0, <1>10, <2>1, <2>2, <2>3, InputKept DEF Shape, TypeOK
<1>11. CASE SetUpCluster
  <2>1. 1 \in 0 .. Len(layout[i])
    <3>1. layout[i] \in Seq(Blocks) /\ layout[i] # <<>>
      BY <1>0, <1>1, <1>11 DEF SetUpCluster
    <3>2. Len(layout[i]) \in Nat /\ Len(layout[i]) # 0
      BY <3>1, EmptySeq, LenProperties
    <3> QED
      BY <3>2
  <2> QED
    BY <1>1, <1>10, <1>11, <2>1 DEF SetUpCluster
<1>12. CASE avcodec_send_packet
  <2>1. PICK b \in NextBlock(i) :
          blockVt' = [blockVt EXCEPT ![i] = b] /\ sent' = [sent EXCEPT ![i] = Append(@, b)]
    BY <1>12 DEF avcodec_send_packet
  <2>2. b \in blockVt[i] .. Len(layout[i]) /\ blockVt[i] \in Nat
    BY <1>0, <2>1 DEF NextBlock
  <2> QED
    <3>1. b \in 0 .. Len(layout[i]) /\ b # 0
      <4>1. blockVt[i] # 0
        BY <1>0, <1>12 DEF SetUpOK, avcodec_send_packet
      <4> QED
        BY <1>16, <2>2, <4>1
    <3>2. step' = step /\ step = "decode" /\ i' = i
      BY <1>12 DEF avcodec_send_packet
    <3> QED
      BY <1>0, <1>10, <1>12, <2>1, <3>1, <3>2 DEF avcodec_send_packet
<1>13. CASE ReceiveAgain
  <2>1. CASE blockVt[i] < Len(layout[i])
    <3>1. blockVt[i] + 1 \in 0 .. Len(layout[i])
      BY <1>16, <2>1
    <3> QED
      BY <1>0, <1>10, <1>13, <2>1, <3>1 DEF ReceiveAgain, Receiving
  <2>2. CASE ~(blockVt[i] < Len(layout[i]))
    <3>1. 0 \in 0 .. Len(layout[i])
      BY <1>16
    <3> QED
      BY <1>0, <1>10, <1>13, <2>2, <3>1 DEF ReceiveAgain, Receiving
  <2> QED
    BY <2>1, <2>2
<1> QED
  BY <1>3, <1>4, <1>5, <1>6, <1>7, <1>8, <1>9, <1>11, <1>12, <1>13 DEF Next

-----------------------------------------------------------------------------
(* Results and counts.                                                     *)

\* A set of numbers has a smallest one.
LEMMA SmallestExists ==
  ASSUME NEW S, S \subseteq Nat, S # {}
  PROVE  \E m \in S : \A k \in S : m <= k
<1>1. PICK m \in S : \A k \in S : <<k, m>> \notin OpToRel(<, Nat)
  BY WFMin, NatLessThanWellFounded, Zenon
<1>2. \A k \in S : ~(k < m)
  BY <1>1, Zenon DEF OpToRel
<1> QED
  BY <1>2

\* The search for a block of the track only fails behind the last one.
LEMMA NoNextBlock ==
  ASSUME Shape, NextBlock(i) = {}, blockVt[i] # 0
  PROVE  layout[i][Len(layout[i])] = "other"
<1>1. /\ Len(layout[i]) \in Nat /\ blockVt[i] \in 1 .. Len(layout[i])
  <2>1. Len(layout[i]) \in Nat /\ i \in Clusters
    BY InputTypes
  <2>2. blockVt[i] \in 0 .. Len(layout[i])
    BY <2>1 DEF Shape, TypeOK
  <2> QED
    BY <2>1, <2>2
<1> DEFINE S == {b \in blockVt[i] .. Len(layout[i]) : OfTrack(i, b)}
<1>2. S = {}
  <2> SUFFICES ASSUME S # {} PROVE FALSE
    OBVIOUS
  <2>1. S \subseteq Nat
    BY <1>1
  <2>2. PICK m \in S : \A k \in S : m <= k
    BY <2>1, SmallestExists
  <2>3. m \in blockVt[i] .. Len(layout[i]) /\ OfTrack(i, m) /\ m \in Nat
    BY <1>1, <2>2
  <2>4. ASSUME NEW a \in blockVt[i] .. m - 1 PROVE ~OfTrack(i, a)
    <3>1. a \in blockVt[i] .. Len(layout[i]) /\ ~(m <= a)
      BY <1>1, <2>3
    <3> QED
      BY <2>2, <3>1
  <2> QED
    BY <2>3, <2>4 DEF NextBlock
<1>3. Len(layout[i]) \in blockVt[i] .. Len(layout[i])
  BY <1>1
<1> QED
  BY <1>2, <1>3 DEF OfTrack

\* A thread that ends for a reason other than a null block reports what is true.
LEMMA EndsRight ==
  ASSUME Shape, Ends(verdict'), step' = "ended",
         verdict' = "success" <=> frame_cnt > 0 /\ parts = Parts,
         verdict' = "null block" => layout[i][Len(layout[i])] = "other"
  PROVE  ResultOK'
<1> USE DEF inputVars, blockVars, decoderVars, pictureVars, resultVars
<1>1. UNCHANGED <<frame_cnt, parts, layout, i>>
  BY DEF Ends
<1> QED
  BY <1>1 DEF ResultOK, ReportedAsSent, SafeOnTrack, Parts

\* A step that does not end the thread has no verdict, and parts to send of an animation
\* with a picture.
LEMMA GoesOn ==
  ASSUME step' # "ended", verdict' = "none", step' # "send" => parts' = 0,
         step' = "send" => frame_cnt' > 0
  PROVE  ResultOK'
BY DEF ResultOK, ReportedAsSent, SafeOnTrack

\* Every step keeps what is known of the result.
LEMMA ResultKept ==
  ASSUME Shape, ResultOK, SetUpOK, Next
  PROVE  ResultOK'
<1> USE DEF inputVars, blockVars, decoderVars, pictureVars, resultVars
<1>0. /\ frame_cnt \in Nat /\ parts \in 0 .. 5 /\ i \in Clusters
      /\ step # "ended" => verdict = "none"
      /\ step \notin {"send", "ended"} => parts = 0
      /\ step = "send" => frame_cnt > 0
  BY DEF Shape, TypeOK, ResultOK, Parts
<1>8. Parts # 0
  BY DEF Parts
<1>1. CASE SetUpFails \/ SendPacketFails \/ NullScaler \/ AddFrameFails \/ FinalizeFails
  <2>1. parts = 0 /\ Ends(verdict') /\ step' = "ended" /\ verdict' \in {"fail", "null scaler"}
    BY <1>0, <1>1 DEF SetUpFails, SendPacketFails, NullScaler, AddFrameFails, FinalizeFails, Ends
  <2> QED
    <3>1. parts # Parts
      BY <1>8, <2>1
    <3> QED
      BY <2>1, <3>1, EndsRight
<1>2. CASE NullBlock
  <2>1. /\ parts = 0 /\ Ends(verdict') /\ step' = "ended" /\ verdict' = "null block"
        /\ NextBlock(i) = {} /\ blockVt[i] # 0
    BY <1>0, <1>2 DEF NullBlock, Ends, SetUpOK
  <2> QED
    <3>1. parts # Parts
      BY <1>8, <2>1
    <3>2. layout[i][Len(layout[i])] = "other"
      BY <2>1, NoNextBlock
    <3> QED
      BY <2>1, <3>1, <3>2, EndsRight
<1>3. CASE SendingThrows
  <2>1. parts # Parts /\ Ends(verdict') /\ step' = "ended" /\ verdict' = "fail"
    BY <1>0, <1>3 DEF SendingThrows, Ends, Parts
  <2> QED
    BY <2>1, EndsRight
<1>4. CASE process_final_success
  <2>1. parts = Parts /\ frame_cnt > 0 /\ Ends(verdict') /\ step' = "ended" /\ verdict' = "success"
    BY <1>0, <1>4 DEF process_final_success, Ends
  <2> QED
    BY <2>1, EndsRight
<1>5. CASE SetUpCluster \/ avcodec_send_packet \/ ReceiveFrame \/ ReceiveAgain \/ ReceiveEnd
  BY <1>0, <1>5, GoesOn DEF SetUpCluster, avcodec_send_packet, ReceiveFrame, ReceiveAgain,
                            ReceiveEnd, Receiving
<1>6. CASE ReceiveError \/ DrawCell \/ add_frame
  BY <1>0, <1>6, GoesOn DEF ReceiveError, DrawCell, add_frame, Receiving
<1>7. CASE finalize \/ WritePart
  BY <1>0, <1>7, GoesOn DEF finalize, WritePart
<1> QED
  BY <1>1, <1>2, <1>3, <1>4, <1>5, <1>6, <1>7 DEF Next

\* Every step keeps which clusters are set up.
LEMMA SetUpKept ==
  ASSUME Shape, SetUpOK, Next
  PROVE  SetUpOK'
<1> USE DEF inputVars, blockVars, decoderVars, pictureVars, resultVars
<1>0. /\ blockVt \in [Clusters -> Nat] /\ i \in Clusters /\ Clusters \subseteq Nat
      /\ \A c \in Clusters : Len(layout[c]) \in Nat
  BY InputTypes, ClusterNumbers DEF Shape
<1>1. CASE SetUpCluster
  <2>1. /\ step = "setup" /\ blockVt' = [blockVt EXCEPT ![i] = 1] /\ sent' = sent
        /\ i' = IF Last(i) THEN 0 ELSE i + 1
        /\ step' = IF Last(i) THEN "decode" ELSE "setup"
    BY <1>1 DEF SetUpCluster
  <2>2. blockVt'[i] = 1 /\ \A c \in Clusters : c # i => blockVt'[c] = blockVt[c]
    BY <1>0, <2>1
  <2>3. \A c \in Clusters : c < i => blockVt[c] # 0
    BY <2>1 DEF SetUpOK
  <2>4. CASE Last(i)
    <3>1. \A c \in Clusters : c < i \/ c = i
      BY <2>4, NextCluster
    <3>2. \A c \in Clusters : blockVt'[c] # 0
      BY <2>2, <2>3, <3>1
    <3> QED
      BY <2>1, <2>4, <3>2 DEF SetUpOK
  <2>5. CASE ~Last(i)
    <3>1. \A c \in Clusters : c < i + 1 <=> c < i \/ c = i
      BY <2>5, NextCluster
    <3>2. \A c \in Clusters : c < i + 1 => blockVt'[c] # 0
      BY <2>2, <2>3, <3>1
    <3>3. \A c \in Clusters : ~(c < i + 1) => blockVt'[c] = 0 /\ sent[c] = <<>>
      BY <2>1, <2>2, <3>1 DEF SetUpOK
    <3> QED
      BY <2>1, <2>5, <3>2, <3>3 DEF SetUpOK
  <2> QED
    BY <2>4, <2>5
<1>2. CASE avcodec_send_packet
  <2>1. PICK b \in NextBlock(i) : blockVt' = [blockVt EXCEPT ![i] = b]
    BY <1>2 DEF avcodec_send_packet
  <2>2. \A c \in Clusters : blockVt[c] # 0
    BY <1>2 DEF avcodec_send_packet, SetUpOK
  <2>3. b # 0
    <3>1. b \in blockVt[i] .. Len(layout[i]) /\ blockVt[i] \in Nat /\ Len(layout[i]) \in Nat
      BY <1>0 DEF NextBlock
    <3> QED
      BY <1>0, <2>2, <3>1
  <2>4. step' = "decode" /\ \A c \in Clusters : blockVt'[c] # 0
    BY <1>0, <1>2, <2>1, <2>2, <2>3 DEF avcodec_send_packet
  <2> QED
    BY <2>4 DEF SetUpOK
<1>3. CASE ReceiveAgain
  <2>1. CASE blockVt[i] < Len(layout[i])
    <3>1. \A c \in Clusters : blockVt[c] # 0
      BY <1>3 DEF ReceiveAgain, Receiving, SetUpOK
    <3>2. blockVt[i] + 1 # 0
      BY <1>0
    <3>3. step' = "decode" /\ blockVt' = [blockVt EXCEPT ![i] = blockVt[i] + 1]
      BY <1>3, <2>1 DEF ReceiveAgain, Receiving
    <3>4. \A c \in Clusters : blockVt'[c] # 0
      BY <1>0, <3>1, <3>2, <3>3
    <3> QED
      BY <3>3, <3>4 DEF SetUpOK
  <2>2. CASE ~(blockVt[i] < Len(layout[i]))
    BY <1>3, <2>2 DEF ReceiveAgain, SetUpOK
  <2> QED
    BY <2>1, <2>2
<1>4. CASE ReceiveFrame \/ ReceiveError \/ DrawCell \/ add_frame
  BY <1>4 DEF ReceiveFrame, ReceiveError, DrawCell, add_frame, Receiving, SetUpOK
<1>5. CASE step' \in {"finish", "send", "ended"}
  BY <1>5 DEF SetUpOK
<1>6. \/ SetUpCluster \/ avcodec_send_packet \/ ReceiveAgain
      \/ ReceiveFrame \/ ReceiveError \/ DrawCell \/ add_frame
      \/ step' \in {"finish", "send", "ended"}
  BY DEF Next, SetUpFails, SendPacketFails, NullBlock, ReceiveEnd, NullScaler, AddFrameFails,
         finalize, FinalizeFails, WritePart, SendingThrows, process_final_success, Ends
<1> QED
  BY <1>1, <1>2, <1>3, <1>4, <1>5, <1>6

\* Every step keeps the number of frames the clusters gave in step.
LEMMA GivenKept ==
  ASSUME Shape, GivenOK, Next
  PROVE  GivenOK'
<1> USE DEF inputVars, blockVars, decoderVars, pictureVars, resultVars
<1>0. /\ given \in [Clusters -> Nat] /\ i \in Clusters /\ Clusters \subseteq Nat /\ frame_cnt \in Nat
      /\ \A c \in Clusters : c >= 0 /\ ~(c < 0) /\ (c <= i <=> c < i \/ c = i)
  <2>1. given \in [Clusters -> Nat] /\ i \in Clusters /\ Clusters \subseteq Nat /\ frame_cnt \in Nat
    BY ClusterNumbers DEF Shape, TypeOK
  <2>2. \A c \in Nat : c >= 0 /\ ~(c < 0) /\ \A d \in Nat : c <= d <=> c < d \/ c = d
    OBVIOUS
  <2> QED
    BY <2>1, <2>2
<1>1. CASE SetUpCluster
  BY <1>0, <1>1 DEF SetUpCluster, GivenOK
<1>2. CASE avcodec_send_packet \/ ReceiveError
  BY <1>2 DEF avcodec_send_packet, ReceiveError, Receiving, GivenOK
<1>3. CASE ReceiveAgain \/ ReceiveEnd
  <2>1. /\ step = "decode" /\ step' \in {"decode", "finish"}
        /\ UNCHANGED <<i, given, frame_cnt>>
    BY <1>3 DEF ReceiveAgain, ReceiveEnd, Receiving
  <2> QED
    BY <2>1 DEF GivenOK
<1>4. CASE ReceiveFrame
  <2>1. /\ step = "decode" /\ step' = "draw" /\ UNCHANGED <<i, frame_cnt>>
        /\ given' = [given EXCEPT ![i] = given[i] + 1]
    BY <1>4 DEF ReceiveFrame, Receiving
  <2>2. \A c \in Clusters : given[c] = IF c < i THEN frame_cnt + 1 ELSE frame_cnt
    BY <2>1 DEF GivenOK
  <2>3. ASSUME NEW c \in Clusters
        PROVE  given'[c] = IF c <= i THEN frame_cnt + 1 ELSE frame_cnt
    <3>1. CASE c = i
      <4>1. given[i] = frame_cnt
        BY <1>0, <2>2
      <4> QED
        BY <1>0, <2>1, <3>1, <4>1
    <3>2. CASE c # i
      BY <1>0, <2>1, <2>2, <3>2
    <3> QED
      BY <3>1, <3>2
  <2> QED
    BY <2>1, <2>3 DEF GivenOK
<1>5. CASE DrawCell
  <2>1. /\ step = "draw" /\ UNCHANGED <<given, frame_cnt>>
        /\ i' = IF Last(i) THEN 0 ELSE i + 1
        /\ step' = IF Last(i) THEN "add" ELSE "decode"
    BY <1>5 DEF DrawCell
  <2>2. \A c \in Clusters : given[c] = IF c <= i THEN frame_cnt + 1 ELSE frame_cnt
    BY <2>1 DEF GivenOK
  <2>3. CASE Last(i)
    <3>1. \A c \in Clusters : c <= i
      BY <1>0, <2>3, NextCluster
    <3> QED
      BY <2>1, <2>2, <2>3, <3>1 DEF GivenOK
  <2>4. CASE ~Last(i)
    <3>1. \A c \in Clusters : c < i + 1 <=> c <= i
      BY <1>0, <2>4, NextCluster
    <3> QED
      BY <2>1, <2>2, <2>4, <3>1 DEF GivenOK
  <2> QED
    BY <2>3, <2>4
<1>6. CASE add_frame
  <2>1. /\ i = 0 /\ step' = "decode" /\ i' = i /\ given' = given /\ frame_cnt' = frame_cnt + 1
        /\ \A c \in Clusters : given[c] = frame_cnt + 1
    BY <1>6 DEF add_frame, GivenOK
  <2> QED
    BY <1>0, <2>1 DEF GivenOK
<1>7. CASE finalize \/ WritePart
  BY <1>7 DEF finalize, WritePart, GivenOK
<1>8. CASE step' = "ended"
  BY <1>8 DEF GivenOK
<1>9. \/ SetUpCluster \/ avcodec_send_packet \/ ReceiveError \/ ReceiveAgain \/ ReceiveEnd
      \/ ReceiveFrame \/ DrawCell \/ add_frame \/ finalize \/ WritePart
      \/ step' = "ended"
  BY DEF Next, SetUpFails, SendPacketFails, NullBlock, NullScaler, AddFrameFails,
         FinalizeFails, SendingThrows, process_final_success, Ends
<1> QED
  BY <1>1, <1>2, <1>3, <1>4, <1>5, <1>6, <1>7, <1>8, <1>9

-----------------------------------------------------------------------------
(* The picture.                                                            *)

\* Every step keeps what the cells show.
LEMMA PictureKept ==
  ASSUME Shape, GivenOK, PictureOK, Next
  PROVE  PictureOK'
<1> USE DEF inputVars, blockVars, decoderVars, pictureVars, resultVars
<1>0. /\ i \in Clusters /\ Clusters \subseteq Nat /\ frame_cnt \in Nat /\ size \in Sizes
      /\ imageData \in [Pixels -> Nat]
  BY ClusterNumbers DEF Shape, TypeOK
<1>1. UNCHANGED inputVars
  BY DEF Next, SetUpFails, SendPacketFails, NullBlock, NullScaler, AddFrameFails,
         FinalizeFails, SendingThrows, process_final_success, Ends,
         SetUpCluster, avcodec_send_packet, ReceiveError, ReceiveAgain, ReceiveEnd,
         ReceiveFrame, DrawCell, add_frame, finalize, WritePart
<1>2. \A c : Cell(c)' = Cell(c)
  BY <1>1, InputKept
<1>3. ASSUME UNCHANGED <<imageData, frame_cnt>>
      PROVE  \A c \in Clusters : Shows(c) => Shows(c)'
  BY <1>2, <1>3 DEF Shows
<1>4. CASE SetUpCluster \/ add_frame
  <2>1. step' \in {"setup", "decode"} /\ (step' = "decode" => i' = 0)
    BY <1>4 DEF SetUpCluster, add_frame, GivenOK
  <2>2. \A c \in Nat : ~(c < 0)
    OBVIOUS
  <2> QED
    BY <1>0, <2>1, <2>2 DEF PictureOK
<1>5. CASE avcodec_send_packet \/ ReceiveError \/ ReceiveFrame
  <2>1. step = "decode" /\ step' \in {"decode", "draw"} /\ UNCHANGED <<i, imageData, frame_cnt>>
    BY <1>5 DEF avcodec_send_packet, ReceiveError, ReceiveFrame, Receiving
  <2> QED
    BY <1>3, <2>1 DEF PictureOK
<1>6. CASE ReceiveAgain
  <2>1. step = "decode" /\ step' \in {"decode", "finish"} /\ UNCHANGED <<i, imageData, frame_cnt>>
    BY <1>6 DEF ReceiveAgain, Receiving
  <2> QED
    BY <1>3, <2>1 DEF PictureOK
<1>7. CASE DrawCell
  <2>1. /\ step = "draw" /\ frame_cnt' = frame_cnt
        /\ imageData' = [p \in Pixels |-> IF p \in Cell(i) THEN given[i] ELSE imageData[p]]
        /\ i' = IF Last(i) THEN 0 ELSE i + 1
        /\ step' = IF Last(i) THEN "add" ELSE "decode"
    BY <1>7 DEF DrawCell
  <2>2. given[i] = frame_cnt + 1
    BY <1>0, <2>1 DEF GivenOK
  <2>3. ASSUME NEW c \in Clusters, c < i \/ c = i PROVE Shows(c)'
    <3> SUFFICES ASSUME NEW p \in Cell(c) PROVE imageData'[p] = frame_cnt + 1
      BY <1>2, <2>1 DEF Shows
    <3>1. p \in Pixels
      BY <1>0, CellInside
    <3>2. CASE p \in Cell(i)
      BY <2>1, <2>2, <3>1, <3>2
    <3>3. CASE p \notin Cell(i)
      <4>1. c < i
        BY <2>3, <3>3
      <4>2. Shows(c)
        BY <2>1, <4>1 DEF PictureOK
      <4> QED
        BY <2>1, <3>1, <3>3, <4>2 DEF Shows
    <3> QED
      BY <3>2, <3>3
  <2>4. CASE Last(i)
    <3>1. \A c \in Clusters : c < i \/ c = i
      BY <2>4, NextCluster
    <3> QED
      BY <2>1, <2>3, <2>4, <3>1 DEF PictureOK
  <2>5. CASE ~Last(i)
    <3>1. \A c \in Clusters : c < i + 1 => c < i \/ c = i
      BY <2>5, NextCluster
    <3> QED
      BY <2>1, <2>3, <2>5, <3>1 DEF PictureOK
  <2> QED
    BY <2>4, <2>5
<1>8. CASE step' \in {"finish", "send", "ended"}
  BY <1>8 DEF PictureOK
<1>9. \/ SetUpCluster \/ add_frame \/ avcodec_send_packet \/ ReceiveError \/ ReceiveFrame
      \/ ReceiveAgain \/ DrawCell \/ step' \in {"finish", "send", "ended"}
  BY DEF Next, SetUpFails, SendPacketFails, NullBlock, NullScaler, AddFrameFails, ReceiveEnd,
         finalize, FinalizeFails, WritePart, SendingThrows, process_final_success, Ends
<1> QED
  BY <1>4, <1>5, <1>6, <1>7, <1>8, <1>9

-----------------------------------------------------------------------------
(* What the decoders are sent.                                             *)

\* A cluster whose block and packets a step leaves alone is as it was.
LEMMA FedSame ==
  ASSUME NEW c, Fed(c), UNCHANGED <<layout, sent[c], blockVt[c], needPacketVt[c]>>
  PROVE  Fed(c)'
BY DEF Fed, Behind, OfTrack

\* A cluster that was set up has been sent nothing yet.
LEMMA FedFirst ==
  ASSUME NEW c, sent'[c] = <<>>, blockVt'[c] = 1, needPacketVt'[c] = TRUE, Len(layout'[c]) \in Nat
  PROVE  Fed(c)'
<1>1. \A b \in 1 .. Len(layout'[c]) : ~(b < 1)
  OBVIOUS
<1>2. DOMAIN sent'[c] = {}
  OBVIOUS
<1>3. \A b : Behind(c, b)' <=> b < 1
  BY DEF Behind
<1> QED
  BY <1>1, <1>2, <1>3 DEF Fed

\* The next block to be sent moves on, or there is none any more.
LEMMA FedAgain ==
  ASSUME NEW c, Fed(c), UNCHANGED <<layout, sent>>, blockVt[c] \in Nat \ {0}, ~needPacketVt[c],
         \/ blockVt'[c] = blockVt[c] + 1 /\ needPacketVt'[c] = TRUE
         \/ blockVt'[c] = 0,
         sent[c] \in Seq(Nat), Len(layout[c]) \in Nat
  PROVE  Fed(c)'
<1>1. \A b \in Nat : Behind(c, b) <=> b <= blockVt[c]
  BY DEF Behind
<1>2. CASE blockVt'[c] = blockVt[c] + 1 /\ needPacketVt'[c] = TRUE
  <2>1. \A b \in Nat : Behind(c, b)' <=> b <= blockVt[c]
    BY <1>2 DEF Behind
  <2>2. \A b \in Nat : Behind(c, b)' <=> Behind(c, b)
    BY <1>1, <2>1
  <2>3. /\ \A b \in 1 .. Len(layout[c]) : b \in Nat
        /\ \A k \in DOMAIN sent[c] : sent[c][k] \in Nat
    BY LenProperties, ElementOfSeq
  <2>4. \A x : OfTrack(c, x)' <=> OfTrack(c, x)
    BY DEF OfTrack
  <2>5. \A b \in 1 .. Len(layout[c]) : OfTrack(c, b) /\ Behind(c, b)' =>
          \E k \in DOMAIN sent[c] : sent[c][k] = b
    BY <1>2, <2>2, <2>3 DEF Fed
  <2>6. \A k \in DOMAIN sent[c] : Behind(c, sent[c][k])'
    BY <1>2, <2>2, <2>3 DEF Fed
  <2>7. /\ \A k \in DOMAIN sent[c] : OfTrack(c, sent[c][k])
        /\ \A k, l \in DOMAIN sent[c] : k < l => sent[c][k] < sent[c][l]
        /\ \A k \in DOMAIN sent[c] : \A b \in 1 .. sent[c][k] :
             OfTrack(c, b) => \E l \in 1 .. k : sent[c][l] = b
    BY DEF Fed
  <2> QED
    BY <2>4, <2>5, <2>6, <2>7 DEF Fed
<1>3. CASE blockVt'[c] = 0
  BY <1>3 DEF Fed, OfTrack
<1> QED
  BY <1>2, <1>3

\* A sequence with one more number.
LEMMA AppendIndex ==
  ASSUME NEW S, NEW q \in Seq(S), NEW e \in S
  PROVE  /\ Append(q, e) \in Seq(S)
         /\ DOMAIN q = 1 .. Len(q) /\ DOMAIN Append(q, e) = 1 .. Len(q) + 1
         /\ \A k \in 1 .. Len(q) : Append(q, e)[k] = q[k]
         /\ Append(q, e)[Len(q) + 1] = e
         /\ Len(q) \in Nat
BY AppendProperties, LenProperties

\* The decoder of a cluster is sent the next block of the track.
LEMMA FedNext ==
  ASSUME NEW c, Fed(c), NEW b \in NextBlock(c), UNCHANGED layout,
         blockVt[c] \in Nat \ {0}, needPacketVt[c],
         blockVt'[c] = b, needPacketVt'[c] = FALSE, sent'[c] = Append(sent[c], b),
         sent[c] \in Seq(Nat), Len(layout[c]) \in Nat
  PROVE  Fed(c)'
<1> DEFINE L == Len(sent[c])
<1>1. /\ b \in Nat /\ b >= blockVt[c] /\ OfTrack(c, b)
      /\ \A a \in Nat : blockVt[c] <= a /\ a < b => ~OfTrack(c, a)
  <2>1. /\ b \in blockVt[c] .. Len(layout[c]) /\ OfTrack(c, b)
        /\ \A a \in blockVt[c] .. b - 1 : ~OfTrack(c, a)
    BY DEF NextBlock
  <2>2. b \in Nat /\ b >= blockVt[c]
    BY <2>1
  <2>3. \A a \in Nat : blockVt[c] <= a /\ a < b => a \in blockVt[c] .. b - 1
    BY <2>2
  <2> QED
    BY <2>1, <2>2, <2>3
<1>2. /\ L \in Nat /\ DOMAIN sent[c] = 1 .. L /\ DOMAIN sent'[c] = 1 .. L + 1
      /\ \A k \in 1 .. L : sent'[c][k] = sent[c][k]
      /\ sent'[c][L + 1] = b
      /\ \A k \in 1 .. L : sent[c][k] \in Nat
  BY <1>1, AppendIndex, ElementOfSeq
<1>3. \A x \in Nat : Behind(c, x) <=> x < blockVt[c]
  BY DEF Behind
<1>4. \A x \in Nat : Behind(c, x)' <=> x <= b
  <2>1. \A x \in Nat : Behind(c, x)' <=> x < b \/ x = b
    BY DEF Behind
  <2> QED
    BY <1>1, <2>1
<1>5. \A x : OfTrack(c, x)' <=> OfTrack(c, x)
  BY DEF OfTrack
<1>6. \A k \in 1 .. L : sent[c][k] < b
  <2>1. \A k \in 1 .. L : sent[c][k] < blockVt[c]
    BY <1>2, <1>3 DEF Fed
  <2> QED
    BY <1>1, <1>2, <2>1
<1> HIDE DEF L
<1>7. \A k \in 1 .. L + 1 : k \in 1 .. L \/ k = L + 1
  BY <1>2
<1>8. \A k \in DOMAIN sent'[c] : OfTrack(c, sent'[c][k])
  BY <1>1, <1>2, <1>7 DEF Fed
<1>9. ASSUME NEW k \in DOMAIN sent'[c], NEW l \in DOMAIN sent'[c], k < l
      PROVE  sent'[c][k] < sent'[c][l]
  <2>1. k \in 1 .. L
    BY <1>2, <1>9
  <2>2. CASE l \in 1 .. L
    BY <1>2, <1>9, <2>1, <2>2 DEF Fed
  <2>3. CASE l = L + 1
    BY <1>2, <1>6, <2>1, <2>3
  <2> QED
    BY <1>2, <1>7, <2>2, <2>3
<1>10. ASSUME NEW x \in 1 .. Len(layout[c]), OfTrack(c, x), x <= b
       PROVE  \E l \in 1 .. L + 1 : sent'[c][l] = x
  <2>1. CASE x = b
    <3>1. L + 1 \in 1 .. L + 1
      BY <1>2
    <3> QED
      BY <1>2, <2>1, <3>1
  <2>2. CASE x # b
    <3>1. x \in Nat /\ x < b
      BY <1>1, <1>10, <2>2
    <3>2. x < blockVt[c]
      BY <1>1, <1>10, <3>1
    <3>3. PICK l \in 1 .. L : sent[c][l] = x
      BY <1>2, <1>3, <1>10, <3>1, <3>2 DEF Fed
    <3>4. l \in 1 .. L + 1
      BY <1>2
    <3> QED
      BY <1>2, <3>3, <3>4
  <2> QED
    BY <2>1, <2>2
<1>11. ASSUME NEW k \in DOMAIN sent'[c], NEW x \in 1 .. sent'[c][k], OfTrack(c, x)
       PROVE  \E l \in 1 .. k : sent'[c][l] = x
  <2>1. CASE k \in 1 .. L
    <3>1. PICK l \in 1 .. k : sent[c][l] = x
      BY <1>2, <1>11, <2>1 DEF Fed
    <3>2. l \in 1 .. L
      BY <1>2, <2>1
    <3> QED
      BY <1>2, <3>1, <3>2
  <2>2. CASE k = L + 1
    <3>1. x \in 1 .. b
      BY <1>2, <2>2
    <3>2. b \in 1 .. Len(layout[c])
      BY <1>1 DEF NextBlock
    <3>3. x \in 1 .. Len(layout[c]) /\ x <= b
      BY <1>1, <3>1, <3>2
    <3> QED
      BY <1>10, <1>11, <2>2, <3>3
  <2> QED
    BY <1>2, <1>7, <2>1, <2>2
<1>12. \A x \in 1 .. Len(layout[c]) : OfTrack(c, x) /\ Behind(c, x)' =>
         \E l \in DOMAIN sent'[c] : sent'[c][l] = x
  <2>1. \A x \in 1 .. Len(layout[c]) : x \in Nat
    OBVIOUS
  <2> QED
    BY <1>2, <1>4, <1>10, <2>1
<1>13. \A k \in DOMAIN sent'[c] : Behind(c, sent[c][k])'
  <2>1. ASSUME NEW k \in 1 .. L PROVE sent'[c][k] \in Nat /\ sent'[c][k] <= b
    <3>1. sent[c][k] \in Nat /\ sent[c][k] < b /\ sent'[c][k] = sent[c][k]
      BY <1>2, <1>6
    <3> QED
      BY <1>1, <3>1
  <2>2. sent'[c][L + 1] \in Nat /\ sent'[c][L + 1] <= b
    BY <1>1, <1>2
  <2>3. \A k \in DOMAIN sent'[c] : sent'[c][k] \in Nat /\ sent'[c][k] <= b
    BY <1>2, <1>7, <2>1, <2>2
  <2> QED
    BY <1>4, <2>3
<1>14. \A k \in DOMAIN sent'[c] : \A x \in 1 .. sent'[c][k] :
         OfTrack(c, x) => \E l \in 1 .. k : sent'[c][l] = x
  BY <1>11
<1> QED
  BY <1>5, <1>8, <1>9, <1>12, <1>13, <1>14 DEF Fed

\* What the decoders are sent stays in order, whatever the thread does.
LEMMA FedKept ==
  ASSUME Shape, SetUpOK, FedOK, Next
  PROVE  FedOK'
<1> USE DEF inputVars, blockVars, decoderVars, pictureVars, resultVars
<1>0. /\ blockVt \in [Clusters -> Nat] /\ needPacketVt \in [Clusters -> BOOLEAN]
      /\ sent \in [Clusters -> Seq(Nat)] /\ i \in Clusters
      /\ \A c \in Clusters : Len(layout[c]) \in Nat
      /\ \A c \in Clusters : Fed(c)
  BY InputTypes DEF Shape, TypeOK, FedOK
<1> SUFFICES ASSUME NEW c \in Clusters PROVE Fed(c)'
  BY DEF FedOK
<1>1. Fed(c) /\ sent[c] \in Seq(Nat) /\ blockVt[c] \in Nat /\ Len(layout[c]) \in Nat
  BY <1>0
<1>2. CASE UNCHANGED <<layout, sent[c], blockVt[c], needPacketVt[c]>>
  BY <1>1, <1>2, FedSame
<1>3. CASE SetUpCluster
  <2>1. CASE c = i
    <3>1. sent'[c] = <<>>
      BY <1>0, <1>3, <2>1, ClusterNumbers DEF SetUpCluster, SetUpOK
    <3>2. blockVt'[c] = 1 /\ needPacketVt'[c] = TRUE /\ layout' = layout
      BY <1>0, <1>3, <2>1 DEF SetUpCluster
    <3> QED
      BY <1>1, <3>1, <3>2, FedFirst
  <2>2. CASE c # i
    <3>1. UNCHANGED <<layout, sent[c], blockVt[c], needPacketVt[c]>>
      BY <1>0, <1>3, <2>2 DEF SetUpCluster
    <3> QED
      BY <1>2, <3>1
  <2> QED
    BY <2>1, <2>2
<1>4. CASE avcodec_send_packet
  <2>1. CASE c = i
    <3>1. PICK b \in NextBlock(c) : /\ blockVt' = [blockVt EXCEPT ![c] = b]
                                    /\ sent' = [sent EXCEPT ![c] = Append(@, b)]
      BY <1>4, <2>1 DEF avcodec_send_packet
    <3>2. blockVt'[c] = b /\ sent'[c] = Append(sent[c], b)
      BY <1>0, <3>1
    <3>3. needPacketVt[c] /\ needPacketVt'[c] = FALSE /\ layout' = layout
      BY <1>0, <1>4, <2>1 DEF avcodec_send_packet
    <3>4. blockVt[c] # 0
      BY <1>4 DEF avcodec_send_packet, SetUpOK
    <3> QED
      BY <1>1, <3>2, <3>3, <3>4, FedNext
  <2>2. CASE c # i
    <3>1. UNCHANGED <<layout, sent[c], blockVt[c], needPacketVt[c]>>
      BY <1>0, <1>4, <2>2 DEF avcodec_send_packet
    <3> QED
      BY <1>2, <3>1
  <2> QED
    BY <2>1, <2>2
<1>5. CASE ReceiveAgain
  <2>1. CASE c = i
    <3>1. \/ blockVt'[c] = blockVt[c] + 1 /\ needPacketVt'[c] = TRUE
          \/ blockVt'[c] = 0
      BY <1>0, <1>5, <2>1 DEF ReceiveAgain
    <3>2. ~needPacketVt[c] /\ UNCHANGED <<layout, sent>>
      BY <1>5, <2>1 DEF ReceiveAgain, Receiving
    <3>3. blockVt[c] # 0
      BY <1>5 DEF ReceiveAgain, Receiving, SetUpOK
    <3> QED
      BY <1>1, <3>1, <3>2, <3>3, FedAgain
  <2>2. CASE c # i
    <3>1. UNCHANGED <<layout, sent[c], blockVt[c], needPacketVt[c]>>
      BY <1>0, <1>5, <2>2 DEF ReceiveAgain
    <3> QED
      BY <1>2, <3>1
  <2> QED
    BY <2>1, <2>2
<1>6. \/ SetUpCluster \/ avcodec_send_packet \/ ReceiveAgain
      \/ UNCHANGED <<layout, sent[c], blockVt[c], needPacketVt[c]>>
  BY DEF Next, SetUpFails, SendPacketFails, NullBlock, ReceiveFrame, ReceiveEnd, ReceiveError,
         DrawCell, NullScaler, add_frame, AddFrameFails, finalize, FinalizeFails, WritePart,
         SendingThrows, process_final_success, Ends
<1> QED
  BY <1>2, <1>3, <1>4, <1>5, <1>6

-----------------------------------------------------------------------------
(* The invariant and what it says.                                         *)

\* The program starts in a state of the invariant.
LEMMA InitInv ==
  ASSUME Init
  PROVE  Inv
<1> USE DEF Init
<1>1. i = 0 /\ 0 \in Clusters /\ Clusters \subseteq Nat
  BY ClusterNumbers DEF Clusters
<1>2. Shape
  <2>1. \A c \in Clusters : layout[c] \in Seq(Blocks) /\ Len(layout[c]) \in Nat
    <3>1. \A c \in Clusters : layout[c] \in Seq(Blocks)
      BY DecodeAssumption
    <3> QED
      BY <3>1, LenProperties
  <2>2. /\ \A c \in Clusters : blockVt[c] \in 0 .. Len(layout[c])
        /\ blockVt \in [Clusters -> Nat]
    BY <2>1
  <2>3. /\ \A c \in Clusters : sent[c] \in Seq(1 .. Len(layout[c]))
        /\ sent \in [Clusters -> Seq(Nat)]
    OBVIOUS
  <2>4. needPacketVt \in [Clusters -> BOOLEAN]
    BY Zenon
  <2>5. given \in [Clusters -> Nat] /\ imageData \in [Pixels -> Nat]
    OBVIOUS
  <2>6. parts \in 0 .. Parts /\ faults \in 0 .. MaxFaults
    BY DecodeAssumption DEF Parts
  <2> QED
    BY <1>1, <2>2, <2>3, <2>4, <2>5, <2>6 DEF Shape, TypeOK
<1>3. ResultOK
  BY DEF ResultOK, ReportedAsSent, SafeOnTrack
<1>4. SetUpOK
  <2>1. \A c \in Clusters : ~(c < 0)
    BY <1>1
  <2> QED
    BY <1>1, <2>1 DEF SetUpOK
<1>5. GivenOK
  BY <1>1 DEF GivenOK
<1>6. FedOK
  <2> SUFFICES ASSUME NEW c \in Clusters PROVE Fed(c)
    BY DEF FedOK
  <2>1. sent[c] = <<>> /\ blockVt[c] = 0
    OBVIOUS
  <2>2. DOMAIN sent[c] = {}
    BY <2>1
  <2> QED
    BY <2>1, <2>2 DEF Fed
<1>7. PictureOK
  BY DEF PictureOK
<1> QED
  BY <1>2, <1>3, <1>4, <1>5, <1>6, <1>7 DEF Inv

\* A step that changes nothing keeps the invariant.
LEMMA StutterKeeps ==
  ASSUME Inv, UNCHANGED vars
  PROVE  Inv'
<1> USE DEF vars, inputVars, blockVars, decoderVars, pictureVars, resultVars
<1>1. Shape'
  <2>1. Pixels' = Pixels
    BY DEF Pixels, Width, Height
  <2> QED
    BY <2>1 DEF Inv, Shape, TypeOK
<1>2. ResultOK' /\ SetUpOK' /\ GivenOK'
  BY DEF Inv, ResultOK, ReportedAsSent, SafeOnTrack, SetUpOK, GivenOK
<1>3. FedOK'
  BY FedSame DEF Inv, FedOK
<1>4. PictureOK'
  <2>1. \A c : Cell(c)' = Cell(c)
    BY DEF Cell, Width, Height, FrameWidth, FrameHeight
  <2> QED
    BY <2>1 DEF Inv, PictureOK, Shows
<1> QED
  BY <1>1, <1>2, <1>3, <1>4 DEF Inv

\* Every step keeps the invariant.
LEMMA NextKeeps ==
  ASSUME Inv, Next
  PROVE  Inv'
BY ShapeKept, ResultKept, SetUpKept, GivenKept, FedKept, PictureKept DEF Inv

\* The invariant holds in every state of the rendering thread.
THEOREM InvariantHolds == Spec => []Inv
<1>1. Init => Inv
  BY InitInv
<1>2. Inv /\ [Next]_vars => Inv'
  BY NextKeeps, StutterKeeps
<1> QED
  BY <1>1, <1>2, PTL DEF Spec

\* Every variable of the thread of process_final holds a value of its type.
THEOREM TypeCorrect == Spec => []TypeOK
<1>1. Inv => TypeOK
  BY DEF Inv, Shape
<1> QED
  BY <1>1, InvariantHolds, PTL

\* A decoder is sent the blocks of the track from the first on, each once and none
\* left out, however many blocks of other tracks lie between and whenever the decoder
\* asks for more.
THEOREM PacketsAlwaysInOrder == Spec => []PacketsInOrder
<1>1. ASSUME Inv PROVE PacketsInOrder
  <2> SUFFICES ASSUME NEW c \in Clusters, NEW k \in DOMAIN sent[c]
               PROVE  /\ OfTrack(c, sent[c][k])
                      /\ \A b \in 1 .. sent[c][k] : OfTrack(c, b) =>
                           \E l \in 1 .. k : sent[c][l] = b /\ \A m \in 1 .. k : sent[c][m] = b => m = l
    BY DEF PacketsInOrder
  <2>1. Fed(c) /\ sent[c] \in Seq(Nat)
    BY <1>1 DEF Inv, FedOK, Shape
  <2>2. /\ DOMAIN sent[c] = 1 .. Len(sent[c]) /\ Len(sent[c]) \in Nat
        /\ \A l \in DOMAIN sent[c] : sent[c][l] \in Nat
    BY <2>1, LenProperties, ElementOfSeq
  <2>3. ASSUME NEW b \in 1 .. sent[c][k], OfTrack(c, b)
        PROVE  \E l \in 1 .. k : sent[c][l] = b /\ \A m \in 1 .. k : sent[c][m] = b => m = l
    <3>1. PICK l \in 1 .. k : sent[c][l] = b
      BY <2>1, <2>3 DEF Fed
    <3>2. ASSUME NEW m \in 1 .. k, sent[c][m] = b PROVE m = l
      <4>1. m \in DOMAIN sent[c] /\ l \in DOMAIN sent[c] /\ m \in Nat /\ l \in Nat
        BY <2>2
      <4>2. /\ m < l => sent[c][m] < sent[c][l]
            /\ l < m => sent[c][l] < sent[c][m]
        BY <2>1, <4>1 DEF Fed
      <4>3. b \in Nat
        BY <2>2
      <4> QED
        BY <3>1, <3>2, <4>1, <4>2, <4>3
    <3> QED
      BY <3>1, <3>2
  <2> QED
    BY <2>1, <2>3 DEF Fed
<1> QED
  BY <1>1, InvariantHolds, PTL

\* Whatever the size of the video and of the grid, the rows of a frame are copied to
\* pixels of the picture.
THEOREM CellsInside == Spec => []DrawsInside
<1>1. ASSUME Inv PROVE DrawsInside
  <2>1. size \in Sizes /\ i \in Clusters
    BY <1>1, InputTypes DEF Inv
  <2> QED
    BY <2>1, CellInside DEF DrawsInside
<1> QED
  BY <1>1, InvariantHolds, PTL

\* A picture that is added to the animation shows the same frame of every cluster, in
\* the cluster's place, whatever the decoders hold back.
THEOREM GridAlwaysInStep == Spec => []GridInStep
<1>1. ASSUME Inv PROVE GridInStep
  <2> SUFFICES ASSUME step = "add",
                      NEW x \in 0 .. FrameWidth * GridSize - 1,
                      NEW y \in 0 .. FrameHeight * GridSize - 1
               PROVE  LET c == (y \div FrameHeight) * GridSize + x \div FrameWidth
                      IN  imageData[y * Width + x] = frame_cnt + 1 /\ given[c] = frame_cnt + 1
    BY DEF GridInStep
  <2>1. PICK c : c = (y \div FrameHeight) * GridSize + x \div FrameWidth
    OBVIOUS
  <2>2. size \in Sizes
    BY <1>1, InputTypes DEF Inv
  <2>3. c \in Clusters /\ y * Width + x \in Cell(c)
    BY <2>1, <2>2, PlaceInCell
  <2>4. given[c] = frame_cnt + 1
    BY <1>1, <2>3 DEF Inv, GivenOK
  <2>5. PICK p \in Cell(c) : p = y * Width + x
    BY <2>3
  <2>6. imageData[p] = frame_cnt + 1
    BY <1>1, <2>3 DEF Inv, PictureOK, Shows
  <2> QED
    BY <2>1, <2>4, <2>5, <2>6
<1> QED
  BY <1>1, InvariantHolds, PTL

\* The animation ends with the first cluster that has no frame left: no other cluster
\* gave a frame that is lost, but for those drawn before it.
THEOREM ShortestEnds == Spec => []EndsWithShortest
<1>1. Inv => EndsWithShortest
  BY DEF Inv, GivenOK, EndsWithShortest
<1> QED
  BY <1>1, InvariantHolds, PTL

\* Only a whole message with an animation is reported as sent, and it always is.
THEOREM ReportsTrue == Spec => []ReportedAsSent
<1>1. Inv => ReportedAsSent
  BY DEF Inv, ResultOK
<1> QED
  BY <1>1, InvariantHolds, PTL

\* The null block is only used in a cluster that ends with a block of another track.
THEOREM SafeOnTrackAlways == Spec => []SafeOnTrack
<1>1. Inv => SafeOnTrack
  BY DEF Inv, ResultOK
<1> QED
  BY <1>1, InvariantHolds, PTL
=============================================================================
