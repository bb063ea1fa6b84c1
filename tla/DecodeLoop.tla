----------------------------- MODULE DecodeLoop ------------------------------
(***************************************************************************)
(* The detached thread of media_mkv::process_final (src/media_mkv.cpp):    *)
(* one decoder for each cluster, decoded in step, frame k of every cluster *)
(* drawn into its cell of picture k of the animation, until a cluster has  *)
(* no frame left; then the animation is sent.  Names are the code's.       *)
(*                                                                         *)
(* Simplifications:                                                        *)
(*  - libavcodec, libswscale, libwebp and the socket are external: a call  *)
(*    that may fail fails at will.  A decoder gives at most one frame for  *)
(*    a packet, in order, when it likes; after an empty packet it gives    *)
(*    what is left and then reports the end; an error passes or stays;     *)
(*  - which bytes can be read is in MediaMkv; here a cluster that can be   *)
(*    read is its SimpleBlocks: of the track, of another track, or of the  *)
(*    track without data;                                                  *)
(*  - a pixel (four bytes) shows the number of the frame it was drawn from *)
(***************************************************************************)
EXTENDS Integers, Sequences, FiniteSets

CONSTANTS
  GridSize,    \* m_grid_size, 5 in the code
  Layouts,     \* what the clusters may hold
  Sizes,       \* pixel_width and pixel_height a track may state
  MaxFaults    \* bound on the errors of the decoders

Clusters == 0 .. GridSize * GridSize - 1
Blocks == {"track", "empty", "other"}

ASSUME DecodeAssumption ==
  /\ GridSize \in Nat \ {0}
  /\ Layouts \subseteq [Clusters -> Seq(Blocks)]
  /\ Sizes \subseteq Nat \X Nat
  /\ MaxFaults \in Nat

VARIABLES
  layout,         \* the SimpleBlocks of each cluster
  size,           \* <<pixel_width, pixel_height>>
  step,           \* where the thread is
  i,              \* the cluster it is at
  blockVt,        \* the position of the current block, 0 for none
  needPacketVt,
  sent,           \* the blocks each decoder was sent
  given,          \* the number of frames it gave
  stuck,          \* the decoders that report an error for ever
  imageData,      \* the frame each pixel shows, 0 for none
  frame_cnt,      \* pictures added to the animation
  parts,          \* parts of the message written to the socket
  verdict,
  faults          \* errors of the decoders so far

inputVars == <<layout, size>>
blockVars == <<blockVt, needPacketVt>>
decoderVars == <<sent, given, stuck, faults>>
pictureVars == <<imageData, frame_cnt>>
resultVars == <<parts, verdict>>
vars == <<inputVars, step, i, blockVars, decoderVars, pictureVars, resultVars>>

Width == size[1]
Height == size[2]
FrameWidth == Width \div GridSize
FrameHeight == Height \div GridSize
Pixels == 0 .. Width * Height - 1

Init ==
  /\ layout \in Layouts
  /\ size \in Sizes
  /\ step = "setup"
  /\ i = 0
  /\ blockVt = [c \in Clusters |-> 0]
  /\ needPacketVt = [c \in Clusters |-> FALSE]
  /\ sent = [c \in Clusters |-> <<>>]
  /\ given = [c \in Clusters |-> 0]
  /\ stuck = {}
  /\ faults = 0
  /\ imageData = [p \in Pixels |-> 0]
  /\ frame_cnt = 0
  /\ parts = 0
  /\ verdict = "none"

Last(c) == c = GridSize * GridSize - 1

Ends(v) ==
  /\ verdict' = v
  /\ step' = "ended"
  /\ UNCHANGED <<inputVars, i, blockVars, decoderVars, pictureVars, parts>>

-----------------------------------------------------------------------------
(* Setting up: a context, the cluster and its first block.                 *)

SetUpCluster ==
  /\ step = "setup"
  /\ layout[i] # <<>>
  /\ blockVt' = [blockVt EXCEPT ![i] = 1]
  /\ needPacketVt' = [needPacketVt EXCEPT ![i] = TRUE]
  /\ i' = IF Last(i) THEN 0 ELSE i + 1
  /\ step' = IF Last(i) THEN "decode" ELSE "setup"
  /\ UNCHANGED <<inputVars, decoderVars, pictureVars, resultVars>>

\* No codec, an allocation or the encoder fails, the cluster cannot be read or
\* has no SimpleBlock.
SetUpFails == step = "setup" /\ Ends("fail")

-----------------------------------------------------------------------------
(* Feeding the decoder of the cluster until it gives a frame.              *)

OfTrack(c, b) == layout[c][b] # "other"

\* Mutant: any block will do.
FirstLeft(c) == {blockVt[c]}

\* The block the search for one of the track stops at.
NextBlock(c) ==
  {b \in blockVt[c] .. Len(layout[c]) :
     OfTrack(c, b) /\ \A a \in blockVt[c] .. b - 1 : ~OfTrack(c, a)}

avcodec_send_packet ==
  /\ step = "decode" /\ needPacketVt[i]
  /\ \E b \in NextBlock(i) :
       /\ blockVt' = [blockVt EXCEPT ![i] = b]
       /\ sent' = [sent EXCEPT ![i] = Append(@, b)]
  /\ needPacketVt' = [needPacketVt EXCEPT ![i] = FALSE]
  /\ UNCHANGED <<inputVars, step, i, given, stuck, faults, pictureVars, resultVars>>

SendPacketFails ==
  /\ step = "decode" /\ needPacketVt[i]
  /\ NextBlock(i) # {}
  /\ Ends("fail")

\* "no more block" leaves the search, and the null block is used.
NullBlock ==
  /\ step = "decode" /\ needPacketVt[i]
  /\ NextBlock(i) = {}
  /\ Ends("null block")

Receiving == step = "decode" /\ ~needPacketVt[i] /\ i \notin stuck

Packets(c) == {k \in DOMAIN sent[c] : layout[c][sent[c][k]] = "track"}
Drained(c) == \E k \in DOMAIN sent[c] : layout[c][sent[c][k]] = "empty"
HasFrame(c) == given[c] < Cardinality(Packets(c))

\* Mutant: only the last frame the decoder has is drawn.
KeepsLatest ==
  /\ Receiving
  /\ HasFrame(i)
  /\ given' = [given EXCEPT ![i] = Cardinality(Packets(i))]
  /\ step' = "draw"
  /\ UNCHANGED <<inputVars, i, blockVars, sent, stuck, faults, pictureVars, resultVars>>

ReceiveFrame ==
  /\ Receiving
  /\ HasFrame(i)
  /\ given' = [given EXCEPT ![i] = @ + 1]
  /\ step' = "draw"
  /\ UNCHANGED <<inputVars, i, blockVars, sent, stuck, faults, pictureVars, resultVars>>

\* Mutant: the last block is not the end.
ReceiveAgainUnchecked ==
  /\ Receiving /\ ~Drained(i)
  /\ blockVt' = [blockVt EXCEPT ![i] = @ + 1]
  /\ needPacketVt' = [needPacketVt EXCEPT ![i] = TRUE]
  /\ UNCHANGED <<inputVars, step, i, decoderVars, pictureVars, resultVars>>

\* Mutant: the picture goes on without the cluster.
SkipsCluster ==
  /\ Receiving /\ ~Drained(i)
  /\ IF blockVt[i] < Len(layout[i])
     THEN /\ blockVt' = [blockVt EXCEPT ![i] = @ + 1]
          /\ needPacketVt' = [needPacketVt EXCEPT ![i] = TRUE]
          /\ UNCHANGED <<step, i>>
     ELSE /\ i' = IF Last(i) THEN 0 ELSE i + 1
          /\ step' = IF Last(i) THEN "add" ELSE "decode"
          /\ UNCHANGED <<blockVt, needPacketVt>>
  /\ UNCHANGED <<inputVars, decoderVars, pictureVars, resultVars>>

\* EAGAIN: the next block, of whatever track, is to be sent.
ReceiveAgain ==
  /\ Receiving /\ ~Drained(i)
  /\ IF blockVt[i] < Len(layout[i])
     THEN /\ blockVt' = [blockVt EXCEPT ![i] = @ + 1]
          /\ needPacketVt' = [needPacketVt EXCEPT ![i] = TRUE]
          /\ UNCHANGED step
     ELSE /\ blockVt' = [blockVt EXCEPT ![i] = 0]
          /\ step' = "finish"
          /\ UNCHANGED needPacketVt
  /\ UNCHANGED <<inputVars, i, decoderVars, pictureVars, resultVars>>

\* Mutant: the end is one more error to ignore.
EndIgnored == Receiving /\ Drained(i) /\ ~HasFrame(i) /\ UNCHANGED vars

\* AVERROR_EOF.
ReceiveEnd ==
  /\ Receiving /\ Drained(i) /\ ~HasFrame(i)
  /\ step' = "finish"
  /\ UNCHANGED <<inputVars, i, blockVars, decoderVars, pictureVars, resultVars>>

\* Any other error is ignored, and the loop receives again.
ReceiveError ==
  /\ Receiving
  /\ faults < MaxFaults
  /\ faults' = faults + 1
  /\ stuck' \in {stuck, stuck \union {i}}
  /\ UNCHANGED <<inputVars, step, i, blockVars, sent, given, pictureVars, resultVars>>

-----------------------------------------------------------------------------
(* The picture.                                                            *)

\* Mutant: rows and columns of the grid have the same size.
SquareCell(c) ==
  LET start == (c \div GridSize) * FrameWidth * Width + (c % GridSize) * FrameWidth
  IN  {start + hi * Width + x : hi \in 0 .. FrameHeight - 1, x \in 0 .. FrameWidth - 1}

\* The pixels the rows of a frame are copied to, as offsets into imageData.
Cell(c) ==
  LET oh == c \div GridSize
      ow == c % GridSize
      frame_dst == oh * FrameHeight * Width + ow * FrameWidth
  IN  {frame_dst + hi * Width + x : hi \in 0 .. FrameHeight - 1, x \in 0 .. FrameWidth - 1}

DrawCell ==
  /\ step = "draw"
  /\ FrameWidth > 0 /\ FrameHeight > 0
  /\ imageData' = [p \in Pixels |-> IF p \in Cell(i) THEN given[i] ELSE imageData[p]]
  /\ i' = IF Last(i) THEN 0 ELSE i + 1
  /\ step' = IF Last(i) THEN "add" ELSE "decode"
  /\ UNCHANGED <<inputVars, blockVars, decoderVars, frame_cnt, resultVars>>

\* A frame of no size, or of a format that cannot be converted, has no scaler, and
\* the null pointer is used.
NullScaler == step = "draw" /\ Ends("null scaler")

add_frame ==
  /\ step = "add"
  /\ frame_cnt' = frame_cnt + 1
  /\ step' = "decode"
  /\ UNCHANGED <<inputVars, i, blockVars, decoderVars, imageData, resultVars>>

AddFrameFails == step = "add" /\ Ends("fail")

-----------------------------------------------------------------------------
(* The result.                                                             *)

\* An animation without pictures cannot be assembled.
finalize ==
  /\ step = "finish"
  /\ frame_cnt > 0
  /\ step' = "send"
  /\ UNCHANGED <<inputVars, i, blockVars, decoderVars, pictureVars, resultVars>>

FinalizeFails == step = "finish" /\ Ends("fail")

\* The kind of service, the size of the rest, the size of the name, the name and
\* the animation.
Parts == 5

WritePart ==
  /\ step = "send"
  /\ parts < Parts
  /\ parts' = parts + 1
  /\ UNCHANGED <<inputVars, step, i, blockVars, decoderVars, pictureVars, verdict>>

\* Mutant: what is thrown is not reported.
ErrorSwallowed == step = "send" /\ parts < Parts /\ Ends("success")

\* The connection or the torrent is gone.
SendingThrows == step = "send" /\ parts < Parts /\ Ends("fail")

process_final_success == step = "send" /\ parts = Parts /\ Ends("success")

-----------------------------------------------------------------------------
Next ==
  \/ SetUpCluster \/ SetUpFails
  \/ avcodec_send_packet \/ SendPacketFails \/ NullBlock
  \/ ReceiveFrame \/ ReceiveAgain \/ ReceiveEnd \/ ReceiveError
  \/ DrawCell \/ NullScaler
  \/ add_frame \/ AddFrameFails
  \/ finalize \/ FinalizeFails
  \/ WritePart \/ SendingThrows \/ process_final_success

\* The thread runs, and every call it makes returns.
Spec == Init /\ [][Next]_vars /\ WF_vars(Next)

-----------------------------------------------------------------------------
(* Properties.                                                             *)

\* Every variable holds a value of its type.
TypeOK ==
  /\ layout \in Layouts
  /\ size \in Sizes
  /\ step \in {"setup", "decode", "draw", "add", "finish", "send", "ended"}
  /\ i \in Clusters
  /\ \A c \in Clusters : blockVt[c] \in 0 .. Len(layout[c])
  /\ needPacketVt \in [Clusters -> BOOLEAN]
  /\ \A c \in Clusters : sent[c] \in Seq(1 .. Len(layout[c]))
  /\ given \in [Clusters -> Nat]
  /\ stuck \subseteq Clusters
  /\ imageData \in [Pixels -> Nat]
  /\ frame_cnt \in Nat
  /\ parts \in 0 .. Parts
  /\ verdict \in {"none", "success", "fail", "null block", "null scaler"}
  /\ faults \in 0 .. MaxFaults

\* A decoder is sent the blocks of the track from the first on, each once and none
\* left out, whichever other tracks lie between and whenever it asks for more.
PacketsInOrder ==
  \A c \in Clusters : \A k \in DOMAIN sent[c] :
    /\ OfTrack(c, sent[c][k])
    /\ \A b \in 1 .. sent[c][k] :
         OfTrack(c, b) => \E l \in 1 .. k : sent[c][l] = b /\ \A m \in 1 .. k : sent[c][m] = b => m = l

\* Cells are drawn inside imageData.
DrawsInside == step = "draw" => Cell(i) \subseteq Pixels

\* Picture k shows frame k of every cluster in the cluster's place, left to right
\* and top to bottom, whatever the decoders hold back.
GridInStep ==
  step = "add" =>
    \A x \in 0 .. FrameWidth * GridSize - 1, y \in 0 .. FrameHeight * GridSize - 1 :
      LET c == (y \div FrameHeight) * GridSize + x \div FrameWidth
      IN  imageData[y * Width + x] = frame_cnt + 1 /\ given[c] = frame_cnt + 1

\* The animation ends with the first cluster that has no frame left: the clusters
\* before it gave one frame more, no other gave one that is not in a picture.
EndsWithShortest ==
  step \in {"finish", "send"} =>
    \A c \in Clusters : given[c] = IF c < i THEN frame_cnt + 1 ELSE frame_cnt

\* Nothing is reported as sent but a whole message with an animation of a picture
\* or more, and what was sent whole is not reported as failed.
ReportedAsSent ==
  step = "ended" => (verdict = "success") = (frame_cnt > 0 /\ parts = Parts)

\* A cluster that ends with a block of the track never brings the program down when
\* its blocks run out.
SafeOnTrack == verdict = "null block" => layout[i][Len(layout[i])] = "other"

\* "wrong track, try other packet" and "no more block": a cluster whose blocks of the
\* track run out ends the animation, whatever blocks follow them.
NoNullBlock == verdict # "null block"

\* The thread comes to an end unless a decoder reports an error for ever.
RenderingEnds == <>(step = "ended" \/ stuck # {})
=============================================================================
