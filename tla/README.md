# A TLA+ model of torrentQuickMediaManager

torrentQuickMediaManager is a daemon that takes magnet links and torrent files
from clients on a TCP socket, downloads with libtorrent just the pieces of each
`.mkv` file it needs, decodes a frame grid from 25 of its clusters, encodes an
animated WebP and sends it on. Its pieces live in memory
(a custom libtorrent disk interface) and are saved to a resume file.

This directory holds TLA+ modules for the parts of it where order, loss,
concurrency and boundaries matter, TLC configurations that check them on small
instances, and proofs checked by TLAPS.

    tlc -config MCMediaMkv_files.cfg MCMediaMkv     # one model-checking run
    tlapm MediaMkvProofs.tla                        # the proofs

`PROJECT.json` lists the components, the runs, the mutants that show each
property can fail, the source lines behind each definition, the findings, the
hazards and the theorems.

## 1. Inventory of the system

| Component | Source | State | Operations |
|---|---|---|---|
| `media_base` | `src/media_base.cpp` | `m_mode`, `m_awaiting_pieces`, `m_piece_data`, `m_last_receive` | `process`, `receive_piece`, `set_receive_pieces`, `request_awaiting_pieces`, `get_piece_at_offset`, `map_byte_range`, `process_final_*` |
| `media_mkv` | `src/media_mkv.cpp` | phase `m_cur_mode`, search length, positions of SeekHead, Cues, Tracks, chosen clusters, the `io_helper` read position | `process_ready` and its six handlers, `process_final` with its detached thread |
| `media_test` | `src/media_test.cpp` | `m_cur_mode` | `process_ready`, `process_final` |
| `media_torrent_manager` | `src/media_torrent_manager.cpp` | `m_media_list`, `m_file_counter`, `m_pending_update`, `m_active_list`, `m_upload_list`, one mutex | `add_torrent_download`, `handle_loop`, `handle_torrent_add`, `handle_piece_receive`, `check_resume_data` |
| main program | `src/torrentQuickMediaManager.cpp` | `shouldStop` | main loop every 200 ms, input thread, SIGINT handler |
| libtorrent session | external | torrents, pieces, alert queue | asynchronous add, remove, read_piece, add_piece; alerts |
| `ram_storage` | `src/ram_storage.cpp` | `m_file_data`, `m_invalid`, `has_changed_since`, the resume file | `readv`, `writev`, `hash`, `clear_piece`, `release_files` |
| `ram_disk_io` | `src/ram_disk_io.cpp` | slots, posted handlers | one `async_*` method per libtorrent request |
| rendering | `src/media_mkv.cpp:214-506` | codec contexts, blocks, frames | decode loop, scaling, WebP encoding, sending |
| `torrentAdder` | `src/torrentAdder.cpp` | none | sends one request |

How they interact:

- The **input thread** calls `add_torrent_download` under the manager's mutex;
  that queues an asynchronous add. The **main thread** calls `handle_loop` under
  the same mutex: it pops the alerts, lets them act on torrents and jobs, calls
  `process()` of every job, deletes finished jobs, moves torrents without jobs
  to the upload list and removes those that are on it for 15 minutes.
- A **job** asks the session for pieces by priority. The session answers with a
  `piece_finished_alert`; the manager calls `read_piece`; the session answers
  with a `read_piece_alert`, which the manager offers to every job of the
  torrent. Alerts may be dropped, reads may fail, and pieces may have been there
  before; ten seconds without a piece make a job ask again.
- A job that has all its data starts a **detached thread** that decodes, encodes,
  sends and then writes the verdict into `m_mode`, without a lock.
- The session calls `ram_disk_io` on **its own thread**; `check_resume_data` reads
  the same resume file on the main thread. A call acts at once, its answer is
  posted and comes later; a read lends a pointer into the stored piece.
- **torrentAdder** and other clients connect to the input thread, which serves one
  connection at a time with blocking reads.

What is hard in it: alerts that are lost, come late or concern torrents that are
gone; a job phase that reads what an earlier phase had to ask for; byte ranges,
pieces and files that do not start or end together; a thread nobody joins;
the same torrent handed over twice; a resume file rewritten in place;
answers and lent buffers that outlive the torrent; decoders that give frames when
they like; clients that hang up or fall silent.

What makes each component correct:

- `media_base`: a job only goes on when all it asked for is there; nothing it
  waits for is forgotten.
- `media_mkv`: every byte it reads was asked for; a well-formed file is accepted;
  one thread, one verdict; the job ends.
- `media_torrent_manager`: counters agree with jobs; no torrent is forgotten or
  removed under its jobs; torrents retire; the program does not end by itself.
- `ram_storage`: verified pieces stay readable; what is saved comes back.
- `ram_disk_io`: each request is answered once, on the storage it was made for,
  with a buffer that lives until it is returned.
- rendering: every picture shows the same frame number of all clusters, each in its
  cell; a success is a whole message; the thread ends.
- input thread and clients: a request is passed on when all of it has been read and
  nothing else; only a broken request ends the thread.

## 2. Modules

| Module | Models | Lines of code |
|---|---|---|
| `MediaBase` | `media_base`, the piece alerts of `handle_loop`, the session's pieces | `media_base.cpp`, `media_torrent_manager.cpp:43-59` |
| `MediaMkv` (extends `MediaBase`) | `media_mkv`, its detached thread | `media_mkv.cpp:136-212, 331-361, 504-867` |
| `JobLifecycle` | abstract: what a job promises the manager | implemented by `MediaMkv` |
| `MediaTest` (extends `MediaBase`) | `media_test` | `media_test.cpp` |
| `TorrentManager` | the manager, main loop, input thread, session, rendering threads | `media_torrent_manager.cpp:23-184`, `torrentQuickMediaManager.cpp` |
| `ResumeFile` | `ram_storage` and `check_resume_data` | `ram_storage.cpp`, `media_torrent_manager.cpp:187-234` |
| `RamDiskIo` | `ram_disk_io` with its storages, the calls the session makes | `ram_disk_io.cpp`, `ram_storage.cpp` |
| `DiskInterface` | abstract: what the session expects of a disk interface | implemented by `RamDiskIo` |
| `DecodeLoop` | the detached thread from its first context to the message sent | `media_mkv.cpp:225-503` |
| `InputProtocol` | input thread, connections, `torrentAdder` and other clients | `torrentQuickMediaManager.cpp:15-66`, `torrentAdder.cpp:34-57` |
| `MediaBaseProofs` | lemmas about `MediaBase` for the two modules below | |
| `MediaMkvProofs`, `MediaTestProofs` | theorems about `MediaMkv` and `MediaTest` | |
| `TorrentManagerProofs`, `ResumeFileProofs`, `RamDiskIoProofs`, `DecodeLoopProofs`, `InputProtocolProofs` | theorems about the module each is named after | |
| `MCMediaMkv`, `MCMediaTest`, `MCTorrentManager`, `MCResumeFile`, `MCRamDiskIo`, `MCDecodeLoop`, `MCInputProtocol` | instances for TLC | |

**MediaBase.** Every method runs on the main thread under the mutex, so a call is
one action. Each operator has the name of its method; an early return is a
disjunct that leaves the state alone. A piece is a number; its data is always its
content, so `m_piece_data` is a set; of `m_last_receive` only "more than ten
seconds ago" is kept (`overdue`). The session is `wanted` (priority),
`have`, `finished` (alerts queued) and `reading` (reads asked for). Losses are
counted together and bounded by `MaxLoss`: a dropped `piece_finished_alert`, a
dropped `read_piece_alert` and a failed read.

**MediaMkv.** A file is a record of where its elements lie and of the first thing
the parser objects to (`flaw`); libebml and libmatroska are not modelled. What
the parser can read depends on the pieces the job holds: `ReadOk` says that
`io_helper` delivers bytes of the file, through the piece lookup as coded, which
works with offsets in the file and not in the torrent. `process_ready` is one
action for each phase and outcome; `Phase` is the pattern of the later phases.
`m_cluster_list` is computed from the cue points with the code's formula.
The detached thread reads cluster after cluster, then decides; decoding,
encoding and sending are one nondeterministic verdict here and the subject of
`DecodeLoop`. `spinning` stands for
`io_helper::read` in its endless loop, with the mutex held, and `crashed` for the null
pointer `handle_get_seekhead` uses unchecked when a `Seek` has no `SeekID`, or the
SeekHead is not found again (`NullSeek`): the main thread takes no more steps.

**TorrentManager.** One action of the main thread for each alert, job and list
entry, so that the session, the rendering threads and the clock interleave with
`handle_loop`; the two lists are swept entry by entry, with the erasing loops' iterator as
a position (`it`). The input thread only gets in while the main thread sleeps,
because of the mutex. A job is abstracted to the phase of `JobLifecycle`. A torrent
object is a number; using a dead one throws, which ends the program
(`exited` says why), except `info_hash()`, which returns the zero hash. A torrent goes by
its best hash, the one `handle_torrent_add` looks up; the pending entry of a magnet link
is made under its v1 hash (`PendingHash`), which is another one when the torrent has a v2
hash. That a hybrid torrent may first be known by its v1 hash is left out. The alert
that hands a torrent over may be dropped by a full queue (`unheard`, until another
comes). `Defects` says what the files of a torrent may make the program do: the null
pointer and the endless read of `MediaMkv` on the main thread, which then holds the mutex
for ever (`pc = "spinning"`), and the null block of `DecodeLoop`.

**ResumeFile.** The file is a sequence of cells and is rewritten in place from its
start, one cell a step, so a crash leaves a prefix of the new content over the
old. Header rounding and the reader's refills are modelled as coded. The session
hashes a piece when all its blocks are there. `Crash` may happen in any state, and
`WriteFails` is a full disk, which the code takes for a success.

**RamDiskIo.** A call of the session is one action: its effect on the storage and
the handler it posts to `m_ioc`; running the handler is another. `m_torrents` and
`m_free_slots` are as in the code; a storage has the number of its torrent
object, so that a slot used twice shows. A read posts the storage its span points
into, and `Behind` is what the span shows when it is looked at. The session
(external) makes the calls libtorrent makes, in the order its own state allows: it
hashes what it has written, has `smart_ban` read a failed piece before it clears
it, disconnects the peers before it stops the storage, and gives the storage up in
the handler of `async_stop_torrent`. Blocks, the file's layout and its crashes
are in `ResumeFile`; here a flush is one step and so is reading the file back. A flush of
an `Unwritable` torrent may fail: the file is not opened, or any mixture of old, new and
missing pieces is left and taken for a success (`SaveFails`). The file of a `Misread` torrent
comes back with other bytes in each piece, as `resume_misaligned` finds (`ReadBack`). `DiskInterface` knows neither
slots nor pointers: a call has its result at once and is answered in its turn.

**DecodeLoop.** One action for each branch of the loop over pictures, clusters and
packets. The decoders are external and as free as libavcodec's documentation allows:
they hold frames back, ask for more at any time, drain after a packet without
data, and fail once or for ever. A pixel holds the number of the frame drawn
there; the offsets of a cell are computed as coded.

**InputProtocol.** One action for each blocking call of the input thread, one byte a
step on the client's side. Clients are `torrentAdder`, with the payload it computes
from the byte-swapped length, or others that send exactly a request; any may be
ended or fall silent at any moment. What `add_torrent_download` does is in
`TorrentManager`; here it waits for the mutex, which `handle_loop` may keep for ever
(`program = "stuck"`) or the program end with.

How they compose: `InputProtocol` ends where `TorrentManager`'s
`add_torrent_download` begins, `TorrentManager`'s jobs are `MediaMkv` jobs by their
`JobLifecycle`, `MediaMkv`'s thread hands its clusters to `DecodeLoop`, whose
verdicts it takes in any order, and the storage of `RamDiskIo` is `ResumeFile`
with a block for a piece.

## 3. Runs

| Run | Question | Instance |
|---|---|---|
| `mkv_files` | `TypeOK`, `WellFormedFileAccepted`, `ReadsCovered`, `ImplementsLifecycle`, `JobEnds` | fourteen files over six pieces: well-formed, flawed, shifted, too few cues, late SeekHead; one loss, some pieces there before |
| `mkv_short` | `JobEnds` | a torrent shorter than the search, two losses |
| `test_pass` | `TypeOK`, `NoVerdictOnMissingData`, `SampleAtHandSucceeds` | six sizes and offsets over five pieces |
| `manager_requests` | `TypeOK`, `CounterCoversJobs`, `CounterCountsJobs`, `RequestHonoured`, `EndsOnlyWhenAsked`, `NoTorrentForgotten` | two torrents (two files; one file, hybrid, with every defect), two requests of any kind |
| `manager_retire` | `TorrentsRetire` | two torrents, one of them hopeless, hybrid and with every defect, two requests |
| `resume_aligned` | `TypeOK`, `VerifiedIsReadable`, `UnchangedIsSaved`, `AlignedFileResumed` | two pieces of two blocks and one, a header of two blocks |
| `disk` | `TypeOK`, `SlotsKeptApart`, `LentBuffersStay`, `VerifiedIsSaved`, `ImplementsDisk` | two torrents, one unwritable and one misread, two storages, a piece each, two handlers under way |
| `render` | `TypeOK`, `PacketsInOrder`, `DrawsInside`, `GridInStep`, `EndsWithShortest`, `ReportedAsSent`, `SafeOnTrack`, `RenderingEnds` | a grid of four clusters, twelve layouts of their blocks, three sizes of the picture, one error |
| `input` | `TypeOK`, `WholeRequests`, `EndsOnlyFor`, `RequestsArrive` | two clients, five path lengths, a byte of four values |

The following runs find a disagreement between the code and what its comments
say; each is expected to be violated.

| Run | What it shows |
|---|---|
| `mkv_presearch` | "we presearch 1MB, so must found": not for a file behind the first piece of the torrent, because the piece is looked up by the offset in the file |
| `render_null` | "no more block": when the blocks left are all of another track the search ends with a null block, which the next line uses; the same comment 20 lines below ends the animation |
| `resume_misaligned` | with more than 1016 pieces the header is in general read shorter than it was written, and nothing saved is loaded |

Other disagreements seen while modelling have no run of their own:

- `media_base.hpp:35` says a failing `process_final` resets the mode to
  `CAN_FINISH`; `process_final_fail` sets `FAIL`, so nothing is tried again.
- `media_base.cpp:80` asserts that a range reaches the end of the file; the first
  call of every job, `map_byte_range(0, 1 MB)`, does not for a file of more than a
  megabyte. `media_base.cpp:108` asserts that the offset looked up is in the file;
  a scan that finds no SeekHead looks up the end. Both are compiled out of a
  release build.
- `media_base.hpp:58` says that `CAN_FINISH` means "have enough data";
  `media_test::process_ready` sets it with pieces still awaited, which are then
  refused, so the job is only decided when they were there before.
- `torrentAdder.cpp:45` sizes its payload by the length in network order: a path of
  n < 256 bytes is sent with n times 16 MB behind it. The manager reads the path
  and closes the connection, so the padding does no harm; but where so much cannot be
  allocated the adder closes without a request, and the manager stops.

**What the properties say.**

- `ReadsCovered`: when a phase runs, and while the detached thread does, every
  byte it reads lies in a piece that was received. This is the contract between
  the phases: each must ask for what the next reads.
- `WellFormedFileAccepted`: no well-formed file at the start of its torrent fails
  for what the parser could not read.
- `JobEnds`: every job comes to a verdict unless it waits for a piece beyond the
  torrent, spins, or crashes over its SeekHead. The three exceptions are real: the
  search prefix grows without regard to the torrent's size, `read` does not end at
  a short last piece, and `media_mkv.cpp:603` and `:616` use what they found unchecked.
- `ImplementsLifecycle`: the manager deletes a job once `is_finish()` holds; so
  there must never be a second thread, nor a verdict taken back.
- `CounterCoversJobs`: a counter below the jobs of its torrent would put the torrent on
  the removal list while they run. It may be above them: a job whose torrent was removed
  counts down the zero hash.
- `CounterCountsJobs` says that this is the only way: what the counters of the torrents
  hold (`Units`) is the jobs left and those counted off under the zero hash.
- `RequestHonoured`: with one request for each torrent everything goes as intended,
  except that a magnet link to be uploaded is not recognised when the torrent's best hash
  is not its v1 hash (`Recognised`): it gets jobs like any other. Without the exception
  TLC finds that.
- `EndsOnlyWhenAsked`: with one request for each torrent the main thread stops by itself
  only for a late `piece_finished_alert`, or over a file that was asked for and has just
  that defect: its SeekHead, its last blocks, or its end in a short last piece. A torrent
  asked for twice may end it in five more ways, for example when the second
  upload entry of a removed torrent is due; `exited` names them all.
- `NoTorrentForgotten`, `TorrentsRetire`: no leak of torrents in the session, but for those
  whose alert the full queue dropped, which nothing in the code looks for again. A read that
  never returns keeps every torrent (`TorrentsRetire` excepts it): it has the mutex.
- `AlignedFileResumed`, `UnchangedIsSaved`: a crash loses nothing that was on disk
  unless the file is just being rewritten, or writing it failed.
- `SlotsKeptApart`: a slot is only pushed once and only after its storage is gone,
  however adding, stopping and queued handlers interleave.
- `LentBuffersStay`: the pointers are safe because a piece's buffer is allocated
  whole and never freed before the storage goes, and because the session stops the
  storage after its peers are gone.
- `VerifiedIsSaved`: removing a torrent saves it, although a torrent added again starts
  with an empty storage whose flush replaces the file. The exceptions are collected in
  `spoiled`: a torrent added again while its old storage was still stopping reads the file
  before the old storage has written it, and its own flush then writes over the other's; a
  flush failed; or the file was misread, its pieces fail their hash, and the next
  flush writes over the saved ones. Without each of them TLC finds verified pieces lost.
- `ImplementsDisk`: a read is answered with what the piece held when it was asked
  for, although the answer is a pointer that is followed later.
- `PacketsInOrder`, `GridInStep`, `EndsWithShortest`: clusters with other tracks
  between, whose decoders ask for more at different times, stay in step; the
  animation loses at most the frame drawn for an unfinished picture.
- `DrawsInside`: sizes that are no multiple of the grid leave a margin and never
  reach behind the image.
- `SafeOnTrack` is the other side of `render_null`: a cluster that ends with a block of
  the track never runs into the null block.
- `RenderingEnds`: the thread ends unless a decoder reports an error for ever, which
  `media_mkv.cpp:386-399` ignores for ever.
- `WholeRequests`, `EndsOnlyFor`, `RequestsArrive`: padding and other clients' bytes are
  never taken for a path; the thread ends only for a request that is cut off, too
  long or empty; and only a silent client, or a `handle_loop` that never gives the mutex
  back, can hold up the others. `WholeRequests` is about the bytes read: the path is not
  terminated, and the conversion may read on behind it.

**Bounds and why they are enough.** Pieces have four bytes and the torrent six
pieces, so that elements start, end and cross at boundaries, the last piece is
short, and the search takes more than one step. Two clusters are wanted of six
cue points; the formula then uses both ends of the range, and the proofs cover
every number. One loss is enough to need the retry, two to need it again
(`mkv_short`). Two requests are enough for a torrent to be handed over twice,
and each of the reasons in `exited` is reachable with them.
Two storages reuse a slot, add a torrent again or stand side by side; two handlers
under way let one run while a later call has acted. The hybrid torrent with every defect and
the sound one without show that a defect of one torrent is only excused when it was asked
for. A grid of four has a row
and a column before and after each cell, and layouts of up to five blocks put
other tracks before, between and behind. Two clients are one that is served and one
that waits; lengths of one, two and four are read by `torrentAdder` as more, too
many and too few, nine does not fit a buffer, and a socket that holds two bytes
makes a path come in parts; of two clients that differ only in their names one order is
enough (`InOrder`). In `ResumeFile` the header has two blocks, so both read paths are taken.
`MaxNumber` only bounds the quantifier of a fairness condition.

**Fairness.** `handle_loop` runs every 200 ms as long as the program does and no read
spins in it, so each of its actions is weakly fair; the session's threads run; a wanted piece is
downloaded in the end, since a swarm without a piece is no fault of the code; a
detached thread ends. In `TorrentManager` a job that is not hopeless goes on in
the end (strong fairness, because the main loop comes to each job again and
again), which is what `JobEnds` shows of `MediaMkv`; going on includes ending the program or
spinning, where its files have that defect. Its thread ends likewise. Nothing is assumed of
clients, losses, other jobs' requests or the metadata of a magnet link. In `DecodeLoop` the
thread runs and every call it makes returns; in `InputProtocol` the input
thread, the main thread and clients that have not broken off run, unless the main thread is
stuck in `handle_loop`, where the input thread waits for its mutex; nobody has to hang
up. `ResumeFile` and `RamDiskIo` have no liveness property.

A run has `CHECK_DEADLOCK FALSE` where a job that has its verdict, or a program
that has ended, takes no more steps.

## 4. Proofs

Every invariant that a passing run checks, and both refinements, are also theorems: they
hold for every value of the constants the module's assumption allows, not just for the
instances of section 3. Each module of proofs follows one pattern: an inductive invariant
made of named parts, a lemma for each action (or for what several actions do alike), and
theorems that weaken the invariant to the property.

| Module, assumption | Theorems: `Spec => []...` |
|---|---|
| `MediaMkvProofs`, `BaseAssumption` and `MkvAssumption` | `TypeCorrect`: `TypeOK`; `ReadsAlwaysCovered`: `ReadsCovered`; `WellFormedAlwaysAccepted`: `WellFormedFileAccepted`; `LifecycleImplemented`: the refinement `ImplementsLifecycle` |
| `MediaTestProofs`, `BaseAssumption` and `TestAssumption` | `TypeCorrect`: `TypeOK`; `NeverDecidedWithoutData`: `NoVerdictOnMissingData` |
| `TorrentManagerProofs`, `ManagerAssumption` | `TypeCorrect`: `TypeOK`; `CountersCover`: `CounterCoversJobs`; `CountersCount`: `CounterCountsJobs`; `NoneForgotten`: `NoTorrentForgotten`; `RequestsHonoured`: `RequestHonoured`; `EndsForAReason`: `EndsOnlyWhenAsked` |
| `ResumeFileProofs`, `ResumeAssumption` | `TypeCorrect`: `TypeOK`; `VerifiedStaysReadable`: `VerifiedIsReadable`; `UnchangedStaysSaved`: `UnchangedIsSaved`; `SavedComesBack`: `AlignedFileResumed` |
| `RamDiskIoProofs`, `DiskAssumption` | `TypeCorrect`: `TypeOK`; `SlotsAlwaysApart`: `SlotsKeptApart`; `LentBuffersAlwaysStay`: `LentBuffersStay`; `VerifiedAlwaysSaved`: `VerifiedIsSaved`; `DiskImplemented`: the refinement `ImplementsDisk` |
| `DecodeLoopProofs`, `DecodeAssumption` | `TypeCorrect`: `TypeOK`; `PacketsAlwaysInOrder`: `PacketsInOrder`; `CellsInside`: `DrawsInside`; `GridAlwaysInStep`: `GridInStep`; `ShortestEnds`: `EndsWithShortest`; `ReportsTrue`: `ReportedAsSent`; `SafeOnTrackAlways`: `SafeOnTrack` |
| `InputProtocolProofs`, `InputAssumption` | `TypeCorrect`: `TypeOK`; `RequestsAlwaysWhole`: `WholeRequests`; `OnlyBadRequestsEnd`: `EndsOnlyFor` |

What the assumptions say of the code: numbers are numbers; pieces, slots, grids and
headers are not empty; a file lies inside its torrent and its elements where Matroska puts
them (a header within the 20 bytes asked for, the SeekHead behind the head of its
segment); the zero hash is the hash of no torrent, and neither is the v1
hash of one that has a v2 hash; a path has a length of two digits to
some base. The bounds `MaxLoss`, `MaxRequests`, `MaxNumber`, `MaxStorages`, `MaxPosts` and
`MaxFaults` are any number.

**MediaBase, MediaMkv, MediaTest.**

- `TypeOK` is inductive: among others a read is only under way for pieces the
  torrent has, because `request_awaiting_pieces` asks `have_piece` first.
- `ReadsCovered` is not: it speaks only of jobs with nothing awaited. `Gathering`
  strengthens it to "received or awaited". Each phase establishes it for the
  next by the pieces it asks for (lemmas `HeaderAskedFor`, `WholeAskedFor`,
  resting on `RangeCovers`: `map_byte_range` holds the piece of each byte), and
  the whole of an element is covered although only its data is asked for,
  because its header was read before and pieces are kept. `PickInRange` shows that
  the chosen clusters are cue points for every number of cues that passes the check.
- The lifecycle needs `OneThread`, which ties the mode to the thread.
- `WellFormedFileAccepted` combines the two: a byte that is held is readable for
  a file at the start of the torrent (`HeldIsReadable`), and the search finds the
  SeekHead before its limit (`Searching`, an invariant of the search length).
- `NoVerdictOnMissingData` of `MediaTest` needs `Asked`: the start of the file is asked
  for before its sample, the sample before `CAN_FINISH`, and no verdict falls with a piece
  awaited. A step of `media_base` never loses a piece asked for or received
  (`BaseActionGathers`), which both kinds of job use.

**TorrentManager.** `Inv` has five parts. `JobsOK` has the counters; a new job is new
because its number is above the largest of its handle (`MaxIsLargest`, `NewJobsAreNew`),
so `handle_file_add` counts exactly what it makes. `AllPlaced`
says that an object that knows its files, and whose alert was not dropped, is in a place:
an alert queued or popped, a list, or a request for its removal. `SingleOK` is what one request for a torrent
means: one add is ever under way, one object is ever made (`AddedOnce`), that object is in
one place only and leaves it alive, with jobs only on the active list (`InOnePlace`), and a
request to upload that can be recognised is remembered until the object is handed over
(`UploadPending`). The proof
rests on `Moves`: every step takes an object from at most one position of one queue and puts
it into at most one position of another, so the five queues are treated alike, whatever
positions shift (`TailIndex`, `WithoutIndex`, `AppendIndex`). Each exception `exited` names
is then met by `DeadIsDouble`: a dead object in a place belongs to a torrent asked for
twice. The null pointers and the endless read are met by the job they happen in: its torrent
was asked for (`JobAskedFor`), and no request is ever taken back. `CounterCountsJobs` is proved on top of `Inv`: a sweep counts off a unit that is
there, because the counter covers the job.

**ResumeFile.**

- `VerifiedIsReadable` says nothing of a piece until it is verified. `Kept` adds
  that a piece with a block received since it was last given up is in memory
  and valid; every piece has a block (`SomeBlock`), so the check of a full piece
  finds it so.
- `UnchangedIsSaved` speaks of the file when nothing has changed. `WrittenSoFar` adds
  what holds while `release_files` writes: the cells written are a prefix of the
  memory's image, and `has_changed_since` stays set until the last.
- `TypeOK` needs that the image has a cell at each position. The slot of a piece is the
  number of pieces below it; that every slot below the number of pieces is the slot of one
  (`RankHits`) would be an induction, and is shown by the smallest slot without
  a piece instead. `UniqueDigits` turns a position back into a slot and a block.
- `AlignedFileResumed` speaks of the moment `check_resume_data` returns. `PromiseOK`
  says that a file that was written to its end still holds the pieces verified then
  (`FlushPromises`), and that nothing but `release_files`, which takes the promise
  back, writes to it. `UntouchedOK` says that the session
  has no block of a piece the reader has not reached, because it downloads nothing
  before the reader is through. `ReaderOK` ties the reader to the file: behind the flags it
  has read (`AtFlags`), or at the slot of the smallest piece left (`AtPieces`),
  so it never finds the file too short; and no promised piece is passed over. Where
  flags and data are not aligned, only the step from the one to the other breaks
  (`PiecesBegin`), which is what `resume_misaligned` shows.

**RamDiskIo.** `Inv` ties the posted handlers to the pieces: which call may be under way in
each state of a piece and a torrent (`QueueOK`, `PieceQueueOK`), that a pointer lent is into
a stored piece of the right storage (`ReadsOK`), that a piece is only cleared behind the
reads of it (`ClearsOK`), and what a piece in each state holds (`PiecesOK`, `BuffersOK`).
`VerifiedIsSaved` needs, for a torrent that is not `spoiled`, that its file has
what its storage has unless that has changed since (`LoneOK`), that a piece once verified is
only written over from the file (`KeptOK`), and that a piece the session knows is not on
offer any more (`OfferedOK`). `ImplementsDisk` maps each call to `Open`, `Write`, `Clear` or
`Ask` and each handler to `Answer` or `Close`; the result of a read, a pointer here and a
value there, is the same because of `ReadsOK` and `PiecesOK`.

**DecodeLoop.** `FedOK` says that each decoder was sent the blocks of its track up to the
current one, none left out; `GivenOK` how many frames each cluster gave while a picture is
made; `PictureOK` that the cells drawn show its frame. That drawing one cell leaves
the others as they are is arithmetic of products and remainders (`UniqueDigits`,
`CellInside`, `CellsApart`, `PlaceInCell`), proved for every size of video and grid.

**InputProtocol.** `StageOK` ties the place of the thread to the bytes it has taken from the
connection, `TurnsOK` keeps connections apart, and `WrittenOK` says that a client that ends
without a fault has written its payload; so a read that comes short is a fault
`EndsOnlyFor` names.

**Only model-checked:** the liveness properties (`JobEnds`, `SampleAtHandSucceeds`,
`TorrentsRetire`, `RenderingEnds`, `RequestsArrive`), which need fairness and are outside the
prover's reach, and the three properties that are expected to fail.

## 5. What is not modelled

- The codecs, the scaler, the WebP encoder and the Matroska parser: libraries, whose
  results are free within what their documentation promises.
- The reset of piece priorities when resume data is offered; `move_storage`, which
  only changes where the file is written, and `set_file_priority`, whose result nothing
  reads.
- A crash in `RamDiskIo`, and the cells of a file being written: `ResumeFile` has them.
- A hybrid torrent that the session first knows by one hash and later by another.
- Alerts dropped that change no list of the manager: those of finished and read pieces are
  in `MediaBase`, the others are only logged.
- The destruction of the process: `main` returns while detached threads may run.
- Data races as such: `m_mode` is written by the detached thread and read by the
  main thread; the model takes each access as atomic, which is what the
  platforms it is built for do with a byte.
- Floating point in the choice of clusters: the index may come out one lower
  than the exact value (first with 397 cue points), which is still a cue point.
- `custom_storage.cpp` (libtorrent's example, part of no target) and
  `umplayer.cpp` (a separate launcher).

## 6. Plan

Composition: two `MediaBase` jobs of one torrent that share pieces, alerts and
losses; the jobs of `TorrentManager` shown to be `JobLifecycle` instances; a
`RamDiskIo` storage shown to keep the part of `ResumeFile` that no crash touches.
