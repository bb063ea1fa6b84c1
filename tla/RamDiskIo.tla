------------------------------ MODULE RamDiskIo ------------------------------
(***************************************************************************)
(* ram_disk_io (include/ram_disk_io.hpp, src/ram_disk_io.cpp): the disk    *)
(* interface given to the libtorrent session, one ram_storage per torrent. *)
(* A call acts on the storage at once, on the session's thread, and posts  *)
(* its handler; a read hands out a pointer into the storage, not a copy.   *)
(*                                                                         *)
(* Simplifications:                                                        *)
(*  - the session (external) makes its calls and runs the handlers posted  *)
(*    to m_ioc in any order its own rules allow: it writes a piece it does *)
(*    not have, hashes what it wrote, has smart_ban read a piece that      *)
(*    failed before it clears it, and gives its storage_holder up in the   *)
(*    handler of async_stop_torrent;                                       *)
(*  - a piece is one block; blocks, the layout of the resume file and      *)
(*    crashes are in ResumeFile, here a flush is one step and so is        *)
(*    reading the file back: what a flush that fails leaves is any mixture *)
(*    of old and new pieces, and a file whose flags do not fill its header *)
(*    comes back with other bytes in each piece;                           *)
(*  - a storage is numbered like the torrent object it was made for;       *)
(*  - async_delete_files, async_rename_file, async_move_storage,           *)
(*    async_set_file_priority and async_hash2 only answer.                 *)
(***************************************************************************)
EXTENDS Integers, Sequences

CONSTANTS
  Torrents,     \* info hashes
  Pieces,       \* the pieces of a torrent
  Misread,      \* torrents of so many pieces that check_resume_data misplaces the data
  Unwritable,   \* torrents whose resume file may fail to be opened or written
  MaxStorages,  \* bound on the torrents ever added
  MaxPosts      \* bound on the handlers posted and not run

ASSUME DiskAssumption ==
  /\ Pieces # {}
  /\ Misread \subseteq Torrents
  /\ Unwritable \subseteq Torrents
  /\ MaxStorages \in Nat
  /\ MaxPosts \in Nat

VARIABLES
  \* ram_disk_io
  m_torrents,         \* the storage in each slot, 0 for none
  m_free_slots,
  m_ioc,              \* the handlers posted
  \* the ram_storage objects
  m_file_data,        \* the content of each piece, "none" without an entry
  m_invalid,
  has_changed_since,
  \* the resume file of each torrent
  file,
  \* the session and the manager
  torrentOf,          \* the torrent of each torrent object
  holder,             \* the slot in its storage_holder
  phase,              \* what becomes of the torrent object
  state,              \* what becomes of each of its pieces
  offered,            \* the pieces check_resume_data has read and add_piece not written
  buffers,            \* disk buffers lent to peers and not freed
  \* history
  verified,           \* the pieces of each torrent that ever passed their hash
  spoiled             \* the torrents that had two storages at a time, a flush that
                      \* failed, or a resume file that came back as something else

ioVars == <<m_torrents, m_free_slots>>
storageVars == <<m_file_data, m_invalid, has_changed_since>>
sessionVars == <<torrentOf, holder, phase, state, offered, buffers>>
historyVars == <<verified, spoiled>>
vars == <<ioVars, m_ioc, storageVars, file, sessionVars, historyVars>>

Contents == {"none", "good", "bad"}
Nothing == [p \in Pieces |-> "none"]
Unread == [p \in Pieces |-> "unread"]

Init ==
  /\ m_torrents = <<>> /\ m_free_slots = <<>> /\ m_ioc = <<>>
  /\ m_file_data = <<>> /\ m_invalid = <<>> /\ has_changed_since = <<>>
  /\ file = [t \in Torrents |-> Nothing]
  /\ torrentOf = <<>> /\ holder = <<>> /\ phase = <<>> /\ state = <<>>
  /\ offered = <<>> /\ buffers = {}
  /\ verified = [t \in Torrents |-> {}] /\ spoiled = {}

Objects == DOMAIN torrentOf
StorageOf(n) == m_torrents[holder[n]]

-----------------------------------------------------------------------------
(* ram_storage.                                                            *)

writev(s, p, c) ==
  /\ m_file_data' = [m_file_data EXCEPT ![s][p] = c]
  /\ m_invalid' = [m_invalid EXCEPT ![s] = @ \ {p}]
  /\ has_changed_since' = [has_changed_since EXCEPT ![s] = TRUE]

\* Mutant: the piece's buffer goes with it.
ClearErases(s, p) ==
  /\ m_file_data' = [m_file_data EXCEPT ![s][p] = "none"]
  /\ m_invalid' = [m_invalid EXCEPT ![s] = @ \union {p}]
  /\ UNCHANGED has_changed_since

clear_piece(s, p) ==
  /\ m_invalid' = [m_invalid EXCEPT ![s] = @ \union {p}]
  /\ UNCHANGED <<m_file_data, has_changed_since>>

Readable(s, p) == m_file_data[s][p] # "none" /\ p \notin m_invalid[s]

\* What readv returns: the storage its span points into, 0 for an error.
readv(s, p) == IF Readable(s, p) THEN s ELSE 0

\* hash does not look at m_invalid.
hash(s, p) == m_file_data[s][p]

\* Mutant: nothing is written.
ReleaseNothing(s, t) ==
  /\ has_changed_since' = [has_changed_since EXCEPT ![s] = FALSE]
  /\ UNCHANGED <<file, spoiled>>

Saves(s, t) ==
  /\ file' = IF has_changed_since[s] THEN [file EXCEPT ![t] = m_file_data[s]] ELSE file
  /\ has_changed_since' = [has_changed_since EXCEPT ![s] = FALSE]
  /\ UNCHANGED spoiled

\* What may be in the file when not all of it was written over.
TornFiles(s, t) ==
  {torn \in [Pieces -> Contents] :
     \A p \in Pieces : torn[p] \in {file[t][p], m_file_data[s][p], "bad", "none"}}

\* The file cannot be opened, or not all is written and nobody looks ("assume write
\* success").
SaveFails(s, t) ==
  /\ t \in Unwritable
  /\ has_changed_since[s]
  /\ \/ UNCHANGED <<file, has_changed_since>>
     \/ /\ \E torn \in TornFiles(s, t) : file' = [file EXCEPT ![t] = torn]
        /\ has_changed_since' = [has_changed_since EXCEPT ![s] = FALSE]
  /\ spoiled' = spoiled \union {t}

release_files(s, t) == Saves(s, t) \/ SaveFails(s, t)

-----------------------------------------------------------------------------
(* ram_disk_io.                                                            *)

Post(call, n, p, pointer, result) ==
  /\ Len(m_ioc) < MaxPosts
  /\ m_ioc' = Append(m_ioc, [call |-> call, of |-> n, piece |-> p,
                             pointer |-> pointer, result |-> result])

AnyPiece == CHOOSE p \in Pieces : TRUE

\* Mutant: the slot is not taken off the stack.
SlotNotPopped ==
  LET reuse == m_free_slots # <<>>
      idx == IF reuse THEN m_free_slots[Len(m_free_slots)] ELSE Len(m_torrents) + 1
      storage == Len(torrentOf) + 1
  IN  /\ m_torrents' = IF reuse THEN [m_torrents EXCEPT ![idx] = storage]
                               ELSE Append(m_torrents, storage)
      /\ m_file_data' = Append(m_file_data, Nothing)
      /\ m_invalid' = Append(m_invalid, {})
      /\ has_changed_since' = Append(has_changed_since, FALSE)
      /\ holder' = Append(holder, idx)
      /\ UNCHANGED m_free_slots

new_torrent ==
  LET reuse == m_free_slots # <<>>
      idx == IF reuse THEN m_free_slots[Len(m_free_slots)] ELSE Len(m_torrents) + 1
      storage == Len(torrentOf) + 1
  IN  /\ m_torrents' = IF reuse THEN [m_torrents EXCEPT ![idx] = storage]
                               ELSE Append(m_torrents, storage)
      /\ m_free_slots' = IF reuse THEN SubSeq(m_free_slots, 1, Len(m_free_slots) - 1) ELSE m_free_slots
      /\ m_file_data' = Append(m_file_data, Nothing)
      /\ m_invalid' = Append(m_invalid, {})
      /\ has_changed_since' = Append(has_changed_since, FALSE)
      /\ holder' = Append(holder, idx)

\* Mutant: the slot before is pushed.
FreesSlotBefore(idx, t) ==
  /\ release_files(m_torrents[idx], t)
  /\ m_file_data' = [m_file_data EXCEPT ![m_torrents[idx]] = Nothing]
  /\ m_invalid' = [m_invalid EXCEPT ![m_torrents[idx]] = {}]
  /\ m_torrents' = [m_torrents EXCEPT ![idx] = 0]
  /\ m_free_slots' = Append(m_free_slots, idx - 1)

\* reset() destroys the storage, which releases its files.
remove_torrent(idx, t) ==
  /\ release_files(m_torrents[idx], t)
  /\ m_file_data' = [m_file_data EXCEPT ![m_torrents[idx]] = Nothing]
  /\ m_invalid' = [m_invalid EXCEPT ![m_torrents[idx]] = {}]
  /\ m_torrents' = [m_torrents EXCEPT ![idx] = 0]
  /\ m_free_slots' = Append(m_free_slots, idx)

async_read(n, p) ==
  /\ Post("read", n, p, readv(StorageOf(n), p), "none")
  /\ UNCHANGED <<ioVars, storageVars, file>>

async_write(n, p, c) ==
  /\ writev(StorageOf(n), p, c)
  /\ Post("write", n, p, 0, "none")
  /\ UNCHANGED <<ioVars, file>>

async_hash(n, p) ==
  /\ Post("hash", n, p, 0, hash(StorageOf(n), p))
  /\ UNCHANGED <<ioVars, storageVars, file>>

async_clear_piece(n, p) ==
  /\ clear_piece(StorageOf(n), p)
  /\ Post("clear", n, p, 0, "none")
  /\ UNCHANGED <<ioVars, file>>

\* Mutant: what was written is freed.
FlushAndFree(n) ==
  /\ release_files(StorageOf(n), torrentOf[n])
  /\ m_file_data' = [m_file_data EXCEPT ![StorageOf(n)] = Nothing]
  /\ Post("release", n, AnyPiece, 0, "none") \/ UNCHANGED m_ioc
  /\ UNCHANGED <<ioVars, m_invalid>>

\* Without a handler there is nothing to post.
async_release_files(n) ==
  /\ release_files(StorageOf(n), torrentOf[n])
  /\ Post("release", n, AnyPiece, 0, "none") \/ UNCHANGED m_ioc
  /\ UNCHANGED <<ioVars, m_file_data, m_invalid>>

async_stop_torrent(n) ==
  /\ Post("stop", n, AnyPiece, 0, "none")
  /\ UNCHANGED <<ioVars, storageVars, file>>

\* The calls that touch no piece.
async_other(n) ==
  /\ Post("other", n, AnyPiece, 0, "none")
  /\ UNCHANGED <<ioVars, storageVars, file>>

-----------------------------------------------------------------------------
(* The session: torrents come and go.                                      *)

Using(n) == phase[n] \in {"checking", "active"}

\* A torrent removed a moment ago may still be stopping.
AddTorrent(t) ==
  /\ Len(torrentOf) < MaxStorages
  /\ \A n \in Objects : torrentOf[n] = t => ~Using(n)
  /\ new_torrent
  /\ torrentOf' = Append(torrentOf, t)
  /\ phase' = Append(phase, "checking")
  /\ state' = Append(state, [p \in Pieces |-> "absent"])
  /\ offered' = Append(offered, Unread)
  /\ spoiled' = IF \E n \in Objects : torrentOf[n] = t /\ phase[n] # "gone"
                THEN spoiled \union {t} ELSE spoiled
  /\ Post("check", Len(torrentOf) + 1, AnyPiece, 0, "none")
  /\ UNCHANGED <<file, buffers, verified>>

\* What comes back from the resume file: each piece, or other bytes in its place.
ReadBack(t) ==
  [p \in Pieces |-> IF t \in Misread /\ file[t][p] # "none" THEN "bad" ELSE file[t][p]]

\* The manager reads the resume file when it hears that the torrent was added.
check_resume_data(n) ==
  /\ Using(n)
  /\ offered[n] = Unread
  /\ LET t == torrentOf[n]
     IN  /\ offered' = [offered EXCEPT ![n] = ReadBack(t)]
         /\ spoiled' = IF ReadBack(t) # file[t] THEN spoiled \union {t} ELSE spoiled
  /\ UNCHANGED <<ioVars, m_ioc, storageVars, file, torrentOf, holder, phase, state, buffers,
                 verified>>

\* remove_torrent of the session: the peers are disconnected, the storage stopped;
\* the manager has nothing left in the queue it added the pieces through.
RemoveTorrent(n) ==
  /\ phase[n] = "active"
  /\ offered[n] = Nothing
  /\ async_stop_torrent(n)
  /\ phase' = [phase EXCEPT ![n] = "stopping"]
  /\ buffers' = {b \in buffers : b.of # n}
  /\ UNCHANGED <<torrentOf, holder, state, offered, historyVars>>

-----------------------------------------------------------------------------
(* The session: the pieces of a torrent.                                   *)

PieceIs(n, p, old) == phase[n] = "active" /\ state[n][p] = old
Becomes(n, p, new) == state' = [state EXCEPT ![n][p] = new]

\* add_piece, from the resume file.
AddPiece(n, p) ==
  /\ PieceIs(n, p, "absent")
  /\ offered[n][p] \in {"good", "bad"}
  /\ async_write(n, p, offered[n][p])
  /\ Becomes(n, p, "writing")
  /\ offered' = [offered EXCEPT ![n][p] = "none"]
  /\ UNCHANGED <<torrentOf, holder, phase, buffers, historyVars>>

\* The jobs ask for pieces after check_resume_data; peers may send wrong data.
Download(n, p, c) ==
  /\ PieceIs(n, p, "absent")
  /\ offered[n] = Nothing
  /\ async_write(n, p, c)
  /\ Becomes(n, p, "writing")
  /\ UNCHANGED <<torrentOf, holder, phase, offered, buffers, historyVars>>

HashPiece(n, p) ==
  /\ PieceIs(n, p, "written")
  /\ async_hash(n, p)
  /\ Becomes(n, p, "hashing")
  /\ UNCHANGED <<torrentOf, holder, phase, offered, buffers, historyVars>>

\* A peer or the manager reads a piece, smart_ban one that failed its hash.
ReadPiece(n, p) ==
  /\ PieceIs(n, p, "have") \/ PieceIs(n, p, "failed")
  /\ async_read(n, p)
  /\ UNCHANGED <<sessionVars, historyVars>>

ClearPiece(n, p) ==
  /\ PieceIs(n, p, "failed")
  /\ async_clear_piece(n, p)
  /\ Becomes(n, p, "clearing")
  /\ UNCHANGED <<torrentOf, holder, phase, offered, buffers, historyVars>>

ReleaseFiles(n) ==
  /\ phase[n] = "active"
  /\ async_release_files(n)
  /\ UNCHANGED <<sessionVars, verified>>

OtherCall(n) ==
  /\ phase[n] = "active"
  /\ async_other(n)
  /\ UNCHANGED <<sessionVars, historyVars>>

\* free_disk_buffer does nothing: the buffer belongs to the storage.
FreeBuffer(b) ==
  /\ buffers' = buffers \ {b}
  /\ UNCHANGED <<ioVars, m_ioc, storageVars, file, torrentOf, holder, phase, state, offered, historyVars>>

-----------------------------------------------------------------------------
(* The session runs a handler.                                             *)

Alive(s) == \E i \in DOMAIN m_torrents : m_torrents[i] = s

\* What a span into a storage shows: nothing once the storage is gone.
Behind(pointer, p) ==
  IF pointer # 0 /\ Alive(pointer) THEN m_file_data[pointer][p] ELSE "none"

Runs(call) ==
  /\ m_ioc # <<>>
  /\ Head(m_ioc).call = call
  /\ m_ioc' = Tail(m_ioc)

\* A handler that finds its torrent aborted does no more.
PieceHandler(call, old, new) ==
  /\ Runs(call)
  /\ LET h == Head(m_ioc)
     IN  state' = IF PieceIs(h.of, h.piece, old)
                  THEN [state EXCEPT ![h.of][h.piece] = new] ELSE state
  /\ UNCHANGED <<ioVars, storageVars, file, torrentOf, holder, phase, offered, buffers, historyVars>>

CheckHandler ==
  /\ Runs("check")
  /\ phase' = [phase EXCEPT ![Head(m_ioc).of] = "active"]
  /\ UNCHANGED <<ioVars, storageVars, file, torrentOf, holder, state, offered, buffers, historyVars>>

HashHandler ==
  /\ Runs("hash")
  /\ LET h == Head(m_ioc)
         t == torrentOf[h.of]
         counts == PieceIs(h.of, h.piece, "hashing")
         good == h.result = "good"
     IN  /\ state' = IF counts
                     THEN [state EXCEPT ![h.of][h.piece] = IF good THEN "have" ELSE "failed"]
                     ELSE state
         /\ verified' = IF counts /\ good THEN [verified EXCEPT ![t] = @ \union {h.piece}]
                                          ELSE verified
  /\ UNCHANGED <<ioVars, storageVars, file, torrentOf, holder, phase, offered, buffers, spoiled>>

\* The buffer is given to a peer, or copied and freed at once.
ReadHandler ==
  /\ Runs("read")
  /\ LET h == Head(m_ioc)
         b == [of |-> h.of, pointer |-> h.pointer, piece |-> h.piece,
               content |-> Behind(h.pointer, h.piece)]
     IN  buffers' \in {buffers} \union
           (IF PieceIs(h.of, h.piece, "have") /\ h.pointer # 0 THEN {buffers \union {b}} ELSE {})
  /\ UNCHANGED <<ioVars, storageVars, file, torrentOf, holder, phase, state, offered, historyVars>>

\* The last handler of a torrent gives its storage_holder up.
StopHandler ==
  /\ Runs("stop")
  /\ LET n == Head(m_ioc).of
     IN  /\ remove_torrent(holder[n], torrentOf[n])
         /\ phase' = [phase EXCEPT ![n] = "gone"]
         /\ state' = [state EXCEPT ![n] = [p \in Pieces |-> "absent"]]
  /\ UNCHANGED <<torrentOf, holder, offered, buffers, verified>>

OtherHandler ==
  /\ Runs("release") \/ Runs("other")
  /\ UNCHANGED <<ioVars, storageVars, file, sessionVars, historyVars>>

WriteHandler == PieceHandler("write", "writing", "written")
ClearHandler == PieceHandler("clear", "clearing", "absent")

RunHandler ==
  \/ CheckHandler
  \/ WriteHandler
  \/ HashHandler
  \/ ReadHandler
  \/ ClearHandler
  \/ StopHandler
  \/ OtherHandler

TorrentStep(n) ==
  \/ check_resume_data(n)
  \/ RemoveTorrent(n)
  \/ ReleaseFiles(n)
  \/ OtherCall(n)

PieceStep(n, p) ==
  \/ AddPiece(n, p)
  \/ \E c \in {"good", "bad"} : Download(n, p, c)
  \/ HashPiece(n, p)
  \/ ReadPiece(n, p)
  \/ ClearPiece(n, p)

Next ==
  \/ \E t \in Torrents : AddTorrent(t)
  \/ \E n \in Objects : TorrentStep(n) \/ \E p \in Pieces : PieceStep(n, p)
  \/ \E b \in buffers : FreeBuffer(b)
  \/ RunHandler

Spec == Init /\ [][Next]_vars

-----------------------------------------------------------------------------
(* Properties.                                                             *)

PieceStates == {"absent", "writing", "written", "hashing", "have", "failed", "clearing"}
Handler == [call : {"check", "write", "read", "hash", "clear", "release", "stop", "other"},
            of : Objects, piece : Pieces, pointer : Objects \union {0}, result : Contents]
Buffer == [of : Objects, pointer : Objects, piece : Pieces, content : {"good", "bad"}]

\* Every variable holds a value of its type.
TypeOK ==
  /\ m_torrents \in Seq(Objects \union {0})
  /\ m_free_slots \in Seq(DOMAIN m_torrents)
  /\ m_ioc \in Seq(Handler)
  /\ torrentOf \in Seq(Torrents)
  /\ m_file_data \in [Objects -> [Pieces -> Contents]]
  /\ m_invalid \in [Objects -> SUBSET Pieces]
  /\ has_changed_since \in [Objects -> BOOLEAN]
  /\ file \in [Torrents -> [Pieces -> Contents]]
  /\ holder \in [Objects -> DOMAIN m_torrents]
  /\ phase \in [Objects -> {"checking", "active", "stopping", "gone"}]
  /\ state \in [Objects -> [Pieces -> PieceStates]]
  /\ offered \in [Objects -> [Pieces -> Contents \union {"unread"}]]
  /\ \A b \in buffers : b \in Buffer
  /\ verified \in [Torrents -> SUBSET Pieces]
  /\ spoiled \subseteq Torrents

\* However torrents come and go, each that is not gone has a slot to itself with its
\* own storage in it, and every other slot is empty and on the stack just once.
SlotsKeptApart ==
  /\ \A n \in Objects : phase[n] # "gone" => StorageOf(n) = n
  /\ \A i \in DOMAIN m_torrents :
       \/ \E n \in Objects : phase[n] # "gone" /\ holder[n] = i
       \/ m_torrents[i] = 0 /\ \E k \in DOMAIN m_free_slots : m_free_slots[k] = i
  /\ \A k, l \in DOMAIN m_free_slots : m_free_slots[k] = m_free_slots[l] => k = l
  /\ \A k \in DOMAIN m_free_slots : m_torrents[m_free_slots[k]] = 0

\* A buffer lent to a peer shows the same verified piece until it is freed: "allocate
\* all to avoid relocate data -> lost readv pointer".
LentBuffersStay ==
  \A b \in buffers : b.content = "good" /\ Behind(b.pointer, b.piece) = "good"

\* What a torrent has verified is in its resume file when none of its storages is
\* left, over any number of removals and additions, each of which starts with an empty
\* storage whose first flush replaces the file: unless the torrent once had two
\* storages, a flush of it failed, or its file came back as something else.
VerifiedIsSaved ==
  \A t \in Torrents \ spoiled :
    (\A n \in Objects : torrentOf[n] = t => phase[n] = "gone")
      => \A p \in verified[t] : file[t][p] = "good"

\* The disk interface as the session understands it: the storages in use, what a read
\* of each piece gives, and the calls not answered yet, a read with what its pointer
\* shows when its handler runs.
InUse == {n \in Objects : phase[n] # "gone"}
Shown == [n \in Objects |-> [p \in Pieces |->
            IF phase[n] # "gone" /\ Readable(n, p) THEN m_file_data[n][p] ELSE "none"]]
Waiting == [k \in DOMAIN m_ioc |->
              [call |-> m_ioc[k].call, of |-> m_ioc[k].of, piece |-> m_ioc[k].piece,
               result |-> IF m_ioc[k].call = "read"
                          THEN Behind(m_ioc[k].pointer, m_ioc[k].piece) ELSE m_ioc[k].result]]

Disk == INSTANCE DiskInterface WITH
  opened <- torrentOf, open <- InUse, content <- Shown, calls <- Waiting

\* Handlers answer the calls in their order, each with the result of the moment of
\* the call although a read answers with a pointer, and no storage goes before its
\* last answer.
ImplementsDisk == Disk!Spec

=============================================================================
