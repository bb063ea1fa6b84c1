--------------------------- MODULE RamDiskIoProofs ---------------------------
(***************************************************************************)
(* Proofs about RamDiskIo, for any number of torrents, pieces, storages    *)
(* and handlers under way.                                                 *)
(***************************************************************************)
EXTENDS RamDiskIo, SequenceTheorems, TLAPS

-----------------------------------------------------------------------------
(* What the queue of handlers tells of the torrents they are of.           *)

\* Only a torrent that is not gone is still answered: it is checked once, and its
\* last answer is the one to its stop.
QueueOK ==
  \A k \in DOMAIN m_ioc :
    /\ phase[m_ioc[k].of] # "gone"
    /\ m_ioc[k].call = "check" =>
         /\ phase[m_ioc[k].of] = "checking"
         /\ \A l \in DOMAIN m_ioc : m_ioc[l].of = m_ioc[k].of /\ m_ioc[l].call = "check" => l = k
    /\ m_ioc[k].call = "stop" =>
         /\ phase[m_ioc[k].of] = "stopping"
         /\ \A l \in DOMAIN m_ioc : m_ioc[l].of = m_ioc[k].of => l <= k

\* The session has one call under way for a piece, and what it waits for tells which;
\* a hash is answered with what is still in the piece.
Awaiting == [write |-> "writing", hash |-> "hashing", clear |-> "clearing"]
PieceCall(k) == m_ioc[k].call \in {"write", "hash", "clear"}
PieceQueueOK ==
  \A k \in DOMAIN m_ioc : Using(m_ioc[k].of) /\ PieceCall(k) =>
    /\ state[m_ioc[k].of][m_ioc[k].piece] = Awaiting[m_ioc[k].call]
    /\ m_ioc[k].call = "hash" =>
         m_ioc[k].result = m_file_data[m_ioc[k].of][m_ioc[k].piece]
    /\ \A l \in DOMAIN m_ioc :
         PieceCall(l) /\ m_ioc[l].of = m_ioc[k].of /\ m_ioc[l].piece = m_ioc[k].piece => l = k

\* A pointer is into the storage of its torrent, to a piece that is there and that
\* nobody will write to before the answer.
ReadsOK ==
  \A k \in DOMAIN m_ioc : m_ioc[k].call = "read" =>
    /\ m_ioc[k].pointer \in {0, m_ioc[k].of}
    /\ m_ioc[k].pointer # 0 => m_file_data[m_ioc[k].of][m_ioc[k].piece] # "none"
    /\ Using(m_ioc[k].of) =>
         state[m_ioc[k].of][m_ioc[k].piece] \in {"have", "failed", "clearing"}

\* A piece is cleared behind all reads of it.
ClearsOK ==
  \A n \in Objects, p \in Pieces : Using(n) /\ state[n][p] = "clearing" =>
    \E k \in DOMAIN m_ioc :
      /\ m_ioc[k].call = "clear" /\ m_ioc[k].of = n /\ m_ioc[k].piece = p
      /\ \A l \in DOMAIN m_ioc :
           m_ioc[l].call = "read" /\ m_ioc[l].of = n /\ m_ioc[l].piece = p => l < k

\* What the storage has of the pieces the session knows of.
PiecesOK ==
  \A n \in Objects, p \in Pieces :
    /\ phase[n] = "checking" => state[n][p] = "absent"
    /\ Using(n) /\ state[n][p] # "absent" => m_file_data[n][p] # "none"
    /\ Using(n) /\ state[n][p] \notin {"absent", "clearing"} => p \notin m_invalid[n]
    /\ Using(n) /\ state[n][p] = "have" => m_file_data[n][p] = "good"

\* Only verified pieces of torrents in use are lent.
BuffersOK ==
  \A b \in buffers :
    /\ phase[b.of] = "active" /\ b.pointer = b.of
    /\ b.content = "good" /\ state[b.of][b.piece] = "have"

Inv ==
  /\ TypeOK
  /\ SlotsKeptApart
  /\ QueueOK
  /\ PieceQueueOK
  /\ ReadsOK
  /\ ClearsOK
  /\ PiecesOK
  /\ BuffersOK

-----------------------------------------------------------------------------
(* Lemmas about the parts of a step.                                       *)

\* Torrent objects are numbered from one on.
LEMMA Numbered ==
  ASSUME TypeOK
  PROVE  /\ Len(torrentOf) \in Nat
         /\ Objects = 1 .. Len(torrentOf)
         /\ 0 \notin Objects /\ Len(torrentOf) + 1 \notin Objects
BY LenProperties DEF TypeOK, Objects

\* A torrent object that is not gone has its own storage in its slot.
LEMMA OwnStorage ==
  ASSUME Inv, NEW n \in Objects, phase[n] # "gone"
  PROVE  StorageOf(n) = n /\ Alive(n)
<1>1. StorageOf(n) = n
  BY DEF Inv, SlotsKeptApart
<1>2. holder[n] \in DOMAIN m_torrents
  BY DEF Inv, TypeOK
<1> QED  BY <1>1, <1>2 DEF StorageOf, Alive

\* What Append makes of a sequence that is given as a function.
Maps(f, D, S) == f \in [D -> S]

\* A sequence given as a function grows by one at its end.
LEMMA Grows ==
  ASSUME NEW n \in Nat, NEW D, D = 1 .. n, NEW E, E = 1 .. n + 1,
         NEW S, NEW s, Maps(s, D, S), NEW e \in S, NEW r, r = Append(s, e)
  PROVE  Maps(r, E, S)
<1>1. s \in Seq(S) /\ Len(s) = n
  BY DEF Maps
<1>2. r \in Seq(S) /\ Len(r) = n + 1
  BY <1>1, AppendProperties
<1> QED  BY <1>2, LenProperties DEF Maps

\* Running a handler takes the first from the queue.
LEMMA Ran ==
  ASSUME TypeOK, NEW call, Runs(call)
  PROVE  /\ 1 \in DOMAIN m_ioc /\ Head(m_ioc) = m_ioc[1]
         /\ m_ioc[1] \in Handler /\ m_ioc[1].call = call
         /\ m_ioc' \in Seq(Handler)
         /\ \A k \in DOMAIN m_ioc' :
              /\ k \in Nat /\ k + 1 \in DOMAIN m_ioc /\ k + 1 # 1
              /\ m_ioc'[k] = m_ioc[k + 1]
<1>1. m_ioc \in Seq(Handler) /\ m_ioc # <<>> /\ m_ioc' = Tail(m_ioc) /\ Head(m_ioc).call = call
  BY DEF TypeOK, Runs
<1>2. /\ Head(m_ioc) \in Handler
      /\ m_ioc' \in Seq(Handler)
      /\ Len(m_ioc') = Len(m_ioc) - 1
      /\ \A k \in 1 .. Len(m_ioc') : m_ioc'[k] = m_ioc[k + 1]
  BY <1>1, HeadTailProperties
<1>3. /\ Len(m_ioc) \in Nat \ {0}
      /\ DOMAIN m_ioc = 1 .. Len(m_ioc) /\ DOMAIN m_ioc' = 1 .. Len(m_ioc')
  BY <1>1, <1>2, LenProperties, EmptySeq
<1>4. Head(m_ioc) = m_ioc[1]
  BY <1>1
<1> QED  BY <1>1, <1>2, <1>3, <1>4

\* A handler behind the first is one further to the front.
LEMMA MovesUp ==
  ASSUME TypeOK, NEW call, Runs(call), NEW k \in DOMAIN m_ioc, k # 1
  PROVE  k \in Nat /\ k - 1 \in DOMAIN m_ioc' /\ m_ioc'[k - 1] = m_ioc[k]
<1>1. m_ioc \in Seq(Handler) /\ m_ioc # <<>> /\ m_ioc' = Tail(m_ioc)
  BY DEF Runs, TypeOK
<1>2. /\ m_ioc' \in Seq(Handler) /\ Len(m_ioc') = Len(m_ioc) - 1
      /\ \A i \in 1 .. Len(m_ioc') : m_ioc'[i] = m_ioc[i + 1]
  BY <1>1, HeadTailProperties
<1>3. Len(m_ioc) \in Nat /\ DOMAIN m_ioc = 1 .. Len(m_ioc) /\ DOMAIN m_ioc' = 1 .. Len(m_ioc')
  BY <1>1, <1>2, LenProperties
<1>4. k - 1 \in DOMAIN m_ioc' /\ k \in Nat
  BY <1>2, <1>3
<1> QED  BY <1>2, <1>3, <1>4

\* The slots stay apart when only the phase of a torrent that stays moves on.
LEMMA SlotsStay ==
  ASSUME SlotsKeptApart, UNCHANGED <<m_torrents, m_free_slots, holder, torrentOf>>,
         \A n \in Objects : (phase'[n] = "gone") = (phase[n] = "gone")
  PROVE  SlotsKeptApart'
<1>1. /\ Objects' = Objects
      /\ \A n \in Objects : StorageOf(n)' = StorageOf(n)
  BY DEF Objects, StorageOf
<1> QED  BY <1>1 DEF SlotsKeptApart

-----------------------------------------------------------------------------
(* A torrent is added.                                                     *)

\* The slot for the new storage: no torrent that stays has it, and it is empty or new.
LEMMA SlotForNew ==
  ASSUME Inv, new_torrent
  PROVE  \E idx \in Nat \ {0} :
           LET n == Len(torrentOf) + 1
           IN  /\ m_torrents' \in Seq(Objects \union {0, n})
               /\ DOMAIN m_torrents' = DOMAIN m_torrents \union {idx}
               /\ m_torrents'[idx] = n
               /\ \A i \in DOMAIN m_torrents : i # idx => m_torrents'[i] = m_torrents[i]
               /\ \A o \in Objects : phase[o] # "gone" => holder[o] # idx
               /\ holder' = Append(holder, idx)
               /\ m_free_slots' \in Seq(DOMAIN m_torrents)
               /\ \A k \in DOMAIN m_free_slots' :
                    k \in DOMAIN m_free_slots /\ m_free_slots'[k] = m_free_slots[k]
               /\ \A k \in DOMAIN m_free_slots : m_free_slots[k] # idx => k \in DOMAIN m_free_slots'
               /\ \A k \in DOMAIN m_free_slots' : m_free_slots'[k] # idx
<1> DEFINE n == Len(torrentOf) + 1
           S == Objects \union {0, n}
<1>1. /\ m_torrents \in Seq(S) /\ n \in S
      /\ m_free_slots \in Seq(DOMAIN m_torrents)
      /\ Len(m_torrents) \in Nat /\ Len(m_free_slots) \in Nat
      /\ DOMAIN m_torrents = 1 .. Len(m_torrents)
      /\ DOMAIN m_free_slots = 1 .. Len(m_free_slots)
  BY SeqMonotonic, LenProperties DEF Inv, TypeOK
<1>2. \A o \in Objects : phase[o] # "gone" =>
        holder[o] \in DOMAIN m_torrents /\ m_torrents[holder[o]] # 0
  BY OwnStorage, Numbered DEF Inv, TypeOK, StorageOf
<1>3. CASE m_free_slots = <<>>
  <2> DEFINE idx == Len(m_torrents) + 1
  <2>1. /\ m_torrents' = Append(m_torrents, n) /\ m_free_slots' = m_free_slots
        /\ holder' = Append(holder, idx)
    BY <1>3 DEF new_torrent
  <2>2. /\ m_torrents' \in Seq(S)
        /\ Len(m_torrents') = idx
        /\ \A i \in 1 .. Len(m_torrents) : m_torrents'[i] = m_torrents[i]
        /\ m_torrents'[idx] = n
    BY <1>1, <2>1, AppendProperties
  <2>3. DOMAIN m_torrents' = 1 .. idx
    BY <2>2, LenProperties
  <2>4. \A k \in DOMAIN m_free_slots : m_free_slots[k] \in DOMAIN m_torrents
    BY <1>1, ElementOfSeq
  <2> QED  BY <1>1, <1>2, <2>1, <2>2, <2>3, <2>4
<1>4. CASE m_free_slots # <<>>
  <2> DEFINE last == Len(m_free_slots)
             idx == m_free_slots[last]
  <2>1. last \in Nat \ {0} /\ idx \in DOMAIN m_torrents
    BY <1>1, <1>4, EmptySeq, ElementOfSeq
  <2>2. /\ m_torrents' = [m_torrents EXCEPT ![idx] = n]
        /\ m_free_slots' = SubSeq(m_free_slots, 1, last - 1)
        /\ holder' = Append(holder, idx)
    BY <1>4 DEF new_torrent
  <2>3. /\ m_torrents' \in Seq(S)
        /\ Len(m_torrents') = Len(m_torrents)
        /\ \A i \in 1 .. Len(m_torrents) : m_torrents'[i] = IF i = idx THEN n ELSE m_torrents[i]
    BY <1>1, <2>1, <2>2, ExceptSeq
  <2>4. DOMAIN m_torrents' = DOMAIN m_torrents
    BY <1>1, <2>3, LenProperties
  <2>5. /\ m_free_slots' \in Seq(DOMAIN m_torrents)
        /\ Len(m_free_slots') = last - 1
        /\ \A k \in 1 .. last - 1 : m_free_slots'[k] = m_free_slots[k]
    <3>1. \A k \in 1 .. last - 1 : m_free_slots[k] \in DOMAIN m_torrents
      BY <1>1, <2>1, ElementOfSeq
    <3> HIDE DEF last
    <3> QED  BY <2>1, <2>2, <3>1, SubSeqProperties, Z3
  <2>6. DOMAIN m_free_slots' = 1 .. last - 1
    BY <2>5, LenProperties
  <2>7. m_torrents[idx] = 0 /\ \A k \in 1 .. last - 1 : m_free_slots[k] # idx
    <3>1. /\ \A k \in DOMAIN m_free_slots : m_torrents[m_free_slots[k]] = 0
          /\ \A k, l \in DOMAIN m_free_slots : m_free_slots[k] = m_free_slots[l] => k = l
      BY DEF Inv, SlotsKeptApart
    <3> QED  BY <1>1, <2>1, <3>1
  <2>8. \A k \in DOMAIN m_free_slots : m_free_slots[k] # idx => k \in 1 .. last - 1
    BY <1>1, <2>1
  <2>9. \A o \in Objects : phase[o] # "gone" => holder[o] # idx
    BY <1>2, <2>7
  <2>10. /\ idx \in Nat \ {0}
         /\ DOMAIN m_torrents' = DOMAIN m_torrents \union {idx}
         /\ m_torrents'[idx] = n
         /\ \A i \in DOMAIN m_torrents : i # idx => m_torrents'[i] = m_torrents[i]
    BY <1>1, <2>1, <2>3, <2>4
  <2>11. /\ \A k \in DOMAIN m_free_slots' :
              k \in DOMAIN m_free_slots /\ m_free_slots'[k] = m_free_slots[k]
         /\ \A k \in DOMAIN m_free_slots : m_free_slots[k] # idx => k \in DOMAIN m_free_slots'
         /\ \A k \in DOMAIN m_free_slots' : m_free_slots'[k] # idx
    <3>1. 1 .. last - 1 \subseteq DOMAIN m_free_slots
      BY <1>1, <2>1
    <3> HIDE DEF idx, last
    <3> QED  BY <2>5, <2>6, <2>7, <2>8, <3>1
  <2> HIDE DEF idx, last
  <2> QED  BY <2>2, <2>3, <2>5, <2>9, <2>10, <2>11
<1> QED  BY <1>3, <1>4

\* What adding a torrent changes, object by object.
LEMMA AddTorrentEffects ==
  ASSUME Inv, NEW t \in Torrents, AddTorrent(t)
  PROVE  LET n == Len(torrentOf) + 1
         IN  /\ torrentOf' \in Seq(Torrents) /\ torrentOf'[n] = t
             /\ \A o \in Objects : torrentOf'[o] = torrentOf[o]
             /\ n \notin Objects /\ Objects' = Objects \union {n}
             /\ phase' \in [Objects' -> {"checking", "active", "stopping", "gone"}]
             /\ phase'[n] = "checking" /\ \A o \in Objects : phase'[o] = phase[o]
             /\ state' \in [Objects' -> [Pieces -> PieceStates]]
             /\ state'[n] = [p \in Pieces |-> "absent"] /\ \A o \in Objects : state'[o] = state[o]
             /\ m_file_data' \in [Objects' -> [Pieces -> Contents]]
             /\ m_file_data'[n] = Nothing
             /\ \A o \in Objects : m_file_data'[o] = m_file_data[o]
             /\ m_invalid' \in [Objects' -> SUBSET Pieces]
             /\ m_invalid'[n] = {} /\ \A o \in Objects : m_invalid'[o] = m_invalid[o]
             /\ has_changed_since' \in [Objects' -> BOOLEAN]
             /\ has_changed_since'[n] = FALSE
             /\ \A o \in Objects : has_changed_since'[o] = has_changed_since[o]
             /\ offered' \in [Objects' -> [Pieces -> Contents \union {"unread"}]]
             /\ offered'[n] = Unread /\ \A o \in Objects : offered'[o] = offered[o]
<1> DEFINE n == Len(torrentOf) + 1
<1>1. /\ Len(torrentOf) \in Nat /\ Objects = 1 .. Len(torrentOf) /\ n \notin Objects
      /\ TypeOK
  BY Numbered DEF Inv
<1>2. /\ torrentOf' = Append(torrentOf, t)
      /\ phase' = Append(phase, "checking")
      /\ state' = Append(state, [p \in Pieces |-> "absent"])
      /\ offered' = Append(offered, Unread)
      /\ m_file_data' = Append(m_file_data, Nothing)
      /\ m_invalid' = Append(m_invalid, {})
      /\ has_changed_since' = Append(has_changed_since, FALSE)
  BY DEF AddTorrent, new_torrent
<1>3. /\ torrentOf' \in Seq(Torrents) /\ torrentOf'[n] = t
      /\ \A o \in Objects : torrentOf'[o] = torrentOf[o]
      /\ Objects' = 1 .. n /\ Objects' = Objects \union {n}
  <2>1. torrentOf \in Seq(Torrents)
    BY <1>1 DEF TypeOK
  <2>2. /\ torrentOf' \in Seq(Torrents) /\ Len(torrentOf') = n /\ torrentOf'[n] = t
        /\ \A o \in Objects : torrentOf'[o] = torrentOf[o]
    BY <1>1, <1>2, <2>1, AppendProperties
  <2> QED  BY <1>1, <2>2, LenProperties DEF Objects
<1> DEFINE m == Len(torrentOf)
<1>0. m \in Nat /\ Objects = 1 .. m /\ Objects' = 1 .. m + 1 /\ n = m + 1
  BY <1>1, <1>3
<1> HIDE DEF m, n
<1>4. ASSUME NEW S, NEW s, Maps(s, Objects, S), NEW e \in S, NEW r, r = Append(s, e)
      PROVE  Maps(r, Objects', S)
  BY <1>0, <1>4, Grows
<1>a. ASSUME NEW S, NEW s, Maps(s, Objects, S), NEW e \in S, NEW r, r = Append(s, e)
      PROVE  r[n] = e
  BY <1>0, <1>a DEF Maps
<1>b. ASSUME NEW S, NEW s, Maps(s, Objects, S), NEW e \in S, NEW r, r = Append(s, e)
      PROVE  \A o \in Objects : r[o] = s[o]
  BY <1>0, <1>b DEF Maps
<1> DEFINE Ph == {"checking", "active", "stopping", "gone"}
           Of == [Pieces -> Contents \union {"unread"}]
           St == [Pieces -> PieceStates]
           Dt == [Pieces -> Contents]
           Su == SUBSET Pieces
           Bo == BOOLEAN
<1>5. /\ Maps(phase, Objects, Ph)
      /\ Maps(state, Objects, St)
      /\ Maps(m_file_data, Objects, Dt)
      /\ Maps(m_invalid, Objects, Su)
      /\ Maps(has_changed_since, Objects, Bo)
      /\ Maps(offered, Objects, Of)
  BY <1>1 DEF TypeOK, Maps
<1>6. /\ [p \in Pieces |-> "absent"] \in St
      /\ Nothing \in Dt
      /\ Unread \in Of
      /\ {} \in Su /\ FALSE \in Bo /\ "checking" \in Ph
  BY DEF PieceStates, Nothing, Contents, Unread
<1> HIDE DEF Ph, Of, St, Dt, Su, Bo
<1>7. Maps(phase', Objects', Ph)
      /\ phase'[n] = "checking" /\ \A o \in Objects : phase'[o] = phase[o]
  <2>1. Maps(phase', Objects', Ph)
    BY <1>2, <1>4, <1>5, <1>6, Zenon
  <2>2. phase'[n] = "checking"
    BY <1>0, <1>2, <1>5 DEF Maps
  <2>3. \A o \in Objects : phase'[o] = phase[o]
    BY <1>0, <1>2, <1>5 DEF Maps
  <2> QED  BY <2>1, <2>2, <2>3
<1>8. Maps(state', Objects', St)
      /\ state'[n] = [p \in Pieces |-> "absent"] /\ \A o \in Objects : state'[o] = state[o]
  <2>1. Maps(state', Objects', St)
    BY <1>2, <1>4, <1>5, <1>6, Zenon
  <2>2. state'[n] = [p \in Pieces |-> "absent"]
    BY <1>0, <1>2, <1>5 DEF Maps
  <2>3. \A o \in Objects : state'[o] = state[o]
    BY <1>0, <1>2, <1>5 DEF Maps
  <2> QED  BY <2>1, <2>2, <2>3
<1>9. Maps(m_file_data', Objects', Dt)
      /\ m_file_data'[n] = Nothing /\ \A o \in Objects : m_file_data'[o] = m_file_data[o]
  <2>1. Maps(m_file_data', Objects', Dt)
    BY <1>2, <1>4, <1>5, <1>6, Zenon
  <2>2. m_file_data'[n] = Nothing
    BY <1>0, <1>2, <1>5 DEF Maps
  <2>3. \A o \in Objects : m_file_data'[o] = m_file_data[o]
    BY <1>0, <1>2, <1>5 DEF Maps
  <2> QED  BY <2>1, <2>2, <2>3
<1>10. Maps(m_invalid', Objects', Su)
      /\ m_invalid'[n] = {} /\ \A o \in Objects : m_invalid'[o] = m_invalid[o]
  <2>1. Maps(m_invalid', Objects', Su)
    BY <1>2, <1>4, <1>5, <1>6, Zenon
  <2>2. m_invalid'[n] = {}
    BY <1>0, <1>2, <1>5 DEF Maps
  <2>3. \A o \in Objects : m_invalid'[o] = m_invalid[o]
    BY <1>0, <1>2, <1>5 DEF Maps
  <2> QED  BY <2>1, <2>2, <2>3
<1>11. Maps(has_changed_since', Objects', Bo)
      /\ has_changed_since'[n] = FALSE /\ \A o \in Objects : has_changed_since'[o] = has_changed_since[o]
  <2>1. Maps(has_changed_since', Objects', Bo)
    BY <1>2, <1>4, <1>5, <1>6, Zenon
  <2>2. has_changed_since'[n] = FALSE
    BY <1>0, <1>2, <1>5 DEF Maps
  <2>3. \A o \in Objects : has_changed_since'[o] = has_changed_since[o]
    <3>1. has_changed_since \in Seq(Bo) /\ Objects = 1 .. Len(has_changed_since)
      BY <1>0, <1>5 DEF Maps
    <3>3. FALSE \in Bo
      BY <1>6
    <3>2. has_changed_since' = Append(has_changed_since, FALSE)
      BY <1>2
    <3> QED  BY <3>1, <3>2, <3>3, AppendProperties
  <2> QED  BY <2>1, <2>2, <2>3
<1>12. Maps(offered', Objects', Of)
      /\ offered'[n] = Unread /\ \A o \in Objects : offered'[o] = offered[o]
  <2>1. Maps(offered', Objects', Of)
    BY <1>2, <1>4, <1>5, <1>6, Zenon
  <2>2. offered'[n] = Unread
    BY <1>0, <1>2, <1>5 DEF Maps
  <2>3. \A o \in Objects : offered'[o] = offered[o]
    BY <1>0, <1>2, <1>5 DEF Maps
  <2> QED  BY <2>1, <2>2, <2>3
<1> QED  BY <1>0, <1>1, <1>3, <1>7, <1>8, <1>9, <1>10, <1>11, <1>12 DEF Maps, n, Ph, Of, St, Dt, Su, Bo

\* What adding a torrent does to the queue.
LEMMA AddTorrentPosts ==
  ASSUME Inv, NEW t \in Torrents, AddTorrent(t)
  PROVE  LET n == Len(torrentOf) + 1
             new == Len(m_ioc) + 1
         IN  /\ m_ioc' \in Seq(Handler')
             /\ DOMAIN m_ioc' = DOMAIN m_ioc \union {new} /\ new \notin DOMAIN m_ioc
             /\ \A k \in DOMAIN m_ioc : m_ioc'[k] = m_ioc[k] /\ m_ioc[k].of \in Objects
             /\ m_ioc'[new] = [call |-> "check", of |-> n, piece |-> AnyPiece,
                               pointer |-> 0, result |-> "none"]
             /\ new \in Nat /\ \A k \in DOMAIN m_ioc : k \in Nat /\ k < new
<1> DEFINE n == Len(torrentOf) + 1
           new == Len(m_ioc) + 1
           h == [call |-> "check", of |-> n, piece |-> AnyPiece, pointer |-> 0, result |-> "none"]
<1>1. TypeOK /\ Objects' = Objects \union {n}
  BY AddTorrentEffects DEF Inv
<1>2. Handler \subseteq Handler' /\ m_ioc \in Seq(Handler)
  BY <1>1 DEF Handler, TypeOK
<1>3. m_ioc \in Seq(Handler')
  BY <1>2, SeqMonotonic
<1>4. AnyPiece \in Pieces
  BY DiskAssumption DEF AnyPiece
<1>5. h \in Handler'
  BY <1>1, <1>4 DEF Handler, Contents
<1>6. m_ioc' = Append(m_ioc, h)
  BY DEF AddTorrent, Post
<1>7. \A k \in DOMAIN m_ioc : m_ioc[k].of \in Objects
  <2>1. \A k \in DOMAIN m_ioc : m_ioc[k] \in Handler
    BY <1>2, ElementOfSeq, LenProperties
  <2> QED  BY <2>1 DEF Handler
<1> HIDE DEF h
<1>8. /\ m_ioc' \in Seq(Handler')
      /\ Len(m_ioc') = new
      /\ \A k \in 1 .. Len(m_ioc) : m_ioc'[k] = m_ioc[k]
      /\ m_ioc'[new] = h
  BY <1>3, <1>5, <1>6, AppendProperties
<1>9. /\ Len(m_ioc) \in Nat
      /\ DOMAIN m_ioc = 1 .. Len(m_ioc) /\ DOMAIN m_ioc' = 1 .. new
  BY <1>3, <1>8, LenProperties
<1> QED  BY <1>7, <1>8, <1>9 DEF h

\* A torrent added disturbs no other.
LEMMA AddTorrentKeeps ==
  ASSUME Inv, NEW t \in Torrents, AddTorrent(t)
  PROVE  Inv'
<1> DEFINE n == Len(torrentOf) + 1
           new == Len(m_ioc) + 1
<1>1. /\ torrentOf' \in Seq(Torrents) /\ torrentOf'[n] = t
      /\ \A o \in Objects : torrentOf'[o] = torrentOf[o]
      /\ n \notin Objects /\ Objects' = Objects \union {n}
      /\ phase' \in [Objects' -> {"checking", "active", "stopping", "gone"}]
      /\ phase'[n] = "checking" /\ \A o \in Objects : phase'[o] = phase[o]
      /\ state' \in [Objects' -> [Pieces -> PieceStates]]
      /\ state'[n] = [p \in Pieces |-> "absent"] /\ \A o \in Objects : state'[o] = state[o]
      /\ m_file_data' \in [Objects' -> [Pieces -> Contents]]
      /\ \A o \in Objects : m_file_data'[o] = m_file_data[o]
      /\ m_invalid' \in [Objects' -> SUBSET Pieces]
      /\ \A o \in Objects : m_invalid'[o] = m_invalid[o]
      /\ has_changed_since' \in [Objects' -> BOOLEAN]
      /\ offered' \in [Objects' -> [Pieces -> Contents \union {"unread"}]]
  BY AddTorrentEffects
<1>2. PICK idx \in Nat \ {0} :
        /\ m_torrents' \in Seq(Objects \union {0, n})
        /\ DOMAIN m_torrents' = DOMAIN m_torrents \union {idx}
        /\ m_torrents'[idx] = n
        /\ \A i \in DOMAIN m_torrents : i # idx => m_torrents'[i] = m_torrents[i]
        /\ \A o \in Objects : phase[o] # "gone" => holder[o] # idx
        /\ holder' = Append(holder, idx)
        /\ m_free_slots' \in Seq(DOMAIN m_torrents)
        /\ \A k \in DOMAIN m_free_slots' :
             k \in DOMAIN m_free_slots /\ m_free_slots'[k] = m_free_slots[k]
        /\ \A k \in DOMAIN m_free_slots : m_free_slots[k] # idx => k \in DOMAIN m_free_slots'
        /\ \A k \in DOMAIN m_free_slots' : m_free_slots'[k] # idx
  BY SlotForNew DEF AddTorrent
<1>3. UNCHANGED <<file, buffers, verified>>
  BY DEF AddTorrent
<1>4. /\ m_ioc' \in Seq(Handler')
      /\ DOMAIN m_ioc' = DOMAIN m_ioc \union {new} /\ new \notin DOMAIN m_ioc
      /\ \A k \in DOMAIN m_ioc : m_ioc'[k] = m_ioc[k] /\ m_ioc[k].of \in Objects
      /\ m_ioc'[new] = [call |-> "check", of |-> n, piece |-> AnyPiece,
                        pointer |-> 0, result |-> "none"]
      /\ new \in Nat /\ \A k \in DOMAIN m_ioc : k \in Nat /\ k < new
  BY AddTorrentPosts
<1>5. /\ holder' \in [Objects' -> DOMAIN m_torrents']
      /\ \A o \in Objects : holder'[o] = holder[o]
      /\ holder'[n] = idx
  <2> DEFINE m == Len(torrentOf)
             S == DOMAIN m_torrents'
  <2>1. Maps(holder, Objects, S) /\ holder \in [Objects -> S] /\ idx \in S
    BY <1>2 DEF Inv, TypeOK, Maps
  <2>2. m \in Nat /\ Objects = 1 .. m /\ Objects' = 1 .. m + 1 /\ n = m + 1
    BY <1>1, Numbered DEF Inv
  <2>3. holder' = Append(holder, idx)
    BY <1>2
  <2> HIDE DEF n, m, S
  <2>4. Maps(holder', Objects', S)
    <3>1. Maps(holder, Objects, S) /\ idx \in S
      BY <2>1
    <3>2. m \in Nat /\ Objects = 1 .. m /\ Objects' = 1 .. m + 1
      BY <2>2
    <3> QED  BY <2>3, <3>1, <3>2, Grows, ZenonT(60)
  <2>5. holder'[n] = idx /\ \A o \in Objects : holder'[o] = holder[o]
    BY <2>1, <2>2, <2>3
  <2> QED  BY <2>4, <2>5 DEF Maps, S
<1>6. m_ioc'[new].call = "check" /\ m_ioc'[new].of = n /\ phase'[n] # "gone"
  BY <1>1, <1>4
<1> HIDE DEF n, new
<1>7. TypeOK'
  <2>1. m_torrents' \in Seq(Objects' \union {0})
    <3>1. Objects' \union {0} = Objects \union {0, n}
      BY <1>1
    <3> QED  BY <1>2, <3>1
  <2>2. m_free_slots' \in Seq(DOMAIN m_torrents')
    BY <1>2, SeqMonotonic
  <2>3. \A b \in buffers : b \in Buffer'
    BY <1>1 DEF Inv, TypeOK, Buffer
  <2>4. file \in [Torrents -> [Pieces -> Contents]] /\ verified \in [Torrents -> SUBSET Pieces]
    BY DEF Inv, TypeOK
  <2>5. spoiled' \subseteq Torrents
    BY DEF Inv, TypeOK, AddTorrent
  <2> QED  BY <1>1, <1>3, <1>4, <1>5, <2>1, <2>2, <2>3, <2>4, <2>5 DEF TypeOK
<1>8. SlotsKeptApart'
  <2>1. ASSUME NEW o \in Objects', phase'[o] # "gone" PROVE StorageOf(o)' = o
    <3>1. CASE o = n
      BY <1>2, <1>5, <3>1 DEF StorageOf
    <3>2. CASE o \in Objects
      BY <1>1, <1>2, <1>5, <2>1, <3>2 DEF StorageOf, Inv, SlotsKeptApart, TypeOK
    <3> QED  BY <1>1, <3>1, <3>2
  <2>2. ASSUME NEW i \in DOMAIN m_torrents'
        PROVE  \/ \E o \in Objects' : phase'[o] # "gone" /\ holder'[o] = i
               \/ m_torrents'[i] = 0 /\ \E k \in DOMAIN m_free_slots' : m_free_slots'[k] = i
    <3>1. CASE i = idx
      BY <1>1, <1>5, <1>6, <3>1
    <3>2. CASE i # idx /\ i \in DOMAIN m_torrents
      <4>1. CASE \E o \in Objects : phase[o] # "gone" /\ holder[o] = i
        BY <1>1, <1>5, <4>1
      <4>2. CASE m_torrents[i] = 0 /\ \E k \in DOMAIN m_free_slots : m_free_slots[k] = i
        BY <1>2, <3>2, <4>2
      <4> QED  BY <3>2, <4>1, <4>2 DEF Inv, SlotsKeptApart
    <3> QED  BY <1>2, <3>1, <3>2
  <2>3. \A k, l \in DOMAIN m_free_slots' : m_free_slots'[k] = m_free_slots'[l] => k = l
    BY <1>2 DEF Inv, SlotsKeptApart
  <2>4. ASSUME NEW k \in DOMAIN m_free_slots' PROVE m_torrents'[m_free_slots'[k]] = 0
    <3>1. m_free_slots'[k] \in DOMAIN m_torrents
      BY <1>2, <2>4, ElementOfSeq, LenProperties
    <3> QED  BY <1>2, <2>4, <3>1 DEF Inv, SlotsKeptApart
  <2> QED  BY <2>1, <2>2, <2>3, <2>4 DEF SlotsKeptApart
<1>9. QueueOK'
  BY <1>1, <1>4, <1>6 DEF Inv, QueueOK
<1>10. PieceQueueOK'
  <2> SUFFICES ASSUME NEW k \in DOMAIN m_ioc', (Using(m_ioc[k].of) /\ PieceCall(k))'
               PROVE  (/\ state[m_ioc[k].of][m_ioc[k].piece] = Awaiting[m_ioc[k].call]
                       /\ m_ioc[k].call = "hash" =>
                            m_ioc[k].result = m_file_data[m_ioc[k].of][m_ioc[k].piece]
                       /\ \A l \in DOMAIN m_ioc :
                            PieceCall(l) /\ m_ioc[l].of = m_ioc[k].of
                              /\ m_ioc[l].piece = m_ioc[k].piece => l = k)'
    BY DEF PieceQueueOK
  <2>1. k \in DOMAIN m_ioc /\ Using(m_ioc[k].of) /\ PieceCall(k)
    BY <1>1, <1>4, <1>6 DEF PieceCall, Using
  <2>2. \A l \in DOMAIN m_ioc' : PieceCall(l)' => l \in DOMAIN m_ioc /\ PieceCall(l)
    BY <1>4, <1>6 DEF PieceCall
  <2> QED  BY <1>1, <1>4, <2>1, <2>2 DEF Inv, PieceQueueOK
<1>11. ReadsOK'
  <2>1. ASSUME NEW k \in DOMAIN m_ioc', m_ioc'[k].call = "read"
        PROVE  k \in DOMAIN m_ioc /\ m_ioc'[k] = m_ioc[k] /\ m_ioc[k].of \in Objects
    BY <1>4, <1>6, <2>1
  <2>2. \A o \in Objects : phase'[o] = phase[o] /\ state'[o] = state[o] /\ m_file_data'[o] = m_file_data[o]
    BY <1>1
  <2>3. ReadsOK
    BY DEF Inv
  <2> QED  BY <2>1, <2>2, <2>3 DEF ReadsOK, Using
<1>12. ClearsOK'
  <2> SUFFICES ASSUME NEW o \in Objects', NEW p \in Pieces, (Using(o) /\ state[o][p] = "clearing")'
               PROVE  (\E k \in DOMAIN m_ioc :
                        /\ m_ioc[k].call = "clear" /\ m_ioc[k].of = o /\ m_ioc[k].piece = p
                        /\ \A l \in DOMAIN m_ioc :
                             m_ioc[l].call = "read" /\ m_ioc[l].of = o /\ m_ioc[l].piece = p
                               => l < k)'
    BY DEF ClearsOK
  <2>1. o \in Objects /\ Using(o) /\ state[o][p] = "clearing"
    BY <1>1 DEF Using
  <2> QED  BY <1>4, <1>6, <2>1 DEF Inv, ClearsOK
<1>13. PiecesOK'
  BY <1>1 DEF Inv, PiecesOK, Using
<1>14. BuffersOK'
  BY <1>1, <1>3 DEF Inv, BuffersOK, TypeOK, Buffer
<1> QED  BY <1>7, <1>8, <1>9, <1>10, <1>11, <1>12, <1>13, <1>14 DEF Inv

-----------------------------------------------------------------------------
(* The calls of the session.                                               *)

\* The handler of a call is behind the others in the queue.
JoinsQueue(call, n, p, pointer, result) ==
  LET new == Len(m_ioc) + 1
  IN  /\ m_ioc' \in Seq(Handler')
      /\ DOMAIN m_ioc' = DOMAIN m_ioc \union {new} /\ new \notin DOMAIN m_ioc
      /\ \A k \in DOMAIN m_ioc : m_ioc'[k] = m_ioc[k] /\ m_ioc[k] \in Handler
      /\ m_ioc'[new] = [call |-> call, of |-> n, piece |-> p,
                        pointer |-> pointer, result |-> result]
      /\ new \in Nat /\ \A k \in DOMAIN m_ioc : k \in Nat /\ k < new

\* A handler that is posted joins the queue.
LEMMA Called ==
  ASSUME TypeOK, torrentOf' = torrentOf,
         NEW call, call \in {"write", "read", "hash", "clear", "release", "stop", "other"},
         NEW n, n \in Objects, NEW p, p \in Pieces,
         NEW pointer, pointer \in Objects \union {0}, NEW result, result \in Contents,
         Post(call, n, p, pointer, result)
  PROVE  JoinsQueue(call, n, p, pointer, result)
<1> DEFINE new == Len(m_ioc) + 1
           h == [call |-> call, of |-> n, piece |-> p, pointer |-> pointer, result |-> result]
<1>1. Handler' = Handler /\ m_ioc \in Seq(Handler)
  BY DEF Handler, TypeOK, Objects
<1>2. h \in Handler
  BY DEF Handler
<1>3. m_ioc' = Append(m_ioc, h)
  BY DEF Post
<1> HIDE DEF h
<1>4. /\ m_ioc' \in Seq(Handler)
      /\ Len(m_ioc') = new
      /\ \A k \in 1 .. Len(m_ioc) : m_ioc'[k] = m_ioc[k]
      /\ m_ioc'[new] = h
  BY <1>1, <1>2, <1>3, AppendProperties
<1>5. /\ Len(m_ioc) \in Nat
      /\ DOMAIN m_ioc = 1 .. Len(m_ioc) /\ DOMAIN m_ioc' = 1 .. new
  BY <1>1, <1>4, LenProperties
<1>6. \A k \in DOMAIN m_ioc : m_ioc[k] \in Handler
  BY <1>1, <1>5, ElementOfSeq
<1> QED  BY <1>1, <1>4, <1>5, <1>6 DEF h, JoinsQueue

\* A call other than a stop leaves the order of checks, calls and stops as it is.
LEMMA CallKeepsQueue ==
  ASSUME Inv, torrentOf' = torrentOf, phase' = phase,
         NEW call \in {"write", "read", "hash", "clear", "release", "other"},
         NEW n \in Objects, phase[n] = "active", NEW p \in Pieces,
         NEW pointer \in Objects \union {0}, NEW result \in Contents,
         Post(call, n, p, pointer, result)
  PROVE  QueueOK'
<1> DEFINE new == Len(m_ioc) + 1
<1>1. TypeOK /\ QueueOK
  BY DEF Inv
<1>2. JoinsQueue(call, n, p, pointer, result)
  BY <1>1, Called
<1>3. /\ DOMAIN m_ioc' = DOMAIN m_ioc \union {new} /\ new \notin DOMAIN m_ioc
      /\ \A k \in DOMAIN m_ioc : m_ioc'[k] = m_ioc[k]
      /\ m_ioc'[new].call = call /\ m_ioc'[new].of = n
  BY <1>2 DEF JoinsQueue
<1> HIDE DEF new
<1> QED  BY <1>1, <1>3 DEF QueueOK

\* A call that is not about the content of a piece leaves the answers as they are.
LEMMA PlainCallKeeps ==
  ASSUME Inv, UNCHANGED <<torrentOf, phase, state, m_file_data>>,
         NEW call \in {"release", "other"}, NEW n \in Objects,
         Post(call, n, AnyPiece, 0, "none")
  PROVE  PieceQueueOK' /\ ReadsOK' /\ ClearsOK'
<1> DEFINE new == Len(m_ioc) + 1
<1>1. TypeOK /\ PieceQueueOK /\ ReadsOK /\ ClearsOK /\ AnyPiece \in Pieces
  BY DiskAssumption DEF Inv, AnyPiece
<1>2. JoinsQueue(call, n, AnyPiece, 0, "none")
  BY <1>1, Called DEF Contents
<1>3. /\ DOMAIN m_ioc' = DOMAIN m_ioc \union {new} /\ new \notin DOMAIN m_ioc
      /\ \A k \in DOMAIN m_ioc : m_ioc'[k] = m_ioc[k]
      /\ m_ioc'[new].call = call
  BY <1>2 DEF JoinsQueue
<1> HIDE DEF new
<1>4. PieceQueueOK'
  BY <1>1, <1>3 DEF PieceQueueOK, PieceCall, Using
<1>5. ReadsOK'
  BY <1>1, <1>3 DEF ReadsOK, Using
<1>6. ClearsOK'
  BY <1>1, <1>3 DEF ClearsOK, Using, Objects
<1> QED  BY <1>4, <1>5, <1>6

\* A call about one piece leaves every other piece as it is.
Elsewhere(n, p) ==
  /\ UNCHANGED <<torrentOf, phase>>
  /\ \A o \in Objects, q \in Pieces : o # n \/ q # p =>
       state'[o][q] = state[o][q] /\ m_file_data'[o][q] = m_file_data[o][q]

\* A call about a piece that no other call is under way for.
LEMMA PieceCallKeeps ==
  ASSUME Inv, NEW n \in Objects, NEW p \in Pieces, Elsewhere(n, p), phase[n] = "active",
         state[n][p] \notin {"writing", "hashing", "clearing"},
         NEW call \in {"write", "read", "hash", "clear"}, NEW pointer, NEW result,
         JoinsQueue(call, n, p, pointer, result),
         call # "read" => state'[n][p] = Awaiting[call],
         call = "hash" => result = m_file_data'[n][p]
  PROVE  PieceQueueOK'
<1> DEFINE new == Len(m_ioc) + 1
<1>1. /\ DOMAIN m_ioc' = DOMAIN m_ioc \union {new} /\ new \notin DOMAIN m_ioc
      /\ \A k \in DOMAIN m_ioc :
           m_ioc'[k] = m_ioc[k] /\ m_ioc[k].of \in Objects /\ m_ioc[k].piece \in Pieces
      /\ m_ioc'[new].call = call /\ m_ioc'[new].of = n /\ m_ioc'[new].piece = p
      /\ m_ioc'[new].result = result
  BY DEF JoinsQueue, Handler
<1> HIDE DEF new
<1>2. PieceQueueOK
  BY DEF Inv
<1>3. \A k \in DOMAIN m_ioc : PieceCall(k)' = PieceCall(k) /\ Using(m_ioc[k].of)' = Using(m_ioc[k].of)
  BY <1>1 DEF PieceCall, Using, Elsewhere
<1>4. \A k \in DOMAIN m_ioc : m_ioc[k].of = n /\ m_ioc[k].piece = p => ~PieceCall(k)
  BY <1>2 DEF PieceQueueOK, PieceCall, Awaiting, Using
<1> SUFFICES ASSUME NEW k \in DOMAIN m_ioc', (Using(m_ioc[k].of) /\ PieceCall(k))'
             PROVE  (/\ state[m_ioc[k].of][m_ioc[k].piece] = Awaiting[m_ioc[k].call]
                     /\ m_ioc[k].call = "hash" =>
                          m_ioc[k].result = m_file_data[m_ioc[k].of][m_ioc[k].piece]
                     /\ \A l \in DOMAIN m_ioc :
                          PieceCall(l) /\ m_ioc[l].of = m_ioc[k].of
                            /\ m_ioc[l].piece = m_ioc[k].piece => l = k)'
  BY DEF PieceQueueOK
<1>5. CASE k = new
  <2>1. state'[m_ioc'[k].of][m_ioc'[k].piece] = Awaiting[m_ioc'[k].call]
    BY <1>1, <1>5 DEF PieceCall
  <2>2. m_ioc'[k].call = "hash" => m_ioc'[k].result = m_file_data'[m_ioc'[k].of][m_ioc'[k].piece]
    BY <1>1, <1>5
  <2>3. \A l \in DOMAIN m_ioc' :
          PieceCall(l)' /\ m_ioc'[l].of = n /\ m_ioc'[l].piece = p => l = new
    BY <1>1, <1>3, <1>4
  <2> QED  BY <1>1, <1>5, <2>1, <2>2, <2>3
<1>6. CASE k \in DOMAIN m_ioc
  <2>1. ~(m_ioc[k].of = n /\ m_ioc[k].piece = p) /\ Using(m_ioc[k].of) /\ PieceCall(k)
    BY <1>3, <1>4, <1>6
  <2>2. /\ m_ioc'[k] = m_ioc[k]
        /\ state'[m_ioc[k].of][m_ioc[k].piece] = state[m_ioc[k].of][m_ioc[k].piece]
        /\ m_file_data'[m_ioc[k].of][m_ioc[k].piece] = m_file_data[m_ioc[k].of][m_ioc[k].piece]
    BY <1>1, <1>6, <2>1 DEF Elsewhere
  <2>3. /\ state[m_ioc[k].of][m_ioc[k].piece] = Awaiting[m_ioc[k].call]
        /\ m_ioc[k].call = "hash" =>
             m_ioc[k].result = m_file_data[m_ioc[k].of][m_ioc[k].piece]
    BY <1>2, <1>6, <2>1 DEF PieceQueueOK
  <2>4. \A l \in DOMAIN m_ioc' :
          PieceCall(l)' /\ m_ioc'[l].of = m_ioc[k].of /\ m_ioc'[l].piece = m_ioc[k].piece => l = k
    BY <1>1, <1>2, <1>3, <1>6, <2>1 DEF PieceQueueOK
  <2> QED  BY <2>2, <2>3, <2>4
<1> QED  BY <1>1, <1>5, <1>6

\* A read under way is of a piece that stays readable, and a new one joins it only then.
LEMMA CallKeepsReads ==
  ASSUME Inv, NEW n \in Objects, NEW p \in Pieces, Elsewhere(n, p), phase[n] = "active",
         \/ state[n][p] \notin {"have", "failed", "clearing"}
         \/ /\ state'[n][p] \in {"have", "failed", "clearing"}
            /\ m_file_data'[n][p] = m_file_data[n][p],
         NEW call, NEW pointer, NEW result,
         JoinsQueue(call, n, p, pointer, result),
         call = "read" => /\ pointer \in {0, n}
                          /\ pointer # 0 => m_file_data'[n][p] # "none"
                          /\ state'[n][p] \in {"have", "failed", "clearing"}
  PROVE  ReadsOK'
<1> DEFINE new == Len(m_ioc) + 1
<1>1. /\ DOMAIN m_ioc' = DOMAIN m_ioc \union {new} /\ new \notin DOMAIN m_ioc
      /\ \A k \in DOMAIN m_ioc :
           m_ioc'[k] = m_ioc[k] /\ m_ioc[k].of \in Objects /\ m_ioc[k].piece \in Pieces
      /\ m_ioc'[new].call = call /\ m_ioc'[new].of = n /\ m_ioc'[new].piece = p
      /\ m_ioc'[new].pointer = pointer
  BY DEF JoinsQueue, Handler
<1> HIDE DEF new
<1>2. ReadsOK /\ phase' = phase
  BY DEF Inv, Elsewhere
<1> SUFFICES ASSUME NEW k \in DOMAIN m_ioc', m_ioc'[k].call = "read"
             PROVE  (/\ m_ioc[k].pointer \in {0, m_ioc[k].of}
                     /\ m_ioc[k].pointer # 0 => m_file_data[m_ioc[k].of][m_ioc[k].piece] # "none"
                     /\ Using(m_ioc[k].of) =>
                          state[m_ioc[k].of][m_ioc[k].piece] \in {"have", "failed", "clearing"})'
  BY DEF ReadsOK
<1>3. CASE k = new
  BY <1>1, <1>3
<1>4. CASE k \in DOMAIN m_ioc
  <2>1. /\ m_ioc'[k] = m_ioc[k] /\ m_ioc[k].call = "read"
        /\ m_ioc[k].of \in Objects /\ m_ioc[k].piece \in Pieces
    BY <1>1, <1>4
  <2>2. /\ m_ioc[k].pointer \in {0, m_ioc[k].of}
        /\ m_ioc[k].pointer # 0 => m_file_data[m_ioc[k].of][m_ioc[k].piece] # "none"
        /\ Using(m_ioc[k].of) =>
             state[m_ioc[k].of][m_ioc[k].piece] \in {"have", "failed", "clearing"}
    BY <1>2, <1>4, <2>1 DEF ReadsOK
  <2>3. CASE m_ioc[k].of = n /\ m_ioc[k].piece = p
    BY <1>2, <2>1, <2>2, <2>3 DEF Using
  <2>4. CASE ~(m_ioc[k].of = n /\ m_ioc[k].piece = p)
    BY <1>2, <2>1, <2>2, <2>4 DEF Using, Elsewhere
  <2> QED  BY <2>3, <2>4
<1> QED  BY <1>1, <1>3, <1>4

\* A clear joins the queue behind the reads, and nothing overtakes it.
LEMMA CallKeepsClears ==
  ASSUME Inv, NEW n \in Objects, NEW p \in Pieces, Elsewhere(n, p), phase[n] = "active",
         NEW call, NEW pointer, NEW result,
         JoinsQueue(call, n, p, pointer, result),
         state'[n][p] = "clearing" => call = "clear"
  PROVE  ClearsOK'
<1> DEFINE new == Len(m_ioc) + 1
<1>1. /\ DOMAIN m_ioc' = DOMAIN m_ioc \union {new} /\ new \notin DOMAIN m_ioc
      /\ \A k \in DOMAIN m_ioc : m_ioc'[k] = m_ioc[k] /\ k < new
      /\ m_ioc'[new].call = call /\ m_ioc'[new].of = n /\ m_ioc'[new].piece = p
  BY DEF JoinsQueue
<1> HIDE DEF new
<1>2. ClearsOK /\ phase' = phase /\ Objects' = Objects
  BY DEF Inv, Elsewhere, Objects
<1> SUFFICES ASSUME NEW o \in Objects, NEW q \in Pieces, (Using(o) /\ state[o][q] = "clearing")'
             PROVE  (\E k \in DOMAIN m_ioc :
                      /\ m_ioc[k].call = "clear" /\ m_ioc[k].of = o /\ m_ioc[k].piece = q
                      /\ \A l \in DOMAIN m_ioc :
                           m_ioc[l].call = "read" /\ m_ioc[l].of = o /\ m_ioc[l].piece = q
                             => l < k)'
  BY <1>2 DEF ClearsOK
<1>3. CASE o = n /\ q = p
  <2>1. call = "clear" /\ new \in DOMAIN m_ioc'
    BY <1>1, <1>3
  <2>2. \A l \in DOMAIN m_ioc' : m_ioc'[l].call = "read" => l < new
    BY <1>1, <2>1
  <2> QED  BY <1>1, <1>3, <2>1, <2>2
<1>4. CASE ~(o = n /\ q = p)
  <2>1. Using(o) /\ state[o][q] = "clearing"
    BY <1>2, <1>4 DEF Using, Elsewhere
  <2>2. PICK k \in DOMAIN m_ioc :
          /\ m_ioc[k].call = "clear" /\ m_ioc[k].of = o /\ m_ioc[k].piece = q
          /\ \A l \in DOMAIN m_ioc :
               m_ioc[l].call = "read" /\ m_ioc[l].of = o /\ m_ioc[l].piece = q => l < k
    BY <1>2, <2>1 DEF ClearsOK
  <2>3. k \in DOMAIN m_ioc' /\ m_ioc'[k] = m_ioc[k]
    BY <1>1
  <2>4. \A l \in DOMAIN m_ioc' :
          m_ioc'[l].call = "read" /\ m_ioc'[l].of = o /\ m_ioc'[l].piece = q => l < k
    BY <1>1, <1>4, <2>2
  <2> QED  BY <2>2, <2>3, <2>4
<1> QED  BY <1>3, <1>4

\* What is written to a piece nobody has a call under way for disturbs no answer.
LEMMA WriteKeeps ==
  ASSUME Inv, NEW n \in Objects, NEW p \in Pieces, NEW c \in {"good", "bad"},
         PieceIs(n, p, "absent"), async_write(n, p, c), Becomes(n, p, "writing"),
         offered' \in [Objects -> [Pieces -> Contents \union {"unread"}]],
         UNCHANGED <<torrentOf, holder, phase, buffers, historyVars>>
  PROVE  Inv'
<1>1. /\ TypeOK /\ SlotsKeptApart /\ PiecesOK /\ BuffersOK
      /\ phase[n] = "active" /\ state[n][p] = "absent" /\ StorageOf(n) = n
  BY OwnStorage DEF Inv, PieceIs
<1>2. /\ m_file_data' = [m_file_data EXCEPT ![n][p] = c]
      /\ m_invalid' = [m_invalid EXCEPT ![n] = @ \ {p}]
      /\ has_changed_since' = [has_changed_since EXCEPT ![n] = TRUE]
      /\ state' = [state EXCEPT ![n][p] = "writing"]
      /\ Post("write", n, p, 0, "none")
      /\ UNCHANGED <<m_torrents, m_free_slots, file, torrentOf, holder, phase, buffers,
                     verified, spoiled>>
  BY <1>1 DEF async_write, writev, Becomes, ioVars, historyVars
<1>3. JoinsQueue("write", n, p, 0, "none") /\ QueueOK'
  BY <1>1, <1>2, Called, CallKeepsQueue DEF Contents
<1>4. Objects' = Objects /\ m_ioc' \in Seq(Handler')
  BY <1>2, <1>3 DEF Objects, JoinsQueue
<1>5. /\ m_file_data' \in [Objects -> [Pieces -> Contents]]
      /\ state' \in [Objects -> [Pieces -> PieceStates]]
      /\ \A o \in Objects, q \in Pieces :
           /\ m_file_data'[o][q] = IF o = n /\ q = p THEN c ELSE m_file_data[o][q]
           /\ state'[o][q] = IF o = n /\ q = p THEN "writing" ELSE state[o][q]
           /\ q \in m_invalid'[o] => q \in m_invalid[o] /\ ~(o = n /\ q = p)
  BY <1>1, <1>2 DEF TypeOK, PieceStates, Contents
<1>6. Elsewhere(n, p)
  BY <1>2, <1>5 DEF Elsewhere
<1>7. TypeOK'
  <2>1. m_invalid' \in [Objects -> SUBSET Pieces] /\ has_changed_since' \in [Objects -> BOOLEAN]
    BY <1>1, <1>2 DEF TypeOK
  <2>2. \A b \in buffers' : b \in Buffer'
    BY <1>1, <1>2, <1>4 DEF TypeOK, Buffer
  <2> QED  BY <1>1, <1>2, <1>4, <1>5, <2>1, <2>2 DEF TypeOK
<1>8. SlotsKeptApart'
  BY <1>1, <1>2, SlotsStay
<1>9. state'[n][p] = "writing" /\ Awaiting["write"] = "writing"
  BY <1>5 DEF Awaiting
<1>10. PieceQueueOK' /\ ReadsOK' /\ ClearsOK'
  <2>1. PieceQueueOK'
    BY <1>1, <1>3, <1>6, <1>9, PieceCallKeeps
  <2>2. ReadsOK'
    BY <1>1, <1>3, <1>6, CallKeepsReads
  <2>3. ClearsOK'
    BY <1>1, <1>3, <1>6, <1>9, CallKeepsClears
  <2> QED  BY <2>1, <2>2, <2>3
<1>11. PiecesOK'
  BY <1>1, <1>2, <1>4, <1>5 DEF PiecesOK, Using
<1>12. BuffersOK'
  BY <1>1, <1>2, <1>5 DEF BuffersOK, TypeOK, Buffer
<1> QED  BY <1>3, <1>7, <1>8, <1>10, <1>11, <1>12 DEF Inv

\* What is under way for a piece is what the session waits for.
LEMMA HashPieceKeeps ==
  ASSUME Inv, NEW n \in Objects, NEW p \in Pieces, HashPiece(n, p)
  PROVE  Inv'
<1>1. /\ TypeOK /\ SlotsKeptApart /\ PiecesOK /\ BuffersOK
      /\ phase[n] = "active" /\ state[n][p] = "written" /\ StorageOf(n) = n
  BY OwnStorage DEF Inv, PieceIs, HashPiece
<1> DEFINE r == m_file_data[n][p]
<1>2. /\ state' = [state EXCEPT ![n][p] = "hashing"]
      /\ Post("hash", n, p, 0, r)
      /\ UNCHANGED <<m_torrents, m_free_slots, m_file_data, m_invalid, has_changed_since, file,
                     torrentOf, holder, phase, offered, buffers, verified, spoiled>>
  BY <1>1 DEF HashPiece, async_hash, hash, Becomes, ioVars, storageVars, historyVars
<1>3. r \in Contents
  BY <1>1 DEF TypeOK
<1> HIDE DEF r
<1>4. JoinsQueue("hash", n, p, 0, r) /\ QueueOK'
  BY <1>1, <1>2, <1>3, Called, CallKeepsQueue
<1>5. Objects' = Objects /\ m_ioc' \in Seq(Handler')
  BY <1>2, <1>4 DEF Objects, JoinsQueue
<1>6. /\ state' \in [Objects -> [Pieces -> PieceStates]]
      /\ \A o \in Objects, q \in Pieces :
           state'[o][q] = IF o = n /\ q = p THEN "hashing" ELSE state[o][q]
  BY <1>1, <1>2 DEF TypeOK, PieceStates
<1>7. Elsewhere(n, p)
  BY <1>2, <1>6 DEF Elsewhere
<1>8. TypeOK'
  <2>1. \A b \in buffers' : b \in Buffer'
    BY <1>1, <1>2, <1>5 DEF TypeOK, Buffer
  <2> QED  BY <1>1, <1>2, <1>5, <1>6, <2>1 DEF TypeOK
<1>9. SlotsKeptApart'
  BY <1>1, <1>2, SlotsStay
<1>10. /\ state'[n][p] = "hashing" /\ Awaiting["hash"] = "hashing"
       /\ r = m_file_data'[n][p]
  BY <1>2, <1>6 DEF Awaiting, r
<1>11. PieceQueueOK' /\ ReadsOK' /\ ClearsOK'
  <2>1. PieceQueueOK'
    BY <1>1, <1>4, <1>7, <1>10, PieceCallKeeps
  <2>2. ReadsOK'
    BY <1>1, <1>4, <1>7, CallKeepsReads
  <2>3. ClearsOK'
    BY <1>1, <1>4, <1>7, <1>10, CallKeepsClears
  <2> QED  BY <2>1, <2>2, <2>3
<1>12. PiecesOK'
  BY <1>1, <1>2, <1>5, <1>6 DEF PiecesOK, Using
<1>13. BuffersOK'
  BY <1>1, <1>2, <1>6 DEF BuffersOK, TypeOK, Buffer
<1> QED  BY <1>4, <1>8, <1>9, <1>11, <1>12, <1>13 DEF Inv

\* A read hands out a pointer into the storage of its own torrent.
LEMMA ReadPieceKeeps ==
  ASSUME Inv, NEW n \in Objects, NEW p \in Pieces, ReadPiece(n, p)
  PROVE  Inv'
<1>1. /\ TypeOK /\ SlotsKeptApart /\ PiecesOK /\ BuffersOK
      /\ phase[n] = "active" /\ state[n][p] \in {"have", "failed"} /\ StorageOf(n) = n
  BY OwnStorage DEF Inv, PieceIs, ReadPiece
<1> DEFINE r == readv(n, p)
<1>2. /\ Post("read", n, p, r, "none")
      /\ UNCHANGED <<m_torrents, m_free_slots, m_file_data, m_invalid, has_changed_since, file,
                     torrentOf, holder, phase, state, offered, buffers, verified, spoiled>>
  BY <1>1 DEF ReadPiece, async_read, ioVars, storageVars, sessionVars, historyVars
<1>3. r \in {0, n} /\ (r # 0 => m_file_data[n][p] # "none") /\ r \in Objects \union {0}
  BY DEF readv, Readable
<1> HIDE DEF r
<1>4. JoinsQueue("read", n, p, r, "none") /\ QueueOK'
  BY <1>1, <1>2, <1>3, Called, CallKeepsQueue DEF Contents
<1>5. Objects' = Objects /\ m_ioc' \in Seq(Handler')
  BY <1>2, <1>4 DEF Objects, JoinsQueue
<1>6. Elsewhere(n, p)
  BY <1>2 DEF Elsewhere
<1>7. TypeOK'
  <2>1. \A b \in buffers' : b \in Buffer'
    BY <1>1, <1>2, <1>5 DEF TypeOK, Buffer
  <2> QED  BY <1>1, <1>2, <1>5, <2>1 DEF TypeOK
<1>8. SlotsKeptApart'
  BY <1>1, <1>2, SlotsStay
<1>9. PieceQueueOK' /\ ReadsOK' /\ ClearsOK'
  <2>1. PieceQueueOK'
    BY <1>1, <1>2, <1>4, <1>6, PieceCallKeeps
  <2>2. ReadsOK'
    BY <1>1, <1>2, <1>3, <1>4, <1>6, CallKeepsReads
  <2>3. ClearsOK'
    BY <1>1, <1>2, <1>4, <1>6, CallKeepsClears
  <2> QED  BY <2>1, <2>2, <2>3
<1>10. PiecesOK'
  BY <1>1, <1>2, <1>5 DEF PiecesOK, Using
<1>11. BuffersOK'
  BY <1>1, <1>2 DEF BuffersOK, TypeOK, Buffer
<1> QED  BY <1>4, <1>7, <1>8, <1>9, <1>10, <1>11 DEF Inv

\* A clear keeps the content for the reads before it.
LEMMA ClearPieceKeeps ==
  ASSUME Inv, NEW n \in Objects, NEW p \in Pieces, ClearPiece(n, p)
  PROVE  Inv'
<1>1. /\ TypeOK /\ SlotsKeptApart /\ PiecesOK /\ BuffersOK
      /\ phase[n] = "active" /\ state[n][p] = "failed" /\ StorageOf(n) = n
  BY OwnStorage DEF Inv, PieceIs, ClearPiece
<1>2. /\ m_invalid' = [m_invalid EXCEPT ![n] = @ \union {p}]
      /\ state' = [state EXCEPT ![n][p] = "clearing"]
      /\ Post("clear", n, p, 0, "none")
      /\ UNCHANGED <<m_torrents, m_free_slots, m_file_data, has_changed_since, file,
                     torrentOf, holder, phase, offered, buffers, verified, spoiled>>
  BY <1>1 DEF ClearPiece, async_clear_piece, clear_piece, Becomes, ioVars, historyVars
<1>3. JoinsQueue("clear", n, p, 0, "none") /\ QueueOK'
  BY <1>1, <1>2, Called, CallKeepsQueue DEF Contents
<1>4. Objects' = Objects /\ m_ioc' \in Seq(Handler')
  BY <1>2, <1>3 DEF Objects, JoinsQueue
<1>5. /\ state' \in [Objects -> [Pieces -> PieceStates]]
      /\ m_invalid' \in [Objects -> SUBSET Pieces]
      /\ \A o \in Objects, q \in Pieces :
           /\ state'[o][q] = IF o = n /\ q = p THEN "clearing" ELSE state[o][q]
           /\ q \in m_invalid'[o] => q \in m_invalid[o] \/ (o = n /\ q = p)
  BY <1>1, <1>2 DEF TypeOK, PieceStates
<1>6. Elsewhere(n, p)
  BY <1>2, <1>5 DEF Elsewhere
<1>7. TypeOK'
  <2>1. \A b \in buffers' : b \in Buffer'
    BY <1>1, <1>2, <1>4 DEF TypeOK, Buffer
  <2> QED  BY <1>1, <1>2, <1>4, <1>5, <2>1 DEF TypeOK
<1>8. SlotsKeptApart'
  BY <1>1, <1>2, SlotsStay
<1>9. state'[n][p] = "clearing" /\ Awaiting["clear"] = "clearing" /\ m_file_data'[n][p] = m_file_data[n][p]
  BY <1>2, <1>5 DEF Awaiting
<1>10. PieceQueueOK' /\ ReadsOK' /\ ClearsOK'
  <2>1. PieceQueueOK'
    BY <1>1, <1>3, <1>6, <1>9, PieceCallKeeps
  <2>2. ReadsOK'
    BY <1>1, <1>3, <1>6, <1>9, CallKeepsReads
  <2>3. ClearsOK'
    BY <1>1, <1>3, <1>6, <1>9, CallKeepsClears
  <2> QED  BY <2>1, <2>2, <2>3
<1>11. PiecesOK'
  BY <1>1, <1>2, <1>4, <1>5 DEF PiecesOK, Using
<1>12. BuffersOK'
  BY <1>1, <1>2, <1>5 DEF BuffersOK, TypeOK, Buffer
<1> QED  BY <1>3, <1>7, <1>8, <1>10, <1>11, <1>12 DEF Inv

\* Every torrent object is of a torrent.
LEMMA TorrentKnown ==
  ASSUME TypeOK, NEW n \in Objects
  PROVE  torrentOf[n] \in Torrents
BY ElementOfSeq, LenProperties DEF TypeOK, Objects

\* What a flush of a storage does, whether or not it fails: it writes the file of no
\* other torrent, and a torrent not spoiled by it has its pieces in its file.
Flushed(n, t) ==
  /\ file' \in [Torrents -> [Pieces -> Contents]]
  /\ has_changed_since' \in [Objects -> BOOLEAN]
  /\ spoiled \subseteq spoiled' /\ spoiled' \subseteq Torrents
  /\ \A u \in Torrents : u # t => file'[u] = file[u] /\ (u \in spoiled' => u \in spoiled)
  /\ \A o \in Objects : o # n => has_changed_since'[o] = has_changed_since[o]
  /\ t \notin spoiled' =>
       /\ has_changed_since'[n] = FALSE
       /\ file'[t] = IF has_changed_since[n] THEN m_file_data[n] ELSE file[t]

LEMMA FlushEffects ==
  ASSUME TypeOK, NEW n \in Objects, NEW t \in Torrents, release_files(n, t)
  PROVE  Flushed(n, t)
<1>1. /\ file \in [Torrents -> [Pieces -> Contents]] /\ has_changed_since \in [Objects -> BOOLEAN]
      /\ m_file_data[n] \in [Pieces -> Contents] /\ spoiled \subseteq Torrents
  BY DEF TypeOK
<1>2. CASE Saves(n, t)
  BY <1>1, <1>2 DEF Saves, Flushed
<1>3. CASE SaveFails(n, t)
  <2>1. file' = file \/ \E torn \in [Pieces -> Contents] : file' = [file EXCEPT ![t] = torn]
    BY <1>3 DEF SaveFails, TornFiles
  <2>2. /\ file' \in [Torrents -> [Pieces -> Contents]]
        /\ \A u \in Torrents : u # t => file'[u] = file[u]
    BY <1>1, <2>1
  <2>3. \/ has_changed_since' = has_changed_since
        \/ has_changed_since' = [has_changed_since EXCEPT ![n] = FALSE]
    BY <1>3 DEF SaveFails
  <2>4. spoiled' = spoiled \union {t}
    BY <1>3 DEF SaveFails
  <2> QED  BY <1>1, <2>2, <2>3, <2>4 DEF Flushed
<1> QED  BY <1>2, <1>3 DEF release_files

\* A flush writes the resume file and disturbs no storage and no answer.
LEMMA ReleaseKeeps ==
  ASSUME Inv, NEW n \in Objects, ReleaseFiles(n)
  PROVE  Inv'
<1>1. /\ TypeOK /\ SlotsKeptApart /\ PiecesOK /\ BuffersOK
      /\ phase[n] = "active" /\ StorageOf(n) = n
  BY OwnStorage DEF Inv, ReleaseFiles
<1>2. /\ Flushed(n, torrentOf[n])
      /\ Post("release", n, AnyPiece, 0, "none") \/ UNCHANGED m_ioc
      /\ UNCHANGED <<m_torrents, m_free_slots, m_file_data, m_invalid, torrentOf, holder, phase,
                     state, offered, buffers, verified>>
  <2>1. torrentOf[n] \in Torrents
    BY <1>1, TorrentKnown
  <2> QED  BY <1>1, <2>1, FlushEffects DEF ReleaseFiles, async_release_files, ioVars, sessionVars
<1>3. Objects' = Objects /\ Handler' = Handler
  BY <1>2 DEF Objects, Handler
<1>4. m_ioc' \in Seq(Handler') /\ QueueOK' /\ PieceQueueOK' /\ ReadsOK' /\ ClearsOK'
  <2>1. CASE Post("release", n, AnyPiece, 0, "none")
    <3>1. PieceQueueOK' /\ ReadsOK' /\ ClearsOK'
      BY <1>2, <2>1, PlainCallKeeps
    <3>2. AnyPiece \in Pieces
      BY DiskAssumption DEF AnyPiece
    <3>3. QueueOK'
      BY <1>1, <1>2, <2>1, <3>2, CallKeepsQueue DEF Contents
    <3>4. JoinsQueue("release", n, AnyPiece, 0, "none")
      BY <1>1, <1>2, <2>1, <3>2, Called DEF Contents
    <3> QED  BY <3>1, <3>3, <3>4 DEF JoinsQueue
  <2>2. CASE UNCHANGED m_ioc
    <3>1. m_ioc' \in Seq(Handler')
      BY <1>1, <1>3, <2>2 DEF TypeOK
    <3>2. QueueOK' /\ PieceQueueOK'
      BY <1>2, <2>2 DEF Inv, QueueOK, PieceQueueOK, PieceCall, Using
    <3>3. ReadsOK' /\ ClearsOK'
      BY <1>2, <1>3, <2>2 DEF Inv, ReadsOK, ClearsOK, Using
    <3> QED  BY <3>1, <3>2, <3>3
  <2> QED  BY <1>2, <2>1, <2>2
<1>5. TypeOK'
  <2>1. \A b \in buffers' : b \in Buffer'
    BY <1>1, <1>2, <1>3 DEF TypeOK, Buffer
  <2>2. /\ has_changed_since' \in [Objects -> BOOLEAN] /\ spoiled' \subseteq Torrents
        /\ file' \in [Torrents -> [Pieces -> Contents]]
    BY <1>2 DEF Flushed
  <2> QED  BY <1>1, <1>2, <1>3, <1>4, <2>1, <2>2 DEF TypeOK
<1>6. SlotsKeptApart'
  BY <1>1, <1>2, SlotsStay
<1>7. PiecesOK'
  BY <1>1, <1>2, <1>3 DEF PiecesOK, Using
<1>8. BuffersOK'
  BY <1>1, <1>2 DEF BuffersOK, TypeOK, Buffer
<1> QED  BY <1>4, <1>5, <1>6, <1>7, <1>8 DEF Inv

\* Neither do the calls that touch no piece.
LEMMA OtherKeeps ==
  ASSUME Inv, NEW n \in Objects, OtherCall(n)
  PROVE  Inv'
<1>1. TypeOK /\ SlotsKeptApart /\ PiecesOK /\ BuffersOK /\ phase[n] = "active" /\ AnyPiece \in Pieces
  BY DiskAssumption DEF Inv, OtherCall, AnyPiece
<1>2. /\ Post("other", n, AnyPiece, 0, "none")
      /\ UNCHANGED <<m_torrents, m_free_slots, m_file_data, m_invalid, has_changed_since, file,
                     torrentOf, holder, phase, state, offered, buffers, verified, spoiled>>
  BY DEF OtherCall, async_other, ioVars, storageVars, sessionVars, historyVars
<1>3. JoinsQueue("other", n, AnyPiece, 0, "none") /\ QueueOK'
  BY <1>1, <1>2, Called, CallKeepsQueue DEF Contents
<1>4. PieceQueueOK' /\ ReadsOK' /\ ClearsOK'
  BY <1>2, PlainCallKeeps
<1>5. Objects' = Objects /\ m_ioc' \in Seq(Handler')
  BY <1>2, <1>3 DEF Objects, JoinsQueue
<1>6. TypeOK'
  <2>1. \A b \in buffers' : b \in Buffer'
    BY <1>1, <1>2, <1>5 DEF TypeOK, Buffer
  <2> QED  BY <1>1, <1>2, <1>5, <2>1 DEF TypeOK
<1>7. SlotsKeptApart'
  BY <1>1, <1>2, SlotsStay
<1>8. PiecesOK'
  BY <1>1, <1>2, <1>5 DEF PiecesOK, Using
<1>9. BuffersOK'
  BY <1>1, <1>2 DEF BuffersOK, TypeOK, Buffer
<1> QED  BY <1>3, <1>4, <1>6, <1>7, <1>8, <1>9 DEF Inv

\* What is read back has a content for each piece.
LEMMA ReadBackTyped ==
  ASSUME TypeOK, NEW t \in Torrents
  PROVE  ReadBack(t) \in [Pieces -> Contents]
<1>1. file[t] \in [Pieces -> Contents]
  BY DEF TypeOK
<1> QED  BY <1>1 DEF ReadBack, Contents

\* The manager hears what the resume file has.
LEMMA CheckResumeKeeps ==
  ASSUME Inv, NEW n \in Objects, check_resume_data(n)
  PROVE  Inv'
<1>1. /\ TypeOK /\ SlotsKeptApart /\ QueueOK /\ PieceQueueOK /\ ReadsOK /\ ClearsOK
      /\ PiecesOK /\ BuffersOK
  BY DEF Inv
<1>2. /\ offered' = [offered EXCEPT ![n] = ReadBack(torrentOf[n])]
      /\ spoiled' = spoiled \/ spoiled' = spoiled \union {torrentOf[n]}
      /\ UNCHANGED <<m_torrents, m_free_slots, m_ioc, m_file_data, m_invalid, has_changed_since, file,
                     torrentOf, holder, phase, state, buffers, verified>>
  BY DEF check_resume_data, ioVars, storageVars
<1>3. Objects' = Objects /\ Handler' = Handler
  BY <1>2 DEF Objects, Handler
<1>4. TypeOK'
  <2>1. \A b \in buffers' : b \in Buffer'
    BY <1>1, <1>2, <1>3 DEF TypeOK, Buffer
  <2>2. offered' \in [Objects -> [Pieces -> Contents \union {"unread"}]]
    <3>1. ReadBack(torrentOf[n]) \in [Pieces -> Contents \union {"unread"}]
      BY <1>1, TorrentKnown, ReadBackTyped
    <3> QED  BY <1>1, <1>2, <3>1 DEF TypeOK
  <2>3. spoiled' \subseteq Torrents
    BY <1>1, <1>2, TorrentKnown DEF TypeOK
  <2> QED  BY <1>1, <1>2, <1>3, <2>1, <2>2, <2>3 DEF TypeOK
<1>5. SlotsKeptApart'
  BY <1>1, <1>2, SlotsStay
<1>6. QueueOK' /\ PieceQueueOK'
  BY <1>1, <1>2 DEF QueueOK, PieceQueueOK, PieceCall, Using
<1>7. ReadsOK' /\ ClearsOK'
  BY <1>1, <1>2, <1>3 DEF ReadsOK, ClearsOK, Using
<1>8. PiecesOK'
  BY <1>1, <1>2, <1>3 DEF PiecesOK, Using
<1>9. BuffersOK'
  BY <1>1, <1>2 DEF BuffersOK, TypeOK, Buffer
<1> QED  BY <1>4, <1>5, <1>6, <1>7, <1>8, <1>9 DEF Inv

\* A peer gives a buffer back.
LEMMA FreeBufferKeeps ==
  ASSUME Inv, NEW b \in buffers, FreeBuffer(b)
  PROVE  Inv'
<1>1. /\ TypeOK /\ SlotsKeptApart /\ QueueOK /\ PieceQueueOK /\ ReadsOK /\ ClearsOK
      /\ PiecesOK /\ BuffersOK
  BY DEF Inv
<1>2. /\ buffers' = buffers \ {b}
      /\ UNCHANGED <<m_torrents, m_free_slots, m_ioc, m_file_data, m_invalid, has_changed_since, file,
                     torrentOf, holder, phase, state, offered, verified, spoiled>>
  BY DEF FreeBuffer, ioVars, storageVars, historyVars
<1>3. Objects' = Objects /\ Handler' = Handler
  BY <1>2 DEF Objects, Handler
<1>4. TypeOK'
  <2>1. \A a \in buffers' : a \in Buffer'
    BY <1>1, <1>2, <1>3 DEF TypeOK, Buffer
  <2> QED  BY <1>1, <1>2, <1>3, <2>1 DEF TypeOK
<1>5. SlotsKeptApart'
  BY <1>1, <1>2, SlotsStay
<1>6. QueueOK' /\ PieceQueueOK'
  BY <1>1, <1>2 DEF QueueOK, PieceQueueOK, PieceCall, Using
<1>7. ReadsOK' /\ ClearsOK'
  BY <1>1, <1>2, <1>3 DEF ReadsOK, ClearsOK, Using
<1>8. PiecesOK'
  BY <1>1, <1>2, <1>3 DEF PiecesOK, Using
<1>9. BuffersOK'
  BY <1>1, <1>2 DEF BuffersOK, TypeOK, Buffer
<1> QED  BY <1>4, <1>5, <1>6, <1>7, <1>8, <1>9 DEF Inv

\* The stop of a torrent is behind all its calls, and its peers give their buffers back.
LEMMA RemoveTorrentKeeps ==
  ASSUME Inv, NEW n \in Objects, RemoveTorrent(n)
  PROVE  Inv'
<1>1. /\ TypeOK /\ SlotsKeptApart /\ QueueOK /\ PieceQueueOK /\ ReadsOK /\ ClearsOK
      /\ PiecesOK /\ BuffersOK /\ phase[n] = "active" /\ AnyPiece \in Pieces
  BY DiskAssumption DEF Inv, RemoveTorrent, AnyPiece
<1>2. /\ phase' = [phase EXCEPT ![n] = "stopping"]
      /\ buffers' = {b \in buffers : b.of # n}
      /\ Post("stop", n, AnyPiece, 0, "none")
      /\ UNCHANGED <<m_torrents, m_free_slots, m_file_data, m_invalid, has_changed_since, file,
                     torrentOf, holder, state, offered, verified, spoiled>>
  BY DEF RemoveTorrent, async_stop_torrent, ioVars, storageVars, historyVars
<1>3. JoinsQueue("stop", n, AnyPiece, 0, "none")
  BY <1>1, <1>2, Called DEF Contents
<1> DEFINE new == Len(m_ioc) + 1
<1>4. /\ DOMAIN m_ioc' = DOMAIN m_ioc \union {new} /\ new \notin DOMAIN m_ioc
      /\ \A k \in DOMAIN m_ioc : m_ioc'[k] = m_ioc[k] /\ m_ioc[k].of \in Objects /\ k <= new
      /\ m_ioc'[new].call = "stop" /\ m_ioc'[new].of = n /\ new <= new
      /\ m_ioc' \in Seq(Handler')
  BY <1>3 DEF JoinsQueue, Handler
<1> HIDE DEF new
<1>5. /\ Objects' = Objects /\ Handler' = Handler
      /\ \A o \in Objects : phase'[o] = IF o = n THEN "stopping" ELSE phase[o]
  BY <1>1, <1>2 DEF Objects, Handler, TypeOK
<1>6. TypeOK'
  <2>1. \A b \in buffers' : b \in Buffer'
    BY <1>1, <1>2, <1>5 DEF TypeOK, Buffer
  <2>2. phase' \in [Objects -> {"checking", "active", "stopping", "gone"}]
    BY <1>1, <1>2 DEF TypeOK
  <2> QED  BY <1>1, <1>2, <1>4, <1>5, <2>1, <2>2 DEF TypeOK
<1>7. SlotsKeptApart'
  BY <1>1, <1>2, <1>5, SlotsStay
<1>8. QueueOK'
  <2> SUFFICES ASSUME NEW k \in DOMAIN m_ioc'
               PROVE  (/\ phase[m_ioc[k].of] # "gone"
                       /\ m_ioc[k].call = "check" =>
                            /\ phase[m_ioc[k].of] = "checking"
                            /\ \A l \in DOMAIN m_ioc :
                                 m_ioc[l].of = m_ioc[k].of /\ m_ioc[l].call = "check" => l = k
                       /\ m_ioc[k].call = "stop" =>
                            /\ phase[m_ioc[k].of] = "stopping"
                            /\ \A l \in DOMAIN m_ioc : m_ioc[l].of = m_ioc[k].of => l <= k)'
    BY DEF QueueOK
  <2>1. CASE k = new
    BY <1>4, <1>5, <2>1
  <2>2. CASE k \in DOMAIN m_ioc
    BY <1>1, <1>4, <1>5, <2>2 DEF QueueOK
  <2> QED  BY <1>4, <2>1, <2>2
<1>9. \A o \in Objects : Using(o)' => Using(o)
  BY <1>5 DEF Using
<1>10. PieceQueueOK'
  BY <1>1, <1>2, <1>4, <1>9 DEF PieceQueueOK, PieceCall
<1>11. ReadsOK'
  BY <1>1, <1>2, <1>4, <1>9 DEF ReadsOK
<1>12. ClearsOK'
  BY <1>1, <1>2, <1>4, <1>5, <1>9 DEF ClearsOK
<1>13. PiecesOK'
  BY <1>1, <1>2, <1>5, <1>9 DEF PiecesOK
<1>14. BuffersOK'
  <2>1. \A b \in buffers : b.of \in Objects
    BY <1>1 DEF TypeOK, Buffer
  <2> QED  BY <1>1, <1>2, <1>5, <2>1 DEF BuffersOK
<1> QED  BY <1>6, <1>7, <1>8, <1>10, <1>11, <1>12, <1>13, <1>14 DEF Inv

-----------------------------------------------------------------------------
(* The handlers.                                                           *)

\* The first handler in the queue is run, and only the piece it is about may move on.
Answered(call) ==
  /\ Runs(call)
  /\ UNCHANGED <<torrentOf, phase, m_file_data>>
  /\ \A o \in Objects, q \in Pieces : state'[o][q] # state[o][q] =>
       /\ o = m_ioc[1].of /\ q = m_ioc[1].piece
       /\ PieceCall(1) /\ Using(o) /\ state[o][q] = Awaiting[call]
  /\ PieceCall(1) /\ Using(m_ioc[1].of) =>
       state'[m_ioc[1].of][m_ioc[1].piece] \notin {"writing", "hashing", "clearing"}

\* The other answers wait as they did.
LEMMA AnswerKeeps ==
  ASSUME Inv, NEW call, Answered(call), call # "stop"
  PROVE  QueueOK' /\ PieceQueueOK' /\ ReadsOK' /\ ClearsOK'
<1>1. /\ TypeOK /\ QueueOK /\ PieceQueueOK /\ ReadsOK /\ ClearsOK
      /\ phase' = phase /\ Objects' = Objects /\ m_file_data' = m_file_data
  BY DEF Inv, Answered, Objects
<1>2. /\ 1 \in DOMAIN m_ioc
      /\ m_ioc[1].call = call
      /\ \A k \in DOMAIN m_ioc' :
           /\ k \in Nat /\ k + 1 \in DOMAIN m_ioc /\ k + 1 # 1
           /\ m_ioc'[k] = m_ioc[k + 1]
  BY <1>1, Ran DEF Answered
<1>3. DOMAIN m_ioc = 1 .. Len(m_ioc) /\ Len(m_ioc) \in Nat /\ Len(m_ioc') = Len(m_ioc) - 1
      /\ DOMAIN m_ioc' = 1 .. Len(m_ioc')
  <2>1. m_ioc \in Seq(Handler) /\ m_ioc # <<>> /\ m_ioc' = Tail(m_ioc)
    BY <1>1 DEF Answered, Runs, TypeOK
  <2>2. m_ioc' \in Seq(Handler) /\ Len(m_ioc') = Len(m_ioc) - 1
    BY <2>1, HeadTailProperties
  <2> QED  BY <2>1, <2>2, LenProperties
<1>4. \A k \in DOMAIN m_ioc : m_ioc[k].of \in Objects /\ m_ioc[k].piece \in Pieces
  <2>1. \A k \in DOMAIN m_ioc : m_ioc[k] \in Handler
    BY <1>1, <1>3, ElementOfSeq DEF TypeOK
  <2> QED  BY <2>1 DEF Handler
<1>5. QueueOK'
  <2> SUFFICES ASSUME NEW k \in DOMAIN m_ioc'
               PROVE  (/\ phase[m_ioc[k].of] # "gone"
                       /\ m_ioc[k].call = "check" =>
                            /\ phase[m_ioc[k].of] = "checking"
                            /\ \A l \in DOMAIN m_ioc :
                                 m_ioc[l].of = m_ioc[k].of /\ m_ioc[l].call = "check" => l = k
                       /\ m_ioc[k].call = "stop" =>
                            /\ phase[m_ioc[k].of] = "stopping"
                            /\ \A l \in DOMAIN m_ioc : m_ioc[l].of = m_ioc[k].of => l <= k)'
    BY DEF QueueOK
  <2>1. k + 1 \in DOMAIN m_ioc /\ m_ioc'[k] = m_ioc[k + 1] /\ k \in Nat
    BY <1>2
  <2>2. /\ phase[m_ioc[k + 1].of] # "gone"
        /\ m_ioc[k + 1].call = "check" =>
             /\ phase[m_ioc[k + 1].of] = "checking"
             /\ \A l \in DOMAIN m_ioc :
                  m_ioc[l].of = m_ioc[k + 1].of /\ m_ioc[l].call = "check" => l = k + 1
        /\ m_ioc[k + 1].call = "stop" =>
             /\ phase[m_ioc[k + 1].of] = "stopping"
             /\ \A l \in DOMAIN m_ioc : m_ioc[l].of = m_ioc[k + 1].of => l <= k + 1
    BY <1>1, <2>1 DEF QueueOK
  <2>3. ASSUME m_ioc'[k].call = "check", NEW l \in DOMAIN m_ioc',
               m_ioc'[l].of = m_ioc'[k].of, m_ioc'[l].call = "check"
        PROVE  l = k
    BY <1>2, <2>1, <2>2, <2>3
  <2>4. ASSUME m_ioc'[k].call = "stop", NEW l \in DOMAIN m_ioc', m_ioc'[l].of = m_ioc'[k].of
        PROVE  l <= k
    BY <1>2, <2>1, <2>2, <2>4
  <2> QED  BY <1>1, <2>1, <2>2, <2>3, <2>4
<1>6. PieceQueueOK'
  <2> SUFFICES ASSUME NEW k \in DOMAIN m_ioc', (Using(m_ioc[k].of) /\ PieceCall(k))'
               PROVE  (/\ state[m_ioc[k].of][m_ioc[k].piece] = Awaiting[m_ioc[k].call]
                       /\ m_ioc[k].call = "hash" =>
                            m_ioc[k].result = m_file_data[m_ioc[k].of][m_ioc[k].piece]
                       /\ \A l \in DOMAIN m_ioc :
                            PieceCall(l) /\ m_ioc[l].of = m_ioc[k].of
                              /\ m_ioc[l].piece = m_ioc[k].piece => l = k)'
    BY DEF PieceQueueOK
  <2>1. /\ k + 1 \in DOMAIN m_ioc /\ m_ioc'[k] = m_ioc[k + 1] /\ k \in Nat /\ k + 1 # 1
        /\ Using(m_ioc[k + 1].of) /\ PieceCall(k + 1)
    BY <1>1, <1>2 DEF Using, PieceCall
  <2>2. /\ state[m_ioc[k + 1].of][m_ioc[k + 1].piece] = Awaiting[m_ioc[k + 1].call]
        /\ m_ioc[k + 1].call = "hash" =>
             m_ioc[k + 1].result = m_file_data[m_ioc[k + 1].of][m_ioc[k + 1].piece]
        /\ \A l \in DOMAIN m_ioc :
             PieceCall(l) /\ m_ioc[l].of = m_ioc[k + 1].of
               /\ m_ioc[l].piece = m_ioc[k + 1].piece => l = k + 1
    BY <1>1, <2>1 DEF PieceQueueOK
  <2>3. state'[m_ioc[k + 1].of][m_ioc[k + 1].piece] = state[m_ioc[k + 1].of][m_ioc[k + 1].piece]
    BY <1>2, <1>4, <2>1, <2>2 DEF Answered
  <2>4. ASSUME NEW l \in DOMAIN m_ioc', PieceCall(l)', m_ioc'[l].of = m_ioc'[k].of,
               m_ioc'[l].piece = m_ioc'[k].piece
        PROVE  l = k
    <3>1. l + 1 \in DOMAIN m_ioc /\ m_ioc'[l] = m_ioc[l + 1] /\ l \in Nat /\ PieceCall(l + 1)
      BY <1>2, <2>4 DEF PieceCall
    <3> QED  BY <2>1, <2>2, <2>4, <3>1
  <2> QED  BY <1>1, <2>1, <2>2, <2>3, <2>4
<1>7. ReadsOK'
  <2> SUFFICES ASSUME NEW k \in DOMAIN m_ioc', m_ioc'[k].call = "read"
               PROVE  (/\ m_ioc[k].pointer \in {0, m_ioc[k].of}
                       /\ m_ioc[k].pointer # 0 => m_file_data[m_ioc[k].of][m_ioc[k].piece] # "none"
                       /\ Using(m_ioc[k].of) =>
                            state[m_ioc[k].of][m_ioc[k].piece] \in {"have", "failed", "clearing"})'
    BY DEF ReadsOK
  <2>1. k + 1 \in DOMAIN m_ioc /\ m_ioc'[k] = m_ioc[k + 1] /\ k \in Nat /\ k + 1 # 1
    BY <1>2
  <2> DEFINE o == m_ioc[k + 1].of
             q == m_ioc[k + 1].piece
  <2>2. /\ m_ioc[k + 1].pointer \in {0, o}
        /\ m_ioc[k + 1].pointer # 0 => m_file_data[o][q] # "none"
        /\ Using(o) => state[o][q] \in {"have", "failed", "clearing"}
        /\ o \in Objects /\ q \in Pieces
    BY <1>1, <1>4, <2>1 DEF ReadsOK
  <2>3. Using(o) => state'[o][q] = state[o][q]
    <3> SUFFICES ASSUME Using(o), state'[o][q] # state[o][q] PROVE FALSE
      OBVIOUS
    <3>1. /\ o = m_ioc[1].of /\ q = m_ioc[1].piece /\ PieceCall(1)
          /\ state[o][q] = Awaiting[call]
      BY <2>2 DEF Answered
    <3>2. state[o][q] = "clearing"
      BY <1>2, <2>2, <3>1 DEF PieceCall, Awaiting
    <3>3. PICK c \in DOMAIN m_ioc :
            /\ m_ioc[c].call = "clear" /\ m_ioc[c].of = o /\ m_ioc[c].piece = q
            /\ \A l \in DOMAIN m_ioc :
                 m_ioc[l].call = "read" /\ m_ioc[l].of = o /\ m_ioc[l].piece = q => l < c
      BY <1>1, <2>2, <3>2 DEF ClearsOK
    <3>4. PieceCall(c)
      BY <3>3 DEF PieceCall
    <3>5. c = 1
      BY <1>1, <1>2, <3>1, <3>3, <3>4 DEF PieceQueueOK
    <3>6. k + 1 < 1
      BY <2>1, <3>3, <3>5
    <3> QED  BY <2>1, <3>6
  <2>4. Using(m_ioc[k].of)' => Using(o)
    BY <1>1, <2>1 DEF Using
  <2> QED  BY <1>1, <2>1, <2>2, <2>3, <2>4
<1>8. ClearsOK'
  <2> SUFFICES ASSUME NEW o \in Objects, NEW p \in Pieces, (Using(o) /\ state[o][p] = "clearing")'
               PROVE  (\E k \in DOMAIN m_ioc :
                        /\ m_ioc[k].call = "clear" /\ m_ioc[k].of = o /\ m_ioc[k].piece = p
                        /\ \A l \in DOMAIN m_ioc :
                             m_ioc[l].call = "read" /\ m_ioc[l].of = o /\ m_ioc[l].piece = p
                               => l < k)'
    BY <1>1 DEF ClearsOK
  <2>1. Using(o) /\ state[o][p] = "clearing" /\ state'[o][p] = state[o][p]
    BY <1>1 DEF Using, Answered
  <2>2. PICK k \in DOMAIN m_ioc :
          /\ m_ioc[k].call = "clear" /\ m_ioc[k].of = o /\ m_ioc[k].piece = p
          /\ \A l \in DOMAIN m_ioc :
               m_ioc[l].call = "read" /\ m_ioc[l].of = o /\ m_ioc[l].piece = p => l < k
    BY <1>1, <2>1 DEF ClearsOK
  <2>3. k # 1
    <3> SUFFICES ASSUME k = 1 PROVE FALSE
      OBVIOUS
    <3>1. PieceCall(1)
      BY <2>2 DEF PieceCall
    <3> QED  BY <2>1, <2>2, <3>1 DEF Answered
  <2>4. k - 1 \in DOMAIN m_ioc' /\ m_ioc'[k - 1] = m_ioc[k]
    <3>1. k - 1 \in DOMAIN m_ioc' /\ k \in Nat
      BY <1>3, <2>3
    <3> QED  BY <1>2, <3>1
  <2>5. \A l \in DOMAIN m_ioc' :
          m_ioc'[l].call = "read" /\ m_ioc'[l].of = o /\ m_ioc'[l].piece = p => l < k - 1
    BY <1>2, <1>3, <2>2
  <2> QED  BY <2>2, <2>4, <2>5
<1> QED  BY <1>5, <1>6, <1>7, <1>8

\* The first handler is of a torrent that is not gone.
LEMMA FirstHandler ==
  ASSUME Inv, NEW call, Runs(call)
  PROVE  /\ Head(m_ioc) = m_ioc[1] /\ 1 \in DOMAIN m_ioc
         /\ m_ioc[1].of \in Objects /\ m_ioc[1].piece \in Pieces
         /\ m_ioc[1].pointer \in Objects \union {0} /\ m_ioc[1].result \in Contents
         /\ m_ioc[1].call = call
         /\ phase[m_ioc[1].of] # "gone"
         /\ m_ioc' \in Seq(Handler)
BY Ran DEF Inv, Handler, QueueOK

\* A piece moves on when its write or its clear is answered.
LEMMA PieceHandlerKeeps ==
  ASSUME Inv, WriteHandler \/ ClearHandler
  PROVE  Inv'
<1> DEFINE n == m_ioc[1].of
           p == m_ioc[1].piece
<1>1. /\ TypeOK /\ SlotsKeptApart /\ PieceQueueOK /\ PiecesOK /\ BuffersOK
  BY DEF Inv
<1>2. PICK call \in {"write", "clear"} :
        /\ PieceHandler(call, Awaiting[call], IF call = "write" THEN "written" ELSE "absent")
        /\ Runs(call)
  BY DEF WriteHandler, ClearHandler, PieceHandler, Awaiting
<1> DEFINE new == IF call = "write" THEN "written" ELSE "absent"
<1>3. /\ n \in Objects /\ p \in Pieces /\ m_ioc[1].call = call /\ Head(m_ioc) = m_ioc[1]
      /\ 1 \in DOMAIN m_ioc /\ m_ioc' \in Seq(Handler)
  BY <1>2, FirstHandler
<1>4. /\ state' = IF PieceIs(n, p, Awaiting[call]) THEN [state EXCEPT ![n][p] = new] ELSE state
      /\ UNCHANGED <<m_torrents, m_free_slots, m_file_data, m_invalid, has_changed_since, file,
                     torrentOf, holder, phase, offered, buffers, verified, spoiled>>
  BY <1>2, <1>3 DEF PieceHandler, ioVars, storageVars, historyVars
<1>5. Objects' = Objects /\ Handler' = Handler
  BY <1>4 DEF Objects, Handler
<1> HIDE DEF n, p, new
<1>6. /\ state' \in [Objects -> [Pieces -> PieceStates]]
      /\ \A o \in Objects, q \in Pieces :
           state'[o][q] = IF o = n /\ q = p /\ PieceIs(n, p, Awaiting[call]) THEN new ELSE state[o][q]
  BY <1>1, <1>3, <1>4 DEF TypeOK, PieceStates, new
<1>7. PieceCall(1)
  BY <1>3 DEF PieceCall
<1>8. Using(n) => PieceIs(n, p, Awaiting[call])
  <2>1. Using(n) => state[n][p] = Awaiting[call]
    BY <1>1, <1>3, <1>7 DEF PieceQueueOK, n, p
  <2>2. Using(n) => phase[n] = "active"
    BY <1>1, <1>3, <2>1 DEF PiecesOK, Awaiting, Using
  <2> QED  BY <2>1, <2>2 DEF PieceIs
<1>9. PieceIs(n, p, Awaiting[call]) => Using(n) /\ state[n][p] = Awaiting[call]
  BY DEF PieceIs, Using
<1>10. Answered(call)
  BY <1>2, <1>3, <1>4, <1>6, <1>7, <1>8, <1>9 DEF Answered, n, p, new
<1>11. QueueOK' /\ PieceQueueOK' /\ ReadsOK' /\ ClearsOK'
  BY <1>10, AnswerKeeps
<1>12. TypeOK'
  <2>1. \A b \in buffers' : b \in Buffer'
    BY <1>1, <1>4, <1>5 DEF TypeOK, Buffer
  <2> QED  BY <1>1, <1>3, <1>4, <1>5, <1>6, <2>1 DEF TypeOK
<1>13. SlotsKeptApart'
  BY <1>1, <1>4, SlotsStay
<1>14. PiecesOK'
  BY <1>1, <1>3, <1>4, <1>5, <1>6, <1>9 DEF PiecesOK, Using, Awaiting, new
<1>15. BuffersOK'
  <2>1. \A b \in buffers : b.of \in Objects /\ b.piece \in Pieces
    BY <1>1 DEF TypeOK, Buffer
  <2> QED  BY <1>1, <1>4, <1>6, <1>9, <2>1 DEF BuffersOK, Awaiting
<1> QED  BY <1>11, <1>12, <1>13, <1>14, <1>15 DEF Inv

\* A piece passes its hash only with the right content, and still has it.
LEMMA HashHandlerKeeps ==
  ASSUME Inv, HashHandler
  PROVE  Inv'
<1> DEFINE n == m_ioc[1].of
           p == m_ioc[1].piece
           good == m_ioc[1].result = "good"
           new == IF good THEN "have" ELSE "failed"
<1>1. TypeOK /\ SlotsKeptApart /\ PieceQueueOK /\ PiecesOK /\ BuffersOK
  BY DEF Inv
<1>2. Runs("hash")
  BY DEF HashHandler
<1>3. /\ n \in Objects /\ p \in Pieces /\ m_ioc[1].call = "hash" /\ Head(m_ioc) = m_ioc[1]
      /\ 1 \in DOMAIN m_ioc /\ m_ioc' \in Seq(Handler)
  BY <1>2, FirstHandler
<1>4. /\ state' = IF PieceIs(n, p, "hashing") THEN [state EXCEPT ![n][p] = new] ELSE state
      /\ verified' = IF PieceIs(n, p, "hashing") /\ good
                     THEN [verified EXCEPT ![torrentOf[n]] = @ \union {p}] ELSE verified
      /\ UNCHANGED <<m_torrents, m_free_slots, m_file_data, m_invalid, has_changed_since, file,
                     torrentOf, holder, phase, offered, buffers, spoiled>>
  BY <1>3 DEF HashHandler, ioVars, storageVars
<1>5. Objects' = Objects /\ Handler' = Handler
  BY <1>4 DEF Objects, Handler
<1>6. PieceCall(1) /\ Awaiting["hash"] = "hashing"
  BY <1>3 DEF PieceCall, Awaiting
<1>7. Using(n) => state[n][p] = "hashing" /\ m_ioc[1].result = m_file_data[n][p]
  BY <1>1, <1>3, <1>6 DEF PieceQueueOK
<1>8. Using(n) => PieceIs(n, p, "hashing")
  BY <1>1, <1>3, <1>7 DEF PiecesOK, PieceIs, Using
<1>9. PieceIs(n, p, "hashing") => Using(n) /\ state[n][p] = "hashing"
  BY DEF PieceIs, Using
<1>10. Using(n) /\ new = "have" => m_file_data[n][p] = "good"
  BY <1>7
<1>11. new \in {"have", "failed"}
  OBVIOUS
<1>12. verified' \in [Torrents -> SUBSET Pieces]
  <2>1. verified \in [Torrents -> SUBSET Pieces] /\ torrentOf[n] \in Torrents
    BY <1>1, <1>3 DEF TypeOK, Objects
  <2> QED  BY <1>3, <1>4, <2>1
<1> HIDE DEF n, p, good, new
<1>13. /\ state' \in [Objects -> [Pieces -> PieceStates]]
       /\ \A o \in Objects, q \in Pieces :
            state'[o][q] = IF o = n /\ q = p /\ PieceIs(n, p, "hashing") THEN new ELSE state[o][q]
  BY <1>1, <1>3, <1>4, <1>11 DEF TypeOK, PieceStates
<1>14. Answered("hash")
  BY <1>2, <1>3, <1>4, <1>6, <1>8, <1>9, <1>11, <1>13 DEF Answered, n, p
<1>15. QueueOK' /\ PieceQueueOK' /\ ReadsOK' /\ ClearsOK'
  BY <1>14, AnswerKeeps
<1>16. TypeOK'
  <2>1. \A b \in buffers' : b \in Buffer'
    BY <1>1, <1>4, <1>5 DEF TypeOK, Buffer
  <2> QED  BY <1>1, <1>3, <1>4, <1>5, <1>12, <1>13, <2>1 DEF TypeOK
<1>17. SlotsKeptApart'
  BY <1>1, <1>4, SlotsStay
<1>18. PiecesOK'
  BY <1>1, <1>3, <1>4, <1>5, <1>9, <1>10, <1>11, <1>13 DEF PiecesOK, Using
<1>19. BuffersOK'
  <2>1. \A b \in buffers : b.of \in Objects /\ b.piece \in Pieces
    BY <1>1 DEF TypeOK, Buffer
  <2> QED  BY <1>1, <1>4, <1>9, <1>13, <2>1 DEF BuffersOK
<1> QED  BY <1>15, <1>16, <1>17, <1>18, <1>19 DEF Inv

\* A buffer is lent with what is behind its pointer.
LEMMA ReadHandlerKeeps ==
  ASSUME Inv, ReadHandler
  PROVE  Inv'
<1> DEFINE n == m_ioc[1].of
           p == m_ioc[1].piece
           b == [of |-> n, pointer |-> m_ioc[1].pointer, piece |-> p,
                 content |-> Behind(m_ioc[1].pointer, p)]
<1>1. TypeOK /\ SlotsKeptApart /\ ReadsOK /\ PiecesOK /\ BuffersOK
  BY DEF Inv
<1>2. Runs("read")
  BY DEF ReadHandler
<1>3. /\ n \in Objects /\ p \in Pieces /\ m_ioc[1].call = "read" /\ Head(m_ioc) = m_ioc[1]
      /\ 1 \in DOMAIN m_ioc /\ m_ioc' \in Seq(Handler)
  BY <1>2, FirstHandler
<1>4. /\ buffers' = buffers
           \/ (PieceIs(n, p, "have") /\ m_ioc[1].pointer # 0 /\ buffers' = buffers \union {b})
      /\ UNCHANGED <<m_torrents, m_free_slots, m_file_data, m_invalid, has_changed_since, file,
                     torrentOf, holder, phase, state, offered, verified, spoiled>>
  BY <1>3 DEF ReadHandler, ioVars, storageVars, historyVars
<1>5. Objects' = Objects /\ Handler' = Handler
  BY <1>4 DEF Objects, Handler
<1>6. PieceIs(n, p, "have") /\ m_ioc[1].pointer # 0 =>
        /\ b \in Buffer /\ phase[b.of] = "active" /\ b.pointer = b.of
        /\ b.content = "good" /\ state[b.of][b.piece] = "have"
  <2> SUFFICES ASSUME PieceIs(n, p, "have"), m_ioc[1].pointer # 0
               PROVE  /\ b \in Buffer /\ phase[b.of] = "active" /\ b.pointer = b.of
                      /\ b.content = "good" /\ state[b.of][b.piece] = "have"
    OBVIOUS
  <2>1. phase[n] = "active" /\ state[n][p] = "have" /\ m_ioc[1].pointer = n
    BY <1>1, <1>3 DEF PieceIs, ReadsOK
  <2>2. m_file_data[n][p] = "good" /\ Alive(n) /\ n # 0
    BY <1>1, <1>3, <2>1, OwnStorage, Numbered DEF PiecesOK, Using
  <2>3. Behind(m_ioc[1].pointer, p) = "good"
    BY <2>1, <2>2 DEF Behind
  <2> QED  BY <1>3, <2>1, <2>3 DEF Buffer
<1>7. BuffersOK'
  BY <1>1, <1>4, <1>6 DEF BuffersOK
<1>8. \A a \in buffers' : a \in Buffer'
  <2>1. Buffer' = Buffer
    BY <1>5 DEF Buffer
  <2> QED  BY <1>1, <1>4, <1>6, <2>1 DEF TypeOK
<1>9. TypeOK'
  BY <1>1, <1>3, <1>4, <1>5, <1>8 DEF TypeOK
<1>10. SlotsKeptApart'
  BY <1>1, <1>4, SlotsStay
<1>11. Answered("read")
  BY <1>2, <1>3, <1>4 DEF Answered, PieceCall
<1>12. QueueOK' /\ PieceQueueOK' /\ ReadsOK' /\ ClearsOK'
  BY <1>11, AnswerKeeps
<1>13. PiecesOK'
  BY <1>1, <1>4, <1>5 DEF PiecesOK, Using
<1> QED  BY <1>7, <1>9, <1>10, <1>12, <1>13 DEF Inv

\* Other handlers only go.
LEMMA OtherHandlerKeeps ==
  ASSUME Inv, OtherHandler
  PROVE  Inv'
<1>1. TypeOK /\ SlotsKeptApart /\ PiecesOK /\ BuffersOK
  BY DEF Inv
<1>2. PICK call \in {"release", "other"} : Runs(call)
  BY DEF OtherHandler
<1>3. m_ioc[1].call = call /\ m_ioc' \in Seq(Handler)
  BY <1>2, FirstHandler
<1>4. UNCHANGED <<m_torrents, m_free_slots, m_file_data, m_invalid, has_changed_since, file,
                  torrentOf, holder, phase, state, offered, buffers, verified, spoiled>>
  BY DEF OtherHandler, ioVars, storageVars, sessionVars, historyVars
<1>5. Objects' = Objects /\ Handler' = Handler /\ Buffer' = Buffer
  BY <1>4 DEF Objects, Handler, Buffer
<1>6. TypeOK'
  BY <1>1, <1>3, <1>4, <1>5 DEF TypeOK
<1>7. SlotsKeptApart'
  BY <1>1, <1>4, SlotsStay
<1>8. Answered(call)
  BY <1>2, <1>3, <1>4 DEF Answered, PieceCall
<1>9. QueueOK' /\ PieceQueueOK' /\ ReadsOK' /\ ClearsOK'
  BY <1>8, AnswerKeeps
<1>10. PiecesOK'
  BY <1>1, <1>4, <1>5 DEF PiecesOK, Using
<1>11. BuffersOK'
  BY <1>1, <1>4 DEF BuffersOK
<1> QED  BY <1>6, <1>7, <1>9, <1>10, <1>11 DEF Inv

\* A torrent is checked once.
LEMMA CheckHandlerKeeps ==
  ASSUME Inv, CheckHandler
  PROVE  Inv'
<1> DEFINE n == m_ioc[1].of
<1>1. /\ TypeOK /\ SlotsKeptApart /\ QueueOK /\ PieceQueueOK /\ ReadsOK /\ ClearsOK
      /\ PiecesOK /\ BuffersOK
  BY DEF Inv
<1>2. Runs("check")
  BY DEF CheckHandler
<1>3. /\ n \in Objects /\ m_ioc[1].call = "check" /\ Head(m_ioc) = m_ioc[1]
      /\ 1 \in DOMAIN m_ioc /\ m_ioc' \in Seq(Handler)
  BY <1>2, FirstHandler
<1>4. /\ phase' = [phase EXCEPT ![n] = "active"]
      /\ UNCHANGED <<m_torrents, m_free_slots, m_file_data, m_invalid, has_changed_since, file,
                     torrentOf, holder, state, offered, buffers, verified, spoiled>>
  BY <1>3 DEF CheckHandler, ioVars, storageVars, historyVars
<1>5. Objects' = Objects /\ Handler' = Handler /\ Buffer' = Buffer
  BY <1>4 DEF Objects, Handler, Buffer
<1>6. /\ phase[n] = "checking"
      /\ \A l \in DOMAIN m_ioc : m_ioc[l].of = n /\ m_ioc[l].call = "check" => l = 1
  BY <1>1, <1>3 DEF QueueOK
<1>7. \A k \in DOMAIN m_ioc' : /\ k \in Nat /\ k + 1 \in DOMAIN m_ioc /\ k + 1 # 1
                               /\ m_ioc'[k] = m_ioc[k + 1]
  BY <1>1, <1>2, Ran
<1>8. \A k \in DOMAIN m_ioc : m_ioc[k].of \in Objects /\ m_ioc[k].piece \in Pieces
  <2>1. \A k \in DOMAIN m_ioc : m_ioc[k] \in Handler
    BY <1>1, ElementOfSeq, LenProperties DEF TypeOK
  <2> QED  BY <2>1 DEF Handler
<1> HIDE DEF n
<1>9. /\ phase' \in [Objects -> {"checking", "active", "stopping", "gone"}]
      /\ \A o \in Objects : phase'[o] = IF o = n THEN "active" ELSE phase[o]
      /\ \A o \in Objects : Using(o)' = Using(o)
  BY <1>1, <1>3, <1>4, <1>6 DEF TypeOK, Using
<1>10. TypeOK'
  BY <1>1, <1>3, <1>4, <1>5, <1>9 DEF TypeOK
<1>11. SlotsKeptApart'
  BY <1>1, <1>4, <1>6, <1>9, SlotsStay
<1>12. QueueOK'
  <2> SUFFICES ASSUME NEW k \in DOMAIN m_ioc'
               PROVE  (/\ phase[m_ioc[k].of] # "gone"
                       /\ m_ioc[k].call = "check" =>
                            /\ phase[m_ioc[k].of] = "checking"
                            /\ \A l \in DOMAIN m_ioc :
                                 m_ioc[l].of = m_ioc[k].of /\ m_ioc[l].call = "check" => l = k
                       /\ m_ioc[k].call = "stop" =>
                            /\ phase[m_ioc[k].of] = "stopping"
                            /\ \A l \in DOMAIN m_ioc : m_ioc[l].of = m_ioc[k].of => l <= k)'
    BY DEF QueueOK
  <2>1. k + 1 \in DOMAIN m_ioc /\ m_ioc'[k] = m_ioc[k + 1] /\ k \in Nat /\ k + 1 # 1
    BY <1>7
  <2>2. /\ phase[m_ioc[k + 1].of] # "gone"
        /\ m_ioc[k + 1].call = "check" =>
             /\ phase[m_ioc[k + 1].of] = "checking" /\ m_ioc[k + 1].of # n
             /\ \A l \in DOMAIN m_ioc :
                  m_ioc[l].of = m_ioc[k + 1].of /\ m_ioc[l].call = "check" => l = k + 1
        /\ m_ioc[k + 1].call = "stop" =>
             /\ phase[m_ioc[k + 1].of] = "stopping" /\ m_ioc[k + 1].of # n
             /\ \A l \in DOMAIN m_ioc : m_ioc[l].of = m_ioc[k + 1].of => l <= k + 1
    BY <1>1, <1>6, <2>1 DEF QueueOK
  <2>3. ASSUME m_ioc'[k].call = "check", NEW l \in DOMAIN m_ioc',
               m_ioc'[l].of = m_ioc'[k].of, m_ioc'[l].call = "check"
        PROVE  l = k
    BY <1>7, <2>1, <2>2, <2>3
  <2>4. ASSUME m_ioc'[k].call = "stop", NEW l \in DOMAIN m_ioc', m_ioc'[l].of = m_ioc'[k].of
        PROVE  l <= k
    BY <1>7, <2>1, <2>2, <2>4
  <2>5. m_ioc[k + 1].of \in Objects
    BY <1>8, <2>1
  <2> QED  BY <1>9, <2>1, <2>2, <2>3, <2>4, <2>5
<1>13. PieceQueueOK'
  <2> SUFFICES ASSUME NEW k \in DOMAIN m_ioc', (Using(m_ioc[k].of) /\ PieceCall(k))'
               PROVE  (/\ state[m_ioc[k].of][m_ioc[k].piece] = Awaiting[m_ioc[k].call]
                       /\ m_ioc[k].call = "hash" =>
                            m_ioc[k].result = m_file_data[m_ioc[k].of][m_ioc[k].piece]
                       /\ \A l \in DOMAIN m_ioc :
                            PieceCall(l) /\ m_ioc[l].of = m_ioc[k].of
                              /\ m_ioc[l].piece = m_ioc[k].piece => l = k)'
    BY DEF PieceQueueOK
  <2>1. /\ k + 1 \in DOMAIN m_ioc /\ m_ioc'[k] = m_ioc[k + 1] /\ k \in Nat
        /\ PieceCall(k + 1) /\ m_ioc[k + 1].of \in Objects
    BY <1>7, <1>8 DEF PieceCall
  <2>2. Using(m_ioc[k + 1].of)
    BY <1>9, <2>1 DEF Using
  <2>3. /\ state[m_ioc[k + 1].of][m_ioc[k + 1].piece] = Awaiting[m_ioc[k + 1].call]
        /\ m_ioc[k + 1].call = "hash" =>
             m_ioc[k + 1].result = m_file_data[m_ioc[k + 1].of][m_ioc[k + 1].piece]
        /\ \A l \in DOMAIN m_ioc :
             PieceCall(l) /\ m_ioc[l].of = m_ioc[k + 1].of
               /\ m_ioc[l].piece = m_ioc[k + 1].piece => l = k + 1
    BY <1>1, <2>1, <2>2 DEF PieceQueueOK
  <2>4. ASSUME NEW l \in DOMAIN m_ioc', PieceCall(l)', m_ioc'[l].of = m_ioc'[k].of,
               m_ioc'[l].piece = m_ioc'[k].piece
        PROVE  l = k
    <3>1. l + 1 \in DOMAIN m_ioc /\ m_ioc'[l] = m_ioc[l + 1] /\ l \in Nat /\ PieceCall(l + 1)
      BY <1>7, <2>4 DEF PieceCall
    <3> QED  BY <2>1, <2>3, <2>4, <3>1
  <2> QED  BY <1>4, <2>1, <2>3, <2>4
<1>14. ReadsOK'
  <2> SUFFICES ASSUME NEW k \in DOMAIN m_ioc', m_ioc'[k].call = "read"
               PROVE  (/\ m_ioc[k].pointer \in {0, m_ioc[k].of}
                       /\ m_ioc[k].pointer # 0 => m_file_data[m_ioc[k].of][m_ioc[k].piece] # "none"
                       /\ Using(m_ioc[k].of) =>
                            state[m_ioc[k].of][m_ioc[k].piece] \in {"have", "failed", "clearing"})'
    BY DEF ReadsOK
  <2>1. k + 1 \in DOMAIN m_ioc /\ m_ioc'[k] = m_ioc[k + 1] /\ m_ioc[k + 1].of \in Objects
    BY <1>7, <1>8
  <2>2. Using(m_ioc[k].of)' => Using(m_ioc[k + 1].of)
    BY <1>9, <2>1 DEF Using
  <2> QED  BY <1>1, <1>4, <2>1, <2>2 DEF ReadsOK
<1>15. ClearsOK'
  <2> SUFFICES ASSUME NEW o \in Objects, NEW p \in Pieces, (Using(o) /\ state[o][p] = "clearing")'
               PROVE  (\E k \in DOMAIN m_ioc :
                        /\ m_ioc[k].call = "clear" /\ m_ioc[k].of = o /\ m_ioc[k].piece = p
                        /\ \A l \in DOMAIN m_ioc :
                             m_ioc[l].call = "read" /\ m_ioc[l].of = o /\ m_ioc[l].piece = p
                               => l < k)'
    BY <1>5 DEF ClearsOK
  <2>1. Using(o) /\ state[o][p] = "clearing"
    BY <1>4, <1>9
  <2>2. PICK k \in DOMAIN m_ioc :
          /\ m_ioc[k].call = "clear" /\ m_ioc[k].of = o /\ m_ioc[k].piece = p
          /\ \A l \in DOMAIN m_ioc :
               m_ioc[l].call = "read" /\ m_ioc[l].of = o /\ m_ioc[l].piece = p => l < k
    BY <1>1, <2>1 DEF ClearsOK
  <2>3. k # 1
    BY <1>3, <2>2
  <2>4. k - 1 \in DOMAIN m_ioc' /\ m_ioc'[k - 1] = m_ioc[k] /\ k \in Nat
    BY <1>1, <1>2, <2>3, MovesUp
  <2>5. \A l \in DOMAIN m_ioc' :
          m_ioc'[l].call = "read" /\ m_ioc'[l].of = o /\ m_ioc'[l].piece = p => l < k - 1
    BY <1>7, <2>2, <2>4
  <2> QED  BY <2>2, <2>4, <2>5
<1>16. PiecesOK'
  <2>1. \A o \in Objects : phase'[o] = "checking" => phase[o] = "checking"
    BY <1>9
  <2> QED  BY <1>1, <1>4, <1>5, <1>9, <2>1 DEF PiecesOK
<1>17. BuffersOK'
  <2>1. \A b \in buffers : b.of \in Objects
    BY <1>1 DEF TypeOK, Buffer
  <2> QED  BY <1>1, <1>4, <1>9, <2>1 DEF BuffersOK
<1> QED  BY <1>10, <1>11, <1>12, <1>13, <1>14, <1>15, <1>16, <1>17 DEF Inv

\* What the last handler of a torrent changes.
LEMMA StopHandlerEffects ==
  ASSUME Inv, StopHandler
  PROVE  LET n == m_ioc[1].of
             idx == holder[n]
         IN  /\ n \in Objects /\ idx \in DOMAIN m_torrents /\ m_torrents[idx] = n
             /\ phase[n] = "stopping" /\ m_ioc[1].call = "stop" /\ Runs("stop")
             /\ \A k \in DOMAIN m_ioc : k # 1 => m_ioc[k].of # n
             /\ Flushed(n, torrentOf[n])
             /\ m_file_data' = [m_file_data EXCEPT ![n] = Nothing]
             /\ m_invalid' = [m_invalid EXCEPT ![n] = {}]
             /\ m_torrents' = [m_torrents EXCEPT ![idx] = 0]
             /\ m_free_slots' = Append(m_free_slots, idx)
             /\ phase' = [phase EXCEPT ![n] = "gone"]
             /\ state' = [state EXCEPT ![n] = [p \in Pieces |-> "absent"]]
             /\ UNCHANGED <<torrentOf, holder, offered, buffers, verified>>
<1> DEFINE n == m_ioc[1].of
           idx == holder[n]
<1>1. Runs("stop")
  BY DEF StopHandler
<1>2. n \in Objects /\ m_ioc[1].call = "stop" /\ Head(m_ioc) = m_ioc[1] /\ 1 \in DOMAIN m_ioc
  BY <1>1, FirstHandler
<1>3. phase[n] = "stopping" /\ \A k \in DOMAIN m_ioc : m_ioc[k].of = n => k <= 1
  BY <1>2 DEF Inv, QueueOK
<1>4. m_torrents[idx] = n /\ idx \in DOMAIN m_torrents
  BY <1>2, <1>3, OwnStorage DEF StorageOf, Inv, TypeOK
<1>5. \A k \in DOMAIN m_ioc : k # 1 => m_ioc[k].of # n
  <2>1. DOMAIN m_ioc = 1 .. Len(m_ioc) /\ Len(m_ioc) \in Nat
    BY LenProperties DEF Inv, TypeOK
  <2> QED  BY <1>3, <2>1
<1>6. remove_torrent(idx, torrentOf[n])
  BY <1>2 DEF StopHandler
<1>7. /\ phase' = [phase EXCEPT ![n] = "gone"]
      /\ state' = [state EXCEPT ![n] = [p \in Pieces |-> "absent"]]
      /\ UNCHANGED <<torrentOf, holder, offered, buffers, verified>>
  BY <1>2 DEF StopHandler
<1>8. /\ release_files(n, torrentOf[n])
      /\ m_file_data' = [m_file_data EXCEPT ![n] = Nothing]
      /\ m_invalid' = [m_invalid EXCEPT ![n] = {}]
      /\ m_torrents' = [m_torrents EXCEPT ![idx] = 0]
      /\ m_free_slots' = Append(m_free_slots, idx)
  BY <1>4, <1>6 DEF remove_torrent
<1>9. Flushed(n, torrentOf[n])
  BY <1>2, <1>8, FlushEffects, TorrentKnown DEF Inv
<1> QED  BY <1>1, <1>2, <1>3, <1>4, <1>5, <1>7, <1>8, <1>9

\* The slot of a torrent that goes is free, and no other torrent had it.
LEMMA StopHandlerFreesSlot ==
  ASSUME Inv, StopHandler
  PROVE  /\ m_torrents' \in Seq(Objects \union {0}) /\ DOMAIN m_torrents' = DOMAIN m_torrents
         /\ m_free_slots' \in Seq(DOMAIN m_torrents)
         /\ SlotsKeptApart'
<1> DEFINE n == m_ioc[1].of
           idx == holder[n]
           new == Len(m_free_slots) + 1
<1>1. /\ n \in Objects /\ idx \in DOMAIN m_torrents /\ m_torrents[idx] = n
      /\ m_torrents' = [m_torrents EXCEPT ![idx] = 0]
      /\ m_free_slots' = Append(m_free_slots, idx)
      /\ phase' = [phase EXCEPT ![n] = "gone"]
      /\ UNCHANGED <<torrentOf, holder>>
  BY StopHandlerEffects
<1>2. TypeOK /\ SlotsKeptApart /\ 0 \notin Objects
  BY Numbered DEF Inv
<1> HIDE DEF n, idx
<1>3. /\ m_torrents' \in Seq(Objects \union {0}) /\ DOMAIN m_torrents' = DOMAIN m_torrents
      /\ \A i \in DOMAIN m_torrents : m_torrents'[i] = IF i = idx THEN 0 ELSE m_torrents[i]
  <2>1. m_torrents \in Seq(Objects \union {0})
    BY <1>2 DEF TypeOK
  <2>2. DOMAIN m_torrents = 1 .. Len(m_torrents)
    BY <2>1, LenProperties
  <2>3. /\ m_torrents' \in Seq(Objects \union {0})
        /\ Len(m_torrents') = Len(m_torrents)
        /\ \A i \in 1 .. Len(m_torrents) : m_torrents'[i] = IF i = idx THEN 0 ELSE m_torrents[i]
    BY <1>1, <2>1, <2>2, ExceptSeq
  <2> QED  BY <2>2, <2>3, LenProperties
<1>4. /\ m_free_slots' \in Seq(DOMAIN m_torrents)
      /\ DOMAIN m_free_slots' = DOMAIN m_free_slots \union {new} /\ new \notin DOMAIN m_free_slots
      /\ \A k \in DOMAIN m_free_slots :
           m_free_slots'[k] = m_free_slots[k] /\ m_free_slots[k] \in DOMAIN m_torrents
      /\ m_free_slots'[new] = idx
  <2>1. m_free_slots \in Seq(DOMAIN m_torrents)
    BY <1>2 DEF TypeOK
  <2>2. /\ m_free_slots' \in Seq(DOMAIN m_torrents)
        /\ Len(m_free_slots') = new
        /\ \A k \in 1 .. Len(m_free_slots) : m_free_slots'[k] = m_free_slots[k]
        /\ m_free_slots'[new] = idx
    BY <1>1, <2>1, AppendProperties
  <2>3. /\ Len(m_free_slots) \in Nat /\ DOMAIN m_free_slots = 1 .. Len(m_free_slots)
        /\ DOMAIN m_free_slots' = 1 .. new
    BY <2>1, <2>2, LenProperties
  <2>4. \A k \in 1 .. Len(m_free_slots) : m_free_slots[k] \in DOMAIN m_torrents
    BY <2>1, ElementOfSeq
  <2> QED  BY <2>2, <2>3, <2>4
<1> HIDE DEF new
<1>5. \A k \in DOMAIN m_free_slots : m_free_slots[k] # idx /\ m_torrents[m_free_slots[k]] = 0
  BY <1>1, <1>2 DEF SlotsKeptApart
<1>6. /\ Objects' = Objects
      /\ \A o \in Objects : phase'[o] # "gone" <=> phase[o] # "gone" /\ o # n
  BY <1>1, <1>2 DEF Objects, TypeOK
<1>7. \A o \in Objects : phase[o] # "gone" =>
        StorageOf(o) = o /\ holder[o] \in DOMAIN m_torrents
  BY <1>2 DEF SlotsKeptApart, TypeOK
<1>8. \A o \in Objects' : phase'[o] # "gone" => StorageOf(o)' = o
  <2> SUFFICES ASSUME NEW o \in Objects, phase'[o] # "gone" PROVE StorageOf(o)' = o
    BY <1>6
  <2>1. StorageOf(o) = o /\ holder[o] \in DOMAIN m_torrents /\ o # n
    BY <1>6, <1>7
  <2>2. holder[o] # idx
    BY <1>1, <2>1 DEF StorageOf
  <2> QED  BY <1>1, <1>3, <2>1, <2>2 DEF StorageOf
<1>9. ASSUME NEW i \in DOMAIN m_torrents'
      PROVE  \/ \E o \in Objects' : phase'[o] # "gone" /\ holder'[o] = i
             \/ m_torrents'[i] = 0 /\ \E k \in DOMAIN m_free_slots' : m_free_slots'[k] = i
  <2>1. CASE i = idx
    BY <1>1, <1>3, <1>4, <2>1
  <2>2. CASE i # idx
    <3>1. i \in DOMAIN m_torrents
      BY <1>3, <1>9
    <3>2. CASE \E o \in Objects : phase[o] # "gone" /\ holder[o] = i
      BY <1>1, <1>6, <2>2, <3>2 DEF idx
    <3>3. CASE m_torrents[i] = 0 /\ \E k \in DOMAIN m_free_slots : m_free_slots[k] = i
      BY <1>3, <1>4, <2>2, <3>1, <3>3
    <3> QED  BY <1>2, <3>1, <3>2, <3>3 DEF SlotsKeptApart
  <2> QED  BY <2>1, <2>2
<1>10. \A k, l \in DOMAIN m_free_slots' : m_free_slots'[k] = m_free_slots'[l] => k = l
  <2>1. \A k, l \in DOMAIN m_free_slots : m_free_slots[k] = m_free_slots[l] => k = l
    BY <1>2 DEF SlotsKeptApart
  <2> QED  BY <1>4, <1>5, <2>1
<1>11. \A k \in DOMAIN m_free_slots' : m_torrents'[m_free_slots'[k]] = 0
  BY <1>1, <1>3, <1>4, <1>5
<1> QED  BY <1>3, <1>4, <1>8, <1>9, <1>10, <1>11 DEF SlotsKeptApart

\* When a torrent goes nothing is left of it, and nothing of another goes.
LEMMA StopHandlerKeeps ==
  ASSUME Inv, StopHandler
  PROVE  Inv'
<1> DEFINE n == m_ioc[1].of
<1>1. /\ TypeOK /\ SlotsKeptApart /\ QueueOK /\ PieceQueueOK /\ ReadsOK /\ ClearsOK
      /\ PiecesOK /\ BuffersOK
  BY DEF Inv
<1>2. /\ n \in Objects /\ phase[n] = "stopping" /\ m_ioc[1].call = "stop" /\ Runs("stop")
      /\ \A k \in DOMAIN m_ioc : k # 1 => m_ioc[k].of # n
      /\ Flushed(n, torrentOf[n])
      /\ m_file_data' = [m_file_data EXCEPT ![n] = Nothing]
      /\ m_invalid' = [m_invalid EXCEPT ![n] = {}]
      /\ phase' = [phase EXCEPT ![n] = "gone"]
      /\ state' = [state EXCEPT ![n] = [p \in Pieces |-> "absent"]]
      /\ UNCHANGED <<torrentOf, holder, offered, buffers, verified>>
  BY StopHandlerEffects
<1>3. /\ m_torrents' \in Seq(Objects \union {0}) /\ DOMAIN m_torrents' = DOMAIN m_torrents
      /\ m_free_slots' \in Seq(DOMAIN m_torrents)
      /\ SlotsKeptApart'
  BY StopHandlerFreesSlot
<1>4. m_ioc' \in Seq(Handler)
  BY <1>2, FirstHandler
<1>5. Objects' = Objects /\ Handler' = Handler /\ Buffer' = Buffer
  BY <1>2 DEF Objects, Handler, Buffer
<1>6. \A k \in DOMAIN m_ioc' : /\ k \in Nat /\ k + 1 \in DOMAIN m_ioc /\ k + 1 # 1
                               /\ m_ioc'[k] = m_ioc[k + 1] /\ m_ioc[k + 1].of # n
                               /\ m_ioc[k + 1].of \in Objects /\ m_ioc[k + 1].piece \in Pieces
  <2>1. \A k \in DOMAIN m_ioc : m_ioc[k] \in Handler
    BY <1>1, ElementOfSeq, LenProperties DEF TypeOK
  <2>2. \A k \in DOMAIN m_ioc' : /\ k \in Nat /\ k + 1 \in DOMAIN m_ioc /\ k + 1 # 1
                                 /\ m_ioc'[k] = m_ioc[k + 1]
    BY <1>1, <1>2, Ran
  <2> QED  BY <1>2, <2>1, <2>2 DEF Handler
<1> HIDE DEF n
<1>7. /\ phase' \in [Objects -> {"checking", "active", "stopping", "gone"}]
      /\ \A o \in Objects : phase'[o] = IF o = n THEN "gone" ELSE phase[o]
      /\ \A o \in Objects : Using(o)' => Using(o) /\ o # n
      /\ state' \in [Objects -> [Pieces -> PieceStates]]
      /\ m_file_data' \in [Objects -> [Pieces -> Contents]]
      /\ m_invalid' \in [Objects -> SUBSET Pieces]
  BY <1>1, <1>2 DEF TypeOK, Using, PieceStates, Contents, Nothing
<1>8. \A o \in Objects : o # n =>
        state'[o] = state[o] /\ m_file_data'[o] = m_file_data[o] /\ m_invalid'[o] = m_invalid[o]
  BY <1>1, <1>2 DEF TypeOK
<1>9. TypeOK'
  <2>1. /\ has_changed_since' \in [Objects -> BOOLEAN] /\ spoiled' \subseteq Torrents
        /\ file' \in [Torrents -> [Pieces -> Contents]]
    BY <1>2 DEF Flushed
  <2> QED  BY <1>1, <1>2, <1>3, <1>4, <1>5, <1>7, <2>1 DEF TypeOK
<1>10. QueueOK'
  <2> SUFFICES ASSUME NEW k \in DOMAIN m_ioc'
               PROVE  (/\ phase[m_ioc[k].of] # "gone"
                       /\ m_ioc[k].call = "check" =>
                            /\ phase[m_ioc[k].of] = "checking"
                            /\ \A l \in DOMAIN m_ioc :
                                 m_ioc[l].of = m_ioc[k].of /\ m_ioc[l].call = "check" => l = k
                       /\ m_ioc[k].call = "stop" =>
                            /\ phase[m_ioc[k].of] = "stopping"
                            /\ \A l \in DOMAIN m_ioc : m_ioc[l].of = m_ioc[k].of => l <= k)'
    BY DEF QueueOK
  <2>1. /\ k + 1 \in DOMAIN m_ioc /\ m_ioc'[k] = m_ioc[k + 1] /\ k \in Nat
        /\ phase'[m_ioc[k + 1].of] = phase[m_ioc[k + 1].of]
    BY <1>6, <1>7
  <2>2. /\ phase[m_ioc[k + 1].of] # "gone"
        /\ m_ioc[k + 1].call = "check" =>
             /\ phase[m_ioc[k + 1].of] = "checking"
             /\ \A l \in DOMAIN m_ioc :
                  m_ioc[l].of = m_ioc[k + 1].of /\ m_ioc[l].call = "check" => l = k + 1
        /\ m_ioc[k + 1].call = "stop" =>
             /\ phase[m_ioc[k + 1].of] = "stopping"
             /\ \A l \in DOMAIN m_ioc : m_ioc[l].of = m_ioc[k + 1].of => l <= k + 1
    BY <1>1, <2>1 DEF QueueOK
  <2>3. ASSUME m_ioc'[k].call = "check", NEW l \in DOMAIN m_ioc',
               m_ioc'[l].of = m_ioc'[k].of, m_ioc'[l].call = "check"
        PROVE  l = k
    BY <1>6, <2>1, <2>2, <2>3
  <2>4. ASSUME m_ioc'[k].call = "stop", NEW l \in DOMAIN m_ioc', m_ioc'[l].of = m_ioc'[k].of
        PROVE  l <= k
    BY <1>6, <2>1, <2>2, <2>4
  <2> QED  BY <2>1, <2>2, <2>3, <2>4
<1>11. PieceQueueOK'
  <2> SUFFICES ASSUME NEW k \in DOMAIN m_ioc', (Using(m_ioc[k].of) /\ PieceCall(k))'
               PROVE  (/\ state[m_ioc[k].of][m_ioc[k].piece] = Awaiting[m_ioc[k].call]
                       /\ m_ioc[k].call = "hash" =>
                            m_ioc[k].result = m_file_data[m_ioc[k].of][m_ioc[k].piece]
                       /\ \A l \in DOMAIN m_ioc :
                            PieceCall(l) /\ m_ioc[l].of = m_ioc[k].of
                              /\ m_ioc[l].piece = m_ioc[k].piece => l = k)'
    BY DEF PieceQueueOK
  <2>1. /\ k + 1 \in DOMAIN m_ioc /\ m_ioc'[k] = m_ioc[k + 1] /\ k \in Nat
        /\ PieceCall(k + 1) /\ m_ioc[k + 1].of \in Objects /\ m_ioc[k + 1].of # n
        /\ state'[m_ioc[k + 1].of] = state[m_ioc[k + 1].of]
        /\ m_file_data'[m_ioc[k + 1].of] = m_file_data[m_ioc[k + 1].of]
    BY <1>6, <1>8 DEF PieceCall
  <2>2. Using(m_ioc[k + 1].of)
    BY <1>7, <2>1 DEF Using
  <2>3. /\ state[m_ioc[k + 1].of][m_ioc[k + 1].piece] = Awaiting[m_ioc[k + 1].call]
        /\ m_ioc[k + 1].call = "hash" =>
             m_ioc[k + 1].result = m_file_data[m_ioc[k + 1].of][m_ioc[k + 1].piece]
        /\ \A l \in DOMAIN m_ioc :
             PieceCall(l) /\ m_ioc[l].of = m_ioc[k + 1].of
               /\ m_ioc[l].piece = m_ioc[k + 1].piece => l = k + 1
    BY <1>1, <2>1, <2>2 DEF PieceQueueOK
  <2>4. ASSUME NEW l \in DOMAIN m_ioc', PieceCall(l)', m_ioc'[l].of = m_ioc'[k].of,
               m_ioc'[l].piece = m_ioc'[k].piece
        PROVE  l = k
    <3>1. l + 1 \in DOMAIN m_ioc /\ m_ioc'[l] = m_ioc[l + 1] /\ l \in Nat /\ PieceCall(l + 1)
      BY <1>6, <2>4 DEF PieceCall
    <3> QED  BY <2>1, <2>3, <2>4, <3>1
  <2> QED  BY <2>1, <2>3, <2>4
<1>12. ReadsOK'
  <2> SUFFICES ASSUME NEW k \in DOMAIN m_ioc', m_ioc'[k].call = "read"
               PROVE  (/\ m_ioc[k].pointer \in {0, m_ioc[k].of}
                       /\ m_ioc[k].pointer # 0 => m_file_data[m_ioc[k].of][m_ioc[k].piece] # "none"
                       /\ Using(m_ioc[k].of) =>
                            state[m_ioc[k].of][m_ioc[k].piece] \in {"have", "failed", "clearing"})'
    BY DEF ReadsOK
  <2>1. /\ k + 1 \in DOMAIN m_ioc /\ m_ioc'[k] = m_ioc[k + 1] /\ m_ioc[k + 1].of \in Objects
        /\ state'[m_ioc[k + 1].of] = state[m_ioc[k + 1].of]
        /\ m_file_data'[m_ioc[k + 1].of] = m_file_data[m_ioc[k + 1].of]
    BY <1>6, <1>8
  <2>2. Using(m_ioc[k].of)' => Using(m_ioc[k + 1].of)
    BY <1>7, <2>1 DEF Using
  <2> QED  BY <1>1, <2>1, <2>2 DEF ReadsOK
<1>13. ClearsOK'
  <2> SUFFICES ASSUME NEW o \in Objects, NEW p \in Pieces, (Using(o) /\ state[o][p] = "clearing")'
               PROVE  (\E k \in DOMAIN m_ioc :
                        /\ m_ioc[k].call = "clear" /\ m_ioc[k].of = o /\ m_ioc[k].piece = p
                        /\ \A l \in DOMAIN m_ioc :
                             m_ioc[l].call = "read" /\ m_ioc[l].of = o /\ m_ioc[l].piece = p
                               => l < k)'
    BY <1>5 DEF ClearsOK
  <2>1. Using(o) /\ state[o][p] = "clearing"
    BY <1>7, <1>8
  <2>2. PICK k \in DOMAIN m_ioc :
          /\ m_ioc[k].call = "clear" /\ m_ioc[k].of = o /\ m_ioc[k].piece = p
          /\ \A l \in DOMAIN m_ioc :
               m_ioc[l].call = "read" /\ m_ioc[l].of = o /\ m_ioc[l].piece = p => l < k
    BY <1>1, <2>1 DEF ClearsOK
  <2>3. k # 1
    BY <1>2, <2>2
  <2>4. k - 1 \in DOMAIN m_ioc' /\ m_ioc'[k - 1] = m_ioc[k] /\ k \in Nat
    BY <1>1, <1>2, <2>3, MovesUp
  <2>5. \A l \in DOMAIN m_ioc' :
          m_ioc'[l].call = "read" /\ m_ioc'[l].of = o /\ m_ioc'[l].piece = p => l < k - 1
    BY <1>6, <2>2, <2>4
  <2> QED  BY <2>2, <2>4, <2>5
<1>14. PiecesOK'
  BY <1>1, <1>5, <1>7, <1>8 DEF PiecesOK, Using
<1>15. BuffersOK'
  <2>1. \A b \in buffers : b.of \in Objects
    BY <1>1 DEF TypeOK, Buffer
  <2>2. \A b \in buffers : b.of # n
    BY <1>1, <1>2 DEF BuffersOK
  <2> QED  BY <1>1, <1>2, <1>7, <1>8, <2>1, <2>2 DEF BuffersOK
<1> QED  BY <1>3, <1>9, <1>10, <1>11, <1>12, <1>13, <1>14, <1>15 DEF Inv

-----------------------------------------------------------------------------
(* The invariant.                                                          *)

\* Before the first torrent there is nothing to be wrong.
LEMMA InitInv ==
  ASSUME Init
  PROVE  Inv
<1>1. Objects = {} /\ Pieces # {}
  BY DiskAssumption DEF Init, Objects
<1>2. TypeOK
  BY <1>1, EmptySeq DEF Init, TypeOK, Nothing, Contents
<1>3. SlotsKeptApart
  BY <1>1 DEF Init, SlotsKeptApart
<1>4. QueueOK /\ PieceQueueOK /\ ReadsOK
  BY DEF Init, QueueOK, PieceQueueOK, ReadsOK
<1>5. ClearsOK /\ PiecesOK /\ BuffersOK
  BY <1>1 DEF Init, ClearsOK, PiecesOK, BuffersOK
<1> QED  BY <1>2, <1>3, <1>4, <1>5 DEF Inv

\* A step of something else changes nothing.
LEMMA StutterKeeps ==
  ASSUME Inv, UNCHANGED vars
  PROVE  Inv'
<1>1. /\ UNCHANGED <<m_torrents, m_free_slots, m_ioc, m_file_data, m_invalid, has_changed_since, file,
                     torrentOf, holder, phase, state, offered, buffers, verified, spoiled>>
      /\ Objects' = Objects /\ Handler' = Handler /\ Buffer' = Buffer
  BY DEF vars, ioVars, storageVars, sessionVars, historyVars, Objects, Handler, Buffer
<1>2. TypeOK' /\ SlotsKeptApart'
  BY <1>1 DEF Inv, TypeOK, SlotsKeptApart, StorageOf
<1>3. QueueOK' /\ PieceQueueOK' /\ ReadsOK'
  BY <1>1 DEF Inv, QueueOK, PieceQueueOK, PieceCall, ReadsOK, Using
<1>4. ClearsOK' /\ PiecesOK' /\ BuffersOK'
  BY <1>1 DEF Inv, ClearsOK, PiecesOK, BuffersOK, Using
<1> QED  BY <1>2, <1>3, <1>4 DEF Inv

\* A piece from the resume file is written to its own storage.
LEMMA AddPieceKeeps ==
  ASSUME Inv, NEW n \in Objects, NEW p \in Pieces, AddPiece(n, p)
  PROVE  Inv'
<1>1. PICK c \in {"good", "bad"} : c = offered[n][p]
  BY DEF AddPiece
<1>2. offered' \in [Objects -> [Pieces -> Contents \union {"unread"}]]
  BY DEF AddPiece, Inv, TypeOK, Contents
<1> QED  BY <1>1, <1>2, WriteKeeps DEF AddPiece

\* So is a piece from a peer.
LEMMA DownloadKeeps ==
  ASSUME Inv, NEW n \in Objects, NEW p \in Pieces, NEW c \in {"good", "bad"}, Download(n, p, c)
  PROVE  Inv'
<1>1. offered' \in [Objects -> [Pieces -> Contents \union {"unread"}]]
  BY DEF Download, Inv, TypeOK
<1> QED  BY <1>1, WriteKeeps DEF Download

\* Every step keeps the invariant.
LEMMA NextKeeps ==
  ASSUME Inv, [Next]_vars
  PROVE  Inv'
<1>1. ASSUME NEW t \in Torrents, AddTorrent(t) PROVE Inv'
  BY <1>1, AddTorrentKeeps
<1>2. ASSUME NEW n \in Objects, TorrentStep(n) PROVE Inv'
  BY <1>2, CheckResumeKeeps, RemoveTorrentKeeps, ReleaseKeeps, OtherKeeps DEF TorrentStep
<1>3. ASSUME NEW n \in Objects, NEW p \in Pieces, PieceStep(n, p) PROVE Inv'
  BY <1>3, AddPieceKeeps, DownloadKeeps, HashPieceKeeps, ReadPieceKeeps, ClearPieceKeeps DEF PieceStep
<1>4. ASSUME NEW b \in buffers, FreeBuffer(b) PROVE Inv'
  BY <1>4, FreeBufferKeeps
<1>5. CASE RunHandler
  BY <1>5, CheckHandlerKeeps, PieceHandlerKeeps, HashHandlerKeeps, ReadHandlerKeeps,
     StopHandlerKeeps, OtherHandlerKeeps DEF RunHandler
<1>6. CASE UNCHANGED vars
  BY <1>6, StutterKeeps
<1> QED  BY <1>1, <1>2, <1>3, <1>4, <1>5, <1>6 DEF Next

\* The invariant holds in every state.
LEMMA InvAlways == Spec => []Inv
BY InitInv, NextKeeps, PTL DEF Spec

\* Every variable always holds a value of its type.
THEOREM TypeCorrect == Spec => []TypeOK
<1>1. Inv => TypeOK
  BY DEF Inv
<1> QED  BY <1>1, InvAlways, PTL

\* Every torrent that is not gone has a slot to itself, and every other slot is empty
\* and on the stack just once (new_torrent, remove_torrent).
THEOREM SlotsAlwaysApart == Spec => []SlotsKeptApart
<1>1. Inv => SlotsKeptApart
  BY DEF Inv
<1> QED  BY <1>1, InvAlways, PTL

\* A buffer lent to a peer shows the same verified piece until it is freed (async_read
\* and its handler, clear_piece, remove_torrent).
THEOREM LentBuffersAlwaysStay == Spec => []LentBuffersStay
<1>1. Inv => LentBuffersStay
  <2> SUFFICES ASSUME Inv, NEW b \in buffers
               PROVE  b.content = "good" /\ Behind(b.pointer, b.piece) = "good"
    BY DEF LentBuffersStay
  <2>1. /\ b.of \in Objects /\ b.piece \in Pieces /\ b.of # 0
        /\ phase[b.of] = "active" /\ b.pointer = b.of
        /\ b.content = "good" /\ state[b.of][b.piece] = "have"
    BY Numbered DEF Inv, TypeOK, Buffer, BuffersOK
  <2>2. Alive(b.of) /\ m_file_data[b.of][b.piece] = "good"
    BY <2>1, OwnStorage DEF Inv, PiecesOK, Using
  <2> QED  BY <2>1, <2>2 DEF Behind
<1> QED  BY <1>1, InvAlways, PTL

-----------------------------------------------------------------------------
(* What is verified is saved.                                              *)

\* The states in which a piece is on its way to being had.
OnItsWay == {"writing", "written", "hashing", "have"}

\* A torrent object that may be the only one of its torrent since it is added.
Lone(n) == n \in Objects /\ phase[n] # "gone" /\ torrentOf[n] \notin spoiled

\* It is the only one; its resume file has what its storage has unless the storage has
\* changed since or has nothing; and before it reads the file it changes nothing.
Recorded(n) ==
  /\ \A o \in Objects : phase[o] # "gone" /\ torrentOf[o] = torrentOf[n] => o = n
  /\ ~has_changed_since[n] =>
       m_file_data[n] = Nothing \/ file[torrentOf[n]] = m_file_data[n]
  /\ phase[n] = "stopping" => offered[n] = Nothing
  /\ offered[n] = Unread =>
       ~has_changed_since[n] /\ \A p \in verified[torrentOf[n]] : file[torrentOf[n]][p] = "good"
  /\ offered[n] # Unread =>
       \A p \in verified[torrentOf[n]] : offered[n][p] = "good" \/ m_file_data[n][p] = "good"
LoneOK == \A n \in Objects : Lone(n) => Recorded(n)

\* What has once passed its hash is only written over from the resume file.
KeptOK ==
  \A n \in Objects, p \in Pieces :
    Lone(n) /\ Using(n) /\ p \in verified[torrentOf[n]] /\ m_file_data[n][p] = "good"
      => state[n][p] \in OnItsWay

\* A piece the session knows of is not on offer any more.
OfferedOK ==
  \A n \in Objects, p \in Pieces : Using(n) /\ state[n][p] # "absent" => offered[n][p] = "none"

SavedInv == VerifiedIsSaved /\ LoneOK /\ KeptOK /\ OfferedOK

\* A step that only moves torrents and pieces on.
MovesOn ==
  /\ UNCHANGED <<torrentOf, m_file_data, has_changed_since, file, offered, verified, spoiled>>
  /\ \A n \in Objects :
       /\ phase'[n] = "gone" <=> phase[n] = "gone"
       /\ phase'[n] = "stopping" => phase[n] = "stopping" \/ offered[n] = Nothing
       /\ Using(n)' => Using(n)
  /\ \A n \in Objects, p \in Pieces : Using(n) =>
       /\ state'[n][p] # "absent" => state[n][p] # "absent"
       /\ state[n][p] \in OnItsWay /\ m_file_data[n][p] = "good" => state'[n][p] \in OnItsWay

\* A step that only moves torrents on leaves what is saved as it is.
LEMMA MovesOnKeeps ==
  ASSUME SavedInv, MovesOn
  PROVE  SavedInv'
<1>1. VerifiedIsSaved /\ LoneOK /\ KeptOK /\ OfferedOK
  BY DEF SavedInv
<1>2. /\ UNCHANGED <<torrentOf, m_file_data, has_changed_since, file, offered, verified, spoiled>>
      /\ Objects' = Objects
  BY DEF MovesOn, Objects
<1>3. \A n \in Objects : Lone(n)' => Lone(n)
  BY <1>2 DEF Lone, MovesOn
<1>4. VerifiedIsSaved'
  <2>1. \A n \in Objects : phase'[n] = "gone" => phase[n] = "gone"
    BY DEF MovesOn
  <2> QED  BY <1>1, <1>2, <2>1 DEF VerifiedIsSaved
<1>5. LoneOK'
  <2> SUFFICES ASSUME NEW n \in Objects, Lone(n)' PROVE Recorded(n)'
    BY <1>2 DEF LoneOK
  <2>1. Recorded(n)
    BY <1>1, <1>3 DEF LoneOK
  <2>2. \A o \in Objects : phase'[o] # "gone" => phase[o] # "gone"
    BY DEF MovesOn
  <2>3. phase'[n] = "stopping" => offered[n] = Nothing
    BY <2>1 DEF MovesOn, Recorded
  <2>4. Nothing' = Nothing /\ Unread' = Unread
    BY DEF Nothing, Unread
  <2> QED  BY <1>2, <2>1, <2>2, <2>3, <2>4 DEF Recorded
<1>6. KeptOK'
  <2> SUFFICES ASSUME NEW n \in Objects, NEW p \in Pieces, Lone(n)', Using(n)',
                      p \in verified[torrentOf[n]], m_file_data[n][p] = "good"
               PROVE  state'[n][p] \in OnItsWay
    BY <1>2 DEF KeptOK, OnItsWay
  <2>1. Lone(n) /\ Using(n)
    BY <1>3 DEF MovesOn
  <2>2. state[n][p] \in OnItsWay
    BY <1>1, <2>1 DEF KeptOK
  <2> QED  BY <2>1, <2>2 DEF MovesOn
<1>7. OfferedOK'
  BY <1>1, <1>2 DEF OfferedOK, MovesOn
<1> QED  BY <1>4, <1>5, <1>6, <1>7 DEF SavedInv

\* The calls and handlers that save nothing and verify nothing.
LEMMA QuietCalls ==
  ASSUME Inv, NEW n \in Objects,
         \/ OtherCall(n) \/ RemoveTorrent(n)
         \/ \E p \in Pieces : HashPiece(n, p) \/ ReadPiece(n, p) \/ ClearPiece(n, p)
  PROVE  MovesOn
<1>1. TypeOK
  BY DEF Inv
<1>2. CASE OtherCall(n)
  BY <1>2 DEF OtherCall, async_other, MovesOn, storageVars, sessionVars, historyVars, Using
<1>3. CASE RemoveTorrent(n)
  <2>1. /\ phase' = [phase EXCEPT ![n] = "stopping"] /\ offered[n] = Nothing /\ phase[n] = "active"
        /\ UNCHANGED <<torrentOf, state, m_file_data, has_changed_since, file, offered, verified, spoiled>>
    BY <1>3 DEF RemoveTorrent, async_stop_torrent, storageVars, historyVars
  <2>2. \A o \in Objects : phase'[o] = IF o = n THEN "stopping" ELSE phase[o]
    BY <1>1, <2>1 DEF TypeOK
  <2> QED  BY <2>1, <2>2 DEF MovesOn, Using
<1>4. ASSUME NEW p \in Pieces, HashPiece(n, p) PROVE MovesOn
  <2>1. /\ state' = [state EXCEPT ![n][p] = "hashing"] /\ state[n][p] = "written"
        /\ UNCHANGED <<torrentOf, phase, m_file_data, has_changed_since, file, offered, verified, spoiled>>
    BY <1>4 DEF HashPiece, async_hash, Becomes, PieceIs, storageVars, historyVars
  <2>2. \A o \in Objects, q \in Pieces :
          state'[o][q] = IF o = n /\ q = p THEN "hashing" ELSE state[o][q]
    BY <1>1, <2>1 DEF TypeOK
  <2> QED  BY <2>1, <2>2 DEF MovesOn, Using, OnItsWay
<1>5. ASSUME NEW p \in Pieces, ReadPiece(n, p) PROVE MovesOn
  BY <1>5 DEF ReadPiece, async_read, MovesOn, storageVars, sessionVars, historyVars, Using
<1>6. ASSUME NEW p \in Pieces, ClearPiece(n, p) PROVE MovesOn
  <2>1. /\ state' = [state EXCEPT ![n][p] = "clearing"] /\ state[n][p] = "failed"
        /\ UNCHANGED <<torrentOf, phase, m_file_data, has_changed_since, file, offered, verified, spoiled>>
    BY <1>6 DEF ClearPiece, async_clear_piece, clear_piece, Becomes, PieceIs, historyVars
  <2>2. \A o \in Objects, q \in Pieces :
          state'[o][q] = IF o = n /\ q = p THEN "clearing" ELSE state[o][q]
    BY <1>1, <2>1 DEF TypeOK
  <2> QED  BY <2>1, <2>2 DEF MovesOn, Using, OnItsWay
<1> QED  BY <1>2, <1>3, <1>4, <1>5, <1>6

\* Handlers that verify nothing leave what is saved as it is.
LEMMA QuietHandlers ==
  ASSUME Inv, CheckHandler \/ WriteHandler \/ ClearHandler \/ ReadHandler \/ OtherHandler
  PROVE  MovesOn
<1> DEFINE n == m_ioc[1].of
           p == m_ioc[1].piece
<1>1. TypeOK
  BY DEF Inv
<1>2. CASE CheckHandler
  <2>1. n \in Objects /\ Head(m_ioc) = m_ioc[1] /\ m_ioc[1].call = "check" /\ 1 \in DOMAIN m_ioc
    BY <1>2, FirstHandler DEF CheckHandler
  <2>2. phase[n] = "checking"
    BY <2>1 DEF Inv, QueueOK
  <2>3. /\ phase' = [phase EXCEPT ![n] = "active"]
        /\ UNCHANGED <<torrentOf, state, m_file_data, has_changed_since, file, offered, verified, spoiled>>
    BY <1>2, <2>1 DEF CheckHandler, storageVars, historyVars
  <2> HIDE DEF n
  <2>4. \A o \in Objects : phase'[o] = IF o = n THEN "active" ELSE phase[o]
    BY <1>1, <2>3 DEF TypeOK
  <2> QED  BY <2>2, <2>3, <2>4 DEF MovesOn, Using
<1>3. ASSUME NEW call, NEW old, old # "absent", NEW new, PieceHandler(call, old, new),
             new \in OnItsWay \/ old \notin OnItsWay
      PROVE  MovesOn
  <2>1. n \in Objects /\ p \in Pieces /\ Head(m_ioc) = m_ioc[1]
    BY <1>3, FirstHandler DEF PieceHandler
  <2>2. /\ state' = IF PieceIs(n, p, old) THEN [state EXCEPT ![n][p] = new] ELSE state
        /\ UNCHANGED <<torrentOf, phase, m_file_data, has_changed_since, file, offered, verified, spoiled>>
    BY <1>3, <2>1 DEF PieceHandler, storageVars, historyVars
  <2> HIDE DEF n, p
  <2>3. \A o \in Objects, q \in Pieces :
          state'[o][q] = IF o = n /\ q = p /\ PieceIs(n, p, old) THEN new ELSE state[o][q]
    BY <1>1, <2>1, <2>2 DEF TypeOK
  <2>4. PieceIs(n, p, old) => state[n][p] = old
    BY DEF PieceIs
  <2> QED  BY <1>3, <2>2, <2>3, <2>4 DEF MovesOn, Using
<1>4. CASE WriteHandler
  BY <1>3, <1>4 DEF WriteHandler, OnItsWay
<1>5. CASE ClearHandler
  BY <1>3, <1>5 DEF ClearHandler, OnItsWay
<1>6. CASE ReadHandler
  BY <1>6 DEF ReadHandler, MovesOn, storageVars, historyVars, Using
<1>7. CASE OtherHandler
  BY <1>7 DEF OtherHandler, MovesOn, storageVars, sessionVars, historyVars, Using
<1> QED  BY <1>2, <1>4, <1>5, <1>6, <1>7

\* A step that touches torrent t alone leaves the others as they were.
OnlyTouches(t) ==
  /\ torrentOf' = torrentOf /\ spoiled \subseteq spoiled'
  /\ \A n \in Objects : torrentOf[n] # t =>
       /\ phase'[n] = phase[n] /\ state'[n] = state[n] /\ m_file_data'[n] = m_file_data[n]
       /\ has_changed_since'[n] = has_changed_since[n] /\ offered'[n] = offered[n]
  /\ \A u \in Torrents : u # t =>
       file'[u] = file[u] /\ verified'[u] = verified[u] /\ (u \in spoiled' => u \in spoiled)

\* What it makes of the torrent it touches is right.
LeavesRight(n) ==
  /\ OnlyTouches(torrentOf[n])
  /\ \A o \in Objects : phase'[o] # "gone" => phase[o] # "gone"
  /\ phase'[n] = "gone" /\ torrentOf[n] \notin spoiled' =>
       \A p \in verified'[torrentOf[n]] : file'[torrentOf[n]][p] = "good"
  /\ Lone(n)' => Recorded(n)'
  /\ \A p \in Pieces : Lone(n)' /\ Using(n)' /\ p \in verified'[torrentOf[n]]
                        /\ m_file_data'[n][p] = "good" => state'[n][p] \in OnItsWay
  /\ OfferedOK'

\* A step about one torrent leaves the others right.
LEMMA OthersUntouched ==
  ASSUME Inv, SavedInv, NEW n \in Objects, phase[n] # "gone", LeavesRight(n)
  PROVE  SavedInv'
<1>0. OnlyTouches(torrentOf[n])
  BY DEF LeavesRight
<1>1. TypeOK /\ VerifiedIsSaved /\ LoneOK /\ KeptOK
  BY DEF Inv, SavedInv
<1>2. Objects' = Objects /\ torrentOf' = torrentOf /\ spoiled \subseteq spoiled'
  BY <1>0 DEF OnlyTouches, Objects
<1>3. \A o \in Objects : torrentOf[o] \in Torrents
  BY <1>1, TorrentKnown
<1> DEFINE t == torrentOf[n]
<1>4. ASSUME NEW o \in Objects, Lone(o)', o # n
      PROVE  Lone(o) /\ torrentOf[o] # t
  <2>1. Lone(o)
    BY <1>2, <1>4 DEF Lone, LeavesRight
  <2>2. torrentOf[o] # t
    BY <1>1, <1>4, <2>1 DEF LoneOK, Recorded
  <2> QED  BY <2>1, <2>2
<1>5. VerifiedIsSaved'
  <2> SUFFICES ASSUME NEW u \in Torrents \ spoiled',
                      \A o \in Objects : torrentOf[o] = u => phase'[o] = "gone",
                      NEW p \in verified'[u]
               PROVE  file'[u][p] = "good"
    BY <1>2 DEF VerifiedIsSaved
  <2>1. CASE u = t
    BY <1>2, <2>1 DEF LeavesRight
  <2>2. CASE u # t
    <3>1. file'[u] = file[u] /\ verified'[u] = verified[u]
      BY <1>0, <2>2 DEF OnlyTouches
    <3>2. \A o \in Objects : torrentOf[o] = u => phase[o] = "gone"
      BY <1>0, <2>2 DEF OnlyTouches
    <3> QED  BY <1>1, <1>2, <3>1, <3>2 DEF VerifiedIsSaved
  <2> QED  BY <2>1, <2>2
<1>6. LoneOK'
  <2> SUFFICES ASSUME NEW o \in Objects, Lone(o)', o # n PROVE Recorded(o)'
    BY <1>2 DEF LoneOK, LeavesRight
  <2>1. Lone(o) /\ torrentOf[o] # t /\ torrentOf[o] \in Torrents
    BY <1>3, <1>4
  <2>2. Recorded(o)
    BY <1>1, <2>1 DEF LoneOK
  <2>3. /\ phase'[o] = phase[o] /\ m_file_data'[o] = m_file_data[o] /\ offered'[o] = offered[o]
        /\ has_changed_since'[o] = has_changed_since[o]
        /\ file'[torrentOf[o]] = file[torrentOf[o]] /\ verified'[torrentOf[o]] = verified[torrentOf[o]]
        /\ Nothing' = Nothing /\ Unread' = Unread
    BY <1>0, <2>1 DEF OnlyTouches, Nothing, Unread
  <2>4. \A x \in Objects : phase'[x] # "gone" => phase[x] # "gone"
    BY DEF LeavesRight
  <2> QED  BY <1>2, <2>2, <2>3, <2>4 DEF Recorded
<1>7. KeptOK'
  <2> SUFFICES ASSUME NEW o \in Objects, NEW p \in Pieces, Lone(o)', Using(o)', o # n,
                      p \in verified'[torrentOf[o]], m_file_data'[o][p] = "good"
               PROVE  state'[o][p] \in OnItsWay
    BY <1>2 DEF KeptOK, OnItsWay, LeavesRight
  <2>1. Lone(o) /\ torrentOf[o] # t /\ torrentOf[o] \in Torrents
    BY <1>3, <1>4
  <2>2. /\ phase'[o] = phase[o] /\ m_file_data'[o] = m_file_data[o] /\ state'[o] = state[o]
        /\ verified'[torrentOf[o]] = verified[torrentOf[o]]
    BY <1>0, <2>1 DEF OnlyTouches
  <2> QED  BY <1>1, <2>1, <2>2 DEF KeptOK, Using
<1> QED  BY <1>5, <1>6, <1>7 DEF SavedInv, LeavesRight

\* A flush saves what the storage has.
LEMMA ReleaseSaves ==
  ASSUME Inv, SavedInv, NEW n \in Objects, ReleaseFiles(n)
  PROVE  SavedInv'
<1> DEFINE t == torrentOf[n]
<1>1. TypeOK /\ LoneOK /\ KeptOK /\ OfferedOK /\ phase[n] = "active" /\ StorageOf(n) = n
  BY OwnStorage DEF Inv, SavedInv, ReleaseFiles
<1>2. /\ Flushed(n, t) /\ t \in Torrents
      /\ UNCHANGED <<m_file_data, torrentOf, phase, state, offered, verified>>
  <2>1. t \in Torrents
    BY <1>1, TorrentKnown
  <2> QED  BY <1>1, <2>1, FlushEffects DEF ReleaseFiles, async_release_files, sessionVars
<1>3. t \in Torrents /\ Objects' = Objects
  BY <1>2 DEF Objects
<1>4. OnlyTouches(t)
  BY <1>2, <1>3 DEF OnlyTouches, Flushed
<1>5. Lone(n)' => Recorded(n)'
  <2> SUFFICES ASSUME Lone(n)' PROVE Recorded(n)'
    OBVIOUS
  <2>1. t \notin spoiled' /\ Recorded(n)
    BY <1>1, <1>2 DEF Lone, LoneOK, Flushed
  <2>2. has_changed_since'[n] = FALSE
    BY <1>2, <2>1 DEF Flushed
  <2>3. CASE has_changed_since[n]
    <3>1. file'[t] = m_file_data[n] /\ offered[n] # Unread
      BY <1>2, <2>1, <2>3 DEF Flushed, Recorded
    <3> QED  BY <1>2, <1>3, <2>1, <2>2, <3>1 DEF Recorded, Unread, Nothing
  <2>4. CASE ~has_changed_since[n]
    <3>1. file'[t] = file[t]
      BY <1>2, <2>1, <2>4 DEF Flushed
    <3> QED  BY <1>2, <1>3, <2>1, <2>2, <2>4, <3>1 DEF Recorded, Unread, Nothing
  <2> QED  BY <2>3, <2>4
<1>6. OfferedOK'
  BY <1>1, <1>2, <1>3 DEF OfferedOK, Using
<1>7. \A p \in Pieces : Lone(n)' /\ Using(n)' /\ p \in verified'[t] /\ m_file_data'[n][p] = "good"
        => state'[n][p] \in OnItsWay
  BY <1>1, <1>2 DEF KeptOK, Lone, Using, Flushed
<1>8. LeavesRight(n)
  BY <1>1, <1>2, <1>4, <1>5, <1>6, <1>7 DEF LeavesRight
<1> QED  BY <1>1, <1>8, OthersUntouched

\* What is read from the file is what was saved.
LEMMA CheckResumeReads ==
  ASSUME Inv, SavedInv, NEW n \in Objects, check_resume_data(n)
  PROVE  SavedInv'
<1> DEFINE t == torrentOf[n]
<1>1. /\ TypeOK /\ LoneOK /\ KeptOK /\ OfferedOK /\ Using(n) /\ offered[n] = Unread
      /\ Pieces # {}
  BY DiskAssumption DEF Inv, SavedInv, check_resume_data
<1>2. /\ offered' = [offered EXCEPT ![n] = ReadBack(t)]
      /\ spoiled' = IF ReadBack(t) # file[t] THEN spoiled \union {t} ELSE spoiled
      /\ UNCHANGED <<has_changed_since, file, m_file_data, torrentOf, phase, state, verified>>
  BY DEF check_resume_data, storageVars
<1>3. t \in Torrents /\ Objects' = Objects /\ phase[n] # "gone"
  BY <1>1, <1>2, TorrentKnown DEF Objects, Using
<1>4. OnlyTouches(t)
  BY <1>1, <1>2, <1>3 DEF OnlyTouches, TypeOK
<1>5. offered'[n] = ReadBack(t) /\ ReadBack(t) # Unread
  <2>1. ReadBack(t) \in [Pieces -> Contents] /\ offered'[n] = ReadBack(t)
    BY <1>1, <1>2, <1>3, ReadBackTyped DEF TypeOK
  <2>2. PICK p \in Pieces : TRUE
    BY <1>1
  <2> QED  BY <2>1, <2>2 DEF Unread, Contents
<1>6. Lone(n)' => Recorded(n)'
  <2> SUFFICES ASSUME Lone(n)' PROVE Recorded(n)'
    OBVIOUS
  <2>1. Recorded(n) /\ ReadBack(t) = file[t]
    BY <1>1, <1>2 DEF Lone, LoneOK
  <2>2. \A p \in verified[t] : offered'[n][p] = "good"
    BY <1>1, <1>5, <2>1 DEF Recorded
  <2>3. phase[n] # "stopping" /\ Unread' = Unread /\ Nothing' = Nothing
    BY <1>1 DEF Using, Unread, Nothing
  <2> QED  BY <1>2, <1>3, <1>5, <2>1, <2>2, <2>3 DEF Recorded
<1>7. OfferedOK'
  <2>1. \A p \in Pieces : state[n][p] = "absent"
    BY <1>1 DEF OfferedOK, Unread
  <2>2. \A o \in Objects : o # n => offered'[o] = offered[o]
    BY <1>1, <1>2 DEF TypeOK
  <2> QED  BY <1>1, <1>2, <1>3, <2>1, <2>2 DEF OfferedOK, Using
<1>8. \A p \in Pieces : Lone(n)' /\ Using(n)' /\ p \in verified'[t] /\ m_file_data'[n][p] = "good"
        => state'[n][p] \in OnItsWay
  BY <1>1, <1>2 DEF KeptOK, Lone, Using
<1>9. LeavesRight(n)
  BY <1>2, <1>3, <1>4, <1>6, <1>7, <1>8 DEF LeavesRight
<1> QED  BY <1>3, <1>9, OthersUntouched

\* What passes its hash is in the storage.
LEMMA HashVerifies ==
  ASSUME Inv, SavedInv, HashHandler
  PROVE  SavedInv'
<1> DEFINE good == m_ioc[1].result = "good"
<1>1. TypeOK /\ LoneOK /\ KeptOK /\ OfferedOK /\ PieceQueueOK
  BY DEF Inv, SavedInv
<1>2. PICK n \in Objects, p \in Pieces :
        /\ n = m_ioc[1].of /\ p = m_ioc[1].piece
        /\ m_ioc[1].call = "hash" /\ Head(m_ioc) = m_ioc[1]
        /\ 1 \in DOMAIN m_ioc /\ phase[n] # "gone"
  BY FirstHandler DEF HashHandler
<1> DEFINE t == torrentOf[n]
<1>3. /\ state' = IF PieceIs(n, p, "hashing")
                  THEN [state EXCEPT ![n][p] = IF good THEN "have" ELSE "failed"] ELSE state
      /\ verified' = IF PieceIs(n, p, "hashing") /\ good
                     THEN [verified EXCEPT ![t] = @ \union {p}] ELSE verified
      /\ UNCHANGED <<m_file_data, has_changed_since, file, torrentOf, phase, offered, spoiled>>
  BY <1>2 DEF HashHandler, storageVars
<1>4. PieceIs(n, p, "hashing") =>
        /\ state[n][p] = "hashing" /\ offered[n][p] = "none" /\ m_ioc[1].result = m_file_data[n][p]
  <2>1. PieceCall(1)
    BY <1>2 DEF PieceCall
  <2> QED  BY <1>1, <1>2, <2>1 DEF PieceIs, Using, OfferedOK, PieceQueueOK
<1>5. t \in Torrents /\ Objects' = Objects
  BY <1>1, <1>2, <1>3, TorrentKnown DEF Objects
<1>9. /\ good => m_ioc[1].result = "good"
      /\ \A q \in verified'[t] : q \in verified[t] \/ (q = p /\ PieceIs(n, p, "hashing") /\ good)
  BY <1>1, <1>3, <1>5 DEF TypeOK
<1> HIDE DEF good
<1>6. /\ \A o \in Objects, q \in Pieces :
           state'[o][q] = IF o = n /\ q = p /\ PieceIs(n, p, "hashing")
                          THEN IF good THEN "have" ELSE "failed"
                          ELSE state[o][q]
      /\ \A o \in Objects : o # n => state'[o] = state[o]
      /\ \A u \in Torrents : verified'[u] = IF u = t /\ PieceIs(n, p, "hashing") /\ good
                                            THEN verified[u] \union {p} ELSE verified[u]
  BY <1>1, <1>2, <1>3, <1>5 DEF TypeOK
<1>7. OnlyTouches(t)
  BY <1>3, <1>6 DEF OnlyTouches
<1>8. OfferedOK'
  BY <1>1, <1>3, <1>4, <1>5, <1>6 DEF OfferedOK, Using
<1>10. Lone(n)' => Recorded(n)'
  <2> SUFFICES ASSUME Lone(n)' PROVE Recorded(n)'
    OBVIOUS
  <2>1. Recorded(n) /\ Nothing' = Nothing /\ Unread' = Unread
    BY <1>1, <1>2, <1>3, <1>5 DEF Lone, LoneOK, Nothing, Unread
  <2>2. CASE PieceIs(n, p, "hashing") /\ good
    <3>1. offered[n] # Unread
      BY <1>2, <1>4, <2>2 DEF Unread
    <3>2. \A q \in verified'[t] : offered[n][q] = "good" \/ m_file_data[n][q] = "good"
      BY <1>4, <1>9, <2>1, <3>1 DEF Recorded
    <3> QED  BY <1>3, <1>5, <2>1, <3>1, <3>2 DEF Recorded
  <2>3. CASE ~(PieceIs(n, p, "hashing") /\ good)
    BY <1>3, <1>5, <2>1, <2>3 DEF Recorded
  <2> QED  BY <2>2, <2>3
<1>11. ASSUME NEW q \in Pieces, Lone(n)', Using(n)', q \in verified'[t], m_file_data'[n][q] = "good"
       PROVE  state'[n][q] \in OnItsWay
  <2>1. Lone(n) /\ Using(n) /\ m_file_data[n][q] = "good"
    BY <1>2, <1>3, <1>5, <1>11 DEF Lone, Using
  <2>2. CASE q = p /\ PieceIs(n, p, "hashing")
    <3>1. good
      BY <1>4, <2>1, <2>2 DEF good
    <3> QED  BY <1>2, <1>6, <2>2, <3>1 DEF OnItsWay
  <2>3. CASE ~(q = p /\ PieceIs(n, p, "hashing"))
    <3>1. q \in verified[t] /\ state'[n][q] = state[n][q]
      BY <1>2, <1>6, <1>9, <1>11, <2>3
    <3> QED  BY <1>1, <1>2, <2>1, <3>1 DEF KeptOK
  <2> QED  BY <2>2, <2>3
<1>12. LeavesRight(n)
  BY <1>2, <1>3, <1>7, <1>8, <1>10, <1>11 DEF LeavesRight
<1> QED  BY <1>2, <1>12, OthersUntouched

\* A verified piece is written only with what the resume file had of it.
LEMMA WriteSaves ==
  ASSUME Inv, SavedInv, NEW n \in Objects, NEW p \in Pieces, NEW c \in {"good", "bad"},
         PieceIs(n, p, "absent"), async_write(n, p, c), Becomes(n, p, "writing"),
         UNCHANGED <<torrentOf, phase, historyVars>>,
         offered[n] = Nothing \/ c = offered[n][p],
         \A o \in Objects, q \in Pieces :
           offered'[o][q] = IF o = n /\ q = p THEN "none" ELSE offered[o][q],
         \A o \in Objects : o # n => offered'[o] = offered[o]
  PROVE  SavedInv'
<1> DEFINE t == torrentOf[n]
<1>1. /\ TypeOK /\ LoneOK /\ KeptOK /\ OfferedOK /\ PiecesOK
      /\ phase[n] = "active" /\ state[n][p] = "absent" /\ StorageOf(n) = n
  BY OwnStorage DEF Inv, SavedInv, PieceIs
<1>2. /\ m_file_data' = [m_file_data EXCEPT ![n][p] = c]
      /\ has_changed_since' = [has_changed_since EXCEPT ![n] = TRUE]
      /\ state' = [state EXCEPT ![n][p] = "writing"]
      /\ UNCHANGED <<file, torrentOf, phase, verified, spoiled>>
  BY <1>1 DEF async_write, writev, Becomes, historyVars
<1>3. /\ \A o \in Objects, q \in Pieces :
           /\ m_file_data'[o][q] = IF o = n /\ q = p THEN c ELSE m_file_data[o][q]
           /\ state'[o][q] = IF o = n /\ q = p THEN "writing" ELSE state[o][q]
      /\ \A o \in Objects : o # n =>
           /\ m_file_data'[o] = m_file_data[o] /\ state'[o] = state[o]
           /\ has_changed_since'[o] = has_changed_since[o]
      /\ has_changed_since'[n] = TRUE
      /\ Objects' = Objects
  BY <1>1, <1>2 DEF TypeOK, Objects
<1>4. OnlyTouches(t)
  BY <1>2, <1>3 DEF OnlyTouches
<1>5. offered[n] # Unread /\ offered'[n] # Unread /\ offered[n][p] # "unread"
  BY <1>1 DEF Nothing, Unread
<1>6. verified[t] \subseteq Pieces
  BY <1>1, TorrentKnown DEF TypeOK
<1>7. ASSUME Lone(n), p \in verified[t] PROVE c = "good"
  <2>1. m_file_data[n][p] # "good"
    BY <1>1, <1>7 DEF KeptOK, Using, OnItsWay
  <2>2. offered[n][p] = "good"
    BY <1>1, <1>5, <1>7, <2>1 DEF LoneOK, Recorded
  <2> QED  BY <2>2 DEF Nothing
<1>8. Lone(n)' => Recorded(n)'
  <2> SUFFICES ASSUME Lone(n)' PROVE Recorded(n)'
    OBVIOUS
  <2>1. Lone(n) /\ Recorded(n)
    BY <1>1, <1>2, <1>3 DEF Lone, LoneOK
  <2>2. \A q \in verified[t] : offered[n][q] = "good" \/ m_file_data[n][q] = "good"
    BY <1>5, <2>1 DEF Recorded
  <2>3. \A q \in verified'[t] : offered'[n][q] = "good" \/ m_file_data'[n][q] = "good"
    BY <1>2, <1>3, <1>6, <1>7, <2>1, <2>2
  <2>4. Unread' = Unread
    BY DEF Unread
  <2> QED  BY <1>1, <1>2, <1>3, <1>5, <2>1, <2>3, <2>4 DEF Recorded
<1>9. OfferedOK'
  BY <1>1, <1>2, <1>3 DEF OfferedOK, Using
<1>10. \A q \in Pieces : Lone(n)' /\ Using(n)' /\ q \in verified'[t] /\ m_file_data'[n][q] = "good"
         => state'[n][q] \in OnItsWay
  BY <1>1, <1>2, <1>3 DEF KeptOK, Lone, Using, OnItsWay
<1>11. LeavesRight(n)
  BY <1>1, <1>2, <1>4, <1>8, <1>9, <1>10 DEF LeavesRight
<1> QED  BY <1>1, <1>11, OthersUntouched

\* A piece from the resume file is what the file has of it.
LEMMA AddPieceSaves ==
  ASSUME Inv, SavedInv, NEW n \in Objects, NEW p \in Pieces, AddPiece(n, p)
  PROVE  SavedInv'
<1>1. TypeOK
  BY DEF Inv
<1>2. PICK c \in {"good", "bad"} : c = offered[n][p]
  BY DEF AddPiece
<1>3. offered' = [offered EXCEPT ![n][p] = "none"]
  BY DEF AddPiece
<1>4. /\ \A o \in Objects, q \in Pieces :
           offered'[o][q] = IF o = n /\ q = p THEN "none" ELSE offered[o][q]
      /\ \A o \in Objects : o # n => offered'[o] = offered[o]
  BY <1>1, <1>3 DEF TypeOK
<1> QED  BY <1>2, <1>4, WriteSaves DEF AddPiece

\* A piece is downloaded when the resume file has no more to offer.
LEMMA DownloadSaves ==
  ASSUME Inv, SavedInv, NEW n \in Objects, NEW p \in Pieces, NEW c \in {"good", "bad"},
         Download(n, p, c)
  PROVE  SavedInv'
<1>1. offered[n] = Nothing /\ offered' = offered
  BY DEF Download
<1>2. /\ \A o \in Objects, q \in Pieces :
           offered'[o][q] = IF o = n /\ q = p THEN "none" ELSE offered[o][q]
      /\ \A o \in Objects : o # n => offered'[o] = offered[o]
  BY <1>1 DEF Nothing
<1> QED  BY <1>1, <1>2, WriteSaves DEF Download

\* A storage that goes leaves what was verified in its file.
LEMMA StopSaves ==
  ASSUME Inv, SavedInv, StopHandler
  PROVE  SavedInv'
<1>1. PICK n \in Objects : n = m_ioc[1].of
  BY StopHandlerEffects
<1> DEFINE t == torrentOf[n]
<1>2. /\ phase[n] = "stopping"
      /\ Flushed(n, t)
      /\ m_file_data' = [m_file_data EXCEPT ![n] = Nothing]
      /\ phase' = [phase EXCEPT ![n] = "gone"]
      /\ state' = [state EXCEPT ![n] = [p \in Pieces |-> "absent"]]
      /\ UNCHANGED <<torrentOf, offered, verified>>
  BY <1>1, StopHandlerEffects
<1>3. TypeOK /\ LoneOK /\ OfferedOK /\ t \in Torrents
  BY TorrentKnown DEF Inv, SavedInv
<1>4. /\ \A o \in Objects : phase'[o] = IF o = n THEN "gone" ELSE phase[o]
      /\ \A o \in Objects : o # n => m_file_data'[o] = m_file_data[o] /\ state'[o] = state[o]
      /\ Objects' = Objects
  BY <1>2, <1>3 DEF TypeOK, Objects
<1>5. OnlyTouches(t)
  BY <1>2, <1>4 DEF OnlyTouches, Flushed
<1>6. ASSUME t \notin spoiled', NEW p \in verified[t] PROVE file'[t][p] = "good"
  <2>1. /\ Recorded(n) /\ offered[n] = Nothing
        /\ file'[t] = IF has_changed_since[n] THEN m_file_data[n] ELSE file[t]
    BY <1>2, <1>3, <1>6 DEF LoneOK, Lone, Recorded, Flushed
  <2>2. p \in Pieces
    BY <1>3, <1>6 DEF TypeOK
  <2>3. m_file_data[n][p] = "good"
    BY <2>1, <2>2 DEF Recorded, Nothing, Unread
  <2>4. CASE has_changed_since[n]
    BY <2>1, <2>3, <2>4
  <2>5. CASE ~has_changed_since[n]
    BY <2>1, <2>2, <2>3, <2>5 DEF Recorded, Nothing
  <2> QED  BY <2>4, <2>5
<1>7. ~Lone(n)' /\ ~Using(n)'
  BY <1>4 DEF Lone, Using
<1>8. OfferedOK'
  BY <1>2, <1>3, <1>4 DEF OfferedOK, Using
<1>9. LeavesRight(n)
  BY <1>2, <1>4, <1>5, <1>6, <1>7, <1>8 DEF LeavesRight
<1> QED  BY <1>2, <1>9, OthersUntouched

\* A torrent that is added finds in its file what it verified before.
LEMMA AddTorrentSaves ==
  ASSUME Inv, SavedInv, NEW t \in Torrents, AddTorrent(t)
  PROVE  SavedInv'
<1> DEFINE n == Len(torrentOf) + 1
<1>1. /\ torrentOf'[n] = t
      /\ \A o \in Objects : torrentOf'[o] = torrentOf[o]
      /\ n \notin Objects /\ Objects' = Objects \union {n}
      /\ phase'[n] = "checking" /\ \A o \in Objects : phase'[o] = phase[o]
      /\ state'[n] = [p \in Pieces |-> "absent"] /\ \A o \in Objects : state'[o] = state[o]
      /\ m_file_data'[n] = Nothing /\ \A o \in Objects : m_file_data'[o] = m_file_data[o]
      /\ has_changed_since'[n] = FALSE
      /\ \A o \in Objects : has_changed_since'[o] = has_changed_since[o]
      /\ offered'[n] = Unread /\ \A o \in Objects : offered'[o] = offered[o]
  BY AddTorrentEffects
<1> HIDE DEF n
<1>2. /\ file' = file /\ verified' = verified
      /\ spoiled' = IF \E o \in Objects : torrentOf[o] = t /\ phase[o] # "gone"
                       THEN spoiled \union {t} ELSE spoiled
  BY DEF AddTorrent
<1>3. TypeOK /\ VerifiedIsSaved /\ LoneOK /\ KeptOK /\ OfferedOK
  BY DEF Inv, SavedInv
<1>4. spoiled \subseteq spoiled' /\ Nothing' = Nothing /\ Unread' = Unread
  BY <1>2 DEF Nothing, Unread
<1>5. VerifiedIsSaved'
  <2> SUFFICES ASSUME NEW u \in Torrents \ spoiled',
                      \A o \in Objects' : torrentOf'[o] = u => phase'[o] = "gone",
                      NEW p \in verified[u]
               PROVE  file[u][p] = "good"
    BY <1>2 DEF VerifiedIsSaved
  <2>1. \A o \in Objects : torrentOf[o] = u => phase[o] = "gone"
    BY <1>1
  <2> QED  BY <1>3, <1>4, <2>1 DEF VerifiedIsSaved
<1>6. ASSUME t \notin spoiled'
      PROVE  /\ \A o \in Objects : torrentOf[o] = t => phase[o] = "gone"
             /\ \A p \in verified[t] : file[t][p] = "good"
  <2>1. \A o \in Objects : torrentOf[o] = t => phase[o] = "gone"
    BY <1>2, <1>6
  <2> QED  BY <1>3, <1>4, <1>6, <2>1 DEF VerifiedIsSaved
<1>7. ASSUME NEW o \in Objects, Lone(o)'
      PROVE  Lone(o) /\ torrentOf[o] # t
  <2>1. phase[o] # "gone" /\ torrentOf[o] \notin spoiled'
    BY <1>1, <1>7 DEF Lone
  <2> QED  BY <1>2, <1>4, <2>1 DEF Lone
<1>8. LoneOK'
  <2> SUFFICES ASSUME NEW o \in Objects', Lone(o)' PROVE Recorded(o)'
    BY DEF LoneOK
  <2>1. CASE o = n
    <3>1. t \notin spoiled'
      BY <1>1, <2>1 DEF Lone
    <3> QED  BY <1>1, <1>2, <1>4, <1>6, <2>1, <3>1 DEF Recorded
  <2>2. CASE o \in Objects
    <3>1. Lone(o) /\ torrentOf[o] # t /\ Recorded(o)
      BY <1>3, <1>7, <2>2 DEF LoneOK
    <3> QED  BY <1>1, <1>2, <1>4, <2>2, <3>1 DEF Recorded
  <2> QED  BY <1>1, <2>1, <2>2
<1>9. KeptOK'
  <2> SUFFICES ASSUME NEW o \in Objects', NEW p \in Pieces, Lone(o)', Using(o)',
                      p \in verified'[torrentOf'[o]], m_file_data'[o][p] = "good"
               PROVE  state'[o][p] \in OnItsWay
    BY DEF KeptOK, OnItsWay
  <2>1. o \in Objects
    BY <1>1 DEF Nothing
  <2>2. Lone(o) /\ Using(o)
    BY <1>1, <1>7, <2>1 DEF Using
  <2> QED  BY <1>1, <1>2, <1>3, <2>1, <2>2 DEF KeptOK
<1>10. OfferedOK'
  BY <1>1, <1>3 DEF OfferedOK, Using
<1> QED  BY <1>5, <1>8, <1>9, <1>10 DEF SavedInv

\* Every step keeps what is verified on its way into the resume file.
LEMMA NextSaves ==
  ASSUME Inv, SavedInv, [Next]_vars
  PROVE  SavedInv'
<1>1. ASSUME NEW t \in Torrents, AddTorrent(t) PROVE SavedInv'
  BY <1>1, AddTorrentSaves
<1>2. ASSUME NEW n \in Objects, TorrentStep(n) PROVE SavedInv'
  BY <1>2, CheckResumeReads, ReleaseSaves, QuietCalls, MovesOnKeeps DEF TorrentStep
<1>3. ASSUME NEW n \in Objects, NEW p \in Pieces, PieceStep(n, p) PROVE SavedInv'
  BY <1>3, AddPieceSaves, DownloadSaves, QuietCalls, MovesOnKeeps DEF PieceStep
<1>4. ASSUME NEW b \in buffers, FreeBuffer(b) PROVE SavedInv'
  <2>1. MovesOn
    BY <1>4 DEF FreeBuffer, MovesOn, storageVars, historyVars, Using
  <2> QED  BY <2>1, MovesOnKeeps
<1>5. CASE RunHandler
  BY <1>5, QuietHandlers, MovesOnKeeps, HashVerifies, StopSaves DEF RunHandler
<1>6. CASE UNCHANGED vars
  <2>1. MovesOn
    BY <1>6 DEF vars, MovesOn, storageVars, sessionVars, historyVars, Using
  <2> QED  BY <2>1, MovesOnKeeps
<1> QED  BY <1>1, <1>2, <1>3, <1>4, <1>5, <1>6 DEF Next

\* What a torrent has verified is in its resume file when none of its storages is left,
\* unless it once had two storages, a flush of it failed, or its file came back as
\* something else (release_files, remove_torrent, check_resume_data).
THEOREM VerifiedAlwaysSaved == Spec => []VerifiedIsSaved
<1>1. Init => SavedInv
  BY DEF Init, Objects, SavedInv, VerifiedIsSaved, LoneOK, KeptOK, OfferedOK
<1>2. Inv /\ SavedInv /\ [Next]_vars => SavedInv'
  BY NextSaves
<1>3. SavedInv => VerifiedIsSaved
  BY DEF SavedInv
<1> QED  BY <1>1, <1>2, <1>3, InvAlways, PTL DEF Spec

-----------------------------------------------------------------------------
(* The disk interface as the session understands it.                       *)

\* What a call that waits may be.
CallsSeen == [call : {"check", "write", "read", "hash", "clear", "release", "stop", "other"},
              of : Nat, piece : Pieces, result : Contents]

\* A read that waits shows what is in its piece.
LEMMA ReadShows ==
  ASSUME Inv, NEW k \in DOMAIN m_ioc, m_ioc[k].call = "read"
  PROVE  Behind(m_ioc[k].pointer, m_ioc[k].piece) =
           IF m_ioc[k].pointer = 0 THEN "none" ELSE m_file_data[m_ioc[k].of][m_ioc[k].piece]
<1> DEFINE n == m_ioc[k].of
<1>1. m_ioc[k] \in Handler
  BY ElementOfSeq, LenProperties DEF Inv, TypeOK
<1>2. n \in Objects /\ phase[n] # "gone" /\ m_ioc[k].pointer \in {0, n}
  BY <1>1 DEF Inv, QueueOK, ReadsOK, Handler
<1>3. Alive(n)
  BY <1>2, OwnStorage
<1> QED  BY <1>2, <1>3 DEF Behind

\* So for all reads of the queue,
LEMMA ReadsShow ==
  Inv => \A k \in DOMAIN m_ioc : m_ioc[k].call = "read" =>
           Behind(m_ioc[k].pointer, m_ioc[k].piece) =
             IF m_ioc[k].pointer = 0 THEN "none" ELSE m_file_data[m_ioc[k].of][m_ioc[k].piece]
BY ReadShows

\* and after a step.
LEMMA ReadsShowNext ==
  Inv' => \A k \in DOMAIN m_ioc' : m_ioc'[k].call = "read" =>
            Behind(m_ioc[k].pointer, m_ioc[k].piece)' =
              IF m_ioc'[k].pointer = 0 THEN "none" ELSE m_file_data'[m_ioc'[k].of][m_ioc'[k].piece]
<1>1. (Inv => \A k \in DOMAIN m_ioc : m_ioc[k].call = "read" =>
                Behind(m_ioc[k].pointer, m_ioc[k].piece) =
                  IF m_ioc[k].pointer = 0 THEN "none" ELSE m_file_data[m_ioc[k].of][m_ioc[k].piece])'
  BY ReadsShow, PTL
<1> QED  BY <1>1

\* The calls not answered are as many as the handlers posted.
LEMMA WaitingSeq ==
  ASSUME Inv
  PROVE  Waiting \in Seq(CallsSeen) /\ Len(Waiting) = Len(m_ioc)
<1>1. /\ m_ioc \in Seq(Handler) /\ DOMAIN m_ioc = 1 .. Len(m_ioc) /\ Len(m_ioc) \in Nat
      /\ \A k \in DOMAIN m_ioc : m_ioc[k] \in Handler
  BY ElementOfSeq, LenProperties DEF Inv, TypeOK
<1>2. Objects \subseteq Nat
  BY Numbered DEF Inv
<1>3. \A k \in DOMAIN m_ioc : Waiting[k] \in CallsSeen
  <2> SUFFICES ASSUME NEW k \in DOMAIN m_ioc PROVE Waiting[k] \in CallsSeen
    OBVIOUS
  <2>1. m_ioc[k] \in Handler /\ m_ioc[k].of \in Objects /\ m_ioc[k].piece \in Pieces
    BY <1>1 DEF Handler
  <2>2. m_file_data[m_ioc[k].of][m_ioc[k].piece] \in Contents /\ "none" \in Contents
    BY <2>1 DEF Inv, TypeOK, Contents
  <2>3. CASE m_ioc[k].call = "read"
    <3>1. Behind(m_ioc[k].pointer, m_ioc[k].piece) \in Contents
      BY <2>2, <2>3, ReadShows
    <3> QED  BY <1>2, <2>1, <2>3, <3>1 DEF Waiting, CallsSeen, Handler
  <2>4. CASE m_ioc[k].call # "read"
    BY <1>2, <2>1, <2>4 DEF Waiting, CallsSeen, Handler
  <2> QED  BY <2>3, <2>4
<1>4. DOMAIN Waiting = 1 .. Len(m_ioc)
  BY <1>1 DEF Waiting
<1>5. Waiting = [k \in DOMAIN m_ioc |-> Waiting[k]]
  BY DEF Waiting
<1> HIDE DEF Waiting
<1>6. Waiting \in [1 .. Len(m_ioc) -> CallsSeen]
  BY <1>1, <1>3, <1>4, <1>5
<1> QED  BY <1>1, <1>6, LenProperties

\* So in a state,
LEMMA WaitingSeqNow == Inv => Waiting \in Seq(CallsSeen) /\ Len(Waiting) = Len(m_ioc)
BY WaitingSeq

\* and after a step.
LEMMA WaitingSeqNext == Inv' => Waiting' \in Seq(CallsSeen) /\ Len(Waiting') = Len(m_ioc')
<1>1. CallsSeen' = CallsSeen
  BY DEF CallsSeen, Contents
<1>2. (Inv => Waiting \in Seq(CallsSeen) /\ Len(Waiting) = Len(m_ioc))'
  BY WaitingSeqNow, PTL
<1> QED  BY <1>1, <1>2

\* A handler looks the same while what it would read is.
LEMMA LooksTheSame ==
  ASSUME Inv, Inv', NEW k \in DOMAIN m_ioc, NEW l \in DOMAIN m_ioc', m_ioc'[l] = m_ioc[k],
         m_ioc[k].call = "read" =>
           m_file_data'[m_ioc[k].of][m_ioc[k].piece] = m_file_data[m_ioc[k].of][m_ioc[k].piece]
  PROVE  Waiting'[l] = Waiting[k]
<1>1. Waiting[k] = [call |-> m_ioc[k].call, of |-> m_ioc[k].of, piece |-> m_ioc[k].piece,
                    result |-> IF m_ioc[k].call = "read"
                               THEN Behind(m_ioc[k].pointer, m_ioc[k].piece) ELSE m_ioc[k].result]
  BY DEF Waiting
<1>2. Waiting'[l] = [call |-> m_ioc[k].call, of |-> m_ioc[k].of, piece |-> m_ioc[k].piece,
                     result |-> IF m_ioc[k].call = "read"
                                THEN Behind(m_ioc[l].pointer, m_ioc[l].piece)' ELSE m_ioc[k].result]
  BY DEF Waiting
<1>3. CASE m_ioc[k].call = "read"
  <2>1. Behind(m_ioc[k].pointer, m_ioc[k].piece) =
          IF m_ioc[k].pointer = 0 THEN "none" ELSE m_file_data[m_ioc[k].of][m_ioc[k].piece]
    BY <1>3, ReadShows
  <2>2. Behind(m_ioc[l].pointer, m_ioc[l].piece)' =
          IF m_ioc'[l].pointer = 0 THEN "none" ELSE m_file_data'[m_ioc'[l].of][m_ioc'[l].piece]
    BY <1>3, ReadsShowNext
  <2> QED  BY <1>1, <1>2, <1>3, <2>1, <2>2
<1>4. CASE m_ioc[k].call # "read"
  BY <1>1, <1>2, <1>4
<1> QED  BY <1>3, <1>4

\* A call that joins the queue is a call of the session's interface, made now.
LEMMA CallSeen ==
  ASSUME Inv, Inv', NEW call, NEW n, NEW p, NEW pointer, NEW result,
         JoinsQueue(call, n, p, pointer, result),
         \A k \in DOMAIN m_ioc : m_ioc[k].call = "read" =>
           m_file_data'[m_ioc[k].of][m_ioc[k].piece] = m_file_data[m_ioc[k].of][m_ioc[k].piece],
         NEW r, r = IF call = "read"
                    THEN IF pointer = 0 THEN "none" ELSE m_file_data'[n][p]
                    ELSE result
  PROVE  Waiting' = Append(Waiting, [call |-> call, of |-> n, piece |-> p, result |-> r])
<1> DEFINE e == [call |-> call, of |-> n, piece |-> p, result |-> r]
<1>0. PICK new : new = Len(m_ioc) + 1
  OBVIOUS
<1>1. /\ DOMAIN m_ioc' = DOMAIN m_ioc \union {new} /\ new \notin DOMAIN m_ioc /\ new \in Nat
      /\ \A k \in DOMAIN m_ioc : m_ioc'[k] = m_ioc[k]
      /\ m_ioc'[new] = [call |-> call, of |-> n, piece |-> p, pointer |-> pointer, result |-> result]
      /\ m_ioc' \in Seq(Handler')
  BY <1>0 DEF JoinsQueue
<1>2. /\ Waiting \in Seq(CallsSeen) /\ Len(Waiting) = Len(m_ioc)
      /\ Waiting' \in Seq(CallsSeen) /\ Len(Waiting') = Len(m_ioc')
  BY WaitingSeqNow, WaitingSeqNext
<1>3. Len(m_ioc) \in Nat /\ DOMAIN m_ioc = 1 .. Len(m_ioc) /\ Len(m_ioc') = new
  <2>1. /\ Len(m_ioc) \in Nat /\ DOMAIN m_ioc = 1 .. Len(m_ioc)
        /\ Len(m_ioc') \in Nat /\ DOMAIN m_ioc' = 1 .. Len(m_ioc')
    BY <1>1, LenProperties DEF Inv, TypeOK
  <2>2. Len(m_ioc') >= new
    BY <1>1, <2>1
  <2>3. Len(m_ioc') \in DOMAIN m_ioc'
    BY <1>0, <2>1, <2>2
  <2>4. Len(m_ioc') <= new
    BY <1>0, <1>1, <2>1, <2>3
  <2>5. Len(m_ioc') \in Nat /\ new \in Nat
    BY <1>1, <2>1
  <2>6. \A a, b \in Nat : a >= b /\ a <= b => a = b
    OBVIOUS
  <2>7. Len(m_ioc') = new
    BY <2>2, <2>4, <2>5, <2>6
  <2> QED  BY <2>1, <2>7
<1>4. \A k \in DOMAIN m_ioc : Waiting'[k] = Waiting[k]
  BY <1>1, LooksTheSame
<1>5. Waiting'[new] = e
  <2>1. Waiting'[new] = [call |-> call, of |-> n, piece |-> p,
                         result |-> IF call = "read" THEN Behind(m_ioc[new].pointer, m_ioc[new].piece)'
                                    ELSE result]
    BY <1>1 DEF Waiting
  <2>2. call = "read" => Behind(m_ioc[new].pointer, m_ioc[new].piece)' = r
    <3>1. new \in DOMAIN m_ioc'
      BY <1>1
    <3>2. ASSUME call = "read"
          PROVE  Behind(m_ioc[new].pointer, m_ioc[new].piece)' =
                   IF m_ioc'[new].pointer = 0 THEN "none"
                   ELSE m_file_data'[m_ioc'[new].of][m_ioc'[new].piece]
      BY <1>1, <3>1, <3>2, ReadsShowNext
    <3> QED  BY <1>1, <3>2
  <2> QED  BY <2>1, <2>2
<1> HIDE DEF e
<1>6. e \in CallsSeen
  <2>1. new \in 1 .. Len(Waiting')
    BY <1>0, <1>2, <1>3
  <2> QED  BY <1>2, <1>5, <2>1, ElementOfSeq
<1>7. /\ Append(Waiting, e) \in Seq(CallsSeen)
      /\ Len(Append(Waiting, e)) = Len(Waiting) + 1
      /\ \A k \in 1 .. Len(Waiting) : Append(Waiting, e)[k] = Waiting[k]
      /\ Append(Waiting, e)[Len(Waiting) + 1] = e
  BY <1>2, <1>6, AppendProperties
<1>8. \A k \in 1 .. Len(Waiting') : Waiting'[k] = Append(Waiting, e)[k]
  BY <1>0, <1>2, <1>3, <1>4, <1>5, <1>7
<1>9. Len(Waiting') = Len(Append(Waiting, e))
  BY <1>0, <1>2, <1>3, <1>7
<1>10. Waiting' = Append(Waiting, e)
  BY <1>2, <1>7, <1>8, <1>9, SeqEqual
<1> QED  BY <1>10 DEF e

\* A handler that is run is the answer to the first call.
LEMMA AnswerSeen ==
  ASSUME Inv, Inv', NEW call, Runs(call),
         \A k \in DOMAIN m_ioc : k # 1 /\ m_ioc[k].call = "read" =>
           m_file_data'[m_ioc[k].of][m_ioc[k].piece] = m_file_data[m_ioc[k].of][m_ioc[k].piece]
  PROVE  /\ Waiting # <<>> /\ Waiting' = Tail(Waiting)
         /\ Head(Waiting).call = call /\ Head(Waiting).of = m_ioc[1].of
         /\ \A k \in 2 .. Len(Waiting) : k \in DOMAIN m_ioc /\ k # 1 /\ Waiting[k].of = m_ioc[k].of
<1>1. /\ Waiting \in Seq(CallsSeen) /\ Len(Waiting) = Len(m_ioc)
      /\ Waiting' \in Seq(CallsSeen) /\ Len(Waiting') = Len(m_ioc')
  BY WaitingSeqNow, WaitingSeqNext
<1>2. /\ m_ioc \in Seq(Handler) /\ m_ioc # <<>> /\ m_ioc' = Tail(m_ioc)
      /\ Len(m_ioc) \in Nat /\ DOMAIN m_ioc = 1 .. Len(m_ioc)
  BY LenProperties DEF Inv, TypeOK, Runs
<1>3. Len(m_ioc) # 0
  BY <1>2, EmptySeq
<1>4. Len(m_ioc') = Len(m_ioc) - 1 /\ m_ioc' \in Seq(Handler)
      /\ \A k \in 1 .. Len(m_ioc') : m_ioc'[k] = m_ioc[k + 1]
  BY <1>2, HeadTailProperties
<1>5. DOMAIN m_ioc' = 1 .. Len(m_ioc')
  BY <1>4, LenProperties
<1>6. Waiting # <<>>
  BY <1>1, <1>3
<1>7. /\ Head(Waiting) = Waiting[1] /\ Tail(Waiting) \in Seq(CallsSeen)
      /\ Len(Tail(Waiting)) = Len(Waiting) - 1
      /\ \A k \in 1 .. Len(Tail(Waiting)) : Tail(Waiting)[k] = Waiting[k + 1]
  BY <1>1, <1>6, HeadTailProperties
<1>8. ASSUME NEW k \in 1 .. Len(m_ioc') PROVE Waiting'[k] = Waiting[k + 1]
  <2>1. k \in DOMAIN m_ioc' /\ k + 1 \in DOMAIN m_ioc /\ k + 1 # 1 /\ m_ioc'[k] = m_ioc[k + 1]
    BY <1>2, <1>4, <1>5, <1>8
  <2> QED  BY <2>1, LooksTheSame
<1>9. Waiting' = Tail(Waiting)
  <2>1. Len(Waiting') = Len(Tail(Waiting))
    BY <1>1, <1>4, <1>7
  <2>2. \A k \in 1 .. Len(Waiting') : Waiting'[k] = Tail(Waiting)[k]
    BY <1>1, <1>7, <1>8, <2>1
  <2> QED  BY <1>1, <1>7, <2>1, <2>2, SeqEqual
<1>10. \A k \in DOMAIN m_ioc : Waiting[k].call = m_ioc[k].call /\ Waiting[k].of = m_ioc[k].of
  BY DEF Waiting
<1>11. 1 \in DOMAIN m_ioc /\ m_ioc[1].call = call
  BY Ran DEF Inv
<1>12. \A k \in 2 .. Len(Waiting) : k \in DOMAIN m_ioc /\ k # 1
  BY <1>1, <1>2
<1> QED  BY <1>6, <1>7, <1>9, <1>10, <1>11, <1>12

\* What a call or a handler that leaves the storages alone leaves of the interface.
LEMMA ShownStays ==
  ASSUME UNCHANGED <<torrentOf, m_file_data, m_invalid>>,
         \A n \in Objects : phase'[n] = "gone" <=> phase[n] = "gone"
  PROVE  InUse' = InUse /\ Shown' = Shown
<1>1. Objects' = Objects
  BY DEF Objects
<1>2. \A n \in Objects, p \in Pieces : Readable(n, p)' <=> Readable(n, p)
  BY DEF Readable
<1>3. InUse' = InUse
  BY <1>1 DEF InUse
<1>4. \A n \in Objects : [p \in Pieces |-> IF phase[n] # "gone" /\ Readable(n, p)
                                           THEN m_file_data[n][p] ELSE "none"]'
                       = [p \in Pieces |-> IF phase[n] # "gone" /\ Readable(n, p)
                                           THEN m_file_data[n][p] ELSE "none"]
  BY <1>2
<1>5. Shown' = Shown
  BY <1>1, <1>4 DEF Shown
<1> QED  BY <1>3, <1>5

\* Reads, hashes and the calls about no piece are answered with what there is now.
LEMMA AskImplemented ==
  ASSUME Inv, Inv', NEW call \in {"read", "hash", "stop", "release", "other"},
         NEW n \in Objects, NEW p \in Pieces, NEW pointer, NEW result,
         phase[n] # "gone", JoinsQueue(call, n, p, pointer, result),
         UNCHANGED <<torrentOf, m_file_data, m_invalid>>,
         \A o \in Objects : phase'[o] = "gone" <=> phase[o] = "gone",
         call = "read" => pointer = readv(n, p),
         call = "hash" => Readable(n, p) /\ result = m_file_data[n][p],
         call \notin {"read", "hash"} => result = "none"
  PROVE  Disk!Ask
<1> DEFINE r == IF call \in {"read", "hash"} THEN Shown[n][p] ELSE "none"
<1>1. InUse' = InUse /\ Shown' = Shown /\ n \in InUse
  BY ShownStays DEF InUse
<1>2. Shown[n][p] = IF Readable(n, p) THEN m_file_data[n][p] ELSE "none"
  BY DEF Shown
<1>3. n # 0
  BY Numbered DEF Inv
<1>4. r = IF call = "read" THEN IF pointer = 0 THEN "none" ELSE m_file_data'[n][p] ELSE result
  BY <1>2, <1>3 DEF readv
<1> HIDE DEF r
<1>5. Waiting' = Append(Waiting, [call |-> call, of |-> n, piece |-> p, result |-> r])
  BY <1>4, CallSeen
<1> QED  BY <1>1, <1>5 DEF Disk!Ask, Disk!Asked, r

\* A table of pieces.
Table(f, D) == f = [n \in D |-> [p \in Pieces |-> f[n][p]]]

\* What it takes for one piece to change in it.
LEMMA OnePieceChanges ==
  ASSUME NEW D, NEW f, Table(f, D), NEW g, Table(g, D), NEW n \in D, NEW p \in Pieces, NEW c,
         \A o \in D, q \in Pieces : g[o][q] = IF o = n /\ q = p THEN c ELSE f[o][q]
  PROVE  g = [f EXCEPT ![n][p] = c]
<1>1. /\ f = [o \in D |-> f[o]] /\ \A o \in D : f[o] = [q \in Pieces |-> f[o][q]]
      /\ g = [o \in D |-> g[o]] /\ \A o \in D : g[o] = [q \in Pieces |-> g[o][q]]
  BY DEF Table
<1>2. \A o \in D : o # n => g[o] = f[o]
  <2> SUFFICES ASSUME NEW o \in D, o # n PROVE g[o] = f[o]
    OBVIOUS
  <2>1. \A q \in Pieces : g[o][q] = f[o][q]
    OBVIOUS
  <2>2. [q \in Pieces |-> g[o][q]] = [q \in Pieces |-> f[o][q]]
    BY <2>1
  <2> QED  BY <1>1, <2>2
<1>3. g[n] = [f[n] EXCEPT ![p] = c]
  <2> DEFINE e == f[n]
  <2>1. e = [q \in Pieces |-> e[q]] /\ g[n] = [q \in Pieces |-> g[n][q]]
    BY <1>1
  <2>2. \A q \in Pieces : g[n][q] = IF q = p THEN c ELSE e[q]
    OBVIOUS
  <2> HIDE DEF e
  <2>3. g[n] = [e EXCEPT ![p] = c]
    BY <2>1, <2>2
  <2> QED  BY <2>3 DEF e
<1> DEFINE h == g[n]
<1> HIDE DEF h
<1>4. g = [f EXCEPT ![n] = h]
  BY <1>1, <1>2 DEF h
<1> QED  BY <1>3, <1>4 DEF h

\* What is written is there at once.
LEMMA WriteImplemented ==
  ASSUME Inv, Inv', NEW n \in Objects, NEW p \in Pieces, NEW c \in {"good", "bad"},
         PieceIs(n, p, "absent"), async_write(n, p, c),
         UNCHANGED <<torrentOf, phase>>
  PROVE  Disk!Write
<1>1. TypeOK /\ ReadsOK /\ phase[n] = "active" /\ state[n][p] = "absent" /\ StorageOf(n) = n
  BY OwnStorage DEF Inv, PieceIs
<1>2. /\ m_file_data' = [m_file_data EXCEPT ![n][p] = c]
      /\ m_invalid' = [m_invalid EXCEPT ![n] = @ \ {p}]
      /\ Post("write", n, p, 0, "none")
  BY <1>1 DEF async_write, writev
<1>3. JoinsQueue("write", n, p, 0, "none")
  BY <1>1, <1>2, Called DEF Contents
<1>4. Objects' = Objects /\ n \in InUse /\ InUse' = InUse
  BY <1>1 DEF Objects, InUse
<1>5. \A o \in Objects, q \in Pieces :
        /\ m_file_data'[o][q] = IF o = n /\ q = p THEN c ELSE m_file_data[o][q]
        /\ q \in m_invalid'[o] <=> q \in m_invalid[o] /\ ~(o = n /\ q = p)
  BY <1>1, <1>2 DEF TypeOK
<1>6. \A k \in DOMAIN m_ioc : m_ioc[k].of \in Objects /\ m_ioc[k].piece \in Pieces
  BY <1>3 DEF JoinsQueue, Handler
<1>7. \A k \in DOMAIN m_ioc : m_ioc[k].call = "read" =>
        m_file_data'[m_ioc[k].of][m_ioc[k].piece] = m_file_data[m_ioc[k].of][m_ioc[k].piece]
  BY <1>1, <1>5, <1>6 DEF ReadsOK, Using
<1>8. Waiting' = Append(Waiting, [call |-> "write", of |-> n, piece |-> p, result |-> "none"])
  BY <1>3, <1>7, CallSeen
<1>9. Shown' = [Shown EXCEPT ![n][p] = c]
  <2>1. \A o \in Objects, q \in Pieces : ~(o = n /\ q = p) => Readable(o, q)' = Readable(o, q)
    BY <1>5 DEF Readable
  <2>2. Readable(n, p)' /\ m_file_data'[n][p] = c /\ phase'[n] # "gone"
    BY <1>1, <1>5 DEF Readable
  <2>3. ASSUME NEW o \in Objects, NEW q \in Pieces
        PROVE  (IF phase[o] # "gone" /\ Readable(o, q) THEN m_file_data[o][q] ELSE "none")'
               = IF o = n /\ q = p THEN c
                 ELSE IF phase[o] # "gone" /\ Readable(o, q) THEN m_file_data[o][q] ELSE "none"
    BY <1>5, <2>1, <2>2, <2>3
  <2>4. Shown' = [o \in Objects |-> [q \in Pieces |->
                   IF o = n /\ q = p THEN c
                   ELSE IF phase[o] # "gone" /\ Readable(o, q) THEN m_file_data[o][q] ELSE "none"]]
    BY <1>4, <2>3 DEF Shown
  <2>5. Table(Shown, Objects) /\ Table(Shown', Objects)
    BY <2>4 DEF Shown, Table
  <2>6. \A o \in Objects, q \in Pieces : Shown'[o][q] = IF o = n /\ q = p THEN c ELSE Shown[o][q]
    BY <2>4 DEF Shown
  <2> QED  BY <2>5, <2>6, OnePieceChanges
<1> QED  BY <1>4, <1>8, <1>9 DEF Disk!Write, Disk!Asked

\* What is cleared is not shown any more.
LEMMA ClearImplemented ==
  ASSUME Inv, Inv', NEW n \in Objects, NEW p \in Pieces, ClearPiece(n, p)
  PROVE  Disk!Clear
<1>1. TypeOK /\ phase[n] = "active" /\ StorageOf(n) = n
  BY OwnStorage DEF Inv, PieceIs, ClearPiece
<1>2. /\ m_invalid' = [m_invalid EXCEPT ![n] = @ \union {p}]
      /\ Post("clear", n, p, 0, "none")
      /\ UNCHANGED <<m_file_data, torrentOf, phase>>
  BY <1>1 DEF ClearPiece, async_clear_piece, clear_piece
<1>3. JoinsQueue("clear", n, p, 0, "none")
  BY <1>1, <1>2, Called DEF Contents
<1>4. Objects' = Objects /\ n \in InUse /\ InUse' = InUse
  BY <1>1, <1>2 DEF Objects, InUse
<1>5. \A o \in Objects, q \in Pieces :
        q \in m_invalid'[o] <=> q \in m_invalid[o] \/ (o = n /\ q = p)
  BY <1>1, <1>2 DEF TypeOK
<1>6. Waiting' = Append(Waiting, [call |-> "clear", of |-> n, piece |-> p, result |-> "none"])
  BY <1>2, <1>3, CallSeen
<1>7. Shown' = [Shown EXCEPT ![n][p] = "none"]
  <2>1. \A o \in Objects, q \in Pieces : Readable(o, q)' <=> Readable(o, q) /\ ~(o = n /\ q = p)
    BY <1>2, <1>5 DEF Readable
  <2>2. ASSUME NEW o \in Objects, NEW q \in Pieces
        PROVE  (IF phase[o] # "gone" /\ Readable(o, q) THEN m_file_data[o][q] ELSE "none")'
               = IF o = n /\ q = p THEN "none"
                 ELSE IF phase[o] # "gone" /\ Readable(o, q) THEN m_file_data[o][q] ELSE "none"
    BY <1>2, <2>1, <2>2
  <2>3. Shown' = [o \in Objects |-> [q \in Pieces |->
                   IF o = n /\ q = p THEN "none"
                   ELSE IF phase[o] # "gone" /\ Readable(o, q) THEN m_file_data[o][q] ELSE "none"]]
    BY <1>4, <2>2 DEF Shown
  <2>4. Table(Shown, Objects) /\ Table(Shown', Objects)
    BY <2>3 DEF Shown, Table
  <2>5. \A o \in Objects, q \in Pieces : Shown'[o][q] = IF o = n /\ q = p THEN "none" ELSE Shown[o][q]
    BY <2>3 DEF Shown
  <2> QED  BY <2>4, <2>5, OnePieceChanges
<1> QED  BY <1>2, <1>4, <1>6, <1>7 DEF Disk!Clear, Disk!Asked

\* A torrent that is added opens a storage with nothing in it.
LEMMA OpenImplemented ==
  ASSUME Inv, Inv', NEW t \in Torrents, AddTorrent(t)
  PROVE  Disk!Open
<1>0. PICK n : n = Len(torrentOf) + 1
  OBVIOUS
<1>1. /\ \A o \in Objects : torrentOf'[o] = torrentOf[o]
      /\ n \notin Objects /\ Objects' = Objects \union {n}
      /\ phase'[n] = "checking" /\ \A o \in Objects : phase'[o] = phase[o]
      /\ m_file_data'[n] = Nothing /\ \A o \in Objects : m_file_data'[o] = m_file_data[o]
      /\ \A o \in Objects : m_invalid'[o] = m_invalid[o]
      /\ torrentOf' = Append(torrentOf, t)
  BY <1>0, AddTorrentEffects DEF AddTorrent
<1>2. TypeOK /\ Len(torrentOf) \in Nat /\ Objects = 1 .. Len(torrentOf)
  BY Numbered DEF Inv
<1>3. JoinsQueue("check", n, AnyPiece, 0, "none")
  <2>1. \A k \in DOMAIN m_ioc : m_ioc[k] \in Handler
    BY <1>2, ElementOfSeq, LenProperties DEF TypeOK
  <2> QED  BY <1>0, <2>1, AddTorrentPosts DEF JoinsQueue
<1>4. \A k \in DOMAIN m_ioc : m_ioc[k].of \in Objects
  BY <1>3 DEF JoinsQueue, Handler
<1>5. Waiting' = Append(Waiting, [call |-> "check", of |-> n, piece |-> AnyPiece, result |-> "none"])
  BY <1>1, <1>3, <1>4, CallSeen
<1>6. InUse' = InUse \union {n}
  BY <1>1 DEF InUse
<1>7. Shown' = Append(Shown, [p \in Pieces |-> "none"])
  <2> DEFINE e == [p \in Pieces |-> "none"]
  <2>1. \A o \in Objects, p \in Pieces : Readable(o, p)' = Readable(o, p)
    BY <1>1 DEF Readable
  <2>2. \A p \in Pieces : ~Readable(n, p)'
    BY <1>1 DEF Readable, Nothing
  <2>3. Shown'[n] = e
    BY <1>1, <2>2 DEF Shown
  <2>4. ASSUME NEW o \in Objects PROVE Shown'[o] = Shown[o]
    BY <1>1, <2>1 DEF Shown
  <2>5. DOMAIN Shown = 1 .. Len(torrentOf) /\ DOMAIN Shown' = 1 .. n
    BY <1>0, <1>1, <1>2 DEF Shown
  <2>6. /\ Shown = [o \in 1 .. Len(torrentOf) |-> Shown[o]]
        /\ Shown' = [o \in 1 .. n |-> Shown'[o]]
    BY <1>0, <1>1, <1>2 DEF Shown
  <2> HIDE DEF e
  <2> DEFINE S == {Shown[o] : o \in Objects} \union {e}
  <2>7. Shown \in [1 .. Len(torrentOf) -> S] /\ Shown' \in [1 .. n -> S] /\ e \in S
    BY <1>0, <1>1, <1>2, <2>3, <2>4, <2>5, <2>6
  <2> HIDE DEF S
  <2>8. /\ Shown \in Seq(S) /\ Len(Shown) = Len(torrentOf)
        /\ Shown' \in Seq(S) /\ Len(Shown') = n
    BY <1>0, <1>2, <2>7, LenProperties
  <2>9. /\ Append(Shown, e) \in Seq(S)
        /\ Len(Append(Shown, e)) = n
        /\ \A o \in 1 .. Len(torrentOf) : Append(Shown, e)[o] = Shown[o]
        /\ Append(Shown, e)[n] = e
    BY <1>0, <2>7, <2>8, AppendProperties
  <2>10. \A o \in 1 .. n : Shown'[o] = Append(Shown, e)[o]
    BY <1>0, <1>2, <2>3, <2>4, <2>9
  <2>11. Shown' = Append(Shown, e)
    BY <2>8, <2>9, <2>10, SeqEqual
  <2> QED  BY <2>11 DEF e
<1> QED  BY <1>0, <1>1, <1>5, <1>6, <1>7 DEF Disk!Open, AnyPiece

\* A handler that gives no storage up is an answer.
LEMMA AnswerImplemented ==
  ASSUME Inv, Inv', NEW call, Runs(call), call # "stop",
         UNCHANGED <<torrentOf, m_file_data, m_invalid>>,
         \A n \in Objects : phase'[n] = "gone" <=> phase[n] = "gone"
  PROVE  Disk!Answer
<1>1. InUse' = InUse /\ Shown' = Shown
  BY ShownStays
<1>2. Waiting # <<>> /\ Waiting' = Tail(Waiting) /\ Head(Waiting).call = call
  BY AnswerSeen
<1> QED  BY <1>1, <1>2 DEF Disk!Answer

\* The handler of a stop is the last answer and gives the storage up.
LEMMA CloseImplemented ==
  ASSUME Inv, Inv', StopHandler
  PROVE  Disk!Close
<1>1. PICK n \in Objects : n = m_ioc[1].of
  BY StopHandlerEffects
<1>2. /\ phase[n] = "stopping" /\ Runs("stop")
      /\ \A k \in DOMAIN m_ioc : k # 1 => m_ioc[k].of # n
      /\ m_file_data' = [m_file_data EXCEPT ![n] = Nothing]
      /\ m_invalid' = [m_invalid EXCEPT ![n] = {}]
      /\ phase' = [phase EXCEPT ![n] = "gone"]
      /\ torrentOf' = torrentOf
  BY <1>1, StopHandlerEffects
<1>3. TypeOK /\ Objects' = Objects
  BY <1>2 DEF Inv, Objects
<1>4. \A o \in Objects : /\ phase'[o] = IF o = n THEN "gone" ELSE phase[o]
                         /\ o # n => m_file_data'[o] = m_file_data[o] /\ m_invalid'[o] = m_invalid[o]
  BY <1>2, <1>3 DEF TypeOK
<1>5. /\ Waiting # <<>> /\ Waiting' = Tail(Waiting)
      /\ Head(Waiting).call = "stop" /\ Head(Waiting).of = n
      /\ \A k \in 2 .. Len(Waiting) : Waiting[k].of # n
  <2>1. \A k \in DOMAIN m_ioc : k # 1 => m_ioc[k].of \in Objects /\ m_ioc[k].of # n
    <3>1. \A k \in DOMAIN m_ioc : m_ioc[k] \in Handler
      BY <1>3, ElementOfSeq, LenProperties DEF TypeOK
    <3> QED  BY <1>2, <3>1 DEF Handler
  <2>2. \A k \in DOMAIN m_ioc : k # 1 /\ m_ioc[k].call = "read" =>
          m_file_data'[m_ioc[k].of][m_ioc[k].piece] = m_file_data[m_ioc[k].of][m_ioc[k].piece]
    BY <1>4, <2>1
  <2>3. /\ Waiting # <<>> /\ Waiting' = Tail(Waiting)
        /\ Head(Waiting).call = "stop" /\ Head(Waiting).of = m_ioc[1].of
        /\ \A k \in 2 .. Len(Waiting) : k \in DOMAIN m_ioc /\ k # 1 /\ Waiting[k].of = m_ioc[k].of
    BY <1>2, <2>2, AnswerSeen
  <2> QED  BY <1>1, <2>1, <2>3
<1>6. n \in InUse /\ InUse' = InUse \ {n}
  BY <1>2, <1>3, <1>4 DEF InUse
<1>7. Shown' = [Shown EXCEPT ![n] = [p \in Pieces |-> "none"]]
  <2>1. \A o \in Objects, p \in Pieces : o # n => Readable(o, p)' = Readable(o, p)
    BY <1>4 DEF Readable
  <2>2. ASSUME NEW o \in Objects, NEW p \in Pieces
        PROVE  (IF phase[o] # "gone" /\ Readable(o, p) THEN m_file_data[o][p] ELSE "none")'
               = IF o = n THEN "none"
                 ELSE IF phase[o] # "gone" /\ Readable(o, p) THEN m_file_data[o][p] ELSE "none"
    BY <1>4, <2>1, <2>2
  <2>3. Shown' = [o \in Objects |-> [p \in Pieces |->
                   IF o = n THEN "none"
                   ELSE IF phase[o] # "gone" /\ Readable(o, p) THEN m_file_data[o][p] ELSE "none"]]
    BY <1>3, <2>2 DEF Shown
  <2> QED  BY <2>3 DEF Shown
<1> QED  BY <1>2, <1>5, <1>6, <1>7 DEF Disk!Close

\* A hash is of a piece that is written and shown.
LEMMA HashImplemented ==
  ASSUME Inv, Inv', NEW n \in Objects, NEW p \in Pieces, HashPiece(n, p)
  PROVE  Disk!Ask
<1>1. /\ phase[n] = "active" /\ state[n][p] = "written" /\ StorageOf(n) = n
      /\ TypeOK /\ PiecesOK
  BY OwnStorage DEF Inv, HashPiece, PieceIs
<1>2. /\ Post("hash", n, p, 0, m_file_data[n][p])
      /\ UNCHANGED <<torrentOf, m_file_data, m_invalid, phase>>
  BY <1>1 DEF HashPiece, async_hash, hash, storageVars
<1>3. m_file_data[n][p] \in Contents
  BY <1>1 DEF TypeOK
<1>4. JoinsQueue("hash", n, p, 0, m_file_data[n][p])
  BY <1>1, <1>2, <1>3, Called
<1>5. Readable(n, p)
  BY <1>1 DEF PiecesOK, Using, Readable
<1> QED  BY <1>1, <1>2, <1>4, <1>5, AskImplemented

\* A read is answered with the content of the moment of the call.
LEMMA ReadImplemented ==
  ASSUME Inv, Inv', NEW n \in Objects, NEW p \in Pieces, ReadPiece(n, p)
  PROVE  Disk!Ask
<1>1. phase[n] = "active" /\ StorageOf(n) = n /\ TypeOK
  BY OwnStorage DEF Inv, ReadPiece, PieceIs
<1>2. /\ Post("read", n, p, readv(n, p), "none")
      /\ UNCHANGED <<torrentOf, m_file_data, m_invalid, phase>>
  BY <1>1 DEF ReadPiece, async_read, storageVars, sessionVars
<1>3. readv(n, p) \in Objects \union {0} /\ "none" \in Contents
  BY DEF readv, Contents
<1>4. JoinsQueue("read", n, p, readv(n, p), "none")
  BY <1>1, <1>2, <1>3, Called
<1> QED  BY <1>1, <1>2, <1>4, AskImplemented

\* A call about no piece.
LEMMA PlainCallImplemented ==
  ASSUME Inv, Inv', NEW call \in {"stop", "release", "other"}, NEW n \in Objects,
         phase[n] # "gone", Post(call, n, AnyPiece, 0, "none"),
         UNCHANGED <<torrentOf, m_file_data, m_invalid>>,
         \A o \in Objects : phase'[o] = "gone" <=> phase[o] = "gone"
  PROVE  Disk!Ask
<1>1. TypeOK /\ AnyPiece \in Pieces
  BY DiskAssumption DEF Inv, AnyPiece
<1>2. JoinsQueue(call, n, AnyPiece, 0, "none")
  BY <1>1, Called DEF Contents
<1> QED  BY <1>1, <1>2, AskImplemented

\* What posts and runs nothing and touches no storage.
LEMMA QuietStep ==
  ASSUME Inv, Inv', UNCHANGED <<m_ioc, torrentOf, m_file_data, m_invalid, phase>>
  PROVE  UNCHANGED Disk!vars
<1>1. InUse' = InUse /\ Shown' = Shown
  BY ShownStays
<1>2. /\ Waiting \in Seq(CallsSeen) /\ Len(Waiting) = Len(m_ioc)
      /\ Waiting' \in Seq(CallsSeen) /\ Len(Waiting') = Len(m_ioc')
  BY WaitingSeqNow, WaitingSeqNext
<1>3. \A k \in DOMAIN m_ioc : Waiting'[k] = Waiting[k]
  BY LooksTheSame
<1>4. DOMAIN m_ioc = 1 .. Len(Waiting)
  BY <1>2, LenProperties DEF Inv, TypeOK
<1>5. Waiting' = Waiting
  BY <1>2, <1>3, <1>4, SeqEqual
<1> QED  BY <1>1, <1>5 DEF Disk!vars

\* The calls about no piece are asked, or show the session nothing.
LEMMA TorrentStepImplemented ==
  ASSUME Inv, Inv', NEW n \in Objects, TorrentStep(n)
  PROVE  [Disk!Next]_(Disk!vars)
<1>1. CASE check_resume_data(n)
  BY <1>1, QuietStep DEF check_resume_data, storageVars
<1>2. CASE RemoveTorrent(n)
  <2>1. /\ Post("stop", n, AnyPiece, 0, "none") /\ phase[n] = "active"
        /\ UNCHANGED <<torrentOf, m_file_data, m_invalid>>
        /\ phase' = [phase EXCEPT ![n] = "stopping"]
    BY <1>2 DEF RemoveTorrent, async_stop_torrent, storageVars
  <2>2. \A o \in Objects : phase'[o] = "gone" <=> phase[o] = "gone"
    BY <2>1 DEF Inv, TypeOK
  <2> QED  BY <2>1, <2>2, PlainCallImplemented DEF Disk!Next
<1>3. CASE ReleaseFiles(n)
  <2>1. /\ UNCHANGED <<torrentOf, m_file_data, m_invalid, phase>> /\ phase[n] = "active"
        /\ Post("release", n, AnyPiece, 0, "none") \/ UNCHANGED m_ioc
    BY <1>3 DEF ReleaseFiles, async_release_files, sessionVars
  <2>2. CASE Post("release", n, AnyPiece, 0, "none")
    BY <2>1, <2>2, PlainCallImplemented DEF Disk!Next
  <2>3. CASE UNCHANGED m_ioc
    BY <2>1, <2>3, QuietStep
  <2> QED  BY <2>1, <2>2, <2>3
<1>4. CASE OtherCall(n)
  <2>1. /\ UNCHANGED <<torrentOf, m_file_data, m_invalid, phase>> /\ phase[n] = "active"
        /\ Post("other", n, AnyPiece, 0, "none")
    BY <1>4 DEF OtherCall, async_other, storageVars, sessionVars
  <2> QED  BY <2>1, PlainCallImplemented DEF Disk!Next
<1> QED  BY <1>1, <1>2, <1>3, <1>4 DEF TorrentStep

\* The calls about a piece do what the interface promises of them.
LEMMA PieceStepImplemented ==
  ASSUME Inv, Inv', NEW n \in Objects, NEW p \in Pieces, PieceStep(n, p)
  PROVE  Disk!Next
<1>1. CASE AddPiece(n, p)
  <2>1. PICK c \in {"good", "bad"} : c = offered[n][p]
    BY <1>1 DEF AddPiece
  <2>2. PieceIs(n, p, "absent") /\ async_write(n, p, c) /\ UNCHANGED <<torrentOf, phase>>
    BY <1>1, <2>1 DEF AddPiece
  <2> QED  BY <2>2, WriteImplemented DEF Disk!Next
<1>2. ASSUME NEW c \in {"good", "bad"}, Download(n, p, c) PROVE Disk!Next
  <2>1. PieceIs(n, p, "absent") /\ async_write(n, p, c) /\ UNCHANGED <<torrentOf, phase>>
    BY <1>2 DEF Download
  <2> QED  BY <2>1, WriteImplemented DEF Disk!Next
<1>3. CASE HashPiece(n, p)
  BY <1>3, HashImplemented DEF Disk!Next
<1>4. CASE ReadPiece(n, p)
  BY <1>4, ReadImplemented DEF Disk!Next
<1>5. CASE ClearPiece(n, p)
  BY <1>5, ClearImplemented DEF Disk!Next
<1> QED  BY <1>1, <1>2, <1>3, <1>4, <1>5 DEF PieceStep

\* Every handler is an answer.
LEMMA HandlerImplemented ==
  ASSUME Inv, Inv', RunHandler
  PROVE  Disk!Next
<1> USE DEF Disk!Next
<1>1. CASE CheckHandler
  <2>1. /\ Runs("check") /\ UNCHANGED <<torrentOf, m_file_data, m_invalid>>
        /\ phase' = [phase EXCEPT ![Head(m_ioc).of] = "active"]
    BY <1>1 DEF CheckHandler, storageVars
  <2>2. 1 \in DOMAIN m_ioc /\ Head(m_ioc) = m_ioc[1] /\ m_ioc[1].call = "check"
    BY <2>1, Ran DEF Inv
  <2>3. phase[m_ioc[1].of] # "gone"
    BY <2>2 DEF Inv, QueueOK
  <2>4. \A o \in Objects : phase'[o] = "gone" <=> phase[o] = "gone"
    BY <2>1, <2>2, <2>3 DEF Inv, TypeOK
  <2> QED  BY <2>1, <2>4, AnswerImplemented
<1>2. CASE WriteHandler
  BY <1>2, AnswerImplemented DEF WriteHandler, PieceHandler, storageVars
<1>3. CASE HashHandler
  BY <1>3, AnswerImplemented DEF HashHandler, storageVars
<1>4. CASE ReadHandler
  BY <1>4, AnswerImplemented DEF ReadHandler, storageVars
<1>5. CASE ClearHandler
  BY <1>5, AnswerImplemented DEF ClearHandler, PieceHandler, storageVars
<1>6. CASE StopHandler
  BY <1>6, CloseImplemented
<1>7. CASE OtherHandler
  <2>1. UNCHANGED <<torrentOf, m_file_data, m_invalid, phase>>
    BY <1>7 DEF OtherHandler, storageVars, sessionVars
  <2>2. PICK call \in {"release", "other"} : Runs(call)
    BY <1>7 DEF OtherHandler
  <2> QED  BY <2>1, <2>2, AnswerImplemented
<1> QED  BY <1>1, <1>2, <1>3, <1>4, <1>5, <1>6, <1>7 DEF RunHandler

\* Every step is a step of the disk interface or shows the session nothing.
LEMMA NextImplemented ==
  ASSUME Inv, Inv', [Next]_vars
  PROVE  [Disk!Next]_(Disk!vars)
<1>1. ASSUME NEW t \in Torrents, AddTorrent(t) PROVE Disk!Next
  BY <1>1, OpenImplemented DEF Disk!Next
<1>2. ASSUME NEW b \in buffers, FreeBuffer(b) PROVE UNCHANGED Disk!vars
  BY <1>2, QuietStep DEF FreeBuffer, storageVars
<1>3. CASE UNCHANGED vars
  BY <1>3, QuietStep DEF vars, storageVars, sessionVars
<1> QED  BY <1>1, <1>2, <1>3, TorrentStepImplemented, PieceStepImplemented, HandlerImplemented
         DEF Next

\* At first nothing is open and nothing asked.
LEMMA InitImplemented == Init => Disk!Init
<1> SUFFICES ASSUME Init PROVE Disk!Init
  OBVIOUS
<1>1. torrentOf = <<>> /\ m_ioc = <<>> /\ Objects = {}
  BY DEF Init, Objects
<1>2. InUse = {}
  BY <1>1 DEF InUse
<1>3. Shown = <<>>
  BY <1>1 DEF Shown
<1>4. Waiting = <<>>
  BY <1>1 DEF Waiting
<1> QED  BY <1>1, <1>2, <1>3, <1>4 DEF Disk!Init

\* The calls of the session are answered in their order, with the results of the moment
\* of the call although a read answers with a pointer, and no storage goes before its
\* last answer (ram_disk_io and ram_storage implement the interface they are given for).
THEOREM DiskImplemented == Spec => ImplementsDisk
<1>1. Inv /\ Inv' /\ [Next]_vars => [Disk!Next]_(Disk!vars)
  BY NextImplemented
<1> QED  BY <1>1, InitImplemented, InvAlways, PTL DEF ImplementsDisk, Disk!Spec, Spec

=============================================================================
