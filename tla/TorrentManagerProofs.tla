------------------------ MODULE TorrentManagerProofs -------------------------
(***************************************************************************)
(* Proofs about TorrentManager, for any number of torrents, files, clients *)
(* and requests.                                                           *)
(***************************************************************************)
EXTENDS TorrentManager, FiniteSetTheorems, SequenceTheorems, WellFoundedInduction, TLAPS

-----------------------------------------------------------------------------
(* The inductive invariant.                                                *)

\* An alert that hands a torrent object with its files to the manager.
Adds(al, h) == al.handle = h /\ al.kind \in {"added", "metadata"} /\ al.has_info

\* Where a torrent object that knows its files can be: in an alert, on a list of the
\* manager or in a request to remove it.
Place(where, i, h) ==
  \/ where = "alerts" /\ i \in DOMAIN alerts /\ Adds(alerts[i], h)
  \/ where = "popped" /\ i \in DOMAIN popped /\ Adds(popped[i], h)
  \/ where = "active" /\ i \in DOMAIN m_active_list /\ m_active_list[i] = h
  \/ where = "upload" /\ i \in DOMAIN m_upload_list /\ m_upload_list[i].handle = h
  \/ where = "remove" /\ i \in DOMAIN requests /\ requests[i].op = "remove" /\ requests[i].handle = h
Places == {"alerts", "popped", "active", "upload", "remove"}
Placed(h) == \E w \in Places, i \in Nat : Place(w, i, h)

\* No object in the session is without a place, but those nobody was told of.
AllPlaced == \A h \in (alive \intersect metadata) \ unheard : Placed(h)

\* The jobs are finitely many, alerts are popped for the loop over them only, and no
\* counter is too low.
JobsOK ==
  /\ IsFiniteSet(DOMAIN m_media_list)
  /\ pc # "alerts" => popped = <<>>
  /\ CounterCoversJobs

AddPending(t, i) == i \in DOMAIN requests /\ requests[i].op = "add" /\ requests[i].torrent = t
ObjectOf(t, h) == h \in DOMAIN torrentOf /\ torrentOf[h] = t

\* A torrent asked for at most once is added once, its object is in one place and is not
\* gone there, and jobs keep it on the active list.
AddedOnce(t) ==
  /\ \A i, k \in Nat : AddPending(t, i) /\ AddPending(t, k) => i = k
  /\ \A i \in Nat : AddPending(t, i) => requested[t] # <<>> /\ \A h \in Nat : ~ObjectOf(t, h)
  /\ \A h \in Nat : ObjectOf(t, h) => requested[t] # <<>>
  /\ \A g, h \in Nat : ObjectOf(t, g) /\ ObjectOf(t, h) => g = h
Unique(h) == \A v, w \in Places, i, k \in Nat : Place(v, i, h) /\ Place(w, k, h) => v = w /\ i = k
InOnePlace(h) ==
  /\ Placed(h) => h \in alive /\ h \in metadata
  /\ Unique(h)
  /\ JobsOf(h) # {} => \E i \in Nat : Place("active", i, h)

InAlert(h) == \E w \in {"alerts", "popped"}, i \in Nat : Place(w, i, h)

\* Its request to be uploaded, if the manager can recognise it, is remembered until its
\* object is handed over.
ToUpload(t) == Len(requested[t]) = 1 /\ Recognised(t, requested[t][1])

UploadPending(t) ==
  ToUpload(t) =>
    /\ \A i \in Nat : AddPending(t, i) => t \in m_pending_update
    /\ \A h \in Nat : ObjectOf(t, h) =>
         /\ JobsOf(h) = {}
         /\ h \notin metadata \/ InAlert(h)
              => t \in m_pending_update

Single(t) == Len(requested[t]) <= 1
SingleOK ==
  \A t \in Torrents : Single(t) =>
    /\ AddedOnce(t)
    /\ \A h \in Nat : ObjectOf(t, h) => InOnePlace(h)
    /\ UploadPending(t)

Inv == TypeOK /\ JobsOK /\ AllPlaced /\ SingleOK /\ EndsOnlyWhenAsked

-----------------------------------------------------------------------------
(* Sequences: where the elements are after an operation.                   *)

\* A longer sequence keeps its elements where they are.
LEMMA AppendIndex ==
  ASSUME NEW S, NEW q \in Seq(S), NEW e \in S
  PROVE  /\ Append(q, e) \in Seq(S)
         /\ \A i \in Nat : i \in DOMAIN Append(q, e) <=> i \in DOMAIN q \/ i = Len(q) + 1
         /\ \A i \in DOMAIN q : Append(q, e)[i] = q[i]
         /\ Append(q, e)[Len(q) + 1] = e
         /\ Len(q) + 1 \in Nat /\ Len(q) + 1 \notin DOMAIN q
         /\ DOMAIN q \subseteq Nat
<1>1. /\ Len(q) \in Nat /\ DOMAIN q = 1 .. Len(q)
  BY LenProperties
<1>2. /\ Append(q, e) \in Seq(S)
      /\ Len(Append(q, e)) = Len(q) + 1
      /\ \A i \in 1 .. Len(q) : Append(q, e)[i] = q[i]
      /\ Append(q, e)[Len(q) + 1] = e
  BY AppendProperties
<1>3. DOMAIN Append(q, e) = 1 .. Len(q) + 1
  BY <1>2, LenProperties
<1> QED
  BY <1>1, <1>2, <1>3

\* Without its head a sequence is the same, one place ahead.
LEMMA TailIndex ==
  ASSUME NEW S, NEW q \in Seq(S), q # <<>>
  PROVE  /\ Tail(q) \in Seq(S)
         /\ Head(q) = q[1] /\ 1 \in DOMAIN q /\ Head(q) \in S
         /\ \A i \in Nat : i \in DOMAIN Tail(q) <=> i # 0 /\ i + 1 \in DOMAIN q
         /\ \A i \in DOMAIN Tail(q) : Tail(q)[i] = q[i + 1]
         /\ \A i \in DOMAIN q : i \in Nat \ {0}
<1>1. /\ Len(q) \in Nat \ {0} /\ DOMAIN q = 1 .. Len(q)
  BY LenProperties, EmptySeq
<1>2. /\ Head(q) \in S /\ Tail(q) \in Seq(S)
      /\ Len(Tail(q)) = Len(q) - 1
      /\ \A i \in 1 .. Len(Tail(q)) : Tail(q)[i] = q[i + 1]
  BY HeadTailProperties
<1>3. DOMAIN Tail(q) = 1 .. Len(q) - 1
  BY <1>2, LenProperties
<1>4. Head(q) = q[1]
  OBVIOUS
<1> QED
  BY <1>1, <1>2, <1>3, <1>4

\* Without one element a sequence is the same up to it and one place ahead behind it.
LEMMA WithoutIndex ==
  ASSUME NEW S, NEW q \in Seq(S), NEW n \in DOMAIN q
  PROVE  /\ Without(q, n) \in Seq(S)
         /\ \A i \in Nat : i \in DOMAIN Without(q, n) <=>
              i # 0 /\ IF i < n THEN i \in DOMAIN q ELSE i + 1 \in DOMAIN q
         /\ \A i \in DOMAIN Without(q, n) :
              Without(q, n)[i] = IF i < n THEN q[i] ELSE q[i + 1]
         /\ n \in Nat \ {0}
<1>1. /\ Len(q) \in Nat /\ DOMAIN q = 1 .. Len(q) /\ n \in 1 .. Len(q)
  BY LenProperties
<1>2. \A i \in 1 .. Len(q) : q[i] \in S
  BY ElementOfSeq
<1> DEFINE front == SubSeq(q, 1, n - 1)
           back == SubSeq(q, n + 1, Len(q))
<1>3. /\ front \in Seq(S) /\ Len(front) = n - 1
      /\ \A i \in 1 .. n - 1 : front[i] = q[i]
  <2>1. \A i \in 1 .. n - 1 : q[i] \in S
    BY <1>1, <1>2
  <2>2. /\ front \in Seq(S)
        /\ Len(front) = IF 1 <= n - 1 THEN (n - 1) - 1 + 1 ELSE 0
        /\ \A i \in 1 .. (n - 1) - 1 + 1 : front[i] = q[1 + i - 1]
    BY <1>1, <2>1, SubSeqProperties
  <2> HIDE DEF front
  <2> QED
    BY <1>1, <2>2
<1>4. /\ back \in Seq(S) /\ Len(back) = Len(q) - n
      /\ \A i \in 1 .. Len(q) - n : back[i] = q[n + i]
  <2>1. \A i \in n + 1 .. Len(q) : q[i] \in S
    BY <1>1, <1>2
  <2>2. /\ back \in Seq(S)
        /\ Len(back) = IF n + 1 <= Len(q) THEN Len(q) - (n + 1) + 1 ELSE 0
        /\ \A i \in 1 .. Len(q) - (n + 1) + 1 : back[i] = q[(n + 1) + i - 1]
    BY <1>1, <2>1, SubSeqProperties
  <2> HIDE DEF back
  <2>3. Len(back) = Len(q) - n
    BY <1>1, <2>2
  <2>4. ASSUME NEW i \in 1 .. Len(q) - n PROVE back[i] = q[n + i]
    <3>1. i \in 1 .. Len(q) - (n + 1) + 1 /\ (n + 1) + i - 1 = n + i
      BY <1>1
    <3> QED
      BY <3>1, <2>2
  <2> QED
    BY <2>2, <2>3, <2>4
<1>5. Without(q, n) = front \o back
  BY DEF Without
<1> HIDE DEF front, back
<1>6. /\ Without(q, n) \in Seq(S)
      /\ Len(Without(q, n)) = Len(front) + Len(back)
      /\ \A i \in 1 .. Len(front) + Len(back) :
           Without(q, n)[i] = IF i <= Len(front) THEN front[i] ELSE back[i - Len(front)]
  <2>1. /\ front \o back \in Seq(S)
        /\ Len(front \o back) = Len(front) + Len(back)
        /\ \A i \in 1 .. Len(front) + Len(back) :
             (front \o back)[i] = IF i <= Len(front) THEN front[i] ELSE back[i - Len(front)]
    BY <1>3, <1>4, ConcatProperties
  <2> QED
    BY <2>1, <1>5
<1>7. DOMAIN Without(q, n) = 1 .. Len(q) - 1
  BY <1>1, <1>3, <1>4, <1>6, LenProperties
<1>8. \A i \in Nat : i \in DOMAIN Without(q, n) <=>
              i # 0 /\ IF i < n THEN i \in DOMAIN q ELSE i + 1 \in DOMAIN q
  BY <1>1, <1>7
<1>9. ASSUME NEW i \in DOMAIN Without(q, n)
      PROVE  Without(q, n)[i] = IF i < n THEN q[i] ELSE q[i + 1]
  <2>1. i \in 1 .. Len(q) - 1 /\ Len(front) + Len(back) = Len(q) - 1 /\ Len(front) = n - 1
    BY <1>1, <1>3, <1>4, <1>7
  <2>2. Without(q, n)[i] = IF i <= n - 1 THEN front[i] ELSE back[i - (n - 1)]
    BY <2>1, <1>6
  <2>3. CASE i < n
    BY <2>1, <2>2, <2>3, <1>1, <1>3
  <2>4. CASE ~(i < n)
    <3>1. i - (n - 1) \in 1 .. Len(q) - n /\ n + (i - (n - 1)) = i + 1
      BY <2>1, <2>4, <1>1
    <3>2. back[i - (n - 1)] = q[n + (i - (n - 1))]
      BY <3>1, <1>4
    <3> QED
      BY <2>1, <2>2, <2>4, <3>1, <3>2, <1>1
  <2> QED
    BY <2>3, <2>4
<1> QED
  BY <1>1, <1>6, <1>8, <1>9

-----------------------------------------------------------------------------
(* Jobs: those a torrent gets are new and as many as its files.            *)

\* A finite set of numbers has a largest one.
LEMMA LargestExists ==
  ASSUME NEW S, S \subseteq Nat, S # {}, IsFiniteSet(S)
  PROVE  \E m \in S : \A k \in S : m >= k
<1> DEFINE From(m) == {k \in S : k >= m}
           F == {From(m) : m \in S}
<1>1. F \subseteq FiniteSubsetsOf(S) /\ F # {}
  <2>1. ASSUME NEW m \in S PROVE From(m) \in FiniteSubsetsOf(S)
    <3>1. From(m) \in SUBSET S
      OBVIOUS
    <3> QED
      BY <3>1, FS_Subset DEF FiniteSubsetsOf
  <2> QED
    BY <2>1
<1>2. IsWellFoundedOn(StrictSubsetOrdering(S), FiniteSubsetsOf(S))
  BY FS_StrictSubsetOrderingWellFounded
<1>3. \E x \in F : \A y \in F : ~(<<y, x>> \in StrictSubsetOrdering(S))
  <2> HIDE DEF F
  <2> QED
    BY <1>1, <1>2, WFMin
<1>4. PICK m \in S : \A k \in S : ~(<<From(k), From(m)>> \in StrictSubsetOrdering(S))
  BY <1>3
<1>5. ASSUME NEW k \in S, ~(m >= k) PROVE FALSE
  <2>1. m \in Nat /\ k \in Nat
    OBVIOUS
  <2>2. From(k) \subseteq From(m) /\ m \in From(m) /\ m \notin From(k)
    <3>1. \A x \in S : x >= k => x >= m
      BY <1>5, <2>1
    <3>2. m >= m /\ ~(m >= k)
      BY <1>5, <2>1
    <3> QED
      BY <3>1, <3>2
  <2>3. From(k) \in SUBSET S /\ From(m) \in SUBSET S
    OBVIOUS
  <2> HIDE DEF From
  <2>4. <<From(k), From(m)>> \in StrictSubsetOrdering(S)
    BY <2>2, <2>3 DEF StrictSubsetOrdering
  <2> QED
    BY <2>4, <1>4
<1> QED
  BY <1>5

\* Max of a finite set that is not empty is in it and at least each of its numbers.
LEMMA MaxIsLargest ==
  ASSUME NEW S, S \subseteq Nat, S # {}, IsFiniteSet(S)
  PROVE  Max(S) \in S /\ \A k \in S : Max(S) >= k
BY LargestExists DEF Max

\* The numbers of finitely many jobs are finitely many.
LEMMA NumbersFinite ==
  ASSUME NEW S, IsFiniteSet(S)
  PROVE  IsFiniteSet({j.number : j \in S})
<1> DEFINE N == {j.number : j \in S}
           f == [j \in S |-> j.number]
<1>1. f \in Surjection(S, N)
  BY DEF Surjection
<1> QED
  BY <1>1, FS_Surjection

\* The jobs with consecutive numbers are as many as the numbers.
LEMMA RunOfJobs ==
  ASSUME NEW h, NEW a \in Int, NEW b \in Int
  PROVE  LET R == {[handle |-> h, number |-> n] : n \in a .. b}
         IN  /\ IsFiniteSet(R)
             /\ Cardinality(R) = IF a > b THEN 0 ELSE b - a + 1
<1> DEFINE R == {[handle |-> h, number |-> n] : n \in a .. b}
           f == [n \in a .. b |-> [handle |-> h, number |-> n]]
<1>1. f \in Bijection(a .. b, R)
  <2>1. f \in [a .. b -> R]
    OBVIOUS
  <2>2. \A r \in R : \E n \in a .. b : f[n] = r
    OBVIOUS
  <2>3. \A k, n \in a .. b : f[k] = f[n] => k = n
    <3>1. \A n \in a .. b : f[n].number = n
      OBVIOUS
    <3> QED
      BY <3>1
  <2> QED
    <3> DEFINE D == a .. b
    <3>1. /\ f \in [D -> R] /\ (\A r \in R : \E n \in D : f[n] = r)
          /\ \A k, n \in D : f[k] = f[n] => k = n
      BY <2>1, <2>2, <2>3
    <3> HIDE DEF f, R, D
    <3>2. f \in Injection(D, R)
      BY <3>1 DEF Injection, IsInjective
    <3>3. f \in Surjection(D, R)
      BY <3>1 DEF Surjection
    <3> QED
      BY <3>2, <3>3 DEF Bijection, D
<1>2. ExistsBijection(a .. b, R)
  BY <1>1 DEF ExistsBijection
<1>3. /\ IsFiniteSet(a .. b)
      /\ Cardinality(a .. b) = IF a > b THEN 0 ELSE b - a + 1
  BY FS_Interval
<1> QED
  BY <1>2, <1>3, FS_Bijection

\* handle_file_add makes a new job for each file.
LEMMA NewJobsAreNew ==
  ASSUME TypeOK, IsFiniteSet(DOMAIN m_media_list), NEW h \in DOMAIN torrentOf
  PROVE  /\ NewJobs(h) \subseteq Job
         /\ \A j \in NewJobs(h) : j.handle = h /\ j \notin DOMAIN m_media_list
         /\ IsFiniteSet(NewJobs(h))
         /\ Cardinality(NewJobs(h)) = MediaFiles[torrentOf[h]]
<1> DEFINE N == {j.number : j \in JobsOf(h)}
<1>1. IsFiniteSet(JobsOf(h)) /\ \A j \in JobsOf(h) : j.number \in Nat \ {0}
  <2>1. JobsOf(h) \in SUBSET DOMAIN m_media_list
    BY DEF JobsOf
  <2>2. \A j \in DOMAIN m_media_list : j.number \in Nat \ {0}
    BY DEF TypeOK, Job
  <2> QED
    BY <2>1, <2>2, FS_Subset
<1>2. IsFiniteSet({0} \union N)
  <2>1. IsFiniteSet(N)
    BY <1>1, NumbersFinite
  <2>2. {0} \union N = N \union {0}
    OBVIOUS
  <2> QED
    BY <2>1, <2>2, FS_AddElement
<1>3. {0} \union N \subseteq Nat /\ {0} \union N # {}
  BY <1>1
<1> DEFINE top == Max({0} \union N)
<1>4. top \in Nat /\ \A k \in N : top >= k
  <2> HIDE DEF N
  <2> QED
    BY <1>2, <1>3, MaxIsLargest
<1> HIDE DEF top
<1>5. torrentOf[h] \in Torrents /\ MediaFiles[torrentOf[h]] \in Nat
  BY ManagerAssumption, LenProperties, ElementOfSeq DEF TypeOK
<1> DEFINE R == {[handle |-> h, number |-> n] : n \in (top + 1) .. (top + MediaFiles[torrentOf[h]])}
<1>6. NewJobs(h) = R
  BY DEF NewJobs, top
<1>7. \A j \in R : j.handle = h /\ j.number \in Nat \ {0} /\ j.number > top /\ j \in Job
  BY <1>4, <1>5 DEF Job
<1>8. \A j \in R : j \notin DOMAIN m_media_list
  <2> SUFFICES ASSUME NEW j \in R, j \in DOMAIN m_media_list PROVE FALSE
    OBVIOUS
  <2>1. j.handle = h /\ j.number \in Nat /\ j.number > top
    BY <1>7
  <2>2. j \in JobsOf(h)
    BY <2>1 DEF JobsOf
  <2>3. j.number \in N
    BY <2>2
  <2> HIDE DEF N
  <2> QED
    BY <2>1, <2>3, <1>4
<1>9. IsFiniteSet(R) /\ Cardinality(R) = MediaFiles[torrentOf[h]]
  <2> DEFINE m == MediaFiles[torrentOf[h]]
  <2>1. m \in Nat /\ top + 1 \in Int /\ top + m \in Int
    BY <1>4, <1>5
  <2>2. /\ IsFiniteSet(R)
        /\ Cardinality(R) = IF top + 1 > top + m THEN 0 ELSE (top + m) - (top + 1) + 1
    BY <2>1, RunOfJobs
  <2> HIDE DEF m, R
  <2>3. Cardinality(R) = m
    BY <1>4, <2>1, <2>2
  <2> QED
    BY <2>2, <2>3 DEF m
<1> QED
  BY <1>6, <1>7, <1>8, <1>9


-----------------------------------------------------------------------------
(* Places: how an operation on a queue moves the objects in it.            *)

\* A queue that has not changed has every object where it was.
LEMMA PlaceKept ==
  ASSUME NEW i \in Nat, NEW h \in Nat
  PROVE  /\ UNCHANGED alerts => (Place("alerts", i, h)' <=> Place("alerts", i, h))
         /\ UNCHANGED popped => (Place("popped", i, h)' <=> Place("popped", i, h))
         /\ UNCHANGED m_active_list => (Place("active", i, h)' <=> Place("active", i, h))
         /\ UNCHANGED m_upload_list => (Place("upload", i, h)' <=> Place("upload", i, h))
         /\ UNCHANGED requests => (Place("remove", i, h)' <=> Place("remove", i, h))
BY DEF Place, Adds

\* An alert that hands over an object is about one.
LEMMA AddsTyped ==
  ASSUME NEW al \in Alert, NEW h, Adds(al, h)
  PROVE  h \in DOMAIN torrentOf
<1>1. CASE al \in [kind : {"added", "metadata", "piece"}, handle : DOMAIN torrentOf, has_info : BOOLEAN]
  BY <1>1 DEF Adds
<1>2. CASE al \in [kind : {"refused"}, handle : {0}, has_info : {FALSE}]
  <2>1. al.has_info = FALSE
    BY <1>2
  <2> QED
    BY <2>1 DEF Adds
<1> QED
  BY <1>1, <1>2 DEF Alert

\* The objects in a queue are objects of the session, and its places are numbered from 1.
LEMMA PlaceTyped ==
  ASSUME TypeOK, NEW w \in Places, NEW i \in Nat, NEW h \in Nat, Place(w, i, h)
  PROVE  h \in DOMAIN torrentOf /\ i # 0
<1>1. CASE w = "alerts"
  <2>1. i \in 1 .. Len(alerts) /\ alerts[i] \in Alert /\ Adds(alerts[i], h)
    BY <1>1, LenProperties, ElementOfSeq DEF Place, TypeOK
  <2>2. h \in DOMAIN torrentOf
    BY <2>1, AddsTyped
  <2> QED
    BY <2>1, <2>2
<1>2. CASE w = "popped"
  <2>1. i \in 1 .. Len(popped) /\ popped[i] \in Alert /\ Adds(popped[i], h)
    BY <1>2, LenProperties, ElementOfSeq DEF Place, TypeOK
  <2>2. h \in DOMAIN torrentOf
    BY <2>1, AddsTyped
  <2> QED
    BY <2>1, <2>2
<1>3. CASE w = "active"
  BY <1>3, LenProperties, ElementOfSeq DEF Place, TypeOK
<1>4. CASE w = "upload"
  <2>1. /\ i \in 1 .. Len(m_upload_list)
        /\ m_upload_list[i] \in [handle : DOMAIN torrentOf, old : BOOLEAN]
        /\ m_upload_list[i].handle = h
    BY <1>4, LenProperties, ElementOfSeq DEF Place, TypeOK
  <2> QED
    BY <2>1
<1>5. CASE w = "remove"
  <2>1. /\ i \in 1 .. Len(requests) /\ requests[i] \in Request
        /\ requests[i].op = "remove" /\ requests[i].handle = h
    BY <1>5, LenProperties, ElementOfSeq DEF Place, TypeOK
  <2>2. requests[i] \in [op : {"remove"}, handle : DOMAIN torrentOf]
    BY <2>1 DEF Request
  <2> QED
    BY <2>1, <2>2
<1> QED
  BY <1>1, <1>2, <1>3, <1>4, <1>5 DEF Places

\* An add that is pending is for a torrent, from place 1 on.
LEMMA AddTyped ==
  ASSUME TypeOK, NEW t, NEW i, AddPending(t, i)
  PROVE  t \in Torrents /\ i \in Nat \ {0}
<1>1. i \in 1 .. Len(requests) /\ requests[i] \in Request /\ requests[i].op = "add" /\ requests[i].torrent = t
  BY LenProperties, ElementOfSeq DEF AddPending, TypeOK
<1>2. requests[i] \in [op : {"add"}, torrent : Torrents, has_info : BOOLEAN]
  BY <1>1 DEF Request
<1> QED
  BY <1>1, <1>2

\* The session executes the request at the head of its queue.
LEMMA RequestsTail ==
  ASSUME TypeOK, requests # <<>>, requests' = Tail(requests)
  PROVE  /\ \A i \in Nat, h \in Nat : Place("remove", i, h)' <=> i >= 1 /\ Place("remove", i + 1, h)
         /\ \A t \in Torrents, i \in Nat : AddPending(t, i)' <=> i >= 1 /\ AddPending(t, i + 1)
         /\ 1 \in DOMAIN requests /\ Head(requests) = requests[1] /\ Head(requests) \in Request
         /\ \A S : requests \in Seq(S) => requests' \in Seq(S)
<1> USE DEF TypeOK
<1>1. /\ \A i \in Nat : i \in DOMAIN Tail(requests) <=> i # 0 /\ i + 1 \in DOMAIN requests
      /\ \A i \in DOMAIN Tail(requests) : Tail(requests)[i] = requests[i + 1]
      /\ 1 \in DOMAIN requests /\ Head(requests) = requests[1] /\ Head(requests) \in Request
  BY TailIndex
<1>2. \A i \in Nat, h \in Nat : Place("remove", i, h)' <=> i >= 1 /\ Place("remove", i + 1, h)
  BY <1>1 DEF Place
<1>3. \A t \in Torrents, i \in Nat : AddPending(t, i)' <=> i >= 1 /\ AddPending(t, i + 1)
  BY <1>1 DEF AddPending
<1>4. \A S : requests \in Seq(S) => requests' \in Seq(S)
  BY TailIndex
<1> QED
  BY <1>1, <1>2, <1>3, <1>4

\* A client's request is queued.
LEMMA RequestsAdd ==
  ASSUME TypeOK, NEW r \in Request, requests' = Append(requests, r)
  PROVE  /\ \A i \in Nat, h \in Nat : Place("remove", i, h)' <=>
              Place("remove", i, h) \/ (r.op = "remove" /\ i = Len(requests) + 1 /\ h = r.handle)
         /\ \A t \in Torrents, i \in Nat : AddPending(t, i)' <=>
              AddPending(t, i) \/ (r.op = "add" /\ i = Len(requests) + 1 /\ t = r.torrent)
         /\ \A h \in Nat : ~Place("remove", Len(requests) + 1, h)
         /\ Len(requests) + 1 \in Nat
         /\ requests' \in Seq(Request)
<1>1. /\ Append(requests, r) \in Seq(Request)
      /\ \A i \in Nat : i \in DOMAIN Append(requests, r) <=> i \in DOMAIN requests \/ i = Len(requests) + 1
      /\ \A i \in DOMAIN requests : Append(requests, r)[i] = requests[i]
      /\ Append(requests, r)[Len(requests) + 1] = r
      /\ Len(requests) + 1 \in Nat /\ Len(requests) + 1 \notin DOMAIN requests
  BY AppendIndex DEF TypeOK
<1> DEFINE n == Len(requests) + 1
<1> HIDE DEF n
<1>2. \A i \in Nat, h \in Nat : Place("remove", i, h)' <=>
              Place("remove", i, h) \/ (r.op = "remove" /\ i = Len(requests) + 1 /\ h = r.handle)
  BY <1>1 DEF Place
<1>3. \A t \in Torrents, i \in Nat : AddPending(t, i)' <=>
              AddPending(t, i) \/ (r.op = "add" /\ i = Len(requests) + 1 /\ t = r.torrent)
  BY <1>1 DEF AddPending
<1>4. \A h \in Nat : ~Place("remove", Len(requests) + 1, h)
  BY <1>1 DEF Place
<1> QED
  BY <1>1, <1>2, <1>3, <1>4

\* The session queues an alert, unless the queue is full.
LEMMA AlertsAdd ==
  ASSUME TypeOK, NEW S, alerts \in Seq(S), NEW al \in S, NEW queued \in BOOLEAN,
         alerts' = IF queued THEN Append(alerts, al) ELSE alerts
  PROVE  /\ \A i \in Nat, h \in Nat : Place("alerts", i, h)' <=>
              Place("alerts", i, h) \/ (queued /\ i = Len(alerts) + 1 /\ Adds(al, h))
         /\ Len(alerts) + 1 \in Nat
         /\ alerts' \in Seq(S)
<1>1. /\ Append(alerts, al) \in Seq(S)
      /\ \A i \in Nat : i \in DOMAIN Append(alerts, al) <=> i \in DOMAIN alerts \/ i = Len(alerts) + 1
      /\ \A i \in DOMAIN alerts : Append(alerts, al)[i] = alerts[i]
      /\ Append(alerts, al)[Len(alerts) + 1] = al
      /\ Len(alerts) + 1 \in Nat /\ Len(alerts) + 1 \notin DOMAIN alerts
  BY AppendIndex
<1>2. CASE queued
  <2>1. \A i \in Nat, h \in Nat : Place("alerts", i, h)' <=>
              Place("alerts", i, h) \/ (i = Len(alerts) + 1 /\ Adds(al, h))
    BY <1>1, <1>2 DEF Place, Adds
  <2> QED
    BY <1>1, <1>2, <2>1
<1>3. CASE ~queued
  BY <1>1, <1>3, PlaceKept
<1> QED
  BY <1>2, <1>3

\* handle_loop takes the first of the alerts it has popped.
LEMMA PoppedTail ==
  ASSUME TypeOK, popped # <<>>, popped' = Tail(popped)
  PROVE  /\ \A i \in Nat, h \in Nat : Place("popped", i, h)' <=> i >= 1 /\ Place("popped", i + 1, h)
         /\ 1 \in DOMAIN popped /\ Head(popped) = popped[1] /\ Head(popped) \in Alert
         /\ popped' \in Seq(Alert)
<1>1. /\ Tail(popped) \in Seq(Alert)
      /\ \A i \in Nat : i \in DOMAIN Tail(popped) <=> i # 0 /\ i + 1 \in DOMAIN popped
      /\ \A i \in DOMAIN Tail(popped) : Tail(popped)[i] = popped[i + 1]
      /\ 1 \in DOMAIN popped /\ Head(popped) = popped[1] /\ Head(popped) \in Alert
  BY TailIndex DEF TypeOK
<1>2. \A i \in Nat, h \in Nat : Place("popped", i, h)' <=> i >= 1 /\ Place("popped", i + 1, h)
  BY <1>1 DEF Place, Adds
<1> QED
  BY <1>1, <1>2

\* A torrent goes to the end of the active list.
LEMMA ActiveAdd ==
  ASSUME TypeOK, NEW g \in DOMAIN torrentOf, m_active_list' = Append(m_active_list, g)
  PROVE  /\ \A i \in Nat, h \in Nat : Place("active", i, h)' <=>
              Place("active", i, h) \/ (i = Len(m_active_list) + 1 /\ h = g)
         /\ \A h \in Nat : ~Place("active", Len(m_active_list) + 1, h)
         /\ Len(m_active_list) + 1 \in Nat
         /\ m_active_list' \in Seq(DOMAIN torrentOf)
<1>1. /\ Append(m_active_list, g) \in Seq(DOMAIN torrentOf)
      /\ \A i \in Nat : i \in DOMAIN Append(m_active_list, g) <=>
           i \in DOMAIN m_active_list \/ i = Len(m_active_list) + 1
      /\ \A i \in DOMAIN m_active_list : Append(m_active_list, g)[i] = m_active_list[i]
      /\ Append(m_active_list, g)[Len(m_active_list) + 1] = g
      /\ Len(m_active_list) + 1 \in Nat /\ Len(m_active_list) + 1 \notin DOMAIN m_active_list
  BY AppendIndex DEF TypeOK
<1>2. \A i \in Nat, h \in Nat : Place("active", i, h)' <=>
              Place("active", i, h) \/ (i = Len(m_active_list) + 1 /\ h = g)
  BY <1>1 DEF Place
<1>3. \A h \in Nat : ~Place("active", Len(m_active_list) + 1, h)
  BY <1>1 DEF Place
<1> QED
  BY <1>1, <1>2, <1>3

\* A torrent leaves the active list.
LEMMA ActiveWithout ==
  ASSUME TypeOK, NEW n \in DOMAIN m_active_list, m_active_list' = Without(m_active_list, n)
  PROVE  /\ \A i \in Nat, h \in Nat : Place("active", i, h)' <=>
              i >= 1 /\ (IF i < n THEN Place("active", i, h) ELSE Place("active", i + 1, h))
         /\ n \in Nat \ {0}
         /\ m_active_list' \in Seq(DOMAIN torrentOf)
<1>1. /\ Without(m_active_list, n) \in Seq(DOMAIN torrentOf)
      /\ \A i \in Nat : i \in DOMAIN Without(m_active_list, n) <=>
           i # 0 /\ IF i < n THEN i \in DOMAIN m_active_list ELSE i + 1 \in DOMAIN m_active_list
      /\ \A i \in DOMAIN Without(m_active_list, n) :
           Without(m_active_list, n)[i] = IF i < n THEN m_active_list[i] ELSE m_active_list[i + 1]
      /\ n \in Nat \ {0}
  BY WithoutIndex DEF TypeOK
<1>2. \A i \in Nat, h \in Nat : Place("active", i, h)' <=>
              i >= 1 /\ (IF i < n THEN Place("active", i, h) ELSE Place("active", i + 1, h))
  BY <1>1 DEF Place
<1> QED
  BY <1>1, <1>2

\* A torrent goes to the end of the upload list.
LEMMA UploadAdd ==
  ASSUME TypeOK, NEW g \in DOMAIN torrentOf,
         m_upload_list' = Append(m_upload_list, [handle |-> g, old |-> FALSE])
  PROVE  /\ \A i \in Nat, h \in Nat : Place("upload", i, h)' <=>
              Place("upload", i, h) \/ (i = Len(m_upload_list) + 1 /\ h = g)
         /\ \A h \in Nat : ~Place("upload", Len(m_upload_list) + 1, h)
         /\ Len(m_upload_list) + 1 \in Nat
         /\ m_upload_list' \in Seq([handle : DOMAIN torrentOf, old : BOOLEAN])
<1> DEFINE up == [handle |-> g, old |-> FALSE]
           S == [handle : DOMAIN torrentOf, old : BOOLEAN]
<1>1. up \in S /\ up.handle = g /\ m_upload_list \in Seq(S) /\ m_upload_list' = Append(m_upload_list, up)
  BY DEF TypeOK
<1> HIDE DEF up, S
<1>2. /\ Append(m_upload_list, up) \in Seq(S)
      /\ \A i \in Nat : i \in DOMAIN Append(m_upload_list, up) <=>
           i \in DOMAIN m_upload_list \/ i = Len(m_upload_list) + 1
      /\ \A i \in DOMAIN m_upload_list : Append(m_upload_list, up)[i] = m_upload_list[i]
      /\ Append(m_upload_list, up)[Len(m_upload_list) + 1] = up
      /\ Len(m_upload_list) + 1 \in Nat /\ Len(m_upload_list) + 1 \notin DOMAIN m_upload_list
  BY <1>1, AppendIndex
<1>3. \A i \in Nat, h \in Nat : Place("upload", i, h)' <=>
              Place("upload", i, h) \/ (i = Len(m_upload_list) + 1 /\ h = g)
  BY <1>1, <1>2 DEF Place
<1>4. \A h \in Nat : ~Place("upload", Len(m_upload_list) + 1, h)
  BY <1>2 DEF Place
<1>5. m_upload_list' \in Seq([handle : DOMAIN torrentOf, old : BOOLEAN])
  BY <1>1, <1>2 DEF S
<1> QED
  BY <1>2, <1>3, <1>4, <1>5

\* A torrent leaves the upload list.
LEMMA UploadWithout ==
  ASSUME TypeOK, NEW n \in DOMAIN m_upload_list, m_upload_list' = Without(m_upload_list, n)
  PROVE  /\ \A i \in Nat, h \in Nat : Place("upload", i, h)' <=>
              i >= 1 /\ (IF i < n THEN Place("upload", i, h) ELSE Place("upload", i + 1, h))
         /\ n \in Nat \ {0}
         /\ m_upload_list[n] \in [handle : DOMAIN torrentOf, old : BOOLEAN]
         /\ m_upload_list' \in Seq([handle : DOMAIN torrentOf, old : BOOLEAN])
<1> DEFINE S == [handle : DOMAIN torrentOf, old : BOOLEAN]
<1>1. m_upload_list \in Seq(S)
  BY DEF TypeOK
<1> HIDE DEF S
<1>2. /\ Without(m_upload_list, n) \in Seq(S)
      /\ \A i \in Nat : i \in DOMAIN Without(m_upload_list, n) <=>
           i # 0 /\ IF i < n THEN i \in DOMAIN m_upload_list ELSE i + 1 \in DOMAIN m_upload_list
      /\ \A i \in DOMAIN Without(m_upload_list, n) :
           Without(m_upload_list, n)[i] = IF i < n THEN m_upload_list[i] ELSE m_upload_list[i + 1]
      /\ n \in Nat \ {0}
  BY <1>1, WithoutIndex
<1>3. \A i \in Nat, h \in Nat : Place("upload", i, h)' <=>
              i >= 1 /\ (IF i < n THEN Place("upload", i, h) ELSE Place("upload", i + 1, h))
  BY <1>2 DEF Place
<1>4. m_upload_list[n] \in S
  BY <1>1, LenProperties, ElementOfSeq
<1> QED
  BY <1>2, <1>3, <1>4 DEF S

\* FifteenMinutes leaves every torrent where it is.
LEMMA UploadAges ==
  ASSUME TypeOK, NEW n \in DOMAIN m_upload_list,
         m_upload_list' = [m_upload_list EXCEPT ![n].old = TRUE]
  PROVE  /\ \A i \in Nat, h \in Nat : Place("upload", i, h)' <=> Place("upload", i, h)
         /\ m_upload_list' \in Seq([handle : DOMAIN torrentOf, old : BOOLEAN])
<1> DEFINE S == [handle : DOMAIN torrentOf, old : BOOLEAN]
           up == [m_upload_list[n] EXCEPT !.old = TRUE]
<1>1. m_upload_list \in Seq(S) /\ n \in 1 .. Len(m_upload_list) /\ m_upload_list[n] \in S
  BY LenProperties, ElementOfSeq DEF TypeOK
<1>2. up \in S /\ up.handle = m_upload_list[n].handle /\ m_upload_list' = [m_upload_list EXCEPT ![n] = up]
  BY <1>1
<1> HIDE DEF up, S
<1>3. /\ [m_upload_list EXCEPT ![n] = up] \in Seq(S)
      /\ Len([m_upload_list EXCEPT ![n] = up]) = Len(m_upload_list)
      /\ \A j \in 1 .. Len(m_upload_list) :
           [m_upload_list EXCEPT ![n] = up][j] = IF j = n THEN up ELSE m_upload_list[j]
  BY <1>1, <1>2, ExceptSeq
<1>4. DOMAIN m_upload_list' = 1 .. Len(m_upload_list) /\ DOMAIN m_upload_list = 1 .. Len(m_upload_list)
  BY <1>1, <1>2, <1>3, LenProperties
<1>5. \A i \in DOMAIN m_upload_list : m_upload_list'[i].handle = m_upload_list[i].handle
  BY <1>2, <1>3, <1>4
<1>6. \A i \in Nat, h \in Nat : Place("upload", i, h)' <=> Place("upload", i, h)
  BY <1>4, <1>5 DEF Place
<1> QED
  BY <1>2, <1>3, <1>6 DEF S

-----------------------------------------------------------------------------
(* Moves: an object leaves one place, another comes to a new one, and the  *)
(* objects behind the first move up.                                       *)

Moves(v, n, w1, k, g) ==
  \A w \in Places, i \in Nat, h \in Nat :
    Place(w, i, h)' <=>
      \/ w = w1 /\ i = k /\ h = g
      \/ IF w = v THEN i >= 1 /\ (IF i < n THEN Place(w, i, h) ELSE Place(w, i + 1, h))
                  ELSE Place(w, i, h)

\* An object that is not the one that leaves is still in its queue.
LEMMA PlaceSurvives ==
  ASSUME NEW v, NEW n \in Nat \ {0}, NEW w1, NEW k, NEW g, Moves(v, n, w1, k, g),
         NEW w \in Places, NEW i \in Nat, NEW h \in Nat, Place(w, i, h), i # 0, ~(w = v /\ i = n)
  PROVE  \E j \in Nat : Place(w, j, h)'
<1>1. CASE w # v
  BY <1>1 DEF Moves
<1>2. CASE w = v /\ i < n
  BY <1>2 DEF Moves
<1>3. CASE w = v /\ i > n
  <2>1. PICK j \in Nat : j + 1 = i /\ j >= 1 /\ ~(j < n)
    <3>1. i - 1 \in Nat /\ (i - 1) + 1 = i /\ i - 1 >= 1 /\ ~(i - 1 < n)
      BY <1>3
    <3> QED
      BY <3>1
  <2> QED
    BY <1>3, <2>1 DEF Moves
<1> QED
  BY <1>1, <1>2, <1>3

\* An object that is in a queue afterwards came to it now or was there before.
LEMMA PlaceBefore ==
  ASSUME NEW v, NEW n \in Nat \ {0}, NEW w1, NEW k, NEW g, Moves(v, n, w1, k, g),
         NEW w \in Places, NEW i \in Nat, NEW h \in Nat, Place(w, i, h)'
  PROVE  \/ w = w1 /\ i = k /\ h = g
         \/ \E j \in Nat : Place(w, j, h) /\ ~(w = v /\ j = n)
<1>1. CASE w = w1 /\ i = k /\ h = g
  BY <1>1
<1>2. CASE w # v /\ Place(w, i, h)
  BY <1>2
<1>3. CASE w = v /\ i < n /\ Place(w, i, h)
  BY <1>3
<1>4. CASE w = v /\ ~(i < n) /\ Place(w, i + 1, h)
  <2>1. i + 1 \in Nat /\ i + 1 # n
    BY <1>4
  <2> QED
    BY <1>4, <2>1
<1> QED
  BY <1>1, <1>2, <1>3, <1>4 DEF Moves

\* What is in no queue twice is in none twice afterwards, if it only comes to a new
\* place when it leaves the only one it has.
LEMMA UniqueMoves ==
  ASSUME NEW v, NEW n \in Nat \ {0}, NEW w1, NEW k, NEW g, Moves(v, n, w1, k, g),
         NEW h \in Nat, Unique(h),
         h = g /\ w1 \in Places => \A w \in Places, i \in Nat : Place(w, i, h) => w = v /\ i = n
  PROVE  Unique(h)'
<1> SUFFICES ASSUME NEW x \in Places, NEW y \in Places, NEW i \in Nat, NEW j \in Nat,
                    Place(x, i, h)', Place(y, j, h)'
             PROVE  x = y /\ i = j
  BY DEF Unique
<1>1. CASE h = g /\ w1 \in Places
  BY <1>1, PlaceBefore
<1>2. CASE ~(h = g /\ w1 \in Places)
  <2>1. IF x = v THEN i >= 1 /\ (IF i < n THEN Place(x, i, h) ELSE Place(x, i + 1, h))
                 ELSE Place(x, i, h)
    BY <1>2 DEF Moves
  <2>2. IF y = v THEN j >= 1 /\ (IF j < n THEN Place(y, j, h) ELSE Place(y, j + 1, h))
                 ELSE Place(y, j, h)
    BY <1>2 DEF Moves
  <2>3. i + 1 \in Nat /\ j + 1 \in Nat
    OBVIOUS
  <2>4. x = y
    BY <2>1, <2>2, <2>3 DEF Unique
  <2>5. i = j
    BY <2>1, <2>2, <2>3, <2>4 DEF Unique
  <2> QED
    BY <2>4, <2>5
<1> QED
  BY <1>1, <1>2

\* Objects keep a place, if the one that leaves comes to a new place or is none that
\* needs one.
LEMMA PlacedMoves ==
  ASSUME TypeOK, NEW v, NEW n \in Nat \ {0}, NEW w1, NEW k \in Nat, NEW g \in Nat,
         Moves(v, n, w1, k, g), NEW h \in Nat, Placed(h) \/ (h = g /\ w1 \in Places),
         v \in Places /\ Place(v, n, h) => h = g /\ w1 \in Places
  PROVE  Placed(h)'
<1>1. CASE h = g /\ w1 \in Places
  BY <1>1 DEF Placed, Moves
<1>2. CASE Placed(h) /\ ~(h = g /\ w1 \in Places)
  <2>1. PICK w \in Places, i \in Nat : Place(w, i, h)
    BY <1>2 DEF Placed
  <2>2. i # 0
    BY <2>1, PlaceTyped
  <2>3. ~(w = v /\ i = n)
    BY <1>2, <2>1
  <2>4. \E j \in Nat : Place(w, j, h)'
    BY <2>1, <2>2, <2>3, PlaceSurvives
  <2> QED
    BY <2>4 DEF Placed
<1> QED
  BY <1>1, <1>2

\* One place stays one place.
LEMMA OnePlaceMoves ==
  ASSUME TypeOK, NEW v, NEW n \in Nat \ {0}, NEW w1, NEW k \in Nat, NEW g,
         Moves(v, n, w1, k, g), NEW h \in Nat, InOnePlace(h),
         h = g /\ w1 \in Places =>
           /\ \A w \in Places, i \in Nat : Place(w, i, h) => w = v /\ i = n
           /\ h \in alive' /\ h \in metadata',
         \A w \in Places, i \in Nat : Place(w, i, h) /\ ~(w = v /\ i = n) =>
           h \in alive' /\ h \in metadata',
         JobsOf(h)' # {} => \/ w1 = "active" /\ h = g
                            \/ JobsOf(h) # {} /\ ~(v = "active" /\ Place(v, n, h))
  PROVE  InOnePlace(h)'
<1>1. Unique(h)'
  BY UniqueMoves DEF InOnePlace
<1>2. Placed(h)' => h \in alive' /\ h \in metadata'
  <2> SUFFICES ASSUME Placed(h)' PROVE h \in alive' /\ h \in metadata'
    OBVIOUS
  <2>1. PICK w \in Places, i \in Nat : Place(w, i, h)'
    BY DEF Placed
  <2>2. \/ w = w1 /\ i = k /\ h = g
        \/ \E j \in Nat : Place(w, j, h) /\ ~(w = v /\ j = n)
    BY <2>1, PlaceBefore
  <2> QED
    BY <2>2
<1>3. JobsOf(h)' # {} => \E i \in Nat : Place("active", i, h)'
  <2> SUFFICES ASSUME JobsOf(h)' # {} PROVE \E i \in Nat : Place("active", i, h)'
    OBVIOUS
  <2>1. "active" \in Places
    BY DEF Places
  <2>2. CASE w1 = "active" /\ h = g
    BY <2>1, <2>2 DEF Moves
  <2>3. CASE JobsOf(h) # {} /\ ~(v = "active" /\ Place(v, n, h))
    <3>1. PICK i \in Nat : Place("active", i, h)
      BY <2>3 DEF InOnePlace
    <3>2. i # 0
      BY <2>1, <3>1, PlaceTyped
    <3>3. ~("active" = v /\ i = n)
      BY <2>3, <3>1
    <3> QED
      BY <2>1, <3>1, <3>2, <3>3, PlaceSurvives
  <2> QED
    BY <2>2, <2>3
<1> QED
  BY <1>1, <1>2, <1>3 DEF InOnePlace

-----------------------------------------------------------------------------
(* Steps that leave the session's objects and the requests alone.          *)

\* What such a step does: it takes object g from a queue of the manager or the session,
\* if v names one, and puts it into another, if w1 names one.
Handled(v, n, w1, k, g) ==
  /\ UNCHANGED <<torrentOf, alive, metadata, unheard, requested>>
  /\ \A t \in Torrents, i \in Nat : AddPending(t, i)' <=> AddPending(t, i)
  /\ Moves(v, n, w1, k, g)
  /\ \A h \in Nat : v \in Places /\ Place(v, n, h) => h = g
  /\ w1 \in Places => w1 \notin {"alerts", "popped"} /\ Place(v, n, g) /\ v \in Places
  /\ w1 \in Places /\ v = "popped" => g \in metadata
  /\ v \in Places /\ w1 \notin Places /\ Place(v, n, g) => g \notin alive \/ g \notin metadata
  /\ \A h \in Nat : JobsOf(h)' \subseteq JobsOf(h) \/ (h = g /\ w1 = "active")
  /\ v = "active" => JobsOf(g) = {} /\ w1 # "active"
  /\ w1 = "active" => v = "popped" /\ torrentOf[g] \notin m_pending_update
  /\ \A t \in m_pending_update : t \in m_pending_update'
                                   \/ (t = torrentOf[g] /\ v = "popped" /\ w1 = "upload")

\* No object is lost.
LEMMA HandledPlaced ==
  ASSUME TypeOK, AllPlaced, NEW v, NEW n \in Nat \ {0}, NEW w1, NEW k \in Nat, NEW g \in Nat,
         Handled(v, n, w1, k, g)
  PROVE  AllPlaced'
<1> SUFFICES ASSUME NEW h, h \in alive', h \in metadata', h \notin unheard' PROVE Placed(h)'
  BY DEF AllPlaced
<1>1. h \in alive /\ h \in metadata /\ h \notin unheard /\ h \in Nat
  BY LenProperties DEF Handled, TypeOK
<1>2. Placed(h)
  BY <1>1 DEF AllPlaced
<1>3. Moves(v, n, w1, k, g)
  BY DEF Handled
<1>4. v \in Places /\ Place(v, n, h) => h = g /\ w1 \in Places
  BY <1>1 DEF Handled
<1> QED
  BY <1>1, <1>2, <1>3, <1>4, PlacedMoves

\* One place stays one place.
LEMMA HandledInOnePlace ==
  ASSUME TypeOK, NEW v, NEW n \in Nat \ {0}, NEW w1, NEW k \in Nat, NEW g \in Nat,
         Handled(v, n, w1, k, g), NEW h \in Nat, InOnePlace(h)
  PROVE  InOnePlace(h)'
<1>1. Moves(v, n, w1, k, g)
  BY DEF Handled
<1>2. Placed(h) => h \in alive' /\ h \in metadata'
  BY DEF InOnePlace, Handled
<1>3. h = g /\ w1 \in Places =>
        /\ \A w \in Places, i \in Nat : Place(w, i, h) => w = v /\ i = n
        /\ h \in alive' /\ h \in metadata'
  <2>1. h = g /\ w1 \in Places => Place(v, n, h) /\ v \in Places
    BY DEF Handled
  <2>2. h = g /\ w1 \in Places => Placed(h)
    BY <2>1 DEF Placed
  <2> QED
    BY <1>2, <2>1, <2>2 DEF InOnePlace, Unique
<1>4. \A w \in Places, i \in Nat : Place(w, i, h) /\ ~(w = v /\ i = n) =>
           h \in alive' /\ h \in metadata'
  BY <1>2 DEF Placed
<1>5. JobsOf(h)' # {} => \/ w1 = "active" /\ h = g
                         \/ JobsOf(h) # {} /\ ~(v = "active" /\ Place(v, n, h))
  <2>1. JobsOf(h)' \subseteq JobsOf(h) \/ (h = g /\ w1 = "active")
    BY DEF Handled
  <2>2. v = "active" /\ Place(v, n, h) => JobsOf(h) = {}
    BY DEF Handled, Places
  <2> QED
    BY <2>1, <2>2
<1> QED
  BY <1>1, <1>3, <1>4, <1>5, OnePlaceMoves

\* A torrent to be uploaded is one as long as nobody asks for it.
LEMMA ToUploadKept ==
  ASSUME NEW t, requested'[t] = requested[t]
  PROVE  ToUpload(t)' <=> ToUpload(t)
BY DEF ToUpload, Recognised, PendingHash

\* A request to be uploaded is remembered.
LEMMA HandledUpload ==
  ASSUME TypeOK, NEW v, NEW n \in Nat \ {0}, NEW w1, NEW k \in Nat, NEW g \in Nat,
         Handled(v, n, w1, k, g), NEW t \in Torrents, AddedOnce(t), UploadPending(t),
         \A h \in Nat : ObjectOf(t, h) => InOnePlace(h)
  PROVE  UploadPending(t)'
<1> SUFFICES ASSUME ToUpload(t)
             PROVE  /\ \A i \in Nat : AddPending(t, i)' => t \in m_pending_update'
                    /\ \A h \in Nat : ObjectOf(t, h)' =>
                         /\ JobsOf(h)' = {}
                         /\ h \notin metadata' \/ InAlert(h)' => t \in m_pending_update'
  BY ToUploadKept DEF UploadPending, Handled
<1> USE DEF Places
<1>1. t \in m_pending_update /\ t \notin m_pending_update' =>
        ObjectOf(t, g) /\ v = "popped" /\ w1 = "upload" /\ g \in metadata /\ Place(v, n, g)
  <2>1. t \in m_pending_update /\ t \notin m_pending_update' =>
          t = torrentOf[g] /\ v = "popped" /\ w1 = "upload" /\ g \in metadata /\ Place(v, n, g)
    BY DEF Handled
  <2> QED
    BY <2>1 DEF ObjectOf, TypeOK
<1>2. ASSUME NEW i \in Nat, AddPending(t, i)' PROVE t \in m_pending_update'
  <2>1. AddPending(t, i)
    BY <1>2 DEF Handled
  <2>2. t \in m_pending_update
    BY <2>1 DEF UploadPending
  <2>3. ~ObjectOf(t, g)
    BY <2>1 DEF AddedOnce
  <2> QED
    BY <1>1, <2>2, <2>3
<1>3. ASSUME NEW h \in Nat, ObjectOf(t, h)'
      PROVE  /\ JobsOf(h)' = {}
             /\ h \notin metadata' \/ InAlert(h)' => t \in m_pending_update'
  <2>1. ObjectOf(t, h)
    BY <1>3 DEF ObjectOf, Handled
  <2>2. JobsOf(h) = {} /\ (h \notin metadata \/ InAlert(h) => t \in m_pending_update)
    BY <2>1 DEF UploadPending
  <2>3. Moves(v, n, w1, k, g) /\ (h \in metadata' <=> h \in metadata)
    BY DEF Handled
  <2>4. JobsOf(h)' = {}
    <3>1. CASE h = g /\ w1 = "active"
      <4>1. Place("popped", n, h) /\ torrentOf[h] \notin m_pending_update
        BY <3>1 DEF Handled
      <4>2. InAlert(h)
        BY <4>1 DEF InAlert
      <4> QED
        BY <2>1, <2>2, <4>1, <4>2 DEF ObjectOf
    <3>2. CASE ~(h = g /\ w1 = "active")
      BY <2>2, <3>2 DEF Handled
    <3> QED
      BY <3>1, <3>2
  <2>5. ASSUME h \notin metadata' PROVE t \in m_pending_update'
    <3>1. t \in m_pending_update
      BY <2>2, <2>3, <2>5
    <3>2. ObjectOf(t, g) => g = h
      BY <2>1 DEF AddedOnce
    <3> QED
      BY <1>1, <2>3, <2>5, <3>1, <3>2
  <2>6. ASSUME InAlert(h)' PROVE t \in m_pending_update'
    <3>1. PICK w \in {"alerts", "popped"}, i \in Nat : Place(w, i, h)'
      BY <2>6 DEF InAlert
    <3>2. w # w1
      <4>1. w1 \in Places => w1 # "alerts" /\ w1 # "popped"
        BY DEF Handled
      <4> QED
        BY <4>1
    <3>3. PICK j \in Nat : Place(w, j, h) /\ ~(w = v /\ j = n)
      <4>1. PICK p \in Places : p = w
        OBVIOUS
      <4>2. p # w1 /\ Place(p, i, h)'
        BY <3>1, <3>2, <4>1
      <4> HIDE DEF Places
      <4>3. \E j \in Nat : Place(p, j, h) /\ ~(p = v /\ j = n)
        BY <2>3, <4>2, PlaceBefore
      <4> QED
        BY <4>1, <4>3
    <3>4. t \in m_pending_update
      BY <2>2, <3>3 DEF InAlert
    <3>5. ObjectOf(t, g) => g = h
      BY <2>1 DEF AddedOnce
    <3>6. Unique(h)
      BY <2>1 DEF InOnePlace
    <3>7. v = "popped" => ~Place(v, n, h)
      BY <3>3, <3>6 DEF Unique
    <3> QED
      BY <1>1, <3>4, <3>5, <3>7
  <2> QED
    BY <2>4, <2>5, <2>6
<1> QED
  BY <1>2, <1>3

\* Such a step keeps the part of the invariant about single requests.
LEMMA HandledSingle ==
  ASSUME TypeOK, SingleOK, NEW v, NEW n \in Nat \ {0}, NEW w1, NEW k \in Nat, NEW g \in Nat,
         Handled(v, n, w1, k, g)
  PROVE  SingleOK'
<1> SUFFICES ASSUME NEW t \in Torrents, Single(t)'
             PROVE  /\ AddedOnce(t)'
                    /\ \A h \in Nat : ObjectOf(t, h)' => InOnePlace(h)'
                    /\ UploadPending(t)'
  BY DEF SingleOK
<1>1. UNCHANGED <<torrentOf, requested>> /\ \A i \in Nat : AddPending(t, i)' <=> AddPending(t, i)
  BY DEF Handled
<1>2. \A h \in Nat : ObjectOf(t, h)' <=> ObjectOf(t, h)
  BY <1>1 DEF ObjectOf
<1>3. /\ AddedOnce(t) /\ UploadPending(t)
      /\ \A h \in Nat : ObjectOf(t, h) => InOnePlace(h)
  BY <1>1 DEF SingleOK, Single
<1>4. AddedOnce(t)'
  BY <1>1, <1>2, <1>3 DEF AddedOnce
<1>5. \A h \in Nat : ObjectOf(t, h)' => InOnePlace(h)'
  BY <1>2, <1>3, HandledInOnePlace
<1>6. UploadPending(t)'
  BY <1>3, HandledUpload
<1> QED
  BY <1>4, <1>5, <1>6

\* A step that moves nothing.
Quiet ==
  /\ UNCHANGED <<torrentOf, alive, metadata, unheard, requested, requests, popped,
                 m_active_list, m_pending_update>>
  /\ \A i \in Nat, h \in Nat : Place("alerts", i, h)' <=> Place("alerts", i, h)
  /\ \A i \in Nat, h \in Nat : Place("upload", i, h)' <=> Place("upload", i, h)
  /\ DOMAIN m_media_list' \subseteq DOMAIN m_media_list

\* Such a step is a step that handles nothing.
LEMMA QuietKeeps ==
  ASSUME TypeOK, AllPlaced, SingleOK, Quiet
  PROVE  AllPlaced' /\ SingleOK'
<1>1. Moves("none", 1, "none", 0, 0)
  <2> SUFFICES ASSUME NEW w \in Places, NEW i \in Nat, NEW h \in Nat
               PROVE  Place(w, i, h)' <=> Place(w, i, h)
    BY DEF Moves, Places
  <2>1. UNCHANGED <<popped, m_active_list, requests>>
    BY DEF Quiet
  <2>2. CASE w \in {"alerts", "upload"}
    BY <2>2 DEF Quiet
  <2>3. CASE w \in {"popped", "active", "remove"}
    BY <2>1, <2>3, PlaceKept
  <2> QED
    BY <2>2, <2>3 DEF Places
<1>2. \A t \in Torrents, i \in Nat : AddPending(t, i)' <=> AddPending(t, i)
  BY DEF Quiet, AddPending
<1>3. \A h \in Nat : JobsOf(h)' \subseteq JobsOf(h)
  BY DEF Quiet, JobsOf
<1>4. Handled("none", 1, "none", 0, 0)
  BY <1>1, <1>2, <1>3 DEF Handled, Quiet, Places
<1> QED
  BY <1>4, HandledPlaced, HandledSingle

-----------------------------------------------------------------------------
(* The parts of the invariant that do not speak of places.                 *)

\* The sets of alerts, requests and jobs only depend on the objects.
LEMMA SetsKept ==
  ASSUME torrentOf' = torrentOf
  PROVE  /\ Alert' = Alert /\ Request' = Request /\ Job' = Job
         /\ (DOMAIN torrentOf)' = DOMAIN torrentOf
BY DEF Alert, Request, Job

\* Every object has a torrent.
LEMMA TorrentOfObject ==
  ASSUME TypeOK, NEW h \in DOMAIN torrentOf
  PROVE  torrentOf[h] \in Torrents /\ h \in Nat \ {0}
BY LenProperties, ElementOfSeq DEF TypeOK

\* The number of a torrent's jobs is a number.
LEMMA JobsFinite ==
  ASSUME JobsOK, NEW t
  PROVE  IsFiniteSet(JobsOfTorrent(t)) /\ Cardinality(JobsOfTorrent(t)) \in Nat
<1>1. JobsOfTorrent(t) \in SUBSET DOMAIN m_media_list
  BY DEF JobsOfTorrent
<1>2. IsFiniteSet(JobsOfTorrent(t))
  BY <1>1, FS_Subset DEF JobsOK
<1> QED
  BY <1>2, FS_CardinalityType

\* The counters cover the jobs as long as neither changes.
LEMMA JobsKept ==
  ASSUME TypeOK, JobsOK, m_file_counter' = m_file_counter,
         DOMAIN m_media_list' = DOMAIN m_media_list,
         \A h \in DOMAIN torrentOf : torrentOf'[h] = torrentOf[h],
         pc' # "alerts" => popped' = <<>>
  PROVE  JobsOK'
<1>1. \A j \in DOMAIN m_media_list : j.handle \in DOMAIN torrentOf
  BY DEF TypeOK, Job
<1>2. \A t : JobsOfTorrent(t)' = JobsOfTorrent(t)
  BY <1>1 DEF JobsOfTorrent
<1>3. CounterCoversJobs'
  BY <1>2 DEF CounterCoversJobs, JobsOK
<1>4. IsFiniteSet(DOMAIN m_media_list)'
  BY DEF JobsOK
<1> QED
  BY <1>3, <1>4 DEF JobsOK

\* A torrent was asked for twice.
Doubled == \E t \in Torrents : Len(requested[t]) > 1

\* An object that is in a queue or has jobs, but not in the session any more, has a
\* torrent that was asked for twice.
LEMMA DeadIsDouble ==
  ASSUME Inv, NEW h, Placed(h) \/ JobsOf(h) # {}, h \notin alive, h \in DOMAIN torrentOf
  PROVE  Doubled
<1> DEFINE t == torrentOf[h]
<1>1. t \in Torrents /\ h \in Nat
  BY TorrentOfObject DEF Inv
<1>2. Single(t) => InOnePlace(h)
  <2>1. ObjectOf(t, h)
    BY DEF ObjectOf
  <2> HIDE DEF t
  <2> QED
    BY <1>1, <2>1 DEF SingleOK, Inv
<1>3. ~InOnePlace(h)
  <2> SUFFICES ASSUME InOnePlace(h) PROVE FALSE
    OBVIOUS
  <2>1. "active" \in Places
    BY DEF Places
  <2>2. Placed(h)
    BY <2>1 DEF InOnePlace, Placed
  <2> QED
    BY <2>2 DEF InOnePlace
<1>4. Len(requested[t]) \in Nat
  BY <1>1, LenProperties DEF Inv, TypeOK
<1> HIDE DEF t
<1> QED
  BY <1>1, <1>2, <1>3, <1>4 DEF Single, Doubled

\* A program that has not stopped on its own, or had reason to, goes on or stops for one
\* of the reasons allowed.
EndsFor ==
  /\ \/ exited' = exited
     \/ exited' \in {"asked", "late piece"}
     \/ exited' \in Reasons /\ (AskedFor(exited') \/ Doubled)
  /\ pc' = "spinning" => pc = "spinning" \/ AskedFor("endless read") \/ Doubled

\* The reasons stay as they are while nobody asks for a torrent.
LEMMA EndsKept ==
  ASSUME Inv, EndsFor, requested' = requested
  PROVE  EndsOnlyWhenAsked' /\ exited' \in Reasons
<1>1. EndsOnlyWhenAsked'
  <2> SUFFICES ASSUME \A t \in Torrents : Len(requested[t]) <= 1
               PROVE  /\ exited' \in {"no", "asked", "late piece"} \/ AskedFor(exited')
                      /\ pc' = "spinning" => AskedFor("endless read")
    BY DEF EndsOnlyWhenAsked, AskedFor
  <2>1. /\ exited \in {"no", "asked", "late piece"} \/ AskedFor(exited)
        /\ pc = "spinning" => AskedFor("endless read")
    BY DEF Inv, EndsOnlyWhenAsked
  <2>2. ~Doubled
    <3>1. \A t \in Torrents : Len(requested[t]) \in Nat
      BY LenProperties DEF Inv, TypeOK
    <3> QED
      BY <3>1 DEF Doubled
  <2> QED
    BY <2>1, <2>2 DEF EndsFor
<1>2. exited' \in Reasons
  BY DEF Inv, TypeOK, EndsFor, Reasons
<1> QED
  BY <1>1, <1>2

\* The values of the loop of the main thread and of the input thread.
LoopOK ==
  /\ pc' \in {"asleep", "alerts", "process", "spinning", "jobs", "active", "upload"}
  /\ pc' # "alerts" => popped' = <<>>
  /\ it' \in Nat \ {0}
  /\ EndsFor
  /\ shouldStop' \in BOOLEAN
  /\ input' \in {"serving", "ended"}

\* Steps in which nothing happens to a torrent: of the input thread that ends, of the
\* main thread between its loops or past an entry it leaves alone, of a job that goes on,
\* and those that end the program.
LEMMA QuietStep ==
  ASSUME Inv, LoopOK,
         UNCHANGED <<sessionVars, m_file_counter, m_pending_update, m_active_list,
                     m_upload_list, popped, requested>>,
         \/ m_media_list' = m_media_list
         \/ \E j \in DOMAIN m_media_list, p \in Phases : m_media_list' = [m_media_list EXCEPT ![j] = p],
         todo' \subseteq DOMAIN m_media_list
  PROVE  Inv'
<1> USE DEF sessionVars
<1>1. TypeOK /\ JobsOK /\ AllPlaced /\ SingleOK
  BY DEF Inv
<1>2. /\ DOMAIN m_media_list' = DOMAIN m_media_list
      /\ \A j \in DOMAIN m_media_list : m_media_list'[j] \in Phases
  BY <1>1 DEF TypeOK
<1>3. EndsOnlyWhenAsked' /\ exited' \in Reasons
  BY EndsKept DEF LoopOK
<1>4. TypeOK'
  BY <1>1, <1>2, <1>3, SetsKept DEF TypeOK, LoopOK
<1>5. JobsOK'
  BY <1>1, <1>2, JobsKept DEF LoopOK
<1>6. Quiet
  BY <1>2, PlaceKept DEF Quiet
<1>7. AllPlaced' /\ SingleOK'
  BY <1>1, <1>6, QuietKeeps
<1> QED
  BY <1>3, <1>4, <1>5, <1>7 DEF Inv

\* The loop and the input thread are as they were.
LEMMA LoopKept ==
  ASSUME Inv, UNCHANGED <<pc, popped, it, exited, shouldStop, input>>
  PROVE  LoopOK
BY DEF Inv, TypeOK, JobsOK, LoopOK, EndsFor

\* An exception ends the program for a reason.
LEMMA ThrowKeeps ==
  ASSUME Inv, NEW why, Throws(why),
         \/ why \in {"asked", "late piece"}
         \/ why \in Reasons /\ (AskedFor(why) \/ Doubled)
  PROVE  Inv'
<1>1. UNCHANGED <<sessionVars, managerVars, pc, popped, todo, it, inputVars>> /\ exited' = why
  BY DEF Throws
<1>2. LoopOK
  BY <1>1 DEF Inv, TypeOK, JobsOK, LoopOK, EndsFor, inputVars
<1>3. todo' \subseteq DOMAIN m_media_list
  BY <1>1 DEF Inv, TypeOK
<1> QED
  BY <1>1, <1>2, <1>3, QuietStep DEF managerVars, inputVars

-----------------------------------------------------------------------------
(* The input thread.                                                       *)

\* A request of a client keeps the invariant.
LEMMA AddKeeps ==
  ASSUME Inv, NEW t0 \in Torrents, NEW m \in BOOLEAN, NEW u \in BOOLEAN,
         add_torrent_download(t0, m, u)
  PROVE  Inv'
<1>0. TypeOK /\ JobsOK /\ AllPlaced /\ SingleOK /\ EndsOnlyWhenAsked
  BY DEF Inv
<1>1. /\ UNCHANGED <<alerts, torrentOf, alive, metadata, unheard, m_media_list, m_file_counter,
                     m_active_list, m_upload_list, pc, popped, todo, it, exited, shouldStop, input>>
      /\ m_pending_update' = m_pending_update \union (IF u THEN {PendingHash(t0, m)} ELSE {})
  BY DEF add_torrent_download, loopVars
<1>15. PICK ask \in Asked : ask.is_magnet = m /\ ask.upload_mode = u
                            /\ requested' = [requested EXCEPT ![t0] = Append(@, ask)]
  <2>1. [is_magnet |-> m, upload_mode |-> u] \in Asked
    BY DEF Asked
  <2> QED
    BY <2>1 DEF add_torrent_download
<1>2. PICK r \in Request : r.op = "add" /\ r.torrent = t0 /\ requests' = Append(requests, r)
  <2>1. [op |-> "add", torrent |-> t0, has_info |-> ~m] \in Request
    BY DEF Request
  <2> QED
    BY <2>1 DEF add_torrent_download
<1>3. /\ \A i \in Nat, h \in Nat : Place("remove", i, h)' <=> Place("remove", i, h)
      /\ \A t \in Torrents, i \in Nat : AddPending(t, i)' <=>
           AddPending(t, i) \/ (i = Len(requests) + 1 /\ t = t0)
      /\ requests' \in Seq(Request)
  BY <1>0, <1>2, RequestsAdd
<1>4. Moves("none", 1, "none", 0, 0)
  BY <1>1, <1>3, PlaceKept DEF Moves, Places
<1>14. "none" \notin Places /\ 1 \in Nat \ {0} /\ 0 \in Nat
  BY DEF Places
<1>5. /\ requested' \in [Torrents -> Seq(Asked)]
      /\ requested'[t0] = Append(requested[t0], ask)
      /\ \A t \in Torrents : t # t0 => requested'[t] = requested[t]
  <2>1. Append(requested[t0], ask) \in Seq(Asked)
    BY <1>0, AppendProperties DEF TypeOK
  <2> QED
    BY <1>0, <1>15, <2>1 DEF TypeOK
<1>6. /\ Len(requested'[t0]) = Len(requested[t0]) + 1
      /\ Len(requested[t0]) \in Nat
      /\ Len(requested[t0]) = 0 => requested[t0] = <<>>
      /\ requested'[t0] # <<>>
  <2>1. requested[t0] \in Seq(Asked)
    BY <1>0 DEF TypeOK
  <2> QED
    BY <1>5, <2>1, AppendProperties, EmptySeq, LenProperties
<1>7. TypeOK'
  <2>1. m_pending_update' \subseteq Torrents \union {V1Hash[t] : t \in Torrents}
    BY <1>0, <1>1 DEF TypeOK, PendingHash
  <2> QED
    BY <1>0, <1>1, <1>3, <1>5, <2>1, SetsKept DEF TypeOK
<1>8. JobsOK'
  BY <1>0, <1>1, JobsKept DEF JobsOK
<1>9. AllPlaced'
  <2> SUFFICES ASSUME NEW h, h \in alive, h \in metadata, h \notin unheard PROVE Placed(h)'
    BY <1>1 DEF AllPlaced
  <2>1. h \in Nat /\ Placed(h)
    BY <1>0, TorrentOfObject DEF TypeOK, AllPlaced
  <2> QED
    BY <1>0, <1>4, <1>14, <2>1, PlacedMoves
<1>10. EndsOnlyWhenAsked'
  <2>1. \A t \in Torrents : Len(requested'[t]) <= 1 => Len(requested[t]) <= 1
    BY <1>5, <1>6
  <2>2. \A t \in Torrents : requested[t] # <<>> => requested'[t] # <<>>
    BY <1>5, <1>6
  <2>3. \A d : AskedFor(d) => AskedFor(d)'
    BY <2>2 DEF AskedFor
  <2> QED
    BY <1>0, <1>1, <2>1, <2>3 DEF EndsOnlyWhenAsked, AskedFor
<1>11. \A h \in Nat : InOnePlace(h) => InOnePlace(h)'
  <2> SUFFICES ASSUME NEW h \in Nat, InOnePlace(h) PROVE InOnePlace(h)'
    OBVIOUS
  <2>1. JobsOf(h)' = JobsOf(h)
    BY <1>1 DEF JobsOf
  <2>2. Placed(h) => h \in alive' /\ h \in metadata'
    BY <1>1 DEF InOnePlace
  <2>3. \A w \in Places, i \in Nat : Place(w, i, h) /\ ~(w = "none" /\ i = 1) =>
           h \in alive' /\ h \in metadata'
    BY <2>2 DEF Placed
  <2>4. h = 0 /\ "none" \in Places =>
          /\ \A w \in Places, i \in Nat : Place(w, i, h) => w = "none" /\ i = 1
          /\ h \in alive' /\ h \in metadata'
    BY <1>14
  <2>5. JobsOf(h)' # {} => \/ "none" = "active" /\ h = 0
                           \/ JobsOf(h) # {} /\ ~("none" = "active" /\ Place("none", 1, h))
    BY <2>1
  <2> QED
    BY <1>0, <1>4, <1>14, <2>3, <2>4, <2>5, OnePlaceMoves
<1>12. SingleOK'
  <2> SUFFICES ASSUME NEW t \in Torrents, Single(t)'
               PROVE  /\ AddedOnce(t)'
                      /\ \A h \in Nat : ObjectOf(t, h)' => InOnePlace(h)'
                      /\ UploadPending(t)'
    BY DEF SingleOK
  <2>1. Single(t)
    BY <1>5, <1>6 DEF Single
  <2>2. /\ AddedOnce(t) /\ UploadPending(t)
        /\ \A h \in Nat : ObjectOf(t, h) => InOnePlace(h)
    BY <1>0, <2>1 DEF SingleOK
  <2>3. \A h \in Nat : ObjectOf(t, h)' <=> ObjectOf(t, h)
    BY <1>1 DEF ObjectOf
  <2>7. t = t0 => requested[t] = <<>>
    BY <1>6 DEF Single
  <2>4. t = t0 => /\ \A i \in Nat : ~AddPending(t, i)
                  /\ \A h \in Nat : ~ObjectOf(t, h)
    BY <2>2, <2>7 DEF AddedOnce
  <2>5. AddedOnce(t)'
    <3>1. CASE t = t0
      BY <1>3, <1>6, <2>3, <2>4, <3>1 DEF AddedOnce
    <3>2. CASE t # t0
      BY <1>3, <1>5, <2>2, <2>3, <3>2 DEF AddedOnce
    <3> QED
      BY <3>1, <3>2
  <2>6. UploadPending(t)'
    <3>1. CASE t = t0
      <4> SUFFICES ASSUME ToUpload(t)' PROVE t \in m_pending_update'
        BY <2>3, <2>4, <3>1 DEF UploadPending
      <4>1. requested[t0] = <<>>
        BY <2>7, <3>1
      <4>2. Append(<<>>, ask)[1] = ask
        OBVIOUS
      <4>3. requested'[t0][1] = ask
        BY <1>5, <4>1, <4>2
      <4>4. Recognised(t0, ask)
        BY <3>1, <4>3 DEF ToUpload, Recognised, PendingHash
      <4>5. u /\ PendingHash(t0, m) = t0
        BY <1>15, <4>4 DEF Recognised
      <4> QED
        BY <1>1, <3>1, <4>5
    <3>2. CASE t # t0
      <4>1. requested'[t] = requested[t] /\ \A i \in Nat : AddPending(t, i)' <=> AddPending(t, i)
        BY <1>3, <1>5, <3>2
      <4>2. ASSUME NEW h \in Nat
            PROVE  /\ JobsOf(h)' = JobsOf(h) /\ metadata' = metadata
                   /\ InAlert(h)' <=> InAlert(h)
        <5>1. \A i \in Nat : /\ Place("alerts", i, h)' <=> Place("alerts", i, h)
                             /\ Place("popped", i, h)' <=> Place("popped", i, h)
          BY <1>1, PlaceKept
        <5> QED
          BY <1>1, <5>1 DEF JobsOf, InAlert
      <4>3. m_pending_update \subseteq m_pending_update'
        BY <1>1
      <4> QED
        BY <2>2, <2>3, <4>1, <4>2, <4>3, ToUploadKept DEF UploadPending
    <3> QED
      BY <3>1, <3>2
  <2> QED
    BY <1>11, <2>2, <2>3, <2>5, <2>6
<1> QED
  BY <1>7, <1>8, <1>9, <1>10, <1>12 DEF Inv

-----------------------------------------------------------------------------
(* The session.                                                            *)

\* What a step of the session leaves alone.
LEMMA SessionFrame ==
  ASSUME Inv, UNCHANGED <<managerVars, loopVars, inputVars>>,
         \A h \in DOMAIN torrentOf : torrentOf'[h] = torrentOf[h]
  PROVE  /\ JobsOK' /\ EndsOnlyWhenAsked'
         /\ \A h : JobsOf(h)' = JobsOf(h)
         /\ \A t : Single(t)' <=> Single(t)
<1> USE DEF managerVars, loopVars, inputVars
<1>1. JobsOK'
  BY JobsKept DEF Inv, JobsOK
<1>2. EndsOnlyWhenAsked'
  BY DEF Inv, EndsOnlyWhenAsked, AskedFor
<1>3. \A h : JobsOf(h)' = JobsOf(h)
  BY DEF JobsOf
<1>4. \A t : Single(t)' <=> Single(t)
  BY DEF Single
<1> QED
  BY <1>1, <1>2, <1>3, <1>4

\* An object in an alert was in one before or has come to one.
LEMMA InAlertBefore ==
  ASSUME NEW v, NEW n \in Nat \ {0}, NEW w1, NEW k, NEW g, Moves(v, n, w1, k, g),
         NEW h \in Nat, InAlert(h)'
  PROVE  InAlert(h) \/ (h = g /\ w1 \in {"alerts", "popped"})
<1>1. PICK w \in {"alerts", "popped"}, i \in Nat : Place(w, i, h)'
  BY DEF InAlert
<1>2. w \in Places
  BY DEF Places
<1>3. \/ w = w1 /\ i = k /\ h = g
      \/ \E j \in Nat : Place(w, j, h) /\ ~(w = v /\ j = n)
  BY <1>1, <1>2, PlaceBefore
<1> QED
  BY <1>3 DEF InAlert

\* The sets of alerts, requests and jobs grow with the objects.
LEMMA SetsGrow ==
  ASSUME DOMAIN torrentOf \subseteq DOMAIN torrentOf'
  PROVE  /\ Alert \subseteq Alert' /\ Request \subseteq Request' /\ Job \subseteq Job'
         /\ [handle : DOMAIN torrentOf, old : BOOLEAN]
              \subseteq [handle : DOMAIN torrentOf', old : BOOLEAN]
<1>1. Alert \subseteq Alert'
  <2> DEFINE A == [kind : {"added", "metadata", "piece"}, handle : DOMAIN torrentOf, has_info : BOOLEAN]
             B == [kind : {"added", "metadata", "piece"}, handle : DOMAIN torrentOf', has_info : BOOLEAN]
  <2>1. A \subseteq B
    OBVIOUS
  <2> HIDE DEF A, B
  <2>2. Alert = A \union [kind : {"refused"}, handle : {0}, has_info : {FALSE}]
    BY DEF Alert, A
  <2>3. Alert' = B \union [kind : {"refused"}, handle : {0}, has_info : {FALSE}]
    BY DEF Alert, B
  <2> QED
    BY <2>1, <2>2, <2>3
<1>2. Request \subseteq Request'
  BY DEF Request
<1>3. Job \subseteq Job'
  BY DEF Job
<1> QED
  BY <1>1, <1>2, <1>3

\* An add that the session executes leaves its queue; its answer is an alert, if there is
\* room for it.
LEMMA SessionAnswers ==
  ASSUME TypeOK, requests # <<>>, Head(requests).op = "add", requests' = Tail(requests),
         NEW S, alerts \in Seq(S), NEW al \in S, NEW queued \in BOOLEAN,
         alerts' = IF queued THEN Append(alerts, al) ELSE alerts,
         UNCHANGED <<popped, m_active_list, m_upload_list>>,
         NEW w1, w1 = IF queued /\ al.has_info /\ al.kind \in {"added", "metadata"}
                      THEN "alerts" ELSE "none"
  PROVE  /\ Moves("remove", 1, w1, Len(alerts) + 1, al.handle)
         /\ \A h : ~Place("remove", 1, h)
         /\ \A t \in Torrents, i \in Nat : AddPending(t, i)' <=> i >= 1 /\ AddPending(t, i + 1)
         /\ \A t \in Torrents : t = Head(requests).torrent => AddPending(t, 1)
         /\ Head(requests).torrent \in Torrents /\ Head(requests).has_info \in BOOLEAN
         /\ Len(alerts) + 1 \in Nat
<1>1. /\ \A i \in Nat, h \in Nat : Place("remove", i, h)' <=> i >= 1 /\ Place("remove", i + 1, h)
      /\ \A t \in Torrents, i \in Nat : AddPending(t, i)' <=> i >= 1 /\ AddPending(t, i + 1)
      /\ 1 \in DOMAIN requests /\ Head(requests) = requests[1] /\ Head(requests) \in Request
  BY RequestsTail
<1>2. /\ \A i \in Nat, h \in Nat : Place("alerts", i, h)' <=>
           Place("alerts", i, h) \/ (queued /\ i = Len(alerts) + 1 /\ Adds(al, h))
      /\ Len(alerts) + 1 \in Nat
  BY AlertsAdd
<1>3. \A h : queued /\ Adds(al, h) <=> "alerts" = w1 /\ h = al.handle
  BY DEF Adds
<1>4. Moves("remove", 1, w1, Len(alerts) + 1, al.handle)
  <2> SUFFICES ASSUME NEW w \in Places, NEW i \in Nat, NEW h \in Nat
               PROVE  Place(w, i, h)' <=>
                        \/ w = w1 /\ i = Len(alerts) + 1 /\ h = al.handle
                        \/ IF w = "remove"
                           THEN i >= 1 /\ (IF i < 1 THEN Place(w, i, h) ELSE Place(w, i + 1, h))
                           ELSE Place(w, i, h)
    BY DEF Moves
  <2>1. CASE w = "alerts"
    BY <1>2, <1>3, <2>1
  <2>2. CASE w = "remove"
    BY <1>1, <2>2
  <2>3. CASE w \in {"popped", "active", "upload"}
    BY <2>3, PlaceKept
  <2> QED
    BY <2>1, <2>2, <2>3 DEF Places
<1>5. \A h : ~Place("remove", 1, h)
  BY <1>1 DEF Place
<1>6. \A t \in Torrents : t = Head(requests).torrent => AddPending(t, 1)
  BY <1>1 DEF AddPending
<1>7. Head(requests).torrent \in Torrents /\ Head(requests).has_info \in BOOLEAN
  <2>1. Head(requests) \in [op : {"add"}, torrent : Torrents, has_info : BOOLEAN]
    BY <1>1 DEF Request
  <2> QED
    BY <2>1
<1> QED
  BY <1>1, <1>2, <1>4, <1>5, <1>6, <1>7

\* No object loses its place when an add is answered.
LEMMA AnsweredPlaced ==
  ASSUME TypeOK, AllPlaced, NEW w1, NEW k \in Nat, NEW g \in Nat,
         Moves("remove", 1, w1, k, g), \A h : ~Place("remove", 1, h),
         \A h \in Nat : h \in alive' /\ h \in metadata' /\ h \notin unheard' =>
           \/ h \in alive /\ h \in metadata /\ h \notin unheard
           \/ h = g /\ w1 \in Places,
         alive' \subseteq Nat
  PROVE  AllPlaced'
<1> SUFFICES ASSUME NEW h, h \in alive', h \in metadata', h \notin unheard' PROVE Placed(h)'
  BY DEF AllPlaced
<1>1. h \in Nat /\ 1 \in Nat \ {0}
  OBVIOUS
<1>2. Placed(h) \/ (h = g /\ w1 \in Places)
  BY <1>1 DEF AllPlaced
<1>3. "remove" \in Places /\ Place("remove", 1, h) => h = g /\ w1 \in Places
  OBVIOUS
<1> QED
  BY <1>1, <1>2, <1>3, PlacedMoves

\* An object that the answer is not about stays where it is.
LEMMA AnsweredOthers ==
  ASSUME TypeOK, NEW w1, NEW k \in Nat, NEW g \in Nat,
         Moves("remove", 1, w1, k, g), \A h : ~Place("remove", 1, h),
         NEW h \in Nat, h # g, InOnePlace(h), h \in alive => h \in alive',
         h \in metadata => h \in metadata', JobsOf(h)' \subseteq JobsOf(h)
  PROVE  InOnePlace(h)'
<1>1. PICK v : v = "remove"
  OBVIOUS
<1>6. PICK n \in Nat \ {0} : n = 1
  <2>1. 1 \in Nat \ {0}
    OBVIOUS
  <2> QED
    BY <2>1
<1>7. Moves(v, n, w1, k, g)
  BY <1>1, <1>6
<1>2. Placed(h) => h \in alive' /\ h \in metadata'
  BY DEF InOnePlace
<1>3. h = g /\ w1 \in Places =>
        /\ \A w \in Places, i \in Nat : Place(w, i, h) => w = v /\ i = n
        /\ h \in alive' /\ h \in metadata'
  OBVIOUS
<1>4. \A w \in Places, i \in Nat : Place(w, i, h) /\ ~(w = v /\ i = n) =>
           h \in alive' /\ h \in metadata'
  BY <1>2 DEF Placed
<1>5. JobsOf(h)' # {} => \/ w1 = "active" /\ h = g
                         \/ JobsOf(h) # {} /\ ~(v = "active" /\ Place(v, n, h))
  BY <1>1
<1> QED
  BY <1>3, <1>4, <1>5, <1>7, OnePlaceMoves

\* A torrent whose object the answer is not about keeps its part of the invariant.
LEMMA AnsweredSingle ==
  ASSUME Inv, UNCHANGED <<managerVars, loopVars, inputVars>>,
         \A h \in DOMAIN torrentOf : torrentOf'[h] = torrentOf[h],
         NEW w1, NEW k \in Nat, NEW g \in Nat,
         Moves("remove", 1, w1, k, g), \A h : ~Place("remove", 1, h),
         \A s \in Torrents, i \in Nat : AddPending(s, i)' <=> i >= 1 /\ AddPending(s, i + 1),
         alive \subseteq alive', metadata \subseteq metadata',
         NEW t \in Torrents, Single(t),
         \A h \in Nat : ObjectOf(t, h)' <=> ObjectOf(t, h),
         ~ObjectOf(t, g)
  PROVE  /\ AddedOnce(t)' /\ UploadPending(t)'
         /\ \A h \in Nat : ObjectOf(t, h)' => InOnePlace(h)'
<1>1. /\ AddedOnce(t) /\ UploadPending(t)
      /\ \A h \in Nat : ObjectOf(t, h) => InOnePlace(h)
  BY DEF Inv, SingleOK
<1>2. UNCHANGED <<requested, m_pending_update>> /\ \A h : JobsOf(h)' = JobsOf(h)
  BY SessionFrame DEF inputVars, managerVars
<1>3. \A i \in Nat : AddPending(t, i)' => i + 1 \in Nat /\ AddPending(t, i + 1)
  OBVIOUS
<1>4. AddedOnce(t)'
  <2>1. ASSUME NEW i \in Nat, NEW j \in Nat, AddPending(t, i)', AddPending(t, j)' PROVE i = j
    <3>1. i + 1 = j + 1
      BY <1>1, <1>3, <2>1 DEF AddedOnce
    <3> QED
      BY <3>1
  <2> QED
    BY <1>1, <1>2, <1>3, <2>1 DEF AddedOnce
<1>5. ASSUME NEW h \in Nat, ObjectOf(t, h)
      PROVE  InOnePlace(h)' /\ (InAlert(h)' => InAlert(h)) /\ (h \notin metadata' => h \notin metadata)
  <2>1. h # g /\ InOnePlace(h) /\ JobsOf(h)' = JobsOf(h) /\ 1 \in Nat \ {0}
    BY <1>1, <1>2, <1>5
  <2>2. InOnePlace(h)'
    BY <2>1, AnsweredOthers DEF Inv
  <2>3. InAlert(h)' => InAlert(h)
    BY <2>1, InAlertBefore
  <2> QED
    BY <2>2, <2>3
<1>6. UploadPending(t)'
  BY <1>1, <1>2, <1>3, <1>5, ToUploadKept DEF UploadPending
<1> QED
  BY <1>4, <1>5, <1>6

\* A torrent whose add is executed had no object before.
LEMMA AnsweredFirst ==
  ASSUME Inv, \A s \in Torrents, i \in Nat : AddPending(s, i)' <=> i >= 1 /\ AddPending(s, i + 1),
         NEW t \in Torrents, Single(t), AddPending(t, 1)
  PROVE  /\ \A h \in Nat : ~ObjectOf(t, h)
         /\ \A i \in Nat : ~AddPending(t, i)'
         /\ requested[t] # <<>>
         /\ ToUpload(t) => t \in m_pending_update
<1>1. AddedOnce(t) /\ UploadPending(t) /\ 1 \in Nat
  BY DEF Inv, SingleOK
<1>2. ASSUME NEW i \in Nat, AddPending(t, i)' PROVE FALSE
  <2>1. i >= 1 /\ AddPending(t, i + 1) /\ i + 1 \in Nat
    BY <1>2
  <2>2. i + 1 = 1
    BY <1>1, <2>1 DEF AddedOnce
  <2> QED
    BY <2>1, <2>2
<1> QED
  BY <1>1, <1>2 DEF AddedOnce, UploadPending

\* What the session does for a torrent it did not have.
NewObject(t0, fresh, info, queued) ==
  /\ requests # <<>> /\ Head(requests).op = "add" /\ requests' = Tail(requests)
  /\ t0 = Head(requests).torrent
  /\ fresh = Len(torrentOf) + 1
  /\ info = Head(requests).has_info
  /\ torrentOf' = Append(torrentOf, t0)
  /\ alive' = alive \union {fresh}
  /\ metadata' = IF info THEN metadata \union {fresh} ELSE metadata
  /\ alerts' = IF queued
               THEN Append(alerts, [kind |-> "added", handle |-> fresh, has_info |-> info])
               ELSE alerts
  /\ unheard' = IF queued THEN unheard ELSE unheard \union {fresh}

\* The session adds a torrent it did not have.
LEMMA AddsFreshKeeps ==
  ASSUME Inv, UNCHANGED <<managerVars, loopVars, inputVars>>, NEW t0, NEW fresh, NEW info,
         NEW queued \in BOOLEAN, NewObject(t0, fresh, info, queued)
  PROVE  Inv'
<1> USE DEF managerVars, loopVars, inputVars, NewObject
<1>0. TypeOK /\ JobsOK /\ AllPlaced /\ SingleOK
  BY DEF Inv
<1>1. t0 \in Torrents /\ info \in BOOLEAN
  <2>1. Head(requests) \in Request
    BY <1>0, RequestsTail
  <2>2. Head(requests) \in [op : {"add"}, torrent : Torrents, has_info : BOOLEAN]
    BY <2>1 DEF Request
  <2> QED
    BY <2>2
<1>2. /\ torrentOf' \in Seq(Torrents)
      /\ \A i \in Nat : i \in DOMAIN torrentOf' <=> i \in DOMAIN torrentOf \/ i = fresh
      /\ \A h \in DOMAIN torrentOf : torrentOf'[h] = torrentOf[h]
      /\ torrentOf'[fresh] = t0
      /\ fresh \in Nat /\ fresh \notin DOMAIN torrentOf
      /\ DOMAIN torrentOf \subseteq Nat
  <2>1. torrentOf \in Seq(Torrents)
    BY <1>0 DEF TypeOK
  <2> QED
    BY <1>1, <2>1, AppendIndex
<1>3. DOMAIN torrentOf \subseteq DOMAIN torrentOf' /\ fresh \in DOMAIN torrentOf'
  BY <1>2
<1>4. PICK al \in Alert' : /\ al.kind = "added" /\ al.handle = fresh /\ al.has_info = info
                           /\ alerts' = IF queued THEN Append(alerts, al) ELSE alerts
  <2>1. [kind |-> "added", handle |-> fresh, has_info |-> info]
           \in [kind : {"added", "metadata", "piece"}, handle : DOMAIN torrentOf', has_info : BOOLEAN]
    BY <1>1, <1>3
  <2>2. [kind |-> "added", handle |-> fresh, has_info |-> info] \in Alert'
    BY <2>1 DEF Alert
  <2> QED
    BY <2>2
<1>5. alerts \in Seq(Alert') /\ popped \in Seq(Alert')
  BY <1>0, <1>3, SetsGrow, SeqMonotonic DEF TypeOK
<1>6. PICK w1 : w1 = IF queued /\ al.has_info /\ al.kind \in {"added", "metadata"}
                   THEN "alerts" ELSE "none"
  OBVIOUS
<1>7. /\ Moves("remove", 1, w1, Len(alerts) + 1, al.handle)
      /\ \A h : ~Place("remove", 1, h)
      /\ \A t \in Torrents, i \in Nat : AddPending(t, i)' <=> i >= 1 /\ AddPending(t, i + 1)
      /\ \A t \in Torrents : t = Head(requests).torrent => AddPending(t, 1)
      /\ Len(alerts) + 1 \in Nat
  BY <1>0, <1>4, <1>5, <1>6, SessionAnswers
<1>8. Moves("remove", 1, w1, Len(alerts) + 1, fresh)
  BY <1>4, <1>7
<1>9. w1 = IF queued /\ info THEN "alerts" ELSE "none"
  BY <1>4, <1>6
<1>10. TypeOK'
  <2>1. /\ requests' \in Seq(Request') /\ alerts' \in Seq(Alert') /\ popped' \in Seq(Alert')
        /\ m_active_list' \in Seq(DOMAIN torrentOf')
        /\ m_upload_list' \in Seq([handle : DOMAIN torrentOf', old : BOOLEAN])
        /\ DOMAIN m_media_list' \subseteq Job'
    <3>1. requests' \in Seq(Request')
      <4>1. requests' \in Seq(Request)
        BY <1>0, RequestsTail DEF TypeOK
      <4> QED
        BY <4>1, <1>3, SetsGrow, SeqMonotonic
    <3>2. alerts' \in Seq(Alert')
      BY <1>4, <1>5, AppendProperties
    <3>3. m_active_list' \in Seq(DOMAIN torrentOf')
      <4>1. m_active_list' = m_active_list /\ m_active_list \in Seq(DOMAIN torrentOf)
        BY <1>0 DEF TypeOK
      <4> QED
        BY <4>1, <1>3, SeqMonotonic
    <3>4. m_upload_list' \in Seq([handle : DOMAIN torrentOf', old : BOOLEAN])
      <4>1. m_upload_list' = m_upload_list
            /\ m_upload_list \in Seq([handle : DOMAIN torrentOf, old : BOOLEAN])
        BY <1>0 DEF TypeOK
      <4> QED
        BY <4>1, <1>3, SetsGrow, SeqMonotonic
    <3>5. DOMAIN m_media_list' \subseteq Job'
      BY <1>0, <1>3, SetsGrow DEF TypeOK
    <3> QED
      BY <1>5, <3>1, <3>2, <3>3, <3>4, <3>5
  <2>2. /\ metadata' \subseteq DOMAIN torrentOf' /\ alive' \subseteq DOMAIN torrentOf'
        /\ unheard' \subseteq DOMAIN torrentOf'
    BY <1>0, <1>3 DEF TypeOK
  <2> QED
    BY <1>0, <1>2, <2>1, <2>2 DEF TypeOK
<1>11. /\ JobsOK' /\ EndsOnlyWhenAsked'
       /\ \A h : JobsOf(h)' = JobsOf(h)
       /\ \A t : Single(t)' <=> Single(t)
  BY <1>2, SessionFrame
<1>12. AllPlaced'
  <2>1. \A h \in Nat : h \in alive' /\ h \in metadata' /\ h \notin unheard' =>
           \/ h \in alive /\ h \in metadata /\ h \notin unheard
           \/ h = fresh /\ w1 \in Places
    <3> SUFFICES ASSUME NEW h \in Nat, h \in alive', h \in metadata', h \notin unheard',
                        ~(h \in alive /\ h \in metadata /\ h \notin unheard)
                 PROVE  h = fresh /\ w1 \in Places
      OBVIOUS
    <3>1. h \in metadata => h # fresh
      BY <1>0, <1>2 DEF TypeOK
    <3>2. h = fresh /\ info /\ queued
      BY <3>1
    <3> QED
      BY <1>9, <3>2 DEF Places
  <2>2. alive' \subseteq Nat
    BY <1>0, <1>2 DEF TypeOK
  <2> QED
    BY <1>0, <1>2, <1>7, <1>8, <2>1, <2>2, AnsweredPlaced
<1>13. SingleOK'
  <2> SUFFICES ASSUME NEW t \in Torrents, Single(t)'
               PROVE  /\ AddedOnce(t)' /\ UploadPending(t)'
                      /\ \A h \in Nat : ObjectOf(t, h)' => InOnePlace(h)'
    BY DEF SingleOK
  <2>1. Single(t)
    BY <1>11
  <2>2. \A h \in Nat : ObjectOf(t, h)' <=> ObjectOf(t, h) \/ (t = t0 /\ h = fresh)
    BY <1>2 DEF ObjectOf
  <2>3. CASE t # t0
    <3>1. \A h \in Nat : ObjectOf(t, h)' <=> ObjectOf(t, h)
      BY <2>2, <2>3
    <3>2. ~ObjectOf(t, fresh)
      BY <1>2 DEF ObjectOf
    <3>3. alive \subseteq alive' /\ metadata \subseteq metadata'
      OBVIOUS
    <3> QED
      BY <1>2, <1>7, <1>8, <2>1, <3>1, <3>2, <3>3, AnsweredSingle
  <2>4. CASE t = t0
    <3>1. AddPending(t, 1)
      BY <1>7, <2>4
    <3>2. /\ \A h \in Nat : ~ObjectOf(t, h)
          /\ \A i \in Nat : ~AddPending(t, i)'
          /\ requested[t] # <<>>
          /\ ToUpload(t) => t \in m_pending_update
      BY <1>7, <2>1, <3>1, AnsweredFirst
    <3>3. AddedOnce(t)'
      BY <1>2, <2>2, <3>2 DEF AddedOnce
    <3>4. JobsOf(fresh) = {}
      BY <1>0, <1>2 DEF JobsOf, TypeOK, Job
    <3>5. UploadPending(t)'
      BY <1>11, <2>2, <3>2, <3>4, ToUploadKept DEF UploadPending
    <3>6. \A w \in Places, i \in Nat : ~Place(w, i, fresh)
      BY <1>0, <1>2, PlaceTyped
    <3>7. \A w \in Places, i \in Nat : Place(w, i, fresh)' => w = w1 /\ i = Len(alerts) + 1
      BY <1>2, <1>8, <3>6, PlaceBefore
    <3>8. InOnePlace(fresh)'
      <4>1. Unique(fresh)'
        BY <3>7 DEF Unique
      <4>2. Placed(fresh)' => fresh \in alive' /\ fresh \in metadata'
        BY <1>9, <3>7 DEF Placed, Places
      <4>3. JobsOf(fresh)' = {}
        BY <1>11, <3>4
      <4> QED
        BY <4>1, <4>2, <4>3 DEF InOnePlace
    <3> QED
      BY <2>2, <3>2, <3>3, <3>5, <3>8
  <2> QED
    BY <2>3, <2>4
<1> QED
  BY <1>10, <1>11, <1>12, <1>13 DEF Inv

\* The session answers an add with an object it has, or an error.
LEMMA AnswerKeeps ==
  ASSUME Inv, UNCHANGED <<managerVars, loopVars, inputVars, torrentOf, alive, metadata>>,
         requests # <<>>, Head(requests).op = "add", requests' = Tail(requests),
         NEW al \in Alert, NEW queued \in BOOLEAN,
         alerts' = IF queued THEN Append(alerts, al) ELSE alerts,
         unheard' = IF queued /\ al.kind = "added" /\ al.has_info THEN unheard \ {al.handle}
                                                                 ELSE unheard,
         al.kind = "added" => /\ al.handle \in alive
                              /\ torrentOf[al.handle] = Head(requests).torrent,
         al.kind \in {"added", "refused"},
         al.handle \in Nat
  PROVE  Inv'
<1> USE DEF managerVars, loopVars, inputVars
<1>0. TypeOK /\ JobsOK /\ AllPlaced /\ SingleOK
  BY DEF Inv
<1>1. alerts \in Seq(Alert)
  BY <1>0 DEF TypeOK
<1>2. PICK w1 : w1 = IF queued /\ al.has_info /\ al.kind \in {"added", "metadata"}
                   THEN "alerts" ELSE "none"
  OBVIOUS
<1>3. /\ Moves("remove", 1, w1, Len(alerts) + 1, al.handle)
      /\ \A h : ~Place("remove", 1, h)
      /\ \A t \in Torrents, i \in Nat : AddPending(t, i)' <=> i >= 1 /\ AddPending(t, i + 1)
      /\ \A t \in Torrents : t = Head(requests).torrent => AddPending(t, 1)
      /\ Len(alerts) + 1 \in Nat
  BY <1>0, <1>1, <1>2, SessionAnswers
<1>4. TypeOK'
  <2>1. requests' \in Seq(Request)
    BY <1>0, RequestsTail DEF TypeOK
  <2>2. alerts' \in Seq(Alert)
    BY <1>1, AppendProperties
  <2> QED
    BY <1>0, <2>1, <2>2, SetsKept DEF TypeOK
<1>5. /\ JobsOK' /\ EndsOnlyWhenAsked'
      /\ \A h : JobsOf(h)' = JobsOf(h)
      /\ \A t : Single(t)' <=> Single(t)
  BY SessionFrame
<1>6. AllPlaced'
  <2>1. alive' \subseteq Nat
    BY <1>0, TorrentOfObject DEF TypeOK
  <2>2. \A h \in Nat : h \in alive' /\ h \in metadata' /\ h \notin unheard' =>
           \/ h \in alive /\ h \in metadata /\ h \notin unheard
           \/ h = al.handle /\ w1 \in Places
    BY <1>2 DEF Places
  <2> QED
    BY <1>0, <1>3, <2>1, <2>2, AnsweredPlaced
<1>7. SingleOK'
  <2> SUFFICES ASSUME NEW t \in Torrents, Single(t)'
               PROVE  /\ AddedOnce(t)' /\ UploadPending(t)'
                      /\ \A h \in Nat : ObjectOf(t, h)' => InOnePlace(h)'
    BY DEF SingleOK
  <2>1. Single(t)
    BY <1>5
  <2>2. \A h \in Nat : ObjectOf(t, h)' <=> ObjectOf(t, h)
    BY DEF ObjectOf
  <2>3. ~ObjectOf(t, al.handle)
    <3>1. CASE al.kind = "added"
      <4> SUFFICES ASSUME ObjectOf(t, al.handle) PROVE FALSE
        OBVIOUS
      <4>1. AddPending(t, 1)
        BY <1>3, <3>1 DEF ObjectOf
      <4> QED
        BY <1>3, <2>1, <4>1, AnsweredFirst
    <3>2. CASE al.kind = "refused"
      <4>1. al.handle = 0
        BY <3>2 DEF Alert
      <4> QED
        BY <1>0, <4>1, TorrentOfObject DEF ObjectOf
    <3> QED
      BY <3>1, <3>2
  <2>4. alive \subseteq alive' /\ metadata \subseteq metadata'
        /\ \A h \in DOMAIN torrentOf : torrentOf'[h] = torrentOf[h]
    OBVIOUS
  <2> QED
    BY <1>3, <2>1, <2>2, <2>3, <2>4, AnsweredSingle
<1> QED
  BY <1>4, <1>5, <1>6, <1>7 DEF Inv

\* The session removes an object.
LEMMA RemovesKeeps ==
  ASSUME Inv, UNCHANGED <<managerVars, loopVars, inputVars>>, SessionRemoves
  PROVE  Inv'
<1> USE DEF managerVars, loopVars, inputVars
<1>0. TypeOK /\ JobsOK /\ AllPlaced /\ SingleOK
  BY DEF Inv
<1>1. /\ requests # <<>> /\ Head(requests).op = "remove" /\ requests' = Tail(requests)
      /\ UNCHANGED <<alerts, torrentOf, metadata, unheard>>
  BY DEF SessionRemoves
<1>2. /\ \A i \in Nat, h \in Nat : Place("remove", i, h)' <=> i >= 1 /\ Place("remove", i + 1, h)
      /\ \A t \in Torrents, i \in Nat : AddPending(t, i)' <=> i >= 1 /\ AddPending(t, i + 1)
      /\ 1 \in DOMAIN requests /\ Head(requests) = requests[1] /\ Head(requests) \in Request
      /\ requests' \in Seq(Request)
  BY <1>0, <1>1, RequestsTail DEF TypeOK
<1>3. PICK g \in DOMAIN torrentOf : g = Head(requests).handle /\ alive' = alive \ {g}
  <2>1. Head(requests) \in [op : {"remove"}, handle : DOMAIN torrentOf]
    BY <1>1, <1>2 DEF Request
  <2> QED
    BY <2>1 DEF SessionRemoves
<1>4. \A h : Place("remove", 1, h) <=> h = g
  BY <1>1, <1>2, <1>3 DEF Place
<1>5. Moves("remove", 1, "none", 0, 0)
  <2> SUFFICES ASSUME NEW w \in Places, NEW i \in Nat, NEW h \in Nat
               PROVE  Place(w, i, h)' <=>
                        IF w = "remove"
                        THEN i >= 1 /\ (IF i < 1 THEN Place(w, i, h) ELSE Place(w, i + 1, h))
                        ELSE Place(w, i, h)
    BY DEF Moves, Places
  <2>1. CASE w = "remove"
    BY <1>2, <2>1
  <2>2. CASE w \in {"alerts", "popped", "active", "upload"}
    BY <1>1, <2>2, PlaceKept
  <2> QED
    BY <2>1, <2>2 DEF Places
<1>6. TypeOK'
  BY <1>0, <1>1, <1>2, <1>3, SetsKept DEF TypeOK
<1>7. /\ JobsOK' /\ EndsOnlyWhenAsked'
      /\ \A h : JobsOf(h)' = JobsOf(h)
      /\ \A t : Single(t)' <=> Single(t)
  BY <1>1, SessionFrame
<1>8. "none" \notin Places /\ "remove" \in Places /\ 1 \in Nat \ {0} /\ 0 \in Nat /\ g \in Nat
  BY <1>0, TorrentOfObject DEF Places
<1>9. AllPlaced'
  <2> SUFFICES ASSUME NEW h, h \in alive', h \in metadata', h \notin unheard' PROVE Placed(h)'
    BY DEF AllPlaced
  <2>1. h \in alive /\ h \in metadata /\ h \notin unheard /\ h # g
    BY <1>1, <1>3
  <2>2. h \in Nat /\ Placed(h)
    BY <1>0, <2>1, TorrentOfObject DEF TypeOK, AllPlaced
  <2>3. "remove" \in Places /\ Place("remove", 1, h) => h = 0 /\ "none" \in Places
    BY <1>4, <2>1
  <2> QED
    BY <1>0, <1>5, <1>8, <2>2, <2>3, PlacedMoves
<1>10. ASSUME NEW h \in Nat, InOnePlace(h) PROVE InOnePlace(h)'
  <2>1. h = 0 /\ "none" \in Places =>
          /\ \A w \in Places, i \in Nat : Place(w, i, h) => w = "remove" /\ i = 1
          /\ h \in alive' /\ h \in metadata'
    BY <1>8
  <2>2. \A w \in Places, i \in Nat : Place(w, i, h) /\ ~(w = "remove" /\ i = 1) =>
           h \in alive' /\ h \in metadata'
    <3> SUFFICES ASSUME NEW w \in Places, NEW i \in Nat, Place(w, i, h), ~(w = "remove" /\ i = 1)
                 PROVE  h \in alive' /\ h \in metadata'
      OBVIOUS
    <3>1. h \in alive /\ h \in metadata
      BY <1>10 DEF InOnePlace, Placed
    <3>2. h # g
      <4>1. Unique(h)
        BY <1>10 DEF InOnePlace
      <4> QED
        BY <1>4, <1>8, <4>1 DEF Unique
    <3> QED
      BY <1>1, <1>3, <3>1, <3>2
  <2>3. PICK v : v = "remove"
    OBVIOUS
  <2>4. JobsOf(h)' # {} => \/ "none" = "active" /\ h = 0
                           \/ JobsOf(h) # {} /\ ~(v = "active" /\ Place(v, 1, h))
    BY <1>7, <2>3
  <2>5. Moves(v, 1, "none", 0, 0)
    BY <1>5, <2>3
  <2>6. h = 0 /\ "none" \in Places =>
          /\ \A w \in Places, i \in Nat : Place(w, i, h) => w = v /\ i = 1
          /\ h \in alive' /\ h \in metadata'
    BY <2>1, <2>3
  <2>7. \A w \in Places, i \in Nat : Place(w, i, h) /\ ~(w = v /\ i = 1) =>
           h \in alive' /\ h \in metadata'
    BY <2>2, <2>3
  <2>8. TypeOK /\ 1 \in Nat \ {0}
    BY <1>0
  <2> QED
    BY <1>10, <2>4, <2>5, <2>6, <2>7, <2>8, OnePlaceMoves
<1>11. SingleOK'
  <2> SUFFICES ASSUME NEW t \in Torrents, Single(t)'
               PROVE  /\ AddedOnce(t)' /\ UploadPending(t)'
                      /\ \A h \in Nat : ObjectOf(t, h)' => InOnePlace(h)'
    BY DEF SingleOK
  <2>1. /\ AddedOnce(t) /\ UploadPending(t)
        /\ \A h \in Nat : ObjectOf(t, h) => InOnePlace(h)
    BY <1>0, <1>7 DEF SingleOK
  <2>2. \A h \in Nat : ObjectOf(t, h)' <=> ObjectOf(t, h)
    BY <1>1 DEF ObjectOf
  <2>3. \A i \in Nat : AddPending(t, i)' => i + 1 \in Nat /\ AddPending(t, i + 1)
    BY <1>2
  <2>4. AddedOnce(t)'
    <3>1. ASSUME NEW i \in Nat, NEW j \in Nat, AddPending(t, i)', AddPending(t, j)' PROVE i = j
      <4>1. i + 1 = j + 1
        BY <2>1, <2>3, <3>1 DEF AddedOnce
      <4> QED
        BY <4>1
    <3> QED
      BY <2>1, <2>2, <2>3, <3>1 DEF AddedOnce
  <2>5. \A h \in Nat : InAlert(h)' => InAlert(h)
    BY <1>5, <1>8, InAlertBefore
  <2>6. UploadPending(t)'
    BY <1>1, <1>7, <2>1, <2>2, <2>3, <2>5, ToUploadKept DEF UploadPending
  <2> QED
    BY <1>10, <2>1, <2>2, <2>4, <2>6
<1> QED
  BY <1>6, <1>7, <1>9, <1>11 DEF Inv

\* A torrent object gets its files; the alert that says so may be dropped.
LEMMA MetadataKeeps ==
  ASSUME Inv, UNCHANGED <<managerVars, loopVars, inputVars>>, NEW g, MetadataReceived(g)
  PROVE  Inv'
<1> USE DEF managerVars, loopVars, inputVars
<1>0. TypeOK /\ JobsOK /\ AllPlaced /\ SingleOK
  BY DEF Inv
<1>1. /\ g \in alive /\ g \notin metadata /\ metadata' = metadata \union {g}
      /\ UNCHANGED <<requests, torrentOf, alive>>
      /\ g \in DOMAIN torrentOf /\ g \in Nat
  BY <1>0, TorrentOfObject DEF MetadataReceived, TypeOK
<1>2. PICK al \in Alert, queued \in BOOLEAN :
        /\ al.kind = "metadata" /\ al.handle = g /\ al.has_info
        /\ alerts' = IF queued THEN Append(alerts, al) ELSE alerts
        /\ unheard' = IF queued THEN unheard ELSE unheard \union {g}
  <2>1. PICK al \in Alert : al = [kind |-> "metadata", handle |-> g, has_info |-> TRUE]
    BY <1>1 DEF Alert
  <2>2. \/ alerts' = Append(alerts, al) /\ unheard' = unheard
        \/ alerts' = alerts /\ unheard' = unheard \union {g}
    BY <2>1 DEF MetadataReceived, Alerts
  <2> QED
    BY <2>1, <2>2
<1>3. /\ \A i \in Nat, h \in Nat : Place("alerts", i, h)' <=>
           Place("alerts", i, h) \/ (queued /\ i = Len(alerts) + 1 /\ Adds(al, h))
      /\ Len(alerts) + 1 \in Nat
      /\ alerts' \in Seq(Alert)
  BY <1>0, <1>2, AlertsAdd DEF TypeOK
<1>4. \A h : Adds(al, h) <=> h = g
  BY <1>2 DEF Adds
<1>12. PICK w1 : w1 = IF queued THEN "alerts" ELSE "none"
  OBVIOUS
<1>5. Moves("none", 1, w1, Len(alerts) + 1, g)
  <2> SUFFICES ASSUME NEW w \in Places, NEW i \in Nat, NEW h \in Nat
               PROVE  Place(w, i, h)' <=>
                        Place(w, i, h) \/ (w = w1 /\ i = Len(alerts) + 1 /\ h = g)
    BY DEF Moves, Places
  <2>1. CASE w = "alerts"
    BY <1>3, <1>4, <1>12, <2>1
  <2>2. CASE w \in {"remove", "popped", "active", "upload"}
    BY <1>1, <1>12, <2>2, PlaceKept
  <2> QED
    BY <2>1, <2>2 DEF Places
<1>6. TypeOK'
  <2>1. unheard' \subseteq DOMAIN torrentOf
    BY <1>0, <1>1, <1>2 DEF TypeOK
  <2> QED
    BY <1>0, <1>1, <1>3, <2>1, SetsKept DEF TypeOK
<1>7. /\ JobsOK' /\ EndsOnlyWhenAsked'
      /\ \A h : JobsOf(h)' = JobsOf(h)
      /\ \A t : Single(t)' <=> Single(t)
  BY <1>1, SessionFrame
<1>8. "none" \notin Places /\ "alerts" \in Places /\ 1 \in Nat \ {0}
  BY DEF Places
<1>9. AllPlaced'
  <2> SUFFICES ASSUME NEW h, h \in alive', h \in metadata', h \notin unheard' PROVE Placed(h)'
    BY DEF AllPlaced
  <2>1. h \in Nat /\ (Placed(h) \/ (h = g /\ w1 \in Places))
    BY <1>0, <1>1, <1>2, <1>8, <1>12, TorrentOfObject DEF TypeOK, AllPlaced
  <2>2. "none" \in Places /\ Place("none", 1, h) => h = g /\ w1 \in Places
    BY <1>8
  <2> QED
    BY <1>0, <1>1, <1>3, <1>5, <1>8, <2>1, <2>2, PlacedMoves
<1>10. ASSUME NEW h \in Nat, InOnePlace(h) PROVE InOnePlace(h)'
  <2>1. h = g => \A w \in Places, i \in Nat : ~Place(w, i, h)
    BY <1>1, <1>10 DEF InOnePlace, Placed
  <2>2. PICK v : v = "none"
    OBVIOUS
  <2>4. PICK k \in Nat : k = Len(alerts) + 1
    BY <1>3
  <2>5. Moves(v, 1, w1, k, g)
    BY <1>5, <2>2, <2>4
  <2>6. h = g /\ w1 \in Places =>
          /\ \A w \in Places, i \in Nat : Place(w, i, h) => w = v /\ i = 1
          /\ h \in alive' /\ h \in metadata'
    BY <1>1, <2>1
  <2>7. \A w \in Places, i \in Nat : Place(w, i, h) /\ ~(w = v /\ i = 1) =>
           h \in alive' /\ h \in metadata'
    BY <1>1, <1>10 DEF InOnePlace, Placed
  <2>8. JobsOf(h)' # {} => \/ w1 = "active" /\ h = g
                           \/ JobsOf(h) # {} /\ ~(v = "active" /\ Place(v, 1, h))
    BY <1>7, <2>2
  <2>9. TypeOK /\ 1 \in Nat \ {0}
    BY <1>0
  <2> QED
    BY <1>10, <2>5, <2>6, <2>7, <2>8, <2>9, OnePlaceMoves
<1>11. SingleOK'
  <2> SUFFICES ASSUME NEW t \in Torrents, Single(t)'
               PROVE  /\ AddedOnce(t)' /\ UploadPending(t)'
                      /\ \A h \in Nat : ObjectOf(t, h)' => InOnePlace(h)'
    BY DEF SingleOK
  <2>1. /\ AddedOnce(t) /\ UploadPending(t)
        /\ \A h \in Nat : ObjectOf(t, h) => InOnePlace(h)
    BY <1>0, <1>7 DEF SingleOK
  <2>2. \A h \in Nat : ObjectOf(t, h)' <=> ObjectOf(t, h)
    BY <1>1 DEF ObjectOf
  <2>3. \A i \in Nat : AddPending(t, i)' <=> AddPending(t, i)
    BY <1>1 DEF AddPending
  <2>4. AddedOnce(t)'
    BY <2>1, <2>2, <2>3 DEF AddedOnce
  <2>5. \A h \in Nat : h \notin metadata' \/ InAlert(h)' => h \notin metadata \/ InAlert(h)
    <3>1. \A h \in Nat : InAlert(h)' => InAlert(h) \/ h = g
      BY <1>5, <1>8, InAlertBefore
    <3> QED
      BY <1>1, <3>1
  <2>6. UploadPending(t)'
    BY <1>7, <2>1, <2>2, <2>3, <2>5, ToUploadKept DEF UploadPending
  <2> QED
    BY <1>10, <2>1, <2>2, <2>4, <2>6
<1> QED
  BY <1>6, <1>7, <1>9, <1>11 DEF Inv

\* A piece is finished.
LEMMA PieceKeeps ==
  ASSUME Inv, UNCHANGED <<managerVars, loopVars, inputVars>>, NEW g, PieceFinished(g)
  PROVE  Inv'
<1> USE DEF managerVars, loopVars, inputVars
<1>0. TypeOK /\ JobsOK /\ AllPlaced /\ SingleOK
  BY DEF Inv
<1>1. g \in DOMAIN torrentOf /\ UNCHANGED <<requests, torrentOf, alive, metadata, unheard>>
  BY <1>0 DEF PieceFinished, TypeOK
<1>2. PICK al \in Alert, queued \in BOOLEAN :
        al.kind = "piece" /\ alerts' = IF queued THEN Append(alerts, al) ELSE alerts
  <2>1. [kind |-> "piece", handle |-> g, has_info |-> TRUE] \in Alert
    BY <1>1 DEF Alert
  <2>2. alerts' = IF TRUE THEN Append(alerts, [kind |-> "piece", handle |-> g, has_info |-> TRUE])
                          ELSE alerts
    BY DEF PieceFinished, Alerts
  <2> QED
    BY <2>1, <2>2
<1>3. /\ \A i \in Nat, h \in Nat : Place("alerts", i, h)' <=>
           Place("alerts", i, h) \/ (queued /\ i = Len(alerts) + 1 /\ Adds(al, h))
      /\ alerts' \in Seq(Alert)
  BY <1>0, <1>2, AlertsAdd DEF TypeOK
<1>4. \A i \in Nat, h \in Nat : Place("alerts", i, h)' <=> Place("alerts", i, h)
  BY <1>2, <1>3 DEF Adds
<1>5. Quiet
  BY <1>1, <1>4, PlaceKept DEF Quiet
<1>6. TypeOK'
  BY <1>0, <1>1, <1>3, SetsKept DEF TypeOK
<1>7. JobsOK' /\ EndsOnlyWhenAsked'
  BY <1>1, SessionFrame
<1> QED
  BY <1>0, <1>5, <1>6, <1>7, QuietKeeps DEF Inv

\* What the session does for a torrent it has.
AnswersWith(h, info, queued) ==
  /\ alerts' = IF queued
               THEN Append(alerts, [kind |-> "added", handle |-> h, has_info |-> info])
               ELSE alerts
  /\ unheard' = IF queued /\ info THEN unheard \ {h} ELSE unheard
  /\ UNCHANGED <<torrentOf, alive, metadata>>

\* Every step of the session keeps the invariant.
LEMMA SessionKeeps ==
  ASSUME Inv, Session
  PROVE  Inv'
<1>1. UNCHANGED <<managerVars, loopVars, inputVars>>
  BY DEF Session
<1>2. CASE SessionAdds
  <2>1. requests # <<>> /\ Head(requests).op = "add" /\ requests' = Tail(requests)
    BY <1>2 DEF SessionAdds
  <2>2. PICK t0 : t0 = Head(requests).torrent
    OBVIOUS
  <2>3. PICK info : info = Head(requests).has_info
    OBVIOUS
  <2>4. CASE \E queued \in BOOLEAN : NewObject(t0, Len(torrentOf) + 1, info, queued)
    <3>1. PICK fresh : fresh = Len(torrentOf) + 1
      OBVIOUS
    <3>2. PICK queued \in BOOLEAN : NewObject(t0, fresh, info, queued)
      BY <2>4, <3>1
    <3> QED
      BY <1>1, <3>2, AddsFreshKeeps
  <2>5. CASE \E h \in InSession(t0), queued \in BOOLEAN : AnswersWith(h, info, queued)
    <3>1. PICK h \in InSession(t0), queued \in BOOLEAN : AnswersWith(h, info, queued)
      BY <2>5
    <3>2. h \in alive /\ torrentOf[h] = t0 /\ h \in DOMAIN torrentOf /\ h \in Nat
      BY TorrentOfObject DEF InSession, Inv, TypeOK
    <3>3. info \in BOOLEAN
      <4>1. Head(requests) \in Request
        BY <2>1, RequestsTail DEF Inv
      <4>2. Head(requests) \in [op : {"add"}, torrent : Torrents, has_info : BOOLEAN]
        BY <2>1, <4>1 DEF Request
      <4> QED
        BY <2>3, <4>2
    <3>4. PICK al \in Alert : al = [kind |-> "added", handle |-> h, has_info |-> info]
      BY <3>2, <3>3 DEF Alert
    <3>5. /\ al.kind = "added" => /\ al.handle \in alive
                                  /\ torrentOf[al.handle] = Head(requests).torrent
          /\ al.kind \in {"added", "refused"} /\ al.handle \in Nat
      BY <2>2, <3>2, <3>4
    <3>6. /\ alerts' = IF queued THEN Append(alerts, al) ELSE alerts
          /\ unheard' = IF queued /\ al.kind = "added" /\ al.has_info
                        THEN unheard \ {al.handle} ELSE unheard
          /\ UNCHANGED <<torrentOf, alive, metadata>>
      BY <3>1, <3>4 DEF AnswersWith
    <3> QED
      BY <1>1, <2>1, <3>5, <3>6, AnswerKeeps
  <2>6. \/ NewObject(t0, Len(torrentOf) + 1, info, TRUE)
        \/ NewObject(t0, Len(torrentOf) + 1, info, FALSE)
        \/ \E h \in InSession(t0) : AnswersWith(h, info, TRUE) \/ AnswersWith(h, info, FALSE)
    BY <1>2, <2>1, <2>2, <2>3 DEF SessionAdds, Alerts, NewObject, AnswersWith
  <2> QED
    BY <2>4, <2>5, <2>6
<1>3. CASE SessionRefuses
  <2>1. /\ requests # <<>> /\ Head(requests).op = "add" /\ requests' = Tail(requests)
        /\ UNCHANGED <<torrentOf, alive, metadata, unheard>>
    BY <1>3 DEF SessionRefuses
  <2>2. PICK al \in Alert : al = [kind |-> "refused", handle |-> 0, has_info |-> FALSE]
    BY DEF Alert
  <2>3. /\ al.kind = "added" => /\ al.handle \in alive
                                /\ torrentOf[al.handle] = Head(requests).torrent
        /\ al.kind \in {"added", "refused"} /\ al.handle \in Nat
    BY <2>2
  <2>4. PICK queued \in BOOLEAN : queued
    OBVIOUS
  <2>5. /\ alerts' = IF queued THEN Append(alerts, al) ELSE alerts
        /\ unheard' = IF queued /\ al.kind = "added" /\ al.has_info
                      THEN unheard \ {al.handle} ELSE unheard
    BY <1>3, <2>1, <2>2, <2>4 DEF SessionRefuses, Alerts
  <2> QED
    BY <1>1, <2>1, <2>3, <2>5, AnswerKeeps
<1>4. CASE SessionRemoves
  BY <1>1, <1>4, RemovesKeeps
<1>5. CASE \E h \in alive : MetadataReceived(h) \/ PieceFinished(h)
  BY <1>1, <1>5, MetadataKeeps, PieceKeeps
<1> QED
  BY <1>2, <1>3, <1>4, <1>5 DEF Session, SessionExecutes

-----------------------------------------------------------------------------
(* The main thread: alerts.                                                *)

\* handle_loop pops the alerts: every object in an alert is in a popped one.
LEMMA PopKeeps ==
  ASSUME Inv, PopAlerts
  PROVE  Inv'
<1>0. TypeOK /\ JobsOK /\ AllPlaced /\ SingleOK
  BY DEF Inv
<1>1. /\ pc = "asleep" /\ pc' = "alerts" /\ popped' = alerts /\ alerts' = <<>>
      /\ UNCHANGED <<requests, torrentOf, alive, metadata, unheard, m_media_list, m_file_counter,
                     m_pending_update, m_active_list, m_upload_list, todo, it, exited,
                     shouldStop, input, requested>>
  BY DEF PopAlerts, managerVars, inputVars
<1>2. popped = <<>>
  BY <1>0, <1>1 DEF JobsOK
<1>3. /\ \A i \in Nat, h \in Nat : Place("popped", i, h)' <=> Place("alerts", i, h)
      /\ \A i \in Nat, h \in Nat : ~Place("popped", i, h)
      /\ \A i \in Nat, h \in Nat : ~Place("alerts", i, h)'
  BY <1>1, <1>2 DEF Place, Adds
<1>4. \A i \in Nat, h \in Nat, w \in {"active", "upload", "remove"} :
        Place(w, i, h)' <=> Place(w, i, h)
  BY <1>1, PlaceKept
<1>5. ASSUME NEW h \in Nat
      PROVE  /\ Placed(h)' <=> Placed(h)
             /\ InAlert(h)' <=> InAlert(h)
             /\ Unique(h) => Unique(h)'
             /\ JobsOf(h)' \subseteq JobsOf(h)
  <2>1. Placed(h)' <=> Placed(h)
    BY <1>3, <1>4 DEF Placed, Places
  <2>2. InAlert(h)' <=> InAlert(h)
    BY <1>3 DEF InAlert
  <2>3. Unique(h) => Unique(h)'
    <3> SUFFICES ASSUME Unique(h), NEW x \in Places, NEW y \in Places, NEW i \in Nat, NEW j \in Nat,
                        Place(x, i, h)', Place(y, j, h)'
                 PROVE  x = y /\ i = j
      BY DEF Unique
    <3>1. CASE x = "popped" /\ y = "popped"
      BY <1>3, <3>1 DEF Unique, Places
    <3>2. CASE x = "popped" /\ y \in {"active", "upload", "remove"}
      <4>1. Place("alerts", i, h) /\ Place(y, j, h)
        BY <1>3, <1>4, <3>2
      <4> QED
        BY <3>2, <4>1 DEF Unique, Places
    <3>3. CASE y = "popped" /\ x \in {"active", "upload", "remove"}
      <4>1. Place("alerts", j, h) /\ Place(x, i, h)
        BY <1>3, <1>4, <3>3
      <4> QED
        BY <3>3, <4>1 DEF Unique, Places
    <3>4. CASE x \in {"active", "upload", "remove"} /\ y \in {"active", "upload", "remove"}
      <4>1. Place(x, i, h) /\ Place(y, j, h)
        BY <1>4, <3>4
      <4> QED
        BY <4>1 DEF Unique
    <3>5. x # "alerts" /\ y # "alerts"
      BY <1>3
    <3> QED
      BY <3>1, <3>2, <3>3, <3>4, <3>5 DEF Places
  <2>4. JobsOf(h)' \subseteq JobsOf(h)
    BY <1>1 DEF JobsOf
  <2> QED
    BY <2>1, <2>2, <2>3, <2>4
<1>6. TypeOK'
  <2>1. alerts' \in Seq(Alert) /\ popped' \in Seq(Alert)
    BY <1>0, <1>1, EmptySeq DEF TypeOK
  <2> QED
    BY <1>0, <1>1, <2>1, SetsKept DEF TypeOK
<1>7. JobsOK'
  BY <1>0, <1>1, JobsKept
<1>8. AllPlaced'
  <2> SUFFICES ASSUME NEW h, h \in alive, h \in metadata, h \notin unheard PROVE Placed(h)'
    BY <1>1 DEF AllPlaced
  <2>1. h \in Nat /\ Placed(h)
    BY <1>0, TorrentOfObject DEF TypeOK, AllPlaced
  <2> QED
    BY <1>5, <2>1
<1>9. SingleOK'
  <2> SUFFICES ASSUME NEW t \in Torrents, Single(t)'
               PROVE  /\ AddedOnce(t)' /\ UploadPending(t)'
                      /\ \A h \in Nat : ObjectOf(t, h)' => InOnePlace(h)'
    BY DEF SingleOK
  <2>1. /\ AddedOnce(t) /\ UploadPending(t)
        /\ \A h \in Nat : ObjectOf(t, h) => InOnePlace(h)
    BY <1>0, <1>1 DEF SingleOK, Single
  <2>2. \A h \in Nat : ObjectOf(t, h)' <=> ObjectOf(t, h)
    BY <1>1 DEF ObjectOf
  <2>3. \A i \in Nat : AddPending(t, i)' <=> AddPending(t, i)
    BY <1>1 DEF AddPending
  <2>4. AddedOnce(t)'
    BY <1>1, <2>1, <2>2, <2>3 DEF AddedOnce
  <2>5. UploadPending(t)'
    BY <1>1, <1>5, <2>1, <2>2, <2>3, ToUploadKept DEF UploadPending
  <2>6. ASSUME NEW h \in Nat, InOnePlace(h) PROVE InOnePlace(h)'
    <3>1. JobsOf(h)' # {} => \E i \in Nat : Place("active", i, h)'
      BY <1>4, <1>5, <2>6 DEF InOnePlace
    <3>2. (Placed(h)' => h \in alive' /\ h \in metadata') /\ Unique(h)'
      BY <1>1, <1>5, <2>6 DEF InOnePlace
    <3> QED
      BY <3>1, <3>2 DEF InOnePlace
  <2> QED
    BY <2>1, <2>2, <2>4, <2>5, <2>6
<1>10. EndsOnlyWhenAsked'
  BY <1>1 DEF Inv, EndsOnlyWhenAsked, AskedFor
<1> QED
  BY <1>6, <1>7, <1>8, <1>9, <1>10 DEF Inv

\* A step that handles an object keeps the invariant with the types and the counters.
LEMMA HandledKeeps ==
  ASSUME Inv, NEW v, NEW n \in Nat \ {0}, NEW w1, NEW k \in Nat, NEW g \in Nat,
         Handled(v, n, w1, k, g), TypeOK', JobsOK', UNCHANGED <<pc, exited>>
  PROVE  Inv'
<1>1. requested' = requested
  BY DEF Handled
<1>2. EndsOnlyWhenAsked'
  BY <1>1 DEF Inv, EndsOnlyWhenAsked, AskedFor
<1> QED
  BY <1>2, HandledPlaced, HandledSingle DEF Inv

\* What is at the head of the popped alerts.
LEMMA PoppedHead ==
  ASSUME TypeOK, popped # <<>>, NEW al, al = Head(popped)
  PROVE  /\ al \in Alert /\ al.handle \in Nat
         /\ \A h : Place("popped", 1, h) <=> Adds(al, h)
<1>1. 1 \in DOMAIN popped /\ Head(popped) = popped[1] /\ Head(popped) \in Alert
  BY TailIndex DEF TypeOK
<1>2. \A h : Place("popped", 1, h) <=> Adds(al, h)
  BY <1>1 DEF Place
<1>3. al.handle \in Nat
  <2>1. CASE al \in [kind : {"added", "metadata", "piece"}, handle : DOMAIN torrentOf, has_info : BOOLEAN]
    BY <2>1, TorrentOfObject
  <2>2. CASE al \in [kind : {"refused"}, handle : {0}, has_info : {FALSE}]
    BY <2>2
  <2> QED
    BY <1>1, <2>1, <2>2 DEF Alert
<1> QED
  BY <1>1, <1>2, <1>3

\* An alert that hands over no object, or one without its files, changes nothing else.
LEMMA AlertDropped ==
  ASSUME Inv, pc = "alerts", popped # <<>>, popped' = Tail(popped), NEW al, al = Head(popped),
         UNCHANGED <<sessionVars, managerVars, pc, todo, it, exited, inputVars>>,
         Adds(al, al.handle) => al.handle \notin metadata
  PROVE  Inv'
<1> USE DEF sessionVars, managerVars, inputVars
<1>0. TypeOK /\ JobsOK
  BY DEF Inv
<1>1. /\ \A i \in Nat, h \in Nat : Place("popped", i, h)' <=> i >= 1 /\ Place("popped", i + 1, h)
      /\ popped' \in Seq(Alert)
  BY <1>0, PoppedTail
<1>2. al.handle \in Nat /\ \A h : Place("popped", 1, h) <=> Adds(al, h)
  BY <1>0, PoppedHead
<1>3. TypeOK'
  BY <1>0, <1>1, SetsKept DEF TypeOK
<1>4. JobsOK'
  BY <1>0, JobsKept
<1>5. PICK g \in Nat : g = al.handle
  BY <1>2
<1>6. Moves("popped", 1, "none", 0, g)
  <2> SUFFICES ASSUME NEW w \in Places, NEW i \in Nat, NEW h \in Nat
               PROVE  Place(w, i, h)' <=>
                        IF w = "popped"
                        THEN i >= 1 /\ (IF i < 1 THEN Place(w, i, h) ELSE Place(w, i + 1, h))
                        ELSE Place(w, i, h)
    BY DEF Moves, Places
  <2>1. CASE w = "popped"
    BY <1>1, <2>1
  <2>2. CASE w \in {"alerts", "remove", "active", "upload"}
    BY <2>2, PlaceKept
  <2> QED
    BY <2>1, <2>2 DEF Places
<1>7. \A t \in Torrents, i \in Nat : AddPending(t, i)' <=> AddPending(t, i)
  BY DEF AddPending
<1>8. \A h \in Nat : JobsOf(h)' \subseteq JobsOf(h)
  BY DEF JobsOf
<1>9. /\ \A h \in Nat : Place("popped", 1, h) => h = g
      /\ Place("popped", 1, g) => g \notin metadata
  BY <1>2, <1>5 DEF Adds
<1>10. Handled("popped", 1, "none", 0, g)
  BY <1>6, <1>7, <1>8, <1>9 DEF Handled, Places
<1> QED
  BY <1>3, <1>4, <1>10, HandledKeeps

\* An object of a torrent that is to be uploaded goes to the upload list.
LEMMA AlertUploads ==
  ASSUME Inv, pc = "alerts", popped # <<>>, popped' = Tail(popped), NEW al, al = Head(popped),
         UNCHANGED <<sessionVars, pc, todo, it, exited, inputVars>>,
         NEW g, g = al.handle, Adds(al, g), g \in alive, g \in metadata,
         m_upload_list' = Append(m_upload_list, [handle |-> g, old |-> FALSE]),
         m_pending_update' = m_pending_update \ {torrentOf[g]},
         UNCHANGED <<m_media_list, m_file_counter, m_active_list>>
  PROVE  Inv'
<1> USE DEF sessionVars, inputVars
<1>0. TypeOK /\ JobsOK
  BY DEF Inv
<1>1. /\ \A i \in Nat, h \in Nat : Place("popped", i, h)' <=> i >= 1 /\ Place("popped", i + 1, h)
      /\ popped' \in Seq(Alert)
  BY <1>0, PoppedTail
<1>2. \A h : Place("popped", 1, h) <=> Adds(al, h)
  BY <1>0, PoppedHead
<1>3. g \in DOMAIN torrentOf /\ g \in Nat
  BY <1>0, TorrentOfObject DEF TypeOK
<1>4. /\ \A i \in Nat, h \in Nat : Place("upload", i, h)' <=>
              Place("upload", i, h) \/ (i = Len(m_upload_list) + 1 /\ h = g)
      /\ Len(m_upload_list) + 1 \in Nat
      /\ m_upload_list' \in Seq([handle : DOMAIN torrentOf, old : BOOLEAN])
  BY <1>0, <1>3, UploadAdd
<1>5. TypeOK'
  BY <1>0, <1>1, <1>4, SetsKept DEF TypeOK
<1>6. JobsOK'
  BY <1>0, JobsKept
<1>7. PICK k \in Nat : k = Len(m_upload_list) + 1
  BY <1>4
<1>8. Moves("popped", 1, "upload", k, g)
  <2> SUFFICES ASSUME NEW w \in Places, NEW i \in Nat, NEW h \in Nat
               PROVE  Place(w, i, h)' <=>
                        \/ w = "upload" /\ i = k /\ h = g
                        \/ IF w = "popped"
                           THEN i >= 1 /\ (IF i < 1 THEN Place(w, i, h) ELSE Place(w, i + 1, h))
                           ELSE Place(w, i, h)
    BY DEF Moves
  <2>1. CASE w = "popped"
    BY <1>1, <2>1
  <2>2. CASE w = "upload"
    BY <1>4, <1>7, <2>2
  <2>3. CASE w \in {"alerts", "remove", "active"}
    BY <2>3, PlaceKept
  <2> QED
    BY <2>1, <2>2, <2>3 DEF Places
<1>9. \A t \in Torrents, i \in Nat : AddPending(t, i)' <=> AddPending(t, i)
  BY DEF AddPending
<1>10. \A h \in Nat : JobsOf(h)' \subseteq JobsOf(h)
  BY DEF JobsOf
<1>11. (\A h \in Nat : Place("popped", 1, h) => h = g) /\ Place("popped", 1, g)
  BY <1>2 DEF Adds
<1>12. Handled("popped", 1, "upload", k, g)
  BY <1>8, <1>9, <1>10, <1>11 DEF Handled, Places
<1> QED
  BY <1>3, <1>5, <1>6, <1>12, HandledKeeps

\* What it means to set a counter.
LEMMA CounterSet ==
  ASSUME NEW S, NEW f \in [S -> Int], NEW c \in S, NEW v \in Int
  PROVE  /\ [f EXCEPT ![c] = v] \in [S -> Int]
         /\ [f EXCEPT ![c] = v][c] = v
         /\ \A t \in S : t # c => [f EXCEPT ![c] = v][t] = f[t]
OBVIOUS

\* The jobs a torrent gets are counted.
LEMMA NewJobsCounted ==
  ASSUME TypeOK, JobsOK, NEW g \in DOMAIN torrentOf, torrentOf' = torrentOf,
         m_media_list' = [j \in DOMAIN m_media_list \union NewJobs(g) |->
                            IF j \in NewJobs(g) THEN "gathering" ELSE m_media_list[j]],
         m_file_counter' = [m_file_counter EXCEPT ![torrentOf[g]] = @ + MediaFiles[torrentOf[g]]]
  PROVE  /\ DOMAIN m_media_list' \subseteq Job /\ DOMAIN m_media_list \subseteq DOMAIN m_media_list'
         /\ \A j \in DOMAIN m_media_list' : m_media_list'[j] \in Phases
         /\ m_file_counter' \in [Torrents \union {NoHash} -> Int]
         /\ \A t \in Torrents : m_file_counter'[t] >= 0
         /\ IsFiniteSet(DOMAIN m_media_list)'
         /\ CounterCoversJobs'
         /\ \A h : JobsOf(h)' \subseteq JobsOf(h) \/ h = g
<1> DEFINE N == NewJobs(g)
           t0 == torrentOf[g]
<1>1. /\ N \subseteq Job
      /\ \A j \in N : j.handle = g /\ j \notin DOMAIN m_media_list
      /\ IsFiniteSet(N)
      /\ Cardinality(N) = MediaFiles[t0]
  BY NewJobsAreNew DEF JobsOK
<1>2. DOMAIN m_media_list' = DOMAIN m_media_list \union N
  OBVIOUS
<1>3. t0 \in Torrents /\ MediaFiles[t0] \in Nat
  BY TorrentOfObject, ManagerAssumption
<1>4. /\ m_file_counter' \in [Torrents \union {NoHash} -> Int]
      /\ m_file_counter'[t0] = m_file_counter[t0] + MediaFiles[t0]
      /\ \A t \in Torrents : t # t0 => m_file_counter'[t] = m_file_counter[t]
      /\ \A t \in Torrents : m_file_counter[t] \in Int /\ m_file_counter[t] >= 0
  <2>1. /\ m_file_counter \in [Torrents \union {NoHash} -> Int]
        /\ \A t \in Torrents : m_file_counter[t] \in Int /\ m_file_counter[t] >= 0
    BY DEF TypeOK
  <2>2. PICK v \in Int : v = m_file_counter[t0] + MediaFiles[t0]
    BY <1>3, <2>1
  <2>3. m_file_counter' = [m_file_counter EXCEPT ![t0] = v]
    BY <2>2
  <2> HIDE DEF t0
  <2>4. LET f == [m_file_counter EXCEPT ![t0] = v]
        IN  /\ f \in [Torrents \union {NoHash} -> Int] /\ f[t0] = v
            /\ \A t \in Torrents \union {NoHash} : t # t0 => f[t] = m_file_counter[t]
    BY <1>3, <2>1, CounterSet
  <2> QED
    BY <2>1, <2>2, <2>3, <2>4
<1>5. \A j \in DOMAIN m_media_list' : m_media_list'[j] \in Phases
  <2>1. \A j \in DOMAIN m_media_list' :
          m_media_list'[j] = IF j \in N THEN "gathering" ELSE m_media_list[j]
    OBVIOUS
  <2>2. \A j \in DOMAIN m_media_list : m_media_list[j] \in Phases
    BY DEF TypeOK
  <2> HIDE DEF N
  <2> QED
    BY <1>2, <2>1, <2>2 DEF Phases
<1> HIDE DEF N, t0
<1>6. IsFiniteSet(DOMAIN m_media_list)'
  <2>1. IsFiniteSet(DOMAIN m_media_list \union N)
    BY <1>1, FS_Union DEF JobsOK
  <2> QED
    BY <1>2, <2>1
<1>7. ASSUME NEW t \in Torrents PROVE m_file_counter'[t] >= Cardinality(JobsOfTorrent(t)')
  <2>1. m_file_counter[t] >= Cardinality(JobsOfTorrent(t))
    BY DEF JobsOK, CounterCoversJobs
  <2>2. IsFiniteSet(JobsOfTorrent(t)) /\ Cardinality(JobsOfTorrent(t)) \in Nat
    BY JobsFinite
  <2>3. CASE t = t0
    <3>1. JobsOfTorrent(t)' = JobsOfTorrent(t) \union N
      BY <1>1, <1>2, <2>3 DEF JobsOfTorrent, t0
    <3>2. JobsOfTorrent(t) \intersect N = {}
      BY <1>1 DEF JobsOfTorrent
    <3>3. Cardinality(JobsOfTorrent(t) \union N) = Cardinality(JobsOfTorrent(t)) + Cardinality(N) - 0
      BY <1>1, <2>2, <3>2, FS_Union, FS_EmptySet
    <3> QED
      BY <1>1, <1>3, <1>4, <2>1, <2>2, <2>3, <3>1, <3>3
  <2>4. CASE t # t0
    <3>1. JobsOfTorrent(t)' = JobsOfTorrent(t)
      BY <1>1, <1>2, <2>4 DEF JobsOfTorrent, t0
    <3> QED
      BY <1>4, <2>1, <2>4, <3>1
  <2> QED
    BY <2>3, <2>4
<1>8. \A t \in Torrents : m_file_counter'[t] >= 0
  BY <1>3, <1>4
<1>9. \A h : JobsOf(h)' \subseteq JobsOf(h) \/ h = g
  BY <1>1, <1>2 DEF JobsOf
<1> QED
  BY <1>1, <1>2, <1>4, <1>5, <1>6, <1>7, <1>8, <1>9 DEF TypeOK, CounterCoversJobs

\* What moves when the object of the first popped alert comes to the active list.
LEMMA AlertMovesToActive ==
  ASSUME TypeOK, popped # <<>>, popped' = Tail(popped), NEW g \in DOMAIN torrentOf, g \in Nat,
         m_active_list' = Append(m_active_list, g),
         UNCHANGED <<requests, alerts, torrentOf, m_upload_list>>
  PROVE  \E k \in Nat : Moves("popped", 1, "active", k, g)
<1>1. \A i \in Nat, h \in Nat : Place("popped", i, h)' <=> i >= 1 /\ Place("popped", i + 1, h)
  BY PoppedTail
<1>2. /\ \A i \in Nat, h \in Nat : Place("active", i, h)' <=>
              Place("active", i, h) \/ (i = Len(m_active_list) + 1 /\ h = g)
      /\ Len(m_active_list) + 1 \in Nat
  BY ActiveAdd
<1>3. PICK k \in Nat : k = Len(m_active_list) + 1
  BY <1>2
<1>4. Moves("popped", 1, "active", k, g)
  <2> SUFFICES ASSUME NEW w \in Places, NEW i \in Nat, NEW h \in Nat
               PROVE  Place(w, i, h)' <=>
                        \/ w = "active" /\ i = k /\ h = g
                        \/ IF w = "popped"
                           THEN i >= 1 /\ (IF i < 1 THEN Place(w, i, h) ELSE Place(w, i + 1, h))
                           ELSE Place(w, i, h)
    BY DEF Moves
  <2>1. CASE w = "popped"
    BY <1>1, <2>1
  <2>2. CASE w = "active"
    BY <1>2, <1>3, <2>2
  <2>3. CASE w \in {"alerts", "remove", "upload"}
    BY <2>3, PlaceKept
  <2> QED
    BY <2>1, <2>2, <2>3 DEF Places
<1> QED
  BY <1>4

\* An object of any other torrent goes to the active list and gets its jobs.
LEMMA AlertActivates ==
  ASSUME Inv, pc = "alerts", popped # <<>>, popped' = Tail(popped), NEW al, al = Head(popped),
         UNCHANGED <<sessionVars, pc, todo, it, exited, inputVars>>,
         NEW g, g = al.handle, Adds(al, g), g \in alive, g \in metadata,
         torrentOf[g] \notin m_pending_update,
         m_active_list' = Append(m_active_list, g),
         m_media_list' = [j \in DOMAIN m_media_list \union NewJobs(g) |->
                            IF j \in NewJobs(g) THEN "gathering" ELSE m_media_list[j]],
         m_file_counter' = [m_file_counter EXCEPT ![torrentOf[g]] = @ + MediaFiles[torrentOf[g]]],
         UNCHANGED <<m_pending_update, m_upload_list>>
  PROVE  Inv'
<1> USE DEF sessionVars, inputVars
<1>0. TypeOK /\ JobsOK
  BY DEF Inv
<1>1. /\ \A i \in Nat, h \in Nat : Place("popped", i, h)' <=> i >= 1 /\ Place("popped", i + 1, h)
      /\ popped' \in Seq(Alert)
  BY <1>0, PoppedTail
<1>2. \A h : Place("popped", 1, h) <=> Adds(al, h)
  BY <1>0, PoppedHead
<1>3. g \in DOMAIN torrentOf /\ g \in Nat
  BY <1>0, TorrentOfObject DEF TypeOK
<1>4. /\ \A i \in Nat, h \in Nat : Place("active", i, h)' <=>
              Place("active", i, h) \/ (i = Len(m_active_list) + 1 /\ h = g)
      /\ Len(m_active_list) + 1 \in Nat
      /\ m_active_list' \in Seq(DOMAIN torrentOf)
  BY <1>0, <1>3, ActiveAdd
<1>5. /\ DOMAIN m_media_list' \subseteq Job /\ DOMAIN m_media_list \subseteq DOMAIN m_media_list'
      /\ \A j \in DOMAIN m_media_list' : m_media_list'[j] \in Phases
      /\ m_file_counter' \in [Torrents \union {NoHash} -> Int]
      /\ \A t \in Torrents : m_file_counter'[t] >= 0
      /\ IsFiniteSet(DOMAIN m_media_list)'
      /\ CounterCoversJobs'
      /\ \A h : JobsOf(h)' \subseteq JobsOf(h) \/ h = g
  BY <1>0, <1>3, NewJobsCounted
<1>6. TypeOK'
  <2>1. todo' \subseteq DOMAIN m_media_list'
    BY <1>0, <1>5 DEF TypeOK
  <2> QED
    BY <1>0, <1>1, <1>4, <1>5, <2>1, SetsKept DEF TypeOK
<1>7. JobsOK'
  BY <1>5 DEF JobsOK
<1>8. PICK k \in Nat : Moves("popped", 1, "active", k, g)
  BY <1>0, <1>3, AlertMovesToActive
<1>10. \A t \in Torrents, i \in Nat : AddPending(t, i)' <=> AddPending(t, i)
  BY DEF AddPending
<1>11. (\A h \in Nat : Place("popped", 1, h) => h = g) /\ Place("popped", 1, g)
  BY <1>2 DEF Adds
<1>12. UNCHANGED <<torrentOf, alive, metadata, unheard, requested, m_pending_update>>
  OBVIOUS
<1>13. Handled("popped", 1, "active", k, g)
  <2>1. \A h \in Nat : JobsOf(h)' \subseteq JobsOf(h) \/ h = g
    BY <1>5
  <2> QED
    BY <1>8, <1>10, <1>11, <1>12, <2>1 DEF Handled, Places
<1> QED
  BY <1>3, <1>6, <1>7, <1>13, HandledKeeps

\* handle_loop handles the next alert.
LEMMA HandleAlertKeeps ==
  ASSUME Inv, HandleAlert
  PROVE  Inv'
<1>0. TypeOK /\ JobsOK /\ pc = "alerts" /\ popped # <<>>
  BY DEF Inv, HandleAlert
<1>1. PICK al : al = Head(popped)
  OBVIOUS
<1>2. /\ al \in Alert /\ al.handle \in Nat
      /\ \A h : Place("popped", 1, h) <=> Adds(al, h)
  BY <1>0, <1>1, PoppedHead
<1>3. PICK adds \in BOOLEAN : adds <=> al.kind \in {"added", "metadata"} /\ al.has_info
  OBVIOUS
<1>4. adds <=> Adds(al, al.handle)
  BY <1>3 DEF Adds
<1>5. \/ /\ adds \/ al.kind = "piece"
         /\ al.handle \notin alive
         /\ Throws(IF adds THEN "added a dead torrent" ELSE "late piece")
      \/ /\ adds \/ al.kind = "piece" => al.handle \in alive
         /\ popped' = Tail(popped)
         /\ IF adds THEN handle_torrent_add(al.handle) ELSE UNCHANGED managerVars
         /\ UNCHANGED <<sessionVars, pc, todo, it, exited, inputVars>>
  BY <1>1, <1>3 DEF HandleAlert
<1>6. CASE /\ ~adds
           /\ Throws(IF adds THEN "added a dead torrent" ELSE "late piece")
  <2>1. Throws("late piece")
    BY <1>6
  <2> QED
    BY <2>1, ThrowKeeps
<1>7. CASE /\ adds /\ al.handle \notin alive
           /\ Throws(IF adds THEN "added a dead torrent" ELSE "late piece")
  <2>1. Throws("added a dead torrent")
    BY <1>7
  <2>2. PICK g \in Nat : g = al.handle
    BY <1>2
  <2>3. Place("popped", 1, g)
    BY <1>2, <1>4, <1>7, <2>2 DEF Adds
  <2>4. Placed(g)
    BY <2>3 DEF Placed, Places
  <2>5. g \in DOMAIN torrentOf
    BY <1>2, <1>4, <1>7, <2>2, AddsTyped
  <2>6. Doubled
    BY <1>7, <2>2, <2>4, <2>5, DeadIsDouble
  <2>7. "added a dead torrent" \in Reasons
    BY DEF Reasons
  <2> QED
    BY <2>1, <2>6, <2>7, ThrowKeeps
<1>8. CASE /\ adds \/ al.kind = "piece" => al.handle \in alive
           /\ popped' = Tail(popped)
           /\ IF adds THEN handle_torrent_add(al.handle) ELSE UNCHANGED managerVars
           /\ UNCHANGED <<sessionVars, pc, todo, it, exited, inputVars>>
  <2>1. PICK g \in Nat : g = al.handle
    BY <1>2
  <2>2. CASE ~adds
    BY <1>0, <1>1, <1>4, <1>8, <2>2, AlertDropped
  <2>3. CASE adds
    <3>1. handle_torrent_add(g) /\ g \in alive /\ Adds(al, g)
      BY <1>4, <1>8, <2>1, <2>3
    <3>2. CASE g \notin metadata
      <4>1. UNCHANGED managerVars
        BY <3>1, <3>2 DEF handle_torrent_add
      <4> QED
        BY <1>0, <1>1, <1>8, <2>1, <3>2, <4>1, AlertDropped
    <3>3. CASE g \in metadata /\ torrentOf[g] \in m_pending_update
      <4>1. /\ m_upload_list' = Append(m_upload_list, [handle |-> g, old |-> FALSE])
            /\ m_pending_update' = m_pending_update \ {torrentOf[g]}
            /\ UNCHANGED <<m_media_list, m_file_counter, m_active_list>>
        BY <3>1, <3>3 DEF handle_torrent_add
      <4> QED
        BY <1>0, <1>1, <1>8, <2>1, <3>1, <3>3, <4>1, AlertUploads
    <3>4. CASE g \in metadata /\ torrentOf[g] \notin m_pending_update
      <4>1. /\ m_active_list' = Append(m_active_list, g)
            /\ m_media_list' = [j \in DOMAIN m_media_list \union NewJobs(g) |->
                                  IF j \in NewJobs(g) THEN "gathering" ELSE m_media_list[j]]
            /\ m_file_counter' = [m_file_counter EXCEPT ![torrentOf[g]] =
                                    @ + MediaFiles[torrentOf[g]]]
            /\ UNCHANGED <<m_pending_update, m_upload_list>>
        BY <3>1, <3>4 DEF handle_torrent_add
      <4> QED
        BY <1>0, <1>1, <1>8, <2>1, <3>1, <3>4, <4>1, AlertActivates
    <3> QED
      BY <3>2, <3>3, <3>4
  <2> QED
    BY <2>2, <2>3
<1> QED
  BY <1>3, <1>5, <1>6, <1>7, <1>8

-----------------------------------------------------------------------------
(* The main thread: jobs, and what lies between the loops.                 *)

\* The jobs of an object that is gone have a torrent that was asked for twice.
LEMMA JobWithoutTorrent ==
  ASSUME Inv, NEW j \in DOMAIN m_media_list, j.handle \notin alive
  PROVE  Doubled
<1>1. PICK h : h = j.handle
  OBVIOUS
<1>2. h \in DOMAIN torrentOf
  BY <1>1 DEF Inv, TypeOK, Job
<1>3. JobsOf(h) # {}
  BY <1>1 DEF JobsOf
<1> QED
  BY <1>1, <1>2, <1>3, DeadIsDouble

\* What a job's files make the program do was asked for with the torrent.
LEMMA JobAskedFor ==
  ASSUME Inv, NEW j \in DOMAIN m_media_list, NEW defect, MayDo(j, defect)
  PROVE  AskedFor(defect) \/ Doubled
<1>1. j.handle \in DOMAIN torrentOf
  BY DEF Inv, TypeOK, Job
<1>2. PICK h : h = j.handle
  OBVIOUS
<1>3. PICK t \in Torrents : t = torrentOf[h] /\ h \in Nat
  BY <1>1, <1>2, TorrentOfObject DEF Inv
<1>4. ObjectOf(t, h) /\ defect \in Defects[t]
  BY <1>1, <1>2, <1>3 DEF ObjectOf, MayDo
<1>5. CASE Single(t)
  <2>1. requested[t] # <<>>
    BY <1>3, <1>4, <1>5 DEF Inv, SingleOK, AddedOnce
  <2> QED
    BY <1>4, <2>1 DEF AskedFor
<1>6. CASE ~Single(t)
  <2>1. Len(requested[t]) \in Nat
    BY LenProperties DEF Inv, TypeOK
  <2> QED
    BY <1>6, <2>1 DEF Single, Doubled
<1> QED
  BY <1>5, <1>6

\* handle_loop calls process() of a job.
LEMMA ProcessJobKeeps ==
  ASSUME Inv, NEW j \in todo, ProcessJob(j)
  PROVE  Inv'
<1>1. j \in DOMAIN m_media_list /\ todo \subseteq DOMAIN m_media_list /\ pc = "process"
  BY DEF Inv, TypeOK, ProcessJob
<1>2. CASE /\ todo' = todo \ {j}
           /\ UNCHANGED <<sessionVars, managerVars, pc, popped, it, exited, inputVars>>
  <2>1. LoopOK
    BY <1>2, LoopKept DEF inputVars
  <2> QED
    BY <1>1, <1>2, <2>1, QuietStep DEF managerVars, inputVars
<1>3. CASE j.handle \notin alive /\ Throws("job without torrent")
  <2>1. Doubled
    BY <1>1, <1>3, JobWithoutTorrent
  <2>2. "job without torrent" \in Reasons
    BY DEF Reasons
  <2> QED
    BY <1>3, <2>1, <2>2, ThrowKeeps
<1>4. CASE /\ \E next \in {"rendering", "failed"} : m_media_list' = [m_media_list EXCEPT ![j] = next]
           /\ todo' = todo \ {j}
           /\ UNCHANGED <<sessionVars, m_file_counter, m_pending_update, m_active_list,
                          m_upload_list, pc, popped, it, exited, inputVars>>
  <2>1. LoopOK
    BY <1>4, LoopKept DEF inputVars
  <2>2. \E i \in DOMAIN m_media_list, p \in Phases : m_media_list' = [m_media_list EXCEPT ![i] = p]
    BY <1>1, <1>4 DEF Phases
  <2> QED
    BY <1>1, <1>4, <2>1, <2>2, QuietStep DEF inputVars
<1>5. CASE MayDo(j, "null seek") /\ Throws("null seek")
  <2>1. AskedFor("null seek") \/ Doubled
    BY <1>1, <1>5, JobAskedFor
  <2>2. "null seek" \in Reasons
    BY DEF Reasons
  <2> QED
    BY <1>5, <2>1, <2>2, ThrowKeeps
<1>6. CASE /\ MayDo(j, "endless read")
           /\ pc' = "spinning"
           /\ UNCHANGED <<sessionVars, managerVars, popped, todo, it, exited, inputVars>>
  <2>1. AskedFor("endless read") \/ Doubled
    BY <1>1, <1>6, JobAskedFor
  <2>2. LoopOK
    BY <1>1, <1>6, <2>1 DEF LoopOK, EndsFor, Inv, TypeOK, JobsOK, inputVars
  <2> QED
    BY <1>1, <1>6, <2>2, QuietStep DEF managerVars, inputVars
<1> QED
  BY <1>2, <1>3, <1>4, <1>5, <1>6 DEF ProcessJob

\* handle_loop goes from one of its loops to the next, or ends as it was asked to, and
\* the input thread ends: no torrent or job changes.
LEMMA BetweenKeeps ==
  ASSUME Inv,
         \/ AlertsDone \/ ProcessDone \/ JobsDone \/ ActiveDone \/ Sleep \/ Stop
         \/ StopRequested \/ BadPath
  PROVE  Inv'
<1> USE DEF managerVars, inputVars, loopVars
<1>0. TypeOK /\ JobsOK /\ todo \subseteq DOMAIN m_media_list
  BY DEF Inv, TypeOK
<1>1. /\ UNCHANGED <<sessionVars, managerVars, popped, requested>>
      /\ todo' \in {todo, DOMAIN m_media_list}
  BY DEF AlertsDone, ProcessDone, JobsDone, ActiveDone, Sleep, Stop, StopRequested, BadPath
<1>2. /\ pc' \in {"asleep", "alerts", "process", "spinning", "jobs", "active", "upload"}
      /\ pc' # "alerts" => popped' = <<>>
      /\ it' \in Nat \ {0}
  BY <1>0 DEF AlertsDone, ProcessDone, JobsDone, ActiveDone, Sleep, Stop, StopRequested, BadPath,
              TypeOK, JobsOK
<1>3. EndsFor
  BY DEF AlertsDone, ProcessDone, JobsDone, ActiveDone, Sleep, Stop, StopRequested, BadPath, EndsFor
<1>4. shouldStop' \in BOOLEAN /\ input' \in {"serving", "ended"}
  BY <1>0 DEF AlertsDone, ProcessDone, JobsDone, ActiveDone, Sleep, Stop, StopRequested, BadPath, TypeOK
<1>5. LoopOK
  BY <1>2, <1>3, <1>4 DEF LoopOK
<1>6. todo' \subseteq DOMAIN m_media_list
  BY <1>0, <1>1
<1> QED
  BY <1>1, <1>5, <1>6, QuietStep

\* A step that moves nothing keeps the invariant with the types and the counters.
LEMMA QuietInv ==
  ASSUME Inv, Quiet, TypeOK', JobsOK', UNCHANGED <<pc, exited>>
  PROVE  Inv'
<1>1. EndsOnlyWhenAsked'
  BY DEF Inv, EndsOnlyWhenAsked, AskedFor, Quiet
<1> QED
  BY <1>1, QuietKeeps DEF Inv

\* A finished job is taken off the list and off the counter of its torrent, or off that
\* of the zero hash when the torrent is gone.
LEMMA JobUncounted ==
  ASSUME TypeOK, JobsOK, NEW j \in DOMAIN m_media_list,
         torrentOf' = torrentOf,
         m_media_list' = [k \in DOMAIN m_media_list \ {j} |-> m_media_list[k]],
         m_file_counter' = [m_file_counter EXCEPT ![info_hash(j.handle)] = @ - 1]
  PROVE  /\ DOMAIN m_media_list' = DOMAIN m_media_list \ {j}
         /\ \A k \in DOMAIN m_media_list' : m_media_list'[k] \in Phases
         /\ m_file_counter' \in [Torrents \union {NoHash} -> Int]
         /\ \A t \in Torrents : m_file_counter'[t] >= 0
         /\ IsFiniteSet(DOMAIN m_media_list)'
         /\ CounterCoversJobs'
<1>1. PICK c : c = info_hash(j.handle)
  OBVIOUS
<1>2. j.handle \in DOMAIN torrentOf /\ torrentOf[j.handle] \in Torrents
  BY TorrentOfObject DEF TypeOK, Job
<1>3. (c = torrentOf[j.handle] \/ c = NoHash) /\ c \in Torrents \union {NoHash}
  BY <1>1, <1>2 DEF info_hash
<1>4. /\ m_file_counter' \in [Torrents \union {NoHash} -> Int]
      /\ m_file_counter'[c] = m_file_counter[c] - 1
      /\ \A t \in Torrents : t # c => m_file_counter'[t] = m_file_counter[t]
      /\ \A t \in Torrents : m_file_counter[t] \in Int
  <2>1. /\ m_file_counter \in [Torrents \union {NoHash} -> Int]
        /\ \A t \in Torrents : m_file_counter[t] \in Int
    BY DEF TypeOK
  <2>2. PICK v \in Int : v = m_file_counter[c] - 1
    BY <1>3, <2>1
  <2>3. m_file_counter' = [m_file_counter EXCEPT ![c] = v]
    BY <1>1, <2>2
  <2>4. LET f == [m_file_counter EXCEPT ![c] = v]
        IN  /\ f \in [Torrents \union {NoHash} -> Int] /\ f[c] = v
            /\ \A t \in Torrents \union {NoHash} : t # c => f[t] = m_file_counter[t]
    BY <1>3, <2>1, CounterSet
  <2> QED
    BY <2>1, <2>2, <2>3, <2>4
<1>5. DOMAIN m_media_list' = DOMAIN m_media_list \ {j}
  OBVIOUS
<1>6. \A k \in DOMAIN m_media_list' : m_media_list'[k] \in Phases
  BY DEF TypeOK
<1>7. IsFiniteSet(DOMAIN m_media_list)'
  <2>1. IsFiniteSet(DOMAIN m_media_list \ {j})
    BY FS_RemoveElement DEF JobsOK
  <2> QED
    BY <1>5, <2>1
<1>8. ASSUME NEW t \in Torrents
      PROVE  /\ m_file_counter'[t] >= Cardinality(JobsOfTorrent(t)')
             /\ m_file_counter'[t] >= 0
  <2>1. m_file_counter[t] >= Cardinality(JobsOfTorrent(t))
    BY DEF JobsOK, CounterCoversJobs
  <2>2. IsFiniteSet(JobsOfTorrent(t)) /\ Cardinality(JobsOfTorrent(t)) \in Nat
    BY JobsFinite
  <2>3. CASE t = torrentOf[j.handle]
    <3>1. j \in JobsOfTorrent(t)
      BY <2>3 DEF JobsOfTorrent
    <3>2. JobsOfTorrent(t)' = JobsOfTorrent(t) \ {j}
      BY <1>5 DEF JobsOfTorrent
    <3>3. /\ IsFiniteSet(JobsOfTorrent(t) \ {j})
          /\ Cardinality(JobsOfTorrent(t) \ {j}) = Cardinality(JobsOfTorrent(t)) - 1
      BY <2>2, <3>1, FS_RemoveElement
    <3>4. Cardinality(JobsOfTorrent(t) \ {j}) \in Nat
      BY <3>3, FS_CardinalityType
    <3>5. m_file_counter'[t] >= m_file_counter[t] - 1
      BY <1>4
    <3> QED
      BY <1>4, <2>1, <2>2, <3>2, <3>3, <3>4, <3>5
  <2>4. CASE t # torrentOf[j.handle]
    <3>1. JobsOfTorrent(t)' = JobsOfTorrent(t)
      BY <1>5, <2>4 DEF JobsOfTorrent
    <3>2. t # c
      BY <1>3, <2>4, ManagerAssumption
    <3> QED
      BY <1>4, <2>1, <2>2, <3>1, <3>2
  <2> QED
    BY <2>3, <2>4
<1> QED
  BY <1>4, <1>5, <1>6, <1>7, <1>8 DEF CounterCoversJobs

\* handle_loop looks whether a job is finished.
LEMMA SweepJobKeeps ==
  ASSUME Inv, NEW j \in todo, SweepJob(j)
  PROVE  Inv'
<1>0. TypeOK /\ JobsOK /\ j \in DOMAIN m_media_list /\ todo \subseteq DOMAIN m_media_list
  BY DEF Inv, TypeOK
<1>1. /\ todo' = todo \ {j}
      /\ UNCHANGED <<sessionVars, m_pending_update, m_active_list, m_upload_list,
                     pc, popped, it, exited, inputVars>>
  BY DEF SweepJob
<1>2. CASE /\ m_media_list' = [k \in DOMAIN m_media_list \ {j} |-> m_media_list[k]]
           /\ m_file_counter' = [m_file_counter EXCEPT ![info_hash(j.handle)] = @ - 1]
  <2>1. /\ DOMAIN m_media_list' = DOMAIN m_media_list \ {j}
        /\ \A k \in DOMAIN m_media_list' : m_media_list'[k] \in Phases
        /\ m_file_counter' \in [Torrents \union {NoHash} -> Int]
        /\ \A t \in Torrents : m_file_counter'[t] >= 0
        /\ IsFiniteSet(DOMAIN m_media_list)'
        /\ CounterCoversJobs'
    BY <1>0, <1>1, <1>2, JobUncounted DEF sessionVars
  <2>2. todo' \subseteq DOMAIN m_media_list'
    BY <1>0, <1>1, <2>1
  <2>3. TypeOK'
    BY <1>0, <1>1, <2>1, <2>2, SetsKept DEF TypeOK, sessionVars, inputVars
  <2>4. JobsOK'
    BY <1>0, <1>1, <2>1 DEF JobsOK
  <2>5. Quiet
    BY <1>1, <2>1, PlaceKept DEF Quiet, sessionVars, inputVars
  <2> QED
    BY <1>1, <2>3, <2>4, <2>5, QuietInv
<1>3. CASE UNCHANGED <<m_media_list, m_file_counter>>
  <2>1. LoopOK
    BY <1>1, LoopKept DEF inputVars
  <2> QED
    BY <1>0, <1>1, <1>3, <2>1, QuietStep DEF inputVars
<1> QED
  BY <1>2, <1>3 DEF SweepJob

\* A torrent whose counter is zero has no job: none of its objects has.
LEMMA IdleWithoutJobs ==
  ASSUME TypeOK, JobsOK, NEW g \in alive, Idle(g)
  PROVE  JobsOf(g) = {}
<1>1. g \in DOMAIN torrentOf /\ torrentOf[g] \in Torrents
  BY TorrentOfObject DEF TypeOK
<1>2. PICK t \in Torrents : t = torrentOf[g]
  BY <1>1
<1>3. m_file_counter[t] = 0
  BY <1>2 DEF Idle, info_hash
<1>4. IsFiniteSet(JobsOfTorrent(t)) /\ Cardinality(JobsOfTorrent(t)) \in Nat
  BY JobsFinite
<1>5. Cardinality(JobsOfTorrent(t)) = 0
  BY <1>3, <1>4 DEF JobsOK, CounterCoversJobs
<1>6. JobsOfTorrent(t) = {}
  BY <1>4, <1>5, FS_EmptySet
<1> QED
  BY <1>2, <1>6 DEF JobsOf, JobsOfTorrent

\* What moves when an active torrent is retired.
LEMMA RetiredMoves ==
  ASSUME TypeOK, NEW n \in DOMAIN m_active_list, NEW g \in DOMAIN torrentOf, g \in Nat,
         m_active_list' = Without(m_active_list, n),
         m_upload_list' = Append(m_upload_list, [handle |-> g, old |-> FALSE]),
         UNCHANGED <<requests, alerts, popped>>
  PROVE  \E k \in Nat : Moves("active", n, "upload", k, g)
<1>1. \A i \in Nat, h \in Nat : Place("active", i, h)' <=>
        i >= 1 /\ (IF i < n THEN Place("active", i, h) ELSE Place("active", i + 1, h))
  BY ActiveWithout
<1>2. /\ \A i \in Nat, h \in Nat : Place("upload", i, h)' <=>
              Place("upload", i, h) \/ (i = Len(m_upload_list) + 1 /\ h = g)
      /\ Len(m_upload_list) + 1 \in Nat
  BY UploadAdd
<1>3. PICK k \in Nat : k = Len(m_upload_list) + 1
  BY <1>2
<1>4. Moves("active", n, "upload", k, g)
  <2> SUFFICES ASSUME NEW w \in Places, NEW i \in Nat, NEW h \in Nat
               PROVE  Place(w, i, h)' <=>
                        \/ w = "upload" /\ i = k /\ h = g
                        \/ IF w = "active"
                           THEN i >= 1 /\ (IF i < n THEN Place(w, i, h) ELSE Place(w, i + 1, h))
                           ELSE Place(w, i, h)
    BY DEF Moves
  <2>1. CASE w = "active"
    BY <1>1, <2>1
  <2>2. CASE w = "upload"
    BY <1>2, <1>3, <2>2
  <2>3. CASE w \in {"alerts", "remove", "popped"}
    BY <2>3, PlaceKept
  <2> QED
    BY <2>1, <2>2, <2>3 DEF Places
<1> QED
  BY <1>4

\* handle_loop retires an active torrent without a job.
LEMMA RetireKeeps ==
  ASSUME Inv, NEW n \in DOMAIN m_active_list, NEW g, g = m_active_list[n], Idle(g), g \in alive,
         m_upload_list' = Append(m_upload_list, [handle |-> g, old |-> FALSE]),
         m_active_list' = Without(m_active_list, n),
         UNCHANGED <<sessionVars, m_media_list, m_file_counter, m_pending_update, loopVars, inputVars>>
  PROVE  Inv'
<1> USE DEF sessionVars, loopVars, inputVars
<1>0. TypeOK /\ JobsOK
  BY DEF Inv
<1>1. g \in DOMAIN torrentOf /\ g \in Nat
  BY <1>0, TorrentOfObject DEF TypeOK
<1>2. n \in Nat \ {0} /\ m_active_list' \in Seq(DOMAIN torrentOf)
  BY <1>0, ActiveWithout
<1>3. m_upload_list' \in Seq([handle : DOMAIN torrentOf, old : BOOLEAN])
  BY <1>0, <1>1, UploadAdd
<1>4. TypeOK'
  BY <1>0, <1>2, <1>3, SetsKept DEF TypeOK
<1>5. JobsOK'
  <2>1. pc' # "alerts" => popped' = <<>>
    BY <1>0 DEF JobsOK
  <2> QED
    BY <1>0, <2>1, JobsKept
<1>6. PICK k \in Nat : Moves("active", n, "upload", k, g)
  BY <1>0, <1>1, RetiredMoves
<1>7. JobsOf(g) = {}
  BY <1>0, IdleWithoutJobs
<1>8. \A t \in Torrents, i \in Nat : AddPending(t, i)' <=> AddPending(t, i)
  BY DEF AddPending
<1>9. \A h \in Nat : JobsOf(h)' \subseteq JobsOf(h)
  BY DEF JobsOf
<1>10. (\A h \in Nat : Place("active", n, h) => h = g) /\ Place("active", n, g)
  BY DEF Place
<1>11. Handled("active", n, "upload", k, g)
  BY <1>6, <1>7, <1>8, <1>9, <1>10 DEF Handled, Places
<1> QED
  BY <1>1, <1>2, <1>4, <1>5, <1>11, HandledKeeps

\* handle_loop looks whether an active torrent is idle.
LEMMA SweepActiveKeeps ==
  ASSUME Inv, SweepActive
  PROVE  Inv'
<1>0. /\ TypeOK /\ JobsOK /\ todo \subseteq DOMAIN m_media_list
      /\ it \in Nat \ {0} /\ pc = "active" /\ it \in DOMAIN m_active_list
  BY DEF Inv, TypeOK, SweepActive
<1>1. PICK n : n = it
  OBVIOUS
<1>2. PICK g : g = m_active_list[n]
  OBVIOUS
<1>3. CASE /\ it' = it + 1
           /\ UNCHANGED <<sessionVars, managerVars, pc, popped, todo, exited, inputVars>>
  <2>1. LoopOK
    BY <1>0, <1>3 DEF LoopOK, EndsFor, Inv, TypeOK, JobsOK, inputVars
  <2> QED
    BY <1>0, <1>3, <2>1, QuietStep DEF managerVars, inputVars
<1>4. CASE g \notin alive /\ Throws("retired a dead torrent")
  <2>1. g \in DOMAIN torrentOf /\ g \in Nat
    <3>1. g \in DOMAIN torrentOf
      BY <1>0, <1>1, <1>2, LenProperties, ElementOfSeq DEF TypeOK
    <3> QED
      BY <1>0, <3>1, TorrentOfObject
  <2>2. Place("active", n, g)
    BY <1>0, <1>1, <1>2 DEF Place
  <2>3. Placed(g)
    BY <1>0, <1>1, <2>2 DEF Placed, Places
  <2>4. Doubled
    BY <1>4, <2>1, <2>3, DeadIsDouble
  <2>5. "retired a dead torrent" \in Reasons
    BY DEF Reasons
  <2> QED
    BY <1>4, <2>4, <2>5, ThrowKeeps
<1>5. CASE /\ Idle(g) /\ g \in alive
           /\ m_upload_list' = Append(m_upload_list, [handle |-> g, old |-> FALSE])
           /\ m_active_list' = Without(m_active_list, n)
           /\ UNCHANGED <<sessionVars, m_media_list, m_file_counter, m_pending_update,
                          loopVars, inputVars>>
  <2>1. n \in DOMAIN m_active_list
    BY <1>0, <1>1
  <2> QED
    BY <1>2, <1>5, <2>1, RetireKeeps
<1> QED
  BY <1>1, <1>2, <1>3, <1>4, <1>5 DEF SweepActive

\* What moves when an old torrent is removed.
LEMMA RemovalMoves ==
  ASSUME TypeOK, NEW n \in DOMAIN m_upload_list, NEW g \in DOMAIN torrentOf,
         NEW r \in Request, r.op = "remove", r.handle = g,
         m_upload_list' = Without(m_upload_list, n), requests' = Append(requests, r),
         UNCHANGED <<alerts, popped, m_active_list>>
  PROVE  \E k \in Nat : Moves("upload", n, "remove", k, g)
<1>1. \A i \in Nat, h \in Nat : Place("upload", i, h)' <=>
        i >= 1 /\ (IF i < n THEN Place("upload", i, h) ELSE Place("upload", i + 1, h))
  BY UploadWithout
<1>2. /\ \A i \in Nat, h \in Nat : Place("remove", i, h)' <=>
              Place("remove", i, h) \/ (i = Len(requests) + 1 /\ h = g)
      /\ Len(requests) + 1 \in Nat
  BY RequestsAdd
<1>3. PICK k \in Nat : k = Len(requests) + 1
  BY <1>2
<1>4. Moves("upload", n, "remove", k, g)
  <2> SUFFICES ASSUME NEW w \in Places, NEW i \in Nat, NEW h \in Nat
               PROVE  Place(w, i, h)' <=>
                        \/ w = "remove" /\ i = k /\ h = g
                        \/ IF w = "upload"
                           THEN i >= 1 /\ (IF i < n THEN Place(w, i, h) ELSE Place(w, i + 1, h))
                           ELSE Place(w, i, h)
    BY DEF Moves
  <2>1. CASE w = "upload"
    BY <1>1, <2>1
  <2>2. CASE w = "remove"
    BY <1>2, <1>3, <2>2
  <2>3. CASE w \in {"alerts", "active", "popped"}
    BY <2>3, PlaceKept
  <2> QED
    BY <2>1, <2>2, <2>3 DEF Places
<1> QED
  BY <1>4

\* handle_loop asks the session to remove a torrent.
LEMMA RemoveKeeps ==
  ASSUME Inv, NEW n \in DOMAIN m_upload_list, NEW g, g = m_upload_list[n].handle, g \in alive,
         requests' = Append(requests, [op |-> "remove", handle |-> g]),
         m_upload_list' = Without(m_upload_list, n),
         UNCHANGED <<alerts, torrentOf, alive, metadata, unheard, m_media_list, m_file_counter,
                     m_pending_update, m_active_list, loopVars, inputVars>>
  PROVE  Inv'
<1> USE DEF loopVars, inputVars
<1>0. TypeOK /\ JobsOK
  BY DEF Inv
<1>1. g \in DOMAIN torrentOf /\ g \in Nat
  BY <1>0, TorrentOfObject DEF TypeOK
<1>2. /\ n \in Nat \ {0}
      /\ m_upload_list' \in Seq([handle : DOMAIN torrentOf, old : BOOLEAN])
  BY <1>0, UploadWithout
<1>3. PICK r \in Request : r = [op |-> "remove", handle |-> g]
  BY <1>1 DEF Request
<1>4. r.op = "remove" /\ r.handle = g /\ requests' = Append(requests, r)
  BY <1>3
<1>5. /\ requests' \in Seq(Request)
      /\ \A t \in Torrents, i \in Nat : AddPending(t, i)' <=> AddPending(t, i)
  BY <1>0, <1>4, RequestsAdd
<1>6. TypeOK'
  BY <1>0, <1>2, <1>5, SetsKept DEF TypeOK
<1>7. JobsOK'
  <2>1. pc' # "alerts" => popped' = <<>>
    BY <1>0 DEF JobsOK
  <2> QED
    BY <1>0, <2>1, JobsKept
<1>8. PICK k \in Nat : Moves("upload", n, "remove", k, g)
  BY <1>0, <1>1, <1>4, RemovalMoves
<1>9. \A h \in Nat : JobsOf(h)' \subseteq JobsOf(h)
  BY DEF JobsOf
<1>10. (\A h \in Nat : Place("upload", n, h) => h = g) /\ Place("upload", n, g)
  BY DEF Place
<1>11. Handled("upload", n, "remove", k, g)
  BY <1>5, <1>8, <1>9, <1>10 DEF Handled, Places
<1> QED
  BY <1>1, <1>2, <1>6, <1>7, <1>11, HandledKeeps

\* handle_loop looks whether a torrent on the upload list is old.
LEMMA SweepUploadKeeps ==
  ASSUME Inv, SweepUpload
  PROVE  Inv'
<1>0. /\ TypeOK /\ JobsOK /\ todo \subseteq DOMAIN m_media_list
      /\ it \in Nat \ {0} /\ pc = "upload" /\ it \in DOMAIN m_upload_list
  BY DEF Inv, TypeOK, SweepUpload
<1>1. PICK n : n = it
  OBVIOUS
<1>2. PICK g : g = m_upload_list[n].handle
  OBVIOUS
<1>3. CASE /\ it' = it + 1
           /\ UNCHANGED <<sessionVars, managerVars, pc, popped, todo, exited, inputVars>>
  <2>1. LoopOK
    BY <1>0, <1>3 DEF LoopOK, EndsFor, Inv, TypeOK, JobsOK, inputVars
  <2> QED
    BY <1>0, <1>3, <2>1, QuietStep DEF managerVars, inputVars
<1>4. CASE g \notin alive /\ Throws("removed a dead torrent")
  <2>1. g \in DOMAIN torrentOf /\ g \in Nat
    <3>1. m_upload_list \in Seq([handle : DOMAIN torrentOf, old : BOOLEAN])
      BY <1>0 DEF TypeOK
    <3>2. n \in 1 .. Len(m_upload_list)
      BY <1>0, <1>1, <3>1, LenProperties
    <3>3. m_upload_list[n] \in [handle : DOMAIN torrentOf, old : BOOLEAN]
      BY <3>1, <3>2, ElementOfSeq
    <3>4. g \in DOMAIN torrentOf
      BY <1>2, <3>3
    <3> QED
      BY <1>0, <3>4, TorrentOfObject
  <2>2. Place("upload", n, g)
    BY <1>0, <1>1, <1>2 DEF Place
  <2>3. Placed(g)
    BY <1>0, <1>1, <2>2 DEF Placed, Places
  <2>4. Doubled
    BY <1>4, <2>1, <2>3, DeadIsDouble
  <2>5. "removed a dead torrent" \in Reasons
    BY DEF Reasons
  <2> QED
    BY <1>4, <2>4, <2>5, ThrowKeeps
<1>5. CASE /\ g \in alive
           /\ requests' = Append(requests, [op |-> "remove", handle |-> g])
           /\ m_upload_list' = Without(m_upload_list, n)
           /\ UNCHANGED <<alerts, torrentOf, alive, metadata, unheard, m_media_list,
                          m_file_counter, m_pending_update, m_active_list, loopVars, inputVars>>
  <2>1. n \in DOMAIN m_upload_list
    BY <1>0, <1>1
  <2> QED
    BY <1>2, <1>5, <2>1, RemoveKeeps
<1> QED
  BY <1>1, <1>2, <1>3, <1>4, <1>5 DEF SweepUpload

-----------------------------------------------------------------------------
(* The rendering threads, the clock and the input thread.                  *)

\* A rendering thread ends, with a verdict or with the program.
LEMMA RenderingKeeps ==
  ASSUME Inv, NEW j \in DOMAIN m_media_list, RenderingEnds(j)
  PROVE  Inv'
<1>1. CASE /\ \E verdict \in {"done", "failed"} : m_media_list' = [m_media_list EXCEPT ![j] = verdict]
           /\ UNCHANGED <<sessionVars, m_file_counter, m_pending_update, m_active_list,
                          m_upload_list, loopVars, inputVars>>
  <2>1. LoopOK
    BY <1>1, LoopKept DEF loopVars, inputVars
  <2>2. \E i \in DOMAIN m_media_list, p \in Phases : m_media_list' = [m_media_list EXCEPT ![i] = p]
    BY <1>1 DEF Phases
  <2>3. todo' \subseteq DOMAIN m_media_list
    BY <1>1 DEF loopVars, Inv, TypeOK
  <2> QED
    BY <1>1, <2>1, <2>2, <2>3, QuietStep DEF loopVars, inputVars
<1>2. CASE j.handle \notin alive /\ Throws("thread without torrent")
  <2>1. Doubled
    BY <1>2, JobWithoutTorrent
  <2>2. "thread without torrent" \in Reasons
    BY DEF Reasons
  <2> QED
    BY <1>2, <2>1, <2>2, ThrowKeeps
<1>3. CASE MayDo(j, "null block") /\ Throws("null block")
  <2>1. AskedFor("null block") \/ Doubled
    BY <1>3, JobAskedFor
  <2>2. "null block" \in Reasons
    BY DEF Reasons
  <2> QED
    BY <1>3, <2>1, <2>2, ThrowKeeps
<1> QED
  BY <1>1, <1>2, <1>3 DEF RenderingEnds

\* Fifteen minutes pass for a torrent on the upload list.
LEMMA ClockKeeps ==
  ASSUME Inv, NEW n \in DOMAIN m_upload_list, FifteenMinutes(n)
  PROVE  Inv'
<1>0. TypeOK /\ JobsOK
  BY DEF Inv
<1>1. /\ m_upload_list' = [m_upload_list EXCEPT ![n].old = TRUE]
      /\ UNCHANGED <<sessionVars, m_media_list, m_file_counter, m_pending_update, m_active_list,
                     loopVars, inputVars>>
  BY DEF FifteenMinutes
<1>2. /\ \A i \in Nat, h \in Nat : Place("upload", i, h)' <=> Place("upload", i, h)
      /\ m_upload_list' \in Seq([handle : DOMAIN torrentOf, old : BOOLEAN])
  BY <1>0, <1>1, UploadAges
<1>3. TypeOK'
  BY <1>0, <1>1, <1>2, SetsKept DEF TypeOK, sessionVars, loopVars, inputVars
<1>4. JobsOK'
  <2>1. pc' # "alerts" => popped' = <<>>
    BY <1>0, <1>1 DEF JobsOK, loopVars
  <2> QED
    BY <1>0, <1>1, <2>1, JobsKept DEF sessionVars
<1>5. Quiet
  BY <1>1, <1>2, PlaceKept DEF Quiet, sessionVars, loopVars, inputVars
<1> QED
  BY <1>1, <1>3, <1>4, <1>5, QuietInv DEF loopVars

-----------------------------------------------------------------------------
(* The invariant, and what follows from it.                                *)

\* Nothing has happened yet.
LEMMA InitInv ==
  ASSUME Init
  PROVE  Inv
<1>1. /\ requests = <<>> /\ alerts = <<>> /\ popped = <<>> /\ torrentOf = <<>>
      /\ m_active_list = <<>> /\ m_upload_list = <<>>
      /\ alive = {} /\ metadata = {} /\ unheard = {} /\ m_pending_update = {} /\ todo = {}
      /\ pc = "asleep" /\ it = 1 /\ exited = "no" /\ shouldStop = FALSE /\ input = "serving"
  BY DEF Init
<1>2. DOMAIN m_media_list = {} /\ DOMAIN torrentOf = {}
  BY DEF Init
<1>3. /\ m_file_counter \in [Torrents \union {NoHash} -> Int]
      /\ \A t \in Torrents : m_file_counter[t] = 0
  BY DEF Init
<1>4. TypeOK
  <2>1. \A S : <<>> \in Seq(S)
    BY EmptySeq
  <2>2. /\ requests \in Seq(Request) /\ alerts \in Seq(Alert) /\ popped \in Seq(Alert)
        /\ torrentOf \in Seq(Torrents) /\ m_active_list \in Seq(DOMAIN torrentOf)
        /\ m_upload_list \in Seq([handle : DOMAIN torrentOf, old : BOOLEAN])
    BY <1>1, <2>1
  <2>3. requested \in [Torrents -> Seq(Asked)]
    BY <2>1 DEF Init
  <2>4. exited \in Reasons
    BY <1>1 DEF Reasons
  <2>5. DOMAIN m_media_list \subseteq Job /\ \A j \in DOMAIN m_media_list : m_media_list[j] \in Phases
    BY <1>2
  <2>6. \A t \in Torrents : m_file_counter[t] >= 0
    BY <1>3
  <2>7. /\ metadata \subseteq DOMAIN torrentOf /\ alive \subseteq DOMAIN torrentOf
        /\ unheard \subseteq DOMAIN torrentOf /\ todo \subseteq DOMAIN m_media_list
        /\ m_pending_update \subseteq Torrents \union {V1Hash[t] : t \in Torrents}
        /\ pc \in {"asleep", "alerts", "process", "spinning", "jobs", "active", "upload"}
        /\ it \in Nat \ {0} /\ input \in {"serving", "ended"}
    BY <1>1
  <2>8. shouldStop \in BOOLEAN
    BY <1>1, Zenon
  <2> QED
    BY <1>3, <2>2, <2>3, <2>4, <2>5, <2>6, <2>7, <2>8 DEF TypeOK
<1>5. JobsOK
  <2>1. IsFiniteSet({}) /\ Cardinality({}) = 0
    BY FS_EmptySet
  <2>2. ASSUME NEW t \in Torrents PROVE m_file_counter[t] >= Cardinality(JobsOfTorrent(t))
    <3>1. JobsOfTorrent(t) = {}
      BY <1>2 DEF JobsOfTorrent
    <3> QED
      BY <1>3, <2>1, <3>1
  <2> QED
    BY <1>1, <1>2, <2>1, <2>2 DEF JobsOK, CounterCoversJobs
<1>6. AllPlaced
  BY <1>1 DEF AllPlaced
<1>7. SingleOK
  <2> SUFFICES ASSUME NEW t \in Torrents
               PROVE  /\ \A h \in Nat : ~ObjectOf(t, h)
                      /\ \A i \in Nat : ~AddPending(t, i)
    BY DEF SingleOK, AddedOnce, UploadPending
  <2> QED
    BY <1>1, <1>2 DEF ObjectOf, AddPending
<1>8. EndsOnlyWhenAsked
  BY <1>1 DEF EndsOnlyWhenAsked
<1> QED
  BY <1>4, <1>5, <1>6, <1>7, <1>8 DEF Inv

\* Every step keeps the invariant.
LEMMA NextKeeps ==
  ASSUME Inv, Next
  PROVE  Inv'
<1>1. CASE \E r \in ClientRequests : add_torrent_download(r.torrent, r.is_magnet, r.upload_mode)
  <2>1. PICK r \in ClientRequests : add_torrent_download(r.torrent, r.is_magnet, r.upload_mode)
    BY <1>1
  <2>2. /\ r.torrent \in Torrents /\ r.is_magnet \in BOOLEAN /\ r.upload_mode \in BOOLEAN
    BY ManagerAssumption
  <2> QED
    BY <2>1, <2>2, AddKeeps
<1>2. CASE Session
  BY <1>2, SessionKeeps
<1>3. CASE PopAlerts
  BY <1>3, PopKeeps
<1>4. CASE HandleAlert
  BY <1>4, HandleAlertKeeps
<1>5. CASE \E j \in todo : ProcessJob(j) \/ SweepJob(j)
  BY <1>5, ProcessJobKeeps, SweepJobKeeps
<1>6. CASE SweepActive
  BY <1>6, SweepActiveKeeps
<1>7. CASE SweepUpload
  BY <1>7, SweepUploadKeeps
<1>8. CASE \/ AlertsDone \/ ProcessDone \/ JobsDone \/ ActiveDone \/ Sleep \/ Stop
           \/ StopRequested \/ BadPath
  BY <1>8, BetweenKeeps
<1>9. CASE RenderingThreads
  BY <1>9, RenderingKeeps DEF RenderingThreads
<1>10. CASE Clock
  BY <1>10, ClockKeeps DEF Clock
<1> QED
  BY <1>1, <1>2, <1>3, <1>4, <1>5, <1>6, <1>7, <1>8, <1>9, <1>10 DEF Next, InputThread, MainThread

\* So does a step in which nothing happens.
LEMMA StutterKeeps ==
  ASSUME Inv, UNCHANGED vars
  PROVE  Inv'
<1>1. LoopOK
  BY LoopKept DEF vars, loopVars, inputVars
<1>2. todo' \subseteq DOMAIN m_media_list
  BY DEF vars, loopVars, Inv, TypeOK
<1> QED
  BY <1>1, <1>2, QuietStep DEF vars, managerVars, loopVars, inputVars

\* The invariant holds of every reachable state, for any number of torrents, files,
\* clients and requests.
THEOREM InvariantHolds == Spec => []Inv
<1>1. Init => Inv
  BY InitInv
<1>2. Inv /\ [Next]_vars => Inv'
  BY NextKeeps, StutterKeeps
<1> QED
  BY <1>1, <1>2, PTL DEF Spec

\* Every variable of the manager, the session and the threads holds a value of its type.
THEOREM TypeCorrect == Spec => []TypeOK
<1>1. Inv => TypeOK
  BY DEF Inv
<1> QED
  BY <1>1, InvariantHolds, PTL

\* The counter of a torrent is never below the number of its jobs (m_file_counter, which
\* handle_loop reads to retire a torrent), however often the torrent is asked for.
THEOREM CountersCover == Spec => []CounterCoversJobs
<1>1. Inv => CounterCoversJobs
  BY DEF Inv, JobsOK
<1> QED
  BY <1>1, InvariantHolds, PTL

\* Unless a torrent was asked for twice, no call of handle_loop or of a rendering thread
\* meets a dead torrent: the program stops by itself for a late piece, or in the null pointer
\* or the endless read that the files of a torrent clients asked for lead to.
THEOREM EndsForAReason == Spec => []EndsOnlyWhenAsked
<1>1. Inv => EndsOnlyWhenAsked
  BY DEF Inv
<1> QED
  BY <1>1, InvariantHolds, PTL

\* No torrent object that knows its files is forgotten by the manager, unless the alert that
\* says so was dropped and none has come since.
THEOREM NoneForgotten == Spec => []NoTorrentForgotten
<1>1. ASSUME Inv PROVE NoTorrentForgotten
  <2> SUFFICES ASSUME NEW h \in (alive \intersect metadata) \ unheard
               PROVE  \/ Mentions(alerts, h) \/ Mentions(popped, h)
                      \/ \E i \in DOMAIN m_active_list : m_active_list[i] = h
                      \/ \E i \in DOMAIN m_upload_list : m_upload_list[i].handle = h
                      \/ \E i \in DOMAIN requests : requests[i].op = "remove" /\ requests[i].handle = h
    BY DEF NoTorrentForgotten
  <2>1. PICK w \in Places, i \in Nat : Place(w, i, h)
    BY <1>1 DEF Inv, AllPlaced, Placed
  <2> QED
    BY <2>1 DEF Place, Adds, Mentions
<1> QED
  BY <1>1, InvariantHolds, PTL

\* A torrent asked for once keeps its object while a job may use it, is on the upload list
\* without jobs only, and gets no job if it was asked for to be uploaded by the hash that
\* handle_torrent_add looks up.
THEOREM RequestsHonoured == Spec => []RequestHonoured
<1>1. ASSUME Inv PROVE RequestHonoured
  <2> SUFFICES ASSUME NEW t \in Torrents, Once(t)
               PROVE  /\ \A j \in JobsOfTorrent(t) : j.handle \in alive
                      /\ \A i \in DOMAIN m_upload_list :
                           torrentOf[m_upload_list[i].handle] = t => JobsOfTorrent(t) = {}
                      /\ Recognised(t, requested[t][1]) => JobsOfTorrent(t) = {}
    BY DEF RequestHonoured
  <2>0. TypeOK /\ SingleOK
    BY <1>1 DEF Inv
  <2>1. /\ AddedOnce(t) /\ UploadPending(t)
        /\ \A h \in Nat : ObjectOf(t, h) => InOnePlace(h)
    <3>1. Single(t)
      BY DEF Once, Single
    <3> QED
      BY <2>0, <3>1 DEF SingleOK
  <2>2. ASSUME NEW j \in JobsOfTorrent(t)
        PROVE  \E h \in Nat : h = j.handle /\ ObjectOf(t, h) /\ JobsOf(h) # {}
    <3>1. j \in DOMAIN m_media_list /\ torrentOf[j.handle] = t
      BY DEF JobsOfTorrent
    <3>2. j.handle \in DOMAIN torrentOf
      BY <2>0, <3>1 DEF TypeOK, Job
    <3>3. j.handle \in Nat
      BY <2>0, <3>2, TorrentOfObject
    <3> QED
      BY <3>1, <3>2, <3>3 DEF ObjectOf, JobsOf
  <2>3. ASSUME NEW h \in Nat, ObjectOf(t, h), JobsOf(h) # {}
        PROVE  h \in alive /\ \E i \in Nat : Place("active", i, h)
    <3>1. InOnePlace(h)
      BY <2>1, <2>3
    <3>2. PICK i \in Nat : Place("active", i, h)
      BY <2>3, <3>1 DEF InOnePlace
    <3>3. Placed(h)
      BY <3>2 DEF Placed, Places
    <3> QED
      BY <3>1, <3>2, <3>3 DEF InOnePlace
  <2>4. ASSUME NEW j \in JobsOfTorrent(t) PROVE j.handle \in alive
    BY <2>2, <2>3, <2>4
  <2>5. ASSUME NEW i \in DOMAIN m_upload_list, torrentOf[m_upload_list[i].handle] = t,
               NEW j \in JobsOfTorrent(t)
        PROVE  FALSE
    <3>1. PICK g : g = m_upload_list[i].handle
      OBVIOUS
    <3>2. i \in Nat /\ g \in DOMAIN torrentOf
      <4>1. m_upload_list \in Seq([handle : DOMAIN torrentOf, old : BOOLEAN])
        BY <2>0 DEF TypeOK
      <4>2. i \in 1 .. Len(m_upload_list)
        BY <4>1, LenProperties
      <4>3. m_upload_list[i] \in [handle : DOMAIN torrentOf, old : BOOLEAN]
        BY <4>1, <4>2, ElementOfSeq
      <4> QED
        BY <3>1, <4>2, <4>3
    <3>3. g \in Nat /\ ObjectOf(t, g)
      BY <2>0, <2>5, <3>1, <3>2, TorrentOfObject DEF ObjectOf
    <3>4. Place("upload", i, g)
      BY <3>1 DEF Place
    <3>5. PICK h \in Nat : ObjectOf(t, h) /\ JobsOf(h) # {}
      BY <2>2, <2>5
    <3>6. h = g
      BY <2>1, <3>3, <3>5 DEF AddedOnce
    <3>7. PICK k \in Nat : Place("active", k, g)
      BY <2>3, <3>5, <3>6
    <3>8. Unique(g)
      BY <2>1, <3>3 DEF InOnePlace
    <3> QED
      BY <3>2, <3>4, <3>7, <3>8 DEF Unique, Places
  <2>6. ASSUME Recognised(t, requested[t][1]), NEW j \in JobsOfTorrent(t) PROVE FALSE
    <3>1. ToUpload(t)
      BY <2>6 DEF ToUpload, Once
    <3> QED
      BY <2>1, <2>2, <2>6, <3>1 DEF UploadPending
  <2> QED
    BY <2>4, <2>5, <2>6
<1> QED
  BY <1>1, InvariantHolds, PTL

-----------------------------------------------------------------------------
(* All counters together.                                                  *)

\* The units of any counters, and those a torrent gets on top of a.
UnitsOf(f) == UNION {{t} \X (1 .. f[t]) : t \in Torrents}
MoreUnits(t, a, m) == {<<t, n>> : n \in (a + 1) .. (a + m)}
CountOK == IsFiniteSet(Units) /\ CounterCountsJobs

\* The units are pairs of a torrent and a number.
LEMMA UnitsMembers ==
  ASSUME NEW f, NEW u
  PROVE  u \in UnitsOf(f) <=> \E t \in Torrents, n \in Int : n \in 1 .. f[t] /\ u = <<t, n>>
BY DEF UnitsOf

\* A torrent has as many pairs with consecutive numbers as there are numbers.
LEMMA RunOfUnits ==
  ASSUME NEW t, NEW a \in Nat, NEW m \in Nat
  PROVE  IsFiniteSet(MoreUnits(t, a, m)) /\ Cardinality(MoreUnits(t, a, m)) = m
<1>0. PICK R : R = MoreUnits(t, a, m)
  OBVIOUS
<1> DEFINE D == (a + 1) .. (a + m)
           f == [n \in D |-> <<t, n>>]
<1>1. /\ f \in [D -> R] /\ (\A r \in R : \E n \in D : f[n] = r)
      /\ \A k, n \in D : f[k] = f[n] => k = n
  BY <1>0 DEF MoreUnits
<1>2. /\ IsFiniteSet(D) /\ Cardinality(D) = m
  <2>1. a + 1 \in Int /\ a + m \in Int
    OBVIOUS
  <2>2. /\ IsFiniteSet(D)
        /\ Cardinality(D) = IF a + 1 > a + m THEN 0 ELSE (a + m) - (a + 1) + 1
    BY <2>1, FS_Interval
  <2> HIDE DEF D
  <2> QED
    BY <2>2
<1> HIDE DEF f, D
<1>3. f \in Injection(D, R)
  BY <1>1 DEF Injection, IsInjective
<1>4. f \in Surjection(D, R)
  BY <1>1 DEF Surjection
<1>5. ExistsBijection(D, R)
  BY <1>3, <1>4 DEF Bijection, ExistsBijection
<1> QED
  BY <1>0, <1>2, <1>5, FS_Bijection

\* Counters that agree on the torrents have the same units.
LEMMA UnitsSame ==
  ASSUME NEW f, NEW g, \A t \in Torrents : g[t] = f[t]
  PROVE  UnitsOf(g) = UnitsOf(f)
BY DEF UnitsOf

\* A counter that goes up by m has m units more.
LEMMA UnitsGrow ==
  ASSUME NEW f, NEW g, NEW t \in Torrents, NEW c \in Nat, NEW m \in Nat,
         f[t] = c, g[t] = c + m, \A s \in Torrents : s # t => g[s] = f[s],
         IsFiniteSet(UnitsOf(f))
  PROVE  IsFiniteSet(UnitsOf(g)) /\ Cardinality(UnitsOf(g)) = Cardinality(UnitsOf(f)) + m
<1>0. PICK R : R = MoreUnits(t, c, m)
  OBVIOUS
<1>1. IsFiniteSet(R) /\ Cardinality(R) = m
  BY <1>0, RunOfUnits
<1>2. ASSUME NEW u PROVE u \in UnitsOf(g) <=> u \in UnitsOf(f) \/ u \in R
  <2>1. ASSUME u \in UnitsOf(g) PROVE u \in UnitsOf(f) \/ u \in R
    <3>1. PICK s \in Torrents, n \in Int : n \in 1 .. g[s] /\ u = <<s, n>>
      BY <2>1, UnitsMembers
    <3>2. CASE s = t
      <4>1. n \in 1 .. c \/ n \in (c + 1) .. (c + m)
        BY <3>1, <3>2
      <4> QED
        BY <1>0, <3>1, <3>2, <4>1, UnitsMembers DEF MoreUnits
    <3>3. CASE s # t
      BY <3>1, <3>3, UnitsMembers
    <3> QED
      BY <3>2, <3>3
  <2>2. ASSUME u \in UnitsOf(f) PROVE u \in UnitsOf(g)
    <3>1. PICK s \in Torrents, n \in Int : n \in 1 .. f[s] /\ u = <<s, n>>
      BY <2>2, UnitsMembers
    <3>2. n \in 1 .. g[s]
      <4>1. CASE s = t
        BY <3>1, <4>1
      <4>2. CASE s # t
        BY <3>1, <4>2
      <4> QED
        BY <4>1, <4>2
    <3> QED
      BY <3>1, <3>2, UnitsMembers
  <2>3. ASSUME u \in R PROVE u \in UnitsOf(g)
    <3>1. PICK n \in (c + 1) .. (c + m) : u = <<t, n>>
      BY <1>0, <2>3 DEF MoreUnits
    <3>2. n \in 1 .. g[t]
      OBVIOUS
    <3> QED
      BY <3>1, <3>2, UnitsMembers
  <2> QED
    BY <2>1, <2>2, <2>3
<1>3. \A u \in R : u \notin UnitsOf(f)
  <2> SUFFICES ASSUME NEW u \in R, u \in UnitsOf(f) PROVE FALSE
    OBVIOUS
  <2>1. PICK n \in (c + 1) .. (c + m) : u = <<t, n>>
    BY <1>0 DEF MoreUnits
  <2>2. PICK s \in Torrents, k \in Int : k \in 1 .. f[s] /\ u = <<s, k>>
    BY UnitsMembers
  <2>3. s = t /\ k = n
    BY <2>1, <2>2
  <2> QED
    BY <2>1, <2>2, <2>3
<1>4. UnitsOf(g) = UnitsOf(f) \union R /\ UnitsOf(f) \intersect R = {}
  BY <1>2, <1>3
<1>5. /\ IsFiniteSet(UnitsOf(f) \union R)
      /\ Cardinality(UnitsOf(f) \union R) = Cardinality(UnitsOf(f)) + Cardinality(R) - 0
  BY <1>1, <1>4, FS_Union, FS_EmptySet
<1>6. Cardinality(UnitsOf(f)) \in Nat
  BY FS_CardinalityType
<1> QED
  BY <1>1, <1>4, <1>5, <1>6

\* A counter that goes down by one has one unit less.
LEMMA UnitsShrink ==
  ASSUME NEW f, NEW g, NEW t \in Torrents, NEW c \in Nat \ {0},
         f[t] = c, g[t] = c - 1, \A s \in Torrents : s # t => g[s] = f[s],
         IsFiniteSet(UnitsOf(f))
  PROVE  IsFiniteSet(UnitsOf(g)) /\ Cardinality(UnitsOf(g)) = Cardinality(UnitsOf(f)) - 1
<1>1. PICK b \in Nat : b = c - 1 /\ c = b + 1
  OBVIOUS
<1>2. ASSUME NEW u PROVE u \in UnitsOf(g) <=> u \in UnitsOf(f) /\ u # <<t, c>>
  <2>1. ASSUME u \in UnitsOf(g) PROVE u \in UnitsOf(f) /\ u # <<t, c>>
    <3>1. PICK s \in Torrents, n \in Int : n \in 1 .. g[s] /\ u = <<s, n>>
      BY <2>1, UnitsMembers
    <3>2. n \in 1 .. f[s] /\ (s # t \/ n # c)
      <4>1. CASE s = t
        BY <3>1, <4>1
      <4>2. CASE s # t
        BY <3>1, <4>2
      <4> QED
        BY <4>1, <4>2
    <3> QED
      BY <3>1, <3>2, UnitsMembers
  <2>2. ASSUME u \in UnitsOf(f), u # <<t, c>> PROVE u \in UnitsOf(g)
    <3>1. PICK s \in Torrents, n \in Int : n \in 1 .. f[s] /\ u = <<s, n>>
      BY <2>2, UnitsMembers
    <3>2. n \in 1 .. g[s]
      <4>1. CASE s = t
        <5>1. n # c
          BY <2>2, <3>1, <4>1
        <5> QED
          BY <3>1, <4>1, <5>1
      <4>2. CASE s # t
        BY <3>1, <4>2
      <4> QED
        BY <4>1, <4>2
    <3> QED
      BY <3>1, <3>2, UnitsMembers
  <2> QED
    BY <2>1, <2>2
<1>3. UnitsOf(g) = UnitsOf(f) \ {<<t, c>>}
  BY <1>2
<1>4. c \in 1 .. f[t]
  OBVIOUS
<1>5. <<t, c>> \in UnitsOf(f)
  BY <1>4, UnitsMembers
<1>6. PICK x : x = <<t, c>>
  OBVIOUS
<1>7. x \in UnitsOf(f) /\ UnitsOf(g) = UnitsOf(f) \ {x}
  BY <1>3, <1>5, <1>6
<1>8. /\ IsFiniteSet(UnitsOf(f) \ {x})
      /\ Cardinality(UnitsOf(f) \ {x}) = Cardinality(UnitsOf(f)) - 1
  BY <1>7, FS_RemoveElement
<1> QED
  BY <1>7, <1>8

\* The counter of a job's torrent counts it.
LEMMA CounterOfJob ==
  ASSUME Inv, NEW j \in DOMAIN m_media_list, NEW t \in Torrents, torrentOf[j.handle] = t
  PROVE  m_file_counter[t] \in Nat \ {0}
<1>1. /\ m_file_counter[t] \in Int /\ m_file_counter[t] >= Cardinality(JobsOfTorrent(t))
      /\ TypeOK /\ JobsOK
  BY DEF Inv, TypeOK, JobsOK, CounterCoversJobs
<1>2. IsFiniteSet(JobsOfTorrent(t)) /\ Cardinality(JobsOfTorrent(t)) \in Nat
  BY <1>1, JobsFinite
<1>3. j \in JobsOfTorrent(t)
  BY DEF JobsOfTorrent
<1>4. Cardinality(JobsOfTorrent(t)) # 0
  BY <1>2, <1>3, FS_EmptySet
<1> QED
  BY <1>1, <1>2, <1>4

\* The jobs handle_file_add makes are counted.
LEMMA MadeCounted ==
  ASSUME Inv, CountOK, NEW h \in alive,
         m_media_list' = [j \in DOMAIN m_media_list \union NewJobs(h) |->
                            IF j \in NewJobs(h) THEN "gathering" ELSE m_media_list[j]],
         m_file_counter' = [m_file_counter EXCEPT ![torrentOf[h]] = @ + MediaFiles[torrentOf[h]]]
  PROVE  CountOK'
<1>0. TypeOK /\ IsFiniteSet(DOMAIN m_media_list) /\ h \in DOMAIN torrentOf
  BY DEF Inv, TypeOK, JobsOK
<1>1. PICK t \in Torrents : t = torrentOf[h]
  BY <1>0, TorrentOfObject
<1>2. PICK c \in Nat : c = m_file_counter[t]
  BY <1>0 DEF TypeOK
<1>3. PICK m \in Nat : m = MediaFiles[t]
  BY ManagerAssumption
<1>4. PICK z \in Int : z = m_file_counter[NoHash]
  BY <1>0 DEF TypeOK
<1>5. PICK g : g = m_file_counter'
  OBVIOUS
<1>6. g = [m_file_counter EXCEPT ![t] = c + m]
  BY <1>1, <1>2, <1>3, <1>5
<1>7. /\ g[t] = c + m /\ (\A s \in Torrents : s # t => g[s] = m_file_counter[s]) /\ g[NoHash] = z
  BY <1>0, <1>4, <1>6, ManagerAssumption DEF TypeOK
<1>8. /\ IsFiniteSet(UnitsOf(g))
      /\ Cardinality(UnitsOf(g)) = Cardinality(UnitsOf(m_file_counter)) + m
  <2>1. IsFiniteSet(UnitsOf(m_file_counter))
    BY DEF CountOK, Units, UnitsOf
  <2> QED
    BY <1>2, <1>7, <2>1, UnitsGrow
<1>9. Units' = UnitsOf(g) /\ Units = UnitsOf(m_file_counter)
  BY <1>5 DEF Units, UnitsOf
<1>10. PICK D : D = DOMAIN m_media_list
  OBVIOUS
<1>11. PICK N : N = NewJobs(h)
  OBVIOUS
<1>12. IsFiniteSet(D) /\ IsFiniteSet(N) /\ D \intersect N = {} /\ Cardinality(N) = m
  BY <1>0, <1>1, <1>3, <1>10, <1>11, NewJobsAreNew
<1>13. Cardinality(D \union N) = Cardinality(D) + Cardinality(N) - 0 /\ Cardinality(D) \in Nat
  BY <1>12, FS_Union, FS_EmptySet, FS_CardinalityType
<1>14. DOMAIN m_media_list' = D \union N
  BY <1>10, <1>11
<1>15. Cardinality(Units) = Cardinality(D) - z
  BY <1>4, <1>10 DEF CountOK, CounterCountsJobs
<1>16. Cardinality(Units') = Cardinality(DOMAIN m_media_list') - m_file_counter'[NoHash]
  <2>1. Cardinality(Units') = Cardinality(D) - z + m
    BY <1>8, <1>9, <1>15
  <2>2. Cardinality(DOMAIN m_media_list') = Cardinality(D) + m
    <3>1. Cardinality(D \union N) = Cardinality(D) + m
      BY <1>12, <1>13
    <3> QED
      BY <1>14, <3>1
  <2>3. m_file_counter'[NoHash] = z
    BY <1>5, <1>7
  <2> QED
    BY <1>13, <2>1, <2>2, <2>3
<1> QED
  BY <1>8, <1>9, <1>16 DEF CountOK, CounterCountsJobs

\* A job swept is counted off, under its torrent or under the zero hash.
LEMMA SweptCounted ==
  ASSUME Inv, CountOK, NEW j \in DOMAIN m_media_list,
         m_media_list' = [k \in DOMAIN m_media_list \ {j} |-> m_media_list[k]],
         m_file_counter' = [m_file_counter EXCEPT ![info_hash(j.handle)] = @ - 1]
  PROVE  CountOK'
<1>0. TypeOK /\ IsFiniteSet(DOMAIN m_media_list) /\ j.handle \in DOMAIN torrentOf
  BY DEF Inv, TypeOK, JobsOK, Job
<1>1. PICK t \in Torrents : t = torrentOf[j.handle]
  BY <1>0, TorrentOfObject
<1>2. PICK c \in Nat \ {0} : c = m_file_counter[t]
  BY <1>1, CounterOfJob
<1>3. PICK z \in Int : z = m_file_counter[NoHash]
  BY <1>0 DEF TypeOK
<1>4. PICK g : g = m_file_counter'
  OBVIOUS
<1>5. PICK D : D = DOMAIN m_media_list
  OBVIOUS
<1>6. Cardinality(D \ {j}) = Cardinality(D) - 1 /\ Cardinality(D) \in Nat
  BY <1>0, <1>5, FS_RemoveElement, FS_CardinalityType
<1>7. DOMAIN m_media_list' = D \ {j}
  BY <1>5
<1>8. Cardinality(Units) = Cardinality(D) - z
  BY <1>3, <1>5 DEF CountOK, CounterCountsJobs
<1>9. Units' = UnitsOf(g) /\ Units = UnitsOf(m_file_counter) /\ IsFiniteSet(UnitsOf(m_file_counter))
  BY <1>4 DEF Units, UnitsOf, CountOK
<1>10. CASE j.handle \in alive
  <2>1. g = [m_file_counter EXCEPT ![t] = c - 1]
    BY <1>1, <1>2, <1>4, <1>10 DEF info_hash
  <2>2. g[t] = c - 1 /\ (\A s \in Torrents : s # t => g[s] = m_file_counter[s]) /\ g[NoHash] = z
    BY <1>0, <1>3, <2>1, ManagerAssumption DEF TypeOK
  <2>3. /\ IsFiniteSet(UnitsOf(g))
        /\ Cardinality(UnitsOf(g)) = Cardinality(UnitsOf(m_file_counter)) - 1
    BY <1>2, <1>9, <2>2, UnitsShrink
  <2>4. Cardinality(UnitsOf(g)) = Cardinality(D \ {j}) - z
    BY <1>6, <1>8, <1>9, <2>3
  <2> QED
    BY <1>4, <1>7, <1>9, <2>2, <2>3, <2>4 DEF CountOK, CounterCountsJobs
<1>11. CASE j.handle \notin alive
  <2>1. g = [m_file_counter EXCEPT ![NoHash] = z - 1]
    BY <1>3, <1>4, <1>11 DEF info_hash
  <2>2. g[NoHash] = z - 1 /\ (\A s \in Torrents : g[s] = m_file_counter[s])
    BY <1>0, <1>3, <2>1, ManagerAssumption DEF TypeOK
  <2>3. UnitsOf(g) = UnitsOf(m_file_counter)
    BY <2>2, UnitsSame
  <2>4. Cardinality(UnitsOf(g)) = Cardinality(D \ {j}) - (z - 1)
    BY <1>6, <1>8, <1>9, <2>3
  <2> QED
    BY <1>4, <1>7, <1>9, <2>2, <2>3, <2>4 DEF CountOK, CounterCountsJobs
<1> QED
  BY <1>10, <1>11

\* No other step makes a job, ends one or counts.
LEMMA StepCount ==
  ASSUME Inv, CountOK, [Next]_vars
  PROVE  CountOK'
<1> USE DEF sessionVars, managerVars, loopVars, inputVars
<1>1. ASSUME m_file_counter' = m_file_counter, DOMAIN m_media_list' = DOMAIN m_media_list
      PROVE  CountOK'
  <2>1. Units' = Units
    BY <1>1 DEF Units
  <2> QED
    BY <1>1, <2>1 DEF CountOK, CounterCountsJobs
<1>2. CASE InputThread \/ Session \/ Clock \/ UNCHANGED vars
  BY <1>1, <1>2 DEF InputThread, Session, Clock, add_torrent_download, StopRequested, BadPath,
       SessionExecutes, FifteenMinutes, vars
<1>3. CASE HandleAlert
  <2>1. PICK al : al = Head(popped)
    OBVIOUS
  <2>2. CASE UNCHANGED managerVars
    BY <1>1, <2>2
  <2>3. CASE al.handle \in alive /\ handle_torrent_add(al.handle)
    <3>1. PICK h \in alive : h = al.handle
      BY <2>3
    <3>2. CASE UNCHANGED <<m_media_list, m_file_counter>>
      BY <1>1, <3>2
    <3>3. CASE /\ m_media_list' = [j \in DOMAIN m_media_list \union NewJobs(h) |->
                                     IF j \in NewJobs(h) THEN "gathering" ELSE m_media_list[j]]
               /\ m_file_counter' = [m_file_counter EXCEPT ![torrentOf[h]] =
                                       @ + MediaFiles[torrentOf[h]]]
      BY <3>3, MadeCounted
    <3> QED
      BY <2>3, <3>1, <3>2, <3>3 DEF handle_torrent_add
  <2> QED
    BY <1>3, <2>1, <2>2, <2>3 DEF HandleAlert, Throws
<1>4. ASSUME NEW j \in todo, SweepJob(j) PROVE CountOK'
  <2>1. j \in DOMAIN m_media_list
    BY DEF Inv, TypeOK
  <2>2. CASE UNCHANGED <<m_media_list, m_file_counter>>
    BY <1>1, <2>2
  <2>3. CASE /\ m_media_list' = [k \in DOMAIN m_media_list \ {j} |-> m_media_list[k]]
             /\ m_file_counter' = [m_file_counter EXCEPT ![info_hash(j.handle)] = @ - 1]
    BY <2>1, <2>3, SweptCounted
  <2> QED
    BY <1>4, <2>2, <2>3 DEF SweepJob
<1>5. ASSUME NEW j \in todo, ProcessJob(j) PROVE CountOK'
  BY <1>1, <1>5 DEF ProcessJob, Throws
<1>6. CASE RenderingThreads
  BY <1>1, <1>6 DEF RenderingThreads, RenderingEnds, Throws
<1>7. CASE \/ PopAlerts \/ Stop \/ AlertsDone \/ ProcessDone \/ JobsDone \/ SweepActive
           \/ ActiveDone \/ SweepUpload \/ Sleep
  BY <1>1, <1>7 DEF PopAlerts, Stop, AlertsDone, ProcessDone, JobsDone, SweepActive, ActiveDone,
       SweepUpload, Sleep, Throws
<1> QED
  BY <1>2, <1>3, <1>4, <1>5, <1>6, <1>7 DEF Next, MainThread

\* The units on the counters (m_file_counter) are as many as the jobs left and those counted
\* off under the zero hash, however often torrents are asked for and whatever handles died.
THEOREM CountersCount == Spec => []CounterCountsJobs
<1>1. Init => CountOK
  <2> SUFFICES ASSUME Init PROVE CountOK
    OBVIOUS
  <2>1. m_file_counter = [hash \in Torrents \union {NoHash} |-> 0] /\ DOMAIN m_media_list = {}
    BY DEF Init
  <2>2. Units = {} /\ m_file_counter[NoHash] = 0
    BY <2>1 DEF Units
  <2> QED
    BY <2>1, <2>2, FS_EmptySet DEF CountOK, CounterCountsJobs
<1>2. Inv /\ CountOK /\ [Next]_vars => CountOK'
  BY StepCount
<1>3. CountOK => CounterCountsJobs
  BY DEF CountOK
<1> QED
  BY <1>1, <1>2, <1>3, InvariantHolds, PTL DEF Spec
=============================================================================
