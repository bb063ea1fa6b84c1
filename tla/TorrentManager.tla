--------------------------- MODULE TorrentManager ----------------------------
(***************************************************************************)
(* media_torrent_manager (include/media_torrent_manager.hpp,               *)
(* src/media_torrent_manager.cpp) and the main program around it           *)
(* (src/torrentQuickMediaManager.cpp): the input thread takes torrents     *)
(* from clients, the main thread runs handle_loop, both under m_mutex;     *)
(* the libtorrent session executes their asynchronous calls in order and   *)
(* queues alerts; each media job renders on a thread of its own.           *)
(*                                                                         *)
(* Simplifications:                                                        *)
(*  - a media job goes through the phases of JobLifecycle, which MediaMkv  *)
(*    implements; the pieces it waits for are in that module, and Defects  *)
(*    says what else the files of a torrent can make its jobs do;          *)
(*  - a torrent goes by what info_hash() makes of its hashes, the v2 hash  *)
(*    cut short if it has one; a hybrid torrent that the session first     *)
(*    knows by one hash is the same torrent from the start;                *)
(*  - a torrent_handle is the number of the torrent object it refers to;   *)
(*    calling libtorrent with the handle of a dead object throws           *)
(*    (is_valid() or the weak pointer fails), which ends the program, but  *)
(*    its info_hash() is the zero hash and does not throw;                 *)
(*  - m_file_counter is read and written with operator[], so a missing     *)
(*    entry is 0;                                                          *)
(*  - flags set on a torrent and the resume file have no effect here.      *)
(***************************************************************************)
EXTENDS Integers, Sequences, FiniteSets, FiniteSetsExt

CONSTANTS
  Torrents,       \* info hashes: the best hash of each torrent
  V1Hash,         \* the v1 hash in the magnet link of each, its best one if it has no v2
  MediaFiles,     \* how many supported files each torrent has
  NoHash,         \* the zero hash: info_hash() of the handle of a dead object
  Hopeless,       \* torrents whose jobs or rendering may take for ever (see JobEnds of
                  \* MediaMkv and RenderingEnds of DecodeLoop)
  Defects,        \* what the files of each torrent may do to the program
  ClientRequests, \* the requests clients may send: torrent, is_magnet, upload_mode
  MaxRequests,    \* bound on the requests clients send
  MaxNumber       \* bound on the jobs of one handle, for the fairness of each

\* Null pointers of handle_get_seekhead and of the rendering thread, and a read that
\* never returns from process().
AllDefects == {"null seek", "null block", "endless read"}

ASSUME ManagerAssumption ==
  /\ NoHash \notin Torrents
  /\ \A t \in Torrents : V1Hash[t] = t \/ V1Hash[t] \notin Torrents
  /\ MediaFiles \in [Torrents -> Nat]
  /\ Hopeless \subseteq Torrents
  /\ Defects \in [Torrents -> SUBSET AllDefects]
  /\ ClientRequests \subseteq [torrent : Torrents, is_magnet : BOOLEAN, upload_mode : BOOLEAN]
  /\ MaxRequests \in Nat
  /\ MaxNumber \in Nat

VARIABLES
  \* libtorrent: requests to execute, alerts to pop, torrent objects
  requests, alerts,
  torrentOf,          \* the torrent of each torrent object ever made
  alive,              \* the objects in the session
  metadata,           \* the objects that know their files
  unheard,            \* those of which the full queue dropped the alert that says so
  \* media_torrent_manager
  m_media_list,       \* the phase of each media job
  m_file_counter, m_pending_update, m_active_list, m_upload_list,
  \* the main thread
  pc,                 \* where handle_loop is; it has the mutex unless "asleep", and
                      \* never gives it back when "spinning"
  popped,             \* the alerts popped and not handled yet
  todo,               \* the jobs the current loop over m_media_list has not reached
  it,                 \* the position of the loop over m_active_list or m_upload_list
  exited,             \* why the program ended, "no" while it runs
  \* the input thread
  shouldStop, input,
  \* history: the requests made for each torrent
  requested

sessionVars == <<requests, alerts, torrentOf, alive, metadata, unheard>>
managerVars == <<m_media_list, m_file_counter, m_pending_update, m_active_list, m_upload_list>>
loopVars == <<pc, popped, todo, it, exited>>
inputVars == <<shouldStop, input, requested>>
vars == <<sessionVars, managerVars, loopVars, inputVars>>

Handles == 1 .. MaxRequests

\* A job is the handle it was made with and a number that tells apart the jobs
\* of that handle: its file, numbered on if the handle is handed over again.
JobsOf(h) == {j \in DOMAIN m_media_list : j.handle = h}
JobsOfTorrent(t) == {j \in DOMAIN m_media_list : torrentOf[j.handle] = t}
Phases == {"gathering", "rendering", "done", "failed"}

info_hash(h) == IF h \in alive THEN torrentOf[h] ELSE NoHash

Init ==
  /\ requests = <<>> /\ alerts = <<>>
  /\ torrentOf = <<>> /\ alive = {} /\ metadata = {} /\ unheard = {}
  /\ m_media_list = <<>>
  /\ m_file_counter = [hash \in Torrents \union {NoHash} |-> 0]
  /\ m_pending_update = {}
  /\ m_active_list = <<>> /\ m_upload_list = <<>>
  /\ pc = "asleep" /\ popped = <<>> /\ todo = {} /\ it = 1 /\ exited = "no"
  /\ shouldStop = FALSE /\ input = "serving"
  /\ requested = [t \in Torrents |-> <<>>]

Running == exited = "no"

RequestCount == Cardinality({r \in Torrents \X Handles : r[2] <= Len(requested[r[1]])})

-----------------------------------------------------------------------------
(* The input thread.                                                       *)

\* The hash under which an upload is kept pending: get(V1) of a magnet link, but
\* info_hash() of a torrent file.
PendingHash(t, is_magnet) == IF is_magnet THEN V1Hash[t] ELSE t

\* add_torrent_download, for a magnet link or a torrent file.
add_torrent_download(t, is_magnet, upload_mode) ==
  /\ Running
  /\ input = "serving"
  /\ pc = "asleep"
  /\ RequestCount < MaxRequests
  /\ m_pending_update' =
       m_pending_update \union (IF upload_mode THEN {PendingHash(t, is_magnet)} ELSE {})
  /\ requests' = Append(requests, [op |-> "add", torrent |-> t, has_info |-> ~is_magnet])
  /\ requested' = [requested EXCEPT ![t] = 
                    Append(@, [is_magnet |-> is_magnet, upload_mode |-> upload_mode])]
  /\ UNCHANGED <<alerts, torrentOf, alive, metadata, unheard, m_media_list, m_file_counter,
                 m_active_list, m_upload_list, loopVars, shouldStop, input>>

\* A client that hangs up in the middle of its request, or SIGINT.
StopRequested ==
  /\ Running
  /\ ~shouldStop
  /\ shouldStop' = TRUE
  /\ input' \in {input, "ended"}
  /\ UNCHANGED <<sessionVars, managerVars, loopVars, requested>>

\* An empty path: the input thread returns and nobody is told.
BadPath ==
  /\ Running
  /\ input = "serving"
  /\ input' = "ended"
  /\ UNCHANGED <<sessionVars, managerVars, loopVars, shouldStop, requested>>

-----------------------------------------------------------------------------
(* The session.                                                            *)

InSession(t) == {h \in alive : torrentOf[h] = t}

\* An alert the queue has no room for is dropped; PopAlerts does not look which were.
Alerts(kind, h, has_info) ==
  alerts' = Append(alerts, [kind |-> kind, handle |-> h, has_info |-> has_info])

\* An add of a torrent the session has answers with the object it has.
SessionAdds ==
  /\ requests # <<>>
  /\ Head(requests).op = "add"
  /\ requests' = Tail(requests)
  /\ LET r == Head(requests)
         fresh == Len(torrentOf) + 1
     IN  \/ /\ InSession(r.torrent) = {}
            /\ torrentOf' = Append(torrentOf, r.torrent)
            /\ alive' = alive \union {fresh}
            /\ metadata' = IF r.has_info THEN metadata \union {fresh} ELSE metadata
            /\ \/ Alerts("added", fresh, r.has_info) /\ UNCHANGED unheard
               \/ /\ r.has_info
                  /\ unheard' = unheard \union {fresh}
                  /\ UNCHANGED alerts
         \/ \E h \in InSession(r.torrent) :
              /\ \/ /\ Alerts("added", h, r.has_info)
                    /\ unheard' = IF r.has_info THEN unheard \ {h} ELSE unheard
                 \/ r.has_info /\ UNCHANGED <<alerts, unheard>>
              /\ UNCHANGED <<torrentOf, alive, metadata>>

\* The add fails; its alert carries the error.
SessionRefuses ==
  /\ requests # <<>>
  /\ Head(requests).op = "add"
  /\ InSession(Head(requests).torrent) = {}
  /\ requests' = Tail(requests)
  /\ Alerts("refused", 0, FALSE)
  /\ UNCHANGED <<torrentOf, alive, metadata, unheard>>

SessionRemoves ==
  /\ requests # <<>>
  /\ Head(requests).op = "remove"
  /\ requests' = Tail(requests)
  /\ alive' = alive \ {Head(requests).handle}
  /\ UNCHANGED <<alerts, torrentOf, metadata, unheard>>

\* Peers send the metadata of a magnet link.
MetadataReceived(h) ==
  /\ h \in alive \ metadata
  /\ metadata' = metadata \union {h}
  /\ \/ Alerts("metadata", h, TRUE) /\ UNCHANGED unheard
     \/ unheard' = unheard \union {h} /\ UNCHANGED alerts
  /\ UNCHANGED <<requests, torrentOf, alive>>

\* A piece is finished; one such alert at a time is enough to tell.
PieceFinished(h) ==
  /\ h \in alive \intersect metadata
  /\ \A i \in DOMAIN alerts : alerts[i].kind # "piece"
  /\ Alerts("piece", h, TRUE)
  /\ UNCHANGED <<requests, torrentOf, alive, metadata, unheard>>

SessionExecutes == SessionAdds \/ SessionRefuses \/ SessionRemoves

Session ==
  /\ Running
  /\ SessionExecutes \/ \E h \in alive : MetadataReceived(h) \/ PieceFinished(h)
  /\ UNCHANGED <<managerVars, loopVars, inputVars>>

-----------------------------------------------------------------------------
(* handle_loop.                                                            *)

\* Leave handle_loop, and the program, with an exception.
Throws(why) ==
  /\ exited' = why
  /\ UNCHANGED <<sessionVars, managerVars, pc, popped, todo, it, inputVars>>

PopAlerts ==
  /\ Running
  /\ pc = "asleep"
  /\ ~shouldStop
  /\ pc' = "alerts"
  /\ popped' = alerts
  /\ alerts' = <<>>
  /\ UNCHANGED <<requests, torrentOf, alive, metadata, unheard, managerVars, todo, it, exited,
                 inputVars>>

Stop ==
  /\ Running
  /\ pc = "asleep"
  /\ shouldStop
  /\ exited' = "asked"
  /\ UNCHANGED <<sessionVars, managerVars, pc, popped, todo, it, inputVars>>

\* The jobs handle_file_add makes, one for each supported file.
NewJobs(h) ==
  LET last == Max({0} \union {j.number : j \in JobsOf(h)})
  IN  {[handle |-> h, number |-> n] : n \in (last + 1) .. (last + MediaFiles[torrentOf[h]])}

\* Mutant: the counter counts the torrent, not its files.
CountsTorrentOnce(h) ==
  \/ /\ h \notin metadata
     /\ UNCHANGED managerVars
  \/ /\ h \in metadata
     /\ m_active_list' = Append(m_active_list, h)
     /\ m_media_list' = [j \in DOMAIN m_media_list \union NewJobs(h) |->
                           IF j \in NewJobs(h) THEN "gathering" ELSE m_media_list[j]]
     /\ m_file_counter' = [m_file_counter EXCEPT ![torrentOf[h]] = @ + 1]
     /\ UNCHANGED <<m_pending_update, m_upload_list>>

\* Mutant: no return behind the upload list.
UploadsAndDownloads(h) ==
  \/ /\ h \notin metadata
     /\ UNCHANGED managerVars
  \/ /\ h \in metadata
     /\ m_upload_list' = IF torrentOf[h] \in m_pending_update
                         THEN Append(m_upload_list, [handle |-> h, old |-> FALSE])
                         ELSE m_upload_list
     /\ m_pending_update' = m_pending_update \ {torrentOf[h]}
     /\ m_active_list' = Append(m_active_list, h)
     /\ m_media_list' = [j \in DOMAIN m_media_list \union NewJobs(h) |->
                           IF j \in NewJobs(h) THEN "gathering" ELSE m_media_list[j]]
     /\ m_file_counter' = [m_file_counter EXCEPT ![torrentOf[h]] = @ + MediaFiles[torrentOf[h]]]

\* Mutant: a torrent to be uploaded is put on no list.
UploadOnNoList(h) ==
  \/ /\ h \notin metadata \/ torrentOf[h] \in m_pending_update
     /\ m_pending_update' = IF h \in metadata THEN m_pending_update \ {torrentOf[h]}
                                             ELSE m_pending_update
     /\ UNCHANGED <<m_media_list, m_file_counter, m_active_list, m_upload_list>>
  \/ /\ h \in metadata
     /\ torrentOf[h] \notin m_pending_update
     /\ m_active_list' = Append(m_active_list, h)
     /\ m_media_list' = [j \in DOMAIN m_media_list \union NewJobs(h) |->
                           IF j \in NewJobs(h) THEN "gathering" ELSE m_media_list[j]]
     /\ m_file_counter' = [m_file_counter EXCEPT ![torrentOf[h]] = @ + MediaFiles[torrentOf[h]]]
     /\ UNCHANGED <<m_pending_update, m_upload_list>>

handle_torrent_add(h) ==
  \/ /\ h \notin metadata
     /\ UNCHANGED managerVars
  \/ /\ h \in metadata
     /\ torrentOf[h] \in m_pending_update
     /\ m_upload_list' = Append(m_upload_list, [handle |-> h, old |-> FALSE])
     /\ m_pending_update' = m_pending_update \ {torrentOf[h]}
     /\ UNCHANGED <<m_media_list, m_file_counter, m_active_list>>
  \/ /\ h \in metadata
     /\ torrentOf[h] \notin m_pending_update
     /\ m_active_list' = Append(m_active_list, h)
     /\ m_media_list' = [j \in DOMAIN m_media_list \union NewJobs(h) |->
                           IF j \in NewJobs(h) THEN "gathering" ELSE m_media_list[j]]
     /\ m_file_counter' = [m_file_counter EXCEPT ![torrentOf[h]] = @ + MediaFiles[torrentOf[h]]]
     /\ UNCHANGED <<m_pending_update, m_upload_list>>

HandleAlert ==
  /\ Running
  /\ pc = "alerts"
  /\ popped # <<>>
  /\ LET al == Head(popped)
         adds == al.kind \in {"added", "metadata"} /\ al.has_info
         calls == adds \/ al.kind = "piece"
     IN  \/ /\ calls
            /\ al.handle \notin alive
            /\ Throws(IF adds THEN "added a dead torrent" ELSE "late piece")
         \/ /\ calls => al.handle \in alive
            /\ popped' = Tail(popped)
            /\ IF adds THEN handle_torrent_add(al.handle) ELSE UNCHANGED managerVars
            /\ UNCHANGED <<sessionVars, pc, todo, it, exited, inputVars>>

AlertsDone ==
  /\ Running
  /\ pc = "alerts"
  /\ popped = <<>>
  /\ pc' = "process"
  /\ todo' = DOMAIN m_media_list
  /\ UNCHANGED <<sessionVars, managerVars, popped, it, exited, inputVars>>

MayDo(j, defect) == defect \in Defects[torrentOf[j.handle]]

\* media->process(): the job does nothing, or goes on with the help of its torrent; the
\* file may make it use a null pointer, or read for ever.
ProcessJob(j) ==
  /\ Running
  /\ pc = "process"
  /\ j \in todo
  /\ \/ /\ todo' = todo \ {j}
        /\ UNCHANGED <<sessionVars, managerVars, pc, popped, it, exited, inputVars>>
     \/ /\ m_media_list[j] = "gathering"
        /\ j.handle \notin alive
        /\ Throws("job without torrent")
     \/ /\ m_media_list[j] = "gathering"
        /\ j.handle \in alive
        /\ \E next \in {"rendering", "failed"} : m_media_list' = [m_media_list EXCEPT ![j] = next]
        /\ todo' = todo \ {j}
        /\ UNCHANGED <<sessionVars, m_file_counter, m_pending_update, m_active_list,
                       m_upload_list, pc, popped, it, exited, inputVars>>
     \/ /\ m_media_list[j] = "gathering"
        /\ j.handle \in alive
        /\ \/ MayDo(j, "null seek") /\ Throws("null seek")
           \/ /\ MayDo(j, "endless read")
              /\ pc' = "spinning"
              /\ UNCHANGED <<sessionVars, managerVars, popped, todo, it, exited, inputVars>>

ProcessDone ==
  /\ Running
  /\ pc = "process"
  /\ todo = {}
  /\ pc' = "jobs"
  /\ todo' = DOMAIN m_media_list
  /\ UNCHANGED <<sessionVars, managerVars, popped, it, exited, inputVars>>

is_finish(j) == m_media_list[j] \in {"done", "failed"}

\* Mutant: the counter goes down whether the job is finished or not.
CountsDownAlways(j) ==
  /\ Running
  /\ pc = "jobs"
  /\ j \in todo
  /\ todo' = todo \ {j}
  /\ m_media_list' = [k \in {k \in DOMAIN m_media_list : k # j \/ ~is_finish(j)} |-> m_media_list[k]]
  /\ m_file_counter' = [m_file_counter EXCEPT ![info_hash(j.handle)] = @ - 1]
  /\ UNCHANGED <<sessionVars, m_pending_update, m_active_list, m_upload_list,
                 pc, popped, it, exited, inputVars>>

SweepJob(j) ==
  /\ Running
  /\ pc = "jobs"
  /\ j \in todo
  /\ todo' = todo \ {j}
  /\ \/ /\ is_finish(j)
        /\ m_media_list' = [k \in DOMAIN m_media_list \ {j} |-> m_media_list[k]]
        /\ m_file_counter' = [m_file_counter EXCEPT ![info_hash(j.handle)] = @ - 1]
     \/ /\ ~is_finish(j)
        /\ UNCHANGED <<m_media_list, m_file_counter>>
  /\ UNCHANGED <<sessionVars, m_pending_update, m_active_list, m_upload_list,
                 pc, popped, it, exited, inputVars>>

\* Mutant: one job left is taken for none.
AlmostIdle(h) == m_file_counter[info_hash(h)] <= 1

\* The torrents without a job left go from the active to the upload list.
Idle(h) == m_file_counter[info_hash(h)] = 0

JobsDone ==
  /\ Running
  /\ pc = "jobs"
  /\ todo = {}
  /\ pc' = "active"
  /\ it' = 1
  /\ UNCHANGED <<sessionVars, managerVars, popped, todo, exited, inputVars>>

Without(list, i) == SubSeq(list, 1, i - 1) \o SubSeq(list, i + 1, Len(list))

SweepActive ==
  /\ Running
  /\ pc = "active"
  /\ it \in DOMAIN m_active_list
  /\ LET h == m_active_list[it]
     IN  \/ /\ ~Idle(h)
            /\ it' = it + 1
            /\ UNCHANGED <<sessionVars, managerVars, pc, popped, todo, exited, inputVars>>
         \/ /\ Idle(h)
            /\ h \notin alive
            /\ Throws("retired a dead torrent")
         \/ /\ Idle(h)
            /\ h \in alive
            /\ m_upload_list' = Append(m_upload_list, [handle |-> h, old |-> FALSE])
            /\ m_active_list' = Without(m_active_list, it)
            /\ UNCHANGED <<sessionVars, m_media_list, m_file_counter, m_pending_update,
                           loopVars, inputVars>>

ActiveDone ==
  /\ Running
  /\ pc = "active"
  /\ it \notin DOMAIN m_active_list
  /\ pc' = "upload"
  /\ it' = 1
  /\ UNCHANGED <<sessionVars, managerVars, popped, todo, exited, inputVars>>

\* Mutant: the entry is erased, the torrent is not removed.
ErasesOnly ==
  /\ Running
  /\ pc = "upload"
  /\ it \in DOMAIN m_upload_list
  /\ m_upload_list' = SelectSeq(m_upload_list, LAMBDA up : ~up.old)
  /\ it' = Len(m_upload_list') + 1
  /\ UNCHANGED <<sessionVars, m_media_list, m_file_counter, m_pending_update, m_active_list,
                 pc, popped, todo, exited, inputVars>>

SweepUpload ==
  /\ Running
  /\ pc = "upload"
  /\ it \in DOMAIN m_upload_list
  /\ LET up == m_upload_list[it]
     IN  \/ /\ ~up.old
            /\ it' = it + 1
            /\ UNCHANGED <<sessionVars, managerVars, pc, popped, todo, exited, inputVars>>
         \/ /\ up.old
            /\ up.handle \notin alive
            /\ Throws("removed a dead torrent")
         \/ /\ up.old
            /\ up.handle \in alive
            /\ requests' = Append(requests, [op |-> "remove", handle |-> up.handle])
            /\ m_upload_list' = Without(m_upload_list, it)
            /\ UNCHANGED <<alerts, torrentOf, alive, metadata, unheard, m_media_list,
                           m_file_counter, m_pending_update, m_active_list, loopVars, inputVars>>

Sleep ==
  /\ Running
  /\ pc = "upload"
  /\ it \notin DOMAIN m_upload_list
  /\ pc' = "asleep"
  /\ UNCHANGED <<sessionVars, managerVars, popped, todo, it, exited, inputVars>>

-----------------------------------------------------------------------------
(* The rendering threads and the clock.                                    *)

\* A rendering thread reads the pieces of its clusters with the help of the
\* torrent's file list; an exception there ends the program, and so does the null
\* pointer of DecodeLoop.
RenderingEnds(j) ==
  /\ Running
  /\ m_media_list[j] = "rendering"
  /\ \/ /\ \E verdict \in {"done", "failed"} : m_media_list' = [m_media_list EXCEPT ![j] = verdict]
        /\ UNCHANGED <<sessionVars, m_file_counter, m_pending_update, m_active_list,
                       m_upload_list, loopVars, inputVars>>
     \/ /\ j.handle \notin alive
        /\ Throws("thread without torrent")
     \/ MayDo(j, "null block") /\ Throws("null block")

FifteenMinutes(i) ==
  /\ Running
  /\ ~m_upload_list[i].old
  /\ pc = "asleep"
  /\ m_upload_list' = [m_upload_list EXCEPT ![i].old = TRUE]
  /\ UNCHANGED <<sessionVars, m_media_list, m_file_counter, m_pending_update, m_active_list,
                 loopVars, inputVars>>

-----------------------------------------------------------------------------
InputThread ==
  \/ \E r \in ClientRequests : add_torrent_download(r.torrent, r.is_magnet, r.upload_mode)
  \/ StopRequested
  \/ BadPath

MainThread ==
  \/ PopAlerts
  \/ Stop
  \/ HandleAlert
  \/ AlertsDone
  \/ \E j \in todo : ProcessJob(j) \/ SweepJob(j)
  \/ ProcessDone
  \/ JobsDone
  \/ SweepActive
  \/ ActiveDone
  \/ SweepUpload
  \/ Sleep

RenderingThreads == \E j \in DOMAIN m_media_list : RenderingEnds(j)

Clock == \E i \in DOMAIN m_upload_list : FifteenMinutes(i)

Next == InputThread \/ Session \/ MainThread \/ RenderingThreads \/ Clock

\* The main loop runs every 200 ms and the session executes what it is asked;
\* a job that is not hopeless gathers its pieces in the end (JobEnds of MediaMkv) and
\* its rendering thread ends (RenderingEnds of DecodeLoop), and time passes.
JobIds == [handle : Handles, number : 1 .. MaxNumber]

JobGoesOn(j) ==
  /\ ProcessJob(j)
  /\ torrentOf[j.handle] \notin Hopeless
  /\ m_media_list[j] = "gathering"
  /\ m_media_list' # m_media_list \/ exited' # exited \/ pc' # pc

ThreadEnds(j) ==
  /\ j \in DOMAIN m_media_list
  /\ torrentOf[j.handle] \notin Hopeless
  /\ RenderingEnds(j)

Fairness ==
  /\ WF_vars(MainThread)
  /\ WF_vars(Running /\ SessionExecutes /\ UNCHANGED <<managerVars, loopVars, inputVars>>)
  /\ \A j \in JobIds : SF_vars(j \in todo /\ JobGoesOn(j))
  /\ \A j \in JobIds : WF_vars(ThreadEnds(j))
  /\ SF_vars(Clock)

Spec == Init /\ [][Next]_vars /\ Fairness

-----------------------------------------------------------------------------
(* Properties.                                                             *)

Alert == [kind : {"added", "metadata", "piece"}, handle : DOMAIN torrentOf, has_info : BOOLEAN]
           \union [kind : {"refused"}, handle : {0}, has_info : {FALSE}]
Request == [op : {"add"}, torrent : Torrents, has_info : BOOLEAN]
             \union [op : {"remove"}, handle : DOMAIN torrentOf]
Job == [handle : DOMAIN torrentOf, number : Nat \ {0}]

Asked == [is_magnet : BOOLEAN, upload_mode : BOOLEAN]

Reasons == {"no", "asked", "added a dead torrent", "late piece", "job without torrent",
            "retired a dead torrent", "removed a dead torrent", "thread without torrent",
            "null seek", "null block"}

\* Every variable holds a value of its type.
TypeOK ==
  /\ requests \in Seq(Request)
  /\ alerts \in Seq(Alert) /\ popped \in Seq(Alert)
  /\ torrentOf \in Seq(Torrents)
  /\ metadata \subseteq DOMAIN torrentOf
  /\ unheard \subseteq DOMAIN torrentOf
  /\ alive \subseteq DOMAIN torrentOf
  /\ DOMAIN m_media_list \subseteq Job
  /\ \A j \in DOMAIN m_media_list : m_media_list[j] \in Phases
  /\ m_file_counter \in [Torrents \union {NoHash} -> Int]
  /\ \A t \in Torrents : m_file_counter[t] >= 0
  /\ m_pending_update \subseteq Torrents \union {V1Hash[t] : t \in Torrents}
  /\ m_active_list \in Seq(DOMAIN torrentOf)
  /\ m_upload_list \in Seq([handle : DOMAIN torrentOf, old : BOOLEAN])
  /\ pc \in {"asleep", "alerts", "process", "spinning", "jobs", "active", "upload"}
  /\ todo \subseteq DOMAIN m_media_list
  /\ it \in Nat \ {0}
  /\ exited \in Reasons
  /\ shouldStop \in BOOLEAN
  /\ input \in {"serving", "ended"}
  /\ requested \in [Torrents -> Seq(Asked)]

\* The counter of a torrent is never below the number of its jobs, so that a torrent
\* with a job left is not retired, however often the torrent is handed over and in
\* whatever order its jobs end.
CounterCoversJobs ==
  \A t \in Torrents : m_file_counter[t] >= Cardinality(JobsOfTorrent(t))

\* The units on the counters of the torrents are as many as the jobs left and the jobs
\* that ended behind their torrent's back, which are counted off under the zero hash.
Units == UNION {{t} \X (1 .. m_file_counter[t]) : t \in Torrents}

CounterCountsJobs ==
  Cardinality(Units) = Cardinality(DOMAIN m_media_list) - m_file_counter[NoHash]

\* A torrent that was asked for once keeps its object as long as one of its jobs
\* may use it, waits for its removal only without jobs, and gets no job at all if
\* it was asked for to be uploaded, unless by the magnet link of a torrent whose best
\* hash is not its v1 hash: that one the manager does not recognise.
Once(t) == Len(requested[t]) = 1

Recognised(t, r) == r.upload_mode /\ PendingHash(t, r.is_magnet) = t

RequestHonoured ==
  \A t \in Torrents : Once(t) =>
    /\ \A j \in JobsOfTorrent(t) : j.handle \in alive
    /\ \A i \in DOMAIN m_upload_list :
         torrentOf[m_upload_list[i].handle] = t => JobsOfTorrent(t) = {}
    /\ Recognised(t, requested[t][1]) => JobsOfTorrent(t) = {}

\* The main thread never stops by itself, by an exception or in a read without end,
\* unless a torrent was asked for twice, a piece was finished just before its torrent
\* was removed, or a torrent was asked for whose files do just that.
AskedFor(defect) == \E t \in Torrents : requested[t] # <<>> /\ defect \in Defects[t]

EndsOnlyWhenAsked ==
  (\A t \in Torrents : Len(requested[t]) <= 1) =>
    /\ exited \in {"no", "asked", "late piece"} \/ AskedFor(exited)
    /\ pc = "spinning" => AskedFor("endless read")

\* No torrent object is forgotten: while it is in the session and knows its files,
\* an alert will still hand it to the manager, a list of the manager has it, or
\* its removal is under way, unless the queue dropped the alert that says it knows them.
Mentions(queue, h) ==
  \E i \in DOMAIN queue : queue[i].handle = h /\ queue[i].kind \in {"added", "metadata"}

NoTorrentForgotten ==
  \A h \in (alive \intersect metadata) \ unheard :
    \/ Mentions(alerts, h) \/ Mentions(popped, h)
    \/ \E i \in DOMAIN m_active_list : m_active_list[i] = h
    \/ \E i \in DOMAIN m_upload_list : m_upload_list[i].handle = h
    \/ \E i \in DOMAIN requests : requests[i].op = "remove" /\ requests[i].handle = h

\* A torrent whose jobs can end leaves the session, even while the jobs of other
\* torrents wait for ever, unless the program ends before, a read of some file never
\* returns, or the queue dropped the alert that hands the torrent over.
TorrentsRetire ==
  \A h \in Handles :
    h \in metadata /\ torrentOf[h] \notin Hopeless
      ~> h \notin alive \/ exited # "no" \/ pc = "spinning" \/ h \in unheard
=============================================================================
