--------------------------- MODULE RetentionProofs ---------------------------
(***************************************************************************)
(* Theorems about Retention, for every set of sessions, every assignment   *)
(* of deadlines and every number of crashes, failures and foreign halts.   *)
(***************************************************************************)
EXTENDS Retention, TLAPS

FileStates == {"none", "torn", "short", "ok"}
Files == [marker : FileStates, wal : FileStates, reserve : FileStates]

Methods == {"idle", "recover", "expire", "arm", "write", "halt", "mark", "read",
            "claim"}
Places == {"rest", "next", "retain", "revoke", "wal", "reserve", "sync", "marker",
           "gone", "create marker", "write marker", "sync marker",
           "create wal", "create reserve", "allocate", "sync sessions",
           "commit", "release", "sync release", "revalidate", "append"}
Contents == Frames \cup {"nothing", "halted"}

Jobs == [op : Methods, s : Sessions \cup {NoSession}, at : Places,
         todo : SUBSET Sessions, frame : Contents, reserve : BOOLEAN,
         due : BOOLEAN, orphan : BOOLEAN]

DiskTyped == vis \in [Sessions -> Files] /\ dur \in [Sessions -> Files]

\* A job that is at work on a session names it.
JobTyped ==
    /\ job \in Jobs
    /\ job.at \notin {"rest", "next"} => job.s \in Sessions

-----------------------------------------------------------------------------
(* Where a job stands says what it has found or left on the disk. *)

Bytes(s) == \/ vis[s].wal # "none" \/ dur[s].wal # "none"
            \/ vis[s].reserve # "none" \/ dur[s].reserve # "none"

\* Arming has its whole marker, and has it durably, before the first byte.
MarkerWhole == job.at = "sync marker" => vis[job.s].marker = "ok"

MarkerDurable ==
    job.at \in {"create wal", "create reserve", "allocate", "sync sessions"}
        => vis[job.s].marker = "ok" /\ dur[job.s].marker = "ok"

\* A deletion knows of the reserve it has to unlink.
ReserveKnown ==
    job.at \in {"revoke", "wal", "reserve"}
        => job.reserve \/ vis[job.s].reserve = "none"

WalUnlinked == job.at \in {"reserve", "sync"} => vis[job.s].wal = "none"
ReserveUnlinked == job.at = "sync" => vis[job.s].reserve = "none"

\* The marker goes when nothing is left that it was about, not even on the
\* other side of a power failure.
NothingLeft == job.at = "marker" => ~Bytes(job.s)

DiskInv == /\ DiskTyped /\ JobTyped /\ BytesAreBound
           /\ MarkerWhole /\ MarkerDurable
           /\ ReserveKnown /\ WalUnlinked /\ ReserveUnlinked /\ NothingLeft

-----------------------------------------------------------------------------
\* Moving a job keeps what it is about.
LEMMA JobMoves ==
    ASSUME NEW j \in Jobs, NEW a \in Places
    PROVE  /\ [j EXCEPT !.at = a] \in Jobs
           /\ [j EXCEPT !.at = a].at = a
           /\ [j EXCEPT !.at = a].s = j.s
           /\ [j EXCEPT !.at = a].op = j.op
           /\ [j EXCEPT !.at = a].frame = j.frame
           /\ [j EXCEPT !.at = a].reserve = j.reserve
  BY DEF Jobs

\* A job that a method starts is well formed.
LEMMA NewJob ==
    ASSUME NEW op \in Methods, NEW s \in Sessions \cup {NoSession}, NEW a \in Places
    PROVE  /\ Job(op, s, a) \in Jobs
           /\ Job(op, s, a).at = a
           /\ Job(op, s, a).s = s
           /\ Job(op, s, a).op = op
  BY DEF Jobs, Job, Contents

\* What a job is about, and what it is to write.
LEMMA JobFilled ==
    ASSUME NEW j \in Jobs, NEW f \in Contents
    PROVE  /\ [j EXCEPT !.frame = f] \in Jobs
           /\ [j EXCEPT !.frame = f].frame = f
           /\ [j EXCEPT !.frame = f].at = j.at
           /\ [j EXCEPT !.frame = f].s = j.s
           /\ [j EXCEPT !.frame = f].op = j.op
  BY DEF Jobs

\* A job with another list of markers to visit stays well formed.
LEMMA JobListed ==
    ASSUME NEW j \in Jobs, NEW t \in SUBSET Sessions
    PROVE  /\ [j EXCEPT !.todo = t] \in Jobs
           /\ [j EXCEPT !.todo = t].at = j.at
  BY DEF Jobs

\* No method holds the coordinator's condition.
LEMMA IdleJob == Idle \in Jobs /\ Idle.at = "rest"
  <1>1. "idle" \in Methods
    BY DEF Methods
  <1>2. "rest" \in Places
    BY DEF Places
  <1>3. Idle.at = "rest"
    BY DEF Idle, Job
  <1>4. Job("idle", NoSession, "rest") \in Jobs
    BY <1>1, <1>2, NewJob
  <1> QED
    BY <1>3, <1>4 DEF Idle

-----------------------------------------------------------------------------
(* What the steps that leave the directories alone do with the job. *)

JobRests == job'.at \in {"rest", "next", "retain", "create marker"}

JobDeletes ==
    /\ job'.at \in {"revoke", "reserve"}
    /\ job'.at = "reserve" => vis[job'.s].wal = "none"
    /\ job'.reserve \/ vis[job'.s].reserve = "none"

JobRevokes == job.at = "revoke" /\ job' = [job EXCEPT !.at = "wal"]

JobWrites == job'.at \in {"release", "revalidate", "append"}

NoWriting ==
    /\ UNCHANGED <<vis, dur>>
    /\ \/ UNCHANGED job
       \/ JobRests
       \/ JobDeletes
       \/ JobRevokes

DirectoriesRest == NoWriting \/ (UNCHANGED <<vis, dur>> /\ JobWrites)

\* A validation that finds its session due starts a deletion that knows of the
\* reserve.
LEMMA Deleting ==
    ASSUME NEW op \in Methods, NEW s \in Sessions, DeleteDue(op, s), UNCHANGED <<vis, dur>>
    PROVE  JobTyped' /\ NoWriting
  <1>1. job' \in Jobs
    BY DEF DeleteDue, Jobs, Places, Contents
  <1>2. job'.at = "revoke" /\ job'.s = s /\ job'.reserve = (vis[s].reserve # "none")
    BY DEF DeleteDue
  <1>3. JobTyped'
    BY <1>1, <1>2 DEF JobTyped
  <1>4. JobDeletes
    BY <1>2 DEF JobDeletes
  <1> QED
    BY <1>3, <1>4 DEF NoWriting

\* The recovery pass visits a marker with a well-formed job.
LEMMA Visiting ==
    ASSUME JobTyped, NEW s \in Sessions
    PROVE  Visit(s) \in Jobs
  <1>1. job.op \in Methods /\ job.todo \in SUBSET Sessions /\ job.frame \in Contents
    BY DEF JobTyped, Jobs
  <1>2. ASSUME NEW a \in Places, NEW r \in BOOLEAN, NEW d \in BOOLEAN, NEW o \in BOOLEAN
        PROVE  [op |-> job.op, s |-> s, todo |-> job.todo \ {s}, frame |-> job.frame,
                reserve |-> r, due |-> d, orphan |-> o, at |-> a] \in Jobs
    BY <1>1, <1>2 DEF Jobs
  <1>3. Due(s) \in BOOLEAN
    BY DEF Due
  <1>4. (IF vis[s].wal = "none" THEN "reserve" ELSE IF Due(s) THEN "revoke" ELSE "retain")
           \in Places
    BY DEF Places
  <1> QED
    BY <1>2, <1>3, <1>4 DEF Visit

\* A method that returns leaves the directories and rests.
LEMMA Idling ==
    ASSUME job' = Idle, UNCHANGED <<vis, dur>>
    PROVE  JobTyped' /\ NoWriting
  BY IdleJob DEF JobTyped, NoWriting, JobRests

\* A step that is no method's leaves the job where it was.
LEMMA Waiting ==
    ASSUME JobTyped, UNCHANGED <<vis, dur, job>>
    PROVE  JobTyped' /\ NoWriting
  BY DEF JobTyped, NoWriting

\* Start, close, foreign halts and the clock leave the directories alone.
LEMMA ProcessRests ==
    ASSUME JobTyped, Acquire \/ Close \/ Exit \/ ForeignHalt \/ ForeignRevoke \/ Tick
                     \/ WorkerStops
    PROVE  JobTyped' /\ NoWriting
  BY Waiting DEF Acquire, Close, Exit, ForeignHalt, ForeignRevoke, Tick,
                 WorkerStops, disk, ctl, caps, env

\* The recovery pass and the expiry worker, between two deletions, leave the
\* directories alone, and start a deletion only with what it needs to know.
LEMMA RecoveryRests ==
    ASSUME JobTyped,
           Recover \/ Expire \/ RecoverEnd \/ Revoke \/ DeleteFails
             \/ \E s \in Sessions : RecoverOne(s)
    PROVE  JobTyped' /\ NoWriting
  <1>1. ASSUME NEW op \in Methods, RecoverStart(op), UNCHANGED <<vis, dur>>
        PROVE  JobTyped' /\ NoWriting
    <2> DEFINE marked == {s \in Sessions : vis[s].marker # "none"}
    <2>1. CASE job' = [Job(op, NoSession, "next") EXCEPT !.todo = marked]
      <3>0. "next" \in Places
        BY DEF Places
      <3>1. Job(op, NoSession, "next") \in Jobs /\ Job(op, NoSession, "next").at = "next"
        BY <3>0, NewJob
      <3>2. job' \in Jobs /\ job'.at = "next"
        BY <2>1, <3>1, JobListed
      <3> QED
        BY <1>1, <3>2 DEF JobTyped, NoWriting, JobRests
    <2>2. CASE UNCHANGED job
      BY <1>1, <2>2, Waiting
    <2> QED
      BY <1>1, <2>1, <2>2 DEF RecoverStart
  <1>2. CASE Recover
    BY <1>1, <1>2 DEF Recover, disk, Methods
  <1>3. CASE Expire
    BY <1>1, <1>3 DEF Expire, disk, Methods
  <1>4. CASE RecoverEnd
    BY <1>4, Idling DEF RecoverEnd, disk
  <1>5. CASE DeleteFails
    BY <1>5, Idling DEF DeleteFails, disk
  <1>6. CASE Revoke
    <2>1. job' \in Jobs /\ job'.at = "wal" /\ job'.s = job.s
      BY <1>6, JobMoves, ZenonT(60) DEF Revoke, JobTyped, Places
    <2> QED
      BY <1>6, <2>1 DEF Revoke, JobTyped, NoWriting, JobRevokes, disk
  <1>7. ASSUME NEW s \in Sessions, RecoverOne(s)
        PROVE  JobTyped' /\ NoWriting
    <2>1. CASE job' = Idle
      BY <1>7, <2>1, Idling DEF RecoverOne, disk
    <2>2. CASE job' # Idle
      <3>0. job' = Visit(s)
        BY <1>7, <2>2 DEF RecoverOne
      <3>1. /\ job'.s = s /\ job'.at \in {"reserve", "revoke", "retain"}
            /\ job'.reserve = (vis[s].reserve # "none")
            /\ job'.at = "reserve" => vis[s].wal = "none"
        BY <3>0 DEF Visit
      <3>2. job' \in Jobs
        BY <3>0, Visiting
      <3>3. JobTyped'
        BY <3>1, <3>2 DEF JobTyped
      <3>4. JobDeletes \/ JobRests
        BY <3>1 DEF JobDeletes, JobRests
      <3> QED
        BY <1>7, <3>3, <3>4 DEF RecoverOne, NoWriting, disk
    <2> QED
      BY <2>1, <2>2
  <1> QED
    BY <1>2, <1>3, <1>4, <1>5, <1>6, <1>7

\* A write starts at the release of the reserve or at the append.
LEMMA Starting ==
    ASSUME NEW op \in Methods, NEW s \in Sessions, NEW f \in Contents,
           NEW a \in {"release", "append"},
           job' = [Job(op, s, a) EXCEPT !.frame = f], UNCHANGED <<vis, dur>>
    PROVE  JobTyped' /\ DirectoriesRest
  <1>1. a \in Places
    BY DEF Places
  <1>2. Job(op, s, a) \in Jobs /\ Job(op, s, a).at = a /\ Job(op, s, a).s = s
    BY <1>1, NewJob
  <1>3. job' \in Jobs /\ job'.at = a /\ job'.s = s
    BY <1>2, JobFilled
  <1> QED
    BY <1>3 DEF JobTyped, DirectoriesRest, NoWriting, JobWrites

\* The begin and the end of arming leave the directories alone.
LEMMA ArmingRests ==
    ASSUME JobTyped, ArmCommit \/ ArmFails \/ \E s \in Sessions : Arm(s)
    PROVE  JobTyped' /\ NoWriting
  <1>1. CASE ArmCommit
    BY <1>1, Idling DEF ArmCommit, disk
  <1>2. CASE ArmFails
    BY <1>2, Idling DEF ArmFails, disk
  <1>3. ASSUME NEW s \in Sessions, Arm(s)
        PROVE  JobTyped' /\ NoWriting
    <2> DEFINE begun == Job("arm", s, "create marker")
    <2>1. begun \in Jobs
      <3>1. "arm" \in Methods
        BY DEF Methods
      <3>2. "create marker" \in Places
        BY DEF Places
      <3> QED
        BY <3>1, <3>2, NewJob
    <2>2. begun \in Jobs /\ begun.at = "create marker" /\ begun.s = s
      BY <2>1 DEF Job
    <2>3. job' = begun
      BY <1>3 DEF Arm
    <2>4. job' \in Jobs /\ job'.at = "create marker" /\ job'.s = s
      BY <2>2, <2>3
    <2> QED
      BY <1>3, <2>4 DEF Arm, JobTyped, NoWriting, JobRests, disk
  <1> QED
    BY <1>1, <1>2, <1>3

\* The owner's calls leave the directories alone.
LEMMA WritingRests ==
    ASSUME JobTyped, NEW s \in Sessions,
           \/ ClaimWriter(s) \/ ClaimRuntime(s) \/ FsyncFails(s)
           \/ \E f \in Frames : Write(s, f)
           \/ WriteHalt(s) \/ ObserveHalt(s) \/ AckClean(s)
           \/ CloseWriter(s) \/ MarkClean(s)
    PROVE  JobTyped' /\ DirectoriesRest
  <1>1. CASE FsyncFails(s) \/ ObserveHalt(s) \/ AckClean(s) \/ CloseWriter(s)
    BY <1>1, Waiting DEF DirectoriesRest, FsyncFails, ObserveHalt, AckClean, CloseWriter, disk
  <1>2. ASSUME NEW f \in Frames, Write(s, f)
        PROVE  JobTyped' /\ DirectoriesRest
    <2>1. f \in Contents
      BY DEF Contents
    <2>2. /\ UNCHANGED <<vis, dur>>
          /\ \/ UNCHANGED job
             \/ DeleteDue("write", s)
             \/ job' = [Job("write", s, IF f = "clean" THEN "release" ELSE "append")
                           EXCEPT !.frame = f]
      BY <1>2 DEF Write, disk
    <2>3. "write" \in Methods
      BY DEF Methods
    <2>4. (IF f = "clean" THEN "release" ELSE "append") \in {"release", "append"}
      OBVIOUS
    <2>5. CASE job' = [Job("write", s, IF f = "clean" THEN "release" ELSE "append")
                         EXCEPT !.frame = f]
      BY <2>1, <2>2, <2>3, <2>4, <2>5, Starting
    <2> QED
      BY <2>2, <2>3, <2>5, Waiting, Deleting DEF DirectoriesRest
  <1>3. CASE WriteHalt(s)
    <2>1. "halted" \in Contents
      BY DEF Contents
    <2>2. /\ UNCHANGED <<vis, dur>>
          /\ \/ UNCHANGED job
             \/ DeleteDue("halt", s)
             \/ job' = Idle
             \/ job' = [Job("halt", s, "release") EXCEPT !.frame = "halted"]
      BY <1>3 DEF WriteHalt, disk
    <2> QED
      BY <2>1, <2>2, Waiting, Deleting, Idling, Starting DEF DirectoriesRest, Methods
  <1>4. CASE MarkClean(s)
    BY <1>4, Waiting, Deleting DEF DirectoriesRest, MarkClean, disk, Methods
  <1>5. CASE ClaimWriter(s) \/ ClaimRuntime(s)
    <2>1. UNCHANGED <<vis, dur>> /\ (UNCHANGED job \/ DeleteDue("claim", s))
      BY <1>5 DEF ClaimWriter, ClaimRuntime, disk
    <2> QED
      BY <2>1, Waiting, Deleting DEF DirectoriesRest, Methods
  <1> QED
    BY <1>1, <1>2, <1>3, <1>4, <1>5

\* Nor does an append, or the validation before it, change a directory.
LEMMA WriterRests ==
    ASSUME JobTyped, Revalidate \/ AppendFrame \/ WriteFails
    PROVE  JobTyped' /\ DirectoriesRest
  <1>1. CASE AppendFrame
    BY <1>1, Idling DEF DirectoriesRest, AppendFrame
  <1>2. CASE WriteFails
    BY <1>2, Idling DEF DirectoriesRest, WriteFails, disk
  <1>3. CASE Revalidate
    <2>1. job.s \in Sessions /\ UNCHANGED <<vis, dur>>
      BY <1>3 DEF Revalidate, JobTyped, disk
    <2>2. CASE job' = Idle
      BY <2>1, <2>2, Idling DEF DirectoriesRest
    <2>3. CASE DeleteDue(job.op, job.s)
      BY <2>1, <2>3, Deleting DEF DirectoriesRest, JobTyped, Jobs
    <2>4. CASE job' = [job EXCEPT !.at = "append"]
      <3>1. job' \in Jobs /\ job'.at = "append" /\ job'.s = job.s
        BY <2>4, JobMoves DEF JobTyped, Places
      <3> QED
        BY <2>1, <3>1 DEF JobTyped, DirectoriesRest, NoWriting, JobWrites
    <2> QED
      BY <1>3, <2>2, <2>3, <2>4 DEF Revalidate
  <1> QED
    BY <1>1, <1>2, <1>3

\* Reading leaves the directories alone.
LEMMA ReadingRests ==
    ASSUME JobTyped, Reading
    PROVE  JobTyped' /\ NoWriting
  <1> SUFFICES ASSUME NEW s \in Sessions,
                      \/ IssueRead(s) \/ ClaimReader(s) \/ Pread(s)
                      \/ CloseReader(s) \/ RejectReplay(s)
               PROVE  JobTyped' /\ NoWriting
    BY DEF Reading
  <1>1. UNCHANGED <<vis, dur>> /\ (UNCHANGED job \/ DeleteDue("read", s))
    BY DEF IssueRead, ClaimReader, Pread, CloseReader, RejectReplay, ReadRefused, disk
  <1> QED
    BY <1>1, Waiting, Deleting DEF Methods

-----------------------------------------------------------------------------
(* The steps that change the directories. *)

Placed == /\ MarkerWhole /\ MarkerDurable
          /\ ReserveKnown /\ WalUnlinked /\ ReserveUnlinked /\ NothingLeft

\* A step that leaves the directories alone keeps the disk's invariant.
LEMMA RestKeeps ==
    ASSUME DiskInv, JobTyped', DirectoriesRest
    PROVE  DiskInv'
  <1>1. DiskTyped' /\ BytesAreBound'
    BY DEF DiskInv, DiskTyped, DirectoriesRest, NoWriting, BytesAreBound
  <1>2. CASE UNCHANGED job
    BY <1>1, <1>2 DEF DiskInv, DirectoriesRest, NoWriting, MarkerWhole, MarkerDurable, ReserveKnown,
                      WalUnlinked, ReserveUnlinked, NothingLeft, Bytes
  <1>3. CASE JobRests \/ JobWrites
    <2>1. Placed'
      BY <1>3 DEF JobRests, JobWrites, Placed, MarkerWhole, MarkerDurable, ReserveKnown,
                  WalUnlinked, ReserveUnlinked, NothingLeft
    <2> QED
      BY <1>1, <2>1 DEF DiskInv, Placed
  <1>4. CASE JobDeletes
    <2>1. Placed'
      BY <1>4 DEF JobDeletes, DirectoriesRest, NoWriting, Placed, MarkerWhole, MarkerDurable,
                  ReserveKnown, WalUnlinked, ReserveUnlinked, NothingLeft
    <2> QED
      BY <1>1, <2>1 DEF DiskInv, Placed
  <1>5. CASE JobRevokes
    <2>1. job'.at = "wal" /\ job'.s = job.s /\ job'.reserve = job.reserve
      BY <1>5, JobMoves, ZenonT(60) DEF JobRevokes, DiskInv, JobTyped, Places
    <2>2. Placed'
      BY <1>5, <2>1 DEF JobRevokes, DirectoriesRest, NoWriting, DiskInv, Placed, MarkerWhole,
                        MarkerDurable, ReserveKnown, WalUnlinked, ReserveUnlinked,
                        NothingLeft
    <2> QED
      BY <1>1, <2>2 DEF DiskInv, Placed
  <1> QED
    BY <1>2, <1>3, <1>4, <1>5 DEF DirectoriesRest, NoWriting

\* One file of one session changes, and nothing else.
LEMMA MarkerChange ==
    ASSUME vis \in [Sessions -> Files], NEW s \in Sessions, NEW v \in FileStates,
           vis' = [vis EXCEPT ![s].marker = v]
    PROVE  /\ vis' \in [Sessions -> Files]
           /\ vis'[s].marker = v
           /\ \A t \in Sessions : t # s => vis'[t].marker = vis[t].marker
           /\ \A t \in Sessions : vis'[t].wal = vis[t].wal /\ vis'[t].reserve = vis[t].reserve
  BY DEF Files

\* The log's entry changes.
LEMMA WalChange ==
    ASSUME vis \in [Sessions -> Files], NEW s \in Sessions, NEW v \in FileStates,
           vis' = [vis EXCEPT ![s].wal = v]
    PROVE  /\ vis' \in [Sessions -> Files]
           /\ vis'[s].wal = v
           /\ \A t \in Sessions : t # s => vis'[t].wal = vis[t].wal
           /\ \A t \in Sessions : vis'[t].marker = vis[t].marker /\ vis'[t].reserve = vis[t].reserve
  BY DEF Files

\* The reserve's entry changes.
LEMMA ReserveChange ==
    ASSUME vis \in [Sessions -> Files], NEW s \in Sessions, NEW v \in FileStates,
           vis' = [vis EXCEPT ![s].reserve = v]
    PROVE  /\ vis' \in [Sessions -> Files]
           /\ vis'[s].reserve = v
           /\ \A t \in Sessions : t # s => vis'[t].reserve = vis[t].reserve
           /\ \A t \in Sessions : vis'[t].marker = vis[t].marker /\ vis'[t].wal = vis[t].wal
  BY DEF Files

\* What an fsync of one directory makes durable, and what it leaves alone.
LEMMA SessionsSynced ==
    ASSUME DiskTyped, SyncSessions
    PROVE  /\ dur' \in [Sessions -> Files]
           /\ \A t \in Sessions : /\ dur'[t].marker = dur[t].marker
                                  /\ dur'[t].wal = vis[t].wal
                                  /\ dur'[t].reserve = vis[t].reserve
  BY DEF DiskTyped, SyncSessions, Files

\* The markers' directory likewise.
LEMMA MarkersSynced ==
    ASSUME DiskTyped, SyncMarkers
    PROVE  /\ dur' \in [Sessions -> Files]
           /\ \A t \in Sessions : /\ dur'[t].marker = vis[t].marker
                                  /\ dur'[t].wal = dur[t].wal
                                  /\ dur'[t].reserve = dur[t].reserve
  <1> DEFINE synced(t) == [dur[t] EXCEPT !.marker = vis[t].marker]
  <1>1. dur' = [t \in Sessions |-> synced(t)]
    BY DEF SyncMarkers
  <1>2. ASSUME NEW t \in Sessions
        PROVE  /\ synced(t) \in Files
               /\ synced(t).marker = vis[t].marker
               /\ synced(t).wal = dur[t].wal
               /\ synced(t).reserve = dur[t].reserve
    BY DEF DiskTyped, Files
  <1> HIDE DEF synced
  <1> QED
    BY <1>1, <1>2

\* A step that only moves the job keeps the job's session.
LEMMA Moved ==
    ASSUME JobTyped, job.s \in Sessions, NEW a \in Places,
           job' = [job EXCEPT !.at = a]
    PROVE  /\ JobTyped' /\ job'.at = a /\ job'.s = job.s /\ job'.reserve = job.reserve
  BY JobMoves DEF JobTyped

\* Arming: the marker is created, written and synced before the first byte.
LEMMA ArmingKeeps ==
    ASSUME DiskInv,
           CreateMarker \/ WriteMarker \/ SyncMarker \/ CreateWal \/ CreateReserve
             \/ AllocateReserve \/ SyncArmed
    PROVE  DiskInv'
  <1> DEFINE s == job.s
  <1>1. /\ DiskTyped /\ JobTyped /\ BytesAreBound /\ MarkerWhole /\ MarkerDurable
    BY DEF DiskInv
  <1>2. s \in Sessions
    BY <1>1 DEF JobTyped, CreateMarker, WriteMarker, SyncMarker, CreateWal,
                CreateReserve, AllocateReserve, SyncArmed, ArmStep
  <1>3. vis \in [Sessions -> Files] /\ dur \in [Sessions -> Files]
    BY <1>1 DEF DiskTyped
  <1>5. CASE CreateMarker
    <2>1. "write marker" \in Places
      BY DEF Places
    <2>2. JobTyped' /\ job'.at = "write marker"
      BY <1>1, <1>2, <1>5, <2>1, Moved DEF CreateMarker, ArmStep
    <2>3. /\ vis' \in [Sessions -> Files] /\ dur' = dur
          /\ vis[s].marker = "none"
          /\ \A t \in Sessions : t # s => vis'[t].marker = vis[t].marker
          /\ \A t \in Sessions : vis'[t].wal = vis[t].wal
                                 /\ vis'[t].reserve = vis[t].reserve
      <3>1. vis' = [vis EXCEPT ![s].marker = "torn"]
        BY <1>5 DEF CreateMarker
      <3>2. "torn" \in FileStates
        BY DEF FileStates
      <3> HIDE DEF s
      <3>3. /\ vis' \in [Sessions -> Files]
            /\ vis'[s].marker = "torn"
            /\ \A t \in Sessions : t # s => vis'[t].marker = vis[t].marker
            /\ \A t \in Sessions : vis'[t].wal = vis[t].wal /\ vis'[t].reserve = vis[t].reserve
        BY <1>2, <1>3, <3>1, <3>2, MarkerChange
      <3> QED
        BY <1>5, <3>3 DEF CreateMarker, s
    <2>4. DiskTyped' /\ BytesAreBound'
      BY <1>1, <1>3, <2>3 DEF DiskTyped, BytesAreBound
    <2> QED
      BY <2>2, <2>4 DEF DiskInv, MarkerWhole, MarkerDurable, ReserveKnown,
                        WalUnlinked, ReserveUnlinked, NothingLeft
  <1>6. CASE WriteMarker
    <2>1. "sync marker" \in Places
      BY DEF Places
    <2>2. JobTyped' /\ job'.at = "sync marker" /\ job'.s = s
      BY <1>1, <1>2, <1>6, <2>1, Moved DEF WriteMarker, ArmStep
    <2>3. /\ vis' \in [Sessions -> Files] /\ dur' = dur
          /\ vis'[s].marker = "ok"
          /\ \A t \in Sessions : t # s => vis'[t].marker = vis[t].marker
          /\ \A t \in Sessions : vis'[t].wal = vis[t].wal
                                 /\ vis'[t].reserve = vis[t].reserve
      <3>1. vis' = [vis EXCEPT ![s].marker = "ok"]
        BY <1>6 DEF WriteMarker
      <3>2. "ok" \in FileStates
        BY DEF FileStates
      <3> HIDE DEF s
      <3>3. /\ vis' \in [Sessions -> Files]
            /\ vis'[s].marker = "ok"
            /\ \A t \in Sessions : t # s => vis'[t].marker = vis[t].marker
            /\ \A t \in Sessions : vis'[t].wal = vis[t].wal /\ vis'[t].reserve = vis[t].reserve
        BY <1>2, <1>3, <3>1, <3>2, MarkerChange
      <3> QED
        BY <1>6, <3>3 DEF WriteMarker, s
    <2>4. DiskTyped' /\ BytesAreBound'
      BY <1>1, <1>3, <2>3 DEF DiskTyped, BytesAreBound
    <2>5. MarkerWhole'
      BY <2>2, <2>3 DEF MarkerWhole
    <2> QED
      BY <2>2, <2>4, <2>5 DEF DiskInv, MarkerDurable, ReserveKnown,
                        WalUnlinked, ReserveUnlinked, NothingLeft
  <1>7. CASE SyncMarker
    <2>1. "create wal" \in Places
      BY DEF Places
    <2>2. JobTyped' /\ job'.at = "create wal" /\ job'.s = s /\ vis' = vis
      BY <1>1, <1>2, <1>7, <2>1, Moved DEF SyncMarker, ArmStep
    <2>3. vis[s].marker = "ok"
      BY <1>1, <1>7 DEF SyncMarker, ArmStep, MarkerWhole
    <2>4. /\ dur' \in [Sessions -> Files]
          /\ \A t \in Sessions : /\ dur'[t].marker = vis[t].marker
                                 /\ dur'[t].wal = dur[t].wal
                                 /\ dur'[t].reserve = dur[t].reserve
      BY <1>1, <1>7, MarkersSynced DEF SyncMarker
    <2>5. DiskTyped' /\ BytesAreBound'
      BY <1>1, <1>3, <2>2, <2>4 DEF DiskTyped, BytesAreBound
    <2>6. MarkerDurable'
      BY <1>2, <2>2, <2>3, <2>4 DEF MarkerDurable
    <2> QED
      BY <2>2, <2>5, <2>6 DEF DiskInv, MarkerWhole, ReserveKnown,
                        WalUnlinked, ReserveUnlinked, NothingLeft
  <1>8. CASE CreateWal \/ CreateReserve \/ AllocateReserve
    <2>1. {"create reserve", "allocate", "sync sessions"} \subseteq Places
      BY DEF Places
    <2>2. /\ JobTyped' /\ job'.s = s
          /\ job'.at \in {"create reserve", "allocate", "sync sessions"}
      BY <1>1, <1>2, <1>8, <2>1, Moved
         DEF CreateWal, CreateReserve, AllocateReserve, ArmStep
    <2>3. vis[s].marker = "ok" /\ dur[s].marker = "ok"
      BY <1>1, <1>8 DEF CreateWal, CreateReserve, AllocateReserve, ArmStep, MarkerDurable
    <2>4. /\ vis' \in [Sessions -> Files] /\ dur' = dur
          /\ \A t \in Sessions : vis'[t].marker = vis[t].marker
          /\ \A t \in Sessions : t # s => /\ vis'[t].wal = vis[t].wal
                                          /\ vis'[t].reserve = vis[t].reserve
      <3>1. CASE CreateWal
        <4>1. vis' = [vis EXCEPT ![s].wal = "ok"]
          BY <3>1 DEF CreateWal
        <4>2. "ok" \in FileStates
          BY DEF FileStates
        <4> HIDE DEF s
        <4>3. /\ vis' \in [Sessions -> Files]
              /\ vis'[s].wal = "ok"
              /\ \A t \in Sessions : t # s => vis'[t].wal = vis[t].wal
              /\ \A t \in Sessions : vis'[t].marker = vis[t].marker /\ vis'[t].reserve = vis[t].reserve
          BY <1>2, <1>3, <4>1, <4>2, WalChange
        <4> QED
          BY <3>1, <4>3 DEF CreateWal, s
      <3>2. CASE CreateReserve
        <4>1. vis' = [vis EXCEPT ![s].reserve = "short"]
          BY <3>2 DEF CreateReserve
        <4>2. "short" \in FileStates
          BY DEF FileStates
        <4> HIDE DEF s
        <4>3. /\ vis' \in [Sessions -> Files]
              /\ vis'[s].reserve = "short"
              /\ \A t \in Sessions : t # s => vis'[t].reserve = vis[t].reserve
              /\ \A t \in Sessions : vis'[t].marker = vis[t].marker /\ vis'[t].wal = vis[t].wal
          BY <1>2, <1>3, <4>1, <4>2, ReserveChange
        <4> QED
          BY <3>2, <4>3 DEF CreateReserve, s
      <3>3. CASE AllocateReserve
        <4>1. vis' = [vis EXCEPT ![s].reserve = "ok"]
          BY <3>3 DEF AllocateReserve
        <4>2. "ok" \in FileStates
          BY DEF FileStates
        <4> HIDE DEF s
        <4>3. /\ vis' \in [Sessions -> Files]
              /\ vis'[s].reserve = "ok"
              /\ \A t \in Sessions : t # s => vis'[t].reserve = vis[t].reserve
              /\ \A t \in Sessions : vis'[t].marker = vis[t].marker /\ vis'[t].wal = vis[t].wal
          BY <1>2, <1>3, <4>1, <4>2, ReserveChange
        <4> QED
          BY <3>3, <4>3 DEF AllocateReserve, s
      <3> QED
        BY <1>8, <3>1, <3>2, <3>3
    <2>5. DiskTyped' /\ BytesAreBound'
      BY <1>1, <1>3, <2>3, <2>4 DEF DiskTyped, BytesAreBound
    <2>6. MarkerDurable'
      BY <1>2, <2>2, <2>3, <2>4 DEF MarkerDurable
    <2> QED
      BY <2>2, <2>5, <2>6 DEF DiskInv, MarkerWhole, ReserveKnown,
                        WalUnlinked, ReserveUnlinked, NothingLeft
  <1>9. CASE SyncArmed
    <2>1. "commit" \in Places
      BY DEF Places
    <2>2. JobTyped' /\ job'.at = "commit" /\ vis' = vis
      BY <1>1, <1>2, <1>9, <2>1, Moved DEF SyncArmed, ArmStep
    <2>3. /\ dur' \in [Sessions -> Files]
          /\ \A t \in Sessions : /\ dur'[t].marker = dur[t].marker
                                 /\ dur'[t].wal = vis[t].wal
                                 /\ dur'[t].reserve = vis[t].reserve
      BY <1>1, <1>9, SessionsSynced DEF SyncArmed
    <2>4. DiskTyped' /\ BytesAreBound'
      BY <1>1, <1>3, <2>2, <2>3 DEF DiskTyped, BytesAreBound
    <2> QED
      BY <2>2, <2>4 DEF DiskInv, MarkerWhole, MarkerDurable, ReserveKnown,
                        WalUnlinked, ReserveUnlinked, NothingLeft
  <1> QED
    BY <1>5, <1>6, <1>7, <1>8, <1>9

\* Deleting, and freeing a reserve: the bytes go first, then the marker.
LEMMA UnlinkingKeeps ==
    ASSUME DiskInv, UnlinkWal \/ UnlinkReserve \/ UnlinkMarker \/ ReleaseReserve
    PROVE  DiskInv'
  <1> DEFINE s == job.s
  <1>1. /\ DiskTyped /\ JobTyped /\ BytesAreBound
        /\ ReserveKnown /\ WalUnlinked /\ NothingLeft
    BY DEF DiskInv
  <1>2. s \in Sessions
    BY <1>1 DEF JobTyped, UnlinkWal, UnlinkReserve, UnlinkMarker, ReleaseReserve
  <1>3. vis \in [Sessions -> Files] /\ dur \in [Sessions -> Files]
    BY <1>1 DEF DiskTyped
  <1>4. "none" \in FileStates
    BY DEF FileStates
  <1>5. CASE UnlinkWal
    <2>1. "reserve" \in Places
      BY DEF Places
    <2>2. JobTyped' /\ job'.at = "reserve" /\ job'.s = s /\ job'.reserve = job.reserve
      BY <1>1, <1>2, <1>5, <2>1, Moved DEF UnlinkWal
    <2>3. vis' = [vis EXCEPT ![s].wal = "none"] /\ dur' = dur /\ job.at = "wal"
      BY <1>5 DEF UnlinkWal
    <2> HIDE DEF s
    <2>4. /\ vis' \in [Sessions -> Files]
          /\ vis'[s].wal = "none"
          /\ \A t \in Sessions : t # s => vis'[t].wal = vis[t].wal
          /\ \A t \in Sessions : vis'[t].marker = vis[t].marker
                                 /\ vis'[t].reserve = vis[t].reserve
      BY <1>2, <1>3, <1>4, <2>3, WalChange
    <2>5. DiskTyped' /\ BytesAreBound'
      BY <1>1, <1>3, <2>3, <2>4 DEF DiskTyped, BytesAreBound
    <2>6. job.reserve \/ vis[s].reserve = "none"
      BY <1>1, <2>3 DEF ReserveKnown, s
    <2>7. ReserveKnown' /\ WalUnlinked'
      BY <1>2, <2>2, <2>4, <2>6 DEF ReserveKnown, WalUnlinked
    <2> QED
      BY <2>2, <2>5, <2>7 DEF DiskInv, MarkerWhole, MarkerDurable, ReserveUnlinked,
                              NothingLeft
  <1>6. CASE UnlinkReserve
    <2>1. "sync" \in Places
      BY DEF Places
    <2>2. JobTyped' /\ job'.at = "sync" /\ job'.s = s
      BY <1>1, <1>2, <1>6, <2>1, Moved DEF UnlinkReserve
    <2>3. /\ dur' = dur /\ job.at = "reserve"
          /\ \/ vis' = [vis EXCEPT ![s].reserve = "none"]
             \/ vis' = vis /\ ~job.reserve
      BY <1>6 DEF UnlinkReserve
    <2>4. (job.reserve \/ vis[s].reserve = "none") /\ vis[s].wal = "none"
      BY <1>1, <2>3 DEF ReserveKnown, WalUnlinked
    <2> HIDE DEF s
    <2>5. /\ vis' \in [Sessions -> Files]
          /\ vis'[s].reserve = "none"
          /\ \A t \in Sessions : t # s => vis'[t].reserve = vis[t].reserve
          /\ \A t \in Sessions : vis'[t].marker = vis[t].marker
                                 /\ vis'[t].wal = vis[t].wal
      <3>1. CASE vis' = [vis EXCEPT ![s].reserve = "none"]
        BY <1>2, <1>3, <1>4, <3>1, ReserveChange
      <3>2. CASE vis' = vis /\ ~job.reserve
        BY <1>3, <2>4, <3>2
      <3> QED
        BY <2>3, <3>1, <3>2
    <2>6. DiskTyped' /\ BytesAreBound'
      BY <1>1, <1>3, <2>3, <2>5 DEF DiskTyped, BytesAreBound
    <2>7. WalUnlinked' /\ ReserveUnlinked'
      BY <1>2, <2>2, <2>4, <2>5 DEF WalUnlinked, ReserveUnlinked
    <2> QED
      BY <2>2, <2>6, <2>7 DEF DiskInv, MarkerWhole, MarkerDurable, ReserveKnown,
                              NothingLeft
  <1>7. CASE UnlinkMarker
    <2>1. "gone" \in Places
      BY DEF Places
    <2>2. JobTyped' /\ job'.at = "gone"
      BY <1>1, <1>2, <1>7, <2>1, Moved DEF UnlinkMarker
    <2>3. vis' = [vis EXCEPT ![s].marker = "none"] /\ dur' = dur /\ job.at = "marker"
      BY <1>7 DEF UnlinkMarker
    <2>4. ~Bytes(s)
      BY <1>1, <2>3 DEF NothingLeft
    <2> HIDE DEF s
    <2>5. /\ vis' \in [Sessions -> Files]
          /\ \A t \in Sessions : t # s => vis'[t].marker = vis[t].marker
          /\ \A t \in Sessions : vis'[t].wal = vis[t].wal
                                 /\ vis'[t].reserve = vis[t].reserve
      BY <1>2, <1>3, <1>4, <2>3, MarkerChange
    <2>6. DiskTyped' /\ BytesAreBound'
      BY <1>1, <1>3, <2>3, <2>4, <2>5 DEF DiskTyped, BytesAreBound, Bytes
    <2> QED
      BY <2>2, <2>6 DEF DiskInv, MarkerWhole, MarkerDurable, ReserveKnown,
                        WalUnlinked, ReserveUnlinked, NothingLeft
  <1>8. CASE ReleaseReserve
    <2>1. "sync release" \in Places
      BY DEF Places
    <2>2. JobTyped' /\ job'.at = "sync release"
      BY <1>1, <1>2, <1>8, <2>1, Moved DEF ReleaseReserve
    <2>3. vis' = [vis EXCEPT ![s].reserve = "none"] /\ dur' = dur
      BY <1>8 DEF ReleaseReserve
    <2> HIDE DEF s
    <2>4. /\ vis' \in [Sessions -> Files]
          /\ vis'[s].reserve = "none"
          /\ \A t \in Sessions : t # s => vis'[t].reserve = vis[t].reserve
          /\ \A t \in Sessions : vis'[t].marker = vis[t].marker
                                 /\ vis'[t].wal = vis[t].wal
      BY <1>2, <1>3, <1>4, <2>3, ReserveChange
    <2>5. DiskTyped' /\ BytesAreBound'
      BY <1>1, <1>3, <2>3, <2>4 DEF DiskTyped, BytesAreBound
    <2> QED
      BY <2>2, <2>5 DEF DiskInv, MarkerWhole, MarkerDurable, ReserveKnown,
                        WalUnlinked, ReserveUnlinked, NothingLeft
  <1> QED
    BY <1>5, <1>6, <1>7, <1>8

\* The two fsyncs of a deletion, the one after a release, and the reserve of a
\* dead writer.
LEMMA SyncingKeeps ==
    ASSUME DiskInv, SyncUnlinked \/ Forget \/ SyncReleased \/ RetainNotDue
    PROVE  DiskInv'
  <1> DEFINE s == job.s
  <1>1. /\ DiskTyped /\ JobTyped /\ BytesAreBound
        /\ WalUnlinked /\ ReserveUnlinked
    BY DEF DiskInv
  <1>2. s \in Sessions
    BY <1>1 DEF JobTyped, SyncUnlinked, Forget, SyncReleased, RetainNotDue
  <1>3. vis \in [Sessions -> Files] /\ dur \in [Sessions -> Files]
    BY <1>1 DEF DiskTyped
  <1>4. CASE SyncUnlinked
    <2>1. "marker" \in Places
      BY DEF Places
    <2>2. JobTyped' /\ job'.at = "marker" /\ job'.s = s
      BY <1>1, <1>2, <1>4, <2>1, Moved DEF SyncUnlinked
    <2>3. vis' = vis /\ job.at = "sync"
      BY <1>4 DEF SyncUnlinked
    <2>4. /\ dur' \in [Sessions -> Files]
          /\ \A t \in Sessions : /\ dur'[t].marker = dur[t].marker
                                 /\ dur'[t].wal = vis[t].wal
                                 /\ dur'[t].reserve = vis[t].reserve
      BY <1>1, <1>4, SessionsSynced DEF SyncUnlinked
    <2>5. DiskTyped' /\ BytesAreBound'
      BY <1>1, <1>3, <2>3, <2>4 DEF DiskTyped, BytesAreBound
    <2>6. vis[s].wal = "none" /\ vis[s].reserve = "none"
      BY <1>1, <2>3 DEF WalUnlinked, ReserveUnlinked
    <2>7. NothingLeft'
      BY <1>2, <2>2, <2>3, <2>4, <2>6 DEF NothingLeft, Bytes
    <2> QED
      BY <2>2, <2>5, <2>7 DEF DiskInv, MarkerWhole, MarkerDurable, ReserveKnown,
                              WalUnlinked, ReserveUnlinked
  <1>5. CASE Forget
    <2>1. "next" \in Places
      BY DEF Places
    <2>2. JobTyped' /\ job'.at \in {"next", "rest"}
      <3>1. CASE job' = [job EXCEPT !.at = "next"]
        BY <1>1, <1>2, <2>1, <3>1, Moved
      <3>2. CASE job' = Idle
        BY <3>2, IdleJob DEF JobTyped
      <3> QED
        BY <1>5, <3>1, <3>2 DEF Forget
    <2>3. vis' = vis
      BY <1>5 DEF Forget
    <2>4. /\ dur' \in [Sessions -> Files]
          /\ \A t \in Sessions : /\ dur'[t].marker = vis[t].marker
                                 /\ dur'[t].wal = dur[t].wal
                                 /\ dur'[t].reserve = dur[t].reserve
      BY <1>1, <1>5, MarkersSynced DEF Forget
    <2>5. DiskTyped' /\ BytesAreBound'
      BY <1>1, <1>3, <2>3, <2>4 DEF DiskTyped, BytesAreBound
    <2> QED
      BY <2>2, <2>5 DEF DiskInv, MarkerWhole, MarkerDurable, ReserveKnown,
                        WalUnlinked, ReserveUnlinked, NothingLeft
  <1>6. CASE SyncReleased
    <2>1. "revalidate" \in Places
      BY DEF Places
    <2>2. JobTyped' /\ job'.at = "revalidate"
      BY <1>1, <1>2, <1>6, <2>1, Moved DEF SyncReleased
    <2>3. vis' = vis
      BY <1>6 DEF SyncReleased
    <2>4. /\ dur' \in [Sessions -> Files]
          /\ \A t \in Sessions : /\ dur'[t].marker = dur[t].marker
                                 /\ dur'[t].wal = vis[t].wal
                                 /\ dur'[t].reserve = vis[t].reserve
      BY <1>1, <1>6, SessionsSynced DEF SyncReleased
    <2>5. DiskTyped' /\ BytesAreBound'
      BY <1>1, <1>3, <2>3, <2>4 DEF DiskTyped, BytesAreBound
    <2> QED
      BY <2>2, <2>5 DEF DiskInv, MarkerWhole, MarkerDurable, ReserveKnown,
                        WalUnlinked, ReserveUnlinked, NothingLeft
  <1>7. CASE RetainNotDue
    <2>1. "next" \in Places
      BY DEF Places
    <2>2. JobTyped' /\ job'.at = "next"
      BY <1>1, <1>2, <1>7, <2>1, Moved DEF RetainNotDue
    <2>3. CASE UNCHANGED <<vis, dur>>
      BY <2>2, <2>3, RestKeeps DEF DirectoriesRest, NoWriting, JobRests
    <2>4. CASE vis' = [vis EXCEPT ![s].reserve = "none"]
               /\ dur' = [t \in Sessions |->
                            [marker |-> dur[t].marker, wal |-> vis'[t].wal,
                             reserve |-> vis'[t].reserve]]
      <3>1. "none" \in FileStates
        BY DEF FileStates
      <3>2. vis' = [vis EXCEPT ![s].reserve = "none"]
        BY <2>4
      <3> HIDE DEF s
      <3>3. /\ vis' \in [Sessions -> Files]
            /\ vis'[s].reserve = "none"
            /\ \A t \in Sessions : t # s => vis'[t].reserve = vis[t].reserve
            /\ \A t \in Sessions : vis'[t].marker = vis[t].marker
                                   /\ vis'[t].wal = vis[t].wal
        BY <1>2, <1>3, <3>1, <3>2, ReserveChange
      <3>4. /\ dur' \in [Sessions -> Files]
            /\ \A t \in Sessions : /\ dur'[t].marker = dur[t].marker
                                   /\ dur'[t].wal = vis'[t].wal
                                   /\ dur'[t].reserve = vis'[t].reserve
        BY <1>3, <2>4, <3>3 DEF Files
      <3>5. DiskTyped' /\ BytesAreBound'
        BY <1>1, <1>3, <3>3, <3>4 DEF DiskTyped, BytesAreBound
      <3> QED
        BY <2>2, <3>5 DEF DiskInv, MarkerWhole, MarkerDurable, ReserveKnown,
                          WalUnlinked, ReserveUnlinked, NothingLeft
    <2> QED
      BY <1>7, <2>3, <2>4 DEF RetainNotDue
  <1> QED
    BY <1>4, <1>5, <1>6, <1>7

\* A crash, with or without a power failure: whatever survives of a log or a
\* reserve was seen or durable before, and then the marker was both.
LEMMA CrashKeeps ==
    ASSUME DiskInv, Crash
    PROVE  DiskInv'
  <1>1. DiskTyped /\ BytesAreBound /\ vis \in [Sessions -> Files] /\ dur \in [Sessions -> Files]
    BY DEF DiskInv, DiskTyped
  <1>2. JobTyped' /\ job'.at = "rest"
    BY IdleJob DEF Crash, JobTyped
  <1>3. DiskTyped' /\ BytesAreBound'
    <2>1. CASE UNCHANGED disk
      BY <1>1, <2>1 DEF disk, DiskTyped, BytesAreBound
    <2>2. CASE PowerFails
      <3>1. PICK f \in [Sessions -> BOOLEAN], g \in [Sessions -> BOOLEAN],
                 h \in [Sessions -> BOOLEAN] :
               /\ vis' = [s \in Sessions |->
                    [marker  |-> IF f[s] THEN vis[s].marker  ELSE dur[s].marker,
                     wal     |-> IF g[s] THEN vis[s].wal     ELSE dur[s].wal,
                     reserve |-> IF h[s] THEN vis[s].reserve ELSE dur[s].reserve]]
               /\ dur' = vis'
        BY <2>2 DEF PowerFails
      <3>2. ASSUME NEW s \in Sessions
            PROVE  /\ vis'[s] \in Files
                   /\ vis'[s].marker \in {vis[s].marker, dur[s].marker}
                   /\ vis'[s].wal \in {vis[s].wal, dur[s].wal}
                   /\ vis'[s].reserve \in {vis[s].reserve, dur[s].reserve}
        <4> DEFINE m == IF f[s] THEN vis[s].marker  ELSE dur[s].marker
                   w == IF g[s] THEN vis[s].wal     ELSE dur[s].wal
                   r == IF h[s] THEN vis[s].reserve ELSE dur[s].reserve
        <4>1. vis'[s] = [marker |-> m, wal |-> w, reserve |-> r]
          BY <3>1
        <4>2. /\ m \in {vis[s].marker, dur[s].marker}
              /\ w \in {vis[s].wal, dur[s].wal}
              /\ r \in {vis[s].reserve, dur[s].reserve}
          OBVIOUS
        <4> HIDE DEF m, w, r
        <4>3. vis[s] \in Files /\ dur[s] \in Files
          BY <1>1
        <4> QED
          BY <4>1, <4>2, <4>3 DEF Files
      <3>3. vis' \in [Sessions -> Files] /\ dur' = vis'
        BY <3>1, <3>2
      <3> QED
        BY <1>1, <3>2, <3>3 DEF DiskTyped, BytesAreBound
    <2> QED
      BY <2>1, <2>2 DEF Crash
  <1> QED
    BY <1>2, <1>3 DEF DiskInv, MarkerWhole, MarkerDurable, ReserveKnown,
                      WalUnlinked, ReserveUnlinked, NothingLeft

-----------------------------------------------------------------------------
\* Nothing is on the disk of a new state root.
LEMMA DiskStart == Init => DiskInv
  <1> SUFFICES ASSUME Init PROVE DiskInv
    OBVIOUS
  <1>1. NoFiles \in Files
    BY DEF NoFiles, Files, FileStates
  <1>2. \A s \in Sessions : vis[s] = NoFiles /\ dur[s] = NoFiles
    BY DEF Init
  <1>3. DiskTyped
    BY <1>1 DEF Init, DiskTyped
  <1>4. BytesAreBound
    BY <1>2 DEF BytesAreBound, NoFiles
  <1>5. JobTyped /\ job.at = "rest"
    BY IdleJob DEF Init, JobTyped
  <1> QED
    BY <1>3, <1>4, <1>5 DEF DiskInv, MarkerWhole, MarkerDurable, ReserveKnown,
                            WalUnlinked, ReserveUnlinked, NothingLeft

\* Every step of the coordinator, of its worker and of its surroundings keeps the
\* disk's invariant.
LEMMA DiskStep == DiskInv /\ [Next]_vars => DiskInv'
  <1> SUFFICES ASSUME DiskInv, [Next]_vars PROVE DiskInv'
    OBVIOUS
  <1>1. JobTyped
    BY DEF DiskInv
  <1>2. CASE Process \/ WorkerStops
    BY <1>1, <1>2, ProcessRests, RestKeeps, CrashKeeps DEF DirectoriesRest, Process
  <1>3. CASE Purge
    BY <1>1, <1>2, <1>3, RecoveryRests, RestKeeps, UnlinkingKeeps, SyncingKeeps DEF DirectoriesRest, Purge
  <1>4. CASE Arming
    BY <1>1, <1>4, ArmingRests, RestKeeps, ArmingKeeps DEF DirectoriesRest, Arming
  <1>5. CASE Writing
    BY <1>1, <1>5, WritingRests, WriterRests, RestKeeps, UnlinkingKeeps, SyncingKeeps
       DEF Writing
  <1>6. CASE Reading
    BY <1>1, <1>6, ReadingRests, RestKeeps DEF DirectoriesRest
  <1>7. CASE UNCHANGED vars
    BY <1>1, <1>7, Waiting, RestKeeps DEF DirectoriesRest, vars, disk
  <1> QED
    BY <1>2, <1>3, <1>4, <1>5, <1>6, <1>7 DEF Next

\* Whatever the order of creation and deletion, and wherever a crash or a power
\* failure interrupts them, retention.py leaves no log and no reserve without its
\* whole and durable marker.
THEOREM BytesStayBound == Spec => []BytesAreBound
  <1>1. DiskInv => BytesAreBound
    BY DEF DiskInv
  <1> QED
    BY <1>1, DiskStart, DiskStep, PTL DEF Spec

-----------------------------------------------------------------------------
(* What is written after a halt.  The write path checks a session's state    *)
(* before it frees the reserve, so the proof carries what it has checked to   *)
(* the append, across everything that can come in between.                    *)

States == [known : BOOLEAN, healthy : BOOLEAN, token : BOOLEAN, reserve : BOOLEAN,
           terminal : {"no", "clean", "halted"}, writer : BOOLEAN, runtime : BOOLEAN,
           permitUsed : BOOLEAN, preobserved : BOOLEAN, ack : BOOLEAN, marked : BOOLEAN]

MemTyped == mem \in [Sessions -> States]
LogTyped == log \in [Sessions -> Seq(Contents)]

WritePlaces == {"release", "sync release", "revalidate", "append"}

\* A write under way is for a session without a terminal, and a halt control
\* writes nothing but the terminal of a halt.
WriterOpen ==
    job.at \in WritePlaces => /\ mem[job.s].terminal = "no"
                              /\ job.op = "halt" => job.frame = "halted"

WriteInv == MemTyped /\ LogTyped /\ WriterOpen

\* The records a session starts with are well formed and without a terminal.
LEMMA FreshStates ==
    /\ NoState \in States /\ Armed \in States /\ ReadOnly \in States
    /\ NoState.terminal = "no"
  BY DEF NoState, Armed, ReadOnly, State, States

\* A session's record changes in one field other than its terminal, or loses its
\* capability.
Adjusts(s) ==
    \/ mem' = [mem EXCEPT ![s].healthy = FALSE]
    \/ mem' = [mem EXCEPT ![s].writer = TRUE]
    \/ mem' = [mem EXCEPT ![s].runtime = TRUE]
    \/ mem' = [mem EXCEPT ![s].permitUsed = TRUE]
    \/ mem' = [mem EXCEPT ![s].preobserved = TRUE]
    \/ mem' = [mem EXCEPT ![s].ack = TRUE]
    \/ mem' = [mem EXCEPT ![s].marked = TRUE]
    \/ mem' = [mem EXCEPT ![s].reserve = FALSE]
    \/ mem' = [mem EXCEPT ![s] = Closed(@)]
    \/ mem' = [mem EXCEPT ![s] = [Closed(@) EXCEPT !.healthy = FALSE]]

\* Such a change keeps every session's terminal.
LEMMA Adjusting ==
    ASSUME MemTyped, NEW s \in Sessions, Adjusts(s)
    PROVE  MemTyped' /\ \A t \in Sessions : mem'[t].terminal = mem[t].terminal
  <1>1. mem \in [Sessions -> States] /\ mem[s] \in States
    BY DEF MemTyped
  <1>2. ASSUME NEW m \in States, mem' = [mem EXCEPT ![s] = m],
               m.terminal = mem[s].terminal
        PROVE  MemTyped' /\ \A t \in Sessions : mem'[t].terminal = mem[t].terminal
    BY <1>1, <1>2 DEF MemTyped
  <1>3. CASE mem' = [mem EXCEPT ![s].healthy = FALSE]
    BY <1>1, <1>3 DEF MemTyped, States
  <1>4. CASE mem' = [mem EXCEPT ![s].writer = TRUE]
    BY <1>1, <1>4 DEF MemTyped, States
  <1>5. CASE mem' = [mem EXCEPT ![s].runtime = TRUE]
    BY <1>1, <1>5 DEF MemTyped, States
  <1>6. CASE mem' = [mem EXCEPT ![s].permitUsed = TRUE]
    BY <1>1, <1>6 DEF MemTyped, States
  <1>7. CASE mem' = [mem EXCEPT ![s].preobserved = TRUE]
    BY <1>1, <1>7 DEF MemTyped, States
  <1>8. CASE mem' = [mem EXCEPT ![s].ack = TRUE]
    BY <1>1, <1>8 DEF MemTyped, States
  <1>9. CASE mem' = [mem EXCEPT ![s].marked = TRUE]
    BY <1>1, <1>9 DEF MemTyped, States
  <1>10. CASE mem' = [mem EXCEPT ![s].reserve = FALSE]
    BY <1>1, <1>10 DEF MemTyped, States
  <1>11. Closed(mem[s]) \in States /\ Closed(mem[s]).terminal = mem[s].terminal
    BY <1>1 DEF Closed, States
  <1>12. CASE mem' = [mem EXCEPT ![s] = Closed(@)]
    <2>1. mem' = [mem EXCEPT ![s] = Closed(mem[s])]
      BY <1>12
    <2> QED
      BY <1>2, <1>11, <2>1
  <1>13. CASE mem' = [mem EXCEPT ![s] = [Closed(@) EXCEPT !.healthy = FALSE]]
    <2> DEFINE c == Closed(mem[s])
               m == [c EXCEPT !.healthy = FALSE]
    <2>1. c \in States /\ c.terminal = mem[s].terminal
      BY <1>11
    <2>2. mem' = [mem EXCEPT ![s] = m]
      BY <1>13
    <2> HIDE DEF c
    <2>3. m \in States /\ m.terminal = mem[s].terminal
      BY <2>1 DEF States
    <2> HIDE DEF m
    <2> QED
      BY <1>2, <2>2, <2>3
  <1> QED
    BY <1>3, <1>4, <1>5, <1>6, <1>7, <1>8, <1>9, <1>10, <1>12, <1>13 DEF Adjusts

\* What a step does with the records of the sessions.
Restarts == /\ mem' = [s \in Sessions |-> NoState]
Replaces(s) == \E m \in {NoState, Armed, ReadOnly} : mem' = [mem EXCEPT ![s] = m]
Closes == mem' = [s \in Sessions |-> Closed(mem[s])]

\* Every change of these forms keeps the records well formed.
LEMMA MemKept ==
    ASSUME MemTyped,
           \/ UNCHANGED mem \/ Restarts \/ Closes
           \/ \E s \in Sessions : Adjusts(s) \/ Replaces(s)
    PROVE  MemTyped'
  <1>1. CASE UNCHANGED mem
    BY <1>1 DEF MemTyped
  <1>2. CASE Restarts
    BY <1>2, FreshStates DEF Restarts, MemTyped
  <1>3. CASE Closes
    <2>1. \A s \in Sessions : Closed(mem[s]) \in States
      BY ZenonT(60) DEF MemTyped, Closed, States
    <2> QED
      BY <1>3, <2>1 DEF Closes, MemTyped
  <1>4. ASSUME NEW s \in Sessions, Replaces(s) PROVE MemTyped'
    <2>1. PICK m \in {NoState, Armed, ReadOnly} : mem' = [mem EXCEPT ![s] = m]
      BY <1>4 DEF Replaces
    <2>2. m \in States
      BY FreshStates
    <2> QED
      BY <2>1, <2>2 DEF MemTyped
  <1> QED
    BY <1>1, <1>2, <1>3, <1>4, Adjusting

\* The append is the one step that gives a session its terminal.
LEMMA Appending ==
    ASSUME MemTyped, LogTyped, JobTyped, AppendFrame
    PROVE  MemTyped' /\ LogTyped'
  <1>1. /\ job.s \in Sessions /\ job.frame \in Contents
        /\ mem \in [Sessions -> States] /\ log \in [Sessions -> Seq(Contents)]
    BY DEF AppendFrame, JobTyped, Jobs, MemTyped, LogTyped
  <1>2. \/ UNCHANGED mem
        \/ /\ mem' = [mem EXCEPT ![job.s].terminal = job.frame]
           /\ job.frame \in {"clean", "halted"}
    BY DEF AppendFrame
  <1>3. MemTyped'
    <2>1. CASE UNCHANGED mem
      BY <1>1, <2>1 DEF MemTyped
    <2>2. ASSUME NEW f \in {"clean", "halted"}, mem' = [mem EXCEPT ![job.s].terminal = f]
          PROVE  MemTyped'
      <3>1. ASSUME NEW m \in States PROVE [m EXCEPT !.terminal = f] \in States
        BY <2>2 DEF States
      <3> QED
        BY <1>1, <2>2, <3>1 DEF MemTyped
    <2> QED
      BY <1>2, <2>1, <2>2
  <1>4. \/ UNCHANGED log
        \/ log' = [log EXCEPT ![job.s] = Append(log[job.s], job.frame)]
    BY DEF AppendFrame
  <1>5. Append(log[job.s], job.frame) \in Seq(Contents)
    BY <1>1
  <1>6. LogTyped'
    BY <1>1, <1>4, <1>5 DEF LogTyped
  <1> QED
    BY <1>3, <1>6

\* Only an append, the deletion of a log and a power failure change a log.
LEMMA LogKept ==
    ASSUME MemTyped, LogTyped, JobTyped, [Next]_vars
    PROVE  LogTyped' /\ (~AppendFrame => \A s \in Sessions :
                            log'[s] = log[s] \/ log'[s] = <<>>)
  <1>1. CASE UNCHANGED log
    BY <1>1 DEF LogTyped
  <1>2. CASE AppendFrame
    BY <1>2, Appending
  <1>3. CASE UnlinkWal
    <2>1. job.s \in Sessions /\ log' = [log EXCEPT ![job.s] = <<>>]
      BY <1>3 DEF UnlinkWal, JobTyped
    <2>2. log \in [Sessions -> Seq(Contents)] /\ <<>> \in Seq(Contents)
      BY DEF LogTyped
    <2> QED
      BY <2>1, <2>2 DEF LogTyped
  <1>4. CASE Crash
    <2>1. CASE PowerFails
      <3>1. \E left : log' = [s \in Sessions |-> IF left[s].wal = "none"
                                                  THEN <<>> ELSE log[s]]
        BY <2>1 DEF PowerFails
      <3>2. <<>> \in Seq(Contents)
        OBVIOUS
      <3> QED
        BY <3>1, <3>2 DEF LogTyped
    <2> QED
      BY <1>1, <1>4, <2>1 DEF Crash, disk
  <1>5. CASE Process /\ ~Crash
    <2>1. UNCHANGED log
      BY <1>5 DEF Process, Acquire, Close, Exit, ForeignHalt, ForeignRevoke, Tick, disk
    <2> QED
      BY <1>1, <2>1
  <1>6. CASE Purge /\ ~UnlinkWal
    <2>1. UNCHANGED log
      BY <1>6 DEF Purge, Recover, Expire, WorkerStops, RetainNotDue, RecoverEnd, Revoke,
                  UnlinkReserve, SyncUnlinked, UnlinkMarker, Forget, DeleteFails,
                  RecoverOne, disk
    <2> QED
      BY <1>1, <2>1
  <1>7. CASE Arming
    <2>1. UNCHANGED log
      BY <1>7 DEF Arming, CreateMarker, WriteMarker, SyncMarker, CreateWal, CreateReserve,
                  AllocateReserve, SyncArmed, ArmCommit, ArmFails, Arm, disk
    <2> QED
      BY <1>1, <2>1
  <1>8. CASE Writing /\ ~AppendFrame
    <2>1. UNCHANGED log
      BY <1>8 DEF Writing, ReleaseReserve, SyncReleased, Revalidate, WriteFails,
                  ClaimWriter, ClaimRuntime, FsyncFails, Write, WriteHalt, ObserveHalt,
                  AckClean, CloseWriter, MarkClean, disk
    <2> QED
      BY <1>1, <2>1
  <1>9. CASE Reading
    <2>1. UNCHANGED log
      BY <1>9 DEF Reading, IssueRead, ClaimReader, Pread, CloseReader, RejectReplay, disk
    <2> QED
      BY <1>1, <2>1
  <1>10. CASE UNCHANGED vars
    BY <1>1, <1>10 DEF vars, disk
  <1> QED
    BY <1>2, <1>3, <1>4, <1>5, <1>6, <1>7, <1>8, <1>9, <1>10 DEF Next

\* No other step changes a session's record but as MemKept lists.
LEMMA MemStep ==
    ASSUME MemTyped, LogTyped, JobTyped, [Next]_vars
    PROVE  MemTyped'
  <1>1. CASE Process
    <2>1. UNCHANGED mem \/ Restarts \/ Closes
      BY <1>1 DEF Process, Acquire, Close, Exit, Crash, ForeignHalt, ForeignRevoke, Tick,
                  caps, Restarts, Closes
    <2> QED
      BY <2>1, MemKept
  <1>2. CASE Purge
    <2>1. CASE Revoke
      <3>1. job.s \in Sessions /\ Adjusts(job.s)
        BY <2>1 DEF Revoke, JobTyped, Adjusts
      <3> QED
        BY <3>1, MemKept
    <2>2. CASE Forget
      <3>1. job.s \in Sessions /\ (UNCHANGED mem \/ Replaces(job.s))
        BY <2>2 DEF Forget, JobTyped, Replaces
      <3> QED
        BY <3>1, MemKept
    <2>3. CASE DeleteFails
      <3>1. job.s \in Sessions /\ (UNCHANGED mem \/ Adjusts(job.s))
        BY <2>3 DEF DeleteFails, JobTyped, Adjusts
      <3> QED
        BY <3>1, MemKept
    <2>4. CASE ~Revoke /\ ~Forget /\ ~DeleteFails
      <3>1. UNCHANGED mem
        BY <1>2, <2>4 DEF Purge, Recover, Expire, RecoverStart, WorkerStops, RetainNotDue,
                    RecoverEnd, UnlinkWal, UnlinkReserve, SyncUnlinked, UnlinkMarker,
                    RecoverOne, caps
      <3> QED
        BY <3>1, MemKept
    <2> QED
      BY <2>1, <2>2, <2>3, <2>4
  <1>3. CASE Arming
    <2>1. CASE ArmCommit
      <3>1. job.s \in Sessions /\ Replaces(job.s)
        BY <2>1 DEF ArmCommit, JobTyped, Replaces
      <3> QED
        BY <3>1, MemKept
    <2>2. CASE ~ArmCommit
      <3>1. UNCHANGED mem
        BY <1>3, <2>2 DEF Arming, CreateMarker, WriteMarker, SyncMarker, CreateWal,
                    CreateReserve, AllocateReserve, SyncArmed, ArmFails, Arm, caps
      <3> QED
        BY <3>1, MemKept
    <2> QED
      BY <2>1, <2>2
  <1>4. CASE Writing
    <2>1. CASE AppendFrame
      BY <2>1, Appending
    <2>2. CASE ReleaseReserve \/ Revalidate
      <3>1. UNCHANGED mem
        BY <2>2 DEF ReleaseReserve, Revalidate, caps
      <3> QED
        BY <3>1, MemKept
    <2>3. CASE SyncReleased \/ WriteFails
      <3>1. job.s \in Sessions /\ Adjusts(job.s)
        BY <2>3 DEF SyncReleased, WriteFails, Condemn, Sicken, JobTyped, Adjusts
      <3> QED
        BY <3>1, MemKept
    <2>4. ASSUME NEW s \in Sessions,
                 \/ ClaimWriter(s) \/ ClaimRuntime(s) \/ FsyncFails(s)
                 \/ \E f \in Frames : Write(s, f)
                 \/ WriteHalt(s) \/ ObserveHalt(s) \/ AckClean(s)
                 \/ CloseWriter(s) \/ MarkClean(s)
          PROVE  MemTyped'
      <3>1. UNCHANGED mem \/ Adjusts(s)
        BY <2>4 DEF ClaimWriter, ClaimRuntime, FsyncFails, Write, WriteHalt, ObserveHalt,
                    AckClean, CloseWriter, MarkClean, Condemn, Sicken, Adjusts
      <3> QED
        BY <3>1, MemKept
    <2> QED
      BY <1>4, <2>1, <2>2, <2>3, <2>4 DEF Writing
  <1>5. CASE Reading
    <2>1. PICK s \in Sessions : \/ IssueRead(s) \/ ClaimReader(s) \/ Pread(s)
                                \/ CloseReader(s) \/ RejectReplay(s)
      BY <1>5 DEF Reading
    <2>2. UNCHANGED mem \/ Adjusts(s) \/ Replaces(s)
      BY <2>1 DEF IssueRead, ClaimReader, Pread, CloseReader, RejectReplay, ReadRefused,
                  Sicken, Adjusts, Replaces
    <2> QED
      BY <2>2, MemKept
  <1>6. CASE UNCHANGED vars
    BY <1>6, MemKept DEF vars, caps
  <1> QED
    BY <1>1, <1>2, <1>3, <1>4, <1>5, <1>6 DEF Next

\* What the write path has checked stays true until the append: a job that is not
\* the writer's changes the record only when no write is under way.
LEMMA NotWriting ==
    ASSUME WriterOpen, JobTyped, NoWriting,
           UNCHANGED mem \/ Restarts \/ job.at \notin WritePlaces
    PROVE  WriterOpen'
  <1>1. CASE UNCHANGED job
    <2>1. CASE job.at \notin WritePlaces
      BY <1>1, <2>1 DEF WriterOpen
    <2>2. CASE UNCHANGED mem
      BY <1>1, <2>2 DEF WriterOpen
    <2>3. CASE Restarts /\ job.at \in WritePlaces
      <3>1. job.s \in Sessions
        BY <2>3 DEF JobTyped, WritePlaces
      <3>2. mem'[job.s].terminal = "no"
        BY <2>3, <3>1, FreshStates DEF Restarts
      <3> QED
        BY <1>1, <2>3, <3>2 DEF WriterOpen
    <2> QED
      BY <2>1, <2>2, <2>3
  <1>2. CASE JobRests \/ JobDeletes
    BY <1>2 DEF JobRests, JobDeletes, WriterOpen, WritePlaces
  <1>3. CASE JobRevokes
    <2>1. job'.at = "wal"
      BY <1>3, JobMoves, ZenonT(60) DEF JobRevokes, JobTyped, Places
    <2> QED
      BY <2>1 DEF WriterOpen, WritePlaces
  <1> QED
    BY <1>1, <1>2, <1>3 DEF NoWriting

\* Between two methods no write is under way.
LEMMA FreeRests == Free => job.at \notin WritePlaces
  <1>1. "rest" \notin WritePlaces
    BY DEF WritePlaces
  <1> QED
    BY <1>1, IdleJob DEF Free

\* A step of the writer: it begins where the terminal is open, and goes on.
LEMMA WriterGoesOn ==
    ASSUME MemTyped, WriterOpen, JobTyped,
           ReleaseReserve \/ SyncReleased \/ Revalidate \/ AppendFrame \/ WriteFails
    PROVE  WriterOpen'
  <1>1. job.s \in Sessions /\ job \in Jobs /\ job.at \in WritePlaces
    BY DEF ReleaseReserve, SyncReleased, Revalidate, AppendFrame, WriteFails, JobTyped,
           WritePlaces
  <1>2. /\ mem[job.s].terminal = "no"
        /\ job.op = "halt" => job.frame = "halted"
    BY <1>1 DEF WriterOpen
  <1>3. CASE job' = Idle
    BY <1>3, IdleJob DEF WriterOpen, WritePlaces
  <1>4. CASE ReleaseReserve \/ SyncReleased
    <2>1. "sync release" \in Places /\ "revalidate" \in Places
      BY DEF Places
    <2>2. job'.s = job.s /\ job'.op = job.op /\ job'.frame = job.frame
      <3>1. \E a \in Places : job' = [job EXCEPT !.at = a]
        BY <1>4, <2>1 DEF ReleaseReserve, SyncReleased
      <3> QED
        BY <1>1, <3>1, JobMoves
    <2>3. UNCHANGED mem \/ Adjusts(job.s)
      BY <1>4 DEF ReleaseReserve, SyncReleased, caps, Adjusts
    <2>4. mem'[job.s].terminal = mem[job.s].terminal
      BY <1>1, <2>3, Adjusting
    <2> QED
      BY <1>2, <2>2, <2>4 DEF WriterOpen
  <1>5. CASE Revalidate
    <2>1. UNCHANGED mem
      BY <1>5 DEF Revalidate, caps
    <2>2. CASE DeleteDue(job.op, job.s)
      <3>1. job'.at = "revoke"
        BY <2>2 DEF DeleteDue
      <3> QED
        BY <3>1 DEF WriterOpen, WritePlaces
    <2>3. CASE job' = [job EXCEPT !.at = "append"]
      <3>1. "append" \in Places
        BY DEF Places
      <3>2. job'.s = job.s /\ job'.op = job.op /\ job'.frame = job.frame
        BY <1>1, <2>3, <3>1, JobMoves
      <3> QED
        BY <1>2, <2>1, <3>2 DEF WriterOpen
    <2> QED
      BY <1>3, <1>5, <2>2, <2>3 DEF Revalidate
  <1>6. CASE AppendFrame \/ WriteFails
    BY <1>3, <1>6 DEF AppendFrame, WriteFails
  <1> QED
    BY <1>4, <1>5, <1>6

\* A call of the owner, which begins with no write under way.
LEMMA WriterBegins ==
    ASSUME MemTyped, WriterOpen, JobTyped, NEW s \in Sessions,
           \/ ClaimWriter(s) \/ ClaimRuntime(s) \/ FsyncFails(s)
           \/ \E f \in Frames : Write(s, f)
           \/ WriteHalt(s) \/ ObserveHalt(s) \/ AckClean(s)
           \/ CloseWriter(s) \/ MarkClean(s)
    PROVE  WriterOpen'
  <1>1. job.at \notin WritePlaces
    BY FreeRests DEF ClaimWriter, ClaimRuntime, FsyncFails, Write, WriteHalt, ObserveHalt,
                     AckClean, CloseWriter, MarkClean
  <1>2. CASE UNCHANGED job
    BY <1>1, <1>2 DEF WriterOpen
  <1>3. ASSUME NEW op, DeleteDue(op, s)
        PROVE  WriterOpen'
    <2>1. job'.at = "revoke"
      BY <1>3 DEF DeleteDue
    <2> QED
      BY <2>1 DEF WriterOpen, WritePlaces
  <1>4. CASE job' = Idle
    BY <1>4, IdleJob DEF WriterOpen, WritePlaces
  <1>5. ASSUME NEW op \in Methods, NEW a \in Places, NEW f \in Contents,
               job' = [Job(op, s, a) EXCEPT !.frame = f],
               op = "halt" => f = "halted", mem'[s].terminal = "no"
        PROVE  WriterOpen'
    <2>1. Job(op, s, a) \in Jobs /\ Job(op, s, a).s = s /\ Job(op, s, a).op = op
      BY NewJob
    <2>2. job'.s = s /\ job'.op = op /\ job'.frame = f
      BY <1>5, <2>1, JobFilled
    <2> QED
      BY <1>5, <2>2 DEF WriterOpen
  <1>6. ASSUME NEW f \in Frames, Write(s, f),
               job' = [Job("write", s, IF f = "clean" THEN "release" ELSE "append")
                         EXCEPT !.frame = f]
        PROVE  WriterOpen'
    <2>1. mem[s].terminal = "no"
      BY <1>6 DEF Write, Writable
    <2>2. UNCHANGED mem \/ Adjusts(s)
      BY <1>6 DEF Write, Condemn, Sicken, Adjusts
    <2>3. mem'[s].terminal = "no"
      BY <2>1, <2>2, Adjusting
    <2>4. "write" \in Methods /\ f \in Contents
      BY DEF Methods, Contents
    <2>5. (IF f = "clean" THEN "release" ELSE "append") \in Places
      BY DEF Places
    <2> QED
      BY <1>5, <1>6, <2>3, <2>4, <2>5
  <1>7. ASSUME WriteHalt(s),
               job' = [Job("halt", s, "release") EXCEPT !.frame = "halted"]
        PROVE  WriterOpen'
    <2>1. mem[s].terminal = "no"
      BY <1>7 DEF WriteHalt, Writable
    <2>2. UNCHANGED mem \/ Adjusts(s)
      BY <1>7 DEF WriteHalt, Condemn, Sicken, Adjusts
    <2>3. mem'[s].terminal = "no"
      BY <2>1, <2>2, Adjusting
    <2>4. "halt" \in Methods /\ "release" \in Places /\ "halted" \in Contents
      BY DEF Methods, Places, Contents
    <2> QED
      BY <1>5, <1>7, <2>3, <2>4
  <1>8. CASE ClaimWriter(s) \/ ClaimRuntime(s) \/ FsyncFails(s) \/ ObserveHalt(s)
               \/ AckClean(s) \/ CloseWriter(s)
    BY <1>2, <1>3, <1>8 DEF ClaimWriter, ClaimRuntime, FsyncFails, ObserveHalt, AckClean,
                            CloseWriter
  <1>9. CASE \E f \in Frames : Write(s, f)
    BY <1>2, <1>3, <1>6, <1>9 DEF Write
  <1>10. CASE WriteHalt(s)
    BY <1>2, <1>3, <1>4, <1>7, <1>10 DEF WriteHalt
  <1>11. CASE MarkClean(s)
    BY <1>2, <1>3, <1>11 DEF MarkClean
  <1> QED
    BY <1>8, <1>9, <1>10, <1>11

\* Every step keeps what the write path has checked.
LEMMA OpenStep ==
    ASSUME MemTyped, LogTyped, WriterOpen, JobTyped, [Next]_vars
    PROVE  WriterOpen'
  <1>1. CASE UNCHANGED vars
    BY <1>1 DEF vars, caps, WriterOpen
  <1>2. CASE Crash
    BY <1>2, IdleJob DEF Crash, WriterOpen, WritePlaces
  <1>3. CASE (Process /\ ~Crash) \/ WorkerStops
    <2>1. NoWriting
      BY <1>3, ProcessRests DEF Process
    <2>2. UNCHANGED mem \/ Restarts \/ Free
      BY <1>3 DEF Process, Acquire, Close, Exit, ForeignHalt, ForeignRevoke, Tick,
                  WorkerStops, caps, Restarts
    <2> QED
      BY <2>1, <2>2, FreeRests, NotWriting
  <1>4. CASE Recover \/ Expire \/ RecoverEnd \/ Revoke \/ DeleteFails
               \/ \E s \in Sessions : RecoverOne(s)
    <2>1. NoWriting
      BY <1>4, RecoveryRests
    <2>2. UNCHANGED mem \/ job.at = "revoke" \/ DeleteFails
      BY <1>4 DEF Recover, Expire, RecoverStart, RecoverEnd, Revoke, RecoverOne, caps
    <2>3. job.at = "revoke" \/ DeleteFails => job.at \notin WritePlaces
      BY DEF DeleteFails, WritePlaces
    <2> QED
      BY <2>1, <2>2, <2>3, NotWriting
  <1>5. CASE \/ RetainNotDue \/ UnlinkWal \/ UnlinkReserve \/ SyncUnlinked
             \/ UnlinkMarker \/ Forget
             \/ CreateMarker \/ WriteMarker \/ SyncMarker \/ CreateWal \/ CreateReserve
             \/ AllocateReserve \/ SyncArmed
    <2>1. /\ job \in Jobs
          /\ \/ job' = Idle
             \/ \E a \in Places \ WritePlaces : job' = [job EXCEPT !.at = a]
      BY <1>5 DEF RetainNotDue, UnlinkWal, UnlinkReserve, SyncUnlinked, UnlinkMarker,
                  Forget, CreateMarker, WriteMarker, SyncMarker, CreateWal, CreateReserve,
                  AllocateReserve, SyncArmed, ArmStep, JobTyped, Places, WritePlaces
    <2>2. CASE job' = Idle
      BY <2>2, IdleJob DEF WriterOpen, WritePlaces
    <2>3. ASSUME NEW a \in Places \ WritePlaces, job' = [job EXCEPT !.at = a]
          PROVE  WriterOpen'
      <3>1. job'.at = a
        BY <2>1, <2>3, JobMoves
      <3> QED
        BY <3>1 DEF WriterOpen
    <2> QED
      BY <2>1, <2>2, <2>3
  <1>6. CASE ArmCommit \/ ArmFails \/ \E s \in Sessions : Arm(s)
    <2>1. NoWriting
      BY <1>6, ArmingRests
    <2>2. UNCHANGED mem \/ job.at = "commit"
      BY <1>6 DEF ArmCommit, ArmFails, Arm, caps
    <2>3. "commit" \notin WritePlaces
      BY DEF WritePlaces
    <2> QED
      BY <2>1, <2>2, <2>3, NotWriting
  <1>7. CASE Writing
    BY <1>7, WriterGoesOn, WriterBegins DEF Writing
  <1>8. CASE Reading
    <2>1. NoWriting
      BY <1>8, ReadingRests
    <2>2. Free
      BY <1>8 DEF Reading, IssueRead, ClaimReader, Pread, CloseReader, RejectReplay,
                  Readable
    <2> QED
      BY <2>1, <2>2, FreeRests, NotWriting
  <1> QED
    BY <1>1, <1>2, <1>3, <1>4, <1>5, <1>6, <1>7, <1>8 DEF Next, Process, Purge, Arming

\* A process starts with no session and no log.
LEMMA WriteStart == Init => WriteInv
  <1> SUFFICES ASSUME Init PROVE WriteInv
    OBVIOUS
  <1>1. MemTyped
    BY FreshStates DEF Init, MemTyped
  <1>2. <<>> \in Seq(Contents)
    OBVIOUS
  <1>3. LogTyped
    BY <1>2 DEF Init, LogTyped
  <1>4. WriterOpen
    BY IdleJob DEF Init, WriterOpen, WritePlaces
  <1> QED
    BY <1>1, <1>3, <1>4 DEF WriteInv

\* Every step keeps the writer's invariant.
LEMMA WriteStep == DiskInv /\ WriteInv /\ [Next]_vars => WriteInv'
  BY MemStep, LogKept, OpenStep DEF DiskInv, WriteInv

\* What HaltStopsBytes says of one step.
HaltStops ==
    \A s \in Sessions :
        Len(log'[s]) > Len(log[s]) =>
            /\ mem[s].terminal = "no"
            /\ halt.on => /\ log'[s][Len(log'[s])] = "halted"
                          /\ mem[s].preobserved /\ halt.scope # s

\* A step that makes a log longer does what HaltStopsBytes allows.
LEMMA BytesStop == DiskInv /\ WriteInv /\ [Next]_vars => HaltStops
  <1> SUFFICES ASSUME DiskInv, WriteInv, [Next]_vars,
                      NEW s \in Sessions, Len(log'[s]) > Len(log[s])
               PROVE  /\ mem[s].terminal = "no"
                      /\ halt.on => /\ log'[s][Len(log'[s])] = "halted"
                                    /\ mem[s].preobserved /\ halt.scope # s
    BY DEF HaltStops
  <1>1. JobTyped /\ MemTyped /\ LogTyped /\ WriterOpen
    BY DEF DiskInv, WriteInv
  <1>2. log \in [Sessions -> Seq(Contents)] /\ log[s] \in Seq(Contents)
        /\ Len(log[s]) \in Nat
    BY <1>1 DEF LogTyped
  <1>3. AppendFrame
    <2> SUFFICES ASSUME ~AppendFrame PROVE FALSE
      OBVIOUS
    <2>1. log'[s] = log[s] \/ log'[s] = <<>>
      BY <1>1, LogKept
    <2> QED
      BY <1>2, <2>1
  <1>4. /\ job.at = "append" /\ job.s \in Sessions /\ job.frame \in Contents
    BY <1>1, <1>3 DEF AppendFrame, JobTyped, Jobs
  <1>5. ~Refused(job.s) /\ log' = [log EXCEPT ![job.s] = Append(log[job.s], job.frame)]
    BY <1>2, <1>3 DEF AppendFrame
  <1>6. s = job.s
    BY <1>2, <1>4, <1>5
  <1>7. mem[s].terminal = "no" /\ (job.op = "halt" => job.frame = "halted")
    BY <1>1, <1>4, <1>6 DEF WriterOpen, WritePlaces
  <1>8. log'[s] = Append(log[s], job.frame) /\ log'[s][Len(log'[s])] = job.frame
    BY <1>2, <1>4, <1>5, <1>6
  <1>9. halt.on => job.op = "halt" /\ mem[s].preobserved /\ halt.scope # s
    BY <1>5, <1>6 DEF Refused, HaltBlocks
  <1> QED
    BY <1>7, <1>8, <1>9

\* Once a halt is latched, by whichever coordinator and between whichever two
\* steps of a write, the capability writes no byte but the one terminal of a
\* session the halt is not about, and nothing ever follows a terminal.
THEOREM HaltAlwaysStopsBytes == Spec => HaltStopsBytes
  <1>1. Init => DiskInv /\ WriteInv
    BY DiskStart, WriteStart
  <1>2. DiskInv /\ WriteInv /\ [Next]_vars => DiskInv' /\ WriteInv'
    BY DiskStep, WriteStep
  <1>3. DiskInv /\ WriteInv /\ [Next]_vars => [HaltStops]_vars
    BY BytesStop
  <1> QED
    BY <1>1, <1>2, <1>3, PTL DEF Spec, HaltStopsBytes, HaltStops

-----------------------------------------------------------------------------
(* The capabilities of a session.                                          *)
(*                                                                         *)
(* What the coordinator's memory promises of a session is what its         *)
(* directories hold, for any number of sessions, crashes and failed calls. *)

Live(s) == mem[s].token /\ mem[s].healthy

DeletePlaces == {"wal", "reserve", "sync", "marker", "gone"}
ArmPlaces == {"write marker", "sync marker", "create wal", "create reserve",
              "allocate", "sync sessions", "commit"}

ReaderTyped == reader \in [Sessions -> {"none", "issued", "claimed"}]

\* A live writer's marker and log are there and the worker watches them.
Watched(s) == Live(s) /\ ~halt.on =>
    vis[s].marker = "ok" /\ vis[s].wal = "ok" /\ s \in deadlines

\* Its reserve is there until the write path has unlinked it, and is given up
\* only by the write of a terminal.
ReserveThere(s) == Live(s) /\ ~halt.on /\ mem[s].reserve =>
    vis[s].reserve = "ok" \/ (job.at = "sync release" /\ job.s = s)
ReserveGiven(s) == Live(s) /\ ~halt.on /\ ~mem[s].reserve /\ mem[s].terminal = "no" =>
    job.s = s /\ job.at \in {"revalidate", "append", "revoke"}

\* A reader's session has its marker, and no live writer.
ReaderMarked(s) == reader[s] # "none" => vis[s].marker # "none"
ReaderApart(s)  == reader[s] # "none" /\ ~halt.on =>
    ~(Live(s) /\ mem[s].terminal = "no")

SessionInv == \A s \in Sessions :
    /\ Watched(s) /\ ReserveThere(s) /\ ReserveGiven(s)
    /\ ReaderMarked(s) /\ ReaderApart(s)

\* A deletion under way has closed the capabilities of its session, and arming
\* finds none.
Revoked == job.at \in DeletePlaces =>
    ~mem[job.s].token /\ reader[job.s] = "none"
ArmFresh == job.at \in ArmPlaces =>
    (~Live(job.s) \/ halt.on) /\ reader[job.s] = "none"
ArmBuilt ==
    /\ job.at = "commit" => vis[job.s].marker = "ok"
    /\ job.at \in {"create reserve", "allocate", "sync sessions", "commit"}
         => vis[job.s].wal = "ok"
    /\ job.at \in {"sync sessions", "commit"} => vis[job.s].reserve = "ok"

\* Only a terminal's write gives the reserve up.
TerminalFrame ==
    /\ job.at \in {"release", "sync release", "revalidate"}
         => job.frame \in {"clean", "halted"}
    /\ job.at = "append" /\ job.frame \notin {"clean", "halted"}
       /\ Live(job.s) /\ ~halt.on => mem[job.s].reserve

PlaceInv == Revoked /\ ArmFresh /\ ArmBuilt /\ TerminalFrame

CapInv == ReaderTyped /\ SessionInv /\ PlaceInv

-----------------------------------------------------------------------------
(* Steps that only take capabilities away. *)

Lowers(s) ==
    \/ mem' = [mem EXCEPT ![s].healthy = FALSE]
    \/ mem' = [mem EXCEPT ![s].writer = TRUE]
    \/ mem' = [mem EXCEPT ![s].runtime = TRUE]
    \/ mem' = [mem EXCEPT ![s].permitUsed = TRUE]
    \/ mem' = [mem EXCEPT ![s].preobserved = TRUE]
    \/ mem' = [mem EXCEPT ![s].ack = TRUE]
    \/ mem' = [mem EXCEPT ![s].marked = TRUE]
    \/ mem' = [mem EXCEPT ![s] = Closed(@)]
    \/ mem' = [mem EXCEPT ![s] = [Closed(@) EXCEPT !.healthy = FALSE]]

NoneRaised == \A t \in Sessions :
    /\ mem'[t].token => mem[t].token
    /\ mem'[t].healthy => mem[t].healthy
    /\ mem'[t].token => /\ mem'[t].reserve = mem[t].reserve
                        /\ mem'[t].terminal = mem[t].terminal

\* Marking, claiming, condemning and closing raise no capability.
LEMMA Lowering ==
    ASSUME MemTyped, NEW s \in Sessions, Lowers(s)
    PROVE  NoneRaised
  <1>1. mem \in [Sessions -> States] /\ mem[s] \in States
    BY DEF MemTyped
  <1>2. ASSUME NEW m \in States, mem' = [mem EXCEPT ![s] = m],
               m.token => mem[s].token, m.healthy => mem[s].healthy,
               m.reserve = mem[s].reserve, m.terminal = mem[s].terminal
        PROVE  NoneRaised
    BY <1>1, <1>2 DEF NoneRaised
  <1>3. CASE mem' = [mem EXCEPT ![s].healthy = FALSE]
    BY <1>1, <1>3 DEF NoneRaised, States
  <1>4. CASE mem' = [mem EXCEPT ![s].writer = TRUE]
    BY <1>1, <1>4 DEF NoneRaised, States
  <1>5. CASE mem' = [mem EXCEPT ![s].runtime = TRUE]
    BY <1>1, <1>5 DEF NoneRaised, States
  <1>6. CASE mem' = [mem EXCEPT ![s].permitUsed = TRUE]
    BY <1>1, <1>6 DEF NoneRaised, States
  <1>7. CASE mem' = [mem EXCEPT ![s].preobserved = TRUE]
    BY <1>1, <1>7 DEF NoneRaised, States
  <1>8. CASE mem' = [mem EXCEPT ![s].ack = TRUE]
    BY <1>1, <1>8 DEF NoneRaised, States
  <1>9. CASE mem' = [mem EXCEPT ![s].marked = TRUE]
    BY <1>1, <1>9 DEF NoneRaised, States
  <1>10. /\ Closed(mem[s]) \in States /\ ~Closed(mem[s]).token
         /\ Closed(mem[s]).healthy = mem[s].healthy
         /\ Closed(mem[s]).reserve = mem[s].reserve
         /\ Closed(mem[s]).terminal = mem[s].terminal
    BY <1>1 DEF Closed, States
  <1>11. CASE mem' = [mem EXCEPT ![s] = Closed(@)]
    <2>1. mem' = [mem EXCEPT ![s] = Closed(mem[s])]
      BY <1>11
    <2> QED
      BY <1>2, <1>10, <2>1
  <1>12. CASE mem' = [mem EXCEPT ![s] = [Closed(@) EXCEPT !.healthy = FALSE]]
    <2> DEFINE c == Closed(mem[s])
               m == [c EXCEPT !.healthy = FALSE]
    <2>1. /\ c \in States /\ ~c.token /\ c.healthy = mem[s].healthy
          /\ c.reserve = mem[s].reserve /\ c.terminal = mem[s].terminal
      BY <1>10
    <2>2. mem' = [mem EXCEPT ![s] = m]
      BY <1>12
    <2> HIDE DEF c
    <2>3. /\ m \in States /\ ~m.token /\ ~m.healthy
          /\ m.reserve = mem[s].reserve /\ m.terminal = mem[s].terminal
      BY <2>1 DEF States
    <2> HIDE DEF m
    <2> QED
      BY <1>2, <2>2, <2>3
  <1> QED
    BY <1>3, <1>4, <1>5, <1>6, <1>7, <1>8, <1>9, <1>11, <1>12 DEF Lowers

\* Every live writer of the next state is one already, as it was, and watched
\* still; no session gets a reader.
Weakens ==
    /\ UNCHANGED vis
    /\ \A s \in Sessions :
         /\ mem'[s].token => mem[s].token
         /\ mem'[s].token /\ mem'[s].healthy /\ ~halt'.on =>
              /\ Live(s) /\ ~halt.on
              /\ mem'[s].reserve = mem[s].reserve
              /\ mem'[s].terminal = mem[s].terminal
              /\ s \in deadlines => s \in deadlines'
         /\ reader'[s] # "none" => reader[s] # "none"

\* A step that takes away and leaves the method where it is.
LEMMA WeakenedInPlace ==
    ASSUME CapInv, JobTyped, Weakens, UNCHANGED job
    PROVE  SessionInv' /\ PlaceInv'
  <1>1. SessionInv'
    BY ZenonT(60) DEF CapInv, SessionInv, Weakens, Watched, ReserveThere, ReserveGiven,
           ReaderMarked, ReaderApart, Live
  <1>2. job.at \in DeletePlaces \cup ArmPlaces \cup WritePlaces => job.s \in Sessions
    BY DEF JobTyped, DeletePlaces, ArmPlaces, WritePlaces
  <1>3. Revoked' /\ ArmFresh' /\ ArmBuilt'
    BY <1>2 DEF CapInv, PlaceInv, Weakens, Revoked, ArmFresh, ArmBuilt, Live
  <1>4. TerminalFrame'
    BY <1>2 DEF CapInv, PlaceInv, Weakens, TerminalFrame, Live, WritePlaces
  <1> QED
    BY <1>1, <1>3, <1>4 DEF PlaceInv

Handing == {"sync release", "revalidate", "append", "revoke"}

\* A step that takes away when no reserve is being handed over keeps what is
\* said of the sessions, wherever the method goes.
LEMMA Weakened ==
    ASSUME CapInv, Weakens, job.at \notin Handing
    PROVE  SessionInv'
  BY DEF CapInv, SessionInv, Weakens, Watched, ReserveThere, ReserveGiven,
         ReaderMarked, ReaderApart, Live, Handing

\* After a latch there is nothing to keep but the readers' markers.
LEMMA Latched ==
    ASSUME CapInv, halt'.on, UNCHANGED vis,
           \A s \in Sessions : reader'[s] # "none" => reader[s] # "none"
    PROVE  SessionInv'
  BY DEF CapInv, SessionInv, Watched, ReserveThere, ReserveGiven, ReaderMarked, ReaderApart

\* The files of a session without capabilities may change.
LEMMA FilesMove ==
    ASSUME CapInv, NEW s \in Sessions, ~Live(s) \/ halt.on, reader[s] = "none",
           \A t \in Sessions : t # s => vis'[t] = vis[t],
           UNCHANGED <<halt, mem, reader, deadlines>>, job.at \notin Handing
    PROVE  SessionInv'
  BY DEF CapInv, SessionInv, Watched, ReserveThere, ReserveGiven, ReaderMarked,
         ReaderApart, Live, Handing

\* Between methods, and in a pass that is at no marker, no place says anything.
LEMMA AtRest ==
    ASSUME job'.at \in {"rest", "next", "retain", "revoke", "create marker"}
    PROVE  PlaceInv'
  BY DEF PlaceInv, Revoked, ArmFresh, ArmBuilt, TerminalFrame, DeletePlaces, ArmPlaces

\* No method is between two of its effects while the condition is free.
LEMMA FreePlace == Free => job.at \notin Handing
  <1>1. "rest" \notin Handing
    BY DEF Handing
  <1> QED
    BY <1>1, IdleJob DEF Free

\* A latch takes the readers, and never gives one.
ReadersLose == \A s \in Sessions : reader'[s] # "none" => reader[s] # "none"

\* The latch halts the coordinator and closes readers with it.
LEMMA LatchTakes ==
    ASSUME NEW s, NEW a, Latch(s, a)
    PROVE  halt'.on /\ ReadersLose
  BY DEF Latch, ReadersLose

\* A call that leaves the sessions' memory alone raises no capability.
LEMMA SameMemory == UNCHANGED mem => NoneRaised
  BY DEF NoneRaised

\* A call that only takes capabilities, and leaves directories and deadlines alone,
\* weakens what the sessions are promised.
LEMMA Taking ==
    ASSUME NoneRaised, UNCHANGED <<vis, deadlines>>, UNCHANGED halt \/ halt'.on,
           ReadersLose
    PROVE  Weakens
  BY DEF NoneRaised, Weakens, ReadersLose, Live

-----------------------------------------------------------------------------
(* The process. *)

\* Acquire, foreign halts, the clock, a crash and a restart: nobody is promised more
\* than before, and after a crash nobody is promised anything.
LEMMA ProcessCaps ==
    ASSUME CapInv, JobTyped, MemTyped, Process \/ WorkerStops
    PROVE  SessionInv' /\ PlaceInv'
  <1>1. CASE Acquire \/ ForeignHalt \/ ForeignRevoke \/ Tick \/ WorkerStops
    <2>1. /\ UNCHANGED <<vis, deadlines, mem, job>>
          /\ UNCHANGED halt \/ halt'.on
          /\ ReadersLose
      BY <1>1 DEF Acquire, ForeignHalt, ForeignRevoke, Tick, WorkerStops, ReadersLose,
                  disk, ctl, caps, env
    <2> QED
      BY <2>1, SameMemory, Taking, WeakenedInPlace
  <1>2. CASE Close
    <2>1. /\ UNCHANGED <<vis, deadlines, halt, job>>
          /\ ReadersLose
      BY <1>2 DEF Close, ReadersLose, disk, env
    <2>2. NoneRaised
      BY <1>2 DEF Close, NoneRaised, MemTyped, Closed, States
    <2> QED
      BY <2>1, <2>2, Taking, WeakenedInPlace
  <1>3. CASE Exit
    <2>1. /\ UNCHANGED <<vis, reader, job>>
          /\ \A s \in Sessions : ~mem'[s].token
      BY <1>3 DEF Exit, NoState, State, disk, env
    <2>2. Weakens
      BY <2>1 DEF Weakens
    <2> QED
      BY <2>1, <2>2, WeakenedInPlace
  <1>4. CASE Crash
    <2>1. /\ \A s \in Sessions : ~mem'[s].token /\ reader'[s] = "none"
          /\ job' = Idle
      BY <1>4 DEF Crash, NoState, State
    <2>2. SessionInv'
      BY <2>1 DEF SessionInv, Watched, ReserveThere, ReserveGiven, ReaderMarked,
                  ReaderApart, Live
    <2> QED
      BY <2>1, <2>2, IdleJob, AtRest
  <1> QED
    BY <1>1, <1>2, <1>3, <1>4 DEF Process

-----------------------------------------------------------------------------
(* The recovery pass, the expiry worker and the deletions. *)

\* recover_startup and the expiry worker revoke a session's capabilities before they
\* come to its files.
LEMMA PassCaps ==
    ASSUME CapInv, JobTyped, MemTyped, DiskInv,
           Recover \/ Expire \/ RecoverEnd \/ Revoke \/ DeleteFails
             \/ \E s \in Sessions : RecoverOne(s)
    PROVE  SessionInv' /\ PlaceInv'
  <1>1. ASSUME NEW op \in Methods, RecoverStart(op), Free, UNCHANGED vis
        PROVE  SessionInv' /\ PlaceInv'
    <2> DEFINE marked == {s \in Sessions : vis[s].marker # "none"}
    <2>1. job.at \notin Handing
      BY <1>1, FreePlace
    <2>2. CASE /\ job' = [Job(op, NoSession, "next") EXCEPT !.todo = marked]
               /\ UNCHANGED <<halt, caps>>
      <3>1. "next" \in Places
        BY DEF Places
      <3>2. Job(op, NoSession, "next") \in Jobs /\ Job(op, NoSession, "next").at = "next"
        BY <3>1, NewJob
      <3>3. job'.at = "next"
        BY <2>2, <3>2, JobListed
      <3>4. Weakens
        BY <1>1, <2>2, SameMemory, Taking DEF caps, ReadersLose
      <3> QED
        BY <2>1, <3>3, <3>4, Weakened, AtRest
    <2>3. CASE HaltAmbiguously(op) /\ UNCHANGED <<mem, deadlines, job>>
      <3>1. Weakens
        BY <1>1, <2>3, LatchTakes, SameMemory, Taking DEF HaltAmbiguously
      <3> QED
        BY <2>3, <3>1, WeakenedInPlace
    <2> QED
      BY <1>1, <2>2, <2>3 DEF RecoverStart
  <1>2. CASE Recover \/ Expire
    BY <1>1, <1>2 DEF Recover, Expire, disk, Methods
  <1>3. CASE RecoverEnd
    <2>1. /\ job.at = "next" /\ job' = Idle
          /\ UNCHANGED <<vis, halt, mem, reader>>
          /\ deadlines' = {s \in Sessions : vis[s].marker # "none"}
      BY <1>3 DEF RecoverEnd, disk
    <2>2. Weakens
      BY <2>1 DEF Weakens, CapInv, SessionInv, Watched, Live
    <2> QED
      BY <2>1, <2>2, Weakened, IdleJob, AtRest DEF Handing
  <1>4. CASE Revoke
    <2>1. /\ job.s \in Sessions /\ job.at = "revoke" /\ job \in Jobs
          /\ UNCHANGED <<vis, deadlines, halt>>
          /\ Lowers(job.s)
          /\ mem' = [mem EXCEPT ![job.s] = Closed(mem[job.s])]
          /\ reader' = [reader EXCEPT ![job.s] = "none"]
          /\ job' = [job EXCEPT !.at = "wal"]
      BY <1>4 DEF Revoke, JobTyped, Lowers, disk, ctl
    <2>2. /\ job'.s = job.s /\ job'.at = "wal"
      BY <2>1, JobMoves, ZenonT(60) DEF Places
    <2>3. mem \in [Sessions -> States] /\ reader \in [Sessions -> {"none", "issued", "claimed"}]
      BY DEF MemTyped, CapInv, ReaderTyped
    <2>4. ~Closed(mem[job.s]).token
      BY <2>1, <2>3 DEF Closed, States
    <2>5. ~mem'[job.s].token /\ reader'[job.s] = "none" /\ ReadersLose
      BY <2>1, <2>3, <2>4 DEF ReadersLose
    <2>6. Weakens
      BY <2>1, <2>5, Lowering, Taking
    <2>7. SessionInv'
      BY <2>1, <2>2, <2>5, <2>6 DEF CapInv, SessionInv, Weakens, Watched, ReserveThere,
                    ReserveGiven, ReaderMarked, ReaderApart, Live
    <2>8. PlaceInv'
      BY <2>2, <2>5 DEF PlaceInv, Revoked, ArmFresh, ArmBuilt, TerminalFrame,
                        DeletePlaces, ArmPlaces
    <2> QED
      BY <2>7, <2>8
  <1>5. CASE DeleteFails
    <2>1. halt'.on /\ ReadersLose
      BY <1>5, LatchTakes DEF DeleteFails, HaltAmbiguously
    <2>2. UNCHANGED vis /\ job' = Idle
      BY <1>5 DEF DeleteFails, disk
    <2> QED
      BY <2>1, <2>2, Latched, IdleJob, AtRest DEF ReadersLose
  <1>6. ASSUME NEW s \in Sessions, RecoverOne(s)
        PROVE  SessionInv' /\ PlaceInv'
    <2>1. job.at \notin Handing /\ UNCHANGED <<vis, mem, deadlines>>
      BY <1>6 DEF RecoverOne, Handing, disk
    <2>2. CASE LostLive(s)
      <3>1. halt'.on /\ ReadersLose /\ job' = Idle
        BY <1>6, <2>2, LatchTakes DEF RecoverOne
      <3> QED
        BY <2>1, <3>1, Latched, IdleJob, AtRest DEF ReadersLose
    <2>3. CASE ~LostLive(s)
      <3>1. job' = Visit(s) /\ UNCHANGED <<halt, reader>>
        BY <1>6, <2>3 DEF RecoverOne
      <3>2. /\ job'.s = s /\ job'.at \in {"reserve", "revoke", "retain"}
            /\ job'.at = "reserve" => vis[s].wal = "none"
        BY <3>1 DEF Visit
      <3>3. Weakens
        BY <2>1, <3>1, SameMemory, Taking DEF ReadersLose
      <3>4. SessionInv'
        BY <2>1, <3>3, Weakened
      <3>5. CASE job'.at = "reserve"
        <4>1. ~mem[s].token /\ reader[s] = "none"
          BY <2>3, <3>2, <3>5 DEF LostLive
        <4>2. PlaceInv'
          BY <2>1, <3>1, <3>2, <3>5, <4>1
             DEF PlaceInv, Revoked, ArmFresh, ArmBuilt, TerminalFrame, DeletePlaces,
                 ArmPlaces
        <4> QED
          BY <3>4, <4>2
      <3> QED
        BY <3>2, <3>4, <3>5, AtRest
    <2> QED
      BY <2>2, <2>3
  <1> QED
    BY <1>2, <1>3, <1>4, <1>5, <1>6

\* _delete_due works on the files of a session whose capabilities are gone.
LEMMA DeletionCaps ==
    ASSUME CapInv, JobTyped, MemTyped, DiskInv,
           UnlinkWal \/ UnlinkReserve \/ SyncUnlinked \/ UnlinkMarker \/ Forget
             \/ RetainNotDue
    PROVE  SessionInv' /\ PlaceInv'
  <1> DEFINE s == job.s
  <1>1. s \in Sessions /\ job \in Jobs /\ job.at \notin Handing
    BY DEF UnlinkWal, UnlinkReserve, SyncUnlinked, UnlinkMarker, Forget, RetainNotDue,
           JobTyped, Handing
  <1>2. vis \in [Sessions -> Files] /\ mem \in [Sessions -> States]
    BY DEF DiskInv, DiskTyped, MemTyped
  <1>3. CASE RetainNotDue
    <2>1. job'.at = "next"
      BY <1>1, <1>3, JobMoves, ZenonT(60) DEF RetainNotDue, Places
    <2>2. UNCHANGED <<halt, mem, reader, deadlines>>
      BY <1>3 DEF RetainNotDue, ctl, caps
    <2>3. CASE UNCHANGED vis
      BY <1>1, <2>1, <2>2, <2>3, SameMemory, Taking, Weakened, AtRest DEF ReadersLose
    <2>4. CASE ~Live(s) /\ vis' = [vis EXCEPT ![s].reserve = "none"]
      <3>1. "none" \in FileStates
        BY DEF FileStates
      <3> HIDE DEF s
      <3>2. /\ vis' \in [Sessions -> Files]
            /\ \A t \in Sessions : t # s => vis'[t].reserve = vis[t].reserve
            /\ \A t \in Sessions : vis'[t].marker = vis[t].marker
                                   /\ vis'[t].wal = vis[t].wal
        BY <1>1, <1>2, <2>4, <3>1, ReserveChange
      <3>3. SessionInv'
        BY <1>1, <2>2, <2>4, <3>2
           DEF CapInv, SessionInv, Watched, ReserveThere, ReserveGiven, ReaderMarked,
               ReaderApart, Live, Handing
      <3> QED
        BY <2>1, <3>3, AtRest
    <2> QED
      BY <1>3, <2>3, <2>4 DEF RetainNotDue, Live
  <1>4. CASE UnlinkWal \/ UnlinkReserve \/ SyncUnlinked \/ UnlinkMarker \/ Forget
    <2>1. ~mem[s].token /\ reader[s] = "none"
      BY <1>4 DEF CapInv, PlaceInv, Revoked, DeletePlaces, UnlinkWal, UnlinkReserve,
                  SyncUnlinked, UnlinkMarker, Forget
    <2>2. \A t \in Sessions : t # s => vis'[t] = vis[t]
      BY <1>1, <1>2, <1>4 DEF UnlinkWal, UnlinkReserve, SyncUnlinked, UnlinkMarker, Forget
    <2>3. CASE UnlinkWal \/ UnlinkReserve \/ SyncUnlinked \/ UnlinkMarker
      <3>1. UNCHANGED <<halt, mem, reader, deadlines>>
        BY <2>3 DEF UnlinkWal, UnlinkReserve, SyncUnlinked, UnlinkMarker, ctl, caps
      <3>2. SessionInv'
        BY <1>1, <2>1, <2>2, <3>1, FilesMove DEF Live
      <3>3. \E a \in {"reserve", "sync", "marker", "gone"} : job' = [job EXCEPT !.at = a]
        BY <2>3 DEF UnlinkWal, UnlinkReserve, SyncUnlinked, UnlinkMarker
      <3>4. {"reserve", "sync", "marker", "gone"} \subseteq Places
        BY DEF Places
      <3>5. job'.s = s /\ job'.at \in {"reserve", "sync", "marker", "gone"}
        BY <1>1, <3>3, <3>4, JobMoves
      <3>6. PlaceInv'
        BY <2>1, <3>1, <3>5 DEF PlaceInv, Revoked, ArmFresh, ArmBuilt, TerminalFrame,
                                DeletePlaces, ArmPlaces
      <3> QED
        BY <3>2, <3>6
    <2>4. CASE Forget
      <3>1. job' = Idle \/ job' = [job EXCEPT !.at = "next"]
        BY <2>4 DEF Forget
      <3>2. job'.at \in {"rest", "next"}
        <4>1. "next" \in Places
          BY DEF Places
        <4> QED
          BY <1>1, <3>1, <4>1, JobMoves, IdleJob, ZenonT(60)
      <3>3. /\ UNCHANGED vis
            /\ \/ UNCHANGED <<mem, deadlines>>
               \/ mem' = [mem EXCEPT ![s] = NoState] /\ deadlines' = deadlines \ {s}
        BY <2>4 DEF Forget
      <3>4. ReadersLose /\ (UNCHANGED halt \/ halt'.on)
        <4>1. UNCHANGED <<halt, reader>> \/ Latch(s, FALSE)
          BY <2>4 DEF Forget
        <4> QED
          BY <4>1, LatchTakes DEF ReadersLose
      <3>5. Weakens
        <4>1. CASE UNCHANGED <<mem, deadlines>>
          BY <3>4, <3>3, <4>1, SameMemory, Taking
        <4>2. CASE mem' = [mem EXCEPT ![s] = NoState] /\ deadlines' = deadlines \ {s}
          <5>1. ~mem'[s].token /\ \A t \in Sessions : t # s => mem'[t] = mem[t]
            BY <1>1, <1>2, <4>2 DEF NoState, State
          <5> QED
            BY <1>1, <3>4, <3>3, <4>2, <5>1 DEF Weakens, Live, ReadersLose
        <4> QED
          BY <3>3, <4>1, <4>2
      <3> QED
        BY <1>1, <3>2, <3>5, Weakened, AtRest
    <2> QED
      BY <1>4, <2>3, <2>4
  <1> QED
    BY <1>3, <1>4

-----------------------------------------------------------------------------
(* Arming: what is created is there at the commit, and nobody had it before. *)

\* arm_session hands out the writer once marker, log and reserve are there.
LEMMA ArmingCaps ==
    ASSUME CapInv, JobTyped, MemTyped, DiskInv, Arming
    PROVE  SessionInv' /\ PlaceInv'
  <1> DEFINE s == job.s
  <1>1. vis \in [Sessions -> Files] /\ mem \in [Sessions -> States]
    BY DEF DiskInv, DiskTyped, MemTyped
  <1>2. CASE \E t \in Sessions : Arm(t)
    <2>1. PICK t \in Sessions : Arm(t)
      BY <1>2
    <2>2. job'.at = "create marker"
      BY <2>1 DEF Arm, Job
    <2>3. UNCHANGED <<vis, halt, mem, reader, deadlines>> /\ job.at \notin Handing
      BY <2>1, FreePlace DEF Arm, disk, ctl, caps
    <2> QED
      BY <2>2, <2>3, SameMemory, Taking, Weakened, AtRest DEF ReadersLose
  <1>3. CASE ArmFails
    <2>1. halt'.on /\ ReadersLose /\ job' = Idle /\ UNCHANGED vis
      BY <1>3, LatchTakes DEF ArmFails, disk
    <2> QED
      BY <2>1, Latched, IdleJob, AtRest DEF ReadersLose
  <1>4. CASE ArmCommit
    <2>1. /\ s \in Sessions /\ job.at = "commit" /\ job' = Idle
          /\ mem' = [mem EXCEPT ![s] = Armed]
          /\ deadlines' = deadlines \cup {s}
          /\ UNCHANGED <<vis, halt, reader>>
      BY <1>4 DEF ArmCommit, JobTyped, disk, ctl
    <2>2. /\ vis[s].marker = "ok" /\ vis[s].wal = "ok" /\ vis[s].reserve = "ok"
          /\ reader[s] = "none"
      BY <2>1 DEF CapInv, PlaceInv, ArmFresh, ArmBuilt, ArmPlaces
    <2>3. mem'[s] = Armed /\ \A t \in Sessions : t # s => mem'[t] = mem[t]
      BY <1>1, <2>1
    <2>4. Armed.reserve
      BY DEF Armed, State
    <2> HIDE DEF s
    <2>5. SessionInv'
      BY <2>1, <2>2, <2>3, <2>4, ZenonT(60) DEF CapInv, SessionInv, Watched, ReserveThere,
             ReserveGiven, ReaderMarked, ReaderApart, Live
    <2> QED
      BY <2>1, <2>5, IdleJob, AtRest
  <1>5. CASE CreateMarker \/ WriteMarker \/ SyncMarker \/ CreateWal \/ CreateReserve
               \/ AllocateReserve \/ SyncArmed
    <2>1. /\ s \in Sessions /\ job \in Jobs /\ job.at \notin Handing
          /\ UNCHANGED <<halt, mem, reader, deadlines>>
      BY <1>5 DEF CreateMarker, WriteMarker, SyncMarker, CreateWal, CreateReserve,
                  AllocateReserve, SyncArmed, ArmStep, JobTyped, Handing, ctl, caps
    <2>2. (~Live(s) \/ halt.on) /\ reader[s] = "none"
      <3>1. CASE CreateMarker
        <4>1. vis[s].marker = "none"
          BY <3>1 DEF CreateMarker
        <4> QED
          BY <2>1, <4>1 DEF CapInv, SessionInv, Watched, ReaderMarked
      <3>2. CASE ~CreateMarker
        BY <1>5, <3>2 DEF CapInv, PlaceInv, ArmFresh, ArmPlaces, WriteMarker, SyncMarker,
                  CreateWal, CreateReserve, AllocateReserve, SyncArmed, ArmStep
      <3> QED
        BY <3>1, <3>2
    <2>3. \A t \in Sessions : t # s => vis'[t] = vis[t]
      BY <1>1, <1>5, <2>1 DEF CreateMarker, WriteMarker, SyncMarker, CreateWal,
                  CreateReserve, AllocateReserve, SyncArmed
    <2>4. SessionInv'
      BY <2>1, <2>2, <2>3, FilesMove
    <2>5. ArmPlaces \subseteq Places
      BY DEF ArmPlaces, Places
    <2>6. \E a \in ArmPlaces : job' = [job EXCEPT !.at = a]
      BY <1>5 DEF CreateMarker, WriteMarker, SyncMarker, CreateWal, CreateReserve,
                  AllocateReserve, SyncArmed, ArmStep, ArmPlaces
    <2>7. job'.s = s /\ job'.at \in ArmPlaces
      BY <2>1, <2>5, <2>6, JobMoves
    <2>8. Revoked' /\ ArmFresh' /\ TerminalFrame'
      BY <2>1, <2>2, <2>7 DEF Revoked, ArmFresh, TerminalFrame, DeletePlaces, ArmPlaces,
                              Live
    <2>9. ArmBuilt'
      <3>1. {"ok", "short"} \subseteq FileStates
        BY DEF FileStates
      <3>2. CASE CreateMarker \/ WriteMarker \/ SyncMarker
        <4>1. PICK a \in {"write marker", "sync marker", "create wal"} :
                  job' = [job EXCEPT !.at = a]
          BY <3>2 DEF CreateMarker, WriteMarker, SyncMarker, ArmStep
        <4>2. a \in Places
          BY DEF Places
        <4>3. job'.at \in {"write marker", "sync marker", "create wal"}
          BY <2>1, <4>1, <4>2, JobMoves
        <4> QED
          BY <4>3 DEF ArmBuilt
      <3>3. CASE CreateWal
        <4>1. job' = [job EXCEPT !.at = "create reserve"]
              /\ vis' = [vis EXCEPT ![s].wal = "ok"]
          BY <3>3 DEF CreateWal, ArmStep
        <4>2. job'.at = "create reserve"
          BY <2>1, <2>5, <4>1, JobMoves DEF ArmPlaces
        <4>3. vis'[s].wal = "ok"
          BY <1>1, <2>1, <4>1 DEF Files
        <4> QED
          BY <2>7, <4>2, <4>3 DEF ArmBuilt
      <3>4. CASE CreateReserve
        <4>1. job' = [job EXCEPT !.at = "allocate"] /\ job.at = "create reserve"
              /\ vis' = [vis EXCEPT ![s].reserve = "short"]
          BY <3>4 DEF CreateReserve, ArmStep
        <4>2. job'.at = "allocate"
          BY <2>1, <2>5, <4>1, JobMoves DEF ArmPlaces
        <4>3. vis'[s].wal = vis[s].wal
          BY <1>1, <2>1, <4>1 DEF Files
        <4>4. vis[s].wal = "ok"
          BY <4>1 DEF CapInv, PlaceInv, ArmBuilt
        <4> QED
          BY <2>7, <4>2, <4>3, <4>4 DEF ArmBuilt
      <3>5. CASE AllocateReserve
        <4>1. job' = [job EXCEPT !.at = "sync sessions"] /\ job.at = "allocate"
              /\ vis' = [vis EXCEPT ![s].reserve = "ok"]
          BY <3>5 DEF AllocateReserve, ArmStep
        <4>2. job'.at = "sync sessions"
          BY <2>1, <2>5, <4>1, JobMoves DEF ArmPlaces
        <4>3. vis'[s].wal = vis[s].wal /\ vis'[s].reserve = "ok"
          BY <1>1, <2>1, <4>1 DEF Files
        <4>4. vis[s].wal = "ok"
          BY <4>1 DEF CapInv, PlaceInv, ArmBuilt
        <4> QED
          BY <2>7, <4>2, <4>3, <4>4 DEF ArmBuilt
      <3>6. CASE SyncArmed
        <4>1. job' = [job EXCEPT !.at = "commit"] /\ job.at = "sync sessions"
              /\ UNCHANGED vis
          BY <3>6 DEF SyncArmed, ArmStep
        <4>2. /\ vis[s].marker = "ok" /\ vis[s].wal = "ok" /\ vis[s].reserve = "ok"
          BY <4>1 DEF CapInv, PlaceInv, ArmBuilt, DiskInv, MarkerDurable
        <4> QED
          BY <2>7, <4>1, <4>2 DEF ArmBuilt
      <3> QED
        BY <1>5, <3>2, <3>3, <3>4, <3>5, <3>6
    <2> QED
      BY <2>4, <2>8, <2>9 DEF PlaceInv
  <1> QED
    BY <1>2, <1>3, <1>4, <1>5 DEF Arming

-----------------------------------------------------------------------------
(* Writing: the reserve is given up by the write of a terminal only. *)

\* A call that finds the condition free and only takes capabilities keeps the
\* promises; so do the two places it may go to, a deletion and rest.
LEMMA FreeCalls ==
    ASSUME CapInv, JobTyped, Free, NoneRaised, UNCHANGED <<vis, deadlines>>,
           UNCHANGED halt \/ halt'.on, ReadersLose
    PROVE  /\ SessionInv'
           /\ UNCHANGED job => PlaceInv'
           /\ \A op, s : DeleteDue(op, s) => PlaceInv'
           /\ job' = Idle => PlaceInv'
  <1>1. Weakens
    BY Taking
  <1>2. SessionInv'
    BY <1>1, FreePlace, Weakened
  <1>3. UNCHANGED job => PlaceInv'
    BY <1>1, WeakenedInPlace
  <1>4. ASSUME NEW op, NEW s, DeleteDue(op, s) PROVE PlaceInv'
    <2>1. job'.at = "revoke"
      BY <1>4 DEF DeleteDue
    <2> QED
      BY <2>1, AtRest
  <1>5. job' = Idle => PlaceInv'
    BY IdleJob, AtRest
  <1> QED
    BY <1>2, <1>3, <1>4, <1>5

\* A write starts with a release for a terminal, and with the append otherwise.
LEMMA WriteBegins ==
    ASSUME NEW op \in Methods, NEW s \in Sessions, NEW a \in {"release", "append"},
           NEW f \in Contents, job' = [Job(op, s, a) EXCEPT !.frame = f],
           f \in {"clean", "halted"} \/ (a = "append" /\ mem'[s].reserve)
    PROVE  PlaceInv'
  <1>1. a \in Places
    BY DEF Places
  <1>2. Job(op, s, a) \in Jobs /\ Job(op, s, a).at = a /\ Job(op, s, a).s = s
    BY <1>1, NewJob
  <1>3. job'.at = a /\ job'.s = s /\ job'.frame = f
    BY <1>2, JobFilled
  <1>4. Revoked' /\ ArmFresh' /\ ArmBuilt'
    BY <1>3 DEF Revoked, ArmFresh, ArmBuilt, DeletePlaces, ArmPlaces
  <1>5. TerminalFrame'
    BY <1>3 DEF TerminalFrame
  <1> QED
    BY <1>4, <1>5 DEF PlaceInv

\* The writer's and the runtime's own calls: claim, write, halt, acknowledge, close.
LEMMA OwnerCaps ==
    ASSUME CapInv, JobTyped, MemTyped, NEW s \in Sessions,
           \/ ClaimWriter(s) \/ ClaimRuntime(s) \/ FsyncFails(s)
           \/ \E f \in Frames : Write(s, f)
           \/ WriteHalt(s) \/ ObserveHalt(s) \/ AckClean(s)
           \/ CloseWriter(s) \/ MarkClean(s)
    PROVE  SessionInv' /\ PlaceInv'
  <1>1. Free /\ UNCHANGED <<vis, deadlines>>
    BY DEF ClaimWriter, ClaimRuntime, FsyncFails, Write, WriteHalt, ObserveHalt, AckClean,
           CloseWriter, MarkClean, disk
  <1>2. UNCHANGED mem \/ Lowers(s)
    BY DEF ClaimWriter, ClaimRuntime, FsyncFails, Write, WriteHalt, ObserveHalt, AckClean,
           CloseWriter, MarkClean, Condemn, Sicken, Lowers
  <1>3. NoneRaised
    BY <1>2, SameMemory, Lowering
  <1>4. UNCHANGED <<halt, reader>> \/ Latch(s, FALSE)
    BY DEF ClaimWriter, ClaimRuntime, FsyncFails, Write, WriteHalt, ObserveHalt, AckClean,
           CloseWriter, MarkClean, Condemn, Sicken, ctl
  <1>5. (UNCHANGED halt \/ halt'.on) /\ ReadersLose
    BY <1>4, LatchTakes DEF ReadersLose
  <1>6. /\ SessionInv'
        /\ UNCHANGED job => PlaceInv'
        /\ \A op : DeleteDue(op, s) => PlaceInv'
        /\ job' = Idle => PlaceInv'
    BY <1>1, <1>3, <1>5, FreeCalls
  <1>7. ASSUME NEW f \in Frames, Write(s, f),
               job' = [Job("write", s, IF f = "clean" THEN "release" ELSE "append")
                         EXCEPT !.frame = f],
               UNCHANGED mem
        PROVE  PlaceInv'
    <2>1. Live(s) /\ ~halt.on /\ mem[s].terminal = "no"
      BY <1>7 DEF Write, Writable, Live
    <2>2. mem[s].reserve
      <3>1. job.at \notin Handing
        BY <1>1, FreePlace
      <3> QED
        BY <2>1, <3>1 DEF CapInv, SessionInv, ReserveGiven, Handing
    <2>3. "write" \in Methods /\ f \in Contents
      BY DEF Methods, Contents
    <2>4. CASE f = "clean"
      BY <1>7, <2>3, <2>4, WriteBegins
    <2>5. CASE f # "clean"
      BY <1>7, <2>2, <2>3, <2>5, WriteBegins
    <2> QED
      BY <2>4, <2>5
  <1>8. ASSUME job' = [Job("halt", s, "release") EXCEPT !.frame = "halted"]
        PROVE  PlaceInv'
    <2>1. "halt" \in Methods /\ "halted" \in Contents
      BY DEF Methods, Contents
    <2> QED
      BY <1>8, <2>1, WriteBegins
  <1>9. CASE \E f \in Frames : Write(s, f)
    BY <1>6, <1>7, <1>9 DEF Write
  <1>10. CASE WriteHalt(s)
    BY <1>6, <1>8, <1>10 DEF WriteHalt
  <1>11. CASE ClaimWriter(s) \/ ClaimRuntime(s) \/ FsyncFails(s) \/ ObserveHalt(s)
                \/ AckClean(s) \/ CloseWriter(s) \/ MarkClean(s)
    BY <1>6, <1>11 DEF ClaimWriter, ClaimRuntime, FsyncFails, ObserveHalt, AckClean,
                       CloseWriter, MarkClean
  <1> QED
    BY <1>6, <1>9, <1>10, <1>11

\* The steps of _write_locked: the reserve is unlinked, then forgotten, and only on
\* the way to a terminal.
LEMMA WriterCaps ==
    ASSUME CapInv, JobTyped, MemTyped, DiskInv,
           ReleaseReserve \/ SyncReleased \/ Revalidate \/ AppendFrame \/ WriteFails
    PROVE  SessionInv' /\ PlaceInv'
  <1> DEFINE s == job.s
  <1>1. s \in Sessions /\ job \in Jobs
    BY DEF ReleaseReserve, SyncReleased, Revalidate, AppendFrame, WriteFails, JobTyped
  <1>2. vis \in [Sessions -> Files] /\ mem \in [Sessions -> States]
    BY DEF DiskInv, DiskTyped, MemTyped
  <1>3. CASE WriteFails
    <2>1. halt'.on /\ ReadersLose /\ job' = Idle /\ UNCHANGED vis
      BY <1>3, LatchTakes DEF WriteFails, Condemn, Sicken, disk
    <2> QED
      BY <2>1, Latched, IdleJob, AtRest DEF ReadersLose
  <1>4. CASE ReleaseReserve
    <2>1. /\ job.at = "release" /\ vis' = [vis EXCEPT ![s].reserve = "none"]
          /\ job' = [job EXCEPT !.at = "sync release"]
          /\ UNCHANGED <<halt, mem, reader, deadlines>>
      BY <1>4 DEF ReleaseReserve, ctl, caps
    <2>2. job'.at = "sync release" /\ job'.s = s /\ job'.frame = job.frame
      BY <1>1, <2>1, JobMoves DEF Places
    <2>3. job.frame \in {"clean", "halted"}
      BY <2>1 DEF CapInv, PlaceInv, TerminalFrame
    <2>4. PlaceInv'
      BY <2>2, <2>3 DEF PlaceInv, Revoked, ArmFresh, ArmBuilt, TerminalFrame,
                        DeletePlaces, ArmPlaces
    <2>5. "none" \in FileStates
      BY DEF FileStates
    <2> HIDE DEF s
    <2>6. /\ \A t \in Sessions : t # s => vis'[t].reserve = vis[t].reserve
          /\ \A t \in Sessions : vis'[t].marker = vis[t].marker
                                 /\ vis'[t].wal = vis[t].wal
      BY <1>1, <1>2, <2>1, <2>5, ReserveChange
    <2>7. SessionInv'
      BY <2>1, <2>2, <2>6, ZenonT(60) DEF CapInv, SessionInv, Watched, ReserveThere, ReserveGiven,
                              ReaderMarked, ReaderApart, Live
    <2> QED
      BY <2>4, <2>7
  <1>5. CASE SyncReleased
    <2>1. /\ job.at = "sync release" /\ mem' = [mem EXCEPT ![s].reserve = FALSE]
          /\ job' = [job EXCEPT !.at = "revalidate"]
          /\ UNCHANGED <<vis, halt, reader, deadlines>>
      BY <1>5 DEF SyncReleased, ctl
    <2>2. job'.at = "revalidate" /\ job'.s = s /\ job'.frame = job.frame
      BY <1>1, <2>1, JobMoves DEF Places
    <2>3. job.frame \in {"clean", "halted"}
      BY <2>1 DEF CapInv, PlaceInv, TerminalFrame
    <2>4. PlaceInv'
      BY <2>2, <2>3 DEF PlaceInv, Revoked, ArmFresh, ArmBuilt, TerminalFrame,
                        DeletePlaces, ArmPlaces
    <2>5. /\ ~mem'[s].reserve
          /\ mem'[s].token => mem[s].token
          /\ mem'[s].healthy => mem[s].healthy
          /\ mem'[s].terminal = mem[s].terminal
          /\ \A t \in Sessions : t # s => mem'[t] = mem[t]
      BY <1>1, <1>2, <2>1, ZenonT(60) DEF States
    <2>6. job.s = s
      OBVIOUS
    <2> HIDE DEF s
    <2>7. ASSUME NEW t \in Sessions
          PROVE  /\ Watched(t)' /\ ReserveThere(t)' /\ ReserveGiven(t)'
                 /\ ReaderMarked(t)' /\ ReaderApart(t)'
      <3>1. /\ Watched(t) /\ ReserveThere(t) /\ ReserveGiven(t)
            /\ ReaderMarked(t) /\ ReaderApart(t)
        BY DEF CapInv, SessionInv
      <3>2. CASE t = s
        BY <2>1, <2>2, <2>5, <2>6, <3>1, <3>2
           DEF Watched, ReserveThere, ReserveGiven, ReaderMarked, ReaderApart, Live
      <3>3. CASE t # s
        <4>1. mem'[t] = mem[t]
          BY <2>5, <3>3
        <4> QED
          BY <2>1, <2>6, <3>1, <3>3, <4>1
             DEF Watched, ReserveThere, ReserveGiven, ReaderMarked, ReaderApart, Live
      <3> QED
        BY <3>2, <3>3
    <2>8. SessionInv'
      BY <2>7 DEF SessionInv
    <2> QED
      BY <2>4, <2>8
  <1>6. CASE Revalidate
    <2>1. /\ job.at = "revalidate"
          /\ UNCHANGED <<vis, halt, mem, reader, deadlines>>
      BY <1>6 DEF Revalidate, disk, ctl, caps
    <2>2. CASE Refused(s) /\ job' = Idle
      <3>1. halt'.on
        BY <2>1, <2>2 DEF Refused, HaltBlocks
      <3> QED
        BY <2>1, <2>2, <3>1, Latched, IdleJob, AtRest
    <2>3. ASSUME job'.s = s, job'.at \in {"revoke", "append"}
          PROVE  SessionInv'
      BY <2>1, <2>3 DEF CapInv, SessionInv, Watched, ReserveThere, ReserveGiven,
                        ReaderMarked, ReaderApart, Live
    <2>4. CASE DeleteDue(job.op, s)
      <3>1. job'.s = s /\ job'.at = "revoke"
        BY <2>4 DEF DeleteDue
      <3> QED
        BY <2>3, <3>1, AtRest
    <2>5. CASE job' = [job EXCEPT !.at = "append"]
      <3>1. job'.s = s /\ job'.at = "append" /\ job'.frame = job.frame
        BY <1>1, <2>5, JobMoves DEF Places
      <3>2. job.frame \in {"clean", "halted"}
        BY <2>1 DEF CapInv, PlaceInv, TerminalFrame
      <3>3. PlaceInv'
        BY <3>1, <3>2 DEF PlaceInv, Revoked, ArmFresh, ArmBuilt, TerminalFrame,
                          DeletePlaces, ArmPlaces
      <3> QED
        BY <2>3, <3>1, <3>3
    <2> QED
      BY <1>6, <2>2, <2>4, <2>5 DEF Revalidate
  <1>7. CASE AppendFrame
    <2>1. /\ job.at = "append" /\ job' = Idle
          /\ UNCHANGED <<vis, halt, reader, deadlines>>
      BY <1>7 DEF AppendFrame, ctl
    <2>2. PlaceInv'
      BY <2>1, IdleJob, AtRest
    <2>3. CASE halt.on
      BY <2>1, <2>2, <2>3, Latched
    <2>4. CASE ~halt.on /\ UNCHANGED mem /\ job.frame \notin {"clean", "halted"}
      <3>1. Live(s) => mem[s].reserve
        BY <2>1, <2>4 DEF CapInv, PlaceInv, TerminalFrame
      <3>2. SessionInv'
        BY <2>1, <2>4, <3>1 DEF CapInv, SessionInv, Watched, ReserveThere, ReserveGiven,
                                ReaderMarked, ReaderApart, Live
      <3> QED
        BY <2>2, <3>2
    <2>5. CASE /\ job.frame \in {"clean", "halted"}
               /\ mem' = [mem EXCEPT ![s].terminal = job.frame]
      <3>1. ASSUME NEW f \in {"clean", "halted"}, mem' = [mem EXCEPT ![s].terminal = f]
            PROVE  /\ mem'[s].terminal # "no"
                   /\ mem'[s].token = mem[s].token /\ mem'[s].healthy = mem[s].healthy
                   /\ mem'[s].reserve = mem[s].reserve
                   /\ \A t \in Sessions : t # s => mem'[t] = mem[t]
        BY <1>1, <1>2, <3>1 DEF States
      <3>2. /\ mem'[s].terminal # "no"
            /\ mem'[s].token = mem[s].token /\ mem'[s].healthy = mem[s].healthy
            /\ mem'[s].reserve = mem[s].reserve
            /\ \A t \in Sessions : t # s => mem'[t] = mem[t]
        BY <2>5, <3>1
      <3>3. job.s = s
        OBVIOUS
      <3> HIDE DEF s
      <3>4. SessionInv'
        BY <2>1, <3>2, <3>3, ZenonT(60) DEF CapInv, SessionInv, Watched, ReserveThere, ReserveGiven,
                                ReaderMarked, ReaderApart, Live
      <3> QED
        BY <2>2, <3>4
    <2>6. Refused(s) => halt.on
      BY DEF Refused, HaltBlocks
    <2> QED
      BY <1>7, <2>3, <2>4, <2>5, <2>6 DEF AppendFrame
  <1> QED
    BY <1>3, <1>4, <1>5, <1>6, <1>7

-----------------------------------------------------------------------------
(* Reading. *)

\* A reader is issued for a session with a marker and no live writer.
LEMMA ReadingCaps ==
    ASSUME CapInv, JobTyped, MemTyped, DiskInv, Reading
    PROVE  SessionInv' /\ PlaceInv'
  <1>1. PICK s \in Sessions : \/ IssueRead(s) \/ ClaimReader(s) \/ Pread(s)
                              \/ CloseReader(s) \/ RejectReplay(s)
    BY DEF Reading
  <1>2. /\ mem \in [Sessions -> States]
        /\ reader \in [Sessions -> {"none", "issued", "claimed"}]
    BY DEF MemTyped, CapInv, ReaderTyped
  <1>3. Free /\ UNCHANGED <<vis, deadlines>>
    BY <1>1 DEF IssueRead, ClaimReader, Pread, CloseReader, RejectReplay, Readable, disk
  <1>4. UNCHANGED job \/ DeleteDue("read", s)
    BY <1>1 DEF IssueRead, ClaimReader, Pread, CloseReader, RejectReplay, ReadRefused
  <1>5. ASSUME UNCHANGED mem \/ Lowers(s), UNCHANGED halt \/ halt'.on, ReadersLose
        PROVE  SessionInv' /\ PlaceInv'
    <2>1. NoneRaised
      BY <1>5, SameMemory, Lowering
    <2> QED
      BY <1>3, <1>4, <1>5, <2>1, FreeCalls
  <1>6. ASSUME UNCHANGED mem \/ Lowers(s),
               UNCHANGED <<halt, reader>> \/ Latch(s, FALSE)
        PROVE  SessionInv' /\ PlaceInv'
    BY <1>5, <1>6, LatchTakes DEF ReadersLose
  <1>7. CASE Pread(s) \/ RejectReplay(s)
    BY <1>6, <1>7 DEF Pread, RejectReplay, ReadRefused, Sicken, Lowers
  <1>8. CASE CloseReader(s)
    <2>1. ReadersLose /\ UNCHANGED <<mem, halt>>
      BY <1>2, <1>8 DEF CloseReader, ReadersLose, ctl
    <2> QED
      BY <1>5, <2>1
  <1>9. CASE ClaimReader(s)
    <2>1. CASE reader[s] = "issued" /\ reader' = [reader EXCEPT ![s] = "claimed"]
               /\ UNCHANGED <<mem, halt>>
      <3>1. ReadersLose
        BY <1>2, <2>1 DEF ReadersLose
      <3> QED
        BY <1>5, <2>1, <3>1
    <2> QED
      BY <1>6, <1>9, <2>1 DEF ClaimReader, ReadRefused, Sicken, Lowers
  <1>10. CASE IssueRead(s)
    <2>1. CASE /\ vis[s].marker = "ok" /\ UNCHANGED <<job, halt>> /\ ~halt.on
               /\ vis[s].reserve # "none" => mem[s].terminal # "no"
               /\ reader' = [reader EXCEPT ![s] = "issued"]
               /\ mem' = IF mem[s].known THEN mem ELSE [mem EXCEPT ![s] = ReadOnly]
      <3>1. job.at \notin Handing
        BY <1>3, FreePlace
      <3>2. ~ReadOnly.token
        BY DEF ReadOnly, State
      <3>3. /\ \A t \in Sessions : t # s => mem'[t] = mem[t]
            /\ mem'[s] = mem[s] \/ ~mem'[s].token
        BY <1>2, <2>1, <3>2
      <3>4. /\ \A t \in Sessions : t # s => reader'[t] = reader[t]
        BY <1>2, <2>1
      <3>5. ~(Live(s) /\ mem[s].terminal = "no")
        <4> SUFFICES ASSUME Live(s), mem[s].terminal = "no" PROVE FALSE
          OBVIOUS
        <4>1. ReserveThere(s) /\ ReserveGiven(s)
          BY DEF CapInv, SessionInv
        <4>2. mem[s].reserve
          BY <2>1, <3>1, <4>1 DEF ReserveGiven, Handing
        <4>3. vis[s].reserve = "ok"
          BY <2>1, <3>1, <4>1, <4>2 DEF ReserveThere, Handing
        <4> QED
          BY <2>1, <4>3
      <3>6. ASSUME NEW t \in Sessions
            PROVE  /\ Watched(t)' /\ ReserveThere(t)' /\ ReserveGiven(t)'
                   /\ ReaderMarked(t)' /\ ReaderApart(t)'
        <4>1. /\ Watched(t) /\ ReserveThere(t) /\ ReserveGiven(t)
              /\ ReaderMarked(t) /\ ReaderApart(t)
          BY DEF CapInv, SessionInv
        <4>2. CASE t # s
          BY <1>3, <2>1, <3>3, <3>4, <4>1, <4>2
             DEF Watched, ReserveThere, ReserveGiven, ReaderMarked, ReaderApart, Live
        <4>3. CASE t = s
          BY <1>3, <2>1, <3>3, <3>5, <4>1, <4>3
             DEF Watched, ReserveThere, ReserveGiven, ReaderMarked, ReaderApart, Live
        <4> QED
          BY <4>2, <4>3
      <3>7. SessionInv'
        BY <3>6 DEF SessionInv
      <3>8. PlaceInv'
        BY <1>3, <2>1, IdleJob, AtRest DEF Free
      <3> QED
        BY <3>7, <3>8
    <2> QED
      BY <1>6, <1>10, <2>1 DEF IssueRead, Ready, Sicken, Lowers
  <1> QED
    BY <1>1, <1>7, <1>8, <1>9, <1>10

\* A reader is issued, claimed or none.
LEMMA ReaderStep ==
    ASSUME ReaderTyped, JobTyped, [Next]_vars
    PROVE  ReaderTyped'
  <1>1. reader \in [Sessions -> {"none", "issued", "claimed"}]
    BY DEF ReaderTyped
  <1>2. ASSUME \/ UNCHANGED reader
               \/ reader' = [t \in Sessions |-> "none"]
               \/ \E s, v : /\ v \in {"none", "issued", "claimed"}
                            /\ reader' = [reader EXCEPT ![s] = v]
        PROVE  ReaderTyped'
    BY <1>1, <1>2 DEF ReaderTyped
  <1>3. ASSUME NEW s, NEW a, Latch(s, a) PROVE ReaderTyped'
    BY <1>2, <1>3 DEF Latch
  <1>4. CASE Process
    BY <1>2, <1>4 DEF Process, Acquire, Close, Exit, Crash, ForeignHalt, ForeignRevoke,
                      Tick, caps
  <1>5. CASE Purge
    BY <1>2, <1>3, <1>5 DEF Purge, Recover, Expire, RecoverStart, HaltAmbiguously,
           WorkerStops, RetainNotDue, RecoverEnd, Revoke, UnlinkWal, UnlinkReserve,
           SyncUnlinked, UnlinkMarker, Forget, DeleteFails, RecoverOne, caps
  <1>6. CASE Arming
    BY <1>2, <1>3, <1>6 DEF Arming, CreateMarker, WriteMarker, SyncMarker, CreateWal,
           CreateReserve, AllocateReserve, SyncArmed, ArmCommit, ArmFails, Arm, caps
  <1>7. CASE ReleaseReserve \/ SyncReleased \/ Revalidate \/ AppendFrame \/ WriteFails
    BY <1>2, <1>3, <1>7 DEF ReleaseReserve, SyncReleased, Revalidate, AppendFrame,
           WriteFails, Condemn, Sicken, caps
  <1>8. ASSUME NEW s \in Sessions,
               \/ ClaimWriter(s) \/ ClaimRuntime(s) \/ FsyncFails(s)
               \/ \E f \in Frames : Write(s, f)
               \/ WriteHalt(s) \/ ObserveHalt(s) \/ AckClean(s)
               \/ CloseWriter(s) \/ MarkClean(s)
        PROVE  ReaderTyped'
    BY <1>2, <1>3, <1>8 DEF ClaimWriter, ClaimRuntime, FsyncFails, Write, WriteHalt,
           ObserveHalt, AckClean, CloseWriter, MarkClean, Condemn, Sicken
  <1>9. CASE Writing
    BY <1>7, <1>8, <1>9 DEF Writing
  <1>10. ASSUME NEW s \in Sessions,
                \/ IssueRead(s) \/ ClaimReader(s) \/ Pread(s)
                \/ CloseReader(s) \/ RejectReplay(s)
         PROVE  ReaderTyped'
    BY <1>2, <1>3, <1>10 DEF IssueRead, ClaimReader, Pread, CloseReader, RejectReplay,
           ReadRefused, Sicken
  <1>11. CASE Reading
    BY <1>10, <1>11 DEF Reading
  <1>12. CASE UNCHANGED vars
    BY <1>2, <1>12 DEF vars, caps
  <1> QED
    BY <1>4, <1>5, <1>6, <1>9, <1>11, <1>12 DEF Next

-----------------------------------------------------------------------------
\* A new process has no capability.
LEMMA CapStart == Init => CapInv
  <1> SUFFICES ASSUME Init PROVE CapInv
    OBVIOUS
  <1>1. ReaderTyped
    BY DEF Init, ReaderTyped
  <1>2. \A s \in Sessions : ~mem[s].token /\ reader[s] = "none"
    BY DEF Init, NoState, State
  <1>3. SessionInv
    BY <1>2 DEF SessionInv, Watched, ReserveThere, ReserveGiven, ReaderMarked,
                ReaderApart, Live
  <1>4. job.at = "rest"
    BY IdleJob DEF Init
  <1>5. PlaceInv
    BY <1>4 DEF PlaceInv, Revoked, ArmFresh, ArmBuilt, TerminalFrame, DeletePlaces,
                ArmPlaces
  <1> QED
    BY <1>1, <1>3, <1>5 DEF CapInv

\* Every step keeps what memory and disk say of each other.
LEMMA CapStep == DiskInv /\ MemTyped /\ CapInv /\ [Next]_vars => CapInv'
  <1> SUFFICES ASSUME DiskInv, MemTyped, CapInv, [Next]_vars PROVE CapInv'
    OBVIOUS
  <1>1. JobTyped /\ ReaderTyped
    BY DEF DiskInv, CapInv
  <1>2. CASE Process
    BY <1>1, <1>2, ProcessCaps, ReaderStep DEF CapInv
  <1>3. CASE Purge
    BY <1>1, <1>3, ProcessCaps, PassCaps, DeletionCaps, ReaderStep DEF CapInv, Purge
  <1>4. CASE Arming
    BY <1>1, <1>4, ArmingCaps, ReaderStep DEF CapInv
  <1>5. CASE Writing
    BY <1>1, <1>5, OwnerCaps, WriterCaps, ReaderStep DEF CapInv, Writing
  <1>6. CASE Reading
    BY <1>1, <1>6, ReadingCaps, ReaderStep DEF CapInv
  <1>7. CASE UNCHANGED vars
    BY <1>1, <1>7, SameMemory, Taking, WeakenedInPlace, ReaderStep
       DEF CapInv, vars, disk, ctl, caps, ReadersLose
  <1> QED
    BY <1>2, <1>3, <1>4, <1>5, <1>6, <1>7 DEF Next

\* Between two methods the coordinator's memory agrees with its directories: a
\* healthy writer has its three files and is watched, and nothing is readable
\* that a writer may still extend.
THEOREM CapabilitiesHold == Spec => []CapabilitiesMatchDisk
  <1>1. CapInv => CapabilitiesMatchDisk
    <2> SUFFICES ASSUME CapInv, Free, NEW s \in Sessions
                 PROVE  /\ mem[s].token /\ mem[s].healthy /\ ~halt.on
                             => TupleIntact(s) /\ s \in deadlines
                        /\ reader[s] # "none" /\ ~halt.on
                             => ~(mem[s].token /\ mem[s].healthy
                                    /\ mem[s].terminal = "no")
      BY DEF CapabilitiesMatchDisk
    <2>1. job.at \notin Handing
      BY FreePlace
    <2> QED
      BY <2>1 DEF CapInv, SessionInv, Watched, ReserveThere, ReaderApart, Live,
                  TupleIntact, Handing
  <1>2. Init => DiskInv /\ WriteInv /\ CapInv
    BY DiskStart, WriteStart, CapStart
  <1>3. DiskInv /\ WriteInv /\ CapInv /\ [Next]_vars => DiskInv' /\ WriteInv' /\ CapInv'
    BY DiskStep, WriteStep, CapStep DEF WriteInv
  <1> QED
    BY <1>1, <1>2, <1>3, PTL DEF Spec

=============================================================================
