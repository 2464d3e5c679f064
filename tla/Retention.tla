------------------------------ MODULE Retention ------------------------------
(***************************************************************************)
(* tennis_v1/retention.py: one RetentionCoordinator on one state root.      *)
(*                                                                         *)
(* A session has three files: its marker (which names the other two and     *)
(* their deadline), its write-ahead log and the reserve that guarantees     *)
(* space for a terminal record.  "vis" is what the directories show, "dur"  *)
(* what survives a power failure; a directory's fsync copies the first to   *)
(* the second.  Every method of the class runs under `_condition`, so a     *)
(* method is a job of small steps between which only the clock, a crash,    *)
(* another coordinator's halt and a failing system call can come.           *)
(***************************************************************************)
EXTENDS Integers, Sequences, FiniteSets

CONSTANTS
    Sessions,     \* session identifiers
    Deadline,     \* delete_by_ns of each session
    MaxClock,     \* bound: the clock stops here
    MaxFrames,    \* bound: frames of one log
    MaxCrashes,   \* bound: crashes of one behaviour
    MaxFailures,  \* bound: failing system calls of one behaviour
    MaxForeign,   \* bound: halts latched by another coordinator
    NoSession

ASSUME DeadlineAssumption == Deadline \in [Sessions -> Nat]
ASSUME NoSessionAssumption == NoSession \notin Sessions

VARIABLES
    vis, dur,     \* the three files of a session, as seen and as durable
    log,          \* the frames in a session's log
    phase,        \* of the coordinator
    halt,         \* _PROCESS_HALT
    ambiguousHalt,\* _ambiguous_halt
    mem,          \* _session_states and the write authority of each
    reader,       \* the read capability on a session
    deadlines,    \* _deadlines: the sessions the worker watches
    worker,       \* the expiry worker
    job,          \* the method holding _condition
    revoking,     \* a foreign latch still has to revoke our readers
    now, crashes, failures, foreign

disk  == <<vis, dur, log>>
env   == <<now, crashes, failures, foreign>>
ctl   == <<phase, halt, ambiguousHalt, revoking>>
caps  == <<mem, reader, deadlines, worker>>
vars  == <<disk, ctl, caps, job, env>>

NoFiles == [marker |-> "none", wal |-> "none", reserve |-> "none"]
NoHalt  == [on |-> FALSE, own |-> FALSE, scope |-> NoSession, ambiguous |-> FALSE]
Job(op, s, at) == [op |-> op, s |-> s, at |-> at, todo |-> {}, frame |-> "nothing",
                   reserve |-> FALSE, due |-> FALSE, orphan |-> FALSE]
Idle == Job("idle", NoSession, "rest")

\* _SessionState together with the _WriteAuthority of its token.
State(known, writes) ==
    [known |-> known, healthy |-> known, token |-> writes, reserve |-> writes,
     terminal |-> "no", writer |-> FALSE, runtime |-> FALSE, permitUsed |-> FALSE,
     preobserved |-> FALSE, ack |-> FALSE, marked |-> FALSE]
NoState  == State(FALSE, FALSE)
Armed    == State(TRUE, TRUE)
ReadOnly == State(TRUE, FALSE)

Init ==
    /\ vis = [s \in Sessions |-> NoFiles]
    /\ dur = [s \in Sessions |-> NoFiles]
    /\ log = [s \in Sessions |-> <<>>]
    /\ phase = "down" /\ halt = NoHalt /\ ambiguousHalt = FALSE
    /\ revoking = FALSE
    /\ mem = [s \in Sessions |-> NoState]
    /\ reader = [s \in Sessions |-> "none"]
    /\ deadlines = {} /\ worker = "none" /\ job = Idle
    /\ now = 0 /\ crashes = 0 /\ failures = 0 /\ foreign = 0

-----------------------------------------------------------------------------
(* Guards and parts of actions *)

Due(s)  == now >= Deadline[s]
Free    == job = Idle
Open    == phase \in {"acquired", "ready"} /\ ~halt.on
Ready   == phase = "ready" /\ ~halt.on

Started(s) == Len(log[s]) >= 2

\* `_inventory`: every marker is whole, every log and reserve has its marker,
\* and every reserve has its full size.
HealthyInventory ==
    \A s \in Sessions :
        /\ vis[s].marker # "torn"
        /\ vis[s].wal # "none" => vis[s].marker = "ok"
        /\ vis[s].reserve # "none" => /\ vis[s].marker = "ok"
                                      /\ vis[s].reserve = "ok"

\* `_latch_global_halt` by this coordinator: only the first latch counts, and
\* it revokes the readers at once.
Latch(s, ambig) ==
    IF halt.on
      THEN UNCHANGED <<halt, reader>>
      ELSE /\ halt' = [on |-> TRUE, own |-> TRUE, scope |-> s, ambiguous |-> ambig]
           /\ reader' = [t \in Sessions |-> "none"]

Closed(m) == [m EXCEPT !.token = FALSE]

\* A system call fails: the method latches a halt scoped to its session.
CanFail == failures < MaxFailures
Fail    == failures' = failures + 1

\* fsync of sessions/ and of retention-markers/.
SyncSessions == dur' = [s \in Sessions |->
                    [marker |-> dur[s].marker, wal |-> vis[s].wal,
                     reserve |-> vis[s].reserve]]
SyncMarkers  == dur' = [s \in Sessions |-> [dur[s] EXCEPT !.marker = vis[s].marker]]

-----------------------------------------------------------------------------
(* The process *)

\* `acquire`, and the start of the expiry worker.
Acquire ==
    /\ phase = "down" /\ ~halt.on
    /\ phase' = "acquired" /\ worker' = "running"
    /\ UNCHANGED <<disk, halt, ambiguousHalt, revoking, mem, reader, deadlines,
                   job, env>>

\* `close`: every capability is closed, the worker is told to end ...
Close ==
    /\ Free /\ phase \in {"acquired", "ready"}
    /\ phase' = "closing"
    /\ mem' = [s \in Sessions |-> Closed(mem[s])]
    /\ reader' = [s \in Sessions |-> "none"]
    /\ UNCHANGED <<disk, halt, ambiguousHalt, revoking, deadlines, worker, job, env>>

\* ... and joined; the process then exits.
Exit ==
    /\ phase = "closing" /\ worker # "running"
    /\ phase' = "down" /\ halt' = NoHalt /\ ambiguousHalt' = FALSE
    /\ revoking' = FALSE /\ worker' = "none" /\ deadlines' = {}
    /\ mem' = [s \in Sessions |-> NoState]
    /\ UNCHANGED <<disk, reader, job, env>>

\* The process is killed, or the machine fails: then an entry or a content that
\* was not synced survives or does not.
PowerFails ==
    \E f \in [Sessions -> BOOLEAN], g \in [Sessions -> BOOLEAN],
       h \in [Sessions -> BOOLEAN] :
         LET left == [s \in Sessions |->
                        [marker  |-> IF f[s] THEN vis[s].marker  ELSE dur[s].marker,
                         wal     |-> IF g[s] THEN vis[s].wal     ELSE dur[s].wal,
                         reserve |-> IF h[s] THEN vis[s].reserve ELSE dur[s].reserve]]
         IN /\ vis' = left /\ dur' = left
            /\ log' = [s \in Sessions |-> IF left[s].wal = "none" THEN <<>> ELSE log[s]]

Crash ==
    /\ phase # "down" /\ crashes < MaxCrashes
    /\ crashes' = crashes + 1
    /\ UNCHANGED disk \/ PowerFails
    /\ phase' = "down" /\ halt' = NoHalt /\ ambiguousHalt' = FALSE
    /\ revoking' = FALSE /\ worker' = "none" /\ deadlines' = {}
    /\ mem' = [s \in Sessions |-> NoState]
    /\ reader' = [s \in Sessions |-> "none"]
    /\ job' = Idle
    /\ UNCHANGED <<now, failures, foreign>>

\* Another coordinator of the process latches a halt, at any time ...
ForeignHalt ==
    /\ phase # "down" /\ ~halt.on /\ foreign < MaxForeign
    /\ foreign' = foreign + 1
    /\ \E ambig \in BOOLEAN :
         halt' = [on |-> TRUE, own |-> FALSE, scope |-> NoSession, ambiguous |-> ambig]
    /\ revoking' = TRUE
    /\ UNCHANGED <<disk, phase, ambiguousHalt, caps, job, now, crashes, failures>>

\* ... and gets our lock to revoke our readers only between two methods.
ForeignRevoke ==
    /\ revoking /\ Free
    /\ revoking' = FALSE
    /\ reader' = [s \in Sessions |-> "none"]
    /\ UNCHANGED <<disk, phase, halt, ambiguousHalt, mem, deadlines, worker, job, env>>

Tick ==
    /\ now < MaxClock /\ now' = now + 1
    /\ UNCHANGED <<disk, ctl, caps, job, crashes, failures, foreign>>

-----------------------------------------------------------------------------
(* recover_and_purge, and the expiry worker, which runs the same pass *)

\* A live session whose log (or the reserve it still relies on) has vanished.
LostLive(s) ==
    /\ mem[s].token \/ reader[s] # "none"
    /\ \/ vis[s].wal = "none"
       \/ mem[s].known /\ mem[s].reserve /\ vis[s].reserve = "none"

HaltAmbiguously(op) ==
    /\ Latch(NoSession, TRUE) /\ ambiguousHalt' = TRUE
    /\ worker' = IF op = "expire" THEN "stopped" ELSE worker

RecoverStart(op) ==
    LET marked == {s \in Sessions : vis[s].marker # "none"}
        live   == {s \in Sessions : mem[s].token \/ reader[s] # "none"}
    IN IF HealthyInventory /\ live \subseteq marked
         THEN /\ job' = [Job(op, NoSession, "next") EXCEPT !.todo = marked]
              /\ UNCHANGED <<halt, ambiguousHalt, caps>>
         ELSE /\ HaltAmbiguously(op)
              /\ UNCHANGED <<mem, deadlines, job>>

Recover ==
    /\ Free /\ Open
    /\ RecoverStart("recover")
    /\ UNCHANGED <<disk, phase, revoking, env>>

\* The worker wakes at the earliest deadline, halted or not.
ExpireMutant ==   \* a halted process stops deleting
    /\ Free /\ worker = "running" /\ Ready
    /\ \E s \in deadlines : Due(s)
    /\ RecoverStart("expire")
    /\ UNCHANGED <<disk, phase, revoking, env>>
Expire ==
    /\ Free /\ worker = "running" /\ phase = "ready"
    /\ \E s \in deadlines : Due(s)
    /\ RecoverStart("expire")
    /\ UNCHANGED <<disk, phase, revoking, env>>

WorkerStops ==
    /\ Free /\ phase = "closing" /\ worker = "running"
    /\ worker' = "stopped"
    /\ UNCHANGED <<disk, ctl, mem, reader, deadlines, job, env>>

\* What to do about one marker of the pass.
Visit(s) ==
    [op |-> job.op, s |-> s, todo |-> job.todo \ {s}, frame |-> job.frame,
     reserve |-> (vis[s].reserve # "none"), due |-> Due(s),
     orphan |-> (vis[s].wal = "none"),
     at |-> IF vis[s].wal = "none" THEN "reserve"
            ELSE IF Due(s) THEN "revoke" ELSE "retain"]

\* One marker of the pass: a lost live session halts, a marker without a log is
\* cleaned up, a due log is deleted, any other is kept.
RecoverOne(s) ==
    /\ job.at = "next" /\ s \in job.todo
    /\ IF LostLive(s)
         THEN /\ Latch(s, FALSE) /\ job' = Idle
              /\ worker' = IF job.op = "expire" THEN "stopped" ELSE worker
              /\ ambiguousHalt' = (ambiguousHalt \/ job.op = "expire")
         ELSE /\ job' = Visit(s)
              /\ UNCHANGED <<halt, reader, ambiguousHalt, worker>>
    /\ UNCHANGED <<disk, phase, revoking, mem, deadlines, env>>

\* A log that is not due stays; the reserve of a dead writer does not.
RetainNotDueMutant ==   \* the reserve of a live writer goes too
    LET s == job.s IN
    /\ job.at = "retain"
    /\ job' = [job EXCEPT !.at = "next"]
    /\ vis' = [vis EXCEPT ![s].reserve = "none"] /\ SyncSessions
    /\ UNCHANGED <<log, ctl, caps, env>>
RetainNotDue ==
    LET s == job.s IN
    /\ job.at = "retain"
    /\ job' = [job EXCEPT !.at = "next"]
    /\ IF vis[s].reserve # "none" /\ ~(mem[s].token /\ mem[s].healthy)
         THEN /\ vis' = [vis EXCEPT ![s].reserve = "none"]
              /\ dur' = [t \in Sessions |->
                           [marker |-> dur[t].marker, wal |-> vis'[t].wal,
                            reserve |-> vis'[t].reserve]]
         ELSE UNCHANGED <<vis, dur>>
    /\ UNCHANGED <<log, ctl, caps, env>>

RecoverEnd ==
    /\ job.at = "next" /\ job.todo = {}
    /\ deadlines' = {s \in Sessions : vis[s].marker # "none"}
    /\ phase' = IF job.op = "recover" THEN "ready" ELSE phase
    /\ job' = Idle
    /\ UNCHANGED <<disk, halt, ambiguousHalt, revoking, mem, reader, worker, env>>

-----------------------------------------------------------------------------
(* _delete_due_marker and _cleanup_orphan_marker *)

\* The capabilities of a due session are closed before its files go.
Revoke ==
    LET s == job.s IN
    /\ job.at = "revoke"
    /\ mem' = [mem EXCEPT ![s] = Closed(@)]
    /\ reader' = [reader EXCEPT ![s] = "none"]
    /\ job' = [job EXCEPT !.at = "wal"]
    /\ UNCHANGED <<disk, ctl, deadlines, worker, env>>

UnlinkWal ==
    LET s == job.s IN
    /\ job.at = "wal"
    /\ vis' = [vis EXCEPT ![s].wal = "none"] /\ log' = [log EXCEPT ![s] = <<>>]
    /\ job' = [job EXCEPT !.at = "reserve"]
    /\ UNCHANGED <<dur, ctl, caps, env>>

UnlinkReserve ==
    LET s == job.s IN
    /\ job.at = "reserve"
    /\ vis' = IF job.reserve THEN [vis EXCEPT ![s].reserve = "none"] ELSE vis
    /\ job' = [job EXCEPT !.at = "sync"]
    /\ UNCHANGED <<dur, log, ctl, caps, env>>

SyncUnlinkedMutant ==   \* the fsync between the unlinks is forgotten
    /\ job.at = "sync" /\ UNCHANGED dur
    /\ job' = [job EXCEPT !.at = "marker"]
    /\ UNCHANGED <<vis, log, ctl, caps, env>>
SyncUnlinked ==
    /\ job.at = "sync" /\ SyncSessions
    /\ job' = [job EXCEPT !.at = "marker"]
    /\ UNCHANGED <<vis, log, ctl, caps, env>>

UnlinkMarker ==
    LET s == job.s IN
    /\ job.at = "marker"
    /\ vis' = [vis EXCEPT ![s].marker = "none"]
    /\ job' = [job EXCEPT !.at = "gone"]
    /\ UNCHANGED <<dur, log, ctl, caps, env>>

\* After the second fsync the session is forgotten; the claim that found it due
\* then latches its halt.
Forget ==
    LET s == job.s IN
    /\ job.at = "gone" /\ SyncMarkers
    /\ IF job.orphan THEN UNCHANGED <<mem, deadlines>>
       ELSE /\ mem' = [mem EXCEPT ![s] = NoState]
            /\ deadlines' = deadlines \ {s}
    /\ IF job.op = "claim" THEN Latch(s, FALSE) ELSE UNCHANGED <<halt, reader>>
    /\ job' = IF job.op \in {"recover", "expire"} THEN [job EXCEPT !.at = "next"] ELSE Idle
    /\ UNCHANGED <<vis, log, phase, ambiguousHalt, revoking, worker, env>>

\* A failing unlink or fsync: the scoped latch is installed, the marker stays
\* as evidence, and the worker gives up.
DeleteFails ==
    /\ job.at \in {"retain", "wal", "reserve", "sync", "marker", "gone"} /\ CanFail /\ Fail
    /\ IF job.at = "retain" THEN HaltAmbiguously(job.op)
       ELSE /\ Latch(job.s, FALSE)
            /\ worker' = IF job.op = "expire" THEN "stopped" ELSE worker
            /\ ambiguousHalt' = (ambiguousHalt \/ (job.op = "expire" /\ ~job.due))
    /\ mem' = IF job.op = "claim" THEN [mem EXCEPT ![job.s].healthy = FALSE] ELSE mem
    /\ job' = Idle
    /\ UNCHANGED <<disk, phase, revoking, deadlines, now, crashes, foreign>>

-----------------------------------------------------------------------------
(* arm_before_wal *)

\* The checks before the first file; a verdict of the authorizer or the capacity
\* check that refuses the session changes nothing.
Arm(s) ==
    /\ Free /\ Ready /\ HealthyInventory
    /\ ~Due(s) /\ s \notin deadlines
    /\ job' = Job("arm", s, "create marker")
    /\ UNCHANGED <<disk, ctl, caps, env>>

ArmStep(at, next) == job.op = "arm" /\ job.at = at /\ job' = [job EXCEPT !.at = next]

CreateMarker ==
    /\ ArmStep("create marker", "write marker")
    /\ vis[job.s].marker = "none"
    /\ vis' = [vis EXCEPT ![job.s].marker = "torn"]
    /\ UNCHANGED <<dur, log, ctl, caps, env>>

WriteMarker ==
    /\ ArmStep("write marker", "sync marker")
    /\ vis' = [vis EXCEPT ![job.s].marker = "ok"]
    /\ UNCHANGED <<dur, log, ctl, caps, env>>

SyncMarker ==
    /\ ArmStep("sync marker", "create wal")
    /\ SyncMarkers
    /\ UNCHANGED <<vis, log, ctl, caps, env>>

CreateWal ==
    /\ ArmStep("create wal", "create reserve")
    /\ vis' = [vis EXCEPT ![job.s].wal = "ok"]
    /\ UNCHANGED <<dur, log, ctl, caps, env>>

CreateReserve ==
    /\ ArmStep("create reserve", "allocate")
    /\ vis' = [vis EXCEPT ![job.s].reserve = "short"]
    /\ UNCHANGED <<dur, log, ctl, caps, env>>

AllocateReserve ==
    /\ ArmStep("allocate", "sync sessions")
    /\ vis' = [vis EXCEPT ![job.s].reserve = "ok"]
    /\ UNCHANGED <<dur, log, ctl, caps, env>>

SyncArmed ==
    /\ ArmStep("sync sessions", "commit")
    /\ SyncSessions
    /\ UNCHANGED <<vis, log, ctl, caps, env>>

\* The capability is handed out and the worker told of the deadline.
ArmCommit ==
    /\ job.op = "arm" /\ job.at = "commit"
    /\ mem' = [mem EXCEPT ![job.s] = Armed]
    /\ deadlines' = deadlines \cup {job.s}
    /\ job' = Idle
    /\ UNCHANGED <<disk, ctl, reader, worker, env>>

ArmFails ==
    /\ job.op = "arm" /\ job.at # "commit" /\ CanFail /\ Fail
    /\ Latch(job.s, FALSE) /\ job' = Idle
    /\ UNCHANGED <<disk, phase, ambiguousHalt, revoking, mem, deadlines, worker,
                   now, crashes, foreign>>

-----------------------------------------------------------------------------
(* The write capability *)

\* The files of a session are the ones its memory names.
TupleIntact(s) ==
    /\ vis[s].marker = "ok" /\ vis[s].wal = "ok"
    /\ mem[s].reserve => vis[s].reserve = "ok"

\* `_validate_write_capability`, with allow_global_halt for a halt control.
HaltBlocks(s) == halt.on /\ \/ (halt.ambiguous /\ halt.own)
                            \/ halt.scope = s
                            \/ ambiguousHalt
Writable(s) ==
    /\ mem[s].token /\ phase = "ready"
    /\ mem[s].healthy /\ mem[s].terminal = "no"

\* A validation that finds the session due deletes it before it raises.
DeleteDue(op, s) ==
    job' = [op |-> op, s |-> s, at |-> "revoke", todo |-> {}, frame |-> "nothing",
            reserve |-> (vis[s].reserve # "none"), due |-> TRUE, orphan |-> FALSE]

\* `_reject_bootstrap_write` and the failing claims.
Condemn(s) ==
    /\ mem' = [mem EXCEPT ![s] = [Closed(@) EXCEPT !.healthy = FALSE]]
    /\ Latch(s, FALSE)
Sicken(s) ==
    /\ mem' = [mem EXCEPT ![s].healthy = FALSE]
    /\ Latch(s, FALSE)

FrameFits(s, f) ==
    CASE Len(log[s]) = 0 -> f = "prefix"
      [] Len(log[s]) = 1 -> f = "start"
      [] OTHER           -> f \in {"data", "clean"}

\* A claim that finds the session due deletes it first and latches a halt then;
\* any other claim that fails condemns the session.
Claimable(s) == Writable(s) /\ ~halt.on /\ TupleIntact(s)
ClaimWriter(s) ==
    /\ Free /\ mem[s].token
    /\ \/ /\ Claimable(s) /\ ~mem[s].writer /\ Due(s) /\ DeleteDue("claim", s)
          /\ UNCHANGED <<mem, halt, reader>>
       \/ /\ Claimable(s) /\ ~mem[s].writer /\ ~Due(s)
          /\ mem' = [mem EXCEPT ![s].writer = TRUE]
          /\ UNCHANGED <<halt, reader, job>>
       \/ ~(Claimable(s) /\ ~mem[s].writer) /\ Condemn(s) /\ UNCHANGED job
    /\ UNCHANGED <<disk, phase, ambiguousHalt, revoking, deadlines, worker, env>>

ClaimRuntime(s) ==
    /\ Free /\ mem[s].token
    /\ \/ /\ Claimable(s) /\ ~mem[s].runtime /\ Due(s) /\ DeleteDue("claim", s)
          /\ UNCHANGED <<mem, halt, reader>>
       \/ /\ Claimable(s) /\ ~mem[s].runtime /\ ~Due(s)
          /\ mem[s].writer /\ Started(s)
          /\ mem' = [mem EXCEPT ![s].runtime = TRUE]
          /\ UNCHANGED <<halt, reader, job>>
       \/ /\ \/ ~(Claimable(s) /\ ~mem[s].runtime)
             \/ ~Due(s) /\ ~(mem[s].writer /\ Started(s))
          /\ Condemn(s) /\ UNCHANGED job
    /\ UNCHANGED <<disk, phase, ambiguousHalt, revoking, deadlines, worker, env>>

\* `write_all`: validate, classify, authorize, validate again.
Write(s, f) ==
    /\ Free /\ Writable(s) /\ ~halt.on /\ Len(log[s]) < MaxFrames
    /\ \/ /\ ~TupleIntact(s) /\ Sicken(s) /\ UNCHANGED job
       \/ /\ TupleIntact(s) /\ Due(s) /\ DeleteDue("write", s)
          /\ UNCHANGED <<mem, halt, reader>>
       \/ /\ TupleIntact(s) /\ ~Due(s)
          /\ ~mem[s].writer \/ ~FrameFits(s, f)
          /\ Condemn(s) /\ UNCHANGED job
       \/ /\ TupleIntact(s) /\ ~Due(s)
          /\ mem[s].writer /\ FrameFits(s, f)
          /\ f = "clean" => mem[s].reserve
          /\ job' = [Job("write", s, IF f = "clean" THEN "release" ELSE "append")
                        EXCEPT !.frame = f]
          /\ UNCHANGED <<mem, halt, reader>>
    /\ UNCHANGED <<disk, phase, ambiguousHalt, revoking, deadlines, worker, env>>

\* `fsync` changes nothing unless it fails.
FsyncFails(s) ==
    /\ Free /\ Writable(s) /\ ~halt.on /\ TupleIntact(s) /\ ~Due(s) /\ CanFail /\ Fail
    /\ Sicken(s)
    /\ UNCHANGED <<disk, phase, ambiguousHalt, revoking, deadlines, worker, job,
                   now, crashes, foreign>>

\* `write_halt_control`: the one frame a halt that is not about this session
\* lets through, once, and only if the owner saw that halt at a check.
WriteHalt(s) ==
    /\ Free /\ Writable(s) /\ ~HaltBlocks(s) /\ Len(log[s]) < MaxFrames
    /\ \/ /\ ~TupleIntact(s) /\ Sicken(s) /\ UNCHANGED job
       \/ /\ TupleIntact(s) /\ Due(s) /\ DeleteDue("halt", s)
          /\ UNCHANGED <<mem, halt, reader>>
       \/ /\ TupleIntact(s) /\ ~Due(s) /\ (halt.on => mem[s].preobserved)
          /\ ~(mem[s].writer /\ Started(s))
          /\ Condemn(s) /\ UNCHANGED job
       \/ /\ TupleIntact(s) /\ ~Due(s) /\ (halt.on => mem[s].preobserved)
          /\ mem[s].writer /\ Started(s) /\ ~mem[s].permitUsed
          /\ mem' = [mem EXCEPT ![s].permitUsed = TRUE]
          /\ job' = IF mem[s].reserve
                      THEN [Job("halt", s, "release") EXCEPT !.frame = "halted"]
                      ELSE Idle
          /\ UNCHANGED <<halt, reader>>
    /\ UNCHANGED <<disk, phase, ambiguousHalt, revoking, deadlines, worker, env>>

\* `_release_reserve` frees the space the terminal record needs.
ReleaseReserve ==
    /\ job.at = "release"
    /\ vis' = [vis EXCEPT ![job.s].reserve = "none"]
    /\ job' = [job EXCEPT !.at = "sync release"]
    /\ UNCHANGED <<dur, log, ctl, caps, env>>

SyncReleased ==
    /\ job.at = "sync release"
    /\ SyncSessions
    /\ mem' = [mem EXCEPT ![job.s].reserve = FALSE]
    /\ job' = [job EXCEPT !.at = "revalidate"]
    /\ UNCHANGED <<vis, log, ctl, reader, deadlines, worker, env>>

RefusedMutant(s) == FALSE   \* the halt is not checked again before the append
Refused(s) == IF job.op = "halt" THEN HaltBlocks(s) \/ (halt.on /\ ~mem[s].preobserved)
              ELSE halt.on

Revalidate ==
    LET s == job.s IN
    /\ job.at = "revalidate"
    /\ \/ Refused(s) /\ job' = Idle
       \/ ~Refused(s) /\ Due(s) /\ DeleteDue(job.op, s)
       \/ ~Refused(s) /\ ~Due(s) /\ job' = [job EXCEPT !.at = "append"]
    /\ UNCHANGED <<disk, ctl, caps, env>>

\* The append, under the lock that a latch takes too: no halt comes in between.
AppendFrame ==
    LET s == job.s IN
    /\ job.at = "append"
    /\ \/ /\ Refused(s) \/ job.frame = "data"  \* a halt, or too little space is left
          /\ UNCHANGED <<log, mem>>
       \/ /\ ~Refused(s)
          /\ log' = [log EXCEPT ![s] = Append(@, job.frame)]
          /\ mem' = IF job.frame \in {"clean", "halted"}
                      THEN [mem EXCEPT ![s].terminal = job.frame] ELSE mem
    /\ job' = Idle
    /\ UNCHANGED <<vis, dur, ctl, reader, deadlines, worker, env>>

WriteFails ==
    LET s == job.s IN
    /\ job.at \in {"release", "sync release", "append"} /\ CanFail /\ Fail
    /\ job.at = "append" => ~Refused(s)
    /\ IF job.at = "append" /\ job.op = "write" THEN Condemn(s) ELSE Sicken(s)
    /\ job' = Idle
    /\ UNCHANGED <<disk, phase, ambiguousHalt, revoking, deadlines, worker,
                   now, crashes, foreign>>

\* `require_control_halt_eligible`: the owner observes a halt at a check.
ObserveHalt(s) ==
    /\ Free /\ halt.on /\ mem[s].known
    /\ ~halt.ambiguous /\ halt.scope # s /\ ~ambiguousHalt
    /\ mem[s].healthy /\ mem[s].terminal = "no" /\ mem[s].token
    /\ ~Due(s)
    /\ mem' = IF TupleIntact(s) /\ mem[s].reserve
                THEN [mem EXCEPT ![s].preobserved = TRUE]
                ELSE [mem EXCEPT ![s].healthy = FALSE]
    /\ UNCHANGED <<disk, ctl, reader, deadlines, worker, job, env>>

\* `_ack_provider_wal_clean_terminal`, then `close`, then `mark_clean_terminal`.
AckClean(s) ==
    /\ Free /\ mem[s].token /\ ~halt.on
    /\ IF /\ phase = "ready" /\ mem[s].writer /\ mem[s].healthy
          /\ mem[s].terminal = "clean" /\ ~mem[s].reserve /\ ~mem[s].ack
         THEN /\ ~Due(s)
              /\ mem' = [mem EXCEPT ![s].ack = TRUE]
              /\ UNCHANGED <<halt, reader>>
         ELSE Sicken(s)
    /\ UNCHANGED <<disk, phase, ambiguousHalt, revoking, deadlines, worker, job, env>>

CloseWriter(s) ==
    /\ Free /\ mem[s].token
    /\ mem' = [mem EXCEPT ![s] = Closed(@)]
    /\ UNCHANGED <<disk, ctl, reader, deadlines, worker, job, env>>

MarkClean(s) ==
    /\ Free /\ Ready /\ mem[s].terminal = "clean" /\ mem[s].healthy /\ mem[s].ack
    /\ \/ /\ Due(s) /\ DeleteDue("mark", s) /\ UNCHANGED <<mem, halt, reader>>
       \/ /\ ~Due(s) /\ UNCHANGED job
          /\ IF vis[s].wal = "ok" /\ vis[s].reserve = "none" /\ vis[s].marker = "ok"
               THEN /\ mem' = [mem EXCEPT ![s].marked = TRUE]
                    /\ UNCHANGED <<halt, reader>>
               ELSE Sicken(s)
    /\ UNCHANGED <<disk, phase, ambiguousHalt, revoking, deadlines, worker, env>>

-----------------------------------------------------------------------------
(* The read capability *)

\* `issue_read_capability`: only a log no writer will extend is readable.
IssueRead(s) ==
    /\ Free /\ Ready /\ HealthyInventory /\ reader[s] = "none"
    /\ \/ /\ vis[s].marker = "none"
          /\ IF mem[s].known THEN Sicken(s) ELSE Latch(s, FALSE) /\ UNCHANGED mem
          /\ UNCHANGED job
       \/ /\ vis[s].marker = "ok" /\ Due(s) /\ DeleteDue("read", s)
          /\ UNCHANGED <<mem, halt, reader>>
       \/ /\ vis[s].marker = "ok" /\ ~Due(s) /\ UNCHANGED job
          /\ vis[s].reserve # "none" => mem[s].terminal # "no"
          /\ IF vis[s].wal = "ok"
               THEN /\ reader' = [reader EXCEPT ![s] = "issued"]
                    /\ mem' = IF mem[s].known THEN mem ELSE [mem EXCEPT ![s] = ReadOnly]
                    /\ UNCHANGED halt
               ELSE IF mem[s].known THEN Sicken(s) ELSE Latch(s, FALSE) /\ UNCHANGED mem
    /\ UNCHANGED <<disk, phase, ambiguousHalt, revoking, deadlines, worker, env>>

\* `_validate_read_capability`: a reserve, or a log that is not the one
\* remembered, condemns the session; a due session is deleted instead.
Readable(s) ==
    /\ Free /\ reader[s] # "none" /\ phase = "ready" /\ ~halt.on
    /\ mem[s].known /\ mem[s].healthy
ReadRefused(s) ==
    \/ /\ ~TupleIntact(s) \/ vis[s].reserve # "none"
       /\ Sicken(s) /\ UNCHANGED job
    \/ /\ vis[s].marker = "ok" /\ vis[s].reserve = "none" /\ Due(s)
       /\ DeleteDue("read", s) /\ UNCHANGED <<mem, halt, reader>>

\* `pread` returns bytes and changes nothing, unless it is refused or fails.
Pread(s) ==
    /\ Readable(s)
    /\ \/ ReadRefused(s) /\ UNCHANGED failures
       \/ /\ TupleIntact(s) /\ ~Due(s) /\ vis[s].reserve = "none"
          /\ CanFail /\ Fail
          /\ Sicken(s) /\ UNCHANGED job
    /\ UNCHANGED <<disk, phase, ambiguousHalt, revoking, deadlines, worker,
                   now, crashes, foreign>>

\* A second claim condemns the session too.
ClaimReader(s) ==
    /\ Readable(s)
    /\ \/ ReadRefused(s)
       \/ /\ TupleIntact(s) /\ ~Due(s) /\ vis[s].reserve = "none"
          /\ IF reader[s] = "issued"
               THEN reader' = [reader EXCEPT ![s] = "claimed"] /\ UNCHANGED <<mem, halt>>
               ELSE Sicken(s)
          /\ UNCHANGED job
    /\ UNCHANGED <<disk, phase, ambiguousHalt, revoking, deadlines, worker, env>>

CloseReader(s) ==
    /\ Free /\ reader[s] # "none"
    /\ reader' = [reader EXCEPT ![s] = "none"]
    /\ UNCHANGED <<disk, ctl, mem, deadlines, worker, job, env>>

\* A replay that finds another manifest than it expected latches a halt.
RejectReplay(s) ==
    /\ Free /\ Ready /\ mem[s].known /\ reader[s] = "none"
    /\ Latch(s, FALSE)
    /\ UNCHANGED <<disk, phase, ambiguousHalt, revoking, mem, deadlines, worker, job, env>>

-----------------------------------------------------------------------------
Frames == {"prefix", "start", "data", "clean"}

Process == Acquire \/ Close \/ Exit \/ Crash \/ ForeignHalt \/ ForeignRevoke \/ Tick
Purge   == \/ Recover \/ Expire \/ WorkerStops \/ RetainNotDue \/ RecoverEnd
           \/ Revoke \/ UnlinkWal \/ UnlinkReserve \/ SyncUnlinked
           \/ UnlinkMarker \/ Forget \/ DeleteFails
           \/ \E s \in Sessions : RecoverOne(s)
Arming  == \/ CreateMarker \/ WriteMarker \/ SyncMarker
           \/ CreateWal \/ CreateReserve \/ AllocateReserve \/ SyncArmed
           \/ ArmCommit \/ ArmFails
           \/ \E s \in Sessions : Arm(s)
Writing == \/ ReleaseReserve \/ SyncReleased \/ Revalidate \/ AppendFrame \/ WriteFails
           \/ \E s \in Sessions :
                \/ ClaimWriter(s) \/ ClaimRuntime(s) \/ FsyncFails(s)
                \/ \E f \in Frames : Write(s, f)
                \/ WriteHalt(s) \/ ObserveHalt(s) \/ AckClean(s)
                \/ CloseWriter(s) \/ MarkClean(s)
Reading == \E s \in Sessions :
              IssueRead(s) \/ ClaimReader(s) \/ Pread(s) \/ CloseReader(s) \/ RejectReplay(s)

Next == Process \/ Purge \/ Arming \/ Writing \/ Reading
Spec == Init /\ [][Next]_vars

\* The thread that holds `_condition` goes on, and the worker, woken by its
\* timed wait, gets the lock.
JobStep == \/ RetainNotDue \/ RecoverEnd \/ Revoke \/ UnlinkWal \/ UnlinkReserve
           \/ SyncUnlinked \/ UnlinkMarker \/ Forget \/ AppendFrame
           \/ CreateMarker \/ WriteMarker \/ SyncMarker \/ CreateWal \/ CreateReserve
           \/ AllocateReserve \/ SyncArmed \/ ArmCommit
           \/ ReleaseReserve \/ SyncReleased \/ Revalidate
           \/ \E s \in Sessions : RecoverOne(s)
FairSpec == Spec /\ WF_vars(JobStep) /\ WF_vars(Expire)

-----------------------------------------------------------------------------
(* Properties *)

\* Whatever a crash leaves, a log and a reserve have their whole marker: neither
\* the order of creation nor the order of deletion ever leaves provider bytes
\* without the record of when they must go.
BytesAreBound ==
    \A s \in Sessions :
        (\/ vis[s].wal # "none" \/ dur[s].wal # "none"
         \/ vis[s].reserve # "none" \/ dur[s].reserve # "none")
            => vis[s].marker = "ok" /\ dur[s].marker = "ok"

\* Between two methods the capabilities agree with the disk: a healthy writer
\* has its three files and is watched by the worker, and no log is readable
\* while a writer may still extend it.
CapabilitiesMatchDisk ==
    Free => \A s \in Sessions :
        /\ mem[s].token /\ mem[s].healthy /\ ~halt.on
             => TupleIntact(s) /\ s \in deadlines
        /\ reader[s] # "none" /\ ~halt.on
             => ~(mem[s].token /\ mem[s].healthy /\ mem[s].terminal = "no")

\* Once any coordinator of the process has latched a halt, no provider byte is
\* written, except the one terminal of a session the halt is not about, whose
\* owner saw the halt at a check; and nothing follows a terminal.
HaltStopsBytes ==
    [][\A s \in Sessions :
        Len(log'[s]) > Len(log[s]) =>
            /\ mem[s].terminal = "no"
            /\ halt.on => /\ log'[s][Len(log'[s])] = "halted"
                          /\ mem[s].preobserved /\ halt.scope # s]_vars

\* A due log that the worker watches goes, whatever the other threads do, even
\* in a halted process, unless the worker or the coordinator ends.
DueIsDeleted ==
    \A s \in Sessions :
        (s \in deadlines /\ Due(s) /\ worker = "running" /\ phase = "ready")
            ~> (s \notin deadlines \/ worker # "running" \/ phase # "ready")

\* The claim of a test's name (test_retention.py:3131), that recovery handles every
\* crash window of the reserve: a crash that left whole markers does not block the
\* next start.
EveryReserveWindowRecovers ==
    phase = "down" /\ (\A s \in Sessions : vis[s].marker # "torn") => HealthyInventory
=============================================================================
