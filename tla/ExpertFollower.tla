--------------------------- MODULE ExpertFollower ---------------------------
(***************************************************************************)
(* The expert companion of one evidence session: the controller            *)
(* (inci_tennis_runtime/expert_controller.py) that turns every durable raw *)
(* record into one expert group and publishes it, the store                *)
(* (inci_tennis_io/expert_journal_store.py) that owns the companion files, *)
(* and the envelopes by which the bounded ingress hands parents and the    *)
(* evidence terminal to it (tennis_v1/ingress.py).                         *)
(*                                                                         *)
(* One owner thread calls everything; between its steps producers enqueue, *)
(* the session ends or loses its authorization, and the process may crash. *)
(* A step is a stretch between two effects on the disk.  Groups, states    *)
(* and cursors are counts; a directory entry created or unlinked but not   *)
(* yet fsynced is "unsynced" and a crash may undo it.                      *)
(***************************************************************************)
EXTENDS Naturals, Sequences, FiniteSets, SequencesExt

CONSTANTS MaxParents,   \* bound: raw records of the session
          Capacity,     \* slots of the ingress queue
          MaxCrashes    \* bound: crashes, those of a recovery included

ASSUME FollowerAssumption ==
    MaxParents \in Nat /\ Capacity \in Nat \ {0} /\ MaxCrashes \in Nat

VARIABLES
    raws,           \* raw records durable in the evidence journal
    waiting,        \* items queued in the ingress
    inputs,         \* "open", "closed", "fault" or "failed" (_runtime_failed)
    evidence_end,   \* reason of the evidence terminal, or "none"
    held,           \* the envelope the owner holds: "none", "parent", "terminal"
    authority,      \* session authorization: "live", "ended", "denied"
    files,          \* companion directory entries that exist
    unsynced,       \* entries whose last change is not fsynced
    frames,         \* frames of the companion journal after its manifest
    writer,         \* _Writer.state
    prewrite_capacity_denied,
    tail,           \* _Writer.tail: "none", "covered", "unseen"
    lifecycle,      \* _controller_lifecycle
    published,      \* group count of _published_cursor
    publication_epoch,
    pending,        \* lifecycle of the pending emergency, or "none"
    attempted,      \* a completion of it was refused before its reservation
    terminal,       \* _terminal is not None
    pc,             \* what the owner is doing
    crashes         \* crashes so far

ingress  == <<raws, waiting, inputs, evidence_end, held>>
disk     == <<files, unsynced, frames>>
store    == <<writer, prewrite_capacity_denied, tail>>
control  == <<lifecycle, published, publication_epoch, pending, attempted,
              terminal>>
vars == <<raws, waiting, inputs, evidence_end, held, authority, files,
          unsynced, frames, writer, prewrite_capacity_denied, tail, lifecycle,
          published, publication_epoch, pending, attempted, terminal, pc,
          crashes>>

Companion == {"marker", "reserve", "journal"}
Sessions  == {"reserve", "journal"}     \* the entries of sessions_fd
GroupFrames == {"group", "emergency"}
CleanReasons == {"operator_stop", "session_end"}
Reasons == CleanReasons \cup {"ingress_fault", "operator_halt"}

Lifecycles == {"CREATING", "ACTIVE", "EMERGENCY_PENDING", "TERMINAL",
               "HALTED_UNCLEAN", "DURABILITY_UNCERTAIN_HALTED", "NONE"}
Unclean == {"HALTED_UNCLEAN", "DURABILITY_UNCERTAIN_HALTED"}
PendingStates == {"none", "FRESH", "COMMIT_RESERVED", "PUBLISHED",
                  "PUBLISHED_PROOF_UNAVAILABLE_CLOSED",
                  "PUBLICATION_FAILED_CLOSED", "ABORTED_NONPUBLICATION",
                  "ABORT_FAILED_CLOSED"}
WriterStates == {"none", "ordinary_ready", "append_permit_claimed",
                 "receipt_pending", "ordinary_terminal_bound",
                 "emergency_bound", "closed", "poisoned"}

Groups == Cardinality({i \in DOMAIN frames : frames[i] \in GroupFrames})
Written(kind) == kind \in ToSet(frames)

Init ==
    /\ raws = 0 /\ waiting = 0 /\ inputs = "open" /\ evidence_end = "none"
    /\ held = "none" /\ authority = "live"
    /\ files = {} /\ unsynced = {} /\ frames = << >>
    /\ writer = "none" /\ prewrite_capacity_denied = FALSE /\ tail = "none"
    /\ lifecycle = "CREATING" /\ published = 0 /\ publication_epoch = 0
    /\ pending = "none" /\ attempted = FALSE /\ terminal = FALSE
    /\ pc = "create" /\ crashes = 0

-----------------------------------------------------------------------------
(* Gates of the store.                                                     *)

(* _live_gate: poll_session says the session goes on. *)
Live == authority = "live"

(* _creation_gate asks the coordinator as well, which retirement closes. *)
CreationGate == authority = "live"

(* _validate_writer: the state the call expects, then the live gate. *)
ValidWriter(state) == writer = state /\ Live

(* _terminal_gate, _terminal_material_gate: the session has ended exactly  *)
(* when the evidence terminal says session_end.                            *)
TerminalGate ==
    authority = IF evidence_end = "session_end" THEN "ended" ELSE "live"

(* _purge_names begins: descriptors are closed, then the files go. *)
Purging == "purge"

(* _abort_once: the writer is poisoned and its files are purged. *)
AbortOnce == writer' = "poisoned" /\ pc' = Purging

Fail(how) ==
    /\ lifecycle' = how /\ AbortOnce
    /\ UNCHANGED <<publication_epoch, terminal, prewrite_capacity_denied>>

(* A frame write that raises leaves nothing, a part or all of it. *)
Residue(kind) == frames' \in {frames, Append(frames, "torn"), Append(frames, kind)}

-----------------------------------------------------------------------------
(* create_expert_journal and create_expert_controller.                     *)

(* The next entry to create; each is fsynced before the next gate. *)
NextFile ==
    IF "marker" \notin files THEN "marker"
    ELSE IF "reserve" \notin files THEN "reserve" ELSE "journal"

CreateFile ==
    /\ pc = "create" /\ unsynced = {} /\ "journal" \notin files /\ CreationGate
    /\ files' = files \cup {NextFile}
    /\ unsynced' = {NextFile}
    /\ UNCHANGED <<ingress, authority, frames, store, control, pc, crashes>>

SyncFile ==
    /\ pc = "create" /\ unsynced # {}
    /\ unsynced' = {}
    /\ UNCHANGED <<ingress, authority, files, frames, store, control, pc, crashes>>

(* The last gate passes and the controller is bound to the ingress. *)
CreateController ==
    /\ pc = "create" /\ unsynced = {} /\ "journal" \in files /\ CreationGate
    /\ writer' = "ordinary_ready" /\ lifecycle' = "ACTIVE" /\ pc' = "idle"
    /\ UNCHANGED <<ingress, authority, disk, prewrite_capacity_denied, tail,
                   published, publication_epoch, pending, attempted, terminal,
                   crashes>>

(* A gate refuses, or a call fails: the files made so far are unlinked. *)
CreateFails ==
    /\ pc = "create"
    /\ lifecycle' = "NONE" /\ pc' = "clean_sessions"
    /\ files' = files \ Sessions
    /\ unsynced' = unsynced \cup (files \cap Sessions)
    /\ UNCHANGED <<ingress, authority, frames, store, published,
                   publication_epoch, pending, attempted, terminal, crashes>>

(* Past the last gate the writer exists: a failure of the controller, or    *)
(* of its binding to the ingress, aborts it, and its files are purged.     *)
ControllerFails ==
    /\ pc = "create" /\ unsynced = {} /\ "journal" \in files
    /\ lifecycle' = "NONE" /\ AbortOnce
    /\ UNCHANGED <<ingress, authority, disk, prewrite_capacity_denied, tail,
                   published, publication_epoch, pending, attempted, terminal,
                   crashes>>

(* An fsync that fails during this cleanup is ignored. *)
CleanSessions ==
    /\ pc = "clean_sessions"
    /\ files' = files \ {"marker"}
    /\ \E synced \in BOOLEAN :
        unsynced' = (IF synced THEN unsynced \ Sessions ELSE unsynced)
                        \cup (files \cap {"marker"})
    /\ pc' = "clean_markers"
    /\ UNCHANGED <<ingress, authority, frames, store, control, crashes>>

CleanMarkers ==
    /\ pc = "clean_markers"
    /\ unsynced' \in {unsynced, unsynced \ {"marker"}}
    /\ pc' = "gone"
    /\ UNCHANGED <<ingress, authority, files, frames, store, control, crashes>>

-----------------------------------------------------------------------------
(* The evidence side, as the owner sees it through drain_one_parent.       *)

Enqueue ==
    /\ inputs = "open" /\ evidence_end = "none" /\ waiting < Capacity
    /\ waiting' = waiting + 1
    /\ UNCHANGED <<raws, inputs, evidence_end, held, authority, disk, store,
                   control, pc, crashes>>

(* close_inputs, by the owner's close or by another thread; a producer's   *)
(* admission or receipt deadline passes.                                   *)
StopInputs ==
    /\ inputs = "open" /\ evidence_end = "none"
    /\ inputs' \in {"closed", "fault"}
    /\ UNCHANGED <<raws, waiting, evidence_end, held, authority, disk, store,
                   control, pc, crashes>>

AuthorityChanges ==
    /\ authority # "denied"
    /\ authority' \in IF Live THEN {"ended", "denied"} ELSE {"denied"}
    /\ UNCHANGED <<ingress, disk, store, control, pc, crashes>>

(* The owner is between two calls and may ask the ingress for more: while  *)
(* an emergency is pending it drains the ingress itself.                   *)
MayDrain ==
    /\ pc = "idle" /\ held = "none"
    /\ lifecycle \in {"ACTIVE", "EMERGENCY_PENDING"}
    /\ evidence_end = "none" /\ inputs # "failed"

DrainParent ==
    /\ MayDrain /\ waiting > 0 /\ raws < MaxParents /\ authority # "denied"
    /\ raws' = raws + 1 /\ waiting' = waiting - 1 /\ held' = "parent"
    /\ UNCHANGED <<inputs, evidence_end, authority, disk, store, control, pc,
                   crashes>>

(* The queue is empty: an ended session, a fault or closed inputs make the *)
(* owner write the evidence terminal.                                      *)
DrainTerminal ==
    /\ MayDrain /\ waiting = 0
    /\ \/ inputs = "fault" /\ evidence_end' = "ingress_fault"
       \/ inputs = "closed" /\ evidence_end' = "operator_stop"
       \/ inputs = "open" /\ authority = "ended" /\ evidence_end' = "session_end"
    /\ held' = "terminal"
    /\ UNCHANGED <<raws, waiting, inputs, authority, disk, store, control, pc,
                   crashes>>

(* close_external_halt_terminal: refused unless between drains, with an    *)
(* empty queue.                                                            *)
CloseExternalHalt ==
    /\ MayDrain /\ waiting = 0
    /\ evidence_end' = IF inputs = "fault" THEN "ingress_fault" ELSE "operator_halt"
    /\ held' = "terminal"
    /\ UNCHANGED <<raws, waiting, inputs, authority, disk, store, control, pc,
                   crashes>>

(* The drain raises (_runtime_failure), its raw record durable or not.     *)
(* process_one poisons an active controller.                               *)
DrainFails ==
    /\ MayDrain /\ raws < MaxParents
    /\ raws' \in IF waiting > 0 THEN {raws, raws + 1} ELSE {raws}
    /\ inputs' = "failed" /\ waiting' = 0
    /\ IF lifecycle = "ACTIVE"
       THEN Fail("HALTED_UNCLEAN") /\ UNCHANGED <<tail, published, pending, attempted>>
       ELSE UNCHANGED <<store, control, pc>>
    /\ UNCHANGED <<evidence_end, held, authority, disk, crashes>>

-----------------------------------------------------------------------------
(* process_durable_parent.                                                 *)

(* The envelope is consumed; then preparation, the append permit, or       *)
(* either of them failing.                                                 *)
TakeParent ==
    /\ pc = "idle" /\ held = "parent" /\ lifecycle = "ACTIVE"
    /\ held' = "none"
    /\ UNCHANGED <<raws, waiting, inputs, evidence_end, authority, disk, tail,
                   published, attempted, terminal, crashes>>

ClaimPermit ==
    /\ TakeParent /\ ValidWriter("ordinary_ready")
    /\ writer' = "append_permit_claimed" /\ pc' = "append"
    /\ UNCHANGED <<prewrite_capacity_denied, lifecycle, publication_epoch, pending>>

(* _issue_pending_durable_companion_emergency_v1 *)
PendingIssued ==
    /\ lifecycle' = "EMERGENCY_PENDING" /\ pending' = "FRESH"
    /\ publication_epoch' = publication_epoch + 1

(* issue_expert_append_permit finds the disk too full for the group and a  *)
(* terminal: nothing is written, and the emergency becomes pending.        *)
DenyCapacity ==
    /\ TakeParent /\ ValidWriter("ordinary_ready")
    /\ prewrite_capacity_denied' = TRUE
    /\ \/ PendingIssued /\ UNCHANGED <<writer, pc>>
       \/ /\ lifecycle' = "HALTED_UNCLEAN" /\ AbortOnce
          /\ UNCHANGED <<publication_epoch, pending>>

PrepareFails ==
    /\ TakeParent
    /\ lifecycle' = "HALTED_UNCLEAN" /\ AbortOnce
    /\ UNCHANGED <<prewrite_capacity_denied, publication_epoch, pending>>

(* The controller no longer takes parents: the call is refused. *)
RefuseParent ==
    /\ pc = "idle" /\ held = "parent" /\ lifecycle = "EMERGENCY_PENDING"
    /\ held' = "none"
    /\ UNCHANGED <<raws, waiting, inputs, evidence_end, authority, disk, store,
                   control, pc, crashes>>

(* append_expert_group *)
AppendGroup ==
    /\ pc = "append" /\ ValidWriter("append_permit_claimed")
    /\ frames' = Append(frames, "group")
    /\ writer' = "receipt_pending" /\ pc' = "acknowledge"
    /\ UNCHANGED <<ingress, authority, files, unsynced,
                   prewrite_capacity_denied, tail, control, crashes>>

(* Mutant: a failed append is taken for one that wrote nothing. *)
MutAppendFailsCleanly ==
    /\ pc = "append"
    /\ Residue("group")
    /\ writer' = "ordinary_ready" /\ pc' = "idle"
    /\ UNCHANGED <<ingress, authority, files, unsynced,
                   prewrite_capacity_denied, tail, control, crashes>>

AppendFails ==
    /\ pc = "append"
    /\ Residue("group")
    /\ Fail("DURABILITY_UNCERTAIN_HALTED")
    /\ UNCHANGED <<ingress, authority, files, unsynced, tail, published,
                   pending, attempted, crashes>>

(* acknowledge_expert_publication *)
StoreAcknowledges == ValidWriter("receipt_pending")

(* The new cursor is published; the caller's acknowledgement may still     *)
(* fail to be issued.                                                      *)
Publish ==
    /\ pc = "acknowledge" /\ StoreAcknowledges
    /\ published' = published + 1
    /\ publication_epoch' = publication_epoch + 1
    /\ \/ writer' = "ordinary_ready" /\ pc' = "idle" /\ UNCHANGED lifecycle
       \/ lifecycle' = "HALTED_UNCLEAN" /\ AbortOnce
    /\ UNCHANGED <<ingress, authority, disk, prewrite_capacity_denied, tail,
                   pending, attempted, terminal, crashes>>

AcknowledgeFails ==
    /\ pc = "acknowledge"
    /\ Fail("DURABILITY_UNCERTAIN_HALTED")
    /\ UNCHANGED <<ingress, authority, disk, tail, published, pending,
                   attempted, crashes>>

-----------------------------------------------------------------------------
(* process_evidence_terminal.                                              *)

(* The terminal path fails; once entered, the append is uncertain. *)
TerminalFails(how) ==
    /\ Fail(how)
    /\ UNCHANGED <<authority, files, unsynced, published, pending, attempted,
                   crashes>>

(* prove_expert_live_evidence_tail reads both journals: every raw record   *)
(* but at most the last has its group, and the groups are the cursor's.    *)
TailProven ==
    /\ writer = "ordinary_ready" /\ tail = "none"
    /\ Groups = published /\ raws - Groups \in {0, 1}
    /\ authority # "denied"

TakeTerminal ==
    /\ pc = "idle" /\ held = "terminal" /\ lifecycle = "ACTIVE"
    /\ held' = "none"

ProveTail ==
    /\ TakeTerminal /\ TailProven /\ raws = Groups
    /\ tail' = "covered" /\ pc' = "bind"
    /\ UNCHANGED <<raws, waiting, inputs, evidence_end, authority, disk,
                   writer, prewrite_capacity_denied, control, crashes>>

(* expert_unacknowledged_evidence_tail, or the proof fails. *)
TailNotProven ==
    /\ TakeTerminal
    /\ TerminalFails("HALTED_UNCLEAN")
    /\ UNCHANGED <<raws, waiting, inputs, evidence_end, frames, tail>>

(* _release_reserve *)
ReleaseReserve == files' = files \ {"reserve"} /\ UNCHANGED <<unsynced, frames>>

(* build_aligned_expert_terminal: the final cursor covers every raw record *)
TerminalAligned(final_cursor) == TerminalGate /\ final_cursor = raws

(* Then issue_expert_terminal_permit; an unlink or an fsync may fail. *)
BindTerminal ==
    /\ pc = "bind"
    /\ \/ /\ writer = "ordinary_ready" /\ TerminalAligned(published)
          /\ ReleaseReserve
          /\ writer' = "ordinary_terminal_bound" /\ pc' = "seal"
          /\ UNCHANGED <<ingress, authority, prewrite_capacity_denied, tail,
                         control, crashes>>
       \/ TerminalFails("HALTED_UNCLEAN") /\ UNCHANGED <<ingress, frames, tail>>

(* append_expert_terminal, up to its fsync *)
AppendTerminal ==
    /\ pc = "seal"
    /\ \/ /\ TerminalGate
          /\ frames' = Append(frames, "terminal") /\ pc' = "sealed"
          /\ UNCHANGED <<ingress, authority, files, unsynced, store, control, crashes>>
       \/ /\ Residue("terminal") /\ TerminalFails("DURABILITY_UNCERTAIN_HALTED")
          /\ UNCHANGED <<ingress, tail>>

(* The gate is asked once more, then the receipt is handed over. *)
Terminate ==
    /\ pc = "sealed"
    /\ \/ /\ TerminalGate
          /\ writer' = "closed" /\ lifecycle' = "TERMINAL" /\ terminal' = TRUE
          /\ pc' = "done"
          /\ UNCHANGED <<ingress, authority, disk, prewrite_capacity_denied,
                         tail, published, publication_epoch, pending,
                         attempted, crashes>>
       \/ \E how \in Unclean : TerminalFails(how) /\ UNCHANGED <<ingress, frames, tail>>

-----------------------------------------------------------------------------
(* The deferred emergency: complete_pending_emergency.                     *)

TakeEmergency ==
    /\ pc = "idle" /\ held = "terminal"
    /\ lifecycle = "EMERGENCY_PENDING" /\ pending = "FRESH"

(* A completion refused before its reservation may be retried. *)
RefuseCompletion ==
    /\ TakeEmergency
    /\ attempted' = TRUE
    /\ UNCHANGED <<ingress, authority, disk, store, lifecycle, published,
                   publication_epoch, pending, terminal, pc, crashes>>

(* The source-close claim is consumed and the terminal with it; the tail   *)
(* must hold exactly the denied parent.                                    *)
ReserveCompletion ==
    /\ TakeEmergency /\ TailProven /\ raws = Groups + 1
    /\ held' = "none" /\ tail' = "unseen"
    /\ pending' = "COMMIT_RESERVED" /\ pc' = "bind_emergency"
    /\ UNCHANGED <<raws, waiting, inputs, evidence_end, authority, disk,
                   writer, prewrite_capacity_denied, lifecycle, published,
                   publication_epoch, attempted, terminal, crashes>>

(* _converge_reserved_emergency_failure_close_v1 and the abort after it. *)
PublicationFails ==
    /\ pending' = "PUBLICATION_FAILED_CLOSED"
    /\ Fail("DURABILITY_UNCERTAIN_HALTED")
    /\ UNCHANGED <<authority, files, unsynced, tail, published, attempted, crashes>>

ReservationFails ==
    /\ TakeEmergency /\ held' = "none"
    /\ PublicationFails
    /\ UNCHANGED <<raws, waiting, inputs, evidence_end, frames>>

(* issue_expert_emergency_append_permit *)
BindEmergency ==
    /\ pc = "bind_emergency"
    /\ \/ /\ writer = "ordinary_ready" /\ TerminalAligned(published + 1)
          /\ prewrite_capacity_denied /\ tail = "unseen" /\ ReleaseReserve
          /\ writer' = "emergency_bound" /\ pc' = "emergency_group"
          /\ UNCHANGED <<ingress, authority, prewrite_capacity_denied, tail,
                         control, crashes>>
       \/ PublicationFails /\ UNCHANGED <<ingress, frames>>

(* append_expert_emergency_group_and_terminal: each frame is fsynced       *)
(* before the gate is asked again.                                         *)
AppendEmergency(from, kind, to) ==
    /\ pc = from
    /\ \/ /\ TerminalGate
          /\ frames' = Append(frames, kind) /\ pc' = to
          /\ UNCHANGED <<ingress, authority, files, unsynced, store, control, crashes>>
       \/ Residue(kind) /\ PublicationFails /\ UNCHANGED ingress

AppendEmergencyGroup == AppendEmergency("emergency_group", "emergency", "emergency_seal")
AppendEmergencyTerminal == AppendEmergency("emergency_seal", "terminal", "commit")

(* Mutant: the emergency is published without its parent. *)
MutCommitForgetsParent ==
    /\ pc = "commit" /\ TerminalGate
    /\ terminal' = TRUE /\ lifecycle' = "TERMINAL"
    /\ pending' = "PUBLISHED" /\ writer' = "closed" /\ pc' = "done"
    /\ UNCHANGED <<ingress, authority, disk, prewrite_capacity_denied, tail,
                   published, publication_epoch, attempted, crashes>>

(* The causal proof is committed and the emergency published; or its proof *)
(* cannot be issued, and the published companion is purged.                *)
CommitEmergency ==
    /\ pc = "commit"
    /\ \/ /\ TerminalGate
          /\ published' = published + 1 /\ terminal' = TRUE
          /\ \/ /\ lifecycle' = "TERMINAL" /\ pending' = "PUBLISHED"
                /\ writer' = "closed" /\ pc' = "done"
             \/ /\ lifecycle' = "DURABILITY_UNCERTAIN_HALTED" /\ AbortOnce
                /\ pending' = "PUBLISHED_PROOF_UNAVAILABLE_CLOSED"
          /\ UNCHANGED <<ingress, authority, disk, prewrite_capacity_denied,
                         tail, publication_epoch, attempted, crashes>>
       \/ PublicationFails /\ UNCHANGED <<ingress, frames>>

(* abort_pending_durable_companion_emergency_v1, called by process_one, by *)
(* close or by the owner.  A terminal bound to a refused completion is     *)
(* consumed.                                                               *)
AbortPending ==
    /\ pc = "idle" /\ lifecycle = "EMERGENCY_PENDING" /\ pending = "FRESH"
    /\ \/ pending' = "ABORTED_NONPUBLICATION" /\ Fail("HALTED_UNCLEAN")
       \/ pending' = "ABORT_FAILED_CLOSED" /\ Fail("DURABILITY_UNCERTAIN_HALTED")
    /\ held' = IF attempted THEN "none" ELSE held
    /\ UNCHANGED <<raws, waiting, inputs, evidence_end, authority, disk, tail,
                   published, attempted, crashes>>

-----------------------------------------------------------------------------
(* _purge_names, crash and recovery.                                       *)

(* Mutant: the reserve is left behind. *)
MutPurgeKeepsReserve ==
    /\ pc = Purging
    /\ files' = files \ {"journal"}
    /\ unsynced' = unsynced \cup (files \cap {"journal"})
    /\ pc' = "purge_sync"
    /\ UNCHANGED <<ingress, authority, frames, store, control, crashes>>

PurgeSessions ==
    /\ pc = Purging
    /\ files' = files \ Sessions
    /\ unsynced' = unsynced \cup (files \cap Sessions)
    /\ pc' = "purge_sync"
    /\ UNCHANGED <<ingress, authority, frames, store, control, crashes>>

PurgeMarker ==
    /\ pc = "purge_sync"
    /\ files' = files \ {"marker"}
    /\ unsynced' = (unsynced \ Sessions) \cup (files \cap {"marker"})
    /\ pc' = "purge_marker"
    /\ UNCHANGED <<ingress, authority, frames, store, control, crashes>>

PurgeDone ==
    /\ pc = "purge_marker"
    /\ unsynced' = unsynced \ {"marker"} /\ pc' = "gone"
    /\ UNCHANGED <<ingress, authority, files, frames, store, control, crashes>>

(* An unlink or an fsync raises: _abort_once swallows it, and this process *)
(* never tries again.                                                      *)
PurgeFails ==
    /\ pc \in {Purging, "purge_sync", "purge_marker", "clean_sessions"}
    /\ pc' = "purge_failed"
    /\ \E gone \in SUBSET IF pc = Purging THEN files \cap Sessions ELSE {} :
        files' = files \ gone /\ unsynced' = unsynced \cup gone
    /\ UNCHANGED <<ingress, authority, frames, store, control, crashes>>

(* The process dies; each unsynced entry is there or not afterwards. *)
Crash ==
    /\ crashes < MaxCrashes
    /\ crashes' = crashes + 1
    /\ \E kept \in SUBSET unsynced : files' = (files \ unsynced) \cup kept
    /\ unsynced' = {}
    /\ waiting' = 0 /\ inputs' = "failed" /\ held' = "none"
    /\ writer' = "none" /\ tail' = "none" /\ prewrite_capacity_denied' = FALSE
    /\ lifecycle' = "NONE" /\ pending' = "none" /\ attempted' = FALSE
    /\ terminal' = FALSE /\ pc' = "down"
    /\ UNCHANGED <<raws, evidence_end, authority, frames, published,
                   publication_epoch>>

(* recover_and_purge_expert_journals adopts nothing: whatever the marker,  *)
(* the evidence and the frames say, every companion entry is purged.       *)
Recover ==
    /\ pc = "down"
    /\ pc' = IF files = {} THEN "gone" ELSE Purging
    /\ UNCHANGED <<ingress, authority, disk, store, control, crashes>>

Create  == CreateFile \/ SyncFile \/ CreateController \/ CreateFails \/ ControllerFails
Cleanup == CleanSessions \/ CleanMarkers
Parent  == ClaimPermit \/ DenyCapacity \/ PrepareFails \/ RefuseParent
           \/ AppendGroup \/ AppendFails \/ Publish \/ AcknowledgeFails
Ordinary == ProveTail \/ TailNotProven \/ BindTerminal \/ AppendTerminal \/ Terminate
Emergency == RefuseCompletion \/ ReserveCompletion \/ ReservationFails
             \/ BindEmergency \/ AppendEmergencyGroup
             \/ AppendEmergencyTerminal \/ CommitEmergency \/ AbortPending
Purge   == PurgeSessions \/ PurgeMarker \/ PurgeDone \/ PurgeFails
Evidence == Enqueue \/ StopInputs \/ DrainParent \/ DrainTerminal
            \/ CloseExternalHalt \/ DrainFails

Next == \/ Create \/ Cleanup \/ Evidence \/ Parent \/ Ordinary \/ Emergency
        \/ Purge \/ AuthorityChanges \/ Crash \/ Recover

(* A failing call and a recovery run on by themselves. *)
Spec == Init /\ [][Next]_vars /\ WF_vars(Cleanup \/ Purge) /\ WF_vars(Recover)

-----------------------------------------------------------------------------
(* Properties.                                                             *)

TypeOK ==
    /\ raws \in 0 .. MaxParents /\ waiting \in 0 .. Capacity
    /\ inputs \in {"open", "closed", "fault", "failed"}
    /\ evidence_end \in Reasons \cup {"none"}
    /\ held \in {"none", "parent", "terminal"}
    /\ authority \in {"live", "ended", "denied"}
    /\ files \subseteq Companion /\ unsynced \subseteq Companion
    /\ frames \in Seq(GroupFrames \cup {"terminal", "torn"})
    /\ writer \in WriterStates /\ tail \in {"none", "covered", "unseen"}
    /\ lifecycle \in Lifecycles /\ pending \in PendingStates
    /\ published \in 0 .. MaxParents
    /\ publication_epoch \in 0 .. MaxParents + 1
    /\ {prewrite_capacity_denied, attempted, terminal} \subseteq BOOLEAN

(* While the controller may be relied on, its cursor is the journal's, at  *)
(* most one group behind in the middle of a publication.                   *)
CursorIsDurable ==
    lifecycle \in {"ACTIVE", "EMERGENCY_PENDING", "TERMINAL"} =>
        /\ "journal" \in files /\ "journal" \notin unsynced
        /\ published = Groups \/ (published + 1 = Groups /\ pc # "idle")

(* A terminal in the companion journal covers every raw record of an ended *)
(* evidence session, whatever raced the end: drained parents, a denied     *)
(* capacity, an expiring session.                                          *)
TerminalCoversEvidence ==
    Written("terminal") => evidence_end # "none" /\ Groups = raws

(* The reserve is spent by a terminal only, and an emergency group is the  *)
(* last one, written for a parent whose ordinary group was denied.         *)
EmergencyIsLast ==
    /\ \A i \in DOMAIN frames : frames[i] = "emergency" =>
           \A j \in i + 1 .. Len(frames) : frames[j] \in {"terminal", "torn"}
    /\ lifecycle \in {"ACTIVE", "EMERGENCY_PENDING"} /\ "reserve" \notin files
           => evidence_end # "none" /\ pc # "idle"
    /\ terminal /\ prewrite_capacity_denied => Written("emergency")

CompanionFollowsEvidence ==
    TypeOK /\ CursorIsDurable /\ TerminalCoversEvidence /\ EmergencyIsLast

(* A companion that did not complete (its controller halted, or was never   *)
(* bound to the writer) leaves no file behind, in its process or, after a  *)
(* crash, once the next one has recovered; only an unlink or an fsync that *)
(* raises stops that.                                                      *)
FailureErases ==
    lifecycle \in Unclean \/ writer = "poisoned" \/ pc = "down" ~>
        \/ files = {} /\ unsynced = {}
        \/ pc = "purge_failed"

(* ExpertFollower implements CompanionPromise. *)
Promise == INSTANCE CompanionPromise WITH
    parents <- raws, over <- evidence_end # "none",
    outcome <- IF lifecycle = "TERMINAL" THEN "complete"
               ELSE IF lifecycle \in Unclean \cup {"NONE"} THEN "void" ELSE "open"

(* Its owner sees nothing but what the companion promises. *)
FollowsPromise == Promise!Spec
=============================================================================
