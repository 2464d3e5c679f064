---------------------------- MODULE EventRuntime ----------------------------
(***************************************************************************)
(* One Tennis v1 session: EventRuntime (tennis_v1/sequencer.py) driving    *)
(* JournalWriter (tennis_v1/wal.py) through a retention write capability.  *)
(*                                                                         *)
(* The runtime makes a raw record durable before it reduces it, makes the  *)
(* derived record durable before it adopts the new state, and ends the     *)
(* journal with exactly one terminal record.  Between any two of its       *)
(* steps the provider gate may close, another session may latch the        *)
(* process-wide retention halt, another thread may close the retention     *)
(* coordinator, a write may fail half way, or the process may die.         *)
(***************************************************************************)
EXTENDS FoundationReducer

CONSTANTS MaxRaw,       \* bound: raw records one session may hold
          MaxEpoch      \* bound: connection epochs are 0 .. MaxEpoch

ASSUME RuntimeAssumption == MaxRaw \in Nat /\ MaxEpoch \in Nat

VARIABLES
    wal,        \* the complete frames in the file, in order
    tail,       \* what follows them: "none", "torn" or "corrupt" bytes
    next_seq,   \* JournalWriter: sequence number of the next frame,
    records,    \*   frames written,
    raws,       \*   raw records written,
    deriveds,   \*   derived records written,
    latest_raw, \*   sequence number of the latest raw record, 0 if none,
    w_closed,   \*   a terminal was written and the capability closed,
    w_poisoned, \*   the bytes of the file are uncertain
    state,      \* EventRuntime._state
    trace,      \* EventRuntime._trace
    poisoned,   \* EventRuntime._poisoned
    closed,     \* EventRuntime._closed
    gate,       \* the provider gate's verdict on access: "open" or "denied"
    over,       \* the session window has ended (session_end_utc passed)
    ghalt,      \* process-wide halt: "none", "other" session's, "own" or ambiguous
    retired,    \* RetentionCoordinator.close has begun
    pc,         \* where the owner thread is; "idle" between two calls
    captured,   \* the input of the ingest under way
    why,        \* reason of the terminal under way
    denied,     \* history: some authorization raised ProviderGateError
    marked      \* RetentionCoordinator.mark_clean_terminal succeeded

file == <<wal, tail>>
counts == <<next_seq, records, raws, deriveds, latest_raw>>
writer == <<next_seq, records, raws, deriveds, latest_raw, w_closed, w_poisoned>>
env  == <<gate, over, ghalt, retired>>
rt   == <<state, trace, poisoned, closed>>
vars == <<wal, tail, next_seq, records, raws, deriveds, latest_raw, w_closed,
          w_poisoned, state, trace, poisoned, closed, gate, over, ghalt,
          retired, pc, captured, why, denied, marked>>

Captures == [source : Sources, epoch : 0 .. MaxEpoch]
CleanReasons == {"operator_stop", "session_end"}
OwnerHalts == {"operator_halt", "ingress_backpressure", "ingress_owner_unresponsive"}
HaltedReasons ==
    OwnerHalts \cup {"initialization_failure", "capture_contract_violation",
        "provider_gate_denied", "retention_global_halt", "disk_low",
        "reducer_exception", "derived_validation_failure", "trace_exception"}
NoReason == "none"
Busy == {"boot", "init", "authorize", "append_raw", "transform",
         "append_derived", "settle", "halting", "authorize_close",
         "close_clean", "ack", "mark"}

Init ==
    /\ wal = << >> /\ tail = "none"
    /\ next_seq = 1 /\ records = 0 /\ raws = 0 /\ deriveds = 0 /\ latest_raw = 0
    /\ w_closed = FALSE /\ w_poisoned = FALSE
    /\ state = initial_state /\ trace = initial_trace
    /\ poisoned = FALSE /\ closed = FALSE
    /\ gate = "open" /\ over = FALSE /\ ghalt = "none" /\ retired = FALSE
    /\ pc = "boot"
    /\ captured \in Captures
    /\ why = NoReason /\ denied = FALSE /\ marked = FALSE

-----------------------------------------------------------------------------
(* The journal writer.                                                     *)

(* Mutant: the terminal binds the initial trace, not the current one. *)
MutStaleTrace(clean, reason) ==
    [kind |-> "HALT", seq |-> next_seq, clean |-> clean,
     reason |-> reason, trace |-> initial_trace, state |-> state,
     records |-> records, raws |-> raws,
     deriveds |-> deriveds, last_applied |-> state.last_applied]

(* The terminal record _close builds: its payload binds the witnesses of   *)
(* the runtime and the writer's counts.                                    *)
Terminal(clean, reason) ==
    [kind |-> "HALT", seq |-> next_seq, clean |-> clean,
     reason |-> reason, trace |-> trace, state |-> state,
     records |-> records, raws |-> raws,
     deriveds |-> deriveds, last_applied |-> state.last_applied]

(* _terminal_payload: a clean terminal must have applied the latest raw.   *)
TerminalValid(clean) ==
    IF clean THEN state.last_applied = latest_raw
             ELSE state.last_applied <= latest_raw

RawInFlight == Raw(latest_raw, captured)

(* The record the step at pc is about to make durable. *)
Pending ==
    CASE pc = "boot"           -> Start
      [] pc = "append_raw"     -> Raw(next_seq, captured)
      [] pc = "append_derived" -> Derived(next_seq, RawInFlight)
      [] pc = "halting"        -> Terminal(FALSE, why)
      [] pc = "close_clean"    -> Terminal(TRUE, why)

Writing == {"boot", "append_raw", "append_derived", "halting", "close_clean"}

(* _require_access_operation, with and without the session window. *)
GateOpen   == gate = "open" /\ ~over
GateCloses == gate = "open"

(* The retention checks that precede every byte of a frame; a halted       *)
(* terminal does not ask the gate, a clean one ignores the session window. *)
WriteAuthorized ==
    /\ ghalt = "none" /\ ~retired
    /\ CASE pc = "halting"     -> TRUE
         [] pc = "close_clean" -> GateCloses
         [] OTHER              -> GateOpen

(* Mutant: every frame that is not raw is counted as derived. *)
MutCountsAllAsDerived(rec) ==
    /\ wal' = Append(wal, rec) /\ UNCHANGED tail
    /\ next_seq' = next_seq + 1 /\ records' = records + 1
    /\ raws' = IF rec.kind = "RAW" THEN raws + 1 ELSE raws
    /\ deriveds' = IF rec.kind # "RAW" THEN deriveds + 1 ELSE deriveds
    /\ latest_raw' = IF rec.kind = "RAW" THEN rec.seq ELSE latest_raw
    /\ UNCHANGED <<w_closed, w_poisoned>>

(* _write_encoded_event when the frame and its fsync succeed. *)
WriteOk(rec) ==
    /\ wal' = Append(wal, rec) /\ UNCHANGED tail
    /\ next_seq' = next_seq + 1 /\ records' = records + 1
    /\ raws' = IF rec.kind = "RAW" THEN raws + 1 ELSE raws
    /\ deriveds' = IF rec.kind = "DERIVED" THEN deriveds + 1 ELSE deriveds
    /\ latest_raw' = IF rec.kind = "RAW" THEN rec.seq ELSE latest_raw
    /\ UNCHANGED <<w_closed, w_poisoned>>

(* What an interrupted write or fsync leaves in the file: nothing, a       *)
(* strict prefix of the frame, a frame with a damaged body, all of it.     *)
Residue(rec) ==
    \/ UNCHANGED file
    \/ wal' = wal /\ tail' \in {"torn", "corrupt"}
    \/ wal' = Append(wal, rec) /\ UNCHANGED tail

(* The sequence number of a frame that may be in the file is spent. *)
WritePoisoned ==
    /\ next_seq' = next_seq + 1 /\ w_poisoned' = TRUE
    /\ UNCHANGED <<records, raws, deriveds, latest_raw, w_closed>>

(* _write_encoded_event when anything but the capacity check raises: the   *)
(* retention checks refuse the frame, or the write itself fails and        *)
(* latches the halt of this session.  Either way the writer is poisoned.   *)
WriteFailed(rec) ==
    /\ \/ ~WriteAuthorized /\ UNCHANGED <<file, ghalt>>
       \/ WriteAuthorized /\ Residue(rec) /\ ghalt' = "own"
    /\ WritePoisoned

Poison == poisoned' = TRUE /\ closed' = TRUE /\ UNCHANGED <<state, trace>>

(* JournalWriter.create: the file prefix and SESSION_START. *)
Create ==
    /\ pc = "boot"
    /\ \/ /\ WriteAuthorized /\ WriteOk(Start) /\ pc' = "init"
          /\ UNCHANGED <<rt, env>>
       \/ /\ WriteFailed(Start) /\ pc' = "down"
          /\ UNCHANGED <<rt, gate, over, retired>>
    /\ UNCHANGED <<captured, why, denied, marked>>

-----------------------------------------------------------------------------
(* Halting.                                                                *)

Raise(reason) ==
    /\ pc' = "halting" /\ why' = reason
    /\ UNCHANGED <<file, writer, rt, env, captured, marked>>

(* Mutant: a denied gate only refuses the call. *)
MutDenialNotHalted ==
    /\ denied' = TRUE /\ pc' = "idle"
    /\ UNCHANGED <<file, writer, rt, env, captured, why, marked>>

(* A gate operation raised ProviderGateError: _gate_denied. *)
GateDenied == denied' = TRUE /\ Raise("provider_gate_denied")

(* JournalWriter._close after the terminal is durable: the capability is   *)
(* closed, and a failure of that close poisons writer and runtime.         *)
CloseWriter ==
    \E fails \in BOOLEAN :
        /\ w_closed' = TRUE /\ w_poisoned' = fails
        /\ poisoned' = fails /\ closed' = TRUE /\ UNCHANGED <<state, trace>>

(* A halted terminal reaches the file, then the writer closes. *)
HaltWritten(reason) ==
    /\ TerminalValid(FALSE)
    /\ wal' = Append(wal, Terminal(FALSE, reason)) /\ UNCHANGED tail
    /\ next_seq' = next_seq + 1 /\ records' = records + 1
    /\ UNCHANGED <<raws, deriveds, latest_raw>>
    /\ CloseWriter

HaltWriteFails(reason) ==
    /\ Residue(Terminal(FALSE, reason)) /\ ghalt' = "own"
    /\ WritePoisoned
    /\ Poison

(* Mutant: its own halt, seen before the call, leaves the runtime open. *)
MutHaltLeavesOpen ==
    /\ ghalt = "own" /\ pc' = "idle"
    /\ UNCHANGED <<file, writer, rt, env, captured, why, denied, marked>>

(* _attempt_preobserved_global_halt: a halt that another session latched   *)
(* still lets this one write its terminal; its own or an ambiguous halt,   *)
(* or a retired coordinator, closes the runtime without one.               *)
PreobservedGlobalHalt ==
    /\ ghalt # "none"
    /\ IF ghalt = "other" /\ ~retired
       THEN \/ HaltWritten("retention_global_halt") /\ UNCHANGED ghalt
            \/ HaltWriteFails("retention_global_halt")
       ELSE /\ closed' = TRUE
            /\ UNCHANGED <<file, writer, state, trace, poisoned, ghalt>>
    /\ pc' = "idle"
    /\ UNCHANGED <<gate, over, retired, captured, why, denied, marked>>

(* The coordinator is retired: RetentionError leaves the call as it is.    *)
(* A constructor that fails so still marks the runtime closed.             *)
Escapes ==
    /\ ghalt = "none" /\ retired
    /\ pc' = "idle"
    /\ closed' = (closed \/ why = "initialization_failure")
    /\ UNCHANGED <<file, writer, state, trace, poisoned, env, captured, why,
                   denied, marked>>

Coordinated == ghalt = "none" /\ ~retired

(* _attempt_halt.  A global halt latched after the coordinator was asked   *)
(* makes the write refuse and poisons the runtime.                         *)
AttemptHalt ==
    /\ pc = "halting"
    /\ \/ PreobservedGlobalHalt
       \/ Escapes
       \/ /\ Coordinated
          /\ \/ HaltWritten(why) /\ UNCHANGED ghalt
             \/ HaltWriteFails(why)
             \/ /\ ghalt' = "other" /\ UNCHANGED file
                /\ WritePoisoned
                /\ Poison
          /\ pc' = "idle"
          /\ UNCHANGED <<gate, over, retired, captured, why, denied, marked>>

-----------------------------------------------------------------------------
(* Construction of the runtime.                                            *)

ClaimRuntime ==
    /\ pc = "init"
    /\ IF Coordinated
       THEN pc' = "authorize" /\ UNCHANGED <<w_poisoned, closed, ghalt>>
       ELSE /\ pc' = "idle" /\ closed' = TRUE
            /\ w_poisoned' = TRUE
            /\ ghalt' = IF ghalt = "none" THEN "own" ELSE ghalt
    /\ UNCHANGED <<file, counts, w_closed, state, trace, poisoned, gate, over,
                   retired, captured, why, denied, marked>>

AuthorizeSession ==
    /\ pc = "authorize"
    /\ \/ PreobservedGlobalHalt
       \/ /\ ghalt = "none" /\ (retired \/ ~GateOpen)
          /\ denied' = (denied \/ ~retired)
          /\ Raise("initialization_failure")
       \/ /\ Coordinated /\ GateOpen /\ pc' = "idle"
          /\ UNCHANGED <<file, writer, rt, env, captured, why, denied, marked>>

-----------------------------------------------------------------------------
(* EventRuntime.ingest, step by step.                                      *)

Healthy == ~poisoned /\ ~closed /\ ~w_poisoned
Callable == pc = "idle" /\ Healthy

Advance(next) ==
    /\ pc' = next
    /\ UNCHANGED <<rt, env, captured, why, denied, marked>>

(* Authorization of the input; valid is what validate_captured_input and   *)
(* the retention-deadline comparison say of it.                            *)
Ingest(c, valid) ==
    /\ Callable /\ raws < MaxRaw
    /\ \/ PreobservedGlobalHalt
       \/ Coordinated /\ ~GateOpen /\ GateDenied
       \/ /\ Coordinated /\ GateOpen /\ ~valid
          /\ Raise("capture_contract_violation") /\ UNCHANGED denied
       \/ /\ Coordinated /\ GateOpen /\ valid
          /\ captured' = c /\ pc' = "append_raw"
          /\ UNCHANGED <<file, writer, rt, env, why, denied, marked>>

(* Mutant: the caller of a disk-low append is told to retry. *)
MutDiskLowRetries ==
    /\ Coordinated /\ WriteAuthorized /\ pc' = "idle"
    /\ UNCHANGED <<file, writer, rt, env, captured, why, denied, marked>>

(* Mutant: a failed append is reported but poisons nothing. *)
MutFailedWriteRetries ==
    /\ Coordinated /\ Residue(Pending) /\ pc' = "idle"
    /\ UNCHANGED <<writer, rt, env, captured, why, denied, marked>>

DiskLow == Coordinated /\ WriteAuthorized /\ Raise("disk_low") /\ UNCHANGED denied

WritePoisons ==
    /\ Coordinated /\ WriteFailed(Pending) /\ Poison /\ pc' = "idle"
    /\ UNCHANGED <<gate, over, retired, captured, why, denied, marked>>

AppendRaw ==
    /\ pc = "append_raw"
    /\ \/ PreobservedGlobalHalt
       \/ Escapes
       \/ WriteAuthorized /\ WriteOk(Pending) /\ Advance("transform")
       \/ DiskLow
       \/ WritePoisons

(* Mutant: the new state is adopted before its derived record is durable. *)
MutReducesTooEarly ==
    /\ pc = "transform"
    /\ Coordinated /\ GateOpen /\ Reducible(state, RawInFlight)
    /\ pc' = "append_derived" /\ state' = reduce_event(state, RawInFlight)
    /\ UNCHANGED <<file, writer, trace, poisoned, closed, env, captured, why,
                   denied, marked>>

(* In the third block of ingest every other exception becomes a halt. *)
Transform ==
    /\ pc = "transform"
    /\ \/ PreobservedGlobalHalt
       \/ Coordinated /\ ~GateOpen /\ GateDenied
       \/ /\ ghalt = "none"
          /\ retired \/ (GateOpen /\ ~Reducible(state, RawInFlight))
          /\ Raise("reducer_exception") /\ UNCHANGED denied
       \/ /\ Coordinated /\ GateOpen /\ Reducible(state, RawInFlight)
          /\ Advance("append_derived") /\ UNCHANGED <<file, writer>>

AppendDerived ==
    /\ pc = "append_derived"
    /\ \/ PreobservedGlobalHalt
       \/ Coordinated /\ ~GateOpen /\ GateDenied
       \/ /\ ghalt = "none" /\ retired
          /\ Raise("derived_validation_failure") /\ UNCHANGED denied
       \/ WriteAuthorized /\ WriteOk(Pending) /\ Advance("settle")
       \/ DiskLow
       \/ WritePoisons

(* The last checks, then the new state and trace become the runtime's; a       *)
(* next_trace that raises leaves both derived record and old state.           *)
Settle ==
    /\ pc = "settle"
    /\ \/ PreobservedGlobalHalt
       \/ Coordinated /\ ~GateOpen /\ GateDenied
       \/ /\ ghalt = "none" /\ retired
          /\ Raise("derived_validation_failure") /\ UNCHANGED denied
       \/ Coordinated /\ GateOpen /\ Raise("trace_exception") /\ UNCHANGED denied
       \/ /\ Coordinated /\ GateOpen /\ pc' = "idle"
          /\ LET st == reduce_event(state, RawInFlight)
             IN  /\ state' = st
                 /\ trace' = next_trace(trace, RawInFlight,
                               <<Derived(latest_raw + 1, RawInFlight)>>, st)
          /\ UNCHANGED <<file, writer, poisoned, closed, env, captured, why,
                         denied, marked>>

-----------------------------------------------------------------------------
(* Ending the session.                                                     *)

(* close_halted, close_ingress_backpressure, close_ingress_owner_unresponsive *)
CloseHalted(reason) == Callable /\ Raise(reason) /\ UNCHANGED denied

(* poll_entitlement, check_ingress_session_end: ask the gate whether the   *)
(* session is over.  A poll that says no changes nothing.                  *)
PollEntitlement ==
    /\ Callable
    /\ \/ PreobservedGlobalHalt
       \/ Coordinated /\ ~GateCloses /\ GateDenied
       \/ /\ Coordinated /\ GateCloses /\ over
          /\ pc' = "authorize_close" /\ why' = "session_end"
          /\ UNCHANGED <<file, writer, rt, env, captured, denied, marked>>

(* close_ingress_session_end while the session is not over: poisoned. *)
CloseSessionEndEarly ==
    /\ Callable /\ Coordinated /\ GateOpen /\ Poison
    /\ UNCHANGED <<file, writer, env, pc, captured, why, denied, marked>>

CloseClean ==
    /\ Callable /\ pc' = "authorize_close" /\ why' = "operator_stop"
    /\ UNCHANGED <<file, writer, rt, env, captured, denied, marked>>

(* _close_clean_internal, up to the call of the writer. *)
AuthorizeClose ==
    /\ pc = "authorize_close"
    /\ \/ PreobservedGlobalHalt
       \/ Escapes
       \/ Coordinated /\ ~GateCloses /\ GateDenied
       \/ Coordinated /\ GateCloses /\ Advance("close_clean")
                      /\ UNCHANGED <<file, writer>>

WriteClean ==
    /\ pc = "close_clean"
    /\ TerminalValid(TRUE)
    /\ \/ WriteAuthorized /\ WriteOk(Pending) /\ Advance("ack")
       \/ /\ WriteFailed(Pending) /\ Poison /\ pc' = "idle"
          /\ UNCHANGED <<gate, over, retired, captured, why, denied, marked>>

(* The retention layer acknowledges the clean terminal, then the writer    *)
(* closes.  An acknowledgement that fails closes and poisons both.         *)
AckClean ==
    /\ pc = "ack"
    /\ \/ /\ Coordinated /\ CloseWriter /\ UNCHANGED counts
          /\ pc' = IF w_poisoned' THEN "idle" ELSE "mark"
          /\ UNCHANGED ghalt
       \/ /\ w_closed' = TRUE /\ w_poisoned' = TRUE /\ UNCHANGED counts
          /\ Poison /\ pc' = "idle"
          /\ ghalt' = IF ghalt = "none" THEN "own" ELSE ghalt
    /\ UNCHANGED <<file, gate, over, retired, captured, why, denied, marked>>

MarkClean ==
    /\ pc = "mark" /\ pc' = "idle"
    /\ \/ Coordinated /\ marked' = TRUE /\ UNCHANGED <<poisoned, ghalt>>
       \/ /\ poisoned' = TRUE /\ UNCHANGED marked
          /\ ghalt' = IF Coordinated THEN "own" ELSE ghalt
    /\ UNCHANGED <<file, writer, state, trace, closed, gate, over, retired, captured,
                   why, denied>>

-----------------------------------------------------------------------------
(* The environment.                                                        *)

(* The gate samples a clock, credentials and evidence at every call: a     *)
(* denial may be transient (clock_rollback, a missing credential).         *)
GateChanges ==
    /\ gate' = IF gate = "open" THEN "denied" ELSE "open"
    /\ UNCHANGED <<file, writer, rt, over, ghalt, retired, pc, captured, why, denied, marked>>

SessionEnds ==
    /\ ~over /\ over' = TRUE
    /\ UNCHANGED <<file, writer, rt, gate, ghalt, retired, pc, captured, why, denied, marked>>

LatchGlobalHalt ==
    /\ ghalt = "none" /\ ghalt' \in {"other", "own"}
    /\ UNCHANGED <<file, writer, rt, gate, over, retired, pc, captured, why, denied, marked>>

RetireCoordinator ==
    /\ ~retired /\ retired' = TRUE
    /\ UNCHANGED <<file, writer, rt, gate, over, ghalt, pc, captured, why, denied, marked>>

(* The process dies; a write under way leaves a residue. *)
Crash ==
    /\ pc # "down" /\ pc' = "down"
    /\ IF pc \in Writing THEN Residue(Pending) ELSE UNCHANGED file
    /\ UNCHANGED <<writer, rt, env, captured, why, denied, marked>>

OwnerStep ==
    \/ Create \/ ClaimRuntime \/ AuthorizeSession
    \/ AppendRaw \/ Transform \/ AppendDerived \/ Settle
    \/ AttemptHalt \/ AuthorizeClose \/ WriteClean \/ AckClean \/ MarkClean

Call ==
    \/ \E c \in Captures, valid \in BOOLEAN : Ingest(c, valid)
    \/ \E reason \in OwnerHalts : CloseHalted(reason)
    \/ PollEntitlement \/ CloseSessionEndEarly \/ CloseClean

Environment == GateChanges \/ SessionEnds \/ LatchGlobalHalt \/ RetireCoordinator \/ Crash

Next == OwnerStep \/ Call \/ Environment

(* The owner thread, once inside a call, runs to its end. *)
Spec == Init /\ [][Next]_vars /\ WF_vars(OwnerStep)

-----------------------------------------------------------------------------
(* Properties.                                                             *)

FileTyped ==
    /\ \A i \in DOMAIN wal : wal[i].kind \in {"START", "RAW", "DERIVED", "HALT"}
    /\ tail \in {"none", "torn", "corrupt"}

CountersTyped ==
    /\ next_seq \in Nat /\ records \in Nat /\ latest_raw \in Nat
    /\ raws \in 0 .. MaxRaw /\ deriveds \in 0 .. MaxRaw

FlagsTyped ==
    /\ w_closed \in BOOLEAN /\ w_poisoned \in BOOLEAN
    /\ poisoned \in BOOLEAN /\ closed \in BOOLEAN
    /\ denied \in BOOLEAN /\ marked \in BOOLEAN

StateTyped ==
    /\ state \in [last_applied : Nat, raw_count : 0 .. MaxRaw,
                  derived_count : 0 .. MaxRaw,
                  epochs : [Sources -> (0 .. MaxEpoch) \cup {NoEpoch}]]
    /\ Len(trace) = state.raw_count

EnvTyped ==
    /\ gate \in {"open", "denied"} /\ over \in BOOLEAN
    /\ ghalt \in {"none", "other", "own"} /\ retired \in BOOLEAN

CallTyped ==
    /\ pc \in Busy \cup {"idle", "down"}
    /\ captured \in Captures
    /\ why \in CleanReasons \cup HaltedReasons \cup {NoReason}

(* Types of all the variables: the writer's and the runtime's counters     *)
(* stay within the records a session may hold, and the trace has one entry *)
(* per applied record (FoundationState, JournalWriter._counts).            *)
TypeOK ==
    FileTyped /\ CountersTyped /\ FlagsTyped /\ StateTyped /\ EnvTyped /\ CallTyped

(* Between two calls of a usable runtime no durable raw record is left     *)
(* unapplied, unless the coordinator was retired under it (ingest halts or *)
(* poisons the session on every other failure after append_raw).           *)
NoOrphanRawWhileUsable ==
    Callable /\ ~retired => state.last_applied = latest_raw

Sealed == tail # "none" \/ \E i \in DOMAIN wal : wal[i].kind = "HALT"

(* The file is append-only, and once uncertain bytes or a terminal are in  *)
(* it, nothing is written to it any more (JournalWriter._poisoned, _closed). *)
NothingAfterUncertainBytes ==
    [][ /\ \A i \in DOMAIN wal : i \in DOMAIN wal' /\ wal'[i] = wal[i]
        /\ Sealed => UNCHANGED file ]_vars

(* After one denied authorization no provider record is appended, even if  *)
(* the gate opens again: a transient denial latches (_gate_denied).        *)
DenialLatches ==
    [][ denied => \A i \in DOMAIN wal' \ DOMAIN wal : wal'[i].kind = "HALT" ]_vars
=============================================================================
