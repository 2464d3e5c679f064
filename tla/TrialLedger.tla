---------------------------- MODULE TrialLedger ----------------------------
(***************************************************************************)
(* The trial observer of a rate-limited feed: one command of the CLI at a  *)
(* time (an exclusive lock), a usage ledger that is reserved before every  *)
(* request, an outcome for every attempt, a raw file for every response,   *)
(* and an audit of what each command did.  Every process first validates   *)
(* and completes what earlier ones left.                                   *)
(*                                                                         *)
(* A file is the sequence of the rows written to it and the number of them *)
(* that are durable; a row may lack its newline, or be a fragment.  A      *)
(* digest is what of the response the raw file held.  Routes and match     *)
(* identifiers follow from the command; "closed" stands for every end of a *)
(* match.  Pacing is left out.                                             *)
(***************************************************************************)
EXTENDS Integers, Sequences, FiniteSets, SequencesExt, FiniteSetsExt

CONSTANTS SessionLimit, AccessLimit,
          MaxRuns,          \* bound: processes started
          MaxCommands,      \* bound: of these, the last that goes past its recovery
          MaxFaults         \* bound: failing calls and power failures

ASSUME TrialLedgerAssumption ==
    /\ {SessionLimit, AccessLimit} \subseteq Nat \ {0}
    /\ SessionLimit <= AccessLimit
    /\ {MaxRuns, MaxCommands, MaxFaults} \subseteq Nat

VARIABLES
    files,          \* usage.jsonl, outcomes.jsonl, observations.jsonl
    raw,            \* the raw file of every access attempt
    raw_synced,     \* those that are durable, with their directory entry
    pc,             \* where the process is
    io,             \* the row it is appending, and where it goes then
    run,            \* session_id: the number of the process
    command,        \* of the CLI
    mine, total,    \* _session_attempts, _access_attempts
    found,          \* terminal_reason of the last observation
    sent,           \* history: the reservations whose request was sent
    faults          \* history: failing calls and power failures

disk == <<files, raw, raw_synced>>
memory == <<command, mine, total, found>>
history == <<run, sent, faults>>
vars == <<files, raw, raw_synced, pc, io, run, command, mine, total, found,
          sent, faults>>

None == "none"
NoRow == [file |-> None]
Files == {"usage", "outcomes", "observations"}
Commands == {"list_live", "check", "observe"}
Attempts == 1 .. AccessLimit

Usage == files["usage"].rows
Outcomes == files["outcomes"].rows
Observations == files["observations"].rows

Init ==
    /\ files = [f \in Files |-> [rows |-> <<>>, synced |-> 0]]
    /\ raw = [a \in Attempts |-> None] /\ raw_synced = {}
    /\ pc = "down" /\ io = NoRow
    /\ run = 0 /\ command = None /\ mine = 0 /\ total = 0 /\ found = None
    /\ sent = <<>> /\ faults = 0

-----------------------------------------------------------------------------
(* What a process accepts. *)

(* The lines of a file are its rows when none is a fragment and only the   *)
(* last lacks its newline: an append to such a row makes one line of both. *)
Lines(rows) ==
    /\ \A i \in DOMAIN rows : rows[i].end # "torn"
    /\ \A i \in 1 .. Len(rows) - 1 : rows[i].end = "whole"

(* _load *)
UsageLoads ==
    /\ Lines(Usage) /\ Len(Usage) <= AccessLimit
    /\ \A i \in DOMAIN Usage :
          LET earlier == {j \in 1 .. i - 1 : Usage[j].session = Usage[i].session}
          IN  /\ Usage[i].access = i
              /\ Usage[i].attempt = Cardinality(earlier) + 1
              /\ Usage[i].attempt <= SessionLimit

AuditLoads(rows) ==
    Lines(rows) /\ \A i \in DOMAIN rows : rows[i].end = "whole"

HistoryMatches(row) ==
    row.access \in DOMAIN Usage /\ Usage[row.access].session = row.session

OutcomesValid ==
    /\ \A i, j \in DOMAIN Outcomes :
          Outcomes[i].access = Outcomes[j].access => i = j
    /\ \A row \in Range(Outcomes) :
          /\ HistoryMatches(row)
          /\ row.raw # None => raw[row.access] = row.raw

Decided == {row.access : row \in Range(Outcomes)}
Captured == {row \in Range(Outcomes) : row.outcome = "captured"}

(* Raw files are those that outcomes name, and those of attempts that have *)
(* no outcome yet.                                                         *)
RawInventoryValid ==
    \A a \in Attempts :
       raw[a] # None =>
          \/ \E row \in Range(Outcomes) : row.access = a /\ row.raw # None
          \/ a \in DOMAIN Usage \ Decided

AttemptsOf(session) == {a \in DOMAIN Usage : Usage[a].session = session}

Disposed(n) ==
    {Observations[i].access : i \in {j \in 1 .. n : Observations[j].kind # "terminal"}}

(* dispositions_by_session and terminal_sessions, before row i *)
DispositionsBefore(i) ==
    {j \in 1 .. i - 1 : /\ Observations[j].kind # "terminal"
                        /\ Observations[j].session = Observations[i].session}
EndedBefore(i) ==
    \E j \in 1 .. i - 1 :
       Observations[j].kind = "terminal" /\ Observations[j].session = Observations[i].session

Coherent(row, dispositions) ==
    LET observed(terminal_reasons) ==   \* last_is_observation, and what it found
           \E j \in dispositions :
              /\ \A k \in dispositions : k <= j
              /\ Observations[j].kind = "observation"
              /\ Observations[j].found \in terminal_reasons
    IN  IF row.command = "recovery" THEN row.reason = "recovered_unclean_session"
        ELSE /\ \A j \in dispositions :
                   Observations[j].kind # "recovery" => Observations[j].command = row.command
             /\ CASE row.reason = "list_complete" ->
                       row.command = "list_live" /\ observed({None, "closed"})
                  [] row.reason = "check_complete" ->
                       row.command = "check" /\ observed({None})
                  [] row.reason = "duration_elapsed" ->
                       row.command = "observe" /\ observed({None, "closed"})
                  [] row.reason = "closed" ->
                       row.command # "list_live" /\ observed({"closed"})
                  [] OTHER -> TRUE

TerminalValid(i) ==
    LET row == Observations[i]
        own == AttemptsOf(row.session)
    IN  /\ ~EndedBefore(i)
        /\ row.total <= Len(Usage)
        /\ own # {} =>
              row.mine = Cardinality(own) /\ row.total = Max(own)
        /\ row.reason = "recovered_unclean_session" =>
              row.command = "recovery" /\ own # {}
        /\ Coherent(row, DispositionsBefore(i))

(* Only a recovery may add to a session that has ended: its capture may    *)
(* have been left when a signal or the deadline ended the command.         *)
DispositionValidUnended(i) ==   \* mutant: nothing may follow a terminal
    LET row == Observations[i]
    IN  /\ ~EndedBefore(i) /\ HistoryMatches(row)
        /\ row.access \notin Disposed(i - 1)
        /\ \E o \in Captured : o.access = row.access /\ o.raw = row.raw

DispositionValid(i) ==
    LET row == Observations[i]
    IN  /\ EndedBefore(i) => row.kind = "recovery"
        /\ HistoryMatches(row)
        /\ row.access \notin Disposed(i - 1)
        /\ \E o \in Captured : o.access = row.access /\ o.raw = row.raw

ObservationsValid ==
    \A i \in DOMAIN Observations :
       IF Observations[i].kind = "terminal" THEN TerminalValid(i) ELSE DispositionValid(i)

Accepts ==
    /\ UsageLoads
    /\ AuditLoads(Outcomes) /\ AuditLoads(Observations)
    /\ OutcomesValid /\ RawInventoryValid /\ ObservationsValid

-----------------------------------------------------------------------------
(* What ends with the process. *)
Forgotten == command' = None /\ mine' = 0 /\ total' = 0 /\ found' = None

(* Appending: a write and an fsync, each of which may fail, and whose      *)
(* failure ends the recovery, or the command with a halted terminal.       *)

AppendRow(file, row, next) ==
    /\ io = NoRow /\ io' = [file |-> file, next |-> next]
    /\ files' = [files EXCEPT ![file].rows = Append(@, row)]
    /\ UNCHANGED <<raw, raw_synced, pc, history>>

SyncRow ==
    /\ io # NoRow
    /\ files' = [files EXCEPT ![io.file].synced = Len(files[io.file].rows)]
    /\ pc' = io.next /\ io' = NoRow
    /\ CASE io.file = "usage" ->
              mine' = mine + 1 /\ total' = total + 1 /\ UNCHANGED <<command, found>>
         [] io.next = "down" -> Forgotten
         [] OTHER -> UNCHANGED memory
    /\ UNCHANGED <<raw, raw_synced, history>>

Fault == faults < MaxFaults /\ faults' = faults + 1

(* The file with nothing, a part or all of its last row. *)
PartlyWritten(rows) ==
    {rows, Front(rows)}
        \cup {Append(Front(rows), [Last(rows) EXCEPT !.end = e]) : e \in {"torn", "cut"}}

RowFails ==
    /\ io # NoRow /\ Fault
    /\ \E rows \in PartlyWritten(files[io.file].rows) :
          files' = [files EXCEPT ![io.file].rows = rows]
    /\ IF pc = "recovering" \/ io.next = "down"
       THEN pc' = "down" /\ Forgotten ELSE pc' = "erred" /\ UNCHANGED memory
    /\ io' = NoRow
    /\ UNCHANGED <<raw, raw_synced, run, sent>>

-----------------------------------------------------------------------------
(* The start of a process: load, validate, and complete the history. *)

(* A usage row whose newline is missing is accepted: _load checks no tail. *)
BeginAfterOutcomes ==           \* mutant: an attempt counts by its outcome
    /\ pc = "down" /\ run < MaxRuns /\ Accepts
    /\ pc' = "recovering" /\ run' = run + 1 /\ total' = Len(Outcomes)
    /\ UNCHANGED <<disk, io, command, mine, found, sent, faults>>

Begin ==
    /\ pc = "down" /\ run < MaxRuns /\ Accepts
    /\ pc' = "recovering" /\ run' = run + 1 /\ total' = Len(Usage)
    /\ UNCHANGED <<disk, io, command, mine, found, sent, faults>>

Missing == DOMAIN Usage \ Decided
Undisposed == {o \in Captured : o.access \notin Disposed(Len(Observations))}
Unclean ==
    {row.session : row \in Range(Usage)}
        \ {row.session : row \in {r \in Range(Observations) : r.kind = "terminal"}}

Reservation(session, attempt, access) ==
    [session |-> session, attempt |-> attempt, access |-> access, end |-> "whole"]
Outcome(session, access, outcome) ==
    [session |-> session, access |-> access, outcome |-> outcome, raw |-> raw[access],
     end |-> "whole"]
Disposition(kind, o, cmd, terminal_reason) ==
    [kind |-> kind, session |-> o.session, access |-> o.access, raw |-> o.raw,
     command |-> cmd, found |-> terminal_reason, end |-> "whole"]
Terminal(session, cmd, reason, session_attempts, access_attempts) ==
    [kind |-> "terminal", session |-> session, command |-> cmd, reason |-> reason,
     mine |-> session_attempts, total |-> access_attempts, end |-> "whole"]

(* __init__, one append at a time; the command line is looked at after it. *)
Recover ==
    /\ pc = "recovering"
    /\ IF Missing # {} THEN
          \E a \in Missing :
             /\ \A b \in Missing : a <= b
             /\ AppendRow("outcomes", Outcome(Usage[a].session, a, "uncertain"), "recovering")
       ELSE IF Undisposed # {} THEN
          \E o \in Undisposed :
             /\ \A p \in Undisposed : o.access <= p.access
             /\ AppendRow("observations", Disposition("recovery", o, None, None), "recovering")
       ELSE \E s \in Unclean :
          AppendRow("observations",
                    Terminal(s, "recovery", "recovered_unclean_session",
                             Cardinality(AttemptsOf(s)), Max(AttemptsOf(s))),
                    "recovering")
    /\ UNCHANGED memory

Recovered ==
    /\ pc = "recovering" /\ io = NoRow /\ Missing = {} /\ Undisposed = {} /\ Unclean = {}
    /\ run <= MaxCommands
    /\ pc' = "idle" /\ command' \in Commands
    /\ UNCHANGED <<disk, io, mine, total, found, history>>

-----------------------------------------------------------------------------
(* One attempt: reserve, request, persist, record. *)

Goto(from, to) ==
    /\ io = NoRow /\ pc \in from /\ pc' = to
    /\ UNCHANGED <<io, memory, run>>

Reserve ==
    /\ pc = "idle" \/ pc = "polling"
    /\ mine < SessionLimit /\ total < AccessLimit
    /\ AppendRow("usage", Reservation(run, mine + 1, total + 1), "reserved")
    /\ UNCHANGED memory

Send ==
    /\ Goto({"reserved"}, "sent")
    /\ sent' = Append(sent, [session |-> run, attempt |-> mine, access |-> total])
    /\ UNCHANGED <<disk, faults>>

(* An invalid clock before the request; an unusable response after it. *)
RequestFails ==
    Goto({"reserved", "sent"}, "failed") /\ UNCHANGED <<disk, sent, faults>>

CreateRaw ==
    /\ Goto({"sent"}, "writing") /\ raw[total] = None
    /\ raw' = [raw EXCEPT ![total] = "part"]
    /\ UNCHANGED <<files, raw_synced, sent, faults>>

WriteRaw ==
    /\ Goto({"writing"}, "syncing")
    /\ raw' = [raw EXCEPT ![total] = "whole"]
    /\ UNCHANGED <<files, raw_synced, sent, faults>>

SyncRaw ==
    /\ Goto({"syncing"}, "persisted")
    /\ raw_synced' = raw_synced \cup {total}
    /\ UNCHANGED <<files, raw, sent, faults>>

RawFails ==
    /\ Goto({"sent", "writing", "syncing"}, "failed") /\ Fault
    /\ UNCHANGED <<disk, sent>>

RecordCaptured ==
    /\ pc = "persisted" /\ UNCHANGED memory
    /\ AppendRow("outcomes", Outcome(run, total, "captured"), "captured")

(* record_failed_or_uncertain_outcome: uncertain if a raw file is there. *)
RecordFailed ==
    /\ pc = "failed" /\ UNCHANGED memory
    /\ AppendRow("outcomes",
               Outcome(run, total, IF raw[total] = None THEN "failed" ELSE "uncertain"),
               "erred")

-----------------------------------------------------------------------------
(* What the command makes of it. *)

ThisCapture == CHOOSE o \in Captured : o.access = total

ParserFailure ==
    /\ pc = "captured" /\ UNCHANGED memory
    /\ AppendRow("observations", Disposition("parser_failure", ThisCapture, command, None), "erred")

Observe ==
    /\ pc = "captured" /\ UNCHANGED <<command, mine, total>>
    /\ found' \in IF command = "list_live" THEN {None} ELSE {None, "closed"}
    /\ AppendRow("observations", Disposition("observation", ThisCapture, command, found'), "shown")

End(reason) ==
    /\ AppendRow("observations", Terminal(run, command, reason, mine, total), "down")
    /\ UNCHANGED memory

(* A signal sets a flag that is looked at between the steps. *)
Stop == pc \in {"idle", "captured", "shown", "polling"} /\ End("operator_interrupt")

(* A refused or failed attempt, the deadline, a stale or late source, an   *)
(* unavailable output.                                                     *)
Halt == pc \in {"idle", "captured", "shown", "polling", "erred"} /\ End("halted")

Complete ==
    /\ pc = "shown" /\ (command = "observe" => found = "closed")
    /\ End(IF found = "closed" THEN "closed"
           ELSE IF command = "check" THEN "check_complete" ELSE "list_complete")

Poll ==
    /\ command = "observe" /\ found = None /\ Goto({"shown"}, "polling")
    /\ UNCHANGED <<disk, sent, faults>>

DurationElapsed == pc = "polling" /\ End("duration_elapsed")

-----------------------------------------------------------------------------
(* Failures. *)

Crash ==
    /\ pc # "down" /\ pc' = "down" /\ io' = NoRow /\ Forgotten
    /\ UNCHANGED <<disk, history>>

(* What may be left of the rows that were not durable: some of them, the   *)
(* last of these whole or not.                                             *)
Survives(file) ==
    UNION {IF k = file.synced THEN {[rows |-> SubSeq(file.rows, 1, k), synced |-> k]}
           ELSE {[rows |-> rows, synced |-> Len(rows)] :
                   rows \in PartlyWritten(SubSeq(file.rows, 1, k))} :
           k \in file.synced .. Len(file.rows)}

PowerFails ==
    /\ Fault /\ pc' = "down" /\ io' = NoRow /\ Forgotten
    /\ \E u \in Survives(files["usage"]), o \in Survives(files["outcomes"]),
          b \in Survives(files["observations"]) :
             files' = [usage |-> u, outcomes |-> o, observations |-> b]
    /\ \E lost \in [{a \in Attempts \ raw_synced : raw[a] # None} -> {None, "part", "kept"}] :
          raw' = [a \in Attempts |-> IF a \in DOMAIN lost /\ lost[a] # "kept"
                                     THEN lost[a] ELSE raw[a]]
    /\ raw_synced' = {a \in Attempts : raw'[a] # None}
    /\ UNCHANGED <<run, sent>>

Next ==
    \/ Begin \/ Recover \/ Recovered \/ SyncRow \/ RowFails
    \/ Reserve \/ Send \/ RequestFails \/ CreateRaw \/ WriteRaw \/ SyncRaw \/ RawFails
    \/ RecordCaptured \/ RecordFailed \/ ParserFailure \/ Observe
    \/ Stop \/ Halt \/ Complete \/ Poll \/ DurationElapsed
    \/ Crash \/ PowerFails

Spec == Init /\ [][Next]_vars

-----------------------------------------------------------------------------
(* Properties. *)

(* No crash, power failure or failing call refunds an attempt: a ledger    *)
(* that a process accepts has, for every request ever sent, the row that   *)
(* was reserved for it alone, durable before the request; so all processes *)
(* together keep within the limits.                                        *)
QuotaIsNotRefunded ==
    /\ UsageLoads =>
          \A r \in Range(sent) :
             /\ r.access \in 1 .. files["usage"].synced
             /\ Usage[r.access] = Reservation(r.session, r.attempt, r.access)
    /\ \A i, j \in DOMAIN sent : sent[i].access = sent[j].access => i = j
    /\ Len(sent) <= AccessLimit
    /\ \A s \in 1 .. MaxRuns :
          Cardinality({i \in DOMAIN sent : sent[i].session = s}) <= SessionLimit

(* While no call and no power failed, a process that dies at any point,    *)
(* in its recovery too, leaves what the next one accepts; and a process    *)
(* that has recovered finds an outcome for every earlier attempt, a        *)
(* disposition for every capture and a terminal for every session.         *)
CrashesRecover ==
    /\ faults = 0 => Accepts
    /\ pc \notin {"down", "recovering"} =>
          \A a \in DOMAIN Usage : Usage[a].session # run =>
             /\ a \in Decided
             /\ \A o \in Undisposed : o.access # a
             /\ Usage[a].session \notin Unclean

=============================================================================
