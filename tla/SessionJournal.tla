---------------------------- MODULE SessionJournal ----------------------------
(***************************************************************************)
(* A session of EventRuntime and the journal it leaves behind, read back   *)
(* by JournalReader in every reachable state.                              *)
(***************************************************************************)
EXTENDS EventRuntime, JournalReader

(* Durable before reduce: the journal always scans - no gap, no orphaned   *)
(* derived record, nothing behind a terminal, whatever was interrupted and *)
(* at whatever byte (JournalReader._walk) - and the runtime's state and    *)
(* trace are exactly the replay of it without its last, unapplied raw      *)
(* record, if any.                                                         *)
StateIsReplayOfJournal ==
    LET settled == IF state.last_applied = 0 THEN 1 ELSE state.last_applied + 1
        back == ReplayRecords(SubSeq(wal, 1, settled))
    IN  /\ Scan(wal, tail) # Corruption
        /\ wal # << >> =>
              /\ settled <= Len(wal)
              /\ back.state = state /\ back.trace = trace
              /\ back.mismatch = NoMismatch
              /\ Walk(wal).raws - state.raw_count \in {0, 1}

(* A clean journal is evidence: whenever a scan says clean, the replay is  *)
(* exact and ends in the state and trace the runtime had (replay_exact),   *)
(* and only such a journal is ever marked clean (mark_clean_terminal).     *)
CleanJournalReplaysExactly ==
    /\ Scan(wal, tail) = "clean" =>
           LET r == Replay(wal, tail)
           IN  r.exact /\ r.state = state /\ r.trace = trace
    /\ marked => closed /\ ~poisoned /\ Scan(wal, tail) = "clean"

(* A denial, a disk-low or a contract violation always ends the session:   *)
(* the runtime is closed unless its coordinator is retired or it crashes.  *)
FailureCloses == (pc = "halting") ~> (closed \/ retired \/ pc = "down")
===============================================================================
