---------------------------- MODULE JournalReader ----------------------------
(***************************************************************************)
(* Reading a journal back: JournalReader (tennis_v1/wal.py) and the exact  *)
(* replay built on it (tennis_v1/replay_core.py), as functions of the      *)
(* bytes of the file, that is of its complete frames w and of what follows *)
(* them, t ("none", "torn" or "corrupt" bytes).                            *)
(*                                                                         *)
(* Every frame in w has a valid digest.  A session's frames carry its own  *)
(* manifest and the frames the writer produced, so the checks that compare *)
(* manifests, digests and encodings are left out.                          *)
(***************************************************************************)
EXTENDS FoundationReducer

Corruption == "JournalCorruptionError"

(* The reader's accumulators before the first frame. *)
WalkStart == [error |-> FALSE, raws |-> 0, deriveds |-> 0, last_raw |-> 0,
              terminal |-> FALSE, clean |-> FALSE]

(* _validate_terminal: the terminal's counts are those of the frames read. *)
TerminalAgrees(rec, n, acc) ==
    /\ rec.records = n
    /\ rec.raws = acc.raws
    /\ rec.deriveds = acc.deriveds
    /\ IF rec.clean THEN rec.last_applied = acc.last_raw
                    ELSE rec.last_applied <= acc.last_raw

(* One frame of _walk: the n-th one, read after acc.  Anything after a     *)
(* terminal, out of sequence or without its parent is a corruption.        *)
WalkFrame(acc, rec, n) ==
    IF \/ acc.error \/ acc.terminal
       \/ rec.seq # n
       \/ (n = 1) # (rec.kind = "START")
       \/ rec.kind = "DERIVED" /\ rec.parent # acc.last_raw
       \/ rec.kind = "HALT" /\ ~TerminalAgrees(rec, n - 1, acc)
    THEN [acc EXCEPT !.error = TRUE]
    ELSE [acc EXCEPT
           !.raws     = IF rec.kind = "RAW" THEN @ + 1 ELSE @,
           !.last_raw = IF rec.kind = "RAW" THEN rec.seq ELSE @,
           !.deriveds = IF rec.kind = "DERIVED" THEN @ + 1 ELSE @,
           !.terminal = rec.kind = "HALT",
           !.clean    = rec.kind = "HALT" /\ rec.clean]

Walk(w) ==
    LET at[i \in 0 .. Len(w)] ==
          IF i = 0 THEN WalkStart ELSE WalkFrame(at[i - 1], w[i], i)
    IN  at[Len(w)]

(* JournalReader.scan: an issue, "clean" for a clean terminal, or the      *)
(* exception.  Bytes after a terminal are a corruption whatever they are.  *)
Scan(w, t) ==
    LET acc == Walk(w)
    IN  CASE acc.error \/ (acc.terminal /\ t # "none") -> Corruption
          [] ~acc.error /\ ~acc.terminal /\ t = "torn" -> "torn_tail"
          [] ~acc.error /\ ~acc.terminal /\ t = "corrupt" -> "corrupt_tail"
          [] ~acc.error /\ ~acc.terminal /\ t = "none" -> "missing_terminal"
          [] ~acc.error /\ acc.terminal /\ t = "none" ->
                IF acc.clean THEN "clean" ELSE "halted_terminal"

-----------------------------------------------------------------------------
(* Replay.                                                                 *)

NoMismatch == "none"

ReplayStart == [state |-> initial_state, trace |-> initial_trace,
                failed |-> FALSE, expected |-> << >>, stored |-> << >>,
                mismatch |-> NoMismatch]

FirstMismatch(acc, m) == IF acc.mismatch = NoMismatch THEN m ELSE acc.mismatch

(* finish_pending: compare the derived records the reducer expects with    *)
(* the stored ones of the same raw record.                                 *)
FinishPending(acc) ==
    [acc EXCEPT
      !.mismatch =
          IF acc.failed THEN @
          ELSE CASE Len(acc.stored) > Len(acc.expected) -> FirstMismatch(acc, "derived_extra")
                 [] Len(acc.stored) < Len(acc.expected) -> FirstMismatch(acc, "derived_missing")
                 [] Len(acc.stored) = Len(acc.expected) ->
                      IF acc.stored = acc.expected THEN @
                      ELSE FirstMismatch(acc, "derived_record_mismatch"),
      !.expected = << >>, !.stored = << >>]

ReplayRaw(acc, raw) ==
    IF acc.failed THEN acc
    ELSE IF ~Reducible(acc.state, raw)
    THEN [acc EXCEPT !.failed = TRUE, !.expected = << >>, !.stored = << >>,
                     !.mismatch = FirstMismatch(acc, "raw_reduction_mismatch")]
    ELSE LET st  == reduce_event(acc.state, raw)
             exp == <<Derived(raw.seq + 1, raw)>>
         IN  [acc EXCEPT !.state = st, !.trace = next_trace(@, raw, exp, st),
                         !.expected = exp, !.stored = << >>]

ReplayRecord(acc, rec) ==
    CASE rec.kind = "START"   -> acc
      [] rec.kind = "RAW"     -> ReplayRaw(FinishPending(acc), rec)
      [] rec.kind = "DERIVED" ->
            IF acc.failed THEN acc ELSE [acc EXCEPT !.stored = Append(@, rec)]
      [] rec.kind = "HALT"    -> FinishPending(acc)

ReplayRecords(w) ==
    LET at[i \in 0 .. Len(w)] ==
          IF i = 0 THEN ReplayStart ELSE ReplayRecord(at[i - 1], w[i])
    IN  FinishPending(at[Len(w)])

(* The checks _replay makes of the terminal, in its order. *)
TerminalMismatch(acc, rec, n) ==
    CASE \/ rec.records # n - 1
         \/ acc.failed
         \/ ~acc.failed /\ rec.last_applied # acc.state.last_applied ->
            "terminal_counts_mismatch"
      [] OTHER ->
            IF ~rec.clean THEN "terminal_reason_mismatch"
            ELSE IF rec.state # acc.state THEN "state_mismatch"
            ELSE IF rec.trace # acc.trace THEN "trace_mismatch"
            ELSE NoMismatch

(* replay_exact: what _replay returns of a journal that scans.             *)
Replay(w, t) ==
    LET acc  == ReplayRecords(w)
        ends == w # << >> /\ w[Len(w)].kind = "HALT"
        mismatch == IF ends
                    THEN FirstMismatch(acc, TerminalMismatch(acc, w[Len(w)], Len(w)))
                    ELSE acc.mismatch
    IN  [state |-> acc.state, trace |-> acc.trace, mismatch |-> mismatch,
         exact |-> ~acc.failed /\ Scan(w, t) = "clean" /\ mismatch = NoMismatch]
=============================================================================
