------------------------- MODULE EventRuntimeProofs -------------------------
(***************************************************************************)
(* Theorems about EventRuntime, for every set of sources and every bound.  *)
(***************************************************************************)
EXTENDS SessionJournal, WellFoundedInduction, TLAPS

(* The journal is a sequence, of whatever frames. *)
WalSeq == \E S : wal \in Seq(S)

(* So is the trace, of its entries. *)
TraceSeq == \E S : trace \in Seq(S)

(* The counters never run ahead of what they count: an applied record has  *)
(* its derived record, and a derived record its raw record.                *)
Counted ==
    /\ deriveds <= raws
    /\ state.raw_count <= deriveds
    /\ state.derived_count = state.raw_count
    /\ pc = "append_raw" => raws < MaxRaw
    /\ pc \in {"transform", "append_derived"} => deriveds < raws
    /\ pc = "settle" => state.raw_count < deriveds

Typed == TypeOK /\ WalSeq /\ TraceSeq /\ Counted

(* Where a closed runtime, a sealed file or an observed denial may be.     *)
Quiet == {"boot", "init", "authorize", "idle", "append_raw",
          "authorize_close", "close_clean"}

(* A poisoned runtime is closed, and a closed one is in no call but the    *)
(* marking of its clean terminal.                                          *)
PoisonCloses ==
    /\ poisoned => closed
    /\ closed => pc \in {"idle", "mark", "down"}
    /\ pc = "mark" => closed

(* A journal with a terminal or with uncertain bytes has no open runtime.  *)
SealHeld == Sealed => closed \/ pc \in {"ack", "down"}

(* Outside the second half of ingest, every raw record is applied.         *)
AppliedWhenQuiet ==
    pc \in Quiet /\ ~closed => state.last_applied = latest_raw \/ retired

(* A denied authorization is on its way to the end of the session.         *)
DenialHeld ==
    denied => \/ closed
              \/ pc \in {"halting", "down"}
              \/ retired /\ pc \in {"idle", "authorize_close"}

Controlled == PoisonCloses /\ SealHeld /\ AppliedWhenQuiet /\ DenialHeld

(* Appending a frame keeps every earlier frame where it was. *)
LEMMA AppendKeeps ==
    ASSUME NEW S, NEW s \in Seq(S), NEW e
    PROVE  /\ Append(s, e) \in Seq(S \cup {e})
           /\ DOMAIN Append(s, e) = DOMAIN s \cup {Len(s) + 1}
           /\ \A i \in DOMAIN s : Append(s, e)[i] = s[i]
           /\ Append(s, e)[Len(s) + 1] = e
  <1>1. s \in Seq(S \cup {e})
    OBVIOUS
  <1> QED
    BY <1>1

(* Every step leaves the file's frames alone or appends the frame that the *)
(* step is about: the pending one, or a halted terminal.                   *)
LEMMA StepOnFile ==
    ASSUME Next
    PROVE  \/ wal' = wal
           \/ wal' = Append(wal, Pending) /\ pc \in Writing
           \/ \E r \in HaltedReasons : wal' = Append(wal, Terminal(FALSE, r))
  <1> USE DEF file, Residue, PreobservedGlobalHalt, HaltWritten,
          HaltWriteFails, Escapes, Raise, GateDenied, WriteOk, WriteFailed,
          WritePoisons, WritePoisoned, DiskLow, Advance, Poison,
          HaltedReasons, OwnerHalts, Writing
  <1>1. CASE OwnerStep
    <2>1. CASE Create       BY <2>1 DEF Create, Pending
    <2>2. CASE ClaimRuntime BY <2>2 DEF ClaimRuntime
    <2>3. CASE AuthorizeSession BY <2>3 DEF AuthorizeSession
    <2>4. CASE AppendRaw    BY <2>4 DEF AppendRaw
    <2>5. CASE Transform    BY <2>5 DEF Transform
    <2>6. CASE AppendDerived BY <2>6 DEF AppendDerived
    <2>7. CASE Settle       BY <2>7 DEF Settle
    <2>8. CASE AttemptHalt  BY <2>8 DEF AttemptHalt, Pending
    <2>9. CASE AuthorizeClose BY <2>9 DEF AuthorizeClose
    <2>10. CASE WriteClean  BY <2>10 DEF WriteClean
    <2>11. CASE AckClean    BY <2>11 DEF AckClean
    <2>12. CASE MarkClean   BY <2>12 DEF MarkClean
    <2> QED BY <1>1, <2>1, <2>2, <2>3, <2>4, <2>5, <2>6, <2>7, <2>8, <2>9,
               <2>10, <2>11, <2>12 DEF OwnerStep
  <1>2. CASE Call
    BY <1>2 DEF Call, Ingest, CloseHalted, PollEntitlement,
                CloseSessionEndEarly, CloseClean
  <1>3. CASE Environment
    BY <1>3 DEF Environment, GateChanges, SessionEnds, LatchGlobalHalt,
                RetireCoordinator, Crash
  <1> QED BY <1>1, <1>2, <1>3 DEF Next

(* The journal stays a sequence, and keeps every frame it has. *)
LEMMA StepKeepsFrames ==
    ASSUME WalSeq, [Next]_vars
    PROVE  /\ WalSeq'
           /\ \A i \in DOMAIN wal : i \in DOMAIN wal' /\ wal'[i] = wal[i]
  <1> PICK S : wal \in Seq(S)
    BY DEF WalSeq
  <1>1. CASE wal' = wal
    BY <1>1 DEF WalSeq
  <1>2. ASSUME NEW rec, wal' = Append(wal, rec)
        PROVE  /\ WalSeq'
               /\ \A i \in DOMAIN wal : i \in DOMAIN wal' /\ wal'[i] = wal[i]
    <2>1. wal' \in Seq(S \cup {rec})
      BY <1>2, AppendKeeps
    <2>2. WalSeq'
      BY <2>1 DEF WalSeq
    <2> QED BY <1>2, <2>2, AppendKeeps
  <1>3. wal' = wal \/ \E rec : wal' = Append(wal, rec)
    BY StepOnFile DEF vars
  <1> QED BY <1>1, <1>2, <1>3

(* A new frame has one of the four kinds; the earlier ones keep theirs. *)
LEMMA KindsKept ==
    ASSUME WalSeq, [Next]_vars,
           \A i \in DOMAIN wal : wal[i].kind \in {"START", "RAW", "DERIVED", "HALT"}
    PROVE  \A i \in DOMAIN wal' :
               (wal'[i]).kind \in {"START", "RAW", "DERIVED", "HALT"}
  <1> PICK S : wal \in Seq(S)
    BY DEF WalSeq
  <1>1. CASE wal' = wal
    BY <1>1
  <1>2. ASSUME NEW rec, wal' = Append(wal, rec),
               rec.kind \in {"START", "RAW", "DERIVED", "HALT"}
        PROVE  \A i \in DOMAIN wal' :
                   (wal'[i]).kind \in {"START", "RAW", "DERIVED", "HALT"}
    BY <1>2, AppendKeeps
  <1>3. pc \in Writing => Pending.kind \in {"START", "RAW", "DERIVED", "HALT"}
    BY DEF Writing, Pending, Start, Raw, Derived, Terminal
  <1>4. \A r : Terminal(FALSE, r).kind = "HALT"
    BY DEF Terminal
  <1>5. \/ wal' = wal
        \/ \E rec : /\ wal' = Append(wal, rec)
                    /\ rec.kind \in {"START", "RAW", "DERIVED", "HALT"}
    BY StepOnFile, <1>3, <1>4 DEF vars
  <1> QED BY <1>1, <1>2, <1>5

(* Reducing a raw record counts it and applies it. *)
LEMMA ReduceTyped ==
    ASSUME StateTyped, CountersTyped, CallTyped, Counted, pc = "settle"
    PROVE  LET st == reduce_event(state, RawInFlight)
           IN  /\ st \in [last_applied : Nat, raw_count : 0 .. MaxRaw,
                          derived_count : 0 .. MaxRaw,
                          epochs : [Sources -> (0 .. MaxEpoch) \cup {NoEpoch}]]
               /\ st.raw_count = state.raw_count + 1
               /\ st.derived_count = st.raw_count
               /\ st.last_applied = latest_raw
  <1>1. captured.source \in Sources /\ captured.epoch \in 0 .. MaxEpoch
    BY DEF CallTyped, Captures
  <1>2. [state.epochs EXCEPT ![captured.source] = captured.epoch]
           \in [Sources -> (0 .. MaxEpoch) \cup {NoEpoch}]
    BY <1>1 DEF StateTyped
  <1> QED
    BY <1>2, RuntimeAssumption
       DEF StateTyped, CountersTyped, Counted, reduce_event, RawInFlight, Raw

(* The environment's variables keep their types. *)
LEMMA EnvTypedStep ==
    ASSUME EnvTyped, [Next]_vars
    PROVE  EnvTyped'
  <1> USE DEF EnvTyped, file, rt, env, counts, writer, Residue, WritePoisoned,
          WriteFailed, Poison, HaltWritten, HaltWriteFails, CloseWriter,
          PreobservedGlobalHalt, Escapes, Raise, GateDenied, Advance, DiskLow,
          WritePoisons
  <1>1. CASE UNCHANGED vars
    BY <1>1 DEF vars
  <1>2. CASE Create
    BY <1>2 DEF Create, WriteOk
  <1>3. CASE ClaimRuntime
    BY <1>3 DEF ClaimRuntime
  <1>4. CASE AuthorizeSession
    BY <1>4 DEF AuthorizeSession
  <1>5. CASE AppendRaw
    BY <1>5 DEF AppendRaw, WriteOk
  <1>6. CASE Transform
    BY <1>6 DEF Transform
  <1>7. CASE AppendDerived
    BY <1>7 DEF AppendDerived, WriteOk
  <1>8. CASE Settle
    BY <1>8 DEF Settle
  <1>9. CASE AttemptHalt
    BY <1>9 DEF AttemptHalt
  <1>10. CASE AuthorizeClose
    BY <1>10 DEF AuthorizeClose
  <1>11. CASE WriteClean
    BY <1>11 DEF WriteClean, WriteOk
  <1>12. CASE AckClean
    BY <1>12 DEF AckClean
  <1>13. CASE MarkClean
    BY <1>13 DEF MarkClean
  <1>14. CASE Call
    BY <1>14 DEF Call, Ingest, CloseHalted, PollEntitlement,
                 CloseSessionEndEarly, CloseClean
  <1>15. CASE Environment
    BY <1>15 DEF Environment, GateChanges, SessionEnds, LatchGlobalHalt,
                 RetireCoordinator, Crash
  <1> QED
    BY <1>1, <1>2, <1>3, <1>4, <1>5, <1>6, <1>7, <1>8, <1>9, <1>10, <1>11,
       <1>12, <1>13, <1>14, <1>15 DEF Next, OwnerStep

(* So do the flags of the writer and the runtime. *)
LEMMA FlagsTypedStep ==
    ASSUME FlagsTyped, [Next]_vars
    PROVE  FlagsTyped'
  <1> USE DEF FlagsTyped, file, rt, env, counts, writer, Residue,
          WritePoisoned, WriteFailed, Poison, HaltWritten, HaltWriteFails,
          CloseWriter, PreobservedGlobalHalt, Escapes, Raise, GateDenied,
          Advance, DiskLow, WritePoisons
  <1>1. CASE UNCHANGED vars
    BY <1>1 DEF vars
  <1>2. CASE Create
    BY <1>2 DEF Create, WriteOk
  <1>3. CASE ClaimRuntime
    BY <1>3 DEF ClaimRuntime
  <1>4. CASE AuthorizeSession
    BY <1>4 DEF AuthorizeSession
  <1>5. CASE AppendRaw
    BY <1>5 DEF AppendRaw, WriteOk
  <1>6. CASE Transform
    BY <1>6 DEF Transform
  <1>7. CASE AppendDerived
    BY <1>7 DEF AppendDerived, WriteOk
  <1>8. CASE Settle
    BY <1>8 DEF Settle
  <1>9. CASE AttemptHalt
    BY <1>9 DEF AttemptHalt
  <1>10. CASE AuthorizeClose
    BY <1>10 DEF AuthorizeClose
  <1>11. CASE WriteClean
    BY <1>11 DEF WriteClean, WriteOk
  <1>12. CASE AckClean
    BY <1>12 DEF AckClean
  <1>13. CASE MarkClean
    BY <1>13 DEF MarkClean
  <1>14. CASE Call
    <2>1. CASE \E c \in Captures, valid \in BOOLEAN : Ingest(c, valid)
      BY <2>1 DEF Ingest
    <2>2. CASE \E reason \in OwnerHalts : CloseHalted(reason)
      BY <2>2 DEF CloseHalted
    <2>3. CASE PollEntitlement
      BY <2>3 DEF PollEntitlement
    <2>4. CASE CloseSessionEndEarly \/ CloseClean
      BY <2>4 DEF CloseSessionEndEarly, CloseClean
    <2> QED
      BY <1>14, <2>1, <2>2, <2>3, <2>4 DEF Call
  <1>15. CASE Environment
    BY <1>15 DEF Environment, GateChanges, SessionEnds, LatchGlobalHalt,
                 RetireCoordinator, Crash
  <1> QED
    BY <1>1, <1>2, <1>3, <1>4, <1>5, <1>6, <1>7, <1>8, <1>9, <1>10, <1>11,
       <1>12, <1>13, <1>14, <1>15 DEF Next, OwnerStep

(* And the call under way. *)
LEMMA CallTypedStep ==
    ASSUME CallTyped, [Next]_vars
    PROVE  CallTyped'
  <1> USE DEF CallTyped, Busy, CleanReasons, HaltedReasons, OwnerHalts, file,
          rt, env, counts, writer, Residue, WritePoisoned, WriteFailed,
          Poison, HaltWritten, HaltWriteFails, CloseWriter,
          PreobservedGlobalHalt, Escapes, Raise, GateDenied, Advance, DiskLow,
          WritePoisons
  <1>1. CASE UNCHANGED vars
    BY <1>1 DEF vars
  <1>2. CASE Create
    BY <1>2 DEF Create, WriteOk
  <1>3. CASE ClaimRuntime
    BY <1>3 DEF ClaimRuntime
  <1>4. CASE AuthorizeSession
    BY <1>4 DEF AuthorizeSession
  <1>5. CASE AppendRaw
    BY <1>5 DEF AppendRaw, WriteOk
  <1>6. CASE Transform
    BY <1>6 DEF Transform
  <1>7. CASE AppendDerived
    BY <1>7 DEF AppendDerived, WriteOk
  <1>8. CASE Settle
    BY <1>8 DEF Settle
  <1>9. CASE AttemptHalt
    BY <1>9 DEF AttemptHalt
  <1>10. CASE AuthorizeClose
    BY <1>10 DEF AuthorizeClose
  <1>11. CASE WriteClean
    BY <1>11 DEF WriteClean, WriteOk
  <1>12. CASE AckClean
    BY <1>12 DEF AckClean
  <1>13. CASE MarkClean
    BY <1>13 DEF MarkClean
  <1>14. CASE Call
    <2>1. CASE \E c \in Captures, valid \in BOOLEAN : Ingest(c, valid)
      BY <2>1 DEF Ingest
    <2>2. CASE \E reason \in OwnerHalts : CloseHalted(reason)
      BY <2>2 DEF CloseHalted
    <2>3. CASE PollEntitlement
      BY <2>3 DEF PollEntitlement
    <2>4. CASE CloseSessionEndEarly \/ CloseClean
      BY <2>4 DEF CloseSessionEndEarly, CloseClean
    <2> QED
      BY <1>14, <2>1, <2>2, <2>3, <2>4 DEF Call
  <1>15. CASE Environment
    BY <1>15 DEF Environment, GateChanges, SessionEnds, LatchGlobalHalt,
                 RetireCoordinator, Crash
  <1> QED
    BY <1>1, <1>2, <1>3, <1>4, <1>5, <1>6, <1>7, <1>8, <1>9, <1>10, <1>11,
       <1>12, <1>13, <1>14, <1>15 DEF Next, OwnerStep

(* Only Settle touches the state and the trace. *)
LEMMA StateStep ==
    ASSUME TRUE, [Next]_vars
    PROVE  \/ UNCHANGED <<state, trace>>
           \/ /\ pc = "settle" /\ pc' = "idle"
              /\ state' = reduce_event(state, RawInFlight)
              /\ \E e : trace' = Append(trace, e)
              /\ UNCHANGED <<wal, tail, writer, closed, retired, denied>>
  <1> USE DEF next_trace, file, rt, env, counts, writer, Residue,
          WritePoisoned, WriteFailed, Poison, HaltWritten, HaltWriteFails,
          CloseWriter, PreobservedGlobalHalt, Escapes, Raise, GateDenied,
          Advance, DiskLow, WritePoisons
  <1>1. CASE UNCHANGED vars
    BY <1>1 DEF vars
  <1>2. CASE Create
    BY <1>2 DEF Create, WriteOk
  <1>3. CASE ClaimRuntime
    BY <1>3 DEF ClaimRuntime
  <1>4. CASE AuthorizeSession
    BY <1>4 DEF AuthorizeSession
  <1>5. CASE AppendRaw
    BY <1>5 DEF AppendRaw, WriteOk
  <1>6. CASE Transform
    BY <1>6 DEF Transform
  <1>7. CASE AppendDerived
    BY <1>7 DEF AppendDerived, WriteOk
  <1>8. CASE Settle
    BY <1>8 DEF Settle
  <1>9. CASE AttemptHalt
    BY <1>9 DEF AttemptHalt
  <1>10. CASE AuthorizeClose
    BY <1>10 DEF AuthorizeClose
  <1>11. CASE WriteClean
    BY <1>11 DEF WriteClean, WriteOk
  <1>12. CASE AckClean
    BY <1>12 DEF AckClean
  <1>13. CASE MarkClean
    BY <1>13 DEF MarkClean
  <1>14. CASE Call
    BY <1>14 DEF Call, Ingest, CloseHalted, PollEntitlement,
                 CloseSessionEndEarly, CloseClean
  <1>15. CASE Environment
    BY <1>15 DEF Environment, GateChanges, SessionEnds, LatchGlobalHalt,
                 RetireCoordinator, Crash
  <1> QED
    BY <1>1, <1>2, <1>3, <1>4, <1>5, <1>6, <1>7, <1>8, <1>9, <1>10, <1>11,
       <1>12, <1>13, <1>14, <1>15 DEF Next, OwnerStep

(* What a step does to the counters, and from where it goes to the steps   *)
(* of ingest.                                                              *)
LEMMA CounterStep ==
    ASSUME TRUE, [Next]_vars
    PROVE  /\ next_seq' \in {next_seq, next_seq + 1}
           /\ records' \in {records, records + 1}
           /\ \/ UNCHANGED <<raws, deriveds, latest_raw>>
              \/ /\ pc = "append_raw" /\ pc' = "transform"
                 /\ raws' = raws + 1 /\ UNCHANGED deriveds
                 /\ latest_raw' = next_seq
              \/ /\ pc = "append_derived" /\ pc' = "settle"
                 /\ deriveds' = deriveds + 1 /\ UNCHANGED <<raws, latest_raw>>
           /\ pc' = "append_raw" => pc = "append_raw" \/ raws < MaxRaw
           /\ pc' = "transform" => pc = "transform" \/ raws' = raws + 1
           /\ pc' = "append_derived" => pc \in {"transform", "append_derived"}
           /\ pc' = "settle" => pc = "settle" \/ deriveds' = deriveds + 1
  <1> USE DEF file, rt, env, counts, writer, Residue, WritePoisoned,
          WriteFailed, Poison, HaltWritten, HaltWriteFails, CloseWriter,
          PreobservedGlobalHalt, Escapes, Raise, GateDenied, Advance, DiskLow,
          WritePoisons
  <1>1. CASE UNCHANGED vars
    BY <1>1 DEF vars
  <1>2. CASE Create
    BY <1>2 DEF Create, WriteOk, Start
  <1>3. CASE ClaimRuntime
    BY <1>3 DEF ClaimRuntime
  <1>4. CASE AuthorizeSession
    BY <1>4 DEF AuthorizeSession
  <1>5. CASE AppendRaw
    BY <1>5 DEF AppendRaw, WriteOk, Pending, Raw
  <1>6. CASE Transform
    BY <1>6 DEF Transform
  <1>7. CASE AppendDerived
    BY <1>7 DEF AppendDerived, WriteOk, Pending, Derived
  <1>8. CASE Settle
    BY <1>8 DEF Settle
  <1>9. CASE AttemptHalt
    BY <1>9 DEF AttemptHalt
  <1>10. CASE AuthorizeClose
    BY <1>10 DEF AuthorizeClose
  <1>11. CASE WriteClean
    BY <1>11 DEF WriteClean, WriteOk, Pending, Terminal
  <1>12. CASE AckClean
    BY <1>12 DEF AckClean
  <1>13. CASE MarkClean
    BY <1>13 DEF MarkClean
  <1>14. CASE Call
    BY <1>14 DEF Call, Ingest, CloseHalted, PollEntitlement,
                 CloseSessionEndEarly, CloseClean
  <1>15. CASE Environment
    BY <1>15 DEF Environment, GateChanges, SessionEnds, LatchGlobalHalt,
                 RetireCoordinator, Crash
  <1> QED
    BY <1>1, <1>2, <1>3, <1>4, <1>5, <1>6, <1>7, <1>8, <1>9, <1>10, <1>11,
       <1>12, <1>13, <1>14, <1>15 DEF Next, OwnerStep

(* The counters stay in their ranges and never run ahead of what they     *)
(* count.                                                                  *)
LEMMA CountedStep ==
    ASSUME CountersTyped, StateTyped, CallTyped, Counted, [Next]_vars
    PROVE  CountersTyped' /\ Counted'
  <1> USE RuntimeAssumption
  <1>1. state.raw_count \in 0 .. MaxRaw /\ state.derived_count \in 0 .. MaxRaw
    BY DEF StateTyped
  <1>2. CASE UNCHANGED <<state, trace>>
    BY <1>1, <1>2, CounterStep DEF CountersTyped, Counted
  <1>3. CASE /\ pc = "settle" /\ pc' = "idle"
             /\ state' = reduce_event(state, RawInFlight)
             /\ UNCHANGED writer
    <2>1. /\ state'.raw_count = state.raw_count + 1
          /\ state'.derived_count = state'.raw_count
      BY <1>3, ReduceTyped
    <2> QED BY <1>1, <1>3, <2>1 DEF CountersTyped, Counted, writer
  <1> QED BY <1>2, <1>3, StateStep

(* The tail of the file keeps its type. *)
LEMMA TailStep ==
    ASSUME tail \in {"none", "torn", "corrupt"}, [Next]_vars
    PROVE  tail' \in {"none", "torn", "corrupt"}
  <1> USE DEF file, rt, env, counts, writer, Residue, WritePoisoned,
          WriteFailed, Poison, HaltWritten, HaltWriteFails, CloseWriter,
          PreobservedGlobalHalt, Escapes, Raise, GateDenied, Advance, DiskLow,
          WritePoisons
  <1>1. CASE UNCHANGED vars
    BY <1>1 DEF vars
  <1>2. CASE Create
    BY <1>2 DEF Create, WriteOk
  <1>3. CASE ClaimRuntime
    BY <1>3 DEF ClaimRuntime
  <1>4. CASE AuthorizeSession
    BY <1>4 DEF AuthorizeSession
  <1>5. CASE AppendRaw
    BY <1>5 DEF AppendRaw, WriteOk
  <1>6. CASE Transform
    BY <1>6 DEF Transform
  <1>7. CASE AppendDerived
    BY <1>7 DEF AppendDerived, WriteOk
  <1>8. CASE Settle
    BY <1>8 DEF Settle
  <1>9. CASE AttemptHalt
    BY <1>9 DEF AttemptHalt
  <1>10. CASE AuthorizeClose
    BY <1>10 DEF AuthorizeClose
  <1>11. CASE WriteClean
    BY <1>11 DEF WriteClean, WriteOk
  <1>12. CASE AckClean
    BY <1>12 DEF AckClean
  <1>13. CASE MarkClean
    BY <1>13 DEF MarkClean
  <1>14. CASE Call
    BY <1>14 DEF Call, Ingest, CloseHalted, PollEntitlement,
                 CloseSessionEndEarly, CloseClean
  <1>15. CASE Environment
    BY <1>15 DEF Environment, GateChanges, SessionEnds, LatchGlobalHalt,
                 RetireCoordinator, Crash
  <1> QED
    BY <1>1, <1>2, <1>3, <1>4, <1>5, <1>6, <1>7, <1>8, <1>9, <1>10, <1>11,
       <1>12, <1>13, <1>14, <1>15 DEF Next, OwnerStep

(* Whoever observes the process-wide halt ends with a closed runtime. *)
LEMMA PreobservedCloses ==
    ASSUME PreobservedGlobalHalt
    PROVE  closed' /\ pc' = "idle"
  BY DEF PreobservedGlobalHalt, HaltWritten, HaltWriteFails, CloseWriter, Poison

(* A retired coordinator never reopens a closed runtime. *)
LEMMA EscapesKeeps ==
    ASSUME Escapes
    PROVE  (closed => closed') /\ pc' = "idle" /\ UNCHANGED poisoned
  BY DEF Escapes

(* Poisoning closes, and a closed runtime is never called again. *)
LEMMA PoisonClosesStep ==
    ASSUME FlagsTyped, PoisonCloses, [Next]_vars
    PROVE  PoisonCloses'
  <1> USE PreobservedCloses, EscapesKeeps DEF PoisonCloses, Healthy, Callable,
          file, rt, env, counts, writer, Residue, WritePoisoned, WriteFailed,
          Poison, HaltWritten, HaltWriteFails, CloseWriter, Raise, GateDenied,
          Advance, DiskLow, WritePoisons
  <1>1. CASE UNCHANGED vars
    BY <1>1 DEF vars
  <1>2. CASE Create
    BY <1>2 DEF Create, WriteOk
  <1>3. CASE ClaimRuntime
    BY <1>3 DEF ClaimRuntime
  <1>4. CASE AuthorizeSession
    BY <1>4 DEF AuthorizeSession
  <1>5. CASE AppendRaw
    BY <1>5 DEF AppendRaw, WriteOk
  <1>6. CASE Transform
    BY <1>6 DEF Transform
  <1>7. CASE AppendDerived
    BY <1>7 DEF AppendDerived, WriteOk
  <1>8. CASE Settle
    BY <1>8 DEF Settle
  <1>9. CASE AttemptHalt
    <2>1. \/ closed' /\ pc' = "idle"
          \/ (closed => closed') /\ pc' = "idle" /\ UNCHANGED poisoned
      BY <1>9 DEF AttemptHalt
    <2> QED BY <2>1
  <1>10. CASE AuthorizeClose
    BY <1>10 DEF AuthorizeClose
  <1>11. CASE WriteClean
    BY <1>11 DEF WriteClean, WriteOk
  <1>12. CASE AckClean
    BY <1>12 DEF AckClean
  <1>13. CASE MarkClean
    BY <1>13 DEF MarkClean
  <1>14. CASE Call
    BY <1>14 DEF Call, Ingest, CloseHalted, PollEntitlement,
                 CloseSessionEndEarly, CloseClean
  <1>15. CASE Environment
    BY <1>15 DEF Environment, GateChanges, SessionEnds, LatchGlobalHalt,
                 RetireCoordinator, Crash
  <1> QED
    BY <1>1, <1>2, <1>3, <1>4, <1>5, <1>6, <1>7, <1>8, <1>9, <1>10, <1>11,
       <1>12, <1>13, <1>14, <1>15 DEF Next, OwnerStep

(* What is applied, and when the session may be called. *)
LEMMA AppliedStep ==
    ASSUME PoisonCloses, AppliedWhenQuiet, FlagsTyped, EnvTyped, [Next]_vars
    PROVE  AppliedWhenQuiet'
  <1> USE DEF PoisonCloses, AppliedWhenQuiet, FlagsTyped, EnvTyped, Quiet,
          Healthy, Callable, file, rt, env, counts, writer, Residue,
          WritePoisoned, WriteFailed, Poison, HaltWritten, HaltWriteFails,
          CloseWriter, PreobservedGlobalHalt, Escapes, Raise, GateDenied,
          Advance, DiskLow, WritePoisons
  <1>1. CASE UNCHANGED vars
    BY <1>1 DEF vars
  <1>2. CASE Create
    BY <1>2 DEF Create, WriteOk, Start
  <1>3. CASE ClaimRuntime
    BY <1>3 DEF ClaimRuntime
  <1>4. CASE AuthorizeSession
    BY <1>4 DEF AuthorizeSession
  <1>5. CASE AppendRaw
    BY <1>5 DEF AppendRaw, WriteOk
  <1>6. CASE Transform
    BY <1>6 DEF Transform
  <1>7. CASE AppendDerived
    BY <1>7 DEF AppendDerived, WriteOk
  <1>8. CASE Settle
    <2>1. \/ closed' \/ pc' = "halting"
          \/ state' = reduce_event(state, RawInFlight) /\ UNCHANGED writer
      BY <1>8, PreobservedCloses DEF Settle
    <2>2. CASE state' = reduce_event(state, RawInFlight) /\ UNCHANGED writer
      <3>1. state'.last_applied = latest_raw'
        BY <2>2 DEF reduce_event, RawInFlight, Raw, writer
      <3> QED BY <3>1
    <2> QED BY <2>1, <2>2
  <1>9. CASE AttemptHalt
    BY <1>9 DEF AttemptHalt
  <1>10. CASE AuthorizeClose
    BY <1>10 DEF AuthorizeClose
  <1>11. CASE WriteClean
    BY <1>11 DEF WriteClean, WriteOk
  <1>12. CASE AckClean
    BY <1>12 DEF AckClean
  <1>13. CASE MarkClean
    BY <1>13 DEF MarkClean
  <1>14. CASE Call
    BY <1>14 DEF Call, Ingest, CloseHalted, PollEntitlement,
                 CloseSessionEndEarly, CloseClean
  <1>15. CASE Environment
    BY <1>15 DEF Environment, GateChanges, SessionEnds, LatchGlobalHalt,
                 RetireCoordinator, Crash
  <1> QED
    BY <1>1, <1>2, <1>3, <1>4, <1>5, <1>6, <1>7, <1>8, <1>9, <1>10, <1>11,
       <1>12, <1>13, <1>14, <1>15 DEF Next, OwnerStep

(* A denial leads to a closed session, whatever happens in between. *)
LEMMA DenialStep ==
    ASSUME PoisonCloses, DenialHeld, FlagsTyped, EnvTyped, [Next]_vars
    PROVE  DenialHeld'
  <1> USE DEF PoisonCloses, DenialHeld, FlagsTyped, EnvTyped, Healthy,
          Callable, Coordinated, file, rt, env, counts, writer, Residue,
          WritePoisoned, WriteFailed, Poison, HaltWritten, HaltWriteFails,
          CloseWriter, PreobservedGlobalHalt, Escapes, Raise, GateDenied,
          Advance, DiskLow, WritePoisons
  <1>1. CASE UNCHANGED vars
    BY <1>1 DEF vars
  <1>2. CASE Create
    BY <1>2 DEF Create, WriteOk
  <1>3. CASE ClaimRuntime
    BY <1>3 DEF ClaimRuntime
  <1>4. CASE AuthorizeSession
    BY <1>4 DEF AuthorizeSession
  <1>5. CASE AppendRaw
    BY <1>5 DEF AppendRaw, WriteOk
  <1>6. CASE Transform
    BY <1>6 DEF Transform
  <1>7. CASE AppendDerived
    BY <1>7 DEF AppendDerived, WriteOk
  <1>8. CASE Settle
    BY <1>8 DEF Settle
  <1>9. CASE AttemptHalt
    BY <1>9 DEF AttemptHalt
  <1>10. CASE AuthorizeClose
    BY <1>10 DEF AuthorizeClose
  <1>11. CASE WriteClean
    BY <1>11 DEF WriteClean, WriteOk
  <1>12. CASE AckClean
    BY <1>12 DEF AckClean
  <1>13. CASE MarkClean
    BY <1>13 DEF MarkClean
  <1>14. CASE Call
    BY <1>14 DEF Call, Ingest, CloseHalted, PollEntitlement,
                 CloseSessionEndEarly, CloseClean
  <1>15. CASE Environment
    BY <1>15 DEF Environment, GateChanges, SessionEnds, LatchGlobalHalt,
                 RetireCoordinator, Crash
  <1> QED
    BY <1>1, <1>2, <1>3, <1>4, <1>5, <1>6, <1>7, <1>8, <1>9, <1>10, <1>11,
       <1>12, <1>13, <1>14, <1>15 DEF Next, OwnerStep

(* No step writes to the file of a closed runtime. *)
LEMMA SealedStep ==
    ASSUME PoisonCloses, closed \/ pc \in {"ack", "down"}, [Next]_vars
    PROVE  /\ UNCHANGED file
           /\ closed' \/ pc' \in {"ack", "down"}
  <1> USE DEF PoisonCloses, Healthy, Callable, Writing, file, rt, env, counts,
          writer, Residue, WritePoisoned, WriteFailed, Poison, HaltWritten,
          HaltWriteFails, CloseWriter, PreobservedGlobalHalt, Escapes, Raise,
          GateDenied, Advance, DiskLow, WritePoisons
  <1>1. CASE UNCHANGED vars
    BY <1>1 DEF vars
  <1>2. CASE Create
    BY <1>2 DEF Create, WriteOk
  <1>3. CASE ClaimRuntime
    BY <1>3 DEF ClaimRuntime
  <1>4. CASE AuthorizeSession
    BY <1>4 DEF AuthorizeSession
  <1>5. CASE AppendRaw
    BY <1>5 DEF AppendRaw, WriteOk
  <1>6. CASE Transform
    BY <1>6 DEF Transform
  <1>7. CASE AppendDerived
    BY <1>7 DEF AppendDerived, WriteOk
  <1>8. CASE Settle
    BY <1>8 DEF Settle
  <1>9. CASE AttemptHalt
    BY <1>9 DEF AttemptHalt
  <1>10. CASE AuthorizeClose
    BY <1>10 DEF AuthorizeClose
  <1>11. CASE WriteClean
    BY <1>11 DEF WriteClean, WriteOk
  <1>12. CASE AckClean
    BY <1>12 DEF AckClean
  <1>13. CASE MarkClean
    BY <1>13 DEF MarkClean
  <1>14. CASE Call
    BY <1>14 DEF Call, Ingest, CloseHalted, PollEntitlement,
                 CloseSessionEndEarly, CloseClean
  <1>15. CASE Environment
    BY <1>15 DEF Environment, GateChanges, SessionEnds, LatchGlobalHalt,
                 RetireCoordinator, Crash
  <1> QED
    BY <1>1, <1>2, <1>3, <1>4, <1>5, <1>6, <1>7, <1>8, <1>9, <1>10, <1>11,
       <1>12, <1>13, <1>14, <1>15 DEF Next, OwnerStep

(* What seals the file closes the runtime. *)
LEMMA SealingStep ==
    ASSUME PoisonCloses, [Next]_vars
    PROVE  \/ UNCHANGED file
           \/ closed' \/ pc' \in {"ack", "down"}
           \/ UNCHANGED tail /\ \E rec : rec.kind # "HALT" /\ wal' = Append(wal, rec)
  <1> USE DEF PoisonCloses, Healthy, Callable, Writing, WriteOk, Pending,
          Start, Raw, Derived, file, rt, env, counts, writer, Residue,
          WritePoisoned, WriteFailed, Poison, HaltWritten, HaltWriteFails,
          CloseWriter, PreobservedGlobalHalt, Escapes, Raise, GateDenied,
          Advance, DiskLow, WritePoisons
  <1>1. CASE UNCHANGED vars
    BY <1>1 DEF vars
  <1>2. CASE Create
    BY <1>2 DEF Create, WriteOk
  <1>3. CASE ClaimRuntime
    BY <1>3 DEF ClaimRuntime
  <1>4. CASE AuthorizeSession
    BY <1>4 DEF AuthorizeSession
  <1>5. CASE AppendRaw
    BY <1>5 DEF AppendRaw, WriteOk
  <1>6. CASE Transform
    BY <1>6 DEF Transform
  <1>7. CASE AppendDerived
    BY <1>7 DEF AppendDerived, WriteOk
  <1>8. CASE Settle
    BY <1>8 DEF Settle
  <1>9. CASE AttemptHalt
    BY <1>9 DEF AttemptHalt
  <1>10. CASE AuthorizeClose
    BY <1>10 DEF AuthorizeClose
  <1>11. CASE WriteClean
    BY <1>11 DEF WriteClean, WriteOk
  <1>12. CASE AckClean
    BY <1>12 DEF AckClean
  <1>13. CASE MarkClean
    BY <1>13 DEF MarkClean
  <1>14. CASE Call
    BY <1>14 DEF Call, Ingest, CloseHalted, PollEntitlement,
                 CloseSessionEndEarly, CloseClean
  <1>15. CASE Environment
    BY <1>15 DEF Environment, GateChanges, SessionEnds, LatchGlobalHalt,
                 RetireCoordinator, Crash
  <1> QED
    BY <1>1, <1>2, <1>3, <1>4, <1>5, <1>6, <1>7, <1>8, <1>9, <1>10, <1>11,
       <1>12, <1>13, <1>14, <1>15 DEF Next, OwnerStep

(* Once denied, the only frame that can be appended is a terminal. *)
LEMMA DeniedWrite ==
    ASSUME DenialHeld, PoisonCloses, denied, [Next]_vars
    PROVE  \/ UNCHANGED wal
           \/ \E rec : rec.kind = "HALT" /\ wal' = Append(wal, rec)
  <1> USE DEF DenialHeld, PoisonCloses, Healthy, Callable, Writing, WriteOk,
          Pending, Terminal, Coordinated, file, rt, env, counts, writer,
          Residue, WritePoisoned, WriteFailed, Poison, HaltWritten,
          HaltWriteFails, CloseWriter, PreobservedGlobalHalt, Escapes, Raise,
          GateDenied, Advance, DiskLow, WritePoisons
  <1>1. CASE UNCHANGED vars
    BY <1>1 DEF vars
  <1>2. CASE Create
    BY <1>2 DEF Create, WriteOk
  <1>3. CASE ClaimRuntime
    BY <1>3 DEF ClaimRuntime
  <1>4. CASE AuthorizeSession
    BY <1>4 DEF AuthorizeSession
  <1>5. CASE AppendRaw
    BY <1>5 DEF AppendRaw, WriteOk
  <1>6. CASE Transform
    BY <1>6 DEF Transform
  <1>7. CASE AppendDerived
    BY <1>7 DEF AppendDerived, WriteOk
  <1>8. CASE Settle
    BY <1>8 DEF Settle
  <1>9. CASE AttemptHalt
    BY <1>9 DEF AttemptHalt
  <1>10. CASE AuthorizeClose
    BY <1>10 DEF AuthorizeClose
  <1>11. CASE WriteClean
    BY <1>11 DEF WriteClean, WriteOk
  <1>12. CASE AckClean
    BY <1>12 DEF AckClean
  <1>13. CASE MarkClean
    BY <1>13 DEF MarkClean
  <1>14. CASE Call
    BY <1>14 DEF Call, Ingest, CloseHalted, PollEntitlement,
                 CloseSessionEndEarly, CloseClean
  <1>15. CASE Environment
    BY <1>15 DEF Environment, GateChanges, SessionEnds, LatchGlobalHalt,
                 RetireCoordinator, Crash
  <1> QED
    BY <1>1, <1>2, <1>3, <1>4, <1>5, <1>6, <1>7, <1>8, <1>9, <1>10, <1>11,
       <1>12, <1>13, <1>14, <1>15 DEF Next, OwnerStep

(* The state and the trace keep their types, one trace entry per record.   *)
LEMMA StateTypedStep ==
    ASSUME StateTyped, CountersTyped, CallTyped, Counted, TraceSeq, [Next]_vars
    PROVE  StateTyped' /\ TraceSeq'
  <1>1. CASE UNCHANGED <<state, trace>>
    BY <1>1 DEF StateTyped, TraceSeq
  <1>2. CASE /\ pc = "settle"
             /\ state' = reduce_event(state, RawInFlight)
             /\ \E e : trace' = Append(trace, e)
    <2>1. PICK e : trace' = Append(trace, e)
      BY <1>2
    <2>2. PICK S : trace \in Seq(S)
      BY DEF TraceSeq
    <2>3. trace' \in Seq(S \cup {e}) /\ Len(trace') = Len(trace) + 1
      BY <2>1, <2>2
    <2>4. TraceSeq'
      BY <2>3 DEF TraceSeq
    <2> QED BY <1>2, <2>3, <2>4, ReduceTyped DEF StateTyped
  <1> QED BY <1>1, <1>2, StateStep

(* Every step keeps the types and the order of the counters. *)
LEMMA TypedStep ==
    ASSUME Typed, [Next]_vars
    PROVE  Typed'
  <1>1. FileTyped' /\ WalSeq'
    BY StepKeepsFrames, KindsKept, TailStep DEF Typed, TypeOK, FileTyped
  <1>2. CountersTyped' /\ Counted'
    BY CountedStep DEF Typed, TypeOK
  <1>3. StateTyped' /\ TraceSeq'
    BY StateTypedStep DEF Typed, TypeOK
  <1>4. FlagsTyped' /\ EnvTyped' /\ CallTyped'
    BY FlagsTypedStep, EnvTypedStep, CallTypedStep DEF Typed, TypeOK
  <1> QED BY <1>1, <1>2, <1>3, <1>4 DEF Typed, TypeOK

LEMMA TypedInit ==
    ASSUME Init
    PROVE  Typed
  <1> USE RuntimeAssumption DEF Init
  <1>1. FileTyped /\ WalSeq
    BY DEF FileTyped, WalSeq
  <1>2. /\ initial_state.raw_count = 0 /\ initial_state.derived_count = 0
        /\ initial_state \in [last_applied : Nat, raw_count : 0 .. MaxRaw,
                derived_count : 0 .. MaxRaw,
                epochs : [Sources -> (0 .. MaxEpoch) \cup {NoEpoch}]]
    BY DEF initial_state, NoEpoch
  <1>3. StateTyped /\ TraceSeq
    BY <1>2 DEF StateTyped, TraceSeq, initial_trace
  <1>4. CountersTyped /\ Counted
    BY <1>2 DEF CountersTyped, Counted
  <1>5. FlagsTyped /\ EnvTyped /\ CallTyped
    BY DEF FlagsTyped, EnvTyped, CallTyped, Busy, NoReason
  <1> QED BY <1>1, <1>3, <1>4, <1>5 DEF Typed, TypeOK

(* Every step keeps the control invariant. *)
LEMMA ControlledStep ==
    ASSUME Typed, Controlled, [Next]_vars
    PROVE  Controlled'
  <1>1. PoisonCloses' /\ AppliedWhenQuiet' /\ DenialHeld'
    BY PoisonClosesStep, AppliedStep, DenialStep DEF Controlled, Typed, TypeOK
  <1>2. SealHeld'
    <2>1. CASE closed \/ pc \in {"ack", "down"}
      BY <2>1, SealedStep DEF Controlled, SealHeld
    <2>2. CASE UNCHANGED file /\ ~Sealed
      BY <2>2 DEF SealHeld, Sealed, file
    <2>3. CASE UNCHANGED tail /\ \E rec : rec.kind # "HALT" /\ wal' = Append(wal, rec)
      <3>1. PICK rec : rec.kind # "HALT" /\ wal' = Append(wal, rec)
        BY <2>3
      <3>2. PICK S : wal \in Seq(S)
        BY DEF Typed, WalSeq
      <3>3. ASSUME NEW i \in DOMAIN wal', (wal'[i]).kind = "HALT"
            PROVE  i \in DOMAIN wal /\ wal[i].kind = "HALT"
        BY <3>1, <3>2, <3>3, AppendKeeps
      <3>4. Sealed' => Sealed
        BY <2>3, <3>3 DEF Sealed
      <3> QED BY <3>4, <2>1 DEF Controlled, SealHeld
    <2> QED BY <2>1, <2>2, <2>3, SealingStep DEF Controlled, SealHeld
  <1> QED BY <1>1, <1>2 DEF Controlled

LEMMA ControlledInit ==
    ASSUME Init
    PROVE  Controlled
  <1>1. PoisonCloses /\ SealHeld /\ DenialHeld
    BY DEF Init, PoisonCloses, SealHeld, Sealed, DenialHeld
  <1>2. AppliedWhenQuiet
    BY DEF Init, AppliedWhenQuiet, initial_state
  <1> QED BY <1>1, <1>2 DEF Controlled

(* The inductive invariant of the session. *)
IInv == Typed /\ Controlled

(* In every state of a session the types hold and the control invariant    *)
(* with them: the three facts of the induction.                            *)
THEOREM SessionInvariant == Spec => []IInv
  <1>1. Init => IInv
    BY TypedInit, ControlledInit DEF IInv
  <1>2. IInv /\ [Next]_vars => IInv'
    BY TypedStep, ControlledStep DEF IInv
  <1> QED BY <1>1, <1>2, PTL DEF Spec

(* The writer's and the runtime's counters stay within the records a       *)
(* session holds, whatever fails and whatever is interrupted.              *)
THEOREM TypeCorrect == Spec => []TypeOK
  <1>1. IInv => TypeOK
    BY DEF IInv, Typed
  <1> QED BY <1>1, SessionInvariant, PTL

(* A usable runtime has applied every durable raw record of its journal,   *)
(* unless its coordinator was retired (EventRuntime.ingest).               *)
THEOREM NoOrphan == Spec => []NoOrphanRawWhileUsable
  <1>1. IInv => NoOrphanRawWhileUsable
    BY DEF IInv, Controlled, AppliedWhenQuiet, NoOrphanRawWhileUsable,
           Callable, Healthy, Quiet
  <1> QED BY <1>1, SessionInvariant, PTL

(* Nothing is written after uncertain bytes or a terminal, and the frames  *)
(* of the file never change (JournalWriter._poisoned and _closed).         *)
THEOREM AppendOnly == Spec => NothingAfterUncertainBytes
  <1>1. IInv /\ [Next]_vars =>
           [ /\ \A i \in DOMAIN wal : i \in DOMAIN wal' /\ wal'[i] = wal[i]
             /\ Sealed => UNCHANGED file ]_vars
    <2> SUFFICES ASSUME IInv, [Next]_vars
                 PROVE  /\ \A i \in DOMAIN wal : i \in DOMAIN wal' /\ wal'[i] = wal[i]
                        /\ Sealed => UNCHANGED file
      OBVIOUS
    <2>1. \A i \in DOMAIN wal : i \in DOMAIN wal' /\ wal'[i] = wal[i]
      BY StepKeepsFrames DEF IInv, Typed
    <2>2. Sealed => UNCHANGED file
      BY SealedStep DEF IInv, Controlled, SealHeld
    <2> QED BY <2>1, <2>2
  <1> QED BY <1>1, SessionInvariant, PTL DEF Spec, NothingAfterUncertainBytes

(* One denied authorization ends the provider records of the session for   *)
(* good, even when the next poll of the gate would be granted.             *)
THEOREM DenialIsFinal == Spec => DenialLatches
  <1>1. IInv /\ [Next]_vars =>
           [denied => \A i \in DOMAIN wal' \ DOMAIN wal : (wal'[i]).kind = "HALT"]_vars
    <2> SUFFICES ASSUME IInv, [Next]_vars, denied,
                        NEW i \in DOMAIN wal' \ DOMAIN wal
                 PROVE  (wal'[i]).kind = "HALT"
      OBVIOUS
    <2>1. PICK rec : rec.kind = "HALT" /\ wal' = Append(wal, rec)
      BY DeniedWrite DEF IInv, Controlled
    <2>2. PICK S : wal \in Seq(S)
      BY DEF IInv, Typed, WalSeq
    <2> QED BY <2>1, <2>2, AppendKeeps
  <1> QED BY <1>1, SessionInvariant, PTL DEF Spec, DenialLatches

-----------------------------------------------------------------------------
(* Reading a journal back.                                                 *)
(*                                                                         *)
(* Walk and ReplayRecords fold the frames of a file from its first to its  *)
(* last.  What a fold returns of one more frame follows by induction on    *)
(* the length, from the well-foundedness of the naturals.                  *)

(* The naturals are well founded: a set of them has a least one. *)
LEMMA LessIsWellFounded ==
    \E R : /\ IsWellFoundedOn(R, Nat)
           /\ \A x, y \in Nat : <<y, x>> \in R <=> y < x
  <1>1. IsWellFoundedOn(OpToRel(<, Nat), Nat)
    BY NatLessThanWellFounded
  <1>2. \A x, y \in Nat : <<y, x>> \in OpToRel(<, Nat) <=> y < x
    BY DEF OpToRel
  <1> QED BY <1>1, <1>2, Zenon

LEMMA LeastElement ==
    ASSUME NEW T, T \subseteq Nat, T # {}
    PROVE  \E n \in T : \A m \in T : n <= m
  <1>1. PICK R : /\ IsWellFoundedOn(R, Nat)
                 /\ \A x, y \in Nat : <<y, x>> \in R <=> y < x
    BY LessIsWellFounded
  <1>2. PICK n \in T : \A m \in T : ~(<<m, n>> \in R)
    BY <1>1, WFMin
  <1>3. ASSUME NEW m \in T PROVE n <= m
    <2>1. n \in Nat /\ m \in Nat
      OBVIOUS
    <2>2. ~(m < n)
      BY <1>1, <1>2, <2>1
    <2> QED BY <2>1, <2>2
  <1> QED BY <1>3

(* Induction up to a bound, for a property given by its extension. *)
LEMMA InductionUpTo ==
    ASSUME NEW n \in Nat, NEW T, 0 \in T,
           \A i \in 0 .. n - 1 : i \in T => i + 1 \in T
    PROVE  0 .. n \subseteq T
  <1> SUFFICES ASSUME (0 .. n) \ T # {} PROVE FALSE
    OBVIOUS
  <1>1. PICK k \in (0 .. n) \ T : \A m \in (0 .. n) \ T : k <= m
    <2>1. (0 .. n) \ T \subseteq Nat
      OBVIOUS
    <2> QED BY <2>1, LeastElement
  <1>2. k # 0 /\ k - 1 \in 0 .. n - 1
    BY <1>1
  <1>3. k - 1 \in T
    BY <1>1, <1>2
  <1> QED BY <1>1, <1>2, <1>3

(* f holds what the walk has read after each of the first n frames. *)
WalkTable(w, n, f) ==
    f = [i \in 0 .. n |-> IF i = 0 THEN WalkStart ELSE WalkFrame(f[i - 1], w[i], i)]

LEMMA WalkIs == \A w : Walk(w) = (CHOOSE f : WalkTable(w, Len(w), f))[Len(w)]
  BY DEF Walk, WalkTable

LEMMA WalkTableExists ==
    ASSUME NEW w, NEW n \in Nat
    PROVE  \E f : WalkTable(w, n, f)
  <1> DEFINE T == {i \in Nat : \E f : WalkTable(w, i, f)}
  <1>1. 0 \in T
    <2> DEFINE f == [i \in 0 .. 0 |-> WalkStart]
    <2>1. WalkTable(w, 0, f)
      BY DEF WalkTable
    <2> QED BY <2>1
  <1>2. ASSUME NEW i \in 0 .. n - 1, i \in T PROVE i + 1 \in T
    <2>1. PICK f : WalkTable(w, i, f)
      BY <1>2
    <2> DEFINE g == [j \in 0 .. i + 1 |->
                       IF j = i + 1 THEN WalkFrame(f[i], w[i + 1], i + 1) ELSE f[j]]
    <2>2. ASSUME NEW j \in 0 .. i + 1
          PROVE  g[j] = IF j = 0 THEN WalkStart ELSE WalkFrame(g[j - 1], w[j], j)
      <3>1. CASE j = i + 1
        <4>1. j - 1 = i /\ j # 0 /\ g[i] = f[i]
          BY <3>1
        <4> QED BY <3>1, <4>1
      <3>2. CASE j # i + 1
        <4>1. j \in 0 .. i /\ g[j] = f[j]
          BY <3>2
        <4>2. f[j] = IF j = 0 THEN WalkStart ELSE WalkFrame(f[j - 1], w[j], j)
          BY <2>1, <4>1 DEF WalkTable
        <4>3. j # 0 => g[j - 1] = f[j - 1]
          BY <4>1
        <4> QED BY <4>1, <4>2, <4>3
      <3> QED BY <3>1, <3>2
    <2>3. WalkTable(w, i + 1, g)
      <3> HIDE DEF g
      <3>1. g = [j \in 0 .. i + 1 |-> g[j]]
        BY DEF g
      <3> QED BY <2>2, <3>1 DEF WalkTable
    <2> QED BY <2>3
  <1> HIDE DEF T
  <1>3. 0 .. n \subseteq T
    BY <1>1, <1>2, InductionUpTo
  <1>4. n \in T
    BY <1>3
  <1> QED BY <1>4 DEF T

LEMMA WalkTablesAgree ==
    ASSUME NEW w, NEW v, NEW n \in Nat, NEW m \in Nat, NEW f, NEW g,
           WalkTable(w, n, f), WalkTable(v, m, g),
           NEW k \in Nat, k <= n, k <= m, \A i \in 1 .. k : w[i] = v[i]
    PROVE  f[k] = g[k]
  <1> DEFINE T == {i \in Nat : f[i] = g[i]}
  <1>1. 0 \in T
    BY DEF WalkTable
  <1>2. ASSUME NEW i \in 0 .. k - 1, i \in T PROVE i + 1 \in T
    <2>1. i + 1 \in 0 .. n /\ i + 1 \in 0 .. m /\ i + 1 \in 1 .. k /\ i + 1 # 0
      OBVIOUS
    <2>2. f[i + 1] = WalkFrame(f[i + 1 - 1], w[i + 1], i + 1)
      BY <2>1 DEF WalkTable
    <2>3. g[i + 1] = WalkFrame(g[i + 1 - 1], v[i + 1], i + 1)
      BY <2>1 DEF WalkTable
    <2>4. i + 1 - 1 = i /\ f[i] = g[i] /\ w[i + 1] = v[i + 1] /\ i + 1 \in Nat
      BY <1>2, <2>1
    <2> QED BY <2>2, <2>3, <2>4
  <1> HIDE DEF T
  <1>3. k \in T
    BY <1>1, <1>2, InductionUpTo
  <1> QED BY <1>3 DEF T

LEMMA WalkEmpty == Walk(<<>>) = WalkStart
  <1>1. PICK f : WalkTable(<<>>, 0, f)
    BY WalkTableExists
  <1> DEFINE g == CHOOSE h : WalkTable(<<>>, 0, h)
  <1>2. WalkTable(<<>>, 0, g)
    BY <1>1, Zenon
  <1>3. Len(<<>>) = 0
    OBVIOUS
  <1>4. Walk(<<>>) = g[0]
    BY <1>3, WalkIs, Zenon
  <1> HIDE DEF g
  <1> QED BY <1>2, <1>4 DEF WalkTable

LEMMA WalkAppend ==
    ASSUME NEW S, NEW w \in Seq(S), NEW x
    PROVE  Walk(Append(w, x)) = WalkFrame(Walk(w), x, Len(w) + 1)
  <1> DEFINE n == Len(w)
             v == Append(w, x)
             f == CHOOSE h : WalkTable(w, n, h)
             g == CHOOSE h : WalkTable(v, n + 1, h)
  <1>1. v \in Seq(S \cup {x}) /\ Len(v) = n + 1 /\ v[n + 1] = x /\ n \in Nat
        /\ \A i \in 1 .. n : v[i] = w[i]
    <2>1. w \in Seq(S \cup {x})
      OBVIOUS
    <2> QED BY <2>1
  <1>2. WalkTable(w, n, f)
    BY <1>1, WalkTableExists, Zenon
  <1>3. WalkTable(v, n + 1, g)
    <2>1. n + 1 \in Nat
      BY <1>1
    <2> QED BY <2>1, WalkTableExists, Zenon
  <1>4. Walk(w) = f[n]
    BY WalkIs, Zenon
  <1>5. Walk(v) = g[n + 1]
    BY <1>1, WalkIs, Zenon
  <1> HIDE DEF f, g, v, n
  <1>6. g[n] = f[n]
    BY <1>1, <1>2, <1>3, WalkTablesAgree
  <1>7. g[n + 1] = WalkFrame(g[n + 1 - 1], v[n + 1], n + 1)
    BY <1>1, <1>3 DEF WalkTable
  <1>8. Walk(v) = WalkFrame(Walk(w), x, n + 1)
    <2>1. n + 1 - 1 = n
      BY <1>1
    <2> QED BY <1>1, <1>4, <1>5, <1>6, <1>7, <2>1
  <1> QED BY <1>8 DEF n, v

(* The replay before it looks at what is pending. *)
ReplayOf(w) ==
    LET at[i \in 0 .. Len(w)] ==
          IF i = 0 THEN ReplayStart ELSE ReplayRecord(at[i - 1], w[i])
    IN  at[Len(w)]

LEMMA ReplayFinishes == \A w : ReplayRecords(w) = FinishPending(ReplayOf(w))
  BY DEF ReplayRecords, ReplayOf

(* f holds what the replay has reached after each of the first n frames. *)
ReplayTable(w, n, f) ==
    f = [i \in 0 .. n |-> IF i = 0 THEN ReplayStart ELSE ReplayRecord(f[i - 1], w[i])]

LEMMA ReplayIs == \A w : ReplayOf(w) = (CHOOSE f : ReplayTable(w, Len(w), f))[Len(w)]
  BY DEF ReplayOf, ReplayTable

LEMMA ReplayTableExists ==
    ASSUME NEW w, NEW n \in Nat
    PROVE  \E f : ReplayTable(w, n, f)
  <1> DEFINE T == {i \in Nat : \E f : ReplayTable(w, i, f)}
  <1>1. 0 \in T
    <2> DEFINE f == [i \in 0 .. 0 |-> ReplayStart]
    <2>1. ReplayTable(w, 0, f)
      BY DEF ReplayTable
    <2> QED BY <2>1
  <1>2. ASSUME NEW i \in 0 .. n - 1, i \in T PROVE i + 1 \in T
    <2>1. PICK f : ReplayTable(w, i, f)
      BY <1>2
    <2> DEFINE g == [j \in 0 .. i + 1 |->
                       IF j = i + 1 THEN ReplayRecord(f[i], w[i + 1]) ELSE f[j]]
    <2>2. ASSUME NEW j \in 0 .. i + 1
          PROVE  g[j] = IF j = 0 THEN ReplayStart ELSE ReplayRecord(g[j - 1], w[j])
      <3>1. CASE j = i + 1
        <4>1. j - 1 = i /\ j # 0 /\ g[i] = f[i]
          BY <3>1
        <4> QED BY <3>1, <4>1
      <3>2. CASE j # i + 1
        <4>1. j \in 0 .. i /\ g[j] = f[j]
          BY <3>2
        <4>2. f[j] = IF j = 0 THEN ReplayStart ELSE ReplayRecord(f[j - 1], w[j])
          BY <2>1, <4>1 DEF ReplayTable
        <4>3. j # 0 => g[j - 1] = f[j - 1]
          BY <4>1
        <4> QED BY <4>1, <4>2, <4>3
      <3> QED BY <3>1, <3>2
    <2>3. ReplayTable(w, i + 1, g)
      <3> HIDE DEF g
      <3>1. g = [j \in 0 .. i + 1 |-> g[j]]
        BY DEF g
      <3> QED BY <2>2, <3>1 DEF ReplayTable
    <2> QED BY <2>3
  <1> HIDE DEF T
  <1>3. 0 .. n \subseteq T
    BY <1>1, <1>2, InductionUpTo
  <1>4. n \in T
    BY <1>3
  <1> QED BY <1>4 DEF T

LEMMA ReplayTablesAgree ==
    ASSUME NEW w, NEW v, NEW n \in Nat, NEW m \in Nat, NEW f, NEW g,
           ReplayTable(w, n, f), ReplayTable(v, m, g),
           NEW k \in Nat, k <= n, k <= m, \A i \in 1 .. k : w[i] = v[i]
    PROVE  f[k] = g[k]
  <1> DEFINE T == {i \in Nat : f[i] = g[i]}
  <1>1. 0 \in T
    BY DEF ReplayTable
  <1>2. ASSUME NEW i \in 0 .. k - 1, i \in T PROVE i + 1 \in T
    <2>1. i + 1 \in 0 .. n /\ i + 1 \in 0 .. m /\ i + 1 \in 1 .. k /\ i + 1 # 0
      OBVIOUS
    <2>2. f[i + 1] = ReplayRecord(f[i + 1 - 1], w[i + 1])
      BY <2>1 DEF ReplayTable
    <2>3. g[i + 1] = ReplayRecord(g[i + 1 - 1], v[i + 1])
      BY <2>1 DEF ReplayTable
    <2>4. i + 1 - 1 = i /\ f[i] = g[i] /\ w[i + 1] = v[i + 1] /\ i + 1 \in Nat
      BY <1>2, <2>1
    <2> QED BY <2>2, <2>3, <2>4
  <1> HIDE DEF T
  <1>3. k \in T
    BY <1>1, <1>2, InductionUpTo
  <1> QED BY <1>3 DEF T

LEMMA ReplayEmpty == ReplayOf(<<>>) = ReplayStart
  <1>1. PICK f : ReplayTable(<<>>, 0, f)
    BY ReplayTableExists
  <1> DEFINE g == CHOOSE h : ReplayTable(<<>>, 0, h)
  <1>2. ReplayTable(<<>>, 0, g)
    BY <1>1, Zenon
  <1>3. Len(<<>>) = 0
    OBVIOUS
  <1>4. ReplayOf(<<>>) = g[0]
    BY <1>3, ReplayIs, Zenon
  <1> HIDE DEF g
  <1> QED BY <1>2, <1>4 DEF ReplayTable

LEMMA ReplayAppend ==
    ASSUME NEW S, NEW w \in Seq(S), NEW x
    PROVE  ReplayOf(Append(w, x)) = ReplayRecord(ReplayOf(w), x)
  <1> DEFINE n == Len(w)
             v == Append(w, x)
             f == CHOOSE h : ReplayTable(w, n, h)
             g == CHOOSE h : ReplayTable(v, n + 1, h)
  <1>1. v \in Seq(S \cup {x}) /\ Len(v) = n + 1 /\ v[n + 1] = x /\ n \in Nat
        /\ \A i \in 1 .. n : v[i] = w[i]
    <2>1. w \in Seq(S \cup {x})
      OBVIOUS
    <2> QED BY <2>1
  <1>2. ReplayTable(w, n, f)
    BY <1>1, ReplayTableExists, Zenon
  <1>3. ReplayTable(v, n + 1, g)
    <2>1. n + 1 \in Nat
      BY <1>1
    <2> QED BY <2>1, ReplayTableExists, Zenon
  <1>4. ReplayOf(w) = f[n]
    BY ReplayIs, Zenon
  <1>5. ReplayOf(v) = g[n + 1]
    BY <1>1, ReplayIs, Zenon
  <1> HIDE DEF f, g, v, n
  <1>6. g[n] = f[n]
    BY <1>1, <1>2, <1>3, ReplayTablesAgree
  <1>7. g[n + 1] = ReplayRecord(g[n + 1 - 1], v[n + 1])
    BY <1>1, <1>3 DEF ReplayTable
  <1>8. ReplayOf(v) = ReplayRecord(ReplayOf(w), x)
    <2>1. n + 1 - 1 = n
      BY <1>1
    <2> QED BY <1>1, <1>4, <1>5, <1>6, <1>7, <2>1
  <1> QED BY <1>8 DEF n, v

-----------------------------------------------------------------------------
(* What the journal holds, and what reading it back returns.               *)

(* The frames of the applied records: the start, then every raw record     *)
(* with its derived record behind it.                                      *)
Settled == 2 * state.raw_count + 1

Replayed(st, tr, outputs, frames) ==
    [state |-> st, trace |-> tr, failed |-> FALSE, expected |-> outputs,
     stored |-> frames, mismatch |-> NoMismatch]

ReadBack == Replayed(state, trace, << >>, << >>)

(* While the runtime is open the walk over the file returns the writer's   *)
(* counts.                                                                 *)
Live == ~closed /\ pc \notin {"boot", "ack", "down"}

Walked(rs, ds, last) ==
    [error |-> FALSE, raws |-> rs, deriveds |-> ds, last_raw |-> last,
     terminal |-> FALSE, clean |-> FALSE]

Counts == Walked(raws, deriveds, latest_raw)

Written ==
    /\ pc = "boot" => wal = << >> /\ tail = "none" /\ next_seq = 1
                      /\ {records, raws, deriveds, latest_raw} = {0}
    /\ Live => /\ tail = "none"
               /\ next_seq = Len(wal) + 1 /\ records = Len(wal)
               /\ Len(wal) = raws + deriveds + 1
               /\ latest_raw = 2 * raws /\ raws <= state.raw_count + 1
               /\ Walk(wal) = Counts

(* What of the record under way is in the file. *)
InFlight ==
    /\ pc \in {"append_raw", "close_clean"} => raws = state.raw_count
    /\ pc \in {"transform", "append_derived", "settle"} =>
          raws = state.raw_count + 1 /\ wal[Settled + 1] = RawInFlight
    /\ pc \in {"transform", "append_derived"} => deriveds = state.raw_count
    /\ pc = "settle" => deriveds = state.raw_count + 1
                        /\ wal[Settled + 2] = Derived(latest_raw + 1, RawInFlight)
    /\ pc \in {"append_derived", "settle"} => Reducible(state, RawInFlight)

(* The file never reads as corrupted, and its settled frames replay to the *)
(* state of the runtime.                                                   *)
Scans == ~Walk(wal).error /\ (Walk(wal).terminal => tail = "none")

Replays ==
    /\ state.last_applied = 2 * state.raw_count
    /\ wal = << >> => state = initial_state /\ trace = initial_trace
    /\ wal # << >> => /\ Settled <= Len(wal)
                      /\ Walk(wal).raws - state.raw_count \in {0, 1}
                      /\ ReplayRecords(SubSeq(wal, 1, Settled)) = ReadBack

(* A clean terminal follows the settled frames and binds what they replay to. *)
CleanEnds ==
    LET end == wal[Len(wal)]
    IN  Walk(wal).clean =>
           /\ Walk(wal).terminal /\ Len(wal) = Settled + 1
           /\ end.kind = "HALT" /\ end.clean /\ end.records = Settled
           /\ end.last_applied = state.last_applied
           /\ end.state = state /\ end.trace = trace

CleanOnly ==
    /\ pc = "ack" => Walk(wal).clean
    /\ pc = "mark" => ~poisoned /\ ~marked /\ Walk(wal).clean
    /\ marked => closed /\ ~poisoned /\ Walk(wal).clean /\ pc \in {"idle", "down"}

Journaled == Written /\ InFlight /\ Scans /\ Replays /\ CleanEnds /\ CleanOnly

LEMMA SettledNat ==
    ASSUME Typed
    PROVE  Settled \in Nat
  <1>1. state.raw_count \in Nat
    BY DEF Typed, TypeOK, StateTyped
  <1> QED BY <1>1 DEF Settled

LEMMA SubSeqAppends ==
    ASSUME NEW S, NEW w \in Seq(S), NEW n \in 0 .. Len(w), NEW x
    PROVE  /\ SubSeq(Append(w, x), 1, n) = SubSeq(w, 1, n)
           /\ n < Len(w) => SubSeq(w, 1, n + 1) = Append(SubSeq(w, 1, n), w[n + 1])
           /\ SubSeq(w, 1, Len(w)) = w
           /\ SubSeq(w, 1, n) \in Seq(S) /\ Len(SubSeq(w, 1, n)) = n
  <1>1. w \in Seq(S \cup {x})
    OBVIOUS
  <1>2. SubSeq(Append(w, x), 1, n) = SubSeq(w, 1, n)
    BY <1>1
  <1>3. n < Len(w) => SubSeq(w, 1, n + 1) = Append(SubSeq(w, 1, n), w[n + 1])
    OBVIOUS
  <1> QED BY <1>2, <1>3

(* One more settled frame is one more step of the replay. *)
LEMMA ReplayOneMore ==
    ASSUME NEW S, NEW w \in Seq(S), NEW n \in 0 .. Len(w) - 1
    PROVE  ReplayOf(SubSeq(w, 1, n + 1)) = ReplayRecord(ReplayOf(SubSeq(w, 1, n)), w[n + 1])
  <1>1. /\ SubSeq(w, 1, n + 1) = Append(SubSeq(w, 1, n), w[n + 1])
        /\ SubSeq(w, 1, n) \in Seq(S)
    BY SubSeqAppends
  <1> QED BY <1>1, ReplayAppend, Zenon

(* Derived records that are those expected settle the raw record. *)
LEMMA FinishSettles ==
    ASSUME NEW st, NEW tr, NEW S, NEW outputs \in Seq(S)
    PROVE  FinishPending(Replayed(st, tr, outputs, outputs)) = Replayed(st, tr, << >>, << >>)
  <1> DEFINE acc == Replayed(st, tr, outputs, outputs)
  <1>1. /\ acc.failed = FALSE /\ acc.stored = outputs /\ acc.expected = outputs
        /\ acc.mismatch = NoMismatch /\ Len(outputs) \in Nat
    BY DEF Replayed
  <1>2. FinishPending(acc) = [acc EXCEPT !.mismatch = NoMismatch,
                                         !.expected = << >>, !.stored = << >>]
    <2> HIDE DEF acc
    <2> QED BY <1>1 DEF FinishPending
  <1> QED BY <1>2 DEF Replayed

(* What a step leaves of these facts when it touches neither the file nor  *)
(* the state.                                                              *)
LEMMA FileKept ==
    ASSUME Journaled, UNCHANGED <<wal, tail, counts, state, trace>>,
           pc' # "boot", Live' => Live
    PROVE  Written' /\ Scans' /\ Replays' /\ CleanEnds'
  <1> USE DEF Journaled, counts
  <1>1. Settled' = Settled /\ ReadBack' = ReadBack /\ Counts' = Counts
    BY DEF Settled, ReadBack, Counts
  <1>2. Written'
    BY <1>1 DEF Written
  <1>3. Scans'
    BY DEF Scans
  <1>4. Replays'
    BY <1>1 DEF Replays
  <1>5. CleanEnds'
    BY <1>1 DEF CleanEnds
  <1> QED BY <1>2, <1>3, <1>4, <1>5

(* The settled frames are the same when a frame is appended. *)
LEMMA PrefixKept ==
    ASSUME Typed, Journaled, wal # << >>, NEW rec
    PROVE  SubSeq(Append(wal, rec), 1, Settled) = SubSeq(wal, 1, Settled)
  <1>1. PICK S : wal \in Seq(S)
    BY DEF Typed, WalSeq
  <1>2. Settled \in 0 .. Len(wal)
    BY <1>1 DEF Journaled, Replays, Settled, Typed, TypeOK, StateTyped
  <1> QED BY <1>1, <1>2, SubSeqAppends

(* The first frame. *)
LEMMA StartFrame ==
    ASSUME Typed, Journaled, pc = "boot",
           wal' = Append(wal, Start), UNCHANGED <<tail, state, trace>>
    PROVE  /\ Scans' /\ Replays' /\ CleanEnds'
           /\ Walk(wal') = WalkStart /\ Len(wal') = 1 /\ state.raw_count = 0
  <1>1. wal = << >> /\ tail = "none" /\ state = initial_state /\ trace = initial_trace
    BY DEF Journaled, Written, Replays
  <1>2. wal' = <<Start>> /\ Len(wal') = 1 /\ wal' # << >>
    BY <1>1
  <1>3. Walk(wal') = WalkFrame(WalkStart, Start, 1)
    <2>1. << >> \in Seq({}) /\ Len(<< >>) = 0
      OBVIOUS
    <2>2. wal' = Append(<< >>, Start)
      BY <1>1
    <2>3. Walk(Append(<< >>, Start)) = WalkFrame(Walk(<< >>), Start, Len(<< >>) + 1)
      BY <2>1, WalkAppend, Zenon
    <2>4. Len(<< >>) + 1 = 1
      OBVIOUS
    <2> QED BY <2>2, <2>3, <2>4, WalkEmpty
  <1>4. Walk(wal') = WalkStart
    BY <1>3 DEF WalkFrame, WalkStart, Start
  <1>5. Settled' = 1 /\ Settled = 1 /\ state.raw_count = 0
    BY <1>1 DEF Settled, initial_state
  <1>6. ReplayRecords(<<Start>>) = ReadBack
    <2>1. << >> \in Seq({}) /\ <<Start>> = Append(<< >>, Start)
      OBVIOUS
    <2>2. ReplayOf(<<Start>>) = ReplayRecord(ReplayStart, Start)
      BY <2>1, ReplayAppend, ReplayEmpty
    <2>3. ReplayOf(<<Start>>) = ReplayStart
      BY <2>2 DEF ReplayRecord, Start
    <2>4. ReadBack = ReplayStart
      BY <1>1 DEF ReadBack, ReplayStart, Replayed
    <2>5. FinishPending(ReadBack) = ReadBack
      BY <2>1, FinishSettles DEF ReadBack
    <2> QED BY <2>3, <2>4, <2>5, ReplayFinishes, Zenon
  <1>7. SubSeq(wal', 1, 1) = <<Start>>
    <2>1. <<Start>> \in Seq({Start}) /\ Len(<<Start>>) = 1
      OBVIOUS
    <2>2. SubSeq(<<Start>>, 1, Len(<<Start>>)) = <<Start>>
      <3>1. 0 \in 0 .. Len(<<Start>>)
        BY <2>1
      <3> QED BY <2>1, <3>1, SubSeqAppends
    <2> QED BY <1>2, <2>1, <2>2
  <1>8. Replays'
    <2>1. ReadBack' = ReadBack
      BY DEF ReadBack
    <2>2. Walk(wal').raws = 0
      BY <1>4 DEF WalkStart
    <2>3. ReplayRecords(SubSeq(wal', 1, Settled')) = ReadBack'
      BY <1>5, <1>6, <1>7, <2>1
    <2>4. state'.raw_count = 0 /\ state'.last_applied = 0
      BY <1>1 DEF initial_state
    <2> QED BY <1>2, <1>5, <2>2, <2>3, <2>4 DEF Replays
  <1>9. Scans' /\ CleanEnds'
    BY <1>4 DEF Scans, CleanEnds, WalkStart
  <1> QED BY <1>2, <1>4, <1>5, <1>8, <1>9

(* One frame of the walk, by its kind. *)
LEMMA WalkRaw ==
    ASSUME NEW rs, NEW ds, NEW last, NEW n, NEW rec,
           rec.kind = "RAW", rec.seq = n, n # 1
    PROVE  WalkFrame(Walked(rs, ds, last), rec, n)
              = Walked(rs + 1, ds, n)
  <1> DEFINE acc == Walked(rs, ds, last)
  <1>0. ~acc.error /\ ~acc.terminal
    BY DEF Walked
  <1>1. WalkFrame(acc, rec, n) =
          [acc EXCEPT !.raws = @ + 1, !.last_raw = rec.seq, !.deriveds = @,
                      !.terminal = FALSE, !.clean = FALSE]
    <2>1. ("RAW" = "HALT") = FALSE /\ (("RAW" = "HALT") /\ rec.clean) = FALSE
      OBVIOUS
    <2> HIDE DEF acc
    <2> QED BY <1>0, <2>1 DEF WalkFrame
  <1> QED BY <1>1 DEF Walked

LEMMA WalkDerived ==
    ASSUME NEW rs, NEW ds, NEW last, NEW n, NEW rec,
           rec.kind = "DERIVED", rec.seq = n, n # 1, rec.parent = last
    PROVE  WalkFrame(Walked(rs, ds, last), rec, n)
              = Walked(rs, ds + 1, last)
  <1> DEFINE acc == Walked(rs, ds, last)
  <1>0. ~acc.error /\ ~acc.terminal /\ acc.last_raw = last
    BY DEF Walked
  <1>1. WalkFrame(acc, rec, n) =
          [acc EXCEPT !.raws = @, !.last_raw = @, !.deriveds = @ + 1,
                      !.terminal = FALSE, !.clean = FALSE]
    <2>1. ("DERIVED" = "HALT") = FALSE /\ (("DERIVED" = "HALT") /\ rec.clean) = FALSE
      OBVIOUS
    <2> HIDE DEF acc
    <2> QED BY <1>0, <2>1 DEF WalkFrame
  <1> QED BY <1>1 DEF Walked

LEMMA WalkHalt ==
    ASSUME NEW rs, NEW ds, NEW last, NEW n, NEW rec,
           rec.kind = "HALT", rec.seq = n, n # 1,
           TerminalAgrees(rec, n - 1, Walked(rs, ds, last))
    PROVE  LET next == WalkFrame(Walked(rs, ds, last), rec, n)
           IN  /\ ~next.error /\ next.raws = rs /\ next.terminal
               /\ next.clean <=> rec.clean
  <1> DEFINE acc == Walked(rs, ds, last)
  <1>1. ~acc.error /\ ~acc.terminal /\ acc.raws = rs
    BY DEF Walked
  <1>2. WalkFrame(acc, rec, n) =
          [acc EXCEPT
           !.raws     = IF rec.kind = "RAW" THEN @ + 1 ELSE @,
           !.last_raw = IF rec.kind = "RAW" THEN rec.seq ELSE @,
           !.deriveds = IF rec.kind = "DERIVED" THEN @ + 1 ELSE @,
           !.terminal = rec.kind = "HALT",
           !.clean    = rec.kind = "HALT" /\ rec.clean]
    <2>1. ~(\/ acc.error \/ acc.terminal
            \/ rec.seq # n
            \/ (n = 1) # (rec.kind = "START")
            \/ rec.kind = "DERIVED" /\ rec.parent # acc.last_raw
            \/ rec.kind = "HALT" /\ ~TerminalAgrees(rec, n - 1, acc))
      <3>1. (n = 1) = FALSE /\ (rec.kind = "START") = FALSE
        OBVIOUS
      <3> HIDE DEF acc
      <3> QED BY <1>1, <3>1 DEF acc
    <2> HIDE DEF acc
    <2> QED BY <2>1, Zenon DEF WalkFrame
  <1> QED BY <1>1, <1>2 DEF Walked

(* Any later frame, of an open runtime. *)
LEMMA FrameKept ==
    ASSUME Typed, Journaled, Live, NEW rec, NEW acc,
           wal' = Append(wal, rec), UNCHANGED <<tail, state, trace>>,
           acc = WalkFrame(Counts, rec, Len(wal) + 1),
           ~acc.error, acc.raws - state.raw_count \in {0, 1}
    PROVE  Scans' /\ Replays' /\ (~acc.clean => CleanEnds') /\ Walk(wal') = acc
           /\ Len(wal') = Len(wal) + 1
           /\ \A i \in 1 .. Len(wal) : wal'[i] = wal[i]
           /\ wal'[Len(wal) + 1] = rec
  <1>1. PICK S : wal \in Seq(S)
    BY DEF Typed, WalSeq
  <1>2. /\ Walk(wal') = acc /\ tail' = "none"
    BY <1>1, WalkAppend DEF Journaled, Written
  <1>3. wal \in Seq(S \cup {rec}) /\ Len(wal') = Len(wal) + 1 /\ wal' # << >>
        /\ wal' \in Seq(S \cup {rec})
    BY <1>1
  <1>4. wal # << >>
    <2>1. Len(wal) = raws + deriveds + 1 /\ raws \in Nat /\ deriveds \in Nat
      BY DEF Journaled, Written, Typed, TypeOK, CountersTyped
    <2> QED BY <2>1
  <1>5. Settled' = Settled /\ ReadBack' = ReadBack
    BY DEF Settled, ReadBack, Replayed
  <1>6. SubSeq(wal', 1, Settled') = SubSeq(wal, 1, Settled)
    BY <1>4, <1>5, PrefixKept
  <1>7. Settled <= Len(wal')
    BY <1>1, <1>3, <1>4 DEF Journaled, Replays, Settled, Typed, TypeOK, StateTyped
  <1>8. Replays'
    <2>1. ReplayRecords(SubSeq(wal', 1, Settled')) = ReadBack'
      BY <1>4, <1>5, <1>6 DEF Journaled, Replays
    <2> QED BY <1>2, <1>3, <1>5, <1>7, <2>1 DEF Journaled, Replays
  <1>9. Scans' /\ (~acc.clean => CleanEnds')
    BY <1>2 DEF Scans, CleanEnds
  <1>10. (\A i \in 1 .. Len(wal) : wal'[i] = wal[i]) /\ wal'[Len(wal) + 1] = rec
    BY <1>1, AppendKeeps
  <1> QED BY <1>2, <1>3, <1>8, <1>9, <1>10

(* A raw record. *)
LEMMA RawFrame ==
    ASSUME Typed, Journaled, Live, pc = "append_raw",
           wal' = Append(wal, Pending), UNCHANGED <<tail, state, trace>>
    PROVE  /\ Scans' /\ Replays' /\ CleanEnds'
           /\ Walk(wal') = Walked(raws + 1, deriveds, next_seq)
           /\ Len(wal') = Len(wal) + 1 /\ wal'[Settled + 1] = Raw(next_seq, captured)
           /\ Len(wal) = Settled
  <1> DEFINE rec == Raw(next_seq, captured)
             acc == Walked(raws + 1, deriveds, next_seq)
  <1>1. Pending = rec
    BY DEF Pending
  <1>2. /\ next_seq = Len(wal) + 1 /\ Len(wal) = raws + deriveds + 1
        /\ raws = state.raw_count /\ deriveds = raws /\ raws \in Nat
        /\ Len(wal) = Settled /\ Len(wal) \in Nat /\ Len(wal) # 0
    BY SMTT(30) DEF Journaled, Written, InFlight, Typed, TypeOK, CountersTyped, Counted,
           Settled, StateTyped
  <1>3. acc = WalkFrame(Counts, rec, Len(wal) + 1)
    <2>1. rec.kind = "RAW" /\ rec.seq = Len(wal) + 1 /\ Len(wal) + 1 # 1
      BY <1>2 DEF Raw
    <2> HIDE DEF rec
    <2>2. WalkFrame(Counts, rec, Len(wal) + 1) = Walked(raws + 1, deriveds, Len(wal) + 1)
      BY <2>1, WalkRaw DEF Counts
    <2> QED BY <1>2, <2>2
  <1>4. ~acc.error /\ acc.raws - state.raw_count \in {0, 1} /\ ~acc.clean
    BY <1>2 DEF Walked
  <1> HIDE DEF acc, rec
  <1>5. /\ Scans' /\ Replays' /\ CleanEnds' /\ Walk(wal') = acc
        /\ Len(wal') = Len(wal) + 1 /\ wal'[Len(wal) + 1] = rec
    BY <1>1, <1>3, <1>4, FrameKept
  <1> QED BY <1>2, <1>5 DEF acc, rec

(* Its derived record. *)
LEMMA DerivedFrame ==
    ASSUME Typed, Journaled, Live, pc = "append_derived",
           wal' = Append(wal, Pending), UNCHANGED <<tail, state, trace>>
    PROVE  /\ Scans' /\ Replays' /\ CleanEnds'
           /\ Walk(wal') = Walked(raws, deriveds + 1, latest_raw)
           /\ Len(wal') = Len(wal) + 1
           /\ wal'[Settled + 1] = wal[Settled + 1]
           /\ wal'[Settled + 2] = Derived(latest_raw + 1, RawInFlight)
           /\ next_seq = latest_raw + 1
  <1> DEFINE rec == Derived(next_seq, RawInFlight)
             acc == Walked(raws, deriveds + 1, latest_raw)
  <1>1. Pending = rec
    BY DEF Pending
  <1>2. /\ next_seq = Len(wal) + 1 /\ Len(wal) = raws + deriveds + 1
        /\ raws = state.raw_count + 1 /\ deriveds = state.raw_count
        /\ state.raw_count \in Nat /\ latest_raw = 2 * raws
        /\ Len(wal) = Settled + 1 /\ Len(wal) \in Nat /\ Len(wal) # 0
        /\ next_seq = latest_raw + 1
    <2>1. raws = state.raw_count + 1 /\ deriveds = state.raw_count /\ state.raw_count \in Nat
      BY DEF Journaled, InFlight, Typed, TypeOK, StateTyped
    <2>2. next_seq = Len(wal) + 1 /\ Len(wal) = raws + deriveds + 1 /\ latest_raw = 2 * raws
      BY DEF Journaled, Written
    <2>3. PICK n, k : n = state.raw_count /\ k = Len(wal)
      OBVIOUS
    <2>4. n \in Nat /\ k = 2 * n + 2 /\ latest_raw = 2 * n + 2
      <3>1. raws = n + 1 /\ deriveds = n /\ n \in Nat
        BY <2>1, <2>3
      <3>2. k = raws + deriveds + 1 /\ latest_raw = 2 * raws
        BY <2>2, <2>3
      <3> QED BY <3>1, <3>2
    <2>5. Settled = 2 * n + 1
      BY <2>3 DEF Settled
    <2>6. k = Settled + 1 /\ k \in Nat /\ k # 0 /\ k + 1 = latest_raw + 1
      BY <2>4, <2>5
    <2> QED BY <2>1, <2>2, <2>3, <2>6
  <1>3. acc = WalkFrame(Counts, rec, Len(wal) + 1)
    <2>1. /\ rec.kind = "DERIVED" /\ rec.seq = Len(wal) + 1 /\ Len(wal) + 1 # 1
          /\ rec.parent = latest_raw
      <3>1. rec.kind = "DERIVED" /\ rec.seq = next_seq
        BY DEF Derived
      <3>2. rec.parent = latest_raw
        BY DEF Derived, RawInFlight, Raw
      <3>3. next_seq = Len(wal) + 1 /\ Len(wal) \in Nat /\ Len(wal) # 0
        BY <1>2
      <3>4. Len(wal) + 1 # 1
        BY <3>3
      <3> HIDE DEF rec
      <3> QED BY <3>1, <3>2, <3>3, <3>4
    <2> HIDE DEF rec
    <2>2. WalkFrame(Counts, rec, Len(wal) + 1) = Walked(raws, deriveds + 1, latest_raw)
      BY <2>1, WalkDerived DEF Counts
    <2> QED BY <2>2
  <1>4. ~acc.error /\ acc.raws - state.raw_count \in {0, 1} /\ ~acc.clean
    BY <1>2 DEF Walked
  <1> HIDE DEF acc, rec
  <1>5. /\ Scans' /\ Replays' /\ CleanEnds' /\ Walk(wal') = acc
        /\ Len(wal') = Len(wal) + 1 /\ wal'[Len(wal) + 1] = rec
        /\ \A i \in 1 .. Len(wal) : wal'[i] = wal[i]
    BY <1>1, <1>3, <1>4, FrameKept
  <1>6. wal'[Settled + 1] = wal[Settled + 1] /\ wal'[Settled + 2] = rec
    <2>1. Settled + 1 \in 1 .. Len(wal) /\ Settled + 2 = Len(wal) + 1
      <3>1. Settled \in Nat
        BY SettledNat
      <3>2. Len(wal) = Settled + 1
        BY <1>2
      <3> QED BY <3>1, <3>2
    <2> QED BY <1>5, <2>1
  <1> QED BY <1>2, <1>5, <1>6 DEF acc, rec

(* A halted terminal. *)
LEMMA HaltedFrame ==
    ASSUME Typed, Journaled, Live, NEW reason,
           wal' = Append(wal, Terminal(FALSE, reason)), UNCHANGED <<tail, state, trace>>
    PROVE  Scans' /\ Replays' /\ CleanEnds' /\ ~Walk(wal').clean
  <1> DEFINE rec == Terminal(FALSE, reason)
             acc == WalkFrame(Counts, rec, Len(wal) + 1)
  <1>1. /\ next_seq = Len(wal) + 1 /\ Len(wal) = raws + deriveds + 1
        /\ raws \in Nat /\ deriveds \in Nat /\ records = Len(wal)
        /\ state.raw_count \in Nat /\ latest_raw = 2 * raws
        /\ state.raw_count <= raws /\ raws <= state.raw_count + 1
        /\ state.last_applied = 2 * state.raw_count
        /\ Len(wal) \in Nat /\ Len(wal) # 0
    BY DEF Journaled, Written, Replays, Typed, TypeOK, CountersTyped, Counted, StateTyped
  <1>2. TerminalAgrees(rec, Len(wal) + 1 - 1, Counts)
    <2>1. state.last_applied <= latest_raw
      BY <1>1
    <2>2. Len(wal) + 1 - 1 = records
      BY <1>1
    <2> QED BY <2>1, <2>2 DEF TerminalAgrees, Terminal, Counts, Walked
  <1>3. rec.kind = "HALT" /\ rec.seq = Len(wal) + 1 /\ Len(wal) + 1 # 1 /\ ~rec.clean
    BY <1>1 DEF Terminal
  <1> HIDE DEF rec
  <1>4. ~acc.error /\ acc.raws = raws /\ ~acc.clean
    BY <1>2, <1>3, WalkHalt DEF Counts
  <1> HIDE DEF acc
  <1>5. acc.raws - state.raw_count \in {0, 1}
    BY <1>1, <1>4
  <1>6. /\ Scans' /\ Replays' /\ CleanEnds' /\ Walk(wal') = acc
    BY <1>4, <1>5, FrameKept DEF rec, acc
  <1> QED BY <1>4, <1>6

(* A clean terminal. *)
LEMMA CleanFrame ==
    ASSUME Typed, Journaled, Live, pc = "close_clean",
           wal' = Append(wal, Pending), UNCHANGED <<tail, state, trace>>
    PROVE  Scans' /\ Replays' /\ CleanEnds' /\ Walk(wal').clean
  <1> DEFINE rec == Terminal(TRUE, why)
             acc == WalkFrame(Counts, rec, Len(wal) + 1)
  <1>1. /\ next_seq = Len(wal) + 1 /\ Len(wal) = raws + deriveds + 1
        /\ raws \in Nat /\ records = Len(wal)
        /\ raws = state.raw_count /\ deriveds = raws /\ latest_raw = 2 * raws
        /\ state.last_applied = 2 * state.raw_count
        /\ Len(wal) \in Nat /\ Len(wal) # 0 /\ Len(wal) = Settled
    BY SMTT(30) DEF Journaled, Written, InFlight, Replays, Typed, TypeOK, CountersTyped,
           Counted, StateTyped, Settled
  <1>2. TerminalAgrees(rec, Len(wal) + 1 - 1, Counts)
    <2>1. state.last_applied = latest_raw
      BY <1>1
    <2>2. Len(wal) + 1 - 1 = records
      BY <1>1
    <2> QED BY <2>1, <2>2 DEF TerminalAgrees, Terminal, Counts, Walked
  <1>3. rec.kind = "HALT" /\ rec.seq = Len(wal) + 1 /\ Len(wal) + 1 # 1 /\ rec.clean
    BY <1>1, SMTT(30) DEF Terminal
  <1>4. rec.records = Settled /\ rec.last_applied = state.last_applied
        /\ rec.state = state /\ rec.trace = trace
    BY <1>1 DEF Terminal
  <1>5. Pending = rec
    BY DEF Pending
  <1> HIDE DEF rec
  <1>6. ~acc.error /\ acc.raws = raws /\ acc.clean /\ acc.terminal
    BY <1>2, <1>3, WalkHalt DEF Counts
  <1> HIDE DEF acc
  <1>7. acc.raws - state.raw_count \in {0, 1}
    BY <1>1, <1>6
  <1>8. /\ Scans' /\ Replays' /\ Walk(wal') = acc
        /\ Len(wal') = Len(wal) + 1 /\ wal'[Len(wal) + 1] = rec
    BY <1>5, <1>6, <1>7, FrameKept DEF acc
  <1>9. CleanEnds'
    <2>1. Settled' = Settled
      BY DEF Settled
    <2>2. wal'[Len(wal')] = rec /\ Len(wal') = Settled + 1
      BY <1>1, <1>8
    <2> QED BY <1>3, <1>4, <1>6, <1>8, <2>1, <2>2 DEF CleanEnds
  <1> QED BY <1>6, <1>8, <1>9

(* Two more settled frames are two more steps of the replay. *)
LEMMA ReplayTwoMore ==
    ASSUME NEW S, NEW w \in Seq(S), NEW n \in Nat, n + 2 <= Len(w)
    PROVE  ReplayOf(SubSeq(w, 1, n + 2))
              = ReplayRecord(ReplayRecord(ReplayOf(SubSeq(w, 1, n)), w[n + 1]), w[n + 2])
  <1>1. n \in 0 .. Len(w) - 1 /\ n + 1 \in 0 .. Len(w) - 1 /\ n + 1 + 1 = n + 2
    OBVIOUS
  <1>2. ReplayOf(SubSeq(w, 1, n + 1)) = ReplayRecord(ReplayOf(SubSeq(w, 1, n)), w[n + 1])
    BY <1>1, ReplayOneMore
  <1>3. ReplayOf(SubSeq(w, 1, n + 1 + 1))
           = ReplayRecord(ReplayOf(SubSeq(w, 1, n + 1)), w[n + 1 + 1])
    BY <1>1, ReplayOneMore
  <1> QED BY <1>1, <1>2, <1>3

Reduced(acc, st, tr, outputs, frames) ==
    [acc EXCEPT !.state = st, !.trace = tr, !.expected = outputs, !.stored = frames]

LEMMA ReducedFields ==
    ASSUME NEW st, NEW tr, NEW o, NEW f, NEW next, NEW longer, NEW outputs, NEW frames
    PROVE  Reduced(Replayed(st, tr, o, f), next, longer, outputs, frames)
              = Replayed(next, longer, outputs, frames)
  <1> DEFINE r == Reduced(Replayed(st, tr, o, f), next, longer, outputs, frames)
  <1>1. r = [Replayed(st, tr, o, f) EXCEPT
               !.state = next, !.trace = longer, !.expected = outputs, !.stored = frames]
    BY DEF Reduced
  <1> HIDE DEF r
  <1>2. r = Replayed(next, longer, outputs, frames)
    BY <1>1 DEF Replayed
  <1> QED BY <1>2 DEF r

(* A raw record is reduced, and expects its derived record. *)
LEMMA RawReplays ==
    ASSUME NEW st, NEW tr, NEW raw, NEW acc, raw.kind = "RAW", Reducible(st, raw),
           FinishPending(acc) = Replayed(st, tr, << >>, << >>)
    PROVE  LET d    == Derived(raw.seq + 1, raw)
               next == reduce_event(st, raw)
           IN  ReplayRecord(acc, raw)
                  = Replayed(next, next_trace(tr, raw, <<d>>, next), <<d>>, << >>)
  <1> DEFINE outputs == <<Derived(raw.seq + 1, raw)>>
             next == reduce_event(st, raw)
             start == Replayed(st, tr, << >>, << >>)
             longer == next_trace(tr, raw, outputs, next)
  <1>1. ReplayRecord(acc, raw) = ReplayRaw(start, raw)
    <2> HIDE DEF start
    <2>1. FinishPending(acc) = start
      BY DEF start
    <2> QED BY <2>1 DEF ReplayRecord
  <1>2. start.failed = FALSE /\ start.state = st /\ start.trace = tr
    BY DEF Replayed
  <1>3. ReplayRaw(start, raw)
           = Reduced(start, next, longer, outputs, << >>)
    <2>1. ~start.failed /\ Reducible(start.state, raw)
      BY <1>2
    <2>2. reduce_event(start.state, raw) = next
      BY <1>2
    <2>3. next_trace(start.trace, raw, outputs, next) = longer
      BY <1>2
    <2> HIDE DEF start, longer, next
    <2> QED BY <2>1, <2>2, <2>3 DEF ReplayRaw, Reduced
  <1> HIDE DEF longer, next, outputs
  <1>4. ReplayRaw(start, raw) = Replayed(next, longer, outputs, << >>)
    BY <1>3, ReducedFields
  <1> QED BY <1>1, <1>4 DEF longer, next, outputs

LEMMA DerivedReplays ==
    ASSUME NEW st, NEW tr, NEW outputs, NEW d, d.kind = "DERIVED"
    PROVE  ReplayRecord(Replayed(st, tr, outputs, << >>), d) = Replayed(st, tr, outputs, <<d>>)
  <1> DEFINE start == Replayed(st, tr, outputs, << >>)
  <1>1. start.failed = FALSE /\ start.stored = << >> /\ Append(<< >>, d) = <<d>>
    BY DEF Replayed
  <1>2. ReplayRecord(start, d) = [start EXCEPT !.stored = <<d>>]
    <2> HIDE DEF start
    <2> QED BY <1>1 DEF ReplayRecord
  <1> QED BY <1>2 DEF Replayed

(* Settling a record replays two more frames. *)
LEMMA SettledReplays ==
    ASSUME Typed, Journaled, Live, pc = "settle", UNCHANGED <<wal, tail>>,
           state' = reduce_event(state, RawInFlight),
           trace' = next_trace(trace, RawInFlight,
                        <<Derived(latest_raw + 1, RawInFlight)>>, state')
    PROVE  Scans' /\ Replays' /\ CleanEnds'
  <1> DEFINE d == Derived(latest_raw + 1, RawInFlight)
  <1>1. PICK S : wal \in Seq(S)
    BY DEF Typed, WalSeq
  <1>2. /\ raws = state.raw_count + 1 /\ deriveds = state.raw_count + 1
        /\ wal[Settled + 1] = RawInFlight /\ wal[Settled + 2] = d
        /\ Reducible(state, RawInFlight)
    BY DEF Journaled, InFlight
  <1>3. Len(wal) = raws + deriveds + 1 /\ latest_raw = 2 * raws /\ Walk(wal) = Counts
    BY DEF Journaled, Written
  <1>4. Settled \in Nat /\ Settled = 2 * state.raw_count + 1 /\ state.raw_count \in Nat
    BY SettledNat DEF Typed, TypeOK, StateTyped, Settled
  <1>5. Len(wal) = Settled + 2 /\ latest_raw = Settled + 1
    <2>1. \A r \in Nat : (r + 1) + (r + 1) + 1 = (2 * r + 1) + 2
                         /\ 2 * (r + 1) = (2 * r + 1) + 1
      OBVIOUS
    <2>2. raws = state.raw_count + 1 /\ deriveds = state.raw_count + 1
      BY <1>2
    <2>3. Len(wal) = (state.raw_count + 1) + (state.raw_count + 1) + 1
          /\ latest_raw = 2 * (state.raw_count + 1)
      BY <1>3, <2>2
    <2> QED BY <1>4, <2>1, <2>3
  <1>6. wal # << >>
    BY <1>1, <1>4, <1>5
  <1>7. FinishPending(ReplayOf(SubSeq(wal, 1, Settled))) = ReadBack
    BY <1>6, ReplayFinishes DEF Journaled, Replays
  <1>8. ReplayRecord(ReplayOf(SubSeq(wal, 1, Settled)), RawInFlight)
           = Replayed(state', trace', <<d>>, << >>)
    <2>1. RawInFlight.kind = "RAW" /\ RawInFlight.seq = latest_raw
      BY DEF RawInFlight, Raw
    <2> QED BY <1>2, <1>7, <2>1, RawReplays DEF ReadBack
  <1>9. ReplayRecord(Replayed(state', trace', <<d>>, << >>), d)
           = Replayed(state', trace', <<d>>, <<d>>)
    <2>1. d.kind = "DERIVED"
      BY DEF Derived
    <2> HIDE DEF d
    <2> QED BY <2>1, DerivedReplays
  <1>10. ReplayOf(SubSeq(wal, 1, Settled + 2)) = Replayed(state', trace', <<d>>, <<d>>)
    <2>1. Settled + 2 <= Len(wal)
      BY <1>4, <1>5
    <2> HIDE DEF d
    <2>2. ReplayOf(SubSeq(wal, 1, Settled + 2))
             = ReplayRecord(ReplayRecord(ReplayOf(SubSeq(wal, 1, Settled)),
                                         wal[Settled + 1]), wal[Settled + 2])
      BY <1>1, <1>4, <2>1, ReplayTwoMore
    <2> QED BY <1>2, <1>8, <1>9, <2>2
  <1>11. ReplayRecords(SubSeq(wal, 1, Settled + 2)) = ReadBack'
    <2> HIDE DEF d
    <2>1. <<d>> \in Seq({d})
      OBVIOUS
    <2>2. FinishPending(Replayed(state', trace', <<d>>, <<d>>))
             = Replayed(state', trace', << >>, << >>)
      BY <2>1, FinishSettles
    <2> QED BY <1>10, <2>2, ReplayFinishes DEF ReadBack
  <1>12. state'.raw_count = state.raw_count + 1 /\ state'.last_applied = latest_raw
    BY DEF reduce_event, RawInFlight, Raw
  <1>13. Settled' = Settled + 2
    BY <1>4, <1>12 DEF Settled
  <1>14. Replays'
    <2>1. Walk(wal').raws = raws
      BY <1>3 DEF Counts, Walked
    <2>2. state'.last_applied = 2 * state'.raw_count
      BY <1>2, <1>3, <1>12
    <2>3. Walk(wal').raws - state'.raw_count \in {0, 1}
      BY <1>2, <1>4, <1>12, <2>1
    <2>4. ReplayRecords(SubSeq(wal', 1, Settled')) = ReadBack'
      BY <1>11, <1>13
    <2>5. Settled' <= Len(wal')
      BY <1>4, <1>5, <1>13
    <2> QED BY <1>6, <2>2, <2>3, <2>4, <2>5 DEF Replays
  <1>15. Scans' /\ CleanEnds'
    BY <1>3 DEF Journaled, Scans, CleanEnds, Counts, Walked
  <1> QED BY <1>14, <1>15

-----------------------------------------------------------------------------
(* Every step keeps the journal readable.                                  *)

Unread == <<wal, tail, counts, state, trace>>

(* A step of an open runtime that writes nothing and leads to no append. *)
LEMMA Rests ==
    ASSUME Journaled, Live, UNCHANGED <<Unread, marked>>,
           pc' \in {"authorize", "idle", "halting", "authorize_close", "down"}
    PROVE  Journaled'
  <1>1. ~marked
    BY DEF Live, Journaled, CleanOnly
  <1>2. Written' /\ Scans' /\ Replays' /\ CleanEnds'
    BY FileKept DEF Unread
  <1>3. InFlight' /\ CleanOnly'
    BY <1>1 DEF InFlight, CleanOnly
  <1> QED BY <1>2, <1>3 DEF Journaled

(* A step that ends the session, and leaves a file that reads. *)
LEMMA Ends ==
    ASSUME ~marked, UNCHANGED marked, Scans', Replays', CleanEnds',
           pc' \in {"idle", "down"}, closed' \/ pc' = "down"
    PROVE  Journaled'
  <1>1. Written'
    BY DEF Written, Live
  <1>2. InFlight' /\ CleanOnly'
    BY DEF InFlight, CleanOnly
  <1> QED BY <1>1, <1>2 DEF Journaled

(* The runtime is open in the steps that write. *)
LEMMA OpenWhileBusy ==
    ASSUME Typed, Controlled, Journaled
    PROVE  /\ pc \in Busy \ {"boot", "ack", "mark"} => Live
           /\ Callable => Live
           /\ Live \/ pc \in {"boot", "ack"} => ~marked
  BY DEF Controlled, PoisonCloses, Busy, Live, Callable, Healthy, Journaled, CleanOnly

(* A whole frame of the record under way reads back. *)
LEMMA PendingFrame ==
    ASSUME Typed, Controlled, Journaled, pc \in Writing,
           wal' = Append(wal, Pending), UNCHANGED <<tail, state, trace>>
    PROVE  Scans' /\ Replays' /\ CleanEnds'
  <1>1. CASE pc = "boot"
    BY <1>1, StartFrame DEF Pending
  <1>2. CASE pc # "boot"
    <2>1. Live
      BY <1>2, OpenWhileBusy DEF Writing, Busy
    <2>2. CASE pc = "append_raw"
      BY <2>1, <2>2, RawFrame
    <2>3. CASE pc = "append_derived"
      BY <2>1, <2>3, DerivedFrame
    <2>4. CASE pc = "halting"
      <3>1. Pending = Terminal(FALSE, why)
        BY <2>4 DEF Pending
      <3> QED BY <2>1, <3>1, HaltedFrame
    <2>5. CASE pc = "close_clean"
      BY <2>1, <2>5, CleanFrame
    <2> QED BY <1>2, <2>2, <2>3, <2>4, <2>5 DEF Writing
  <1> QED BY <1>1, <1>2

(* So does whatever an interrupted write leaves of it. *)
LEMMA ResidueReads ==
    ASSUME Typed, Journaled, Live \/ pc = "boot", NEW rec, Residue(rec),
           UNCHANGED <<state, trace>>,
           wal' = Append(wal, rec) /\ UNCHANGED tail => Scans' /\ Replays' /\ CleanEnds'
    PROVE  Scans' /\ Replays' /\ CleanEnds'
  <1>1. CASE wal' = wal
    <2>1. Settled' = Settled /\ ReadBack' = ReadBack
      BY DEF Settled, ReadBack, Replayed
    <2>2. Replays' /\ CleanEnds'
      BY <1>1, <2>1 DEF Journaled, Replays, CleanEnds
    <2>3. ~Walk(wal).terminal
      <3>1. CASE Live
        BY <3>1 DEF Journaled, Written, Counts, Walked
      <3>2. CASE pc = "boot"
        BY <3>2, WalkEmpty DEF Journaled, Written, WalkStart
      <3> QED BY <3>1, <3>2
    <2> QED BY <1>1, <2>2, <2>3 DEF Journaled, Scans
  <1>2. CASE wal' # wal
    BY <1>2 DEF Residue, file
  <1> QED BY <1>1, <1>2

LEMMA PendingResidue ==
    ASSUME Typed, Controlled, Journaled, pc \in Writing, Residue(Pending),
           UNCHANGED <<state, trace>>
    PROVE  Scans' /\ Replays' /\ CleanEnds'
  <1>1. Live \/ pc = "boot"
    BY OpenWhileBusy DEF Writing, Busy
  <1>2. wal' = Append(wal, Pending) /\ UNCHANGED tail => Scans' /\ Replays' /\ CleanEnds'
    BY PendingFrame
  <1> HIDE DEF Pending
  <1> QED BY <1>1, <1>2, ResidueReads

LEMMA UnreadReads ==
    ASSUME Journaled, UNCHANGED <<wal, tail, state, trace>>
    PROVE  Scans' /\ Replays' /\ CleanEnds'
  <1>1. Settled' = Settled /\ ReadBack' = ReadBack
    BY DEF Settled, ReadBack, Replayed
  <1> QED BY <1>1 DEF Journaled, Scans, Replays, CleanEnds

(* Halting, with or without a terminal. *)
LEMMA HaltReads ==
    ASSUME Typed, Journaled, Live, NEW reason,
           HaltWritten(reason) \/ HaltWriteFails(reason)
    PROVE  Scans' /\ Replays' /\ CleanEnds' /\ closed'
  <1>1. UNCHANGED <<state, trace>> /\ closed'
    BY DEF HaltWritten, HaltWriteFails, CloseWriter, Poison
  <1>2. wal' = Append(wal, Terminal(FALSE, reason)) /\ UNCHANGED tail
           => Scans' /\ Replays' /\ CleanEnds'
    BY <1>1, HaltedFrame
  <1>3. CASE HaltWritten(reason)
    BY <1>1, <1>2, <1>3 DEF HaltWritten
  <1>4. CASE HaltWriteFails(reason)
    <2>1. Residue(Terminal(FALSE, reason))
      BY <1>4 DEF HaltWriteFails
    <2> QED BY <1>1, <1>2, <2>1, ResidueReads
  <1> QED BY <1>3, <1>4

LEMMA PreobservedReads ==
    ASSUME Typed, Controlled, Journaled, Live, PreobservedGlobalHalt
    PROVE  Journaled'
  <1>1. ~marked /\ UNCHANGED marked /\ pc' = "idle"
    BY OpenWhileBusy DEF PreobservedGlobalHalt
  <1>2. Scans' /\ Replays' /\ CleanEnds' /\ closed'
    <2>1. CASE HaltWritten("retention_global_halt") \/ HaltWriteFails("retention_global_halt")
      BY <2>1, HaltReads
    <2>2. CASE closed' = TRUE /\ UNCHANGED <<file, state, trace>>
      BY <2>2, UnreadReads DEF file
    <2> QED BY <2>1, <2>2 DEF PreobservedGlobalHalt
  <1> QED BY <1>1, <1>2, Ends

(* A denial, an escape, a low disk: nothing is written. *)
LEMMA Refused ==
    ASSUME Typed, Controlled, Journaled, Live,
           Escapes \/ GateDenied \/ DiskLow \/ \E reason : Raise(reason)
    PROVE  Journaled'
  <1>1. UNCHANGED <<Unread, marked>> /\ pc' \in {"idle", "halting"}
    BY DEF Escapes, GateDenied, DiskLow, Raise, Unread, file, writer, rt, counts
  <1> QED BY <1>1, Rests

(* A failed append poisons the session. *)
LEMMA PoisonReads ==
    ASSUME Typed, Controlled, Journaled, pc \in Writing, WriteFailed(Pending), Poison,
           UNCHANGED marked, pc' = "idle"
    PROVE  Journaled'
  <1>1. ~marked
    BY OpenWhileBusy DEF Writing, Busy
  <1>2. UNCHANGED <<state, trace>> /\ closed'
    BY DEF Poison
  <1>3. Scans' /\ Replays' /\ CleanEnds'
    <2>1. CASE UNCHANGED file
      BY <1>2, <2>1, UnreadReads DEF file
    <2>2. CASE Residue(Pending)
      BY <1>2, <2>2, PendingResidue
    <2> QED BY <2>1, <2>2 DEF WriteFailed
  <1> QED BY <1>1, <1>2, <1>3, Ends

-----------------------------------------------------------------------------

LEMMA CreateReads ==
    ASSUME Typed, Controlled, Journaled, Create
    PROVE  Journaled'
  <1>0. pc = "boot" /\ ~marked /\ UNCHANGED <<marked, state, trace>>
    BY OpenWhileBusy DEF Create, rt
  <1>1. CASE WriteOk(Start) /\ pc' = "init"
    <2>1. wal' = Append(wal, Start) /\ UNCHANGED tail
      BY <1>1 DEF WriteOk
    <2>2. /\ Scans' /\ Replays' /\ CleanEnds'
          /\ Walk(wal') = WalkStart /\ Len(wal') = 1 /\ state.raw_count = 0
      BY <1>0, <2>1, StartFrame
    <2>3. /\ next_seq = 1 /\ records = 0 /\ raws = 0 /\ deriveds = 0 /\ latest_raw = 0
          /\ tail = "none"
      BY <1>0, SMTT(30) DEF Journaled, Written
    <2>4. /\ next_seq' = 2 /\ records' = 1 /\ raws' = 0 /\ deriveds' = 0
          /\ latest_raw' = 0 /\ tail' = "none"
      BY <1>1, <2>3 DEF WriteOk, Start
    <2>5. Walk(wal') = Counts'
      BY <2>2, <2>4 DEF Counts, Walked, WalkStart
    <2>6. Written'
      BY <1>0, <1>1, <2>2, <2>4, <2>5 DEF Written
    <2>7. InFlight' /\ CleanOnly'
      BY <1>0, <1>1 DEF InFlight, CleanOnly
    <2> QED BY <2>2, <2>6, <2>7 DEF Journaled
  <1>2. CASE WriteFailed(Start) /\ pc' = "down"
    <2>1. Pending = Start
      BY <1>0 DEF Pending
    <2>2. Scans' /\ Replays' /\ CleanEnds'
      <3>1. CASE UNCHANGED file
        BY <1>0, <3>1, UnreadReads DEF file
      <3>2. CASE Residue(Start)
        BY <1>0, <2>1, <3>2, PendingResidue DEF Writing
      <3> QED BY <1>2, <3>1, <3>2 DEF WriteFailed
    <2> QED BY <1>0, <1>2, <2>2, Ends
  <1> QED BY <1>1, <1>2 DEF Create

(* Between two records every raw record is applied. *)
LEMMA NoneUnapplied ==
    ASSUME Typed, Controlled, Journaled, Live, pc \in {"idle", "authorize_close"}, ~retired
    PROVE  raws = state.raw_count
  <1>1. state.last_applied = latest_raw
    BY DEF Controlled, AppliedWhenQuiet, Quiet, Live
  <1>2. state.last_applied = 2 * state.raw_count /\ latest_raw = 2 * raws
    BY DEF Journaled, Replays, Written
  <1>3. raws \in Nat /\ state.raw_count \in Nat
    BY DEF Typed, TypeOK, CountersTyped, StateTyped
  <1>4. \A m, n \in Nat : 2 * m = 2 * n => m = n
    OBVIOUS
  <1>5. 2 * raws = 2 * state.raw_count
    BY <1>1, <1>2
  <1> QED BY <1>3, <1>4, <1>5

(* On to the next step of the call, with nothing written. *)
LEMMA Proceeds ==
    ASSUME Journaled, Live, UNCHANGED <<Unread, marked>>, InFlight',
           pc' \in {"append_raw", "append_derived", "close_clean"}
    PROVE  Journaled'
  <1>1. ~marked
    BY DEF Live, Journaled, CleanOnly
  <1>2. Written' /\ Scans' /\ Replays' /\ CleanEnds'
    BY FileKept DEF Unread
  <1>3. CleanOnly'
    BY <1>1 DEF CleanOnly
  <1> QED BY <1>2, <1>3 DEF Journaled

LEMMA IngestReads ==
    ASSUME Typed, Controlled, Journaled, NEW c, NEW valid \in BOOLEAN, Ingest(c, valid)
    PROVE  Journaled'
  <1>0. Live /\ pc = "idle"
    BY OpenWhileBusy DEF Ingest, Callable
  <1>1. CASE PreobservedGlobalHalt
    BY <1>0, <1>1, PreobservedReads
  <1>2. CASE GateDenied \/ \E reason : Raise(reason)
    BY <1>0, <1>2, Refused
  <1>3. CASE Coordinated /\ pc' = "append_raw"
             /\ UNCHANGED <<file, writer, rt, env, why, denied, marked>>
    <2>1. UNCHANGED <<Unread, marked>>
      BY <1>3 DEF Unread, file, writer, rt, counts
    <2>2. raws' = state'.raw_count
      BY <1>0, <1>3, <2>1, NoneUnapplied DEF Coordinated, Unread, counts
    <2>3. InFlight'
      BY <1>3, <2>2 DEF InFlight
    <2> QED BY <1>0, <1>3, <2>1, <2>3, Proceeds
  <1> QED BY <1>1, <1>2, <1>3 DEF Ingest

LEMMA AppendRawReads ==
    ASSUME Typed, Controlled, Journaled, AppendRaw
    PROVE  Journaled'
  <1>0. Live /\ pc = "append_raw" /\ pc \in Writing
    BY OpenWhileBusy DEF AppendRaw, Busy, Writing
  <1>1. CASE PreobservedGlobalHalt
    BY <1>0, <1>1, PreobservedReads
  <1>2. CASE Escapes \/ DiskLow
    BY <1>0, <1>2, Refused
  <1>3. CASE WritePoisons
    BY <1>0, <1>3, PoisonReads DEF WritePoisons
  <1>4. CASE WriteOk(Pending) /\ Advance("transform")
    <2>1. /\ wal' = Append(wal, Pending)
          /\ UNCHANGED <<tail, state, trace, captured, closed, marked>> /\ pc' = "transform"
      BY <1>4 DEF WriteOk, Advance, rt
    <2>2. /\ Scans' /\ Replays' /\ CleanEnds'
          /\ Walk(wal') = Walked(raws + 1, deriveds, next_seq)
          /\ Len(wal') = Len(wal) + 1 /\ wal'[Settled + 1] = Raw(next_seq, captured)
          /\ Len(wal) = Settled
      BY <1>0, <2>1, RawFrame
    <2>3. Pending.kind = "RAW" /\ Pending.seq = next_seq
      BY <1>0 DEF Pending, Raw
    <2>4. /\ next_seq' = next_seq + 1 /\ records' = records + 1
          /\ raws' = raws + 1 /\ deriveds' = deriveds /\ latest_raw' = next_seq
      <3> HIDE DEF Pending
      <3> QED BY <1>4, <2>3 DEF WriteOk
    <2>5. /\ tail = "none" /\ next_seq = Len(wal) + 1 /\ records = Len(wal)
          /\ Len(wal) = raws + deriveds + 1 /\ raws = state.raw_count
          /\ raws \in Nat /\ deriveds \in Nat /\ deriveds = state.raw_count
      BY <1>0 DEF Journaled, Written, InFlight, Typed, TypeOK, CountersTyped,
                  Counted, StateTyped
    <2>6. Walk(wal') = Counts'
      BY <2>2, <2>4 DEF Counts
    <2>7. Written'
      <3>1. /\ tail' = "none" /\ next_seq' = Len(wal') + 1 /\ records' = Len(wal')
            /\ Len(wal') = raws' + deriveds' + 1
            /\ latest_raw' = 2 * raws' /\ raws' <= state'.raw_count + 1
        <4>1. Len(wal) \in Nat /\ Len(wal) = raws + deriveds + 1
          BY <2>5
        <4>2. deriveds = raws
          BY <2>5
        <4>3. next_seq = 2 * (raws + 1)
          BY <2>5, <4>1, <4>2, SMTT(30)
        <4>4. raws + 1 <= state.raw_count + 1
          BY <2>5
        <4>5. Len(wal') = (raws + 1) + deriveds + 1 /\ next_seq' = Len(wal') + 1
              /\ records' = Len(wal')
          BY <2>2, <2>4, <2>5, <4>1
        <4> QED BY <2>1, <2>4, <2>5, <4>3, <4>4, <4>5
      <3> QED BY <2>1, <2>6, <3>1 DEF Written
    <2>8. InFlight'
      <3>1. Settled' = Settled /\ RawInFlight' = Raw(next_seq, captured)
        BY <2>1, <2>4 DEF Settled, RawInFlight
      <3> QED BY <2>1, <2>2, <2>4, <2>5, <3>1 DEF InFlight
    <2>9. CleanOnly'
      BY <1>0, <2>1, OpenWhileBusy DEF CleanOnly
    <2> QED BY <2>2, <2>7, <2>8, <2>9 DEF Journaled
  <1> QED BY <1>1, <1>2, <1>3, <1>4 DEF AppendRaw

LEMMA TransformReads ==
    ASSUME Typed, Controlled, Journaled, Transform
    PROVE  Journaled'
  <1>0. Live /\ pc = "transform"
    BY OpenWhileBusy DEF Transform, Busy
  <1>1. CASE PreobservedGlobalHalt
    BY <1>0, <1>1, PreobservedReads
  <1>2. CASE GateDenied \/ \E reason : Raise(reason)
    BY <1>0, <1>2, Refused
  <1>3. CASE Reducible(state, RawInFlight) /\ Advance("append_derived")
             /\ UNCHANGED <<file, writer>>
    <2>1. UNCHANGED <<Unread, marked, captured>> /\ pc' = "append_derived"
      BY <1>3 DEF Unread, file, writer, rt, counts, Advance
    <2>2. Settled' = Settled /\ RawInFlight' = RawInFlight
      BY <2>1 DEF Settled, RawInFlight, Unread, counts
    <2>3. InFlight'
      <3>1. /\ raws = state.raw_count + 1 /\ wal[Settled + 1] = RawInFlight
            /\ deriveds = state.raw_count
        BY <1>0 DEF Journaled, InFlight
      <3>2. UNCHANGED <<wal, raws, deriveds, state>>
        BY <2>1 DEF Unread, counts
      <3>3. Reducible(state, RawInFlight)'
        BY <1>3, <2>2, <3>2
      <3> QED BY <2>1, <2>2, <3>1, <3>2, <3>3 DEF InFlight
    <2> QED BY <1>0, <2>1, <2>3, Proceeds
  <1> QED BY <1>1, <1>2, <1>3 DEF Transform

LEMMA AppendDerivedReads ==
    ASSUME Typed, Controlled, Journaled, AppendDerived
    PROVE  Journaled'
  <1>0. Live /\ pc = "append_derived" /\ pc \in Writing
    BY OpenWhileBusy DEF AppendDerived, Busy, Writing
  <1>1. CASE PreobservedGlobalHalt
    BY <1>0, <1>1, PreobservedReads
  <1>2. CASE GateDenied \/ DiskLow \/ \E reason : Raise(reason)
    BY <1>0, <1>2, Refused
  <1>3. CASE WritePoisons
    BY <1>0, <1>3, PoisonReads DEF WritePoisons
  <1>4. CASE WriteOk(Pending) /\ Advance("settle")
    <2>1. /\ wal' = Append(wal, Pending)
          /\ UNCHANGED <<tail, state, trace, captured, closed, marked>> /\ pc' = "settle"
      BY <1>4 DEF WriteOk, Advance, rt
    <2>2. /\ Scans' /\ Replays' /\ CleanEnds'
          /\ Walk(wal') = Walked(raws, deriveds + 1, latest_raw)
          /\ Len(wal') = Len(wal) + 1
          /\ wal'[Settled + 1] = wal[Settled + 1]
          /\ wal'[Settled + 2] = Derived(latest_raw + 1, RawInFlight)
      BY <1>0, <2>1, DerivedFrame
    <2>3. Pending.kind = "DERIVED"
      BY <1>0 DEF Pending, Derived
    <2>4. /\ next_seq' = next_seq + 1 /\ records' = records + 1
          /\ raws' = raws /\ deriveds' = deriveds + 1 /\ latest_raw' = latest_raw
      <3> HIDE DEF Pending
      <3> QED BY <1>4, <2>3 DEF WriteOk
    <2>5. /\ tail = "none" /\ next_seq = Len(wal) + 1 /\ records = Len(wal)
          /\ Len(wal) = raws + deriveds + 1 /\ raws = state.raw_count + 1
          /\ raws \in Nat /\ deriveds \in Nat /\ deriveds = state.raw_count
          /\ wal[Settled + 1] = RawInFlight /\ latest_raw = 2 * raws
          /\ Reducible(state, RawInFlight)
      BY <1>0 DEF Journaled, Written, InFlight, Typed, TypeOK, CountersTyped
    <2>6. Walk(wal') = Counts'
      BY <2>2, <2>4 DEF Counts
    <2>7. Written'
      <3>1. /\ tail' = "none" /\ next_seq' = Len(wal') + 1 /\ records' = Len(wal')
            /\ Len(wal') = raws' + deriveds' + 1
            /\ latest_raw' = 2 * raws' /\ raws' <= state'.raw_count + 1
        <4>1. Len(wal) \in Nat /\ Len(wal) = raws + deriveds + 1
          BY <2>5
        <4>2. raws <= state.raw_count + 1
          BY <2>5
        <4>3. next_seq' = Len(wal') + 1 /\ records' = Len(wal')
          BY <2>2, <2>4, <2>5
        <4>4. raws \in Nat /\ deriveds \in Nat
          BY <2>5
        <4>5. Len(wal') = raws + (deriveds + 1) + 1
          BY <2>2, <4>1, <4>4
        <4> QED BY <2>1, <2>4, <2>5, <4>2, <4>3, <4>5
      <3> QED BY <2>1, <2>6, <3>1 DEF Written
    <2>8. InFlight'
      <3>1. Settled' = Settled /\ RawInFlight' = RawInFlight
        BY <2>1, <2>4 DEF Settled, RawInFlight
      <3>2. Reducible(state, RawInFlight)'
        BY <2>1, <2>5, <3>1
      <3> QED BY <2>1, <2>2, <2>4, <2>5, <3>1, <3>2 DEF InFlight
    <2>9. CleanOnly'
      BY <1>0, <2>1, OpenWhileBusy DEF CleanOnly
    <2> QED BY <2>2, <2>7, <2>8, <2>9 DEF Journaled
  <1> QED BY <1>1, <1>2, <1>3, <1>4 DEF AppendDerived

LEMMA SettleReads ==
    ASSUME Typed, Controlled, Journaled, Settle
    PROVE  Journaled'
  <1>0. Live /\ pc = "settle"
    BY OpenWhileBusy DEF Settle, Busy
  <1>1. CASE PreobservedGlobalHalt
    BY <1>0, <1>1, PreobservedReads
  <1>2. CASE GateDenied \/ \E reason : Raise(reason)
    BY <1>0, <1>2, Refused
  <1>3. CASE /\ pc' = "idle"
             /\ state' = reduce_event(state, RawInFlight)
             /\ trace' = next_trace(trace, RawInFlight,
                               <<Derived(latest_raw + 1, RawInFlight)>>, state')
             /\ UNCHANGED <<file, writer, closed, marked>>
    <2>1. UNCHANGED <<wal, tail, counts, closed, marked>>
      BY <1>3 DEF file, writer, counts
    <2>2. Scans' /\ Replays' /\ CleanEnds'
      BY <1>0, <1>3, <2>1, SettledReplays
    <2>3. state'.raw_count = state.raw_count + 1 /\ raws = state.raw_count + 1
          /\ state.raw_count \in Nat
      BY <1>0, <1>3 DEF Journaled, InFlight, reduce_event, Typed, TypeOK, StateTyped
    <2>4. Counts' = Counts
      BY <2>1 DEF Counts, counts
    <2>5. Written'
      <3>1. /\ tail = "none" /\ next_seq = Len(wal) + 1 /\ records = Len(wal)
            /\ Len(wal) = raws + deriveds + 1 /\ latest_raw = 2 * raws
            /\ Walk(wal) = Counts
        BY <1>0 DEF Journaled, Written
      <3>2. raws <= state'.raw_count + 1
        BY <2>3
      <3> HIDE DEF Counts
      <3> QED BY <1>3, <2>1, <2>4, <3>1, <3>2 DEF Written, counts
    <2>6. InFlight' /\ CleanOnly'
      BY <1>0, <1>3, <2>1, OpenWhileBusy DEF InFlight, CleanOnly
    <2> QED BY <2>2, <2>5, <2>6 DEF Journaled
  <1> QED BY <1>1, <1>2, <1>3 DEF Settle

LEMMA AttemptHaltReads ==
    ASSUME Typed, Controlled, Journaled, AttemptHalt
    PROVE  Journaled'
  <1>0. Live /\ pc = "halting" /\ ~marked
    BY OpenWhileBusy DEF AttemptHalt, Busy
  <1>1. CASE PreobservedGlobalHalt
    BY <1>0, <1>1, PreobservedReads
  <1>2. CASE Escapes
    BY <1>0, <1>2, Refused
  <1>3. CASE /\ HaltWritten(why) \/ HaltWriteFails(why) \/ (UNCHANGED file /\ Poison)
             /\ pc' = "idle" /\ UNCHANGED marked
    <2>1. Scans' /\ Replays' /\ CleanEnds' /\ closed'
      <3>1. CASE HaltWritten(why) \/ HaltWriteFails(why)
        BY <1>0, <3>1, HaltReads
      <3>2. CASE UNCHANGED file /\ Poison
        BY <3>2, UnreadReads DEF file, Poison
      <3> QED BY <1>3, <3>1, <3>2
    <2> QED BY <1>0, <1>3, <2>1, Ends
  <1> QED BY <1>1, <1>2, <1>3 DEF AttemptHalt

LEMMA AuthorizeCloseReads ==
    ASSUME Typed, Controlled, Journaled, AuthorizeClose
    PROVE  Journaled'
  <1>0. Live /\ pc = "authorize_close"
    BY OpenWhileBusy DEF AuthorizeClose, Busy
  <1>1. CASE PreobservedGlobalHalt
    BY <1>0, <1>1, PreobservedReads
  <1>2. CASE Escapes \/ GateDenied
    BY <1>0, <1>2, Refused
  <1>3. CASE Coordinated /\ Advance("close_clean") /\ UNCHANGED <<file, writer>>
    <2>1. UNCHANGED <<Unread, marked>> /\ pc' = "close_clean"
      BY <1>3 DEF Unread, file, writer, rt, counts, Advance
    <2>2. raws' = state'.raw_count
      BY <1>0, <1>3, <2>1, NoneUnapplied DEF Coordinated, Unread, counts
    <2>3. InFlight'
      BY <2>1, <2>2 DEF InFlight
    <2> QED BY <1>0, <2>1, <2>3, Proceeds
  <1> QED BY <1>1, <1>2, <1>3 DEF AuthorizeClose

LEMMA WriteCleanReads ==
    ASSUME Typed, Controlled, Journaled, WriteClean
    PROVE  Journaled'
  <1>0. Live /\ pc = "close_clean" /\ pc \in Writing /\ ~marked
    BY OpenWhileBusy DEF WriteClean, Busy, Writing
  <1>1. CASE WriteOk(Pending) /\ Advance("ack")
    <2>1. /\ wal' = Append(wal, Pending)
          /\ UNCHANGED <<tail, state, trace, closed, marked>> /\ pc' = "ack"
      BY <1>1 DEF WriteOk, Advance, rt
    <2>2. Scans' /\ Replays' /\ CleanEnds' /\ Walk(wal').clean
      BY <1>0, <2>1, CleanFrame
    <2>3. Written' /\ InFlight' /\ CleanOnly'
      BY <1>0, <2>1, <2>2 DEF Written, Live, InFlight, CleanOnly
    <2> QED BY <2>2, <2>3 DEF Journaled
  <1>2. CASE WriteFailed(Pending) /\ Poison /\ pc' = "idle" /\ UNCHANGED marked
    BY <1>0, <1>2, PoisonReads
  <1> QED BY <1>1, <1>2 DEF WriteClean

LEMMA AckCleanReads ==
    ASSUME Typed, Controlled, Journaled, AckClean
    PROVE  Journaled'
  <1>1. /\ pc = "ack" /\ ~marked /\ Walk(wal).clean /\ closed' /\ UNCHANGED marked
        /\ UNCHANGED <<wal, tail, state, trace>> /\ pc' \in {"idle", "mark"}
        /\ pc' = "mark" => ~poisoned'
    BY OpenWhileBusy DEF AckClean, CloseWriter, Poison, file, Journaled, CleanOnly
  <1>2. Scans' /\ Replays' /\ CleanEnds'
    BY <1>1, UnreadReads
  <1>3. Written' /\ InFlight' /\ CleanOnly'
    BY <1>1 DEF Written, Live, InFlight, CleanOnly
  <1> QED BY <1>2, <1>3 DEF Journaled

LEMMA MarkCleanReads ==
    ASSUME Typed, Controlled, Journaled, MarkClean
    PROVE  Journaled'
  <1>1. /\ closed /\ closed' /\ UNCHANGED <<wal, tail, state, trace>> /\ pc' = "idle"
        /\ ~poisoned /\ ~marked /\ Walk(wal).clean /\ (marked' => ~poisoned')
    BY DEF MarkClean, file, Journaled, CleanOnly, Controlled, PoisonCloses
  <1>2. Scans' /\ Replays' /\ CleanEnds'
    BY <1>1, UnreadReads
  <1>3. Written' /\ InFlight' /\ CleanOnly'
    BY <1>1 DEF Written, Live, InFlight, CleanOnly
  <1> QED BY <1>2, <1>3 DEF Journaled

LEMMA BootReads ==
    ASSUME Typed, Controlled, Journaled, ClaimRuntime \/ AuthorizeSession
    PROVE  Journaled'
  <1>0. Live
    BY OpenWhileBusy DEF ClaimRuntime, AuthorizeSession, Busy
  <1>1. CASE PreobservedGlobalHalt
    BY <1>0, <1>1, PreobservedReads
  <1>2. CASE Raise("initialization_failure")
    BY <1>0, <1>2, Refused
  <1>3. CASE UNCHANGED <<file, counts, state, trace, marked>> /\ pc' \in {"authorize", "idle"}
    BY <1>0, <1>3, Rests DEF Unread, file
  <1>4. ClaimRuntime => UNCHANGED <<file, counts, state, trace, marked>>
                        /\ pc' \in {"authorize", "idle"}
    BY DEF ClaimRuntime
  <1>5. AuthorizeSession => \/ PreobservedGlobalHalt
                            \/ Raise("initialization_failure")
                            \/ UNCHANGED <<file, counts, state, trace, marked>> /\ pc' = "idle"
    BY DEF AuthorizeSession, writer, rt, counts
  <1> QED BY <1>1, <1>2, <1>3, <1>4, <1>5

LEMMA CallReads ==
    ASSUME Typed, Controlled, Journaled, Call
    PROVE  Journaled'
  <1>1. CASE \E c \in Captures, valid \in BOOLEAN : Ingest(c, valid)
    BY <1>1, IngestReads
  <1>2. CASE \E reason \in OwnerHalts : CloseHalted(reason)
    <2>1. Live /\ \E reason : Raise(reason)
      BY <1>2, OpenWhileBusy DEF CloseHalted
    <2> QED BY <2>1, Refused
  <1>3. CASE PollEntitlement
    <2>0. Live
      BY <1>3, OpenWhileBusy DEF PollEntitlement
    <2>1. CASE PreobservedGlobalHalt
      BY <2>0, <2>1, PreobservedReads
    <2>2. CASE GateDenied
      BY <2>0, <2>2, Refused
    <2>3. CASE pc' = "authorize_close"
               /\ UNCHANGED <<file, writer, rt, env, captured, denied, marked>>
      BY <2>0, <2>3, Rests DEF Unread, file, writer, rt, counts
    <2> QED BY <1>3, <2>1, <2>2, <2>3 DEF PollEntitlement
  <1>4. CASE CloseSessionEndEarly
    <2>1. /\ Live /\ ~marked /\ closed' /\ pc' = "idle"
          /\ UNCHANGED <<wal, tail, state, trace, marked>>
      BY <1>4, OpenWhileBusy DEF CloseSessionEndEarly, Callable, Poison, file
    <2> QED BY <2>1, UnreadReads, Ends
  <1>5. CASE CloseClean
    <2>0. Live
      BY <1>5, OpenWhileBusy DEF CloseClean
    <2> QED BY <1>5, <2>0, Rests DEF CloseClean, Unread, file, writer, rt, counts
  <1> QED BY <1>1, <1>2, <1>3, <1>4, <1>5 DEF Call

LEMMA JournaledKept ==
    ASSUME Journaled, UNCHANGED <<wal, tail, next_seq, records, raws, deriveds,
               latest_raw, state, trace, closed, poisoned, pc, captured, marked>>
    PROVE  Journaled'
  <1>1. Scans' /\ Replays' /\ CleanEnds'
    BY UnreadReads
  <1>2. /\ Counts' = Counts /\ Settled' = Settled /\ RawInFlight' = RawInFlight
        /\ Live' = Live
    BY DEF Counts, Settled, RawInFlight, Live
  <1>3. Written'
    <2> HIDE DEF Counts, Live
    <2> QED BY <1>2 DEF Journaled, Written
  <1>4. InFlight'
    BY <1>2 DEF Journaled, InFlight
  <1>5. CleanOnly'
    BY DEF Journaled, CleanOnly
  <1> QED BY <1>1, <1>3, <1>4, <1>5 DEF Journaled

LEMMA EnvironmentReads ==
    ASSUME Typed, Controlled, Journaled, Environment
    PROVE  Journaled'
  <1>1. CASE GateChanges \/ SessionEnds \/ LatchGlobalHalt \/ RetireCoordinator
    BY <1>1, JournaledKept
       DEF GateChanges, SessionEnds, LatchGlobalHalt, RetireCoordinator, file, writer, rt
  <1>2. CASE Crash
    <2>0. UNCHANGED <<counts, state, trace, poisoned, closed, marked>> /\ pc' = "down"
      BY <1>2 DEF Crash, writer, rt, counts
    <2>1. CASE pc \in Writing
      <3>1. Residue(Pending)
        BY <1>2, <2>1 DEF Crash
      <3>2. Scans' /\ Replays' /\ CleanEnds'
        BY <2>0, <2>1, <3>1, PendingResidue
      <3>3. ~marked
        BY <2>1, OpenWhileBusy DEF Writing, Busy
      <3> QED BY <2>0, <3>2, <3>3, Ends
    <2>2. CASE pc \notin Writing
      <3>1. UNCHANGED <<wal, tail>> /\ pc # "down"
        BY <1>2, <2>2 DEF Crash, file
      <3>2. Scans' /\ Replays' /\ CleanEnds'
        BY <2>0, <3>1, UnreadReads
      <3>3. Written' /\ InFlight' /\ CleanOnly'
        BY <2>0, <3>1 DEF Written, Live, InFlight, CleanOnly, Journaled
      <3> QED BY <3>2, <3>3 DEF Journaled
    <2> QED BY <2>1, <2>2
  <1> QED BY <1>1, <1>2 DEF Environment

LEMMA JournaledStep ==
    ASSUME Typed, Controlled, Journaled, [Next]_vars
    PROVE  Journaled'
  <1>1. CASE OwnerStep
    BY <1>1, CreateReads, BootReads, AppendRawReads, TransformReads, AppendDerivedReads,
       SettleReads, AttemptHaltReads, AuthorizeCloseReads, WriteCleanReads, AckCleanReads,
       MarkCleanReads DEF OwnerStep
  <1>2. CASE Call
    BY <1>2, CallReads
  <1>3. CASE Environment
    BY <1>3, EnvironmentReads
  <1>4. CASE UNCHANGED vars
    BY <1>4, JournaledKept DEF vars
  <1> QED BY <1>1, <1>2, <1>3, <1>4 DEF Next

LEMMA JournaledInit ==
    ASSUME Init
    PROVE  Journaled
  <1>1. Walk(wal) = WalkStart
    BY WalkEmpty DEF Init
  <1>2. Written /\ InFlight /\ CleanOnly
    BY DEF Init, Written, Live, InFlight, CleanOnly
  <1>3. Scans /\ CleanEnds
    BY <1>1 DEF Scans, CleanEnds, WalkStart
  <1>4. Replays
    BY DEF Init, Replays, initial_state
  <1> QED BY <1>2, <1>3, <1>4 DEF Journaled

-----------------------------------------------------------------------------
(* What a scan says of a journal that reads. *)
LEMMA ScanOf ==
    ASSUME Journaled, tail \in {"none", "torn", "corrupt"}
    PROVE  /\ Scan(wal, tail) # Corruption
           /\ Scan(wal, tail) = "clean" <=> Walk(wal).clean
  <1> DEFINE acc == Walk(wal)
  <1>1. ~acc.error /\ (acc.terminal => tail = "none") /\ (acc.clean => acc.terminal)
    BY DEF Journaled, Scans, CleanEnds
  <1>2. Scan(wal, tail) =
           CASE acc.error \/ (acc.terminal /\ tail # "none") -> Corruption
             [] ~acc.error /\ ~acc.terminal /\ tail = "torn" -> "torn_tail"
             [] ~acc.error /\ ~acc.terminal /\ tail = "corrupt" -> "corrupt_tail"
             [] ~acc.error /\ ~acc.terminal /\ tail = "none" -> "missing_terminal"
             [] ~acc.error /\ acc.terminal /\ tail = "none" ->
                   IF acc.clean THEN "clean" ELSE "halted_terminal"
    BY DEF Scan
  <1> HIDE DEF acc
  <1>3. acc.terminal => Scan(wal, tail) = IF acc.clean THEN "clean" ELSE "halted_terminal"
    BY <1>1, <1>2
  <1>4. ~acc.terminal => Scan(wal, tail) \in {"torn_tail", "corrupt_tail", "missing_terminal"}
    BY <1>1, <1>2
  <1>5. CASE acc.terminal
    BY <1>1, <1>3, <1>5 DEF Corruption, acc
  <1>6. CASE ~acc.terminal
    BY <1>1, <1>4, <1>6 DEF Corruption, acc
  <1> QED BY <1>5, <1>6

LEMMA JournalReplaysNow ==
    ASSUME Typed, Journaled
    PROVE  StateIsReplayOfJournal
  <1>1. (IF state.last_applied = 0 THEN 1 ELSE state.last_applied + 1) = Settled
    <2>1. state.last_applied = 2 * state.raw_count /\ state.raw_count \in Nat
      BY DEF Journaled, Replays, Typed, TypeOK, StateTyped
    <2> QED BY <2>1 DEF Settled
  <1>2. Scan(wal, tail) # Corruption
    BY ScanOf DEF Typed, TypeOK, FileTyped
  <1>3. ASSUME wal # << >>
        PROVE  LET back == ReplayRecords(SubSeq(wal, 1, Settled))
               IN  /\ Settled <= Len(wal)
                   /\ back.state = state /\ back.trace = trace
                   /\ back.mismatch = NoMismatch
                   /\ Walk(wal).raws - state.raw_count \in {0, 1}
    BY <1>3 DEF Journaled, Replays, ReadBack, Replayed
  <1> HIDE DEF Settled
  <1> QED BY <1>1, <1>2, <1>3 DEF StateIsReplayOfJournal

(* Replaying a clean journal to its end. *)
LEMMA CleanReplay ==
    ASSUME Typed, Journaled, Walk(wal).clean
    PROVE  LET r == Replay(wal, tail)
           IN  r.exact /\ r.state = state /\ r.trace = trace
  <1> DEFINE end == wal[Len(wal)]
  <1>1. PICK S : wal \in Seq(S)
    BY DEF Typed, WalSeq
  <1>2. /\ Len(wal) = Settled + 1 /\ end.kind = "HALT" /\ end.clean
        /\ end.records = Settled /\ end.last_applied = state.last_applied
        /\ end.state = state /\ end.trace = trace
    BY DEF Journaled, CleanEnds
  <1>3. Settled \in Nat /\ Settled \in 0 .. Len(wal) - 1
    BY <1>1, <1>2, SettledNat
  <1>4. wal # << >> /\ SubSeq(wal, 1, Settled + 1) = wal
    <2>1. Len(wal) \in 0 .. Len(wal)
      BY <1>1
    <2>2. SubSeq(wal, 1, Len(wal)) = wal
      BY <1>1, <2>1, SubSeqAppends
    <2> QED BY <1>1, <1>2, <1>3, <2>2
  <1>5. FinishPending(ReplayOf(SubSeq(wal, 1, Settled))) = ReadBack
    BY <1>4, ReplayFinishes DEF Journaled, Replays
  <1>6. ReplayOf(wal) = ReadBack
    <2>1. ReplayOf(SubSeq(wal, 1, Settled + 1))
             = ReplayRecord(ReplayOf(SubSeq(wal, 1, Settled)), wal[Settled + 1])
      BY <1>1, <1>3, ReplayOneMore
    <2>2. wal[Settled + 1].kind = "HALT"
      BY <1>2
    <2>3. ReplayRecord(ReplayOf(SubSeq(wal, 1, Settled)), wal[Settled + 1])
             = FinishPending(ReplayOf(SubSeq(wal, 1, Settled)))
      BY <2>2 DEF ReplayRecord
    <2> QED BY <1>4, <1>5, <2>1, <2>3
  <1>7. ReplayRecords(wal) = ReadBack
    <2>1. << >> \in Seq({})
      OBVIOUS
    <2>2. FinishPending(ReadBack) = ReadBack
      BY <2>1, FinishSettles DEF ReadBack
    <2> QED BY <1>6, <2>2, ReplayFinishes
  <1>8. /\ ReadBack.failed = FALSE /\ ReadBack.state = state /\ ReadBack.trace = trace
        /\ ReadBack.mismatch = NoMismatch
    BY DEF ReadBack, Replayed
  <1>9. Len(wal) - 1 = Settled
    BY <1>2, <1>3
  <1> HIDE DEF end
  <1>10. TerminalMismatch(ReadBack, end, Len(wal)) = NoMismatch
    BY <1>2, <1>8, <1>9 DEF TerminalMismatch
  <1>11. FirstMismatch(ReadBack, TerminalMismatch(ReadBack, end, Len(wal))) = NoMismatch
    BY <1>8, <1>10 DEF FirstMismatch
  <1>12. Scan(wal, tail) = "clean"
    BY ScanOf DEF Typed, TypeOK, FileTyped
  <1> DEFINE mismatch == IF wal # << >> /\ wal[Len(wal)].kind = "HALT"
                         THEN FirstMismatch(ReplayRecords(wal),
                                TerminalMismatch(ReplayRecords(wal), wal[Len(wal)], Len(wal)))
                         ELSE ReplayRecords(wal).mismatch
  <1>13. mismatch = NoMismatch
    BY <1>2, <1>4, <1>7, <1>11 DEF end
  <1>14. Replay(wal, tail) =
            [state |-> ReplayRecords(wal).state, trace |-> ReplayRecords(wal).trace,
             mismatch |-> mismatch,
             exact |-> ~ReplayRecords(wal).failed /\ Scan(wal, tail) = "clean"
                       /\ mismatch = NoMismatch]
    BY DEF Replay
  <1> HIDE DEF mismatch
  <1>15. (~ReadBack.failed /\ Scan(wal, tail) = "clean" /\ mismatch = NoMismatch) = TRUE
    BY <1>8, <1>12, <1>13
  <1> DEFINE r == Replay(wal, tail)
  <1>16. r.state = ReplayRecords(wal).state /\ r.trace = ReplayRecords(wal).trace
    BY <1>14
  <1>17. r.exact = (~ReplayRecords(wal).failed /\ Scan(wal, tail) = "clean"
                      /\ mismatch = NoMismatch)
    BY <1>14
  <1> HIDE DEF r
  <1>18. r.exact
    BY <1>7, <1>15, <1>17
  <1> QED BY <1>7, <1>8, <1>16, <1>18 DEF r

LEMMA CleanReplaysNow ==
    ASSUME Typed, Journaled
    PROVE  CleanJournalReplaysExactly
  <1>1. Scan(wal, tail) = "clean" <=> Walk(wal).clean
    BY ScanOf DEF Typed, TypeOK, FileTyped
  <1>2. marked => closed /\ ~poisoned /\ Walk(wal).clean
    BY DEF Journaled, CleanOnly
  <1> QED BY <1>1, <1>2, CleanReplay DEF CleanJournalReplaysExactly

(* The journal of every reachable state: it reads, and its settled frames  *)
(* replay to the runtime's state.                                          *)
THEOREM JournalInvariant == Spec => []Journaled
  <1>1. Init => Journaled
    BY JournaledInit
  <1>2. IInv /\ Journaled /\ [Next]_vars => Journaled'
    BY JournaledStep DEF IInv
  <1> QED BY <1>1, <1>2, SessionInvariant, PTL DEF Spec

(* Durable before reduce: whatever was interrupted, the journal scans and  *)
(* the runtime's state is the replay of its settled records.               *)
THEOREM JournalReplays == Spec => []StateIsReplayOfJournal
  <1>1. IInv /\ Journaled => StateIsReplayOfJournal
    BY JournalReplaysNow DEF IInv
  <1> QED BY <1>1, SessionInvariant, JournalInvariant, PTL

(* A journal that scans clean replays exactly, and only such a journal is  *)
(* ever marked clean (replay_exact, mark_clean_terminal).                  *)
THEOREM CleanIsExact == Spec => []CleanJournalReplaysExactly
  <1>1. IInv /\ Journaled => CleanJournalReplaysExactly
    BY CleanReplaysNow DEF IInv
  <1> QED BY <1>1, SessionInvariant, JournalInvariant, PTL
=============================================================================
