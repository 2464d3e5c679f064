-------------------------- MODULE TrialLedgerProofs --------------------------
(***************************************************************************)
(* Theorems about TrialLedger, for every quota, every number of processes  *)
(* and every number of failing calls and power failures.                   *)
(***************************************************************************)
EXTENDS TrialLedger, FiniteSetTheorems, WellFoundedInduction, TLAPS

Durable == files["usage"].synced

(* The usage ledger is a sequence of rows, some of them durable. *)
UsageIs(u) == \E S : u \in [rows : Seq(S), synced : Nat]

Filed ==
    /\ files = [f \in Files |-> files[f]] /\ UsageIs(files["usage"])
    /\ Durable <= Len(Usage) /\ Len(Usage) <= AccessLimit

(* A row on its way to the ledger is the one after those counted, and what *)
(* is on its way elsewhere reserves nothing.                               *)
Appending ==
    /\ io # NoRow => pc # "down"
    /\ io.file = "usage" =>
          /\ pc \in {"idle", "polling"} /\ io.next = "reserved"
          /\ mine < SessionLimit /\ total < AccessLimit
          /\ Len(Usage) = total + 1 /\ Durable <= total
          /\ Usage[total + 1] = Reservation(run, mine + 1, total + 1)
    /\ io # NoRow /\ io.file # "usage" =>
          io.next # "reserved" /\ (pc = "erred" => io.next = "down")

(* What the process has counted is what the ledger holds, until a call     *)
(* fails; a reservation is the durable last row.                           *)
Counted ==
    /\ mine \in 0 .. SessionLimit /\ total \in Nat /\ run \in Nat
    /\ pc \notin {"down", "erred"} /\ io.file # "usage" => Len(Usage) = total
    /\ pc = "reserved" => Durable = total /\ Usage[total] = Reservation(run, mine, total)

SentBy(s) == {i \in DOMAIN sent : sent[i].session = s}

Requests == [session : Nat, attempt : Nat, access : Nat]

(* Every request that was sent has a durable row of its own; a reservation *)
(* is a row none of them has.                                              *)
Backed ==
    /\ sent \in Seq(Requests)
    /\ Len(sent) <= Durable
    /\ \A i \in DOMAIN sent :
          /\ sent[i].session <= run /\ sent[i].access \in 1 .. Durable
          /\ Usage[sent[i].access]
                = Reservation(sent[i].session, sent[i].attempt, sent[i].access)
    /\ \A i, j \in DOMAIN sent : sent[i].access = sent[j].access => i = j
    /\ pc = "reserved" =>
          Len(sent) < total /\ \A i \in DOMAIN sent : sent[i].access < total

(* No process sends more requests than it has counted. *)
Rationed ==
    /\ \A s \in Nat : Cardinality(SentBy(s)) <= SessionLimit
    /\ pc # "down" => Cardinality(SentBy(run)) <= mine
    /\ pc = "reserved" => Cardinality(SentBy(run)) < mine

LedgerInv == Filed /\ Appending /\ Counted /\ Backed /\ Rationed

-----------------------------------------------------------------------------
(* Rows and files.                                                         *)

(* What an interrupted append leaves: every row but the last. *)
LEMMA PartKeeps ==
    ASSUME NEW S, NEW rows \in Seq(S), rows # << >>, NEW part \in PartlyWritten(rows)
    PROVE  /\ \E T : part \in Seq(T)
           /\ Len(part) \in {Len(rows), Len(rows) - 1}
           /\ \A i \in 1 .. Len(rows) - 1 : part[i] = rows[i]
  <1>1. /\ Front(rows) \in Seq(S) /\ Len(Front(rows)) = Len(rows) - 1
        /\ \A i \in 1 .. Len(rows) - 1 : Front(rows)[i] = rows[i]
    <2>1. Len(rows) \in Nat /\ Len(rows) # 0
      OBVIOUS
    <2>2. PICK n \in Nat : Len(rows) = n + 1
      BY <2>1
    <2>3. Front(rows) = SubSeq(rows, 1, n)
      BY <2>2 DEF Front
    <2>4. SubSeq(rows, 1, n) \in Seq(S) /\ Len(SubSeq(rows, 1, n)) = n
          /\ \A i \in 1 .. n : SubSeq(rows, 1, n)[i] = rows[i]
      BY <2>2
    <2> QED BY <2>2, <2>3, <2>4
  <1>2. CASE part = rows
    BY <1>2
  <1>3. CASE part = Front(rows)
    BY <1>1, <1>3
  <1>4. CASE \E x : part = Append(Front(rows), x)
    <2>1. PICK x : part = Append(Front(rows), x)
      BY <1>4
    <2>2. Front(rows) \in Seq(S \cup {x})
      BY <1>1
    <2>3. part \in Seq(S \cup {x}) /\ Len(part) = Len(rows)
          /\ \A i \in 1 .. Len(rows) - 1 : part[i] = rows[i]
      BY <1>1, <2>1, <2>2
    <2> QED BY <2>3
  <1> QED BY <1>2, <1>3, <1>4 DEF PartlyWritten

(* A power failure leaves every durable row. *)
LEMMA SurvivorKeeps ==
    ASSUME NEW u, UsageIs(u), u.synced <= Len(u.rows), NEW v \in Survives(u)
    PROVE  /\ UsageIs(v) /\ u.synced <= v.synced /\ v.synced = Len(v.rows)
           /\ Len(v.rows) <= Len(u.rows)
           /\ \A i \in 1 .. u.synced : v.rows[i] = u.rows[i]
  <1>1. PICK S : u \in [rows : Seq(S), synced : Nat]
    BY DEF UsageIs
  <1>2. PICK k \in u.synced .. Len(u.rows) :
            v \in IF k = u.synced THEN {[rows |-> SubSeq(u.rows, 1, k), synced |-> k]}
                  ELSE {[rows |-> rows, synced |-> Len(rows)] :
                          rows \in PartlyWritten(SubSeq(u.rows, 1, k))}
    BY DEF Survives
  <1> DEFINE left == SubSeq(u.rows, 1, k)
  <1>3. /\ u.rows \in Seq(S) /\ u.synced \in Nat /\ k \in Nat /\ k <= Len(u.rows)
        /\ left \in Seq(S) /\ Len(left) = k /\ u.synced <= k
        /\ \A i \in 1 .. k : left[i] = u.rows[i]
    BY <1>1
  <1> HIDE DEF left
  <1>4. CASE k = u.synced
    <2>1. v = [rows |-> left, synced |-> k]
      BY <1>2, <1>4 DEF left
    <2>2. v \in [rows : Seq(S), synced : Nat]
      BY <1>3, <2>1
    <2> QED BY <1>3, <1>4, <2>1, <2>2 DEF UsageIs
  <1>5. CASE k # u.synced
    <2>1. PICK rows \in PartlyWritten(left) : v = [rows |-> rows, synced |-> Len(rows)]
      BY <1>2, <1>5 DEF left
    <2>2. left # << >>
      BY <1>3, <1>5
    <2>3. /\ \E T : rows \in Seq(T)
          /\ Len(rows) \in {k, k - 1} /\ \A i \in 1 .. k - 1 : rows[i] = left[i]
      BY <1>3, <2>2, PartKeeps
    <2>4. PICK T : rows \in Seq(T)
      BY <2>3
    <2>5. v \in [rows : Seq(T), synced : Nat]
      BY <2>1, <2>4
    <2>6. u.synced <= k - 1
      BY <1>3, <1>5
    <2>7. v.rows = rows /\ v.synced = Len(rows)
      BY <2>1
    <2>8. \A i \in 1 .. u.synced : rows[i] = u.rows[i]
      BY <1>3, <2>3, <2>6
    <2>9. u.synced <= Len(rows) /\ Len(rows) <= Len(u.rows)
      BY <1>3, <2>3, <2>6
    <2> QED BY <2>5, <2>7, <2>8, <2>9 DEF UsageIs
  <1> QED BY <1>4, <1>5

(* An append elsewhere leaves the ledger alone. *)
LEMMA OtherFile ==
    ASSUME Filed, NEW f, f # "usage", NEW file,
           files' = [files EXCEPT ![f] = file]
    PROVE  files'["usage"] = files["usage"] /\ Filed'
  <1>1. files'["usage"] = files["usage"] /\ files' = [g \in Files |-> files'[g]]
    BY DEF Filed, Files
  <1> QED BY <1>1 DEF Filed, Durable, Usage

-----------------------------------------------------------------------------
(* Steps that neither reserve nor send.                                    *)

(* The requests that were sent stay backed by the durable rows. *)
LEMMA BackedKept ==
    ASSUME Backed, Durable \in Nat, UNCHANGED sent, run \in Nat, run' \in Nat, run <= run',
           Durable' \in Nat, Durable <= Durable',
           \A i \in 1 .. Durable : Usage'[i] = Usage[i],
           pc' = "reserved" => total' \in Nat /\ Durable < total'
    PROVE  Backed'
  <1>1. Len(sent') <= Durable'
    BY DEF Backed
  <1>2. ASSUME NEW i \in DOMAIN sent
        PROVE  /\ sent[i].session <= run' /\ sent[i].access \in 1 .. Durable'
               /\ Usage'[sent[i].access]
                     = Reservation(sent[i].session, sent[i].attempt, sent[i].access)
    <2>1. /\ sent[i].session <= run /\ sent[i].access \in 1 .. Durable
          /\ Usage[sent[i].access] = Reservation(sent[i].session, sent[i].attempt, sent[i].access)
      BY DEF Backed
    <2>2. sent[i].session \in Nat
      <3>1. sent \in Seq(Requests)
        BY DEF Backed
      <3>2. sent[i] \in Requests
        BY <3>1
      <3> QED BY <3>2 DEF Requests
    <2>3. sent[i].session <= run'
      BY <2>1, <2>2
    <2>4. sent[i].access \in 1 .. Durable'
      BY <2>1
    <2>5. Usage'[sent[i].access] = Usage[sent[i].access]
      BY <2>1
    <2> QED BY <2>1, <2>3, <2>4, <2>5
  <1>3. ASSUME pc' = "reserved"
        PROVE  Len(sent') < total' /\ \A i \in DOMAIN sent' : sent'[i].access < total'
    <2>1. Len(sent) \in Nat /\ Len(sent) <= Durable
      BY DEF Backed
    <2>2. \A i \in DOMAIN sent : sent[i].access \in 1 .. Durable
      BY DEF Backed
    <2>3. Durable < total' /\ total' \in Nat
      BY <1>3
    <2>4. \A i \in DOMAIN sent : sent[i].access < total'
      BY <2>2, <2>3
    <2> QED BY <2>1, <2>3, <2>4
  <1> QED BY <1>1, <1>2, <1>3 DEF Backed

LEMMA SentFinite ==
    ASSUME LedgerInv, NEW s
    PROVE  IsFiniteSet(SentBy(s)) /\ Cardinality(SentBy(s)) \in Nat
  <1>1. Len(sent) \in Nat /\ SentBy(s) \subseteq 1 .. Len(sent)
    BY DEF LedgerInv, Backed, SentBy
  <1>2. IsFiniteSet(1 .. Len(sent))
    BY <1>1, FS_Interval
  <1> QED BY <1>1, <1>2, FS_Subset, FS_CardinalityType

LEMMA RationedKept ==
    ASSUME Rationed, UNCHANGED <<sent, run>>,
           pc' # "down" => pc # "down" /\ mine' = mine, pc' # "reserved"
    PROVE  Rationed'
  <1>1. \A s : SentBy(s)' = SentBy(s)
    BY DEF SentBy
  <1> QED BY <1>1 DEF Rationed

(* Steps with the ledger and what was counted left alone. *)
LEMMA LedgerKept ==
    ASSUME LedgerInv, UNCHANGED <<sent, run>>, Filed', files'["usage"] = files["usage"],
           pc' # "reserved", pc' # "down" => pc # "down",
           \/ UNCHANGED <<mine, total>> /\ (pc' # "erred" => pc \notin {"down", "erred"})
           \/ pc' = "down" /\ mine' = 0 /\ total' = 0,
           io.file # "usage", io'.file # "usage", Appending'
    PROVE  LedgerInv'
  <1>1. Durable' = Durable /\ Usage' = Usage /\ Durable \in Nat /\ run \in Nat
    BY DEF LedgerInv, Filed, UsageIs, Durable, Usage, Counted
  <1>2. Backed'
    BY <1>1, BackedKept DEF LedgerInv
  <1>3. Rationed'
    BY RationedKept DEF LedgerInv
  <1>4. Counted'
    <2>1. mine' \in 0 .. SessionLimit /\ total' \in Nat /\ run' \in Nat
      BY TrialLedgerAssumption DEF LedgerInv, Counted
    <2>2. pc' \notin {"down", "erred"} => Len(Usage') = total'
      BY <1>1 DEF LedgerInv, Counted
    <2> QED BY <2>1, <2>2 DEF Counted
  <1> QED BY <1>2, <1>3, <1>4 DEF LedgerInv


(* Only the file, the row and the place of the append change. *)
LEMMA AppendElsewhere ==
    ASSUME LedgerInv, NEW f, f # "usage", NEW row, NEW next, next # "reserved",
           AppendRow(f, row, next), UNCHANGED <<mine, total>>,
           pc \notin {"down", "reserved"}, pc = "erred" => next = "down"
    PROVE  LedgerInv'
  <1>1. /\ io = NoRow /\ io' = [file |-> f, next |-> next]
        /\ UNCHANGED <<pc, sent, run>>
        /\ \E file : files' = [files EXCEPT ![f] = file]
    BY DEF AppendRow, history
  <1>2. io.file # "usage" /\ io'.file # "usage" /\ io'.next = next
    BY <1>1 DEF NoRow, None
  <1>3. Filed' /\ files'["usage"] = files["usage"]
    BY <1>1, OtherFile DEF LedgerInv
  <1>4. Appending'
    BY <1>1, <1>2 DEF Appending
  <1> QED BY <1>1, <1>2, <1>3, <1>4, LedgerKept

(* A step of the command that writes no row. *)
LEMMA StepsOn ==
    ASSUME LedgerInv, io = NoRow, UNCHANGED <<files, io, mine, total, run, sent>>,
           pc \notin {"down", "erred"}, pc' \notin {"down", "erred", "reserved"}
    PROVE  LedgerInv'
  <1>1. io.file # "usage"
    BY DEF NoRow, None
  <1>2. Filed'
    BY DEF LedgerInv, Filed, Durable, Usage
  <1>3. Appending'
    BY <1>1 DEF Appending
  <1> QED BY <1>1, <1>2, <1>3, LedgerKept

LEMMA RecoverKeeps ==
    ASSUME LedgerInv, Recover
    PROVE  LedgerInv'
  <1>1. /\ pc = "recovering" /\ UNCHANGED <<mine, total>>
        /\ \E f \in {"outcomes", "observations"} : \E row : AppendRow(f, row, "recovering")
    BY DEF Recover, memory
  <1> QED BY <1>1, AppendElsewhere

(* The appends of a command, and of its end. *)
LEMMA CommandAppends ==
    ASSUME LedgerInv,
           \/ RecordCaptured \/ RecordFailed \/ ParserFailure \/ Observe
           \/ Stop \/ Halt \/ Complete \/ DurationElapsed
    PROVE  LedgerInv'
  <1>1. CASE RecordCaptured
    BY <1>1, AppendElsewhere DEF RecordCaptured, memory
  <1>2. CASE RecordFailed
    BY <1>2, AppendElsewhere DEF RecordFailed, memory
  <1>3. CASE ParserFailure
    BY <1>3, AppendElsewhere DEF ParserFailure, memory
  <1>4. CASE Observe
    BY <1>4, AppendElsewhere DEF Observe
  <1>5. ASSUME NEW reason, End(reason), pc \notin {"down", "reserved"}
        PROVE  LedgerInv'
    BY <1>5, AppendElsewhere DEF End, memory
  <1>6. CASE Stop \/ Halt \/ Complete \/ DurationElapsed
    <2>1. pc \notin {"down", "reserved"} /\ \E reason : End(reason)
      BY <1>6 DEF Stop, Halt, Complete, DurationElapsed
    <2> QED BY <1>5, <2>1
  <1> QED BY <1>1, <1>2, <1>3, <1>4, <1>6

LEMMA CommandSteps ==
    ASSUME LedgerInv,
           \/ Recovered \/ RequestFails \/ CreateRaw \/ WriteRaw \/ SyncRaw
           \/ RawFails \/ Poll
    PROVE  LedgerInv'
  <1>1. /\ io = NoRow /\ UNCHANGED <<files, io, mine, total, run, sent>>
        /\ pc \notin {"down", "erred"} /\ pc' \notin {"down", "erred", "reserved"}
    BY DEF Recovered, RequestFails, CreateRaw, WriteRaw, SyncRaw, RawFails, Poll, Goto,
           disk, memory, history
  <1> QED BY <1>1, StepsOn

-----------------------------------------------------------------------------
(* Reserving and sending.                                                  *)

LEMMA ReserveKeeps ==
    ASSUME LedgerInv, Reserve
    PROVE  LedgerInv'
  <1> DEFINE row == Reservation(run, mine + 1, total + 1)
             u == [files["usage"] EXCEPT !.rows = Append(@, row)]
  <1>1. /\ pc \in {"idle", "polling"} /\ io = NoRow /\ UNCHANGED <<pc, mine, total, sent, run>>
        /\ mine < SessionLimit /\ total < AccessLimit
        /\ io' = [file |-> "usage", next |-> "reserved"]
        /\ files' = [files EXCEPT !["usage"] = u]
    BY DEF Reserve, AppendRow, memory, history
  <1>2. io.file # "usage"
    BY <1>1 DEF NoRow, None
  <1>3. PICK S : files["usage"] \in [rows : Seq(S), synced : Nat]
    BY DEF LedgerInv, Filed, UsageIs
  <1>4. /\ Usage \in Seq(S) /\ Durable \in Nat /\ Durable <= Len(Usage)
        /\ Len(Usage) = total /\ total \in Nat /\ mine \in Nat /\ run \in Nat
    BY <1>1, <1>2, <1>3 DEF LedgerInv, Filed, Counted, Usage, Durable
  <1>5. u.rows = Append(Usage, row) /\ u.synced = Durable
        /\ u = [rows |-> u.rows, synced |-> u.synced]
    <2> HIDE DEF row
    <2>1. files["usage"] = [rows |-> Usage, synced |-> Durable]
      BY <1>3 DEF Usage, Durable
    <2>2. u = [[rows |-> Usage, synced |-> Durable] EXCEPT !.rows = Append(Usage, row)]
      BY <2>1
    <2> HIDE DEF u
    <2>3. u.rows = Append(Usage, row) /\ u.synced = Durable
      BY <2>2
    <2>4. u = [rows |-> u.rows, synced |-> u.synced]
      BY <2>2
    <2> QED BY <2>3, <2>4
  <1> HIDE DEF u
  <1>6. files' = [f \in Files |-> files'[f]] /\ files'["usage"] = u
    BY <1>1 DEF LedgerInv, Filed, Files
  <1>7. Usage' = Append(Usage, row) /\ Durable' = Durable
    BY <1>5, <1>6 DEF Usage, Durable
  <1> HIDE DEF row
  <1>8. /\ Append(Usage, row) \in Seq(S \cup {row}) /\ Len(Append(Usage, row)) = total + 1
        /\ \A i \in 1 .. total : Append(Usage, row)[i] = Usage[i]
        /\ Append(Usage, row)[total + 1] = row
    <2>1. Usage \in Seq(S \cup {row})
      BY <1>4
    <2> QED BY <1>4, <2>1
  <1>9. Filed'
    <2>1. UsageIs(u)
      <3>1. u \in [rows : Seq(S \cup {row}), synced : Nat]
        BY <1>4, <1>5, <1>8
      <3> QED BY <3>1 DEF UsageIs
    <2>2. Durable' <= Len(Usage') /\ Len(Usage') <= AccessLimit
      BY <1>1, <1>4, <1>7, <1>8, TrialLedgerAssumption
    <2> QED BY <1>6, <2>1, <2>2 DEF Filed
  <1>10. Appending'
    BY <1>1, <1>4, <1>7, <1>8 DEF Appending, row
  <1>11. Counted'
    BY <1>1 DEF LedgerInv, Counted
  <1>12. Backed'
    <2>1. \A i \in 1 .. Durable : Usage'[i] = Usage[i]
      BY <1>4, <1>7, <1>8
    <2> QED BY <1>1, <1>4, <1>7, <2>1, BackedKept DEF LedgerInv
  <1>13. Rationed'
    BY <1>1, RationedKept DEF LedgerInv
  <1> QED BY <1>9, <1>10, <1>11, <1>12, <1>13 DEF LedgerInv

(* The row is durable, and counted. *)
LEMMA SyncUsage ==
    ASSUME LedgerInv, SyncRow, io.file = "usage"
    PROVE  LedgerInv'
  <1>1. /\ pc \in {"idle", "polling"} /\ io.next = "reserved"
        /\ mine < SessionLimit /\ total < AccessLimit
        /\ Len(Usage) = total + 1 /\ Durable <= total
        /\ Usage[total + 1] = Reservation(run, mine + 1, total + 1)
    BY DEF LedgerInv, Appending
  <1>2. /\ pc' = "reserved" /\ io' = NoRow /\ mine' = mine + 1 /\ total' = total + 1
        /\ UNCHANGED <<run, sent>>
        /\ files' = [files EXCEPT !["usage"].synced = Len(Usage)]
    BY <1>1 DEF SyncRow, history, NoRow, None, Usage
  <1>3. PICK S : files["usage"] \in [rows : Seq(S), synced : Nat]
    BY DEF LedgerInv, Filed, UsageIs
  <1>4. /\ Usage \in Seq(S) /\ Durable \in Nat /\ total \in Nat /\ mine \in Nat /\ run \in Nat
        /\ Len(Usage) <= AccessLimit
    BY <1>3 DEF LedgerInv, Filed, Counted, Usage, Durable
  <1>5. files' = [f \in Files |-> files'[f]]
        /\ files'["usage"] = [rows |-> Usage, synced |-> Len(Usage)]
    BY <1>2, <1>3 DEF LedgerInv, Filed, Files, Usage
  <1>6. Usage' = Usage /\ Durable' = total + 1
    BY <1>1, <1>5 DEF Usage, Durable
  <1>7. Filed'
    <2>1. files'["usage"] \in [rows : Seq(S), synced : Nat]
      BY <1>4, <1>5
    <2> QED BY <1>1, <1>4, <1>5, <1>6, <2>1 DEF Filed, UsageIs
  <1>8. Appending'
    BY <1>2 DEF Appending, NoRow, None
  <1>9. Counted'
    BY <1>1, <1>2, <1>4, <1>6, TrialLedgerAssumption DEF Counted
  <1>10. Backed'
    <2>1. /\ Durable' \in Nat /\ Durable <= Durable' /\ Durable < total' /\ total' \in Nat
      BY <1>1, <1>2, <1>4, <1>6
    <2> QED BY <1>2, <1>4, <1>6, <2>1, BackedKept DEF LedgerInv
  <1>11. Rationed'
    <2>1. \A s : SentBy(s)' = SentBy(s)
      BY <1>2 DEF SentBy
    <2>2. Cardinality(SentBy(run)) \in Nat /\ Cardinality(SentBy(run)) <= mine
      BY <1>1, SentFinite DEF LedgerInv, Rationed
    <2>3. Cardinality(SentBy(run)) < mine + 1 /\ Cardinality(SentBy(run)) <= mine + 1
      BY <1>4, <2>2
    <2> QED BY <1>2, <2>1, <2>3 DEF LedgerInv, Rationed
  <1> QED BY <1>7, <1>8, <1>9, <1>10, <1>11 DEF LedgerInv

LEMMA SyncKeeps ==
    ASSUME LedgerInv, SyncRow
    PROVE  LedgerInv'
  <1>1. CASE io.file = "usage"
    BY <1>1, SyncUsage
  <1>2. CASE io.file # "usage"
    <2>1. /\ io # NoRow /\ io' = NoRow /\ pc' = io.next /\ UNCHANGED <<run, sent>>
          /\ files' = [files EXCEPT ![io.file] =
                         [files[io.file] EXCEPT !.synced = Len(files[io.file].rows)]]
      BY DEF SyncRow, history
    <2>2. pc # "down" /\ io.next # "reserved" /\ (pc = "erred" => io.next = "down")
      BY <1>2, <2>1 DEF LedgerInv, Appending
    <2>3. Filed' /\ files'["usage"] = files["usage"]
      BY <1>2, <2>1, OtherFile DEF LedgerInv
    <2>4. \/ UNCHANGED <<mine, total>>
          \/ pc' = "down" /\ mine' = 0 /\ total' = 0
      BY <1>2 DEF SyncRow, Forgotten, memory
    <2>5. io'.file # "usage" /\ Appending'
      BY <2>1 DEF Appending, NoRow, None
    <2>6. \/ UNCHANGED <<mine, total>> /\ (pc' # "erred" => pc \notin {"down", "erred"})
          \/ pc' = "down" /\ mine' = 0 /\ total' = 0
      BY <1>2, <2>1, <2>2 DEF SyncRow, Forgotten, memory
    <2> QED BY <1>2, <2>1, <2>2, <2>3, <2>5, <2>6, LedgerKept
  <1> QED BY <1>1, <1>2

(* The request goes out with the row behind it. *)
LEMMA SendKeeps ==
    ASSUME LedgerInv, Send
    PROVE  LedgerInv'
  <1> DEFINE r == [session |-> run, attempt |-> mine, access |-> total]
             n == Len(sent)
  <1>1. /\ pc = "reserved" /\ pc' = "sent" /\ io = NoRow
        /\ UNCHANGED <<files, io, mine, total, run>> /\ sent' = Append(sent, r)
    BY DEF Send, Goto, disk, memory
  <1>2. /\ Durable = total /\ Usage[total] = Reservation(run, mine, total)
        /\ n < total /\ \A i \in DOMAIN sent : sent[i].access < total
        /\ mine \in Nat /\ total \in Nat /\ run \in Nat /\ io.file # "usage"
    BY <1>1 DEF LedgerInv, Counted, Backed, NoRow, None
  <1>3. sent \in Seq(Requests) /\ r \in Requests /\ n \in Nat
    BY <1>2 DEF LedgerInv, Backed, Requests
  <1>4. /\ Durable' = Durable /\ Usage' = Usage
    BY <1>1 DEF Durable, Usage
  <1>5. r.session = run /\ r.attempt = mine /\ r.access = total
    OBVIOUS
  <1> HIDE DEF r
  <1>6. /\ sent' \in Seq(Requests) /\ Len(sent') = n + 1 /\ sent'[n + 1] = r
        /\ DOMAIN sent' = 1 .. n + 1 /\ DOMAIN sent = 1 .. n
        /\ \A i \in 1 .. n : sent'[i] = sent[i]
    BY <1>1, <1>3
  <1> HIDE DEF n
  <1>7. Filed'
    BY <1>1 DEF LedgerInv, Filed, Durable, Usage
  <1>8. Appending'
    BY <1>1, <1>2 DEF LedgerInv, Appending
  <1>9. Counted'
    BY <1>1, <1>2, <1>4 DEF LedgerInv, Counted
  <1>10. Backed'
    <2>1. Len(sent') <= Durable'
      BY <1>2, <1>3, <1>4, <1>6
    <2>2. ASSUME NEW i \in DOMAIN sent'
          PROVE  /\ sent'[i].session <= run' /\ sent'[i].access \in 1 .. Durable'
                 /\ Usage'[sent'[i].access]
                       = Reservation(sent'[i].session, sent'[i].attempt, sent'[i].access)
      <3>1. CASE i = n + 1
        BY <1>1, <1>2, <1>3, <1>4, <1>5, <1>6, <3>1
      <3>2. CASE i \in 1 .. n
        BY <1>1, <1>4, <1>6, <3>2 DEF LedgerInv, Backed
      <3> QED BY <1>3, <1>6, <3>1, <3>2
    <2>3. ASSUME NEW i \in DOMAIN sent', NEW j \in DOMAIN sent',
                 sent'[i].access = sent'[j].access
          PROVE  i = j
      <3>1. \A k \in 1 .. n : sent'[k].access < total /\ sent'[k].access \in Nat
        BY <1>2, <1>6 DEF LedgerInv, Backed
      <3>2. CASE i = n + 1 \/ j = n + 1
        <4>1. sent'[n + 1].access = total
          BY <1>5, <1>6
        <4> QED BY <1>2, <1>3, <1>6, <2>3, <3>1, <3>2, <4>1
      <3>3. CASE i \in 1 .. n /\ j \in 1 .. n
        BY <1>6, <2>3, <3>3 DEF LedgerInv, Backed
      <3> QED BY <1>3, <1>6, <3>2, <3>3
    <2> QED BY <1>1, <1>6, <2>1, <2>2, <2>3 DEF Backed
  <1>11. Rationed'
    <2>1. \A s : IsFiniteSet(SentBy(s)) /\ Cardinality(SentBy(s)) \in Nat
      BY SentFinite
    <2>2. SentBy(run)' = SentBy(run) \cup {n + 1} /\ n + 1 \notin SentBy(run)
      BY <1>1, <1>3, <1>5, <1>6 DEF SentBy
    <2>3. Cardinality(SentBy(run)') = Cardinality(SentBy(run)) + 1
      BY <2>1, <2>2, FS_AddElement
    <2>4. \A s \in Nat : s # run => SentBy(s)' = SentBy(s)
      BY <1>1, <1>3, <1>5, <1>6 DEF SentBy
    <2>5. Cardinality(SentBy(run)) < mine /\ mine <= SessionLimit /\ SessionLimit \in Nat
      BY <1>1, TrialLedgerAssumption DEF LedgerInv, Rationed, Counted
    <2>6. Cardinality(SentBy(run)') <= mine /\ Cardinality(SentBy(run)') <= SessionLimit
      BY <1>2, <2>1, <2>3, <2>5
    <2>7. run' = run /\ mine' = mine /\ SentBy(run') = SentBy(run)
      BY <1>1
    <2>8. \A s \in Nat : Cardinality(SentBy(s)') <= SessionLimit
      <3> SUFFICES ASSUME NEW s \in Nat PROVE Cardinality(SentBy(s)') <= SessionLimit
        OBVIOUS
      <3>1. CASE s = run
        BY <1>1, <2>6, <3>1 DEF SentBy
      <3>2. CASE s # run
        <4>1. SentBy(s)' = SentBy(s)
          BY <2>4, <3>2
        <4>2. Cardinality(SentBy(s)) <= SessionLimit
          BY DEF LedgerInv, Rationed
        <4> QED BY <4>1, <4>2
      <3> QED BY <3>1, <3>2
    <2>9. Cardinality(SentBy(run))' = Cardinality(SentBy(run)')
      OBVIOUS
    <2> QED BY <1>1, <2>6, <2>8 DEF Rationed, SentBy
  <1> QED BY <1>7, <1>8, <1>9, <1>10, <1>11 DEF LedgerInv

-----------------------------------------------------------------------------
(* Starting, failing and stopping.                                         *)

LEMMA BeginKeeps ==
    ASSUME LedgerInv, Begin
    PROVE  LedgerInv'
  <1>1. /\ pc = "down" /\ pc' = "recovering" /\ run' = run + 1 /\ total' = Len(Usage)
        /\ UNCHANGED <<files, io, mine, sent>>
    BY DEF Begin, disk
  <1>2. io = NoRow /\ io.file # "usage"
    BY <1>1 DEF LedgerInv, Appending, NoRow, None
  <1>3. /\ Usage' = Usage /\ Durable' = Durable /\ Durable \in Nat /\ Len(Usage) \in Nat
        /\ run \in Nat /\ mine \in 0 .. SessionLimit
    BY <1>1 DEF LedgerInv, Filed, UsageIs, Counted, Usage, Durable
  <1>4. Filed'
    BY <1>1 DEF LedgerInv, Filed, Durable, Usage
  <1>5. Appending' /\ Counted'
    BY <1>1, <1>2, <1>3 DEF Appending, Counted
  <1>6. Backed'
    BY <1>1, <1>3, BackedKept DEF LedgerInv
  <1>7. Rationed'
    <2>1. \A s : SentBy(s)' = SentBy(s)
      BY <1>1 DEF SentBy
    <2>2. SentBy(run + 1) = {}
      BY <1>3 DEF LedgerInv, Backed, SentBy
    <2>3. Cardinality(SentBy(run + 1)) <= mine
      BY <1>3, <2>2, FS_EmptySet
    <2>4. Cardinality(SentBy(run))' <= mine'
      BY <1>1, <2>3 DEF SentBy
    <2> QED BY <1>1, <2>1, <2>4 DEF LedgerInv, Rationed
  <1> QED BY <1>4, <1>5, <1>6, <1>7 DEF LedgerInv

(* The process is gone; of the ledger every durable row is left. *)
LEMMA Stops ==
    ASSUME LedgerInv, pc' = "down", io' = NoRow, mine' = 0, total' = 0,
           UNCHANGED <<run, sent>>, Filed', Durable <= Durable',
           \A i \in 1 .. Durable : Usage'[i] = Usage[i]
    PROVE  LedgerInv'
  <1>1. Durable \in Nat /\ Durable' \in Nat /\ run \in Nat
    BY DEF LedgerInv, Filed, UsageIs, Counted, Durable
  <1>2. Appending'
    BY DEF Appending, NoRow, None
  <1>3. Counted'
    BY <1>1, TrialLedgerAssumption DEF Counted
  <1>4. Backed'
    BY <1>1, BackedKept DEF LedgerInv
  <1>5. Rationed'
    BY RationedKept DEF LedgerInv
  <1> QED BY <1>2, <1>3, <1>4, <1>5 DEF LedgerInv

LEMMA CrashKeeps ==
    ASSUME LedgerInv, Crash
    PROVE  LedgerInv'
  <1>1. /\ pc' = "down" /\ io' = NoRow /\ mine' = 0 /\ total' = 0
        /\ UNCHANGED <<files, run, sent>>
    BY DEF Crash, Forgotten, disk, history
  <1>2. Filed' /\ Durable' = Durable /\ Usage' = Usage /\ Durable \in Nat
    BY <1>1 DEF LedgerInv, Filed, UsageIs, Durable, Usage
  <1> QED BY <1>1, <1>2, Stops

LEMMA PowerFailsKeeps ==
    ASSUME LedgerInv, PowerFails
    PROVE  LedgerInv'
  <1>1. /\ pc' = "down" /\ io' = NoRow /\ mine' = 0 /\ total' = 0
        /\ UNCHANGED <<run, sent>>
    BY DEF PowerFails, Forgotten
  <1>2. PICK u \in Survives(files["usage"]) :
           \E o, b : files' = [usage |-> u, outcomes |-> o, observations |-> b]
    BY DEF PowerFails
  <1>3. files' = [f \in Files |-> files'[f]] /\ files'["usage"] = u
    BY <1>2 DEF Files
  <1>4. /\ UsageIs(u) /\ Durable <= u.synced /\ u.synced = Len(u.rows)
        /\ Len(u.rows) <= Len(Usage) /\ Len(Usage) <= AccessLimit
        /\ \A i \in 1 .. Durable : u.rows[i] = Usage[i]
    BY SurvivorKeeps DEF LedgerInv, Filed, Durable, Usage
  <1>5. Usage' = u.rows /\ Durable' = u.synced
    BY <1>3 DEF Usage, Durable
  <1>6. Len(u.rows) \in Nat /\ Len(Usage) \in Nat /\ AccessLimit \in Nat
    BY <1>4, TrialLedgerAssumption DEF LedgerInv, Filed, UsageIs, Usage
  <1>7. Filed'
    BY <1>3, <1>4, <1>5, <1>6 DEF Filed
  <1> QED BY <1>1, <1>4, <1>5, <1>7, Stops

LEMMA RowFailsKeeps ==
    ASSUME LedgerInv, RowFails
    PROVE  LedgerInv'
  <1>1. /\ io # NoRow /\ io' = NoRow /\ UNCHANGED <<run, sent>>
        /\ \E rows \in PartlyWritten(files[io.file].rows) :
              files' = [files EXCEPT ![io.file] = [files[io.file] EXCEPT !.rows = rows]]
        /\ \/ pc' = "down" /\ mine' = 0 /\ total' = 0
           \/ pc' = "erred" /\ UNCHANGED <<mine, total>>
    BY DEF RowFails, Forgotten, memory
  <1>2. io'.file # "usage" /\ Appending'
    BY <1>1 DEF Appending, NoRow, None
  <1>3. CASE io.file # "usage"
    <2>1. Filed' /\ files'["usage"] = files["usage"] /\ pc # "down"
      BY <1>1, <1>3, OtherFile DEF LedgerInv, Appending
    <2> QED BY <1>1, <1>2, <1>3, <2>1, LedgerKept
  <1>4. CASE io.file = "usage"
    <2>1. PICK rows \in PartlyWritten(Usage) :
              files' = [files EXCEPT !["usage"] = [files["usage"] EXCEPT !.rows = rows]]
      BY <1>1, <1>4 DEF Usage
    <2>2. PICK S : files["usage"] \in [rows : Seq(S), synced : Nat]
      BY DEF LedgerInv, Filed, UsageIs
    <2>3. /\ Usage \in Seq(S) /\ Durable \in Nat /\ total \in Nat /\ run \in Nat
          /\ Len(Usage) = total + 1 /\ Durable <= total /\ Len(Usage) <= AccessLimit
          /\ AccessLimit \in Nat /\ pc # "down"
      BY <1>1, <1>4, <2>2, TrialLedgerAssumption
         DEF LedgerInv, Filed, Counted, Appending, Usage, Durable
    <2>4. Usage # << >>
      BY <2>3
    <2>5. /\ \E T : rows \in Seq(T)
          /\ Len(rows) \in {total + 1, total} /\ \A i \in 1 .. total : rows[i] = Usage[i]
      BY <2>3, <2>4, PartKeeps
    <2>6. PICK T : rows \in Seq(T)
      BY <2>5
    <2>7. files' = [f \in Files |-> files'[f]]
          /\ files'["usage"] = [rows |-> rows, synced |-> Durable]
      BY <2>1, <2>2 DEF LedgerInv, Filed, Files, Durable
    <2>8. Usage' = rows /\ Durable' = Durable
      BY <2>7 DEF Usage, Durable
    <2>9. Filed'
      <3>1. files'["usage"] \in [rows : Seq(T), synced : Nat]
        BY <2>3, <2>6, <2>7
      <3>2. Durable' <= Len(Usage') /\ Len(Usage') <= AccessLimit
        BY <2>3, <2>5, <2>6, <2>8
      <3> QED BY <2>7, <3>1, <3>2 DEF Filed, UsageIs
    <2>10. Backed'
      <3>1. \A i \in 1 .. Durable : Usage'[i] = Usage[i]
        BY <2>3, <2>5, <2>8
      <3> QED BY <1>1, <2>3, <2>8, <3>1, BackedKept DEF LedgerInv
    <2>11. Rationed'
      BY <1>1, <2>3, RationedKept DEF LedgerInv
    <2>12. Counted'
      BY <1>1, <2>3, TrialLedgerAssumption DEF LedgerInv, Counted
    <2> QED BY <1>2, <2>9, <2>10, <2>11, <2>12 DEF LedgerInv
  <1> QED BY <1>3, <1>4

-----------------------------------------------------------------------------
(* The theorem.                                                            *)

LEMMA LedgerInit ==
    ASSUME Init
    PROVE  LedgerInv
  <1>1. /\ files = [f \in Files |-> [rows |-> << >>, synced |-> 0]] /\ "usage" \in Files
        /\ pc = "down" /\ io.file # "usage" /\ io = NoRow /\ run = 0 /\ mine = 0
        /\ total = 0 /\ sent = << >>
    BY DEF Init, Files, NoRow, None
  <1>2. Usage = << >> /\ Durable = 0 /\ files["usage"] \in [rows : Seq({}), synced : Nat]
    BY <1>1 DEF Usage, Durable
  <1>3. Filed
    BY <1>1, <1>2, TrialLedgerAssumption DEF Filed, UsageIs
  <1>4. Appending /\ Counted
    BY <1>1, TrialLedgerAssumption DEF Appending, Counted
  <1>5. Backed
    BY <1>1, <1>2 DEF Backed, Requests
  <1>6. Rationed
    <2>1. \A s : SentBy(s) = {}
      BY <1>1 DEF SentBy
    <2>2. \A s : Cardinality(SentBy(s)) = 0
      BY <2>1, FS_EmptySet
    <2>3. 0 <= SessionLimit
      BY TrialLedgerAssumption
    <2>4. pc # "reserved"
      BY <1>1
    <2> QED BY <1>1, <2>2, <2>3, <2>4 DEF Rationed
  <1> QED BY <1>3, <1>4, <1>5, <1>6 DEF LedgerInv

LEMMA LedgerStep ==
    ASSUME LedgerInv, [Next]_vars
    PROVE  LedgerInv'
  <1>1. CASE UNCHANGED vars
    <2>1. UNCHANGED <<files, io, pc, run, mine, total, sent>>
      BY <1>1 DEF vars
    <2>2. Filed' /\ Appending' /\ Counted'
      BY <2>1 DEF LedgerInv, Filed, Appending, Counted, Durable, Usage
    <2>3. Backed' /\ Rationed'
      BY <2>1 DEF LedgerInv, Backed, Rationed, Durable, Usage, SentBy
    <2> QED BY <2>2, <2>3 DEF LedgerInv
  <1>2. CASE Next
    BY <1>2, BeginKeeps, RecoverKeeps, SyncKeeps, RowFailsKeeps, ReserveKeeps, SendKeeps,
       CommandAppends, CommandSteps, CrashKeeps, PowerFailsKeeps DEF Next
  <1> QED BY <1>1, <1>2

(* What every process together has sent is in the ledger, row by row, and  *)
(* no process counts less than it has sent.                                *)
THEOREM LedgerInvariant == Spec => []LedgerInv
  BY LedgerInit, LedgerStep, PTL DEF Spec

(* No crash, power failure or failing call refunds an attempt of the quota *)
(* (TrialUsageLedger.reserve, _load).                                      *)
THEOREM QuotaKept == Spec => []QuotaIsNotRefunded
  <1>1. LedgerInv => QuotaIsNotRefunded
    <2> SUFFICES ASSUME LedgerInv PROVE QuotaIsNotRefunded
      OBVIOUS
    <2>1. ASSUME NEW r \in Range(sent)
          PROVE  /\ r.access \in 1 .. files["usage"].synced
                 /\ Usage[r.access] = Reservation(r.session, r.attempt, r.access)
      <3>1. PICK i \in DOMAIN sent : r = sent[i]
        BY DEF Range
      <3> QED BY <3>1 DEF LedgerInv, Backed, Durable
    <2>2. Len(sent) <= AccessLimit
      <3>1. Len(sent) <= Durable /\ Durable <= Len(Usage) /\ Len(Usage) <= AccessLimit
        BY DEF LedgerInv, Backed, Filed
      <3>2. Len(sent) \in Nat /\ Durable \in Nat /\ Len(Usage) \in Nat /\ AccessLimit \in Nat
        BY TrialLedgerAssumption DEF LedgerInv, Backed, Filed, UsageIs, Usage, Durable
      <3> QED BY <3>1, <3>2
    <2>3. \A s \in 1 .. MaxRuns :
             Cardinality({i \in DOMAIN sent : sent[i].session = s}) <= SessionLimit
      BY TrialLedgerAssumption DEF LedgerInv, Rationed, SentBy
    <2>4. \A i, j \in DOMAIN sent : sent[i].access = sent[j].access => i = j
      BY DEF LedgerInv, Backed
    <2> QED BY <2>1, <2>2, <2>3, <2>4 DEF QuotaIsNotRefunded
  <1> QED BY <1>1, LedgerInvariant, PTL

-----------------------------------------------------------------------------
(* What an interrupted command leaves, and what the next one completes.    *)

(* Every file is a sequence of rows, of which no more are durable than     *)
(* there are.                                                              *)
Sound(u) == UsageIs(u) /\ u.synced <= Len(u.rows)

Stored ==
    /\ files = [f \in Files |-> files[f]] /\ \A f \in Files : Sound(files[f])
    /\ raw = [a \in Attempts |-> raw[a]] /\ faults \in Nat

LEMMA FileWith ==
    ASSUME NEW rows, NEW synced, NEW x, NEW v,
           v = [[rows |-> rows, synced |-> synced] EXCEPT !.rows = x]
    PROVE  v = [rows |-> x, synced |-> synced]
  <1>1. v.rows = x /\ v.synced = synced
    OBVIOUS
  <1>2. v = [rows |-> v.rows, synced |-> v.synced]
    OBVIOUS
  <1> QED BY <1>1, <1>2

LEMMA RowsOf ==
    ASSUME Stored, NEW f \in Files
    PROVE  /\ \E S : files[f].rows \in Seq(S)
           /\ files[f].synced \in Nat /\ files[f].synced <= Len(files[f].rows)
           /\ files[f] = [rows |-> files[f].rows, synced |-> files[f].synced]
           /\ Len(files[f].rows) \in Nat /\ DOMAIN files[f].rows = 1 .. Len(files[f].rows)
  <1>1. PICK S : files[f] \in [rows : Seq(S), synced : Nat]
    BY DEF Stored, Sound, UsageIs
  <1>2. files[f].synced <= Len(files[f].rows)
    BY DEF Stored, Sound
  <1> QED BY <1>1, <1>2

LEMMA FileReplaced ==
    ASSUME Stored, NEW f \in Files, NEW u, Sound(u), files' = [files EXCEPT ![f] = u]
    PROVE  /\ files' = [g \in Files |-> files'[g]] /\ \A g \in Files : Sound(files'[g])
           /\ files'[f] = u /\ \A g \in Files \ {f} : files'[g] = files[g]
  <1>1. files'[f] = u /\ \A g \in Files \ {f} : files'[g] = files[g]
    BY DEF Stored
  <1>2. files' = [g \in Files |-> files'[g]]
    BY DEF Stored
  <1> QED BY <1>1, <1>2 DEF Stored

(* A row that is appended. *)
LEMMA RowAppended ==
    ASSUME Stored, NEW f \in Files, NEW row,
           files' = [files EXCEPT ![f].rows = Append(@, row)]
    PROVE  /\ files' = [g \in Files |-> files'[g]] /\ \A g \in Files : Sound(files'[g])
           /\ \A g \in Files \ {f} : files'[g] = files[g]
           /\ files'[f].rows = Append(files[f].rows, row)
           /\ Len(files'[f].rows) = Len(files[f].rows) + 1
           /\ DOMAIN files'[f].rows = 1 .. Len(files[f].rows) + 1
           /\ \A i \in 1 .. Len(files[f].rows) : files'[f].rows[i] = files[f].rows[i]
           /\ files'[f].rows[Len(files[f].rows) + 1] = row
  <1> DEFINE u == [files[f] EXCEPT !.rows = Append(files[f].rows, row)]
             rows == files[f].rows
  <1>1. PICK S : rows \in Seq(S)
    BY RowsOf
  <1>2. /\ files[f] = [rows |-> rows, synced |-> files[f].synced]
        /\ files[f].synced \in Nat /\ files[f].synced <= Len(rows)
    BY RowsOf
  <1>3. files' = [files EXCEPT ![f] = u]
    OBVIOUS
  <1>4. u = [rows |-> Append(rows, row), synced |-> files[f].synced]
    <2>1. u = [[rows |-> rows, synced |-> files[f].synced] EXCEPT !.rows = Append(rows, row)]
      BY <1>2
    <2> HIDE DEF u, rows
    <2> QED BY <2>1, FileWith
  <1> HIDE DEF u, rows
  <1>5. /\ Append(rows, row) \in Seq(S \cup {row}) /\ Len(Append(rows, row)) = Len(rows) + 1
        /\ \A i \in 1 .. Len(rows) : Append(rows, row)[i] = rows[i]
        /\ Append(rows, row)[Len(rows) + 1] = row
        /\ DOMAIN Append(rows, row) = 1 .. Len(rows) + 1 /\ Len(rows) \in Nat
    <2>1. rows \in Seq(S \cup {row})
      BY <1>1
    <2> QED BY <1>1, <2>1
  <1>6. u.rows = Append(rows, row) /\ u.synced = files[f].synced
    BY <1>4
  <1>7. Sound(u)
    <2>1. u \in [rows : Seq(S \cup {row}), synced : Nat]
      BY <1>2, <1>4, <1>5
    <2>2. u.synced <= Len(u.rows)
      BY <1>2, <1>5, <1>6
    <2> QED BY <2>1, <2>2 DEF Sound, UsageIs
  <1>8. /\ files' = [g \in Files |-> files'[g]] /\ \A g \in Files : Sound(files'[g])
        /\ files'[f] = u /\ \A g \in Files \ {f} : files'[g] = files[g]
    BY <1>3, <1>7, FileReplaced
  <1> QED BY <1>5, <1>6, <1>8 DEF rows

(* A row of which a part is left, or nothing. *)
LEMMA RowBroken ==
    ASSUME Stored, NEW f \in Files, files[f].rows # << >>,
           files[f].synced < Len(files[f].rows),
           NEW part \in PartlyWritten(files[f].rows),
           files' = [files EXCEPT ![f].rows = part]
    PROVE  /\ files' = [g \in Files |-> files'[g]] /\ \A g \in Files : Sound(files'[g])
           /\ \A g \in Files \ {f} : files'[g] = files[g]
           /\ Len(files'[f].rows) \in {Len(files[f].rows), Len(files[f].rows) - 1}
           /\ DOMAIN files'[f].rows = 1 .. Len(files'[f].rows)
           /\ \A i \in 1 .. Len(files[f].rows) - 1 : files'[f].rows[i] = files[f].rows[i]
           /\ Len(files[f].rows) \in DOMAIN files'[f].rows =>
                 \E e : files'[f].rows[Len(files[f].rows)]
                           \in {files[f].rows[Len(files[f].rows)],
                                [files[f].rows[Len(files[f].rows)] EXCEPT !.end = e]}
  <1> DEFINE u == [files[f] EXCEPT !.rows = part]
             rows == files[f].rows
  <1>1. PICK S : rows \in Seq(S)
    BY RowsOf
  <1>2. /\ files[f] = [rows |-> rows, synced |-> files[f].synced]
        /\ files[f].synced \in Nat
    BY RowsOf
  <1>3. files' = [files EXCEPT ![f] = u]
    OBVIOUS
  <1>4. u = [rows |-> part, synced |-> files[f].synced]
    <2>1. u = [[rows |-> rows, synced |-> files[f].synced] EXCEPT !.rows = part]
      BY <1>2
    <2> QED BY <2>1, FileWith
  <1>5. rows # << >> /\ part \in PartlyWritten(rows) /\ files[f].synced < Len(rows)
    OBVIOUS
  <1> HIDE DEF u, rows
  <1>6. /\ \E T : part \in Seq(T)
        /\ Len(part) \in {Len(rows), Len(rows) - 1}
        /\ \A i \in 1 .. Len(rows) - 1 : part[i] = rows[i]
    BY <1>1, <1>5, PartKeeps
  <1>7. PICK T : part \in Seq(T)
    BY <1>6
  <1>8. u.rows = part /\ u.synced = files[f].synced
    BY <1>4
  <1>9. Sound(u)
    <2>1. u \in [rows : Seq(T), synced : Nat]
      BY <1>2, <1>4, <1>7
    <2>2. Len(rows) \in Nat
      BY <1>1
    <2>3. u.synced <= Len(u.rows)
      BY <1>2, <1>5, <1>6, <1>8, <2>2
    <2> QED BY <2>1, <2>3 DEF Sound, UsageIs
  <1>10. /\ files' = [g \in Files |-> files'[g]] /\ \A g \in Files : Sound(files'[g])
         /\ files'[f] = u /\ \A g \in Files \ {f} : files'[g] = files[g]
    BY <1>3, <1>9, FileReplaced
  <1>11. DOMAIN part = 1 .. Len(part) /\ Len(part) \in Nat /\ Len(rows) \in Nat \ {0}
    BY <1>1, <1>5, <1>7
  <1>12. ASSUME Len(rows) \in DOMAIN part
         PROVE  \E e : part[Len(rows)] \in {rows[Len(rows)], [rows[Len(rows)] EXCEPT !.end = e]}
    <2>1. Len(part) = Len(rows)
      BY <1>6, <1>11, <1>12
    <2>2. Len(Front(rows)) = Len(rows) - 1 /\ Front(rows) \in Seq(S)
      <3> DEFINE n == Len(rows) - 1
      <3>1. n \in Nat /\ Len(rows) = n + 1
        BY <1>11
      <3> HIDE DEF n
      <3>2. Front(rows) = SubSeq(rows, 1, n)
        BY <3>1 DEF Front
      <3> QED BY <1>1, <3>1, <3>2
    <2>3. CASE part = rows
      BY <2>3
    <2>4. CASE part = Front(rows)
      BY <1>11, <2>1, <2>2, <2>4
    <2>5. CASE \E e : part = Append(Front(rows), [Last(rows) EXCEPT !.end = e])
      <3>1. PICK e : part = Append(Front(rows), [Last(rows) EXCEPT !.end = e])
        BY <2>5
      <3>2. part[Len(rows)] = [Last(rows) EXCEPT !.end = e]
        <4>1. ASSUME NEW x, part = Append(Front(rows), x) PROVE part[Len(rows)] = x
          BY <1>11, <2>2, <4>1
        <4> QED BY <3>1, <4>1
      <3>3. Last(rows) = rows[Len(rows)]
        BY DEF Last
      <3> QED BY <3>2, <3>3
    <2> QED BY <1>5, <2>3, <2>4, <2>5 DEF PartlyWritten
  <1> QED BY <1>6, <1>8, <1>10, <1>11, <1>12 DEF rows

-----------------------------------------------------------------------------
Open == {"reserved", "sent", "writing", "syncing", "persisted", "failed"}

(* The attempt under way has its reservation, and what was captured its    *)
(* outcome.                                                                *)
Reserved ==
    /\ pc \in Open \cup {"captured"} => total \in DOMAIN Usage /\ Usage[total].session = run
    /\ pc = "captured" => \E o \in Captured : o.access = total

(* The row on its way: an outcome or a disposition of this attempt, or the *)
(* end of this session; in a recovery anything but a reservation.          *)
Writing ==
    /\ io # NoRow =>
          /\ io.file \in Files /\ (pc = "recovering" <=> io.next = "recovering")
          /\ files[io.file].synced < Len(files[io.file].rows)
    /\ io.file = "outcomes" /\ pc # "recovering" =>
          /\ <<pc, io.next>> \in {<<"persisted", "captured">>, <<"failed", "erred">>}
          /\ \E outcome, held :
                /\ Outcomes[Len(Outcomes)]
                      = [session |-> run, access |-> total, outcome |-> outcome,
                         raw |-> held, end |-> "whole"]
                /\ io.next = "captured" => outcome = "captured"
    /\ io.file = "observations" /\ pc # "recovering" =>
          \/ io.next = "down"
          \/ /\ pc = "captured" /\ io.next \in {"shown", "erred"}
             /\ \E kind, o, cmd, reason :
                   /\ kind # "terminal" /\ o.access = total
                   /\ Observations[Len(Observations)] = Disposition(kind, o, cmd, reason)

(* What was left of an earlier attempt, after the recovery.                *)
Finished(a) ==
    /\ \E i \in DOMAIN Outcomes : Outcomes[i].access = a
    /\ \A i \in DOMAIN Outcomes :
          Outcomes[i].access = a /\ Outcomes[i].outcome = "captured" =>
             \E j \in DOMAIN Observations :
                Observations[j].kind # "terminal" /\ Observations[j].access = a
    /\ \E i \in DOMAIN Observations :
          Observations[i].kind = "terminal" /\ Observations[i].session = Usage[a].session

Completed ==
    pc \notin {"down", "recovering"} =>
       \A a \in DOMAIN Usage : Usage[a].session # run => Finished(a)

Kept == Stored /\ Reserved /\ Writing /\ Completed

-----------------------------------------------------------------------------
(* The actions by what they do to the files.                               *)

Appends ==
    \/ Recover \/ Reserve \/ RecordCaptured \/ RecordFailed \/ ParserFailure
    \/ Observe \/ Stop \/ Halt \/ Complete \/ DurationElapsed

Moves ==
    \/ Begin \/ Recovered \/ Send \/ RequestFails \/ CreateRaw \/ WriteRaw
    \/ SyncRaw \/ RawFails \/ Poll

LEMMA NextIs == Next <=> Appends \/ Moves \/ SyncRow \/ RowFails \/ Crash \/ PowerFails
  BY DEF Next, Appends, Moves

LEMMA AppendIs ==
    ASSUME Appends
    PROVE  /\ \E f \in Files : \E row, next : AppendRow(f, row, next)
           /\ UNCHANGED <<raw, raw_synced, pc, run, sent, faults, command, mine, total>>
  BY DEF Appends, Files, Recover, Reserve, RecordCaptured, RecordFailed, ParserFailure, Observe,
         Stop, Halt, Complete, DurationElapsed, End, AppendRow, memory, history

LEMMA MoveIs ==
    ASSUME LedgerInv, Moves
    PROVE  /\ io = NoRow /\ io.file = None /\ UNCHANGED <<files, io>>
           /\ raw' = [a \in Attempts |-> raw'[a]] \/ UNCHANGED raw \/ \E x : raw' = [raw EXCEPT ![total] = x]
           /\ faults' = faults \/ faults' = faults + 1
  <1>1. io = NoRow
    BY DEF Moves, LedgerInv, Appending, Begin, Recovered, Send, RequestFails, CreateRaw, WriteRaw,
           SyncRaw, RawFails, Poll, Goto
  <1>2. io.file = None
    BY <1>1 DEF NoRow
  <1> QED
    BY <1>1, <1>2 DEF Moves, Begin, Recovered, Send, RequestFails, CreateRaw, WriteRaw,
           SyncRaw, RawFails, Poll, Goto, Fault, disk, memory, history

LEMMA SyncIs ==
    ASSUME Stored, Writing, SyncRow
    PROVE  /\ io.file \in Files /\ io' = NoRow /\ pc' = io.next /\ io'.file = None
           /\ files' = [g \in Files |-> files'[g]] /\ \A g \in Files : Sound(files'[g])
           /\ \A g \in Files : files'[g].rows = files[g].rows
           /\ UNCHANGED <<raw, run, sent, faults>>
  <1>1. /\ io # NoRow /\ io' = NoRow /\ pc' = io.next /\ UNCHANGED <<raw, run, sent, faults>>
        /\ files' = [files EXCEPT ![io.file].synced = Len(files[io.file].rows)]
    BY DEF SyncRow, history
  <1>2. io.file \in Files
    BY <1>1 DEF Writing
  <1> DEFINE f == io.file
             u == [files[f] EXCEPT !.synced = Len(files[f].rows)]
  <1>3. /\ files[f] = [rows |-> files[f].rows, synced |-> files[f].synced]
        /\ Len(files[f].rows) \in Nat
    BY <1>2, RowsOf
  <1>4. PICK S : files[f].rows \in Seq(S)
    BY <1>2, RowsOf
  <1>5. u.rows = files[f].rows /\ u.synced = Len(files[f].rows) /\ u = [rows |-> u.rows, synced |-> u.synced]
    <2>1. ASSUME NEW rows, NEW synced, NEW x, NEW v,
                 v = [[rows |-> rows, synced |-> synced] EXCEPT !.synced = x]
          PROVE  v.rows = rows /\ v.synced = x /\ v = [rows |-> v.rows, synced |-> v.synced]
      BY <2>1
    <2>2. u = [[rows |-> files[f].rows, synced |-> files[f].synced] EXCEPT !.synced = Len(files[f].rows)]
      BY <1>3
    <2> HIDE DEF u, f
    <2> QED BY <2>1, <2>2
  <1>6. files' = [files EXCEPT ![f] = u]
    BY <1>1
  <1> HIDE DEF u
  <1>7. Sound(u)
    <2>1. u \in [rows : Seq(S), synced : Nat]
      BY <1>3, <1>4, <1>5
    <2> QED BY <1>3, <1>5, <2>1 DEF Sound, UsageIs
  <1>8. /\ files' = [g \in Files |-> files'[g]] /\ \A g \in Files : Sound(files'[g])
        /\ files'[f] = u /\ \A g \in Files \ {f} : files'[g] = files[g]
    BY <1>2, <1>6, <1>7, FileReplaced
  <1>9. io'.file = None
    BY <1>1 DEF NoRow
  <1> QED BY <1>1, <1>2, <1>5, <1>8, <1>9

LEMMA StoredStep ==
    ASSUME Kept, LedgerInv, Next
    PROVE  Stored'
  <1>1. CASE Appends
    <2>1. PICK f \in Files : \E row, next : AppendRow(f, row, next)
      BY <1>1, AppendIs
    <2>2. PICK row : files' = [files EXCEPT ![f].rows = Append(@, row)]
      BY <2>1 DEF AppendRow
    <2>3. UNCHANGED <<raw, faults>>
      BY <1>1, AppendIs
    <2>4. files' = [g \in Files |-> files'[g]] /\ \A g \in Files : Sound(files'[g])
      BY <2>2, RowAppended DEF Kept
    <2> QED BY <2>3, <2>4 DEF Stored, Kept
  <1>2. CASE Moves
    <2>1. /\ UNCHANGED files /\ (faults' = faults \/ faults' = faults + 1)
          /\ raw' = [a \in Attempts |-> raw'[a]] \/ UNCHANGED raw
             \/ \E x : raw' = [raw EXCEPT ![total] = x]
      BY <1>2, MoveIs
    <2>2. raw' = [a \in Attempts |-> raw'[a]]
      BY <2>1 DEF Kept, Stored
    <2> QED BY <2>1, <2>2 DEF Kept, Stored
  <1>3. CASE SyncRow
    BY <1>3, SyncIs DEF Kept, Stored
  <1>4. CASE RowFails
    <2>1. /\ io # NoRow /\ UNCHANGED raw /\ faults' = faults + 1
          /\ \E part \in PartlyWritten(files[io.file].rows) :
                 files' = [files EXCEPT ![io.file].rows = part]
      BY <1>4 DEF RowFails, Fault
    <2>2. io.file \in Files /\ files[io.file].synced < Len(files[io.file].rows)
      BY <2>1 DEF Kept, Writing
    <2>3. files[io.file].rows # << >>
      <3>1. files[io.file].synced \in Nat
        BY <2>2, RowsOf DEF Kept
      <3>2. Len(files[io.file].rows) # 0
        BY <2>2, <3>1
      <3>3. \A rows : rows = << >> => Len(rows) = 0
        OBVIOUS
      <3> QED BY <3>2, <3>3
    <2>4. files' = [g \in Files |-> files'[g]] /\ \A g \in Files : Sound(files'[g])
      BY <2>1, <2>2, <2>3, RowBroken DEF Kept
    <2>5. raw' = [a \in Attempts |-> raw'[a]] /\ faults' \in Nat
      <3>1. raw = [a \in Attempts |-> raw[a]] /\ faults \in Nat
        BY DEF Kept, Stored
      <3> QED BY <2>1, <3>1
    <2> QED BY <2>4, <2>5 DEF Stored
  <1>5. CASE Crash
    BY <1>5 DEF Crash, disk, history, Kept, Stored
  <1>6. CASE PowerFails
    <2>1. faults' = faults + 1 /\ raw' = [a \in Attempts |-> raw'[a]]
      BY <1>6 DEF PowerFails, Fault
    <2>2. PICK u \in Survives(files["usage"]), o \in Survives(files["outcomes"]),
                b \in Survives(files["observations"]) :
             files' = [usage |-> u, outcomes |-> o, observations |-> b]
      BY <1>6 DEF PowerFails
    <2>3. /\ files' = [f \in Files |-> files'[f]] /\ files'["usage"] = u
          /\ files'["outcomes"] = o /\ files'["observations"] = b
      BY <2>2 DEF Files
    <2>4. \A f \in Files : \A v \in Survives(files[f]) : Sound(v)
      <3> SUFFICES ASSUME NEW f \in Files, NEW v \in Survives(files[f]) PROVE Sound(v)
        OBVIOUS
      <3>1. UsageIs(files[f]) /\ files[f].synced <= Len(files[f].rows)
        BY DEF Kept, Stored, Sound
      <3>2. UsageIs(v) /\ v.synced = Len(v.rows)
        BY <3>1, SurvivorKeeps
      <3>3. Len(v.rows) \in Nat
        BY <3>2 DEF UsageIs
      <3> QED BY <3>2, <3>3 DEF Sound
    <2> QED BY <2>1, <2>3, <2>4 DEF Stored, Kept, Files
  <1> QED BY <1>1, <1>2, <1>3, <1>4, <1>5, <1>6, NextIs

(* What an append leaves of every file. *)
LEMMA AppendSpread ==
    ASSUME Stored, NEW f \in Files, NEW row, NEW next, AppendRow(f, row, next)
    PROVE  /\ io = NoRow /\ io.file = None /\ io' = [file |-> f, next |-> next]
           /\ io'.file = f /\ io'.next = next /\ io' # NoRow
           /\ f # "usage" => Usage' = Usage
           /\ f # "outcomes" => Outcomes' = Outcomes
           /\ f # "observations" => Observations' = Observations
           /\ f = "usage" => Usage'[Len(Usage) + 1] = row /\ DOMAIN Usage' = 1 .. Len(Usage) + 1
                             /\ Len(Usage') = Len(Usage) + 1
           /\ f = "outcomes" => Outcomes'[Len(Outcomes) + 1] = row
                                /\ DOMAIN Outcomes' = 1 .. Len(Outcomes) + 1
                                /\ Len(Outcomes') = Len(Outcomes) + 1
           /\ f = "observations" => Observations'[Len(Observations) + 1] = row
                                    /\ DOMAIN Observations' = 1 .. Len(Observations) + 1
                                    /\ Len(Observations') = Len(Observations) + 1
           /\ \A i \in DOMAIN Usage : i \in DOMAIN Usage' /\ Usage'[i] = Usage[i]
           /\ \A i \in DOMAIN Outcomes : i \in DOMAIN Outcomes' /\ Outcomes'[i] = Outcomes[i]
           /\ \A i \in DOMAIN Observations :
                 i \in DOMAIN Observations' /\ Observations'[i] = Observations[i]
           /\ files'[f].synced = files[f].synced /\ Len(files'[f].rows) = Len(files[f].rows) + 1
  <1>1. /\ io = NoRow /\ io' = [file |-> f, next |-> next]
        /\ files' = [files EXCEPT ![f].rows = Append(@, row)]
    BY DEF AppendRow
  <1>2. /\ \A g \in Files \ {f} : files'[g] = files[g]
        /\ Len(files'[f].rows) = Len(files[f].rows) + 1
        /\ DOMAIN files'[f].rows = 1 .. Len(files[f].rows) + 1
        /\ \A i \in 1 .. Len(files[f].rows) : files'[f].rows[i] = files[f].rows[i]
        /\ files'[f].rows[Len(files[f].rows) + 1] = row
    BY <1>1, RowAppended
  <1>3. \A g \in Files : DOMAIN files[g].rows = 1 .. Len(files[g].rows) /\ Len(files[g].rows) \in Nat
    BY RowsOf
  <1>4. files'[f].synced = files[f].synced
    <2>1. files[f] = [rows |-> files[f].rows, synced |-> files[f].synced]
      BY RowsOf
    <2>2. files'[f] = [files[f] EXCEPT !.rows = Append(files[f].rows, row)]
      BY <1>1 DEF Stored
    <2> QED BY <2>1, <2>2
  <1>5. io.file = None /\ io'.file = f /\ io'.next = next /\ io' # NoRow
    <2>1. io.file = None /\ f # None
      BY <1>1 DEF NoRow, Files, None
    <2> QED BY <1>1, <2>1 DEF NoRow
  <1>6. \A g \in Files : \A i \in DOMAIN files[g].rows :
           i \in DOMAIN files'[g].rows /\ files'[g].rows[i] = files[g].rows[i]
    <2> SUFFICES ASSUME NEW g \in Files, NEW i \in DOMAIN files[g].rows
                 PROVE  i \in DOMAIN files'[g].rows /\ files'[g].rows[i] = files[g].rows[i]
      OBVIOUS
    <2>1. CASE g = f
      BY <1>2, <1>3, <2>1, SMTT(30)
    <2>2. CASE g # f
      BY <1>2, <2>2
    <2> QED BY <2>1, <2>2
  <1>7. "usage" \in Files /\ "outcomes" \in Files /\ "observations" \in Files
    BY DEF Files
  <1>8. /\ f # "usage" => Usage' = Usage
        /\ f # "outcomes" => Outcomes' = Outcomes
        /\ f # "observations" => Observations' = Observations
    BY <1>2, <1>7 DEF Usage, Outcomes, Observations
  <1>9. /\ f = "usage" => Usage'[Len(Usage) + 1] = row /\ DOMAIN Usage' = 1 .. Len(Usage) + 1
                          /\ Len(Usage') = Len(Usage) + 1
        /\ f = "outcomes" => Outcomes'[Len(Outcomes) + 1] = row
                             /\ DOMAIN Outcomes' = 1 .. Len(Outcomes) + 1
                             /\ Len(Outcomes') = Len(Outcomes) + 1
        /\ f = "observations" => Observations'[Len(Observations) + 1] = row
                                 /\ DOMAIN Observations' = 1 .. Len(Observations) + 1
                                 /\ Len(Observations') = Len(Observations) + 1
    BY <1>2 DEF Usage, Outcomes, Observations
  <1>10. /\ \A i \in DOMAIN Usage : i \in DOMAIN Usage' /\ Usage'[i] = Usage[i]
         /\ \A i \in DOMAIN Outcomes : i \in DOMAIN Outcomes' /\ Outcomes'[i] = Outcomes[i]
         /\ \A i \in DOMAIN Observations :
               i \in DOMAIN Observations' /\ Observations'[i] = Observations[i]
    BY <1>6, <1>7 DEF Usage, Outcomes, Observations
  <1> QED BY <1>1, <1>2, <1>4, <1>5, <1>8, <1>9, <1>10

(* Which row each action appends, and where it goes then. *)
LEMMA WritingAppend ==
    ASSUME Kept, LedgerInv, Appends
    PROVE  Writing'
  <1>1. PICK f \in Files : \E row, next : AppendRow(f, row, next)
    BY AppendIs
  <1>2. UNCHANGED <<raw, pc, run, command, mine, total>>
    BY AppendIs
  <1>3. /\ io = NoRow /\ io'.file = f /\ io' # NoRow
        /\ files'[f].synced = files[f].synced /\ Len(files'[f].rows) = Len(files[f].rows) + 1
    BY <1>1, AppendSpread DEF Kept
  <1>4. files'[f].synced < Len(files'[f].rows)
    <2>1. /\ files[f].synced \in Nat /\ files[f].synced <= Len(files[f].rows)
          /\ Len(files[f].rows) \in Nat
      BY RowsOf DEF Kept
    <2> QED BY <1>3, <2>1
  <1>5. (pc = "recovering" <=> io'.next = "recovering")
        /\ (f = "usage" => pc # "recovering")
    <2>1. CASE Recover
      <3>1. PICK row, g : AppendRow(g, row, "recovering")
        BY <2>1 DEF Recover
      <3>2. io'.next = "recovering"
        BY <3>1 DEF AppendRow
      <3>4. f # "usage"
        BY <2>1, <1>3 DEF Recover, AppendRow
      <3> QED BY <2>1, <3>2, <3>4 DEF Recover
    <2>2. CASE Reserve
      BY <2>2 DEF Reserve, AppendRow
    <2>3. CASE RecordCaptured \/ RecordFailed \/ ParserFailure \/ Observe
      BY <2>3, <1>3 DEF RecordCaptured, RecordFailed, ParserFailure, Observe, AppendRow
    <2>4. CASE Stop \/ Halt \/ Complete \/ DurationElapsed
      BY <2>4, <1>3 DEF Stop, Halt, Complete, DurationElapsed, End, AppendRow
    <2> QED BY <2>1, <2>2, <2>3, <2>4 DEF Appends
  <1>6. ASSUME f = "outcomes", pc # "recovering"
        PROVE  /\ <<pc, io'.next>> \in {<<"persisted", "captured">>, <<"failed", "erred">>}
               /\ \E outcome, held :
                     /\ Outcomes'[Len(Outcomes')]
                           = [session |-> run, access |-> total, outcome |-> outcome,
                              raw |-> held, end |-> "whole"]
                     /\ io'.next = "captured" => outcome = "captured"
    <2>1. CASE RecordCaptured
      <3>1. pc = "persisted" /\ AppendRow("outcomes", Outcome(run, total, "captured"), "captured")
        BY <2>1 DEF RecordCaptured
      <3>2. io'.next = "captured" /\ Outcomes'[Len(Outcomes')] = Outcome(run, total, "captured")
        BY <1>6, <3>1, AppendSpread DEF Kept
      <3> QED BY <3>1, <3>2 DEF Outcome
    <2>2. CASE RecordFailed
      <3> DEFINE how == IF raw[total] = None THEN "failed" ELSE "uncertain"
      <3>1. pc = "failed" /\ AppendRow("outcomes", Outcome(run, total, how), "erred")
        BY <2>2 DEF RecordFailed
      <3>2. io'.next = "erred" /\ Outcomes'[Len(Outcomes')] = Outcome(run, total, how)
        BY <1>6, <3>1, AppendSpread DEF Kept
      <3> QED BY <3>1, <3>2 DEF Outcome
    <2>3. ~Recover
      BY <1>6 DEF Recover
    <2>4. ~Reserve /\ ~ParserFailure /\ ~Observe /\ ~Stop /\ ~Halt /\ ~Complete /\ ~DurationElapsed
      BY <1>3, <1>6 DEF Reserve, ParserFailure, Observe, Stop, Halt, Complete, DurationElapsed, End,
         AppendRow
    <2> QED BY <2>1, <2>2, <2>3, <2>4 DEF Appends
  <1>7. ASSUME f = "observations", pc # "recovering"
        PROVE  \/ io'.next = "down"
               \/ /\ pc = "captured" /\ io'.next \in {"shown", "erred"}
                  /\ \E kind, o, cmd, reason :
                        /\ kind # "terminal" /\ o.access = total
                        /\ Observations'[Len(Observations')] = Disposition(kind, o, cmd, reason)
    <2>1. CASE Stop \/ Halt \/ Complete \/ DurationElapsed
      BY <2>1, <1>3 DEF Stop, Halt, Complete, DurationElapsed, End, AppendRow
    <2>2. CASE ParserFailure \/ Observe
      <3>1. pc = "captured" /\ ThisCapture.access = total
        <4>1. pc = "captured"
          BY <2>2 DEF ParserFailure, Observe
        <4>2. \E o \in Captured : o.access = total
          BY <4>1 DEF Kept, Reserved
        <4> QED BY <4>1, <4>2 DEF ThisCapture
      <3>2. CASE ParserFailure
        <4> DEFINE row == Disposition("parser_failure", ThisCapture, command, None)
        <4>1. AppendRow("observations", row, "erred")
          BY <3>2 DEF ParserFailure
        <4>2. io'.next = "erred" /\ Observations'[Len(Observations')] = row
          BY <1>7, <4>1, AppendSpread DEF Kept
        <4> QED BY <3>1, <4>2
      <3>3. CASE Observe
        <4> DEFINE row == Disposition("observation", ThisCapture, command, found')
        <4>1. AppendRow("observations", row, "shown")
          BY <3>3 DEF Observe
        <4>2. io'.next = "shown" /\ Observations'[Len(Observations')] = row
          BY <1>7, <4>1, AppendSpread DEF Kept
        <4> QED BY <3>1, <4>2
      <3> QED BY <2>2, <3>2, <3>3
    <2>3. ~Recover
      BY <1>7 DEF Recover
    <2>4. ~Reserve /\ ~RecordCaptured /\ ~RecordFailed
      BY <1>3, <1>7 DEF Reserve, RecordCaptured, RecordFailed, AppendRow
    <2> QED BY <2>1, <2>2, <2>3, <2>4 DEF Appends
  <1> QED BY <1>2, <1>3, <1>4, <1>5, <1>6, <1>7 DEF Writing

LEMMA WritingStep ==
    ASSUME Kept, LedgerInv, Next
    PROVE  Writing'
  <1>1. ASSUME io' = NoRow PROVE Writing'
    BY <1>1 DEF Writing, NoRow, None
  <1>2. Moves => io' = NoRow
    BY MoveIs
  <1>3. SyncRow \/ RowFails \/ Crash \/ PowerFails => io' = NoRow
    BY DEF SyncRow, RowFails, Crash, PowerFails
  <1> QED BY <1>1, <1>2, <1>3, WritingAppend, NextIs

-----------------------------------------------------------------------------
(* The attempt under way.                                                  *)

RowsStay ==
    Usage' = Usage /\ Outcomes' = Outcomes /\ Observations' = Observations

LEMMA SyncLeavesRows ==
    ASSUME Kept, SyncRow
    PROVE  RowsStay /\ io # NoRow /\ io.file \in Files /\ pc' = io.next /\ UNCHANGED <<raw, run, sent, faults>>
           /\ io'.file = None /\ io' = NoRow
  BY SyncIs DEF Kept, RowsStay, Usage, Outcomes, Observations, Files, SyncRow

LEMMA MovesLeaveRows ==
    ASSUME LedgerInv, Moves
    PROVE  RowsStay
  BY MoveIs DEF RowsStay, Usage, Outcomes, Observations

LEMMA ReservedStep ==
    ASSUME Kept, LedgerInv, Next
    PROVE  Reserved'
  <1> USE DEF Open
  <1>1. CASE Appends
    <2>1. PICK f \in Files : \E row, next : AppendRow(f, row, next)
      BY <1>1, AppendIs
    <2>2. UNCHANGED <<pc, run, total>>
      BY <1>1, AppendIs
    <2>3. /\ \A i \in DOMAIN Usage : i \in DOMAIN Usage' /\ Usage'[i] = Usage[i]
          /\ \A i \in DOMAIN Outcomes : i \in DOMAIN Outcomes' /\ Outcomes'[i] = Outcomes[i]
      BY <2>1, AppendSpread DEF Kept
    <2>4. \A o \in Captured : o \in Captured'
      BY <2>3 DEF Captured, Range
    <2> QED BY <2>2, <2>3, <2>4 DEF Kept, Reserved
  <1>2. CASE Moves
    <2>1. pc' \in Open \cup {"captured"} => /\ pc \in Open /\ pc' # "captured"
                                         /\ UNCHANGED <<total, run>>
      BY <1>2 DEF Moves, Begin, Recovered, Send, RequestFails, CreateRaw, WriteRaw, SyncRaw,
         RawFails, Poll, Goto, memory
    <2> QED BY <1>2, <2>1, MovesLeaveRows DEF Kept, Reserved, RowsStay
  <1>3. CASE SyncRow
    <2>1. /\ RowsStay /\ io # NoRow /\ io.file \in Files /\ pc' = io.next /\ run' = run
          /\ (pc = "recovering" <=> io.next = "recovering")
      BY <1>3, SyncLeavesRows DEF Kept, Writing
    <2>2. CASE io.file = "usage"
      <3>1. /\ io.next = "reserved" /\ Len(Usage) = total + 1 /\ total \in Nat
            /\ Usage[total + 1] = Reservation(run, mine + 1, total + 1)
        BY <2>2 DEF LedgerInv, Appending, Counted
      <3>2. total' = total + 1
        BY <1>3, <2>2, <3>1 DEF SyncRow
      <3>3. Usage[total + 1].session = run
        BY <3>1 DEF Reservation
      <3>4. DOMAIN Usage = 1 .. Len(Usage)
        BY RowsOf DEF Kept, Files, Usage
      <3> QED BY <2>1, <3>1, <3>2, <3>3, <3>4 DEF Reserved, RowsStay
    <2>3. CASE io.file # "usage" /\ pc' \in Open \cup {"captured"}
      <3>1. pc # "recovering" /\ pc' = "captured" /\ io.file = "outcomes" /\ pc = "persisted"
        BY <2>1, <2>3 DEF Kept, Writing, Files
      <3>2. UNCHANGED <<total, run>>
        BY <1>3, <2>1, <3>1 DEF SyncRow, memory
      <3>3. PICK outcome, held :
               /\ Outcomes[Len(Outcomes)]
                     = [session |-> run, access |-> total, outcome |-> outcome,
                        raw |-> held, end |-> "whole"]
               /\ outcome = "captured"
        BY <2>1, <3>1 DEF Kept, Writing
      <3>4. Len(Outcomes) \in DOMAIN Outcomes
        <4>1. /\ DOMAIN Outcomes = 1 .. Len(Outcomes) /\ Len(Outcomes) \in Nat
              /\ files["outcomes"].synced \in Nat
          BY RowsOf DEF Kept, Files, Outcomes
        <4>2. files["outcomes"].synced < Len(Outcomes)
          BY <2>1, <3>1 DEF Kept, Writing, Outcomes
        <4> QED BY <4>1, <4>2
      <3>5. Outcomes[Len(Outcomes)].access = total /\ Outcomes[Len(Outcomes)].outcome = "captured"
        BY <3>3
      <3>6. Outcomes[Len(Outcomes)] \in Captured
        BY <3>4, <3>5 DEF Captured, Range
      <3>7. \E o \in Captured' : o.access = total'
        BY <2>1, <3>2, <3>5, <3>6 DEF Captured, RowsStay
      <3>8. total \in DOMAIN Usage /\ Usage[total].session = run
        BY <3>1 DEF Kept, Reserved
      <3> QED BY <2>1, <3>1, <3>2, <3>7, <3>8 DEF Reserved, RowsStay
    <2>4. CASE pc' \notin Open \cup {"captured"}
      BY <2>4 DEF Reserved
    <2> QED BY <2>2, <2>3, <2>4
  <1>4. CASE RowFails \/ Crash \/ PowerFails
    <2>1. pc' \in {"down", "erred"}
      BY <1>4 DEF RowFails, Crash, PowerFails
    <2> QED BY <2>1 DEF Reserved
  <1> QED BY <1>1, <1>2, <1>3, <1>4, NextIs

-----------------------------------------------------------------------------
(* What the recovery completed stays complete.                             *)

LEMMA FinishedStays ==
    ASSUME NEW a, Finished(a), Usage'[a] = Usage[a],
           \A i \in DOMAIN Outcomes : Outcomes[i].access = a =>
              i \in DOMAIN Outcomes' /\ Outcomes'[i].access = a,
           \A i \in DOMAIN Outcomes' : Outcomes'[i].access = a =>
              /\ i \in DOMAIN Outcomes /\ Outcomes[i].access = a
              /\ Outcomes[i].outcome = Outcomes'[i].outcome,
           \A i \in DOMAIN Observations :
              \/ Observations[i].kind = "terminal"
              \/ Observations[i].access = a
              => /\ i \in DOMAIN Observations' /\ Observations'[i].kind = Observations[i].kind
                 /\ Observations[i].kind = "terminal" =>
                       Observations'[i].session = Observations[i].session
                 /\ Observations[i].kind # "terminal" =>
                       Observations'[i].access = Observations[i].access
    PROVE  Finished(a)'
  BY DEF Finished

LEMMA CompletedAppend ==
    ASSUME Kept, LedgerInv, LedgerInv', Writing', Appends
    PROVE  Completed'
  <1> SUFFICES ASSUME pc' \notin {"down", "recovering"}, NEW a \in DOMAIN Usage', Usage'[a].session # run'
               PROVE  Finished(a)'
    BY DEF Completed
  <1>1. PICK f \in Files : \E row, next : AppendRow(f, row, next)
    BY AppendIs
  <1>2. UNCHANGED <<pc, run, total, mine>>
    BY AppendIs
  <1>3. /\ io'.file = f /\ io' # NoRow /\ (f # "usage" => Usage' = Usage)
        /\ f # "outcomes" => Outcomes' = Outcomes
        /\ f = "usage" => DOMAIN Usage' = 1 .. Len(Usage) + 1 /\ Len(Usage') = Len(Usage) + 1
        /\ f = "outcomes" => DOMAIN Outcomes' = 1 .. Len(Outcomes) + 1
                             /\ Len(Outcomes') = Len(Outcomes) + 1
        /\ \A i \in DOMAIN Usage : i \in DOMAIN Usage' /\ Usage'[i] = Usage[i]
        /\ \A i \in DOMAIN Outcomes : i \in DOMAIN Outcomes' /\ Outcomes'[i] = Outcomes[i]
        /\ \A i \in DOMAIN Observations :
              i \in DOMAIN Observations' /\ Observations'[i] = Observations[i]
    BY <1>1, AppendSpread DEF Kept
  <1>4. /\ DOMAIN Usage = 1 .. Len(Usage) /\ Len(Usage) \in Nat
        /\ DOMAIN Outcomes = 1 .. Len(Outcomes) /\ Len(Outcomes) \in Nat
    BY RowsOf DEF Kept, Files, Usage, Outcomes
  <1>5. a \in DOMAIN Usage /\ Usage'[a] = Usage[a]
    <2>1. CASE f = "usage"
      <3>1. Usage'[total + 1] = Reservation(run, mine + 1, total + 1) /\ Len(Usage') = total + 1
        BY <1>2, <1>3, <2>1 DEF LedgerInv, Appending
      <3>2. a # Len(Usage) + 1
        BY <1>2, <1>3, <2>1, <3>1 DEF Reservation
      <3>3. a \in 1 .. Len(Usage)
        BY <1>3, <1>4, <2>1, <3>2
      <3> QED BY <1>3, <1>4, <3>3
    <2> QED BY <1>3, <2>1
  <1>6. Finished(a)
    BY <1>2, <1>5 DEF Kept, Completed
  <1>7. \A i \in DOMAIN Outcomes' : Outcomes'[i].access = a =>
           i \in DOMAIN Outcomes /\ Outcomes'[i] = Outcomes[i]
    <2>1. CASE f = "outcomes"
      <3>1. PICK outcome, held :
               Outcomes'[Len(Outcomes')]
                  = [session |-> run, access |-> total, outcome |-> outcome,
                     raw |-> held, end |-> "whole"]
        BY <1>2, <1>3, <2>1 DEF Writing
      <3>2. Outcomes'[Len(Outcomes) + 1].access = total
        BY <1>3, <2>1, <3>1
      <3>3. pc \in Open
        BY <1>2, <1>3, <2>1 DEF Writing, Open
      <3>4. a # total
        BY <1>2, <1>5, <3>3 DEF Kept, Reserved
      <3>5. \A i \in DOMAIN Outcomes' : i = Len(Outcomes) + 1 \/ i \in DOMAIN Outcomes
        BY <1>3, <1>4, <2>1
      <3> QED BY <1>3, <3>2, <3>4, <3>5
    <2> QED BY <1>3, <2>1
  <1> QED BY <1>3, <1>5, <1>6, <1>7, FinishedStays

LEMMA CompletedRowFails ==
    ASSUME Kept, LedgerInv, RowFails
    PROVE  Completed'
  <1> SUFFICES ASSUME pc' \notin {"down", "recovering"}, NEW a \in DOMAIN Usage', Usage'[a].session # run'
               PROVE  Finished(a)'
    BY DEF Completed
  <1> DEFINE f == io.file
             n == Len(files[f].rows)
  <1>1. /\ io # NoRow /\ pc' = "erred" /\ pc # "recovering" /\ io.next # "down"
        /\ UNCHANGED <<run, mine, total>>
        /\ \E part \in PartlyWritten(files[f].rows) : files' = [files EXCEPT ![f].rows = part]
    BY DEF RowFails, memory
  <1>2. f \in Files /\ files[f].synced < n /\ pc # "down"
    BY <1>1 DEF Kept, Writing, LedgerInv, Appending
  <1>3. /\ files[f].synced \in Nat /\ n \in Nat /\ DOMAIN files[f].rows = 1 .. n
        /\ files[f].rows # << >> /\ n > 0
    <2>1. /\ files[f].synced \in Nat /\ n \in Nat /\ DOMAIN files[f].rows = 1 .. n
      BY <1>2, RowsOf DEF Kept
    <2>2. n > 0
      BY <1>2, <2>1
    <2>3. \A rows : rows = << >> => Len(rows) = 0
      OBVIOUS
    <2> QED BY <2>1, <2>2, <2>3
  <1>4. /\ \A g \in Files \ {f} : files'[g] = files[g]
        /\ DOMAIN files'[f].rows = 1 .. Len(files'[f].rows)
        /\ Len(files'[f].rows) \in {n, n - 1}
        /\ \A i \in 1 .. n - 1 : files'[f].rows[i] = files[f].rows[i]
        /\ n \in DOMAIN files'[f].rows =>
              \E e : files'[f].rows[n] \in {files[f].rows[n], [files[f].rows[n] EXCEPT !.end = e]}
    BY <1>1, <1>2, <1>3, RowBroken DEF Kept
  <1>5. /\ 1 .. n - 1 \subseteq DOMAIN files'[f].rows
        /\ \A i \in DOMAIN files'[f].rows : i \in 1 .. n - 1 \/ i = n
        /\ \A i \in DOMAIN files[f].rows : i \in 1 .. n - 1 \/ i = n
        /\ 1 .. n - 1 \subseteq DOMAIN files[f].rows
    <2>1. PICK k : k = Len(files'[f].rows)
      OBVIOUS
    <2>2. /\ DOMAIN files[f].rows = 1 .. n /\ DOMAIN files'[f].rows = 1 .. k
          /\ k \in {n, n - 1} /\ n \in Nat /\ n > 0
      BY <1>3, <1>4, <2>1
    <2> HIDE DEF n
    <2>3. 1 .. n - 1 \subseteq 1 .. k /\ 1 .. n - 1 \subseteq 1 .. n
      BY <2>2
    <2>4. (\A i \in 1 .. k : i \in 1 .. n - 1 \/ i = n)
          /\ (\A i \in 1 .. n : i \in 1 .. n - 1 \/ i = n)
      BY <2>2
    <2> QED BY <2>2, <2>3, <2>4
  <1>6. pc \notin {"down", "recovering"} /\ {"usage", "outcomes", "observations"} \subseteq Files
    BY <1>1, <1>2 DEF Files
  <1>7. CASE f = "usage"
    <2>1. Outcomes' = Outcomes /\ Observations' = Observations
      BY <1>4, <1>6, <1>7 DEF Outcomes, Observations
    <2>2. Usage[n] = Reservation(run, mine + 1, total + 1) /\ n = Len(Usage)
      BY <1>3, <1>7 DEF LedgerInv, Appending, Usage
    <2>3. n \in DOMAIN Usage' => Usage'[n].session = run
      <3> SUFFICES ASSUME n \in DOMAIN Usage' PROVE Usage'[n].session = run
        OBVIOUS
      <3>1. PICK e : Usage'[n] \in {Usage[n], [Usage[n] EXCEPT !.end = e]}
        BY <1>4, <1>7 DEF Usage
      <3>2. ASSUME NEW x, NEW y, NEW z, NEW v,
                   v = [[session |-> x, attempt |-> y, access |-> z, end |-> "whole"] EXCEPT !.end = e]
            PROVE  v.session = x
        BY <3>2
      <3>3. CASE Usage'[n] = [Usage[n] EXCEPT !.end = e]
        BY <2>2, <3>2, <3>3 DEF Reservation
      <3>4. CASE Usage'[n] = Usage[n]
        BY <2>2, <3>4 DEF Reservation
      <3> QED BY <3>1, <3>3, <3>4
    <2>4. a \in DOMAIN Usage /\ Usage'[a] = Usage[a]
      BY <1>1, <1>4, <1>5, <1>7, <2>3 DEF Usage
    <2>5. Finished(a)
      BY <1>1, <1>6, <2>4 DEF Kept, Completed
    <2> QED BY <2>1, <2>4, <2>5, FinishedStays
  <1>8. CASE f = "outcomes"
    <2>1. Usage' = Usage /\ Observations' = Observations
      BY <1>4, <1>6, <1>8 DEF Usage, Observations
    <2>2. PICK outcome, held :
             Outcomes[Len(Outcomes)]
                = [session |-> run, access |-> total, outcome |-> outcome,
                   raw |-> held, end |-> "whole"]
      BY <1>1, <1>8 DEF Kept, Writing
    <2>3. pc \in Open
      BY <1>1, <1>8 DEF Kept, Writing, Open
    <2>4. a \in DOMAIN Usage /\ a # total /\ Usage'[a] = Usage[a]
      BY <1>1, <2>1, <2>3 DEF Kept, Reserved
    <2>5. Finished(a)
      BY <1>1, <1>6, <2>4 DEF Kept, Completed
    <2>6. Outcomes[n].access = total /\ n = Len(Outcomes)
      BY <1>8, <2>2 DEF Outcomes
    <2>7. n \in DOMAIN Outcomes' => Outcomes'[n].access = total
      <3> SUFFICES ASSUME n \in DOMAIN Outcomes' PROVE Outcomes'[n].access = total
        OBVIOUS
      <3>1. PICK e : Outcomes'[n] \in {Outcomes[n], [Outcomes[n] EXCEPT !.end = e]}
        BY <1>4, <1>8 DEF Outcomes
      <3>2. ASSUME NEW x, NEW y, NEW z, NEW w, NEW v,
                   v = [[session |-> x, access |-> y, outcome |-> z, raw |-> w, end |-> "whole"]
                           EXCEPT !.end = e]
            PROVE  v.access = y
        BY <3>2
      <3>3. CASE Outcomes'[n] = [Outcomes[n] EXCEPT !.end = e]
        BY <2>2, <2>6, <3>2, <3>3
      <3>4. CASE Outcomes'[n] = Outcomes[n]
        BY <2>6, <3>4
      <3> QED BY <3>1, <3>3, <3>4
    <2>8. /\ \A i \in DOMAIN Outcomes : Outcomes[i].access = a =>
                i \in DOMAIN Outcomes' /\ Outcomes'[i] = Outcomes[i]
          /\ \A i \in DOMAIN Outcomes' : Outcomes'[i].access = a =>
                i \in DOMAIN Outcomes /\ Outcomes'[i] = Outcomes[i]
      BY <1>4, <1>5, <1>8, <2>4, <2>6, <2>7 DEF Outcomes
    <2> QED BY <2>1, <2>4, <2>5, <2>8, FinishedStays
  <1>9. CASE f = "observations"
    <2>1. Usage' = Usage /\ Outcomes' = Outcomes
      BY <1>4, <1>6, <1>9 DEF Usage, Outcomes
    <2>2. /\ pc = "captured"
          /\ \E kind, o, cmd, reason :
                /\ kind # "terminal" /\ o.access = total
                /\ Observations[Len(Observations)] = Disposition(kind, o, cmd, reason)
      BY <1>1, <1>9 DEF Kept, Writing
    <2>3. Observations[n].kind # "terminal" /\ Observations[n].access = total
      BY <1>9, <2>2 DEF Observations, Disposition
    <2>4. a \in DOMAIN Usage /\ a # total /\ Usage'[a] = Usage[a]
      BY <1>1, <2>1, <2>2 DEF Kept, Reserved
    <2>5. Finished(a)
      BY <1>1, <1>6, <2>4 DEF Kept, Completed
    <2>6. \A i \in DOMAIN Observations :
             Observations[i].kind = "terminal" \/ Observations[i].access = a =>
                i \in DOMAIN Observations' /\ Observations'[i] = Observations[i]
      BY <1>4, <1>5, <1>9, <2>3, <2>4 DEF Observations
    <2> QED BY <2>1, <2>4, <2>5, <2>6, FinishedStays
  <1> QED BY <1>2, <1>7, <1>8, <1>9 DEF Files

LEMMA CompletedStep ==
    ASSUME Kept, LedgerInv, LedgerInv', Writing', Next
    PROVE  Completed'
  <1>1. CASE Moves
    <2>1. RowsStay
      BY <1>1, MovesLeaveRows
    <2>2. CASE Recovered
      <3>1. Missing = {} /\ Undisposed = {} /\ Unclean = {}
        BY <2>2 DEF Recovered
      <3>2. \A a \in DOMAIN Usage : \E i \in DOMAIN Outcomes : Outcomes[i].access = a
        BY <3>1 DEF Missing, Decided, Range
      <3>3. DOMAIN Observations = 1 .. Len(Observations)
        BY RowsOf DEF Kept, Files, Observations
      <3>4. \A i \in DOMAIN Outcomes : Outcomes[i].outcome = "captured" =>
               \E j \in DOMAIN Observations :
                  Observations[j].kind # "terminal" /\ Observations[j].access = Outcomes[i].access
        BY <3>1, <3>3 DEF Undisposed, Captured, Disposed, Range
      <3>5. \A a \in DOMAIN Usage : \E i \in DOMAIN Observations :
               Observations[i].kind = "terminal" /\ Observations[i].session = Usage[a].session
        BY <3>1 DEF Unclean, Range
      <3>6. \A a \in DOMAIN Usage : Finished(a)
        BY <3>2, <3>4, <3>5 DEF Finished
      <3> QED BY <2>1, <3>6 DEF Completed, Finished, RowsStay
    <2>3. CASE ~Recovered
      <3>1. pc' \notin {"down", "recovering"} => pc \notin {"down", "recovering"} /\ run' = run
        BY <1>1, <2>3 DEF Moves, Begin, Recovered, Send, RequestFails, CreateRaw, WriteRaw, SyncRaw,
         RawFails, Poll, Goto
      <3> QED BY <2>1, <3>1 DEF Kept, Completed, Finished, RowsStay
    <2> QED BY <2>2, <2>3
  <1>2. CASE SyncRow
    <2>1. RowsStay /\ pc # "down" /\ run' = run /\ pc' = io.next /\ (pc = "recovering" <=> io.next = "recovering")
      BY <1>2, SyncLeavesRows DEF Kept, Writing, LedgerInv, Appending
    <2> QED BY <2>1 DEF Kept, Completed, Finished, RowsStay
  <1>3. CASE Crash \/ PowerFails
    BY <1>3 DEF Crash, PowerFails, Completed
  <1> QED BY <1>1, <1>2, <1>3, CompletedAppend, CompletedRowFails, NextIs

LEMMA KeptStep ==
    ASSUME Kept, LedgerInv, [Next]_vars
    PROVE  Kept'
  <1>1. CASE Next
    BY <1>1, StoredStep, ReservedStep, WritingStep, CompletedStep, LedgerStep DEF Kept
  <1>2. CASE UNCHANGED vars
    <2>1. UNCHANGED <<files, raw, pc, io, run, mine, total, faults>>
      BY <1>2 DEF vars
    <2>2. RowsStay
      BY <2>1 DEF RowsStay, Usage, Outcomes, Observations
    <2>3. Stored'
      BY <2>1 DEF Kept, Stored
    <2>4. Reserved'
      BY <2>1, <2>2 DEF Kept, Reserved, RowsStay, Captured
    <2>5. Writing'
      BY <2>1, <2>2 DEF Kept, Writing, RowsStay
    <2>6. Completed'
      BY <2>1, <2>2 DEF Kept, Completed, Finished, RowsStay
    <2> QED BY <2>3, <2>4, <2>5, <2>6 DEF Kept
  <1> QED BY <1>1, <1>2

-----------------------------------------------------------------------------
(* A history that is accepted.                                             *)

OnItsWay == IF io.file = "usage" THEN 1 ELSE 0

(* What the process counts is what the ledger has of its session. *)
Tallied ==
    /\ \A i \in DOMAIN Usage : Usage[i].session \in 1 .. run /\ Usage[i].end = "whole"
    /\ pc \in {"down", "recovering"} => mine = 0
    /\ pc # "down" =>
          /\ run > 0 /\ Len(Usage) = total + OnItsWay
          /\ Cardinality(AttemptsOf(run)) = mine + OnItsWay
    /\ AttemptsOf(run) # {} => Len(Usage) \in AttemptsOf(run)

(* The session that runs has one command, and its terminal ends it. *)
Sessions ==
    \A i \in DOMAIN Observations :
       LET row == Observations[i]
       IN  /\ row.kind = "terminal" =>
                 /\ row.session \in 1 .. run /\ row.total \in Nat
                 /\ row.session = run /\ pc # "down" =>
                       io.file = "observations" /\ io.next = "down"
           /\ row.kind # "terminal" /\ row.session = run /\ pc \notin {"down", "recovering"} =>
                 row.kind # "recovery" /\ row.command = command

(* No outcome and no disposition before its time. *)
Fresh ==
    /\ io.file = "usage" => Len(Usage) \notin Decided
    /\ pc \in Open /\ io.file # "outcomes" => total \notin Decided
    /\ \/ pc = "captured" /\ io.file # "observations"
       \/ io.file = "outcomes" /\ pc = "persisted"
       => total \notin Disposed(Len(Observations))

(* What the command has found is in its last observation. *)
Shown ==
    \/ pc \in {"shown", "polling"} /\ io.file # "observations"
    \/ io.file = "observations" /\ pc = "captured" /\ io.next = "shown"
    => /\ Len(Observations) \in DOMAIN Observations
       /\ LET row == Observations[Len(Observations)]
          IN  row.kind = "observation" /\ row.session = run /\ row.found = found

Commanded ==
    /\ pc \notin {"down", "recovering"} => command \in Commands
    /\ pc \in {"down", "recovering"} => found = None
    /\ found \in {None, "closed"}
    /\ pc = "polling" => command = "observe"
    /\ found # None => command # "list_live"

Ordered == Accepts /\ Tallied /\ Sessions /\ Fresh /\ Shown /\ Commanded

Orderly == faults = 0 => Ordered

-----------------------------------------------------------------------------
(* What a start accepts, and goes on accepting.                            *)

RowValid(i) ==
    IF Observations[i].kind = "terminal" THEN TerminalValid(i) ELSE DispositionValid(i)

LEMMA RowStays ==
    ASSUME DOMAIN Observations = 1 .. Len(Observations), Len(Observations) \in Nat,
           NEW i \in DOMAIN Observations, RowValid(i),
           \A j \in DOMAIN Observations : Observations'[j] = Observations[j],
           \A a \in DOMAIN Usage : a \in DOMAIN Usage' /\ Usage'[a] = Usage[a],
           Len(Usage) \in Nat, Len(Usage') \in Nat, Len(Usage) <= Len(Usage'),
           \A o \in Captured : o \in Captured',
           Observations[i].kind = "terminal" =>
              Observations[i].total \in Nat
              /\ AttemptsOf(Observations[i].session)' = AttemptsOf(Observations[i].session)
    PROVE  RowValid(i)'
  <1> DEFINE row == Observations[i]
  <1>1. \A j \in 1 .. i - 1 : j \in DOMAIN Observations /\ Observations'[j] = Observations[j]
    OBVIOUS
  <1>2. Observations'[i] = row
    OBVIOUS
  <1>3. EndedBefore(i)' <=> EndedBefore(i)
    BY <1>1, <1>2 DEF EndedBefore
  <1>4. DispositionsBefore(i)' = DispositionsBefore(i)
    BY <1>1, <1>2 DEF DispositionsBefore
  <1>5. Disposed(i - 1)' = Disposed(i - 1)
    BY <1>1 DEF Disposed
  <1>6. CASE row.kind = "terminal"
    <2>1. TerminalValid(i)
      BY <1>6 DEF RowValid
    <2> DEFINE d == DispositionsBefore(i)
    <2>2. \A j \in d : Observations'[j] = Observations[j]
      BY <1>1 DEF DispositionsBefore
    <2>3. DispositionsBefore(i)' = d /\ AttemptsOf(row.session)' = AttemptsOf(row.session)
      BY <1>4, <1>6
    <2>4. Coherent(row, d)
      BY <2>1 DEF TerminalValid
    <2>5. \A e : e = d => Coherent(row, e)'
      BY <1>2, <2>2, <2>4 DEF Coherent
    <2>6. /\ ~EndedBefore(i)
          /\ row.total <= Len(Usage)
          /\ AttemptsOf(row.session) # {} =>
                row.mine = Cardinality(AttemptsOf(row.session)) /\ row.total = Max(AttemptsOf(row.session))
          /\ row.reason = "recovered_unclean_session" =>
                row.command = "recovery" /\ AttemptsOf(row.session) # {}
      BY <2>1 DEF TerminalValid
    <2>7. row.total <= Len(Usage')
      BY <1>6, <2>6
    <2>8. TerminalValid(i)'
      BY <1>2, <1>3, <2>3, <2>5, <2>6, <2>7 DEF TerminalValid
    <2> QED BY <1>2, <1>6, <2>8 DEF RowValid
  <1>7. CASE row.kind # "terminal"
    <2>1. DispositionValid(i)
      BY <1>7 DEF RowValid
    <2>2. DispositionValid(i)'
      BY <1>2, <1>3, <1>5, <2>1 DEF DispositionValid, HistoryMatches
    <2> QED BY <1>2, <1>7, <2>2 DEF RowValid
  <1> QED BY <1>6, <1>7

LEMMA Domains ==
    ASSUME Kept
    PROVE  /\ DOMAIN Usage = 1 .. Len(Usage) /\ Len(Usage) \in Nat
           /\ DOMAIN Outcomes = 1 .. Len(Outcomes) /\ Len(Outcomes) \in Nat
           /\ DOMAIN Observations = 1 .. Len(Observations) /\ Len(Observations) \in Nat
  BY RowsOf DEF Kept, Files, Usage, Outcomes, Observations

LEMMA SoundIs ==
    ASSUME NEW u, Sound(u)
    PROVE  DOMAIN u.rows = 1 .. Len(u.rows) /\ Len(u.rows) \in Nat
  <1>1. PICK S : u \in [rows : Seq(S), synced : Nat]
    BY DEF Sound, UsageIs
  <1> QED BY <1>1

LEMMA DomainsNext ==
    ASSUME Kept'
    PROVE  /\ DOMAIN Usage' = 1 .. Len(Usage') /\ Len(Usage') \in Nat
           /\ DOMAIN Outcomes' = 1 .. Len(Outcomes') /\ Len(Outcomes') \in Nat
           /\ DOMAIN Observations' = 1 .. Len(Observations') /\ Len(Observations') \in Nat
  <1>1. \A f \in Files : Sound(files'[f])
    BY DEF Kept, Stored
  <1>2. \A f \in Files : DOMAIN files'[f].rows = 1 .. Len(files'[f].rows) /\ Len(files'[f].rows) \in Nat
    BY <1>1, SoundIs
  <1> QED BY <1>2 DEF Files, Usage, Outcomes, Observations

LEMMA ObservationsStay ==
    ASSUME Kept, Kept', ObservationsValid, Observations' = Observations,
           \A a \in DOMAIN Usage : a \in DOMAIN Usage' /\ Usage'[a] = Usage[a],
           Len(Usage) <= Len(Usage'),
           \A o \in Captured : o \in Captured',
           \A i \in DOMAIN Observations : Observations[i].kind = "terminal" =>
              Observations[i].total \in Nat
              /\ AttemptsOf(Observations[i].session)' = AttemptsOf(Observations[i].session)
    PROVE  ObservationsValid'
  <1>1. /\ DOMAIN Observations = 1 .. Len(Observations) /\ Len(Observations) \in Nat
        /\ Len(Usage) \in Nat /\ Len(Usage') \in Nat
    BY Domains, DomainsNext
  <1>2. \A i \in DOMAIN Observations : RowValid(i)
    BY DEF ObservationsValid, RowValid
  <1>3. \A i \in DOMAIN Observations : RowValid(i)'
    BY <1>1, <1>2, RowStays
  <1> QED BY <1>3 DEF ObservationsValid, RowValid

LEMMA OutcomesStay ==
    ASSUME OutcomesValid, Outcomes' = Outcomes,
           \A a \in DOMAIN Usage : a \in DOMAIN Usage' /\ Usage'[a] = Usage[a],
           \A a \in Decided : raw'[a] = raw[a]
    PROVE  OutcomesValid'
  <1>1. ASSUME NEW row \in Range(Outcomes)
        PROVE  HistoryMatches(row)' /\ (row.raw # None => raw'[row.access] = row.raw)
    <2>1. HistoryMatches(row) /\ (row.raw # None => raw[row.access] = row.raw)
      BY DEF OutcomesValid
    <2>2. row.access \in Decided
      BY DEF Decided
    <2> QED BY <2>1, <2>2 DEF HistoryMatches
  <1> QED BY <1>1 DEF OutcomesValid

LEMMA UsageStays ==
    ASSUME UsageLoads, Usage' = Usage
    PROVE  UsageLoads'
  BY DEF UsageLoads, Lines

(* Rows that stay, and a raw file of the attempt under way. *)
LEMMA AcceptsStays ==
    ASSUME Kept, Kept', Accepts, Sessions, RowsStay,
           \A a \in Attempts : a \in DOMAIN Usage \ Decided \/ raw'[a] = raw[a],
           \A a \in Decided : raw'[a] = raw[a]
    PROVE  Accepts'
  <1>1. UsageLoads'
    BY UsageStays DEF Accepts, RowsStay
  <1>2. AuditLoads(Outcomes)' /\ AuditLoads(Observations)'
    BY DEF Accepts, AuditLoads, Lines, RowsStay
  <1>3. Captured' = Captured /\ Decided' = Decided
    BY DEF Captured, Decided, RowsStay
  <1>4. OutcomesValid'
    BY OutcomesStay DEF Accepts, RowsStay
  <1>5. RawInventoryValid'
    BY <1>3 DEF Accepts, RawInventoryValid, RowsStay
  <1>6. ObservationsValid'
    <2>1. \A s : AttemptsOf(s)' = AttemptsOf(s)
      BY DEF AttemptsOf, RowsStay
    <2>2. Len(Usage) <= Len(Usage')
      BY Domains DEF RowsStay
    <2>3. \A i \in DOMAIN Observations : Observations[i].kind = "terminal" =>
              Observations[i].total \in Nat
              /\ AttemptsOf(Observations[i].session)' = AttemptsOf(Observations[i].session)
      BY <2>1 DEF Sessions, RowsStay
    <2> QED BY <1>3, <2>2, <2>3, ObservationsStay DEF Accepts, RowsStay
  <1> QED BY <1>1, <1>2, <1>4, <1>5, <1>6 DEF Accepts

(* The next row of this session. *)
LEMMA AttemptsGrow ==
    ASSUME DOMAIN Usage = 1 .. Len(Usage), Len(Usage) \in Nat,
           DOMAIN Usage' = 1 .. Len(Usage) + 1, Len(Usage') = Len(Usage) + 1,
           \A i \in DOMAIN Usage : Usage'[i] = Usage[i]
    PROVE  /\ \A s : s # Usage'[Len(Usage) + 1].session => AttemptsOf(s)' = AttemptsOf(s)
           /\ \A s : s = Usage'[Len(Usage) + 1].session =>
                 /\ AttemptsOf(s)' = AttemptsOf(s) \cup {Len(Usage) + 1}
                 /\ Len(Usage) + 1 \notin AttemptsOf(s)
                 /\ IsFiniteSet(AttemptsOf(s))
                 /\ Cardinality(AttemptsOf(s)') = Cardinality(AttemptsOf(s)) + 1
  <1>1. \A i \in DOMAIN Usage' : i \in DOMAIN Usage \/ i = Len(Usage) + 1
    OBVIOUS
  <1>2. Len(Usage) + 1 \in DOMAIN Usage' /\ Len(Usage) + 1 \notin DOMAIN Usage
        /\ DOMAIN Usage \subseteq DOMAIN Usage'
    OBVIOUS
  <1>3. ASSUME NEW s, s # Usage'[Len(Usage) + 1].session
        PROVE  AttemptsOf(s)' = AttemptsOf(s)
    BY <1>1, <1>2, <1>3 DEF AttemptsOf
  <1>4. ASSUME NEW s, s = Usage'[Len(Usage) + 1].session
        PROVE  /\ AttemptsOf(s)' = AttemptsOf(s) \cup {Len(Usage) + 1}
               /\ Len(Usage) + 1 \notin AttemptsOf(s)
               /\ IsFiniteSet(AttemptsOf(s))
               /\ Cardinality(AttemptsOf(s)') = Cardinality(AttemptsOf(s)) + 1
    <2>1. AttemptsOf(s)' = AttemptsOf(s) \cup {Len(Usage) + 1}
      BY <1>1, <1>2, <1>4 DEF AttemptsOf
    <2>2. Len(Usage) + 1 \notin AttemptsOf(s) /\ AttemptsOf(s) \subseteq 1 .. Len(Usage)
      BY <1>2 DEF AttemptsOf
    <2>3. IsFiniteSet(AttemptsOf(s))
      <3>1. IsFiniteSet(1 .. Len(Usage))
        BY FS_Interval
      <3> QED BY <2>2, <3>1, FS_Subset
    <2> QED BY <2>1, <2>2, <2>3, FS_AddElement
  <1> QED BY <1>3, <1>4

LEMMA SameAttempts ==
    ASSUME Sessions, io = NoRow, pc # "down", Observations' = Observations,
           \A s : s # run => AttemptsOf(s)' = AttemptsOf(s)
    PROVE  \A i \in DOMAIN Observations : Observations[i].kind = "terminal" =>
              Observations[i].total \in Nat
              /\ AttemptsOf(Observations[i].session)' = AttemptsOf(Observations[i].session)
  BY DEF Sessions, NoRow, None

LEMMA AcceptsReserve ==
    ASSUME Kept, Kept', LedgerInv, LedgerInv', Ordered, Reserve
    PROVE  Accepts'
  <1>1. /\ AppendRow("usage", Reservation(run, mine + 1, total + 1), "reserved")
        /\ pc \notin {"down", "recovering"} /\ mine < SessionLimit /\ UNCHANGED raw /\ io = NoRow
    BY DEF Reserve, AppendRow
  <1> DEFINE n == Len(Usage)
  <1>2. /\ Outcomes' = Outcomes /\ Observations' = Observations
        /\ Usage'[n + 1] = Reservation(run, mine + 1, total + 1)
        /\ DOMAIN Usage' = 1 .. n + 1 /\ Len(Usage') = n + 1
        /\ \A i \in DOMAIN Usage : i \in DOMAIN Usage' /\ Usage'[i] = Usage[i]
        /\ DOMAIN Usage = 1 .. n /\ n \in Nat /\ io.file # "usage"
    <2>1. "usage" \in Files /\ "usage" # "outcomes" /\ "usage" # "observations" /\ None # "usage"
      BY DEF Files, None
    <2> QED BY <1>1, <2>1, AppendSpread, Domains DEF Kept
  <1>3. n = total /\ Cardinality(AttemptsOf(run)) = mine /\ mine \in Nat /\ total \in Nat /\ run \in Nat
    <2>1. mine \in Nat /\ total \in Nat /\ run \in Nat
      BY TrialLedgerAssumption DEF LedgerInv, Counted
    <2>2. OnItsWay = 0
      BY <1>2 DEF OnItsWay
    <2>3. n = total + OnItsWay /\ Cardinality(AttemptsOf(run)) = mine + OnItsWay
      BY <1>1 DEF Ordered, Tallied
    <2> QED BY <2>1, <2>2, <2>3
  <1>4. /\ Usage'[n + 1].session = run /\ Usage'[n + 1].attempt = mine + 1
        /\ Usage'[n + 1].access = n + 1 /\ Usage'[n + 1].end = "whole"
    BY <1>2, <1>3 DEF Reservation
  <1>5. UsageLoads'
    <2>1. ASSUME NEW i \in DOMAIN Usage'
          PROVE  /\ Usage'[i].end = "whole" /\ Usage'[i].access = i
                 /\ Usage'[i].attempt
                      = Cardinality({j \in 1 .. i - 1 : Usage'[j].session = Usage'[i].session}) + 1
                 /\ Usage'[i].attempt <= SessionLimit
      <3>1. CASE i = n + 1
        <4>1. {j \in 1 .. i - 1 : Usage'[j].session = Usage'[i].session} = AttemptsOf(run)
          BY <1>2, <1>4, <3>1 DEF AttemptsOf
        <4>2. mine + 1 <= SessionLimit
          BY <1>1, <1>3, TrialLedgerAssumption
        <4> QED BY <1>3, <1>4, <3>1, <4>1, <4>2
      <3>2. CASE i \in DOMAIN Usage
        <4>1. {j \in 1 .. i - 1 : Usage'[j].session = Usage'[i].session}
               = {j \in 1 .. i - 1 : Usage[j].session = Usage[i].session}
          BY <1>2, <3>2
        <4>2. /\ Usage[i].access = i
              /\ Usage[i].attempt
                   = Cardinality({j \in 1 .. i - 1 : Usage[j].session = Usage[i].session}) + 1
              /\ Usage[i].attempt <= SessionLimit
          BY <3>2 DEF Ordered, Accepts, UsageLoads
        <4>3. Usage[i].end = "whole"
          BY <3>2 DEF Ordered, Tallied
        <4> QED BY <1>2, <3>2, <4>1, <4>2, <4>3
      <3> QED BY <1>2, <3>1, <3>2
    <2>2. Len(Usage') <= AccessLimit
      BY DEF LedgerInv, Filed
    <2>3. Lines(Usage)'
      <3>1. \A i \in 1 .. Len(Usage') - 1 : i \in DOMAIN Usage'
        BY <1>2
      <3> QED BY <2>1, <3>1 DEF Lines
    <2> QED BY <2>1, <2>2, <2>3 DEF UsageLoads
  <1>6. AuditLoads(Outcomes)' /\ AuditLoads(Observations)'
    BY <1>2 DEF Ordered, Accepts, AuditLoads, Lines
  <1>7. Captured' = Captured /\ Decided' = Decided
    BY <1>2 DEF Captured, Decided
  <1>8. OutcomesValid'
    BY <1>1, <1>2, OutcomesStay DEF Ordered, Accepts
  <1>9. RawInventoryValid'
    BY <1>1, <1>2, <1>7 DEF Ordered, Accepts, RawInventoryValid
  <1>10. ObservationsValid'
    <2>1. \A s : s # run => AttemptsOf(s)' = AttemptsOf(s)
      BY <1>2, <1>4, AttemptsGrow
    <2>2. \A i \in DOMAIN Observations : Observations[i].kind = "terminal" =>
              Observations[i].total \in Nat
              /\ AttemptsOf(Observations[i].session)' = AttemptsOf(Observations[i].session)
      BY <1>1, <1>2, <2>1, SameAttempts DEF Ordered
    <2>3. Len(Usage) <= Len(Usage')
      BY <1>2
    <2> QED BY <1>2, <1>7, <2>2, <2>3, ObservationsStay DEF Ordered, Accepts
  <1> QED BY <1>5, <1>6, <1>8, <1>9, <1>10 DEF Accepts

(* The outcome of an attempt that has none. *)
LEMMA AcceptsOutcome ==
    ASSUME Kept, Kept', Ordered, NEW a \in DOMAIN Usage \ Decided, NEW outcome, NEW next,
           AppendRow("outcomes", Outcome(Usage[a].session, a, outcome), next)
    PROVE  Accepts'
  <1> DEFINE n == Len(Outcomes)
             row == Outcome(Usage[a].session, a, outcome)
  <1>1. /\ Usage' = Usage /\ Observations' = Observations /\ UNCHANGED raw
        /\ Outcomes'[n + 1] = row
        /\ DOMAIN Outcomes' = 1 .. n + 1 /\ Len(Outcomes') = n + 1
        /\ \A i \in DOMAIN Outcomes : i \in DOMAIN Outcomes' /\ Outcomes'[i] = Outcomes[i]
        /\ DOMAIN Outcomes = 1 .. n /\ n \in Nat
    <2>1. "outcomes" \in Files /\ "usage" # "outcomes" /\ "outcomes" # "observations"
      BY DEF Files
    <2> QED BY <2>1, AppendSpread, Domains DEF Kept, AppendRow
  <1>2. row.session = Usage[a].session /\ row.access = a /\ row.raw = raw[a] /\ row.end = "whole"
        /\ row.outcome = outcome
    BY DEF Outcome
  <1> HIDE DEF row
  <1>3. Range(Outcomes') = Range(Outcomes) \cup {row}
    <2>1. \A i \in DOMAIN Outcomes' : i \in DOMAIN Outcomes \/ i = n + 1
      BY <1>1
    <2>2. n + 1 \in DOMAIN Outcomes'
      BY <1>1
    <2> QED BY <1>1, <2>1, <2>2 DEF Range
  <1>4. Decided' = Decided \cup {a} /\ (\A o \in Captured : o \in Captured')
    BY <1>2, <1>3 DEF Decided, Captured
  <1>5. UsageLoads'
    BY <1>1, UsageStays DEF Ordered, Accepts
  <1>6. AuditLoads(Observations)'
    BY <1>1 DEF Ordered, Accepts, AuditLoads, Lines
  <1>7. AuditLoads(Outcomes)'
    <2>1. \A i \in DOMAIN Outcomes : Outcomes[i].end = "whole"
      BY DEF Ordered, Accepts, AuditLoads
    <2>2. \A i \in DOMAIN Outcomes' : Outcomes'[i].end = "whole"
      BY <1>1, <1>2, <2>1
    <2>3. \A i \in 1 .. Len(Outcomes') - 1 : i \in DOMAIN Outcomes'
      BY <1>1
    <2> QED BY <2>2, <2>3 DEF AuditLoads, Lines
  <1>8. OutcomesValid'
    <2>1. ASSUME NEW i \in DOMAIN Outcomes', NEW j \in DOMAIN Outcomes',
                 Outcomes'[i].access = Outcomes'[j].access
          PROVE  i = j
      <3>1. \A k \in DOMAIN Outcomes : Outcomes[k].access # a
        BY DEF Decided, Range
      <3>2. \A k \in DOMAIN Outcomes' : k = n + 1 \/ (k \in DOMAIN Outcomes /\ Outcomes'[k] = Outcomes[k])
        BY <1>1
      <3>3. Outcomes'[n + 1].access = a
        BY <1>1, <1>2
      <3>4. i \in DOMAIN Outcomes /\ j \in DOMAIN Outcomes => i = j
        BY <1>1, <2>1 DEF Ordered, Accepts, OutcomesValid
      <3> QED BY <2>1, <3>1, <3>2, <3>3, <3>4
    <2>2. ASSUME NEW r \in Range(Outcomes')
          PROVE  HistoryMatches(r)' /\ (r.raw # None => raw'[r.access] = r.raw)
      <3>1. CASE r \in Range(Outcomes)
        BY <1>1, <3>1 DEF Ordered, Accepts, OutcomesValid, HistoryMatches
      <3>2. CASE r = row
        BY <1>1, <1>2, <3>2 DEF HistoryMatches
      <3> QED BY <1>3, <3>1, <3>2
    <2> QED BY <2>1, <2>2 DEF OutcomesValid
  <1>9. RawInventoryValid'
    <2> SUFFICES ASSUME NEW b \in Attempts, raw[b] # None
                 PROVE  \/ \E r \in Range(Outcomes') : r.access = b /\ r.raw # None
                        \/ b \in DOMAIN Usage \ Decided'
      BY <1>1 DEF RawInventoryValid
    <2>1. CASE b = a
      BY <1>2, <1>3, <2>1
    <2>2. CASE b # a
      BY <1>3, <1>4, <2>2 DEF Ordered, Accepts, RawInventoryValid
    <2> QED BY <2>1, <2>2
  <1>10. ObservationsValid'
    <2>1. \A s : AttemptsOf(s)' = AttemptsOf(s)
      BY <1>1 DEF AttemptsOf
    <2>2. \A i \in DOMAIN Observations : Observations[i].kind = "terminal" =>
              Observations[i].total \in Nat
              /\ AttemptsOf(Observations[i].session)' = AttemptsOf(Observations[i].session)
      BY <1>1, <2>1 DEF Ordered, Sessions
    <2>3. Len(Usage) <= Len(Usage')
      BY <1>1, Domains
    <2> QED BY <1>1, <1>4, <2>2, <2>3, ObservationsStay DEF Ordered, Accepts
  <1> QED BY <1>5, <1>6, <1>7, <1>8, <1>9, <1>10 DEF Accepts

(* One more row of the audit, valid where it stands. *)
LEMMA AcceptsObservation ==
    ASSUME Kept, Kept', Ordered, NEW row, row.end = "whole", NEW next,
           AppendRow("observations", row, next),
           \A i : i = Len(Observations) + 1 => RowValid(i)'
    PROVE  Accepts'
  <1> DEFINE n == Len(Observations)
  <1>1. /\ Usage' = Usage /\ Outcomes' = Outcomes /\ UNCHANGED raw
        /\ Observations'[n + 1] = row
        /\ DOMAIN Observations' = 1 .. n + 1 /\ Len(Observations') = n + 1
        /\ \A i \in DOMAIN Observations :
              i \in DOMAIN Observations' /\ Observations'[i] = Observations[i]
        /\ DOMAIN Observations = 1 .. n /\ n \in Nat
    <2>1. "observations" \in Files /\ "usage" # "observations" /\ "outcomes" # "observations"
      BY DEF Files
    <2> QED BY <2>1, AppendSpread, Domains DEF Kept, AppendRow
  <1>2. Captured' = Captured /\ Decided' = Decided
    BY <1>1 DEF Captured, Decided
  <1>3. UsageLoads'
    BY <1>1, UsageStays DEF Ordered, Accepts
  <1>4. AuditLoads(Outcomes)'
    BY <1>1 DEF Ordered, Accepts, AuditLoads, Lines
  <1>5. AuditLoads(Observations)'
    <2>1. \A i \in DOMAIN Observations : Observations[i].end = "whole"
      BY DEF Ordered, Accepts, AuditLoads
    <2>2. \A i \in DOMAIN Observations' : Observations'[i].end = "whole"
      BY <1>1, <2>1
    <2>3. \A i \in 1 .. Len(Observations') - 1 : i \in DOMAIN Observations'
      BY <1>1
    <2> QED BY <2>2, <2>3 DEF AuditLoads, Lines
  <1>6. OutcomesValid'
    BY <1>1, OutcomesStay DEF Ordered, Accepts
  <1>7. RawInventoryValid'
    BY <1>1, <1>2 DEF Ordered, Accepts, RawInventoryValid
  <1>8. ObservationsValid'
    <2>1. \A s : AttemptsOf(s)' = AttemptsOf(s)
      BY <1>1 DEF AttemptsOf
    <2>2. ASSUME NEW i \in DOMAIN Observations
          PROVE  RowValid(i)'
      <3>1. Observations[i].kind = "terminal" =>
               Observations[i].total \in Nat
               /\ AttemptsOf(Observations[i].session)' = AttemptsOf(Observations[i].session)
        BY <1>1, <2>1 DEF Ordered, Sessions
      <3>2. RowValid(i)
        BY DEF Ordered, Accepts, ObservationsValid, RowValid
      <3>3. Len(Usage) \in Nat /\ Usage' = Usage /\ Len(Usage) <= Len(Usage')
        BY <1>1, Domains
      <3> QED BY <1>1, <1>2, <3>1, <3>2, <3>3, RowStays
    <2>3. \A i \in DOMAIN Observations' : i \in DOMAIN Observations \/ i = n + 1
      BY <1>1
    <2>4. \A i \in DOMAIN Observations' : RowValid(i)'
      BY <2>2, <2>3
    <2> QED BY <2>4 DEF ObservationsValid, RowValid
  <1> QED BY <1>3, <1>4, <1>5, <1>6, <1>7, <1>8 DEF Accepts

-----------------------------------------------------------------------------
(* The row an action appends, and the history with it.                     *)

LEMMA ObservationAppended ==
    ASSUME Kept, NEW row, NEW next, AppendRow("observations", row, next)
    PROVE  /\ Usage' = Usage /\ Outcomes' = Outcomes /\ UNCHANGED <<raw, pc, run, faults>>
           /\ io = NoRow /\ io.file = None /\ io'.file = "observations" /\ io'.next = next
           /\ Observations'[Len(Observations) + 1] = row
           /\ DOMAIN Observations' = 1 .. Len(Observations) + 1
           /\ Len(Observations') = Len(Observations) + 1
           /\ \A i \in DOMAIN Observations :
                 i \in DOMAIN Observations' /\ Observations'[i] = Observations[i]
           /\ \A i \in DOMAIN Observations' : i \in DOMAIN Observations \/ i = Len(Observations) + 1
           /\ DOMAIN Observations = 1 .. Len(Observations) /\ Len(Observations) \in Nat
  <1>1. "observations" \in Files /\ "usage" # "observations" /\ "outcomes" # "observations"
    BY DEF Files
  <1>2. UNCHANGED <<raw, pc, run, faults>>
    BY DEF AppendRow, history
  <1> QED BY <1>1, <1>2, AppendSpread, Domains DEF Kept

LEMMA DispositionAppended ==
    ASSUME Kept, Kept', Ordered, NEW kind, kind # "terminal", NEW o \in Captured,
           o.access \notin Disposed(Len(Observations)), NEW cmd, NEW reason, NEW next,
           AppendRow("observations", Disposition(kind, o, cmd, reason), next),
           \/ kind = "recovery"
           \/ \A i \in DOMAIN Observations :
                 Observations[i].kind = "terminal" => Observations[i].session # o.session
    PROVE  Accepts'
  <1> DEFINE row == Disposition(kind, o, cmd, reason)
             n == Len(Observations)
  <1>1. /\ row.kind = kind /\ row.session = o.session /\ row.access = o.access /\ row.raw = o.raw
        /\ row.end = "whole"
    BY DEF Disposition
  <1>2. /\ Usage' = Usage /\ Outcomes' = Outcomes
        /\ Observations'[n + 1] = row
        /\ DOMAIN Observations' = 1 .. n + 1
        /\ \A i \in DOMAIN Observations : Observations'[i] = Observations[i]
        /\ DOMAIN Observations = 1 .. n /\ n \in Nat
    BY ObservationAppended
  <1> HIDE DEF row
  <1>3. ASSUME NEW i, i = n + 1 PROVE RowValid(i)'
    <2>1. \A j \in 1 .. i - 1 : j \in DOMAIN Observations /\ Observations'[j] = Observations[j]
      BY <1>2, <1>3
    <2>2. Observations'[i] = row /\ i - 1 = n
      BY <1>2, <1>3
    <2>3. EndedBefore(i)' => kind = "recovery"
      BY <1>1, <2>1, <2>2 DEF EndedBefore
    <2>4. Disposed(i - 1)' = Disposed(n)
      BY <2>1, <2>2 DEF Disposed
    <2>5. HistoryMatches(o)
      BY DEF Ordered, Accepts, OutcomesValid, Captured
    <2>6. \A r : r = row => HistoryMatches(r)'
      BY <1>1, <1>2, <2>5 DEF HistoryMatches
    <2>7. o \in Captured'
      BY <1>2 DEF Captured
    <2>8. DispositionValid(i)'
      BY <1>1, <2>2, <2>3, <2>4, <2>6, <2>7 DEF DispositionValid, HistoryMatches
    <2> QED BY <1>1, <2>2, <2>8 DEF RowValid
  <1>4. AppendRow("observations", row, next)
    BY DEF row
  <1> QED BY <1>1, <1>3, <1>4, AcceptsObservation

Dispositions(s) ==
    {j \in DOMAIN Observations : Observations[j].kind # "terminal" /\ Observations[j].session = s}

LEMMA TerminalAppended ==
    ASSUME Kept, Kept', Ordered, NEW s, NEW cmd, NEW reason, NEW own, NEW all, NEW next,
           AppendRow("observations", Terminal(s, cmd, reason, own, all), next),
           \A i \in DOMAIN Observations :
              Observations[i].kind = "terminal" => Observations[i].session # s,
           all <= Len(Usage),
           AttemptsOf(s) # {} => own = Cardinality(AttemptsOf(s)) /\ all = Max(AttemptsOf(s)),
           reason = "recovered_unclean_session" => cmd = "recovery" /\ AttemptsOf(s) # {},
           Coherent(Terminal(s, cmd, reason, own, all), Dispositions(s))
    PROVE  Accepts'
  <1> DEFINE row == Terminal(s, cmd, reason, own, all)
             n == Len(Observations)
             d == Dispositions(s)
  <1>1. /\ row.kind = "terminal" /\ row.session = s /\ row.command = cmd /\ row.reason = reason
        /\ row.mine = own /\ row.total = all /\ row.end = "whole"
    BY DEF Terminal
  <1>2. /\ Usage' = Usage
        /\ Observations'[n + 1] = row
        /\ DOMAIN Observations' = 1 .. n + 1
        /\ \A i \in DOMAIN Observations : Observations'[i] = Observations[i]
        /\ DOMAIN Observations = 1 .. n /\ n \in Nat
    BY ObservationAppended
  <1>3. Coherent(row, d)
    OBVIOUS
  <1> HIDE DEF row
  <1>4. ASSUME NEW i, i = n + 1 PROVE RowValid(i)'
    <2>1. \A j \in 1 .. i - 1 : j \in DOMAIN Observations /\ Observations'[j] = Observations[j]
      BY <1>2, <1>4
    <2>2. Observations'[i] = row /\ 1 .. i - 1 = DOMAIN Observations
      BY <1>2, <1>4
    <2>3. ~EndedBefore(i)'
      BY <1>1, <2>1, <2>2 DEF EndedBefore
    <2>4. DispositionsBefore(i)' = d
      BY <1>1, <2>1, <2>2 DEF DispositionsBefore, Dispositions
    <2>5. \A j \in d : Observations'[j] = Observations[j]
      BY <1>2 DEF Dispositions
    <2>6. \A r, e : r = row /\ e = d => Coherent(r, e)'
      BY <1>3, <2>5 DEF Coherent
    <2>7. \A r : r = s => AttemptsOf(r)' = AttemptsOf(s)
      BY <1>2 DEF AttemptsOf
    <2>8. TerminalValid(i)'
      BY <1>1, <1>2, <2>2, <2>3, <2>4, <2>6, <2>7 DEF TerminalValid
    <2> QED BY <1>1, <2>2, <2>8 DEF RowValid
  <1>5. AppendRow("observations", row, next)
    BY DEF row
  <1> QED BY <1>1, <1>4, <1>5, AcceptsObservation

-----------------------------------------------------------------------------
(* The appends of a process no call of which has failed.                   *)

LEMMA LargestElement ==
    ASSUME NEW n \in Nat, NEW T, T \subseteq 1 .. n, T # {}
    PROVE  Max(T) \in T /\ \A m \in T : m <= Max(T)
  <1>1. PICK R : /\ IsWellFoundedOn(R, Nat)
                 /\ \A x, y \in Nat : <<y, x>> \in R <=> y < x
    <2>1. IsWellFoundedOn(OpToRel(<, Nat), Nat)
      BY NatLessThanWellFounded
    <2>2. \A x, y \in Nat : <<y, x>> \in OpToRel(<, Nat) <=> y < x
      BY DEF OpToRel
    <2> QED BY <2>1, <2>2, Zenon
  <1> DEFINE U == {k \in Nat : \E m \in T : k = n - m}
  <1>2. U \subseteq Nat /\ U # {}
    <2>1. PICK m \in T : TRUE
      OBVIOUS
    <2>2. n - m \in U
      BY <2>1
    <2> QED BY <2>2
  <1>3. PICK k \in U : \A l \in U : ~(<<l, k>> \in R)
    BY <1>1, <1>2, WFMin
  <1>4. PICK a \in T : k = n - a
    BY <1>3
  <1>5. ASSUME NEW m \in T PROVE a >= m
    <2>1. n - m \in U /\ n - m \in Nat /\ k \in Nat
      BY <1>2, <1>3
    <2>2. ~(n - m < k)
      BY <1>1, <1>3, <2>1
    <2> QED BY <1>4, <2>1, <2>2
  <1>6. \E x \in T : \A y \in T : x >= y
    BY <1>4, <1>5
  <1>7. Max(T) \in T /\ \A m \in T : Max(T) >= m
    BY <1>6 DEF Max
  <1> QED BY <1>7

(* Before its first attempt a process has nothing in the files. *)
LEMMA NothingYet ==
    ASSUME Kept, Ordered, pc = "recovering", io = NoRow
    PROVE  /\ AttemptsOf(run) = {}
           /\ \A i \in DOMAIN Observations : Observations[i].session # run
  <1>0. io.file = None
    BY DEF NoRow
  <1>1. Cardinality(AttemptsOf(run)) = 0
    BY <1>0 DEF Ordered, Tallied, OnItsWay, None
  <1>2. IsFiniteSet(AttemptsOf(run))
    <2>1. AttemptsOf(run) \subseteq 1 .. Len(Usage) /\ Len(Usage) \in Nat
      BY Domains DEF AttemptsOf
    <2>2. IsFiniteSet(1 .. Len(Usage))
      BY <2>1, FS_Interval
    <2> QED BY <2>1, <2>2, FS_Subset
  <1>3. AttemptsOf(run) = {}
    BY <1>1, <1>2, FS_EmptySet
  <1>4. ASSUME NEW i \in DOMAIN Observations, Observations[i].session = run PROVE FALSE
    <2>1. CASE Observations[i].kind = "terminal"
      BY <1>0, <1>4, <2>1 DEF Ordered, Sessions, None
    <2>2. CASE Observations[i].kind # "terminal"
      <3>1. HistoryMatches(Observations[i])
        BY <2>2 DEF Ordered, Accepts, ObservationsValid, DispositionValid
      <3> QED BY <1>3, <1>4, <3>1 DEF HistoryMatches, AttemptsOf
    <2> QED BY <2>1, <2>2
  <1> QED BY <1>3, <1>4

(* Parts of Ordered that an append elsewhere leaves alone. *)
LEMMA TalliedKept ==
    ASSUME Ordered, io = NoRow, Usage' = Usage, UNCHANGED <<pc, run, mine, total>>, io'.file # "usage"
    PROVE  Tallied'
  <1>1. \A s : AttemptsOf(s)' = AttemptsOf(s)
    BY DEF AttemptsOf
  <1>2. io.file # "usage"
    BY DEF NoRow, None
  <1>3. OnItsWay' = OnItsWay
    BY <1>2 DEF OnItsWay
  <1>4. AttemptsOf(run)' = AttemptsOf(run)
    BY <1>1
  <1> QED BY <1>3, <1>4 DEF Ordered, Tallied

LEMMA ReserveOrders ==
    ASSUME Kept, Kept', LedgerInv, LedgerInv', Ordered, Reserve
    PROVE  Ordered'
  <1> DEFINE n == Len(Usage)
  <1>1. /\ AppendRow("usage", Reservation(run, mine + 1, total + 1), "reserved")
        /\ pc \in {"idle", "polling"} /\ UNCHANGED <<pc, run, command, mine, total, found>>
    BY DEF Reserve, AppendRow, history, memory
  <1>2. /\ Outcomes' = Outcomes /\ Observations' = Observations
        /\ Usage'[n + 1] = Reservation(run, mine + 1, total + 1)
        /\ DOMAIN Usage' = 1 .. n + 1 /\ Len(Usage') = n + 1
        /\ \A i \in DOMAIN Usage : i \in DOMAIN Usage' /\ Usage'[i] = Usage[i]
        /\ DOMAIN Usage = 1 .. n /\ n \in Nat /\ io.file # "usage" /\ io = NoRow
        /\ io'.file = "usage" /\ io.file = None
    <2>1. "usage" \in Files /\ "usage" # "outcomes" /\ "usage" # "observations" /\ None # "usage"
      BY DEF Files, None
    <2> QED BY <1>1, <2>1, AppendSpread, Domains DEF Kept
  <1>3. /\ n = total /\ Cardinality(AttemptsOf(run)) = mine /\ run > 0
        /\ mine \in Nat /\ total \in Nat /\ run \in Nat
    <2>1. mine \in Nat /\ total \in Nat /\ run \in Nat
      BY TrialLedgerAssumption DEF LedgerInv, Counted
    <2>2. OnItsWay = 0
      BY <1>2 DEF OnItsWay
    <2>3. n = total + OnItsWay /\ Cardinality(AttemptsOf(run)) = mine + OnItsWay /\ run > 0
      BY <1>1 DEF Ordered, Tallied
    <2> QED BY <2>1, <2>2, <2>3
  <1>4. Usage'[n + 1].session = run /\ Usage'[n + 1].end = "whole"
    BY <1>2 DEF Reservation
  <1>5. Tallied'
    <2>1. \A i \in DOMAIN Usage' : Usage'[i].session \in 1 .. run /\ Usage'[i].end = "whole"
      <3>1. \A i \in DOMAIN Usage' : i \in DOMAIN Usage \/ i = n + 1
        BY <1>2
      <3> QED BY <1>2, <1>3, <1>4, <3>1 DEF Ordered, Tallied
    <2>2. /\ AttemptsOf(run)' = AttemptsOf(run) \cup {n + 1}
          /\ Cardinality(AttemptsOf(run)') = Cardinality(AttemptsOf(run)) + 1
      BY <1>1, <1>2, <1>4, AttemptsGrow
    <2>3. OnItsWay' = 1
      BY <1>2 DEF OnItsWay
    <2> QED BY <1>1, <1>2, <1>3, <2>1, <2>2, <2>3 DEF Tallied
  <1>6. Sessions'
    BY <1>1, <1>2 DEF Ordered, Sessions, None
  <1>7. Fresh'
    <2>1. Decided' = Decided /\ Decided \subseteq DOMAIN Usage
      BY <1>2 DEF Decided, Ordered, Accepts, OutcomesValid, HistoryMatches
    <2>2. Len(Usage') \notin Decided'
      BY <1>2, <2>1
    <2> QED BY <1>1, <1>2, <2>2 DEF Fresh, Open
  <1>8. Shown' /\ Commanded'
    BY <1>1, <1>2 DEF Ordered, Shown, Commanded, None
  <1> QED BY <1>5, <1>6, <1>7, <1>8, AcceptsReserve DEF Ordered

LEMMA ObservationOrders ==
    ASSUME Kept, LedgerInv, Ordered, Accepts', UNCHANGED <<mine, total, command>>,
           NEW row, NEW next, AppendRow("observations", row, next),
           pc \notin Open \cup {"down"},
           row.kind = "terminal" =>
              /\ row.session \in 1 .. run /\ row.total \in Nat
              /\ row.session = run => next = "down",
           row.kind # "terminal" /\ row.session = run /\ pc # "recovering" =>
              row.kind # "recovery" /\ row.command = command,
           pc = "captured" /\ next = "shown" =>
              row.kind = "observation" /\ row.session = run /\ row.found = found',
           Commanded'
    PROVE  Ordered'
  <1> DEFINE n == Len(Observations)
  <1>1. /\ Usage' = Usage /\ Outcomes' = Outcomes /\ UNCHANGED <<raw, pc, run, faults>>
        /\ io = NoRow /\ io.file = None /\ io'.file = "observations" /\ io'.next = next
        /\ Observations'[n + 1] = row
        /\ DOMAIN Observations' = 1 .. n + 1
        /\ Len(Observations') = n + 1
        /\ \A i \in DOMAIN Observations : Observations'[i] = Observations[i]
        /\ \A i \in DOMAIN Observations' : i \in DOMAIN Observations \/ i = n + 1
        /\ n \in Nat
    BY ObservationAppended
  <1>2. Tallied'
    BY <1>1, TalliedKept
  <1>3. Sessions'
    <2> SUFFICES ASSUME NEW i \in DOMAIN Observations'
                 PROVE  /\ Observations'[i].kind = "terminal" =>
                             /\ Observations'[i].session \in 1 .. run
                             /\ Observations'[i].total \in Nat
                             /\ Observations'[i].session = run => next = "down"
                        /\ Observations'[i].kind # "terminal" /\ Observations'[i].session = run
                           /\ pc \notin {"down", "recovering"} =>
                             Observations'[i].kind # "recovery" /\ Observations'[i].command = command
      BY <1>1 DEF Sessions
    <2>1. CASE i = n + 1
      BY <1>1, <2>1
    <2>2. CASE i \in DOMAIN Observations
      BY <1>1, <2>2 DEF Ordered, Sessions, None
    <2> QED BY <1>1, <2>1, <2>2
  <1>4. Fresh'
    BY <1>1 DEF Fresh
  <1>5. Shown'
    <2>1. n + 1 \in DOMAIN Observations'
      BY <1>1
    <2> QED BY <1>1, <2>1 DEF Shown
  <1> QED BY <1>2, <1>3, <1>4, <1>5 DEF Ordered

LEMMA OutcomeOrders ==
    ASSUME Kept, Kept', LedgerInv, Ordered, UNCHANGED <<mine, total, command, found>>,
           NEW a \in DOMAIN Usage \ Decided, NEW outcome, NEW next,
           AppendRow("outcomes", Outcome(Usage[a].session, a, outcome), next),
           pc \in {"recovering", "persisted", "failed"}, pc = "persisted" => a = total
    PROVE  Ordered'
  <1>1. /\ Usage' = Usage /\ Observations' = Observations /\ UNCHANGED <<pc, run>>
        /\ io = NoRow /\ io.file = None /\ io'.file = "outcomes"
    <2>1. "outcomes" \in Files /\ "usage" # "outcomes" /\ "outcomes" # "observations"
      BY DEF Files
    <2> QED BY <2>1, AppendSpread DEF Kept, AppendRow, history
  <1>2. Accepts'
    BY AcceptsOutcome
  <1>3. Tallied'
    BY <1>1, TalliedKept
  <1>4. Sessions'
    BY <1>1 DEF Ordered, Sessions, None
  <1>5. Fresh'
    <2>1. pc = "persisted" => total \notin Disposed(Len(Observations))
      <3> SUFFICES ASSUME pc = "persisted", NEW j \in 1 .. Len(Observations),
                          Observations[j].kind # "terminal", Observations[j].access = total
                   PROVE  FALSE
        BY DEF Disposed
      <3>1. \E o \in Captured : o.access = total
        BY Domains DEF Ordered, Accepts, ObservationsValid, DispositionValid
      <3> QED BY <3>1 DEF Captured, Decided
    <2>2. Disposed(Len(Observations))' = Disposed(Len(Observations))
      BY <1>1 DEF Disposed
    <2> QED BY <1>1, <2>1, <2>2 DEF Fresh
  <1>6. Shown' /\ Commanded'
    BY <1>1 DEF Ordered, Shown, Commanded
  <1> QED BY <1>2, <1>3, <1>4, <1>5, <1>6 DEF Ordered

LEMMA RecoverOrders ==
    ASSUME Kept, Kept', LedgerInv, Ordered, Recover
    PROVE  Ordered'
  <1>1. /\ pc = "recovering" /\ io = NoRow
        /\ UNCHANGED <<pc, command, mine, total, found>>
    BY DEF Recover, AppendRow, memory
  <1>2. Commanded'
    BY <1>1 DEF Ordered, Commanded
  <1>3. CASE Missing # {}
    <2>1. PICK a \in Missing :
             AppendRow("outcomes", Outcome(Usage[a].session, a, "uncertain"), "recovering")
      BY <1>3 DEF Recover
    <2> QED BY <1>1, <2>1, OutcomeOrders DEF Missing
  <1>4. CASE Missing = {} /\ Undisposed # {}
    <2>1. PICK o \in Undisposed :
             AppendRow("observations", Disposition("recovery", o, None, None), "recovering")
      BY <1>4 DEF Recover
    <2>2. o \in Captured /\ o.access \notin Disposed(Len(Observations))
      BY DEF Undisposed
    <2>3. Accepts'
      BY <2>1, <2>2, DispositionAppended
    <2> DEFINE row == Disposition("recovery", o, None, None)
    <2>4. row.kind = "recovery"
      BY DEF Disposition
    <2>5. AppendRow("observations", row, "recovering")
      BY <2>1
    <2> HIDE DEF row
    <2> QED BY <1>1, <1>2, <2>3, <2>4, <2>5, ObservationOrders DEF Open
  <1>5. CASE Missing = {} /\ Undisposed = {}
    <2>1. PICK s \in Unclean :
             AppendRow("observations",
                    Terminal(s, "recovery", "recovered_unclean_session",
                             Cardinality(AttemptsOf(s)), Max(AttemptsOf(s))),
                    "recovering")
      BY <1>5 DEF Recover
    <2>2. /\ AttemptsOf(s) # {} /\ s \in 1 .. run
          /\ \A i \in DOMAIN Observations :
                Observations[i].kind = "terminal" => Observations[i].session # s
      BY DEF Unclean, Range, AttemptsOf, Ordered, Tallied
    <2>3. Max(AttemptsOf(s)) \in 1 .. Len(Usage) /\ Len(Usage) \in Nat
      <3>1. AttemptsOf(s) \subseteq 1 .. Len(Usage) /\ Len(Usage) \in Nat
        BY Domains DEF AttemptsOf
      <3> QED BY <2>2, <3>1, LargestElement
    <2> DEFINE own == Cardinality(AttemptsOf(s))
               all == Max(AttemptsOf(s))
               row == Terminal(s, "recovery", "recovered_unclean_session", own, all)
    <2>4. row.kind = "terminal" /\ row.session = s /\ row.total = all
          /\ row.command = "recovery" /\ row.reason = "recovered_unclean_session"
      BY DEF Terminal
    <2>5. Coherent(row, Dispositions(s))
      BY <2>4 DEF Coherent
    <2>6. Accepts'
      <3>1. all <= Len(Usage)
        BY <2>3
      <3> QED BY <2>1, <2>2, <2>5, <3>1, TerminalAppended
    <2>7. s # run
      BY <1>1, <2>2, NothingYet
    <2>8. AppendRow("observations", row, "recovering") /\ all \in Nat
      BY <2>1, <2>3
    <2> HIDE DEF row, all, own
    <2> QED BY <1>1, <1>2, <2>2, <2>4, <2>6, <2>7, <2>8, ObservationOrders DEF Open
  <1> QED BY <1>3, <1>4, <1>5

LEMMA NotEnded ==
    ASSUME Sessions, io = NoRow, pc # "down"
    PROVE  \A i \in DOMAIN Observations :
              Observations[i].kind = "terminal" => Observations[i].session # run
  BY DEF Sessions, NoRow, None

LEMMA RecordOrders ==
    ASSUME Kept, Kept', LedgerInv, Ordered, RecordCaptured \/ RecordFailed
    PROVE  Ordered'
  <1>1. /\ UNCHANGED <<mine, total, command, found>> /\ pc \in {"persisted", "failed"}
        /\ \E outcome, next : AppendRow("outcomes", Outcome(run, total, outcome), next)
    BY DEF RecordCaptured, RecordFailed, memory
  <1>2. PICK outcome, next : AppendRow("outcomes", Outcome(run, total, outcome), next)
    BY <1>1
  <1>3. total \in DOMAIN Usage /\ Usage[total].session = run
    BY <1>1 DEF Kept, Reserved, Open
  <1>4. io.file # "outcomes"
    BY <1>2, AppendIs DEF AppendRow, NoRow, None
  <1>5. total \notin Decided
    BY <1>1, <1>4 DEF Ordered, Fresh, Open
  <1>6. AppendRow("outcomes", Outcome(Usage[total].session, total, outcome), next)
    BY <1>2, <1>3
  <1> QED BY <1>1, <1>3, <1>5, <1>6, OutcomeOrders

LEMMA DispositionOrders ==
    ASSUME Kept, Kept', LedgerInv, Ordered, ParserFailure \/ Observe
    PROVE  Ordered'
  <1>1. pc = "captured" /\ UNCHANGED <<mine, total, command>>
    BY DEF ParserFailure, Observe, memory
  <1>2. PICK kind, next, reason :
           /\ AppendRow("observations", Disposition(kind, ThisCapture, command, reason), next)
           /\ kind \in {"parser_failure", "observation"}
           /\ next = "shown" => kind = "observation" /\ reason = found'
           /\ found' = found \/ found' \in IF command = "list_live" THEN {None} ELSE {None, "closed"}
    <2>1. CASE ParserFailure
      BY <2>1 DEF ParserFailure, memory
    <2>2. CASE Observe
      BY <2>2 DEF Observe
    <2> QED BY <2>1, <2>2
  <1> DEFINE o == ThisCapture
             row == Disposition(kind, o, command, reason)
  <1>3. o \in Captured /\ o.access = total
    BY <1>1 DEF Kept, Reserved, ThisCapture
  <1>4. o.session = run
    <2>1. HistoryMatches(o)
      BY <1>3 DEF Ordered, Accepts, OutcomesValid, Captured
    <2> QED BY <1>1, <1>3, <2>1 DEF HistoryMatches, Kept, Reserved
  <1>5. io = NoRow /\ io.file # "observations" /\ UNCHANGED <<pc, run>>
    BY <1>2 DEF AppendRow, NoRow, None, history
  <1>6. o.access \notin Disposed(Len(Observations))
    BY <1>1, <1>3, <1>5 DEF Ordered, Fresh
  <1>7. \A i \in DOMAIN Observations :
           Observations[i].kind = "terminal" => Observations[i].session # o.session
    BY <1>1, <1>4, <1>5, NotEnded DEF Ordered
  <1> HIDE DEF o
  <1>8. AppendRow("observations", row, next)
    BY <1>2 DEF o
  <1>9. Accepts'
    BY <1>2, <1>3, <1>6, <1>7, <1>8, DispositionAppended
  <1>10. row.kind = kind /\ row.session = run /\ row.command = command /\ row.found = reason
    BY <1>4 DEF Disposition
  <1>11. Commanded'
    BY <1>1, <1>2, <1>5 DEF Ordered, Commanded
  <1> HIDE DEF row
  <1> QED BY <1>1, <1>2, <1>8, <1>9, <1>10, <1>11, ObservationOrders DEF Open

LEMMA LastAttempt ==
    ASSUME Kept, Tallied, AttemptsOf(run) # {}
    PROVE  Max(AttemptsOf(run)) = Len(Usage)
  <1> DEFINE own == AttemptsOf(run)
  <1>1. own \subseteq 1 .. Len(Usage) /\ Len(Usage) \in Nat
    BY Domains DEF AttemptsOf
  <1>2. Len(Usage) \in own
    BY DEF Tallied
  <1>3. Max(own) \in own /\ \A m \in own : m <= Max(own)
    BY <1>1, LargestElement
  <1>4. Max(own) <= Len(Usage) /\ Len(Usage) <= Max(own) /\ Max(own) \in Nat
    BY <1>1, <1>2, <1>3
  <1> QED BY <1>1, <1>4

LEMMA EndOrders ==
    ASSUME Kept, Kept', LedgerInv, Ordered, NEW reason, End(reason),
           pc \notin Open \cup {"down", "recovering"},
           \/ reason \in {"operator_interrupt", "halted"}
           \/ /\ pc \in {"shown", "polling"}
              /\ \/ reason = "list_complete" /\ command = "list_live"
                 \/ reason = "check_complete" /\ command = "check" /\ found = None
                 \/ reason = "duration_elapsed" /\ command = "observe"
                 \/ reason = "closed" /\ found = "closed"
    PROVE  Ordered'
  <1> DEFINE row == Terminal(run, command, reason, mine, total)
             d == Dispositions(run)
  <1>1. /\ UNCHANGED <<mine, total, command, found>> /\ AppendRow("observations", row, "down")
        /\ UNCHANGED <<pc, run>>
    BY DEF End, memory, AppendRow, history
  <1>2. /\ row.kind = "terminal" /\ row.session = run /\ row.command = command
        /\ row.reason = reason /\ row.total = total
    BY DEF Terminal
  <1>3. io = NoRow /\ io.file = None
    BY <1>1 DEF AppendRow, NoRow
  <1>4. command \in Commands /\ found \in {None, "closed"}
        /\ (found # None => command # "list_live")
    BY DEF Ordered, Commanded
  <1>5. \A i \in DOMAIN Observations :
           Observations[i].kind = "terminal" => Observations[i].session # run
    BY <1>3, NotEnded DEF Ordered
  <1>6. /\ mine \in Nat /\ total \in Nat /\ run \in Nat /\ run > 0
        /\ Len(Usage) = total /\ Cardinality(AttemptsOf(run)) = mine
    <2>1. mine \in Nat /\ total \in Nat /\ run \in Nat
      BY TrialLedgerAssumption DEF LedgerInv, Counted
    <2>2. OnItsWay = 0
      BY <1>3 DEF OnItsWay, None
    <2>3. Len(Usage) = total + OnItsWay /\ Cardinality(AttemptsOf(run)) = mine + OnItsWay /\ run > 0
      BY DEF Ordered, Tallied
    <2> QED BY <2>1, <2>2, <2>3
  <1>7. AttemptsOf(run) # {} => total = Max(AttemptsOf(run))
    BY <1>6, LastAttempt DEF Ordered
  <1>8. pc \in {"shown", "polling"} =>
           \E j \in d :
              /\ \A k \in d : k <= j
              /\ Observations[j].kind = "observation"
              /\ Observations[j].found = found
    <2> SUFFICES ASSUME pc \in {"shown", "polling"}
                 PROVE  \E j \in d :
                           /\ \A k \in d : k <= j
                           /\ Observations[j].kind = "observation"
                           /\ Observations[j].found = found
      OBVIOUS
    <2> DEFINE n == Len(Observations)
    <2>1. /\ n \in DOMAIN Observations /\ Observations[n].kind = "observation"
          /\ Observations[n].session = run /\ Observations[n].found = found
      BY <1>3 DEF Ordered, Shown, None
    <2>2. n \in d
      BY <2>1 DEF Dispositions
    <2>3. \A k \in d : k <= n
      BY Domains DEF Dispositions
    <2> QED BY <2>1, <2>2, <2>3
  <1>9. \A j \in d : Observations[j].kind # "recovery" /\ Observations[j].command = command
    BY DEF Dispositions, Ordered, Sessions
  <1>10. command # "recovery"
    BY <1>4 DEF Commands
  <1> HIDE DEF row, d
  <1>11. Coherent(row, d)
    <2>1. CASE reason \in {"operator_interrupt", "halted"}
      BY <1>2, <1>9, <1>10, <2>1 DEF Coherent
    <2>2. CASE pc \in {"shown", "polling"} /\ reason = "list_complete" /\ command = "list_live"
      BY <1>2, <1>4, <1>8, <1>9, <1>10, <2>2 DEF Coherent
    <2>3. CASE pc \in {"shown", "polling"} /\ reason = "check_complete" /\ command = "check" /\ found = None
      BY <1>2, <1>4, <1>8, <1>9, <1>10, <2>3 DEF Coherent
    <2>4. CASE pc \in {"shown", "polling"} /\ reason = "duration_elapsed" /\ command = "observe"
      BY <1>2, <1>4, <1>8, <1>9, <1>10, <2>4 DEF Coherent
    <2>5. CASE pc \in {"shown", "polling"} /\ reason = "closed" /\ found = "closed"
      BY <1>2, <1>4, <1>8, <1>9, <1>10, <2>5 DEF Coherent, None
    <2> QED BY <2>1, <2>2, <2>3, <2>4, <2>5
  <1>12. reason # "recovered_unclean_session"
    OBVIOUS
  <1>13. Accepts'
    <2>1. total <= Len(Usage)
      BY <1>6
    <2> QED BY <1>1, <1>5, <1>6, <1>7, <1>11, <1>12, <2>1, TerminalAppended DEF row, d
  <1>14. Commanded'
    BY <1>1 DEF Ordered, Commanded
  <1>15. run \in 1 .. run
    BY <1>6
  <1> QED BY <1>1, <1>2, <1>6, <1>13, <1>14, <1>15, ObservationOrders

LEMMA EndsOrder ==
    ASSUME Kept, Kept', LedgerInv, Ordered, Stop \/ Halt \/ Complete \/ DurationElapsed
    PROVE  Ordered'
  <1>0. found \in {None, "closed"} /\ (pc = "polling" => command = "observe")
        /\ (pc = "shown" => command \in Commands)
    BY DEF Ordered, Commanded
  <1>1. CASE Stop
    BY <1>1, EndOrders DEF Stop, Open
  <1>2. CASE Halt
    BY <1>2, EndOrders DEF Halt, Open
  <1>3. CASE Complete
    <2>1. pc = "shown" /\ (command = "observe" => found = "closed") /\ command \in Commands
      BY <1>0, <1>3 DEF Complete
    <2>2. CASE found = "closed"
      <3>1. End("closed")
        BY <1>3, <2>2 DEF Complete
      <3> QED BY <2>1, <2>2, <3>1, EndOrders DEF Open
    <2>3. CASE found = None /\ command = "check"
      <3>1. End("check_complete")
        BY <1>3, <2>3 DEF Complete, None
      <3> QED BY <2>1, <2>3, <3>1, EndOrders DEF Open
    <2>4. CASE found = None /\ command = "list_live"
      <3>1. End("list_complete")
        BY <1>3, <2>4 DEF Complete, None
      <3> QED BY <2>1, <2>4, <3>1, EndOrders DEF Open
    <2> QED BY <1>0, <2>1, <2>2, <2>3, <2>4 DEF Commands, None
  <1>4. CASE DurationElapsed
    <2>1. pc = "polling" /\ End("duration_elapsed") /\ command = "observe"
      BY <1>0, <1>4 DEF DurationElapsed
    <2> QED BY <2>1, EndOrders DEF Open
  <1> QED BY <1>1, <1>2, <1>3, <1>4

-----------------------------------------------------------------------------
(* The other steps, and the theorems.                                      *)

(* The steps that write no row. *)
LEMMA MovesAccept ==
    ASSUME Kept, Kept', LedgerInv, Ordered, Moves, ~RawFails
    PROVE  Accepts'
  <1>1. RowsStay /\ io.file = None
    BY MovesLeaveRows, MoveIs
  <1>2. CASE CreateRaw \/ WriteRaw
    <2>1. pc \in Open /\ \E x : raw' = [raw EXCEPT ![total] = x]
      BY <1>2 DEF CreateRaw, WriteRaw, Goto, Open
    <2>2. total \in DOMAIN Usage \ Decided
      BY <1>1, <2>1 DEF Kept, Reserved, Ordered, Fresh, None
    <2>3. Decided \subseteq Attempts
      <3>1. Decided \subseteq DOMAIN Usage
        BY DEF Decided, Ordered, Accepts, OutcomesValid, HistoryMatches
      <3>2. Len(Usage) <= AccessLimit
        BY DEF LedgerInv, Filed
      <3> QED BY <3>1, <3>2, Domains, TrialLedgerAssumption DEF Attempts
    <2>4. \A a \in Attempts : a # total => raw'[a] = raw[a]
      BY <2>1 DEF Kept, Stored
    <2>5. /\ \A a \in Attempts : a \in DOMAIN Usage \ Decided \/ raw'[a] = raw[a]
          /\ \A a \in Decided : raw'[a] = raw[a]
      BY <2>2, <2>3, <2>4
    <2> QED BY <1>1, <2>5, AcceptsStays DEF Ordered
  <1>3. CASE ~(CreateRaw \/ WriteRaw)
    <2>1. UNCHANGED raw
      BY <1>3 DEF Moves, Begin, Recovered, Send, RequestFails, SyncRaw, Poll, Goto, disk
    <2> QED BY <1>1, <2>1, AcceptsStays DEF Ordered
  <1> QED BY <1>2, <1>3

LEMMA BeginOrders ==
    ASSUME Kept, Kept', LedgerInv, Ordered, Begin
    PROVE  Ordered'
  <1>1. /\ pc = "down" /\ pc' = "recovering" /\ run' = run + 1 /\ total' = Len(Usage)
        /\ UNCHANGED <<files, io, command, mine, found>>
    BY DEF Begin, disk
  <1>2. Moves /\ ~RawFails
    BY DEF Moves, Begin, RawFails, Goto
  <1>3. RowsStay /\ io.file = None /\ Accepts'
    BY <1>2, MovesLeaveRows, MoveIs, MovesAccept
  <1>4. run \in Nat /\ Len(Usage) \in Nat /\ mine = 0
    BY <1>1, Domains DEF LedgerInv, Counted, Ordered, Tallied
  <1>5. Tallied'
    <2>1. \A i \in DOMAIN Usage : Usage[i].session \in 1 .. run
      BY DEF Ordered, Tallied
    <2>2. AttemptsOf(run)' = {}
      BY <1>1, <1>3, <1>4, <2>1 DEF AttemptsOf, RowsStay
    <2>3. Cardinality(AttemptsOf(run)') = 0
      BY <2>2, FS_EmptySet
    <2>4. OnItsWay' = 0
      BY <1>1, <1>3 DEF OnItsWay, None
    <2>5. \A i \in DOMAIN Usage' : Usage'[i].session \in 1 .. run' /\ Usage'[i].end = "whole"
      BY <1>1, <1>3, <1>4 DEF Ordered, Tallied, RowsStay
    <2> QED BY <1>1, <1>3, <1>4, <2>2, <2>3, <2>4, <2>5 DEF Tallied, RowsStay
  <1>6. Sessions'
    BY <1>1, <1>3, <1>4 DEF Ordered, Sessions, RowsStay
  <1>7. Fresh' /\ Shown'
    BY <1>1, <1>3 DEF Fresh, Shown, Open, None
  <1>8. Commanded'
    BY <1>1 DEF Ordered, Commanded
  <1> QED BY <1>3, <1>5, <1>6, <1>7, <1>8 DEF Ordered

LEMMA MoveOrders ==
    ASSUME Kept, Kept', LedgerInv, Ordered, Moves, ~RawFails, ~Begin
    PROVE  Ordered'
  <1>1. RowsStay /\ io = NoRow /\ io.file = None /\ io' = io /\ Accepts'
    BY MovesLeaveRows, MoveIs, MovesAccept
  <1>2. /\ pc # "down" /\ pc' # "down" /\ pc' # "recovering" /\ UNCHANGED <<run, mine, total, found>>
        /\ pc' \in Open => pc \in Open
        /\ pc' # "captured"
        /\ pc' \in {"shown", "polling"} => pc = "shown"
        /\ pc' = "polling" => command = "observe"
        /\ IF pc = "recovering" THEN command' \in Commands ELSE command' = command
    BY DEF Moves, Recovered, Send, RequestFails, CreateRaw, WriteRaw, SyncRaw, Poll, Goto, memory,
           history, Open
  <1>3. Tallied'
    <2>1. AttemptsOf(run)' = AttemptsOf(run)
      BY <1>1, <1>2 DEF AttemptsOf, RowsStay
    <2>2. OnItsWay' = OnItsWay
      BY <1>1 DEF OnItsWay
    <2> QED BY <1>1, <1>2, <2>1, <2>2 DEF Ordered, Tallied, RowsStay
  <1>4. Sessions'
    <2>1. CASE pc = "recovering"
      <3>1. \A i \in DOMAIN Observations : Observations[i].session # run
        BY <1>1, <2>1, NothingYet
      <3> QED BY <1>1, <1>2, <3>1 DEF Ordered, Sessions, RowsStay
    <2>2. CASE pc # "recovering"
      BY <1>1, <1>2, <2>2 DEF Ordered, Sessions, RowsStay
    <2> QED BY <2>1, <2>2
  <1>5. Fresh'
    <2>1. Decided' = Decided
      BY <1>1 DEF Decided, RowsStay
    <2> QED BY <1>1, <1>2, <2>1 DEF Ordered, Fresh, None
  <1>6. Shown'
    BY <1>1, <1>2 DEF Ordered, Shown, RowsStay, None
  <1>7. Commanded'
    BY <1>2 DEF Ordered, Commanded
  <1> QED BY <1>1, <1>3, <1>4, <1>5, <1>6, <1>7 DEF Ordered

(* A row that becomes durable. *)
LEMMA SyncOrders ==
    ASSUME Kept, Kept', LedgerInv, Ordered, SyncRow
    PROVE  Ordered'
  <1>1. /\ RowsStay /\ io # NoRow /\ io.file \in Files /\ pc' = io.next
        /\ UNCHANGED <<raw, run>> /\ io' = NoRow /\ io'.file = None /\ pc # "down"
        /\ (pc = "recovering" <=> io.next = "recovering")
    BY SyncLeavesRows DEF Kept, Writing, LedgerInv, Appending
  <1>2. Accepts'
    BY <1>1, AcceptsStays DEF Ordered
  <1>3. /\ \A s : AttemptsOf(s)' = AttemptsOf(s)
        /\ OnItsWay' = 0 /\ Decided' = Decided
        /\ Disposed(Len(Observations))' = Disposed(Len(Observations))
    BY <1>1 DEF AttemptsOf, OnItsWay, Decided, Disposed, RowsStay, None
  <1>4. AttemptsOf(run)' = AttemptsOf(run)
    BY <1>1, <1>3
  <1>5. /\ \A i \in DOMAIN Usage' : Usage'[i].session \in 1 .. run' /\ Usage'[i].end = "whole"
        /\ AttemptsOf(run)' # {} => Len(Usage') \in AttemptsOf(run)'
        /\ run' > 0
        /\ Len(Usage') = total + OnItsWay
        /\ Cardinality(AttemptsOf(run)') = mine + OnItsWay
    BY <1>1, <1>4 DEF Ordered, Tallied, RowsStay
  <1>6. CASE io.file = "usage"
    <2>1. /\ io.next = "reserved" /\ pc \in {"idle", "polling"}
          /\ mine' = mine + 1 /\ total' = total + 1 /\ UNCHANGED <<command, found>>
      BY <1>6 DEF SyncRow, LedgerInv, Appending
    <2>2. mine \in Nat /\ total \in Nat /\ Len(Usage') = total'
      BY <1>5, <1>6, <2>1, TrialLedgerAssumption DEF LedgerInv, Counted, OnItsWay
    <2>3. Tallied'
      BY <1>1, <1>3, <1>5, <1>6, <2>1, <2>2 DEF Tallied, OnItsWay
    <2>4. Sessions'
      BY <1>1, <1>6, <2>1 DEF Ordered, Sessions, RowsStay
    <2>5. Fresh'
      <3>1. Len(Usage) \notin Decided
        BY <1>6 DEF Ordered, Fresh
      <3>2. total' \notin Decided'
        BY <1>1, <1>3, <2>2, <3>1 DEF RowsStay
      <3> QED BY <1>1, <2>1, <3>2 DEF Fresh, None
    <2>6. Shown' /\ Commanded'
      BY <1>1, <2>1 DEF Ordered, Shown, Commanded
    <2> QED BY <1>2, <2>3, <2>4, <2>5, <2>6 DEF Ordered
  <1>7. CASE io.file # "usage" /\ io.next = "down"
    <2>1. Forgotten
      BY <1>7 DEF SyncRow
    <2>2. Tallied'
      BY <1>1, <1>5, <1>7, <2>1 DEF Tallied, Forgotten
    <2>3. Sessions'
      BY <1>1, <1>7 DEF Ordered, Sessions, RowsStay
    <2>4. Fresh' /\ Shown' /\ Commanded'
      BY <1>1, <1>7, <2>1 DEF Fresh, Shown, Commanded, Forgotten, Open, None
    <2> QED BY <1>2, <2>2, <2>3, <2>4 DEF Ordered
  <1>8. CASE io.file # "usage" /\ io.next # "down"
    <2>1. UNCHANGED <<command, mine, total, found>>
      BY <1>8 DEF SyncRow, memory
    <2>2. OnItsWay = 0 /\ mine \in Nat /\ total \in Nat
      BY <1>8, TrialLedgerAssumption DEF OnItsWay, LedgerInv, Counted
    <2>3. Tallied'
      <3>1. mine' = 0 \/ pc' \notin {"down", "recovering"}
        BY <1>1, <1>8, <2>1 DEF Ordered, Tallied
      <3> QED BY <1>1, <1>3, <1>5, <1>8, <2>1, <2>2, <3>1 DEF Tallied
    <2>4. Sessions'
      BY <1>1, <1>8, <2>1 DEF Ordered, Sessions, RowsStay
    <2>5. /\ pc' \in {"recovering", "captured", "erred", "shown"}
          /\ pc' = "captured" => io.file = "outcomes" /\ pc = "persisted"
          /\ pc' = "shown" => io.file = "observations" /\ pc = "captured"
      BY <1>1, <1>8 DEF Kept, Writing, Files
    <2>6. Fresh'
      BY <1>1, <1>3, <2>1, <2>5 DEF Ordered, Fresh, Open, None
    <2>7. Shown'
      BY <1>1, <2>1, <2>5 DEF Ordered, Shown, RowsStay, None
    <2>8. Commanded'
      BY <1>1, <2>1, <2>5 DEF Ordered, Commanded
    <2> QED BY <1>2, <2>3, <2>4, <2>6, <2>7, <2>8 DEF Ordered
  <1> QED BY <1>6, <1>7, <1>8

LEMMA CrashOrders ==
    ASSUME Kept, Kept', LedgerInv, Ordered, Crash
    PROVE  Ordered'
  <1>1. /\ pc' = "down" /\ io'.file = None /\ Forgotten /\ RowsStay
        /\ UNCHANGED <<raw, run>>
    BY DEF Crash, disk, history, RowsStay, Usage, Outcomes, Observations, NoRow
  <1>2. Accepts'
    BY <1>1, AcceptsStays DEF Ordered
  <1>3. Tallied'
    <2>1. AttemptsOf(run)' = AttemptsOf(run)
      BY <1>1 DEF AttemptsOf, RowsStay
    <2> QED BY <1>1, <2>1 DEF Ordered, Tallied, Forgotten, RowsStay
  <1>4. Sessions'
    BY <1>1 DEF Ordered, Sessions, RowsStay
  <1>5. Fresh' /\ Shown' /\ Commanded'
    BY <1>1 DEF Fresh, Shown, Commanded, Forgotten, Open, None
  <1> QED BY <1>2, <1>3, <1>4, <1>5 DEF Ordered

LEMMA OrderlyStep ==
    ASSUME Kept, Kept', LedgerInv, LedgerInv', Orderly, [Next]_vars
    PROVE  Orderly'
  <1>1. CASE RowFails \/ RawFails \/ PowerFails
    <2>1. faults' = faults + 1 /\ faults \in Nat
      BY <1>1 DEF RowFails, RawFails, PowerFails, Fault, Kept, Stored
    <2> QED BY <2>1 DEF Orderly
  <1>2. CASE Next /\ ~(RowFails \/ RawFails \/ PowerFails)
    <2>1. UNCHANGED faults
      BY <1>2 DEF Next, Begin, Recover, Recovered, SyncRow, Reserve, Send, RequestFails, CreateRaw,
           WriteRaw, SyncRaw, RecordCaptured, RecordFailed, ParserFailure, Observe, Stop, Halt,
           Complete, Poll, DurationElapsed, Crash, End, AppendRow, history
    <2>2. ASSUME Ordered PROVE Ordered'
      BY <1>2, <2>2, NextIs, BeginOrders, MoveOrders, SyncOrders, CrashOrders, RecoverOrders,
         ReserveOrders, RecordOrders, DispositionOrders, EndsOrder DEF Appends
    <2> QED BY <2>1, <2>2 DEF Orderly
  <1>3. CASE UNCHANGED vars
    <2>1. UNCHANGED <<files, raw, pc, io, run, command, mine, total, found, faults>>
      BY <1>3 DEF vars
    <2>2. RowsStay
      BY <2>1 DEF RowsStay, Usage, Outcomes, Observations
    <2>3. ASSUME Ordered PROVE Ordered'
      <3>1. Accepts'
        BY <2>1, <2>2, <2>3, AcceptsStays DEF Ordered
      <3>2. Tallied' /\ Sessions' /\ Fresh' /\ Shown' /\ Commanded'
        BY <2>1, <2>2, <2>3 DEF Ordered, RowsStay, Tallied, OnItsWay, AttemptsOf, Sessions, Fresh,
              Decided, Disposed, Shown, Commanded
      <3> QED BY <3>1, <3>2 DEF Ordered
    <2> QED BY <2>1, <2>3 DEF Orderly
  <1> QED BY <1>1, <1>2, <1>3

LEMMA AuditInit == Init => Kept /\ Orderly
  <1> SUFFICES ASSUME Init PROVE Kept /\ Orderly
    OBVIOUS
  <1>1. /\ pc = "down" /\ io.file = None /\ io = NoRow /\ run = 0 /\ mine = 0 /\ total = 0
        /\ found = None /\ faults = 0
        /\ raw = [a \in Attempts |-> None]
        /\ files = [f \in Files |-> [rows |-> <<>>, synced |-> 0]]
    BY DEF Init, NoRow
  <1>2. /\ Usage = << >> /\ Outcomes = << >> /\ Observations = << >>
        /\ DOMAIN Usage = {} /\ DOMAIN Outcomes = {} /\ DOMAIN Observations = {}
        /\ Len(Usage) = 0 /\ Len(Outcomes) = 0 /\ Len(Observations) = 0
    <2>1. Usage = << >> /\ Outcomes = << >> /\ Observations = << >>
      BY <1>1 DEF Usage, Outcomes, Observations, Files
    <2>2. \A rows : rows = << >> => DOMAIN rows = {} /\ Len(rows) = 0
      OBVIOUS
    <2> QED BY <2>1, <2>2
  <1>3. Stored
    <2>1. \A f \in Files : files[f] = [rows |-> <<>>, synced |-> 0]
      BY <1>1
    <2>2. ASSUME NEW f \in Files
          PROVE  files[f] \in [rows : Seq({}), synced : Nat] /\ files[f].synced <= Len(files[f].rows)
      <3>1. files[f].rows = << >> /\ files[f].synced = 0
        BY <2>1
      <3>2. << >> \in Seq({}) /\ Len(files[f].rows) = 0
        BY <3>1
      <3>3. [rows |-> <<>>, synced |-> 0] \in [rows : Seq({}), synced : Nat]
        BY <3>2
      <3>4. files[f] \in [rows : Seq({}), synced : Nat]
        BY <2>1, <3>3, Zenon
      <3>5. files[f].synced <= Len(files[f].rows)
        BY <3>1, <3>2
      <3> QED BY <3>4, <3>5
    <2>3. \A f \in Files : Sound(files[f])
      BY <2>2 DEF Sound, UsageIs
    <2>4. files = [f \in Files |-> files[f]] /\ raw = [a \in Attempts |-> raw[a]]
      BY <1>1
    <2> QED BY <1>1, <2>3, <2>4 DEF Stored
  <1>4. Kept
    BY <1>1, <1>3 DEF Kept, Reserved, Writing, Completed, Open, None
  <1>5. Range(Outcomes) = {}
    BY <1>2 DEF Range
  <1>6. Accepts
    <2>1. UsageLoads /\ AuditLoads(Outcomes) /\ AuditLoads(Observations)
      BY <1>2, TrialLedgerAssumption DEF UsageLoads, AuditLoads, Lines
    <2>2. OutcomesValid /\ RawInventoryValid /\ ObservationsValid
      BY <1>1, <1>2, <1>5 DEF OutcomesValid, RawInventoryValid, ObservationsValid
    <2> QED BY <2>1, <2>2 DEF Accepts
  <1>7. Tallied
    BY <1>1, <1>2 DEF Tallied, AttemptsOf
  <1>8. Sessions /\ Fresh /\ Shown /\ Commanded
    BY <1>1, <1>2 DEF Sessions, Fresh, Shown, Commanded, Open, None
  <1> QED BY <1>4, <1>6, <1>7, <1>8 DEF Orderly, Ordered

(* Whatever fails, what a recovery completed stays complete and the row    *)
(* under way is one of this attempt; and until a call or the power fails,  *)
(* the files are what a start accepts (TrialUsageLedger._load,             *)
(* _validate_outcome_history, _validate_observation_history).              *)
THEOREM AuditInvariant == Spec => [](Kept /\ Orderly)
  <1>1. Kept /\ Orderly /\ LedgerInv /\ LedgerInv' /\ [Next]_vars => (Kept /\ Orderly)'
    BY KeptStep, OrderlyStep
  <1> QED BY <1>1, AuditInit, LedgerInvariant, PTL DEF Spec

(* A process that dies at any point leaves what the next one accepts, and  *)
(* one that has recovered finds every earlier attempt with its outcome,    *)
(* its disposition and its terminal (TrialUsageLedger.__init__).           *)
THEOREM CrashesAreRecovered == Spec => []CrashesRecover
  <1>1. Kept /\ Orderly => CrashesRecover
    <2> SUFFICES ASSUME Kept, Orderly PROVE CrashesRecover
      OBVIOUS
    <2>1. faults = 0 => Accepts
      BY DEF Orderly, Ordered
    <2>2. ASSUME pc \notin {"down", "recovering"}, NEW a \in DOMAIN Usage, Usage[a].session # run
          PROVE  /\ a \in Decided
                 /\ \A o \in Undisposed : o.access # a
                 /\ Usage[a].session \notin Unclean
      <3>1. Finished(a)
        BY <2>2 DEF Kept, Completed
      <3>2. a \in Decided
        BY <3>1 DEF Finished, Decided, Range
      <3>3. \A o \in Undisposed : o.access # a
        BY <3>1, Domains DEF Finished, Undisposed, Captured, Disposed, Range
      <3>4. Usage[a].session \notin Unclean
        BY <3>1 DEF Finished, Unclean, Range
      <3> QED BY <3>2, <3>3, <3>4
    <2> QED BY <2>1, <2>2 DEF CrashesRecover
  <1> QED BY <1>1, AuditInvariant, PTL

=============================================================================
