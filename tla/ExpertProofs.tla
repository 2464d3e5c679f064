---------------------------- MODULE ExpertProofs ----------------------------
(***************************************************************************)
(* Theorems about the expert.  ExpertFollower, for any number of parents   *)
(* and crashes: the companion follows its evidence, and implements         *)
(* CompanionPromise.  TennisMatch, for sets, tiebreaks and matches of any  *)
(* length: every score validates, and the serve alternates as it must.     *)
(* Synchronizer, for any markets, policy and scripts of the feeds: the     *)
(* reducer never raises, no pair is emitted twice, a point explains once,  *)
(* and the tracker and the trusted books are what was published.           *)
(***************************************************************************)
EXTENDS ExpertFollower, TennisMatch, Synchronizer, FiniteSetTheorems,
        WellFoundedInduction, TLAPS

FrameKinds == GroupFrames \cup {"terminal", "torn"}

ActivePlaces == {"idle", "append", "acknowledge", "bind", "seal", "sealed"}
EmergencyPlaces == {"idle", "bind_emergency", "emergency_group", "emergency_seal",
                    "commit"}
EndPlaces == {"clean_sessions", "clean_markers", "gone", Purging, "purge_sync",
              "purge_marker", "purge_failed", "down"}

OnlyGroups == \A i \in DOMAIN frames : frames[i] = "group"
EmergencyFramesLast == \A i \in DOMAIN frames : frames[i] = "emergency" =>
    \A j \in i + 1 .. Len(frames) : frames[j] \in {"terminal", "torn"}

\* The place of the owner tells the lifecycle.
Placed ==
    /\ pc \in {"create", "done"} \cup ActivePlaces \cup EmergencyPlaces \cup EndPlaces
    /\ lifecycle = "CREATING" <=> pc = "create"
    /\ lifecycle \in {"ACTIVE", "EMERGENCY_PENDING"} <=>
           pc \in ActivePlaces \cup EmergencyPlaces
    /\ pc \in ActivePlaces \ {"idle"} => lifecycle = "ACTIVE"
    /\ pc \in EmergencyPlaces \ {"idle"} => lifecycle = "EMERGENCY_PENDING"
    /\ lifecycle = "TERMINAL" <=> pc = "done"

\* Before the controller exists nothing is written or drained.
Fresh == lifecycle = "CREATING" =>
    /\ frames = << >> /\ raws = 0 /\ published = 0 /\ publication_epoch = 0
    /\ evidence_end = "none" /\ held = "none" /\ pending = "none"
    /\ ~prewrite_capacity_denied /\ ~terminal
    /\ "journal" \in files => files = Companion

\* Its files are durable; the reserve is there until a terminal is bound.
Founded == lifecycle \in {"ACTIVE", "EMERGENCY_PENDING"} =>
    /\ unsynced = {} /\ {"marker", "journal"} \subseteq files
    /\ pc \notin {"seal", "sealed", "emergency_group", "emergency_seal", "commit"}
         => "reserve" \in files
    /\ pc \notin {"sealed", "emergency_seal", "commit"} => OnlyGroups
    /\ ~terminal

\* What an active controller has published, of what is durable.
ActiveCounts == lifecycle = "ACTIVE" =>
    /\ ~prewrite_capacity_denied /\ pending = "none"
    /\ publication_epoch = published
    /\ Groups = IF pc = "acknowledge" THEN published + 1 ELSE published
    /\ raws = IF pc \in {"append", "acknowledge"} \/ held = "parent"
              THEN published + 1 ELSE published
    /\ pc # "idle" => held = "none"
    /\ pc = "idle" => (held = "terminal" <=> evidence_end # "none")
    /\ pc \in {"append", "acknowledge"} => evidence_end = "none"
    /\ pc \in {"bind", "seal", "sealed"} => evidence_end # "none"

\* While an emergency is pending one parent, at least, has no group; once it
\* is reserved the evidence is over and that parent is the last.
EmergencyCounts == lifecycle = "EMERGENCY_PENDING" =>
    /\ prewrite_capacity_denied /\ publication_epoch = published + 1
    /\ Groups = IF pc \in {"emergency_seal", "commit"} THEN published + 1 ELSE published
    /\ published < raws
    /\ pc # "idle" => raws = published + 1 /\ evidence_end # "none"
    /\ pc = "idle" /\ held = "terminal" => evidence_end # "none"
    /\ pc \in {"emergency_seal", "commit"} => Written("emergency")

\* A completed companion covers all.
Covered == lifecycle = "TERMINAL" =>
    /\ published = raws /\ Groups = raws
    /\ "journal" \in files /\ "journal" \notin unsynced

Bounded == published <= raws /\ publication_epoch <= published + 1

Sealed ==
    /\ TerminalCoversEvidence /\ EmergencyFramesLast
    /\ terminal /\ prewrite_capacity_denied => Written("emergency")

\* What holds of a lifecycle, wherever it stands.
Counted == Placed /\ Fresh /\ Founded /\ ActiveCounts /\ EmergencyCounts /\ Covered

-----------------------------------------------------------------------------
(* The companion's frames. *)

LEMMA GroupCount == ASSUME frames \in Seq(FrameKinds) PROVE Groups \in Nat
  <1>1. IsFiniteSet(1 .. Len(frames))
    BY FS_Interval
  <1> QED
    BY <1>1, FS_Subset, FS_CardinalityType DEF Groups

\* A frame that is appended counts if it is a group, and the rest stays.
LEMMA Appended ==
    ASSUME frames \in Seq(FrameKinds), NEW e \in FrameKinds, frames' = Append(frames, e)
    PROVE  /\ frames' \in Seq(FrameKinds)
           /\ Groups' = IF e \in GroupFrames THEN Groups + 1 ELSE Groups
           /\ \A kind : Written(kind)' <=> Written(kind) \/ kind = e
           /\ e = "group" /\ OnlyGroups => OnlyGroups'
           /\ e \in {"terminal", "torn"} /\ EmergencyFramesLast => EmergencyFramesLast'
           /\ OnlyGroups => EmergencyFramesLast'
  <1> DEFINE n == Len(frames) + 1
             before == {i \in DOMAIN frames : frames[i] \in GroupFrames}
             after == {i \in DOMAIN frames' : frames'[i] \in GroupFrames}
  <1>1. /\ frames' \in Seq(FrameKinds) /\ Len(frames') = n /\ n \in Nat
        /\ DOMAIN frames = 1 .. n - 1 /\ DOMAIN frames' = 1 .. n
        /\ frames'[n] = e /\ \A i \in 1 .. n - 1 : frames'[i] = frames[i]
    OBVIOUS
  <1> HIDE DEF n
  <1>2. Groups' = IF e \in GroupFrames THEN Groups + 1 ELSE Groups
    <2>1. IsFiniteSet(before) /\ n \notin before
      <3>1. IsFiniteSet(1 .. Len(frames))
        BY FS_Interval
      <3>2. before \subseteq 1 .. Len(frames)
        OBVIOUS
      <3>3. IsFiniteSet(before)
        BY <3>1, <3>2, FS_Subset
      <3> QED
        BY <1>1, <3>3
    <2>2. after = IF e \in GroupFrames THEN before \cup {n} ELSE before
      BY <1>1
    <2>3. Groups = Cardinality(before) /\ Groups' = Cardinality(after)
      BY DEF Groups
    <2> QED
      BY <2>1, <2>2, <2>3, FS_AddElement
  <1>3. \A kind : Written(kind)' <=> Written(kind) \/ kind = e
    BY <1>1 DEF Written, ToSet
  <1>4. e = "group" /\ OnlyGroups => OnlyGroups'
    BY <1>1 DEF OnlyGroups
  <1>5. e \in {"terminal", "torn"} /\ EmergencyFramesLast => EmergencyFramesLast'
    <2> SUFFICES ASSUME e \in {"terminal", "torn"}, EmergencyFramesLast,
                        NEW i \in 1 .. n, frames'[i] = "emergency",
                        NEW j \in i + 1 .. n
                 PROVE  frames'[j] \in {"terminal", "torn"}
      BY <1>1 DEF EmergencyFramesLast
    <2> QED
      BY <1>1 DEF EmergencyFramesLast
  <1>6. OnlyGroups => EmergencyFramesLast'
    BY <1>1 DEF OnlyGroups, EmergencyFramesLast
  <1> QED
    BY <1>1, <1>2, <1>3, <1>4, <1>5, <1>6

LEMMA SameFrames ==
    ASSUME frames' = frames
    PROVE  /\ Groups' = Groups /\ OnlyGroups' = OnlyGroups
           /\ EmergencyFramesLast' = EmergencyFramesLast
           /\ \A kind : Written(kind)' = Written(kind)
  BY DEF Groups, OnlyGroups, EmergencyFramesLast, Written

\* Before a terminal is bound none is written.
LEMMA NoTerminalYet ==
    ASSUME OnlyGroups
    PROVE  ~Written("terminal") /\ ~Written("emergency")
  BY DEF OnlyGroups, Written, ToSet

\* A failed append leaves at most its frame behind.
LEMMA Left ==
    ASSUME frames \in Seq(FrameKinds), NEW e \in FrameKinds, Residue(e)
    PROVE  /\ frames' \in Seq(FrameKinds)
           /\ Groups' = Groups \/ (e \in GroupFrames /\ Groups' = Groups + 1)
           /\ \A kind : Written(kind) => Written(kind)'
           /\ \A kind : Written(kind)' => Written(kind) \/ kind \in {e, "torn"}
           /\ OnlyGroups \/ (e = "terminal" /\ EmergencyFramesLast) => EmergencyFramesLast'
  <1>1. CASE frames' = frames
    BY <1>1, SameFrames DEF OnlyGroups, EmergencyFramesLast
  <1>2. CASE frames' = Append(frames, "torn")
    BY <1>2, Appended DEF FrameKinds, GroupFrames
  <1>3. CASE frames' = Append(frames, e)
    BY <1>3, Appended DEF FrameKinds, GroupFrames
  <1> QED
    BY <1>1, <1>2, <1>3 DEF Residue

-----------------------------------------------------------------------------
(* The invariant, one group of actions at a time. *)

Void == lifecycle \in Unclean \cup {"NONE"} /\ pc \in EndPlaces

Flags ==
    prewrite_capacity_denied \in BOOLEAN /\ attempted \in BOOLEAN /\ terminal \in BOOLEAN

\* The types of all variables but the frames, with bounds where only guards give
\* them: that no more is published than there are parents is the invariant's.
Types ==
    /\ raws \in 0 .. MaxParents /\ waiting \in 0 .. Capacity
    /\ inputs \in {"open", "closed", "fault", "failed"}
    /\ evidence_end \in Reasons \cup {"none"}
    /\ held \in {"none", "parent", "terminal"}
    /\ authority \in {"live", "ended", "denied"}
    /\ files \subseteq Companion /\ unsynced \subseteq Companion
    /\ writer \in WriterStates /\ tail \in {"none", "covered", "unseen"}
    /\ lifecycle \in Lifecycles /\ pending \in PendingStates
    /\ published \in Nat /\ publication_epoch \in Nat
    /\ Flags

LEMMA CreateTypes == Types /\ Create => Types'
  <1> SUFFICES ASSUME Types, Create PROVE Types'
    OBVIOUS
  <1> USE FollowerAssumption DEF Types, Flags, ingress, disk, store, control
  <1>1. CASE CreateFile
    BY <1>1 DEF CreateFile, NextFile, Companion
  <1>2. CASE SyncFile
    BY <1>2 DEF SyncFile
  <1>3. CASE CreateController
    BY <1>3 DEF CreateController, Lifecycles, WriterStates
  <1>4. CASE CreateFails
    BY <1>4 DEF CreateFails, Companion, Sessions, Lifecycles
  <1>5. CASE ControllerFails
    BY <1>5 DEF ControllerFails, AbortOnce, Lifecycles, WriterStates
  <1> QED
    BY <1>1, <1>2, <1>3, <1>4, <1>5 DEF Create

LEMMA CleanupTypes == Types /\ Cleanup => Types'
  <1> SUFFICES ASSUME Types, Cleanup PROVE Types'
    OBVIOUS
  <1> USE FollowerAssumption DEF Types, Flags, ingress, disk, store, control
  <1>1. CASE CleanSessions
    BY <1>1, ZenonT(60) DEF CleanSessions, Companion
  <1>2. CASE CleanMarkers
    BY <1>2 DEF CleanMarkers, Companion
  <1> QED
    BY <1>1, <1>2 DEF Cleanup

LEMMA EvidenceTypes == Types /\ Evidence => Types'
  <1> SUFFICES ASSUME Types, Evidence PROVE Types'
    OBVIOUS
  <1> USE FollowerAssumption DEF Types, Flags, ingress, disk, store, control
  <1>1. CASE Enqueue
    BY <1>1 DEF Enqueue
  <1>2. CASE StopInputs
    BY <1>2 DEF StopInputs
  <1>3. CASE DrainParent
    BY <1>3 DEF DrainParent, MayDrain
  <1>4. CASE DrainTerminal
    BY <1>4 DEF DrainTerminal, MayDrain, Reasons, CleanReasons
  <1>5. CASE CloseExternalHalt
    BY <1>5 DEF CloseExternalHalt, MayDrain, Reasons, CleanReasons
  <1>6. CASE DrainFails
    BY <1>6 DEF DrainFails, MayDrain, Fail, AbortOnce, Lifecycles, WriterStates
  <1> QED
    BY <1>1, <1>2, <1>3, <1>4, <1>5, <1>6 DEF Evidence

LEMMA ParentTypes == Types /\ Parent => Types'
  <1> SUFFICES ASSUME Types, Parent PROVE Types'
    OBVIOUS
  <1> USE FollowerAssumption DEF Types, Flags, ingress, disk, store, control
  <1>1. CASE ClaimPermit
    BY <1>1 DEF ClaimPermit, TakeParent, WriterStates
  <1>2. CASE DenyCapacity
    BY <1>2 DEF DenyCapacity, TakeParent, PendingIssued, AbortOnce, Lifecycles,
       WriterStates, PendingStates
  <1>3. CASE PrepareFails
    BY <1>3 DEF PrepareFails, TakeParent, AbortOnce, Lifecycles, WriterStates
  <1>4. CASE RefuseParent
    BY <1>4 DEF RefuseParent
  <1>5. CASE AppendGroup
    BY <1>5 DEF AppendGroup, WriterStates
  <1>6. CASE AppendFails
    BY <1>6 DEF AppendFails, Fail, AbortOnce, Lifecycles, WriterStates
  <1>7. CASE Publish
    BY <1>7 DEF Publish, AbortOnce, Lifecycles, WriterStates
  <1>8. CASE AcknowledgeFails
    BY <1>8 DEF AcknowledgeFails, Fail, AbortOnce, Lifecycles, WriterStates
  <1> QED
    BY <1>1, <1>2, <1>3, <1>4, <1>5, <1>6, <1>7, <1>8 DEF Parent

LEMMA OrdinaryTypes == Types /\ Ordinary => Types'
  <1> SUFFICES ASSUME Types, Ordinary PROVE Types'
    OBVIOUS
  <1> USE FollowerAssumption DEF Types, Flags, ingress, disk, store, control
  <1>1. CASE ProveTail
    BY <1>1 DEF ProveTail, TakeTerminal
  <1>2. CASE TailNotProven
    BY <1>2 DEF TailNotProven, TakeTerminal, TerminalFails, Fail, AbortOnce,
       Lifecycles, WriterStates
  <1>3. CASE BindTerminal
    BY <1>3 DEF BindTerminal, ReleaseReserve, TerminalFails, Fail, AbortOnce,
       Lifecycles, WriterStates
  <1>4. CASE AppendTerminal
    BY <1>4 DEF AppendTerminal, TerminalFails, Fail, AbortOnce, Lifecycles,
       WriterStates
  <1>5. CASE Terminate
    <2>1. CASE \E how \in Unclean : TerminalFails(how) /\ UNCHANGED <<ingress, frames, tail>>
      BY <2>1 DEF TerminalFails, Fail, AbortOnce, Unclean, Lifecycles, WriterStates
    <2>2. CASE /\ writer' = "closed" /\ lifecycle' = "TERMINAL" /\ terminal' = TRUE
               /\ UNCHANGED <<ingress, authority, disk, prewrite_capacity_denied,
                              tail, published, publication_epoch, pending, attempted>>
      <3>1. Flags'
        BY <2>2, Zenon
      <3> HIDE DEF Flags
      <3> QED
        BY <2>2, <3>1 DEF Lifecycles, WriterStates
    <2> QED
      BY <1>5, <2>1, <2>2 DEF Terminate
  <1> QED
    BY <1>1, <1>2, <1>3, <1>4, <1>5 DEF Ordinary

LEMMA EmergencyTypes == Types /\ Emergency => Types'
  <1> SUFFICES ASSUME Types, Emergency PROVE Types'
    OBVIOUS
  <1> USE FollowerAssumption DEF Types, Flags, ingress, disk, store, control
  <1>1. CASE RefuseCompletion
    BY <1>1 DEF RefuseCompletion, TakeEmergency
  <1>2. CASE ReserveCompletion
    BY <1>2 DEF ReserveCompletion, TakeEmergency, PendingStates
  <1>3. CASE ReservationFails
    BY <1>3 DEF ReservationFails, TakeEmergency, PublicationFails, Fail, AbortOnce,
       Lifecycles, WriterStates, PendingStates
  <1>4. CASE BindEmergency
    BY <1>4 DEF BindEmergency, ReleaseReserve, PublicationFails, Fail, AbortOnce,
       Lifecycles, WriterStates, PendingStates
  <1>5. CASE AppendEmergencyGroup
    BY <1>5 DEF AppendEmergencyGroup, AppendEmergency, PublicationFails, Fail,
       AbortOnce, Lifecycles, WriterStates, PendingStates
  <1>6. CASE AppendEmergencyTerminal
    BY <1>6 DEF AppendEmergencyTerminal, AppendEmergency, PublicationFails, Fail,
       AbortOnce, Lifecycles, WriterStates, PendingStates
  <1>7. CASE CommitEmergency
    <2>1. CASE PublicationFails /\ UNCHANGED <<ingress, frames>>
      BY <2>1 DEF PublicationFails, Fail, AbortOnce, Lifecycles, WriterStates,
                  PendingStates
    <2>2. CASE /\ published' = published + 1 /\ terminal' = TRUE
               /\ lifecycle' \in Lifecycles /\ pending' \in PendingStates
               /\ writer' \in WriterStates
               /\ UNCHANGED <<ingress, authority, disk, prewrite_capacity_denied,
                              tail, publication_epoch, attempted>>
      <3>1. Flags'
        BY <2>2, Zenon
      <3> HIDE DEF Flags
      <3> QED
        BY <2>2, <3>1
    <2>3. CASE /\ published' = published + 1 /\ terminal' = TRUE
               /\ \/ /\ lifecycle' = "TERMINAL" /\ pending' = "PUBLISHED"
                     /\ writer' = "closed" /\ pc' = "done"
                  \/ /\ lifecycle' = "DURABILITY_UNCERTAIN_HALTED" /\ AbortOnce
                     /\ pending' = "PUBLISHED_PROOF_UNAVAILABLE_CLOSED"
               /\ UNCHANGED <<ingress, authority, disk, prewrite_capacity_denied,
                              tail, publication_epoch, attempted>>
      <3>1. /\ lifecycle' \in Lifecycles /\ pending' \in PendingStates
            /\ writer' \in WriterStates
        BY <2>3 DEF AbortOnce, Lifecycles, WriterStates, PendingStates
      <3> QED
        BY <2>2, <2>3, <3>1
    <2> QED
      BY <1>7, <2>1, <2>3 DEF CommitEmergency
  <1>8. CASE AbortPending
    BY <1>8 DEF AbortPending, Fail, AbortOnce, Lifecycles, WriterStates,
       PendingStates
  <1> QED
    BY <1>1, <1>2, <1>3, <1>4, <1>5, <1>6, <1>7, <1>8 DEF Emergency

LEMMA PurgeTypes == Types /\ Purge => Types'
  <1> SUFFICES ASSUME Types, Purge PROVE Types'
    OBVIOUS
  <1> USE FollowerAssumption DEF Types, Flags, ingress, disk, store, control
  <1>1. CASE PurgeSessions
    BY <1>1, ZenonT(60) DEF PurgeSessions, Companion
  <1>2. CASE PurgeMarker
    BY <1>2, ZenonT(60) DEF PurgeMarker, Companion
  <1>3. CASE PurgeDone
    BY <1>3 DEF PurgeDone
  <1>4. CASE PurgeFails
    BY <1>4 DEF PurgeFails, Companion
  <1> QED
    BY <1>1, <1>2, <1>3, <1>4 DEF Purge

LEMMA RestTypes == Types /\ (AuthorityChanges \/ Crash \/ Recover) => Types'
  <1> SUFFICES ASSUME Types, AuthorityChanges \/ Crash \/ Recover PROVE Types'
    OBVIOUS
  <1> USE FollowerAssumption DEF Types, Flags, ingress, disk, store, control
  <1>1. CASE AuthorityChanges
    BY <1>1 DEF AuthorityChanges
  <1>2. CASE Crash
    <2>1. files' \subseteq Companion /\ unsynced' \subseteq Companion
      BY <1>2 DEF Crash
    <2>2. /\ UNCHANGED <<raws, evidence_end, authority, published, publication_epoch>>
          /\ waiting' = 0 /\ inputs' = "failed" /\ held' = "none"
          /\ writer' = "none" /\ tail' = "none" /\ prewrite_capacity_denied' = FALSE
          /\ lifecycle' = "NONE" /\ pending' = "none" /\ attempted' = FALSE
          /\ terminal' = FALSE
      BY <1>2 DEF Crash
    <2>3. Flags'
      BY <2>2, Zenon
    <2> HIDE DEF Flags
    <2> QED
      BY <2>1, <2>2, <2>3 DEF Lifecycles, WriterStates, PendingStates
  <1>3. CASE Recover
    BY <1>3 DEF Recover
  <1> QED
    BY <1>1, <1>2, <1>3

-----------------------------------------------------------------------------
(* The inductive invariant. *)

Counts == frames \in Seq(FrameKinds) /\ Counted /\ Bounded /\ Sealed

IInv == Types /\ Counts

\* Numbers the steps below reckon with.
LEMMA Numbers ==
    ASSUME Types, frames \in Seq(FrameKinds)
    PROVE  /\ raws \in Nat /\ published \in Nat /\ publication_epoch \in Nat
           /\ Groups \in Nat /\ waiting \in Nat
  BY FollowerAssumption, GroupCount DEF Types

\* Of a companion that has failed nothing is promised but what its frames say.
LEMMA VoidCounted == Void' => Counted'
  BY DEF Void, Counted, Placed, Fresh, Founded, ActiveCounts, EmergencyCounts, Covered,
         Unclean, EndPlaces, ActivePlaces, EmergencyPlaces, Purging

LEMMA SealedStays ==
    ASSUME Sealed, UNCHANGED <<frames, raws, evidence_end>>,
           terminal' /\ prewrite_capacity_denied' => Written("emergency")
    PROVE  Sealed'
  BY SameFrames DEF Sealed, TerminalCoversEvidence

LEMMA CreateKeeps == IInv /\ Create => Counts'
  <1> SUFFICES ASSUME IInv, Create PROVE Counts'
    OBVIOUS
  <1> USE DEF IInv, Counts, ingress, disk, store, control
  <1>1. UNCHANGED <<frames, raws, evidence_end, published, publication_epoch, terminal>>
    BY DEF Create, CreateFile, SyncFile, CreateController, CreateFails, ControllerFails
  <1>2. prewrite_capacity_denied' = prewrite_capacity_denied
    BY DEF Create, CreateFile, SyncFile, CreateController, CreateFails, ControllerFails
  <1>3. Sealed' /\ Bounded' /\ frames' \in Seq(FrameKinds)
    BY <1>1, <1>2, SealedStays DEF Sealed, Bounded
  <1>4. /\ Groups' = Groups /\ OnlyGroups' = OnlyGroups
        /\ \A kind : Written(kind)' = Written(kind)
    BY <1>1, SameFrames
  <1>5. frames = << >> => Groups = 0 /\ OnlyGroups
    BY FS_EmptySet DEF Groups, OnlyGroups
  <1> USE DEF Counted, Placed, Fresh, Founded, ActiveCounts, EmergencyCounts, Covered,
              Unclean, EndPlaces, ActivePlaces, EmergencyPlaces, Purging
  <1>6. CASE CreateFile
    <2>1. "journal" \in files' => files' = Companion
      BY <1>6 DEF CreateFile, NextFile, Companion, Types
    <2>2. UNCHANGED <<raws, evidence_end, held, tail, pending, lifecycle, pc, published,
                      publication_epoch, prewrite_capacity_denied, terminal, frames>>
          /\ pc = "create"
      BY <1>6 DEF CreateFile
    <2> QED
      BY <1>3, <2>1, <2>2
  <1>7. CASE SyncFile
    BY <1>3, <1>4, <1>7 DEF SyncFile
  <1>8. CASE CreateController
    BY <1>3, <1>4, <1>5, <1>8 DEF CreateController, Companion
  <1>9. CASE CreateFails
    BY <1>3, <1>9 DEF CreateFails
  <1>10. CASE ControllerFails
    BY <1>3, <1>10 DEF ControllerFails, AbortOnce
  <1> QED
    BY <1>6, <1>7, <1>8, <1>9, <1>10 DEF Create

LEMMA CleanupKeeps == IInv /\ Cleanup => Counts'
  <1> SUFFICES ASSUME IInv, Cleanup PROVE Counts'
    OBVIOUS
  <1> USE DEF IInv, Counts, ingress, disk, store, control
  <1>1. UNCHANGED <<frames, raws, evidence_end, published, publication_epoch, lifecycle,
                    prewrite_capacity_denied, terminal>>
        /\ pc \in EndPlaces /\ pc' \in EndPlaces
    BY DEF Cleanup, CleanSessions, CleanMarkers, EndPlaces
  <1>2. Void'
    BY <1>1 DEF Counted, Placed, Void, Unclean, EndPlaces, Purging, ActivePlaces,
                EmergencyPlaces, Types, Lifecycles
  <1> QED
    BY <1>1, <1>2, VoidCounted, SealedStays DEF Sealed, Bounded

LEMMA PurgeKeeps == IInv /\ Purge => Counts'
  <1> SUFFICES ASSUME IInv, Purge PROVE Counts'
    OBVIOUS
  <1> USE DEF IInv, Counts, ingress, disk, store, control
  <1>1. UNCHANGED <<frames, raws, evidence_end, published, publication_epoch, lifecycle,
                    prewrite_capacity_denied, terminal>>
        /\ pc \in EndPlaces /\ pc' \in EndPlaces
    BY DEF Purge, PurgeSessions, PurgeMarker, PurgeDone, PurgeFails, EndPlaces, Purging
  <1>2. Void'
    BY <1>1 DEF Counted, Placed, Void, Unclean, EndPlaces, Purging, ActivePlaces,
                EmergencyPlaces, Types, Lifecycles
  <1> QED
    BY <1>1, <1>2, VoidCounted, SealedStays DEF Sealed, Bounded

LEMMA EvidenceKeeps == IInv /\ Evidence => Counts'
  <1> SUFFICES ASSUME IInv, Evidence PROVE Counts'
    OBVIOUS
  <1> USE DEF IInv, Counts, ingress, disk, store, control
  <1>1. frames' = frames /\ terminal' = terminal
        /\ prewrite_capacity_denied' = prewrite_capacity_denied
    BY DEF Evidence, Enqueue, StopInputs, DrainParent, DrainTerminal, CloseExternalHalt,
           DrainFails, Fail
  <1>2. /\ Groups' = Groups /\ OnlyGroups' = OnlyGroups
        /\ EmergencyFramesLast' = EmergencyFramesLast
        /\ \A kind : Written(kind)' = Written(kind)
    BY <1>1, SameFrames
  <1>3. MayDrain => ~Written("terminal")
    BY DEF MayDrain, Sealed, TerminalCoversEvidence
  <1>4. /\ raws' \in {raws, raws + 1}
        /\ (evidence_end' = evidence_end /\ raws' = raws) \/ MayDrain
    BY DEF Evidence, Enqueue, StopInputs, DrainParent, DrainTerminal, CloseExternalHalt,
           DrainFails
  <1>5. Sealed'
    BY <1>1, <1>2, <1>3, <1>4 DEF Sealed, TerminalCoversEvidence
  <1>6. /\ raws \in Nat /\ published \in Nat /\ publication_epoch \in Nat
        /\ Groups \in Nat
    BY Numbers
  <1>7. Bounded'
    <2>1. UNCHANGED <<published, publication_epoch>>
      BY DEF Evidence, Enqueue, StopInputs, DrainParent, DrainTerminal,
             CloseExternalHalt, DrainFails, Fail
    <2> QED
      BY <1>4, <1>6, <2>1 DEF Bounded
  <1>8. ASSUME Counted' PROVE Counts'
    BY <1>1, <1>5, <1>7, <1>8
  <1> HIDE DEF Counts
  <1>9. CASE DrainFails /\ lifecycle = "ACTIVE"
    <2>1. Void'
      BY <1>9 DEF DrainFails, Fail, AbortOnce, Void, Unclean, EndPlaces
    <2> QED
      BY <1>8, <2>1, VoidCounted
  <1> USE DEF Counts, Counted, Placed, Fresh, Founded, ActiveCounts, EmergencyCounts,
              Covered, Unclean, EndPlaces, ActivePlaces, EmergencyPlaces, Purging
  <1>10. CASE Enqueue
    BY <1>2, <1>8, <1>10 DEF Enqueue
  <1>11. CASE StopInputs
    BY <1>2, <1>8, <1>11 DEF StopInputs
  <1>12. CASE DrainParent
    BY <1>2, <1>6, <1>8, <1>12 DEF DrainParent, MayDrain
  <1>13. CASE DrainTerminal
    BY <1>2, <1>6, <1>8, <1>13 DEF DrainTerminal, MayDrain
  <1>14. CASE CloseExternalHalt
    BY <1>2, <1>6, <1>8, <1>14 DEF CloseExternalHalt, MayDrain
  <1>15. CASE DrainFails /\ lifecycle # "ACTIVE"
    BY <1>2, <1>6, <1>8, <1>15 DEF DrainFails, MayDrain
  <1> QED
    BY <1>9, <1>10, <1>11, <1>12, <1>13, <1>14, <1>15 DEF Evidence

\* A failure keeps what its frames say, if they say no more than before.
LEMMA FailureKeeps ==
    ASSUME IInv, Void', UNCHANGED <<raws, evidence_end>>,
           terminal' => Written("emergency")',
           frames' \in Seq(FrameKinds), EmergencyFramesLast',
           published' <= raws, publication_epoch' <= published' + 1,
           Written("terminal")' => Groups' = raws /\ evidence_end # "none"
    PROVE  Counts'
  <1>1. Bounded'
    BY DEF Bounded
  <1>2. Sealed'
    BY DEF Sealed, TerminalCoversEvidence
  <1> QED
    BY <1>1, <1>2, VoidCounted DEF Counts

LEMMA ParentKeeps == IInv /\ Parent => Counts'
  <1> SUFFICES ASSUME IInv, Parent PROVE Counts'
    OBVIOUS
  <1> USE DEF IInv, ingress, disk, store, control
  <1>1. /\ raws \in Nat /\ published \in Nat /\ publication_epoch \in Nat
        /\ Groups \in Nat /\ frames \in Seq(FrameKinds)
    BY Numbers DEF Counts
  <1>2. CASE RefuseParent
    BY <1>2, SameFrames, SealedStays
       DEF RefuseParent, Counts, Counted, Placed, Fresh, Founded, ActiveCounts,
           EmergencyCounts, Covered, Bounded, Sealed
  <1> USE DEF Counts
  <1>3. ASSUME ~RefuseParent
        PROVE  /\ lifecycle = "ACTIVE" /\ pc \in {"idle", "append", "acknowledge"}
               /\ UNCHANGED <<raws, evidence_end>>
    BY <1>3 DEF Parent, ClaimPermit, DenyCapacity, PrepareFails, AppendGroup, AppendFails,
                Publish, AcknowledgeFails, TakeParent, Fail, Counted, Placed, ActivePlaces
  <1>4. ASSUME lifecycle = "ACTIVE", pc \in {"idle", "append", "acknowledge"}
        PROVE  /\ OnlyGroups /\ EmergencyFramesLast /\ ~terminal
               /\ publication_epoch = published /\ ~prewrite_capacity_denied
               /\ ~Written("terminal") /\ ~Written("emergency")
    BY <1>4, NoTerminalYet DEF Counted, Founded, ActiveCounts, Sealed
  <1>5. /\ "group" \in FrameKinds /\ "group" \in GroupFrames
    BY DEF FrameKinds, GroupFrames
  <1>6. CASE AppendFails
    <2>1. Void' /\ ~terminal' /\ UNCHANGED <<published, publication_epoch>>
      BY <1>3, <1>4, <1>6 DEF AppendFails, Fail, AbortOnce, Void, Unclean, EndPlaces, RefuseParent
    <2>2. frames' \in Seq(FrameKinds) /\ EmergencyFramesLast' /\ ~Written("terminal")'
      BY <1>1, <1>3, <1>4, <1>5, <1>6, Left DEF AppendFails, RefuseParent
    <2> QED
      BY <1>1, <1>3, <1>4, <1>6, <2>1, <2>2, FailureKeeps DEF Bounded, AppendFails, RefuseParent
  <1>7. CASE AcknowledgeFails
    <2>1. /\ Void' /\ ~terminal'
          /\ UNCHANGED <<frames, published, publication_epoch, raws, evidence_end>>
      BY <1>3, <1>4, <1>7 DEF AcknowledgeFails, Fail, AbortOnce, Void, Unclean, EndPlaces, RefuseParent
    <2> QED
      BY <1>1, <1>3, <1>4, <1>7, <2>1, SameFrames, FailureKeeps
         DEF Bounded, AcknowledgeFails, RefuseParent
  <1>8. CASE PrepareFails
    <2>1. /\ Void' /\ ~terminal'
          /\ UNCHANGED <<frames, published, publication_epoch, raws, evidence_end>>
      BY <1>3, <1>4, <1>8 DEF PrepareFails, TakeParent, AbortOnce, Void, Unclean, EndPlaces
    <2> QED
      BY <1>1, <1>4, <1>8, <2>1, SameFrames, FailureKeeps DEF Bounded, PrepareFails, TakeParent
  <1>9. CASE ClaimPermit
    <2> HIDE DEF Counts
    <2>1. Counted' /\ Bounded'
      BY <1>1, <1>9, SameFrames
         DEF ClaimPermit, TakeParent, Counts, Counted, Placed, Fresh, Founded, ActiveCounts,
             EmergencyCounts, Covered, Bounded, ActivePlaces, EmergencyPlaces, EndPlaces, Purging
    <2>2. Sealed' /\ frames' = frames
      BY <1>9, SealedStays DEF Counts, ClaimPermit, TakeParent, Sealed
    <2> QED
      BY <2>1, <2>2 DEF Counts
  <1>10. CASE DenyCapacity
    <2>1. UNCHANGED <<frames, raws, evidence_end, published, terminal>> /\ lifecycle = "ACTIVE" /\ pc = "idle"
      BY <1>10 DEF DenyCapacity, TakeParent
    <2>2. CASE lifecycle' = "HALTED_UNCLEAN" /\ AbortOnce /\ UNCHANGED publication_epoch
      <3>1. Void'
        BY <2>2 DEF AbortOnce, Void, Unclean, EndPlaces
      <3> QED
        BY <1>1, <1>4, <2>1, <2>2, <3>1, SameFrames, FailureKeeps DEF Bounded
    <2>3. CASE PendingIssued /\ UNCHANGED <<writer, pc>>
      <3>1. Sealed' /\ frames' = frames
        BY <1>4, <2>1, SealedStays
      <3>2. Bounded'
        BY <1>1, <1>4, <2>1, <2>3 DEF PendingIssued, Bounded
      <3>3. prewrite_capacity_denied' /\ held = "parent" /\ held' = "none" /\ unsynced' = unsynced /\ files' = files
        BY <1>10 DEF DenyCapacity, TakeParent
      <3>4. Counted'
        BY <1>1, <1>4, <2>1, <2>3, <3>3, SameFrames
           DEF PendingIssued, Counted, Placed, Fresh, Founded, ActiveCounts, EmergencyCounts,
               Covered, ActivePlaces, EmergencyPlaces, EndPlaces, Purging
      <3> QED
        BY <3>1, <3>2, <3>4
    <2> QED
      BY <1>10, <2>2, <2>3 DEF DenyCapacity
  <1>11. CASE AppendGroup
    <2>1. /\ Groups' = Groups + 1 /\ OnlyGroups' /\ EmergencyFramesLast'
          /\ ~Written("terminal")' /\ frames' \in Seq(FrameKinds)
      BY <1>1, <1>3, <1>4, <1>5, <1>11, Appended DEF AppendGroup, RefuseParent
    <2>2. Sealed'
      BY <1>3, <1>4, <1>11, <2>1 DEF Sealed, TerminalCoversEvidence, AppendGroup, RefuseParent
    <2>3. Counted' /\ Bounded'
      BY <1>1, <1>11, <2>1
         DEF AppendGroup, Counted, Placed, Fresh, Founded, ActiveCounts, EmergencyCounts,
             Covered, Bounded, ActivePlaces, EmergencyPlaces, EndPlaces, Purging
    <2> QED
      BY <2>1, <2>2, <2>3
  <1>12. CASE Publish
    <2>1. /\ UNCHANGED <<frames, raws, evidence_end, terminal>> /\ pc = "acknowledge"
          /\ lifecycle = "ACTIVE" /\ raws = published + 1
          /\ published' = published + 1 /\ publication_epoch' = publication_epoch + 1
      BY <1>3, <1>12 DEF Publish, RefuseParent, Counted, ActiveCounts
    <2>2. CASE lifecycle' = "HALTED_UNCLEAN" /\ AbortOnce
      <3>1. Void'
        BY <2>2 DEF AbortOnce, Void, Unclean, EndPlaces
      <3> QED
        BY <1>1, <1>4, <2>1, <2>2, <3>1, SameFrames, FailureKeeps
    <2>3. CASE pc' = "idle" /\ UNCHANGED lifecycle
      <3>1. Sealed' /\ frames' = frames /\ Bounded'
        BY <1>1, <1>4, <2>1, SealedStays DEF Bounded
      <3>2. Counted'
        BY <1>1, <1>4, <1>12, <2>1, <2>3, SameFrames
           DEF Publish, Counted, Placed, Fresh, Founded, ActiveCounts, EmergencyCounts,
               Covered, ActivePlaces, EmergencyPlaces, EndPlaces, Purging
      <3> QED
        BY <3>1, <3>2
    <2> QED
      BY <1>12, <2>2, <2>3 DEF Publish
  <1> QED
    BY <1>2, <1>6, <1>7, <1>8, <1>9, <1>10, <1>11, <1>12 DEF Parent

LEMMA OrdinaryKeeps == IInv /\ Ordinary => Counts'
  <1> SUFFICES ASSUME IInv, Ordinary PROVE Counts'
    OBVIOUS
  <1> USE DEF IInv, Counts, ingress, disk, store, control
  <1>1. /\ raws \in Nat /\ published \in Nat /\ publication_epoch \in Nat
        /\ Groups \in Nat /\ frames \in Seq(FrameKinds)
    BY Numbers
  <1>2. /\ lifecycle = "ACTIVE" /\ pc \in {"idle", "bind", "seal", "sealed"}
        /\ UNCHANGED <<raws, evidence_end>>
    BY DEF Ordinary, ProveTail, TailNotProven, TakeTerminal, BindTerminal, AppendTerminal,
           Terminate, TerminalFails, Fail, Counted, Placed, ActivePlaces
  <1>3. /\ EmergencyFramesLast /\ ~terminal /\ publication_epoch = published
        /\ ~prewrite_capacity_denied /\ Groups = published
        /\ pc # "sealed" => OnlyGroups /\ ~Written("terminal")
        /\ pc # "idle" => raws = published /\ evidence_end # "none"
        /\ "journal" \in files /\ unsynced = {}
    BY <1>2, NoTerminalYet DEF Counted, Founded, ActiveCounts, Sealed
  <1>4. "terminal" \in FrameKinds /\ "terminal" \notin GroupFrames
    BY DEF FrameKinds, GroupFrames
  \* A failure of this path, whatever its frame left behind.
  <1>5. ASSUME NEW how \in Unclean, TerminalFails(how), frames' \in Seq(FrameKinds),
               EmergencyFramesLast',
               Written("terminal")' => Groups' = raws /\ evidence_end # "none"
        PROVE  Counts'
    <2>1. Void' /\ ~terminal' /\ UNCHANGED <<published, publication_epoch>>
      BY <1>3, <1>5 DEF TerminalFails, Fail, AbortOnce, Void, EndPlaces
    <2> QED
      BY <1>1, <1>2, <1>3, <1>5, <2>1, FailureKeeps DEF Bounded
  <1>6. CASE ProveTail
    <2>1. Sealed' /\ frames' = frames /\ Bounded'
      BY <1>3, <1>6, SealedStays DEF ProveTail, TakeTerminal, Bounded
    <2>2. Counted'
      BY <1>1, <1>3, <1>6, SameFrames
         DEF ProveTail, TakeTerminal, Counted, Placed, Fresh, Founded, ActiveCounts,
             EmergencyCounts, Covered, ActivePlaces, EmergencyPlaces, EndPlaces, Purging
    <2> QED
      BY <2>1, <2>2
  <1>7. CASE TailNotProven
    BY <1>1, <1>2, <1>3, <1>5, <1>7, SameFrames DEF TailNotProven, TakeTerminal, Unclean
  <1>8. CASE BindTerminal
    <2>1. CASE TerminalFails("HALTED_UNCLEAN") /\ UNCHANGED <<ingress, frames, tail>>
      BY <1>1, <1>2, <1>3, <1>5, <1>8, <2>1, SameFrames DEF BindTerminal, Unclean
    <2>2. CASE ReleaseReserve /\ pc' = "seal" /\ UNCHANGED <<prewrite_capacity_denied, control>>
               /\ UNCHANGED ingress
      <3>1. Sealed' /\ frames' = frames /\ Bounded'
        BY <1>3, <2>2, SealedStays DEF ReleaseReserve, Bounded
      <3>2. Counted'
        BY <1>1, <1>2, <1>3, <1>8, <2>2, SameFrames
           DEF BindTerminal, ReleaseReserve, Counted, Placed, Fresh, Founded, ActiveCounts,
               EmergencyCounts, Covered, ActivePlaces, EmergencyPlaces, EndPlaces, Purging
      <3> QED
        BY <3>1, <3>2
    <2> QED
      BY <1>8, <2>1, <2>2 DEF BindTerminal
  <1>9. CASE AppendTerminal
    <2>1. CASE Residue("terminal") /\ TerminalFails("DURABILITY_UNCERTAIN_HALTED")
      <3>1. /\ frames' \in Seq(FrameKinds) /\ EmergencyFramesLast' /\ Groups' = Groups
        BY <1>1, <1>3, <1>4, <2>1, Left
      <3> QED
        BY <1>2, <1>3, <1>5, <1>9, <2>1, <3>1 DEF AppendTerminal, Unclean
    <2>2. CASE /\ frames' = Append(frames, "terminal") /\ pc' = "sealed"
               /\ UNCHANGED <<ingress, authority, files, unsynced, store, control>>
      <3>1. /\ frames' \in Seq(FrameKinds) /\ EmergencyFramesLast' /\ Groups' = Groups
        BY <1>1, <1>3, <1>4, <2>2, Appended
      <3>2. pc = "seal"
        BY <1>9 DEF AppendTerminal
      <3>3. Sealed' /\ Bounded'
        BY <1>2, <1>3, <2>2, <3>1, <3>2 DEF Sealed, Bounded, TerminalCoversEvidence
      <3>4. Counted'
        BY <1>1, <1>2, <1>3, <2>2, <3>1, <3>2
           DEF Counted, Placed, Fresh, Founded, ActiveCounts,
               EmergencyCounts, Covered, ActivePlaces, EmergencyPlaces, EndPlaces, Purging
      <3> QED
        BY <3>1, <3>3, <3>4
    <2> QED
      BY <1>9, <2>1, <2>2 DEF AppendTerminal
  <1>10. CASE Terminate
    <2>1. CASE \E how \in Unclean : TerminalFails(how) /\ UNCHANGED <<ingress, frames, tail>>
      BY <1>1, <1>2, <1>3, <1>5, <1>10, <2>1, SameFrames DEF Terminate
    <2>2. CASE /\ lifecycle' = "TERMINAL" /\ pc' = "done"
               /\ UNCHANGED <<ingress, disk, prewrite_capacity_denied, published,
                              publication_epoch>>
      <3>1. pc = "sealed"
        BY <1>10 DEF Terminate
      <3>2. Sealed' /\ frames' = frames /\ Bounded'
        BY <1>3, <2>2, SealedStays DEF Bounded
      <3>3. Counted'
        BY <1>1, <1>2, <1>3, <2>2, <3>1, SameFrames
           DEF Counted, Placed, Fresh, Founded, ActiveCounts,
               EmergencyCounts, Covered, ActivePlaces, EmergencyPlaces, EndPlaces, Purging
      <3> QED
        BY <3>2, <3>3
    <2> QED
      BY <1>10, <2>1, <2>2 DEF Terminate
  <1> QED
    BY <1>6, <1>7, <1>8, <1>9, <1>10 DEF Ordinary

LEMMA EmergencyKeeps == IInv /\ Emergency => Counts'
  <1> SUFFICES ASSUME IInv, Emergency PROVE Counts'
    OBVIOUS
  <1> USE DEF IInv, Counts, ingress, disk, store, control
  <1>1. /\ raws \in Nat /\ published \in Nat /\ publication_epoch \in Nat
        /\ Groups \in Nat /\ frames \in Seq(FrameKinds)
    BY Numbers
  <1>2. /\ lifecycle = "EMERGENCY_PENDING" /\ pc \in EmergencyPlaces
        /\ UNCHANGED <<raws, evidence_end>>
    BY DEF Emergency, RefuseCompletion, ReserveCompletion, ReservationFails, BindEmergency,
           AppendEmergencyGroup, AppendEmergencyTerminal, AppendEmergency, CommitEmergency,
           AbortPending, TakeEmergency, PublicationFails, Fail, Counted, Placed,
           EmergencyPlaces
  <1>3. /\ EmergencyFramesLast /\ ~terminal /\ publication_epoch = published + 1
        /\ prewrite_capacity_denied
        /\ Groups = IF pc \in {"emergency_seal", "commit"} THEN published + 1 ELSE published
        /\ published < raws
        /\ pc # "idle" => raws = published + 1 /\ evidence_end # "none"
        /\ pc \notin {"emergency_seal", "commit"}
             => OnlyGroups /\ ~Written("terminal")
        /\ pc \in {"emergency_seal", "commit"} => Written("emergency")
        /\ "journal" \in files /\ unsynced = {}
    BY <1>2, NoTerminalYet DEF Counted, Founded, EmergencyCounts, Sealed, EmergencyPlaces
  <1>4. /\ "terminal" \in FrameKinds /\ "terminal" \notin GroupFrames
        /\ "emergency" \in FrameKinds /\ "emergency" \in GroupFrames
    BY DEF FrameKinds, GroupFrames
  \* A failure of this path, whatever its frame left behind.
  <1>5. ASSUME NEW how \in Unclean, Fail(how), published' = published,
               frames' \in Seq(FrameKinds), EmergencyFramesLast',
               Written("terminal")' => Groups' = raws /\ evidence_end # "none"
        PROVE  Counts'
    <2>1. Void' /\ ~terminal' /\ publication_epoch' = publication_epoch
      BY <1>3, <1>5 DEF Fail, AbortOnce, Void, EndPlaces
    <2> QED
      BY <1>1, <1>2, <1>3, <1>5, <2>1, FailureKeeps DEF Bounded
  \* A step that leaves the frames alone and the emergency pending.
  <1>6. ASSUME UNCHANGED <<frames, published, publication_epoch, terminal,
                           prewrite_capacity_denied>>
        PROVE  Sealed' /\ Bounded' /\ frames' \in Seq(FrameKinds)
    BY <1>1, <1>2, <1>3, <1>6, SealedStays DEF Bounded
  <1>7. CASE RefuseCompletion
    <2>1. Counted'
      BY <1>1, <1>3, <1>7, SameFrames
         DEF RefuseCompletion, TakeEmergency, Counted, Placed, Fresh, Founded, ActiveCounts,
             EmergencyCounts, Covered, ActivePlaces, EmergencyPlaces, EndPlaces, Purging
    <2> QED
      BY <1>6, <1>7, <2>1 DEF RefuseCompletion
  <1>8. CASE ReserveCompletion
    <2>1. Counted'
      BY <1>1, <1>3, <1>8, SameFrames
         DEF ReserveCompletion, TakeEmergency, Counted, Placed, Fresh, Founded, ActiveCounts,
             EmergencyCounts, Covered, ActivePlaces, EmergencyPlaces, EndPlaces, Purging
    <2> QED
      BY <1>6, <1>8, <2>1 DEF ReserveCompletion
  <1>9. CASE ReservationFails
    BY <1>1, <1>2, <1>3, <1>5, <1>9, SameFrames
       DEF ReservationFails, TakeEmergency, PublicationFails, Unclean
  <1>10. CASE BindEmergency
    <2>1. CASE PublicationFails /\ UNCHANGED <<ingress, frames>>
      BY <1>1, <1>2, <1>3, <1>5, <1>10, <2>1, SameFrames
         DEF BindEmergency, PublicationFails, Unclean
    <2>2. CASE /\ ReleaseReserve /\ pc' = "emergency_group"
               /\ UNCHANGED <<ingress, prewrite_capacity_denied, control>>
      <3>1. pc = "bind_emergency"
        BY <1>10 DEF BindEmergency
      <3>2. Counted'
        BY <1>1, <1>2, <1>3, <2>2, <3>1, SameFrames
           DEF ReleaseReserve, Counted, Placed, Fresh, Founded, ActiveCounts,
               EmergencyCounts, Covered, ActivePlaces, EmergencyPlaces, EndPlaces, Purging
      <3> QED
        BY <1>6, <2>2, <3>2 DEF ReleaseReserve
    <2> QED
      BY <1>10, <2>1, <2>2 DEF BindEmergency
  <1>11. CASE AppendEmergencyGroup
    <2>1. pc = "emergency_group"
      BY <1>11 DEF AppendEmergencyGroup, AppendEmergency
    <2>2. CASE Residue("emergency") /\ PublicationFails
      <3>1. frames' \in Seq(FrameKinds) /\ EmergencyFramesLast' /\ ~Written("terminal")'
        BY <1>1, <1>3, <1>4, <2>1, <2>2, Left
      <3> QED
        BY <1>2, <1>3, <1>5, <2>2, <3>1 DEF PublicationFails, Unclean
    <2>3. CASE /\ frames' = Append(frames, "emergency") /\ pc' = "emergency_seal"
               /\ UNCHANGED <<ingress, files, unsynced, store, control>>
      <3>1. /\ frames' \in Seq(FrameKinds) /\ EmergencyFramesLast' /\ Groups' = Groups + 1
            /\ ~Written("terminal")' /\ Written("emergency")'
        BY <1>1, <1>3, <1>4, <2>1, <2>3, Appended
      <3>2. Sealed' /\ Bounded'
        BY <1>1, <1>2, <1>3, <2>3, <3>1 DEF Sealed, Bounded, TerminalCoversEvidence
      <3>3. Counted'
        BY <1>1, <1>2, <1>3, <2>1, <2>3, <3>1
           DEF Counted, Placed, Fresh, Founded, ActiveCounts,
               EmergencyCounts, Covered, ActivePlaces, EmergencyPlaces, EndPlaces, Purging
      <3> QED
        BY <3>1, <3>2, <3>3
    <2> QED
      BY <1>11, <2>2, <2>3 DEF AppendEmergencyGroup, AppendEmergency
  <1>12. CASE AppendEmergencyTerminal
    <2>1. pc = "emergency_seal"
      BY <1>12 DEF AppendEmergencyTerminal, AppendEmergency
    <2>2. CASE Residue("terminal") /\ PublicationFails
      <3>1. frames' \in Seq(FrameKinds) /\ EmergencyFramesLast' /\ Groups' = Groups
        BY <1>1, <1>3, <1>4, <2>1, <2>2, Left
      <3> QED
        BY <1>2, <1>3, <1>5, <2>1, <2>2, <3>1 DEF PublicationFails, Unclean
    <2>3. CASE /\ frames' = Append(frames, "terminal") /\ pc' = "commit"
               /\ UNCHANGED <<ingress, files, unsynced, store, control>>
      <3>1. /\ frames' \in Seq(FrameKinds) /\ EmergencyFramesLast' /\ Groups' = Groups
            /\ Written("emergency")'
        BY <1>1, <1>3, <1>4, <2>1, <2>3, Appended
      <3>2. Sealed' /\ Bounded'
        BY <1>1, <1>2, <1>3, <2>1, <2>3, <3>1 DEF Sealed, Bounded, TerminalCoversEvidence
      <3>3. Counted'
        BY <1>1, <1>2, <1>3, <2>1, <2>3, <3>1
           DEF Counted, Placed, Fresh, Founded, ActiveCounts,
               EmergencyCounts, Covered, ActivePlaces, EmergencyPlaces, EndPlaces, Purging
      <3> QED
        BY <3>1, <3>2, <3>3
    <2> QED
      BY <1>12, <2>2, <2>3 DEF AppendEmergencyTerminal, AppendEmergency
  <1>13. CASE CommitEmergency
    <2>1. pc = "commit"
      BY <1>13 DEF CommitEmergency
    <2>2. CASE PublicationFails /\ UNCHANGED <<ingress, frames>>
      BY <1>1, <1>2, <1>3, <1>5, <2>1, <2>2, SameFrames DEF PublicationFails, Unclean, Sealed,
            TerminalCoversEvidence
    <2>3. CASE /\ published' = published + 1
               /\ \/ lifecycle' = "TERMINAL" /\ pc' = "done"
                  \/ lifecycle' = "DURABILITY_UNCERTAIN_HALTED" /\ AbortOnce
               /\ UNCHANGED <<ingress, disk, publication_epoch>>
      <3>1. UNCHANGED <<Groups, Written("emergency"), Written("terminal"), EmergencyFramesLast>>
        BY <2>3, SameFrames
      <3>2. Sealed' /\ Bounded'
        BY <1>1, <1>2, <1>3, <2>1, <2>3, <3>1 DEF Sealed, Bounded, TerminalCoversEvidence
      <3>3. CASE lifecycle' = "TERMINAL" /\ pc' = "done"
        <4>1. Counted'
          BY <1>1, <1>2, <1>3, <2>1, <2>3, <3>1, <3>3
             DEF Counted, Placed, Fresh, Founded, ActiveCounts,
                 EmergencyCounts, Covered, ActivePlaces, EmergencyPlaces, EndPlaces, Purging
        <4> QED
          BY <1>1, <2>3, <3>2, <4>1
      <3>4. CASE lifecycle' = "DURABILITY_UNCERTAIN_HALTED" /\ AbortOnce
        <4>1. Void'
          BY <3>4 DEF AbortOnce, Void, Unclean, EndPlaces
        <4> QED
          BY <1>1, <2>3, <3>2, <4>1, VoidCounted
      <3> QED
        BY <2>3, <3>3, <3>4
    <2> QED
      BY <1>13, <2>2, <2>3 DEF CommitEmergency
  <1>14. CASE AbortPending
    BY <1>1, <1>2, <1>3, <1>5, <1>14, SameFrames DEF AbortPending, Unclean
  <1> QED
    BY <1>7, <1>8, <1>9, <1>10, <1>11, <1>12, <1>13, <1>14 DEF Emergency

LEMMA RestKeeps == IInv /\ (AuthorityChanges \/ Crash \/ Recover) => Counts'
  <1> SUFFICES ASSUME IInv, AuthorityChanges \/ Crash \/ Recover PROVE Counts'
    OBVIOUS
  <1> USE DEF IInv, Counts, ingress, disk, store, control
  <1>1. CASE AuthorityChanges
    <2>1. Sealed' /\ Bounded' /\ frames' = frames
      BY <1>1, SealedStays DEF AuthorityChanges, Sealed, Bounded
    <2>2. Counted'
      BY <1>1, SameFrames
         DEF AuthorityChanges, Counted, Placed, Fresh, Founded, ActiveCounts,
             EmergencyCounts, Covered
    <2> QED
      BY <2>1, <2>2
  <1>2. CASE Crash
    <2>1. /\ UNCHANGED <<frames, raws, evidence_end, published, publication_epoch>>
          /\ ~terminal' /\ lifecycle' = "NONE" /\ pc' = "down"
      BY <1>2 DEF Crash
    <2>2. Void'
      BY <2>1 DEF Void, Unclean, EndPlaces
    <2> QED
      BY <2>1, <2>2, VoidCounted, SealedStays DEF Bounded
  <1>3. CASE Recover
    <2>1. /\ UNCHANGED <<frames, raws, evidence_end, published, publication_epoch,
                         prewrite_capacity_denied, terminal, lifecycle>>
          /\ pc = "down" /\ pc' \in {"gone", Purging}
      BY <1>3 DEF Recover
    <2>2. Void'
      BY <2>1 DEF Counted, Placed, Void, Unclean, EndPlaces, Purging, ActivePlaces,
                  EmergencyPlaces, Types, Lifecycles
    <2> QED
      BY <2>1, <2>2, VoidCounted, SealedStays DEF Sealed, Bounded
  <1> QED
    BY <1>1, <1>2, <1>3

LEMMA Inductive == IInv /\ [Next]_vars => IInv'
  <1> SUFFICES ASSUME IInv, [Next]_vars PROVE IInv'
    OBVIOUS
  <1>1. CASE UNCHANGED vars
    <2>1. UNCHANGED <<Groups, OnlyGroups, EmergencyFramesLast,
                      Written("emergency"), Written("terminal")>>
      BY <1>1, SameFrames DEF vars
    <2>2. Counts'
      BY <1>1, <2>1
         DEF IInv, vars, Counts, Counted, Placed, Fresh, Founded, ActiveCounts,
             EmergencyCounts, Covered, Bounded, Sealed, TerminalCoversEvidence
    <2> QED
      BY <1>1, <2>2 DEF IInv, vars, Types, Flags
  <1>2. CASE Next
    <2>1. Counts'
      BY <1>2, CreateKeeps, CleanupKeeps, EvidenceKeeps, ParentKeeps, OrdinaryKeeps,
         EmergencyKeeps, PurgeKeeps, RestKeeps DEF Next
    <2>2. Types'
      BY <1>2, CreateTypes, CleanupTypes, EvidenceTypes, ParentTypes, OrdinaryTypes,
         EmergencyTypes, PurgeTypes, RestTypes DEF Next, IInv
    <2> QED
      BY <2>1, <2>2 DEF IInv
  <1> QED
    BY <1>1, <1>2

LEMMA Initial == Init => IInv
  <1> SUFFICES ASSUME Init PROVE IInv
    OBVIOUS
  <1>1. frames = << >> /\ Groups = 0 /\ OnlyGroups /\ EmergencyFramesLast
        /\ ~Written("terminal")
    BY FS_EmptySet DEF Init, Groups, OnlyGroups, EmergencyFramesLast, Written, ToSet
  <1>2. Types
    <2>1. Flags
      BY Zenon DEF Init, Flags
    <2> QED
      BY <2>1, FollowerAssumption
         DEF Init, Types, Reasons, Companion, WriterStates, Lifecycles,
             PendingStates
  <1>3. Counts
    BY <1>1 DEF Init, Counts, Counted, Placed, Fresh, Founded, ActiveCounts, EmergencyCounts,
                Covered, Bounded, Sealed, TerminalCoversEvidence, ActivePlaces,
                EmergencyPlaces, EndPlaces, Purging
  <1> QED
    BY <1>2, <1>3 DEF IInv

LEMMA Implied == IInv => CompanionFollowsEvidence
  <1> SUFFICES ASSUME IInv PROVE CompanionFollowsEvidence
    OBVIOUS
  <1> USE DEF IInv, Counts
  <1>1. /\ raws \in Nat /\ published \in Nat /\ publication_epoch \in Nat
        /\ Groups \in Nat
    BY Numbers
  <1>2. TypeOK
    <2>1. published \in 0 .. MaxParents /\ publication_epoch \in 0 .. MaxParents + 1
      BY <1>1, FollowerAssumption DEF Types, Bounded
    <2>2. {prewrite_capacity_denied, attempted, terminal} \subseteq BOOLEAN
      BY DEF Types, Flags
    <2> QED
      BY <2>1, <2>2 DEF TypeOK, Types, FrameKinds
  <1>3. CursorIsDurable
    BY <1>1 DEF CursorIsDurable, Counted, Founded, ActiveCounts, EmergencyCounts, Covered
  <1>4. EmergencyIsLast
    BY DEF EmergencyIsLast, Sealed, EmergencyFramesLast, Counted, Placed, Founded,
           ActiveCounts, EmergencyCounts, ActivePlaces, EmergencyPlaces
  <1> QED
    BY <1>2, <1>3, <1>4 DEF CompanionFollowsEvidence, Sealed

\* The companion follows its evidence through every race of drains, terminals,
\* denied capacity and crashes: the published cursor is what is durable, a
\* terminal covers every raw record, and an emergency group is the last one.
THEOREM CompanionFollows == Spec => []CompanionFollowsEvidence
  <1>1. Spec => []IInv
    BY Initial, Inductive, PTL DEF Spec
  <1> QED
    BY <1>1, Implied, PTL

-----------------------------------------------------------------------------
(* The refinement: what the owner sees of a step, by the kind of step. *)

Ending == IF lifecycle = "TERMINAL" THEN "complete"
           ELSE IF lifecycle \in Unclean \cup {"NONE"} THEN "void" ELSE "open"

LEMMA CrashSeen ==
    ASSUME UNCHANGED <<raws, evidence_end, published>>, Ending' = "void"
    PROVE  Promise!Crash
  BY DEF Promise!Crash, Ending

LEMMA SameSeen ==
    ASSUME UNCHANGED <<raws, evidence_end, published>>, Ending' = Ending
    PROVE  UNCHANGED Promise!companion
  BY DEF Promise!companion, Ending

LEMMA EvidenceSeen == IInv /\ Evidence => [Promise!Next]_(Promise!companion)
  <1> SUFFICES ASSUME IInv, Evidence PROVE [Promise!Next]_(Promise!companion)
    OBVIOUS
  <1> USE DEF ingress, disk, store, control
  <1>1. CASE Enqueue \/ StopInputs
    BY <1>1, SameSeen DEF Enqueue, StopInputs, Ending
  <1>2. CASE DrainParent
    BY <1>2 DEF DrainParent, MayDrain, Promise!Next, Promise!Persist
  <1>3. CASE DrainTerminal
    BY <1>3 DEF DrainTerminal, MayDrain, Promise!Next, Promise!End
  <1>4. CASE CloseExternalHalt
    BY <1>4 DEF CloseExternalHalt, MayDrain, Promise!Next, Promise!End
  <1>5. CASE DrainFails
    <2>1. /\ raws' \in {raws, raws + 1} /\ evidence_end = "none"
          /\ UNCHANGED <<evidence_end, published>>
      BY <1>5 DEF DrainFails, MayDrain, Fail
    <2>2. CASE lifecycle = "ACTIVE" /\ raws' = raws + 1
      BY <1>5, <2>1, <2>2
         DEF DrainFails, Fail, Unclean, Promise!Next, Promise!PersistAndGiveUp
    <2>3. CASE lifecycle = "ACTIVE" /\ raws' = raws
      BY <1>5, <2>1, <2>3, CrashSeen DEF DrainFails, Fail, Unclean, Ending, Promise!Next
    <2>4. CASE UNCHANGED lifecycle /\ raws' = raws + 1
      BY <2>1, <2>4 DEF Promise!Next, Promise!Persist
    <2>5. CASE UNCHANGED lifecycle /\ raws' = raws
      BY <2>1, <2>5, SameSeen DEF Ending
    <2> QED
      BY <1>5, <2>1, <2>2, <2>3, <2>4, <2>5 DEF DrainFails
  <1> QED
    BY <1>1, <1>2, <1>3, <1>4, <1>5 DEF Evidence

\* Creation opens the companion or gives it up; what is unlinked is not seen.
LEMMA FilesSeen ==
    IInv /\ (Create \/ Cleanup \/ Purge \/ AuthorityChanges \/ Crash \/ Recover)
        => [Promise!Next]_(Promise!companion)
  <1> SUFFICES ASSUME IInv, Create \/ Cleanup \/ Purge \/ AuthorityChanges \/ Crash \/ Recover
               PROVE  [Promise!Next]_(Promise!companion)
    OBVIOUS
  <1> USE DEF ingress, disk, store, control
  <1>1. UNCHANGED <<raws, evidence_end, published>>
    BY DEF Create, CreateFile, SyncFile, CreateController, CreateFails,
           ControllerFails, Cleanup, CleanSessions, CleanMarkers, Purge, PurgeSessions, PurgeMarker, PurgeDone,
           PurgeFails, AuthorityChanges, Crash, Recover
  <1>2. CASE UNCHANGED lifecycle
    BY <1>1, <1>2, SameSeen DEF Ending
  <1>3. CASE CreateController
    BY <1>1, <1>3, SameSeen
       DEF CreateController, Ending, IInv, Counts, Counted, Placed, Unclean
  <1>4. CASE CreateFails \/ ControllerFails \/ Crash
    BY <1>1, <1>4, CrashSeen DEF CreateFails, ControllerFails, Crash, Ending, Promise!Next
  <1> QED
    BY <1>2, <1>3, <1>4
       DEF Create, CreateFile, SyncFile, Cleanup, CleanSessions, CleanMarkers, Purge,
           PurgeSessions, PurgeMarker, PurgeDone, PurgeFails, AuthorityChanges, Recover

LEMMA ParentSeen == IInv /\ Parent => [Promise!Next]_(Promise!companion)
  <1> SUFFICES ASSUME IInv, Parent PROVE [Promise!Next]_(Promise!companion)
    OBVIOUS
  <1> USE DEF ingress, disk, store, control
  <1>1. CASE Publish
    <2>1. /\ lifecycle = "ACTIVE" /\ raws = published + 1
          /\ published' = published + 1 /\ UNCHANGED <<raws, evidence_end>>
          /\ lifecycle' \in {"ACTIVE", "HALTED_UNCLEAN"}
      BY <1>1 DEF Publish, IInv, Counts, Counted, Placed, ActivePlaces, ActiveCounts
    <2>2. published \in Nat
      BY Numbers DEF IInv, Counts
    <2> QED
      BY <2>1, <2>2 DEF Promise!Next, Promise!Publish, Unclean
  <1>2. CASE ~Publish
    <2>1. UNCHANGED <<raws, evidence_end, published>>
      BY <1>2 DEF Parent, ClaimPermit, DenyCapacity, PrepareFails, RefuseParent,
                  AppendGroup, AppendFails, AcknowledgeFails, TakeParent
    <2>2. \/ UNCHANGED lifecycle
          \/ lifecycle = "ACTIVE" /\ lifecycle' = "EMERGENCY_PENDING"
          \/ lifecycle' \in Unclean
      BY <1>2 DEF Parent, ClaimPermit, DenyCapacity, PrepareFails, RefuseParent,
                  AppendGroup, AppendFails, AcknowledgeFails, TakeParent, PendingIssued,
                  Fail, Unclean
    <2>3. CASE lifecycle' \in Unclean
      BY <2>1, <2>3, CrashSeen DEF Ending, Unclean, Promise!Next
    <2> QED
      BY <2>1, <2>2, <2>3, SameSeen DEF Ending, Unclean
  <1> QED
    BY <1>1, <1>2

LEMMA OrdinarySeen == IInv /\ Ordinary => [Promise!Next]_(Promise!companion)
  <1> SUFFICES ASSUME IInv, Ordinary PROVE [Promise!Next]_(Promise!companion)
    OBVIOUS
  <1> USE DEF ingress, disk, store, control
  <1>1. UNCHANGED <<raws, evidence_end, published>>
    BY DEF Ordinary, ProveTail, TailNotProven, TakeTerminal, BindTerminal, AppendTerminal,
           Terminate, TerminalFails
  <1>2. CASE lifecycle' = "TERMINAL" /\ Terminate
    <2>1. /\ lifecycle = "ACTIVE" /\ raws = published /\ evidence_end # "none"
      BY <1>2 DEF Terminate, IInv, Counts, Counted, Placed, ActivePlaces, ActiveCounts
    <2>2. published \in Nat
      BY Numbers DEF IInv, Counts
    <2> QED
      BY <1>1, <1>2, <2>1, <2>2 DEF Promise!Next, Promise!Complete, Unclean
  <1>3. CASE lifecycle' \in Unclean
    BY <1>1, <1>3, CrashSeen DEF Ending, Unclean, Promise!Next
  <1>4. CASE UNCHANGED lifecycle
    BY <1>1, <1>4, SameSeen DEF Ending
  <1> QED
    BY <1>2, <1>3, <1>4
       DEF Ordinary, ProveTail, TailNotProven, BindTerminal, AppendTerminal,
           Terminate, TerminalFails, Fail, Unclean

LEMMA EmergencySeen == IInv /\ Emergency => [Promise!Next]_(Promise!companion)
  <1> SUFFICES ASSUME IInv, Emergency PROVE [Promise!Next]_(Promise!companion)
    OBVIOUS
  <1> USE DEF ingress, disk, store, control
  <1>1. UNCHANGED <<raws, evidence_end>>
    BY DEF Emergency, RefuseCompletion, ReserveCompletion, ReservationFails, BindEmergency,
           AppendEmergencyGroup, AppendEmergencyTerminal, AppendEmergency, CommitEmergency,
           AbortPending, TakeEmergency, PublicationFails
  <1>2. CASE CommitEmergency /\ ~PublicationFails
    <2>1. /\ lifecycle = "EMERGENCY_PENDING" /\ raws = published + 1
          /\ evidence_end # "none" /\ published' = published + 1
          /\ lifecycle' \in {"TERMINAL", "DURABILITY_UNCERTAIN_HALTED"}
      BY <1>2 DEF CommitEmergency, IInv, Counts, Counted, Placed, EmergencyPlaces,
                  EmergencyCounts
    <2>2. published \in Nat
      BY Numbers DEF IInv, Counts
    <2> QED
      BY <1>1, <2>1, <2>2 DEF Promise!Next, Promise!Complete, Unclean
  <1>3. CASE ~(CommitEmergency /\ ~PublicationFails)
    <2>1. published' = published /\ (UNCHANGED lifecycle \/ lifecycle' \in Unclean)
      BY <1>3 DEF Emergency, RefuseCompletion, ReserveCompletion, ReservationFails,
           BindEmergency, AppendEmergencyGroup, AppendEmergencyTerminal, AppendEmergency,
           CommitEmergency, AbortPending, TakeEmergency, PublicationFails, Fail, Unclean
    <2>2. CASE lifecycle' \in Unclean
      BY <1>1, <2>1, <2>2, CrashSeen DEF Ending, Unclean, Promise!Next
    <2> QED
      BY <1>1, <2>1, <2>2, SameSeen DEF Ending
  <1> QED
    BY <1>2, <1>3

\* The companion implements what it promises its owner: one group per durable
\* parent, in order, and an end that is complete over an ended session or void.
THEOREM CompanionRefines == Spec => FollowsPromise
  <1>1. Spec => []IInv
    BY Initial, Inductive, PTL DEF Spec
  <1>2. Init => Promise!Init
    BY DEF Init, Promise!Init, Unclean
  <1>3. IInv /\ [Next]_vars => [Promise!Next]_(Promise!companion)
    <2>1. CASE UNCHANGED vars
      BY <2>1, SameSeen DEF vars, Ending
    <2> QED
      BY <2>1, FilesSeen, EvidenceSeen, ParentSeen, OrdinarySeen, EmergencySeen DEF Next
  <1> QED
    BY <1>1, <1>2, <1>3, PTL DEF Spec, FollowsPromise, Promise!Spec

-----------------------------------------------------------------------------
(* TennisMatch.  What a score of the contracts is made of. *)

SideCounts == [Side -> Nat]
SetTiebreaks == SideCounts \cup {NoTiebreak}
SetScores == [games : SideCounts, tiebreak : SetTiebreaks]

Statuses == {"SCHEDULED", "LIVE", "SUSPENDED", "ENDED", "CANCELLED"}
Terminations == {"NONE", "NATURAL", "WALKOVER", "RETIREMENT", "CANCELLATION"}

Scores ==
    [status : Statuses, termination : Terminations, winner : Side \cup {Nobody},
     retired : Side \cup {Nobody}, sets : Seq(SetScores), games : SideCounts, points : SideCounts,
     in_tiebreak : BOOLEAN, tiebreak : SideCounts, tiebreak_first_server : Side \cup {Nobody},
     server : Side \cup {Nobody}]

\* A record with the fields of a score is one.
LEMMA ScoreMade ==
    ASSUME NEW t,
           t = [status |-> t.status, termination |-> t.termination, winner |-> t.winner,
                retired |-> t.retired, sets |-> t.sets, games |-> t.games, points |-> t.points,
                in_tiebreak |-> t.in_tiebreak, tiebreak |-> t.tiebreak,
                tiebreak_first_server |-> t.tiebreak_first_server, server |-> t.server],
           t.status \in Statuses, t.termination \in Terminations,
           t.winner \in Side \cup {Nobody}, t.retired \in Side \cup {Nobody},
           t.sets \in Seq(SetScores), t.games \in SideCounts, t.points \in SideCounts,
           t.in_tiebreak \in BOOLEAN, t.tiebreak \in SideCounts,
           t.tiebreak_first_server \in Side \cup {Nobody}, t.server \in Side \cup {Nobody}
    PROVE  t \in Scores
  BY DEF Scores

\* The two sides, and nobody.
LEMMA SidesAre ==
    /\ \A x \in Side : /\ Opposite(x) \in Side /\ Opposite(x) # x
                       /\ Opposite(Opposite(x)) = x
                       /\ \A y \in Side : y = x \/ y = Opposite(x)
    /\ Nobody \notin Side /\ "home" \in Side /\ "away" \in Side
    /\ Opposite("home") = "away" /\ Opposite("away") = "home"
  BY DEF Side, Opposite, Nobody

\* Nothing counted for either side.
LEMMA ZeroIs == Zero \in SideCounts /\ \A x \in Side : Zero[x] = 0
  BY DEF Zero, SideCounts

\* A tiebreak that was played, to whatever score, is not a missing one.
LEMMA NotPlayed == NoTiebreak \notin SideCounts
  <1>1. DOMAIN NoTiebreak = {"played"}
    BY DEF NoTiebreak
  <1>2. \A c \in SideCounts : "home" \in DOMAIN c
    BY DEF SideCounts, Side
  <1> QED BY <1>1, <1>2

(* A set is won by the side that has more games of it. *)
WonBy(set, x) ==
    IF set.tiebreak = NoTiebreak
    THEN \/ set.games[x] = SetGames /\ set.games[Opposite(x)] + 2 <= SetGames
         \/ set.games[x] = SetGames + 1 /\ set.games[Opposite(x)] + 1 = SetGames
    ELSE /\ set.games[x] = SetGames + 1 /\ set.games[Opposite(x)] = SetGames
         /\ set.tiebreak[x] >= TiebreakPoints
         /\ set.tiebreak[x] >= set.tiebreak[Opposite(x)] + 2

\* The winner that the code reads from a set is the one that won it.
LEMMA SetWinner ==
    ASSUME NEW set \in SetScores
    PROVE  /\ \A x \in Side : WonBy(set, x) => CompletedSetWinner(set) = x
           /\ \A x \in Side : CompletedSetWinner(set) = x => WonBy(set, x)
           /\ CompletedSetWinner(set) \in Side \cup {Nobody}
           /\ \A x \in Side : WonBy(set, x) => set.games[x] > set.games[Opposite(x)]
  <1>1. \A x \in Side : set.games[x] \in Nat
    BY DEF SetScores, SideCounts
  <1>2. SetGames \in Nat /\ TiebreakPoints \in Nat
    BY ScoreAssumption
  <1>3. ASSUME NEW x \in Side, WonBy(set, x)
        PROVE  set.games[x] > set.games[Opposite(x)]
    BY <1>1, <1>2, <1>3, SidesAre DEF WonBy
  <1>4. ASSUME NEW x \in Side, NEW y \in Side, WonBy(set, x), WonBy(set, y)
        PROVE  x = y
    <2>1. y # x => y = Opposite(x) /\ x = Opposite(y)
      BY SidesAre
    <2>2. set.games[x] > set.games[Opposite(x)] /\ set.games[y] > set.games[Opposite(y)]
      BY <1>3, <1>4
    <2> QED BY <1>1, <2>1, <2>2
  <1>5. CompletedSetWinner(set)
           = IF \E x \in Side : WonBy(set, x) THEN CHOOSE x \in Side : WonBy(set, x) ELSE Nobody
    BY DEF CompletedSetWinner, WonBy
  <1>6. CASE \E x \in Side : WonBy(set, x)
    <2>1. CompletedSetWinner(set) \in Side /\ WonBy(set, CompletedSetWinner(set))
      BY <1>5, <1>6
    <2> QED BY <1>3, <1>4, <2>1
  <1>7. CASE ~\E x \in Side : WonBy(set, x)
    BY <1>5, <1>7, SidesAre
  <1> QED BY <1>6, <1>7

(* Sets won, one set at a time. *)
LEMMA WinsAppend ==
    ASSUME NEW sets \in Seq(SetScores), NEW set \in SetScores, NEW x \in Side
    PROVE  /\ SetsWonBy(sets, x) \in Nat
           /\ SetsWonBy(Append(sets, set), x)
                 = SetsWonBy(sets, x) + (IF CompletedSetWinner(set) = x THEN 1 ELSE 0)
  <1> DEFINE more == Append(sets, set)
             n == Len(sets)
             W(s) == {i \in DOMAIN s : CompletedSetWinner(s[i]) = x}
  <1>1. /\ n \in Nat /\ DOMAIN sets = 1 .. n /\ DOMAIN more = 1 .. n + 1
        /\ \A i \in 1 .. n : more[i] = sets[i] /\ more[n + 1] = set
        /\ more[n + 1] = set
    OBVIOUS
  <1> HIDE DEF more, n
  <1>2. IsFiniteSet(W(sets)) /\ n + 1 \notin W(sets)
    <2>1. W(sets) \subseteq 1 .. n
      BY <1>1
    <2>2. n \in Int /\ 1 \in Int
      BY <1>1
    <2>3. IsFiniteSet(1 .. n)
      BY <2>2, FS_Interval
    <2> QED BY <1>1, <2>1, <2>3, FS_Subset
  <1>3. W(more) = IF CompletedSetWinner(set) = x THEN W(sets) \cup {n + 1} ELSE W(sets)
    BY <1>1
  <1>4. Cardinality(W(sets)) \in Nat
        /\ Cardinality(W(sets) \cup {n + 1}) = Cardinality(W(sets)) + 1
    BY <1>2, FS_CardinalityType, FS_AddElement
  <1>5. Cardinality(W(more)) = Cardinality(W(sets)) + (IF CompletedSetWinner(set) = x THEN 1 ELSE 0)
    <2>1. CASE CompletedSetWinner(set) = x
      BY <1>3, <1>4, <2>1
    <2>2. CASE CompletedSetWinner(set) # x
      <3>1. Cardinality(W(more)) = Cardinality(W(sets))
        BY <1>3, <2>2
      <3> HIDE DEF W
      <3> QED BY <1>4, <2>2, <3>1
    <2> QED BY <2>1, <2>2
  <1> QED BY <1>4, <1>5 DEF SetsWonBy, more

\* Nobody has won a set before the first.
LEMMA NoWins ==
    ASSUME NEW x
    PROVE  SetsWonBy(<< >>, x) = 0
  <1>1. {i \in DOMAIN << >> : CompletedSetWinner(<< >>[i]) = x} = {}
    OBVIOUS
  <1> QED BY <1>1, FS_EmptySet DEF SetsWonBy

(* A well-formed set is led by its winner. *)
LEMMA LedIsWon ==
    ASSUME NEW sets \in Seq(SetScores), \A i \in DOMAIN sets : CompletedSetWinner(sets[i]) # Nobody,
           NEW x \in Side
    PROVE  SetsLedBy(sets, x) = SetsWonBy(sets, x)
  <1>1. ASSUME NEW i \in DOMAIN sets
        PROVE  sets[i].games[x] > sets[i].games[Opposite(x)] <=> CompletedSetWinner(sets[i]) = x
    <2> DEFINE set == sets[i]
               w == CompletedSetWinner(set)
    <2>1. set \in SetScores
      OBVIOUS
    <2>2. w \in Side /\ WonBy(set, w) /\ set.games[w] > set.games[Opposite(w)]
      BY <2>1, SetWinner
    <2>3. \A y \in Side : set.games[y] \in Nat
      BY <2>1 DEF SetScores, SideCounts
    <2>4. w = x \/ (w = Opposite(x) /\ x = Opposite(w))
      BY <2>2, SidesAre
    <2> HIDE DEF set, w
    <2>5. set.games[x] > set.games[Opposite(x)] <=> w = x
      BY <2>2, <2>3, <2>4, SidesAre
    <2> QED BY <2>5 DEF set, w
  <1> QED BY <1>1 DEF SetsLedBy, SetsWonBy

(* Sets that decide nothing. *)
LEMMA Undecided ==
    ASSUME NEW sets
    PROVE  ClinchingSide(sets) = Nobody <=> \A x \in Side : ~(SetsWonBy(sets, x) >= SetsRequired)
  <1>1. CASE \E x \in Side : SetsWonBy(sets, x) >= SetsRequired
    <2>1. ClinchingSide(sets) \in Side
      BY <1>1 DEF ClinchingSide
    <2> QED BY <1>1, <2>1, SidesAre
  <1>2. CASE ~\E x \in Side : SetsWonBy(sets, x) >= SetsRequired
    BY <1>2 DEF ClinchingSide
  <1> QED BY <1>1, <1>2

(* A set that is won ends the match or starts the next one. *)
LEMMA SetCompleted ==
    ASSUME NEW s \in Scores, PrefixValid(s.sets), ClinchingSide(s.sets) = Nobody,
           NEW w \in Side, NEW set \in SetScores, WonBy(set, w), NEW next \in Side,
           NEW t, t = CompleteSet(s, set, next)
    PROVE  /\ t \in Scores /\ Reachable(t)
           /\ t.sets = Append(s.sets, set) /\ t.games = Zero /\ t.points = Zero
           /\ ~t.in_tiebreak /\ t.tiebreak = Zero /\ t.tiebreak_first_server = Nobody
           /\ t.server \in {next, Nobody} /\ t.status \in {"LIVE", "ENDED"}
           /\ t.termination = "NATURAL" <=> \E x \in Side : SetsWonBy(t.sets, x) = SetsRequired
  <1> DEFINE sets == Append(s.sets, set)
             n == Len(s.sets)
  <1>1. /\ s.sets \in Seq(SetScores) /\ sets \in Seq(SetScores) /\ n \in Nat
        /\ Len(sets) = n + 1 /\ DOMAIN s.sets = 1 .. n /\ DOMAIN sets = 1 .. n + 1
        /\ \A i \in 1 .. n : sets[i] = s.sets[i]
        /\ sets[n + 1] = set
        /\ SubSeq(sets, 1, n) = s.sets
    <2>1. s.sets \in Seq(SetScores)
      BY DEF Scores
    <2> QED BY <2>1
  <1>2. CompletedSetWinner(set) = w
    BY SetWinner
  <1>3. \A x \in Side : /\ SetsWonBy(s.sets, x) \in Nat
                        /\ SetsWonBy(sets, x) = SetsWonBy(s.sets, x) + (IF w = x THEN 1 ELSE 0)
    BY <1>1, <1>2, WinsAppend
  <1>4. \A x \in Side : SetsWonBy(s.sets, x) < SetsRequired
    BY <1>3, Undecided, ScoreAssumption
  <1>5. \A i \in DOMAIN sets : CompletedSetWinner(sets[i]) # Nobody
    <2>1. \A i \in DOMAIN s.sets : CompletedSetWinner(s.sets[i]) # Nobody
      BY DEF PrefixValid
    <2>2. \A i \in 1 .. n + 1 : i \in 1 .. n \/ i = n + 1
      BY <1>1
    <2>3. w # Nobody
      BY SidesAre
    <2> HIDE DEF sets, n
    <2> QED BY <1>1, <1>2, <2>1, <2>2, <2>3
  <1>6. PrefixValid(sets)
    <2>1. SubSeq(sets, 1, Len(sets) - 1) = s.sets
      BY <1>1
    <2> QED BY <1>4, <1>5, <2>1 DEF PrefixValid
  <1>7. \A x \in Side : SetsLedBy(sets, x) = SetsWonBy(sets, x)
    BY <1>1, <1>5, LedIsWon
  <1>8. /\ \A x \in Side : SetsWonBy(sets, x) \in Nat /\ SetsWonBy(sets, x) <= SetsRequired
        /\ \A x \in Side : x # w => SetsWonBy(sets, x) < SetsRequired
    BY <1>3, <1>4, ScoreAssumption
  <1> DEFINE over == SetsWonBy(sets, w) = SetsRequired
             winner == IF over THEN w ELSE Nobody
  <1> HIDE DEF sets
  <1>9. /\ over <=> \E x \in Side : SetsWonBy(sets, x) = SetsRequired
        /\ over <=> \E x \in Side : SetsLedBy(sets, x) = SetsRequired
        /\ over => w = CHOOSE x \in Side : SetsLedBy(sets, x) = SetsRequired
        /\ over => w = CHOOSE x \in Side : SetsWonBy(sets, x) >= SetsRequired
    <2>1. \A x \in Side : SetsWonBy(sets, x) = SetsRequired => x = w
      BY <1>8, ScoreAssumption
    <2>2. \A x \in Side : SetsWonBy(sets, x) >= SetsRequired => x = w
      BY <1>8, ScoreAssumption
    <2>3. over => SetsWonBy(sets, w) >= SetsRequired
      BY ScoreAssumption
    <2>4. over => w = CHOOSE x \in Side : SetsLedBy(sets, x) = SetsRequired
      BY <1>7, <2>1
    <2>5. over => w = CHOOSE x \in Side : SetsWonBy(sets, x) >= SetsRequired
      BY <2>2, <2>3
    <2> QED BY <1>7, <2>1, <2>4, <2>5
  <1>10. ClinchingSide(sets) = winner
    <2>1. CASE over
      <3>1. SetsWonBy(sets, w) >= SetsRequired
        BY <2>1, ScoreAssumption
      <3> QED BY <1>9, <2>1, <3>1 DEF ClinchingSide
    <2>2. CASE ~over
      <3>1. \A x \in Side : ~(SetsWonBy(sets, x) >= SetsRequired)
        BY <1>8, <2>2, ScoreAssumption
      <3> QED BY <2>2, <3>1, Undecided
    <2> QED BY <2>1, <2>2
  <1>11. winner \in Side \cup {Nobody} /\ (winner # Nobody <=> over)
    BY SidesAre
  <1>12. t = [status |-> IF over THEN "ENDED" ELSE "LIVE",
              termination |-> IF over THEN "NATURAL" ELSE "NONE",
              winner |-> winner, retired |-> Nobody, sets |-> sets,
              games |-> Zero, points |-> Zero, in_tiebreak |-> FALSE,
              tiebreak |-> Zero, tiebreak_first_server |-> Nobody,
              server |-> IF over THEN Nobody ELSE next]
    <2>1. winner = IF \E x \in Side : SetsLedBy(sets, x) = SetsRequired
                   THEN CHOOSE x \in Side : SetsLedBy(sets, x) = SetsRequired
                   ELSE Nobody
      BY <1>9
    <2>2. sets = Append(s.sets, set)
      BY DEF sets
    <2> HIDE DEF over, winner
    <2> QED BY <1>11, <2>1, <2>2 DEF CompleteSet
  <1> HIDE DEF winner, over
  <1>13. t \in Scores
    <2>1. {"ENDED", "LIVE"} \subseteq Statuses /\ {"NATURAL", "NONE"} \subseteq Terminations
      BY DEF Statuses, Terminations
    <2>2. /\ Nobody \in Side \cup {Nobody} /\ Zero \in SideCounts /\ FALSE \in BOOLEAN
          /\ next \in Side \cup {Nobody} /\ sets \in Seq(SetScores)
      BY <1>1, ZeroIs DEF sets
    <2>3. /\ t.status \in {"ENDED", "LIVE"} /\ t.termination \in {"NATURAL", "NONE"}
          /\ t.winner = winner /\ t.retired = Nobody /\ t.sets = sets
          /\ t.games = Zero /\ t.points = Zero /\ t.in_tiebreak = FALSE
          /\ t.tiebreak = Zero /\ t.tiebreak_first_server = Nobody /\ t.server \in {Nobody, next}
          /\ t = [status |-> t.status, termination |-> t.termination, winner |-> t.winner,
                retired |-> t.retired, sets |-> t.sets, games |-> t.games, points |-> t.points,
                in_tiebreak |-> t.in_tiebreak, tiebreak |-> t.tiebreak,
                tiebreak_first_server |-> t.tiebreak_first_server, server |-> t.server]
      BY <1>12
    <2>4. t.status \in Statuses /\ t.termination \in Terminations
      BY <2>1, <2>3
    <2>5. t.server \in Side \cup {Nobody}
      BY <2>2, <2>3
    <2> QED BY <1>11, <2>2, <2>3, <2>4, <2>5, ScoreMade
  <1>14. /\ t.sets = sets /\ t.games = Zero /\ t.points = Zero
         /\ ~t.in_tiebreak /\ t.tiebreak = Zero /\ t.tiebreak_first_server = Nobody
         /\ t.winner = winner /\ t.retired = Nobody
         /\ over => t.status = "ENDED" /\ t.termination = "NATURAL" /\ t.server = Nobody
         /\ ~over => t.status = "LIVE" /\ t.termination = "NONE" /\ t.server = next
    BY <1>12
  <1>15. Reachable(t)
    <2>1. CASE over
      BY <1>6, <1>10, <1>11, <1>14, <2>1 DEF Reachable, SetIsZero
    <2>2. CASE ~over
      <3>1. winner = Nobody
        BY <1>11, <2>2
      <3>2. ClinchingSide(t.sets) = Nobody /\ PrefixValid(t.sets)
        BY <1>6, <1>10, <1>14, <3>1
      <3>3. /\ \A x \in Side : t.games[x] <= SetGames
            /\ t.games # [x \in Side |-> SetGames] /\ ~NormalSetWon(t.games)
        <4>1. \A x \in Side : t.games[x] = 0
          BY <1>14, ZeroIs
        <4>2. t.games # [x \in Side |-> SetGames]
          BY <4>1, SidesAre, ScoreAssumption
        <4>3. ~NormalSetWon(t.games)
          BY <4>1, ScoreAssumption DEF NormalSetWon, LeadsByTwo
        <4> QED BY <4>1, <4>2, <4>3, ScoreAssumption
      <3>4. IncompleteScoreIsReachable(t, TRUE)
        BY <1>14, <2>2, <3>2, <3>3, SidesAre DEF IncompleteScoreIsReachable
      <3> QED BY <1>14, <2>2, <3>1, <3>4 DEF Reachable, NothingDecided
    <2> QED BY <2>1, <2>2
  <1> QED BY <1>9, <1>13, <1>14, <1>15 DEF sets

\* What EveryScoreValidates says of the score, of any score.
PointsInRange(s) ==
    \A x \in Side : /\ s.points[x] <= Advantage
                    /\ s.points[x] = Advantage => s.points[Opposite(x)] = Forty

Validates(s) ==
    /\ s \in Scores /\ Reachable(s) /\ PointsInRange(s)
    /\ s.in_tiebreak => s.points = Zero
    /\ ~s.in_tiebreak => s.tiebreak = Zero /\ s.tiebreak_first_server = Nobody
    /\ s.termination = "NATURAL" <=> \E x \in Side : SetsWonBy(s.sets, x) = SetsRequired

\* A score of a match under way.
Playing(s) == s.status = "LIVE" /\ Validates(s)

\* What a match under way consists of.
LEMMA PlayingIs ==
    ASSUME NEW s, Playing(s)
    PROVE  /\ s \in Scores /\ NothingDecided(s) /\ IncompleteScoreIsReachable(s, TRUE)
           /\ PointsInRange(s) /\ s.server \in Side
           /\ PrefixValid(s.sets) /\ ClinchingSide(s.sets) = Nobody
           /\ s.sets \in Seq(SetScores) /\ s.games \in SideCounts /\ s.points \in SideCounts
           /\ s.tiebreak \in SideCounts
  <1>1. s \in Scores /\ s.status = "LIVE" /\ Reachable(s) /\ PointsInRange(s)
    BY DEF Playing, Validates
  <1>2. NothingDecided(s) /\ IncompleteScoreIsReachable(s, TRUE)
    BY <1>1 DEF Reachable
  <1>3. /\ s.server \in Side \cup {Nobody} /\ s.sets \in Seq(SetScores) /\ s.games \in SideCounts
        /\ s.points \in SideCounts /\ s.tiebreak \in SideCounts
    BY <1>1 DEF Scores
  <1> QED BY <1>1, <1>2, <1>3 DEF IncompleteScoreIsReachable

\* A score that play leaves undecided.
LEMMA StillPlaying ==
    ASSUME NEW t \in Scores, t.status = "LIVE", NothingDecided(t),
           IncompleteScoreIsReachable(t, TRUE), PointsInRange(t),
           t.in_tiebreak => t.points = Zero,
           ~t.in_tiebreak => t.tiebreak = Zero /\ t.tiebreak_first_server = Nobody
    PROVE  Playing(t)
  <1>1. \A x \in Side : SetsWonBy(t.sets, x) # SetsRequired
    <2>1. SetsRequired >= SetsRequired
      BY ScoreAssumption
    <2>2. ClinchingSide(t.sets) = Nobody
      BY DEF IncompleteScoreIsReachable
    <2> QED BY <2>1, <2>2, Undecided
  <1>2. Reachable(t)
    BY DEF Reachable
  <1>3. t.termination # "NATURAL"
    BY DEF NothingDecided
  <1> QED BY <1>1, <1>2, <1>3 DEF Playing, Validates

\* No points are points in range.
LEMMA ZeroInRange == \A t : t.points = Zero => PointsInRange(t)
  BY ZeroIs, SidesAre DEF PointsInRange, Advantage

\* The games of a set that is not won, and of the same set one game later.
LEMMA GameAdded ==
    ASSUME NEW games \in SideCounts, NEW w \in Side,
           \A x \in Side : games[x] <= SetGames,
           games # [x \in Side |-> SetGames], ~NormalSetWon(games),
           NEW more, more = [games EXCEPT ![w] = @ + 1]
    PROVE  /\ more \in SideCounts /\ more[w] = games[w] + 1
           /\ more[Opposite(w)] = games[Opposite(w)]
           /\ NormalSetWon(more) => WonBy(SetScore(more, NoTiebreak), w)
           /\ ~NormalSetWon(more) => \A x \in Side : more[x] <= SetGames
  <1>1. /\ w \in Side /\ Opposite(w) \in Side /\ Opposite(w) # w /\ Opposite(Opposite(w)) = w
        /\ \A x \in Side : x = w \/ x = Opposite(w)
    BY SidesAre
  <1>2. more \in SideCounts /\ more[w] = games[w] + 1 /\ more[Opposite(w)] = games[Opposite(w)]
    BY <1>1 DEF SideCounts
  <1> DEFINE m == games[w]
             o == games[Opposite(w)]
  <1>3. m \in Nat /\ o \in Nat /\ m <= SetGames /\ o <= SetGames /\ SetGames \in Nat
    BY <1>1, ScoreAssumption DEF SideCounts
  <1>4. ~(m = SetGames /\ o = SetGames)
    <2>1. ASSUME m = SetGames, o = SetGames
          PROVE  games = [x \in Side |-> SetGames]
      <3>1. \A x \in Side : games[x] = SetGames
        BY <1>1, <2>1
      <3> QED BY <3>1 DEF SideCounts
    <2> QED BY <2>1
  <1>5. ~(m >= SetGames /\ m >= o + 2) /\ ~(o >= SetGames /\ o >= m + 2)
    <2>1. ~\E x \in Side : games[x] >= SetGames /\ games[x] >= games[Opposite(x)] + 2
      BY DEF NormalSetWon, LeadsByTwo
    <2> QED BY <1>1, <2>1
  <1>6. NormalSetWon(more) <=> \/ m + 1 >= SetGames /\ m + 1 >= o + 2
                               \/ o >= SetGames /\ o >= m + 1 + 2
    <2>1. NormalSetWon(more)
             <=> \E x \in Side : more[x] >= SetGames /\ more[x] >= more[Opposite(x)] + 2
      BY DEF NormalSetWon, LeadsByTwo
    <2>2. (\E x \in Side : more[x] >= SetGames /\ more[x] >= more[Opposite(x)] + 2)
             <=> \/ more[w] >= SetGames /\ more[w] >= more[Opposite(w)] + 2
                 \/ more[Opposite(w)] >= SetGames /\ more[Opposite(w)] >= more[w] + 2
      BY <1>1
    <2> QED BY <1>2, <2>1, <2>2
  <1> HIDE DEF m, o
  <1>7. NormalSetWon(more) => \/ m + 1 = SetGames /\ o + 2 <= SetGames
                              \/ m + 1 = SetGames + 1 /\ o + 1 = SetGames
    BY <1>3, <1>4, <1>5, <1>6
  <1>8. ~NormalSetWon(more) => m + 1 <= SetGames
    BY <1>3, <1>4, <1>5, <1>6
  <1>9. NormalSetWon(more) => WonBy(SetScore(more, NoTiebreak), w)
    <2>1. /\ SetScore(more, NoTiebreak).games = more
          /\ SetScore(more, NoTiebreak).tiebreak = NoTiebreak
      BY DEF SetScore
    <2> QED BY <1>2, <1>7, <2>1 DEF WonBy, m, o
  <1>10. ~NormalSetWon(more) => \A x \in Side : more[x] <= SetGames
    BY <1>1, <1>2, <1>3, <1>8 DEF m, o
  <1> QED BY <1>2, <1>9, <1>10

\* A score that differs in the current set only.
Keeps(s, t) ==
    /\ t.status = s.status /\ t.termination = s.termination
    /\ t.winner = s.winner /\ t.retired = s.retired /\ t.sets = s.sets
    /\ t = [status |-> t.status, termination |-> t.termination, winner |-> t.winner,
            retired |-> t.retired, sets |-> t.sets, games |-> t.games, points |-> t.points,
            in_tiebreak |-> t.in_tiebreak, tiebreak |-> t.tiebreak,
            tiebreak_first_server |-> t.tiebreak_first_server, server |-> t.server]

\* A change of the current set leaves a score.
LEMMA KeepsIs ==
    ASSUME NEW s \in Scores, NEW t, Keeps(s, t), t.games \in SideCounts, t.points \in SideCounts,
           t.in_tiebreak \in BOOLEAN, t.tiebreak \in SideCounts,
           t.tiebreak_first_server \in Side \cup {Nobody}, t.server \in Side \cup {Nobody}
    PROVE  t \in Scores
  <1>1. /\ s.status \in Statuses /\ s.termination \in Terminations
        /\ s.winner \in Side \cup {Nobody} /\ s.retired \in Side \cup {Nobody}
        /\ s.sets \in Seq(SetScores)
    BY DEF Scores
  <1> QED BY <1>1, ScoreMade DEF Keeps

\* A match that is over, and a set that starts.
Ended(t) == t.status = "ENDED"

NewSet(s, t, set) ==
    /\ t.sets = Append(s.sets, set) /\ t.games = Zero /\ t.tiebreak = Zero
    /\ ~t.in_tiebreak

\* A game won counts in its set, or wins it, and the other side serves.
LEMMA GamePlayed ==
    ASSUME NEW s, Playing(s), ~s.in_tiebreak, NEW w \in Side,
           NEW t, t = AdvanceGame(s, w)
    PROVE  /\ Playing(t) \/ (Ended(t) /\ Validates(t))
           /\ t.server \in {Opposite(s.server), Nobody}
           /\ LET games == [s.games EXCEPT ![w] = @ + 1]
              IN \/ NewSet(s, t, SetScore(games, NoTiebreak))
                 \/ /\ t.sets = s.sets /\ t.games = games /\ t.tiebreak = Zero
                    /\ t.in_tiebreak => t.tiebreak_first_server = t.server
                    /\ t.server # Nobody
  <1> DEFINE games == [s.games EXCEPT ![w] = @ + 1]
             next == Opposite(s.server)
             set == SetScore(games, NoTiebreak)
             full == [x \in Side |-> SetGames]
  <1>1. /\ s \in Scores /\ NothingDecided(s) /\ IncompleteScoreIsReachable(s, TRUE)
        /\ s.server \in Side /\ PrefixValid(s.sets) /\ ClinchingSide(s.sets) = Nobody
        /\ s.games \in SideCounts
        /\ s.tiebreak = Zero /\ s.tiebreak_first_server = Nobody /\ s.status = "LIVE"
    BY PlayingIs DEF Playing, Validates
  <1>2. /\ \A x \in Side : s.games[x] <= SetGames
        /\ s.games # full /\ ~NormalSetWon(s.games)
    BY <1>1 DEF IncompleteScoreIsReachable
  <1>3. /\ games \in SideCounts
        /\ NormalSetWon(games) => WonBy(set, w)
        /\ ~NormalSetWon(games) => \A x \in Side : games[x] <= SetGames
    BY <1>1, <1>2, GameAdded
  <1>4. next \in Side /\ next # Nobody
    BY <1>1, SidesAre
  <1>5. set \in SetScores
    BY <1>3 DEF SetScores, SetScore, SetTiebreaks
  <1>6. t = IF NormalSetWon(games) THEN CompleteSet(s, set, next)
            ELSE IF games = full
            THEN [s EXCEPT !.games = games, !.points = Zero, !.in_tiebreak = TRUE,
                           !.tiebreak = Zero, !.server = next,
                           !.tiebreak_first_server = next]
            ELSE [s EXCEPT !.games = games, !.points = Zero, !.server = next]
    BY DEF AdvanceGame
  <1> HIDE DEF games, next, set
  <1>7. CASE NormalSetWon(games)
    <2>1. t = CompleteSet(s, set, next) /\ WonBy(set, w)
      BY <1>3, <1>6, <1>7
    <2>2. /\ t \in Scores /\ Reachable(t)
          /\ t.sets = Append(s.sets, set) /\ t.games = Zero /\ t.points = Zero
          /\ ~t.in_tiebreak /\ t.tiebreak = Zero /\ t.tiebreak_first_server = Nobody
          /\ t.server \in {next, Nobody} /\ t.status \in {"LIVE", "ENDED"}
          /\ t.termination = "NATURAL" <=> \E x \in Side : SetsWonBy(t.sets, x) = SetsRequired
      BY <1>1, <1>4, <1>5, <2>1, SetCompleted
    <2>3. Validates(t)
      BY <2>2, ZeroInRange DEF Validates
    <2>4. NewSet(s, t, set)
      BY <2>2 DEF NewSet
    <2> QED BY <2>2, <2>3, <2>4 DEF Playing, Ended, games, set, next
  <1>8. CASE ~NormalSetWon(games) /\ games = full
    <2>1. t = [s EXCEPT !.games = games, !.points = Zero, !.in_tiebreak = TRUE,
                        !.tiebreak = Zero, !.server = next,
                        !.tiebreak_first_server = next]
      BY <1>6, <1>8
    <2>2. /\ Keeps(s, t)
          /\ t.games = games /\ t.points = Zero /\ t.in_tiebreak = TRUE
          /\ t.tiebreak = Zero /\ t.tiebreak_first_server = next
          /\ t.server = next
      BY <1>1, <2>1 DEF Scores, Keeps
    <2>3. t \in Scores
      BY <1>1, <1>3, <1>4, <2>2, ZeroIs, KeepsIs
    <2>4. ~TiebreakWon(t.tiebreak)
      BY <2>2, ZeroIs, SidesAre, ScoreAssumption DEF TiebreakWon, LeadsByTwo
    <2>5. t.server = TiebreakServer(t.tiebreak_first_server,
                                    t.tiebreak["home"] + t.tiebreak["away"])
      <3>1. t.tiebreak["home"] = 0 /\ t.tiebreak["away"] = 0
        BY <2>2, ZeroIs, SidesAre
      <3> QED BY <2>2, <3>1 DEF TiebreakServer
    <2>6. IncompleteScoreIsReachable(t, TRUE)
      BY <1>1, <1>4, <1>8, <2>2, <2>4, <2>5 DEF IncompleteScoreIsReachable, Keeps
    <2>7. NothingDecided(t)
      BY <1>1, <2>2 DEF NothingDecided, Keeps
    <2>8. Playing(t)
      BY <1>1, <2>3, <2>2, <2>6, <2>7, ZeroInRange, StillPlaying DEF Keeps
    <2> QED BY <1>4, <2>2, <2>8 DEF games, next, Keeps
  <1>9. CASE ~NormalSetWon(games) /\ games # full
    <2>1. t = [s EXCEPT !.games = games, !.points = Zero, !.server = next]
      BY <1>6, <1>9
    <2>2. /\ Keeps(s, t)
          /\ t.games = games /\ t.points = Zero /\ t.in_tiebreak = FALSE
          /\ t.tiebreak = Zero /\ t.tiebreak_first_server = Nobody
          /\ t.server = next
      <3>1. s.in_tiebreak = FALSE
        BY <1>1 DEF Scores
      <3> QED BY <1>1, <2>1, <3>1 DEF Scores, Keeps
    <2>3. t \in Scores
      BY <1>1, <1>3, <1>4, <2>2, ZeroIs, KeepsIs
    <2>4. IncompleteScoreIsReachable(t, TRUE)
      BY <1>1, <1>3, <1>4, <1>9, <2>2 DEF IncompleteScoreIsReachable, Keeps
    <2>5. NothingDecided(t)
      BY <1>1, <2>2 DEF NothingDecided, Keeps
    <2>6. Playing(t)
      BY <1>1, <2>3, <2>2, <2>4, <2>5, ZeroInRange, StillPlaying DEF Keeps
    <2> QED BY <1>4, <2>2, <2>6 DEF games, next, Keeps
  <1> QED BY <1>7, <1>8, <1>9

\* A point of a tiebreak counts in it, or wins the set.
LEMMA TiebreakPlayed ==
    ASSUME NEW s, Playing(s), s.in_tiebreak, NEW w \in Side,
           NEW t, t = AdvanceTiebreak(s, w)
    PROVE  /\ Playing(t) \/ (Ended(t) /\ Validates(t))
           /\ LET points == [s.tiebreak EXCEPT ![w] = @ + 1]
              IN \/ /\ NewSet(s, t, SetScore([s.games EXCEPT ![w] = SetGames + 1], points))
                    /\ t.server \in {Opposite(s.tiebreak_first_server), Nobody}
                 \/ /\ t.sets = s.sets /\ t.games = s.games /\ t.tiebreak = points
                    /\ t.in_tiebreak /\ t.tiebreak_first_server = s.tiebreak_first_server
                    /\ t.server = TiebreakServer(s.tiebreak_first_server,
                                                 points["home"] + points["away"])
                    /\ t.server # Nobody
  <1> DEFINE points == [s.tiebreak EXCEPT ![w] = @ + 1]
             games == [s.games EXCEPT ![w] = SetGames + 1]
             first == s.tiebreak_first_server
             set == SetScore(games, points)
  <1>1. /\ s \in Scores /\ NothingDecided(s) /\ IncompleteScoreIsReachable(s, TRUE)
        /\ PrefixValid(s.sets) /\ ClinchingSide(s.sets) = Nobody
        /\ s.games \in SideCounts /\ s.tiebreak \in SideCounts /\ s.status = "LIVE"
    BY PlayingIs DEF Playing
  <1>2. /\ s.games = [x \in Side |-> SetGames] /\ s.points = Zero
        /\ first \in Side /\ ~TiebreakWon(s.tiebreak)
    <2>1. first \in Side \cup {Nobody}
      BY <1>1 DEF Scores
    <2> QED BY <1>1, <2>1 DEF IncompleteScoreIsReachable
  <1>3. /\ w \in Side /\ Opposite(w) \in Side /\ Opposite(w) # w
        /\ Opposite(Opposite(w)) = w /\ \A x \in Side : x = w \/ x = Opposite(w)
        /\ Opposite(first) \in Side /\ first # Nobody /\ Opposite(first) # Nobody
    BY <1>2, SidesAre
  <1>4. /\ points \in SideCounts /\ points[w] = s.tiebreak[w] + 1
        /\ points[Opposite(w)] = s.tiebreak[Opposite(w)]
        /\ games \in SideCounts /\ games[w] = SetGames + 1 /\ games[Opposite(w)] = SetGames
    BY <1>1, <1>2, <1>3, ScoreAssumption DEF SideCounts
  <1>5. set \in SetScores /\ set.games = games /\ set.tiebreak = points
    BY <1>4 DEF SetScores, SetScore, SetTiebreaks
  <1>6. TiebreakWon(points) => WonBy(set, w)
    <2> DEFINE m == s.tiebreak[w]
               o == s.tiebreak[Opposite(w)]
    <2>1. m \in Nat /\ o \in Nat
      BY <1>1, <1>3 DEF SideCounts
    <2>2. ~(o >= TiebreakPoints /\ o >= m + 2)
      <3>1. ~\E x \in Side : s.tiebreak[x] >= TiebreakPoints
                             /\ s.tiebreak[x] >= s.tiebreak[Opposite(x)] + 2
        BY <1>2 DEF TiebreakWon, LeadsByTwo
      <3> QED BY <1>3, <3>1
    <2>3. TiebreakWon(points) => \/ m + 1 >= TiebreakPoints /\ m + 1 >= o + 2
                                 \/ o >= TiebreakPoints /\ o >= m + 1 + 2
      <3>1. TiebreakWon(points) => \E x \in Side : points[x] >= TiebreakPoints
                                      /\ points[x] >= points[Opposite(x)] + 2
        BY DEF TiebreakWon, LeadsByTwo
      <3>2. ASSUME NEW x \in Side, points[x] >= TiebreakPoints,
                   points[x] >= points[Opposite(x)] + 2
            PROVE  \/ m + 1 >= TiebreakPoints /\ m + 1 >= o + 2
                   \/ o >= TiebreakPoints /\ o >= m + 1 + 2
        BY <1>3, <1>4, <3>2
      <3> QED BY <3>1, <3>2
    <2>4. TiebreakWon(points) => m + 1 >= TiebreakPoints /\ m + 1 >= o + 2
      <3> HIDE DEF m, o, points
      <3> QED BY <2>1, <2>2, <2>3, ScoreAssumption
    <2>5. points # NoTiebreak
      BY <1>4, NotPlayed
    <2> QED BY <1>4, <1>5, <2>4, <2>5, ZenonT(60) DEF WonBy
  <1>7. t = IF TiebreakWon(points) THEN CompleteSet(s, set, Opposite(first))
            ELSE [s EXCEPT !.tiebreak = points,
                           !.server = TiebreakServer(first, points["home"] + points["away"])]
    BY DEF AdvanceTiebreak
  <1> DEFINE server == TiebreakServer(first, points["home"] + points["away"])
  <1>8. server \in Side /\ server # Nobody
    BY <1>2, <1>3, SidesAre DEF TiebreakServer
  <1> HIDE DEF points, games, first, set, server
  <1>9. CASE TiebreakWon(points)
    <2>1. t = CompleteSet(s, set, Opposite(first)) /\ WonBy(set, w)
      BY <1>6, <1>7, <1>9
    <2>2. /\ t \in Scores /\ Reachable(t)
          /\ t.sets = Append(s.sets, set) /\ t.games = Zero /\ t.points = Zero
          /\ ~t.in_tiebreak /\ t.tiebreak = Zero /\ t.tiebreak_first_server = Nobody
          /\ t.server \in {Opposite(first), Nobody} /\ t.status \in {"LIVE", "ENDED"}
          /\ t.termination = "NATURAL" <=> \E x \in Side : SetsWonBy(t.sets, x) = SetsRequired
      BY <1>1, <1>3, <1>5, <2>1, SetCompleted
    <2>3. Validates(t)
      BY <2>2, ZeroInRange DEF Validates
    <2>4. NewSet(s, t, set)
      BY <2>2 DEF NewSet
    <2> QED BY <2>2, <2>3, <2>4 DEF Playing, Ended, games, points, set, first
  <1>10. CASE ~TiebreakWon(points)
    <2>1. t = [s EXCEPT !.tiebreak = points, !.server = server]
      BY <1>7, <1>10 DEF server
    <2>2. /\ Keeps(s, t)
          /\ t.games = s.games /\ t.points = Zero /\ t.in_tiebreak = TRUE
          /\ t.tiebreak = points /\ t.tiebreak_first_server = first
          /\ t.server = server
      <3>1. s.in_tiebreak = TRUE /\ s.points = Zero
        BY <1>1, <1>2 DEF Scores
      <3> QED BY <1>1, <2>1, <3>1 DEF Scores, Keeps, first
    <2>3. t \in Scores
      BY <1>1, <1>2, <1>3, <1>4, <1>8, <2>2, ZeroIs, KeepsIs
    <2>4. IncompleteScoreIsReachable(t, TRUE)
      BY <1>1, <1>2, <1>3, <1>8, <1>10, <2>2 DEF IncompleteScoreIsReachable, Keeps, server
    <2>5. NothingDecided(t)
      BY <1>1, <2>2 DEF NothingDecided, Keeps
    <2>6. Playing(t)
      BY <1>1, <2>3, <2>2, <2>4, <2>5, ZeroInRange, StillPlaying DEF Keeps
    <2> QED BY <1>8, <2>2, <2>6 DEF points, server, first, Keeps
  <1> QED BY <1>9, <1>10

\* A point within a game leaves the games and the server.
LEMMA PointPlayed ==
    ASSUME NEW s, Playing(s), ~s.in_tiebreak, NEW w \in Side, ~GameWon(s.points, w),
           NEW t, t = [s EXCEPT !.points = NextPoints(@, w)]
    PROVE  /\ Playing(t) /\ t.sets = s.sets /\ t.games = s.games
           /\ t.tiebreak = s.tiebreak /\ t.in_tiebreak = s.in_tiebreak
           /\ t.server = s.server
  <1> DEFINE points == NextPoints(s.points, w)
             m == s.points[w]
             o == s.points[Opposite(w)]
  <1>1. /\ s \in Scores /\ NothingDecided(s) /\ IncompleteScoreIsReachable(s, TRUE)
        /\ s.points \in SideCounts /\ s.status = "LIVE" /\ PointsInRange(s)
        /\ s.tiebreak = Zero /\ s.tiebreak_first_server = Nobody /\ s.in_tiebreak = FALSE
    <2>1. s.in_tiebreak = FALSE
      BY PlayingIs DEF Scores
    <2> QED BY <2>1, PlayingIs DEF Playing, Validates
  <1>2. /\ w \in Side /\ Opposite(w) \in Side /\ Opposite(w) # w
        /\ Opposite(Opposite(w)) = w /\ \A x \in Side : x = w \/ x = Opposite(w)
    BY SidesAre
  <1>3. /\ m \in Nat /\ o \in Nat /\ m <= 4 /\ o <= 4 /\ m # 4 /\ ~(m = 3 /\ o < 3)
        /\ m = 4 => o = 3
        /\ o = 4 => m = 3
    <2>1. m \in Nat /\ o \in Nat
      BY <1>1, <1>2 DEF SideCounts
    <2>2. m <= 4 /\ o <= 4 /\ (m = 4 => o = 3) /\ (o = 4 => m = 3)
      BY <1>1, <1>2 DEF PointsInRange, Advantage, Forty
    <2>3. m # 4 /\ ~(m = 3 /\ o < 3)
      BY DEF GameWon, Advantage, Forty
    <2> QED BY <2>1, <2>2, <2>3
  <1>4. /\ points \in SideCounts
        /\ IF o = 4 THEN points[w] = 3 /\ points[Opposite(w)] = 3
           ELSE points[w] = m + 1 /\ points[Opposite(w)] = o
    BY <1>1, <1>2 DEF NextPoints, Advantage, Forty, SideCounts
  <1> HIDE DEF m, o
  <1>5. /\ points[w] <= 4 /\ points[Opposite(w)] <= 4
        /\ points[w] = 4 => points[Opposite(w)] = 3
        /\ points[Opposite(w)] = 4 => points[w] = 3
    BY <1>3, <1>4
  <1>6. \A x \in Side : points[x] <= 4 /\ (points[x] = 4 => points[Opposite(x)] = 3)
    <2> HIDE DEF points
    <2> QED BY <1>2, <1>5
  <1>7. t = [s EXCEPT !.points = points]
    BY <1>1 DEF Scores
  <1> HIDE DEF points
  <1>8. /\ Keeps(s, t)
        /\ t.games = s.games /\ t.points = points /\ t.in_tiebreak = FALSE
        /\ t.tiebreak = Zero /\ t.tiebreak_first_server = Nobody
        /\ t.server = s.server
    BY <1>1, <1>7 DEF Scores, Keeps
  <1>9. t \in Scores
    <2>1. s.games \in SideCounts /\ s.server \in Side \cup {Nobody}
      BY <1>1 DEF Scores
    <2> QED BY <1>1, <1>4, <1>8, <2>1, ZeroIs, KeepsIs
  <1>10. PointsInRange(t)
    BY <1>6, <1>8 DEF PointsInRange, Advantage, Forty
  <1>11. IncompleteScoreIsReachable(t, TRUE)
    BY <1>1, <1>8 DEF IncompleteScoreIsReachable, Keeps
  <1>12. NothingDecided(t)
    BY <1>1, <1>8 DEF NothingDecided, Keeps
  <1>13. Playing(t)
    BY <1>1, <1>8, <1>9, <1>10, <1>11, <1>12, StillPlaying DEF Keeps
  <1> QED BY <1>1, <1>8, <1>13 DEF Keeps

\* A score that differs in all but what was played.
PlayedAlike(s, t) ==
    /\ t.sets = s.sets /\ t.games = s.games /\ t.points = s.points
    /\ t.in_tiebreak = s.in_tiebreak /\ t.tiebreak = s.tiebreak
    /\ t.tiebreak_first_server = s.tiebreak_first_server
    /\ t = [status |-> t.status, termination |-> t.termination, winner |-> t.winner,
            retired |-> t.retired, sets |-> t.sets, games |-> t.games, points |-> t.points,
            in_tiebreak |-> t.in_tiebreak, tiebreak |-> t.tiebreak,
            tiebreak_first_server |-> t.tiebreak_first_server, server |-> t.server]

\* A change of all but what was played leaves a score.
LEMMA PlayedAlikeIs ==
    ASSUME NEW s \in Scores, NEW t, PlayedAlike(s, t),
           t.status \in Statuses, t.termination \in Terminations,
           t.winner \in Side \cup {Nobody}, t.retired \in Side \cup {Nobody},
           t.server \in Side \cup {Nobody}
    PROVE  t \in Scores
  <1>1. /\ s.sets \in Seq(SetScores) /\ s.games \in SideCounts /\ s.points \in SideCounts
        /\ s.in_tiebreak \in BOOLEAN /\ s.tiebreak \in SideCounts
        /\ s.tiebreak_first_server \in Side \cup {Nobody}
    BY DEF Scores
  <1> QED BY <1>1, ScoreMade DEF PlayedAlike

\* The sets and the current set of a match that is not over.
OpenSet(s) ==
    /\ PrefixValid(s.sets) /\ ClinchingSide(s.sets) = Nobody
    /\ IF s.in_tiebreak
       THEN /\ s.games = [x \in Side |-> SetGames] /\ s.points = Zero
            /\ s.tiebreak_first_server # Nobody
            /\ ~TiebreakWon(s.tiebreak)
       ELSE /\ \A x \in Side : s.games[x] <= SetGames
            /\ s.games # [x \in Side |-> SetGames]
            /\ ~NormalSetWon(s.games)

\* No sets are a valid prefix and decide nothing.
LEMMA NothingPlayed ==
    PrefixValid(<< >>) /\ ClinchingSide(<< >>) = Nobody
  <1>1. \A x : SetsWonBy(<< >>, x) = 0
    BY NoWins
  <1>2. SubSeq(<< >>, 1, Len(<< >>) - 1) = << >>
    OBVIOUS
  <1>3. PrefixValid(<< >>)
    <2>1. \A i \in DOMAIN << >> : CompletedSetWinner(<< >>[i]) # Nobody
      OBVIOUS
    <2>2. \A x \in Side : SetsWonBy(SubSeq(<< >>, 1, Len(<< >>) - 1), x) < SetsRequired
      <3>1. \A x \in Side : SetsWonBy(SubSeq(<< >>, 1, Len(<< >>) - 1), x) = SetsWonBy(<< >>, x)
        BY <1>2
      <3>2. 0 < SetsRequired
        BY ScoreAssumption
      <3> QED BY <1>1, <3>1, <3>2
    <2> QED BY <2>1, <2>2 DEF PrefixValid
  <1>4. \A x \in Side : ~(SetsWonBy(<< >>, x) >= SetsRequired)
    BY <1>1, ScoreAssumption
  <1> QED BY <1>3, <1>4, Undecided

\* A match that is not over has decided nothing.
LEMMA OpenIs ==
    ASSUME NEW s, Validates(s), s.status \in {"SCHEDULED", "LIVE", "SUSPENDED"}
    PROVE  OpenSet(s) /\ (s.status = "SCHEDULED" => ScoreIsZero(s) /\ s.server = Nobody)
           /\ NothingDecided(s)
  <1>1. CASE s.status = "SCHEDULED"
    <2>1. ScoreIsZero(s) /\ NothingDecided(s) /\ s.server = Nobody
      BY <1>1 DEF Validates, Reachable
    <2>2. s.sets = << >> /\ s.games = Zero /\ ~s.in_tiebreak
      BY <2>1 DEF ScoreIsZero, SetIsZero
    <2>3. \A x \in Side : s.games[x] = 0
      BY <2>2, ZeroIs
    <2>4. s.games # [x \in Side |-> SetGames]
      BY <2>3, SidesAre, ScoreAssumption
    <2>5. ~NormalSetWon(s.games)
      BY <2>3, SidesAre, ScoreAssumption DEF NormalSetWon, LeadsByTwo
    <2> QED BY <2>1, <2>2, <2>3, <2>4, <2>5, NothingPlayed, ScoreAssumption DEF OpenSet
  <1>2. CASE s.status \in {"LIVE", "SUSPENDED"}
    <2>1. NothingDecided(s) /\ IncompleteScoreIsReachable(s, TRUE)
      BY <1>2 DEF Validates, Reachable
    <2> QED BY <1>2, <2>1 DEF IncompleteScoreIsReachable, OpenSet
  <1> QED BY <1>1, <1>2

\* What was played of a match that is not over validates however it stops.
LEMMA Stopped ==
    ASSUME NEW s, Validates(s), s.status \in {"SCHEDULED", "LIVE", "SUSPENDED"},
           NEW t, PlayedAlike(s, t), t.server = Nobody, t.termination # "NATURAL",
           \/ /\ t.status = "CANCELLED" /\ t.termination = "CANCELLATION"
              /\ t.winner = Nobody /\ t.retired = Nobody
           \/ /\ t.status = "ENDED" /\ t.winner \in Side
              /\ \/ /\ t.termination = "WALKOVER" /\ t.retired = Nobody
                    /\ s.status = "SCHEDULED"
                 \/ /\ t.termination = "RETIREMENT" /\ t.retired = Opposite(t.winner)
    PROVE  Validates(t)
  <1>1. OpenSet(s) /\ (s.status = "SCHEDULED" => ScoreIsZero(s))
    BY OpenIs
  <1>2. t \in Scores
    <2>1. /\ t.status \in Statuses /\ t.termination \in Terminations
          /\ t.winner \in Side \cup {Nobody}
      BY DEF Statuses, Terminations
    <2>2. t.retired \in Side \cup {Nobody}
      BY SidesAre
    <2>3. s \in Scores
      BY DEF Validates
    <2> QED BY <2>1, <2>2, <2>3, PlayedAlikeIs
  <1>3. IncompleteScoreIsReachable(t, FALSE)
    BY <1>1 DEF OpenSet, PlayedAlike, IncompleteScoreIsReachable
  <1>4. s.status = "SCHEDULED" => ScoreIsZero(t)
    BY <1>1 DEF ScoreIsZero, SetIsZero, PlayedAlike
  <1>5. Reachable(t)
    <2>1. t.winner \in Side => t.winner # Nobody
      BY SidesAre
    <2> QED BY <1>3, <1>4, <2>1 DEF Reachable
  <1>6. ~\E x \in Side : SetsWonBy(t.sets, x) = SetsRequired
    <2>1. ClinchingSide(t.sets) = Nobody
      BY <1>1 DEF OpenSet, PlayedAlike
    <2> QED BY <2>1, Undecided, ScoreAssumption
  <1>7. /\ PointsInRange(t)
        /\ t.in_tiebreak => t.points = Zero
        /\ ~t.in_tiebreak => t.tiebreak = Zero /\ t.tiebreak_first_server = Nobody
    BY DEF Validates, PointsInRange, PlayedAlike
  <1> QED BY <1>2, <1>5, <1>6, <1>7 DEF Validates

\* A match starts with nothing played.
LEMMA Started ==
    ASSUME NEW s, Validates(s), s.status = "SCHEDULED",
           NEW t, PlayedAlike(s, t), t.status = "LIVE", NothingDecided(t), t.server \in Side
    PROVE  Playing(t)
  <1>1. OpenSet(s) /\ ScoreIsZero(s) /\ s \in Scores
    BY OpenIs DEF Validates
  <1>2. t \in Scores
    <2>1. /\ t.status \in Statuses /\ t.termination \in Terminations
          /\ t.winner \in Side \cup {Nobody} /\ t.retired \in Side \cup {Nobody}
      BY DEF Statuses, Terminations, NothingDecided
    <2> QED BY <1>1, <2>1, PlayedAlikeIs
  <1>3. ~t.in_tiebreak /\ t.tiebreak = Zero /\ t.tiebreak_first_server = Nobody /\ t.points = Zero
    BY <1>1 DEF ScoreIsZero, SetIsZero, PlayedAlike
  <1>4. IncompleteScoreIsReachable(t, TRUE)
    BY <1>1, <1>3, SidesAre DEF OpenSet, PlayedAlike, IncompleteScoreIsReachable
  <1> QED BY <1>2, <1>3, <1>4, ZeroInRange, StillPlaying

\* A match that is suspended or resumed validates.
LEMMA Interrupted ==
    ASSUME NEW s, Validates(s), s.status \in {"LIVE", "SUSPENDED"},
           NEW t, PlayedAlike(s, t), t.status \in {"LIVE", "SUSPENDED"},
           t.termination = s.termination, t.winner = s.winner, t.retired = s.retired,
           t.server = s.server
    PROVE  Validates(t)
  <1>1. /\ s \in Scores /\ NothingDecided(s) /\ IncompleteScoreIsReachable(s, TRUE)
    BY DEF Validates, Reachable
  <1>2. t \in Scores
    <2>1. t.status \in Statuses
      BY DEF Statuses
    <2>2. /\ t.termination \in Terminations /\ t.winner \in Side \cup {Nobody}
          /\ t.retired \in Side \cup {Nobody} /\ t.server \in Side \cup {Nobody}
      BY <1>1 DEF Scores
    <2> QED BY <1>1, <2>1, <2>2, PlayedAlikeIs
  <1>3. NothingDecided(t) /\ IncompleteScoreIsReachable(t, TRUE)
    BY <1>1 DEF NothingDecided, IncompleteScoreIsReachable, PlayedAlike
  <1>4. Reachable(t)
    BY <1>3 DEF Reachable
  <1>5. /\ PointsInRange(t)
        /\ t.in_tiebreak => t.points = Zero
        /\ ~t.in_tiebreak => t.tiebreak = Zero /\ t.tiebreak_first_server = Nobody
        /\ t.termination = "NATURAL" <=> \E x \in Side : SetsWonBy(t.sets, x) = SetsRequired
    BY DEF Validates, PointsInRange, PlayedAlike
  <1> QED BY <1>2, <1>4, <1>5 DEF Validates

\* The games of some sets: the number of the set, and of the game in it.
GamesIn(sets) == UNION {{i} \X (1 .. GamesOf(sets[i])) : i \in DOMAIN sets}

\* A game is one of some set.
LEMMA GamesInIs ==
    ASSUME NEW sets, NEW p
    PROVE  p \in GamesIn(sets)
              <=> \E i \in DOMAIN sets : \E j \in 1 .. GamesOf(sets[i]) : p = << i, j >>
  <1>1. ASSUME NEW i \in DOMAIN sets
        PROVE  p \in {i} \X (1 .. GamesOf(sets[i]))
                  <=> \E j \in 1 .. GamesOf(sets[i]) : p = << i, j >>
    OBVIOUS
  <1> QED BY <1>1 DEF GamesIn

\* One game more, in the last set; another set may follow it.
LEMMA GamesAdded ==
    ASSUME NEW m \in Nat \ {0}, NEW k \in Nat, NEW before, NEW after,
           DOMAIN before = 1 .. m, DOMAIN after \in {1 .. m, 1 .. m + 1},
           \A i \in 1 .. m : i # m => after[i] = before[i],
           GamesOf(before[m]) = k, GamesOf(after[m]) = k + 1,
           DOMAIN after = 1 .. m + 1 => GamesOf(after[m + 1]) = 0,
           IsFiniteSet(GamesIn(before))
    PROVE  /\ IsFiniteSet(GamesIn(after)) /\ Cardinality(GamesIn(before)) \in Nat
           /\ Cardinality(GamesIn(after)) = Cardinality(GamesIn(before)) + 1
  <1>1. << m, k + 1 >> \notin GamesIn(before)
    <2>1. ASSUME NEW i \in DOMAIN before, NEW j \in 1 .. GamesOf(before[i]),
                 << m, k + 1 >> = << i, j >>
          PROVE  FALSE
      <3>1. i = m /\ j = k + 1
        BY <2>1
      <3>2. j \in 1 .. k
        BY <3>1
      <3> QED BY <3>1, <3>2
    <2> QED BY <2>1, GamesInIs
  <1>2. ASSUME NEW p \in GamesIn(after)
        PROVE  p \in GamesIn(before) \cup {<< m, k + 1 >>}
    <2>1. PICK i \in DOMAIN after : \E j \in 1 .. GamesOf(after[i]) : p = << i, j >>
      BY <1>2, GamesInIs
    <2>2. PICK j \in 1 .. GamesOf(after[i]) : p = << i, j >>
      BY <2>1
    <2>3. i \in 1 .. m \/ (i = m + 1 /\ DOMAIN after = 1 .. m + 1)
      OBVIOUS
    <2>4. CASE i \in 1 .. m /\ i # m
      <3>1. i \in DOMAIN before /\ j \in 1 .. GamesOf(before[i])
        BY <2>4
      <3> QED BY <2>2, <3>1, GamesInIs
    <2>5. CASE i = m
      <3>1. j \in 1 .. k \/ j = k + 1
        BY <2>5
      <3>2. m \in DOMAIN before
        OBVIOUS
      <3>3. ASSUME j \in 1 .. k
            PROVE  p \in GamesIn(before)
        BY <2>2, <2>5, <3>2, <3>3, GamesInIs
      <3> QED BY <2>2, <2>5, <3>1, <3>3
    <2>6. CASE i = m + 1 /\ DOMAIN after = 1 .. m + 1
      <3>1. j \in 1 .. 0
        BY <2>6
      <3> QED BY <3>1
    <2> QED BY <2>3, <2>4, <2>5, <2>6
  <1>3. ASSUME NEW p \in GamesIn(before)
        PROVE  p \in GamesIn(after)
    <2>1. PICK i \in DOMAIN before : \E j \in 1 .. GamesOf(before[i]) : p = << i, j >>
      BY <1>3, GamesInIs
    <2>2. PICK j \in 1 .. GamesOf(before[i]) : p = << i, j >>
      BY <2>1
    <2>3. i \in DOMAIN after
      OBVIOUS
    <2>4. j \in 1 .. GamesOf(after[i])
      <3>1. CASE i # m
        BY <3>1
      <3>2. CASE i = m
        BY <3>2
      <3> QED BY <3>1, <3>2
    <2> QED BY <2>2, <2>3, <2>4, GamesInIs
  <1>4. << m, k + 1 >> \in GamesIn(after)
    <2>1. m \in DOMAIN after /\ k + 1 \in 1 .. GamesOf(after[m])
      OBVIOUS
    <2> QED BY <2>1, GamesInIs
  <1>5. GamesIn(after) = GamesIn(before) \cup {<< m, k + 1 >>}
    BY <1>2, <1>3, <1>4
  <1> QED BY <1>1, <1>5, FS_AddElement, FS_CardinalityType

\* The games of a score: those of its sets and of the current one.
Played(s) == GamesIn(Append(s.sets, s))

\* The sets of a score, with the current one.
LEMMA PlayedIs ==
    ASSUME NEW s \in Scores
    PROVE  /\ Append(s.sets, s) = [i \in 1 .. Len(s.sets) + 1 |->
                                     IF i = Len(s.sets) + 1 THEN s ELSE s.sets[i]]
           /\ Len(s.sets) \in Nat /\ GamesOf(s) \in Nat
  <1>1. s.sets \in Seq(SetScores) /\ s.games \in SideCounts
    BY DEF Scores
  <1>2. GamesOf(s) \in Nat
    BY <1>1, SidesAre DEF GamesOf, SideCounts
  <1> QED BY <1>1, <1>2

\* No game is played before the first.
LEMMA NoneYet ==
    ASSUME NEW s \in Scores, s.sets = << >>, s.games = Zero
    PROVE  IsFiniteSet(Played(s)) /\ Cardinality(Played(s)) = 0
  <1>1. Append(s.sets, s) = << s >>
    OBVIOUS
  <1>2. GamesOf(s) = 0
    BY ZeroIs, SidesAre DEF GamesOf
  <1>3. ASSUME NEW p \in GamesIn(<< s >>)
        PROVE  FALSE
    <2>1. PICK i \in DOMAIN << s >> : \E j \in 1 .. GamesOf(<< s >>[i]) : p = << i, j >>
      BY <1>3, GamesInIs
    <2>2. i = 1 /\ << s >>[i] = s
      BY <2>1
    <2> QED BY <1>2, <2>1, <2>2
  <1> QED BY <1>1, <1>3, FS_EmptySet DEF Played

\* A game won is one game more, whether or not it wins its set.
LEMMA PlayedGrows ==
    ASSUME NEW s \in Scores, NEW t \in Scores, IsFiniteSet(Played(s)),
           NEW games \in SideCounts, GamesOf([games |-> games]) = GamesOf(s) + 1,
           \/ t.sets = s.sets /\ t.games = games
           \/ \E tiebreak : NewSet(s, t, SetScore(games, tiebreak))
    PROVE  /\ IsFiniteSet(Played(t)) /\ Cardinality(Played(s)) \in Nat
           /\ Cardinality(Played(t)) = Cardinality(Played(s)) + 1
  <1> DEFINE m == Len(s.sets) + 1
             k == GamesOf(s)
             before == Append(s.sets, s)
             after == Append(t.sets, t)
  <1>1. /\ m \in Nat \ {0} /\ k \in Nat
        /\ DOMAIN before = 1 .. m /\ GamesOf(before[m]) = k
        /\ \A i \in 1 .. m : i # m => before[i] = s.sets[i]
    <2>1. before = [i \in 1 .. m |-> IF i = m THEN s ELSE s.sets[i]]
      BY PlayedIs
    <2>2. m \in Nat \ {0} /\ k \in Nat
      <3>1. Len(s.sets) \in Nat /\ k \in Nat
        BY PlayedIs
      <3> QED BY <3>1
    <2> HIDE DEF before, m
    <2>3. m \in 1 .. m
      BY <2>2
    <2> QED BY <2>1, <2>2, <2>3
  <1>2. s.sets \in Seq(SetScores)
    BY DEF Scores
  <1>3. GamesOf(t) = IF t.games = games THEN k + 1 ELSE GamesOf(t)
    BY DEF GamesOf
  <1>4. CASE t.sets = s.sets /\ t.games = games
    <2>1. /\ DOMAIN after = 1 .. m /\ after[m] = t
          /\ \A i \in 1 .. m : i # m => after[i] = s.sets[i]
      BY <1>4, PlayedIs
    <2>2. GamesOf(after[m]) = k + 1
      BY <1>3, <1>4, <2>1
    <2>3. 1 .. m # 1 .. m + 1
      BY <1>1
    <2>4. IsFiniteSet(GamesIn(before))
      BY DEF Played
    <2> HIDE DEF m, k, before, after
    <2>5. \A i \in 1 .. m : i # m => after[i] = before[i]
      BY <1>1, <2>1
    <2>6. /\ IsFiniteSet(GamesIn(after)) /\ Cardinality(GamesIn(before)) \in Nat
          /\ Cardinality(GamesIn(after)) = Cardinality(GamesIn(before)) + 1
      BY <1>1, <2>1, <2>2, <2>3, <2>4, <2>5, GamesAdded
    <2> QED BY <2>6 DEF Played, before, after
  <1>5. ASSUME NEW tiebreak, NewSet(s, t, SetScore(games, tiebreak))
        PROVE  /\ IsFiniteSet(Played(t)) /\ Cardinality(Played(s)) \in Nat
               /\ Cardinality(Played(t)) = Cardinality(Played(s)) + 1
    <2> DEFINE set == SetScore(games, tiebreak)
    <2>1. t.sets = Append(s.sets, set) /\ t.games = Zero
      BY <1>5 DEF NewSet
    <2>2. Len(t.sets) = m
      BY <1>2, <2>1
    <2>3. t.sets[m] = set /\ \A i \in 1 .. m : i # m => t.sets[i] = s.sets[i]
      BY <1>2, <2>1
    <2>4. /\ DOMAIN after = 1 .. m + 1 /\ after[m + 1] = t
          /\ \A i \in 1 .. m : after[i] = t.sets[i]
      <3>1. after = [i \in 1 .. m + 1 |-> IF i = m + 1 THEN t ELSE t.sets[i]]
        BY <2>2, PlayedIs
      <3> HIDE DEF after, m
      <3> QED BY <1>1, <3>1
    <2>5. GamesOf(after[m + 1]) = 0
      BY <2>1, <2>4, ZeroIs, SidesAre DEF GamesOf
    <2>6. GamesOf(set) = k + 1
      BY DEF GamesOf, SetScore
    <2>7. IsFiniteSet(GamesIn(before))
      BY DEF Played
    <2> HIDE DEF m, k, before, after, set
    <2>8. \A i \in 1 .. m : i # m => after[i] = before[i]
      BY <1>1, <2>3, <2>4
    <2>9. GamesOf(after[m]) = k + 1
      <3>1. m \in 1 .. m
        BY <1>1
      <3> QED BY <2>3, <2>4, <2>6, <3>1
    <2>10. /\ IsFiniteSet(GamesIn(after)) /\ Cardinality(GamesIn(before)) \in Nat
           /\ Cardinality(GamesIn(after)) = Cardinality(GamesIn(before)) + 1
      BY <1>1, <2>4, <2>5, <2>7, <2>8, <2>9, GamesAdded, SMTT(30)
    <2> QED BY <2>10 DEF Played, before, after
  <1> QED BY <1>4, <1>5

\* The games played are told from the sets and the current games.
LEMMA PlayedSame ==
    ASSUME NEW s \in Scores, NEW t \in Scores, t.sets = s.sets, t.games = s.games
    PROVE  Played(t) = Played(s)
  <1>1. GamesOf(t) = GamesOf(s)
    BY DEF GamesOf
  <1> DEFINE m == Len(s.sets) + 1
             before == Append(s.sets, s)
             after == Append(t.sets, t)
  <1>2. /\ DOMAIN before = 1 .. m /\ DOMAIN after = 1 .. m
        /\ before[m] = s /\ after[m] = t /\ \A i \in 1 .. m : i # m => after[i] = before[i]
    BY PlayedIs
  <1> HIDE DEF m, before, after
  <1>3. \A i \in 1 .. m : GamesOf(after[i]) = GamesOf(before[i])
    BY <1>1, <1>2
  <1>4. ASSUME NEW p
        PROVE  p \in GamesIn(after) <=> p \in GamesIn(before)
    <2>1. p \in GamesIn(after) <=> \E i \in 1 .. m : \E j \in 1 .. GamesOf(after[i]) : p = << i, j >>
      <3>1. p \in GamesIn(after)
               <=> \E i \in DOMAIN after : \E j \in 1 .. GamesOf(after[i]) : p = << i, j >>
        BY GamesInIs
      <3> QED BY <1>2, <3>1
    <2>2. p \in GamesIn(before) <=> \E i \in 1 .. m : \E j \in 1 .. GamesOf(before[i]) : p = << i, j >>
      <3>1. p \in GamesIn(before)
               <=> \E i \in DOMAIN before : \E j \in 1 .. GamesOf(before[i]) : p = << i, j >>
        BY GamesInIs
      <3> QED BY <1>2, <3>1
    <2> QED BY <1>3, <2>1, <2>2
  <1> QED BY <1>4 DEF Played, before, after

\* Whose turn it is to serve after some games.
Turn(n) == IF n % 2 = 0 THEN opener ELSE Opposite(opener)

\* The server, told from the games played and who opened the match.
Served ==
    score.status \in {"LIVE", "SUSPENDED"} =>
        /\ opener \in Side /\ IsFiniteSet(Played(score))
        /\ score.in_tiebreak =>
               score.tiebreak_first_server = Turn(Cardinality(Played(score)))
        /\ ~score.in_tiebreak => score.server = Turn(Cardinality(Played(score)))

MatchInductive == Validates(score) /\ Served

\* A scheduled match satisfies the invariant.
LEMMA InitMatch == MatchInit => MatchInductive
  <1> SUFFICES ASSUME MatchInit
               PROVE  MatchInductive
    OBVIOUS
  <1>1. /\ score.status = "SCHEDULED" /\ NothingDecided(score) /\ score.server = Nobody
        /\ score.sets = << >> /\ score.games = Zero /\ score.points = Zero
        /\ ~score.in_tiebreak /\ score.tiebreak = Zero
        /\ score.tiebreak_first_server = Nobody
    BY DEF MatchInit, Scheduled, NothingDecided
  <1>2. score \in Scores
    <2>1. score = [status |-> score.status, termination |-> score.termination,
                   winner |-> score.winner, retired |-> score.retired,
                   sets |-> score.sets, games |-> score.games, points |-> score.points,
                   in_tiebreak |-> score.in_tiebreak, tiebreak |-> score.tiebreak,
                   tiebreak_first_server |-> score.tiebreak_first_server,
                   server |-> score.server]
      BY DEF MatchInit, Scheduled
    <2>2. /\ score.status \in Statuses /\ score.termination \in Terminations
          /\ score.in_tiebreak \in BOOLEAN
      BY DEF MatchInit, Scheduled, Statuses, Terminations
    <2>3. score.sets \in Seq(SetScores)
      BY <1>1
    <2>4. score.winner = Nobody /\ score.retired = Nobody
      BY DEF MatchInit, Scheduled
    <2> QED BY <1>1, <2>1, <2>2, <2>3, <2>4, ZeroIs, ScoreMade
  <1>3. Reachable(score)
    BY <1>1 DEF Reachable, ScoreIsZero, SetIsZero
  <1>4. \A x \in Side : SetsWonBy(score.sets, x) # SetsRequired
    BY <1>1, NoWins, ScoreAssumption
  <1>5. score.termination # "NATURAL"
    BY <1>1 DEF NothingDecided
  <1>6. Validates(score)
    BY <1>1, <1>2, <1>3, <1>4, <1>5, ZeroInRange DEF Validates
  <1> QED BY <1>1, <1>6 DEF MatchInductive, Served

\* The sides serve in turn.
LEMMA NextTurn ==
    ASSUME NEW n \in Nat, opener \in Side
    PROVE  Turn(n) \in Side /\ Turn(n + 1) = Opposite(Turn(n))
  <1>1. (n + 1) % 2 = 0 <=> n % 2 # 0
    OBVIOUS
  <1> QED BY <1>1, SidesAre DEF Turn

\* Playing a point keeps the order of serve.
LEMMA PointKeeps ==
    ASSUME MatchInductive, NEW w \in Side, Point(w)
    PROVE  MatchInductive'
  <1>1. /\ Playing(score) /\ score \in Scores /\ Served /\ opener' = opener
        /\ score' = AdvanceScore(score, w)
    BY DEF MatchInductive, Point, Playing, Validates
  <1>2. /\ opener \in Side /\ IsFiniteSet(Played(score))
        /\ score.in_tiebreak =>
               score.tiebreak_first_server = Turn(Cardinality(Played(score)))
        /\ ~score.in_tiebreak => score.server = Turn(Cardinality(Played(score)))
    BY <1>1 DEF Served, Playing
  <1> DEFINE n == Cardinality(Played(score))
             more == Cardinality(Played(score'))
  <1>3. n \in Nat
    BY <1>2, FS_CardinalityType
  <1>4. score.games \in SideCounts /\ score.tiebreak \in SideCounts /\ score.server \in Side
    BY <1>1, PlayingIs
  <1>5. /\ Opposite(w) \in Side /\ Opposite(w) # w
        /\ \A games \in SideCounts :
               games[w] = score.games[w] + 1
                   /\ games[Opposite(w)] = score.games[Opposite(w)]
                   => GamesOf([games |-> games]) = GamesOf(score) + 1
    <2>1. \A x \in Side : score.games[x] \in Nat
      BY <1>4 DEF SideCounts
    <2>2. (w = "home" /\ Opposite(w) = "away") \/ (w = "away" /\ Opposite(w) = "home")
      BY DEF Side, Opposite
    <2>3. ASSUME NEW games \in SideCounts, games[w] = score.games[w] + 1,
                 games[Opposite(w)] = score.games[Opposite(w)]
          PROVE  GamesOf([games |-> games]) = GamesOf(score) + 1
      <3>1. GamesOf([games |-> games]) = games["home"] + games["away"]
        BY DEF GamesOf
      <3>2. GamesOf(score) = score.games["home"] + score.games["away"]
        BY DEF GamesOf
      <3>3. score.games["home"] \in Nat /\ score.games["away"] \in Nat
        BY <2>1, SidesAre
      <3> QED BY <2>2, <2>3, <3>1, <3>2, <3>3
    <2> QED BY <2>3, SidesAre
  <1>6. CASE score.in_tiebreak
    <2> DEFINE points == [score.tiebreak EXCEPT ![w] = @ + 1]
               games == [score.games EXCEPT ![w] = SetGames + 1]
               first == score.tiebreak_first_server
    <2>1. score' = AdvanceTiebreak(score, w)
      BY <1>1, <1>6 DEF AdvanceScore
    <2>2. /\ Playing(score') \/ (Ended(score') /\ Validates(score'))
          /\ \/ /\ NewSet(score, score', SetScore(games, points))
                /\ score'.server \in {Opposite(first), Nobody}
             \/ /\ score'.sets = score.sets /\ score'.games = score.games
                /\ score'.tiebreak = points /\ score'.in_tiebreak
                /\ score'.tiebreak_first_server = first
      BY <1>1, <1>6, <2>1, TiebreakPlayed
    <2>3. score' \in Scores /\ Validates(score')
      BY <2>2 DEF Playing, Validates
    <2>4. /\ points \in SideCounts /\ games \in SideCounts
          /\ GamesOf([games |-> games]) = GamesOf(score) + 1
      <3>1. score.games = [x \in Side |-> SetGames]
        BY <1>1, <1>6, PlayingIs DEF IncompleteScoreIsReachable
      <3>2. points \in SideCounts
        BY <1>4 DEF SideCounts
      <3>3. games \in SideCounts
        BY <1>4, ScoreAssumption DEF SideCounts
      <3>4. games[w] = score.games[w] + 1 /\ games[Opposite(w)] = score.games[Opposite(w)]
        BY <1>4, <1>5, <3>1 DEF SideCounts
      <3> HIDE DEF games, points
      <3> QED BY <1>5, <3>2, <3>3, <3>4
    <2> HIDE DEF points, games
    <2>5. CASE NewSet(score, score', SetScore(games, points))
               /\ score'.server \in {Opposite(first), Nobody}
      <3>1. IsFiniteSet(Played(score')) /\ more = n + 1
        BY <1>1, <1>2, <2>3, <2>4, <2>5, PlayedGrows
      <3>2. ~score'.in_tiebreak
        BY <2>5 DEF NewSet
      <3>3. score'.status \in {"LIVE", "SUSPENDED"} => score'.server = Turn(n + 1)
        <4>1. ASSUME score'.status \in {"LIVE", "SUSPENDED"}
              PROVE  score'.server = Turn(n + 1)
          <5>1. score'.server \in Side
            BY <2>2, <4>1, PlayingIs DEF Ended
          <5>2. score'.server = Opposite(first)
            BY <2>5, <5>1, SidesAre
          <5> QED BY <1>2, <1>3, <1>6, <5>2, NextTurn
        <4> QED BY <4>1
      <3>4. Served'
        BY <1>1, <1>2, <3>1, <3>2, <3>3 DEF Served, Turn
      <3> QED BY <2>3, <3>4 DEF MatchInductive
    <2>6. CASE /\ score'.sets = score.sets /\ score'.games = score.games
               /\ score'.tiebreak = points /\ score'.in_tiebreak
               /\ score'.tiebreak_first_server = first
      <3>1. Played(score') = Played(score)
        BY <1>1, <2>3, <2>6, PlayedSame
      <3>2. Served'
        BY <1>1, <1>2, <1>6, <2>6, <3>1 DEF Served, Turn
      <3> QED BY <2>3, <3>2 DEF MatchInductive
    <2> QED BY <2>2, <2>5, <2>6
  <1>7. CASE ~score.in_tiebreak /\ GameWon(score.points, w)
    <2> DEFINE games == [score.games EXCEPT ![w] = @ + 1]
    <2>1. score' = AdvanceGame(score, w)
      BY <1>1, <1>7 DEF AdvanceScore
    <2>2. /\ Playing(score') \/ (Ended(score') /\ Validates(score'))
          /\ score'.server \in {Opposite(score.server), Nobody}
          /\ \/ NewSet(score, score', SetScore(games, NoTiebreak))
             \/ /\ score'.sets = score.sets /\ score'.games = games
                /\ score'.in_tiebreak => score'.tiebreak_first_server = score'.server
      BY <1>1, <1>7, <2>1, GamePlayed
    <2>3. score' \in Scores /\ Validates(score')
      BY <2>2 DEF Playing, Validates
    <2>4. games \in SideCounts /\ GamesOf([games |-> games]) = GamesOf(score) + 1
      <3>1. games \in SideCounts
        BY <1>4 DEF SideCounts
      <3>2. games[w] = score.games[w] + 1 /\ games[Opposite(w)] = score.games[Opposite(w)]
        BY <1>4, <1>5 DEF SideCounts
      <3> HIDE DEF games
      <3> QED BY <1>5, <3>1, <3>2
    <2> HIDE DEF games
    <2>5. IsFiniteSet(Played(score')) /\ more = n + 1
      BY <1>1, <1>2, <2>2, <2>3, <2>4, PlayedGrows
    <2>6. score'.in_tiebreak => score'.tiebreak_first_server = score'.server
      BY <2>2 DEF NewSet
    <2>7. score'.status \in {"LIVE", "SUSPENDED"} => score'.server = Turn(n + 1)
      <3>1. ASSUME score'.status \in {"LIVE", "SUSPENDED"}
            PROVE  score'.server = Turn(n + 1)
        <4>1. score'.server \in Side
          BY <2>2, <3>1, PlayingIs DEF Ended
        <4>2. score'.server = Opposite(score.server)
          BY <2>2, <4>1, SidesAre
        <4> QED BY <1>2, <1>3, <1>7, <4>2, NextTurn
      <3> QED BY <3>1
    <2>8. Served'
      BY <1>1, <1>2, <2>5, <2>6, <2>7 DEF Served, Turn
    <2> QED BY <2>3, <2>8 DEF MatchInductive
  <1>8. CASE ~score.in_tiebreak /\ ~GameWon(score.points, w)
    <2>1. score' = [score EXCEPT !.points = NextPoints(@, w)]
      BY <1>1, <1>8 DEF AdvanceScore
    <2>2. /\ Playing(score') /\ score'.sets = score.sets /\ score'.games = score.games
          /\ score'.in_tiebreak = score.in_tiebreak /\ score'.server = score.server
      BY <1>1, <1>8, <2>1, PointPlayed
    <2>3. score' \in Scores /\ Validates(score')
      BY <2>2 DEF Playing, Validates
    <2>4. Played(score') = Played(score)
      BY <1>1, <2>2, <2>3, PlayedSame
    <2>5. Served'
      BY <1>1, <1>2, <1>8, <2>2, <2>4 DEF Served, Turn
    <2> QED BY <2>3, <2>5 DEF MatchInductive
  <1> QED BY <1>6, <1>7, <1>8

\* A lifecycle event leaves what was played.
LEMMA LifecyclePlays ==
    ASSUME MatchInductive, NEW kind, NEW winner, NEW retired, NEW server,
           kind \in {"START", "SUSPEND", "RESUME", "WALKOVER", "RETIREMENT", "CANCEL"},
           Lifecycle(Event(kind, winner, retired, server))
    PROVE  /\ PlayedAlike(score, score') /\ score \in Scores
           /\ kind = "START" => /\ score.status = "SCHEDULED" /\ score'.status = "LIVE"
                                /\ score'.server = server
           /\ kind = "SUSPEND" => score.status = "LIVE" /\ score'.status = "SUSPENDED"
           /\ kind = "RESUME" => score.status = "SUSPENDED" /\ score'.status = "LIVE"
           /\ kind \in {"SUSPEND", "RESUME"} => score'.server = score.server
           /\ kind \in {"START", "SUSPEND", "RESUME"} =>
                  /\ score'.termination = score.termination
                  /\ score'.winner = score.winner /\ score'.retired = score.retired
           /\ kind \in {"WALKOVER", "RETIREMENT"} =>
                  /\ score.status \in {"SCHEDULED", "LIVE", "SUSPENDED"}
                  /\ score'.status = "ENDED" /\ score'.termination = kind
                  /\ score'.winner = winner /\ score'.retired = retired
                  /\ score'.server = Nobody
           /\ kind = "WALKOVER" => score.status = "SCHEDULED"
           /\ kind = "CANCEL" =>
                  /\ score.status \in {"SCHEDULED", "LIVE", "SUSPENDED"}
                  /\ score'.status = "CANCELLED" /\ score'.termination = "CANCELLATION"
                  /\ score'.winner = Nobody /\ score'.retired = Nobody
                  /\ score'.server = Nobody
  <1> DEFINE e == Event(kind, winner, retired, server)
  <1>1. /\ e.kind = kind /\ e.winner = winner /\ e.retired = retired
        /\ e.server = server
    BY DEF Event
  <1>2. LifecycleAllowed(score, e) /\ score' = LifecycleScore(score, e)
    BY DEF Lifecycle
  <1>3. score \in Scores /\ score.status \in Statuses
    BY DEF MatchInductive, Validates, Scores
  <1> HIDE DEF e
  <1>4. ~Over(score) => score.status \in {"SCHEDULED", "LIVE", "SUSPENDED"}
    BY <1>3 DEF Over, Statuses
  <1>5. CASE kind = "START"
    <2>1. score' = [score EXCEPT !.status = "LIVE", !.server = server]
      BY <1>1, <1>2, <1>5 DEF LifecycleScore
    <2>2. score.status = "SCHEDULED"
      BY <1>1, <1>2, <1>5 DEF LifecycleAllowed
    <2> QED BY <1>3, <1>5, <2>1, <2>2 DEF Scores, PlayedAlike
  <1>6. CASE kind = "SUSPEND"
    <2>1. score' = [score EXCEPT !.status = "SUSPENDED"]
      BY <1>1, <1>2, <1>6 DEF LifecycleScore
    <2>2. score.status = "LIVE"
      BY <1>1, <1>2, <1>6 DEF LifecycleAllowed
    <2> QED BY <1>3, <1>6, <2>1, <2>2 DEF Scores, PlayedAlike
  <1>7. CASE kind = "RESUME"
    <2>1. score' = [score EXCEPT !.status = "LIVE"]
      BY <1>1, <1>2, <1>7 DEF LifecycleScore
    <2>2. score.status = "SUSPENDED"
      BY <1>1, <1>2, <1>7 DEF LifecycleAllowed
    <2> QED BY <1>3, <1>7, <2>1, <2>2 DEF Scores, PlayedAlike
  <1>8. CASE kind \in {"WALKOVER", "RETIREMENT"}
    <2>1. score' = [score EXCEPT !.status = "ENDED", !.termination = kind,
                                 !.winner = winner, !.retired = retired,
                                 !.server = Nobody]
      BY <1>1, <1>2, <1>8 DEF LifecycleScore
    <2>2. /\ kind = "WALKOVER" => score.status = "SCHEDULED"
          /\ kind = "RETIREMENT" => score.status \in {"LIVE", "SUSPENDED"}
      BY <1>1, <1>2, <1>8 DEF LifecycleAllowed
    <2> QED BY <1>3, <1>8, <2>1, <2>2 DEF Scores, PlayedAlike
  <1>9. CASE kind = "CANCEL"
    <2>1. score' = [score EXCEPT !.status = "CANCELLED", !.termination = "CANCELLATION",
                                 !.winner = Nobody, !.retired = Nobody,
                                 !.server = Nobody]
      BY <1>1, <1>2, <1>9 DEF LifecycleScore
    <2>2. score.status \in {"SCHEDULED", "LIVE", "SUSPENDED"}
      BY <1>1, <1>2, <1>4, <1>9 DEF LifecycleAllowed
    <2> QED BY <1>3, <1>9, <2>1, <2>2 DEF Scores, PlayedAlike
  <1> QED BY <1>5, <1>6, <1>7, <1>8, <1>9

\* The start of a match keeps the invariant.
LEMMA StartKeeps ==
    ASSUME MatchInductive, NEW side \in Side, Start(side)
    PROVE  MatchInductive'
  <1>1. /\ PlayedAlike(score, score') /\ score \in Scores
        /\ score.status = "SCHEDULED" /\ score'.status = "LIVE" /\ score'.server = side
        /\ score'.termination = score.termination /\ score'.winner = score.winner
        /\ score'.retired = score.retired /\ opener' = side
    BY LifecyclePlays DEF Start
  <1>2. Validates(score) /\ ScoreIsZero(score) /\ NothingDecided(score)
    BY <1>1, OpenIs DEF MatchInductive
  <1>3. NothingDecided(score')
    BY <1>1, <1>2 DEF NothingDecided
  <1>4. Playing(score')
    BY <1>1, <1>2, <1>3, Started
  <1>5. score'.sets = << >> /\ score'.games = Zero /\ ~score'.in_tiebreak
    BY <1>1, <1>2 DEF ScoreIsZero, SetIsZero, PlayedAlike
  <1>6. score' \in Scores /\ Validates(score')
    BY <1>4 DEF Playing, Validates
  <1>7. IsFiniteSet(Played(score')) /\ Cardinality(Played(score')) = 0
    BY <1>5, <1>6, NoneYet
  <1>8. Served'
    BY <1>1, <1>5, <1>7 DEF Served, Turn
  <1> QED BY <1>6, <1>8 DEF MatchInductive

\* Suspending and resuming a match keeps the invariant.
LEMMA InterruptKeeps ==
    ASSUME MatchInductive, Suspend \/ Resume
    PROVE  MatchInductive'
  <1>1. /\ PlayedAlike(score, score') /\ score \in Scores
        /\ score.status \in {"LIVE", "SUSPENDED"} /\ score'.status \in {"LIVE", "SUSPENDED"}
        /\ score'.server = score.server /\ score'.termination = score.termination
        /\ score'.winner = score.winner /\ score'.retired = score.retired
        /\ opener' = opener
    <2>1. CASE Suspend
      BY <2>1, LifecyclePlays DEF Suspend
    <2>2. CASE Resume
      BY <2>2, LifecyclePlays DEF Resume
    <2> QED BY <2>1, <2>2
  <1>2. Validates(score')
    BY <1>1, Interrupted DEF MatchInductive
  <1>3. Played(score') = Played(score)
    BY <1>1, <1>2, PlayedSame DEF PlayedAlike, Validates
  <1>4. Served'
    BY <1>1, <1>3 DEF MatchInductive, Served, Turn, PlayedAlike
  <1> QED BY <1>2, <1>4 DEF MatchInductive

\* A match that stops early keeps the invariant.
LEMMA StopKeeps ==
    ASSUME MatchInductive, Cancel \/ \E side \in Side : WalkOver(side) \/ Retire(side)
    PROVE  MatchInductive'
  <1>1. Validates(score)
    BY DEF MatchInductive
  <1>2. CASE Cancel
    <2>1. /\ PlayedAlike(score, score') /\ score.status \in {"SCHEDULED", "LIVE", "SUSPENDED"}
          /\ score'.status = "CANCELLED" /\ score'.termination = "CANCELLATION"
          /\ score'.winner = Nobody /\ score'.retired = Nobody /\ score'.server = Nobody
      BY <1>2, LifecyclePlays DEF Cancel
    <2>2. Validates(score')
      BY <1>1, <2>1, Stopped
    <2> QED BY <2>1, <2>2 DEF MatchInductive, Served
  <1>3. ASSUME NEW side \in Side, WalkOver(side)
        PROVE  MatchInductive'
    <2>1. /\ PlayedAlike(score, score') /\ score.status = "SCHEDULED"
          /\ score'.status = "ENDED" /\ score'.termination = "WALKOVER"
          /\ score'.winner = side /\ score'.retired = Nobody /\ score'.server = Nobody
      BY <1>3, LifecyclePlays DEF WalkOver
    <2>2. Validates(score')
      BY <1>1, <2>1, Stopped
    <2> QED BY <2>1, <2>2 DEF MatchInductive, Served
  <1>4. ASSUME NEW side \in Side, Retire(side)
        PROVE  MatchInductive'
    <2>1. /\ PlayedAlike(score, score') /\ score.status \in {"SCHEDULED", "LIVE", "SUSPENDED"}
          /\ score'.status = "ENDED" /\ score'.termination = "RETIREMENT"
          /\ score'.winner = Opposite(side) /\ score'.retired = side
          /\ score'.server = Nobody
      BY <1>4, LifecyclePlays DEF Retire
    <2>2. score'.winner \in Side /\ score'.retired = Opposite(score'.winner)
      BY <2>1, SidesAre
    <2>3. Validates(score')
      BY <1>1, <2>1, <2>2, Stopped
    <2> QED BY <2>1, <2>3 DEF MatchInductive, Served
  <1> QED BY <1>2, <1>3, <1>4

\* Every step keeps the invariant.
LEMMA MatchStep == MatchInductive /\ [MatchNext]_match => MatchInductive'
  <1> SUFFICES ASSUME MatchInductive, [MatchNext]_match
               PROVE  MatchInductive'
    OBVIOUS
  <1>1. CASE UNCHANGED match
    BY <1>1 DEF match, MatchInductive, Served, Turn
  <1>2. CASE MatchNext
    BY <1>2, PointKeeps, StartKeeps, InterruptKeeps, StopKeeps DEF MatchNext
  <1> QED BY <1>1, <1>2

\* The server that the order of play asks for is the one of the score.
LEMMA ServedOrder == MatchInductive => ServeOrder
  <1> SUFFICES ASSUME MatchInductive, score.server # Nobody
               PROVE  LET played == score.tiebreak["home"] + score.tiebreak["away"]
                          changes == (played + 1) \div 2
                      IN score.server = IF (Cardinality(GamesPlayed) + changes) % 2 = 0
                                        THEN opener ELSE Opposite(opener)
    BY DEF ServeOrder
  <1> DEFINE played == score.tiebreak["home"] + score.tiebreak["away"]
             changes == (played + 1) \div 2
             n == Cardinality(Played(score))
             first == score.tiebreak_first_server
  <1>1. Validates(score) /\ Served /\ score \in Scores
    BY DEF MatchInductive, Validates
  <1>2. score.status \in {"LIVE", "SUSPENDED"} /\ IncompleteScoreIsReachable(score, TRUE)
    BY <1>1 DEF Validates, Reachable, IncompleteScoreIsReachable
  <1>3. GamesPlayed = Played(score)
    BY DEF GamesPlayed, Played, GamesIn
  <1>4. opener \in Side /\ n \in Nat
    BY <1>1, <1>2, FS_CardinalityType DEF Served
  <1>5. played \in Nat
    <2>1. score.tiebreak \in SideCounts
      BY <1>1 DEF Scores
    <2>2. score.tiebreak["home"] \in Nat /\ score.tiebreak["away"] \in Nat
      BY <2>1, SidesAre DEF SideCounts
    <2> QED BY <2>2
  <1>6. CASE score.in_tiebreak
    <2>1. first = Turn(n) /\ score.server = TiebreakServer(first, played)
      BY <1>1, <1>2, <1>6 DEF Served, IncompleteScoreIsReachable
    <2> HIDE DEF n, played
    <2>2. (n + changes) % 2 = 0 <=> (n % 2 = 0 <=> changes % 2 = 0)
      <3>1. changes \in Nat
        BY <1>5
      <3> HIDE DEF changes
      <3> QED BY <1>4, <3>1
    <2>3. changes % 2 = 0 <=> played = 0 \/ ((played - 1) \div 2) % 2 # 0
      <3>1. CASE played = 0
        BY <3>1
      <3>2. CASE played # 0
        <4>1. changes = (played - 1) \div 2 + 1 /\ (played - 1) \div 2 \in Nat
          BY <1>5, <3>2
        <4> QED BY <3>2, <4>1
      <3> QED BY <3>1, <3>2
    <2>4. score.server = IF changes % 2 = 0 THEN Turn(n) ELSE Opposite(Turn(n))
      BY <2>1, <2>3 DEF TiebreakServer
    <2> HIDE DEF changes
    <2>5. score.server = IF (n + changes) % 2 = 0 THEN opener ELSE Opposite(opener)
      BY <1>4, <2>2, <2>4, SidesAre DEF Turn
    <2> QED BY <1>3, <2>5 DEF n, changes, played
  <1>7. CASE ~score.in_tiebreak
    <2>1. score.server = Turn(n) /\ score.tiebreak = Zero
      BY <1>1, <1>2, <1>7 DEF Served, Validates
    <2>2. played = 0
      BY <2>1, ZeroIs, SidesAre
    <2>3. changes = 0
      BY <2>2
    <2> HIDE DEF n, changes
    <2>4. n + changes = n
      BY <1>4, <2>3
    <2> QED BY <1>3, <2>1, <2>4 DEF Turn, n, changes
  <1> QED BY <1>6, <1>7

(* Every score that play reaches, of sets, tiebreaks and matches of any    *)
(* length, is one that the validating predicate of the expert accepts, and *)
(* has ended naturally exactly when a side has won the sets it needs.      *)
THEOREM ScoresValidate == MatchSpec => []EveryScoreValidates
  <1>1. MatchInductive => EveryScoreValidates
    <2> SUFFICES ASSUME MatchInductive
                 PROVE  EveryScoreValidates
      OBVIOUS
    <2>1. /\ Reachable(score) /\ PointsInRange(score)
          /\ score.in_tiebreak => score.points = Zero
          /\ ~score.in_tiebreak => score.tiebreak = Zero /\ score.tiebreak_first_server = Nobody
          /\ score.termination = "NATURAL"
                <=> \E x \in Side : SetsWonBy(score.sets, x) = SetsRequired
      BY DEF MatchInductive, Validates
    <2> QED BY <2>1 DEF EveryScoreValidates, PointsValid, PointsInRange
  <1> QED BY <1>1, InitMatch, MatchStep, PTL DEF MatchSpec

(* The current server is the one that the order of serve asks for, from    *)
(* the opener of the match through every game, tiebreak and set.           *)
THEOREM ServesAlternate == MatchSpec => []ServeOrder
  <1> QED BY InitMatch, MatchStep, ServedOrder, PTL DEF MatchSpec

-----------------------------------------------------------------------------
(* Synchronizer: what the cursors of a session are made of, and the order   *)
(* of identities.                                                           *)

Ids == Nat \X Nat

\* What the cursors of a session are made of.
IsTennis(x) ==
    /\ x = [score |-> x.score, epoch |-> x.epoch, revision |-> x.revision,
            digest |-> x.digest, received |-> x.received, block |-> x.block,
            blocked_at |-> x.blocked_at]
    /\ x.epoch \in Nat /\ x.revision \in Nat /\ x.received \in Nat

IsWitness(x) ==
    /\ x = [event |-> x.event, received |-> x.received]
    /\ x.event.epoch \in Nat /\ x.event.revision \in Nat /\ x.received \in Nat

IsBook(x) ==
    /\ x = [epoch |-> x.epoch, sequence |-> x.sequence, status |-> x.status,
            close |-> x.close, observed |-> x.observed,
            lifecycle_observed |-> x.lifecycle_observed,
            lifecycle_source |-> x.lifecycle_source, bids |-> x.bids,
            trusted |-> x.trusted, sequence_gap |-> x.sequence_gap]
    /\ x.epoch \in Nat /\ x.sequence \in Nat /\ x.observed \in Nat

IsPending(x) ==
    /\ x = [first |-> x.first, last |-> x.last, first_id |-> x.first_id,
            last_id |-> x.last_id, several |-> x.several,
            tennis_floor |-> x.tennis_floor, book_floor |-> x.book_floor]
    /\ x.first \in Nat /\ x.last \in Nat /\ x.first_id \in Ids /\ x.last_id \in Ids
    /\ x.several \in BOOLEAN /\ x.tennis_floor \in Nat \cup {NoFloor}
    /\ x.book_floor \in Nat

IsEmission(x) ==
    /\ x = [provider |-> x.provider, digest |-> x.digest, book |-> x.book]
    /\ x.provider \in Ids /\ x.book \in Ids

\* The cursors of a session are never mistaken for None.
LEMMA Present ==
    ASSUME NEW x, IsTennis(x) \/ IsWitness(x) \/ IsBook(x) \/ IsPending(x) \/ IsEmission(x)
    PROVE  x # None
  <1>1. DOMAIN None = {"absent"}
    BY DEF None
  <1>2. ASSUME IsTennis(x)
        PROVE  "epoch" \in DOMAIN x
    BY <1>2 DEF IsTennis
  <1>3. ASSUME IsWitness(x)
        PROVE  "event" \in DOMAIN x
    BY <1>3 DEF IsWitness
  <1>4. ASSUME IsBook(x)
        PROVE  "epoch" \in DOMAIN x
    BY <1>4 DEF IsBook
  <1>5. ASSUME IsPending(x)
        PROVE  "first" \in DOMAIN x
    BY <1>5 DEF IsPending
  <1>6. ASSUME IsEmission(x)
        PROVE  "provider" \in DOMAIN x
    BY <1>6 DEF IsEmission
  <1> QED BY <1>1, <1>2, <1>3, <1>4, <1>5, <1>6

Cursors(x) ==
    /\ x = [tennis |-> x.tennis, witness |-> x.witness, book |-> x.book,
            pending |-> x.pending, causal |-> x.causal,
            consumed |-> x.consumed, emission |-> x.emission,
            decisions |-> x.decisions]
    /\ x.tennis = None \/ IsTennis(x.tennis)
    /\ x.witness = None \/ IsWitness(x.witness)
    /\ x.book = [t \in Markets |-> x.book[t]]
    /\ x.pending = [t \in Markets |-> x.pending[t]]
    /\ x.causal = [t \in Markets |-> x.causal[t]]
    /\ x.consumed = [t \in Markets |-> x.consumed[t]]
    /\ x.emission = [t \in Markets |-> x.emission[t]]
    /\ \A t \in Markets :
           /\ x.book[t] = None \/ IsBook(x.book[t])
           /\ x.pending[t] = None \/ IsPending(x.pending[t])
           /\ x.causal[t] = None \/ IsWitness(x.causal[t])
           /\ x.consumed[t] = None \/ IsWitness(x.consumed[t])
           /\ x.emission[t] = None \/ IsEmission(x.emission[t])
    /\ x.decisions \in Nat

\* The order of identities.
LEMMA Ordered ==
    ASSUME NEW a \in Ids, NEW b \in Ids
    PROVE  /\ AtMost(a, a)
           /\ AtMost(a, b) /\ AtMost(b, a) => a = b
           /\ AtMost(a, b) \/ AtMost(b, a)
           /\ \A c \in Ids : AtMost(a, b) /\ AtMost(b, c) => AtMost(a, c)
  <1> DEFINE N(c) == c[1] \in Nat /\ c[2] \in Nat
  <1>1. \A c \in Ids : N(c) /\ c = << c[1], c[2] >>
    BY DEF Ids
  <1>2. AtMost(a, b) /\ AtMost(b, a) => a = b
    <2>1. ASSUME AtMost(a, b), AtMost(b, a)
          PROVE  a[1] = b[1] /\ a[2] = b[2]
      BY <1>1, <2>1 DEF AtMost
    <2> QED BY <1>1, <2>1
  <1>3. AtMost(a, a) /\ (AtMost(a, b) \/ AtMost(b, a))
    BY <1>1 DEF AtMost
  <1>4. ASSUME NEW c \in Ids, AtMost(a, b), AtMost(b, c)
        PROVE  AtMost(a, c)
    BY <1>1, <1>4 DEF AtMost
  <1> QED BY <1>2, <1>3, <1>4

-----------------------------------------------------------------------------
(* What a provider's event does to the tracker. *)

\* A tracker that an event did not move, one that it moved by a revision, and
\* one that it replaced.
Applied == {"POINT_APPLIED", "CORRECTION_APPLIED"}

Stays(k, x, reason) ==
    /\ IsTennis(x) /\ x.epoch = k.epoch /\ x.revision = k.revision
    /\ x.digest = k.digest /\ x.received = k.received /\ x.score = k.score
    /\ reason \notin Applied

Steps(k, e, at, x) ==
    /\ IsTennis(x) /\ x.epoch = k.epoch /\ e.epoch = k.epoch
    /\ x.revision = e.revision /\ e.revision = k.revision + 1
    /\ x.digest = e /\ x.received = at /\ k.received <= at

Moves(k, e, at, x, reason) ==
    \/ Stays(k, x, reason)
    \/ /\ Steps(k, e, at, x)
       /\ e.kind # "SNAPSHOT" /\ x.score = ScoreAfter(k.score, e)
       /\ e.kind = "POINT" => reason = "POINT_APPLIED"
       /\ e.kind # "POINT" => reason \notin Applied
    \/ /\ x = TrackerFrom(e, at) /\ e.kind = "SNAPSHOT" /\ IsTennis(x)
       /\ e.epoch > k.epoch /\ k.received <= at /\ reason = "CORRECTION_APPLIED"

\* An event as it is delivered.
IsDelivery(e, at) ==
    /\ e.epoch \in Nat /\ e.revision \in Nat
    /\ e.mismatch \in ProviderDefects \cup {NoMismatch} /\ at \in Nat

\* A refused event leaves the tracker at its place.
LEMMA BlockStays ==
    ASSUME NEW k, IsTennis(k), NEW reason, reason \notin Applied, NEW at,
           NEW x, x = BlockState(k, reason, at)
    PROVE  Stays(k, x, reason)
  <1>1. /\ x.epoch = k.epoch /\ x.revision = k.revision /\ x.digest = k.digest
        /\ x.received = k.received /\ x.score = k.score
    BY DEF IsTennis, BlockState
  <1>2. x = [score |-> x.score, epoch |-> x.epoch, revision |-> x.revision,
             digest |-> x.digest, received |-> x.received, block |-> x.block,
             blocked_at |-> x.blocked_at]
    BY DEF IsTennis, BlockState
  <1>3. k.epoch \in Nat /\ k.revision \in Nat /\ k.received \in Nat
    BY DEF IsTennis
  <1>4. IsTennis(x)
    BY <1>1, <1>2, <1>3 DEF IsTennis
  <1> QED BY <1>1, <1>4 DEF Stays

LEMMA Following ==
    ASSUME NEW m \in Nat, NEW n \in Nat, ~(n < m)
    PROVE  /\ m <= n
           /\ ~(n > m) => n = m
           /\ n # m /\ ~(n > m + 1) => n = m + 1
  OBVIOUS

LEMMA AppliedSteps ==
    ASSUME NEW k, IsTennis(k), NEW e, NEW at, NEW due, IsDelivery(e, at),
           PrecheckReason(k, e, at) = "OK"
    PROVE  /\ Steps(k, e, at, AppliedState(k, e, at, due))
           /\ AppliedState(k, e, at, due).score = due
  <1> SUFFICES ASSUME NEW x, x = AppliedState(k, e, at, due)
               PROVE  Steps(k, e, at, x) /\ x.score = due
    OBVIOUS
  <1>1. /\ k.epoch \in Nat /\ k.revision \in Nat /\ k.received \in Nat
        /\ e.epoch \in Nat /\ e.revision \in Nat /\ at \in Nat
    BY DEF IsTennis, IsDelivery
  <1>2. e.mismatch # "OK"
    BY DEF IsDelivery, ProviderDefects, NoMismatch
  <1>3. /\ ~(at < k.received) /\ ~(e.epoch < k.epoch) /\ ~(e.epoch > k.epoch)
        /\ e.revision # k.revision /\ ~(e.revision < k.revision)
        /\ ~(e.revision > k.revision + 1)
    BY <1>2 DEF PrecheckReason
  <1>4. e.epoch = k.epoch
    BY <1>1, <1>3, Following
  <1>5. e.revision = k.revision + 1
    BY <1>1, <1>3, Following
  <1>6. k.received <= at
    BY <1>1, <1>3, Following
  <1>7. /\ x.epoch = k.epoch /\ x.revision = e.revision /\ x.digest = e
        /\ x.received = at /\ x.score = due
    BY DEF IsTennis, AppliedState
  <1>8. x = [score |-> x.score, epoch |-> x.epoch, revision |-> x.revision,
             digest |-> x.digest, received |-> x.received, block |-> x.block,
             blocked_at |-> x.blocked_at]
    BY DEF IsTennis, AppliedState
  <1>9. IsTennis(x)
    BY <1>1, <1>7, <1>8 DEF IsTennis
  <1> QED BY <1>4, <1>5, <1>6, <1>7, <1>9 DEF Steps

LEMMA PrecheckedStays ==
    ASSUME NEW k, IsTennis(k), NEW e, NEW at, IsDelivery(e, at), PrecheckReason(k, e, at) # "OK"
    PROVE  Stays(k, Prechecked(k, e, at).state, Prechecked(k, e, at).reason)
  <1> DEFINE reason == PrecheckReason(k, e, at)
  <1>1. reason \notin Applied
    BY DEF PrecheckReason, Applied, IsDelivery, ProviderDefects, NoMismatch
  <1>2. Stays(k, k, reason)
    BY <1>1 DEF Stays
  <1>3. Stays(k, BlockState(k, reason, at), reason)
    BY <1>1, BlockStays
  <1> HIDE DEF reason
  <1>4. Prechecked(k, e, at).state \in {k, BlockState(k, reason, at)}
        /\ Prechecked(k, e, at).reason = reason
    BY DEF Prechecked, Outcome, Blocked, reason
  <1> QED BY <1>2, <1>3, <1>4

\* What the three kinds of a provider's event do to the tracker.
LEMMA PointMoves ==
    ASSUME NEW k, IsTennis(k), NEW e, NEW at, IsDelivery(e, at), e.kind = "POINT",
           NEW result, result = ApplyPoint(k, e, at)
    PROVE  Moves(k, e, at, result.state, result.reason)
  <1>1. CASE PrecheckReason(k, e, at) # "OK"
    BY <1>1, PrecheckedStays DEF ApplyPoint, Moves
  <1>0. PICK due : due = AdvanceScore(k.score, e.winner)
                     /\ due = ScoreAfter(k.score, e)
    BY DEF ScoreAfter, Confirms
  <1>2. CASE PrecheckReason(k, e, at) = "OK"
             /\ \E reason \in {"TERMINAL_ABSORBING", "POINT_WHILE_NOT_LIVE", "SERVER_MISMATCH"} :
                    result = Blocked(k, reason, at)
    <2>1. PICK reason \in {"TERMINAL_ABSORBING", "POINT_WHILE_NOT_LIVE", "SERVER_MISMATCH"} :
              result = Blocked(k, reason, at)
      BY <1>2
    <2>2. reason \notin Applied
      BY DEF Applied
    <2>3. result.state = BlockState(k, reason, at) /\ result.reason = reason
      BY <2>1 DEF Blocked, Outcome
    <2> QED BY <2>2, <2>3, BlockStays DEF Moves
  <1>3. CASE /\ PrecheckReason(k, e, at) = "OK"
             /\ result = Outcome(AppliedState(k, e, at, due), "APPLIED", "POINT_APPLIED")
    <2>1. result.state = AppliedState(k, e, at, due) /\ result.reason = "POINT_APPLIED"
      BY <1>3 DEF Outcome
    <2>2. Steps(k, e, at, result.state) /\ result.state.score = due
      BY <1>3, <2>1, AppliedSteps
    <2> QED BY <1>0, <2>1, <2>2 DEF Moves
  <1>4. \/ PrecheckReason(k, e, at) # "OK"
        \/ \E reason \in {"TERMINAL_ABSORBING", "POINT_WHILE_NOT_LIVE", "SERVER_MISMATCH"} :
                    result = Blocked(k, reason, at)
        \/ result = Outcome(AppliedState(k, e, at, due), "APPLIED", "POINT_APPLIED")
    BY <1>0 DEF ApplyPoint
  <1> QED BY <1>1, <1>2, <1>3, <1>4

LEMMA LifecycleMoves ==
    ASSUME NEW k, IsTennis(k), NEW e, NEW at, IsDelivery(e, at),
           e.kind # "POINT", e.kind # "SNAPSHOT",
           NEW result, result = ApplyLifecycle(k, e, at)
    PROVE  Moves(k, e, at, result.state, result.reason)
  <1> DEFINE Refusals == {"TERMINAL_ABSORBING", "ILLEGAL_LIFECYCLE_TRANSITION", "SERVER_MISMATCH"}
             ends == {"NATURAL_END_CONFIRMED", "LIFECYCLE_APPLIED"}
  <1>0. PICK due : due = ScoreAfter(k.score, e)
    OBVIOUS
  <1>1. CASE PrecheckReason(k, e, at) # "OK"
    BY <1>1, PrecheckedStays DEF ApplyLifecycle, Moves
  <1>2. CASE PrecheckReason(k, e, at) = "OK"
             /\ \E reason \in Refusals : result = Blocked(k, reason, at)
    <2>1. PICK reason \in Refusals : result = Blocked(k, reason, at)
      BY <1>2
    <2>2. reason \notin Applied
      BY DEF Applied
    <2>3. result.state = BlockState(k, reason, at) /\ result.reason = reason
      BY <2>1 DEF Blocked, Outcome
    <2> QED BY <2>2, <2>3, BlockStays DEF Moves
  <1>4. due = IF Confirms(k.score, e) THEN k.score ELSE LifecycleScore(k.score, e)
    BY <1>0 DEF ScoreAfter
  <1>3. CASE /\ PrecheckReason(k, e, at) = "OK"
             /\ \E reason \in ends :
                    result = Outcome(AppliedState(k, e, at, due), "APPLIED", reason)
    <2>1. PICK reason \in ends :
              result = Outcome(AppliedState(k, e, at, due), "APPLIED", reason)
      BY <1>3
    <2>2. result.state = AppliedState(k, e, at, due) /\ result.reason = reason
      BY <2>1 DEF Outcome
    <2>3. Steps(k, e, at, result.state) /\ result.state.score = due
      BY <1>3, <2>2, AppliedSteps
    <2>4. reason \notin Applied
      BY DEF Applied
    <2> HIDE DEF ends
    <2> QED BY <2>2, <2>3, <2>4, <1>0 DEF Moves
  <1>5. \/ PrecheckReason(k, e, at) # "OK"
        \/ \E reason \in Refusals : result = Blocked(k, reason, at)
        \/ \E reason \in ends :
               result = Outcome(AppliedState(k, e, at, due), "APPLIED", reason)
    BY <1>4 DEF ApplyLifecycle
  <1> QED BY <1>1, <1>2, <1>3, <1>5

LEMMA CorrectionMoves ==
    ASSUME NEW k, IsTennis(k), NEW e, NEW at, IsDelivery(e, at), e.kind = "SNAPSHOT",
           NEW result, result = ApplyCorrection(k, e, at)
    PROVE  Moves(k, e, at, result.state, result.reason)
  <1> DEFINE Refusals == {"RECEIVE_TIME_REGRESSION", "CORRECTION_EPOCH_NOT_NEWER",
                         "CORRECTION_SNAPSHOT_INVALID"} \cup ProviderDefects
  <1>1. CASE \E reason \in Refusals : result = CorrectionRejected(k, reason, at)
    <2>1. PICK reason \in Refusals : result = CorrectionRejected(k, reason, at)
      BY <1>1
    <2>2. reason \notin Applied
      BY DEF Applied, ProviderDefects
    <2>3. /\ result.state \in {k, BlockState(k, reason, at)} /\ result.reason = reason
      BY <2>1 DEF CorrectionRejected, Outcome
    <2>4. Stays(k, k, reason)
      BY <2>2 DEF Stays
    <2> QED BY <2>2, <2>3, <2>4, BlockStays DEF Moves
  <1>2. CASE result = Outcome(k, "DUPLICATE", "EXACT_DUPLICATE")
    <2>1. result.state = k /\ result.reason = "EXACT_DUPLICATE"
      BY <1>2 DEF Outcome
    <2>2. Stays(k, k, "EXACT_DUPLICATE")
      BY DEF Stays, Applied
    <2> QED BY <2>1, <2>2 DEF Moves
  <1>3. CASE /\ result = Outcome(TrackerFrom(e, at), "APPLIED", "CORRECTION_APPLIED")
             /\ ~(at < k.received) /\ ~(e.epoch <= k.epoch)
    <2>1. result.state = TrackerFrom(e, at) /\ result.reason = "CORRECTION_APPLIED"
      BY <1>3 DEF Outcome
    <2>2. /\ k.epoch \in Nat /\ k.received \in Nat /\ e.epoch \in Nat /\ e.revision \in Nat
          /\ at \in Nat
      BY DEF IsTennis, IsDelivery
    <2>3. IsTennis(TrackerFrom(e, at))
      BY <2>2 DEF IsTennis, TrackerFrom
    <2> QED BY <1>3, <2>1, <2>2, <2>3 DEF Moves
  <1>4. e.mismatch # NoMismatch => e.mismatch \in Refusals
    BY DEF IsDelivery
  <1>5. \/ \E reason \in Refusals : result = CorrectionRejected(k, reason, at)
        \/ result = Outcome(k, "DUPLICATE", "EXACT_DUPLICATE")
        \/ /\ result = Outcome(TrackerFrom(e, at), "APPLIED", "CORRECTION_APPLIED")
           /\ ~(at < k.received) /\ ~(e.epoch <= k.epoch)
    BY <1>4 DEF ApplyCorrection
  <1> QED BY <1>1, <1>2, <1>3, <1>5

LEMMA TennisMoves ==
    ASSUME NEW k, IsTennis(k), NEW e, NEW at, IsDelivery(e, at),
           NEW result, result = TennisResult(k, e, at)
    PROVE  Moves(k, e, at, result.state, result.reason)
  BY PointMoves, LifecycleMoves, CorrectionMoves DEF TennisResult

-----------------------------------------------------------------------------
(* What a venue's event does to a book. *)

\* A book that an event left at its place, and one that it moved on.
Large == {"SNAPSHOT", "DELTA"}

Rests(b, x, kind) ==
    /\ IsBook(x) /\ x.epoch = b.epoch /\ x.sequence = b.sequence
    /\ x.observed = b.observed /\ x.bids = b.bids
    /\ x.trusted => b.trusted
    /\ kind \notin Large

Extends(b, e, at, x, kind) ==
    /\ IsBook(x) /\ x.epoch = b.epoch /\ e.epoch = b.epoch
    /\ x.sequence = e.sequence /\ e.sequence = b.sequence + 1
    /\ x.observed = at /\ b.observed <= at /\ b.trusted
    /\ x.bids = [b.bids EXCEPT ![e.side][e.price] = e.quantity]
    /\ kind = "DELTA" /\ e.kind = "DELTA"

Replaces(b, e, at, x, kind) ==
    /\ x = FromSnapshot(e, at) /\ IsBook(x) /\ e.kind = "SNAPSHOT"
    /\ b # None => b.epoch < e.epoch /\ b.observed <= at
    /\ kind = "SNAPSHOT"

BookMoved(b, e, at, r) ==
    /\ \/ b # None /\ Rests(b, r.book, r.kind)
       \/ b # None /\ Extends(b, e, at, r.book, r.kind)
       \/ Replaces(b, e, at, r.book, r.kind)
    /\ b # None /\ r.kind \in Large => r.move = ExecutableMove(b.bids, r.book.bids)

IsBookDelivery(e, at) ==
    /\ at \in Nat /\ e.epoch \in Nat
    /\ e.kind \in {"SNAPSHOT", "DELTA", "LIFECYCLE"}
    /\ e.kind # "LIFECYCLE" => e.sequence \in Nat

LEMMA GapRests ==
    ASSUME NEW b, IsBook(b), NEW x, x = GappedCopy(b), NEW kind, kind \notin Large
    PROVE  Rests(b, x, kind)
  <1>1. /\ x.epoch = b.epoch /\ x.sequence = b.sequence /\ x.observed = b.observed
        /\ x.bids = b.bids /\ x.trusted = FALSE
    BY DEF IsBook, GappedCopy
  <1>2. x = [epoch |-> x.epoch, sequence |-> x.sequence, status |-> x.status,
            close |-> x.close, observed |-> x.observed,
            lifecycle_observed |-> x.lifecycle_observed,
            lifecycle_source |-> x.lifecycle_source, bids |-> x.bids,
            trusted |-> x.trusted, sequence_gap |-> x.sequence_gap]
    BY DEF IsBook, GappedCopy
  <1>3. b.epoch \in Nat /\ b.sequence \in Nat /\ b.observed \in Nat
    BY DEF IsBook
  <1>4. IsBook(x)
    BY <1>1, <1>2, <1>3 DEF IsBook
  <1> QED BY <1>1, <1>4 DEF Rests

LEMMA SnapshotIsBook ==
    ASSUME NEW e, NEW at, IsBookDelivery(e, at), e.kind = "SNAPSHOT",
           NEW x, x = FromSnapshot(e, at)
    PROVE  IsBook(x)
  <1>1. e.epoch \in Nat /\ e.sequence \in Nat /\ at \in Nat
    BY DEF IsBookDelivery
  <1>2. x.epoch = e.epoch /\ x.sequence = e.sequence /\ x.observed = at
    BY DEF FromSnapshot
  <1>3. x = [epoch |-> x.epoch, sequence |-> x.sequence, status |-> x.status,
            close |-> x.close, observed |-> x.observed,
            lifecycle_observed |-> x.lifecycle_observed,
            lifecycle_source |-> x.lifecycle_source, bids |-> x.bids,
            trusted |-> x.trusted, sequence_gap |-> x.sequence_gap]
    BY DEF FromSnapshot
  <1> QED BY <1>1, <1>2, <1>3 DEF IsBook

LEMMA ResultFields ==
    ASSUME NEW b, NEW kind, NEW move
    PROVE  /\ Transition(b, kind, move).book = b
           /\ Transition(b, kind, move).kind = kind
           /\ Transition(b, kind, move).move = move
           /\ NoEvent(b).book = b /\ NoEvent(b).kind = "none"
           /\ Raises(b).error
  BY DEF Transition, NoEvent, Raises

\* What the three kinds of a venue's event do to a book.
LEMMA SnapshotMoved ==
    ASSUME NEW b, IsBook(b), NEW e, NEW at, IsBookDelivery(e, at), e.kind = "SNAPSHOT",
           NEW r, r = ApplySnapshot(b, e, at), ~r.error
    PROVE  BookMoved(b, e, at, r)
  <1>0. b # None
    BY Present
  <1>1. r # Raises(b)
    BY DEF Raises
  <1>2. CASE r = NoEvent(GappedCopy(b))
    <2>1. r.book = GappedCopy(b) /\ r.kind = "none"
      BY <1>2, ResultFields
    <2>2. r.kind \notin Large
      BY <2>1 DEF Large
    <2> QED BY <1>0, <2>1, <2>2, GapRests DEF BookMoved
  <1>3. CASE /\ ~(e.epoch <= b.epoch) /\ ~(at < b.observed)
             /\ r = Transition(FromSnapshot(e, at), "SNAPSHOT", ExecutableMove(b.bids, e.bids))
    <2>1. /\ r.book = FromSnapshot(e, at) /\ r.kind = "SNAPSHOT"
          /\ r.move = ExecutableMove(b.bids, e.bids)
      BY <1>3, ResultFields
    <2>2. r.book.bids = e.bids
      BY <2>1 DEF FromSnapshot
    <2>3. b.epoch < e.epoch /\ b.observed <= at
      BY <1>3 DEF IsBook, IsBookDelivery
    <2>4. IsBook(r.book)
      BY <2>1, SnapshotIsBook
    <2>5. Replaces(b, e, at, r.book, r.kind)
      BY <2>1, <2>3, <2>4 DEF Replaces
    <2> QED BY <2>1, <2>2, <2>5 DEF BookMoved
  <1> QED BY <1>1, <1>2, <1>3 DEF ApplySnapshot

LEMMA DeltaMoved ==
    ASSUME NEW b, IsBook(b), NEW e, NEW at, IsBookDelivery(e, at), e.kind = "DELTA",
           NEW r, r = ApplyDelta(b, e, at), ~r.error
    PROVE  BookMoved(b, e, at, r)
  <1>0. b # None
    BY Present
  <1>1. r # Raises(b)
    BY DEF Raises
  <1>2. CASE r = NoEvent(GappedCopy(b))
    <2>1. r.book = GappedCopy(b) /\ r.kind = "none"
      BY <1>2, ResultFields
    <2>2. r.kind \notin Large
      BY <2>1 DEF Large
    <2> QED BY <1>0, <2>1, <2>2, GapRests DEF BookMoved
  <1>3. PICK bids : bids = [b.bids EXCEPT ![e.side][e.price] = e.quantity]
    OBVIOUS
  <1>4. PICK x : x = [b EXCEPT !.sequence = e.sequence, !.observed = at, !.bids = bids]
    OBVIOUS
  <1>5. CASE /\ b.trusted /\ DeltaFollows(b, e, at)
             /\ r = Transition(x, "DELTA", ExecutableMove(b.bids, bids))
    <2>1. /\ r.book = x /\ r.kind = "DELTA" /\ r.move = ExecutableMove(b.bids, bids)
      BY <1>5, ResultFields
    <2>2. /\ x.epoch = b.epoch /\ x.sequence = e.sequence /\ x.observed = at /\ x.bids = bids
      BY <1>4 DEF IsBook
    <2>3. x = [epoch |-> x.epoch, sequence |-> x.sequence, status |-> x.status,
            close |-> x.close, observed |-> x.observed,
            lifecycle_observed |-> x.lifecycle_observed,
            lifecycle_source |-> x.lifecycle_source, bids |-> x.bids,
            trusted |-> x.trusted, sequence_gap |-> x.sequence_gap]
      BY <1>4 DEF IsBook
    <2>4. b.epoch \in Nat /\ e.sequence \in Nat /\ at \in Nat /\ b.observed \in Nat
      BY DEF IsBook, IsBookDelivery
    <2>5. IsBook(x)
      BY <2>2, <2>3, <2>4 DEF IsBook
    <2>6. e.epoch = b.epoch /\ at >= b.observed /\ e.sequence = b.sequence + 1
      BY <1>5 DEF DeltaFollows
    <2>7. b.observed <= at
      BY <2>4, <2>6
    <2>8. Extends(b, e, at, r.book, r.kind)
      BY <1>3, <1>5, <2>1, <2>2, <2>5, <2>6, <2>7 DEF Extends
    <2> QED BY <1>0, <2>1, <2>2, <2>8 DEF BookMoved
  <1>6. \/ r = Raises(b) \/ r = NoEvent(GappedCopy(b))
        \/ /\ b.trusted /\ DeltaFollows(b, e, at)
           /\ r = Transition(x, "DELTA", ExecutableMove(b.bids, bids))
    BY <1>3, <1>4 DEF ApplyDelta
  <1> QED BY <1>1, <1>2, <1>5, <1>6

LEMMA LifecycleMoved ==
    ASSUME NEW b, IsBook(b), NEW e, NEW at, IsBookDelivery(e, at), e.kind = "LIFECYCLE",
           NEW r, r = ApplyMarketLifecycle(b, e, at), ~r.error
    PROVE  BookMoved(b, e, at, r)
  <1>0. b # None
    BY Present
  <1>1. r # Raises(b)
    BY DEF Raises
  <1>2. CASE r = NoEvent(GappedCopy(b))
    <2>1. r.book = GappedCopy(b) /\ r.kind = "none"
      BY <1>2, ResultFields
    <2>2. r.kind \notin Large
      BY <2>1 DEF Large
    <2> QED BY <1>0, <2>1, <2>2, GapRests DEF BookMoved
  <1>3. CASE r = NoEvent(b)
    <2>1. r.book = b /\ r.kind = "none"
      BY <1>3, ResultFields
    <2>2. Rests(b, b, "none") /\ "none" \notin Large
      BY DEF Rests, Large
    <2> QED BY <1>0, <2>1, <2>2 DEF BookMoved
  <1>4. PICK x : x = [b EXCEPT !.status = e.status, !.close = e.close,
                               !.lifecycle_observed = at, !.lifecycle_source = e.source]
    OBVIOUS
  <1>5. CASE r = Transition(x, "LIFECYCLE", 0)
    <2>1. /\ r.book = x /\ r.kind = "LIFECYCLE"
      BY <1>5, ResultFields
    <2>2. /\ x.epoch = b.epoch /\ x.sequence = b.sequence /\ x.observed = b.observed
          /\ x.bids = b.bids /\ x.trusted = b.trusted
      BY <1>4 DEF IsBook
    <2>3. x = [epoch |-> x.epoch, sequence |-> x.sequence, status |-> x.status,
            close |-> x.close, observed |-> x.observed,
            lifecycle_observed |-> x.lifecycle_observed,
            lifecycle_source |-> x.lifecycle_source, bids |-> x.bids,
            trusted |-> x.trusted, sequence_gap |-> x.sequence_gap]
      BY <1>4 DEF IsBook
    <2>4. b.epoch \in Nat /\ b.sequence \in Nat /\ b.observed \in Nat
      BY DEF IsBook
    <2>5. IsBook(x)
      BY <2>2, <2>3, <2>4 DEF IsBook
    <2>6. r.kind \notin Large
      BY <2>1 DEF Large
    <2>7. Rests(b, r.book, r.kind)
      BY <2>1, <2>2, <2>5, <2>6 DEF Rests
    <2> QED BY <1>0, <2>6, <2>7 DEF BookMoved
  <1>6. \/ r = Raises(b) \/ r = NoEvent(GappedCopy(b)) \/ r = NoEvent(b)
        \/ r = Transition(x, "LIFECYCLE", 0)
    BY <1>4 DEF ApplyMarketLifecycle
  <1> QED BY <1>1, <1>2, <1>3, <1>5, <1>6

LEMMA BookMoves ==
    ASSUME NEW b, b = None \/ IsBook(b), NEW e, NEW at, IsBookDelivery(e, at),
           NEW r, r = BookResult(b, e, at), ~r.error
    PROVE  BookMoved(b, e, at, r)
  <1>1. CASE b = None /\ e.kind = "SNAPSHOT"
    <2>1. r = Transition(FromSnapshot(e, at), "SNAPSHOT", 0)
      BY <1>1 DEF BookResult, BookFromSnapshot
    <2>2. r.book = FromSnapshot(e, at) /\ r.kind = "SNAPSHOT"
      BY <2>1, ResultFields
    <2>3. IsBook(r.book)
      BY <1>1, <2>2, SnapshotIsBook
    <2> QED BY <1>1, <2>2, <2>3 DEF BookMoved, Replaces
  <1>2. CASE b = None /\ e.kind # "SNAPSHOT"
    <2>1. r = Raises(None)
      BY <1>2 DEF BookResult
    <2> QED BY <2>1, ResultFields
  <1>3. CASE IsBook(b)
    <2>1. b # None
      BY <1>3, Present
    <2>2. r = IF e.kind = "SNAPSHOT" THEN ApplySnapshot(b, e, at)
              ELSE IF e.kind = "DELTA" THEN ApplyDelta(b, e, at)
              ELSE ApplyMarketLifecycle(b, e, at)
      BY <2>1 DEF BookResult
    <2>3. e.kind \in {"SNAPSHOT", "DELTA", "LIFECYCLE"}
      BY DEF IsBookDelivery
    <2> QED BY <1>3, <2>2, <2>3, SnapshotMoved, DeltaMoved, LifecycleMoved
  <1> QED BY <1>1, <1>2, <1>3

-----------------------------------------------------------------------------
(* The constructors' demands, one market at a time. *)

\* The constructors' demands on one market, given the tracker k, the book b
\* and the market's other cursors.
PendingOk(k, b, p, c) ==
    p # None =>
        /\ p.first <= p.last
        /\ AtMost(p.first_id, p.last_id)
        /\ p.several <=> p.first_id # p.last_id
        /\ ~p.several => p.first = p.last
        /\ p.first_id[1] = p.book_floor
        /\ AtMost(p.last_id, BookId(b))
        /\ p.last <= b.observed
        /\ c = None
        /\ k = None <=> p.tennis_floor = NoFloor
        /\ k # None => p.tennis_floor <= k.epoch

WitnessesOk(k, c, u) ==
    /\ c # None => c = u /\ c.event.epoch = k.epoch
    /\ u # None => k # None /\ WitnessFits(u, k)

EmissionOk(k, b, m) ==
    m # None =>
        /\ AtMost(m.book, BookId(b))
        /\ k # None
        /\ AtMost(m.provider, ProviderId(k))
        /\ m.provider = ProviderId(k) => m.digest = k.digest

MarketOk(k, b, p, c, u, m) ==
    IF b = None THEN p = None /\ c = None /\ u = None /\ m = None
    ELSE PendingOk(k, b, p, c) /\ WitnessesOk(k, c, u) /\ EmissionOk(k, b, m)

\* A tracker that is not behind another, and the same for books.
TrackerAhead(k, x) ==
    /\ IsTennis(k) /\ IsTennis(x) /\ k.epoch <= x.epoch /\ k.received <= x.received
    /\ \/ /\ x.epoch = k.epoch /\ x.revision = k.revision
          /\ x.digest = k.digest /\ x.received = k.received
       \/ /\ AtMost(ProviderId(k), ProviderId(x)) /\ ProviderId(k) # ProviderId(x)

BookAhead(b, x) ==
    /\ IsBook(x)
    /\ b # None => /\ IsBook(b) /\ AtMost(BookId(b), BookId(x))
                   /\ b.observed <= x.observed

LEMMA Identities ==
    /\ \A k : IsTennis(k) => ProviderId(k) \in Ids
    /\ \A w : IsWitness(w) => ProviderId(w.event) \in Ids
    /\ \A b : IsBook(b) => BookId(b) \in Ids
    /\ \A p : IsPending(p) => p.first_id \in Ids /\ p.last_id \in Ids
    /\ \A m : IsEmission(m) => m.provider \in Ids /\ m.book \in Ids
  BY DEF IsTennis, IsWitness, IsBook, IsPending, IsEmission, ProviderId, BookId, Ids

\* What fits a tracker and a book fits the ones that are ahead of them.
LEMMA WitnessStaysFit ==
    ASSUME NEW k, NEW x, TrackerAhead(k, x), NEW w, IsWitness(w), WitnessFits(w, k)
    PROVE  WitnessFits(w, x)
  <1>1. /\ w.received \in Nat /\ k.received \in Nat /\ x.received \in Nat
        /\ k.received <= x.received /\ w.received <= k.received
    BY DEF TrackerAhead, IsTennis, IsWitness, WitnessFits
  <1>2. w.received <= x.received
    BY <1>1
  <1>3. CASE /\ x.epoch = k.epoch /\ x.revision = k.revision
             /\ x.digest = k.digest /\ x.received = k.received
    <2>1. ProviderId(x) = ProviderId(k)
      BY <1>3 DEF ProviderId
    <2> QED BY <1>2, <1>3, <2>1 DEF WitnessFits
  <1>4. CASE AtMost(ProviderId(k), ProviderId(x)) /\ ProviderId(k) # ProviderId(x)
    <2>1. ProviderId(k) \in Ids /\ ProviderId(x) \in Ids /\ ProviderId(w.event) \in Ids
      BY Identities DEF TrackerAhead
    <2>2. AtMost(ProviderId(w.event), ProviderId(k))
      BY DEF WitnessFits
    <2>3. AtMost(ProviderId(w.event), ProviderId(x))
      BY <1>4, <2>1, <2>2, Ordered
    <2>4. ProviderId(w.event) # ProviderId(x)
      BY <1>4, <2>1, <2>2, Ordered
    <2> QED BY <1>2, <2>3, <2>4 DEF WitnessFits
  <1> QED BY <1>3, <1>4 DEF TrackerAhead

LEMMA EmissionStaysOk ==
    ASSUME NEW k, NEW x, TrackerAhead(k, x), NEW b, NEW y, BookAhead(b, y), b # None,
           NEW m, m = None \/ IsEmission(m), EmissionOk(k, b, m)
    PROVE  EmissionOk(x, y, m)
  <1> SUFFICES ASSUME IsEmission(m), m # None
               PROVE  EmissionOk(x, y, m)
    BY DEF EmissionOk
  <1>1. /\ ProviderId(k) \in Ids /\ ProviderId(x) \in Ids /\ m.provider \in Ids
        /\ BookId(b) \in Ids /\ BookId(y) \in Ids /\ m.book \in Ids
    BY Identities DEF TrackerAhead, BookAhead
  <1>2. AtMost(m.provider, ProviderId(k)) /\ AtMost(m.book, BookId(b))
        /\ (m.provider = ProviderId(k) => m.digest = k.digest)
    BY DEF EmissionOk
  <1>3. AtMost(m.book, BookId(y))
    BY <1>1, <1>2, Ordered DEF BookAhead
  <1>4. x # None
    BY Present DEF TrackerAhead
  <1>5. CASE x.epoch = k.epoch /\ x.revision = k.revision /\ x.digest = k.digest
    <2>1. ProviderId(x) = ProviderId(k)
      BY <1>5 DEF ProviderId
    <2> QED BY <1>2, <1>3, <1>4, <1>5, <2>1 DEF EmissionOk
  <1>6. CASE AtMost(ProviderId(k), ProviderId(x)) /\ ProviderId(k) # ProviderId(x)
    <2>1. AtMost(m.provider, ProviderId(x)) /\ m.provider # ProviderId(x)
      BY <1>1, <1>2, <1>6, Ordered
    <2> QED BY <1>3, <1>4, <2>1 DEF EmissionOk
  <1> QED BY <1>5, <1>6 DEF TrackerAhead

LEMMA PendingStaysOk ==
    ASSUME NEW k, NEW x, (k = None /\ x = None) \/ TrackerAhead(k, x),
           NEW b, NEW y, BookAhead(b, y), b # None,
           NEW p, p = None \/ IsPending(p), NEW c, PendingOk(k, b, p, c)
    PROVE  PendingOk(x, y, p, c)
  <1> SUFFICES ASSUME IsPending(p), p # None
               PROVE  PendingOk(x, y, p, c)
    BY DEF PendingOk
  <1>1. BookId(b) \in Ids /\ BookId(y) \in Ids /\ p.last_id \in Ids
    BY Identities DEF BookAhead
  <1>2. AtMost(p.last_id, BookId(b)) /\ AtMost(BookId(b), BookId(y))
    BY DEF PendingOk, BookAhead
  <1>3. AtMost(p.last_id, BookId(y))
    BY <1>1, <1>2, Ordered
  <1>4. /\ p.last \in Nat /\ b.observed \in Nat /\ y.observed \in Nat
        /\ p.last <= b.observed /\ b.observed <= y.observed
    BY DEF PendingOk, BookAhead, IsBook, IsPending
  <1>5. p.last <= y.observed
    BY <1>4
  <1>6. k = None <=> x = None
    BY Present DEF TrackerAhead
  <1>7. ASSUME x # None
        PROVE  p.tennis_floor <= x.epoch
    <2>1. TrackerAhead(k, x) /\ k # None
      BY <1>6, <1>7
    <2>2. /\ p.tennis_floor \in Int /\ k.epoch \in Nat /\ x.epoch \in Nat
          /\ p.tennis_floor <= k.epoch /\ k.epoch <= x.epoch
      BY <2>1 DEF PendingOk, TrackerAhead, IsTennis, IsPending, NoFloor
    <2> QED BY <2>2
  <1> QED BY <1>3, <1>5, <1>6, <1>7 DEF PendingOk

LEMMA SameTracker ==
    ASSUME NEW k, IsTennis(k)
    PROVE  TrackerAhead(k, k)
  BY DEF TrackerAhead, IsTennis

LEMMA SameBook ==
    ASSUME NEW b, IsBook(b)
    PROVE  BookAhead(b, b)
  <1>1. BookId(b) \in Ids
    BY Identities
  <1>2. AtMost(BookId(b), BookId(b))
    BY <1>1, Ordered
  <1> QED BY <1>2 DEF BookAhead, IsBook

Typed(k, b, p, c, u, m) ==
    /\ k = None \/ IsTennis(k)
    /\ b = None \/ IsBook(b)
    /\ p = None \/ IsPending(p)
    /\ c = None \/ IsWitness(c)
    /\ u = None \/ IsWitness(u)
    /\ m = None \/ IsEmission(m)

\* The tracker moves on.
LEMMA TrackerKeepsMarket ==
    ASSUME NEW k, NEW x, TrackerAhead(k, x), NEW b, NEW p, NEW c, NEW u, NEW m,
           Typed(k, b, p, c, u, m), MarketOk(k, b, p, c, u, m)
    PROVE  /\ x.epoch = k.epoch => MarketOk(x, b, p, c, u, m)
           /\ MarketOk(x, b, p, None, u, m)
  <1>1. CASE b = None
    BY <1>1 DEF MarketOk
  <1>2. CASE b # None
    <2>1. BookAhead(b, b) /\ x # None
      BY <1>2, SameBook, Present DEF Typed, TrackerAhead
    <2>2. PendingOk(x, b, p, c)
      BY <1>2, <2>1, PendingStaysOk DEF Typed, MarketOk
    <2>3. PendingOk(x, b, p, None)
      BY <2>2 DEF PendingOk
    <2>4. EmissionOk(x, b, m)
      BY <1>2, <2>1, EmissionStaysOk DEF Typed, MarketOk
    <2>5. ASSUME u # None
          PROVE  WitnessFits(u, x)
      <3>1. IsWitness(u) /\ WitnessFits(u, k)
        BY <1>2, <2>5 DEF Typed, MarketOk, WitnessesOk
      <3> QED BY <3>1, WitnessStaysFit
    <2>6. WitnessesOk(x, None, u)
      BY <2>1, <2>5 DEF WitnessesOk
    <2>7. x.epoch = k.epoch => WitnessesOk(x, c, u)
      BY <1>2, <2>1, <2>5 DEF WitnessesOk, MarketOk
    <2> QED BY <1>2, <2>2, <2>3, <2>4, <2>6, <2>7 DEF MarketOk
  <1> QED BY <1>1, <1>2

\* The origin of the tracker gives what is pending its floor.
LEMMA OriginKeepsMarket ==
    ASSUME NEW x, IsTennis(x), NEW b, NEW p, NEW c, NEW u, NEW m,
           Typed(None, b, p, c, u, m), MarketOk(None, b, p, c, u, m), NEW q,
           q = IF p # None /\ p.tennis_floor = NoFloor
               THEN [p EXCEPT !.tennis_floor = x.epoch] ELSE p
    PROVE  /\ MarketOk(x, b, q, c, u, m) /\ Typed(x, b, q, c, u, m)
           /\ c = None /\ u = None /\ m = None
  <1>1. c = None /\ u = None /\ m = None /\ x # None
    BY Present DEF MarketOk, WitnessesOk, EmissionOk
  <1>2. EmissionOk(x, b, m) /\ WitnessesOk(x, c, u)
    BY <1>1 DEF EmissionOk, WitnessesOk
  <1>3. CASE p = None
    <2>1. q = None
      BY <1>3
    <2> QED BY <1>1, <1>2, <2>1 DEF MarketOk, Typed, PendingOk
  <1>4. CASE p # None
    <2>1. IsPending(p) /\ b # None /\ PendingOk(None, b, p, c) /\ p.tennis_floor = NoFloor
      BY <1>4 DEF Typed, MarketOk, PendingOk
    <2>2. q = [p EXCEPT !.tennis_floor = x.epoch]
      BY <1>4, <2>1
    <2>3. /\ q.first = p.first /\ q.last = p.last /\ q.first_id = p.first_id
          /\ q.last_id = p.last_id /\ q.several = p.several
          /\ q.book_floor = p.book_floor /\ q.tennis_floor = x.epoch
          /\ q = [first |-> q.first, last |-> q.last, first_id |-> q.first_id,
                  last_id |-> q.last_id, several |-> q.several,
                  tennis_floor |-> q.tennis_floor, book_floor |-> q.book_floor]
      BY <2>1, <2>2 DEF IsPending
    <2>4. x.epoch \in Nat /\ x.epoch # NoFloor /\ x.epoch <= x.epoch
      BY DEF IsTennis, NoFloor
    <2>5. IsPending(q)
      BY <2>1, <2>3, <2>4 DEF IsPending
    <2>6. q # None
      BY <2>5, Present
    <2>7. PendingOk(x, b, q, c)
      BY <1>1, <1>4, <2>1, <2>3, <2>4 DEF PendingOk
    <2> QED BY <1>1, <1>2, <2>1, <2>5, <2>7 DEF MarketOk, Typed
  <1> QED BY <1>3, <1>4

\* A point explains what is pending.
LEMMA ExplainingKeepsMarket ==
    ASSUME NEW k, k # None, NEW b, NEW p, p # None, NEW c, NEW u, NEW m,
           MarketOk(k, b, p, c, u, m),
           NEW w, w.event.epoch = k.epoch, WitnessFits(w, k)
    PROVE  MarketOk(k, b, None, w, w, m)
  <1>1. b # None /\ EmissionOk(k, b, m)
    BY DEF MarketOk
  <1>2. PendingOk(k, b, None, w) /\ WitnessesOk(k, w, w)
    BY DEF PendingOk, WitnessesOk
  <1> QED BY <1>1, <1>2 DEF MarketOk

\* The book moves on, and what was pending with it or not.
LEMMA BookKeepsMarket ==
    ASSUME NEW k, NEW b, NEW y, BookAhead(b, y), NEW p, NEW c, NEW u, NEW m,
           Typed(k, b, p, c, u, m), MarketOk(k, b, p, c, u, m),
           NEW q, q = None \/ q = p
    PROVE  MarketOk(k, y, q, c, u, m)
  <1>1. y # None
    BY Present DEF BookAhead
  <1>2. CASE b = None
    BY <1>1, <1>2 DEF MarketOk, PendingOk, WitnessesOk, EmissionOk
  <1>3. CASE b # None
    <2>1. (k = None /\ k = None) \/ TrackerAhead(k, k)
      BY SameTracker DEF Typed
    <2>2. PendingOk(k, y, p, c)
      BY <1>3, <2>1, PendingStaysOk DEF MarketOk, Typed
    <2>3. PendingOk(k, y, q, c)
      BY <2>2 DEF PendingOk
    <2>4. EmissionOk(k, y, m)
      <3>1. CASE m = None
        BY <3>1 DEF EmissionOk
      <3>2. CASE m # None
        <4>1. TrackerAhead(k, k)
          BY <1>3, <2>1, <3>2 DEF MarketOk, EmissionOk
        <4> QED BY <1>3, <4>1, EmissionStaysOk DEF MarketOk, Typed
      <3> QED BY <3>1, <3>2
    <2> QED BY <1>1, <1>3, <2>3, <2>4 DEF MarketOk
  <1> QED BY <1>2, <1>3

LEMMA NewPending ==
    ASSUME NEW at, NEW id, NEW floor, NEW epoch, NEW q,
           q = [first |-> at, last |-> at, first_id |-> id, last_id |-> id,
                several |-> FALSE, tennis_floor |-> floor, book_floor |-> epoch]
    PROVE  /\ q.first = at /\ q.last = at /\ q.first_id = id /\ q.last_id = id
           /\ q.several = FALSE /\ q.tennis_floor = floor /\ q.book_floor = epoch
           /\ q = [first |-> q.first, last |-> q.last, first_id |-> q.first_id,
                   last_id |-> q.last_id, several |-> q.several,
                   tennis_floor |-> q.tennis_floor, book_floor |-> q.book_floor]
  OBVIOUS

Recorded(k, y, p) ==
    IF p = None
    THEN [first |-> y.observed, last |-> y.observed,
          first_id |-> BookId(y), last_id |-> BookId(y), several |-> FALSE,
          tennis_floor |-> IF k = None THEN NoFloor ELSE k.epoch,
          book_floor |-> y.epoch]
    ELSE [p EXCEPT !.last = y.observed, !.last_id = BookId(y), !.several = TRUE]

\* A large move is recorded, in a book y that it moved ahead of b.
LEMMA RecordKeepsMarket ==
    ASSUME NEW k, NEW b, NEW y, BookAhead(b, y), b # None, BookId(b) # BookId(y),
           NEW p, NEW c, NEW u, NEW m,
           Typed(k, b, p, c, u, m), MarketOk(k, b, p, c, u, m),
           NEW q,
           q = Recorded(k, y, p)
    PROVE  MarketOk(k, y, q, None, u, m) /\ IsPending(q)
  <1>1. y # None /\ MarketOk(k, y, None, c, u, m)
    BY BookKeepsMarket, Present DEF BookAhead
  <1>2. EmissionOk(k, y, m) /\ WitnessesOk(k, None, u)
    BY <1>1 DEF MarketOk, WitnessesOk
  <1>3. BookId(b) \in Ids /\ BookId(y) \in Ids /\ y.observed \in Nat /\ y.epoch \in Nat
        /\ BookId(y)[1] = y.epoch
    BY Identities DEF BookAhead, IsBook, BookId
  <1>4. AtMost(BookId(y), BookId(y))
    BY <1>3, Ordered
  <1>5. CASE p = None
    <2>0. PICK floor : floor = IF k = None THEN NoFloor ELSE k.epoch
      OBVIOUS
    <2>1. /\ floor \in Nat \cup {NoFloor} /\ (k = None <=> floor = NoFloor)
          /\ k # None => floor <= k.epoch
      BY <2>0 DEF Typed, IsTennis, NoFloor
    <2>2. q = [first |-> y.observed, last |-> y.observed,
               first_id |-> BookId(y), last_id |-> BookId(y),
               several |-> FALSE, tennis_floor |-> floor, book_floor |-> y.epoch]
      BY <1>5, <2>0 DEF Recorded
    <2>3. /\ q.first = y.observed /\ q.last = y.observed /\ q.first_id = BookId(y)
          /\ q.last_id = BookId(y) /\ q.several = FALSE
          /\ q.book_floor = y.epoch /\ q.tennis_floor = floor
          /\ q = [first |-> q.first, last |-> q.last, first_id |-> q.first_id,
                  last_id |-> q.last_id, several |-> q.several,
                  tennis_floor |-> q.tennis_floor, book_floor |-> q.book_floor]
      BY <2>2, NewPending
    <2>4. IsPending(q)
      BY <1>3, <2>1, <2>3 DEF IsPending
    <2>5. y.observed <= y.observed
      BY <1>3
    <2>6. PendingOk(k, y, q, None)
      BY <1>3, <1>4, <2>1, <2>3, <2>5 DEF PendingOk
    <2> QED BY <1>1, <1>2, <2>4, <2>6 DEF MarketOk
  <1>6. CASE p # None
    <2>1. IsPending(p) /\ PendingOk(k, b, p, c)
      BY <1>6 DEF Typed, MarketOk
    <2>2. /\ q.first = p.first /\ q.last = y.observed /\ q.first_id = p.first_id
          /\ q.last_id = BookId(y) /\ q.several = TRUE
          /\ q.book_floor = p.book_floor /\ q.tennis_floor = p.tennis_floor
          /\ q = [first |-> q.first, last |-> q.last, first_id |-> q.first_id,
                  last_id |-> q.last_id, several |-> q.several,
                  tennis_floor |-> q.tennis_floor, book_floor |-> q.book_floor]
      BY <1>6, <2>1 DEF IsPending, Recorded
    <2>3. /\ p.first \in Nat /\ p.last \in Nat /\ p.first_id \in Ids /\ p.last_id \in Ids
          /\ p.book_floor \in Nat /\ p.tennis_floor \in Nat \cup {NoFloor}
      BY <2>1 DEF IsPending
    <2>4. IsPending(q)
      BY <1>3, <2>2, <2>3 DEF IsPending
    <2>5. /\ p.first <= p.last /\ AtMost(p.first_id, p.last_id)
          /\ AtMost(p.last_id, BookId(b)) /\ p.last <= b.observed
          /\ AtMost(BookId(b), BookId(y)) /\ b.observed <= y.observed
          /\ b.observed \in Nat
      BY <1>6, <2>1 DEF PendingOk, BookAhead, IsBook
    <2>6. q.first <= q.last /\ q.last <= y.observed
      BY <1>3, <2>2, <2>3, <2>5
    <2>7. AtMost(p.first_id, BookId(b))
      BY <1>3, <2>3, <2>5, Ordered
    <2>8. AtMost(p.first_id, BookId(y)) /\ p.first_id # BookId(y)
      BY <1>3, <2>3, <2>5, <2>7, Ordered
    <2>9. /\ p.first_id[1] = p.book_floor
          /\ k = None <=> p.tennis_floor = NoFloor
      BY <1>6, <2>1 DEF PendingOk
    <2>10. k # None => p.tennis_floor <= k.epoch
      BY <1>6, <2>1 DEF PendingOk
    <2>11. PendingOk(k, y, q, None)
      BY <1>4, <2>2, <2>6, <2>8, <2>9, <2>10 DEF PendingOk
    <2> QED BY <1>1, <1>2, <2>4, <2>11 DEF MarketOk
  <1> QED BY <1>5, <1>6

\* A snapshot is emitted.
LEMMA EmittingKeepsMarket ==
    ASSUME NEW k, k # None, NEW b, b # None, NEW p, NEW c, NEW u, NEW m,
           Typed(k, b, p, c, u, m), MarketOk(k, b, p, c, u, m),
           NEW n, n = [provider |-> ProviderId(k), digest |-> k.digest, book |-> BookId(b)]
    PROVE  MarketOk(k, b, p, c, u, n) /\ IsEmission(n)
  <1>1. BookId(b) \in Ids /\ ProviderId(k) \in Ids
    BY Identities DEF Typed
  <1>2. AtMost(BookId(b), BookId(b)) /\ AtMost(ProviderId(k), ProviderId(k))
    BY <1>1, Ordered
  <1>3. n.provider = ProviderId(k) /\ n.book = BookId(b) /\ n.digest = k.digest
        /\ n = [provider |-> n.provider, digest |-> n.digest, book |-> n.book]
    OBVIOUS
  <1>4. IsEmission(n)
    BY <1>1, <1>3 DEF IsEmission
  <1>5. EmissionOk(k, b, n)
    BY <1>2, <1>3 DEF EmissionOk
  <1> QED BY <1>4, <1>5 DEF MarketOk

-----------------------------------------------------------------------------
(* The session as a whole; explaining. *)

\* A session of these cursors.
Record(x) ==
    x = [tennis |-> x.tennis, witness |-> x.witness, book |-> x.book,
         pending |-> x.pending, causal |-> x.causal, consumed |-> x.consumed,
         emission |-> x.emission, decisions |-> x.decisions]

MarketTyped(s, t) ==
    Typed(s.tennis, s.book[t], s.pending[t], s.causal[t], s.consumed[t], s.emission[t])

MarketFits(s, t) ==
    MarketOk(s.tennis, s.book[t], s.pending[t], s.causal[t], s.consumed[t], s.emission[t])

\* The session's latest point is not behind any that a market consumed.
PointsOrdered(s, t) ==
    s.witness # None /\ s.consumed[t] # None
        => AtMost(ProviderId(s.consumed[t].event), ProviderId(s.witness.event))

Maps(s) ==
    /\ s.book = [t \in Markets |-> s.book[t]]
    /\ s.pending = [t \in Markets |-> s.pending[t]]
    /\ s.causal = [t \in Markets |-> s.causal[t]]
    /\ s.consumed = [t \in Markets |-> s.consumed[t]]
    /\ s.emission = [t \in Markets |-> s.emission[t]]

WitnessHolds(s) == s.witness = None \/ IsWitness(s.witness)

SessionOk(s) ==
    /\ Record(s) /\ Maps(s) /\ s.decisions \in Nat
    /\ s.tennis = None \/ IsTennis(s.tennis)
    /\ WitnessHolds(s) /\ TennisCursorFits(s)
    /\ \A t \in Markets : MarketTyped(s, t) /\ MarketFits(s, t) /\ PointsOrdered(s, t)

Tallied(s) == s.decisions > 0 <=> \E t \in Markets : s.emission[t] # None

LEMMA OkFits ==
    ASSUME NEW s, SessionOk(s), Tallied(s)
    PROVE  SessionFits(s)
  <1>1. ASSUME NEW t \in Markets, s.book[t] = None
        PROVE  {s.pending[t], s.causal[t], s.consumed[t], s.emission[t]} = {None}
    BY <1>1 DEF SessionOk, MarketFits, MarketOk
  <1>2. ASSUME NEW t \in Markets, s.book[t] # None
        PROVE  PendingFits(s, t)
    <2>1. PendingOk(s.tennis, s.book[t], s.pending[t], s.causal[t])
      BY <1>2 DEF SessionOk, MarketFits, MarketOk
    <2> QED BY <2>1 DEF PendingOk, PendingFits
  <1>3. ASSUME NEW t \in Markets, s.book[t] # None
        PROVE  WitnessesFit(s, t)
    <2>1. WitnessesOk(s.tennis, s.causal[t], s.consumed[t])
      BY <1>3 DEF SessionOk, MarketFits, MarketOk
    <2> QED BY <2>1 DEF WitnessesOk, WitnessesFit
  <1>4. ASSUME NEW t \in Markets, s.book[t] # None
        PROVE  EmissionFits(s, t)
    <2>1. EmissionOk(s.tennis, s.book[t], s.emission[t])
      BY <1>4 DEF SessionOk, MarketFits, MarketOk
    <2> QED BY <2>1 DEF EmissionOk, EmissionFits
  <1>5. TennisCursorFits(s)
    BY DEF SessionOk
  <1> QED BY <1>1, <1>2, <1>3, <1>4, <1>5 DEF SessionFits, Tallied

\* What explaining leaves of the session s: x, in which the markets E are
\* explained by w.
Explaining(s, w, E, x) ==
    /\ Record(x) /\ Maps(x)
    /\ x.tennis = s.tennis /\ x.witness = s.witness /\ x.book = s.book
    /\ x.emission = s.emission /\ x.decisions = s.decisions
    /\ \A t \in Markets \ E :
           /\ x.pending[t] = s.pending[t] /\ x.causal[t] = s.causal[t]
           /\ x.consumed[t] = s.consumed[t]
    /\ \A t \in Markets \cap E :
           /\ x.pending[t] = None /\ x.causal[t] = w /\ x.consumed[t] = w
           /\ s.pending[t] # None /\ w # None /\ s.tennis # None
           /\ Explains(w, s.pending[t], s.consumed[t], s.tennis)

LEMMA ExplainingIs ==
    ASSUME NEW s, Record(s), Maps(s), NEW markets, NEW w,
           NEW x, x = ExplainPending(s, markets, w)
    PROVE  \E E \in SUBSET markets : Explaining(s, w, E, x)
  <1>1. PICK E \in SUBSET markets :
            E = {t \in markets :
                    /\ s.pending[t] # None /\ w # None /\ s.tennis # None
                    /\ Explains(w, s.pending[t], s.consumed[t], s.tennis)}
    OBVIOUS
  <1>2. PICK p, c, u :
            /\ p = [t \in Markets |-> IF t \in E THEN None ELSE s.pending[t]]
            /\ c = [t \in Markets |-> IF t \in E THEN w ELSE s.causal[t]]
            /\ u = [t \in Markets |-> IF t \in E THEN w ELSE s.consumed[t]]
    OBVIOUS
  <1>3. x = [s EXCEPT !.pending = p, !.causal = c, !.consumed = u]
    BY <1>1, <1>2 DEF ExplainPending, Record
  <1>4. /\ x.pending = p /\ x.causal = c /\ x.consumed = u
        /\ x.tennis = s.tennis /\ x.witness = s.witness /\ x.book = s.book
        /\ x.emission = s.emission /\ x.decisions = s.decisions
    BY <1>3 DEF Record
  <1>5. Record(x)
    BY <1>3 DEF Record
  <1>6. Maps(x)
    BY <1>2, <1>4 DEF Maps
  <1>7. \A t \in Markets \ E : p[t] = s.pending[t] /\ c[t] = s.causal[t] /\ u[t] = s.consumed[t]
    BY <1>2
  <1>8. \A t \in Markets \cap E :
            /\ p[t] = None /\ c[t] = w /\ u[t] = w
            /\ s.pending[t] # None /\ w # None /\ s.tennis # None
            /\ Explains(w, s.pending[t], s.consumed[t], s.tennis)
    BY <1>1, <1>2
  <1> QED BY <1>4, <1>5, <1>6, <1>7, <1>8 DEF Explaining

\* Explaining what is pending keeps the session sound.
LEMMA ExplainingKeepsSession ==
    ASSUME NEW s, SessionOk(s), NEW w, w = s.witness, NEW E, NEW x, Explaining(s, w, E, x)
    PROVE  SessionOk(x)
  <1>1. ASSUME NEW t \in Markets \ E
        PROVE  MarketTyped(x, t) /\ MarketFits(x, t) /\ PointsOrdered(x, t)
    <2>1. /\ x.tennis = s.tennis /\ x.witness = s.witness /\ x.book[t] = s.book[t]
          /\ x.pending[t] = s.pending[t] /\ x.causal[t] = s.causal[t]
          /\ x.consumed[t] = s.consumed[t] /\ x.emission[t] = s.emission[t]
      BY DEF Explaining
    <2>2. MarketTyped(s, t) /\ MarketFits(s, t) /\ PointsOrdered(s, t)
      BY DEF SessionOk
    <2> QED BY <2>1, <2>2 DEF MarketTyped, MarketFits, PointsOrdered
  <1>2. ASSUME NEW t \in Markets \cap E
        PROVE  MarketTyped(x, t) /\ MarketFits(x, t) /\ PointsOrdered(x, t)
    <2>1. /\ x.tennis = s.tennis /\ x.witness = w /\ x.book[t] = s.book[t]
          /\ x.pending[t] = None /\ x.causal[t] = w
          /\ x.consumed[t] = w /\ x.emission[t] = s.emission[t]
          /\ s.pending[t] # None /\ w # None /\ s.tennis # None
      BY DEF Explaining
    <2>2. MarketTyped(s, t) /\ MarketFits(s, t)
      BY DEF SessionOk
    <2>3. IsWitness(w) /\ w.event.epoch = s.tennis.epoch /\ WitnessFits(w, s.tennis)
      BY <2>1 DEF SessionOk, WitnessHolds, TennisCursorFits
    <2>4. MarketOk(s.tennis, s.book[t], None, w, w, s.emission[t])
      BY <2>1, <2>2, <2>3, ExplainingKeepsMarket DEF MarketFits
    <2>5. AtMost(ProviderId(w.event), ProviderId(w.event))
      BY <2>3, Identities, Ordered
    <2> QED BY <2>1, <2>2, <2>3, <2>4, <2>5 DEF MarketTyped, Typed, MarketFits, PointsOrdered
  <1>3. /\ Record(x) /\ Maps(x) /\ x.decisions \in Nat
        /\ x.tennis = None \/ IsTennis(x.tennis)
        /\ WitnessHolds(x) /\ TennisCursorFits(x)
    BY DEF Explaining, SessionOk, WitnessHolds, TennisCursorFits
  <1> QED BY <1>1, <1>2, <1>3 DEF SessionOk

-----------------------------------------------------------------------------
(* Evaluating. *)

Moved(b, y) ==
    LET move == ExecutableMove(b.bids, y.bids) IN move > 0 /\ move >= MoveThreshold

\* Of a market that is explained in x: by a later point than before, or as
\* it was and the book did not move much.
Later(old, new) ==
    AtMost(ProviderId(old.event), ProviderId(new.event)) /\ old # new

Once(s, x, t) ==
    x.causal[t] # None /\ s.consumed[t] # None =>
        \/ Later(s.consumed[t], x.causal[t])
        \/ x.causal[t] = s.causal[t] /\ ~Moved(s.book[t], x.book[t])

Ingested(s, x) ==
    /\ SessionOk(x) /\ x.emission = s.emission /\ x.decisions = s.decisions
    /\ \A t \in Markets : Once(s, x, t)

LEMMA ExplainedLater ==
    ASSUME NEW s, SessionOk(s), NEW E, NEW x, Explaining(s, s.witness, E, x),
           NEW t \in Markets \cap E, s.consumed[t] # None
    PROVE  Later(s.consumed[t], x.causal[t])
  <1>1. /\ x.causal[t] = s.witness /\ s.witness # None
        /\ s.consumed[t].event # s.witness.event
    BY DEF Explaining, Explains
  <1>2. PointsOrdered(s, t)
    BY DEF SessionOk
  <1> QED BY <1>1, <1>2 DEF PointsOrdered, Later

LEMMA CountsMarkets ==
    ASSUME NEW E \in SUBSET Markets
    PROVE  Cardinality(E) \in Nat /\ (Cardinality(E) = 0 <=> E = {})
  <1>1. IsFiniteSet(E)
    BY MarketsAssumption, FS_Subset
  <1> QED BY <1>1, FS_CardinalityType, FS_EmptySet

\* The decisions of an evaluation.
Emitted(s, x) ==
    LET emitted == {t \in Markets : x.emission[t] # s.emission[t]}
    IN /\ \A t \in emitted : Advances(s.emission[t], x.emission[t])
       /\ x.decisions = s.decisions + Cardinality(emitted)

LEMMA EmissionAdvances ==
    ASSUME NEW s, SessionOk(s), NEW t \in Markets, s.book[t] # None,
           s.emission[t] # Emission(s, t)
    PROVE  Advances(s.emission[t], Emission(s, t))
  <1> SUFFICES ASSUME s.emission[t] # None
               PROVE  Advances(s.emission[t], Emission(s, t))
    BY DEF Advances
  <1>1. PICK m : m = s.emission[t]
    OBVIOUS
  <1>2. IsEmission(m) /\ EmissionOk(s.tennis, s.book[t], m) /\ m # None
    BY <1>1 DEF SessionOk, MarketTyped, Typed, MarketFits, MarketOk
  <1>3. PICK n : n = Emission(s, t)
    OBVIOUS
  <1>4. /\ n.provider = ProviderId(s.tennis) /\ n.book = BookId(s.book[t])
        /\ n.digest = s.tennis.digest
        /\ n = [provider |-> n.provider, digest |-> n.digest, book |-> n.book]
    BY <1>3 DEF Emission
  <1>5. /\ AtMost(m.provider, n.provider) /\ AtMost(m.book, n.book)
        /\ m.provider = n.provider => m.digest = n.digest
    BY <1>2, <1>4 DEF EmissionOk
  <1>6. ASSUME m.provider = n.provider, m.book = n.book
        PROVE  m = n
    BY <1>2, <1>4, <1>5, <1>6 DEF IsEmission
  <1>7. << m.provider, m.book >> # << n.provider, n.book >>
    BY <1>1, <1>3, <1>6
  <1> QED BY <1>1, <1>3, <1>5, <1>7 DEF Advances

\* Evaluating markets keeps the session sound, and emits as it should.
LEMMA Evaluates ==
    ASSUME NEW s, SessionOk(s), Tallied(s), NEW markets \in SUBSET Markets, NEW now,
           NEW x, x = Evaluate(s, markets, now)
    PROVE  /\ SessionOk(x) /\ Tallied(x) /\ Emitted(s, x)
           /\ x.tennis = s.tennis /\ x.book = s.book
           /\ x.causal = s.causal /\ x.consumed = s.consumed
  <1>1. PICK E \in SUBSET Markets : E = {t \in markets : Emits(s, t, now)}
    OBVIOUS
  <1>2. PICK m : m = [t \in Markets |-> IF t \in E THEN Emission(s, t) ELSE s.emission[t]]
    OBVIOUS
  <1>3. PICK n : n = s.decisions + Cardinality(E)
    OBVIOUS
  <1>4. x = [s EXCEPT !.decisions = n, !.emission = m]
    BY <1>1, <1>2, <1>3 DEF Evaluate, SessionOk, Record
  <1>5. /\ x.tennis = s.tennis /\ x.witness = s.witness /\ x.book = s.book
        /\ x.pending = s.pending /\ x.causal = s.causal /\ x.consumed = s.consumed
        /\ x.emission = m /\ x.decisions = n /\ Record(x)
    BY <1>4 DEF SessionOk, Record
  <1>6. \A t \in E : /\ t \in Markets /\ s.tennis # None /\ s.book[t] # None
                     /\ s.emission[t] # Emission(s, t)
    BY <1>1 DEF Emits, NothingBlocks
  <1>7. /\ \A t \in E : m[t] = Emission(s, t)
        /\ \A t \in Markets \ E : m[t] = s.emission[t]
    BY <1>2
  <1>8. \A t \in E : /\ MarketOk(s.tennis, s.book[t], s.pending[t], s.causal[t],
                                 s.consumed[t], m[t])
                     /\ IsEmission(m[t])
    <2> TAKE t \in E
    <2>1. MarketTyped(s, t) /\ MarketFits(s, t)
      BY <1>6 DEF SessionOk
    <2>2. PICK e : e = m[t]
      OBVIOUS
    <2>3. e = [provider |-> ProviderId(s.tennis), digest |-> s.tennis.digest,
               book |-> BookId(s.book[t])]
      BY <1>7, <2>2 DEF Emission
    <2>4. /\ MarketOk(s.tennis, s.book[t], s.pending[t], s.causal[t], s.consumed[t], e)
          /\ IsEmission(e)
      BY <1>6, <2>1, <2>3, EmittingKeepsMarket DEF MarketTyped, MarketFits
    <2> QED BY <2>2, <2>4
  <1>9. ASSUME NEW t \in Markets
        PROVE  MarketTyped(x, t) /\ MarketFits(x, t) /\ PointsOrdered(x, t)
    <2>1. MarketTyped(s, t) /\ MarketFits(s, t) /\ PointsOrdered(s, t)
      BY DEF SessionOk
    <2>2. CASE t \in E
      BY <1>5, <1>8, <2>1, <2>2 DEF MarketTyped, Typed, MarketFits, PointsOrdered
    <2>3. CASE t \notin E
      BY <1>5, <1>7, <2>1, <2>3 DEF MarketTyped, Typed, MarketFits, PointsOrdered
    <2> QED BY <2>2, <2>3
  <1>10. s.decisions \in Nat /\ Cardinality(E) \in Nat /\ (Cardinality(E) = 0 <=> E = {})
    BY CountsMarkets DEF SessionOk
  <1>11. n \in Nat
    BY <1>3, <1>10
  <1>12. SessionOk(x)
    <2>1. Maps(x)
      BY <1>2, <1>5 DEF SessionOk, Maps
    <2>2. WitnessHolds(x) /\ TennisCursorFits(x) /\ (x.tennis = None \/ IsTennis(x.tennis))
      BY <1>5 DEF SessionOk, WitnessHolds, TennisCursorFits
    <2> QED BY <1>5, <1>9, <1>11, <2>1, <2>2 DEF SessionOk
  <1>13. Tallied(x)
    <2>1. CASE E = {}
      <3>1. n = s.decisions
        BY <1>3, <1>10, <2>1
      <3>2. \A t \in Markets : m[t] = s.emission[t]
        BY <1>7, <2>1
      <3> QED BY <1>5, <3>1, <3>2 DEF Tallied
    <2>2. CASE E # {}
      <3>1. n > 0
        BY <1>3, <1>10, <2>2
      <3>2. PICK t \in E : IsEmission(m[t])
        BY <1>8, <2>2
      <3>3. m[t] # None
        BY <3>2, Present
      <3> QED BY <1>5, <1>6, <3>1, <3>3 DEF Tallied
    <2> QED BY <2>1, <2>2
  <1>14. Emitted(s, x)
    <2>1. {t \in Markets : x.emission[t] # s.emission[t]} = E
      BY <1>5, <1>6, <1>7
    <2>2. ASSUME NEW t \in E
          PROVE  Advances(s.emission[t], x.emission[t])
      BY <1>5, <1>6, <1>7, <2>2, EmissionAdvances
    <2> QED BY <1>3, <1>5, <2>1, <2>2 DEF Emitted
  <1> QED BY <1>5, <1>12, <1>13, <1>14

-----------------------------------------------------------------------------
(* Ingesting an observation of the match. *)

LEMMA MovesAhead ==
    ASSUME NEW k, IsTennis(k), NEW e, NEW at, IsDelivery(e, at), NEW x, NEW reason,
           Moves(k, e, at, x, reason)
    PROVE  /\ TrackerAhead(k, x)
           /\ reason = "POINT_APPLIED" => Steps(k, e, at, x)
           /\ reason # "CORRECTION_APPLIED" => x.epoch = k.epoch
  <1>0. /\ k.epoch \in Nat /\ k.revision \in Nat /\ k.received \in Nat
        /\ e.epoch \in Nat /\ e.revision \in Nat /\ at \in Nat
    BY DEF IsTennis, IsDelivery
  <1>1. CASE Stays(k, x, reason)
    BY <1>0, <1>1 DEF Stays, TrackerAhead, Applied
  <1>2. CASE Steps(k, e, at, x) /\ reason # "CORRECTION_APPLIED"
    <2>1. /\ IsTennis(x) /\ x.epoch = k.epoch /\ x.revision = k.revision + 1
          /\ x.received = at /\ k.received <= at
      BY <1>2 DEF Steps
    <2>2. /\ k.revision <= x.revision /\ k.revision # x.revision
          /\ k.epoch <= x.epoch /\ k.received <= x.received
      BY <1>0, <2>1
    <2>3. AtMost(ProviderId(k), ProviderId(x)) /\ ProviderId(k) # ProviderId(x)
      BY <2>1, <2>2 DEF AtMost, ProviderId
    <2> QED BY <1>2, <2>1, <2>2, <2>3 DEF TrackerAhead
  <1>3. CASE /\ x = TrackerFrom(e, at) /\ IsTennis(x) /\ e.epoch > k.epoch
             /\ k.received <= at /\ reason = "CORRECTION_APPLIED"
    <2>1. x.epoch = e.epoch /\ x.received = at
      BY <1>3 DEF TrackerFrom
    <2>2. /\ k.epoch < x.epoch /\ k.epoch <= x.epoch /\ k.epoch # x.epoch
          /\ k.received <= x.received
      BY <1>0, <1>3, <2>1
    <2>3. AtMost(ProviderId(k), ProviderId(x)) /\ ProviderId(k) # ProviderId(x)
      BY <2>2 DEF AtMost, ProviderId
    <2> QED BY <1>3, <2>2, <2>3 DEF TrackerAhead
  <1> QED BY <1>1, <1>2, <1>3 DEF Moves, Applied

LEMMA BestBidIs ==
    ASSUME NEW ladder, Bid(ladder) # {}
    PROVE  BestBid(ladder) \in Int
  <1> DEFINE D == {One - p : p \in Bid(ladder)}
  <1>1. Bid(ladder) \subseteq 0..One /\ One \in Nat
    BY BookAssumption DEF Bid
  <1>2. D \subseteq Nat /\ D # {}
    BY <1>1
  <1>3. PICK R : IsWellFoundedOn(R, Nat) /\ \A x, y \in Nat : << y, x >> \in R <=> y < x
    <2>1. IsWellFoundedOn(OpToRel(<, Nat), Nat)
      BY NatLessThanWellFounded
    <2>2. \A x, y \in Nat : << y, x >> \in OpToRel(<, Nat) <=> y < x
      BY DEF OpToRel
    <2> QED BY <2>1, <2>2, Zenon
  <1>4. PICK d \in D : \A y \in D : ~(<< y, d >> \in R)
    <2> HIDE DEF D
    <2> QED BY <1>2, <1>3, WFMin
  <1>5. \A y \in D : ~(y < d)
    BY <1>2, <1>3, <1>4
  <1>6. PICK p \in Bid(ladder) : d = One - p
    BY <1>4
  <1>7. \A q \in Bid(ladder) : p >= q
    <2> TAKE q \in Bid(ladder)
    <2>1. ~(One - q < One - p)
      BY <1>5, <1>6
    <2> QED BY <1>1, <2>1
  <1>8. Max(Bid(ladder)) \in Bid(ladder)
    BY <1>7 DEF Max
  <1> QED BY <1>1, <1>8 DEF BestBid

LEMMA BooksStill ==
    ASSUME NEW bids
    PROVE  ExecutableMove(bids, bids) = 0
  <1>1. ASSUME NEW ladder
        PROVE  AskMove(ladder, ladder) = 0
    <2>1. CASE Bid(ladder) = {}
      BY <2>1 DEF AskMove
    <2>2. CASE Bid(ladder) # {}
      <3>1. BestBid(ladder) - BestBid(ladder) = 0
        BY <2>2, BestBidIs
      <3> QED BY <2>2, <3>1 DEF AskMove
    <2> QED BY <2>1, <2>2
  <1>2. {AskMove(bids[side], bids[side]) : side \in Outcomes} = {0}
    BY <1>1 DEF Outcomes
  <1>3. Max({0}) = 0
    BY DEF Max
  <1> QED BY <1>2, <1>3 DEF ExecutableMove

\* A market whose cursors an input leaves, and one that it makes forget.
LEMMA KeepsOnce ==
    ASSUME NEW s, NEW x, NEW t, x.causal[t] = s.causal[t] \/ x.causal[t] = None,
           x.book[t].bids = s.book[t].bids
    PROVE  Once(s, x, t)
  <1>1. ~Moved(s.book[t], x.book[t])
    BY BooksStill DEF Moved
  <1> QED BY <1>1 DEF Once

LEMMA OriginIngested ==
    ASSUME NEW s, SessionOk(s), s.tennis = None, NEW e, NEW at, IsDelivery(e, at),
           NEW x, x = WithOrigin(s, e, at)
    PROVE  Ingested(s, x)
  <1>1. PICK k : k = TrackerFrom(e, at)
    OBVIOUS
  <1>2. IsTennis(k) /\ k.epoch = e.epoch
    BY <1>1 DEF IsTennis, TrackerFrom, IsDelivery
  <1>3. PICK p : p = [t \in Markets |->
                  IF s.pending[t] # None /\ s.pending[t].tennis_floor = NoFloor
                  THEN [s.pending[t] EXCEPT !.tennis_floor = e.epoch]
                  ELSE s.pending[t]]
    OBVIOUS
  <1>4. x = [s EXCEPT !.tennis = k, !.pending = p]
    BY <1>1, <1>3 DEF WithOrigin, SessionOk, Record
  <1>5. /\ x.tennis = k /\ x.witness = s.witness /\ x.book = s.book
        /\ x.pending = p /\ x.causal = s.causal /\ x.consumed = s.consumed
        /\ x.emission = s.emission /\ x.decisions = s.decisions /\ Record(x)
    BY <1>4 DEF SessionOk, Record
  <1>6. s.witness = None
    BY DEF SessionOk, TennisCursorFits
  <1>7. ASSUME NEW t \in Markets
        PROVE  MarketTyped(x, t) /\ MarketFits(x, t) /\ PointsOrdered(x, t)
    <2>1. MarketTyped(s, t) /\ MarketFits(s, t)
      BY DEF SessionOk
    <2>2. PICK q : q = p[t]
      OBVIOUS
    <2>3. q = IF s.pending[t] # None /\ s.pending[t].tennis_floor = NoFloor
              THEN [s.pending[t] EXCEPT !.tennis_floor = k.epoch] ELSE s.pending[t]
      BY <1>2, <1>3, <2>2
    <2>4. /\ MarketOk(k, s.book[t], q, s.causal[t], s.consumed[t], s.emission[t])
          /\ Typed(k, s.book[t], q, s.causal[t], s.consumed[t], s.emission[t])
      BY <1>2, <2>1, <2>3, OriginKeepsMarket DEF MarketTyped, MarketFits
    <2> QED BY <1>5, <1>6, <2>2, <2>4 DEF MarketTyped, MarketFits, PointsOrdered
  <1>8. SessionOk(x)
    <2>1. Maps(x)
      BY <1>3, <1>5 DEF SessionOk, Maps
    <2>2. WitnessHolds(x) /\ TennisCursorFits(x)
      BY <1>5, <1>6 DEF WitnessHolds, TennisCursorFits
    <2> QED BY <1>2, <1>5, <1>7, <2>1, <2>2 DEF SessionOk
  <1>9. \A t \in Markets : Once(s, x, t)
    BY <1>5, KeepsOnce
  <1> QED BY <1>5, <1>8, <1>9 DEF Ingested

\* The tracker moves on, with the witness it has or a new one.
LEMMA TrackerIngested ==
    ASSUME NEW s, SessionOk(s), NEW x, Record(x), TrackerAhead(s.tennis, x.tennis),
           x.book = s.book, x.pending = s.pending, x.consumed = s.consumed,
           x.emission = s.emission, x.decisions = s.decisions, WitnessHolds(x),
           x.witness # None =>
               /\ x.witness.event.epoch = x.tennis.epoch
               /\ WitnessFits(x.witness, x.tennis)
               /\ \/ x.witness = s.witness
                  \/ ProviderId(x.witness.event) = ProviderId(x.tennis),
           \/ x.causal = s.causal /\ x.tennis.epoch = s.tennis.epoch
           \/ x.causal = NoBooks(None)
    PROVE  Ingested(s, x)
  <1>1. x.tennis # None /\ IsTennis(x.tennis) /\ IsTennis(s.tennis)
    BY Present DEF TrackerAhead
  <1>2. ASSUME NEW t \in Markets
        PROVE  MarketTyped(x, t) /\ MarketFits(x, t)
    <2>1. MarketTyped(s, t) /\ MarketFits(s, t)
      BY DEF SessionOk
    <2>2. \/ x.causal[t] = s.causal[t] /\ x.tennis.epoch = s.tennis.epoch
          \/ x.causal[t] = None
      BY DEF NoBooks
    <2>3. /\ x.tennis.epoch = s.tennis.epoch
               => MarketOk(x.tennis, s.book[t], s.pending[t], s.causal[t],
                           s.consumed[t], s.emission[t])
          /\ MarketOk(x.tennis, s.book[t], s.pending[t], None,
                      s.consumed[t], s.emission[t])
      BY <2>1, TrackerKeepsMarket DEF MarketTyped, MarketFits
    <2>4. MarketTyped(x, t)
      BY <1>1, <2>1, <2>2 DEF MarketTyped, Typed
    <2>5. MarketFits(x, t)
      BY <2>2, <2>3 DEF MarketFits
    <2> QED BY <2>4, <2>5
  <1>3. ASSUME NEW t \in Markets, x.witness # None, x.consumed[t] # None
        PROVE  AtMost(ProviderId(x.consumed[t].event), ProviderId(x.witness.event))
    <2>1. CASE x.witness = s.witness
      BY <1>3, <2>1 DEF SessionOk, PointsOrdered
    <2>2. CASE ProviderId(x.witness.event) = ProviderId(x.tennis)
      <3>1. x.book[t] # None
        BY <1>2, <1>3 DEF MarketFits, MarketOk
      <3>2. WitnessFits(x.consumed[t], x.tennis)
        BY <1>2, <1>3, <3>1 DEF MarketFits, MarketOk, WitnessesOk
      <3> QED BY <2>2, <3>2 DEF WitnessFits
    <2> QED BY <1>3, <2>1, <2>2
  <1>4. Maps(x)
    BY DEF SessionOk, Maps, NoBooks
  <1>5. TennisCursorFits(x)
    BY <1>1 DEF TennisCursorFits
  <1>6. SessionOk(x)
    BY <1>1, <1>2, <1>3, <1>4, <1>5 DEF SessionOk, PointsOrdered
  <1>7. \A t \in Markets : Once(s, x, t)
    BY KeepsOnce DEF NoBooks
  <1> QED BY <1>6, <1>7 DEF Ingested

\* However the tracker takes it, an observation of the match keeps the session sound.
LEMMA TennisIngested ==
    ASSUME NEW s, SessionOk(s), s.tennis # None, NEW e, NEW at, IsDelivery(e, at),
           NEW r, r = TennisResult(s.tennis, e, at), NEW x, x = WithTennis(s, r, e, at)
    PROVE  Ingested(s, x)
  <1>1. PICK k : k = r.state
    OBVIOUS
  <1>2. IsTennis(s.tennis)
    BY DEF SessionOk
  <1>3. Moves(s.tennis, e, at, k, r.reason)
    BY <1>1, <1>2, TennisMoves
  <1>4. /\ TrackerAhead(s.tennis, k)
        /\ r.reason = "POINT_APPLIED" => Steps(s.tennis, e, at, k)
        /\ r.reason # "CORRECTION_APPLIED" => k.epoch = s.tennis.epoch
    BY <1>2, <1>3, MovesAhead
  <1>5. ASSUME s.witness # None
        PROVE  /\ IsWitness(s.witness) /\ s.witness.event.epoch = s.tennis.epoch
               /\ WitnessFits(s.witness, k)
    <2>1. /\ IsWitness(s.witness) /\ s.witness.event.epoch = s.tennis.epoch
          /\ WitnessFits(s.witness, s.tennis)
      BY <1>5 DEF SessionOk, WitnessHolds, TennisCursorFits
    <2> QED BY <1>4, <2>1, WitnessStaysFit
  <1>6. CASE r.reason = "POINT_APPLIED"
    <2>1. PICK w : w = Witness(e, at)
      OBVIOUS
    <2>2. PICK y : y = [s EXCEPT !.tennis = k, !.witness = w]
      OBVIOUS
    <2>3. /\ y.tennis = k /\ y.witness = w /\ y.book = s.book
          /\ y.pending = s.pending /\ y.causal = s.causal /\ y.consumed = s.consumed
          /\ y.emission = s.emission /\ y.decisions = s.decisions /\ Record(y)
      BY <2>2 DEF SessionOk, Record
    <2>4. Steps(s.tennis, e, at, k) /\ k.epoch = s.tennis.epoch
      BY <1>4, <1>6
    <2>5. /\ w.event = e /\ w.received = at /\ IsWitness(w)
      BY <2>1 DEF Witness, IsWitness, IsDelivery
    <2>6. /\ k.digest = e /\ k.received = at /\ ProviderId(k) = ProviderId(e)
          /\ e.epoch = k.epoch /\ ProviderId(e) \in Ids /\ at \in Nat
      BY <2>4 DEF Steps, ProviderId, IsDelivery, Ids
    <2>7. AtMost(ProviderId(e), ProviderId(e)) /\ at <= at
      BY <2>6, Ordered
    <2>8. WitnessFits(w, k) /\ w.event.epoch = k.epoch
      BY <2>5, <2>6, <2>7 DEF WitnessFits
    <2>9. Ingested(s, y)
      BY <1>4, <2>3, <2>4, <2>5, <2>6, <2>8, TrackerIngested DEF WitnessHolds
    <2>10. x = ExplainPending(y, Markets, w)
      BY <1>1, <1>6, <2>1, <2>2 DEF WithTennis, SessionOk, Record
    <2>11. SessionOk(y)
      BY <2>9 DEF Ingested
    <2>12. PICK E \in SUBSET Markets : Explaining(y, w, E, x)
      BY <2>10, <2>11, ExplainingIs DEF SessionOk
    <2>13. SessionOk(x)
      BY <2>3, <2>11, <2>12, ExplainingKeepsSession
    <2>14. ASSUME NEW t \in Markets
           PROVE  Once(s, x, t)
      <3>1. CASE t \in E
        <4>1. y.consumed[t] # None => Later(y.consumed[t], x.causal[t])
          BY <2>3, <2>11, <2>12, <3>1, ExplainedLater
        <4> QED BY <2>3, <4>1 DEF Once
      <3>2. CASE t \notin E
        <4>1. x.causal[t] = s.causal[t] /\ x.book = s.book
          BY <2>3, <2>12, <3>2 DEF Explaining
        <4> QED BY <4>1, KeepsOnce
      <3> QED BY <3>1, <3>2
    <2> QED BY <2>3, <2>12, <2>13, <2>14 DEF Ingested, Explaining
  <1>7. CASE r.reason = "CORRECTION_APPLIED"
    <2>1. x = [s EXCEPT !.tennis = k, !.witness = None, !.causal = NoBooks(None)]
      BY <1>1, <1>7 DEF WithTennis, SessionOk, Record
    <2>2. /\ x.tennis = k /\ x.witness = None /\ x.book = s.book
          /\ x.pending = s.pending /\ x.causal = NoBooks(None)
          /\ x.consumed = s.consumed
          /\ x.emission = s.emission /\ x.decisions = s.decisions /\ Record(x)
      BY <2>1 DEF SessionOk, Record
    <2> QED BY <1>4, <2>2, TrackerIngested DEF WitnessHolds
  <1>8. CASE r.reason # "POINT_APPLIED" /\ r.reason # "CORRECTION_APPLIED"
    <2>1. x = [s EXCEPT !.tennis = k]
      BY <1>1, <1>8 DEF WithTennis, SessionOk, Record
    <2>2. /\ x.tennis = k /\ x.witness = s.witness /\ x.book = s.book
          /\ x.pending = s.pending /\ x.causal = s.causal
          /\ x.consumed = s.consumed
          /\ x.emission = s.emission /\ x.decisions = s.decisions /\ Record(x)
      BY <2>1 DEF SessionOk, Record
    <2> QED BY <1>4, <1>5, <1>8, <2>2, TrackerIngested DEF WitnessHolds
  <1> QED BY <1>6, <1>7, <1>8

-----------------------------------------------------------------------------
(* Ingesting an observation of a market. *)

\* A book event moves the book on, and a large one under a new identity.
LEMMA MovedAhead ==
    ASSUME NEW b, b = None \/ IsBook(b), NEW e, NEW at, IsBookDelivery(e, at),
           NEW r, BookMoved(b, e, at, r)
    PROVE  /\ BookAhead(b, r.book)
           /\ r.kind \in Large => r.book.observed = at
           /\ b # None /\ r.kind \in Large => BookId(b) # BookId(r.book)
           /\ b # None /\ r.kind \notin Large => r.book.bids = b.bids
  <1>1. PICK y : y = r.book
    OBVIOUS
  <1>2. CASE b # None /\ Rests(b, y, r.kind)
    <2>1. BookId(y) = BookId(b) /\ y.observed = b.observed /\ b.observed \in Nat
          /\ IsBook(b) /\ IsBook(y) /\ BookId(b) \in Ids
      BY <1>2, Identities DEF Rests, BookId, IsBook
    <2>2. AtMost(BookId(b), BookId(y)) /\ b.observed <= y.observed
      BY <2>1, Ordered
    <2> QED BY <1>1, <1>2, <2>1, <2>2 DEF BookAhead, Rests
  <1>3. CASE b # None /\ Extends(b, e, at, y, r.kind)
    <2>1. /\ IsBook(b) /\ IsBook(y) /\ b.epoch = y.epoch
          /\ y.sequence = b.sequence + 1 /\ y.observed = at /\ b.observed <= at
          /\ b.sequence \in Nat
      BY <1>3 DEF Extends, IsBook
    <2>2. b.sequence <= y.sequence /\ b.sequence # y.sequence
      BY <2>1
    <2>3. AtMost(BookId(b), BookId(y)) /\ BookId(b) # BookId(y)
      BY <2>1, <2>2 DEF AtMost, BookId
    <2>4. r.kind \in Large
      BY <1>3 DEF Extends, Large
    <2> QED BY <1>1, <2>1, <2>3, <2>4 DEF BookAhead
  <1>4. CASE Replaces(b, e, at, y, r.kind)
    <2>1. IsBook(y) /\ y.epoch = e.epoch /\ y.observed = at
          /\ r.kind \in Large
      BY <1>4 DEF Replaces, FromSnapshot, Large
    <2>2. ASSUME b # None
          PROVE  /\ IsBook(b) /\ AtMost(BookId(b), BookId(y)) /\ BookId(b) # BookId(y)
                 /\ b.observed <= y.observed
      <3>1. /\ b.epoch \in Nat /\ e.epoch \in Nat /\ b.epoch < e.epoch
            /\ b.observed <= at /\ IsBook(b)
        BY <1>4, <2>2 DEF Replaces, IsBook, IsBookDelivery
      <3>2. b.epoch < y.epoch /\ b.epoch # y.epoch
        BY <2>1, <3>1
      <3>3. AtMost(BookId(b), BookId(y)) /\ BookId(b) # BookId(y)
        BY <3>2 DEF AtMost, BookId
      <3> QED BY <2>1, <3>1, <3>3
    <2> QED BY <1>1, <2>1, <2>2 DEF BookAhead
  <1> QED BY <1>1, <1>2, <1>3, <1>4 DEF BookMoved

\* One market's cursors change.
Changes(s, t, x, b, p, c) ==
    /\ Record(x) /\ x.tennis = s.tennis /\ x.witness = s.witness
    /\ x.consumed = s.consumed /\ x.emission = s.emission
    /\ x.decisions = s.decisions
    /\ x.book = [s.book EXCEPT ![t] = b]
    /\ x.pending = [s.pending EXCEPT ![t] = p]
    /\ x.causal = [s.causal EXCEPT ![t] = c]

LEMMA MarketChanged ==
    ASSUME NEW s, SessionOk(s), NEW t \in Markets, NEW x, NEW b, NEW p, NEW c,
           Changes(s, t, x, b, p, c),
           MarketOk(s.tennis, b, p, c, s.consumed[t], s.emission[t]),
           Typed(s.tennis, b, p, c, s.consumed[t], s.emission[t])
    PROVE  /\ SessionOk(x)
           /\ x.book[t] = b /\ x.pending[t] = p /\ x.causal[t] = c
           /\ \A m \in Markets \ {t} : /\ x.book[m] = s.book[m]
                                       /\ x.pending[m] = s.pending[m]
                                       /\ x.causal[m] = s.causal[m]
  <1>1. Maps(s)
    BY DEF SessionOk
  <1>2. x.book[t] = b /\ x.pending[t] = p /\ x.causal[t] = c
    BY <1>1 DEF Maps, Changes
  <1>3. \A m \in Markets \ {t} : /\ x.book[m] = s.book[m]
                                 /\ x.pending[m] = s.pending[m]
                                 /\ x.causal[m] = s.causal[m]
    BY <1>1 DEF Maps, Changes
  <1>4. ASSUME NEW m \in Markets
        PROVE  MarketTyped(x, m) /\ MarketFits(x, m) /\ PointsOrdered(x, m)
    <2>1. MarketTyped(s, m) /\ MarketFits(s, m) /\ PointsOrdered(s, m)
      BY DEF SessionOk
    <2>2. PointsOrdered(x, m)
      BY <2>1 DEF PointsOrdered, Changes
    <2>3. CASE m = t
      BY <1>2, <2>2, <2>3 DEF MarketTyped, MarketFits, Changes
    <2>4. CASE m # t
      BY <1>3, <2>1, <2>2, <2>4 DEF MarketTyped, MarketFits, Changes
    <2> QED BY <2>3, <2>4
  <1>5. Maps(x)
    BY <1>1 DEF Maps, Changes
  <1>6. TennisCursorFits(x) /\ WitnessHolds(x)
    BY DEF SessionOk, TennisCursorFits, WitnessHolds, Changes
  <1> QED BY <1>2, <1>3, <1>4, <1>5, <1>6 DEF SessionOk, Changes

LEMMA GapChanges ==
    ASSUME NEW s, SessionOk(s), NEW t \in Markets,
           NEW x, x = [s EXCEPT !.book[t] = RequireResnapshot(@)]
    PROVE  Changes(s, t, x, GappedCopy(s.book[t]), s.pending[t], s.causal[t])
  <1>1. PICK y : y = GappedCopy(s.book[t])
    OBVIOUS
  <1>2. /\ x.book = [s.book EXCEPT ![t] = y]
        /\ x.tennis = s.tennis /\ x.witness = s.witness
        /\ x.pending = s.pending /\ x.causal = s.causal /\ x.consumed = s.consumed
        /\ x.emission = s.emission /\ x.decisions = s.decisions /\ Record(x)
    BY <1>1 DEF RequireResnapshot, SessionOk, Record
  <1>3. /\ x.pending = [s.pending EXCEPT ![t] = s.pending[t]]
        /\ x.causal = [s.causal EXCEPT ![t] = s.causal[t]]
    BY <1>2 DEF SessionOk, Maps
  <1> QED BY <1>1, <1>2, <1>3 DEF Changes

LEMMA GapIngested ==
    ASSUME NEW s, SessionOk(s), NEW t \in Markets, s.book[t] # None,
           NEW x, Changes(s, t, x, GappedCopy(s.book[t]), s.pending[t], s.causal[t])
    PROVE  Ingested(s, x)
  <1>1. PICK y : y = GappedCopy(s.book[t])
    OBVIOUS
  <1>2. MarketTyped(s, t) /\ MarketFits(s, t)
    BY DEF SessionOk
  <1>3. IsBook(s.book[t])
    BY <1>2 DEF MarketTyped, Typed
  <1>4. Rests(s.book[t], y, "none")
    BY <1>1, <1>3, GapRests DEF Large
  <1>5. /\ IsBook(y) /\ BookId(y) = BookId(s.book[t]) /\ y.observed = s.book[t].observed
        /\ y.bids = s.book[t].bids /\ s.book[t].observed \in Nat
        /\ BookId(s.book[t]) \in Ids
    BY <1>3, <1>4, Identities DEF Rests, BookId, IsBook
  <1>6. AtMost(BookId(s.book[t]), BookId(y))
    BY <1>5, Ordered
  <1>7. BookAhead(s.book[t], y)
    BY <1>3, <1>5, <1>6 DEF BookAhead
  <1>8. PICK p, c : p = s.pending[t] /\ c = s.causal[t]
    OBVIOUS
  <1>9. MarketOk(s.tennis, y, p, c, s.consumed[t], s.emission[t])
    BY <1>2, <1>7, <1>8, BookKeepsMarket DEF MarketTyped, MarketFits
  <1>10. Typed(s.tennis, y, p, c, s.consumed[t], s.emission[t])
    BY <1>2, <1>5, <1>8 DEF MarketTyped, Typed
  <1>11. Changes(s, t, x, y, p, c)
    BY <1>1, <1>8
  <1>12. /\ SessionOk(x) /\ x.book[t] = y /\ x.causal[t] = c
         /\ \A m \in Markets \ {t} : x.book[m] = s.book[m] /\ x.causal[m] = s.causal[m]
    BY <1>9, <1>10, <1>11, MarketChanged
  <1>13. \A m \in Markets : Once(s, x, m)
    BY <1>5, <1>8, <1>12, KeepsOnce
  <1> QED BY <1>11, <1>12, <1>13 DEF Ingested, Changes

\* What WithBook makes of one market: its book, what is pending in it, and
\* whether the event counts as a large move.
LEMMA BookChanges ==
    ASSUME NEW s, SessionOk(s), NEW t \in Markets, NEW r, NEW at,
           NEW x, x = WithBook(s, t, r, at)
    PROVE  \E q \in {None, s.pending[t]} :
               \/ /\ Changes(s, t, x, r.book, q, s.causal[t])
                  /\ ~(/\ s.book[t] # None /\ r.kind \in Large
                       /\ r.move > 0 /\ r.move >= MoveThreshold)
               \/ /\ s.book[t] # None /\ r.kind \in Large
                  /\ \E y : /\ Changes(s, t, y, r.book, q, s.causal[t])
                            /\ x = RecordMove(y, t, at)
  <1>1. PICK q \in {None, s.pending[t]} :
            q = IF /\ s.book[t] # None /\ r.kind = "SNAPSHOT" /\ s.pending[t] # None
                   /\ PairedReset(s.pending[t], s.tennis, r.book)
                THEN None ELSE s.pending[t]
    OBVIOUS
  <1>2. PICK y : y = [s EXCEPT !.book[t] = r.book, !.pending[t] = q]
    OBVIOUS
  <1>3. x = IF /\ s.book[t] # None /\ r.kind \in Large
               /\ r.move > 0 /\ r.move >= MoveThreshold
            THEN RecordMove(y, t, at) ELSE y
    BY <1>1, <1>2 DEF WithBook, Large, SessionOk, Record, Maps
  <1>4. Changes(s, t, y, r.book, q, s.causal[t])
    <2>1. PICK b, p : /\ b = [s.book EXCEPT ![t] = r.book]
                      /\ p = [s.pending EXCEPT ![t] = q]
      OBVIOUS
    <2>2. y = [s EXCEPT !.book = b, !.pending = p]
      BY <1>2, <2>1 DEF SessionOk, Record
    <2>3. /\ y.book = b /\ y.tennis = s.tennis /\ y.witness = s.witness
          /\ y.pending = p /\ y.causal = s.causal /\ y.consumed = s.consumed
          /\ y.emission = s.emission /\ y.decisions = s.decisions /\ Record(y)
      BY <2>2 DEF SessionOk, Record
    <2>4. y.causal = [s.causal EXCEPT ![t] = s.causal[t]]
      BY <2>3 DEF SessionOk, Maps
    <2> QED BY <2>1, <2>3, <2>4 DEF Changes
  <1> QED BY <1>3, <1>4

\* RecordMove, of a book that was observed at this time.
LEMMA RecordChanges ==
    ASSUME NEW y, Record(y), Maps(y), NEW t \in Markets, NEW at, y.book[t].observed = at,
           NEW x, x = RecordMove(y, t, at)
    PROVE  \E z : /\ Changes(y, t, z, y.book[t],
                             Recorded(y.tennis, y.book[t], y.pending[t]), None)
                  /\ x = ExplainPending(z, {t}, z.witness)
  <1>1. PICK q : q = Recorded(y.tennis, y.book[t], y.pending[t])
    OBVIOUS
  <1>2. PICK z : z = [y EXCEPT !.pending[t] = q, !.causal[t] = None]
    OBVIOUS
  <1>3. PICK p, c : /\ p = [y.pending EXCEPT ![t] = q]
                    /\ c = [y.causal EXCEPT ![t] = None]
    OBVIOUS
  <1>4. z = [y EXCEPT !.pending = p, !.causal = c]
    BY <1>2, <1>3 DEF Record
  <1>5. /\ z.pending = p /\ z.causal = c /\ z.tennis = y.tennis
        /\ z.witness = y.witness /\ z.book = y.book /\ z.consumed = y.consumed
        /\ z.emission = y.emission /\ z.decisions = y.decisions /\ Record(z)
    BY <1>4 DEF Record
  <1>6. y.book = [y.book EXCEPT ![t] = y.book[t]]
    BY DEF Maps
  <1>7. Changes(y, t, z, y.book[t], q, None)
    BY <1>3, <1>5, <1>6 DEF Changes
  <1>8. x = ExplainPending(z, {t}, y.witness)
    BY <1>1, <1>2 DEF RecordMove, Recorded
  <1> QED BY <1>1, <1>5, <1>7, <1>8

\* And so does an observation of a market.
LEMMA BookIngested ==
    ASSUME NEW s, SessionOk(s), NEW t \in Markets, NEW e, NEW at, IsBookDelivery(e, at),
           NEW r, r = BookResult(s.book[t], e, at), ~r.error,
           NEW x, x = WithBook(s, t, r, at)
    PROVE  Ingested(s, x)
  <1>1. MarketTyped(s, t) /\ MarketFits(s, t)
    BY DEF SessionOk
  <1>2. s.book[t] = None \/ IsBook(s.book[t])
    BY <1>1 DEF MarketTyped, Typed
  <1>3. BookMoved(s.book[t], e, at, r)
    BY <1>2, BookMoves
  <1>4. /\ BookAhead(s.book[t], r.book)
        /\ r.kind \in Large => r.book.observed = at
        /\ s.book[t] # None /\ r.kind \in Large => BookId(s.book[t]) # BookId(r.book)
        /\ s.book[t] # None /\ r.kind \notin Large => r.book.bids = s.book[t].bids
    BY <1>2, <1>3, MovedAhead
  <1>5. PICK q \in {None, s.pending[t]} :
               \/ /\ Changes(s, t, x, r.book, q, s.causal[t])
                  /\ ~(/\ s.book[t] # None /\ r.kind \in Large
                       /\ r.move > 0 /\ r.move >= MoveThreshold)
               \/ /\ s.book[t] # None /\ r.kind \in Large
                  /\ \E y : /\ Changes(s, t, y, r.book, q, s.causal[t])
                            /\ x = RecordMove(y, t, at)
    BY BookChanges
  <1>6. PICK c : c = s.causal[t]
    OBVIOUS
  <1>7. MarketOk(s.tennis, r.book, q, c, s.consumed[t], s.emission[t])
    BY <1>1, <1>4, <1>5, <1>6, BookKeepsMarket DEF MarketTyped, MarketFits
  <1>8. Typed(s.tennis, r.book, q, c, s.consumed[t], s.emission[t])
    BY <1>1, <1>4, <1>5, <1>6 DEF MarketTyped, Typed, BookAhead
  <1>9. CASE /\ Changes(s, t, x, r.book, q, s.causal[t])
             /\ ~(/\ s.book[t] # None /\ r.kind \in Large
                  /\ r.move > 0 /\ r.move >= MoveThreshold)
    <2>1. Changes(s, t, x, r.book, q, c)
      BY <1>6, <1>9
    <2>2. /\ SessionOk(x) /\ x.book[t] = r.book /\ x.causal[t] = c
          /\ \A m \in Markets \ {t} : x.book[m] = s.book[m] /\ x.causal[m] = s.causal[m]
      BY <1>7, <1>8, <2>1, MarketChanged
    <2>3. \A m \in Markets \ {t} : Once(s, x, m)
      BY <2>2, KeepsOnce
    <2>4. ASSUME s.book[t] # None
          PROVE  ~Moved(s.book[t], x.book[t])
      <3>1. CASE r.kind \in Large
        <4>1. r.move = ExecutableMove(s.book[t].bids, x.book[t].bids)
          BY <1>3, <2>2, <2>4, <3>1 DEF BookMoved
        <4> QED BY <1>9, <2>4, <3>1, <4>1 DEF Moved
      <3>2. CASE r.kind \notin Large
        <4>1. x.book[t].bids = s.book[t].bids
          BY <1>4, <2>2, <2>4, <3>2
        <4> QED BY <4>1, BooksStill DEF Moved
      <3> QED BY <3>1, <3>2
    <2>5. s.book[t] = None => s.consumed[t] = None
      BY <1>1 DEF MarketFits, MarketOk
    <2>6. Once(s, x, t)
      BY <1>6, <2>2, <2>4, <2>5 DEF Once
    <2> QED BY <2>1, <2>2, <2>3, <2>6 DEF Ingested, Changes
  <1>10. ASSUME s.book[t] # None, r.kind \in Large, NEW y,
                Changes(s, t, y, r.book, q, s.causal[t]), x = RecordMove(y, t, at)
         PROVE  Ingested(s, x)
    <2>1. Changes(s, t, y, r.book, q, c)
      BY <1>6, <1>10
    <2>2. /\ SessionOk(y) /\ y.book[t] = r.book /\ y.pending[t] = q
          /\ \A m \in Markets \ {t} : /\ y.book[m] = s.book[m]
                                      /\ y.causal[m] = s.causal[m]
      BY <1>7, <1>8, <2>1, MarketChanged
    <2>3. Record(y) /\ Maps(y) /\ y.tennis = s.tennis /\ y.witness = s.witness
          /\ y.consumed = s.consumed /\ y.emission = s.emission
          /\ y.decisions = s.decisions
      BY <2>1, <2>2 DEF SessionOk, Changes
    <2>4. PICK z : /\ Changes(y, t, z, y.book[t],
                              Recorded(y.tennis, y.book[t], y.pending[t]), None)
                   /\ x = ExplainPending(z, {t}, z.witness)
      BY <1>4, <1>10, <2>2, <2>3, RecordChanges
    <2>5. PICK p : p = Recorded(s.tennis, r.book, q)
      OBVIOUS
    <2>6. Changes(y, t, z, r.book, p, None)
      BY <2>2, <2>3, <2>4, <2>5
    <2>7. MarketOk(s.tennis, s.book[t], q, c, s.consumed[t], s.emission[t])
      <3>1. BookAhead(s.book[t], s.book[t])
        BY <1>2, <1>10, SameBook
      <3> QED BY <1>1, <1>5, <1>6, <3>1, BookKeepsMarket DEF MarketTyped, MarketFits
    <2>8. Typed(s.tennis, s.book[t], q, c, s.consumed[t], s.emission[t])
      BY <1>1, <1>5, <1>6 DEF MarketTyped, Typed
    <2>9. /\ MarketOk(s.tennis, r.book, p, None, s.consumed[t], s.emission[t])
          /\ IsPending(p)
      BY <1>4, <1>10, <2>5, <2>7, <2>8, RecordKeepsMarket
    <2>10. Typed(s.tennis, r.book, p, None, s.consumed[t], s.emission[t])
      BY <1>8, <2>9 DEF Typed
    <2>11. /\ MarketOk(y.tennis, r.book, p, None, y.consumed[t], y.emission[t])
           /\ Typed(y.tennis, r.book, p, None, y.consumed[t], y.emission[t])
      BY <2>3, <2>9, <2>10
    <2>12. /\ SessionOk(z) /\ z.book[t] = r.book /\ z.causal[t] = None
           /\ \A m \in Markets \ {t} : z.book[m] = y.book[m] /\ z.causal[m] = y.causal[m]
      BY <2>2, <2>6, <2>11, MarketChanged
    <2>13. PICK E \in SUBSET {t} : Explaining(z, z.witness, E, x)
      BY <2>4, <2>12, ExplainingIs DEF SessionOk
    <2>14. SessionOk(x)
      BY <2>12, <2>13, ExplainingKeepsSession
    <2>15. /\ z.consumed = s.consumed /\ z.emission = s.emission
           /\ z.decisions = s.decisions
      BY <2>3, <2>6 DEF Changes
    <2>16. ASSUME NEW m \in Markets
           PROVE  Once(s, x, m)
      <3>1. CASE m \in E
        <4>1. z.consumed[m] # None => Later(z.consumed[m], x.causal[m])
          BY <2>12, <2>13, <3>1, ExplainedLater
        <4> QED BY <2>15, <4>1 DEF Once
      <3>2. CASE m \notin E
        <4>1. x.causal[m] = z.causal[m] /\ x.book = z.book
          BY <2>13, <3>2 DEF Explaining
        <4>2. CASE m = t
          BY <2>12, <4>1, <4>2 DEF Once
        <4>3. CASE m # t
          <5>1. x.causal[m] = s.causal[m] /\ x.book[m].bids = s.book[m].bids
            BY <2>2, <2>12, <4>1, <4>3
          <5> QED BY <5>1, KeepsOnce
        <4> QED BY <4>2, <4>3
      <3> QED BY <3>1, <3>2
    <2> QED BY <2>13, <2>14, <2>15, <2>16 DEF Ingested, Explaining
  <1> QED BY <1>5, <1>9, <1>10

-----------------------------------------------------------------------------
(* The steps of the session. *)

(* The inductive invariant: a session of well-formed cursors that fit       *)
(* together as the constructors demand, its latest point not behind any     *)
(* that a market consumed, and no exception so far.                         *)
SyncInductive ==
    /\ SessionOk(session) /\ Tallied(session)
    /\ clock \in Nat /\ script \in DOMAIN Scripts
    /\ halted # "REDUCER_EXCEPTION"

\* What a step does to a session s that it reduces to x: an input is
\* ingested, then markets are evaluated.
Reduced(s, x) ==
    \/ x = s
    \/ \E y : /\ Ingested(s, y) /\ Emitted(y, x)
              /\ x.book = y.book /\ x.causal = y.causal

LEMMA InitSync == SyncInit => SyncInductive
  <1> SUFFICES ASSUME SyncInit PROVE SyncInductive
    OBVIOUS
  <1>1. session = InitialSession /\ clock = 0 /\ script \in DOMAIN Scripts /\ halted = Running
    BY DEF SyncInit
  <1>2. /\ session.tennis = None /\ session.witness = None /\ session.book = NoBooks(None)
        /\ session.pending = NoBooks(None) /\ session.causal = NoBooks(None)
        /\ session.consumed = NoBooks(None) /\ session.emission = NoBooks(None)
        /\ session.decisions = 0 /\ Record(session)
    BY <1>1 DEF InitialSession, Record
  <1>3. Maps(session)
    BY <1>2 DEF Maps, NoBooks
  <1>4. ASSUME NEW t \in Markets
        PROVE  MarketTyped(session, t) /\ MarketFits(session, t) /\ PointsOrdered(session, t)
    <2>1. /\ session.book[t] = None /\ session.pending[t] = None /\ session.causal[t] = None
          /\ session.consumed[t] = None /\ session.emission[t] = None
      BY <1>2 DEF NoBooks
    <2> QED BY <1>2, <2>1 DEF MarketTyped, Typed, MarketFits, MarketOk, PointsOrdered
  <1>5. SessionOk(session)
    BY <1>2, <1>3, <1>4 DEF SessionOk, WitnessHolds, TennisCursorFits
  <1>6. Tallied(session)
    BY <1>2 DEF Tallied, NoBooks
  <1>7. halted # "REDUCER_EXCEPTION"
    BY <1>1 DEF Running
  <1> QED BY <1>1, <1>5, <1>6, <1>7 DEF SyncInductive

LEMMA SameIngested ==
    ASSUME NEW s, SessionOk(s)
    PROVE  Ingested(s, s)
  BY KeepsOnce DEF Ingested

\* What is left of Reduce once its input is known to lead to a sound session.
LEMMA EvaluatedKeeps ==
    ASSUME SyncInductive, NEW y, Ingested(session, y),
           NEW markets \in SUBSET Markets, NEW now, NEW x, x = Evaluate(y, markets, now),
           UNCHANGED << clock, script >>,
           \/ session' = x /\ halted' = halted
           \/ session' = session /\ halted' = "SYNCHRONIZATION_SESSION_DRIFT"
           \/ session' = session /\ ~(SessionFits(y) /\ SessionFits(x))
    PROVE  SyncInductive' /\ Reduced(session, session')
  <1>1. SessionOk(y) /\ Tallied(y)
    BY DEF Ingested, SyncInductive, Tallied
  <1>2. /\ SessionOk(x) /\ Tallied(x) /\ Emitted(y, x)
        /\ x.book = y.book /\ x.causal = y.causal
    BY <1>1, Evaluates
  <1>3. SessionFits(y) /\ SessionFits(x)
    BY <1>1, <1>2, OkFits
  <1>4. Reduced(session, x) /\ Reduced(session, session)
    BY <1>2 DEF Reduced
  <1>5. CASE session' = x /\ halted' = halted
    BY <1>2, <1>4, <1>5 DEF SyncInductive
  <1>6. CASE session' = session /\ halted' = "SYNCHRONIZATION_SESSION_DRIFT"
    BY <1>4, <1>6 DEF SyncInductive
  <1> QED BY <1>3, <1>5, <1>6

\* An input that leaves the session as it is.
LEMMA LeftKeeps ==
    ASSUME SyncInductive, session' = session, UNCHANGED << clock, script >>,
           halted' # "REDUCER_EXCEPTION"
    PROVE  SyncInductive' /\ Reduced(session, session')
  BY DEF SyncInductive, Reduced

LEMMA SessionFitsNow == SyncInductive => SessionFits(session)
  BY OkFits DEF SyncInductive

LEMMA Delivered ==
    ASSUME SyncInductive, NEW i \in DOMAIN feed, NEW at \in ReceiptTimes,
           NEW defect \in Defects \cup {NoMismatch}
    PROVE  IsDelivery(Garbled(feed[i].event, defect), at)
  <1>1. PICK e : e = feed[i].event
    OBVIOUS
  <1>2. IsEvent(e)
    BY <1>1, ScriptsAssumption DEF SyncInductive, ProviderFeed, feed
  <1>3. defect \in ProviderDefects \cup {NoMismatch}
    BY ScriptsAssumption DEF SyncInductive, Defects
  <1>4. at \in Nat
    BY DEF ReceiptTimes
  <1>5. e.epoch \in Nat /\ e.revision \in Nat /\ e.mismatch = NoMismatch
    BY <1>2 DEF IsEvent
  <1>6. PICK d : d = Garbled(e, defect)
    OBVIOUS
  <1>7. /\ d.epoch = e.epoch /\ d.revision = e.revision
        /\ d.mismatch \in {e.mismatch, defect}
    <2>1. CASE defect = NoMismatch
      BY <1>6, <2>1 DEF Garbled
    <2>2. CASE defect = "INCOMPLETE"
      <3>1. d = [e EXCEPT !.complete = FALSE]
        BY <1>6, <2>2 DEF Garbled, NoMismatch
      <3> QED BY <1>2, <3>1 DEF IsEvent
    <2>3. CASE defect # NoMismatch /\ defect # "INCOMPLETE"
      <3>1. d = [e EXCEPT !.mismatch = defect]
        BY <1>6, <2>3 DEF Garbled
      <3> QED BY <1>2, <3>1 DEF IsEvent
    <2> QED BY <2>1, <2>2, <2>3
  <1>8. d.mismatch \in ProviderDefects \cup {NoMismatch}
    BY <1>3, <1>5, <1>7
  <1>9. IsDelivery(d, at)
    BY <1>4, <1>5, <1>7, <1>8 DEF IsDelivery
  <1> QED BY <1>1, <1>6, <1>9

LEMMA VenueDelivered ==
    ASSUME SyncInductive, NEW t \in Markets, NEW i \in DOMAIN venue[t],
           NEW at \in ReceiptTimes
    PROVE  IsBookDelivery(venue[t][i].event, at)
  <1>1. VenueFeed(venue[t])
    BY ScriptsAssumption DEF SyncInductive, venue
  <1>2. at \in Nat
    BY DEF ReceiptTimes
  <1> QED BY <1>1, <1>2 DEF VenueFeed, OfBook, IsBookDelivery

LEMMA OriginStep ==
    ASSUME SyncInductive, NEW e, NEW at, IsDelivery(e, at), NEW now,
           TennisOrigin(e, at, now)
    PROVE  SyncInductive' /\ Reduced(session, session')
  <1>1. PICK y : y = WithOrigin(session, e, at)
    OBVIOUS
  <1>2. Ingested(session, y)
    BY <1>1, OriginIngested DEF SyncInductive, TennisOrigin
  <1>3. PICK x : x = Evaluate(y, Markets, now)
    OBVIOUS
  <1>4. CASE e.mismatch # NoMismatch
    <2>1. Reduce(OriginValid(session, e), session, session)
      BY <1>4 DEF TennisOrigin
    <2>2. /\ session' = session /\ UNCHANGED << clock, script >>
          /\ halted' # "REDUCER_EXCEPTION"
      BY <2>1, SessionFitsNow DEF Reduce, Halt, SyncInductive
    <2> QED BY <2>2, LeftKeeps
  <1>5. CASE e.mismatch = NoMismatch
    <2>1. Reduce(OriginValid(session, e), y, x)
      BY <1>1, <1>3, <1>5 DEF TennisOrigin
    <2>2. /\ UNCHANGED << clock, script >>
          /\ \/ session' = x /\ halted' = halted
             \/ session' = session /\ halted' = "SYNCHRONIZATION_SESSION_DRIFT"
             \/ session' = session /\ ~(SessionFits(y) /\ SessionFits(x))
      BY <2>1 DEF Reduce, Halt
    <2> QED BY <1>2, <1>3, <2>2, EvaluatedKeeps
  <1> QED BY <1>4, <1>5

LEMMA TransitionStep ==
    ASSUME SyncInductive, NEW e, NEW at, IsDelivery(e, at), NEW now,
           TennisTransition(e, at, now)
    PROVE  SyncInductive' /\ Reduced(session, session')
  <1>1. PICK r : r = TennisResult(session.tennis, e, at)
    OBVIOUS
  <1>2. PICK y : y = WithTennis(session, r, e, at)
    OBVIOUS
  <1>3. PICK x : x = Evaluate(y, Markets, now)
    OBVIOUS
  <1>4. session.tennis # None /\ Reduce(Reachable(r.state.score), y, x)
    BY <1>1, <1>2, <1>3 DEF TennisTransition
  <1>5. Ingested(session, y)
    BY <1>1, <1>2, <1>4, TennisIngested DEF SyncInductive
  <1>6. /\ UNCHANGED << clock, script >>
        /\ \/ session' = x /\ halted' = halted
           \/ session' = session /\ halted' = "SYNCHRONIZATION_SESSION_DRIFT"
           \/ session' = session /\ ~(SessionFits(y) /\ SessionFits(x))
    BY <1>4 DEF Reduce, Halt
  <1> QED BY <1>3, <1>5, <1>6, EvaluatedKeeps

LEMMA BookStep ==
    ASSUME SyncInductive, NEW t \in Markets, NEW e, NEW at, IsBookDelivery(e, at), NEW now,
           BookTransition(t, e, at, now)
    PROVE  SyncInductive' /\ Reduced(session, session')
  <1>1. PICK r : r = BookResult(session.book[t], e, at)
    OBVIOUS
  <1>2. PICK y : y = WithBook(session, t, r, at)
    OBVIOUS
  <1>3. PICK x : x = Evaluate(y, {t}, now)
    OBVIOUS
  <1>4. Reduce(~r.error, y, x)
    BY <1>1, <1>2, <1>3 DEF BookTransition
  <1>5. CASE r.error
    <2>1. /\ session' = session /\ UNCHANGED << clock, script >>
          /\ halted' = "SYNCHRONIZATION_SESSION_DRIFT"
      BY <1>4, <1>5 DEF Reduce, Halt
    <2>2. halted' # "REDUCER_EXCEPTION"
      BY <2>1
    <2> QED BY <2>1, <2>2, LeftKeeps
  <1>6. CASE ~r.error
    <2>1. Ingested(session, y)
      BY <1>1, <1>2, <1>6, BookIngested DEF SyncInductive
    <2>2. /\ UNCHANGED << clock, script >>
          /\ \/ session' = x /\ halted' = halted
             \/ session' = session /\ halted' = "SYNCHRONIZATION_SESSION_DRIFT"
             \/ session' = session /\ ~(SessionFits(y) /\ SessionFits(x))
      BY <1>4 DEF Reduce, Halt
    <2> QED BY <1>3, <2>1, <2>2, EvaluatedKeeps
  <1> QED BY <1>5, <1>6

LEMMA ResnapshotStep ==
    ASSUME SyncInductive, NEW t \in Markets, NEW now, ResnapshotRequired(t, now)
    PROVE  SyncInductive' /\ Reduced(session, session')
  <1>1. PICK y : y = [session EXCEPT !.book[t] = RequireResnapshot(@)]
    OBVIOUS
  <1>2. PICK x : x = Evaluate(y, {t}, now)
    OBVIOUS
  <1>3. Reduce(session.book[t] # None, y, x)
    BY <1>1, <1>2 DEF ResnapshotRequired
  <1>4. CASE session.book[t] = None
    <2>1. /\ session' = session /\ UNCHANGED << clock, script >>
          /\ halted' = "SYNCHRONIZATION_SESSION_DRIFT"
      BY <1>3, <1>4 DEF Reduce, Halt
    <2>2. halted' # "REDUCER_EXCEPTION"
      BY <2>1
    <2> QED BY <2>1, <2>2, LeftKeeps
  <1>5. CASE session.book[t] # None
    <2>1. Changes(session, t, y, GappedCopy(session.book[t]), session.pending[t],
                  session.causal[t])
      BY <1>1, GapChanges DEF SyncInductive
    <2>2. Ingested(session, y)
      BY <1>5, <2>1, GapIngested DEF SyncInductive
    <2>3. /\ UNCHANGED << clock, script >>
          /\ \/ session' = x /\ halted' = halted
             \/ session' = session /\ halted' = "SYNCHRONIZATION_SESSION_DRIFT"
             \/ session' = session /\ ~(SessionFits(y) /\ SessionFits(x))
      BY <1>3 DEF Reduce, Halt
    <2> QED BY <1>2, <2>2, <2>3, EvaluatedKeeps
  <1> QED BY <1>4, <1>5

LEMMA ClockStep ==
    ASSUME SyncInductive, NEW t \in Markets, NEW now, Clock(t, now)
    PROVE  SyncInductive' /\ Reduced(session, session')
  <1>1. PICK x : x = Evaluate(session, {t}, now)
    OBVIOUS
  <1>2. Ingested(session, session)
    BY SameIngested DEF SyncInductive
  <1>3. Reduce(TRUE, session, x)
    BY <1>1 DEF Clock
  <1>4. /\ UNCHANGED << clock, script >>
        /\ \/ session' = x /\ halted' = halted
           \/ session' = session /\ halted' = "SYNCHRONIZATION_SESSION_DRIFT"
           \/ session' = session /\ ~(SessionFits(session) /\ SessionFits(x))
    BY <1>3 DEF Reduce, Halt
  <1> QED BY <1>1, <1>2, <1>4, EvaluatedKeeps

LEMMA RestStep ==
    ASSUME SyncInductive,
           Tick \/ UnboundTicker \/ StaleEvidence \/ UNCHANGED moment
    PROVE  SyncInductive' /\ Reduced(session, session')
  <1>1. CASE Tick
    BY <1>1 DEF Tick, SyncInductive, Reduced
  <1>2. CASE UnboundTicker
    <2>1. /\ session' = session /\ UNCHANGED << clock, script >>
          /\ halted' # "REDUCER_EXCEPTION"
      BY <1>2, SessionFitsNow DEF UnboundTicker, Reduce, Halt, SyncInductive
    <2> QED BY <2>1, LeftKeeps
  <1>3. CASE StaleEvidence
    <2>1. /\ session' = session /\ UNCHANGED << clock, script >>
          /\ halted' # "REDUCER_EXCEPTION"
      BY <1>3 DEF StaleEvidence, Reduce, Halt
    <2> QED BY <2>1, LeftKeeps
  <1>4. CASE UNCHANGED moment
    BY <1>4, LeftKeeps DEF moment, SyncInductive
  <1> QED BY <1>1, <1>2, <1>3, <1>4

\* Every step keeps the inductive invariant.
LEMMA SyncStep ==
    ASSUME SyncInductive, [SyncNext]_moment
    PROVE  SyncInductive' /\ Reduced(session, session')
  <1>1. CASE Tick \/ UnboundTicker \/ StaleEvidence \/ UNCHANGED moment
    BY <1>1, RestStep
  <1>2. ASSUME NEW now \in Observations, ProviderInput(now)
        PROVE  SyncInductive' /\ Reduced(session, session')
    <2>1. PICK i \in DOMAIN feed, at \in ReceiptTimes,
               defect \in Defects \cup {NoMismatch} :
              \/ TennisOrigin(Garbled(feed[i].event, defect), at, now)
              \/ TennisTransition(Garbled(feed[i].event, defect), at, now)
      BY <1>2 DEF ProviderInput
    <2>2. PICK e : e = Garbled(feed[i].event, defect)
      OBVIOUS
    <2>3. IsDelivery(e, at)
      BY <2>2, Delivered
    <2> QED BY <2>1, <2>2, <2>3, OriginStep, TransitionStep
  <1>3. ASSUME NEW now \in Observations, MarketInput(now)
        PROVE  SyncInductive' /\ Reduced(session, session')
    <2>1. PICK t \in Markets :
              \/ \E i \in DOMAIN venue[t], at \in ReceiptTimes :
                     BookTransition(t, venue[t][i].event, at, now)
              \/ ResnapshotRequired(t, now)
              \/ Clock(t, now)
      BY <1>3 DEF MarketInput
    <2>2. ASSUME NEW i \in DOMAIN venue[t], NEW at \in ReceiptTimes,
                 BookTransition(t, venue[t][i].event, at, now)
          PROVE  SyncInductive' /\ Reduced(session, session')
      <3>1. IsBookDelivery(venue[t][i].event, at)
        BY VenueDelivered
      <3> QED BY <2>2, <3>1, BookStep
    <2> QED BY <2>1, <2>2, ResnapshotStep, ClockStep
  <1> QED BY <1>1, <1>2, <1>3 DEF SyncNext

(* Whatever the provider and the venues publish and however the transports  *)
(* deliver it, in any number of observations, the constructors of           *)
(* synchronizer.py accept every session that the reducer builds: no input   *)
(* ends in a reducer exception (reducer.py), only in a refused input.       *)
THEOREM ReducerNeverRaises == SyncSpec => []NeverRaises
  <1>1. SyncInit => SyncInductive
    BY InitSync
  <1>2. SyncInductive /\ [SyncNext]_moment => SyncInductive'
    BY SyncStep
  <1>3. SyncInductive => NeverRaises
    BY DEF SyncInductive, NeverRaises
  <1> QED BY <1>1, <1>2, <1>3, PTL DEF SyncSpec

LEMMA SameEmitted ==
    ASSUME NEW s, s.decisions \in Nat
    PROVE  Emitted(s, s)
  <1>1. {t \in Markets : s.emission[t] # s.emission[t]} = {}
    OBVIOUS
  <1>2. Cardinality({}) = 0
    BY FS_EmptySet
  <1>3. s.decisions = s.decisions + 0
    OBVIOUS
  <1> QED BY <1>1, <1>2, <1>3 DEF Emitted

(* _evaluate emits a pair of identities at most once for a market: each     *)
(* snapshot it emits is ahead of the last one in the provider's identity or *)
(* in the book's and behind it in neither, and each is counted once.        *)
THEOREM NoPairTwice == SyncSpec => EmissionsAdvance
  <1>1. SyncInit => SyncInductive
    BY InitSync
  <1>2. SyncInductive /\ [SyncNext]_moment => SyncInductive'
    BY SyncStep
  <1>3. ASSUME SyncInductive, [SyncNext]_moment
        PROVE  Emitted(session, session')
    <2>1. Reduced(session, session')
      BY <1>3, SyncStep
    <2>2. CASE session' = session
      BY <1>3, <2>2, SameEmitted DEF SyncInductive, SessionOk
    <2>3. CASE \E y : Ingested(session, y) /\ Emitted(y, session')
      BY <2>3 DEF Ingested, Emitted
    <2> QED BY <2>1, <2>2, <2>3 DEF Reduced
  <1>4. SyncInductive /\ [SyncNext]_moment
          => [LET emitted == {t \in Markets :
                          session'.emission[t] # session.emission[t]}
              IN /\ \A t \in emitted :
                        Advances(session.emission[t], session'.emission[t])
                 /\ session'.decisions = session.decisions + Cardinality(emitted)]_moment
    BY <1>3 DEF Emitted
  <1> QED BY <1>1, <1>2, <1>4, PTL DEF SyncSpec, EmissionsAdvance

ExplainsOnceNow ==
    \A t \in Markets :
          LET old == session.consumed[t]
              new == session'.causal[t]
          IN /\ old # None /\ new # None
             /\ MovedLargely(t) \/ session.causal[t] = None
             => /\ AtMost(ProviderId(old.event), ProviderId(new.event))
                /\ old # new

\* A point explains once in a step that ingests and then evaluates.
LEMMA OnceNow ==
    ASSUME SyncInductive, [SyncNext]_moment, NEW t \in Markets,
           session.consumed[t] # None, session'.causal[t] # None,
           MovedLargely(t) \/ session.causal[t] = None
    PROVE  Later(session.consumed[t], session'.causal[t])
  <1>1. Reduced(session, session')
    BY SyncStep
  <1>2. PICK y : /\ \A m \in Markets : Once(session, y, m)
                 /\ session'.book = y.book /\ session'.causal = y.causal
    <2>1. CASE session' = session
      <3>1. Ingested(session, session)
        BY SameIngested DEF SyncInductive
      <3> QED BY <2>1, <3>1 DEF Ingested
    <2>2. CASE \E y : /\ Ingested(session, y)
                      /\ session'.book = y.book /\ session'.causal = y.causal
      BY <2>2 DEF Ingested
    <2> QED BY <1>1, <2>1, <2>2 DEF Reduced
  <1>3. Once(session, y, t) /\ y.causal[t] # None
    BY <1>2
  <1>4. CASE Later(session.consumed[t], y.causal[t])
    BY <1>2, <1>4
  <1>5. CASE y.causal[t] = session.causal[t] /\ ~Moved(session.book[t], y.book[t])
    <2>1. MovedLargely(t)
      BY <1>3, <1>5
    <2>2. Moved(session.book[t], session'.book[t])
      BY <2>1 DEF MovedLargely, Moved
    <2> QED BY <1>2, <1>5, <2>2
  <1> QED BY <1>3, <1>4, <1>5 DEF Once

(* A point explains one stretch of large moves of a market: what is         *)
(* explained next (_explain_pending, _new_pending) is explained by a later  *)
(* point.  PointsOrdered is why: the session's latest point is never        *)
(* behind any that a market consumed.                                       *)
THEOREM OnePointOnce == SyncSpec => PointExplainsOnce
  <1>1. SyncInit => SyncInductive
    BY InitSync
  <1>2. SyncInductive /\ [SyncNext]_moment => SyncInductive'
    BY SyncStep
  <1>3. SyncInductive /\ [SyncNext]_moment => [ExplainsOnceNow]_moment
    BY OnceNow DEF ExplainsOnceNow, Later
  <1> QED BY <1>1, <1>2, <1>3, PTL DEF SyncSpec, PointExplainsOnce, ExplainsOnceNow

-----------------------------------------------------------------------------
(* The tracker and the books are what was published. *)

\* The tracker k, and the book b of the market t, are what was published.
TrackerTrue(k) ==
    k # None => \E i \in DOMAIN feed :
                    /\ ProviderId(feed[i].event) = ProviderId(k)
                    /\ feed[i].score = k.score

BookTrue(t, b) ==
    b # None /\ b.trusted =>
        \E i \in DOMAIN venue[t] :
            /\ OfBook(venue[t][i])
            /\ BookId(venue[t][i].event) = BookId(b)
            /\ venue[t][i].bids = b.bids

\* What an input makes of the tracker and of the books.
LEMMA EvaluateLeaves ==
    ASSUME NEW y, Record(y), NEW markets, NEW now, NEW x, x = Evaluate(y, markets, now)
    PROVE  x.tennis = y.tennis /\ x.book = y.book
  BY DEF Record, Evaluate

LEMMA ExplainLeaves ==
    ASSUME NEW y, Record(y), NEW markets, NEW w, NEW x, x = ExplainPending(y, markets, w)
    PROVE  x.tennis = y.tennis /\ x.book = y.book
  BY DEF Record, ExplainPending

LEMMA OriginLeaves ==
    ASSUME NEW s, Record(s), NEW e, NEW at, NEW x, x = WithOrigin(s, e, at)
    PROVE  x.tennis = TrackerFrom(e, at) /\ x.book = s.book /\ Record(x)
  BY DEF Record, WithOrigin

LEMMA TennisLeaves ==
    ASSUME NEW s, Record(s), NEW r, NEW e, NEW at, NEW x, x = WithTennis(s, r, e, at)
    PROVE  x.tennis = r.state /\ x.book = s.book
  <1>1. CASE r.reason = "POINT_APPLIED"
    <2>1. PICK y : y = [s EXCEPT !.tennis = r.state, !.witness = Witness(e, at)]
      OBVIOUS
    <2>2. y.tennis = r.state /\ y.book = s.book /\ Record(y)
      BY <2>1 DEF Record
    <2>3. x = ExplainPending(y, Markets, Witness(e, at))
      BY <1>1, <2>1 DEF WithTennis, Record
    <2> QED BY <2>2, <2>3, ExplainLeaves
  <1>2. CASE r.reason # "POINT_APPLIED"
    <2>1. \/ x = [s EXCEPT !.tennis = r.state, !.witness = None, !.causal = NoBooks(None)]
          \/ x = [s EXCEPT !.tennis = r.state]
      BY <1>2 DEF WithTennis, Record
    <2> QED BY <2>1 DEF Record
  <1> QED BY <1>1, <1>2

LEMMA BookLeaves ==
    ASSUME NEW s, SessionOk(s), NEW t \in Markets, NEW r, NEW at,
           NEW x, x = WithBook(s, t, r, at)
    PROVE  x.tennis = s.tennis /\ x.book = [s.book EXCEPT ![t] = r.book]
  <1>1. PICK q : \/ Changes(s, t, x, r.book, q, s.causal[t])
                 \/ \E y : /\ Changes(s, t, y, r.book, q, s.causal[t])
                           /\ x = RecordMove(y, t, at)
    BY BookChanges
  <1>2. CASE Changes(s, t, x, r.book, q, s.causal[t])
    BY <1>2 DEF Changes
  <1>3. ASSUME NEW y, Changes(s, t, y, r.book, q, s.causal[t]), x = RecordMove(y, t, at)
        PROVE  x.tennis = s.tennis /\ x.book = [s.book EXCEPT ![t] = r.book]
    <2>1. y.tennis = s.tennis /\ y.book = [s.book EXCEPT ![t] = r.book] /\ Record(y)
      BY <1>3 DEF Changes
    <2>2. \E z : /\ z.tennis = y.tennis /\ z.book = y.book /\ Record(z)
                 /\ x = ExplainPending(z, {t}, y.witness)
      <3>1. PICK p, z : /\ z = [y EXCEPT !.pending[t] = p, !.causal[t] = None]
                        /\ x = ExplainPending(z, {t}, y.witness)
        BY <1>3 DEF RecordMove
      <3>2. z.tennis = y.tennis /\ z.book = y.book /\ Record(z)
        BY <2>1, <3>1 DEF Record
      <3> QED BY <3>1, <3>2
    <2> QED BY <2>1, <2>2, ExplainLeaves
  <1> QED BY <1>1, <1>2, <1>3

\* What the transports deliver, against what was published.
LEMMA GarbledIs ==
    ASSUME NEW f, IsEvent(f), NEW defect, NEW e, e = Garbled(f, defect)
    PROVE  /\ e.kind = f.kind /\ e.epoch = f.epoch /\ e.revision = f.revision
           /\ e.winner = f.winner /\ e.retired = f.retired /\ e.server = f.server
           /\ e.score = f.score
  <1>1. CASE defect = NoMismatch
    BY <1>1 DEF Garbled
  <1>2. CASE defect = "INCOMPLETE"
    <2>1. e = [f EXCEPT !.complete = FALSE]
      BY <1>2 DEF Garbled, NoMismatch
    <2> QED BY <2>1 DEF IsEvent
  <1>3. CASE defect # NoMismatch /\ defect # "INCOMPLETE"
    <2>1. e = [f EXCEPT !.mismatch = defect]
      BY <1>3 DEF Garbled
    <2> QED BY <2>1 DEF IsEvent
  <1> QED BY <1>1, <1>2, <1>3

LEMMA LikeScored ==
    ASSUME NEW e, NEW f, e.kind = f.kind, e.winner = f.winner, e.retired = f.retired,
           e.server = f.server, NEW due
    PROVE  ScoreAfter(due, e) = ScoreAfter(due, f)
  <1>1. LifecycleScore(due, e) = LifecycleScore(due, f)
    BY DEF LifecycleScore
  <1>2. Confirms(due, e) <=> Confirms(due, f)
    BY DEF Confirms
  <1> QED BY <1>1, <1>2 DEF ScoreAfter

LEMMA FeedIs ==
    ASSUME script \in DOMAIN Scripts, NEW i \in DOMAIN feed
    PROVE  /\ IsEvent(feed[i].event)
           /\ \A j \in DOMAIN feed :
                  ProviderId(feed[j].event) = ProviderId(feed[i].event) => j = i
           /\ feed[i].event.kind = "SNAPSHOT" => feed[i].event.score = feed[i].score
           /\ feed[i].event.kind # "SNAPSHOT" =>
                  \E j \in DOMAIN feed :
                      /\ feed[j].event.epoch = feed[i].event.epoch
                      /\ feed[j].event.revision + 1 = feed[i].event.revision
                      /\ feed[i].score = ScoreAfter(feed[j].score, feed[i].event)
  <1>1. ProviderFeed(feed)
    BY ScriptsAssumption DEF feed
  <1> QED BY <1>1 DEF ProviderFeed

\* A true tracker stays true, and a true book too.
LEMMA MovesTrue ==
    ASSUME script \in DOMAIN Scripts, NEW i \in DOMAIN feed, NEW defect,
           NEW e, e = Garbled(feed[i].event, defect), NEW at, NEW k, IsTennis(k),
           TrackerTrue(k), NEW x, NEW reason, Moves(k, e, at, x, reason)
    PROVE  TrackerTrue(x)
  <1>1. PICK f : f = feed[i].event
    OBVIOUS
  <1>2. IsEvent(f)
    BY <1>1, FeedIs
  <1>3. /\ e.kind = f.kind /\ e.epoch = f.epoch /\ e.revision = f.revision
        /\ e.winner = f.winner /\ e.retired = f.retired /\ e.server = f.server
        /\ e.score = f.score
    BY <1>1, <1>2, GarbledIs
  <1>4. k # None
    BY Present
  <1>5. CASE Stays(k, x, reason)
    BY <1>4, <1>5 DEF Stays, TrackerTrue, ProviderId
  <1>6. CASE /\ Steps(k, e, at, x) /\ e.kind # "SNAPSHOT"
             /\ x.score = ScoreAfter(k.score, e)
    <2>1. PICK m \in DOMAIN feed : /\ ProviderId(feed[m].event) = ProviderId(k)
                                   /\ feed[m].score = k.score
      BY <1>4 DEF TrackerTrue
    <2>2. PICK j \in DOMAIN feed : /\ feed[j].event.epoch = f.epoch
                                   /\ feed[j].event.revision + 1 = f.revision
                                   /\ feed[i].score = ScoreAfter(feed[j].score, f)
      BY <1>1, <1>3, <1>6, FeedIs
    <2>3. /\ feed[m].event.epoch = k.epoch /\ feed[m].event.revision = k.revision
      BY <2>1 DEF ProviderId
    <2>4. /\ x.epoch = k.epoch /\ f.epoch = k.epoch /\ x.revision = f.revision
          /\ f.revision = k.revision + 1
      BY <1>3, <1>6 DEF Steps
    <2>5. feed[j].event.revision \in Nat /\ k.revision \in Nat
      BY <2>2, FeedIs DEF IsEvent, IsTennis
    <2>6. feed[j].event.revision = k.revision
      BY <2>2, <2>4, <2>5
    <2>7. ProviderId(feed[j].event) = ProviderId(feed[m].event)
      BY <2>2, <2>3, <2>4, <2>6 DEF ProviderId
    <2>8. j = m
      BY <2>7, FeedIs
    <2>9. feed[i].score = x.score
      BY <1>3, <1>6, <2>1, <2>2, <2>8, LikeScored
    <2>10. ProviderId(feed[i].event) = ProviderId(x)
      BY <1>1, <2>4 DEF ProviderId
    <2> QED BY <2>9, <2>10 DEF TrackerTrue
  <1>7. CASE x = TrackerFrom(e, at) /\ e.kind = "SNAPSHOT"
    <2>1. x.score = f.score /\ x.epoch = f.epoch /\ x.revision = f.revision
      BY <1>3, <1>7 DEF TrackerFrom
    <2>2. feed[i].score = x.score
      BY <1>1, <1>3, <1>7, <2>1, FeedIs
    <2>3. ProviderId(feed[i].event) = ProviderId(x)
      BY <1>1, <2>1 DEF ProviderId
    <2> QED BY <2>2, <2>3 DEF TrackerTrue
  <1> QED BY <1>5, <1>6, <1>7 DEF Moves

\* What was published before a delta that led to these bids.
Precedes(m, e, bids) ==
    /\ OfBook(m) /\ m.event.epoch = e.epoch /\ m.event.sequence + 1 = e.sequence
    /\ bids = [m.bids EXCEPT ![e.side][e.price] = e.quantity]

LEMMA VenueIs ==
    ASSUME NEW h, VenueFeed(h), NEW i \in DOMAIN h, NEW e, e = h[i].event,
           NEW bids, bids = h[i].bids
    PROVE  /\ OfBook(h[i]) => e.sequence \in Nat
           /\ OfBook(h[i]) =>
                  \A j \in DOMAIN h :
                      OfBook(h[j]) /\ BookId(h[j].event) = BookId(e) => j = i
           /\ e.kind = "SNAPSHOT" => e.bids = bids
           /\ e.kind = "DELTA" =>
                  \E j \in DOMAIN h : Precedes(h[j], e, bids)
  BY DEF VenueFeed, Precedes

\* No two messages of a book have one identity.
LEMMA OneOfBook ==
    ASSUME NEW h, VenueFeed(h), NEW i \in DOMAIN h, NEW j \in DOMAIN h,
           OfBook(h[i]), OfBook(h[j]), BookId(h[i].event) = BookId(h[j].event)
    PROVE  i = j
  BY DEF VenueFeed

\* What precedes a delta that continues the book b has the identity of b.
LEMMA Preceding ==
    ASSUME NEW d, NEW e, NEW b, d.sequence \in Nat, b.sequence \in Nat,
           d.epoch = e.epoch, d.sequence + 1 = e.sequence,
           e.epoch = b.epoch, e.sequence = b.sequence + 1
    PROVE  BookId(d) = BookId(b)
  <1>1. d.sequence = b.sequence
    OBVIOUS
  <1> QED BY <1>1 DEF BookId

LEMMA BookMovedTrue ==
    ASSUME NEW t \in Markets, NEW h, h = venue[t], VenueFeed(h), NEW i \in DOMAIN h,
           NEW e, e = h[i].event, NEW at, NEW b, b = None \/ IsBook(b),
           BookTrue(t, b), NEW r, BookMoved(b, e, at, r)
    PROVE  BookTrue(t, r.book)
  <1>1. PICK y : y = r.book
    OBVIOUS
  <1>2. CASE b # None /\ Rests(b, y, r.kind)
    BY <1>1, <1>2 DEF Rests, BookTrue, BookId
  <1>3. CASE b # None /\ Extends(b, e, at, y, r.kind)
    <2>1. /\ y.epoch = b.epoch /\ e.epoch = b.epoch /\ y.sequence = e.sequence
          /\ e.sequence = b.sequence + 1 /\ b.trusted /\ e.kind = "DELTA"
          /\ b.sequence \in Nat
      BY <1>3 DEF Extends, IsBook
    <2>2. y.bids = [b.bids EXCEPT ![e.side][e.price] = e.quantity]
      BY <1>3 DEF Extends
    <2>3. PICK m \in DOMAIN h : /\ OfBook(h[m]) /\ BookId(h[m].event) = BookId(b)
                                /\ h[m].bids = b.bids
      BY <1>3, <2>1 DEF BookTrue
    <2>4. PICK bids : bids = h[i].bids
      OBVIOUS
    <2>5. PICK j \in DOMAIN h : Precedes(h[j], e, bids)
      BY <2>1, <2>4, VenueIs
    <2>6. OfBook(h[j]) /\ bids = [h[j].bids EXCEPT ![e.side][e.price] = e.quantity]
      BY <2>5 DEF Precedes
    <2>7. PICK d : d = h[j].event
      OBVIOUS
    <2>8. d.epoch = e.epoch /\ d.sequence + 1 = e.sequence
      BY <2>5, <2>7 DEF Precedes
    <2>9. d.sequence \in Nat
      <3>1. OfBook(h[j])
        BY <2>6
      <3> QED BY <2>7, <3>1, VenueIs
    <2>10. BookId(d) = BookId(b)
      <3>1. e.epoch = b.epoch /\ e.sequence = b.sequence + 1 /\ b.sequence \in Nat
        BY <2>1
      <3> QED BY <2>8, <2>9, <3>1, Preceding
    <2>11. j = m
      <3>1. /\ OfBook(h[j]) /\ OfBook(h[m])
            /\ BookId(h[j].event) = BookId(h[m].event)
        BY <2>3, <2>6, <2>7, <2>10
      <3> QED BY <3>1, OneOfBook
    <2>12. bids = y.bids
      BY <2>2, <2>3, <2>6, <2>11
    <2>13. OfBook(h[i])
      BY <2>1 DEF OfBook
    <2>14. BookId(h[i].event) = BookId(y)
      BY <2>1 DEF BookId
    <2> QED BY <1>1, <2>4, <2>12, <2>13, <2>14 DEF BookTrue
  <1>4. CASE Replaces(b, e, at, y, r.kind)
    <2>1. y.epoch = e.epoch /\ y.sequence = e.sequence /\ y.bids = e.bids
          /\ e.kind = "SNAPSHOT"
      BY <1>4 DEF Replaces, FromSnapshot
    <2>2. h[i].bids = y.bids /\ OfBook(h[i])
      BY <2>1, VenueIs DEF OfBook
    <2>3. BookId(h[i].event) = BookId(y)
      BY <2>1 DEF BookId
    <2> QED BY <1>1, <2>2, <2>3 DEF BookTrue
  <1> QED BY <1>1, <1>2, <1>3, <1>4 DEF BookMoved

\* The inductive form of TrackedIsTrue, of any session.
SessionTrue(s) ==
    /\ TrackerTrue(s.tennis)
    /\ \A t \in Markets : BookTrue(t, s.book[t])

LEMMA TrackedIs == TrackedIsTrue <=> SessionTrue(session)
  BY DEF TrackedIsTrue, SessionTrue, TrackerTrue, BookTrue

\* A step that keeps the tracker and the books keeps them true.
LEMMA StillTrue ==
    ASSUME SessionTrue(session), UNCHANGED script,
           session'.tennis = session.tennis, session'.book = session.book
    PROVE  SessionTrue(session)'
  <1>1. feed' = feed /\ venue' = venue
    BY DEF feed, venue
  <1> QED BY <1>1 DEF SessionTrue, TrackerTrue, BookTrue

LEMMA TrackerStep ==
    ASSUME SessionTrue(session), UNCHANGED script, TrackerTrue(session'.tennis),
           session'.book = session.book
    PROVE  SessionTrue(session)'
  <1>1. feed' = feed /\ venue' = venue
    BY DEF feed, venue
  <1> QED BY <1>1 DEF SessionTrue, TrackerTrue, BookTrue

LEMMA BooksStep ==
    ASSUME SessionTrue(session), UNCHANGED script, session'.tennis = session.tennis,
           \A t \in Markets : BookTrue(t, session'.book[t])
    PROVE  SessionTrue(session)'
  <1>1. feed' = feed /\ venue' = venue
    BY DEF feed, venue
  <1> QED BY <1>1 DEF SessionTrue, TrackerTrue, BookTrue

LEMMA OriginTrue ==
    ASSUME SyncInductive, SessionTrue(session), NEW i \in DOMAIN feed, NEW defect,
           NEW e, e = Garbled(feed[i].event, defect), NEW at, IsDelivery(e, at),
           NEW now, TennisOrigin(e, at, now)
    PROVE  SessionTrue(session)'
  <1>1. PICK y : y = WithOrigin(session, e, at)
    OBVIOUS
  <1>2. PICK x : x = Evaluate(y, Markets, now)
    OBVIOUS
  <1>3. Record(session)
    BY DEF SyncInductive, SessionOk
  <1>4. y.tennis = TrackerFrom(e, at) /\ y.book = session.book /\ Record(y)
    BY <1>1, <1>3, OriginLeaves
  <1>5. x.tennis = TrackerFrom(e, at) /\ x.book = session.book
    BY <1>2, <1>4, EvaluateLeaves
  <1>6. PICK m \in {session, y}, n \in {session, x} :
              Reduce(OriginValid(session, e), m, n)
    BY <1>1, <1>2 DEF TennisOrigin
  <1>7. /\ UNCHANGED script
        /\ session' = session \/ (OriginValid(session, e) /\ session' = x)
    BY <1>6 DEF Reduce, Halt
  <1>8. CASE session' = session
    BY <1>7, <1>8, StillTrue
  <1>9. CASE OriginValid(session, e) /\ session' = x
    <2>1. PICK f : f = feed[i].event
      OBVIOUS
    <2>2. script \in DOMAIN Scripts
      BY DEF SyncInductive
    <2>3. IsEvent(f) /\ (f.kind = "SNAPSHOT" => f.score = feed[i].score)
      BY <2>1, <2>2, FeedIs
    <2>4. /\ e.kind = f.kind /\ e.epoch = f.epoch /\ e.revision = f.revision
          /\ e.score = f.score
      BY <2>1, <2>3, GarbledIs
    <2>5. PICK k : k = TrackerFrom(e, at)
      OBVIOUS
    <2>6. k.score = f.score /\ k.epoch = f.epoch /\ k.revision = f.revision
      BY <2>4, <2>5 DEF TrackerFrom
    <2>7. f.kind = "SNAPSHOT"
      BY <1>9, <2>4 DEF OriginValid
    <2>8. feed[i].score = k.score /\ ProviderId(feed[i].event) = ProviderId(k)
      BY <2>1, <2>3, <2>6, <2>7 DEF ProviderId
    <2>9. TrackerTrue(k)
      BY <2>8 DEF TrackerTrue
    <2> QED BY <1>5, <1>7, <1>9, <2>5, <2>9, TrackerStep
  <1> QED BY <1>7, <1>8, <1>9

LEMMA TransitionTrue ==
    ASSUME SyncInductive, SessionTrue(session), NEW i \in DOMAIN feed, NEW defect,
           NEW e, e = Garbled(feed[i].event, defect), NEW at, IsDelivery(e, at),
           NEW now, TennisTransition(e, at, now)
    PROVE  SessionTrue(session)'
  <1>1. PICK r : r = TennisResult(session.tennis, e, at)
    OBVIOUS
  <1>2. PICK y : y = WithTennis(session, r, e, at)
    OBVIOUS
  <1>3. PICK x : x = Evaluate(y, Markets, now)
    OBVIOUS
  <1>4. session.tennis # None /\ Reduce(Reachable(r.state.score), y, x)
    BY <1>1, <1>2, <1>3 DEF TennisTransition
  <1>5. Record(y)
    BY <1>1, <1>2, <1>4, TennisIngested DEF SyncInductive, Ingested, SessionOk
  <1>6. y.tennis = r.state /\ y.book = session.book
    BY <1>2, TennisLeaves DEF SyncInductive, SessionOk
  <1>7. x.tennis = r.state /\ x.book = session.book
    BY <1>3, <1>5, <1>6, EvaluateLeaves
  <1>8. UNCHANGED script /\ session' \in {session, x}
    BY <1>4 DEF Reduce, Halt
  <1>9. IsTennis(session.tennis) /\ script \in DOMAIN Scripts /\ TrackerTrue(session.tennis)
    BY <1>4 DEF SyncInductive, SessionOk, SessionTrue
  <1>10. Moves(session.tennis, e, at, r.state, r.reason)
    BY <1>1, <1>9, TennisMoves
  <1>11. TrackerTrue(r.state)
    BY <1>9, <1>10, MovesTrue
  <1>12. CASE session' = session
    BY <1>8, <1>12, StillTrue
  <1>13. CASE session' = x
    BY <1>7, <1>8, <1>11, <1>13, TrackerStep
  <1> QED BY <1>8, <1>12, <1>13

LEMMA BookTransitionTrue ==
    ASSUME SyncInductive, SessionTrue(session), NEW t \in Markets,
           NEW i \in DOMAIN venue[t], NEW e, e = venue[t][i].event, NEW at,
           IsBookDelivery(e, at), NEW now, BookTransition(t, e, at, now)
    PROVE  SessionTrue(session)'
  <1>1. PICK r : r = BookResult(session.book[t], e, at)
    OBVIOUS
  <1>2. PICK y : y = WithBook(session, t, r, at)
    OBVIOUS
  <1>3. PICK x : x = Evaluate(y, {t}, now)
    OBVIOUS
  <1>4. Reduce(~r.error, y, x)
    BY <1>1, <1>2, <1>3 DEF BookTransition
  <1>5. /\ UNCHANGED script
        /\ session' = session \/ (~r.error /\ session' = x)
    BY <1>4 DEF Reduce, Halt
  <1>6. CASE session' = session
    BY <1>5, <1>6, StillTrue
  <1>7. CASE ~r.error /\ session' = x
    <2>1. Record(y)
      BY <1>1, <1>2, <1>7, BookIngested DEF SyncInductive, Ingested, SessionOk
    <2>0. SessionOk(session)
      BY DEF SyncInductive
    <2>2. y.tennis = session.tennis /\ y.book = [session.book EXCEPT ![t] = r.book]
      BY <1>2, <2>0, BookLeaves
    <2>3. x.tennis = session.tennis /\ x.book = [session.book EXCEPT ![t] = r.book]
      BY <1>3, <2>1, <2>2, EvaluateLeaves
    <2>4. /\ session.book[t] = None \/ IsBook(session.book[t])
          /\ Maps(session) /\ script \in DOMAIN Scripts
          /\ \A m \in Markets : BookTrue(m, session.book[m])
      BY DEF SyncInductive, SessionOk, MarketTyped, Typed, SessionTrue
    <2>5. BookMoved(session.book[t], e, at, r)
      BY <1>1, <1>7, <2>4, BookMoves
    <2>6. PICK h : h = venue[t]
      OBVIOUS
    <2>7. VenueFeed(h)
      BY <2>4, <2>6, ScriptsAssumption DEF venue
    <2>8. BookTrue(t, r.book)
      BY <2>4, <2>5, <2>6, <2>7, BookMovedTrue
    <2>9. \A m \in Markets : x.book[m] = IF m = t THEN r.book ELSE session.book[m]
      BY <2>3, <2>4 DEF Maps
    <2>10. \A m \in Markets : BookTrue(m, x.book[m])
      BY <2>4, <2>8, <2>9
    <2> QED BY <1>5, <1>7, <2>3, <2>10, BooksStep
  <1> QED BY <1>5, <1>6, <1>7

LEMMA ResnapshotTrue ==
    ASSUME SyncInductive, SessionTrue(session), NEW t \in Markets, NEW now,
           ResnapshotRequired(t, now)
    PROVE  SessionTrue(session)'
  <1>1. PICK y : y = [session EXCEPT !.book[t] = RequireResnapshot(@)]
    OBVIOUS
  <1>2. PICK x : x = Evaluate(y, {t}, now)
    OBVIOUS
  <1>3. Reduce(session.book[t] # None, y, x)
    BY <1>1, <1>2 DEF ResnapshotRequired
  <1>4. /\ UNCHANGED script
        /\ session' = session \/ (session.book[t] # None /\ session' = x)
    BY <1>3 DEF Reduce, Halt
  <1>5. CASE session' = session
    BY <1>4, <1>5, StillTrue
  <1>6. CASE session.book[t] # None /\ session' = x
    <2>1. PICK b : b = GappedCopy(session.book[t])
      OBVIOUS
    <2>2. Changes(session, t, y, b, session.pending[t], session.causal[t])
      BY <1>1, <2>1, GapChanges DEF SyncInductive
    <2>3. Record(y) /\ y.tennis = session.tennis /\ y.book = [session.book EXCEPT ![t] = b]
      BY <2>2 DEF Changes
    <2>4. x.tennis = session.tennis /\ x.book = [session.book EXCEPT ![t] = b]
      BY <1>2, <2>3, EvaluateLeaves
    <2>5. /\ session.book[t] = None \/ IsBook(session.book[t])
          /\ Maps(session)
          /\ \A m \in Markets : BookTrue(m, session.book[m])
      BY DEF SyncInductive, SessionOk, MarketTyped, Typed, SessionTrue
    <2>6. Rests(session.book[t], b, "none")
      BY <1>6, <2>1, <2>5, GapRests DEF Large
    <2>7. BookTrue(t, b)
      BY <1>6, <2>5, <2>6 DEF Rests, BookTrue, BookId
    <2>8. \A m \in Markets : x.book[m] = IF m = t THEN b ELSE session.book[m]
      BY <2>4, <2>5 DEF Maps
    <2>9. \A m \in Markets : BookTrue(m, x.book[m])
      BY <2>5, <2>7, <2>8
    <2> QED BY <1>4, <1>6, <2>4, <2>9, BooksStep
  <1> QED BY <1>4, <1>5, <1>6

LEMMA ClockTrue ==
    ASSUME SyncInductive, SessionTrue(session), NEW t \in Markets, NEW now, Clock(t, now)
    PROVE  SessionTrue(session)'
  <1>1. PICK x : x = Evaluate(session, {t}, now)
    OBVIOUS
  <1>2. UNCHANGED script /\ session' \in {session, x}
    BY <1>1 DEF Clock, Reduce, Halt
  <1>3. x.tennis = session.tennis /\ x.book = session.book
    BY <1>1, EvaluateLeaves DEF SyncInductive, SessionOk
  <1> QED BY <1>2, <1>3, StillTrue

LEMMA RestTrue ==
    ASSUME SessionTrue(session),
           Tick \/ UnboundTicker \/ StaleEvidence \/ UNCHANGED moment
    PROVE  SessionTrue(session)'
  <1>1. session' = session /\ UNCHANGED script
    BY DEF Tick, UnboundTicker, StaleEvidence, moment, Reduce, Halt
  <1> QED BY <1>1, StillTrue

\* Every step keeps the tracker and the books true.
LEMMA TrueStep ==
    ASSUME SyncInductive, SessionTrue(session), [SyncNext]_moment
    PROVE  SessionTrue(session)'
  <1>1. CASE Tick \/ UnboundTicker \/ StaleEvidence \/ UNCHANGED moment
    BY <1>1, RestTrue
  <1>2. ASSUME NEW now \in Observations, ProviderInput(now)
        PROVE  SessionTrue(session)'
    <2>1. PICK i \in DOMAIN feed, at \in ReceiptTimes,
               defect \in Defects \cup {NoMismatch} :
              \/ TennisOrigin(Garbled(feed[i].event, defect), at, now)
              \/ TennisTransition(Garbled(feed[i].event, defect), at, now)
      BY <1>2 DEF ProviderInput
    <2>2. PICK e : e = Garbled(feed[i].event, defect)
      OBVIOUS
    <2>3. IsDelivery(e, at)
      BY <2>2, Delivered
    <2>4. CASE TennisOrigin(e, at, now)
      BY <2>2, <2>3, <2>4, OriginTrue
    <2>5. CASE TennisTransition(e, at, now)
      BY <2>2, <2>3, <2>5, TransitionTrue
    <2> QED BY <2>1, <2>2, <2>4, <2>5
  <1>3. ASSUME NEW now \in Observations, MarketInput(now)
        PROVE  SessionTrue(session)'
    <2>1. PICK t \in Markets :
              \/ \E i \in DOMAIN venue[t], at \in ReceiptTimes :
                     BookTransition(t, venue[t][i].event, at, now)
              \/ ResnapshotRequired(t, now)
              \/ Clock(t, now)
      BY <1>3 DEF MarketInput
    <2>2. ASSUME NEW i \in DOMAIN venue[t], NEW at \in ReceiptTimes,
                 BookTransition(t, venue[t][i].event, at, now)
          PROVE  SessionTrue(session)'
      <3>1. IsBookDelivery(venue[t][i].event, at)
        BY VenueDelivered
      <3> QED BY <2>2, <3>1, BookTransitionTrue
    <2> QED BY <2>1, <2>2, ResnapshotTrue, ClockTrue
  <1> QED BY <1>1, <1>2, <1>3 DEF SyncNext

(* The tracker of the session (tennis.py) and the trusted books of its      *)
(* markets (market_book.py) only show what was published under the          *)
(* identities they name, whatever the transports lost, repeated, reordered  *)
(* or garbled on the way.                                                   *)
THEOREM TrackedStaysTrue == SyncSpec => []TrackedIsTrue
  <1>1. SyncInit => SyncInductive /\ SessionTrue(session)
    BY InitSync DEF SyncInit, InitialSession, NoBooks, SessionTrue, TrackerTrue, BookTrue
  <1>2. SyncInductive /\ SessionTrue(session) /\ [SyncNext]_moment
          => SyncInductive' /\ SessionTrue(session)'
    BY SyncStep, TrueStep
  <1>3. SessionTrue(session) => TrackedIsTrue
    BY TrackedIs
  <1> QED BY <1>1, <1>2, <1>3, PTL DEF SyncSpec
=============================================================================
