----------------------------- MODULE TennisScore -----------------------------
(***************************************************************************)
(* The tennis score of one match and the tracker that follows a provider's *)
(* feed of it (inci_tennis_expert/tennis_score.py): the scoring rules, the *)
(* independent predicate that every state is validated with, and what a    *)
(* point, a lifecycle event or a correction snapshot does to the tracker.  *)
(*                                                                         *)
(* A score is what the contracts call the status, termination, sets,       *)
(* games, points and server of a match.  Points of a game are 0..4: love,  *)
(* 15, 30, 40, advantage.  A tracker is a score with the identity of the   *)
(* last accepted event and, once an event could not be applied, the reason *)
(* that blocks every further event until a correction.  Identities of      *)
(* players, sources and formats are folded into the event's `mismatch`:    *)
(* the first of them that differs from the tracker's, or NoMismatch.       *)
(***************************************************************************)
EXTENDS Naturals, Sequences, FiniteSets, SequencesExt

CONSTANTS SetGames,        \* games that win a set: 6
          TiebreakPoints,  \* points that win a tiebreak: 7
          SetsRequired     \* _sets_required(match_format): 2 or 3

ASSUME ScoreAssumption ==
    /\ SetGames \in Nat \ {0, 1}
    /\ TiebreakPoints \in Nat \ {0, 1}
    /\ SetsRequired \in Nat \ {0}

Side == {"home", "away"}
Nobody == "nobody"
NoMismatch == "none"
Advantage == 4
Forty == 3

Opposite(side) == IF side = "home" THEN "away" ELSE "home"

Zero == [x \in Side |-> 0]

LeadsByTwo(count, target) ==
    \E x \in Side : count[x] >= target /\ count[x] >= count[Opposite(x)] + 2

\* Mutant: the set is won at the target, without the lead of two games.
MutSetWonWithoutLead(games) == \E x \in Side : games[x] >= SetGames

TiebreakWon(points) == LeadsByTwo(points, TiebreakPoints)
NormalSetWon(games) == LeadsByTwo(games, SetGames)

\* Mutant: the servers of a tiebreak change after every point.
MutServersChangeEveryPoint(first, completed) ==
    IF completed % 2 = 0 THEN first ELSE Opposite(first)

TiebreakServer(first, completed) ==
    IF completed = 0 \/ ((completed - 1) \div 2) % 2 # 0
    THEN first ELSE Opposite(first)

-----------------------------------------------------------------------------
(* Completed sets: games, and the points of the tiebreak if one was played. *)

NoTiebreak == [played |-> FALSE]

SetScore(games, tiebreak) == [games |-> games, tiebreak |-> tiebreak]

\* The side that a well-formed completed set was won by, or Nobody.
CompletedSetWinner(set) ==
    LET Won(x) ==
            LET own == set.games[x]
                other == set.games[Opposite(x)]
            IN IF set.tiebreak = NoTiebreak
               THEN \/ own = SetGames /\ other + 2 <= SetGames
                    \/ own = SetGames + 1 /\ other + 1 = SetGames
               ELSE /\ own = SetGames + 1 /\ other = SetGames
                    /\ set.tiebreak[x] >= TiebreakPoints
                    /\ set.tiebreak[x] >= set.tiebreak[Opposite(x)] + 2
    IN IF \E x \in Side : Won(x) THEN CHOOSE x \in Side : Won(x) ELSE Nobody

SetsWonBy(sets, side) ==
    Cardinality({i \in DOMAIN sets : CompletedSetWinner(sets[i]) = side})

\* _completed_prefix: every set is well formed and nothing follows the set
\* that decides the match.
PrefixValid(sets) ==
    /\ \A i \in DOMAIN sets : CompletedSetWinner(sets[i]) # Nobody
    /\ \A x \in Side :
           SetsWonBy(SubSeq(sets, 1, Len(sets) - 1), x) < SetsRequired

ClinchingSide(sets) ==
    IF \E x \in Side : SetsWonBy(sets, x) >= SetsRequired
    THEN CHOOSE x \in Side : SetsWonBy(sets, x) >= SetsRequired
    ELSE Nobody

-----------------------------------------------------------------------------
(* The predicate every state and snapshot is validated with. *)

SetIsZero(s) ==
    /\ s.games = Zero /\ s.points = Zero
    /\ ~s.in_tiebreak /\ s.tiebreak = Zero /\ s.tiebreak_first_server = Nobody

ScoreIsZero(s) == s.sets = <<>> /\ SetIsZero(s)

IncompleteScoreIsReachable(s, active) ==
    /\ PrefixValid(s.sets) /\ ClinchingSide(s.sets) = Nobody
    /\ IF s.in_tiebreak
       THEN /\ s.games = [x \in Side |-> SetGames] /\ s.points = Zero
            /\ s.tiebreak_first_server # Nobody
            /\ ~TiebreakWon(s.tiebreak)
            /\ active => s.server = TiebreakServer(s.tiebreak_first_server,
                                    s.tiebreak["home"] + s.tiebreak["away"])
       ELSE /\ \A x \in Side : s.games[x] <= SetGames
            /\ s.games # [x \in Side |-> SetGames]
            /\ ~NormalSetWon(s.games)
    /\ active <=> s.server # Nobody

NothingDecided(s) ==
    s.termination = "NONE" /\ s.winner = Nobody /\ s.retired = Nobody

Reachable(s) ==
    \/ /\ s.status = "SCHEDULED" /\ NothingDecided(s)
       /\ s.server = Nobody /\ ScoreIsZero(s)
    \/ /\ s.status \in {"LIVE", "SUSPENDED"} /\ NothingDecided(s)
       /\ IncompleteScoreIsReachable(s, TRUE)
    \/ /\ s.status = "CANCELLED" /\ s.termination = "CANCELLATION"
       /\ s.winner = Nobody /\ s.retired = Nobody
       /\ IncompleteScoreIsReachable(s, FALSE)
    \/ /\ s.status = "ENDED" /\ s.winner # Nobody /\ s.server = Nobody
       /\ \/ /\ s.termination = "WALKOVER" /\ s.retired = Nobody
             /\ ScoreIsZero(s)
          \/ /\ s.termination = "RETIREMENT"
             /\ s.retired = Opposite(s.winner)
             /\ IncompleteScoreIsReachable(s, FALSE)
          \/ /\ s.termination = "NATURAL" /\ s.retired = Nobody
             /\ PrefixValid(s.sets) /\ s.winner = ClinchingSide(s.sets)
             /\ SetIsZero(s)

-----------------------------------------------------------------------------
(* What a point and a lifecycle event do to the score. *)

\* _set_wins counts by games, without asking whether the set is well formed.
SetsLedBy(sets, side) ==
    Cardinality({i \in DOMAIN sets :
                    sets[i].games[side] > sets[i].games[Opposite(side)]})

\* _completed_set_changes: the set just won is recorded, the next one starts.
CompleteSet(s, set, next_server) ==
    LET sets == Append(s.sets, set)
        winner == IF \E x \in Side : SetsLedBy(sets, x) = SetsRequired
                  THEN CHOOSE x \in Side : SetsLedBy(sets, x) = SetsRequired
                  ELSE Nobody
        over == winner # Nobody
    IN [status |-> IF over THEN "ENDED" ELSE "LIVE",
        termination |-> IF over THEN "NATURAL" ELSE "NONE",
        winner |-> winner, retired |-> Nobody, sets |-> sets,
        games |-> Zero, points |-> Zero, in_tiebreak |-> FALSE,
        tiebreak |-> Zero, tiebreak_first_server |-> Nobody,
        server |-> IF over THEN Nobody ELSE next_server]

AdvanceTiebreak(s, winner) ==
    LET points == [s.tiebreak EXCEPT ![winner] = @ + 1]
        games == [s.games EXCEPT ![winner] = SetGames + 1]
    IN IF TiebreakWon(points)
       THEN CompleteSet(s, SetScore(games, points),
                        Opposite(s.tiebreak_first_server))
       ELSE [s EXCEPT !.tiebreak = points,
                      !.server = TiebreakServer(s.tiebreak_first_server,
                                     points["home"] + points["away"])]

GameWon(points, winner) ==
    \/ points[winner] = Advantage
    \/ points[winner] = Forty /\ points[Opposite(winner)] < Forty

\* Within a game: from advantage back to deuce, or one step up.
NextPoints(points, winner) ==
    IF points[Opposite(winner)] = Advantage
    THEN [x \in Side |-> Forty]
    ELSE [points EXCEPT ![winner] = @ + 1]

AdvanceGame(s, winner) ==
    LET games == [s.games EXCEPT ![winner] = @ + 1]
        next_server == Opposite(s.server)
    IN IF NormalSetWon(games)
       THEN CompleteSet(s, SetScore(games, NoTiebreak), next_server)
       ELSE IF games = [x \in Side |-> SetGames]
       THEN [s EXCEPT !.games = games, !.points = Zero, !.in_tiebreak = TRUE,
                      !.tiebreak = Zero, !.server = next_server,
                      !.tiebreak_first_server = next_server]
       ELSE [s EXCEPT !.games = games, !.points = Zero,
                      !.server = next_server]

AdvanceScore(s, winner) ==
    IF s.in_tiebreak THEN AdvanceTiebreak(s, winner)
    ELSE IF GameWon(s.points, winner) THEN AdvanceGame(s, winner)
    ELSE [s EXCEPT !.points = NextPoints(@, winner)]

Over(s) == s.status \in {"ENDED", "CANCELLED"}

\* The natural end of a match may be confirmed once more by the provider.
Confirms(s, e) ==
    /\ s.status = "ENDED" /\ s.termination = "NATURAL"
    /\ e.kind = "NATURAL_END_CONFIRMATION"

LifecyclePayload(e, winner, retired, server) ==
    /\ winner <=> e.winner # Nobody
    /\ retired <=> e.retired # Nobody
    /\ server <=> e.server # Nobody
    /\ winner /\ retired => e.winner # e.retired

\* apply_lifecycle's table of transitions.
LifecycleAllowed(s, e) ==
    \/ /\ e.kind = "START" /\ s.status = "SCHEDULED"
       /\ LifecyclePayload(e, FALSE, FALSE, TRUE)
    \/ /\ e.kind = "SUSPEND" /\ s.status = "LIVE"
       /\ LifecyclePayload(e, FALSE, FALSE, TRUE)
    \/ /\ e.kind = "RESUME" /\ s.status = "SUSPENDED"
       /\ LifecyclePayload(e, FALSE, FALSE, TRUE)
    \/ /\ e.kind = "WALKOVER" /\ s.status = "SCHEDULED"
       /\ LifecyclePayload(e, TRUE, FALSE, FALSE)
    \/ /\ e.kind = "RETIREMENT" /\ s.status \in {"LIVE", "SUSPENDED"}
       /\ LifecyclePayload(e, TRUE, TRUE, FALSE)
    \/ /\ e.kind = "CANCEL" /\ ~Over(s)
       /\ LifecyclePayload(e, FALSE, FALSE, FALSE)

LifecycleScore(s, e) ==
    CASE e.kind = "START" -> [s EXCEPT !.status = "LIVE", !.server = e.server]
      [] e.kind = "SUSPEND" -> [s EXCEPT !.status = "SUSPENDED"]
      [] e.kind = "RESUME" -> [s EXCEPT !.status = "LIVE"]
      [] e.kind \in {"WALKOVER", "RETIREMENT"} ->
           [s EXCEPT !.status = "ENDED", !.termination = e.kind,
                     !.winner = e.winner, !.retired = e.retired,
                     !.server = Nobody]
      [] e.kind = "CANCEL" ->
           [s EXCEPT !.status = "CANCELLED", !.termination = "CANCELLATION",
                     !.winner = Nobody, !.retired = Nobody, !.server = Nobody]

-----------------------------------------------------------------------------
(* The tracker.  An event carries `kind`, `epoch`, `revision`, `mismatch`   *)
(* and its payload; its digest leaves out the time it was received at, so   *)
(* the digest of an event is the event itself.                              *)

NoBlock == "none"

TrackerFrom(snapshot, at) ==
    [score |-> snapshot.score, epoch |-> snapshot.epoch,
     revision |-> snapshot.revision, digest |-> snapshot, received |-> at,
     block |-> NoBlock, blocked_at |-> 0]

\* The result of a transition: next tracker, disposition and reason.
Outcome(tracker, disposition, reason) ==
    [state |-> tracker, disposition |-> disposition, reason |-> reason]

BlockState(t, reason, at) == [t EXCEPT !.block = reason, !.blocked_at = at]

Blocked(t, reason, at) == Outcome(BlockState(t, reason, at), "BLOCKED", reason)

\* The checks of _incremental_precheck in their order; "OK" when all pass.
PrecheckReason(t, e, at) ==
    IF t.block # NoBlock THEN "CORRECTION_REQUIRED"
    ELSE IF e.mismatch # NoMismatch THEN e.mismatch
    ELSE IF at < t.received THEN "RECEIVE_TIME_REGRESSION"
    ELSE IF e.epoch < t.epoch THEN "CORRECTION_EPOCH_STALE"
    ELSE IF e.epoch > t.epoch THEN "CORRECTION_EPOCH_AHEAD"
    ELSE IF e.revision = t.revision
         THEN IF e = t.digest THEN "EXACT_DUPLICATE"
              ELSE "PROVIDER_EVENT_CONFLICT"
    ELSE IF e.revision < t.revision THEN "PROVIDER_EVENT_STALE"
    ELSE IF e.revision > t.revision + 1 THEN "PROVIDER_EVENT_GAP"
    ELSE "OK"

Prechecked(t, e, at) ==
    LET reason == PrecheckReason(t, e, at)
    IN CASE reason = "CORRECTION_REQUIRED" -> Outcome(t, "BLOCKED", reason)
         [] reason = "EXACT_DUPLICATE" -> Outcome(t, "DUPLICATE", reason)
         [] OTHER -> Blocked(t, reason, at)

AppliedState(t, e, at, score) ==
    [t EXCEPT !.score = score, !.revision = e.revision, !.digest = e,
              !.received = at, !.block = NoBlock, !.blocked_at = 0]

ApplyPoint(t, e, at) ==
    IF PrecheckReason(t, e, at) # "OK" THEN Prechecked(t, e, at)
    ELSE IF Over(t.score) THEN Blocked(t, "TERMINAL_ABSORBING", at)
    ELSE IF t.score.status # "LIVE"
         THEN Blocked(t, "POINT_WHILE_NOT_LIVE", at)
    ELSE IF e.server # t.score.server THEN Blocked(t, "SERVER_MISMATCH", at)
    ELSE Outcome(AppliedState(t, e, at, AdvanceScore(t.score, e.winner)),
                 "APPLIED", "POINT_APPLIED")

ApplyLifecycle(t, e, at) ==
    IF PrecheckReason(t, e, at) # "OK" THEN Prechecked(t, e, at)
    ELSE IF Confirms(t.score, e)
         THEN IF /\ e.winner = t.score.winner
                 /\ e.retired = Nobody /\ e.server = Nobody
              THEN Outcome(AppliedState(t, e, at, t.score),
                           "APPLIED", "NATURAL_END_CONFIRMED")
              ELSE Blocked(t, "ILLEGAL_LIFECYCLE_TRANSITION", at)
    ELSE IF Over(t.score) THEN Blocked(t, "TERMINAL_ABSORBING", at)
    ELSE IF ~LifecycleAllowed(t.score, e)
         THEN Blocked(t, "ILLEGAL_LIFECYCLE_TRANSITION", at)
    ELSE IF e.kind \in {"SUSPEND", "RESUME"} /\ e.server # t.score.server
         THEN Blocked(t, "SERVER_MISMATCH", at)
    ELSE Outcome(AppliedState(t, e, at, LifecycleScore(t.score, e)),
                 "APPLIED", "LIFECYCLE_APPLIED")

\* A rejected correction blocks the tracker; a block already there stays.
CorrectionRejected(t, reason, at) ==
    Outcome(IF t.block # NoBlock THEN t ELSE BlockState(t, reason, at),
            "BLOCKED", reason)

ApplyCorrection(t, e, at) ==
    IF e.mismatch # NoMismatch THEN CorrectionRejected(t, e.mismatch, at)
    ELSE IF at < t.received \/ (t.block # NoBlock /\ at < t.blocked_at)
         THEN CorrectionRejected(t, "RECEIVE_TIME_REGRESSION", at)
    ELSE IF e = t.digest THEN Outcome(t, "DUPLICATE", "EXACT_DUPLICATE")
    ELSE IF e.epoch <= t.epoch
         THEN CorrectionRejected(t, "CORRECTION_EPOCH_NOT_NEWER", at)
    ELSE IF ~e.complete \/ ~Reachable(e.score)
         THEN CorrectionRejected(t, "CORRECTION_SNAPSHOT_INVALID", at)
    ELSE Outcome(TrackerFrom(e, at), "APPLIED", "CORRECTION_APPLIED")

=============================================================================
