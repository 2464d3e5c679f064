----------------------------- MODULE TennisMatch -----------------------------
(***************************************************************************)
(* One match played to its end under the scoring rules of TennisScore:     *)
(* what a tracker holds when the provider's feed reaches it complete and   *)
(* in order.  How the tracker treats a feed that does not is Synchronizer. *)
(***************************************************************************)
EXTENDS TennisScore

CONSTANT MaxTiebreak   \* bound: points of one side in a tiebreak

ASSUME MatchAssumption == MaxTiebreak \in Nat /\ MaxTiebreak > TiebreakPoints

VARIABLES
    score,   \* the score of the tracker
    opener   \* who served first in the match, or Nobody

match == <<score, opener>>

Scheduled == [status |-> "SCHEDULED", termination |-> "NONE",
              winner |-> Nobody, retired |-> Nobody, sets |-> <<>>,
              games |-> Zero, points |-> Zero, in_tiebreak |-> FALSE,
              tiebreak |-> Zero, tiebreak_first_server |-> Nobody,
              server |-> Nobody]

MatchInit == score = Scheduled /\ opener = Nobody

Event(kind, winner, retired, server) ==
    [kind |-> kind, winner |-> winner, retired |-> retired, server |-> server]

Lifecycle(e) ==
    /\ LifecycleAllowed(score, e)
    /\ score' = LifecycleScore(score, e)

Start(server) ==
    /\ Lifecycle(Event("START", Nobody, Nobody, server))
    /\ opener' = server

Suspend ==
    Lifecycle(Event("SUSPEND", Nobody, Nobody, score.server))
    /\ UNCHANGED opener

Resume ==
    Lifecycle(Event("RESUME", Nobody, Nobody, score.server))
    /\ UNCHANGED opener

WalkOver(winner) ==
    Lifecycle(Event("WALKOVER", winner, Nobody, Nobody)) /\ UNCHANGED opener

Retire(side) ==
    Lifecycle(Event("RETIREMENT", Opposite(side), side, Nobody))
    /\ UNCHANGED opener

Cancel ==
    Lifecycle(Event("CANCEL", Nobody, Nobody, Nobody)) /\ UNCHANGED opener

Point(winner) ==
    /\ score.status = "LIVE"
    /\ \A x \in Side : score.tiebreak[x] < MaxTiebreak
    /\ score' = AdvanceScore(score, winner)
    /\ UNCHANGED opener

MatchNext ==
    \/ \E side \in Side : Start(side) \/ WalkOver(side) \/ Retire(side)
                          \/ Point(side)
    \/ Suspend \/ Resume \/ Cancel

MatchSpec == MatchInit /\ [][MatchNext]_match

-----------------------------------------------------------------------------
(* _validate_score of the contracts: advantage only against forty, and no  *)
(* game points beside tiebreak points.                                     *)
PointsValid ==
    /\ \A x \in Side : score.points[x] = Advantage
                          => score.points[Opposite(x)] = Forty
    /\ score.in_tiebreak => score.points = Zero
    /\ ~score.in_tiebreak => /\ score.tiebreak = Zero
                             /\ score.tiebreak_first_server = Nobody

(* The rules that advance a score and the predicate that validates it are  *)
(* written independently of each other; a score they disagree on would     *)
(* stop the expert in the middle of a match.  Every score that play can    *)
(* reach validates, and a match is over by play exactly when one side has  *)
(* won the sets the format requires.                                       *)
EveryScoreValidates ==
    /\ Reachable(score) /\ PointsValid
    /\ score.termination = "NATURAL"
         <=> \E x \in Side : SetsWonBy(score.sets, x) = SetsRequired

(* Who serves next follows from who opened the match: the sides serve      *)
(* alternate games, a tiebreak counting as one game served first by the    *)
(* side whose turn it is, and within a tiebreak they change after the      *)
(* first point and then after every two.  The code only ever looks at the  *)
(* current server, across games, sets and tiebreaks.                       *)
GamesOf(set) == set.games["home"] + set.games["away"]

(* Every game played: the number of its set, and of the game in the set. *)
GamesPlayed ==
    LET sets == Append(score.sets, score)
    IN  UNION {{i} \X (1 .. GamesOf(sets[i])) : i \in DOMAIN sets}

ServeOrder ==
    score.server # Nobody =>
        LET played == score.tiebreak["home"] + score.tiebreak["away"]
            changes == (played + 1) \div 2
        IN score.server = IF (Cardinality(GamesPlayed) + changes) % 2 = 0
                          THEN opener ELSE Opposite(opener)
=============================================================================
