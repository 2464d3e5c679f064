--------------------------- MODULE MCSynchronizer ---------------------------
(***************************************************************************)
(* One market of a match, in ticks of a quarter of a dollar.  The provider *)
(* plays a point, takes it back in a correction and plays the next one for *)
(* the other side; or the match is suspended and resumed, and ends by      *)
(* retirement.  The market makes a large move, loses its other side, and   *)
(* reconnects; or it is suspended, reopened and closed.                    *)
(***************************************************************************)
EXTENDS Synchronizer
CONSTANT market

MCTickers == <<market>>
MCPrices == {1, 2, 3}

Bids(no) ==
    [side \in Outcomes |-> [p \in Prices |->
        IF p \in (IF side = "no" THEN no ELSE {1}) THEN 1 ELSE 0]]

Corrected ==
    PublishPoint(
      PublishCorrection(PublishPoint(Opening, "home"), OpeningScore),
      "away")

Interrupted ==
    LET server == [server |-> "home"]
    IN PublishLifecycle(
         PublishPoint(
           PublishLifecycle(
             PublishLifecycle(Opening, "SUSPEND", server), "RESUME", server),
           "home"),
         "RETIREMENT", [winner |-> "home", retired |-> "away"])

Moving ==
    VenueSnapshot(
      VenueDelta(
        VenueDelta(VenueSnapshot(<<>>, 0, "OPEN", Bids({1})), "no", 3, 1),
        "yes", 1, 0),
      1, "OPEN", Bids({1}))

Halting ==
    VenueSnapshot(
      VenueLifecycle(
        VenueLifecycle(
          VenueLifecycle(VenueSnapshot(<<>>, 0, "PREOPEN", Bids({1})), "OPEN"),
          "SUSPENDED"),
        "OPEN"),
      1, "CLOSED", Bids({1}))

MCScripts ==
    <<[feed |-> Corrected, venue |-> [t \in Markets |-> Moving],
       defects |-> {}],
      [feed |-> Interrupted, venue |-> [t \in Markets |-> Halting],
       defects |-> {"IDENTITY_MISMATCH", "INCOMPLETE"}]>>
=============================================================================
