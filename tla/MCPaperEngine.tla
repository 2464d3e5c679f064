--------------------------- MODULE MCPaperEngine ---------------------------
(* TLC instance of PaperEngine: one market with a moving price, and two    *)
(* markets with a falling one, of one event or of their own.               *)
EXTENDS PaperEngine, TLC

CONSTANTS t1, t2

Book(bid, bidQty, askQty) ==
    [bid |-> bid, bidQty |-> bidQty, ask |-> bid + 1, askQty |-> askQty]

(* A fall past the stop, a rise past the take-profit and a giveback; thin  *)
(* and full depth.                                                         *)
MovingBooks == {Book(2, 2, 2), Book(4, 2, 2), Book(7, 1, 1), Book(6, 2, 2)}
SteeperBooks == {Book(2, 2, 2), Book(7, 1, 1), Book(6, 2, 2)}
FallingBooks == {Book(4, 1, 1), Book(2, 1, 1)}

OneEvent == [t \in Tickers |-> 1]
OwnEvents == [t \in Tickers |-> t]

OneMarket(t, books, until) ==
    [markets |-> {t}, event |-> OwnEvents, books |-> books,
     max_open |-> 1, max_loss |-> 6, contracts |-> 2,
     stale_data |-> 2, max_errors |-> 2, until |-> until, starts |-> 2]
TwoMarkets(event, max_open) ==
    [markets |-> Tickers, event |-> event, books |-> FallingBooks,
     max_open |-> max_open, max_loss |-> 3, contracts |-> 1,
     stale_data |-> 1, max_errors |-> 1, until |-> 4, starts |-> 1]

Configurations ==
    {OneMarket(t, MovingBooks, 4) : t \in Tickers}
        \cup {OneMarket(t, SteeperBooks, 5) : t \in Tickers}
        \cup {TwoMarkets(OneEvent, 2), TwoMarkets(OwnEvents, 2), TwoMarkets(OwnEvents, 1)}

(* The configurations, and the actions, treat the markets alike. *)
Symmetric == Permutations(Tickers)

=============================================================================
