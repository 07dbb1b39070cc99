----------------------------- MODULE MCPaperRuns ------------------------------
(* Small instance of PaperRuns: prices in mills, lots of two shares, a 1% fee. *)
EXTENDS PaperRuns

CONSTANTS m1, m2, e1

\* The operator buys the NO side of one market.
MCSeeds == {<<m1, 1>>}
OneEvent == [m \in Markets |-> e1]

Top(bid, size, ask) == [bid |-> bid, size |-> size, ask |-> ask]
\* A resting exit asks one unit below the ask, which is where the next book bids,
\* so a limit that waits is filled at a price another book also shows.
MCCollapsed == {Top(200, 1, 601)}
MCBooks == MCCollapsed \cup {NoBook, Top(600, 1, 995), Top(994, 9, 996)}

Eval(probYes, saturatedAt, contaminated) ==
    [probYes |-> probYes, saturatedAt |-> saturatedAt, contaminated |-> contaminated]
MCEvaluations == {Eval(500, "none", FALSE), Eval(500, "none", TRUE),
                  Eval(990, "ceil", FALSE), Eval(10, "floor", FALSE)}
=============================================================================
