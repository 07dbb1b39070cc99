------------------------------- MODULE MCTradeDesk ------------------------------
(* One token with a price whose fall is a stop loss, one cycle at a time.        *)
EXTENDS TradeDesk

CONSTANT a

Decision(action, t, usd) == [action |-> action, token |-> t, usd |-> usd]
MCEvents == [t \in {a} |-> "event"]
MCPx == {13, 15, 20}
MCPlans == {<<Decision("open", a, 600), Decision("open", a, 600), Decision("open", a, 200)>>,
            <<Decision("reduce", a, 250), Decision("close", a, 400)>>}
=============================================================================
