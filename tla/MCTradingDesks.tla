-------------------------- MODULE MCTradingDesks --------------------------
EXTENDS TradingDesks

Draw(steps, sides) == [step : steps, side : sides]

Undrawn == {[step |-> 0, side |-> 0]}

Carry == [kind |-> "carry", maxPosition |-> 2, lot |-> 2, minOrderSize |-> 1, maxTicks |-> 1,
          views |-> {NoView, Rich, Cheap, Closed}, sizes |-> {NoQuote, 0, 1}, draws |-> Undrawn]

Funding == [kind |-> "funding", maxPosition |-> 2, lot |-> 1, minOrderSize |-> 1,
            terminal |-> 6, maxTicks |-> 6, views |-> {NoView, Rich, Cheap},
            sizes |-> {NoQuote, 0, 1}, draws |-> Undrawn]

Term == [kind |-> "term", maxPosition |-> 2, lot |-> 2, minOrderSize |-> 1, unwindMin |-> 2,
         term |-> 2, mandateEnd |-> 7, passiveExit |-> TRUE, slice |-> 2, deadline |-> 6,
         maxTicks |-> 7, views |-> {NoView, Rich}, sizes |-> {NoQuote, 0, 1}, draws |-> Undrawn]

Dated == [kind |-> "dated", maxPosition |-> 2, lot |-> 2, minOrderSize |-> 1,
          minTimeToExpiry |-> 1, terminal |-> 0, exitAfter |-> 2, slice |-> 1,
          expiry |-> [c1 |-> 3, c2 |-> 5], maxTicks |-> 8, views |-> {NoView, Rich},
          sizes |-> {NoQuote, 0, 1}, draws |-> Undrawn]

Hedger == [kind |-> "hedger", mode |-> "walk", exposure |-> 0, step |-> 1, maxAbs |-> 2,
           interval |-> 1, maxRequest |-> 2, terminal |-> 0, maxTicks |-> 3,
           views |-> {NoView}, sizes |-> {NoQuote, 0, 1}, draws |-> Draw({1, -1}, {0})]

Metaorder == [kind |-> "metaorder", rest |-> 1, participation |-> 2, minChild |-> 1,
              minOrderSize |-> 1, slippage |-> FALSE, maxDuration |-> 3, maxTicks |-> 6,
              views |-> {NoView}, sizes |-> {NoQuote, 0, 1}, draws |-> [side : {Buy}, qty : {2}]]

Mandate == [kind |-> "mandate", parent |-> 3, child |-> 2, side |-> Buy, terminal |-> 7,
            start |-> [c1 |-> 1, c2 |-> 2], end |-> [c1 |-> 3, c2 |-> 5],
            expiry |-> [c1 |-> 4, c2 |-> 6], maxTicks |-> 7, views |-> {NoView},
            sizes |-> {NoQuote, 0, 1}, draws |-> Undrawn]

Parent == [kind |-> "parent", target |-> 3, slices |-> 2, sliceInterval |-> 1, side |-> Buy,
           decisionAfter |-> 2, tif |-> "gtc", maxTicks |-> 5, views |-> {NoView},
           sizes |-> {NoQuote, 0, 1}, draws |-> Undrawn]

Router == [kind |-> "router", lot |-> 2, maxAttempts |-> 2, maxTicks |-> 1,
           views |-> {NoView, Rich, Cheap}, sizes |-> {NoQuote, 1, 2}, draws |-> Undrawn]

MCMetaorder == {Metaorder}

MCDesks == {Carry, Funding, Term, Dated,
            Hedger, [Hedger EXCEPT !.mode = "fixedLiability", !.exposure = 2],
            [Hedger EXCEPT !.mode = "fixedDirectional", !.exposure = 2],
            [Hedger EXCEPT !.mode = "obligation"],
            [Hedger EXCEPT !.mode = "randomSide", !.terminal = 5, !.maxTicks = 5,
                           !.draws = Draw({1, -1}, {Buy, Sell})],
            Metaorder, Mandate, Parent, [Parent EXCEPT !.tif = "ioc"], Router}
===========================================================================
