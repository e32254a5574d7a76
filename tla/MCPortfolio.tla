---------------------------- MODULE MCPortfolio ----------------------------
(* A small instance of Portfolio for TLC, with an equity of 1000.  A stop  *)
(* at 10 buys one share and a stop at 20 none.  One share of the ETF at    *)
(* 100 is half of a ticker's 20%, one of a stock at 140 what mean          *)
(* reversion's sleeve of 15% allows, and three of those in one sector are  *)
(* more than its 40%.  A stop at 80 without a quote makes an entry of 84,  *)
(* at which two shares are within the ticker's 20%: at their price they    *)
(* are 28%.                                                                *)
EXTENDS Portfolio, TLC

CONSTANTS spy, aapl, msft, googl

TwoSectors == [t \in Tickers |-> IF t = spy THEN "etf" ELSE "tech"]
ListPrice == [t \in Tickers |-> IF t = spy THEN 100 ELSE 140]
DefaultAllocation == [trend |-> 50, discretionary |-> 30, mean_reversion |-> 15]

Symmetric == Permutations(Stocks)
=============================================================================
