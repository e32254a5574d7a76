--------------------------- MODULE MCEventStream ---------------------------
(* Small instances of EventStream for TLC.                                 *)
EXTENDS EventStream

CONSTANTS a, b, c, d, e

(* One request for all news; a filing request for each ticker.             *)
TwoFeeds == [k \in Kinds |-> IF k = "news" THEN <<{a, b}>> ELSE <<{c}, {d, e}>>]

(* Article a is about two tickers.                                         *)
TwoTickers == [i \in {a, b, c, d, e} |-> IF i = a THEN 2 ELSE 1]

(* llm_batch_size for news, one filing at a time.                          *)
Batches == [k \in Kinds |-> IF k = "news" THEN 2 ELSE 1]
=============================================================================
