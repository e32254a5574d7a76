----------------------------- MODULE WorkerLoop -----------------------------
(***************************************************************************)
(* The worker's event loop in seconds: the two consumers, fired every      *)
(* second, and the expiry job among them.  A consumer's XREADGROUP is a    *)
(* synchronous call: on an empty stream it stops the whole loop for up to  *)
(* 30 seconds.  The scheduler (APScheduler 3.10) fires the last due time   *)
(* of a job, one instance of it at a time, and a task that starts more     *)
(* than a second after its due time is dropped as a misfire.               *)
(*                                                                         *)
(* The kill switch is off throughout.  Code that does not wait for Redis   *)
(* takes no time.                                                          *)
(***************************************************************************)
EXTENDS Integers, Sequences, FiniteSets

CONSTANTS
  Interval,   \* job -> seconds between its runs; the consumers' is 1
  Block,      \* how long a read waits for an entry
  Grace,      \* misfire_grace_time
  Answer,     \* an analysis takes no longer, but for the loop being stopped
  LastSecond  \* bound on the clock

Consumers == {"news", "filing"}
Jobs      == Consumers \cup {"expire"}

VARIABLES
  now,      \* seconds since the worker started
  next,     \* job -> next_run_time
  queue,    \* tasks created but not begun: job and due time
  running,  \* consumers that wait for the LLM, and since when
  expired   \* when the expiry job last ran

vars == <<now, next, queue, running, expired>>

Init ==
  /\ now = 0
  /\ next = Interval
  /\ queue = <<>>
  /\ running = {}
  /\ expired = 0

Due == {j \in Jobs : next[j] <= now}

(* The last run time of j that is due.                                     *)
LastDue(j) == next[j] + ((now - next[j]) \div Interval[j]) * Interval[j]

Waiting == {r[1] : r \in running}

Answered == \A r \in running : now - r[2] <= Answer

(* The scheduler's _process_jobs: a task for each due job, the longest due *)
(* first, unless it is still running.  The tasks of one round all begin    *)
(* before the next.                                                        *)
ProcessJobs ==
  /\ queue = <<>> /\ Due # {}
  /\ Answered
  /\ \E order \in [1..Cardinality(Due) -> Due] :
       /\ {order[k] : k \in DOMAIN order} = Due
       /\ \A k \in 2..Cardinality(Due) : next[order[k - 1]] <= next[order[k]]
       /\ queue' = SelectSeq([k \in DOMAIN order |-> <<order[k], LastDue(order[k])>>],
                             LAMBDA task : task[1] \notin Waiting)
  /\ next' = [j \in Jobs |-> IF j \in Due THEN LastDue(j) + Interval[j] ELSE next[j]]
  /\ UNCHANGED <<now, running, expired>>

Job     == Head(queue)[1]
Misfire == now - Head(queue)[2] > Grace

Drop ==
  /\ queue # <<>> /\ Misfire
  /\ queue' = Tail(queue)
  /\ UNCHANGED <<now, next, running, expired>>

(* run_once of a consumer up to its first await: an entry is there or      *)
(* comes in time, and the LLM is asked; or the read gives up.              *)
Read ==
  /\ queue # <<>> /\ ~Misfire /\ Job \in Consumers
  /\ queue' = Tail(queue)
  /\ \/ \E waited \in {0, Block} :
          /\ now' = now + waited
          /\ running' = running \cup {<<Job, now'>>}
     \/ now' = now + Block /\ UNCHANGED running
  /\ UNCHANGED <<next, expired>>

(* The LLM has answered; the batch is processed and acknowledged.          *)
Finish ==
  /\ \E r \in running : running' = running \ {r}
  /\ UNCHANGED <<now, next, queue, expired>>

(* expire_stale_tier3.                                                     *)
Expire ==
  /\ queue # <<>> /\ ~Misfire /\ Job = "expire"
  /\ queue' = Tail(queue)
  /\ expired' = now
  /\ UNCHANGED <<now, next, running>>

(* The loop has nothing to run, nor an answer that must be there by now.   *)
Idle ==
  /\ queue = <<>> /\ Due = {}
  /\ Answered
  /\ now' = now + 1
  /\ UNCHANGED <<next, queue, running, expired>>

Next ==
  /\ now < LastSecond
  /\ ProcessJobs \/ Drop \/ Read \/ Finish \/ Expire \/ Idle

Spec == Init /\ [][Next]_vars

(* The expiry job "runs every 5 minutes": at the least, every second one   *)
(* of its runs takes place, however late the loop is.                      *)
ExpiryRuns == now - expired <= 2 * Interval["expire"] + Block
=============================================================================
