--------------------------- MODULE EventDelivery ---------------------------
(***************************************************************************)
(* What the way from a feed to the LLM promises of its events, with no     *)
(* streams, acknowledgements or crashes: an event is analyzed at most      *)
(* once, events are taken in the order in which they were published, and   *)
(* an event that was given up is never analyzed.                           *)
(***************************************************************************)
EXTENDS Naturals, Sequences, SequencesExt

CONSTANT Events

VARIABLES
  queue,     \* published and not yet taken, oldest first
  hand,      \* taken, not yet analyzed
  analyzed,  \* given to the LLM
  gone       \* given up

vars == <<queue, hand, analyzed, gone>>

Init == queue = <<>> /\ hand = {} /\ analyzed = {} /\ gone = {}

Unpublished == Events \ (analyzed \cup gone \cup hand \cup ToSet(queue))

Oldest(n) == ToSet(SubSeq(queue, 1, n))
After(n)  == SubSeq(queue, n + 1, Len(queue))

(* An event is published.  By the same step the oldest may be given up, of *)
(* a stream that is full, and others that will not be published.           *)
Publish(e, n, S) ==
  /\ e \in Unpublished \ S
  /\ queue' = Append(After(n), e)
  /\ gone' = gone \cup S \cup Oldest(n)
  /\ UNCHANGED <<hand, analyzed>>

Take(n) ==
  /\ hand = {} /\ n > 0
  /\ hand' = Oldest(n)
  /\ queue' = After(n)
  /\ UNCHANGED <<analyzed, gone>>

Analyze ==
  /\ analyzed' = analyzed \cup hand
  /\ hand' = {}
  /\ UNCHANGED <<queue, gone>>

(* What waits is given up from the oldest on.                              *)
GiveUp(n, S) ==
  /\ queue' = After(n)
  /\ hand' = hand \ S
  /\ gone' = gone \cup S \cup Oldest(n)
  /\ UNCHANGED analyzed

Next ==
  \/ \E n \in 0..Len(queue) :
       \/ Take(n)
       \/ \E S \in SUBSET Unpublished : \E e \in Events : Publish(e, n, S)
       \/ \E S \in SUBSET (Unpublished \cup hand) : GiveUp(n, S)
  \/ Analyze

Spec == Init /\ [][Next]_vars
=============================================================================
