------------------------------- MODULE PLimit -------------------------------
(***************************************************************************)
(* The limiter through which the backend fetches transactions              *)
(* (backend/src/utils/p-limit.ts, used by backend/src/api/transaction-utils*)
(* .ts): at most Concurrency calls run at a time, the others wait.  Whether*)
(* a queued call may start is decided a microtask after it was queued; a   *)
(* call that has finished starts the next one by itself.                   *)
(***************************************************************************)
EXTENDS Naturals, FiniteSets, Sequences, SequencesExt

CONSTANTS
  Call,         \* the calls that are made of one limiter
  Concurrency,  \* how many may run, at least one
  MaxChecks     \* bound: microtasks that wait

VARIABLES
  queue,        \* the calls that wait
  checks,       \* microtasks of enqueue() that have not compared yet
  activeCount,
  running,      \* calls whose promise is pending
  settled       \* calls whose promise is settled, before their next()

limitVars == <<queue, checks, activeCount, running, settled>>

Made == ToSet(queue) \cup running \cup settled

LimitTypeOK ==
  /\ queue \in Seq(Call) /\ checks \in Nat /\ activeCount \in Nat
  /\ running \subseteq Call /\ settled \subseteq Call

LimitInit ==
  /\ queue = <<>> /\ checks = 0 /\ activeCount = 0
  /\ running = {} /\ settled = {}

\* enqueue(): a call is queued, and the comparison put off.
Enqueue(c) ==
  /\ c \notin Made /\ checks < MaxChecks
  /\ queue' = Append(queue, c)
  /\ checks' = checks + 1
  /\ UNCHANGED <<activeCount, running, settled>>

\* Seeded: a microtask compares with one too many.
FaultyFree == activeCount <= Concurrency

Free == activeCount < Concurrency

\* queue.dequeue()(): run() counts the call at once.
Start(count) ==
  /\ queue' = Tail(queue)
  /\ running' = running \cup {Head(queue)}
  /\ activeCount' = count + 1

Check ==
  /\ checks > 0
  /\ checks' = checks - 1
  /\ IF Free /\ queue # <<>>
     THEN Start(activeCount) /\ UNCHANGED settled
     ELSE UNCHANGED <<queue, activeCount, running, settled>>

\* The promise of a call is fulfilled or rejected ...
Settle(c) ==
  /\ c \in running
  /\ running' = running \ {c}
  /\ settled' = settled \cup {c}
  /\ UNCHANGED <<queue, checks, activeCount>>

\* Seeded: a call that ended starts no other.
FaultyAfter(c) == /\ activeCount' = activeCount - 1
                  /\ UNCHANGED <<queue, running>>

\* ... and next() takes it off the count and starts the next one.
After(c) ==
  IF queue # <<>>
  THEN Start(activeCount - 1)
  ELSE activeCount' = activeCount - 1 /\ UNCHANGED <<queue, running>>

Ended(c) ==
  /\ c \in settled
  /\ settled' = settled \ {c}
  /\ After(c)
  /\ UNCHANGED checks

LimitNext ==
  \/ Check
  \/ \E c \in Call : Enqueue(c) \/ Settle(c) \/ Ended(c)

LimitSpec == LimitInit /\ [][LimitNext]_limitVars

-----------------------------------------------------------------------------
\* Never more than Concurrency calls at a time, although the comparison is made
\* later than the call was queued.
AtMostLimit == Cardinality(running) <= Concurrency

\* Nothing waits for nothing: with a place free there is a comparison to come for every
\* call that waits.
NoneForgotten == Len(queue) <= checks \/ activeCount = Concurrency
=============================================================================
