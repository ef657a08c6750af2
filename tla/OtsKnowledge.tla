---------------------------- MODULE OtsKnowledge ----------------------------
(***************************************************************************)
(* What a browser knows about OTS commits                                  *)
(* (frontend/src/app/services/ordinals/ots-knowledge.service.ts): a cache  *)
(* of answers, filled by probes of the backend that the callers share and  *)
(* by the flips the backend pushes, and dropped when the network changes.  *)
(*                                                                         *)
(* External: the backend of each network, which has the row of a commit    *)
(* once its poller recorded it, and the connection to it.                  *)
(***************************************************************************)
EXTENDS Naturals, FiniteSets

CONSTANTS
  Txid,     \* transactions with an OP_RETURN that came without isOtsCommit
  Network,  \* the networks the user can choose
  Slot      \* bound: HTTP requests under way at a time

VARIABLES
  rows,      \* network -> the txids its backend has a row of
  net,       \* the network chosen
  cache,     \* txid -> "none", "true", "false", or "expired": a false past its expiry
  inFlight,  \* the txids with an entry in inFlight
  probes,    \* slot -> the probe using it, if any: [txid, net, answer]
  pushes     \* flips on their way to the browser

vars == <<rows, net, cache, inFlight, probes, pushes>>

\* The answer of a probe; "none" until the backend has read its row.
Probe == [txid : Txid, net : Network, answer : {"none", "true", "false", "null"}]

TypeOK ==
  /\ rows \in [Network -> SUBSET Txid]
  /\ net \in Network
  /\ cache \in [Txid -> {"none", "true", "false", "expired"}]
  /\ inFlight \subseteq Txid
  /\ \A s \in Slot : probes[s] \subseteq Probe /\ Cardinality(probes[s]) <= 1
  /\ pushes \subseteq Txid

Init ==
  /\ rows = [n \in Network |-> {}]
  /\ net \in Network
  /\ cache = [t \in Txid |-> "none"]
  /\ inFlight = {}
  /\ probes = [s \in Slot |-> {}]
  /\ pushes = {}

-----------------------------------------------------------------------------
(* External                                                                *)

\* A poller records a commit; the browser's own backend pushes the flip.
Learn(n, t) ==
  /\ t \notin rows[n]
  /\ rows' = [rows EXCEPT ![n] = @ \cup {t}]
  /\ pushes' = IF n = net THEN pushes \cup {t} ELSE pushes
  /\ UNCHANGED <<net, cache, inFlight, probes>>

\* The connection is down, or nobody tracks the transaction any more.
LosePush(t) ==
  /\ t \in pushes
  /\ pushes' = pushes \ {t}
  /\ UNCHANGED <<rows, net, cache, inFlight, probes>>

\* The backend of the network that was asked reads the row ...
Answer(s) ==
  /\ \E p \in probes[s] :
       /\ p.answer = "none"
       /\ probes' = [probes EXCEPT ![s] =
                       {[p EXCEPT !.answer = IF p.txid \in rows[p.net] THEN "true" ELSE "false"]}]
  /\ UNCHANGED <<rows, net, cache, inFlight, pushes>>

\* ... or the request fails.
Fail(s) ==
  /\ \E p \in probes[s] :
       /\ p.answer = "none"
       /\ probes' = [probes EXCEPT ![s] = {[p EXCEPT !.answer = "null"]}]
  /\ UNCHANGED <<rows, net, cache, inFlight, pushes>>

-----------------------------------------------------------------------------
(* The service                                                             *)

\* What a settled probe leaves in the cache: a failure leaves it alone.
Kept(p) == IF p.answer = "null" THEN cache[p.txid] ELSE p.answer

\* isOtsCommitByTxid() without a cached answer and without a probe to share.
Ask(t) ==
  /\ cache[t] \in {"none", "expired"} /\ t \notin inFlight
  /\ cache' = [cache EXCEPT ![t] = "none"]
  /\ \E s \in Slot :
       /\ probes[s] = {}
       /\ probes' = [probes EXCEPT ![s] = {[txid |-> t, net |-> net, answer |-> "none"]}]
  /\ inFlight' = inFlight \cup {t}
  /\ UNCHANGED <<rows, net, pushes>>

\* The answer arrives: cached, and the entry of inFlight deleted.
Settle(s) ==
  /\ \E p \in probes[s] :
       /\ p.answer # "none"
       /\ cache' = [cache EXCEPT ![p.txid] = Kept(p)]
       /\ inFlight' = inFlight \ {p.txid}
  /\ probes' = [probes EXCEPT ![s] = {}]
  /\ UNCHANGED <<rows, net, pushes>>

RecordFlip(t) ==
  /\ t \in pushes
  /\ pushes' = pushes \ {t}
  /\ cache' = [cache EXCEPT ![t] = "true"]
  /\ inFlight' = inFlight \ {t}
  /\ UNCHANGED <<rows, net, probes>>

\* Seeded: a false is kept like a true.
FaultyExpire(t) == cache[t] = "expired" /\ UNCHANGED vars

\* FALSE_TTL_MS passes; a true has no expiry.
Expire(t) ==
  /\ cache[t] = "false"
  /\ cache' = [cache EXCEPT ![t] = "expired"]
  /\ UNCHANGED <<rows, net, inFlight, probes, pushes>>

\* networkChanged$: clearCache(), and the websocket connects to another backend.
Switch(n) ==
  /\ n # net /\ net' = n
  /\ cache' = [t \in Txid |-> "none"]
  /\ inFlight' = {}
  /\ pushes' = {}
  /\ UNCHANGED <<rows, probes>>

Next ==
  \/ \E t \in Txid : LosePush(t) \/ Ask(t) \/ RecordFlip(t) \/ Expire(t)
  \/ \E n \in Network : Switch(n) \/ \E t \in Txid : Learn(n, t)
  \/ \E s \in Slot : Answer(s) \/ Fail(s) \/ Settle(s)

Spec == Init /\ [][Next]_vars

\* Time passes and responses arrive; somebody keeps asking, and does not fail for ever.
FairSpec ==
  /\ Spec
  /\ \A t \in Txid : WF_vars(Ask(t)) /\ WF_vars(Expire(t))
  /\ \A s \in Slot : SF_vars(Answer(s)) /\ WF_vars(Settle(s))

-----------------------------------------------------------------------------
\* "false answers are NOT monotonic": once the user stays on a network, whoever keeps
\* asking for a commit of it learns so, whether or not the push arrives and whatever
\* arrives late from another network, and then for good.
LearnedForGood ==
  \A n \in Network : \A t \in Txid :
    <>[](net = n /\ t \in rows[n]) => <>[](cache[t] = "true")
=============================================================================
