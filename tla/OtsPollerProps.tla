--------------------------- MODULE OtsPollerProps ---------------------------
(* What the OTS poller, its table and the txid set promise.                 *)
EXTENDS OtsPoller

\* A txid is in the set only if its row is in the table: after a crash the set is
\* loaded from there, and a txid that is known is never inserted again.
RowFirst == known \subseteq DOMAIN table

\* A row is never lost or downgraded to pending, and keeps the merkle root it was
\* inserted with ("we don't downgrade a confirmed row to pending").
RowsOnlyGrow ==
  [][\A t \in DOMAIN table :
       /\ t \in DOMAIN table'
       /\ table[t].block # 0 => table'[t].block # 0
       /\ table'[t].root = table[t].root]_vars

\* "Confirmed commitments stay in the calendar's confirmed batch and are picked up
\* whenever we next look, so nothing durable is missed" (lines 89-91), as far as they do
\* stay there: whatever calendars, table, bootstrap and process do on the way, once the
\* calendars are quiet every commit that one of them still lists becomes confirmed in the
\* table and known.  (One that newer commits have pushed out of the list before it was seen
\* is missed, or its row stays pending.)
NothingDurableMissed ==
  <>[](\A cal \in Calendar : \A c \in ToSet(Listed(cal)) :
         c \in known /\ c \in DOMAIN table /\ table[c].block # 0)
=============================================================================
