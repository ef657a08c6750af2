----------------------------- MODULE RbfHistory -----------------------------
(***************************************************************************)
(* What the RBF cache promises, without trees, flags or timers: it         *)
(* remembers which transaction replaced which, forgets a transaction only  *)
(* together with everything it replaced, and after a restart knows what it *)
(* knew when it was last saved.                                            *)
(***************************************************************************)
CONSTANT Tx

VARIABLES
  known,   \* the transactions remembered
  newer,   \* transaction -> the one that replaced it
  saved    \* known and newer at the last save

hvars == <<known, newer, saved>>

Empty == [known |-> {}, newer |-> [x \in {} |-> {}]]

HInit == /\ known = Empty.known
         /\ newer = Empty.newer
         /\ saved = Empty

\* Only newest versions can be replaced, and only by a transaction never seen.
Replace(S, n) ==
  /\ S # {} /\ n \notin known \cup S
  /\ S \cap DOMAIN newer = {}
  /\ known' = known \cup S \cup {n}
  /\ newer' = [x \in S \cup DOMAIN newer |-> IF x \in S THEN n ELSE newer[x]]
  /\ UNCHANGED saved

\* Newest versions go with all their earlier versions; nothing else goes.
Forget(gone) ==
  /\ \A x \in DOMAIN newer : x \in gone <=> newer[x] \in gone
  /\ known' = known \ gone
  /\ newer' = [x \in DOMAIN newer \ gone |-> newer[x]]
  /\ UNCHANGED saved

Remember == /\ saved' = [known |-> known, newer |-> newer]
            /\ UNCHANGED <<known, newer>>

Recover == /\ known' = saved.known
           /\ newer' = saved.newer
           /\ UNCHANGED saved

HNext ==
  \/ \E S \in SUBSET Tx, n \in Tx : Replace(S, n)
  \/ \E gone \in SUBSET Tx : Forget(gone)
  \/ Remember
  \/ Recover

HSpec == HInit /\ [][HNext]_hvars
=============================================================================
