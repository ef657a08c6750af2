--------------------------- MODULE MCMempoolViews ---------------------------
(* Model-checking instance of what the mempool keeps besides its transactions:*)
(* the trees of replacements, the clusters with the spend map, the order of   *)
(* one cluster, and, to fetch transactions, the limiter.  Which of them a     *)
(* behaviour is about is chosen in its first state; the others rest.          *)
EXTENDS RbfCacheProps, PLimit, ClusterMempool, Linearize

CONSTANTS p, q, m, d

VARIABLE plan

\* m spends p and q; d spends what m spends of p.
MCInputs == (p :> {}) @@ (q :> {}) @@ (m :> {<<p, 0>>, <<q, 0>>}) @@ (d :> {<<p, 0>>})

\* Four transactions, of two that share a child and one with another child, or of two
\* branches that meet again; what they pay, and an order out of
\* order that the cluster can have had.
MCGraphs ==
  {{<<1, 3>>, <<2, 3>>, <<2, 4>>}, {<<2, 4>>, <<2, 1>>, <<4, 3>>, <<1, 3>>}}
MCRates == {<<1, 1>>, <<3, 2>>, <<5, 1>>}
MCOrder == <<3, 1, 2, 4>>
MCHints == {<<>>, <<4, 3, 2, 1>>}

rbf == vars
limiter == limitVars
linearize == linearVars

OfRbf(A) == plan = "rbf" /\ A /\ UNCHANGED <<plan, viewVars, limiter, linearize>>
OfMempool(A) == plan = "mempool" /\ A /\ UNCHANGED <<plan, rbf, limiter, linearize>>
OfLimiter(A) == plan = "limiter" /\ A /\ UNCHANGED <<plan, rbf, viewVars, linearize>>
OfLinearize(A) == plan = "linearize" /\ A /\ UNCHANGED <<plan, rbf, viewVars, limiter>>

\* A cluster at rest is any one.
MCInit ==
  /\ Init /\ ViewsInit /\ LimitInit /\ LinearInit
  /\ plan \in {"rbf", "mempool", "limiter", "linearize"}
  /\ plan # "linearize" =>
       (\A t \in Txs : rate[t] = <<1, 1>>) /\ given = <<>> /\ <<2, 3>> \in deps

\* A process that never restarts, as far as the RBF cache goes.
MCNext ==
  \/ OfRbf(Operations \/ Clock)
  \/ OfMempool(ViewsNext)
  \/ OfLimiter(LimitNext)
  \/ OfLinearize(LinearNext)

\* The fairness of the RBF cache.
MCSpec ==
  /\ MCInit /\ [][MCNext]_<<plan, rbf, viewVars, limiter, linearize>>
  /\ WF_rbf(OfRbf(CleanupTimer)) /\ WF_rbf(OfRbf(Tick))
=============================================================================
