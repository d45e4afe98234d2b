------------------------------ MODULE SlotPool ------------------------------
(***************************************************************************)
(* What the per-user limiter promises its callers: a bounded set of slots  *)
(* and a first-come first-served line for the runs that find none free.    *)
(* A run asks once; it is admitted, lined up or turned away; a place in    *)
(* the line is left only by being promoted from the front or withdrawn.    *)
(***************************************************************************)
EXTENDS Integers, Sequences, FiniteSets

CONSTANTS Runs, MaxConcurrent

VARIABLES
  waiting,   \* the line, front first
  holding,   \* runs that hold a slot
  answered   \* runs that have asked and got their answer

poolVars == <<waiting, holding, answered>>

Init == waiting = <<>> /\ holding = {} /\ answered = {}

Answer(r) == r \notin answered /\ answered' = answered \cup {r}

Admit(r) ==
  /\ Answer(r)
  /\ Cardinality(holding) < MaxConcurrent
  /\ holding' = holding \cup {r}
  /\ UNCHANGED waiting

LineUp(r) == Answer(r) /\ waiting' = Append(waiting, r) /\ UNCHANGED holding

\* Rejected, or let in beside the pool.
TurnAway(r) == Answer(r) /\ UNCHANGED <<waiting, holding>>

\* A recovered run takes over the slot of the run it replaces.
Replace(old, r) ==
  /\ Answer(r) /\ old \in holding
  /\ holding' = (holding \ {old}) \cup {r}
  /\ UNCHANGED waiting

Promote ==
  /\ waiting # <<>> /\ Cardinality(holding) < MaxConcurrent
  /\ holding' = holding \cup {Head(waiting)}
  /\ waiting' = Tail(waiting)
  /\ UNCHANGED answered

Leave(r) ==
  /\ r \in holding
  /\ holding' = holding \ {r}
  /\ UNCHANGED <<waiting, answered>>

\* t is s with some entries taken out: the others keep their order.
Thinned(t, s) ==
  \E at \in [DOMAIN t -> DOMAIN s] :
    /\ \A i \in DOMAIN t : t[i] = s[at[i]]
    /\ \A i, j \in DOMAIN t : i < j => at[i] < at[j]

\* Cancelled or expired entries leave the line.
Withdraw == Thinned(waiting', waiting) /\ UNCHANGED <<holding, answered>>

\* A worker dies with requests in its hands: they count as answered, and an
\* entry it had taken from the line is withdrawn.
Abandon(S) ==
  /\ answered' = answered \cup S
  /\ Thinned(waiting', waiting)
  /\ UNCHANGED holding

Next ==
  \/ \E r \in Runs : Admit(r) \/ LineUp(r) \/ TurnAway(r) \/ Leave(r)
  \/ \E old, r \in Runs : Replace(old, r)
  \/ Promote \/ Withdraw
  \/ \E S \in SUBSET Runs : Abandon(S)

Spec == Init /\ [][Next]_poolVars
=============================================================================
