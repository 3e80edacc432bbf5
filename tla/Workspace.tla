------------------------------ MODULE Workspace ------------------------------
(***************************************************************************)
(* A decode workspace reused over the frames of one connection:            *)
(* emvp-network/src/workspace.rs.  Every workspace is an arena of field    *)
(* elements, grown by `grow`, and metadata tables, grown by                *)
(* `grow_capacity` and then refilled; reserve() handles them in a fixed    *)
(* order and returns at the first refusal, leaving the later ones as they  *)
(* were.  EvaluateWorkspace and ProductsWorkspace have two tables,         *)
(* UploadWorkspace one, UploadAcceptedWorkspace a table and no arena.      *)
(*                                                                         *)
(* A Vec is its length and its capacity.  Of the allocator we know that    *)
(* try_reserve_exact(n) makes room for n elements beyond the length, or    *)
(* refuses; that extending a full Vec at least doubles it, and that this   *)
(* one cannot be refused: the process is aborted instead.                  *)
(***************************************************************************)
EXTENDS Naturals, Sequences

CONSTANTS
  Tables,    \* the tables, in the order reserve() handles them
  MaxLen     \* bound: the largest length a plan asks for

ASSUME WorkspaceAssumption ==
  /\ Tables \in Seq(STRING \ {"arena"})
  /\ MaxLen \in Nat

Vecs == {"arena"} \cup {Tables[i] : i \in DOMAIN Tables}

VARIABLES
  len,      \* len[v]: Vec::len
  cap,      \* cap[v]: Vec::capacity
  plan,     \* plan[v]: what the current frame needs of v
  step,     \* how many vectors reserve() is done with
  state,    \* "reserving", "ready", "refused", "cleared"
  spilled,  \* an extend had to allocate
  peak      \* history: the most a plan asked of v and got

vars == <<len, cap, plan, step, state, spilled, peak>>

Plans == [Vecs -> 0 .. MaxLen]
Larger(a, b) == IF a < b THEN b ELSE a

Init ==
  /\ len = [v \in Vecs |-> 0]
  /\ cap = [v \in Vecs |-> 0]
  /\ plan = [v \in Vecs |-> 0]
  /\ step = 0
  /\ state = "cleared"
  /\ spilled = FALSE
  /\ peak = [v \in Vecs |-> 0]

\* reserve() is called with the plan of the next frame.
Reserve(p) ==
  /\ state # "reserving"
  /\ plan' = p
  /\ step' = 0
  /\ state' = "reserving"
  /\ UNCHANGED <<len, cap, spilled, peak>>

\* try_reserve_exact
Exactly(v, additional) == Larger(cap[v], len[v] + additional)

Refused ==
  /\ state' = "refused"
  /\ UNCHANGED <<len, cap, plan, step, spilled, peak>>

Done(v) ==
  /\ step' = step + 1
  /\ state' = IF step = Len(Tables) THEN "ready" ELSE "reserving"
  /\ peak' = [peak EXCEPT ![v] = Larger(@, plan[v])]
  /\ UNCHANGED plan

\* grow: what is missing is counted from the length.
GrowArena ==
  /\ state = "reserving"
  /\ step = 0
  /\ LET grown == IF len["arena"] < plan["arena"]
                    THEN Exactly("arena", plan["arena"] - len["arena"])
                    ELSE cap["arena"]
     IN  \/ /\ cap' = [cap EXCEPT !["arena"] = grown]
            /\ len' = [len EXCEPT !["arena"] = Larger(@, plan["arena"])]
            /\ Done("arena")
            /\ UNCHANGED spilled
         \/ grown > cap["arena"] /\ Refused

\* What grow_capacity asks for: the missing capacity, counted from the
\* capacity, where try_reserve_exact counts from the length.
Missing(v) == plan[v] - cap[v]

\* Mutant of Grown: the table is replaced by one that fits the plan.
GrownAnew(v) == plan[v]

\* The capacity grow_capacity leaves.
Grown(v) == IF cap[v] < plan[v] THEN Exactly(v, Missing(v)) ELSE cap[v]

\* Mutant of FillTable: the last frame's records stay in front.
FillTableAppending ==
  /\ state = "reserving"
  /\ step \in DOMAIN Tables
  /\ LET v == Tables[step]
     IN  /\ len' = [len EXCEPT ![v] = @ + plan[v]]
         /\ cap' = [cap EXCEPT ![v] = Larger(@, len[v] + plan[v])]
         /\ Done(v)
  /\ UNCHANGED spilled

\* clear and extend_from_slice, within the capacity or past it.
FillTable ==
  /\ state = "reserving"
  /\ step \in DOMAIN Tables
  /\ LET v == Tables[step]
     IN  \/ /\ len' = [len EXCEPT ![v] = plan[v]]
            /\ \/ /\ plan[v] <= Grown(v)
                  /\ cap' = [cap EXCEPT ![v] = Grown(v)]
                  /\ UNCHANGED spilled
               \/ /\ plan[v] > Grown(v)
                  /\ cap' = [cap EXCEPT ![v] = Larger(2 * Grown(v), plan[v])]
                  /\ spilled' = TRUE
            /\ Done(v)
         \/ Grown(v) > cap[v] /\ Refused

\* clear(): the contents go, the allocations stay.
Clear ==
  /\ state \in {"ready", "refused"}
  /\ len' = [v \in Vecs |-> 0]
  /\ state' = "cleared"
  /\ UNCHANGED <<cap, plan, step, spilled, peak>>

Next ==
  \/ \E p \in Plans : Reserve(p)
  \/ GrowArena
  \/ FillTable
  \/ Clear

Spec == Init /\ [][Next]_vars

-----------------------------------------------------------------------------
TypeOK ==
  /\ len \in [Vecs -> 0 .. MaxLen]
  /\ cap \in [Vecs -> 0 .. 2 * MaxLen]
  /\ plan \in Plans
  /\ step \in 0 .. Len(Tables) + 1
  /\ state \in {"reserving", "ready", "refused", "cleared"}
  /\ spilled \in BOOLEAN

\* Views are built on a reserved workspace only, and there every table is
\* exactly the plan's while the arena, which keeps the elements of larger
\* frames, is at least what the plan's ranges index.
ReadyForPlan ==
  state = "ready" =>
    /\ len["arena"] >= plan["arena"]
    /\ \A i \in DOMAIN Tables : len[Tables[i]] = plan[Tables[i]]
    /\ \A v \in Vecs : len[v] <= cap[v]

\* "Growth is monotone: reserving for a plan of the same or smaller shape
\* reuses the existing allocations", through refusals and clears.
SteadyState ==
  [][ \A v \in Vecs : cap'[v] # cap[v] => cap'[v] > cap[v] /\ plan[v] > peak[v] ]_vars

\* grow_capacity "Grows a vector's capacity to hold `len` elements if smaller",
\* so that the refill that follows never allocates.
CapacityHoldsPlan == ~spilled

=============================================================================
