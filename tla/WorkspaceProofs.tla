--------------------------- MODULE WorkspaceProofs ---------------------------
(***************************************************************************)
(* A decode workspace, for any number of tables and any lengths.  Neither  *)
(* property is inductive alone: what reserve() has done is a prefix of its *)
(* vectors (Progress), and a capacity never falls behind the length in use *)
(* nor behind what any earlier plan was given (Roomy).                     *)
(***************************************************************************)
EXTENDS Workspace, TLAPS

LEMMA MaxLenType == MaxLen \in Nat
BY WorkspaceAssumption

USE MaxLenType

\* reserve() takes the vectors in order, and leaves those it is done with at
\* what the plan needs.
Progress ==
  /\ state = "reserving" => step \in 0 .. Len(Tables)
  /\ state = "ready" => step = Len(Tables) + 1
  /\ state \in {"reserving", "ready"} =>
       /\ step > 0 => len["arena"] >= plan["arena"]
       /\ \A i \in DOMAIN Tables : i < step => len[Tables[i]] = plan[Tables[i]]

Roomy ==
  /\ peak \in [Vecs -> 0 .. MaxLen]
  /\ \A v \in Vecs : len[v] <= cap[v] /\ peak[v] <= cap[v]

WorkspaceInv == TypeOK /\ Progress /\ Roomy

\* What extending and growing make of a capacity: nothing smaller, room for the
\* plan, and nothing at all when the plan fits.
LEMMA GrownType ==
  ASSUME WorkspaceInv, NEW v \in Vecs
  PROVE  /\ Grown(v) \in 0 .. MaxLen \/ Grown(v) = cap[v]
         /\ Grown(v) >= cap[v]
         /\ Grown(v) # cap[v] => plan[v] > cap[v]
         /\ Grown(v) \in 0 .. 2 * MaxLen
<1>1. /\ len[v] \in 0 .. MaxLen /\ cap[v] \in 0 .. 2 * MaxLen /\ plan[v] \in 0 .. MaxLen
      /\ len[v] <= cap[v]
  BY DEF WorkspaceInv, TypeOK, Roomy, Plans
<1> QED
  BY <1>1 DEF Grown, Missing, Exactly, Larger

LEMMA TableCount == Len(Tables) \in Nat
BY WorkspaceAssumption

LEMMA TableRange == \A i \in DOMAIN Tables : i \in Nat /\ 1 <= i /\ i <= Len(Tables)
BY WorkspaceAssumption

USE TableCount

\* The names of the vectors.
LEMMA VecNames ==
  /\ "arena" \in Vecs
  /\ \A i \in DOMAIN Tables : Tables[i] \in Vecs /\ Tables[i] # "arena"
BY WorkspaceAssumption DEF Vecs

\* One vector of the plan is done, whatever its growth.
LEMMA DonePreserves ==
  ASSUME WorkspaceInv, state = "reserving", NEW v \in Vecs, Done(v),
         NEW n \in 0 .. MaxLen, NEW c \in 0 .. 2 * MaxLen,
         len' = [len EXCEPT ![v] = n], cap' = [cap EXCEPT ![v] = c],
         spilled' \in BOOLEAN,
         n <= c, plan[v] <= n, cap[v] <= c,
         \/ step = 0 /\ v = "arena"
         \/ step \in DOMAIN Tables /\ v = Tables[step] /\ n = plan[v]
  PROVE  WorkspaceInv'
<1>1. TypeOK /\ Progress /\ Roomy
  BY DEF WorkspaceInv
<1>2. /\ len \in [Vecs -> 0 .. MaxLen] /\ cap \in [Vecs -> 0 .. 2 * MaxLen]
      /\ plan \in [Vecs -> 0 .. MaxLen] /\ peak \in [Vecs -> 0 .. MaxLen]
      /\ step \in 0 .. Len(Tables)
  BY <1>1 DEF TypeOK, Roomy, Progress, Plans
<1>3. /\ len' \in [Vecs -> 0 .. MaxLen] /\ cap' \in [Vecs -> 0 .. 2 * MaxLen]
      /\ plan' = plan /\ step' = step + 1
      /\ state' = IF step = Len(Tables) THEN "ready" ELSE "reserving"
      /\ peak' = [peak EXCEPT ![v] = Larger(@, plan[v])]
  BY <1>2 DEF Done
<1>4. TypeOK'
  BY <1>2, <1>3, VecNames DEF TypeOK, Plans
<1>5. Roomy'
  <2>1. peak' \in [Vecs -> 0 .. MaxLen]
    BY <1>2, <1>3 DEF Larger
  <2>2. ASSUME NEW u \in Vecs
        PROVE  len'[u] <= cap'[u] /\ peak'[u] <= cap'[u]
    <3>1. CASE u = v
      <4>1. peak[v] <= cap[v]
        BY <1>1 DEF Roomy
      <4>2. peak'[v] = Larger(peak[v], plan[v]) /\ len'[v] = n /\ cap'[v] = c
        BY <1>2, <1>3
      <4> QED
        BY <1>2, <3>1, <4>1, <4>2 DEF Larger
    <3>2. CASE u # v
      BY <1>1, <1>2, <1>3, <3>2 DEF Roomy
    <3> QED
      BY <3>1, <3>2
  <2> QED
    BY <2>1, <2>2 DEF Roomy
<1>6. Progress'
  <2>1. step' > 0 => len'["arena"] >= plan'["arena"]
    BY <1>1, <1>2, <1>3, VecNames DEF Progress
  <2>2. ASSUME NEW i \in DOMAIN Tables, i < step'
        PROVE  len'[Tables[i]] = plan'[Tables[i]]
    <3>1. Tables[i] \in Vecs /\ Tables[i] # "arena" /\ i \in Nat
      BY VecNames, TableRange
    <3>2. CASE i < step
      BY <1>1, <1>2, <1>3, <3>1, <3>2 DEF Progress
    <3>3. CASE i = step
      BY <1>2, <1>3, <3>1, <3>3, TableRange
    <3> QED
      BY <1>2, <1>3, <2>2, <3>1, <3>2, <3>3
  <2> QED
    BY <1>2, <1>3, <2>1, <2>2, VecNames DEF Progress
<1> QED
  BY <1>4, <1>5, <1>6 DEF WorkspaceInv

\* A step of growth gives a vector what the plan needs, takes no capacity away,
\* and adds to it only for a plan beyond it.
LEMMA GrowthSteps ==
  ASSUME WorkspaceInv, GrowArena \/ FillTable
  PROVE  /\ WorkspaceInv'
         /\ \A u \in Vecs : cap'[u] # cap[u] => cap'[u] > cap[u] /\ plan[u] > cap[u]
<1>1. TypeOK /\ Progress /\ Roomy
  BY DEF WorkspaceInv
<1>2. /\ len \in [Vecs -> 0 .. MaxLen] /\ cap \in [Vecs -> 0 .. 2 * MaxLen]
      /\ plan \in [Vecs -> 0 .. MaxLen] /\ spilled \in BOOLEAN
      /\ \A u \in Vecs : len[u] <= cap[u]
  BY <1>1 DEF TypeOK, Roomy, Plans
<1>3. ASSUME Refused
      PROVE  WorkspaceInv' /\ cap' = cap
  BY <1>1, <1>3 DEF Refused, WorkspaceInv, TypeOK, Progress, Roomy, Plans
<1>4. CASE GrowArena
  <2> DEFINE grown == IF len["arena"] < plan["arena"]
                        THEN Exactly("arena", plan["arena"] - len["arena"])
                        ELSE cap["arena"]
             n == Larger(len["arena"], plan["arena"])
  <2>1. CASE Refused
    BY <1>3, <2>1
  <2>2. CASE ~Refused
    <3>1. /\ state = "reserving" /\ step = 0 /\ Done("arena") /\ spilled' = spilled
          /\ cap' = [cap EXCEPT !["arena"] = grown]
          /\ len' = [len EXCEPT !["arena"] = n]
      BY <1>4, <2>2 DEF GrowArena
    <3>2. /\ len["arena"] \in 0 .. MaxLen /\ cap["arena"] \in 0 .. 2 * MaxLen
          /\ plan["arena"] \in 0 .. MaxLen /\ len["arena"] <= cap["arena"]
      BY <1>2, VecNames
    <3>3. /\ n \in 0 .. MaxLen /\ grown \in 0 .. 2 * MaxLen
          /\ n <= grown /\ plan["arena"] <= n /\ cap["arena"] <= grown
          /\ grown # cap["arena"] => plan["arena"] > cap["arena"]
      BY <3>2 DEF Exactly, Larger
    <3>4. WorkspaceInv'
      <4> HIDE DEF grown, n
      <4> QED
        BY <1>2, <3>1, <3>3, VecNames, DonePreserves
    <3>5. ASSUME NEW u \in Vecs, cap'[u] # cap[u]
          PROVE  cap'[u] > cap[u] /\ plan[u] > cap[u]
      <4> HIDE DEF grown, n
      <4>1. u = "arena" /\ cap'[u] = grown
        BY <1>2, <3>1, <3>5
      <4> QED
        BY <3>2, <3>3, <3>5, <4>1
    <3> QED
      BY <3>4, <3>5
  <2> QED
    BY <2>1, <2>2
<1>5. CASE FillTable
  <2> DEFINE v == Tables[step]
  <2>1. CASE Refused
    BY <1>3, <2>1
  <2>2. CASE ~Refused
    <3>1. state = "reserving" /\ step \in DOMAIN Tables /\ v \in Vecs
      BY <1>5, VecNames DEF FillTable
    <3>2. /\ len[v] \in 0 .. MaxLen /\ cap[v] \in 0 .. 2 * MaxLen
          /\ plan[v] \in 0 .. MaxLen /\ len[v] <= cap[v]
      BY <1>2, <3>1
    <3>3. /\ Grown(v) >= cap[v] /\ Grown(v) \in 0 .. 2 * MaxLen
          /\ Grown(v) # cap[v] => plan[v] > cap[v]
      BY <3>1, GrownType
    <3>4. PICK c \in 0 .. 2 * MaxLen :
            /\ cap' = [cap EXCEPT ![v] = c]
            /\ plan[v] <= c /\ cap[v] <= c
            /\ c # cap[v] => plan[v] > cap[v]
            /\ spilled' \in BOOLEAN
      <4>1. CASE plan[v] <= Grown(v) /\ cap' = [cap EXCEPT ![v] = Grown(v)] /\ spilled' = spilled
        BY <1>2, <3>2, <3>3, <4>1
      <4>2. CASE /\ plan[v] > Grown(v)
                 /\ cap' = [cap EXCEPT ![v] = Larger(2 * Grown(v), plan[v])]
                 /\ spilled' = TRUE
        <5> DEFINE g == Grown(v)
                   p == plan[v]
                   w == Larger(2 * g, p)
        <5>1. g \in Nat /\ p \in 0 .. MaxLen /\ p > g /\ g >= cap[v] /\ cap[v] \in Nat
          BY <3>2, <3>3, <4>2
        <5> HIDE DEF g, p
        <5>2. w \in 0 .. 2 * MaxLen /\ p <= w /\ cap[v] <= w /\ p > cap[v]
          BY <5>1 DEF Larger
        <5>3. cap' = [cap EXCEPT ![v] = w] /\ spilled' \in BOOLEAN
          BY <4>2 DEF g, p
        <5> HIDE DEF w
        <5> QED
          BY <5>2, <5>3 DEF p
      <4> QED
        BY <1>5, <2>2, <4>1, <4>2 DEF FillTable
    <3>5. Done(v) /\ len' = [len EXCEPT ![v] = plan[v]]
      BY <1>5, <2>2 DEF FillTable
    <3> HIDE DEF v
    <3>6. WorkspaceInv'
      <4> DEFINE n == plan[v]
      <4>1. step \in DOMAIN Tables /\ v = Tables[step]
        BY <3>1 DEF v
      <4>2. n \in 0 .. MaxLen /\ n <= c /\ plan[v] <= n /\ n = plan[v]
        BY <3>2, <3>4
      <4>3. len' = [len EXCEPT ![v] = n]
        BY <3>5
      <4> HIDE DEF n
      <4> QED
        BY <3>1, <3>4, <3>5, <4>1, <4>2, <4>3, DonePreserves
    <3>7. ASSUME NEW u \in Vecs, cap'[u] # cap[u]
          PROVE  cap'[u] > cap[u] /\ plan[u] > cap[u]
      <4>1. u = v /\ cap'[u] = c
        BY <1>2, <3>4, <3>7
      <4> QED
        BY <3>2, <3>4, <3>7, <4>1
    <3> QED
      BY <3>6, <3>7
  <2> QED
    BY <2>1, <2>2
<1> QED
  BY <1>4, <1>5

LEMMA WorkspaceInductive ==
  ASSUME WorkspaceInv, [Next]_vars
  PROVE  WorkspaceInv'
<1>1. TypeOK /\ Progress /\ Roomy
  BY DEF WorkspaceInv
<1>2. ASSUME NEW p \in Plans, Reserve(p)
      PROVE  WorkspaceInv'
  BY <1>1, <1>2, VecNames DEF Reserve, WorkspaceInv, TypeOK, Progress, Roomy
<1>3. CASE GrowArena \/ FillTable
  BY <1>3, GrowthSteps
<1>4. CASE Clear
  <2>1. \A v \in Vecs : cap[v] \in Nat
    BY <1>1 DEF TypeOK
  <2> QED
    BY <1>1, <1>4, <2>1 DEF Clear, WorkspaceInv, TypeOK, Progress, Roomy
<1>5. CASE UNCHANGED vars
  BY <1>1, <1>5 DEF vars, WorkspaceInv, TypeOK, Progress, Roomy, Plans
<1> QED
  BY <1>2, <1>3, <1>4, <1>5 DEF Next

LEMMA WorkspaceStart == Init => WorkspaceInv
<1> SUFFICES ASSUME Init PROVE WorkspaceInv
  OBVIOUS
<1>1. Progress
  BY DEF Init, Progress
<1>2. Roomy
  BY DEF Init, Roomy
<1>3. TypeOK
  <2>1. 0 \in 0 .. MaxLen /\ 0 \in 0 .. 2 * MaxLen /\ 0 \in 0 .. Len(Tables) + 1
    OBVIOUS
  <2> QED
    BY <2>1 DEF Init, TypeOK, Plans
<1> QED
  BY <1>1, <1>2, <1>3 DEF WorkspaceInv

\* Frame after frame, through refusals and clears, the three hold.
THEOREM WorkspaceInvariance == Spec => []WorkspaceInv
BY WorkspaceStart, WorkspaceInductive, PTL DEF Spec

\* Lengths and capacities keep their types; no table is ever given more than
\* twice the room of the longest plan.
THEOREM WorkspaceTypeCorrect == Spec => []TypeOK
BY WorkspaceInvariance, PTL DEF WorkspaceInv

\* A workspace that reserve() returned holds its plan, whatever frames it held
\* before: the tables exactly, the arena at least.
THEOREM ReadyForPlanCorrect == Spec => []ReadyForPlan
<1>1. WorkspaceInv => ReadyForPlan
  <2> SUFFICES ASSUME WorkspaceInv, state = "ready"
               PROVE  /\ len["arena"] >= plan["arena"]
                      /\ \A i \in DOMAIN Tables : len[Tables[i]] = plan[Tables[i]]
                      /\ \A v \in Vecs : len[v] <= cap[v]
    BY DEF ReadyForPlan
  <2>1. step = Len(Tables) + 1
    BY DEF WorkspaceInv, Progress
  <2> QED
    BY <2>1, VecNames DEF WorkspaceInv, Progress, Roomy
<1> QED
  BY <1>1, WorkspaceInvariance, PTL

\* An allocation is only ever made for a plan that asks more of a vector than
\* any plan before it got.
THEOREM SteadyStateCorrect == Spec => SteadyState
<1>1. ASSUME WorkspaceInv, [Next]_vars
      PROVE  [ \A v \in Vecs : cap'[v] # cap[v] => cap'[v] > cap[v] /\ plan[v] > peak[v] ]_vars
  <2>1. CASE GrowArena \/ FillTable
    <3>1. \A v \in Vecs : /\ cap[v] \in Nat /\ peak[v] \in Nat /\ plan[v] \in Nat
                          /\ peak[v] <= cap[v]
      BY <1>1 DEF WorkspaceInv, TypeOK, Roomy, Plans
    <3>2. \A v \in Vecs : cap'[v] # cap[v] => cap'[v] > cap[v] /\ plan[v] > cap[v]
      BY <1>1, <2>1, GrowthSteps
    <3> QED
      BY <3>1, <3>2
  <2>2. CASE ~(GrowArena \/ FillTable)
    BY <1>1, <2>2 DEF Next, Reserve, Clear, vars
  <2> QED
    BY <2>1, <2>2
<1> QED
  BY <1>1, WorkspaceInvariance, PTL DEF Spec, SteadyState

=============================================================================
