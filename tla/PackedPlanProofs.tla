--------------------------- MODULE PackedPlanProofs --------------------------
(***************************************************************************)
(* plan_chunks, for any list of jobs of any shape, on any device.  The     *)
(* inductive invariant says where the loop stands in terms of what it has  *)
(* recorded: the segments end at or before queryStart of the current job   *)
(* and at the fill of the last chunk (Cursor), they are as EveryQuery,     *)
(* Ordered and WithinLimits want them, and an empty chunk has no fill.     *)
(***************************************************************************)
EXTENDS PackedPlan, TLAPS

-----------------------------------------------------------------------------
(* Division as the code uses it.                                            *)

LEMMA Division ==
  ASSUME NEW a \in Nat, NEW b \in Positive
  PROVE  /\ a \div b \in Nat
         /\ (a \div b) * b <= a
         /\ a < (a \div b) * b + b
BY DEF Positive

LEMMA TimesMonotone ==
  ASSUME NEW a \in Nat, NEW b \in Nat, NEW c \in Nat, a <= b
  PROVE  a * c <= b * c /\ a * c \in Nat /\ b * c \in Nat
OBVIOUS

\* A bound in whole multiples, padded by less than one of them.
LEMMA TimesCancel ==
  ASSUME NEW a \in Nat, NEW b \in Nat, NEW c \in Positive, a * c < b * c + c
  PROVE  a <= b
BY DEF Positive

LEMMA Multiple ==
  ASSUME NEW a \in Nat, NEW b \in Positive
  PROVE  (a * b) % b = 0
BY DEF Positive

\* div_ceil: the least number of parts of b that hold a.
LEMMA CeilDivBounds ==
  ASSUME NEW a \in Nat, NEW b \in Positive
  PROVE  /\ CeilDiv(a, b) \in Nat
         /\ a <= CeilDiv(a, b) * b
         /\ CeilDiv(a, b) * b < a + b
         /\ CeilDiv(a, b) <= a
         /\ a > 0 => CeilDiv(a, b) > 0
<1> DEFINE q == (a + b - 1) \div b
<1>1. b \in Nat /\ b >= 1 /\ a + b - 1 \in Nat
  BY DEF Positive
<1>2. q \in Nat /\ q * b <= a + b - 1 /\ a + b - 1 < q * b + b
  BY <1>1, Division
<1> HIDE DEF q
<1>3. q * b \in Nat
  BY <1>1, <1>2
<1>4. a <= q * b /\ q * b < a + b
  BY <1>1, <1>2, <1>3
<1>5. q <= a
  <2>1. a <= a * b /\ a * b \in Nat
    BY <1>1
  <2>2. q * b < a * b + b
    BY <1>1, <1>3, <1>4, <2>1
  <2> QED
    BY <1>2, <2>2, TimesCancel
<1>6. a > 0 => q > 0
  BY <1>1, <1>2, <1>4
<1> QED
  BY <1>2, <1>4, <1>5, <1>6 DEF CeilDiv, q

\* align_up: the next multiple of the device's alignment.
LEMMA Aligned ==
  ASSUME device.alignment \in Positive, NEW x \in Nat
  PROVE  /\ AlignUp(x) \in Nat
         /\ x <= AlignUp(x)
         /\ AlignUp(x) % device.alignment = 0
         /\ x = 0 => AlignUp(x) = 0
<1> DEFINE k == CeilDiv(x, device.alignment)
<1>1. k \in Nat /\ x <= k * device.alignment /\ k <= x
  BY CeilDivBounds
<1>2. AlignUp(x) = k * device.alignment
  BY DEF AlignUp, CeilDiv
<1>3. device.alignment \in Nat
  BY DEF Positive
<1> HIDE DEF k
<1>4. (k * device.alignment) % device.alignment = 0
  BY <1>1, Multiple
<1>5. k * device.alignment \in Nat
  BY <1>1, <1>3
<1>6. x = 0 => k * device.alignment = 0
  BY <1>1, <1>3
<1> QED
  BY <1>1, <1>2, <1>4, <1>5, <1>6

-----------------------------------------------------------------------------
(* Shapes, devices and what a segment may hold.                             *)

LEMMA ConstantTypes ==
  /\ WorkgroupSize \in Nat /\ WorkgroupSize >= 1
  /\ MaxWorkgroups \in Nat /\ MaxWorkgroups >= 1
  /\ TileMin \in Nat /\ TileMin >= 1
  /\ U32 \in Nat /\ U32 >= 1
  /\ MaxWorkgroups * WorkgroupSize \in Nat
  /\ MaxAnswerWords \in Nat
BY PackedAssumption DEF Positive, MaxAnswerWords

LEMMA DeviceType ==
  ASSUME device \in Devices
  PROVE  device.buffer \in Nat /\ device.binding \in Nat /\ device.alignment \in Positive
BY PackedAssumption

LEMMA ShapeType ==
  ASSUME NEW shape \in Shapes
  PROVE  /\ shape.n \in Positive /\ shape.queries \in Positive
         /\ AnswerPerQuery(shape) \in Positive
<1>1. /\ shape.n \in Positive /\ shape.queries \in Positive
      /\ shape.rows \in Positive /\ shape.s \in Positive
  BY PackedAssumption
<1>2. shape.rows * shape.s \in Positive
  BY <1>1 DEF Positive
<1> QED
  BY <1>1, <1>2 DEF AnswerPerQuery

\* Every count up to MaxQueries keeps within the bindings and the indices.
LEMMA MaxQueriesBounds ==
  ASSUME device \in Devices, NEW shape \in Shapes
  PROVE  /\ MaxQueries(shape) \in Nat
         /\ \A c \in Nat : c <= MaxQueries(shape) =>
              /\ c * shape.n \in Nat /\ c * AnswerPerQuery(shape) \in Nat
              /\ c * shape.n <= device.binding
              /\ c * AnswerPerQuery(shape) <= device.binding
              /\ c * AnswerPerQuery(shape) <= MaxAnswerWords
<1> DEFINE apq == AnswerPerQuery(shape)
           n == shape.n
           b == device.binding
<1>1. n \in Positive /\ apq \in Positive /\ b \in Nat /\ U32 - 1 \in Nat
      /\ MaxAnswerWords \in Nat
  BY ShapeType, DeviceType, ConstantTypes
<1>2. n \in Nat /\ apq \in Nat
  BY <1>1 DEF Positive
<1> DEFINE q1 == b \div n
           q2 == b \div apq
           q3 == (U32 - 1) \div n
           q4 == MaxAnswerWords \div apq
<1>3. /\ q1 \in Nat /\ q2 \in Nat /\ q3 \in Nat /\ q4 \in Nat
      /\ q1 * n <= b /\ q2 * apq <= b /\ q4 * apq <= MaxAnswerWords
  <2> HIDE DEF apq, n, b
  <2> QED
    BY <1>1, Division
<1>4. MaxQueries(shape) = Least(Least(q1, q2), Least(q3, q4))
  BY DEF MaxQueries
<1> HIDE DEF apq, n, b, q1, q2, q3, q4
<1>5. /\ MaxQueries(shape) \in Nat /\ MaxQueries(shape) <= q1
      /\ MaxQueries(shape) <= q2 /\ MaxQueries(shape) <= q4
  BY <1>3, <1>4 DEF Least
<1>6. ASSUME NEW c \in Nat, c <= MaxQueries(shape)
      PROVE  /\ c * n \in Nat /\ c * apq \in Nat
             /\ c * n <= b /\ c * apq <= b /\ c * apq <= MaxAnswerWords
  <2>1. c <= q1 /\ c <= q2 /\ c <= q4
    BY <1>3, <1>5, <1>6
  <2>2. c * n <= q1 * n /\ c * apq <= q2 * apq /\ c * apq <= q4 * apq
    BY <1>2, <1>3, <2>1, TimesMonotone
  <2>3. /\ c * n \in Nat /\ c * apq \in Nat /\ q1 * n \in Nat /\ q2 * apq \in Nat
        /\ q4 * apq \in Nat
    BY <1>2, <1>3
  <2> QED
    BY <1>1, <1>3, <2>2, <2>3
<1> QED
  BY <1>5, <1>6 DEF apq, n, b

\* dispatch_grid: enough threads, within the dimensions, and no index of the
\* padded grid beyond a u32.
LEMMA GridBounds ==
  ASSUME NEW threads \in Nat, threads > 0, threads <= MaxAnswerWords
  PROVE  LET x == WorkgroupsX(threads)
             y == WorkgroupsY(threads)
         IN  /\ x \in Nat /\ y \in Nat
             /\ threads <= x * y * WorkgroupSize
             /\ x * y * WorkgroupSize <= U32
             /\ x <= MaxWorkgroups /\ y <= MaxWorkgroups
<1> DEFINE S == WorkgroupSize
           M == MaxWorkgroups
           w == Workgroups(threads)
           x == WorkgroupsX(threads)
           y == WorkgroupsY(threads)
<1>1. /\ S \in Nat /\ S >= 1 /\ S \in Positive
      /\ M \in Nat /\ M >= 1 /\ M \in Positive /\ U32 \in Nat
      /\ M * S \in Nat /\ (M * M) * S \in Nat /\ (M * M) - M \in Nat
      /\ ((M * M) - M) * S = ((M * M) * S) - (M * S)
      /\ threads <= U32 - (M * S) /\ M * S <= U32 /\ U32 <= (M * M) * S
  BY ConstantTypes, PackedAssumption DEF Positive, MaxAnswerWords
<1>2. /\ w \in Nat /\ w > 0 /\ threads <= w * S /\ w * S < threads + S
  BY <1>1, CeilDivBounds DEF Workgroups
<1>3. /\ x = Least(w, M) /\ y = CeilDiv(w, x)
  BY DEF WorkgroupsX, WorkgroupsY
<1> HIDE DEF w, x, y, S, M
<1>4. x \in Nat /\ 1 <= x /\ x <= M /\ x <= w /\ (x = w \/ x = M)
  BY <1>1, <1>2, <1>3 DEF Least
<1>5. x \in Positive
  BY <1>4 DEF Positive
<1>6. y \in Nat /\ y > 0 /\ w <= y * x /\ y * x < w + x
  BY <1>2, <1>3, <1>5, CeilDivBounds
<1>7. x * y = y * x /\ x * y \in Nat
  BY <1>4, <1>6
<1>8. threads <= (x * y) * S
  <2>1. w * S <= (x * y) * S
    BY <1>1, <1>2, <1>6, <1>7, TimesMonotone
  <2> QED
    BY <1>1, <1>2, <1>7, <2>1
<1>9. (x * y) * S <= U32 /\ y <= M
  <2>1. CASE w <= M
    <3>1. x = w
      BY <1>1, <1>2, <1>3, <2>1 DEF Least
    <3>2. y * x < 1 * x + x
      BY <1>4, <1>6, <3>1
    <3>3. y <= 1
      BY <1>5, <1>6, <3>2, TimesCancel
    <3>4. y = 1 /\ x * y = x
      BY <1>4, <1>6, <3>3
    <3>5. x * S <= M * S
      BY <1>1, <1>4, TimesMonotone
    <3> QED
      BY <1>1, <1>4, <3>4, <3>5
  <2>2. CASE w > M
    <3>1. x = M
      BY <1>1, <1>4, <2>2
    <3>2. x * y <= w + M - 1 /\ w + M - 1 \in Nat
      BY <1>1, <1>2, <1>6, <1>7, <3>1
    <3>3. (x * y) * S <= (w + M - 1) * S
      BY <1>1, <1>7, <3>2, TimesMonotone
    <3>4. (w + M - 1) * S = (w * S) + (M * S) - S
      BY <1>1, <1>2
    <3>5. (x * y) * S <= U32
      BY <1>1, <1>2, <1>7, <3>3, <3>4
    <3>6. w * S < (((M * M) - M) * S) + S
      BY <1>1, <1>2
    <3>7. w <= (M * M) - M
      BY <1>1, <1>2, <3>6, TimesCancel
    <3>8. y * M < (M - 1) * M + M /\ M - 1 \in Nat
      BY <1>1, <1>2, <1>6, <3>1, <3>7
    <3>9. y <= M - 1
      BY <1>1, <1>6, <3>8, TimesCancel
    <3> QED
      BY <1>1, <1>6, <3>5, <3>9
  <2> QED
    BY <1>1, <1>2, <2>1, <2>2
<1> QED
  BY <1>4, <1>6, <1>8, <1>9 DEF S, M, x, y

-----------------------------------------------------------------------------
(* The inductive invariant.                                                 *)

\* What is recorded lies behind the place the loop has come to.
Cursor ==
  /\ \A i \in DOMAIN segments :
       /\ segments[i].job <= Len(list)
       /\ \/ segments[i].job < job
          \/ /\ segments[i].job = job /\ pc # "job"
             /\ segments[i].start + segments[i].count <= queryStart
       /\ segments[i].chunk <= chunk
       /\ segments[i].chunk = chunk => /\ QueryEnd(segments[i]) <= queryWords
                                       /\ AnswerEnd(segments[i]) <= answerWords
  /\ ChunkEmpty => queryWords = 0 /\ answerWords = 0

PlanInv == TypeOK /\ Cursor /\ Ordered /\ EveryQuery /\ WithinLimits /\ FailsOnlyOnOneQuery

\* The loop's types, spelled out for the steps that follow.
LEMMA PlaceTypes ==
  ASSUME TypeOK
  PROVE  /\ Len(list) \in Nat /\ job \in Nat /\ chunk \in Nat
         /\ device.buffer \in Nat /\ device.binding \in Nat /\ device.alignment \in Positive
         /\ job \in 1 .. Len(list) => Shape \in Shapes
         /\ \A i \in DOMAIN list : list[i] \in Shapes
BY DeviceType, PackedAssumption DEF TypeOK, Shape, Positive

\* The segment the loop is about to place is well-formed, and within the limits
\* once it fits.
LEMMA CandidateLimits ==
  ASSUME TypeOK, pc = "place"
  PROVE  /\ Candidate \in Segment
         /\ Candidate.chunk = chunk /\ Candidate.job = job
         /\ Candidate.start = queryStart /\ Candidate.count = count
         /\ queryWords <= Candidate.queryOffset /\ answerWords <= Candidate.answerOffset
         /\ Candidate.queryWords = count * Shape.n
         /\ Candidate.answerWords = count * AnswerPerQuery(Shape)
         /\ queryWords = 0 => Candidate.queryOffset = 0
         /\ answerWords = 0 => Candidate.answerOffset = 0
         /\ Candidate.queryWords <= device.binding /\ Candidate.answerWords <= device.binding
         /\ Candidate.queryOffset % device.alignment = 0
         /\ Candidate.answerOffset % device.alignment = 0
         /\ CeilDiv(count, Candidate.tile) * AnswerPerQuery(Shape)
              <= Candidate.x * Candidate.y * WorkgroupSize
         /\ Candidate.x * Candidate.y * WorkgroupSize <= U32
         /\ Candidate.x <= MaxWorkgroups /\ Candidate.y <= MaxWorkgroups
<1> DEFINE apq == AnswerPerQuery(Shape)
           tile == QueriesPerTile(count)
           threads == CeilDiv(count, tile) * apq
<1>1. /\ job \in 1 .. Len(list) /\ Shape \in Shapes
      /\ count \in Nat /\ count >= 1 /\ count <= MaxQueries(Shape)
      /\ device.alignment \in Positive
  <2>1. job \in 1 .. Len(list)
    BY PlaceTypes DEF TypeOK
  <2>2. Shape \in Shapes
    BY <2>1, PlaceTypes
  <2>3. MaxQueries(Shape) \in Nat
    BY <2>2, MaxQueriesBounds DEF TypeOK
  <2> QED
    BY <2>1, <2>2, <2>3, PlaceTypes DEF TypeOK
<1>2. /\ count * Shape.n \in Nat /\ count * apq \in Nat
      /\ count * Shape.n <= device.binding /\ count * apq <= device.binding
      /\ count * apq <= MaxAnswerWords
  BY <1>1, MaxQueriesBounds DEF TypeOK
<1>3. apq \in Nat /\ apq >= 1
  BY <1>1, ShapeType DEF Positive
<1>4. tile \in Positive
  BY PackedAssumption DEF QueriesPerTile, Positive
<1>5. /\ CeilDiv(count, tile) \in Nat /\ CeilDiv(count, tile) <= count
      /\ CeilDiv(count, tile) > 0
  BY <1>1, <1>4, CeilDivBounds
<1>6. threads \in Nat /\ threads > 0 /\ threads <= MaxAnswerWords
  <2> DEFINE d == CeilDiv(count, tile)
  <2>1. d \in Nat /\ d <= count /\ d >= 1
    BY <1>5
  <2> HIDE DEF d, apq
  <2>2. d * apq <= count * apq /\ d * apq \in Nat
    BY <1>1, <1>3, <2>1, TimesMonotone
  <2>3. d * apq > 0
    BY <1>3, <2>1
  <2>4. threads = d * apq
    BY DEF d
  <2> QED
    BY <1>2, <2>2, <2>3, <2>4, ConstantTypes
<1> HIDE DEF threads
<1>7. /\ WorkgroupsX(threads) \in Nat /\ WorkgroupsY(threads) \in Nat
      /\ threads <= WorkgroupsX(threads) * WorkgroupsY(threads) * WorkgroupSize
      /\ WorkgroupsX(threads) * WorkgroupsY(threads) * WorkgroupSize <= U32
      /\ WorkgroupsX(threads) <= MaxWorkgroups /\ WorkgroupsY(threads) <= MaxWorkgroups
  BY <1>6, GridBounds
<1>8. /\ queryWords \in Nat /\ answerWords \in Nat /\ queryStart \in Nat /\ chunk \in Positive
      /\ job \in Positive /\ count \in Positive
  BY <1>1 DEF TypeOK, Positive
<1>9. /\ AlignUp(queryWords) \in Nat /\ queryWords <= AlignUp(queryWords)
      /\ AlignUp(queryWords) % device.alignment = 0
      /\ queryWords = 0 => AlignUp(queryWords) = 0
  BY <1>1, <1>8, Aligned
<1>10. /\ AlignUp(answerWords) \in Nat /\ answerWords <= AlignUp(answerWords)
       /\ AlignUp(answerWords) % device.alignment = 0
       /\ answerWords = 0 => AlignUp(answerWords) = 0
  BY <1>1, <1>8, Aligned
<1>11. Candidate =
         [chunk |-> chunk, job |-> job, start |-> queryStart, count |-> count,
          queryOffset |-> AlignUp(queryWords), answerOffset |-> AlignUp(answerWords),
          queryWords |-> count * Shape.n, answerWords |-> count * apq,
          tile |-> tile, x |-> WorkgroupsX(threads), y |-> WorkgroupsY(threads)]
  BY DEF Candidate, threads
<1>12. threads = CeilDiv(count, tile) * apq
  BY DEF threads
<1> HIDE DEF tile, apq
<1>13. Candidate \in Segment
  BY <1>2, <1>4, <1>7, <1>8, <1>9, <1>10, <1>11 DEF Segment
<1> QED
  BY <1>2, <1>7, <1>9, <1>10, <1>11, <1>12, <1>13 DEF apq, tile

\* What is still to be cut of a job fits what a segment may hold.
LEMMA RestBounds ==
  ASSUME TypeOK, pc = "place", NEW s \in Nat, s < Shape.queries
  PROVE  /\ Rest(s) \in Nat
         /\ Rest(s) \in 1 .. MaxQueries(Shape)
         /\ s + Rest(s) <= Shape.queries
<1>1. Shape \in Shapes
  BY PlaceTypes DEF TypeOK
<1>2. Shape.queries \in Nat /\ MaxQueries(Shape) \in Nat /\ MaxQueries(Shape) >= 1
  BY <1>1, ShapeType, MaxQueriesBounds DEF TypeOK, Positive
<1> QED
  BY <1>2 DEF Rest, Least

\* Nothing is recorded: what is said of the segments and of the list stays.
LEMMA SegmentsKept ==
  ASSUME Ordered, WithinLimits, UNCHANGED <<device, list, segments>>
  PROVE  Ordered' /\ WithinLimits'
BY DEF Ordered, WithinLimits

\* The recorded segment lies behind all others, and covers the queries from
\* queryStart on.
LEMMA PlacePreserves ==
  ASSUME PlanInv, Place
  PROVE  PlanInv'
<1> DEFINE c == Candidate
           n == Len(segments) + 1
<1>1. TypeOK /\ Cursor /\ Ordered /\ EveryQuery /\ WithinLimits
  BY DEF PlanInv
<1>2. /\ pc = "place" /\ Fits /\ chunk' = chunk /\ device' = device /\ list' = list
      /\ segments' = Append(segments, c)
      /\ queryWords' = QueryEnd(c) /\ answerWords' = AnswerEnd(c)
  BY DEF Place, Keep
<1>3. /\ c \in Segment /\ c.chunk = chunk /\ c.job = job
      /\ c.start = queryStart /\ c.count = count
      /\ queryWords <= c.queryOffset /\ answerWords <= c.answerOffset
  BY <1>1, <1>2, CandidateLimits
<1>4. /\ segments \in Seq(Segment) /\ queryStart \in Nat /\ count \in Nat /\ count >= 1
      /\ job \in 1 .. Len(list) /\ Len(list) \in Nat /\ job \in Nat /\ chunk \in Nat
      /\ queryWords \in Nat /\ answerWords \in Nat
      /\ Shape \in Shapes /\ Shape.queries \in Nat /\ queryStart + count <= Shape.queries
  <2>1. job \in 1 .. Len(list) /\ Shape \in Shapes
    BY <1>1, <1>2, PlaceTypes DEF TypeOK
  <2>2. MaxQueries(Shape) \in Nat /\ Shape.queries \in Nat
    BY <1>1, <2>1, MaxQueriesBounds, ShapeType DEF TypeOK, Positive
  <2> QED
    BY <1>1, <1>2, <2>1, <2>2, PlaceTypes DEF TypeOK
<1> HIDE DEF c
<1>5. /\ segments' \in Seq(Segment)
      /\ DOMAIN segments' = (DOMAIN segments) \cup {n}
      /\ \A i \in DOMAIN segments : segments'[i] = segments[i] /\ i < n /\ i \in Nat
      /\ segments'[n] = c /\ n \in Nat
  BY <1>2, <1>3, <1>4
<1> HIDE DEF n
<1>6. \A i \in DOMAIN segments : segments[i] \in Segment
  BY <1>4
<1>7. /\ c.queryOffset \in Nat /\ c.queryWords \in Nat /\ QueryEnd(c) \in Nat
      /\ c.answerOffset \in Nat /\ c.answerWords \in Nat /\ AnswerEnd(c) \in Nat
      /\ c.queryOffset <= QueryEnd(c) /\ c.answerOffset <= AnswerEnd(c)
  BY <1>3 DEF Segment, QueryEnd, AnswerEnd
<1>8. /\ queryWords \in Nat /\ answerWords \in Nat
       /\ queryWords <= c.queryOffset /\ answerWords <= c.answerOffset
       /\ queryWords <= QueryEnd(c) /\ answerWords <= AnswerEnd(c)
  <2>1. queryWords \in Nat /\ answerWords \in Nat
    BY <1>4
  <2>2. queryWords <= c.queryOffset /\ answerWords <= c.answerOffset
    BY <1>3
  <2> QED
    BY <1>7, <2>1, <2>2
<1>9. \A i \in DOMAIN segments :
        /\ segments[i].chunk \in Nat /\ segments[i].job \in Nat
        /\ segments[i].start \in Nat /\ segments[i].count \in Nat
        /\ QueryEnd(segments[i]) \in Nat /\ AnswerEnd(segments[i]) \in Nat
  BY <1>6 DEF Segment, QueryEnd, AnswerEnd, Positive
<1>10. \/ /\ queryStart + count = Shape.queries
         /\ pc' = "job" /\ job' = job + 1 /\ queryStart' = queryStart /\ count' = count
      \/ /\ queryStart + count < Shape.queries
         /\ pc' = "place" /\ job' = job
         /\ queryStart' = queryStart + count /\ count' = Rest(queryStart')
  BY <1>2 DEF Place
<1>11. TypeOK'
  <2>1. pc' = "place" => /\ job' <= Len(list')
                         /\ count' \in 1 .. MaxQueries(Shape)'
                         /\ queryStart' + count' <= Shape'.queries
                         /\ count' \in Nat
    <3> SUFFICES ASSUME pc' = "place"
                 PROVE  /\ job' <= Len(list')
                        /\ count' \in 1 .. MaxQueries(Shape)'
                        /\ queryStart' + count' <= Shape'.queries
                        /\ count' \in Nat
      OBVIOUS
    <3>1. /\ job' = job /\ queryStart' = queryStart + count /\ count' = Rest(queryStart')
          /\ queryStart' \in Nat /\ queryStart' < Shape.queries
      BY <1>4, <1>10
    <3>2. Shape' = Shape
      BY <1>2, <3>1 DEF Shape
    <3>3. MaxQueries(Shape)' = MaxQueries(Shape)
      BY <1>2, <3>2 DEF MaxQueries, AnswerPerQuery
    <3>4. /\ Rest(queryStart') \in Nat /\ Rest(queryStart') \in 1 .. MaxQueries(Shape)
          /\ queryStart' + Rest(queryStart') <= Shape.queries
      BY <1>1, <1>2, <3>1, RestBounds
    <3> QED
      BY <1>2, <1>4, <3>1, <3>2, <3>3, <3>4
  <2>2. job' \in 1 .. Len(list') + 1 /\ queryStart' \in Nat /\ count' \in Nat
        /\ pc' \in {"job", "place", "done", "failed"}
    BY <1>2, <1>4, <1>10, <2>1
  <2> QED
    BY <1>1, <1>2, <1>5, <1>7, <2>1, <2>2 DEF TypeOK
<1>12. Cursor'
  <2>1. ASSUME NEW i \in DOMAIN segments'
        PROVE  /\ segments'[i].job <= Len(list')
               /\ \/ segments'[i].job < job'
                  \/ /\ segments'[i].job = job' /\ pc' # "job"
                     /\ segments'[i].start + segments'[i].count <= queryStart'
               /\ segments'[i].chunk <= chunk'
               /\ segments'[i].chunk = chunk' => /\ QueryEnd(segments'[i]) <= queryWords'
                                                 /\ AnswerEnd(segments'[i]) <= answerWords'
    <3>1. CASE i = n
      <4>1. segments'[i] = c
        BY <1>5, <3>1
      <4>2. c.job < job' \/ (c.job = job' /\ pc' # "job" /\ c.start + c.count <= queryStart')
        BY <1>3, <1>4, <1>10
      <4>3. c.job <= Len(list') /\ c.chunk <= chunk'
        BY <1>2, <1>3, <1>4
      <4> QED
        BY <1>2, <1>7, <4>1, <4>2, <4>3
    <3>2. CASE i \in DOMAIN segments
      <4>1. /\ segments[i].job <= Len(list)
            /\ \/ segments[i].job < job
               \/ /\ segments[i].job = job
                  /\ segments[i].start + segments[i].count <= queryStart
            /\ segments[i].chunk <= chunk
            /\ segments[i].chunk = chunk => /\ QueryEnd(segments[i]) <= queryWords
                                            /\ AnswerEnd(segments[i]) <= answerWords
        BY <1>1, <3>2 DEF Cursor
      <4> QED
        <5>1. segments'[i] = segments[i]
          BY <1>5, <3>2
        <5>2. \/ segments[i].job < job'
              \/ /\ segments[i].job = job' /\ pc' # "job"
                 /\ segments[i].start + segments[i].count <= queryStart'
          BY <1>4, <1>9, <1>10, <3>2, <4>1
        <5>3. segments[i].chunk = chunk => /\ QueryEnd(segments[i]) <= QueryEnd(c)
                                           /\ AnswerEnd(segments[i]) <= AnswerEnd(c)
          BY <1>7, <1>9, <1>8, <3>2, <4>1
        <5> QED
          BY <1>2, <4>1, <5>1, <5>2, <5>3
    <3> QED
      BY <1>5, <3>1, <3>2
  <2>2. ~ChunkEmpty'
    BY <1>2, <1>3, <1>5 DEF ChunkEmpty
  <2> QED
    BY <2>1, <2>2 DEF Cursor, QueryEnd, AnswerEnd
<1>13. Ordered'
  <2>1. ASSUME NEW i \in DOMAIN segments', NEW k \in DOMAIN segments', i < k
        PROVE  /\ \/ segments'[i].job < segments'[k].job
                  \/ /\ segments'[i].job = segments'[k].job
                     /\ segments'[i].start + segments'[i].count <= segments'[k].start
               /\ segments'[i].chunk <= segments'[k].chunk
               /\ segments'[i].chunk = segments'[k].chunk =>
                    /\ QueryEnd(segments'[i]) <= segments'[k].queryOffset
                    /\ AnswerEnd(segments'[i]) <= segments'[k].answerOffset
    <3>1. i \in DOMAIN segments
      BY <1>5, <2>1
    <3>2. CASE k = n
      <4>1. /\ \/ segments[i].job < job
               \/ /\ segments[i].job = job
                  /\ segments[i].start + segments[i].count <= queryStart
            /\ segments[i].chunk <= chunk
            /\ segments[i].chunk = chunk => /\ QueryEnd(segments[i]) <= queryWords
                                            /\ AnswerEnd(segments[i]) <= answerWords
        BY <1>1, <3>1 DEF Cursor
      <4> QED
        <5>1. segments'[i] = segments[i] /\ segments'[k] = c
          BY <1>5, <3>1, <3>2
        <5>2. segments[i].chunk = chunk => /\ QueryEnd(segments[i]) <= c.queryOffset
                                           /\ AnswerEnd(segments[i]) <= c.answerOffset
          BY <1>7, <1>9, <1>8, <3>1, <4>1
        <5> QED
          BY <1>3, <4>1, <5>1, <5>2
    <3>3. CASE k \in DOMAIN segments
      BY <1>1, <1>5, <2>1, <3>1, <3>3 DEF Ordered
    <3> QED
      BY <1>5, <3>2, <3>3
  <2> QED
    BY <2>1 DEF Ordered, QueryEnd, AnswerEnd
<1>14. EveryQuery'
  <2>1. \A j, q : Covered(j, q) => Covered(j, q)'
    BY <1>5 DEF Covered
  <2>2. ASSUME NEW j, j = job, NEW q \in Nat, queryStart <= q, q < queryStart + count
        PROVE  Covered(j, q)'
    <3>1. n \in DOMAIN segments' /\ segments'[n] = c
      BY <1>5
    <3>2. c.job = j /\ c.start <= q /\ q < c.start + c.count
      BY <1>3, <2>2
    <3> QED
      BY <3>1, <3>2 DEF Covered
  <2>3. ASSUME NEW j \in DOMAIN list, NEW q \in 0 .. (list[j].queries - 1),
               j < job' \/ (j = job' /\ pc' = "place" /\ q < queryStart')
        PROVE  Covered(j, q)'
    <3>1. list[j].queries \in Nat /\ q \in Nat /\ q < list[j].queries
      BY <1>1, PlaceTypes, ShapeType DEF Positive
    <3>2. j \in Nat
      BY <1>1, PackedAssumption DEF TypeOK
    <3>3. CASE j < job
      BY <1>1, <2>1, <3>3 DEF EveryQuery
    <3>4. CASE j = job
      <4>1. CASE q < queryStart
        BY <1>1, <1>2, <2>1, <3>4, <4>1 DEF EveryQuery
      <4>2. CASE queryStart <= q
        <5>1. q < queryStart + count
          BY <1>4, <1>10, <2>3, <3>1, <3>2, <3>4 DEF Shape
        <5> QED
          BY <2>2, <3>1, <3>4, <4>2, <5>1
      <4> QED
        BY <1>4, <3>1, <4>1, <4>2
    <3> QED
      BY <1>4, <1>10, <2>3, <3>2, <3>3, <3>4
  <2>4. pc' # "done"
    BY <1>10
  <2> QED
    BY <1>2, <2>3, <2>4 DEF EveryQuery
<1>15. WithinLimits'
  <2>1. ASSUME NEW i \in DOMAIN segments'
        PROVE  LET a == segments'[i]
               IN  /\ a.queryWords <= device.binding /\ a.answerWords <= device.binding
                   /\ QueryEnd(a) <= device.buffer /\ AnswerEnd(a) <= device.buffer
                   /\ a.queryOffset % device.alignment = 0
                   /\ a.answerOffset % device.alignment = 0
                   /\ a.queryWords = a.count * list[a.job].n
                   /\ a.answerWords = a.count * AnswerPerQuery(list[a.job])
                   /\ CeilDiv(a.count, a.tile) * AnswerPerQuery(list[a.job])
                        <= a.x * a.y * WorkgroupSize
                   /\ a.x * a.y * WorkgroupSize <= U32
                   /\ a.x <= MaxWorkgroups /\ a.y <= MaxWorkgroups
    <3>1. CASE i = n
      <4>1. QueryEnd(c) <= device.buffer /\ AnswerEnd(c) <= device.buffer
        BY <1>2 DEF Fits, c
      <4>2. list[c.job] = Shape
        BY <1>3 DEF Shape
      <4>3. /\ c.queryWords <= device.binding /\ c.answerWords <= device.binding
            /\ c.queryOffset % device.alignment = 0
            /\ c.answerOffset % device.alignment = 0
            /\ c.queryWords = c.count * Shape.n
            /\ c.answerWords = c.count * AnswerPerQuery(Shape)
            /\ CeilDiv(c.count, c.tile) * AnswerPerQuery(Shape) <= c.x * c.y * WorkgroupSize
            /\ c.x * c.y * WorkgroupSize <= U32
            /\ c.x <= MaxWorkgroups /\ c.y <= MaxWorkgroups
        BY <1>1, <1>2, CandidateLimits DEF c
      <4>4. segments'[i] = c
        BY <1>5, <3>1
      <4> QED
        BY <4>1, <4>2, <4>3, <4>4
    <3>2. CASE i \in DOMAIN segments
      <4>1. segments'[i] = segments[i]
        BY <1>5, <3>2
      <4> QED
        BY <1>1, <3>2, <4>1 DEF WithinLimits
    <3> QED
      BY <1>5, <3>1, <3>2
  <2> QED
    BY <1>2, <2>1 DEF WithinLimits, QueryEnd, AnswerEnd, AnswerPerQuery
<1>16. FailsOnlyOnOneQuery'
  BY <1>10 DEF FailsOnlyOnOneQuery
<1> QED
  BY <1>11, <1>12, <1>13, <1>14, <1>15, <1>16 DEF PlanInv

\* A piece is halved, unless it is a single query: that one alone is then too
\* large for an empty chunk.
LEMMA ShrinkPreserves ==
  ASSUME PlanInv, Shrink
  PROVE  PlanInv'
<1>1. TypeOK /\ Cursor /\ Ordered /\ EveryQuery /\ WithinLimits
  BY DEF PlanInv
<1>2. /\ pc = "place" /\ ~Fits /\ ChunkEmpty
      /\ UNCHANGED <<device, list, job, queryStart, segments, chunk, queryWords, answerWords>>
      /\ \/ count \div 2 = 0 /\ pc' = "failed" /\ count' = count
         \/ count \div 2 > 0 /\ pc' = "place" /\ count' = count \div 2
  BY DEF Shrink, Fail, Keep
<1>3. /\ job \in 1 .. Len(list) /\ Shape \in Shapes /\ Shape' = Shape
      /\ MaxQueries(Shape) \in Nat /\ MaxQueries(Shape)' = MaxQueries(Shape)
      /\ Shape.queries \in Nat /\ queryStart \in Nat
      /\ count \in 1 .. MaxQueries(Shape) /\ queryStart + count <= Shape.queries
  <2>1. job \in 1 .. Len(list) /\ Shape \in Shapes
    BY <1>1, <1>2, PlaceTypes DEF TypeOK
  <2>2. Shape' = Shape
    BY <1>2 DEF Shape
  <2>3. MaxQueries(Shape)' = MaxQueries(Shape)
    BY <1>2, <2>2 DEF MaxQueries, AnswerPerQuery
  <2>4. MaxQueries(Shape) \in Nat /\ Shape.queries \in Nat
    BY <1>1, <2>1, MaxQueriesBounds, ShapeType DEF TypeOK, Positive
  <2> QED
    BY <1>1, <1>2, <2>1, <2>2, <2>3, <2>4 DEF TypeOK
<1>4. TypeOK'
  <2>1. count' \in 1 .. MaxQueries(Shape) /\ count' <= count /\ count' \in Nat
    BY <1>2, <1>3
  <2>2. queryStart + count' <= Shape.queries
    BY <1>3, <2>1
  <2> QED
    BY <1>1, <1>2, <1>3, <2>1, <2>2 DEF TypeOK
<1>5. Cursor'
  BY <1>1, <1>2 DEF Cursor, ChunkEmpty, QueryEnd, AnswerEnd
<1>6. Ordered' /\ WithinLimits'
  BY <1>1, <1>2, SegmentsKept
<1>7. EveryQuery'
  BY <1>1, <1>2 DEF EveryQuery, Covered
<1>8. FailsOnlyOnOneQuery'
  <2> SUFFICES ASSUME pc' = "failed"
               PROVE  Shape.n > device.buffer \/ AnswerPerQuery(Shape) > device.buffer
    BY <1>2 DEF FailsOnlyOnOneQuery, Shape, AnswerPerQuery
  <2>1. count = 1
    BY <1>2, <1>3
  <2>2. queryWords = 0 /\ answerWords = 0
    BY <1>1, <1>2 DEF Cursor
  <2>3. /\ Candidate.queryOffset = 0 /\ Candidate.answerOffset = 0
        /\ Candidate.queryWords = 1 * Shape.n
        /\ Candidate.answerWords = 1 * AnswerPerQuery(Shape)
    BY <1>1, <1>2, <2>1, <2>2, CandidateLimits
  <2>4. Shape.n \in Nat /\ AnswerPerQuery(Shape) \in Nat
    BY <1>3, ShapeType DEF Positive
  <2>5. QueryEnd(Candidate) = Shape.n /\ AnswerEnd(Candidate) = AnswerPerQuery(Shape)
    BY <2>3, <2>4 DEF QueryEnd, AnswerEnd
  <2> QED
    BY <1>1, <1>2, <2>4, <2>5, PlaceTypes DEF Fits
<1> QED
  BY <1>4, <1>5, <1>6, <1>7, <1>8 DEF PlanInv

\* A chunk is opened: every earlier segment lies in an earlier one.
LEMMA OpenChunkPreserves ==
  ASSUME PlanInv, OpenChunk
  PROVE  PlanInv'
<1>1. TypeOK /\ Cursor /\ Ordered /\ EveryQuery /\ WithinLimits
  BY DEF PlanInv
<1>2. /\ pc = "place" /\ pc' = "place" /\ chunk' = chunk + 1 /\ chunk \in Nat
      /\ queryWords' = 0 /\ answerWords' = 0 /\ count' = Rest(queryStart)
      /\ UNCHANGED <<device, list, job, queryStart, segments>>
  BY <1>1, PlaceTypes DEF OpenChunk, Keep
<1>3. /\ job \in 1 .. Len(list) /\ Shape \in Shapes /\ Shape' = Shape
      /\ MaxQueries(Shape)' = MaxQueries(Shape)
      /\ queryStart \in Nat /\ queryStart < Shape.queries
  <2>1. job \in 1 .. Len(list) /\ Shape \in Shapes
    BY <1>1, <1>2, PlaceTypes DEF TypeOK
  <2>2. Shape' = Shape
    BY <1>2 DEF Shape
  <2>3. MaxQueries(Shape)' = MaxQueries(Shape)
    BY <1>2, <2>2 DEF MaxQueries, AnswerPerQuery
  <2>4. MaxQueries(Shape) \in Nat /\ Shape.queries \in Nat
    BY <1>1, <2>1, MaxQueriesBounds, ShapeType DEF TypeOK, Positive
  <2> QED
    BY <1>1, <1>2, <2>1, <2>2, <2>3, <2>4 DEF TypeOK
<1>4. TypeOK'
  <2>1. /\ count' \in Nat /\ count' \in 1 .. MaxQueries(Shape)
        /\ queryStart + count' <= Shape.queries
    BY <1>1, <1>2, <1>3, RestBounds
  <2>2. chunk' \in Positive
    BY <1>2 DEF Positive
  <2> QED
    BY <1>1, <1>2, <1>3, <2>1, <2>2 DEF TypeOK
<1>5. Cursor'
  <2>1. ASSUME NEW i \in DOMAIN segments
        PROVE  segments[i].chunk <= chunk' /\ segments[i].chunk # chunk'
    <3>1. segments[i] \in Segment
      BY <1>1, <2>1 DEF TypeOK
    <3>2. segments[i].chunk \in Nat
      BY <3>1 DEF Segment, Positive
    <3> QED
      BY <1>1, <1>2, <2>1, <3>2 DEF Cursor
  <2> QED
    BY <1>1, <1>2, <2>1 DEF Cursor
<1>6. Ordered' /\ WithinLimits'
  BY <1>1, <1>2, SegmentsKept
<1>7. EveryQuery'
  BY <1>1, <1>2 DEF EveryQuery, Covered
<1>8. FailsOnlyOnOneQuery'
  BY <1>2 DEF FailsOnlyOnOneQuery
<1> QED
  BY <1>4, <1>5, <1>6, <1>7, <1>8 DEF PlanInv

\* A job is taken up, or refused because no query of it can be bound.
LEMMA StartJobPreserves ==
  ASSUME PlanInv, StartJob
  PROVE  PlanInv'
<1>1. TypeOK /\ Cursor /\ Ordered /\ EveryQuery /\ WithinLimits
  BY DEF PlanInv
<1>2. /\ pc = "job" /\ job <= Len(list)
      /\ UNCHANGED <<device, list, job, segments, chunk, queryWords, answerWords>>
      /\ \/ /\ MaxQueries(Shape) = 0 /\ pc' = "failed"
            /\ UNCHANGED <<queryStart, count>>
         \/ /\ MaxQueries(Shape) > 0 /\ pc' = "place" /\ queryStart' = 0
            /\ count' = Least(Shape.queries, MaxQueries(Shape))
  BY DEF StartJob, Fail, Keep
<1>3. /\ Shape \in Shapes /\ Shape' = Shape
      /\ MaxQueries(Shape) \in Nat /\ MaxQueries(Shape)' = MaxQueries(Shape)
      /\ Shape.queries \in Nat /\ Shape.queries >= 1
  <2>1. Shape \in Shapes
    BY <1>1, <1>2, PlaceTypes DEF TypeOK
  <2>2. Shape' = Shape
    BY <1>2 DEF Shape
  <2>3. MaxQueries(Shape)' = MaxQueries(Shape)
    BY <1>2, <2>2 DEF MaxQueries, AnswerPerQuery
  <2>4. MaxQueries(Shape) \in Nat /\ Shape.queries \in Nat /\ Shape.queries >= 1
    BY <1>1, <2>1, MaxQueriesBounds, ShapeType DEF TypeOK, Positive
  <2> QED
    BY <2>1, <2>2, <2>3, <2>4
<1>4. TypeOK'
  <2>1. pc' = "place" =>
          /\ queryStart' = 0 /\ count' \in Nat
          /\ count' \in 1 .. MaxQueries(Shape) /\ count' <= Shape.queries
    BY <1>2, <1>3 DEF Least
  <2>2. /\ queryStart' \in Nat /\ count' \in Nat
        /\ pc' \in {"job", "place", "done", "failed"}
    BY <1>1, <1>2, <2>1 DEF TypeOK
  <2>3. pc' = "place" => /\ job' <= Len(list')
                         /\ count' \in 1 .. MaxQueries(Shape)'
                         /\ queryStart' + count' <= Shape'.queries
    BY <1>2, <1>3, <2>1, <2>2
  <2> QED
    BY <1>1, <1>2, <2>2, <2>3 DEF TypeOK
<1>5. Cursor'
  <2>1. \A i \in DOMAIN segments : segments[i].job < job
    BY <1>1, <1>2 DEF Cursor
  <2> QED
    BY <1>1, <1>2, <2>1 DEF Cursor, ChunkEmpty, QueryEnd, AnswerEnd
<1>6. Ordered' /\ WithinLimits'
  BY <1>1, <1>2, SegmentsKept
<1>7. EveryQuery'
  <2>1. ASSUME NEW j \in DOMAIN list, NEW q \in 0 .. (list[j].queries - 1),
               j < job \/ (j = job /\ pc' = "place" /\ q < queryStart')
        PROVE  Covered(j, q)
    <3>1. list[j].queries \in Nat
      BY <1>1, PlaceTypes, ShapeType DEF Positive
    <3>2. ~(pc' = "place" /\ q < queryStart')
      BY <1>2, <3>1
    <3> QED
      BY <1>1, <2>1, <3>2 DEF EveryQuery
  <2>2. pc' # "done"
    BY <1>2
  <2> QED
    BY <1>2, <2>1, <2>2 DEF EveryQuery, Covered
<1>8. FailsOnlyOnOneQuery'
  BY <1>2, <1>3 DEF FailsOnlyOnOneQuery, Shape, MaxQueries, AnswerPerQuery
<1> QED
  BY <1>4, <1>5, <1>6, <1>7, <1>8 DEF PlanInv

LEMMA PlanInductive ==
  ASSUME PlanInv, [Next]_vars
  PROVE  PlanInv'
<1>1. TypeOK /\ Cursor /\ Ordered /\ EveryQuery /\ WithinLimits /\ FailsOnlyOnOneQuery
  BY DEF PlanInv
<1>2. CASE Finish
  <2>1. /\ pc = "job" /\ pc' = "done" /\ job > Len(list)
        /\ UNCHANGED <<device, list, job, queryStart, count, segments, chunk,
                       queryWords, answerWords>>
    BY <1>2 DEF Finish, Keep
  <2>2. TypeOK'
    BY <1>1, <2>1 DEF TypeOK
  <2>3. Cursor'
    BY <1>1, <2>1 DEF Cursor, ChunkEmpty, QueryEnd, AnswerEnd
  <2>4. Ordered' /\ WithinLimits'
    BY <1>1, <2>1, SegmentsKept
  <2>5. EveryQuery'
    BY <1>1, <2>1 DEF EveryQuery, Covered
  <2>6. FailsOnlyOnOneQuery'
    BY <2>1 DEF FailsOnlyOnOneQuery
  <2> QED
    BY <2>2, <2>3, <2>4, <2>5, <2>6 DEF PlanInv
<1>3. CASE UNCHANGED vars
  <2>1. UNCHANGED <<device, list, pc, job, queryStart, count, segments, chunk,
                    queryWords, answerWords>>
    BY <1>3 DEF vars
  <2>2. TypeOK'
    BY <1>1, <2>1 DEF TypeOK, Shape, MaxQueries, AnswerPerQuery
  <2>3. Cursor'
    BY <1>1, <2>1 DEF Cursor, ChunkEmpty, QueryEnd, AnswerEnd
  <2>4. Ordered' /\ WithinLimits'
    BY <1>1, <2>1, SegmentsKept
  <2>5. EveryQuery'
    BY <1>1, <2>1 DEF EveryQuery, Covered
  <2>6. FailsOnlyOnOneQuery'
    BY <1>1, <2>1 DEF FailsOnlyOnOneQuery, MaxQueries, AnswerPerQuery
  <2> QED
    BY <2>2, <2>3, <2>4, <2>5, <2>6 DEF PlanInv
<1> QED
  BY <1>2, <1>3, StartJobPreserves, PlacePreserves, ShrinkPreserves, OpenChunkPreserves
  DEF Next

LEMMA PlanStart == Init => PlanInv
<1> SUFFICES ASSUME Init PROVE PlanInv
  OBVIOUS
<1>1. segments = <<>> /\ DOMAIN segments = {} /\ segments \in Seq(Segment)
  BY DEF Init
<1>2. Len(list) \in Nat /\ \A j \in DOMAIN list : j \in Nat /\ j >= 1
  BY PackedAssumption DEF Init
<1>3. TypeOK
  BY <1>1, <1>2 DEF Init, TypeOK, Positive
<1>4. Cursor /\ Ordered /\ WithinLimits /\ FailsOnlyOnOneQuery
  BY <1>1 DEF Init, Cursor, Ordered, WithinLimits, FailsOnlyOnOneQuery
<1>5. EveryQuery
  BY <1>2 DEF Init, EveryQuery
<1> QED
  BY <1>3, <1>4, <1>5 DEF PlanInv

\* However the jobs and the device are shaped, the six hold at every turn of
\* the loop.
THEOREM PlanInvariance == Spec => []PlanInv
BY PlanStart, PlanInductive, PTL DEF Spec

\* The loop's variables keep their types: no count of queries is zero, and none
\* exceeds what a binding holds.
THEOREM PackedTypeCorrect == Spec => []TypeOK
BY PlanInvariance, PTL DEF PlanInv

\* The segments cut every list exactly: no query is lost, none is answered
\* twice, and no two ranges of a chunk's buffers overlap.
THEOREM ExactlyOnceCorrect == Spec => []ExactlyOnce
BY PlanInvariance, PTL DEF PlanInv, ExactlyOnce

\* Every segment keeps within the device's buffer, binding and alignment limits,
\* and its grid covers its tiles without an index beyond a u32.
THEOREM WithinLimitsCorrect == Spec => []WithinLimits
BY PlanInvariance, PTL DEF PlanInv

\* The only lists that are refused have a query that does not fit alone.
THEOREM FailsOnlyOnOneQueryCorrect == Spec => []FailsOnlyOnOneQuery
BY PlanInvariance, PTL DEF PlanInv

=============================================================================
