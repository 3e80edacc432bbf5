------------------------------ MODULE Library ------------------------------
(***************************************************************************)
(* Calls of the pure layers, each checked against a definition of what it  *)
(* should return: field and slice kernels, transforms, extension fields,   *)
(* masks, payloads of the wire, the staging of uploads, one exchange of the *)
(* protocol over them, and the choice of parameters.  A behaviour is the   *)
(* calls a user makes of one layer: the inputs are chosen first, then what *)
(* is built of them is used.                                               *)
(***************************************************************************)
EXTENDS PrepareWorkspace, TLC

CONSTANTS
  FieldCalls, TransformCalls, ExtensionCalls, MaskCalls, ProtocolCalls, ParameterCalls,
  CodecCalls, StagingCalls,
  Stream(_, _, _)   \* the words of the stream of a seed, a purpose and an index

VARIABLES
  given,      \* the call: a layer and its inputs
  returned    \* what it returned, or None

vars == <<given, returned>>

None == Err("NotReturned")

Of(layer, calls) == {<<layer, c>> : c \in calls}

Init ==
  /\ given \in Of("field", FieldCalls) \cup Of("transform", TransformCalls)
               \cup Of("extension", ExtensionCalls) \cup Of("mask", MaskCalls)
               \cup Of("protocol", ProtocolCalls) \cup Of("parameters", ParameterCalls)
               \cup Of("codec", CodecCalls) \cup Of("staging", StagingCalls)
  /\ returned = None

Asked(layer) == given[1] = layer /\ returned = None

Inputs == given[2]

Answered(layer) == given[1] = layer /\ returned # None

\* The layer has returned step and goes on to next.
Reached(layer, step, next) ==
  /\ Answered(layer) /\ step \in DOMAIN returned /\ next \notin DOMAIN returned
  /\ UNCHANGED given

-----------------------------------------------------------------------------
(* Plain arithmetic, in place of the machine's.                            *)

PlainSum(p, s) == FoldLeft(LAMBDA sum, v : (sum + v) % p, 0, s)

PlainDot(p, lhs, rhs) == PlainSum(p, [i \in 1 .. Len(lhs) |-> (lhs[i] * rhs[i]) % p])

PlainProduct(p, lhs, rhs) ==
  IF lhs = <<>> \/ rhs = <<>> THEN <<>>
  ELSE [n \in 1 .. Len(lhs) + Len(rhs) - 1 |->
          PlainSum(p, [i \in 1 .. Len(lhs) |->
                         IF n - i + 1 \in 1 .. Len(rhs)
                         THEN ((lhs[i] % p) * (rhs[n - i + 1] % p)) % p ELSE 0])]

\* The product folded at length n, with the sign of X^n.
PlainFolded(p, lhs, rhs, sign) ==
  LET n == Len(lhs)
      product == PlainProduct(p, lhs, rhs)
  IN  [i \in 1 .. n |-> (product[i] + (IF i < n THEN sign * product[i + n] ELSE 0)) % p]

\* poly modulo a monic modulus, by Horner's rule.
PlainModulo(p, poly, modulus) ==
  LET k == Len(modulus) - 1
      Shifted(rest, c) ==
        [i \in 1 .. k |-> ((IF i = 1 THEN c ELSE rest[i - 1]) - rest[k] * modulus[i]) % p]
  IN  FoldRight(LAMBDA c, rest : Shifted(rest, c), poly, Filled(0, k))

PlainScan(p, values, weights) ==
  [i \in 1 .. Len(values) |-> PlainDot(p, SubSeq(values, 1, i), SubSeq(weights, 1, i))]

-----------------------------------------------------------------------------
(* Fields.                                                                 *)

\* The inputs are canonical: two slices, and words that need not be below p.
CallField ==
  LET p == Inputs.p
      lhs == Inputs.lhs
      rhs == Inputs.rhs
      l == Elements(p, lhs)
      r == Elements(p, rhs)
      Canonical(result) == Values(p, result.ok)
  IN  /\ Asked("field")
      /\ returned' =
           [sums        |-> Canonical(AddElements(p, l, r)),
            differences |-> Canonical(SubElements(p, l, r)),
            products    |-> Canonical(MulElements(p, l, r)),
            scaled      |-> <<ScalarMul(p, lhs, rhs[2]),
                              Values(p, ScalarMulElements(p, l, r[2]))>>,
            dots        |-> <<DotCanonical(p, lhs, rhs), DotProduct(p, l, r)>>,
            axpy        |-> Canonical(Axpy(p, l, r[2], r)),
            scans       |-> <<Canonical(WeightedScan(p, l, r)),
                              Canonical(BatchedScan(p, l \o r, r, 2))>>,
            scattered   |-> SparseAccumulate(p, lhs, <<[index |-> 1, value |-> rhs[1]],
                                                       [index |-> 1, value |-> rhs[2]]>>),
            inverses    |-> BatchInvAssign(p, lhs),
            powers      |-> <<Pow(p, lhs[2], Len(lhs)), Inv(p, rhs[2])>>,
            decoded     |-> Map(LAMBDA e : Decode(p, Encode(p, e)), l),
            prime       |-> Map(IsPrime, Inputs.words),
            raw         |-> Map(LAMBDA w : TryFromRaw(p, w), Inputs.words),
            refused     |-> <<MulElements(p, l, Tail(r)), DotProduct(p, l, Tail(r)),
                              DotCanonical(p, lhs, Tail(rhs)), BatchInvElements(p, l, 1),
                              WeightedScan(p, l, Tail(r)), BatchedScan(p, l, r, 2)>>,
            outside     |-> SparseAccumulate(p, lhs, <<[index |-> Len(lhs), value |-> 1]>>),
            unbatched   |-> BatchedScan(p, l, r, 0)]
      /\ UNCHANGED given

\* Every kernel, whichever of its algorithms the modulus and the length choose,
\* returns the residues that plain arithmetic gives: no carry is lost above half
\* of the word, no sum wraps, no wrong composite is called a prime.  A slice with
\* a zero is not inverted, and slices of unequal lengths are refused.
FieldExact ==
  Answered("field") =>
    LET p == Inputs.p
        lhs == Inputs.lhs
        rhs == Inputs.rhs
        Each(Op(_, _)) == [i \in 1 .. Len(lhs) |-> Op(lhs[i], rhs[i]) % p]
        Column(c) == LET v == lhs \o rhs IN [i \in 1 .. Len(lhs) |-> v[2 * (i - 1) + c]]
        Rows == [i \in 1 .. 2 * Len(lhs) |->
                   PlainScan(p, Column(((i - 1) % 2) + 1), rhs)[((i - 1) \div 2) + 1]]
        PrimeWord(n) == n >= 2 /\ \A d \in 2 .. n - 1 : n % d # 0
    IN  /\ returned.sums = Each(LAMBDA a, b : a + b)
        /\ returned.differences = Each(LAMBDA a, b : a - b)
        /\ returned.products = Each(LAMBDA a, b : a * b)
        /\ returned.scaled = Filled(Each(LAMBDA a, b : a * rhs[2]), 2)
        /\ returned.dots[1] = Ok(PlainDot(p, lhs, rhs))
        /\ FromMontgomery(p, returned.dots[2].ok) = PlainDot(p, lhs, rhs)
        /\ returned.axpy = Each(LAMBDA a, b : a + rhs[2] * b)
        /\ returned.scans = <<PlainScan(p, lhs, rhs), Rows>>
        /\ returned.scattered = Ok([lhs EXCEPT ![2] = (@ + rhs[1] + rhs[2]) % p])
        /\ IF \E i \in 1 .. Len(lhs) : lhs[i] = 0
           THEN returned.inverses = Err("DivisionByZero")
           ELSE \A i \in 1 .. Len(lhs) : (returned.inverses.ok[i] * lhs[i]) % p = 1
        /\ returned.powers[1] = FoldLeft(LAMBDA x, i : (x * lhs[2]) % p, 1, Upto(Len(lhs)))
        /\ IF rhs[2] = 0 THEN returned.powers[2] = Err("DivisionByZero")
           ELSE (returned.powers[2].ok * rhs[2]) % p = 1
        /\ returned.decoded = Map(Ok, Elements(p, lhs))
        /\ returned.prime = Map(PrimeWord, Inputs.words)
        /\ \A i \in 1 .. Len(Inputs.words) :
             ("ok" \in DOMAIN returned.raw[i]) = (Inputs.words[i] < p)
        /\ \A i \in 1 .. Len(returned.refused) : returned.refused[i] = Err("LengthMismatch")
        /\ returned.outside = Err("IndexOutOfBounds")
        /\ returned.unbatched = Err("ZeroBatchWidth")

-----------------------------------------------------------------------------
(* Transforms.                                                             *)

\* Two slices of the plan's length; their prefixes are convolved as well, in a
\* workspace that an earlier call has left full.
PlanTransform ==
  /\ Asked("transform")
  /\ returned' = [plan |-> NttPlan(Inputs.p, Len(Inputs.lhs)),
                  negacyclicPlan |-> NegacyclicPlan(Inputs.p, Len(Inputs.lhs))]
  /\ UNCHANGED given

Left == SubSeq(Inputs.lhs, 1, Inputs.prefix)
Right == SubSeq(Inputs.rhs, 1, Inputs.suffix)

ForwardAndBack ==
  /\ Reached("transform", "plan", "forward")
  /\ ~Failed(returned.plan)
  /\ LET plan == returned.plan.ok
         Back(forward) == [forward |-> Values(plan.p, forward),
                           back |-> InverseTransform(plan, forward)]
     IN  returned' = returned @@ Back(ForwardTransform(plan, Elements(plan.p, Inputs.lhs)))

ConvolveSlices ==
  /\ Reached("transform", "plan", "linear")
  /\ LET p == Inputs.p
         negacyclic == returned.negacyclicPlan
         length == IF Left = <<>> \/ Right = <<>> THEN 0 ELSE Len(Left) + Len(Right) - 1
     IN  returned' = returned @@
           [linear |-> LinearConvolution(p, Left, Right),
            negacyclic |-> IF Failed(negacyclic) THEN negacyclic
                           ELSE Negacyclic(negacyclic.ok, Inputs.lhs, Inputs.rhs),
            cyclic |-> Then(returned.plan, LAMBDA plan : Cyclic(plan, Inputs.lhs, Inputs.rhs)),
            planned |-> Then(returned.plan, LAMBDA plan : PlannedLinear(plan, Left, Right)),
            pretransformed |->
              Then(returned.plan, LAMBDA plan :
                Convolve(plan, Pretransform(plan, Left).ok, Right, length,
                         Elements(p, Inputs.rhs)))]

\* A transform evaluates at the powers of the root, in bit-reversed order; its
\* inverse undoes it; the cyclic, negacyclic and linear convolutions, through
\* whichever butterflies the modulus selects, with one spectrum precomputed or
\* in a dirty workspace, are products of polynomials.  A length the two-adicity
\* does not reach, and a product the plan does not hold, are refused.
TransformExact ==
  Answered("transform") =>
    LET p == Inputs.p
        lhs == Inputs.lhs
        n == Len(lhs)
        linear == PlainProduct(p, Left, Right)
        reaches(length) == (p - 1) % length = 0
        Power2(i) == ReverseBits(i - 1, TrailingZeros(n))
        At(x) == PlainDot(p, lhs, [i \in 1 .. n |-> ModularPow(p, x, i - 1)])
        Points(w) == [i \in 1 .. n |-> At(ModularPow(p, w, Power2(i)))]
    IN  /\ Failed(returned.plan) = ~reaches(n)
        /\ "forward" \in DOMAIN returned =>
             /\ returned.forward = Points(RootOfUnity(p, n).ok)
             /\ returned.back = Elements(p, lhs)
        /\ "linear" \in DOMAIN returned =>
             /\ IF Failed(returned.linear)
                THEN ~reaches(NextPowerOfTwo(Len(linear)))
                ELSE returned.linear.ok = linear
             /\ IF reaches(2 * n)
                THEN returned.negacyclic = Ok(PlainFolded(p, lhs, Inputs.rhs, -1))
                ELSE Failed(returned.negacyclic)
             /\ reaches(n) =>
                  /\ returned.cyclic = Ok(PlainFolded(p, lhs, Inputs.rhs, 1))
                  /\ IF Len(linear) > n
                     THEN /\ returned.planned = Err("PlanTooSmall")
                          /\ returned.pretransformed = Err("PlanTooSmall")
                     ELSE /\ returned.planned = Ok(linear)
                          /\ returned.pretransformed.ok.output = linear

-----------------------------------------------------------------------------
(* Extension fields.                                                       *)

\* The modulus need not be monic or irreducible; the coefficients of the operands
\* are words.
BuildExtension ==
  /\ Asked("extension")
  /\ LET p == Inputs.p
         k == Len(Inputs.modulus) - 1
     IN  returned' = [plan |-> UncheckedExtension(p, k, Inputs.modulus)]
                     @@ IF p < 6 /\ k < 4 THEN [checked |-> ExtensionField(p, k, Inputs.modulus)]
                        ELSE <<>>
  /\ UNCHANGED given

UseExtension ==
  /\ Reached("extension", "plan", "sum")
  /\ ~Failed(returned.plan)
  /\ LET plan == returned.plan.ok
         k == plan.k
         lhs == SubSeq(Inputs.lhs, 1, k)
         rhs == SubSeq(Inputs.rhs, 1, k)
         long == SubSeq(Inputs.lhs \o Inputs.rhs, 1, 2 * k - 1)
     IN  returned' = returned @@
           [sum |-> AddExtension(plan, lhs, rhs),
            difference |-> SubExtension(plan, lhs, rhs),
            product |-> MulExtension(plan, lhs, rhs),
            square |-> SquareExtension(plan, lhs),
            reduced |-> Map(LAMBDA poly : ReducePolynomial(plan, poly, k, k),
                            <<long, long \o <<0>>>>)]

\* Products and squares are reduced by the modulus, whether by long division or
\* by the reversed quotient of transforms; an extension is refused exactly when
\* its modulus is not monic, has a factor, or needs a transform the field lacks.
ExtensionExact ==
  Answered("extension") =>
    LET p == Inputs.p
        k == Len(Inputs.modulus) - 1
        f == Map(LAMBDA c : c % p, Inputs.modulus)
        lhs == SubSeq(Inputs.lhs, 1, k)
        rhs == SubSeq(Inputs.rhs, 1, k)
        Modulo(poly) == Ok(PlainModulo(p, Map(LAMBDA c : c % p, poly), f))
        Monic(d) == {Append(s, 1) : s \in [1 .. d -> 0 .. p - 1]}
        Reducible == \E d \in 1 .. k - 1 : \E g \in Monic(d), h \in Monic(k - d) :
                       PlainProduct(p, g, h) = f
    IN  IF f[k + 1] # 1 THEN returned.plan = Err("ModulusNotMonic")
        ELSE IF Failed(returned.plan)
        THEN k > SchoolbookDegree /\ ((p - 1) % NextPowerOfTwo(2 * k - 1)) # 0
        ELSE /\ "checked" \in DOMAIN returned => Failed(returned.checked) = Reducible
             /\ "sum" \in DOMAIN returned =>
                  /\ returned.sum = Ok([i \in 1 .. k |-> (lhs[i] + rhs[i]) % p])
                  /\ returned.difference = Ok([i \in 1 .. k |-> (lhs[i] - rhs[i]) % p])
                  /\ returned.product = Modulo(PlainProduct(p, lhs, rhs))
                  /\ returned.square = Modulo(PlainProduct(p, lhs, lhs))
                  /\ returned.reduced
                       = <<Modulo(SubSeq(Inputs.lhs \o Inputs.rhs, 1, 2 * k - 1)),
                           Err("ProductTooLong")>>

-----------------------------------------------------------------------------
(* Masks.                                                                  *)

\* A stack of blocks of the given kinds, in scratch buffers full of stale words.
SampleMask ==
  /\ Asked("mask")
  /\ returned' =
       [blocks |-> [i \in 1 .. Len(Inputs.kinds) |->
                      SampleBlock(Inputs.p, Inputs.k, Inputs.kinds[i], Inputs.weight,
                                  Stream(Inputs.seed, "Tdm", i))],
        modulus |-> Then(AutomaticRingModulus(Inputs.p, Inputs.k),
                         LAMBDA modulus : Ok(IsIrreducible(Inputs.p, modulus)))]
  /\ UNCHANGED given

StackMask ==
  /\ Reached("mask", "blocks", "stack")
  /\ returned' = returned @@
       [stack |-> Then(Collected(returned.blocks),
                       LAMBDA blocks : RowStack(blocks, Inputs.rows))]

ApplyMask ==
  /\ Reached("mask", "stack", "dense")
  /\ ~Failed(returned.stack)
  /\ LET stack == returned.stack.ok
     IN  returned' = returned @@
           [dense |-> StackMaterialize(stack, Inputs.stale),
            applied |-> StackApply(stack, Elements(Inputs.p, Inputs.input), Inputs.stale)]

\* What a block computes, by the definition of its factors.
PlainMask(block, v) ==
  LET p == block.p
      ApplyToeplitz(map, x) ==
        [i \in 1 .. map.rows |->
           PlainDot(p, [j \in 1 .. map.columns |->
                          FromMontgomery(p, map.diagonals[map.rows + j - i])], x)]
      At(permutation, x) == [i \in 1 .. Len(permutation) |-> x[permutation[i] + 1]]
      sparse == block.sparse
      u == [r \in 1 .. sparse.rows |->
              PlainSum(p, [e \in 1 .. Len(sparse.values) |->
                 IF sparse.rowIndices[e] + 1 = r
                 THEN FromMontgomery(p, sparse.values[e])
                      * v[Cardinality({c \in 1 .. sparse.columns : sparse.offsets[c] < e})]
                 ELSE 0])]
      product == PlainModulo(p, PlainProduct(p, block.multiplier,
                                             SubSeq(u, block.k + 1, 2 * block.k)),
                             block.extension.modulus)
      Accumulated(x, i) == PlainScan(p, At(block.permutations[i], x),
                                     Values(p, block.weights[i]))
      repeated == [i \in 1 .. block.k * block.c |-> v[((i - 1) \div block.c) + 1]]
      last == At(block.permutations[4], FoldLeft(Accumulated, repeated, <<1, 2, 3>>))
  IN  CASE block.kind = "toeplitz" ->
             ApplyToeplitz(block.left, At(block.piLeft,
               ApplyToeplitz(block.middle, At(block.piRight, ApplyToeplitz(block.right, v)))))
        [] block.kind = "ring" -> [i \in 1 .. block.k |-> (u[i] + product[i]) % p]
        [] block.kind = "raa" ->
             [i \in 1 .. block.k |->
                PlainSum(p, SubSeq(last, (i - 1) * block.c + 1, i * block.c))]

\* The dense mask that encryption adds and the fast evaluation that a query uses
\* are the same matrix, the one the sampled factors define, over blocks of
\* different kinds, a last block that is cut, and dirty scratch; the modulus
\* picked for a ring is irreducible, no column of its sparse matrix is empty, and
\* no ring is sampled that is judged broken or that cannot be evaluated.
MaskExact ==
  Answered("mask") =>
    LET p == Inputs.p
        k == Inputs.k
        blocks == returned.blocks
        Ring(i) == Inputs.kinds[i] \in {"ring", "verified", "reducible"}
        broken == ~(k >= RingDegreeFloor /\ Inputs.weight >= PlausibilityWeightFloor)
        full == CeilDiv(Inputs.rows, k) = Len(blocks)
        whole == FoldLeft(LAMBDA out, block : out \o PlainMask(block.ok, Inputs.input),
                          <<>>, blocks)
    IN  /\ ~Failed(returned.modulus) => returned.modulus.ok
        /\ \A i \in 1 .. Len(blocks) :
             IF Failed(blocks[i])
             THEN \/ Ring(i) /\ (broken \/ p % 4 = 3 \/ Inputs.kinds[i] = "reducible")
                  \/ Inputs.kinds[i] = "toeplitz" /\ (p - 1) % (4 * k) # 0
             ELSE Ring(i) =>
                    /\ ~broken /\ Inputs.kinds[i] # "reducible"
                    /\ \A c \in 1 .. k : blocks[i].ok.sparse.offsets[c]
                                           < blocks[i].ok.sparse.offsets[c + 1]
        /\ "stack" \in DOMAIN returned =>
             Failed(returned.stack) = (~full \/ Failed(Collected(blocks)))
        /\ "dense" \in DOMAIN returned =>
             /\ Values(p, returned.applied.ok) = SubSeq(whole, 1, Inputs.rows)
             /\ DenseApply(p, returned.dense.ok, Elements(p, Inputs.input)) = returned.applied

-----------------------------------------------------------------------------
(* The protocol.                                                           *)

\* One client encrypts a matrix and asks a batch of queries; the server answers
\* in an arena that an earlier, larger batch filled; the client decodes the
\* batch.  Every step reads what the steps before it returned, and what one
\* side sends is a payload the other reads.
Deliver ==
  /\ Answered("protocol") /\ "sent" \in DOMAIN returned
  /\ LET kind == returned.sent[1]
         Read(payload) ==
           ReadPayload(kind, Inputs.p,
                       OpenFrame(payload.body, payload.declared, 2 * payload.declared),
                       Inputs.stale).ok.message
     IN  returned' = [f \in (DOMAIN returned \ {"sent"}) \cup {kind} |->
                        IF f = kind THEN Read(WritePayload(kind, Inputs.p, returned.sent[2]).ok)
                        ELSE returned[f]]
  /\ UNCHANGED given

Streams ==
  [call \in {"CodeMultiplier", "CodePermutation", "Tdm", "QueryCodeword", "QueryNonzero"}
              \X (0 .. Len(Inputs.queries)) |-> Stream(Inputs.seed, call[1], call[2])]

BuildClient ==
  /\ Asked("protocol")
  /\ returned' = [client |-> Derive(Inputs.p, Inputs.params, Inputs.rows, Filled(1, 16),
                                    Streams, Inputs.kind, 3).ok]
  /\ UNCHANGED given

\* A second attempt is refused.
EncryptMatrix ==
  /\ Reached("protocol", "client", "again")
  /\ LET values == Elements(Inputs.p, Inputs.matrix)
         Encrypted(client) == Encrypt(client, values, Inputs.stale)
         again == [returned.client EXCEPT !.encrypted = TRUE]
     IN  returned' = returned @@
           [sent |-> <<"UploadMatrices",
                       <<Encrypted(returned.client).ok @@ [params |-> Inputs.params]>>>>,
            again |-> Encrypted(again)]

\* Another client, who differs in its identity alone, asks the first query too;
\* and one is asked behind the last identifier there is.
AskQueries ==
  /\ Reached("protocol", "UploadMatrices", "asked")
  /\ LET stranger == [returned.client EXCEPT !.instance = Filled(2, 16)]
         all == Append(Map(LAMBDA i : <<returned.client, i>>, Indices(Inputs.queries)),
                       <<stranger, 1>>)
         Core(client, i, query) ==
           QueryCore(client, Elements(Inputs.p, Inputs.queries[i]), query, Streams, Inputs.stale)
         Sent(asked) ==
           [asked |-> asked, beyond |-> Core(stranger, 1, MAX_INDEX + 1),
            sent |-> <<"Evaluate", <<[matrix |-> 1,
                                      queries |-> Map(LAMBDA a : a.query, Front(asked))]>>>>]
     IN  returned' = returned @@
           Sent(Map(LAMBDA c : Core(c[1], c[2], c[2]).ok, all))

Keys == Map(LAMBDA a : a.key, Front(returned.asked))

\* What the server got.
Uploaded == returned.UploadMatrices[1]
Received == returned.Evaluate[1].queries

\* The batch, its last query alone, and the batch with the foreign query.
PlanAnswers ==
  /\ Reached("protocol", "Evaluate", "plan")
  /\ LET Plan(queries) == AnswerPlan(Inputs.params, Uploaded, queries)
     IN  returned' = returned @@
           [plan |-> Plan(Received).ok,
            misplaced |-> Plan(Append(Received, Last(returned.asked).query))]

FillAnswers ==
  /\ Reached("protocol", "plan", "filled")
  /\ returned' = returned @@
       [filled |-> ExecuteAnswerBatch(Inputs.p, returned.plan, Uploaded, Received,
                     ReserveArena(Filled(Inputs.stale, Inputs.arena), returned.plan)).ok,
        alone |-> AnswerInto(Inputs.p, Inputs.params, Uploaded, Last(Received)).ok]

SendAnswers ==
  /\ Reached("protocol", "filled", "single")
  /\ "sent" \notin DOMAIN returned /\ "Products" \notin DOMAIN returned
  /\ LET plan == returned.plan
         Answer(i) == AnswerOf(plan, returned.filled, Received, i).ok
     IN  returned' = returned @@
           [sent |-> <<"Products", <<[matrix |-> 1, instance |-> plan.instance,
                                      rows |-> plan.rows, blocks |-> plan.blocks,
                                      answers |-> Map(Answer, Indices(Received))]>>>>,
            single |-> AnswerOf([plan EXCEPT !.queries = 1], returned.alone,
                                <<Last(Received)>>, 1).ok]

\* The batch, the query answered alone, and keys and outputs that do not belong.
DecodeAnswers ==
  /\ Reached("protocol", "Products", "decoded")
  /\ LET answers == returned.Products[1].answers
         lengths == Filled(Inputs.rows, Len(answers))
     IN  returned' = returned @@
           [decoded |-> Map(LAMBDA keys : DecodeBatchInto(answers, keys, lengths),
                            <<Keys, Reverse(Keys)>>),
            others |-> Map(LAMBDA d : DecodeInto(d[1], d[2], d[3]),
                           <<<<returned.single, Last(Keys), Inputs.rows>>,
                             <<answers[1], Last(returned.asked).key, Inputs.rows>>,
                             <<answers[1], Keys[1], Inputs.rows + 1>>>>)]

\* Every answer of a batch decodes to the product of the client's matrix and that
\* query's vector: encoding and codeword cancel, the mask of the matrix is the
\* share of the key, the permutation and the nonzero factors come off block by
\* block, for every mask, code length and block size, over an arena and scratch
\* that hold older words; a query answered alone decodes to the same.  The code
\* is the cyclic one also when its product is folded from a longer transform.  A
\* key of another query or client opens nothing, a foreign query fails its batch,
\* and no query is made behind the last identifier.  The factors may be staged in
\* the query's own scratch vector, as its other readers are done with it.
ProtocolExact ==
  Answered("protocol") /\ "decoded" \in DOMAIN returned =>
    LET p == Inputs.p
        ell == Inputs.params.ell
        Record(r) == SubSeq(Inputs.matrix, (r - 1) * ell + 1, r * ell)
        Product(q) == [r \in 1 .. Inputs.rows |-> PlainDot(p, Record(r), q)]
        code == returned.client.code
        operand == Padded(Inputs.queries[1], code.k)
    IN  /\ Values(p, CyclicConvolve(code, Elements(p, operand)))
             = PlainFolded(p, Values(p, code.multiplier), operand, 1)
        /\ Map(LAMBDA out : Values(p, out), returned.decoded[1].ok)
             = Map(Product, Inputs.queries)
        /\ \A i \in returned.plan.arenaWords + 1 .. Len(returned.filled) :
             returned.filled[i] = Inputs.stale
        /\ Len(Inputs.queries) > 1 => returned.decoded[2] = Err("QueryMismatch")
        /\ returned.others = <<Ok(Last(returned.decoded[1].ok)), Err("InstanceMismatch"),
                               Err("LengthMismatch")>>
        /\ returned.misplaced = Err("InstanceMismatch")
        /\ returned.again = Err("AlreadyEncrypted")
        /\ returned.beyond = Err("Prf")

-----------------------------------------------------------------------------
(* Parameters.                                                             *)

\* A search for parameters, a comparison of a power, or an assessment of a ring
\* with the plan its extension would use.
CallParameters ==
  /\ Asked("parameters")
  /\ returned' =
       CASE Inputs.ask = "search" -> Search(Inputs.ell, Inputs.lambda)
         [] Inputs.ask = "power" ->
              Ok(ScaledPowGePow2(Inputs.base, Inputs.exp, Inputs.factor, Inputs.lambda))
         [] Inputs.ask = "ring" ->
              [level |-> Assess(Inputs.p, Inputs.k, Inputs.weight, Inputs.estimates),
               plan |-> ReductionPlan(Inputs.p, Inputs.k, Filled(1, Inputs.k + 1))]
  /\ UNCHANGED given

\* The comparison is exact though it stops early on bit lengths, but that the code
\* holds every value to reach 2^0, a zero too.  A search returns a rank
\* and a block size that meet every bound in plain arithmetic, and no
\* smaller rank does; an exhausted one means that none in the budget does.  A ring
\* that is not judged broken is sparse, meets both estimates, and has the
\* transform its products need.
ParametersSound ==
  Answered("parameters") =>
    LET Reaches(base, exp, factor, lambda) ==
          FoldLeft(LAMBDA value, i : IF base > 0 /\ value >= 2^lambda THEN value
                                     ELSE value * base,
                   factor, Upto(exp)) >= 2^lambda
        Meets(k, b) ==
          LET d == CHOOSE d \in 1 .. k : d * (b - 1) >= k /\ (d - 1) * (b - 1) < k
              blocks == (2 * k) \div b
          IN  /\ (2 * k) % b = 0
              /\ k >= Inputs.ell /\ 4 * k >= Inputs.lambda
              /\ \/ Reaches(b, d - 1, b, Inputs.lambda) /\ b <= d
                 \/ Reaches(b, d - 1, d, Inputs.lambda) /\ d <= b
              /\ (blocks + 1) * k > 2 * k + Inputs.lambda
    IN  CASE Inputs.ask = "power" ->
               returned.ok = \/ Inputs.lambda = 0
                             \/ Reaches(Inputs.base, Inputs.exp, Inputs.factor, Inputs.lambda)
          [] Inputs.ask = "search" ->
               IF Inputs.ell = 0 THEN returned = Err("ZeroEll")
               ELSE IF Inputs.lambda > ProtocolMaxLambda
               THEN returned = Err("LambdaOutOfScope")
               ELSE LET floors == {Inputs.ell, CeilDiv(Inputs.lambda, 4)}
                        last == SearchRankBudget + CHOOSE f \in floors : \A g \in floors : g <= f
                        found == IF Failed(returned) THEN last ELSE returned.ok.k
                    IN  /\ Failed(returned) => returned = Err("SearchExhausted")
                        /\ ~Failed(returned) =>
                             /\ Meets(found, returned.ok.b)
                             /\ \A b \in returned.ok.b + 1 .. 2 * found : ~Meets(found, b)
                        /\ \A k \in 1 .. found - 1 : \A b \in 2 .. 2 * k : ~Meets(k, b)
          [] Inputs.ask = "ring" ->
               IF returned.level.level = "Broken" THEN returned.level.brokenReasons # <<>>
               ELSE /\ returned.level.brokenReasons = <<>>
                    /\ Inputs.weight \in 1 .. Inputs.k
                    /\ Inputs.estimates.decoding /\ Inputs.estimates.enumeration
                    /\ (returned.level.level = "Sound") = Inputs.estimates.discounted
                    /\ ~Failed(returned.plan)

-----------------------------------------------------------------------------
(* The wire.                                                               *)

\* A number written over the bytes at an offset of a payload.
Edited(body, edit) ==
  [i \in 1 .. Len(body) |->
     IF i - edit.offset \in 1 .. 8 THEN Bytes(edit.value, 8)[i - edit.offset] ELSE body[i]]

\* A message is written, and read from a stream that goes on with another frame;
\* in between the payload or the declared length may have changed, or the stream
\* lost its end.
WriteMessage ==
  /\ Asked("codec")
  /\ returned' = [written |-> WritePayload(Inputs.kind, Inputs.p, Inputs.message)]
  /\ UNCHANGED given

ReadMessage ==
  /\ Reached("codec", "written", "read")
  /\ ~Failed(returned.written)
  /\ LET body == FoldLeft(Edited, returned.written.ok.body, Inputs.edits)
         stream == SubSeq(body \o Inputs.next, 1, Len(body) + Len(Inputs.next) - Inputs.cut)
         declared == returned.written.ok.declared + Inputs.extra
         memory == IF Inputs.scarce THEN 0 ELSE 2 * declared
     IN  returned' = returned @@
           [stream |-> stream, declared |-> declared,
            read |-> ReadPayload(Inputs.kind, Inputs.p, OpenFrame(stream, declared, memory),
                                 Inputs.stale)]

\* Writers declare the length they write, and refuse only what has no shape.  A
\* frame that is delivered reads back as the message, if that may be sent at
\* all, and leaves the stream at the next frame.  Whatever a reader accepts is,
\* to the byte, the encoding of what it read: no count that wraps, no length
\* that is off, no word that is not canonical gets through, and no more is
\* reserved than the frame accounts for.
CodecExact ==
  Answered("codec") =>
    LET message == Inputs.message
        kind == Inputs.kind
        Write(m) == WritePayload(kind, Inputs.p, m).ok
        Equal(lengths) == \A i \in 2 .. Len(lengths) : lengths[i] = lengths[1]
        Widths(e) == Map(LAMBDA q : Len(q.values), e.queries)
        shaped == CASE kind = "Evaluate" ->
                         \A i \in 1 .. Len(message) : Equal(Widths(message[i]))
                    [] kind = "Products" ->
                         \A i \in 1 .. Len(message) : \A j \in 1 .. Len(message[i].answers) :
                           Len(message[i].answers[j].values)
                             = message[i].rows * message[i].blocks
                    [] OTHER -> TRUE
        sendable == CASE kind = "UploadAccepted" -> \A i \in 1 .. Len(message) : message[i] > 0
                      [] kind = "Evaluate" -> \A i \in 1 .. Len(message) :
                           \A j \in 1 .. Len(message[i].queries) :
                             message[i].queries[j].values # <<>>
                      [] OTHER -> TRUE
        untouched == Inputs.edits = <<>> /\ Inputs.extra = 0 /\ Inputs.cut <= Len(Inputs.next)
    IN  /\ Failed(returned.written) = ~shaped
        /\ "read" \in DOMAIN returned =>
             LET read == returned.read
                 rest == SubSeq(returned.stream, returned.declared + 1, Len(returned.stream))
             IN  /\ returned.written.ok.declared = Len(returned.written.ok.body)
                 /\ untouched /\ ~Inputs.scarce =>
                      IF sendable THEN read.ok.message = message ELSE Failed(read)
                 /\ ~Inputs.scarce => read # Err("AllocationFailed")
                 /\ ~Failed(read) =>
                      /\ read.ok.frame.remaining = 0 /\ read.ok.frame.inner = rest
                      /\ Write(read.ok.message).body \o rest = returned.stream

-----------------------------------------------------------------------------
(* The staging of uploads.                                                 *)

\* Several sets of uploads are planned; then one workspace is reserved for any
\* plan and filled from any set, a few times over, and committed at last.
PlanUploads ==
  /\ Asked("staging")
  /\ returned' = [plans |-> Map(PlanPrepare, Inputs.sets),
                  workspace |-> EmptyWorkspace(Inputs.memory),
                  calls |-> 0, reserved |-> 0, copied |-> 0]
  /\ UNCHANGED given

StagedSets == IF given[1] = "staging" THEN DOMAIN Inputs.sets ELSE {}

\* The i-th set has a plan, and the workspace is still there.
Usable(i) ==
  /\ Answered("staging") /\ ~Failed(returned.plans[i])
  /\ "committed" \notin DOMAIN returned
  /\ UNCHANGED given

\* A call left ws behind.  reserved is the plan the workspace was last reserved
\* for, negated if it was refused; copied is the set it was filled from since.
Leaves(call, ws, reserved, copied) ==
  /\ returned.calls < Inputs.calls
  /\ returned' = [plans |-> returned.plans, workspace |-> ws, calls |-> returned.calls + 1,
                  reserved |-> reserved, copied |-> copied,
                  before |-> returned.workspace.slots, call |-> call]

ReservePlan(i) ==
  /\ Usable(i)
  /\ LET ws == ReserveSlots(returned.workspace, returned.plans[i].ok)
     IN  Leaves(<<"reserve", i>>, ws, IF ws.error = "None" THEN i ELSE -i, 0)

CopySet(i, j) ==
  /\ Usable(i)
  /\ LET ws == CopyUploads(returned.workspace, returned.plans[i].ok, Inputs.sets[j])
     IN  Leaves(<<"copy", i, j>>, ws, returned.reserved,
               IF ws.error = "None" THEN j ELSE returned.copied)

CommitPlan(i) ==
  /\ Usable(i)
  /\ returned' = returned @@
       [plan |-> i, committed |-> CommitSlots(returned.plans[i].ok, returned.workspace)]

\* A workspace that was filled from a set commits exactly that set, in order and
\* under its own identities, whatever larger, smaller, longer or refused plans
\* it was reserved for before.  A refused reservation leaves nothing that
\* could be filled or committed for its plan; a refused copy writes nothing.
\* Slots only grow to what a plan needs, so a plan that fits is never refused;
\* nothing is allocated that the allocator was not asked for.
StagingExact ==
  Answered("staging") =>
    LET sets == Inputs.sets
        ws == returned.workspace
        Shaped(u) == LET k == u.params.k IN
          /\ u.params.ell \in 1 .. k /\ u.params.b \in 2 .. 2 * k /\ (2 * k) % u.params.b = 0
          /\ u.columns = 2 * k /\ u.rows > 0 /\ Len(u.values) = u.rows * u.columns
        Planned(i) == /\ sets[i] # <<>> /\ \A m \in DOMAIN sets[i] : Shaped(sets[i][m])
                      /\ Total(Map(LAMBDA u : Len(u.values), sets[i])) < Usize
        Alike(i, j) == Map(Shape, sets[i]) = Map(Shape, sets[j])
        Needed(i, m) == m \in DOMAIN sets[i] /\ Len(sets[i][m].values) > returned.before[m].capacity
    IN  /\ \A i \in DOMAIN sets : Failed(returned.plans[i]) = ~Planned(i)
        /\ Held(ws.slots) <= ws.memory
        /\ "call" \in DOMAIN returned =>
             LET i == returned.call[2]
                 before == returned.before
                 refused == ws.error # "None"
             IN  IF returned.call[1] = "reserve"
                 THEN /\ \A m \in DOMAIN before :
                           ws.slots[m].capacity # before[m].capacity =>
                             Needed(i, m) /\ ws.slots[m].capacity = Len(sets[i][m].values)
                      /\ refused => \/ Len(before) < Len(sets[i])
                                    \/ \E m \in DOMAIN before : Needed(i, m)
                 ELSE LET j == returned.call[3] IN
                      /\ refused => ws.slots = before
                      /\ Alike(i, j) /\ returned.reserved = i => ~refused
                      /\ returned.reserved = -i => refused
                      /\ ~Alike(i, j) => refused
        /\ "committed" \in DOMAIN returned =>
             /\ returned.reserved = -returned.plan => Failed(returned.committed)
             /\ returned.copied > 0 /\ Alike(returned.plan, returned.copied) =>
                  returned.committed = Ok(sets[returned.copied])

-----------------------------------------------------------------------------
Next ==
  \/ CallField
  \/ PlanTransform \/ ForwardAndBack \/ ConvolveSlices
  \/ BuildExtension \/ UseExtension
  \/ SampleMask \/ StackMask \/ ApplyMask
  \/ BuildClient \/ EncryptMatrix \/ AskQueries
  \/ PlanAnswers \/ FillAnswers \/ SendAnswers \/ DecodeAnswers
  \/ Deliver
  \/ CallParameters
  \/ WriteMessage \/ ReadMessage
  \/ PlanUploads
  \/ \E i \in StagedSets : ReservePlan(i) \/ CommitPlan(i)
  \/ \E i \in StagedSets, j \in StagedSets : CopySet(i, j)

Spec == Init /\ [][Next]_vars
=============================================================================
