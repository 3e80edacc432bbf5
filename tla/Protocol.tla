------------------------------ MODULE Protocol ------------------------------
(***************************************************************************)
(* The encrypted matrix-vector product of emvp/src: the cyclic dual code   *)
(* (code.rs), encryption, queries and decoding (protocol.rs), and the      *)
(* answers over a caller's arena (answer.rs, view.rs).  Values are         *)
(* Montgomery words; a stream of the PRF is the sequence of its words, an  *)
(* operator of a purpose and an index.                                     *)
(***************************************************************************)
EXTENDS Masks

-----------------------------------------------------------------------------
(* The code [I | M_g] and its dual [-M_g^T | I].                           *)

CyclicCode(p, k, multiplier) ==
  LET OrLonger(direct) ==
        IF Failed(direct) THEN NttPlan(p, NextPowerOfTwo(2 * k - 1)) ELSE direct
  IN  IF k = 0 THEN Err("ZeroDimension")
      ELSE IF Len(multiplier) # k THEN Err("LengthMismatch")
      ELSE Then(Renamed(OrLonger(NttPlan(p, k)), "Field"), LAMBDA plan :
             Ok([p |-> p, k |-> k, multiplier |-> multiplier, plan |-> plan,
                 spectrum |-> ForwardTransform(plan, Padded(multiplier, plan.length))]))

\* Mutant of FoldHigh: a linear product is not folded.
FoldHighNot(code, values) == SubSeq(values, 1, code.k)

\* A linear product folds its high half onto the low one.
FoldHigh(code, values) ==
  [i \in 1 .. code.k |->
     IF code.plan.length # code.k /\ i < code.k
     THEN AddCanonical(code.p, values[i], values[code.k + i])
     ELSE values[i]]

CyclicConvolve(code, input) ==
  FoldHigh(code, MulSpectrum(code.plan, Padded(input, code.plan.length), code.spectrum))

DualEncodeRow(code, row) ==
  LET operand == Padded(row, code.k)
  IN  IF Len(row) > code.k THEN Err("LengthMismatch")
      ELSE Ok(Map(LAMBDA v : NegCanonical(code.p, v), CyclicConvolve(code, operand)) \o operand)

\* (r | M_g^T r), with M_g^T r as a reversed convolution.
SampleCodeword(code, words) ==
  LET Codeword(r) == r \o Reverse(CyclicConvolve(code, Reverse(r)))
  IN  Codeword(Elements(code.p, FillBelow(code.p, words, code.k).out))

-----------------------------------------------------------------------------
(* The client's side.                                                      *)

\* derive_inner: every block of the mask is built from a stream of its own.
\* streams[purpose, index] are the words of a stream.
Derive(p, params, rows, instance, streams, kind, weight) ==
  LET n == N(params)
      multiplier == Elements(p, FillBelow(p, streams["CodeMultiplier", 0], params.k).out)
  IN  IF rows = 0 THEN Err("LengthMismatch")
      ELSE Then(Renamed(CyclicCode(p, params.k, multiplier), "Code"), LAMBDA code :
           Then(Renamed(Collected(Map(LAMBDA i : SampleBlock(p, n, kind, weight,
                                                             streams["Tdm", i - 1]),
                                      Upto(CeilDiv(rows, n)))), "Tdm"), LAMBDA blocks :
           Then(RowStack(blocks, rows), LAMBDA mask :
             IF mask.blockRows # n THEN Err("LengthMismatch")
             ELSE Ok([p |-> p, params |-> params, rows |-> rows, instance |-> instance,
                      code |-> code, mask |-> mask, encrypted |-> FALSE,
                      permutation |->
                        SamplePermutation(n, streams["CodePermutation", 0]).out]))))

\* A record is encoded, masked, and gathered through the permutation.
EncodeMaskedRow(state, record, maskRow) ==
  Gather(state.permutation,
         AddElements(state.p, DualEncodeRow(state.code, record).ok, maskRow).ok)

\* The matrix has rows of ell words.
Encrypt(state, matrix, stale) ==
  LET ell == state.params.ell
      Masked(dense) ==
        FoldLeft(LAMBDA out, i :
                   out \o EncodeMaskedRow(state, SubSeq(matrix, (i - 1) * ell + 1, i * ell),
                                          DenseRow(dense, i)),
                 <<>>, Upto(state.rows))
  IN  IF state.encrypted THEN Err("AlreadyEncrypted")
      ELSE IF Len(matrix) # state.rows * ell THEN Err("LengthMismatch")
      ELSE Ok([rows |-> state.rows, columns |-> N(state.params),
               values |-> Masked(StackMaterialize(state.mask, stale).ok),
               instance |-> state.instance])

\* Mutant of MaskShare: the share is taken of the permuted query.
MaskShareGathered(state, qTilde, stale) ==
  StackApply(state.mask, Gather(state.permutation, qTilde), stale).ok

\* The mask is applied to the query before the permutation.
MaskShare(state, qTilde, stale) == StackApply(state.mask, qTilde, stale).ok

\* The head of the scratch vector stages the alphas, over what it held.
Staged(qTilde, alphas) == alphas \o SubSeq(qTilde, Len(alphas) + 1, Len(qTilde))

\* Mutant of ScratchReads: the share is taken after the loop of the alphas.
ScratchReadsShareLast(qTilde, alphas) ==
  [share |-> Staged(qTilde, alphas), gather |-> qTilde, invert |-> Staged(qTilde, alphas)]

\* What the one scratch vector holds when each of its consumers reads it.
ScratchReads(qTilde, alphas) ==
  [share |-> qTilde, gather |-> qTilde, invert |-> Staged(qTilde, alphas)]

\* The last index whose slot of the pseudorandom function stays in its window.
MAX_INDEX == 2^29 - 1

QueryCore(state, q, query, streams, stale) ==
  LET p == state.p
      k == state.params.k
      Masked(codeword) ==
        [i \in 1 .. 2 * k |->
           IF i - k \in 1 .. Len(q) THEN AddCanonical(p, codeword[i], q[i - k])
           ELSE codeword[i]]
      Hidden(gathered, alphas) ==
        [values |-> Map(LAMBDA i : MontgomeryMulScalar(p, gathered[i],
                                     alphas[((i - 1) \div state.params.b) + 1]), Upto(2 * k)),
         instance |-> state.instance, query |-> query]
      Pair(reads, alphas) ==
        [query |-> Hidden(Gather(state.permutation, reads.gather), alphas),
         key |-> [p |-> p, pPrime |-> BatchInvElements(p, SubSeq(reads.invert, 1, Len(alphas)),
                                                       Len(alphas)).ok,
                  rPrime |-> MaskShare(state, reads.share, stale),
                  instance |-> state.instance, query |-> query]]
      Alphas == Elements(p, FillNonzero(p, streams["QueryNonzero", query],
                                        Blocks(state.params)).out)
  IN  IF Len(q) # state.params.ell THEN Err("LengthMismatch")
      ELSE IF query > MAX_INDEX THEN Err("Prf")
      ELSE Ok(Pair(ScratchReads(Masked(SampleCodeword(state.code,
                                                      streams["QueryCodeword", query])),
                                Alphas),
                   Alphas))

-----------------------------------------------------------------------------
(* The server's side.                                                      *)

\* One row: a dot product per block, each in four lanes.
FillAnswerRow(p, matrixRow, query, b) ==
  LET Part(s, block) == SubSeq(s, (block - 1) * b + 1, block * b)
  IN  Map(LAMBDA block : DotProduct(p, Part(matrixRow, block), Part(query, block)).ok,
          Upto(Len(query) \div b))

ValidateMatrixShape(params, matrix) ==
  LET dimensions == ValidateDimensions(params)
  IN  IF Failed(dimensions) THEN Err("Params")
      ELSE IF matrix.columns # N(params) \/ matrix.rows = 0
              \/ Len(matrix.values) # matrix.rows * matrix.columns
      THEN Err("LengthMismatch")
      ELSE Ok(N(params))

ValidateQueryAgainstMatrix(n, instance, query) ==
  IF Len(query.values) # n THEN Err("LengthMismatch")
  ELSE IF query.instance # instance THEN Err("InstanceMismatch")
  ELSE Ok(n)

\* AnswerPlan::plan: the first query that does not fit fails the batch.
AnswerPlan(params, matrix, queries) ==
  LET Fits(n) == Collected(Map(LAMBDA q : ValidateQueryAgainstMatrix(n, matrix.instance, q),
                               queries))
  IN  IF queries = <<>> THEN Err("LengthMismatch")
      ELSE Then(ValidateMatrixShape(params, matrix), LAMBDA n :
           Then(Fits(n), LAMBDA lengths :
             Ok([rows |-> matrix.rows, blocks |-> Blocks(params), queries |-> Len(queries),
                 instance |-> matrix.instance, blockSize |-> params.b,
                 arenaWords |-> Len(queries) * matrix.rows * Blocks(params)])))

\* AnswerWorkspace::reserve grows an arena and never shrinks it.
ReserveArena(arena, plan) == Padded(arena, IF Len(arena) < plan.arenaWords
                                           THEN plan.arenaWords ELSE Len(arena))

\* Row r of the flattened grid is row r % rows of query r / rows.  The words
\* behind the plan's stay.
ExecuteAnswerBatch(p, plan, matrix, queries, arena) ==
  LET Row(flat) ==
        FillAnswerRow(p, DenseRow(matrix, ((flat - 1) % plan.rows) + 1),
                      queries[((flat - 1) \div plan.rows) + 1].values, plan.blockSize)
  IN  IF Len(arena) < plan.arenaWords THEN Err("Capacity")
      ELSE Ok(FoldLeft(LAMBDA out, flat : out \o Row(flat), <<>>,
                       Upto(plan.queries * plan.rows))
              \o SubSeq(arena, plan.arenaWords + 1, Len(arena)))

\* Answers::answer: the slice of the arena with the query it answers.
AnswerOf(plan, arena, queries, index) ==
  LET words == plan.rows * plan.blocks
  IN  IF Len(queries) # plan.queries \/ index \notin 1 .. Len(queries) THEN Err("LengthMismatch")
      ELSE IF queries[index].instance # plan.instance THEN Err("InstanceMismatch")
      ELSE Ok([rows |-> plan.rows, blocks |-> plan.blocks,
               values |-> SubSeq(arena, (index - 1) * words + 1, index * words),
               instance |-> plan.instance, query |-> queries[index].query])

\* answer_into: one query, an output of its own.
AnswerInto(p, params, matrix, query) ==
  Then(AnswerPlan(params, matrix, <<query>>), LAMBDA plan :
    ExecuteAnswerBatch(p, plan, matrix, <<query>>, Filled(0, plan.arenaWords)))

-----------------------------------------------------------------------------
(* Decoding.                                                               *)

ValidateDecode(answer, key) ==
  IF \/ Len(key.pPrime) # answer.blocks \/ Len(key.rPrime) # answer.rows
     \/ Len(answer.values) # answer.rows * answer.blocks
  THEN Err("LengthMismatch")
  ELSE IF key.instance # answer.instance THEN Err("InstanceMismatch")
  ELSE IF key.query # answer.query THEN Err("QueryMismatch")
  ELSE Ok(answer.rows)

DecodeRow(answer, key, row) ==
  LET p == key.p
      Term(sum, block) ==
        AddCanonical(p, sum, MontgomeryMulScalar(p, key.pPrime[block],
                               answer.values[(row - 1) * answer.blocks + block]))
  IN  SubCanonical(p, FoldLeft(Term, 0, Upto(answer.blocks)), key.rPrime[row])

DecodeInto(answer, key, outputLength) ==
  Then(ValidateDecode(answer, key), LAMBDA rows :
    IF outputLength # rows THEN Err("LengthMismatch")
    ELSE Ok(Map(LAMBDA row : DecodeRow(answer, key, row), Upto(rows))))

\* All answers are validated before an output changes.
DecodeBatchInto(answers, keys, outputLengths) ==
  IF answers = <<>> \/ Len(keys) # Len(answers) \/ Len(outputLengths) # Len(answers)
  THEN Err("LengthMismatch")
  ELSE Then(Collected(Pairwise(ValidateDecode, answers, keys)), LAMBDA rows :
         IF outputLengths # rows THEN Err("LengthMismatch")
         ELSE Ok(Pairwise(LAMBDA a, key : Map(LAMBDA row : DecodeRow(a, key, row), Upto(a.rows)),
                          answers, keys)))
=============================================================================
