------------------------------- MODULE Masks -------------------------------
(***************************************************************************)
(* The trapdoored matrices of trapdoor-matrices: the Ring-LPN map, the     *)
(* Toeplitz product and the weighted RAA product, each a square matrix     *)
(* that its owner applies fast and materializes densely once, and the      *)
(* rectangular mask that stacks them.                                      *)
(*                                                                         *)
(* Values are Montgomery words.  A generator is the sequence of the words  *)
(* it will return; sampling returns what is left of it.  Scratch buffers   *)
(* are arguments: they hold whatever an earlier call left in them.         *)
(***************************************************************************)
EXTENDS Extension, Parameters

CONSTANT ColumnRetries   \* MAX_EMPTY_COLUMN_RETRIES, 1024 in the code

ASSUME MasksAssumption == ColumnRetries \in Nat \ {0}

Basis(p, i, length) == [j \in 1 .. length |-> IF i = j THEN MontgomeryOne(p) ELSE 0]

-----------------------------------------------------------------------------
(* Dense matrices, row-major, and public permutations in gather form.      *)

Dense(rows, columns, values) ==
  IF rows = 0 \/ columns = 0 THEN Err("ZeroDimension")
  ELSE IF Len(values) # rows * columns THEN Err("LengthMismatch")
  ELSE Ok([rows |-> rows, columns |-> columns, values |-> values])

DenseRow(matrix, i) ==
  SubSeq(matrix.values, (i - 1) * matrix.columns + 1, i * matrix.columns)

DenseApply(p, matrix, input) ==
  IF Len(input) # matrix.columns THEN Err("LengthMismatch")
  ELSE LET Entry(i) ==
             FoldLeft(LAMBDA sum, c : AddCanonical(p, sum, c), 0,
               Pairwise(LAMBDA a, b : MontgomeryMulScalar(p, a, b), DenseRow(matrix, i), input))
       IN  Ok(Map(Entry, Upto(matrix.rows)))

\* The dense form of a map, one application to a basis vector per column.
ByColumns(p, rows, columns, Apply(_)) ==
  LET RowMajor(staged) ==
        [x \in 1 .. rows * columns |->
           staged[((x - 1) % columns) * rows + ((x - 1) \div columns) + 1]]
  IN  Dense(rows, columns,
            RowMajor(FoldLeft(LAMBDA s, c : s \o SubSeq(Apply(Basis(p, c, columns)), 1, rows),
                              <<>>, Upto(columns))))

Permutation(indices) ==
  IF \/ \E i \in 1 .. Len(indices) : indices[i] >= Len(indices)
     \/ \E i, j \in 1 .. Len(indices) : i # j /\ indices[i] = indices[j]
  THEN Err("InvalidPermutation")
  ELSE Ok(indices)

\* Fisher-Yates, from the last index down.
SamplePermutation(length, words) ==
  LET Swap(state, upper, sample) ==
        LET i == sample.value + 1
        IN  [out |-> [state.out EXCEPT ![upper] = state.out[i], ![i] = state.out[upper]],
             rest |-> sample.rest]
  IN  FoldLeft(LAMBDA state, turn : Swap(state, length - turn + 1,
                                         SampleBelow(length - turn + 1, state.rest)),
               [out |-> [i \in 1 .. length |-> i - 1], rest |-> words],
               Upto(IF length = 0 THEN 0 ELSE length - 1))

Gather(permutation, input) == [i \in 1 .. Len(permutation) |-> input[permutation[i] + 1]]

\* Mutant of Scatter: the transpose of a permutation taken for the permutation.
ScatterAsGather(permutation, input) == Gather(permutation, input)

Scatter(permutation, input) ==
  [i \in 1 .. Len(permutation) |->
     input[CHOOSE j \in 1 .. Len(permutation) : permutation[j] = i - 1]]

-----------------------------------------------------------------------------
(* The RAA product D^T Pi_4 S_3 Pi_3 S_2 Pi_2 S_1 Pi_1 D.                  *)

Raa(p, k, c, weights, permutations) ==
  IF k = 0 \/ c = 0 THEN Err("ZeroDimension")
  ELSE IF \/ \E i \in 1 .. 3 : Len(weights[i]) # k * c
          \/ \E i \in 1 .. 4 : Len(permutations[i]) # k * c
  THEN Err("LengthMismatch")
  ELSE Ok([kind |-> "raa", p |-> p, k |-> k, c |-> c, weights |-> weights,
           permutations |-> permutations,
           sources |-> Map(LAMBDA i : i \div c, permutations[1])])

SampleRaa(p, k, c, words) ==
  LET Permuted(state, sample) == [out |-> Append(state.out, sample.out), rest |-> sample.rest]
      Weighted(state, sample) ==
        [out |-> Append(state.out, Elements(p, sample.out)), rest |-> sample.rest]
      WithWeights(permutations) ==
        Raa(p, k, c,
            FoldLeft(LAMBDA state, i : Weighted(state, FillNonzero(p, state.rest, k * c)),
                     [out |-> <<>>, rest |-> permutations.rest], Upto(3)).out,
            permutations.out)
  IN  WithWeights(FoldLeft(LAMBDA state, i : Permuted(state, SamplePermutation(k * c, state.rest)),
                           [out |-> <<>>, rest |-> words], Upto(4)))

RaaApply(raa, input) ==
  LET Scan(values, i) == WeightedScan(raa.p, values, raa.weights[i]).ok
      Summed(last) ==
        Map(LAMBDA i : FoldLeft(LAMBDA sum, v : AddCanonical(raa.p, sum, v), 0,
                                SubSeq(last, (i - 1) * raa.c + 1, i * raa.c)),
            Upto(raa.k))
      Scanned(first) ==
        FoldLeft(LAMBDA values, i : Scan(Gather(raa.permutations[i], values), i),
                 Scan(first, 1), <<2, 3>>)
  IN  IF Len(input) # raa.k THEN Err("LengthMismatch")
      ELSE Ok(Summed(Gather(raa.permutations[4], Scanned(Gather(raa.sources, input)))))

-----------------------------------------------------------------------------
(* Toeplitz maps and their product S_L Pi_L S Pi_R S_R.                    *)

ToeplitzMap(p, rows, columns, diagonals) ==
  LET Packed(length) ==
        [i \in 1 .. length |->
           IF i <= rows THEN diagonals[rows + 1 - i]
           ELSE IF length - i < columns - 1 THEN diagonals[rows + length - i + 1]
           ELSE 0]
  IN  IF rows = 0 \/ columns = 0 THEN Err("ZeroDimension")
      ELSE IF Len(diagonals) # rows + columns - 1 THEN Err("LengthMismatch")
      ELSE Then(NttPlan(p, NextPowerOfTwo(rows + columns - 1)), LAMBDA plan :
             Ok([p |-> p, rows |-> rows, columns |-> columns, diagonals |-> diagonals,
                 plan |-> plan, spectrum |-> ForwardTransform(plan, Packed(plan.length))]))

\* The input goes to the front of the transform buffer; the output comes from
\* it, and the buffer keeps the rest.
ToeplitzApply(map, input, transform) ==
  LET length == map.plan.length
      loaded == [i \in 1 .. length |-> IF i <= map.columns THEN input[i] ELSE transform[i]]
      Split(words) == [output |-> SubSeq(words, 1, map.rows),
                       transform |-> words \o SubSeq(transform, length + 1, Len(transform))]
  IN  Split(ConvolvePretransformed(map.plan, map.spectrum, map.columns, loaded).ok)

\* toeplitz apply, with the checks of its caller's buffers.
ToeplitzApplyChecked(map, input, outputLength, transform) ==
  IF \/ Len(input) # map.columns \/ outputLength # map.rows
     \/ Len(transform) < map.plan.length
  THEN Err("LengthMismatch")
  ELSE Ok(ToeplitzApply(map, input, transform))

\* Mutant of TransposeSpectrum: the frequencies are negated as if in order.
TransposeSpectrumInOrder(map) ==
  [i \in 1 .. map.plan.length |-> map.spectrum[((-(i - 1)) % map.plan.length) + 1]]

\* The spectrum of the transpose: slot i, which holds frequency f of the map,
\* takes the slot of frequency -f.
TransposeSpectrum(map) ==
  LET bits == TrailingZeros(map.plan.length)
      Source(i) == ReverseBits((-ReverseBits(i, bits)) % map.plan.length, bits)
  IN  [i \in 1 .. map.plan.length |-> map.spectrum[Source(i - 1) + 1]]

ToeplitzTranspose(map, input) ==
  SubSeq(MulSpectrum(map.plan, Padded(input, map.plan.length), TransposeSpectrum(map)),
         1, map.columns)

FastProduct(p, k, right, piRight, middle, piLeft, left) ==
  IF k = 0 THEN Err("ZeroDimension")
  ELSE IF \/ <<right.rows, right.columns>> # <<2 * k, k>> \/ Len(piRight) # 2 * k
          \/ <<middle.rows, middle.columns>> # <<2 * k, 2 * k>> \/ Len(piLeft) # 2 * k
          \/ <<left.rows, left.columns>> # <<k, 2 * k>>
  THEN Err("LengthMismatch")
  ELSE Ok([kind |-> "toeplitz", p |-> p, k |-> k, right |-> right, piRight |-> piRight,
           middle |-> middle, piLeft |-> piLeft, left |-> left])

\* The diagonals are drawn before the permutations.
SampleFastProduct(p, k, words) ==
  LET Drawn(state, sample) == [out |-> Append(state.out, sample.out), rest |-> sample.rest]
      Toeplitz(diagonals, piRight, piLeft) ==
        Then(ToeplitzMap(p, 2 * k, k, diagonals[1]), LAMBDA right :
        Then(ToeplitzMap(p, 2 * k, 2 * k, diagonals[2]), LAMBDA middle :
        Then(ToeplitzMap(p, k, 2 * k, diagonals[3]), LAMBDA left :
          FastProduct(p, k, right, piRight, middle, piLeft, left))))
      Permuted(diagonals, permutations) ==
        Toeplitz(Map(LAMBDA d : Elements(p, d), diagonals), permutations[1], permutations[2])
      WithDiagonals(diagonals) ==
        Permuted(diagonals.out,
                 FoldLeft(LAMBDA state, i : Drawn(state, SamplePermutation(2 * k, state.rest)),
                          [out |-> <<>>, rest |-> diagonals.rest], Upto(2)).out)
  IN  IF k = 0 THEN Err("ZeroDimension")
      ELSE WithDiagonals(FoldLeft(LAMBDA state, n : Drawn(state, FillBelow(p, state.rest, n)),
                                  [out |-> <<>>, rest |-> words],
                                  <<3 * k - 1, 4 * k - 1, 3 * k - 1>>))

\* One transform buffer, of the middle map's length, serves the three maps.
FastProductApply(product, input, stale) ==
  LET OnLeft(b) == ToeplitzApply(product.left, Gather(product.piLeft, b.output), b.transform)
      OnMiddle(a) == ToeplitzApply(product.middle, Gather(product.piRight, a.output), a.transform)
      buffer == Filled(stale, product.middle.plan.length)
  IN  IF Len(input) # product.k THEN Err("LengthMismatch")
      ELSE Ok(OnLeft(OnMiddle(ToeplitzApply(product.right, input, buffer))).output)

FastProductTranspose(product, input) ==
  ToeplitzTranspose(product.right,
    Scatter(product.piRight,
      ToeplitzTranspose(product.middle,
        Scatter(product.piLeft, ToeplitzTranspose(product.left, input)))))

\* Its top rows are the transposed product's images of as many basis vectors.
FastProductTopRows(product, rows) ==
  IF rows = 0 THEN Err("ZeroDimension")
  ELSE IF rows > product.k THEN Err("LengthMismatch")
  ELSE Dense(rows, product.k,
             FoldLeft(LAMBDA s, r :
                        s \o FastProductTranspose(product, Basis(product.p, r, product.k)),
                      <<>>, Upto(rows)))

-----------------------------------------------------------------------------
(* Ring-LPN: H E with H = [I | M_a] over an extension and E sparse, by     *)
(* columns.                                                                *)

Sparse(rows, columns, offsets, rowIndices, values) ==
  IF Len(offsets) # columns + 1 THEN Err("LengthMismatch")
  ELSE IF \/ offsets[1] # 0 \/ \E i \in 1 .. columns : offsets[i] > offsets[i + 1]
          \/ Last(offsets) # Len(rowIndices) \/ Last(offsets) # Len(values)
  THEN Err("InvalidSparseOffsets")
  ELSE IF \E e \in 1 .. Len(rowIndices) : rowIndices[e] >= rows
  THEN Err("SparseRowOutOfBounds")
  ELSE Ok([rows |-> rows, columns |-> columns, offsets |-> offsets,
           rowIndices |-> rowIndices, values |-> values])

\* Entry e belongs to the column whose offsets enclose it.
SparseApply(p, matrix, input) ==
  LET Column(e) ==
        CHOOSE c \in 1 .. matrix.columns : matrix.offsets[c] < e /\ e <= matrix.offsets[c + 1]
      Entry(out, e) ==
        [out EXCEPT ![matrix.rowIndices[e] + 1] =
           AddCanonical(p, @, MontgomeryMulScalar(p, matrix.values[e], input[Column(e)]))]
  IN  FoldLeft(Entry, Filled(0, matrix.rows), Indices(matrix.values))

\* new, and new_unchecked_irreducible, which does not verify.
RingExtension(p, k, modulus, verify) ==
  IF verify THEN ExtensionField(p, k, modulus) ELSE UncheckedExtension(p, k, modulus)

\* from_parts, of parts whose shapes its caller has checked.
FromParts(p, k, extension, multiplier, sparse) ==
  [kind |-> "ring", p |-> p, k |-> k, extension |-> extension,
   multiplier |-> Map(LAMBDA a : a % p, multiplier), sparse |-> sparse]

\* u0 + a * u1, of the two halves of E * input.
RingApply(ring, input) ==
  LET Product(u) ==
        MulExtension(ring.extension, ring.multiplier, SubSeq(u, ring.k + 1, 2 * ring.k)).ok
      Sum(u) == Pairwise(LAMBDA a, b : AddCanonical(ring.p, a, b), Product(u),
                         SubSeq(u, 1, ring.k))
  IN  IF Len(input) # ring.k THEN Err("LengthMismatch")
      ELSE Ok(Elements(ring.p, Sum(Values(ring.p, SparseApply(ring.p, ring.sparse, input)))))

\* One pass over the cells of a column; each is nonzero with chance weight / rows.
DrawColumn(p, rows, weight, words) ==
  LET Stored(state, i, value) ==
        [rowIndices |-> Append(state.rowIndices, i - 1),
         values |-> state.values \o Elements(p, value.out), rest |-> value.rest]
      Cell(state, i, pick) ==
        IF pick.value < weight THEN Stored(state, i, FillNonzero(p, pick.rest, 1))
        ELSE [state EXCEPT !.rest = pick.rest]
  IN  FoldLeft(LAMBDA state, i : Cell(state, i, SampleBelow(rows, state.rest)),
               [rowIndices |-> <<>>, values |-> <<>>, rest |-> words], Upto(rows))

\* An empty column is drawn again, alone.
SampleColumn(p, rows, weight, words) ==
  LET Nonempty(column) == IF column.values = <<>> THEN Err("SamplingRetryBudgetExhausted")
                          ELSE Ok(column)
  IN  Nonempty(FoldLeft(LAMBDA column, i :
                 IF column.values # <<>> THEN column
                 ELSE DrawColumn(p, rows, weight, column.rest),
               [rowIndices |-> <<>>, values |-> <<>>, rest |-> words], Upto(ColumnRetries)))

SampleBernoulli(p, k, weight, words) ==
  LET Stored(state, column) ==
        Ok([offsets |-> Append(state.offsets, Last(state.offsets) + Len(column.values)),
            rowIndices |-> state.rowIndices \o column.rowIndices,
            values |-> state.values \o column.values, rest |-> column.rest])
      start == [offsets |-> <<0>>, rowIndices |-> <<>>, values |-> <<>>, rest |-> words]
  IN  Then(FoldLeft(LAMBDA state, i :
                      Then(state, LAMBDA s :
                      Then(SampleColumn(p, 2 * k, weight, s.rest),
                           LAMBDA column : Stored(s, column))),
                    Ok(start), Upto(k)),
           LAMBDA m : Sparse(2 * k, k, m.offsets, m.rowIndices, m.values))

\* Miller-Rabin once more, with the bases 2 to 11.
IsPrimeU32(n) ==
  IF \E q \in {2, 3, 5, 7, 11, 13} : n % q = 0
  THEN n \in {2, 3, 5, 7, 11, 13}
  ELSE n >= 2 /\ \A base \in {2, 3, 5, 7, 11} : Passes(n, base)

\* Whether an element has the full two-power order.
RingConstant(p, candidate) ==
  candidate > 1 /\ ModularPow(p, candidate, 2^(TwoAdicity(p) - 1)) = p - 1

\* X^k - c with c of order 2^TwoAdicity, from the smallest base that gives one.
AutomaticRingModulus(p, k) ==
  LET Candidate(base) == ModularPow(p, base, (p - 1) \div 2^TwoAdicity(p))
      bases == {base \in 2 .. 64 : RingConstant(p, Candidate(base))}
      first == CHOOSE base \in bases : \A other \in bases : base <= other
  IN  IF ~IsPrimeU32(p) THEN Err("ModulusNotPrime")
      ELSE IF k = 0 \/ TwoAdicity(p) < 2 \/ ~IsPowerOfTwo(k) \/ bases = {}
      THEN Err("AutomaticModulusUnsupported")
      ELSE Ok([i \in 1 .. k + 1 |-> CASE i = 1 -> p - Candidate(first)
                                      [] i = k + 1 -> 1
                                      [] OTHER -> 0])

ValidateWeight(k, weight) ==
  IF weight = 0 THEN Err("ZeroDimension")
  ELSE IF weight > k THEN Err("WeightExceedsColumns")
  ELSE Ok(weight)

SampleParts(p, k, weight, modulus, verify, words) ==
  LET Drawn(extension, multiplier) ==
        Then(SampleBernoulli(p, k, weight, multiplier.rest), LAMBDA sparse :
          Ok(FromParts(p, k, extension, multiplier.out, sparse)))
  IN  Then(Renamed(RingExtension(p, k, modulus, verify), "ExtensionField"), LAMBDA extension :
        Drawn(extension, FillBelow(p, words, k)))

\* sample: the modulus is picked, and irreducible by its form.
SampleRing(p, k, weight, estimates, words) ==
  IF k = 0 THEN Err("ZeroDimension")
  ELSE Then(ValidateWeight(k, weight), LAMBDA w :
       Then(AutomaticRingModulus(p, k), LAMBDA modulus :
         IF Assess(p, k, weight, estimates).level = "Broken" THEN Err("InsecureParameters")
         ELSE SampleParts(p, k, weight, modulus, FALSE, words)))

\* sample_with_modulus: the caller's modulus is tested.
SampleRingWith(p, k, weight, modulus, estimates, words) ==
  IF k = 0 THEN Err("ZeroDimension")
  ELSE Then(ValidateWeight(k, weight), LAMBDA w :
         IF Assess(p, k, weight, estimates).level = "Broken" THEN Err("InsecureParameters")
         ELSE SampleParts(p, k, weight, modulus, TRUE, words))

-----------------------------------------------------------------------------
(* Blocks and stacks.                                                      *)

\* A block of one of the constructions, every attack on it estimated to cost
\* enough; "verified" and "reducible" give the ring its modulus.
SampleBlock(p, k, kind, weight, words) ==
  LET costly == [decoding |-> TRUE, enumeration |-> TRUE, discounted |-> TRUE]
      one == [i \in 1 .. k + 1 |-> CASE i = 1 -> p - 1 [] i = k + 1 -> 1 [] OTHER -> 0]
  IN  CASE kind = "ring" -> SampleRing(p, k, weight, costly, words)
        [] kind \in {"verified", "reducible"} ->
             Then(IF kind = "verified" THEN AutomaticRingModulus(p, k) ELSE Ok(one),
                  LAMBDA modulus : SampleRingWith(p, k, weight, modulus, costly, words))
        [] kind = "toeplitz" -> SampleFastProduct(p, k, words)
        [] kind = "raa" -> SampleRaa(p, k, 2, words)

BlockApply(block, input, stale) ==
  CASE block.kind = "ring" -> RingApply(block, input)
    [] block.kind = "toeplitz" -> FastProductApply(block, input, stale)
    [] block.kind = "raa" -> RaaApply(block, input)

\* materialize_top_rows: by columns, but for the Toeplitz product.
TopRows(block, rows, stale) ==
  IF block.kind = "toeplitz" THEN FastProductTopRows(block, rows)
  ELSE IF rows = 0 THEN Err("ZeroDimension")
  ELSE IF rows > block.k THEN Err("LengthMismatch")
  ELSE ByColumns(block.p, rows, block.k, LAMBDA input : BlockApply(block, input, stale).ok)

RowStack(blocks, totalRows) ==
  LET n == blocks[1].k
  IN  IF blocks = <<>> \/ n = 0 \/ (\E i \in 1 .. Len(blocks) : blocks[i].k # n)
         \/ totalRows = 0 \/ CeilDiv(totalRows, n) # Len(blocks)
      THEN Err("LengthMismatch")
      ELSE Ok([blocks |-> blocks, totalRows |-> totalRows, blockRows |-> n])

\* The rows the last block supplies.
TailRows(stack) == stack.totalRows - (Len(stack.blocks) - 1) * stack.blockRows

SuppliedRows(stack, i) == IF i = Len(stack.blocks) THEN TailRows(stack) ELSE stack.blockRows

\* A block that is cut goes through a buffer of its own.
StackApply(stack, input, stale) ==
  IF Len(input) # stack.blockRows THEN Err("LengthMismatch")
  ELSE Ok(FoldLeft(LAMBDA output, i :
                     output \o SubSeq(BlockApply(stack.blocks[i], input, stale).ok, 1,
                                      SuppliedRows(stack, i)),
                   <<>>, Indices(stack.blocks)))

StackMaterialize(stack, stale) ==
  Dense(stack.totalRows, stack.blockRows,
        FoldLeft(LAMBDA values, i :
                   values \o TopRows(stack.blocks[i], SuppliedRows(stack, i), stale).ok.values,
                 <<>>, Indices(stack.blocks)))
=============================================================================
