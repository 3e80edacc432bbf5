------------------------------- MODULE Field -------------------------------
(***************************************************************************)
(* The arithmetic of prime-field-layer: canonical residues, Montgomery     *)
(* words, the bulk kernels over slices, canonical encoding and sampling.   *)
(*                                                                         *)
(* A machine word has WordBits bits in place of 32, so that all words can  *)
(* be enumerated; sums and products of two words live in a double word     *)
(* that wraps, as a u64 does.  The modulus, a const parameter of the code, *)
(* is the first argument p of every operator.  A slice is a sequence.  An  *)
(* operation that may fail returns Ok(value) or Err(name).                 *)
(***************************************************************************)
EXTENDS Integers, Sequences, FiniteSets, SequencesExt

CONSTANTS
  WordBits,   \* bits of a machine word, 32 in the code
  Fold,       \* 2^WordBits - PseudoMersenne, 5 in the code
  Chunk       \* PSEUDO_MERSENNE_CHUNK_ELEMENTS, 1024 in the code

ASSUME FieldAssumption ==
  /\ WordBits \in Nat \ {0} /\ WordBits % 4 = 0
  /\ Fold \in Nat \ {0} /\ Chunk \in Nat \ {0}

Word == 2 ^ WordBits
Wide == Word * Word

PseudoMersenne == Word - Fold

Ok(value) == [ok |-> value]
Err(error) == [err |-> error]
Failed(result) == "err" \in DOMAIN result

\* map_err
Renamed(result, error) == IF Failed(result) THEN Err(error) ELSE result

\* The operator ? on a Result.
Then(result, Op(_)) == IF Failed(result) THEN result ELSE Op(result.ok)

Filled(word, length) == [i \in 1 .. length |-> word]

\* The turns of a loop, in order.
Upto(n) == [i \in 1 .. n |-> i]
Indices(s) == Upto(Len(s))

\* The sequence itself; SubSeq makes TLC evaluate its elements once and not at
\* every use.
Strict(s) == SubSeq(s, 1, Len(s))

\* collect: the first error, or all the values.
Collected(results) ==
  LET failed == {i \in 1 .. Len(results) : Failed(results[i])}
  IN  IF failed # {} THEN results[CHOOSE i \in failed : \A j \in failed : i <= j]
      ELSE Ok(Strict([i \in 1 .. Len(results) |-> results[i].ok]))

Map(Op(_), s) == Strict([i \in 1 .. Len(s) |-> Op(s[i])])

Pairwise(Op(_, _), lhs, rhs) == Strict([i \in 1 .. Len(lhs) |-> Op(lhs[i], rhs[i])])

\* The element-wise operations check the lengths before they write.
PairwiseChecked(Op(_, _), lhs, rhs) ==
  IF Len(lhs) # Len(rhs) THEN Err("LengthMismatch") ELSE Ok(Pairwise(Op, lhs, rhs))

-----------------------------------------------------------------------------
(* Canonical residues.                                                     *)

ReduceOnce(value, p) ==
  (((value - p) % Wide) + (IF value < p THEN p ELSE 0)) % Wide

AddCanonical(p, a, b) == ReduceOnce(a + b, p)

SubCanonical(p, a, b) == ReduceOnce(a + p - b, p)

NegCanonical(p, a) == IF a # 0 THEN p - a ELSE 0

Mul(p, a, b) == ((a * b) % Wide) % p

\* Square and multiply, over residues of any representation.
RECURSIVE Power(_, _, _, _)
Power(Times(_, _), one, base, exponent) ==
  LET Scaled(rest) == IF exponent % 2 = 1 THEN Times(base, rest) ELSE rest
  IN  IF exponent = 0 THEN one
      ELSE Scaled(Power(Times, one, Times(base, base), exponent \div 2))

ModularPow(p, base, exponent) ==
  LET Times(a, b) == (a * b) % p IN Power(Times, 1, base, exponent)

SmallPrimes == {2, 3, 5, 7, 11, 13, 17, 19, 23, 29, 31, 37}

TrailingZeros(n) == CHOOSE k \in 0 .. n : n % 2^k = 0 /\ n % 2^(k + 1) # 0

\* The Miller-Rabin test of one base, with n - 1 = odd * 2^shifts.
Passes(n, base) ==
  LET shifts == TrailingZeros(n - 1)
      odd == (n - 1) \div 2^shifts
  IN  \/ ModularPow(n, base, odd) = 1
      \/ \E s \in 0 .. shifts - 1 : ModularPow(n, base, odd * 2^s) = n - 1

IsPrime(n) ==
  IF \E q \in SmallPrimes : n % q = 0
  THEN n \in SmallPrimes
  ELSE n >= 2 /\ \A base \in {b \in {2, 7, 61} : b < n} : Passes(n, base)

TwoAdicity(p) == TrailingZeros(p - 1)

TwoAdicRoot(p) ==
  IF TwoAdicity(p) = 1 THEN p - 1
  ELSE LET nonResidue ==
             CHOOSE r \in 2 .. p : /\ ModularPow(p, r, (p - 1) \div 2) # 1
                                   /\ \A q \in 2 .. r - 1 :
                                        ModularPow(p, q, (p - 1) \div 2) = 1
       IN  ModularPow(p, nonResidue, (p - 1) \div 2^TwoAdicity(p))

IsPowerOfTwo(n) == n > 0 /\ \E k \in 0 .. WordBits : n = 2^k

\* An element of exact order length.
RootOfUnity(p, length) ==
  IF ~IsPowerOfTwo(length) \/ TrailingZeros(length) > TwoAdicity(p)
  THEN Err("UnsupportedTransformLength")
  ELSE LET Square(root, i) == Mul(p, root, root)
           steps == TwoAdicity(p) - TrailingZeros(length)
       IN  Ok(FoldLeft(Square, TwoAdicRoot(p), Upto(steps)))

-----------------------------------------------------------------------------
(* Montgomery words: the residue a is stored as a * Word % p.              *)

MontgomeryNegInv(p) ==
  LET Newton(inverse) == (inverse * ((2 - p * inverse) % Word)) % Word
  IN  (-Newton(Newton(Newton(Newton(Newton(p)))))) % Word

MontgomeryR2(p) == Wide % p
MontgomeryOne(p) == Word % p

\* What REDC adds to the product: a multiple of p that clears its low word.
Correction(p, product) == (((product % Word) * MontgomeryNegInv(p)) % Word) * p

\* Mutant of MontgomeryMul: the carry out of the double word is lost.
MontgomeryMulNoCarry(p, a, b) ==
  ReduceOnce(((a * b + Correction(p, a * b)) % Wide) \div Word, p)

\* The branchless form reads the carry off the wrapped sum ...
MontgomeryMul(p, a, b) ==
  LET Carried(sum) == (sum \div Word) + (IF sum < a * b THEN Word ELSE 0)
      Reduced(value) == (value - (IF value >= p THEN p ELSE 0)) % Word
  IN  Reduced(Carried((a * b + Correction(p, a * b)) % Wide))

\* ... the scalar form has it from the addition.
MontgomeryMulScalar(p, a, b) ==
  LET Carried(sum) == ((sum % Wide) \div Word) + (IF sum >= Wide THEN Word ELSE 0)
  IN  ReduceOnce(Carried(a * b + Correction(p, a * b)), p) % Word

ToMontgomery(p, value) == MontgomeryMulScalar(p, value, MontgomeryR2(p))

FromMontgomery(p, raw) == MontgomeryMulScalar(p, raw, 1)

PowMontgomery(p, base, exponent) ==
  LET Times(a, b) == MontgomeryMulScalar(p, a, b)
  IN  Power(Times, MontgomeryOne(p), base, exponent)

Pow(p, base, exponent) ==
  FromMontgomery(p, PowMontgomery(p, ToMontgomery(p, base), exponent))

\* The inverse of an element, a Montgomery word.
ElementInv(p, raw) ==
  IF raw = 0 THEN Err("DivisionByZero") ELSE Ok(PowMontgomery(p, raw, p - 2))

\* The inverse of any word; every multiple of p represents zero.
Inv(p, value) ==
  Then(ElementInv(p, ToMontgomery(p, value)), LAMBDA inverse : Ok(FromMontgomery(p, inverse)))

TryFromRaw(p, raw) == IF raw < p THEN Ok(raw) ELSE Err("NonCanonicalRaw")

-----------------------------------------------------------------------------
(* Kernels over slices of canonical residues.                              *)

\* Shoup's multiplication by a fixed scalar.
ScalarMul(p, values, scalar) ==
  LET shoup == (scalar * Word) \div p
      Times(value) ==
        ReduceOnce(value * scalar - ((value * shoup) \div Word) * p, p)
  IN  Map(Times, values)

\* 2^WordBits = Fold (mod p).
ReduceChunk(value) == ReduceOnce((value % Word) + Fold * (value \div Word), PseudoMersenne)

DotChunk(lhs, rhs) ==
  LET Halves(sums, product) == <<sums[1] + (product % Word), sums[2] + (product \div Word)>>
      Folded(sums) == ReduceChunk((sums[1] + Fold * sums[2]) % Wide)
  IN  Folded(FoldLeft(Halves, <<0, 0>>, Pairwise(LAMBDA a, b : a * b, lhs, rhs)))

DotPseudoMersenne(lhs, rhs) ==
  LET chunks == (Len(lhs) + Chunk - 1) \div Chunk
      Part(s, k) == SubSeq(s, (k - 1) * Chunk + 1,
                           IF k * Chunk < Len(s) THEN k * Chunk ELSE Len(s))
      Step(sum, k) == ReduceChunk((sum + DotChunk(Part(lhs, k), Part(rhs, k))) % Wide)
  IN  ReduceChunk(FoldLeft(Step, 0, Upto(chunks)))

\* The lane of element i among n: whole blocks of four, the rest in lane 0.
Lane(n, i) == IF i <= (n \div 4) * 4 THEN (i - 1) % 4 ELSE 0

\* Four lanes of a double word and a count of the carries out of it.
DotLanes(p, lhs, rhs) ==
  LET Added(lane, product) ==
        [low |-> (lane.low + product) % Wide, high |-> lane.high + ((lane.low + product) \div Wide)]
      Step(lanes, i) == [lanes EXCEPT ![Lane(Len(lhs), i)] = Added(@, lhs[i] * rhs[i])]
      Folded(lanes) ==
        LET low == lanes[0].low + lanes[1].low + lanes[2].low + lanes[3].low
            high == lanes[0].high + lanes[1].high + lanes[2].high + lanes[3].high
        IN  (((high + (low \div Wide)) % p) * MontgomeryR2(p) + ((low % Wide) % p)) % p
  IN  Folded(FoldLeft(Step, [k \in 0 .. 3 |-> [low |-> 0, high |-> 0]], Indices(lhs)))

\* Mutant of FitsWide: every product is taken for the smallest word.
FitsWideByLength(p, n) == n <= Word

\* The whole dot product fits a double word.
FitsWide(p, n) == n * ((p - 1) * (p - 1)) <= Wide - 1

DotCanonical(p, lhs, rhs) ==
  IF Len(lhs) # Len(rhs) THEN Err("LengthMismatch")
  ELSE IF p = PseudoMersenne THEN Ok(DotPseudoMersenne(lhs, rhs))
  ELSE IF FitsWide(p, Len(lhs))
       THEN Ok(FoldLeft(LAMBDA sum, i : (sum + lhs[i] * rhs[i]) % Wide, 0, Indices(lhs)) % p)
  ELSE Ok(DotLanes(p, lhs, rhs))

\* Inverts a slice of words: none is changed when one is zero.  prefixes[i] is
\* the product of the words before i, and the loop runs down from the last word
\* with the inverse of the product up to it.
BatchInv(p, words) ==
  LET Times(a, b) == MontgomeryMulScalar(p, a, b)
      Step(i, sweep) ==
        [sweep EXCEPT !.inverse = Times(@, words[i]),
                      !.out = <<Times(sweep.inverse, sweep.prefixes[i])>> \o @]
      Swept(prefixes) ==
        FoldRight(Step, Indices(words),
                  [prefixes |-> prefixes, out |-> <<>>,
                   inverse |-> PowMontgomery(p, Last(prefixes), p - 2)]).out
  IN  IF \E i \in 1 .. Len(words) : words[i] = 0 THEN Err("DivisionByZero")
      ELSE Ok(Swept(FoldLeft(LAMBDA s, w : Append(s, Times(Last(s), w)),
                             <<MontgomeryOne(p)>>, words)))

BatchInvAssign(p, values) ==
  Then(BatchInv(p, Map(LAMBDA v : ToMontgomery(p, v), values)),
       LAMBDA inverses : Ok(Map(LAMBDA raw : FromMontgomery(p, raw), inverses)))

BatchInvElements(p, values, outputLength) ==
  IF Len(values) # outputLength THEN Err("LengthMismatch") ELSE BatchInv(p, values)

-----------------------------------------------------------------------------
(* Kernels over slices of Montgomery words.                                *)

AddElements(p, lhs, rhs) == PairwiseChecked(LAMBDA a, b : AddCanonical(p, a, b), lhs, rhs)
SubElements(p, lhs, rhs) == PairwiseChecked(LAMBDA a, b : SubCanonical(p, a, b), lhs, rhs)
MulElements(p, lhs, rhs) == PairwiseChecked(LAMBDA a, b : MontgomeryMul(p, a, b), lhs, rhs)
ScalarMulElements(p, values, scalar) ==
  Map(LAMBDA a : MontgomeryMul(p, a, scalar), values)

\* Four independent sums, as in DotLanes.
DotProduct(p, lhs, rhs) ==
  LET Step(sums, i) ==
        [sums EXCEPT ![Lane(Len(lhs), i)] =
           AddCanonical(p, @, MontgomeryMulScalar(p, lhs[i], rhs[i]))]
      Total(sums) == FoldLeft(LAMBDA total, k : AddCanonical(p, total, sums[k]), 0, <<0, 1, 2, 3>>)
  IN  IF Len(lhs) # Len(rhs) THEN Err("LengthMismatch")
      ELSE Ok(Total(FoldLeft(Step, [k \in 0 .. 3 |-> 0], Indices(lhs))))

Axpy(p, output, scalar, input) ==
  PairwiseChecked(LAMBDA out, in : AddCanonical(p, out, MontgomeryMulScalar(p, scalar, in)),
             output, input)

\* The scans run in place, so a row sees the row above it already summed.
BatchedScan(p, values, weights, width) ==
  LET Step(out, i) ==
        LET Below(term) == IF i <= width THEN term ELSE AddCanonical(p, out[i - width], term)
        IN  [out EXCEPT ![i] =
               Below(MontgomeryMulScalar(p, @, weights[((i - 1) \div width) + 1]))]
  IN  IF width = 0 THEN Err("ZeroBatchWidth")
      ELSE IF Len(weights) * width >= Wide THEN Err("ShapeOverflow")
      ELSE IF Len(values) # Len(weights) * width THEN Err("LengthMismatch")
      ELSE Ok(FoldLeft(Step, values, Indices(values)))

WeightedScan(p, values, weights) ==
  IF Len(values) # Len(weights) THEN Err("LengthMismatch")
  ELSE Ok(FoldLeft(LAMBDA out, i :
             Append(out, AddCanonical(p, IF i = 1 THEN 0 ELSE out[i - 1],
                                      MontgomeryMulScalar(p, values[i], weights[i]))),
             <<>>, Indices(values)))

\* All indices are checked before the output changes; entries are [index, value].
SparseAccumulate(p, output, entries) ==
  IF \E e \in 1 .. Len(entries) : entries[e].index >= Len(output)
  THEN Err("IndexOutOfBounds")
  ELSE Ok(FoldLeft(LAMBDA out, e :
             [out EXCEPT ![e.index + 1] = AddCanonical(p, @, e.value)], output, entries))

-----------------------------------------------------------------------------
(* Canonical encoding and sampling.                                        *)

ByteBits == WordBits \div 4

ToLeBytes(value) == [i \in 1 .. 4 |-> (value \div 2^(ByteBits * (i - 1))) % 2^ByteBits]

FromLeBytes(bytes) ==
  FoldLeft(LAMBDA sum, i : sum + bytes[i] * 2^(ByteBits * (i - 1)), 0, Upto(4))

Encode(p, raw) == ToLeBytes(FromMontgomery(p, raw))

Decode(p, bytes) ==
  LET value == FromLeBytes(bytes)
  IN  IF value >= p THEN Err("NonCanonicalEncoding") ELSE Ok(ToMontgomery(p, value))

AcceptanceBound(cardinality) == (Word \div cardinality) * cardinality

\* One turn of the loop of sample_below: the words left of the generator, and
\* what was drawn.
SampleBelow(cardinality, words) ==
  LET accepted == {i \in 1 .. Len(words) : words[i] < AcceptanceBound(cardinality)}
      first == CHOOSE i \in accepted : \A j \in accepted : i <= j
  IN  [value |-> words[first] % cardinality,
       rest |-> SubSeq(words, first + 1, Len(words))]

\* fill_below, from a generator that has enough words.
FillBelow(cardinality, words, count) ==
  LET Draw(fill, i) ==
        LET sample == SampleBelow(cardinality, fill.rest)
        IN  [out |-> Append(fill.out, sample.value), rest |-> sample.rest]
  IN  FoldLeft(Draw, [out |-> <<>>, rest |-> words], Upto(count))

\* fill_uniform_nonzero: one more than a value below p - 1.
FillNonzero(p, words, count) ==
  LET fill == FillBelow(p - 1, words, count)
  IN  [fill EXCEPT !.out = Map(LAMBDA value : value + 1, @)]
=============================================================================
