----------------------------- MODULE Transform -----------------------------
(***************************************************************************)
(* The number-theoretic transforms of prime-field-layer/src/ntt and the    *)
(* convolutions built on them.  Values are Montgomery words; a twiddle is  *)
(* kept in the three forms the three kinds of butterflies use.  What the   *)
(* code computes in place is the value an operator returns.                *)
(***************************************************************************)
EXTENDS Field

CONSTANT ProductCutoff   \* SCHOOLBOOK_PRODUCT_CUTOFF, 5184 in the code

ASSUME TransformAssumption == ProductCutoff \in Nat

NextPowerOfTwo(n) ==
  CHOOSE k \in {2^e : e \in 0 .. WordBits} : k >= n /\ (k = 1 \/ k \div 2 < n)

\* reverse_bits, of the lowest bits of n.
RECURSIVE ReverseBits(_, _)
ReverseBits(n, bits) ==
  IF bits = 0 THEN 0
  ELSE (n % 2) * 2^(bits - 1) + ReverseBits(n \div 2, bits - 1)

-----------------------------------------------------------------------------
(* Butterflies.  Sums of words wrap as a release build's do.               *)

\* Mutant of Backend: the bound of the lazy butterflies is one bit too high.
BackendLazyToHalf(p) == IF p >= Word \div 2 THEN "Montgomery" ELSE "ShoupLazy"

Backend(p) ==
  CASE p >= Word \div 2 -> "Montgomery"
    [] p < Word \div 4  -> "ShoupLazy"
    [] OTHER            -> "Shoup"

Twiddle(p, w) ==
  [canonical |-> w, shoup |-> ((w * Word) \div p) % Word, montgomery |-> ToMontgomery(p, w)]

\* In [0, 2p) for any word.
ShoupMulLazy(p, value, w) ==
  (value * w.canonical - ((value * w.shoup) \div Word) * p) % Word

\* From [0, 4p) to [0, 2p): the wrapped difference is the smaller one unless
\* the subtraction borrows.
HalveInterval(value, twoP) ==
  LET wrapped == (value - twoP) % Word IN IF wrapped < value THEN wrapped ELSE value

ReduceWord(value, p) == IF value >= p THEN value - p ELSE value

Normalize(p, value) == ReduceWord(HalveInterval(value, 2 * p), p)

\* Cooley-Tukey: the pair a butterfly writes, of the pair (x, y) and its twiddle.
Forward(p, x, y, w) ==
  LET Lazy(lhs, product) == <<(lhs + product) % Word, (lhs + 2 * p - product) % Word>>
      Strictly(product) ==
        <<ReduceWord((x + product) % Word, p), ReduceWord((x + p - product) % Word, p)>>
      Exactly(product) == <<AddCanonical(p, x, product), SubCanonical(p, x, product)>>
  IN  CASE Backend(p) = "ShoupLazy"  -> Lazy(HalveInterval(x, 2 * p), ShoupMulLazy(p, y, w))
        [] Backend(p) = "Shoup"      -> Strictly(ReduceWord(ShoupMulLazy(p, y, w), p))
        [] Backend(p) = "Montgomery" -> Exactly(MontgomeryMul(p, y, w.montgomery))

\* Gentleman-Sande.
Backward(p, x, y, w) ==
  CASE Backend(p) = "ShoupLazy" ->
         <<HalveInterval((x + y) % Word, 2 * p), ShoupMulLazy(p, (x + 2 * p - y) % Word, w)>>
    [] Backend(p) = "Shoup" ->
         <<ReduceWord((x + y) % Word, p),
           ReduceWord(ShoupMulLazy(p, ReduceWord((x + p - y) % Word, p), w), p)>>
    [] Backend(p) = "Montgomery" ->
         <<AddCanonical(p, x, y), MontgomeryMul(p, SubCanonical(p, x, y), w.montgomery)>>

\* The lazy butterflies leave words that are not canonical.
Finish(p, values) ==
  IF Backend(p) = "ShoupLazy" THEN Map(LAMBDA v : Normalize(p, v), values) ELSE values

-----------------------------------------------------------------------------
(* Plans.                                                                  *)

\* twiddles[d][b] belongs to block b of the stage of distance d.
Stages(p, root, length) ==
  [d \in {2^e : e \in 0 .. TrailingZeros(length) - 1} |->
     LET blocks == length \div (2 * d)
     IN  [b \in 0 .. blocks - 1 |->
            Twiddle(p, ModularPow(p, root, ReverseBits(b, TrailingZeros(blocks)) * d))]]

NttPlan(p, length) ==
  Then(RootOfUnity(p, length), LAMBDA root :
    Ok([p |-> p, length |-> length,
        inverseLength |-> ToMontgomery(p, Inv(p, length % p).ok),
        forward |-> Stages(p, root, length),
        inverse |-> Stages(p, Inv(p, root).ok, length)]))

\* One stage: position j pairs with the position that is d away in its block.
Stage(plan, Fly(_, _, _, _), twiddles, values, d) ==
  LET Pair(low, w) == Fly(plan.p, values[low], values[low + d], w)
      Value(i) ==
        LET half == ((i - 1) \div d) % 2
        IN  Pair(i - half * d, twiddles[d][(i - 1) \div (2 * d)])[half + 1]
  IN  Map(Value, Indices(values))

Distances(plan) == [k \in 1 .. TrailingZeros(plan.length) |-> plan.length \div 2^k]

ForwardTransform(plan, values) ==
  LET Step(v, d) == Stage(plan, Forward, plan.forward, v, d)
  IN  Finish(plan.p, FoldLeft(Step, values, Distances(plan)))

InverseTransform(plan, values) ==
  LET Step(v, d) == Stage(plan, Backward, plan.inverse, v, d)
  IN  ScalarMulElements(plan.p,
        Finish(plan.p, FoldLeft(Step, values, Reverse(Distances(plan)))),
        plan.inverseLength)

PointwiseMul(plan, lhs, rhs) == MulElements(plan.p, lhs, rhs).ok

MulSpectrum(plan, values, spectrum) ==
  InverseTransform(plan, PointwiseMul(plan, ForwardTransform(plan, values), spectrum))

ConvolveElements(plan, lhs, rhs) == MulSpectrum(plan, lhs, ForwardTransform(plan, rhs))

-----------------------------------------------------------------------------
(* Convolutions of slices of words.                                        *)

Elements(p, values) == Map(LAMBDA v : ToMontgomery(p, v), values)
Values(p, elements) == Map(LAMBDA e : FromMontgomery(p, e), elements)

Padded(values, length) ==
  [i \in 1 .. length |-> IF i <= Len(values) THEN values[i] ELSE 0]

CheckCapacity(plan, resultLength) ==
  IF NextPowerOfTwo(resultLength) > plan.length THEN Err("PlanTooSmall") ELSE Ok(resultLength)

PlannedLinear(plan, lhs, rhs) ==
  LET result == CheckCapacity(plan, Len(lhs) + Len(rhs) - 1)
      Operand(values) == Padded(Elements(plan.p, values), plan.length)
  IN  IF lhs = <<>> \/ rhs = <<>> THEN Ok(<<>>)
      ELSE IF "err" \in DOMAIN result THEN result
      ELSE Ok(Values(plan.p, SubSeq(ConvolveElements(plan, Operand(lhs), Operand(rhs)),
                                    1, result.ok)))

Cyclic(plan, lhs, rhs) ==
  IF Len(lhs) # plan.length \/ Len(rhs) # plan.length THEN Err("LengthMismatch")
  ELSE Ok(Values(plan.p, ConvolveElements(plan, Elements(plan.p, lhs), Elements(plan.p, rhs))))

\* pretransform_linear_operand.
Pretransform(plan, operand) ==
  IF operand # <<>> /\ NextPowerOfTwo(Len(operand)) > plan.length THEN Err("PlanTooSmall")
  ELSE Ok([spectrum |-> ForwardTransform(plan, Padded(Elements(plan.p, operand), plan.length)),
           length |-> Len(operand)])

\* Mutant of ConvolvePretransformed: the tail of the buffer is left as it was.
ConvolvePretransformedStale(plan, spectrum, inputLength, values) ==
  IF Len(spectrum) # plan.length \/ Len(values) # plan.length \/ inputLength > plan.length
  THEN Err("LengthMismatch")
  ELSE Ok(MulSpectrum(plan, values, spectrum))

\* What lies behind the input in the buffer is overwritten.
ConvolvePretransformed(plan, spectrum, inputLength, values) ==
  IF Len(spectrum) # plan.length \/ Len(values) # plan.length \/ inputLength > plan.length
  THEN Err("LengthMismatch")
  ELSE Ok(MulSpectrum(plan, Padded(SubSeq(values, 1, inputLength), plan.length), spectrum))

\* Convolves with a fixed operand: the output and what is left in the workspace.
Convolve(plan, fixed, input, outputLength, workspace) ==
  LET result == IF fixed.length = 0 \/ input = <<>> THEN Ok(0)
                ELSE CheckCapacity(plan, fixed.length + Len(input) - 1)
      filled == [i \in 1 .. Len(workspace) |->
                   IF i <= Len(input) THEN ToMontgomery(plan.p, input[i]) ELSE workspace[i]]
  IN  Then(result, LAMBDA length :
        IF outputLength # length \/ Len(workspace) # plan.length THEN Err("LengthMismatch")
        ELSE IF length = 0 THEN Ok([output |-> <<>>, workspace |-> workspace])
        ELSE Then(ConvolvePretransformed(plan, fixed.spectrum, Len(input), filled),
                  LAMBDA words : Ok([output |-> SubSeq(Values(plan.p, words), 1, length),
                                     workspace |-> words])))

\* A negacyclic product is a cyclic one of operands twisted by a root of -1.
NegacyclicPlan(p, length) ==
  LET Powers(base) == [i \in 1 .. length |-> PowMontgomery(p, base, i - 1)]
  IN  Then(RootOfUnity(p, 2 * length), LAMBDA psi :
      Then(NttPlan(p, length), LAMBDA ntt :
        Ok([ntt |-> ntt, twist |-> Powers(ToMontgomery(p, psi)),
            inverseTwist |-> Powers(ToMontgomery(p, Inv(p, psi).ok))])))

Negacyclic(plan, lhs, rhs) ==
  LET p == plan.ntt.p
      Times(a, b) == MontgomeryMulScalar(p, a, b)
      Twisted(values) == Pairwise(Times, Elements(p, values), plan.twist)
  IN  IF Len(lhs) # plan.ntt.length \/ Len(rhs) # plan.ntt.length THEN Err("LengthMismatch")
      ELSE Ok(Values(p, Pairwise(Times, ConvolveElements(plan.ntt, Twisted(lhs), Twisted(rhs)),
                                 plan.inverseTwist)))

Schoolbook(p, lhs, rhs) ==
  LET Product(l, r) ==
        LET Row(result, i) ==
              [k \in DOMAIN result |->
                 IF k - i + 1 \in DOMAIN r
                 THEN AddCanonical(p, result[k], MontgomeryMulScalar(p, l[i], r[k - i + 1]))
                 ELSE result[k]]
        IN  FoldLeft(Row, Padded(<<>>, Len(lhs) + Len(rhs) - 1), Indices(lhs))
  IN  Values(p, Product(Elements(p, lhs), Elements(p, rhs)))

\* The one-shot product chooses its algorithm by the lengths.
LinearConvolution(p, lhs, rhs) ==
  IF lhs = <<>> \/ rhs = <<>> THEN Ok(<<>>)
  ELSE IF Len(lhs) <= 2 \/ Len(rhs) <= 2 \/ Len(lhs) * Len(rhs) <= ProductCutoff
       THEN Ok(Schoolbook(p, lhs, rhs))
  ELSE Then(NttPlan(p, NextPowerOfTwo(Len(lhs) + Len(rhs) - 1)),
            LAMBDA plan : PlannedLinear(plan, lhs, rhs))
=============================================================================
