----------------------------- MODULE Extension -----------------------------
(***************************************************************************)
(* prime-field-layer/src/extension_field: arithmetic modulo a monic        *)
(* polynomial of degree k, by long division for small degrees and by       *)
(* reversed division with transforms for large ones, and Rabin's test of   *)
(* irreducibility.  A polynomial is the sequence of its coefficients, the  *)
(* lowest first.                                                           *)
(***************************************************************************)
EXTENDS Transform

CONSTANT SchoolbookDegree   \* SCHOOLBOOK_EXTENSION_DEGREE, 23 in the code

ASSUME ExtensionAssumption == SchoolbookDegree \in Nat

-----------------------------------------------------------------------------
(* Irreducibility, over canonical residues.                                *)

Trim(poly) ==
  LET nonzero == {i \in 1 .. Len(poly) : poly[i] # 0}
  IN  IF nonzero = {} THEN <<>> ELSE SubSeq(poly, 1, CHOOSE i \in nonzero :
                                                       \A j \in nonzero : j <= i)

\* dividend - factor * X^shift * divisor
Eliminate(p, dividend, factor, shift, divisor) ==
  [i \in 1 .. Len(dividend) |->
     IF i - shift \in DOMAIN divisor
     THEN SubCanonical(p, dividend[i], Mul(p, factor, divisor[i - shift]))
     ELSE dividend[i]]

\* Divides by any nonzero polynomial; the remainder is trimmed.
RECURSIVE GeneralRemainder(_, _, _)
GeneralRemainder(p, poly, divisor) ==
  LET Divided(dividend) ==
        LET factor == Mul(p, Last(dividend), Inv(p, Last(divisor)).ok)
        IN  GeneralRemainder(p, Eliminate(p, dividend, factor,
                                          Len(dividend) - Len(divisor), divisor), divisor)
  IN  IF Len(Trim(poly)) < Len(divisor) THEN Trim(poly) ELSE Divided(Trim(poly))

\* Divides by a monic polynomial; the remainder is padded to its degree.
RECURSIVE Remainder(_, _, _)
Remainder(p, poly, divisor) ==
  LET dividend == Trim(poly)
  IN  IF Len(dividend) < Len(divisor) THEN Padded(dividend, Len(divisor) - 1)
      ELSE Remainder(p, Eliminate(p, dividend, Last(dividend),
                                  Len(dividend) - Len(divisor), divisor), divisor)

MulMod(p, lhs, rhs, modulus) ==
  LET Row(product, i) ==
        [k \in DOMAIN product |->
           IF k - i + 1 \in DOMAIN rhs
           THEN AddCanonical(p, product[k], Mul(p, lhs[i], rhs[k - i + 1]))
           ELSE product[k]]
  IN  Remainder(p, FoldLeft(Row, Padded(<<>>, Len(lhs) + Len(rhs) - 1), Indices(lhs)),
                modulus)

PowMod(p, base, exponent, modulus) ==
  LET Times(a, b) == MulMod(p, a, b, modulus)
  IN  Padded(Power(Times, <<1>>, base, exponent), Len(modulus) - 1)

\* The monic greatest common divisor.
RECURSIVE Gcd(_, _, _)
Gcd(p, lhs, rhs) ==
  IF Trim(rhs) = <<>>
  THEN Map(LAMBDA c : Mul(p, c, Inv(p, Last(Trim(lhs))).ok), Trim(lhs))
  ELSE Gcd(p, Trim(rhs), GeneralRemainder(p, lhs, Trim(rhs)))

SubPoly(p, lhs, rhs) ==
  LET length == IF Len(lhs) < Len(rhs) THEN Len(rhs) ELSE Len(lhs)
  IN  Trim(Pairwise(LAMBDA a, b : SubCanonical(p, a, b),
                    Padded(lhs, length), Padded(rhs, length)))

PrimeDivisors(n) ==
  {r \in 2 .. n : n % r = 0 /\ \A d \in 2 .. r - 1 : r % d # 0}

\* The images of X under the Frobenius map, iterated: the i-th is X^(p^i).
Frobenius(p, modulus) ==
  LET Image(images, i) == Append(images, PowMod(p, Last(images), p, modulus))
  IN  Tail(FoldLeft(Image, <<Remainder(p, <<0, 1>>, modulus)>>, Upto(Len(modulus) - 1)))

\* Mutant of IsIrreducible: the divisors of the degree are not looked at.
IsIrreducibleNoGcd(p, modulus) ==
  Trim(Frobenius(p, modulus)[Len(modulus) - 1]) = Trim(Remainder(p, <<0, 1>>, modulus))

\* Rabin: X^(p^k) = X, and no X^(p^(k/r)) - X has a factor in common.
IsIrreducible(p, modulus) ==
  LET degree == Len(modulus) - 1
      x == Remainder(p, <<0, 1>>, modulus)
      Rabin(image) ==
        /\ \A r \in PrimeDivisors(degree) :
             Len(Gcd(p, modulus, SubPoly(p, image[degree \div r], x))) = 1
        /\ Trim(image[degree]) = Trim(x)
  IN  Rabin(Frobenius(p, modulus))

-----------------------------------------------------------------------------
(* Reduction plans.                                                        *)

ProductLen(k) == 2 * k - 1

ValidateModulus(p, k, modulus) ==
  IF k = 0 THEN Err("ZeroDegree")
  ELSE IF Len(modulus) # k + 1 THEN Err("ModulusLength")
  ELSE IF modulus[k + 1] % p # 1 THEN Err("ModulusNotMonic")
  ELSE Ok(Map(LAMBDA c : c % p, modulus))

\* Mutant of KeepPrefix: the tail of a Newton step is kept.
KeepPrefixWhole(values, length) == values

KeepPrefix(values, length) == Padded(SubSeq(values, 1, length), Len(values))

\* A step g * (2 - a * g) of Newton's iteration, to the next precision.
NewtonStep(plan, aHat, g, next) ==
  LET p == plan.p
      Times(work, spectrum) == InverseTransform(plan, PointwiseMul(plan, work, spectrum))
      Negated(high) ==
        [i \in 1 .. Len(high) |->
           SubCanonical(p, IF i = 1 THEN ToMontgomery(p, 2) ELSE 0, high[i])]
      Improved(work) ==
        Times(ForwardTransform(plan, KeepPrefix(Negated(Times(work, aHat)), next)), work)
  IN  KeepPrefix(Improved(ForwardTransform(plan, g)), next)

\* reverse(f)^(-1) mod X^length; every step doubles the precision.
ReversedInverse(plan, modulus, length) ==
  LET p == plan.p
      Inverted(aHat) ==
        LET Step(state, i) ==
              LET next == IF 2 * state.precision < length THEN 2 * state.precision ELSE length
              IN  IF state.precision >= length THEN state
                  ELSE [precision |-> next, g |-> NewtonStep(plan, aHat, state.g, next)]
            start == [precision |-> 1, g |-> Padded(<<ToMontgomery(p, 1)>>, plan.length)]
        IN  FoldLeft(Step, start, Upto(length)).g
      reversed == Padded(Elements(p, Reverse(modulus)), plan.length)
  IN  IF length = 0 THEN <<>>
      ELSE Values(p, SubSeq(Inverted(ForwardTransform(plan, reversed)), 1, length))

ReductionPlan(p, k, canonical) ==
  LET common == [p |-> p, k |-> k, modulus |-> canonical]
      Transformed(ntt, poly) == ForwardTransform(ntt, Padded(Elements(p, poly), ntt.length))
      length == NextPowerOfTwo(ProductLen(k))
  IN  IF k <= SchoolbookDegree
      THEN Ok([algorithm |-> "Schoolbook", workLen |-> ProductLen(k),
               negativeModulus |-> Elements(p, Map(LAMBDA c : NegCanonical(p, c),
                                                   SubSeq(canonical, 1, k)))] @@ common)
      ELSE Then(Renamed(NttPlan(p, length), "BaseField"), LAMBDA ntt :
             Ok([algorithm |-> "Ntt", workLen |-> length, ntt |-> ntt,
                 reversedInverse |-> Transformed(ntt, ReversedInverse(ntt, canonical, k - 1)),
                 transformedModulus |-> Transformed(ntt, canonical)] @@ common))

\* Long division from the top coefficient down.
ReduceSchoolbook(plan, values) ==
  LET p == plan.p
      k == plan.k
      Step(degree, v) ==
        [i \in DOMAIN v |->
           LET lower == i - (degree - k)
           IN  IF lower \in 1 .. k
               THEN AddCanonical(p, v[i], MontgomeryMulScalar(p, v[degree + 1],
                                                              plan.negativeModulus[lower]))
               ELSE v[i]]
      degrees == [i \in 1 .. Len(values) - k |-> k + i - 1]
  IN  Values(p, SubSeq(FoldRight(Step, degrees, values), 1, k))

\* The quotient reversed is the reversed top times the reversed inverse.
ReduceNtt(plan, values) ==
  LET p == plan.p
      k == plan.k
      Subtracted(multiple) ==
        Pairwise(LAMBDA v, m : FromMontgomery(p, SubCanonical(p, v, m)),
                 SubSeq(values, 1, k), SubSeq(multiple, 1, k))
      Multiple(quotient) ==
        MulSpectrum(plan.ntt, Padded(Reverse(quotient), plan.workLen), plan.transformedModulus)
      top == Padded(Reverse(SubSeq(values, k + 1, 2 * k - 1)), plan.workLen)
  IN  Subtracted(Multiple(SubSeq(MulSpectrum(plan.ntt, top, plan.reversedInverse), 1, k - 1)))

ReduceElements(plan, values) ==
  IF plan.algorithm = "Schoolbook" THEN ReduceSchoolbook(plan, values)
  ELSE ReduceNtt(plan, values)

\* reduce: the output has outputLength words, the scratch is that of degree scratchK.
ReducePolynomial(plan, product, outputLength, scratchK) ==
  IF Len(product) > ProductLen(plan.k) THEN Err("ProductTooLong")
  ELSE IF outputLength # plan.k \/ scratchK # plan.k THEN Err("BaseField")
  ELSE Ok(ReduceElements(plan, Padded(Elements(plan.p, product), plan.workLen)))

-----------------------------------------------------------------------------
(* The extension field.                                                    *)

ExtensionField(p, k, modulus) ==
  Then(ValidateModulus(p, k, modulus), LAMBDA canonical :
    IF ~IsIrreducible(p, canonical) THEN Err("ReducibleModulus")
    ELSE ReductionPlan(p, k, canonical))

\* new_unchecked_irreducible: a quotient ring, whatever the polynomial.
UncheckedExtension(p, k, modulus) ==
  Then(ValidateModulus(p, k, modulus), LAMBDA canonical : ReductionPlan(p, k, canonical))

Coefficients(plan, Op(_, _, _), lhs, rhs) ==
  IF Len(lhs) # plan.k \/ Len(rhs) # plan.k THEN Err("LengthMismatch")
  ELSE Ok(Pairwise(LAMBDA a, b : Op(plan.p, a % plan.p, b % plan.p), lhs, rhs))

AddExtension(plan, lhs, rhs) == Coefficients(plan, AddCanonical, lhs, rhs)
SubExtension(plan, lhs, rhs) == Coefficients(plan, SubCanonical, lhs, rhs)

PrepareOperand(plan, input) == Padded(Elements(plan.p, input), plan.workLen)

MulExtension(plan, lhs, rhs) ==
  LET Product(l, r) ==
        LET Row(product, i) ==
              [j \in DOMAIN product |->
                 IF j - i + 1 \in 1 .. plan.k
                 THEN AddCanonical(plan.p, product[j],
                                   MontgomeryMulScalar(plan.p, l[i], r[j - i + 1]))
                 ELSE product[j]]
        IN  IF plan.algorithm = "Schoolbook"
            THEN FoldLeft(Row, PrepareOperand(plan, <<>>), Upto(plan.k))
            ELSE ConvolveElements(plan.ntt, l, r)
  IN  IF Len(lhs) # plan.k \/ Len(rhs) # plan.k THEN Err("BaseField")
      ELSE Ok(ReduceElements(plan,
                Product(PrepareOperand(plan, lhs), PrepareOperand(plan, rhs))))

\* The square has a diagonal, computed once, and pairs, doubled.
SquareProduct(plan, v) ==
  LET p == plan.p
      Cell(sum, i, other, cross) ==
        IF other = i THEN AddCanonical(p, sum, cross)
        ELSE AddCanonical(p, sum, AddCanonical(p, cross, cross))
      Row(product, i) ==
        [j \in DOMAIN product |->
           LET other == j - i + 1
           IN  IF other \in i .. plan.k
               THEN Cell(product[j], i, other, MontgomeryMulScalar(p, v[i], v[other]))
               ELSE product[j]]
  IN  FoldLeft(Row, PrepareOperand(plan, <<>>), Upto(plan.k))

\* With transforms, one forward transform serves both operands.
SquareExtension(plan, value) ==
  LET Squared(spectrum) ==
        InverseTransform(plan.ntt, PointwiseMul(plan.ntt, spectrum, spectrum))
      v == PrepareOperand(plan, value)
  IN  IF Len(value) # plan.k THEN Err("BaseField")
      ELSE Ok(ReduceElements(plan,
                IF plan.algorithm = "Schoolbook" THEN SquareProduct(plan, v)
                ELSE Squared(ForwardTransform(plan.ntt, v))))
=============================================================================
