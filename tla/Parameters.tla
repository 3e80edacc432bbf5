----------------------------- MODULE Parameters -----------------------------
(***************************************************************************)
(* Choice and validation of parameters: emvp/src/params.rs for the         *)
(* protocol, trapdoor-matrices/src/parameters.rs for Ring-LPN.             *)
(*                                                                         *)
(* The costs of attacks on Ring-LPN are estimated in floating point; here  *)
(* an estimate is whether it reaches the target.                           *)
(***************************************************************************)
EXTENDS Field

CONSTANTS
  LimbBits,           \* bits of a limb of the exact power, 64 in the code
  PowMaxLambda,       \* POW_MAX_LAMBDA, 4096 in the code
  ProtocolMaxLambda,  \* PROTOCOL_MAX_LAMBDA, 128 in the code
  SearchRankBudget,   \* SEARCH_RANK_BUDGET, 10 million in the code
  RingDegreeFloor, PlausibilityWeightFloor, PolicyWeightFloor
                      \* 2048, 100 and 192 in the code

ASSUME ParametersAssumption ==
  /\ LimbBits \in Nat \ {0} /\ PowMaxLambda \in Nat /\ ProtocolMaxLambda \in Nat
  /\ SearchRankBudget \in Nat
  /\ RingDegreeFloor \in Nat /\ PlausibilityWeightFloor \in Nat /\ PolicyWeightFloor \in Nat

CeilDiv(a, b) == (a + b - 1) \div b

-----------------------------------------------------------------------------
(* Whether factor * base^exp reaches 2^lambda, exactly, over limbs.        *)

BitLength(n) == IF n = 0 THEN 0 ELSE CHOOSE b \in 1 .. n : 2^(b - 1) <= n /\ n < 2^b

\* Limbs are little-endian, the last of them nonzero.
ExactBitLength(limbs) == (Len(limbs) - 1) * LimbBits + BitLength(Last(limbs))

TimesBase(limbs, base) ==
  LET Step(state, product) == [limbs |-> Append(state.limbs, product % 2^LimbBits),
                               carry |-> product \div 2^LimbBits]
  IN  FoldLeft(LAMBDA state, limb : Step(state, limb * base + state.carry),
               [limbs |-> <<>>, carry |-> 0], limbs)

\* Mutant of GrowsTo: the bound from above is one bit too low.
GrowsToEarly(limbs, base, remaining, lambda) ==
  LET lo == ExactBitLength(limbs) - 1
  IN  IF lo + (BitLength(base) - 1) * remaining >= lambda THEN "reached"
      ELSE IF lo + BitLength(base) * remaining <= lambda THEN "missed"
      ELSE "open"

\* What the bit lengths alone say of limbs * base^remaining.
GrowsTo(limbs, base, remaining, lambda) ==
  LET lo == ExactBitLength(limbs) - 1
  IN  IF lo + (BitLength(base) - 1) * remaining >= lambda THEN "reached"
      ELSE IF lo + 1 + BitLength(base) * remaining <= lambda THEN "missed"
      ELSE "open"

RECURSIVE PowerReaches(_, _, _, _)
PowerReaches(limbs, base, remaining, lambda) ==
  LET Grown(next) ==
        IF next.carry # 0 /\ Len(limbs) = (lambda \div LimbBits) + 2 THEN TRUE
        ELSE PowerReaches(next.limbs \o (IF next.carry = 0 THEN <<>> ELSE <<next.carry>>),
                          base, remaining - 1, lambda)
      growth == GrowsTo(limbs, base, remaining, lambda)
  IN  IF remaining = 0 THEN ExactBitLength(limbs) > lambda
      ELSE IF growth # "open" THEN growth = "reached"
      ELSE Grown(TimesBase(limbs, base))

ScaledPowGePow2(base, exp, factor, lambda) ==
  IF lambda = 0 THEN TRUE
  ELSE IF factor = 0 \/ lambda > PowMaxLambda THEN FALSE
  ELSE IF base < 2 THEN ~(base = 0 /\ exp > 0) /\ BitLength(factor) > lambda
  ELSE PowerReaches(<<factor>>, base, exp, lambda)

-----------------------------------------------------------------------------
(* Protocol parameters: rank k, record length ell, block size b, lambda.   *)

N(params) == 2 * params.k

Blocks(params) == N(params) \div params.b

RankFloor(lambda) == CeilDiv(lambda, 4)

ValidateDimensions(params) ==
  IF params.ell = 0 THEN Err("ZeroEll")
  ELSE IF params.ell > params.k THEN Err("EllExceedsRank")
  ELSE IF params.b < 2 THEN Err("BlockTooSmall")
  ELSE IF N(params) % params.b # 0 THEN Err("BlockDoesNotDivideLength")
  ELSE Ok(params)

Validate(params) ==
  LET k == params.k
      b == params.b
      d == CeilDiv(k, b - 1)
  IN  IF params.lambda > ProtocolMaxLambda THEN Err("LambdaOutOfScope")
      ELSE Then(ValidateDimensions(params), LAMBDA dimensions :
        IF k < RankFloor(params.lambda) THEN Err("RankBelowSecurityFloor")
        ELSE IF ~ScaledPowGePow2(b, d - 1, IF b < d THEN b ELSE d, params.lambda)
        THEN Err("InsecureAgainstAlgebraicAttack")
        ELSE IF (N(params) \div b + 1) * k <= N(params) + params.lambda
        THEN Err("InsecureAgainstInclusionExclusion")
        ELSE Ok(params))

\* The least rank with a valid block size, and its largest block size.
Search(ell, lambda) ==
  LET floor == IF ell > RankFloor(lambda) THEN ell ELSE RankFloor(lambda)
      Shape(k, b) == [k |-> k, ell |-> ell, b |-> b, lambda |-> lambda]
      Valid(k) == {b \in 2 .. 2 * k : (2 * k) % b = 0 /\ ~Failed(Validate(Shape(k, b)))}
      Largest(k, sizes) == Shape(k, CHOOSE b \in sizes : \A other \in sizes : b >= other)
      Least(found) ==
        IF found = {} THEN Err("SearchExhausted")
        ELSE LET first == CHOOSE f \in found : \A other \in found : f[1] <= other[1]
             IN  Ok(Largest(first[1], first[2]))
  IN  IF ell = 0 THEN Err("ZeroEll")
      ELSE IF lambda > ProtocolMaxLambda THEN Err("LambdaOutOfScope")
      ELSE Least({f \in {<<k, Valid(k)>> : k \in floor .. floor + SearchRankBudget - 1} :
                    f[2] # {}})

-----------------------------------------------------------------------------
(* Ring-LPN.                                                               *)

\* Warnings that advise and force no level.
Advisory == {"IsdRefinementMarginBelowTarget", "WeightBelowPolicyDefault"}

\* Mutant of Lengthy: the length of the modulus, not of the product.
LengthyByDegree(p, k) == k > 2^TwoAdicity(p)

\* The transform of a product needs more two-adicity than p has.
Lengthy(p, k) ==
  CASE k = 0 -> FALSE
    [] OTHER -> \A e \in 0 .. TwoAdicity(p) : 2^e < 2 * k - 1

\* estimates: of the attacks by decoding, by enumeration, and by decoding with
\* the discount for refinements, whether each reaches the target.
Assess(p, k, weight, estimates) ==
  LET When(condition, warning) == IF condition THEN <<warning>> ELSE <<>>
      inRegime == k > 0 /\ weight > 0 /\ weight <= k
      Refined(first) ==
        LET clean == inRegime /\ first = <<>>
        IN  first \o When(inRegime /\ Lengthy(p, k), "NttLengthUnsupported")
                  \o When(clean /\ ~estimates.discounted, "IsdRefinementMarginBelowTarget")
                  \o When(clean /\ estimates.discounted /\ weight < PolicyWeightFloor,
                          "WeightBelowPolicyDefault")
      IsBroken(warning) == warning \notin Advisory
      Judged(warnings) ==
        [warnings |-> warnings,
         brokenReasons |-> SelectSeq(warnings, IsBroken),
         level |-> CASE \E i \in 1 .. Len(warnings) : IsBroken(warnings[i]) -> "Broken"
                     [] \A i \in 1 .. Len(warnings) : warnings[i] \in
                          {"WeightBelowPolicyDefault"} -> "Sound"
                     [] OTHER -> "Marginal"]
  IN  Judged(Refined(
        When(k < RingDegreeFloor, "RingDegreeBelowFloor")
        \o When(weight < PlausibilityWeightFloor, "WeightBelowPlausibilityFloor")
        \o When(weight > k, "WeightOutsideSparseRegime")
        \o When(inRegime /\ ~estimates.decoding, "DecodingCostBelowTarget")
        \o When(inRegime /\ ~estimates.enumeration, "EnumerationCostBelowTarget")))
=============================================================================
