----------------------------- MODULE MCLibrary ------------------------------
(* Words of eight bits; the inputs of every layer follow a few patterns.    *)
EXTENDS Library

\* Slices of n residues that start at a and grow by squares.
Pattern(p, n, a, b) == [i \in 1 .. n |-> (a + b * i * i) % p]

\* Words of a generator.
MCStream(seed, purpose, index) ==
  LET number == CASE purpose = "CodeMultiplier" -> 1 [] purpose = "CodePermutation" -> 2
                  [] purpose = "Tdm" -> 3 [] purpose = "QueryCodeword" -> 4
                  [] purpose = "QueryNonzero" -> 5
  IN  [i \in 1 .. 200 |->
         (((seed + 40 * number + 7 * index) * (2 * i + 1) + 13 * i * i + (i \div 3) * 29) % 251)]

MCFieldCalls ==
  {[p |-> p, lhs |-> Pattern(p, n, 1, a), rhs |-> Pattern(p, n, p - 1, b),
    words |-> [i \in 1 .. 32 |-> 32 * ((p + a) % 8) + i - 1]] :
     p \in {3, 17, 127, 193, 251}, n \in {5, 12}, a \in {0, 1}, b \in {0, 3}}

\* The three kinds of butterflies, and moduli of two-adicity 2 to 6.
MCTransformCalls ==
  {[p |-> p, lhs |-> Pattern(p, n, p - 1, a), rhs |-> Pattern(p, n, p \div 2, 3),
    prefix |-> n \div 2 + 1, suffix |-> cut] :
     p \in {17, 41, 61, 97, 113, 193, 241}, n \in {4, 8}, a \in {0, 5}, cut \in {0, 2, 4}}

\* Every modulus of degree 3 over the field of 3; moduli of higher degree over
\* fields with a transform and without one.
MCExtensionCalls ==
  {[p |-> 3, modulus |-> <<a, b, c, d>>, lhs |-> <<7, 200, 1>>, rhs |-> <<5, 255, 4>>] :
     a \in 0 .. 2, b \in 0 .. 2, c \in 0 .. 2, d \in {1}} \cup
  {[p |-> p, modulus |-> Append(Pattern(p, k, a, 3), p + 1), lhs |-> Pattern(251, k, 100, 7),
    rhs |-> Pattern(251, k, 250, a)] :
     p \in {17, 61, 97, 113}, k \in {2, 7}, a \in {1, 6}} \cup
  {[p |-> 5, modulus |-> <<1, 2, 3>>, lhs |-> <<1, 2>>, rhs |-> <<3, 4>>]}

\* Stacks of one block and of two, whole and cut, over three fields.
MCMaskCalls ==
  {[p |-> p, k |-> 4, kinds |-> kinds, rows |-> rows, weight |-> weight, seed |-> 3,
    input |-> Pattern(p, 4, 1, p - 2), stale |-> 2] :
     p \in {19, 97, 241}, kinds \in {<<"ring">>, <<"toeplitz", "raa">>, <<"raa", "ring">>,
                                       <<"verified">>, <<"reducible">>},
     rows \in {4, 7}, weight \in {1, 3}} \cup
  {[p |-> 97, k |-> k, kinds |-> kinds, rows |-> 3 * k - 2, weight |-> 4, seed |-> seed,
    input |-> Pattern(97, k, 50, 7), stale |-> 90] :
     k \in {3, 8}, seed \in {1, 2}, kinds \in {<<"raa", "toeplitz", "toeplitz">>}}

\* A code that is transformed at its own length and one that is folded; blocks
\* of two words, of three and of all; one mask block and two.
MCProtocolCalls ==
  {[p |-> 97, params |-> [k |-> 2, ell |-> ell, b |-> b, lambda |-> 1], rows |-> rows,
    kind |-> kind, seed |-> 5, stale |-> 9, arena |-> 40, matrix |-> Pattern(97, rows * ell, 3, 5),
    queries |-> <<Pattern(97, ell, 96, 1), Pattern(97, ell, 2, 1), Pattern(97, ell, 0, 40)>>] :
     ell \in {1, 2}, b \in {2, 4}, rows \in {3, 5}, kind \in {"ring", "toeplitz", "raa"}} \cup
  {[p |-> 97, params |-> [k |-> 3, ell |-> ell, b |-> b, lambda |-> 1], rows |-> 7,
    kind |-> kind, seed |-> 8, stale |-> 9, arena |-> 40, matrix |-> Pattern(97, 7 * ell, 3, 5),
    queries |-> <<Pattern(97, ell, 96, 1)>>] :
     ell \in {2, 3}, b \in {2, 3}, kind \in {"raa", "toeplitz"}}

MCMatrix(rows, columns, values) ==
  [params |-> [k |-> 3, ell |-> 2, b |-> 1, lambda |-> 7], instance |-> Pattern(4, 16, 1, 1),
   rows |-> rows, columns |-> columns, values |-> values]
MCQuery(values) == [instance |-> Pattern(4, 16, 2, 3), query |-> 9, values |-> values]
MCAnswers(rows, blocks, count) ==
  [matrix |-> 300, instance |-> Pattern(4, 16, 0, 1), rows |-> rows, blocks |-> blocks,
   answers |-> [i \in 1 .. count |->
                  [instance |-> Pattern(4, 16, 0, 1), query |-> 4 + i, rows |-> rows,
                   blocks |-> blocks, values |-> Pattern(193, rows * blocks, 192, i)]]]

\* Empty lists, empty entries beside full ones, entries of different widths.
MCMessages ==
  {<<"UploadMatrices", m>> :
     m \in {<<>>, <<MCMatrix(1, 2, <<192, 0>>), MCMatrix(3, 1, <<5, 6, 7>>)>>}} \cup
  {<<"UploadAccepted", m>> : m \in {<<>>, <<1, 2, 65535>>, <<4, 0>>}} \cup
  {<<"Evaluate", m>> :
     m \in {<<>>, <<[matrix |-> 1, queries |-> <<>>],
                    [matrix |-> 2, queries |-> <<MCQuery(<<1, 2, 3>>), MCQuery(<<4, 5, 6>>)>>],
                    [matrix |-> 3, queries |-> <<MCQuery(<<7>>)>>]>>,
            <<[matrix |-> 1, queries |-> <<MCQuery(<<1, 2>>), MCQuery(<<3>>)>>]>>,
            <<[matrix |-> 1, queries |-> <<MCQuery(<<>>)>>]>>}} \cup
  {<<"Products", m>> :
     m \in {<<>>, <<MCAnswers(2, 1, 2), MCAnswers(1, 1, 0), MCAnswers(1, 3, 1)>>,
            <<MCAnswers(2, 1, 1), [MCAnswers(2, 2, 1) EXCEPT !.rows = 1]>>}} \cup
  {<<"Error", [code |-> 3, text |-> t]>> : t \in {<<>>, <<1, 0, 2>>}}

\* Lengths that are off by one byte or one word, streams cut in the frame and
\* behind it, and numbers in every place: small ones, ones at the limit of
\* a length, and ones whose tables wrap to few bytes.
MCCodecCalls ==
  {[kind |-> m[1], p |-> 193, message |-> m[2], edits |-> <<>>, extra |-> extra, cut |-> cut,
    scarce |-> scarce, next |-> <<3, 1>>, stale |-> 77] :
     m \in MCMessages, extra \in {-4, -1, 0, 1, 4}, cut \in {0, 2, 3, 7}, scarce \in BOOLEAN} \cup
  {[kind |-> m[1], p |-> 193, message |-> m[2], edits |-> <<[offset |-> 4 * at, value |-> v]>>,
    extra |-> 0, cut |-> 0, scarce |-> FALSE, next |-> <<3, 1>>, stale |-> 77] :
     m \in MCMessages, at \in 0 .. 20,
     v \in {0, 1, 2, 3, 1171, 1366, 2731, 4096, 8192, 65535}}

\* Sets of two matrices and of three, in sizes of two, four and six words; one
\* like another but for its values, and one but for an identity; a malformed
\* matrix behind a good one.
MCUpload(k, rows, value) ==
  [params |-> [k |-> k, ell |-> 1, b |-> 2, lambda |-> 1], instance |-> Pattern(4, 16, k, 1),
   rows |-> rows, columns |-> 2 * k, values |-> Filled(value, 2 * k * rows)]
MCStagingCalls ==
  {[sets |-> <<<<MCUpload(2, 1, 1), MCUpload(1, 1, 2)>>,
               <<MCUpload(1, 1, 3), MCUpload(1, 3, 4), MCUpload(1, 1, 5)>>,
               <<MCUpload(2, 1, 6), MCUpload(1, 1, 7)>>>>, memory |-> memory, calls |-> 4] :
     memory \in {7, 9, 12, 17, 30}} \cup
  {[sets |-> <<<<MCUpload(2, 1, 1), [MCUpload(1, 1, 2) EXCEPT !.instance = Pattern(4, 16, 3, 1)]>>,
               <<MCUpload(2, 1, 3), MCUpload(1, 1, 4)>>, <<MCUpload(3, 1, 5)>>, <<MCUpload(1, 1, 8)>>, <<>>,
               <<MCUpload(1, 1, 6), [MCUpload(1, 1, 7) EXCEPT !.rows = 2]>>>>,
    memory |-> memory, calls |-> 3] : memory \in {5, 8, 20}}

\* Searches up to the largest lambda and past it, powers around their targets,
\* rings around every floor and every transform length.
MCParameterCalls ==
  [ask : {"search"}, ell : {0, 1, 2, 5, 9}, lambda : {0, 1, 5, 8, 12, 13}] \cup
  [ask : {"power"}, base : {0, 1, 2, 3, 7, 8, 15}, exp : {0, 1, 5, 12}, factor : {0, 1, 3, 15},
   lambda : {0, 3, 15, 24}] \cup
  [ask : {"ring"}, p : {17, 41, 61}, k : {0, 2, 3, 5, 8, 9}, weight : {0, 1, 2, 4, 9},
   estimates : {[decoding |-> TRUE, enumeration |-> e, discounted |-> d] :
                  e \in BOOLEAN, d \in BOOLEAN}]
=============================================================================
