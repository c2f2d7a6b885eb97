------------------------------- MODULE Price --------------------------------
(***************************************************************************)
(* What a run may cost and does cost, in the machine's integers, which are *)
(* two's complement.  An operator that can fail returns <<value>>, or <<>> *)
(* for its error.                                                          *)
(***************************************************************************)
EXTENDS Integers, Sequences

CONSTANTS
  MaxInt,  \* the largest int64
  Million  \* tokens that a rate is the price of

ASSUME NumbersAssumption == MaxInt \in Nat \ {0} /\ Million \in Nat \ {0}

MinInt == -MaxInt - 1
Machine == MinInt..MaxInt

\* What the machine keeps of an integer.
Wrap(n) == ((n - MinInt) % (2 * (MaxInt + 1))) + MinInt

\* Go's division by a positive number, which rounds towards zero.
Quo(a, b) == IF a >= 0 THEN a \div b ELSE -((-a) \div b)

-----------------------------------------------------------------------------

\* Mutant: an overflow shows by its sign.
MulBySign(a, b) == IF Wrap(a * b) < 0 THEN <<>> ELSE <<Wrap(a * b)>>

\* Both factors are natural numbers here.
mulInt64(a, b) ==
  IF a = 0 \/ b = 0 THEN <<0>>
  ELSE IF Quo(Wrap(a * b), a) # b THEN <<>>
  ELSE <<Wrap(a * b)>>

addInt64(a, b) ==
  IF \/ b > 0 /\ a > MaxInt - b
     \/ b < 0 /\ a < MinInt - b
  THEN <<>> ELSE <<a + b>>

\* The price of tokens at a rate for a million of them, rounded up.
mulDivCeil(tokens, rate) ==
  LET product == mulInt64(tokens, rate)
      numerator == addInt64(product[1], Million - 1)
  IN IF tokens < 0 \/ rate <= 0 THEN <<>>
     ELSE IF tokens = 0 THEN <<0>>
     ELSE IF product = <<>> THEN <<>>
     ELSE IF numerator = <<>> THEN <<>>
     ELSE <<Quo(numerator[1], Million)>>

costMicros(inputRate, outputRate, inputTokens, outputTokens) ==
  LET input == mulDivCeil(inputTokens, inputRate)
      output == IF outputTokens > 0 THEN mulDivCeil(outputTokens, outputRate) ELSE <<0>>
      sum == addInt64(input[1], output[1])
  IN IF input = <<>> \/ output = <<>> THEN <<>>
     ELSE IF sum = <<>> THEN <<>>
     ELSE IF sum[1] <= 0 THEN <<>> ELSE sum

EstimateMaxCostMicros(price, inputTokens) ==
  IF price.input <= 0 \/ price.output <= 0 \/ price.maxOutput <= 0 \/ inputTokens <= 0 THEN <<>>
  ELSE costMicros(price.input, price.output, inputTokens, price.maxOutput)

ActualCostMicros(price, promptTokens, completionTokens) ==
  IF price.input <= 0 \/ price.output <= 0 \/ promptTokens <= 0 \/ completionTokens < 0 THEN <<>>
  ELSE costMicros(price.input, price.output, promptTokens, completionTokens)

\* The handler's estimate of the input, from the length of the body.
InputTokens(bytes) == bytes \div 4 + 1

\* Usage as the backend reports it; the sum may wrap.
validateUsage(usage) ==
  /\ usage.prompt >= 0 /\ usage.completion >= 0 /\ usage.total >= 0
  /\ usage.total = Wrap(usage.prompt + usage.completion)

\* What the handler settles to: the actual cost, or all that was reserved where
\* that is less or the cost cannot be computed.
Charge(price, usage, reserve) ==
  LET prompt == IF usage.prompt <= 0 THEN 1 ELSE usage.prompt
      actual == ActualCostMicros(price, prompt, usage.completion)
  IN IF actual = <<>> THEN reserve ELSE IF actual[1] > reserve THEN reserve ELSE actual[1]
=============================================================================
