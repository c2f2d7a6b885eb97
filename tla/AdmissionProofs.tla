--------------------------- MODULE AdmissionProofs --------------------------
(***************************************************************************)
(* Theorems about the way from a token to a priced run (module Admission), *)
(* for every document, token, difference of clocks, price and usage.       *)
(***************************************************************************)
EXTENDS Admission, FiniteSetTheorems, TLAPS

-----------------------------------------------------------------------------
(***************************************************************************)
(* Sorting.                                                                *)
(***************************************************************************)

\* Who has fewer elements below comes first.
LEMMA FewerBelow ==
  ASSUME NEW S \in SUBSET Int, IsFiniteSet(S), NEW x \in S, NEW y \in S
  PROVE  /\ Cardinality(Below(S, x)) \in 0..(Cardinality(S) - 1)
         /\ x < y <=> Cardinality(Below(S, x)) < Cardinality(Below(S, y))
<1>0. \A z \in S : z \in Int
  OBVIOUS
<1>1. ASSUME NEW a \in S, NEW b \in S, a < b
      PROVE  Cardinality(Below(S, a)) < Cardinality(Below(S, b))
  <2>1. Below(S, a) \in SUBSET Below(S, b) /\ a \in Below(S, b) /\ a \notin Below(S, a)
    <3>1. \A z \in S : z < a => z < b
      BY <1>0, <1>1
    <3>2. ~(a < a)
      BY <1>0
    <3> QED
      BY <1>1, <3>1, <3>2, Zenon DEF Below
  <2>2. Below(S, b) \in SUBSET S
    BY DEF Below
  <2>3. IsFiniteSet(Below(S, b))
    BY <2>2, FS_Subset
  <2>4. /\ IsFiniteSet(Below(S, a))
        /\ Cardinality(Below(S, a)) <= Cardinality(Below(S, b))
        /\ Cardinality(Below(S, a)) # Cardinality(Below(S, b))
    BY <2>1, <2>3, FS_Subset
  <2>5. Cardinality(Below(S, a)) \in Nat /\ Cardinality(Below(S, b)) \in Nat
    BY <2>3, <2>4, FS_CardinalityType
  <2> QED
    BY <2>4, <2>5
<1>2. \A a \in S : Cardinality(Below(S, a)) \in 0..(Cardinality(S) - 1)
  <2> SUFFICES ASSUME NEW a \in S PROVE Cardinality(Below(S, a)) \in 0..(Cardinality(S) - 1)
    OBVIOUS
  <2>1. Below(S, a) \in SUBSET S /\ a \notin Below(S, a)
    BY <1>0 DEF Below
  <2>2. /\ IsFiniteSet(Below(S, a)) /\ Cardinality(Below(S, a)) <= Cardinality(S)
        /\ Cardinality(Below(S, a)) # Cardinality(S)
    BY <2>1, FS_Subset
  <2>3. Cardinality(Below(S, a)) \in Nat /\ Cardinality(S) \in Nat
    BY <2>2, FS_CardinalityType
  <2> QED
    BY <2>2, <2>3
<1>3. Cardinality(S) \in Nat
  BY FS_CardinalityType
<1>4. CASE x < y
  BY <1>1, <1>2, <1>4
<1>5. CASE x = y
  <2>1. x \in Int /\ Cardinality(Below(S, x)) \in Int
    BY <1>0, <1>2, <1>3
  <2> QED
    BY <1>2, <1>5, <2>1
<1>6. CASE y < x
  <2>1. Cardinality(Below(S, y)) < Cardinality(Below(S, x))
    BY <1>1, <1>6
  <2>2. ~(x < y)
    BY <1>0, <1>6
  <2> QED
    BY <1>2, <1>3, <2>1, <2>2
<1>7. x < y \/ x = y \/ y < x
  BY <1>0
<1> QED
  BY <1>2, <1>4, <1>5, <1>6, <1>7

\* The ascending sequence of a set has its elements, each once, in their order.
LEMMA AscendingOf ==
  ASSUME NEW S \in SUBSET Int, IsFiniteSet(S)
  PROVE  /\ Cardinality(S) \in Nat
         /\ Ascending(S) \in [1..Cardinality(S) -> S]
         /\ \A x \in S : \E i \in 1..Cardinality(S) : Ascending(S)[i] = x
         /\ \A i, j \in 1..Cardinality(S) : i < j => Ascending(S)[i] < Ascending(S)[j]
<1> DEFINE n == Cardinality(S)
           rank == [x \in S |-> Cardinality(Below(S, x)) + 1]
           s == Ascending(S)
<1>1. n \in Nat
  BY FS_CardinalityType
<1>2. \A x \in S : rank[x] \in 1..n /\ rank[x] = Cardinality(Below(S, x)) + 1
  BY <1>1, FewerBelow
<1>3. \A x, y \in S : x < y <=> rank[x] < rank[y]
  <2> SUFFICES ASSUME NEW x \in S, NEW y \in S PROVE x < y <=> rank[x] < rank[y]
    OBVIOUS
  <2>1. /\ x < y <=> Cardinality(Below(S, x)) < Cardinality(Below(S, y))
        /\ Cardinality(Below(S, x)) \in 0..(n - 1) /\ Cardinality(Below(S, y)) \in 0..(n - 1)
    BY FewerBelow
  <2> QED
    BY <1>1, <2>1
<1>4. \A i \in 1..n : \E x \in S : rank[x] = i
  <2>1. rank \in [S -> 1..n]
    BY <1>2
  <2>2. \A x, y \in S : rank[x] = rank[y] => x = y
    <3> SUFFICES ASSUME NEW x \in S, NEW y \in S, rank[x] = rank[y] PROVE x = y
      OBVIOUS
    <3>1. x \in Int /\ y \in Int /\ rank[x] \in Int
      BY <1>2
    <3>2. ~(x < y) /\ ~(y < x)
      BY <1>1, <1>2, <1>3
    <3> QED
      BY <3>1, <3>2
  <2> HIDE DEF rank
  <2>3. rank \in Injection(S, 1..n)
    BY <2>1, <2>2 DEF Injection, IsInjective
  <2>4. IsFiniteSet(1..n) /\ Cardinality(1..n) = n
    BY <1>1, FS_Interval
  <2>5. rank \in Surjection(S, 1..n)
    BY <2>3, <2>4, FS_Injection
  <2> QED
    BY <2>5 DEF Surjection
<1>5. \A i \in 1..n : s[i] \in S /\ rank[s[i]] = i
  <2> SUFFICES ASSUME NEW i \in 1..n PROVE s[i] \in S /\ rank[s[i]] = i
    OBVIOUS
  <2>1. s[i] = CHOOSE x \in S : Cardinality(Below(S, x)) = i - 1
    BY DEF Ascending
  <2>2. PICK x \in S : Cardinality(Below(S, x)) = i - 1
    <3>1. PICK x \in S : rank[x] = i
      BY <1>4
    <3>2. Cardinality(Below(S, x)) \in 0..(n - 1) /\ i = Cardinality(Below(S, x)) + 1
      BY <3>1, FewerBelow
    <3> QED
      BY <1>1, <3>2
  <2>3. s[i] \in S /\ Cardinality(Below(S, s[i])) = i - 1
    BY <2>1, <2>2
  <2> QED
    BY <1>1, <1>2, <2>3
<1>6. s = [i \in 1..n |-> s[i]]
  BY DEF Ascending
<1> HIDE DEF s, rank
<1>7. s \in [1..n -> S]
  BY <1>5, <1>6
<1>8. \A x \in S : \E i \in 1..n : s[i] = x
  <2> SUFFICES ASSUME NEW x \in S PROVE \E i \in 1..n : s[i] = x
    OBVIOUS
  <2>1. PICK i \in 1..n : i = rank[x]
    BY <1>2
  <2>2. PICK y \in S : y = s[i] /\ rank[y] = i
    BY <1>5
  <2>3. ~(rank[x] < rank[y]) /\ ~(rank[y] < rank[x])
    BY <1>1, <2>1, <2>2
  <2>4. ~(x < y) /\ ~(y < x) /\ x \in Int /\ y \in Int
    BY <1>3, <2>3
  <2>5. x = y
    BY <2>4
  <2> QED
    BY <2>2, <2>5
<1>9. \A i, j \in 1..n : i < j => s[i] < s[j]
  BY <1>3, <1>5
<1> QED
  BY <1>1, <1>7, <1>8, <1>9 DEF s

-----------------------------------------------------------------------------
(***************************************************************************)
(* Machine integers.                                                       *)
(***************************************************************************)

LEMMA DivBounds ==
  ASSUME NEW x \in Nat, NEW a \in Nat \ {0}
  PROVE  /\ x \div a \in Nat
         /\ a * (x \div a) <= x
         /\ x < a * (x \div a) + a
OBVIOUS

\* A wrapped integer is a machine integer that differs by a multiple of the word.
LEMMA WrapBounds ==
  ASSUME NEW n \in Int
  PROVE  /\ Wrap(n) \in Machine
         /\ \E k \in Int : n = Wrap(n) + k * (2 * (MaxInt + 1))
<1> DEFINE W == 2 * (MaxInt + 1)
           k == (n - MinInt) \div W
<1>1. MaxInt \in Nat \ {0} /\ W \in Nat \ {0} /\ MinInt \in Int
  BY NumbersAssumption DEF MinInt
<1>2. Wrap(n) = ((n - MinInt) % W) + MinInt
  BY DEF Wrap
<1> HIDE DEF W
<1>3. k \in Int /\ (n - MinInt) % W \in 0..(W-1) /\ n - MinInt = W * k + ((n - MinInt) % W)
  BY <1>1
<1>4. Wrap(n) \in Machine
  BY <1>1, <1>2, <1>3 DEF Machine, MinInt, W
<1> HIDE DEF k
<1>5. n = Wrap(n) + k * W
  BY <1>1, <1>2, <1>3
<1> QED
  BY <1>3, <1>4, <1>5 DEF W

\* The division after the multiplication tells whether the product has wrapped.
LEMMA MulExact ==
  ASSUME NEW a \in 0..MaxInt, NEW b \in 0..MaxInt, mulInt64(a, b) # <<>>
  PROVE  mulInt64(a, b) = <<a * b>>
<1>1. a \in Nat /\ b \in Nat /\ a <= MaxInt /\ MaxInt \in Nat
  BY NumbersAssumption
<1>2. CASE a = 0 \/ b = 0
  <2>1. a * b = 0
    BY <1>1, <1>2
  <2> QED
    BY <1>2, <2>1 DEF mulInt64
<1>3. CASE ~(a = 0 \/ b = 0)
  <2> PICK p \in Int : p = a * b
    BY <1>1
  <2> PICK w \in Int : w = Wrap(p)
    BY WrapBounds, NumbersAssumption DEF Machine, MinInt
  <2>1. mulInt64(a, b) = <<w>> /\ Quo(w, a) = b
    BY <1>3 DEF mulInt64
  <2>2. PICK k \in Int : p = w + k * (2 * (MaxInt + 1))
    BY WrapBounds
  <2>3. w >= 0
    <3> SUFFICES ASSUME w < 0 PROVE FALSE
      OBVIOUS
    <3>1. Quo(w, a) = -((-w) \div a)
      BY DEF Quo
    <3>2. (-w) \div a \in Nat
      BY <1>1, <1>3, DivBounds
    <3> QED
      BY <1>1, <1>3, <2>1, <3>1, <3>2
  <2>4. w \div a = b
    BY <2>1, <2>3 DEF Quo
  <2>5. a * b <= w /\ w < a * b + a
    BY <1>1, <1>3, <2>3, <2>4, DivBounds
  <2>6. -k * (2 * (MaxInt + 1)) \in 0..MaxInt
    <3> PICK c \in Int : c = k * (2 * (MaxInt + 1))
      BY <1>1
    <3>1. p = w + c /\ p <= w /\ w < p + a
      BY <2>2, <2>5
    <3>2. -c \in 0..MaxInt
      BY <1>1, <3>1
    <3>3. -k * (2 * (MaxInt + 1)) = -c
      BY <1>1
    <3> QED
      BY <3>2, <3>3
  <2>7. k = 0
    <3>1. CASE k > 0
      <4>1. k * (2 * (MaxInt + 1)) > 0
        BY <1>1, <3>1
      <4> QED
        BY <1>1, <2>6, <4>1
    <3>2. CASE k < 0
      <4>1. -k * (2 * (MaxInt + 1)) > MaxInt
        BY <1>1, <3>2
      <4> QED
        BY <1>1, <2>6, <4>1
    <3> QED
      BY <3>1, <3>2
  <2>8. k * (2 * (MaxInt + 1)) = 0
    BY <1>1, <2>7
  <2>9. w = a * b
    BY <2>2, <2>8
  <2> QED
    BY <2>1, <2>9
<1> QED
  BY <1>2, <1>3

\* What fits into the machine is not wrapped.
LEMMA WrapSmall ==
  ASSUME NEW n \in 0..MaxInt
  PROVE  Wrap(n) = n
<1>1. MaxInt \in Nat \ {0} /\ n \in Nat /\ n <= MaxInt
  BY NumbersAssumption
<1> PICK w : w = Wrap(n)
  OBVIOUS
<1>2. w \in Int /\ -MaxInt - 1 <= w /\ w <= MaxInt
  <2>1. w \in Machine
    BY <1>1, WrapBounds
  <2> QED
    BY <1>1, <2>1 DEF Machine, MinInt
<1>3. PICK k \in Int : n = w + k * (2 * (MaxInt + 1))
  <2>1. n \in Int
    BY <1>1
  <2>2. \E k \in Int : n = Wrap(n) + k * (2 * (MaxInt + 1))
    BY <2>1, WrapBounds
  <2> QED
    BY <2>2
<1>4. ~(k >= 1)
  <2> SUFFICES ASSUME k >= 1 PROVE FALSE
    OBVIOUS
  <2>1. k * (2 * (MaxInt + 1)) >= 2 * (MaxInt + 1)
    BY <1>1
  <2> QED
    BY <1>1, <1>2, <1>3, <2>1
<1>5. ~(k <= -1)
  <2> SUFFICES ASSUME k <= -1 PROVE FALSE
    OBVIOUS
  <2>1. k * (2 * (MaxInt + 1)) <= -(2 * (MaxInt + 1))
    BY <1>1
  <2> QED
    BY <1>1, <1>2, <1>3, <2>1
<1>6. k = 0
  BY <1>4, <1>5
<1>7. k * (2 * (MaxInt + 1)) = 0
  BY <1>1, <1>6
<1> QED
  BY <1>1, <1>2, <1>3, <1>7

\* A product is refused exactly when it is beyond the machine.
LEMMA MulDefined ==
  ASSUME NEW a \in 1..MaxInt, NEW b \in 1..MaxInt
  PROVE  mulInt64(a, b) # <<>> <=> a * b <= MaxInt
<1>1. a \in Nat /\ b \in Nat /\ a > 0 /\ b > 0 /\ MaxInt \in Nat
  BY NumbersAssumption
<1> PICK p \in Nat : p = a * b
  BY <1>1
<1>2. ASSUME mulInt64(a, b) # <<>> PROVE p <= MaxInt
  <2>1. a \in 0..MaxInt /\ b \in 0..MaxInt
    BY <1>1
  <2>2. mulInt64(a, b) = <<p>>
    BY <1>2, <2>1, MulExact
  <2>3. mulInt64(a, b) = <<Wrap(p)>>
    BY <1>1, <1>2 DEF mulInt64
  <2>4. Wrap(p) \in Machine
    BY WrapBounds
  <2> QED
    BY <1>1, <2>2, <2>3, <2>4 DEF Machine, MinInt
<1>3. ASSUME p <= MaxInt PROVE mulInt64(a, b) # <<>>
  <2>1. Wrap(p) = p
    BY <1>1, <1>3, WrapSmall
  <2>2. p \div a = b
    BY <1>1
  <2>3. Quo(p, a) = b
    BY <2>2 DEF Quo
  <2> QED
    BY <1>1, <2>1, <2>3 DEF mulInt64
<1> QED
  BY <1>2, <1>3

LEMMA CeilType ==
  ASSUME NEW n \in Nat
  PROVE  CeilDiv(n) \in Nat /\ CeilDiv(0) = 0
<1>1. Million \in Nat \ {0}
  BY NumbersAssumption
<1>2. (n + Million - 1) \div Million \in Nat /\ (0 + Million - 1) \div Million \in Nat
  BY <1>1, DivBounds
<1>3. Million * ((0 + Million - 1) \div Million) <= 0 + Million - 1
  BY <1>1, DivBounds
<1>4. (0 + Million - 1) \div Million = 0
  BY <1>1, <1>2, <1>3
<1> QED
  BY <1>2, <1>4 DEF CeilDiv

\* The price of tokens is exact, or refused.
LEMMA PriceExact ==
  ASSUME NEW tokens \in 0..MaxInt, NEW rate \in 1..MaxInt, mulDivCeil(tokens, rate) # <<>>
  PROVE  mulDivCeil(tokens, rate) = <<CeilDiv(rate * tokens)>>
<1>1. MaxInt \in Nat /\ Million \in Nat \ {0}
  BY NumbersAssumption
<1> PICK t, r : t = tokens /\ r = rate
  OBVIOUS
<1>2. t \in Nat /\ r \in Nat /\ r > 0 /\ ~(t < 0 \/ r <= 0)
  BY <1>1
<1>3. CASE t = 0
  <2>1. mulDivCeil(t, r) = <<0>>
    BY <1>2, <1>3 DEF mulDivCeil
  <2>2. r * t = 0
    BY <1>2, <1>3
  <2> QED
    BY <2>1, <2>2, CeilType
<1>4. CASE t # 0
  <2>1. mulInt64(t, r) # <<>>
    BY <1>2, <1>4 DEF mulDivCeil
  <2>2. mulInt64(t, r) = <<t * r>>
    BY <1>1, <2>1, MulExact
  <2> PICK p \in Nat : p = t * r
    BY <1>2
  <2>3. mulInt64(t, r)[1] = p
    BY <2>2
  <2>4. /\ addInt64(p, Million - 1) # <<>>
        /\ mulDivCeil(t, r) = <<Quo(addInt64(p, Million - 1)[1], Million)>>
    BY <1>2, <1>4, <2>1, <2>3 DEF mulDivCeil
  <2>5. addInt64(p, Million - 1) = <<p + (Million - 1)>>
    BY <2>4 DEF addInt64
  <2>6. Quo(p + (Million - 1), Million) = (p + Million - 1) \div Million
    BY <1>1 DEF Quo
  <2>7. r * t = p
    BY <1>2
  <2> QED
    BY <2>4, <2>5, <2>6, <2>7 DEF CeilDiv
<1> QED
  BY <1>3, <1>4

\* The price of tokens is refused exactly when what it is rounded up from is beyond
\* the machine.
LEMMA PriceDefined ==
  ASSUME NEW tokens \in 1..MaxInt, NEW rate \in 1..MaxInt
  PROVE  mulDivCeil(tokens, rate) # <<>> <=> rate * tokens + Million - 1 <= MaxInt
<1>1. MaxInt \in Nat /\ Million \in Nat \ {0}
  BY NumbersAssumption
<1>2. ~(tokens < 0 \/ rate <= 0) /\ tokens # 0 /\ tokens \in Nat /\ rate \in Nat
  BY <1>1
<1> PICK p \in Nat : p = tokens * rate
  BY <1>2
<1>3. rate * tokens = p
  BY <1>2
<1>4. mulInt64(tokens, rate) # <<>> <=> p <= MaxInt
  BY MulDefined
<1>5. CASE mulInt64(tokens, rate) = <<>>
  <2>1. mulDivCeil(tokens, rate) = <<>>
    BY <1>2, <1>5 DEF mulDivCeil
  <2>2. ~(p + Million - 1 <= MaxInt)
    BY <1>1, <1>4, <1>5
  <2> QED
    BY <1>3, <2>1, <2>2
<1>6. CASE mulInt64(tokens, rate) # <<>>
  <2>1. tokens \in 0..MaxInt /\ rate \in 0..MaxInt
    BY <1>1
  <2>2. mulInt64(tokens, rate) = <<p>>
    BY <1>6, <2>1, MulExact
  <2>3. mulInt64(tokens, rate)[1] = p
    BY <2>2
  <2>4. mulDivCeil(tokens, rate)
          = IF addInt64(p, Million - 1) = <<>> THEN <<>>
            ELSE <<Quo(addInt64(p, Million - 1)[1], Million)>>
    BY <1>2, <1>6, <2>3 DEF mulDivCeil
  <2>5. addInt64(p, Million - 1) = <<>> <=> Million - 1 > 0 /\ p > MaxInt - (Million - 1)
    BY <1>1 DEF addInt64
  <2>6. p <= MaxInt
    BY <1>4, <1>6
  <2>7. addInt64(p, Million - 1) = <<>> <=> ~(p + Million - 1 <= MaxInt)
    BY <1>1, <2>5, <2>6
  <2> QED
    BY <1>3, <2>4, <2>7
<1> QED
  BY <1>5, <1>6

\* A cost is refused exactly when it, or what a leg of it is rounded up from, is
\* beyond the machine.
LEMMA CostDefined ==
  ASSUME NEW inputRate \in 1..MaxInt, NEW outputRate \in 1..MaxInt,
         NEW inputTokens \in 1..MaxInt, NEW outputTokens \in 0..MaxInt
  PROVE  costMicros(inputRate, outputRate, inputTokens, outputTokens) # <<>>
           <=> /\ inputRate * inputTokens + Million - 1 <= MaxInt
               /\ outputTokens > 0 => outputRate * outputTokens + Million - 1 <= MaxInt
               /\ CeilDiv(inputRate * inputTokens) + CeilDiv(outputRate * outputTokens) <= MaxInt
<1> DEFINE input == mulDivCeil(inputTokens, inputRate)
           output == IF outputTokens > 0 THEN mulDivCeil(outputTokens, outputRate) ELSE <<0>>
           sum == addInt64(input[1], output[1])
           inputFits == inputRate * inputTokens + Million - 1 <= MaxInt
           outputFits == outputTokens > 0 => outputRate * outputTokens + Million - 1 <= MaxInt
<1>1. MaxInt \in Nat /\ Million \in Nat \ {0} /\ inputTokens \in 0..MaxInt
  BY NumbersAssumption
<1> PICK a, b : /\ a = CeilDiv(inputRate * inputTokens)
                /\ b = CeilDiv(outputRate * outputTokens)
  OBVIOUS
<1>2. costMicros(inputRate, outputRate, inputTokens, outputTokens)
        = IF input = <<>> \/ output = <<>> THEN <<>>
          ELSE IF sum = <<>> THEN <<>>
          ELSE IF sum[1] <= 0 THEN <<>> ELSE sum
  BY DEF costMicros
<1>3. input # <<>> <=> inputFits
  BY PriceDefined
<1>4. output # <<>> <=> outputFits
  <2>1. CASE outputTokens > 0
    <3>1. outputTokens \in 1..MaxInt
      BY <1>1, <2>1
    <3> QED
      BY <2>1, <3>1, PriceDefined
  <2>2. CASE ~(outputTokens > 0)
    BY <2>2
  <2> QED
    BY <2>1, <2>2
<1>5. a \in Nat /\ a >= 1 /\ b \in Nat
  <2>1. inputRate \in Nat /\ inputTokens \in Nat /\ inputRate > 0 /\ inputTokens > 0
        /\ outputRate \in Nat /\ outputTokens \in Nat
    BY <1>1
  <2>2. /\ inputRate * inputTokens \in Nat /\ inputRate * inputTokens > 0
        /\ outputRate * outputTokens \in Nat
    BY <2>1
  <2> PICK n \in Nat : n = inputRate * inputTokens
    BY <2>2
  <2>3. n + Million - 1 \in Nat /\ n + Million - 1 >= Million
    BY <1>1, <2>2
  <2>4. /\ a = (n + Million - 1) \div Million /\ a \in Nat
        /\ n + Million - 1 < Million * a + Million
    BY <1>1, <2>3, DivBounds DEF CeilDiv
  <2>5. a # 0
    <3> SUFFICES ASSUME a = 0 PROVE FALSE
      OBVIOUS
    <3>1. Million * a = 0
      BY <1>1
    <3>2. n + Million - 1 < 0 + Million
      BY <2>4, <3>1
    <3> QED
      BY <1>1, <2>3, <3>2
  <2>6. b \in Nat
    BY <2>2, CeilType
  <2> QED
    BY <2>4, <2>5, <2>6
<1>6. input # <<>> => input[1] = a
  BY <1>1, PriceExact
<1>7. output # <<>> => output[1] = b
  <2>1. CASE outputTokens > 0
    BY <2>1, PriceExact
  <2>2. CASE ~(outputTokens > 0)
    <3>1. outputRate * outputTokens = 0
      BY <1>1, <2>2
    <3>2. b = 0
      BY <3>1, CeilType
    <3>3. output = <<0>>
      BY <2>2
    <3> HIDE DEF output
    <3> QED
      BY <3>2, <3>3
  <2> QED
    BY <2>1, <2>2
<1> HIDE DEF input, output, inputFits, outputFits
<1>8. CASE inputFits /\ outputFits
  <2>1. sum = addInt64(a, b)
    BY <1>3, <1>4, <1>6, <1>7, <1>8
  <2>2. sum = IF b > 0 /\ a > MaxInt - b THEN <<>> ELSE <<a + b>>
    BY <1>1, <1>5, <2>1 DEF addInt64
  <2>3. a <= MaxInt
    <3>1. a <= inputRate * inputTokens + Million - 1
      <4> PICK n \in Nat : n = inputRate * inputTokens
        BY <1>1
      <4>1. n + Million - 1 \in Nat
        BY <1>1
      <4>2. a = (n + Million - 1) \div Million /\ Million * a <= n + Million - 1
        BY <1>1, <4>1, DivBounds DEF CeilDiv
      <4>3. a <= Million * a
        BY <1>1, <1>5
      <4> QED
        BY <1>1, <1>5, <4>1, <4>2, <4>3
    <3>2. inputRate * inputTokens \in Nat
      BY <1>1
    <3> QED
      BY <1>1, <1>5, <1>8, <3>1, <3>2 DEF inputFits
  <2>4. CASE b > 0 /\ a > MaxInt - b
    <3>1. sum = <<>> /\ ~(a + b <= MaxInt)
      BY <1>1, <1>5, <2>2, <2>4
    <3> QED
      BY <1>2, <3>1
  <2>5. CASE ~(b > 0 /\ a > MaxInt - b)
    <3>1. sum = <<a + b>>
      BY <2>2, <2>5
    <3>2. a + b <= MaxInt /\ ~(a + b <= 0)
      BY <1>1, <1>5, <2>3, <2>5
    <3>3. sum # <<>> /\ sum[1] = a + b
      BY <3>1
    <3>4. input # <<>> /\ output # <<>>
      BY <1>3, <1>4, <1>8
    <3> HIDE DEF sum
    <3>5. costMicros(inputRate, outputRate, inputTokens, outputTokens) = sum
      BY <1>2, <3>2, <3>3, <3>4
    <3> QED
      BY <1>8, <3>2, <3>3, <3>5 DEF inputFits, outputFits
  <2> QED
    BY <2>4, <2>5
<1>9. CASE ~(inputFits /\ outputFits)
  <2>1. costMicros(inputRate, outputRate, inputTokens, outputTokens) = <<>>
    BY <1>2, <1>3, <1>4, <1>9
  <2> QED
    BY <1>9, <2>1 DEF inputFits, outputFits
<1> QED
  BY <1>8, <1>9

LEMMA CostExact ==
  ASSUME NEW inputRate \in 1..MaxInt, NEW outputRate \in 1..MaxInt,
         NEW inputTokens \in 0..MaxInt, NEW outputTokens \in 0..MaxInt,
         costMicros(inputRate, outputRate, inputTokens, outputTokens) # <<>>
  PROVE  costMicros(inputRate, outputRate, inputTokens, outputTokens)
           = <<CeilDiv(inputRate * inputTokens) + CeilDiv(outputRate * outputTokens)>>
<1> DEFINE input == mulDivCeil(inputTokens, inputRate)
           output == IF outputTokens > 0 THEN mulDivCeil(outputTokens, outputRate) ELSE <<0>>
           sum == addInt64(input[1], output[1])
<1>1. /\ input # <<>> /\ output # <<>> /\ sum # <<>>
      /\ costMicros(inputRate, outputRate, inputTokens, outputTokens) = sum
  BY DEF costMicros
<1>2. MaxInt \in Nat
  BY NumbersAssumption
<1>3. input = <<CeilDiv(inputRate * inputTokens)>>
  BY <1>1, PriceExact
<1>4. output = <<CeilDiv(outputRate * outputTokens)>>
  <2>1. CASE outputTokens > 0
    BY <1>1, <2>1, PriceExact
  <2>2. CASE ~(outputTokens > 0)
    <3>1. outputRate * outputTokens = 0
      BY <1>2, <2>2
    <3> QED
      BY <2>2, <3>1, CeilType
  <2> QED
    BY <2>1, <2>2
<1> HIDE DEF input, output
<1>5. sum = <<input[1] + output[1]>>
  BY <1>1 DEF addInt64
<1> QED
  BY <1>1, <1>3, <1>4, <1>5

\* The estimate is the cost of what it estimates.
LEMMA EstimateExact ==
  ASSUME NEW price \in [input : Machine, output : Machine, maxOutput : Machine],
         NEW tokens \in Machine, EstimateMaxCostMicros(price, tokens) # <<>>
  PROVE  EstimateMaxCostMicros(price, tokens) = <<ExactCost(price, tokens, price.maxOutput)>>
<1>1. MaxInt \in Nat /\ MinInt \in Int
  BY NumbersAssumption DEF MinInt
<1> PICK i, o, m : i = price.input /\ o = price.output /\ m = price.maxOutput
  OBVIOUS
<1>2. i \in Machine /\ o \in Machine /\ m \in Machine
  OBVIOUS
<1>3. ~(i <= 0 \/ o <= 0 \/ m <= 0 \/ tokens <= 0)
  BY DEF EstimateMaxCostMicros
<1>4. i \in 1..MaxInt /\ o \in 1..MaxInt /\ m \in 0..MaxInt /\ tokens \in 0..MaxInt
  BY <1>1, <1>2, <1>3 DEF Machine
<1>5. EstimateMaxCostMicros(price, tokens) = costMicros(i, o, tokens, m)
  BY <1>3 DEF EstimateMaxCostMicros
<1>6. costMicros(i, o, tokens, m) = <<CeilDiv(i * tokens) + CeilDiv(o * m)>>
  BY <1>4, <1>5, CostExact
<1> QED
  BY <1>5, <1>6 DEF ExactCost

\* What has an estimate has a price.
LEMMA EstimatePositive ==
  ASSUME NEW price \in [input : Machine, output : Machine, maxOutput : Machine],
         NEW tokens, EstimateMaxCostMicros(price, tokens) # <<>>
  PROVE  price.input > 0 /\ price.output > 0
<1>1. MaxInt \in Nat /\ MinInt \in Int
  BY NumbersAssumption DEF MinInt
<1>2. price.input \in Int /\ price.output \in Int
  BY <1>1 DEF Machine
<1>3. ~(price.input <= 0) /\ ~(price.output <= 0)
  BY DEF EstimateMaxCostMicros
<1> QED
  BY <1>2, <1>3

\* Valid usage is charged what is due.
LEMMA ChargeDue ==
  ASSUME NEW price \in [input : Machine, output : Machine, maxOutput : Machine],
         price.input > 0, price.output > 0,
         NEW usage \in [prompt : Machine, completion : Machine, total : Machine],
         validateUsage(usage), NEW reserve \in Int
  PROVE  Charge(price, usage, reserve) = Due(price, usage, reserve)
<1>1. MaxInt \in Nat \ {0} /\ MinInt \in Int
  BY NumbersAssumption DEF MinInt
<1> PICK i, o, p, c : /\ i = price.input /\ o = price.output
                      /\ p = usage.prompt /\ c = usage.completion
  OBVIOUS
<1>2. /\ i \in Machine /\ o \in Machine /\ p \in Machine /\ c \in Machine
      /\ p >= 0 /\ c >= 0 /\ i > 0 /\ o > 0
  BY DEF validateUsage
<1> PICK prompt : prompt = IF p = 0 THEN 1 ELSE p
  OBVIOUS
<1>3. i \in 1..MaxInt /\ o \in 1..MaxInt /\ prompt \in 1..MaxInt /\ c \in 0..MaxInt
  BY <1>1, <1>2 DEF Machine
<1>4. prompt = IF p <= 0 THEN 1 ELSE p
  BY <1>1, <1>2 DEF Machine
<1> PICK actual : actual = ActualCostMicros(price, prompt, c)
  OBVIOUS
<1>5. Charge(price, usage, reserve)
        = IF actual = <<>> THEN reserve ELSE IF actual[1] > reserve THEN reserve ELSE actual[1]
  BY <1>4, Zenon DEF Charge
<1>6. actual = costMicros(i, o, prompt, c)
  <2>1. ~(i <= 0 \/ o <= 0 \/ prompt <= 0 \/ c < 0)
    BY <1>1, <1>3
  <2> QED
    BY <2>1 DEF ActualCostMicros
<1> PICK exact : exact = ExactCost(price, prompt, c)
  OBVIOUS
<1>7. exact = CeilDiv(i * prompt) + CeilDiv(o * c) /\ exact \in Int
  <2>1. i * prompt \in Nat /\ o * c \in Nat
    <3>1. i \in Nat /\ o \in Nat /\ prompt \in Nat /\ c \in Nat
      BY <1>1, <1>3
    <3> QED
      BY <3>1
  <2>2. CeilDiv(i * prompt) \in Nat /\ CeilDiv(o * c) \in Nat
    BY <2>1, CeilType
  <2>3. exact = CeilDiv(i * prompt) + CeilDiv(o * c)
    BY DEF ExactCost
  <2> QED
    BY <2>2, <2>3
<1>8. actual # <<>> <=> Computable(price, prompt, c)
  <2>1. Computable(price, prompt, c)
          <=> /\ i * prompt + Million - 1 <= MaxInt
              /\ c > 0 => o * c + Million - 1 <= MaxInt
              /\ CeilDiv(i * prompt) + CeilDiv(o * c) <= MaxInt
    BY <1>7 DEF Computable
  <2>2. costMicros(i, o, prompt, c) # <<>>
          <=> /\ i * prompt + Million - 1 <= MaxInt
              /\ c > 0 => o * c + Million - 1 <= MaxInt
              /\ CeilDiv(i * prompt) + CeilDiv(o * c) <= MaxInt
    BY <1>3, CostDefined
  <2> QED
    BY <1>6, <2>1, <2>2
<1>9. actual # <<>> => actual[1] = exact
  <2>1. SUFFICES ASSUME actual # <<>> PROVE actual[1] = exact
    OBVIOUS
  <2>2. prompt \in 0..MaxInt
    BY <1>1, <1>3
  <2>3. actual = <<CeilDiv(i * prompt) + CeilDiv(o * c)>>
    BY <1>3, <1>6, <2>1, <2>2, CostExact
  <2> QED
    BY <1>7, <2>3
<1>10. Due(price, usage, reserve)
         = IF Computable(price, prompt, c) /\ exact < reserve THEN exact ELSE reserve
  BY Zenon DEF Due
<1>11. CASE actual = <<>>
  BY <1>5, <1>8, <1>10, <1>11
<1>12. CASE actual # <<>>
  <2>1. Charge(price, usage, reserve) = IF exact > reserve THEN reserve ELSE exact
    BY <1>5, <1>9, <1>12
  <2>2. Due(price, usage, reserve) = IF exact < reserve THEN exact ELSE reserve
    BY <1>8, <1>10, <1>12
  <2> QED
    BY <1>7, <2>1, <2>2
<1> QED
  BY <1>11, <1>12

-----------------------------------------------------------------------------
(***************************************************************************)
(* Policy documents.                                                       *)
(***************************************************************************)

LEMMA UpTo ==
  ASSUME NEW n \in Nat
  PROVE  IsFiniteSet(1..n) /\ Cardinality(1..n) = n
BY FS_Interval

\* The elements of a sequence of numbers, and their ascending sequence.
LEMMA SortedRange ==
  ASSUME NEW values \in Seq(Nat)
  PROVE  /\ Range(values) \in SUBSET Int /\ IsFiniteSet(Range(values))
         /\ Cardinality(Range(values)) \in Nat /\ Cardinality(Range(values)) <= Len(values)
         /\ Ascending(Range(values)) \in [1..Cardinality(Range(values)) -> Range(values)]
         /\ Range(Ascending(Range(values))) = Range(values)
         /\ Len(Ascending(Range(values))) = Cardinality(Range(values))
         /\ DOMAIN Ascending(Range(values)) = 1..Cardinality(Range(values))
         /\ Ascending(Range(values)) = <<>> <=> values = <<>>
<1> DEFINE R == Range(values)
<1>1. /\ Len(values) \in Nat /\ DOMAIN values = 1..Len(values)
      /\ values \in [1..Len(values) -> Nat]
  OBVIOUS
<1>2. R \in SUBSET Int
  BY <1>1 DEF Range
<1>3. values \in Surjection(1..Len(values), R)
  BY <1>1 DEF Surjection, Range
<1>4. IsFiniteSet(1..Len(values)) /\ Cardinality(1..Len(values)) = Len(values)
  BY <1>1, UpTo
<1>5. IsFiniteSet(R) /\ Cardinality(R) <= Len(values)
  BY <1>3, <1>4, FS_Surjection
<1> PICK s : s = Ascending(R)
  OBVIOUS
<1> PICK n : n = Cardinality(R)
  OBVIOUS
<1>6. n \in Nat /\ s \in [1..n -> R] /\ \A x \in R : \E i \in 1..n : s[i] = x
  BY <1>2, <1>5, AscendingOf
<1> HIDE DEF R
<1>7. DOMAIN s = 1..n /\ Range(s) = R
  <2>1. DOMAIN s = 1..n
    BY <1>6
  <2>2. Range(s) = {s[i] : i \in 1..n}
    BY <2>1 DEF Range
  <2> QED
    BY <1>6, <2>1, <2>2
<1>8. Len(s) = n
  BY <1>6, <1>7
<1>9. s = <<>> <=> values = <<>>
  <2>1. s = <<>> => R = {}
    <3> SUFFICES ASSUME s = <<>> PROVE R = {}
      OBVIOUS
    <3>1. n = 0
      BY <1>6, <1>8
    <3> QED
      BY <1>6, <3>1
  <2>2. R = {} => values = <<>>
    <3> SUFFICES ASSUME R = {} PROVE values = <<>>
      OBVIOUS
    <3>1. \A i \in 1..Len(values) : values[i] \in R
      BY <1>1 DEF Range, R
    <3>2. Len(values) = 0
      BY <1>1, <3>1
    <3> QED
      BY <3>2
  <2>3. values = <<>> => R = {}
    BY DEF Range, R
  <2>4. R = {} => s = <<>>
    <3> SUFFICES ASSUME R = {} PROVE s = <<>>
      OBVIOUS
    <3>1. n = 0
      BY <1>6, FS_EmptySet
    <3>2. s \in Seq(R) /\ Len(s) = 0
      BY <1>6, <1>8, <3>1
    <3> QED
      BY <3>2
  <2> QED
    BY <2>1, <2>2, <2>3, <2>4
<1> QED
  BY <1>2, <1>5, <1>6, <1>7, <1>8, <1>9 DEF R

\* A rule that is put in order says what it said.
LEMMA RuleNormalized ==
  ASSUME NEW rule \in DecodedRule
  PROVE  /\ normalizeRule(rule)
              = [id |-> rule.id, effect |-> rule.effect,
                 principals |-> normalizeSelector(rule.principals),
                 groups |-> normalizeSelector(rule.groups),
                 endpoints |-> normalizeSelector(rule.endpoints),
                 models |-> normalizeSelector(rule.models)]
         /\ \A values \in {rule.principals, rule.groups, rule.endpoints, rule.models} :
              /\ values \in Seq(Nat)
              /\ Range(normalizeSelector(values)) = Range(values)
              /\ normalizeSelector(values) = <<>> <=> values = <<>>
              /\ \A x : Contains(normalizeSelector(values), x) <=> x \in Range(values)
<1>1. normalizeRule(rule)
        = [id |-> rule.id, effect |-> rule.effect,
           principals |-> normalizeSelector(rule.principals),
           groups |-> normalizeSelector(rule.groups),
           endpoints |-> normalizeSelector(rule.endpoints),
           models |-> normalizeSelector(rule.models)]
  <2> PICK p, g, e, m : /\ p = normalizeSelector(rule.principals)
                        /\ g = normalizeSelector(rule.groups)
                        /\ e = normalizeSelector(rule.endpoints)
                        /\ m = normalizeSelector(rule.models)
    OBVIOUS
  <2>1. rule = [id |-> rule.id, effect |-> rule.effect, principals |-> rule.principals,
                groups |-> rule.groups, endpoints |-> rule.endpoints, models |-> rule.models]
    BY DEF DecodedRule
  <2>2. normalizeRule(rule)
          = [rule EXCEPT !.principals = p, !.groups = g, !.endpoints = e, !.models = m]
    BY DEF normalizeRule
  <2>3. [rule EXCEPT !.principals = p, !.groups = g, !.endpoints = e, !.models = m]
          = [id |-> rule.id, effect |-> rule.effect, principals |-> p, groups |-> g,
             endpoints |-> e, models |-> m]
    <3> PICK u : u = [rule EXCEPT !.principals = p]
      OBVIOUS
    <3> PICK v : v = [u EXCEPT !.groups = g]
      OBVIOUS
    <3> PICK w : w = [v EXCEPT !.endpoints = e]
      OBVIOUS
    <3> PICK x : x = [w EXCEPT !.models = m]
      OBVIOUS
    <3>1. [rule EXCEPT !.principals = p, !.groups = g, !.endpoints = e, !.models = m]
            = x
      OBVIOUS
    <3>2. u = [id |-> rule.id, effect |-> rule.effect, principals |-> p, groups |-> rule.groups,
               endpoints |-> rule.endpoints, models |-> rule.models]
      BY <2>1
    <3>3. v = [id |-> rule.id, effect |-> rule.effect, principals |-> p, groups |-> g,
               endpoints |-> rule.endpoints, models |-> rule.models]
      BY <3>2
    <3>4. w = [id |-> rule.id, effect |-> rule.effect, principals |-> p, groups |-> g,
               endpoints |-> e, models |-> rule.models]
      BY <3>3
    <3>5. x = [id |-> rule.id, effect |-> rule.effect, principals |-> p, groups |-> g,
               endpoints |-> e, models |-> m]
      BY <3>4
    <3> QED
      BY <3>1, <3>5
  <2> QED
    BY <2>2, <2>3
<1>2. ASSUME NEW values \in Seq(Nat)
      PROVE  /\ Range(normalizeSelector(values)) = Range(values)
             /\ normalizeSelector(values) = <<>> <=> values = <<>>
             /\ \A x : Contains(normalizeSelector(values), x) <=> x \in Range(values)
  <2> PICK s : s = Ascending(Range(values))
    OBVIOUS
  <2>1. /\ Range(s) = Range(values) /\ (s = <<>> <=> values = <<>>)
        /\ DOMAIN s = 1..Len(s)
    BY SortedRange
  <2>2. \A x : Contains(s, x) <=> x \in Range(s)
    BY <2>1 DEF Contains, Range
  <2> QED
    BY <2>1, <2>2 DEF normalizeSelector
<1>3. \A values \in {rule.principals, rule.groups, rule.endpoints, rule.models} : values \in Seq(Nat)
  BY DEF DecodedRule
<1> QED
  BY <1>1, <1>2, <1>3

\* The rules of a document and a document that NewEngine accepts.
ValidRules(d) == d \in Seq(DecodedRule) /\ RulesValid(d)
Valid(d) == d \in DecodedDocument /\ DocumentValid(d)

LEMMA ValidParts ==
  ASSUME NEW d, Valid(d)
  PROVE  /\ ValidRules(d.rules) /\ Matches(d.version)
         /\ normalizeDocument(d) = [version |-> d.version, rules |-> normalizeRules(d.rules)]
<1>1. d.rules \in Seq(DecodedRule)
  BY DEF Valid, DecodedDocument
<1>2. RulesValid(d.rules) /\ Matches(d.version)
  BY DEF Valid, DocumentValid
<1> QED
  BY <1>1, <1>2 DEF ValidRules, normalizeDocument

\* The rules of a valid document are told apart by their ids.
LEMMA RulesById ==
  ASSUME NEW d, ValidRules(d)
  PROVE  /\ Range(d) \in SUBSET DecodedRule /\ \A r \in Range(d) : RuleValid(r)
         /\ \A r, s \in Range(d) : r.id = s.id => r = s
         /\ LET S == {r.id : r \in Range(d)} IN
            S \in SUBSET Int /\ IsFiniteSet(S) /\ Cardinality(S) = Len(d)
<1> DEFINE S == {r.id : r \in Range(d)}
           ids == [i \in 1..Len(d) |-> d[i].id]
<1>1. /\ Len(d) \in Nat /\ DOMAIN d = 1..Len(d) /\ \A i \in 1..Len(d) : d[i] \in DecodedRule
      /\ IsInjective(ids) /\ \A i \in 1..Len(d) : RuleValid(d[i])
  BY DEF ValidRules, RulesValid
<1>2. Range(d) \in SUBSET DecodedRule /\ \A r \in Range(d) : RuleValid(r)
  BY <1>1 DEF Range
<1>3. \A i, j \in 1..Len(d) : d[i].id = d[j].id => i = j
  BY <1>1, Zenon DEF IsInjective
<1>4. \A r, s \in Range(d) : r.id = s.id => r = s
  BY <1>1, <1>3 DEF Range
<1>5. S \in SUBSET Int
  BY <1>2 DEF DecodedRule
<1>6. ids \in [1..Len(d) -> S] /\ \A x \in S : \E i \in 1..Len(d) : ids[i] = x
  BY <1>1 DEF Range
<1> HIDE DEF ids, S
<1> PICK n \in Nat : n = Len(d)
  BY <1>1
<1> PICK I : I = 1..n
  OBVIOUS
<1>7. ids \in Surjection(I, S) /\ ids \in Injection(I, S)
  BY <1>1, <1>6, Zenon DEF Surjection, Injection
<1>8. IsFiniteSet(I) /\ Cardinality(I) = n
  BY UpTo
<1>9. IsFiniteSet(S) /\ Cardinality(S) = Len(d)
  <2>1. IsFiniteSet(S) /\ (Cardinality(S) = Cardinality(I) <=> ids \in Injection(I, S))
    BY <1>7, <1>8, FS_Surjection, Zenon
  <2> QED
    BY <1>7, <1>8, <2>1, Zenon
<1> QED
  BY <1>2, <1>4, <1>5, <1>9 DEF S

\* Its engine has the same rules, each put in order, by ascending id.
LEMMA RulesNormalized ==
  ASSUME NEW d, ValidRules(d)
  PROVE  LET ids == Ascending({r.id : r \in Range(d)})
             N == normalizeRules(d)
         IN  /\ Len(d) \in Nat /\ N = [i \in 1..Len(d) |-> N[i]] /\ Len(N) = Len(d)
             /\ ids \in [1..Len(d) -> {r.id : r \in Range(d)}]
             /\ \A i \in 1..Len(d) : \E r \in Range(d) : r.id = ids[i] /\ N[i] = normalizeRule(r)
             /\ \A r \in Range(d) : \E i \in 1..Len(d) : N[i] = normalizeRule(r)
<1> DEFINE S == {r.id : r \in Range(d)}
           ids == Ascending(S)
           N == normalizeRules(d)
           chosen == [i \in 1..Len(d) |-> CHOOSE r \in Range(d) : r.id = ids[i]]
<1>1. N = [i \in 1..Len(d) |-> normalizeRule(chosen[i])]
  BY DEF normalizeRules
<1>2. Len(d) \in Nat
  BY DEF ValidRules
<1>3. \A x \in S : \E r \in Range(d) : r.id = x
  OBVIOUS
<1>4. \A r \in Range(d) : r.id \in S
  OBVIOUS
<1>5. S \in SUBSET Int /\ IsFiniteSet(S) /\ Cardinality(S) = Len(d)
  BY RulesById
<1> HIDE DEF S
<1>6. ids \in [1..Len(d) -> S] /\ \A x \in S : \E i \in 1..Len(d) : ids[i] = x
  BY <1>5, AscendingOf
<1> HIDE DEF ids
<1>7. \A i \in 1..Len(d) : chosen[i] \in Range(d) /\ chosen[i].id = ids[i]
  <2> SUFFICES ASSUME NEW i \in 1..Len(d) PROVE chosen[i] \in Range(d) /\ chosen[i].id = ids[i]
    OBVIOUS
  <2>1. \E r \in Range(d) : r.id = ids[i]
    BY <1>3, <1>6
  <2>2. chosen[i] = CHOOSE r \in Range(d) : r.id = ids[i]
    OBVIOUS
  <2> HIDE DEF chosen
  <2> QED
    BY <2>1, <2>2
<1> HIDE DEF chosen, N
<1>8. /\ N = [i \in 1..Len(d) |-> N[i]] /\ Len(N) = Len(d)
      /\ \A i \in 1..Len(d) : N[i] = normalizeRule(chosen[i])
  BY <1>1, <1>2
<1>9. \A r \in Range(d) : \E i \in 1..Len(d) : N[i] = normalizeRule(r)
  <2> SUFFICES ASSUME NEW r \in Range(d) PROVE \E i \in 1..Len(d) : N[i] = normalizeRule(r)
    OBVIOUS
  <2>1. PICK i \in 1..Len(d) : ids[i] = r.id
    BY <1>4, <1>6
  <2>2. chosen[i] = r
    BY <1>7, <2>1, RulesById
  <2> QED
    BY <1>8, <2>2
<1> QED
  BY <1>2, <1>6, <1>7, <1>8, <1>9 DEF S, ids, N

\* A rule in order matches what the rule applies to.
LEMMA MatchesApplies ==
  ASSUME NEW rule \in DecodedRule, RuleValid(rule), NEW p, NEW groups, NEW endpoint, NEW model
  PROVE  ruleMatches(normalizeRule(rule), [principal |-> p, groups |-> groups,
                                           endpoint |-> endpoint, model |-> model])
           <=> Applies(rule, p, Range(groups), endpoint, model)
<1> DEFINE request == [principal |-> p, groups |-> groups, endpoint |-> endpoint, model |-> model]
           normal == normalizeRule(rule)
<1>1. /\ normal.principals = normalizeSelector(rule.principals)
      /\ normal.groups = normalizeSelector(rule.groups)
      /\ normal.endpoints = normalizeSelector(rule.endpoints)
      /\ normal.models = normalizeSelector(rule.models)
  BY RuleNormalized
<1>2. /\ request.principal = p /\ request.groups = groups
      /\ request.endpoint = endpoint /\ request.model = model
  OBVIOUS
<1> HIDE DEF request, normal
<1>3. Contains(normal.endpoints, endpoint) <=> endpoint \in Range(rule.endpoints)
  BY <1>1, RuleNormalized
<1>4. Contains(normal.models, model) <=> model \in Range(rule.models)
  BY <1>1, RuleNormalized
<1>5. /\ normal.principals = <<>> <=> rule.principals = <<>>
      /\ Contains(normal.principals, p) <=> p \in Range(rule.principals)
  BY <1>1, RuleNormalized
<1>6. normal.groups = <<>> <=> rule.groups = <<>>
  BY <1>1, RuleNormalized
<1>7. intersects(normal.groups, groups) <=> Range(groups) \cap Range(rule.groups) # {}
  <2>1. Range(normal.groups) = Range(rule.groups)
    BY <1>1, RuleNormalized
  <2> QED
    BY <2>1 DEF intersects
<1>8. rule.principals # <<>> \/ rule.groups # <<>>
  BY DEF RuleValid
<1>9. ruleMatches(normal, request) <=> Applies(rule, p, Range(groups), endpoint, model)
  BY <1>2, <1>3, <1>4, <1>5, <1>6, <1>7, <1>8 DEF ruleMatches, Applies
<1> QED
  BY <1>9 DEF normal, request

\* What applies is well formed.
LEMMA ModelsMatch ==
  ASSUME NEW d, Valid(d), NEW effect, NEW p, NEW groups, NEW endpoint, NEW model,
         Says(effect, d, p, groups, endpoint, model)
  PROVE  Matches(model)
<1>1. PICK rule \in Range(d.rules) : Applies(rule, p, groups, endpoint, model)
  BY DEF Says
<1>2. rule \in DecodedRule /\ RuleValid(rule)
  BY ValidParts, RulesById
<1>3. rule.models \in Seq(Nat) /\ SelectorValid(rule.models) /\ model \in Range(rule.models)
  BY <1>1, <1>2 DEF DecodedRule, RuleValid, Applies
<1>4. PICK i \in 1..Len(rule.models) : model = rule.models[i]
  BY <1>3 DEF Range
<1> QED
  BY <1>3, <1>4 DEF SelectorValid

\* The engine decides a well-formed request as the document demands.
LEMMA EvaluateMeans ==
  ASSUME NEW d, Valid(d), NEW p, Matches(p), NEW groups, validRequestGroups(groups),
         NEW endpoint, NEW model
  PROVE  LET decision == Evaluate(NewEngine(d), [principal |-> p, groups |-> groups,
                                                 endpoint |-> endpoint, model |-> model])
             allows == Says("allow", d, p, Range(groups), endpoint, model)
             denies == Says("deny", d, p, Range(groups), endpoint, model)
         IN  \/ denies /\ decision = Decision("deny", "explicit_deny")
             \/ ~denies /\ allows /\ decision = Decision("allow", "policy_allowed")
             \/ ~denies /\ ~allows /\ decision = Decision("deny", "no_matching_allow")
<1> DEFINE request == [principal |-> p, groups |-> groups, endpoint |-> endpoint, model |-> model]
           rules == normalizeRules(d.rules)
           effects == {rules[i].effect : i \in {j \in 1..Len(rules) : ruleMatches(rules[j], request)}}
           allows == Says("allow", d, p, Range(groups), endpoint, model)
           denies == Says("deny", d, p, Range(groups), endpoint, model)
           decision == Evaluate(NewEngine(d), request)
<1>1. /\ request.principal = p /\ request.groups = groups /\ request.model = model
      /\ NewEngine(d).rules = rules
  BY ValidParts DEF NewEngine
<1>0. ValidRules(d.rules)
  BY ValidParts
<1>2. ASSUME NEW effect PROVE effect \in effects <=> Says(effect, d, p, Range(groups), endpoint, model)
  <2>1. ASSUME effect \in effects PROVE Says(effect, d, p, Range(groups), endpoint, model)
    <3>1. PICK i \in 1..Len(rules) : rules[i].effect = effect /\ ruleMatches(rules[i], request)
      BY <2>1
    <3>2. PICK r \in Range(d.rules) : rules[i] = normalizeRule(r)
      BY <1>0, RulesNormalized
    <3>3. r \in DecodedRule /\ RuleValid(r)
      BY <1>0, RulesById
    <3>4. Applies(r, p, Range(groups), endpoint, model)
      BY <3>1, <3>2, <3>3, MatchesApplies
    <3>5. r.effect = effect
      BY <3>1, <3>2, <3>3, RuleNormalized
    <3> QED
      BY <3>4, <3>5 DEF Says
  <2>2. ASSUME Says(effect, d, p, Range(groups), endpoint, model) PROVE effect \in effects
    <3>1. PICK r \in Range(d.rules) : r.effect = effect /\ Applies(r, p, Range(groups), endpoint, model)
      BY <2>2 DEF Says
    <3>2. PICK i \in 1..Len(rules) : rules[i] = normalizeRule(r)
      <4>1. Len(rules) = Len(d.rules)
        BY <1>0, RulesNormalized
      <4>2. PICK i \in 1..Len(d.rules) : rules[i] = normalizeRule(r)
        BY <1>0, RulesNormalized
      <4> QED
        BY <4>1, <4>2
    <3>3. r \in DecodedRule /\ RuleValid(r)
      BY <1>0, RulesById
    <3>4. ruleMatches(rules[i], request)
      BY <3>1, <3>2, <3>3, MatchesApplies
    <3>5. rules[i].effect = effect
      BY <3>1, <3>2, <3>3, RuleNormalized
    <3> HIDE DEF rules, request
    <3> QED
      BY <3>4, <3>5
  <2> QED
    BY <2>1, <2>2
<1>3. "deny" \in effects <=> denies
  BY <1>2
<1>4. "allow" \in effects <=> allows
  BY <1>2
<1>5. allows \/ denies => Matches(model)
  BY ModelsMatch
<1>6. Evaluate(NewEngine(d), request)
        = IF ~Matches(model) THEN Decision("deny", "no_matching_allow")
          ELSE IF "deny" \in effects THEN Decision("deny", "explicit_deny")
          ELSE IF "allow" \in effects THEN Decision("allow", "policy_allowed")
          ELSE Decision("deny", "no_matching_allow")
  <2> HIDE DEF request, rules
  <2> QED
    BY <1>1 DEF Evaluate
<1> HIDE DEF effects, allows, denies, decision
<1>7. \/ denies /\ decision = Decision("deny", "explicit_deny")
      \/ ~denies /\ allows /\ decision = Decision("allow", "policy_allowed")
      \/ ~denies /\ ~allows /\ decision = Decision("deny", "no_matching_allow")
  BY <1>3, <1>4, <1>5, <1>6 DEF decision
<1> QED
  BY <1>7 DEF decision, allows, denies

\* Valid rules are the same in order exactly when they make the same statements.
LEMMA RulesNormalForm ==
  ASSUME NEW d, ValidRules(d), NEW f, ValidRules(f)
  PROVE  normalizeRules(d) = normalizeRules(f) <=> Statements(d) = Statements(f)
<1> DEFINE Said(rule) == [id |-> rule.id, effect |-> rule.effect,
                          principals |-> Range(rule.principals), groups |-> Range(rule.groups),
                          endpoints |-> Range(rule.endpoints), models |-> Range(rule.models)]
<1>1. \A e : Statements(e) = {Said(r) : r \in Range(e)}
  BY DEF Statements
<1>2. \A e : ValidRules(e) => \A r \in Range(e) :
        Said(normalizeRule(r)) = Said(r) /\ normalizeRule(r).id = r.id
  <2> SUFFICES ASSUME NEW e, ValidRules(e), NEW r \in Range(e)
               PROVE  Said(normalizeRule(r)) = Said(r) /\ normalizeRule(r).id = r.id
    OBVIOUS
  <2>1. r \in DecodedRule
    BY RulesById
  <2>2. LET n == normalizeRule(r) IN
        /\ n.id = r.id /\ n.effect = r.effect
        /\ Range(n.principals) = Range(r.principals) /\ Range(n.groups) = Range(r.groups)
        /\ Range(n.endpoints) = Range(r.endpoints) /\ Range(n.models) = Range(r.models)
    BY <2>1, RuleNormalized
  <2> QED
    BY <2>2
<1>3. \A r, s \in DecodedRule : Said(r) = Said(s) => normalizeRule(r) = normalizeRule(s)
  <2> SUFFICES ASSUME NEW r \in DecodedRule, NEW s \in DecodedRule, Said(r) = Said(s)
               PROVE  normalizeRule(r) = normalizeRule(s)
    OBVIOUS
  <2>1. /\ r.id = s.id /\ r.effect = s.effect
        /\ Range(r.principals) = Range(s.principals) /\ Range(r.groups) = Range(s.groups)
        /\ Range(r.endpoints) = Range(s.endpoints) /\ Range(r.models) = Range(s.models)
    OBVIOUS
  <2>2. /\ normalizeSelector(r.principals) = normalizeSelector(s.principals)
        /\ normalizeSelector(r.groups) = normalizeSelector(s.groups)
        /\ normalizeSelector(r.endpoints) = normalizeSelector(s.endpoints)
        /\ normalizeSelector(r.models) = normalizeSelector(s.models)
    BY <2>1 DEF normalizeSelector
  <2>3. /\ normalizeRule(r) = [id |-> r.id, effect |-> r.effect,
                               principals |-> normalizeSelector(r.principals),
                               groups |-> normalizeSelector(r.groups),
                               endpoints |-> normalizeSelector(r.endpoints),
                               models |-> normalizeSelector(r.models)]
        /\ normalizeRule(s) = [id |-> s.id, effect |-> s.effect,
                               principals |-> normalizeSelector(s.principals),
                               groups |-> normalizeSelector(s.groups),
                               endpoints |-> normalizeSelector(s.endpoints),
                               models |-> normalizeSelector(s.models)]
    BY RuleNormalized
  <2> QED
    BY <2>1, <2>2, <2>3
<1>4. \A e : ValidRules(e) => Statements(e) = {Said(normalizeRules(e)[i]) : i \in 1..Len(normalizeRules(e))}
  <2> SUFFICES ASSUME NEW e, ValidRules(e)
               PROVE  Statements(e) = {Said(normalizeRules(e)[i]) : i \in 1..Len(normalizeRules(e))}
    OBVIOUS
  <2> DEFINE N == normalizeRules(e)
  <2>1. /\ Len(N) = Len(e)
        /\ \A i \in 1..Len(e) : \E r \in Range(e) : N[i] = normalizeRule(r)
        /\ \A r \in Range(e) : \E i \in 1..Len(e) : N[i] = normalizeRule(r)
    BY RulesNormalized
  <2>2. \A r \in Range(e) : Said(normalizeRule(r)) = Said(r)
    BY <1>2
  <2>3. Statements(e) = {Said(r) : r \in Range(e)}
    BY <1>1
  <2> HIDE DEF N, Said
  <2>4. Statements(e) = {Said(N[i]) : i \in 1..Len(N)}
    BY <2>1, <2>2, <2>3
  <2> QED
    BY <2>4 DEF N
<1>5. normalizeRules(d) = normalizeRules(f) => Statements(d) = Statements(f)
  <2> HIDE DEF Said
  <2> QED
    BY <1>4
<1>6. ASSUME Statements(d) = Statements(f) PROVE normalizeRules(d) = normalizeRules(f)
  <2> DEFINE Ids(e) == {r.id : r \in Range(e)}
             n == Len(d)
             ids == Ascending(Ids(d))
  <2>0. {Said(r) : r \in Range(d)} = {Said(r) : r \in Range(f)}
    <3> HIDE DEF Said
    <3>1. Statements(d) = {Said(r) : r \in Range(d)}
      BY <1>1
    <3>2. Statements(f) = {Said(r) : r \in Range(f)}
      BY <1>1
    <3> QED
      BY <1>6, <3>1, <3>2
  <2>1. \A r \in Range(d) : \E s \in Range(f) : Said(r) = Said(s)
    <3> HIDE DEF Said
    <3> QED
      BY <2>0
  <2>2. \A s \in Range(f) : \E r \in Range(d) : Said(r) = Said(s)
    <3> HIDE DEF Said
    <3> QED
      BY <2>0
  <2>3. \A r, s : Said(r) = Said(s) => r.id = s.id
    OBVIOUS
  <2> HIDE DEF Said
  <2>4. Ids(d) = Ids(f)
    BY <2>1, <2>2, <2>3
  <2>5. Len(f) = n
    <3>1. Cardinality(Ids(d)) = Len(d) /\ Cardinality(Ids(f)) = Len(f)
      BY RulesById
    <3> QED
      BY <2>4, <3>1
  <2> PICK D, F : D = normalizeRules(d) /\ F = normalizeRules(f)
    OBVIOUS
  <2>6. /\ D = [i \in 1..n |-> D[i]]
        /\ \A i \in 1..n : \E r \in Range(d) : r.id = ids[i] /\ D[i] = normalizeRule(r)
    BY RulesNormalized
  <2>7. /\ F = [i \in 1..n |-> F[i]]
        /\ \A i \in 1..n : \E s \in Range(f) : s.id = ids[i] /\ F[i] = normalizeRule(s)
    <3>1. /\ F = [i \in 1..Len(f) |-> F[i]]
          /\ \A i \in 1..Len(f) : \E s \in Range(f) :
               s.id = Ascending(Ids(f))[i] /\ F[i] = normalizeRule(s)
      BY RulesNormalized
    <3> HIDE DEF Ids
    <3> QED
      BY <2>4, <2>5, <3>1
  <2> HIDE DEF n, ids, Ids
  <2>8. \A i \in 1..n : D[i] = F[i]
    <3> SUFFICES ASSUME NEW i \in 1..n PROVE D[i] = F[i]
      OBVIOUS
    <3>1. PICK r \in Range(d) : r.id = ids[i] /\ D[i] = normalizeRule(r)
      BY <2>6
    <3>2. PICK s \in Range(f) : s.id = ids[i] /\ F[i] = normalizeRule(s)
      BY <2>7
    <3>3. PICK t \in Range(f) : Said(r) = Said(t)
      BY <2>1
    <3>4. t = s
      <4>1. t.id = s.id
        BY <2>3, <3>1, <3>2, <3>3
      <4> QED
        BY <4>1, RulesById
    <3>5. r \in DecodedRule /\ s \in DecodedRule
      BY RulesById
    <3> QED
      BY <1>3, <3>1, <3>2, <3>3, <3>4, <3>5
  <2>9. D = F
    BY <2>6, <2>7, <2>8
  <2> QED
    BY <2>9
<1> QED
  BY <1>5, <1>6

\* Two valid documents have the same normal form exactly when they mean the same.
LEMMA NormalForm ==
  ASSUME NEW d, Valid(d), NEW f, Valid(f)
  PROVE  normalizeDocument(d) = normalizeDocument(f) <=> Meaning(d) = Meaning(f)
<1>1. /\ ValidRules(d.rules) /\ ValidRules(f.rules)
      /\ normalizeDocument(d) = [version |-> d.version, rules |-> normalizeRules(d.rules)]
      /\ normalizeDocument(f) = [version |-> f.version, rules |-> normalizeRules(f.rules)]
  BY ValidParts
<1>2. normalizeRules(d.rules) = normalizeRules(f.rules) <=> Statements(d.rules) = Statements(f.rules)
  BY <1>1, RulesNormalForm
<1>3. normalizeDocument(d) = normalizeDocument(f)
        <=> d.version = f.version /\ normalizeRules(d.rules) = normalizeRules(f.rules)
  <2> HIDE DEF normalizeRules
  <2> QED
    BY <1>1
<1>4. Meaning(d) = Meaning(f) <=> d.version = f.version /\ Statements(d.rules) = Statements(f.rules)
  BY DEF Meaning
<1> QED
  BY <1>2, <1>3, <1>4

\* The groups of a principal are those of its token, and well formed for the policy.
LEMMA GroupsNormalized ==
  ASSUME NEW values \in Seq(Nat), Len(values) <= MaxGroups,
         \A i \in 1..Len(values) : values[i] > 0
  PROVE  LET groups == Ascending(Range(values)) IN
         Range(groups) = Range(values) /\ validOIDCGroups(groups) /\ validRequestGroups(groups)
<1> DEFINE R == Range(values)
<1> PICK groups : groups = Ascending(R)
  OBVIOUS
<1> PICK n : n = Cardinality(R)
  OBVIOUS
<1>1. /\ n \in Nat /\ Len(groups) = n /\ n <= Len(values)
      /\ groups \in [1..n -> R] /\ Range(groups) = R /\ R \in SUBSET Int /\ IsFiniteSet(R)
  BY SortedRange
<1>2. \A i, j \in 1..n : i < j => groups[i] < groups[j]
  <2> HIDE DEF R
  <2> QED
    BY <1>1, AscendingOf
<1>3. \A x \in R : x \in Nat /\ x > 0
  BY DEF Range
<1> HIDE DEF R
<1>4. \A i \in 1..n : groups[i] > 0
  BY <1>1, <1>3
<1>5. \A i \in 2..n : groups[i-1] < groups[i]
  BY <1>1, <1>2
<1>6. n <= MaxGroups /\ n <= MaxSelectors
  <2>1. MaxGroups \in Nat /\ MaxSelectors \in Nat /\ MaxGroups <= MaxSelectors
    BY NamesAssumption
  <2>2. Len(values) \in Nat
    OBVIOUS
  <2> QED
    BY <1>1, <2>1, <2>2
<1>7. validOIDCGroups(groups) /\ validRequestGroups(groups)
  BY <1>1, <1>4, <1>5, <1>6 DEF validOIDCGroups, validRequestGroups, Matches
<1> QED
  BY <1>1, <1>7 DEF R

LEMMA NoGroups ==
  /\ Range(<<>>) = {} /\ validRequestGroups(<<>>)
BY NamesAssumption DEF Range, validRequestGroups

-----------------------------------------------------------------------------
(***************************************************************************)
(* The invariant.                                                          *)
(***************************************************************************)

\* A token that the issuer had made by a time.
Issued(t, time) ==
  /\ t.sub \in Nat /\ t.groups.values \in Seq(Nat)
  /\ \E made \in Int : /\ made <= time /\ t.exp = <<made + Life>>
                       /\ t.iat = <<made>> /\ t.nbf = <<made>>

Surroundings ==
  /\ deployment \in DOMAIN Deployments
  /\ skew \in Int /\ clock \in Int /\ active \in SUBSET Principals
  /\ document # Down => Valid(document)
  /\ bearer # NoToken => Issued(bearer[1], clock)

\* What a request in progress remembers of its arrival.
Remembered(past) ==
  /\ DOMAIN past = {"token", "active", "arrived", "parsed", "key"}
  /\ active \subseteq past.active /\ past.active \subseteq Principals
  /\ past.arrived \in Int /\ past.arrived <= clock
  /\ past.token # NoToken => Issued(past.token[1], past.arrived)
  /\ req.pc \in {"arrived", "parsed", "found"} => past.token # NoToken

RequestShape ==
  /\ DOMAIN req = DOMAIN Idle
  /\ At("idle") => req = Idle
  /\ ~At("ended") => req.answer = "none" /\ req.charge = <<>>
  /\ ~At("idle") => document # Down /\ req.past # <<>> /\ Remembered(req.past)

\* Who has been found was active on arrival; whose token has been parsed has its
\* subject and its groups.
Identified ==
  /\ req.pc \in {"found", "authenticated", "allowed", "started"}
       => req.principal.id \in req.past.active
  /\ req.pc \in {"parsed", "found", "authenticated", "allowed", "started"} =>
       LET token == req.past.token IN
       IF token = NoToken THEN req.principal.groups = <<>>
       ELSE /\ req.principal.groups = Ascending(Range(token[1].groups.values))
            /\ Len(token[1].groups.values) <= MaxGroups
            /\ \A i \in 1..Len(token[1].groups.values) : token[1].groups.values[i] > 0
  /\ At("parsed") => /\ req.principal.id = req.past.token[1].sub /\ req.past.token[1].sub > 0
                     /\ req.principal.method = "oidc"

\* Who is on the way to a run may use its model, and its price is exact.
Permitted ==
  req.pc \in {"allowed", "started"} =>
    /\ req.model \in Routes
    /\ Permits(document, req.principal.id, Claimed, Chat, req.model)

Priced ==
  At("started") => /\ req.price \in [input : Machine, output : Machine, maxOutput : Machine]
                   /\ req.price.input > 0 /\ req.price.output > 0
                   /\ req.reserve \in Int

Recorded ==
  /\ log \in Seq(Range(log))
  /\ \A i \in 1..Len(log) : LET e == log[i] IN
       /\ Valid(e.from.document)
       /\ e.evidence.digest = digestDocument(normalizeDocument(e.from.document))

AdmissionInv ==
  /\ Surroundings /\ RequestShape /\ Identified /\ Permitted /\ Priced /\ Recorded
  /\ PolicyDecides /\ PricesExact /\ TokensWorkWhileFresh

-----------------------------------------------------------------------------
(***************************************************************************)
(* It holds at first and in every step.                                    *)
(***************************************************************************)

LEMMA InitAdmission == Init => AdmissionInv
<1> SUFFICES ASSUME Init PROVE AdmissionInv
  OBVIOUS
<1>1. deployment \in DOMAIN Deployments /\ skew \in Int
  BY DeploymentsAssumption DEF Init, setting
<1>2. /\ clock = 0 /\ active = Principals /\ document = Down /\ bearer = NoToken
      /\ req = Idle /\ log = <<>>
  BY DEF Init
<1>3. Surroundings
  BY <1>1, <1>2 DEF Surroundings
<1>4. /\ req.pc = "idle" /\ req.answer = "none" /\ req.charge = <<>> /\ req.past = <<>>
  BY <1>2 DEF Idle
<1>5. RequestShape /\ Identified /\ Permitted /\ Priced /\ PricesExact /\ TokensWorkWhileFresh
  BY <1>2, <1>4
     DEF RequestShape, Identified, Permitted, Priced, PricesExact, TokensWorkWhileFresh, At
<1>6. Recorded /\ PolicyDecides
  <2>1. log \in Seq(Range(log)) /\ Len(log) = 0
    BY <1>2
  <2> QED
    BY <1>4, <2>1 DEF Recorded, PolicyDecides
<1> QED
  BY <1>3, <1>5, <1>6 DEF AdmissionInv

\* What happens around a request leaves it as it is.
LEMMA AroundAdmission ==
  ASSUME AdmissionInv, Surroundings',
         deployment' = deployment, skew' = skew, clock' >= clock, active' \in SUBSET active,
         document' = document \/ document = Down, req' = req, log' = log
  PROVE  AdmissionInv'
<1>1. /\ Surroundings /\ RequestShape /\ Identified /\ Permitted /\ Priced /\ Recorded
      /\ PolicyDecides /\ PricesExact /\ TokensWorkWhileFresh
  BY DEF AdmissionInv
<1>2. clock \in Int /\ clock' \in Int /\ active \in SUBSET Principals
  BY <1>1 DEF Surroundings
<1>3. ~At("idle") => document' = document
  BY <1>1 DEF RequestShape
<1>4. RequestShape'
  <2>1. ASSUME NEW past, Remembered(past) PROVE Remembered(past)'
    BY <1>2, <2>1 DEF Remembered
  <2> QED
    BY <1>1, <1>3, <2>1 DEF RequestShape, At
<1>5. Identified'
  BY <1>1 DEF Identified, At
<1>6. Permitted'
  BY <1>1, <1>3 DEF Permitted, At, Claimed
<1>7. Priced' /\ Recorded' /\ PricesExact'
  BY <1>1 DEF Priced, Recorded, PricesExact, At
<1>8. PolicyDecides'
  <2>1. req.answer = "listed" => ~At("idle")
    <3>1. Idle.answer = "none"
      BY DEF Idle
    <3> QED
      BY <1>1, <3>1 DEF RequestShape
  <2> QED
    BY <1>1, <1>3, <2>1 DEF PolicyDecides, Claimed
<1>9. TokensWorkWhileFresh'
  <2>1. ASSUME NEW t, Genuine(t)' PROVE Genuine(t)
    BY <2>1 DEF Genuine
  <2> QED
    BY <1>1, <2>1 DEF TokensWorkWhileFresh, Passed, At
<1> QED
  BY <1>4, <1>5, <1>6, <1>7, <1>8, <1>9 DEF AdmissionInv

\* So does the end of a request.
LEMMA GoneAdmission ==
  ASSUME AdmissionInv, Surroundings', req' = Idle, log' = log
  PROVE  AdmissionInv'
<1>1. /\ req'.pc = "idle" /\ req'.answer = "none" /\ req'.charge = <<>> /\ req'.past = <<>>
  BY DEF Idle
<1>2. RequestShape' /\ Identified' /\ Permitted' /\ Priced'
  BY <1>1 DEF RequestShape, Identified, Permitted, Priced, At
<1>3. PricesExact' /\ TokensWorkWhileFresh'
  BY <1>1 DEF PricesExact, TokensWorkWhileFresh, At
<1>4. Recorded' /\ PolicyDecides'
  BY <1>1 DEF AdmissionInv, Recorded, PolicyDecides
<1> QED
  BY <1>2, <1>3, <1>4 DEF AdmissionInv

LEMMA ElementsInRange ==
  ASSUME NEW q \in Seq(Nat)
  PROVE  \A i \in 1..Len(q) : q[i] \in Nat /\ q[i] \in Range(q)
BY DEF Range

LEMMA InOwnRange ==
  ASSUME NEW T, NEW q \in Seq(T)
  PROVE  q \in Seq(Range(q))
<1>1. q \in [1..Len(q) -> T] /\ Len(q) \in Nat
  OBVIOUS
<1>2. \A i \in 1..Len(q) : q[i] \in Range(q)
  BY <1>1 DEF Range
<1>3. q \in [1..Len(q) -> Range(q)]
  BY <1>1, <1>2
<1> QED
  BY <1>1, <1>3

\* A decision is added to the record.
LEMMA AppendAdmission ==
  ASSUME Recorded, \A i \in 1..Len(log) : AsDemanded(log[i]),
         NEW e, log' = Append(log, e), AsDemanded(e), Valid(e.from.document),
         e.evidence.digest = digestDocument(normalizeDocument(e.from.document))
  PROVE  Recorded' /\ \A i \in 1..Len(log') : AsDemanded(log'[i])
<1> PICK l, m : l = log /\ m = Append(log, e)
  OBVIOUS
<1>1. l \in Seq(Range(l))
  BY DEF Recorded
<1>2. /\ Len(m) = Len(l) + 1 /\ m[Len(l) + 1] = e /\ \A i \in 1..Len(l) : m[i] = l[i]
      /\ Len(l) \in Nat
  BY <1>1
<1>3. m \in Seq(Range(l) \cup {e})
  BY <1>1
<1>4. m \in Seq(Range(m))
  BY <1>3, InOwnRange
<1>5. ASSUME NEW i \in 1..Len(m)
      PROVE  /\ AsDemanded(m[i]) /\ Valid(m[i].from.document)
             /\ m[i].evidence.digest = digestDocument(normalizeDocument(m[i].from.document))
  <2>1. CASE i = Len(l) + 1
    BY <1>2, <2>1
  <2>2. CASE i # Len(l) + 1
    <3>1. i \in 1..Len(l) /\ m[i] = log[i]
      BY <1>2, <2>2
    <3> QED
      BY <3>1 DEF Recorded
  <2> QED
    BY <2>1, <2>2
<1> QED
  BY <1>4, <1>5 DEF Recorded

ClocksAgree == skew \in -Leeway..Leeway

\* The token is no older than it may be, and has not been refused without a reason.
Timely(past) ==
  ClocksAgree /\ past.token # NoToken => past.arrived < past.token[1].exp[1] + 2 * Leeway
Refusable(past) ==
  ClocksAgree /\ past.token # NoToken /\ past.key = IssuerKey
    => ~(Genuine(past.token[1]) /\ past.parsed < past.token[1].exp[1])

LEMMA FreshParts ==
  TokensWorkWhileFresh <=>
    (req.past # <<>> => /\ Passed => Timely(req.past)
                        /\ At("ended") /\ req.answer = "unauthenticated" => Refusable(req.past))
BY DEF TokensWorkWhileFresh, Timely, Refusable, ClocksAgree

\* A request that has come to an end.
LEMMA EndedAdmission ==
  ASSUME AdmissionInv, UNCHANGED outside, document # Down,
         DOMAIN req' = DOMAIN Idle, req'.pc = "ended", req'.past # <<>>, Remembered(req.past)',
         Recorded', PolicyDecides', PricesExact',
         req'.answer = "unauthenticated" => Refusable(req.past)'
  PROVE  AdmissionInv'
<1>1. Surroundings'
  BY DEF AdmissionInv, Surroundings, outside
<1>2. RequestShape' /\ Identified' /\ Permitted' /\ Priced'
  BY DEF RequestShape, Identified, Permitted, Priced, At, outside
<1>3. TokensWorkWhileFresh'
  <2>1. /\ Passed' => Timely(req.past)'
        /\ At("ended")' /\ req'.answer = "unauthenticated" => Refusable(req.past)'
    BY DEF Passed
  <2>2. TokensWorkWhileFresh' <=>
          (req'.past # <<>> =>
             /\ Passed' => Timely(req.past)'
             /\ At("ended")' /\ req'.answer = "unauthenticated" => Refusable(req.past)')
    BY DEF TokensWorkWhileFresh, Timely, Refusable, ClocksAgree
  <2> QED
    BY <2>1, <2>2
<1> QED
  BY <1>1, <1>2, <1>3 DEF AdmissionInv

\* One that goes on.
LEMMA WorkingAdmission ==
  ASSUME AdmissionInv, UNCHANGED outside, document # Down,
         DOMAIN req' = DOMAIN Idle, req'.pc \notin {"idle", "ended"}, req'.past # <<>>,
         Remembered(req.past)', req'.answer = "none", req'.charge = <<>>,
         Identified', Permitted', Priced', Passed' => Timely(req.past)',
         Recorded', \A i \in 1..Len(log') : AsDemanded(log'[i]),
         At("started")' => req'.reserve = ExactCost(req'.price, req'.tokens, req'.price.maxOutput)
  PROVE  AdmissionInv'
<1>1. Surroundings'
  BY DEF AdmissionInv, Surroundings, outside
<1>2. RequestShape'
  BY DEF RequestShape, At, outside
<1>3. PolicyDecides' /\ PricesExact'
  BY DEF PolicyDecides, PricesExact
<1>4. TokensWorkWhileFresh'
  <2>1. /\ Passed' => Timely(req.past)'
        /\ At("ended")' /\ req'.answer = "unauthenticated" => Refusable(req.past)'
    BY DEF At
  <2>2. TokensWorkWhileFresh' <=>
          (req'.past # <<>> =>
             /\ Passed' => Timely(req.past)'
             /\ At("ended")' /\ req'.answer = "unauthenticated" => Refusable(req.past)')
    BY DEF TokensWorkWhileFresh, Timely, Refusable, ClocksAgree
  <2> QED
    BY <2>1, <2>2
<1> QED
  BY <1>1, <1>2, <1>3, <1>4 DEF AdmissionInv

\* One that ends with an answer and no charge.
LEMMA AnswerAdmission ==
  ASSUME AdmissionInv, ~At("idle"), UNCHANGED outside, NEW answer,
         Answer(answer), answer \notin {"listed", "completed"},
         Recorded', \A i \in 1..Len(log') : AsDemanded(log'[i]),
         answer = "unauthenticated" => Refusable(req.past)
  PROVE  AdmissionInv'
<1>1. RequestShape
  BY DEF AdmissionInv
<1>2. document # Down /\ req.past # <<>> /\ Remembered(req.past)
  BY <1>1 DEF RequestShape
<1>3. /\ DOMAIN req' = DOMAIN Idle /\ req'.pc = "ended" /\ req'.past = req.past
      /\ req'.answer = answer /\ req'.charge = <<>>
  <2>1. req' = [Idle EXCEPT !.pc = "ended", !.answer = answer, !.past = req.past]
    BY DEF Answer
  <2> QED
    BY <2>1 DEF Idle
<1>4. Remembered(req.past)'
  BY <1>2, <1>3 DEF Remembered, outside
<1>5. PolicyDecides' /\ PricesExact'
  BY <1>3 DEF PolicyDecides, PricesExact, At
<1>6. req'.answer = "unauthenticated" => Refusable(req.past)'
  BY <1>3 DEF Refusable, ClocksAgree, Genuine, outside
<1> QED
  BY <1>2, <1>3, <1>4, <1>5, <1>6, EndedAdmission

LEMMA ArriveAdmission ==
  ASSUME AdmissionInv, Arrive
  PROVE  AdmissionInv'
<1>1. Surroundings /\ RequestShape /\ Recorded /\ PolicyDecides
  BY DEF AdmissionInv
<1>2. /\ At("idle") /\ document # Down /\ bearer # NoToken /\ UNCHANGED outside /\ log' = log
      /\ req' = [req EXCEPT !.pc = "arrived", !.past = Past]
  BY DEF Arrive
<1>3. /\ DOMAIN req' = DOMAIN Idle /\ req'.pc = "arrived" /\ req'.past = Past
      /\ req'.answer = "none" /\ req'.charge = <<>>
  <2>1. req' = [Idle EXCEPT !.pc = "arrived", !.past = Past]
    BY <1>1, <1>2 DEF RequestShape
  <2> QED
    BY <2>1 DEF Idle
<1>4. /\ Past.token = bearer /\ Past.active = active /\ Past.arrived = clock
      /\ DOMAIN Past = {"token", "active", "arrived", "parsed", "key"}
  BY DEF Past
<1>5. Remembered(req.past)'
  <2> PICK past : past = Past
    OBVIOUS
  <2>1. /\ req'.past = past /\ past.token = bearer /\ past.active = active /\ past.arrived = clock
        /\ DOMAIN past = {"token", "active", "arrived", "parsed", "key"}
    BY <1>3, <1>4
  <2> QED
    BY <1>1, <1>2, <2>1 DEF Remembered, Surroundings, outside
<1>6. Past # <<>>
  <2>1. DOMAIN <<>> = {} /\ "token" \in DOMAIN Past
    BY <1>4
  <2> QED
    BY <2>1
<1>7. Identified' /\ Permitted' /\ Priced' /\ ~Passed' /\ ~At("started")'
  BY <1>3 DEF Identified, Permitted, Priced, Passed, At
<1>8. Recorded' /\ \A i \in 1..Len(log') : AsDemanded(log'[i])
  BY <1>1, <1>2 DEF Recorded, PolicyDecides
<1> QED
  BY <1>2, <1>3, <1>5, <1>6, <1>7, <1>8, WorkingAdmission

LEMMA ApiKeyAdmission ==
  ASSUME AdmissionInv, NEW p \in Principals, AuthenticateAPIKey(p)
  PROVE  AdmissionInv'
<1>1. Surroundings /\ RequestShape /\ Recorded /\ PolicyDecides
  BY DEF AdmissionInv
<1>2. /\ At("idle") /\ document # Down /\ bearer = NoToken /\ p \in active
      /\ UNCHANGED outside /\ log' = log
      /\ req' = [req EXCEPT !.pc = "authenticated", !.past = Past,
                            !.principal = [id |-> p, method |-> "api_key", groups |-> <<>>]]
  BY DEF AuthenticateAPIKey
<1>3. /\ DOMAIN req' = DOMAIN Idle /\ req'.pc = "authenticated" /\ req'.past = Past
      /\ req'.answer = "none" /\ req'.charge = <<>>
      /\ req'.principal.id = p /\ req'.principal.groups = <<>>
  <2> PICK who, past : /\ who = [id |-> p, method |-> "api_key", groups |-> <<>>]
                       /\ past = Past
    OBVIOUS
  <2>1. req' = [Idle EXCEPT !.pc = "authenticated", !.past = past, !.principal = who]
    BY <1>1, <1>2 DEF RequestShape
  <2>2. who.id = p /\ who.groups = <<>>
    OBVIOUS
  <2>3. /\ DOMAIN req' = DOMAIN Idle /\ req'.pc = "authenticated" /\ req'.past = past
        /\ req'.answer = "none" /\ req'.charge = <<>> /\ req'.principal = who
    BY <2>1 DEF Idle
  <2> QED
    BY <2>2, <2>3
<1>4. /\ Past.token = bearer /\ Past.active = active /\ Past.arrived = clock
      /\ DOMAIN Past = {"token", "active", "arrived", "parsed", "key"}
  BY DEF Past
<1> PICK past : past = Past
  OBVIOUS
<1>5. /\ req'.past = past /\ past.token = NoToken /\ past.active = active /\ past.arrived = clock
      /\ DOMAIN past = {"token", "active", "arrived", "parsed", "key"}
  BY <1>2, <1>3, <1>4
<1>6. Remembered(req.past)'
  BY <1>1, <1>2, <1>3, <1>5 DEF Remembered, Surroundings, outside
<1>7. past # <<>>
  <2>1. DOMAIN <<>> = {} /\ "token" \in DOMAIN past
    BY <1>5
  <2> QED
    BY <2>1
<1>8. Identified'
  BY <1>2, <1>3, <1>5 DEF Identified, At
<1>9. Permitted' /\ Priced' /\ ~At("started")'
  BY <1>3 DEF Permitted, Priced, At
<1>10. Passed' => Timely(req.past)'
  BY <1>5 DEF Timely
<1>11. Recorded' /\ \A i \in 1..Len(log') : AsDemanded(log'[i])
  BY <1>1, <1>2 DEF Recorded, PolicyDecides
<1> QED
  BY <1>2, <1>3, <1>5, <1>6, <1>7, <1>8, <1>9, <1>10, <1>11, WorkingAdmission

LEMMA ParseAdmission ==
  ASSUME AdmissionInv, NEW answer \in {IssuerKey, "unknown", "unavailable"}, ParseToken(answer)
  PROVE  AdmissionInv'
<1> DEFINE token == req.past.token[1]
           extracted == extractOIDCGroups(token.groups)
           groups == IF extracted = <<>> THEN <<>> ELSE normalizeOIDCGroups(extracted[1])
           valid == ParseWithClaims(token, answer, Now) = "valid"
<1>1. Surroundings /\ RequestShape /\ Recorded /\ PolicyDecides
  BY DEF AdmissionInv
<1> PICK past : past = [req.past EXCEPT !.parsed = clock, !.key = answer]
  OBVIOUS
<1>2. /\ At("arrived") /\ UNCHANGED outside /\ log' = log
      /\ IF valid /\ groups # <<>>
         THEN req' = [req EXCEPT !.pc = "parsed", !.past = past,
                                 !.principal = [id |-> token.sub, method |-> "oidc",
                                                groups |-> groups[1]]]
         ELSE req' = [req EXCEPT !.pc = "ended", !.past = past,
                                 !.answer = IF ParseWithClaims(token, answer, Now) = "unavailable"
                                            THEN "unavailable" ELSE "unauthenticated"]
  BY DEF ParseToken
<1>3. /\ DOMAIN req = DOMAIN Idle /\ req.answer = "none" /\ req.charge = <<>>
      /\ document # Down /\ Remembered(req.past) /\ req.past.token # NoToken
  BY <1>1, <1>2 DEF RequestShape, At, Remembered
<1>4. /\ past.token = req.past.token /\ past.active = req.past.active
      /\ past.arrived = req.past.arrived /\ past.parsed = clock /\ past.key = answer
      /\ DOMAIN past = {"token", "active", "arrived", "parsed", "key"} /\ past # <<>>
  <2>1. DOMAIN req.past = {"token", "active", "arrived", "parsed", "key"}
    BY <1>3 DEF Remembered
  <2>2. /\ past.token = req.past.token /\ past.active = req.past.active
        /\ past.arrived = req.past.arrived /\ past.parsed = clock /\ past.key = answer
        /\ DOMAIN past = {"token", "active", "arrived", "parsed", "key"}
    BY <2>1
  <2>3. DOMAIN <<>> = {} /\ "token" \in DOMAIN past
    BY <2>2
  <2> QED
    BY <2>2, <2>3
<1> PICK t : t = token
  OBVIOUS
<1>5. /\ t.sub \in Nat /\ t.groups.values \in Seq(Nat)
      /\ \E made \in Int : /\ made <= past.arrived /\ t.exp = <<made + Life>>
                           /\ t.iat = <<made>> /\ t.nbf = <<made>>
  BY <1>3, <1>4 DEF Remembered, Issued
<1>6. Recorded' /\ \A i \in 1..Len(log') : AsDemanded(log'[i])
  BY <1>1, <1>2 DEF Recorded, PolicyDecides
<1>7. ASSUME req'.past = past, req'.pc \in {"parsed", "ended"} PROVE Remembered(req.past)'
  BY <1>2, <1>3, <1>4, <1>7 DEF Remembered, outside
<1> PICK values : values = t.groups.values
  OBVIOUS
<1>8. groups # <<>> => /\ groups[1] = Ascending(Range(values)) /\ Len(values) <= MaxGroups
                       /\ \A i \in 1..Len(values) : values[i] > 0
  BY DEF extractOIDCGroups, normalizeOIDCGroups
<1>9. Len(values) <= MaxGroups /\ (\A i \in 1..Len(values) : values[i] > 0)
      /\ t.groups.kind \in {"absent", "string", "list"} => groups # <<>>
  BY DEF extractOIDCGroups, normalizeOIDCGroups
<1>10. Leeway \in Int /\ Life \in Int /\ skew \in Int /\ clock \in Int /\ past.arrived \in Int
       /\ past.arrived <= clock
  <2>1. Leeway \in Int /\ Life \in Int
    BY NamesAssumption
  <2>2. skew \in Int /\ clock \in Int
    BY <1>1 DEF Surroundings
  <2>3. past.arrived \in Int /\ past.arrived <= clock
    BY <1>3, <1>4 DEF Remembered
  <2> QED
    BY <2>1, <2>2, <2>3
<1>11. valid => t.sub > 0 /\ TimesValid(t, Now)
  BY DEF ParseWithClaims
<1> HIDE DEF groups, extracted
<1>12. CASE valid /\ groups # <<>>
  <2> PICK who : who = [id |-> t.sub, method |-> "oidc", groups |-> groups[1]]
    OBVIOUS
  <2>1. who.id = t.sub /\ who.method = "oidc" /\ who.groups = groups[1]
    OBVIOUS
  <2>2. req' = [req EXCEPT !.pc = "parsed", !.past = past, !.principal = who]
    BY <1>2, <1>12
  <2>3. /\ DOMAIN req' = DOMAIN Idle /\ req'.pc = "parsed" /\ req'.past = past
        /\ req'.answer = "none" /\ req'.charge = <<>> /\ req'.principal = who
    BY <1>3, <2>2 DEF Idle
  <2> HIDE DEF token
  <2>4. Identified'
    <3>1. past.token # NoToken /\ past.token[1] = t
      BY <1>3, <1>4 DEF token
    <3>2. t.sub > 0
      BY <1>11, <1>12
    <3> QED
      BY <1>8, <1>12, <2>1, <2>3, <3>1, <3>2 DEF Identified, At
  <2>5. Timely(req.past)'
    <3>1. past.token[1] = t
      BY <1>4 DEF token
    <3>2. PICK e \in Int : t.exp = <<e>>
      BY <1>5, <1>10
    <3>3. clock + skew < e + Leeway
      <4>1. t.exp[1] = e
        BY <3>2
      <4> QED
        BY <1>11, <1>12, <4>1 DEF TimesValid, Now
    <3>4. skew \in -Leeway..Leeway => past.arrived < e + 2 * Leeway
      BY <1>10, <3>3
    <3>5. skew' = skew /\ t.exp[1] = e
      BY <1>2, <3>2 DEF outside
    <3> QED
      BY <2>3, <3>1, <3>4, <3>5 DEF Timely, ClocksAgree
  <2>6. Permitted' /\ Priced' /\ ~At("started")'
    BY <2>3 DEF Permitted, Priced, At
  <2>7. Remembered(req.past)'
    BY <1>7, <2>3
  <2>8. UNCHANGED outside
    BY <1>2
  <2>9. req'.pc \notin {"idle", "ended"}
    BY <2>3
  <2> QED
    BY <1>3, <1>4, <1>6, <2>3, <2>4, <2>5, <2>6, <2>7, <2>8, <2>9, WorkingAdmission
<1>13. CASE ~(valid /\ groups # <<>>)
  <2> PICK result : result = IF ParseWithClaims(token, answer, Now) = "unavailable"
                             THEN "unavailable" ELSE "unauthenticated"
    OBVIOUS
  <2>1. req' = [req EXCEPT !.pc = "ended", !.past = past, !.answer = result]
    BY <1>2, <1>13
  <2>2. /\ DOMAIN req' = DOMAIN Idle /\ req'.pc = "ended" /\ req'.past = past
        /\ req'.answer = result /\ req'.charge = <<>>
    BY <1>3, <2>1 DEF Idle
  <2>3. result \in {"unavailable", "unauthenticated"}
    OBVIOUS
  <2>4. Remembered(req.past)'
    BY <1>7, <2>2
  <2>5. PolicyDecides' /\ PricesExact'
    BY <1>6, <2>2, <2>3 DEF PolicyDecides, PricesExact, At
  <2>6. Refusable(req.past)'
    <3> SUFFICES ASSUME skew \in -Leeway..Leeway, answer = IssuerKey, Genuine(t), clock < t.exp[1]
                 PROVE  FALSE
      <4>1. skew' = skew /\ active' = active
        BY <1>2 DEF outside
      <4>2. /\ req'.past.token[1] = t /\ req'.past.key = answer /\ req'.past.parsed = clock
        BY <1>4, <2>2
      <4>3. ASSUME Genuine(t)' PROVE Genuine(t)
        BY <4>1, <4>3, Zenon DEF Genuine
      <4>4. ASSUME ClocksAgree', req'.past.key = IssuerKey, Genuine(t)', clock < t.exp[1]
            PROVE  FALSE
        BY <4>1, <4>2, <4>3, <4>4 DEF ClocksAgree
      <4> HIDE DEF ClocksAgree
      <4>5. Genuine(req.past.token[1])' <=> Genuine(t)'
        BY <4>2, Zenon DEF Genuine
      <4> QED
        BY <4>2, <4>4, <4>5, Zenon DEF Refusable
    <3>1. groups # <<>>
      <4>1. \A i \in 1..Len(values) : values[i] > 0
        <5>1. \A i \in 1..Len(values) : values[i] \in Nat /\ values[i] \in Range(values)
          BY ElementsInRange, <1>5
        <5>2. 0 \notin Range(values)
          BY Zenon DEF Genuine
        <5> HIDE DEF Genuine
        <5>3. \A v \in Nat : v # 0 => v > 0
          OBVIOUS
        <5> QED
          BY <5>1, <5>2, <5>3, Zenon
      <4> QED
        BY <1>9, <4>1 DEF Genuine
    <3>2. TimesValid(t, Now)
      <4>1. PICK made \in Int : /\ made <= past.arrived /\ t.exp = <<made + Life>>
                                /\ t.iat = <<made>> /\ t.nbf = <<made>>
        BY <1>5
      <4>2. t.exp[1] = made + Life /\ t.iat[1] = made /\ t.nbf[1] = made /\ t.exp # <<>>
        BY <4>1
      <4>3. /\ clock + skew < made + Life + Leeway
            /\ clock + skew >= made - Leeway
        BY <1>10, <4>1, <4>2
      <4> QED
        BY <4>2, <4>3 DEF TimesValid, Now
    <3>3. t.sub > 0
      <4>1. t.sub \in Principals
        BY <1>1 DEF Genuine, Surroundings
      <4> QED
        BY <4>1, NamesAssumption
    <3>4. t.kid # 0 /\ t.alg \in {"RS256", "ES256"} /\ t.key = IssuerKey
          /\ t.iss = Issuer /\ t.aud = Audience
      BY DEF Genuine
    <3>5. IssuerKey # "unavailable"
      BY NamesAssumption
    <3>6. valid
      BY <3>2, <3>3, <3>4, <3>5 DEF ParseWithClaims
    <3> QED
      BY <1>13, <3>1, <3>6
  <2> QED
    BY <1>2, <1>3, <1>4, <1>6, <2>2, <2>4, <2>5, <2>6, EndedAdmission
<1> QED
  BY <1>12, <1>13

\* A step that moves a request on without changing whose it is.
LEMMA MovedAdmission ==
  ASSUME AdmissionInv, UNCHANGED <<outside, log>>, NEW pc, req' = [req EXCEPT !.pc = pc],
         \/ At("parsed") /\ pc = "found" /\ FoundActive(req.principal.id)
         \/ At("found") /\ pc = "authenticated"
  PROVE  AdmissionInv'
<1>1. /\ Surroundings /\ RequestShape /\ Identified /\ Recorded /\ PolicyDecides
      /\ TokensWorkWhileFresh
  BY DEF AdmissionInv
<1>2. ~At("idle") /\ ~At("ended") /\ Passed
  BY DEF At, Passed
<1>3. /\ DOMAIN req = DOMAIN Idle /\ req.answer = "none" /\ req.charge = <<>>
      /\ document # Down /\ req.past # <<>> /\ Remembered(req.past)
  BY <1>1, <1>2 DEF RequestShape
<1>4. /\ DOMAIN req' = DOMAIN Idle /\ req'.pc = pc /\ req'.past = req.past
      /\ req'.answer = "none" /\ req'.charge = <<>> /\ req'.principal = req.principal
  BY <1>3 DEF Idle
<1>5. pc \in {"found", "authenticated"} /\ UNCHANGED outside /\ log' = log
  OBVIOUS
<1>6. Remembered(req.past)'
  BY <1>3, <1>4, <1>5 DEF Remembered, outside, At
<1>7. Identified'
  <2>1. req.principal.id \in req.past.active
    BY <1>1, <1>3 DEF Identified, At, FoundActive, Remembered
  <2>2. LET token == req.past.token IN
        IF token = NoToken THEN req.principal.groups = <<>>
        ELSE /\ req.principal.groups = Ascending(Range(token[1].groups.values))
             /\ Len(token[1].groups.values) <= MaxGroups
             /\ \A i \in 1..Len(token[1].groups.values) : token[1].groups.values[i] > 0
    BY <1>1 DEF Identified, At
  <2>3. req'.pc # "parsed"
    BY <1>4, <1>5
  <2> QED
    BY <1>4, <2>1, <2>2, <2>3 DEF Identified, At
<1>8. Permitted' /\ Priced' /\ ~At("started")' /\ req'.pc \notin {"idle", "ended"}
  BY <1>4, <1>5 DEF Permitted, Priced, At
<1>9. Timely(req.past)'
  <2>1. Timely(req.past)
    BY <1>1, <1>2, <1>3, FreshParts
  <2> QED
    BY <1>4, <1>5, <2>1 DEF Timely, ClocksAgree, outside
<1>10. Recorded' /\ \A i \in 1..Len(log') : AsDemanded(log'[i])
  BY <1>1, <1>5 DEF Recorded, PolicyDecides
<1> QED
  BY <1>3, <1>4, <1>5, <1>6, <1>7, <1>8, <1>9, <1>10, WorkingAdmission

\* The record stays as it is.
LEMMA SameRecord ==
  ASSUME AdmissionInv, log' = log
  PROVE  Recorded' /\ \A i \in 1..Len(log') : AsDemanded(log'[i])
BY DEF AdmissionInv, Recorded, PolicyDecides

LEMMA LookupAdmission ==
  ASSUME AdmissionInv, LookupOIDCPrincipal
  PROVE  AdmissionInv'
<1>1. At("parsed") /\ UNCHANGED outside /\ log' = log
  BY DEF LookupOIDCPrincipal, outside
<1>2. CASE FoundActive(req.principal.id) /\ req' = [req EXCEPT !.pc = "found"]
  BY <1>1, <1>2, MovedAdmission
<1>3. CASE /\ ~(FoundActive(req.principal.id) /\ PrincipalValid(req.principal))
           /\ Answer("unauthenticated")
  <2>1. Surroundings /\ RequestShape /\ Identified
    BY DEF AdmissionInv
  <2>2. /\ req.past.token # NoToken /\ Remembered(req.past)
    BY <1>1, <2>1 DEF RequestShape, Remembered, At
  <2> PICK token : token = req.past.token[1]
    OBVIOUS
  <2>3. /\ req.principal.id = token.sub /\ token.sub > 0 /\ req.principal.method = "oidc"
        /\ req.principal.groups = Ascending(Range(token.groups.values))
        /\ Len(token.groups.values) <= MaxGroups
        /\ \A i \in 1..Len(token.groups.values) : token.groups.values[i] > 0
    BY <1>1, <2>1, <2>2 DEF Identified, At
  <2>4. token.groups.values \in Seq(Nat)
    BY <2>2 DEF Remembered, Issued
  <2>5. validOIDCGroups(req.principal.groups)
    BY <2>3, <2>4, GroupsNormalized
  <2>6. PrincipalValid(req.principal)
    BY <2>3, <2>5 DEF PrincipalValid
  <2>7. token.sub \notin active
    BY <1>3, <2>3, <2>6 DEF FoundActive
  <2>8. Refusable(req.past)
    BY <2>7 DEF Refusable, Genuine
  <2>9. ~At("idle")
    BY <1>1 DEF At
  <2>10. Recorded' /\ \A i \in 1..Len(log') : AsDemanded(log'[i])
    BY <1>1, SameRecord
  <2> QED
    BY <1>1, <1>3, <2>8, <2>9, <2>10, AnswerAdmission
<1>4. CASE Answer("unavailable")
  <2>1. ~At("idle")
    BY <1>1 DEF At
  <2>2. Recorded' /\ \A i \in 1..Len(log') : AsDemanded(log'[i])
    BY <1>1, SameRecord
  <2> QED
    BY <1>1, <1>4, <2>1, <2>2, AnswerAdmission
<1> QED
  BY <1>2, <1>3, <1>4 DEF LookupOIDCPrincipal

LEMMA LogSuccessAdmission ==
  ASSUME AdmissionInv, LogSuccess
  PROVE  AdmissionInv'
<1>1. At("found") /\ UNCHANGED outside /\ log' = log
  BY DEF LogSuccess, outside
<1>2. CASE req' = [req EXCEPT !.pc = "authenticated"]
  BY <1>1, <1>2, MovedAdmission
<1>3. CASE Answer("unavailable")
  <2>1. ~At("idle")
    BY <1>1 DEF At
  <2>2. Recorded' /\ \A i \in 1..Len(log') : AsDemanded(log'[i])
    BY <1>1, SameRecord
  <2> QED
    BY <1>1, <1>3, <2>1, <2>2, AnswerAdmission
<1> QED
  BY <1>2, <1>3 DEF LogSuccess

LEMMA ChatFailsAdmission ==
  ASSUME AdmissionInv, ChatFails
  PROVE  AdmissionInv'
<1>1. At("authenticated") /\ UNCHANGED outside /\ log' = log /\ Answer("failed")
  BY DEF ChatFails, outside
<1>2. ~At("idle")
  BY <1>1 DEF At
<1>3. Recorded' /\ \A i \in 1..Len(log') : AsDemanded(log'[i])
  BY <1>1, SameRecord
<1> QED
  BY <1>1, <1>2, <1>3, AnswerAdmission

LEMMA PrincipalsMatch == \A p \in Principals : Matches(p)
BY NamesAssumption DEF Matches

\* A request that is decided is well formed, and asks for the groups in its token.
LEMMA WellFormed ==
  ASSUME AdmissionInv, req.pc \in {"authenticated", "allowed", "started"}
  PROVE  /\ Valid(document) /\ Matches(req.principal.id)
         /\ Range(req.principal.groups) = Claimed /\ validRequestGroups(req.principal.groups)
<1>1. Surroundings /\ RequestShape /\ Identified
  BY DEF AdmissionInv
<1>2. document # Down /\ Remembered(req.past)
  BY <1>1 DEF RequestShape, At
<1>3. Valid(document)
  BY <1>1, <1>2 DEF Surroundings
<1>4. Matches(req.principal.id)
  <2>1. req.principal.id \in Principals
    BY <1>1, <1>2 DEF Identified, Remembered
  <2> QED
    BY <2>1, PrincipalsMatch
<1>5. CASE req.past.token = NoToken
  <2>1. req.principal.groups = <<>> /\ Claimed = {}
    BY <1>1, <1>5 DEF Identified, Claimed
  <2> QED
    BY <1>3, <1>4, <2>1, NoGroups
<1>6. CASE req.past.token # NoToken
  <2> PICK values : values = req.past.token[1].groups.values
    OBVIOUS
  <2>1. /\ req.principal.groups = Ascending(Range(values)) /\ Len(values) <= MaxGroups
        /\ \A i \in 1..Len(values) : values[i] > 0
    BY <1>1, <1>6 DEF Identified
  <2>2. values \in Seq(Nat) /\ Claimed = Range(values)
    BY <1>2, <1>6 DEF Remembered, Issued, Claimed
  <2>3. /\ Range(Ascending(Range(values))) = Range(values)
        /\ validRequestGroups(Ascending(Range(values)))
    BY <2>1, <2>2, GroupsNormalized
  <2> QED
    BY <1>3, <1>4, <2>1, <2>2, <2>3
<1> QED
  BY <1>5, <1>6

\* What the engine says of a request is what the document demands for it.
LEMMA EvaluatedMeans ==
  ASSUME AdmissionInv, req.pc \in {"authenticated", "allowed", "started"}, NEW endpoint, NEW model
  PROVE  LET allows == Says("allow", document, req.principal.id, Claimed, endpoint, model)
             denies == Says("deny", document, req.principal.id, Claimed, endpoint, model)
             decision == Evaluated(endpoint, model)
         IN  \/ denies /\ decision = Decision("deny", "explicit_deny")
             \/ ~denies /\ allows /\ decision = Decision("allow", "policy_allowed")
             \/ ~denies /\ ~allows /\ decision = Decision("deny", "no_matching_allow")
<1>1. /\ Valid(document) /\ Matches(req.principal.id)
      /\ Range(req.principal.groups) = Claimed /\ validRequestGroups(req.principal.groups)
  BY WellFormed
<1> PICK d, p, groups, claimed : /\ d = document /\ p = req.principal.id
                                 /\ groups = req.principal.groups /\ claimed = Claimed
  OBVIOUS
<1>2. Valid(d) /\ Matches(p) /\ validRequestGroups(groups) /\ Range(groups) = claimed
  BY <1>1
<1>3. Evaluated(endpoint, model)
        = Evaluate(NewEngine(d), [principal |-> p, groups |-> groups,
                                  endpoint |-> endpoint, model |-> model])
  BY DEF Evaluated, engine
<1>4. LET decision == Evaluated(endpoint, model)
          allows == Says("allow", d, p, claimed, endpoint, model)
          denies == Says("deny", d, p, claimed, endpoint, model)
      IN  \/ denies /\ decision = Decision("deny", "explicit_deny")
          \/ ~denies /\ allows /\ decision = Decision("allow", "policy_allowed")
          \/ ~denies /\ ~allows /\ decision = Decision("deny", "no_matching_allow")
  <2> HIDE DEF Evaluate
  <2> QED
    BY <1>2, <1>3, EvaluateMeans
<1> QED
  BY <1>4

\* The listing.
LEMMA ModelsAdmission ==
  ASSUME AdmissionInv, handleModels
  PROVE  AdmissionInv'
<1> PICK listing : listing = {m \in Routes : Evaluated(ModelsList, m).effect = "allow"}
  OBVIOUS
<1>1. /\ At("authenticated") /\ UNCHANGED outside /\ log' = log
      /\ req' = [req EXCEPT !.pc = "ended", !.answer = "listed", !.listed = <<listing>>]
  BY DEF handleModels, outside
<1>2. RequestShape
  BY DEF AdmissionInv
<1>3. /\ DOMAIN req = DOMAIN Idle /\ req.charge = <<>>
      /\ document # Down /\ req.past # <<>> /\ Remembered(req.past)
  BY <1>1, <1>2 DEF RequestShape, At
<1>4. /\ DOMAIN req' = DOMAIN Idle /\ req'.pc = "ended" /\ req'.past = req.past
      /\ req'.answer = "listed" /\ req'.charge = <<>> /\ req'.principal = req.principal
      /\ req'.listed = <<listing>>
  BY <1>1, <1>3 DEF Idle
<1>5. listing = {m \in Routes : Permits(document, req.principal.id, Claimed, ModelsList, m)}
  <2>1. ASSUME NEW m PROVE Evaluated(ModelsList, m).effect = "allow"
                             <=> Permits(document, req.principal.id, Claimed, ModelsList, m)
    <3> DEFINE allows == Says("allow", document, req.principal.id, Claimed, ModelsList, m)
               denies == Says("deny", document, req.principal.id, Claimed, ModelsList, m)
               decision == Evaluated(ModelsList, m)
    <3>1. \/ denies /\ decision = Decision("deny", "explicit_deny")
          \/ ~denies /\ allows /\ decision = Decision("allow", "policy_allowed")
          \/ ~denies /\ ~allows /\ decision = Decision("deny", "no_matching_allow")
      BY <1>1, EvaluatedMeans DEF At
    <3>2. Permits(document, req.principal.id, Claimed, ModelsList, m) <=> allows /\ ~denies
      BY DEF Permits
    <3> HIDE DEF allows, denies, decision
    <3>3. decision.effect = "allow" <=> allows /\ ~denies
      BY <3>1 DEF Decision
    <3> QED
      BY <3>2, <3>3 DEF decision
  <2> QED
    BY <2>1
<1>6. Recorded' /\ \A i \in 1..Len(log') : AsDemanded(log'[i])
  BY <1>1, SameRecord
<1>7. PolicyDecides'
  <2>1. Claimed' = Claimed /\ document' = document
    BY <1>1, <1>4 DEF Claimed, outside
  <2> QED
    BY <1>4, <1>5, <1>6, <2>1 DEF PolicyDecides
<1>8. PricesExact'
  BY <1>4 DEF PricesExact, At
<1>9. Remembered(req.past)'
  BY <1>1, <1>3, <1>4 DEF Remembered, outside
<1> QED
  BY <1>1, <1>3, <1>4, <1>6, <1>7, <1>8, <1>9, EndedAdmission

\* An entry is the decision that the document demands, or is not about the policy.
LEMMA EntryDemanded ==
  ASSUME AdmissionInv, req.pc \in {"authenticated", "allowed", "started"},
         NEW decision, NEW model, NEW recorded,
         LET permits == Permits(document, req.principal.id, Claimed, Chat, model)
             denies == Says("deny", document, req.principal.id, Claimed, Chat, model)
         IN  /\ decision.effect = "allow" => permits /\ model \in Routes
             /\ decision.reason = "explicit_deny" <=> denies
             /\ decision.reason = "no_matching_allow" => ~(permits /\ model \in Routes),
         log' = Append(log, Entry(decision, model, recorded))
  PROVE  Recorded' /\ \A i \in 1..Len(log') : AsDemanded(log'[i])
<1> PICK e : e = Entry(decision, model, recorded)
  OBVIOUS
<1>1. /\ e.evidence.principal = req.principal.id /\ e.evidence.digest = engine.digest
      /\ e.decision = decision /\ e.from.document = document /\ e.from.groups = Claimed
      /\ e.from.model = model
  BY DEF Entry
<1>2. AsDemanded(e)
  BY <1>1 DEF AsDemanded
<1>3. Valid(document)
  BY WellFormed
<1>4. engine.digest = digestDocument(normalizeDocument(document))
  BY DEF engine, NewEngine
<1>5. Recorded /\ \A i \in 1..Len(log) : AsDemanded(log[i])
  BY DEF AdmissionInv, PolicyDecides
<1>6. log' = Append(log, e)
  OBVIOUS
<1>7. Valid(e.from.document)
      /\ e.evidence.digest = digestDocument(normalizeDocument(e.from.document))
  BY <1>1, <1>3, <1>4
<1> HIDE DEF Recorded
<1> QED
  BY <1>2, <1>5, <1>6, <1>7, AppendAdmission

LEMMA DecideAdmission ==
  ASSUME AdmissionInv, NEW model, DecideChat(model)
  PROVE  AdmissionInv'
<1> DEFINE permits == Permits(document, req.principal.id, Claimed, Chat, model)
           denies == Says("deny", document, req.principal.id, Claimed, Chat, model)
           evaluated == Evaluated(Chat, model)
<1> PICK decision : decision = IF model \in Routes THEN evaluated ELSE Unrouted(evaluated)
  OBVIOUS
<1> PICK recorded : recorded = IF model \in Routes THEN model ELSE UnknownModel
  OBVIOUS
<1>1. /\ At("authenticated") /\ UNCHANGED outside
      /\ IF decision.effect = "allow"
         THEN req' = [req EXCEPT !.pc = "allowed", !.model = model] /\ log' = log
         ELSE log' = Append(log, Entry(decision, model, recorded)) /\ Answer("policy_denied")
  BY DEF DecideChat
<1>2. /\ decision.effect = "allow" => permits /\ model \in Routes
      /\ decision.reason = "explicit_deny" <=> denies
      /\ decision.reason = "no_matching_allow" => ~(permits /\ model \in Routes)
  <2> DEFINE allows == Says("allow", document, req.principal.id, Claimed, Chat, model)
  <2>1. \/ denies /\ evaluated = Decision("deny", "explicit_deny")
        \/ ~denies /\ allows /\ evaluated = Decision("allow", "policy_allowed")
        \/ ~denies /\ ~allows /\ evaluated = Decision("deny", "no_matching_allow")
    BY <1>1, EvaluatedMeans DEF At
  <2>2. permits <=> allows /\ ~denies
    BY DEF Permits
  <2> HIDE DEF permits, allows, denies, evaluated
  <2>3. CASE model \in Routes
    <3>1. decision = evaluated
      BY <2>3
    <3> QED
      BY <2>1, <2>2, <2>3, <3>1 DEF Decision
  <2>4. CASE model \notin Routes
    <3>1. decision = IF evaluated.effect = "allow" THEN Decision("deny", "no_matching_allow")
                     ELSE evaluated
      BY <2>4 DEF Unrouted
    <3> QED
      BY <2>1, <2>2, <2>4, <3>1 DEF Decision
  <2> QED
    BY <2>3, <2>4
<1>3. /\ Surroundings /\ RequestShape /\ Identified /\ TokensWorkWhileFresh
  BY DEF AdmissionInv
<1>4. /\ DOMAIN req = DOMAIN Idle /\ req.answer = "none" /\ req.charge = <<>>
      /\ document # Down /\ req.past # <<>> /\ Remembered(req.past)
  BY <1>1, <1>3 DEF RequestShape, At
<1>5. CASE decision.effect = "allow"
  <2>1. req' = [req EXCEPT !.pc = "allowed", !.model = model] /\ log' = log
    BY <1>1, <1>5
  <2>2. /\ DOMAIN req' = DOMAIN Idle /\ req'.pc = "allowed" /\ req'.past = req.past
        /\ req'.answer = "none" /\ req'.charge = <<>> /\ req'.principal = req.principal
        /\ req'.model = model
    BY <1>4, <2>1 DEF Idle
  <2>3. Remembered(req.past)'
    BY <1>1, <1>4, <2>2 DEF Remembered, outside
  <2>4. Identified'
    BY <1>1, <1>3, <2>2 DEF Identified, At
  <2>5. Permitted'
    <3>1. Claimed' = Claimed /\ document' = document
      BY <1>1, <2>2 DEF Claimed, outside
    <3> QED
      BY <1>2, <1>5, <2>2, <3>1 DEF Permitted
  <2>6. Priced' /\ ~At("started")' /\ req'.pc \notin {"idle", "ended"}
    BY <2>2 DEF Priced, At
  <2>7. Timely(req.past)'
    <3>1. Timely(req.past)
      BY <1>1, <1>3, <1>4, FreshParts DEF Passed, At
    <3> QED
      BY <1>1, <2>2, <3>1 DEF Timely, ClocksAgree, outside
  <2>8. Recorded' /\ \A i \in 1..Len(log') : AsDemanded(log'[i])
    BY <2>1, SameRecord
  <2> QED
    BY <1>1, <1>4, <2>2, <2>3, <2>4, <2>5, <2>6, <2>7, <2>8, WorkingAdmission
<1>6. CASE decision.effect # "allow"
  <2>1. log' = Append(log, Entry(decision, model, recorded)) /\ Answer("policy_denied")
    BY <1>1, <1>6
  <2>2. ~At("idle") /\ req.pc = "authenticated"
    BY <1>1 DEF At
  <2>3. Recorded' /\ \A i \in 1..Len(log') : AsDemanded(log'[i])
    BY <1>2, <2>1, <2>2, EntryDemanded
  <2> QED
    BY <1>1, <2>1, <2>2, <2>3, AnswerAdmission
<1> QED
  BY <1>5, <1>6

\* The deployment's numbers.
LEMMA SettingNumbers ==
  ASSUME Surroundings
  PROVE  /\ setting.prices \subseteq [input : Machine, output : Machine, maxOutput : Machine]
         /\ \A bytes \in setting.bodies : InputTokens(bytes) \in Machine
         /\ setting.usages \subseteq [prompt : Machine, completion : Machine, total : Machine]
BY DeploymentsAssumption DEF Surroundings, setting

LEMMA CostType ==
  ASSUME NEW price \in [input : Machine, output : Machine, maxOutput : Machine],
         NEW input \in Machine, NEW output \in Machine,
         EstimateMaxCostMicros(price, input) # <<>>
  PROVE  ExactCost(price, input, price.maxOutput) \in Int
<1>1. MaxInt \in Nat /\ MinInt \in Int
  BY NumbersAssumption DEF MinInt
<1> PICK i, o, m : i = price.input /\ o = price.output /\ m = price.maxOutput
  OBVIOUS
<1>2. i \in Nat /\ o \in Nat /\ m \in Nat /\ input \in Nat
  <2>1. i \in Machine /\ o \in Machine /\ m \in Machine
    OBVIOUS
  <2>2. ~(i <= 0 \/ o <= 0 \/ m <= 0 \/ input <= 0)
    BY DEF EstimateMaxCostMicros
  <2> QED
    BY <1>1, <2>1, <2>2 DEF Machine
<1>3. i * input \in Nat /\ o * m \in Nat
  BY <1>2
<1>4. CeilDiv(i * input) \in Nat /\ CeilDiv(o * m) \in Nat
  BY <1>3, CeilType
<1>5. ExactCost(price, input, price.maxOutput) = CeilDiv(i * input) + CeilDiv(o * m)
  BY DEF ExactCost
<1> QED
  BY <1>4, <1>5

LEMMA ReserveAdmission ==
  ASSUME AdmissionInv, NEW price \in setting.prices, NEW bytes \in setting.bodies,
         ReserveEstimate(price, bytes)
  PROVE  AdmissionInv'
<1> PICK tokens : tokens = InputTokens(bytes)
  OBVIOUS
<1> PICK estimate : estimate = EstimateMaxCostMicros(price, tokens)
  OBVIOUS
<1>1. /\ At("allowed") /\ UNCHANGED outside
      /\ \/ log' = log /\ Answer("unavailable")
         \/ /\ estimate # <<>>
            /\ log' = Append(log, Entry(Decision("allow", "policy_allowed"), req.model, req.model))
            /\ req' = [req EXCEPT !.pc = "started", !.price = price,
                                  !.tokens = tokens, !.reserve = estimate[1]]
         \/ /\ log' = Append(log, Entry(Decision("deny", "budget_denied"), req.model, req.model))
            /\ Answer("budget_denied")
  BY DEF ReserveEstimate
<1>2. /\ Surroundings /\ RequestShape /\ Identified /\ Permitted /\ TokensWorkWhileFresh
  BY DEF AdmissionInv
<1>3. /\ DOMAIN req = DOMAIN Idle /\ req.answer = "none" /\ req.charge = <<>>
      /\ document # Down /\ req.past # <<>> /\ Remembered(req.past)
  BY <1>1, <1>2 DEF RequestShape, At
<1>4. /\ price \in [input : Machine, output : Machine, maxOutput : Machine]
      /\ tokens \in Machine
  BY <1>2, SettingNumbers
<1>5. ~At("idle") /\ req.pc = "allowed"
  BY <1>1 DEF At
<1>6. /\ req.model \in Routes
      /\ Permits(document, req.principal.id, Claimed, Chat, req.model)
      /\ ~Says("deny", document, req.principal.id, Claimed, Chat, req.model)
  BY <1>2, <1>5 DEF Permitted, Permits
<1>7. CASE log' = log /\ Answer("unavailable")
  <2>1. Recorded' /\ \A i \in 1..Len(log') : AsDemanded(log'[i])
    BY <1>7, SameRecord
  <2> QED
    BY <1>1, <1>5, <1>7, <2>1, AnswerAdmission
<1>8. CASE /\ log' = Append(log, Entry(Decision("deny", "budget_denied"), req.model, req.model))
           /\ Answer("budget_denied")
  <2> PICK decision : decision = Decision("deny", "budget_denied")
    OBVIOUS
  <2>1. decision.effect = "deny" /\ decision.reason = "budget_denied"
    BY DEF Decision
  <2>2. Recorded' /\ \A i \in 1..Len(log') : AsDemanded(log'[i])
    BY <1>5, <1>6, <1>8, <2>1, EntryDemanded
  <2> QED
    BY <1>1, <1>5, <1>8, <2>2, AnswerAdmission
<1>9. CASE /\ estimate # <<>>
           /\ log' = Append(log, Entry(Decision("allow", "policy_allowed"), req.model, req.model))
           /\ req' = [req EXCEPT !.pc = "started", !.price = price,
                                 !.tokens = tokens, !.reserve = estimate[1]]
  <2> PICK reserve : reserve = estimate[1]
    OBVIOUS
  <2>1. reserve = ExactCost(price, tokens, price.maxOutput) /\ reserve \in Int
    <3>1. estimate = <<ExactCost(price, tokens, price.maxOutput)>>
      BY <1>4, <1>9, EstimateExact
    <3>2. ExactCost(price, tokens, price.maxOutput) \in Int
      BY <1>4, <1>9, CostType
    <3> QED
      BY <3>1, <3>2
  <2>2. /\ DOMAIN req' = DOMAIN Idle /\ req'.pc = "started" /\ req'.past = req.past
        /\ req'.answer = "none" /\ req'.charge = <<>> /\ req'.principal = req.principal
        /\ req'.model = req.model /\ req'.price = price /\ req'.tokens = tokens
        /\ req'.reserve = reserve
    <3>1. req' = [req EXCEPT !.pc = "started", !.price = price,
                             !.tokens = tokens, !.reserve = reserve]
      BY <1>9
    <3> QED
      BY <1>3, <3>1 DEF Idle
  <2> PICK decision : decision = Decision("allow", "policy_allowed")
    OBVIOUS
  <2>3. decision.effect = "allow" /\ decision.reason = "policy_allowed"
    BY DEF Decision
  <2>4. Recorded' /\ \A i \in 1..Len(log') : AsDemanded(log'[i])
    BY <1>5, <1>6, <1>9, <2>3, EntryDemanded
  <2>5. Remembered(req.past)'
    BY <1>1, <1>3, <2>2 DEF Remembered, outside
  <2>6. Identified'
    BY <1>2, <1>5, <2>2 DEF Identified, At
  <2>7. Permitted'
    <3>1. Claimed' = Claimed /\ document' = document
      BY <1>1, <2>2 DEF Claimed, outside
    <3> QED
      BY <1>6, <2>2, <3>1 DEF Permitted
  <2>8. Priced' /\ req'.pc \notin {"idle", "ended"}
    <3>1. price.input > 0 /\ price.output > 0
      BY <1>4, <1>9, EstimatePositive
    <3> QED
      BY <1>4, <2>1, <2>2, <3>1 DEF Priced
  <2>9. Timely(req.past)'
    <3>1. Timely(req.past)
      BY <1>2, <1>3, <1>5, FreshParts DEF Passed
    <3> QED
      BY <1>1, <2>2, <3>1 DEF Timely, ClocksAgree, outside
  <2>10. req'.reserve = ExactCost(req'.price, req'.tokens, req'.price.maxOutput)
    BY <2>1, <2>2
  <2> QED
    BY <1>1, <1>3, <2>2, <2>4, <2>5, <2>6, <2>7, <2>8, <2>9, <2>10, WorkingAdmission
<1> QED
  BY <1>1, <1>7, <1>8, <1>9

LEMMA SettleAdmission ==
  ASSUME AdmissionInv, NEW usage \in setting.usages, SettleUsage(usage)
  PROVE  AdmissionInv'
<1> DEFINE valid == validateUsage(usage)
<1> PICK charge : charge = IF valid THEN Charge(req.price, usage, req.reserve) ELSE 0
  OBVIOUS
<1> PICK answer : answer = IF valid THEN "completed" ELSE "backend_failed"
  OBVIOUS
<1>1. /\ At("started") /\ UNCHANGED outside /\ log' = log
      /\ req' = [req EXCEPT !.pc = "ended", !.charge = <<usage, charge>>, !.answer = answer]
  BY DEF SettleUsage, outside
<1>2. Surroundings /\ RequestShape /\ Priced
  BY DEF AdmissionInv
<1>3. /\ DOMAIN req = DOMAIN Idle /\ document # Down /\ req.past # <<>> /\ Remembered(req.past)
  BY <1>1, <1>2 DEF RequestShape, At
<1>4. /\ DOMAIN req' = DOMAIN Idle /\ req'.pc = "ended" /\ req'.past = req.past
      /\ req'.answer = answer /\ req'.charge = <<usage, charge>>
      /\ req'.price = req.price /\ req'.reserve = req.reserve
  <2> PICK paid : paid = <<usage, charge>>
    OBVIOUS
  <2>1. req' = [req EXCEPT !.pc = "ended", !.charge = paid, !.answer = answer]
    BY <1>1
  <2>2. /\ DOMAIN req' = DOMAIN Idle /\ req'.pc = "ended" /\ req'.past = req.past
        /\ req'.answer = answer /\ req'.charge = paid
        /\ req'.price = req.price /\ req'.reserve = req.reserve
    BY <1>3, <2>1 DEF Idle
  <2> QED
    BY <2>2
<1>5. usage \in [prompt : Machine, completion : Machine, total : Machine]
  BY <1>2, SettingNumbers
<1>6. /\ req.price \in [input : Machine, output : Machine, maxOutput : Machine]
      /\ req.price.input > 0 /\ req.price.output > 0 /\ req.reserve \in Int
  BY <1>1, <1>2 DEF Priced
<1>7. answer = "completed" => charge = Due(req.price, usage, req.reserve)
  <2> SUFFICES ASSUME valid PROVE charge = Due(req.price, usage, req.reserve)
    OBVIOUS
  <2>1. charge = Charge(req.price, usage, req.reserve)
    OBVIOUS
  <2> QED
    BY <1>5, <1>6, <2>1, ChargeDue
<1>8. PricesExact'
  <2>1. ~At("started")' /\ req'.charge[1] = usage /\ req'.charge[2] = charge
    BY <1>4 DEF At
  <2> QED
    BY <1>4, <1>7, <2>1 DEF PricesExact
<1>9. answer \in {"completed", "backend_failed"}
  OBVIOUS
<1>10. Recorded' /\ \A i \in 1..Len(log') : AsDemanded(log'[i])
  BY <1>1, SameRecord
<1>11. PolicyDecides'
  BY <1>4, <1>9, <1>10 DEF PolicyDecides
<1>12. Remembered(req.past)'
  BY <1>1, <1>3, <1>4 DEF Remembered, outside
<1> QED
  BY <1>1, <1>3, <1>4, <1>8, <1>9, <1>10, <1>11, <1>12, EndedAdmission

\* A token stays issued as time goes by.
LEMMA StillIssued ==
  ASSUME NEW t, NEW time \in Int, NEW later \in Int, time <= later, Issued(t, time)
  PROVE  Issued(t, later)
<1>1. PICK made \in Int : /\ made <= time /\ t.exp = <<made + Life>>
                          /\ t.iat = <<made>> /\ t.nbf = <<made>>
  BY DEF Issued
<1>2. made <= later
  BY <1>1
<1>3. t.sub \in Nat /\ t.groups.values \in Seq(Nat)
  BY DEF Issued
<1> QED
  BY <1>1, <1>2, <1>3 DEF Issued

LEMMA SurroundingAdmission ==
  ASSUME AdmissionInv,
         \/ Tick
         \/ \E p \in Principals : Disable(p)
         \/ \E d \in setting.documents : Start(d)
         \/ \E t \in setting.tokens : Issue(t)
  PROVE  AdmissionInv'
<1>1. Surroundings
  BY DEF AdmissionInv
<1>2. clock \in Int /\ clock <= clock /\ active \in SUBSET active
  BY <1>1 DEF Surroundings
<1>3. CASE Tick
  <2>1. clock' = clock + 1 /\ UNCHANGED <<deployment, skew, active, document, bearer, req, log>>
    BY <1>3 DEF Tick
  <2>2. clock' \in Int /\ clock <= clock'
    BY <1>2, <2>1
  <2>3. bearer # NoToken => Issued(bearer[1], clock')
    BY <1>1, <1>2, <2>2, StillIssued DEF Surroundings
  <2>4. Surroundings'
    BY <1>1, <2>1, <2>2, <2>3 DEF Surroundings
  <2>5. clock' >= clock
    BY <1>2, <2>1
  <2> QED
    BY <2>1, <2>4, <2>5, AroundAdmission
<1>4. ASSUME NEW p \in Principals, Disable(p) PROVE AdmissionInv'
  <2>1. active' = active \ {p} /\ UNCHANGED <<deployment, skew, clock, document, bearer, req, log>>
    BY <1>4 DEF Disable
  <2>2. Surroundings' /\ active' \in SUBSET active /\ clock' >= clock
    BY <1>1, <1>2, <2>1 DEF Surroundings
  <2> QED
    BY <2>1, <2>2, AroundAdmission
<1>5. ASSUME NEW d \in setting.documents, Start(d) PROVE AdmissionInv'
  <2>1. /\ document = Down /\ document' = d /\ DocumentValid(d)
        /\ UNCHANGED <<deployment, skew, clock, active, bearer, req, log>>
    BY <1>5 DEF Start
  <2>2. Valid(d)
    <3>1. d \in DecodedDocument
      BY <1>1, DeploymentsAssumption DEF Surroundings, setting
    <3> QED
      BY <2>1, <3>1 DEF Valid
  <2>3. Surroundings' /\ active' \in SUBSET active /\ clock' >= clock
    BY <1>1, <1>2, <2>1, <2>2 DEF Surroundings
  <2> QED
    BY <2>1, <2>3, AroundAdmission
<1>6. ASSUME NEW t \in setting.tokens, Issue(t) PROVE AdmissionInv'
  <2> PICK u : u = [t EXCEPT !.iat = <<clock>>, !.nbf = <<clock>>, !.exp = <<clock + Life>>]
    OBVIOUS
  <2>1. bearer' = <<u>> /\ UNCHANGED <<deployment, skew, clock, active, document, req, log>>
    BY <1>6 DEF Issue
  <2>2. /\ {"iat", "nbf", "exp"} \subseteq DOMAIN t
        /\ t.sub \in Nat /\ t.groups.values \in Seq(Nat)
    BY <1>1, DeploymentsAssumption DEF Surroundings, setting
  <2>3. /\ u.iat = <<clock>> /\ u.nbf = <<clock>> /\ u.exp = <<clock + Life>>
        /\ u.sub = t.sub /\ u.groups = t.groups
    <3> PICK now, end : now = <<clock>> /\ end = <<clock + Life>>
      OBVIOUS
    <3>1. u = [t EXCEPT !.iat = now, !.nbf = now, !.exp = end]
      OBVIOUS
    <3> PICK v : v = [t EXCEPT !.iat = now]
      OBVIOUS
    <3> PICK w : w = [v EXCEPT !.nbf = now]
      OBVIOUS
    <3>2. u = [w EXCEPT !.exp = end]
      BY <3>1
    <3>3. /\ v.iat = now /\ v.sub = t.sub /\ v.groups = t.groups
          /\ DOMAIN v = DOMAIN t
      BY <2>2
    <3>4. /\ w.iat = now /\ w.nbf = now /\ w.sub = t.sub /\ w.groups = t.groups
          /\ DOMAIN w = DOMAIN t
      BY <2>2, <3>3
    <3>5. /\ u.iat = now /\ u.nbf = now /\ u.exp = end /\ u.sub = t.sub /\ u.groups = t.groups
      BY <2>2, <3>2, <3>4
    <3> QED
      BY <3>5
  <2>4. Issued(u, clock)
    BY <1>2, <2>2, <2>3 DEF Issued
  <2>5. Surroundings' /\ active' \in SUBSET active /\ clock' >= clock
    BY <1>1, <1>2, <2>1, <2>4 DEF Surroundings
  <2> QED
    BY <2>1, <2>5, AroundAdmission
<1> QED
  BY <1>3, <1>4, <1>5, <1>6

LEMMA IdleAgainAdmission ==
  ASSUME AdmissionInv, Stop \/ Leave
  PROVE  AdmissionInv'
<1>1. Surroundings
  BY DEF AdmissionInv
<1>2. CASE Stop
  <2>1. Surroundings' /\ req' = Idle /\ log' = log
    BY <1>1, <1>2 DEF Stop, Surroundings
  <2> QED
    BY <2>1, GoneAdmission
<1>3. CASE Leave
  <2>1. Surroundings' /\ req' = Idle /\ log' = log
    BY <1>1, <1>3 DEF Leave, Surroundings
  <2> QED
    BY <2>1, GoneAdmission
<1> QED
  BY <1>2, <1>3

LEMMA NextAdmission == AdmissionInv /\ [Next]_vars => AdmissionInv'
<1> SUFFICES ASSUME AdmissionInv, [Next]_vars PROVE AdmissionInv'
  OBVIOUS
<1>1. CASE Tick \/ \E p \in Principals : Disable(p)
  BY <1>1, SurroundingAdmission
<1>2. CASE (\E d \in setting.documents : Start(d)) \/ \E t \in setting.tokens : Issue(t)
  BY <1>2, SurroundingAdmission
<1>3. CASE \E p \in Principals : AuthenticateAPIKey(p)
  BY <1>3, ApiKeyAdmission
<1>4. CASE Stop \/ Leave
  BY <1>4, IdleAgainAdmission
<1>5. CASE Arrive
  BY <1>5, ArriveAdmission
<1>6. CASE \E answer \in {IssuerKey, "unknown", "unavailable"} : ParseToken(answer)
  BY <1>6, ParseAdmission
<1>7. CASE LookupOIDCPrincipal \/ LogSuccess
  BY <1>7, LookupAdmission, LogSuccessAdmission
<1>8. CASE handleModels
  BY <1>8, ModelsAdmission
<1>9. CASE \E m \in Requested : DecideChat(m)
  BY <1>9, DecideAdmission
<1>10. CASE ChatFails
  BY <1>10, ChatFailsAdmission
<1>11. CASE \E price \in setting.prices, bytes \in setting.bodies : ReserveEstimate(price, bytes)
  BY <1>11, ReserveAdmission
<1>12. CASE \E usage \in setting.usages : SettleUsage(usage)
  BY <1>12, SettleAdmission
<1>13. CASE UNCHANGED vars
  <2>1. /\ deployment' = deployment /\ skew' = skew /\ clock' = clock /\ active' = active
        /\ document' = document /\ bearer' = bearer /\ req' = req /\ log' = log
    BY <1>13 DEF vars
  <2>2. Surroundings /\ clock \in Int
    BY DEF AdmissionInv, Surroundings
  <2>3. Surroundings' /\ clock' >= clock /\ active' \in SUBSET active
    BY <2>1, <2>2 DEF Surroundings
  <2> QED
    BY <2>1, <2>3, AroundAdmission
<1> QED
  BY <1>1, <1>2, <1>3, <1>4, <1>5, <1>6, <1>7, <1>8, <1>9, <1>10, <1>11, <1>12, <1>13 DEF Next

\* The inductive invariant holds in every state, from any document and any token.
THEOREM AdmissionInvariant == Spec => []AdmissionInv
<1> QED
  BY InitAdmission, NextAdmission, PTL DEF Spec

-----------------------------------------------------------------------------
(***************************************************************************)
(* The properties.                                                         *)
(***************************************************************************)

\* Every decision on record, and every listing, is what the operator's document
\* demands for the groups that the issuer put in the token.
THEOREM DecisionsFollowPolicy == Spec => []PolicyDecides
<1>1. AdmissionInv => PolicyDecides
  BY DEF AdmissionInv
<1> QED
  BY <1>1, AdmissionInvariant, PTL

\* The digest in an event is that of another document exactly when the two have the
\* same version and make the same statements: the order of rules and selectors does
\* not count, and everything else does.
THEOREM DigestsNamePolicies == Spec => []DigestIsOfMeaning
<1>1. AdmissionInv => DigestIsOfMeaning
  <2> SUFFICES ASSUME Surroundings, Recorded, document # Down, NEW i \in 1..Len(log)
               PROVE  log[i].evidence.digest = engine.digest
                        <=> Meaning(log[i].from.document) = Meaning(document)
    BY DEF AdmissionInv, DigestIsOfMeaning
  <2> PICK d, f : d = document /\ f = log[i].from.document
    OBVIOUS
  <2>1. Valid(d) /\ Valid(f)
    BY DEF Surroundings, Recorded
  <2>2. /\ log[i].evidence.digest = <<normalizeDocument(f)>>
        /\ engine.digest = <<normalizeDocument(d)>>
    BY DEF Recorded, engine, NewEngine, digestDocument
  <2>3. normalizeDocument(f) = normalizeDocument(d) <=> Meaning(f) = Meaning(d)
    BY <2>1, NormalForm
  <2> HIDE DEF normalizeDocument, Meaning
  <2> QED
    BY <2>2, <2>3
<1> QED
  BY <1>1, AdmissionInvariant, PTL

\* Who was disabled before a request arrived does not pass.
THEOREM DisabledPrincipalsStayOut == Spec => []DisabledStaysOut
<1>1. AdmissionInv => DisabledStaysOut
  BY DEF AdmissionInv, Identified, DisabledStaysOut
<1> QED
  BY <1>1, AdmissionInvariant, PTL

\* A token is of use until it has expired, and no longer than twice the leeway after.
THEOREM TokensExpire == Spec => []TokensWorkWhileFresh
<1>1. AdmissionInv => TokensWorkWhileFresh
  BY DEF AdmissionInv
<1> QED
  BY <1>1, AdmissionInvariant, PTL

\* What is reserved is exact, and what is charged is what is due, for every price and
\* every usage in machine integers of any width.
THEOREM PricesAreExact == Spec => []PricesExact
<1>1. AdmissionInv => PricesExact
  BY DEF AdmissionInv
<1> QED
  BY <1>1, AdmissionInvariant, PTL
=============================================================================
