--------------------------- MODULE AnalysisProofs ---------------------------
(***************************************************************************)
(* The blocks, the edges and the loops of the analysis are those of the    *)
(* program, for every program whose targets and entry are where labels can *)
(* be.                                                                     *)
(***************************************************************************)
EXTENDS AnalysisProperties, MemoryOpsProofs, FiniteSetTheorems

-----------------------------------------------------------------------------
(* Sets in sequences. *)

\* Of a finite set of numbers, so many are less than x.
Rank(S, x) == Cardinality({y \in S : y < x})

LEMMA RankGrows ==
    ASSUME NEW S \in SUBSET Int, IsFiniteSet(S)
    PROVE  /\ \A x \in S : Rank(S, x) \in 0 .. Cardinality(S) - 1
           /\ \A x, y \in S : x < y => Rank(S, x) < Rank(S, y)
<1> DEFINE Under(x) == {y \in S : y < x}
<1>1. ASSUME NEW x \in S
      PROVE  /\ IsFiniteSet(Under(x)) /\ Cardinality(Under(x)) \in Nat
             /\ \A T \in SUBSET S : Under(x) \subseteq T /\ x \in T =>
                   Cardinality(Under(x)) < Cardinality(T)
    <2>1. Under(x) \in SUBSET S /\ x \notin Under(x)
        OBVIOUS
    <2>2. IsFiniteSet(Under(x)) /\ Cardinality(Under(x)) \in Nat
        BY <2>1, FS_Subset, FS_CardinalityType
    <2>3. ASSUME NEW T \in SUBSET S, Under(x) \subseteq T, x \in T
          PROVE  Cardinality(Under(x)) < Cardinality(T)
        <3> HIDE DEF Under
        <3>1. IsFiniteSet(T) /\ Cardinality(T) \in Nat
            BY FS_Subset, FS_CardinalityType
        <3>2. Cardinality(Under(x)) <= Cardinality(T)
            BY <2>3, <3>1, FS_Subset
        <3>3. Cardinality(Under(x)) # Cardinality(T)
            BY <2>1, <2>3, <3>1, FS_Subset
        <3> QED BY <2>2, <3>1, <3>2, <3>3
    <2> QED BY <2>2, <2>3
<1>2. ASSUME NEW x \in S PROVE Rank(S, x) \in 0 .. Cardinality(S) - 1
    <2>1. Cardinality(Under(x)) < Cardinality(S) /\ Cardinality(Under(x)) \in Nat
        <3>1. Under(x) \subseteq S /\ S \in SUBSET S
            OBVIOUS
        <3> QED BY <1>1, <3>1
    <2>2. Cardinality(S) \in Nat
        BY FS_CardinalityType
    <2> QED BY <2>1, <2>2 DEF Rank
<1>3. ASSUME NEW x \in S, NEW y \in S, x < y PROVE Rank(S, x) < Rank(S, y)
    <2>1. Under(x) \subseteq Under(y) /\ x \in Under(y) /\ Under(y) \in SUBSET S
        <3>1. \A z \in S : z \in Int
            OBVIOUS
        <3>2. \A z \in S : z < x => z < y
            BY <1>3, <3>1
        <3> QED BY <1>3, <3>2
    <2>2. Cardinality(Under(x)) < Cardinality(Under(y))
        BY <1>1, <2>1
    <2> QED BY <2>2 DEF Rank
<1> QED BY <1>2, <1>3

(* InOrder lists a finite set of numbers, in increasing order.             *)
LEMMA InOrderLists ==
    ASSUME NEW S \in SUBSET Int, IsFiniteSet(S)
    PROVE  LET q == InOrder(S)
               n == Cardinality(S)
           IN  /\ n \in Nat /\ DOMAIN q = 1 .. n /\ Len(q) = n
               /\ \A i \in 1 .. n : q[i] \in S
               /\ \A x \in S : \E i \in 1 .. n : q[i] = x
               /\ \A i, j \in 1 .. n : i < j => q[i] < q[j]
<1> DEFINE n == Cardinality(S)
           q == InOrder(S)
           f == [x \in S |-> Rank(S, x)]
<1>1. n \in Nat
    BY FS_CardinalityType
<1>2. \A x, y \in S : x # y => Rank(S, x) # Rank(S, y)
    <2> SUFFICES ASSUME NEW x \in S, NEW y \in S, x # y PROVE Rank(S, x) # Rank(S, y)
        OBVIOUS
    <2>1. x < y \/ y < x
        OBVIOUS
    <2>2. Rank(S, x) \in Int /\ Rank(S, y) \in Int
        BY RankGrows, <1>1
    <2> QED BY <2>1, <2>2, RankGrows
<1>3. \A k \in 0 .. n - 1 : \E x \in S : Rank(S, x) = k
    <2>1. f \in [S -> 0 .. n - 1]
        BY RankGrows
    <2>2. f \in Injection(S, 0 .. n - 1)
        BY <1>2, <2>1 DEF Injection, IsInjective
    <2>3. IsFiniteSet(0 .. n - 1) /\ Cardinality(0 .. n - 1) = n
        BY <1>1, FS_Interval
    <2>4. f \in Surjection(S, 0 .. n - 1)
        <3> HIDE DEF f, n
        <3> QED BY <2>2, <2>3, FS_Injection DEF n
    <2> QED BY <2>4 DEF Surjection
<1>4. ASSUME NEW i \in 1 .. n PROVE q[i] \in S /\ Rank(S, q[i]) = i - 1
    <2>1. \E x \in S : Rank(S, x) = i - 1
        BY <1>1, <1>3
    <2>2. q[i] = CHOOSE x \in S : Rank(S, x) = i - 1
        BY DEF InOrder, Rank
    <2> QED BY <2>1, <2>2
<1>5. DOMAIN q = 1 .. n /\ Len(q) = n
    BY <1>1 DEF InOrder
<1>6. ASSUME NEW x \in S PROVE \E i \in 1 .. n : q[i] = x
    <2>1. Rank(S, x) \in 0 .. n - 1
        BY RankGrows
    <2>2. Rank(S, x) + 1 \in 1 .. n
        BY <1>1, <2>1
    <2>3. Rank(S, q[Rank(S, x) + 1]) = Rank(S, x) /\ q[Rank(S, x) + 1] \in S
        BY <1>4, <2>1, <2>2
    <2>4. q[Rank(S, x) + 1] = x
        BY <1>2, <2>3
    <2> QED BY <2>2, <2>4
<1>7. ASSUME NEW i \in 1 .. n, NEW j \in 1 .. n, i < j PROVE q[i] < q[j]
    <2>1. q[i] \in S /\ q[j] \in S /\ Rank(S, q[i]) = i - 1 /\ Rank(S, q[j]) = j - 1
        BY <1>4
    <2>2. q[i] \in Int /\ q[j] \in Int
        BY <2>1
    <2>3. ~(q[j] < q[i])
        <3>1. q[j] < q[i] => Rank(S, q[j]) < Rank(S, q[i])
            BY <2>1, RankGrows
        <3>2. ~(j - 1 < i - 1)
            BY <1>1, <1>7
        <3> HIDE DEF q
        <3> QED BY <2>1, <3>1, <3>2
    <2>4. q[i] # q[j]
        BY <1>7, <2>1
    <2> QED BY <2>2, <2>3, <2>4
<1> HIDE DEF q, n
<1> QED BY <1>1, <1>4, <1>5, <1>6, <1>7 DEF q, n

(* SetToSeq lists a finite set.                                            *)
LEMMA SetToSeqLists ==
    ASSUME NEW S, IsFiniteSet(S)
    PROVE  SetToSeq(S) \in Seq(S) /\ Range(SetToSeq(S)) = S
<1> DEFINE n == Cardinality(S)
           q == SetToSeq(S)
<1>1. n \in Nat /\ ExistsBijection(1 .. n, S)
    BY FS_CardinalityType
<1>2. q = CHOOSE f \in [1 .. n -> S] : IsInjective(f)
    BY DEF SetToSeq
<1>3. \E f \in [1 .. n -> S] : IsInjective(f)
    BY <1>1 DEF ExistsBijection, Bijection, Injection
<1>4. q \in [1 .. n -> S] /\ IsInjective(q)
    BY <1>2, <1>3
<1> HIDE DEF q
<1>5. q \in Injection(1 .. n, S)
    BY <1>4 DEF Injection
<1>6. IsFiniteSet(1 .. n) /\ Cardinality(1 .. n) = n
    BY <1>1, FS_Interval
<1>7. q \in Surjection(1 .. n, S)
    <2> HIDE DEF n
    <2> QED BY <1>5, <1>6, FS_Injection DEF n
<1>8. Range(q) = S
    BY <1>4, <1>7 DEF Range, Surjection
<1>9. q \in Seq(S)
    BY <1>1, <1>4
<1> QED BY <1>8, <1>9 DEF q

\* The sequences that FlattenSeq joins, one after the other.
LEMMA FlattenLoop ==
    ASSUME NEW q, Len(q) \in Nat \ {0}
    PROVE  \E g : /\ FlattenSeq(q) = g[Len(q)]
                  /\ g[1] = q[1]
                  /\ \A n \in 2 .. Len(q) : g[n] = g[n - 1] \o q[n]
<1> DEFINE N == Len(q)
           IsLoop(g, m) == g = [i \in 1 .. m |-> IF i = 1 THEN q[i] ELSE g[i - 1] \o q[i]]
           S == {m \in Nat : \E g : IsLoop(g, m + 1)}
<1>1. 0 \in S
    <2> DEFINE g == [i \in 1 .. 0 + 1 |-> q[1]]
    <2>1. g = [i \in 1 .. 0 + 1 |-> IF i = 1 THEN q[i] ELSE g[i - 1] \o q[i]]
        <3>1. \A i \in 1 .. 0 + 1 : i = 1
            OBVIOUS
        <3> QED BY <3>1
    <2>2. IsLoop(g, 0 + 1)
        BY <2>1
    <2> HIDE DEF IsLoop
    <2> QED BY <2>2
<1>2. ASSUME NEW m \in Nat, m \in S PROVE m + 1 \in S
    <2> DEFINE l == m + 1
    <2>1. PICK g : IsLoop(g, l)
        BY <1>2
    <2>2. l \in Nat /\ l >= 1
        OBVIOUS
    <2> HIDE DEF l
    <2> DEFINE h == [i \in 1 .. l + 1 |-> IF i = l + 1 THEN g[l] \o q[i] ELSE g[i]]
    <2>3. ASSUME NEW i \in 1 .. l + 1
          PROVE  h[i] = IF i = 1 THEN q[i] ELSE h[i - 1] \o q[i]
        <3>1. CASE i = l + 1
            <4>1. i - 1 = l /\ i # 1 /\ l \in 1 .. l + 1 /\ l # l + 1
                BY <2>2, <3>1
            <4>2. h[l] = g[l]
                BY <4>1
            <4> QED BY <3>1, <4>1, <4>2
        <3>2. CASE i # l + 1
            <4>1. i \in 1 .. l
                BY <2>2, <3>2
            <4>2. h[i] = g[i]
                BY <3>2
            <4>3. g[i] = IF i = 1 THEN q[i] ELSE g[i - 1] \o q[i]
                BY <2>1, <4>1
            <4>4. i # 1 => i - 1 \in 1 .. l + 1 /\ i - 1 # l + 1
                BY <2>2, <4>1
            <4>5. i # 1 => h[i - 1] = g[i - 1]
                BY <4>4
            <4> QED BY <4>2, <4>3, <4>5
        <3> QED BY <3>1, <3>2
    <2>4. h = [i \in 1 .. l + 1 |-> h[i]]
        OBVIOUS
    <2>5. IsLoop(h, l + 1)
        <3> HIDE DEF h
        <3> QED BY <2>3, <2>4
    <2>6. m + 1 \in Nat /\ l = m + 1
        BY DEF l
    <2> HIDE DEF IsLoop
    <2> QED BY <2>5, <2>6
<1>3. N - 1 \in S /\ (N - 1) + 1 = N
    <2>1. N - 1 \in Nat /\ (N - 1) + 1 = N
        OBVIOUS
    <2> HIDE DEF S, N
    <2> QED BY <1>1, <1>2, <2>1, EveryNumber
<1> DEFINE g == CHOOSE f : IsLoop(f, N)
<1>4. IsLoop(g, N)
    <2>1. \E f : IsLoop(f, N)
        <3>1. \E f : IsLoop(f, (N - 1) + 1)
            BY <1>3
        <3> HIDE DEF IsLoop
        <3> QED BY <1>3, <3>1
    <2> HIDE DEF IsLoop
    <2> QED BY <2>1
<1>5. g[1] = q[1] /\ \A n \in 2 .. N : g[n] = g[n - 1] \o q[n]
    <2>1. 1 \in 1 .. N /\ \A n \in 2 .. N : n \in 1 .. N /\ n # 1
        OBVIOUS
    <2> HIDE DEF g
    <2> QED BY <1>4, <2>1
<1>6. FlattenSeq(q) = g[N]
    BY DEF FlattenSeq
<1> HIDE DEF g
<1> QED BY <1>5, <1>6

LEMMA RangeOfJoin ==
    ASSUME NEW T, NEW a \in Seq(T), NEW b \in Seq(T)
    PROVE  /\ a \o b \in Seq(T)
           /\ \A x : x \in Range(a \o b) <=> x \in Range(a) \/ x \in Range(b)
<1>1. /\ DOMAIN a = 1 .. Len(a) /\ DOMAIN b = 1 .. Len(b)
      /\ DOMAIN (a \o b) = 1 .. Len(a) + Len(b)
      /\ Len(a) \in Nat /\ Len(b) \in Nat
      /\ \A i \in 1 .. Len(a) + Len(b) :
            (a \o b)[i] = IF i <= Len(a) THEN a[i] ELSE b[i - Len(a)]
    OBVIOUS
<1>2. \A i \in 1 .. Len(b) : /\ i + Len(a) \in 1 .. Len(a) + Len(b)
                             /\ ~(i + Len(a) <= Len(a))
                             /\ (i + Len(a)) - Len(a) = i
    BY <1>1
<1>3. \A i \in 1 .. Len(a) : i \in 1 .. Len(a) + Len(b) /\ i <= Len(a)
    BY <1>1
<1>4. \A i \in 1 .. Len(a) + Len(b) :
         IF i <= Len(a) THEN i \in 1 .. Len(a) ELSE i - Len(a) \in 1 .. Len(b)
    BY <1>1
<1>5. ASSUME NEW x, x \in Range(a) \/ x \in Range(b) PROVE x \in Range(a \o b)
    <2>1. CASE x \in Range(a)
        BY <1>1, <1>3, <2>1 DEF Range
    <2>2. CASE x \in Range(b)
        <3>1. PICK i \in 1 .. Len(b) : x = b[i]
            BY <1>1, <2>2 DEF Range
        <3>2. (a \o b)[i + Len(a)] = x
            BY <1>1, <1>2, <3>1
        <3> QED BY <1>1, <1>2, <3>2 DEF Range
    <2> QED BY <1>5, <2>1, <2>2
<1>6. ASSUME NEW x, x \in Range(a \o b) PROVE x \in Range(a) \/ x \in Range(b)
    <2>1. PICK i \in 1 .. Len(a) + Len(b) : x = (a \o b)[i]
        BY <1>1, <1>6 DEF Range
    <2> QED BY <1>1, <1>4, <2>1 DEF Range
<1>7. a \o b \in Seq(T)
    OBVIOUS
<1> QED BY <1>5, <1>6, <1>7

LEMMA FlattenLists ==
    ASSUME NEW T, NEW q \in Seq(Seq(T))
    PROVE  /\ FlattenSeq(q) \in Seq(T)
           /\ \A x : x \in Range(FlattenSeq(q)) <=> \E i \in DOMAIN q : x \in Range(q[i])
<1>1. /\ Len(q) \in Nat /\ DOMAIN q = 1 .. Len(q)
      /\ \A i \in 1 .. Len(q) : q[i] \in Seq(T)
    OBVIOUS
<1>2. CASE Len(q) = 0
    <2>1. q = <<>> /\ FlattenSeq(q) = q
        BY <1>2 DEF FlattenSeq
    <2>2. DOMAIN q = {} /\ q \in Seq(T)
        BY <2>1
    <2> QED BY <2>1, <2>2 DEF Range
<1>3. CASE Len(q) # 0
    <2> DEFINE N == Len(q)
    <2>1. PICK g : /\ FlattenSeq(q) = g[N]
                   /\ g[1] = q[1]
                   /\ \A n \in 2 .. N : g[n] = g[n - 1] \o q[n]
        BY <1>1, <1>3, FlattenLoop
    <2> DEFINE Joined(n) == /\ g[n] \in Seq(T)
                            /\ \A x : x \in Range(g[n]) <=> \E i \in 1 .. n : x \in Range(q[i])
               S == {n \in Nat : n + 1 <= N => Joined(n + 1)}
    <2>2. 0 \in S
        <3>1. g[0 + 1] = q[1] /\ 1 .. 0 + 1 = {1} /\ 1 \in 1 .. N
            BY <1>1, <1>3, <2>1
        <3> QED BY <1>1, <3>1
    <2>3. ASSUME NEW n \in Nat, n \in S PROVE n + 1 \in S
        <3> SUFFICES ASSUME (n + 1) + 1 <= N PROVE Joined((n + 1) + 1)
            OBVIOUS
        <3> DEFINE m == n + 1
        <3>1. m \in Nat /\ m + 1 \in 2 .. N /\ (m + 1) - 1 = m /\ m + 1 \in 1 .. N
            BY <1>1
        <3>2. Joined(m)
            BY <1>1, <2>3
        <3>3. g[m + 1] = g[m] \o q[m + 1]
            BY <2>1, <3>1
        <3>4. 1 .. m + 1 = (1 .. m) \cup {m + 1}
            BY <3>1
        <3> HIDE DEF m, N
        <3>5. g[m] \in Seq(T) /\ q[m + 1] \in Seq(T)
            BY <1>1, <3>1, <3>2 DEF N
        <3>6. \A x : x \in Range(g[m] \o q[m + 1]) <=> x \in Range(g[m]) \/ x \in Range(q[m + 1])
            BY <3>5, RangeOfJoin
        <3>7. g[m] \o q[m + 1] \in Seq(T)
            BY <3>5, RangeOfJoin
        <3>8. Joined(m + 1)
            BY <3>2, <3>3, <3>4, <3>6, <3>7
        <3> QED BY <3>8 DEF m
    <2>4. Joined(N)
        <3>1. N - 1 \in Nat /\ (N - 1) + 1 = N
            BY <1>1, <1>3
        <3>2. N - 1 \in S
            <4> HIDE DEF S, N
            <4> QED BY <2>2, <2>3, <3>1, EveryNumber
        <3> HIDE DEF Joined
        <3> QED BY <1>1, <3>1, <3>2
    <2> QED BY <1>1, <2>1, <2>4
<1> QED BY <1>2, <1>3

-----------------------------------------------------------------------------
(* Blocks. *)
IsProgram ==
    /\ code \in Seq(Instruction)
    /\ entry \in Places(code)
    /\ \A k \in DOMAIN code : DirectTargets(code[k]) \subseteq Places(code)

Starts == InOrder(Leaders(code, entry))
Count  == Len(Starts)

\* The addresses from the start of block i on, up to the next start if any.
InRange(i, pc) == Starts[i] <= pc /\ (i < Count => pc < Starts[i + 1])

EndPc(i) == IF i < Count THEN Starts[i + 1] - WordSize ELSE LastPc(code)

LEMMA Addresses ==
    ASSUME IsProgram
    PROVE  /\ Len(code) \in Nat /\ DOMAIN code = 1 .. Len(code)
           /\ \A pc : pc \in Places(code) <=> \E k \in 0 .. Len(code) : pc = WordSize * k
           /\ \A pc : pc \in Pcs(code) <=> \E k \in 0 .. Len(code) - 1 : pc = WordSize * k
           /\ \A pc \in Places(code) : pc \in Nat /\ (pc \in Pcs(code) <=> pc <= LastPc(code))
           /\ \A p, q \in Places(code) : p < q => p + WordSize <= q
           /\ \A pc \in Pcs(code) : pc \in Places(code) /\ pc + WordSize \in Places(code)
           /\ LastPc(code) \in Int
<1>1. Len(code) \in Nat /\ DOMAIN code = 1 .. Len(code)
    BY DEF IsProgram
<1>2. \A pc : pc \in Places(code) <=> \E k \in 0 .. Len(code) : pc = WordSize * k
    BY DEF Places
<1>3. \A pc : pc \in Pcs(code) <=> \E k \in 0 .. Len(code) - 1 : pc = WordSize * k
    BY DEF Pcs
<1>4. ASSUME NEW pc \in Places(code)
      PROVE  pc \in Nat /\ (pc \in Pcs(code) <=> pc <= LastPc(code))
    <2>1. PICK k \in 0 .. Len(code) : pc = WordSize * k
        BY <1>2
    <2>2. pc \in Nat
        BY <1>1, <2>1 DEF WordSize
    <2>3. pc <= LastPc(code) <=> k <= Len(code) - 1
        BY <1>1, <2>1 DEF WordSize, LastPc
    <2>4. pc \in Pcs(code) => pc <= LastPc(code)
        BY <1>1, <1>3 DEF WordSize, LastPc
    <2>5. k <= Len(code) - 1 => pc \in Pcs(code)
        BY <1>1, <1>3, <2>1
    <2> QED BY <2>2, <2>3, <2>4, <2>5
<1>5. ASSUME NEW p \in Places(code), NEW q \in Places(code), p < q PROVE p + WordSize <= q
    <2>1. PICK k \in 0 .. Len(code) : p = WordSize * k
        BY <1>2
    <2>2. PICK m \in 0 .. Len(code) : q = WordSize * m
        BY <1>2
    <2> QED BY <1>1, <1>5, <2>1, <2>2 DEF WordSize
<1>6. ASSUME NEW pc \in Pcs(code) PROVE pc \in Places(code) /\ pc + WordSize \in Places(code)
    <2>1. PICK k \in 0 .. Len(code) - 1 : pc = WordSize * k
        BY <1>3
    <2>2. k \in 0 .. Len(code) /\ k + 1 \in 0 .. Len(code)
        BY <1>1
    <2>3. pc + WordSize = WordSize * (k + 1)
        BY <1>1, <2>1 DEF WordSize
    <2> QED BY <1>2, <2>1, <2>2, <2>3
<1>7. LastPc(code) \in Int
    BY <1>1 DEF LastPc, WordSize
<1> QED BY <1>1, <1>2, <1>3, <1>4, <1>5, <1>6, <1>7

LEMMA LeadersArePlaces ==
    ASSUME IsProgram
    PROVE  /\ Leaders(code, entry) \in SUBSET Places(code)
           /\ Leaders(code, entry) \in SUBSET Int
           /\ IsFiniteSet(Leaders(code, entry))
           /\ entry \in Leaders(code, entry)
           /\ \A k \in DOMAIN code : DirectTargets(code[k]) \subseteq Leaders(code, entry)
           /\ \A pc \in Pcs(code) :
                 /\ code[pc \div WordSize + 1].type = "B"
                 /\ pc + WordSize \in Pcs(code)
                 => pc + WordSize \in Leaders(code, entry)
<1> DEFINE L == Leaders(code, entry)
           T == UNION {DirectTargets(code[k]) : k \in DOMAIN code}
           F == {WordSize * k : k \in {n \in 1 .. Len(code) - 1 : code[n].type = "B"}}
<1>1. L = {entry} \cup F \cup T
    BY DEF Leaders
<1>2. T \subseteq Places(code) /\ entry \in Places(code)
    BY DEF IsProgram
<1>3. F \subseteq Places(code)
    BY Addresses
<1>4. L \subseteq Places(code)
    BY <1>1, <1>2, <1>3
<1>5. Places(code) \subseteq 0 .. WordSize * Len(code)
    BY Addresses DEF WordSize
<1>6. IsFiniteSet(L)
    <2>1. WordSize * Len(code) \in Int
        BY Addresses DEF WordSize
    <2>2. IsFiniteSet(0 .. WordSize * Len(code))
        BY <2>1, FS_Interval
    <2> HIDE DEF L
    <2> QED BY <1>4, <1>5, <2>2, FS_Subset
<1>7. \A k \in DOMAIN code : DirectTargets(code[k]) \subseteq L
    BY <1>1
<1>8. ASSUME NEW pc \in Pcs(code), code[pc \div WordSize + 1].type = "B",
             pc + WordSize \in Pcs(code)
      PROVE  pc + WordSize \in L
    <2>1. PICK k \in 0 .. Len(code) - 1 : pc = WordSize * k
        BY Addresses
    <2>2. PICK m \in 0 .. Len(code) - 1 : pc + WordSize = WordSize * m
        BY <1>8, Addresses
    <2>3. Len(code) \in Nat
        BY Addresses
    <2>4. pc \div WordSize + 1 = k + 1 /\ m = k + 1 /\ k + 1 \in 1 .. Len(code) - 1
        BY <2>1, <2>2, <2>3 DEF WordSize
    <2> HIDE DEF L
    <2>5. pc + WordSize \in F
        BY <1>8, <2>2, <2>4
    <2> QED BY <1>1, <2>5
<1>9. L \subseteq Int
    <2>1. WordSize * Len(code) \in Int
        BY Addresses DEF WordSize
    <2> QED BY <1>4, <1>5, <2>1
<1> HIDE DEF L
<1> QED BY <1>1, <1>4, <1>6, <1>7, <1>8, <1>9 DEF L

LEMMA StartsAreLeaders ==
    ASSUME IsProgram
    PROVE  /\ Count \in Nat
           /\ \A i \in 1 .. Count : /\ Starts[i] \in Leaders(code, entry)
                                    /\ Starts[i] \in Places(code) /\ Starts[i] \in Nat
           /\ \A pc \in Leaders(code, entry) : \E i \in 1 .. Count : Starts[i] = pc
           /\ \A i, j \in 1 .. Count : i < j => Starts[i] + WordSize <= Starts[j]
<1> DEFINE L == Leaders(code, entry)
<1>1. L \in SUBSET Int /\ IsFiniteSet(L) /\ L \in SUBSET Places(code)
    BY LeadersArePlaces
<1> HIDE DEF L
<1>2. LET q == InOrder(L)
          n == Cardinality(L)
      IN  /\ n \in Nat /\ DOMAIN q = 1 .. n /\ Len(q) = n
          /\ \A i \in 1 .. n : q[i] \in L
          /\ \A x \in L : \E i \in 1 .. n : q[i] = x
          /\ \A i, j \in 1 .. n : i < j => q[i] < q[j]
    BY <1>1, InOrderLists
<1>3. Count = Cardinality(L) /\ Starts = InOrder(L)
    BY <1>2 DEF Count, Starts, L
<1>4. \A i \in 1 .. Count : Starts[i] \in L /\ Starts[i] \in Places(code) /\ Starts[i] \in Nat
    BY <1>1, <1>2, <1>3, Addresses
<1> QED BY <1>2, <1>3, <1>4, Addresses DEF L

LEMMA BlocksAre ==
    ASSUME IsProgram
    PROVE  LET bs == Blocks(code, entry)
           IN  /\ DOMAIN bs = 1 .. Count /\ Len(bs) = Count
               /\ \A i \in 1 .. Count :
                     /\ bs[i].id = i - 1
                     /\ bs[i].start_pc = Starts[i]
                     /\ bs[i].end_pc = EndPc(i)
                     /\ \A pc : pc \in bs[i].instruction_pcs <=> pc \in Pcs(code) /\ InRange(i, pc)
<1> DEFINE bs == Blocks(code, entry)
<1>1. bs = [i \in 1 .. Count |->
              [id |-> i - 1, start_pc |-> Starts[i], end_pc |-> EndPc(i),
               instruction_pcs |-> {WordSize * k : k \in 0 .. Len(code)}
                                   \cap Starts[i] .. EndPc(i)]]
    BY DEF Blocks, Starts, Count, EndPc
<1>2. ASSUME NEW i \in 1 .. Count, NEW pc
      PROVE  pc \in bs[i].instruction_pcs <=> pc \in Pcs(code) /\ InRange(i, pc)
    <2>1. pc \in bs[i].instruction_pcs <=> pc \in Places(code) /\ pc \in Starts[i] .. EndPc(i)
        BY <1>1 DEF Places
    <2>2. Starts[i] \in Nat /\ Count \in Nat /\ EndPc(i) \in Int
        <3>1. i < Count => i + 1 \in 1 .. Count
            BY StartsAreLeaders
        <3> QED BY <3>1, StartsAreLeaders, Addresses DEF EndPc, WordSize
    <2>3. pc \in Pcs(code) => pc \in Places(code)
        BY Addresses
    <2>4. ASSUME pc \in Places(code)
          PROVE  pc \in Starts[i] .. EndPc(i) <=> pc \in Pcs(code) /\ InRange(i, pc)
        <3>1. pc \in Nat /\ (pc \in Pcs(code) <=> pc <= LastPc(code))
            BY <2>4, Addresses
        <3>2. CASE i < Count
            <4>1. i + 1 \in 1 .. Count /\ Starts[i + 1] \in Places(code) /\ Starts[i + 1] \in Nat
                BY <3>2, StartsAreLeaders
            <4>2. pc < Starts[i + 1] <=> pc <= Starts[i + 1] - WordSize
                <5>1. pc < Starts[i + 1] => pc + WordSize <= Starts[i + 1]
                    BY <2>4, <4>1, Addresses
                <5> QED BY <3>1, <4>1, <5>1 DEF WordSize
            <4>3. pc < Starts[i + 1] => pc \in Pcs(code)
                <5>1. PICK k \in 0 .. Len(code) : pc = WordSize * k
                    BY <2>4, Addresses
                <5>2. PICK m \in 0 .. Len(code) : Starts[i + 1] = WordSize * m
                    BY <4>1, Addresses
                <5>3. Len(code) \in Nat
                    BY Addresses
                <5>4. pc < Starts[i + 1] => k \in 0 .. Len(code) - 1
                    BY <5>1, <5>2, <5>3 DEF WordSize
                <5> QED BY <5>1, <5>4, Addresses
            <4> QED BY <2>2, <3>1, <3>2, <4>1, <4>2, <4>3 DEF EndPc, InRange
        <3>3. CASE ~(i < Count)
            BY <2>2, <3>1, <3>3 DEF EndPc, InRange
        <3> QED BY <3>2, <3>3
    <2> QED BY <2>1, <2>3, <2>4
<1>3. DOMAIN bs = 1 .. Count /\ Len(bs) = Count
    BY <1>1, StartsAreLeaders
<1>4. \A i \in 1 .. Count : /\ bs[i].id = i - 1 /\ bs[i].start_pc = Starts[i]
                            /\ bs[i].end_pc = EndPc(i)
    BY <1>1
<1> HIDE DEF bs
<1> QED BY <1>2, <1>3, <1>4 DEF bs

LEMMA OneHome ==
    ASSUME IsProgram, NEW pc \in Pcs(code)
    PROVE  /\ \A i, j \in 1 .. Count : InRange(i, pc) /\ InRange(j, pc) => i = j
           /\ \A l \in Leaders(code, entry) : l <= pc => \E i \in 1 .. Count : InRange(i, pc)
           /\ pc \in Leaders(code, entry) =>
                 \A i \in 1 .. Count : InRange(i, pc) => pc = Starts[i]
<1>1. pc \in Nat /\ Count \in Nat /\ \A i \in 1 .. Count : Starts[i] \in Nat
    BY Addresses, StartsAreLeaders
<1>2. ASSUME NEW i \in 1 .. Count, NEW j \in 1 .. Count, i < j, InRange(i, pc), InRange(j, pc)
      PROVE  FALSE
    <2>1. i + 1 \in 1 .. Count /\ (i + 1 < j \/ i + 1 = j)
        BY <1>1, <1>2
    <2>2. Starts[i + 1] <= Starts[j]
        <3>1. i + 1 < j => Starts[i + 1] + WordSize <= Starts[j]
            BY <2>1, StartsAreLeaders
        <3> QED BY <1>1, <2>1, <3>1 DEF WordSize
    <2>3. pc < Starts[i + 1] /\ Starts[j] <= pc
        BY <1>1, <1>2, <2>1 DEF InRange
    <2> QED BY <1>1, <2>1, <2>2, <2>3
<1>3. ASSUME NEW i \in 1 .. Count, NEW j \in 1 .. Count, InRange(i, pc), InRange(j, pc)
      PROVE  i = j
    <2>1. i < j \/ j < i \/ i = j
        BY <1>1
    <2> QED BY <1>2, <1>3, <2>1
<1>4. ASSUME NEW l \in Leaders(code, entry), l <= pc PROVE \E i \in 1 .. Count : InRange(i, pc)
    <2> DEFINE S == {i \in 1 .. Count : Starts[i] <= pc}
    <2>1. PICK k \in 1 .. Count : Starts[k] = l
        BY StartsAreLeaders
    <2>2. S \in SUBSET (1 .. Count) /\ S # {}
        BY <1>4, <2>1
    <2>3. PICK i \in S : \A j \in S : j <= i
        <3> HIDE DEF S
        <3> QED BY <1>1, <2>2, LastIndex
    <2>4. ASSUME i < Count PROVE pc < Starts[i + 1]
        <3>1. i + 1 \in 1 .. Count /\ ~(i + 1 <= i)
            BY <1>1, <2>4
        <3>2. ~(Starts[i + 1] <= pc)
            BY <2>3, <3>1
        <3> QED BY <1>1, <3>1, <3>2
    <2> QED BY <2>3, <2>4 DEF InRange
<1>5. ASSUME pc \in Leaders(code, entry), NEW i \in 1 .. Count, InRange(i, pc)
      PROVE  pc = Starts[i]
    <2>1. PICK j \in 1 .. Count : Starts[j] = pc
        BY <1>5, StartsAreLeaders
    <2>2. InRange(j, pc)
        <3>1. j < Count => j + 1 \in 1 .. Count /\ j < j + 1
            BY <1>1
        <3>2. j < Count => Starts[j] + WordSize <= Starts[j + 1]
            BY <3>1, StartsAreLeaders
        <3> QED BY <1>1, <2>1, <3>1, <3>2 DEF InRange, WordSize
    <2> QED BY <1>3, <1>5, <2>1, <2>2
<1> QED BY <1>3, <1>4, <1>5

-----------------------------------------------------------------------------
(* Transfers. *)
InstAt(pc) == code[pc \div WordSize + 1]

\* What a transfer is: to a target, past a branch, or straight on.
LEMMA TransferIs ==
    ASSUME IsProgram, NEW t \in Transfers
    PROVE  /\ t = [from |-> t.from, to |-> t.to, kind |-> t.kind]
           /\ t.from \in Pcs(code) /\ t.to \in Pcs(code)
           /\ \/ /\ t.kind = "BranchTaken" /\ InstAt(t.from).type = "B"
                 /\ t.to \in InstAt(t.from).target /\ t.to \in Leaders(code, entry)
              \/ /\ t.kind = "Jump" /\ InstAt(t.from).type = "JAL"
                 /\ t.to \in InstAt(t.from).target /\ t.to \in Leaders(code, entry)
              \/ /\ t.kind = "BranchNotTaken" /\ InstAt(t.from).type = "B"
                 /\ t.to = t.from + WordSize /\ t.to \in Leaders(code, entry)
              \/ /\ t.kind = "Fallthrough" /\ InstAt(t.from).type \notin {"B", "JAL", "JALR"}
                 /\ t.to = t.from + WordSize
<1>1. PICK pc \in Pcs(code) : t \in TransfersOf(pc)
    BY DEF Transfers
<1> DEFINE inst == InstAt(pc)
           To(pcs, kind) == {[from |-> pc, to |-> s, kind |-> kind] : s \in pcs \cap Pcs(code)}
<1>2. pc \div WordSize + 1 \in DOMAIN code
    <2>1. PICK k \in 0 .. Len(code) - 1 : pc = WordSize * k
        BY Addresses
    <2>2. pc \div WordSize + 1 = k + 1
        BY <2>1, Addresses DEF WordSize
    <2>3. k + 1 \in 1 .. Len(code)
        BY Addresses
    <2> QED BY <2>2, <2>3, Addresses
<1>3. DirectTargets(inst) \subseteq Leaders(code, entry)
    BY <1>2, LeadersArePlaces DEF InstAt
<1>4. ASSUME NEW pcs, NEW kind, t \in To(pcs, kind)
      PROVE  /\ t = [from |-> t.from, to |-> t.to, kind |-> t.kind]
             /\ t.from = pc /\ t.to \in pcs /\ t.to \in Pcs(code) /\ t.kind = kind
    BY <1>4
<1>5. TransfersOf(pc) =
        CASE inst.type = "B"    -> To(inst.target, "BranchTaken")
                                   \cup To({pc + WordSize}, "BranchNotTaken")
          [] inst.type = "JAL"  -> To(inst.target, "Jump")
          [] inst.type = "JALR" -> {}
          [] OTHER              -> To({pc + WordSize}, "Fallthrough")
    BY DEF TransfersOf, InstAt
<1> HIDE DEF To, inst
<1>6. CASE inst.type = "B" /\ t \in To(inst.target, "BranchTaken")
    <2>1. inst.target \subseteq Leaders(code, entry)
        BY <1>3, <1>6 DEF DirectTargets
    <2> QED BY <1>4, <1>6, <2>1 DEF inst
<1>7. CASE inst.type = "B" /\ t \in To({pc + WordSize}, "BranchNotTaken")
    <2>1. t.to = pc + WordSize /\ t.to \in Pcs(code)
        BY <1>4, <1>7
    <2>2. t.to \in Leaders(code, entry)
        BY <1>7, <2>1, LeadersArePlaces DEF inst, InstAt
    <2> QED BY <1>4, <1>7, <2>1, <2>2 DEF inst
<1>8. CASE inst.type = "JAL" /\ t \in To(inst.target, "Jump")
    <2>1. inst.target \subseteq Leaders(code, entry)
        BY <1>3, <1>8 DEF DirectTargets
    <2> QED BY <1>4, <1>8, <2>1 DEF inst
<1>9. CASE inst.type \notin {"B", "JAL", "JALR"} /\ t \in To({pc + WordSize}, "Fallthrough")
    <2>1. t.to = pc + WordSize
        BY <1>4, <1>9
    <2> QED BY <1>4, <1>9, <2>1 DEF inst
<1> QED BY <1>1, <1>5, <1>6, <1>7, <1>8, <1>9

\* Code that some leader is not after.
Covered == {pc \in Pcs(code) : \E l \in Leaders(code, entry) : l <= pc}

LEMMA FlowStaysCovered ==
    ASSUME IsProgram, NEW f \in Flow, f[1] \in Covered
    PROVE  f[2] \in Covered
<1>1. PICK l \in Leaders(code, entry) : l <= f[1]
    BY DEF Covered
<1>2. f[1] \in Nat /\ l \in Int
    BY Addresses, LeadersArePlaces DEF Covered
<1>3. ASSUME f[2] = f[1] + WordSize, f[2] \in Pcs(code) PROVE f[2] \in Covered
    <2>1. l <= f[2]
        BY <1>1, <1>2, <1>3 DEF WordSize
    <2> QED BY <1>3, <2>1 DEF Covered
<1>4. CASE f \in Returns
    BY <1>3, <1>4 DEF Returns
<1>5. CASE f \in {<<t.from, t.to>> : t \in Transfers}
    <2>1. PICK t \in Transfers : f = <<t.from, t.to>>
        BY <1>5
    <2>2. f[1] = t.from /\ f[2] = t.to
        BY <2>1
    <2>3. t.to \in Pcs(code) /\ (t.to \in Leaders(code, entry) \/ t.to = t.from + WordSize)
        BY TransferIs
    <2>4. CASE t.to \in Leaders(code, entry)
        <3>1. t.to <= t.to
            BY <2>3, Addresses
        <3> QED BY <2>2, <2>3, <2>4, <3>1 DEF Covered
    <2> QED BY <1>3, <2>2, <2>3, <2>4
<1> QED BY <1>4, <1>5 DEF Flow

LEMMA ReachableIsCovered ==
    ASSUME IsProgram
    PROVE  Reachable \subseteq Covered
<1>1. Covered \in SUBSET Pcs(code)
    BY DEF Covered
<1>2. entry \in Pcs(code) => entry \in Covered
    <2>1. \A pc \in Pcs(code) : pc <= pc
        BY Addresses
    <2> QED BY <2>1, LeadersArePlaces DEF Covered
<1>3. \A f \in Flow : f[1] \in Covered => f[2] \in Covered
    BY FlowStaysCovered
<1> QED BY <1>1, <1>2, <1>3 DEF Reachable, Reach

-----------------------------------------------------------------------------
(* The analysis is that of the program. *)
AnalysisInv == IsProgram /\ analysis \subseteq {Analyze(code, entry)}

LEMMA AnalysisHolds == Spec => []AnalysisInv
<1>1. Init => AnalysisInv
    BY ProgramsAssumption DEF Init, AnalysisInv, IsProgram
<1>2. AnalysisInv /\ [Return]_vars => AnalysisInv'
    BY DEF AnalysisInv, IsProgram, Return, vars
<1> QED BY <1>1, <1>2, PTL DEF Spec

LEMMA AnalysisIs ==
    ASSUME IsProgram
    PROVE  LET a == Analyze(code, entry)
           IN  /\ code # <<>> => a.blocks = Blocks(code, entry)
                              /\ a.edges = Edges(code, Blocks(code, entry))
               /\ code = <<>> => a.blocks = <<>> /\ a.edges = <<>> /\ Pcs(code) = {}
<1>1. CASE code # <<>>
    <2>1. Analyze(code, entry) =
             [entry_block |-> Analyze(code, entry).entry_block,
              blocks |-> Blocks(code, entry), edges |-> Edges(code, Blocks(code, entry)),
              loops |-> Analyze(code, entry).loops]
        BY <1>1 DEF Analyze
    <2> QED BY <1>1, <2>1
<1>2. CASE code = <<>>
    <2>1. Analyze(code, entry) = EmptyAnalysis
        BY <1>2 DEF Analyze
    <2>2. Pcs(code) = {}
        BY <1>2 DEF Pcs
    <2> QED BY <1>2, <2>1, <2>2 DEF EmptyAnalysis
<1> QED BY <1>1, <1>2

\* The blocks by their numbers.
LEMMA BlocksByNumber ==
    ASSUME IsProgram, code # <<>>, NEW a, a.blocks = Blocks(code, entry)
    PROVE  /\ \A b : b \in BlockIds(a) <=> b + 1 \in 1 .. Count /\ b \in Int
           /\ \A b \in BlockIds(a) :
                 /\ Block(a, b).id = b
                 /\ Block(a, b).start_pc = Starts[b + 1]
                 /\ Block(a, b).end_pc = EndPc(b + 1)
                 /\ \A pc : pc \in Block(a, b).instruction_pcs <=>
                               pc \in Pcs(code) /\ InRange(b + 1, pc)
<1> DEFINE bs == Blocks(code, entry)
<1>1. /\ DOMAIN bs = 1 .. Count /\ Count \in Nat
      /\ \A i \in 1 .. Count :
            /\ bs[i].id = i - 1
            /\ bs[i].start_pc = Starts[i]
            /\ bs[i].end_pc = EndPc(i)
            /\ \A pc : pc \in bs[i].instruction_pcs <=> pc \in Pcs(code) /\ InRange(i, pc)
    BY BlocksAre, StartsAreLeaders
<1> HIDE DEF bs
<1>2. BlockIds(a) = {bs[i].id : i \in 1 .. Count}
    BY <1>1 DEF BlockIds, Range, bs
<1>3. BlockIds(a) = {i - 1 : i \in 1 .. Count}
    BY <1>1, <1>2
<1>4. \A b : b \in BlockIds(a) <=> b + 1 \in 1 .. Count /\ b \in Int
    <2>1. ASSUME NEW b, b \in BlockIds(a) PROVE b + 1 \in 1 .. Count /\ b \in Int
        BY <1>1, <1>3, <2>1
    <2>2. ASSUME NEW b \in Int, b + 1 \in 1 .. Count PROVE b \in BlockIds(a)
        <3>1. (b + 1) - 1 = b
            OBVIOUS
        <3> QED BY <1>3, <2>2, <3>1
    <2> QED BY <2>1, <2>2
<1>5. \A b \in BlockIds(a) : Block(a, b) = bs[b + 1] /\ (b + 1) - 1 = b
    BY <1>4 DEF Block, bs
<1> QED BY <1>1, <1>4, <1>5

(* The blocks are basic blocks of the code that can run: every instruction *)
(* that control reaches is in exactly one, and control enters a block at   *)
(* its top only (analyze: leaders, blocks, pc_to_block), for every program *)
(* whose targets and entry are where labels can be.                        *)
THEOREM BlocksCorrect == Spec => []BlocksAreBasic
<1>1. ASSUME AnalysisInv, NEW a \in analysis, NEW pc \in Reachable
      PROVE  Cardinality({b \in BlockIds(a) : pc \in Block(a, b).instruction_pcs}) = 1
    <2>1. IsProgram /\ a = Analyze(code, entry) /\ pc \in Covered
        BY <1>1, ReachableIsCovered DEF AnalysisInv
    <2>2. pc \in Pcs(code) /\ \E l \in Leaders(code, entry) : l <= pc
        BY <2>1 DEF Covered
    <2>3. code # <<>> /\ a.blocks = Blocks(code, entry)
        BY <2>1, <2>2, AnalysisIs
    <2>4. PICK i \in 1 .. Count : InRange(i, pc) /\ \A j \in 1 .. Count : InRange(j, pc) => j = i
        BY <2>1, <2>2, OneHome
    <2>5. i - 1 \in Int /\ (i - 1) + 1 = i
        OBVIOUS
    <2> DEFINE homes == {b \in BlockIds(a) : pc \in Block(a, b).instruction_pcs}
    <2>6. i - 1 \in homes
        BY <2>1, <2>2, <2>3, <2>4, <2>5, BlocksByNumber
    <2>7. ASSUME NEW b \in homes PROVE b = i - 1
        <3>1. b + 1 \in 1 .. Count /\ b \in Int /\ InRange(b + 1, pc)
            BY <2>1, <2>3, BlocksByNumber
        <3>2. b + 1 = i
            BY <2>4, <3>1
        <3> QED BY <2>5, <3>1, <3>2
    <2>8. homes = {i - 1}
        <3> HIDE DEF homes
        <3> QED BY <2>6, <2>7
    <2> QED BY <2>8, FS_Singleton
<1>2. ASSUME AnalysisInv, NEW a \in analysis, NEW t \in Transfers, NEW b \in BlockIds(a),
             t.to \in Block(a, b).instruction_pcs
      PROVE  \/ t.to = Block(a, b).start_pc
             \/ t.to = t.from + WordSize /\ t.from \in Block(a, b).instruction_pcs
    <2>1. IsProgram /\ a = Analyze(code, entry)
        BY <1>2 DEF AnalysisInv
    <2>2. /\ t.from \in Pcs(code) /\ t.to \in Pcs(code)
          /\ t.to \in Leaders(code, entry) \/ t.to = t.from + WordSize
        BY <2>1, TransferIs
    <2>3. code # <<>> /\ a.blocks = Blocks(code, entry)
        BY <2>1, <2>2, AnalysisIs
    <2>4. /\ b + 1 \in 1 .. Count /\ InRange(b + 1, t.to)
          /\ Block(a, b).start_pc = Starts[b + 1]
          /\ InRange(b + 1, t.from) => t.from \in Block(a, b).instruction_pcs
        BY <1>2, <2>1, <2>2, <2>3, BlocksByNumber
    <2>5. CASE t.to \in Leaders(code, entry)
        BY <2>1, <2>2, <2>4, <2>5, OneHome
    <2>6. CASE t.to = t.from + WordSize /\ t.to # Starts[b + 1]
        <3>1. /\ t.from \in Nat /\ t.to \in Nat /\ t.from \in Places(code)
              /\ t.to \in Places(code)
              /\ Starts[b + 1] \in Places(code) /\ Starts[b + 1] \in Nat /\ Count \in Nat
              /\ b + 1 < Count => Starts[b + 1 + 1] \in Nat
            <4>1. b + 1 < Count => b + 1 + 1 \in 1 .. Count
                BY <2>4, StartsAreLeaders, <2>1
            <4> QED BY <2>1, <2>2, <2>4, <4>1, Addresses, StartsAreLeaders
        <3>2. Starts[b + 1] < t.to
            BY <2>4, <2>6, <3>1 DEF InRange
        <3>3. Starts[b + 1] + WordSize <= t.to
            BY <2>1, <3>1, <3>2, Addresses
        <3>4. InRange(b + 1, t.from)
            BY <2>4, <2>6, <3>1, <3>3 DEF InRange, WordSize
        <3> QED BY <2>4, <2>6, <3>4
    <2> QED BY <2>2, <2>4, <2>5, <2>6
<1>3. AnalysisInv => BlocksAreBasic
    BY <1>1, <1>2 DEF BlocksAreBasic, ReachableCodeIsInOneBlock, BlocksAreEnteredAtTheTop
<1> QED BY <1>3, AnalysisHolds, PTL

-----------------------------------------------------------------------------
(* Edges. *)
Kinds == {"BranchTaken", "BranchNotTaken", "Jump", "Fallthrough"}
Edge  == [from : Nat, to : Nat, kind : Kinds]

\* The ways on from an instruction.
Goes(pc, to, kind) ==
    \/ InstAt(pc).type = "B" /\ kind = "BranchTaken" /\ to \in InstAt(pc).target
    \/ InstAt(pc).type = "B" /\ kind = "BranchNotTaken" /\ to = pc + WordSize
    \/ InstAt(pc).type = "JAL" /\ kind = "Jump" /\ to \in InstAt(pc).target
    \/ /\ InstAt(pc).type \notin {"B", "JAL", "JALR"}
       /\ kind = "Fallthrough" /\ to = pc + WordSize

LEMMA TransfersAre ==
    ASSUME IsProgram
    PROVE  /\ \A t \in Transfers : /\ t.from \in Pcs(code) /\ t.to \in Pcs(code)
                                   /\ t.kind \in Kinds /\ Goes(t.from, t.to, t.kind)
           /\ \A pc, to \in Pcs(code) : \A kind \in Kinds :
                 Goes(pc, to, kind) => [from |-> pc, to |-> to, kind |-> kind] \in Transfers
<1>1. ASSUME NEW t \in Transfers
      PROVE  /\ t.from \in Pcs(code) /\ t.to \in Pcs(code)
             /\ t.kind \in Kinds /\ Goes(t.from, t.to, t.kind)
    BY <1>1, TransferIs DEF Goes, Kinds
<1>2. ASSUME NEW pc \in Pcs(code), NEW to \in Pcs(code), NEW kind \in Kinds, Goes(pc, to, kind)
      PROVE  [from |-> pc, to |-> to, kind |-> kind] \in Transfers
    <2> DEFINE t == [from |-> pc, to |-> to, kind |-> kind]
               To(pcs, k) == {[from |-> pc, to |-> s, kind |-> k] : s \in pcs \cap Pcs(code)}
    <2>1. TransfersOf(pc) =
            CASE InstAt(pc).type = "B"    -> To(InstAt(pc).target, "BranchTaken")
                                             \cup To({pc + WordSize}, "BranchNotTaken")
              [] InstAt(pc).type = "JAL"  -> To(InstAt(pc).target, "Jump")
              [] InstAt(pc).type = "JALR" -> {}
              [] OTHER                    -> To({pc + WordSize}, "Fallthrough")
        BY DEF TransfersOf, InstAt
    <2>2. \A pcs : to \in pcs => t \in To(pcs, kind)
        OBVIOUS
    <2> HIDE DEF To, t
    <2>3. t \in TransfersOf(pc)
        <3>1. CASE InstAt(pc).type = "B" /\ kind = "BranchTaken" /\ to \in InstAt(pc).target
            BY <2>1, <2>2, <3>1
        <3>2. CASE InstAt(pc).type = "B" /\ kind = "BranchNotTaken" /\ to = pc + WordSize
            BY <2>1, <2>2, <3>2
        <3>3. CASE InstAt(pc).type = "JAL" /\ kind = "Jump" /\ to \in InstAt(pc).target
            BY <2>1, <2>2, <3>3
        <3>4. CASE /\ InstAt(pc).type \notin {"B", "JAL", "JALR"}
                   /\ kind = "Fallthrough" /\ to = pc + WordSize
            BY <2>1, <2>2, <3>4
        <3> QED BY <1>2, <3>1, <3>2, <3>3, <3>4 DEF Goes
    <2> QED BY <2>3 DEF Transfers, t
<1> QED BY <1>1, <1>2

\* The last instruction of a block, and the ones before it: control that goes
\* on from those stays inside.
LEMMA LastInstruction ==
    ASSUME IsProgram, code # <<>>, NEW i \in 1 .. Count
    PROVE  /\ EndPc(i) \in Pcs(code)
           /\ i < Count => EndPc(i) + WordSize = Starts[i + 1]
           /\ i = Count => EndPc(i) + WordSize \notin Pcs(code)
           /\ \A pc \in Pcs(code) : InRange(i, pc) /\ pc # EndPc(i) =>
                 /\ pc + WordSize \in Pcs(code) /\ InRange(i, pc + WordSize)
                 /\ pc + WordSize # Starts[i]
<1>1. Len(code) \in Nat \ {0} /\ Count \in Nat
    <2>1. Len(code) \in Nat /\ Count \in Nat
        BY Addresses, StartsAreLeaders
    <2>2. Len(code) # 0
        BY DEF IsProgram
    <2> QED BY <2>1, <2>2
<1>2. CASE i < Count
    <2>1. /\ i + 1 \in 1 .. Count /\ Starts[i] + WordSize <= Starts[i + 1]
          /\ Starts[i] \in Nat /\ Starts[i + 1] \in Nat
          /\ Starts[i] \in Places(code) /\ Starts[i + 1] \in Places(code)
        BY <1>1, <1>2, StartsAreLeaders
    <2>2. PICK m \in 0 .. Len(code) : Starts[i + 1] = WordSize * m
        BY <2>1, Addresses
    <2>3. EndPc(i) = WordSize * (m - 1) /\ m - 1 \in 0 .. Len(code) - 1
        BY <1>1, <1>2, <2>1, <2>2 DEF EndPc, WordSize
    <2>4. EndPc(i) \in Pcs(code)
        BY <2>3, Addresses
    <2>5. EndPc(i) + WordSize = Starts[i + 1]
        BY <1>2, <2>1 DEF EndPc, WordSize
    <2>6. ASSUME NEW pc \in Pcs(code), InRange(i, pc), pc # EndPc(i)
          PROVE  /\ pc + WordSize \in Pcs(code) /\ InRange(i, pc + WordSize)
                 /\ pc + WordSize # Starts[i]
        <3>1. PICK k \in 0 .. Len(code) - 1 : pc = WordSize * k
            BY Addresses
        <3>2. Starts[i] <= pc /\ pc < Starts[i + 1] /\ pc # WordSize * (m - 1)
            BY <1>2, <2>3, <2>6 DEF InRange
        <3>3. k + 1 \in 0 .. Len(code) - 1 /\ pc + WordSize = WordSize * (k + 1) /\ k + 1 < m
            BY <1>1, <2>2, <3>1, <3>2 DEF WordSize
        <3>4. pc + WordSize \in Pcs(code)
            BY <3>3, Addresses
        <3>5. Starts[i] < pc + WordSize /\ pc + WordSize < Starts[i + 1]
            BY <2>1, <2>2, <3>1, <3>2, <3>3 DEF WordSize
        <3> QED BY <2>1, <3>1, <3>4, <3>5 DEF InRange, WordSize
    <2> QED BY <1>2, <2>4, <2>5, <2>6
<1>3. CASE ~(i < Count)
    <2>1. Starts[i] \in Nat
        BY StartsAreLeaders
    <2>2. EndPc(i) = LastPc(code) /\ Len(code) - 1 \in 0 .. Len(code) - 1
        BY <1>1, <1>3 DEF EndPc
    <2>3. EndPc(i) \in Pcs(code)
        BY <2>2, Addresses DEF LastPc
    <2>4. EndPc(i) + WordSize \notin Pcs(code)
        BY <1>1, <2>2, Addresses DEF LastPc, WordSize
    <2>5. ASSUME NEW pc \in Pcs(code), InRange(i, pc), pc # EndPc(i)
          PROVE  /\ pc + WordSize \in Pcs(code) /\ InRange(i, pc + WordSize)
                 /\ pc + WordSize # Starts[i]
        <3>1. PICK k \in 0 .. Len(code) - 1 : pc = WordSize * k
            BY Addresses
        <3>2. k # Len(code) - 1
            BY <2>2, <2>5, <3>1 DEF LastPc
        <3>3. k + 1 \in 0 .. Len(code) - 1 /\ pc + WordSize = WordSize * (k + 1)
            BY <1>1, <3>1, <3>2 DEF WordSize
        <3>4. pc + WordSize \in Pcs(code)
            BY <3>3, Addresses
        <3>5. Starts[i] <= pc /\ pc \in Nat
            BY <2>5, <3>1 DEF InRange, WordSize
        <3> QED BY <1>3, <2>1, <3>4, <3>5 DEF InRange, WordSize
    <2> QED BY <1>3, <2>3, <2>4, <2>5
<1> QED BY <1>2, <1>3

\* The edge of kind from block i to block j.
EdgeFrom(i, j, kind) == [from |-> i - 1, to |-> j - 1, kind |-> kind]

\* q has the edge of kind from block i to the block of pc, if there is one.
HasEdgeTo(q, i, pc, kind) ==
    /\ q \in Seq(Edge)
    /\ \A e : e \in Range(q) <=> \E j \in 1 .. Count : /\ pc \in Pcs(code) /\ InRange(j, pc)
                                                      /\ e = EdgeFrom(i, j, kind)

LEMMA EdgeToIs ==
    ASSUME IsProgram, NEW i \in 1 .. Count, NEW pc, NEW kind \in Kinds
    PROVE  LET bs == Blocks(code, entry)
           IN  HasEdgeTo(EdgeTo(bs, bs[i], pc, kind), i, pc, kind)
<1> DEFINE bs == Blocks(code, entry)
           homes == {j \in 1 .. Count : pc \in Pcs(code) /\ InRange(j, pc)}
           es == {EdgeFrom(i, j, kind) : j \in homes}
<1>1. /\ DOMAIN bs = 1 .. Count /\ Count \in Nat
      /\ \A j \in 1 .. Count :
            /\ bs[j].id = j - 1
            /\ \A p : p \in bs[j].instruction_pcs <=> p \in Pcs(code) /\ InRange(j, p)
    BY BlocksAre, StartsAreLeaders
<1> HIDE DEF bs
<1>2. BlockOf(bs, pc) = {j - 1 : j \in homes}
    <2>1. Range(bs) = {bs[j] : j \in 1 .. Count}
        BY <1>1 DEF Range
    <2>2. BlockOf(bs, pc) = {bs[j].id : j \in homes}
        BY <1>1, <2>1 DEF BlockOf
    <2> QED BY <1>1, <2>2
<1>3. EdgeTo(bs, bs[i], pc, kind) = SetToSeq(es)
    <2>1. {[from |-> bs[i].id, to |-> c, kind |-> kind] : c \in BlockOf(bs, pc)} = es
        BY <1>1, <1>2 DEF EdgeFrom
    <2> HIDE DEF es
    <2> QED BY <2>1 DEF EdgeTo
<1>4. IsFiniteSet(es)
    <2> DEFINE f == [j \in homes |-> EdgeFrom(i, j, kind)]
    <2>1. IsFiniteSet(1 .. Count)
        BY <1>1, FS_Interval
    <2>2. IsFiniteSet(homes)
        <3>1. homes \subseteq 1 .. Count
            OBVIOUS
        <3> HIDE DEF homes
        <3> QED BY <2>1, <3>1, FS_Subset
    <2>3. f \in Surjection(homes, es)
        BY DEF Surjection
    <2> HIDE DEF homes, es, f
    <2> QED BY <2>2, <2>3, FS_Surjection
<1>5. es \subseteq Edge
    BY <1>1 DEF EdgeFrom, Edge
<1>6. SetToSeq(es) \in Seq(es) /\ Range(SetToSeq(es)) = es
    <2> HIDE DEF es
    <2> QED BY <1>4, SetToSeqLists
<1>7. SetToSeq(es) \in Seq(Edge)
    <2> HIDE DEF es
    <2> QED BY <1>5, <1>6
<1>8. \A e : e \in es <=> \E j \in 1 .. Count : /\ pc \in Pcs(code) /\ InRange(j, pc)
                                                /\ e = EdgeFrom(i, j, kind)
    OBVIOUS
<1> HIDE DEF es
<1> QED BY <1>3, <1>6, <1>7, <1>8 DEF bs, HasEdgeTo

\* The edges to what a set of targets names.
LEMMA TargetEdges ==
    ASSUME IsProgram, NEW i \in 1 .. Count, NEW D, D \subseteq Places(code), NEW kind \in Kinds
    PROVE  LET bs == Blocks(code, entry)
               q  == FlattenSeq(SetToSeq({EdgeTo(bs, bs[i], t, kind) : t \in D}))
           IN  /\ q \in Seq(Edge)
               /\ \A e : e \in Range(q) <=>
                     \E j \in 1 .. Count, pc \in Pcs(code) :
                        pc \in D /\ InRange(j, pc) /\ e = EdgeFrom(i, j, kind)
<1> DEFINE bs == Blocks(code, entry)
           To(t) == EdgeTo(bs, bs[i], t, kind)
           lists == {To(t) : t \in D}
<1>1. \A t : /\ To(t) \in Seq(Edge)
             /\ \A e : e \in Range(To(t)) <=>
                   \E j \in 1 .. Count : /\ t \in Pcs(code) /\ InRange(j, t)
                                         /\ e = EdgeFrom(i, j, kind)
    <2> TAKE t
    <2>1. HasEdgeTo(To(t), i, t, kind)
        BY EdgeToIs
    <2> HIDE DEF To
    <2> QED BY <2>1 DEF HasEdgeTo
<1> HIDE DEF To
<1>2. IsFiniteSet(lists)
    <2> DEFINE f == [t \in D |-> To(t)]
               n == WordSize * Len(code)
    <2>1. Places(code) \subseteq 0 .. n /\ n \in Int
        BY Addresses DEF WordSize
    <2>2. IsFiniteSet(D)
        <3>1. IsFiniteSet(0 .. n)
            BY <2>1, FS_Interval
        <3>2. D \subseteq 0 .. n
            BY <2>1
        <3> HIDE DEF n
        <3> QED BY <3>1, <3>2, FS_Subset
    <2>3. f \in Surjection(D, lists)
        BY DEF Surjection
    <2> HIDE DEF lists, f
    <2> QED BY <2>2, <2>3, FS_Surjection
<1>3. lists \subseteq Seq(Edge)
    BY <1>1
<1> DEFINE q == SetToSeq(lists)
<1>4. q \in Seq(Seq(Edge)) /\ Range(q) = lists
    <2> HIDE DEF lists
    <2>1. q \in Seq(lists) /\ Range(q) = lists
        BY <1>2, SetToSeqLists
    <2> HIDE DEF q
    <2> QED BY <1>3, <2>1
<1> HIDE DEF q
<1>5. /\ FlattenSeq(q) \in Seq(Edge)
      /\ \A e : e \in Range(FlattenSeq(q)) <=> \E k \in DOMAIN q : e \in Range(q[k])
    BY <1>4, FlattenLists
<1>6. \A e : (\E k \in DOMAIN q : e \in Range(q[k])) <=> \E t \in D : e \in Range(To(t))
    <2>1. \A l : l \in lists <=> \E k \in DOMAIN q : l = q[k]
        <3> HIDE DEF lists
        <3> QED BY <1>4 DEF Range
    <2> QED BY <2>1
<1>7. \A e : e \in Range(FlattenSeq(q)) <=>
                \E j \in 1 .. Count, pc \in Pcs(code) :
                   pc \in D /\ InRange(j, pc) /\ e = EdgeFrom(i, j, kind)
    <2>1. \A e : e \in Range(FlattenSeq(q)) <=> \E t \in D : e \in Range(To(t))
        BY <1>5, <1>6
    <2>2. \A e : (\E t \in D : e \in Range(To(t))) <=>
                    \E t \in D, j \in 1 .. Count : /\ t \in Pcs(code) /\ InRange(j, t)
                                                   /\ e = EdgeFrom(i, j, kind)
        BY <1>1
    <2> HIDE DEF lists
    <2>3. \A e : (\E t \in D, j \in 1 .. Count : /\ t \in Pcs(code) /\ InRange(j, t)
                                                 /\ e = EdgeFrom(i, j, kind))
                 <=> \E j \in 1 .. Count, pc \in Pcs(code) :
                        pc \in D /\ InRange(j, pc) /\ e = EdgeFrom(i, j, kind)
        OBVIOUS
    <2> QED BY <2>1, <2>2, <2>3
<1> QED BY <1>5, <1>7 DEF q, To

\* What the last instruction of block i makes.
LEMMA EdgesOfAre ==
    ASSUME IsProgram, code # <<>>, NEW i \in 1 .. Count
    PROVE  LET bs == Blocks(code, entry)
               q  == EdgesOf(code, bs, bs[i])
           IN  /\ q \in Seq(Edge)
               /\ \A e : e \in Range(q) <=>
                     \E j \in 1 .. Count, pc \in Pcs(code), kind \in Kinds :
                        /\ InRange(j, pc) /\ Goes(EndPc(i), pc, kind)
                        /\ e = EdgeFrom(i, j, kind)
<1> DEFINE bs == Blocks(code, entry)
           inst == InstAt(EndPc(i))
           next == EndPc(i) + WordSize
           Next(kind) == EdgeTo(bs, bs[i], next, kind)
           Targets(kind) ==
               FlattenSeq(SetToSeq({EdgeTo(bs, bs[i], t, kind) : t \in DirectTargets(inst)}))
           To(e, D, kind) == \E j \in 1 .. Count, pc \in Pcs(code) :
                                pc \in D /\ InRange(j, pc) /\ e = EdgeFrom(i, j, kind)
           Way(e) == \E j \in 1 .. Count, pc \in Pcs(code), kind \in Kinds :
                        /\ InRange(j, pc) /\ Goes(EndPc(i), pc, kind)
                        /\ e = EdgeFrom(i, j, kind)
<1>1. EdgesOf(code, bs, bs[i]) =
        CASE inst.type = "B"    -> Targets("BranchTaken") \o Next("BranchNotTaken")
          [] inst.type = "JAL"  -> Targets("Jump")
          [] inst.type = "JALR" -> <<>>
          [] OTHER              -> Next("Fallthrough")
    <2>1. bs[i].end_pc = EndPc(i)
        BY BlocksAre
    <2> HIDE DEF bs
    <2> QED BY <2>1 DEF EdgesOf, InstAt
<1>2. DirectTargets(inst) \subseteq Places(code)
    <2>1. EndPc(i) \in Pcs(code)
        BY LastInstruction
    <2>2. EndPc(i) \div WordSize + 1 \in DOMAIN code
        <3>1. PICK k \in 0 .. Len(code) - 1 : EndPc(i) = WordSize * k
            BY <2>1, Addresses
        <3>2. EndPc(i) \div WordSize + 1 = k + 1
            BY <3>1, Addresses DEF WordSize
        <3>3. k + 1 \in 1 .. Len(code)
            BY Addresses
        <3> QED BY <3>2, <3>3, Addresses
    <2> QED BY <2>2 DEF IsProgram, InstAt
<1>3. \A kind \in Kinds : /\ Targets(kind) \in Seq(Edge)
                          /\ \A e : e \in Range(Targets(kind)) <=> To(e, DirectTargets(inst), kind)
    BY <1>2, TargetEdges
<1>4. \A kind \in Kinds : /\ Next(kind) \in Seq(Edge)
                          /\ \A e : e \in Range(Next(kind)) <=> To(e, {next}, kind)
    <2> SUFFICES ASSUME NEW kind \in Kinds
                 PROVE  /\ Next(kind) \in Seq(Edge)
                        /\ \A e : e \in Range(Next(kind)) <=> To(e, {next}, kind)
        OBVIOUS
    <2>1. HasEdgeTo(Next(kind), i, next, kind)
        BY EdgeToIs
    <2> HIDE DEF Next, next
    <2>2. \A e : (\E j \in 1 .. Count : /\ next \in Pcs(code) /\ InRange(j, next)
                                        /\ e = EdgeFrom(i, j, kind))
                 <=> To(e, {next}, kind)
        OBVIOUS
    <2> HIDE DEF To
    <2> QED BY <2>1, <2>2 DEF HasEdgeTo
<1> HIDE DEF Targets, Next, To
<1>5. /\ "BranchTaken" \in Kinds /\ "BranchNotTaken" \in Kinds
      /\ "Jump" \in Kinds /\ "Fallthrough" \in Kinds
    BY DEF Kinds
<1> DEFINE Goal(q) == q \in Seq(Edge) /\ \A e : e \in Range(q) <=> Way(e)
<1>6. ASSUME inst.type = "B" PROVE Goal(EdgesOf(code, bs, bs[i]))
    <2>1. EdgesOf(code, bs, bs[i]) = Targets("BranchTaken") \o Next("BranchNotTaken")
        BY <1>1, <1>6
    <2>2. \A e : Way(e) <=> To(e, inst.target, "BranchTaken") \/ To(e, {next}, "BranchNotTaken")
        BY <1>5, <1>6 DEF Goes, To
    <2>3. DirectTargets(inst) = inst.target
        BY <1>6 DEF DirectTargets
    <2> HIDE DEF inst, next, Way
    <2>4. /\ Targets("BranchTaken") \o Next("BranchNotTaken") \in Seq(Edge)
          /\ \A e : e \in Range(Targets("BranchTaken") \o Next("BranchNotTaken")) <=>
                e \in Range(Targets("BranchTaken")) \/ e \in Range(Next("BranchNotTaken"))
        BY <1>3, <1>4, <1>5, RangeOfJoin
    <2> QED BY <1>3, <1>4, <1>5, <2>1, <2>2, <2>3, <2>4
<1>7. ASSUME inst.type = "JAL" PROVE Goal(EdgesOf(code, bs, bs[i]))
    <2>1. EdgesOf(code, bs, bs[i]) = Targets("Jump")
        BY <1>1, <1>7
    <2>2. \A e : Way(e) <=> To(e, inst.target, "Jump")
        BY <1>5, <1>7 DEF Goes, To
    <2>3. DirectTargets(inst) = inst.target
        BY <1>7 DEF DirectTargets
    <2> HIDE DEF inst, next, Way
    <2> QED BY <1>3, <1>5, <2>1, <2>2, <2>3
<1>8. ASSUME inst.type = "JALR" PROVE Goal(EdgesOf(code, bs, bs[i]))
    <2>1. EdgesOf(code, bs, bs[i]) = <<>>
        BY <1>1, <1>8
    <2>2. \A e : ~Way(e)
        BY <1>8 DEF Goes
    <2>3. <<>> \in Seq(Edge) /\ \A e : e \notin Range(<<>>)
        BY DEF Range
    <2> HIDE DEF Way
    <2> QED BY <2>1, <2>2, <2>3
<1>9. ASSUME inst.type \notin {"B", "JAL", "JALR"} PROVE Goal(EdgesOf(code, bs, bs[i]))
    <2>1. EdgesOf(code, bs, bs[i]) = Next("Fallthrough")
        BY <1>1, <1>9
    <2>2. \A e : Way(e) <=> To(e, {next}, "Fallthrough")
        BY <1>5, <1>9 DEF Goes, To
    <2> HIDE DEF inst, next, Way
    <2> QED BY <1>4, <1>5, <2>1, <2>2
<1>10. Goal(EdgesOf(code, bs, bs[i]))
    <2> HIDE DEF inst, next, Way
    <2> QED BY <1>6, <1>7, <1>8, <1>9
<1> QED BY <1>10

LEMMA EdgesAre ==
    ASSUME IsProgram, code # <<>>
    PROVE  \A e : e \in Range(Edges(code, Blocks(code, entry))) <=>
              \E i, j \in 1 .. Count : \E pc \in Pcs(code), kind \in Kinds :
                 /\ InRange(j, pc) /\ Goes(EndPc(i), pc, kind)
                 /\ e = EdgeFrom(i, j, kind)
<1> DEFINE bs == Blocks(code, entry)
           q == [i \in DOMAIN bs |-> EdgesOf(code, bs, bs[i])]
           Way(e, i) == \E j \in 1 .. Count, pc \in Pcs(code), kind \in Kinds :
                           /\ InRange(j, pc) /\ Goes(EndPc(i), pc, kind)
                           /\ e = EdgeFrom(i, j, kind)
<1>1. DOMAIN bs = 1 .. Count /\ Count \in Nat
    BY BlocksAre, StartsAreLeaders
<1>2. \A i \in 1 .. Count : /\ EdgesOf(code, bs, bs[i]) \in Seq(Edge)
                            /\ \A e : e \in Range(EdgesOf(code, bs, bs[i])) <=> Way(e, i)
    BY EdgesOfAre
<1>3. Edges(code, bs) = FlattenSeq(q)
    BY DEF Edges
<1> HIDE DEF bs, Way
<1>4. /\ q \in Seq(Seq(Edge)) /\ DOMAIN q = 1 .. Count
      /\ \A i \in 1 .. Count : q[i] = EdgesOf(code, bs, bs[i])
    BY <1>1, <1>2
<1> HIDE DEF q
<1>5. \A e : e \in Range(FlattenSeq(q)) <=> \E i \in 1 .. Count : e \in Range(q[i])
    BY <1>4, FlattenLists
<1>6. \A e : e \in Range(FlattenSeq(q)) <=> \E i \in 1 .. Count : Way(e, i)
    BY <1>2, <1>4, <1>5
<1>7. \A e : (\E i \in 1 .. Count : Way(e, i)) <=>
         \E i, j \in 1 .. Count : \E pc \in Pcs(code), kind \in Kinds :
            /\ InRange(j, pc) /\ Goes(EndPc(i), pc, kind)
            /\ e = EdgeFrom(i, j, kind)
    BY DEF Way
<1> QED BY <1>3, <1>6, <1>7 DEF bs

\* An edge leads to the first instruction of its block.
LEMMA EdgesEnterAtTheTop ==
    ASSUME IsProgram, code # <<>>, NEW i \in 1 .. Count, NEW j \in 1 .. Count,
           NEW pc \in Pcs(code), NEW kind \in Kinds, InRange(j, pc), Goes(EndPc(i), pc, kind)
    PROVE  pc = Starts[j]
<1>1. EndPc(i) \in Pcs(code)
    BY LastInstruction
<1>2. [from |-> EndPc(i), to |-> pc, kind |-> kind] \in Transfers
    BY <1>1, TransfersAre
<1>3. pc \in Leaders(code, entry) \/ pc = EndPc(i) + WordSize
    <2> DEFINE t == [from |-> EndPc(i), to |-> pc, kind |-> kind]
    <2>1. t.from = EndPc(i) /\ t.to = pc
        OBVIOUS
    <2> HIDE DEF t
    <2> QED BY <1>2, <2>1, TransferIs DEF t
<1>4. pc = EndPc(i) + WordSize => pc \in Leaders(code, entry)
    <2> SUFFICES ASSUME pc = EndPc(i) + WordSize PROVE pc \in Leaders(code, entry)
        OBVIOUS
    <2>1. i # Count /\ Count \in Nat
        BY LastInstruction, StartsAreLeaders
    <2>2. i < Count /\ i + 1 \in 1 .. Count
        BY <2>1
    <2> QED BY <2>2, LastInstruction, StartsAreLeaders
<1> QED BY <1>3, <1>4, OneHome

\* Control that goes on in the graph stays in its block, or follows an edge.
Follows(blocks, edges, pc, next, kind) ==
    \A b \in BlockOf(blocks, pc) :
        \E c \in BlockOf(blocks, next) :
            \/ c = b /\ next = pc + WordSize
            \/ /\ [from |-> b, to |-> c, kind |-> kind] \in Range(edges)
               /\ next = blocks[c + 1].start_pc

LEMMA HomesAre ==
    ASSUME IsProgram, NEW pc \in Pcs(code)
    PROVE  \A b : b \in BlockOf(Blocks(code, entry), pc) <=>
              \E i \in 1 .. Count : b = i - 1 /\ InRange(i, pc)
<1> DEFINE bs == Blocks(code, entry)
<1>1. /\ DOMAIN bs = 1 .. Count
      /\ \A i \in 1 .. Count :
            bs[i].id = i - 1 /\ (pc \in bs[i].instruction_pcs <=> InRange(i, pc))
    BY BlocksAre
<1> HIDE DEF bs
<1>2. \A b : b \in BlockOf(bs, pc) <=>
          \E i \in DOMAIN bs : b = bs[i].id /\ pc \in bs[i].instruction_pcs
    BY DEF BlockOf, Range
<1> QED BY <1>1, <1>2 DEF bs

LEMMA ControlFollowsEdges ==
    ASSUME IsProgram, NEW pc \in Pcs(code), NEW next \in Pcs(code),
           NEW kind \in Kinds \ {"Jump"}, Goes(pc, next, kind)
    PROVE  Follows(Blocks(code, entry), Edges(code, Blocks(code, entry)), pc, next, kind)
<1> DEFINE bs == Blocks(code, entry)
           es == Edges(code, Blocks(code, entry))
<1>1. code # <<>>
    BY DEF Pcs
<1>2. SUFFICES ASSUME NEW b \in BlockOf(bs, pc)
               PROVE  \E c \in BlockOf(bs, next) :
                         \/ c = b /\ next = pc + WordSize
                         \/ /\ [from |-> b, to |-> c, kind |-> kind] \in Range(es)
                            /\ next = bs[c + 1].start_pc
    BY DEF Follows
<1>3. PICK i \in 1 .. Count : b = i - 1 /\ InRange(i, pc)
    BY <1>2, HomesAre
<1>4. Count \in Nat /\ \A j \in 1 .. Count : bs[j].start_pc = Starts[j] /\ (j - 1) + 1 = j
    BY BlocksAre, StartsAreLeaders
<1> HIDE DEF bs, es
<1>5. CASE pc # EndPc(i)
    <2>1. /\ pc + WordSize \in Pcs(code) /\ InRange(i, pc + WordSize)
          /\ pc + WordSize # Starts[i]
        BY <1>1, <1>3, <1>5, LastInstruction
    <2>2. InstAt(pc).type # "B"
        BY <1>3, <2>1, LeadersArePlaces, OneHome DEF InstAt
    <2>3. next = pc + WordSize
        BY <2>2 DEF Goes
    <2>4. b \in BlockOf(bs, next)
        BY <1>3, <2>1, <2>3, HomesAre DEF bs
    <2> QED BY <2>3, <2>4
<1>6. CASE pc = EndPc(i)
    <2>1. \E l \in Leaders(code, entry) : l <= next
        <3>1. CASE next = pc + WordSize
            <4>1. Starts[i] \in Leaders(code, entry) /\ Starts[i] \in Nat /\ pc \in Nat
                BY StartsAreLeaders, Addresses
            <4>2. Starts[i] <= next
                BY <1>3, <3>1, <4>1 DEF InRange, WordSize
            <4> QED BY <4>1, <4>2
        <3>2. CASE InstAt(pc).type = "B" /\ next \in InstAt(pc).target
            <4>1. pc \div WordSize + 1 \in DOMAIN code
                <5>1. PICK k \in 0 .. Len(code) - 1 : pc = WordSize * k
                    BY Addresses
                <5>2. pc \div WordSize + 1 = k + 1
                    BY <5>1, Addresses DEF WordSize
                <5>3. DOMAIN code = 1 .. Len(code) /\ Len(code) \in Nat
                    BY Addresses
                <5>4. k + 1 \in 1 .. Len(code)
                    BY <5>1, <5>3
                <5> QED BY <5>2, <5>3, <5>4
            <4>2. next \in DirectTargets(code[pc \div WordSize + 1])
                BY <3>2 DEF InstAt, DirectTargets
            <4>3. next \in Leaders(code, entry) /\ next \in Nat
                BY <4>1, <4>2, LeadersArePlaces, Addresses
            <4> QED BY <4>3
        <3> QED BY <3>1, <3>2 DEF Goes, Kinds
    <2>2. PICK j \in 1 .. Count : InRange(j, next)
        BY <2>1, OneHome
    <2>3. Goes(EndPc(i), next, kind) /\ next = Starts[j]
        BY <1>1, <1>6, <2>2, EdgesEnterAtTheTop
    <2>4. EdgeFrom(i, j, kind) \in Range(es)
        BY <1>1, <2>2, <2>3, EdgesAre DEF es
    <2>5. j - 1 \in BlockOf(bs, next)
        BY <2>2, HomesAre DEF bs
    <2>6. next = bs[(j - 1) + 1].start_pc
        BY <1>4, <2>3
    <2> QED BY <1>3, <2>4, <2>5, <2>6 DEF EdgeFrom
<1> QED BY <1>5, <1>6

(* The edges are the transfers between blocks: each one is a transfer that *)
(* the last instruction of its block makes, and every branch and every     *)
(* fallthrough to another block has its edge (analyze: edges), for every   *)
(* program whose targets and entry are where labels can be.                *)
THEOREM EdgesCorrect == Spec => []EdgesAreTransfers
<1> DEFINE Made(a, e) == [from |-> Block(a, e.from).end_pc, to |-> Block(a, e.to).start_pc,
                          kind |-> e.kind]
<1>1. ASSUME AnalysisInv, NEW a \in analysis, NEW e \in Range(a.edges)
      PROVE  Made(a, e) \in Transfers
    <2>1. IsProgram /\ a = Analyze(code, entry)
        BY <1>1 DEF AnalysisInv
    <2>2. code # <<>> /\ a.blocks = Blocks(code, entry) /\ a.edges = Edges(code, Blocks(code, entry))
        <3>1. code = <<>> => a.edges = <<>>
            BY <2>1, AnalysisIs
        <3>2. code # <<>>
            BY <1>1, <3>1 DEF Range
        <3> QED BY <2>1, <3>2, AnalysisIs
    <2>3. PICK i \in 1 .. Count, j \in 1 .. Count, pc \in Pcs(code), kind \in Kinds :
              /\ InRange(j, pc) /\ Goes(EndPc(i), pc, kind)
              /\ e = EdgeFrom(i, j, kind)
        BY <1>1, <2>1, <2>2, EdgesAre
    <2>4. e.from = i - 1 /\ e.to = j - 1 /\ e.kind = kind
        BY <2>3 DEF EdgeFrom
    <2>5. /\ e.from \in BlockIds(a) /\ e.from + 1 = i
          /\ e.to \in BlockIds(a) /\ e.to + 1 = j
        <3>1. (i - 1) + 1 = i /\ i - 1 \in Int /\ (j - 1) + 1 = j /\ j - 1 \in Int
            OBVIOUS
        <3> QED BY <2>1, <2>2, <2>4, <3>1, BlocksByNumber
    <2>6. Block(a, e.from).end_pc = EndPc(i) /\ Block(a, e.to).start_pc = Starts[j]
        BY <2>1, <2>2, <2>5, BlocksByNumber
    <2>7. pc = Starts[j] /\ EndPc(i) \in Pcs(code)
        BY <2>1, <2>2, <2>3, EdgesEnterAtTheTop, LastInstruction
    <2>8. [from |-> EndPc(i), to |-> pc, kind |-> kind] \in Transfers
        BY <2>1, <2>3, <2>7, TransfersAre
    <2> QED BY <2>4, <2>6, <2>7, <2>8
<1>2. ASSUME AnalysisInv, NEW a \in analysis, NEW t \in Transfers, t.kind # "Jump",
             NEW b \in BlockIds(a), NEW c \in BlockIds(a),
             t.from \in Block(a, b).instruction_pcs,
             t.to \in Block(a, c).instruction_pcs,
             b # c \/ t.kind # "Fallthrough"
      PROVE  [from |-> b, to |-> c, kind |-> t.kind] \in Range(a.edges)
    <2>1. IsProgram /\ a = Analyze(code, entry)
        BY <1>2 DEF AnalysisInv
    <2>2. t.from \in Pcs(code) /\ t.to \in Pcs(code) /\ t.kind \in Kinds
                               /\ Goes(t.from, t.to, t.kind)
        BY <2>1, TransfersAre
    <2>3. code # <<>> /\ a.blocks = Blocks(code, entry) /\ a.edges = Edges(code, Blocks(code, entry))
        BY <2>1, <2>2, AnalysisIs
    <2> DEFINE i == b + 1
               j == c + 1
    <2>4. i \in 1 .. Count /\ j \in 1 .. Count /\ i - 1 = b /\ j - 1 = c
        BY <2>1, <2>3, BlocksByNumber
    <2>5. InRange(i, t.from) /\ InRange(j, t.to)
        BY <1>2, <2>1, <2>3, BlocksByNumber
    <2> HIDE DEF i, j
    <2>6. ASSUME t.from # EndPc(i) PROVE FALSE
        <3>1. /\ t.from + WordSize \in Pcs(code) /\ InRange(i, t.from + WordSize)
              /\ t.from + WordSize # Starts[i]
            BY <2>1, <2>2, <2>3, <2>4, <2>5, <2>6, LastInstruction
        <3>2. InstAt(t.from).type # "B"
            BY <2>1, <2>2, <2>4, <3>1, LeadersArePlaces, OneHome DEF InstAt
        <3>3. t.kind = "Fallthrough" /\ t.to = t.from + WordSize
            BY <1>2, <2>2, <3>2 DEF Goes
        <3>4. i = j
            BY <2>1, <2>2, <2>4, <2>5, <3>1, <3>3, OneHome
        <3> QED BY <1>2, <2>4, <3>3, <3>4
    <2>7. [from |-> b, to |-> c, kind |-> t.kind] = EdgeFrom(i, j, t.kind)
        BY <2>4 DEF EdgeFrom
    <2> QED BY <2>1, <2>2, <2>3, <2>4, <2>5, <2>6, <2>7, EdgesAre
<1>3. AnalysisInv => EdgesAreTransfers
    BY <1>1, <1>2 DEF EdgesAreTransfers
<1> QED BY <1>3, AnalysisHolds, PTL

-----------------------------------------------------------------------------
(* The search: its steps. *)
Pairs(edges) == {<<e.from, e.to>> : e \in Range(edges)}

\* The nodes that edges lead to.
Ends(edges) == {e.to : e \in Range(edges)}

LEMMA EndsAreFinite ==
    ASSUME NEW edges \in Seq(Edge)
    PROVE  /\ IsFiniteSet(Ends(edges)) /\ Cardinality(Ends(edges)) \in Nat
           /\ \A T \in SUBSET Ends(edges) : /\ IsFiniteSet(T) /\ Cardinality(T) \in Nat
                                            /\ Cardinality(T) <= Cardinality(Ends(edges))
<1> DEFINE f == [k \in 1 .. Len(edges) |-> edges[k].to]
           E == Ends(edges)
<1>1. Len(edges) \in Nat /\ DOMAIN edges = 1 .. Len(edges)
    OBVIOUS
<1>2. f \in Surjection(1 .. Len(edges), E)
    BY <1>1 DEF Surjection, Ends, Range
<1>3. IsFiniteSet(1 .. Len(edges))
    BY <1>1, FS_Interval
<1> HIDE DEF f, E
<1>4. IsFiniteSet(E) /\ Cardinality(E) \in Nat
    BY <1>2, <1>3, FS_Surjection, FS_CardinalityType
<1> QED BY <1>4, FS_Subset, FS_CardinalityType DEF E

LEMMA NeighboursAre ==
    ASSUME NEW edges \in Seq(Edge), NEW node
    PROVE  LET out == Neighbours(edges, node)
           IN  /\ out \in Seq(Nat)
               /\ \A k \in 1 .. Len(out) : /\ <<node, out[k]>> \in Pairs(edges)
                                           /\ out[k] \in Ends(edges)
               /\ \A n : <<node, n>> \in Pairs(edges) => \E k \in 1 .. Len(out) : out[k] = n
<1> DEFINE P == {k \in DOMAIN edges : edges[k].from = node}
           at == InOrder(P)
           out == [i \in DOMAIN at |-> edges[at[i]].to]
<1>1. /\ Len(edges) \in Nat /\ DOMAIN edges = 1 .. Len(edges)
      /\ \A k \in 1 .. Len(edges) : edges[k] \in Edge
    OBVIOUS
<1>2. P \in SUBSET (1 .. Len(edges)) /\ \A k \in P : edges[k] \in Edge /\ edges[k].from = node
    BY <1>1
<1>3. IsFiniteSet(P) /\ P \in SUBSET Int
    <2> HIDE DEF P
    <2>1. IsFiniteSet(1 .. Len(edges))
        BY <1>1, FS_Interval
    <2>2. IsFiniteSet(P)
        BY <1>2, <2>1, FS_Subset
    <2> QED BY <1>2, <2>2
<1> HIDE DEF P
<1>4. /\ Len(at) \in Nat /\ DOMAIN at = 1 .. Len(at)
      /\ \A i \in 1 .. Len(at) : at[i] \in P
      /\ \A k \in P : \E i \in 1 .. Len(at) : at[i] = k
    BY <1>3, InOrderLists
<1> HIDE DEF at
<1>5. Neighbours(edges, node) = out
    BY DEF Neighbours, P, at
<1>6. /\ DOMAIN out = 1 .. Len(at)
      /\ \A i \in 1 .. Len(at) : out[i] = edges[at[i]].to /\ out[i] \in Nat
    BY <1>2, <1>4 DEF Edge
<1>7. out \in Seq(Nat) /\ Len(out) = Len(at)
    BY <1>4, <1>6
<1> HIDE DEF out
<1>8. \A k \in P : edges[k] \in Range(edges) /\ edges[k].from = node
    BY <1>1, <1>2 DEF Range
<1>9. \A k \in 1 .. Len(out) : <<node, out[k]>> \in Pairs(edges) /\ out[k] \in Ends(edges)
    BY <1>4, <1>6, <1>7, <1>8 DEF Pairs, Ends
<1>10. ASSUME NEW n, <<node, n>> \in Pairs(edges)
       PROVE  \E k \in 1 .. Len(out) : out[k] = n
    <2>1. PICK k \in 1 .. Len(edges) : edges[k].from = node /\ edges[k].to = n
        BY <1>1, <1>10 DEF Pairs, Range
    <2>2. k \in P
        BY <1>1, <2>1 DEF P
    <2> QED BY <1>4, <1>6, <1>7, <2>1, <2>2
<1> QED BY <1>5, <1>7, <1>9, <1>10

\* What visit makes of the search before the first neighbour, and with one.
Enter(node, s) == [s EXCEPT !.visited = @ \cup {node}, !.stack = Append(@, node)]
See(dfs, node, s, n) ==
    IF Contains(s.stack, n)
    THEN [s EXCEPT !.back_edges = Append(@, [from |-> node, header |-> n])]
    ELSE IF n \in s.visited THEN s ELSE dfs[n][s]

LEMMA LoopOverNeighbours ==
    ASSUME NEW edges \in Seq(Edge), NEW dfs, NEW node, NEW search
    PROVE  LET out == Neighbours(edges, node)
           IN  \E g : /\ Visit(edges, dfs, node, search) = [g[Len(out)] EXCEPT !.stack = Front(@)]
                      /\ g[0] = Enter(node, search)
                      /\ \A k \in 1 .. Len(out) : g[k] = See(dfs, node, g[k - 1], out[k])
<1> DEFINE out == Neighbours(edges, node)
           N == Len(out)
           First == Enter(node, search)
           Next(s, k) == See(dfs, node, s, out[k])
           IsLoop(g, m) == g = [k \in 0 .. m |-> IF k = 0 THEN First ELSE Next(g[k - 1], k)]
           S == {m \in Nat : \E g : IsLoop(g, m)}
<1>0. /\ N \in Nat
      /\ Visit(edges, dfs, node, search) =
            LET after[k \in 0 .. N] == IF k = 0 THEN First ELSE Next(after[k - 1], k)
            IN  [after[N] EXCEPT !.stack = Front(@)]
    <2>1. N \in Nat
        BY NeighboursAre
    <2> QED BY <2>1 DEF Visit, Enter, See
<1> HIDE DEF First, Next, N
<1>1. 0 \in S
    <2> DEFINE g == [k \in 0 .. 0 |-> First]
    <2>1. g = [k \in 0 .. 0 |-> IF k = 0 THEN First ELSE Next(g[k - 1], k)]
        <3>1. \A k \in 0 .. 0 : k = 0
            OBVIOUS
        <3> QED BY <3>1
    <2>2. IsLoop(g, 0)
        BY <2>1
    <2> HIDE DEF IsLoop
    <2> QED BY <2>2
<1>2. ASSUME NEW m \in Nat, m \in S PROVE m + 1 \in S
    <2>1. PICK g : IsLoop(g, m)
        BY <1>2
    <2> DEFINE h == [k \in 0 .. m + 1 |-> IF k = m + 1 THEN Next(g[m], k) ELSE g[k]]
    <2>2. ASSUME NEW k \in 0 .. m + 1
          PROVE  h[k] = IF k = 0 THEN First ELSE Next(h[k - 1], k)
        <3>1. CASE k = m + 1
            <4>1. k - 1 = m /\ k # 0 /\ m \in 0 .. m + 1 /\ m # m + 1
                BY <3>1
            <4>2. h[m] = g[m]
                BY <4>1
            <4> QED BY <3>1, <4>1, <4>2
        <3>2. CASE k # m + 1
            <4>1. k \in 0 .. m
                BY <3>2
            <4>2. h[k] = g[k]
                BY <3>2
            <4>3. g[k] = IF k = 0 THEN First ELSE Next(g[k - 1], k)
                BY <2>1, <4>1
            <4>4. k # 0 => k - 1 \in 0 .. m + 1 /\ k - 1 # m + 1
                BY <4>1
            <4>5. k # 0 => h[k - 1] = g[k - 1]
                BY <4>4
            <4> QED BY <4>2, <4>3, <4>5
        <3> QED BY <3>1, <3>2
    <2>3. h = [k \in 0 .. m + 1 |-> h[k]]
        OBVIOUS
    <2>4. IsLoop(h, m + 1)
        <3> HIDE DEF h
        <3> QED BY <2>2, <2>3
    <2> HIDE DEF IsLoop
    <2> QED BY <2>4
<1>3. N \in S
    <2> HIDE DEF S
    <2> QED BY <1>0, <1>1, <1>2, EveryNumber
<1> DEFINE g == CHOOSE f : IsLoop(f, N)
<1>4. IsLoop(g, N)
    <2>1. \E f : IsLoop(f, N)
        BY <1>3
    <2> HIDE DEF IsLoop
    <2> QED BY <2>1
<1>5. g[0] = First /\ \A k \in 1 .. N : g[k] = Next(g[k - 1], k)
    <2>1. 0 \in 0 .. N /\ \A k \in 1 .. N : k \in 0 .. N /\ k # 0
        BY <1>0
    <2> HIDE DEF g
    <2> QED BY <1>4, <2>1
<1>6. Visit(edges, dfs, node, search) = [g[N] EXCEPT !.stack = Front(@)]
    BY <1>0
<1> HIDE DEF g
<1> QED BY <1>5, <1>6 DEF First, Next, N

-----------------------------------------------------------------------------
(* The search: there is a function that dfs is. *)
\* How many nodes may still be found inside of a call.
Left(edges, n, s) == Cardinality(Ends(edges) \ (s.visited \cup {n}))

\* What every call leaves as it was.
Keeps(n, s, r) == r \in Search /\ r.stack = s.stack /\ s.visited \cup {n} \subseteq r.visited

KeepsBelow(edges, dfs, b) ==
    \A m \in Nat, t \in Search : Left(edges, m, t) < b => Keeps(m, t, dfs[m][t])

\* The calls that the call for n makes.
LEMMA DeeperCalls ==
    ASSUME NEW edges \in Seq(Edge), NEW n \in Nat, NEW s \in Search, NEW t \in Search,
           s.visited \cup {n} \subseteq t.visited, NEW m \in Ends(edges), m \notin t.visited
    PROVE  Left(edges, m, t) < Left(edges, n, s)
<1> DEFINE A == Ends(edges) \ (t.visited \cup {m})
           B == Ends(edges) \ (s.visited \cup {n})
<1>1. A \subseteq B /\ m \in B /\ m \notin A /\ B \in SUBSET Ends(edges) /\ A \in SUBSET Ends(edges)
    OBVIOUS
<1> HIDE DEF A, B
<1>2. IsFiniteSet(B) /\ Cardinality(A) \in Nat /\ Cardinality(B) \in Nat
    BY <1>1, EndsAreFinite
<1>3. Cardinality(A) <= Cardinality(B) /\ Cardinality(A) # Cardinality(B)
    BY <1>1, <1>2, FS_Subset
<1>4. Cardinality(A) < Cardinality(B)
    BY <1>2, <1>3
<1> QED BY <1>4 DEF Left, A, B

LEMMA EnterIs ==
    ASSUME NEW n \in Nat, NEW s \in Search
    PROVE  LET t == Enter(n, s)
           IN  /\ t \in Search /\ t.stack = Append(s.stack, n)
               /\ t.visited = s.visited \cup {n} /\ t.back_edges = s.back_edges
<1> DEFINE v == s.visited \cup {n}
           q == Append(s.stack, n)
           t == [s EXCEPT !.visited = v, !.stack = q]
<1>1. Enter(n, s) = t
    BY DEF Enter
<1>2. v \in SUBSET Nat /\ q \in Seq(Nat)
    BY DEF Search
<1> HIDE DEF v, q
<1>3. t \in Search
    BY <1>2 DEF Search
<1>4. t.visited = v /\ t.stack = q /\ t.back_edges = s.back_edges
    BY DEF Search
<1> HIDE DEF t
<1> QED BY <1>1, <1>3, <1>4 DEF v, q

\* What a neighbour on the path adds.
Close(n, s, v) ==
    [s EXCEPT !.back_edges = Append(@, [from |-> n, header |-> v])]

LEMMA CloseIs ==
    ASSUME NEW n \in Nat, NEW s \in Search, NEW v \in Nat
    PROVE  LET t == Close(n, s, v)
           IN  /\ t \in Search /\ t.stack = s.stack /\ t.visited = s.visited
               /\ t.back_edges = Append(s.back_edges, [from |-> n, header |-> v])
<1> DEFINE b == Append(s.back_edges, [from |-> n, header |-> v])
           t == [s EXCEPT !.back_edges = b]
<1>1. Close(n, s, v) = t
    BY DEF Close
<1>2. b \in Seq([from : Nat, header : Nat])
    BY DEF Search
<1> HIDE DEF b
<1>3. t \in Search
    BY <1>2 DEF Search
<1>4. t.visited = s.visited /\ t.stack = s.stack /\ t.back_edges = b
    BY DEF Search
<1> HIDE DEF t
<1> QED BY <1>1, <1>3, <1>4 DEF b

LEMMA LeaveIs ==
    ASSUME NEW n \in Nat, NEW s \in Search, NEW t \in Search, t.stack = Append(s.stack, n)
    PROVE  LET r == [t EXCEPT !.stack = Front(@)]
           IN  /\ r \in Search /\ r.stack = s.stack /\ r.visited = t.visited
               /\ r.back_edges = t.back_edges
<1> DEFINE q == s.stack
           r == [t EXCEPT !.stack = q]
<1>1. q \in Seq(Nat)
    BY DEF Search
<1>2. Front(t.stack) = q
    <2> HIDE DEF q
    <2> QED BY <1>1 DEF Front, q
<1> HIDE DEF q
<1>3. r \in Search
    BY <1>1 DEF Search
<1>4. r.visited = t.visited /\ r.stack = q /\ r.back_edges = t.back_edges
    BY DEF Search
<1>5. [t EXCEPT !.stack = Front(@)] = r
    BY <1>2
<1> HIDE DEF r
<1> QED BY <1>3, <1>4, <1>5 DEF q

LEMMA StepsKeep ==
    ASSUME NEW edges \in Seq(Edge), NEW dfs, NEW n \in Nat, NEW s \in Search, NEW g,
           KeepsBelow(edges, dfs, Left(edges, n, s)),
           g[0] = Enter(n, s),
           \A k \in 1 .. Len(Neighbours(edges, n)) :
              g[k] = See(dfs, n, g[k - 1], Neighbours(edges, n)[k])
    PROVE  LET out == Neighbours(edges, n)
           IN  /\ \A k \in 0 .. Len(out) : Keeps(n, Enter(n, s), g[k])
               /\ \A k \in 1 .. Len(out) :
                     /\ out[k] \notin g[k - 1].visited =>
                           Left(edges, out[k], g[k - 1]) < Left(edges, n, s)
                     /\ Keeps(n, g[k - 1], g[k])
<1> DEFINE out == Neighbours(edges, n)
           first == Enter(n, s)
           S == {k \in Nat : k <= Len(out) => Keeps(n, first, g[k])}
<1>1. /\ Len(out) \in Nat
      /\ \A k \in 1 .. Len(out) : out[k] \in Nat /\ out[k] \in Ends(edges)
    <2>1. out \in Seq(Nat) /\ \A k \in 1 .. Len(out) : out[k] \in Ends(edges)
        BY NeighboursAre
    <2> HIDE DEF out
    <2> QED BY <2>1
<1>2. /\ first \in Search /\ first.stack = Append(s.stack, n)
      /\ first.visited = s.visited \cup {n}
    BY EnterIs
<1> HIDE DEF out, first
<1>3. ASSUME NEW k \in 1 .. Len(out), Keeps(n, first, g[k - 1])
      PROVE  /\ out[k] \notin g[k - 1].visited =>
                    Left(edges, out[k], g[k - 1]) < Left(edges, n, s)
             /\ Keeps(n, g[k - 1], g[k])
    <2> DEFINE t == g[k - 1]
               v == out[k]
    <2>1. g[k] = See(dfs, n, t, v)
        BY DEF out
    <2>2. /\ t \in Search /\ t.stack = first.stack
          /\ s.visited \cup {n} \subseteq t.visited
          /\ v \in Nat /\ v \in Ends(edges)
        BY <1>1, <1>2, <1>3 DEF Keeps
    <2> HIDE DEF t, v
    <2>3. v \notin t.visited => Left(edges, v, t) < Left(edges, n, s)
        BY <2>2, DeeperCalls
    <2>4. Keeps(n, t, g[k])
        <3>1. CASE Contains(t.stack, v)
            <4>1. g[k] = Close(n, t, v)
                BY <2>1, <3>1 DEF See, Close
            <4>2. /\ Close(n, t, v) \in Search /\ Close(n, t, v).stack = t.stack
                  /\ Close(n, t, v).visited = t.visited
                BY ONLY <2>2, n \in Nat, CloseIs
            <4> QED BY <2>2, <4>1, <4>2 DEF Keeps
        <3>2. CASE ~Contains(t.stack, v) /\ v \in t.visited
            <4>1. g[k] = t
                BY <2>1, <3>2 DEF See
            <4> QED BY <2>2, <4>1 DEF Keeps
        <3>3. CASE ~Contains(t.stack, v) /\ v \notin t.visited
            <4>1. g[k] = dfs[v][t]
                BY <2>1, <3>3 DEF See
            <4>2. Keeps(v, t, dfs[v][t])
                BY <2>2, <2>3, <3>3 DEF KeepsBelow
            <4> QED BY <2>2, <4>1, <4>2 DEF Keeps
        <3> QED BY <3>1, <3>2, <3>3
    <2> QED BY <2>3, <2>4 DEF t, v
<1>4. 0 \in S
    BY <1>2 DEF Keeps, first
<1>5. ASSUME NEW k \in Nat, k \in S PROVE k + 1 \in S
    <2> SUFFICES ASSUME k + 1 <= Len(out) PROVE Keeps(n, first, g[k + 1])
        OBVIOUS
    <2>1. k + 1 \in 1 .. Len(out) /\ (k + 1) - 1 = k /\ Keeps(n, first, g[k])
        BY <1>1, <1>5
    <2>2. Keeps(n, g[k], g[k + 1])
        BY <1>3, <2>1
    <2> QED BY <2>1, <2>2 DEF Keeps
<1>6. \A k \in Nat : k \in S
    <2> HIDE DEF S
    <2> QED BY <1>4, <1>5, EveryNumber
<1>7. \A k \in 0 .. Len(out) : Keeps(n, first, g[k])
    BY <1>1, <1>6
<1>8. \A k \in 1 .. Len(out) : k - 1 \in 0 .. Len(out)
    BY <1>1
<1> QED BY <1>3, <1>7, <1>8 DEF out, first

LEMMA VisitKeeps ==
    ASSUME NEW edges \in Seq(Edge), NEW dfs, NEW n \in Nat, NEW s \in Search,
           KeepsBelow(edges, dfs, Left(edges, n, s))
    PROVE  Keeps(n, s, Visit(edges, dfs, n, s))
<1> DEFINE out == Neighbours(edges, n)
<1>1. PICK g : /\ Visit(edges, dfs, n, s) = [g[Len(out)] EXCEPT !.stack = Front(@)]
               /\ g[0] = Enter(n, s)
               /\ \A k \in 1 .. Len(out) : g[k] = See(dfs, n, g[k - 1], out[k])
    BY LoopOverNeighbours
<1>2. Len(out) \in 0 .. Len(out)
    BY NeighboursAre
<1>3. Keeps(n, Enter(n, s), g[Len(out)])
    BY <1>1, <1>2, StepsKeep
<1> DEFINE t == g[Len(out)]
           r == [t EXCEPT !.stack = Front(@)]
<1>4. t \in Search /\ t.stack = Append(s.stack, n) /\ s.visited \cup {n} \subseteq t.visited
    <2> HIDE DEF t
    <2>1. /\ t \in Search /\ t.stack = Enter(n, s).stack
          /\ Enter(n, s).visited \subseteq t.visited
        BY <1>3 DEF Keeps, t
    <2> QED BY <2>1, EnterIs
<1> HIDE DEF t, out
<1>5. r \in Search /\ r.stack = s.stack /\ r.visited = t.visited
    BY <1>4, LeaveIs
<1>6. Visit(edges, dfs, n, s) = r
    BY <1>1 DEF t
<1> HIDE DEF r
<1> QED BY <1>4, <1>5, <1>6 DEF Keeps

\* A call is the same for two functions that are the same in deeper calls.
LEMMA VisitAgrees ==
    ASSUME NEW edges \in Seq(Edge), NEW f, NEW h, NEW n \in Nat, NEW s \in Search,
           KeepsBelow(edges, f, Left(edges, n, s)),
           \A m \in Nat, t \in Search : Left(edges, m, t) < Left(edges, n, s) => f[m][t] = h[m][t]
    PROVE  Visit(edges, f, n, s) = Visit(edges, h, n, s)
<1> DEFINE out == Neighbours(edges, n)
<1>1. PICK g : /\ Visit(edges, f, n, s) = [g[Len(out)] EXCEPT !.stack = Front(@)]
               /\ g[0] = Enter(n, s)
               /\ \A k \in 1 .. Len(out) : g[k] = See(f, n, g[k - 1], out[k])
    BY LoopOverNeighbours
<1>2. PICK e : /\ Visit(edges, h, n, s) = [e[Len(out)] EXCEPT !.stack = Front(@)]
               /\ e[0] = Enter(n, s)
               /\ \A k \in 1 .. Len(out) : e[k] = See(h, n, e[k - 1], out[k])
    BY LoopOverNeighbours
<1>3. Len(out) \in Nat /\ \A k \in 1 .. Len(out) : out[k] \in Nat
    <2>1. out \in Seq(Nat)
        BY NeighboursAre
    <2> HIDE DEF out
    <2> QED BY <2>1
<1>4. /\ \A k \in 0 .. Len(out) : Keeps(n, Enter(n, s), g[k])
      /\ \A k \in 1 .. Len(out) : out[k] \notin g[k - 1].visited =>
                                     Left(edges, out[k], g[k - 1]) < Left(edges, n, s)
    BY <1>1, StepsKeep
<1> HIDE DEF out
<1> DEFINE S == {k \in Nat : k <= Len(out) => g[k] = e[k]}
<1>5. 0 \in S
    BY <1>1, <1>2
<1>6. ASSUME NEW k \in Nat, k \in S PROVE k + 1 \in S
    <2> SUFFICES ASSUME k + 1 <= Len(out) PROVE g[k + 1] = e[k + 1]
        OBVIOUS
    <2>1. k + 1 \in 1 .. Len(out) /\ k \in 0 .. Len(out) /\ (k + 1) - 1 = k /\ g[k] = e[k]
        BY <1>3, <1>6
    <2>2. g[k + 1] = See(f, n, g[k], out[k + 1]) /\ e[k + 1] = See(h, n, g[k], out[k + 1])
        BY <1>1, <1>2, <2>1
    <2>3. g[k] \in Search /\ out[k + 1] \in Nat
        BY <1>3, <1>4, <2>1 DEF Keeps
    <2>4. out[k + 1] \notin g[k].visited => f[out[k + 1]][g[k]] = h[out[k + 1]][g[k]]
        BY <1>4, <2>1, <2>3
    <2> QED BY <2>2, <2>4 DEF See
<1>7. g[Len(out)] = e[Len(out)]
    <2>1. Len(out) \in S
        <3> HIDE DEF S
        <3> QED BY <1>3, <1>5, <1>6, EveryNumber
    <2> QED BY <1>3, <2>1
<1> QED BY <1>1, <1>2, <1>7

IsDfs(edges, f) == f = [n \in Nat |-> [s \in Search |-> Visit(edges, f, n, s)]]

LEMMA DfsExists ==
    ASSUME NEW edges \in Seq(Edge)
    PROVE  \E f : IsDfs(edges, f)
<1> DEFINE Good(f, b) ==
               /\ \A n \in Nat, s \in Search : Keeps(n, s, f[n][s])
               /\ \A n \in Nat, s \in Search :
                     Left(edges, n, s) < b => f[n][s] = Visit(edges, f, n, s)
           S == {b \in Nat : \E f : Good(f, b)}
<1>1. \A n \in Nat, s \in Search : Left(edges, n, s) \in Nat
    BY EndsAreFinite DEF Left
<1>2. 0 \in S
    <2> DEFINE f == [n \in Nat |-> [s \in Search |-> [s EXCEPT !.visited = @ \cup {n}]]]
    <2>1. ASSUME NEW n \in Nat, NEW s \in Search PROVE Keeps(n, s, f[n][s])
        <3> DEFINE v == s.visited \cup {n}
                   t == [s EXCEPT !.visited = v]
        <3>1. f[n][s] = t
            OBVIOUS
        <3>2. v \in SUBSET Nat
            BY DEF Search
        <3> HIDE DEF v
        <3>3. t \in Search /\ t.visited = v /\ t.stack = s.stack
            BY <3>2 DEF Search
        <3> HIDE DEF f, t
        <3> QED BY <3>1, <3>3 DEF Keeps, v
    <2>2. \A n \in Nat, s \in Search : ~(Left(edges, n, s) < 0)
        BY <1>1
    <2> HIDE DEF f
    <2>3. Good(f, 0)
        BY <2>1, <2>2
    <2> QED BY <2>3
<1>3. ASSUME NEW b \in Nat, b \in S PROVE b + 1 \in S
    <2>1. PICK f : Good(f, b)
        BY <1>3
    <2> DEFINE h == [n \in Nat |-> [s \in Search |-> Visit(edges, f, n, s)]]
    <2>2. \A n \in Nat, s \in Search : h[n][s] = Visit(edges, f, n, s)
        OBVIOUS
    <2> HIDE DEF h
    <2>3. \A c : KeepsBelow(edges, f, c)
        BY <2>1 DEF KeepsBelow
    <2>4. \A n \in Nat, s \in Search : Keeps(n, s, h[n][s])
        BY <2>2, <2>3, VisitKeeps
    <2>5. ASSUME NEW n \in Nat, NEW s \in Search, Left(edges, n, s) < b + 1
          PROVE  h[n][s] = Visit(edges, h, n, s)
        <3>1. ASSUME NEW m \in Nat, NEW t \in Search, Left(edges, m, t) < Left(edges, n, s)
              PROVE  f[m][t] = h[m][t]
            <4>1. Left(edges, m, t) \in Nat /\ Left(edges, n, s) \in Nat
                BY <1>1
            <4>2. Left(edges, m, t) < b
                BY <2>5, <3>1, <4>1
            <4> QED BY <2>1, <2>2, <4>2
        <3> DEFINE c == Left(edges, n, s)
        <3>2. KeepsBelow(edges, f, c) /\ \A m \in Nat, t \in Search :
                                            Left(edges, m, t) < c => f[m][t] = h[m][t]
            BY <2>3, <3>1
        <3> HIDE DEF Good, S
        <3>3. Visit(edges, f, n, s) = Visit(edges, h, n, s)
            BY <3>2, VisitAgrees
        <3> QED BY <2>2, <3>3
    <2>6. Good(h, b + 1)
        BY <2>4, <2>5
    <2> QED BY <2>6
<1>4. PICK f : Good(f, Cardinality(Ends(edges)) + 1)
    <2>1. Cardinality(Ends(edges)) + 1 \in Nat
        BY EndsAreFinite
    <2>2. Cardinality(Ends(edges)) + 1 \in S
        <3> HIDE DEF S
        <3> QED BY <1>2, <1>3, <2>1, EveryNumber
    <2> QED BY <2>2
<1>5. \A n \in Nat, s \in Search : f[n][s] = Visit(edges, f, n, s)
    <2>1. \A n \in Nat, s \in Search : Left(edges, n, s) < Cardinality(Ends(edges)) + 1
        <3> SUFFICES ASSUME NEW n \in Nat, NEW s \in Search
                     PROVE  Left(edges, n, s) < Cardinality(Ends(edges)) + 1
            OBVIOUS
        <3> DEFINE T == Ends(edges) \ (s.visited \cup {n})
        <3>1. T \in SUBSET Ends(edges)
            OBVIOUS
        <3> HIDE DEF T
        <3>2. Cardinality(T) <= Cardinality(Ends(edges)) /\ Cardinality(T) \in Nat
              /\ Cardinality(Ends(edges)) \in Nat
            BY <3>1, EndsAreFinite
        <3> QED BY <3>2 DEF Left, T
    <2> QED BY <1>4, <2>1
<1> DEFINE h == [n \in Nat |-> [s \in Search |-> Visit(edges, f, n, s)]]
<1>6. \A n \in Nat, s \in Search : h[n][s] = Visit(edges, f, n, s)
    OBVIOUS
<1>7. \A n \in Nat, s \in Search : Visit(edges, f, n, s) = Visit(edges, h, n, s)
    <2> HIDE DEF h
    <2>1. \A c : KeepsBelow(edges, f, c)
        BY <1>4 DEF KeepsBelow
    <2>2. \A n \in Nat, s \in Search : f[n][s] = h[n][s]
        BY <1>5, <1>6
    <2> QED BY <2>1, <2>2, VisitAgrees
<1>8. h = [n \in Nat |-> [s \in Search |-> Visit(edges, h, n, s)]]
    BY <1>7
<1>9. IsDfs(edges, h)
    BY <1>8 DEF IsDfs
<1> QED BY <1>9

LEMMA DfsIs ==
    ASSUME NEW edges \in Seq(Edge)
    PROVE  \E f : /\ \A n \in Nat, s \in Search : Dfs(edges, n, s) = f[n][s]
                  /\ \A n \in Nat, s \in Search : f[n][s] = Visit(edges, f, n, s)
                  /\ \A n \in Nat, s \in Search : Keeps(n, s, f[n][s])
<1> DEFINE f == CHOOSE h : IsDfs(edges, h)
<1>1. f = CHOOSE h : h = [n \in Nat |-> [s \in Search |-> Visit(edges, h, n, s)]]
    BY DEF IsDfs
<1>2. \A n \in Nat, s \in Search : Dfs(edges, n, s) = f[n][s]
    BY <1>1 DEF Dfs
<1>3. IsDfs(edges, f)
    BY DfsExists
<1> HIDE DEF f
<1>4. \A n \in Nat, s \in Search : f[n][s] = Visit(edges, f, n, s)
    BY <1>3 DEF IsDfs
<1> DEFINE S == {b \in Nat : KeepsBelow(edges, f, b)}
<1>5. \A n \in Nat, s \in Search : Left(edges, n, s) \in Nat
    BY EndsAreFinite DEF Left
<1>6. 0 \in S
    BY <1>5 DEF KeepsBelow
<1>7. ASSUME NEW b \in Nat, b \in S PROVE b + 1 \in S
    <2>1. ASSUME NEW n \in Nat, NEW s \in Search, Left(edges, n, s) < b + 1
          PROVE  Keeps(n, s, f[n][s])
        <3>1. KeepsBelow(edges, f, Left(edges, n, s))
            <4>1. \A m \in Nat, t \in Search :
                     Left(edges, m, t) < Left(edges, n, s) => Left(edges, m, t) < b
                BY <1>5, <2>1
            <4> QED BY <1>7, <4>1 DEF KeepsBelow
        <3> QED BY <1>4, <3>1, VisitKeeps
    <2> QED BY <2>1 DEF KeepsBelow
<1>8. \A n \in Nat, s \in Search : Keeps(n, s, f[n][s])
    <2> SUFFICES ASSUME NEW n \in Nat, NEW s \in Search PROVE Keeps(n, s, f[n][s])
        OBVIOUS
    <2> DEFINE b == Left(edges, n, s) + 1
    <2>1. b \in Nat /\ Left(edges, n, s) < b
        BY <1>5
    <2>2. b \in S
        <3> HIDE DEF S, b
        <3> QED BY <1>6, <1>7, <2>1, EveryNumber
    <2> QED BY <2>1, <2>2 DEF KeepsBelow
<1> QED BY <1>2, <1>4, <1>8

-----------------------------------------------------------------------------
(* The search: what it finds. *)
OnPath(s)    == Range(s.stack)
Done(s)      == s.visited \ OnPath(s)
BackPairs(s) == {<<b.from, b.header>> : b \in Range(s.back_edges)}

\* Every set that has u and that no pair leaves has v.
Leads(edges, u, v) ==
    \A S : u \in S /\ (\A p \in Pairs(edges) : p[1] \in S => p[2] \in S) => v \in S

\* The path is one; a back edge closes a cycle; and of the nodes that are done
\* all other pairs lead to nodes that are done, without a cycle.
Sound(edges, s) ==
    /\ OnPath(s) \subseteq s.visited
    /\ \A k \in 1 .. Len(s.stack) - 1 : <<s.stack[k], s.stack[k + 1]>> \in Pairs(edges)
    /\ \A p \in BackPairs(s) : /\ p \in Pairs(edges) /\ Leads(edges, p[2], p[1])
                               /\ p[2] \in s.visited
    /\ \A u \in Done(s), v \in Nat :
          <<u, v>> \in Pairs(edges) => v \in Done(s) \/ <<u, v>> \in BackPairs(s)
    /\ Acyclic(Done(s), Pairs(edges) \ BackPairs(s))

\* dfs is called for a new node after the last of the path.
Enters(edges, n, s) ==
    /\ n \notin s.visited
    /\ s.stack # <<>> => <<s.stack[Len(s.stack)], n>> \in Pairs(edges)

LEMMA PushIs ==
    ASSUME NEW T, NEW q \in Seq(T), NEW n \in T
    PROVE  LET p == Append(q, n)
           IN  /\ p # <<>> /\ Len(p) = Len(q) + 1 /\ p[Len(p)] = n
               /\ \A k \in 1 .. Len(q) : p[k] = q[k]
               /\ Range(p) = Range(q) \cup {n}
<1> DEFINE p == Append(q, n)
<1>1. /\ p # <<>> /\ Len(p) = Len(q) + 1 /\ p[Len(p)] = n
      /\ DOMAIN p = 1 .. Len(q) + 1 /\ DOMAIN q = 1 .. Len(q) /\ Len(q) \in Nat
      /\ \A k \in 1 .. Len(q) : p[k] = q[k]
    OBVIOUS
<1> HIDE DEF p
<1>2. 1 .. Len(q) + 1 = (1 .. Len(q)) \cup {Len(q) + 1}
    BY <1>1
<1>3. Range(p) = Range(q) \cup {n}
    BY <1>1, <1>2 DEF Range
<1> QED BY <1>1, <1>3 DEF p

LEMMA PushNode ==
    ASSUME NEW q \in Seq(Nat), NEW n \in Nat, NEW p, p = Append(q, n)
    PROVE  /\ p # <<>> /\ Len(p) = Len(q) + 1 /\ p[Len(p)] = n
           /\ \A k \in 1 .. Len(q) : p[k] = q[k]
           /\ Range(p) = Range(q) \cup {n}
BY ONLY q \in Seq(Nat), n \in Nat, p = Append(q, n), PushIs

LEMMA PathLeads ==
    ASSUME NEW edges, NEW q \in Seq(Nat),
           \A k \in 1 .. Len(q) - 1 : <<q[k], q[k + 1]>> \in Pairs(edges),
           NEW i \in 1 .. Len(q)
    PROVE  Leads(edges, q[i], q[Len(q)])
<1> SUFFICES ASSUME NEW S, q[i] \in S, \A p \in Pairs(edges) : p[1] \in S => p[2] \in S
             PROVE  q[Len(q)] \in S
    BY DEF Leads
<1>1. Len(q) \in Nat
    OBVIOUS
<1> DEFINE N == {k \in Nat : i + k <= Len(q) => q[i + k] \in S}
<1>2. 0 \in N
    BY <1>1
<1>3. ASSUME NEW k \in Nat, k \in N PROVE k + 1 \in N
    <2> SUFFICES ASSUME i + (k + 1) <= Len(q) PROVE q[i + (k + 1)] \in S
        OBVIOUS
    <2>1. i + k \in 1 .. Len(q) - 1 /\ (i + k) + 1 = i + (k + 1) /\ q[i + k] \in S
        BY <1>1, <1>3
    <2>2. <<q[i + k], q[i + (k + 1)]>> \in Pairs(edges)
        BY <2>1
    <2> QED BY <2>1, <2>2
<1>4. Len(q) - i \in N
    <2>1. Len(q) - i \in Nat
        BY <1>1
    <2> HIDE DEF N
    <2> QED BY <1>2, <1>3, <2>1, EveryNumber
<1>5. i + (Len(q) - i) = Len(q)
    BY <1>1
<1> QED BY <1>1, <1>4, <1>5

\* Fewer pairs make no cycle.
LEMMA AcyclicOfFewer ==
    ASSUME NEW nodes, NEW P, NEW Q, Q \subseteq P, Acyclic(nodes, P)
    PROVE  Acyclic(nodes, Q)
BY DEF Acyclic

\* A node to which no other leads makes none either.
LEMMA AcyclicWithSource ==
    ASSUME NEW nodes, NEW P, NEW n, Acyclic(nodes, P),
           \A m \in nodes \cup {n} : <<m, n>> \notin P
    PROVE  Acyclic(nodes \cup {n}, P)
<1> SUFFICES ASSUME NEW S \in SUBSET (nodes \cup {n}), S # {}
             PROVE  \E x \in S : \A m \in S : <<m, x>> \notin P
    BY DEF Acyclic
<1>1. CASE n \in S
    BY <1>1
<1>2. CASE n \notin S
    <2>1. S \in SUBSET nodes
        BY <1>2
    <2> QED BY <2>1 DEF Acyclic
<1> QED BY <1>1, <1>2

LEMMA EnterSound ==
    ASSUME NEW edges \in Seq(Edge), NEW n \in Nat, NEW s \in Search,
           Sound(edges, s), Enters(edges, n, s)
    PROVE  Sound(edges, Enter(n, s))
<1> DEFINE t == Enter(n, s)
<1>1. /\ t \in Search /\ t.stack = Append(s.stack, n)
      /\ t.visited = s.visited \cup {n} /\ t.back_edges = s.back_edges
    BY EnterIs
<1> HIDE DEF t
<1>2. s.stack \in Seq(Nat)
    BY DEF Search
<1>3. /\ Len(t.stack) = Len(s.stack) + 1 /\ t.stack[Len(t.stack)] = n
      /\ \A k \in 1 .. Len(s.stack) : t.stack[k] = s.stack[k]
      /\ OnPath(t) = OnPath(s) \cup {n}
    <2> DEFINE p == t.stack
               q1 == s.stack
    <2>1. q1 \in Seq(Nat) /\ n \in Nat /\ p = Append(q1, n)
        BY <1>1, <1>2
    <2> HIDE DEF p, q1
    <2>2. /\ Len(p) = Len(q1) + 1 /\ p[Len(p)] = n /\ Len(q1) \in Nat
          /\ \A k \in 1 .. Len(q1) : p[k] = q1[k]
        BY ONLY <2>1
    <2>3. Range(p) = Range(q1) \cup {n}
        BY ONLY <2>1, PushNode
    <2> QED BY <2>2, <2>3 DEF p, q1, OnPath
<1>4. Done(t) = Done(s) /\ BackPairs(t) = BackPairs(s)
    BY <1>1, <1>3 DEF Done, BackPairs, Enters
<1>5. ASSUME NEW k \in 1 .. Len(t.stack) - 1
      PROVE  <<t.stack[k], t.stack[k + 1]>> \in Pairs(edges)
    <2>1. Len(s.stack) \in Nat
        BY <1>2
    <2>2. CASE k = Len(s.stack)
        <3>1. s.stack # <<>> /\ k \in 1 .. Len(s.stack) /\ k + 1 = Len(t.stack)
            BY <1>2, <1>3, <2>1, <2>2
        <3> QED BY <1>3, <2>2, <3>1 DEF Enters
    <2>3. CASE k # Len(s.stack)
        <3>1. k \in 1 .. Len(s.stack) - 1 /\ k \in 1 .. Len(s.stack) /\ k + 1 \in 1 .. Len(s.stack)
            BY <1>3, <2>1, <2>3
        <3> QED BY <1>3, <3>1 DEF Sound
    <2> QED BY <2>2, <2>3
<1>6. OnPath(t) \subseteq t.visited
    BY <1>1, <1>3 DEF Sound
<1>7. \A p \in BackPairs(t) : /\ p \in Pairs(edges) /\ Leads(edges, p[2], p[1])
                              /\ p[2] \in t.visited
    BY <1>1, <1>4 DEF Sound
<1> QED BY <1>4, <1>5, <1>6, <1>7 DEF Sound, t

LEMMA CloseSound ==
    ASSUME NEW edges \in Seq(Edge), NEW n \in Nat, NEW s \in Search, NEW v \in OnPath(s),
           Sound(edges, s), s.stack[Len(s.stack)] = n, <<n, v>> \in Pairs(edges)
    PROVE  /\ Sound(edges, Close(n, s, v))
           /\ BackPairs(Close(n, s, v)) = BackPairs(s) \cup {<<n, v>>}
<1> DEFINE t == Close(n, s, v)
<1>1. s.stack \in Seq(Nat) /\ s.back_edges \in Seq([from : Nat, header : Nat]) /\ v \in Nat
    <2>1. s.stack \in Seq(Nat) /\ s.back_edges \in Seq([from : Nat, header : Nat])
        BY DEF Search
    <2> QED BY <2>1 DEF OnPath, Range
<1>2. /\ t \in Search /\ t.stack = s.stack /\ t.visited = s.visited
      /\ t.back_edges = Append(s.back_edges, [from |-> n, header |-> v])
    BY <1>1, CloseIs
<1> HIDE DEF t
<1>3. Range(t.back_edges) = Range(s.back_edges) \cup {[from |-> n, header |-> v]}
    <2> DEFINE b == [from |-> n, header |-> v]
    <2>1. b \in [from : Nat, header : Nat]
        BY <1>1
    <2> DEFINE T == [from : Nat, header : Nat]
               q == s.back_edges
    <2>2. b \in T /\ q \in Seq(T)
        BY <1>1, <2>1
    <2> HIDE DEF b, T, q
    <2>3. Range(Append(q, b)) = Range(q) \cup {b}
        BY ONLY <2>2, PushIs
    <2> QED BY <1>2, <2>3 DEF b, q
<1>4. BackPairs(t) = BackPairs(s) \cup {<<n, v>>}
    <2> DEFINE b == [from |-> n, header |-> v]
    <2>1. b.from = n /\ b.header = v /\ Range(t.back_edges) = Range(s.back_edges) \cup {b}
        BY <1>3
    <2> HIDE DEF b
    <2>2. BackPairs(t) = BackPairs(s) \cup {<<b.from, b.header>>}
        BY <2>1 DEF BackPairs
    <2> QED BY <2>1, <2>2
<1>5. OnPath(t) = OnPath(s) /\ Done(t) = Done(s)
    BY <1>2 DEF OnPath, Done
<1>6. Leads(edges, v, n)
    <2>1. PICK i \in 1 .. Len(s.stack) : v = s.stack[i]
        BY <1>1 DEF OnPath, Range
    <2>2. \A k \in 1 .. Len(s.stack) - 1 : <<s.stack[k], s.stack[k + 1]>> \in Pairs(edges)
        BY DEF Sound
    <2> QED BY <1>1, <2>1, <2>2, PathLeads
<1>7. \A p \in BackPairs(t) : /\ p \in Pairs(edges) /\ Leads(edges, p[2], p[1])
                              /\ p[2] \in t.visited
    <2>1. ASSUME NEW p \in BackPairs(t), p \in BackPairs(s)
          PROVE  p \in Pairs(edges) /\ Leads(edges, p[2], p[1]) /\ p[2] \in t.visited
        BY <1>2, <2>1 DEF Sound
    <2>2. ASSUME NEW p \in BackPairs(t), p = <<n, v>>
          PROVE  p \in Pairs(edges) /\ Leads(edges, p[2], p[1]) /\ p[2] \in t.visited
        <3>1. p[1] = n /\ p[2] = v /\ v \in s.visited
            BY <2>2 DEF Sound
        <3> QED BY <1>2, <1>6, <2>2, <3>1
    <2> QED BY <1>4, <2>1, <2>2
<1>8. Acyclic(Done(t), Pairs(edges) \ BackPairs(t))
    <2>1. Acyclic(Done(s), Pairs(edges) \ BackPairs(s))
        BY DEF Sound
    <2>2. Pairs(edges) \ BackPairs(t) \subseteq Pairs(edges) \ BackPairs(s)
        BY <1>4
    <2> QED BY <1>5, <2>1, <2>2, AcyclicOfFewer
<1>9. \A x \in Done(t), y \in Nat :
         <<x, y>> \in Pairs(edges) => y \in Done(t) \/ <<x, y>> \in BackPairs(t)
    BY <1>4, <1>5 DEF Sound
<1>10. /\ OnPath(t) \subseteq t.visited
       /\ \A k \in 1 .. Len(t.stack) - 1 : <<t.stack[k], t.stack[k + 1]>> \in Pairs(edges)
    BY <1>2, <1>5 DEF Sound
<1>11. Sound(edges, t)
    BY <1>7, <1>8, <1>9, <1>10 DEF Sound
<1> QED BY <1>4, <1>11 DEF t

\* The last of the path is done when all pairs from it have been seen to.
LEMMA LeaveSound ==
    ASSUME NEW edges \in Seq(Edge), NEW n \in Nat, NEW s \in Search, NEW t \in Search,
           NEW r \in Search, t.stack = Append(s.stack, n), r.stack = s.stack,
           r.visited = t.visited, r.back_edges = t.back_edges,
           n \notin OnPath(s), Sound(edges, t),
           \A v \in Nat : <<n, v>> \in Pairs(edges) =>
                             v \in Done(t) \/ <<n, v>> \in BackPairs(t)
    PROVE  Sound(edges, r)
<1>1. s.stack \in Seq(Nat)
    BY DEF Search
<1>2. /\ Len(t.stack) = Len(s.stack) + 1 /\ Len(s.stack) \in Nat
      /\ \A k \in 1 .. Len(s.stack) : t.stack[k] = s.stack[k]
      /\ OnPath(t) = OnPath(s) \cup {n}
    <2> DEFINE p == t.stack
               q1 == s.stack
    <2>1. q1 \in Seq(Nat) /\ n \in Nat /\ p = Append(q1, n)
        BY <1>1
    <2> HIDE DEF p, q1
    <2>2. /\ Len(p) = Len(q1) + 1 /\ p[Len(p)] = n /\ Len(q1) \in Nat
          /\ \A k \in 1 .. Len(q1) : p[k] = q1[k]
        BY ONLY <2>1
    <2>3. Range(p) = Range(q1) \cup {n}
        BY ONLY <2>1, PushNode
    <2> QED BY <2>2, <2>3 DEF p, q1, OnPath
<1>3. OnPath(r) = OnPath(s) /\ BackPairs(r) = BackPairs(t) /\ n \in t.visited
    BY <1>2 DEF OnPath, BackPairs, Sound
<1>4. Done(r) = Done(t) \cup {n} /\ n \notin Done(t)
    BY <1>2, <1>3 DEF Done
<1>5. \A k \in 1 .. Len(r.stack) - 1 : <<r.stack[k], r.stack[k + 1]>> \in Pairs(edges)
    <2> SUFFICES ASSUME NEW k \in 1 .. Len(s.stack) - 1
                 PROVE  <<s.stack[k], s.stack[k + 1]>> \in Pairs(edges)
        OBVIOUS
    <2>1. k \in 1 .. Len(s.stack) /\ k + 1 \in 1 .. Len(s.stack) /\ k \in 1 .. Len(t.stack) - 1
        BY <1>2
    <2> QED BY <1>2, <2>1 DEF Sound
<1>6. Acyclic(Done(r), Pairs(edges) \ BackPairs(r))
    <2> DEFINE P == Pairs(edges) \ BackPairs(t)
    <2>1. Acyclic(Done(t), P)
        BY DEF Sound
    <2>2. \A m \in Done(t) \cup {n} : <<m, n>> \notin P
        <3>1. \A m \in Done(t) : <<m, n>> \notin P
            BY <1>4 DEF Sound
        <3>2. <<n, n>> \notin P
            BY <1>4
        <3> QED BY <3>1, <3>2
    <2> HIDE DEF P
    <2>3. Acyclic(Done(t) \cup {n}, P)
        BY <2>1, <2>2, AcyclicWithSource
    <2> QED BY <1>3, <1>4, <2>3 DEF P
<1>7. \A x \in Done(r), y \in Nat :
         <<x, y>> \in Pairs(edges) => y \in Done(r) \/ <<x, y>> \in BackPairs(r)
    BY <1>3, <1>4 DEF Sound
<1>8. OnPath(r) \subseteq r.visited
    BY <1>2, <1>3 DEF Sound
<1>9. \A p \in BackPairs(r) : /\ p \in Pairs(edges) /\ Leads(edges, p[2], p[1])
                              /\ p[2] \in r.visited
    BY <1>3 DEF Sound
<1> QED BY <1>5, <1>6, <1>7, <1>8, <1>9 DEF Sound

\* Of a pair from n to v: v is done, or the pair is a back edge.
Seen(n, v, s) == v \in Done(s) \/ <<n, v>> \in BackPairs(s)

Finds(edges, n, s, r) ==
    Sound(edges, s) /\ Enters(edges, n, s) =>
        Sound(edges, r) /\ BackPairs(s) \subseteq BackPairs(r)

LEMMA StepSound ==
    ASSUME NEW edges \in Seq(Edge), NEW dfs, NEW n \in Nat, NEW t \in Search, NEW v \in Nat,
           NEW q \in Seq(Nat), t.stack = Append(q, n), Sound(edges, t),
           <<n, v>> \in Pairs(edges),
           v \notin t.visited => Keeps(v, t, dfs[v][t]) /\ Finds(edges, v, t, dfs[v][t])
    PROVE  LET r == See(dfs, n, t, v)
           IN  Sound(edges, r) /\ BackPairs(t) \subseteq BackPairs(r) /\ Seen(n, v, r)
<1>1. t.stack \in Seq(Nat) /\ t.stack # <<>> /\ t.stack[Len(t.stack)] = n
    <2>1. t.stack \in Seq(Nat)
        BY DEF Search
    <2> DEFINE p == t.stack
    <2>2. q \in Seq(Nat) /\ n \in Nat /\ p = Append(q, n)
        OBVIOUS
    <2> HIDE DEF p
    <2>3. p # <<>> /\ p[Len(p)] = n
        BY ONLY <2>2, PushNode
    <2> QED BY <2>1, <2>3 DEF p
<1>2. Contains(t.stack, v) <=> v \in OnPath(t)
    <2> DEFINE q1 == t.stack
    <2>1. q1 \in Seq(Nat)
        BY <1>1
    <2> HIDE DEF q1
    <2>2. Contains(q1, v) <=> v \in Range(q1)
        BY <2>1 DEF Contains, Range
    <2> QED BY <2>2 DEF q1, OnPath
<1> DEFINE r == See(dfs, n, t, v)
<1> DEFINE Goal == Sound(edges, r) /\ BackPairs(t) \subseteq BackPairs(r) /\ Seen(n, v, r)
<1>3. ASSUME v \in OnPath(t) PROVE Goal
    <2>1. r = Close(n, t, v)
        BY <1>2, <1>3 DEF See, Close
    <2>2. Sound(edges, Close(n, t, v))
        BY <1>1, <1>3, CloseSound
    <2>3. BackPairs(Close(n, t, v)) = BackPairs(t) \cup {<<n, v>>}
        BY <1>1, <1>3, CloseSound
    <2> HIDE DEF r
    <2> QED BY <2>1, <2>2, <2>3 DEF Seen
<1>4. ASSUME v \notin OnPath(t), v \in t.visited PROVE Goal
    <2>1. r = t
        BY <1>2, <1>4 DEF See
    <2> HIDE DEF r
    <2> QED BY <1>4, <2>1 DEF Seen, Done
<1>5. ASSUME v \notin OnPath(t), v \notin t.visited PROVE Goal
    <2>1. r = dfs[v][t]
        BY <1>2, <1>5 DEF See
    <2>2. Enters(edges, v, t)
        BY <1>1, <1>5 DEF Enters
    <2> HIDE DEF r
    <2>3. Keeps(v, t, r) /\ Finds(edges, v, t, r)
        BY <1>5, <2>1
    <2>4. v \in Done(r)
        BY <1>5, <2>3 DEF Keeps, Done, OnPath
    <2> QED BY <2>2, <2>3, <2>4 DEF Finds, Seen
<1> QED BY <1>3, <1>4, <1>5

LEMMA VisitSound ==
    ASSUME NEW edges \in Seq(Edge), NEW dfs, NEW n \in Nat, NEW s \in Search,
           KeepsBelow(edges, dfs, Left(edges, n, s)),
           \A m \in Nat, t \in Search :
              Left(edges, m, t) < Left(edges, n, s) => Finds(edges, m, t, dfs[m][t]),
           Sound(edges, s), Enters(edges, n, s)
    PROVE  LET r == Visit(edges, dfs, n, s)
           IN  Sound(edges, r) /\ BackPairs(s) \subseteq BackPairs(r)
<1> DEFINE out == Neighbours(edges, n)
           first == Enter(n, s)
<1>1. PICK g : /\ Visit(edges, dfs, n, s) = [g[Len(out)] EXCEPT !.stack = Front(@)]
               /\ g[0] = first
               /\ \A k \in 1 .. Len(out) : g[k] = See(dfs, n, g[k - 1], out[k])
    BY LoopOverNeighbours
<1>2. /\ Len(out) \in Nat
      /\ \A k \in 1 .. Len(out) : out[k] \in Nat /\ <<n, out[k]>> \in Pairs(edges)
      /\ \A v : <<n, v>> \in Pairs(edges) => \E k \in 1 .. Len(out) : out[k] = v
    <2>1. /\ out \in Seq(Nat)
          /\ \A k \in 1 .. Len(out) : <<n, out[k]>> \in Pairs(edges)
          /\ \A v : <<n, v>> \in Pairs(edges) => \E k \in 1 .. Len(out) : out[k] = v
        BY NeighboursAre
    <2> HIDE DEF out
    <2> QED BY <2>1
<1>3. /\ \A k \in 0 .. Len(out) : Keeps(n, first, g[k])
      /\ \A k \in 1 .. Len(out) : /\ out[k] \notin g[k - 1].visited =>
                                        Left(edges, out[k], g[k - 1]) < Left(edges, n, s)
                                  /\ Keeps(n, g[k - 1], g[k])
    BY <1>1, StepsKeep
<1>4. /\ first \in Search /\ first.stack = Append(s.stack, n)
      /\ first.back_edges = s.back_edges /\ s.stack \in Seq(Nat)
    BY EnterIs DEF Search
<1>5. Sound(edges, first)
    BY EnterSound
<1> HIDE DEF out, first
<1> DEFINE At(k) == /\ Sound(edges, g[k]) /\ BackPairs(s) \subseteq BackPairs(g[k])
                    /\ \A j \in 1 .. k : Seen(n, out[j], g[k])
           S == {k \in Nat : k <= Len(out) => At(k)}
<1>6. 0 \in S
    <2>1. BackPairs(first) = BackPairs(s)
        BY <1>4 DEF BackPairs
    <2>2. 1 .. 0 = {}
        OBVIOUS
    <2>3. At(0)
        BY <1>1, <1>5, <2>1, <2>2
    <2> QED BY <2>3
<1>7. ASSUME NEW k \in Nat, k \in S PROVE k + 1 \in S
    <2> SUFFICES ASSUME k + 1 <= Len(out) PROVE At(k + 1)
        OBVIOUS
    <2> DEFINE t == g[k]
               v == out[k + 1]
               r == g[k + 1]
    <2>1. k + 1 \in 1 .. Len(out) /\ k \in 0 .. Len(out) /\ (k + 1) - 1 = k /\ At(k)
        BY <1>2, <1>7
    <2>2. /\ r = See(dfs, n, t, v) /\ Keeps(n, first, t) /\ Keeps(n, t, r)
          /\ v \notin t.visited => Left(edges, v, t) < Left(edges, n, s)
          /\ v \in Nat /\ <<n, v>> \in Pairs(edges)
        BY <1>1, <1>2, <1>3, <2>1
    <2>3. /\ Sound(edges, t) /\ BackPairs(s) \subseteq BackPairs(t)
          /\ \A j \in 1 .. k : Seen(n, out[j], t)
        BY <2>1
    <2>4. t \in Search /\ t.stack = Append(s.stack, n) /\ r.stack = t.stack
          /\ t.visited \subseteq r.visited
        BY <1>4, <2>2 DEF Keeps
    <2> HIDE DEF t, v, r
    <2>5. v \notin t.visited => Keeps(v, t, dfs[v][t]) /\ Finds(edges, v, t, dfs[v][t])
        BY <2>2, <2>4 DEF KeepsBelow
    <2>6. Sound(edges, r) /\ BackPairs(t) \subseteq BackPairs(r) /\ Seen(n, v, r)
        BY <1>4, <2>2, <2>3, <2>4, <2>5, StepSound
    <2>7. Done(t) \subseteq Done(r)
        BY <2>4 DEF Done, OnPath
    <2>8. \A j \in 1 .. k : Seen(n, out[j], r)
        BY <2>3, <2>6, <2>7 DEF Seen
    <2>9. \A j \in 1 .. k + 1 : j \in 1 .. k \/ j = k + 1
        OBVIOUS
    <2>10. \A j \in 1 .. k + 1 : Seen(n, out[j], r)
        BY <2>6, <2>8, <2>9 DEF v
    <2> QED BY <2>3, <2>6, <2>10 DEF r
<1> DEFINE t == g[Len(out)]
           r == [t EXCEPT !.stack = Front(@)]
<1>8. /\ Sound(edges, t) /\ BackPairs(s) \subseteq BackPairs(t)
      /\ \A j \in 1 .. Len(out) : Seen(n, out[j], t)
    <2>1. Len(out) \in S
        <3> HIDE DEF S
        <3> QED BY <1>2, <1>6, <1>7, EveryNumber
    <2>2. At(Len(out))
        BY <1>2, <2>1
    <2> QED BY <2>2
<1>9. t \in Search /\ t.stack = Append(s.stack, n)
    <2>1. Keeps(n, first, t)
        BY <1>2, <1>3
    <2> HIDE DEF t
    <2> QED BY <1>4, <2>1 DEF Keeps
<1>10. Visit(edges, dfs, n, s) = r
    BY <1>1
<1> HIDE DEF t
<1>11. r \in Search /\ r.stack = s.stack /\ r.visited = t.visited /\ r.back_edges = t.back_edges
    BY <1>9, LeaveIs
<1> HIDE DEF r
<1>12. n \notin OnPath(s)
    BY DEF Enters, Sound
<1>13. \A v \in Nat : <<n, v>> \in Pairs(edges) => v \in Done(t) \/ <<n, v>> \in BackPairs(t)
    BY <1>2, <1>8 DEF Seen
<1>14. Sound(edges, r)
    BY <1>8, <1>9, <1>11, <1>12, <1>13, LeaveSound
<1>15. BackPairs(r) = BackPairs(t)
    BY <1>11 DEF BackPairs
<1> QED BY <1>8, <1>10, <1>14, <1>15

LEMMA DfsSound ==
    ASSUME NEW edges \in Seq(Edge), NEW n \in Nat, NEW s \in Search,
           Sound(edges, s), Enters(edges, n, s)
    PROVE  LET r == Dfs(edges, n, s)
           IN  Keeps(n, s, r) /\ Sound(edges, r)
<1>1. PICK f : /\ \A m \in Nat, t \in Search : Dfs(edges, m, t) = f[m][t]
               /\ \A m \in Nat, t \in Search : f[m][t] = Visit(edges, f, m, t)
               /\ \A m \in Nat, t \in Search : Keeps(m, t, f[m][t])
    BY DfsIs
<1> DEFINE S == {b \in Nat : \A m \in Nat, t \in Search :
                                Left(edges, m, t) < b => Finds(edges, m, t, f[m][t])}
<1>2. \A m \in Nat, t \in Search : Left(edges, m, t) \in Nat
    BY EndsAreFinite DEF Left
<1>3. 0 \in S
    BY <1>2
<1>4. ASSUME NEW b \in Nat, b \in S PROVE b + 1 \in S
    <2> SUFFICES ASSUME NEW m \in Nat, NEW t \in Search, Left(edges, m, t) < b + 1,
                        Sound(edges, t), Enters(edges, m, t)
                 PROVE  /\ Sound(edges, f[m][t])
                        /\ BackPairs(t) \subseteq BackPairs(f[m][t])
        BY DEF Finds
    <2>1. KeepsBelow(edges, f, Left(edges, m, t))
        BY <1>1 DEF KeepsBelow
    <2>2. \A x \in Nat, y \in Search :
             Left(edges, x, y) < Left(edges, m, t) => Finds(edges, x, y, f[x][y])
        <3>1. ASSUME NEW x \in Nat, NEW y \in Search, Left(edges, x, y) < Left(edges, m, t)
              PROVE  Left(edges, x, y) < b
            <4>1. Left(edges, x, y) \in Nat /\ Left(edges, m, t) \in Nat
                BY <1>2
            <4> QED BY <3>1, <4>1
        <3> QED BY <1>4, <3>1
    <2>3. f[m][t] = Visit(edges, f, m, t)
        BY <1>1
    <2> HIDE DEF S
    <2> QED BY <2>1, <2>2, <2>3, VisitSound
<1>5. Finds(edges, n, s, f[n][s])
    <2> DEFINE b == Left(edges, n, s) + 1
    <2>1. b \in Nat /\ Left(edges, n, s) < b
        BY <1>2
    <2>2. b \in S
        <3> HIDE DEF S, b
        <3> QED BY <1>3, <1>4, <2>1, EveryNumber
    <2> QED BY <2>1, <2>2
<1> QED BY <1>1, <1>5 DEF Finds

-----------------------------------------------------------------------------
(* The worklist. *)
Froms(edges) == {e.from : e \in Range(edges)}

\* What one round of work on w adds to the work.
More(edges, h, m, w) == UNION {Preds(edges, b) \ {h} : b \in w \ m}

\* X has the work and what all of it leads to, but what only members in m do.
Brings(edges, h, m, w, X) == w \subseteq X /\ \A b \in X \ m : Preds(edges, b) \ {h} \subseteq X
Fetched(edges, h, m, w) ==
    {x \in Nat : \A X \in SUBSET Nat : Brings(edges, h, m, w, X) => x \in X}

LEMMA PredsAre ==
    ASSUME NEW edges \in Seq(Edge)
    PROVE  /\ Froms(edges) \subseteq Nat /\ IsFiniteSet(Froms(edges))
           /\ \A b, c : c \in Preds(edges, b) <=> <<c, b>> \in Pairs(edges)
           /\ \A b : Preds(edges, b) \subseteq Froms(edges)
<1> DEFINE f == [k \in 1 .. Len(edges) |-> edges[k].from]
<1>1. /\ Len(edges) \in Nat /\ DOMAIN edges = 1 .. Len(edges)
      /\ \A k \in 1 .. Len(edges) : edges[k] \in Edge
    OBVIOUS
<1>2. f \in Surjection(1 .. Len(edges), Froms(edges))
    BY <1>1 DEF Surjection, Froms, Range
<1>3. IsFiniteSet(1 .. Len(edges))
    BY <1>1, FS_Interval
<1> HIDE DEF f
<1>4. IsFiniteSet(Froms(edges))
    BY <1>2, <1>3, FS_Surjection
<1>5. Froms(edges) \subseteq Nat
    BY <1>1 DEF Froms, Range, Edge
<1>6. \A b, c : c \in Preds(edges, b) <=> <<c, b>> \in Pairs(edges)
    BY DEF Preds, Pairs
<1>7. \A b : Preds(edges, b) \subseteq Froms(edges)
    BY DEF Preds, Froms
<1> QED BY <1>4, <1>5, <1>6, <1>7

LEMMA FetchedIs ==
    ASSUME NEW edges \in Seq(Edge), NEW h, NEW m \in SUBSET Nat, NEW w \in SUBSET Nat
    PROVE  /\ Fetched(edges, h, m, w) \in SUBSET Nat
           /\ Brings(edges, h, m, w, Fetched(edges, h, m, w))
           /\ \A X \in SUBSET Nat : Brings(edges, h, m, w, X) => Fetched(edges, h, m, w) \subseteq X
<1>1. \A b : Preds(edges, b) \subseteq Nat
    BY PredsAre
<1> DEFINE F == Fetched(edges, h, m, w)
<1>2. \A x : x \in F <=> x \in Nat /\ \A X \in SUBSET Nat : Brings(edges, h, m, w, X) => x \in X
    BY DEF Fetched
<1> HIDE DEF F
<1>3. w \subseteq F
    BY <1>2 DEF Brings
<1>4. ASSUME NEW b \in F \ m, NEW c \in Preds(edges, b) \ {h} PROVE c \in F
    <2>1. c \in Nat
        BY <1>1
    <2>2. ASSUME NEW X \in SUBSET Nat, Brings(edges, h, m, w, X) PROVE c \in X
        <3>1. b \in X \ m
            BY <1>2, <2>2
        <3> QED BY <2>2, <3>1 DEF Brings
    <2> QED BY <1>2, <2>1, <2>2
<1>5. Brings(edges, h, m, w, F)
    BY <1>3, <1>4 DEF Brings
<1> QED BY <1>2, <1>5 DEF F

LEMMA FetchedByRounds ==
    ASSUME NEW edges \in Seq(Edge), NEW h, NEW m \in SUBSET Nat, NEW w \in SUBSET Nat
    PROVE  /\ More(edges, h, m, w) \in SUBSET Nat /\ More(edges, h, m, w) \subseteq Froms(edges)
           /\ w \subseteq m => m \cup Fetched(edges, h, m, w) = m
           /\ m \cup Fetched(edges, h, m, w) =
                 (m \cup w) \cup Fetched(edges, h, m \cup w, More(edges, h, m, w))
<1> DEFINE M == More(edges, h, m, w)
           F == Fetched(edges, h, m, w)
           G == Fetched(edges, h, m \cup w, M)
<1>1. /\ M \in SUBSET Nat /\ M \subseteq Froms(edges)
      /\ \A b \in w \ m : Preds(edges, b) \ {h} \subseteq M
      /\ \A X : (\A b \in w \ m : Preds(edges, b) \ {h} \subseteq X) => M \subseteq X
    BY PredsAre DEF More
<1> HIDE DEF M
<1>2. /\ F \in SUBSET Nat /\ Brings(edges, h, m, w, F)
      /\ \A X \in SUBSET Nat : Brings(edges, h, m, w, X) => F \subseteq X
    BY FetchedIs
<1>3. /\ G \in SUBSET Nat /\ Brings(edges, h, m \cup w, M, G)
      /\ \A X \in SUBSET Nat : Brings(edges, h, m \cup w, M, X) => G \subseteq X
    <2>1. m \cup w \in SUBSET Nat
        OBVIOUS
    <2> QED BY <1>1, <2>1, FetchedIs
<1> HIDE DEF F, G
<1>4. w \subseteq m => m \cup F = m
    <2>1. w \subseteq m => Brings(edges, h, m, w, w)
        BY DEF Brings
    <2> QED BY <1>2, <2>1
<1>5. F \subseteq w \cup G
    <2>1. Brings(edges, h, m, w, w \cup G)
        <3>1. ASSUME NEW b \in (w \cup G) \ m PROVE Preds(edges, b) \ {h} \subseteq w \cup G
            <4>1. CASE b \in w
                <5>1. M \subseteq G
                    BY <1>3 DEF Brings
                <5> QED BY <1>1, <4>1, <5>1
            <4>2. CASE b \notin w
                BY <1>3, <4>2 DEF Brings
            <4> QED BY <4>1, <4>2
        <3> QED BY <3>1 DEF Brings
    <2>2. w \cup G \in SUBSET Nat
        BY <1>3
    <2> QED BY <1>2, <2>1, <2>2
<1>6. w \subseteq F /\ G \subseteq F
    <2>1. w \subseteq F
        BY <1>2 DEF Brings
    <2>2. M \subseteq F
        BY <1>1, <1>2, <2>1 DEF Brings
    <2>3. Brings(edges, h, m \cup w, M, F)
        BY <1>2, <2>2 DEF Brings
    <2> QED BY <1>2, <1>3, <2>1, <2>3
<1> QED BY <1>1, <1>4, <1>5, <1>6 DEF M, F, G

IsCollect(edges, h, c) ==
    c = [m \in SUBSET Nat |-> [w \in SUBSET Nat |->
            IF w \subseteq m THEN m ELSE c[m \cup w][More(edges, h, m, w)]]]

LEMMA CollectIs ==
    ASSUME NEW edges \in Seq(Edge), NEW h \in Nat, NEW source \in Froms(edges)
    PROVE  Collect(edges, h, source) = {h} \cup Fetched(edges, h, {h}, {source})
<1> DEFINE c == CHOOSE f : IsCollect(edges, h, f)
<1>0. ASSUME NEW m \in SUBSET Nat, NEW w \in SUBSET Nat
      PROVE  /\ More(edges, h, m, w) \subseteq Froms(edges)
             /\ w \subseteq m => m \cup Fetched(edges, h, m, w) = m
             /\ m \cup Fetched(edges, h, m, w) =
                   (m \cup w) \cup Fetched(edges, h, m \cup w, More(edges, h, m, w))
    <2> HIDE DEF c
    <2>1. More(edges, h, m, w) \subseteq Froms(edges)
        BY PredsAre DEF More
    <2>2. ASSUME w \subseteq m PROVE m \cup Fetched(edges, h, m, w) = m
        <3>1. Brings(edges, h, m, w, m)
            BY <2>2 DEF Brings
        <3> QED BY <3>1, FetchedIs
    <2>3. m \cup Fetched(edges, h, m, w) =
             (m \cup w) \cup Fetched(edges, h, m \cup w, More(edges, h, m, w))
        BY FetchedByRounds
    <2> QED BY <2>1, <2>2, <2>3
<1>1. Collect(edges, h, source) = c[{h}][{source}]
    BY DEF Collect, IsCollect, More
<1>2. IsCollect(edges, h, c)
    <2> DEFINE d == [m \in SUBSET Nat |-> [w \in SUBSET Nat |-> m \cup Fetched(edges, h, m, w)]]
    <2>1. ASSUME NEW m \in SUBSET Nat, NEW w \in SUBSET Nat
          PROVE  m \cup Fetched(edges, h, m, w) =
                    IF w \subseteq m THEN m ELSE d[m \cup w][More(edges, h, m, w)]
        <3>1. m \cup w \in SUBSET Nat /\ More(edges, h, m, w) \in SUBSET Nat
            BY FetchedByRounds
        <3>2. d[m \cup w][More(edges, h, m, w)] =
                 (m \cup w) \cup Fetched(edges, h, m \cup w, More(edges, h, m, w))
            BY <3>1
        <3>3. /\ w \subseteq m => m \cup Fetched(edges, h, m, w) = m
              /\ m \cup Fetched(edges, h, m, w) =
                    (m \cup w) \cup Fetched(edges, h, m \cup w, More(edges, h, m, w))
            BY <1>0
        <3> DEFINE F1 == m \cup Fetched(edges, h, m, w)
                   F2 == (m \cup w) \cup Fetched(edges, h, m \cup w, More(edges, h, m, w))
                   D  == d[m \cup w][More(edges, h, m, w)]
        <3>4. D = F2 /\ (w \subseteq m => F1 = m) /\ F1 = F2
            BY <3>2, <3>3
        <3> HIDE DEF F1, F2, D
        <3>5. F1 = IF w \subseteq m THEN m ELSE D
            BY <3>4
        <3> QED BY <3>5 DEF F1, D
    <2>2. \A m \in SUBSET Nat : d[m] = [w \in SUBSET Nat |->
                 IF w \subseteq m THEN m ELSE d[m \cup w][More(edges, h, m, w)]]
        <3> SUFFICES ASSUME NEW m \in SUBSET Nat
                     PROVE  d[m] = [w \in SUBSET Nat |->
                               IF w \subseteq m THEN m ELSE d[m \cup w][More(edges, h, m, w)]]
            OBVIOUS
        <3>1. d[m] = [w \in SUBSET Nat |-> m \cup Fetched(edges, h, m, w)]
            OBVIOUS
        <3> DEFINE L(w) == m \cup Fetched(edges, h, m, w)
                   R(w) == IF w \subseteq m THEN m ELSE d[m \cup w][More(edges, h, m, w)]
        <3> HIDE DEF d
        <3>2. \A w \in SUBSET Nat : L(w) = R(w)
            BY <2>1
        <3>3. d[m] = [w \in SUBSET Nat |-> L(w)]
            BY <3>1
        <3> HIDE DEF L, R
        <3>4. d[m] = [w \in SUBSET Nat |-> R(w)]
            BY <3>2, <3>3
        <3> QED BY <3>4 DEF R
    <2>3. IsCollect(edges, h, d)
        <3>1. d = [m \in SUBSET Nat |-> d[m]]
            OBVIOUS
        <3> DEFINE E(m) == [w \in SUBSET Nat |->
                     IF w \subseteq m THEN m ELSE d[m \cup w][More(edges, h, m, w)]]
        <3> HIDE DEF d
        <3>2. \A m \in SUBSET Nat : d[m] = E(m)
            BY <2>2
        <3> HIDE DEF E
        <3>3. d = [m \in SUBSET Nat |-> E(m)]
            BY <3>1, <3>2
        <3> QED BY <3>3 DEF IsCollect, E
    <2> QED BY <2>3
<1> HIDE DEF c
<1>3. \A m \in SUBSET Nat, w \in SUBSET Nat :
         c[m][w] = IF w \subseteq m THEN m ELSE c[m \cup w][More(edges, h, m, w)]
    <2> SUFFICES ASSUME NEW m \in SUBSET Nat, NEW w \in SUBSET Nat
                 PROVE  c[m][w] = IF w \subseteq m THEN m ELSE c[m \cup w][More(edges, h, m, w)]
        OBVIOUS
    <2> DEFINE R(n) == [v \in SUBSET Nat |->
                           IF v \subseteq n THEN n ELSE c[n \cup v][More(edges, h, n, v)]]
    <2>1. c = [n \in SUBSET Nat |-> R(n)]
        BY <1>2 DEF IsCollect
    <2>2. R(m)[w] = IF w \subseteq m THEN m ELSE c[m \cup w][More(edges, h, m, w)]
        OBVIOUS
    <2> HIDE DEF R
    <2>3. c[m] = R(m)
        BY <2>1
    <2> QED BY <2>2, <2>3
<1> DEFINE Open(m) == Cardinality(Froms(edges) \ m)
           S == {b \in Nat : \A m \in SUBSET Nat, w \in SUBSET Froms(edges) :
                                Open(m) < b => c[m][w] = m \cup Fetched(edges, h, m, w)}
<1>4. IsFiniteSet(Froms(edges)) /\ Froms(edges) \subseteq Nat
    BY PredsAre
<1>5. \A m : Open(m) \in Nat
    <2> SUFFICES ASSUME NEW m PROVE Open(m) \in Nat
        OBVIOUS
    <2> DEFINE T == Froms(edges) \ m
    <2>1. T \subseteq Froms(edges)
        OBVIOUS
    <2> HIDE DEF T
    <2>2. Cardinality(T) \in Nat
        BY <1>4, <2>1, FS_Subset, FS_CardinalityType
    <2> QED BY <2>2 DEF T
<1>6. \A m, w : w \subseteq Froms(edges) /\ ~(w \subseteq m) => Open(m \cup w) < Open(m)
    <2> SUFFICES ASSUME NEW m, NEW w, w \subseteq Froms(edges), ~(w \subseteq m)
                 PROVE  Open(m \cup w) < Open(m)
        OBVIOUS
    <2> DEFINE A == Froms(edges) \ (m \cup w)
               B == Froms(edges) \ m
    <2>1. A \subseteq B /\ A # B /\ B \subseteq Froms(edges)
        OBVIOUS
    <2>2. Cardinality(A) \in Nat /\ Cardinality(B) \in Nat
        BY <1>5
    <2> HIDE DEF A, B, Open
    <2>3. IsFiniteSet(B)
        BY <1>4, <2>1, FS_Subset
    <2>4. Cardinality(A) <= Cardinality(B) /\ Cardinality(A) # Cardinality(B)
        BY <2>1, <2>3, FS_Subset
    <2>5. Cardinality(A) < Cardinality(B)
        BY <2>2, <2>4
    <2> QED BY <2>5 DEF A, B, Open
<1> HIDE DEF Open
<1>7. 0 \in S
    BY <1>5
<1>8. ASSUME NEW b \in Nat, b \in S PROVE b + 1 \in S
    <2> SUFFICES ASSUME NEW m \in SUBSET Nat, NEW w \in SUBSET Froms(edges), Open(m) < b + 1
                 PROVE  c[m][w] = m \cup Fetched(edges, h, m, w)
        OBVIOUS
    <2> DEFINE M == More(edges, h, m, w)
    <2>1. w \in SUBSET Nat /\ m \cup w \in SUBSET Nat
        BY <1>4
    <2>2. /\ M \in SUBSET Froms(edges)
          /\ w \subseteq m => m \cup Fetched(edges, h, m, w) = m
          /\ m \cup Fetched(edges, h, m, w) = (m \cup w) \cup Fetched(edges, h, m \cup w, M)
        <3>1. /\ M \subseteq Froms(edges)
              /\ w \subseteq m => m \cup Fetched(edges, h, m, w) = m
              /\ m \cup Fetched(edges, h, m, w) = (m \cup w) \cup Fetched(edges, h, m \cup w, M)
            <4> HIDE DEF S, c
            <4> QED BY <1>0, <2>1
        <3> QED BY <3>1
    <2>3. c[m][w] = IF w \subseteq m THEN m ELSE c[m \cup w][M]
        BY <1>3, <2>1
    <2> HIDE DEF M
    <2>4. CASE w \subseteq m
        BY <2>2, <2>3, <2>4
    <2>5. CASE ~(w \subseteq m)
        <3>1. Open(m \cup w) < b
            <4>1. Open(m \cup w) < Open(m) /\ Open(m) \in Nat /\ Open(m \cup w) \in Nat
                BY <1>5, <1>6, <2>5
            <4> QED BY <4>1
        <3>2. c[m \cup w][M] = (m \cup w) \cup Fetched(edges, h, m \cup w, M)
            BY <1>8, <2>1, <2>2, <3>1
        <3> QED BY <2>2, <2>3, <2>5, <3>2
    <2> QED BY <2>4, <2>5
<1>9. c[{h}][{source}] = {h} \cup Fetched(edges, h, {h}, {source})
    <2> DEFINE b == Open({h}) + 1
    <2>1. b \in Nat /\ Open({h}) < b
        BY <1>5
    <2>2. b \in S
        <3> HIDE DEF S, b
        <3> QED BY <1>7, <1>8, <2>1, EveryNumber
    <2>3. {h} \in SUBSET Nat /\ {source} \in SUBSET Froms(edges)
        OBVIOUS
    <2> QED BY <2>1, <2>2, <2>3
<1> QED BY <1>1, <1>9

-----------------------------------------------------------------------------
(* The loops of the program. *)
LEMMA EdgesAreListed ==
    ASSUME IsProgram, code # <<>>
    PROVE  Edges(code, Blocks(code, entry)) \in Seq(Edge)
<1> DEFINE bs == Blocks(code, entry)
           q == [i \in DOMAIN bs |-> EdgesOf(code, bs, bs[i])]
<1>1. DOMAIN bs = 1 .. Count /\ Count \in Nat
    BY BlocksAre, StartsAreLeaders
<1>2. \A i \in 1 .. Count : EdgesOf(code, bs, bs[i]) \in Seq(Edge)
    BY EdgesOfAre
<1>3. Edges(code, bs) = FlattenSeq(q)
    BY DEF Edges
<1> HIDE DEF bs
<1>4. q \in Seq(Seq(Edge))
    BY <1>1, <1>2
<1> HIDE DEF q
<1>5. FlattenSeq(q) \in Seq(Edge)
    BY <1>4, FlattenLists
<1> QED BY <1>3, <1>5 DEF bs

\* What the search and the worklist are given: edges between the nodes.
IsGraph(nodes, edges) ==
    /\ nodes \subseteq Nat /\ edges \in Seq(Edge)
    /\ \A p \in Pairs(edges) : p[1] \in nodes /\ p[2] \in nodes

LEMMA BlocksAreAGraph ==
    ASSUME IsProgram, code # <<>>, NEW a, a.blocks = Blocks(code, entry),
           a.edges = Edges(code, Blocks(code, entry))
    PROVE  /\ IsGraph(BlockIds(a), a.edges)
           /\ StartBlock(a.blocks, entry) \in BlockIds(a)
<1>1. /\ Count \in Nat
      /\ \A b : b \in BlockIds(a) <=> b + 1 \in 1 .. Count /\ b \in Int
    BY BlocksByNumber, StartsAreLeaders
<1>2. BlockIds(a) \subseteq Nat
    BY <1>1
<1>3. ASSUME NEW e \in Range(a.edges) PROVE e.from \in BlockIds(a) /\ e.to \in BlockIds(a)
    <2>1. PICK i \in 1 .. Count, j \in 1 .. Count : \E kind : e = EdgeFrom(i, j, kind)
        BY <1>3, EdgesAre
    <2>2. e.from = i - 1 /\ e.to = j - 1
        BY <2>1 DEF EdgeFrom
    <2>3. (i - 1) + 1 = i /\ i - 1 \in Int /\ (j - 1) + 1 = j /\ j - 1 \in Int
        OBVIOUS
    <2> QED BY <1>1, <2>2, <2>3
<1>4. \A p \in Pairs(a.edges) : p[1] \in BlockIds(a) /\ p[2] \in BlockIds(a)
    BY <1>3 DEF Pairs
<1>5. StartBlock(a.blocks, entry) \in BlockIds(a)
    <2> DEFINE starts == {b.id : b \in {c \in Range(a.blocks) : c.start_pc = entry}}
    <2>1. PICK i \in 1 .. Count : Starts[i] = entry
        BY LeadersArePlaces, StartsAreLeaders
    <2>2. /\ DOMAIN a.blocks = 1 .. Count
          /\ a.blocks[i].start_pc = Starts[i]
        BY BlocksAre
    <2>3. a.blocks[i] \in Range(a.blocks)
        BY <2>2 DEF Range
    <2>4. starts # {}
        BY <2>1, <2>2, <2>3
    <2>5. StartBlock(a.blocks, entry) = CHOOSE b \in starts : TRUE
        BY <2>4 DEF StartBlock
    <2>6. starts \subseteq BlockIds(a)
        BY DEF BlockIds
    <2> HIDE DEF starts
    <2> QED BY <2>4, <2>5, <2>6
<1> QED BY <1>2, <1>4, <1>5, EdgesAreListed DEF IsGraph

StartOfSearch == [visited |-> {}, stack |-> <<>>, back_edges |-> <<>>]

LEMMA WholeSearch ==
    ASSUME NEW edges \in Seq(Edge), NEW n \in Nat
    PROVE  LET r == Dfs(edges, n, StartOfSearch)
           IN  r \in Search /\ n \in r.visited /\ Done(r) = r.visited /\ Sound(edges, r)
<1> DEFINE s == StartOfSearch
           r == Dfs(edges, n, s)
<1>1. s \in Search /\ s.visited = {} /\ s.stack = <<>> /\ s.back_edges = <<>>
    BY DEF Search, StartOfSearch
<1> HIDE DEF s
<1>2. OnPath(s) = {} /\ Done(s) = {} /\ BackPairs(s) = {} /\ Len(s.stack) = 0
    BY <1>1 DEF OnPath, Done, BackPairs, Range
<1>3. Sound(edges, s)
    BY <1>1, <1>2 DEF Sound, Acyclic
<1>4. Enters(edges, n, s)
    BY <1>1 DEF Enters
<1>5. Keeps(n, s, r) /\ Sound(edges, r)
    BY <1>1, <1>3, <1>4, DfsSound
<1> HIDE DEF r
<1>6. r \in Search /\ r.stack = <<>> /\ n \in r.visited
    BY <1>1, <1>5 DEF Keeps
<1>7. Done(r) = r.visited
    BY <1>6 DEF Done, OnPath, Range
<1> QED BY <1>5, <1>6, <1>7 DEF r, s

\* Where a node leads is what it reaches.
LEMMA LeadsReaches ==
    ASSUME NEW nodes, NEW edges, IsGraph(nodes, edges),
           NEW u, NEW v \in nodes, Leads(edges, u, v)
    PROVE  v \in Reach(nodes, Pairs(edges), u)
<1> SUFFICES ASSUME NEW S \in SUBSET nodes, u \in nodes => u \in S,
                    \A p \in Pairs(edges) : p[1] \in S /\ p[2] \in nodes => p[2] \in S
             PROVE  v \in S
    BY DEF Reach
<1>1. \A p \in Pairs(edges) : p[1] \in S => p[2] \in S
    BY DEF IsGraph
<1>2. CASE u \in nodes
    BY <1>1, <1>2 DEF Leads
<1>3. CASE u \notin nodes
    <2> DEFINE T == S \cup {u}
    <2>1. \A p \in Pairs(edges) : p[1] \in T => p[2] \in T
        BY <1>1, <1>3 DEF IsGraph
    <2>2. v \in T
        BY <2>1 DEF Leads
    <2> QED BY <1>3, <2>2
<1> QED BY <1>2, <1>3

\* Reach is closed itself.
LEMMA ReachIs ==
    ASSUME NEW nodes, NEW pairs, NEW first
    PROVE  LET R == Reach(nodes, pairs, first)
           IN  /\ R \subseteq nodes
               /\ first \in nodes => first \in R
               /\ \A p \in pairs : p[1] \in R /\ p[2] \in nodes => p[2] \in R
               /\ \A S \in SUBSET nodes :
                     /\ first \in nodes => first \in S
                     /\ \A p \in pairs : p[1] \in S /\ p[2] \in nodes => p[2] \in S
                     => R \subseteq S
BY DEF Reach

Backward(edges) == {<<p[2], p[1]>> : p \in Pairs(edges)}

\* The worklist collects what can get to the source without passing the header.
LEMMA CollectReaches ==
    ASSUME NEW nodes, NEW edges, IsGraph(nodes, edges), NEW h \in nodes, NEW source,
           <<source, h>> \in Pairs(edges)
    PROVE  Collect(edges, h, source) =
              {h} \cup Reach(nodes \ {h}, Backward(edges), source)
<1> DEFINE inner == nodes \ {h}
           back == Backward(edges)
           R == Reach(inner, back, source)
           F == Fetched(edges, h, {h}, {source})
<1>1. source \in nodes /\ h \in Nat /\ nodes \subseteq Nat /\ edges \in Seq(Edge)
    BY DEF IsGraph
<1>2. source \in Froms(edges)
    BY DEF Froms, Pairs
<1>3. Collect(edges, h, source) = {h} \cup F
    BY <1>1, <1>2, CollectIs
<1>4. \A b, c : c \in Preds(edges, b) => c \in nodes /\ b \in nodes /\ <<b, c>> \in back
    <2> TAKE b, c
    <2> HAVE c \in Preds(edges, b)
    <2>1. <<c, b>> \in Pairs(edges)
        BY <1>1, PredsAre
    <2> DEFINE p == <<c, b>>
    <2>2. p[1] = c /\ p[2] = b
        OBVIOUS
    <2> HIDE DEF p
    <2>3. p \in Pairs(edges)
        BY <2>1 DEF p
    <2> QED BY <2>2, <2>3 DEF Backward, IsGraph
<1>5. \A p \in back : p[2] \in Preds(edges, p[1])
    <2> SUFFICES ASSUME NEW p \in Pairs(edges) PROVE p[1] \in Preds(edges, p[2])
        BY DEF Backward
    <2>1. p = <<p[1], p[2]>>
        BY DEF Pairs
    <2> QED BY <1>1, <2>1, PredsAre
<1>6. /\ R \subseteq inner
      /\ source \in inner => source \in R
      /\ \A p \in back : p[1] \in R /\ p[2] \in inner => p[2] \in R
      /\ \A S \in SUBSET inner :
            /\ source \in inner => source \in S
            /\ \A p \in back : p[1] \in S /\ p[2] \in inner => p[2] \in S
            => R \subseteq S
    BY ReachIs
<1>7. /\ F \in SUBSET Nat /\ source \in F
      /\ \A b \in F \ {h} : Preds(edges, b) \ {h} \subseteq F
      /\ \A X \in SUBSET Nat : Brings(edges, h, {h}, {source}, X) => F \subseteq X
    <2>1. {h} \in SUBSET Nat /\ {source} \in SUBSET Nat
        BY <1>1
    <2>2. F \in SUBSET Nat /\ Brings(edges, h, {h}, {source}, F)
        BY <1>1, <2>1, FetchedIs
    <2>3. \A X \in SUBSET Nat : Brings(edges, h, {h}, {source}, X) => F \subseteq X
        BY <1>1, <2>1, FetchedIs
    <2> HIDE DEF F
    <2> QED BY <2>2, <2>3 DEF Brings
<1> HIDE DEF R, F, back
<1>8. F \subseteq {h} \cup R
    <2> DEFINE X == {h} \cup R
    <2>1. X \in SUBSET Nat /\ source \in X
        BY <1>1, <1>6
    <2>2. ASSUME NEW b \in X \ {h}, NEW c \in Preds(edges, b) \ {h} PROVE c \in X
        <3> DEFINE p == <<b, c>>
        <3>1. p[1] = b /\ p[2] = c /\ p \in back /\ c \in inner
            BY <1>4
        <3> HIDE DEF p
        <3> QED BY <1>6, <3>1
    <2>3. Brings(edges, h, {h}, {source}, X)
        BY <2>1, <2>2 DEF Brings
    <2> QED BY <1>7, <2>1, <2>3
<1>9. R \subseteq F
    <2> DEFINE S == F \cap inner
    <2>1. S \in SUBSET inner /\ (source \in inner => source \in S)
        BY <1>7
    <2>2. ASSUME NEW p \in back, p[1] \in S, p[2] \in inner PROVE p[2] \in S
        BY <1>5, <1>7, <2>2
    <2>3. R \subseteq S
        BY <1>6, <2>1, <2>2
    <2> QED BY <2>3
<1> QED BY <1>3, <1>8, <1>9 DEF R, back

\* The summaries are made of the back edges of the search.
LEMMA LoopsAre ==
    ASSUME IsProgram, code # <<>>, NEW a, a = Analyze(code, entry)
    PROVE  \E r \in Search :
              /\ StartBlock(a.blocks, entry) \in r.visited /\ Done(r) = r.visited
              /\ Sound(a.edges, r)
              /\ BackPairs(r) = {<<l.back_edge_from, l.header>> : l \in Range(a.loops)}
              /\ \A l \in Range(a.loops) :
                    l.blocks = Collect(a.edges, l.header, l.back_edge_from)
<1> DEFINE start == StartBlock(a.blocks, entry)
           r == Dfs(a.edges, start, StartOfSearch)
           found == r.back_edges
<1>1. a.blocks = Blocks(code, entry) /\ a.edges = Edges(code, Blocks(code, entry))
    BY AnalysisIs
<1>2. a.loops = [k \in DOMAIN found |->
                    [header |-> found[k].header, back_edge_from |-> found[k].from,
                     blocks |-> Collect(a.edges, found[k].header, found[k].from)]]
    <2>1. Analyze(code, entry) =
             [entry_block |-> Analyze(code, entry).entry_block,
              blocks |-> Blocks(code, entry), edges |-> Edges(code, Blocks(code, entry)),
              loops |-> Loops(Blocks(code, entry), Edges(code, Blocks(code, entry)), entry)]
        BY DEF Analyze
    <2>2. a.loops = Loops(a.blocks, a.edges, entry)
        BY <1>1, <2>1
    <2> QED BY <2>2 DEF Loops, StartOfSearch
<1>3. start \in Nat /\ a.edges \in Seq(Edge)
    BY <1>1, BlocksAreAGraph DEF IsGraph
<1>4. r \in Search /\ start \in r.visited /\ Done(r) = r.visited /\ Sound(a.edges, r)
    BY <1>3, WholeSearch
<1> HIDE DEF r
<1> DEFINE loop(k) == [header |-> found[k].header, back_edge_from |-> found[k].from,
                       blocks |-> Collect(a.edges, found[k].header, found[k].from)]
<1>5. \A k : /\ loop(k).header = found[k].header /\ loop(k).back_edge_from = found[k].from
             /\ loop(k).blocks = Collect(a.edges, found[k].header, found[k].from)
    OBVIOUS
<1> HIDE DEF loop
<1>6. a.loops = [k \in DOMAIN found |-> loop(k)]
    BY <1>2 DEF loop
<1>7. Range(a.loops) = {loop(k) : k \in DOMAIN found}
    BY <1>6 DEF Range
<1>8. \A l \in Range(a.loops) : l.blocks = Collect(a.edges, l.header, l.back_edge_from)
    BY <1>5, <1>7
<1>9. BackPairs(r) = {<<l.back_edge_from, l.header>> : l \in Range(a.loops)}
    <2>1. BackPairs(r) = {<<found[k].from, found[k].header>> : k \in DOMAIN found}
        BY DEF BackPairs, Range
    <2>2. {<<l.back_edge_from, l.header>> : l \in Range(a.loops)} =
             {<<found[k].from, found[k].header>> : k \in DOMAIN found}
        BY <1>5, <1>7
    <2> QED BY <2>1, <2>2
<1> QED BY <1>4, <1>8, <1>9

LEMMA NoLoopsOfNoCode ==
    ASSUME code = <<>>, NEW a, a = Analyze(code, entry)
    PROVE  Range(a.loops) = {} /\ EdgePairs(a) = {} /\ BlockIds(a) = {}
<1>1. a = EmptyAnalysis
    BY DEF Analyze
<1>2. a.loops = <<>> /\ a.edges = <<>> /\ a.blocks = <<>>
    BY <1>1 DEF EmptyAnalysis
<1> HIDE DEF EmptyAnalysis
<1> QED BY <1>2 DEF Range, EdgePairs, BlockIds

(* Every loop summary is a natural loop: of an edge whose header comes     *)
(* before its source, and of just the blocks from which control can get to *)
(* the source without passing the header (find_loops: the worklist; dfs:   *)
(* the path), for every program whose targets and entry are where labels   *)
(* can be.                                                                 *)
THEOREM LoopsCorrect == Spec => []LoopsAreNatural
<1>1. ASSUME AnalysisInv, NEW a \in analysis, NEW l \in Range(a.loops)
      PROVE  LET inner    == BlockIds(a) \ {l.header}
                 backward == {<<p[2], p[1]>> : p \in EdgePairs(a)}
             IN  /\ <<l.back_edge_from, l.header>> \in EdgePairs(a)
                 /\ l.back_edge_from \in Reach(BlockIds(a), EdgePairs(a), l.header)
                 /\ l.blocks = {l.header} \cup Reach(inner, backward, l.back_edge_from)
    <2>1. IsProgram /\ a = Analyze(code, entry)
        BY <1>1 DEF AnalysisInv
    <2>2. code # <<>>
        BY <1>1, <2>1, NoLoopsOfNoCode
    <2>3. IsGraph(BlockIds(a), a.edges)
        BY <2>1, <2>2, AnalysisIs, BlocksAreAGraph
    <2>4. PICK r \in Search :
              /\ Sound(a.edges, r)
              /\ BackPairs(r) = {<<k.back_edge_from, k.header>> : k \in Range(a.loops)}
              /\ l.blocks = Collect(a.edges, l.header, l.back_edge_from)
        BY <1>1, <2>1, <2>2, LoopsAre
    <2> DEFINE u == l.back_edge_from
               h == l.header
               p == <<u, h>>
    <2>5. p[1] = u /\ p[2] = h /\ p \in BackPairs(r)
        BY <1>1, <2>4
    <2> HIDE DEF p, u, h
    <2>6. p \in Pairs(a.edges) /\ Leads(a.edges, h, u)
        BY <2>4, <2>5 DEF Sound
    <2>7. h \in BlockIds(a) /\ u \in BlockIds(a)
        BY <2>3, <2>5, <2>6 DEF IsGraph
    <2>8. u \in Reach(BlockIds(a), Pairs(a.edges), h)
        BY <2>3, <2>6, <2>7, LeadsReaches
    <2>9. Collect(a.edges, h, u) =
             {h} \cup Reach(BlockIds(a) \ {h}, Backward(a.edges), u)
        BY <2>3, <2>6, <2>7, CollectReaches DEF p
    <2>10. EdgePairs(a) = Pairs(a.edges)
        BY DEF EdgePairs, Pairs
    <2> QED BY <2>4, <2>6, <2>8, <2>9, <2>10 DEF u, h, p, Backward
<1>2. AnalysisInv => LoopsAreNatural
    BY <1>1 DEF LoopsAreNatural
<1> QED BY <1>2, AnalysisHolds, PTL

(* No cycle of blocks is missed: the part of the graph that is searched    *)
(* has no cycle without the back edges of the summaries (dfs: stack,       *)
(* visited), for every program whose targets and entry are where labels    *)
(* can be.                                                                 *)
THEOREM CyclesCorrect == Spec => []EveryBlockCycleHasALoop
<1>1. ASSUME AnalysisInv, NEW a \in analysis
      PROVE  Acyclic(Searched(a), EdgePairs(a) \ {<<l.back_edge_from, l.header>> :
                                                     l \in Range(a.loops)})
    <2>1. IsProgram /\ a = Analyze(code, entry)
        BY <1>1 DEF AnalysisInv
    <2>2. EdgePairs(a) = Pairs(a.edges)
        BY DEF EdgePairs, Pairs
    <2>3. CASE code = <<>>
        BY <2>1, <2>3, NoLoopsOfNoCode, ReachIs DEF Searched, Acyclic
    <2>4. CASE code # <<>>
        <3> DEFINE start == StartBlock(a.blocks, entry)
                   loops == {<<l.back_edge_from, l.header>> : l \in Range(a.loops)}
        <3>1. IsGraph(BlockIds(a), a.edges)
            BY <2>1, <2>4, AnalysisIs, BlocksAreAGraph
        <3>2. PICK r \in Search : /\ start \in r.visited /\ Done(r) = r.visited
                                  /\ Sound(a.edges, r) /\ BackPairs(r) = loops
            BY <2>1, <2>4, LoopsAre
        <3> HIDE DEF loops, start
        <3> DEFINE S == r.visited \cap BlockIds(a)
        <3>3. ASSUME NEW p \in Pairs(a.edges), p[1] \in S PROVE p[2] \in S
            <4>1. p = <<p[1], p[2]>> /\ p[1] \in Nat /\ p[2] \in Nat /\ p[2] \in BlockIds(a)
                BY <3>1 DEF IsGraph, Pairs
            <4>2. p[2] \in Done(r) \/ p \in BackPairs(r)
                BY <3>2, <3>3, <4>1 DEF Sound
            <4>3. p \in BackPairs(r) => p[2] \in r.visited
                BY <3>2 DEF Sound
            <4> QED BY <3>2, <4>1, <4>2, <4>3
        <3>4. Searched(a) \subseteq S
            <4>1. S \in SUBSET BlockIds(a) /\ (start \in BlockIds(a) => start \in S)
                BY <3>2
            <4> HIDE DEF S
            <4> QED BY <2>2, <3>3, <4>1, ReachIs DEF Searched, start
        <3>5. Acyclic(r.visited, Pairs(a.edges) \ loops)
            BY <3>2 DEF Sound
        <3>6. Acyclic(Searched(a), Pairs(a.edges) \ loops)
            BY <3>4, <3>5 DEF Acyclic
        <3> QED BY <2>2, <3>6 DEF loops
    <2> QED BY <2>3, <2>4
<1>2. AnalysisInv => EveryBlockCycleHasALoop
    BY <1>1 DEF EveryBlockCycleHasALoop
<1> QED BY <1>2, AnalysisHolds, PTL
=============================================================================
