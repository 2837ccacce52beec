--------------------------- MODULE PipelineProofs ---------------------------
(***************************************************************************)
(* The pipeline: what assembler, analysis and executor each guarantee, put *)
(* together, for every set of calls; and what the browser infers from the  *)
(* text of one, against the program and the runs of it.                    *)
(***************************************************************************)
EXTENDS InferenceProperties, MemoryOpsProofs, SequenceTheorems, FiniteSetTheorems

-----------------------------------------------------------------------------
(* Loops as functions of how many rounds they have made.                   *)
IsRun(f, N, first, step) ==
    \A n \in 0 .. N : f[n] = IF n = 0 THEN first ELSE step[n][f[n - 1]]

LEMMA LoopRuns ==
    ASSUME NEW N \in Nat, NEW T, NEW first \in T, NEW step \in [1 .. N -> [T -> T]]
    PROVE  \E f \in [0 .. N -> T] : IsRun(f, N, first, step)
<1> DEFINE IsLoop(f, m) == /\ f \in [0 .. m -> T]
                           /\ f[0] = first
                           /\ \A n \in 1 .. m : f[n] = step[n][f[n - 1]]
           S == {m \in Nat : m <= N => \E f : IsLoop(f, m)}
<1>1. 0 \in S
    <2>1. IsLoop([n \in 0 .. 0 |-> first], 0)
        OBVIOUS
    <2> HIDE DEF IsLoop
    <2> QED BY <2>1
<1>2. ASSUME NEW m \in Nat, m \in S PROVE m + 1 \in S
    <2> SUFFICES ASSUME m + 1 <= N PROVE \E f : IsLoop(f, m + 1)
        OBVIOUS
    <2>1. PICK f : IsLoop(f, m)
        BY <1>2
    <2> DEFINE g == [n \in 0 .. m + 1 |-> IF n = m + 1 THEN step[m + 1][f[m]] ELSE f[n]]
    <2>2. f \in [0 .. m -> T] /\ m \in 0 .. m /\ m + 1 \in 1 .. N
        BY <2>1
    <2>3. step[m + 1][f[m]] \in T
        BY <2>2
    <2>4. g \in [0 .. m + 1 -> T]
        <3>1. \A n \in 0 .. m + 1 : n # m + 1 => n \in 0 .. m
            OBVIOUS
        <3> QED BY <2>2, <2>3, <3>1
    <2>5. ASSUME NEW n \in 1 .. m + 1 PROVE g[n] = step[n][g[n - 1]]
        <3>1. n - 1 \in 0 .. m /\ n - 1 \in 0 .. m + 1 /\ n - 1 # m + 1 /\ n \in 0 .. m + 1
            OBVIOUS
        <3>2. g[n - 1] = f[n - 1]
            BY <3>1
        <3>3. CASE n = m + 1
            BY <3>1, <3>2, <3>3
        <3>4. CASE n # m + 1
            <4>1. n \in 1 .. m /\ g[n] = f[n]
                BY <3>1, <3>4
            <4> QED BY <2>1, <3>2, <4>1
        <3> QED BY <3>3, <3>4
    <2>6. g[0] = first
        BY <2>1
    <2>7. IsLoop(g, m + 1)
        BY <2>4, <2>5, <2>6
    <2> HIDE DEF IsLoop
    <2> QED BY <2>7
<1>3. \E f : IsLoop(f, N)
    <2>1. N \in S
        <3> HIDE DEF S
        <3> QED BY <1>1, <1>2, EveryNumber
    <2> QED BY <2>1
<1>4. PICK f : IsLoop(f, N)
    BY <1>3
<1>5. \A n \in 0 .. N : n # 0 => n \in 1 .. N
    OBVIOUS
<1> QED BY <1>4, <1>5 DEF IsRun

\* A join of sequences, by its elements and by what is in it.
LEMMA JoinIs ==
    ASSUME NEW D, NEW p \in Seq(D), NEW q \in Seq(D)
    PROVE  /\ p \o q \in Seq(D) /\ Len(p \o q) = Len(p) + Len(q)
           /\ \A k \in 1 .. Len(p) : (p \o q)[k] = p[k]
           /\ \A k \in 1 .. Len(q) : (p \o q)[Len(p) + k] = q[k]
           /\ Range(p \o q) = Range(p) \cup Range(q)
<1> DEFINE t == p \o q
           m == Len(p)
           n == Len(q)
<1>1. /\ m \in Nat /\ DOMAIN p = 1 .. m
      /\ n \in Nat /\ DOMAIN q = 1 .. n
    OBVIOUS
<1>2. /\ t \in Seq(D) /\ Len(t) = m + n
      /\ \A i \in 1 .. m + n : t[i] = IF i <= m THEN p[i] ELSE q[i - m]
    BY ConcatProperties
<1>3. DOMAIN t = 1 .. m + n
    BY <1>2
<1> HIDE DEF t, m, n
<1>4. \A k \in 1 .. m : k \in 1 .. m + n /\ t[k] = p[k]
    BY <1>1, <1>2
<1>5. \A k \in 1 .. n : m + k \in 1 .. m + n /\ t[m + k] = q[k]
    <2> TAKE k \in 1 .. n
    <2>1. m + k \in 1 .. m + n /\ ~(m + k <= m) /\ (m + k) - m = k
        BY <1>1
    <2> QED BY <1>2, <2>1
<1>6. \A i \in 1 .. m + n : i \in 1 .. m \/ \E k \in 1 .. n : i = m + k
    <2> TAKE i \in 1 .. m + n
    <2>1. i - m \in 1 .. n \/ i \in 1 .. m
        BY <1>1
    <2>2. i = m + (i - m)
        BY <1>1
    <2> QED BY <2>1, <2>2
<1>7. \A i \in 1 .. m + n : t[i] \in Range(p) \cup Range(q)
    <2> TAKE i \in 1 .. m + n
    <2>1. CASE i \in 1 .. m
        BY <1>1, <1>4, <2>1 DEF Range
    <2>2. CASE \E k \in 1 .. n : i = m + k
        <3> PICK k \in 1 .. n : i = m + k
            BY <2>2
        <3>1. t[i] = q[k]
            BY <1>5
        <3> QED BY <1>1, <3>1 DEF Range
    <2> QED BY <1>6, <2>1, <2>2
<1>8. /\ \A k \in 1 .. m : p[k] \in Range(t)
      /\ \A k \in 1 .. n : q[k] \in Range(t)
    BY <1>3, <1>4, <1>5 DEF Range
<1>9. Range(t) \subseteq Range(p) \cup Range(q)
    BY Zenon, <1>3, <1>7 DEF Range
<1>10. Range(p) \cup Range(q) \subseteq Range(t)
    BY Zenon, <1>1, <1>8 DEF Range
<1>11. Range(t) = Range(p) \cup Range(q)
    BY Zenon, <1>9, <1>10
<1> QED BY <1>2, <1>4, <1>5, <1>11 DEF t, m, n

\* The union of a finite number of finite sets is finite.
LEMMA FiniteJoin ==
    ASSUME NEW N \in Nat, NEW f, \A k \in 1 .. N : IsFiniteSet(f[k])
    PROVE  IsFiniteSet(UNION {f[k] : k \in 1 .. N})
<1> DEFINE J(n) == UNION {f[k] : k \in 1 .. n}
           P == {n \in Nat : n <= N => IsFiniteSet(J(n))}
<1>1. 0 \in P
    <2>1. J(0) = {}
        OBVIOUS
    <2> QED BY <2>1, FS_EmptySet
<1>2. ASSUME NEW n \in Nat, n \in P PROVE n + 1 \in P
    <2> SUFFICES ASSUME n + 1 <= N PROVE IsFiniteSet(J(n + 1))
        OBVIOUS
    <2>1. IsFiniteSet(J(n)) /\ IsFiniteSet(f[n + 1])
        BY <1>2
    <2>2. 1 .. n + 1 = (1 .. n) \cup {n + 1}
        OBVIOUS
    <2>3. J(n + 1) = J(n) \cup f[n + 1]
        BY <2>2
    <2> HIDE DEF J
    <2> QED BY <2>1, <2>3, FS_Union
<1> HIDE DEF P, J
<1>3. N \in P
    BY <1>1, <1>2, EveryNumber
<1> QED BY <1>3 DEF P, J

-----------------------------------------------------------------------------
(* The search for what the entry reaches.                                  *)
Searched(succ, s) ==
    LET i == Infer!Max({j \in DOMAIN s.work : s.work[j] \notin Range(s.seen)})
    IN  IF Range(s.work) \subseteq Range(s.seen) THEN s
        ELSE [seen |-> Append(s.seen, s.work[i]),
              work |-> SubSeq(s.work, 1, i - 1) \o succ[s.work[i]]]

\* What was seen or is still to be seen grows by what follows from one of it.
Known(s) == Range(s.seen) \cup Range(s.work)

Advances(succ, s, t) ==
    \/ t = s /\ Known(s) = Range(s.seen)
    \/ \E c \in Known(s) \ Range(s.seen) :
          Range(t.seen) = Range(s.seen) \cup {c} /\ Known(t) = Known(s) \cup Range(succ[c])

LEMMA SearchStep ==
    ASSUME NEW D, NEW succ \in [D -> Seq(D)],
           NEW s \in [seen : Seq(D), work : Seq(D)]
    PROVE  /\ Searched(succ, s) \in [seen : Seq(D), work : Seq(D)]
           /\ Advances(succ, s, Searched(succ, s))
<1>1. CASE Range(s.work) \subseteq Range(s.seen)
    BY <1>1 DEF Searched, Advances, Known
<1>2. CASE ~(Range(s.work) \subseteq Range(s.seen))
    <2> DEFINE J == {j \in DOMAIN s.work : s.work[j] \notin Range(s.seen)}
               i == Infer!Max(J)
               c == s.work[i]
    <2>1. /\ s.seen \in Seq(D) /\ s.work \in Seq(D) /\ Len(s.work) \in Nat
          /\ DOMAIN s.work = 1 .. Len(s.work) /\ Len(s.seen) \in Nat
          /\ DOMAIN s.seen = 1 .. Len(s.seen)
        OBVIOUS
    <2>2. J \in SUBSET (1 .. Len(s.work)) /\ J # {}
        BY <1>2, <2>1 DEF Range
    <2>3. i \in J /\ \A j \in J : j <= i
        <3>1. \E x \in J : \A y \in J : y <= x
            <4> HIDE DEF J
            <4> QED BY <2>1, <2>2, LastIndex
        <3>2. \E x \in J : \A y \in J : x >= y
            BY <2>1, <3>1
        <3>3. \A y \in J : i >= y
            BY <3>2 DEF Infer!Max
        <3> QED BY <2>1, <3>2, <3>3 DEF Infer!Max
    <2>4. Searched(succ, s) = [seen |-> Append(s.seen, c), work |-> SubSeq(s.work, 1, i - 1) \o succ[c]]
        BY <1>2 DEF Searched
    <2> DEFINE front == SubSeq(s.work, 1, i - 1)
    <2> HIDE DEF i
    <2>5. i \in 1 .. Len(s.work) /\ c \in D /\ c \notin Range(s.seen) /\ c \in Range(s.work)
        <3>1. i \in DOMAIN s.work /\ c \notin Range(s.seen)
            BY <2>3
        <3>2. c \in Range(s.work)
            BY <3>1 DEF Range
        <3> QED BY <2>1, <3>1, <3>2
    <2> HIDE DEF J, c
    <2>6. front \in Seq(D) /\ Len(front) = i - 1 /\ \A j \in 1 .. i - 1 : front[j] = s.work[j]
        BY <2>1, <2>5
    <2>7. Range(front) \cup Range(s.seen) \cup {c} = Range(s.work) \cup Range(s.seen)
        <3>1. DOMAIN front = 1 .. i - 1
            BY <2>6, <2>5
        <3>2. \A j \in 1 .. i - 1 : j \in DOMAIN s.work
            BY <2>1, <2>5
        <3>3. Range(front) \subseteq Range(s.work)
            BY <2>6, <3>1, <3>2 DEF Range
        <3>4. ASSUME NEW j \in DOMAIN s.work
              PROVE  s.work[j] \in Range(front) \cup Range(s.seen) \cup {c}
            <4>1. CASE j < i
                <5>1. j \in 1 .. i - 1
                    BY <2>1, <2>5, <4>1
                <5> QED BY <2>6, <3>1, <5>1 DEF Range
            <4>2. CASE j = i
                BY <4>2 DEF c
            <4>3. CASE j > i
                <5>1. j \notin J
                    BY <2>1, <2>3, <2>5, <4>3
                <5> QED BY <5>1 DEF J
            <4> QED BY <2>1, <2>5, <4>1, <4>2, <4>3
        <3> QED BY <2>5, <3>3, <3>4 DEF Range
    <2>8. succ[c] \in Seq(D)
        BY <2>5
    <2>9. /\ front \o succ[c] \in Seq(D)
          /\ Range(front \o succ[c]) = Range(front) \cup Range(succ[c])
        <3> HIDE DEF front
        <3> QED BY <2>6, <2>8, JoinIs
    <2>10. /\ Append(s.seen, c) \in Seq(D)
           /\ Range(Append(s.seen, c)) = Range(s.seen) \cup {c}
        <3>1. \A j \in 1 .. Len(s.seen) : Append(s.seen, c)[j] = s.seen[j]
            BY <2>1
        <3>2. /\ DOMAIN Append(s.seen, c) = 1 .. Len(s.seen) + 1
              /\ Append(s.seen, c)[Len(s.seen) + 1] = c
            BY <2>1
        <3>3. \A j : j \in 1 .. Len(s.seen) + 1 <=> j \in 1 .. Len(s.seen) \/ j = Len(s.seen) + 1
            BY <2>1
        <3> QED BY <2>1, <2>5, <3>1, <3>2, <3>3 DEF Range
    <2> HIDE DEF front
    <2>11. LET t == Searched(succ, s)
           IN  /\ t.seen = Append(s.seen, c) /\ t.work = front \o succ[c]
               /\ t \in [seen : Seq(D), work : Seq(D)]
        <3> DEFINE a == Append(s.seen, c)
                   b == front \o succ[c]
        <3>1. Searched(succ, s) = [seen |-> a, work |-> b]
            BY Zenon, <2>4 DEF front
        <3>2. a \in Seq(D) /\ b \in Seq(D)
            BY <2>9, <2>10
        <3> HIDE DEF a, b
        <3>3. LET t == Searched(succ, s)
              IN  t.seen = a /\ t.work = b /\ t \in [seen : Seq(D), work : Seq(D)]
            BY <3>1, <3>2
        <3> QED BY <3>3 DEF a, b
    <2> QED BY <2>5, <2>7, <2>9, <2>10, <2>11 DEF Advances, Known
<1> QED BY <1>1, <1>2

LEMMA SearchRuns ==
    ASSUME NEW N \in Nat, NEW succ \in [1 .. N -> Seq(1 .. N)], NEW entry \in 1 .. N
    PROVE  \E g \in [0 .. N -> [seen : Seq(1 .. N), work : Seq(1 .. N)]] :
               /\ Infer!Reached(succ, entry) = g[N].seen
               /\ g[0] = [seen |-> <<>>, work |-> <<entry>>]
               /\ \A n \in 1 .. N : g[n] = Searched(succ, g[n - 1])
<1> DEFINE D == 1 .. N
           T == [seen : Seq(D), work : Seq(D)]
           first == [seen |-> <<>>, work |-> <<entry>>]
           IsLoop(g) == g = [n \in 0 .. N |-> IF n = 0 THEN first ELSE Searched(succ, g[n - 1])]
           loop == CHOOSE g : IsLoop(g)
<1>1. first \in T
    OBVIOUS
<1>2. \A s \in T : Searched(succ, s) \in T
    BY SearchStep
<1>3. \E g : IsLoop(g)
    <2> DEFINE step == [n \in 1 .. N |-> [s \in T |-> Searched(succ, s)]]
    <2>1. step \in [1 .. N -> [T -> T]]
        BY <1>2
    <2>2. \A n \in 1 .. N : \A s \in T : step[n][s] = Searched(succ, s)
        OBVIOUS
    <2> HIDE DEF T, step, first
    <2>3. PICK f \in [0 .. N -> T] : IsRun(f, N, first, step)
        BY <1>1, <2>1, LoopRuns
    <2>4. ASSUME NEW n \in 0 .. N
          PROVE  f[n] = IF n = 0 THEN first ELSE Searched(succ, f[n - 1])
        <3>1. n # 0 => n \in 1 .. N /\ n - 1 \in 0 .. N
            OBVIOUS
        <3> QED BY <2>2, <2>3, <3>1 DEF IsRun
    <2>5. f = [n \in 0 .. N |-> IF n = 0 THEN first ELSE Searched(succ, f[n - 1])]
        BY <2>4
    <2> QED BY <2>5
<1>4. IsLoop(loop)
    BY <1>3
<1>5. Infer!Reached(succ, entry) = loop[N].seen
    <2>1. Len(succ) = N
        OBVIOUS
    <2> QED BY <2>1, Zenon DEF Infer!Reached, Searched, Infer!Range, Range
<1> HIDE DEF loop
<1>6. /\ loop[0] = first
      /\ \A n \in 1 .. N : loop[n] = Searched(succ, loop[n - 1])
      /\ loop = [n \in 0 .. N |-> loop[n]]
    BY <1>4
<1> DEFINE S == {n \in Nat : n <= N => loop[n] \in T}
<1> HIDE DEF first, T
<1>7. 0 \in S
    BY <1>1, <1>6
<1>8. ASSUME NEW n \in Nat, n \in S PROVE n + 1 \in S
    <2> SUFFICES ASSUME n + 1 <= N PROVE loop[n + 1] \in T
        OBVIOUS
    <2>1. n + 1 \in 1 .. N /\ (n + 1) - 1 = n /\ loop[n] \in T
        BY <1>8
    <2> QED BY <1>2, <1>6, <2>1
<1>9. Nat \subseteq S
    <2> HIDE DEF S
    <2> QED BY <1>7, <1>8, EveryNumber
<1>10. loop \in [0 .. N -> T]
    BY <1>6, <1>9
<1> QED BY <1>5, <1>6, <1>10 DEF T, first

\* What an entry reaches, and nothing but what is reached.
LEMMA ReachedIs ==
    ASSUME NEW N \in Nat, NEW succ \in [1 .. N -> Seq(1 .. N)], NEW entry \in 1 .. N
    PROVE  LET reach == Infer!Reached(succ, entry)
               R     == Range(reach)
           IN  /\ reach \in Seq(1 .. N) /\ R \subseteq 1 .. N /\ entry \in R
               /\ \A p \in R : Range(succ[p]) \subseteq R
               /\ \A n \in R : n = entry \/ \E p \in R : n \in Range(succ[p])
<1> DEFINE D == 1 .. N
           T == [seen : Seq(D), work : Seq(D)]
<1>1. PICK g \in [0 .. N -> T] :
          /\ Infer!Reached(succ, entry) = g[N].seen
          /\ g[0] = [seen |-> <<>>, work |-> <<entry>>]
          /\ \A n \in 1 .. N : g[n] = Searched(succ, g[n - 1])
    BY SearchRuns
<1> DEFINE V(n) == Range(g[n].seen)
           K(n) == Known(g[n])
           Good(n) == /\ entry \in K(n)
                      /\ \A p \in V(n) : Range(succ[p]) \subseteq K(n)
                      /\ \A m \in K(n) : m = entry \/ \E p \in V(n) : m \in Range(succ[p])
                      /\ IsFiniteSet(V(n))
                      /\ K(n) = V(n) \/ Cardinality(V(n)) = n
           S == {n \in Nat : n <= N => Good(n)}
<1>2. 0 \in S
    <2>1. V(0) = {} /\ K(0) = {entry}
        BY <1>1 DEF Range, Known
    <2> QED BY <2>1, FS_EmptySet
<1>3. ASSUME NEW n \in Nat, n \in S PROVE n + 1 \in S
    <2> SUFFICES ASSUME n + 1 <= N PROVE Good(n + 1)
        OBVIOUS
    <2>1. /\ n + 1 \in 1 .. N /\ n + 1 \in 0 .. N /\ (n + 1) - 1 = n /\ n \in 0 .. N
          /\ Good(n) /\ g[n] \in T
        BY <1>3
    <2>2. g[n + 1] = Searched(succ, g[n])
        BY <1>1, <2>1
    <2>3. \/ g[n + 1] = g[n] /\ K(n) = V(n)
          \/ \E c \in K(n) \ V(n) : V(n + 1) = V(n) \cup {c} /\ K(n + 1) = K(n) \cup Range(succ[c])
        <3> DEFINE s == g[n]
        <3>1. s \in [seen : Seq(1 .. N), work : Seq(1 .. N)]
            BY <2>1
        <3> HIDE DEF s
        <3>2. Advances(succ, s, Searched(succ, s))
            <4> DEFINE D0 == 1 .. N
            <4>1. succ \in [D0 -> Seq(D0)] /\ s \in [seen : Seq(D0), work : Seq(D0)]
                BY <3>1
            <4> HIDE DEF D0
            <4> QED BY <4>1, SearchStep
        <3> QED BY <2>2, <3>2 DEF s, Advances
    <2>4. CASE g[n + 1] = g[n] /\ K(n) = V(n)
        <3>1. K(n + 1) = V(n + 1) /\ V(n + 1) = V(n) /\ K(n + 1) = K(n)
            BY <2>4
        <3> QED BY <2>1, <3>1
    <2>5. ASSUME NEW c \in K(n) \ V(n), V(n + 1) = V(n) \cup {c}, K(n + 1) = K(n) \cup Range(succ[c])
          PROVE  Good(n + 1)
        <3> HIDE DEF V, K
        <3>1. IsFiniteSet(V(n + 1)) /\ Cardinality(V(n + 1)) = n + 1
            <4>1. IsFiniteSet(V(n)) /\ Cardinality(V(n)) = n /\ c \notin V(n)
                BY <2>1, <2>5
            <4>2. IsFiniteSet(V(n) \cup {c}) /\ Cardinality(V(n) \cup {c}) = n + 1
                BY <4>1, FS_AddElement
            <4> QED BY <2>5, <4>2
        <3> QED BY <2>1, <2>5, <3>1
    <2> QED BY <2>3, <2>4, <2>5
<1>4. Good(N)
    <2>1. N \in S
        <3> HIDE DEF S
        <3> QED BY <1>2, <1>3, EveryNumber
    <2> QED BY <2>1
<1>5. g[N] \in T /\ g[N].seen \in Seq(D)
    OBVIOUS
<1>6. V(N) \subseteq D /\ K(N) \subseteq D
    <2>1. ASSUME NEW q \in Seq(D) PROVE Range(q) \subseteq D
        <3> HIDE DEF D
        <3>1. \A i \in DOMAIN q : q[i] \in D
            OBVIOUS
        <3> QED BY <3>1 DEF Range
    <2>2. g[N].work \in Seq(D)
        BY <1>5
    <2> QED BY <1>5, <2>1, <2>2 DEF Known
<1>7. K(N) = V(N)
    <2>1. IsFiniteSet(D) /\ Cardinality(D) = N
        BY FS_Interval
    <2> HIDE DEF V, D
    <2>2. V(N) \in SUBSET D
        BY <1>6
    <2>3. Cardinality(V(N)) = N => V(N) = D
        BY <2>1, <2>2, FS_Subset
    <2>4. V(N) \subseteq K(N)
        BY DEF V, Known
    <2> QED BY <1>4, <1>6, <2>3, <2>4
<1> QED BY <1>1, <1>4, <1>5, <1>6, <1>7

-----------------------------------------------------------------------------
(* What is assigned for certain: sets for each instruction that shrink, as *)
(* long as those before and after an instruction do not agree.             *)
Outgoing(is, succ, reach, entry, f, n) ==
    Infer!Incoming(succ, reach, entry, f, n) \cup Infer!Writes(is[n])

Below(f, g) == \A n \in DOMAIN f : f[n] \subseteq g[n]

Falls(is, succ, reach, entry, f) ==
    \A n \in Range(reach) : Outgoing(is, succ, reach, entry, f, n) \subseteq f[n]

Rises(is, succ, reach, entry, f) ==
    \A n \in Range(reach) : f[n] \subseteq Outgoing(is, succ, reach, entry, f, n)

IsFlowProblem(is, succ, reach, U) ==
    /\ Len(is) \in Nat /\ DOMAIN is = 1 .. Len(is)
    /\ reach \in Seq(DOMAIN is)
    /\ Infer!Runtime \subseteq U
    /\ \A n \in DOMAIN is : Infer!Writes(is[n]) \subseteq U

LEMMA IncomingGrows ==
    ASSUME NEW is, NEW succ, NEW reach, NEW entry, NEW U, IsFlowProblem(is, succ, reach, U),
           NEW f \in [DOMAIN is -> SUBSET U], NEW g \in [DOMAIN is -> SUBSET U],
           Below(f, g), NEW n
    PROVE  /\ Infer!Incoming(succ, reach, entry, f, n) \subseteq U
           /\ Infer!Incoming(succ, reach, entry, f, n)
                 \subseteq Infer!Incoming(succ, reach, entry, g, n)
<1> DEFINE preds == {p \in Range(reach) : n \in Range(succ[p])}
           In(h) == Infer!Incoming(succ, reach, entry, h, n)
<1>1. \A h : In(h) = IF n = entry \/ preds = {} THEN Infer!Runtime
                     ELSE {r \in UNION {h[p] : p \in preds} : \A p \in preds : r \in h[p]}
    BY Zenon DEF Infer!Incoming, Infer!Range, Range
<1>2. Range(reach) \subseteq DOMAIN is
    BY DEF IsFlowProblem, Range
<1>3. \A p \in preds : f[p] \subseteq g[p] /\ f[p] \subseteq U
    BY <1>2 DEF Below
<1>4. Infer!Runtime \subseteq U
    BY DEF IsFlowProblem
<1> HIDE DEF preds, In
<1>5. ASSUME NEW r \in In(f) PROVE r \in U /\ r \in In(g)
    <2>1. CASE n = entry \/ preds = {}
        BY <1>1, <1>4, <1>5, <2>1
    <2>2. CASE ~(n = entry \/ preds = {})
        <3>1. \A p \in preds : r \in f[p]
            BY <1>1, <1>5, <2>2
        <3>2. \A p \in preds : r \in g[p] /\ r \in U
            BY <1>3, <3>1
        <3>3. r \in UNION {g[p] : p \in preds}
            BY <2>2, <3>2
        <3> QED BY <1>1, <2>2, <3>2, <3>3
    <2> QED BY <2>1, <2>2
<1> QED BY <1>5 DEF In

\* A visit of an instruction.
Visited(is, succ, reach, entry, f, n) ==
    [f EXCEPT ![n] = Outgoing(is, succ, reach, entry, f, n)]

LEMMA VisitKeeps ==
    ASSUME NEW is, NEW succ, NEW reach, NEW entry, NEW U, IsFlowProblem(is, succ, reach, U),
           NEW f \in [DOMAIN is -> SUBSET U], Falls(is, succ, reach, entry, f),
           NEW n \in Range(reach),
           NEW low \in [DOMAIN is -> SUBSET U], Rises(is, succ, reach, entry, low),
           Below(low, f)
    PROVE  LET g == Visited(is, succ, reach, entry, f, n)
           IN  /\ g \in [DOMAIN is -> SUBSET U]
               /\ Falls(is, succ, reach, entry, g)
               /\ Below(g, f) /\ Below(low, g)
<1> DEFINE g == Visited(is, succ, reach, entry, f, n)
           Out(h, m) == Outgoing(is, succ, reach, entry, h, m)
<1>1. n \in DOMAIN is /\ Range(reach) \subseteq DOMAIN is
    BY DEF IsFlowProblem, Range
<1>2. Below(f, f)
    BY DEF Below
<1>3. Out(f, n) \subseteq U
    BY <1>1, <1>2, IncomingGrows DEF Outgoing, IsFlowProblem
<1>4. Out(f, n) \subseteq f[n]
    BY DEF Falls
<1>5. /\ g \in [DOMAIN is -> SUBSET U] /\ g[n] = Out(f, n)
      /\ \A m \in DOMAIN is : m # n => g[m] = f[m]
    BY <1>1, <1>3 DEF Visited
<1> HIDE DEF g
<1>6. Below(g, f)
    <2>1. \A m \in DOMAIN is : g[m] \subseteq f[m]
        BY <1>4, <1>5
    <2> QED BY <1>5, <2>1 DEF Below
<1>7. ASSUME NEW m \in Range(reach) PROVE Out(g, m) \subseteq g[m]
    <2>1. Out(g, m) \subseteq Out(f, m)
        BY <1>5, <1>6, IncomingGrows DEF Outgoing
    <2>2. CASE m = n
        BY <1>5, <2>1, <2>2
    <2>3. CASE m # n
        BY <1>1, <1>5, <2>1, <2>3 DEF Falls
    <2> QED BY <2>2, <2>3
<1>8. Below(low, g)
    <2>1. low[n] \subseteq Out(low, n)
        BY DEF Rises
    <2>2. Out(low, n) \subseteq Out(f, n)
        BY IncomingGrows DEF Outgoing
    <2>3. \A m \in DOMAIN is : low[m] \subseteq g[m]
        BY <1>5, <2>1, <2>2 DEF Below
    <2> QED BY <2>3 DEF Below
<1>9. Falls(is, succ, reach, entry, g)
    BY <1>7 DEF Falls
<1> QED BY <1>5, <1>6, <1>8, <1>9 DEF g

\* A round is a loop of visits.
AreVisits(is, succ, reach, entry, f, g) ==
    /\ Infer!Round(is, succ, reach, entry, f) = g[Len(reach)]
    /\ g[0] = f
    /\ \A k \in 1 .. Len(reach) : g[k] = Visited(is, succ, reach, entry, g[k - 1], reach[k])

LEMMA RoundRuns ==
    ASSUME NEW is, NEW succ, NEW reach, NEW entry, NEW U, IsFlowProblem(is, succ, reach, U),
           NEW f \in [DOMAIN is -> SUBSET U], Falls(is, succ, reach, entry, f)
    PROVE  \E g : AreVisits(is, succ, reach, entry, f, g)
<1> DEFINE N == Len(reach)
           T == {h \in [DOMAIN is -> SUBSET U] : Falls(is, succ, reach, entry, h)}
           Then(h, k) == Visited(is, succ, reach, entry, h, reach[k])
           IsLoop(g) == g = [k \in 0 .. N |-> IF k = 0 THEN f ELSE Then(g[k - 1], k)]
           loop == CHOOSE g : IsLoop(g)
<1>1. N \in Nat /\ \A k \in 1 .. N : reach[k] \in Range(reach)
    BY DEF IsFlowProblem, Range
<1>2. ASSUME NEW h \in T, NEW k \in 1 .. N PROVE Then(h, k) \in T
    <2> DEFINE low == [n \in DOMAIN is |-> {}]
    <2>1. /\ low \in [DOMAIN is -> SUBSET U] /\ Rises(is, succ, reach, entry, low)
          /\ Below(low, h)
        <3>1. Range(reach) \subseteq DOMAIN is
            BY DEF IsFlowProblem, Range
        <3> QED BY <3>1 DEF Rises, Below
    <2> HIDE DEF low
    <2> QED BY <1>1, <2>1, VisitKeeps
<1>3. \E g : IsLoop(g)
    <2> DEFINE step == [k \in 1 .. N |-> [h \in T |-> Then(h, k)]]
    <2>1. step \in [1 .. N -> [T -> T]]
        BY <1>2
    <2>2. \A k \in 1 .. N : \A h \in T : step[k][h] = Then(h, k)
        OBVIOUS
    <2>3. f \in T
        OBVIOUS
    <2> HIDE DEF T, step, Then, N
    <2>4. PICK g \in [0 .. N -> T] : IsRun(g, N, f, step)
        BY <1>1, <2>1, <2>3, LoopRuns
    <2>5. ASSUME NEW k \in 0 .. N
          PROVE  g[k] = IF k = 0 THEN f ELSE Then(g[k - 1], k)
        <3>1. k # 0 => k \in 1 .. N /\ k - 1 \in 0 .. N
            BY <1>1
        <3> QED BY <2>2, <2>4, <3>1 DEF IsRun
    <2>6. g = [k \in 0 .. N |-> IF k = 0 THEN f ELSE Then(g[k - 1], k)]
        BY <2>5
    <2> QED BY <2>6
<1>4. IsLoop(loop)
    BY <1>3
<1>5. Infer!Round(is, succ, reach, entry, f) = loop[N]
    BY Zenon DEF Infer!Round, Visited, Outgoing
<1> HIDE DEF loop
<1>6. \A k \in 1 .. N : k \in 0 .. N /\ k # 0
    OBVIOUS
<1> QED BY <1>1, <1>4, <1>5, <1>6 DEF AreVisits

\* It leaves out what need not be assigned, never what must be; and it leaves
\* everything as it is only if before and after agree.
LEMMA RoundKeeps ==
    ASSUME NEW is, NEW succ, NEW reach, NEW entry, NEW U, IsFlowProblem(is, succ, reach, U),
           NEW f \in [DOMAIN is -> SUBSET U], Falls(is, succ, reach, entry, f),
           NEW low \in [DOMAIN is -> SUBSET U], Rises(is, succ, reach, entry, low),
           Below(low, f)
    PROVE  LET g == Infer!Round(is, succ, reach, entry, f)
           IN  /\ g \in [DOMAIN is -> SUBSET U]
               /\ Falls(is, succ, reach, entry, g)
               /\ Below(g, f) /\ Below(low, g)
               /\ g = f => Rises(is, succ, reach, entry, f)
<1> DEFINE N == Len(reach)
<1>1. N \in Nat /\ \A k \in 1 .. N : reach[k] \in Range(reach)
    BY DEF IsFlowProblem, Range
<1>2. PICK g : AreVisits(is, succ, reach, entry, f, g)
    BY RoundRuns
<1> DEFINE Good(k) == /\ g[k] \in [DOMAIN is -> SUBSET U]
                      /\ Falls(is, succ, reach, entry, g[k])
                      /\ Below(low, g[k])
                      /\ \A j \in 0 .. k : Below(g[k], g[j])
           S == {k \in Nat : k <= N => Good(k)}
<1>3. 0 \in S
    <2>1. Below(f, f) /\ \A j \in 0 .. 0 : j = 0
        BY DEF Below
    <2> QED BY <1>2, <2>1 DEF AreVisits
<1>4. ASSUME NEW k \in Nat, k \in S PROVE k + 1 \in S
    <2> SUFFICES ASSUME k + 1 <= N PROVE Good(k + 1)
        OBVIOUS
    <2>1. Good(k) /\ k + 1 \in 1 .. N /\ (k + 1) - 1 = k /\ k \in 0 .. k
        BY <1>1, <1>4
    <2> DEFINE h == g[k]
    <2>2. g[k + 1] = Visited(is, succ, reach, entry, h, reach[k + 1]) /\ reach[k + 1] \in Range(reach)
        BY <1>1, <1>2, <2>1 DEF AreVisits
    <2>3. /\ h \in [DOMAIN is -> SUBSET U] /\ Falls(is, succ, reach, entry, h)
          /\ Below(low, h)
        BY <2>1
    <2> HIDE DEF h
    <2>4. /\ g[k + 1] \in [DOMAIN is -> SUBSET U] /\ Falls(is, succ, reach, entry, g[k + 1])
          /\ Below(g[k + 1], h) /\ Below(low, g[k + 1])
        <3> DEFINE m == reach[k + 1]
                   v == Visited(is, succ, reach, entry, h, m)
        <3>1. m \in Range(reach)
            BY <2>2
        <3> HIDE DEF m
        <3>2. /\ v \in [DOMAIN is -> SUBSET U] /\ Falls(is, succ, reach, entry, v)
              /\ Below(v, h) /\ Below(low, v)
            BY <2>3, <3>1, VisitKeeps
        <3> QED BY <2>2, <3>2 DEF m
    <2>5. ASSUME NEW j \in 0 .. k + 1 PROVE Below(g[k + 1], g[j])
        <3>1. CASE j = k + 1
            BY <3>1 DEF Below
        <3>2. CASE j # k + 1
            <4>1. j \in 0 .. k
                BY <3>2
            <4>2. Below(h, g[j])
                BY <2>1, <4>1 DEF h
            <4> QED BY <2>3, <2>4, <4>2 DEF Below
        <3> QED BY <3>1, <3>2
    <2> QED BY <2>4, <2>5
<1>5. \A k \in 0 .. N : Good(k)
    <2>1. Nat \subseteq S
        <3> HIDE DEF S
        <3> QED BY <1>3, <1>4, EveryNumber
    <2> QED BY <1>1, <2>1
<1>6. Good(N) /\ Below(g[N], f)
    <2>1. N \in 0 .. N /\ 0 \in 0 .. N
        BY <1>1
    <2>2. Good(N)
        BY <1>5, <2>1
    <2> QED BY <1>2, <2>1, <2>2 DEF AreVisits
<1>7. ASSUME g[N] = f, NEW n \in Range(reach)
      PROVE  f[n] \subseteq Outgoing(is, succ, reach, entry, f, n)
    <2>1. PICK k \in 1 .. N : n = reach[k]
        BY <1>1 DEF Range, IsFlowProblem
    <2>2. /\ k \in 0 .. N /\ k - 1 \in 0 .. N /\ k \in 0 .. N /\ N \in Nat
          /\ n \in DOMAIN is
        BY <1>1, <2>1 DEF IsFlowProblem, Range
    <2>3. \A j \in 0 .. N : Below(f, g[j]) /\ Below(g[j], f) /\ g[j] \in [DOMAIN is -> SUBSET U]
        <3> TAKE j \in 0 .. N
        <3>1. Good(j) /\ 0 \in 0 .. j
            BY <1>1, <1>5
        <3>2. Below(g[N], g[j])
            BY <1>6
        <3> QED BY <1>2, <1>7, <3>1, <3>2 DEF AreVisits
    <2>4. \A j \in 0 .. N : g[j] = f
        <3> TAKE j \in 0 .. N
        <3>1. g[j] \in [DOMAIN is -> SUBSET U] /\ Below(f, g[j]) /\ Below(g[j], f)
            BY <2>3
        <3> DEFINE h == g[j]
        <3>2. DOMAIN f = DOMAIN is /\ DOMAIN h = DOMAIN is
            BY <3>1
        <3> HIDE DEF h
        <3>3. \A m \in DOMAIN is : f[m] \subseteq h[m] /\ h[m] \subseteq f[m]
            BY <3>1, <3>2 DEF Below, h
        <3>4. \A m \in DOMAIN is : f[m] = h[m]
            BY <3>3
        <3> QED BY <3>1, <3>4 DEF h
    <2>5. f = Visited(is, succ, reach, entry, f, n)
        BY <1>2, <2>1, <2>2, <2>4 DEF AreVisits
    <2> QED BY <2>2, <2>5 DEF Visited
<1>8. g[N] = f => Rises(is, succ, reach, entry, f)
    BY <1>7 DEF Rises
<1> QED BY <1>2, <1>6, <1>8 DEF AreVisits

\* How much is taken to be assigned: less with each change.
Pairs(D, U, f) == {q \in D \X U : q[2] \in f[q[1]]}

LEMMA FlowShrinks ==
    ASSUME NEW D, NEW U, IsFiniteSet(D), IsFiniteSet(U),
           NEW f \in [D -> SUBSET U], NEW g \in [D -> SUBSET U], Below(g, f)
    PROVE  /\ Cardinality(Pairs(D, U, f)) \in Nat /\ Cardinality(Pairs(D, U, g)) \in Nat
           /\ g # f => Cardinality(Pairs(D, U, g)) < Cardinality(Pairs(D, U, f))
<1> DEFINE P(h) == Pairs(D, U, h)
<1>1. IsFiniteSet(D \X U)
    BY FS_Product
<1>2. P(g) \subseteq P(f) /\ P(f) \subseteq D \X U
    BY DEF Pairs, Below
<1>3. IsFiniteSet(P(f)) /\ IsFiniteSet(P(g))
    BY <1>1, <1>2, FS_Subset
<1>4. ASSUME P(g) = P(f) PROVE g = f
    <2>1. ASSUME NEW n \in D PROVE g[n] = f[n]
        <3>1. \A r \in U : r \in f[n] => r \in g[n]
            <4> TAKE r \in U
            <4>1. <<n, r>> \in P(f) <=> r \in f[n]
                BY DEF Pairs
            <4>2. <<n, r>> \in P(g) <=> r \in g[n]
                BY DEF Pairs
            <4> QED BY <1>4, <4>1, <4>2
        <3>2. g[n] \subseteq f[n]
            BY DEF Below
        <3> QED BY <3>1, <3>2
    <2> QED BY <2>1
<1> HIDE DEF P
<1>5. Cardinality(P(f)) \in Nat /\ Cardinality(P(g)) \in Nat
    BY <1>3, FS_CardinalityType
<1>6. Cardinality(P(g)) <= Cardinality(P(f))
      /\ (Cardinality(P(f)) = Cardinality(P(g)) => P(f) = P(g))
    BY <1>2, <1>3, FS_Subset
<1> QED BY <1>4, <1>5, <1>6 DEF P

AreRounds(is, succ, reach, entry, U, most, g) ==
    /\ Infer!Settle(is, succ, reach, entry, U)
          = g[CHOOSE n \in 1 .. most : g[n] = g[n - 1]]
    /\ g[0] = [n \in DOMAIN is |-> U]
    /\ \A n \in 1 .. most : g[n] = Infer!Round(is, succ, reach, entry, g[n - 1])

Most(is, U) == Len(is) * Cardinality(U) + 1

\* At the start everything is taken to be assigned everywhere.
LEMMA AllFalls ==
    ASSUME NEW is, NEW succ, NEW reach, NEW entry, NEW U, IsFlowProblem(is, succ, reach, U),
           NEW all, all = [n \in DOMAIN is |-> U]
    PROVE  /\ all \in [DOMAIN is -> SUBSET U] /\ Falls(is, succ, reach, entry, all)
           /\ \A low \in [DOMAIN is -> SUBSET U] : Below(low, all)
<1>1. /\ all \in [DOMAIN is -> SUBSET U] /\ \A n \in DOMAIN is : all[n] = U
    OBVIOUS
<1>2. \A low \in [DOMAIN is -> SUBSET U] : Below(low, all)
    BY <1>1 DEF Below
<1>3. ASSUME NEW n \in Range(reach) PROVE Outgoing(is, succ, reach, entry, all, n) \subseteq all[n]
    <2>1. n \in DOMAIN is
        BY DEF IsFlowProblem, Range
    <2>2. Infer!Incoming(succ, reach, entry, all, n) \subseteq U
        BY <1>1, <1>2, IncomingGrows
    <2> QED BY <1>1, <2>1, <2>2 DEF Outgoing, IsFlowProblem
<1> QED BY <1>1, <1>2, <1>3 DEF Falls

LEMMA RoundsRun ==
    ASSUME NEW is, NEW succ, NEW reach, NEW entry, NEW U, IsFlowProblem(is, succ, reach, U),
           IsFiniteSet(U)
    PROVE  \E g : AreRounds(is, succ, reach, entry, U, Most(is, U), g)
<1> DEFINE N == Most(is, U)
           T == {h \in [DOMAIN is -> SUBSET U] : Falls(is, succ, reach, entry, h)}
           all == [n \in DOMAIN is |-> U]
           Then(h) == Infer!Round(is, succ, reach, entry, h)
           IsLoop(g) == g = [n \in 0 .. N |-> IF n = 0 THEN all ELSE Then(g[n - 1])]
           loop == CHOOSE g : IsLoop(g)
<1>1. N \in Nat
    BY FS_CardinalityType DEF Most, IsFlowProblem
<1>2. ASSUME NEW h \in T PROVE Then(h) \in T
    <2> DEFINE low == [n \in DOMAIN is |-> {}]
    <2>1. /\ low \in [DOMAIN is -> SUBSET U] /\ Rises(is, succ, reach, entry, low)
          /\ Below(low, h)
        <3>1. Range(reach) \subseteq DOMAIN is
            BY DEF IsFlowProblem, Range
        <3> QED BY <3>1 DEF Rises, Below
    <2> HIDE DEF low
    <2> QED BY <2>1, RoundKeeps
<1>3. \E g : IsLoop(g)
    <2> DEFINE step == [n \in 1 .. N |-> [h \in T |-> Then(h)]]
    <2>1. step \in [1 .. N -> [T -> T]]
        BY <1>2
    <2>2. \A n \in 1 .. N : \A h \in T : step[n][h] = Then(h)
        OBVIOUS
    <2>3. all \in T
        BY AllFalls
    <2> HIDE DEF T, step, Then, N, all
    <2>4. PICK g \in [0 .. N -> T] : IsRun(g, N, all, step)
        BY <1>1, <2>1, <2>3, LoopRuns
    <2>5. ASSUME NEW n \in 0 .. N
          PROVE  g[n] = IF n = 0 THEN all ELSE Then(g[n - 1])
        <3>1. n # 0 => n \in 1 .. N /\ n - 1 \in 0 .. N
            BY <1>1
        <3> QED BY <2>2, <2>4, <3>1 DEF IsRun
    <2>6. g = [n \in 0 .. N |-> IF n = 0 THEN all ELSE Then(g[n - 1])]
        BY <2>5
    <2> QED BY <2>6
<1>4. IsLoop(loop)
    BY <1>3
<1>5. Infer!Settle(is, succ, reach, entry, U) = loop[CHOOSE n \in 1 .. N : loop[n] = loop[n - 1]]
    BY Zenon DEF Infer!Settle, Most, Infer!Cardinality, Cardinality
<1> HIDE DEF loop
<1>6. \A n \in 1 .. N : n \in 0 .. N /\ n # 0
    BY <1>1
<1>7. 0 \in 0 .. N
    BY <1>1
<1> QED BY <1>4, <1>5, <1>6, <1>7 DEF AreRounds

LEMMA RoundsKeep ==
    ASSUME NEW is, NEW succ, NEW reach, NEW entry, NEW U, IsFlowProblem(is, succ, reach, U),
           NEW most \in Nat, NEW g, AreRounds(is, succ, reach, entry, U, most, g),
           NEW low \in [DOMAIN is -> SUBSET U], Rises(is, succ, reach, entry, low)
    PROVE  \A n \in 0 .. most : /\ g[n] \in [DOMAIN is -> SUBSET U]
                                /\ Falls(is, succ, reach, entry, g[n])
                                /\ Below(low, g[n])
<1> DEFINE Good(n) == /\ g[n] \in [DOMAIN is -> SUBSET U]
                      /\ Falls(is, succ, reach, entry, g[n])
                      /\ Below(low, g[n])
           S == {n \in Nat : n <= most => Good(n)}
<1>1. 0 \in S
    <2> DEFINE all == g[0]
    <2>1. all = [n \in DOMAIN is |-> U]
        BY DEF AreRounds
    <2> HIDE DEF all
    <2>2. /\ all \in [DOMAIN is -> SUBSET U] /\ Falls(is, succ, reach, entry, all)
          /\ Below(low, all)
        BY <2>1, AllFalls
    <2>3. Good(0)
        BY <2>2 DEF all
    <2> QED BY <2>3
<1>2. ASSUME NEW n \in Nat, n \in S PROVE n + 1 \in S
    <2> SUFFICES ASSUME n + 1 <= most PROVE Good(n + 1)
        OBVIOUS
    <2> DEFINE h == g[n]
    <2>1. Good(n) /\ n + 1 \in 1 .. most /\ (n + 1) - 1 = n
        BY <1>2
    <2>2. g[n + 1] = Infer!Round(is, succ, reach, entry, h)
        BY <2>1 DEF AreRounds
    <2>3. /\ h \in [DOMAIN is -> SUBSET U] /\ Falls(is, succ, reach, entry, h)
          /\ Below(low, h)
        BY <2>1
    <2> HIDE DEF h
    <2> QED BY <2>2, <2>3, RoundKeeps
<1>3. Nat \subseteq S
    <2> HIDE DEF S
    <2> QED BY <1>1, <1>2, EveryNumber
<1> QED BY <1>3

\* Some round changes nothing.
LEMMA RoundsEnd ==
    ASSUME NEW is, NEW succ, NEW reach, NEW entry, NEW U, IsFlowProblem(is, succ, reach, U),
           IsFiniteSet(U),
           NEW g, AreRounds(is, succ, reach, entry, U, Most(is, U), g)
    PROVE  \E n \in 1 .. Most(is, U) : g[n] = g[n - 1]
<1> DEFINE most == Most(is, U)
           D == DOMAIN is
           all == Len(is) * Cardinality(U)
           size(n) == Cardinality(Pairs(D, U, g[n]))
           low == [n \in D |-> {}]
<1>1. /\ most \in Nat /\ all \in Nat /\ most = all + 1
      /\ IsFiniteSet(D) /\ Cardinality(D) = Len(is)
    <2>1. Cardinality(U) \in Nat /\ Len(is) \in Nat /\ D = 1 .. Len(is)
        BY FS_CardinalityType DEF IsFlowProblem
    <2>2. IsFiniteSet(1 .. Len(is)) /\ Cardinality(1 .. Len(is)) = Len(is)
        <3>1. 1 \in Int /\ Len(is) \in Int
            BY <2>1
        <3>2. /\ IsFiniteSet(1 .. Len(is))
              /\ Cardinality(1 .. Len(is)) = IF 1 > Len(is) THEN 0 ELSE Len(is) - 1 + 1
            BY <3>1, FS_Interval
        <3>3. (IF 1 > Len(is) THEN 0 ELSE Len(is) - 1 + 1) = Len(is)
            BY <2>1
        <3> QED BY <3>2, <3>3
    <2>3. all \in Nat
        BY <2>1
    <2> QED BY <2>1, <2>2, <2>3 DEF Most
<1>2. low \in [D -> SUBSET U] /\ Rises(is, succ, reach, entry, low)
    <2>1. Range(reach) \subseteq D
        BY DEF IsFlowProblem, Range
    <2> QED BY <2>1 DEF Rises
<1> HIDE DEF low, most
<1>3. \A n \in 0 .. most : g[n] \in [D -> SUBSET U] /\ Falls(is, succ, reach, entry, g[n])
    <2>1. AreRounds(is, succ, reach, entry, U, most, g)
        BY DEF most
    <2>2. \A n \in 0 .. most : /\ g[n] \in [D -> SUBSET U]
                               /\ Falls(is, succ, reach, entry, g[n])
                               /\ Below(low, g[n])
        BY <1>1, <1>2, <2>1, RoundsKeep
    <2> QED BY <2>2
<1>4. ASSUME NEW n \in 1 .. most
      PROVE  /\ size(n) \in Nat /\ size(n - 1) \in Nat
             /\ g[n] # g[n - 1] => size(n) < size(n - 1)
    <2> DEFINE h == g[n - 1]
               k == g[n]
    <2>1. /\ n - 1 \in 0 .. most /\ n \in 0 .. most
          /\ k = Infer!Round(is, succ, reach, entry, h)
        BY <1>1 DEF AreRounds, most
    <2>2. h \in [D -> SUBSET U] /\ Falls(is, succ, reach, entry, h) /\ Below(low, h)
        <3>1. \A m \in D : low[m] = {}
            BY DEF low
        <3>2. DOMAIN low = D
            BY DEF low
        <3> QED BY <1>3, <2>1, <3>1, <3>2 DEF Below
    <2> HIDE DEF h, k
    <2>3. k \in [D -> SUBSET U] /\ Below(k, h)
        BY <1>2, <2>1, <2>2, RoundKeeps
    <2> HIDE DEF D
    <2>4. /\ Cardinality(Pairs(D, U, h)) \in Nat /\ Cardinality(Pairs(D, U, k)) \in Nat
          /\ k # h => Cardinality(Pairs(D, U, k)) < Cardinality(Pairs(D, U, h))
        BY <1>1, <2>2, <2>3, FlowShrinks
    <2> QED BY <2>4 DEF h, k
<1>5. SUFFICES ASSUME \A n \in 1 .. most : g[n] # g[n - 1] PROVE FALSE
    BY DEF most
<1> DEFINE S == {n \in Nat : n <= most => size(n) \in Nat /\ size(n) + n <= all}
<1>6. 0 \in S
    <2>1. IsFiniteSet(D \X U) /\ Cardinality(D \X U) = all
        BY <1>1, FS_Product
    <2>2. Pairs(D, U, g[0]) \subseteq D \X U
        BY DEF Pairs
    <2>3. size(0) <= all /\ size(0) \in Nat
        BY <2>1, <2>2, FS_Subset, FS_CardinalityType
    <2> QED BY <1>1, <2>3
<1>7. ASSUME NEW n \in Nat, n \in S PROVE n + 1 \in S
    <2> SUFFICES ASSUME n + 1 <= most PROVE size(n + 1) \in Nat /\ size(n + 1) + (n + 1) <= all
        OBVIOUS
    <2>1. n + 1 \in 1 .. most /\ (n + 1) - 1 = n /\ n <= most
        BY <1>1
    <2> HIDE DEF size
    <2>2. size(n + 1) \in Nat /\ size(n) \in Nat /\ size(n + 1) < size(n)
        BY <1>4, <1>5, <2>1
    <2>3. size(n) + n <= all
        BY <1>7, <2>1
    <2> QED BY <1>1, <2>2, <2>3
<1>8. Nat \subseteq S
    <2> HIDE DEF S
    <2> QED BY <1>6, <1>7, EveryNumber
<1>9. size(most) \in Nat /\ size(most) + most <= all
    BY <1>1, <1>8
<1> HIDE DEF size, all
<1> QED BY <1>1, <1>9

\* The greatest sets before and after the instructions that agree.
LEMMA SettleIs ==
    ASSUME NEW is, NEW succ, NEW reach, NEW entry, NEW U, IsFlowProblem(is, succ, reach, U),
           IsFiniteSet(U)
    PROVE  LET flow == Infer!Settle(is, succ, reach, entry, U)
           IN  /\ flow \in [DOMAIN is -> SUBSET U]
               /\ Falls(is, succ, reach, entry, flow) /\ Rises(is, succ, reach, entry, flow)
               /\ \A low \in [DOMAIN is -> SUBSET U] :
                     Rises(is, succ, reach, entry, low) => Below(low, flow)
<1> DEFINE most == Most(is, U)
           low0 == [n \in DOMAIN is |-> {}]
<1>1. PICK g : AreRounds(is, succ, reach, entry, U, most, g)
    BY RoundsRun
<1> DEFINE m == CHOOSE n \in 1 .. most : g[n] = g[n - 1]
           flow == g[m]
<1>2. most \in Nat
    <2>1. Cardinality(U) \in Nat /\ Len(is) \in Nat
        BY FS_CardinalityType DEF IsFlowProblem
    <2> QED BY <2>1 DEF Most
<1>3. m \in 1 .. most /\ g[m] = g[m - 1]
    <2>1. \E n \in 1 .. most : g[n] = g[n - 1]
        BY <1>1, RoundsEnd
    <2> QED BY <2>1
<1>4. Infer!Settle(is, succ, reach, entry, U) = flow
    BY <1>1 DEF AreRounds
<1>5. flow = Infer!Round(is, succ, reach, entry, flow)
    BY <1>1, <1>3 DEF AreRounds
<1> HIDE DEF m, most
<1>6. m \in 0 .. most
    BY <1>2, <1>3
<1>7. \A low \in [DOMAIN is -> SUBSET U] : Rises(is, succ, reach, entry, low)
         => /\ flow \in [DOMAIN is -> SUBSET U]
            /\ Falls(is, succ, reach, entry, flow)
            /\ Below(low, flow)
    BY <1>1, <1>2, <1>6, RoundsKeep
<1>8. low0 \in [DOMAIN is -> SUBSET U] /\ Rises(is, succ, reach, entry, low0)
    <2>1. Range(reach) \subseteq DOMAIN is
        BY DEF IsFlowProblem, Range
    <2> QED BY <2>1 DEF Rises
<1> HIDE DEF low0, flow
<1>9. Rises(is, succ, reach, entry, flow)
    BY <1>5, <1>7, <1>8, RoundKeeps
<1> QED BY <1>4, <1>7, <1>8, <1>9

-----------------------------------------------------------------------------
(* The ways from the entry that do not write a register.                   *)
Extended(code, r, W) ==
    W \cup UNION {MayFollow(code, k) : k \in {i \in W : r \notin Run!WrittenBy(code[i])}}

AreWays(code, entry, r, g) ==
    /\ UnwrittenAt(code, entry, r) = g[Len(code)]
    /\ g[0] = {entry}
    /\ \A n \in 1 .. Len(code) : g[n] = Extended(code, r, g[n - 1])

IsClosed(code, r, W) ==
    \A k \in W : r \notin Run!WrittenBy(code[k]) => MayFollow(code, k) \subseteq W

LEMMA ExtendedIs ==
    ASSUME NEW code, NEW r, NEW W \in SUBSET DOMAIN code
    PROVE  /\ Extended(code, r, W) \in SUBSET DOMAIN code /\ W \subseteq Extended(code, r, W)
           /\ IsClosed(code, r, W) <=> Extended(code, r, W) = W
           /\ \A S : W \subseteq S /\ IsClosed(code, r, S) => Extended(code, r, W) \subseteq S
<1>1. \A k : MayFollow(code, k) \subseteq DOMAIN code
    BY DEF MayFollow
<1>2. \A x : x \in Extended(code, r, W) <=>
          x \in W \/ \E k \in W : r \notin Run!WrittenBy(code[k]) /\ x \in MayFollow(code, k)
    BY DEF Extended
<1>3. Extended(code, r, W) \in SUBSET DOMAIN code /\ W \subseteq Extended(code, r, W)
    BY <1>1, <1>2
<1>4. IsClosed(code, r, W) <=> Extended(code, r, W) = W
    BY <1>2 DEF IsClosed
<1>5. \A S : W \subseteq S /\ IsClosed(code, r, S) => Extended(code, r, W) \subseteq S
    BY <1>2 DEF IsClosed
<1> QED BY <1>3, <1>4, <1>5

LEMMA WaysRun ==
    ASSUME NEW code, Len(code) \in Nat, DOMAIN code = 1 .. Len(code), NEW entry \in DOMAIN code,
           NEW r
    PROVE  \E g : AreWays(code, entry, r, g)
<1> DEFINE N == Len(code)
           T == SUBSET DOMAIN code
           first == {entry}
           IsLoop(g) == g = [n \in 0 .. N |-> IF n = 0 THEN first ELSE Extended(code, r, g[n - 1])]
           loop == CHOOSE g : IsLoop(g)
<1>1. first \in T /\ N \in Nat
    OBVIOUS
<1>2. \A W \in T : Extended(code, r, W) \in T
    BY ExtendedIs
<1>3. \E g : IsLoop(g)
    <2> DEFINE step == [n \in 1 .. N |-> [W \in T |-> Extended(code, r, W)]]
    <2>1. step \in [1 .. N -> [T -> T]]
        BY <1>2
    <2>2. \A n \in 1 .. N : \A W \in T : step[n][W] = Extended(code, r, W)
        OBVIOUS
    <2> HIDE DEF T, step, first, N
    <2>3. PICK f \in [0 .. N -> T] : IsRun(f, N, first, step)
        BY <1>1, <2>1, LoopRuns
    <2>4. ASSUME NEW n \in 0 .. N
          PROVE  f[n] = IF n = 0 THEN first ELSE Extended(code, r, f[n - 1])
        <3>1. n # 0 => n \in 1 .. N /\ n - 1 \in 0 .. N
            BY <1>1
        <3> QED BY <2>2, <2>3, <3>1 DEF IsRun
    <2>5. f = [n \in 0 .. N |-> IF n = 0 THEN first ELSE Extended(code, r, f[n - 1])]
        BY <2>4
    <2> QED BY <2>5
<1>4. IsLoop(loop)
    BY <1>3
<1>5. UnwrittenAt(code, entry, r) = loop[N]
    BY Zenon DEF UnwrittenAt, Extended
<1> HIDE DEF loop
<1>6. \A n \in 1 .. N : n \in 0 .. N /\ n # 0
    OBVIOUS
<1>7. 0 \in 0 .. N
    OBVIOUS
<1> QED BY <1>4, <1>5, <1>6, <1>7 DEF AreWays

\* The least set with the entry that such a way does not leave.
LEMMA UnwrittenIs ==
    ASSUME NEW code, Len(code) \in Nat, DOMAIN code = 1 .. Len(code), NEW entry \in DOMAIN code,
           NEW r
    PROVE  LET W == UnwrittenAt(code, entry, r)
           IN  /\ W \in SUBSET DOMAIN code /\ entry \in W /\ IsClosed(code, r, W)
               /\ \A S : entry \in S /\ IsClosed(code, r, S) => W \subseteq S
<1> DEFINE N == Len(code)
           D == DOMAIN code
<1>1. PICK g : AreWays(code, entry, r, g)
    BY WaysRun
<1>2. IsFiniteSet(D) /\ Cardinality(D) = N /\ N \in Nat
    <2>1. /\ IsFiniteSet(1 .. N)
          /\ Cardinality(1 .. N) = IF 1 > N THEN 0 ELSE N - 1 + 1
        BY FS_Interval
    <2>2. (IF 1 > N THEN 0 ELSE N - 1 + 1) = N
        OBVIOUS
    <2> QED BY <2>1, <2>2
<1> HIDE DEF D
<1> DEFINE Good(n) == /\ g[n] \in SUBSET D /\ entry \in g[n]
                      /\ IsClosed(code, r, g[n]) \/ Cardinality(g[n]) > n
                      /\ \A S : entry \in S /\ IsClosed(code, r, S) => g[n] \subseteq S
           P == {n \in Nat : n <= N => Good(n)}
<1>3. 0 \in P
    <2>1. g[0] = {entry}
        BY <1>1 DEF AreWays
    <2>2. Cardinality({entry}) = 1
        BY FS_Singleton
    <2>3. Cardinality(g[0]) > 0
        BY <2>1, <2>2
    <2>4. g[0] \in SUBSET D /\ entry \in g[0]
        BY <2>1 DEF D
    <2>5. \A S : entry \in S /\ IsClosed(code, r, S) => g[0] \subseteq S
        BY <2>1
    <2> QED BY <2>3, <2>4, <2>5
<1>4. ASSUME NEW n \in Nat, n \in P PROVE n + 1 \in P
    <2> SUFFICES ASSUME n + 1 <= N PROVE Good(n + 1)
        OBVIOUS
    <2> DEFINE W == g[n]
               E == g[n + 1]
    <2>1. n + 1 \in 1 .. N /\ (n + 1) - 1 = n /\ Good(n)
        BY <1>2, <1>4
    <2>2. E = Extended(code, r, W)
        BY <1>1, <2>1 DEF AreWays
    <2>3. W \in SUBSET DOMAIN code
        BY <2>1 DEF D
    <2> HIDE DEF W, E
    <2>4. /\ E \in SUBSET DOMAIN code /\ W \subseteq E
          /\ IsClosed(code, r, W) <=> E = W
          /\ \A S : W \subseteq S /\ IsClosed(code, r, S) => E \subseteq S
        BY <2>2, <2>3, ExtendedIs
    <2>5. IsClosed(code, r, E) \/ Cardinality(E) > n + 1
        <3>1. CASE IsClosed(code, r, W)
            BY <2>4, <3>1
        <3>2. CASE ~IsClosed(code, r, W)
            <4>1. IsFiniteSet(E) /\ Cardinality(E) \in Nat
                BY <1>2, <2>4, FS_Subset, FS_CardinalityType DEF D
            <4>2. E # W
                BY <2>4, <3>2
            <4>3. /\ IsFiniteSet(W) /\ Cardinality(W) <= Cardinality(E)
                  /\ Cardinality(W) # Cardinality(E)
                BY <2>4, <4>1, <4>2, FS_Subset
            <4>4. Cardinality(W) \in Nat
                BY <4>3, FS_CardinalityType
            <4>5. Cardinality(W) > n
                BY <2>1, <3>2 DEF W
            <4> QED BY <4>1, <4>3, <4>4, <4>5
        <3> QED BY <3>1, <3>2
    <2>6. entry \in W /\ \A S : entry \in S /\ IsClosed(code, r, S) => W \subseteq S
        BY <2>1 DEF W
    <2>7. \A S : entry \in S /\ IsClosed(code, r, S) => E \subseteq S
        BY <2>4, <2>6
    <2>8. E \in SUBSET D /\ entry \in E
        BY <2>4, <2>6 DEF D
    <2> QED BY <2>5, <2>7, <2>8 DEF E
<1>5. Good(N)
    <2>1. N \in P
        <3> HIDE DEF P, N
        <3> QED BY <1>2, <1>3, <1>4, EveryNumber
    <2> QED BY <2>1
<1>6. IsClosed(code, r, g[N])
    <2>1. Cardinality(g[N]) <= N /\ Cardinality(g[N]) \in Nat
        BY <1>2, <1>5, FS_Subset, FS_CardinalityType
    <2>2. ~(Cardinality(g[N]) > N)
        BY <1>2, <2>1
    <2> QED BY <1>5, <2>2
<1>7. UnwrittenAt(code, entry, r) = g[N]
    BY <1>1 DEF AreWays
<1> QED BY <1>5, <1>6, <1>7 DEF D

\* The instructions of a text and those of a program go the same ways and
\* write the same registers.
IsReading(is, succ, entry, U, code) ==
    /\ Len(is) \in Nat /\ DOMAIN is = 1 .. Len(is)
    /\ succ \in [1 .. Len(is) -> Seq(1 .. Len(is))]
    /\ entry \in 1 .. Len(is)
    /\ Len(code) = Len(is) /\ DOMAIN code = 1 .. Len(is)
    /\ Infer!Runtime \subseteq U /\ IsFiniteSet(U)
    /\ \A k \in 1 .. Len(is) :
          /\ Range(succ[k]) = MayFollow(code, k)
          /\ Infer!Writes(is[k]) = Run!WrittenBy(code[k])
          /\ Infer!Writes(is[k]) \subseteq U

\* What is assigned before an instruction reached.
Assigned(is, succ, entry, U, n) ==
    Infer!Incoming(succ, Infer!Reached(succ, entry), entry,
                   Infer!Settle(is, succ, Infer!Reached(succ, entry), entry, U), n)

LEMMA AssignedIs ==
    ASSUME NEW is, NEW succ, NEW entry, NEW U, NEW code, IsReading(is, succ, entry, U, code),
           NEW r \in U
    PROVE  LET R == Range(Infer!Reached(succ, entry))
               W == UnwrittenAt(code, entry, r)
           IN  /\ R \subseteq DOMAIN is
               /\ \A n \in R : Infer!Runtime \subseteq Assigned(is, succ, entry, U, n)
               /\ r \notin Infer!Runtime =>
                     /\ W \subseteq R
                     /\ \A n \in R : r \notin Assigned(is, succ, entry, U, n) <=> n \in W
<1> DEFINE N == Len(is)
           reach == Infer!Reached(succ, entry)
           R == Range(reach)
           flow == Infer!Settle(is, succ, reach, entry, U)
           W == UnwrittenAt(code, entry, r)
           In(f, n) == Infer!Incoming(succ, reach, entry, f, n)
           preds(n) == {p \in R : n \in Range(succ[p])}
<1>1. /\ reach \in Seq(1 .. N) /\ R \subseteq 1 .. N /\ entry \in R
      /\ \A p \in R : Range(succ[p]) \subseteq R
      /\ \A n \in R : n = entry \/ \E p \in R : n \in Range(succ[p])
    <2>1. /\ N \in Nat /\ succ \in [1 .. N -> Seq(1 .. N)] /\ entry \in 1 .. N
        BY DEF IsReading
    <2> HIDE DEF N
    <2> QED BY <2>1, ReachedIs
<1> HIDE DEF reach
<1>2. IsFlowProblem(is, succ, reach, U) /\ IsFiniteSet(U)
    BY <1>1 DEF IsReading, IsFlowProblem
<1>3. /\ flow \in [DOMAIN is -> SUBSET U]
      /\ Falls(is, succ, reach, entry, flow) /\ Rises(is, succ, reach, entry, flow)
      /\ \A low \in [DOMAIN is -> SUBSET U] :
            Rises(is, succ, reach, entry, low) => Below(low, flow)
    BY <1>2, SettleIs
<1> HIDE DEF flow
<1>4. /\ W \subseteq 1 .. N /\ entry \in W /\ IsClosed(code, r, W)
      /\ \A S : entry \in S /\ IsClosed(code, r, S) => W \subseteq S
    <2>1. Len(code) \in Nat /\ DOMAIN code = 1 .. Len(code) /\ entry \in DOMAIN code
          /\ DOMAIN code = 1 .. N
        BY DEF IsReading
    <2> HIDE DEF N
    <2> QED BY <2>1, UnwrittenIs
<1> HIDE DEF W
<1>5. \A f, n : In(f, n) = IF n = entry \/ preds(n) = {} THEN Infer!Runtime
                           ELSE {x \in UNION {f[p] : p \in preds(n)} : \A p \in preds(n) : x \in f[p]}
    BY Zenon DEF Infer!Incoming, Infer!Range, Range
<1>6. \A n \in R : n # entry => preds(n) # {}
    BY <1>1
<1>7. \A f, n, x : n \in R /\ n # entry => (x \in In(f, n) <=> \A p \in preds(n) : x \in f[p])
    <2> TAKE f, n, x
    <2> HAVE n \in R /\ n # entry
    <2> DEFINE Q == preds(n)
    <2>1. Q # {}
        BY <1>6
    <2>2. In(f, n) = {y \in UNION {f[p] : p \in Q} : \A p \in Q : y \in f[p]}
        BY <1>5, <2>1
    <2> HIDE DEF Q, In
    <2>3. (\A p \in Q : x \in f[p]) => x \in UNION {f[p] : p \in Q}
        BY <2>1
    <2>4. x \in In(f, n) <=> \A p \in Q : x \in f[p]
        BY <2>2, <2>3
    <2> QED BY <2>4 DEF Q
<1>8. \A f : In(f, entry) = Infer!Runtime
    BY <1>5
<1> HIDE DEF In
<1>9. \A k \in 1 .. N : Range(succ[k]) = MayFollow(code, k)
                        /\ Infer!Writes(is[k]) = Run!WrittenBy(code[k])
                        /\ Infer!Writes(is[k]) \subseteq U
    BY DEF IsReading
<1> DEFINE low == [m \in DOMAIN is |->
                      Infer!Runtime \cup IF m \notin W \/ r \in Infer!Writes(is[m]) THEN {r} ELSE {}]
<1>10. DOMAIN is = 1 .. N
    BY DEF IsReading
<1>11. low \in [DOMAIN is -> SUBSET U]
    BY <1>2 DEF IsFlowProblem
<1>12. \A m \in 1 .. N : low[m] = Infer!Runtime
                           \cup IF m \notin W \/ r \in Infer!Writes(is[m]) THEN {r} ELSE {}
    BY <1>10
<1> HIDE DEF low, N
<1>13. \A n \in R : Infer!Runtime \subseteq In(low, n)
    <2> TAKE n \in R
    <2>1. CASE n = entry
        BY <1>8, <2>1
    <2>2. CASE n # entry
        <3>1. \A p \in preds(n) : Infer!Runtime \subseteq low[p]
            BY <1>1, <1>12
        <3> QED BY <1>7, <2>2, <3>1
    <2> QED BY <2>1, <2>2
<1>14. \A n \in R : n \notin W => r \in In(low, n)
    <2> TAKE n \in R
    <2> HAVE n \notin W
    <2>1. n # entry
        BY <1>4
    <2>2. ASSUME NEW p \in preds(n) PROVE r \in low[p]
        <3>1. p \in 1 .. N /\ n \in MayFollow(code, p)
            BY <1>1, <1>9
        <3>2. p \notin W \/ r \in Infer!Writes(is[p])
            BY <1>4, <1>9, <3>1 DEF IsClosed
        <3> QED BY <1>12, <3>1, <3>2
    <2> QED BY <1>7, <2>1, <2>2
<1>15. Rises(is, succ, reach, entry, low)
    <2> SUFFICES ASSUME NEW n \in R PROVE low[n] \subseteq In(low, n) \cup Infer!Writes(is[n])
        BY DEF Rises, Outgoing, In
    <2> QED BY <1>1, <1>12, <1>13, <1>14
<1>16. \A m \in DOMAIN is : low[m] \subseteq flow[m]
    <2>1. Below(low, flow) /\ DOMAIN low = DOMAIN is
        BY <1>3, <1>11, <1>15
    <2> QED BY <2>1 DEF Below
<1>17. \A n \in R : In(low, n) \subseteq In(flow, n)
    <2> TAKE n \in R
    <2>1. CASE n = entry
        BY <1>8, <2>1
    <2>2. CASE n # entry
        BY <1>1, <1>7, <1>10, <1>16, <2>2
    <2> QED BY <2>1, <2>2
<1> DEFINE S == {n \in R : r \notin In(flow, n)}
<1>18. ASSUME r \notin Infer!Runtime PROVE W \subseteq S
    <2>1. entry \in S
        BY <1>1, <1>8, <1>18
    <2>2. IsClosed(code, r, S)
        <3> SUFFICES ASSUME NEW k \in S, r \notin Run!WrittenBy(code[k]),
                            NEW n \in MayFollow(code, k)
                     PROVE  n \in S
            BY DEF IsClosed
        <3>1. k \in R /\ k \in 1 .. N /\ n \in Range(succ[k]) /\ n \in R
            BY <1>1, <1>9
        <3>2. r \notin flow[k]
            <4>1. flow[k] \subseteq In(flow, k) \cup Infer!Writes(is[k])
                BY <1>3, <3>1 DEF Rises, Outgoing, In
            <4> QED BY <1>9, <3>1, <4>1
        <3>3. CASE n = entry
            BY <2>1, <3>3
        <3>4. CASE n # entry
            BY <1>7, <3>1, <3>2, <3>4
        <3> QED BY <3>3, <3>4
    <2> QED BY <1>4, <2>1, <2>2
<1>19. \A n : Assigned(is, succ, entry, U, n) = In(flow, n)
    BY DEF Assigned, In, flow, reach
<1>20. /\ R \subseteq DOMAIN is
       /\ \A n \in R : Infer!Runtime \subseteq Assigned(is, succ, entry, U, n)
    BY <1>1, <1>10, <1>13, <1>17, <1>19
<1>21. ASSUME r \notin Infer!Runtime
       PROVE  /\ W \subseteq R
              /\ \A n \in R : r \notin Assigned(is, succ, entry, U, n) <=> n \in W
    BY <1>1, <1>14, <1>17, <1>18, <1>19, <1>21
<1> QED BY <1>20, <1>21 DEF W, reach

-----------------------------------------------------------------------------
(* The components as they are put together.                                *)
\* The jobs that a caller of execute() may bring at all.
AnyJob == {j \in Exe!JobType : WordSize * Len(j.code) < Modulus(8)}

\* The components as their own proofs see them.
AsmP == INSTANCE AssemblerProofs WITH
            pc <- asm_pc, Sources <- {r.source : r \in Requests}, Samples <- {}
AnP  == INSTANCE AnalysisProofs WITH
            code <- Asm!Code, entry <- Asm!EntryPc, Programs <- {}
ExeP == INSTANCE ExecutorProofs WITH Jobs <- AnyJob

-----------------------------------------------------------------------------
(* The same operators, whatever they are reached through.                  *)
LEMMA SameConstants ==
    /\ AsmP!RegBits = RegBits /\ AsmP!WordSize = WordSize /\ AsmP!StackTop = StackTop
    /\ AnP!RegBits = RegBits /\ AnP!WordSize = WordSize /\ AnP!StackTop = StackTop
    /\ ExeP!RegBits = RegBits /\ ExeP!WordSize = WordSize /\ ExeP!StackTop = StackTop
    /\ \A w : /\ AsmP!Modulus(w) = Modulus(w) /\ AnP!Modulus(w) = Modulus(w)
              /\ ExeP!Modulus(w) = Modulus(w)
BY DEF AsmP!RegBits, AnP!RegBits, ExeP!RegBits, RegBits,
       AsmP!WordSize, AnP!WordSize, ExeP!WordSize, WordSize,
       AsmP!StackTop, AnP!StackTop, ExeP!StackTop, StackTop,
       AsmP!Modulus, AnP!Modulus, ExeP!Modulus, Modulus

LEMMA SameStatements == AsmP!StatementType = Asm!StatementType
BY DEF AsmP!StatementType, Asm!StatementType, AsmP!OperandsType,
       Asm!OperandsType, AsmP!Names, Asm!Names, AsmP!Option, Asm!Option,
       AsmP!One, Asm!One

LEMMA SameInstructions ==
    /\ AsmP!Instruction = Instruction /\ AnP!Instruction = Instruction
    /\ Exe!Instruction = Instruction
BY DEF AsmP!Instruction, AnP!Instruction, Exe!Instruction, Instruction,
       AsmP!RInst, AnP!RInst, Exe!RInst, RInst, AsmP!IInst, AnP!IInst,
       Exe!IInst, IInst, AsmP!LInst, AnP!LInst, Exe!LInst, LInst, AsmP!SInst,
       AnP!SInst, Exe!SInst, SInst, AsmP!BInst, AnP!BInst, Exe!BInst, BInst,
       AsmP!JalInst, AnP!JalInst, Exe!JalInst, JalInst, AsmP!JalrInst,
       AnP!JalrInst, Exe!JalrInst, JalrInst, AsmP!ROpCode, AnP!ROpCode,
       Exe!ROpCode, ROpCode, AsmP!I32, AnP!I32, Exe!I32, I32, AsmP!LoadOpCode,
       AnP!LoadOpCode, Exe!LoadOpCode, LoadOpCode, AsmP!MemoryRef,
       AnP!MemoryRef, Exe!MemoryRef, MemoryRef, AsmP!StoreOpCode,
       AnP!StoreOpCode, Exe!StoreOpCode, StoreOpCode, AsmP!BOpCode, AnP!BOpCode,
       Exe!BOpCode, BOpCode, AsmP!Target, AnP!Target, Exe!Target, Target,
       AsmP!Signed, AnP!Signed, Exe!Signed, Signed, AsmP!Option, AnP!Option,
       Exe!Option, Option, AsmP!U64, AnP!U64, Exe!U64, U64, AsmP!Modulus,
       AnP!Modulus, Exe!Modulus, Modulus, AsmP!Unsigned, AnP!Unsigned,
       Exe!Unsigned, Unsigned

LEMMA SameJobs == ExeP!JobType = Exe!JobType
BY ZenonT(30) DEF ExeP!JobType, Exe!JobType, ExeP!Instruction, Exe!Instruction, ExeP!U64,
       Exe!U64, ExeP!InputType, Exe!InputType, ExeP!RInst, Exe!RInst,
       ExeP!IInst, Exe!IInst, ExeP!LInst, Exe!LInst, ExeP!SInst, Exe!SInst,
       ExeP!BInst, Exe!BInst, ExeP!JalInst, Exe!JalInst, ExeP!JalrInst,
       Exe!JalrInst, ExeP!Unsigned, Exe!Unsigned, ExeP!I64, Exe!I64,
       ExeP!ROpCode, Exe!ROpCode, ExeP!I32, Exe!I32, ExeP!LoadOpCode,
       Exe!LoadOpCode, ExeP!MemoryRef, Exe!MemoryRef, ExeP!StoreOpCode,
       Exe!StoreOpCode, ExeP!BOpCode, Exe!BOpCode, ExeP!Target, Exe!Target,
       ExeP!Modulus, Exe!Modulus, ExeP!Signed, Exe!Signed, ExeP!Option,
       Exe!Option

LEMMA SameAssembly ==
    /\ \A text : Asm!Start(text) <=> AsmP!Start(text)
    /\ Asm!Next <=> AsmP!Next
BY ZenonT(60) DEF AsmP!Start, Asm!Start, AsmP!Next, Asm!Next, AsmP!AssembleInstruction,
       Asm!AssembleInstruction, AsmP!AssembleDirective, Asm!AssembleDirective,
       AsmP!AssembleLabel, Asm!AssembleLabel, AsmP!RefuseStatement,
       Asm!RefuseStatement, AsmP!Resolve, Asm!Resolve, AsmP!RefuseTarget,
       Asm!RefuseTarget, AsmP!Statement, Asm!Statement, AsmP!CreateInst,
       Asm!CreateInst, AsmP!WordSize, Asm!WordSize, AsmP!Unresolvable,
       Asm!Unresolvable, AsmP!ResolveTarget, Asm!ResolveTarget, AsmP!Range,
       Asm!Range, AsmP!I32, Asm!I32, AsmP!LowerMemoryOperand,
       Asm!LowerMemoryOperand, AsmP!LowerROperand, Asm!LowerROperand, AsmP!Addi,
       Asm!Addi, AsmP!LowerTwoRegisterBranch, Asm!LowerTwoRegisterBranch,
       AsmP!LowerLabelOperand, Asm!LowerLabelOperand, AsmP!Ret, Asm!Ret,
       AsmP!Signed, Asm!Signed, AsmP!Parse, Asm!Parse, AsmP!LoadOpCode,
       Asm!LoadOpCode, AsmP!StoreOpCode, Asm!StoreOpCode, AsmP!ROpCode,
       Asm!ROpCode, AsmP!Branch, Asm!Branch, AsmP!BOpCode, Asm!BOpCode,
       AsmP!LowerZeroBranch, Asm!LowerZeroBranch, AsmP!Modulus, Asm!Modulus,
       AsmP!OpCodes, Asm!OpCodes

LEMMA SameProgram == AsmP!Code = Asm!Code /\ AsmP!EntryPc = Asm!EntryPc
BY DEF AsmP!Code, Asm!Code, AsmP!EntryPc, Asm!EntryPc, AsmP!GlobalPcs, Asm!GlobalPcs

LEMMA SameIteration == Exe!Iterate <=> ExeP!Iterate
BY ZenonT(60) DEF ExeP!Iterate, Exe!Iterate, ExeP!ExceedLimit, Exe!ExceedLimit,
       ExeP!LeaveCode, Exe!LeaveCode, ExeP!ExecuteR, Exe!ExecuteR,
       ExeP!ExecuteI, Exe!ExecuteI, ExeP!ExecuteL, Exe!ExecuteL, ExeP!ExecuteS,
       Exe!ExecuteS, ExeP!ExecuteB, Exe!ExecuteB, ExeP!ExecuteJal,
       Exe!ExecuteJal, ExeP!ExecuteJalr, Exe!ExecuteJalr, ExeP!MemoryFault,
       Exe!MemoryFault, ExeP!MissTarget, Exe!MissTarget, ExeP!Panic, Exe!Panic,
       ExeP!LimitReached, Exe!LimitReached, ExeP!Stop, Exe!Stop,
       ExeP!InstructionAt, Exe!InstructionAt, ExeP!Fetched, Exe!Fetched,
       ExeP!RValue, Exe!RValue, ExeP!SetReg, Exe!SetReg, ExeP!Retire,
       Exe!Retire, ExeP!WordSize, Exe!WordSize, ExeP!Arith, Exe!Arith,
       ExeP!ResolveAddress, Exe!ResolveAddress, ExeP!Width, Exe!Width,
       ExeP!LoadValue, Exe!LoadValue, ExeP!LoadRaw, Exe!LoadRaw, ExeP!Fault,
       Exe!Fault, ExeP!MemoryEvent, Exe!MemoryEvent, ExeP!StoreRaw,
       Exe!StoreRaw, ExeP!AsUnsigned, Exe!AsUnsigned, ExeP!AsSigned,
       Exe!AsSigned, ExeP!PreviousValue, Exe!PreviousValue, ExeP!BranchTaken,
       Exe!BranchTaken, ExeP!Div, Exe!Div, ExeP!ShiftLeft, Exe!ShiftLeft,
       ExeP!AddState, Exe!AddState, ExeP!I64, Exe!I64, ExeP!Load8, Exe!Load8,
       ExeP!Load16, Exe!Load16, ExeP!Load32, Exe!Load32, ExeP!Load64,
       Exe!Load64, ExeP!Misaligned, Exe!Misaligned, ExeP!OutsideWindow,
       Exe!OutsideWindow, ExeP!Span, Exe!Span, ExeP!ByteOf, Exe!ByteOf,
       ExeP!Modulus, Exe!Modulus, ExeP!Quotient, Exe!Quotient, ExeP!RegBits,
       Exe!RegBits, ExeP!Signed, Exe!Signed, ExeP!StackTop, Exe!StackTop,
       ExeP!Magnitude, Exe!Magnitude

LEMMA SameStart ==
    /\ Exe!Init <=> ExeP!Init
    /\ \A j : Exe!Execute(j) <=> ExeP!Execute(j)
BY ZenonT(60) DEF ExeP!Init, Exe!Init, ExeP!Execute, Exe!Execute, ExeP!NoBytes,
       Exe!NoBytes, ExeP!EmptyTrace, Exe!EmptyTrace, ExeP!InitialRegs,
       Exe!InitialRegs, ExeP!AddState, Exe!AddState, ExeP!InitialState,
       Exe!InitialState, ExeP!IsLastFor, Exe!IsLastFor,
       ExeP!InitialStackPointer, Exe!InitialStackPointer, ExeP!Nil, Exe!Nil,
       ExeP!StackTop, Exe!StackTop

-----------------------------------------------------------------------------
(* run_pipeline() drives an assembler.                                     *)
LEMMA AssemblerSources ==
    /\ {r.source : r \in Requests} \subseteq Seq(AsmP!StatementType)
    /\ \A s \in {r.source : r \in Requests} : WordSize * Len(s) < Modulus(8)
BY SameStatements, PipelineAssumption

LEMMA AssemblerHolds == AsmP!Spec => [](AsmP!IInv /\ AsmP!TextIsAssembled)
BY AsmP!TextAssembled, WordsAssumption, MemoryAssumption, IsaAssumption,
   PipelineAssumption, SameConstants, AssemblerSources

LEMMA ProgramFits ==
    AsmP!IInv /\ phase = "assembled" => AsmP!IsAssembled(Asm!Code, Asm!EntryPc)
BY AsmP!CodeIsAssembled, WordsAssumption, MemoryAssumption, IsaAssumption,
   PipelineAssumption, SameConstants, AssemblerSources, SameProgram

(* assemble_source() is an assembler that takes each of the sources of the *)
(* calls from start to end (run_pipeline, assemble_source).                *)
THEOREM PipelineAssembles == Spec => AsmP!Spec
<1>1. Init => AsmP!Init
    <2> SUFFICES ASSUME Init PROVE AsmP!Init
        OBVIOUS
    <2>1. request.source \in {r.source : r \in Requests} /\ Asm!Start(request.source)
        BY DEF Init
    <2> QED BY <2>1, SameAssembly DEF AsmP!Init
<1>2. [Next]_vars => [AsmP!Next]_AsmP!vars
    <2> SUFFICES ASSUME [Next]_vars PROVE AsmP!Next \/ UNCHANGED AsmP!vars
        OBVIOUS
    <2>1. CASE Assemble
        BY <2>1, SameAssembly DEF Assemble
    <2>2. CASE AnalyzeProgram \/ StartProgram \/ RunProgram \/ Interpret \/ FailAllocation
        BY <2>2 DEF AnalyzeProgram, StartProgram, RunProgram, Interpret, FailAllocation,
                    asm_vars, AsmP!vars
    <2>3. CASE UNCHANGED vars
        BY <2>3 DEF vars, asm_vars, AsmP!vars
    <2> QED BY <2>1, <2>2, <2>3 DEF Next
<1> QED BY <1>1, <1>2, PTL DEF Spec, AsmP!Spec

-----------------------------------------------------------------------------
(* The inductive invariant of run_pipeline(): past the assembler there is  *)
(* a whole program, and it is that program which is analysed and run.      *)
Assembled == {"analyze", "execute", "interpret", "ok", "panic"}

StagesFollow ==
    /\ request \in Requests /\ source = request.source
    /\ stage \in Assembled \cup {"assemble", "err"}
    /\ stage \in Assembled => phase = "assembled"
    /\ stage = "assemble" => job = {} /\ analysis = {}
    /\ stage \in {"interpret", "ok"} => status = "ok"
    /\ (status = "idle") = (job = {})
    /\ job = {} => trace.states = <<>>

ProgramIsKept ==
    /\ analysis \subseteq {Analyze(Asm!Code, Asm!EntryPc)}
    /\ analysis # {} \/ job # {} => phase = "assembled"
    /\ \A j \in job : j.code = Asm!Code /\ j.entry = Asm!EntryPc /\ j.inputs = request.inputs

ResultIsDecoded ==
    result # {} => stage = "ok" /\ ~Unallocatable /\ result = {InterpretResult}

PInv == StagesFollow /\ ProgramIsKept /\ ResultIsDecoded

\* What the executor keeps, and when it is idle.
LEMMA IterationKeeps ==
    Exe!Iterate => job' = job /\ status = "running" /\ status' # "idle"
<1> SUFFICES ASSUME Exe!Iterate
             PROVE  job' = job /\ status = "running" /\ status' # "idle"
    OBVIOUS
<1>1. \A inst : inst \in Exe!Fetched => status = "running"
    BY DEF Exe!Fetched
<1>2. \A err : Exe!Stop(err) => job' = job /\ status' = err
    BY DEF Exe!Stop
<1>3. \A inst, next, taken, events, ends :
          Exe!Retire(inst, next, taken, events, ends) => job' = job /\ status' # "idle"
    BY DEF Exe!Retire
<1>4. CASE Exe!ExceedLimit \/ Exe!LeaveCode
    BY <1>2, <1>4 DEF Exe!ExceedLimit, Exe!LeaveCode
<1>5. CASE Exe!ExecuteR \/ Exe!ExecuteI \/ Exe!ExecuteJal \/ Exe!ExecuteJalr
    BY <1>1, <1>3, <1>5 DEF Exe!ExecuteR, Exe!ExecuteI, Exe!ExecuteJal, Exe!ExecuteJalr
<1>6. CASE Exe!ExecuteL
    BY <1>1, <1>3, <1>6 DEF Exe!ExecuteL
<1>7. CASE Exe!ExecuteS
    BY <1>1, <1>3, <1>7 DEF Exe!ExecuteS
<1>8. CASE Exe!ExecuteB
    BY <1>1, <1>3, <1>8 DEF Exe!ExecuteB
<1>9. CASE Exe!MissTarget \/ Exe!Panic
    BY <1>1, <1>2, <1>9 DEF Exe!MissTarget, Exe!Panic
<1>10. CASE Exe!MemoryFault
    <2>1. \A addr, w : "idle" \notin Exe!Fault(addr, w)
        BY DEF Exe!Fault
    <2> QED BY <1>1, <1>2, <1>10, <2>1 DEF Exe!MemoryFault
<1> QED BY <1>4, <1>5, <1>6, <1>7, <1>8, <1>9, <1>10 DEF Exe!Iterate

\* What becomes of the program, the request and the trace of a step.
LEMMA StaysAssembled ==
    ASSUME PInv, UNCHANGED <<request, analysis, result, asm_vars>>, job' = job,
           stage' \in Assembled \cup {"err"}, stage' \in Assembled => stage \in Assembled,
           stage # "ok", stage' # "ok",
           stage' = "interpret" => status' = "ok",
           (status' = "idle") = (job = {}), job = {} => trace' = trace
    PROVE  PInv'
<1>1. Asm!Code' = Asm!Code /\ Asm!EntryPc' = Asm!EntryPc
    BY DEF asm_vars, Asm!Code, Asm!EntryPc, Asm!GlobalPcs
<1>2. StagesFollow'
    BY DEF PInv, StagesFollow, asm_vars, Assembled
<1>3. ProgramIsKept'
    BY <1>1 DEF PInv, ProgramIsKept, asm_vars
<1>4. ResultIsDecoded'
    BY DEF PInv, ResultIsDecoded
<1> QED BY <1>2, <1>3, <1>4 DEF PInv

LEMMA PipelineStarts == Init => PInv
<1> SUFFICES ASSUME Init PROVE PInv
    OBVIOUS
<1>1. /\ request \in Requests /\ source = request.source /\ stage = "assemble"
      /\ analysis = {} /\ result = {} /\ job = {} /\ status = "idle" /\ trace.states = <<>>
    BY DEF Init, Asm!Start, Exe!Init, Exe!EmptyTrace
<1> QED BY <1>1 DEF PInv, StagesFollow, ProgramIsKept, ResultIsDecoded, Assembled

LEMMA PipelineStep ==
    ASSUME PInv, [Next]_vars
    PROVE  PInv'
<1>1. CASE Assemble
    <2>1. /\ stage = "assemble" /\ Asm!Next
          /\ UNCHANGED <<request, analysis, result, exe_vars>>
          /\ stage' = CASE phase' = "assembled" -> "analyze"
                        [] phase' = "refused"   -> "err"
                        [] OTHER                -> stage
        BY <1>1 DEF Assemble
    <2>2. source' = source
        BY <2>1 DEF Asm!Next, Asm!AssembleInstruction, Asm!AssembleDirective, Asm!AssembleLabel,
                    Asm!RefuseStatement, Asm!Resolve, Asm!RefuseTarget
    <2>3. \/ phase' = "assembled" /\ stage' = "analyze"
          \/ stage' \in {"err", "assemble"}
        BY <2>1
    <2>4. job = {} /\ analysis = {} /\ result = {}
        BY <2>1 DEF PInv, StagesFollow, ResultIsDecoded
    <2>5. /\ job' = {} /\ analysis' = {} /\ result' = {} /\ status' = status
          /\ trace' = trace /\ request' = request
        BY <2>1, <2>4 DEF exe_vars
    <2>6. StagesFollow'
        BY <2>2, <2>3, <2>4, <2>5 DEF PInv, StagesFollow, Assembled
    <2> QED BY <2>5, <2>6 DEF PInv, ProgramIsKept, ResultIsDecoded
<1>2. CASE AnalyzeProgram
    <2>1. /\ stage = "analyze" /\ stage' = "execute" /\ analysis' = {Analyze(Asm!Code, Asm!EntryPc)}
          /\ UNCHANGED <<request, result, asm_vars, exe_vars>>
        BY <1>2 DEF AnalyzeProgram
    <2>2. Asm!Code' = Asm!Code /\ Asm!EntryPc' = Asm!EntryPc
        BY <2>1 DEF asm_vars, Asm!Code, Asm!EntryPc, Asm!GlobalPcs
    <2>3. Analyze(Asm!Code, Asm!EntryPc)' = Analyze(Asm!Code, Asm!EntryPc)
        BY <2>2
    <2>4. StagesFollow'
        BY <2>1 DEF PInv, StagesFollow, Assembled, asm_vars, exe_vars
    <2>5. ProgramIsKept'
        BY <2>1, <2>2, <2>3 DEF PInv, StagesFollow, ProgramIsKept, Assembled, asm_vars, exe_vars
    <2>6. result' = {}
        BY <2>1 DEF PInv, ResultIsDecoded
    <2> QED BY <2>4, <2>5, <2>6 DEF PInv, ResultIsDecoded
<1>3. CASE StartProgram
    <2> DEFINE j == [code |-> Asm!Code, entry |-> Asm!EntryPc,
                     inputs |-> request.inputs, limit |-> request.limit]
    <2>1. /\ stage = "execute" /\ stage' = stage /\ Exe!Execute(j)
          /\ UNCHANGED <<request, analysis, result, asm_vars>>
        BY <1>3 DEF StartProgram
    <2>2. job' = {j} /\ status' = "running"
        BY <2>1 DEF Exe!Execute
    <2>3. Asm!Code' = Asm!Code /\ Asm!EntryPc' = Asm!EntryPc
        BY <2>1 DEF asm_vars, Asm!Code, Asm!EntryPc, Asm!GlobalPcs
    <2>4. j.code = Asm!Code /\ j.entry = Asm!EntryPc /\ j.inputs = request.inputs
        OBVIOUS
    <2> HIDE DEF j
    <2>5. StagesFollow'
        BY <2>1, <2>2 DEF PInv, StagesFollow, Assembled, asm_vars
    <2>6. ProgramIsKept'
        BY <2>1, <2>2, <2>3, <2>4 DEF PInv, StagesFollow, ProgramIsKept, Assembled, asm_vars
    <2>7. result' = {}
        BY <2>1 DEF PInv, ResultIsDecoded
    <2> QED BY <2>5, <2>6, <2>7 DEF PInv, ResultIsDecoded
<1>4. CASE RunProgram
    <2>1. /\ stage = "execute" /\ Exe!Iterate
          /\ UNCHANGED <<request, analysis, result, asm_vars>>
          /\ stage' = CASE status' = "ok"         -> "interpret"
                        [] status' = "panic"      -> "panic"
                        [] status' \in Exe!Errors -> "err"
                        [] OTHER                  -> stage
        BY <1>4 DEF RunProgram
    <2>2. \/ status' = "ok" /\ stage' = "interpret"
          \/ stage' \in {"panic", "err", "execute"}
        BY <2>1
    <2>3. job' = job /\ status = "running" /\ status' # "idle"
        BY <2>1, IterationKeeps
    <2>4. job # {}
        BY <2>3 DEF PInv, StagesFollow
    <2> QED BY <2>1, <2>2, <2>3, <2>4, StaysAssembled DEF Assembled
<1>5. CASE Interpret
    <2>1. /\ stage = "interpret" /\ ~Unallocatable /\ result' = {InterpretResult} /\ stage' = "ok"
          /\ UNCHANGED <<request, analysis, asm_vars, exe_vars>>
        BY <1>5 DEF Interpret
    <2>2. Asm!Code' = Asm!Code /\ Asm!EntryPc' = Asm!EntryPc
        BY <2>1 DEF asm_vars, Asm!Code, Asm!EntryPc, Asm!GlobalPcs
    <2>3. StagesFollow'
        BY <2>1 DEF PInv, StagesFollow, Assembled, asm_vars, exe_vars
    <2>4. ProgramIsKept'
        BY <2>1, <2>2 DEF PInv, ProgramIsKept, asm_vars, exe_vars
    <2>5. FinalRegs' = FinalRegs /\ memory' = memory
        BY <2>1 DEF FinalRegs, exe_vars
    <2>6. InterpretResult' = InterpretResult /\ Unallocatable' = Unallocatable
        BY <2>1, <2>5 DEF InterpretResult, Unallocatable, DecodeArray, Element
    <2> QED BY <2>1, <2>3, <2>4, <2>6 DEF PInv, ResultIsDecoded
<1>6. CASE FailAllocation
    BY <1>6, StaysAssembled DEF FailAllocation, Assembled, exe_vars, PInv, StagesFollow
<1>7. CASE UNCHANGED vars
    <2>1. Asm!Code' = Asm!Code /\ Asm!EntryPc' = Asm!EntryPc
        BY <1>7 DEF vars, asm_vars, Asm!Code, Asm!EntryPc, Asm!GlobalPcs
    <2>2. StagesFollow'
        BY <1>7 DEF PInv, StagesFollow, vars, asm_vars, exe_vars
    <2>3. ProgramIsKept'
        BY <1>7, <2>1 DEF PInv, ProgramIsKept, vars, asm_vars, exe_vars
    <2>4. FinalRegs' = FinalRegs /\ memory' = memory
        BY <1>7 DEF vars, FinalRegs, exe_vars
    <2>5. InterpretResult' = InterpretResult /\ Unallocatable' = Unallocatable
        BY <1>7, <2>4 DEF vars, InterpretResult, Unallocatable, DecodeArray, Element
    <2> QED BY <1>7, <2>2, <2>3, <2>5 DEF PInv, ResultIsDecoded, vars
<1> QED BY <1>1, <1>2, <1>3, <1>4, <1>5, <1>6, <1>7 DEF Next

LEMMA PipelineHolds == Spec => []PInv
BY PipelineStarts, PipelineStep, PTL DEF Spec

-----------------------------------------------------------------------------
(* run_pipeline() drives an executor, whose jobs are assembled programs.   *)
LEMMA StartsAJob ==
    ASSUME PInv, AsmP!IInv, StartProgram
    PROVE  \E j \in AnyJob : Exe!Execute(j)
<1> DEFINE j == [code |-> Asm!Code, entry |-> Asm!EntryPc,
                 inputs |-> request.inputs, limit |-> request.limit]
<1>1. stage = "execute" /\ Exe!Execute(j)
    BY DEF StartProgram
<1>2. phase = "assembled" /\ request \in Requests
    BY <1>1 DEF PInv, StagesFollow, Assembled
<1>3. /\ Asm!Code \in Seq(Exe!Instruction) /\ WordSize * Len(Asm!Code) < Modulus(8)
      /\ Asm!EntryPc \in Exe!U64
    <2>1. AsmP!IsAssembled(Asm!Code, Asm!EntryPc)
        BY <1>2, ProgramFits
    <2>2. AsmP!U64 = Exe!U64
        BY DEF AsmP!U64, Exe!U64, AsmP!Unsigned, Exe!Unsigned, AsmP!Modulus, Exe!Modulus
    <2> QED BY <2>1, <2>2, SameInstructions, SameConstants DEF AsmP!IsAssembled
<1>4. request.inputs \in Seq(Exe!InputType) /\ request.limit \in Nat
    BY <1>2, PipelineAssumption
<1>5. j \in AnyJob
    BY <1>3, <1>4 DEF AnyJob, Exe!JobType
<1> QED BY <1>1, <1>5

(* execute_program() is an executor that runs assembled programs, and      *)
(* nothing else of run_pipeline() touches it (execute_program).            *)
THEOREM PipelineExecutes == Spec => ExeP!Steps
<1>1. Init => ExeP!Init
    BY SameStart DEF Init
<1>2. PInv /\ AsmP!IInv /\ [Next]_vars => [ExeP!Next]_ExeP!vars
    <2> SUFFICES ASSUME PInv, AsmP!IInv, [Next]_vars PROVE ExeP!Next \/ UNCHANGED ExeP!vars
        OBVIOUS
    <2>1. CASE StartProgram
        <3>1. \E j \in AnyJob : ExeP!Execute(j)
            BY <2>1, StartsAJob, SameStart
        <3> QED BY <3>1 DEF ExeP!Next
    <2>2. CASE RunProgram
        <3>1. ExeP!Iterate
            BY <2>2, SameIteration DEF RunProgram
        <3> QED BY <3>1 DEF ExeP!Next
    <2>3. CASE Assemble \/ AnalyzeProgram \/ Interpret \/ FailAllocation
        BY <2>3 DEF Assemble, AnalyzeProgram, Interpret, FailAllocation, exe_vars, ExeP!vars
    <2>4. CASE UNCHANGED vars
        BY <2>4 DEF vars, exe_vars, ExeP!vars
    <2> QED BY <2>1, <2>2, <2>3, <2>4 DEF Next
<1> QED BY <1>1, <1>2, PipelineHolds, PipelineAssembles, AssemblerHolds, PTL
        DEF Spec, ExeP!Steps

\* What the executor's own proofs say of its part of the pipeline.
LEMMA AnyJobs ==
    /\ AnyJob \subseteq ExeP!JobType
    /\ \A j \in AnyJob : WordSize * Len(j.code) < Modulus(8)
BY SameJobs DEF AnyJob

LEMMA ExecutorHolds ==
    ExeP!Steps => [](ExeP!TypeOK /\ ExeP!SnapshotsMatchMachine /\ ExeP!HistoryRuns
                     /\ ExeP!TraceAccountsForMemory /\ ExeP!StartsWithInputs)
<1>1. ExeP!Steps => []ExeP!TypeOK
    BY ExeP!StepsAreTyped, WordsAssumption, MemoryAssumption, IsaAssumption, SameConstants,
       AnyJobs
<1>2. ExeP!Steps => []ExeP!SnapshotsMatchMachine
    BY ExeP!StepsKeepSnapshots, WordsAssumption, MemoryAssumption, IsaAssumption,
       SameConstants, AnyJobs
<1>3. ExeP!Steps => []ExeP!HistoryRuns
    BY ExeP!StepsKeepHistory, WordsAssumption, MemoryAssumption, IsaAssumption, SameConstants,
       AnyJobs
<1>4. ExeP!Steps => []ExeP!TraceAccountsForMemory
    BY ExeP!StepsAreAccounted, WordsAssumption, MemoryAssumption, IsaAssumption,
       SameConstants, AnyJobs
<1>5. ExeP!Steps => []ExeP!StartsWithInputs
    BY ExeP!StepsStart, WordsAssumption, MemoryAssumption, IsaAssumption, SameConstants,
       AnyJobs
<1> QED BY <1>1, <1>2, <1>3, <1>4, <1>5, PTL

\* All that is true of a state of the pipeline.
Whole ==
    /\ PInv
    /\ AsmP!IInv /\ AsmP!TextIsAssembled
    /\ ExeP!TypeOK /\ ExeP!SnapshotsMatchMachine /\ ExeP!HistoryRuns
    /\ ExeP!TraceAccountsForMemory /\ ExeP!StartsWithInputs

LEMMA WholeHolds == Spec => []Whole
<1>1. /\ PInv
      /\ AsmP!IInv /\ AsmP!TextIsAssembled
      /\ ExeP!TypeOK /\ ExeP!SnapshotsMatchMachine /\ ExeP!HistoryRuns
      /\ ExeP!TraceAccountsForMemory /\ ExeP!StartsWithInputs
      => Whole
    BY DEF Whole
<1> QED BY <1>1, PipelineHolds, PipelineAssembles, AssemblerHolds, PipelineExecutes,
           ExecutorHolds, PTL

-----------------------------------------------------------------------------
(* The graph.                                                              *)
LEMMA SameOrder == \A S : AnP!InOrder(S) = InOrder(S)
BY ZenonT(30) DEF AnP!InOrder, InOrder, AnP!Cardinality, Cardinality

LEMMA SameToSeq == \A S : AnP!SetToSeq(S) = SetToSeq(S)
BY ZenonT(30) DEF AnP!SetToSeq, SetToSeq, AnP!IsInjective, IsInjective, AnP!Cardinality, Cardinality

LEMMA SameFlat == \A q : AnP!FlattenSeq(q) = FlattenSeq(q)
BY ZenonT(30) DEF AnP!FlattenSeq, FlattenSeq

LEMMA SameBlocks ==
    /\ \A code, entry : AnP!Leaders(code, entry) = Leaders(code, entry)
    /\ \A code, entry : AnP!Blocks(code, entry) = Blocks(code, entry)
    /\ \A blocks, addr : AnP!BlockOf(blocks, addr) = BlockOf(blocks, addr)
<1>1. \A code, entry : AnP!Leaders(code, entry) = Leaders(code, entry)
    BY ZenonT(30) DEF AnP!Leaders, Leaders, AnP!WordSize, WordSize, AnP!DirectTargets,
       DirectTargets
<1>2. ASSUME NEW code, NEW entry PROVE AnP!Blocks(code, entry) = Blocks(code, entry)
    <2>1. AnP!InOrder(AnP!Leaders(code, entry)) = InOrder(Leaders(code, entry))
        BY <1>1, SameOrder
    <2> QED BY <2>1 DEF AnP!Blocks, Blocks, AnP!WordSize, WordSize, AnP!LastPc, LastPc
<1>3. \A blocks, addr : AnP!BlockOf(blocks, addr) = BlockOf(blocks, addr)
    BY ZenonT(30) DEF AnP!BlockOf, BlockOf, AnP!Range, Range
<1> QED BY <1>1, <1>2, <1>3

LEMMA SameEdges == \A code, blocks : AnP!Edges(code, blocks) = Edges(code, blocks)
<1>1. \A blocks, b, addr, kind : AnP!EdgeTo(blocks, b, addr, kind) = EdgeTo(blocks, b, addr, kind)
    <2> TAKE blocks, b, addr, kind
    <2>1. AnP!BlockOf(blocks, addr) = BlockOf(blocks, addr)
        BY SameBlocks
    <2> QED BY <2>1, SameToSeq DEF AnP!EdgeTo, EdgeTo
<1>2. \A inst : AnP!DirectTargets(inst) = DirectTargets(inst)
    BY DEF AnP!DirectTargets, DirectTargets
<1>3. \A code, blocks, b : AnP!EdgesOf(code, blocks, b) = EdgesOf(code, blocks, b)
    <2> TAKE code, blocks, b
    <2> DEFINE inst == code[b.end_pc \div WordSize + 1]
    <2>1. \A kind : {AnP!EdgeTo(blocks, b, t, kind) : t \in AnP!DirectTargets(inst)}
                     = {EdgeTo(blocks, b, t, kind) : t \in DirectTargets(inst)}
        BY <1>1, <1>2
    <2>2. \A S : AnP!FlattenSeq(AnP!SetToSeq(S)) = FlattenSeq(SetToSeq(S))
        BY SameToSeq, SameFlat
    <2> QED BY <1>1, <2>1, <2>2, SameConstants, ZenonT(30) DEF AnP!EdgesOf, EdgesOf
<1> QED BY <1>3, SameFlat, ZenonT(30) DEF AnP!Edges, Edges

LEMMA ProgramIsAnalysed ==
    ASSUME Whole, phase = "assembled"
    PROVE  /\ AnP!IsProgram
           /\ \A addr : addr \in AnP!Pcs(Asm!Code) <=>
                 addr \in Nat /\ addr % WordSize = 0 /\ addr \div WordSize < Len(Asm!Code)
<1>1. AsmP!IsAssembled(Asm!Code, Asm!EntryPc)
    BY ProgramFits DEF Whole
<1>2. /\ Asm!Code \in Seq(AnP!Instruction)
      /\ AsmP!PlacesIn(Asm!Code) = AnP!Places(Asm!Code)
    BY <1>1, SameInstructions, SameConstants DEF AsmP!IsAssembled, AsmP!PlacesIn, AnP!Places
<1>3. \A k \in DOMAIN Asm!Code : AnP!DirectTargets(Asm!Code[k]) \subseteq AnP!Places(Asm!Code)
    BY <1>1, <1>2 DEF AsmP!IsAssembled, AnP!DirectTargets
<1>4. AnP!IsProgram
    BY <1>1, <1>2, <1>3 DEF AsmP!IsAssembled, AnP!IsProgram
<1>5. ASSUME NEW addr
      PROVE  addr \in AnP!Pcs(Asm!Code) <=>
                 addr \in Nat /\ addr % WordSize = 0 /\ addr \div WordSize < Len(Asm!Code)
    <2> DEFINE n == Len(Asm!Code)
    <2>1. n \in Nat
        BY <1>2
    <2>2. addr \in AnP!Pcs(Asm!Code) <=> \E k \in 0 .. n - 1 : addr = 4 * k
        BY DEF AnP!Pcs, AnP!WordSize
    <2> HIDE DEF n
    <2>3. ASSUME NEW k \in 0 .. n - 1, addr = 4 * k
          PROVE  addr \in Nat /\ addr % 4 = 0 /\ addr \div 4 < n
        BY <2>1, <2>3
    <2>4. ASSUME addr \in Nat, addr % 4 = 0, addr \div 4 < n
          PROVE  \E k \in 0 .. n - 1 : addr = 4 * k
        <3>1. addr \div 4 \in Nat /\ addr = 4 * (addr \div 4)
            BY <2>4
        <3>2. addr \div 4 \in 0 .. n - 1
            BY <2>1, <2>4, <3>1
        <3> QED BY <3>1, <3>2
    <2> QED BY <2>2, <2>3, <2>4 DEF n, WordSize
<1> QED BY <1>4, <1>5

LEMMA GraphIsFollowed ==
    ASSUME Whole, phase = "assembled", NEW addr \in AnP!Pcs(Asm!Code),
           NEW next \in AnP!Pcs(Asm!Code), NEW kind \in AnP!Kinds \ {"Jump"},
           AnP!Goes(addr, next, kind)
    PROVE  LET blocks == Blocks(Asm!Code, Asm!EntryPc)
           IN  \A b \in BlockOf(blocks, addr) :
                  \E c \in BlockOf(blocks, next) :
                     \/ c = b /\ next = addr + WordSize
                     \/ /\ [from |-> b, to |-> c, kind |-> kind]
                              \in Range(Edges(Asm!Code, blocks))
                        /\ next = blocks[c + 1].start_pc
<1>1. AnP!IsProgram
    BY ProgramIsAnalysed
<1>2. AnP!Follows(AnP!Blocks(Asm!Code, Asm!EntryPc),
                  AnP!Edges(Asm!Code, AnP!Blocks(Asm!Code, Asm!EntryPc)), addr, next, kind)
    BY <1>1, AnP!ControlFollowsEdges, WordsAssumption, MemoryAssumption, IsaAssumption,
       SameConstants
<1> QED BY <1>2, SameBlocks, SameEdges, SameConstants DEF AnP!Follows, AnP!Range, Range

\* The steps of a trace, and how each goes on to the next.
LEMMA StepsOfProgram ==
    ASSUME Whole
    PROVE  /\ \A k \in 2 .. Len(States) : phase = "assembled" /\ ExeP!RunsIn(Asm!Code, States[k])
           /\ \A k \in 3 .. Len(States) : ExeP!GoesOnTo(States[k - 1], States[k])
           /\ Len(States) > 1 => States[2].pc = Asm!EntryPc
<1> SUFFICES ASSUME Len(States) > 1
             PROVE  /\ phase = "assembled"
                    /\ \A k \in 2 .. Len(States) : ExeP!RunsIn(Asm!Code, States[k])
                    /\ \A k \in 3 .. Len(States) : ExeP!GoesOnTo(States[k - 1], States[k])
                    /\ States[2].pc = Asm!EntryPc
    <2>1. Len(States) \in Nat
        BY DEF Whole, ExeP!TypeOK, ExeP!TraceType, States
    <2> QED BY <2>1
<1>1. PICK j \in job : TRUE
    <2>1. job # {}
        BY DEF Whole, PInv, StagesFollow, States
    <2> QED BY <2>1
<1>2. j.code = Asm!Code /\ j.entry = Asm!EntryPc /\ phase = "assembled"
    BY <1>1 DEF Whole, PInv, ProgramIsKept
<1>3. /\ \A k \in 2 .. Len(ExeP!States) : ExeP!RunsIn(j.code, ExeP!States[k])
      /\ \A k \in 3 .. Len(ExeP!States) : ExeP!GoesOnTo(ExeP!States[k - 1], ExeP!States[k])
    BY <1>1, ExeP!StepsInCode, WordsAssumption, MemoryAssumption, IsaAssumption, SameConstants,
       AnyJobs DEF Whole
<1>4. ExeP!States[1].next_pc = j.entry
    BY <1>1 DEF Whole, ExeP!StartsWithInputs
<1>5. ExeP!States[2].pc = ExeP!States[2 - 1].next_pc
    <2>1. Len(ExeP!States) \in Nat /\ Len(ExeP!States) > 1
        BY DEF Whole, ExeP!TypeOK, ExeP!TraceType, ExeP!States, States
    <2>2. 2 \in ExeP!Recorded
        BY <2>1 DEF ExeP!Recorded
    <2> QED BY <2>2 DEF Whole, ExeP!HistoryRuns, ExeP!IsLinked
<1> QED BY <1>2, <1>3, <1>4, <1>5 DEF ExeP!States, States

(* A step that is no jump stays inside its block or follows an edge, of    *)
(* the kind that it recorded, to the top of a block: the trace and the     *)
(* graph of one result are about the same program, and agree (analyze:     *)
(* edges; execute_b).                                                      *)
THEOREM TracesCorrect == Spec => []TraceFollowsGraph
<1>1. Whole => TraceFollowsGraph
    <2> SUFFICES ASSUME Whole, NEW a \in analysis, NEW k \in 3 .. Len(States),
                        States[k - 1].instr.type \notin {"JAL", "JALR"},
                        NEW b \in BlockOf(a.blocks, States[k - 1].pc)
                 PROVE  \E c \in BlockOf(a.blocks, States[k].pc) :
                           \/ c = b /\ States[k].pc = States[k - 1].pc + WordSize
                           \/ /\ [from |-> b, to |-> c, kind |-> KindOf(States[k - 1])]
                                    \in Range(a.edges)
                              /\ States[k].pc = a.blocks[c + 1].start_pc
        BY DEF TraceFollowsGraph
    <2> DEFINE s == States[k - 1]
               t == States[k]
    <2>1. Len(States) \in Nat
        BY DEF Whole, ExeP!TypeOK, ExeP!TraceType, States
    <2>2. k \in 2 .. Len(States) /\ k - 1 \in 2 .. Len(States)
        BY <2>1
    <2>3. /\ phase = "assembled" /\ ExeP!RunsIn(Asm!Code, s) /\ ExeP!RunsIn(Asm!Code, t)
          /\ ExeP!GoesOnTo(s, t)
        BY <2>2, StepsOfProgram
    <2>4. s.instr.type \notin {"JAL", "JALR"} /\ b \in BlockOf(a.blocks, s.pc)
        OBVIOUS
    <2> HIDE DEF s, t
    <2>5. s.pc \in AnP!Pcs(Asm!Code) /\ t.pc \in AnP!Pcs(Asm!Code)
        BY <2>3, ProgramIsAnalysed, SameConstants DEF ExeP!RunsIn
    <2>6. AnP!InstAt(s.pc) = s.instr
        BY <2>3, SameConstants DEF ExeP!RunsIn, AnP!InstAt
    <2>7. KindOf(s) \in AnP!Kinds \ {"Jump"} /\ AnP!Goes(s.pc, t.pc, KindOf(s))
        <3>1. CASE s.branch_taken = {TRUE}
            BY <2>3, <2>4, <2>6, <3>1 DEF ExeP!GoesOnTo, KindOf, AnP!Goes, AnP!Kinds
        <3>2. CASE s.branch_taken = {FALSE}
            BY <2>3, <2>4, <2>6, <3>2, SameConstants
               DEF ExeP!GoesOnTo, KindOf, AnP!Goes, AnP!Kinds
        <3>3. CASE s.branch_taken = {}
            BY <2>3, <2>4, <2>6, <3>3, SameConstants
               DEF ExeP!GoesOnTo, KindOf, AnP!Goes, AnP!Kinds
        <3> QED BY <2>3, <2>4, <3>1, <3>2, <3>3 DEF ExeP!GoesOnTo
    <2>8. /\ a.blocks = Blocks(Asm!Code, Asm!EntryPc)
          /\ a.edges = Edges(Asm!Code, Blocks(Asm!Code, Asm!EntryPc))
        <3>1. Asm!Code # <<>>
            <4>1. s.pc \div 4 \in Nat /\ s.pc \div 4 < Len(Asm!Code)
                BY <2>3, SameConstants DEF ExeP!RunsIn, WordSize
            <4> QED BY <4>1
        <3>2. a = Analyze(Asm!Code, Asm!EntryPc)
            BY DEF Whole, PInv, ProgramIsKept
        <3> QED BY <3>1, <3>2 DEF Analyze
    <2> QED BY <2>3, <2>4, <2>5, <2>7, <2>8, GraphIsFollowed DEF s, t
<1> QED BY <1>1, WholeHolds, PTL

-----------------------------------------------------------------------------
(* Arrays.                                                                 *)
InStack(base, length, w) ==
    length > 0 => base % w = 0 /\ base >= StackBase /\ base + length * w <= StackTop

LEMMA ElementFaults ==
    ASSUME NEW base \in Nat, NEW w \in Widths, NEW i \in Nat
    PROVE  ElementFault(base, i, w) = {} <=>
              (base + i * w) % w = 0 /\ base + i * w >= StackBase
                                     /\ base + i * w + w <= StackTop
<1> DEFINE p == i * w
<1>1. p \in Nat /\ w \in 1 .. 8
    BY DEF Widths
<1>2. /\ StackBase \in Nat /\ StackTop \in Nat /\ StackTop <= Modulus(8)
      /\ Modulus(8) \in Nat /\ U64 = 0 .. Modulus(8) - 1
    BY MemoryAssumption, ModulusPositive DEF StackTop, U64, Unsigned
<1>3. ElementFault(base, i, w) = IF p \notin U64 THEN {"OffsetOverflow"}
                                 ELSE IF base + p \notin U64 THEN {"AddressOverflow"}
                                 ELSE Fault(base + p, w)
    BY DEF ElementFault
<1> HIDE DEF p
<1>4. Fault(base + p, w) = {} <=>
         /\ (base + p) % w = 0
         /\ base + p + w - 1 < Modulus(8) /\ base + p >= StackBase /\ base + p + w - 1 < StackTop
    <2> DEFINE addr == base + p
    <2>1. Fault(addr, w) = {} <=> ~ Misaligned(addr, w) /\ ~ OutsideWindow(addr, w)
        BY Zenon DEF Fault
    <2>2. ~ Misaligned(addr, w) <=> addr % w = 0
        BY DEF Misaligned
    <2>3. addr \in Nat
        BY <1>1
    <2> HIDE DEF addr
    <2>4. ~ OutsideWindow(addr, w) <=>
             addr + w - 1 < Modulus(8) /\ addr >= StackBase /\ addr + w - 1 < StackTop
        BY <1>1, <1>2, <2>3 DEF OutsideWindow
    <2> QED BY <2>1, <2>2, <2>4 DEF addr
<1>5. base + p + w <= StackTop => p \in U64 /\ base + p \in U64
    BY <1>1, <1>2
<1>6. (base + p) % w = 0 /\ base + p >= StackBase /\ base + p + w <= StackTop
      <=> p \in U64 /\ base + p \in U64 /\ Fault(base + p, w) = {}
    BY <1>1, <1>2, <1>4, <1>5
<1> QED BY <1>3, <1>6 DEF p

LEMMA AllElements ==
    ASSUME NEW base \in Nat, NEW length \in Nat, NEW w \in Widths
    PROVE  (\A i \in 0 .. length - 1 : ElementFault(base, i, w) = {})
              <=> InStack(base, length, w)
<1>1. StackBase \in Nat /\ StackTop \in Nat /\ w \in 1 .. 8
    BY MemoryAssumption DEF StackTop, Widths
<1>2. ASSUME length > 0, \A i \in 0 .. length - 1 : ElementFault(base, i, w) = {}
      PROVE  base % w = 0 /\ base >= StackBase /\ base + length * w <= StackTop
    <2>1. 0 \in Nat /\ length - 1 \in Nat /\ 0 \in 0 .. length - 1
          /\ length - 1 \in 0 .. length - 1
        BY <1>2
    <2>2. base + 0 * w = base /\ base + (length - 1) * w + w = base + length * w
        BY <1>1
    <2>3. base % w = 0 /\ base >= StackBase
        BY <1>2, <2>1, <2>2, ElementFaults
    <2>4. base + (length - 1) * w + w <= StackTop
        BY <1>2, <2>1, ElementFaults
    <2> QED BY <2>2, <2>3, <2>4
<1>3. ASSUME base % w = 0, base >= StackBase, base + length * w <= StackTop,
             NEW i \in 0 .. length - 1
      PROVE  ElementFault(base, i, w) = {}
    <2>1. i \in Nat /\ i * w \in Nat /\ i * w + w <= length * w /\ length * w \in Nat
        <3>1. CASE w = 1
            BY <3>1
        <3>2. CASE w = 2
            BY <3>2
        <3>3. CASE w = 4
            BY <3>3
        <3>4. CASE w = 8
            BY <3>4
        <3> QED BY <3>1, <3>2, <3>3, <3>4 DEF Widths
    <2>2. (base + i * w) % w = 0
        BY <1>1, <1>3, <2>1, ModOfSum
    <2>3. base + i * w >= StackBase /\ base + i * w + w <= StackTop
        BY <1>1, <1>3, <2>1
    <2> QED BY <2>1, <2>2, <2>3, ElementFaults
<1> QED BY <1>2, <1>3 DEF InStack

\* What decode_array() answers for the array at base.
Decodes(d, base, length, w, signed) ==
    /\ (d.error = {}) = (base >= 0 /\ length >= 0 /\ w \in Widths /\ InStack(base, length, w))
    /\ d.error # {} => d.values = <<>>
    /\ d.error = {} =>
          /\ Len(d.values) = length
          /\ \A n \in DOMAIN d.values :
                /\ Fits(d.values[n], w, signed)
                /\ \A i \in 0 .. w - 1 :
                      LET a == base + (n - 1) * w + i
                      IN  a \in Window /\ ByteOf(AsUnsigned(d.values[n], w), i) = Load8(memory, a)

LEMMA ElementIsRead ==
    ASSUME NEW base \in Nat, NEW w \in Widths, NEW i \in Nat, NEW signed \in BOOLEAN,
           IsSparseMap(memory), ElementFault(base, i, w) = {}
    PROVE  LET v == Element(base, i, w, signed)
           IN  /\ Fits(v, w, signed)
               /\ \A k \in 0 .. w - 1 :
                     /\ base + i * w + k \in Window
                     /\ ByteOf(AsUnsigned(v, w), k) = Load8(memory, base + i * w + k)
<1> DEFINE a == base + i * w
           raw == LoadRaw(memory, a, w)
           v == IF signed \/ w = 8 THEN AsSigned(raw, w) ELSE raw
<1>1. a \in Nat /\ Fault(a, w) = {}
    BY DEF ElementFault, Widths
<1>2. Element(base, i, w, signed) = v
    BY DEF Element
<1>3. IsWordAt(raw, memory, a, w)
    BY <1>1, LoadRawReads
<1>4. Span(a, w) \subseteq Window
    BY <1>1, NoFaultInWindow
<1> HIDE DEF a, raw
<1>5. raw \in Unsigned(w) /\ raw \in Int
    BY <1>3, ModulusPositive DEF IsWordAt, Unsigned, Widths
<1>6. Fits(v, w, signed) /\ AsUnsigned(v, w) = raw
    <2>1. CASE signed \/ w = 8
        BY <1>5, <2>1, UnsignedOfSigned, AsSignedType DEF Fits
    <2>2. CASE ~(signed \/ w = 8)
        BY <1>5, <2>2, UnsignedOfUnsigned DEF Fits
    <2> QED BY <2>1, <2>2
<1> HIDE DEF v
<1>7. ASSUME NEW k \in 0 .. w - 1
      PROVE  a + k \in Window /\ ByteOf(AsUnsigned(v, w), k) = Load8(memory, a + k)
    <2>1. a + k \in Span(a, w)
        BY <1>1 DEF Span, Widths
    <2>2. ByteOf(raw, k) = Load8(memory, a + k)
        BY <1>3 DEF IsWordAt
    <2> QED BY <1>4, <1>6, <2>1, <2>2
<1> QED BY <1>2, <1>6, <1>7 DEF a

LEMMA ArrayIsDecoded ==
    ASSUME NEW base \in Int, NEW length \in Int, NEW w \in Nat, NEW signed \in BOOLEAN,
           IsSparseMap(memory)
    PROVE  Decodes(DecodeArray(base, length, w, signed), base, length, w, signed)
<1> DEFINE d == DecodeArray(base, length, w, signed)
           faulty == {i \in 0 .. length - 1 : ElementFault(base, i, w) # {}}
           first == CHOOSE i \in faulty : \A k \in faulty : i <= k
<1>1. CASE base < 0 \/ length < 0 \/ w \notin Widths
    <2>1. d.error # {} /\ d.values = <<>>
        BY <1>1 DEF DecodeArray
    <2>2. ~(base >= 0 /\ length >= 0 /\ w \in Widths)
        BY <1>1
    <2> HIDE DEF d
    <2> QED BY <2>1, <2>2 DEF Decodes, d
<1>2. CASE base >= 0 /\ length >= 0 /\ w \in Widths /\ faulty # {}
    <2>1. ~(base < 0) /\ ~(length < 0) /\ base \in Nat /\ length \in Nat
        BY <1>2
    <2>2. faulty \in SUBSET Nat
        OBVIOUS
    <2>3. \E i \in faulty : \A k \in faulty : i <= k
        <3> HIDE DEF faulty
        <3> QED BY <1>2, <2>2, LeastNumber
    <2>4. first \in faulty
        BY <2>3
    <2>5. d = [values |-> <<>>, error |-> ElementFault(base, first, w)]
        BY <1>2, <2>1 DEF DecodeArray
    <2>6. ElementFault(base, first, w) # {}
        BY <2>4
    <2>7. ~InStack(base, length, w)
        BY <1>2, <2>1, AllElements
    <2> HIDE DEF first, faulty, d
    <2>8. d.error # {} /\ d.values = <<>>
        BY <2>5, <2>6
    <2> QED BY <2>7, <2>8 DEF Decodes, d
<1>3. CASE base >= 0 /\ length >= 0 /\ w \in Widths /\ faulty = {}
    <2> DEFINE vs == [n \in 1 .. length |-> Element(base, n - 1, w, signed)]
    <2>1. ~(base < 0) /\ ~(length < 0) /\ base \in Nat /\ length \in Nat
        BY <1>3
    <2>2. d = [values |-> vs, error |-> {}]
        BY <1>3, <2>1 DEF DecodeArray
    <2>3. InStack(base, length, w)
        BY <1>3, <2>1, AllElements
    <2>4. ASSUME NEW n \in 1 .. length
          PROVE  /\ Fits(vs[n], w, signed)
                 /\ \A i \in 0 .. w - 1 :
                       /\ base + (n - 1) * w + i \in Window
                       /\ ByteOf(AsUnsigned(vs[n], w), i) = Load8(memory, base + (n - 1) * w + i)
        <3>1. n - 1 \in Nat /\ n - 1 \in 0 .. length - 1 /\ ElementFault(base, n - 1, w) = {}
            BY <1>3, <2>1
        <3>2. vs[n] = Element(base, n - 1, w, signed)
            OBVIOUS
        <3> HIDE DEF vs
        <3> QED BY <1>3, <2>1, <3>1, <3>2, ElementIsRead
    <2>5. DOMAIN vs = 1 .. length /\ Len(vs) = length
        BY <2>1
    <2> HIDE DEF vs, d
    <2>6. d.error = {} /\ d.values = vs
        BY <2>2
    <2> QED BY <1>3, <2>3, <2>4, <2>5, <2>6 DEF Decodes, d
<1> QED BY <1>1, <1>2, <1>3

LEMMA SameByteAfter == \A a, upto : Run!ByteAfter(a, upto) = ExeP!ByteAfter(a, upto)
BY ZenonT(30) DEF Run!ByteAfter, ExeP!ByteAfter, Run!Writers, ExeP!Writers, Run!States,
       ExeP!States, Run!ByteOf, ExeP!ByteOf, Run!Events, ExeP!Events,
       Run!CoversByte, ExeP!CoversByte, Run!Modulus, ExeP!Modulus, Run!Span,
       ExeP!Span

LEMMA FinalRegsType ==
    ASSUME Whole, result # {}
    PROVE  FinalRegs \in [Reg -> Int]
<1>1. job # {} /\ status = "ok"
    BY DEF Whole, PInv, StagesFollow, ResultIsDecoded
<1>2. Len(trace.states) = steps + 1 /\ steps \in Nat
    BY <1>1 DEF Whole, ExeP!SnapshotsMatchMachine, ExeP!States, ExeP!TypeOK
<1>3. trace.states \in Seq(ExeP!StateType)
    BY DEF Whole, ExeP!TypeOK, ExeP!TraceType
<1>4. Last(trace.states) \in ExeP!StateType
    BY <1>2, <1>3 DEF Last
<1> QED BY <1>4 DEF FinalRegs, ExeP!StateType, ExeP!I64, ExeP!Signed

(* An array is decoded as a whole, from the bytes that the trace says were *)
(* stored last, or refused as a whole, just if it is not all in the stack  *)
(* window, aligned (decode_array, execute_s).                              *)
THEOREM ArraysCorrect == Spec => []ArraysAreReadExactly
<1>1. Whole => ArraysAreReadExactly
    <2> SUFFICES ASSUME Whole, NEW r \in result, r.kind = "array"
                 PROVE  /\ (r.error = {}) = Readable(r)
                        /\ r.error # {} => r.values = <<>>
                        /\ r.error = {} => Len(r.values) = r.length
                        /\ \A n \in DOMAIN r.values :
                              LET w == request.spec.elem_width
                              IN  /\ Fits(r.values[n], w, request.spec.signed)
                                  /\ \A i \in 0 .. w - 1 :
                                        ByteOf(AsUnsigned(r.values[n], w), i)
                                            = Run!ByteAfter(r.raw_pointer + (n - 1) * w + i,
                                                            Len(States))
        BY DEF ArraysAreReadExactly, ArraysAreReadWholeOrRefused, ArrayIsWhatWasStored
    <2> DEFINE base   == FinalRegs[request.spec.ptr_register]
               length == FinalRegs[request.spec.length_register]
               w      == request.spec.elem_width
               signed == request.spec.signed
               d      == DecodeArray(base, length, w, signed)
    <2>1. r = InterpretResult
        BY DEF Whole, PInv, ResultIsDecoded
    <2>2. request.spec.kind # "scalar"
        BY <2>1 DEF InterpretResult
    <2>3. /\ request.spec.ptr_register \in Reg /\ request.spec.length_register \in Reg
          /\ w \in Nat /\ signed \in BOOLEAN
        <3>1. request.spec \in SpecType
            BY PipelineAssumption DEF Whole, PInv, StagesFollow
        <3> QED BY <2>2, <3>1 DEF SpecType
    <2>4. base \in Int /\ length \in Int
        BY <2>3, FinalRegsType
    <2>5. r = [kind |-> "array", raw_pointer |-> base, length |-> length,
               values |-> d.values, error |-> d.error]
        BY <2>1, <2>2 DEF InterpretResult
    <2>6. IsSparseMap(memory)
        BY DEF Whole, ExeP!TypeOK, ExeP!IsSparseMap, IsSparseMap, ExeP!Window, Window,
               ExeP!StackTop, StackTop, ExeP!Unsigned, Unsigned, ExeP!Modulus, Modulus
    <2>7. \A a \in Window : Load8(memory, a) = Run!ByteAfter(a, Len(States))
        BY SameByteAfter DEF Whole, ExeP!TraceAccountsForMemory, ExeP!MemoryIsReplayOfStores,
               ExeP!Window, Window, ExeP!StackTop, StackTop, ExeP!Load8, Load8,
               ExeP!States, States
    <2> HIDE DEF d, base, length
    <2>8. Decodes(d, base, length, w, signed)
        BY <2>3, <2>4, <2>6, ArrayIsDecoded DEF d
    <2>9. r.raw_pointer = base /\ r.length = length /\ r.values = d.values /\ r.error = d.error
        BY <2>5
    <2>10. (r.error = {}) = Readable(r)
        BY <2>8, <2>9 DEF Decodes, Readable, InStack
    <2>11. r.values = <<>> => DOMAIN r.values = {}
        OBVIOUS
    <2> HIDE DEF w, signed
    <2>12. ASSUME NEW n \in DOMAIN r.values
           PROVE  /\ Fits(r.values[n], w, signed)
                  /\ \A i \in 0 .. w - 1 :
                        ByteOf(AsUnsigned(r.values[n], w), i)
                            = Run!ByteAfter(base + (n - 1) * w + i, Len(States))
        <3>1. d.error = {}
            BY <2>8, <2>9, <2>11 DEF Decodes
        <3>2. /\ Fits(d.values[n], w, signed)
              /\ \A i \in 0 .. w - 1 :
                    /\ base + (n - 1) * w + i \in Window
                    /\ ByteOf(AsUnsigned(d.values[n], w), i)
                          = Load8(memory, base + (n - 1) * w + i)
            BY <2>8, <2>9, <3>1 DEF Decodes
        <3> QED BY <2>7, <2>9, <3>2
    <2> QED BY <2>8, <2>9, <2>10, <2>12 DEF Decodes, w, signed
<1> QED BY <1>1, WholeHolds, PTL

-----------------------------------------------------------------------------
(* The text as the browser reads it and the program that is made of it.    *)
LEMMA SameCardinality ==
    \A S : Infer!Cardinality(S) = Cardinality(S) /\ AsmP!Cardinality(S) = Cardinality(S)
BY Zenon DEF Infer!Cardinality, AsmP!Cardinality, Cardinality

LEMMA TextOrder == \A S : Infer!InOrder(S) = AnP!InOrder(S)
BY ZenonT(30) DEF AnP!InOrder, Infer!InOrder, AnP!Cardinality, Infer!Cardinality

LEMMA OptionSize ==
    ASSUME NEW T, NEW S \in AsmP!Option(T)
    PROVE  /\ Cardinality(S) \in 0 .. 1
           /\ S # {} => Cardinality(S) = 1
<1>1. S = {} \/ \E x \in T : S = {x}
    BY DEF AsmP!Option
<1> QED BY <1>1, FS_EmptySet, FS_Singleton

LEMMA Joined ==
    ASSUME NEW D, NEW a \in Seq(D), NEW b \in Seq(D), NEW c \in Seq(D)
    PROVE  LET t == a \o b \o c
           IN  /\ t \in Seq(D) /\ Len(t) = Len(a) + Len(b) + Len(c)
               /\ \A k \in 1 .. Len(a) : t[k] = a[k]
               /\ Len(c) = 1 => t[Len(t)] = c[1]
<1> DEFINE ab == a \o b
           t == ab \o c
<1>1. /\ ab \in Seq(D) /\ Len(ab) = Len(a) + Len(b)
      /\ \A k \in 1 .. Len(a) : ab[k] = a[k]
    BY JoinIs
<1>2. /\ Len(a) \in Nat /\ Len(b) \in Nat /\ Len(c) \in Nat
    OBVIOUS
<1> HIDE DEF ab
<1>3. /\ t \in Seq(D) /\ Len(t) = Len(ab) + Len(c)
      /\ \A k \in 1 .. Len(ab) : t[k] = ab[k]
      /\ \A k \in 1 .. Len(c) : t[Len(ab) + k] = c[k]
    <2>1. \A p, q \in Seq(D) :
             /\ p \o q \in Seq(D) /\ Len(p \o q) = Len(p) + Len(q)
             /\ \A k \in 1 .. Len(p) : (p \o q)[k] = p[k]
             /\ \A k \in 1 .. Len(q) : (p \o q)[Len(p) + k] = q[k]
        BY JoinIs
    <2>2. ab \in Seq(D)
        BY <1>1
    <2> QED BY Zenon, <2>1, <2>2
<1> HIDE DEF t
<1>4. \A k \in 1 .. Len(a) : k \in 1 .. Len(ab)
    BY <1>1, <1>2
<1>5. Len(c) = 1 => t[Len(t)] = c[1]
    BY <1>2, <1>3
<1>6. \A k \in 1 .. Len(a) : t[k] = a[k]
    BY <1>1, <1>3, <1>4
<1>7. /\ t \in Seq(D) /\ Len(t) = Len(a) + Len(b) + Len(c)
    BY <1>1, <1>3
<1> QED BY <1>5, <1>6, <1>7 DEF t, ab

\* The registers among the tokens.
LEMMA TokensAre ==
    ASSUME NEW o \in AsmP!OperandsType, Range(o.regs) \subseteq Reg
    PROVE  LET t == Infer!Tokens(o)
               n == Len(o.regs)
           IN  /\ Len(t) \in Nat /\ DOMAIN t = 1 .. Len(t)
               /\ n \in Nat /\ DOMAIN o.regs = 1 .. n
               /\ o.rule = "memory" =>
                     n = 2 /\ Len(t) >= 2 /\ t[1] = {o.regs[1]} /\ t[Len(t)] = {o.regs[2]}
               /\ o.rule # "memory" =>
                     /\ Len(t) = n + Cardinality(o.imm) + Cardinality(o.label)
                     /\ \A k \in 1 .. n : t[k] = {o.regs[k]}
<1> DEFINE t == Infer!Tokens(o)
           n == Len(o.regs)
           Other(S) == [k \in 1 .. Cardinality(S) |-> {}]
           Named(r) == {r} \cap Reg
<1>1. n \in Nat /\ DOMAIN o.regs = 1 .. n /\ (o.rule = "memory" => n = 2)
    <2>1. \E m \in 0 .. 3 : o.regs \in AsmP!Names(m) /\ (o.rule = "memory" => m = 2)
        BY DEF AsmP!OperandsType
    <2>2. PICK m \in 0 .. 3 : o.regs \in [1 .. m -> RegName] /\ (o.rule = "memory" => m = 2)
        BY <2>1 DEF AsmP!Names
    <2> DEFINE q == o.regs
    <2>3. q \in [1 .. m -> RegName]
        BY <2>2
    <2> HIDE DEF q
    <2>4. DOMAIN q = 1 .. m /\ Len(q) = m
        BY <2>3
    <2> QED BY <2>2, <2>4 DEF q
<1>2. \A k \in 1 .. n : Named(o.regs[k]) = {o.regs[k]}
    BY <1>1 DEF Range
<1>3. /\ Cardinality(o.imm) \in 0 .. 1 /\ Cardinality(o.label) \in 0 .. 1
    <2>1. o.imm \in AsmP!Option(Int) /\ o.label \in AsmP!Option(Label)
        BY DEF AsmP!OperandsType, AsmP!One, AsmP!Option
    <2> QED BY <2>1, OptionSize
<1>4. t = IF o.rule = "memory"
          THEN <<Named(o.regs[1])>> \o Other(o.imm) \o <<Named(o.regs[2])>>
          ELSE [k \in DOMAIN o.regs |-> Named(o.regs[k])] \o Other(o.imm) \o Other(o.label)
    BY SameCardinality DEF Infer!Tokens
<1>5. /\ Other(o.imm) \in Seq(SUBSET Reg) /\ Len(Other(o.imm)) = Cardinality(o.imm)
      /\ Other(o.label) \in Seq(SUBSET Reg) /\ Len(Other(o.label)) = Cardinality(o.label)
    BY <1>3
<1>6. CASE o.rule = "memory"
    <2> DEFINE a == <<Named(o.regs[1])>>
               b == Other(o.imm)
               c == <<Named(o.regs[2])>>
    <2>1. a \in Seq(SUBSET Reg) /\ Len(a) = 1 /\ c \in Seq(SUBSET Reg) /\ Len(c) = 1
          /\ a[1] = {o.regs[1]} /\ c[1] = {o.regs[2]}
        BY <1>1, <1>2, <1>6
    <2>2. t = a \o b \o c
        BY <1>4, <1>6
    <2> HIDE DEF a, b, c, t
    <2>3. b \in Seq(SUBSET Reg) /\ Len(b) \in Nat
        BY <1>3, <1>5 DEF b
    <2>4. /\ t \in Seq(SUBSET Reg) /\ Len(t) = Len(a) + Len(b) + Len(c)
          /\ \A k \in 1 .. Len(a) : t[k] = a[k]
          /\ Len(c) = 1 => t[Len(t)] = c[1]
        BY <2>1, <2>2, <2>3, Joined
    <2>5. Len(t) >= 2 /\ t[1] = {o.regs[1]} /\ t[Len(t)] = {o.regs[2]}
        BY <2>1, <2>3, <2>4
    <2>6. Len(t) \in Nat /\ DOMAIN t = 1 .. Len(t)
        BY <2>4
    <2> QED BY <1>1, <1>6, <2>5, <2>6 DEF t
<1>7. CASE o.rule # "memory"
    <2> DEFINE a == [k \in DOMAIN o.regs |-> Named(o.regs[k])]
               b == Other(o.imm)
               c == Other(o.label)
    <2>1. a \in Seq(SUBSET Reg) /\ Len(a) = n /\ \A k \in 1 .. n : a[k] = {o.regs[k]}
        BY <1>1, <1>2
    <2>2. t = a \o b \o c
        BY <1>4, <1>7
    <2> HIDE DEF a, b, c, t
    <2>3. b \in Seq(SUBSET Reg) /\ c \in Seq(SUBSET Reg) /\ Len(b) = Cardinality(o.imm)
          /\ Len(c) = Cardinality(o.label)
        BY <1>3, <1>5 DEF b, c
    <2>4. /\ t \in Seq(SUBSET Reg) /\ Len(t) = Len(a) + Len(b) + Len(c)
          /\ \A k \in 1 .. Len(a) : t[k] = a[k]
        <3>1. a \in Seq(SUBSET Reg) /\ b \in Seq(SUBSET Reg) /\ c \in Seq(SUBSET Reg)
            BY <2>1, <2>3
        <3> QED BY <2>2, <3>1, Joined
    <2>5. /\ Len(t) = n + Cardinality(o.imm) + Cardinality(o.label)
          /\ \A k \in 1 .. n : t[k] = {o.regs[k]}
        BY <2>1, <2>3, <2>4
    <2>6. Len(t) \in Nat /\ DOMAIN t = 1 .. Len(t)
        BY <2>4
    <2> QED BY <1>1, <1>7, <2>5, <2>6 DEF t
<1> QED BY <1>1, <1>6, <1>7

-----------------------------------------------------------------------------
(* The registers that a statement reads and writes are those of the        *)
(* instruction that is made of it.                                         *)
\* The registers of a statement, by its mnemonic.
Token(s, k) ==
    LET t == Infer!Tokens(s.operands) IN IF k \in DOMAIN t THEN t[k] ELSE {}

LastToken(s) == Token(s, Len(Infer!Tokens(s.operands)))

LEMMA ReadsAre ==
    ASSUME NEW s
    PROVE  /\ s.cmd \in Infer!rOps => Infer!Reads(s) = (Token(s, 2) \cup Token(s, 3)) \ {"zero"}
           /\ s.cmd \in {"addi", "mv"} => Infer!Reads(s) = Token(s, 2) \ {"zero"}
           /\ s.cmd \in Infer!loads => Infer!Reads(s) = LastToken(s) \ {"zero"}
           /\ s.cmd \in Infer!stores =>
                 Infer!Reads(s) = (Token(s, 1) \cup LastToken(s)) \ {"zero"}
           /\ s.cmd \in Infer!branches =>
                 Infer!Reads(s) = (Token(s, 1) \cup Token(s, 2)) \ {"zero"}
           /\ s.cmd \in Infer!zeroBranches => Infer!Reads(s) = Token(s, 1) \ {"zero"}
           /\ s.cmd \in {"li", "j", "jal", "ret"} => Infer!Reads(s) = {}
<1> USE DEF Infer!Reads, Token, LastToken, Infer!rOps, Infer!loads, Infer!stores,
            Infer!branches, Infer!zeroBranches
<1>1. s.cmd \in Infer!rOps => Infer!Reads(s) = (Token(s, 2) \cup Token(s, 3)) \ {"zero"}
    OBVIOUS
<1>2. s.cmd \in {"addi", "mv"} => Infer!Reads(s) = Token(s, 2) \ {"zero"}
    OBVIOUS
<1>3. s.cmd \in Infer!loads => Infer!Reads(s) = LastToken(s) \ {"zero"}
    OBVIOUS
<1>4. s.cmd \in Infer!stores => Infer!Reads(s) = (Token(s, 1) \cup LastToken(s)) \ {"zero"}
    OBVIOUS
<1>5. s.cmd \in Infer!branches => Infer!Reads(s) = (Token(s, 1) \cup Token(s, 2)) \ {"zero"}
    OBVIOUS
<1>6. s.cmd \in Infer!zeroBranches => Infer!Reads(s) = Token(s, 1) \ {"zero"}
    OBVIOUS
<1>7. s.cmd \in {"li", "j", "jal", "ret"} => Infer!Reads(s) = {}
    OBVIOUS
<1> QED BY <1>1, <1>2, <1>3, <1>4, <1>5, <1>6, <1>7

LEMMA WritesAre ==
    ASSUME NEW s, LET t == Infer!Tokens(s.operands) IN Len(t) \in Nat /\ DOMAIN t = 1 .. Len(t)
    PROVE  /\ s.cmd \in Infer!rOps \cup Infer!loads \cup {"addi", "mv", "li"} =>
                 Infer!Writes(s) = Token(s, 1) \ {"zero"}
           /\ s.cmd = "jal" => Infer!Writes(s) = Infer!Destination(s) \ {"zero"}
           /\ s.cmd \in Infer!stores \cup Infer!branches \cup Infer!zeroBranches \cup {"j", "ret"} =>
                 Infer!Writes(s) = {}
<1> USE DEF Infer!rOps, Infer!loads, Infer!stores, Infer!branches, Infer!zeroBranches
<1>1. s.cmd \in Infer!rOps \cup Infer!loads \cup {"addi", "mv", "li"} =>
          Infer!Writes(s) = Token(s, 1) \ {"zero"}
    <2> DEFINE t == Infer!Tokens(s.operands)
    <2>1. (IF t = <<>> THEN {} ELSE t[1]) = Token(s, 1)
        <3>1. CASE t = <<>>
            <4>1. 1 \notin DOMAIN t
                BY <3>1
            <4> QED BY <3>1, <4>1 DEF Token
        <3>2. CASE t # <<>>
            <4>1. 1 \in DOMAIN t
                <5> HIDE DEF t
                <5>1. Len(t) = 0 => t = <<>>
                    OBVIOUS
                <5> QED BY <3>2, <5>1
            <4> QED BY <3>2, <4>1 DEF Token
        <3> QED BY <3>1, <3>2
    <2> QED BY <2>1 DEF Infer!Writes
<1>2. s.cmd = "jal" => Infer!Writes(s) = Infer!Destination(s) \ {"zero"}
    BY DEF Infer!Writes
<1>3. s.cmd \in Infer!stores \cup Infer!branches \cup Infer!zeroBranches \cup {"j", "ret"} =>
          Infer!Writes(s) = {}
    BY DEF Infer!Writes
<1> QED BY <1>1, <1>2, <1>3

\* A statement and the instruction that is made of it.
Agrees(s, c) ==
    /\ Infer!Reads(s) = ReadBy(c) \ {"zero"}
    /\ Infer!Writes(s) = Run!WrittenBy(c)
    /\ s.cmd \in Infer!branches \cup Infer!zeroBranches <=> c.type = "B"
    /\ s.cmd \in {"j", "jal"} <=> c.type = "JAL"
    /\ s.cmd = "ret" <=> c.type = "JALR"
    /\ s.cmd = "jal" /\ Infer!Destination(s) # {"zero"} <=> IsCall(c)

LEMMA SameParsing ==
    ASSUME NEW cmd
    PROVE  /\ AsmP!Parse(cmd, AsmP!ROpCode) # {} => cmd \in Infer!rOps
           /\ AsmP!Parse(cmd, AsmP!LoadOpCode) # {} => cmd \in Infer!loads
           /\ AsmP!Parse(cmd, AsmP!StoreOpCode) # {} => cmd \in Infer!stores
           /\ AsmP!Parse(cmd, AsmP!BOpCode) # {} =>
                 cmd \in {"beq", "bne", "blt", "bge", "bltu", "bgeu"}
<1>1. /\ AsmP!Parse(cmd, AsmP!ROpCode) # {} <=> cmd \in {"add", "sub", "div", "mul", "sll"}
      /\ AsmP!Parse(cmd, AsmP!LoadOpCode) # {} <=> cmd \in {"lb", "lbu", "lh", "lhu", "lw", "ld"}
      /\ AsmP!Parse(cmd, AsmP!StoreOpCode) # {} <=> cmd \in {"sb", "sh", "sw", "sd"}
      /\ AsmP!Parse(cmd, AsmP!BOpCode) # {} <=>
            cmd \in {"beq", "bne", "blt", "bge", "bltu", "bgeu"}
    BY AsmP!Parsing, WordsAssumption, MemoryAssumption, IsaAssumption, PipelineAssumption,
       SameConstants, AssemblerSources
<1> QED BY <1>1 DEF Infer!rOps, Infer!loads, Infer!stores

\* Where the registers are, for each of the kinds of operands.
IsOperand(s) ==
    s.operands \in AsmP!OperandsType /\ Range(s.operands.regs) \subseteq Reg

LEMMA MemoryAgrees ==
    ASSUME NEW s, IsOperand(s), s.operands.rule = "memory",
           NEW i \in AsmP!LowerMemoryOperand(s.cmd, s.operands.regs, s.operands.imm)
    PROVE  Agrees(s, i)
<1> DEFINE r == s.operands.regs
           t == Infer!Tokens(s.operands)
<1>1. /\ Len(t) \in Nat /\ DOMAIN t = 1 .. Len(t)
      /\ Len(t) >= 2 /\ t[1] = {r[1]} /\ t[Len(t)] = {r[2]}
    BY TokensAre DEF IsOperand
<1>2. Token(s, 1) = {r[1]} /\ LastToken(s) = {r[2]}
    <2>1. 1 \in DOMAIN t /\ Len(t) \in DOMAIN t
        BY <1>1
    <2> QED BY <1>1, <2>1 DEF Token, LastToken
<1> HIDE DEF t, r
<1>3. \/ /\ s.cmd \in Infer!loads /\ i.type = "L" /\ i.rd = r[1] /\ i.address.register = r[2]
      \/ /\ s.cmd \in Infer!stores /\ i.type = "S" /\ i.rs = r[1] /\ i.address.register = r[2]
    BY SameParsing DEF AsmP!LowerMemoryOperand, r
<1>4. CASE s.cmd \in Infer!loads /\ i.type = "L"
    <2>1. i.rd = r[1] /\ i.address.register = r[2]
        BY <1>3, <1>4
    <2>2. Infer!Reads(s) = {r[2]} \ {"zero"} /\ Infer!Writes(s) = {r[1]} \ {"zero"}
        BY <1>1, <1>2, <1>4, ReadsAre, WritesAre DEF t
    <2>3. ReadBy(i) = {r[2]} /\ Run!WrittenBy(i) = {r[1]} \ {"zero"} /\ ~IsCall(i)
        BY <1>4, <2>1 DEF ReadBy, Run!WrittenBy, IsCall
    <2>4. s.cmd \notin Infer!branches \cup Infer!zeroBranches \cup {"j", "jal", "ret"}
        BY <1>4 DEF Infer!loads, Infer!branches, Infer!zeroBranches
    <2> QED BY <1>4, <2>2, <2>3, <2>4 DEF Agrees
<1>5. CASE s.cmd \in Infer!stores /\ i.type = "S"
    <2>1. i.rs = r[1] /\ i.address.register = r[2]
        BY <1>3, <1>5
    <2>2. Infer!Reads(s) = {r[1], r[2]} \ {"zero"} /\ Infer!Writes(s) = {}
        BY <1>1, <1>2, <1>5, ReadsAre, WritesAre DEF t
    <2>3. ReadBy(i) = {r[1], r[2]} /\ Run!WrittenBy(i) = {} /\ ~IsCall(i)
        BY <1>5, <2>1 DEF ReadBy, Run!WrittenBy, IsCall
    <2>4. s.cmd \notin Infer!branches \cup Infer!zeroBranches \cup {"j", "jal", "ret"}
        BY <1>5 DEF Infer!stores, Infer!branches, Infer!zeroBranches
    <2> QED BY <1>5, <2>2, <2>3, <2>4 DEF Agrees
<1> QED BY <1>3, <1>4, <1>5

LEMMA FirstTokens ==
    ASSUME NEW s, IsOperand(s), s.operands.rule # "memory"
    PROVE  LET n == Len(s.operands.regs)
               t == Infer!Tokens(s.operands)
           IN  /\ Len(t) \in Nat /\ DOMAIN t = 1 .. Len(t) /\ n \in Nat
               /\ Len(t) = n + Cardinality(s.operands.imm) + Cardinality(s.operands.label)
               /\ \A k \in 1 .. n : Token(s, k) = {s.operands.regs[k]}
<1> DEFINE n == Len(s.operands.regs)
           t == Infer!Tokens(s.operands)
<1>1. /\ Len(t) \in Nat /\ DOMAIN t = 1 .. Len(t) /\ n \in Nat
      /\ Len(t) = n + Cardinality(s.operands.imm) + Cardinality(s.operands.label)
      /\ \A k \in 1 .. n : t[k] = {s.operands.regs[k]}
    BY TokensAre DEF IsOperand
<1>2. Cardinality(s.operands.imm) \in Nat /\ Cardinality(s.operands.label) \in Nat
    <2>1. s.operands.imm \in AsmP!Option(Int) /\ s.operands.label \in AsmP!Option(Label)
        BY DEF IsOperand, AsmP!OperandsType, AsmP!One, AsmP!Option
    <2> QED BY <2>1, OptionSize
<1>3. \A k \in 1 .. n : k \in DOMAIN t
    <2> HIDE DEF n, t
    <2> QED BY <1>1, <1>2
<1> QED BY <1>1, <1>3 DEF Token

LEMMA RAgrees ==
    ASSUME NEW s, IsOperand(s), s.operands.rule = "r",
           NEW i \in AsmP!LowerROperand(s.cmd, s.operands.regs)
    PROVE  Agrees(s, i)
<1> DEFINE r == s.operands.regs
<1>1. Len(r) = 3
    <2>1. r \in [1 .. 3 -> RegName]
        BY DEF IsOperand, AsmP!OperandsType, AsmP!Names
    <2> HIDE DEF r
    <2> QED BY <2>1
<1>2. Token(s, 1) = {r[1]} /\ Token(s, 2) = {r[2]} /\ Token(s, 3) = {r[3]}
    BY <1>1, FirstTokens
<1>3. s.cmd \in Infer!rOps /\ i.type = "R" /\ i.rd = r[1] /\ i.rs1 = r[2] /\ i.rs2 = r[3]
    BY SameParsing DEF AsmP!LowerROperand
<1>4. Infer!Reads(s) = {r[2], r[3]} \ {"zero"} /\ Infer!Writes(s) = {r[1]} \ {"zero"}
    BY <1>2, <1>3, ReadsAre, WritesAre, FirstTokens
<1>5. ReadBy(i) = {r[2], r[3]} /\ Run!WrittenBy(i) = {r[1]} \ {"zero"} /\ ~IsCall(i)
    BY <1>3 DEF ReadBy, Run!WrittenBy, IsCall
<1>6. s.cmd \notin Infer!branches \cup Infer!zeroBranches \cup {"j", "jal", "ret"}
    BY <1>3 DEF Infer!rOps, Infer!branches, Infer!zeroBranches
<1> QED BY <1>3, <1>4, <1>5, <1>6 DEF Agrees

\* addi, mv and li
LEMMA AddiAgrees ==
    ASSUME NEW s, IsOperand(s), NEW rs, NEW imm, NEW i,
           i = AsmP!Addi(s.operands.regs[1], rs, imm),
           \/ s.cmd = "addi" /\ s.operands.rule = "i" /\ rs = s.operands.regs[2]
           \/ s.cmd = "mv" /\ s.operands.rule = "binary" /\ rs = s.operands.regs[2]
           \/ s.cmd = "li" /\ s.operands.rule = "binary_imm" /\ rs = "zero"
    PROVE  Agrees(s, i)
<1> DEFINE r == s.operands.regs
<1>1. Len(r) >= 1 /\ (s.cmd # "li" => Len(r) = 2) /\ Len(r) \in Nat
    <2>1. r \in [1 .. IF s.cmd = "li" THEN 1 ELSE 2 -> RegName]
        BY DEF IsOperand, AsmP!OperandsType, AsmP!Names
    <2> HIDE DEF r
    <2> QED BY <2>1
<1>2. Token(s, 1) = {r[1]} /\ (s.cmd # "li" => Token(s, 2) = {r[2]})
    BY <1>1, FirstTokens
<1>3. i.type = "I" /\ i.rd = r[1] /\ i.rs = rs
    BY DEF AsmP!Addi
<1>4. Infer!Reads(s) = {rs} \ {"zero"} /\ Infer!Writes(s) = {r[1]} \ {"zero"}
    <2>1. s.cmd \in Infer!rOps \cup Infer!loads \cup {"addi", "mv", "li"}
        OBVIOUS
    <2>2. Infer!Writes(s) = {r[1]} \ {"zero"}
        BY <1>2, <2>1, WritesAre, FirstTokens
    <2>3. Infer!Reads(s) = {rs} \ {"zero"}
        BY <1>2, ReadsAre
    <2> QED BY <2>2, <2>3
<1>5. ReadBy(i) = {rs} /\ Run!WrittenBy(i) = {r[1]} \ {"zero"} /\ ~IsCall(i)
    BY <1>3 DEF ReadBy, Run!WrittenBy, IsCall
<1>6. s.cmd \notin Infer!branches \cup Infer!zeroBranches \cup {"j", "jal", "ret"}
    BY DEF Infer!branches, Infer!zeroBranches
<1> QED BY <1>3, <1>4, <1>5, <1>6 DEF Agrees

LEMMA BranchAgrees ==
    ASSUME NEW s, IsOperand(s), s.operands.rule = "branch",
           NEW i \in AsmP!LowerTwoRegisterBranch(s.cmd, s.operands.regs[1], s.operands.regs[2])
    PROVE  Agrees(s, i)
<1> DEFINE r == s.operands.regs
<1>1. Len(r) = 2
    <2>1. r \in [1 .. 2 -> RegName]
        BY DEF IsOperand, AsmP!OperandsType, AsmP!Names
    <2> HIDE DEF r
    <2> QED BY <2>1
<1>2. Token(s, 1) = {r[1]} /\ Token(s, 2) = {r[2]}
    BY <1>1, FirstTokens
<1> HIDE DEF r
<1>3. /\ s.cmd \in Infer!branches /\ i.type = "B"
      /\ (i.rs1 = r[1] /\ i.rs2 = r[2]) \/ (i.rs1 = r[2] /\ i.rs2 = r[1])
    <2>1. CASE s.cmd \in {"bgt", "ble", "bgtu", "bleu"}
        BY <2>1 DEF AsmP!LowerTwoRegisterBranch, AsmP!Branch, Infer!branches, r
    <2>2. CASE s.cmd \notin {"bgt", "ble", "bgtu", "bleu"}
        <3>1. \E c \in AsmP!Parse(s.cmd, AsmP!BOpCode) : i = AsmP!Branch(c, r[1], r[2])
            BY <2>2 DEF AsmP!LowerTwoRegisterBranch, r
        <3> QED BY <3>1, SameParsing DEF AsmP!Branch, Infer!branches
    <2> QED BY <2>1, <2>2
<1>4. Infer!Reads(s) = {r[1], r[2]} \ {"zero"} /\ Infer!Writes(s) = {}
    BY <1>2, <1>3, ReadsAre, WritesAre, FirstTokens
<1>5. ReadBy(i) = {r[1], r[2]} /\ Run!WrittenBy(i) = {} /\ ~IsCall(i)
    BY <1>3 DEF ReadBy, Run!WrittenBy, IsCall
<1>6. s.cmd \notin {"j", "jal", "ret"}
    BY <1>3 DEF Infer!branches
<1> QED BY <1>3, <1>4, <1>5, <1>6 DEF Agrees

LEMMA LabelAgrees ==
    ASSUME NEW s, IsOperand(s), s.operands.rule = "label",
           NEW i \in AsmP!LowerLabelOperand(s.cmd, s.operands.regs)
    PROVE  Agrees(s, i)
<1> DEFINE r == s.operands.regs
           t == Infer!Tokens(s.operands)
<1>1. /\ Len(r) \in 0 .. 1 /\ (r = <<>> <=> Len(r) = 0) /\ DOMAIN r = 1 .. Len(r)
    <2>1. r \in [1 .. 0 -> RegName] \cup [1 .. 1 -> RegName]
        BY DEF IsOperand, AsmP!OperandsType, AsmP!Names
    <2> HIDE DEF r
    <2>2. CASE r \in [1 .. 0 -> RegName]
        <3>1. DOMAIN r = 1 .. 0 /\ 0 \in Nat
            BY <2>2
        <3>2. Len(r) = 0 /\ r \in Seq(RegName)
            BY <2>2, <3>1
        <3> QED BY <3>1, <3>2
    <2>3. CASE r \in [1 .. 1 -> RegName]
        <3>1. DOMAIN r = 1 .. 1 /\ Len(r) = 1 /\ 1 \in DOMAIN r
            BY <2>3
        <3>2. Len(<<>>) = 0
            OBVIOUS
        <3>3. Len(r) # Len(<<>>)
            BY <3>1, <3>2
        <3>4. r # <<>>
            BY <3>3, Zenon
        <3> QED BY <3>1, <3>4
    <2> QED BY <2>1, <2>2, <2>3
<1>2. /\ Len(t) = Len(r) + 1 /\ DOMAIN t = 1 .. Len(t)
      /\ Len(r) = 1 => Token(s, 1) = {r[1]} /\ t[1] = {r[1]}
    <2>1. Cardinality(s.operands.imm) = 0
        <3>1. s.operands.imm = {}
            BY DEF IsOperand, AsmP!OperandsType
        <3> QED BY <3>1, FS_EmptySet
    <2>2. Cardinality(s.operands.label) = 1
        <3>1. s.operands.label \in AsmP!Option(Label) /\ s.operands.label # {}
            BY DEF IsOperand, AsmP!OperandsType, AsmP!One
        <3> QED BY <3>1, OptionSize
    <2>3. Len(t) = Len(r) + 1 /\ DOMAIN t = 1 .. Len(t)
        <3>1. Len(t) = Len(r) + Cardinality(s.operands.imm) + Cardinality(s.operands.label)
              /\ DOMAIN t = 1 .. Len(t)
            BY FirstTokens
        <3> HIDE DEF t, r
        <3> QED BY <1>1, <2>1, <2>2, <3>1
    <2>4. Len(r) = 1 => Token(s, 1) = {r[1]}
        BY FirstTokens
    <2>5. Len(r) = 1 => 1 \in DOMAIN t
        BY <2>3
    <2> QED BY <2>3, <2>4, <2>5 DEF Token
<1>3. CASE s.cmd \in Infer!zeroBranches
    <2>1. s.cmd \in {"beqz", "bnez", "bltz", "bgez"}
        BY <1>3 DEF Infer!zeroBranches
    <2>2. i \in UNION {AsmP!LowerZeroBranch(s.cmd, rs) : rs \in AsmP!Range(r)}
        BY <2>1 DEF AsmP!LowerLabelOperand
    <2>3. PICK rs \in AsmP!Range(r) : i \in AsmP!LowerZeroBranch(s.cmd, rs)
        BY <2>2
    <2>4. i.type = "B" /\ i.rs1 = rs /\ i.rs2 = "zero"
        BY <2>1, <2>3 DEF AsmP!LowerZeroBranch, AsmP!Branch
    <2>5. Len(r) = 1 /\ rs = r[1]
        BY <1>1, <2>3 DEF AsmP!Range
    <2>6. Infer!Reads(s) = {rs} \ {"zero"} /\ Infer!Writes(s) = {}
        BY <1>2, <1>3, <2>5, ReadsAre, WritesAre, FirstTokens
    <2>7. ReadBy(i) = {rs, "zero"} /\ Run!WrittenBy(i) = {} /\ ~IsCall(i)
        BY <2>4 DEF ReadBy, Run!WrittenBy, IsCall
    <2>8. s.cmd \notin {"j", "jal", "ret"}
        BY <2>1
    <2> QED BY <1>3, <2>4, <2>6, <2>7, <2>8 DEF Agrees
<1>4. CASE s.cmd \notin Infer!zeroBranches
    <2>1. \/ s.cmd = "j" /\ i.type = "JAL" /\ i.rd = "zero"
          \/ s.cmd = "jal" /\ i.type = "JAL" /\ i.rd = IF r = <<>> THEN "ra" ELSE r[1]
        BY <1>4 DEF AsmP!LowerLabelOperand, Infer!zeroBranches
    <2>2. Infer!Reads(s) = {} /\ ReadBy(i) = {}
        BY <2>1, ReadsAre DEF ReadBy
    <2>3. s.cmd \notin Infer!branches \cup {"ret"}
        BY <2>1 DEF Infer!branches
    <2>4. CASE s.cmd = "j"
        <3>1. Infer!Writes(s) = {} /\ Run!WrittenBy(i) = {}
            BY <2>1, <2>4, WritesAre, FirstTokens DEF Run!WrittenBy
        <3> QED BY <1>4, <2>1, <2>2, <2>3, <2>4, <3>1 DEF Agrees, IsCall
    <2>5. CASE s.cmd = "jal"
        <3>1. Infer!Destination(s) = {i.rd}
            <4>1. CASE Len(r) = 0
                BY <1>1, <1>2, <2>1, <2>5, <4>1 DEF Infer!Destination
            <4>2. CASE Len(r) = 1
                BY <1>1, <1>2, <2>1, <2>5, <4>2 DEF Infer!Destination
            <4> QED BY <1>1, <4>1, <4>2
        <3>2. Infer!Writes(s) = {i.rd} \ {"zero"} /\ Run!WrittenBy(i) = {i.rd} \ {"zero"}
            BY <2>1, <2>5, <3>1, WritesAre, FirstTokens DEF Run!WrittenBy
        <3> QED BY <1>4, <2>1, <2>2, <2>3, <2>5, <3>1, <3>2 DEF Agrees, IsCall
    <2> QED BY <2>1, <2>4, <2>5
<1> QED BY <1>3, <1>4

\* So do a statement of the text and the instruction that is made of it.
LEMMA StatementAgrees ==
    ASSUME NEW s, s.operands \in AsmP!OperandsType,
           NEW i \in AsmP!CreateInst(s.cmd, s.operands), NEW c, AsmP!SameButTarget(i, c)
    PROVE  Agrees(s, c)
<1> DEFINE o == s.operands
<1>1. IsOperand(s)
    BY DEF AsmP!CreateInst, IsOperand, AsmP!Range, Range
<1>2. Agrees(s, i)
    <2>1. CASE o.rule = "memory"
        <3>1. i \in AsmP!LowerMemoryOperand(s.cmd, o.regs, o.imm)
            BY <2>1 DEF AsmP!CreateInst
        <3> QED BY <1>1, <2>1, <3>1, MemoryAgrees
    <2>2. CASE o.rule = "r"
        <3>1. i \in AsmP!LowerROperand(s.cmd, o.regs)
            BY <2>2 DEF AsmP!CreateInst
        <3> QED BY <1>1, <2>2, <3>1, RAgrees
    <2>3. CASE o.rule = "i"
        <3>1. \E imm : i = AsmP!Addi(o.regs[1], o.regs[2], imm) /\ s.cmd = "addi"
            BY <2>3 DEF AsmP!CreateInst
        <3> QED BY <1>1, <2>3, <3>1, AddiAgrees
    <2>4. CASE o.rule = "branch"
        <3>1. i \in AsmP!LowerTwoRegisterBranch(s.cmd, o.regs[1], o.regs[2])
            BY <2>4 DEF AsmP!CreateInst
        <3> QED BY <1>1, <2>4, <3>1, BranchAgrees
    <2>5. CASE o.rule = "label"
        <3>1. i \in AsmP!LowerLabelOperand(s.cmd, o.regs)
            BY <2>5 DEF AsmP!CreateInst
        <3> QED BY <1>1, <2>5, <3>1, LabelAgrees
    <2>6. CASE o.rule = "binary"
        <3>1. i = AsmP!Addi(o.regs[1], o.regs[2], 0) /\ s.cmd = "mv"
            BY <2>6 DEF AsmP!CreateInst
        <3> QED BY <1>1, <2>6, <3>1, AddiAgrees
    <2>7. CASE o.rule = "binary_imm"
        <3>1. \E imm : i = AsmP!Addi(o.regs[1], "zero", imm) /\ s.cmd = "li"
            BY <2>7 DEF AsmP!CreateInst
        <3> QED BY <1>1, <2>7, <3>1, AddiAgrees
    <2>8. CASE o.rule = "none"
        <3>1. s.cmd = "ret" /\ i.type = "JALR" /\ i.rd = "zero"
            BY <2>8 DEF AsmP!CreateInst, AsmP!Ret
        <3>2. Infer!Reads(s) = {} /\ Infer!Writes(s) = {}
            BY <1>1, <2>8, <3>1, ReadsAre, WritesAre, FirstTokens
        <3>3. ReadBy(i) = {} /\ Run!WrittenBy(i) = {} /\ ~IsCall(i)
            BY <3>1 DEF ReadBy, Run!WrittenBy, IsCall
        <3> QED BY <3>1, <3>2, <3>3 DEF Agrees, Infer!branches, Infer!zeroBranches
    <2>9. o.rule \in {"memory", "r", "i", "branch", "label", "binary", "binary_imm", "none"}
        BY DEF AsmP!OperandsType
    <2> QED BY <2>1, <2>2, <2>3, <2>4, <2>5, <2>6, <2>7, <2>8, <2>9
<1>3. CASE c = i
    BY <1>2, <1>3
<1>4. CASE i.type \in {"B", "JAL"}
    <2>1. ReadBy(c) = ReadBy(i) /\ Run!WrittenBy(c) = Run!WrittenBy(i) /\ c.type = i.type
          /\ (IsCall(c) <=> IsCall(i))
        BY <1>4 DEF AsmP!SameButTarget, ReadBy, Run!WrittenBy, IsCall
    <2> QED BY <1>2, <2>1 DEF Agrees
<1> QED BY <1>3, <1>4 DEF AsmP!SameButTarget, AsmP!NeedsTarget

-----------------------------------------------------------------------------
(* Instructions, labels and the entry, by number.                          *)
\* Numbers in order.
LEMMA OrderIs ==
    ASSUME NEW N \in Nat, NEW S \in SUBSET (1 .. N)
    PROVE  /\ Infer!InOrder(S) \in Seq(1 .. N) /\ Range(Infer!InOrder(S)) = S
           /\ DOMAIN Infer!InOrder(S) = 1 .. Cardinality(S) /\ Cardinality(S) \in Nat
<1> DEFINE q == Infer!InOrder(S)
           D == 1 .. N
<1>1. IsFiniteSet(S) /\ S \in SUBSET Int /\ S \subseteq D
    <2>1. IsFiniteSet(1 .. N)
        BY FS_Interval
    <2>2. IsFiniteSet(S)
        BY <2>1, FS_Subset
    <2>3. S \in SUBSET Int
        OBVIOUS
    <2> QED BY <2>2, <2>3
<1>2. /\ AnP!Cardinality(S) = Cardinality(S)
      /\ AnP!IsFiniteSet(S)
    BY <1>1, Zenon DEF AnP!Cardinality, Cardinality, AnP!IsFiniteSet, IsFiniteSet
<1>3. LET p == AnP!InOrder(S)
          n == AnP!Cardinality(S)
      IN  /\ n \in Nat /\ DOMAIN p = 1 .. n /\ Len(p) = n
          /\ \A i \in 1 .. n : p[i] \in S
          /\ \A x \in S : \E i \in 1 .. n : p[i] = x
          /\ \A i, j \in 1 .. n : i < j => p[i] < p[j]
    BY <1>1, <1>2, AnP!InOrderLists, WordsAssumption, MemoryAssumption, IsaAssumption,
       SameConstants
<1>4. /\ Cardinality(S) \in Nat /\ DOMAIN q = 1 .. Cardinality(S)
      /\ \A i \in DOMAIN q : q[i] \in S
      /\ \A x \in S : \E i \in DOMAIN q : q[i] = x
    BY <1>2, <1>3, TextOrder
<1>5. q = [i \in 1 .. Cardinality(S) |-> q[i]]
    <2> DEFINE C == 1 .. Infer!Cardinality(S)
               e(i) == CHOOSE x \in S : Infer!Cardinality({y \in S : y < x}) = i - 1
    <2>1. q = [i \in C |-> e(i)]
        BY Zenon DEF Infer!InOrder
    <2> HIDE DEF q, e, C
    <2>2. q = [i \in DOMAIN q |-> q[i]]
        BY <2>1
    <2> QED BY <1>4, <2>2
<1> HIDE DEF q, D
<1>6. q \in Seq(D)
    BY <1>1, <1>4, <1>5
<1>7. Range(q) = S
    BY <1>4 DEF Range
<1> QED BY <1>4, <1>6, <1>7 DEF q, D

\* The text of an assembled program.
LEMMA TextIs ==
    ASSUME Whole, phase = "assembled"
    PROVE  LET P == AsmP!Instructions
           IN  /\ source \in Seq(AsmP!StatementType) /\ Len(source) \in Nat
               /\ Infer!Positions(source) = P /\ P \in SUBSET (1 .. Len(source))
               /\ Len(Asm!Code) = Cardinality(P) /\ DOMAIN Asm!Code = 1 .. Cardinality(P)
               /\ \A n : Infer!Before(source, n) = AsmP!Count(n)
               /\ \A n \in P : AsmP!Count(n) \in Nat /\ AsmP!Count(n) + 1 \in DOMAIN Asm!Code
               /\ \A k \in DOMAIN Asm!Code : \E n \in P : k = AsmP!Count(n) + 1
<1>1. AsmP!IInv /\ AsmP!TextIsAssembled
    BY DEF Whole
<1>2. source \in Seq(AsmP!StatementType)
    <2>1. AsmP!TypeOK
        BY <1>1 DEF AsmP!IInv
    <2> QED BY <2>1, AsmP!SourceType, WordsAssumption, MemoryAssumption, IsaAssumption,
               PipelineAssumption, SameConstants, AssemblerSources
<1>3. Infer!Positions(source) = AsmP!Instructions
      /\ AsmP!Instructions \in SUBSET (1 .. Len(source))
    BY <1>2 DEF Infer!Positions, AsmP!Instructions
<1>4. \A n : Infer!Before(source, n) = AsmP!Count(n)
    BY <1>3, SameCardinality DEF Infer!Before, AsmP!Count
<1>5. /\ AsmP!ProgramIsNumbered /\ AsmP!Seen = DOMAIN source /\ done = Len(source)
    <2>1. AsmP!ProgramIsNumbered /\ AsmP!LabelsAreLast /\ done = Len(source)
        BY <1>1 DEF AsmP!TextIsAssembled
    <2> QED BY <1>2, <2>1 DEF AsmP!Seen
<1>6. /\ \A n \in Nat : AsmP!Count(n) \in Nat
      /\ AsmP!Count(Len(source) + 1) = Cardinality(AsmP!Instructions)
    <2>1. /\ \A n \in Nat : AsmP!Count(n) \in Nat
          /\ AsmP!Count(Len(source) + 1) = AsmP!Cardinality(AsmP!Instructions)
        BY <1>2, AsmP!Counting, WordsAssumption, MemoryAssumption, IsaAssumption,
           PipelineAssumption, SameConstants, AssemblerSources
    <2> QED BY <2>1, SameCardinality
<1>7. program \in Seq(AsmP!Entry) /\ DOMAIN program = 1 .. Len(program)
    BY <1>1 DEF AsmP!IInv
<1>8. Len(program) = Cardinality(AsmP!Instructions)
    BY <1>5, <1>6 DEF AsmP!ProgramIsNumbered
<1>9. Asm!Code \in Seq(AsmP!Instruction) /\ DOMAIN Asm!Code = DOMAIN program
    BY <1>1, ProgramFits DEF AsmP!IsAssembled, Asm!Code
<1>10. Len(Asm!Code) = Cardinality(AsmP!Instructions)
       /\ DOMAIN Asm!Code = 1 .. Cardinality(AsmP!Instructions)
    <2>1. Len(program) \in Nat /\ Asm!Code = [k \in 1 .. Len(program) |-> program[k].inst]
        BY <1>7 DEF Asm!Code
    <2>2. Len(Asm!Code) = Len(program) /\ DOMAIN Asm!Code = 1 .. Len(program)
        BY <2>1
    <2> QED BY <1>8, <2>2
<1>11. AsmP!Instructions \cap AsmP!Seen = AsmP!Instructions
    <2>1. AsmP!Instructions \subseteq DOMAIN source
        BY DEF AsmP!Instructions
    <2> QED BY <1>5, <2>1
<1>12. \A n \in AsmP!Instructions : AsmP!Count(n) \in Nat
    BY <1>2, <1>3, <1>6
<1>13. \A n \in AsmP!Instructions : AsmP!Count(n) + 1 \in DOMAIN Asm!Code
    BY <1>5, <1>9, <1>11 DEF AsmP!ProgramIsNumbered
<1>14. \A k \in DOMAIN Asm!Code : \E n \in AsmP!Instructions : k = AsmP!Count(n) + 1
    BY <1>5, <1>9, <1>11 DEF AsmP!ProgramIsNumbered
<1> QED BY <1>2, <1>3, <1>4, <1>10, <1>12, <1>13, <1>14

\* Its instructions, by number.
LEMMA InstructionsAre ==
    ASSUME Whole, phase = "assembled"
    PROVE  LET is == Infer!Instructions(source)
           IN  /\ Len(is) = Len(Asm!Code) /\ DOMAIN is = 1 .. Len(Asm!Code)
               /\ Len(Asm!Code) \in Nat /\ DOMAIN Asm!Code = 1 .. Len(Asm!Code)
               /\ \A n \in AsmP!Instructions : is[AsmP!Count(n) + 1] = source[n]
<1> DEFINE P == AsmP!Instructions
           at == Infer!InOrder(P)
           is == Infer!Instructions(source)
<1>1. /\ Len(source) \in Nat /\ Infer!Positions(source) = P /\ P \in SUBSET (1 .. Len(source))
      /\ Len(Asm!Code) = Cardinality(P) /\ DOMAIN Asm!Code = 1 .. Cardinality(P)
      /\ \A n \in P : AsmP!Count(n) \in Nat /\ AsmP!Count(n) + 1 \in DOMAIN Asm!Code
    BY TextIs
<1>2. DOMAIN at = 1 .. Cardinality(P) /\ Cardinality(P) \in Nat
    <2> HIDE DEF P
    <2> QED BY <1>1, OrderIs
<1>3. is = [k \in DOMAIN at |-> source[at[k]]]
    BY <1>1, Zenon DEF Infer!Instructions
<1>4. ASSUME NEW n \in P PROVE at[AsmP!Count(n) + 1] = n
    <2> DEFINE k == AsmP!Count(n) + 1
               rank(x) == Cardinality({y \in P : y < x})
    <2>1. k \in 1 .. Cardinality(P) /\ rank(n) = k - 1 /\ k \in Nat
        BY <1>1, SameCardinality DEF AsmP!Count
    <2>2. at[k] = CHOOSE x \in P : rank(x) = k - 1
        BY <2>1, SameCardinality DEF Infer!InOrder
    <2>3. \A x, y \in P : x < y => rank(x) < rank(y)
        <3>1. P \in SUBSET Int /\ AnP!IsFiniteSet(P)
            <4>1. IsFiniteSet(1 .. Len(source))
                BY <1>1, FS_Interval
            <4>2. IsFiniteSet(P)
                BY <1>1, <4>1, FS_Subset
            <4>3. AnP!IsFiniteSet(P)
                BY <4>2, Zenon DEF AnP!IsFiniteSet, IsFiniteSet
            <4>4. P \in SUBSET Int
                BY <1>1
            <4> QED BY <4>3, <4>4
        <3> HIDE DEF P
        <3>2. \A x, y \in P : x < y => AnP!Rank(P, x) < AnP!Rank(P, y)
            BY <3>1, AnP!RankGrows, WordsAssumption, MemoryAssumption, IsaAssumption,
               SameConstants
        <3>3. \A x : AnP!Rank(P, x) = rank(x)
            BY Zenon DEF AnP!Rank, AnP!Cardinality, Cardinality
        <3> QED BY <3>2, <3>3
    <2> HIDE DEF k, rank
    <2>4. at[k] \in P /\ rank(at[k]) = rank(n)
        BY <2>1, <2>2
    <2> DEFINE m == at[k]
    <2>5. m \in P /\ rank(m) = rank(n) /\ m \in Int /\ n \in Int /\ rank(n) \in Int
        <3>1. \A x \in P : x \in Int
            BY <1>1
        <3>2. k - 1 \in Int
            BY <2>1
        <3> HIDE DEF P
        <3> QED BY <2>1, <2>4, <3>1, <3>2
    <2> HIDE DEF m
    <2>6. ~(m < n) /\ ~(n < m)
        BY <2>3, <2>5
    <2> QED BY <2>5, <2>6 DEF m, k
<1> HIDE DEF at, P, is
<1>5. DOMAIN is = 1 .. Cardinality(P) /\ Len(is) = Cardinality(P)
    BY <1>2, <1>3
<1>6. \A n \in P : is[AsmP!Count(n) + 1] = source[n]
    BY <1>1, <1>2, <1>3, <1>4
<1> QED BY <1>1, <1>2, <1>5, <1>6 DEF is, P

\* The number of an instruction and its address.
LEMMA IndexOf ==
    ASSUME NEW c \in Nat
    PROVE  Index(WordSize * c) = c + 1
<1>1. (4 * c) \div 4 = c
    OBVIOUS
<1> QED BY <1>1 DEF Index, WordSize

LEMMA LabelIs ==
    ASSUME Whole, phase = "assembled", NEW l
    PROVE  IF AsmP!Defined(l)
           THEN \E c \in Nat : /\ AsmP!PlaceOf(l) = WordSize * c
                               /\ Infer!LabelAt(source, l) = {c + 1}
           ELSE Infer!LabelAt(source, l) = {}
<1> DEFINE at == AsmP!Definitions(l)
           last == {m \in at : \A k \in at : k <= m}
<1>1. /\ source \in Seq(AsmP!StatementType) /\ Len(source) \in Nat
      /\ \A n : Infer!Before(source, n) = AsmP!Count(n)
    BY TextIs
<1>2. at \in SUBSET (1 .. Len(source))
    BY <1>1 DEF AsmP!Definitions
<1>3. Infer!LabelAt(source, l) = {AsmP!Count(n) + 1 : n \in last}
    BY <1>1 DEF Infer!LabelAt, AsmP!Definitions
<1>4. CASE at = {}
    BY <1>3, <1>4 DEF AsmP!Defined
<1>5. CASE at # {}
    <2> HIDE DEF at
    <2>1. PICK m \in at : \A k \in at : k <= m
        BY <1>1, <1>2, <1>5, LastIndex
    <2>2. \A k \in at : k \in Int
        BY <1>2
    <2>3. last = {m}
        BY <2>1, <2>2
    <2>4. AsmP!Max(at) = m
        <3> DEFINE x == CHOOSE y \in at : \A k \in at : y >= k
        <3>1. m \in at /\ \A k \in at : m >= k
            BY <2>1, <2>2
        <3>2. x \in at /\ \A k \in at : x >= k
            BY <3>1
        <3> HIDE DEF x
        <3>3. x = m
            BY <2>2, <3>1, <3>2
        <3> QED BY <3>3 DEF AsmP!Max, x
    <2>5. AsmP!Count(m) \in Nat
        <3>1. /\ \A n \in Nat : AsmP!Count(n) \in Nat
            BY <1>1, AsmP!Counting, WordsAssumption, MemoryAssumption, IsaAssumption,
               PipelineAssumption, SameConstants, AssemblerSources
        <3>2. m \in Nat
            BY <1>2, <2>1
        <3> QED BY <3>1, <3>2
    <2>6. AsmP!PlaceOf(l) = WordSize * AsmP!Count(m)
        BY <2>4, SameConstants DEF AsmP!PlaceOf, AsmP!Place, AsmP!Count, at
    <2>7. Infer!LabelAt(source, l) = {AsmP!Count(m) + 1}
        BY <1>3, <2>3
    <2>8. AsmP!Defined(l)
        BY <1>5 DEF AsmP!Defined, at
    <2> QED BY <2>5, <2>6, <2>7, <2>8
<1> QED BY <1>4, <1>5

\* The entry, as the browser finds it.
LEMMA EntryIs ==
    ASSUME Whole, phase = "assembled"
    PROVE  Infer!EntryOf(source) = Index(Asm!EntryPc)
<1> DEFINE G == AsmP!GlobalLabels
           at == UNION {Infer!LabelAt(source, g) : g \in Infer!Globals(source)}
           places == {AsmP!PlaceOf(g) : g \in G}
<1>1. AsmP!IInv /\ AsmP!TextIsAssembled /\ source \in Seq(AsmP!StatementType)
    BY TextIs DEF Whole
<1>2. /\ \A n \in AsmP!Directives : source[n].name = "global" /\ source[n].label \in Label
      /\ AsmP!GlobalPcs = places
      /\ AsmP!EntryPc = IF G = {} THEN 0 ELSE AsmP!Min(AsmP!GlobalPcs)
    BY <1>1, AsmP!GlobalsAre, WordsAssumption, MemoryAssumption, IsaAssumption,
       PipelineAssumption, SameConstants, AssemblerSources
<1>3. \A g : g \in Infer!Globals(source) /\ AsmP!Defined(g) <=> g \in G
    <2>1. \A g : g \in Infer!Globals(source) <=>
             \E n \in AsmP!Directives : source[n].name \in {"global", "globl"} /\ source[n].label = g
        BY DEF Infer!Globals, AsmP!Directives, Infer!Range
    <2>2. \A g : g \in G <=> g \in Label /\ AsmP!Defined(g)
                             /\ \E n \in AsmP!Directives : source[n].label = g
        BY DEF AsmP!GlobalLabels, AsmP!Directives
    <2> QED BY <1>2, <2>1, <2>2
<1>4. \A x : x \in at <=> \E g \in G : x \in Infer!LabelAt(source, g)
    <2>1. \A g : ~AsmP!Defined(g) => Infer!LabelAt(source, g) = {}
        BY LabelIs
    <2> QED BY <1>3, <2>1
<1>5. \A g \in G : \E c \in Nat : AsmP!PlaceOf(g) = WordSize * c
                                  /\ Infer!LabelAt(source, g) = {c + 1}
    <2>1. \A g \in G : AsmP!Defined(g)
        BY <1>3
    <2> QED BY <2>1, LabelIs
<1> HIDE DEF at, places, G
<1>6. \A x : x \in at <=> \E c \in Nat : x = c + 1 /\ WordSize * c \in places
    <2> TAKE x
    <2>1. ASSUME x \in at PROVE \E c \in Nat : x = c + 1 /\ WordSize * c \in places
        <3>1. PICK g \in G : x \in Infer!LabelAt(source, g)
            BY <1>4, <2>1
        <3>2. PICK c \in Nat : AsmP!PlaceOf(g) = WordSize * c /\ Infer!LabelAt(source, g) = {c + 1}
            BY <1>5
        <3>3. WordSize * c \in places /\ x = c + 1
            BY <3>1, <3>2 DEF places
        <3> QED BY <3>3
    <2>2. ASSUME NEW c \in Nat, x = c + 1, WordSize * c \in places PROVE x \in at
        <3>1. PICK g \in G : AsmP!PlaceOf(g) = WordSize * c
            BY <2>2 DEF places
        <3>2. PICK d \in Nat : AsmP!PlaceOf(g) = WordSize * d /\ Infer!LabelAt(source, g) = {d + 1}
            BY <1>5
        <3>3. c = d
            BY <3>1, <3>2 DEF WordSize
        <3> QED BY <1>4, <2>2, <3>2, <3>3
    <2> QED BY <2>1, <2>2
<1>7. \A a \in places : \E c \in Nat : a = WordSize * c /\ c + 1 \in at
    <2> TAKE a \in places
    <2>1. PICK g \in G : a = AsmP!PlaceOf(g)
        BY DEF places
    <2> QED BY <1>4, <1>5, <2>1
<1>8. CASE places = {}
    <2>1. at = {} /\ G = {}
        BY <1>6, <1>8 DEF places
    <2>2. Infer!EntryOf(source) = 1
        BY <2>1 DEF Infer!EntryOf, at
    <2>3. Index(0) = 1
        BY DEF Index, WordSize
    <2> QED BY <1>2, <2>1, <2>2, <2>3, SameProgram
<1>9. CASE places # {}
    <2>1. at \in SUBSET Nat /\ at # {}
        BY <1>6, <1>7, <1>9
    <2>2. PICK n \in at : \A m \in at : n <= m
        BY <2>1, LeastNumber
    <2>3. Infer!EntryOf(source) = n
        <3> DEFINE x == CHOOSE y \in at : \A m \in at : y <= m
        <3>1. x \in at /\ \A m \in at : x <= m
            BY <2>2
        <3> HIDE DEF x
        <3>2. \A m \in at : m \in Int
            BY <2>1
        <3>3. x = n
            BY <2>2, <3>1, <3>2
        <3> QED BY <2>1, <3>3 DEF Infer!EntryOf, at, x
    <2>4. PICK c \in Nat : n = c + 1 /\ WordSize * c \in places
        BY <1>6
    <2>5. \A a \in places : a \in Int /\ WordSize * c <= a
        <3> TAKE a \in places
        <3>1. PICK d \in Nat : a = WordSize * d /\ d + 1 \in at
            BY <1>7
        <3>2. c + 1 <= d + 1
            BY <2>2, <2>4, <3>1
        <3> QED BY <3>1, <3>2 DEF WordSize
    <2>6. AsmP!Min(places) = WordSize * c
        <3> DEFINE x == CHOOSE y \in places : \A a \in places : y <= a
        <3>1. x \in places /\ \A a \in places : x <= a
            BY <2>4, <2>5
        <3> HIDE DEF x
        <3>2. x = WordSize * c
            BY <2>4, <2>5, <3>1 DEF WordSize
        <3> QED BY <3>2 DEF AsmP!Min, x
    <2>7. G # {}
        BY <1>9 DEF places
    <2>8. Asm!EntryPc = WordSize * c
        BY <1>2, <2>6, <2>7, SameProgram
    <2> QED BY <2>3, <2>4, <2>8, IndexOf
<1> QED BY <1>8, <1>9

\* The instructions of the text and of the program, one by one.
LEMMA EachAgrees ==
    ASSUME Whole, phase = "assembled", NEW k \in DOMAIN Asm!Code
    PROVE  LET s == Infer!Instructions(source)[k]
               c == Asm!Code[k]
           IN  /\ Agrees(s, c) /\ c \in AsmP!Instruction
               /\ c.type \in {"B", "JAL"} =>
                     UNION {Infer!LabelAt(source, l) : l \in s.operands.label}
                        = {Index(a) : a \in DirectTargets(c)}
<1> DEFINE c == Asm!Code[k]
<1>1. PICK n \in AsmP!Instructions : k = AsmP!Count(n) + 1
    BY TextIs
<1> DEFINE s == source[n]
<1>2. Infer!Instructions(source)[k] = s
    BY <1>1, InstructionsAre
<1>3. AsmP!IInv /\ AsmP!TextIsAssembled
    BY DEF Whole
<1>4. /\ k = AsmP!Place(n) \div AsmP!WordSize + 1
      /\ s.operands \in AsmP!OperandsType /\ s.operands.label \subseteq DOMAIN labels
      /\ \E i \in AsmP!CreateInst(s.cmd, s.operands) : AsmP!SameButTarget(i, AsmP!Code[k])
      /\ \A l \in s.operands.label : AsmP!Code[k].target = {AsmP!PlaceOf(l)}
    BY <1>1, <1>3, AsmP!AssembledInstruction, WordsAssumption, MemoryAssumption, IsaAssumption,
       PipelineAssumption, SameConstants, AssemblerSources
<1>5. AsmP!Code[k] = c
    BY SameProgram
<1>6. PICK i \in AsmP!CreateInst(s.cmd, s.operands) : AsmP!SameButTarget(i, c)
    BY <1>4, <1>5
<1>7. Agrees(s, c)
    BY <1>4, <1>6, StatementAgrees
<1>8. c \in AsmP!Instruction
    <2>1. Asm!Code \in Seq(AsmP!Instruction)
        BY <1>3, ProgramFits DEF AsmP!IsAssembled
    <2> QED BY <2>1
<1>9. ASSUME c.type \in {"B", "JAL"}
      PROVE  UNION {Infer!LabelAt(source, l) : l \in s.operands.label}
                = {Index(a) : a \in DirectTargets(c)}
    <2>1. AsmP!NeedsTarget(i)
        BY <1>6, <1>9 DEF AsmP!SameButTarget, AsmP!NeedsTarget
    <2>2. \E l \in Label : s.operands.label = {l}
        BY <1>4, <1>6, <2>1, AsmP!CreateInstType, WordsAssumption, MemoryAssumption,
           IsaAssumption, PipelineAssumption, SameConstants, AssemblerSources
    <2>3. PICK l \in Label : s.operands.label = {l}
        BY <2>2
    <2>4. AsmP!Defined(l)
        <3>1. AsmP!LabelsAreLast /\ done = Len(source)
            BY <1>3 DEF AsmP!TextIsAssembled
        <3>2. \A m : m \in DOMAIN labels <=> AsmP!Defined(m)
            BY <1>3, <3>1, AsmP!EndOfText, WordsAssumption, MemoryAssumption,
               IsaAssumption, PipelineAssumption, SameConstants, AssemblerSources
        <3> QED BY <1>4, <2>3, <3>2
    <2>5. PICK d \in Nat : AsmP!PlaceOf(l) = WordSize * d /\ Infer!LabelAt(source, l) = {d + 1}
        BY <2>4, LabelIs
    <2>6. DirectTargets(c) = {WordSize * d}
        BY <1>4, <1>5, <1>9, <2>3, <2>5 DEF DirectTargets
    <2>7. {Index(a) : a \in DirectTargets(c)} = {d + 1}
        BY <2>6, IndexOf
    <2> HIDE DEF s, c
    <2>8. UNION {Infer!LabelAt(source, m) : m \in s.operands.label} = {d + 1}
        BY <2>3, <2>5
    <2> QED BY <2>7, <2>8
<1> QED BY <1>2, <1>7, <1>8, <1>9

-----------------------------------------------------------------------------
(* The whole text is a reading of the program.                             *)
\* The ways from an instruction, as the browser finds them.
LEMMA SuccessorsAre ==
    ASSUME Whole, phase = "assembled"
    PROVE  LET N    == Len(Asm!Code)
               succ == Infer!Successors(source)
           IN  /\ succ \in [1 .. N -> Seq(1 .. N)]
               /\ \A k \in 1 .. N : Range(succ[k]) = MayFollow(Asm!Code, k)
<1> DEFINE N == Len(Asm!Code)
           D == 1 .. N
           is == Infer!Instructions(source)
           succ == Infer!Successors(source)
           InCode(S) == Infer!InOrder(S \cap D)
           Targets(i) == UNION {Infer!LabelAt(source, l) : l \in i.operands.label}
           code == Asm!Code
           at(k) == {Index(a) : a \in DirectTargets(code[k])}
<1>1. N \in Nat /\ DOMAIN is = D /\ DOMAIN code = D
    BY InstructionsAre
<1>2. \A k \in D : /\ Agrees(is[k], code[k]) /\ code[k] \in AsmP!Instruction
                   /\ code[k].type \in {"B", "JAL"} => Targets(is[k]) = at(k)
    BY <1>1, EachAgrees
<1>3. succ = [k \in D |->
                CASE is[k].cmd \in Infer!branches \cup Infer!zeroBranches ->
                         InCode(Targets(is[k])) \o InCode({k + 1})
                  [] is[k].cmd \in {"j", "jal"} -> InCode(Targets(is[k]))
                  [] is[k].cmd = "ret"          -> Infer!ReturnSites(is)
                  [] OTHER                      -> InCode({k + 1})]
    <2>1. D = DOMAIN is
        BY <1>1
    <2> HIDE DEF D
    <2> QED BY <2>1 DEF Infer!Successors
<1>4. \A S : InCode(S) \in Seq(D) /\ Range(InCode(S)) = S \cap D
    <2> TAKE S
    <2>1. S \cap D \in SUBSET (1 .. N)
        OBVIOUS
    <2> DEFINE T == S \cap D
    <2> HIDE DEF T
    <2>2. Infer!InOrder(T) \in Seq(1 .. N) /\ Range(Infer!InOrder(T)) = T
        <3>1. T \in SUBSET (1 .. N) /\ N \in Nat
            BY <1>1, <2>1 DEF T
        <3> HIDE DEF N
        <3> QED BY <3>1, OrderIs
    <2> QED BY <2>2 DEF T
<1>5. /\ Infer!ReturnSites(is) \in Seq(D)
      /\ Range(Infer!ReturnSites(is)) = AfterCall(code)
    <2>1. AfterCall(code) = {n \in D : n > 1 /\ is[n - 1].cmd = "jal"
                                           /\ Infer!Destination(is[n - 1]) # {"zero"}}
        <3>1. ASSUME NEW n \in D, n > 1
              PROVE  IsCall(code[n - 1]) <=> is[n - 1].cmd = "jal"
                                             /\ Infer!Destination(is[n - 1]) # {"zero"}
            <4>1. n - 1 \in D
                BY <1>1, <3>1
            <4> QED BY <1>2, <4>1 DEF Agrees
        <3> QED BY <1>1, <3>1 DEF AfterCall
    <2>2. Infer!ReturnSites(is) = Infer!InOrder(AfterCall(code))
        BY <1>1, <2>1 DEF Infer!ReturnSites
    <2>3. AfterCall(code) \in SUBSET (1 .. N) /\ N \in Nat
        BY <1>1 DEF AfterCall
    <2> HIDE DEF N, is, code
    <2> QED BY <2>2, <2>3, OrderIs
<1> HIDE DEF N, InCode, Targets, is, code, at, succ
<1>6. ASSUME NEW k \in D
      PROVE  succ[k] \in Seq(D) /\ Range(succ[k]) = MayFollow(code, k)
    <2> DEFINE i == is[k]
               c == code[k]
    <2>1. /\ i.cmd \in Infer!branches \cup Infer!zeroBranches <=> c.type = "B"
          /\ i.cmd \in {"j", "jal"} <=> c.type = "JAL"
          /\ i.cmd = "ret" <=> c.type = "JALR"
          /\ c.type \in {"B", "JAL"} => Targets(i) = at(k)
        BY <1>2 DEF Agrees
    <2>2. succ[k] = CASE i.cmd \in Infer!branches \cup Infer!zeroBranches ->
                             InCode(Targets(i)) \o InCode({k + 1})
                      [] i.cmd \in {"j", "jal"} -> InCode(Targets(i))
                      [] i.cmd = "ret"          -> Infer!ReturnSites(is)
                      [] OTHER                  -> InCode({k + 1})
        BY <1>3
    <2>3. MayFollow(code, k) = (CASE c.type = "B"    -> at(k) \cup {k + 1}
                                  [] c.type = "JAL"  -> at(k)
                                  [] c.type = "JALR" -> AfterCall(code)
                                  [] OTHER           -> {k + 1}) \cap D
        BY <1>1 DEF MayFollow, at
    <2>4. AfterCall(code) \subseteq D
        BY <1>1 DEF AfterCall
    <2> HIDE DEF i, c, D
    <2>5. CASE c.type = "B"
        <3>1. succ[k] = InCode(Targets(i)) \o InCode({k + 1})
            BY <2>1, <2>2, <2>5
        <3>2. succ[k] \in Seq(D) /\ Range(succ[k]) = Range(InCode(Targets(i))) \cup Range(InCode({k + 1}))
            BY <1>4, <3>1, JoinIs
        <3> QED BY <1>4, <2>1, <2>3, <2>5, <3>2
    <2>6. CASE c.type = "JAL"
        <3>1. succ[k] = InCode(Targets(i))
            BY <2>1, <2>2, <2>6
        <3> QED BY <1>4, <2>1, <2>3, <2>6, <3>1
    <2>7. CASE c.type = "JALR"
        <3>1. succ[k] = Infer!ReturnSites(is)
            BY <2>1, <2>2, <2>7
        <3> QED BY <1>5, <2>3, <2>4, <2>7, <3>1
    <2>8. CASE c.type \notin {"B", "JAL", "JALR"}
        <3>1. succ[k] = InCode({k + 1})
            BY <2>1, <2>2, <2>8
        <3> QED BY <1>4, <2>3, <2>8, <3>1
    <2> QED BY <2>5, <2>6, <2>7, <2>8
<1>7. DOMAIN succ = D /\ succ = [k \in D |-> succ[k]]
    <2> DEFINE e(k) == CASE is[k].cmd \in Infer!branches \cup Infer!zeroBranches ->
                         InCode(Targets(is[k])) \o InCode({k + 1})
                  [] is[k].cmd \in {"j", "jal"} -> InCode(Targets(is[k]))
                  [] is[k].cmd = "ret"          -> Infer!ReturnSites(is)
                  [] OTHER                      -> InCode({k + 1})
    <2>1. succ = [k \in D |-> e(k)]
        BY <1>3
    <2> HIDE DEF e
    <2> QED BY <2>1
<1>8. succ \in [D -> Seq(D)]
    BY <1>6, <1>7
<1> QED BY <1>6, <1>8 DEF N, succ, code

\* The registers of an instruction are registers, and finitely many.
LEMMA RegistersOf ==
    ASSUME NEW c \in AsmP!Instruction
    PROVE  /\ ReadBy(c) \subseteq Reg /\ Run!WrittenBy(c) \subseteq Reg
           /\ IsFiniteSet(ReadBy(c)) /\ IsFiniteSet(Run!WrittenBy(c))
<1>5. \A r : IsFiniteSet({r})
    BY FS_Singleton
<1>6. \A r, s : IsFiniteSet({r} \cup {s})
    BY <1>5, FS_Union
<1>7. IsFiniteSet({})
    BY FS_EmptySet
<1>1. ReadBy(c) \subseteq Reg
    BY DEF AsmP!Instruction, AsmP!RInst, AsmP!IInst, AsmP!LInst, AsmP!SInst, AsmP!BInst,
           AsmP!JalInst, AsmP!JalrInst, AsmP!MemoryRef, ReadBy
<1>2. Run!WrittenBy(c) \subseteq Reg
    BY DEF AsmP!Instruction, AsmP!RInst, AsmP!IInst, AsmP!LInst, AsmP!SInst, AsmP!BInst,
           AsmP!JalInst, AsmP!JalrInst, AsmP!MemoryRef, Run!WrittenBy
<1>3. \/ ReadBy(c) = {}
      \/ \E r : ReadBy(c) = {r}
      \/ \E r, s : ReadBy(c) = {r} \cup {s}
    <2>1. CASE c.type \in {"R", "B"}
        <3>1. ReadBy(c) = {c.rs1} \cup {c.rs2}
            BY <2>1 DEF ReadBy
        <3> QED BY <3>1
    <2>2. CASE c.type = "I"
        BY <2>2 DEF ReadBy
    <2>3. CASE c.type = "L"
        BY <2>3 DEF ReadBy
    <2>4. CASE c.type = "S"
        <3>1. ReadBy(c) = {c.rs} \cup {c.address.register}
            BY <2>4 DEF ReadBy
        <3> QED BY <3>1
    <2>5. CASE c.type \notin {"R", "B", "I", "L", "S"}
        BY <2>5 DEF ReadBy
    <2> QED BY <2>1, <2>2, <2>3, <2>4, <2>5
<1>4. Run!WrittenBy(c) = {} \/ \E r : Run!WrittenBy(c) = {r}
    BY DEF Run!WrittenBy
<1>8. IsFiniteSet(ReadBy(c))
    <2>1. CASE ReadBy(c) = {}
        BY <1>7, <2>1
    <2>2. ASSUME NEW r, ReadBy(c) = {r} PROVE IsFiniteSet(ReadBy(c))
        BY <1>5, <2>2
    <2>3. ASSUME NEW r, NEW s, ReadBy(c) = {r} \cup {s} PROVE IsFiniteSet(ReadBy(c))
        BY <1>6, <2>3, Zenon
    <2> QED BY <1>3, <2>1, <2>2, <2>3
<1>9. IsFiniteSet(Run!WrittenBy(c))
    <2>1. CASE Run!WrittenBy(c) = {}
        BY <1>7, <2>1
    <2>2. ASSUME NEW r, Run!WrittenBy(c) = {r} PROVE IsFiniteSet(Run!WrittenBy(c))
        BY <1>5, <2>2
    <2> QED BY <1>4, <2>1, <2>2
<1> QED BY <1>1, <1>2, <1>8, <1>9

\* The text read by the browser, as a reading of the program.
Universe(is) == Infer!Runtime \cup UNION {Infer!Reads(i) \cup Infer!Writes(i) : i \in Range(is)}

LEMMA TextIsReading ==
    ASSUME Whole, phase = "assembled", Index(Asm!EntryPc) \in DOMAIN Asm!Code
    PROVE  LET is == Infer!Instructions(source)
           IN  IsReading(is, Infer!Successors(source), Index(Asm!EntryPc), Universe(is), Asm!Code)
<1> DEFINE N == Len(Asm!Code)
           is == Infer!Instructions(source)
           succ == Infer!Successors(source)
           U == Universe(is)
           code == Asm!Code
           both(k) == Infer!Reads(is[k]) \cup Infer!Writes(is[k])
<1>1. N \in Nat /\ DOMAIN is = 1 .. N /\ Len(is) = N /\ DOMAIN code = 1 .. N
    BY InstructionsAre
<1>2. succ \in [1 .. N -> Seq(1 .. N)] /\ \A k \in 1 .. N : Range(succ[k]) = MayFollow(code, k)
    BY SuccessorsAre
<1>3. \A k \in 1 .. N : Agrees(is[k], code[k]) /\ code[k] \in AsmP!Instruction
    BY <1>1, EachAgrees
<1> HIDE DEF N, is, succ, code
<1>4. U = Infer!Runtime \cup UNION {both(k) : k \in 1 .. N}
    BY <1>1 DEF Universe, Range
<1>5. \A k \in 1 .. N : IsFiniteSet(both(k))
    <2> TAKE k \in 1 .. N
    <2>1. both(k) = (ReadBy(code[k]) \ {"zero"}) \cup Run!WrittenBy(code[k])
        BY <1>3 DEF Agrees
    <2>2. IsFiniteSet(ReadBy(code[k])) /\ IsFiniteSet(Run!WrittenBy(code[k]))
        BY <1>3, RegistersOf
    <2>3. IsFiniteSet(ReadBy(code[k]) \ {"zero"})
        BY <2>2, FS_Difference
    <2> QED BY <2>1, <2>2, <2>3, FS_Union
<1>6. IsFiniteSet(U)
    <2> DEFINE f == [k \in 1 .. N |-> both(k)]
    <2>1. \A k \in 1 .. N : IsFiniteSet(f[k])
        BY <1>5
    <2>2. {f[k] : k \in 1 .. N} = {both(k) : k \in 1 .. N}
        OBVIOUS
    <2> HIDE DEF f, both, U
    <2>3. IsFiniteSet(UNION {f[k] : k \in 1 .. N})
        BY <1>1, <2>1, FiniteJoin
    <2>4. IsFiniteSet(Infer!Runtime)
        <3>1. Infer!Runtime = {"zero"} \cup {"ra"} \cup {"sp"}
            BY DEF Infer!Runtime
        <3>2. IsFiniteSet({"zero"} \cup {"ra"})
            BY FS_Singleton, FS_Union
        <3> QED BY <3>1, <3>2, FS_Singleton, FS_Union
    <2> QED BY <1>4, <2>2, <2>3, <2>4, FS_Union
<1>7. Infer!Runtime \subseteq U /\ \A k \in 1 .. N : Infer!Writes(is[k]) \subseteq U
    BY <1>4
<1>8. \A k \in 1 .. N : Infer!Writes(is[k]) = Run!WrittenBy(code[k])
    BY <1>3 DEF Agrees
<1>9. Index(Asm!EntryPc) \in 1 .. N /\ Len(code) = N
    BY <1>1 DEF code, N
<1> HIDE DEF U
<1>10. IsReading(is, succ, Index(Asm!EntryPc), U, code)
    BY <1>1, <1>2, <1>6, <1>7, <1>8, <1>9 DEF IsReading
<1> QED BY <1>10 DEF is, succ, U, code

-----------------------------------------------------------------------------
(* What the browser asks for, and the runs of the program.                 *)
\* What the browser asks for, by the ways that do not write it.
LEMMA AskedIs ==
    ASSUME Whole, phase = "assembled", Index(Asm!EntryPc) \in DOMAIN Asm!Code
    PROVE  Infer!InferredInputs(source) =
              {{r \in Reg \ Infer!Runtime :
                  \E k \in UnwrittenAt(Asm!Code, Index(Asm!EntryPc), r) : r \in ReadBy(Asm!Code[k])}}
<1> DEFINE code == Asm!Code
           entry == Infer!EntryOf(source)
           is == Infer!Instructions(source)
           succ == Infer!Successors(source)
           U == Universe(is)
           R == Range(Infer!Reached(succ, entry))
           W(r) == UnwrittenAt(code, entry, r)
           A(n) == Assigned(is, succ, entry, U, n)
           asked == UNION {Infer!Reads(is[n]) \ A(n) : n \in R}
           exact == {r \in Reg \ Infer!Runtime : \E k \in W(r) : r \in ReadBy(code[k])}
<1>0. entry = Index(Asm!EntryPc)
    BY EntryIs
<1>1. IsReading(is, succ, entry, U, code)
    BY <1>0, TextIsReading
<1>2. DOMAIN is = DOMAIN code /\ entry \in DOMAIN is /\ is # <<>>
    <2>1. DOMAIN is = DOMAIN code
        BY InstructionsAre
    <2>2. entry \in DOMAIN is
        BY <1>0, <2>1
    <2>3. DOMAIN <<>> = {}
        OBVIOUS
    <2> QED BY <2>1, <2>2, <2>3
<1>3. Infer!InferredInputs(source) = {asked}
    <2> DEFINE reach == Infer!Reached(succ, entry)
               universe == Infer!Runtime
                           \cup UNION {Infer!Reads(i) \cup Infer!Writes(i) : i \in Infer!Range(is)}
               flow == Infer!Settle(is, succ, reach, entry, universe)
               before == [n \in Infer!Range(reach) |-> Infer!Incoming(succ, reach, entry, flow, n)]
    <2>1. Infer!InferredInputs(source) =
             {UNION {Infer!Reads(is[n]) \ before[n] : n \in Infer!Range(reach)}}
        <3> DEFINE X == {UNION {Infer!Reads(is[n]) \ before[n] : n \in Infer!Range(reach)}}
        <3>1. Infer!InferredInputs(source) =
                 IF is = <<>> THEN {{}} ELSE IF entry \notin DOMAIN is THEN {} ELSE X
            BY Zenon DEF Infer!InferredInputs
        <3> HIDE DEF X, is, entry
        <3> QED BY <1>2, <3>1 DEF X
    <2>2. universe = U /\ Infer!Range(reach) = R
        BY DEF Universe, Range, Infer!Range
    <2>3. \A n \in R : before[n] = A(n)
        BY <2>2, Zenon DEF Assigned
    <2> HIDE DEF before, A, reach, R
    <2> QED BY <2>1, <2>2, <2>3
<1>4. \A k \in DOMAIN code : Infer!Reads(is[k]) = ReadBy(code[k]) \ {"zero"}
                             /\ ReadBy(code[k]) \subseteq Reg
    BY EachAgrees, RegistersOf DEF Agrees
<1>5. \A k \in DOMAIN code : Infer!Reads(is[k]) \subseteq U
    BY <1>2 DEF Universe, Range
<1>6. {"zero", "ra", "sp"} = Infer!Runtime /\ "ra" \in U
    BY DEF Infer!Runtime, Universe
<1> HIDE DEF code, entry, is, succ, U
<1>7. R \subseteq DOMAIN is /\ \A n \in R : Infer!Runtime \subseteq A(n)
    BY <1>1, <1>6, AssignedIs
<1>8. \A r \in U : r \notin Infer!Runtime =>
          /\ W(r) \subseteq R
          /\ \A n \in R : r \notin A(n) <=> n \in W(r)
    BY <1>1, AssignedIs
<1> HIDE DEF R, W, A
<1>9. ASSUME NEW r PROVE r \in asked <=> r \in exact
    <2>1. ASSUME r \in asked PROVE r \in exact
        <3>1. PICK n \in R : r \in Infer!Reads(is[n]) \ A(n)
            BY <2>1
        <3>2. n \in DOMAIN code /\ r \in U /\ r \notin Infer!Runtime
            BY <1>2, <1>5, <1>7, <3>1
        <3>3. n \in W(r) /\ r \in ReadBy(code[n]) /\ r \in Reg
            BY <1>4, <1>8, <3>1, <3>2
        <3> QED BY <3>2, <3>3
    <2>2. ASSUME r \in exact PROVE r \in asked
        <3>1. r \in Reg \ Infer!Runtime
            BY <2>2
        <3>2. PICK k \in W(r) : r \in ReadBy(code[k])
            BY <2>2
        <3>3. k \in DOMAIN code
            <4>1. W(r) \in SUBSET DOMAIN code
                <5>1. Len(code) \in Nat /\ DOMAIN code = 1 .. Len(code) /\ entry \in DOMAIN code
                    BY <1>1 DEF IsReading
                <5> QED BY <5>1, UnwrittenIs DEF W
            <4> QED BY <3>2, <4>1
        <3>4. r \in Infer!Reads(is[k]) /\ r \in U
            BY <1>4, <1>5, <1>6, <3>1, <3>2, <3>3
        <3>5. k \in R /\ r \notin A(k)
            BY <1>8, <3>1, <3>2, <3>4
        <3> QED BY <3>4, <3>5
    <2> QED BY <2>1, <2>2
<1>10. asked = exact
    BY <1>9
<1>11. exact = {r \in Reg \ Infer!Runtime :
                   \E k \in UnwrittenAt(Asm!Code, Index(Asm!EntryPc), r) : r \in ReadBy(Asm!Code[k])}
    <2>1. \A r : W(r) = UnwrittenAt(Asm!Code, Index(Asm!EntryPc), r)
        BY <1>0 DEF W, code
    <2> QED BY <2>1 DEF code
<1> HIDE DEF exact, asked
<1> QED BY <1>3, <1>10, <1>11

(* What the browser asks values for, reading the text alone, is exact for  *)
(* the program that the assembler makes of it: the registers that some way *)
(* from the entry comes to read with no write before it, and no others     *)
(* (inferredInputRegisters; assemble, resolve, entry_pc).                  *)
THEOREM InferenceCorrect == Spec => []InferenceIsExact
<1>1. Whole => InferenceIsExact
    <2> SUFFICES ASSUME Whole, stage = "analyze", Index(Asm!EntryPc) \in DOMAIN Asm!Code
                 PROVE  Infer!InferredInputs(source) =
                           {{r \in Reg \ Infer!Runtime :
                               \E k \in UnwrittenAt(Asm!Code, Index(Asm!EntryPc), r) :
                                  r \in ReadBy(Asm!Code[k])}}
        BY DEF InferenceIsExact
    <2>1. phase = "assembled"
        BY DEF Whole, PInv, StagesFollow, Assembled
    <2> QED BY <2>1, AskedIs
<1> QED BY <1>1, WholeHolds, PTL

\* A step of a run is at an instruction of the program, by number.
LEMMA StepIsAt ==
    ASSUME Whole, NEW k \in 2 .. Len(States)
    PROVE  /\ phase = "assembled"
           /\ Index(States[k].pc) \in DOMAIN Asm!Code
           /\ Asm!Code[Index(States[k].pc)] = States[k].instr
           /\ Index(States[k].pc + WordSize) = Index(States[k].pc) + 1
<1> DEFINE s == States[k]
           d == s.pc \div 4
<1>1. phase = "assembled" /\ ExeP!RunsIn(Asm!Code, s)
    BY StepsOfProgram
<1>2. /\ s.pc \in Nat /\ d < Len(Asm!Code) /\ s.instr = Asm!Code[d + 1]
    BY <1>1, SameConstants DEF ExeP!RunsIn, WordSize
<1>3. Len(Asm!Code) \in Nat /\ DOMAIN Asm!Code = 1 .. Len(Asm!Code)
    BY <1>1, InstructionsAre
<1> HIDE DEF s
<1>4. d \in Nat /\ (s.pc + 4) \div 4 = d + 1
    BY <1>2
<1>5. d + 1 \in DOMAIN Asm!Code
    <2> DEFINE N == Len(Asm!Code)
    <2>1. N \in Nat /\ d \in Nat /\ d < N
        BY <1>2, <1>3, <1>4
    <2> HIDE DEF N, d
    <2>2. d + 1 \in 1 .. N
        BY <2>1
    <2> QED BY <1>3, <2>2 DEF N
<1>6. Index(s.pc) = d + 1 /\ Index(s.pc + WordSize) = d + 1 + 1
    BY <1>4 DEF Index, WordSize
<1> QED BY <1>1, <1>2, <1>5, <1>6 DEF s

\* And goes on to one that may follow, if a return goes to behind a call.
LEMMA StepGoesOn ==
    ASSUME Whole, NEW k \in 2 .. Len(States), k + 1 \in 2 .. Len(States),
           States[k].instr.type = "JALR" => Index(States[k].next_pc) \in AfterCall(Asm!Code)
    PROVE  Index(States[k + 1].pc) \in MayFollow(Asm!Code, Index(States[k].pc))
<1> DEFINE s == States[k]
           t == States[k + 1]
           n == Index(s.pc)
<1>1. /\ Asm!Code[n] = s.instr /\ Index(s.pc + WordSize) = n + 1
    BY StepIsAt
<1>2. Index(t.pc) \in DOMAIN Asm!Code
    BY StepIsAt
<1>3. ExeP!GoesOnTo(s, t)
    <2>1. k + 1 \in 3 .. Len(States) /\ (k + 1) - 1 = k
        BY DEF States
    <2>2. ExeP!GoesOnTo(States[(k + 1) - 1], States[k + 1])
        BY <2>1, StepsOfProgram
    <2> QED BY <2>1, <2>2
<1>4. s.instr.type = "JALR" => Index(s.next_pc) \in AfterCall(Asm!Code)
    OBVIOUS
<1> SUFFICES Index(t.pc) \in MayFollow(Asm!Code, n)
    OBVIOUS
<1> HIDE DEF s, t, n
<1>5. CASE s.instr.type = "B" /\ t.pc \in s.instr.target
    BY <1>1, <1>2, <1>5 DEF MayFollow, DirectTargets
<1>6. CASE s.instr.type = "B" /\ t.pc = s.pc + WordSize
    BY <1>1, <1>2, <1>6 DEF MayFollow
<1>7. CASE s.instr.type = "JAL" /\ t.pc \in s.instr.target
    BY <1>1, <1>2, <1>7 DEF MayFollow, DirectTargets
<1>8. CASE s.instr.type = "JALR" /\ t.pc = s.next_pc
    BY <1>1, <1>2, <1>4, <1>8 DEF MayFollow
<1>9. CASE s.instr.type \in {"R", "I", "L", "S"} /\ t.pc = s.pc + WordSize
    BY <1>1, <1>2, <1>9 DEF MayFollow
<1>10. ExeP!WordSize = WordSize
    BY SameConstants
<1> QED BY <1>3, <1>5, <1>6, <1>7, <1>8, <1>9, <1>10 DEF ExeP!GoesOnTo

(* A run never reads a register that the browser did not ask a value for,  *)
(* that does not start with one and that no earlier step wrote, as long as *)
(* its returns have all gone to the instruction after some call            *)
(* (inferredInputRegisters; the steps of execute).                         *)
THEOREM InferredInputsCorrect == Spec => []InferredInputsSuffice
<1>1. Whole => InferredInputsSuffice
    <2> SUFFICES ASSUME Whole, phase = "assembled", NEW asked \in Infer!InferredInputs(source),
                        NEW k \in 2 .. Len(States),
                        \A j \in 2 .. k - 1 : States[j].instr.type = "JALR" =>
                            Index(States[j].next_pc) \in AfterCall(Asm!Code),
                        NEW r \in ReadBy(States[k].instr), r \notin Infer!Runtime,
                        \A j \in 2 .. k - 1 : r \notin Run!WrittenBy(States[j].instr)
                 PROVE  r \in asked
        BY DEF InferredInputsSuffice
    <2> DEFINE code == Asm!Code
               entry == Index(Asm!EntryPc)
               W == UnwrittenAt(code, entry, r)
               n(j) == Index(States[j].pc)
    <2>1. Len(States) \in Nat
        BY DEF Whole, ExeP!TypeOK, ExeP!TraceType, States
    <2>2. k \in Nat /\ k >= 2 /\ k <= Len(States)
        BY <2>1
    <2>3. States[2].pc = Asm!EntryPc /\ 2 \in 2 .. Len(States)
        BY <2>1, <2>2, StepsOfProgram
    <2>4. entry \in DOMAIN code /\ entry = n(2)
        BY <2>3, StepIsAt
    <2>5. entry \in W /\ IsClosed(code, r, W)
        <3>1. Len(code) \in Nat /\ DOMAIN code = 1 .. Len(code)
            BY InstructionsAre
        <3> QED BY <2>4, <3>1, UnwrittenIs
    <2>6. ASSUME NEW j \in 2 .. k - 1, n(j) \in W PROVE n(j + 1) \in W
        <3>1. j \in 2 .. Len(States) /\ j + 1 \in 2 .. Len(States)
            BY <2>1, <2>2
        <3>2. n(j + 1) \in MayFollow(code, n(j))
            BY <3>1, StepGoesOn
        <3>3. r \notin Run!WrittenBy(code[n(j)])
            BY <3>1, StepIsAt
        <3> QED BY <2>5, <2>6, <3>2, <3>3 DEF IsClosed
    <2> DEFINE P == {j \in Nat : j + 2 <= k => n(j + 2) \in W}
    <2>7. 0 \in P
        BY <2>4, <2>5
    <2>8. ASSUME NEW j \in Nat, j \in P PROVE j + 1 \in P
        <3> SUFFICES ASSUME (j + 1) + 2 <= k PROVE n((j + 1) + 2) \in W
            OBVIOUS
        <3>1. j + 2 \in 2 .. k - 1 /\ (j + 2) + 1 = (j + 1) + 2
            BY <2>2
        <3>2. n(j + 2) \in W
            BY <2>2, <2>8
        <3> HIDE DEF n, W
        <3>3. n((j + 2) + 1) \in W
            BY <2>6, <3>1, <3>2
        <3> QED BY <3>1, <3>3
    <2> HIDE DEF P
    <2>9. k - 2 \in P
        <3>1. Nat \subseteq P
            BY <2>7, <2>8, EveryNumber
        <3>2. k - 2 \in Nat
            BY <2>2
        <3> QED BY <3>1, <3>2
    <2>10. n(k) \in W
        <3>1. (k - 2) + 2 = k
            BY <2>2
        <3> HIDE DEF n, W
        <3> QED BY <2>2, <2>9, <3>1 DEF P
    <2>11. n(k) \in DOMAIN code /\ r \in ReadBy(code[n(k)])
        BY StepIsAt
    <2>12. r \in Reg
        <3>1. code[n(k)] \in AsmP!Instruction
            BY <2>11, EachAgrees
        <3> QED BY <2>11, <3>1, RegistersOf
    <2>13. asked = {q \in Reg \ Infer!Runtime :
                       \E m \in UnwrittenAt(code, entry, q) : q \in ReadBy(code[m])}
        BY <2>4, AskedIs
    <2> HIDE DEF code, entry, n
    <2> QED BY <2>10, <2>11, <2>12, <2>13
<1> QED BY <1>1, WholeHolds, PTL
=============================================================================
