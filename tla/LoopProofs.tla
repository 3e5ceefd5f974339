----------------------------- MODULE LoopProofs -----------------------------
(***************************************************************************)
(* Facts about Filter, Total and Joined, for all sequences.  Each is       *)
(* an induction over the length, made from the least number principle: the *)
(* statement is the membership of a number, or of a sequence, in a set.    *)
(***************************************************************************)
EXTENDS Loops, NaturalsInduction, WellFoundedInduction, TLAPS

-----------------------------------------------------------------------------
(* Induction and recursion *)

\* A set of naturals with 0 and with the successor of each of its members holds
\* every natural.
LEMMA EveryNumber ==
  ASSUME NEW S, 0 \in S, \A n \in Nat : n \in S => n + 1 \in S
  PROVE  \A n \in Nat : n \in S
  <1> DEFINE Out == Nat \ S
  <1> SUFFICES ASSUME Out # {} PROVE FALSE
    BY Zenon
  <1> HIDE DEF Out
  <1>1. Out \subseteq Nat
    BY Zenon DEF Out
  <1>2. IsWellFoundedOn({p \in Nat \X Nat : p[1] < p[2]}, Nat)
    BY Zenon, NatLessThanWellFounded DEF OpToRel
  <1>3. PICK e \in Out : \A d \in Out : <<d, e>> \notin {p \in Nat \X Nat : p[1] < p[2]}
    BY Zenon, <1>1, <1>2, WFMin
  <1>4. \A d \in Out : ~(d < e)
    BY Zenon, <1>1, <1>3
  <1>5. e \in Nat /\ e \notin S
    BY Zenon, <1>3 DEF Out
  <1>6. e # 0
    BY Zenon, <1>5
  <1>7. e - 1 \in Nat /\ e - 1 < e /\ (e - 1) + 1 = e
    BY <1>5, <1>6
  <1>8. e - 1 \in S
    BY Zenon, <1>4, <1>7 DEF Out
  <1> QED
    BY Zenon, <1>5, <1>7, <1>8

\* The traces of a loop of n rounds from base, round k taking x to step[k][x].
Traces(n, T, base, step) ==
    {f \in [0 .. n -> T] : f[0] = base /\ \A k \in 1 .. n : f[k] = step[k][f[k - 1]]}

\* A loop has a trace.
LEMMA LoopRuns ==
  ASSUME NEW n \in Nat, NEW T, NEW base \in T, NEW step \in [1 .. n -> [T -> T]]
  PROVE  Traces(n, T, base, step) # {}
  <1> DEFINE Traced(m) == \E f \in [0 .. m -> T] :
               f[0] = base /\ \A k \in 1 .. m : f[k] = step[k][f[k - 1]]
             S == {m \in Nat : m <= n => Traced(m)}
  <1>1. 0 \in S
    <2>1. [k \in 0 .. 0 |-> base] \in [0 .. 0 -> T]
      BY Zenon
    <2>2. PICK f : f = [k \in 0 .. 0 |-> base]
      BY Zenon
    <2>3. f[0] = base /\ \A k \in 1 .. 0 : FALSE
      BY <2>2
    <2>4. Traced(0)
      BY Zenon, <2>1, <2>2, <2>3
    <2> QED
      BY Zenon, <2>4
  <1>2. ASSUME NEW m \in Nat, m \in S PROVE m + 1 \in S
    <2> SUFFICES ASSUME m + 1 <= n PROVE Traced(m + 1)
      OBVIOUS
    <2>1. m <= n /\ m + 1 \in 1 .. n
      OBVIOUS
    <2>2. Traced(m)
      BY Zenon, <1>2, <2>1
    <2>3. PICK f \in [0 .. m -> T] : f[0] = base /\ \A k \in 1 .. m : f[k] = step[k][f[k - 1]]
      BY Zenon, <2>2
    <2>4. f[m] \in T
      BY <2>3
    <2>5. PICK x \in T : x = step[m + 1][f[m]]
      BY Zenon, <2>1, <2>4
    <2>6. PICK g : g = [k \in 0 .. m + 1 |-> IF k = m + 1 THEN x ELSE f[k]]
      BY Zenon
    <2>7. \A k \in 0 .. m + 1 : k # m + 1 => k \in 0 .. m
      OBVIOUS
    <2>8. g \in [0 .. m + 1 -> T]
      BY Zenon, <2>3, <2>5, <2>6, <2>7
    <2>9. g[0] = base
      BY <2>3, <2>6
    <2>10. ASSUME NEW k \in 1 .. m + 1 PROVE g[k] = step[k][g[k - 1]]
      <3>1. CASE k = m + 1
        <4>1. g[k] = x /\ k - 1 = m /\ g[m] = f[m]
          BY <2>6, <3>1
        <4> QED
          BY Zenon, <2>5, <4>1, <3>1
      <3>2. CASE k # m + 1
        <4>1. k \in 1 .. m /\ g[k] = f[k] /\ g[k - 1] = f[k - 1]
          BY <2>6, <3>2
        <4> QED
          BY Zenon, <2>3, <4>1
      <3> QED
        BY Zenon, <3>1, <3>2
    <2> QED
      BY Zenon, <2>8, <2>9, <2>10
  <1>3. \A m \in Nat : m \in S
    <2> HIDE DEF S
    <2> QED
      BY Zenon, <1>1, <1>2, EveryNumber
  <1>4. n <= n
    OBVIOUS
  <1>5. Traced(n)
    BY Zenon, <1>3, <1>4
  <1> QED
    BY Zenon, <1>5 DEF Traces

\* The first m rounds of two traces start and go on alike, and are alike.
GoOnAlike(m, f, g) ==
    f[0] = g[0] /\ \A k \in 1 .. m : f[k - 1] = g[k - 1] => f[k] = g[k]

Alike(m, f, g) == \A k \in 0 .. m : f[k] = g[k]

\* A loop is determined by its start and its rounds.
LEMMA LoopIsDetermined ==
  ASSUME NEW m \in Nat, NEW f, NEW g, GoOnAlike(m, f, g)
  PROVE  Alike(m, f, g)
  <1> DEFINE S == {k \in Nat : k <= m => f[k] = g[k]}
  <1>1. 0 \in S
    BY Zenon DEF GoOnAlike
  <1>2. ASSUME NEW k \in Nat, k \in S PROVE k + 1 \in S
    <2> SUFFICES ASSUME k + 1 <= m PROVE f[k + 1] = g[k + 1]
      OBVIOUS
    <2>1. k + 1 \in 1 .. m /\ (k + 1) - 1 = k /\ k <= m
      OBVIOUS
    <2>2. f[k] = g[k]
      BY Zenon, <1>2, <2>1
    <2> QED
      BY Zenon, <2>1, <2>2 DEF GoOnAlike
  <1>3. \A k \in Nat : k \in S
    <2> HIDE DEF S
    <2> QED
      BY Zenon, <1>1, <1>2, EveryNumber
  <1>4. \A k \in 0 .. m : k \in Nat /\ k <= m
    OBVIOUS
  <1> QED
    BY Zenon, <1>3, <1>4 DEF Alike

\* A set with the empty sequence, and with every extension of its members by an
\* element of A, holds every sequence over A.
LEMMA EverySequence ==
  ASSUME NEW A, NEW P, <<>> \in P,
         \A s \in Seq(A) : \A x \in A : s \in P => Append(s, x) \in P
  PROVE  \A s \in Seq(A) : s \in P
  <1> DEFINE S == {n \in Nat : \A s \in Seq(A) : Len(s) = n => s \in P}
  <1>1. 0 \in S
    <2>1. \A s \in Seq(A) : Len(s) = 0 => s = <<>>
      OBVIOUS
    <2> QED
      BY Zenon, <2>1
  <1>2. ASSUME NEW n \in Nat, n \in S PROVE n + 1 \in S
    <2> SUFFICES ASSUME NEW s \in Seq(A), Len(s) = n + 1 PROVE s \in P
      OBVIOUS
    <2>0. [i \in 1 .. n |-> s[i]] \in Seq(A)
      OBVIOUS
    <2>1. PICK t \in Seq(A) : t = [i \in 1 .. n |-> s[i]]
      BY Zenon, <2>0
    <2>2. Len(t) = n
      BY <2>1
    <2>3. s[n + 1] \in A
      OBVIOUS
    <2>4. s = Append(t, s[n + 1])
      BY <2>1, <2>2
    <2>5. t \in P
      BY Zenon, <1>2, <2>2
    <2>6. Append(t, s[n + 1]) \in P
      BY Zenon, <2>3, <2>5
    <2> QED
      BY Zenon, <2>4, <2>6
  <1>3. \A n \in Nat : n \in S
    <2> HIDE DEF S
    <2> QED
      BY Zenon, <1>1, <1>2, EveryNumber
  <1>4. \A s \in Seq(A) : Len(s) \in Nat
    OBVIOUS
  <1> QED
    BY Zenon, <1>3, <1>4

-----------------------------------------------------------------------------
(* Filter *)

\* The trace of the loop behind Filter.
Sieve(s, V, f) ==
    /\ f[0] = <<>>
    /\ \A k \in 1 .. Len(s) :
         f[k] = IF s[k] \in V THEN Append(f[k - 1], s[k]) ELSE f[k - 1]

\* Filter is the last value of a trace.
LEMMA FilterTrace ==
  ASSUME NEW A, NEW s \in Seq(A), NEW V
  PROVE  \E f \in [0 .. Len(s) -> Seq(A)] : Sieve(s, V, f) /\ Filter(s, V) = f[Len(s)]
  <1> DEFINE n == Len(s)
             Body(f) == [k \in 0 .. Len(s) |-> IF k = 0 THEN <<>>
                           ELSE IF s[k] \in V THEN Append(f[k - 1], s[k]) ELSE f[k - 1]]
             step == [k \in 1 .. n |-> [t \in Seq(A) |->
                        IF s[k] \in V THEN Append(t, s[k]) ELSE t]]
  <1>1. n \in Nat /\ <<>> \in Seq(A)
    OBVIOUS
  <1>2. step \in [1 .. n -> [Seq(A) -> Seq(A)]]
    OBVIOUS
  <1>3. PICK f \in [0 .. n -> Seq(A)] :
          f[0] = <<>> /\ \A k \in 1 .. n : f[k] = step[k][f[k - 1]]
    <2> HIDE DEF n, step
    <2>1. Traces(n, Seq(A), <<>>, step) # {}
      BY Zenon, <1>1, <1>2, LoopRuns
    <2> QED
      BY Zenon, <2>1 DEF Traces
  <1>4. \A k \in 1 .. n : f[k] = IF s[k] \in V THEN Append(f[k - 1], s[k]) ELSE f[k - 1]
    <2> SUFFICES ASSUME NEW k \in 1 .. n
                 PROVE  f[k] = IF s[k] \in V THEN Append(f[k - 1], s[k]) ELSE f[k - 1]
      BY Zenon
    <2>1. f[k - 1] \in Seq(A)
      BY <1>1
    <2> QED
      BY Zenon, <1>3, <2>1
  <1>5. f = Body(f)
    <2>1. \A k \in 0 .. n : k = 0 \/ k \in 1 .. n
      OBVIOUS
    <2>2. \A k \in 0 .. n : f[k] = Body(f)[k]
      BY Zenon, <1>3, <1>4, <2>1
    <2> QED
      BY Zenon, <2>2
  <1>6. PICK g : g = Body(g) /\ Filter(s, V) = g[n]
    BY Zenon, <1>5 DEF Filter
  <1>7. Sieve(s, V, g)
    <2>1. 0 \in 0 .. n /\ \A k \in 1 .. n : k # 0 /\ k \in 0 .. n
      OBVIOUS
    <2> QED
      BY Zenon, <1>6, <2>1 DEF Sieve
  <1>8. \A k \in 0 .. n : g[k] = f[k]
    <2>1. GoOnAlike(n, g, f)
      BY Zenon, <1>3, <1>4, <1>7 DEF Sieve, GoOnAlike
    <2>2. Alike(n, g, f)
      BY Zenon, <1>1, <2>1, LoopIsDetermined
    <2> QED
      BY Zenon, <2>2 DEF Alike
  <1>9. Filter(s, V) = f[n] /\ Sieve(s, V, f)
    BY <1>1, <1>3, <1>4, <1>6, <1>8 DEF Sieve
  <1> QED
    BY Zenon, <1>9

\* A longer sequence: its last element, and its first ones.
Extends(t, n, s, x) ==
    /\ Len(t) = n + 1
    /\ n + 1 \in 1 .. n + 1
    /\ (n + 1) - 1 = n
    /\ n \in 0 .. n
    /\ t[n + 1] = x
    /\ \A k \in 1 .. n : k \in 1 .. n + 1 /\ t[k] = s[k]

\* Append extends a sequence.
LEMMA AppendExtends ==
  ASSUME NEW A, NEW s \in Seq(A), NEW x \in A
  PROVE  /\ Len(s) \in Nat
         /\ Append(s, x) \in Seq(A)
         /\ Extends(Append(s, x), Len(s), s, x)
  BY DEF Extends

\* Nothing is filtered from nothing, and a filter keeps the type.
LEMMA FilterBasics ==
  ASSUME NEW A, NEW V
  PROVE  /\ Filter(<<>>, V) = <<>>
         /\ \A s \in Seq(A) : Filter(s, V) \in Seq(A)
  <1>1. Filter(<<>>, V) = <<>>
    <2>1. <<>> \in Seq(A) /\ Len(<<>>) = 0
      OBVIOUS
    <2>2. PICK f : Sieve(<<>>, V, f) /\ Filter(<<>>, V) = f[Len(<<>>)]
      BY Zenon, <2>1, FilterTrace
    <2> QED
      BY Zenon, <2>1, <2>2 DEF Sieve
  <1>2. ASSUME NEW s \in Seq(A) PROVE Filter(s, V) \in Seq(A)
    <2>1. PICK f \in [0 .. Len(s) -> Seq(A)] : Filter(s, V) = f[Len(s)]
      BY Zenon, FilterTrace
    <2>2. Len(s) \in 0 .. Len(s)
      OBVIOUS
    <2> QED
      BY Zenon, <2>1, <2>2
  <1> QED
    BY Zenon, <1>1, <1>2

\* One more element goes through the filter or not.
LEMMA FilterAppend ==
  ASSUME NEW A, NEW s \in Seq(A), NEW x \in A, NEW V
  PROVE  Filter(Append(s, x), V) = IF x \in V THEN Append(Filter(s, V), x) ELSE Filter(s, V)
  <1>2. PICK n \in Nat : n = Len(s)
    BY Zenon, AppendExtends
  <1>3. PICK t \in Seq(A) : t = Append(s, x) /\ Extends(t, n, s, x)
    BY Zenon, <1>2, AppendExtends
  <1>4. PICK f \in [0 .. n -> Seq(A)] : Sieve(s, V, f) /\ Filter(s, V) = f[n]
    BY Zenon, <1>2, FilterTrace
  <1>5. PICK g : Sieve(t, V, g) /\ Filter(t, V) = g[Len(t)]
    BY Zenon, FilterTrace
  <1>6. GoOnAlike(n, f, g)
    BY Zenon, <1>2, <1>3, <1>4, <1>5 DEF Sieve, Extends, GoOnAlike
  <1>7. f[n] = g[n] /\ f[n] \in Seq(A)
    <2>1. Alike(n, f, g)
      BY Zenon, <1>6, LoopIsDetermined
    <2> QED
      BY Zenon, <1>3, <2>1 DEF Alike, Extends
  <1>8. g[n + 1] = IF x \in V THEN Append(g[n], x) ELSE g[n]
    BY Zenon, <1>3, <1>5 DEF Sieve, Extends
  <1>9. Filter(t, V) = g[n + 1]
    BY Zenon, <1>3, <1>5 DEF Extends
  <1> QED
    BY Zenon, <1>3, <1>4, <1>7, <1>8, <1>9

-----------------------------------------------------------------------------
(* Total *)

\* The trace of the loop behind Total.
Sums(s, f) == f[0] = 0 /\ \A k \in 1 .. Len(s) : f[k] = f[k - 1] + s[k]

\* Total is the last value of its trace.
LEMMA TotalTrace ==
  ASSUME NEW s \in Seq(Nat)
  PROVE  \E f \in [0 .. Len(s) -> Nat] : Sums(s, f) /\ Total(s) = f[Len(s)]
  <1> DEFINE n == Len(s)
             Body(f) == [k \in 0 .. Len(s) |-> IF k = 0 THEN 0 ELSE f[k - 1] + s[k]]
             step == [k \in 1 .. n |-> [t \in Nat |-> t + s[k]]]
  <1>1. n \in Nat /\ 0 \in Nat
    OBVIOUS
  <1>2. step \in [1 .. n -> [Nat -> Nat]]
    OBVIOUS
  <1>3. PICK f \in [0 .. n -> Nat] : f[0] = 0 /\ \A k \in 1 .. n : f[k] = step[k][f[k - 1]]
    <2> HIDE DEF n, step
    <2>1. Traces(n, Nat, 0, step) # {}
      BY Zenon, <1>1, <1>2, LoopRuns
    <2> QED
      BY Zenon, <2>1 DEF Traces
  <1>4. \A k \in 1 .. n : f[k] = f[k - 1] + s[k]
    <2> SUFFICES ASSUME NEW k \in 1 .. n PROVE f[k] = f[k - 1] + s[k]
      BY Zenon
    <2>1. k - 1 \in 0 .. n
      BY <1>1
    <2>2. f[k - 1] \in Nat
      BY Zenon, <2>1
    <2> QED
      BY Zenon, <1>3, <2>2
  <1>5. f = Body(f)
    <2>1. \A k \in 0 .. n : k = 0 \/ k \in 1 .. n
      OBVIOUS
    <2>2. \A k \in 0 .. n : f[k] = Body(f)[k]
      BY Zenon, <1>3, <1>4, <2>1
    <2> QED
      BY Zenon, <2>2
  <1>6. PICK g : g = Body(g) /\ Total(s) = g[n]
    BY Zenon, <1>5 DEF Total
  <1>7. Sums(s, g)
    <2>1. 0 \in 0 .. n /\ \A k \in 1 .. n : k # 0 /\ k \in 0 .. n
      OBVIOUS
    <2> QED
      BY Zenon, <1>6, <2>1 DEF Sums
  <1>8. GoOnAlike(n, g, f)
    BY Zenon, <1>3, <1>4, <1>7 DEF Sums, GoOnAlike
  <1>9. Alike(n, g, f)
    BY Zenon, <1>1, <1>8, LoopIsDetermined
  <1>10. n \in 0 .. n
    BY <1>1
  <1> QED
    BY Zenon, <1>3, <1>4, <1>6, <1>9, <1>10 DEF Sums, Alike

\* One more number is added.
LEMMA TotalAppend ==
  ASSUME NEW s \in Seq(Nat), NEW x \in Nat
  PROVE  /\ Total(<<>>) = 0
         /\ Total(s) \in Nat
         /\ Total(Append(s, x)) = Total(s) + x
  <1>1. Total(<<>>) = 0
    <2>1. <<>> \in Seq(Nat) /\ Len(<<>>) = 0
      OBVIOUS
    <2>2. PICK f : Sums(<<>>, f) /\ Total(<<>>) = f[Len(<<>>)]
      BY Zenon, <2>1, TotalTrace
    <2> QED
      BY Zenon, <2>1, <2>2 DEF Sums
  <1>2. PICK n \in Nat : n = Len(s)
    BY Zenon, AppendExtends
  <1>3. PICK t \in Seq(Nat) : t = Append(s, x) /\ Extends(t, n, s, x)
    BY Zenon, <1>2, AppendExtends
  <1>4. PICK f \in [0 .. n -> Nat] : Sums(s, f) /\ Total(s) = f[n]
    BY Zenon, <1>2, TotalTrace
  <1>5. PICK g : Sums(t, g) /\ Total(t) = g[Len(t)]
    BY Zenon, TotalTrace
  <1>6. GoOnAlike(n, f, g)
    BY Zenon, <1>2, <1>3, <1>4, <1>5 DEF Sums, Extends, GoOnAlike
  <1>7. f[n] = g[n] /\ f[n] \in Nat
    <2>1. Alike(n, f, g)
      BY Zenon, <1>6, LoopIsDetermined
    <2> QED
      BY Zenon, <1>3, <2>1 DEF Alike, Extends
  <1>8. g[n + 1] = g[n] + x
    BY Zenon, <1>3, <1>5 DEF Sums, Extends
  <1>9. Total(t) = g[n + 1]
    BY Zenon, <1>3, <1>5 DEF Extends
  <1> QED
    BY Zenon, <1>1, <1>3, <1>4, <1>7, <1>8, <1>9

-----------------------------------------------------------------------------
(* Joined *)

\* The trace of the loop behind Joined.
Joins(seqs, f) ==
    f[0] = <<>> /\ \A k \in 1 .. Len(seqs) : f[k] = f[k - 1] \o seqs[k]

\* Joined is the last value of its trace.
LEMMA JoinTrace ==
  ASSUME NEW A, NEW seqs \in Seq(Seq(A))
  PROVE  \E f \in [0 .. Len(seqs) -> Seq(A)] :
            Joins(seqs, f) /\ Joined(seqs) = f[Len(seqs)]
  <1> DEFINE n == Len(seqs)
             Body(f) == [k \in 0 .. Len(seqs) |-> IF k = 0 THEN <<>> ELSE f[k - 1] \o seqs[k]]
             step == [k \in 1 .. n |-> [t \in Seq(A) |-> t \o seqs[k]]]
  <1>1. n \in Nat /\ <<>> \in Seq(A)
    OBVIOUS
  <1>2. step \in [1 .. n -> [Seq(A) -> Seq(A)]]
    OBVIOUS
  <1>3. PICK f \in [0 .. n -> Seq(A)] : f[0] = <<>> /\ \A k \in 1 .. n : f[k] = step[k][f[k - 1]]
    <2> HIDE DEF n, step
    <2>1. Traces(n, Seq(A), <<>>, step) # {}
      BY Zenon, <1>1, <1>2, LoopRuns
    <2> QED
      BY Zenon, <2>1 DEF Traces
  <1>4. \A k \in 1 .. n : f[k] = f[k - 1] \o seqs[k]
    <2> SUFFICES ASSUME NEW k \in 1 .. n PROVE f[k] = f[k - 1] \o seqs[k]
      BY Zenon
    <2>1. k - 1 \in 0 .. n
      BY <1>1
    <2>2. f[k - 1] \in Seq(A)
      BY Zenon, <2>1
    <2> QED
      BY Zenon, <1>3, <2>2
  <1>5. f = Body(f)
    <2>1. \A k \in 0 .. n : k = 0 \/ k \in 1 .. n
      OBVIOUS
    <2>2. \A k \in 0 .. n : f[k] = Body(f)[k]
      BY Zenon, <1>3, <1>4, <2>1
    <2> QED
      BY Zenon, <2>2
  <1>6. PICK g : g = Body(g) /\ Joined(seqs) = g[n]
    BY Zenon, <1>5 DEF Joined
  <1>7. Joins(seqs, g)
    <2>1. 0 \in 0 .. n /\ \A k \in 1 .. n : k # 0 /\ k \in 0 .. n
      OBVIOUS
    <2> QED
      BY Zenon, <1>6, <2>1 DEF Joins
  <1>8. GoOnAlike(n, g, f)
    BY Zenon, <1>3, <1>4, <1>7 DEF Joins, GoOnAlike
  <1>9. Alike(n, g, f)
    BY Zenon, <1>1, <1>8, LoopIsDetermined
  <1>10. n \in 0 .. n
    BY <1>1
  <1> QED
    BY Zenon, <1>3, <1>4, <1>6, <1>9, <1>10 DEF Joins, Alike

\* One more sequence is joined at the end.
LEMMA JoinedAppend ==
  ASSUME NEW A, NEW seqs \in Seq(Seq(A)), NEW s \in Seq(A)
  PROVE  /\ Joined(<<>>) = <<>>
         /\ Joined(seqs) \in Seq(A)
         /\ Joined(Append(seqs, s)) = Joined(seqs) \o s
  <1>1. Joined(<<>>) = <<>>
    <2>1. <<>> \in Seq(Seq(A)) /\ Len(<<>>) = 0
      OBVIOUS
    <2>2. PICK f : Joins(<<>>, f) /\ Joined(<<>>) = f[Len(<<>>)]
      BY Zenon, <2>1, JoinTrace
    <2> QED
      BY Zenon, <2>1, <2>2 DEF Joins
  <1>2. PICK n \in Nat : n = Len(seqs)
    BY Zenon, AppendExtends
  <1>3. PICK t \in Seq(Seq(A)) : t = Append(seqs, s) /\ Extends(t, n, seqs, s)
    BY Zenon, <1>2, AppendExtends
  <1>4. PICK f \in [0 .. n -> Seq(A)] : Joins(seqs, f) /\ Joined(seqs) = f[n]
    BY Zenon, <1>2, JoinTrace
  <1>5. PICK g : Joins(t, g) /\ Joined(t) = g[Len(t)]
    BY Zenon, JoinTrace
  <1>6. GoOnAlike(n, f, g)
    BY Zenon, <1>2, <1>3, <1>4, <1>5 DEF Joins, Extends, GoOnAlike
  <1>7. f[n] = g[n] /\ f[n] \in Seq(A)
    <2>1. Alike(n, f, g)
      BY Zenon, <1>6, LoopIsDetermined
    <2> QED
      BY Zenon, <1>3, <2>1 DEF Alike, Extends
  <1>8. g[n + 1] = g[n] \o s
    BY Zenon, <1>3, <1>5 DEF Joins, Extends
  <1>9. Joined(t) = g[n + 1]
    BY Zenon, <1>3, <1>5 DEF Extends
  <1> QED
    BY Zenon, <1>1, <1>3, <1>4, <1>7, <1>8, <1>9

-----------------------------------------------------------------------------
(* What follows from them *)

\* The elements of a sequence.
Elements(s) == {s[i] : i \in 1 .. Len(s)}

\* Concatenation, an element at a time.
LEMMA ConcatFacts ==
  ASSUME NEW A, NEW s \in Seq(A), NEW t \in Seq(A), NEW x \in A
  PROVE  /\ s \o t \in Seq(A)
         /\ s \o <<>> = s
         /\ <<>> \o s = s
         /\ s \o Append(t, x) = Append(s \o t, x)
         /\ Append(s, x) \in Seq(A)
         /\ <<>> \in Seq(A)
  OBVIOUS

\* The elements of a longer sequence.
LEMMA ElementsAppend ==
  ASSUME NEW A, NEW s \in Seq(A), NEW x \in A
  PROVE  Elements(Append(s, x)) = Elements(s) \union {x}
  <1>1. PICK n \in Nat : n = Len(s)
    BY Zenon, AppendExtends
  <1>2. PICK t : t = Append(s, x) /\ Extends(t, n, s, x)
    BY Zenon, <1>1, AppendExtends
  <1>3. \A k \in 1 .. n + 1 : k = n + 1 \/ k \in 1 .. n
    OBVIOUS
  <1> QED
    BY Zenon, <1>1, <1>2, <1>3 DEF Elements, Extends

\* The elements of a concatenation.
LEMMA ElementsConcat ==
  ASSUME NEW A, NEW s \in Seq(A), NEW t \in Seq(A)
  PROVE  Elements(s \o t) = Elements(s) \union Elements(t)
  <1>1. Len(s \o t) = Len(s) + Len(t) /\ Len(s) \in Nat /\ Len(t) \in Nat
    OBVIOUS
  <1>2. \A i \in 1 .. Len(s) : i \in 1 .. Len(s \o t) /\ (s \o t)[i] = s[i]
    OBVIOUS
  <1>3. \A i \in 1 .. Len(t) :
          Len(s) + i \in 1 .. Len(s \o t) /\ (s \o t)[Len(s) + i] = t[i]
    OBVIOUS
  <1>4. \A i \in 1 .. Len(s \o t) :
          i \in 1 .. Len(s) \/ \E j \in 1 .. Len(t) : i = Len(s) + j
    <2> SUFFICES ASSUME NEW i \in 1 .. Len(s \o t), i \notin 1 .. Len(s)
                 PROVE  \E j \in 1 .. Len(t) : i = Len(s) + j
      OBVIOUS
    <2>1. i - Len(s) \in 1 .. Len(t) /\ i = Len(s) + (i - Len(s))
      BY <1>1
    <2> QED
      BY Zenon, <2>1
  <1>5. \A i \in 1 .. Len(s \o t) : (s \o t)[i] \in Elements(s) \union Elements(t)
    BY Zenon, <1>2, <1>3, <1>4 DEF Elements
  <1>6. Elements(s) \union Elements(t) \subseteq Elements(s \o t)
    BY Zenon, <1>2, <1>3 DEF Elements
  <1> QED
    BY Zenon, <1>5, <1>6 DEF Elements

\* The function g applied to every element.
Mapped(g, s) == [i \in 1 .. Len(s) |-> g[s[i]]]

\* Filtering commutes with concatenation, and a test of what is mapped is a
\* test of the element (each named, so that a citation unifies).
FilterSplits(s, t, V)      == Filter(s \o t, V) = Filter(s, V) \o Filter(t, V)
FilterCommutes(g, s, V, W) == Filter(Mapped(g, s), V) = Mapped(g, Filter(s, W))

\* Filtering a concatenation is concatenating what is filtered.
LEMMA FilterConcat ==
  ASSUME NEW A, NEW s \in Seq(A), NEW t \in Seq(A), NEW V
  PROVE  FilterSplits(s, t, V)
  <1> DEFINE P == {u \in Seq(A) : Filter(s \o u, V) = Filter(s, V) \o Filter(u, V)}
  <1>1. <<>> \in P
    <2>1. <<>> \in Seq(A) /\ s \o <<>> = s
      OBVIOUS
    <2>2. Filter(<<>>, V) = <<>> /\ Filter(s, V) \in Seq(A)
      BY Zenon, FilterBasics
    <2>3. Filter(s, V) \o <<>> = Filter(s, V)
      BY <2>2
    <2> QED
      BY Zenon, <2>1, <2>2, <2>3
  <1>2. ASSUME NEW u \in Seq(A), NEW x \in A, u \in P PROVE Append(u, x) \in P
    <2>1. /\ Append(u, x) \in Seq(A)
          /\ s \o Append(u, x) = Append(s \o u, x)
          /\ s \o u \in Seq(A)
      BY ConcatFacts
    <2>2. /\ Filter(s, V) \in Seq(A) /\ Filter(u, V) \in Seq(A)
          /\ Filter(s \o u, V) = Filter(s, V) \o Filter(u, V)
      BY Zenon, <1>2, FilterBasics
    <2>3. Filter(s, V) \o Append(Filter(u, V), x) = Append(Filter(s, V) \o Filter(u, V), x)
      BY <2>2, ConcatFacts
    <2>4. Filter(Append(s \o u, x), V)
             = IF x \in V THEN Append(Filter(s \o u, V), x) ELSE Filter(s \o u, V)
      BY Zenon, <2>1, FilterAppend
    <2>5. Filter(Append(u, x), V) = IF x \in V THEN Append(Filter(u, V), x) ELSE Filter(u, V)
      BY Zenon, FilterAppend
    <2> QED
      BY Zenon, <2>1, <2>2, <2>3, <2>4, <2>5
  <1>3. \A u \in Seq(A) : u \in P
    <2> HIDE DEF P
    <2> QED
      BY Zenon, <1>1, <1>2, EverySequence
  <1> QED
    BY Zenon, <1>3 DEF FilterSplits

\* Two filters in a row.
FilterTwice(s, V, W) == Filter(Filter(s, V), W) = Filter(s, V \cap W)

\* A filter after a filter is one filter.
LEMMA FilterFilter ==
  ASSUME NEW A, NEW s \in Seq(A), NEW V, NEW W
  PROVE  FilterTwice(s, V, W)
  <1> DEFINE P == {u \in Seq(A) : Filter(Filter(u, V), W) = Filter(u, V \cap W)}
  <1>1. <<>> \in P
    <2>1. <<>> \in Seq(A)
      OBVIOUS
    <2> QED
      BY Zenon, <2>1, FilterBasics
  <1>2. ASSUME NEW u \in Seq(A), NEW x \in A, u \in P PROVE Append(u, x) \in P
    <2>1. Append(u, x) \in Seq(A) /\ Filter(u, V) \in Seq(A)
      BY Zenon, AppendExtends, FilterBasics
    <2>2. Filter(Append(u, x), V) = IF x \in V THEN Append(Filter(u, V), x) ELSE Filter(u, V)
      BY Zenon, FilterAppend
    <2>3. Filter(Append(u, x), V \cap W)
             = IF x \in V \cap W THEN Append(Filter(u, V \cap W), x) ELSE Filter(u, V \cap W)
      BY Zenon, FilterAppend
    <2>4. Filter(Append(Filter(u, V), x), W)
             = IF x \in W THEN Append(Filter(Filter(u, V), W), x) ELSE Filter(Filter(u, V), W)
      BY Zenon, <2>1, FilterAppend
    <2>5. Filter(Filter(u, V), W) = Filter(u, V \cap W)
      BY Zenon, <1>2
    <2>6. Filter(Filter(Append(u, x), V), W) = Filter(Append(u, x), V \cap W)
      <3>1. CASE x \in V
        <4>1. Filter(Append(u, x), V) = Append(Filter(u, V), x)
          BY Zenon, <2>2, <3>1
        <4>2. CASE x \in W
          BY Zenon, <2>3, <2>4, <2>5, <3>1, <4>1, <4>2
        <4>3. CASE x \notin W
          BY Zenon, <2>3, <2>4, <2>5, <4>1, <4>3
        <4> QED
          BY Zenon, <4>2, <4>3
      <3>2. CASE x \notin V
        BY Zenon, <2>2, <2>3, <2>5, <3>2
      <3> QED
        BY Zenon, <3>1, <3>2
    <2> QED
      BY Zenon, <2>1, <2>6
  <1>3. \A u \in Seq(A) : u \in P
    <2> HIDE DEF P
    <2> QED
      BY Zenon, <1>1, <1>2, EverySequence
  <1> QED
    BY Zenon, <1>3 DEF FilterTwice

\* Two tests agree on A, and keep the same of a sequence.
Agree(A, V, W)      == \A x \in A : x \in V <=> x \in W
KeepAlike(s, V, W)  == Filter(s, V) = Filter(s, W)

\* Two tests that agree on A filter the same.
LEMMA FilterSame ==
  ASSUME NEW A, NEW s \in Seq(A), NEW V, NEW W, Agree(A, V, W)
  PROVE  KeepAlike(s, V, W)
  <1> USE DEF Agree
  <1> DEFINE P == {u \in Seq(A) : Filter(u, V) = Filter(u, W)}
  <1>1. <<>> \in P
    <2>1. <<>> \in Seq(A)
      OBVIOUS
    <2> QED
      BY Zenon, <2>1, FilterBasics
  <1>2. ASSUME NEW u \in Seq(A), NEW x \in A, u \in P PROVE Append(u, x) \in P
    <2>1. Append(u, x) \in Seq(A)
      BY Zenon, AppendExtends
    <2>2. Filter(Append(u, x), V) = IF x \in V THEN Append(Filter(u, V), x) ELSE Filter(u, V)
      BY Zenon, FilterAppend
    <2>3. Filter(Append(u, x), W) = IF x \in W THEN Append(Filter(u, W), x) ELSE Filter(u, W)
      BY Zenon, FilterAppend
    <2>4. Filter(u, V) = Filter(u, W) /\ (x \in V <=> x \in W)
      BY Zenon, <1>2
    <2>5. Filter(Append(u, x), V) = Filter(Append(u, x), W)
      BY Zenon, <2>2, <2>3, <2>4
    <2> QED
      BY Zenon, <2>1, <2>5
  <1>3. \A u \in Seq(A) : u \in P
    <2> HIDE DEF P
    <2> QED
      BY Zenon, <1>1, <1>2, EverySequence
  <1> QED
    BY Zenon, <1>3 DEF KeepAlike

\* What passes the test is all that is kept.
LEMMA FilterTyped ==
  ASSUME NEW A, NEW s \in Seq(A), NEW V
  PROVE  Filter(s, V) \in Seq(A \cap V)
  <1> DEFINE P == {u \in Seq(A) : Filter(u, V) \in Seq(A \cap V)}
  <1>1. <<>> \in P
    <2>1. <<>> \in Seq(A) /\ <<>> \in Seq(A \cap V)
      OBVIOUS
    <2> QED
      BY Zenon, <2>1, FilterBasics
  <1>2. ASSUME NEW u \in Seq(A), NEW x \in A, u \in P PROVE Append(u, x) \in P
    <2>1. Append(u, x) \in Seq(A)
      BY Zenon, AppendExtends
    <2>2. Filter(Append(u, x), V) = IF x \in V THEN Append(Filter(u, V), x) ELSE Filter(u, V)
      BY Zenon, FilterAppend
    <2>3. x \in V => Append(Filter(u, V), x) \in Seq(A \cap V)
      BY Zenon, <1>2, AppendExtends
    <2> QED
      BY Zenon, <1>2, <2>1, <2>2, <2>3
  <1>3. \A u \in Seq(A) : u \in P
    <2> HIDE DEF P
    <2> QED
      BY Zenon, <1>1, <1>2, EverySequence
  <1> QED
    BY Zenon, <1>3

\* A filter that nothing passes.
LEMMA FilterNone ==
  ASSUME NEW A, NEW s \in Seq(A), NEW V, \A x \in A : x \notin V
  PROVE  Filter(s, V) = <<>>
  <1> DEFINE P == {u \in Seq(A) : Filter(u, V) = <<>>}
  <1>1. <<>> \in P
    <2>1. <<>> \in Seq(A)
      OBVIOUS
    <2> QED
      BY Zenon, <2>1, FilterBasics
  <1>2. ASSUME NEW u \in Seq(A), NEW x \in A, u \in P PROVE Append(u, x) \in P
    <2>1. Append(u, x) \in Seq(A)
      BY Zenon, AppendExtends
    <2>2. Filter(Append(u, x), V) = IF x \in V THEN Append(Filter(u, V), x) ELSE Filter(u, V)
      BY Zenon, FilterAppend
    <2> QED
      BY Zenon, <1>2, <2>1, <2>2
  <1>3. \A u \in Seq(A) : u \in P
    <2> HIDE DEF P
    <2> QED
      BY Zenon, <1>1, <1>2, EverySequence
  <1> QED
    BY Zenon, <1>3

\* A filter makes nothing longer.
LEMMA FilterShorter ==
  ASSUME NEW A, NEW s \in Seq(A), NEW V
  PROVE  Len(Filter(s, V)) <= Len(s)
  <1> DEFINE P == {u \in Seq(A) : Len(Filter(u, V)) <= Len(u)}
  <1>1. <<>> \in P
    <2>1. <<>> \in Seq(A) /\ Len(<<>>) <= Len(<<>>)
      OBVIOUS
    <2> QED
      BY Zenon, <2>1, FilterBasics
  <1>2. ASSUME NEW u \in Seq(A), NEW x \in A, u \in P PROVE Append(u, x) \in P
    <2>1. PICK f \in Seq(A) : f = Filter(u, V)
      BY Zenon, FilterBasics
    <2>2. Len(f) <= Len(u)
      BY Zenon, <1>2, <2>1
    <2>3. /\ Append(u, x) \in Seq(A)
          /\ Len(f) <= Len(Append(u, x)) /\ Len(Append(f, x)) <= Len(Append(u, x))
      BY <2>2
    <2>4. Filter(Append(u, x), V) = IF x \in V THEN Append(Filter(u, V), x) ELSE Filter(u, V)
      BY Zenon, FilterAppend
    <2> QED
      BY Zenon, <2>1, <2>3, <2>4
  <1>3. \A u \in Seq(A) : u \in P
    <2> HIDE DEF P
    <2> QED
      BY Zenon, <1>1, <1>2, EverySequence
  <1> QED
    BY Zenon, <1>3

\* The elements that are kept are the ones that pass.
LEMMA FilterElements ==
  ASSUME NEW A, NEW s \in Seq(A), NEW V
  PROVE  Elements(Filter(s, V)) = Elements(s) \cap V
  <1> DEFINE P == {u \in Seq(A) : Elements(Filter(u, V)) = Elements(u) \cap V}
  <1>1. <<>> \in P
    <2>1. <<>> \in Seq(A) /\ Elements(<<>>) = {}
      BY DEF Elements
    <2>2. Filter(<<>>, V) = <<>>
      BY Zenon, FilterBasics
    <2> QED
      BY Zenon, <2>1, <2>2
  <1>2. ASSUME NEW u \in Seq(A), NEW x \in A, u \in P PROVE Append(u, x) \in P
    <2>1. Append(u, x) \in Seq(A) /\ Filter(u, V) \in Seq(A)
      BY Zenon, AppendExtends, FilterBasics
    <2>2. Filter(Append(u, x), V) = IF x \in V THEN Append(Filter(u, V), x) ELSE Filter(u, V)
      BY Zenon, FilterAppend
    <2>3. /\ Elements(Append(u, x)) = Elements(u) \union {x}
          /\ Elements(Append(Filter(u, V), x)) = Elements(Filter(u, V)) \union {x}
      <3>1. Elements(Append(u, x)) = Elements(u) \union {x}
        BY ElementsAppend
      <3>2. Elements(Append(Filter(u, V), x)) = Elements(Filter(u, V)) \union {x}
        BY <2>1, ElementsAppend
      <3> QED
        BY Zenon, <3>1, <3>2
    <2>4. Elements(Filter(u, V)) = Elements(u) \cap V
      BY Zenon, <1>2
    <2>5. Elements(Filter(Append(u, x), V)) = Elements(Append(u, x)) \cap V
      <3>1. CASE x \in V
        BY Zenon, <2>2, <2>3, <2>4, <3>1
      <3>2. CASE x \notin V
        BY Zenon, <2>2, <2>3, <2>4, <3>2
      <3> QED
        BY Zenon, <3>1, <3>2
    <2> QED
      BY Zenon, <2>1, <2>5
  <1>3. \A u \in Seq(A) : u \in P
    <2> HIDE DEF P
    <2> QED
      BY Zenon, <1>1, <1>2, EverySequence
  <1> QED
    BY Zenon, <1>3

\* The total of a concatenation.
LEMMA TotalConcat ==
  ASSUME NEW s \in Seq(Nat), NEW t \in Seq(Nat)
  PROVE  Total(s \o t) = Total(s) + Total(t)
  <1> DEFINE P == {u \in Seq(Nat) : Total(s \o u) = Total(s) + Total(u)}
  <1>1. <<>> \in P
    <2>1. <<>> \in Seq(Nat) /\ s \o <<>> = s
      OBVIOUS
    <2>2. Total(<<>>) = 0 /\ Total(s) \in Nat
      BY Zenon, TotalAppend
    <2>3. Total(s) = Total(s) + Total(<<>>)
      BY <2>2
    <2> QED
      BY Zenon, <2>1, <2>3
  <1>2. ASSUME NEW u \in Seq(Nat), NEW x \in Nat, u \in P PROVE Append(u, x) \in P
    <2>1. /\ Append(u, x) \in Seq(Nat)
          /\ s \o Append(u, x) = Append(s \o u, x)
          /\ s \o u \in Seq(Nat)
      BY ConcatFacts
    <2>2. Total(s) \in Nat /\ Total(u) \in Nat /\ Total(s \o u) \in Nat
      BY Zenon, <2>1, TotalAppend
    <2>3. Total(Append(s \o u, x)) = Total(s \o u) + x /\ Total(Append(u, x)) = Total(u) + x
      BY Zenon, <2>1, TotalAppend
    <2>4. Total(s \o u) = Total(s) + Total(u)
      BY Zenon, <1>2
    <2>5. Total(s) + (Total(u) + x) = (Total(s) + Total(u)) + x
      BY <2>2
    <2> QED
      BY Zenon, <2>1, <2>3, <2>4, <2>5
  <1>3. \A u \in Seq(Nat) : u \in P
    <2> HIDE DEF P
    <2> QED
      BY Zenon, <1>1, <1>2, EverySequence
  <1> QED
    BY Zenon, <1>3

-----------------------------------------------------------------------------
(* Mapping a sequence *)

\* g is a function from A to B.
Maps(g, A, B) == g \in [A -> B]

\* Mapping, an element at a time.
LEMMA MappedFacts ==
  ASSUME NEW A, NEW B, NEW g, Maps(g, A, B), NEW s \in Seq(A), NEW x \in A
  PROVE  /\ Mapped(g, <<>>) = <<>>
         /\ Mapped(g, s) \in Seq(B)
         /\ Len(Mapped(g, s)) = Len(s)
         /\ Mapped(g, Append(s, x)) = Append(Mapped(g, s), g[x])
  BY DEF Mapped, Maps

\* Mapping commutes with concatenation.
MappedSplits(g, s, t) == Mapped(g, s \o t) = Mapped(g, s) \o Mapped(g, t)

\* Mapping a concatenation.
LEMMA MappedConcat ==
  ASSUME NEW A, NEW B, NEW g, Maps(g, A, B), NEW s \in Seq(A), NEW t \in Seq(A)
  PROVE  MappedSplits(g, s, t)
  BY DEF Mapped, Maps, MappedSplits

\* V says of what is mapped what W says of the element.
Tests(g, A, V, W) == \A x \in A : x \in W <=> g[x] \in V

\* A test of what is mapped is a test of the element.
LEMMA FilterMapped ==
  ASSUME NEW A, NEW B, NEW g, Maps(g, A, B), NEW s \in Seq(A), NEW V, NEW W,
         Tests(g, A, V, W)
  PROVE  FilterCommutes(g, s, V, W)
  <1> DEFINE P == {u \in Seq(A) : Filter(Mapped(g, u), V) = Mapped(g, Filter(u, W))}
  <1>1. <<>> \in P
    <2>1. <<>> \in Seq(A) /\ Mapped(g, <<>>) = <<>>
      BY DEF Mapped, Maps
    <2>2. Filter(<<>>, V) = <<>> /\ Filter(<<>>, W) = <<>>
      BY Zenon, FilterBasics
    <2> QED
      BY Zenon, <2>1, <2>2
  <1>2. ASSUME NEW u \in Seq(A), NEW x \in A, u \in P PROVE Append(u, x) \in P
    <2>1. /\ Append(u, x) \in Seq(A)
          /\ Filter(u, W) \in Seq(A)
          /\ g[x] \in B
      BY Zenon, AppendExtends, FilterBasics DEF Maps
    <2>2. /\ Mapped(g, u) \in Seq(B)
          /\ Mapped(g, Append(u, x)) = Append(Mapped(g, u), g[x])
      BY MappedFacts
    <2>3. Mapped(g, Append(Filter(u, W), x)) = Append(Mapped(g, Filter(u, W)), g[x])
      BY <2>1, MappedFacts
    <2>4. Filter(Append(Mapped(g, u), g[x]), V)
            = IF g[x] \in V THEN Append(Filter(Mapped(g, u), V), g[x])
              ELSE Filter(Mapped(g, u), V)
      <3>1. PICK m \in Seq(B) : m = Mapped(g, u)
        BY Zenon, <2>2
      <3>2. PICK y \in B : y = g[x]
        BY Zenon, <2>1
      <3>3. Filter(Append(m, y), V) = IF y \in V THEN Append(Filter(m, V), y) ELSE Filter(m, V)
        BY Zenon, FilterAppend
      <3> QED
        BY Zenon, <3>1, <3>2, <3>3
    <2>5. Filter(Append(u, x), W) = IF x \in W THEN Append(Filter(u, W), x) ELSE Filter(u, W)
      BY Zenon, FilterAppend
    <2>6. Filter(Mapped(g, u), V) = Mapped(g, Filter(u, W)) /\ (x \in W <=> g[x] \in V)
      BY Zenon, <1>2 DEF Tests
    <2>7. Filter(Mapped(g, Append(u, x)), V) = Mapped(g, Filter(Append(u, x), W))
      <3>1. CASE x \in W
        BY Zenon, <2>2, <2>3, <2>4, <2>5, <2>6, <3>1
      <3>2. CASE x \notin W
        BY Zenon, <2>2, <2>4, <2>5, <2>6, <3>2
      <3> QED
        BY Zenon, <3>1, <3>2
    <2> QED
      BY Zenon, <2>1, <2>7
  <1>3. \A u \in Seq(A) : u \in P
    <2> HIDE DEF P
    <2> QED
      BY Zenon, <1>1, <1>2, EverySequence
  <1> QED
    BY Zenon, <1>3 DEF FilterCommutes

\* The first element goes through the filter or not.
LEMMA FilterFirst ==
  ASSUME NEW A, NEW s \in Seq(A), s # <<>>, NEW V
  PROVE  Filter(s, V) = (IF Head(s) \in V THEN <<Head(s)>> ELSE <<>>) \o Filter(Tail(s), V)
  <1>1. Head(s) \in A /\ Tail(s) \in Seq(A) /\ s = <<Head(s)>> \o Tail(s)
    OBVIOUS
  <1>2. PICK x \in A : x = Head(s)
    BY Zenon, <1>1
  <1>a. <<>> \in Seq(A) /\ <<x>> = Append(<<>>, x) /\ <<x>> \in Seq(A)
    OBVIOUS
  <1>3. PICK e \in Seq(A) : e = <<>> /\ <<x>> = Append(e, x)
    BY Zenon, <1>a
  <1>4. PICK h \in Seq(A) : h = <<x>>
    BY Zenon, <1>a
  <1>5. PICK t \in Seq(A) : t = Tail(s)
    BY Zenon, <1>1
  <1>6. Filter(Append(e, x), V) = IF x \in V THEN Append(Filter(e, V), x) ELSE Filter(e, V)
    BY Zenon, FilterAppend
  <1>7. Filter(h \o t, V) = Filter(h, V) \o Filter(t, V)
    <2>1. FilterSplits(h, t, V)
      BY Zenon, FilterConcat
    <2> QED
      BY Zenon, <2>1 DEF FilterSplits
  <1>8. Filter(<<>>, V) = <<>>
    BY Zenon, FilterBasics
  <1>9. Filter(h, V) = IF x \in V THEN h ELSE <<>>
    BY Zenon, <1>3, <1>4, <1>6, <1>8
  <1>10. Filter(s, V) = Filter(h, V) \o Filter(t, V)
    BY Zenon, <1>1, <1>2, <1>4, <1>5, <1>7
  <1> QED
    BY Zenon, <1>2, <1>4, <1>5, <1>9, <1>10

-----------------------------------------------------------------------------
(* Concatenation *)

\* A concatenation by position.
IsConcat(u, s, t) ==
    /\ Len(u) = Len(t) + Len(s)
    /\ \A i \in 1 .. Len(t) + Len(s) : u[i] = IF i <= Len(s) THEN s[i] ELSE t[i - Len(s)]

\* The concatenation of two sequences has the elements of the first, then those
\* of the second.
LEMMA ConcatAt ==
  ASSUME NEW A, NEW s \in Seq(A), NEW t \in Seq(A)
  PROVE  s \o t \in Seq(A) /\ IsConcat(s \o t, s, t)
  BY DEF IsConcat

\* The sequence that counts up.
LEMMA CountingUp ==
  ASSUME NEW s \in Seq(Int), NEW n, n = Len(s), \A i \in 1 .. n : s[i] = i
  PROVE  s = [i \in 1 .. n |-> i]
  OBVIOUS

\* An element between two sequences, as the last of one or the first of the other.
Turn(r, m, y, j) == (r \o Append(m, y)) \o j = (r \o m) \o (<<y>> \o j)

\* An element between two sequences belongs to either.
LEMMA ConcatTurn ==
  ASSUME NEW A, NEW r \in Seq(A), NEW m \in Seq(A), NEW j \in Seq(A), NEW y \in A
  PROVE  Turn(r, m, y, j)
  <1>a. r \o m \in Seq(A)
    OBVIOUS
  <1>1. PICK h \in Seq(A) : h = r \o m
    BY Zenon, <1>a
  <1>2. r \o Append(m, y) = Append(h, y)
    BY <1>1
  <1>3. Append(h, y) \o j = h \o (<<y>> \o j)
    OBVIOUS
  <1> QED
    BY Zenon, <1>1, <1>2, <1>3 DEF Turn

-----------------------------------------------------------------------------
(* Sums over a sequence *)

\* A product of numbers is a number.
LEMMA ProductType ==
  ASSUME NEW x \in Nat, NEW y \in Nat
  PROVE  x * y \in Nat
  <1> DEFINE S == {n \in Nat : x * n \in Nat}
  <1>1. 0 \in S
    OBVIOUS
  <1>2. \A n \in Nat : n \in S => n + 1 \in S
    <2>1. \A n \in Nat : n + 1 \in Nat /\ x * (n + 1) = x * n + x
      OBVIOUS
    <2>2. \A a, b \in Nat : a + b \in Nat
      OBVIOUS
    <2> QED
      BY Zenon, <2>1, <2>2
  <1> HIDE DEF S
  <1>3. y \in S
    BY Zenon, <1>1, <1>2, EveryNumber
  <1> QED
    BY Zenon, <1>3 DEF S

\* A product grows with its factors.
LEMMA ProductGrows ==
  ASSUME NEW x \in Nat, NEW y \in Nat, NEW z \in Nat, y <= z
  PROVE  x * y <= x * z
  <1>1. PICK d \in Nat : z = y + d
    <2>1. z - y \in Nat /\ z = y + (z - y)
      OBVIOUS
    <2> QED
      BY Zenon, <2>1
  <1>2. x * (y + d) = x * y + x * d
    OBVIOUS
  <1>3. PICK m \in Nat : m = x * y
    BY Zenon, ProductType
  <1>4. PICK n \in Nat : n = x * d
    BY Zenon, ProductType
  <1>5. m <= m + n
    OBVIOUS
  <1> QED
    BY Zenon, <1>1, <1>2, <1>3, <1>4, <1>5

\* The sum of copies of one number.
LEMMA TotalCopies ==
  ASSUME NEW x \in Nat, NEW s \in Seq(Nat), \A i \in 1 .. Len(s) : s[i] = x
  PROVE  Total(s) = x * Len(s)
  <1> DEFINE P == {u \in Seq(Nat) : (\A i \in 1 .. Len(u) : u[i] = x) => Total(u) = x * Len(u)}
  <1>1. <<>> \in P
    <2>1. Total(<<>>) = 0
      BY Zenon, TotalAppend
    <2>2. <<>> \in Seq(Nat) /\ x * Len(<<>>) = 0
      OBVIOUS
    <2> QED
      BY <2>1, <2>2
  <1>2. ASSUME NEW u \in Seq(Nat), NEW y \in Nat, u \in P
        PROVE  Append(u, y) \in P
    <2> SUFFICES ASSUME \A i \in 1 .. Len(Append(u, y)) : Append(u, y)[i] = x
                 PROVE  Total(Append(u, y)) = x * Len(Append(u, y))
      BY Zenon, AppendExtends
    <2>1. Extends(Append(u, y), Len(u), u, y) /\ Len(u) \in Nat
      BY Zenon, AppendExtends
    <2>2. y = x /\ \A i \in 1 .. Len(u) : u[i] = x
      BY Zenon, <2>1 DEF Extends
    <2>3. Total(u) = x * Len(u)
      BY Zenon, <1>2, <2>2
    <2>4. Total(Append(u, y)) = Total(u) + y
      BY Zenon, TotalAppend
    <2>5. Len(Append(u, y)) = Len(u) + 1
      BY Zenon, <2>1 DEF Extends
    <2>6. \A n \in Nat : x * (n + 1) = x * n + x
      OBVIOUS
    <2> QED
      BY Zenon, <2>1, <2>2, <2>3, <2>4, <2>5, <2>6
  <1> HIDE DEF P
  <1>3. s \in P
    BY Zenon, <1>1, <1>2, EverySequence
  <1> QED
    BY Zenon, <1>3 DEF P

\* The sum over a sequence is the sum over two.
SumSplits(g, s, kept, gone) ==
    /\ Total(Mapped(g, s)) \in Nat
    /\ Total(Mapped(g, kept)) \in Nat
    /\ Total(Mapped(g, gone)) \in Nat
    /\ Total(Mapped(g, s)) = Total(Mapped(g, kept)) + Total(Mapped(g, gone))

\* A sum is the sum over what a filter keeps and over what it drops.
LEMMA TotalSplit ==
  ASSUME NEW A, NEW g, Maps(g, A, Nat), NEW s \in Seq(A), NEW V
  PROVE  SumSplits(g, s, Filter(s, V), Filter(s, A \ V))
  <1>0. ASSUME NEW u \in Seq(A), NEW x \in A
        PROVE  /\ Total(Mapped(g, u)) \in Nat
               /\ g[x] \in Nat
               /\ Total(Mapped(g, Append(u, x))) = Total(Mapped(g, u)) + g[x]
    <2>1. /\ Mapped(g, u) \in Seq(Nat)
          /\ Mapped(g, Append(u, x)) = Append(Mapped(g, u), g[x])
      BY MappedFacts
    <2>2. g[x] \in Nat
      BY Zenon DEF Maps
    <2> QED
      BY Zenon, <2>1, <2>2, TotalAppend
  <1>a. \A u \in Seq(A) : Total(Mapped(g, u)) \in Nat
    <2> SUFFICES ASSUME NEW u \in Seq(A) PROVE Total(Mapped(g, u)) \in Nat
      BY Zenon
    <2>1. Mapped(g, u) \in Seq(Nat)
      BY DEF Mapped, Maps
    <2> QED
      BY Zenon, <2>1, TotalAppend
  <1> DEFINE P == {u \in Seq(A) : Total(Mapped(g, u)) =
                     Total(Mapped(g, Filter(u, V))) + Total(Mapped(g, Filter(u, A \ V)))}
  <1>1. <<>> \in P
    <2>1. Filter(<<>>, V) = <<>> /\ Filter(<<>>, A \ V) = <<>>
      BY Zenon, FilterBasics
    <2>2. <<>> \in Seq(A) /\ Mapped(g, <<>>) = <<>> /\ <<>> \in Seq(Nat) /\ 0 \in Nat
      BY DEF Mapped
    <2>3. Total(<<>>) = 0
      BY Zenon, <2>2, TotalAppend
    <2> QED
      BY <2>1, <2>2, <2>3
  <1>2. ASSUME NEW u \in Seq(A), NEW x \in A, u \in P
        PROVE  Append(u, x) \in P
    <2>1. PICK k \in Seq(A) : k = Filter(u, V)
      BY Zenon, FilterBasics
    <2>2. PICK d \in Seq(A) : d = Filter(u, A \ V)
      BY Zenon, FilterBasics
    <2>3. Total(Mapped(g, u)) = Total(Mapped(g, k)) + Total(Mapped(g, d))
      BY Zenon, <1>2, <2>1, <2>2
    <2>4. /\ Total(Mapped(g, k)) \in Nat /\ Total(Mapped(g, d)) \in Nat /\ g[x] \in Nat
          /\ Total(Mapped(g, Append(u, x))) = Total(Mapped(g, u)) + g[x]
          /\ Total(Mapped(g, Append(k, x))) = Total(Mapped(g, k)) + g[x]
          /\ Total(Mapped(g, Append(d, x))) = Total(Mapped(g, d)) + g[x]
      BY Zenon, <1>0
    <2>5. Append(u, x) \in Seq(A)
      BY Zenon, AppendExtends
    <2>6. CASE x \in V
      <3>1. Filter(Append(u, x), V) = Append(k, x)
        BY <2>1, <2>6, FilterAppend
      <3>2. Filter(Append(u, x), A \ V) = d
        BY Zenon, <2>2, <2>6, FilterAppend
      <3>3. Total(Mapped(g, Append(u, x))) = Total(Mapped(g, Append(k, x))) + Total(Mapped(g, d))
        BY <2>3, <2>4
      <3> QED
        BY Zenon, <2>5, <3>1, <3>2, <3>3
    <2>7. CASE x \notin V
      <3>1. Filter(Append(u, x), V) = k
        BY Zenon, <2>1, <2>7, FilterAppend
      <3>2. Filter(Append(u, x), A \ V) = Append(d, x)
        <4>1. PICK W : W = A \ V
          BY Zenon
        <4>2. x \in W
          BY Zenon, <2>7, <4>1
        <4>3. Filter(Append(u, x), W) = Append(Filter(u, W), x)
          BY <4>2, FilterAppend
        <4> QED
          BY Zenon, <2>2, <4>1, <4>3
      <3>3. Total(Mapped(g, Append(u, x))) = Total(Mapped(g, k)) + Total(Mapped(g, Append(d, x)))
        BY <2>3, <2>4
      <3> QED
        BY Zenon, <2>5, <3>1, <3>2, <3>3
    <2> QED
      BY Zenon, <2>6, <2>7
  <1> HIDE DEF P
  <1>3. s \in P
    BY Zenon, <1>1, <1>2, EverySequence
  <1>4. Filter(s, V) \in Seq(A) /\ Filter(s, A \ V) \in Seq(A)
    BY Zenon, FilterBasics
  <1> QED
    BY Zenon, <1>a, <1>3, <1>4 DEF P, SumSplits

-----------------------------------------------------------------------------
(* Subsequences *)

\* at places the elements of s in t, in their order.
Places(at, s, t) ==
    /\ at \in [1 .. Len(s) -> 1 .. Len(t)]
    /\ \A i, j \in 1 .. Len(s) : i < j => at[i] < at[j]
    /\ \A i \in 1 .. Len(s) : t[at[i]] = s[i]

\* A subsequence is one that is placed.
LEMMA SubsequenceIsPlaced ==
  ASSUME NEW s, NEW t
  PROVE  IsSubsequence(s, t) <=> \E at : Places(at, s, t)
  BY Zenon DEF IsSubsequence, Places

\* Nothing is a subsequence of anything, and everything of itself.
LEMMA SubsequenceBasics ==
  ASSUME NEW A, NEW s \in Seq(A)
  PROVE  IsSubsequence(<<>>, s) /\ IsSubsequence(s, s)
  <1>1. Places(<<>>, <<>>, s)
    BY DEF Places
  <1>2. Places([i \in 1 .. Len(s) |-> i], s, s)
    BY DEF Places
  <1> QED
    BY Zenon, <1>1, <1>2, SubsequenceIsPlaced

\* Subsequences of subsequences.
LEMMA SubsequenceTransitive ==
  ASSUME NEW A, NEW s \in Seq(A), NEW t \in Seq(A), NEW u \in Seq(A),
         IsSubsequence(s, t), IsSubsequence(t, u)
  PROVE  IsSubsequence(s, u)
  <1>1. PICK a : Places(a, s, t)
    BY Zenon, SubsequenceIsPlaced
  <1>2. PICK b : Places(b, t, u)
    BY Zenon, SubsequenceIsPlaced
  <1>3. PICK c : c = [i \in 1 .. Len(s) |-> b[a[i]]]
    BY Zenon
  <1>4. c \in [1 .. Len(s) -> 1 .. Len(u)]
    BY Zenon, <1>1, <1>2, <1>3 DEF Places
  <1>5. \A i, j \in 1 .. Len(s) : i < j => c[i] < c[j]
    BY Zenon, <1>1, <1>2, <1>3 DEF Places
  <1>6. \A i \in 1 .. Len(s) : u[c[i]] = s[i]
    BY Zenon, <1>1, <1>2, <1>3 DEF Places
  <1>7. Places(c, s, u)
    BY Zenon, <1>4, <1>5, <1>6 DEF Places
  <1> QED
    BY Zenon, <1>7, SubsequenceIsPlaced

\* A mapping keeps a subsequence.
LEMMA SubsequenceMapped ==
  ASSUME NEW A, NEW B, NEW g, Maps(g, A, B), NEW s \in Seq(A), NEW t \in Seq(A),
         IsSubsequence(s, t)
  PROVE  IsSubsequence(Mapped(g, s), Mapped(g, t))
  <1>1. PICK a : Places(a, s, t)
    BY Zenon, SubsequenceIsPlaced
  <1>2. Len(Mapped(g, s)) = Len(s) /\ Len(Mapped(g, t)) = Len(t)
    BY DEF Mapped, Maps
  <1>3. /\ \A i \in 1 .. Len(s) : Mapped(g, s)[i] = g[s[i]]
        /\ \A i \in 1 .. Len(t) : Mapped(g, t)[i] = g[t[i]]
    BY Zenon DEF Mapped
  <1>a. \A i \in 1 .. Len(s) : a[i] \in 1 .. Len(t) /\ t[a[i]] = s[i]
    BY Zenon, <1>1 DEF Places
  <1>4. \A i \in 1 .. Len(s) : Mapped(g, t)[a[i]] = Mapped(g, s)[i]
    BY Zenon, <1>3, <1>a
  <1>5. Places(a, Mapped(g, s), Mapped(g, t))
    BY Zenon, <1>1, <1>2, <1>4 DEF Places
  <1> QED
    BY Zenon, <1>5, SubsequenceIsPlaced

\* Where two placements, one behind the other, put an element.
Shifted(a, b, n, k, m) == [i \in 1 .. n + k |-> IF i <= n THEN a[i] ELSE m + b[i - n]]

\* Two placements make one of the concatenations.
LEMMA ShiftedPlaces ==
  ASSUME NEW n \in Nat, NEW k \in Nat, NEW m \in Nat, NEW l \in Nat,
         NEW a \in [1 .. n -> 1 .. m], NEW b \in [1 .. k -> 1 .. l],
         \A i, j \in 1 .. n : i < j => a[i] < a[j],
         \A i, j \in 1 .. k : i < j => b[i] < b[j]
  PROVE  /\ Shifted(a, b, n, k, m) \in [1 .. n + k -> 1 .. m + l]
         /\ \A i, j \in 1 .. n + k :
              i < j => Shifted(a, b, n, k, m)[i] < Shifted(a, b, n, k, m)[j]
  <1>1. PICK c : c = Shifted(a, b, n, k, m)
    BY Zenon
  <1>2. \A i \in 1 .. n : a[i] \in Int /\ 1 <= a[i] /\ a[i] <= m
    OBVIOUS
  <1>3. \A i \in 1 .. k : b[i] \in Int /\ 1 <= b[i] /\ b[i] <= l
    OBVIOUS
  <1>4. \A i \in 1 .. n + k : c[i] = IF i <= n THEN a[i] ELSE m + b[i - n]
    BY Zenon, <1>1 DEF Shifted
  <1>5. \A i \in 1 .. n + k :
          \/ i \in 1 .. n /\ c[i] = a[i]
          \/ i > n /\ i - n \in 1 .. k /\ c[i] = m + b[i - n]
    BY <1>4
  <1>6. ASSUME NEW i \in 1 .. n + k
        PROVE  c[i] \in 1 .. m + l
    <2>1. CASE i \in 1 .. n /\ c[i] = a[i]
      BY <1>2, <2>1
    <2>2. CASE i > n /\ i - n \in 1 .. k /\ c[i] = m + b[i - n]
      BY <1>3, <2>2
    <2> QED
      BY Zenon, <1>5, <2>1, <2>2
  <1>7. ASSUME NEW i \in 1 .. n + k, NEW j \in 1 .. n + k, i < j
        PROVE  c[i] < c[j]
    <2>1. CASE j \in 1 .. n
      <3>1. i \in 1 .. n
        BY <1>7, <2>1
      <3>2. c[i] = a[i] /\ c[j] = a[j]
        BY <1>5, <2>1, <3>1
      <3> QED
        BY Zenon, <1>7, <2>1, <3>1, <3>2
    <2>2. CASE i \in 1 .. n /\ j \notin 1 .. n
      <3>1. c[i] = a[i] /\ j - n \in 1 .. k /\ c[j] = m + b[j - n]
        BY <1>5, <2>2
      <3> QED
        BY <1>2, <1>3, <2>2, <3>1
    <2>3. CASE i \notin 1 .. n
      <3>1. j \notin 1 .. n
        BY <1>7, <2>3
      <3>2. i - n \in 1 .. k /\ c[i] = m + b[i - n] /\ j - n \in 1 .. k /\ c[j] = m + b[j - n]
        BY <1>5, <2>3, <3>1
      <3>3. i - n < j - n
        BY <1>7
      <3>4. b[i - n] < b[j - n]
        BY Zenon, <3>2, <3>3
      <3> QED
        BY <1>3, <3>2, <3>4
    <2> QED
      BY Zenon, <2>1, <2>2, <2>3
  <1>8. c \in [1 .. n + k -> 1 .. m + l]
    <2>1. c = [i \in 1 .. n + k |-> c[i]]
      BY Zenon, <1>1 DEF Shifted
    <2> QED
      BY Zenon, <1>6, <2>1
  <1> QED
    BY Zenon, <1>1, <1>7, <1>8

\* A concatenation of subsequences is one of the concatenation.
LEMMA SubsequenceConcat ==
  ASSUME NEW A, NEW s \in Seq(A), NEW t \in Seq(A), NEW u \in Seq(A), NEW v \in Seq(A),
         IsSubsequence(s, t), IsSubsequence(u, v)
  PROVE  IsSubsequence(s \o u, t \o v)
  <1>1. PICK a : Places(a, s, t)
    BY Zenon, SubsequenceIsPlaced
  <1>2. PICK b : Places(b, u, v)
    BY Zenon, SubsequenceIsPlaced
  <1>3. /\ Len(s) \in Nat /\ Len(t) \in Nat /\ Len(u) \in Nat /\ Len(v) \in Nat
        /\ Len(s \o u) = Len(s) + Len(u) /\ Len(t \o v) = Len(t) + Len(v)
    OBVIOUS
  <1>4. PICK c : c = Shifted(a, b, Len(s), Len(u), Len(t))
    BY Zenon
  <1>5. /\ c \in [1 .. Len(s) + Len(u) -> 1 .. Len(t) + Len(v)]
        /\ \A i, j \in 1 .. Len(s) + Len(u) : i < j => c[i] < c[j]
    BY Zenon, <1>1, <1>2, <1>3, <1>4, ShiftedPlaces DEF Places
  <1>6. ASSUME NEW i \in 1 .. Len(s) + Len(u)
        PROVE  (t \o v)[c[i]] = (s \o u)[i]
    <2>1. c[i] = IF i <= Len(s) THEN a[i] ELSE Len(t) + b[i - Len(s)]
      BY Zenon, <1>4 DEF Shifted
    <2>2. CASE i \in 1 .. Len(s)
      <3>1. c[i] = a[i] /\ (s \o u)[i] = s[i]
        BY <2>1, <2>2
      <3>2. a[i] \in 1 .. Len(t) /\ t[a[i]] = s[i]
        BY Zenon, <1>1, <2>2 DEF Places
      <3> QED
        BY <3>1, <3>2
    <2>3. CASE i \notin 1 .. Len(s)
      <3>1. PICK j \in 1 .. Len(u) : i = Len(s) + j
        <4>1. i - Len(s) \in 1 .. Len(u) /\ i = Len(s) + (i - Len(s))
          BY <1>3, <2>3
        <4> QED
          BY Zenon, <4>1
      <3>2. c[i] = Len(t) + b[j] /\ (s \o u)[i] = u[j]
        BY <1>3, <2>1, <2>3, <3>1
      <3>3. b[j] \in 1 .. Len(v) /\ v[b[j]] = u[j]
        BY Zenon, <1>2 DEF Places
      <3>4. PICK k \in 1 .. Len(v) : k = b[j]
        BY Zenon, <3>3
      <3>5. (t \o v)[Len(t) + k] = v[k]
        OBVIOUS
      <3> QED
        BY Zenon, <3>2, <3>3, <3>4, <3>5
    <2> QED
      BY Zenon, <2>2, <2>3
  <1>7. Places(c, s \o u, t \o v)
    BY Zenon, <1>3, <1>5, <1>6 DEF Places
  <1> QED
    BY Zenon, <1>7, SubsequenceIsPlaced

\* More of the longer sequence, at either end.
LEMMA SubsequenceLonger ==
  ASSUME NEW A, NEW s \in Seq(A), NEW t \in Seq(A), NEW v \in Seq(A), IsSubsequence(s, t)
  PROVE  IsSubsequence(s, t \o v) /\ IsSubsequence(s, v \o t)
  <1>1. IsSubsequence(<<>>, v)
    BY Zenon, SubsequenceBasics
  <1>2. <<>> \in Seq(A) /\ s \o <<>> = s /\ <<>> \o s = s
    OBVIOUS
  <1>3. IsSubsequence(s \o <<>>, t \o v) /\ IsSubsequence(<<>> \o s, v \o t)
    BY Zenon, <1>1, <1>2, SubsequenceConcat
  <1> QED
    BY Zenon, <1>2, <1>3

\* What a filter keeps is a subsequence.
LEMMA SubsequenceFilter ==
  ASSUME NEW A, NEW s \in Seq(A), NEW V
  PROVE  IsSubsequence(Filter(s, V), s)
  <1> DEFINE P == {u \in Seq(A) : IsSubsequence(Filter(u, V), u)}
  <1>1. <<>> \in P
    <2>1. <<>> \in Seq(A)
      OBVIOUS
    <2> QED
      BY Zenon, <2>1, FilterBasics, SubsequenceBasics
  <1>2. ASSUME NEW u \in Seq(A), NEW x \in A, u \in P
        PROVE  Append(u, x) \in P
    <2>1. PICK k \in Seq(A) : k = Filter(u, V)
      BY Zenon, FilterBasics
    <2>2. IsSubsequence(k, u)
      BY Zenon, <1>2, <2>1
    <2>a. <<x>> \in Seq(A)
      OBVIOUS
    <2>3. PICK one \in Seq(A) : one = <<x>>
      BY Zenon, <2>a
    <2>4. Append(u, x) = u \o one /\ Append(k, x) = k \o one /\ Append(u, x) \in Seq(A)
      BY <2>3
    <2>5. IsSubsequence(one, one)
      BY Zenon, SubsequenceBasics
    <2>6. IsSubsequence(k \o one, u \o one) /\ IsSubsequence(k, u \o one)
      BY Zenon, <2>2, <2>5, SubsequenceConcat, SubsequenceLonger
    <2>7. Filter(Append(u, x), V) = IF x \in V THEN Append(k, x) ELSE k
      BY Zenon, <2>1, FilterAppend
    <2> QED
      BY Zenon, <2>4, <2>6, <2>7
  <1> HIDE DEF P
  <1>3. s \in P
    BY Zenon, <1>1, <1>2, EverySequence
  <1> QED
    BY Zenon, <1>3 DEF P

\* A part is a subsequence of the whole.
LEMMA SubsequenceJoined ==
  ASSUME NEW A, NEW seqs \in Seq(Seq(A)), NEW i \in 1 .. Len(seqs)
  PROVE  IsSubsequence(seqs[i], Joined(seqs))
  <1> DEFINE P == {w \in Seq(Seq(A)) : \A j \in 1 .. Len(w) : IsSubsequence(w[j], Joined(w))}
  <1>1. <<>> \in P
    OBVIOUS
  <1>2. ASSUME NEW w \in Seq(Seq(A)), NEW x \in Seq(A), w \in P
        PROVE  Append(w, x) \in P
    <2>1. Append(w, x) \in Seq(Seq(A)) /\ Extends(Append(w, x), Len(w), w, x) /\ Len(w) \in Nat
      BY Zenon, AppendExtends
    <2>2. PICK t \in Seq(A) : t = Joined(w)
      BY Zenon, JoinedAppend
    <2>3. Joined(Append(w, x)) = t \o x
      BY Zenon, <2>2, JoinedAppend
    <2>4. ASSUME NEW j \in 1 .. Len(Append(w, x))
          PROVE  IsSubsequence(Append(w, x)[j], t \o x)
      <3>1. CASE j \in 1 .. Len(w)
        <4>1. w[j] \in Seq(A) /\ IsSubsequence(w[j], t)
          BY <1>2, <2>2, <3>1
        <4>2. Append(w, x)[j] = w[j]
          BY Zenon, <2>1, <3>1 DEF Extends
        <4> QED
          BY Zenon, <4>1, <4>2, SubsequenceLonger
      <3>2. CASE j = Len(w) + 1
        <4>1. Append(w, x)[j] = x
          BY Zenon, <2>1, <3>2 DEF Extends
        <4> QED
          BY Zenon, <4>1, SubsequenceBasics, SubsequenceLonger
      <3>3. j \in 1 .. Len(w) \/ j = Len(w) + 1
        <4>1. j \in 1 .. Len(w) + 1
          BY Zenon, <2>1 DEF Extends
        <4>2. \A n \in Nat : \A k \in 1 .. n + 1 : k \in 1 .. n \/ k = n + 1
          OBVIOUS
        <4> QED
          BY Zenon, <2>1, <4>1, <4>2
      <3> QED
        BY Zenon, <3>1, <3>2, <3>3
    <2> QED
      BY Zenon, <2>1, <2>3, <2>4
  <1> HIDE DEF P
  <1>3. seqs \in P
    BY Zenon, <1>1, <1>2, EverySequence
  <1> QED
    BY Zenon, <1>3 DEF P

============================================================================
