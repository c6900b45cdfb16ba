-------------------------------- MODULE Runs --------------------------------
(***************************************************************************)
(* Lemmas about loops: a recursive function over 0 .. N is the run of a    *)
(* loop with N steps, and what each step preserves, the run preserves.     *)
(* Nothing here is about this program.                                     *)
(***************************************************************************)
EXTENDS Selections, WellFoundedInduction, SequenceTheorems, TLAPS

\* Induction over the naturals, stated with a set.
LEMMA SetNatInduction ==
  ASSUME NEW S, 0 \in S, \A n \in Nat : n \in S => n + 1 \in S
  PROVE  \A n \in Nat : n \in S
<1> DEFINE R == OpToRel(<, Nat)
           T == Nat \ S
<1>1. IsWellFoundedOn(R, Nat)
  BY NatLessThanWellFounded
<1>2. \A x, y \in Nat : x < y => <<x, y>> \in R
  BY SMT DEF OpToRel
<1>3. SUFFICES ASSUME T # {} PROVE FALSE
  OBVIOUS
<1> HIDE DEF R
<1>4. PICK x \in T : \A y \in T : ~ (<<y, x>> \in R)
  BY <1>1, <1>3, WFMin
<1>5. x # 0
  OBVIOUS
<1>6. x - 1 \in Nat /\ x - 1 < x
  BY <1>5
<1>7. x - 1 \notin T
  BY <1>2, <1>4, <1>6
<1>8. x - 1 \in S
  BY <1>6, <1>7
<1> QED
  BY <1>6, <1>8

\* g[n] is what the first n steps make of w.
IsRun(N, w, Step, g) == \A n \in 0 .. N : g[n] = IF n = 0 THEN w ELSE Step[n][g[n - 1]]

\* The function after[0 .. N] that starts at w and applies Step[n] to reach after[n]
\* exists, and stays among the values that the steps preserve.
LEMMA RunsExist ==
  ASSUME NEW N \in Nat, NEW V, NEW w \in V, NEW Step \in [1 .. N -> [V -> V]]
  PROVE  \E g \in [0 .. N -> V] : IsRun(N, w, Step, g)
<1> DEFINE Run(k, g) == \A n \in 0 .. k : g[n] = IF n = 0 THEN w ELSE Step[n][g[n - 1]]
           S == {k \in Nat : k <= N => \E g \in [0 .. k -> V] : Run(k, g)}
<1>1. 0 \in S
  <2> DEFINE g == [n \in 0 .. 0 |-> w]
  <2>1. g \in [0 .. 0 -> V] /\ Run(0, g)
    OBVIOUS
  <2> QED
    BY <2>1
<1>2. ASSUME NEW k \in Nat, k \in S PROVE k + 1 \in S
  <2>1. SUFFICES ASSUME k + 1 <= N PROVE \E g \in [0 .. k + 1 -> V] : Run(k + 1, g)
    OBVIOUS
  <2>2. PICK f \in [0 .. k -> V] : Run(k, f)
    BY <1>2, <2>1
  <2> DEFINE g == [n \in 0 .. k + 1 |-> IF n = k + 1 THEN Step[k + 1][f[k]] ELSE f[n]]
  <2>3. Step[k + 1][f[k]] \in V
    <3>1. k + 1 \in 1 .. N /\ f[k] \in V
      BY <2>1
    <3> QED
      BY <3>1
  <2>4. g \in [0 .. k + 1 -> V]
    BY <2>3
  <2>5. ASSUME NEW n \in 0 .. k + 1
        PROVE  g[n] = IF n = 0 THEN w ELSE Step[n][g[n - 1]]
    <3>1. CASE n = k + 1
      <4>1. g[n] = Step[k + 1][f[k]] /\ g[n - 1] = f[k]
        BY <3>1
      <4> QED
        BY <3>1, <4>1
    <3>2. CASE n # k + 1
      <4>1. n \in 0 .. k /\ g[n] = f[n] /\ (n # 0 => g[n - 1] = f[n - 1])
        BY <3>2
      <4> HIDE DEF g
      <4> QED
        BY <2>2, <4>1
    <3> QED
      BY <3>1, <3>2
  <2> HIDE DEF g
  <2> QED
    BY <2>4, <2>5
<1> HIDE DEF S
<1>3. N \in S
  BY <1>1, <1>2, SetNatInduction
<1> QED
  BY <1>3 DEF S, IsRun

\* A run that starts in V and whose every step stays in V ends in V.
LEMMA RunStays ==
  ASSUME NEW N \in Nat, NEW V, NEW g, g[0] \in V,
         \A n \in 1 .. N : g[n - 1] \in V => g[n] \in V
  PROVE  g[N] \in V
<1> DEFINE S == {n \in Nat : n <= N => g[n] \in V}
<1>1. 0 \in S
  OBVIOUS
<1>2. ASSUME NEW n \in Nat, n \in S PROVE n + 1 \in S
  <2>1. SUFFICES ASSUME n + 1 <= N PROVE g[n + 1] \in V
    OBVIOUS
  <2>2. n + 1 \in 1 .. N /\ (n + 1) - 1 = n /\ g[n] \in V
    BY <1>2, <2>1
  <2> QED
    BY <2>2
<1> HIDE DEF S
<1>3. N \in S
  BY <1>1, <1>2, SetNatInduction
<1> QED
  BY <1>3 DEF S

\* Among is the last of the sequences that keep each element or leave it.
LEMMA AmongRuns ==
  ASSUME NEW S, NEW q \in Seq(S), NEW T
  PROVE  \E kept : /\ Among(q, T) = kept[Len(q)] /\ kept[0] = <<>>
                   /\ \A n \in 1 .. Len(q) :
                        kept[n] = IF q[n] \in T THEN Append(kept[n - 1], q[n]) ELSE kept[n - 1]
<1> DEFINE N == Len(q)
           Keep(r, n) == IF q[n] \in T THEN Append(r, q[n]) ELSE r
           Step == [n \in 1 .. N |-> [r \in Seq(S) |-> Keep(r, n)]]
           Body(g) == [i \in 0 .. N |-> IF i = 0 THEN <<>> ELSE Keep(g[i - 1], i)]
           kept == CHOOSE g : g = Body(g)
<1>1. N \in Nat /\ \A n \in 1 .. N : q[n] \in S
  OBVIOUS
<1>2. \A n \in 1 .. N : \A r \in Seq(S) : Keep(r, n) \in Seq(S)
  BY <1>1
<1>3. Among(q, T) = kept[N]
  BY DEF Among
<1> HIDE DEF N
<1>4. \A n \in 1 .. N : \A r \in Seq(S) : Step[n][r] = Keep(r, n)
  OBVIOUS
<1> HIDE DEF Keep
<1>5. Step \in [1 .. N -> [Seq(S) -> Seq(S)]]
  BY <1>2
<1> HIDE DEF Step
<1>6. PICK g \in [0 .. N -> Seq(S)] : IsRun(N, <<>>, Step, g)
  <2>1. <<>> \in Seq(S)
    OBVIOUS
  <2> QED
    BY <1>1, <1>5, <2>1, RunsExist
<1>7. g = Body(g)
  <2>1. ASSUME NEW n \in 0 .. N
        PROVE  g[n] = IF n = 0 THEN <<>> ELSE Keep(g[n - 1], n)
    <3>1. n # 0 => n \in 1 .. N /\ n - 1 \in 0 .. N
      BY <1>1
    <3> QED
      BY <1>4, <1>6, <3>1 DEF IsRun
  <2> QED
    BY <2>1
<1>8. kept = Body(kept)
  BY <1>7
<1> HIDE DEF kept
<1>9. kept[0] = <<>> /\ \A n \in 1 .. N : kept[n] = Keep(kept[n - 1], n)
  BY <1>1, <1>8
<1> QED
  BY <1>3, <1>9 DEF N, Keep

\* What Among keeps is in the set and from the sequence, and is no longer than that; it comes
\* from different places; and nothing of the set is left out.
LEMMA AmongProperties ==
  ASSUME NEW S, NEW q \in Seq(S), NEW T
  PROVE  /\ Among(q, T) \in Seq(S) /\ Len(Among(q, T)) <= Len(q)
         /\ \A i \in 1 .. Len(Among(q, T)) :
              /\ Among(q, T)[i] \in T
              /\ \E j \in 1 .. Len(q) : Among(q, T)[i] = q[j]
         /\ \A i, k \in 1 .. Len(Among(q, T)) :
              i # k => \E j, l \in 1 .. Len(q) :
                         j # l /\ Among(q, T)[i] = q[j] /\ Among(q, T)[k] = q[l]
         /\ \A j \in 1 .. Len(q) :
              q[j] \in T => \E i \in 1 .. Len(Among(q, T)) : Among(q, T)[i] = q[j]
<1> DEFINE N == Len(q)
<1>1. N \in Nat /\ \A n \in 1 .. N : q[n] \in S
  OBVIOUS
<1>2. PICK kept : /\ Among(q, T) = kept[N] /\ kept[0] = <<>>
                  /\ \A n \in 1 .. N :
                       kept[n] = IF q[n] \in T THEN Append(kept[n - 1], q[n]) ELSE kept[n - 1]
  BY AmongRuns
<1> HIDE DEF N
<1> DEFINE From(e, n) == e \in T /\ \E j \in 1 .. n : e = q[j]
           Apart(d, e, n) == \E j, l \in 1 .. n : j # l /\ d = q[j] /\ e = q[l]
           Short(r, n) == /\ r \in Seq(S) /\ Len(r) <= n
                          /\ \A i \in 1 .. Len(r) : From(r[i], n)
           Single(r, n) == \A i, k \in 1 .. Len(r) : i # k => Apart(r[i], r[k], n)
           Full(r, n) == \A j \in 1 .. n : q[j] \in T => \E i \in 1 .. Len(r) : r[i] = q[j]
           Good == {n \in Nat : n <= N => /\ Short(kept[n], n) /\ Single(kept[n], n)
                                          /\ Full(kept[n], n)}
<1>3. 0 \in Good
  <2>1. Len(<<>>) = 0 /\ <<>> \in Seq(S)
    OBVIOUS
  <2>2. Short(<<>>, 0) /\ Single(<<>>, 0) /\ Full(<<>>, 0)
    BY <2>1
  <2>3. kept[0] = <<>>
    BY <1>2
  <2> HIDE DEF Short, Single, Full
  <2> QED
    BY <2>2, <2>3
<1>4. ASSUME NEW n \in Nat, n \in Good PROVE n + 1 \in Good
  <2> DEFINE r == kept[n]
             e == q[n + 1]
  <2> HIDE DEF Short, Single, Full
  <2>1. SUFFICES ASSUME n + 1 <= N
                 PROVE  /\ Short(kept[n + 1], n + 1) /\ Single(kept[n + 1], n + 1)
                        /\ Full(kept[n + 1], n + 1)
    OBVIOUS
  <2> USE DEF Short, Single, Full
  <2>2. /\ Short(r, n) /\ Single(r, n) /\ Full(r, n)
        /\ n + 1 \in 1 .. N /\ (n + 1) - 1 = n
    BY <1>1, <1>4, <2>1
  <2>3. kept[n + 1] = IF e \in T THEN Append(r, e) ELSE r
    BY <1>2, <2>2
  <2>4. e \in S /\ r \in Seq(S) /\ Len(r) \in Nat
    BY <1>1, <2>2
  <2> HIDE DEF r, e, Good
  <2>5. \A d : From(d, n) => From(d, n + 1)
    OBVIOUS
  <2>6. \A c, d : Apart(c, d, n) => Apart(c, d, n + 1)
    OBVIOUS
  <2>7. CASE e \in T
    <3> DEFINE new == Append(r, e)
    <3>1. /\ new \in Seq(S) /\ Len(new) = Len(r) + 1
          /\ \A i \in 1 .. Len(r) : new[i] = r[i]
          /\ new[Len(r) + 1] = e
      BY <2>4, AppendProperties
    <3>2. \A i \in 1 .. Len(new) : i \in 1 .. Len(r) \/ i = Len(r) + 1
      BY <2>4, <3>1
    <3> HIDE DEF new
    <3>3. From(e, n + 1)
      BY <2>7 DEF e
    <3>4. Short(new, n + 1)
      <4> HIDE DEF From
      <4>1. \A i \in 1 .. Len(new) : From(new[i], n + 1)
        BY <2>2, <2>5, <3>1, <3>2, <3>3
      <4>2. Len(new) <= n + 1
        BY <2>2, <2>4, <3>1
      <4> QED
        BY <3>1, <4>1, <4>2
    <3>5. ASSUME NEW i \in 1 .. Len(r) PROVE Apart(r[i], e, n + 1) /\ Apart(e, r[i], n + 1)
      <4>1. PICK j \in 1 .. n : r[i] = q[j]
        BY <2>2, <3>5
      <4>2. j \in 1 .. n + 1 /\ n + 1 \in 1 .. n + 1 /\ j # n + 1
        OBVIOUS
      <4> QED
        BY <4>1, <4>2 DEF e
    <3>6. Single(new, n + 1)
      <4> HIDE DEF Apart
      <4> QED
        BY <2>2, <2>6, <3>1, <3>2, <3>5
    <3>7. Full(new, n + 1)
      <4> SUFFICES ASSUME NEW j \in 1 .. n + 1, q[j] \in T
                   PROVE  \E i \in 1 .. Len(new) : new[i] = q[j]
        OBVIOUS
      <4>1. 1 .. Len(r) \subseteq 1 .. Len(new) /\ Len(r) + 1 \in 1 .. Len(new)
        BY <2>4, <3>1
      <4>2. CASE j = n + 1
        BY <3>1, <4>1, <4>2 DEF e
      <4>3. CASE j \in 1 .. n
        <5>1. PICK i \in 1 .. Len(r) : r[i] = q[j]
          BY <2>2, <4>3
        <5> QED
          BY <3>1, <4>1, <5>1
      <4> QED
        BY <4>2, <4>3
    <3>8. kept[n + 1] = new
      BY <2>3, <2>7 DEF new
    <3> HIDE DEF Short, Single, Full
    <3> QED
      BY <3>4, <3>6, <3>7, <3>8
  <2>8. CASE e \notin T
    <3>1. Full(r, n + 1)
      <4>1. \A j \in 1 .. n + 1 : j \in 1 .. n \/ j = n + 1
        OBVIOUS
      <4> QED
        BY <2>2, <2>8, <4>1 DEF e
    <3>2. Single(r, n + 1)
      <4> HIDE DEF Apart
      <4> QED
        BY <2>2, <2>6
    <3>3. Short(r, n + 1)
      <4> HIDE DEF From
      <4> QED
        BY <2>2, <2>4, <2>5
    <3>4. kept[n + 1] = r
      BY <2>3, <2>8
    <3> HIDE DEF Short, Single, Full
    <3> QED
      BY <3>1, <3>2, <3>3, <3>4
  <2> QED
    BY <2>7, <2>8
<1> HIDE DEF Good
<1>5. N \in Good
  BY <1>1, <1>3, <1>4, SetNatInduction
<1> QED
  BY <1>1, <1>2, <1>5 DEF Good, N

\* Induction over sequences, stated with a set: what the empty sequence has, and one element
\* more never takes away, every sequence has.
LEMMA SeqInduction ==
  ASSUME NEW E, NEW P, <<>> \in P, \A q \in Seq(E) : q \in P => \A e \in E : Append(q, e) \in P
  PROVE  Seq(E) \subseteq P
<1> DEFINE S == {n \in Nat : \A q \in Seq(E) : Len(q) = n => q \in P}
<1>1. 0 \in S
  <2>1. ASSUME NEW q \in Seq(E), Len(q) = 0 PROVE q \in P
    BY <2>1, EmptySeq
  <2> QED
    BY <2>1
<1>2. ASSUME NEW n \in Nat, n \in S PROVE n + 1 \in S
  <2>1. ASSUME NEW q \in Seq(E), Len(q) = n + 1 PROVE q \in P
    <3> DEFINE r == SubSeq(q, 1, n)
               e == q[n + 1]
    <3>1. e \in E /\ \A i \in 1 .. n : q[i] \in E
      BY <2>1, ElementOfSeq
    <3>2. r \in Seq(E) /\ Len(r) = n /\ \A i \in 1 .. n : r[i] = q[i]
      BY <3>1, SubSeqProperties
    <3> HIDE DEF r, e
    <3>3. Append(r, e) \in Seq(E) /\ Len(Append(r, e)) = n + 1
          /\ (\A i \in 1 .. n : Append(r, e)[i] = r[i]) /\ Append(r, e)[n + 1] = e
      BY <3>1, <3>2, AppendProperties
    <3>4. Append(r, e) = q
      <4>1. \A i \in 1 .. n + 1 : i \in 1 .. n \/ i = n + 1
        OBVIOUS
      <4>2. \A i \in 1 .. n + 1 : Append(r, e)[i] = q[i]
        BY <3>2, <3>3, <4>1 DEF e
      <4> QED
        BY <2>1, <3>3, <4>2, SeqEqual
    <3>5. r \in P
      BY <1>2, <3>2
    <3> QED
      BY <3>1, <3>2, <3>4, <3>5
  <2> QED
    BY <2>1
<1> HIDE DEF S
<1>3. \A n \in Nat : n \in S
  BY <1>1, <1>2, SetNatInduction
<1> QED
  BY <1>3, LenProperties DEF S

(***************************************************************************)
(* How Among goes with the operators on sequences.                         *)
(***************************************************************************)
\* Of a sequence and one element more.
LEMMA AmongAppend ==
  ASSUME NEW S, NEW q \in Seq(S), NEW e \in S, NEW T
  PROVE  Among(Append(q, e), T) = IF e \in T THEN Append(Among(q, T), e) ELSE Among(q, T)
<1> DEFINE new == Append(q, e)
           N == Len(q)
<1>1. /\ N \in Nat /\ Len(new) = N + 1 /\ new[N + 1] = e /\ new \in Seq(S)
      /\ \A i \in 1 .. N : new[i] = q[i]
  BY AppendProperties
<1> HIDE DEF new
<1>2. PICK f : /\ Among(q, T) = f[N] /\ f[0] = <<>>
               /\ \A n \in 1 .. N : f[n] = IF q[n] \in T THEN Append(f[n - 1], q[n]) ELSE f[n - 1]
  BY AmongRuns
<1>3. PICK g : /\ Among(new, T) = g[Len(new)] /\ g[0] = <<>>
               /\ \A n \in 1 .. Len(new) :
                    g[n] = IF new[n] \in T THEN Append(g[n - 1], new[n]) ELSE g[n - 1]
  BY <1>1, AmongRuns
<1> DEFINE R == {n \in Nat : n <= N => g[n] = f[n]}
<1>4. 0 \in R
  BY <1>2, <1>3
<1>5. ASSUME NEW n \in Nat, n \in R PROVE n + 1 \in R
  <2>1. SUFFICES ASSUME n + 1 <= N PROVE g[n + 1] = f[n + 1]
    OBVIOUS
  <2>2. n + 1 \in 1 .. N /\ n + 1 \in 1 .. Len(new) /\ (n + 1) - 1 = n /\ g[n] = f[n]
    BY <1>1, <1>5, <2>1
  <2> QED
    BY <1>1, <1>2, <1>3, <2>2
<1> HIDE DEF R
<1>6. N \in R
  BY <1>1, <1>4, <1>5, SetNatInduction
<1>7. g[N] = f[N]
  BY <1>1, <1>6 DEF R
<1>8. N + 1 \in 1 .. Len(new) /\ (N + 1) - 1 = N
  BY <1>1
<1>9. g[N + 1] = IF e \in T THEN Append(g[N], e) ELSE g[N]
  BY <1>1, <1>3, <1>8
<1> QED
  BY <1>1, <1>2, <1>3, <1>7, <1>9 DEF new

\* Of nothing, nothing.
LEMMA AmongEmpty ==
  ASSUME NEW T
  PROVE  Among(<<>>, T) = <<>>
<1>1. <<>> \in Seq({}) /\ Len(<<>>) = 0
  OBVIOUS
<1>2. ASSUME NEW q \in Seq({}), Len(q) = 0 PROVE Len(Among(q, T)) = 0 /\ Among(q, T) \in Seq({})
  <2>1. Len(Among(q, T)) <= Len(q) /\ Among(q, T) \in Seq({})
    BY AmongProperties
  <2> QED
    BY <1>2, <2>1, LenProperties
<1>3. Len(Among(<<>>, T)) = 0 /\ Among(<<>>, T) \in Seq({})
  BY <1>1, <1>2
<1> QED
  BY <1>3, EmptySeq

\* One element more, at the end of two sequences.
LEMMA ConcatAppend ==
  ASSUME NEW S, NEW q \in Seq(S), NEW r \in Seq(S), NEW e \in S
  PROVE  q \o Append(r, e) = Append(q \o r, e)
<1> DEFINE w == q \o r
<1>1. <<e>> \in Seq(S) /\ w \in Seq(S)
  BY ConcatProperties
<1>2. Append(r, e) = r \o <<e>>
  BY AppendIsConcat
<1>3. (q \o r) \o <<e>> = q \o (r \o <<e>>)
  BY <1>1, ConcatAssociative
<1> HIDE DEF w
<1>4. Append(w, e) = w \o <<e>>
  BY <1>1, AppendIsConcat
<1> QED
  BY <1>2, <1>3, <1>4 DEF w

\* Of two sequences, one after the other.
LEMMA AmongConcat ==
  ASSUME NEW S, NEW q \in Seq(S), NEW r \in Seq(S), NEW T
  PROVE  Among(q \o r, T) = Among(q, T) \o Among(r, T)
<1> DEFINE P == {t \in Seq(S) : Among(q \o t, T) = Among(q, T) \o Among(t, T)}
<1>1. Among(q, T) \in Seq(S) /\ \A t \in Seq(S) : Among(t, T) \in Seq(S)
  BY AmongProperties
<1>2. <<>> \in P
  <2>1. <<>> \in Seq(S) /\ q \o <<>> = q
    BY ConcatEmptySeq
  <2>2. Among(q, T) \o <<>> = Among(q, T)
    BY <1>1, ConcatEmptySeq
  <2> QED
    BY <2>1, <2>2, AmongEmpty
<1>3. ASSUME NEW t \in Seq(S), t \in P, NEW e \in S PROVE Append(t, e) \in P
  <2>0. ASSUME NEW u \in Seq(S), NEW v \in Seq(S)
        PROVE  u \o v \in Seq(S) /\ Append(u \o v, e) = u \o Append(v, e)
    <3>1. u \o v \in Seq(S)
      BY ConcatProperties
    <3>2. u \o Append(v, e) = Append(u \o v, e)
      BY ConcatAppend
    <3> QED
      BY <3>1, <3>2
  <2>1. Append(t, e) \in Seq(S) /\ q \o Append(t, e) = Append(q \o t, e) /\ q \o t \in Seq(S)
    BY <2>0, AppendProperties
  <2>2. Among(q \o Append(t, e), T)
          = IF e \in T THEN Append(Among(q \o t, T), e) ELSE Among(q \o t, T)
    BY <2>1, AmongAppend
  <2>3. Among(Append(t, e), T) = IF e \in T THEN Append(Among(t, T), e) ELSE Among(t, T)
    BY AmongAppend
  <2>4. Append(Among(q, T) \o Among(t, T), e) = Among(q, T) \o Append(Among(t, T), e)
    BY <1>1, <2>0
  <2>5. Among(q \o t, T) = Among(q, T) \o Among(t, T)
    BY <1>3
  <2> QED
    BY <2>1, <2>2, <2>3, <2>4, <2>5
<1> HIDE DEF P
<1>4. Seq(S) \subseteq P
  BY <1>2, <1>3, SeqInduction
<1> QED
  BY <1>4 DEF P

\* Selecting twice.
LEMMA AmongAmong ==
  ASSUME NEW S, NEW q \in Seq(S), NEW T, NEW U
  PROVE  Among(Among(q, T), U) = Among(q, T \cap U)
<1> DEFINE P == {t \in Seq(S) : Among(Among(t, T), U) = Among(t, T \cap U)}
<1>1. <<>> \in P
  BY AmongEmpty
<1>2. ASSUME NEW t \in Seq(S), t \in P, NEW e \in S PROVE Append(t, e) \in P
  <2>1. Append(t, e) \in Seq(S) /\ Among(t, T) \in Seq(S)
    BY AmongProperties, AppendProperties
  <2>2. /\ Among(Append(t, e), T) = IF e \in T THEN Append(Among(t, T), e) ELSE Among(t, T)
        /\ Among(Append(t, e), T \cap U)
             = IF e \in T \cap U THEN Append(Among(t, T \cap U), e) ELSE Among(t, T \cap U)
        /\ Among(Append(Among(t, T), e), U)
             = IF e \in U THEN Append(Among(Among(t, T), U), e) ELSE Among(Among(t, T), U)
    BY <2>1, AmongAppend
  <2>3. Among(Among(t, T), U) = Among(t, T \cap U)
    BY <1>2
  <2>4. Among(Among(Append(t, e), T), U) = Among(Append(t, e), T \cap U)
    <3>1. CASE e \in T
      <4>1. Among(Append(t, e), T) = Append(Among(t, T), e)
        BY <2>2, <3>1
      <4>2. e \in T \cap U <=> e \in U
        BY <3>1
      <4>3. Among(Append(t, e), T \cap U)
              = IF e \in U THEN Append(Among(t, T \cap U), e) ELSE Among(t, T \cap U)
        BY <2>2, <4>2, Zenon
      <4>4. Among(Among(Append(t, e), T), U)
              = IF e \in U THEN Append(Among(Among(t, T), U), e) ELSE Among(Among(t, T), U)
        BY <2>2, <4>1, Zenon
      <4>5. CASE e \in U
        BY <2>3, <4>3, <4>4, <4>5
      <4>6. CASE e \notin U
        BY <2>3, <4>3, <4>4, <4>6
      <4> QED
        BY <4>5, <4>6
    <3>2. CASE e \notin T
      BY <2>2, <2>3, <3>2
    <3> QED
      BY <3>1, <3>2
  <2> QED
    BY <2>1, <2>4
<1> HIDE DEF P
<1>3. Seq(S) \subseteq P
  BY <1>1, <1>2, SeqInduction
<1> QED
  BY <1>3 DEF P

\* A selection that leaves nothing out is all there is; one that takes nothing is empty.
LEMMA AmongAllOrNone ==
  ASSUME NEW S, NEW q \in Seq(S), NEW T
  PROVE  /\ S \subseteq T => Among(q, T) = q
         /\ (\A i \in 1 .. Len(q) : q[i] \notin T) => Among(q, T) = <<>>
<1>1. ASSUME S \subseteq T PROVE Among(q, T) = q
  <2> DEFINE P == {t \in Seq(S) : Among(t, T) = t}
  <2>1. <<>> \in P
    BY AmongEmpty
  <2>2. ASSUME NEW t \in Seq(S), t \in P, NEW e \in S PROVE Append(t, e) \in P
    BY <1>1, <2>2, AmongAppend, AppendProperties
  <2> HIDE DEF P
  <2>3. Seq(S) \subseteq P
    BY <2>1, <2>2, SeqInduction
  <2> QED
    BY <2>3 DEF P
<1>2. ASSUME \A i \in 1 .. Len(q) : q[i] \notin T PROVE Among(q, T) = <<>>
  <2>1. Among(q, T) \in Seq(S)
    BY AmongProperties
  <2>2. ~ \E i \in 1 .. Len(Among(q, T)) : TRUE
    BY <1>2, AmongProperties
  <2>3. Len(Among(q, T)) = 0
    BY <2>1, <2>2, LenProperties
  <2> QED
    BY <2>1, <2>3, EmptySeq
<1> QED
  BY <1>1, <1>2

\* The sequence r begins as all of q.
Begins(q, r) == Len(q) <= Len(r) /\ \A i \in 1 .. Len(q) : q[i] = r[i]

\* What is selected of a beginning is the beginning of what is selected.
LEMMA BeginsProperties ==
  ASSUME NEW S, NEW q \in Seq(S), NEW r \in Seq(S)
  PROVE  /\ Begins(q, q) /\ Begins(q, q \o r)
         /\ Begins(q, r) => q = SubSeq(r, 1, Len(q))
         /\ \A t \in Seq(S) : Begins(q, r) /\ Begins(r, t) => Begins(q, t)
         /\ \A T : Begins(Among(q, T), Among(q \o r, T))
<1>1. ASSUME NEW s \in Seq(S), NEW t \in Seq(S) PROVE Begins(s, s) /\ Begins(s, s \o t)
  <2>1. Len(s) \in Nat /\ Len(t) \in Nat /\ Len(s \o t) = Len(s) + Len(t)
        /\ \A i \in 1 .. Len(s) + Len(t) : (s \o t)[i] = IF i <= Len(s) THEN s[i] ELSE t[i - Len(s)]
    BY ConcatProperties, LenProperties
  <2>2. \A i \in 1 .. Len(s) : i \in 1 .. Len(s) + Len(t) /\ i <= Len(s)
    BY <2>1
  <2> QED
    BY <2>1, <2>2 DEF Begins
<1>2. ASSUME Begins(q, r) PROVE q = SubSeq(r, 1, Len(q))
  <2>1. /\ Len(q) \in Nat /\ Len(r) \in Nat /\ 1 .. Len(q) \subseteq 1 .. Len(r)
        /\ \A i \in 1 .. Len(q) : r[i] \in S
    BY <1>2, ElementOfSeq DEF Begins
  <2>2. /\ SubSeq(r, 1, Len(q)) \in Seq(S) /\ Len(SubSeq(r, 1, Len(q))) = Len(q)
        /\ \A i \in 1 .. Len(q) : SubSeq(r, 1, Len(q))[i] = r[i]
    BY <2>1, SubSeqProperties
  <2> QED
    BY <1>2, <2>2, SeqEqual DEF Begins
<1>3. ASSUME NEW t \in Seq(S), Begins(q, r), Begins(r, t) PROVE Begins(q, t)
  <2>1. Len(q) \in Nat /\ Len(r) \in Nat /\ Len(t) \in Nat
    OBVIOUS
  <2> QED
    BY <1>3, <2>1 DEF Begins
<1>4. ASSUME NEW T PROVE Begins(Among(q, T), Among(q \o r, T))
  <2>1. Among(q, T) \in Seq(S) /\ Among(r, T) \in Seq(S)
    BY AmongProperties
  <2>2. Begins(Among(q, T), Among(q, T) \o Among(r, T))
    BY <1>1, <2>1
  <2>3. Among(q \o r, T) = Among(q, T) \o Among(r, T)
    BY AmongConcat
  <2> QED
    BY <2>2, <2>3, Zenon
<1> QED
  BY <1>1, <1>2, <1>3, <1>4

\* What two sequences begin with is the beginning of both, followed by the one or the other.
LEMMA BeginsConcat ==
  ASSUME NEW S, NEW w \in Seq(S), NEW q \in Seq(S), NEW r \in Seq(S), Begins(q, r)
  PROVE  Begins(w \o q, w \o r)
<1>1. /\ Len(w) \in Nat /\ Len(q) \in Nat /\ Len(r) \in Nat /\ Len(q) <= Len(r)
      /\ \A i \in 1 .. Len(q) : q[i] = r[i]
  BY LenProperties DEF Begins
<1>2. /\ Len(w \o q) = Len(w) + Len(q)
      /\ \A i \in 1 .. Len(w) + Len(q) : (w \o q)[i] = IF i <= Len(w) THEN w[i] ELSE q[i - Len(w)]
  BY ConcatProperties
<1>3. /\ Len(w \o r) = Len(w) + Len(r)
      /\ \A i \in 1 .. Len(w) + Len(r) : (w \o r)[i] = IF i <= Len(w) THEN w[i] ELSE r[i - Len(w)]
  BY ConcatProperties
<1> DEFINE a == w \o q
           c == w \o r
<1> HIDE DEF a, c
<1>4. ASSUME NEW i \in 1 .. Len(a) PROVE a[i] = c[i]
  <2>1. i \in 1 .. Len(w) + Len(q) /\ i \in 1 .. Len(w) + Len(r)
    BY <1>1, <1>2 DEF a
  <2>2. i <= Len(w) \/ i - Len(w) \in 1 .. Len(q)
    BY <1>1, <2>1
  <2> QED
    BY <1>1, <1>2, <1>3, <2>1, <2>2 DEF a, c
<1>5. Len(a) <= Len(c)
  BY <1>1, <1>2, <1>3 DEF a, c
<1> QED
  BY <1>4, <1>5 DEF Begins, a, c
=============================================================================
