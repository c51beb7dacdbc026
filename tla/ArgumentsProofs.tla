-------------------------- MODULE ArgumentsProofs ---------------------------
(* The command line of OpenFlux: the four invariants of TunnelArguments, for  *)
(* payloads of any length and whatever is typed into the form.                *)
(*                                                                            *)
(* NativeArgs.build() and Go's parser read a sequence and may skip an         *)
(* argument. What either makes of the arguments from one on is given by the   *)
(* next two, so the lemmas go through a sequence from its end.                *)
EXTENDS TunnelArguments, SequenceTheorems, WellFoundedInduction, TLAPS

\* Zenon proves a leaf unless it names another prover.
USE Zenon

\* Induction and recursion over numbers, as lemmas about sets and functions instead of
\* schemes: what a recursive function computes is proved by these.

\* A set with 0 and with the successor of each of its numbers holds all of them: the least
\* number outside would have its predecessor inside.
LEMMA Induction ==
  ASSUME NEW S, 0 \in S, \A n \in Nat : n \in S => n + 1 \in S
  PROVE  Nat \subseteq S
<1> SUFFICES ASSUME Nat \ S # {} PROVE FALSE
  OBVIOUS
<1>1. PICK x \in Nat \ S : \A y \in Nat \ S : <<y, x>> \notin OpToRel(<, Nat)
  BY NatLessThanWellFounded, WFMin
<1>2. x \in Nat /\ x # 0 /\ x - 1 \in Nat /\ x - 1 + 1 = x /\ x - 1 < x
  BY SMT
<1>3. <<x - 1, x>> \in OpToRel(<, Nat)
  BY <1>2 DEF OpToRel
<1>4. x - 1 \in S
  BY <1>1, <1>2, <1>3
<1> QED
  BY <1>1, <1>2, <1>4

\* Induction from the end of a sequence, where an element may go by the next two.
LEMMA InductionDown ==
  ASSUME NEW S, NEW n \in Nat, n + 1 \in S, n + 2 \in S,
         \A i \in 1 .. n : i + 1 \in S /\ i + 2 \in S => i \in S
  PROVE  1 .. n + 2 \subseteq S
<1> DEFINE T == {k \in Nat : k <= n => n + 1 - k \in S /\ n + 2 - k \in S}
<1>1. 0 \in T
  BY SMT
<1>2. ASSUME NEW k \in Nat, k \in T, k + 1 <= n
      PROVE  n + 1 - (k + 1) \in S /\ n + 2 - (k + 1) \in S
  <2>1. n - k \in 1 .. n /\ (n - k) + 1 = n + 1 - k /\ (n - k) + 2 = n + 2 - k
    BY SMT, <1>2
  <2>2. n + 1 - k \in S /\ n + 2 - k \in S
    BY SMT, <1>2
  <2>3. n - k \in S
    BY <2>1, <2>2
  <2>4. n + 1 - (k + 1) = n - k /\ n + 2 - (k + 1) = n + 1 - k
    BY SMT, <1>2
  <2> QED
    BY <2>2, <2>3, <2>4
<1>3. \A k \in Nat : k \in T => k + 1 \in T
  BY SMT, <1>2
<1> HIDE DEF T
<1>4. Nat \subseteq T
  BY <1>1, <1>3, Induction
<1>5. ASSUME NEW i \in 1 .. n PROVE i \in S
  <2>1. n + 1 - i \in Nat /\ n + 1 - i <= n /\ n + 1 - (n + 1 - i) = i
    BY SMT
  <2> QED
    BY SMT, <1>4, <2>1 DEF T
<1>6. \A i \in 1 .. n + 2 : i \in 1 .. n \/ i = n + 1 \/ i = n + 2
  BY SMT
<1> QED
  BY <1>5, <1>6

\* g is defined by recursion from n down to m, from base by step.
IsRecursiveDown(g, A, m, n, base, step) ==
  /\ g \in [m .. n + 2 -> A] /\ g[n + 1] = base /\ g[n + 2] = base
  /\ \A i \in m .. n : g[i] = step[<<i, g[i + 1], g[i + 2]>>]

\* Such a function exists, by induction from the end.
LEMMA RecursionDown ==
  ASSUME NEW A, NEW base \in A, NEW step, NEW n \in Nat,
         \A i \in 1 .. n, a, b \in A : step[<<i, a, b>>] \in A
  PROVE  \E g : IsRecursiveDown(g, A, 1, n, base, step)
<1> DEFINE S == {m \in Nat : m <= n + 1 => \E g : IsRecursiveDown(g, A, m, n, base, step)}
<1>1. n + 1 \in S
  <2> DEFINE g == [i \in n + 1 .. n + 2 |-> base]
  <2>1. IsRecursiveDown(g, A, n + 1, n, base, step)
    BY SMT DEF IsRecursiveDown
  <2> QED
    BY SMT, <2>1
<1>2. n + 2 \in S
  BY SMT
<1>3. ASSUME NEW m \in 1 .. n, m + 1 \in S PROVE m \in S
  <2>1. PICK g : IsRecursiveDown(g, A, m + 1, n, base, step)
    BY SMT, <1>3
  <2> DEFINE v == step[<<m, g[m + 1], g[m + 2]>>]
             h == [i \in m .. n + 2 |-> IF i = m THEN v ELSE g[i]]
  <2>2. v \in A
    <3>1. g[m + 1] \in A /\ g[m + 2] \in A
      BY SMT, <2>1 DEF IsRecursiveDown
    <3> QED
      BY <3>1
  <2>3. h \in [m .. n + 2 -> A]
    BY SMT, <2>1, <2>2 DEF IsRecursiveDown
  <2>4. h[m] = v /\ \A i \in m + 1 .. n + 2 : h[i] = g[i]
    BY SMT
  <2> HIDE DEF h
  <2>5. h[n + 1] = base /\ h[n + 2] = base
    BY SMT, <2>1, <2>4 DEF IsRecursiveDown
  <2>6. ASSUME NEW i \in m .. n PROVE h[i] = step[<<i, h[i + 1], h[i + 2]>>]
    <3>1. h[i + 1] = g[i + 1] /\ h[i + 2] = g[i + 2]
      BY SMT, <2>4
    <3>2. CASE i = m
      BY <2>4, <3>1, <3>2
    <3>3. CASE i # m
      <4>1. i \in m + 1 .. n /\ i \in m + 1 .. n + 2
        BY SMT, <3>3
      <4> QED
        BY <2>1, <2>4, <3>1, <4>1 DEF IsRecursiveDown
    <3> QED
      BY <3>2, <3>3
  <2>7. IsRecursiveDown(h, A, m, n, base, step)
    BY <2>3, <2>5, <2>6 DEF IsRecursiveDown
  <2> QED
    BY SMT, <2>7
<1> HIDE DEF S
<1>4. 1 .. n + 2 \subseteq S
  BY <1>1, <1>2, <1>3, InductionDown
<1> QED
  BY SMT, <1>4 DEF S

-----------------------------------------------------------------------------
Owned == OWNED_WITH_VALUE \cup OWNED_BOOLEAN

\* A step of the loop of NativeArgs.build(), with what is kept from the next argument on,
\* and from the one after it.
KeepArg(arg, next, afterNext) ==
  IF flagName(arg) \in OWNED_BOOLEAN THEN next
  ELSE IF flagName(arg) \in OWNED_WITH_VALUE THEN IF arg.eq THEN next ELSE afterNext
  ELSE <<arg>> \o next

IsKeptOf(kept, p) ==
  /\ kept[Len(p) + 1] = <<>> /\ kept[Len(p) + 2] = <<>>
  /\ \A i \in 1 .. Len(p) : kept[i] = KeepArg(p[i], kept[i + 1], kept[i + 2])

\* build() filters the payload from its end: what is kept from i on goes by what is kept from
\* i + 1 and i + 2 on.
LEMMA KeptUnfolds ==
  ASSUME NEW S, NEW p \in Seq(S)
  PROVE  \E kept : IsKeptOf(kept, p) /\ Kept(p) = kept[1]
<1> DEFINE A == Seq(S)
           n == Len(p)
           step == [x \in (1 .. n) \X A \X A |-> KeepArg(p[x[1]], x[2], x[3])]
<1>1. n \in Nat /\ <<>> \in A /\ \A i \in 1 .. n : p[i] \in S
  BY SMT
<1>2. ASSUME NEW i \in 1 .. n, NEW a \in A, NEW b \in A
      PROVE  step[<<i, a, b>>] = KeepArg(p[i], a, b) /\ step[<<i, a, b>>] \in A
  <2>1. step[<<i, a, b>>] = KeepArg(p[i], a, b)
    OBVIOUS
  <2>2. <<p[i]>> \o a \in A
    BY SMT, <1>1
  <2>3. KeepArg(p[i], a, b) \in A
    BY <2>2 DEF KeepArg
  <2> QED
    BY <2>1, <2>3
<1> HIDE DEF step, A
<1>3. PICK g : IsRecursiveDown(g, A, 1, n, <<>>, step)
  BY <1>1, <1>2, RecursionDown
<1>4. g \in [1 .. n + 2 -> A] /\ g[n + 1] = <<>> /\ g[n + 2] = <<>>
  BY <1>3 DEF IsRecursiveDown
<1>5. ASSUME NEW i \in 1 .. n PROVE g[i] = KeepArg(p[i], g[i + 1], g[i + 2])
  <2>1. i + 1 \in 1 .. n + 2 /\ i + 2 \in 1 .. n + 2
    BY SMT, <1>1
  <2>2. g[i + 1] \in A /\ g[i + 2] \in A
    BY <1>4, <2>1
  <2> QED
    BY <1>2, <1>3, <2>2 DEF IsRecursiveDown
<1> DEFINE Body(f, i) ==
             IF i > Len(p) THEN <<>>
             ELSE IF flagName(p[i]) \in OWNED_BOOLEAN THEN f[i + 1]
             ELSE IF flagName(p[i]) \in OWNED_WITH_VALUE
                  THEN f[IF p[i].eq THEN i + 1 ELSE i + 2]
             ELSE <<p[i]>> \o f[i + 1]
           kept[i \in 1 .. Len(p) + 2] ==
             IF i > Len(p) THEN <<>>
             ELSE IF flagName(p[i]) \in OWNED_BOOLEAN THEN kept[i + 1]
             ELSE IF flagName(p[i]) \in OWNED_WITH_VALUE
                  THEN kept[IF p[i].eq THEN i + 1 ELSE i + 2]
             ELSE <<p[i]>> \o kept[i + 1]
<1>6. ASSUME NEW f, NEW i \in 1 .. n PROVE Body(f, i) = KeepArg(p[i], f[i + 1], f[i + 2])
  <2>1. ~(i > Len(p))
    BY SMT, <1>1
  <2> QED
    BY <2>1 DEF KeepArg
<1>7. \A f : Body(f, n + 1) = <<>> /\ Body(f, n + 2) = <<>>
  BY SMT, <1>1
<1>8. \A i \in 1 .. n + 2 : i \in 1 .. n \/ i = n + 1 \/ i = n + 2
  BY SMT, <1>1
<1>9. g = [i \in 1 .. Len(p) + 2 |-> Body(g, i)]
  <2> HIDE DEF Body
  <2>1. \A i \in 1 .. n + 2 : g[i] = Body(g, i)
    BY <1>4, <1>5, <1>6, <1>7, <1>8
  <2> QED
    BY <1>4, <2>1
<1>10. kept = [i \in 1 .. Len(p) + 2 |-> Body(kept, i)]
  BY <1>9
<1>11. Kept(p) = kept[1]
  BY DEF Kept
<1>12. IsKeptOf(kept, p)
  <2> HIDE DEF kept, Body
  <2>1. \A i \in 1 .. n + 2 : kept[i] = Body(kept, i)
    BY <1>10
  <2>2. n + 1 \in 1 .. n + 2 /\ n + 2 \in 1 .. n + 2 /\ \A i \in 1 .. n : i \in 1 .. n + 2
    BY SMT, <1>1
  <2> QED
    BY <1>6, <1>7, <2>1, <2>2 DEF IsKeptOf
<1> QED
  BY <1>11, <1>12

\* No argument that is kept is a flag that the app owns.
Foreign(s) == \A k \in DOMAIN s : flagName(s[k]) \notin Owned

\* The elements of a sequence with one put in front.
LEMMA Prepended ==
  ASSUME NEW S, NEW x \in S, NEW s \in Seq(S)
  PROVE  /\ <<x>> \o s \in Seq(S) /\ Len(<<x>> \o s) = Len(s) + 1
         /\ (<<x>> \o s)[1] = x /\ \A k \in 1 .. Len(s) : (<<x>> \o s)[k + 1] = s[k]
         /\ DOMAIN (<<x>> \o s) = 1 .. Len(s) + 1 /\ DOMAIN s = 1 .. Len(s) /\ Len(s) \in Nat
         /\ \A k \in 1 .. Len(s) + 1 : k = 1 \/ (k - 1 \in 1 .. Len(s) /\ (<<x>> \o s)[k] = s[k - 1])
<1>1. <<x>> \in Seq(S) /\ Len(<<x>>) = 1 /\ <<x>>[1] = x /\ Len(s) \in Nat /\ DOMAIN s = 1 .. Len(s)
  BY SMT
<1> DEFINE o == <<x>>
<1> HIDE DEF o
<1>2. /\ o \o s \in Seq(S) /\ Len(o \o s) = 1 + Len(s)
      /\ \A k \in 1 .. 1 + Len(s) : (o \o s)[k] = IF k <= 1 THEN o[k] ELSE s[k - 1]
  BY <1>1, ConcatProperties DEF o
<1>3. DOMAIN (o \o s) = 1 .. Len(s) + 1
  BY SMT, <1>1, <1>2
<1>4. (o \o s)[1] = x /\ \A k \in 1 .. Len(s) : (o \o s)[k + 1] = s[k]
  BY SMT, <1>1, <1>2 DEF o
<1>5. \A k \in 1 .. Len(s) + 1 : k = 1 \/ (k - 1 \in 1 .. Len(s) /\ (o \o s)[k] = s[k - 1])
  BY SMT, <1>1, <1>2
<1> QED
  BY SMT, <1>1, <1>2, <1>3, <1>4, <1>5 DEF o

\* What build() keeps of a payload has no flag that the app owns, under either name.
LEMMA KeptIsForeign ==
  ASSUME NEW S, NEW p \in Seq(S)
  PROVE  Kept(p) \in Seq(S) /\ Foreign(Kept(p))
<1>1. PICK kept : IsKeptOf(kept, p) /\ Kept(p) = kept[1]
  BY KeptUnfolds
<1> DEFINE n == Len(p)
           T == {i \in 1 .. n + 2 : kept[i] \in Seq(S) /\ Foreign(kept[i])}
<1>2. n \in Nat /\ \A i \in 1 .. n : p[i] \in S
  BY SMT
<1>3. <<>> \in Seq(S) /\ Foreign(<<>>)
  BY SMT DEF Foreign
<1>4. n + 1 \in T /\ n + 2 \in T
  <2>1. kept[n + 1] = <<>> /\ kept[n + 2] = <<>>
    BY <1>1 DEF IsKeptOf
  <2>2. n + 1 \in 1 .. n + 2 /\ n + 2 \in 1 .. n + 2
    BY SMT, <1>2
  <2> QED
    BY <1>3, <2>1, <2>2
<1>5. ASSUME NEW i \in 1 .. n, i + 1 \in T, i + 2 \in T PROVE i \in T
  <2>1. kept[i] = KeepArg(p[i], kept[i + 1], kept[i + 2])
    BY <1>1 DEF IsKeptOf
  <2>2. CASE flagName(p[i]) \in Owned
    BY SMT, <1>2, <1>5, <2>1, <2>2 DEF KeepArg, Owned
  <2>3. CASE flagName(p[i]) \notin Owned
    <3> DEFINE s == kept[i + 1]
    <3>1. kept[i] = <<p[i]>> \o s
      BY <2>1, <2>3 DEF KeepArg, Owned
    <3>2. s \in Seq(S) /\ Foreign(s) /\ p[i] \in S
      BY <1>2, <1>5
    <3> HIDE DEF s
    <3>3. <<p[i]>> \o s \in Seq(S) /\ Foreign(<<p[i]>> \o s)
      <4> DEFINE q == <<p[i]>> \o s
      <4>1. /\ q \in Seq(S) /\ q[1] = p[i] /\ DOMAIN q = 1 .. Len(s) + 1 /\ DOMAIN s = 1 .. Len(s)
            /\ \A k \in 1 .. Len(s) + 1 : k = 1 \/ (k - 1 \in 1 .. Len(s) /\ q[k] = s[k - 1])
        BY SMT, <3>2, Prepended
      <4> HIDE DEF q
      <4>2. q \in Seq(S) /\ Foreign(q)
        BY <2>3, <3>2, <4>1 DEF Foreign
      <4> QED
        BY <4>2 DEF q
    <3>4. i \in 1 .. n + 2
      BY SMT, <1>2
    <3> QED
      BY <3>1, <3>3, <3>4
  <2> QED
    BY <2>2, <2>3
<1> HIDE DEF T
<1>6. 1 .. n + 2 \subseteq T
  BY <1>2, <1>4, <1>5, InductionDown
<1>7. 1 \in T
  BY SMT, <1>2, <1>6
<1> QED
  BY <1>1, <1>7 DEF T
-----------------------------------------------------------------------------
\* A step of Go's flag package, likewise.
GoStep(a, i, next, afterNext) ==
  IF ~a[i].flag THEN <<>>
  ELSE IF a[i].eq THEN <<<<Long(a[i].name), Word(a[i].val)>>>> \o next
  ELSE IF Long(a[i].name) \in Booleans THEN <<<<Long(a[i].name), Word("true")>>>> \o next
  ELSE IF i = Len(a) THEN <<<<"missing value", Empty>>>>
  ELSE <<<<Long(a[i].name), a[i + 1]>>>> \o afterNext

\* What it may find.
GoEntries(a) ==
  {<<Long(a[i].name), Word(a[i].val)>> : i \in DOMAIN a} \cup
  {<<Long(a[i].name), Word("true")>> : i \in DOMAIN a} \cup
  {<<Long(a[i].name), a[i + 1]>> : i \in DOMAIN a} \cup {<<"missing value", Empty>>}

IsFlagsOf(flags, a) ==
  /\ flags \in [1 .. Len(a) + 2 -> Seq(GoEntries(a))]
  /\ flags[Len(a) + 1] = <<>> /\ flags[Len(a) + 2] = <<>>
  /\ \A i \in 1 .. Len(a) : flags[i] = GoStep(a, i, flags[i + 1], flags[i + 2])

\* One step of Go's flag parser yields entries of the command line.
LEMMA GoStepIsTyped ==
  ASSUME NEW S, NEW a \in Seq(S), NEW i \in 1 .. Len(a),
         NEW next \in Seq(GoEntries(a)), NEW afterNext \in Seq(GoEntries(a))
  PROVE  GoStep(a, i, next, afterNext) \in Seq(GoEntries(a))
<1> DEFINE E == GoEntries(a)
<1>1. /\ <<Long(a[i].name), Word(a[i].val)>> \in E /\ <<Long(a[i].name), Word("true")>> \in E
      /\ <<"missing value", Empty>> \in E /\ <<Long(a[i].name), a[i + 1]>> \in E
  <2>1. i \in DOMAIN a
    BY SMT
  <2> QED
    BY <2>1 DEF GoEntries
<1> HIDE DEF E
<1>2. ASSUME NEW e \in E, NEW s \in Seq(E) PROVE <<e>> \o s \in Seq(E) /\ <<e>> \in Seq(E)
  BY SMT
<1>3. <<>> \in Seq(E) /\ next \in Seq(E) /\ afterNext \in Seq(E)
  BY SMT DEF E
<1>4. GoStep(a, i, next, afterNext) \in Seq(E)
  BY <1>1, <1>2, <1>3 DEF GoStep
<1> QED
  BY <1>4 DEF E

\* Go's parser read from the end of the command line.
LEMMA FlagsUnfold ==
  ASSUME NEW S, NEW a \in Seq(S)
  PROVE  \E flags : IsFlagsOf(flags, a) /\ GoFlags(a) = flags[1]
<1> DEFINE A == Seq(GoEntries(a))
           n == Len(a)
           step == [x \in (1 .. n) \X A \X A |-> GoStep(a, x[1], x[2], x[3])]
<1>1. n \in Nat /\ <<>> \in A
  BY SMT
<1>2. ASSUME NEW i \in 1 .. n, NEW b \in A, NEW c \in A
      PROVE  step[<<i, b, c>>] = GoStep(a, i, b, c) /\ step[<<i, b, c>>] \in A
  <2>1. step[<<i, b, c>>] = GoStep(a, i, b, c)
    OBVIOUS
  <2> QED
    BY <2>1, GoStepIsTyped
<1> HIDE DEF step, A
<1>3. PICK g : IsRecursiveDown(g, A, 1, n, <<>>, step)
  BY <1>1, <1>2, RecursionDown
<1>4. g \in [1 .. n + 2 -> A] /\ g[n + 1] = <<>> /\ g[n + 2] = <<>>
  BY <1>3 DEF IsRecursiveDown
<1>5. ASSUME NEW i \in 1 .. n PROVE g[i] = GoStep(a, i, g[i + 1], g[i + 2])
  <2>1. i + 1 \in 1 .. n + 2 /\ i + 2 \in 1 .. n + 2
    BY SMT, <1>1
  <2>2. g[i + 1] \in A /\ g[i + 2] \in A
    BY <1>4, <2>1
  <2> QED
    BY <1>2, <1>3, <2>2 DEF IsRecursiveDown
<1> DEFINE Body(f, i) ==
             IF i > Len(a) \/ ~a[IF i > Len(a) THEN 1 ELSE i].flag THEN <<>>
             ELSE LET m == Long(a[i].name)
                  IN  IF a[i].eq THEN <<<<m, Word(a[i].val)>>>> \o f[i + 1]
                      ELSE IF m \in Booleans THEN <<<<m, Word("true")>>>> \o f[i + 1]
                      ELSE IF i = Len(a) THEN <<<<"missing value", Empty>>>>
                      ELSE <<<<m, a[i + 1]>>>> \o f[i + 2]
           flags[i \in 1 .. Len(a) + 2] ==
             IF i > Len(a) \/ ~a[IF i > Len(a) THEN 1 ELSE i].flag THEN <<>>
             ELSE LET m == Long(a[i].name)
                  IN  IF a[i].eq THEN <<<<m, Word(a[i].val)>>>> \o flags[i + 1]
                      ELSE IF m \in Booleans THEN <<<<m, Word("true")>>>> \o flags[i + 1]
                      ELSE IF i = Len(a) THEN <<<<"missing value", Empty>>>>
                      ELSE <<<<m, a[i + 1]>>>> \o flags[i + 2]
<1>6. ASSUME NEW f, NEW i \in 1 .. n PROVE Body(f, i) = GoStep(a, i, f[i + 1], f[i + 2])
  <2>1. ~(i > Len(a))
    BY SMT, <1>1
  <2> QED
    BY <2>1 DEF GoStep
<1>7. \A f : Body(f, n + 1) = <<>> /\ Body(f, n + 2) = <<>>
  <2>1. n + 1 > Len(a) /\ n + 2 > Len(a)
    BY SMT, <1>1
  <2> QED
    BY <2>1
<1>8. \A i \in 1 .. n + 2 : i \in 1 .. n \/ i = n + 1 \/ i = n + 2
  BY SMT, <1>1
<1>9. g = [i \in 1 .. Len(a) + 2 |-> Body(g, i)]
  <2> HIDE DEF Body
  <2>1. \A i \in 1 .. n + 2 : g[i] = Body(g, i)
    BY <1>4, <1>5, <1>6, <1>7, <1>8
  <2> QED
    BY <1>4, <2>1
<1>10. flags = [i \in 1 .. Len(a) + 2 |-> Body(flags, i)]
  BY <1>9
<1>11. GoFlags(a) = flags[1]
  BY DEF GoFlags
<1>12. /\ flags[n + 1] = <<>> /\ flags[n + 2] = <<>>
       /\ \A i \in 1 .. n : flags[i] = GoStep(a, i, flags[i + 1], flags[i + 2])
  <2> HIDE DEF flags, Body
  <2>1. \A i \in 1 .. n + 2 : flags[i] = Body(flags, i)
    BY <1>10
  <2>2. n + 1 \in 1 .. n + 2 /\ n + 2 \in 1 .. n + 2 /\ \A i \in 1 .. n : i \in 1 .. n + 2
    BY SMT, <1>1
  <2> QED
    BY <1>6, <1>7, <2>1, <2>2
<1>13. DOMAIN flags = 1 .. n + 2 /\ flags = [i \in 1 .. n + 2 |-> flags[i]]
  <2> HIDE DEF flags, Body
  <2> QED
    BY <1>10
<1> HIDE DEF flags
<1> DEFINE T == {i \in 1 .. n + 2 : flags[i] \in A}
<1>14. 1 .. n + 2 \subseteq T
  <2>1. n + 1 \in T /\ n + 2 \in T
    <3>1. n + 1 \in 1 .. n + 2 /\ n + 2 \in 1 .. n + 2
      BY SMT, <1>1
    <3> QED
      BY <1>1, <1>12, <3>1
  <2>2. ASSUME NEW i \in 1 .. n, i + 1 \in T, i + 2 \in T PROVE i \in T
    <3>1. i \in 1 .. n + 2 /\ flags[i + 1] \in A /\ flags[i + 2] \in A
      BY SMT, <1>1, <2>2
    <3>2. GoStep(a, i, flags[i + 1], flags[i + 2]) \in A
      BY <1>2, <3>1
    <3> QED
      BY <1>12, <3>1, <3>2
  <2> HIDE DEF T
  <2> QED
    BY <1>1, <2>1, <2>2, InductionDown
<1>15. IsFlagsOf(flags, a)
  BY <1>12, <1>13, <1>14 DEF IsFlagsOf, A
<1> QED
  BY <1>11, <1>15

-----------------------------------------------------------------------------
OwnedLong == {"role", "inbound", "socks5", "encryption-key-file"}
ForeignEntries(f) == \A k \in DOMAIN f : f[k][1] \notin OwnedLong

\* A flag that the app does not own is no other spelling of one that it owns.
LEMMA ForeignName ==
  ASSUME NEW arg, arg.flag, flagName(arg) \notin Owned
  PROVE  Long(arg.name) \notin OwnedLong
  BY DEF flagName, Long, Owned, OWNED_WITH_VALUE, OWNED_BOOLEAN, OwnedLong

\* From where no argument is a flag of the app, Go finds none.
LEMMA ForeignFlags ==
  ASSUME NEW S, NEW a \in Seq(S), NEW flags, IsFlagsOf(flags, a), NEW m \in 1 .. Len(a) + 1,
         \A i \in m .. Len(a) : flagName(a[i]) \notin Owned
  PROVE  ForeignEntries(flags[m])
<1> DEFINE n == Len(a)
           E == GoEntries(a)
           T == {i \in 1 .. n + 2 : m <= i => ForeignEntries(flags[i])}
<1>1. n \in Nat /\ n + 1 \in 1 .. n + 2 /\ n + 2 \in 1 .. n + 2 /\ m \in 1 .. n + 2 /\ m <= m
  BY SMT
<1>2. /\ flags[n + 1] = <<>> /\ flags[n + 2] = <<>> /\ \A i \in 1 .. n + 2 : flags[i] \in Seq(E)
      /\ \A i \in 1 .. n : flags[i] = GoStep(a, i, flags[i + 1], flags[i + 2])
  BY DEF IsFlagsOf
<1>3. ForeignEntries(<<>>)
  BY SMT DEF ForeignEntries
<1>4. n + 1 \in T /\ n + 2 \in T
  BY <1>1, <1>2, <1>3
<1>5. ASSUME NEW e, e[1] \notin OwnedLong, NEW s \in Seq(E), ForeignEntries(s), NEW f, f = <<e>> \o s
      PROVE  ForeignEntries(f)
  <2> DEFINE U == E \cup {e}
  <2>1. e \in U /\ s \in Seq(U)
    BY SMT, <1>5
  <2> HIDE DEF U, E
  <2>2. /\ f[1] = e /\ DOMAIN f = 1 .. Len(s) + 1 /\ DOMAIN s = 1 .. Len(s)
        /\ \A k \in 1 .. Len(s) + 1 : k = 1 \/ (k - 1 \in 1 .. Len(s) /\ f[k] = s[k - 1])
    <3>1. /\ (<<e>> \o s)[1] = e /\ DOMAIN (<<e>> \o s) = 1 .. Len(s) + 1 /\ DOMAIN s = 1 .. Len(s)
          /\ \A k \in 1 .. Len(s) + 1 : k = 1 \/ (k - 1 \in 1 .. Len(s) /\ (<<e>> \o s)[k] = s[k - 1])
      BY SMT, <2>1, Prepended
    <3> QED
      BY <1>5, <3>1
  <2> QED
    BY <1>5, <2>2 DEF ForeignEntries
<1>6. ASSUME NEW i \in 1 .. n, i + 1 \in T, i + 2 \in T, m <= i PROVE ForeignEntries(flags[i])
  <2>1. /\ i + 1 \in 1 .. n + 2 /\ i + 2 \in 1 .. n + 2 /\ m <= i + 1 /\ m <= i + 2
        /\ i \in m .. Len(a)
    BY SMT, <1>1, <1>6
  <2>2. /\ flags[i + 1] \in Seq(E) /\ ForeignEntries(flags[i + 1])
        /\ flags[i + 2] \in Seq(E) /\ ForeignEntries(flags[i + 2])
    BY <1>2, <1>6, <2>1
  <2> DEFINE l == Long(a[i].name)
             r == flags[i + 1]
             q == flags[i + 2]
             v == Word(a[i].val)
             u == Word("true")
             w == a[i + 1]
             x == Empty
  <2>3. a[i].flag => l \notin OwnedLong
    BY <2>1, ForeignName
  <2>4. flags[i] = GoStep(a, i, r, q)
    BY <1>2
  <2>5. \/ flags[i] = <<>>
        \/ a[i].flag /\ flags[i] = <<<<l, v>>>> \o r
        \/ a[i].flag /\ flags[i] = <<<<l, u>>>> \o r
        \/ flags[i] = <<<<"missing value", x>>>>
        \/ a[i].flag /\ flags[i] = <<<<l, w>>>> \o q
    BY <2>4 DEF GoStep
  <2> HIDE DEF l, r, q, v, u, w, x
  <2>6. \A y : <<l, y>>[1] = l /\ <<"missing value", y>>[1] = "missing value"
    OBVIOUS
  <2>7. "missing value" \notin OwnedLong
    BY DEF OwnedLong
  <2>8. ForeignEntries(<<<<"missing value", x>>>>)
    <3> DEFINE y == <<"missing value", x>>
    <3>1. y[1] \notin OwnedLong
      BY <2>6, <2>7
    <3> HIDE DEF y
    <3>2. DOMAIN <<y>> = {1} /\ <<y>>[1] = y
      BY SMT
    <3>3. ForeignEntries(<<y>>)
      BY <3>1, <3>2 DEF ForeignEntries
    <3> QED
      BY <3>3 DEF y
  <2>9. r \in Seq(E) /\ ForeignEntries(r) /\ q \in Seq(E) /\ ForeignEntries(q)
    BY <2>2 DEF r, q
  <2>10. CASE a[i].flag /\ flags[i] = <<<<l, v>>>> \o r
    BY <1>5, <2>3, <2>6, <2>9, <2>10
  <2>11. CASE a[i].flag /\ flags[i] = <<<<l, u>>>> \o r
    BY <1>5, <2>3, <2>6, <2>9, <2>11
  <2>12. CASE a[i].flag /\ flags[i] = <<<<l, w>>>> \o q
    BY <1>5, <2>3, <2>6, <2>9, <2>12
  <2> QED
    BY <1>3, <2>5, <2>8, <2>10, <2>11, <2>12
<1>7. ASSUME NEW i \in 1 .. n, i + 1 \in T, i + 2 \in T PROVE i \in T
  <2>1. i \in 1 .. n + 2
    BY SMT, <1>1
  <2> QED
    BY <1>6, <1>7, <2>1
<1> HIDE DEF T
<1>8. 1 .. n + 2 \subseteq T
  BY <1>1, <1>4, <1>7, InductionDown
<1> QED
  BY <1>1, <1>8 DEF T

-----------------------------------------------------------------------------
\* The value of a flag that is given once.
LEMMA GivenOnce ==
  ASSUME NEW a, NEW n, NEW k \in Nat, k \in DOMAIN GoFlags(a), GoFlags(a)[k][1] = n,
         \A j \in DOMAIN GoFlags(a) : j # k => GoFlags(a)[j][1] # n
  PROVE  GoValue(a, n) = GoFlags(a)[k][2]
<1> DEFINE f == GoFlags(a)
           given == {i \in DOMAIN f : f[i][1] = n}
<1>1. given = {k}
  OBVIOUS
<1>2. k <= k
  BY SMT
<1>3. (CHOOSE i \in given : \A j \in given : j <= i) = k
  BY <1>1, <1>2
<1> QED
  BY <1>1, <1>3 DEF GoValue

\* A flag that is not on the command line has no value.
LEMMA NotGiven ==
  ASSUME NEW a, NEW n, \A j \in DOMAIN GoFlags(a) : GoFlags(a)[j][1] # n
  PROVE  GoValue(a, n) = Empty
  BY DEF GoValue

\* The parts of a flag and of a word.
LEMMA ArgFields ==
  ASSUME NEW n
  PROVE  /\ Flag(n).flag /\ ~Flag(n).eq /\ Flag(n).name = n /\ Flag(n).val = ""
         /\ ~Word(n).flag /\ ~Word(n).eq /\ Word(n).name = n
  BY DEF Flag, Word

\* A flag with a value.
LEMMA GoTakes ==
  ASSUME NEW a, NEW flags, IsFlagsOf(flags, a), NEW i \in 1 .. Len(a), i # Len(a),
         NEW n, a[i] = Flag(n), Long(n) \notin Booleans
  PROVE  flags[i] = <<<<Long(n), a[i + 1]>>>> \o flags[i + 2]
<1>1. flags[i] = GoStep(a, i, flags[i + 1], flags[i + 2])
  BY DEF IsFlagsOf
<1>2. a[i].flag /\ ~a[i].eq /\ a[i].name = n
  BY ArgFields
<1> QED
  BY <1>1, <1>2 DEF GoStep

\* The app writes its own flags by their long names, and each takes a value.
LEMMA OwnNamesAreLong ==
  \A n \in OwnedLong : Long(n) = n /\ Long(n) \notin Booleans
  BY DEF OwnedLong, Long, Booleans, OWNED_BOOLEAN

\* Go's parser takes an own flag with the argument behind it.
LEMMA GoTakesOwn ==
  ASSUME NEW a, NEW flags, IsFlagsOf(flags, a), NEW i \in 1 .. Len(a), i # Len(a),
         NEW n \in OwnedLong, a[i] = Flag(n), NEW j, j = i + 1, NEW k, k = i + 2
  PROVE  flags[i] = <<<<n, a[j]>>>> \o flags[k]
<1>1. Long(n) = n /\ Long(n) \notin Booleans
  BY OwnNamesAreLong
<1>2. flags[i] = <<<<Long(n), a[i + 1]>>>> \o flags[i + 2]
  BY SMT, <1>1, GoTakes
<1> QED
  BY <1>1, <1>2

\* Three entries before a sequence of them.
LEMMA Ahead ==
  ASSUME NEW E, NEW x \in E, NEW y \in E, NEW z \in E, NEW s \in Seq(E), NEW f,
         f = <<x>> \o (<<y>> \o (<<z>> \o s))
  PROVE  /\ f \in Seq(E) /\ Len(f) = Len(s) + 3 /\ DOMAIN f = 1 .. Len(s) + 3
         /\ DOMAIN s = 1 .. Len(s) /\ Len(s) \in Nat
         /\ f[1] = x /\ f[2] = y /\ f[3] = z /\ \A k \in 1 .. Len(s) : f[k + 3] = s[k]
<1> DEFINE r == <<z>> \o s
           q == <<y>> \o r
<1>1. /\ r \in Seq(E) /\ Len(r) = Len(s) + 1 /\ r[1] = z /\ DOMAIN s = 1 .. Len(s) /\ Len(s) \in Nat
      /\ \A k \in 1 .. Len(s) : r[k + 1] = s[k]
  BY SMT, Prepended
<1> HIDE DEF r
<1>2. /\ q \in Seq(E) /\ Len(q) = Len(r) + 1 /\ q[1] = y /\ \A k \in 1 .. Len(r) : q[k + 1] = r[k]
  BY SMT, <1>1, Prepended
<1> HIDE DEF q
<1>3. f = <<x>> \o q
  BY DEF q, r
<1>4. /\ f \in Seq(E) /\ Len(f) = Len(q) + 1 /\ f[1] = x /\ \A k \in 1 .. Len(q) : f[k + 1] = q[k]
      /\ DOMAIN f = 1 .. Len(q) + 1
  BY SMT, <1>2, <1>3, Prepended
<1>5. /\ Len(r) = Len(s) + 1 /\ Len(q) = Len(s) + 2 /\ Len(f) = Len(s) + 3
      /\ DOMAIN f = 1 .. Len(s) + 3
  BY SMT, <1>1, <1>2, <1>4
<1>6. f[2] = y /\ f[3] = z
  <2>1. 1 \in 1 .. Len(q) /\ 2 \in 1 .. Len(q) /\ 1 \in 1 .. Len(r) /\ 1 + 1 = 2 /\ 2 + 1 = 3
    BY SMT, <1>1, <1>5
  <2>2. f[1 + 1] = q[1] /\ f[2 + 1] = q[2] /\ q[1 + 1] = r[1]
    BY <1>2, <1>4, <2>1
  <2> QED
    BY <1>1, <1>2, <2>1, <2>2
<1>7. ASSUME NEW k \in 1 .. Len(s) PROVE f[k + 3] = s[k]
  <2>1. /\ k + 1 \in 1 .. Len(r) /\ k + 2 \in 1 .. Len(q)
        /\ k + 1 + 1 = k + 2 /\ k + 2 + 1 = k + 3
    BY SMT, <1>1, <1>5
  <2>2. r[k + 1] = s[k] /\ q[k + 1 + 1] = r[k + 1] /\ f[k + 2 + 1] = q[k + 2]
    BY <1>1, <1>2, <1>4, <2>1
  <2> QED
    BY <2>1, <2>2
<1> QED
  BY <1>1, <1>4, <1>5, <1>6, <1>7

\* The command line: the app's flags, and nothing of theirs behind them.
IsCommand(a, keyFile, m) ==
  /\ m = IF keyFile = Empty THEN 7 ELSE 9
  /\ m - 1 <= Len(a)
  /\ a[1] = Flag("role") /\ a[2] = Word("client") /\ a[3] = Flag("inbound") /\ a[4] = Word("socks5")
  /\ a[5] = Flag("socks5") /\ a[6] = SocksAddress
  /\ keyFile # Empty => a[7] = Flag("encryption-key-file") /\ a[8] = keyFile
  /\ \A i \in m .. Len(a) : flagName(a[i]) \notin Owned

\* After its first d arguments, the command line is the sequence s.
EndsWith(a, d, s) == Len(a) = d + Len(s) /\ \A k \in 1 .. Len(s) : a[d + k] = s[k]

\* build() puts the app's flags first and ends with what it kept.
LEMMA BuiltIsCommand ==
  ASSUME NEW S, NEW p \in Seq(S), NEW keyFile, NEW a, a = build(p, SocksAddress, keyFile)
  PROVE  /\ \E T : a \in Seq(T)
         /\ IsCommand(a, keyFile, IF keyFile = Empty THEN 7 ELSE 9)
         /\ EndsWith(a, IF keyFile = Empty THEN 6 ELSE 8, Kept(p))
<1> DEFINE own == Own(SocksAddress, keyFile)
           kept == Kept(p)
           T == S \cup {own[i] : i \in DOMAIN own}
           m == IF keyFile = Empty THEN 6 ELSE 8
<1>1. kept \in Seq(S) /\ Foreign(kept)
  BY KeptIsForeign
<1>2. a = own \o kept
  BY DEF build
<1>3. /\ Len(own) = m /\ DOMAIN own = 1 .. m /\ own \in Seq({own[i] : i \in DOMAIN own})
      /\ own[1] = Flag("role") /\ own[2] = Word("client") /\ own[3] = Flag("inbound")
      /\ own[4] = Word("socks5") /\ own[5] = Flag("socks5") /\ own[6] = SocksAddress
      /\ keyFile # Empty => own[7] = Flag("encryption-key-file") /\ own[8] = keyFile
  <2>1. CASE keyFile = Empty
    <3>1. own = <<Flag("role"), Word("client"), Flag("inbound"), Word("socks5"), Flag("socks5"),
                  SocksAddress>> \o <<>>
      BY <2>1 DEF Own
    <3> HIDE DEF own
    <3> QED
      BY SMT, <2>1, <3>1
  <2>2. CASE keyFile # Empty
    <3>1. own = <<Flag("role"), Word("client"), Flag("inbound"), Word("socks5"), Flag("socks5"),
                  SocksAddress>> \o <<Flag("encryption-key-file"), keyFile>>
      BY <2>2 DEF Own
    <3> HIDE DEF own
    <3> QED
      BY SMT, <2>2, <3>1
  <2> QED
    BY <2>1, <2>2
<1> HIDE DEF own, kept, m
<1>4. own \in Seq(T) /\ kept \in Seq(T)
  BY SMTT(60), <1>1, <1>3
<1> HIDE DEF T
<1>5. /\ a \in Seq(T) /\ Len(a) = m + Len(kept) /\ Len(kept) \in Nat /\ DOMAIN kept = 1 .. Len(kept)
      /\ \A i \in 1 .. m + Len(kept) : a[i] = IF i <= m THEN own[i] ELSE kept[i - m]
  <2>1. /\ own \o kept \in Seq(T) /\ Len(own \o kept) = Len(own) + Len(kept)
        /\ \A i \in 1 .. Len(own) + Len(kept) :
             (own \o kept)[i] = IF i <= Len(own) THEN own[i] ELSE kept[i - Len(own)]
    BY <1>4, ConcatProperties
  <2>2. Len(kept) \in Nat /\ DOMAIN kept = 1 .. Len(kept)
    BY SMT, <1>4
  <2> QED
    BY <1>2, <1>3, <2>1, <2>2
<1>6. m \in {6, 8} /\ (keyFile = Empty => m = 6) /\ (keyFile # Empty => m = 8)
  BY DEF m
<1>7. \A i \in 1 .. m : a[i] = own[i]
  BY SMT, <1>5, <1>6
<1>8. ASSUME NEW i \in m + 1 .. Len(a) PROVE flagName(a[i]) \notin Owned
  <2>1. i - m \in DOMAIN kept /\ i \in 1 .. m + Len(kept) /\ ~(i <= m)
    BY SMT, <1>5, <1>6
  <2>2. a[i] = kept[i - m]
    BY <1>5, <2>1
  <2> QED
    BY <1>1, <2>1, <2>2 DEF Foreign
<1>9. m <= Len(a)
  BY SMT, <1>5, <1>6
<1>10. IsCommand(a, keyFile, IF keyFile = Empty THEN 7 ELSE 9)
  <2>1. CASE keyFile = Empty
    <3>1. m = 6 /\ 7 - 1 <= Len(a) /\ \A i \in 7 .. Len(a) : flagName(a[i]) \notin Owned
      BY SMT, <1>6, <1>8, <1>9, <2>1
    <3>2. a[1] = own[1] /\ a[2] = own[2] /\ a[3] = own[3] /\ a[4] = own[4] /\ a[5] = own[5] /\ a[6] = own[6]
      BY SMT, <1>7, <3>1
    <3> QED
      BY <1>3, <1>5, <2>1, <3>1, <3>2 DEF IsCommand
  <2>2. CASE keyFile # Empty
    <3>1. m = 8 /\ 9 - 1 <= Len(a) /\ \A i \in 9 .. Len(a) : flagName(a[i]) \notin Owned
      BY SMT, <1>6, <1>8, <1>9, <2>2
    <3>2. /\ a[1] = own[1] /\ a[2] = own[2] /\ a[3] = own[3] /\ a[4] = own[4] /\ a[5] = own[5]
          /\ a[6] = own[6] /\ a[7] = own[7] /\ a[8] = own[8]
      BY SMT, <1>7, <3>1
    <3> QED
      BY <1>3, <1>5, <2>2, <3>1, <3>2 DEF IsCommand
  <2> QED
    BY <2>1, <2>2
<1>11. ASSUME NEW k \in 1 .. Len(kept) PROVE a[m + k] = kept[k]
  <2>1. m + k \in 1 .. m + Len(kept) /\ ~(m + k <= m) /\ (m + k) - m = k
    BY SMT, <1>5, <1>6
  <2>2. a[m + k] = kept[(m + k) - m]
    BY <1>5, <2>1
  <2> QED
    BY <2>1, <2>2
<1>12. EndsWith(a, m, kept)
  BY <1>1, <1>5, <1>11 DEF EndsWith
<1>13. \E U : a \in Seq(U)
  BY <1>5
<1> QED
  BY <1>10, <1>12, <1>13 DEF kept, m

\* Go finds the app's flags, each once.
LEMMA CommandWins ==
  ASSUME NEW T, NEW a \in Seq(T), NEW keyFile,
         IsCommand(a, keyFile, IF keyFile = Empty THEN 7 ELSE 9)
  PROVE  /\ GoValue(a, "role") = Word("client") /\ GoValue(a, "inbound") = Word("socks5")
         /\ GoValue(a, "socks5") = SocksAddress
         /\ GoValue(a, "encryption-key-file") = keyFile
<1> DEFINE x == <<"role", a[2]>>
           y == <<"inbound", a[4]>>
           z == <<"socks5", a[6]>>
           f == GoFlags(a)
<1>1. PICK flags : IsFlagsOf(flags, a) /\ f = flags[1]
  BY FlagsUnfold
<1>2. /\ Len(a) \in Nat /\ 6 <= Len(a) /\ 1 \in 1 .. Len(a) /\ 3 \in 1 .. Len(a) /\ 5 \in 1 .. Len(a)
      /\ 1 # Len(a) /\ 3 # Len(a) /\ 5 # Len(a) /\ 7 \in 1 .. Len(a) + 2
      /\ 1 + 1 = 2 /\ 3 + 1 = 4 /\ 5 + 1 = 6 /\ 1 + 2 = 3 /\ 3 + 2 = 5 /\ 5 + 2 = 7
  BY SMT DEF IsCommand
<1>3. /\ "role" \in OwnedLong /\ "inbound" \in OwnedLong /\ "socks5" \in OwnedLong
      /\ "encryption-key-file" \in OwnedLong
      /\ a[1] = Flag("role") /\ a[3] = Flag("inbound") /\ a[5] = Flag("socks5")
  BY DEF IsCommand, OwnedLong
<1>4. flags[1] = <<x>> \o flags[3]
  BY SMT, <1>1, <1>2, <1>3, GoTakesOwn
<1>5. flags[3] = <<y>> \o flags[5]
  BY SMT, <1>1, <1>2, <1>3, GoTakesOwn
<1>6. flags[5] = <<z>> \o flags[7]
  BY SMT, <1>1, <1>2, <1>3, GoTakesOwn
<1> DEFINE s == flags[7]
           E == GoEntries(a) \cup {x, y, z}
<1>7. s \in Seq(E) /\ x \in E /\ y \in E /\ z \in E
  <2>1. s \in Seq(GoEntries(a))
    BY <1>1, <1>2 DEF IsFlagsOf
  <2> HIDE DEF s, x, y, z
  <2> QED
    BY SMT, <2>1
<1>8. /\ x[1] = "role" /\ x[2] = Word("client") /\ y[1] = "inbound" /\ y[2] = Word("socks5")
      /\ z[1] = "socks5" /\ z[2] = SocksAddress
  BY DEF IsCommand
<1>9. f = <<x>> \o (<<y>> \o (<<z>> \o s))
  BY <1>1, <1>4, <1>5, <1>6
<1> HIDE DEF x, y, z, s, E, f
<1>10. /\ DOMAIN f = 1 .. Len(s) + 3 /\ DOMAIN s = 1 .. Len(s) /\ Len(s) \in Nat
      /\ f[1] = x /\ f[2] = y /\ f[3] = z /\ \A k \in 1 .. Len(s) : f[k + 3] = s[k]
  BY SMT, <1>7, <1>9, Ahead
<1>11. \A j \in DOMAIN f : j \in {1, 2, 3} \/ (j - 3 \in DOMAIN s /\ f[j] = s[j - 3])
  BY SMT, <1>10
<1>12. 1 \in DOMAIN f /\ 2 \in DOMAIN f /\ 3 \in DOMAIN f
  BY SMT, <1>10
<1>13. /\ \A k \in DOMAIN s : s[k][1] \notin {"role", "inbound", "socks5"}
       /\ GoValue(a, "encryption-key-file") = keyFile
  <2>1. CASE keyFile = Empty
    <3>1. ForeignEntries(s)
      <4>1. 7 \in 1 .. Len(a) + 1 /\ \A i \in 7 .. Len(a) : flagName(a[i]) \notin Owned
        BY SMT, <1>2, <2>1 DEF IsCommand
      <4> QED
        BY <1>1, <4>1, ForeignFlags DEF s
    <3>2. \A j \in DOMAIN f : f[j][1] # "encryption-key-file"
      BY <1>8, <1>10, <1>11, <3>1 DEF ForeignEntries, OwnedLong
    <3> QED
      BY <2>1, <3>1, <3>2, NotGiven DEF ForeignEntries, OwnedLong, f
  <2>2. CASE keyFile # Empty
    <3> DEFINE w == <<"encryption-key-file", keyFile>>
               r == flags[9]
    <3>1. /\ 7 \in 1 .. Len(a) /\ 7 # Len(a) /\ 7 + 1 = 8 /\ 7 + 2 = 9 /\ 9 \in 1 .. Len(a) + 1
          /\ 9 \in 1 .. Len(a) + 2 /\ \A i \in 9 .. Len(a) : flagName(a[i]) \notin Owned
      <4>1. 9 - 1 <= Len(a) /\ \A i \in 9 .. Len(a) : flagName(a[i]) \notin Owned
        BY <2>2 DEF IsCommand
      <4>2. 9 - 1 <= Len(a)
        BY <4>1
      <4>3. /\ 7 \in 1 .. Len(a) /\ 7 # Len(a) /\ 7 + 1 = 8 /\ 7 + 2 = 9 /\ 9 \in 1 .. Len(a) + 1
            /\ 9 \in 1 .. Len(a) + 2
        <5> DEFINE l == Len(a)
        <5>1. l \in Nat /\ 9 - 1 <= l
          BY <1>2, <4>2
        <5> HIDE DEF l
        <5>2. /\ 7 \in 1 .. l /\ 7 # l /\ 7 + 1 = 8 /\ 7 + 2 = 9 /\ 9 \in 1 .. l + 1
              /\ 9 \in 1 .. l + 2
          BY SMT, <5>1
        <5> QED
          BY <5>2 DEF l
      <4> QED
        BY <4>1, <4>3
    <3>2. a[7] = Flag("encryption-key-file") /\ a[8] = keyFile
      BY <2>2 DEF IsCommand
    <3>3. s = <<w>> \o r
      BY SMT, <1>1, <1>3, <3>1, <3>2, GoTakesOwn DEF s
    <3>4. ForeignEntries(r) /\ r \in Seq(GoEntries(a))
      <4>1. ForeignEntries(r)
        BY <1>1, <3>1, ForeignFlags
      <4> QED
        BY <1>1, <3>1, <4>1 DEF IsFlagsOf
    <3>5. w[1] = "encryption-key-file" /\ w[2] = keyFile
      OBVIOUS
    <3> DEFINE U == GoEntries(a) \cup {w}
    <3>6. r \in Seq(U) /\ w \in U
      <4> HIDE DEF r, w
      <4> QED
        BY SMT, <3>4
    <3> HIDE DEF w, r, U
    <3>7. /\ s[1] = w /\ Len(s) = Len(r) + 1 /\ Len(r) \in Nat /\ DOMAIN r = 1 .. Len(r)
          /\ \A k \in 1 .. Len(r) + 1 : k = 1 \/ (k - 1 \in 1 .. Len(r) /\ s[k] = r[k - 1])
      BY SMT, <3>3, <3>6, Prepended
    <3>8. /\ f[4] = w /\ 4 \in DOMAIN f /\ 4 \in Nat
          /\ \A k \in DOMAIN s : s[k] = w \/ s[k][1] \notin OwnedLong
      <4>1. 1 \in 1 .. Len(s) /\ 1 + 3 = 4 /\ 4 \in 1 .. Len(s) + 3
        BY SMT, <3>7
      <4>2. f[4] = w
        BY <1>10, <3>7, <4>1
      <4> QED
        BY <1>10, <3>4, <3>7, <4>1, <4>2 DEF ForeignEntries
    <3>9. \A j \in DOMAIN f : j # 4 => f[j][1] # "encryption-key-file"
      <4> SUFFICES ASSUME NEW j \in DOMAIN f, j # 4, j \notin {1, 2, 3}
                   PROVE  f[j][1] # "encryption-key-file"
        BY <1>8, <1>10
      <4>1. j - 3 \in 1 .. Len(r) + 1 /\ j - 3 # 1 /\ f[j] = s[j - 3]
        BY SMT, <1>10, <1>11, <3>7
      <4>2. (j - 3) - 1 \in DOMAIN r /\ f[j] = r[(j - 3) - 1]
        BY <3>7, <4>1
      <4> QED
        BY <3>4, <4>2 DEF ForeignEntries, OwnedLong
    <3>10. GoValue(a, "encryption-key-file") = f[4][2]
      BY <3>5, <3>8, <3>9, GivenOnce DEF f
    <3> QED
      BY <3>5, <3>8, <3>10 DEF OwnedLong
  <2> QED
    BY <2>1, <2>2
<1>14. \A j \in DOMAIN f : j \notin {1, 2, 3} => f[j][1] \notin {"role", "inbound", "socks5"}
  BY <1>11, <1>13
<1>15. /\ \A j \in DOMAIN f : j # 1 => f[j][1] # "role"
       /\ \A j \in DOMAIN f : j # 2 => f[j][1] # "inbound"
       /\ \A j \in DOMAIN f : j # 3 => f[j][1] # "socks5"
  BY <1>8, <1>10, <1>14
<1>16. /\ f[1][1] = "role" /\ f[2][1] = "inbound" /\ f[3][1] = "socks5"
       /\ 1 \in Nat /\ 2 \in Nat /\ 3 \in Nat
  BY <1>8, <1>10
<1>17. /\ GoValue(a, "role") = f[1][2] /\ GoValue(a, "inbound") = f[2][2]
       /\ GoValue(a, "socks5") = f[3][2]
  BY <1>12, <1>15, <1>16, GivenOnce DEF f
<1> QED
  BY <1>8, <1>10, <1>13, <1>17

-----------------------------------------------------------------------------
\* What the states of TunnelArguments are made of.
ArgsInv ==
  /\ at \in {"form", "stored", "saved"}
  /\ at = "form" => form \in Form /\ edited = Blank /\ args = <<>>
  /\ at = "saved" => form \in Form /\ payload = buildForm(form) /\ payload # NoPayload
  /\ at = "stored" => payload \in Payloads
  /\ edited # Blank => edited = parse(form.transport, payload)
  /\ args # <<>> => at # "form" /\ args = build(payload, SocksAddress, keyPath)
  /\ shown = <<>> \/ (at # "form" /\ args = build(payload, SocksAddress, keyPath) /\ shown = redact(args))
  /\ keyPath \in {Empty, Word("key")}

\* The invariant holds throughout.
LEMMA ArgsInvariant == ArgsSpec => []ArgsInv
<1>1. ArgsInit => ArgsInv
  BY DEF ArgsInit, ArgsInv
<1>2. ArgsInv /\ [ArgsNext]_argsVars => ArgsInv'
  <2> SUFFICES ASSUME ArgsInv, [ArgsNext]_argsVars PROVE ArgsInv'
    OBVIOUS
  <2>1. CASE Save
    BY <2>1 DEF Save, ArgsInv
  <2>2. CASE Edit
    BY <2>2 DEF Edit, ArgsInv
  <2>3. CASE Start
    BY <2>3 DEF Start, ArgsInv
  <2>4. CASE UNCHANGED argsVars
    BY <2>4 DEF argsVars, ArgsInv
  <2> QED
    BY <2>1, <2>2, <2>3, <2>4 DEF ArgsNext
<1> QED
  BY <1>1, <1>2, PTL DEF ArgsSpec


\* What the form makes: eight shapes.
TransportArgs(f) ==
  IF usesUrl(f.transport) THEN <<Flag("url"), f.url>>
  ELSE <<Flag("maxToken"), f.maxToken, Flag("maxUid"), f.maxUid>>
Codec(f) == IF f.legacyCodec THEN <<Flag("codec"), Word("legacy")>> ELSE <<>>
Debug(f) == IF f.debug THEN <<Flag("debug")>> ELSE <<>>
Start4(f) == <<Flag("role"), Word("client"), Flag("transport"), Word(cliName[f.transport])>>
FormArgs(f) ==
  {Flag("role"), Word("client"), Flag("transport"), Word(cliName[f.transport]), Flag("url"), f.url,
   Flag("maxToken"), f.maxToken, Flag("maxUid"), f.maxUid, Flag("codec"), Word("legacy"), Flag("debug")}

\* The parts of a payload that a form is built into are sequences.
LEMMA FormParts ==
  ASSUME NEW f
  PROVE  /\ Start4(f) \in Seq(FormArgs(f)) /\ TransportArgs(f) \in Seq(FormArgs(f))
         /\ Codec(f) \in Seq(FormArgs(f)) /\ Debug(f) \in Seq(FormArgs(f))
<1> DEFINE F == FormArgs(f)
           w == Word(cliName[f.transport])
           u == f.url
           m == f.maxToken
           i == f.maxUid
<1>1. /\ Flag("role") \in F /\ Word("client") \in F /\ Flag("transport") \in F /\ w \in F
      /\ Flag("url") \in F /\ u \in F /\ Flag("maxToken") \in F /\ m \in F /\ Flag("maxUid") \in F
      /\ i \in F /\ Flag("codec") \in F /\ Word("legacy") \in F /\ Flag("debug") \in F
  BY DEF FormArgs
<1> HIDE DEF F, w, u, m, i
<1>2. <<Flag("role"), Word("client"), Flag("transport"), w>> \in Seq(F)
  BY SMT, <1>1
<1>3. <<Flag("url"), u>> \in Seq(F) /\ <<Flag("maxToken"), m, Flag("maxUid"), i>> \in Seq(F)
  BY SMT, <1>1
<1>4. /\ <<Flag("codec"), Word("legacy")>> \in Seq(F) /\ <<Flag("debug")>> \in Seq(F) /\ <<>> \in Seq(F)
  BY SMT, <1>1
<1> QED
  BY <1>2, <1>3, <1>4 DEF Start4, TransportArgs, Codec, Debug, F, w, u, m, i

\* The payload of a complete form is the concatenation of its parts.
LEMMA FormShape ==
  ASSUME NEW f, buildForm(f) # NoPayload
  PROVE  /\ Empty \notin Range(TransportArgs(f))
         /\ buildForm(f) = (Start4(f) \o TransportArgs(f)) \o (Codec(f) \o Debug(f))
<1>1. Empty \notin Range(TransportArgs(f)) /\ buildForm(f) = ((Start4(f) \o TransportArgs(f)) \o Codec(f)) \o Debug(f)
  BY DEF buildForm, TransportArgs, Start4, Codec, Debug
<1>2. Start4(f) \o TransportArgs(f) \in Seq(FormArgs(f))
  BY FormParts, ConcatProperties
<1> DEFINE h == Start4(f) \o TransportArgs(f)
           c == Codec(f)
           d == Debug(f)
<1>3. h \in Seq(FormArgs(f)) /\ c \in Seq(FormArgs(f)) /\ d \in Seq(FormArgs(f))
  BY <1>2, FormParts
<1> HIDE DEF h, c, d
<1>4. (h \o c) \o d = h \o (c \o d)
  BY SMT, <1>3, ConcatAssociative
<1> QED
  BY <1>1, <1>4 DEF h, c, d

\* It is a sequence of arguments.
LEMMA FormIsSequence ==
  ASSUME NEW f, buildForm(f) # NoPayload
  PROVE  buildForm(f) \in Seq(FormArgs(f))
<1>1. (Start4(f) \o TransportArgs(f)) \o (Codec(f) \o Debug(f)) \in Seq(FormArgs(f))
  BY FormParts, ConcatProperties
<1> QED
  BY <1>1, FormShape

\* Whatever a payload is, long and with all spellings of the app's flags, OpenFlux's flag
\* parser finds the app's values for the flags it owns.
THEOREM OwnFlagsWin == ArgsSpec => []AppFlagsWin
<1>1. ArgsInv => AppFlagsWin
  <2> SUFFICES ASSUME ArgsInv, args # <<>> PROVE AppFlagsWin
    BY DEF AppFlagsWin
  <2>1. at \in {"stored", "saved"} /\ args = build(payload, SocksAddress, keyPath)
    BY DEF ArgsInv
  <2>2. PICK S : payload \in Seq(S)
    BY <2>1, FormIsSequence, PayloadsAssumption DEF ArgsInv
  <2>3. (\E T : args \in Seq(T)) /\ IsCommand(args, keyPath, IF keyPath = Empty THEN 7 ELSE 9)
    BY <2>1, <2>2, BuiltIsCommand
  <2> QED
    BY <2>3, CommandWins DEF AppFlagsWin
<1> QED
  BY <1>1, ArgsInvariant, PTL

-----------------------------------------------------------------------------
\* The elements of what the form makes.
IsShape(p, f, m) ==
  /\ m = IF usesUrl(f.transport) THEN 6 ELSE 8
  /\ Len(p) = m + (IF f.legacyCodec THEN 2 ELSE 0) + (IF f.debug THEN 1 ELSE 0)
  /\ p[1] = Flag("role") /\ p[2] = Word("client") /\ p[3] = Flag("transport")
  /\ p[4] = Word(cliName[f.transport])
  /\ usesUrl(f.transport) => p[5] = Flag("url") /\ p[6] = f.url
  /\ ~usesUrl(f.transport) =>
       p[5] = Flag("maxToken") /\ p[6] = f.maxToken /\ p[7] = Flag("maxUid") /\ p[8] = f.maxUid
  /\ f.legacyCodec => p[m + 1] = Flag("codec") /\ p[m + 2] = Word("legacy")
  /\ f.debug => p[Len(p)] = Flag("debug")

\* It has the arguments of its parts at their places.
LEMMA FormHasShape ==
  ASSUME NEW f, buildForm(f) # NoPayload
  PROVE  IsShape(buildForm(f), f, IF usesUrl(f.transport) THEN 6 ELSE 8)
<1> DEFINE F == FormArgs(f)
           g == Start4(f)
           t == TransportArgs(f)
           c == Codec(f)
           d == Debug(f)
           m == IF usesUrl(f.transport) THEN 6 ELSE 8
           q == g \o t
           o == c \o d
           p == q \o o
<1>1. g \in Seq(F) /\ t \in Seq(F) /\ c \in Seq(F) /\ d \in Seq(F)
  BY FormParts
<1>2. buildForm(f) = p
  BY FormShape
<1>3. /\ Len(g) = 4 /\ g[1] = Flag("role") /\ g[2] = Word("client") /\ g[3] = Flag("transport")
      /\ g[4] = Word(cliName[f.transport])
  <2> DEFINE w == Word(cliName[f.transport])
  <2>1. g = <<Flag("role"), Word("client"), Flag("transport"), w>>
    BY DEF Start4
  <2> HIDE DEF w, g
  <2>2. Len(g) = 4 /\ g[1] = Flag("role") /\ g[2] = Word("client") /\ g[3] = Flag("transport") /\ g[4] = w
    BY <2>1
  <2> QED
    BY <2>2 DEF w
<1>4. /\ Len(t) = m - 4 /\ m \in {6, 8}
      /\ usesUrl(f.transport) => m = 6 /\ t[1] = Flag("url") /\ t[2] = f.url
      /\ ~usesUrl(f.transport) => /\ m = 8 /\ t[1] = Flag("maxToken") /\ t[2] = f.maxToken
                                  /\ t[3] = Flag("maxUid") /\ t[4] = f.maxUid
  <2>1. CASE usesUrl(f.transport)
    <3>1. t = <<Flag("url"), f.url>> /\ m = 6
      BY <2>1 DEF TransportArgs
    <3> HIDE DEF t, m
    <3> QED
      BY SMT, <2>1, <3>1
  <2>2. CASE ~usesUrl(f.transport)
    <3>1. t = <<Flag("maxToken"), f.maxToken, Flag("maxUid"), f.maxUid>> /\ m = 8
      BY <2>2 DEF TransportArgs
    <3> HIDE DEF t, m
    <3> QED
      BY SMT, <2>2, <3>1
  <2> QED
    BY <2>1, <2>2
<1>5. /\ Len(c) = (IF f.legacyCodec THEN 2 ELSE 0)
      /\ f.legacyCodec => c[1] = Flag("codec") /\ c[2] = Word("legacy")
  BY DEF Codec
<1>6. /\ Len(d) = (IF f.debug THEN 1 ELSE 0)
      /\ f.debug => d[1] = Flag("debug")
  BY DEF Debug
<1> HIDE DEF g, t, c, d, m, F
<1>7. /\ q \in Seq(F) /\ Len(q) = m /\ \A i \in 1 .. m : q[i] = IF i <= 4 THEN g[i] ELSE t[i - 4]
  <2>1. q \in Seq(F) /\ Len(q) = Len(g) + Len(t) /\ \A i \in 1 .. Len(g) + Len(t) :
          q[i] = IF i <= Len(g) THEN g[i] ELSE t[i - Len(g)]
    BY <1>1, ConcatProperties
  <2>2. Len(g) = 4 /\ Len(t) = m - 4 /\ m \in {6, 8}
    BY <1>3, <1>4
  <2>3. Len(g) + Len(t) = m
    BY SMT, <2>2
  <2> QED
    BY <2>1, <2>2, <2>3
<1>8. /\ o \in Seq(F) /\ Len(o) = Len(c) + Len(d)
      /\ \A i \in 1 .. Len(c) + Len(d) : o[i] = IF i <= Len(c) THEN c[i] ELSE d[i - Len(c)]
  BY <1>1, ConcatProperties
<1> HIDE DEF q, o
<1>9. /\ Len(p) = m + Len(o)
      /\ \A i \in 1 .. m + Len(o) : p[i] = IF i <= m THEN q[i] ELSE o[i - m]
  <2>1. /\ Len(p) = Len(q) + Len(o)
        /\ \A i \in 1 .. Len(q) + Len(o) : p[i] = IF i <= Len(q) THEN q[i] ELSE o[i - Len(q)]
    <3>1. q \in Seq(F) /\ o \in Seq(F)
      BY <1>7, <1>8
    <3> QED
      BY <3>1, ConcatProperties
  <2> QED
    BY <1>7, <2>1
<1> HIDE DEF p
<1>10. Len(o) \in Nat /\ Len(o) = (IF f.legacyCodec THEN 2 ELSE 0) + (IF f.debug THEN 1 ELSE 0)
  BY SMT, <1>5, <1>6, <1>8
<1>11. \A i \in 1 .. m : p[i] = IF i <= 4 THEN g[i] ELSE t[i - 4]
  BY SMTT(60), <1>4, <1>7, <1>9, <1>10
<1>12. /\ p[1] = g[1] /\ p[2] = g[2] /\ p[3] = g[3] /\ p[4] = g[4] /\ p[5] = t[1] /\ p[6] = t[2]
       /\ m = 8 => p[7] = t[3] /\ p[8] = t[4]
  BY SMT, <1>4, <1>11
<1>13. f.legacyCodec => p[m + 1] = c[1] /\ p[m + 2] = c[2]
  <2> SUFFICES ASSUME f.legacyCodec PROVE p[m + 1] = c[1] /\ p[m + 2] = c[2]
    OBVIOUS
  <2>1. o[1] = c[1] /\ o[2] = c[2] /\ Len(o) >= 2
    BY SMT, <1>5, <1>6, <1>8
  <2> QED
    BY SMT, <1>4, <1>9, <1>10, <2>1
<1>14. f.debug => p[m + Len(o)] = d[1]
  <2> SUFFICES ASSUME f.debug PROVE p[m + Len(o)] = d[1]
    OBVIOUS
  <2>1. o[Len(o)] = d[1] /\ Len(o) >= 1
    BY SMT, <1>5, <1>6, <1>8
  <2> QED
    BY SMT, <1>4, <1>9, <1>10, <2>1
<1>15. Len(p) = m + (IF f.legacyCodec THEN 2 ELSE 0) + (IF f.debug THEN 1 ELSE 0)
  BY SMT, <1>4, <1>9, <1>10
<1>16. IsShape(p, f, m)
  BY <1>3, <1>4, <1>5, <1>6, <1>9, <1>12, <1>13, <1>14, <1>15 DEF IsShape, m
<1> QED
  BY <1>2, <1>16 DEF m

\* The name flagName() gives a flag, and a word.
LEMMA NamesOfArgs ==
  ASSUME NEW n
  PROVE  flagName(Flag(n)) = n /\ flagName(Word(n)) = "not a flag"
  BY ArgFields DEF flagName

\* The places of a payload: six or eight arguments, the codec's two if any, debug if set.
LEMMA Places ==
  ASSUME NEW m \in {6, 8}, NEW x \in {0, 2}, NEW y \in {0, 1}, NEW j \in 1 .. m + x + y
  PROVE  \/ j \in {1, 2, 3, 4, 5, 6} \/ (m = 8 /\ j \in {7, 8})
         \/ (x = 2 /\ j \in {m + 1, m + 2}) \/ (y = 1 /\ j = m + x + y)
  BY SMT

\* Which of the form's flags stands where, if no value is spelled like one.
LEMMA FieldAt ==
  ASSUME NEW f, NEW p, NEW m, IsShape(p, f, m), f.legacyCodec \in BOOLEAN, f.debug \in BOOLEAN,
         \A v \in {f.url, f.maxToken, f.maxUid} : flagName(v) \notin FieldNames,
         NEW j \in 1 .. Len(p), NEW n \in FieldNames, flagName(p[j]) = n
  PROVE  \/ n = "url" /\ usesUrl(f.transport) /\ j = 5
         \/ n = "maxToken" /\ ~usesUrl(f.transport) /\ j = 5
         \/ n = "maxUid" /\ ~usesUrl(f.transport) /\ j = 7
         \/ n = "codec" /\ f.legacyCodec /\ j = m + 1
         \/ n = "debug" /\ f.debug /\ j = Len(p)
<1>1. /\ m \in {6, 8} /\ (usesUrl(f.transport) => m = 6) /\ (~usesUrl(f.transport) => m = 8)
      /\ Len(p) = m + (IF f.legacyCodec THEN 2 ELSE 0) + (IF f.debug THEN 1 ELSE 0)
  BY DEF IsShape
<1>2. \/ j \in {1, 2, 3, 4, 5, 6} \/ (m = 8 /\ j \in {7, 8})
      \/ (f.legacyCodec /\ j \in {m + 1, m + 2}) \/ (f.debug /\ j = Len(p))
  <2> DEFINE x == IF f.legacyCodec THEN 2 ELSE 0
             y == IF f.debug THEN 1 ELSE 0
             l == Len(p)
  <2>1. x \in {0, 2} /\ y \in {0, 1} /\ l = m + x + y /\ m \in {6, 8} /\ j \in 1 .. l
    BY <1>1
  <2>2. (x = 2 => f.legacyCodec) /\ (y = 1 => f.debug)
    BY SMT
  <2> HIDE DEF x, y, l
  <2>3. \/ j \in {1, 2, 3, 4, 5, 6} \/ (m = 8 /\ j \in {7, 8})
        \/ (x = 2 /\ j \in {m + 1, m + 2}) \/ (y = 1 /\ j = l)
    BY <2>1, Places
  <2> QED
    BY <2>3, <2>2 DEF l
<1>3. n \notin {"role", "transport", "not a flag"}
  BY DEF FieldNames
<1>4. CASE j \in {1, 2, 3, 4}
  <2>1. /\ flagName(p[1]) = "role" /\ flagName(p[2]) = "not a flag" /\ flagName(p[3]) = "transport"
        /\ flagName(p[4]) = "not a flag"
    BY NamesOfArgs DEF IsShape
  <2> QED
    BY <1>3, <1>4, <2>1
<1>5. CASE j = 5
  BY <1>5, NamesOfArgs DEF IsShape
<1>6. CASE j = 6
  BY <1>6 DEF IsShape
<1>7. CASE m = 8 /\ j \in {7, 8}
  <2>1. ~usesUrl(f.transport)
    BY SMT, <1>1, <1>7
  <2> QED
    BY <1>7, <2>1, NamesOfArgs DEF IsShape
<1>8. CASE f.legacyCodec /\ j \in {m + 1, m + 2}
  <2>1. flagName(p[m + 1]) = "codec" /\ flagName(p[m + 2]) = "not a flag"
    BY <1>8, NamesOfArgs DEF IsShape
  <2> QED
    BY <1>3, <1>8, <2>1
<1>9. CASE f.debug /\ j = Len(p)
  BY <1>9, NamesOfArgs DEF IsShape
<1> QED
  BY <1>2, <1>4, <1>5, <1>6, <1>7, <1>8, <1>9

\* TunnelPayload.value() of a flag that is given once, or never.
LEMMA ValueOfOne ==
  ASSUME NEW S, NEW p \in Seq(S), NEW n, NEW i \in 1 .. Len(p), i < Len(p), p[i] = Flag(n),
         \A j \in 1 .. Len(p) : flagName(p[j]) = n => j = i
  PROVE  value(p, n) = p[i + 1]
<1> DEFINE where == {j \in DOMAIN p : p[j].flag /\ p[j].name = n}
<1>1. \A j \in where : flagName(p[j]) = n
  BY DEF flagName
<1>2. p[i].flag /\ p[i].name = n /\ ~p[i].eq
  BY ArgFields
<1>3. DOMAIN p = 1 .. Len(p) /\ i <= i
  BY SMT
<1>4. where = {i}
  BY <1>1, <1>2, <1>3
<1> HIDE DEF where
<1>5. (CHOOSE k \in where : \A j \in where : k <= j) = i
  BY <1>3, <1>4
<1>6. where # {}
  BY <1>4
<1> QED
  BY <1>2, <1>5, <1>6 DEF value, where

\* value() and hasFlag() of a flag that the payload does not have.
LEMMA ValueOfNone ==
  ASSUME NEW S, NEW p \in Seq(S), NEW n, \A j \in 1 .. Len(p) : flagName(p[j]) # n
  PROVE  value(p, n) = Empty /\ ~hasFlag(p, n)
<1>1. DOMAIN p = 1 .. Len(p)
  BY SMT
<1>2. {j \in DOMAIN p : p[j].flag /\ p[j].name = n} = {}
  BY <1>1 DEF flagName
<1>3. Flag(n) \notin Range(p)
  BY <1>1, NamesOfArgs DEF Range
<1> QED
  BY <1>2, <1>3 DEF value, hasFlag

\* TransportType.from() inverts the name the form stores.
LEMMA FromIsInverse ==
  ASSUME NEW t \in Transports
  PROVE  from(t) = t
<1>1. \A u \in Transports : t \in {u, cliName[u]} => u = t
  BY DEF Transports, cliName
<1>2. (CHOOSE u \in Transports : t \in {u, cliName[u]}) = t
  BY <1>1
<1> QED
  BY <1>2 DEF from

\* Every field that parse() reads is the one that was built in.
LEMMA ParsedFields ==
  ASSUME NEW f \in Form, buildForm(f) # NoPayload,
         \A v \in {f.url, f.maxToken, f.maxUid} : flagName(v) \notin FieldNames
  PROVE  LET p == buildForm(f)
         IN  /\ value(p, "url") = IF usesUrl(f.transport) THEN f.url ELSE Empty
             /\ value(p, "maxToken") = IF usesUrl(f.transport) THEN Empty ELSE f.maxToken
             /\ value(p, "maxUid") = IF usesUrl(f.transport) THEN Empty ELSE f.maxUid
             /\ (value(p, "codec") = Word("legacy") \/ hasFlag(p, "legacy")) = f.legacyCodec
             /\ hasFlag(p, "debug") = f.debug
<1> DEFINE p == buildForm(f)
           m == IF usesUrl(f.transport) THEN 6 ELSE 8
           u == usesUrl(f.transport)
           Holds(n, j) == \/ n = "url" /\ u /\ j = 5
                          \/ n = "maxToken" /\ ~u /\ j = 5
                          \/ n = "maxUid" /\ ~u /\ j = 7
                          \/ n = "codec" /\ f.legacyCodec /\ j = m + 1
                          \/ n = "debug" /\ f.debug /\ j = Len(p)
<1>1. p \in Seq(FormArgs(f)) /\ IsShape(p, f, m)
  BY FormIsSequence, FormHasShape
<1>2. f.legacyCodec \in BOOLEAN /\ f.debug \in BOOLEAN
  BY DEF Form
<1>3. \A j \in 1 .. Len(p), n \in FieldNames : flagName(p[j]) = n => Holds(n, j)
  <2> HIDE DEF p, m
  <2> QED
    BY <1>1, <1>2, FieldAt
<1>4. /\ "url" \in FieldNames /\ "maxToken" \in FieldNames /\ "maxUid" \in FieldNames
      /\ "codec" \in FieldNames /\ "legacy" \in FieldNames /\ "debug" \in FieldNames
  BY DEF FieldNames
<1> HIDE DEF p, m
<1>5. /\ u => m = 6 /\ p[5] = Flag("url") /\ p[6] = f.url
      /\ ~u => /\ m = 8 /\ p[5] = Flag("maxToken") /\ p[6] = f.maxToken
               /\ p[7] = Flag("maxUid") /\ p[8] = f.maxUid
      /\ f.legacyCodec => p[m + 1] = Flag("codec") /\ p[m + 2] = Word("legacy")
      /\ f.debug => p[Len(p)] = Flag("debug")
  BY <1>1 DEF IsShape
<1>6. /\ m \in {6, 8} /\ m <= Len(p) /\ Len(p) \in Nat /\ (f.legacyCodec => m + 2 <= Len(p))
  <2>1. /\ m = IF u THEN 6 ELSE 8
        /\ Len(p) = m + (IF f.legacyCodec THEN 2 ELSE 0) + (IF f.debug THEN 1 ELSE 0)
    BY <1>1 DEF IsShape
  <2> QED
    BY SMT, <2>1
<1> HIDE DEF u
<1>7. ASSUME u PROVE value(p, "url") = f.url
  <2>1. 5 \in 1 .. Len(p) /\ 5 < Len(p) /\ 5 + 1 = 6
    BY SMT, <1>6
  <2>2. \A j \in 1 .. Len(p) : flagName(p[j]) = "url" => j = 5
    BY <1>3, <1>4
  <2>3. value(p, "url") = p[5 + 1]
    BY SMT, <1>1, <1>5, <1>7, <2>1, <2>2, ValueOfOne
  <2> QED
    BY <1>5, <1>7, <2>1, <2>3
<1>8. ASSUME ~u PROVE value(p, "maxToken") = f.maxToken
  <2>1. 5 \in 1 .. Len(p) /\ 5 < Len(p) /\ 5 + 1 = 6
    BY SMT, <1>6
  <2>2. \A j \in 1 .. Len(p) : flagName(p[j]) = "maxToken" => j = 5
    BY <1>3, <1>4
  <2>3. value(p, "maxToken") = p[5 + 1]
    BY SMT, <1>1, <1>5, <1>8, <2>1, <2>2, ValueOfOne
  <2> QED
    BY <1>5, <1>8, <2>1, <2>3
<1>9. ASSUME ~u PROVE value(p, "maxUid") = f.maxUid
  <2>1. m = 8
    BY <1>5, <1>9
  <2>2. 7 \in 1 .. Len(p) /\ 7 < Len(p) /\ 7 + 1 = 8
    BY SMT, <1>6, <2>1
  <2>3. \A j \in 1 .. Len(p) : flagName(p[j]) = "maxUid" => j = 7
    BY <1>3, <1>4
  <2>4. value(p, "maxUid") = p[7 + 1]
    BY SMT, <1>1, <1>5, <1>9, <2>2, <2>3, ValueOfOne
  <2> QED
    BY <1>5, <1>9, <2>2, <2>4
<1>10. ASSUME u PROVE value(p, "maxToken") = Empty /\ value(p, "maxUid") = Empty
  BY SMT, <1>1, <1>3, <1>4, <1>10, ValueOfNone
<1>11. ASSUME ~u PROVE value(p, "url") = Empty
  BY SMT, <1>1, <1>3, <1>4, <1>11, ValueOfNone
<1>12. ASSUME f.legacyCodec PROVE value(p, "codec") = Word("legacy")
  <2>1. m + 1 \in 1 .. Len(p) /\ m + 1 < Len(p) /\ (m + 1) + 1 = m + 2
    BY SMT, <1>6, <1>12
  <2>2. \A j \in 1 .. Len(p) : flagName(p[j]) = "codec" => j = m + 1
    BY <1>3, <1>4
  <2>3. p[m + 1] = Flag("codec") /\ p[m + 2] = Word("legacy")
    BY <1>5, <1>12
  <2>4. value(p, "codec") = p[(m + 1) + 1]
    BY SMT, <1>1, <2>1, <2>2, <2>3, ValueOfOne
  <2> QED
    BY <2>1, <2>3, <2>4
<1>13. ASSUME ~f.legacyCodec PROVE value(p, "codec") = Empty
  BY SMT, <1>1, <1>3, <1>4, <1>13, ValueOfNone
<1>14. ~hasFlag(p, "legacy")
  BY <1>1, <1>3, <1>4, ValueOfNone
<1>15. Empty # Word("legacy")
  <2>1. Word("").name = "" /\ Word("legacy").name = "legacy"
    BY ArgFields
  <2> QED
    BY <2>1 DEF Empty
<1>16. hasFlag(p, "debug") = f.debug
  <2>1. CASE f.debug
    <3>1. Len(p) \in DOMAIN p
      BY SMT, <1>1, <1>6
    <3>2. Flag("debug") \in Range(p)
      BY <1>5, <2>1, <3>1 DEF Range
    <3> QED
      BY <1>2, <2>1, <3>2 DEF hasFlag
  <2>2. CASE ~f.debug
    <3>1. ~hasFlag(p, "debug")
      BY SMT, <1>1, <1>3, <1>4, <2>2, ValueOfNone
    <3>2. f.debug = FALSE /\ hasFlag(p, "debug") = FALSE
      BY SMT, <1>2, <2>2, <3>1 DEF hasFlag
    <3> QED
      BY <3>2
  <2> QED
    BY <1>2, <2>1, <2>2
<1>17. (value(p, "codec") = Word("legacy") \/ hasFlag(p, "legacy")) = f.legacyCodec
  BY <1>2, <1>12, <1>13, <1>14, <1>15
<1> QED
  BY <1>7, <1>8, <1>9, <1>10, <1>11, <1>16, <1>17 DEF p, u

\* Used(f) with every field written out.
LEMMA UsedIs ==
  ASSUME NEW f \in Form
  PROVE  Used(f) =
           [transport |-> f.transport,
            url |-> IF usesUrl(f.transport) THEN f.url ELSE Empty,
            maxToken |-> IF usesUrl(f.transport) THEN Empty ELSE f.maxToken,
            maxUid |-> IF usesUrl(f.transport) THEN Empty ELSE f.maxUid,
            legacyCodec |-> f.legacyCodec, debug |-> f.debug]
<1>1. f = [transport |-> f.transport, url |-> f.url, maxToken |-> f.maxToken,
           maxUid |-> f.maxUid, legacyCodec |-> f.legacyCodec, debug |-> f.debug]
  BY DEF Form
<1>2. CASE usesUrl(f.transport)
  <2> DEFINE g == [f EXCEPT !.maxToken = Empty]
  <2>1. g = [transport |-> f.transport, url |-> f.url, maxToken |-> Empty,
             maxUid |-> f.maxUid, legacyCodec |-> f.legacyCodec, debug |-> f.debug]
    BY SMT, <1>1
  <2>2. [f EXCEPT !.maxToken = Empty, !.maxUid = Empty] = [g EXCEPT !.maxUid = Empty]
    OBVIOUS
  <2> HIDE DEF g
  <2>3. [g EXCEPT !.maxUid = Empty] =
          [transport |-> f.transport, url |-> f.url, maxToken |-> Empty, maxUid |-> Empty,
           legacyCodec |-> f.legacyCodec, debug |-> f.debug]
    BY SMT, <2>1
  <2> QED
    BY <1>2, <2>2, <2>3 DEF Used
<1>3. CASE ~usesUrl(f.transport)
  <2>1. [f EXCEPT !.url = Empty] =
          [transport |-> f.transport, url |-> Empty, maxToken |-> f.maxToken,
           maxUid |-> f.maxUid, legacyCodec |-> f.legacyCodec, debug |-> f.debug]
    BY SMT, <1>1
  <2> QED
    BY <1>3, <2>1 DEF Used
<1> QED
  BY <1>2, <1>3

\* parse() gives back what the form held, for every value that is not spelled like one of the
\* form's own flags.
THEOREM ParseInverts == ArgsSpec => []ParseInvertsBuild
<1>1. ArgsInv => ParseInvertsBuild
  <2> SUFFICES ASSUME ArgsInv, at = "saved", edited # Blank,
                      \A v \in Typed : flagName(v) \notin FieldNames
               PROVE  edited = Used(form)
    BY DEF ParseInvertsBuild
  <2> DEFINE p == buildForm(form)
             u == usesUrl(form.transport)
  <2>1. /\ form \in Form /\ p # NoPayload
        /\ edited = parse(form.transport, p)
    BY DEF ArgsInv
  <2>2. \A v \in {form.url, form.maxToken, form.maxUid} : flagName(v) \notin FieldNames
    BY DEF Typed
  <2>3. from(form.transport) = form.transport
    BY <2>1, FromIsInverse DEF Form
  <2>4. edited =
          [transport |-> form.transport,
           url |-> IF u THEN form.url ELSE Empty,
           maxToken |-> IF u THEN Empty ELSE form.maxToken,
           maxUid |-> IF u THEN Empty ELSE form.maxUid,
           legacyCodec |-> form.legacyCodec, debug |-> form.debug]
    BY <2>1, <2>2, <2>3, ParsedFields DEF parse
  <2> QED
    BY <2>1, <2>4, UsedIs
<1> QED
  BY <1>1, ArgsInvariant, PTL

ForeignFrom(p, m) == \A i \in m .. Len(p) : flagName(p[i]) \notin Owned
IsTailOf(s, p, m) ==
  Len(s) = Len(p) + 1 - m /\ \A k \in 1 .. Len(p) + 1 - m : s[k] = p[m + k - 1]

\* Where no argument is owned, the loop of build() keeps them all.
LEMMA KeptSuffix ==
  ASSUME NEW S, NEW p \in Seq(S), NEW kept, IsKeptOf(kept, p), NEW m \in 1 .. Len(p) + 1,
         ForeignFrom(p, m)
  PROVE  IsTailOf(kept[m], p, m)
<1> DEFINE n == Len(p)
           Is(s, i) == /\ s \in Seq(S) /\ Len(s) = n + 1 - i
                       /\ \A k \in 1 .. n + 1 - i : s[k] = p[i + k - 1]
           T == {i \in 1 .. n + 2 : m <= i /\ i <= n + 1 => Is(kept[i], i)}
<1>1. n \in Nat /\ (\A i \in 1 .. n : p[i] \in S) /\ n + 1 \in 1 .. n + 2 /\ n + 2 \in 1 .. n + 2
      /\ ~(n + 2 <= n + 1) /\ m \in 1 .. n + 2 /\ m <= m /\ m <= n + 1
  BY SMT
<1>2. kept[n + 1] = <<>> /\ \A i \in 1 .. n : kept[i] = KeepArg(p[i], kept[i + 1], kept[i + 2])
  BY DEF IsKeptOf
<1>3. Is(<<>>, n + 1)
  BY SMT, <1>1
<1>4. n + 1 \in T /\ n + 2 \in T
  BY <1>1, <1>2, <1>3
<1>5. ASSUME NEW i \in 1 .. n, i + 1 \in T PROVE i \in T
  <2> SUFFICES ASSUME m <= i PROVE Is(kept[i], i)
    BY SMT, <1>1
  <2> DEFINE s == kept[i + 1]
             x == p[i]
             q == <<x>> \o s
  <2>1. i \in m .. Len(p) /\ m <= i + 1 /\ i + 1 <= n + 1 /\ x \in S
    BY SMT, <1>1
  <2>2. Is(s, i + 1)
    BY <1>5, <2>1
  <2>3. kept[i] = q
    <3>1. flagName(p[i]) \notin Owned
      BY <2>1 DEF ForeignFrom
    <3> QED
      BY <1>2, <3>1 DEF KeepArg, Owned
  <2>4. s \in Seq(S) /\ Len(s) = n + 1 - (i + 1) /\ \A k \in 1 .. n + 1 - (i + 1) : s[k] = p[i + 1 + k - 1]
    BY <2>2
  <2> HIDE DEF s
  <2>5. /\ q \in Seq(S) /\ q[1] = x /\ Len(q) = Len(s) + 1
        /\ \A k \in 1 .. Len(s) + 1 : k = 1 \/ (k - 1 \in 1 .. Len(s) /\ q[k] = s[k - 1])
    BY SMT, <2>1, <2>4, Prepended
  <2> HIDE DEF q, n
  <2>6. Len(q) = n + 1 - i
    BY SMT, <1>1, <2>4, <2>5
  <2>7. ASSUME NEW k \in 1 .. n + 1 - i PROVE q[k] = p[i + k - 1]
    <3>1. CASE k = 1
      <4>1. i + k - 1 = i
        BY SMT, <3>1
      <4> QED
        BY <2>5, <3>1, <4>1
    <3>2. CASE k # 1
      <4>1. k - 1 \in 1 .. n + 1 - (i + 1) /\ i + 1 + (k - 1) - 1 = i + k - 1 /\ k \in 1 .. Len(s) + 1
        BY SMT, <1>1, <2>4, <3>2
      <4>2. q[k] = s[k - 1]
        BY <2>5, <3>2, <4>1
      <4>3. s[k - 1] = p[i + 1 + (k - 1) - 1]
        BY <2>4, <4>1
      <4> QED
        BY <4>1, <4>2, <4>3
    <3> QED
      BY <3>1, <3>2
  <2> QED
    BY <2>3, <2>5, <2>6, <2>7
<1> HIDE DEF T
<1>6. 1 .. n + 2 \subseteq T
  BY <1>1, <1>4, <1>5, InductionDown
<1> QED
  <2>1. Is(kept[m], m)
    BY <1>1, <1>6 DEF T
  <2> QED
    BY <2>1 DEF IsTailOf

\* The sequence of what Go finds, as a set.
LEMMA PrependedSet ==
  ASSUME NEW E, NEW x \in E, NEW s \in Seq(E)
  PROVE  Range(<<x>> \o s) = {x} \cup Range(s)
<1> DEFINE q == <<x>> \o s
<1>1. /\ q[1] = x /\ (\A k \in 1 .. Len(s) : q[k + 1] = s[k])
      /\ DOMAIN q = 1 .. Len(s) + 1 /\ DOMAIN s = 1 .. Len(s) /\ Len(s) \in Nat
      /\ \A k \in 1 .. Len(s) + 1 : k = 1 \/ (k - 1 \in 1 .. Len(s) /\ q[k] = s[k - 1])
  BY SMT, Prepended
<1>2. 1 \in DOMAIN q /\ \A k \in 1 .. Len(s) : k + 1 \in DOMAIN q
  BY SMT, <1>1
<1> HIDE DEF q
<1>3. ASSUME NEW y \in Range(q) PROVE y \in {x} \cup Range(s)
  <2>1. PICK k \in 1 .. Len(s) + 1 : y = q[k]
    BY <1>1, <1>3 DEF Range
  <2>2. k = 1 \/ (k - 1 \in 1 .. Len(s) /\ y = s[k - 1])
    BY <1>1, <2>1
  <2> QED
    BY <1>1, <2>1, <2>2 DEF Range
<1>4. ASSUME NEW y \in {x} \cup Range(s) PROVE y \in Range(q)
  <2>1. CASE y = x
    BY <1>1, <1>2, <2>1 DEF Range
  <2>2. CASE y \in Range(s)
    <3>1. PICK k \in 1 .. Len(s) : y = s[k]
      BY <1>1, <2>2 DEF Range
    <3>2. k + 1 \in DOMAIN q /\ q[k + 1] = y
      BY <1>1, <1>2, <3>1
    <3> QED
      BY <3>2 DEF Range
  <2> QED
    BY <1>4, <2>1, <2>2
<1>5. Range(q) = {x} \cup Range(s)
  BY <1>3, <1>4
<1> QED
  BY <1>5 DEF q

ValueNames == OwnedLong \cup {"transport", "url", "maxToken", "maxUid", "codec"}

\* A flag with a value adds its entry to those behind it.
LEMMA TakenSet ==
  ASSUME NEW T, NEW a \in Seq(T), NEW flags, IsFlagsOf(flags, a), NEW i \in 1 .. Len(a), i # Len(a),
         NEW n \in ValueNames, a[i] = Flag(n), NEW j, j = i + 1, NEW k, k = i + 2
  PROVE  Range(flags[i]) = {<<n, a[j]>>} \cup Range(flags[k])
<1> DEFINE x == <<n, a[j]>>
           s == flags[k]
           E == GoEntries(a) \cup {x}
<1>1. Long(n) = n /\ Long(n) \notin Booleans
  BY DEF ValueNames, OwnedLong, Long, Booleans, OWNED_BOOLEAN
<1>2. flags[i] = <<x>> \o s
  <2>1. flags[i] = <<<<Long(n), a[i + 1]>>>> \o flags[i + 2]
    BY <1>1, GoTakes
  <2> QED
    BY <1>1, <2>1
<1>3. k \in 1 .. Len(a) + 2
  BY SMT
<1>4. s \in Seq(GoEntries(a))
  BY <1>3 DEF IsFlagsOf
<1> HIDE DEF x, s
<1>5. x \in E /\ s \in Seq(E)
  BY SMT, <1>4
<1> HIDE DEF E
<1>6. Range(<<x>> \o s) = {x} \cup Range(s)
  BY <1>5, PrependedSet
<1> QED
  BY <1>2, <1>6 DEF x, s

\* --debug at the end of the command line is an entry of its own.
LEMMA DebugSet ==
  ASSUME NEW T, NEW a \in Seq(T), NEW flags, IsFlagsOf(flags, a), a # <<>>,
         a[Len(a)] = Flag("debug")
  PROVE  Range(flags[Len(a)]) = {<<"debug", Word("true")>>}
<1> DEFINE l == Len(a)
           x == <<"debug", Word("true")>>
<1>1. l \in 1 .. Len(a)
  BY SMT
<1>2. Long("debug") = "debug" /\ "debug" \in Booleans
  BY DEF Long, Booleans
<1>3. flags[l] = GoStep(a, l, flags[l + 1], flags[l + 2]) /\ flags[l + 1] = <<>>
  BY <1>1 DEF IsFlagsOf
<1>4. a[l].flag /\ ~a[l].eq /\ a[l].name = "debug"
  BY ArgFields
<1>5. flags[l] = <<x>> \o <<>>
  BY <1>2, <1>3, <1>4 DEF GoStep
<1> HIDE DEF x
<1>6. Range(<<x>> \o <<>>) = {x} \cup Range(<<>>)
  <2>1. x \in {x} /\ <<>> \in Seq({x})
    BY SMT
  <2> QED
    BY <2>1, PrependedSet
<1>7. Range(<<>>) = {}
  BY SMT DEF Range
<1> QED
  BY <1>5, <1>6, <1>7 DEF x, l

\* A finite set of numbers that is not empty has a greatest one: the last entry of a flag.
LEMMA Greatest ==
  ASSUME NEW n \in Nat, NEW G \in SUBSET (1 .. n), G # {}
  PROVE  \E i \in G : \A j \in G : j <= i
<1> DEFINE Has(H) == H # {} => \E i \in H : \A j \in H : j <= i
           S == {k \in Nat : \A H \in SUBSET (1 .. k) : Has(H)}
<1>1. 0 \in S
  <2>1. 1 .. 0 = {}
    BY SMT
  <2>2. \A H \in SUBSET (1 .. 0) : H = {}
    BY <2>1
  <2> QED
    BY <2>2
<1>2. ASSUME NEW k \in Nat, k \in S, NEW H \in SUBSET (1 .. k + 1), H # {}
      PROVE  \E i \in H : \A j \in H : j <= i
  <2>1. CASE k + 1 \in H
    <3>1. \A j \in H : j <= k + 1
      BY SMT
    <3> QED
      BY <2>1, <3>1
  <2>2. CASE k + 1 \notin H
    <3>1. H \in SUBSET (1 .. k)
      BY SMT, <2>2
    <3> QED
      BY <1>2, <3>1
  <2> QED
    BY <2>1, <2>2
<1>3. \A k \in Nat : k \in S => k + 1 \in S
  BY SMT, <1>2
<1> HIDE DEF S
<1>4. n \in S
  BY <1>1, <1>3, Induction
<1> QED
  BY <1>4 DEF S

\* What Go takes a flag to be, from the set of what it finds.
LEMMA GivenInSet ==
  ASSUME NEW a, NEW E, GoFlags(a) \in Seq(E), NEW n, NEW v, <<n, v>> \in Range(GoFlags(a)),
         \A e \in Range(GoFlags(a)) : e[1] = n => e[2] = v
  PROVE  GoValue(a, n) = v
<1> DEFINE f == GoFlags(a)
           G == {i \in DOMAIN f : f[i][1] = n}
           i == CHOOSE i \in G : \A j \in G : j <= i
<1>1. Len(f) \in Nat /\ DOMAIN f = 1 .. Len(f)
  BY SMT
<1>2. <<n, v>>[1] = n
  OBVIOUS
<1>3. \E j \in DOMAIN f : f[j] = <<n, v>>
  BY DEF Range
<1>4. G # {}
  BY <1>2, <1>3
<1>5. G \in SUBSET (1 .. Len(f))
  BY <1>1
<1>6. \E j \in G : \A k \in G : k <= j
  <2> HIDE DEF G, f
  <2> QED
    BY <1>1, <1>4, <1>5, Greatest
<1>7. i \in G
  BY <1>6
<1>8. f[i][2] = v
  BY <1>7 DEF Range
<1> QED
  BY <1>4, <1>8 DEF GoValue

\* The same over the set of entries.
LEMMA NotInSet ==
  ASSUME NEW a, NEW n, \A e \in Range(GoFlags(a)) : e[1] # n
  PROVE  GoValue(a, n) = Empty
<1>1. \A j \in DOMAIN GoFlags(a) : GoFlags(a)[j][1] # n
  BY DEF Range
<1> QED
  BY <1>1, NotGiven

-----------------------------------------------------------------------------
\* The command line of a form, from its d-th argument on.
IsFormCommand(a, f, d, m) ==
  /\ m = IF usesUrl(f.transport) THEN 6 ELSE 8
  /\ Len(a) = d + m - 2 + (IF f.legacyCodec THEN 2 ELSE 0) + (IF f.debug THEN 1 ELSE 0)
  /\ a[d + 1] = Flag("transport") /\ a[d + 2] = Word(cliName[f.transport])
  /\ usesUrl(f.transport) => a[d + 3] = Flag("url") /\ a[d + 4] = f.url
  /\ ~usesUrl(f.transport) =>
       /\ a[d + 3] = Flag("maxToken") /\ a[d + 4] = f.maxToken
       /\ a[d + 5] = Flag("maxUid") /\ a[d + 6] = f.maxUid
  /\ f.legacyCodec => a[d + m - 1] = Flag("codec") /\ a[d + m] = Word("legacy")
  /\ f.debug => a[Len(a)] = Flag("debug")

\* No value is spelled like a flag of the app.
NoneOwned(f) == \A v \in {f.url, f.maxToken, f.maxUid} : flagName(v) \notin Owned

\* Of what the form makes, only --role client is the app's, and dropped.
LEMMA FormIsForeign ==
  ASSUME NEW f, NEW p, NEW m, IsShape(p, f, m), f.legacyCodec \in BOOLEAN, f.debug \in BOOLEAN,
         NoneOwned(f)
  PROVE  ForeignFrom(p, 3)
<1> SUFFICES ASSUME NEW j \in 3 .. Len(p) PROVE flagName(p[j]) \notin Owned
  BY DEF ForeignFrom
<1> DEFINE x == IF f.legacyCodec THEN 2 ELSE 0
           y == IF f.debug THEN 1 ELSE 0
<1>1. /\ m \in {6, 8} /\ Len(p) = m + x + y /\ x \in {0, 2} /\ y \in {0, 1}
      /\ (x = 2 => f.legacyCodec) /\ (y = 1 => f.debug)
      /\ (m = 6 => usesUrl(f.transport)) /\ (m = 8 => ~usesUrl(f.transport))
  BY SMT DEF IsShape
<1>2. j \in 1 .. m + x + y /\ j # 1 /\ j # 2
  BY SMT, <1>1
<1>3. \/ j \in {3, 4, 5, 6} \/ (m = 8 /\ j \in {7, 8})
      \/ (x = 2 /\ j \in {m + 1, m + 2}) \/ (y = 1 /\ j = m + x + y)
  <2> HIDE DEF x, y
  <2>1. \/ j \in {1, 2, 3, 4, 5, 6} \/ (m = 8 /\ j \in {7, 8})
        \/ (x = 2 /\ j \in {m + 1, m + 2}) \/ (y = 1 /\ j = m + x + y)
    BY <1>1, <1>2, Places
  <2> QED
    BY <1>2, <2>1
<1>4. \A n \in {"transport", "url", "maxToken", "maxUid", "codec", "debug", "not a flag"} : n \notin Owned
  BY DEF Owned, OWNED_WITH_VALUE, OWNED_BOOLEAN
<1>5. /\ flagName(Flag("transport")) \notin Owned /\ flagName(Flag("url")) \notin Owned
      /\ flagName(Flag("maxToken")) \notin Owned /\ flagName(Flag("maxUid")) \notin Owned
      /\ flagName(Flag("codec")) \notin Owned /\ flagName(Flag("debug")) \notin Owned
      /\ flagName(Word("legacy")) \notin Owned /\ flagName(Word(cliName[f.transport])) \notin Owned
  <2> HIDE DEF x, y
  <2> QED
    BY <1>4, NamesOfArgs
<1> HIDE DEF x, y
<1>6. CASE j \in {3, 4, 5, 6}
  BY <1>1, <1>5, <1>6 DEF IsShape, NoneOwned
<1>7. CASE m = 8 /\ j \in {7, 8}
  BY <1>1, <1>5, <1>7 DEF IsShape, NoneOwned
<1>8. CASE x = 2 /\ j \in {m + 1, m + 2}
  BY <1>1, <1>5, <1>8 DEF IsShape
<1>9. CASE y = 1 /\ j = m + x + y
  BY <1>1, <1>5, <1>9 DEF IsShape
<1> QED
  BY <1>3, <1>6, <1>7, <1>8, <1>9

\* build() keeps all of a form's payload but its --role client.
LEMMA KeptOfForm ==
  ASSUME NEW f \in Form, buildForm(f) # NoPayload,
         NoneOwned(f)
  PROVE  LET p == buildForm(f)
         IN  /\ Len(p) \in Nat /\ Len(p) >= 6 /\ Len(Kept(p)) = Len(p) - 2
             /\ \A k \in 1 .. Len(p) - 2 : Kept(p)[k] = p[k + 2]
<1> DEFINE p == buildForm(f)
           m == IF usesUrl(f.transport) THEN 6 ELSE 8
<1>1. p \in Seq(FormArgs(f)) /\ IsShape(p, f, m)
  BY FormIsSequence, FormHasShape
<1>2. f.legacyCodec \in BOOLEAN /\ f.debug \in BOOLEAN
  BY DEF Form
<1> HIDE DEF p
<1>3. Len(p) \in Nat /\ Len(p) >= 6
  BY SMT, <1>1, <1>2 DEF IsShape
<1>4. ForeignFrom(p, 3)
  BY <1>1, <1>2, FormIsForeign
<1>5. PICK kept : IsKeptOf(kept, p) /\ Kept(p) = kept[1]
  BY <1>1, KeptUnfolds
<1>6. /\ 1 \in 1 .. Len(p) /\ 3 \in 1 .. Len(p) + 1 /\ Len(p) + 1 - 3 = Len(p) - 2 /\ 1 + 2 = 3
      /\ \A k \in 1 .. Len(p) - 2 : 3 + k - 1 = k + 2
  BY SMT, <1>3
<1>7. kept[1] = kept[3]
  <2>1. p[1] = Flag("role") /\ ~p[1].eq
    <3>1. p[1] = Flag("role")
      BY <1>1 DEF IsShape
    <3> QED
      BY <3>1, ArgFields
  <2>2. flagName(p[1]) \in OWNED_WITH_VALUE /\ flagName(p[1]) \notin OWNED_BOOLEAN
    BY <2>1, NamesOfArgs DEF OWNED_WITH_VALUE, OWNED_BOOLEAN
  <2>3. kept[1] = KeepArg(p[1], kept[1 + 1], kept[1 + 2])
    BY <1>5, <1>6 DEF IsKeptOf
  <2> QED
    BY <1>6, <2>1, <2>2, <2>3 DEF KeepArg
<1>8. IsTailOf(kept[3], p, 3)
  BY <1>1, <1>4, <1>5, <1>6, KeptSuffix
<1>9. Len(kept[3]) = Len(p) - 2 /\ \A k \in 1 .. Len(p) - 2 : kept[3][k] = p[k + 2]
  BY <1>6, <1>8 DEF IsTailOf
<1> QED
  BY <1>3, <1>5, <1>7, <1>9 DEF p

\* Behind the app's flags the command line has the form's arguments at their places.
LEMMA FormCommand ==
  ASSUME NEW f \in Form, buildForm(f) # NoPayload, NoneOwned(f),
         NEW d \in {6, 8}, NEW a, EndsWith(a, d, Kept(buildForm(f)))
  PROVE  IsFormCommand(a, f, d, IF usesUrl(f.transport) THEN 6 ELSE 8)
<1> DEFINE p == buildForm(f)
           m == IF usesUrl(f.transport) THEN 6 ELSE 8
           x == IF f.legacyCodec THEN 2 ELSE 0
           y == IF f.debug THEN 1 ELSE 0
           l == Len(p)
<1>1. IsShape(p, f, m) /\ m \in {6, 8} /\ x \in {0, 2} /\ y \in {0, 1}
  BY FormHasShape
<1>2. /\ l \in Nat /\ l >= 6 /\ Len(Kept(p)) = l - 2
      /\ \A k \in 1 .. l - 2 : Kept(p)[k] = p[k + 2]
  BY KeptOfForm
<1> HIDE DEF p
<1>3. Len(a) = d + (l - 2) /\ \A k \in 1 .. l - 2 : a[d + k] = p[k + 2]
  BY <1>2 DEF EndsWith, p
<1>4. l = m + x + y
  BY <1>1 DEF IsShape
<1> HIDE DEF m, x, y, l
<1>5. Len(a) = d + m - 2 + x + y
  BY SMT, <1>1, <1>3, <1>4
<1>6. a[d + 1] = p[3] /\ a[d + 2] = p[4] /\ a[d + 3] = p[5] /\ a[d + 4] = p[6]
  <2>1. /\ 1 \in 1 .. l - 2 /\ 2 \in 1 .. l - 2 /\ 3 \in 1 .. l - 2 /\ 4 \in 1 .. l - 2
        /\ 1 + 2 = 3 /\ 2 + 2 = 4 /\ 3 + 2 = 5 /\ 4 + 2 = 6
    BY SMT, <1>2
  <2> QED
    BY <1>3, <2>1
<1>7. m = 8 => a[d + 5] = p[7] /\ a[d + 6] = p[8]
  <2> SUFFICES ASSUME m = 8 PROVE a[d + 5] = p[7] /\ a[d + 6] = p[8]
    OBVIOUS
  <2>1. 5 \in 1 .. l - 2 /\ 6 \in 1 .. l - 2 /\ 5 + 2 = 7 /\ 6 + 2 = 8
    BY SMT, <1>1, <1>4
  <2> QED
    BY <1>3, <2>1
<1>8. x = 2 => a[d + m - 1] = p[m + 1] /\ a[d + m] = p[m + 2]
  <2> SUFFICES ASSUME x = 2 PROVE a[d + m - 1] = p[m + 1] /\ a[d + m] = p[m + 2]
    OBVIOUS
  <2>1. /\ m - 1 \in 1 .. l - 2 /\ m \in 1 .. l - 2 /\ (m - 1) + 2 = m + 1 /\ d + (m - 1) = d + m - 1
    BY SMT, <1>1, <1>4
  <2>2. a[d + (m - 1)] = p[(m - 1) + 2] /\ a[d + m] = p[m + 2]
    BY <1>3, <2>1
  <2> QED
    BY <2>1, <2>2
<1>9. a[Len(a)] = p[Len(p)]
  <2>1. l - 2 \in 1 .. l - 2 /\ (l - 2) + 2 = l
    BY SMT, <1>2
  <2> QED
    BY <1>3, <2>1 DEF l
<1>10. /\ usesUrl(f.transport) => p[5] = Flag("url") /\ p[6] = f.url
       /\ ~usesUrl(f.transport) => /\ m = 8 /\ p[5] = Flag("maxToken") /\ p[6] = f.maxToken
                                   /\ p[7] = Flag("maxUid") /\ p[8] = f.maxUid
       /\ f.legacyCodec => x = 2 /\ p[m + 1] = Flag("codec") /\ p[m + 2] = Word("legacy")
       /\ f.debug => p[Len(p)] = Flag("debug")
       /\ p[3] = Flag("transport") /\ p[4] = Word(cliName[f.transport])
  BY <1>1 DEF IsShape, x
<1>11. /\ a[d + 1] = Flag("transport") /\ a[d + 2] = Word(cliName[f.transport])
       /\ usesUrl(f.transport) => a[d + 3] = Flag("url") /\ a[d + 4] = f.url
       /\ ~usesUrl(f.transport) =>
            /\ a[d + 3] = Flag("maxToken") /\ a[d + 4] = f.maxToken
            /\ a[d + 5] = Flag("maxUid") /\ a[d + 6] = f.maxUid
       /\ f.legacyCodec => a[d + m - 1] = Flag("codec") /\ a[d + m] = Word("legacy")
       /\ f.debug => a[Len(a)] = Flag("debug")
  BY <1>6, <1>7, <1>8, <1>9, <1>10
<1> QED
  BY <1>5, <1>11 DEF IsFormCommand, m, x, y

\* What a form gives OpenFlux.
FormEntries(f) ==
  {<<"transport", Word(cliName[f.transport])>>}
    \cup (IF usesUrl(f.transport) THEN {<<"url", f.url>>}
          ELSE {<<"maxToken", f.maxToken>>, <<"maxUid", f.maxUid>>})
    \cup (IF f.legacyCodec THEN {<<"codec", Word("legacy")>>} ELSE {})
    \cup (IF f.debug THEN {<<"debug", Word("true")>>} ELSE {})

\* Go's parser reads those arguments as the form's entries and no others.
LEMMA FormFlags ==
  ASSUME NEW T, NEW a \in Seq(T), NEW flags, IsFlagsOf(flags, a), NEW f \in Form,
         NEW d \in {6, 8}, NEW m, IsFormCommand(a, f, d, m)
  PROVE  Range(flags[d + 1]) = FormEntries(f)
<1> DEFINE F(i) == Range(flags[i])
           x == IF f.legacyCodec THEN 2 ELSE 0
           y == IF f.debug THEN 1 ELSE 0
           l == Len(a)
           url == IF usesUrl(f.transport) THEN {<<"url", f.url>>}
                  ELSE {<<"maxToken", f.maxToken>>, <<"maxUid", f.maxUid>>}
           codec == IF f.legacyCodec THEN {<<"codec", Word("legacy")>>} ELSE {}
           debug == IF f.debug THEN {<<"debug", Word("true")>>} ELSE {}
<1>1. /\ m = (IF usesUrl(f.transport) THEN 6 ELSE 8) /\ l = d + m - 2 + x + y
      /\ f.legacyCodec \in BOOLEAN /\ f.debug \in BOOLEAN
  BY DEF IsFormCommand, Form
<1>2. /\ m \in {6, 8} /\ x \in {0, 2} /\ y \in {0, 1} /\ l \in Nat /\ (f.legacyCodec => x = 2)
      /\ (~f.legacyCodec => x = 0) /\ (f.debug => y = 1) /\ (~f.debug => y = 0)
      /\ (usesUrl(f.transport) => m = 6) /\ (~usesUrl(f.transport) => m = 8)
  BY SMT, <1>1
<1>3. /\ "transport" \in ValueNames /\ "url" \in ValueNames /\ "maxToken" \in ValueNames
      /\ "maxUid" \in ValueNames /\ "codec" \in ValueNames
  BY DEF ValueNames
<1> HIDE DEF x, y
<1>4. F(d + 1) = {<<"transport", Word(cliName[f.transport])>>} \cup F(d + 3)
  <2>1. /\ d + 1 \in 1 .. Len(a) /\ d + 1 # Len(a) /\ d + 2 = d + 1 + 1 /\ d + 3 = d + 1 + 2
    BY SMT, <1>1, <1>2
  <2>2. a[d + 1] = Flag("transport") /\ a[d + 2] = Word(cliName[f.transport])
    BY DEF IsFormCommand
  <2>3. F(d + 1) = {<<"transport", a[d + 2]>>} \cup F(d + 3)
    BY SMT, <1>3, <2>1, <2>2, TakenSet
  <2> QED
    BY <2>2, <2>3
<1>5. F(d + 3) = url \cup F(d + m - 1)
  <2>1. CASE usesUrl(f.transport)
    <3>1. /\ d + 3 \in 1 .. Len(a) /\ d + 3 # Len(a) /\ d + 4 = d + 3 + 1 /\ d + 5 = d + 3 + 2
          /\ d + 5 = d + m - 1
      BY SMT, <1>1, <1>2, <2>1
    <3>2. a[d + 3] = Flag("url") /\ a[d + 4] = f.url
      BY <2>1 DEF IsFormCommand
    <3>3. F(d + 3) = {<<"url", a[d + 4]>>} \cup F(d + 5)
      BY SMT, <1>3, <3>1, <3>2, TakenSet
    <3> QED
      BY <2>1, <3>1, <3>2, <3>3
  <2>2. CASE ~usesUrl(f.transport)
    <3>1. d + 3 \in 1 .. Len(a) /\ d + 3 # Len(a) /\ d + 4 = d + 3 + 1 /\ d + 5 = d + 3 + 2
      BY SMT, <1>1, <1>2, <2>2
    <3>2. d + 5 \in 1 .. Len(a) /\ d + 5 # Len(a) /\ d + 6 = d + 5 + 1 /\ d + 7 = d + 5 + 2
      BY SMT, <1>1, <1>2, <2>2
    <3>3. d + 7 = d + m - 1
      BY SMT, <1>2, <2>2
    <3>4. a[d + 3] = Flag("maxToken") /\ a[d + 4] = f.maxToken
      BY <2>2 DEF IsFormCommand
    <3>5. a[d + 5] = Flag("maxUid") /\ a[d + 6] = f.maxUid
      BY <2>2 DEF IsFormCommand
    <3>6. F(d + 3) = {<<"maxToken", a[d + 4]>>} \cup F(d + 5)
      BY SMT, <1>3, <3>1, <3>4, TakenSet
    <3>7. F(d + 5) = {<<"maxUid", a[d + 6]>>} \cup F(d + 7)
      BY SMT, <1>3, <3>2, <3>5, TakenSet
    <3>8. F(d + 3) = {<<"maxToken", f.maxToken>>, <<"maxUid", f.maxUid>>} \cup F(d + 7)
      BY <3>4, <3>5, <3>6, <3>7
    <3> QED
      BY <2>2, <3>3, <3>8
  <2> QED
    BY <2>1, <2>2
<1>6. F(d + m - 1) = codec \cup F(d + m - 1 + x)
  <2>1. CASE f.legacyCodec
    <3>1. /\ d + m - 1 \in 1 .. Len(a) /\ d + m - 1 # Len(a) /\ d + m = d + m - 1 + 1
          /\ d + m - 1 + x = d + m - 1 + 2
      BY SMT, <1>1, <1>2, <2>1
    <3>2. a[d + m - 1] = Flag("codec") /\ a[d + m] = Word("legacy")
      BY <2>1 DEF IsFormCommand
    <3>3. F(d + m - 1) = {<<"codec", a[d + m]>>} \cup F(d + m - 1 + x)
      BY SMT, <1>3, <3>1, <3>2, TakenSet
    <3> QED
      BY <2>1, <3>2, <3>3
  <2>2. CASE ~f.legacyCodec
    <3>1. d + m - 1 + x = d + m - 1
      BY SMT, <1>2, <2>2
    <3> QED
      BY <2>2, <3>1
  <2> QED
    BY <2>1, <2>2
<1>7. F(d + m - 1 + x) = debug
  <2>1. CASE f.debug
    <3>1. d + m - 1 + x = l /\ l # 0
      BY SMT, <1>1, <1>2, <2>1
    <3>2. a[Len(a)] = Flag("debug") /\ a # <<>>
      BY <2>1, <3>1 DEF IsFormCommand
    <3>3. F(Len(a)) = {<<"debug", Word("true")>>}
      BY <3>2, DebugSet
    <3> QED
      BY <2>1, <3>1, <3>3
  <2>2. CASE ~f.debug
    <3>1. d + m - 1 + x = l + 1
      BY SMT, <1>1, <1>2, <2>2
    <3>2. flags[l + 1] = <<>>
      BY DEF IsFlagsOf
    <3>3. Range(<<>>) = {}
      BY SMT DEF Range
    <3> QED
      BY <2>2, <3>1, <3>2, <3>3
  <2> QED
    BY <2>1, <2>2
<1>8. FormEntries(f) = {<<"transport", Word(cliName[f.transport])>>} \cup url \cup codec \cup debug
  BY DEF FormEntries
<1> HIDE DEF F, url, codec, debug
<1>9. F(d + 1) = FormEntries(f)
  BY <1>4, <1>5, <1>6, <1>7, <1>8
<1> QED
  BY <1>9 DEF F

\* With the app's flags in front, the values OpenFlux reads are the form's.
LEMMA FormValues ==
  ASSUME NEW a, NEW E, GoFlags(a) \in Seq(E), NEW f \in Form, NEW H,
         Range(GoFlags(a)) = H \cup FormEntries(f), \A e \in H : e[1] \in OwnedLong
  PROVE  /\ GoValue(a, "transport") = Word(cliName[f.transport])
         /\ GoValue(a, "url") = IF usesUrl(f.transport) THEN f.url ELSE Empty
         /\ GoValue(a, "maxToken") = IF usesUrl(f.transport) THEN Empty ELSE f.maxToken
         /\ GoValue(a, "maxUid") = IF usesUrl(f.transport) THEN Empty ELSE f.maxUid
         /\ GoValue(a, "codec") = IF f.legacyCodec THEN Word("legacy") ELSE Empty
         /\ GoValue(a, "debug") = IF f.debug THEN Word("true") ELSE Empty
<1> DEFINE G == Range(GoFlags(a))
           cli == Word(cliName[f.transport])
<1>1. ASSUME NEW e \in G, e[1] \notin OwnedLong
      PROVE  \/ e = <<"transport", cli>> \/ (usesUrl(f.transport) /\ e = <<"url", f.url>>)
             \/ (~usesUrl(f.transport) /\ e = <<"maxToken", f.maxToken>>)
             \/ (~usesUrl(f.transport) /\ e = <<"maxUid", f.maxUid>>)
             \/ (f.legacyCodec /\ e = <<"codec", Word("legacy")>>)
             \/ (f.debug /\ e = <<"debug", Word("true")>>)
  BY <1>1 DEF FormEntries
<1>2. /\ <<"transport", cli>> \in G
      /\ usesUrl(f.transport) => <<"url", f.url>> \in G
      /\ ~usesUrl(f.transport) => <<"maxToken", f.maxToken>> \in G /\ <<"maxUid", f.maxUid>> \in G
      /\ f.legacyCodec => <<"codec", Word("legacy")>> \in G
      /\ f.debug => <<"debug", Word("true")>> \in G
  BY DEF FormEntries
<1>3. \A n \in {"transport", "url", "maxToken", "maxUid", "codec", "debug"} : n \notin OwnedLong
  BY DEF OwnedLong
<1> HIDE DEF G, cli
<1>4. ASSUME NEW n \in {"transport", "url", "maxToken", "maxUid", "codec", "debug"}, NEW e \in G, e[1] = n
      PROVE  \/ (n = "transport" /\ e[2] = cli)
             \/ (n = "url" /\ usesUrl(f.transport) /\ e[2] = f.url)
             \/ (n = "maxToken" /\ ~usesUrl(f.transport) /\ e[2] = f.maxToken)
             \/ (n = "maxUid" /\ ~usesUrl(f.transport) /\ e[2] = f.maxUid)
             \/ (n = "codec" /\ f.legacyCodec /\ e[2] = Word("legacy"))
             \/ (n = "debug" /\ f.debug /\ e[2] = Word("true"))
  <2>1. e[1] \notin OwnedLong
    BY <1>3, <1>4
  <2> QED
    BY SMT, <1>1, <1>4, <2>1
<1>5. ASSUME NEW n, NEW v, <<n, v>> \in G, \A e \in G : e[1] = n => e[2] = v
      PROVE  GoValue(a, n) = v
  BY SMT, <1>5, GivenInSet DEF G
<1>6. ASSUME NEW n, \A e \in G : e[1] # n
      PROVE  GoValue(a, n) = Empty
  BY <1>6, NotInSet DEF G
<1>7. GoValue(a, "transport") = cli
  <2>1. \A e \in G : e[1] = "transport" => e[2] = cli
    BY <1>4
  <2> QED
    BY <1>2, <1>5, <2>1
<1>8. ASSUME usesUrl(f.transport)
      PROVE  /\ GoValue(a, "url") = f.url
             /\ GoValue(a, "maxToken") = Empty /\ GoValue(a, "maxUid") = Empty
  <2>1. /\ \A e \in G : e[1] = "url" => e[2] = f.url
        /\ \A e \in G : e[1] # "maxToken" /\ e[1] # "maxUid"
    BY <1>4, <1>8
  <2> QED
    BY <1>2, <1>5, <1>6, <1>8, <2>1
<1>9. ASSUME ~usesUrl(f.transport)
       PROVE  /\ GoValue(a, "url") = Empty
              /\ GoValue(a, "maxToken") = f.maxToken /\ GoValue(a, "maxUid") = f.maxUid
  <2>1. /\ \A e \in G : e[1] = "maxToken" => e[2] = f.maxToken
        /\ \A e \in G : e[1] = "maxUid" => e[2] = f.maxUid
        /\ \A e \in G : e[1] # "url"
    BY <1>4, <1>9
  <2> QED
    BY <1>2, <1>5, <1>6, <1>9, <2>1
<1>10. GoValue(a, "codec") = IF f.legacyCodec THEN Word("legacy") ELSE Empty
  <2>1. /\ \A e \in G : e[1] = "codec" => e[2] = Word("legacy")
        /\ ~f.legacyCodec => \A e \in G : e[1] # "codec"
    BY <1>4
  <2> QED
    BY <1>2, <1>5, <1>6, <2>1
<1>11. GoValue(a, "debug") = IF f.debug THEN Word("true") ELSE Empty
  <2>1. /\ \A e \in G : e[1] = "debug" => e[2] = Word("true")
        /\ ~f.debug => \A e \in G : e[1] # "debug"
    BY <1>4
  <2> QED
    BY <1>2, <1>5, <1>6, <2>1
<1> QED
  BY <1>7, <1>8, <1>9, <1>10, <1>11 DEF cli

\* The app's own flags come first, and then the form's.
LEMMA OwnThenForm ==
  ASSUME NEW T, NEW a \in Seq(T), NEW keyFile, NEW flags, IsFlagsOf(flags, a),
         IsCommand(a, keyFile, IF keyFile = Empty THEN 7 ELSE 9)
  PROVE  \E H : /\ \A e \in H : e[1] \in OwnedLong
                /\ Range(flags[1]) = H \cup Range(flags[(IF keyFile = Empty THEN 6 ELSE 8) + 1])
<1> DEFINE F(i) == Range(flags[i])
           Takes(i, n, j, k) == /\ i \in 1 .. Len(a) /\ i # Len(a) /\ a[i] = Flag(n)
                                /\ n \in ValueNames /\ i + 1 = j /\ i + 2 = k
           Has(i, n, j, k) == F(i) = {<<n, a[j]>>} \cup F(k)
           H3 == {<<"role", a[2]>>, <<"inbound", a[4]>>, <<"socks5", a[6]>>}
<1>1. /\ Len(a) \in Nat /\ 1 \in 1 .. Len(a) /\ 3 \in 1 .. Len(a) /\ 5 \in 1 .. Len(a)
      /\ 1 # Len(a) /\ 3 # Len(a) /\ 5 # Len(a)
      /\ 1 + 1 = 2 /\ 3 + 1 = 4 /\ 5 + 1 = 6 /\ 1 + 2 = 3 /\ 3 + 2 = 5 /\ 5 + 2 = 7
  BY SMT DEF IsCommand
<1>2. /\ "role" \in OwnedLong /\ "inbound" \in OwnedLong /\ "socks5" \in OwnedLong
      /\ "encryption-key-file" \in OwnedLong
  BY DEF OwnedLong
<1>3. /\ "role" \in ValueNames /\ "inbound" \in ValueNames /\ "socks5" \in ValueNames
      /\ "encryption-key-file" \in ValueNames
  BY <1>2 DEF ValueNames
<1>4. a[1] = Flag("role") /\ a[3] = Flag("inbound") /\ a[5] = Flag("socks5")
  BY DEF IsCommand
<1>5. \A i, n, j, k : Takes(i, n, j, k) => Has(i, n, j, k)
  <2> SUFFICES ASSUME NEW i, NEW n, NEW j, NEW k, Takes(i, n, j, k)
               PROVE  Has(i, n, j, k)
    OBVIOUS
  <2> QED
    BY SMT, TakenSet
<1>6. Takes(1, "role", 2, 3) /\ Takes(3, "inbound", 4, 5) /\ Takes(5, "socks5", 6, 7)
  BY <1>1, <1>3, <1>4
<1> HIDE DEF Takes, Has, F
<1>7. Has(1, "role", 2, 3) /\ Has(3, "inbound", 4, 5) /\ Has(5, "socks5", 6, 7)
  BY <1>5, <1>6
<1>8. \A e \in H3 : e[1] \in OwnedLong
  BY SMT, <1>2
<1>9. F(1) = H3 \cup F(7)
  BY <1>7 DEF Has
<1> HIDE DEF H3
<1>10. CASE keyFile = Empty
  <2>1. (IF keyFile = Empty THEN 6 ELSE 8) + 1 = 7
    BY SMT, <1>10
  <2> QED
    BY <1>8, <1>9, <2>1 DEF F
<1>11. CASE keyFile # Empty
  <2> DEFINE H4 == H3 \cup {<<"encryption-key-file", a[8]>>}
  <2>1. (IF keyFile = Empty THEN 6 ELSE 8) + 1 = 9
    BY SMT, <1>11
  <2>2. 7 \in 1 .. Len(a) /\ 7 # Len(a) /\ 7 + 1 = 8 /\ 7 + 2 = 9
    <3> DEFINE l == Len(a)
    <3>1. l \in Nat /\ 9 - 1 <= l
      BY <1>1, <1>11 DEF IsCommand
    <3> HIDE DEF l
    <3>2. 7 \in 1 .. l /\ 7 # l /\ 7 + 1 = 8 /\ 7 + 2 = 9
      BY SMT, <3>1
    <3> QED
      BY <3>2 DEF l
  <2>3. a[7] = Flag("encryption-key-file")
    BY <1>11 DEF IsCommand
  <2>4. F(7) = {<<"encryption-key-file", a[8]>>} \cup F(9)
    <3>1. Takes(7, "encryption-key-file", 8, 9)
      BY <1>3, <2>2, <2>3 DEF Takes
    <3>2. Has(7, "encryption-key-file", 8, 9)
      BY <1>5, <3>1
    <3> QED
      BY <3>2 DEF Has
  <2>5. \A e \in H4 : e[1] \in OwnedLong
    BY SMT, <1>2, <1>8
  <2>6. F(1) = H4 \cup F(9)
    BY <1>9, <2>4
  <2> HIDE DEF H4
  <2> QED
    BY <2>1, <2>5, <2>6 DEF F
<1> QED
  BY <1>10, <1>11

\* What was typed into the form is what OpenFlux's flag parser finds, unless a value is spelled
\* like a flag that NativeArgs owns.
THEOREM FormReaches == ArgsSpec => []FormReachesOpenFlux
<1>1. ArgsInv => FormReachesOpenFlux
  <2> SUFFICES ASSUME ArgsInv, at = "saved", args # <<>>, NoneOwned(form)
               PROVE  /\ GoValue(args, "transport") = Word(cliName[form.transport])
                      /\ \A n \in {"url", "maxToken", "maxUid"} : GoValue(args, n) = Used(form)[n]
                      /\ (GoValue(args, "codec") = Word("legacy")) = form.legacyCodec
                      /\ (GoValue(args, "debug") = Word("true")) = form.debug
    BY DEF FormReachesOpenFlux, NoneOwned, Typed, Owned
  <2> DEFINE d == IF keyPath = Empty THEN 6 ELSE 8
             p == buildForm(form)
             u == usesUrl(form.transport)
  <2>1. form \in Form /\ p # NoPayload /\ args = build(p, SocksAddress, keyPath)
    BY DEF ArgsInv
  <2>2. p \in Seq(FormArgs(form))
    BY <2>1, FormIsSequence
  <2>3. /\ \E T : args \in Seq(T)
        /\ IsCommand(args, keyPath, IF keyPath = Empty THEN 7 ELSE 9) /\ EndsWith(args, d, Kept(p))
    <3> HIDE DEF p
    <3> QED
      BY <2>1, <2>2, BuiltIsCommand
  <2>4. PICK T : args \in Seq(T)
    BY <2>3
  <2>5. d \in {6, 8}
    OBVIOUS
  <2> HIDE DEF d
  <2>6. IsFormCommand(args, form, d, IF u THEN 6 ELSE 8)
    BY <2>1, <2>3, <2>5, FormCommand
  <2>7. PICK flags : IsFlagsOf(flags, args) /\ GoFlags(args) = flags[1]
    BY <2>4, FlagsUnfold
  <2>8. Range(flags[d + 1]) = FormEntries(form)
    BY <2>1, <2>4, <2>5, <2>6, <2>7, FormFlags
  <2>9. PICK H : (\A e \in H : e[1] \in OwnedLong) /\ Range(flags[1]) = H \cup Range(flags[d + 1])
    BY <2>3, <2>4, <2>7, OwnThenForm DEF d
  <2>10. GoFlags(args) \in Seq(GoEntries(args))
    <3>1. 1 \in 1 .. Len(args) + 2
      BY SMT, <2>4
    <3> QED
      BY <2>7, <3>1 DEF IsFlagsOf
  <2>11. Range(GoFlags(args)) = H \cup FormEntries(form)
    BY <2>7, <2>8, <2>9
  <2>12. /\ GoValue(args, "transport") = Word(cliName[form.transport])
         /\ GoValue(args, "url") = IF u THEN form.url ELSE Empty
         /\ GoValue(args, "maxToken") = IF u THEN Empty ELSE form.maxToken
         /\ GoValue(args, "maxUid") = IF u THEN Empty ELSE form.maxUid
         /\ GoValue(args, "codec") = IF form.legacyCodec THEN Word("legacy") ELSE Empty
         /\ GoValue(args, "debug") = IF form.debug THEN Word("true") ELSE Empty
    BY <2>1, <2>9, <2>10, <2>11, FormValues
  <2>13. /\ Used(form)["url"] = IF u THEN form.url ELSE Empty
         /\ Used(form)["maxToken"] = IF u THEN Empty ELSE form.maxToken
         /\ Used(form)["maxUid"] = IF u THEN Empty ELSE form.maxUid
    BY SMT, <2>1, UsedIs
  <2>14. Empty # Word("legacy") /\ Empty # Word("true")
    <3>1. Word("").name = "" /\ Word("legacy").name = "legacy" /\ Word("true").name = "true"
      BY ArgFields
    <3> QED
      BY <3>1 DEF Empty
  <2>15. form.legacyCodec \in BOOLEAN /\ form.debug \in BOOLEAN
    BY <2>1 DEF Form
  <2>16. \A n \in {"url", "maxToken", "maxUid"} : GoValue(args, n) = Used(form)[n]
    BY <2>12, <2>13
  <2>17. (GoValue(args, "codec") = Word("legacy")) = form.legacyCodec
    BY <2>12, <2>14, <2>15
  <2>18. (GoValue(args, "debug") = Word("true")) = form.debug
    BY <2>12, <2>14, <2>15
  <2> QED
    BY <2>12, <2>16, <2>17, <2>18
<1> QED
  BY <1>1, ArgsInvariant, PTL

-----------------------------------------------------------------------------
\* What stands before a token: flags that build() drops, and before those --maxToken.
LEMMA BeforeToken ==
  ASSUME NEW S, NEW p \in Seq(S), PassesTokens(p), NEW i \in Nat, NEW q \in i + 1 .. Len(p),
         q \in 1 .. Len(p), p[q] \in Tokens,
         \A k \in i + 1 .. q - 1 : flagName(p[k]) \in OWNED_BOOLEAN
  PROVE  /\ i \in 1 .. Len(p)
         /\ flagName(p[i]) \in OWNED_BOOLEAN \/ p[i] = Flag("maxToken")
         /\ i > 1 /\ p[i] = Flag("maxToken") => flagName(p[i - 1]) \notin OWNED_WITH_VALUE \/ p[i - 1].eq
<1>1. q \in DOMAIN p
  BY SMT
<1>2. PICK j \in 1 .. q - 1 :
        /\ p[j] = Flag("maxToken") /\ \A k \in j + 1 .. q - 1 : flagName(p[k]) \in OWNED_BOOLEAN
        /\ j > 1 => flagName(p[j - 1]) \notin OWNED_WITH_VALUE \/ p[j - 1].eq
  BY <1>1 DEF PassesTokens
<1>3. flagName(Flag("maxToken")) = "maxToken" /\ "maxToken" \notin OWNED_BOOLEAN
  BY NamesOfArgs DEF OWNED_BOOLEAN
<1>4. j \notin i + 1 .. q - 1
  BY <1>2, <1>3
<1>5. j <= i /\ i \in 1 .. Len(p) /\ (j = i \/ i \in j + 1 .. q - 1)
  BY SMT, <1>2, <1>4
<1>6. flagName(p[i]) \in OWNED_BOOLEAN \/ p[i] = Flag("maxToken")
  BY <1>2, <1>5
<1>7. ASSUME i > 1, p[i] = Flag("maxToken")
      PROVE  flagName(p[i - 1]) \notin OWNED_WITH_VALUE \/ p[i - 1].eq
  <2>1. j = i
    BY <1>2, <1>3, <1>5, <1>7
  <2> QED
    BY <1>2, <1>7, <2>1
<1> QED
  BY <1>5, <1>6, <1>7

\* If what is kept from the i-th argument on starts with a token, only dropped Boolean flags
\* stand between.
Leads(s, p, i) ==
  s # <<>> /\ s[1] \in Tokens =>
    \E q \in 1 .. Len(p) :
      /\ i <= q /\ p[q] \in Tokens /\ \A k \in i .. q - 1 : flagName(p[k]) \in OWNED_BOOLEAN
Behind(s) == \A k \in 1 .. Len(s) - 1 : s[k + 1] \in Tokens => flagName(s[k]) \in SECRET_VALUES

\* In what build() keeps, a token still stands behind --maxToken.
LEMMA KeptBehind ==
  ASSUME NEW S, NEW p \in Seq(S), PassesTokens(p)
  PROVE  Leads(Kept(p), p, 1) /\ Behind(Kept(p))
<1>1. PICK kept : IsKeptOf(kept, p) /\ Kept(p) = kept[1]
  BY KeptUnfolds
<1> DEFINE n == Len(p)
           T == {i \in 1 .. n + 2 : kept[i] \in Seq(S) /\ Leads(kept[i], p, i) /\ Behind(kept[i])}
<1>2. n \in Nat /\ \A i \in 1 .. n : p[i] \in S
  BY SMT
<1>3. <<>> \in Seq(S) /\ Behind(<<>>) /\ \A i : Leads(<<>>, p, i)
  BY SMT DEF Leads, Behind
<1>4. n + 1 \in T /\ n + 2 \in T
  <2>1. kept[n + 1] = <<>> /\ kept[n + 2] = <<>>
    BY <1>1 DEF IsKeptOf
  <2>2. n + 1 \in 1 .. n + 2 /\ n + 2 \in 1 .. n + 2
    BY SMT, <1>2
  <2> QED
    BY <1>3, <2>1, <2>2
<1>5. ASSUME NEW i \in 1 .. n, i + 1 \in T, i + 2 \in T PROVE i \in T
  <2>1. kept[i] = KeepArg(p[i], kept[i + 1], kept[i + 2])
    BY <1>1 DEF IsKeptOf
  <2>2. i \in 1 .. n + 2 /\ i \in Nat /\ i + 1 \in Nat /\ i <= i /\ i + 1 > 1 /\ i + 1 - 1 = i
    BY SMT, <1>2
  <2>3. "maxToken" \notin Owned /\ flagName(Flag("maxToken")) = "maxToken"
    BY NamesOfArgs DEF Owned, OWNED_WITH_VALUE, OWNED_BOOLEAN
  <2> DEFINE s == kept[i + 1]
             x == p[i]
  <2>4. s \in Seq(S) /\ Leads(s, p, i + 1) /\ Behind(s) /\ x \in S
    BY <1>2, <1>5
  <2>5. ASSUME s # <<>>, s[1] \in Tokens
        PROVE  /\ flagName(x) \in OWNED_BOOLEAN \/ x = Flag("maxToken")
               /\ flagName(x) \in OWNED_BOOLEAN => Leads(s, p, i)
    <3>1. PICK q \in 1 .. n :
            i + 1 <= q /\ p[q] \in Tokens /\ \A k \in i + 1 .. q - 1 : flagName(p[k]) \in OWNED_BOOLEAN
      BY <2>4, <2>5 DEF Leads
    <3>2. q \in i + 1 .. Len(p) /\ i <= q
      BY SMT, <2>2, <3>1
    <3>3. flagName(x) \in OWNED_BOOLEAN \/ x = Flag("maxToken")
      BY SMT, <2>2, <3>1, <3>2, BeforeToken
    <3>4. ASSUME flagName(x) \in OWNED_BOOLEAN, NEW k \in i .. q - 1
          PROVE  flagName(p[k]) \in OWNED_BOOLEAN
      <4>1. k = i \/ k \in i + 1 .. q - 1
        BY SMT
      <4> QED
        BY <3>1, <3>4, <4>1
    <3> QED
      BY <3>1, <3>2, <3>3, <3>4 DEF Leads
  <2>6. CASE flagName(x) \in OWNED_BOOLEAN
    <3>1. kept[i] = s
      BY <2>1, <2>6 DEF KeepArg
    <3>2. Leads(s, p, i)
      BY <2>5, <2>6 DEF Leads
    <3> QED
      BY <2>2, <2>4, <3>1, <3>2
  <2>7. CASE flagName(x) \notin OWNED_BOOLEAN /\ flagName(x) \in OWNED_WITH_VALUE /\ x.eq
    <3>1. kept[i] = s
      BY <2>1, <2>7 DEF KeepArg
    <3>2. ~(s # <<>> /\ s[1] \in Tokens)
      BY <2>3, <2>5, <2>7 DEF Owned
    <3>3. Leads(s, p, i)
      BY <3>2 DEF Leads
    <3> QED
      BY <2>2, <2>4, <3>1, <3>3
  <2>8. CASE flagName(x) \notin OWNED_BOOLEAN /\ flagName(x) \in OWNED_WITH_VALUE /\ ~x.eq
    <3> DEFINE r == kept[i + 2]
    <3>1. kept[i] = r
      BY <2>1, <2>8 DEF KeepArg
    <3>2. r \in Seq(S) /\ Leads(r, p, i + 2) /\ Behind(r)
      BY <1>5
    <3>3. ~(r # <<>> /\ r[1] \in Tokens)
      <4> SUFFICES ASSUME r # <<>>, r[1] \in Tokens PROVE FALSE
        OBVIOUS
      <4>1. PICK q \in 1 .. n :
              i + 2 <= q /\ p[q] \in Tokens /\ \A k \in i + 2 .. q - 1 : flagName(p[k]) \in OWNED_BOOLEAN
        BY <3>2 DEF Leads
      <4>2. q \in (i + 1) + 1 .. Len(p) /\ (i + 1) + 1 = i + 2
        BY SMT, <2>2, <4>1
      <4>3. \A k \in (i + 1) + 1 .. q - 1 : flagName(p[k]) \in OWNED_BOOLEAN
        BY <4>1, <4>2
      <4>4. /\ flagName(p[i + 1]) \in OWNED_BOOLEAN \/ p[i + 1] = Flag("maxToken")
            /\ i + 1 > 1 /\ p[i + 1] = Flag("maxToken") =>
                 flagName(p[i + 1 - 1]) \notin OWNED_WITH_VALUE \/ p[i + 1 - 1].eq
        BY SMT, <2>2, <4>1, <4>2, <4>3, BeforeToken
      <4>5. flagName(p[i + 1]) \in OWNED_BOOLEAN
        BY <2>2, <2>8, <4>4
      <4>6. q \in i + 1 .. Len(p)
        BY SMT, <2>2, <4>1
      <4>7. ASSUME NEW k \in i + 1 .. q - 1 PROVE flagName(p[k]) \in OWNED_BOOLEAN
        <5>1. k = i + 1 \/ k \in i + 2 .. q - 1
          BY SMT, <2>2
        <5> QED
          BY <4>1, <4>5, <5>1
      <4>8. flagName(x) \in OWNED_BOOLEAN \/ x = Flag("maxToken")
        BY <2>2, <4>1, <4>6, <4>7, BeforeToken
      <4> QED
        BY <2>3, <2>8, <4>8 DEF Owned
    <3>4. Leads(r, p, i)
      BY <3>3 DEF Leads
    <3> QED
      BY <2>2, <3>1, <3>2, <3>4
  <2>9. CASE flagName(x) \notin Owned
    <3> DEFINE t == <<x>> \o s
    <3>1. kept[i] = t
      BY <2>1, <2>9 DEF KeepArg, Owned
    <3> HIDE DEF s
    <3>2. /\ t \in Seq(S) /\ t[1] = x /\ Len(t) = Len(s) + 1 /\ Len(s) \in Nat
          /\ \A k \in 1 .. Len(s) : t[k + 1] = s[k]
      BY SMT, <2>4, Prepended
    <3> HIDE DEF t
    <3>3. Leads(t, p, i)
      <4>1. \A k \in i .. i - 1 : flagName(p[k]) \in OWNED_BOOLEAN
        BY SMT, <2>2
      <4>2. i \in 1 .. Len(p)
        OBVIOUS
      <4> QED
        BY <2>2, <3>2, <4>1, <4>2 DEF Leads
    <3>4. Behind(t)
      <4> SUFFICES ASSUME NEW k \in 1 .. Len(t) - 1, t[k + 1] \in Tokens
                   PROVE  flagName(t[k]) \in SECRET_VALUES
        BY DEF Behind
      <4>1. k \in 1 .. Len(s) /\ (k = 1 \/ k - 1 \in 1 .. Len(s) - 1) /\ (k - 1) + 1 = k
        BY SMT, <3>2
      <4>2. s[k] \in Tokens
        BY <3>2, <4>1
      <4>3. CASE k = 1
        <5>1. s # <<>>
          BY SMT, <2>4, <4>1
        <5>2. x = Flag("maxToken")
          BY <2>5, <2>9, <4>2, <4>3, <5>1 DEF Owned
        <5>3. "maxToken" \in SECRET_VALUES
          BY DEF SECRET_VALUES
        <5> QED
          BY <2>3, <3>2, <4>3, <5>2, <5>3
      <4>4. CASE k # 1
        <5>1. k - 1 \in 1 .. Len(s) /\ k - 1 \in 1 .. Len(s) - 1
          BY SMT, <3>2, <4>1, <4>4
        <5>2. t[(k - 1) + 1] = s[k - 1] /\ flagName(s[k - 1]) \in SECRET_VALUES
          BY <2>4, <3>2, <4>1, <4>2, <5>1 DEF Behind
        <5> QED
          BY <4>1, <5>2
      <4> QED
        BY <4>3, <4>4
    <3> QED
      BY <2>2, <3>1, <3>2, <3>3, <3>4
  <2> QED
    BY <2>6, <2>7, <2>8, <2>9 DEF Owned
<1> HIDE DEF T
<1>6. 1 .. n + 2 \subseteq T
  BY <1>2, <1>4, <1>5, InductionDown
<1>7. 1 \in 1 .. n + 2
  BY SMT, <1>2
<1> QED
  BY <1>1, <1>6, <1>7 DEF T

Hides(x) == x \notin Tokens /\ Word(x.val) \notin Tokens

\* redact() leaves no token in the copy of a command line of build().
LEMMA CopyHides ==
  ASSUME NEW S, NEW p \in Seq(S), PassesTokens(p), NEW keyFile \in {Empty, Word("key")},
         NEW a, a = build(p, SocksAddress, keyFile)
  PROVE  \A i \in DOMAIN redact(a) : Hides(redact(a)[i])
<1> DEFINE d == IF keyFile = Empty THEN 6 ELSE 8
           kept == Kept(p)
<1>1. /\ \E T : a \in Seq(T)
      /\ IsCommand(a, keyFile, IF keyFile = Empty THEN 7 ELSE 9) /\ EndsWith(a, d, kept)
  BY BuiltIsCommand
<1>2. PICK T : a \in Seq(T)
  BY <1>1
<1>3. p \in Seq(Range(p))
  BY SMT DEF Range
<1>4. kept \in Seq(Range(p))
  BY <1>3, KeptIsForeign
<1>5. Leads(kept, p, 1) /\ Behind(kept)
  BY KeptBehind
<1>6. /\ d \in {6, 8} /\ (keyFile = Empty => d = 6) /\ (keyFile # Empty => d = 8)
  OBVIOUS
<1>7. /\ Flag("role") \in AppArguments /\ Word("client") \in AppArguments
      /\ Flag("inbound") \in AppArguments /\ Word("socks5") \in AppArguments
      /\ Flag("socks5") \in AppArguments /\ SocksAddress \in AppArguments
      /\ Flag("encryption-key-file") \in AppArguments /\ Word("key") \in AppArguments
      /\ Word("***") \in AppArguments /\ FlagEq("maxToken", "***") \in AppArguments
  BY DEF AppArguments, SocksAddress
<1>8. \A x \in AppArguments : Hides(x)
  BY TokensAssumption DEF Hides
<1> HIDE DEF d, kept
<1>9. /\ Len(a) = d + Len(kept) /\ Len(kept) \in Nat /\ DOMAIN a = 1 .. Len(a)
      /\ \A k \in 1 .. Len(kept) : a[d + k] = kept[k]
  BY SMT, <1>1, <1>2, <1>4 DEF EndsWith
<1>10. ASSUME NEW i \in 1 .. d PROVE a[i] \in AppArguments
  <2>1. \/ i \in {1, 2, 3, 4, 5, 6} \/ (keyFile # Empty /\ i \in {7, 8})
    BY SMT, <1>6
  <2>2. keyFile # Empty => keyFile = Word("key")
    OBVIOUS
  <2> QED
    BY <1>1, <1>7, <2>1, <2>2 DEF IsCommand
<1>11. ASSUME NEW k \in 1 .. Len(kept) PROVE \E q \in DOMAIN p : kept[k] = p[q]
  <2>1. kept[k] \in Range(p)
    BY SMT, <1>4
  <2> QED
    BY <2>1 DEF Range
<1>12. ASSUME NEW i \in DOMAIN a, ~(a[i].eq /\ flagName(a[i]) \in SECRET_VALUES),
              ~(i > 1 /\ flagName(a[i - 1]) \in SECRET_VALUES)
       PROVE  Hides(a[i])
  <2>1. CASE i \in 1 .. d
    BY <1>8, <1>10, <2>1
  <2>2. CASE i \notin 1 .. d
    <3> DEFINE k == i - d
    <3>1. /\ k \in 1 .. Len(kept) /\ d + k = i /\ i > 1
          /\ k = 1 \/ (k - 1 \in 1 .. Len(kept) - 1 /\ k - 1 \in 1 .. Len(kept)
                       /\ (k - 1) + 1 = k /\ d + (k - 1) = i - 1)
      BY SMTT(60), <1>6, <1>9, <2>2
    <3> HIDE DEF k
    <3>2. a[i] = kept[k]
      BY <1>9, <3>1
    <3>3. a[i] \notin Tokens
      <4>1. CASE k = 1
        <5> SUFFICES ASSUME a[i] \in Tokens PROVE FALSE
          OBVIOUS
        <5>1. kept # <<>> /\ kept[1] \in Tokens
          BY SMT, <1>9, <3>1, <3>2, <4>1
        <5>2. PICK q \in 1 .. Len(p) :
                1 <= q /\ p[q] \in Tokens /\ \A j \in 1 .. q - 1 : flagName(p[j]) \in OWNED_BOOLEAN
          BY <1>5, <5>1 DEF Leads
        <5>3. 0 \in Nat /\ 0 + 1 = 1 /\ q \in 0 + 1 .. Len(p) /\ 0 \notin 1 .. Len(p)
          BY SMT, <5>2
        <5>4. \A j \in 0 + 1 .. q - 1 : flagName(p[j]) \in OWNED_BOOLEAN
          BY <5>2, <5>3
        <5>5. 0 \in 1 .. Len(p)
          BY SMT, <5>2, <5>3, <5>4, BeforeToken
        <5> QED
          BY <5>3, <5>5
      <4>2. CASE k # 1
        <5>1. a[i - 1] = kept[k - 1]
          BY <1>9, <3>1, <4>2
        <5>2. kept[k] \in Tokens => flagName(kept[k - 1]) \in SECRET_VALUES
          BY <1>5, <3>1, <4>2 DEF Behind
        <5> QED
          BY <1>12, <3>1, <3>2, <5>1, <5>2
      <4> QED
        BY <4>1, <4>2
    <3>4. PICK q \in DOMAIN p : kept[k] = p[q]
      BY <1>11, <3>1
    <3>5. Word(a[i].val) \notin Tokens
      BY <1>12, <3>2, <3>3, <3>4 DEF PassesTokens
    <3> QED
      BY <3>3, <3>5 DEF Hides
  <2> QED
    BY <2>1, <2>2
<1> SUFFICES ASSUME NEW i \in DOMAIN a PROVE Hides(redact(a)[i])
  BY DEF redact
<1>13. CASE a[i].eq /\ flagName(a[i]) \in SECRET_VALUES
  <2>1. redact(a)[i] = FlagEq(a[i].name, "***")
    BY <1>13 DEF redact
  <2>2. "not a flag" \notin SECRET_VALUES /\ \A n \in SECRET_VALUES : n = "maxToken"
    BY DEF SECRET_VALUES
  <2>3. a[i].name = "maxToken"
    BY <1>13, <2>2 DEF flagName
  <2> QED
    BY <1>7, <1>8, <2>1, <2>3
<1>14. CASE ~(a[i].eq /\ flagName(a[i]) \in SECRET_VALUES) /\ i > 1 /\ flagName(a[i - 1]) \in SECRET_VALUES
  <2>1. redact(a)[i] = Word("***")
    BY <1>14 DEF redact
  <2> QED
    BY <1>7, <1>8, <2>1
<1>15. CASE ~(a[i].eq /\ flagName(a[i]) \in SECRET_VALUES)
            /\ ~(i > 1 /\ flagName(a[i - 1]) \in SECRET_VALUES)
  <2>1. redact(a)[i] = a[i]
    BY <1>15 DEF redact
  <2> QED
    BY <1>12, <1>15, <2>1
<1> QED
  BY <1>13, <1>14, <1>15

\* A form passes its token behind --maxToken.
LEMMA FormPassesTokens ==
  ASSUME NEW f \in Form, buildForm(f) # NoPayload
  PROVE  PassesTokens(buildForm(f))
<1> DEFINE p == buildForm(f)
           m == IF usesUrl(f.transport) THEN 6 ELSE 8
           x == IF f.legacyCodec THEN 2 ELSE 0
           y == IF f.debug THEN 1 ELSE 0
<1>1. p \in Seq(FormArgs(f)) /\ IsShape(p, f, m)
  BY FormIsSequence, FormHasShape
<1>2. /\ f.transport \in Transports /\ f.url \in Values \cup {Empty}
      /\ f.maxToken \in Tokens \cup {Empty} /\ f.maxUid \in Values \cup {Empty}
  BY DEF Form
<1> HIDE DEF p
<1>3. /\ m \in {6, 8} /\ Len(p) = m + x + y /\ x \in {0, 2} /\ y \in {0, 1}
      /\ (x = 2 => f.legacyCodec) /\ (y = 1 => f.debug)
      /\ (m = 6 => usesUrl(f.transport)) /\ (m = 8 => ~usesUrl(f.transport))
  BY SMT, <1>1 DEF IsShape
<1>4. cliName[f.transport] \in {"yandex", "vyandex", "oneme", "cupsonline", "mailru"}
  BY <1>2 DEF Transports, cliName
<1> HIDE DEF m, x, y
<1>5. /\ Flag("role") \in AppArguments /\ Word("client") \in AppArguments
      /\ Flag("transport") \in AppArguments /\ Word(cliName[f.transport]) \in AppArguments
      /\ Flag("url") \in AppArguments /\ Flag("maxToken") \in AppArguments
      /\ Flag("maxUid") \in AppArguments /\ Flag("codec") \in AppArguments
      /\ Word("legacy") \in AppArguments /\ Flag("debug") \in AppArguments /\ Empty \in AppArguments
  BY <1>4 DEF AppArguments, Empty
<1>6. \A a \in Values \cup AppArguments : Hides(a)
  BY TokensAssumption DEF Hides
<1>7. ASSUME NEW j \in 1 .. Len(p), ~(j = 6 /\ ~usesUrl(f.transport)) PROVE Hides(p[j])
  <2>1. \/ j \in {1, 2, 3, 4, 5, 6} \/ (m = 8 /\ j \in {7, 8})
        \/ (x = 2 /\ j \in {m + 1, m + 2}) \/ (y = 1 /\ j = m + x + y)
    BY SMT, <1>3, Places
  <2>2. CASE j \in {1, 2, 3, 4}
    BY <1>1, <1>5, <1>6, <2>2 DEF IsShape
  <2>3. CASE j \in {5, 6}
    <3>1. CASE usesUrl(f.transport)
      BY <1>1, <1>2, <1>5, <1>6, <2>3, <3>1 DEF IsShape
    <3>2. CASE ~usesUrl(f.transport)
      BY <1>1, <1>5, <1>6, <1>7, <2>3, <3>2 DEF IsShape
    <3> QED
      BY <3>1, <3>2
  <2>4. CASE m = 8 /\ j \in {7, 8}
    BY ZenonT(60), <1>1, <1>2, <1>3, <1>5, <1>6, <2>4 DEF IsShape
  <2>5. CASE x = 2 /\ j \in {m + 1, m + 2}
    BY <1>1, <1>3, <1>5, <1>6, <2>5 DEF IsShape
  <2>6. CASE y = 1 /\ j = m + x + y
    BY <1>1, <1>3, <1>5, <1>6, <2>6 DEF IsShape
  <2> QED
    BY <2>1, <2>2, <2>3, <2>4, <2>5, <2>6
<1>8. ASSUME ~usesUrl(f.transport), p[6] \in Tokens
      PROVE  \E j \in 1 .. 6 - 1 :
               /\ p[j] = Flag("maxToken") /\ \A k \in j + 1 .. 6 - 1 : flagName(p[k]) \in OWNED_BOOLEAN
               /\ j > 1 => flagName(p[j - 1]) \notin OWNED_WITH_VALUE \/ p[j - 1].eq
  <2>1. p[5] = Flag("maxToken") /\ p[4] = Word(cliName[f.transport])
    BY <1>1, <1>8 DEF IsShape
  <2>2. 5 \in 1 .. 6 - 1 /\ (\A k \in 5 + 1 .. 6 - 1 : FALSE) /\ 5 - 1 = 4
    BY SMT
  <2>3. "not a flag" \notin OWNED_WITH_VALUE
    BY DEF OWNED_WITH_VALUE
  <2>4. flagName(p[4]) \notin OWNED_WITH_VALUE
    BY <2>1, <2>3, NamesOfArgs
  <2> QED
    BY <2>1, <2>2, <2>4
<1>9. DOMAIN p = 1 .. Len(p)
  BY SMT, <1>1
<1>10. ASSUME ~usesUrl(f.transport), p[6] \notin Tokens PROVE Hides(p[6])
  BY <1>1, <1>2, <1>5, <1>6, <1>10 DEF IsShape
<1>11. PassesTokens(p)
  BY <1>7, <1>8, <1>9, <1>10 DEF PassesTokens, Hides
<1> QED
  BY <1>11 DEF p

\* redact() hides a token that a form or a stored payload passes, whatever NativeArgs drops
\* around it.
THEOREM TokenHidden == ArgsSpec => []TokenIsHidden
<1>1. ArgsInv => TokenIsHidden
  <2> SUFFICES ASSUME ArgsInv, NEW i \in DOMAIN shown PROVE Hides(shown[i])
    BY DEF TokenIsHidden, Hides
  <2>1. CASE shown = <<>>
    BY SMT, <2>1
  <2>2. CASE shown # <<>>
    <3>1. /\ at \in {"stored", "saved"} /\ args = build(payload, SocksAddress, keyPath)
          /\ shown = redact(args) /\ keyPath \in {Empty, Word("key")}
      BY <2>2 DEF ArgsInv
    <3>2. (\E S : payload \in Seq(S)) /\ PassesTokens(payload)
      BY <3>1, FormIsSequence, FormPassesTokens, PayloadsAssumption, TokensAssumption DEF ArgsInv
    <3> QED
      BY <3>1, <3>2, CopyHides
  <2> QED
    BY <2>1, <2>2
<1> QED
  BY <1>1, ArgsInvariant, PTL
=============================================================================
