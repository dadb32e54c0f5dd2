--------------------------- MODULE KubeChecksProofs ----------------------------
(* What a run of kube-score is proved to do, for every number of documents,   *)
(* however deep their Lists nest, and every value of the flags:               *)
(*   AllKept           the parser keeps every object on the lists of its kind;*)
(*   Agree             both ends of a policy or a service agree on who is     *)
(*                     selected;                                              *)
(*   AnyOrder          the order of the budgets does not decide;              *)
(*   OnlySelectorsFail what ends a run without results;                       *)
(*   Satisfiable       when the two checks on replicas can be met together;   *)
(*   AdviceKept        a newer apiVersion loses no check.                     *)
(* The order of reading is in the invariant as Progress: the leaves of the    *)
(* input are those read and those of what is still to read.                   *)
EXTENDS KubeChecks, WellFoundedInduction, SequenceTheorems, TLAPS

-----------------------------------------------------------------------------
(* FlattenSeq, for sequences of any length.                                  *)

\* Induction, with the property given as a set.
LEMMA Reaches ==
  ASSUME NEW T, 0 \in T, \A k \in Nat : k \in T => k + 1 \in T
  PROVE  Nat \subseteq T
<1> DEFINE Missing == Nat \ T
           R == OpToRel(<, Nat)
<1>1. IsWellFoundedOn(R, Nat) /\ \A x, y \in Nat : y < x => <<y, x>> \in R
  BY NatLessThanWellFounded DEF OpToRel
<1> HIDE DEF R
<1>2. ASSUME Missing # {} PROVE FALSE
  <2>1. PICK x \in Missing : \A y \in Missing : ~(<<y, x>> \in R)
    BY <1>1, <1>2, WFMin
  <2>2. x # 0 /\ x - 1 \in Nat /\ x - 1 < x
    OBVIOUS
  <2>3. x - 1 \in T
    BY <1>1, <2>1, <2>2
  <2> QED BY <2>2, <2>3
<1> QED BY <1>2

LEMMA Associative ==
  ASSUME NEW S
  PROVE  \A a, b, c \in Seq(S) : (a \o b) \o c = a \o (b \o c)
<1>1. ASSUME NEW a \in Seq(S), NEW b \in Seq(S), NEW c \in Seq(S)
      PROVE  (a \o b) \o c = a \o (b \o c)
  BY <1>1, ConcatAssociative
<1> QED BY <1>1

\* The function FlattenSeq is defined by.
Flattens(f, s, n) == f = [i \in 1..n |-> IF i = 1 THEN s[i] ELSE f[i - 1] \o s[i]]

LEMMA FlattensExists ==
  ASSUME NEW s, NEW n \in Nat
  PROVE  \E f : Flattens(f, s, n)
<1> DEFINE T == {k \in Nat : \E f : Flattens(f, s, k)}
<1>1. 0 \in T
  <2> DEFINE f == [i \in 1..0 |-> << >>]
  <2>1. Flattens(f, s, 0)
    BY DEF Flattens
  <2> QED BY <2>1
<1>2. ASSUME NEW k \in Nat, k \in T PROVE k + 1 \in T
  <2>1. PICK f : Flattens(f, s, k)
    BY <1>2
  <2> DEFINE F(g, i) == IF i = 1 THEN s[i] ELSE g[i - 1] \o s[i]
             h == [i \in 1..(k + 1) |-> F(f, i)]
  <2>2. \A i \in 1..k : f[i] = F(f, i)
    BY <2>1 DEF Flattens
  <2>3. \A i \in 1..k : h[i] = f[i]
    BY <2>2
  <2>4. \A i \in 1..(k + 1) : i # 1 => i - 1 \in 1..k
    OBVIOUS
  <2>5. \A i \in 1..(k + 1) : F(f, i) = F(h, i)
    <3> HIDE DEF h
    <3> QED BY <2>3, <2>4
  <2>6. h = [i \in 1..(k + 1) |-> F(h, i)]
    <3>1. h = [i \in 1..(k + 1) |-> F(f, i)]
      OBVIOUS
    <3> HIDE DEF h, F
    <3> QED BY <2>5, <3>1
  <2>7. Flattens(h, s, k + 1)
    <3> HIDE DEF h
    <3> QED BY <2>6 DEF Flattens
  <2> HIDE DEF h
  <2> QED BY <2>7
<1>3. Nat \subseteq T
  <2> HIDE DEF T
  <2> QED BY <1>1, <1>2, Reaches
<1> QED BY <1>3 DEF T

\* What is there after each piece.
Partials(g, s, S) ==
    /\ g \in [0..Len(s) -> Seq(S)]
    /\ g[0] = << >>
    /\ \A i \in 1..Len(s) : g[i] = g[i - 1] \o s[i]
    /\ FlattenSeq(s) = g[Len(s)]

LEMMA PartialsExist ==
  ASSUME NEW S, NEW s \in Seq(Seq(S))
  PROVE  \E g : Partials(g, s, S)
<1> DEFINE n == Len(s)
<1>1. n \in Nat /\ DOMAIN s = 1..n /\ \A i \in 1..n : s[i] \in Seq(S)
  OBVIOUS
<1>2. PICK f : f = CHOOSE x : Flattens(x, s, n)
  OBVIOUS
<1>3. Flattens(f, s, n)
  BY <1>1, <1>2, FlattensExists
<1>4. FlattenSeq(s) = IF n = 0 THEN s ELSE f[n]
  BY <1>2 DEF FlattenSeq, Flattens
<1> DEFINE g == [i \in 0..n |-> IF i = 0 THEN << >> ELSE f[i]]
<1>5. g[0] = << >> /\ DOMAIN g = 0..n /\ \A i \in 1..n : g[i] = f[i]
  BY <1>1
<1>6. \A i \in 1..n : f[i] = IF i = 1 THEN s[i] ELSE f[i - 1] \o s[i]
  BY <1>3 DEF Flattens
<1>7. ASSUME NEW i \in 1..n PROVE g[i] = g[i - 1] \o s[i]
  <2>1. CASE i = 1
    <3>1. g[i] = s[i] /\ g[i - 1] = << >>
      BY <1>5, <1>6, <2>1
    <3>2. << >> \o s[i] = s[i]
      BY <1>1
    <3> QED BY <3>1, <3>2
  <2>2. CASE i # 1
    <3>1. i - 1 \in 1..n
      BY <1>1, <2>2
    <3> QED BY <1>5, <1>6, <2>2, <3>1
  <2> QED BY <2>1, <2>2
<1>8. FlattenSeq(s) = g[n]
  <2>1. CASE n = 0
    <3>1. s = << >>
      BY <2>1
    <3> QED BY <1>4, <1>5, <2>1, <3>1
  <2>2. CASE n # 0
    <3>1. n \in 1..n
      BY <1>1, <2>2
    <3> QED BY <1>4, <1>5, <2>2, <3>1
  <2> QED BY <2>1, <2>2
<1> HIDE DEF g, n
<1> DEFINE T == {k \in Nat : k <= n => g[k] \in Seq(S)}
<1>9. 0 \in T
  <2>1. << >> \in Seq(S)
    OBVIOUS
  <2> QED BY <1>5, <2>1
<1>10. ASSUME NEW k \in Nat, k \in T PROVE k + 1 \in T
  <2> SUFFICES ASSUME k + 1 <= n PROVE g[k + 1] \in Seq(S)
    OBVIOUS
  <2>1. k + 1 \in 1..n /\ k <= n /\ (k + 1) - 1 = k
    BY <1>1
  <2>2. g[k + 1] = g[k] \o s[k + 1]
    BY <1>7, <2>1
  <2>3. g[k] \in Seq(S) /\ s[k + 1] \in Seq(S)
    BY <1>1, <1>10, <2>1
  <2> QED BY <2>2, <2>3
<1>11. \A k \in 0..n : g[k] \in Seq(S)
  <2>1. Nat \subseteq T
    <3> HIDE DEF T
    <3> QED BY <1>9, <1>10, Reaches
  <2> QED BY <1>1, <2>1
<1>12. g \in [0..n -> Seq(S)]
  <2>1. g = [i \in 0..n |-> g[i]]
    BY DEF g
  <2> QED BY <1>11, <2>1
<1> QED BY <1>5, <1>7, <1>8, <1>12 DEF Partials, n

LEMMA FlatIn ==
  ASSUME NEW S, NEW s \in Seq(Seq(S))
  PROVE  FlattenSeq(s) \in Seq(S)
<1>1. PICK g : Partials(g, s, S)
  BY PartialsExist
<1>2. Len(s) \in 0..Len(s)
  OBVIOUS
<1> QED BY <1>1, <1>2 DEF Partials

LEMMA FlatConcat ==
  ASSUME NEW S, NEW s \in Seq(Seq(S)), NEW t \in Seq(Seq(S))
  PROVE  FlattenSeq(s \o t) = FlattenSeq(s) \o FlattenSeq(t)
<1> DEFINE m == Len(s)
           n == Len(t)
           u == s \o t
<1>1. /\ m \in Nat /\ n \in Nat /\ u \in Seq(Seq(S)) /\ Len(u) = m + n
      /\ \A i \in 1..m : u[i] = s[i]
      /\ \A i \in 1..n : u[m + i] = t[i] /\ t[i] \in Seq(S)
  OBVIOUS
<1>2. PICK g : Partials(g, s, S)
  BY PartialsExist
<1>3. PICK h : Partials(h, t, S)
  BY PartialsExist
<1> HIDE DEF m, n, u
<1>4. PICK k : Partials(k, u, S)
  BY <1>1, PartialsExist
<1>5. /\ g[0] = << >> /\ \A i \in 1..m : g[i] = g[i - 1] \o s[i]
      /\ h[0] = << >> /\ \A i \in 1..n : h[i] = h[i - 1] \o t[i]
      /\ k[0] = << >> /\ \A i \in 1..(m + n) : k[i] = k[i - 1] \o u[i]
      /\ g[m] \in Seq(S) /\ \A i \in 0..n : h[i] \in Seq(S)
  <2>1. Len(s) = m /\ Len(t) = n /\ Len(u) = m + n /\ m \in 0..m
    BY <1>1 DEF m, n
  <2> QED BY <1>2, <1>3, <1>4, <2>1 DEF Partials
<1>6. \A i \in 0..m : k[i] = g[i]
  <2> DEFINE T == {i \in Nat : i <= m => k[i] = g[i]}
  <2>1. 0 \in T
    BY <1>5
  <2>2. ASSUME NEW i \in Nat, i \in T PROVE i + 1 \in T
    <3> SUFFICES ASSUME i + 1 <= m PROVE k[i + 1] = g[i + 1]
      OBVIOUS
    <3>1. i + 1 \in 1..m /\ i + 1 \in 1..(m + n) /\ (i + 1) - 1 = i /\ i <= m
      BY <1>1
    <3> QED BY <1>1, <1>5, <2>2, <3>1
  <2>3. Nat \subseteq T
    <3> HIDE DEF T
    <3> QED BY <2>1, <2>2, Reaches
  <2> QED BY <1>1, <2>3
<1>7. \A i \in 0..n : k[m + i] = g[m] \o h[i]
  <2> DEFINE P(i) == k[m + i] = g[m] \o h[i]
             T == {i \in Nat : i <= n => P(i)}
  <2>1. 0 \in T
    <3>1. m \in 0..m /\ m + 0 = m
      BY <1>1
    <3>2. g[m] \o << >> = g[m]
      BY <1>5
    <3> QED BY <1>5, <1>6, <3>1, <3>2
  <2>2. ASSUME NEW i \in Nat, i \in T PROVE i + 1 \in T
    <3> SUFFICES ASSUME i + 1 <= n PROVE P(i + 1)
      <4> HIDE DEF P
      <4> QED OBVIOUS
    <3>1. /\ i + 1 \in 1..n /\ i \in 0..n /\ m + (i + 1) \in 1..(m + n)
          /\ (m + (i + 1)) - 1 = m + i /\ (i + 1) - 1 = i
      BY <1>1
    <3>2. k[m + (i + 1)] = k[m + i] \o u[m + (i + 1)]
      BY <1>5, <3>1
    <3>3. P(i)
      <4> HIDE DEF P
      <4> QED BY <2>2, <3>1
    <3>4. u[m + (i + 1)] = t[i + 1]
      BY <1>1, <3>1
    <3>5. h[i] \in Seq(S) /\ t[i + 1] \in Seq(S) /\ g[m] \in Seq(S)
      BY <1>1, <1>5, <3>1
    <3>6. \A a, b, c \in Seq(S) : (a \o b) \o c = a \o (b \o c)
      BY Associative, SMTT(30)
    <3>7. h[i + 1] = h[i] \o t[i + 1]
      BY <1>5, <3>1
    <3>8. (g[m] \o h[i]) \o t[i + 1] = g[m] \o (h[i] \o t[i + 1])
      BY <3>5, <3>6, Zenon
    <3>9. k[m + (i + 1)] = (g[m] \o h[i]) \o t[i + 1]
      BY <3>2, <3>3, <3>4, Zenon
    <3> QED BY <3>7, <3>8, <3>9, Zenon
  <2>3. Nat \subseteq T
    <3> HIDE DEF T
    <3> QED BY <2>1, <2>2, Reaches
  <2>4. \A i \in 0..n : i \in Nat /\ i <= n
    BY <1>1
  <2> QED BY <2>3, <2>4
<1>8. k[m + n] = g[m] \o h[n]
  <2>1. n \in 0..n
    BY <1>1
  <2> QED BY <1>7, <2>1
<1> QED BY <1>1, <1>2, <1>3, <1>4, <1>8 DEF Partials, m, n, u

LEMMA FlatOne ==
  ASSUME NEW S, NEW s \in Seq(S)
  PROVE  FlattenSeq(<< s >>) = s
<1> DEFINE u == << s >>
<1>1. u \in Seq(Seq(S)) /\ Len(u) = 1 /\ u[1] = s
  OBVIOUS
<1>2. PICK g : Partials(g, u, S)
  BY <1>1, PartialsExist
<1> HIDE DEF u
<1>3. FlattenSeq(u) = << >> \o s
  <2>1. g[0] = << >> /\ g[1] = g[1 - 1] \o s /\ FlattenSeq(u) = g[1]
    BY <1>1, <1>2 DEF Partials
  <2> QED BY <2>1
<1> QED BY <1>3 DEF u

-----------------------------------------------------------------------------
(* Opening Lists, and keeping what is known.                                 *)

Unopened(docs) ==
    [i \in DOMAIN docs |-> IF docs[i].form = "list" THEN docs[i].items ELSE <<docs[i]>>]

GoesTo(l, doc) == doc.form = "object" /\ l \in ListsOf(doc.gvk)

Chosen(l, docs) == [i \in DOMAIN docs |-> IF GoesTo(l, docs[i]) THEN <<docs[i]>> ELSE << >>]

Mapped(f, s) == [i \in DOMAIN s |-> f[s[i]]]

LEMMA MapConcat ==
  ASSUME NEW R, NEW f \in [Documents -> R],
         NEW a \in Seq(Documents), NEW b \in Seq(Documents)
  PROVE  /\ Mapped(f, a) \in Seq(R)
         /\ Mapped(f, a \o b) = Mapped(f, a) \o Mapped(f, b)
<1> DEFINE fa == [i \in 1..Len(a) |-> f[a[i]]]
           fb == [i \in 1..Len(b) |-> f[b[i]]]
           fc == [i \in 1..(Len(a) + Len(b)) |-> f[(a \o b)[i]]]
<1>1. /\ DOMAIN a = 1..Len(a) /\ DOMAIN b = 1..Len(b) /\ Len(a) \in Nat /\ Len(b) \in Nat
      /\ DOMAIN (a \o b) = 1..(Len(a) + Len(b))
      /\ \A i \in 1..Len(a) : a[i] \in Documents /\ (a \o b)[i] = a[i]
      /\ \A i \in 1..Len(b) : b[i] \in Documents /\ (a \o b)[Len(a) + i] = b[i]
  OBVIOUS
<1>2. /\ fa \in Seq(R) /\ Len(fa) = Len(a) /\ \A i \in 1..Len(a) : fa[i] = f[a[i]]
      /\ fb \in Seq(R) /\ Len(fb) = Len(b) /\ \A i \in 1..Len(b) : fb[i] = f[b[i]]
  BY <1>1
<1>3. /\ DOMAIN fc = 1..(Len(a) + Len(b))
      /\ \A i \in 1..(Len(a) + Len(b)) : fc[i] = f[(a \o b)[i]]
      /\ fc = [i \in 1..(Len(a) + Len(b)) |-> fc[i]]
  OBVIOUS
<1> HIDE DEF fa, fb, fc
<1>4. /\ fa \o fb \in Seq(R) /\ Len(fa \o fb) = Len(a) + Len(b)
      /\ \A i \in 1..(Len(a) + Len(b)) :
            (fa \o fb)[i] = IF i <= Len(a) THEN fa[i] ELSE fb[i - Len(a)]
  <2>1. fa \in Seq(R) /\ fb \in Seq(R) /\ Len(fa) = Len(a) /\ Len(fb) = Len(b)
    BY <1>2
  <2>2. fa \o fb \in Seq(R) /\ Len(fa \o fb) = Len(fa) + Len(fb)
    BY <2>1, ConcatProperties
  <2>3. \A i \in 1..(Len(fa) + Len(fb)) :
            (fa \o fb)[i] = IF i <= Len(fa) THEN fa[i] ELSE fb[i - Len(fa)]
    BY <2>1, ConcatProperties
  <2> QED BY <2>1, <2>2, <2>3
<1>5. ASSUME NEW i \in 1..(Len(a) + Len(b))
      PROVE  fc[i] = IF i <= Len(a) THEN fa[i] ELSE fb[i - Len(a)]
  <2>1. CASE i <= Len(a)
    <3>1. i \in 1..Len(a)
      BY <1>1, <2>1
    <3> QED BY <1>1, <1>2, <1>3, <2>1, <3>1
  <2>2. CASE ~(i <= Len(a))
    <3>1. i - Len(a) \in 1..Len(b) /\ Len(a) + (i - Len(a)) = i
      BY <1>1, <2>2
    <3> QED BY <1>1, <1>2, <1>3, <2>2, <3>1
  <2> QED BY <2>1, <2>2
<1>6. fc \in Seq(R) /\ Len(fc) = Len(a) + Len(b)
  <2>1. \A i \in 1..(Len(a) + Len(b)) : fc[i] = (fa \o fb)[i]
    BY <1>4, <1>5
  <2>2. \A i \in 1..(Len(a) + Len(b)) : (fa \o fb)[i] \in R
    BY <1>4
  <2> QED BY <1>1, <1>3, <2>1, <2>2
<1>7. fc = fa \o fb
  BY <1>4, <1>5, <1>6, SeqEqual
<1> QED BY <1>1, <1>2, <1>7 DEF fa, fb, fc, Mapped

LEMMA MapsConcat ==
  ASSUME NEW a \in Seq(Documents), NEW b \in Seq(Documents), NEW l
  PROVE  /\ Unopened(a \o b) = Unopened(a) \o Unopened(b)
         /\ Chosen(l, a \o b) = Chosen(l, a) \o Chosen(l, b)
         /\ Unopened(a) \in Seq(Seq(Documents)) /\ Chosen(l, a) \in Seq(Seq(Documents))
<1> DEFINE U == [d \in Documents |-> IF d.form = "list" THEN d.items ELSE <<d>>]
           C == [d \in Documents |-> IF GoesTo(l, d) THEN <<d>> ELSE << >>]
<1>1. U \in [Documents -> Seq(Documents)] /\ C \in [Documents -> Seq(Documents)]
  <2>1. ASSUME NEW d \in Documents PROVE << >> \in Seq(Documents) /\ <<d>> \in Seq(Documents)
    OBVIOUS
  <2> QED BY <2>1, DocumentsAssumption
<1>2. ASSUME NEW s \in Seq(Documents)
      PROVE  Unopened(s) = Mapped(U, s) /\ Chosen(l, s) = Mapped(C, s)
  <2>1. \A i \in DOMAIN s : s[i] \in Documents
    OBVIOUS
  <2> QED BY <2>1 DEF Unopened, Chosen, Mapped
<1> HIDE DEF U, C
<1>3. a \o b \in Seq(Documents)
  OBVIOUS
<1>4. ASSUME NEW R, NEW f \in [Documents -> R]
      PROVE  Mapped(f, a) \in Seq(R) /\ Mapped(f, a \o b) = Mapped(f, a) \o Mapped(f, b)
  BY MapConcat, ZenonT(30)
<1>5. /\ Mapped(U, a) \in Seq(Seq(Documents)) /\ Mapped(C, a) \in Seq(Seq(Documents))
      /\ Mapped(U, a \o b) = Mapped(U, a) \o Mapped(U, b)
      /\ Mapped(C, a \o b) = Mapped(C, a) \o Mapped(C, b)
  BY <1>1, <1>4
<1> QED BY <1>2, <1>3, <1>5

LEMMA OpenedConcat ==
  ASSUME NEW a \in Seq(Documents), NEW b \in Seq(Documents), NEW l
  PROVE  /\ Opened(a \o b) = Opened(a) \o Opened(b) /\ Opened(a) \in Seq(Documents)
         /\ Known(l, a \o b) = Known(l, a) \o Known(l, b) /\ Known(l, a) \in Seq(Documents)
<1>1. \A s : Opened(s) = FlattenSeq(Unopened(s)) /\ Known(l, s) = FlattenSeq(Chosen(l, s))
  BY DEF Opened, Known, Unopened, Chosen, GoesTo
<1>2. /\ Unopened(a) \in Seq(Seq(Documents)) /\ Unopened(b) \in Seq(Seq(Documents))
      /\ Chosen(l, a) \in Seq(Seq(Documents)) /\ Chosen(l, b) \in Seq(Seq(Documents))
      /\ Unopened(a \o b) = Unopened(a) \o Unopened(b)
      /\ Chosen(l, a \o b) = Chosen(l, a) \o Chosen(l, b)
  BY MapsConcat
<1>3. Opened(a \o b) = Opened(a) \o Opened(b) /\ Opened(a) \in Seq(Documents)
  BY <1>1, <1>2, FlatConcat, FlatIn
<1>4. Known(l, a \o b) = Known(l, a) \o Known(l, b) /\ Known(l, a) \in Seq(Documents)
  <2> DEFINE A == Chosen(l, a)
             B == Chosen(l, b)
  <2>1. A \in Seq(Seq(Documents)) /\ B \in Seq(Seq(Documents)) /\ Chosen(l, a \o b) = A \o B
    BY <1>2
  <2>2. Known(l, a) = FlattenSeq(A) /\ Known(l, b) = FlattenSeq(B)
        /\ Known(l, a \o b) = FlattenSeq(A \o B)
    BY <1>1, <2>1
  <2> HIDE DEF A, B
  <2>3. FlattenSeq(A \o B) = FlattenSeq(A) \o FlattenSeq(B)
    BY <2>1, FlatConcat
  <2>4. FlattenSeq(A) \in Seq(Documents)
    BY <2>1, FlatIn
  <2> QED BY <2>2, <2>3, <2>4
<1> QED BY <1>3, <1>4

LEMMA OpenedNone == Opened(<< >>) = << >> /\ \A l : Known(l, << >>) = << >>
<1>1. \A i \in DOMAIN << >> : FALSE
  OBVIOUS
<1> QED BY <1>1 DEF Opened, Known, FlattenSeq

LEMMA OpenedOne ==
  ASSUME NEW d \in Documents, NEW l
  PROVE  /\ Opened(<<d>>) = IF d.form = "list" THEN d.items ELSE <<d>>
         /\ Known(l, <<d>>) = IF GoesTo(l, d) THEN <<d>> ELSE << >>
<1> DEFINE U == IF d.form = "list" THEN d.items ELSE <<d>>
           C == IF GoesTo(l, d) THEN <<d>> ELSE << >>
<1>1. Opened(<<d>>) = FlattenSeq(<< U >>) /\ Known(l, <<d>>) = FlattenSeq(<< C >>)
  <2>1. [i \in DOMAIN <<d>> |->
           IF <<d>>[i].form = "list" THEN <<d>>[i].items ELSE << <<d>>[i] >>] = << U >>
    OBVIOUS
  <2>2. [i \in DOMAIN <<d>> |-> IF GoesTo(l, <<d>>[i]) THEN << <<d>>[i] >> ELSE << >>] = << C >>
    OBVIOUS
  <2> QED BY <2>1, <2>2 DEF Opened, Known, GoesTo
<1>2. U \in Seq(Documents) /\ C \in Seq(Documents)
  <2>1. << >> \in Seq(Documents) /\ <<d>> \in Seq(Documents)
    OBVIOUS
  <2> QED BY <2>1, DocumentsAssumption
<1> QED BY <1>1, <1>2, FlatOne

\* What contains no List stays as it is.
LEMMA OpenedFlat ==
  ASSUME NEW s \in Seq({d \in Documents : d.form # "list"})
  PROVE  Opened(s) = s
<1> DEFINE Q == {d \in Documents : d.form # "list"}
           n == Len(s)
           u == [i \in 1..n |-> << s[i] >>]
<1>1. n \in Nat /\ DOMAIN s = 1..n /\ \A i \in 1..n : s[i] \in Q
  OBVIOUS
<1>2. Opened(s) = FlattenSeq(u)
  <2>1. [i \in DOMAIN s |-> IF s[i].form = "list" THEN s[i].items ELSE <<s[i]>>] = u
    BY <1>1
  <2> QED BY <2>1 DEF Opened
<1>3. u \in Seq(Seq(Q)) /\ Len(u) = n /\ \A i \in 1..n : u[i] = << s[i] >>
  BY <1>1
<1> HIDE DEF n, u, Q
<1>4. PICK g : Partials(g, u, Q)
  BY <1>3, PartialsExist
<1>5. g[0] = << >> /\ FlattenSeq(u) = g[n] /\ \A i \in 1..n : g[i] = g[i - 1] \o << s[i] >>
  BY <1>3, <1>4 DEF Partials
<1> DEFINE T == {k \in Nat : k <= n => g[k] = SubSeq(s, 1, k)}
<1>6. 0 \in T
  <2>1. SubSeq(s, 1, 0) = << >>
    OBVIOUS
  <2> QED BY <1>5, <2>1
<1>7. ASSUME NEW k \in Nat, k \in T PROVE k + 1 \in T
  <2> SUFFICES ASSUME k + 1 <= n PROVE g[k + 1] = SubSeq(s, 1, k + 1)
    OBVIOUS
  <2>1. k + 1 \in 1..n /\ (k + 1) - 1 = k /\ k <= n
    BY <1>1
  <2>2. SubSeq(s, 1, k) \o << s[k + 1] >> = SubSeq(s, 1, k + 1)
    BY <1>1, <2>1 DEF n
  <2> QED BY <1>5, <1>7, <2>1, <2>2
<1>8. Nat \subseteq T
  <2> HIDE DEF T
  <2> QED BY <1>6, <1>7, Reaches
<1>9. SubSeq(s, 1, n) = s
  BY DEF n
<1>10. g[n] = SubSeq(s, 1, n)
  BY <1>1, <1>8
<1> QED BY <1>2, <1>5, <1>9, <1>10

\* What is left to open, level by level.
Openings(g, docs, n) == g = [k \in 0..n |-> IF k = 0 THEN docs ELSE Opened(g[k - 1])]

LEMMA OpeningsExist ==
  ASSUME NEW docs, NEW n \in Nat
  PROVE  \E g : Openings(g, docs, n)
<1> DEFINE T == {m \in Nat : \E g : Openings(g, docs, m)}
<1>1. 0 \in T
  <2> DEFINE g == [k \in 0..0 |-> docs]
  <2>1. Openings(g, docs, 0)
    BY DEF Openings
  <2> QED BY <2>1
<1>2. ASSUME NEW m \in Nat, m \in T PROVE m + 1 \in T
  <2>1. PICK f : Openings(f, docs, m)
    BY <1>2
  <2> DEFINE F(g, k) == IF k = 0 THEN docs ELSE Opened(g[k - 1])
             h == [k \in 0..(m + 1) |-> F(f, k)]
  <2>2. \A k \in 0..m : f[k] = F(f, k)
    BY <2>1 DEF Openings
  <2>3. \A k \in 0..m : h[k] = f[k]
    BY <2>2
  <2>4. \A k \in 0..(m + 1) : k # 0 => k - 1 \in 0..m
    OBVIOUS
  <2>5. \A k \in 0..(m + 1) : F(f, k) = F(h, k)
    <3> HIDE DEF h
    <3> QED BY <2>3, <2>4
  <2>6. h = [k \in 0..(m + 1) |-> F(h, k)]
    <3>1. h = [k \in 0..(m + 1) |-> F(f, k)]
      OBVIOUS
    <3> HIDE DEF h, F
    <3> QED BY <2>5, <3>1
  <2>7. Openings(h, docs, m + 1)
    <3> HIDE DEF h
    <3> QED BY <2>6 DEF Openings
  <2> HIDE DEF h
  <2> QED BY <2>7
<1>3. Nat \subseteq T
  <2> HIDE DEF T
  <2> QED BY <1>1, <1>2, Reaches
<1> QED BY <1>3 DEF T

\* The leaves are at the last level.
Levels(g, docs) ==
    /\ g[0] = docs /\ g[Nesting] = Leaves(docs)
    /\ \A k \in Nat : k + 1 <= Nesting => g[k + 1] = Opened(g[k])

LEMMA LevelsExist ==
  ASSUME NEW docs
  PROVE  \E g : Levels(g, docs)
<1>1. Nesting \in Nat
  BY NestingAssumption
<1>2. PICK g : g = CHOOSE x : Openings(x, docs, Nesting)
  OBVIOUS
<1>3. Openings(g, docs, Nesting)
  BY <1>1, <1>2, OpeningsExist
<1>4. g[Nesting] = Leaves(docs)
  BY <1>2 DEF Leaves, Openings
<1>5. \A k \in 0..Nesting : g[k] = IF k = 0 THEN docs ELSE Opened(g[k - 1])
  BY <1>3 DEF Openings
<1>6. g[0] = docs
  BY <1>1, <1>5
<1>7. ASSUME NEW k \in Nat, k + 1 <= Nesting PROVE g[k + 1] = Opened(g[k])
  <2>1. k + 1 \in 0..Nesting /\ k + 1 # 0 /\ (k + 1) - 1 = k
    BY <1>1, <1>7
  <2> QED BY <1>5, <2>1
<1> QED BY <1>4, <1>6, <1>7 DEF Levels

LEMMA LeavesConcat ==
  ASSUME NEW a \in Seq(Documents), NEW b \in Seq(Documents)
  PROVE  Leaves(a) \in Seq(Documents) /\ Leaves(a \o b) = Leaves(a) \o Leaves(b)
<1>1. PICK f : Levels(f, a)
  BY LevelsExist
<1>2. PICK g : Levels(g, b)
  BY LevelsExist
<1>3. PICK h : Levels(h, a \o b)
  BY LevelsExist
<1> DEFINE P(k) == f[k] \in Seq(Documents) /\ g[k] \in Seq(Documents) /\ h[k] = f[k] \o g[k]
           T == {k \in Nat : k <= Nesting => P(k)}
<1>4. 0 \in T
  BY <1>1, <1>2, <1>3 DEF Levels
<1>5. ASSUME NEW k \in Nat, k \in T PROVE k + 1 \in T
  <2> SUFFICES ASSUME k + 1 <= Nesting PROVE P(k + 1)
    <3> HIDE DEF P
    <3> QED OBVIOUS
  <2>1. P(k)
    <3> HIDE DEF P
    <3>1. k <= Nesting
      BY NestingAssumption
    <3> QED BY <1>5, <3>1
  <2>2. /\ f[k + 1] = Opened(f[k]) /\ g[k + 1] = Opened(g[k])
        /\ h[k + 1] = Opened(f[k] \o g[k])
    BY <1>1, <1>2, <1>3, <2>1 DEF Levels
  <2>3. f[k] \in Seq(Documents) /\ g[k] \in Seq(Documents)
    BY <2>1
  <2>4. Opened(f[k]) \in Seq(Documents) /\ Opened(g[k]) \in Seq(Documents)
    BY <2>3, OpenedConcat
  <2>5. Opened(f[k] \o g[k]) = Opened(f[k]) \o Opened(g[k])
    BY <2>3, OpenedConcat
  <2> QED BY <2>2, <2>4, <2>5
<1> HIDE DEF P
<1>6. Nat \subseteq T
  <2> HIDE DEF T
  <2> QED BY <1>4, <1>5, Reaches
<1>7. P(Nesting)
  BY <1>6, NestingAssumption
<1> QED BY <1>1, <1>2, <1>3, <1>7 DEF P, Levels

\* Each opening leaves the Lists one less deep.
UpTo(k) == {d \in Documents : d.form = "list" => Depth[d] <= k}

LEMMA OpenedShallower ==
  ASSUME NEW k \in Nat, NEW s \in Seq(UpTo(k + 1))
  PROVE  Opened(s) \in Seq(UpTo(k))
<1> DEFINE Q == UpTo(k)
           u == [i \in DOMAIN s |-> IF s[i].form = "list" THEN s[i].items ELSE <<s[i]>>]
<1>1. DOMAIN s = 1..Len(s) /\ Len(s) \in Nat /\ \A i \in DOMAIN s : s[i] \in UpTo(k + 1)
  OBVIOUS
<1>2. ASSUME NEW i \in DOMAIN s PROVE u[i] \in Seq(Q)
  <2>1. s[i] \in Documents /\ (s[i].form = "list" => Depth[s[i]] <= k + 1)
    BY <1>1 DEF UpTo
  <2>2. CASE s[i].form # "list"
    <3>1. s[i] \in Q
      BY <2>1, <2>2 DEF UpTo
    <3>2. <<s[i]>> \in Seq(Q)
      BY <3>1
    <3> QED BY <2>2, <3>2
  <2>3. CASE s[i].form = "list"
    <3> DEFINE t == s[i].items
    <3>1. t \in Seq(Documents)
      BY <2>1, <2>3, DocumentsAssumption
    <3>2. \A e \in Range(t) : Depth[e] < Depth[s[i]]
      BY <2>1, <2>3, NestingAssumption
    <3>3. ASSUME NEW j \in 1..Len(t) PROVE t[j] \in Q
      <4>1. t[j] \in Documents /\ t[j] \in Range(t)
        BY <3>1 DEF Range
      <4>2. Depth[t[j]] < Depth[s[i]] /\ Depth[s[i]] <= k + 1
        BY <2>1, <2>3, <3>2, <4>1
      <4>3. Depth[t[j]] \in Nat /\ Depth[s[i]] \in Nat
        BY <2>1, <4>1, NestingAssumption
      <4>4. Depth[t[j]] <= k
        BY <4>2, <4>3
      <4> QED BY <4>1, <4>4 DEF UpTo
    <3>4. t \in Seq(Q)
      <4> HIDE DEF t, Q
      <4> QED BY <3>1, <3>3
    <3>5. u[i] = t
      BY <2>3
    <3> QED BY <3>4, <3>5
  <2> QED BY <2>2, <2>3
<1>3. DOMAIN u = 1..Len(s) /\ (\A i \in 1..Len(s) : u[i] \in Seq(Q))
      /\ u = [i \in 1..Len(s) |-> u[i]]
  BY <1>1, <1>2
<1>4. Opened(s) = FlattenSeq(u)
  BY DEF Opened
<1> HIDE DEF u, Q
<1>5. u \in Seq(Seq(Q))
  BY <1>1, <1>3
<1> QED BY <1>4, <1>5, FlatIn DEF Q

\* The leaves of a List are those of its items.
LEMMA LeavesOfList ==
  ASSUME NEW d \in Documents, d.form = "list"
  PROVE  Leaves(<<d>>) = Leaves(d.items)
<1> DEFINE N == Nesting - 1
<1>1. Nesting \in Nat /\ N \in Nat /\ N + 1 = Nesting /\ Depth[d] <= N + 1
  BY NestingAssumption
<1>2. PICK g : Levels(g, d.items)
  BY LevelsExist
<1>3. PICK h : Levels(h, <<d>>)
  BY LevelsExist
<1> HIDE DEF N
<1>4. d.items \in Seq(Documents)
  BY DocumentsAssumption
<1>5. d.items \in Seq(UpTo(N))
  <2>1. ASSUME NEW j \in 1..Len(d.items) PROVE d.items[j] \in UpTo(N)
    <3>1. d.items[j] \in Documents /\ d.items[j] \in Range(d.items)
      BY <1>4 DEF Range
    <3>2. Depth[d.items[j]] < Depth[d]
      BY <3>1, NestingAssumption
    <3>3. Depth[d.items[j]] \in Nat /\ Depth[d] \in Nat
      BY <3>1, NestingAssumption
    <3>4. Depth[d.items[j]] <= N
      BY <1>1, <3>2, <3>3
    <3> QED BY <3>1, <3>4 DEF UpTo
  <2> QED BY <1>4, <2>1
<1> DEFINE P(k) == g[k] \in Seq(UpTo(N - k)) /\ h[k + 1] = g[k]
           T == {k \in Nat : k <= N => P(k)}
<1>6. 0 \in T
  <2>1. N - 0 = N /\ 0 + 1 <= Nesting /\ 0 + 1 = 1
    BY <1>1
  <2>2. h[0 + 1] = Opened(h[0])
    BY <1>3, <2>1 DEF Levels
  <2>3. h[1] = d.items
    BY <1>3, <2>1, <2>2, OpenedOne DEF Levels
  <2>4. g[0] = d.items
    BY <1>2 DEF Levels
  <2> QED BY <1>5, <2>1, <2>3, <2>4
<1>7. ASSUME NEW k \in Nat, k \in T PROVE k + 1 \in T
  <2> SUFFICES ASSUME k + 1 <= N PROVE P(k + 1)
    <3> HIDE DEF P
    <3> QED OBVIOUS
  <2>1. /\ k <= N /\ k + 1 <= Nesting /\ (k + 1) + 1 <= Nesting
        /\ N - (k + 1) \in Nat /\ (N - (k + 1)) + 1 = N - k
    BY <1>1
  <2>2. P(k)
    <3> HIDE DEF P
    <3> QED BY <1>7, <2>1
  <2>3. g[k + 1] = Opened(g[k]) /\ h[(k + 1) + 1] = Opened(h[k + 1])
    BY <1>2, <1>3, <2>1 DEF Levels
  <2>4. Opened(g[k]) \in Seq(UpTo(N - (k + 1)))
    BY <2>1, <2>2, OpenedShallower
  <2> QED BY <2>2, <2>3, <2>4
<1> HIDE DEF P
<1>8. Nat \subseteq T
  <2> HIDE DEF T
  <2> QED BY <1>6, <1>7, Reaches
<1>9. P(N)
  BY <1>1, <1>8
<1>10. g[N] \in Seq({e \in Documents : e.form # "list"})
  <2>1. N - N = 0
    BY <1>1
  <2>2. UpTo(0) = {e \in Documents : e.form # "list"}
    <3>1. ASSUME NEW e \in Documents, e.form = "list" PROVE Depth[e] \in Nat /\ Depth[e] > 0
      BY <3>1, NestingAssumption
    <3> QED BY <3>1 DEF UpTo
  <2> QED BY <1>9, <2>1, <2>2 DEF P
<1>11. g[N + 1] = g[N]
  <2>1. g[N + 1] = Opened(g[N])
    BY <1>1, <1>2 DEF Levels
  <2> QED BY <1>10, <2>1, OpenedFlat
<1>12. h[N + 1] = g[N]
  BY <1>9 DEF P
<1> QED BY <1>1, <1>2, <1>3, <1>11, <1>12 DEF Levels

\* A document that is no List is a leaf.
LEMMA LeavesStay ==
  ASSUME NEW docs, Opened(docs) = docs
  PROVE  Leaves(docs) = docs
<1>1. PICK g : Levels(g, docs)
  BY LevelsExist
<1> DEFINE T == {k \in Nat : k <= Nesting => g[k] = docs}
<1>2. 0 \in T
  BY <1>1 DEF Levels
<1>3. ASSUME NEW k \in Nat, k \in T PROVE k + 1 \in T
  <2> SUFFICES ASSUME k + 1 <= Nesting PROVE g[k + 1] = docs
    OBVIOUS
  <2>1. k <= Nesting
    BY NestingAssumption
  <2>2. g[k + 1] = Opened(g[k]) /\ g[k] = docs
    BY <1>1, <1>3, <2>1 DEF Levels
  <2> QED BY <2>2
<1>4. Nat \subseteq T
  <2> HIDE DEF T
  <2> QED BY <1>2, <1>3, Reaches
<1> QED BY <1>1, <1>4, NestingAssumption DEF Levels

-----------------------------------------------------------------------------
(* The parser.                                                               *)

\* The documents still to read and those on the lists are documents of the input;
\* an object is only on the lists its kind goes to.
Sorted ==
    /\ input \in Inputs /\ todo \in Seq(Documents)
    /\ DOMAIN parsed = ListNames
    /\ \A l \in ListNames :
          /\ parsed[l] \in Seq(Documents)
          /\ \A i \in DOMAIN parsed[l] :
                parsed[l][i].form = "object" /\ l \in ListsOf(parsed[l][i].gvk)
    /\ status \in {"reading", "failed", "parsed", "error", "scored"}

LEMMA ListsAreNamed == \A gvk : ListsOf(gvk) \subseteq ListNames
BY DEF ListsOf, ListNames

LEMMA DecodeItemSorts ==
  ASSUME Sorted, NEW doc \in Documents, doc.form = "object", DecodeItem(doc),
         UNCHANGED input, todo' \in Seq(Documents), status = "reading"
  PROVE  Sorted'
<1>1. parsed' = [l \in ListNames |->
                    IF l \in ListsOf(doc.gvk) THEN Append(parsed[l], doc) ELSE parsed[l]]
  BY DEF DecodeItem
<1>2. ASSUME NEW l \in ListNames
      PROVE  /\ parsed'[l] \in Seq(Documents)
             /\ \A i \in DOMAIN parsed'[l] :
                   parsed'[l][i].form = "object" /\ l \in ListsOf(parsed'[l][i].gvk)
  <2> DEFINE s == parsed[l]
  <2>1. s \in Seq(Documents) /\ \A i \in DOMAIN s : s[i].form = "object" /\ l \in ListsOf(s[i].gvk)
    BY DEF Sorted
  <2> HIDE DEF s
  <2>2. CASE l \in ListsOf(doc.gvk)
    <3>1. parsed'[l] = Append(s, doc)
      BY <1>1, <2>2 DEF s
    <3>2. Append(s, doc) \in Seq(Documents) /\ DOMAIN Append(s, doc) = 1..(Len(s) + 1)
      BY <2>1
    <3>3. ASSUME NEW i \in 1..(Len(s) + 1)
          PROVE  \/ i \in DOMAIN s /\ Append(s, doc)[i] = s[i]
                 \/ Append(s, doc)[i] = doc
      BY <2>1
    <3>4. ASSUME NEW i \in 1..(Len(s) + 1)
          PROVE  Append(s, doc)[i].form = "object" /\ l \in ListsOf(Append(s, doc)[i].gvk)
      BY <2>1, <2>2, <3>3
    <3> QED BY <3>1, <3>2, <3>4
  <2>3. CASE l \notin ListsOf(doc.gvk)
    <3>1. parsed'[l] = s
      BY <1>1, <2>3 DEF s
    <3> QED BY <2>1, <3>1
  <2> QED BY <2>2, <2>3
<1>3. status' \in {"reading", "failed"}
  BY DEF DecodeItem
<1> QED BY <1>1, <1>2, <1>3 DEF Sorted

LEMMA ReadSorts ==
  ASSUME Sorted, ReadDocument
  PROVE  Sorted' /\ status' \in {"reading", "failed"}
<1> DEFINE doc == Head(todo)
<1>1. /\ status = "reading" /\ todo # << >> /\ input' = input
      /\ doc \in Documents /\ Tail(todo) \in Seq(Documents)
  BY DEF Sorted, ReadDocument
<1>2. CASE UNCHANGED parsed /\ todo' = Tail(todo) /\ status' \in {"reading", "failed"}
  BY <1>1, <1>2 DEF Sorted
<1>3. CASE doc.form = "list" /\ OpenList(doc)
  <2>1. doc.items \in Seq(Documents)
    BY <1>1, <1>3, DocumentsAssumption
  <2>2. doc.items \o Tail(todo) \in Seq(Documents)
    BY <1>1, <2>1
  <2>3. /\ todo' \in Seq(Documents) /\ parsed' = parsed
        /\ status' \in {"reading", "failed"}
    BY <1>1, <1>3, <2>2 DEF OpenList
  <2> QED BY <1>1, <2>3 DEF Sorted
<1>4. CASE doc.form = "object" /\ DecodeItem(doc) /\ todo' = Tail(todo)
  <2>1. Sorted'
    BY <1>1, <1>4, DecodeItemSorts
  <2> QED BY <1>1, <1>4, <2>1 DEF DecodeItem
<1>5. \/ UNCHANGED parsed /\ todo' = Tail(todo) /\ status' \in {"reading", "failed"}
      \/ doc.form = "list" /\ OpenList(doc)
      \/ doc.form = "object" /\ DecodeItem(doc) /\ todo' = Tail(todo)
  BY <1>1 DEF ReadDocument
<1> QED BY <1>2, <1>3, <1>4, <1>5

-----------------------------------------------------------------------------
(* What is read is on the lists.                                             *)

\* done are the leaves that have been read.
Read(done, docs, rest, lists) ==
    /\ done \in Seq(Documents)
    /\ Leaves(docs) = done \o Leaves(rest)
    /\ \A l \in ListNames : lists[l] = Known(l, done)
    /\ \A i \in DOMAIN done : done[i].form # "garbled"

Progress ==
    status # "failed" =>
       /\ \E done : Read(done, input, todo, parsed)
       /\ \A i \in DOMAIN parsed.bothMetas : parsed.bothMetas[i].decodes
       /\ status # "reading" => todo = << >>

LEMMA LeavesOfHead ==
  ASSUME NEW d \in Documents, NEW rest \in Seq(Documents)
  PROVE  /\ Leaves(rest) \in Seq(Documents)
         /\ d.form # "list" => Leaves(<<d>> \o rest) = <<d>> \o Leaves(rest)
         /\ d.form = "list" => Leaves(<<d>> \o rest) = Leaves(d.items \o rest)
<1>1. <<d>> \in Seq(Documents)
  OBVIOUS
<1>2. Leaves(rest) \in Seq(Documents)
  BY LeavesConcat
<1>3. Leaves(<<d>> \o rest) = Leaves(<<d>>) \o Leaves(rest)
  BY <1>1, LeavesConcat
<1>4. CASE d.form # "list"
  <2>1. Opened(<<d>>) = <<d>>
    BY <1>4, OpenedOne
  <2>2. Leaves(<<d>>) = <<d>>
    BY <2>1, LeavesStay
  <2> QED BY <1>2, <1>3, <1>4, <2>2
<1>5. CASE d.form = "list"
  <2>1. d.items \in Seq(Documents)
    BY <1>5, DocumentsAssumption
  <2>2. Leaves(<<d>>) = Leaves(d.items)
    BY <1>5, LeavesOfList
  <2>3. Leaves(d.items \o rest) = Leaves(d.items) \o Leaves(rest)
    BY <2>1, LeavesConcat
  <2> QED BY <1>2, <1>3, <1>5, <2>2, <2>3
<1> QED BY <1>4, <1>5

\* The lists after the document, if it is kept.
After(lists, d) ==
    [l \in ListNames |-> IF GoesTo(l, d) THEN Append(lists[l], d) ELSE lists[l]]

\* A document that is no List is read as a whole.
LEMMA ReadOne ==
  ASSUME NEW done, NEW docs, NEW d \in Documents, NEW rest \in Seq(Documents), NEW lists,
         d.form # "list", d.form # "garbled", Read(done, docs, <<d>> \o rest, lists)
  PROVE  Read(done \o <<d>>, docs, rest, After(lists, d))
<1> DEFINE more == done \o <<d>>
           L == Leaves(rest)
<1>1. done \in Seq(Documents) /\ <<d>> \in Seq(Documents) /\ L \in Seq(Documents)
  BY LeavesOfHead DEF Read
<1>2. Leaves(docs) = done \o (<<d>> \o L)
  BY LeavesOfHead DEF Read
<1> HIDE DEF L
<1>3. Leaves(docs) = more \o L
  <2>1. \A a, b, c \in Seq(Documents) : (a \o b) \o c = a \o (b \o c)
    BY Associative, SMTT(30)
  <2>2. (done \o <<d>>) \o L = done \o (<<d>> \o L)
    BY <1>1, <2>1, ZenonT(30)
  <2> QED BY <1>2, <2>2, ZenonT(30)
<1>4. ASSUME NEW l \in ListNames PROVE After(lists, d)[l] = Known(l, more)
  <2> DEFINE list == lists[l]
  <2>1. list = Known(l, done)
    BY DEF Read
  <2>2. Known(l, more) = list \o Known(l, <<d>>) /\ list \in Seq(Documents)
    <3>1. ASSUME NEW a \in Seq(Documents), NEW b \in Seq(Documents)
          PROVE  Known(l, a \o b) = Known(l, a) \o Known(l, b) /\ Known(l, a) \in Seq(Documents)
      BY OpenedConcat
    <3>2. Known(l, done \o <<d>>) = Known(l, done) \o Known(l, <<d>>)
      BY <1>1, <3>1
    <3>3. Known(l, done) \in Seq(Documents)
      BY <1>1, <3>1
    <3> QED BY <2>1, <3>2, <3>3
  <2>3. After(lists, d)[l] = IF GoesTo(l, d) THEN Append(list, d) ELSE list
    BY DEF After
  <2> HIDE DEF list, more
  <2>4. CASE GoesTo(l, d)
    <3>1. Known(l, <<d>>) = <<d>>
      BY <2>4, OpenedOne
    <3>2. list \o <<d>> = Append(list, d)
      BY <2>2
    <3> QED BY <2>2, <2>3, <2>4, <3>1, <3>2
  <2>5. CASE ~GoesTo(l, d)
    <3>1. Known(l, <<d>>) = << >>
      BY <2>5, OpenedOne
    <3>2. list \o << >> = list
      BY <2>2
    <3> QED BY <2>2, <2>3, <2>5, <3>1, <3>2
  <2> QED BY <2>4, <2>5
<1>5. more \in Seq(Documents) /\ \A i \in DOMAIN more : more[i].form # "garbled"
  <2>1. \A i \in DOMAIN done : done[i].form # "garbled"
    BY DEF Read
  <2>2. \A i \in DOMAIN more : more[i] = d \/ (i \in DOMAIN done /\ more[i] = done[i])
    BY <1>1
  <2>3. more \in Seq(Documents)
    BY <1>1
  <2> QED BY <2>1, <2>2, <2>3
<1> HIDE DEF more
<1> QED BY <1>3, <1>4, <1>5 DEF Read, L, more

LEMMA ReadProgresses ==
  ASSUME Sorted, Progress, ReadDocument
  PROVE  Progress'
<1> DEFINE doc == Head(todo)
           rest == Tail(todo)
<1>1. /\ status = "reading" /\ input' = input /\ todo = <<doc>> \o rest
      /\ doc \in Documents /\ rest \in Seq(Documents)
  BY DEF Sorted, ReadDocument
<1>2. \A i \in DOMAIN parsed.bothMetas : parsed.bothMetas[i].decodes
  BY <1>1 DEF Progress
<1>3. \/ doc.form = "blank" /\ todo' = rest /\ UNCHANGED <<parsed, status>>
      \/ status' = "failed"
      \/ doc.form = "list" /\ OpenList(doc)
      \/ doc.form = "object" /\ DecodeItem(doc) /\ todo' = rest
  BY DEF ReadDocument
<1>4. PICK done : Read(done, input, todo, parsed)
  BY <1>1 DEF Progress
<1> HIDE DEF doc, rest
<1>5. CASE doc.form = "blank" /\ todo' = rest /\ UNCHANGED <<parsed, status>>
  <2>1. \A l \in ListNames : After(parsed, doc)[l] = parsed[l]
    BY <1>5 DEF GoesTo, After
  <2>2. Read(done \o <<doc>>, input, rest, After(parsed, doc))
    BY <1>1, <1>4, <1>5, ReadOne
  <2>3. Read(done \o <<doc>>, input, rest, parsed)
    BY <2>1, <2>2 DEF Read
  <2> QED BY <1>1, <1>2, <1>5, <2>3 DEF Progress
<1>6. CASE status' = "failed"
  BY <1>6 DEF Progress
<1>7. CASE doc.form = "list" /\ OpenList(doc) /\ status' # "failed"
  <2>1. todo' = doc.items \o rest /\ status' = status /\ parsed' = parsed
    BY <1>7 DEF OpenList, rest
  <2>2. Leaves(todo) = Leaves(todo')
    BY <1>1, <1>7, <2>1, LeavesOfHead
  <2>3. Read(done, input, todo', parsed)
    BY <1>4, <2>2 DEF Read
  <2> QED BY <1>1, <1>2, <2>1, <2>3 DEF Progress
<1>8. CASE doc.form = "object" /\ DecodeItem(doc) /\ todo' = rest /\ status' # "failed"
  <2>1. parsed' = After(parsed, doc)
    BY <1>8 DEF DecodeItem, After, GoesTo
  <2>2. Read(done \o <<doc>>, input, rest, parsed')
    BY <1>1, <1>4, <1>8, <2>1, ReadOne
  <2> DEFINE metas == parsed["bothMetas"]
  <2>3. metas \in Seq(Documents) /\ \A i \in DOMAIN metas : metas[i].decodes
    BY <1>2 DEF Sorted, ListNames
  <2>4. status' = "reading" /\ (GoesTo("bothMetas", doc) => doc.decodes)
    BY <1>1, <1>8 DEF DecodeItem, GoesTo
  <2>5. parsed'["bothMetas"] = IF GoesTo("bothMetas", doc) THEN Append(metas, doc) ELSE metas
    BY <2>1 DEF After, ListNames
  <2> HIDE DEF metas
  <2>6. ASSUME GoesTo("bothMetas", doc)
        PROVE  \A i \in DOMAIN Append(metas, doc) : Append(metas, doc)[i].decodes
    <3>1. \A i \in DOMAIN Append(metas, doc) :
             Append(metas, doc)[i] = doc \/ (i \in DOMAIN metas /\ Append(metas, doc)[i] = metas[i])
      BY <2>3
    <3> QED BY <2>3, <2>4, <2>6, <3>1
  <2>7. \A i \in DOMAIN parsed'["bothMetas"] : parsed'["bothMetas"][i].decodes
    BY <2>3, <2>5, <2>6
  <2> QED BY <1>1, <1>8, <2>2, <2>4, <2>7 DEF Progress
<1> QED BY <1>3, <1>5, <1>6, <1>7, <1>8

LEMMA ProgressTells == ASSUME Progress PROVE NothingLost
<1> SUFFICES ASSUME status \notin {"reading", "failed"}
             PROVE  /\ \A l \in ListNames : parsed[l] = Known(l, Leaves(input))
                    /\ \A i \in DOMAIN parsed.bothMetas : parsed.bothMetas[i].decodes
                    /\ \A i \in DOMAIN Leaves(input) : Leaves(input)[i].form # "garbled"
  BY DEF NothingLost
<1>1. PICK done : Read(done, input, << >>, parsed)
  BY DEF Progress
<1>2. Leaves(<< >>) = << >>
  BY OpenedNone, LeavesStay
<1>3. done \o << >> = done
  BY <1>1 DEF Read
<1>4. Leaves(input) = done
  BY <1>1, <1>2, <1>3 DEF Read
<1> QED BY <1>1, <1>4 DEF Progress, Read

-----------------------------------------------------------------------------
(* The checks.                                                               *)

LEMMA InList ==
  ASSUME NEW l \in ListNames, NEW o
  PROVE  o \in Listed(l) <=> \E i \in DOMAIN parsed[l] : parsed[l][i] = o
BY DEF Listed

\* The pods that are checked are those that are looked for.
LEMMA PodsAre ==
  ASSUME Sorted
  PROVE  /\ PodSeq \in Seq(Documents) /\ DOMAIN PodSeq = 1..Len(PodSeq)
         /\ \A i \in DOMAIN PodSeq : PodSeq[i] \in PodLike
         /\ \A o \in PodLike : \E i \in DOMAIN PodSeq : PodSeq[i] = o
<1> DEFINE p == parsed["pods"]
           q == parsed["podspecers"]
<1>1. "pods" \in ListNames /\ "podspecers" \in ListNames
  BY DEF ListNames
<1>2. p \in Seq(Documents) /\ q \in Seq(Documents)
  BY <1>1 DEF Sorted
<1>3. PodSeq = p \o q
  BY DEF PodSeq
<1>4. /\ \A o : o \in PodLike <=> \/ \E i \in DOMAIN p : p[i] = o
                                  \/ \E i \in DOMAIN q : q[i] = o
  BY <1>1, InList DEF PodLike
<1> HIDE DEF p, q
<1>5. /\ p \o q \in Seq(Documents) /\ Len(p \o q) = Len(p) + Len(q)
      /\ Len(p) \in Nat /\ Len(q) \in Nat
      /\ DOMAIN p = 1..Len(p) /\ DOMAIN q = 1..Len(q) /\ DOMAIN (p \o q) = 1..(Len(p) + Len(q))
      /\ \A i \in 1..(Len(p) + Len(q)) :
            (p \o q)[i] = IF i <= Len(p) THEN p[i] ELSE q[i - Len(p)]
  BY <1>2
<1>6. ASSUME NEW i \in DOMAIN (p \o q) PROVE (p \o q)[i] \in PodLike
  <2>1. CASE i <= Len(p)
    BY <1>4, <1>5, <2>1
  <2>2. CASE i > Len(p)
    <3>1. i - Len(p) \in DOMAIN q /\ (p \o q)[i] = q[i - Len(p)]
      BY <1>5, <2>2
    <3> QED BY <1>4, <3>1
  <2> QED BY <1>5, <2>1, <2>2
<1>7. ASSUME NEW o \in PodLike PROVE \E i \in DOMAIN (p \o q) : (p \o q)[i] = o
  <2>1. ASSUME NEW i \in DOMAIN p, p[i] = o PROVE \E j \in DOMAIN (p \o q) : (p \o q)[j] = o
    <3>1. i \in DOMAIN (p \o q) /\ (p \o q)[i] = o
      BY <1>5, <2>1
    <3> QED BY <3>1
  <2>2. ASSUME NEW i \in DOMAIN q, q[i] = o PROVE \E j \in DOMAIN (p \o q) : (p \o q)[j] = o
    <3>1. i + Len(p) \in DOMAIN (p \o q) /\ (p \o q)[i + Len(p)] = o
      BY <1>5, <2>2
    <3> QED BY <3>1
  <2> QED BY <1>4, <2>1, <2>2
<1> QED BY <1>3, <1>5, <1>6, <1>7

\* The grades are different.
LEMMA Grades ==
  /\ Critical # AllOK /\ Critical # Warning /\ AllOK # Warning
  /\ AllOK.skipped = FALSE /\ Critical.skipped = FALSE /\ Warning.skipped = FALSE
  /\ \A g : Skipped(g).skipped = TRUE /\ Skipped(g) # AllOK /\ Skipped(g) # Critical
            /\ Skipped(g) # Warning
  /\ Failed.err = TRUE /\ Failed # AllOK
  /\ \A bad : /\ CriticalIf(bad) = AllOK <=> ~bad
              /\ CriticalIf(bad) = Critical <=> bad
              /\ CriticalIf(bad).skipped = FALSE
<1>1. /\ AllOK = [grade |-> 10, skipped |-> FALSE, err |-> FALSE]
      /\ Warning = [grade |-> 5, skipped |-> FALSE, err |-> FALSE]
      /\ Critical = [grade |-> 1, skipped |-> FALSE, err |-> FALSE]
      /\ Failed = [grade |-> 1, skipped |-> FALSE, err |-> TRUE]
      /\ \A g : Skipped(g) = [grade |-> g, skipped |-> TRUE, err |-> FALSE]
  BY DEF AllOK, Warning, Critical, Graded, Skipped, Failed
<1>2. /\ AllOK.grade = 10 /\ Warning.grade = 5 /\ Critical.grade = 1
      /\ AllOK.skipped = FALSE /\ Critical.skipped = FALSE /\ Warning.skipped = FALSE
      /\ \A g : Skipped(g).skipped = TRUE
      /\ Failed.err = TRUE /\ AllOK.err = FALSE
  BY <1>1
<1>3. /\ Critical # AllOK /\ Critical # Warning /\ AllOK # Warning /\ Failed # AllOK
      /\ \A g : Skipped(g) # AllOK /\ Skipped(g) # Critical /\ Skipped(g) # Warning
  BY <1>2
<1> HIDE DEF AllOK
<1>4. \A bad : /\ CriticalIf(bad) = AllOK <=> ~bad
               /\ CriticalIf(bad) = Critical <=> bad
               /\ CriticalIf(bad).skipped = FALSE
  BY <1>2, <1>3 DEF CriticalIf
<1> QED BY <1>2, <1>3, <1>4

\* Only what is Failed is an error.
LEMMA NoError ==
  /\ AllOK.err = FALSE /\ Warning.err = FALSE /\ Critical.err = FALSE /\ Failed.err = TRUE
  /\ \A g : Skipped(g).err = FALSE
  /\ \A bad : CriticalIf(bad).err = FALSE
<1>1. AllOK.err = FALSE /\ Warning.err = FALSE /\ Critical.err = FALSE /\ Failed.err = TRUE
  BY DEF AllOK, Warning, Critical, Graded, Failed
<1>2. \A g : Skipped(g).err = FALSE
  BY DEF Skipped
<1>3. \A bad : CriticalIf(bad).err = FALSE
  BY <1>1 DEF CriticalIf
<1> QED BY <1>1, <1>2, <1>3

\* A run that is scored has the verdicts of all checks, none of them an error.
LEMMA ScoredIs ==
  ASSUME Sorted, Score, status' = "scored"
  PROVE  /\ parsed' = parsed /\ results' = Verdicts
         /\ \A c \in DOMAIN Verdicts : \A i \in DOMAIN Verdicts[c] : ~Verdicts[c][i].err
<1> DEFINE failed == \E c \in DOMAIN Verdicts : \E i \in DOMAIN Verdicts[c] : Verdicts[c][i].err
<1>1. /\ parsed' = parsed
      /\ results' = IF failed THEN NoResults ELSE Verdicts
      /\ status' = IF failed THEN "error" ELSE "scored"
  BY DEF Score
<1> HIDE DEF failed
<1>2. ~failed
  BY <1>1
<1> QED BY <1>1, <1>2 DEF failed

LEMMA VerdictsAre ==
  /\ Verdicts.networkPolicy = [i \in DOMAIN PodSeq |-> PodHasNetworkPolicy(PodSeq[i])]
  /\ Verdicts.probes = [i \in DOMAIN PodSeq |-> ContainerProbes(PodSeq[i])]
  /\ Verdicts.netpolTarget = [i \in DOMAIN parsed.networkPolicies |->
                                NetworkPolicyTargetsPod(parsed.networkPolicies[i])]
  /\ Verdicts.serviceTarget = [i \in DOMAIN parsed.services |->
                                 ServiceTargetsPod(parsed.services[i])]
  /\ Verdicts.strategy = [i \in DOMAIN parsed.deployments |->
                            DeploymentRolloutStrategy(parsed.deployments[i])]
  /\ Verdicts.setService = [i \in DOMAIN parsed.statefulsets |->
                              StatefulSetHasServiceName(parsed.statefulsets[i])]
  /\ "budget" \in DOMAIN Verdicts
  /\ Verdicts.budget = [i \in DOMAIN parsed.deployments |->
                          HasDisruptionBudget(parsed.deployments[i])]
  /\ "setBudget" \in DOMAIN Verdicts
  /\ Verdicts.setBudget = [i \in DOMAIN parsed.statefulsets |->
                             HasDisruptionBudget(parsed.statefulsets[i])]
  /\ Verdicts.stable = [i \in DOMAIN parsed.bothMetas |->
                          MetaStableAvailable(parsed.bothMetas[i])]
BY DEF Verdicts, PodSeq

\* What the grade of a pod says of the policies that select it.
Selects(n, o) == n.ns = o.ns /\ LabelSelectorMatchesLabels(n.selector, o.labels)

LEMMA PolicyOfPod ==
  ASSUME Sorted, NEW o
  PROVE  PodHasNetworkPolicy(o) # Critical <=>
            \E i \in DOMAIN parsed.networkPolicies :
               Directs(parsed.networkPolicies[i]) /\ Selects(parsed.networkPolicies[i], o)
<1> DEFINE selecting == {n \in Listed("networkPolicies") :
                           /\ n.ns = TemplateNamespace(o)
                           /\ LabelSelectorMatchesLabels(n.selector, o.labels)}
           ingress == \E n \in selecting : n.types = {} \/ "Ingress" \in n.types
           egress == \E n \in selecting :
                        (n.types = {} /\ n.hasEgress) \/ "Egress" \in n.types
<1>1. PodHasNetworkPolicy(o) = IF ingress /\ egress THEN AllOK
                               ELSE IF ingress \/ egress THEN Warning ELSE Critical
  BY DEF PodHasNetworkPolicy
<1>2. "networkPolicies" \in ListNames
  BY DEF ListNames, OtherKinds
<1>3. (\E n \in selecting : Directs(n)) <=>
         \E i \in DOMAIN parsed.networkPolicies :
            Directs(parsed.networkPolicies[i]) /\ Selects(parsed.networkPolicies[i], o)
  BY <1>2, InList DEF Selects, TemplateNamespace
<1>4. ingress \/ egress <=> \E n \in selecting : Directs(n)
  BY DEF Directs
<1> HIDE DEF selecting, ingress, egress
<1> QED BY <1>1, <1>3, <1>4, Grades

LEMMA NetworkPoliciesScored ==
  ASSUME Sorted, Score, status' = "scored"
  PROVE  NetworkPoliciesAgree'
<1>1. parsed' = parsed /\ results' = Verdicts /\ PodSeq' = PodSeq
  BY ScoredIs DEF PodSeq
<1>2. \A i \in DOMAIN PodSeq : results'.networkPolicy[i] = PodHasNetworkPolicy(PodSeq[i])
  BY <1>1, VerdictsAre
<1>3. \A k \in DOMAIN parsed.networkPolicies :
         results'.netpolTarget[k] = NetworkPolicyTargetsPod(parsed.networkPolicies[k])
  BY <1>1, VerdictsAre
<1>4. \A n : NetworkPolicyTargetsPod(n) = AllOK <=> \E o \in PodLike : Selects(n, o)
  BY Grades DEF NetworkPolicyTargetsPod, Selects
<1>5. (\E i \in DOMAIN PodSeq : results'.networkPolicy[i] # Critical) <=>
      \E i \in DOMAIN PodSeq : \E k \in DOMAIN parsed.networkPolicies :
         /\ Directs(parsed.networkPolicies[k])
         /\ Selects(parsed.networkPolicies[k], PodSeq[i])
  BY <1>2, PolicyOfPod
<1>6. (\E k \in DOMAIN parsed.networkPolicies :
          Directs(parsed.networkPolicies[k]) /\ results'.netpolTarget[k] = AllOK) <=>
      \E k \in DOMAIN parsed.networkPolicies : \E o \in PodLike :
         Directs(parsed.networkPolicies[k]) /\ Selects(parsed.networkPolicies[k], o)
  BY <1>3, <1>4
<1>7. (\E i \in DOMAIN PodSeq : \E k \in DOMAIN parsed.networkPolicies :
          /\ Directs(parsed.networkPolicies[k])
          /\ Selects(parsed.networkPolicies[k], PodSeq[i])) <=>
      \E k \in DOMAIN parsed.networkPolicies : \E o \in PodLike :
         Directs(parsed.networkPolicies[k]) /\ Selects(parsed.networkPolicies[k], o)
  BY PodsAre
<1> QED BY <1>1, <1>5, <1>6, <1>7 DEF NetworkPoliciesAgree

\* The kinds on the lists of Deployments and StatefulSets are no jobs.
LEMMA KindsOfLists ==
  ASSUME NEW gvk
  PROVE  /\ "deployments" \in ListsOf(gvk) => gvk = <<"apps/v1", "Deployment">>
         /\ "statefulsets" \in ListsOf(gvk) => gvk = <<"apps/v1", "StatefulSet">>
BY DEF ListsOf, OtherKinds

LEMMA NoJobs ==
  ASSUME Sorted
  PROVE  /\ \A k \in DOMAIN parsed.deployments : ~IsBatch(parsed.deployments[k])
         /\ \A k \in DOMAIN parsed.statefulsets : ~IsBatch(parsed.statefulsets[k])
<1>1. "deployments" \in ListNames /\ "statefulsets" \in ListNames
  BY DEF ListNames
<1>2. ASSUME NEW k \in DOMAIN parsed.deployments PROVE ~IsBatch(parsed.deployments[k])
  <2>1. "deployments" \in ListsOf(parsed.deployments[k].gvk)
    BY <1>1 DEF Sorted
  <2>2. parsed.deployments[k].gvk = <<"apps/v1", "Deployment">>
    BY <2>1, KindsOfLists
  <2> QED BY <2>2 DEF IsBatch
<1>3. ASSUME NEW k \in DOMAIN parsed.statefulsets PROVE ~IsBatch(parsed.statefulsets[k])
  <2>1. "statefulsets" \in ListsOf(parsed.statefulsets[k].gvk)
    BY <1>1 DEF Sorted
  <2>2. parsed.statefulsets[k].gvk = <<"apps/v1", "StatefulSet">>
    BY <2>1, KindsOfLists
  <2> QED BY <2>2 DEF IsBatch
<1> QED BY <1>2, <1>3

Targets(s, o) == s.ns = o.ns /\ LabelSelectorMatchesLabels(s.selector, o.labels)

\* The three places that look for a service of a pod, and the one that looks for a
\* pod of a service.
LEMMA ServiceSearches ==
  ASSUME NEW o
  PROVE  /\ IsTargetedByService(o) <=> \E s \in Listed("services") : Targets(s, o)
         /\ ReferencedByService(o) <=> \E s \in Listed("services") : Targets(s, o)
         /\ StatefulSetHasServiceName(o) = AllOK => \E s \in Listed("services") : Targets(s, o)
         /\ ServiceTargetsPod(o) = AllOK <=>
               (o.type = "ExternalName" \/ \E p \in PodLike : Targets(o, p))
<1>1. /\ IsTargetedByService(o) <=> \E s \in Listed("services") : Targets(s, o)
      /\ ReferencedByService(o) <=> \E s \in Listed("services") : Targets(s, o)
  BY DEF IsTargetedByService, ReferencedByService, Targets, TemplateNamespace
<1>2. StatefulSetHasServiceName(o) = AllOK => \E s \in Listed("services") : Targets(s, o)
  BY Grades DEF StatefulSetHasServiceName, Targets
<1>3. ServiceTargetsPod(o) = AllOK <=>
         (o.type = "ExternalName" \/ \E p \in PodLike : Targets(o, p))
  BY Grades DEF ServiceTargetsPod, Targets
<1> QED BY <1>1, <1>2, <1>3

LEMMA ProbesOf ==
  ASSUME NEW o, ~IsBatch(o)
  PROVE  ContainerProbes(o).skipped <=> ~IsTargetedByService(o)
BY Grades DEF ContainerProbes

LEMMA StrategyOf ==
  ASSUME NEW d
  PROVE  DeploymentRolloutStrategy(d).skipped <=> ~ReferencedByService(d)
BY Grades DEF DeploymentRolloutStrategy

LEMMA ServicesScored ==
  ASSUME Sorted, Score, status' = "scored"
  PROVE  ServicesAgree'
<1>1. parsed' = parsed /\ results' = Verdicts /\ PodSeq' = PodSeq
  BY ScoredIs DEF PodSeq
<1>2. /\ \A i \in DOMAIN PodSeq : results'.probes[i] = ContainerProbes(PodSeq[i])
      /\ \A k \in DOMAIN parsed.deployments :
            results'.strategy[k] = DeploymentRolloutStrategy(parsed.deployments[k])
      /\ \A k \in DOMAIN parsed.statefulsets :
            results'.setService[k] = StatefulSetHasServiceName(parsed.statefulsets[k])
      /\ \A k \in DOMAIN parsed.services :
            results'.serviceTarget[k] = ServiceTargetsPod(parsed.services[k])
  BY <1>1, VerdictsAre
<1>3. ASSUME NEW s
      PROVE  s \in Listed("services") <=> \E k \in DOMAIN parsed.services : parsed.services[k] = s
  BY InList DEF ListNames, OtherKinds
<1>4. ASSUME NEW i \in DOMAIN PodSeq, NEW k \in DOMAIN parsed.deployments,
             PodSeq[i] = parsed.deployments[k]
      PROVE  results'.probes[i].skipped <=> results'.strategy[k].skipped
  BY <1>2, <1>4, NoJobs, ProbesOf, StrategyOf, ServiceSearches
<1>5. ASSUME NEW i \in DOMAIN PodSeq, NEW k \in DOMAIN parsed.statefulsets,
             PodSeq[i] = parsed.statefulsets[k], results'.setService[k] = AllOK
      PROVE  ~results'.probes[i].skipped
  BY <1>2, <1>5, NoJobs, ProbesOf, ServiceSearches
<1>6. ASSUME NEW i \in DOMAIN PodSeq, ~IsBatch(PodSeq[i]), ~results'.probes[i].skipped
      PROVE  \E k \in DOMAIN parsed.services : results'.serviceTarget[k] = AllOK
  <2>1. PICK s \in Listed("services") : Targets(s, PodSeq[i])
    BY <1>2, <1>6, ProbesOf, ServiceSearches
  <2>2. ServiceTargetsPod(s) = AllOK
    BY <2>1, PodsAre, ServiceSearches
  <2> QED BY <1>2, <1>3, <2>2
<1>7. ASSUME NEW k \in DOMAIN parsed.services, results'.serviceTarget[k] = AllOK,
             parsed.services[k].type # "ExternalName"
      PROVE  \E i \in DOMAIN PodSeq : IsBatch(PodSeq[i]) \/ ~results'.probes[i].skipped
  <2>1. PICK o \in PodLike : Targets(parsed.services[k], o)
    BY <1>2, <1>7, ServiceSearches
  <2>2. PICK i \in DOMAIN PodSeq : PodSeq[i] = o
    BY PodsAre
  <2>3. IsTargetedByService(o)
    BY <1>3, <2>1, ServiceSearches
  <2> QED BY <1>2, <2>2, <2>3, ProbesOf
<1> QED BY <1>1, <1>4, <1>5, <1>6, <1>7 DEF ServicesAgree

-----------------------------------------------------------------------------
(* The disruption budgets.                                                   *)

LEMMA Least ==
    ASSUME NEW T \in SUBSET Nat, T # {}
    PROVE  \E x \in T : \A y \in T : x <= y
  <1> DEFINE R == OpToRel(<, Nat)
  <1>1. IsWellFoundedOn(R, Nat)
    BY NatLessThanWellFounded
  <1>2. \A x, y \in Nat : y < x => <<y, x>> \in R
    BY DEF OpToRel
  <1> HIDE DEF R
  <1>3. PICK x \in T : \A y \in T : ~ (<<y, x>> \in R)
    BY <1>1, WFMin
  <1>4. \A y \in T : ~(y < x)
    BY <1>2, <1>3
  <1> QED  BY <1>4

\* Where the search for a budget of the workload stops: at one that fits or cannot
\* be read.
Stops(o) ==
    {i \in DOMAIN parsed.podDisruptionBudgets :
       \/ ~parsed.podDisruptionBudgets[i].selector.valid
       \/ Fits(parsed.podDisruptionBudgets[i], o)}

\* It stops at the first of these, and fails if that one cannot be read.
LEMMA SearchIs ==
  ASSUME Sorted, NEW o
  PROVE  LET pdbs == parsed.podDisruptionBudgets
             found == HasMatching(pdbs, o.ns, o.labels)
         IN  \/ Stops(o) = {} /\ found = Critical
             \/ \E first \in Stops(o) :
                   /\ \A j \in Stops(o) : first <= j
                   /\ found = IF pdbs[first].selector.valid THEN AllOK ELSE Failed
<1> DEFINE pdbs == parsed.podDisruptionBudgets
           stops == {i \in DOMAIN pdbs :
                       \/ ~pdbs[i].selector.valid
                       \/ o.labels \in pdbs[i].selector.matches /\ pdbs[i].ns = o.ns}
           first == CHOOSE i \in stops : \A j \in stops : i <= j
           found == HasMatching(pdbs, o.ns, o.labels)
<1>1. found = IF stops = {} THEN Critical
              ELSE IF pdbs[first].selector.valid THEN AllOK ELSE Failed
  BY DEF HasMatching
<1>2. stops = Stops(o)
  BY DEF Stops, Fits, LabelSelectorMatchesLabels
<1>3. stops \in SUBSET Nat
  <2>1. "podDisruptionBudgets" \in ListNames
    BY DEF ListNames, OtherKinds
  <2>2. pdbs \in Seq(Documents)
    BY <2>1 DEF Sorted
  <2> HIDE DEF pdbs
  <2> QED BY <2>2
<1>4. CASE stops # {}
  <2>1. \E i \in stops : \A j \in stops : i <= j
    BY <1>3, <1>4, Least
  <2>2. first \in stops /\ \A j \in stops : first <= j
    BY <2>1
  <2> HIDE DEF stops, first, found
  <2> QED BY <1>1, <1>2, <1>4, <2>2 DEF found
<1>5. CASE stops = {}
  BY <1>1, <1>2, <1>5
<1> QED BY <1>4, <1>5

\* So it fails exactly if it meets a budget that cannot be read, and if not it
\* finds one exactly if one fits.
LEMMA SearchTells ==
  ASSUME Sorted, NEW o
  PROVE  LET found == HasMatching(parsed.podDisruptionBudgets, o.ns, o.labels)
         IN  /\ found.err <=> MeetsInvalid(o)
             /\ ~found.err => (found = AllOK <=>
                                 \E b \in Listed("podDisruptionBudgets") : Fits(b, o))
<1> DEFINE pdbs == parsed.podDisruptionBudgets
           found == HasMatching(pdbs, o.ns, o.labels)
<1>1. \/ Stops(o) = {} /\ found = Critical
      \/ \E first \in Stops(o) : /\ \A j \in Stops(o) : first <= j
                                 /\ found = IF pdbs[first].selector.valid THEN AllOK ELSE Failed
  BY SearchIs
<1>2. "podDisruptionBudgets" \in ListNames
  BY DEF ListNames, OtherKinds
<1>3. pdbs \in Seq(Documents)
  BY <1>2 DEF Sorted
<1>4. \A b : b \in Listed("podDisruptionBudgets") <=> \E i \in DOMAIN pdbs : pdbs[i] = b
  BY <1>2, InList
<1>5. MeetsInvalid(o) <=> \E i \in DOMAIN pdbs : /\ ~pdbs[i].selector.valid
                                                 /\ ~\E j \in 1..i - 1 : Fits(pdbs[j], o)
  BY DEF MeetsInvalid
<1>6. Stops(o) = {i \in DOMAIN pdbs : ~pdbs[i].selector.valid \/ Fits(pdbs[i], o)}
  BY DEF Stops
<1>7. \A i \in DOMAIN pdbs : Fits(pdbs[i], o) => pdbs[i].selector.valid
  BY DEF Fits, LabelSelectorMatchesLabels
<1>8. Critical.err = FALSE /\ AllOK.err = FALSE /\ Failed.err = TRUE
  BY NoError, Grades
<1> HIDE DEF pdbs, found
<1>9. CASE Stops(o) = {} /\ found = Critical
  BY <1>4, <1>5, <1>6, <1>8, <1>9, Grades DEF found, pdbs
<1>10. CASE \E first \in Stops(o) :
               /\ \A j \in Stops(o) : first <= j
               /\ found = IF pdbs[first].selector.valid THEN AllOK ELSE Failed
  <2>1. PICK first \in Stops(o) :
               /\ \A j \in Stops(o) : first <= j
               /\ found = IF pdbs[first].selector.valid THEN AllOK ELSE Failed
    BY <1>10
  <2>2. first \in DOMAIN pdbs /\ DOMAIN pdbs = 1..Len(pdbs) /\ Len(pdbs) \in Nat
    BY <1>3, <1>6, <2>1
  <2>3. CASE pdbs[first].selector.valid
    <3>1. Fits(pdbs[first], o) /\ found = AllOK
      BY <1>6, <2>1, <2>3
    <3>2. ASSUME NEW i \in DOMAIN pdbs, ~pdbs[i].selector.valid
          PROVE  \E j \in 1..i - 1 : Fits(pdbs[j], o)
      <4>1. first <= i /\ first # i
        BY <1>6, <2>1, <2>3, <3>2
      <4>2. first \in 1..i - 1
        BY <2>2, <3>2, <4>1
      <4> QED BY <3>1, <4>2
    <3>3. ~MeetsInvalid(o)
      BY <1>5, <3>2
    <3>4. \E b \in Listed("podDisruptionBudgets") : Fits(b, o)
      BY <1>4, <2>2, <3>1
    <3> QED BY <1>8, <3>1, <3>3, <3>4 DEF found, pdbs
  <2>4. CASE ~pdbs[first].selector.valid
    <3>1. ASSUME NEW j \in 1..first - 1 PROVE ~Fits(pdbs[j], o)
      <4>1. j \in DOMAIN pdbs /\ ~(first <= j)
        BY <2>2, <3>1
      <4> QED BY <1>6, <2>1, <4>1
    <3>2. MeetsInvalid(o)
      BY <1>5, <2>2, <2>4, <3>1
    <3>3. found = Failed
      BY <2>1, <2>4
    <3> QED BY <1>8, <3>2, <3>3 DEF found, pdbs
  <2> QED BY <2>3, <2>4
<1> QED BY <1>1, <1>9, <1>10

LEMMA BudgetScored ==
  ASSUME Sorted, Score, status' = "scored"
  PROVE  BudgetAnyOrder'
<1>1. parsed' = parsed /\ results' = Verdicts
  BY ScoredIs
<1>2. Listed("podDisruptionBudgets")' = Listed("podDisruptionBudgets")
  BY <1>1 DEF Listed
<1>3. ASSUME NEW o, ~FewReplicas(o), ~HasDisruptionBudget(o).err
      PROVE  HasDisruptionBudget(o) = AllOK <=>
                \E b \in Listed("podDisruptionBudgets") : Fits(b, o)
  <2>1. HasDisruptionBudget(o) = HasMatching(parsed.podDisruptionBudgets, o.ns, o.labels)
    BY <1>3 DEF HasDisruptionBudget
  <2> QED BY <1>3, <2>1, SearchTells
<1>4. BudgetsFound(parsed.deployments, Verdicts.budget)
  <2>1. \A k \in DOMAIN parsed.deployments :
           /\ Verdicts.budget[k] = HasDisruptionBudget(parsed.deployments[k])
           /\ ~Verdicts.budget[k].err
    BY VerdictsAre, ScoredIs
  <2> QED BY <1>3, <2>1 DEF BudgetsFound
<1>5. BudgetsFound(parsed.statefulsets, Verdicts.setBudget)
  <2>1. \A k \in DOMAIN parsed.statefulsets :
           /\ Verdicts.setBudget[k] = HasDisruptionBudget(parsed.statefulsets[k])
           /\ ~Verdicts.setBudget[k].err
    BY VerdictsAre, ScoredIs
  <2> QED BY <1>3, <2>1 DEF BudgetsFound
<1> QED BY <1>1, <1>2, <1>4, <1>5 DEF BudgetAnyOrder, BudgetsFound

-----------------------------------------------------------------------------
(* Which checks can fail.                                                    *)

\* The checks of one pod never fail.
LEMMA PodChecksAnswer ==
  ASSUME NEW o
  PROVE  /\ ~ContainerResources(o).err
         /\ ~ContainerCPURequestsEqualLimits(o).err
         /\ ~ContainerMemoryRequestsEqualLimits(o).err
         /\ ~ContainerResourceRequestsEqualLimits(o).err
         /\ ~ContainerImageTag(o).err
         /\ ~ContainerImagePullPolicy(o).err
         /\ ~ContainerStorageEphemeralRequestAndLimit(o).err
         /\ ~ContainerStorageEphemeralRequestEqualsLimit(o).err
         /\ ~ContainerPortsCheck(o).err
         /\ ~EnvironmentVariableKeyDuplication(o).err
         /\ ~ContainerSecurityContextReadOnlyRootFilesystem(o).err
         /\ ~ContainerSecurityContextPrivileged(o).err
         /\ ~ContainerSecurityContextUserGroupID(o).err
         /\ ~PodSeccompProfile(o).err
         /\ ~PodTopologySpreadConstraints(o).err
         /\ ~ContainerProbesIdentical(o).err
<1>1. ~ContainerResources(o).err
  BY NoError DEF ContainerResources
<1>2. ~ContainerCPURequestsEqualLimits(o).err
  BY NoError DEF ContainerCPURequestsEqualLimits
<1>3. ~ContainerMemoryRequestsEqualLimits(o).err
  BY NoError DEF ContainerMemoryRequestsEqualLimits
<1>4. ~ContainerResourceRequestsEqualLimits(o).err
  BY NoError DEF ContainerResourceRequestsEqualLimits
<1>5. ~ContainerImageTag(o).err
  BY NoError DEF ContainerImageTag
<1>6. ~ContainerImagePullPolicy(o).err
  BY NoError DEF ContainerImagePullPolicy
<1>7. ~ContainerStorageEphemeralRequestAndLimit(o).err
  BY NoError DEF ContainerStorageEphemeralRequestAndLimit
<1>8. ~ContainerStorageEphemeralRequestEqualsLimit(o).err
  BY NoError DEF ContainerStorageEphemeralRequestEqualsLimit
<1>9. ~ContainerPortsCheck(o).err
  BY NoError DEF ContainerPortsCheck
<1>10. ~EnvironmentVariableKeyDuplication(o).err
  BY NoError DEF EnvironmentVariableKeyDuplication
<1>11. ~ContainerSecurityContextReadOnlyRootFilesystem(o).err
  BY NoError DEF ContainerSecurityContextReadOnlyRootFilesystem
<1>12. ~ContainerSecurityContextPrivileged(o).err
  BY NoError DEF ContainerSecurityContextPrivileged
<1>13. ~ContainerSecurityContextUserGroupID(o).err
  BY NoError DEF ContainerSecurityContextUserGroupID
<1>14. ~PodSeccompProfile(o).err
  BY NoError DEF PodSeccompProfile
<1>15. ~PodTopologySpreadConstraints(o).err
  BY NoError DEF PodTopologySpreadConstraints
<1>16. ~ContainerProbesIdentical(o).err
  BY NoError DEF ContainerProbesIdentical
<1> QED BY <1>1, <1>2, <1>3, <1>4, <1>5, <1>6, <1>7, <1>8, <1>9, <1>10, <1>11, <1>12, <1>13,
          <1>14, <1>15, <1>16

\* Nor do these that relate it to others.
LEMMA ChecksAnswer ==
  ASSUME NEW o
  PROVE  /\ ~ContainerProbes(o).err
         /\ ~PodHasNetworkPolicy(o).err
         /\ ~NetworkPolicyTargetsPod(o).err
         /\ ~ServiceTargetsPod(o).err
         /\ ~ServiceType(o).err
         /\ ~DeploymentRolloutStrategy(o).err
         /\ ~DeploymentReplicas(o).err
         /\ ~HpaDeploymentNoReplicas(o).err
         /\ ~HpaHasTarget(o).err
         /\ ~HpaHasMultipleReplicas(o).err
         /\ ~HasAntiAffinity(o).err
         /\ ~StatefulSetHasServiceName(o).err
         /\ ~HasPolicy(o).err
         /\ ~IngressTargetsService(o).err
         /\ ~CronJobHasDeadline(o).err
         /\ ~CronJobHasRestartPolicy(o).err
         /\ ~MetaStableAvailable(o).err
         /\ ~ValidateLabelValues(o).err
<1>1. ~ContainerProbes(o).err
  BY NoError DEF ContainerProbes
<1>2. ~PodHasNetworkPolicy(o).err
  BY NoError DEF PodHasNetworkPolicy
<1>3. ~NetworkPolicyTargetsPod(o).err
  BY NoError DEF NetworkPolicyTargetsPod
<1>4. ~ServiceTargetsPod(o).err
  BY NoError DEF ServiceTargetsPod
<1>5. ~ServiceType(o).err
  BY NoError DEF ServiceType
<1>6. ~DeploymentRolloutStrategy(o).err
  BY NoError DEF DeploymentRolloutStrategy
<1>7. ~DeploymentReplicas(o).err
  BY NoError DEF DeploymentReplicas
<1>8. ~HpaDeploymentNoReplicas(o).err
  BY NoError DEF HpaDeploymentNoReplicas
<1>9. ~HpaHasTarget(o).err
  BY NoError DEF HpaHasTarget
<1>10. ~HpaHasMultipleReplicas(o).err
  BY NoError DEF HpaHasMultipleReplicas
<1>11. ~HasAntiAffinity(o).err
  BY NoError DEF HasAntiAffinity
<1>12. ~StatefulSetHasServiceName(o).err
  BY NoError DEF StatefulSetHasServiceName
<1>13. ~HasPolicy(o).err
  BY NoError DEF HasPolicy
<1>14. ~IngressTargetsService(o).err
  BY NoError DEF IngressTargetsService
<1>15. ~CronJobHasDeadline(o).err
  BY NoError DEF CronJobHasDeadline
<1>16. ~CronJobHasRestartPolicy(o).err
  BY NoError DEF CronJobHasRestartPolicy
<1>17. ~MetaStableAvailable(o).err
  BY NoError DEF MetaStableAvailable
<1>18. ~ValidateLabelValues(o).err
  BY NoError DEF ValidateLabelValues
<1> QED BY <1>1, <1>2, <1>3, <1>4, <1>5, <1>6, <1>7, <1>8, <1>9, <1>10, <1>11, <1>12, <1>13,
          <1>14, <1>15, <1>16, <1>17, <1>18

Quiet ==
  {"resources", "cpuEqual", "memoryEqual", "requestsEqual", "imageTag", "pullPolicy",
   "storage", "storageEqual", "ports", "envKeys", "readOnly", "privileged", "userGroup",
   "seccomp", "spread", "identical", "probes", "networkPolicy", "stable", "labels",
   "serviceTarget", "serviceType", "strategy", "replicas", "noReplicas", "affinity",
   "setService", "setAffinity", "netpolTarget", "ingress", "deadline", "restart", "hpaTarget",
   "hpaReplicas", "policy"}

Loud == {"selector", "budget", "setSelector", "setBudget"}

Answers(c) == c \in DOMAIN Verdicts /\ \A i \in DOMAIN Verdicts[c] : ~Verdicts[c][i].err

LEMMA QuietVerdicts == ASSUME NEW c \in Quiet PROVE Answers(c)
<1>1. Answers("resources")
  BY PodChecksAnswer, ChecksAnswer DEF Answers, Verdicts
<1>2. Answers("cpuEqual")
  BY PodChecksAnswer, ChecksAnswer DEF Answers, Verdicts
<1>3. Answers("memoryEqual")
  BY PodChecksAnswer, ChecksAnswer DEF Answers, Verdicts
<1>4. Answers("requestsEqual")
  BY PodChecksAnswer, ChecksAnswer DEF Answers, Verdicts
<1>5. Answers("imageTag")
  BY PodChecksAnswer, ChecksAnswer DEF Answers, Verdicts
<1>6. Answers("pullPolicy")
  BY PodChecksAnswer, ChecksAnswer DEF Answers, Verdicts
<1>7. Answers("storage")
  BY PodChecksAnswer, ChecksAnswer DEF Answers, Verdicts
<1>8. Answers("storageEqual")
  BY PodChecksAnswer, ChecksAnswer DEF Answers, Verdicts
<1>9. Answers("ports")
  BY PodChecksAnswer, ChecksAnswer DEF Answers, Verdicts
<1>10. Answers("envKeys")
  BY PodChecksAnswer, ChecksAnswer DEF Answers, Verdicts
<1>11. Answers("readOnly")
  BY PodChecksAnswer, ChecksAnswer DEF Answers, Verdicts
<1>12. Answers("privileged")
  BY PodChecksAnswer, ChecksAnswer DEF Answers, Verdicts
<1>13. Answers("userGroup")
  BY PodChecksAnswer, ChecksAnswer DEF Answers, Verdicts
<1>14. Answers("seccomp")
  BY PodChecksAnswer, ChecksAnswer DEF Answers, Verdicts
<1>15. Answers("spread")
  BY PodChecksAnswer, ChecksAnswer DEF Answers, Verdicts
<1>16. Answers("identical")
  BY PodChecksAnswer, ChecksAnswer DEF Answers, Verdicts
<1>17. Answers("probes")
  BY PodChecksAnswer, ChecksAnswer DEF Answers, Verdicts
<1>18. Answers("networkPolicy")
  BY PodChecksAnswer, ChecksAnswer DEF Answers, Verdicts
<1>19. Answers("stable")
  BY PodChecksAnswer, ChecksAnswer DEF Answers, Verdicts
<1>20. Answers("labels")
  BY PodChecksAnswer, ChecksAnswer DEF Answers, Verdicts
<1>21. Answers("serviceTarget")
  BY PodChecksAnswer, ChecksAnswer DEF Answers, Verdicts
<1>22. Answers("serviceType")
  BY PodChecksAnswer, ChecksAnswer DEF Answers, Verdicts
<1>23. Answers("strategy")
  BY PodChecksAnswer, ChecksAnswer DEF Answers, Verdicts
<1>24. Answers("replicas")
  BY PodChecksAnswer, ChecksAnswer DEF Answers, Verdicts
<1>25. Answers("noReplicas")
  BY PodChecksAnswer, ChecksAnswer DEF Answers, Verdicts
<1>26. Answers("affinity")
  BY PodChecksAnswer, ChecksAnswer DEF Answers, Verdicts
<1>27. Answers("setService")
  BY PodChecksAnswer, ChecksAnswer DEF Answers, Verdicts
<1>28. Answers("setAffinity")
  BY PodChecksAnswer, ChecksAnswer DEF Answers, Verdicts
<1>29. Answers("netpolTarget")
  BY PodChecksAnswer, ChecksAnswer DEF Answers, Verdicts
<1>30. Answers("ingress")
  BY PodChecksAnswer, ChecksAnswer DEF Answers, Verdicts
<1>31. Answers("deadline")
  BY PodChecksAnswer, ChecksAnswer DEF Answers, Verdicts
<1>32. Answers("restart")
  BY PodChecksAnswer, ChecksAnswer DEF Answers, Verdicts
<1>33. Answers("hpaTarget")
  BY PodChecksAnswer, ChecksAnswer DEF Answers, Verdicts
<1>34. Answers("hpaReplicas")
  BY PodChecksAnswer, ChecksAnswer DEF Answers, Verdicts
<1>35. Answers("policy")
  BY PodChecksAnswer, ChecksAnswer DEF Answers, Verdicts
<1> QED BY <1>1, <1>2, <1>3, <1>4, <1>5, <1>6, <1>7, <1>8, <1>9, <1>10, <1>11, <1>12, <1>13,
          <1>14, <1>15, <1>16, <1>17, <1>18, <1>19, <1>20, <1>21, <1>22, <1>23, <1>24, <1>25,
          <1>26, <1>27, <1>28, <1>29, <1>30, <1>31, <1>32, <1>33, <1>34, <1>35 DEF Quiet

LEMMA LoudVerdicts ==
  /\ DOMAIN Verdicts = Quiet \cup Loud
  /\ Verdicts["selector"] = [i \in DOMAIN parsed.deployments |->
                               SelectorLabelsMatching(parsed.deployments[i])]
  /\ Verdicts["setSelector"] = [i \in DOMAIN parsed.statefulsets |->
                                  SelectorLabelsMatching(parsed.statefulsets[i])]
  /\ Verdicts["budget"] = [i \in DOMAIN parsed.deployments |->
                             HasDisruptionBudget(parsed.deployments[i])]
  /\ Verdicts["setBudget"] = [i \in DOMAIN parsed.statefulsets |->
                                HasDisruptionBudget(parsed.statefulsets[i])]
<1>1. DOMAIN Verdicts = Quiet \cup Loud
  BY DEF Verdicts, Quiet, Loud
<1> QED BY <1>1 DEF Verdicts

\* What makes a run fail, of a Deployment or a StatefulSet.
Fails(o) == ~o.selector.valid \/ (~FewReplicas(o) /\ MeetsInvalid(o))

LEMMA LoudChecks ==
  ASSUME Sorted, NEW o
  PROVE  Fails(o) <=> SelectorLabelsMatching(o).err \/ HasDisruptionBudget(o).err
<1>1. SelectorLabelsMatching(o).err <=> ~o.selector.valid
  BY NoError DEF SelectorLabelsMatching
<1>2. CASE FewReplicas(o)
  <2>1. HasDisruptionBudget(o) = Skipped(0)
    BY <1>2 DEF HasDisruptionBudget
  <2> QED BY <1>1, <1>2, <2>1, NoError DEF Fails
<1>3. CASE ~FewReplicas(o)
  <2>1. HasDisruptionBudget(o) = HasMatching(parsed.podDisruptionBudgets, o.ns, o.labels)
    BY <1>3 DEF HasDisruptionBudget
  <2> QED BY <1>1, <1>3, <2>1, SearchTells DEF Fails
<1> QED BY <1>2, <1>3

LEMMA SomeFails ==
  ASSUME Sorted
  PROVE  (\E c \in DOMAIN Verdicts : \E i \in DOMAIN Verdicts[c] : Verdicts[c][i].err) <=>
         \E o \in Listed("deployments") \cup Listed("statefulsets") : Fails(o)
<1> DEFINE failing(c) == \E i \in DOMAIN Verdicts[c] : Verdicts[c][i].err
<1>1. /\ \A o : o \in Listed("deployments") <=>
                  \E i \in DOMAIN parsed.deployments : parsed.deployments[i] = o
      /\ \A o : o \in Listed("statefulsets") <=>
                  \E i \in DOMAIN parsed.statefulsets : parsed.statefulsets[i] = o
  BY InList DEF ListNames
<1>2. (\E c \in DOMAIN Verdicts : failing(c)) <=> \E c \in Loud : failing(c)
  BY QuietVerdicts, LoudVerdicts DEF Answers
<1>3. failing("selector") <=> \E o \in Listed("deployments") : SelectorLabelsMatching(o).err
  <2> DEFINE v == Verdicts["selector"]
  <2>1. DOMAIN v = DOMAIN parsed.deployments
    BY LoudVerdicts
  <2>2. \A i \in DOMAIN parsed.deployments : v[i] = SelectorLabelsMatching(parsed.deployments[i])
    BY LoudVerdicts
  <2> HIDE DEF v
  <2>3. (\E i \in DOMAIN v : v[i].err) <=>
           \E o \in Listed("deployments") : SelectorLabelsMatching(o).err
    BY <1>1, <2>1, <2>2
  <2> QED BY <2>3 DEF v
<1>4. failing("budget") <=> \E o \in Listed("deployments") : HasDisruptionBudget(o).err
  <2> DEFINE v == Verdicts["budget"]
  <2>1. DOMAIN v = DOMAIN parsed.deployments
    BY LoudVerdicts
  <2>2. \A i \in DOMAIN parsed.deployments : v[i] = HasDisruptionBudget(parsed.deployments[i])
    BY LoudVerdicts
  <2> HIDE DEF v
  <2>3. (\E i \in DOMAIN v : v[i].err) <=>
           \E o \in Listed("deployments") : HasDisruptionBudget(o).err
    BY <1>1, <2>1, <2>2
  <2> QED BY <2>3 DEF v
<1>5. failing("setSelector") <=> \E o \in Listed("statefulsets") : SelectorLabelsMatching(o).err
  <2> DEFINE v == Verdicts["setSelector"]
  <2>1. DOMAIN v = DOMAIN parsed.statefulsets
    BY LoudVerdicts
  <2>2. \A i \in DOMAIN parsed.statefulsets : v[i] = SelectorLabelsMatching(parsed.statefulsets[i])
    BY LoudVerdicts
  <2> HIDE DEF v
  <2>3. (\E i \in DOMAIN v : v[i].err) <=>
           \E o \in Listed("statefulsets") : SelectorLabelsMatching(o).err
    BY <1>1, <2>1, <2>2
  <2> QED BY <2>3 DEF v
<1>6. failing("setBudget") <=> \E o \in Listed("statefulsets") : HasDisruptionBudget(o).err
  <2> DEFINE v == Verdicts["setBudget"]
  <2>1. DOMAIN v = DOMAIN parsed.statefulsets
    BY LoudVerdicts
  <2>2. \A i \in DOMAIN parsed.statefulsets : v[i] = HasDisruptionBudget(parsed.statefulsets[i])
    BY LoudVerdicts
  <2> HIDE DEF v
  <2>3. (\E i \in DOMAIN v : v[i].err) <=>
           \E o \in Listed("statefulsets") : HasDisruptionBudget(o).err
    BY <1>1, <2>1, <2>2
  <2> QED BY <2>3 DEF v
<1> HIDE DEF failing
<1>7. (\E c \in Loud : failing(c)) <=>
         \/ failing("selector") \/ failing("budget")
         \/ failing("setSelector") \/ failing("setBudget")
  BY DEF Loud
<1>8. (\E c \in DOMAIN Verdicts : failing(c)) <=>
         \E o \in Listed("deployments") \cup Listed("statefulsets") : Fails(o)
  BY <1>2, <1>3, <1>4, <1>5, <1>6, <1>7, LoudChecks
<1> QED BY <1>8 DEF failing

LEMMA ScoreFails ==
  ASSUME Sorted, Score
  PROVE  OnlyInvalidSelectorsFail'
<1> DEFINE failed == \E c \in DOMAIN Verdicts : \E i \in DOMAIN Verdicts[c] : Verdicts[c][i].err
<1>1. parsed' = parsed /\ status' = IF failed THEN "error" ELSE "scored"
  BY DEF Score
<1>2. failed <=> \E o \in Listed("deployments") \cup Listed("statefulsets") : Fails(o)
  BY SomeFails
<1> HIDE DEF failed
<1>3. status' = "error" <=> failed
  BY <1>1
<1>4. /\ Listed("deployments")' = Listed("deployments")
      /\ Listed("statefulsets")' = Listed("statefulsets")
      /\ \A o : MeetsInvalid(o)' <=> MeetsInvalid(o)
  BY <1>1 DEF Listed, MeetsInvalid
<1> QED BY <1>2, <1>3, <1>4 DEF OnlyInvalidSelectorsFail, Fails

-----------------------------------------------------------------------------
(* The advice to use a newer apiVersion.                                     *)

\* What becomes of what: old apiVersion, kind, new apiVersion.
Moves ==
  {<<"extensions/v1beta1", "Deployment", "apps/v1">>,
   <<"extensions/v1beta1", "DaemonSet", "apps/v1">>,
   <<"extensions/v1beta1", "Ingress", "networking.k8s.io/v1">>,
   <<"extensions/v1beta1", "IngressClass", "networking.k8s.io/v1">>,
   <<"apps/v1beta1", "Deployment", "apps/v1">>,
   <<"apps/v1beta1", "StatefulSet", "apps/v1">>,
   <<"apps/v1beta2", "Deployment", "apps/v1">>,
   <<"apps/v1beta2", "StatefulSet", "apps/v1">>,
   <<"apps/v1beta2", "DaemonSet", "apps/v1">>,
   <<"batch/v1beta1", "CronJob", "batch/v1">>,
   <<"policy/v1beta1", "PodDisruptionBudget", "policy/v1">>,
   <<"networking.k8s.io/v1beta1", "Ingress", "networking.k8s.io/v1">>,
   <<"networking.k8s.io/v1beta1", "IngressClass", "networking.k8s.io/v1">>}

LEMMA MovesAre ==
  ASSUME NEW r \in WithStable
  PROVE  \E m \in Moves : r.gvk = <<m[1], m[2]>> /\ r.new = m[3]
BY DEF WithStable, Moves

\* No move leads to a version that is to be moved again.
LEMMA MovesEnd ==
  ASSUME NEW m \in Moves, NEW k \in Moves
  PROVE  <<k[1], k[2]>> # <<m[3], m[2]>>
BY DEF Moves

\* The lists of one kind, without the list of all.
KindLists(gvk) ==
  {l \in DOMAIN OtherKinds : gvk \in OtherKinds[l]}
  \cup (IF gvk = <<"v1", "Pod">> THEN {"pods"} ELSE {})
  \cup (IF gvk \in PodSpecers THEN {"podspecers"} ELSE {})
  \cup (IF gvk \in PodSpecers /\ gvk[2] = "CronJob" THEN {"cronjobs"} ELSE {})
  \cup (IF gvk = <<"apps/v1", "Deployment">> THEN {"deployments"} ELSE {})
  \cup (IF gvk = <<"apps/v1", "StatefulSet">> THEN {"statefulsets"} ELSE {})

LEMMA ListsGrow ==
  ASSUME NEW g, NEW h, KindLists(g) \subseteq KindLists(h)
  PROVE  ListsOf(g) \subseteq ListsOf(h)
<1>1. \A x : ListsOf(x) = IF KindLists(x) = {} THEN {} ELSE KindLists(x) \cup {"bothMetas"}
  BY DEF ListsOf, KindLists
<1> QED BY <1>1

LEMMA OtherKindsAre ==
  /\ DOMAIN OtherKinds = {"networkPolicies", "services", "podDisruptionBudgets",
                          "ingresses", "hpaTargeters"}
  /\ OtherKinds["networkPolicies"] = {<<"networking.k8s.io/v1", "NetworkPolicy">>}
  /\ OtherKinds["services"] = {<<"v1", "Service">>}
  /\ OtherKinds["podDisruptionBudgets"] = Budgets
  /\ OtherKinds["ingresses"] =
        {<<v, "Ingress">> : v \in {"extensions/v1beta1", "networking.k8s.io/v1",
                                   "networking.k8s.io/v1beta1"}}
  /\ OtherKinds["hpaTargeters"] =
        {<<v, "HorizontalPodAutoscaler">> : v \in {"autoscaling/v1", "autoscaling/v2",
                                                   "autoscaling/v2beta1", "autoscaling/v2beta2"}}
BY DEF OtherKinds

LEMMA MovesKeepLists ==
  ASSUME NEW m \in Moves
  PROVE  ListsOf(<<m[1], m[2]>>) \subseteq ListsOf(<<m[3], m[2]>>)
<1> DEFINE g == <<m[1], m[2]>>
           h == <<m[3], m[2]>>
<1>1. g \in PodSpecers => h \in PodSpecers
  BY DEF Moves, PodSpecers
<1>2. g \in Budgets => h \in Budgets
  BY DEF Moves, Budgets
<1>3. g \in OtherKinds["ingresses"] => h \in OtherKinds["ingresses"]
  BY OtherKindsAre DEF Moves
<1>4. g[2] = h[2]
  OBVIOUS
<1>5. g # <<"v1", "Pod">> /\ g # <<"apps/v1", "Deployment">> /\ g # <<"apps/v1", "StatefulSet">>
  BY DEF Moves
<1>6. g \notin OtherKinds["networkPolicies"] /\ g \notin OtherKinds["services"]
  BY OtherKindsAre DEF Moves
<1>7. g \notin OtherKinds["hpaTargeters"]
  BY OtherKindsAre DEF Moves
<1> HIDE DEF g, h
<1>8. \A l \in DOMAIN OtherKinds : g \in OtherKinds[l] => h \in OtherKinds[l]
  BY <1>2, <1>3, <1>6, <1>7, OtherKindsAre
<1>9. KindLists(g) \subseteq KindLists(h)
  BY <1>1, <1>4, <1>5, <1>8 DEF KindLists
<1> QED BY <1>9, ListsGrow DEF g, h

LEMMA AdviceIs ==
  \A r \in WithStable :
     /\ ListsOf(r.gvk) \subseteq ListsOf(<<r.new, r.gvk[2]>>)
     /\ ~\E further \in WithStable : further.gvk = <<r.new, r.gvk[2]>>
<1> SUFFICES ASSUME NEW r \in WithStable
             PROVE  /\ ListsOf(r.gvk) \subseteq ListsOf(<<r.new, r.gvk[2]>>)
                    /\ ~\E further \in WithStable : further.gvk = <<r.new, r.gvk[2]>>
  OBVIOUS
<1>1. PICK m \in Moves : r.gvk = <<m[1], m[2]>> /\ r.new = m[3]
  BY MovesAre
<1>2. <<r.new, r.gvk[2]>> = <<m[3], m[2]>>
  BY <1>1
<1>3. ListsOf(r.gvk) \subseteq ListsOf(<<r.new, r.gvk[2]>>)
  BY <1>1, <1>2, MovesKeepLists
<1>4. ASSUME NEW further \in WithStable PROVE further.gvk # <<r.new, r.gvk[2]>>
  <2>1. PICK k \in Moves : further.gvk = <<k[1], k[2]>>
    BY MovesAre
  <2> QED BY <1>2, <2>1, MovesEnd
<1> QED BY <1>3, <1>4

-----------------------------------------------------------------------------
(* The replicas.                                                             *)

LEMMA IsInt32 == Int32(MinReplicasDeployment) \in Int
BY FlagsAssumption DEF Int32

\* An autoscaler with the apiVersion and the case of the kind has the kind.
LEMMA ScaledIsNamed == ASSUME NEW d, Scaled(d) PROVE Named(d)
BY DEF Scaled, Named, ScaledBy, NamedBy, EqualFold

\* The replicas that the two checks are content with.
Content(d, r) ==
    \A v \in {DeploymentReplicas([d EXCEPT !.replicas = r]),
              HpaDeploymentNoReplicas([d EXCEPT !.replicas = r])} :
        v.skipped \/ v = AllOK

LEMMA ContentIs ==
  ASSUME NEW d, {"gvk", "ns", "name", "labels", "replicas"} \subseteq DOMAIN d, NEW r
  PROVE  Content(d, r) <=>
            /\ Named(d) => r = << >>
            /\ ReferencedByService(d) /\ ~Scaled(d) =>
                  Deref(r, 1) >= Int32(MinReplicasDeployment)
<1> DEFINE fixed == [d EXCEPT !.replicas = r]
           enough == Deref(r, 1) >= Int32(MinReplicasDeployment)
<1>1. /\ fixed.gvk = d.gvk /\ fixed.ns = d.ns /\ fixed.name = d.name
      /\ fixed.labels = d.labels /\ fixed.replicas = r
  OBVIOUS
<1> HIDE DEF fixed
<1>2. ReferencedByService(fixed) <=> ReferencedByService(d)
  BY <1>1 DEF ReferencedByService
<1>3. (\E h \in Listed("hpaTargeters") : NamedBy(fixed, h)) <=> Named(d)
  BY <1>1 DEF NamedBy, Named
<1>4. (\E h \in Listed("hpaTargeters") : ScaledBy(fixed, h)) <=> Scaled(d)
  BY <1>1 DEF ScaledBy, Scaled
<1>5. HpaDeploymentNoReplicas(fixed) = IF Named(d) THEN CriticalIf(r # << >>) ELSE Skipped(10)
  BY <1>1, <1>3 DEF HpaDeploymentNoReplicas
<1>6. DeploymentReplicas(fixed) =
         IF ~ReferencedByService(d) \/ Scaled(d) THEN Skipped(0)
         ELSE IF enough THEN AllOK ELSE Warning
  BY <1>1, <1>2, <1>4 DEF DeploymentReplicas
<1> HIDE DEF enough
<1>7. LET v == HpaDeploymentNoReplicas(fixed)
      IN  v.skipped \/ v = AllOK <=> (Named(d) => r = << >>)
  BY <1>5, Grades
<1>8. LET v == DeploymentReplicas(fixed)
      IN  v.skipped \/ v = AllOK <=> (ReferencedByService(d) /\ ~Scaled(d) => enough)
  BY <1>6, Grades
<1> QED BY <1>7, <1>8 DEF Content, fixed, enough

LEMMA SomeReplicasDo ==
  ASSUME NEW d, {"gvk", "ns", "name", "labels", "replicas"} \subseteq DOMAIN d
  PROVE  (\E r \in {<< >>} \cup {<<n>> : n \in 0..Int32(MinReplicasDeployment)} : Content(d, r))
         <=> ~(/\ Named(d) /\ ~Scaled(d)
               /\ ReferencedByService(d) /\ Int32(MinReplicasDeployment) > 1)
<1> DEFINE m == Int32(MinReplicasDeployment)
           R == {<< >>} \cup {<<n>> : n \in 0..m}
           conflict == Named(d) /\ ~Scaled(d) /\ ReferencedByService(d) /\ m > 1
<1>1. \A r : Content(d, r) <=> /\ Named(d) => r = << >>
                               /\ ReferencedByService(d) /\ ~Scaled(d) => Deref(r, 1) >= m
  BY ContentIs
<1>2. m \in Int /\ Deref(<< >>, 1) = 1 /\ Deref(<<m>>, 1) = m
  BY IsInt32 DEF Deref
<1> HIDE DEF m
<1>3. ASSUME conflict, NEW r \in R PROVE ~Content(d, r)
  <2>1. ~(1 >= m)
    BY <1>2, <1>3
  <2> QED BY <1>1, <1>2, <1>3, <2>1
<1>4. ASSUME ~conflict PROVE \E r \in R : Content(d, r)
  <2>1. CASE Named(d) \/ Scaled(d) \/ ~ReferencedByService(d) \/ m <= 1
    <3>1. ReferencedByService(d) /\ ~Scaled(d) => 1 >= m
      BY <1>2, <1>4, <2>1, ScaledIsNamed
    <3>2. Content(d, << >>)
      BY <1>1, <1>2, <3>1
    <3> QED BY <3>2
  <2>2. CASE ~Named(d) /\ m > 1
    <3>1. <<m>> \in R /\ m >= m
      BY <1>2, <2>2
    <3>2. Content(d, <<m>>)
      BY <1>1, <1>2, <2>2, <3>1
    <3> QED BY <3>1, <3>2
  <2> QED BY <1>2, <2>1, <2>2
<1> QED BY <1>3, <1>4 DEF m

LEMMA ReplicasDo == ASSUME Sorted PROVE ReplicasSatisfiable
<1>1. "deployments" \in ListNames
  BY DEF ListNames
<1>2. ASSUME NEW k \in DOMAIN parsed.deployments
      PROVE  {"gvk", "ns", "name", "labels", "replicas"} \subseteq DOMAIN parsed.deployments[k]
  <2>1. /\ parsed.deployments[k] \in Documents /\ parsed.deployments[k].form = "object"
        /\ "deployments" \in ListsOf(parsed.deployments[k].gvk)
    BY <1>1 DEF Sorted
  <2> QED BY <2>1, FieldsAssumption
<1> QED BY <1>2, SomeReplicasDo DEF ReplicasSatisfiable, Content

-----------------------------------------------------------------------------
(* The invariant.                                                            *)

\* What the results of a run that is scored have to do with each other.
Inv == Sorted /\ Progress /\ TargetingAgrees /\ BudgetAnyOrder /\ OnlyInvalidSelectorsFail

LEMMA ProgressStarts == ASSUME Init PROVE Progress
<1>1. /\ input \in Seq(Documents) /\ todo = input /\ status = "reading"
      /\ parsed["bothMetas"] = << >> /\ \A l \in ListNames : parsed[l] = << >>
  BY DocumentsAssumption DEF Init, ParserInit, ListNames
<1>2. Leaves(input) \in Seq(Documents)
  BY <1>1, LeavesConcat
<1>3. << >> \o Leaves(input) = Leaves(input) /\ << >> \in Seq(Documents) /\ DOMAIN << >> = {}
  BY <1>2
<1>4. Read(<< >>, input, todo, parsed)
  BY <1>1, <1>3, OpenedNone DEF Read
<1> QED BY <1>1, <1>3, <1>4 DEF Progress

LEMMA ProgressSteps == ASSUME Sorted, Progress, [Next]_vars PROVE Progress'
<1>1. CASE ReadDocument
  BY <1>1, ReadProgresses
<1>2. CASE EndOfInput
  BY <1>2 DEF Progress, EndOfInput
<1>3. CASE Score
  BY <1>3 DEF Progress, Score
<1>4. CASE UNCHANGED vars
  BY <1>4 DEF Progress, vars
<1> QED BY <1>1, <1>2, <1>3, <1>4 DEF Next

LEMMA Starts == ASSUME Init PROVE Inv
<1>1. \A l \in ListNames : << >> \in Seq(Documents) /\ DOMAIN << >> = {}
  OBVIOUS
<1>2. input \in Inputs /\ input \in Seq(Documents)
  BY DocumentsAssumption DEF Init, ParserInit
<1>3. Sorted
  BY <1>1, <1>2 DEF Sorted, Init, ParserInit
<1>4. ~Scored /\ status \notin {"scored", "error"}
  BY DEF Scored, Init, ParserInit
<1> QED BY <1>3, <1>4, ProgressStarts
        DEF Inv, TargetingAgrees, NetworkPoliciesAgree, ServicesAgree, BudgetAnyOrder,
            OnlyInvalidSelectorsFail

LEMMA ScoreKeeps == ASSUME Inv, Score PROVE Inv'
<1>1. Sorted /\ Sorted' /\ Progress'
  BY ProgressSteps DEF Inv, Sorted, Score, Next
<1>2. CASE status' = "scored"
  BY <1>1, <1>2, NetworkPoliciesScored, ServicesScored, BudgetScored, ScoreFails
     DEF Inv, TargetingAgrees
<1>3. CASE status' # "scored"
  BY <1>1, <1>3, ScoreFails DEF Inv, TargetingAgrees, NetworkPoliciesAgree, ServicesAgree,
                                 BudgetAnyOrder, Scored
<1> QED BY <1>2, <1>3

LEMMA ParserKeeps ==
  ASSUME Inv, (ReadDocument \/ EndOfInput) /\ UNCHANGED results
  PROVE  Inv'
<1>1. Progress'
  BY ProgressSteps DEF Inv, Next
<1>2. Sorted' /\ status' \notin {"scored", "error"}
  <2>1. CASE ReadDocument
    BY <2>1, ReadSorts DEF Inv
  <2>2. CASE EndOfInput
    BY <2>2 DEF Inv, Sorted, EndOfInput
  <2> QED BY <2>1, <2>2
<1> QED BY <1>1, <1>2 DEF Inv, TargetingAgrees, NetworkPoliciesAgree, ServicesAgree,
                         BudgetAnyOrder, OnlyInvalidSelectorsFail, Scored

LEMMA StutterKeeps == ASSUME Inv, UNCHANGED vars PROVE Inv'
<1>1. Sorted' /\ Progress'
  BY ProgressSteps DEF Inv, Sorted, vars
<1>2. NetworkPoliciesAgree'
  BY DEF Inv, vars, TargetingAgrees, NetworkPoliciesAgree, Scored, PodSeq
<1>3. ServicesAgree'
  BY ZenonT(30) DEF Inv, vars, TargetingAgrees, ServicesAgree, Scored, PodSeq
<1>4. BudgetAnyOrder'
  BY DEF Inv, vars, BudgetAnyOrder, BudgetsFound, Scored, Listed
<1>5. OnlyInvalidSelectorsFail'
  BY DEF Inv, vars, OnlyInvalidSelectorsFail, MeetsInvalid, Listed
<1> QED BY <1>1, <1>2, <1>3, <1>4, <1>5 DEF Inv, TargetingAgrees

LEMMA Steps == ASSUME Inv, [Next]_vars PROVE Inv'
BY ScoreKeeps, ParserKeeps, StutterKeeps DEF Next

\* Every reachable state of a run satisfies the invariant.
THEOREM Invariant == Spec => []Inv
<1>1. Init => Inv
  BY Starts
<1>2. Inv /\ [Next]_vars => Inv'
  BY Steps
<1> QED BY <1>1, <1>2, PTL DEF Spec

\* The parser keeps every object on the lists of its kind, in order, however many
\* documents there are, and a run that gets past it has read nothing that does not decode.
THEOREM AllKept == Spec => []NothingLost
<1>1. Inv => NothingLost
  BY ProgressTells DEF Inv
<1> QED BY <1>1, Invariant, PTL

\* The checks that look at the two ends of a policy or a service agree on who is
\* selected, whatever the selectors match.
THEOREM Agree == Spec => []TargetingAgrees
<1>1. Inv => TargetingAgrees
  BY DEF Inv
<1> QED BY <1>1, Invariant, PTL

\* Which of the budgets comes first does not decide if a workload has one.
THEOREM AnyOrder == Spec => []BudgetAnyOrder
<1>1. Inv => BudgetAnyOrder
  BY DEF Inv
<1> QED BY <1>1, Invariant, PTL

\* The advice of stable_version.go leads to versions that are on the same lists and
\* are not to be replaced again.  (Of the tables alone: it holds in every state.)
THEOREM AdviceKept == Spec => []AdviceKeepsChecks
<1>1. Inv => AdviceKeepsChecks
  BY AdviceIs DEF AdviceKeepsChecks
<1> QED BY <1>1, Invariant, PTL

\* A run fails only for a selector of a workload, or of a budget that the search for
\* one comes upon: none of the other checks ends it, on any object.
THEOREM OnlySelectorsFail == Spec => []OnlyInvalidSelectorsFail
<1>1. Inv => OnlyInvalidSelectorsFail
  BY DEF Inv
<1> QED BY <1>1, Invariant, PTL

\* When some number of replicas satisfies both checks on replicas, and when none
\* does, for every minimum and every way to name a Deployment.
THEOREM Satisfiable == Spec => []ReplicasSatisfiable
<1>1. Inv => ReplicasSatisfiable
  BY ReplicasDo DEF Inv
<1> QED BY <1>1, Invariant, PTL

=============================================================================
