----------------------------- MODULE AFP_proofs -----------------------------
(***************************************************************************)
(* What the AppleShare volume keeps, whatever is in the folder, whoever    *)
(* asks for what, and whatever the host does behind the server.            *)
(***************************************************************************)
EXTENDS AFPVolume, SequenceTheorems, FiniteSetTheorems, WellFoundedInduction,
        TLAPS

-----------------------------------------------------------------------------
(* Paths.                                                                  *)

Path == Seq(Names)

\* What of a path is left after that of a folder it goes through.
Rest(rel, folder) == SubSeq(rel, Len(folder) + 1, Len(rel))

LEMMA PathIs ==
  ASSUME NEW p \in Path, NEW q \in Path
  PROVE  /\ Len(p) \in Nat
         /\ p \o q \in Path /\ Len(p \o q) = Len(p) + Len(q)
         /\ \A i \in 1..Len(p) + Len(q) :
              (p \o q)[i] = IF i <= Len(p) THEN p[i] ELSE q[i - Len(p)]
  BY ConcatProperties DEF Path

LEMMA RestIs ==
  ASSUME NEW p \in Path, NEW a \in Path, Len(a) <= Len(p)
  PROVE  /\ Rest(p, a) \in Path
         /\ Len(Rest(p, a)) = Len(p) - Len(a)
         /\ \A i \in 1..Len(p) - Len(a) : Rest(p, a)[i] = p[Len(a) + i]
<1> DEFINE k == Len(a) + 1
           n == Len(p)
<1>1. n \in Nat /\ k \in Nat /\ k >= 1 /\ k <= n + 1
  <2>1. Len(p) \in Nat /\ Len(a) \in Nat
    BY PathIs
  <2> QED BY <2>1
<1>2. \A i \in k..n : p[i] \in Names
  <2>1. ASSUME NEW i \in k..n PROVE i \in 1..Len(p)
    BY <1>1
  <2> QED BY <2>1, ElementOfSeq DEF Path
<1>3. Rest(p, a) = SubSeq(p, k, n)
  BY DEF Rest
<1>4. k \in Int /\ n \in Int
  BY <1>1
<1> HIDE DEF k, n
<1>5. /\ SubSeq(p, k, n) \in Seq(Names)
      /\ Len(SubSeq(p, k, n)) = IF k <= n THEN n - k + 1 ELSE 0
      /\ \A i \in 1..n - k + 1 : SubSeq(p, k, n)[i] = p[k + i - 1]
  BY <1>2, <1>4, SubSeqProperties
<1>6. k = Len(a) + 1 /\ n = Len(p) /\ Len(a) \in Nat
  BY PathIs DEF k, n
<1> QED BY <1>1, <1>3, <1>5, <1>6 DEF Path

\* A path through a folder is that of the folder and the rest.
LEMMA PrefixAndRest ==
  ASSUME NEW p \in Path, NEW a \in Path, IsPrefix(a, p)
  PROVE  Rest(p, a) \in Path /\ a \o Rest(p, a) = p
<1> DEFINE r == Rest(p, a)
<1>1. Len(a) <= Len(p) /\ Len(a) \in Nat /\ Len(p) \in Nat
  BY PathIs DEF IsPrefix
<1>2. /\ r \in Path /\ Len(r) = Len(p) - Len(a)
      /\ \A i \in 1..Len(p) - Len(a) : r[i] = p[Len(a) + i]
  BY <1>1, RestIs
<1>3. ASSUME NEW i \in 1..Len(a) PROVE a[i] = p[i]
  <2>1. /\ \A x \in 1..Len(a) : a[x] \in Names
        /\ \A x \in 1..Len(p) : p[x] \in Names
    BY ElementOfSeq DEF Path
  <2>2. /\ \A j \in 1..Len(a) - 1 + 1 : SubSeq(a, 1, Len(a))[j] = a[1 + j - 1]
    BY <1>1, <2>1, SubSeqProperties
  <2>3. \A x \in 1..Len(a) : p[x] \in Names
    BY <1>1, <2>1
  <2>4. /\ \A j \in 1..Len(a) - 1 + 1 : SubSeq(p, 1, Len(a))[j] = p[1 + j - 1]
    BY <1>1, <2>3, SubSeqProperties
  <2>5. SubSeq(a, 1, Len(a)) = SubSeq(p, 1, Len(a))
    BY DEF IsPrefix
  <2> QED BY <1>1, <2>2, <2>4, <2>5
<1> HIDE DEF r
<1>4. /\ a \o r \in Path /\ Len(a \o r) = Len(p)
      /\ \A i \in 1..Len(p) : (a \o r)[i] = IF i <= Len(a) THEN a[i] ELSE r[i - Len(a)]
  <2>1. /\ a \o r \in Path /\ Len(a \o r) = Len(a) + Len(r)
        /\ \A i \in 1..Len(a) + Len(r) : (a \o r)[i] = IF i <= Len(a) THEN a[i] ELSE r[i - Len(a)]
    BY <1>2, PathIs
  <2> QED BY <1>1, <1>2, <2>1
<1>5. ASSUME NEW i \in 1..Len(p) PROVE (a \o r)[i] = p[i]
  <2>1. CASE i <= Len(a)
    BY <1>1, <1>3, <1>4, <2>1
  <2>2. CASE ~(i <= Len(a))
    <3>1. i - Len(a) \in 1..Len(p) - Len(a) /\ Len(a) + (i - Len(a)) = i
      BY <1>1, <2>2
    <3>2. r[i - Len(a)] = p[i]
      BY <1>2, <3>1
    <3> QED BY <1>4, <2>2, <3>2
  <2> QED BY <2>1, <2>2
<1>6. a \o r = p
  BY <1>4, <1>5, SeqEqual DEF Path
<1> QED BY <1>2, <1>6 DEF r

LEMMA RestOfConcat ==
  ASSUME NEW a \in Path, NEW r \in Path
  PROVE  IsPrefix(a, a \o r) /\ Rest(a \o r, a) = r
<1> DEFINE p == a \o r
<1>1. /\ p \in Path /\ Len(p) = Len(a) + Len(r) /\ Len(a) \in Nat /\ Len(r) \in Nat
      /\ \A i \in 1..Len(a) + Len(r) : p[i] = IF i <= Len(a) THEN a[i] ELSE r[i - Len(a)]
  BY PathIs
<1> HIDE DEF p
<1>2. Len(a) <= Len(p)
  BY <1>1
<1>3. SubSeq(a, 1, Len(a)) = SubSeq(p, 1, Len(a))
  <2> DEFINE s == SubSeq(a, 1, Len(a))
             t == SubSeq(p, 1, Len(a))
  <2>1. /\ \A i \in 1..Len(a) : a[i] \in Names
        /\ \A i \in 1..Len(a) : p[i] = a[i]
    BY <1>1, ElementOfSeq DEF Path
  <2>2. s \in Seq(Names) /\ Len(s) = (IF 1 <= Len(a) THEN Len(a) - 1 + 1 ELSE 0)
        /\ \A i \in 1..Len(a) - 1 + 1 : s[i] = a[1 + i - 1]
    BY <1>1, <2>1, SubSeqProperties
  <2>3. t \in Seq(Names) /\ Len(t) = (IF 1 <= Len(a) THEN Len(a) - 1 + 1 ELSE 0)
        /\ \A i \in 1..Len(a) - 1 + 1 : t[i] = p[1 + i - 1]
    BY <1>1, <2>1, SubSeqProperties
  <2> HIDE DEF s, t
  <2>4. Len(s) = Len(t) /\ \A i \in 1..Len(s) : s[i] = t[i]
    BY <1>1, <2>1, <2>2, <2>3
  <2>5. s = t
    BY <2>2, <2>3, <2>4, SeqEqual
  <2> QED BY <2>5 DEF s, t
<1>4. Rest(p, a) = r
  <2>1. /\ Rest(p, a) \in Path /\ Len(Rest(p, a)) = Len(p) - Len(a)
        /\ \A i \in 1..Len(p) - Len(a) : Rest(p, a)[i] = p[Len(a) + i]
    BY <1>1, <1>2, RestIs
  <2>2. ASSUME NEW i \in 1..Len(r) PROVE Rest(p, a)[i] = r[i]
    <3>1. i \in 1..Len(p) - Len(a) /\ Len(a) + i \in 1..Len(a) + Len(r)
          /\ ~(Len(a) + i <= Len(a)) /\ Len(a) + i - Len(a) = i
      BY <1>1
    <3>2. Rest(p, a)[i] = p[Len(a) + i]
      BY <2>1, <3>1
    <3>3. p[Len(a) + i] = r[Len(a) + i - Len(a)]
      BY <1>1, <3>1
    <3> QED BY <3>1, <3>2, <3>3
  <2>3. Len(Rest(p, a)) = Len(r)
    BY <1>1, <2>1
  <2> QED BY <2>1, <2>2, <2>3, SeqEqual DEF Path
<1> QED BY <1>2, <1>3, <1>4 DEF IsPrefix, p

\* Where something went tells where it was.
LEMMA GoneIs ==
  ASSUME NEW q \in Path, NEW from \in Path, NEW to \in Path, IsPrefix(from, q)
  PROVE  LET p == Gone(q, from, to) IN
         p \in Path /\ IsPrefix(to, p) /\ from \o Rest(p, to) = q
<1>1. Gone(q, from, to) = to \o Rest(q, from)
  BY DEF Gone, Rest
<1>2. Rest(q, from) \in Path /\ from \o Rest(q, from) = q
  BY PrefixAndRest
<1>3. to \o Rest(q, from) \in Path
  BY <1>2, PathIs
<1>4. IsPrefix(to, to \o Rest(q, from)) /\ Rest(to \o Rest(q, from), to) = Rest(q, from)
  BY <1>2, RestOfConcat
<1> QED BY <1>1, <1>2, <1>3, <1>4

\* And where it was tells where it went.
LEMMA CameFrom ==
  ASSUME NEW p \in Path, NEW from \in Path, NEW to \in Path, IsPrefix(to, p)
  PROVE  LET q == from \o Rest(p, to) IN
         q \in Path /\ IsPrefix(from, q) /\ Gone(q, from, to) = p
<1> DEFINE q == from \o Rest(p, to)
<1>1. Rest(p, to) \in Path /\ to \o Rest(p, to) = p
  BY PrefixAndRest
<1>2. q \in Path
  BY <1>1, PathIs
<1>3. IsPrefix(from, q) /\ Rest(q, from) = Rest(p, to)
  BY <1>1, RestOfConcat
<1>4. Gone(q, from, to) = to \o Rest(q, from)
  BY DEF Gone, Rest
<1> QED BY <1>1, <1>2, <1>3, <1>4

-----------------------------------------------------------------------------
(* Functions of paths.                                                     *)

LEMMA WithIs ==
  ASSUME NEW f, NEW x, NEW y
  PROVE  /\ DOMAIN With(f, x, y) = {x} \cup DOMAIN f
         /\ With(f, x, y)[x] = y
         /\ \A z \in DOMAIN f : z # x => With(f, x, y)[z] = f[z]
  BY DEF With

LEMMA WithoutIs ==
  ASSUME NEW f, NEW rel
  PROVE  /\ DOMAIN Without(f, rel) = {p \in DOMAIN f : ~IsPrefix(rel, p)}
         /\ \A p \in DOMAIN Without(f, rel) : Without(f, rel)[p] = f[p]
  BY DEF Without

\* What moved is where it went, with what it had.
MovedThere(f, g, from, to) ==
  \A q \in DOMAIN f : IsPrefix(from, q) =>
    Gone(q, from, to) \in DOMAIN g /\ g[Gone(q, from, to)] = f[q]

\* What did not is where it was, unless something landed there.
StaysThere(f, g, from, to) ==
  \A p \in DOMAIN f : ~IsPrefix(from, p) /\ ~IsPrefix(to, p) =>
    p \in DOMAIN g /\ g[p] = f[p]

\* There is nothing else.
NoOther(f, g, from, to) ==
  \A p \in DOMAIN g :
    \/ \E q \in DOMAIN f : IsPrefix(from, q) /\ p = Gone(q, from, to) /\ g[p] = f[q]
    \/ p \in DOMAIN f /\ ~IsPrefix(from, p) /\ g[p] = f[p]

LEMMA RelocatedIs ==
  ASSUME NEW f, DOMAIN f \subseteq Path, NEW from \in Path, NEW to \in Path
  PROVE  LET g == Relocated(f, from, to) IN
         /\ MovedThere(f, g, from, to)
         /\ StaysThere(f, g, from, to)
         /\ NoOther(f, g, from, to)
<1> DEFINE g == Relocated(f, from, to)
           went == {p \in DOMAIN f : IsPrefix(from, p)}
           kept == {p \in DOMAIN f : ~IsPrefix(from, p)}
           dom == {Gone(q, from, to) : q \in went} \cup kept
           back(p) == from \o Rest(p, to)
<1>1. g = [p \in dom |-> IF IsPrefix(to, p) /\ back(p) \in went THEN f[back(p)] ELSE f[p]]
  BY DEF Relocated, Rest
<1>2. DOMAIN g = dom
  BY <1>1
<1>3. ASSUME NEW p \in dom
      PROVE  g[p] = IF IsPrefix(to, p) /\ back(p) \in went THEN f[back(p)] ELSE f[p]
  BY <1>1
<1> HIDE DEF g
<1>4. ASSUME NEW q \in went
      PROVE  LET p == Gone(q, from, to) IN
             p \in dom /\ IsPrefix(to, p) /\ back(p) = q /\ g[p] = f[q]
  <2>1. q \in Path /\ IsPrefix(from, q)
    OBVIOUS
  <2>2. IsPrefix(to, Gone(q, from, to)) /\ back(Gone(q, from, to)) = q
    BY <2>1, GoneIs
  <2> QED BY <1>3, <2>2
<1>5. MovedThere(f, g, from, to)
  BY <1>2, <1>4 DEF MovedThere
<1>6. StaysThere(f, g, from, to)
  BY <1>2, <1>3 DEF StaysThere
<1>7. ASSUME NEW p \in dom
      PROVE  \/ \E q \in DOMAIN f : IsPrefix(from, q) /\ p = Gone(q, from, to) /\ g[p] = f[q]
             \/ p \in DOMAIN f /\ ~IsPrefix(from, p) /\ g[p] = f[p]
  <2>1. CASE \E q \in went : p = Gone(q, from, to)
    BY <1>4, <2>1
  <2>2. CASE ~\E q \in went : p = Gone(q, from, to)
    <3>1. p \in kept /\ p \in Path
      BY <2>2
    <3>2. IsPrefix(to, p) => Gone(back(p), from, to) = p
      BY <3>1, CameFrom
    <3>3. ~(IsPrefix(to, p) /\ back(p) \in went)
      BY <2>2, <3>2
    <3> QED BY <1>3, <3>1, <3>3
  <2> QED BY <2>1, <2>2
<1>8. NoOther(f, g, from, to)
  BY <1>2, <1>7 DEF NoOther
<1> QED BY <1>5, <1>6, <1>8 DEF g

-----------------------------------------------------------------------------
(* What is done with one thing of a list after the other.                  *)

\* One step: a folder is numbered, a part of a path is followed, an entry of
\* a list is kept or not, an application is put in one, more of a fork is read,
\* a fork is closed.
Step(kind, outcome, x, y) ==
  CASE kind = "number" -> Number(x, y)
    [] kind = "follow" -> FollowPart(x, y)
    [] kind = "select" -> IF y \in outcome THEN Append(x, y) ELSE x
    [] kind = "put" -> Put(x, Metadata(y).finder, y)
    [] kind = "read" -> x \o Read(outcome[1], Len(x), QuantumSize, outcome[2]).bytes
    [] OTHER -> Closed(x, y, outcome)

LEMMA LeastOf ==
  ASSUME NEW S, S \subseteq Nat, S # {}
  PROVE  \E i \in S : \A j \in S : i <= j
<1> DEFINE R == {pair \in Nat \X Nat : pair[1] < pair[2]}
<1>1. IsWellFoundedOn(R, Nat)
  BY NatLessThanWellFounded DEF OpToRel
<1>2. PICK i \in S : \A j \in S : <<j, i>> \notin R
  <2> HIDE DEF R
  <2> QED BY <1>1, WFMin
<1>3. \A j \in S : ~(j < i)
  BY <1>2
<1> QED BY <1>3

LEMMA LastIsMax ==
  ASSUME NEW k \in Nat \ {0}, NEW s \in SUBSET (1..k), k \in s
  PROVE  Max(s) = k
<1>1. \A x \in s : (\A y \in s : x >= y) <=> x = k
  OBVIOUS
<1> QED BY <1>1 DEF Max

\* The fold over any of the first k places of a list.
Folds(g, kind, outcome, x, list, k) ==
  g = [s \in SUBSET (1..k) |->
         IF s = {} THEN x ELSE Step(kind, outcome, g[s \ {Max(s)}], list[Max(s)])]

LEMMA FoldExists ==
  ASSUME NEW kind, NEW outcome, NEW x, NEW list, NEW n \in Nat
  PROVE  \E g : Folds(g, kind, outcome, x, list, n)
<1> DEFINE Exist(k) == \E g : Folds(g, kind, outcome, x, list, k)
           Bad == {k \in Nat : ~Exist(k)}
<1>1. SUFFICES ASSUME Bad # {} PROVE FALSE
  BY <1>1
<1>2. PICK k \in Bad : \A j \in Bad : k <= j
  <2> HIDE DEF Bad
  <2>1. Bad \subseteq Nat
    BY DEF Bad
  <2> QED BY <1>1, <2>1, LeastOf
<1>3. k # 0
  <2>1. Folds([s \in SUBSET (1..0) |-> x], kind, outcome, x, list, 0)
    <3>1. \A s \in SUBSET (1..0) : s = {}
      OBVIOUS
    <3> QED BY <3>1 DEF Folds
  <2> QED BY <2>1
<1>4. k - 1 \in Nat /\ k - 1 \notin Bad
  BY <1>2, <1>3
<1>5. PICK h : Folds(h, kind, outcome, x, list, k - 1)
  BY <1>4
<1> DEFINE g == [s \in SUBSET (1..k) |->
                   IF k \in s THEN Step(kind, outcome, h[s \ {k}], list[k]) ELSE h[s]]
<1>6. ASSUME NEW s \in SUBSET (1..k)
      PROVE  g[s] = IF s = {} THEN x ELSE Step(kind, outcome, g[s \ {Max(s)}], list[Max(s)])
  <2>1. CASE k \in s
    <3>1. Max(s) = k
      BY <2>1, <1>3, LastIsMax
    <3>2. s \ {k} \in SUBSET (1..k) /\ k \notin s \ {k}
      OBVIOUS
    <3> QED BY <2>1, <3>1, <3>2
  <2>2. CASE k \notin s
    <3>1. s \in SUBSET (1..k-1)
      BY <1>4, <2>2
    <3>2. h[s] = IF s = {} THEN x ELSE Step(kind, outcome, h[s \ {Max(s)}], list[Max(s)])
      BY <1>5, <3>1 DEF Folds
    <3>3. s \ {Max(s)} \in SUBSET (1..k) /\ k \notin s \ {Max(s)}
      BY <2>2
    <3> QED BY <2>2, <3>2, <3>3
  <2> QED BY <2>1, <2>2
<1>7. Folds(g, kind, outcome, x, list, k)
  BY <1>6 DEF Folds
<1> QED BY <1>2, <1>7

\* What a fold gives is the last of a list of states, each the one before it
\* after one more step.
Steps(w, kind, outcome, x, list, n) ==
  /\ w[0] = x
  /\ \A k \in 1..n : w[k] = Step(kind, outcome, w[k - 1], list[k])

LEMMA FoldSteps ==
  ASSUME NEW g, NEW kind, NEW outcome, NEW x, NEW list, NEW n \in Nat,
         Folds(g, kind, outcome, x, list, n)
  PROVE  \E w : Steps(w, kind, outcome, x, list, n) /\ w[n] = g[1..n]
<1> DEFINE w == [k \in 0..n |-> g[1..k]]
<1>3. ASSUME NEW s \in SUBSET (1..n)
      PROVE  g[s] = IF s = {} THEN x ELSE Step(kind, outcome, g[s \ {Max(s)}], list[Max(s)])
  BY DEF Folds
<1>4. w[0] = x
  <2>1. 1..0 = {} /\ {} \in SUBSET (1..n) /\ 0 \in 0..n
    OBVIOUS
  <2>2. g[{}] = x
    BY <1>3, <2>1
  <2> QED BY <2>1, <2>2
<1>5. ASSUME NEW k \in 1..n PROVE w[k] = Step(kind, outcome, w[k - 1], list[k])
  <2>1. 1..k \in SUBSET (1..n) /\ 1..k # {} /\ k \in Nat \ {0}
    <3>1. k \in 1..k /\ 1..k \subseteq 1..n
      OBVIOUS
    <3> QED BY <3>1
  <2>2. Max(1..k) = k
    BY <2>1, LastIsMax
  <2>3. (1..k) \ {k} = 1..k-1
    OBVIOUS
  <2>4. g[1..k] = Step(kind, outcome, g[1..k-1], list[k])
    BY <1>3, <2>1, <2>2, <2>3
  <2> QED BY <2>4
<1>6. w[n] = g[1..n]
  OBVIOUS
<1> QED BY <1>4, <1>5, <1>6 DEF Steps

\* What holds at first, and after a step if it held before, holds at last.
LEMMA HoldsAtLast ==
  ASSUME NEW n \in Nat, NEW Good \in SUBSET (0..n), 0 \in Good,
         \A k \in 1..n : k - 1 \in Good => k \in Good
  PROVE  n \in Good
<1> DEFINE Bad == (0..n) \ Good
<1>1. SUFFICES ASSUME Bad # {} PROVE FALSE
  BY <1>1
<1>2. PICK k \in Bad : \A j \in Bad : k <= j
  <2>1. Bad \subseteq Nat
    OBVIOUS
  <2> HIDE DEF Bad
  <2> QED BY <1>1, <2>1, LeastOf
<1>3. k \in 1..n /\ k - 1 \in 0..n /\ k - 1 \notin Bad
  BY <1>2
<1> QED BY <1>2, <1>3

\* The three folds of the model are such lists.
NumbersOneByOne(w, numbers, rels, n) ==
  /\ w[0] = numbers
  /\ \A k \in 1..n : w[k] = Number(w[k - 1], rels[k])
  /\ NumberAll(numbers, rels) = w[n]

LEMMA NumberAllSteps ==
  ASSUME NEW numbers, NEW rels, NEW n \in Nat, DOMAIN rels = 1..n
  PROVE  \E w : NumbersOneByOne(w, numbers, rels, n)
<1> DEFINE IsFold(g) == g = [s \in SUBSET (1..n) |->
              IF s = {} THEN numbers ELSE Number(g[s \ {Max(s)}], rels[Max(s)])]
           h == CHOOSE g : IsFold(g)
<1>1. NumberAll(numbers, rels) = h[1..n]
  BY DEF NumberAll, FoldLeft, MapThenFoldSet
<1>2. PICK g : Folds(g, "number", 0, numbers, rels, n)
  BY FoldExists
<1>3. \A x, y : Step("number", 0, x, y) = Number(x, y)
  BY DEF Step
<1>4. IsFold(g)
  BY <1>2, <1>3 DEF Folds
<1>5. IsFold(h)
  BY <1>4
<1> HIDE DEF h
<1>6. Folds(h, "number", 0, numbers, rels, n)
  BY <1>3, <1>5 DEF Folds
<1>7. PICK w : Steps(w, "number", 0, numbers, rels, n) /\ w[n] = h[1..n]
  BY <1>6, FoldSteps
<1> QED BY <1>1, <1>3, <1>7 DEF Steps, NumbersOneByOne

FollowsOneByOne(w, start, parts, n) ==
  /\ w[0] = start
  /\ \A k \in 1..n : w[k] = FollowPart(w[k - 1], parts[k])
  /\ Followed(start, parts) = w[n]

LEMMA FollowedSteps ==
  ASSUME NEW start, NEW parts, NEW n \in Nat, DOMAIN parts = 1..n
  PROVE  \E w : FollowsOneByOne(w, start, parts, n)
<1> DEFINE IsFold(g) == g = [s \in SUBSET (1..n) |->
              IF s = {} THEN start ELSE FollowPart(g[s \ {Max(s)}], parts[Max(s)])]
           h == CHOOSE g : IsFold(g)
<1>1. Followed(start, parts) = h[1..n]
  BY DEF Followed, FoldLeft, MapThenFoldSet
<1>2. PICK g : Folds(g, "follow", 0, start, parts, n)
  BY FoldExists
<1>3. \A x, y : Step("follow", 0, x, y) = FollowPart(x, y)
  BY DEF Step
<1>4. IsFold(g)
  BY <1>2, <1>3 DEF Folds
<1>5. IsFold(h)
  BY <1>4
<1> HIDE DEF h
<1>6. Folds(h, "follow", 0, start, parts, n)
  BY <1>3, <1>5 DEF Folds
<1>7. PICK w : Steps(w, "follow", 0, start, parts, n) /\ w[n] = h[1..n]
  BY <1>6, FoldSteps
<1> QED BY <1>1, <1>3, <1>7 DEF Steps, FollowsOneByOne

ClosesOneByOne(w, open, refs, outcome, n) ==
  /\ w[0] = open
  /\ \A k \in 1..n : w[k] = Closed(w[k - 1], refs[k], outcome)
  /\ AllClosed(open, refs, outcome) = w[n]

LEMMA AllClosedSteps ==
  ASSUME NEW open, NEW refs, NEW outcome, NEW n \in Nat, DOMAIN refs = 1..n
  PROVE  \E w : ClosesOneByOne(w, open, refs, outcome, n)
<1> DEFINE IsFold(g) == g = [s \in SUBSET (1..n) |->
              IF s = {} THEN open ELSE Closed(g[s \ {Max(s)}], refs[Max(s)], outcome)]
           h == CHOOSE g : IsFold(g)
<1>1. AllClosed(open, refs, outcome) = h[1..n]
  BY DEF AllClosed, FoldLeft, MapThenFoldSet
<1>2. PICK g : Folds(g, "close", outcome, open, refs, n)
  BY FoldExists
<1>3. \A x, y : Step("close", outcome, x, y) = Closed(x, y, outcome)
  BY DEF Step
<1>4. IsFold(g)
  BY <1>2, <1>3 DEF Folds
<1>5. IsFold(h)
  BY <1>4
<1> HIDE DEF h
<1>6. Folds(h, "close", outcome, open, refs, n)
  BY <1>3, <1>5 DEF Folds
<1>7. PICK w : Steps(w, "close", outcome, open, refs, n) /\ w[n] = h[1..n]
  BY <1>6, FoldSteps
<1> QED BY <1>1, <1>3, <1>7 DEF Steps, ClosesOneByOne

-----------------------------------------------------------------------------
(* Where a path leads.                                                     *)

LEMMA PathsArePaths == Paths \subseteq Path
  BY DEF Paths, BoundedSeq, SeqOf, Path

LEMMA Appended ==
  ASSUME NEW p \in Path, NEW n \in Names
  PROVE  /\ Append(p, n) \in Path /\ Append(p, n) # Root
         /\ Len(Append(p, n)) = Len(p) + 1
         /\ ParentOf(Append(p, n)) = p /\ Last(Append(p, n)) = n
<1> DEFINE q == Append(p, n)
<1>1. /\ q \in Seq(Names) /\ q # <<>> /\ Len(q) = Len(p) + 1
      /\ \A i \in 1..Len(p) : q[i] = p[i]
      /\ q[Len(p) + 1] = n
  BY AppendProperties DEF Path
<1>2. Len(p) \in Nat
  BY PathIs
<1> HIDE DEF q
<1>3. ParentOf(q) = SubSeq(q, 1, Len(p))
  BY <1>1, <1>2 DEF ParentOf, Front
<1>4. SubSeq(q, 1, Len(p)) = p
  <2> DEFINE s == SubSeq(q, 1, Len(p))
  <2>1. \A i \in 1..Len(p) : q[i] \in Names /\ q[i] = p[i]
    BY <1>1, ElementOfSeq DEF Path
  <2>2. /\ s \in Seq(Names) /\ Len(s) = (IF 1 <= Len(p) THEN Len(p) - 1 + 1 ELSE 0)
        /\ \A i \in 1..Len(p) - 1 + 1 : s[i] = q[1 + i - 1]
    BY <1>2, <2>1, SubSeqProperties
  <2> HIDE DEF s
  <2>3. Len(s) = Len(p) /\ \A i \in 1..Len(p) : s[i] = p[i]
    BY <1>2, <2>1, <2>2
  <2>4. s = p
    BY <2>2, <2>3, SeqEqual DEF Path
  <2> QED BY <2>4 DEF s
<1> QED BY <1>1, <1>3, <1>4 DEF Last, Root, Path, q

LEMMA LooksUpNames ==
  ASSUME NEW folder, NEW name
  PROVE  Lookup(folder, name) \in Names \cup {None}
<1> DEFINE shown == Shown(folder)
           like == {n \in shown : SameName(NameAmong(shown, n), name)}
<1>1. Lookup(folder, name) = IF like = {} THEN None ELSE CHOOSE n \in like : TRUE
  BY DEF Lookup
<1>2. like \subseteq Names
  BY DEF Shown
<1> HIDE DEF like
<1>3. CASE like = {}
  BY <1>1, <1>3
<1>4. CASE like # {}
  <2>1. (CHOOSE n \in like : TRUE) \in like
    BY <1>4
  <2> QED BY <1>1, <1>2, <1>4, <2>1
<1> QED BY <1>3, <1>4

\* Where a part of a path starts and ends.
Spot == [ok : BOOLEAN, above : BOOLEAN, folder : Path]

LEMMA SpotsThere ==
  /\ Lost \in Spot /\ Above \in Spot
  /\ \A folder \in Path : In(folder) \in Spot
<1>1. Root \in Path
  BY DEF Root, Path
<1> QED BY <1>1 DEF Lost, Above, In, Spot

LEMMA ParentIsPath ==
  ASSUME NEW p \in Path, p # Root
  PROVE  /\ ParentOf(p) \in Path /\ Len(ParentOf(p)) = Len(p) - 1 /\ Len(p) \in Nat \ {0}
         /\ Last(p) \in Names /\ Append(ParentOf(p), Last(p)) = p
<1>1. PICK s \in Seq(Names), elt \in Names : p = Append(s, elt)
  BY SequenceEmptyOrAppend DEF Path, Root
<1>2. s \in Path /\ Len(s) \in Nat
  BY PathIs, <1>1 DEF Path
<1> QED BY <1>1, <1>2, Appended

LEMMA FollowPartIs ==
  ASSUME NEW at \in Spot, NEW part
  PROVE  FollowPart(at, part) \in Spot
<1> DEFINE name == Lookup(at.folder, part)
<1>1. at.folder \in Path /\ at.ok \in BOOLEAN /\ at.above \in BOOLEAN
  BY DEF Spot
<1>2. name \in Names \cup {None}
  BY LooksUpNames
<1>3. FollowPart(at, part) =
        IF ~at.ok \/ (part = Up /\ at.above) THEN Lost
        ELSE IF part = Up
        THEN IF at.folder = Root THEN Above ELSE In(ParentOf(at.folder))
        ELSE IF at.above
        THEN IF SameName(part, Plain(VolumeName)) THEN In(Root) ELSE Lost
        ELSE IF name # None /\ IsDir(Append(at.folder, name))
             THEN In(Append(at.folder, name)) ELSE Lost
  BY DEF FollowPart
<1> HIDE DEF name
<1>4. at.folder # Root => In(ParentOf(at.folder)) \in Spot
  BY <1>1, ParentIsPath, SpotsThere
<1>5. In(Root) \in Spot
  <2>1. Root \in Path
    BY DEF Root, Path
  <2> QED BY <2>1, SpotsThere
<1>6. name # None => In(Append(at.folder, name)) \in Spot
  BY <1>1, <1>2, Appended, SpotsThere
<1> QED BY <1>3, <1>4, <1>5, <1>6, SpotsThere

LEMMA FollowedIs ==
  ASSUME NEW start \in Spot, NEW parts, NEW n \in Nat, DOMAIN parts = 1..n
  PROVE  Followed(start, parts) \in Spot
<1>1. PICK w : FollowsOneByOne(w, start, parts, n)
  BY FollowedSteps
<1> DEFINE Good == {k \in 0..n : w[k] \in Spot}
<1>2. 0 \in Good
  BY <1>1 DEF FollowsOneByOne
<1>3. ASSUME NEW k \in 1..n, k - 1 \in Good PROVE k \in Good
  BY <1>1, <1>3, FollowPartIs DEF FollowsOneByOne
<1>4. Good \in SUBSET (0..n)
  OBVIOUS
<1> HIDE DEF Good
<1>5. n \in Good
  BY <1>2, <1>3, <1>4, HoldsAtLast
<1> QED BY <1>1, <1>5 DEF Good, FollowsOneByOne

\* A place a path leads to: a folder, or a name in one.
Placed(at) ==
  /\ at.ok \in BOOLEAN /\ at.folder \in Path
  /\ at.found \in Names \cup {None}
  /\ at.ok /\ at.name = None => ObjectThere(at.folder)
  /\ at.ok /\ at.name # None =>
       IsDir(at.folder) /\ at.found = Lookup(at.folder, at.name)

LEMMA PlacesThere ==
  /\ Placed(Nowhere)
  /\ \A at \in Spot : Placed(FolderPlace(at))
<1>1. Root \in Path
  BY DEF Root, Path
<1> QED BY <1>1 DEF Nowhere, Placed, FolderPlace, Spot

LEMMA LastPartIs ==
  ASSUME NEW before \in Spot, NEW part \in MacName \cup {Up}
  PROVE  Placed(LastPart(before, part))
<1>1. CASE part = Up \/ before.above \/ ~before.ok
  <2>1. LastPart(before, part) = FolderPlace(FollowPart(before, part))
    BY <1>1 DEF LastPart
  <2> QED BY <2>1, FollowPartIs, PlacesThere
<1>2. CASE ~(part = Up \/ before.above \/ ~before.ok)
  <2>1. CASE ~IsDir(before.folder)
    BY <1>2, <2>1, PlacesThere DEF LastPart
  <2>2. CASE IsDir(before.folder)
    <3> DEFINE at == [ok |-> TRUE, folder |-> before.folder, name |-> part,
                      found |-> Lookup(before.folder, part)]
    <3>1. LastPart(before, part) = at
      BY <1>2, <2>2 DEF LastPart
    <3>2. before.folder \in Path
      BY DEF Spot
    <3>3. at.found \in Names \cup {None}
      BY LooksUpNames
    <3>4. part # None
      BY FolderAssumption, VolumeAssumption
    <3>5. Placed(at)
      BY <2>2, <3>2, <3>3, <3>4 DEF Placed
    <3> QED BY <3>1, <3>5
  <2> QED BY <2>1, <2>2
<1> QED BY <1>1, <1>2

LEMMA FollowIs ==
  ASSUME NEW start \in Spot, NEW path \in Seq(MacName \cup {Up})
  PROVE  Placed(Follow(start, path))
<1>1. CASE path = <<>>
  BY <1>1, PlacesThere DEF Follow
<1>2. CASE path # <<>>
  <2> DEFINE parts == Front(path)
             n == Len(path) - 1
  <2>1. Len(path) \in Nat \ {0}
    BY <1>2, EmptySeq
  <2>2. Last(path) \in MacName \cup {Up}
    BY <2>1, ElementOfSeq DEF Last
  <2>3. DOMAIN parts = 1..n /\ n \in Nat
    <3>1. \A i \in 1..n : path[i] \in MacName \cup {Up}
      BY <2>1, ElementOfSeq
    <3>2. n \in Nat
      BY <2>1
    <3> HIDE DEF n
    <3>3. /\ SubSeq(path, 1, n) \in Seq(MacName \cup {Up})
          /\ Len(SubSeq(path, 1, n)) = IF 1 <= n THEN n - 1 + 1 ELSE 0
      BY <3>1, <3>2, SubSeqProperties
    <3>4. Front(path) = SubSeq(path, 1, n)
      BY DEF Front, n
    <3>5. Len(parts) = n
      BY <3>2, <3>3, <3>4
    <3>6. DOMAIN parts = 1..Len(parts)
      BY <3>3, <3>4, LenProperties
    <3> QED BY <3>2, <3>5, <3>6
  <2>4. Follow(start, path) = LastPart(Followed(start, parts), Last(path))
    BY <1>2 DEF Follow
  <2> HIDE DEF parts, n
  <2>5. Followed(start, parts) \in Spot
    BY <2>3, FollowedIs
  <2> QED BY <2>2, <2>4, <2>5, LastPartIs
<1> QED BY <1>1, <1>2

-----------------------------------------------------------------------------
(* Numbers.                                                                *)

\* The two maps of the catalog agree: a path with a number is the one that the
\* number leads to, and no number is handed out twice.
Linked(numbers) ==
  /\ numbers = [byID |-> numbers.byID, byPath |-> numbers.byPath, next |-> numbers.next]
  /\ DOMAIN numbers.byPath \subseteq Path
  /\ numbers.next \in Nat
  /\ \A i \in DOMAIN numbers.byID :
       i \in Nat /\ i < numbers.next /\ numbers.byID[i] \in Path
  /\ \A p \in DOMAIN numbers.byPath :
       numbers.byPath[p] \in DOMAIN numbers.byID /\ numbers.byID[numbers.byPath[p]] = p

\* The number the machine was told of a thing is the one its path has.
Known(history, numbers) ==
  /\ DOMAIN history \subseteq Path
  /\ \A p \in DOMAIN history :
       /\ "id" \in DOMAIN history[p]
       /\ history[p].id # 0 =>
            p \in DOMAIN numbers.byPath /\ numbers.byPath[p] = history[p].id

NumbersIInv == Linked(ids) /\ Known(truth, ids)

\* Numbers handed out on top of others.
Extends(numbers, more) ==
  \A p \in DOMAIN numbers.byPath :
    p \in DOMAIN more.byPath /\ more.byPath[p] = numbers.byPath[p]

LEMMA NumberKeeps ==
  ASSUME NEW numbers, Linked(numbers), NEW rel \in Path
  PROVE  LET more == Number(numbers, rel) IN
         Linked(more) /\ Extends(numbers, more) /\ rel \in DOMAIN more.byPath
<1>1. CASE rel \in DOMAIN numbers.byPath
  BY <1>1 DEF Number, Extends
<1>2. CASE rel \notin DOMAIN numbers.byPath
  <2> DEFINE byID == With(numbers.byID, numbers.next, rel)
             byPath == With(numbers.byPath, rel, numbers.next)
             more == [byID |-> byID, byPath |-> byPath, next |-> numbers.next + 1]
  <2>1. Number(numbers, rel) = more
    BY <1>2 DEF Number
  <2>2. /\ DOMAIN byID = {numbers.next} \cup DOMAIN numbers.byID
        /\ byID[numbers.next] = rel
        /\ \A i \in DOMAIN numbers.byID : i # numbers.next => byID[i] = numbers.byID[i]
    BY DEF With
  <2>3. /\ DOMAIN byPath = {rel} \cup DOMAIN numbers.byPath
        /\ byPath[rel] = numbers.next
        /\ \A p \in DOMAIN numbers.byPath : p # rel => byPath[p] = numbers.byPath[p]
    BY DEF With
  <2> HIDE DEF byID, byPath
  <2>4. /\ numbers.next \in Nat /\ DOMAIN numbers.byPath \subseteq Path
        /\ \A i \in DOMAIN numbers.byID :
             i \in Nat /\ i < numbers.next /\ numbers.byID[i] \in Path
        /\ \A p \in DOMAIN numbers.byPath :
             numbers.byPath[p] \in DOMAIN numbers.byID /\ numbers.byID[numbers.byPath[p]] = p
    BY DEF Linked
  <2>5. /\ more.byID = byID /\ more.byPath = byPath /\ more.next = numbers.next + 1
        /\ more = [byID |-> more.byID, byPath |-> more.byPath, next |-> more.next]
    OBVIOUS
  <2> HIDE DEF more
  <2>6. \A i \in DOMAIN byID : i \in Nat /\ i < numbers.next + 1 /\ byID[i] \in Path
    BY <2>2, <2>4
  <2>7. \A i \in DOMAIN numbers.byID : i # numbers.next /\ byID[i] = numbers.byID[i]
    BY <2>2, <2>4
  <2>8. \A p \in DOMAIN byPath : byPath[p] \in DOMAIN byID /\ byID[byPath[p]] = p
    <3>1. ASSUME NEW p \in DOMAIN numbers.byPath
          PROVE  byPath[p] \in DOMAIN byID /\ byID[byPath[p]] = p
      <4>1. byPath[p] = numbers.byPath[p]
        BY <1>2, <2>3
      <4>2. numbers.byPath[p] \in DOMAIN numbers.byID /\ numbers.byID[numbers.byPath[p]] = p
        BY <2>4
      <4> QED BY <2>2, <2>7, <4>1, <4>2
    <3> QED BY <2>2, <2>3, <3>1
  <2>9. DOMAIN byPath \subseteq Path /\ numbers.next + 1 \in Nat
    BY <2>3, <2>4
  <2>10. Linked(more)
    BY <2>5, <2>6, <2>8, <2>9 DEF Linked
  <2>11. Extends(numbers, more) /\ rel \in DOMAIN more.byPath
    BY <1>2, <2>3, <2>5 DEF Extends
  <2> QED BY <2>1, <2>10, <2>11
<1> QED BY <1>1, <1>2

LEMMA ExtendsOn ==
  ASSUME NEW a, NEW b, NEW d, Extends(a, b), Extends(b, d)
  PROVE  Extends(a, d)
  BY DEF Extends

LEMMA NumberAllKeeps ==
  ASSUME NEW numbers, Linked(numbers), NEW rels, NEW n \in Nat, DOMAIN rels = 1..n,
         \A i \in 1..n : rels[i] \in Path
  PROVE  LET more == NumberAll(numbers, rels) IN
         /\ Linked(more) /\ Extends(numbers, more)
         /\ \A i \in 1..n : rels[i] \in DOMAIN more.byPath
<1>1. PICK w : NumbersOneByOne(w, numbers, rels, n)
  BY NumberAllSteps
<1> DEFINE Good == {k \in 0..n : /\ Linked(w[k]) /\ Extends(numbers, w[k])
                                 /\ \A i \in 1..k : rels[i] \in DOMAIN w[k].byPath}
<1>2. 0 \in Good
  <2>1. w[0] = numbers
    BY <1>1 DEF NumbersOneByOne
  <2>2. Extends(numbers, numbers)
    BY DEF Extends
  <2> QED BY <2>1, <2>2
<1>3. ASSUME NEW k \in 1..n, k - 1 \in Good PROVE k \in Good
  <2> DEFINE a == w[k - 1]
             b == w[k]
  <2>1. /\ Linked(a) /\ Extends(numbers, a)
        /\ \A i \in 1..k - 1 : rels[i] \in DOMAIN a.byPath
    BY <1>3
  <2>2. b = Number(a, rels[k])
    BY <1>1 DEF NumbersOneByOne
  <2> HIDE DEF a, b
  <2>3. Linked(b) /\ Extends(a, b) /\ rels[k] \in DOMAIN b.byPath
    BY <2>1, <2>2, NumberKeeps
  <2>4. Extends(numbers, b)
    BY <2>1, <2>3, ExtendsOn
  <2>5. \A i \in 1..k : rels[i] \in DOMAIN b.byPath
    <3>1. \A i \in 1..k : i = k \/ i \in 1..k - 1
      OBVIOUS
    <3> QED BY <2>1, <2>3, <3>1 DEF Extends
  <2> QED BY <2>3, <2>4, <2>5 DEF b
<1>4. Good \in SUBSET (0..n)
  OBVIOUS
<1> HIDE DEF Good
<1>5. n \in Good
  BY <1>2, <1>3, <1>4, HoldsAtLast
<1>6. NumberAll(numbers, rels) = w[n]
  BY <1>1 DEF NumbersOneByOne
<1> QED BY <1>5, <1>6 DEF Good

\* Where a call leads is a path, and what it leads to is numbered.
LEMMA ResolveIs ==
  ASSUME Linked(ids), NEW asked \in Asked
  PROVE  Placed(Resolve(asked))
<1> DEFINE start == IF asked[1] = parentOfRootID THEN Above
                    ELSE IF asked[1] \in DOMAIN ids.byID THEN In(ids.byID[asked[1]]) ELSE Lost
<1>1. asked[2] \in Seq(MacName \cup {Up})
  BY VolumeAssumption
<1>2. asked[1] \in DOMAIN ids.byID => In(ids.byID[asked[1]]) \in Spot
  BY SpotsThere DEF Linked
<1>3. start \in Spot
  BY <1>2, SpotsThere
<1>4. Resolve(asked) = Follow(start, asked[2])
  BY DEF Resolve
<1> HIDE DEF start
<1> QED BY <1>1, <1>3, <1>4, FollowIs

LEMMA RelIs ==
  ASSUME NEW at, Placed(at), Exists(at)
  PROVE  Rel(at) \in Path
<1>1. CASE at.name = None
  BY <1>1 DEF Rel, Placed
<1>2. CASE at.name # None
  <2>1. at.folder \in Path /\ at.found \in Names
    BY <1>2 DEF Placed, Exists
  <2> QED BY <1>2, <2>1, Appended DEF Rel
<1> QED BY <1>1, <1>2

LEMMA ResolvedKeeps ==
  ASSUME NEW numbers, Linked(numbers), NEW at, Placed(at)
  PROVE  LET more == Resolved(numbers, at) IN
         /\ Linked(more) /\ Extends(numbers, more)
         /\ Named(at) \subseteq DOMAIN more.byPath
<1>1. CASE Exists(at)
  BY <1>1, RelIs, NumberKeeps DEF Resolved, Named
<1>2. CASE ~Exists(at)
  BY <1>2 DEF Resolved, Named, Extends
<1> QED BY <1>1, <1>2

\* Two histories with the same numbers.
SameIds(old, new) ==
  /\ DOMAIN new = DOMAIN old
  /\ \A p \in DOMAIN new :
       "id" \in DOMAIN old[p] => "id" \in DOMAIN new[p] /\ new[p].id = old[p].id

LEMMA KnownSame ==
  ASSUME NEW old, NEW new, NEW numbers, Known(old, numbers), SameIds(old, new)
  PROVE  Known(new, numbers)
  BY DEF Known, SameIds

LEMMA StampedKeeps ==
  ASSUME NEW history, NEW numbers, NEW more, NEW named, Known(history, numbers),
         Extends(numbers, more), named \subseteq DOMAIN more.byPath
  PROVE  Known(Stamped(history, more, named), more)
<1> DEFINE h == Stamped(history, more, named)
<1>1. /\ DOMAIN h = DOMAIN history
      /\ \A p \in DOMAIN history :
           h[p] = IF p \in named /\ history[p].id = 0
                  THEN [history[p] EXCEPT !.id = more.byPath[p]] ELSE history[p]
  BY DEF Stamped
<1> HIDE DEF h
<1>2. ASSUME NEW p \in DOMAIN history
      PROVE  /\ "id" \in DOMAIN h[p]
             /\ h[p].id # 0 => p \in DOMAIN more.byPath /\ more.byPath[p] = h[p].id
  <2>1. /\ "id" \in DOMAIN history[p]
        /\ history[p].id # 0 =>
             p \in DOMAIN numbers.byPath /\ numbers.byPath[p] = history[p].id
    BY DEF Known
  <2>2. CASE p \in named /\ history[p].id = 0
    <3>1. h[p] = [history[p] EXCEPT !.id = more.byPath[p]]
      BY <1>1, <2>2
    <3> QED BY <2>1, <2>2, <3>1
  <2>3. CASE ~(p \in named /\ history[p].id = 0)
    <3>1. h[p] = history[p]
      BY <1>1, <2>3
    <3> QED BY <2>1, <3>1 DEF Extends
  <2> QED BY <2>2, <2>3
<1>3. DOMAIN h \subseteq Path
  BY <1>1 DEF Known
<1> QED BY <1>1, <1>2, <1>3 DEF Known, h

LEMMA WithKnown ==
  ASSUME NEW history, NEW numbers, Known(history, numbers), NEW rel \in Path,
         NEW meta, NEW own
  PROVE  Known(With(history, rel, Untold(meta, own)), numbers)
<1> DEFINE h == With(history, rel, Untold(meta, own))
<1>1. /\ DOMAIN h = {rel} \cup DOMAIN history
      /\ h[rel] = Untold(meta, own)
      /\ \A p \in DOMAIN history : p # rel => h[p] = history[p]
  BY DEF With
<1>2. "id" \in DOMAIN Untold(meta, own) /\ Untold(meta, own).id = 0
  BY DEF Untold
<1> HIDE DEF h
<1> QED BY <1>1, <1>2 DEF Known, h

LEMMA WithoutKnown ==
  ASSUME NEW history, NEW numbers, Known(history, numbers), NEW rel
  PROVE  Known(Without(history, rel), numbers)
<1>1. \A p \in DOMAIN Without(history, rel) :
        p \in DOMAIN history /\ Without(history, rel)[p] = history[p]
  BY WithoutIs
<1> QED BY <1>1 DEF Known

LEMMA MoreKnown ==
  ASSUME NEW history, NEW numbers, NEW more, Known(history, numbers), Extends(numbers, more)
  PROVE  Known(history, more)
  BY DEF Known, Extends

\* Paths that moved take their numbers along.
LEMMA MovedNumbersKeep ==
  ASSUME NEW numbers, Linked(numbers), NEW from \in Path, NEW to \in Path
  PROVE  Linked(MovedNumbers(numbers, from, to))
<1> DEFINE f == numbers.byPath
           d == numbers.byID
           g == Relocated(f, from, to)
           moved == {p \in DOMAIN f : IsPrefix(from, p)}
           at(i) == CHOOSE p \in moved : f[p] = i
           e == [i \in DOMAIN d |-> IF \E p \in moved : f[p] = i
                                    THEN Gone(at(i), from, to) ELSE d[i]]
           more == [numbers EXCEPT !.byPath = g, !.byID = e]
<1>1. /\ numbers = [byID |-> d, byPath |-> f, next |-> numbers.next]
      /\ DOMAIN f \subseteq Path /\ numbers.next \in Nat
      /\ \A i \in DOMAIN d : i \in Nat /\ i < numbers.next /\ d[i] \in Path
      /\ \A p \in DOMAIN f : f[p] \in DOMAIN d /\ d[f[p]] = p
  BY DEF Linked
<1>2. MovedNumbers(numbers, from, to) = more
  BY DEF MovedNumbers
<1>3. /\ more.byPath = g /\ more.byID = e /\ more.next = numbers.next
      /\ more = [byID |-> more.byID, byPath |-> more.byPath, next |-> more.next]
  <2> HIDE DEF f, d, g, e
  <2>1. more = [byID |-> e, byPath |-> g, next |-> numbers.next]
    <3>1. [numbers EXCEPT !.byPath = g] = [byID |-> d, byPath |-> g, next |-> numbers.next]
      BY <1>1
    <3>2. [[byID |-> d, byPath |-> g, next |-> numbers.next] EXCEPT !.byID = e]
            = [byID |-> e, byPath |-> g, next |-> numbers.next]
      OBVIOUS
    <3>3. more = [[numbers EXCEPT !.byPath = g] EXCEPT !.byID = e]
      OBVIOUS
    <3> QED BY <3>1, <3>2, <3>3
  <2> QED BY <2>1
<1>4. NoOther(f, g, from, to)
  BY <1>1, RelocatedIs
<1>5. /\ DOMAIN e = DOMAIN d
      /\ \A i \in DOMAIN d : e[i] = IF \E p \in moved : f[p] = i
                                    THEN Gone(at(i), from, to) ELSE d[i]
  OBVIOUS
<1> HIDE DEF f, d, g, e, more
<1>6. ASSUME NEW p \in moved PROVE e[f[p]] = Gone(p, from, to)
  <2>1. f[p] \in DOMAIN d /\ d[f[p]] = p
    BY <1>1
  <2>2. at(f[p]) \in moved /\ f[at(f[p])] = f[p]
    OBVIOUS
  <2>3. at(f[p]) = p
    <3>1. d[f[at(f[p])]] = at(f[p])
      BY <1>1, <2>2
    <3> QED BY <2>1, <2>2, <3>1
  <2>4. \E q \in moved : f[q] = f[p]
    OBVIOUS
  <2> HIDE DEF moved, at
  <2> QED BY <1>5, <2>1, <2>3, <2>4
<1>7. ASSUME NEW p \in DOMAIN f, ~IsPrefix(from, p) PROVE e[f[p]] = p
  <2>1. f[p] \in DOMAIN d /\ d[f[p]] = p
    BY <1>1
  <2>2. ~\E q \in moved : f[q] = f[p]
    <3>1. \A q \in moved : d[f[q]] = q /\ IsPrefix(from, q)
      BY <1>1
    <3> QED BY <1>7, <2>1, <3>1
  <2> HIDE DEF moved, at
  <2> QED BY <1>5, <2>1, <2>2
<1>8. \A i \in DOMAIN e : i \in Nat /\ i < numbers.next /\ e[i] \in Path
  <2>1. ASSUME NEW i \in DOMAIN d PROVE e[i] \in Path
    <3>1. CASE \E p \in moved : f[p] = i
      <4>1. PICK p \in moved : f[p] = i
        BY <3>1
      <4>2. p \in Path /\ IsPrefix(from, p)
        BY <1>1
      <4>3. Gone(p, from, to) \in Path
        BY <4>2, GoneIs
      <4> QED BY <1>6, <4>1, <4>3
    <3>2. CASE ~\E p \in moved : f[p] = i
      BY <1>1, <1>5, <3>2
    <3> QED BY <3>1, <3>2
  <2> QED BY <1>1, <1>5, <2>1
<1>9. ASSUME NEW p \in DOMAIN g
      PROVE  p \in Path /\ g[p] \in DOMAIN e /\ e[g[p]] = p
  <2>1. CASE \E q \in DOMAIN f : IsPrefix(from, q) /\ p = Gone(q, from, to) /\ g[p] = f[q]
    <3>1. PICK q \in DOMAIN f : IsPrefix(from, q) /\ p = Gone(q, from, to) /\ g[p] = f[q]
      BY <2>1
    <3>2. q \in moved /\ q \in Path
      BY <1>1, <3>1
    <3>3. p \in Path
      BY <3>1, <3>2, GoneIs
    <3>4. f[q] \in DOMAIN e
      BY <1>1, <1>5
    <3> QED BY <1>6, <3>1, <3>2, <3>3, <3>4
  <2>2. CASE p \in DOMAIN f /\ ~IsPrefix(from, p) /\ g[p] = f[p]
    <3>1. f[p] \in DOMAIN e /\ p \in Path
      BY <1>1, <1>5, <2>2
    <3> QED BY <1>7, <2>2, <3>1
  <2> QED BY <1>4, <2>1, <2>2 DEF NoOther
<1>10. Linked(more)
  BY <1>1, <1>3, <1>8, <1>9 DEF Linked
<1> QED BY <1>2, <1>10

\* And so does what is at them.
LEMMA MovedTruthKnown ==
  ASSUME NEW numbers, Linked(numbers), NEW history, Known(history, numbers),
         NEW from \in Path, NEW to \in Path
  PROVE  Known(MovedTruth(Without(history, to), from, to), MovedNumbers(numbers, from, to))
<1> DEFINE f == numbers.byPath
           g == Relocated(f, from, to)
           h == Without(history, to)
           k == Relocated(h, from, to)
           told == MovedTruth(h, from, to)
           more == MovedNumbers(numbers, from, to)
<1>1. /\ DOMAIN f \subseteq Path
      /\ numbers = [byID |-> numbers.byID, byPath |-> f, next |-> numbers.next]
  BY DEF Linked
<1>2. more.byPath = g
  <2> HIDE DEF f, g
  <2>1. MovedNumbers(numbers, from, to).byPath = Relocated(f, from, to)
    BY <1>1 DEF MovedNumbers, f
  <2> QED BY <2>1 DEF g
<1>3. MovedThere(f, g, from, to) /\ StaysThere(f, g, from, to)
  BY <1>1, RelocatedIs
<1>4. /\ DOMAIN h = {p \in DOMAIN history : ~IsPrefix(to, p)}
      /\ \A p \in DOMAIN h : h[p] = history[p]
  BY DEF Without
<1>5. /\ DOMAIN history \subseteq Path
      /\ \A p \in DOMAIN history :
           /\ "id" \in DOMAIN history[p]
           /\ history[p].id # 0 => p \in DOMAIN f /\ f[p] = history[p].id
  BY DEF Known
<1>6. NoOther(h, k, from, to)
  <2> HIDE DEF h
  <2>1. DOMAIN h \subseteq Path
    BY <1>4, <1>5
  <2> QED BY <2>1, RelocatedIs
<1>7. SameIds(k, told)
  <2> HIDE DEF h
  <2>1. /\ DOMAIN told = DOMAIN k
        /\ \A p \in DOMAIN k :
             told[p] = IF IsPrefix(to, p)
                       THEN [k[p] EXCEPT !.own = @ /\ p \notin strange] ELSE k[p]
    BY DEF MovedTruth
  <2> HIDE DEF told, k
  <2> QED BY <2>1 DEF SameIds
<1> HIDE DEF f, g, h, k, told, more
<1>8. ASSUME NEW p \in DOMAIN k
      PROVE  /\ p \in Path /\ "id" \in DOMAIN k[p]
             /\ k[p].id # 0 => p \in DOMAIN g /\ g[p] = k[p].id
  <2>1. CASE \E q \in DOMAIN h : IsPrefix(from, q) /\ p = Gone(q, from, to) /\ k[p] = h[q]
    <3>1. PICK q \in DOMAIN h : IsPrefix(from, q) /\ p = Gone(q, from, to) /\ k[p] = h[q]
      BY <2>1
    <3>2. q \in DOMAIN history /\ h[q] = history[q] /\ q \in Path
      BY <1>4, <1>5
    <3>3. p \in Path
      BY <3>1, <3>2, GoneIs
    <3>4. k[p].id # 0 => q \in DOMAIN f /\ f[q] = k[p].id
      BY <1>5, <3>1, <3>2
    <3> QED BY <1>3, <1>5, <3>1, <3>2, <3>3, <3>4 DEF MovedThere
  <2>2. CASE p \in DOMAIN h /\ ~IsPrefix(from, p) /\ k[p] = h[p]
    <3>1. p \in DOMAIN history /\ h[p] = history[p] /\ ~IsPrefix(to, p)
      BY <1>4, <2>2
    <3> QED BY <1>3, <1>5, <2>2, <3>1 DEF StaysThere
  <2> QED BY <1>6, <2>1, <2>2 DEF NoOther
<1>9. Known(k, more)
  BY <1>2, <1>8 DEF Known
<1>10. Known(told, more)
  BY <1>7, <1>9, KnownSame
<1> QED BY <1>10 DEF told, h, more

\* A number goes with what is deleted.
LEMMA RemovedNumbersKeep ==
  ASSUME NEW numbers, Linked(numbers), NEW history, Known(history, numbers), NEW rel
  PROVE  /\ Linked(RemovedNumbers(numbers, rel))
         /\ Known(Without(history, rel), RemovedNumbers(numbers, rel))
<1> DEFINE f == numbers.byPath
           d == numbers.byID
           g == Without(f, rel)
           removed == {p \in DOMAIN f : IsPrefix(rel, p)}
           e == [i \in DOMAIN d \ {f[p] : p \in removed} |-> d[i]]
           h == Without(history, rel)
           less == [numbers EXCEPT !.byPath = g, !.byID = e]
<1>1. /\ numbers = [byID |-> d, byPath |-> f, next |-> numbers.next]
      /\ DOMAIN f \subseteq Path /\ numbers.next \in Nat
      /\ \A i \in DOMAIN d : i \in Nat /\ i < numbers.next /\ d[i] \in Path
      /\ \A p \in DOMAIN f : f[p] \in DOMAIN d /\ d[f[p]] = p
  BY DEF Linked
<1>2. RemovedNumbers(numbers, rel) = less
  BY DEF RemovedNumbers
<1>3. /\ less.byPath = g /\ less.byID = e /\ less.next = numbers.next
      /\ less = [byID |-> less.byID, byPath |-> less.byPath, next |-> less.next]
  <2> HIDE DEF f, d, g, e
  <2>1. less = [byID |-> e, byPath |-> g, next |-> numbers.next]
    <3>1. [numbers EXCEPT !.byPath = g] = [byID |-> d, byPath |-> g, next |-> numbers.next]
      BY <1>1
    <3>2. [[byID |-> d, byPath |-> g, next |-> numbers.next] EXCEPT !.byID = e]
            = [byID |-> e, byPath |-> g, next |-> numbers.next]
      OBVIOUS
    <3>3. less = [[numbers EXCEPT !.byPath = g] EXCEPT !.byID = e]
      OBVIOUS
    <3> QED BY <3>1, <3>2, <3>3
  <2> QED BY <2>1
<1>4. /\ DOMAIN g = {p \in DOMAIN f : ~IsPrefix(rel, p)}
      /\ \A p \in DOMAIN g : g[p] = f[p]
  BY DEF Without
<1>5. /\ DOMAIN h = {p \in DOMAIN history : ~IsPrefix(rel, p)}
      /\ \A p \in DOMAIN h : h[p] = history[p]
  BY DEF Without
<1>6. /\ DOMAIN e = DOMAIN d \ {f[p] : p \in removed}
      /\ \A i \in DOMAIN e : e[i] = d[i]
  OBVIOUS
<1>7. /\ DOMAIN history \subseteq Path
      /\ \A p \in DOMAIN history :
           /\ "id" \in DOMAIN history[p]
           /\ history[p].id # 0 => p \in DOMAIN f /\ f[p] = history[p].id
  BY DEF Known
<1> HIDE DEF f, d, g, e, h, less
<1>8. ASSUME NEW p \in DOMAIN g
      PROVE  g[p] \in DOMAIN e /\ e[g[p]] = p
  <2>1. p \in DOMAIN f /\ g[p] = f[p] /\ ~IsPrefix(rel, p) /\ f[p] \in DOMAIN d /\ d[f[p]] = p
    BY <1>1, <1>4
  <2>2. \A q \in removed : f[q] # f[p]
    <3>1. \A q \in removed : d[f[q]] = q /\ IsPrefix(rel, q)
      BY <1>1
    <3> QED BY <2>1, <3>1
  <2>3. f[p] \in DOMAIN e
    BY <1>6, <2>1, <2>2
  <2> QED BY <1>6, <2>1, <2>3
<1>9. Linked(less)
  <2>1. \A i \in DOMAIN e : i \in Nat /\ i < numbers.next /\ e[i] \in Path
    BY <1>1, <1>6
  <2>2. DOMAIN g \subseteq Path
    BY <1>1, <1>4
  <2> QED BY <1>1, <1>3, <1>8, <2>1, <2>2 DEF Linked
<1>10. Known(h, less)
  <2>1. ASSUME NEW p \in DOMAIN h
        PROVE  /\ p \in Path /\ "id" \in DOMAIN h[p]
               /\ h[p].id # 0 => p \in DOMAIN g /\ g[p] = h[p].id
    <3>1. p \in DOMAIN history /\ h[p] = history[p] /\ ~IsPrefix(rel, p)
      BY <1>5
    <3> QED BY <1>4, <1>7, <3>1
  <2> QED BY <1>3, <2>1 DEF Known
<1> QED BY <1>2, <1>9, <1>10 DEF h

-----------------------------------------------------------------------------
(* A folder listed.                                                        *)

InOrder(list, names) ==
  /\ list \in [1..Cardinality(names) -> names]
  /\ \A i, j \in DOMAIN list : i < j => Rank[list[i]] < Rank[list[j]]

\* Whatever is in it can be put in order.
LEMMA OrderThere ==
  ASSUME NEW names \in SUBSET Names
  PROVE  \E list : InOrder(list, names)
<1> DEFINE Of(k) == {S \in SUBSET Names : Cardinality(S) = k}
           Bad == {k \in Nat : \E S \in Of(k) : ~\E list : InOrder(list, S)}
<1>1. ASSUME NEW S \in SUBSET Names PROVE IsFiniteSet(S) /\ Cardinality(S) \in Nat
  BY FolderAssumption, FS_Subset, FS_CardinalityType
<1>2. SUFFICES ASSUME Bad # {} PROVE FALSE
  <2>1. Cardinality(names) \in Nat /\ names \in Of(Cardinality(names))
    BY <1>1
  <2>2. CASE Bad = {}
    BY <2>1, <2>2
  <2> QED BY <1>2, <2>2
<1>3. PICK k \in Bad : \A j \in Bad : k <= j
  <2> HIDE DEF Bad
  <2>1. Bad \subseteq Nat
    BY DEF Bad
  <2> QED BY <1>2, <2>1, LeastOf
<1>4. PICK S \in Of(k) : ~\E list : InOrder(list, S)
  BY <1>3
<1>5. IsFiniteSet(S) /\ Cardinality(S) = k /\ S \in SUBSET Names /\ k \in Nat
  BY <1>1, <1>3, <1>4
<1>6. S # {}
  <2>1. SUFFICES ASSUME S = {} PROVE FALSE
    BY <2>1
  <2>2. Cardinality(S) = 0
    BY <2>1, FS_EmptySet
  <2> DEFINE none == [i \in 1..0 |-> 0]
  <2>3. none \in [1..0 -> {}] /\ DOMAIN none = {}
    OBVIOUS
  <2> HIDE DEF none
  <2>4. InOrder(none, S)
    BY <2>1, <2>2, <2>3 DEF InOrder
  <2> QED BY <1>4, <2>4
<1>7. PICK m \in S : \A n \in S : Rank[m] <= Rank[n]
  <2> DEFINE R == {Rank[n] : n \in S}
  <2>1. R \subseteq Nat /\ R # {}
    BY <1>5, <1>6, FolderAssumption
  <2> HIDE DEF R
  <2>2. PICK r \in R : \A s \in R : r <= s
    BY <2>1, LeastOf
  <2> QED BY <2>2 DEF R
<1> DEFINE T == S \ {m}
<1>8. T \in SUBSET Names /\ k >= 1 /\ k - 1 \in Nat /\ Cardinality(T) = k - 1
  <2>1. Cardinality(T) = Cardinality(S) - 1
    BY <1>5, FS_RemoveElement
  <2>2. Cardinality(T) \in Nat
    BY <1>1, <1>5
  <2> QED BY <1>5, <2>1, <2>2
<1>9. PICK f : InOrder(f, T)
  <2>1. k - 1 \notin Bad /\ T \in Of(k - 1)
    BY <1>3, <1>8
  <2> QED BY <1>8, <2>1
<1> DEFINE g == [i \in 1..k |-> IF i = 1 THEN m ELSE f[i - 1]]
<1>10. /\ f \in [1..k - 1 -> T]
       /\ \A i, j \in 1..k - 1 : i < j => Rank[f[i]] < Rank[f[j]]
  BY <1>8, <1>9 DEF InOrder
<1>11. \A n \in Names : Rank[n] \in Nat
  BY FolderAssumption
<1>12. \A n \in T : Rank[m] < Rank[n]
  <2>1. \A n \in T : n \in Names /\ Rank[m] <= Rank[n] /\ n # m
    BY <1>5, <1>7
  <2>2. m \in Names
    BY <1>5
  <2> QED BY <1>11, <2>1, <2>2, FolderAssumption
<1> HIDE DEF T
<1>13. \A i \in 2..k : i - 1 \in 1..k - 1 /\ f[i - 1] \in T /\ g[i] = f[i - 1]
  BY <1>5, <1>10
<1>14. g \in [1..k -> S]
  <2>1. T \subseteq S
    BY DEF T
  <2>2. \A i \in 1..k : g[i] \in S
    <3>1. \A i \in 1..k : i = 1 \/ i \in 2..k
      BY <1>5
    <3>2. 1 \in 1..k => g[1] = m
      OBVIOUS
    <3> HIDE DEF g
    <3> QED BY <1>13, <2>1, <3>1, <3>2
  <2>3. g = [i \in 1..k |-> g[i]]
    OBVIOUS
  <2> HIDE DEF g
  <2> QED BY <2>2, <2>3
<1>15. ASSUME NEW i \in 1..k, NEW j \in 1..k, i < j PROVE Rank[g[i]] < Rank[g[j]]
  <2>1. j \in 2..k /\ (i = 1 \/ i \in 2..k) /\ (i = 1 => g[i] = m)
    BY <1>5, <1>15
  <2> HIDE DEF g
  <2>2. CASE i = 1
    BY <1>12, <1>13, <2>1, <2>2
  <2>3. CASE i \in 2..k
    <3>1. i - 1 < j - 1
      BY <1>15, <2>1, <2>3
    <3> QED BY <1>10, <1>13, <2>1, <2>3, <3>1
  <2> QED BY <2>1, <2>2, <2>3
<1>16. InOrder(g, S)
  <2>1. DOMAIN g = 1..k
    OBVIOUS
  <2> HIDE DEF g
  <2> QED BY <1>5, <1>14, <1>15, <2>1 DEF InOrder
<1> QED BY <1>4, <1>16

LEMMA ListedIs ==
  ASSUME NEW names \in SUBSET Names
  PROVE  Listed(names) \in Seq(Names)
<1>1. Listed(names) = CHOOSE list \in [1..Cardinality(names) -> names] :
        \A i, j \in DOMAIN list : i < j => Rank[list[i]] < Rank[list[j]]
  BY DEF Listed
<1>2. \E list \in [1..Cardinality(names) -> names] :
        \A i, j \in DOMAIN list : i < j => Rank[list[i]] < Rank[list[j]]
  BY OrderThere DEF InOrder
<1>3. Listed(names) \in [1..Cardinality(names) -> names]
  BY <1>1, <1>2
<1>4. Cardinality(names) \in Nat
  BY FolderAssumption, FS_Subset, FS_CardinalityType
<1> QED BY <1>3, <1>4

LEMMA PartIs ==
  ASSUME NEW list \in Seq(Names), NEW start \in Nat \ {0}, NEW count \in Nat
  PROVE  /\ Part(list, start, count) \in Seq(Names)
         /\ DOMAIN Part(list, start, count) = 1..Len(Part(list, start, count))
         /\ Len(Part(list, start, count)) \in Nat
<1> DEFINE n == IF start + count - 1 < Len(list) THEN start + count - 1 ELSE Len(list)
<1>1. Len(list) \in Nat
  BY EmptySeq, LenProperties
<1>2. n \in Int /\ start \in Int /\ \A i \in start..n : i \in 1..Len(list)
  BY <1>1
<1>3. Part(list, start, count) = SubSeq(list, start, n)
  BY DEF Part
<1> HIDE DEF n
<1>4. \A i \in start..n : list[i] \in Names
  BY <1>2, ElementOfSeq
<1>5. SubSeq(list, start, n) \in Seq(Names)
  BY <1>2, <1>4, SubSeqProperties
<1> QED BY <1>3, <1>5, LenProperties

-----------------------------------------------------------------------------
(* What every call does with the numbers.                                  *)

\* What a call numbered, and whom it told of it.
LEMMA NumberedKeeps ==
  ASSUME NumbersIInv, NEW numbers, Linked(numbers), Extends(ids, numbers),
         NEW named, named \subseteq DOMAIN numbers.byPath,
         ids' = numbers, SameIds(Stamped(truth, numbers, named), truth')
  PROVE  NumbersIInv'
<1>1. Known(Stamped(truth, numbers, named), numbers)
  BY StampedKeeps DEF NumbersIInv
<1>2. Known(truth', numbers)
  BY <1>1, KnownSame
<1> QED BY <1>2 DEF NumbersIInv

\* A call that numbered only what its path leads to.
LEMMA LookedUpKeeps ==
  ASSUME NumbersIInv, NEW at, Placed(at), Numbering(Resolved(ids, at)),
         SameIds(Stamped(truth, Resolved(ids, at), Named(at)), truth')
  PROVE  NumbersIInv'
<1>1. /\ Linked(Resolved(ids, at)) /\ Extends(ids, Resolved(ids, at))
      /\ Named(at) \subseteq DOMAIN Resolved(ids, at).byPath
  BY ResolvedKeeps DEF NumbersIInv
<1> QED BY <1>1, NumberedKeeps DEF Numbering

LEMMA SameIsSame ==
  ASSUME NEW history
  PROVE  SameIds(history, history)
  BY DEF SameIds

LEMMA OnlyNumbersKeeps ==
  ASSUME NumbersIInv, NEW numbers, Linked(numbers), Extends(ids, numbers),
         NEW named, named \subseteq DOMAIN numbers.byPath, OnlyNumbers(numbers, named)
  PROVE  NumbersIInv'
<1>1. ids' = numbers /\ truth' = Stamped(truth, numbers, named)
  BY DEF OnlyNumbers, Numbering
<1>2. SameIds(Stamped(truth, numbers, named), truth')
  BY <1>1, SameIsSame
<1> QED BY <1>1, <1>2, NumberedKeeps

LEMMA RefusedKeeps ==
  ASSUME NumbersIInv, NEW at, Placed(at), Refused(at)
  PROVE  NumbersIInv'
<1>1. /\ Linked(Resolved(ids, at)) /\ Extends(ids, Resolved(ids, at))
      /\ Named(at) \subseteq DOMAIN Resolved(ids, at).byPath
  BY ResolvedKeeps DEF NumbersIInv
<1> QED BY <1>1, OnlyNumbersKeeps DEF Refused

LEMMA NoNumbersKeeps ==
  ASSUME NumbersIInv, ids' = ids, SameIds(truth, truth')
  PROVE  NumbersIInv'
<1>1. Known(truth', ids)
  BY KnownSame DEF NumbersIInv
<1> QED BY <1>1 DEF NumbersIInv

LEMMA GetFileDirParmsNumbers ==
  ASSUME NumbersIInv, NEW asked \in Asked, NEW asks \in BOOLEAN, GetFileDirParms(asked, asks)
  PROVE  NumbersIInv'
<1> DEFINE at == Resolve(asked)
<1>1. Placed(at) /\ Linked(ids)
  BY ResolveIs DEF NumbersIInv
<1>2. IF Exists(at)
      THEN OnlyNumbers(WithParent(Resolved(ids, at), Rel(at), asks),
                       {Rel(at)} \cup Parents(Rel(at), asks))
      ELSE Refused(at)
  BY DEF GetFileDirParms
<1> HIDE DEF at
<1>3. CASE ~Exists(at)
  BY <1>1, <1>2, <1>3, RefusedKeeps
<1>4. CASE Exists(at)
  <2> DEFINE rel == Rel(at)
             numbers == Resolved(ids, at)
             more == WithParent(numbers, rel, asks)
             named == {rel} \cup Parents(rel, asks)
  <2>1. Linked(numbers) /\ Extends(ids, numbers) /\ rel \in DOMAIN numbers.byPath /\ rel \in Path
    BY <1>1, <1>4, ResolvedKeeps, RelIs DEF Named
  <2>2. OnlyNumbers(more, named)
    BY <1>2, <1>4
  <2> HIDE DEF numbers, rel
  <2>3. CASE asks /\ rel # Root
    <3> DEFINE parent == ParentOf(rel)
    <3>1. parent \in Path
      BY <2>1, <2>3, ParentIsPath
    <3>2. more = Number(numbers, parent) /\ named = {rel, parent}
      BY <2>3 DEF WithParent, Parents
    <3> HIDE DEF more, named, parent
    <3>3. Linked(more) /\ Extends(numbers, more) /\ parent \in DOMAIN more.byPath
      BY <2>1, <3>1, <3>2, NumberKeeps
    <3>4. Extends(ids, more)
      BY <2>1, <3>3, ExtendsOn
    <3>5. named \subseteq DOMAIN more.byPath
      BY <2>1, <3>2, <3>3 DEF Extends
    <3> QED BY <2>2, <3>3, <3>4, <3>5, OnlyNumbersKeeps
  <2>4. CASE ~(asks /\ rel # Root)
    <3>1. more = numbers /\ named = {rel}
      BY <2>4 DEF WithParent, Parents
    <3> HIDE DEF more, named
    <3> QED BY <2>1, <2>2, <3>1, OnlyNumbersKeeps
  <2> QED BY <2>3, <2>4
<1> QED BY <1>3, <1>4

LEMMA OpenDirNumbers ==
  ASSUME NumbersIInv, NEW asked \in Asked, OpenDir(asked)
  PROVE  NumbersIInv'
<1>1. Placed(Resolve(asked))
  BY ResolveIs DEF NumbersIInv
<1> QED BY <1>1, RefusedKeeps DEF OpenDir

LEMMA EnumerateNumbers ==
  ASSUME NumbersIInv, NEW asked \in Asked, NEW kinds, NEW start \in Nat \ {0}, NEW count \in Nat,
         Enumerate(asked, kinds, start, count)
  PROVE  NumbersIInv'
<1> DEFINE at == Resolve(asked)
           rel == Rel(at)
           shown == {n \in Shown(rel) : host[Append(rel, n)].dir \in kinds}
           listed == IF Exists(at) /\ IsDir(rel) THEN Part(Listed(shown), start, count) ELSE <<>>
           n == Len(listed)
           rels == [i \in 1..n |-> Append(rel, listed[i])]
           numbers == Resolved(ids, at)
           more == NumberAll(numbers, rels)
           named == Named(at) \cup {rels[i] : i \in DOMAIN rels}
<1>1. Placed(at) /\ Linked(ids)
  BY ResolveIs DEF NumbersIInv
<1>2. OnlyNumbers(more, named)
  BY DEF Enumerate
<1>3. shown \in SUBSET Names
  BY DEF Shown
<1> HIDE DEF at, shown
<1>4. /\ n \in Nat /\ DOMAIN rels = 1..n
      /\ \A i \in 1..n : rels[i] \in Path
  <2>1. CASE Exists(at) /\ IsDir(rel)
    <3>1. listed = Part(Listed(shown), start, count)
      BY <2>1
    <3>2. rel \in Path
      BY <1>1, <2>1, RelIs
    <3> HIDE DEF listed, rel
    <3>3. listed \in Seq(Names) /\ n \in Nat
      BY <1>3, <3>1, ListedIs, PartIs
    <3>4. ASSUME NEW i \in 1..n PROVE Append(rel, listed[i]) \in Path
      <4>1. listed[i] \in Names
        BY <3>3, ElementOfSeq
      <4> QED BY <3>2, <4>1, Appended
    <3> QED BY <3>3, <3>4
  <2>2. CASE ~(Exists(at) /\ IsDir(rel))
    <3>1. listed = <<>>
      BY <2>2
    <3> HIDE DEF listed
    <3>2. n = 0
      BY <3>1
    <3> QED BY <3>2
  <2> QED BY <2>1, <2>2
<1>5. /\ Linked(numbers) /\ Extends(ids, numbers)
      /\ Named(at) \subseteq DOMAIN numbers.byPath
  BY <1>1, ResolvedKeeps
<1> HIDE DEF rels, numbers, n
<1>6. /\ Linked(more) /\ Extends(numbers, more)
      /\ \A i \in 1..n : rels[i] \in DOMAIN more.byPath
  BY <1>4, <1>5, NumberAllKeeps
<1> HIDE DEF more
<1>7. Extends(ids, more)
  BY <1>5, <1>6, ExtendsOn
<1>8. named \subseteq DOMAIN more.byPath
  BY <1>4, <1>5, <1>6 DEF Extends
<1> HIDE DEF named
<1> QED BY <1>2, <1>6, <1>7, <1>8, OnlyNumbersKeeps

LEMMA SetParmsNumbers ==
  ASSUME NumbersIInv, NEW asked \in Asked, NEW finder, NEW outcome,
         SetParms(asked, finder, outcome)
  PROVE  NumbersIInv'
<1> DEFINE at == Resolve(asked)
           rel == Rel(at)
           numbers == Resolved(ids, at)
           known == Stamped(truth, numbers, Named(at))
           result == Allowed(rel, outcome)
<1>1. Placed(at)
  BY ResolveIs DEF NumbersIInv
<1>2. CASE ~Exists(at)
  <2>1. Refused(at)
    BY <1>2 DEF SetParms
  <2> HIDE DEF at
  <2> QED BY <1>1, <2>1, RefusedKeeps
<1>3. CASE Exists(at)
  <2>1. /\ Numbering(numbers)
        /\ \/ truth' = known
           \/ truth' = CASE result = "written" -> [known EXCEPT ![rel].meta.finder = finder]
                              [] result = "cut" -> [known EXCEPT ![rel].own = FALSE]
                              [] OTHER -> known
    BY <1>3 DEF SetParms
  <2> HIDE DEF known, result, rel, at
  <2>2. \/ truth' = known \/ truth' = [known EXCEPT ![rel].meta.finder = finder]
        \/ truth' = [known EXCEPT ![rel].own = FALSE]
    BY <2>1
  <2>3. SameIds(known, truth')
    BY <2>2 DEF SameIds
  <2> QED BY <1>1, <2>1, <2>3, LookedUpKeeps DEF known
<1> QED BY <1>2, <1>3

\* A thing with no number yet may come where something is told of.
LEMMA NewKeeps ==
  ASSUME NumbersIInv, NEW numbers, Linked(numbers), Extends(ids, numbers),
         NEW named, named \subseteq DOMAIN numbers.byPath, NEW rel \in Path, NEW meta, NEW own,
         ids' = numbers,
         \/ truth' = With(Stamped(truth, numbers, named), rel, Untold(meta, own))
         \/ truth' = Stamped(With(truth, rel, Untold(meta, own)), numbers, named)
  PROVE  NumbersIInv'
<1>1. CASE truth' = With(Stamped(truth, numbers, named), rel, Untold(meta, own))
  <2>1. Known(Stamped(truth, numbers, named), numbers)
    BY StampedKeeps DEF NumbersIInv
  <2>2. Known(truth', numbers)
    BY <1>1, <2>1, WithKnown
  <2> QED BY <2>2 DEF NumbersIInv
<1>2. CASE truth' = Stamped(With(truth, rel, Untold(meta, own)), numbers, named)
  <2>1. Known(With(truth, rel, Untold(meta, own)), ids)
    BY WithKnown DEF NumbersIInv
  <2>2. Known(truth', numbers)
    BY <1>2, <2>1, StampedKeeps
  <2> QED BY <2>2 DEF NumbersIInv
<1> QED BY <1>1, <1>2

LEMMA NewRelIs ==
  ASSUME NEW folder \in Path, NEW name, name.of \in Names
  PROVE  NewRel(folder, name) \in Path
  BY Appended DEF NewRel

LEMMA CreateFileNumbers ==
  ASSUME NumbersIInv, NEW asked \in Asked, NEW hard, NEW outcome,
         CreateFile(asked, hard, outcome)
  PROVE  NumbersIInv'
<1> DEFINE at == Resolve(asked)
           rel == Rel(at)
           numbers == Resolved(ids, at)
           known == Stamped(truth, numbers, Named(at))
           new == NewRel(at.folder, at.name)
<1>1. Placed(at) /\ Linked(ids)
  BY ResolveIs DEF NumbersIInv
<1>2. \/ Refused(at)
      \/ /\ Exists(at) /\ Numbering(numbers)
         /\ truth' = [known EXCEPT ![rel].meta = NoMeta, ![rel].own = @ /\ outcome = "written"]
      \/ /\ at.name.of \in NewNames /\ Numbering(numbers)
         /\ truth' = With(known, new, Untold(Metadata(new), new \notin strange))
  BY DEF CreateFile
<1> HIDE DEF at
<1>3. CASE Refused(at)
  BY <1>1, <1>3, RefusedKeeps
<1>4. CASE /\ Exists(at) /\ Numbering(numbers)
           /\ truth' = [known EXCEPT ![rel].meta = NoMeta, ![rel].own = @ /\ outcome = "written"]
  <2> HIDE DEF known, rel
  <2>1. SameIds(known, truth')
    BY <1>4 DEF SameIds
  <2> QED BY <1>1, <1>4, <2>1, LookedUpKeeps DEF known
<1>5. CASE /\ at.name.of \in NewNames /\ Numbering(numbers)
           /\ truth' = With(known, new, Untold(Metadata(new), new \notin strange))
  <2>1. /\ Linked(numbers) /\ Extends(ids, numbers)
        /\ Named(at) \subseteq DOMAIN numbers.byPath
    BY <1>1, ResolvedKeeps
  <2>2. new \in Path
    BY <1>1, <1>5, NewRelIs, VolumeAssumption DEF Placed
  <2>3. ids' = numbers
    BY <1>5 DEF Numbering
  <2> HIDE DEF new, numbers
  <2> QED BY <1>5, <2>1, <2>2, <2>3, NewKeeps
<1> QED BY <1>2, <1>3, <1>4, <1>5

LEMMA CreateDirNumbers ==
  ASSUME NumbersIInv, NEW asked \in Asked, CreateDir(asked)
  PROVE  NumbersIInv'
<1> DEFINE at == Resolve(asked)
           new == NewRel(at.folder, at.name)
           numbers == Number(ids, new)
           told == With(truth, new, Untold(Metadata(new), new \notin strange))
<1>1. Placed(at) /\ Linked(ids)
  BY ResolveIs DEF NumbersIInv
<1>2. \/ Refused(at)
      \/ /\ at.name.of \in NewNames /\ Numbering(numbers)
         /\ truth' = Stamped(told, numbers, {new})
  BY DEF CreateDir
<1> HIDE DEF at
<1>3. CASE Refused(at)
  BY <1>1, <1>3, RefusedKeeps
<1>4. CASE /\ at.name.of \in NewNames /\ Numbering(numbers)
           /\ truth' = Stamped(told, numbers, {new})
  <2>1. new \in Path
    BY <1>1, <1>4, NewRelIs, VolumeAssumption DEF Placed
  <2> HIDE DEF new
  <2>2. Linked(numbers) /\ Extends(ids, numbers) /\ new \in DOMAIN numbers.byPath
    BY <1>1, <2>1, NumberKeeps
  <2>3. ids' = numbers
    BY <1>4 DEF Numbering
  <2> HIDE DEF numbers
  <2> QED BY <1>4, <2>1, <2>2, <2>3, NewKeeps
<1> QED BY <1>2, <1>3, <1>4

LEMMA DeleteNumbers ==
  ASSUME NumbersIInv, NEW asked \in Asked, Delete(asked)
  PROVE  NumbersIInv'
<1> DEFINE at == Resolve(asked)
           rel == Rel(at)
           numbers == Resolved(ids, at)
<1>1. Placed(at) /\ Linked(ids)
  BY ResolveIs DEF NumbersIInv
<1>2. \/ Refused(at)
      \/ /\ Exists(at) /\ Numbering(numbers)
         /\ truth' = Stamped(truth, numbers, Named(at))
      \/ /\ Numbering(RemovedNumbers(numbers, rel))
         /\ truth' = Without(truth, rel)
  BY DEF Delete
<1> HIDE DEF at
<1>3. CASE Refused(at)
  BY <1>1, <1>3, RefusedKeeps
<1>4. CASE /\ Exists(at) /\ Numbering(numbers)
           /\ truth' = Stamped(truth, numbers, Named(at))
  BY <1>1, <1>4, LookedUpKeeps, SameIsSame
<1>5. CASE /\ Numbering(RemovedNumbers(numbers, rel))
           /\ truth' = Without(truth, rel)
  <2>1. Linked(numbers) /\ Extends(ids, numbers)
    BY <1>1, ResolvedKeeps
  <2> HIDE DEF numbers, rel
  <2>2. Known(truth, numbers)
    BY <2>1, MoreKnown DEF NumbersIInv
  <2>3. /\ Linked(RemovedNumbers(numbers, rel))
        /\ Known(Without(truth, rel), RemovedNumbers(numbers, rel))
    BY <2>1, <2>2, RemovedNumbersKeep
  <2> QED BY <1>5, <2>3 DEF NumbersIInv, Numbering
<1> QED BY <1>2, <1>3, <1>4, <1>5

LEMMA MoveNumbers ==
  ASSUME NumbersIInv, NEW numbers, Linked(numbers), NEW history, Known(history, numbers),
         NEW rel \in Path, NEW folder \in Path, NEW name, name.of \in Names,
         Move(numbers, history, rel, folder, name)
  PROVE  NumbersIInv'
<1> DEFINE to == NewRel(folder, name)
<1>1. \/ Numbering(numbers) /\ truth' = history
      \/ /\ Numbering(MovedNumbers(numbers, rel, to))
         /\ truth' = MovedTruth(Without(history, to), rel, to)
  BY DEF Move
<1>2. to \in Path
  BY NewRelIs
<1> HIDE DEF to
<1>3. CASE Numbering(numbers) /\ truth' = history
  BY <1>3 DEF NumbersIInv, Numbering
<1>4. CASE /\ Numbering(MovedNumbers(numbers, rel, to))
           /\ truth' = MovedTruth(Without(history, to), rel, to)
  <2>1. Linked(MovedNumbers(numbers, rel, to))
    BY <1>2, MovedNumbersKeep
  <2>2. Known(MovedTruth(Without(history, to), rel, to), MovedNumbers(numbers, rel, to))
    BY <1>2, MovedTruthKnown
  <2> QED BY <1>4, <2>1, <2>2 DEF NumbersIInv, Numbering
<1> QED BY <1>1, <1>3, <1>4

LEMMA RenameNumbers ==
  ASSUME NumbersIInv, NEW asked \in Asked, NEW name, Rename(asked, name)
  PROVE  NumbersIInv'
<1> DEFINE at == Resolve(asked)
           rel == Rel(at)
           numbers == Resolved(ids, at)
           history == Stamped(truth, numbers, {rel})
<1>1. Placed(at) /\ Linked(ids) /\ name \in Names
  BY ResolveIs, VolumeAssumption DEF NumbersIInv, Rename
<1>2. IF ~Exists(at) \/ rel = Root THEN Refused(at)
      ELSE Move(numbers, history, rel, ParentOf(rel), Plain(name))
  BY DEF Rename
<1> HIDE DEF at
<1>3. CASE ~Exists(at) \/ rel = Root
  BY <1>1, <1>2, <1>3, RefusedKeeps
<1>4. CASE ~(~Exists(at) \/ rel = Root)
  <2>1. /\ Linked(numbers) /\ Extends(ids, numbers) /\ {rel} \subseteq DOMAIN numbers.byPath
        /\ rel \in Path /\ rel # Root
    BY <1>1, <1>4, ResolvedKeeps, RelIs DEF Named
  <2>2. Move(numbers, history, rel, ParentOf(rel), Plain(name))
    BY <1>2, <1>4
  <2> HIDE DEF numbers, rel
  <2>3. Known(history, numbers)
    BY <2>1, StampedKeeps DEF NumbersIInv
  <2>4. ParentOf(rel) \in Path
    BY <2>1, ParentIsPath
  <2>5. Plain(name).of \in Names
    BY <1>1 DEF Plain
  <2> HIDE DEF history
  <2> QED BY <2>1, <2>2, <2>3, <2>4, <2>5, MoveNumbers
<1> QED BY <1>3, <1>4

LEMMA MoveAndRenameNumbers ==
  ASSUME NumbersIInv, NEW asked \in Asked, NEW askedTo \in Asked, NEW name,
         MoveAndRename(asked, askedTo, name)
  PROVE  NumbersIInv'
<1> DEFINE from == Resolve(asked)
           to == Resolve(askedTo)
           rel == Rel(from)
           folder == Rel(to)
           seen == Resolved(ids, from)
           numbers == IF Exists(from) THEN Resolved(seen, to) ELSE seen
           named == IF Exists(from) THEN Named(from) \cup Named(to) ELSE {}
           own == NameOf(ParentOf(rel), Last(rel))
           given == IF name = None THEN own ELSE Plain(name)
<1>1. Placed(from) /\ Placed(to) /\ Linked(ids) /\ name \in Names \cup {None}
  BY ResolveIs, VolumeAssumption DEF NumbersIInv, MoveAndRename
<1>2. \/ OnlyNumbers(numbers, named)
      \/ /\ Exists(from) /\ Exists(to) /\ rel # Root
         /\ Move(numbers, Stamped(truth, numbers, named), rel, folder, given)
  BY DEF MoveAndRename
<1> HIDE DEF from, to
<1>3. Linked(seen) /\ Extends(ids, seen) /\ Named(from) \subseteq DOMAIN seen.byPath
  BY <1>1, ResolvedKeeps
<1> HIDE DEF seen
<1>4. Linked(numbers) /\ Extends(ids, numbers) /\ named \subseteq DOMAIN numbers.byPath
  <2>1. CASE Exists(from)
    <3>1. numbers = Resolved(seen, to) /\ named = Named(from) \cup Named(to)
      BY <2>1
    <3>2. /\ Linked(numbers) /\ Extends(seen, numbers)
          /\ Named(to) \subseteq DOMAIN numbers.byPath
      BY <1>1, <1>3, <3>1, ResolvedKeeps
    <3> HIDE DEF numbers, named
    <3>3. Extends(ids, numbers)
      BY <1>3, <3>2, ExtendsOn
    <3> QED BY <1>3, <3>1, <3>2, <3>3 DEF Extends
  <2>2. CASE ~Exists(from)
    BY <1>3, <2>2
  <2> QED BY <2>1, <2>2
<1> HIDE DEF numbers, named
<1>5. CASE OnlyNumbers(numbers, named)
  BY <1>4, <1>5, OnlyNumbersKeeps
<1>6. CASE /\ Exists(from) /\ Exists(to) /\ rel # Root
           /\ Move(numbers, Stamped(truth, numbers, named), rel, folder, given)
  <2>1. rel \in Path /\ folder \in Path
    BY <1>1, <1>6, RelIs
  <2>2. Known(Stamped(truth, numbers, named), numbers)
    BY <1>4, StampedKeeps DEF NumbersIInv
  <2>3. given.of \in Names
    <3>1. Last(rel) \in Names
      BY <1>6, <2>1, ParentIsPath
    <3> HIDE DEF rel
    <3>2. own.of \in Names
      BY <3>1 DEF NameOf, NameAmong
    <3>3. name # None => Plain(name).of \in Names
      BY <1>1 DEF Plain
    <3> HIDE DEF own
    <3> QED BY <3>2, <3>3
  <2> HIDE DEF given, rel, folder
  <2> QED BY <1>4, <1>6, <2>1, <2>2, <2>3, MoveNumbers
<1> QED BY <1>2, <1>5, <1>6

LEMMA OpenForkNumbers ==
  ASSUME NumbersIInv, NEW s, NEW asked \in Asked, NEW resource, NEW access,
         OpenFork(s, asked, resource, access)
  PROVE  NumbersIInv'
<1> DEFINE at == Resolve(asked)
           numbers == Resolved(ids, at)
<1>1. Placed(at)
  BY ResolveIs DEF NumbersIInv
<1>2. \/ Refused(at)
      \/ /\ Exists(at) /\ Numbering(numbers)
         /\ truth' = Stamped(truth, numbers, {Rel(at)})
  BY DEF OpenFork
<1> HIDE DEF at
<1>3. CASE Refused(at)
  BY <1>1, <1>3, RefusedKeeps
<1>4. CASE /\ Exists(at) /\ Numbering(numbers)
           /\ truth' = Stamped(truth, numbers, {Rel(at)})
  <2>1. Named(at) = {Rel(at)}
    BY <1>4 DEF Named
  <2> QED BY <1>1, <1>4, <2>1, LookedUpKeeps, SameIsSame
<1> QED BY <1>2, <1>3, <1>4

LEMMA SameIdsOn ==
  ASSUME NEW a, NEW b, NEW d, SameIds(a, b), SameIds(b, d)
  PROVE  SameIds(a, d)
  BY DEF SameIds

LEMMA FlushedIds ==
  ASSUME NEW open, NEW cc, NEW outcome, SameIds(truth, open.truth), "truth" \in DOMAIN open
  PROVE  /\ SameIds(truth, Flushed(open, cc, outcome).truth)
         /\ "truth" \in DOMAIN Flushed(open, cc, outcome)
<1> DEFINE copy == open.copies[cc]
           result == Allowed(copy.rel, outcome)
           meta == [MetaIn(open.side, copy.rel) EXCEPT !.resource = copy.data]
           told == [p \in DOMAIN open.truth |->
                      IF p = copy.rel /\ result # "written"
                      THEN [open.truth[p] EXCEPT !.own = FALSE] ELSE open.truth[p]]
           done == [open EXCEPT
              !.side = MetaWritten(@, copy.rel, meta, result),
              !.copies[cc].dirty = result # "written",
              !.truth = told]
<1>1. Flushed(open, cc, outcome) = open \/ Flushed(open, cc, outcome) = done
  BY DEF Flushed
<1>2. SameIds(open.truth, told)
  <2> HIDE DEF copy, result
  <2> QED BY DEF SameIds
<1> HIDE DEF copy, result, meta, told
<1>3. done.truth = told /\ "truth" \in DOMAIN done
  OBVIOUS
<1> HIDE DEF done
<1> QED BY <1>1, <1>2, <1>3, SameIdsOn

LEMMA ClosedIds ==
  ASSUME NEW open, NEW ref, NEW outcome, SameIds(truth, open.truth), "truth" \in DOMAIN open
  PROVE  /\ SameIds(truth, Closed(open, ref, outcome).truth)
         /\ "truth" \in DOMAIN Closed(open, ref, outcome)
<1> DEFINE f == open.forks[ref]
           left == [open EXCEPT !.forks = [r \in DOMAIN @ \ {ref} |-> @[r]]]
           flushed == Flushed(left, f.copy, outcome)
           copy == flushed.copies[f.copy]
           fewer == [flushed EXCEPT !.copies[f.copy].users = @ - 1]
           none == [flushed EXCEPT !.resources = [p \in DOMAIN @ \ {copy.rel} |-> @[p]],
                                   !.copies = [x \in DOMAIN @ \ {f.copy} |-> @[x]]]
<1>1. Closed(open, ref, outcome) \in {left, fewer, none}
  BY DEF Closed
<1>2. left.truth = open.truth /\ "truth" \in DOMAIN left
  OBVIOUS
<1> HIDE DEF left
<1>3. SameIds(truth, flushed.truth) /\ "truth" \in DOMAIN flushed
  BY <1>2, FlushedIds
<1> HIDE DEF flushed
<1>4. /\ fewer.truth = flushed.truth /\ "truth" \in DOMAIN fewer
      /\ none.truth = flushed.truth /\ "truth" \in DOMAIN none
  BY <1>3
<1> HIDE DEF fewer, none
<1> QED BY <1>1, <1>2, <1>3, <1>4

LEMMA OpenIds == SameIds(truth, Open.truth) /\ "truth" \in DOMAIN Open
  BY SameIsSame DEF Open

LEMMA BecomesNumbers ==
  ASSUME NumbersIInv, NEW open, SameIds(truth, open.truth), Becomes(open)
  PROVE  NumbersIInv'
<1>1. ids' = ids /\ truth' = open.truth
  BY DEF Becomes
<1> QED BY <1>1, NoNumbersKeeps

LEMMA FlushForkNumbers ==
  ASSUME NumbersIInv, NEW s, NEW ref, NEW outcome, FlushFork(s, ref, outcome)
  PROVE  NumbersIInv'
<1>1. Becomes(Flushed(Open, forks[ref].copy, outcome)) \/ Becomes(Open)
  BY DEF FlushFork
<1>2. SameIds(truth, Flushed(Open, forks[ref].copy, outcome).truth)
  BY OpenIds, FlushedIds
<1> QED BY <1>1, <1>2, OpenIds, BecomesNumbers

LEMMA CloseForkNumbers ==
  ASSUME NumbersIInv, NEW s, NEW ref, NEW outcome, CloseFork(s, ref, outcome)
  PROVE  NumbersIInv'
<1>1. Becomes(Closed(Open, ref, outcome))
  BY DEF CloseFork
<1>2. SameIds(truth, Closed(Open, ref, outcome).truth)
  BY OpenIds, ClosedIds
<1> QED BY <1>1, <1>2, BecomesNumbers

\* The forks a session has open, one after the other.
ForksOf(s) == {r \in DOMAIN forks : forks[r].session = s}

LEMMA InSeq ==
  ASSUME NEW S, IsFiniteSet(S)
  PROVE  /\ DOMAIN SetToSeq(S) = 1..Cardinality(S) /\ Cardinality(S) \in Nat
         /\ \A x \in S : \E i \in 1..Cardinality(S) : SetToSeq(S)[i] = x
         /\ \A i \in 1..Cardinality(S) : SetToSeq(S)[i] \in S
         /\ \A i, j \in 1..Cardinality(S) : SetToSeq(S)[i] = SetToSeq(S)[j] => i = j
<1> DEFINE n == Cardinality(S)
           f == SetToSeq(S)
<1>1. n \in Nat /\ ExistsBijection(1..n, S)
  BY FS_CardinalityType
<1>2. PICK g : g \in Bijection(1..n, S)
  BY <1>1 DEF ExistsBijection
<1>3. g \in [1..n -> S] /\ IsInjective(g)
  BY <1>2 DEF Bijection, Injection
<1>4. f = CHOOSE h \in [1..n -> S] : IsInjective(h)
  BY DEF SetToSeq
<1> HIDE DEF f, n
<1>5. f \in [1..n -> S] /\ IsInjective(f)
  BY <1>3, <1>4
<1>6. f \in Surjection(1..n, S)
  <2>1. f \in Injection(1..n, S)
    BY <1>5 DEF Injection
  <2>2. Cardinality(1..n) = n
    BY <1>1, FS_Interval
  <2> QED BY <1>1, <2>1, <2>2, FS_Injection DEF n
<1>7. \A x \in S : \E i \in 1..n : f[i] = x
  BY <1>6 DEF Surjection
<1>8. \A i, j \in 1..n : f[i] = f[j] => i = j
  BY <1>5 DEF IsInjective
<1> QED BY <1>1, <1>5, <1>7, <1>8 DEF f, n

LEMMA AllClosedIds ==
  ASSUME NEW refs, NEW outcome, NEW n \in Nat, DOMAIN refs = 1..n
  PROVE  SameIds(truth, AllClosed(Open, refs, outcome).truth)
<1>1. PICK w : ClosesOneByOne(w, Open, refs, outcome, n)
  BY AllClosedSteps
<1> DEFINE Good == {k \in 0..n : SameIds(truth, w[k].truth) /\ "truth" \in DOMAIN w[k]}
<1>2. 0 \in Good
  BY <1>1, OpenIds DEF ClosesOneByOne
<1>3. ASSUME NEW k \in 1..n, k - 1 \in Good PROVE k \in Good
  <2> DEFINE a == w[k - 1]
             b == w[k]
  <2>1. SameIds(truth, a.truth) /\ "truth" \in DOMAIN a
    BY <1>3
  <2>2. b = Closed(a, refs[k], outcome)
    BY <1>1 DEF ClosesOneByOne
  <2> HIDE DEF a, b
  <2>3. SameIds(truth, b.truth) /\ "truth" \in DOMAIN b
    BY <2>1, <2>2, ClosedIds
  <2> QED BY <2>3 DEF b
<1>4. Good \in SUBSET (0..n)
  OBVIOUS
<1> HIDE DEF Good
<1>5. n \in Good
  BY <1>2, <1>3, <1>4, HoldsAtLast
<1>6. AllClosed(Open, refs, outcome) = w[n]
  BY <1>1 DEF ClosesOneByOne
<1> QED BY <1>5, <1>6 DEF Good

LEMMA CloseSessionNumbers ==
  ASSUME NumbersIInv, IsFiniteSet(DOMAIN forks), NEW s, NEW outcome, CloseSession(s, outcome)
  PROVE  NumbersIInv'
<1> DEFINE refs == SetToSeq(ForksOf(s))
<1>1. Becomes(AllClosed(Open, refs, outcome))
  BY DEF CloseSession, ForksOf
<1>2. IsFiniteSet(ForksOf(s))
  BY FS_Subset DEF ForksOf
<1>3. DOMAIN refs = 1..Cardinality(ForksOf(s)) /\ Cardinality(ForksOf(s)) \in Nat
  BY <1>2, InSeq
<1> HIDE DEF refs
<1>4. SameIds(truth, AllClosed(Open, refs, outcome).truth)
  BY <1>3, AllClosedIds
<1> QED BY <1>1, <1>4, BecomesNumbers

LEMMA ChangedNumbers ==
  ASSUME NumbersIInv, NEW ref, NEW data, Changed(ref, data)
  PROVE  NumbersIInv'
<1> DEFINE f == forks[ref]
<1>1. /\ ids' = ids
      /\ truth' = truth \/ truth' = [truth EXCEPT ![f.file].meta.resource = data]
  BY DEF Changed
<1> HIDE DEF f
<1>2. SameIds(truth, truth')
  BY <1>1 DEF SameIds
<1> QED BY <1>1, <1>2, NoNumbersKeeps

LEMMA StampedSame ==
  ASSUME NEW old, NEW new, SameIds(old, new), NEW numbers, NEW named,
         Known(old, numbers)
  PROVE  SameIds(Stamped(old, numbers, named), Stamped(new, numbers, named))
<1> DEFINE g == Stamped(old, numbers, named)
           h == Stamped(new, numbers, named)
<1>1. /\ DOMAIN g = DOMAIN old /\ DOMAIN h = DOMAIN new
      /\ \A p \in DOMAIN old : g[p] = IF p \in named /\ old[p].id = 0
                  THEN [old[p] EXCEPT !.id = numbers.byPath[p]] ELSE old[p]
      /\ \A p \in DOMAIN new : h[p] = IF p \in named /\ new[p].id = 0
                  THEN [new[p] EXCEPT !.id = numbers.byPath[p]] ELSE new[p]
  BY DEF Stamped
<1> HIDE DEF g, h
<1>2. ASSUME NEW p \in DOMAIN h, "id" \in DOMAIN g[p]
      PROVE  "id" \in DOMAIN h[p] /\ h[p].id = g[p].id
  <2>1. p \in DOMAIN old /\ p \in DOMAIN new /\ "id" \in DOMAIN old[p]
    BY <1>1 DEF SameIds, Known
  <2>2. "id" \in DOMAIN new[p] /\ new[p].id = old[p].id
    BY <2>1 DEF SameIds
  <2>3. CASE p \in named /\ old[p].id = 0
    <3>1. /\ g[p] = [old[p] EXCEPT !.id = numbers.byPath[p]]
          /\ h[p] = [new[p] EXCEPT !.id = numbers.byPath[p]]
      BY <1>1, <2>1, <2>2, <2>3
    <3> QED BY <2>1, <2>2, <3>1
  <2>4. CASE ~(p \in named /\ old[p].id = 0)
    <3>1. g[p] = old[p] /\ h[p] = new[p]
      BY <1>1, <2>1, <2>2, <2>4
    <3> QED BY <2>2, <3>1
  <2> QED BY <2>3, <2>4
<1>3. DOMAIN h = DOMAIN g
  BY <1>1 DEF SameIds
<1> QED BY <1>2, <1>3 DEF SameIds, g, h

LEMMA OnDesktopNumbers ==
  ASSUME NumbersIInv, NEW at, Placed(at), NEW history, SameIds(truth, history),
         OnDesktop(at, history)
  PROVE  NumbersIInv'
<1> DEFINE numbers == Resolved(ids, at)
<1>1. Known(history, ids)
  BY KnownSame DEF NumbersIInv
<1>2. /\ Linked(numbers) /\ Extends(ids, numbers)
      /\ Named(at) \subseteq DOMAIN numbers.byPath
  BY ResolvedKeeps DEF NumbersIInv
<1>3. ids' = numbers /\ truth' = Stamped(history, numbers, Named(at))
  BY DEF OnDesktop, Numbering
<1> HIDE DEF numbers
<1>4. Known(truth', numbers)
  BY <1>1, <1>2, <1>3, StampedKeeps
<1> QED BY <1>2, <1>3, <1>4 DEF NumbersIInv

LEMMA DesktopNumbers ==
  ASSUME NumbersIInv, DesktopCall
  PROVE  NumbersIInv'
<1>1. CASE OpenDT
  <2>1. ids' = ids
    BY <1>1 DEF OpenDT
  <2>2. SameIds(truth, truth')
    <3> DEFINE found ==
          SetToSeq({p \in {p \in UNION {Scanned(folder) : folder \in Walked} :
                            ~host[p].dir} :
                      Metadata(p).finder \in Appl})
    <3>1. truth' = [p \in DOMAIN truth |->
                        IF p \in ToSet(found)
                        THEN [truth[p] EXCEPT !.creators = @ \cup {Metadata(p).finder}]
                        ELSE truth[p]]
      BY <1>1 DEF OpenDT
    <3> HIDE DEF found
    <3> QED BY <3>1 DEF SameIds
  <2> QED BY <2>1, <2>2, NoNumbersKeeps
<1>2. ASSUME NEW asked \in Asked, NEW creator, AddAPPL(asked, creator)
      PROVE  NumbersIInv'
  <2> DEFINE at == Resolve(asked)
             rel == Rel(at)
             history == [truth EXCEPT ![rel].creators = @ \cup {creator}]
  <2>1. Placed(at)
    BY ResolveIs DEF NumbersIInv
  <2>2. Refused(at) \/ OnDesktop(at, history)
    BY <1>2 DEF AddAPPL
  <2> HIDE DEF at, rel
  <2>3. SameIds(truth, history)
    BY DEF SameIds
  <2> QED BY <2>1, <2>2, <2>3, RefusedKeeps, OnDesktopNumbers
<1>3. ASSUME NEW asked \in Asked, NEW creator, RemoveAPPL(asked, creator)
      PROVE  NumbersIInv'
  <2> DEFINE at == Resolve(asked)
             rel == Rel(at)
             history == [truth EXCEPT ![rel].creators = @ \ {creator}]
  <2>1. Placed(at)
    BY ResolveIs DEF NumbersIInv
  <2>2. Refused(at) \/ OnDesktop(at, history)
    BY <1>3 DEF RemoveAPPL
  <2> HIDE DEF at, rel
  <2>3. SameIds(truth, history)
    BY DEF SameIds
  <2> QED BY <2>1, <2>2, <2>3, RefusedKeeps, OnDesktopNumbers
<1>4. ASSUME NEW asked \in Asked, NEW comment, AddComment(asked, comment)
      PROVE  NumbersIInv'
  <2> DEFINE at == Resolve(asked)
             rel == Rel(at)
             history == [truth EXCEPT ![rel].comment = comment]
  <2>1. Placed(at)
    BY ResolveIs DEF NumbersIInv
  <2>2. Refused(at) \/ OnDesktop(at, history)
    BY <1>4 DEF AddComment
  <2> HIDE DEF at, rel
  <2>3. SameIds(truth, history)
    BY DEF SameIds
  <2> QED BY <2>1, <2>2, <2>3, RefusedKeeps, OnDesktopNumbers
<1> QED BY <1>1, <1>2, <1>3, <1>4 DEF DesktopCall

LEMMA HostNumbers ==
  ASSUME NumbersIInv, HostActs
  PROVE  NumbersIInv'
<1>1. ASSUME NEW rel \in Paths, HostTakes(rel)
      PROVE  NumbersIInv'
  <2>1. ids' = ids /\ truth' = Without(truth, rel)
    BY <1>1 DEF HostTakes
  <2>2. Known(truth', ids)
    BY <2>1, WithoutKnown DEF NumbersIInv
  <2> QED BY <2>1, <2>2 DEF NumbersIInv
<1>2. ASSUME NEW rel \in Paths, NEW dir, NEW locked, NEW meta, HostMakes(rel, dir, locked, meta)
      PROVE  NumbersIInv'
  <2>1. ids' = ids
    BY <1>2 DEF HostMakes
  <2>2. PICK x, y : truth' = With(truth, rel, Untold(x, y))
    BY <1>2 DEF HostMakes
  <2>3. rel \in Path
    BY PathsArePaths
  <2>4. Known(truth', ids)
    BY <2>2, <2>3, WithKnown DEF NumbersIInv
  <2> QED BY <2>1, <2>4 DEF NumbersIInv
<1> QED BY <1>1, <1>2 DEF HostActs

LEMMA CatalogNumbers ==
  ASSUME NumbersIInv, CatalogCall
  PROVE  NumbersIInv'
<1>1. PICK asked \in Asked :
        \/ GetFileDirParms(asked, TRUE)
        \/ OpenDir(asked)
        \/ \E kinds \in {BOOLEAN, {FALSE}}, start \in 1..MostObjects :
             Enumerate(asked, kinds, start, MostObjects)
        \/ \E finder \in Finders \cup {None}, outcome \in Outcomes :
             SetParms(asked, finder, outcome)
        \/ \E hard \in BOOLEAN, outcome \in Outcomes : CreateFile(asked, hard, outcome)
        \/ CreateDir(asked)
        \/ Delete(asked)
        \/ \E name \in NewNames : Rename(asked, name)
        \/ \E to \in AskedTo, name \in NewNames \cup {None} : MoveAndRename(asked, to, name)
  BY DEF CatalogCall
<1>2. CASE GetFileDirParms(asked, TRUE)
  BY <1>2, GetFileDirParmsNumbers
<1>3. CASE OpenDir(asked)
  BY <1>3, OpenDirNumbers
<1>4. ASSUME NEW kinds \in {BOOLEAN, {FALSE}}, NEW start \in 1..MostObjects,
             Enumerate(asked, kinds, start, MostObjects)
      PROVE  NumbersIInv'
  <2>1. start \in Nat \ {0} /\ MostObjects \in Nat
    BY VolumeAssumption
  <2> QED BY <1>4, <2>1, EnumerateNumbers
<1>5. ASSUME NEW finder, NEW outcome, SetParms(asked, finder, outcome)
      PROVE  NumbersIInv'
  BY <1>5, SetParmsNumbers
<1>6. ASSUME NEW hard, NEW outcome, CreateFile(asked, hard, outcome)
      PROVE  NumbersIInv'
  BY <1>6, CreateFileNumbers
<1>7. CASE CreateDir(asked)
  BY <1>7, CreateDirNumbers
<1>8. CASE Delete(asked)
  BY <1>8, DeleteNumbers
<1>9. ASSUME NEW name, Rename(asked, name)
      PROVE  NumbersIInv'
  BY <1>9, RenameNumbers
<1>10. ASSUME NEW to \in AskedTo, NEW name, MoveAndRename(asked, to, name)
      PROVE  NumbersIInv'
  <2>1. to \in Asked
    BY VolumeAssumption
  <2> QED BY <1>10, <2>1, MoveAndRenameNumbers
<1> QED BY <1>1, <1>2, <1>3, <1>4, <1>5, <1>6, <1>7, <1>8, <1>9, <1>10

LEMMA ForkNumbers ==
  ASSUME NumbersIInv, ForkCall
  PROVE  NumbersIInv'
<1>1. ASSUME NEW s, NEW asked \in Asked, NEW resource, NEW access,
             OpenFork(s, asked, resource, access)
      PROVE  NumbersIInv'
  BY <1>1, OpenForkNumbers
<1>2. ASSUME NEW s, NEW ref, NEW offset, NEW fromEnd, NEW bytes,
             Write(s, ref, offset, fromEnd, bytes)
      PROVE  NumbersIInv'
  BY <1>2, ChangedNumbers DEF Write
<1>3. ASSUME NEW s, NEW ref, NEW length, SetForkParms(s, ref, length)
      PROVE  NumbersIInv'
  BY <1>3, ChangedNumbers DEF SetForkParms
<1>4. ASSUME NEW s, NEW ref, NEW outcome, FlushFork(s, ref, outcome) \/ CloseFork(s, ref, outcome)
      PROVE  NumbersIInv'
  BY <1>4, FlushForkNumbers, CloseForkNumbers
<1> QED BY <1>1, <1>2, <1>3, <1>4 DEF ForkCall

LEMMA SessionNumbers ==
  ASSUME NumbersIInv, IsFiniteSet(DOMAIN forks), SessionCall
  PROVE  NumbersIInv'
<1>1. ASSUME NEW s, OpenSession(s) \/ Login(s) \/ Logout(s)
      PROVE  NumbersIInv'
  <2>1. ids' = ids /\ truth' = truth
    BY <1>1 DEF OpenSession, Login, Logout, folderVars
  <2> QED BY <2>1, SameIsSame, NoNumbersKeeps
<1>2. ASSUME NEW s, NEW outcome, CloseSession(s, outcome)
      PROVE  NumbersIInv'
  BY <1>2, CloseSessionNumbers
<1> QED BY <1>1, <1>2 DEF SessionCall

LEMMA StillNumbers ==
  ASSUME NumbersIInv, UNCHANGED vars
  PROVE  NumbersIInv'
<1>1. ids' = ids /\ truth' = truth
  BY DEF vars, folderVars
<1> QED BY <1>1 DEF NumbersIInv

LEMMA InitNumbers ==
  ASSUME Init
  PROVE  NumbersIInv
<1> DEFINE d == With(<<>>, rootID, Root)
           f == With(<<>>, Root, rootID)
<1>1. ids = [byID |-> d, byPath |-> f, next |-> firstFreeID]
  BY DEF Init
<1>2. /\ DOMAIN d = {rootID} /\ d[rootID] = Root
      /\ DOMAIN f = {Root} /\ f[Root] = rootID
  <2>1. DOMAIN <<>> = {}
    OBVIOUS
  <2> QED BY <2>1 DEF With
<1>3. Root \in Path
  BY DEF Root, Path
<1>4. ids.byID = d /\ ids.byPath = f /\ ids.next = 17 /\ rootID = 2
  BY <1>1 DEF firstFreeID, rootID
<1> HIDE DEF d, f
<1>5. ids = [byID |-> ids.byID, byPath |-> ids.byPath, next |-> ids.next]
  BY <1>1, <1>4 DEF firstFreeID
<1>6. Linked(ids)
  BY <1>2, <1>3, <1>4, <1>5 DEF Linked
<1>7. Known(truth, ids)
  <2>1. /\ truth = [p \in DOMAIN host |-> Untold(NoMeta, TRUE)] /\ host \in Initial
    BY DEF Init
  <2>2. DOMAIN host \subseteq Path
    BY <2>1, VolumeAssumption, PathsArePaths DEF IsTree
  <2>3. "id" \in DOMAIN Untold(NoMeta, TRUE) /\ Untold(NoMeta, TRUE).id = 0
    BY DEF Untold
  <2> QED BY <2>1, <2>2, <2>3 DEF Known
<1> QED BY <1>6, <1>7 DEF NumbersIInv

LEMMA NumbersFollow == NumbersIInv => IdsFollow
<1> SUFFICES ASSUME NumbersIInv, NEW p \in DOMAIN truth, truth[p].id # 0
             PROVE  /\ p \in DOMAIN ids.byPath /\ ids.byPath[p] = truth[p].id
                    /\ ids.byID[truth[p].id] = p
  BY DEF IdsFollow
<1> QED BY DEF NumbersIInv, Linked, Known

-----------------------------------------------------------------------------
(* The reference number of the next fork.                                  *)

\* The reference numbers, from the last one handed out on.
After(k) == ((nextFork + k - 1) % LastRef) + 1

LEMMA OnceRound ==
  ASSUME NEW d \in Nat \ {0}, NEW a \in 0..d - 1
  PROVE  (a + d) % d = a
<1> DEFINE q == (a + d) \div d
           r == (a + d) % d
<1>1. a + d \in Nat
  OBVIOUS
<1>2. r \in 0..d - 1 /\ q \in Int /\ a + d = d * q + r
  BY <1>1
<1> HIDE DEF q, r
<1>3. \A e \in Int : e >= 2 => d * e >= d + d
  OBVIOUS
<1>4. \A e \in Int : e <= 0 => d * e <= 0
  OBVIOUS
<1>5. q < 2
  BY <1>2, <1>3
<1>6. q > 0
  BY <1>2, <1>4
<1>7. q = 1
  BY <1>2, <1>5, <1>6
<1>8. d * 1 = d
  OBVIOUS
<1>9. r = a
  BY <1>2, <1>7, <1>8
<1> QED BY <1>9 DEF r

LEMMA AfterReaches ==
  ASSUME nextFork \in 0..LastRef, NEW x \in 1..LastRef
  PROVE  \E k \in 1..LastRef : After(k) = x
<1>1. LastRef \in Nat \ {0}
  BY VolumeAssumption
<1>2. ASSUME NEW k \in 1..LastRef, (nextFork + k - 1) % LastRef = x - 1
      PROVE  After(k) = x
  <2>1. After(k) = (x - 1) + 1
    BY <1>2 DEF After
  <2> QED BY <1>1, <2>1
<1>3. CASE x > nextFork
  <2> DEFINE k == x - nextFork
  <2>1. k \in 1..LastRef /\ nextFork + k - 1 = x - 1
    BY <1>1, <1>3
  <2>2. (x - 1) % LastRef = x - 1
    BY <1>1
  <2> HIDE DEF k
  <2> QED BY <1>2, <2>1, <2>2
<1>4. CASE x <= nextFork
  <2> DEFINE k == x - nextFork + LastRef
  <2>1. k \in 1..LastRef /\ nextFork + k - 1 = (x - 1) + LastRef
    BY <1>1, <1>4
  <2>2. ((x - 1) + LastRef) % LastRef = x - 1
    BY <1>1, OnceRound
  <2> HIDE DEF k
  <2> QED BY <1>2, <2>1, <2>2
<1> QED BY <1>1, <1>3, <1>4

LEMMA NewForkRefIs ==
  ASSUME nextFork \in 0..LastRef, DOMAIN forks \subseteq 1..LastRef, DOMAIN forks # 1..LastRef
  PROVE  NewForkRef \in (1..LastRef) \ DOMAIN forks
<1>1. LastRef \in Nat \ {0}
  BY VolumeAssumption
<1>2. PICK x \in 1..LastRef : x \notin DOMAIN forks
  OBVIOUS
<1>3. PICK k \in 1..LastRef : After(k) = x
  BY <1>2, AfterReaches
<1> DEFINE Free == {i \in 1..LastRef : After(i) \notin DOMAIN forks}
<1>4. k \in Free /\ Free \subseteq Nat
  BY <1>1, <1>2, <1>3
<1>5. PICK n \in Free : \A j \in Free : n <= j
  BY <1>4, LeastOf
<1>6. \A j \in 1..n - 1 : After(j) \in DOMAIN forks
  BY <1>1, <1>5
<1> DEFINE m == CHOOSE i \in 1..LastRef :
             /\ After(i) \notin DOMAIN forks
             /\ \A j \in 1..i - 1 : After(j) \in DOMAIN forks
<1>7. m \in 1..LastRef /\ After(m) \notin DOMAIN forks
  BY <1>5, <1>6
<1>8. NewForkRef = After(m)
  BY DEF NewForkRef, After
<1> HIDE DEF m
<1>9. After(m) \in 1..LastRef
  BY <1>1, <1>7 DEF After
<1> QED BY <1>7, <1>8, <1>9

-----------------------------------------------------------------------------
(* Forks and the copies of the resource forks.                             *)

\* Who has a copy.
Holders(fk, x) == {r \in DOMAIN fk : fk[r].resource /\ fk[r].copy = x}

\* A copy counts those who have it, and the one a file is said to have is a
\* copy of it.
Held(fk, rs, cp) ==
  /\ DOMAIN fk \subseteq 1..LastRef /\ DOMAIN cp \subseteq 1..LastRef
  /\ DOMAIN rs \subseteq Path
  /\ \A r \in DOMAIN fk :
       /\ {"session", "rel", "resource", "copy", "file"} \subseteq DOMAIN fk[r]
       /\ fk[r].resource \in BOOLEAN
       /\ fk[r].resource => fk[r].copy \in DOMAIN cp
  /\ \A x \in DOMAIN cp :
       /\ {"rel", "users"} \subseteq DOMAIN cp[x]
       /\ cp[x].users = Cardinality(Holders(fk, x))
  /\ \A p \in DOMAIN rs : rs[p] \in DOMAIN cp /\ cp[rs[p]].rel = p

\* The same copies but for what is in them.
SameCopies(cp, new) ==
  /\ DOMAIN new = DOMAIN cp
  /\ \A x \in DOMAIN cp : {"rel", "users"} \subseteq DOMAIN cp[x] =>
       /\ {"rel", "users"} \subseteq DOMAIN new[x]
       /\ new[x].rel = cp[x].rel /\ new[x].users = cp[x].users

LEMMA HeldFinite ==
  ASSUME NEW fk, DOMAIN fk \subseteq 1..LastRef
  PROVE  /\ IsFiniteSet(DOMAIN fk)
         /\ \A x : IsFiniteSet(Holders(fk, x)) /\ Cardinality(Holders(fk, x)) \in Nat
<1>1. LastRef \in Nat
  BY VolumeAssumption
<1>2. IsFiniteSet(1..LastRef)
  BY <1>1, FS_Interval
<1>3. IsFiniteSet(DOMAIN fk)
  BY <1>2, FS_Subset
<1>4. ASSUME NEW x PROVE IsFiniteSet(Holders(fk, x))
  BY <1>3, FS_Subset DEF Holders
<1> QED BY <1>3, <1>4, FS_CardinalityType

LEMMA SameHeld ==
  ASSUME NEW fk, NEW rs, NEW cp, NEW new, Held(fk, rs, cp), SameCopies(cp, new)
  PROVE  Held(fk, rs, new)
  BY DEF Held, SameCopies

\* The forks, the files' copies and the copies of a state that forks are
\* closed in.
Parts(open) == {"forks", "resources", "copies", "side", "truth"} \subseteq DOMAIN open

HeldIn(open) == Parts(open) /\ Held(open.forks, open.resources, open.copies)

LEMMA FlushedHeld ==
  ASSUME NEW open, NEW x, NEW outcome, Parts(open)
  PROVE  LET done == Flushed(open, x, outcome) IN
         /\ Parts(done) /\ done.forks = open.forks /\ done.resources = open.resources
         /\ SameCopies(open.copies, done.copies)
<1> DEFINE copy == open.copies[x]
           result == Allowed(copy.rel, outcome)
           meta == [MetaIn(open.side, copy.rel) EXCEPT !.resource = copy.data]
           sides == MetaWritten(open.side, copy.rel, meta, result)
           clean == [open.copies EXCEPT ![x].dirty = result # "written"]
           told == [p \in DOMAIN open.truth |->
                      IF p = copy.rel /\ result # "written"
                      THEN [open.truth[p] EXCEPT !.own = FALSE] ELSE open.truth[p]]
           done == [open EXCEPT !.side = sides, !.copies = clean, !.truth = told]
<1>1. Flushed(open, x, outcome) = open \/ Flushed(open, x, outcome) = done
  BY DEF Flushed
<1>2. SameCopies(open.copies, clean)
  <2> DEFINE was == open.copies
             is == result # "written"
  <2>1. clean = [was EXCEPT ![x].dirty = is]
    OBVIOUS
  <2> HIDE DEF was, is, clean
  <2> SUFFICES SameCopies(was, clean)
    BY DEF was
  <2> QED BY <2>1 DEF SameCopies
<1> HIDE DEF copy, result, meta, told, sides, clean
<1>3. Parts(done) /\ done.forks = open.forks /\ done.resources = open.resources
      /\ done.copies = clean
  BY DEF Parts
<1> HIDE DEF done
<1>4. SameCopies(open.copies, open.copies)
  BY DEF SameCopies
<1> QED BY <1>1, <1>2, <1>3, <1>4

\* A fork less.
Fewer(fk, ref) == [r \in DOMAIN fk \ {ref} |-> fk[r]]

LEMMA ClosedHeld ==
  ASSUME NEW open, HeldIn(open), NEW ref \in DOMAIN open.forks, NEW outcome
  PROVE  LET done == Closed(open, ref, outcome) IN
         HeldIn(done) /\ done.forks = Fewer(open.forks, ref)
<1> DEFINE f == open.forks[ref]
           few == Fewer(open.forks, ref)
           left == [open EXCEPT !.forks = few]
           flushed == Flushed(left, f.copy, outcome)
           x == f.copy
           cp == flushed.copies
           rs == flushed.resources
           less == [cp EXCEPT ![x].users = @ - 1]
           one == [flushed EXCEPT !.copies = less]
           rs0 == [p \in DOMAIN rs \ {cp[x].rel} |-> rs[p]]
           cp0 == [y \in DOMAIN cp \ {x} |-> cp[y]]
           none == [flushed EXCEPT !.resources = rs0, !.copies = cp0]
<1>1. Closed(open, ref, outcome) =
        IF ~f.resource THEN left ELSE IF cp[x].users > 1 THEN one ELSE none
  BY DEF Closed, Fewer
<1>2. Parts(left) /\ left.forks = few /\ left.resources = open.resources
      /\ left.copies = open.copies
  BY DEF HeldIn, Parts
<1> HIDE DEF left
<1>3. /\ Parts(flushed) /\ flushed.forks = few /\ rs = open.resources
      /\ SameCopies(open.copies, cp)
  BY <1>2, FlushedHeld
<1> HIDE DEF flushed
<1> DEFINE fk == open.forks
<1>4. Held(fk, rs, cp)
  BY <1>3, SameHeld DEF HeldIn
<1>5. f = fk[ref] /\ ref \in DOMAIN fk
  OBVIOUS
<1>6. /\ DOMAIN few = DOMAIN fk \ {ref}
      /\ \A r \in DOMAIN few : few[r] = fk[r]
  BY DEF Fewer
<1>7. \A y : Holders(few, y) = Holders(fk, y) \ {ref}
  BY <1>6 DEF Holders
<1>8. /\ \A y : IsFiniteSet(Holders(fk, y)) /\ Cardinality(Holders(fk, y)) \in Nat
  BY <1>4, HeldFinite DEF Held
<1>9. ASSUME ~f.resource PROVE Held(few, open.resources, open.copies)
  <2>1. \A y : Holders(few, y) = Holders(fk, y)
    BY <1>5, <1>7, <1>9 DEF Holders
  <2>2. Held(fk, open.resources, open.copies)
    BY DEF HeldIn
  <2> HIDE DEF few, fk, f
  <2> QED BY <1>6, <2>1, <2>2 DEF Held
<1>10. ASSUME f.resource
       PROVE  /\ x \in DOMAIN cp /\ {"rel", "users"} \subseteq DOMAIN cp[x]
              /\ Cardinality(Holders(few, x)) = cp[x].users - 1
              /\ cp[x].users \in Nat
              /\ \A y : y # x => Holders(few, y) = Holders(fk, y)
  <2>1. x \in DOMAIN cp /\ {"rel", "users"} \subseteq DOMAIN cp[x]
        /\ cp[x].users = Cardinality(Holders(fk, x))
    BY <1>4, <1>5, <1>10 DEF Held
  <2>2. ref \in Holders(fk, x)
    BY <1>5, <1>10 DEF Holders
  <2>3. Cardinality(Holders(few, x)) = Cardinality(Holders(fk, x)) - 1
    BY <1>7, <1>8, <2>2, FS_RemoveElement
  <2>4. \A y : y # x => Holders(few, y) = Holders(fk, y)
    BY <1>5, <1>7 DEF Holders
  <2> HIDE DEF few, fk, f, x, cp
  <2> QED BY <1>8, <2>1, <2>3, <2>4
<1> HIDE DEF few, f, fk, cp, rs, x
<1>11. ASSUME f.resource, cp[x].users > 1
       PROVE  Held(few, rs, less)
  <2>1. /\ DOMAIN less = DOMAIN cp
        /\ \A y \in DOMAIN cp : y # x => less[y] = cp[y]
        /\ DOMAIN less[x] = DOMAIN cp[x] /\ less[x].users = cp[x].users - 1
        /\ less[x].rel = cp[x].rel
    BY <1>10, <1>11
  <2> HIDE DEF less
  <2>2. \A y \in DOMAIN less :
          /\ {"rel", "users"} \subseteq DOMAIN less[y] /\ less[y].rel = cp[y].rel
          /\ less[y].users = Cardinality(Holders(few, y))
    <3> SUFFICES ASSUME NEW y \in DOMAIN less
                 PROVE  /\ {"rel", "users"} \subseteq DOMAIN less[y] /\ less[y].rel = cp[y].rel
                        /\ less[y].users = Cardinality(Holders(few, y))
      OBVIOUS
    <3>1. {"rel", "users"} \subseteq DOMAIN cp[y] /\ cp[y].users = Cardinality(Holders(fk, y))
      BY <1>4, <2>1 DEF Held
    <3>2. CASE y = x
      BY <1>10, <1>11, <2>1, <3>1, <3>2
    <3>3. CASE y # x
      BY <1>10, <1>11, <2>1, <3>1, <3>3
    <3> QED BY <3>2, <3>3
  <2>3. /\ DOMAIN few \subseteq 1..LastRef /\ DOMAIN less \subseteq 1..LastRef
        /\ DOMAIN rs \subseteq Path
        /\ \A p \in DOMAIN rs : rs[p] \in DOMAIN less /\ less[rs[p]].rel = p
    BY <1>4, <1>6, <2>1, <2>2 DEF Held
  <2>4. \A r \in DOMAIN few :
          /\ {"session", "rel", "resource", "copy", "file"} \subseteq DOMAIN few[r]
          /\ few[r].resource \in BOOLEAN
          /\ few[r].resource => few[r].copy \in DOMAIN less
    BY <1>4, <1>6, <2>1 DEF Held
  <2> QED BY <2>2, <2>3, <2>4 DEF Held
<1>12. ASSUME f.resource, ~(cp[x].users > 1)
       PROVE  Held(few, rs0, cp0)
  <2>1. /\ DOMAIN cp0 = DOMAIN cp \ {x} /\ \A y \in DOMAIN cp0 : cp0[y] = cp[y]
        /\ DOMAIN rs0 = DOMAIN rs \ {cp[x].rel} /\ \A p \in DOMAIN rs0 : rs0[p] = rs[p]
    OBVIOUS
  <2> HIDE DEF rs0, cp0
  <2>2. Holders(few, x) = {}
    <3>1. IsFiniteSet(Holders(few, x)) /\ Cardinality(Holders(few, x)) \in Nat
      <4>1. DOMAIN few \subseteq 1..LastRef
        BY <1>4, <1>6 DEF Held
      <4> QED BY <4>1, HeldFinite
    <3>2. Cardinality(Holders(few, x)) = 0
      BY <1>10, <1>12, <3>1
    <3> QED BY <3>1, <3>2, FS_EmptySet
  <2>3. \A r \in DOMAIN few : few[r].resource => few[r].copy # x
    BY <2>2 DEF Holders
  <2>4. \A p \in DOMAIN rs0 : rs0[p] \in DOMAIN cp0 /\ cp0[rs0[p]].rel = p
    BY <1>4, <2>1 DEF Held
  <2>5. \A y \in DOMAIN cp0 :
          /\ {"rel", "users"} \subseteq DOMAIN cp0[y]
          /\ cp0[y].users = Cardinality(Holders(few, y))
    <3> SUFFICES ASSUME NEW y \in DOMAIN cp0
                 PROVE  /\ {"rel", "users"} \subseteq DOMAIN cp0[y]
                        /\ cp0[y].users = Cardinality(Holders(few, y))
      OBVIOUS
    <3>1. {"rel", "users"} \subseteq DOMAIN cp[y] /\ cp[y].users = Cardinality(Holders(fk, y))
      BY <1>4, <2>1 DEF Held
    <3> QED BY <1>10, <1>12, <2>1, <3>1
  <2>6. /\ DOMAIN few \subseteq 1..LastRef /\ DOMAIN cp0 \subseteq 1..LastRef
        /\ DOMAIN rs0 \subseteq Path
    BY <1>4, <1>6, <2>1 DEF Held
  <2>7. \A r \in DOMAIN few :
          /\ {"session", "rel", "resource", "copy", "file"} \subseteq DOMAIN few[r]
          /\ few[r].resource \in BOOLEAN
          /\ few[r].resource => few[r].copy \in DOMAIN cp0
    BY <1>4, <1>6, <2>1, <2>3 DEF Held
  <2> QED BY <2>4, <2>5, <2>6, <2>7 DEF Held
<1>13. /\ Parts(one) /\ one.forks = few /\ one.resources = rs /\ one.copies = less
       /\ Parts(none) /\ none.forks = few /\ none.resources = rs0 /\ none.copies = cp0
  <2> HIDE DEF less, rs0, cp0
  <2>1. rs = flushed.resources
    BY DEF rs
  <2> QED BY <1>3, <2>1 DEF Parts
<1> HIDE DEF one, none, less, rs0, cp0
<1> QED BY <1>1, <1>2, <1>9, <1>11, <1>12, <1>13 DEF HeldIn, few

ForksIInv ==
  /\ Held(forks, resources, copies)
  /\ nextFork \in 0..LastRef
  /\ DOMAIN sessions = Sessions
  /\ \A r \in DOMAIN forks :
       forks[r].session \in Sessions /\ sessions[forks[r].session] # "closed"

LEMMA ForksStay ==
  ASSUME ForksIInv, UNCHANGED <<forks, resources, copies, nextFork, sessions>>
  PROVE  ForksIInv'
  BY DEF ForksIInv

\* The same forks, and the same copies of them but for what is in them.
LEMMA ForksTheSame ==
  ASSUME ForksIInv, UNCHANGED <<forks, resources, nextFork, sessions>>, SameCopies(copies, copies')
  PROVE  ForksIInv'
<1>1. Held(forks, resources, copies')
  BY SameHeld DEF ForksIInv
<1> QED BY <1>1 DEF ForksIInv

LEMMA OpenForkForks ==
  ASSUME NumbersIInv, ForksIInv, NEW s \in Sessions, NEW asked \in Asked,
         NEW resource \in BOOLEAN, NEW access, OpenFork(s, asked, resource, access)
  PROVE  ForksIInv'
<1> DEFINE at == Resolve(asked)
           rel == Rel(at)
           copy == IF Shared(rel) # None THEN Shared(rel) ELSE FreeCopy
           fresh == [rel |-> rel, data |-> Metadata(rel).resource, dirty |-> FALSE, users |-> 0]
           open == [session |-> s, rel |-> rel, resource |-> resource, access |-> access,
                    copy |-> IF resource THEN copy ELSE 0, file |-> rel]
           had == IF copy \in DOMAIN copies THEN copies[copy] ELSE fresh
           has == [had EXCEPT !.users = @ + 1]
           ref == NewForkRef
<1>1. CASE Refused(at)
  BY <1>1, ForksStay DEF Refused, OnlyNumbers, forkVars
<1>2. CASE ~Refused(at)
  <2>1. /\ sessions[s] = "in" /\ sessions' = sessions
        /\ DOMAIN forks # 1..LastRef /\ (resource => DOMAIN copies # 1..LastRef)
        /\ Exists(at) /\ nextFork' = ref /\ forks' = With(forks, ref, open)
        /\ IF resource
           THEN resources' = With(resources, rel, copy) /\ copies' = With(copies, copy, has)
           ELSE resources' = resources /\ copies' = copies
    BY <1>2 DEF OpenFork
  <2>2. rel \in Path
    BY <2>1, ResolveIs, RelIs DEF NumbersIInv
  <2> HIDE DEF at, rel
  <2>3. ref \in 1..LastRef /\ ref \notin DOMAIN forks
    BY <2>1, NewForkRefIs DEF ForksIInv, Held
  <2> HIDE DEF ref
  <2>4. /\ DOMAIN open = {"session", "rel", "resource", "access", "copy", "file"}
        /\ open.session = s /\ open.resource = resource
        /\ open.copy = IF resource THEN copy ELSE 0
    <3> HIDE DEF copy
    <3> QED OBVIOUS
  <2>5. resource => /\ copy \in 1..LastRef
                    /\ {"rel", "users"} \subseteq DOMAIN had /\ had.rel = rel
                    /\ had.users = Cardinality(Holders(forks, copy))
    <3> SUFFICES ASSUME resource
                 PROVE  /\ copy \in 1..LastRef
                        /\ {"rel", "users"} \subseteq DOMAIN had /\ had.rel = rel
                        /\ had.users = Cardinality(Holders(forks, copy))
      OBVIOUS
    <3>1. Held(forks, resources, copies)
      BY DEF ForksIInv
    <3>2. CASE Shared(rel) # None
      <4>1. copy = resources[rel] /\ rel \in DOMAIN resources
        BY <3>2 DEF Shared
      <4> HIDE DEF copy, fresh
      <4>2. copy \in DOMAIN copies /\ copies[copy].rel = rel
        BY <3>1, <4>1 DEF Held
      <4> QED BY <3>1, <4>2 DEF Held
    <3>3. CASE Shared(rel) = None
      <4>1. copy = FreeCopy
        BY <3>3
      <4>2. DOMAIN copies \subseteq 1..LastRef /\ DOMAIN copies # 1..LastRef
        BY <2>1, <3>1 DEF Held
      <4>3. FreeCopy \in 1..LastRef /\ FreeCopy \notin DOMAIN copies
        BY <4>2 DEF FreeCopy
      <4> HIDE DEF copy
      <4>4. copy \in 1..LastRef /\ copy \notin DOMAIN copies
        BY <4>1, <4>3
      <4>5. Holders(forks, copy) = {}
        BY <3>1, <4>4 DEF Held, Holders
      <4>6. had = fresh
        BY <4>4
      <4>7. Cardinality(Holders(forks, copy)) = 0
        BY <4>5, FS_EmptySet
      <4> QED BY <4>4, <4>6, <4>7
    <3> QED BY <3>2, <3>3
  <2>6. resource => /\ {"rel", "users"} \subseteq DOMAIN has /\ has.rel = rel
                    /\ has.users = Cardinality(Holders(forks, copy)) + 1
    <3> HIDE DEF had, copy
    <3> QED BY <2>5
  <2> HIDE DEF copy, has, open
  <2>7. /\ DOMAIN forks' = {ref} \cup DOMAIN forks /\ forks'[ref] = open
        /\ \A r \in DOMAIN forks : forks'[r] = forks[r]
    BY <2>1, <2>3 DEF With
  <2>8. \A x : Holders(forks', x) = IF resource /\ x = copy THEN Holders(forks, x) \cup {ref}
                                   ELSE Holders(forks, x)
    BY <2>3, <2>4, <2>7 DEF Holders
  <2>9. Cardinality(Holders(forks, copy) \cup {ref}) = Cardinality(Holders(forks, copy)) + 1
    <3>1. DOMAIN forks \subseteq 1..LastRef
      BY DEF ForksIInv, Held
    <3>2. IsFiniteSet(Holders(forks, copy))
      BY <3>1, HeldFinite
    <3>3. ref \notin Holders(forks, copy)
      BY <2>3 DEF Holders
    <3> QED BY <3>2, <3>3, FS_AddElement
  <2>10. /\ DOMAIN copies' = IF resource THEN {copy} \cup DOMAIN copies ELSE DOMAIN copies
         /\ resource => copies'[copy] = has
         /\ \A x \in DOMAIN copies : (resource => x # copy) => copies'[x] = copies[x]
    <3>1. CASE resource
      BY <2>1, <3>1 DEF With
    <3>2. CASE ~resource
      BY <2>1, <3>2
    <3> QED BY <3>1, <3>2
  <2>11. /\ DOMAIN resources' = IF resource THEN {rel} \cup DOMAIN resources ELSE DOMAIN resources
         /\ resource => resources'[rel] = copy
         /\ \A p \in DOMAIN resources : (resource => p # rel) => resources'[p] = resources[p]
    <3>1. CASE resource
      BY <2>1, <3>1 DEF With
    <3>2. CASE ~resource
      BY <2>1, <3>2
    <3> QED BY <3>1, <3>2
  <2>12. Held(forks, resources, copies)
    BY DEF ForksIInv
  <2>13. Held(forks', resources', copies')
    <3>1. /\ DOMAIN forks' \subseteq 1..LastRef /\ DOMAIN copies' \subseteq 1..LastRef
          /\ DOMAIN resources' \subseteq Path
      BY <2>2, <2>3, <2>5, <2>7, <2>10, <2>11, <2>12 DEF Held
    <3>2. \A r \in DOMAIN forks' :
            /\ {"session", "rel", "resource", "copy", "file"} \subseteq DOMAIN forks'[r]
            /\ forks'[r].resource \in BOOLEAN
            /\ forks'[r].resource => forks'[r].copy \in DOMAIN copies'
      BY <2>4, <2>7, <2>10, <2>12 DEF Held
    <3>3. ASSUME NEW x \in DOMAIN copies'
          PROVE  /\ {"rel", "users"} \subseteq DOMAIN copies'[x]
                 /\ copies'[x].users = Cardinality(Holders(forks', x))
      <4>1. CASE resource /\ x = copy
        BY <2>6, <2>8, <2>9, <2>10, <4>1
      <4>2. CASE ~(resource /\ x = copy)
        <5>1. x \in DOMAIN copies /\ copies'[x] = copies[x]
          BY <2>10, <4>2
        <5>2. Holders(forks', x) = Holders(forks, x)
          BY <2>8, <4>2
        <5> QED BY <2>12, <5>1, <5>2 DEF Held
      <4> QED BY <4>1, <4>2
    <3>4. ASSUME NEW p \in DOMAIN resources'
          PROVE  resources'[p] \in DOMAIN copies' /\ copies'[resources'[p]].rel = p
      <4>1. CASE resource /\ p = rel
        BY <2>6, <2>10, <2>11, <4>1
      <4>2. CASE ~(resource /\ p = rel)
        <5>1. p \in DOMAIN resources /\ resources'[p] = resources[p]
          BY <2>11, <4>2
        <5>2. resources[p] \in DOMAIN copies /\ copies[resources[p]].rel = p
          BY <2>12, <5>1 DEF Held
        <5>3. CASE resource /\ resources[p] = copy
          BY <2>6, <2>5, <2>10, <4>2, <5>1, <5>2, <5>3 DEF had
        <5>4. CASE ~(resource /\ resources[p] = copy)
          BY <2>10, <5>1, <5>2, <5>4
        <5> QED BY <5>3, <5>4
      <4> QED BY <4>1, <4>2
    <3> QED BY <3>1, <3>2, <3>3, <3>4 DEF Held
  <2>14. \A r \in DOMAIN forks' :
           forks'[r].session \in Sessions /\ sessions'[forks'[r].session] # "closed"
    BY <2>1, <2>4, <2>7 DEF ForksIInv
  <2> QED BY <2>1, <2>3, <2>13, <2>14 DEF ForksIInv
<1> QED BY <1>1, <1>2

\* Forks that have another path or another file, and are else the same.
SameForks(fk, new) ==
  /\ DOMAIN new = DOMAIN fk
  /\ \A r \in DOMAIN fk :
       /\ DOMAIN new[r] = DOMAIN fk[r]
       /\ \A field \in DOMAIN fk[r] \ {"rel", "file"} : new[r][field] = fk[r][field]

LEMMA SameForksHeld ==
  ASSUME NEW fk, NEW new, NEW rs, NEW cp, Held(fk, rs, cp), SameForks(fk, new)
  PROVE  /\ Held(new, rs, cp)
         /\ \A r \in DOMAIN fk : new[r].session = fk[r].session
<1>1. \A r \in DOMAIN fk : /\ DOMAIN new[r] = DOMAIN fk[r]
                          /\ new[r].session = fk[r].session
                          /\ new[r].resource = fk[r].resource
                          /\ new[r].copy = fk[r].copy
  BY DEF Held, SameForks
<1>2. DOMAIN new = DOMAIN fk
  BY DEF SameForks
<1>3. \A x : Holders(new, x) = Holders(fk, x)
  BY <1>1, <1>2 DEF Holders
<1> QED BY <1>1, <1>2, <1>3 DEF Held

LEMMA MovedForksSame ==
  ASSUME NEW from, NEW to
  PROVE  SameForks(forks, MovedForks(from, to))
<1> DEFINE toRel(f) == IF IsPrefix(from, f.rel) THEN Gone(f.rel, from, to) ELSE f.rel
           toFile(f) == IF f.file \in {None, to} THEN None
                        ELSE IF IsPrefix(from, f.file) THEN Gone(f.file, from, to) ELSE f.file
           new == MovedForks(from, to)
<1>1. new = [r \in DOMAIN forks |->
               [forks[r] EXCEPT !.rel = toRel(forks[r]), !.file = toFile(forks[r])]]
  BY DEF MovedForks
<1> HIDE DEF new, toRel, toFile
<1>2. ASSUME NEW r \in DOMAIN forks
      PROVE  /\ DOMAIN new[r] = DOMAIN forks[r]
             /\ \A field \in DOMAIN forks[r] \ {"rel", "file"} : new[r][field] = forks[r][field]
  <2> DEFINE f == forks[r]
             a == toRel(f)
             b == toFile(f)
  <2>1. new[r] = [f EXCEPT !.rel = a, !.file = b]
    BY <1>1
  <2> HIDE DEF f, a, b
  <2>2. /\ DOMAIN new[r] = DOMAIN f
        /\ \A field \in DOMAIN f \ {"rel", "file"} : new[r][field] = f[field]
    BY <2>1
  <2> QED BY <2>2 DEF f
<1> QED BY <1>1, <1>2 DEF SameForks, new

LEMMA MovedHeld ==
  ASSUME NEW from \in Path, NEW to \in Path, Held(forks, resources, copies)
  PROVE  Held(forks, Relocated(resources, from, to), MovedCopies(from, to))
<1> DEFINE rs == Relocated(resources, from, to)
           cp == MovedCopies(from, to)
           with(x) == \E p \in DOMAIN resources : resources[p] = x /\ IsPrefix(from, p)
<1>1. /\ DOMAIN cp = DOMAIN copies
      /\ \A x \in DOMAIN copies : with(x) =>
           cp[x] = [copies[x] EXCEPT !.rel = Gone(@, from, to)]
      /\ \A x \in DOMAIN copies : ~with(x) => cp[x] = copies[x]
  BY DEF MovedCopies
<1>2. DOMAIN resources \subseteq Path
  BY DEF Held
<1>3. MovedThere(resources, rs, from, to) /\ NoOther(resources, rs, from, to)
  BY <1>2, RelocatedIs
<1> HIDE DEF rs, cp
<1>4. ASSUME NEW x \in DOMAIN copies
      PROVE  /\ DOMAIN cp[x] = DOMAIN copies[x]
             /\ cp[x].users = copies[x].users
             /\ cp[x].rel = IF with(x) THEN Gone(copies[x].rel, from, to) ELSE copies[x].rel
  <2> HIDE DEF with
  <2> DEFINE old == copies[x]
             there == Gone(old.rel, from, to)
  <2>1. with(x) => cp[x] = [old EXCEPT !.rel = there]
    BY <1>1
  <2>2. {"rel", "users"} \subseteq DOMAIN old
    BY DEF Held
  <2>3. ~with(x) => cp[x] = old
    BY <1>1
  <2> HIDE DEF old, there
  <2>4. /\ DOMAIN cp[x] = DOMAIN old /\ cp[x].users = old.users
        /\ cp[x].rel = IF with(x) THEN there ELSE old.rel
    BY <2>1, <2>2, <2>3
  <2> QED BY <2>4 DEF old, there
<1>5. ASSUME NEW p \in DOMAIN rs
      PROVE  p \in Path /\ rs[p] \in DOMAIN cp /\ cp[rs[p]].rel = p
  <2>1. CASE \E q \in DOMAIN resources :
               IsPrefix(from, q) /\ p = Gone(q, from, to) /\ rs[p] = resources[q]
    <3>1. PICK q \in DOMAIN resources :
               IsPrefix(from, q) /\ p = Gone(q, from, to) /\ rs[p] = resources[q]
      BY <2>1
    <3>2. resources[q] \in DOMAIN copies /\ copies[resources[q]].rel = q
      BY DEF Held
    <3>3. with(rs[p])
      BY <3>1
    <3>4. Gone(q, from, to) \in Path
      BY <1>2, <3>1, GoneIs
    <3> QED BY <1>1, <1>4, <3>1, <3>2, <3>3, <3>4
  <2>2. CASE p \in DOMAIN resources /\ ~IsPrefix(from, p) /\ rs[p] = resources[p]
    <3>1. resources[p] \in DOMAIN copies /\ copies[resources[p]].rel = p
      BY <2>2 DEF Held
    <3>2. ~with(rs[p])
      <4> SUFFICES ASSUME NEW q \in DOMAIN resources, resources[q] = rs[p], IsPrefix(from, q)
                   PROVE  FALSE
        OBVIOUS
      <4>1. copies[resources[q]].rel = q
        BY DEF Held
      <4> QED BY <2>2, <3>1, <4>1
    <3> QED BY <1>1, <1>2, <1>4, <2>2, <3>1, <3>2
  <2> QED BY <1>3, <2>1, <2>2 DEF NoOther
<1> HIDE DEF with
<1>6. Held(forks, rs, cp)
  BY <1>1, <1>4, <1>5 DEF Held
<1> QED BY <1>6 DEF rs, cp

LEMMA MoveForks ==
  ASSUME ForksIInv, NEW numbers, NEW history, NEW rel \in Path, NEW folder \in Path, NEW name,
         name.of \in Names, Move(numbers, history, rel, folder, name)
  PROVE  ForksIInv'
<1> DEFINE to == NewRel(folder, name)
<1>1. to \in Path
  BY NewRelIs
<1>2. /\ nextFork' = nextFork /\ sessions' = sessions
      /\ \/ UNCHANGED <<forks, resources, copies>>
         \/ /\ forks' = MovedForks(rel, to) /\ copies' = MovedCopies(rel, to)
            /\ resources' = Relocated(resources, rel, to)
  BY DEF Move, forkVars
<1> HIDE DEF to
<1>3. CASE UNCHANGED <<forks, resources, copies>>
  BY <1>2, <1>3, ForksStay
<1>4. CASE /\ forks' = MovedForks(rel, to) /\ copies' = MovedCopies(rel, to)
           /\ resources' = Relocated(resources, rel, to)
  <2>1. Held(forks, resources', copies')
    BY <1>1, <1>4, MovedHeld DEF ForksIInv
  <2>2. SameForks(forks, forks')
    BY <1>4, MovedForksSame
  <2>3. /\ Held(forks', resources', copies')
        /\ \A r \in DOMAIN forks : forks'[r].session = forks[r].session
    BY <2>1, <2>2, SameForksHeld
  <2> QED BY <1>2, <2>2, <2>3 DEF ForksIInv, SameForks
<1> QED BY <1>2, <1>3, <1>4

LEMMA ChangedForks ==
  ASSUME ForksIInv, NEW ref, NEW data, Changed(ref, data)
  PROVE  ForksIInv'
<1> DEFINE x == forks[ref].copy
<1>1. /\ UNCHANGED <<forks, resources, nextFork, sessions>>
      /\ copies' = copies \/ copies' = [copies EXCEPT ![x].data = data, ![x].dirty = TRUE]
  BY DEF Changed
<1> HIDE DEF x
<1>2. SameCopies(copies, copies')
  BY <1>1 DEF SameCopies
<1> QED BY <1>1, <1>2, ForksTheSame

LEMMA HostTakesForks ==
  ASSUME ForksIInv, NEW rel, HostTakes(rel)
  PROVE  ForksIInv'
<1>1. /\ UNCHANGED <<resources, copies, nextFork, sessions>>
      /\ forks' = [r \in DOMAIN forks |->
                     [forks[r] EXCEPT !.file = IF @ = rel THEN None ELSE @]]
  BY DEF HostTakes
<1>2. SameForks(forks, forks')
  BY <1>1 DEF SameForks
<1>3. /\ Held(forks', resources, copies)
      /\ \A r \in DOMAIN forks : forks'[r].session = forks[r].session
  BY <1>2, SameForksHeld DEF ForksIInv
<1> QED BY <1>1, <1>2, <1>3 DEF ForksIInv, SameForks

LEMMA RenameForks ==
  ASSUME NumbersIInv, ForksIInv, NEW asked \in Asked, NEW name, Rename(asked, name)
  PROVE  ForksIInv'
<1> DEFINE at == Resolve(asked)
           rel == Rel(at)
           numbers == Resolved(ids, at)
           history == Stamped(truth, numbers, {rel})
<1>1. Placed(at) /\ name \in Names
  BY ResolveIs, VolumeAssumption DEF NumbersIInv, Rename
<1>2. \/ Refused(at)
      \/ /\ Exists(at) /\ rel # Root
         /\ Move(numbers, history, rel, ParentOf(rel), Plain(name))
  BY DEF Rename
<1> HIDE DEF at
<1>3. CASE Refused(at)
  BY <1>3, ForksStay DEF Refused, OnlyNumbers, forkVars
<1>4. CASE /\ Exists(at) /\ rel # Root
           /\ Move(numbers, history, rel, ParentOf(rel), Plain(name))
  <2>1. rel \in Path /\ ParentOf(rel) \in Path
    BY <1>1, <1>4, RelIs, ParentIsPath
  <2>2. Plain(name).of \in Names
    BY <1>1 DEF Plain
  <2> HIDE DEF rel, numbers, history
  <2> QED BY <1>4, <2>1, <2>2, MoveForks
<1> QED BY <1>2, <1>3, <1>4

LEMMA MoveAndRenameForks ==
  ASSUME NumbersIInv, ForksIInv, NEW asked \in Asked, NEW askedTo \in Asked, NEW name,
         MoveAndRename(asked, askedTo, name)
  PROVE  ForksIInv'
<1> DEFINE from == Resolve(asked)
           to == Resolve(askedTo)
           rel == Rel(from)
           folder == Rel(to)
           seen == Resolved(ids, from)
           numbers == IF Exists(from) THEN Resolved(seen, to) ELSE seen
           named == IF Exists(from) THEN Named(from) \cup Named(to) ELSE {}
           history == Stamped(truth, numbers, named)
           own == NameOf(ParentOf(rel), Last(rel))
           given == IF name = None THEN own ELSE Plain(name)
<1>1. Placed(from) /\ Placed(to) /\ name \in Names \cup {None}
  BY ResolveIs, VolumeAssumption DEF NumbersIInv, MoveAndRename
<1>2. \/ OnlyNumbers(numbers, named)
      \/ /\ Exists(from) /\ Exists(to) /\ rel # Root
         /\ Move(numbers, history, rel, folder, given)
  BY DEF MoveAndRename
<1> HIDE DEF from, to
<1>3. CASE OnlyNumbers(numbers, named)
  BY <1>3, ForksStay DEF OnlyNumbers, forkVars
<1>4. CASE /\ Exists(from) /\ Exists(to) /\ rel # Root
           /\ Move(numbers, history, rel, folder, given)
  <2>1. rel \in Path /\ folder \in Path
    BY <1>1, <1>4, RelIs
  <2>2. given.of \in Names
    <3>1. Last(rel) \in Names
      BY <1>4, <2>1, ParentIsPath
    <3> HIDE DEF rel
    <3>2. own.of \in Names
      BY <3>1 DEF NameOf, NameAmong
    <3>3. name # None => Plain(name).of \in Names
      BY <1>1 DEF Plain
    <3> HIDE DEF own
    <3> QED BY <3>2, <3>3
  <2> HIDE DEF given, rel, folder, numbers, history
  <2> QED BY <1>4, <2>1, <2>2, MoveForks
<1> QED BY <1>2, <1>3, <1>4

LEMMA OpenHeld == ForksIInv => HeldIn(Open)
  BY DEF ForksIInv, HeldIn, Parts, Open

\* A state like this one but for some of its forks.
LEMMA BecomesForks ==
  ASSUME ForksIInv, NEW open, HeldIn(open), DOMAIN open.forks \subseteq DOMAIN forks,
         \A r \in DOMAIN open.forks : open.forks[r] = forks[r],
         Becomes(open), sessions' = sessions
  PROVE  ForksIInv'
<1>1. /\ forks' = open.forks /\ resources' = open.resources /\ copies' = open.copies
      /\ nextFork' = nextFork
  BY DEF Becomes
<1> QED BY <1>1 DEF ForksIInv, HeldIn

LEMMA FlushForkForks ==
  ASSUME ForksIInv, NEW s, NEW ref, NEW outcome, FlushFork(s, ref, outcome)
  PROVE  ForksIInv'
<1> DEFINE done == Flushed(Open, forks[ref].copy, outcome)
<1>1. HeldIn(Open) /\ Open.forks = forks /\ Open.resources = resources /\ Open.copies = copies
  BY OpenHeld DEF Open
<1>2. /\ Parts(done) /\ done.forks = forks /\ done.resources = resources
      /\ SameCopies(copies, done.copies)
  BY <1>1, FlushedHeld DEF HeldIn
<1>3. (Becomes(done) \/ Becomes(Open)) /\ sessions' = sessions
  BY DEF FlushFork
<1> HIDE DEF done
<1>4. HeldIn(done)
  BY <1>1, <1>2, SameHeld DEF HeldIn
<1> QED BY <1>1, <1>2, <1>3, <1>4, BecomesForks

LEMMA CloseForkForks ==
  ASSUME ForksIInv, NEW s, NEW ref, NEW outcome, CloseFork(s, ref, outcome)
  PROVE  ForksIInv'
<1> DEFINE done == Closed(Open, ref, outcome)
<1>1. HeldIn(Open) /\ Open.forks = forks
  BY OpenHeld DEF Open
<1>2. Becomes(done) /\ sessions' = sessions /\ ref \in DOMAIN forks
  BY DEF CloseFork, Has
<1>3. HeldIn(done) /\ done.forks = Fewer(forks, ref)
  BY <1>1, <1>2, ClosedHeld
<1> HIDE DEF done
<1> QED BY <1>2, <1>3, BecomesForks DEF Fewer

\* The forks closed one after the other are all that is gone.
LEMMA AllClosedHeld ==
  ASSUME ForksIInv, NEW refs, NEW outcome, NEW n \in Nat, DOMAIN refs = 1..n,
         \A i \in 1..n : refs[i] \in DOMAIN forks,
         \A i, j \in 1..n : refs[i] = refs[j] => i = j
  PROVE  LET done == AllClosed(Open, refs, outcome) IN
         /\ HeldIn(done)
         /\ DOMAIN done.forks = DOMAIN forks \ {refs[i] : i \in 1..n}
         /\ \A r \in DOMAIN done.forks : done.forks[r] = forks[r]
<1>1. PICK w : ClosesOneByOne(w, Open, refs, outcome, n)
  BY AllClosedSteps
<1> DEFINE Good == {k \in 0..n :
             /\ HeldIn(w[k])
             /\ DOMAIN w[k].forks = DOMAIN forks \ {refs[i] : i \in 1..k}
             /\ \A r \in DOMAIN w[k].forks : w[k].forks[r] = forks[r]}
<1>2. 0 \in Good
  <2>1. w[0] = Open
    BY <1>1 DEF ClosesOneByOne
  <2>2. HeldIn(Open) /\ Open.forks = forks
    BY OpenHeld DEF Open
  <2>3. {refs[i] : i \in 1..0} = {}
    OBVIOUS
  <2> QED BY <2>1, <2>2, <2>3
<1>3. ASSUME NEW k \in 1..n, k - 1 \in Good PROVE k \in Good
  <2> DEFINE a == w[k - 1]
             b == w[k]
  <2>1. /\ HeldIn(a) /\ DOMAIN a.forks = DOMAIN forks \ {refs[i] : i \in 1..k - 1}
        /\ \A r \in DOMAIN a.forks : a.forks[r] = forks[r]
    BY <1>3
  <2>2. b = Closed(a, refs[k], outcome)
    BY <1>1 DEF ClosesOneByOne
  <2> HIDE DEF a, b, Good
  <2>3. refs[k] \in DOMAIN a.forks
    BY <2>1
  <2>4. HeldIn(b) /\ b.forks = Fewer(a.forks, refs[k])
    BY <2>1, <2>2, <2>3, ClosedHeld
  <2>5. {refs[i] : i \in 1..k} = {refs[i] : i \in 1..k - 1} \cup {refs[k]}
    OBVIOUS
  <2>6. /\ DOMAIN b.forks = DOMAIN forks \ {refs[i] : i \in 1..k}
        /\ \A r \in DOMAIN b.forks : b.forks[r] = forks[r]
    BY <2>1, <2>4, <2>5 DEF Fewer
  <2> QED BY <2>4, <2>6 DEF b, Good
<1>4. Good \in SUBSET (0..n)
  OBVIOUS
<1> HIDE DEF Good
<1>5. n \in Good
  BY <1>2, <1>3, <1>4, HoldsAtLast
<1>6. AllClosed(Open, refs, outcome) = w[n]
  BY <1>1 DEF ClosesOneByOne
<1> QED BY <1>5, <1>6 DEF Good

LEMMA CloseSessionForks ==
  ASSUME ForksIInv, NEW s \in Sessions, NEW outcome, CloseSession(s, outcome)
  PROVE  ForksIInv'
<1> DEFINE refs == SetToSeq(ForksOf(s))
           n == Cardinality(ForksOf(s))
           done == AllClosed(Open, refs, outcome)
<1>1. Becomes(done) /\ sessions' = [sessions EXCEPT ![s] = "closed"]
  BY DEF CloseSession, ForksOf
<1>2. IsFiniteSet(ForksOf(s))
  <2>1. IsFiniteSet(DOMAIN forks)
    BY HeldFinite DEF ForksIInv, Held
  <2> QED BY <2>1, FS_Subset DEF ForksOf
<1>3. /\ DOMAIN refs = 1..n /\ n \in Nat
      /\ \A x \in ForksOf(s) : \E i \in 1..n : refs[i] = x
      /\ \A i \in 1..n : refs[i] \in ForksOf(s)
      /\ \A i, j \in 1..n : refs[i] = refs[j] => i = j
  BY <1>2, InSeq
<1> HIDE DEF refs, n
<1>4. \A i \in 1..n : refs[i] \in DOMAIN forks
  BY <1>3 DEF ForksOf
<1>5. /\ HeldIn(done)
      /\ DOMAIN done.forks = DOMAIN forks \ {refs[i] : i \in 1..n}
      /\ \A r \in DOMAIN done.forks : done.forks[r] = forks[r]
  BY <1>3, <1>4, AllClosedHeld
<1> HIDE DEF done
<1>6. /\ forks' = done.forks /\ resources' = done.resources /\ copies' = done.copies
      /\ nextFork' = nextFork
  BY <1>1 DEF Becomes
<1>7. ASSUME NEW r \in DOMAIN forks'
      PROVE  forks'[r].session \in Sessions /\ sessions'[forks'[r].session] # "closed"
  <2>1. r \in DOMAIN forks /\ r \notin ForksOf(s) /\ forks'[r] = forks[r]
    BY <1>3, <1>5, <1>6
  <2> QED BY <1>1, <2>1 DEF ForksOf, ForksIInv
<1> QED BY <1>1, <1>5, <1>6, <1>7 DEF ForksIInv, HeldIn

LEMMA SessionForks ==
  ASSUME ForksIInv, SessionCall
  PROVE  ForksIInv'
<1>1. ASSUME NEW s \in Sessions, OpenSession(s) \/ Login(s) \/ Logout(s)
      PROVE  ForksIInv'
  <2>1. /\ UNCHANGED <<forks, resources, copies, nextFork>>
        /\ sessions' = [sessions EXCEPT ![s] = "open"] \/ sessions' = [sessions EXCEPT ![s] = "in"]
    BY <1>1 DEF OpenSession, Login, Logout, forkVars
  <2> QED BY <2>1 DEF ForksIInv
<1>2. ASSUME NEW s \in Sessions, NEW outcome, CloseSession(s, outcome)
      PROVE  ForksIInv'
  BY <1>2, CloseSessionForks
<1> QED BY <1>1, <1>2 DEF SessionCall

LEMMA CatalogForks ==
  ASSUME NumbersIInv, ForksIInv, CatalogCall
  PROVE  ForksIInv'
<1>1. ASSUME NEW asked \in Asked, NEW name, Rename(asked, name)
      PROVE  ForksIInv'
  BY <1>1, RenameForks
<1>2. ASSUME NEW asked \in Asked, NEW to \in AskedTo, NEW name, MoveAndRename(asked, to, name)
      PROVE  ForksIInv'
  <2>1. to \in Asked
    BY VolumeAssumption
  <2> QED BY <1>2, <2>1, MoveAndRenameForks
<1>3. ASSUME NEW asked \in Asked,
             \/ GetFileDirParms(asked, TRUE)
             \/ OpenDir(asked)
             \/ \E kinds, start : Enumerate(asked, kinds, start, MostObjects)
      PROVE  ForksIInv'
  BY <1>3, ForksStay DEF GetFileDirParms, OpenDir, Enumerate, Refused, OnlyNumbers, forkVars
<1>4. ASSUME NEW asked \in Asked, NEW finder, NEW outcome, SetParms(asked, finder, outcome)
      PROVE  ForksIInv'
  BY <1>4, ForksStay DEF SetParms, Refused, OnlyNumbers, forkVars
<1>5. ASSUME NEW asked \in Asked, NEW hard, NEW outcome, CreateFile(asked, hard, outcome)
      PROVE  ForksIInv'
  BY <1>5, ForksStay DEF CreateFile, Refused, OnlyNumbers, forkVars
<1>6. ASSUME NEW asked \in Asked, CreateDir(asked)
      PROVE  ForksIInv'
  BY <1>6, ForksStay DEF CreateDir, Refused, OnlyNumbers, forkVars
<1>7. ASSUME NEW asked \in Asked, Delete(asked)
      PROVE  ForksIInv'
  BY <1>7, ForksStay DEF Delete, Refused, OnlyNumbers, forkVars
<1> QED BY <1>1, <1>2, <1>3, <1>4, <1>5, <1>6, <1>7 DEF CatalogCall

LEMMA ForkForks ==
  ASSUME NumbersIInv, ForksIInv, ForkCall
  PROVE  ForksIInv'
<1>1. ASSUME NEW s \in Sessions, NEW asked \in Asked, NEW resource \in BOOLEAN, NEW access,
             OpenFork(s, asked, resource, access)
      PROVE  ForksIInv'
  BY <1>1, OpenForkForks
<1>2. ASSUME NEW s, NEW ref, NEW offset, NEW fromEnd, NEW bytes,
             Write(s, ref, offset, fromEnd, bytes)
      PROVE  ForksIInv'
  BY <1>2, ChangedForks DEF Write
<1>3. ASSUME NEW s, NEW ref, NEW length, SetForkParms(s, ref, length)
      PROVE  ForksIInv'
  BY <1>3, ChangedForks DEF SetForkParms
<1>4. ASSUME NEW s, NEW ref, NEW outcome, FlushFork(s, ref, outcome) \/ CloseFork(s, ref, outcome)
      PROVE  ForksIInv'
  BY <1>4, FlushForkForks, CloseForkForks
<1> QED BY <1>1, <1>2, <1>3, <1>4 DEF ForkCall

LEMMA OtherForks ==
  ASSUME ForksIInv, DesktopCall \/ HostActs
  PROVE  ForksIInv'
<1>1. CASE OpenDT
  BY <1>1, ForksStay DEF OpenDT, forkVars
<1>2. ASSUME NEW asked, NEW creator, AddAPPL(asked, creator) \/ RemoveAPPL(asked, creator)
      PROVE  ForksIInv'
  BY <1>2, ForksStay DEF AddAPPL, RemoveAPPL, OnDesktop, Refused, OnlyNumbers, forkVars
<1>3. ASSUME NEW asked, NEW comment, AddComment(asked, comment)
      PROVE  ForksIInv'
  BY <1>3, ForksStay DEF AddComment, OnDesktop, Refused, OnlyNumbers, forkVars
<1>4. ASSUME NEW rel, HostTakes(rel)
      PROVE  ForksIInv'
  BY <1>4, HostTakesForks
<1>5. ASSUME NEW rel, NEW dir, NEW locked, NEW meta, HostMakes(rel, dir, locked, meta)
      PROVE  ForksIInv'
  BY <1>5, ForksStay DEF HostMakes, forkVars
<1> QED BY <1>1, <1>2, <1>3, <1>4, <1>5 DEF DesktopCall, HostActs

LEMMA InitForks ==
  ASSUME Init
  PROVE  ForksIInv
<1>1. /\ forks = <<>> /\ resources = <<>> /\ copies = <<>> /\ nextFork = 0
      /\ sessions = [s \in Sessions |-> "closed"]
  BY DEF Init, NobodyIn
<1>2. DOMAIN <<>> = {} /\ LastRef \in Nat
  BY VolumeAssumption
<1> QED BY <1>1, <1>2 DEF ForksIInv, Held

LEMMA NothingOpen == ForksIInv => NothingLeftOpen
  BY DEF ForksIInv, Held, Holders, NothingLeftOpen

-----------------------------------------------------------------------------
(* Lists of applications.                                                  *)

Entries == [creator : Appl, rel : Path]

Entry(creator, rel) == [creator |-> creator, rel |-> rel]

LEMMA OneMore ==
  ASSUME NEW S, NEW list \in Seq(S), NEW x \in S
  PROVE  /\ Append(list, x) \in Seq(S) /\ Len(Append(list, x)) = Len(list) + 1
         /\ ToSet(Append(list, x)) = ToSet(list) \cup {x}
<1> DEFINE more == Append(list, x)
<1>1. /\ more \in Seq(S) /\ Len(more) = Len(list) + 1 /\ Len(list) \in Nat
      /\ \A i \in 1..Len(list) : more[i] = list[i]
      /\ more[Len(list) + 1] = x
  BY AppendProperties, LenProperties
<1>2. DOMAIN more = 1..Len(list) + 1 /\ DOMAIN list = 1..Len(list)
  BY <1>1, LenProperties
<1> HIDE DEF more
<1>3. \A i \in 1..Len(list) + 1 : i \in 1..Len(list) \/ i = Len(list) + 1
  BY <1>1
<1>4. Len(list) + 1 \in 1..Len(list) + 1 /\ 1..Len(list) \subseteq 1..Len(list) + 1
  BY <1>1
<1>5. ToSet(more) = ToSet(list) \cup {x}
  BY <1>1, <1>2, <1>3, <1>4 DEF ToSet
<1> QED BY <1>1, <1>5 DEF more

SelectsOneByOne(w, list, wanted, n) ==
  /\ w[0] = <<>>
  /\ \A k \in 1..n : w[k] = IF list[k] \in wanted THEN Append(w[k - 1], list[k]) ELSE w[k - 1]
  /\ Selected(list, wanted) = w[n]

LEMMA SelectedSteps ==
  ASSUME NEW list, NEW wanted, NEW n \in Nat, DOMAIN list = 1..n
  PROVE  \E w : SelectsOneByOne(w, list, wanted, n)
<1> DEFINE One(x, y) == IF y \in wanted THEN Append(x, y) ELSE x
           IsFold(g) == g = [s \in SUBSET (1..n) |->
              IF s = {} THEN <<>> ELSE One(g[s \ {Max(s)}], list[Max(s)])]
           h == CHOOSE g : IsFold(g)
<1>1. Selected(list, wanted) = h[1..n]
  BY DEF Selected, FoldLeft, MapThenFoldSet
<1>2. PICK g : Folds(g, "select", wanted, <<>>, list, n)
  BY FoldExists
<1>3. \A x, y : Step("select", wanted, x, y) = One(x, y)
  BY DEF Step
<1>4. IsFold(g)
  BY <1>2, <1>3 DEF Folds
<1>5. IsFold(h)
  BY <1>4
<1> HIDE DEF h
<1>6. Folds(h, "select", wanted, <<>>, list, n)
  BY <1>3, <1>5 DEF Folds
<1>7. PICK w : Steps(w, "select", wanted, <<>>, list, n) /\ w[n] = h[1..n]
  BY <1>6, FoldSteps
<1> HIDE DEF One
<1>8. w[0] = <<>> /\ \A k \in 1..n : w[k] = One(w[k - 1], list[k])
  BY <1>3, <1>7 DEF Steps
<1> QED BY <1>1, <1>7, <1>8 DEF SelectsOneByOne, One

\* What is selected of a list is what of it is wanted.
LEMMA SelectedIs ==
  ASSUME NEW S, NEW list \in Seq(S), NEW wanted
  PROVE  /\ Selected(list, wanted) \in Seq(S)
         /\ Len(Selected(list, wanted)) <= Len(list)
         /\ ToSet(Selected(list, wanted)) = ToSet(list) \cap wanted
<1> DEFINE n == Len(list)
           Seen(k) == {list[i] : i \in 1..k}
<1>1. n \in Nat /\ DOMAIN list = 1..n /\ \A i \in 1..n : list[i] \in S
  BY LenProperties, ElementOfSeq
<1> HIDE DEF n
<1>2. PICK w : SelectsOneByOne(w, list, wanted, n)
  BY <1>1, SelectedSteps
<1> DEFINE Good == {k \in 0..n : /\ w[k] \in Seq(S) /\ Len(w[k]) <= k
                                 /\ ToSet(w[k]) = Seen(k) \cap wanted}
<1>3. 0 \in Good
  <2>1. w[0] = <<>>
    BY <1>2 DEF SelectsOneByOne
  <2>2. <<>> \in Seq(S) /\ Len(<<>>) = 0 /\ ToSet(<<>>) = {}
    BY DEF ToSet
  <2>3. Seen(0) = {}
    OBVIOUS
  <2>4. 0 \in 0..n
    BY <1>1
  <2> HIDE DEF Seen
  <2>5. w[0] \in Seq(S) /\ Len(w[0]) <= 0 /\ ToSet(w[0]) = Seen(0) \cap wanted
    BY <2>1, <2>2, <2>3
  <2> QED BY <2>4, <2>5
<1>4. ASSUME NEW k \in 1..n, k - 1 \in Good PROVE k \in Good
  <2> DEFINE a == w[k - 1]
             b == w[k]
             x == list[k]
  <2>1. a \in Seq(S) /\ Len(a) <= k - 1 /\ ToSet(a) = Seen(k - 1) \cap wanted
    BY <1>4
  <2>2. b = IF x \in wanted THEN Append(a, x) ELSE a
    BY <1>2 DEF SelectsOneByOne
  <2>3. x \in S
    BY <1>1
  <2>4. Seen(k) = Seen(k - 1) \cup {x}
    <3>1. \A i \in 1..k : i \in 1..k-1 \/ i = k
      BY <1>1
    <3>2. k \in 1..k /\ 1..k-1 \subseteq 1..k
      BY <1>1
    <3> QED BY <3>1, <3>2
  <2> HIDE DEF a, b, x, Seen
  <2>5. Len(a) \in Nat /\ k \in Nat
    BY <1>1, <2>1, LenProperties
  <2>6. b \in Seq(S) /\ Len(b) <= k /\ ToSet(b) = Seen(k) \cap wanted
    <3>1. CASE x \in wanted
      <4>1. /\ Append(a, x) \in Seq(S) /\ Len(Append(a, x)) = Len(a) + 1
            /\ ToSet(Append(a, x)) = ToSet(a) \cup {x}
        BY <2>1, <2>3, OneMore
      <4> QED BY <2>1, <2>2, <2>4, <2>5, <3>1, <4>1
    <3>2. CASE x \notin wanted
      BY <2>1, <2>2, <2>4, <2>5, <3>2
    <3> QED BY <3>1, <3>2
  <2>7. k \in 0..n
    BY <1>1
  <2> QED BY <2>6, <2>7 DEF b
<1>5. Good \in SUBSET (0..n)
  OBVIOUS
<1>6. Seen(n) = ToSet(list)
  BY <1>1 DEF ToSet
<1>7. n \in Good
  <2> HIDE DEF Good
  <2> QED BY <1>1, <1>3, <1>4, <1>5, HoldsAtLast
<1>8. Selected(list, wanted) = w[n]
  BY <1>2 DEF SelectsOneByOne
<1> HIDE DEF Seen
<1> QED BY <1>6, <1>7, <1>8 DEF n

LEMMA PutIs ==
  ASSUME NEW list \in Seq(Entries), NEW creator \in Appl, NEW rel \in Path
  PROVE  /\ Put(list, creator, rel) \in Seq(Entries)
         /\ ToSet(Put(list, creator, rel)) = ToSet(list) \cup {Entry(creator, rel)}
<1> DEFINE e == [creator |-> creator, rel |-> rel]
<1>1. e \in Entries /\ e = Entry(creator, rel)
  BY DEF Entries, Entry
<1>2. Put(list, creator, rel) = IF \E i \in DOMAIN list : list[i] = e THEN list ELSE Append(list, e)
  BY DEF Put
<1> HIDE DEF e
<1>3. CASE \E i \in DOMAIN list : list[i] = e
  BY <1>1, <1>2, <1>3 DEF ToSet
<1>4. CASE ~\E i \in DOMAIN list : list[i] = e
  BY <1>1, <1>2, <1>4, OneMore
<1> QED BY <1>3, <1>4

\* The applications found, put in the list one after the other.
AllPut(list, found) ==
  FoldLeft(LAMBDA l, p : Put(l, Metadata(p).finder, p), list, found)

PutsOneByOne(w, list, found, n) ==
  /\ w[0] = list
  /\ \A k \in 1..n : w[k] = Put(w[k - 1], Metadata(found[k]).finder, found[k])
  /\ AllPut(list, found) = w[n]

LEMMA AllPutSteps ==
  ASSUME NEW list, NEW found, NEW n \in Nat, DOMAIN found = 1..n
  PROVE  \E w : PutsOneByOne(w, list, found, n)
<1> DEFINE One(x, y) == Put(x, Metadata(y).finder, y)
           IsFold(g) == g = [s \in SUBSET (1..n) |->
              IF s = {} THEN list ELSE One(g[s \ {Max(s)}], found[Max(s)])]
           h == CHOOSE g : IsFold(g)
<1>1. AllPut(list, found) = h[1..n]
  BY DEF AllPut, FoldLeft, MapThenFoldSet
<1>2. PICK g : Folds(g, "put", 0, list, found, n)
  BY FoldExists
<1>3. \A x, y : Step("put", 0, x, y) = One(x, y)
  BY DEF Step
<1> HIDE DEF One
<1>4. IsFold(g)
  BY <1>2, <1>3 DEF Folds
<1>5. IsFold(h)
  BY <1>4
<1> HIDE DEF h
<1>6. Folds(h, "put", 0, list, found, n)
  BY <1>3, <1>5 DEF Folds
<1>7. PICK w : Steps(w, "put", 0, list, found, n) /\ w[n] = h[1..n]
  BY <1>6, FoldSteps
<1> QED BY <1>1, <1>3, <1>7 DEF Steps, PutsOneByOne, One

LEMMA AllPutIs ==
  ASSUME NEW list \in Seq(Entries), NEW found, NEW n \in Nat, DOMAIN found = 1..n,
         \A i \in 1..n : found[i] \in Path /\ Metadata(found[i]).finder \in Appl
  PROVE  /\ AllPut(list, found) \in Seq(Entries)
         /\ ToSet(AllPut(list, found)) =
              ToSet(list) \cup {Entry(Metadata(p).finder, p) : p \in ToSet(found)}
<1> DEFINE Seen(k) == {Entry(Metadata(found[i]).finder, found[i]) : i \in 1..k}
<1>1. PICK w : PutsOneByOne(w, list, found, n)
  BY AllPutSteps
<1> DEFINE Good == {k \in 0..n : w[k] \in Seq(Entries) /\ ToSet(w[k]) = ToSet(list) \cup Seen(k)}
<1>2. 0 \in Good
  <2>1. w[0] = list
    BY <1>1 DEF PutsOneByOne
  <2>2. Seen(0) = {}
    OBVIOUS
  <2>3. 0 \in 0..n
    OBVIOUS
  <2> QED BY <2>1, <2>2, <2>3
<1>3. ASSUME NEW k \in 1..n, k - 1 \in Good PROVE k \in Good
  <2> DEFINE a == w[k - 1]
             b == w[k]
             p == found[k]
             e == Entry(Metadata(p).finder, p)
  <2>1. a \in Seq(Entries) /\ ToSet(a) = ToSet(list) \cup Seen(k - 1)
    BY <1>3
  <2>2. b = Put(a, Metadata(p).finder, p)
    BY <1>1 DEF PutsOneByOne
  <2>3. p \in Path /\ Metadata(p).finder \in Appl
    OBVIOUS
  <2>4. Seen(k) = Seen(k - 1) \cup {e}
    <3>1. \A i \in 1..k : i \in 1..k-1 \/ i = k
      OBVIOUS
    <3>2. k \in 1..k /\ 1..k-1 \subseteq 1..k
      OBVIOUS
    <3> QED BY <3>1, <3>2
  <2> HIDE DEF a, b, p, Seen
  <2>5. b \in Seq(Entries) /\ ToSet(b) = ToSet(a) \cup {e}
    BY <2>1, <2>2, <2>3, PutIs
  <2>6. k \in 0..n
    OBVIOUS
  <2> HIDE DEF e
  <2>7. ToSet(b) = ToSet(list) \cup Seen(k)
    BY <2>1, <2>4, <2>5
  <2> QED BY <2>5, <2>6, <2>7 DEF b
<1>4. Good \in SUBSET (0..n)
  OBVIOUS
<1>5. Seen(n) = {Entry(Metadata(p).finder, p) : p \in ToSet(found)}
  BY DEF ToSet
<1>6. n \in Good
  <2> HIDE DEF Good
  <2> QED BY <1>2, <1>3, <1>4, HoldsAtLast
<1>7. AllPut(list, found) = w[n]
  BY <1>1 DEF PutsOneByOne
<1> HIDE DEF Seen
<1> QED BY <1>5, <1>6, <1>7

\* The creators that a list has something for.
Of(list, rel) == {a \in Appl : Entry(a, rel) \in ToSet(list)}

LEMMA EntriesApart ==
  ASSUME NEW a, NEW b, NEW p, NEW q
  PROVE  Entry(a, p) = Entry(b, q) <=> a = b /\ p = q
<1>1. Entry(a, p).creator = a /\ Entry(a, p).rel = p /\ Entry(b, q).creator = b /\ Entry(b, q).rel = q
  BY DEF Entry
<1> QED BY <1>1 DEF Entry

LEMMA EntriesAre ==
  ASSUME NEW list \in Seq(Entries)
  PROVE  \A e \in ToSet(list) : /\ e.creator \in Appl /\ e.rel \in Path
                                /\ e = Entry(e.creator, e.rel)
<1>1. \A i \in DOMAIN list : list[i] \in Entries
  BY ElementOfSeq, LenProperties
<1> QED BY <1>1 DEF ToSet, Entries, Entry

\* There are only so many paths.
LEMMA PathsFinite == IsFiniteSet(Paths)
<1> DEFINE Long(m) == [1..m -> Names]
           all == {Long(m) : m \in 0..Depth}
<1>1. Paths = UNION all
  BY DEF Paths, BoundedSeq, SeqOf
<1>2. ASSUME NEW m \in Nat PROVE IsFiniteSet(Long(m))
  <2> DEFINE T == SUBSET ((1..m) \X Names)
             graph == [f \in Long(m) |-> {<<i, f[i]>> : i \in 1..m}]
  <2>1. IsFiniteSet(T)
    <3>1. IsFiniteSet(1..m) /\ IsFiniteSet(Names)
      BY FS_Interval, FolderAssumption
    <3>2. IsFiniteSet((1..m) \X Names)
      BY <3>1, FS_Product
    <3> QED BY <3>2, FS_SUBSET
  <2>2. graph \in Injection(Long(m), T)
    <3>1. graph \in [Long(m) -> T]
      OBVIOUS
    <3>2. ASSUME NEW f \in Long(m), NEW g \in Long(m), graph[f] = graph[g] PROVE f = g
      <4>1. ASSUME NEW i \in 1..m PROVE f[i] = g[i]
        <5>1. <<i, f[i]>> \in graph[f]
          OBVIOUS
        <5>2. <<i, f[i]>> \in graph[g]
          BY <3>2, <5>1
        <5>3. PICK j \in 1..m : <<i, f[i]>> = <<j, g[j]>>
          BY <5>2
        <5> QED BY <5>3
      <4> QED BY <4>1
    <3> HIDE DEF graph
    <3> QED BY <3>1, <3>2 DEF Injection, IsInjective
  <2> QED BY <2>1, <2>2, FS_Injection
<1>3. IsFiniteSet(all)
  <2> DEFINE f == [m \in 0..Depth |-> Long(m)]
  <2>1. IsFiniteSet(0..Depth)
    BY FS_Interval, FolderAssumption
  <2>2. f \in Surjection(0..Depth, all)
    BY DEF Surjection
  <2> HIDE DEF f
  <2> QED BY <2>1, <2>2, FS_Surjection
<1>4. \A T \in all : IsFiniteSet(T)
  <2>1. \A m \in 0..Depth : m \in Nat
    BY FolderAssumption
  <2> QED BY <1>2, <2>1
<1> HIDE DEF all
<1> QED BY <1>1, <1>3, <1>4, FS_UNION

-----------------------------------------------------------------------------
(* What a path goes through.                                               *)

LEMMA PrefixSelf ==
  ASSUME NEW p \in Path
  PROVE  IsPrefix(p, p) /\ \A to \in Path : Gone(p, p, to) = to
<1>1. <<>> \in Path
  BY DEF Path
<1>2. \A q \in Path : q \o <<>> = q
  BY ConcatEmptySeq DEF Path
<1>3. IsPrefix(p, p) /\ Rest(p, p) = <<>>
  BY <1>1, <1>2, RestOfConcat
<1> QED BY <1>2, <1>3 DEF Gone, Rest

LEMMA PrefixThrough ==
  ASSUME NEW a \in Path, NEW b \in Path, NEW d \in Path, IsPrefix(a, b), IsPrefix(b, d)
  PROVE  IsPrefix(a, d)
<1> DEFINE r == Rest(b, a)
           s == Rest(d, b)
<1>1. r \in Path /\ a \o r = b /\ s \in Path /\ b \o s = d
  BY PrefixAndRest
<1> HIDE DEF r, s
<1>2. r \o s \in Path /\ a \o (r \o s) = d
  <2>1. r \o s \in Path
    BY <1>1, PathIs
  <2>2. (a \o r) \o s = a \o (r \o s)
    <3>1. a \in Seq(Names) /\ r \in Seq(Names) /\ s \in Seq(Names)
      BY <1>1 DEF Path
    <3> QED BY <3>1, ConcatAssociative
  <2> QED BY <1>1, <2>1, <2>2
<1> QED BY <1>2, RestOfConcat

LEMMA PrefixLength ==
  ASSUME NEW a \in Path, NEW b \in Path, IsPrefix(a, b)
  PROVE  Len(a) <= Len(b) /\ Len(a) \in Nat /\ Len(b) \in Nat
  BY PathIs DEF IsPrefix

LEMMA AppendedOn ==
  ASSUME NEW a \in Path, NEW r \in Path, NEW n \in Names
  PROVE  Append(r, n) \in Path /\ a \o Append(r, n) = Append(a \o r, n)
<1>1. /\ Append(r, n) = r \o <<n>> /\ <<n>> \in Seq(Names)
      /\ a \o r \in Seq(Names)
  BY AppendIsConcat, PathIs DEF Path
<1>2. Append(a \o r, n) = (a \o r) \o <<n>>
  BY <1>1, AppendIsConcat
<1>3. (a \o r) \o <<n>> = a \o (r \o <<n>>)
  BY <1>1, ConcatAssociative DEF Path
<1> QED BY <1>1, <1>2, <1>3, Appended

LEMMA PrefixOfAppend ==
  ASSUME NEW a \in Path, NEW p \in Path, NEW n \in Names
  PROVE  IsPrefix(a, Append(p, n)) <=> a = Append(p, n) \/ IsPrefix(a, p)
<1>1. Append(p, n) \in Path
  BY Appended
<1>2. ASSUME IsPrefix(a, Append(p, n)), a # Append(p, n) PROVE IsPrefix(a, p)
  <2> DEFINE r == Rest(Append(p, n), a)
  <2>1. r \in Path /\ a \o r = Append(p, n)
    BY <1>1, <1>2, PrefixAndRest
  <2> HIDE DEF r
  <2>2. r # <<>>
    BY <1>2, <2>1, ConcatEmptySeq DEF Path
  <2>3. PICK s \in Seq(Names), m \in Names : r = Append(s, m)
    BY <2>1, <2>2, SequenceEmptyOrAppend DEF Path
  <2>4. s \in Path /\ a \o s \in Path /\ Append(a \o s, m) = Append(p, n)
    BY <2>1, <2>3, AppendedOn, PathIs DEF Path
  <2>5. a \o s = p
    <3> DEFINE t == a \o s
    <3>1. t \in Seq(Names) /\ p \in Seq(Names) /\ Append(t, m) = Append(p, n)
      BY <2>4 DEF Path
    <3> HIDE DEF t
    <3>2. t = p
      BY <3>1, AppendInjective
    <3> QED BY <3>2 DEF t
  <2> QED BY <2>4, <2>5, RestOfConcat
<1>3. ASSUME IsPrefix(a, p) PROVE IsPrefix(a, Append(p, n))
  <2> DEFINE r == Rest(p, a)
  <2>1. r \in Path /\ a \o r = p
    BY <1>3, PrefixAndRest
  <2> HIDE DEF r
  <2>2. Append(r, n) \in Path /\ a \o Append(r, n) = Append(p, n)
    BY <2>1, AppendedOn
  <2> QED BY <2>2, RestOfConcat
<1> QED BY <1>1, <1>2, <1>3, PrefixSelf

\* The folder of what went with a folder went with it.
LEMMA GoneAppend ==
  ASSUME NEW from \in Path, NEW to \in Path, NEW p \in Path, IsPrefix(from, p), NEW n \in Names
  PROVE  Gone(Append(p, n), from, to) = Append(Gone(p, from, to), n)
<1> DEFINE r == Rest(p, from)
<1>1. r \in Path /\ from \o r = p /\ Gone(p, from, to) = to \o r
  BY PrefixAndRest DEF Gone, Rest
<1> HIDE DEF r
<1>2. Append(r, n) \in Path /\ from \o Append(r, n) = Append(p, n)
  BY <1>1, AppendedOn
<1>3. Rest(Append(p, n), from) = Append(r, n)
  BY <1>2, RestOfConcat
<1>4. Gone(Append(p, n), from, to) = to \o Append(r, n)
  BY <1>3 DEF Gone, Rest
<1> QED BY <1>1, <1>4, AppendedOn

LEMMA ParentFirst ==
  ASSUME NEW p \in Path, p # Root
  PROVE  /\ ParentOf(p) \in Path /\ IsPrefix(ParentOf(p), p) /\ ~IsPrefix(p, ParentOf(p))
         /\ \A a \in Path : IsPrefix(a, p) /\ a # p => IsPrefix(a, ParentOf(p))
         /\ \A from, to \in Path : IsPrefix(from, p) /\ from # p =>
              /\ ParentOf(Gone(p, from, to)) = Gone(ParentOf(p), from, to)
              /\ Last(Gone(p, from, to)) = Last(p) /\ Gone(p, from, to) # Root
<1> DEFINE f == ParentOf(p)
           n == Last(p)
<1>1. f \in Path /\ n \in Names /\ p = Append(f, n) /\ Len(f) = Len(p) - 1 /\ Len(p) \in Nat
  BY ParentIsPath
<1>2. ~IsPrefix(p, f)
  BY <1>1, PrefixLength
<1> HIDE DEF f, n
<1>3. IsPrefix(f, p)
  BY <1>1, PrefixSelf, PrefixOfAppend
<1>4. ASSUME NEW a \in Path, IsPrefix(a, p), a # p PROVE IsPrefix(a, f)
  BY <1>1, <1>4, PrefixOfAppend
<1>5. ASSUME NEW from \in Path, NEW to \in Path, IsPrefix(from, p), from # p
      PROVE  /\ ParentOf(Gone(p, from, to)) = Gone(f, from, to)
             /\ Last(Gone(p, from, to)) = n /\ Gone(p, from, to) # Root
  <2>1. IsPrefix(from, f)
    BY <1>4, <1>5
  <2>2. Gone(p, from, to) = Append(Gone(f, from, to), n) /\ Gone(f, from, to) \in Path
    BY <1>1, <2>1, GoneAppend, GoneIs
  <2> QED BY <1>1, <2>2, Appended
<1> QED BY <1>1, <1>2, <1>3, <1>4, <1>5 DEF f, n

-----------------------------------------------------------------------------
(* Folders.                                                                *)

\* A name the machine is shown as it is.
Shows(n) == n \notin Hidden \cup Inexact

\* All that is in a folder is in folders of its own.
InFolders(f) ==
  /\ DOMAIN f \subseteq Path /\ IsFiniteSet(DOMAIN f) /\ Root \in DOMAIN f
  /\ \A p \in DOMAIN f : "dir" \in DOMAIN f[p]
  /\ \A p \in DOMAIN f : p # Root => ParentOf(p) \in DOMAIN f /\ f[ParentOf(p)].dir

\* No two names of a folder are the same but for case.
NoneAlike(f) ==
  \A p, q \in DOMAIN f \ {Root} :
    /\ ParentOf(p) = ParentOf(q) /\ Shows(Last(p)) /\ Shows(Last(q))
    /\ Fold[Last(p)] = Fold[Last(q)]
    => p = q

FolderIs(f) == InFolders(f) /\ NoneAlike(f)

\* Nothing in the folder has a name like that of what comes there.
Unlike(f, folder, n, but) ==
  \A q \in DOMAIN f \ {Root} :
    /\ ParentOf(q) = folder /\ Shows(Last(q)) /\ Shows(n) /\ Fold[Last(q)] = Fold[n]
    => q \in but

LEMMA FoldersAbove ==
  ASSUME NEW f, InFolders(f), NEW p \in DOMAIN f, NEW a \in Path, IsPrefix(a, p), a # p
  PROVE  a \in DOMAIN f /\ f[a].dir
<1> DEFINE Bad == {q \in DOMAIN f : IsPrefix(a, q) /\ a # q /\ ~(a \in DOMAIN f /\ f[a].dir)}
           lens == {Len(q) : q \in Bad}
<1>1. SUFFICES ASSUME Bad # {} PROVE FALSE
  BY <1>1
<1>2. Bad \subseteq Path
  BY DEF InFolders
<1>3. lens \subseteq Nat /\ lens # {}
  BY <1>1, <1>2, PathIs
<1>4. PICK l \in lens : \A k \in lens : l <= k
  <2> HIDE DEF lens
  <2> QED BY <1>3, LeastOf
<1>5. PICK q \in Bad : Len(q) = l
  BY <1>4
<1>6. q \in Path /\ IsPrefix(a, q) /\ a # q /\ q \in DOMAIN f /\ Len(q) \in Nat
  BY <1>2, <1>5, PathIs
<1>7. q # Root
  <2>1. q = Root => Len(q) = 0
    BY DEF Root
  <2>2. q = Root => Len(a) = 0
    BY <1>6, <2>1, PrefixLength
  <2>3. Len(a) = 0 => a = Root
    BY EmptySeq DEF Root, Path
  <2> QED BY <1>6, <2>2, <2>3
<1>8. /\ ParentOf(q) \in DOMAIN f /\ f[ParentOf(q)].dir /\ IsPrefix(a, ParentOf(q))
      /\ Len(ParentOf(q)) = Len(q) - 1
  BY <1>6, <1>7, ParentFirst, ParentIsPath DEF InFolders
<1>9. ParentOf(q) # a
  BY <1>5, <1>8
<1>10. ParentOf(q) \in Bad
  BY <1>5, <1>8, <1>9
<1>11. Len(ParentOf(q)) \in lens
  BY <1>10
<1> HIDE DEF Bad, lens
<1> QED BY <1>4, <1>5, <1>6, <1>8, <1>11

LEMMA FolderWith ==
  ASSUME NEW f, FolderIs(f), NEW rel \in Path, rel \notin DOMAIN f, rel # Root,
         ParentOf(rel) \in DOMAIN f, f[ParentOf(rel)].dir, NEW thing, "dir" \in DOMAIN thing,
         Unlike(f, ParentOf(rel), Last(rel), {})
  PROVE  FolderIs(With(f, rel, thing))
<1> DEFINE g == With(f, rel, thing)
<1>1. /\ DOMAIN g = {rel} \cup DOMAIN f /\ g[rel] = thing
      /\ \A p \in DOMAIN f : g[p] = f[p]
  <2>1. /\ DOMAIN g = {rel} \cup DOMAIN f /\ g[rel] = thing
        /\ \A p \in DOMAIN f : p # rel => g[p] = f[p]
    BY DEF With
  <2> HIDE DEF g
  <2> QED BY <2>1
<1>2. IsFiniteSet({rel} \cup DOMAIN f)
  <2>1. IsFiniteSet(DOMAIN f \cup {rel})
    BY FS_AddElement DEF FolderIs, InFolders
  <2>2. DOMAIN f \cup {rel} = {rel} \cup DOMAIN f
    OBVIOUS
  <2> QED BY <2>1, <2>2
<1> HIDE DEF g
<1>3. InFolders(g)
  BY <1>1, <1>2 DEF FolderIs, InFolders
<1>4. NoneAlike(g)
  <2> SUFFICES ASSUME NEW p \in DOMAIN g \ {Root}, NEW q \in DOMAIN g \ {Root},
                      ParentOf(p) = ParentOf(q), Shows(Last(p)), Shows(Last(q)),
                      Fold[Last(p)] = Fold[Last(q)], p # q
               PROVE  FALSE
    BY DEF NoneAlike
  <2>1. CASE p = rel
    <3>1. q \in DOMAIN f \ {Root}
      BY <1>1, <2>1
    <3> QED BY <2>1, <3>1 DEF Unlike
  <2>2. CASE q = rel
    <3>1. p \in DOMAIN f \ {Root}
      BY <1>1, <2>2
    <3> QED BY <2>2, <3>1 DEF Unlike
  <2>3. CASE p # rel /\ q # rel
    BY <1>1, <2>3 DEF FolderIs, NoneAlike
  <2> QED BY <2>1, <2>2, <2>3
<1> QED BY <1>3, <1>4 DEF FolderIs, g

LEMMA FolderWithout ==
  ASSUME NEW f, FolderIs(f), NEW rel \in DOMAIN f, rel # Root,
         \A p \in DOMAIN f : IsPrefix(rel, p) => p = rel
  PROVE  FolderIs(Without(f, rel)) /\ DOMAIN Without(f, rel) = DOMAIN f \ {rel}
<1> DEFINE g == Without(f, rel)
<1>1. /\ DOMAIN g = {p \in DOMAIN f : ~IsPrefix(rel, p)}
      /\ \A p \in DOMAIN g : g[p] = f[p]
  BY WithoutIs
<1> HIDE DEF g
<1>2. rel \in Path /\ IsPrefix(rel, rel)
  BY PrefixSelf DEF FolderIs, InFolders
<1>3. DOMAIN g = DOMAIN f \ {rel}
  BY <1>1, <1>2
<1>4. IsFiniteSet(DOMAIN g)
  BY <1>3, FS_Subset DEF FolderIs, InFolders
<1>5. ASSUME NEW p \in DOMAIN g, p # Root PROVE ParentOf(p) \in DOMAIN g /\ g[ParentOf(p)].dir
  <2>1. p \in DOMAIN f /\ p # rel /\ p \in Path
    BY <1>3 DEF FolderIs, InFolders
  <2>2. ParentOf(p) \in DOMAIN f /\ f[ParentOf(p)].dir
    BY <1>5, <2>1 DEF FolderIs, InFolders
  <2>3. ParentOf(p) # rel
    BY <1>5, <2>1, ParentFirst
  <2> QED BY <1>1, <1>3, <2>2, <2>3
<1>6. InFolders(g)
  BY <1>1, <1>3, <1>4, <1>5 DEF FolderIs, InFolders
<1>7. NoneAlike(g)
  BY <1>3 DEF FolderIs, NoneAlike
<1> QED BY <1>3, <1>6, <1>7 DEF FolderIs, g

\* Two folders with the same in them.
SameFolder(old, new) ==
  /\ DOMAIN new = DOMAIN old
  /\ \A p \in DOMAIN old : "dir" \in DOMAIN old[p] =>
       "dir" \in DOMAIN new[p] /\ new[p].dir = old[p].dir

LEMMA FolderSame ==
  ASSUME NEW f, NEW g, FolderIs(f), SameFolder(f, g)
  PROVE  FolderIs(g)
<1>1. InFolders(g)
  BY DEF FolderIs, InFolders, SameFolder
<1>2. NoneAlike(g)
  BY DEF FolderIs, NoneAlike, SameFolder
<1> QED BY <1>1, <1>2 DEF FolderIs

LEMMA FolderRelocated ==
  ASSUME NEW f, FolderIs(f), NEW from \in DOMAIN f, from # Root,
         NEW folder \in DOMAIN f, f[folder].dir, ~IsPrefix(from, folder),
         NEW n \in Names, Append(folder, n) \notin DOMAIN f, Unlike(f, folder, n, {from})
  PROVE  FolderIs(Relocated(f, from, Append(folder, n)))
<1> DEFINE to == Append(folder, n)
           g == Relocated(f, from, to)
<1>1. from \in Path /\ folder \in Path /\ DOMAIN f \subseteq Path /\ InFolders(f) /\ NoneAlike(f)
  BY DEF FolderIs, InFolders
<1>2. to \in Path /\ to # Root /\ ParentOf(to) = folder /\ Last(to) = n
  BY <1>1, Appended
<1>3. to \notin DOMAIN f
  OBVIOUS
<1> HIDE DEF to
<1>4. MovedThere(f, g, from, to) /\ StaysThere(f, g, from, to) /\ NoOther(f, g, from, to)
  BY <1>1, <1>2, RelocatedIs
<1>5. \A p \in DOMAIN f : ~IsPrefix(to, p)
  <2>1. ASSUME NEW p \in DOMAIN f, IsPrefix(to, p) PROVE FALSE
    BY <1>1, <1>2, <1>3, <2>1, FoldersAbove
  <2> QED BY <2>1
<1>6. ~IsPrefix(to, folder)
  BY <1>5
<1> HIDE DEF g
<1>7. ASSUME NEW p \in DOMAIN g
      PROVE  \/ p = to /\ g[p] = f[from]
             \/ \E q \in DOMAIN f : /\ IsPrefix(from, q) /\ q # from /\ q # Root
                                    /\ p = Gone(q, from, to) /\ g[p] = f[q]
             \/ p \in DOMAIN f /\ ~IsPrefix(from, p) /\ g[p] = f[p]
  <2>1. CASE \E q \in DOMAIN f : IsPrefix(from, q) /\ p = Gone(q, from, to) /\ g[p] = f[q]
    <3>1. PICK q \in DOMAIN f : IsPrefix(from, q) /\ p = Gone(q, from, to) /\ g[p] = f[q]
      BY <2>1
    <3>2. CASE q = from
      BY <1>1, <1>2, <3>1, <3>2, PrefixSelf
    <3>3. CASE q # from
      <4>1. q # Root
        <5>1. q = Root => Len(q) = 0
          BY DEF Root
        <5>2. q = Root => Len(from) = 0
          BY <1>1, <3>1, <5>1, PrefixLength
        <5>3. Len(from) = 0 => from = Root
          BY <1>1, EmptySeq DEF Root, Path
        <5> QED BY <5>2, <5>3
      <4> QED BY <3>1, <3>3, <4>1
    <3> QED BY <3>2, <3>3
  <2>2. CASE p \in DOMAIN f /\ ~IsPrefix(from, p) /\ g[p] = f[p]
    BY <2>2
  <2> QED BY <1>4, <2>1, <2>2 DEF NoOther
\* Where each has its folder.
<1>8. ASSUME NEW q \in DOMAIN f, IsPrefix(from, q), q # from, q # Root
      PROVE  LET p == Gone(q, from, to) IN
             /\ p \in Path /\ IsPrefix(to, ParentOf(p)) /\ Last(p) = Last(q)
             /\ ParentOf(p) = Gone(ParentOf(q), from, to)
             /\ IsPrefix(from, ParentOf(q)) /\ ParentOf(q) \in DOMAIN f
             /\ ParentOf(p) \in DOMAIN g /\ g[ParentOf(p)].dir
             /\ from \o Rest(ParentOf(p), to) = ParentOf(q)
  <2>1. q \in Path /\ ParentOf(q) \in DOMAIN f /\ f[ParentOf(q)].dir
    BY <1>1, <1>8 DEF InFolders
  <2>2. /\ IsPrefix(from, ParentOf(q)) /\ ParentOf(q) \in Path
        /\ ParentOf(Gone(q, from, to)) = Gone(ParentOf(q), from, to)
        /\ Last(Gone(q, from, to)) = Last(q)
    BY <1>1, <1>2, <1>8, <2>1, ParentFirst
  <2>3. IsPrefix(to, Gone(ParentOf(q), from, to)) /\ Gone(q, from, to) \in Path
        /\ from \o Rest(Gone(ParentOf(q), from, to), to) = ParentOf(q)
    BY <1>1, <1>2, <1>8, <2>1, <2>2, GoneIs
  <2>4. /\ Gone(ParentOf(q), from, to) \in DOMAIN g
        /\ g[Gone(ParentOf(q), from, to)] = f[ParentOf(q)]
    BY <1>4, <2>1, <2>2 DEF MovedThere
  <2> QED BY <2>1, <2>2, <2>3, <2>4
<1>9. ASSUME NEW p \in DOMAIN f, ~IsPrefix(from, p), p # Root
      PROVE  /\ p \in Path /\ ParentOf(p) \in DOMAIN f /\ ~IsPrefix(from, ParentOf(p))
             /\ ~IsPrefix(to, ParentOf(p))
             /\ ParentOf(p) \in DOMAIN g /\ g[ParentOf(p)].dir
  <2>1. p \in Path /\ ParentOf(p) \in DOMAIN f /\ f[ParentOf(p)].dir
    BY <1>1, <1>9 DEF InFolders
  <2>2. ParentOf(p) \in Path /\ IsPrefix(ParentOf(p), p)
    BY <1>9, <2>1, ParentFirst
  <2>3. ~IsPrefix(from, ParentOf(p))
    BY <1>1, <1>9, <2>1, <2>2, PrefixThrough
  <2>4. ~IsPrefix(to, ParentOf(p))
    BY <1>5, <2>1
  <2>5. ParentOf(p) \in DOMAIN g /\ g[ParentOf(p)] = f[ParentOf(p)]
    BY <1>4, <2>1, <2>3, <2>4 DEF StaysThere
  <2> QED BY <2>1, <2>3, <2>4, <2>5
<1>10. folder \in DOMAIN g /\ g[folder] = f[folder]
  BY <1>4, <1>6 DEF StaysThere
<1>11. DOMAIN g \subseteq Path
  BY <1>1, <1>2, <1>7, <1>8
<1>12. IsFiniteSet(DOMAIN g)
  <2> DEFINE h == [q \in DOMAIN f |-> Gone(q, from, to)]
             went == {Gone(q, from, to) : q \in DOMAIN f}
  <2>1. h \in Surjection(DOMAIN f, went)
    BY DEF Surjection
  <2>2. IsFiniteSet(DOMAIN f)
    BY <1>1 DEF InFolders
  <2>3. IsFiniteSet(went)
    <3> HIDE DEF h, went
    <3> QED BY <2>1, <2>2, FS_Surjection
  <2>4. Gone(from, from, to) = to
    BY <1>1, <1>2, PrefixSelf
  <2>5. DOMAIN g \subseteq went \cup DOMAIN f
    BY <1>7, <2>4
  <2> HIDE DEF went
  <2>6. IsFiniteSet(went \cup DOMAIN f)
    BY <2>2, <2>3, FS_Union
  <2> QED BY <2>5, <2>6, FS_Subset
<1>13. Root \in DOMAIN g
  <2>1. Root \in DOMAIN f
    BY <1>1 DEF InFolders
  <2>2. ~IsPrefix(from, Root)
    <3>1. Len(Root) = 0 /\ Root \in Path
      BY DEF Root, Path
    <3>2. IsPrefix(from, Root) => Len(from) = 0
      BY <1>1, <3>1, PrefixLength
    <3>3. Len(from) = 0 => from = Root
      BY <1>1, EmptySeq DEF Root, Path
    <3> QED BY <3>2, <3>3
  <2>3. ~IsPrefix(to, Root)
    BY <1>5, <2>1
  <2> QED BY <1>4, <2>1, <2>2, <2>3 DEF StaysThere
<1>14. \A p \in DOMAIN g : "dir" \in DOMAIN g[p]
  BY <1>1, <1>7 DEF InFolders
<1>15. ASSUME NEW p \in DOMAIN g, p # Root PROVE ParentOf(p) \in DOMAIN g /\ g[ParentOf(p)].dir
  <2>1. CASE p = to
    BY <1>2, <1>10, <2>1
  <2>2. CASE \E q \in DOMAIN f : IsPrefix(from, q) /\ q # from /\ q # Root /\ p = Gone(q, from, to)
    BY <1>8, <2>2
  <2>3. CASE p \in DOMAIN f /\ ~IsPrefix(from, p)
    BY <1>9, <1>15, <2>3
  <2> QED BY <1>7, <2>1, <2>2, <2>3
<1>16. InFolders(g)
  BY <1>11, <1>12, <1>13, <1>14, <1>15 DEF InFolders
<1>17. ASSUME NEW p \in DOMAIN g \ {Root}, NEW q \in DOMAIN g \ {Root},
              ParentOf(p) = ParentOf(q), Shows(Last(p)), Shows(Last(q)),
              Fold[Last(p)] = Fold[Last(q)],
              p \in DOMAIN f, ~IsPrefix(from, p)
       PROVE  p = q
  <2>1. /\ ~IsPrefix(to, ParentOf(p))
    BY <1>9, <1>17
  <2>2. CASE q = to
    <3>1. p \in {from}
      BY <1>2, <1>17, <2>2 DEF Unlike, to
    <3> QED BY <1>1, <1>17, <3>1, PrefixSelf
  <2>3. CASE \E r \in DOMAIN f : IsPrefix(from, r) /\ r # from /\ r # Root /\ q = Gone(r, from, to)
    BY <1>8, <1>17, <2>1, <2>3
  <2>4. CASE q \in DOMAIN f
    BY <1>1, <1>17, <2>4 DEF NoneAlike
  <2> QED BY <1>7, <2>2, <2>3, <2>4
<1>18. ASSUME NEW p \in DOMAIN g \ {Root}, NEW q \in DOMAIN g \ {Root},
              ParentOf(p) = ParentOf(q), Shows(Last(p)), Shows(Last(q)),
              Fold[Last(p)] = Fold[Last(q)],
              ~(p \in DOMAIN f /\ ~IsPrefix(from, p)), ~(q \in DOMAIN f /\ ~IsPrefix(from, q))
       PROVE  p = q
  <2>1. CASE p = to
    <3>1. ASSUME NEW s \in DOMAIN f, IsPrefix(from, s), s # from, s # Root, q = Gone(s, from, to)
          PROVE  FALSE
      BY <1>2, <1>6, <1>8, <1>18, <2>1, <3>1
    <3> QED BY <1>7, <1>18, <2>1, <3>1
  <2>2. CASE q = to
    <3>1. ASSUME NEW s \in DOMAIN f, IsPrefix(from, s), s # from, s # Root, p = Gone(s, from, to)
          PROVE  FALSE
      BY <1>2, <1>6, <1>8, <1>18, <2>2, <3>1
    <3> QED BY <1>7, <1>18, <2>2, <3>1
  <2>3. CASE p # to /\ q # to
    <3>1. PICK r \in DOMAIN f : IsPrefix(from, r) /\ r # from /\ r # Root /\ p = Gone(r, from, to)
      BY <1>7, <1>18, <2>3
    <3>2. PICK s \in DOMAIN f : IsPrefix(from, s) /\ s # from /\ s # Root /\ q = Gone(s, from, to)
      BY <1>7, <1>18, <2>3
    <3>3. ParentOf(r) = ParentOf(s)
      BY <1>8, <1>18, <3>1, <3>2
    <3>4. Last(p) = Last(r) /\ Last(q) = Last(s)
      BY <1>8, <3>1, <3>2
    <3>5. r = s
      BY <1>1, <1>18, <3>1, <3>2, <3>3, <3>4 DEF NoneAlike
    <3> QED BY <3>1, <3>2, <3>5
  <2> QED BY <2>1, <2>2, <2>3
<1>19. NoneAlike(g)
  <2> SUFFICES ASSUME NEW p \in DOMAIN g \ {Root}, NEW q \in DOMAIN g \ {Root},
                      ParentOf(p) = ParentOf(q), Shows(Last(p)), Shows(Last(q)),
                      Fold[Last(p)] = Fold[Last(q)]
               PROVE  p = q
    BY DEF NoneAlike
  <2>1. CASE p \in DOMAIN f /\ ~IsPrefix(from, p)
    BY <1>17, <2>1
  <2>2. CASE q \in DOMAIN f /\ ~IsPrefix(from, q)
    BY <1>17, <2>2
  <2> QED BY <1>18, <2>1, <2>2
<1> QED BY <1>16, <1>19 DEF FolderIs, g, to

-----------------------------------------------------------------------------
(* Names that lead to what has them.                                       *)

LEMMA LooksUpShown ==
  ASSUME NoneAlike(host), NEW folder \in Path, NEW name, ~name.mangled,
         NEW n \in Names, Append(folder, n) \in DOMAIN host, Shows(n), Fold[n] = Fold[name.of]
  PROVE  Lookup(folder, name) = n
<1> DEFINE shown == Shown(folder)
           like == {m \in shown : SameName(NameAmong(shown, m), name)}
<1>1. n \in shown /\ n \notin Inexact
  BY DEF Shown, Shows
<1>2. ASSUME NEW m \in shown, m \notin Inexact, Fold[m] = Fold[n] PROVE m = n
  <2>1. m \in Names /\ Append(folder, m) \in DOMAIN host /\ Shows(m)
    BY <1>2 DEF Shown, Shows
  <2>2. /\ Append(folder, m) # Root /\ Append(folder, n) # Root
        /\ ParentOf(Append(folder, m)) = folder /\ ParentOf(Append(folder, n)) = folder
        /\ Last(Append(folder, m)) = m /\ Last(Append(folder, n)) = n
    BY <2>1, Appended
  <2>3. Append(folder, m) = Append(folder, n)
    BY <1>2, <2>1, <2>2 DEF NoneAlike
  <2> QED BY <2>2, <2>3
<1>3. \A other \in shown \ Inexact : Rank[other] < Rank[n] /\ Fold[other] = Fold[n] => FALSE
  <2>1. Rank[n] \in Nat
    BY FolderAssumption
  <2> QED BY <1>2, <2>1
<1> HIDE DEF shown
<1>4. NameAmong(shown, n).of = n /\ ~NameAmong(shown, n).mangled
  BY <1>1, <1>3 DEF NameAmong
<1>5. n \in like
  BY <1>1, <1>4 DEF SameName
<1>6. ASSUME NEW m \in like PROVE m = n
  <2>1. m \in shown /\ SameName(NameAmong(shown, m), name)
    OBVIOUS
  <2>2. /\ NameAmong(shown, m).of = m
        /\ NameAmong(shown, m).mangled = (m \in Inexact \/ \E other \in shown \ Inexact :
             Rank[other] < Rank[m] /\ Fold[other] = Fold[m])
    BY DEF NameAmong
  <2>3. ~NameAmong(shown, m).mangled
    BY <2>1 DEF SameName
  <2>4. Fold[m] = Fold[name.of] /\ m \notin Inexact
    BY <2>1, <2>2, <2>3 DEF SameName
  <2> QED BY <1>2, <2>1, <2>4
<1> HIDE DEF like
<1>7. (CHOOSE m \in like : TRUE) = n
  BY <1>5, <1>6
<1> QED BY <1>5, <1>7 DEF Lookup, like, shown

\* What a path leads to is there, and the host does not hide it.
LEMMA RelThere ==
  ASSUME InFolders(host), NEW at, Placed(at), Exists(at)
  PROVE  /\ Rel(at) \in DOMAIN host
         /\ Rel(at) # Root => Last(Rel(at)) \in Names \ Hidden
<1>1. Rel(at) \in Path /\ Root \in DOMAIN host
  BY RelIs DEF InFolders
<1>2. CASE at.name = None
  <2>1. Rel(at) = at.folder /\ ObjectThere(at.folder)
    BY <1>2 DEF Rel, Placed, Exists
  <2>2. Rel(at) # Root => Last(Rel(at)) \in Names
    BY <1>1, ParentIsPath
  <2> QED BY <1>1, <2>1, <2>2 DEF ObjectThere
<1>3. CASE at.name # None
  <2>1. /\ Rel(at) = Append(at.folder, at.found) /\ at.folder \in Path /\ at.found # None
        /\ at.found = Lookup(at.folder, at.name)
    BY <1>3 DEF Rel, Placed, Exists
  <2>2. at.found \in Shown(at.folder)
    <3> DEFINE like == {n \in Shown(at.folder) : SameName(NameAmong(Shown(at.folder), n), at.name)}
    <3>1. Lookup(at.folder, at.name) = IF like = {} THEN None ELSE CHOOSE n \in like : TRUE
      BY DEF Lookup
    <3>2. like \subseteq Shown(at.folder)
      OBVIOUS
    <3> HIDE DEF like
    <3>3. like # {}
      BY <2>1, <3>1
    <3>4. (CHOOSE n \in like : TRUE) \in like
      BY <3>3
    <3> QED BY <2>1, <3>1, <3>2, <3>3, <3>4
  <2>3. at.found \in Names \ Hidden /\ Append(at.folder, at.found) \in DOMAIN host
    BY <2>2 DEF Shown
  <2> QED BY <2>1, <2>3, Appended
<1> QED BY <1>2, <1>3

-----------------------------------------------------------------------------
(* Comments and applications.                                              *)

DeskFields == {"comment", "creators", "own"}

CommentAt(cs, p) == IF p \in DOMAIN cs THEN cs[p] ELSE None

\* Each thing has the comment and the creators the machine gave it.
Told(history, cs, list) ==
  \A p \in DOMAIN history :
    /\ DeskFields \subseteq DOMAIN history[p]
    /\ history[p].own => /\ history[p].comment = CommentAt(cs, p)
                         /\ history[p].creators = Of(list, p)

\* What is kept of what is no longer there is of what the host took.
LeftBehind(history, cs, list, odd) ==
  \A p \in Path : p \notin DOMAIN history /\ (p \in DOMAIN cs \/ Of(list, p) # {}) => p \in odd

DeskIs(history, cs, list, odd) ==
  /\ DOMAIN history \subseteq Path /\ DOMAIN cs \subseteq Path /\ list \in Seq(Entries)
  /\ Told(history, cs, list)
  /\ LeftBehind(history, cs, list, odd)

SameDesk(old, new) ==
  /\ DOMAIN new = DOMAIN old
  /\ \A p \in DOMAIN old : DeskFields \subseteq DOMAIN old[p] =>
       /\ DeskFields \subseteq DOMAIN new[p]
       /\ new[p].comment = old[p].comment /\ new[p].creators = old[p].creators
       /\ new[p].own => old[p].own

LEMMA DeskSame ==
  ASSUME NEW old, NEW new, NEW cs, NEW list, NEW odd,
         DeskIs(old, cs, list, odd), SameDesk(old, new)
  PROVE  DeskIs(new, cs, list, odd)
<1>1. Told(new, cs, list)
  BY DEF DeskIs, Told, SameDesk
<1>2. LeftBehind(new, cs, list, odd)
  BY DEF DeskIs, LeftBehind, SameDesk
<1> QED BY <1>1, <1>2 DEF DeskIs, SameDesk

LEMMA SameDeskSelf == ASSUME NEW h PROVE SameDesk(h, h)
  BY DEF SameDesk

LEMMA SameDeskOn ==
  ASSUME NEW a, NEW b, NEW d, SameDesk(a, b), SameDesk(b, d)
  PROVE  SameDesk(a, d)
  BY DEF SameDesk

LEMMA SameDeskStamped ==
  ASSUME NEW h, NEW numbers, NEW named
  PROVE  SameDesk(h, Stamped(h, numbers, named))
<1> DEFINE g == Stamped(h, numbers, named)
<1>1. /\ DOMAIN g = DOMAIN h
      /\ \A p \in DOMAIN h : \/ g[p] = h[p]
                             \/ g[p] = [h[p] EXCEPT !.id = numbers.byPath[p]]
  BY DEF Stamped
<1> HIDE DEF g
<1>2. ASSUME NEW p \in DOMAIN h, DeskFields \subseteq DOMAIN h[p]
      PROVE  /\ DeskFields \subseteq DOMAIN g[p]
             /\ g[p].comment = h[p].comment /\ g[p].creators = h[p].creators
             /\ g[p].own = h[p].own
  <2>1. CASE g[p] = h[p]
    BY <1>2, <2>1
  <2>2. CASE g[p] = [h[p] EXCEPT !.id = numbers.byPath[p]]
    BY <1>2, <2>2 DEF DeskFields
  <2> QED BY <1>1, <2>1, <2>2
<1> QED BY <1>1, <1>2 DEF SameDesk, g

\* One more thing, of which nothing was said yet.
LEMMA DeskWith ==
  ASSUME NEW h, NEW cs, NEW list, NEW odd, DeskIs(h, cs, list, odd),
         NEW rel \in Path, rel \notin DOMAIN h, NEW meta
  PROVE  DeskIs(With(h, rel, Untold(meta, rel \notin odd)), cs, list, odd)
<1> DEFINE g == With(h, rel, Untold(meta, rel \notin odd))
<1>1. /\ DOMAIN g = {rel} \cup DOMAIN h /\ g[rel] = Untold(meta, rel \notin odd)
      /\ \A p \in DOMAIN h : p # rel => g[p] = h[p]
  BY DEF With
<1>2. /\ DeskFields \subseteq DOMAIN g[rel] /\ g[rel].comment = None /\ g[rel].creators = {}
      /\ g[rel].own = (rel \notin odd)
  BY <1>1 DEF Untold, DeskFields
<1> HIDE DEF g
<1>3. rel \notin odd => CommentAt(cs, rel) = None /\ Of(list, rel) = {}
  BY DEF DeskIs, LeftBehind, CommentAt
<1>4. Told(g, cs, list)
  BY <1>1, <1>2, <1>3 DEF DeskIs, Told
<1>5. LeftBehind(g, cs, list, odd)
  BY <1>1 DEF DeskIs, LeftBehind
<1> QED BY <1>1, <1>4, <1>5 DEF DeskIs, g

\* One less, which the host took: what is kept of it stays.
LEMMA DeskTaken ==
  ASSUME NEW h, NEW cs, NEW list, NEW odd, DeskIs(h, cs, list, odd),
         NEW rel, NEW g, DOMAIN g = DOMAIN h \ {rel}, \A p \in DOMAIN g : g[p] = h[p]
  PROVE  DeskIs(g, cs, list, odd \cup {rel})
<1>1. Told(g, cs, list)
  BY DEF DeskIs, Told
<1>2. LeftBehind(g, cs, list, odd \cup {rel})
  BY DEF DeskIs, LeftBehind
<1> QED BY <1>1, <1>2 DEF DeskIs

\* Or the machine deleted: nothing is kept of it.
LEMMA DeskDeleted ==
  ASSUME NEW h, NEW cs, NEW list, NEW odd, DeskIs(h, cs, list, odd),
         NEW rel, NEW g, DOMAIN g = DOMAIN h \ {rel}, \A p \in DOMAIN g : g[p] = h[p]
  PROVE  DeskIs(g, [p \in DOMAIN cs \ {rel} |-> cs[p]], Forgotten(list, rel), odd \ {rel})
<1> DEFINE less == [p \in DOMAIN cs \ {rel} |-> cs[p]]
           kept == Forgotten(list, rel)
           wanted == {a \in ToSet(list) : a.rel # rel}
<1>1. /\ DOMAIN less = DOMAIN cs \ {rel}
      /\ \A p : p # rel => CommentAt(less, p) = CommentAt(cs, p)
  BY DEF CommentAt
<1>2. list \in Seq(Entries)
  BY DEF DeskIs
<1>3. kept \in Seq(Entries) /\ ToSet(kept) = ToSet(list) \cap wanted
  <2>1. kept = Selected(list, wanted)
    BY DEF Forgotten
  <2> HIDE DEF kept, wanted
  <2> QED BY <1>2, <2>1, SelectedIs
<1>4. \A a, p : Entry(a, p).rel = p
  BY DEF Entry
<1>5. Of(kept, rel) = {} /\ \A p : p # rel => Of(kept, p) = Of(list, p)
  BY <1>3, <1>4 DEF Of
<1> HIDE DEF less, kept
<1>6. Told(g, less, kept)
  BY <1>1, <1>5 DEF DeskIs, Told
<1>7. LeftBehind(g, less, kept, odd \ {rel})
  BY <1>1, <1>5 DEF DeskIs, LeftBehind
<1>8. DeskIs(g, less, kept, odd \ {rel})
  BY <1>1, <1>3, <1>6, <1>7 DEF DeskIs
<1> QED BY <1>8 DEF less, kept

\* What the machine says of one thing.
LEMMA DeskCommented ==
  ASSUME NEW h, NEW cs, NEW list, NEW odd, DeskIs(h, cs, list, odd),
         NEW rel \in DOMAIN h, NEW comment, NEW new,
         new = IF comment = None THEN [p \in DOMAIN cs \ {rel} |-> cs[p]] ELSE With(cs, rel, comment)
  PROVE  DeskIs([h EXCEPT ![rel].comment = comment], new, list, odd)
<1> DEFINE g == [h EXCEPT ![rel].comment = comment]
<1>1. /\ DOMAIN new \subseteq {rel} \cup DOMAIN cs /\ CommentAt(new, rel) = comment
      /\ \A p : p # rel => CommentAt(new, p) = CommentAt(cs, p)
      /\ \A p : p # rel => (p \in DOMAIN new <=> p \in DOMAIN cs)
  <2>1. CASE comment = None
    BY <2>1 DEF CommentAt
  <2>2. CASE comment # None
    <3>1. new = With(cs, rel, comment)
      BY <2>2
    <3>2. /\ DOMAIN new = {rel} \cup DOMAIN cs /\ new[rel] = comment
          /\ \A p \in DOMAIN cs : p # rel => new[p] = cs[p]
      BY <3>1 DEF With
    <3> QED BY <3>2 DEF CommentAt
  <2> QED BY <2>1, <2>2
<1>2. DeskFields \subseteq DOMAIN h[rel]
  BY DEF DeskIs, Told
<1>3. /\ DOMAIN g = DOMAIN h /\ g[rel] = [h[rel] EXCEPT !.comment = comment]
      /\ \A p \in DOMAIN h : p # rel => g[p] = h[p]
  OBVIOUS
<1> HIDE DEF g
<1>4. /\ DeskFields \subseteq DOMAIN g[rel] /\ g[rel].comment = comment
      /\ g[rel].creators = h[rel].creators /\ g[rel].own = h[rel].own
  BY <1>2, <1>3 DEF DeskFields
<1>5. Told(g, new, list)
  <2>1. ASSUME NEW p \in DOMAIN h, g[p].own
        PROVE  g[p].comment = CommentAt(new, p) /\ g[p].creators = Of(list, p)
    BY <1>1, <1>3, <1>4, <2>1 DEF DeskIs, Told
  <2>2. \A p \in DOMAIN h : DeskFields \subseteq DOMAIN g[p]
    BY <1>3, <1>4 DEF DeskIs, Told
  <2> QED BY <1>3, <2>1, <2>2 DEF Told
<1>6. LeftBehind(g, new, list, odd)
  BY <1>1, <1>3 DEF DeskIs, LeftBehind
<1> QED BY <1>1, <1>3, <1>5, <1>6 DEF DeskIs, g

\* The creators of some things, and the list with them.
LEMMA DeskCreators ==
  ASSUME NEW h, NEW cs, NEW list, NEW odd, DeskIs(h, cs, list, odd),
         NEW new \in Seq(Entries), NEW g, NEW some, DOMAIN g = DOMAIN h,
         \A p \in DOMAIN h \ some : g[p] = h[p],
         \A p \in DOMAIN h \cap some :
           g[p] = [h[p] EXCEPT !.creators = g[p].creators]
           /\ (h[p].creators = Of(list, p) => g[p].creators = Of(new, p)),
         \A p : p \notin some => Of(new, p) = Of(list, p),
         some \subseteq DOMAIN h
  PROVE  DeskIs(g, cs, new, odd)
<1>1. ASSUME NEW p \in DOMAIN h
      PROVE  /\ DeskFields \subseteq DOMAIN g[p] /\ g[p].own = h[p].own /\ g[p].comment = h[p].comment
  <2>1. DeskFields \subseteq DOMAIN h[p]
    BY DEF DeskIs, Told
  <2>2. CASE p \notin some
    BY <2>1, <2>2
  <2>3. CASE p \in some
    <3>1. g[p] = [h[p] EXCEPT !.creators = g[p].creators]
      BY <2>3
    <3>2. PICK x : g[p] = [h[p] EXCEPT !.creators = x]
      BY <3>1
    <3> QED BY <2>1, <3>2 DEF DeskFields
  <2> QED BY <2>2, <2>3
<1>2. ASSUME NEW p \in DOMAIN h, h[p].own
      PROVE  g[p].comment = CommentAt(cs, p) /\ g[p].creators = Of(new, p)
  <2>1. h[p].comment = CommentAt(cs, p) /\ h[p].creators = Of(list, p)
    BY <1>2 DEF DeskIs, Told
  <2> QED BY <1>1, <2>1
<1>3. Told(g, cs, new)
  BY <1>1, <1>2 DEF Told
<1>4. LeftBehind(g, cs, new, odd)
  BY DEF DeskIs, LeftBehind
<1> QED BY <1>3, <1>4 DEF DeskIs

MovedList(list, from, to) ==
  [i \in DOMAIN list |->
     [list[i] EXCEPT !.rel = IF IsPrefix(from, @) THEN Gone(@, from, to) ELSE @]]

\* An entry that moved is of what is now where it went.
LEMMA MovedListIs ==
  ASSUME NEW list \in Seq(Entries), NEW from \in Path, NEW to \in Path
  PROVE  /\ MovedList(list, from, to) \in Seq(Entries)
         /\ \A a, p : Entry(a, p) \in ToSet(MovedList(list, from, to)) <=>
              \E q : /\ Entry(a, q) \in ToSet(list)
                     /\ p = IF IsPrefix(from, q) THEN Gone(q, from, to) ELSE q
<1> DEFINE new == MovedList(list, from, to)
           Went(q) == IF IsPrefix(from, q) THEN Gone(q, from, to) ELSE q
<1>1. Len(list) \in Nat /\ DOMAIN list = 1..Len(list) /\ \A i \in 1..Len(list) : list[i] \in Entries
  BY LenProperties, ElementOfSeq
<1>2. ASSUME NEW i \in 1..Len(list)
      PROVE  /\ list[i] = Entry(list[i].creator, list[i].rel)
             /\ new[i] = Entry(list[i].creator, Went(list[i].rel))
             /\ new[i] \in Entries
  <2>1. list[i] \in Entries
    BY <1>1
  <2>2. PICK a \in Appl, q \in Path : list[i] = [creator |-> a, rel |-> q]
    BY <2>1 DEF Entries
  <2>3. new[i] = [list[i] EXCEPT !.rel = Went(list[i].rel)]
    BY <1>1 DEF MovedList
  <2> HIDE DEF new
  <2>4. Went(q) \in Path
    BY GoneIs
  <2>5. list[i].rel = q /\ list[i].creator = a
    BY <2>2
  <2> HIDE DEF Went
  <2>6. new[i] = [creator |-> a, rel |-> Went(q)]
    BY <2>2, <2>3, <2>5
  <2>7. new[i] \in Entries
    BY <2>4, <2>6 DEF Entries
  <2> QED BY <2>2, <2>5, <2>6, <2>7 DEF Entry
<1>3. DOMAIN new = 1..Len(list)
  BY <1>1 DEF MovedList
<1>4. new \in Seq(Entries)
  <2>1. new = [i \in 1..Len(list) |-> new[i]]
    BY <1>1 DEF MovedList
  <2> HIDE DEF new
  <2> QED BY <1>1, <1>2, <2>1
<1>5. ASSUME NEW a, NEW p
      PROVE  Entry(a, p) \in ToSet(new) <=> \E q : Entry(a, q) \in ToSet(list) /\ p = Went(q)
  <2> HIDE DEF new, Went
  <2>1. ASSUME Entry(a, p) \in ToSet(new)
        PROVE  \E q : Entry(a, q) \in ToSet(list) /\ p = Went(q)
    <3>1. PICK i \in 1..Len(list) : new[i] = Entry(a, p)
      BY <1>3, <2>1 DEF ToSet
    <3>2. Entry(a, p) = Entry(list[i].creator, Went(list[i].rel))
      BY <1>2, <3>1
    <3>3. a = list[i].creator /\ p = Went(list[i].rel)
      BY <3>2, EntriesApart
    <3>4. list[i] = Entry(a, list[i].rel)
      BY <1>2, <3>3
    <3>5. list[i] \in ToSet(list)
      BY <1>1 DEF ToSet
    <3> QED BY <3>3, <3>4, <3>5
  <2>2. ASSUME NEW q, Entry(a, q) \in ToSet(list), p = Went(q)
        PROVE  Entry(a, p) \in ToSet(new)
    <3>1. PICK i \in 1..Len(list) : list[i] = Entry(a, q)
      BY <1>1, <2>2 DEF ToSet
    <3>2. Entry(a, q) = Entry(list[i].creator, list[i].rel)
      BY <1>2, <3>1
    <3>3. a = list[i].creator /\ q = list[i].rel
      BY <3>2, EntriesApart
    <3>4. new[i] = Entry(a, p)
      BY <1>2, <2>2, <3>3
    <3> QED BY <1>3, <3>4 DEF ToSet
  <2> QED BY <2>1, <2>2
<1> QED BY <1>4, <1>5 DEF new, Went

\* What the host took from goes with the folder it was in.
OddMoved(odd, from, to) ==
  {IF IsPrefix(from, p) THEN Gone(p, from, to) ELSE p : p \in odd}
    \cup {p \in odd : IsPrefix(to, p)}

\* Comments and applications go with what they are of.
LEMMA DeskMoved ==
  ASSUME NEW h, NEW cs, NEW list, DeskIs(h, cs, list, strange),
         NEW from \in Path, NEW to \in Path, \A p \in DOMAIN h : ~IsPrefix(to, p)
  PROVE  DeskIs(MovedTruth(Without(h, to), from, to), Relocated(cs, from, to),
                MovedList(list, from, to), OddMoved(strange, from, to))
<1> DEFINE g == Without(h, to)
           k == Relocated(g, from, to)
           told == MovedTruth(g, from, to)
           new == Relocated(cs, from, to)
           entries == MovedList(list, from, to)
           odd == OddMoved(strange, from, to)
<1>1. DOMAIN h \subseteq Path /\ DOMAIN cs \subseteq Path /\ list \in Seq(Entries)
  BY DEF DeskIs
<1>2. DOMAIN g = DOMAIN h /\ \A p \in DOMAIN h : g[p] = h[p]
  <2>1. /\ DOMAIN g = {p \in DOMAIN h : ~IsPrefix(to, p)}
        /\ \A p \in DOMAIN g : g[p] = h[p]
    BY DEF Without
  <2> HIDE DEF g
  <2> QED BY <2>1
<1>3. /\ DOMAIN told = DOMAIN k
      /\ \A p \in DOMAIN k : told[p] = IF IsPrefix(to, p)
                                       THEN [k[p] EXCEPT !.own = @ /\ p \notin strange] ELSE k[p]
  BY DEF MovedTruth
<1> HIDE DEF g
<1>4. MovedThere(g, k, from, to) /\ StaysThere(g, k, from, to) /\ NoOther(g, k, from, to)
  BY <1>1, <1>2, RelocatedIs
<1>5. MovedThere(cs, new, from, to) /\ StaysThere(cs, new, from, to) /\ NoOther(cs, new, from, to)
  BY <1>1, RelocatedIs
<1>6. /\ entries \in Seq(Entries)
      /\ \A a, p : Entry(a, p) \in ToSet(entries) <=>
           \E q : /\ Entry(a, q) \in ToSet(list)
                  /\ p = IF IsPrefix(from, q) THEN Gone(q, from, to) ELSE q
  BY <1>1, MovedListIs
<1>7. \A a, p : Entry(a, p) \in ToSet(list) => p \in Path
  <2>1. ASSUME NEW a, NEW p, Entry(a, p) \in ToSet(list) PROVE p \in Path
    <3>1. Entry(a, p).rel \in Path
      BY <1>1, <2>1, EntriesAre
    <3> QED BY <3>1 DEF Entry
  <2> QED BY <2>1
<1> HIDE DEF k, told, new, entries, odd
\* Of what went, what is kept; nothing was kept where it went to, but of what
\* the host took there.
<1>8. ASSUME NEW q \in DOMAIN h, IsPrefix(from, q), Gone(q, from, to) \notin strange
      PROVE  /\ CommentAt(new, Gone(q, from, to)) = CommentAt(cs, q)
             /\ Of(entries, Gone(q, from, to)) = Of(list, q)
  <2> DEFINE p == Gone(q, from, to)
  <2>1. q \in Path /\ p \in Path /\ IsPrefix(to, p) /\ from \o Rest(p, to) = q
    BY <1>1, <1>8, GoneIs
  <2>2. p \notin DOMAIN h
    BY <2>1
  <2>3. p \notin DOMAIN cs /\ Of(list, p) = {} /\ p \notin strange
    BY <1>8, <2>1, <2>2 DEF DeskIs, LeftBehind
  <2> HIDE DEF p
  <2>4. ASSUME NEW r \in Path, IsPrefix(from, r), Gone(r, from, to) = p PROVE r = q
    BY <2>1, <2>4, GoneIs
  <2>5. CommentAt(new, p) = CommentAt(cs, q)
    <3>1. CASE q \in DOMAIN cs
      BY <1>5, <1>8, <3>1 DEF MovedThere, CommentAt, p
    <3>2. CASE q \notin DOMAIN cs
      <4>1. p \notin DOMAIN new
        BY <1>1, <1>5, <2>3, <2>4, <3>2 DEF NoOther
      <4> QED BY <3>2, <4>1 DEF CommentAt
    <3> QED BY <3>1, <3>2
  <2>6. ASSUME NEW a \in Appl
        PROVE  Entry(a, p) \in ToSet(entries) <=> Entry(a, q) \in ToSet(list)
    <3>1. ASSUME Entry(a, q) \in ToSet(list) PROVE Entry(a, p) \in ToSet(entries)
      BY <1>6, <1>8, <3>1 DEF p
    <3>2. ASSUME Entry(a, p) \in ToSet(entries) PROVE Entry(a, q) \in ToSet(list)
      <4>1. PICK r : /\ Entry(a, r) \in ToSet(list)
                     /\ p = IF IsPrefix(from, r) THEN Gone(r, from, to) ELSE r
        BY <1>6, <3>2
      <4>2. r \in Path
        BY <1>7, <4>1
      <4>3. CASE IsPrefix(from, r)
        BY <2>4, <4>1, <4>2, <4>3
      <4>4. CASE ~IsPrefix(from, r)
        <5>1. a \in Of(list, p)
          BY <4>1, <4>4 DEF Of
        <5> QED BY <2>3, <5>1
      <4> QED BY <4>3, <4>4
    <3> QED BY <3>1, <3>2
  <2> QED BY <2>5, <2>6 DEF Of, p
<1>9. ASSUME NEW p \in Path, ~IsPrefix(from, p), ~IsPrefix(to, p)
      PROVE  CommentAt(new, p) = CommentAt(cs, p) /\ Of(entries, p) = Of(list, p)
  <2>1. ASSUME NEW r \in Path, IsPrefix(from, r), Gone(r, from, to) = p PROVE FALSE
    BY <1>9, <2>1, GoneIs
  <2>2. CommentAt(new, p) = CommentAt(cs, p)
    <3>1. CASE p \in DOMAIN cs
      BY <1>5, <1>9, <3>1 DEF StaysThere, CommentAt
    <3>2. CASE p \notin DOMAIN cs
      <4>1. p \notin DOMAIN new
        BY <1>1, <1>5, <2>1, <3>2 DEF NoOther
      <4> QED BY <3>2, <4>1 DEF CommentAt
    <3> QED BY <3>1, <3>2
  <2>3. ASSUME NEW a \in Appl
        PROVE  Entry(a, p) \in ToSet(entries) <=> Entry(a, p) \in ToSet(list)
    BY <1>6, <1>7, <1>9, <2>1
  <2> QED BY <2>2, <2>3 DEF Of
<1>10. ASSUME NEW p \in DOMAIN told
       PROVE  /\ DeskFields \subseteq DOMAIN told[p]
              /\ told[p].own => told[p].comment = CommentAt(new, p) /\ told[p].creators = Of(entries, p)
  <2>1. CASE \E q \in DOMAIN g : IsPrefix(from, q) /\ p = Gone(q, from, to) /\ k[p] = g[q]
    <3>1. PICK q \in DOMAIN g : IsPrefix(from, q) /\ p = Gone(q, from, to) /\ k[p] = g[q]
      BY <2>1
    <3>2. q \in DOMAIN h /\ k[p] = h[q] /\ q \in Path
      BY <1>1, <1>2, <3>1
    <3>3. IsPrefix(to, p)
      BY <3>1, <3>2, GoneIs
    <3>4. told[p] = [h[q] EXCEPT !.own = h[q].own /\ p \notin strange]
      BY <1>3, <3>2, <3>3
    <3>5. DeskFields \subseteq DOMAIN h[q]
      BY <3>2 DEF DeskIs, Told
    <3>6. /\ DeskFields \subseteq DOMAIN told[p] /\ told[p].comment = h[q].comment
          /\ told[p].creators = h[q].creators /\ told[p].own = (h[q].own /\ p \notin strange)
      BY <3>4, <3>5 DEF DeskFields
    <3>7. ASSUME told[p].own
          PROVE  told[p].comment = CommentAt(new, p) /\ told[p].creators = Of(entries, p)
      <4>1. h[q].own /\ p \notin strange
        BY <3>6, <3>7
      <4>2. h[q].comment = CommentAt(cs, q) /\ h[q].creators = Of(list, q)
        BY <3>2, <4>1 DEF DeskIs, Told
      <4> QED BY <1>8, <3>1, <3>2, <3>6, <4>1, <4>2
    <3> QED BY <3>6, <3>7
  <2>2. CASE p \in DOMAIN g /\ ~IsPrefix(from, p) /\ k[p] = g[p]
    <3>1. p \in DOMAIN h /\ k[p] = h[p] /\ ~IsPrefix(to, p) /\ p \in Path
      BY <1>1, <1>2, <2>2
    <3>2. told[p] = h[p]
      BY <1>3, <3>1
    <3> QED BY <1>9, <2>2, <3>1, <3>2 DEF DeskIs, Told
  <2> QED BY <1>3, <1>4, <2>1, <2>2 DEF NoOther
<1>11. ASSUME NEW q \in Path, q \in DOMAIN cs \/ Of(list, q) # {},
              (IF IsPrefix(from, q) THEN Gone(q, from, to) ELSE q) \notin DOMAIN told
       PROVE  (IF IsPrefix(from, q) THEN Gone(q, from, to) ELSE q) \in odd
  <2>1. q \notin DOMAIN h
    <3>1. ASSUME q \in DOMAIN h PROVE FALSE
      BY <1>2, <1>3, <1>4, <1>11, <3>1 DEF MovedThere, StaysThere
    <3> QED BY <3>1
  <2>2. q \in strange
    BY <1>11, <2>1 DEF DeskIs, LeftBehind
  <2> QED BY <2>2 DEF odd, OddMoved
<1>12. LeftBehind(told, new, entries, odd)
  <2> SUFFICES ASSUME NEW p \in Path, p \notin DOMAIN told, p \in DOMAIN new \/ Of(entries, p) # {}
               PROVE  p \in odd
    BY DEF LeftBehind
  <2>1. CASE p \in DOMAIN new
    <3>1. PICK q \in DOMAIN cs : p = IF IsPrefix(from, q) THEN Gone(q, from, to) ELSE q
      BY <1>5, <2>1 DEF NoOther
    <3> QED BY <1>1, <1>11, <3>1
  <2>2. CASE Of(entries, p) # {}
    <3>1. PICK a \in Appl : Entry(a, p) \in ToSet(entries)
      BY <2>2 DEF Of
    <3>2. PICK q : /\ Entry(a, q) \in ToSet(list)
                   /\ p = IF IsPrefix(from, q) THEN Gone(q, from, to) ELSE q
      BY <1>6, <3>1
    <3>3. q \in Path /\ Of(list, q) # {}
      BY <1>7, <3>2 DEF Of
    <3> QED BY <1>11, <3>2, <3>3
  <2> QED BY <2>1, <2>2
<1>13. DOMAIN told \subseteq Path /\ DOMAIN new \subseteq Path
  <2>1. ASSUME NEW f, DOMAIN f \subseteq Path, NEW m, NoOther(f, m, from, to) PROVE DOMAIN m \subseteq Path
    BY <2>1, GoneIs DEF NoOther
  <2> QED BY <1>1, <1>2, <1>3, <1>4, <1>5, <2>1
<1>14. Told(told, new, entries)
  BY <1>10 DEF Told
<1>15. DeskIs(told, new, entries, odd)
  BY <1>6, <1>12, <1>13, <1>14 DEF DeskIs
<1> QED BY <1>15 DEF told, new, entries, odd, g

-----------------------------------------------------------------------------
(* What each call does to them.                                            *)

DesktopIInv ==
  /\ DOMAIN truth = DOMAIN host
  /\ FolderIs(host)
  /\ DeskIs(truth, comments, applications, strange)

\* Two names of a folder are told apart by the machine, and it gives none that
\* the host would hide or that it could not read back.
ToldApart ==
  /\ ~HostMakesAlike
  /\ \A n \in NewNames : Shows(n)
  /\ \A folder \in Initial : NoneAlike(folder)

LEMMA StillDesk ==
  ASSUME DesktopIInv, SameFolder(host, host'), SameDesk(truth, truth'),
         UNCHANGED <<comments, applications, strange>>
  PROVE  DesktopIInv'
<1>1. FolderIs(host')
  BY FolderSame DEF DesktopIInv
<1>2. DeskIs(truth', comments, applications, strange)
  BY DeskSame DEF DesktopIInv
<1>3. DOMAIN truth' = DOMAIN host'
  BY DEF DesktopIInv, SameFolder, SameDesk
<1> QED BY <1>1, <1>2, <1>3 DEF DesktopIInv

LEMMA SameFolderSelf == SameFolder(host, host)
  BY DEF SameFolder

LEMMA OnlyNumbersDesk ==
  ASSUME DesktopIInv, NEW numbers, NEW named, OnlyNumbers(numbers, named)
  PROVE  DesktopIInv'
<1>1. /\ truth' = Stamped(truth, numbers, named)
      /\ UNCHANGED <<host, comments, applications, strange>>
  BY DEF OnlyNumbers, deskVars
<1> QED BY <1>1, SameDeskStamped, SameFolderSelf, StillDesk

LEMMA RefusedDesk ==
  ASSUME DesktopIInv, NEW at, Refused(at)
  PROVE  DesktopIInv'
  BY OnlyNumbersDesk DEF Refused

LEMMA SetParmsDesk ==
  ASSUME DesktopIInv, NEW asked, NEW finder, NEW outcome, SetParms(asked, finder, outcome)
  PROVE  DesktopIInv'
<1> DEFINE at == Resolve(asked)
           rel == Rel(at)
           numbers == Resolved(ids, at)
           known == Stamped(truth, numbers, Named(at))
           result == Allowed(rel, outcome)
<1>1. CASE ~Exists(at)
  <2>1. Refused(at)
    BY <1>1 DEF SetParms
  <2> QED BY <2>1, RefusedDesk
<1>2. CASE Exists(at)
  <2>1. /\ UNCHANGED <<host, comments, applications, strange>>
        /\ \/ truth' = known
           \/ truth' = CASE result = "written" -> [known EXCEPT ![rel].meta.finder = finder]
                              [] result = "cut" -> [known EXCEPT ![rel].own = FALSE]
                              [] OTHER -> known
    BY <1>2 DEF SetParms, deskVars
  <2>2. SameDesk(truth, known)
    BY SameDeskStamped
  <2> HIDE DEF known, result, rel, at
  <2>3. \/ truth' = known \/ truth' = [known EXCEPT ![rel].meta.finder = finder]
        \/ truth' = [known EXCEPT ![rel].own = FALSE]
    BY <2>1
  <2>4. SameDesk(known, truth')
    BY <2>3 DEF SameDesk, DeskFields
  <2>5. SameDesk(truth, truth')
    BY <2>2, <2>4, SameDeskOn
  <2> QED BY <2>1, <2>5, SameFolderSelf, StillDesk
<1> QED BY <1>1, <1>2

\* Something new comes in a folder, with a name none in it has.
LEMMA NewDesk ==
  ASSUME DesktopIInv, NEW rel \in Path, rel \notin DOMAIN host, rel # Root,
         IsDir(ParentOf(rel)), Unlike(host, ParentOf(rel), Last(rel), {}),
         NEW thing, "dir" \in DOMAIN thing, host' = With(host, rel, thing),
         NEW meta, SameDesk(With(truth, rel, Untold(meta, rel \notin strange)), truth'),
         UNCHANGED <<comments, applications, strange>>
  PROVE  DesktopIInv'
<1> DEFINE h == With(truth, rel, Untold(meta, rel \notin strange))
<1>1. FolderIs(host')
  <2>1. ParentOf(rel) \in DOMAIN host /\ host[ParentOf(rel)].dir /\ FolderIs(host)
    BY DEF IsDir, DesktopIInv
  <2> QED BY <2>1, FolderWith
<1>2. DeskIs(h, comments, applications, strange) /\ DOMAIN h = DOMAIN With(host, rel, thing)
  <2>1. DeskIs(truth, comments, applications, strange) /\ DOMAIN truth = DOMAIN host
    BY DEF DesktopIInv
  <2>2. DeskIs(h, comments, applications, strange)
    BY <2>1, DeskWith
  <2>3. DOMAIN h = DOMAIN With(host, rel, thing)
    BY <2>1 DEF With
  <2> QED BY <2>2, <2>3
<1> HIDE DEF h
<1>3. DeskIs(truth', comments, applications, strange)
  BY <1>2, DeskSame DEF h
<1>4. DOMAIN truth' = DOMAIN host'
  BY <1>2 DEF SameDesk, h
<1> QED BY <1>1, <1>3, <1>4 DEF DesktopIInv

\* Where nothing was found by a name, there is none like it.
LEMMA NotFoundUnlike ==
  ASSUME FolderIs(host), NEW folder \in Path, NEW name, ~name.mangled,
         Lookup(folder, name) = None
  PROVE  /\ Unlike(host, folder, name.of, {})
         /\ name.of \in Names /\ Shows(name.of) => Append(folder, name.of) \notin DOMAIN host
<1>1. ASSUME NEW q \in DOMAIN host \ {Root}, ParentOf(q) = folder, Shows(Last(q)),
             Fold[Last(q)] = Fold[name.of]
      PROVE  FALSE
  <2>1. q \in Path /\ q # Root
    BY <1>1 DEF FolderIs, InFolders
  <2>2. Last(q) \in Names /\ Append(folder, Last(q)) = q
    BY <1>1, <2>1, ParentIsPath
  <2>3. Lookup(folder, name) = Last(q)
    BY <1>1, <2>2, LooksUpShown DEF FolderIs
  <2> QED BY <2>2, <2>3, FolderAssumption
<1>2. ASSUME name.of \in Names, Shows(name.of), Append(folder, name.of) \in DOMAIN host
      PROVE  FALSE
  <2>1. Lookup(folder, name) = name.of
    BY <1>2, LooksUpShown DEF FolderIs
  <2> QED BY <1>2, <2>1, FolderAssumption
<1> QED BY <1>1, <1>2 DEF Unlike

\* The place a name leads to in which nothing is found.
LEMMA NewPlace ==
  ASSUME FolderIs(host), NEW at, Placed(at), ~Exists(at), at.ok, ~at.name.mangled,
         at.name.of \in Names, Shows(at.name.of)
  PROVE  LET new == NewRel(at.folder, at.name) IN
         /\ new \in Path /\ new # Root /\ new \notin DOMAIN host
         /\ ParentOf(new) = at.folder /\ Last(new) = at.name.of
         /\ IsDir(ParentOf(new)) /\ Unlike(host, ParentOf(new), Last(new), {})
<1> DEFINE new == NewRel(at.folder, at.name)
<1>1. at.name # None /\ at.found = None /\ IsDir(at.folder) /\ at.folder \in Path
      /\ Lookup(at.folder, at.name) = None
  BY DEF Exists, Placed
<1>2. /\ new \in Path /\ new # Root /\ ParentOf(new) = at.folder /\ Last(new) = at.name.of
  BY <1>1, Appended DEF NewRel
<1>3. Unlike(host, at.folder, at.name.of, {}) /\ new \notin DOMAIN host
  BY <1>1, NotFoundUnlike DEF NewRel
<1> QED BY <1>1, <1>2, <1>3

LEMMA CreateFileDesk ==
  ASSUME ToldApart, NumbersIInv, DesktopIInv, NEW asked \in Asked, NEW hard, NEW outcome,
         CreateFile(asked, hard, outcome)
  PROVE  DesktopIInv'
<1> DEFINE at == Resolve(asked)
           rel == Rel(at)
           numbers == Resolved(ids, at)
           known == Stamped(truth, numbers, Named(at))
           new == NewRel(at.folder, at.name)
<1>1. Placed(at) /\ FolderIs(host)
  BY ResolveIs DEF NumbersIInv, DesktopIInv
<1>2. \/ Refused(at)
      \/ /\ host' = [host EXCEPT ![rel].data = <<>>]
         /\ truth' = [known EXCEPT ![rel].meta = NoMeta, ![rel].own = @ /\ outcome = "written"]
         /\ UNCHANGED <<comments, applications, strange>>
      \/ /\ ~Exists(at) /\ at.ok /\ ~at.name.mangled /\ at.name.of \in NewNames
         /\ host' = With(host, new, [dir |-> FALSE, locked |-> FALSE, data |-> <<>>])
         /\ truth' = With(known, new, Untold(Metadata(new), new \notin strange))
         /\ UNCHANGED <<comments, applications, strange>>
  BY DEF CreateFile, Made, deskVars
<1>3. SameDesk(truth, known)
  BY SameDeskStamped
<1> HIDE DEF at, known
<1>4. CASE Refused(at)
  BY <1>4, RefusedDesk
<1>5. CASE /\ host' = [host EXCEPT ![rel].data = <<>>]
           /\ truth' = [known EXCEPT ![rel].meta = NoMeta, ![rel].own = @ /\ outcome = "written"]
           /\ UNCHANGED <<comments, applications, strange>>
  <2> HIDE DEF rel
  <2>1. SameFolder(host, host')
    BY <1>5 DEF SameFolder
  <2>2. SameDesk(known, truth')
    <3> DEFINE once == [known EXCEPT ![rel].meta = NoMeta]
               twice == [once EXCEPT ![rel].own = @ /\ outcome = "written"]
    <3>1. SameDesk(known, once)
      BY DEF SameDesk, DeskFields
    <3>2. truth' = twice
      BY <1>5
    <3> HIDE DEF once
    <3>3. SameDesk(once, twice)
      BY DEF SameDesk, DeskFields
    <3> HIDE DEF twice
    <3> QED BY <3>1, <3>2, <3>3, SameDeskOn
  <2>3. SameDesk(truth, truth')
    BY <1>3, <2>2, SameDeskOn
  <2> QED BY <1>5, <2>1, <2>3, StillDesk
<1>6. CASE /\ ~Exists(at) /\ at.ok /\ ~at.name.mangled /\ at.name.of \in NewNames
           /\ host' = With(host, new, [dir |-> FALSE, locked |-> FALSE, data |-> <<>>])
           /\ truth' = With(known, new, Untold(Metadata(new), new \notin strange))
           /\ UNCHANGED <<comments, applications, strange>>
  <2>1. at.name.of \in Names /\ Shows(at.name.of)
    BY <1>6, VolumeAssumption DEF ToldApart
  <2>2. /\ new \in Path /\ new # Root /\ new \notin DOMAIN host
        /\ IsDir(ParentOf(new)) /\ Unlike(host, ParentOf(new), Last(new), {})
    BY <1>1, <1>6, <2>1, NewPlace
  <2> HIDE DEF new
  <2> DEFINE thing == [dir |-> FALSE, locked |-> FALSE, data |-> <<>>]
             mine == Untold(Metadata(new), new \notin strange)
  <2>3. "dir" \in DOMAIN thing /\ host' = With(host, new, thing)
    BY <1>6
  <2>4. SameDesk(With(truth, new, mine), With(known, new, mine))
    <3> HIDE DEF mine
    <3> QED BY <1>3 DEF SameDesk, With
  <2> HIDE DEF thing
  <2>5. SameDesk(With(truth, new, Untold(Metadata(new), new \notin strange)), truth')
    BY <1>6, <2>4
  <2> QED BY <1>6, <2>2, <2>3, <2>5, NewDesk
<1> QED BY <1>2, <1>4, <1>5, <1>6

LEMMA CreateDirDesk ==
  ASSUME ToldApart, NumbersIInv, DesktopIInv, NEW asked \in Asked, CreateDir(asked)
  PROVE  DesktopIInv'
<1> DEFINE at == Resolve(asked)
           new == NewRel(at.folder, at.name)
           numbers == Number(ids, new)
           told == With(truth, new, Untold(Metadata(new), new \notin strange))
<1>1. Placed(at) /\ FolderIs(host)
  BY ResolveIs DEF NumbersIInv, DesktopIInv
<1>2. \/ Refused(at)
      \/ /\ ~Exists(at) /\ at.ok /\ ~at.name.mangled /\ at.name.of \in NewNames
         /\ host' = With(host, new, [dir |-> TRUE, locked |-> FALSE, data |-> <<>>])
         /\ truth' = Stamped(told, numbers, {new})
         /\ UNCHANGED <<comments, applications, strange>>
  BY DEF CreateDir, Made, deskVars
<1> HIDE DEF at
<1>3. CASE Refused(at)
  BY <1>3, RefusedDesk
<1>4. CASE /\ ~Exists(at) /\ at.ok /\ ~at.name.mangled /\ at.name.of \in NewNames
           /\ host' = With(host, new, [dir |-> TRUE, locked |-> FALSE, data |-> <<>>])
           /\ truth' = Stamped(told, numbers, {new})
           /\ UNCHANGED <<comments, applications, strange>>
  <2>1. at.name.of \in Names /\ Shows(at.name.of)
    BY <1>4, VolumeAssumption DEF ToldApart
  <2>2. /\ new \in Path /\ new # Root /\ new \notin DOMAIN host
        /\ IsDir(ParentOf(new)) /\ Unlike(host, ParentOf(new), Last(new), {})
    BY <1>1, <1>4, <2>1, NewPlace
  <2> HIDE DEF new
  <2> DEFINE thing == [dir |-> TRUE, locked |-> FALSE, data |-> <<>>]
  <2>3. "dir" \in DOMAIN thing /\ host' = With(host, new, thing)
    BY <1>4
  <2> HIDE DEF thing
  <2>4. SameDesk(With(truth, new, Untold(Metadata(new), new \notin strange)), truth')
    BY <1>4, SameDeskStamped
  <2> QED BY <1>4, <2>2, <2>3, <2>4, NewDesk
<1> QED BY <1>2, <1>3, <1>4

\* Something with nothing in it is there no more.
LEMMA LastInIt ==
  ASSUME DesktopIInv, NEW rel \in DOMAIN host, rel # Root, Inside(rel) = {}
  PROVE  /\ FolderIs(Without(host, rel)) /\ DOMAIN Without(host, rel) = DOMAIN host \ {rel}
         /\ DOMAIN Without(truth, rel) = DOMAIN truth \ {rel}
         /\ \A p \in DOMAIN Without(truth, rel) : Without(truth, rel)[p] = truth[p]
<1>1. \A p \in DOMAIN host : IsPrefix(rel, p) => p = rel
  BY DEF Inside
<1>2. FolderIs(Without(host, rel)) /\ DOMAIN Without(host, rel) = DOMAIN host \ {rel}
  BY <1>1, FolderWithout DEF DesktopIInv
<1>3. /\ DOMAIN Without(truth, rel) = {p \in DOMAIN truth : ~IsPrefix(rel, p)}
      /\ \A p \in DOMAIN Without(truth, rel) : Without(truth, rel)[p] = truth[p]
  BY DEF Without
<1>4. DOMAIN Without(host, rel) = {p \in DOMAIN host : ~IsPrefix(rel, p)}
  BY DEF Without
<1> QED BY <1>2, <1>3, <1>4 DEF DesktopIInv

LEMMA DeleteDesk ==
  ASSUME NumbersIInv, DesktopIInv, NEW asked \in Asked, Delete(asked)
  PROVE  DesktopIInv'
<1> DEFINE at == Resolve(asked)
           rel == Rel(at)
<1>1. Placed(at) /\ InFolders(host)
  BY ResolveIs DEF NumbersIInv, DesktopIInv, FolderIs
<1>2. \/ Refused(at)
      \/ /\ truth' = Stamped(truth, Resolved(ids, at), Named(at))
         /\ UNCHANGED <<host, comments, applications, strange>>
      \/ /\ Exists(at) /\ rel # Root /\ Inside(rel) = {}
         /\ host' = Without(host, rel)
         /\ comments' = [p \in DOMAIN comments \ {rel} |-> comments[p]]
         /\ applications' = Forgotten(applications, rel)
         /\ truth' = Without(truth, rel)
         /\ strange' = strange \ {rel}
  BY DEF Delete, deskVars
<1> HIDE DEF at
<1>3. CASE Refused(at)
  BY <1>3, RefusedDesk
<1>4. CASE /\ truth' = Stamped(truth, Resolved(ids, at), Named(at))
           /\ UNCHANGED <<host, comments, applications, strange>>
  BY <1>4, SameDeskStamped, SameFolderSelf, StillDesk
<1>5. CASE /\ Exists(at) /\ rel # Root /\ Inside(rel) = {}
           /\ host' = Without(host, rel)
           /\ comments' = [p \in DOMAIN comments \ {rel} |-> comments[p]]
           /\ applications' = Forgotten(applications, rel)
           /\ truth' = Without(truth, rel)
           /\ strange' = strange \ {rel}
  <2>1. rel \in DOMAIN host
    BY <1>1, <1>5, RelThere
  <2> HIDE DEF rel
  <2>2. /\ FolderIs(host') /\ DOMAIN host' = DOMAIN host \ {rel}
        /\ DOMAIN truth' = DOMAIN truth \ {rel}
        /\ \A p \in DOMAIN truth' : truth'[p] = truth[p]
    BY <1>5, <2>1, LastInIt
  <2>3. DeskIs(truth', comments', applications', strange')
    BY <1>5, <2>2, DeskDeleted DEF DesktopIInv
  <2> QED BY <2>2, <2>3 DEF DesktopIInv
<1> QED BY <1>2, <1>3, <1>4, <1>5

LEMMA HostDesk ==
  ASSUME ToldApart, DesktopIInv, HostActs
  PROVE  DesktopIInv'
<1>1. ASSUME NEW rel \in Paths, HostTakes(rel)
      PROVE  DesktopIInv'
  <2>1. /\ rel \in DOMAIN host /\ rel # Root /\ Inside(rel) = {}
        /\ host' = Without(host, rel) /\ truth' = Without(truth, rel)
        /\ comments' = comments /\ applications' = applications /\ strange' = strange \cup {rel}
    BY <1>1 DEF HostTakes, deskVars
  <2>2. /\ FolderIs(host') /\ DOMAIN host' = DOMAIN host \ {rel}
        /\ DOMAIN truth' = DOMAIN truth \ {rel}
        /\ \A p \in DOMAIN truth' : truth'[p] = truth[p]
    BY <2>1, LastInIt
  <2>3. DeskIs(truth', comments', applications', strange')
    BY <2>1, <2>2, DeskTaken DEF DesktopIInv
  <2> QED BY <2>2, <2>3 DEF DesktopIInv
<1>2. ASSUME NEW rel \in Paths, NEW dir, NEW locked, NEW meta, HostMakes(rel, dir, locked, meta)
      PROVE  DesktopIInv'
  <2> DEFINE thing == [dir |-> dir, locked |-> locked, data |-> <<>>]
             name == Plain(Last(rel))
  <2>1. /\ rel \notin DOMAIN host /\ IsDir(ParentOf(rel)) /\ Lookup(ParentOf(rel), name) = None
        /\ host' = With(host, rel, thing)
        /\ UNCHANGED <<comments, applications, strange>>
    BY <1>2 DEF HostMakes, deskVars, ToldApart
  <2>2. PICK x : truth' = With(truth, rel, Untold(x, rel \notin strange))
    BY <1>2 DEF HostMakes
  <2>3. rel \in Path /\ rel # Root /\ FolderIs(host)
    BY <2>1, PathsArePaths DEF DesktopIInv, FolderIs, InFolders
  <2>4. name.of = Last(rel) /\ ~name.mangled /\ ParentOf(rel) \in Path
    BY <2>3, ParentIsPath DEF Plain
  <2>5. "dir" \in DOMAIN thing
    OBVIOUS
  <2> HIDE DEF name, thing
  <2>6. Unlike(host, ParentOf(rel), Last(rel), {})
    BY <2>1, <2>3, <2>4, NotFoundUnlike
  <2>7. SameDesk(With(truth, rel, Untold(x, rel \notin strange)), truth')
    BY <2>2, SameDeskSelf
  <2> QED BY <2>1, <2>3, <2>5, <2>6, <2>7, NewDesk
<1> QED BY <1>1, <1>2 DEF HostActs

\* What is free to be moved to.
LEMMA FreePlace ==
  ASSUME FolderIs(host), NEW rel \in DOMAIN host, rel # Root, NEW folder \in Path, NEW name,
         ~name.mangled, name.of \in Names, Shows(name.of),
         Lookup(folder, name) = None
           \/ (folder = ParentOf(rel) /\ Lookup(folder, name) = Last(rel)),
         Append(folder, name.of) # rel
  PROVE  /\ Append(folder, name.of) \in Path /\ Append(folder, name.of) \notin DOMAIN host
         /\ Unlike(host, folder, name.of, {rel})
         /\ \A p \in DOMAIN host : ~IsPrefix(Append(folder, name.of), p)
<1> DEFINE to == Append(folder, name.of)
<1>1. InFolders(host) /\ NoneAlike(host) /\ rel \in Path
  BY DEF FolderIs, InFolders
<1>2. Append(ParentOf(rel), Last(rel)) = rel
  BY <1>1, ParentIsPath
<1>3. to \in Path
  BY Appended
<1>4. to \notin DOMAIN host
  <2> SUFFICES ASSUME to \in DOMAIN host PROVE FALSE
    OBVIOUS
  <2>1. Lookup(folder, name) = name.of
    BY <1>1, LooksUpShown
  <2>2. name.of # None
    BY FolderAssumption
  <2> QED BY <1>2, <2>1, <2>2
<1>5. ASSUME NEW q \in DOMAIN host \ {Root}, ParentOf(q) = folder, Shows(Last(q)),
             Fold[Last(q)] = Fold[name.of]
      PROVE  q = rel
  <2>1. q \in Path /\ q # Root
    BY <1>1, <1>5 DEF InFolders
  <2>2. Last(q) \in Names /\ Append(folder, Last(q)) = q
    BY <1>5, <2>1, ParentIsPath
  <2>3. Lookup(folder, name) = Last(q)
    BY <1>1, <1>5, <2>2, LooksUpShown
  <2>4. Last(q) # None
    BY <2>2, FolderAssumption
  <2> QED BY <1>2, <2>2, <2>3, <2>4
<1>6. ASSUME NEW p \in DOMAIN host, IsPrefix(to, p)
      PROVE  FALSE
  BY <1>1, <1>3, <1>4, <1>6, FoldersAbove
<1> QED BY <1>3, <1>4, <1>5, <1>6 DEF Unlike

\* Nothing taken out.
LEMMA NothingWithout ==
  ASSUME NEW f, NEW rel, \A p \in DOMAIN f : ~IsPrefix(rel, p)
  PROVE  DOMAIN Without(f, rel) = DOMAIN f /\ \A p \in DOMAIN f : Without(f, rel)[p] = f[p]
BY DEF Without

LEMMA RelocatedDomain ==
  ASSUME NEW f, NEW g, DOMAIN f = DOMAIN g, NEW from, NEW to
  PROVE  DOMAIN Relocated(f, from, to) = DOMAIN Relocated(g, from, to)
BY DEF Relocated

\* The folder relocated is the same whatever was to be taken out of it.
LEMMA RelocatedSame ==
  ASSUME NEW f, NEW g, DOMAIN f = DOMAIN g, \A p \in DOMAIN f : f[p] = g[p],
         NEW from \in Path, NEW to \in Path, DOMAIN f \subseteq Path
  PROVE  SameFolder(Relocated(f, from, to), Relocated(g, from, to))
<1> DEFINE a == Relocated(f, from, to)
           b == Relocated(g, from, to)
<1>1. DOMAIN a = DOMAIN b
  BY RelocatedDomain
<1>2. ASSUME NEW p \in DOMAIN a
      PROVE  b[p] = a[p]
  <2> DEFINE was == from \o SubSeq(p, Len(to) + 1, Len(p))
             went == {q \in DOMAIN f : IsPrefix(from, q)}
             kept == {q \in DOMAIN f : ~IsPrefix(from, q)}
  <2>1. went = {q \in DOMAIN g : IsPrefix(from, q)} /\ kept = {q \in DOMAIN g : ~IsPrefix(from, q)}
    OBVIOUS
  <2>2. a[p] = IF IsPrefix(to, p) /\ was \in went THEN f[was] ELSE f[p]
    BY <1>2 DEF Relocated
  <2>3. b[p] = IF IsPrefix(to, p) /\ was \in went THEN g[was] ELSE g[p]
    BY <1>1, <1>2, <2>1 DEF Relocated
  <2>4. p \in {Gone(q, from, to) : q \in went} \cup kept
    BY <1>2 DEF Relocated
  <2>5. p \in {Gone(q, from, to) : q \in went} => IsPrefix(to, p) /\ was \in went
    <3>1. ASSUME NEW q \in went, p = Gone(q, from, to)
          PROVE  IsPrefix(to, p) /\ was \in went
      <4>1. q \in Path /\ IsPrefix(from, q)
        OBVIOUS
      <4>2. IsPrefix(to, p) /\ from \o Rest(p, to) = q
        BY <3>1, <4>1, GoneIs
      <4>3. was = q
        BY <4>2 DEF Rest
      <4> QED BY <4>2, <4>3
    <3> QED BY <3>1
  <2>6. was \in went => f[was] = g[was]
    OBVIOUS
  <2> HIDE DEF was, went
  <2> QED BY <2>2, <2>3, <2>4, <2>5, <2>6
<1> HIDE DEF a, b
<1> QED BY <1>1, <1>2 DEF SameFolder, a, b

LEMMA MoveDesk ==
  ASSUME DesktopIInv, NEW numbers, NEW history, SameDesk(truth, history),
         NEW rel \in DOMAIN host, rel # Root, NEW folder \in Path, NEW name,
         IsDir(folder) => ~IsPrefix(rel, folder),
         ~name.mangled, name.of \in Names, Shows(name.of),
         Move(numbers, history, rel, folder, name)
  PROVE  DesktopIInv'
<1> DEFINE there == Lookup(folder, name)
           to == NewRel(folder, name)
<1>1. \/ truth' = history /\ UNCHANGED <<host, comments, applications, strange>>
      \/ /\ IsDir(folder) /\ to # rel
         /\ there = None \/ (folder = ParentOf(rel) /\ there = Last(rel))
         /\ host' = Relocated(Without(host, to), rel, to)
         /\ comments' = Relocated(comments, rel, to)
         /\ applications' = MovedList(applications, rel, to)
         /\ truth' = MovedTruth(Without(history, to), rel, to)
         /\ strange' = OddMoved(strange, rel, to)
  BY DEF Move, MovedDesktop, MovedList, OddMoved, deskVars
<1>2. CASE truth' = history /\ UNCHANGED <<host, comments, applications, strange>>
  BY <1>2, SameFolderSelf, StillDesk
<1>3. CASE /\ IsDir(folder) /\ to # rel
           /\ there = None \/ (folder = ParentOf(rel) /\ there = Last(rel))
           /\ host' = Relocated(Without(host, to), rel, to)
           /\ comments' = Relocated(comments, rel, to)
           /\ applications' = MovedList(applications, rel, to)
           /\ truth' = MovedTruth(Without(history, to), rel, to)
           /\ strange' = OddMoved(strange, rel, to)
  <2>1. FolderIs(host) /\ InFolders(host) /\ rel \in Path /\ DOMAIN host \subseteq Path
    BY DEF DesktopIInv, FolderIs, InFolders
  <2>2. /\ to \in Path /\ to \notin DOMAIN host /\ Unlike(host, folder, name.of, {rel})
        /\ \A p \in DOMAIN host : ~IsPrefix(to, p)
    BY <1>3, <2>1, FreePlace DEF NewRel
  <2>3. FolderIs(Relocated(host, rel, to))
    BY <1>3, <2>1, <2>2, FolderRelocated DEF NewRel, IsDir
  <2> HIDE DEF to, there
  <2>4. /\ DOMAIN Without(host, to) = DOMAIN host
        /\ \A p \in DOMAIN host : Without(host, to)[p] = host[p]
    BY <2>2, NothingWithout
  <2>5. SameFolder(Relocated(host, rel, to), host')
    BY <1>3, <2>1, <2>2, <2>4, RelocatedSame
  <2>6. FolderIs(host')
    BY <2>3, <2>5, FolderSame
  <2>7. DeskIs(history, comments, applications, strange) /\ DOMAIN history = DOMAIN host
    BY DeskSame DEF DesktopIInv, SameDesk
  <2>8. DeskIs(truth', comments', applications', strange')
    BY <1>3, <2>1, <2>2, <2>7, DeskMoved
  <2>9. DOMAIN truth' = DOMAIN host'
    <3>1. DOMAIN truth' = DOMAIN Relocated(Without(history, to), rel, to)
      BY <1>3 DEF MovedTruth
    <3>2. DOMAIN Without(history, to) = DOMAIN Without(host, to)
      BY <2>7 DEF Without
    <3> QED BY <1>3, <3>1, <3>2, RelocatedDomain
  <2> QED BY <2>6, <2>8, <2>9 DEF DesktopIInv
<1> QED BY <1>1, <1>2, <1>3

LEMMA RenameDesk ==
  ASSUME ToldApart, NumbersIInv, DesktopIInv, NEW asked \in Asked, NEW name, Rename(asked, name)
  PROVE  DesktopIInv'
<1> DEFINE at == Resolve(asked)
           rel == Rel(at)
           numbers == Resolved(ids, at)
           history == Stamped(truth, numbers, {rel})
<1>1. Placed(at) /\ name \in NewNames /\ name \in Names /\ Shows(name) /\ InFolders(host)
  BY ResolveIs, VolumeAssumption DEF NumbersIInv, DesktopIInv, FolderIs, Rename, ToldApart
<1>2. IF ~Exists(at) \/ rel = Root THEN Refused(at)
      ELSE Move(numbers, history, rel, ParentOf(rel), Plain(name))
  BY DEF Rename
<1> HIDE DEF at
<1>3. CASE ~Exists(at) \/ rel = Root
  BY <1>2, <1>3, RefusedDesk
<1>4. CASE ~(~Exists(at) \/ rel = Root)
  <2>1. rel \in DOMAIN host /\ rel # Root /\ rel \in Path
    BY <1>1, <1>4, RelThere, RelIs
  <2>2. Move(numbers, history, rel, ParentOf(rel), Plain(name))
    BY <1>2, <1>4
  <2>3. SameDesk(truth, history)
    BY SameDeskStamped
  <2> HIDE DEF rel, history, numbers
  <2>4. ParentOf(rel) \in Path /\ ~IsPrefix(rel, ParentOf(rel))
    BY <2>1, ParentFirst
  <2>5. ~Plain(name).mangled /\ Plain(name).of = name
    BY DEF Plain
  <2> QED BY <1>1, <2>1, <2>2, <2>3, <2>4, <2>5, MoveDesk
<1> QED BY <1>3, <1>4

LEMMA MoveAndRenameDesk ==
  ASSUME ToldApart, NumbersIInv, DesktopIInv, NEW asked \in Asked, NEW askedTo \in Asked, NEW name,
         MoveAndRename(asked, askedTo, name)
  PROVE  DesktopIInv'
<1> DEFINE from == Resolve(asked)
           to == Resolve(askedTo)
           rel == Rel(from)
           folder == Rel(to)
           seen == Resolved(ids, from)
           numbers == IF Exists(from) THEN Resolved(seen, to) ELSE seen
           named == IF Exists(from) THEN Named(from) \cup Named(to) ELSE {}
           own == NameOf(ParentOf(rel), Last(rel))
           given == IF name = None THEN own ELSE Plain(name)
<1>1. /\ Placed(from) /\ Placed(to) /\ InFolders(host)
      /\ name \in NewNames \cup {None} /\ NewNames \subseteq Names /\ \A n \in NewNames : Shows(n)
  BY ResolveIs, VolumeAssumption
     DEF NumbersIInv, DesktopIInv, FolderIs, MoveAndRename, ToldApart
<1>2. \/ OnlyNumbers(numbers, named)
      \/ /\ Exists(from) /\ Exists(to) /\ rel # Root
         /\ ~(host[rel].dir /\ IsPrefix(rel, folder))
         /\ name = None => ~own.mangled
         /\ Move(numbers, Stamped(truth, numbers, named), rel, folder, given)
  BY DEF MoveAndRename
<1> HIDE DEF from, to, numbers, named
<1>3. CASE OnlyNumbers(numbers, named)
  BY <1>3, OnlyNumbersDesk
<1>4. CASE /\ Exists(from) /\ Exists(to) /\ rel # Root
           /\ ~(host[rel].dir /\ IsPrefix(rel, folder))
           /\ name = None => ~own.mangled
           /\ Move(numbers, Stamped(truth, numbers, named), rel, folder, given)
  <2>1. /\ rel \in Path /\ folder \in Path /\ rel \in DOMAIN host /\ folder \in DOMAIN host
        /\ Last(rel) \in Names \ Hidden
    BY <1>1, <1>4, RelIs, RelThere
  <2> HIDE DEF rel, folder
  <2>2. IsDir(folder) => ~IsPrefix(rel, folder)
    BY <1>1, <1>4, <2>1, FoldersAbove DEF IsDir
  <2>3. ~given.mangled /\ given.of \in Names /\ Shows(given.of)
    <3>1. CASE name = None
      <4>1. own.of = Last(rel) /\ (Last(rel) \in Inexact => own.mangled)
        BY DEF NameOf, NameAmong
      <4> HIDE DEF own
      <4> QED BY <1>4, <2>1, <3>1, <4>1 DEF Shows
    <3>2. CASE name # None
      BY <1>1, <3>2 DEF Plain
    <3> QED BY <3>1, <3>2
  <2>4. SameDesk(truth, Stamped(truth, numbers, named))
    BY SameDeskStamped
  <2> HIDE DEF given
  <2> QED BY <1>4, <2>1, <2>2, <2>3, <2>4, MoveDesk
<1> QED BY <1>2, <1>3, <1>4

-----------------------------------------------------------------------------
(* The calls of the desktop database.                                      *)

LEMMA OnDesktopDesk ==
  ASSUME DesktopIInv, NEW at, NEW history, OnDesktop(at, history),
         DeskIs(history, comments', applications', strange), DOMAIN history = DOMAIN truth
  PROVE  DesktopIInv'
<1>1. /\ truth' = Stamped(history, Resolved(ids, at), Named(at))
      /\ host' = host /\ strange' = strange
  BY DEF OnDesktop
<1>2. SameDesk(history, truth')
  BY <1>1, SameDeskStamped
<1>3. DeskIs(truth', comments', applications', strange')
  BY <1>1, <1>2, DeskSame
<1>4. DOMAIN truth' = DOMAIN host'
  BY <1>1, <1>2 DEF SameDesk, DesktopIInv
<1>5. FolderIs(host')
  BY <1>1 DEF DesktopIInv
<1> QED BY <1>3, <1>4, <1>5 DEF DesktopIInv

\* The creators of one thing, and the list with them.
LEMMA CreatorsOfOne ==
  ASSUME DesktopIInv, NEW rel \in DOMAIN host, NEW new \in Seq(Entries), NEW creators,
         truth[rel].creators = Of(applications, rel) => creators = Of(new, rel),
         \A p : p # rel => Of(new, p) = Of(applications, p)
  PROVE  LET g == [truth EXCEPT ![rel].creators = creators] IN
         DeskIs(g, comments, new, strange) /\ DOMAIN g = DOMAIN truth
<1> DEFINE g == [truth EXCEPT ![rel].creators = creators]
<1>1. DeskIs(truth, comments, applications, strange) /\ rel \in DOMAIN truth
  BY DEF DesktopIInv
<1>2. DOMAIN g = DOMAIN truth /\ \A p \in DOMAIN truth \ {rel} : g[p] = truth[p]
  OBVIOUS
<1>3. g[rel] = [truth[rel] EXCEPT !.creators = creators]
  BY <1>1
<1> HIDE DEF g
<1>4. "creators" \in DOMAIN truth[rel]
  BY <1>1 DEF DeskIs, Told, DeskFields
<1>5. g[rel].creators = creators
  BY <1>3, <1>4
<1> DEFINE some == {rel}
<1>6. \A p \in DOMAIN truth \cap some :
        /\ g[p] = [truth[p] EXCEPT !.creators = g[p].creators]
        /\ truth[p].creators = Of(applications, p) => g[p].creators = Of(new, p)
  BY <1>3, <1>5
<1>7. \A p : p \notin some => Of(new, p) = Of(applications, p)
  OBVIOUS
<1>8. some \subseteq DOMAIN truth
  BY <1>1
<1>9. \A p \in DOMAIN truth \ some : g[p] = truth[p]
  BY <1>2
<1> HIDE DEF some
<1>10. DeskIs(g, comments, new, strange)
  BY <1>1, <1>2, <1>6, <1>7, <1>8, <1>9, DeskCreators
<1> QED BY <1>2, <1>10 DEF g

LEMMA AddAPPLDesk ==
  ASSUME NumbersIInv, DesktopIInv, NEW asked \in Asked, NEW creator \in Appl,
         AddAPPL(asked, creator)
  PROVE  DesktopIInv'
<1> DEFINE at == Resolve(asked)
           rel == Rel(at)
           new == Put(applications, creator, rel)
           creators == truth[rel].creators \cup {creator}
           history == [truth EXCEPT ![rel].creators = creators]
<1>1. Placed(at) /\ InFolders(host)
  BY ResolveIs DEF NumbersIInv, DesktopIInv, FolderIs
<1>2. \/ Refused(at)
      \/ /\ Exists(at) /\ applications' = new /\ comments' = comments
         /\ OnDesktop(at, [truth EXCEPT ![rel].creators = @ \cup {creator}])
  BY DEF AddAPPL
<1> HIDE DEF at
<1>3. CASE Refused(at)
  BY <1>3, RefusedDesk
<1>4. CASE /\ Exists(at) /\ applications' = new /\ comments' = comments
           /\ OnDesktop(at, [truth EXCEPT ![rel].creators = @ \cup {creator}])
  <2>1. rel \in DOMAIN host /\ rel \in Path
    BY <1>1, <1>4, RelThere, RelIs
  <2> HIDE DEF rel
  <2>2. applications \in Seq(Entries)
    BY DEF DesktopIInv, DeskIs
  <2>3. new \in Seq(Entries) /\ ToSet(new) = ToSet(applications) \cup {Entry(creator, rel)}
    BY <2>1, <2>2, PutIs
  <2> HIDE DEF new
  <2>4. Of(new, rel) = Of(applications, rel) \cup {creator}
    BY <2>3, EntriesApart DEF Of
  <2>5. \A p : p # rel => Of(new, p) = Of(applications, p)
    BY <2>3, EntriesApart DEF Of
  <2>6. truth[rel].creators = Of(applications, rel) => creators = Of(new, rel)
    BY <2>4
  <2>7. [truth EXCEPT ![rel].creators = @ \cup {creator}] = history
    OBVIOUS
  <2> HIDE DEF creators
  <2>8. DeskIs(history, comments, new, strange) /\ DOMAIN history = DOMAIN truth
    BY <2>1, <2>3, <2>5, <2>6, CreatorsOfOne
  <2> HIDE DEF history
  <2> QED BY <1>4, <2>7, <2>8, OnDesktopDesk
<1> QED BY <1>2, <1>3, <1>4

LEMMA RemoveAPPLDesk ==
  ASSUME NumbersIInv, DesktopIInv, NEW asked \in Asked, NEW creator,
         RemoveAPPL(asked, creator)
  PROVE  DesktopIInv'
<1> DEFINE at == Resolve(asked)
           rel == Rel(at)
           new == Selected(applications, ToSet(applications) \ {Entry(creator, rel)})
           creators == truth[rel].creators \ {creator}
           history == [truth EXCEPT ![rel].creators = creators]
<1>1. Placed(at) /\ InFolders(host)
  BY ResolveIs DEF NumbersIInv, DesktopIInv, FolderIs
<1>2. \/ Refused(at)
      \/ /\ Exists(at) /\ applications' = new /\ comments' = comments
         /\ OnDesktop(at, [truth EXCEPT ![rel].creators = @ \ {creator}])
  BY DEF RemoveAPPL, Entry
<1> HIDE DEF at
<1>3. CASE Refused(at)
  BY <1>3, RefusedDesk
<1>4. CASE /\ Exists(at) /\ applications' = new /\ comments' = comments
           /\ OnDesktop(at, [truth EXCEPT ![rel].creators = @ \ {creator}])
  <2>1. rel \in DOMAIN host /\ rel \in Path
    BY <1>1, <1>4, RelThere, RelIs
  <2> HIDE DEF rel
  <2>2. applications \in Seq(Entries)
    BY DEF DesktopIInv, DeskIs
  <2>3. new \in Seq(Entries) /\ ToSet(new) = ToSet(applications) \ {Entry(creator, rel)}
    BY <2>2, SelectedIs
  <2> HIDE DEF new
  <2>4. Of(new, rel) = Of(applications, rel) \ {creator}
    BY <2>3, EntriesApart DEF Of
  <2>5. \A p : p # rel => Of(new, p) = Of(applications, p)
    BY <2>3, EntriesApart DEF Of
  <2>6. truth[rel].creators = Of(applications, rel) => creators = Of(new, rel)
    BY <2>4
  <2>7. [truth EXCEPT ![rel].creators = @ \ {creator}] = history
    OBVIOUS
  <2> HIDE DEF creators
  <2>8. DeskIs(history, comments, new, strange) /\ DOMAIN history = DOMAIN truth
    BY <2>1, <2>3, <2>5, <2>6, CreatorsOfOne
  <2> HIDE DEF history
  <2> QED BY <1>4, <2>7, <2>8, OnDesktopDesk
<1> QED BY <1>2, <1>3, <1>4

LEMMA AddCommentDesk ==
  ASSUME NumbersIInv, DesktopIInv, NEW asked \in Asked, NEW comment,
         AddComment(asked, comment)
  PROVE  DesktopIInv'
<1> DEFINE at == Resolve(asked)
           rel == Rel(at)
           new == IF comment = None THEN [p \in DOMAIN comments \ {rel} |-> comments[p]]
                  ELSE With(comments, rel, comment)
           history == [truth EXCEPT ![rel].comment = comment]
<1>1. Placed(at) /\ InFolders(host)
  BY ResolveIs DEF NumbersIInv, DesktopIInv, FolderIs
<1>2. \/ Refused(at)
      \/ /\ Exists(at) /\ comments' = new /\ applications' = applications
         /\ OnDesktop(at, history)
  BY DEF AddComment
<1> HIDE DEF at
<1>3. CASE Refused(at)
  BY <1>3, RefusedDesk
<1>4. CASE /\ Exists(at) /\ comments' = new /\ applications' = applications
           /\ OnDesktop(at, history)
  <2>1. rel \in DOMAIN host
    BY <1>1, <1>4, RelThere
  <2> HIDE DEF rel
  <2>2. DeskIs(truth, comments, applications, strange) /\ rel \in DOMAIN truth
    BY <2>1 DEF DesktopIInv
  <2>3. DeskIs(history, comments', applications, strange)
    BY <1>4, <2>2, DeskCommented
  <2>4. DOMAIN history = DOMAIN truth
    OBVIOUS
  <2> HIDE DEF history
  <2> QED BY <1>4, <2>3, <2>4, OnDesktopDesk
<1> QED BY <1>2, <1>3, <1>4

LEMMA OpenDTDesk ==
  ASSUME DesktopIInv, OpenDT
  PROVE  DesktopIInv'
<1> DEFINE files == {p \in UNION {Scanned(folder) : folder \in Walked} : ~host[p].dir}
           some == {p \in files : Metadata(p).finder \in Appl}
           found == SetToSeq(some)
           n == Cardinality(some)
           new == AllPut(applications, found)
<1>1. /\ applications' = new
      /\ truth' = [p \in DOMAIN truth |->
                     IF p \in ToSet(found)
                     THEN [truth[p] EXCEPT !.creators = @ \cup {Metadata(p).finder}]
                     ELSE truth[p]]
      /\ UNCHANGED <<host, strange, comments>>
  BY DEF OpenDT, AllPut
<1>2. some \subseteq DOMAIN host /\ \A p \in some : Metadata(p).finder \in Appl
  <2>1. ASSUME NEW folder PROVE Scanned(folder) \subseteq DOMAIN host
    BY DEF Scanned, Shown
  <2>2. UNION {Scanned(folder) : folder \in Walked} \subseteq DOMAIN host
    BY <2>1
  <2> QED BY <2>2
<1>3. DOMAIN host \subseteq Path /\ IsFiniteSet(DOMAIN host) /\ DOMAIN truth = DOMAIN host
  BY DEF DesktopIInv, FolderIs, InFolders
<1> HIDE DEF files, some
<1>4. IsFiniteSet(some)
  BY <1>2, <1>3, FS_Subset
<1>5. /\ DOMAIN found = 1..n /\ n \in Nat
      /\ \A x \in some : \E i \in 1..n : found[i] = x
      /\ \A i \in 1..n : found[i] \in some
  BY <1>4, InSeq
<1> HIDE DEF found, n
<1>6. ToSet(found) = some
  BY <1>5 DEF ToSet
<1>7. DeskIs(truth, comments, applications, strange) /\ applications \in Seq(Entries)
  BY DEF DesktopIInv, DeskIs
<1>8. /\ new \in Seq(Entries)
      /\ ToSet(new) = ToSet(applications) \cup {Entry(Metadata(p).finder, p) : p \in some}
  <2>1. \A i \in 1..n : found[i] \in Path /\ Metadata(found[i]).finder \in Appl
    BY <1>2, <1>3, <1>5
  <2> QED BY <1>5, <1>6, <1>7, <2>1, AllPutIs
<1> HIDE DEF new
<1>9. \A p \in some : Of(new, p) = Of(applications, p) \cup {Metadata(p).finder}
  BY <1>2, <1>8, EntriesApart DEF Of
<1>10. \A p : p \notin some => Of(new, p) = Of(applications, p)
  BY <1>8, EntriesApart DEF Of
<1>11. ASSUME NEW p \in some
       PROVE  /\ truth'[p] = [truth[p] EXCEPT !.creators = truth'[p].creators]
              /\ truth[p].creators = Of(applications, p) => truth'[p].creators = Of(new, p)
  <2> DEFINE more == truth[p].creators \cup {Metadata(p).finder}
  <2>1. truth'[p] = [truth[p] EXCEPT !.creators = more]
    BY <1>1, <1>2, <1>3, <1>6
  <2>2. "creators" \in DOMAIN truth[p]
    BY <1>2, <1>3, <1>7 DEF DeskIs, Told, DeskFields
  <2>3. truth'[p].creators = more
    BY <2>1, <2>2
  <2> QED BY <1>9, <2>1, <2>3
<1>12. DOMAIN truth' = DOMAIN truth /\ \A p \in DOMAIN truth \ some : truth'[p] = truth[p]
  BY <1>1, <1>6
<1>13. DeskIs(truth', comments, new, strange)
  <2> DEFINE g == truth'
  <2>1. /\ DOMAIN g = DOMAIN truth /\ \A p \in DOMAIN truth \ some : g[p] = truth[p]
        /\ some \subseteq DOMAIN truth
    BY <1>2, <1>3, <1>12
  <2>2. \A p \in DOMAIN truth \cap some :
          /\ g[p] = [truth[p] EXCEPT !.creators = g[p].creators]
          /\ truth[p].creators = Of(applications, p) => g[p].creators = Of(new, p)
    BY <1>11
  <2> HIDE DEF g
  <2>3. DeskIs(g, comments, new, strange)
    BY <1>7, <1>8, <1>10, <2>1, <2>2, DeskCreators
  <2> QED BY <2>3 DEF g
<1> QED BY <1>1, <1>3, <1>12, <1>13 DEF DesktopIInv

LEMMA DesktopDesk ==
  ASSUME NumbersIInv, DesktopIInv, DesktopCall
  PROVE  DesktopIInv'
  BY OpenDTDesk, AddAPPLDesk, RemoveAPPLDesk, AddCommentDesk DEF DesktopCall

-----------------------------------------------------------------------------
(* The forks and the sessions, which leave them alone.                     *)

LEMMA OpenForkDesk ==
  ASSUME DesktopIInv, NEW s, NEW asked, NEW resource, NEW access,
         OpenFork(s, asked, resource, access)
  PROVE  DesktopIInv'
<1> DEFINE at == Resolve(asked)
           numbers == Resolved(ids, at)
<1>1. \/ Refused(at)
      \/ /\ truth' = Stamped(truth, numbers, {Rel(at)})
         /\ UNCHANGED <<host, comments, applications, strange>>
  BY DEF OpenFork, deskVars
<1> HIDE DEF at, numbers
<1> QED BY <1>1, RefusedDesk, SameDeskStamped, SameFolderSelf, StillDesk

LEMMA ChangedDesk ==
  ASSUME DesktopIInv, NEW ref, NEW data, Changed(ref, data)
  PROVE  DesktopIInv'
<1> DEFINE f == forks[ref]
<1>1. /\ host' = host \/ host' = [host EXCEPT ![f.file].data = data]
      /\ truth' = truth \/ truth' = [truth EXCEPT ![f.file].meta.resource = data]
      /\ UNCHANGED <<comments, applications, strange>>
  BY DEF Changed, deskVars
<1> HIDE DEF f
<1>2. SameFolder(host, host')
  BY <1>1 DEF SameFolder
<1>3. SameDesk(truth, truth')
  BY <1>1 DEF SameDesk, DeskFields
<1> QED BY <1>1, <1>2, <1>3, StillDesk

LEMMA FlushedDesk ==
  ASSUME NEW open, NEW cc, NEW outcome, SameDesk(truth, open.truth), "truth" \in DOMAIN open
  PROVE  /\ SameDesk(truth, Flushed(open, cc, outcome).truth)
         /\ "truth" \in DOMAIN Flushed(open, cc, outcome)
<1> DEFINE copy == open.copies[cc]
           result == Allowed(copy.rel, outcome)
           meta == [MetaIn(open.side, copy.rel) EXCEPT !.resource = copy.data]
           told == [p \in DOMAIN open.truth |->
                      IF p = copy.rel /\ result # "written"
                      THEN [open.truth[p] EXCEPT !.own = FALSE] ELSE open.truth[p]]
           done == [open EXCEPT
              !.side = MetaWritten(@, copy.rel, meta, result),
              !.copies[cc].dirty = result # "written",
              !.truth = told]
<1>1. Flushed(open, cc, outcome) = open \/ Flushed(open, cc, outcome) = done
  BY DEF Flushed
<1>2. SameDesk(open.truth, told)
  <2> HIDE DEF copy, result
  <2> QED BY DEF SameDesk, DeskFields
<1> HIDE DEF copy, result, meta, told
<1>3. done.truth = told /\ "truth" \in DOMAIN done
  OBVIOUS
<1> HIDE DEF done
<1> QED BY <1>1, <1>2, <1>3, SameDeskOn

LEMMA ClosedDesk ==
  ASSUME NEW open, NEW ref, NEW outcome, SameDesk(truth, open.truth), "truth" \in DOMAIN open
  PROVE  /\ SameDesk(truth, Closed(open, ref, outcome).truth)
         /\ "truth" \in DOMAIN Closed(open, ref, outcome)
<1> DEFINE f == open.forks[ref]
           left == [open EXCEPT !.forks = [r \in DOMAIN @ \ {ref} |-> @[r]]]
           flushed == Flushed(left, f.copy, outcome)
           copy == flushed.copies[f.copy]
           fewer == [flushed EXCEPT !.copies[f.copy].users = @ - 1]
           none == [flushed EXCEPT !.resources = [p \in DOMAIN @ \ {copy.rel} |-> @[p]],
                                   !.copies = [x \in DOMAIN @ \ {f.copy} |-> @[x]]]
<1>1. Closed(open, ref, outcome) \in {left, fewer, none}
  BY DEF Closed
<1>2. left.truth = open.truth /\ "truth" \in DOMAIN left
  OBVIOUS
<1> HIDE DEF left
<1>3. SameDesk(truth, flushed.truth) /\ "truth" \in DOMAIN flushed
  BY <1>2, FlushedDesk
<1> HIDE DEF flushed
<1>4. /\ fewer.truth = flushed.truth /\ "truth" \in DOMAIN fewer
      /\ none.truth = flushed.truth /\ "truth" \in DOMAIN none
  BY <1>3
<1> HIDE DEF fewer, none
<1> QED BY <1>1, <1>2, <1>3, <1>4

LEMMA OpenDesk == SameDesk(truth, Open.truth) /\ "truth" \in DOMAIN Open
  BY SameDeskSelf DEF Open

LEMMA AllClosedDesk ==
  ASSUME NEW refs, NEW outcome, NEW n \in Nat, DOMAIN refs = 1..n
  PROVE  SameDesk(truth, AllClosed(Open, refs, outcome).truth)
<1>1. PICK w : ClosesOneByOne(w, Open, refs, outcome, n)
  BY AllClosedSteps
<1> DEFINE Good == {k \in 0..n : SameDesk(truth, w[k].truth) /\ "truth" \in DOMAIN w[k]}
<1>2. 0 \in Good
  BY <1>1, OpenDesk DEF ClosesOneByOne
<1>3. ASSUME NEW k \in 1..n, k - 1 \in Good PROVE k \in Good
  <2> DEFINE a == w[k - 1]
             b == w[k]
  <2>1. SameDesk(truth, a.truth) /\ "truth" \in DOMAIN a
    BY <1>3
  <2>2. b = Closed(a, refs[k], outcome)
    BY <1>1 DEF ClosesOneByOne
  <2> HIDE DEF a, b
  <2>3. SameDesk(truth, b.truth) /\ "truth" \in DOMAIN b
    BY <2>1, <2>2, ClosedDesk
  <2> QED BY <2>3 DEF b
<1>4. Good \in SUBSET (0..n)
  OBVIOUS
<1> HIDE DEF Good
<1>5. n \in Good
  BY <1>2, <1>3, <1>4, HoldsAtLast
<1>6. AllClosed(Open, refs, outcome) = w[n]
  BY <1>1 DEF ClosesOneByOne
<1> QED BY <1>5, <1>6 DEF Good

LEMMA BecomesDesk ==
  ASSUME DesktopIInv, NEW open, SameDesk(truth, open.truth), Becomes(open)
  PROVE  DesktopIInv'
<1>1. truth' = open.truth /\ UNCHANGED <<host, comments, applications, strange>>
  BY DEF Becomes, deskVars
<1> QED BY <1>1, SameFolderSelf, StillDesk

LEMMA ForkDesk ==
  ASSUME DesktopIInv, ForkCall
  PROVE  DesktopIInv'
<1>1. ASSUME NEW s, NEW asked, NEW resource, NEW access, OpenFork(s, asked, resource, access)
      PROVE  DesktopIInv'
  BY <1>1, OpenForkDesk
<1>2. ASSUME NEW s, NEW ref, NEW offset, NEW fromEnd, NEW bytes,
             Write(s, ref, offset, fromEnd, bytes)
      PROVE  DesktopIInv'
  BY <1>2, ChangedDesk DEF Write
<1>3. ASSUME NEW s, NEW ref, NEW length, SetForkParms(s, ref, length)
      PROVE  DesktopIInv'
  BY <1>3, ChangedDesk DEF SetForkParms
<1>4. ASSUME NEW s, NEW ref, NEW outcome, FlushFork(s, ref, outcome)
      PROVE  DesktopIInv'
  <2>1. Becomes(Flushed(Open, forks[ref].copy, outcome)) \/ Becomes(Open)
    BY <1>4 DEF FlushFork
  <2>2. SameDesk(truth, Flushed(Open, forks[ref].copy, outcome).truth)
    BY OpenDesk, FlushedDesk
  <2> QED BY <2>1, <2>2, OpenDesk, BecomesDesk
<1>5. ASSUME NEW s, NEW ref, NEW outcome, CloseFork(s, ref, outcome)
      PROVE  DesktopIInv'
  <2>1. Becomes(Closed(Open, ref, outcome))
    BY <1>5 DEF CloseFork
  <2>2. SameDesk(truth, Closed(Open, ref, outcome).truth)
    BY OpenDesk, ClosedDesk
  <2> QED BY <2>1, <2>2, BecomesDesk
<1> QED BY <1>1, <1>2, <1>3, <1>4, <1>5 DEF ForkCall

LEMMA SessionDesk ==
  ASSUME DesktopIInv, IsFiniteSet(DOMAIN forks), SessionCall
  PROVE  DesktopIInv'
<1>1. ASSUME NEW s, OpenSession(s) \/ Login(s) \/ Logout(s)
      PROVE  DesktopIInv'
  <2>1. UNCHANGED <<host, truth, comments, applications, strange>>
    BY <1>1 DEF OpenSession, Login, Logout, folderVars, deskVars
  <2> QED BY <2>1, SameDeskSelf, SameFolderSelf, StillDesk
<1>2. ASSUME NEW s, NEW outcome, CloseSession(s, outcome)
      PROVE  DesktopIInv'
  <2> DEFINE refs == SetToSeq(ForksOf(s))
  <2>1. Becomes(AllClosed(Open, refs, outcome))
    BY <1>2 DEF CloseSession, ForksOf
  <2>2. IsFiniteSet(ForksOf(s))
    BY FS_Subset DEF ForksOf
  <2>3. DOMAIN refs = 1..Cardinality(ForksOf(s)) /\ Cardinality(ForksOf(s)) \in Nat
    BY <2>2, InSeq
  <2> HIDE DEF refs
  <2>4. SameDesk(truth, AllClosed(Open, refs, outcome).truth)
    BY <2>3, AllClosedDesk
  <2> QED BY <2>1, <2>4, BecomesDesk
<1> QED BY <1>1, <1>2 DEF SessionCall

LEMMA CatalogDesk ==
  ASSUME ToldApart, NumbersIInv, DesktopIInv, CatalogCall
  PROVE  DesktopIInv'
<1>1. ASSUME NEW asked, GetFileDirParms(asked, TRUE)
      PROVE  DesktopIInv'
  <2>1. \E numbers, named : OnlyNumbers(numbers, named)
    BY <1>1 DEF GetFileDirParms, Refused
  <2> QED BY <2>1, OnlyNumbersDesk
<1>2. ASSUME NEW asked, OpenDir(asked)
      PROVE  DesktopIInv'
  BY <1>2, RefusedDesk DEF OpenDir
<1>3. ASSUME NEW asked, NEW kinds, NEW start, NEW count, Enumerate(asked, kinds, start, count)
      PROVE  DesktopIInv'
  <2>1. \E numbers, named : OnlyNumbers(numbers, named)
    BY <1>3 DEF Enumerate
  <2> QED BY <2>1, OnlyNumbersDesk
<1>4. AskedTo \subseteq Asked
  BY VolumeAssumption
<1> QED BY <1>1, <1>2, <1>3, <1>4, SetParmsDesk, CreateFileDesk, CreateDirDesk, DeleteDesk, RenameDesk,
           MoveAndRenameDesk DEF CatalogCall

LEMMA InitDesk ==
  ASSUME ToldApart, Init
  PROVE  DesktopIInv
<1>1. IsTree(host) /\ NoneAlike(host)
  BY VolumeAssumption DEF Init, ToldApart
<1>2. InFolders(host)
  <2>1. IsFiniteSet(DOMAIN host)
    BY <1>1, PathsFinite, FS_Subset DEF IsTree
  <2> QED BY <1>1, <2>1, PathsArePaths DEF IsTree, InFolders
<1>3. /\ truth = [p \in DOMAIN host |-> Untold(NoMeta, TRUE)]
      /\ comments = <<>> /\ applications = <<>> /\ strange = {}
  BY DEF Init, NoDesktop
<1>4. applications \in Seq(Entries) /\ DOMAIN comments = {} /\ ToSet(applications) = {}
  BY <1>3 DEF ToSet
<1>5. \A p : Of(applications, p) = {} /\ CommentAt(comments, p) = None
  BY <1>4 DEF Of, CommentAt
<1>6. \A p \in DOMAIN truth : /\ DeskFields \subseteq DOMAIN truth[p]
                              /\ truth[p].comment = None /\ truth[p].creators = {}
  BY <1>3 DEF Untold, DeskFields
<1>7. DOMAIN truth = DOMAIN host
  BY <1>3
<1>8. Told(truth, comments, applications)
  BY <1>5, <1>6 DEF Told
<1>9. LeftBehind(truth, comments, applications, strange)
  BY <1>4, <1>5 DEF LeftBehind
<1>10. DOMAIN truth \subseteq Path /\ DOMAIN comments \subseteq Path
  BY <1>2, <1>4, <1>7 DEF InFolders
<1>11. FolderIs(host)
  BY <1>1, <1>2 DEF FolderIs
<1>12. DeskIs(truth, comments, applications, strange)
  BY <1>4, <1>8, <1>9, <1>10 DEF DeskIs
<1> QED BY <1>7, <1>11, <1>12 DEF DesktopIInv

\* What the machine is told of a file, one application after the other, is what
\* the list has of it.
LEMMA ToldOfFile ==
  ASSUME NEW list \in Seq(Entries), list = applications, NEW p \in Path, IsFile(p)
  PROVE  {a \in Appl : \E index \in 1..Len(applications) : GetAPPL(a, index) = p} = Of(list, p)
<1> DEFINE wanted(a) == {e \in ToSet(applications) : e.creator = a /\ IsFile(e.rel)}
           here(a) == Selected(applications, wanted(a))
<1>1. ASSUME NEW a PROVE
        /\ here(a) \in Seq(Entries) /\ Len(here(a)) <= Len(applications)
        /\ ToSet(here(a)) = ToSet(applications) \cap wanted(a)
  BY SelectedIs
<1>2. ASSUME NEW a, NEW index PROVE
        GetAPPL(a, index) = IF index <= Len(here(a)) THEN here(a)[index].rel ELSE None
  BY DEF GetAPPL
<1>3. ASSUME NEW a \in Appl, NEW index \in 1..Len(applications), GetAPPL(a, index) = p
      PROVE  a \in Of(list, p)
  <2> DEFINE e == here(a)[index]
  <2>1. index <= Len(here(a)) /\ e.rel = p
    BY <1>2, <1>3, FolderAssumption DEF Path
  <2>2. e \in ToSet(here(a))
    <3>1. Len(here(a)) \in Nat /\ DOMAIN here(a) = 1..Len(here(a))
      BY <1>1, LenProperties
    <3> HIDE DEF here
    <3>2. index \in 1..Len(here(a))
      BY <2>1, <3>1
    <3> QED BY <3>1, <3>2 DEF ToSet
  <2>3. ToSet(here(a)) = ToSet(applications) \cap wanted(a)
    BY <1>1
  <2> HIDE DEF e, here
  <2>4. e \in ToSet(applications) /\ e.creator = a
    BY <2>2, <2>3
  <2>5. e = Entry(a, p)
    BY <2>1, <2>4, EntriesAre
  <2> QED BY <2>4, <2>5 DEF Of
<1>4. ASSUME NEW a \in Of(list, p)
      PROVE  a \in Appl /\ \E index \in 1..Len(applications) : GetAPPL(a, index) = p
  <2> DEFINE e == Entry(a, p)
  <2>1. a \in Appl /\ e \in ToSet(applications)
    BY DEF Of
  <2>2. e.creator = a /\ e.rel = p
    BY DEF Entry
  <2> HIDE DEF e
  <2>3. e \in wanted(a)
    BY <2>1, <2>2
  <2>4. e \in ToSet(here(a))
    BY <1>1, <2>1, <2>3
  <2>5. Len(here(a)) \in Nat /\ DOMAIN here(a) = 1..Len(here(a)) /\ Len(applications) \in Nat
    BY <1>1, LenProperties
  <2>6. Len(here(a)) <= Len(applications)
    BY <1>1
  <2>7. \A index : GetAPPL(a, index) = IF index <= Len(here(a)) THEN here(a)[index].rel ELSE None
    BY <1>2
  <2> HIDE DEF here
  <2>8. PICK index \in 1..Len(here(a)) : here(a)[index] = e
    BY <2>4, <2>5 DEF ToSet
  <2>9. GetAPPL(a, index) = p /\ index \in 1..Len(applications)
    BY <2>2, <2>5, <2>6, <2>7, <2>8
  <2> QED BY <2>1, <2>9
<1> QED BY <1>3, <1>4 DEF Of

LEMMA DesktopTold == DesktopIInv => DesktopFollows
<1> SUFFICES ASSUME DesktopIInv, NEW p \in DOMAIN truth, truth[p].own
             PROVE  /\ truth[p].comment = GetComment(p)
                    /\ IsFile(p) => truth[p].creators =
                         {a \in Appl : \E index \in 1..Len(applications) : GetAPPL(a, index) = p}
  BY DEF DesktopFollows
<1>1. /\ applications \in Seq(Entries) /\ p \in Path
      /\ truth[p].comment = CommentAt(comments, p)
      /\ truth[p].creators = Of(applications, p)
  BY DEF DesktopIInv, DeskIs, Told
<1>2. GetComment(p) = CommentAt(comments, p)
  BY DEF GetComment, CommentAt
<1> QED BY <1>1, <1>2, ToldOfFile

-----------------------------------------------------------------------------
(* What forks and AppleDouble files have in them.                          *)

LEMMA ContentIs ==
  ASSUME NEW data \in Content
  PROVE  /\ data \in Seq(Bytes) /\ Len(data) \in 0..Longest /\ DOMAIN data = 1..Len(data)
         /\ \A i \in 1..Len(data) : data[i] \in Bytes
<1>1. PICK m \in 0..Longest : data \in [1..m -> Bytes]
  BY DEF Content, BoundedSeq, SeqOf
<1>2. m \in Nat /\ Longest \in Nat
  BY FolderAssumption
<1> QED BY <1>1, <1>2

LEMMA ContentOf ==
  ASSUME NEW m \in 0..Longest, NEW data \in [1..m -> Bytes]
  PROVE  data \in Content
  BY DEF Content, BoundedSeq, SeqOf

LEMMA NoMetaIs == NoMeta \in Meta /\ <<>> \in Content
<1>1. <<>> \in [1..0 -> Bytes] /\ 0 \in 0..Longest
  BY FolderAssumption
<1>2. <<>> \in Content
  BY <1>1, ContentOf
<1> QED BY <1>2 DEF NoMeta, Meta

DataIs(h) == \A p \in DOMAIN h : "data" \in DOMAIN h[p] /\ h[p].data \in Content

SidesAre(sd) == \A p \in DOMAIN sd : sd[p] \in Meta

CopiesAre(cp) ==
  \A x \in DOMAIN cp : {"data", "dirty"} \subseteq DOMAIN cp[x] /\ cp[x].data \in Content

LEMMA MetaInIs ==
  ASSUME NEW sd, SidesAre(sd), NEW p
  PROVE  MetaIn(sd, p) \in Meta /\ MetaIn(sd, p).finder \in Finders \cup {None}
         /\ MetaIn(sd, p).resource \in Content /\ DOMAIN MetaIn(sd, p) = {"finder", "resource"}
<1>1. MetaIn(sd, p) \in Meta
  BY NoMetaIs DEF MetaIn, SidesAre
<1> QED BY <1>1 DEF Meta

Results == {"written", "refused", "cut"}

\* An AppleDouble file written leaves the others as they were.
MetaPut(new, sd, rel, meta, result) ==
  /\ SidesAre(new) /\ DOMAIN new \subseteq DOMAIN sd \cup {rel}
  /\ \A p : p # rel => MetaIn(new, p) = MetaIn(sd, p)
  /\ result = "written" => MetaIn(new, rel) = meta
  /\ result = "refused" => MetaIn(new, rel) = MetaIn(sd, rel)

LEMMA MetaWrittenIs ==
  ASSUME NEW sd, SidesAre(sd), NEW rel, NEW meta \in Meta, NEW result \in Results
  PROVE  MetaPut(MetaWritten(sd, rel, meta, result), sd, rel, meta, result)
<1> DEFINE new == MetaWritten(sd, rel, meta, result)
           mine == IF result = "cut" THEN NoMeta ELSE meta
<1>1. CASE meta = NoMeta /\ result = "written"
  <2>1. new = [p \in DOMAIN sd \ {rel} |-> sd[p]]
    BY <1>1 DEF MetaWritten
  <2> HIDE DEF new
  <2>2. /\ DOMAIN new = DOMAIN sd \ {rel} /\ \A p \in DOMAIN new : new[p] = sd[p]
    BY <2>1
  <2>3. MetaPut(new, sd, rel, meta, result)
    BY <1>1, <2>2 DEF MetaPut, SidesAre, MetaIn
  <2> QED BY <2>3 DEF new
<1>2. CASE ~(meta = NoMeta /\ result = "written") /\ (meta = NoMeta \/ result = "refused")
  <2>1. new = sd
    BY <1>2 DEF MetaWritten
  <2> QED BY <1>2, <2>1 DEF MetaPut
<1>3. CASE ~(meta = NoMeta \/ result = "refused")
  <2>1. new = With(sd, rel, mine) /\ mine \in Meta /\ (result = "written" => mine = meta)
    BY <1>3, NoMetaIs DEF MetaWritten
  <2> HIDE DEF new, mine
  <2>2. /\ DOMAIN new = DOMAIN sd \cup {rel} /\ new[rel] = mine
        /\ \A p \in DOMAIN sd : p # rel => new[p] = sd[p]
    BY <2>1 DEF With
  <2>3. SidesAre(new)
    BY <2>1, <2>2 DEF SidesAre
  <2>4. \A p : p # rel => MetaIn(new, p) = MetaIn(sd, p)
    BY <2>2 DEF MetaIn
  <2>5. MetaIn(new, rel) = mine
    BY <2>2 DEF MetaIn
  <2>6. MetaPut(new, sd, rel, meta, result)
    BY <1>3, <2>1, <2>2, <2>3, <2>4, <2>5 DEF MetaPut
  <2> QED BY <2>6 DEF new
<1> QED BY <1>1, <1>2, <1>3

LEMMA AllowedIs ==
  ASSUME NEW rel, NEW outcome \in Outcomes
  PROVE  /\ Allowed(rel, outcome) \in Results
         /\ FolderIs(host) /\ rel \in DOMAIN host => Allowed(rel, outcome) = outcome
<1>1. outcome \in Results /\ "refused" \in Results
  BY FolderAssumption DEF Results
<1>2. FolderIs(host) /\ rel \in DOMAIN host => rel = Root \/ IsDir(ParentOf(rel))
  BY DEF FolderIs, InFolders, IsDir
<1> QED BY <1>1, <1>2 DEF Allowed

-----------------------------------------------------------------------------
(* Forks that are shared, and what is in the AppleDouble files.            *)

\* Who has a fork open has the file at its path, and the copy of the resource
\* fork that the file is said to have; a file is said to have one only then.
Together(fk, rs) ==
  /\ \A r \in DOMAIN fk :
       /\ fk[r].file = fk[r].rel
       /\ fk[r].resource => fk[r].rel \in DOMAIN rs /\ rs[fk[r].rel] = fk[r].copy
  /\ \A p \in DOMAIN rs : \E r \in DOMAIN fk : fk[r].resource /\ fk[r].rel = p

\* No two that have a fork open ask for what the other denies.
Agree(fk) ==
  \A q, r \in DOMAIN fk :
    q # r /\ fk[q].rel = fk[r].rel /\ fk[q].resource = fk[r].resource
      => ~Denied(fk[q].access, fk[r].access)

\* Forks are open on files that are there.
OnFiles(fk, h) ==
  \A r \in DOMAIN fk :
    "access" \in DOMAIN fk[r] /\ fk[r].rel \in DOMAIN h /\ ~h[fk[r].rel].dir

\* What the machine last wrote is in the copy, if there is one, and beside the
\* file if there is none or nothing was written to it.
MetaOf(meta, p, sd, rs, cp) ==
  /\ MetaIn(sd, p).finder = meta.finder
  /\ p \notin DOMAIN rs => MetaIn(sd, p).resource = meta.resource
  /\ p \in DOMAIN rs => /\ cp[rs[p]].data = meta.resource
                        /\ ~cp[rs[p]].dirty => MetaIn(sd, p).resource = meta.resource

Seen(p) == p = Root \/ Last(p) \notin Hidden

MetaFields == {"meta", "own"}

MetaIs(history, sd, rs, cp) ==
  \A p \in DOMAIN history :
    /\ MetaFields \subseteq DOMAIN history[p]
    /\ DOMAIN history[p].meta = {"finder", "resource"}
    /\ history[p].own /\ Seen(p) => MetaOf(history[p].meta, p, sd, rs, cp)

\* What is said of the metadata is the same.
SameMeta(old, new) ==
  /\ DOMAIN new = DOMAIN old
  /\ \A p \in DOMAIN old : MetaFields \subseteq DOMAIN old[p] =>
       /\ MetaFields \subseteq DOMAIN new[p]
       /\ new[p].meta = old[p].meta
       /\ new[p].own => old[p].own

LEMMA MetaSame ==
  ASSUME NEW old, NEW new, NEW sd, NEW rs, NEW cp, MetaIs(old, sd, rs, cp), SameMeta(old, new)
  PROVE  MetaIs(new, sd, rs, cp)
  BY DEF MetaIs, SameMeta

LEMMA SameMetaSelf == ASSUME NEW h PROVE SameMeta(h, h)
  BY DEF SameMeta

LEMMA SameMetaOn ==
  ASSUME NEW a, NEW b, NEW d, SameMeta(a, b), SameMeta(b, d)
  PROVE  SameMeta(a, d)
  BY DEF SameMeta

LEMMA SameMetaStamped ==
  ASSUME NEW h, NEW numbers, NEW named
  PROVE  SameMeta(h, Stamped(h, numbers, named))
<1> DEFINE g == Stamped(h, numbers, named)
<1>1. DOMAIN g = DOMAIN h
  BY DEF Stamped
<1>2. ASSUME NEW p \in DOMAIN h, MetaFields \subseteq DOMAIN h[p]
      PROVE  /\ MetaFields \subseteq DOMAIN g[p] /\ g[p].meta = h[p].meta
             /\ g[p].own => h[p].own
  <2> DEFINE i == numbers.byPath[p]
             e == h[p]
  <2>1. g[p] = [e EXCEPT !.id = i] \/ g[p] = e
    BY DEF Stamped
  <2> HIDE DEF g, i
  <2> QED BY <1>2, <2>1 DEF MetaFields
<1> HIDE DEF g
<1> QED BY <1>1, <1>2 DEF SameMeta, g

\* What a state that forks are closed in has of the metadata.
MetaKept(open) ==
  /\ CopiesAre(open.copies) /\ SidesAre(open.side) /\ DOMAIN open.side \subseteq DOMAIN host
  /\ DOMAIN open.truth = DOMAIN host
  /\ MetaIs(open.truth, open.side, open.resources, open.copies)

\* And of the forks.
Shares(open) ==
  Together(open.forks, open.resources) /\ Agree(open.forks) /\ OnFiles(open.forks, host)

\* A file that has a copy is the file of that copy.
CopyOf(rs, cp) == \A q \in DOMAIN rs : rs[q] \in DOMAIN cp /\ cp[rs[q]].rel = q

\* What a flush makes of a state, of a copy of what is at p.
FlushedTo(done, open, x, p, result) ==
  /\ done.side = MetaWritten(open.side, p,
                   [MetaIn(open.side, p) EXCEPT !.resource = open.copies[x].data], result)
  /\ done.copies = [open.copies EXCEPT ![x].dirty = result # "written"]
  /\ done.truth = [q \in DOMAIN open.truth |->
       IF q = p /\ result # "written"
       THEN [open.truth[q] EXCEPT !.own = FALSE] ELSE open.truth[q]]

LEMMA FlushedIs ==
  ASSUME NEW open, NEW x, NEW outcome, Parts(open), NEW p, p = open.copies[x].rel
  PROVE  /\ ~open.copies[x].dirty => Flushed(open, x, outcome) = open
         /\ open.copies[x].dirty =>
              FlushedTo(Flushed(open, x, outcome), open, x, p, Allowed(p, outcome))
<1> DEFINE copy == open.copies[x]
           result == Allowed(copy.rel, outcome)
           meta == [MetaIn(open.side, copy.rel) EXCEPT !.resource = copy.data]
           sides == MetaWritten(open.side, copy.rel, meta, result)
           clean == [open.copies EXCEPT ![x].dirty = result # "written"]
           told == [q \in DOMAIN open.truth |->
                      IF q = copy.rel /\ result # "written"
                      THEN [open.truth[q] EXCEPT !.own = FALSE] ELSE open.truth[q]]
           done == [open EXCEPT !.side = sides, !.copies = clean, !.truth = told]
<1>1. Flushed(open, x, outcome) = IF ~copy.dirty THEN open ELSE done
  BY DEF Flushed
<1>2. done.side = sides /\ done.copies = clean /\ done.truth = told
  <2> HIDE DEF copy, result, meta, told, sides, clean
  <2> QED BY DEF Parts
<1>3. FlushedTo(done, open, x, p, Allowed(p, outcome))
  <2> HIDE DEF done
  <2> QED BY <1>2 DEF FlushedTo
<1> HIDE DEF done
<1> QED BY <1>1, <1>3

\* A copy written back, or not: what the machine wrote is kept, or is no longer
\* answered for.
LEMMA FlushedMeta ==
  ASSUME FolderIs(host), NEW open, Parts(open), MetaKept(open), CopyOf(open.resources, open.copies),
         NEW p \in DOMAIN open.resources, p \in DOMAIN host, NEW x, x = open.resources[p],
         NEW outcome \in Outcomes
  PROVE  LET done == Flushed(open, x, outcome) IN
         MetaKept(done) /\ (done.truth[p].own => ~done.copies[x].dirty)
<1> DEFINE done == Flushed(open, x, outcome)
           copy == open.copies[x]
           meta == [MetaIn(open.side, p) EXCEPT !.resource = copy.data]
           old == open.truth
           cp == open.copies
           rs == open.resources
           sd == open.side
<1>1. x \in DOMAIN cp /\ copy.rel = p /\ Allowed(p, outcome) = outcome
  BY AllowedIs DEF CopyOf
<1>2. /\ done.resources = rs /\ (~copy.dirty => done = open)
      /\ copy.dirty =>
           /\ done.side = MetaWritten(sd, p, meta, outcome)
           /\ done.copies = [cp EXCEPT ![x].dirty = outcome # "written"]
           /\ done.truth = [q \in DOMAIN old |->
                IF q = p /\ outcome # "written" THEN [old[q] EXCEPT !.own = FALSE] ELSE old[q]]
  <2>1. done.resources = rs
    BY FlushedHeld
  <2> HIDE DEF done
  <2>2. /\ ~copy.dirty => done = open
        /\ copy.dirty => FlushedTo(done, open, x, p, Allowed(p, outcome))
    BY <1>1, FlushedIs DEF done
  <2> QED BY <1>1, <2>1, <2>2 DEF FlushedTo
<1> HIDE DEF done
<1>3. CASE ~copy.dirty
  BY <1>2, <1>3 DEF done
<1>4. CASE copy.dirty
  <2> DEFINE new == done.truth
             sides == done.side
             clean == done.copies
  <2>1. /\ CopiesAre(cp) /\ SidesAre(sd) /\ DOMAIN sd \subseteq DOMAIN host /\ DOMAIN old = DOMAIN host
        /\ MetaIs(old, sd, rs, cp)
    BY DEF MetaKept
  <2>2. copy.data \in Content /\ {"data", "dirty"} \subseteq DOMAIN copy
    BY <1>1, <2>1 DEF CopiesAre
  <2>3. /\ MetaIn(sd, p) \in Meta /\ DOMAIN MetaIn(sd, p) = {"finder", "resource"}
        /\ MetaIn(sd, p).finder \in Finders \cup {None}
    BY <2>1, MetaInIs
  <2>4. /\ meta \in Meta /\ meta.finder = MetaIn(sd, p).finder /\ meta.resource = copy.data
    BY <2>2, <2>3 DEF Meta
  <2>5. outcome \in Results
    BY FolderAssumption DEF Results
  <2>6. /\ sides = MetaWritten(sd, p, meta, outcome)
        /\ clean = [cp EXCEPT ![x].dirty = outcome # "written"]
        /\ new = [q \in DOMAIN old |->
                IF q = p /\ outcome # "written" THEN [old[q] EXCEPT !.own = FALSE] ELSE old[q]]
    BY <1>2, <1>4
  <2> HIDE DEF meta, sides, clean, new
  <2>7. /\ SidesAre(sides) /\ DOMAIN sides \subseteq DOMAIN sd \cup {p}
        /\ \A q : q # p => MetaIn(sides, q) = MetaIn(sd, q)
        /\ outcome = "written" => MetaIn(sides, p) = meta
    <3>1. MetaPut(sides, sd, p, meta, outcome)
      BY <2>1, <2>4, <2>5, <2>6, MetaWrittenIs
    <3> QED BY <3>1 DEF MetaPut
  <2>8. /\ DOMAIN clean = DOMAIN cp /\ \A y \in DOMAIN cp : y # x => clean[y] = cp[y]
        /\ DOMAIN clean[x] = DOMAIN cp[x] /\ clean[x].data = copy.data
        /\ clean[x].dirty = (outcome # "written")
    BY <1>1, <2>2, <2>6
  <2>9. /\ DOMAIN new = DOMAIN old /\ \A q \in DOMAIN old : q # p => new[q] = old[q]
        /\ DOMAIN new[p] = DOMAIN old[p] /\ new[p].meta = old[p].meta
        /\ outcome = "written" => new[p] = old[p]
        /\ outcome # "written" => ~new[p].own
    <3>1. p \in DOMAIN old /\ MetaFields \subseteq DOMAIN old[p]
      BY <2>1 DEF MetaIs
    <3> HIDE DEF old
    <3> QED BY <2>6, <3>1 DEF MetaFields
  <2> HIDE DEF old, cp, rs, sd, copy
  <2>10. CopiesAre(clean)
    BY <1>1, <2>1, <2>2, <2>8 DEF CopiesAre
  <2>11. MetaIs(new, sides, rs, clean)
    <3> SUFFICES ASSUME NEW q \in DOMAIN new
                 PROVE  /\ MetaFields \subseteq DOMAIN new[q]
                        /\ DOMAIN new[q].meta = {"finder", "resource"}
                        /\ new[q].own /\ Seen(q) => MetaOf(new[q].meta, q, sides, rs, clean)
      BY DEF MetaIs
    <3>1. /\ MetaFields \subseteq DOMAIN old[q] /\ DOMAIN old[q].meta = {"finder", "resource"}
          /\ old[q].own /\ Seen(q) => MetaOf(old[q].meta, q, sd, rs, cp)
      BY <2>1, <2>9 DEF MetaIs
    <3>2. CASE q # p
      <4>1. q \in DOMAIN rs => rs[q] \in DOMAIN cp /\ rs[q] # x
        BY <1>1, <3>2 DEF CopyOf, cp, rs, copy
      <4> QED BY <2>7, <2>8, <2>9, <3>1, <3>2, <4>1 DEF MetaOf
    <3>3. CASE q = p
      <4>1. MetaFields \subseteq DOMAIN new[q] /\ DOMAIN new[q].meta = {"finder", "resource"}
        BY <2>9, <3>1, <3>3
      <4>2. ASSUME new[q].own, Seen(q) PROVE MetaOf(new[q].meta, q, sides, rs, clean)
        <5>1. outcome = "written" /\ new[q] = old[q] /\ MetaOf(old[q].meta, q, sd, rs, cp)
          BY <2>9, <3>1, <3>3, <4>2
        <5>2. p \in DOMAIN rs /\ rs[p] = x
          BY DEF rs
        <5> QED BY <2>4, <2>7, <2>8, <3>3, <5>1, <5>2 DEF MetaOf, copy, cp
      <4> QED BY <4>1, <4>2
    <3> QED BY <3>2, <3>3
  <2>12. new[p].own => ~clean[x].dirty
    BY <2>5, <2>8, <2>9 DEF Results
  <2>13. DOMAIN sides \subseteq DOMAIN host /\ DOMAIN new = DOMAIN host
    BY <2>1, <2>7, <2>9
  <2> QED BY <1>2, <2>7, <2>10, <2>11, <2>12, <2>13 DEF MetaKept, new, sides, clean, rs, done
<1> QED BY <1>3, <1>4 DEF done

LEMMA FewerShares ==
  ASSUME NEW fk, NEW ref, Agree(fk), OnFiles(fk, host)
  PROVE  Agree(Fewer(fk, ref)) /\ OnFiles(Fewer(fk, ref), host)
<1>1. DOMAIN Fewer(fk, ref) \subseteq DOMAIN fk
      /\ \A r \in DOMAIN Fewer(fk, ref) : Fewer(fk, ref)[r] = fk[r]
  BY DEF Fewer
<1> QED BY <1>1 DEF Agree, OnFiles

\* Two have what more than one has.
LEMMA AnotherHolds ==
  ASSUME NEW fk, DOMAIN fk \subseteq 1..LastRef, NEW x, NEW ref,
         Cardinality(Holders(fk, x)) > 1
  PROVE  \E r \in Holders(fk, x) : r # ref
<1>1. SUFFICES ASSUME \A r \in Holders(fk, x) : r = ref PROVE FALSE
  BY <1>1
<1>2. Holders(fk, x) = {} \/ Holders(fk, x) = {ref}
  BY <1>1
<1>3. Cardinality({}) = 0 /\ Cardinality({ref}) = 1
  BY FS_EmptySet, FS_Singleton
<1> QED BY <1>2, <1>3

\* The files that have a copy, and the copies, without one.
OneTaken(done, open, p, x) ==
  /\ done.side = open.side /\ done.truth = open.truth
  /\ DOMAIN done.resources = DOMAIN open.resources \ {p}
  /\ \A q \in DOMAIN done.resources : done.resources[q] = open.resources[q]
  /\ DOMAIN done.copies = DOMAIN open.copies \ {x}
  /\ \A y \in DOMAIN done.copies : done.copies[y] = open.copies[y]

LEMMA TakenMeta ==
  ASSUME NEW open, MetaKept(open), CopyOf(open.resources, open.copies),
         NEW p \in DOMAIN open.resources, NEW x, x = open.resources[p],
         open.truth[p].own => ~open.copies[x].dirty,
         NEW done, OneTaken(done, open, p, x)
  PROVE  MetaKept(done)
<1>1. /\ CopiesAre(open.copies) /\ SidesAre(open.side) /\ DOMAIN open.side \subseteq DOMAIN host
      /\ DOMAIN open.truth = DOMAIN host
      /\ MetaIs(open.truth, open.side, open.resources, open.copies)
  BY DEF MetaKept
<1>2. CopiesAre(done.copies)
  BY <1>1 DEF CopiesAre, OneTaken
<1>3. MetaIs(open.truth, open.side, done.resources, done.copies)
  <2> SUFFICES ASSUME NEW q \in DOMAIN open.truth, open.truth[q].own, Seen(q)
               PROVE  MetaOf(open.truth[q].meta, q, open.side, done.resources, done.copies)
    BY <1>1 DEF MetaIs
  <2>1. MetaOf(open.truth[q].meta, q, open.side, open.resources, open.copies)
    BY <1>1 DEF MetaIs
  <2>2. CASE q = p
    <3>1. q \notin DOMAIN done.resources
      BY <2>2 DEF OneTaken
    <3>2. MetaIn(open.side, q).resource = open.truth[q].meta.resource
      BY <2>1, <2>2 DEF MetaOf
    <3> QED BY <2>1, <3>1, <3>2 DEF MetaOf
  <2>3. CASE q # p
    <3>1. q \in DOMAIN done.resources <=> q \in DOMAIN open.resources
      BY <2>3 DEF OneTaken
    <3>2. q \in DOMAIN open.resources =>
            /\ done.resources[q] = open.resources[q] /\ open.resources[q] # x
            /\ open.resources[q] \in DOMAIN open.copies
            /\ done.copies[open.resources[q]] = open.copies[open.resources[q]]
      BY <2>3, <3>1 DEF OneTaken, CopyOf
    <3> QED BY <2>1, <3>1, <3>2 DEF MetaOf
  <2> QED BY <2>2, <2>3
<1> QED BY <1>1, <1>2, <1>3 DEF MetaKept, OneTaken

\* One who shares a copy less.
OneLess(done, open, x) ==
  /\ done.side = open.side /\ done.truth = open.truth /\ done.resources = open.resources
  /\ DOMAIN done.copies = DOMAIN open.copies
  /\ \A y \in DOMAIN open.copies : {"data", "dirty"} \subseteq DOMAIN open.copies[y] =>
       /\ {"data", "dirty"} \subseteq DOMAIN done.copies[y]
       /\ done.copies[y].data = open.copies[y].data
       /\ done.copies[y].dirty = open.copies[y].dirty

LEMMA LessMeta ==
  ASSUME NEW open, MetaKept(open), CopyOf(open.resources, open.copies),
         NEW x, NEW done, OneLess(done, open, x)
  PROVE  MetaKept(done)
<1>1. /\ CopiesAre(open.copies) /\ SidesAre(open.side) /\ DOMAIN open.side \subseteq DOMAIN host
      /\ DOMAIN open.truth = DOMAIN host
      /\ MetaIs(open.truth, open.side, open.resources, open.copies)
  BY DEF MetaKept
<1>2. CopiesAre(done.copies)
  BY <1>1 DEF CopiesAre, OneLess
<1>3. MetaIs(open.truth, open.side, open.resources, done.copies)
  <2> SUFFICES ASSUME NEW q \in DOMAIN open.truth, open.truth[q].own, Seen(q)
               PROVE  MetaOf(open.truth[q].meta, q, open.side, open.resources, done.copies)
    BY <1>1 DEF MetaIs
  <2>1. MetaOf(open.truth[q].meta, q, open.side, open.resources, open.copies)
    BY <1>1 DEF MetaIs
  <2>2. q \in DOMAIN open.resources =>
          /\ done.copies[open.resources[q]].data = open.copies[open.resources[q]].data
          /\ done.copies[open.resources[q]].dirty = open.copies[open.resources[q]].dirty
    BY <1>1 DEF CopiesAre, CopyOf, OneLess
  <2> QED BY <2>1, <2>2 DEF MetaOf
<1> QED BY <1>1, <1>2, <1>3 DEF MetaKept, OneLess

\* A fork closed: those left open are shared as before.
LEMMA ClosedShares ==
  ASSUME FolderIs(host), NEW open, HeldIn(open), Shares(open), MetaKept(open),
         NEW ref \in DOMAIN open.forks, NEW outcome \in Outcomes
  PROVE  LET done == Closed(open, ref, outcome) IN Shares(done) /\ MetaKept(done)
<1> DEFINE fk == open.forks
           f == fk[ref]
           few == Fewer(fk, ref)
           left == [open EXCEPT !.forks = few]
           x == f.copy
           p == f.rel
           flushed == Flushed(left, x, outcome)
           cp == flushed.copies
           rs == flushed.resources
           less == [cp EXCEPT ![x].users = @ - 1]
           one == [flushed EXCEPT !.copies = less]
           rs0 == [q \in DOMAIN rs \ {cp[x].rel} |-> rs[q]]
           cp0 == [y \in DOMAIN cp \ {x} |-> cp[y]]
           none == [flushed EXCEPT !.resources = rs0, !.copies = cp0]
<1>1. Closed(open, ref, outcome) =
        IF ~f.resource THEN left ELSE IF cp[x].users > 1 THEN one ELSE none
  BY DEF Closed, Fewer
<1>2. /\ Parts(left) /\ left.forks = few /\ left.resources = open.resources
      /\ left.copies = open.copies /\ left.side = open.side /\ left.truth = open.truth
  BY DEF HeldIn, Parts
<1>3. MetaKept(left) /\ CopyOf(left.resources, left.copies)
  <2> HIDE DEF left, few
  <2> QED BY <1>2 DEF MetaKept, CopyOf, HeldIn, Held
<1>4. Together(fk, open.resources) /\ Agree(fk) /\ OnFiles(fk, host)
  BY DEF Shares
<1>5. Agree(few) /\ OnFiles(few, host)
  BY <1>4, FewerShares
<1>6. /\ DOMAIN few = DOMAIN fk \ {ref}
      /\ \A r \in DOMAIN few : few[r] = fk[r]
  BY DEF Fewer
<1> HIDE DEF left, few
<1>7. CASE ~f.resource
  <2>1. Together(few, open.resources)
    BY <1>4, <1>6, <1>7 DEF Together
  <2> QED BY <1>1, <1>2, <1>3, <1>5, <1>7, <2>1 DEF Shares
<1>8. CASE f.resource
  <2>1. p \in DOMAIN open.resources /\ open.resources[p] = x /\ p \in DOMAIN host
    BY <1>4, <1>8 DEF Together, OnFiles
  <2>2. /\ Parts(flushed) /\ flushed.forks = few /\ rs = open.resources
        /\ SameCopies(open.copies, cp)
    BY <1>2, FlushedHeld
  <2>3. MetaKept(flushed) /\ (flushed.truth[p].own => ~flushed.copies[x].dirty)
    <3> HIDE DEF fk, x, p, flushed
    <3>1. p \in DOMAIN left.resources /\ x = left.resources[p]
      BY <1>2, <2>1
    <3> QED BY <1>2, <1>3, <2>1, <3>1, FlushedMeta DEF flushed
  <2> HIDE DEF flushed
  <2>4. Held(fk, rs, cp)
    BY <2>2, SameHeld DEF HeldIn
  <2>5. CopyOf(rs, cp)
    BY <2>4 DEF Held, CopyOf
  <2>6. /\ x \in DOMAIN cp /\ {"rel", "users"} \subseteq DOMAIN cp[x] /\ cp[x].rel = p
        /\ cp[x].users = Cardinality(Holders(fk, x)) /\ DOMAIN fk \subseteq 1..LastRef
    BY <1>8, <2>1, <2>2, <2>4 DEF Held
  <2>7. /\ one.forks = few /\ one.resources = rs /\ one.copies = less
        /\ one.side = flushed.side /\ one.truth = flushed.truth
        /\ none.forks = few /\ none.resources = rs0 /\ none.copies = cp0
        /\ none.side = flushed.side /\ none.truth = flushed.truth
    <3> HIDE DEF less, rs0, cp0
    <3> QED BY <2>2 DEF Parts
  <2>8. CASE cp[x].users > 1
    <3>1. PICK other \in Holders(fk, x) : other # ref
      BY <2>6, <2>8, AnotherHolds
    <3>2. other \in DOMAIN few /\ few[other].resource /\ few[other].rel = p
      <4>1. other \in DOMAIN fk /\ fk[other].resource /\ fk[other].copy = x
        BY <3>1 DEF Holders
      <4>2. rs[fk[other].rel] = x /\ fk[other].rel \in DOMAIN rs
        BY <1>4, <2>2, <4>1 DEF Together
      <4> QED BY <1>6, <2>5, <2>6, <3>1, <4>1, <4>2 DEF CopyOf
    <3>3. Together(few, rs)
      BY <1>4, <1>6, <2>2, <3>2 DEF Together
    <3>4. OneLess(one, flushed, x)
      <4>1. /\ DOMAIN less = DOMAIN cp
            /\ \A y \in DOMAIN cp : y # x => less[y] = cp[y]
            /\ DOMAIN less[x] = DOMAIN cp[x]
            /\ {"data", "dirty"} \subseteq DOMAIN cp[x] =>
                 less[x].data = cp[x].data /\ less[x].dirty = cp[x].dirty
        BY <2>6
      <4> HIDE DEF less, one
      <4> QED BY <2>7, <4>1 DEF OneLess
    <3> HIDE DEF one, less
    <3>5. MetaKept(one)
      BY <2>3, <2>5, <3>4, LessMeta
    <3>6. Shares(one)
      BY <1>5, <2>7, <3>3 DEF Shares
    <3> QED BY <1>1, <1>8, <2>8, <3>5, <3>6
  <2>9. CASE ~(cp[x].users > 1)
    <3>1. OneTaken(none, flushed, p, x)
      <4>1. /\ DOMAIN cp0 = DOMAIN cp \ {x} /\ \A y \in DOMAIN cp0 : cp0[y] = cp[y]
            /\ DOMAIN rs0 = DOMAIN rs \ {p} /\ \A q \in DOMAIN rs0 : rs0[q] = rs[q]
        BY <2>6
      <4> HIDE DEF cp0, rs0, none
      <4> QED BY <2>7, <4>1 DEF OneTaken
    <3> HIDE DEF none, cp0, rs0
    <3>2. MetaKept(none)
      BY <2>1, <2>2, <2>3, <2>5, <3>1, TakenMeta
    <3>3. \A r \in DOMAIN few : few[r].resource => few[r].copy # x
      <4> SUFFICES ASSUME NEW r \in DOMAIN few, few[r].resource, few[r].copy = x PROVE FALSE
        OBVIOUS
      <4>1. r \in Holders(fk, x) /\ ref \in Holders(fk, x) /\ r # ref
        BY <1>6, <1>8 DEF Holders
      <4>2. IsFiniteSet(Holders(fk, x)) /\ Cardinality(Holders(fk, x)) \in Nat
        BY <2>6, HeldFinite
      <4>3. Cardinality(Holders(fk, x)) # 0 /\ Cardinality(Holders(fk, x)) # 1
        BY <4>1, <4>2, FS_EmptySet, FS_Singleton
      <4> QED BY <2>6, <2>9, <4>2, <4>3
    <3>4. Together(few, rs0)
      <4>1. DOMAIN rs0 = DOMAIN rs \ {p} /\ \A q \in DOMAIN rs0 : rs0[q] = rs[q]
        BY <2>7, <2>2, <3>1 DEF OneTaken
      <4>2. ASSUME NEW r \in DOMAIN few
            PROVE  /\ few[r].file = few[r].rel
                   /\ few[r].resource => few[r].rel \in DOMAIN rs0 /\ rs0[few[r].rel] = few[r].copy
        BY <1>4, <1>6, <2>1, <2>2, <3>3, <4>1 DEF Together
      <4>3. ASSUME NEW q \in DOMAIN rs0 PROVE \E r \in DOMAIN few : few[r].resource /\ few[r].rel = q
        BY <1>4, <1>6, <2>2, <4>1 DEF Together
      <4> QED BY <4>2, <4>3 DEF Together
    <3>5. Shares(none)
      BY <1>5, <2>7, <3>4 DEF Shares
    <3> QED BY <1>1, <1>8, <2>9, <3>2, <3>5
  <2> QED BY <2>8, <2>9
<1> QED BY <1>7, <1>8

-----------------------------------------------------------------------------
(* What each call does to them.                                            *)

SharedIInv ==
  /\ DataIs(host)
  /\ Together(forks, resources) /\ Agree(forks) /\ OnFiles(forks, host)
  /\ CopiesAre(copies) /\ SidesAre(side) /\ DOMAIN side \subseteq DOMAIN host
  /\ MetaIs(truth, side, resources, copies)

LEMMA NoCopyOfNothing ==
  ASSUME SharedIInv
  PROVE  DOMAIN resources \subseteq DOMAIN host
  BY DEF SharedIInv, Together, OnFiles

LEMMA OnSameFiles ==
  ASSUME NEW fk, NEW f, NEW g, InFolders(f), OnFiles(fk, f), SameFolder(f, g)
  PROVE  OnFiles(fk, g)
  BY DEF InFolders, OnFiles, SameFolder

LEMMA StillShared ==
  ASSUME DesktopIInv, SharedIInv, SameFolder(host, host'), DataIs(host'), SameMeta(truth, truth'),
         UNCHANGED <<side, forks, resources, copies>>
  PROVE  SharedIInv'
<1>1. OnFiles(forks, host')
  BY OnSameFiles DEF DesktopIInv, FolderIs, SharedIInv
<1>2. MetaIs(truth', side, resources, copies)
  BY MetaSame DEF SharedIInv
<1>3. DOMAIN host' = DOMAIN host
  BY DEF SameFolder
<1> QED BY <1>1, <1>2, <1>3 DEF SharedIInv

LEMMA OnlyNumbersShared ==
  ASSUME DesktopIInv, SharedIInv, NEW numbers, NEW named, OnlyNumbers(numbers, named)
  PROVE  SharedIInv'
<1>1. /\ truth' = Stamped(truth, numbers, named)
      /\ UNCHANGED <<host, side, forks, resources, copies>>
  BY DEF OnlyNumbers, forkVars
<1>2. DataIs(host')
  BY <1>1 DEF SharedIInv
<1> QED BY <1>1, <1>2, SameMetaStamped, SameFolderSelf, StillShared

LEMMA RefusedShared ==
  ASSUME DesktopIInv, SharedIInv, NEW at, Refused(at)
  PROVE  SharedIInv'
  BY OnlyNumbersShared DEF Refused

\* What is said of one thing is no longer the same, and what is beside it.
LEMMA MetaChanged ==
  ASSUME NEW old, NEW sd, NEW rs, NEW cp, MetaIs(old, sd, rs, cp), NEW p,
         NEW new, DOMAIN new = DOMAIN old, \A q \in DOMAIN old : q # p => new[q] = old[q],
         NEW sides, \A q : q # p => MetaIn(sides, q) = MetaIn(sd, q),
         /\ MetaFields \subseteq DOMAIN new[p] /\ DOMAIN new[p].meta = {"finder", "resource"}
         /\ new[p].own /\ Seen(p) => MetaOf(new[p].meta, p, sides, rs, cp)
  PROVE  MetaIs(new, sides, rs, cp)
<1> SUFFICES ASSUME NEW q \in DOMAIN new
             PROVE  /\ MetaFields \subseteq DOMAIN new[q] /\ DOMAIN new[q].meta = {"finder", "resource"}
                    /\ new[q].own /\ Seen(q) => MetaOf(new[q].meta, q, sides, rs, cp)
  BY DEF MetaIs
<1>1. CASE q = p
  BY <1>1
<1>2. CASE q # p
  <2>1. /\ MetaFields \subseteq DOMAIN old[q] /\ DOMAIN old[q].meta = {"finder", "resource"}
        /\ old[q].own /\ Seen(q) => MetaOf(old[q].meta, q, sd, rs, cp)
    BY DEF MetaIs
  <2> QED BY <1>2, <2>1 DEF MetaOf
<1> QED BY <1>1, <1>2

LEMMA SetParmsShared ==
  ASSUME NumbersIInv, DesktopIInv, SharedIInv, NEW asked \in Asked,
         NEW finder \in Finders \cup {None}, NEW outcome \in Outcomes,
         SetParms(asked, finder, outcome)
  PROVE  SharedIInv'
<1> DEFINE at == Resolve(asked)
           rel == Rel(at)
           numbers == Resolved(ids, at)
           known == Stamped(truth, numbers, Named(at))
           meta == [Metadata(rel) EXCEPT !.finder = finder]
<1>1. Placed(at) /\ FolderIs(host) /\ InFolders(host) /\ DOMAIN truth = DOMAIN host
  BY ResolveIs DEF NumbersIInv, DesktopIInv, FolderIs
<1>2. CASE ~Exists(at)
  <2>1. Refused(at)
    BY <1>2 DEF SetParms
  <2> QED BY <2>1, RefusedShared
<1>3. CASE Exists(at)
  <2>1. rel \in DOMAIN host
    BY <1>1, <1>3, RelThere
  <2>2. Allowed(rel, outcome) = outcome
    BY <1>1, <2>1, AllowedIs
  <2>3. SameMeta(truth, known) /\ MetaIs(known, side, resources, copies) /\ DOMAIN known = DOMAIN truth
    BY SameMetaStamped, MetaSame DEF SharedIInv, SameMeta
  <2>4. /\ UNCHANGED <<host, forks, resources, copies>>
        /\ \/ side' = side /\ truth' = known
           \/ /\ side' = MetaWritten(side, rel, meta, outcome)
              /\ truth' = CASE outcome = "written" -> [known EXCEPT ![rel].meta.finder = finder]
                            [] outcome = "cut" -> [known EXCEPT ![rel].own = FALSE]
                            [] OTHER -> known
    BY <1>3, <2>2 DEF SetParms, forkVars
  <2>5. MetaIn(side, rel) = Metadata(rel) /\ SidesAre(side)
    BY DEF Metadata, SharedIInv
  <2> HIDE DEF at, rel, known
  <2>6. CASE side' = side /\ truth' = known
    <3>1. DataIs(host')
      BY <2>4 DEF SharedIInv
    <3> QED BY <2>3, <2>4, <2>6, <3>1, SameFolderSelf, StillShared
  <2>7. CASE /\ side' = MetaWritten(side, rel, meta, outcome)
             /\ truth' = CASE outcome = "written" -> [known EXCEPT ![rel].meta.finder = finder]
                            [] outcome = "cut" -> [known EXCEPT ![rel].own = FALSE]
                            [] OTHER -> known
    <3>1. /\ Metadata(rel) \in Meta /\ DOMAIN Metadata(rel) = {"finder", "resource"}
      BY <2>5, MetaInIs
    <3>2. meta \in Meta /\ meta.finder = finder /\ meta.resource = Metadata(rel).resource
      BY <3>1 DEF Meta
    <3> HIDE DEF meta
    <3>3. outcome \in Results
      BY FolderAssumption DEF Results
    <3>4. /\ SidesAre(side') /\ DOMAIN side' \subseteq DOMAIN side \cup {rel}
          /\ \A q : q # rel => MetaIn(side', q) = MetaIn(side, q)
          /\ outcome = "written" => MetaIn(side', rel) = meta
          /\ outcome = "refused" => MetaIn(side', rel) = MetaIn(side, rel)
      <4>1. MetaPut(side', side, rel, meta, outcome)
        BY <2>5, <2>7, <3>2, <3>3, MetaWrittenIs
      <4> QED BY <4>1 DEF MetaPut
    <3>5. /\ MetaFields \subseteq DOMAIN known[rel] /\ DOMAIN known[rel].meta = {"finder", "resource"}
          /\ known[rel].own /\ Seen(rel) => MetaOf(known[rel].meta, rel, side, resources, copies)
      BY <1>1, <2>1, <2>3 DEF MetaIs
    <3>6. /\ DOMAIN truth' = DOMAIN known /\ \A q \in DOMAIN known : q # rel => truth'[q] = known[q]
          /\ outcome = "refused" => truth'[rel] = known[rel]
      BY <2>7, <3>3 DEF Results
    <3>7. /\ MetaFields \subseteq DOMAIN truth'[rel]
          /\ DOMAIN truth'[rel].meta = {"finder", "resource"}
          /\ truth'[rel].own => known[rel].own /\ outcome # "cut"
          /\ truth'[rel].meta.resource = known[rel].meta.resource
          /\ outcome = "written" => truth'[rel].meta.finder = finder
      <4>1. rel \in DOMAIN known
        BY <1>1, <2>1, <2>3
      <4>2. CASE outcome = "written"
        <5> DEFINE e == known[rel]
                   m == e.meta
        <5>1. truth'[rel] = [e EXCEPT !.meta.finder = finder]
          BY <2>7, <4>1, <4>2
        <5> HIDE DEF e
        <5>2. /\ truth'[rel].meta = [e.meta EXCEPT !.finder = finder]
              /\ DOMAIN truth'[rel] = DOMAIN e /\ truth'[rel].own = e.own
          BY <3>5, <5>1 DEF e, MetaFields
        <5> QED BY <3>5, <4>2, <5>2 DEF e
      <4>3. CASE outcome = "cut"
        BY <2>7, <3>5, <4>1, <4>3 DEF MetaFields
      <4>4. CASE outcome = "refused"
        BY <3>5, <3>6, <4>4
      <4> QED BY <3>3, <4>2, <4>3, <4>4 DEF Results
    <3>8. truth'[rel].own /\ Seen(rel) => MetaOf(truth'[rel].meta, rel, side', resources, copies)
      <4> SUFFICES ASSUME truth'[rel].own, Seen(rel)
                   PROVE  MetaOf(truth'[rel].meta, rel, side', resources, copies)
        OBVIOUS
      <4>1. MetaOf(known[rel].meta, rel, side, resources, copies) /\ outcome # "cut"
        BY <3>5, <3>7
      <4>2. CASE outcome = "written"
        BY <2>5, <3>2, <3>4, <3>7, <4>1, <4>2 DEF MetaOf
      <4>3. CASE outcome = "refused"
        BY <3>4, <3>6, <4>1, <4>3 DEF MetaOf
      <4> QED BY <3>3, <4>1, <4>2, <4>3 DEF Results
    <3>9. MetaIs(truth', side', resources, copies)
      BY <2>3, <3>4, <3>6, <3>7, <3>8, MetaChanged
    <3> QED BY <2>1, <2>4, <3>4, <3>9 DEF SharedIInv
  <2> QED BY <2>4, <2>6, <2>7
<1> QED BY <1>2, <1>3

\* Something new, which has what lies beside it.
LEMMA NewShared ==
  ASSUME DesktopIInv, SharedIInv, NEW rel, rel \notin DOMAIN host,
         NEW thing, {"dir", "data"} \subseteq DOMAIN thing, thing.data = <<>>,
         host' = With(host, rel, thing),
         SidesAre(side'), DOMAIN side' \subseteq DOMAIN side \cup {rel},
         \A q : q # rel => MetaIn(side', q) = MetaIn(side, q),
         NEW own, SameMeta(With(truth, rel, Untold(MetaIn(side', rel), own)), truth'),
         UNCHANGED <<forks, resources, copies>>
  PROVE  SharedIInv'
<1> DEFINE m == MetaIn(side', rel)
           h == With(truth, rel, Untold(m, own))
<1>1. /\ DOMAIN host' = {rel} \cup DOMAIN host /\ host'[rel] = thing
      /\ \A q \in DOMAIN host : host'[q] = host[q]
  BY DEF With
<1>2. DataIs(host')
  BY <1>1, NoMetaIs DEF SharedIInv, DataIs
<1>3. OnFiles(forks, host')
  BY <1>1 DEF SharedIInv, OnFiles
<1>4. DOMAIN side' \subseteq DOMAIN host'
  BY <1>1 DEF SharedIInv
<1>5. rel \notin DOMAIN resources
  BY NoCopyOfNothing
<1>6. /\ DOMAIN h = {rel} \cup DOMAIN truth /\ h[rel] = Untold(m, own)
      /\ \A q \in DOMAIN truth : q # rel => h[q] = truth[q]
  BY DEF With
<1>7. /\ MetaFields \subseteq DOMAIN Untold(m, own) /\ Untold(m, own).meta = m
  BY DEF MetaFields, Untold
<1>8. DOMAIN m = {"finder", "resource"}
  BY MetaInIs
<1>9. rel \notin DOMAIN truth
  BY DEF DesktopIInv
<1> HIDE DEF h
<1>10. MetaOf(m, rel, side', resources, copies)
  BY <1>5 DEF MetaOf
<1> HIDE DEF m
<1>11. MetaIs(h, side', resources, copies)
  <2> SUFFICES ASSUME NEW q \in DOMAIN h
               PROVE  /\ MetaFields \subseteq DOMAIN h[q] /\ DOMAIN h[q].meta = {"finder", "resource"}
                      /\ h[q].own /\ Seen(q) => MetaOf(h[q].meta, q, side', resources, copies)
    BY DEF MetaIs
  <2>1. CASE q = rel
    BY <1>6, <1>7, <1>8, <1>10, <2>1
  <2>2. CASE q # rel
    <3>1. q \in DOMAIN truth /\ h[q] = truth[q]
      BY <1>6, <2>2
    <3>2. /\ MetaFields \subseteq DOMAIN truth[q] /\ DOMAIN truth[q].meta = {"finder", "resource"}
          /\ truth[q].own /\ Seen(q) => MetaOf(truth[q].meta, q, side, resources, copies)
      BY <3>1 DEF SharedIInv, MetaIs
    <3> QED BY <2>2, <3>1, <3>2 DEF MetaOf
  <2> QED BY <2>1, <2>2
<1>12. MetaIs(truth', side', resources, copies)
  BY <1>11, MetaSame DEF h, m
<1> QED BY <1>2, <1>3, <1>4, <1>12 DEF SharedIInv

LEMMA WithSameMeta ==
  ASSUME NEW old, NEW new, SameMeta(old, new), NEW rel, NEW mine
  PROVE  SameMeta(With(old, rel, mine), With(new, rel, mine))
  BY DEF SameMeta, With

LEMMA CreateFileShared ==
  ASSUME ToldApart, NumbersIInv, DesktopIInv, SharedIInv, NEW asked \in Asked, NEW hard,
         NEW outcome \in Outcomes, CreateFile(asked, hard, outcome)
  PROVE  SharedIInv'
<1> DEFINE at == Resolve(asked)
           rel == Rel(at)
           numbers == Resolved(ids, at)
           known == Stamped(truth, numbers, Named(at))
           new == NewRel(at.folder, at.name)
<1>1. Placed(at) /\ FolderIs(host) /\ InFolders(host) /\ DOMAIN truth = DOMAIN host
  BY ResolveIs DEF NumbersIInv, DesktopIInv, FolderIs
<1>2. \/ Refused(at)
      \/ /\ Exists(at) /\ ~host[rel].dir /\ ~Busy(rel)
         /\ host' = [host EXCEPT ![rel].data = <<>>]
         /\ side' = MetaWritten(side, rel, NoMeta, Allowed(rel, outcome))
         /\ truth' = [known EXCEPT ![rel].meta = NoMeta, ![rel].own = @ /\ outcome = "written"]
         /\ UNCHANGED <<forks, resources, copies>>
      \/ /\ ~Exists(at) /\ at.ok /\ ~at.name.mangled /\ at.name.of \in NewNames
         /\ host' = With(host, new, [dir |-> FALSE, locked |-> FALSE, data |-> <<>>])
         /\ truth' = With(known, new, Untold(Metadata(new), new \notin strange))
         /\ UNCHANGED <<side, forks, resources, copies>>
  BY DEF CreateFile, Made, forkVars
<1>3. SameMeta(truth, known) /\ MetaIs(known, side, resources, copies) /\ DOMAIN known = DOMAIN truth
  BY SameMetaStamped, MetaSame DEF SharedIInv, SameMeta
<1> HIDE DEF at, known
<1>4. CASE Refused(at)
  BY <1>4, RefusedShared
<1>5. CASE /\ Exists(at) /\ ~host[rel].dir /\ ~Busy(rel)
           /\ host' = [host EXCEPT ![rel].data = <<>>]
           /\ side' = MetaWritten(side, rel, NoMeta, Allowed(rel, outcome))
           /\ truth' = [known EXCEPT ![rel].meta = NoMeta, ![rel].own = @ /\ outcome = "written"]
           /\ UNCHANGED <<forks, resources, copies>>
  <2>1. rel \in DOMAIN host /\ rel \in Path
    BY <1>1, <1>5, RelThere DEF InFolders
  <2>2. Allowed(rel, outcome) = outcome /\ outcome \in Results
    BY <1>1, <2>1, AllowedIs, FolderAssumption DEF Results
  <2> HIDE DEF rel
  <2>3. rel \notin DOMAIN resources
    <3>1. IsPrefix(rel, rel)
      BY <2>1, PrefixSelf
    <3> QED BY <1>5, <3>1 DEF Busy, SharedIInv, Together
  <2>4. SameFolder(host, host')
    BY <1>5 DEF SameFolder
  <2>5. DataIs(host')
    BY <1>5, NoMetaIs DEF SharedIInv, DataIs
  <2>6. /\ SidesAre(side') /\ DOMAIN side' \subseteq DOMAIN side \cup {rel}
        /\ \A q : q # rel => MetaIn(side', q) = MetaIn(side, q)
        /\ outcome = "written" => MetaIn(side', rel) = NoMeta
    <3>1. side' = MetaWritten(side, rel, NoMeta, outcome) /\ NoMeta \in Meta /\ SidesAre(side)
      BY <1>5, <2>2, NoMetaIs DEF SharedIInv
    <3> HIDE DEF new
    <3>2. MetaPut(side', side, rel, NoMeta, outcome)
      BY <2>2, <3>1, MetaWrittenIs
    <3> QED BY <3>2 DEF MetaPut
  <2>7. MetaFields \subseteq DOMAIN known[rel]
    BY <1>1, <1>3, <2>1 DEF MetaIs
  <2>8. /\ DOMAIN truth' = DOMAIN known /\ \A q \in DOMAIN known : q # rel => truth'[q] = known[q]
        /\ MetaFields \subseteq DOMAIN truth'[rel] /\ truth'[rel].meta = NoMeta
        /\ truth'[rel].own => outcome = "written"
    <3> DEFINE once == [known EXCEPT ![rel].meta = NoMeta]
               twice == [once EXCEPT ![rel].own = @ /\ outcome = "written"]
    <3>1. /\ DOMAIN once = DOMAIN known /\ \A q \in DOMAIN known : q # rel => once[q] = known[q]
          /\ DOMAIN once[rel] = DOMAIN known[rel] /\ once[rel].meta = NoMeta
      BY <1>1, <1>3, <2>1, <2>7 DEF MetaFields
    <3>2. truth' = twice
      BY <1>5
    <3> HIDE DEF once
    <3>3. /\ DOMAIN twice = DOMAIN once /\ \A q \in DOMAIN once : q # rel => twice[q] = once[q]
          /\ DOMAIN twice[rel] = DOMAIN once[rel] /\ twice[rel].meta = once[rel].meta
          /\ twice[rel].own = (once[rel].own /\ outcome = "written")
      BY <1>1, <1>3, <2>1, <2>7, <3>1 DEF MetaFields
    <3> QED BY <2>7, <3>1, <3>2, <3>3
  <2>9. MetaIs(truth', side', resources, copies)
    <3>1. DOMAIN truth'[rel].meta = {"finder", "resource"}
      BY <2>8 DEF NoMeta
    <3>2. truth'[rel].own => MetaOf(truth'[rel].meta, rel, side', resources, copies)
      BY <2>3, <2>6, <2>8 DEF MetaOf
    <3> QED BY <1>3, <2>6, <2>8, <3>1, <3>2, MetaChanged
  <2>10. OnFiles(forks, host') /\ DOMAIN host' = DOMAIN host
    BY <1>1, <2>4, OnSameFiles DEF SharedIInv, SameFolder
  <2> QED BY <1>5, <2>1, <2>5, <2>6, <2>9, <2>10 DEF SharedIInv
<1>6. CASE /\ ~Exists(at) /\ at.ok /\ ~at.name.mangled /\ at.name.of \in NewNames
           /\ host' = With(host, new, [dir |-> FALSE, locked |-> FALSE, data |-> <<>>])
           /\ truth' = With(known, new, Untold(Metadata(new), new \notin strange))
           /\ UNCHANGED <<side, forks, resources, copies>>
  <2>1. at.name.of \in Names /\ Shows(at.name.of)
    BY <1>6, VolumeAssumption DEF ToldApart
  <2>2. new \notin DOMAIN host
    BY <1>1, <1>6, <2>1, NewPlace
  <2> HIDE DEF new
  <2> DEFINE thing == [dir |-> FALSE, locked |-> FALSE, data |-> <<>>]
             own == new \notin strange
             mine == Untold(MetaIn(side, new), own)
  <2>3. {"dir", "data"} \subseteq DOMAIN thing /\ thing.data = <<>> /\ host' = With(host, new, thing)
    BY <1>6
  <2> HIDE DEF thing, own
  <2>4. truth' = With(known, new, mine)
    BY <1>6 DEF Metadata, own
  <2> HIDE DEF mine
  <2>5. SameMeta(With(truth, new, mine), truth')
    BY <1>3, <2>4, WithSameMeta
  <2>6. SidesAre(side') /\ side' = side
    BY <1>6 DEF SharedIInv
  <2>7. SameMeta(With(truth, new, Untold(MetaIn(side', new), own)), truth')
    BY <2>5, <2>6 DEF mine
  <2> QED BY <1>6, <2>2, <2>3, <2>6, <2>7, NewShared
<1> QED BY <1>2, <1>4, <1>5, <1>6

LEMMA CreateDirShared ==
  ASSUME ToldApart, NumbersIInv, DesktopIInv, SharedIInv, NEW asked \in Asked, CreateDir(asked)
  PROVE  SharedIInv'
<1> DEFINE at == Resolve(asked)
           new == NewRel(at.folder, at.name)
           numbers == Number(ids, new)
           told == With(truth, new, Untold(Metadata(new), new \notin strange))
<1>1. Placed(at) /\ FolderIs(host)
  BY ResolveIs DEF NumbersIInv, DesktopIInv
<1>2. \/ Refused(at)
      \/ /\ ~Exists(at) /\ at.ok /\ ~at.name.mangled /\ at.name.of \in NewNames
         /\ host' = With(host, new, [dir |-> TRUE, locked |-> FALSE, data |-> <<>>])
         /\ truth' = Stamped(told, numbers, {new})
         /\ UNCHANGED <<side, forks, resources, copies>>
  BY DEF CreateDir, Made, forkVars
<1> HIDE DEF at
<1>3. CASE Refused(at)
  BY <1>3, RefusedShared
<1>4. CASE /\ ~Exists(at) /\ at.ok /\ ~at.name.mangled /\ at.name.of \in NewNames
           /\ host' = With(host, new, [dir |-> TRUE, locked |-> FALSE, data |-> <<>>])
           /\ truth' = Stamped(told, numbers, {new})
           /\ UNCHANGED <<side, forks, resources, copies>>
  <2>1. at.name.of \in Names /\ Shows(at.name.of)
    BY <1>4, VolumeAssumption DEF ToldApart
  <2>2. new \notin DOMAIN host
    BY <1>1, <1>4, <2>1, NewPlace
  <2> HIDE DEF new
  <2> DEFINE thing == [dir |-> TRUE, locked |-> FALSE, data |-> <<>>]
             own == new \notin strange
  <2>3. {"dir", "data"} \subseteq DOMAIN thing /\ thing.data = <<>> /\ host' = With(host, new, thing)
    BY <1>4
  <2> HIDE DEF thing, own
  <2>4. SidesAre(side') /\ side' = side
    BY <1>4 DEF SharedIInv
  <2>5. SameMeta(With(truth, new, Untold(MetaIn(side', new), own)), truth')
    BY <1>4, <2>4, SameMetaStamped DEF Metadata, own
  <2> QED BY <1>4, <2>2, <2>3, <2>4, <2>5, NewShared
<1> QED BY <1>2, <1>3, <1>4

\* Something with nothing in it, and nobody who has it open, is there no more.
LEMMA TakenShared ==
  ASSUME DesktopIInv, SharedIInv, NEW rel \in DOMAIN host, rel # Root, Inside(rel) = {},
         rel \notin DOMAIN resources, \A r \in DOMAIN forks : forks[r].rel # rel,
         host' = Without(host, rel), truth' = Without(truth, rel),
         side' = [p \in DOMAIN side \ {rel} |-> side[p]],
         Together(forks', resources), Agree(forks'), DOMAIN forks' = DOMAIN forks,
         \A r \in DOMAIN forks : "access" \in DOMAIN forks'[r] /\ forks'[r].rel = forks[r].rel,
         UNCHANGED <<resources, copies>>
  PROVE  SharedIInv'
<1>1. /\ DOMAIN host' = DOMAIN host \ {rel} /\ DOMAIN truth' = DOMAIN truth \ {rel}
      /\ \A p \in DOMAIN truth' : truth'[p] = truth[p]
  BY LastInIt
<1>2. \A p \in DOMAIN host' : host'[p] = host[p]
  BY DEF Without
<1>3. DOMAIN side' = DOMAIN side \ {rel} /\ \A p \in DOMAIN side' : side'[p] = side[p]
  OBVIOUS
<1>4. DataIs(host') /\ SidesAre(side') /\ DOMAIN side' \subseteq DOMAIN host'
  BY <1>1, <1>2, <1>3 DEF SharedIInv, DataIs, SidesAre
<1>5. OnFiles(forks', host')
  BY <1>1, <1>2 DEF SharedIInv, OnFiles
<1>6. \A p : p # rel => MetaIn(side', p) = MetaIn(side, p)
  BY <1>3 DEF MetaIn
<1>7. MetaIs(truth', side', resources, copies)
  <2> SUFFICES ASSUME NEW q \in DOMAIN truth'
               PROVE  /\ MetaFields \subseteq DOMAIN truth'[q]
                      /\ DOMAIN truth'[q].meta = {"finder", "resource"}
                      /\ truth'[q].own /\ Seen(q) => MetaOf(truth'[q].meta, q, side', resources, copies)
    BY DEF MetaIs
  <2>1. q \in DOMAIN truth /\ q # rel /\ truth'[q] = truth[q]
    BY <1>1
  <2>2. /\ MetaFields \subseteq DOMAIN truth[q] /\ DOMAIN truth[q].meta = {"finder", "resource"}
        /\ truth[q].own /\ Seen(q) => MetaOf(truth[q].meta, q, side, resources, copies)
    BY <2>1 DEF SharedIInv, MetaIs
  <2> QED BY <1>6, <2>1, <2>2 DEF MetaOf
<1> QED BY <1>4, <1>5, <1>7 DEF SharedIInv

LEMMA DeleteShared ==
  ASSUME NumbersIInv, DesktopIInv, SharedIInv, NEW asked \in Asked, Delete(asked)
  PROVE  SharedIInv'
<1> DEFINE at == Resolve(asked)
           rel == Rel(at)
<1>1. Placed(at) /\ InFolders(host) /\ DOMAIN truth = DOMAIN host
  BY ResolveIs DEF NumbersIInv, DesktopIInv, FolderIs
<1>2. \/ Refused(at)
      \/ /\ Exists(at) /\ ~(host[rel].dir /\ Shown(rel) # {})
         /\ truth' = Stamped(truth, Resolved(ids, at), Named(at))
         /\ side' = [p \in DOMAIN side \ Clutter(rel) |-> side[p]]
         /\ UNCHANGED <<host, forks, resources, copies>>
      \/ /\ Exists(at) /\ rel # Root /\ Inside(rel) = {} /\ (host[rel].dir \/ ~Busy(rel))
         /\ host' = Without(host, rel)
         /\ side' = [p \in DOMAIN side \ ({rel} \cup Clutter(rel)) |-> side[p]]
         /\ truth' = Without(truth, rel)
         /\ UNCHANGED <<forks, resources, copies>>
  BY DEF Delete, forkVars
<1> HIDE DEF at
<1>3. CASE Refused(at)
  BY <1>3, RefusedShared
<1>4. CASE /\ Exists(at) /\ ~(host[rel].dir /\ Shown(rel) # {})
           /\ truth' = Stamped(truth, Resolved(ids, at), Named(at))
           /\ side' = [p \in DOMAIN side \ Clutter(rel) |-> side[p]]
           /\ UNCHANGED <<host, forks, resources, copies>>
  <2>1. rel \in DOMAIN host /\ rel \in Path /\ DOMAIN side \subseteq DOMAIN host
    BY <1>1, <1>4, RelThere DEF InFolders, SharedIInv
  <2> HIDE DEF rel
  \* What has an AppleDouble file cleared away is hidden.
  <2>2. ASSUME NEW p \in Clutter(rel) PROVE ~Seen(p)
    <3>1. p \in DOMAIN host /\ p \in Path /\ IsPrefix(rel, p) /\ Len(p) = Len(rel) + 1
      BY <1>1, <2>1 DEF Clutter, InFolders
    <3>2. p # Root /\ rel # p
      <4>1. Len(rel) \in Nat
        BY <2>1, PathIs
      <4> QED BY <3>1, <4>1 DEF Root
    <3>3. ParentOf(p) = rel
      <4>1. IsPrefix(rel, ParentOf(p)) /\ ParentOf(p) \in Path /\ Len(ParentOf(p)) = Len(p) - 1
        BY <2>1, <3>1, <3>2, ParentFirst, ParentIsPath
      <4>2. Rest(ParentOf(p), rel) \in Path /\ rel \o Rest(ParentOf(p), rel) = ParentOf(p)
        BY <2>1, <4>1, PrefixAndRest
      <4>3. Len(Rest(ParentOf(p), rel)) = 0
        <5>1. Len(rel) \in Nat /\ Len(p) \in Nat /\ Len(ParentOf(p)) = Len(rel)
          BY <2>1, <3>1, <4>1, PathIs
        <5>2. Len(Rest(ParentOf(p), rel)) = Len(ParentOf(p)) - Len(rel)
          BY <2>1, <4>1, <5>1, RestIs
        <5> QED BY <5>1, <5>2
      <4>4. Rest(ParentOf(p), rel) = <<>>
        BY <4>2, <4>3, EmptySeq DEF Path
      <4> QED BY <2>1, <4>2, <4>4, ConcatEmptySeq DEF Path
    <3>4. host[rel].dir /\ Last(p) \in Names /\ Append(rel, Last(p)) = p
      BY <1>1, <3>1, <3>2, <3>3, ParentIsPath DEF InFolders
    <3> QED BY <1>4, <3>1, <3>2, <3>4 DEF Shown, Seen
  <2>3. DOMAIN side' = DOMAIN side \ Clutter(rel) /\ \A p \in DOMAIN side' : side'[p] = side[p]
    BY <1>4
  <2>4. \A p : Seen(p) => MetaIn(side', p) = MetaIn(side, p)
    BY <2>2, <2>3 DEF MetaIn
  <2>5. MetaIs(truth, side', resources, copies)
    <3> SUFFICES ASSUME NEW q \in DOMAIN truth
                 PROVE  /\ MetaFields \subseteq DOMAIN truth[q]
                        /\ DOMAIN truth[q].meta = {"finder", "resource"}
                        /\ truth[q].own /\ Seen(q) => MetaOf(truth[q].meta, q, side', resources, copies)
      BY DEF MetaIs
    <3> QED BY <2>4 DEF SharedIInv, MetaIs, MetaOf
  <2>6. MetaIs(truth', side', resources, copies)
    BY <1>4, <2>5, SameMetaStamped, MetaSame
  <2>7. SidesAre(side') /\ DOMAIN side' \subseteq DOMAIN host
    BY <2>1, <2>3 DEF SharedIInv, SidesAre
  <2> QED BY <1>4, <2>6, <2>7 DEF SharedIInv
<1>5. CASE /\ Exists(at) /\ rel # Root /\ Inside(rel) = {} /\ (host[rel].dir \/ ~Busy(rel))
           /\ host' = Without(host, rel)
           /\ side' = [p \in DOMAIN side \ ({rel} \cup Clutter(rel)) |-> side[p]]
           /\ truth' = Without(truth, rel)
           /\ UNCHANGED <<forks, resources, copies>>
  <2>1. rel \in DOMAIN host /\ rel \in Path /\ DOMAIN side \subseteq DOMAIN host
    BY <1>1, <1>5, RelThere DEF InFolders, SharedIInv
  <2> HIDE DEF rel
  <2>2. Clutter(rel) = {}
    <3> SUFFICES ASSUME NEW p \in Clutter(rel) PROVE FALSE
      OBVIOUS
    <3>1. p \in DOMAIN host /\ IsPrefix(rel, p) /\ Len(p) = Len(rel) + 1 /\ Len(rel) \in Nat
      BY <2>1, PathIs DEF Clutter
    <3>2. p # rel
      BY <3>1
    <3> QED BY <1>5, <3>1, <3>2 DEF Inside
  <2>3. side' = [p \in DOMAIN side \ {rel} |-> side[p]]
    BY <1>5, <2>2
  <2>4. \A r \in DOMAIN forks : forks[r].rel # rel /\ "access" \in DOMAIN forks[r]
    <3> SUFFICES ASSUME NEW r \in DOMAIN forks, forks[r].rel = rel PROVE FALSE
      BY DEF SharedIInv, OnFiles
    <3>1. IsPrefix(rel, rel)
      BY <2>1, PrefixSelf
    <3> QED BY <1>5, <3>1 DEF SharedIInv, OnFiles, Busy
  <2>5. rel \notin DOMAIN resources
    BY <2>4 DEF SharedIInv, Together
  <2>6. Together(forks', resources) /\ Agree(forks')
    BY <1>5 DEF SharedIInv
  <2> QED BY <1>5, <2>1, <2>3, <2>4, <2>5, <2>6, TakenShared
<1> QED BY <1>2, <1>3, <1>4, <1>5

LEMMA HostShared ==
  ASSUME ~HostTakesOpen, DesktopIInv, ForksIInv, SharedIInv, HostActs
  PROVE  SharedIInv'
<1>1. ASSUME NEW rel \in Paths, HostTakes(rel)
      PROVE  SharedIInv'
  <2>1. /\ rel \in DOMAIN host /\ rel # Root /\ Inside(rel) = {}
        /\ \A r \in DOMAIN forks : forks[r].file # rel
        /\ host' = Without(host, rel) /\ truth' = Without(truth, rel)
        /\ side' = [p \in DOMAIN side \ {rel} |-> side[p]]
        /\ forks' = [r \in DOMAIN forks |->
                       [forks[r] EXCEPT !.file = IF @ = rel THEN None ELSE @]]
        /\ UNCHANGED <<resources, copies>>
    <3>1. rel \in DOMAIN host /\ Inside(rel) = {} /\ side' = Without(side, rel)
      BY <1>1 DEF HostTakes
    <3>2. \A p \in DOMAIN side : IsPrefix(rel, p) <=> p = rel
      BY <3>1, PrefixSelf DEF Inside, SharedIInv, DesktopIInv, FolderIs, InFolders
    <3>3. side' = [p \in DOMAIN side \ {rel} |-> side[p]]
      <4>1. {q \in DOMAIN side : ~IsPrefix(rel, q)} = DOMAIN side \ {rel}
        BY <3>2
      <4> QED BY <3>1, <4>1 DEF Without
    <3> QED BY <1>1, <3>3 DEF HostTakes
  <2>2. \A r \in DOMAIN forks : forks[r].rel # rel
    BY <2>1 DEF SharedIInv, Together
  <2>3. rel \notin DOMAIN resources
    BY <2>2 DEF SharedIInv, Together
  <2>4. /\ DOMAIN forks' = DOMAIN forks
        /\ \A r \in DOMAIN forks :
             /\ DOMAIN forks'[r] = DOMAIN forks[r] /\ forks'[r].file = forks[r].file
             /\ \A field \in DOMAIN forks[r] \ {"file"} : forks'[r][field] = forks[r][field]
    <3> SUFFICES ASSUME NEW r \in DOMAIN forks
                 PROVE  /\ DOMAIN forks'[r] = DOMAIN forks[r] /\ forks'[r].file = forks[r].file
                        /\ \A field \in DOMAIN forks[r] \ {"file"} : forks'[r][field] = forks[r][field]
      BY <2>1
    <3> DEFINE f == forks[r]
    <3>1. forks'[r] = [f EXCEPT !.file = IF @ = rel THEN None ELSE @] /\ f.file # rel
      BY <2>1
    <3>2. "file" \in DOMAIN f
      BY DEF ForksIInv, Held
    <3> HIDE DEF f
    <3> QED BY <3>1, <3>2 DEF f
  <2>5. \A r \in DOMAIN forks :
          /\ {"rel", "resource", "copy", "access"} \subseteq DOMAIN forks[r]
          /\ forks'[r].rel = forks[r].rel /\ forks'[r].resource = forks[r].resource
          /\ forks'[r].copy = forks[r].copy /\ forks'[r].access = forks[r].access
    BY <2>4 DEF ForksIInv, Held, SharedIInv, OnFiles
  <2>6. Together(forks', resources)
    BY <2>4, <2>5 DEF SharedIInv, Together
  <2>7. Agree(forks')
    BY <2>4, <2>5 DEF SharedIInv, Agree
  <2> QED BY <2>1, <2>2, <2>3, <2>4, <2>5, <2>6, <2>7, TakenShared
<1>2. ASSUME NEW rel \in Paths, NEW put \in HostPuts,
             HostMakes(rel, put.dir, put.locked, put.meta)
      PROVE  SharedIInv'
  <2> DEFINE thing == [dir |-> put.dir, locked |-> put.locked, data |-> <<>>]
             own == rel \notin strange
  <2>1. /\ rel \notin DOMAIN host /\ host' = With(host, rel, thing)
        /\ side' = IF put.meta = NoMeta THEN side ELSE With(side, rel, put.meta)
        /\ truth' = With(truth, rel, Untold(MetaIn(side', rel), own))
        /\ UNCHANGED <<forks, resources, copies>>
    BY <1>2 DEF HostMakes, forkVars
  <2>2. put.meta \in Meta
    BY VolumeAssumption
  <2>3. {"dir", "data"} \subseteq DOMAIN thing /\ thing.data = <<>>
    OBVIOUS
  <2> HIDE DEF thing, own
  <2>4. /\ SidesAre(side') /\ DOMAIN side' \subseteq DOMAIN side \cup {rel}
        /\ \A q : q # rel => MetaIn(side', q) = MetaIn(side, q)
    BY <2>1, <2>2 DEF With, SidesAre, MetaIn, SharedIInv
  <2>5. SameMeta(With(truth, rel, Untold(MetaIn(side', rel), own)), truth')
    BY <2>1, SameMetaSelf
  <2> QED BY <2>1, <2>3, <2>4, <2>5, NewShared
<1> QED BY <1>1, <1>2 DEF HostActs

\* The AppleDouble files go with what they are beside.
LEMMA RenamedIs ==
  ASSUME DOMAIN side \subseteq Path, SidesAre(side), NEW from \in Path, NEW to \in Path,
         \A p \in DOMAIN side : ~IsPrefix(to, p)
  PROVE  LET new == Renamed(from, to) IN
         /\ SidesAre(new)
         /\ \A q \in Path : IsPrefix(from, q) => MetaIn(new, Gone(q, from, to)) = MetaIn(side, q)
         /\ \A p \in Path : ~IsPrefix(from, p) /\ ~IsPrefix(to, p) => MetaIn(new, p) = MetaIn(side, p)
         /\ \A p \in DOMAIN new :
              \/ \E q \in DOMAIN side : IsPrefix(from, q) /\ p = Gone(q, from, to)
              \/ p \in DOMAIN side /\ ~IsPrefix(from, p)
<1> DEFINE few == [p \in DOMAIN side \ {from, to} |-> side[p]]
           carried == Relocated(few, from, to)
           new == Renamed(from, to)
<1>1. /\ IsPrefix(from, from) /\ IsPrefix(to, to) /\ Gone(from, from, to) = to
      /\ to \notin DOMAIN side
  BY PrefixSelf
<1>2. new = IF from \in DOMAIN side THEN With(carried, to, side[from]) ELSE carried
  BY <1>1 DEF Renamed
<1>3. DOMAIN few = DOMAIN side \ {from} /\ \A p \in DOMAIN few : few[p] = side[p]
  BY <1>1
<1> HIDE DEF few
<1>4. /\ MovedThere(few, carried, from, to) /\ StaysThere(few, carried, from, to)
      /\ NoOther(few, carried, from, to)
  BY <1>3, RelocatedIs
<1> HIDE DEF carried
<1>5. /\ DOMAIN new = DOMAIN carried \cup (IF from \in DOMAIN side THEN {to} ELSE {})
      /\ from \in DOMAIN side => new[to] = side[from]
      /\ \A p \in DOMAIN carried : p # to => new[p] = carried[p]
  BY <1>2 DEF With
<1> HIDE DEF new
\* Nothing else went there.
<1>6. ASSUME NEW p \in DOMAIN carried, NEW q \in Path, IsPrefix(from, q), p = Gone(q, from, to)
      PROVE  q \in DOMAIN side \ {from} /\ carried[p] = side[q]
  <2>1. IsPrefix(to, p) /\ from \o Rest(p, to) = q
    BY <1>6, GoneIs
  <2>2. p \notin DOMAIN few
    BY <1>3, <2>1
  <2>3. PICK r \in DOMAIN few : IsPrefix(from, r) /\ p = Gone(r, from, to) /\ carried[p] = few[r]
    BY <1>4, <2>2 DEF NoOther
  <2>4. r \in Path /\ from \o Rest(p, to) = r
    BY <1>3, <2>3, GoneIs
  <2> QED BY <1>3, <2>1, <2>3, <2>4
<1>7. to \notin DOMAIN carried
  <2>1. ASSUME to \in DOMAIN carried PROVE FALSE
    BY <1>1, <1>6, <2>1
  <2> QED BY <2>1
<1>8. ASSUME NEW q \in Path, IsPrefix(from, q)
      PROVE  MetaIn(new, Gone(q, from, to)) = MetaIn(side, q)
  <2>1. CASE q = from
    BY <1>1, <1>5, <1>7, <2>1 DEF MetaIn
  <2>2. CASE q # from
    <3> DEFINE p == Gone(q, from, to)
    <3>1. p # to
      <4>1. from \o Rest(p, to) = q /\ from \o Rest(to, to) = from
        BY <1>1, <1>8, GoneIs
      <4> QED BY <2>2, <4>1
    <3> HIDE DEF p
    <3>2. p \in DOMAIN new <=> p \in DOMAIN carried
      BY <1>5, <3>1
    <3>3. CASE q \in DOMAIN side
      <4>1. q \in DOMAIN few /\ few[q] = side[q]
        BY <1>3, <2>2, <3>3
      <4>2. p \in DOMAIN carried /\ carried[p] = side[q]
        BY <1>4, <1>8, <4>1 DEF MovedThere, p
      <4>3. MetaIn(new, p) = MetaIn(side, q)
        BY <1>5, <3>1, <3>2, <3>3, <4>2 DEF MetaIn
      <4> QED BY <4>3 DEF p
    <3>4. CASE q \notin DOMAIN side
      <4>1. p \notin DOMAIN carried
        BY <1>6, <1>8, <3>4 DEF p
      <4>2. MetaIn(new, p) = MetaIn(side, q)
        BY <3>2, <3>4, <4>1 DEF MetaIn
      <4> QED BY <4>2 DEF p
    <3> QED BY <3>3, <3>4
  <2> QED BY <2>1, <2>2
<1>9. ASSUME NEW p \in Path, ~IsPrefix(from, p), ~IsPrefix(to, p)
      PROVE  MetaIn(new, p) = MetaIn(side, p)
  <2>1. p # from /\ p # to
    BY <1>1, <1>9
  <2>2. p \in DOMAIN new <=> p \in DOMAIN carried
    BY <1>5, <2>1
  <2>3. CASE p \in DOMAIN side
    <3>1. p \in DOMAIN carried /\ carried[p] = side[p]
      BY <1>3, <1>4, <1>9, <2>1, <2>3 DEF StaysThere
    <3> QED BY <1>5, <2>1, <2>2, <2>3, <3>1 DEF MetaIn
  <2>4. CASE p \notin DOMAIN side
    <3>1. p \notin DOMAIN carried
      BY <1>3, <1>4, <1>9, <2>4, GoneIs DEF NoOther
    <3> QED BY <2>2, <2>4, <3>1 DEF MetaIn
  <2> QED BY <2>3, <2>4
<1>10. ASSUME NEW p \in DOMAIN new
       PROVE  /\ \/ \E q \in DOMAIN side : IsPrefix(from, q) /\ p = Gone(q, from, to)
                 \/ p \in DOMAIN side /\ ~IsPrefix(from, p)
              /\ new[p] \in Meta
  <2>1. CASE p = to
    BY <1>1, <1>5, <1>7, <2>1 DEF SidesAre
  <2>2. CASE p # to
    <3>1. p \in DOMAIN carried /\ new[p] = carried[p]
      BY <1>5, <2>2
    <3> QED BY <1>3, <1>4, <3>1 DEF NoOther, SidesAre
  <2> QED BY <2>1, <2>2
<1> QED BY <1>8, <1>9, <1>10 DEF SidesAre, new

\* What is in the copies stays in them.
LEMMA MovedCopiesSame ==
  ASSUME CopiesAre(copies), Held(forks, resources, copies), NEW from, NEW to
  PROVE  /\ DOMAIN MovedCopies(from, to) = DOMAIN copies
         /\ \A x \in DOMAIN copies :
              /\ DOMAIN MovedCopies(from, to)[x] = DOMAIN copies[x]
              /\ MovedCopies(from, to)[x].data = copies[x].data
              /\ MovedCopies(from, to)[x].dirty = copies[x].dirty
<1> DEFINE cp == MovedCopies(from, to)
           with(x) == \E p \in DOMAIN resources : resources[p] = x /\ IsPrefix(from, p)
<1>1. /\ DOMAIN cp = DOMAIN copies
      /\ \A x \in DOMAIN copies : with(x) =>
           cp[x] = [copies[x] EXCEPT !.rel = Gone(@, from, to)]
      /\ \A x \in DOMAIN copies : ~with(x) => cp[x] = copies[x]
  BY DEF MovedCopies
<1> HIDE DEF cp, with
<1>2. ASSUME NEW x \in DOMAIN copies
      PROVE  /\ DOMAIN cp[x] = DOMAIN copies[x]
             /\ cp[x].data = copies[x].data /\ cp[x].dirty = copies[x].dirty
  <2> DEFINE old == copies[x]
             there == Gone(old.rel, from, to)
  <2>1. with(x) => cp[x] = [old EXCEPT !.rel = there]
    BY <1>1
  <2>2. {"rel", "data", "dirty"} \subseteq DOMAIN old
    BY DEF Held, CopiesAre
  <2>3. ~with(x) => cp[x] = old
    BY <1>1
  <2> HIDE DEF old, there
  <2>4. DOMAIN cp[x] = DOMAIN old /\ cp[x].data = old.data /\ cp[x].dirty = old.dirty
    BY <2>1, <2>2, <2>3
  <2> QED BY <2>4 DEF old
<1> QED BY <1>1, <1>2 DEF cp

LEMMA MetaMoved ==
  ASSUME DesktopIInv, SharedIInv, Held(forks, resources, copies),
         NEW h, SameMeta(truth, h), NEW from \in Path, Seen(from),
         NEW to \in Path, \A p \in DOMAIN host : ~IsPrefix(to, p)
  PROVE  MetaIs(MovedTruth(Without(h, to), from, to), Renamed(from, to),
                Relocated(resources, from, to), MovedCopies(from, to))
<1> DEFINE g == Without(h, to)
           k == Relocated(g, from, to)
           told == MovedTruth(g, from, to)
           sd == Renamed(from, to)
           rs == Relocated(resources, from, to)
           cp == MovedCopies(from, to)
<1>1. /\ DOMAIN host \subseteq Path /\ DOMAIN h = DOMAIN host /\ DOMAIN resources \subseteq DOMAIN host
      /\ DOMAIN side \subseteq DOMAIN host /\ MetaIs(h, side, resources, copies) /\ SidesAre(side)
  BY NoCopyOfNothing, MetaSame DEF DesktopIInv, FolderIs, InFolders, SameMeta, SharedIInv
<1>2. DOMAIN g = DOMAIN h /\ \A p \in DOMAIN h : g[p] = h[p]
  BY <1>1, NothingWithout
<1>3. /\ DOMAIN told = DOMAIN k
      /\ \A p \in DOMAIN k : told[p] = IF IsPrefix(to, p)
                                       THEN [k[p] EXCEPT !.own = @ /\ p \notin strange] ELSE k[p]
  BY DEF MovedTruth
<1> HIDE DEF g
<1>4. MovedThere(g, k, from, to) /\ StaysThere(g, k, from, to) /\ NoOther(g, k, from, to)
  BY <1>1, <1>2, RelocatedIs
<1>5. /\ MovedThere(resources, rs, from, to) /\ StaysThere(resources, rs, from, to)
      /\ NoOther(resources, rs, from, to)
  BY <1>1, RelocatedIs
<1>6. /\ \A q \in Path : IsPrefix(from, q) => MetaIn(sd, Gone(q, from, to)) = MetaIn(side, q)
      /\ \A p \in Path : ~IsPrefix(from, p) /\ ~IsPrefix(to, p) => MetaIn(sd, p) = MetaIn(side, p)
  BY <1>1, RenamedIs
<1>7. \A x \in DOMAIN copies : cp[x].data = copies[x].data /\ cp[x].dirty = copies[x].dirty
  BY MovedCopiesSame DEF SharedIInv
<1>8. \A q \in DOMAIN resources : resources[q] \in DOMAIN copies
  BY DEF Held
<1> HIDE DEF k, told, sd, rs, cp
<1>9. ASSUME NEW q \in DOMAIN h, IsPrefix(from, q), NEW meta, MetaOf(meta, q, side, resources, copies)
      PROVE  MetaOf(meta, Gone(q, from, to), sd, rs, cp)
  <2> DEFINE p == Gone(q, from, to)
  <2>1. q \in Path /\ p \in Path /\ IsPrefix(to, p) /\ from \o Rest(p, to) = q
    BY <1>1, <1>9, GoneIs
  <2>2. MetaIn(sd, p) = MetaIn(side, q)
    BY <1>6, <1>9, <2>1
  <2>3. q \in DOMAIN resources => p \in DOMAIN rs /\ rs[p] = resources[q]
    BY <1>5, <1>9 DEF MovedThere
  <2>4. p \in DOMAIN rs => q \in DOMAIN resources
    <3> SUFFICES ASSUME p \in DOMAIN rs PROVE q \in DOMAIN resources
      OBVIOUS
    <3>1. p \notin DOMAIN resources
      BY <1>1, <2>1
    <3>2. PICK r \in DOMAIN resources : IsPrefix(from, r) /\ p = Gone(r, from, to)
      BY <1>5, <3>1 DEF NoOther
    <3>3. r \in Path /\ from \o Rest(p, to) = r
      BY <1>1, <3>2, GoneIs
    <3> QED BY <2>1, <3>3
  <2> HIDE DEF p
  <2>5. MetaOf(meta, p, sd, rs, cp)
    BY <1>7, <1>8, <1>9, <2>2, <2>3, <2>4 DEF MetaOf
  <2> QED BY <2>5 DEF p
<1>10. ASSUME NEW p \in DOMAIN h, ~IsPrefix(from, p), NEW meta, MetaOf(meta, p, side, resources, copies)
       PROVE  MetaOf(meta, p, sd, rs, cp)
  <2>1. p \in Path /\ ~IsPrefix(to, p)
    BY <1>1
  <2>2. MetaIn(sd, p) = MetaIn(side, p)
    BY <1>6, <1>10, <2>1
  <2>3. p \in DOMAIN resources => p \in DOMAIN rs /\ rs[p] = resources[p]
    BY <1>5, <1>10, <2>1 DEF StaysThere
  <2>4. p \in DOMAIN rs => p \in DOMAIN resources
    BY <1>1, <1>5, <2>1, GoneIs DEF NoOther
  <2> QED BY <1>7, <1>8, <1>10, <2>2, <2>3, <2>4 DEF MetaOf
<1>11. ASSUME NEW p \in DOMAIN told
       PROVE  /\ MetaFields \subseteq DOMAIN told[p] /\ DOMAIN told[p].meta = {"finder", "resource"}
              /\ told[p].own /\ Seen(p) => MetaOf(told[p].meta, p, sd, rs, cp)
  <2>1. CASE \E q \in DOMAIN g : IsPrefix(from, q) /\ p = Gone(q, from, to) /\ k[p] = g[q]
    <3>1. PICK q \in DOMAIN g : IsPrefix(from, q) /\ p = Gone(q, from, to) /\ k[p] = g[q]
      BY <2>1
    <3>2. q \in DOMAIN h /\ k[p] = h[q] /\ q \in Path
      BY <1>1, <1>2, <3>1
    <3>3. IsPrefix(to, p)
      BY <3>1, <3>2, GoneIs
    <3>4. told[p] = [h[q] EXCEPT !.own = h[q].own /\ p \notin strange]
      BY <1>3, <3>2, <3>3
    <3>5. MetaFields \subseteq DOMAIN h[q] /\ DOMAIN h[q].meta = {"finder", "resource"}
      BY <1>1, <3>2 DEF MetaIs
    <3>6. /\ MetaFields \subseteq DOMAIN told[p] /\ told[p].meta = h[q].meta
          /\ told[p].own = (h[q].own /\ p \notin strange)
      BY <3>4, <3>5 DEF MetaFields
    <3>7. Seen(p) => Seen(q)
      <4>1. CASE q = Root \/ q = from
        BY <4>1 DEF Seen
      <4>2. CASE q # Root /\ q # from
        <5>1. Last(p) = Last(q) /\ p # Root
          BY <3>1, <3>2, <4>2, ParentFirst
        <5> QED BY <5>1 DEF Seen
      <4> QED BY <4>1, <4>2
    <3>8. told[p].own /\ Seen(p) => MetaOf(told[p].meta, p, sd, rs, cp)
      <4> SUFFICES ASSUME told[p].own, Seen(p) PROVE MetaOf(told[p].meta, p, sd, rs, cp)
        OBVIOUS
      <4>1. MetaOf(h[q].meta, q, side, resources, copies)
        BY <1>1, <3>2, <3>6, <3>7 DEF MetaIs
      <4> QED BY <1>9, <3>1, <3>2, <3>6, <4>1
    <3> QED BY <3>5, <3>6, <3>8
  <2>2. CASE p \in DOMAIN g /\ ~IsPrefix(from, p) /\ k[p] = g[p]
    <3>1. p \in DOMAIN h /\ k[p] = h[p] /\ ~IsPrefix(to, p)
      BY <1>1, <1>2, <2>2
    <3>2. told[p] = h[p]
      BY <1>3, <3>1
    <3>3. /\ MetaFields \subseteq DOMAIN h[p] /\ DOMAIN h[p].meta = {"finder", "resource"}
          /\ h[p].own /\ Seen(p) => MetaOf(h[p].meta, p, side, resources, copies)
      BY <1>1, <3>1 DEF MetaIs
    <3> QED BY <1>10, <2>2, <3>1, <3>2, <3>3
  <2> QED BY <1>3, <1>4, <2>1, <2>2 DEF NoOther
<1>12. MetaIs(told, sd, rs, cp)
  BY <1>11 DEF MetaIs
<1> QED BY <1>12 DEF told, g, sd, rs, cp

\* Who has a fork open of what moves has it where that went.
LEMMA ForksMoved ==
  ASSUME SharedIInv, Held(forks, resources, copies), DOMAIN host \subseteq Path,
         NEW from \in Path, NEW to \in Path, \A p \in DOMAIN host : ~IsPrefix(to, p),
         NEW g, MovedThere(host, g, from, to), StaysThere(host, g, from, to)
  PROVE  /\ Together(MovedForks(from, to), Relocated(resources, from, to))
         /\ Agree(MovedForks(from, to)) /\ OnFiles(MovedForks(from, to), g)
<1> DEFINE goes(p) == IF IsPrefix(from, p) THEN Gone(p, from, to) ELSE p
           toFile(p) == IF p \in {None, to} THEN None
                        ELSE IF IsPrefix(from, p) THEN Gone(p, from, to) ELSE p
           fk == MovedForks(from, to)
           rs == Relocated(resources, from, to)
<1>1. /\ Together(forks, resources) /\ Agree(forks) /\ OnFiles(forks, host)
      /\ DOMAIN resources \subseteq DOMAIN host
  BY NoCopyOfNothing DEF SharedIInv
<1>2. fk = [r \in DOMAIN forks |->
              [forks[r] EXCEPT !.rel = goes(forks[r].rel), !.file = toFile(forks[r].file)]]
  BY DEF MovedForks
<1>3. \A p \in DOMAIN host : p # None /\ p # to
  BY PrefixSelf, FolderAssumption DEF Path
<1>4. \A p \in DOMAIN host : toFile(p) = goes(p)
  BY <1>3
<1>5. \A p, q \in DOMAIN host : goes(p) = goes(q) => p = q
  <2>1. ASSUME NEW p \in DOMAIN host, NEW q \in DOMAIN host, goes(p) = goes(q), IsPrefix(from, p)
        PROVE  p = q
    <3>1. IsPrefix(to, goes(p)) /\ from \o Rest(goes(p), to) = p
      BY <2>1, GoneIs
    <3>2. IsPrefix(from, q)
      BY <2>1, <3>1
    <3>3. from \o Rest(goes(q), to) = q
      BY <3>2, GoneIs
    <3> QED BY <2>1, <3>1, <3>3
  <2>2. ASSUME NEW p \in DOMAIN host, NEW q \in DOMAIN host, ~IsPrefix(from, p), ~IsPrefix(from, q),
               goes(p) = goes(q)
        PROVE  p = q
    BY <2>2
  <2> QED BY <2>1, <2>2
<1>6. \A p \in DOMAIN host : goes(p) \in DOMAIN g /\ g[goes(p)] = host[p]
  BY DEF MovedThere, StaysThere
<1>7. \A p \in DOMAIN resources : goes(p) \in DOMAIN rs /\ rs[goes(p)] = resources[p]
  <2>1. MovedThere(resources, rs, from, to) /\ StaysThere(resources, rs, from, to)
    BY <1>1, RelocatedIs
  <2> HIDE DEF rs
  <2> QED BY <1>1, <2>1 DEF MovedThere, StaysThere
<1>8. \A p \in DOMAIN rs : \E q \in DOMAIN resources : p = goes(q)
  <2>1. NoOther(resources, rs, from, to)
    BY <1>1, RelocatedIs
  <2> HIDE DEF rs
  <2> QED BY <2>1 DEF NoOther
<1> HIDE DEF goes, toFile, fk, rs
<1>9. /\ DOMAIN fk = DOMAIN forks
      /\ \A r \in DOMAIN forks :
           /\ forks[r].rel \in DOMAIN host /\ forks[r].file = forks[r].rel
           /\ "access" \in DOMAIN fk[r]
           /\ fk[r].rel = goes(forks[r].rel) /\ fk[r].file = goes(forks[r].rel)
           /\ fk[r].resource = forks[r].resource /\ fk[r].copy = forks[r].copy
           /\ fk[r].access = forks[r].access
  <2> SUFFICES ASSUME NEW r \in DOMAIN forks
               PROVE  /\ forks[r].rel \in DOMAIN host /\ forks[r].file = forks[r].rel
                      /\ "access" \in DOMAIN fk[r]
                      /\ fk[r].rel = goes(forks[r].rel) /\ fk[r].file = goes(forks[r].rel)
                      /\ fk[r].resource = forks[r].resource /\ fk[r].copy = forks[r].copy
                      /\ fk[r].access = forks[r].access
    BY <1>2
  <2> DEFINE f == forks[r]
             p == f.rel
             a == goes(p)
  <2>1. p \in DOMAIN host /\ f.file = p
    BY <1>1 DEF Together, OnFiles
  <2>2. {"rel", "resource", "copy", "file", "access"} \subseteq DOMAIN f
    BY <1>1 DEF Held, OnFiles
  <2>3. fk[r] = [f EXCEPT !.rel = a, !.file = a]
    BY <1>2, <1>4, <2>1
  <2> HIDE DEF f, a
  <2>4. /\ DOMAIN fk[r] = DOMAIN f /\ fk[r].rel = a /\ fk[r].file = a
        /\ fk[r].resource = f.resource /\ fk[r].copy = f.copy /\ fk[r].access = f.access
    BY <2>2, <2>3
  <2> QED BY <2>1, <2>2, <2>4 DEF f, a
<1>10. Together(fk, rs)
  <2>1. ASSUME NEW r \in DOMAIN fk
        PROVE  /\ fk[r].file = fk[r].rel
               /\ fk[r].resource => fk[r].rel \in DOMAIN rs /\ rs[fk[r].rel] = fk[r].copy
    <3>1. forks[r].resource => forks[r].rel \in DOMAIN resources /\ resources[forks[r].rel] = forks[r].copy
      BY <1>1, <1>9 DEF Together
    <3> QED BY <1>7, <1>9, <3>1
  <2>2. ASSUME NEW p \in DOMAIN rs PROVE \E r \in DOMAIN fk : fk[r].resource /\ fk[r].rel = p
    <3>1. PICK q \in DOMAIN resources : p = goes(q)
      BY <1>8
    <3>2. PICK r \in DOMAIN forks : forks[r].resource /\ forks[r].rel = q
      BY <1>1 DEF Together
    <3> QED BY <1>9, <3>1, <3>2
  <2> QED BY <2>1, <2>2 DEF Together
<1>11. Agree(fk)
  <2> SUFFICES ASSUME NEW q \in DOMAIN fk, NEW r \in DOMAIN fk, q # r,
                      fk[q].rel = fk[r].rel, fk[q].resource = fk[r].resource
               PROVE  ~Denied(fk[q].access, fk[r].access)
    BY DEF Agree
  <2>1. forks[q].rel = forks[r].rel /\ forks[q].resource = forks[r].resource
    BY <1>5, <1>9
  <2> QED BY <1>1, <1>9, <2>1 DEF Agree
<1>12. OnFiles(fk, g)
  BY <1>1, <1>6, <1>9 DEF OnFiles
<1> QED BY <1>10, <1>11, <1>12 DEF fk, rs

LEMMA MoveShared ==
  ASSUME RefusesBeside = {}, DesktopIInv, ForksIInv, SharedIInv, NEW numbers, NEW history,
         SameMeta(truth, history), NEW rel \in DOMAIN host, rel # Root, Seen(rel), NEW folder \in Path, NEW name,
         ~name.mangled, name.of \in Names, Shows(name.of),
         Move(numbers, history, rel, folder, name)
  PROVE  SharedIInv'
<1> DEFINE there == Lookup(folder, name)
           to == NewRel(folder, name)
<1>1. \/ truth' = history /\ UNCHANGED <<host, side, forks, resources, copies>>
      \/ /\ to # rel
         /\ there = None \/ (folder = ParentOf(rel) /\ there = Last(rel))
         /\ host' = Relocated(Without(host, to), rel, to)
         /\ side' = Renamed(rel, to)
         /\ forks' = MovedForks(rel, to)
         /\ resources' = Relocated(resources, rel, to)
         /\ copies' = MovedCopies(rel, to)
         /\ truth' = MovedTruth(Without(history, to), rel, to)
  BY DEF Move, forkVars
<1>2. CASE truth' = history /\ UNCHANGED <<host, side, forks, resources, copies>>
  <2>1. DataIs(host')
    BY <1>2 DEF SharedIInv
  <2> QED BY <1>2, <2>1, SameFolderSelf, StillShared
<1>3. CASE /\ to # rel
           /\ there = None \/ (folder = ParentOf(rel) /\ there = Last(rel))
           /\ host' = Relocated(Without(host, to), rel, to)
           /\ side' = Renamed(rel, to)
           /\ forks' = MovedForks(rel, to)
           /\ resources' = Relocated(resources, rel, to)
           /\ copies' = MovedCopies(rel, to)
           /\ truth' = MovedTruth(Without(history, to), rel, to)
  <2>1. FolderIs(host) /\ rel \in Path /\ DOMAIN host \subseteq Path
    BY DEF DesktopIInv, FolderIs, InFolders
  <2>2. /\ to \in Path /\ \A p \in DOMAIN host : ~IsPrefix(to, p)
    BY <1>3, <2>1, FreePlace DEF NewRel
  <2> HIDE DEF to, there
  <2> DEFINE g == Without(host, to)
  <2>3. DOMAIN g = DOMAIN host /\ \A p \in DOMAIN host : g[p] = host[p]
    BY <2>2, NothingWithout
  <2>4. host' = Relocated(g, rel, to)
    BY <1>3
  <2> HIDE DEF g
  <2>5. /\ MovedThere(g, host', rel, to) /\ StaysThere(g, host', rel, to)
        /\ NoOther(g, host', rel, to)
    BY <2>1, <2>2, <2>3, <2>4, RelocatedIs
  <2>6. MovedThere(host, host', rel, to) /\ StaysThere(host, host', rel, to)
    BY <2>3, <2>5 DEF MovedThere, StaysThere
  <2>7. Held(forks, resources, copies)
    BY DEF ForksIInv
  <2>8. Together(forks', resources') /\ Agree(forks') /\ OnFiles(forks', host')
    BY <1>3, <2>1, <2>2, <2>6, <2>7, ForksMoved
  <2>9. DataIs(host')
    BY <2>3, <2>5 DEF SharedIInv, DataIs, NoOther
  <2>10. CopiesAre(copies')
    <3>1. CopiesAre(copies)
      BY DEF SharedIInv
    <3>2. /\ DOMAIN copies' = DOMAIN copies
          /\ \A x \in DOMAIN copies : /\ DOMAIN copies'[x] = DOMAIN copies[x]
                                      /\ copies'[x].data = copies[x].data
      BY <1>3, <2>7, <3>1, MovedCopiesSame
    <3> QED BY <3>1, <3>2 DEF CopiesAre
  <2>11. SidesAre(side') /\ DOMAIN side' \subseteq DOMAIN host'
    <3>1. DOMAIN side \subseteq DOMAIN host /\ SidesAre(side)
      BY DEF SharedIInv
    <3>2. /\ SidesAre(side')
          /\ \A p \in DOMAIN side' :
               \/ \E q \in DOMAIN side : IsPrefix(rel, q) /\ p = Gone(q, rel, to)
               \/ p \in DOMAIN side /\ ~IsPrefix(rel, p)
      BY <1>3, <2>1, <2>2, <3>1, RenamedIs
    <3> QED BY <2>2, <2>6, <3>1, <3>2 DEF MovedThere, StaysThere
  <2>12. MetaIs(truth', side', resources', copies')
    BY <1>3, <2>1, <2>2, <2>7, MetaMoved
  <2> QED BY <2>8, <2>9, <2>10, <2>11, <2>12 DEF SharedIInv
<1> QED BY <1>1, <1>2, <1>3

LEMMA RenameShared ==
  ASSUME ToldApart, RefusesBeside = {}, NumbersIInv, DesktopIInv, ForksIInv, SharedIInv,
         NEW asked \in Asked, NEW name, Rename(asked, name)
  PROVE  SharedIInv'
<1> DEFINE at == Resolve(asked)
           rel == Rel(at)
           numbers == Resolved(ids, at)
           history == Stamped(truth, numbers, {rel})
<1>1. Placed(at) /\ name \in NewNames /\ name \in Names /\ Shows(name) /\ InFolders(host)
  BY ResolveIs, VolumeAssumption DEF NumbersIInv, DesktopIInv, FolderIs, Rename, ToldApart
<1>2. IF ~Exists(at) \/ rel = Root THEN Refused(at)
      ELSE Move(numbers, history, rel, ParentOf(rel), Plain(name))
  BY DEF Rename
<1> HIDE DEF at
<1>3. CASE ~Exists(at) \/ rel = Root
  BY <1>2, <1>3, RefusedShared
<1>4. CASE ~(~Exists(at) \/ rel = Root)
  <2>1. rel \in DOMAIN host /\ rel # Root /\ rel \in Path /\ Seen(rel)
    BY <1>1, <1>4, RelThere, RelIs DEF Seen
  <2>2. Move(numbers, history, rel, ParentOf(rel), Plain(name))
    BY <1>2, <1>4
  <2>3. SameMeta(truth, history)
    BY SameMetaStamped
  <2> HIDE DEF rel, history, numbers
  <2>4. ParentOf(rel) \in Path
    BY <2>1, ParentFirst
  <2>5. ~Plain(name).mangled /\ Plain(name).of = name
    BY DEF Plain
  <2> QED BY <1>1, <2>1, <2>2, <2>3, <2>4, <2>5, MoveShared
<1> QED BY <1>3, <1>4

LEMMA MoveAndRenameShared ==
  ASSUME ToldApart, RefusesBeside = {}, NumbersIInv, DesktopIInv, ForksIInv, SharedIInv,
         NEW asked \in Asked, NEW askedTo \in Asked, NEW name, MoveAndRename(asked, askedTo, name)
  PROVE  SharedIInv'
<1> DEFINE from == Resolve(asked)
           to == Resolve(askedTo)
           rel == Rel(from)
           folder == Rel(to)
           seen == Resolved(ids, from)
           numbers == IF Exists(from) THEN Resolved(seen, to) ELSE seen
           named == IF Exists(from) THEN Named(from) \cup Named(to) ELSE {}
           own == NameOf(ParentOf(rel), Last(rel))
           given == IF name = None THEN own ELSE Plain(name)
<1>1. /\ Placed(from) /\ Placed(to) /\ InFolders(host)
      /\ name \in NewNames \cup {None} /\ NewNames \subseteq Names /\ \A n \in NewNames : Shows(n)
  BY ResolveIs, VolumeAssumption
     DEF NumbersIInv, DesktopIInv, FolderIs, MoveAndRename, ToldApart
<1>2. \/ OnlyNumbers(numbers, named)
      \/ /\ Exists(from) /\ Exists(to) /\ rel # Root
         /\ name = None => ~own.mangled
         /\ Move(numbers, Stamped(truth, numbers, named), rel, folder, given)
  BY DEF MoveAndRename
<1> HIDE DEF from, to, numbers, named
<1>3. CASE OnlyNumbers(numbers, named)
  BY <1>3, OnlyNumbersShared
<1>4. CASE /\ Exists(from) /\ Exists(to) /\ rel # Root
           /\ name = None => ~own.mangled
           /\ Move(numbers, Stamped(truth, numbers, named), rel, folder, given)
  <2>1. rel \in Path /\ folder \in Path /\ rel \in DOMAIN host /\ Last(rel) \in Names \ Hidden
    BY <1>1, <1>4, RelIs, RelThere
  <2> HIDE DEF rel, folder
  <2>2. ~given.mangled /\ given.of \in Names /\ Shows(given.of)
    <3>1. CASE name = None
      <4>1. own.of = Last(rel) /\ (Last(rel) \in Inexact => own.mangled)
        BY DEF NameOf, NameAmong
      <4> HIDE DEF own
      <4> QED BY <1>4, <2>1, <3>1, <4>1 DEF Shows
    <3>2. CASE name # None
      BY <1>1, <3>2 DEF Plain
    <3> QED BY <3>1, <3>2
  <2>3. SameMeta(truth, Stamped(truth, numbers, named)) /\ Seen(rel)
    BY <2>1, SameMetaStamped DEF Seen
  <2> HIDE DEF given
  <2> QED BY <1>4, <2>1, <2>2, <2>3, MoveShared
<1> QED BY <1>2, <1>3, <1>4

\* Who opens a fork shares it with those who have it open, and what it is of is
\* as it was.
LEMMA OpenForkShared ==
  ASSUME NumbersIInv, ForksIInv, DesktopIInv, SharedIInv, NEW s, NEW asked \in Asked,
         NEW resource \in BOOLEAN, NEW access, OpenFork(s, asked, resource, access)
  PROVE  SharedIInv'
<1> DEFINE at == Resolve(asked)
           rel == Rel(at)
           copy == IF Shared(rel) # None THEN Shared(rel) ELSE FreeCopy
           fresh == [rel |-> rel, data |-> Metadata(rel).resource, dirty |-> FALSE, users |-> 0]
           open == [session |-> s, rel |-> rel, resource |-> resource, access |-> access,
                    copy |-> IF resource THEN copy ELSE 0, file |-> rel]
           had == IF copy \in DOMAIN copies THEN copies[copy] ELSE fresh
           has == [had EXCEPT !.users = @ + 1]
           ref == NewForkRef
<1>1. CASE Refused(at)
  BY <1>1, RefusedShared
<1>2. CASE ~Refused(at)
  <2>1. /\ DOMAIN forks # 1..LastRef /\ (resource => DOMAIN copies # 1..LastRef)
        /\ Exists(at) /\ ~host[rel].dir /\ ~Conflicts(rel, resource, access)
        /\ forks' = With(forks, ref, open)
        /\ truth' = Stamped(truth, Resolved(ids, at), {rel})
        /\ IF resource
           THEN resources' = With(resources, rel, copy) /\ copies' = With(copies, copy, has)
           ELSE resources' = resources /\ copies' = copies
        /\ UNCHANGED <<host, side>>
    BY <1>2 DEF OpenFork
  <2>2. rel \in DOMAIN host /\ FolderIs(host) /\ DOMAIN truth = DOMAIN host
    BY <2>1, ResolveIs, RelThere DEF NumbersIInv, DesktopIInv, FolderIs
  <2>3. SameMeta(truth, truth')
    BY <2>1, SameMetaStamped
  <2> HIDE DEF at, rel
  <2>4. ref \notin DOMAIN forks
    BY <2>1, NewForkRefIs DEF ForksIInv, Held
  <2> HIDE DEF ref
  <2>5. /\ "access" \in DOMAIN open /\ open.access = access /\ open.rel = rel /\ open.file = rel
        /\ open.resource = resource /\ (resource => open.copy = copy)
    <3> HIDE DEF copy
    <3> QED OBVIOUS
  <2>6. /\ Held(forks, resources, copies) /\ CopiesAre(copies) /\ SidesAre(side)
        /\ Together(forks, resources) /\ Agree(forks) /\ OnFiles(forks, host)
        /\ MetaIs(truth, side, resources, copies)
    BY DEF ForksIInv, SharedIInv
  <2>7. rel \in DOMAIN resources => copy = resources[rel] /\ copy \in DOMAIN copies
    <3> SUFFICES ASSUME rel \in DOMAIN resources PROVE copy = resources[rel] /\ copy \in DOMAIN copies
      OBVIOUS
    <3>1. Shared(rel) = resources[rel] /\ resources[rel] \in DOMAIN copies
      BY <2>6 DEF Shared, Held
    <3>2. resources[rel] # None
      BY <2>6, <3>1, FolderAssumption, VolumeAssumption DEF Held
    <3> QED BY <3>1, <3>2
  <2>8. resource /\ rel \notin DOMAIN resources => copy \notin DOMAIN copies
    <3> SUFFICES ASSUME resource, rel \notin DOMAIN resources PROVE copy \notin DOMAIN copies
      OBVIOUS
    <3>1. copy = FreeCopy
      BY DEF Shared
    <3>2. DOMAIN copies \subseteq 1..LastRef /\ DOMAIN copies # 1..LastRef
      BY <2>1, <2>6 DEF Held
    <3>3. FreeCopy \in 1..LastRef /\ FreeCopy \notin DOMAIN copies
      BY <3>2 DEF FreeCopy
    <3> HIDE DEF copy
    <3> QED BY <3>1, <3>3
  <2>9. /\ MetaIn(side, rel).resource \in Content /\ Metadata(rel) = MetaIn(side, rel)
    BY <2>6, MetaInIs DEF Metadata
  <2> HIDE DEF copy
  <2>10. /\ {"data", "dirty"} \subseteq DOMAIN had /\ had.data \in Content
         /\ copy \notin DOMAIN copies => ~had.dirty /\ had.data = MetaIn(side, rel).resource
    <3>1. CASE copy \in DOMAIN copies
      BY <2>6, <3>1 DEF CopiesAre
    <3>2. CASE copy \notin DOMAIN copies
      BY <2>9, <3>2
    <3> QED BY <3>1, <3>2
  <2>11. /\ {"data", "dirty"} \subseteq DOMAIN has /\ has.data = had.data /\ has.dirty = had.dirty
    <3> HIDE DEF had
    <3> QED BY <2>10
  <2>12. copy \in DOMAIN copies => has.data = copies[copy].data /\ has.dirty = copies[copy].dirty
    BY <2>11
  <2> HIDE DEF has, open, had, fresh
  <2>13. /\ DOMAIN forks' = {ref} \cup DOMAIN forks /\ forks'[ref] = open
         /\ \A r \in DOMAIN forks : forks'[r] = forks[r]
    BY <2>1, <2>4 DEF With
  <2>14. /\ DOMAIN copies' = IF resource THEN {copy} \cup DOMAIN copies ELSE DOMAIN copies
         /\ resource => copies'[copy] = has
         /\ \A x \in DOMAIN copies : (resource => x # copy) => copies'[x] = copies[x]
    <3>1. CASE resource
      BY <2>1, <3>1 DEF With
    <3>2. CASE ~resource
      BY <2>1, <3>2
    <3> QED BY <3>1, <3>2
  <2>15. /\ DOMAIN resources' = IF resource THEN {rel} \cup DOMAIN resources ELSE DOMAIN resources
         /\ resource => resources'[rel] = copy
         /\ \A p \in DOMAIN resources : resources'[p] = resources[p]
    <3>1. CASE resource
      BY <2>1, <2>7, <3>1 DEF With
    <3>2. CASE ~resource
      BY <2>1, <3>2
    <3> QED BY <3>1, <3>2
  <2>16. \A x \in DOMAIN copies : copies'[x].data = copies[x].data /\ copies'[x].dirty = copies[x].dirty
    BY <2>12, <2>14
  <2>17. CopiesAre(copies')
    BY <2>6, <2>10, <2>11, <2>14 DEF CopiesAre
  <2>18. Together(forks', resources')
    <3>1. ASSUME NEW r \in DOMAIN forks'
          PROVE  /\ forks'[r].file = forks'[r].rel
                 /\ forks'[r].resource =>
                      forks'[r].rel \in DOMAIN resources' /\ resources'[forks'[r].rel] = forks'[r].copy
      <4>1. CASE r = ref
        BY <2>5, <2>13, <2>15, <4>1
      <4>2. CASE r \in DOMAIN forks
        <5>1. forks[r].file = forks[r].rel /\ forks'[r] = forks[r]
          BY <2>6, <2>13, <4>2 DEF Together
        <5>2. forks[r].resource =>
                forks[r].rel \in DOMAIN resources /\ resources[forks[r].rel] = forks[r].copy
          BY <2>6, <4>2 DEF Together
        <5> QED BY <2>15, <5>1, <5>2
      <4> QED BY <2>13, <4>1, <4>2
    <3>2. ASSUME NEW p \in DOMAIN resources'
          PROVE  \E r \in DOMAIN forks' : forks'[r].resource /\ forks'[r].rel = p
      <4>1. CASE p \in DOMAIN resources
        <5>1. PICK r \in DOMAIN forks : forks[r].resource /\ forks[r].rel = p
          BY <2>6, <4>1 DEF Together
        <5> QED BY <2>13, <5>1
      <4>2. CASE p \notin DOMAIN resources
        <5>1. resource /\ p = rel
          BY <2>15, <4>2
        <5> QED BY <2>5, <2>13, <5>1
      <4> QED BY <4>1, <4>2
    <3> QED BY <3>1, <3>2 DEF Together
  <2>19. Agree(forks')
    <3> SUFFICES ASSUME NEW q \in DOMAIN forks', NEW r \in DOMAIN forks', q # r,
                        forks'[q].rel = forks'[r].rel, forks'[q].resource = forks'[r].resource
                 PROVE  ~Denied(forks'[q].access, forks'[r].access)
      BY DEF Agree
    <3>1. CASE q \in DOMAIN forks /\ r \in DOMAIN forks
      BY <2>6, <2>13, <3>1 DEF Agree
    <3>2. CASE q = ref /\ r \in DOMAIN forks
      <4>1. /\ forks[r].rel = rel /\ forks[r].resource = resource
            /\ forks'[q].access = access /\ forks'[r].access = forks[r].access
        BY <2>5, <2>13, <3>2
      <4> QED BY <2>1, <3>2, <4>1 DEF Conflicts
    <3>3. CASE r = ref /\ q \in DOMAIN forks
      <4>1. /\ forks[q].rel = rel /\ forks[q].resource = resource
            /\ forks'[r].access = access /\ forks'[q].access = forks[q].access
        BY <2>5, <2>13, <3>3
      <4> QED BY <2>1, <3>3, <4>1 DEF Conflicts
    <3> QED BY <2>13, <3>1, <3>2, <3>3
  <2>20. OnFiles(forks', host')
    BY <2>1, <2>2, <2>5, <2>6, <2>13 DEF OnFiles
  <2>21. MetaIs(truth', side, resources, copies)
    BY <2>3, <2>6, MetaSame
  <2>22. MetaIs(truth', side, resources', copies')
    <3> SUFFICES ASSUME NEW q \in DOMAIN truth', truth'[q].own, Seen(q)
                 PROVE  MetaOf(truth'[q].meta, q, side, resources', copies')
      BY <2>21 DEF MetaIs
    <3> DEFINE meta == truth'[q].meta
    <3>1. MetaOf(meta, q, side, resources, copies)
      BY <2>21 DEF MetaIs
    <3> HIDE DEF meta
    <3>2. CASE q \in DOMAIN resources
      <4>1. q \in DOMAIN resources' /\ resources'[q] = resources[q] /\ resources[q] \in DOMAIN copies
        BY <2>6, <2>15, <3>2 DEF Held
      <4>2. MetaOf(meta, q, side, resources', copies')
        BY <2>16, <3>1, <3>2, <4>1 DEF MetaOf
      <4> QED BY <4>2 DEF meta
    <3>3. CASE q \notin DOMAIN resources /\ resource /\ q = rel
      <4>1. copy \notin DOMAIN copies /\ resources'[q] = copy /\ q \in DOMAIN resources'
        BY <2>8, <2>15, <3>3
      <4>2. copies'[copy].data = MetaIn(side, q).resource /\ ~copies'[copy].dirty
        BY <2>10, <2>11, <2>14, <3>3, <4>1
      <4>3. MetaIn(side, q).resource = meta.resource
        BY <3>1, <3>3 DEF MetaOf
      <4>4. MetaOf(meta, q, side, resources', copies')
        BY <3>1, <4>1, <4>2, <4>3 DEF MetaOf
      <4> QED BY <4>4 DEF meta
    <3>4. CASE q \notin DOMAIN resources /\ ~(resource /\ q = rel)
      <4>1. q \notin DOMAIN resources'
        BY <2>15, <3>4
      <4>2. MetaOf(meta, q, side, resources', copies')
        BY <3>1, <3>4, <4>1 DEF MetaOf
      <4> QED BY <4>2 DEF meta
    <3> QED BY <3>2, <3>3, <3>4
  <2> QED BY <2>1, <2>17, <2>18, <2>19, <2>20, <2>22 DEF SharedIInv
<1> QED BY <1>1, <1>2

-----------------------------------------------------------------------------
(* What is written.                                                        *)

LEMMA WrittenIs ==
  ASSUME NEW data \in Content, NEW offset \in Nat, NEW bytes \in Seq(Bytes),
         Len(Written(data, offset, bytes)) <= Longest
  PROVE  Written(data, offset, bytes) \in Content
<1> DEFINE m == IF offset + Len(bytes) > Len(data) THEN offset + Len(bytes) ELSE Len(data)
           new == Written(data, offset, bytes)
<1>1. /\ Len(data) \in Nat /\ \A i \in 1..Len(data) : data[i] \in Bytes
      /\ Len(bytes) \in Nat /\ DOMAIN bytes = 1..Len(bytes) /\ \A i \in 1..Len(bytes) : bytes[i] \in Bytes
      /\ Longest \in Nat /\ 0 \in Bytes
  BY ContentIs, LenProperties, ElementOfSeq, FolderAssumption
<1>2. m \in Nat
  BY <1>1
<1>3. new = [i \in 1..m |-> IF i > offset /\ i <= offset + Len(bytes) THEN bytes[i - offset]
                            ELSE IF i <= Len(data) THEN data[i] ELSE 0]
  BY DEF Written
<1> HIDE DEF m
<1>4. ASSUME NEW i \in 1..m
      PROVE  (IF i > offset /\ i <= offset + Len(bytes) THEN bytes[i - offset]
              ELSE IF i <= Len(data) THEN data[i] ELSE 0) \in Bytes
  BY <1>1, <1>2
<1>5. new \in [1..m -> Bytes]
  BY <1>3, <1>4
<1>6. Len(new) = m
  BY <1>2, <1>5
<1> QED BY <1>1, <1>2, <1>5, <1>6, ContentOf

LEMMA ResizedIs ==
  ASSUME NEW data \in Content, NEW length \in Nat, length <= Longest
  PROVE  Resized(data, length) \in Content
<1>1. /\ Len(data) \in Nat /\ \A i \in 1..Len(data) : data[i] \in Bytes
      /\ Longest \in Nat /\ 0 \in Bytes
  BY ContentIs, FolderAssumption
<1>2. Resized(data, length) \in [1..length -> Bytes]
  BY <1>1 DEF Resized
<1> QED BY <1>1, <1>2, ContentOf

LEMMA DataOfIs ==
  ASSUME ForksIInv, SharedIInv, NEW ref \in DOMAIN forks
  PROVE  DataOf(forks[ref]) \in Content
<1>1. forks[ref].resource => copies[forks[ref].copy].data \in Content
  BY DEF ForksIInv, Held, SharedIInv, CopiesAre
<1>2. host[forks[ref].file].data \in Content
  BY DEF SharedIInv, Together, OnFiles, DataIs
<1> QED BY <1>1, <1>2, NoMetaIs DEF DataOf

LEMMA ChangedShared ==
  ASSUME ForksIInv, DesktopIInv, SharedIInv, NEW ref \in DOMAIN forks, NEW data \in Content,
         Changed(ref, data)
  PROVE  SharedIInv'
<1> DEFINE f == forks[ref]
           x == f.copy
           p == f.rel
<1>1. p \in DOMAIN host /\ f.file = p /\ p # None /\ DOMAIN truth = DOMAIN host
  BY FolderAssumption DEF DesktopIInv, FolderIs, InFolders, Path, SharedIInv, Together, OnFiles
<1>2. UNCHANGED <<side, forks, resources>>
  BY DEF Changed
<1>3. CASE ~f.resource
  <2>1. host' = [host EXCEPT ![p].data = data] /\ copies' = copies /\ truth' = truth
    BY <1>1, <1>3 DEF Changed
  <2> HIDE DEF p
  <2>2. SameFolder(host, host')
    BY <2>1 DEF SameFolder
  <2>3. DataIs(host')
    BY <1>1, <2>1 DEF SharedIInv, DataIs
  <2> QED BY <1>2, <2>1, <2>2, <2>3, SameMetaSelf, StillShared
<1>4. CASE f.resource
  <2>1. /\ copies' = [copies EXCEPT ![x].data = data, ![x].dirty = TRUE]
        /\ truth' = [truth EXCEPT ![p].meta.resource = data] /\ host' = host
    BY <1>1, <1>4 DEF Changed
  <2>2. p \in DOMAIN resources /\ resources[p] = x /\ x \in DOMAIN copies
    BY <1>4 DEF SharedIInv, Together, ForksIInv, Held
  <2>3. /\ CopiesAre(copies) /\ MetaIs(truth, side, resources, copies)
        /\ \A q \in DOMAIN resources : resources[q] \in DOMAIN copies /\ copies[resources[q]].rel = q
    BY DEF SharedIInv, ForksIInv, Held
  <2> HIDE DEF f, x, p
  <2>4. /\ DOMAIN copies' = DOMAIN copies /\ \A y \in DOMAIN copies : y # x => copies'[y] = copies[y]
        /\ {"data", "dirty"} \subseteq DOMAIN copies'[x]
        /\ copies'[x].data = data /\ copies'[x].dirty = TRUE
    <3> DEFINE once == [copies EXCEPT ![x].data = data]
               twice == [once EXCEPT ![x].dirty = TRUE]
    <3>1. {"data", "dirty"} \subseteq DOMAIN copies[x]
      BY <2>2, <2>3 DEF CopiesAre
    <3>2. /\ DOMAIN once = DOMAIN copies /\ \A y \in DOMAIN copies : y # x => once[y] = copies[y]
          /\ DOMAIN once[x] = DOMAIN copies[x] /\ once[x].data = data
      BY <2>2, <3>1
    <3>3. copies' = twice
      BY <2>1
    <3> HIDE DEF once
    <3>4. /\ DOMAIN twice = DOMAIN once /\ \A y \in DOMAIN once : y # x => twice[y] = once[y]
          /\ DOMAIN twice[x] = DOMAIN once[x] /\ twice[x].data = once[x].data
          /\ twice[x].dirty = TRUE
      BY <2>2, <3>1, <3>2
    <3> QED BY <3>1, <3>2, <3>3, <3>4
  <2>5. CopiesAre(copies')
    BY <2>3, <2>4 DEF CopiesAre
  <2>6. /\ MetaFields \subseteq DOMAIN truth[p] /\ DOMAIN truth[p].meta = {"finder", "resource"}
    BY <1>1, <2>3 DEF MetaIs
  <2>7. /\ DOMAIN truth' = DOMAIN truth /\ \A q \in DOMAIN truth : q # p => truth'[q] = truth[q]
        /\ MetaFields \subseteq DOMAIN truth'[p] /\ DOMAIN truth'[p].meta = {"finder", "resource"}
        /\ truth'[p].own = truth[p].own /\ truth'[p].meta.finder = truth[p].meta.finder
        /\ truth'[p].meta.resource = data
    <3> DEFINE e == truth[p]
               m == e.meta
    <3>1. truth'[p] = [e EXCEPT !.meta.resource = data] /\ DOMAIN truth' = DOMAIN truth
          /\ \A q \in DOMAIN truth : q # p => truth'[q] = truth[q]
      BY <1>1, <2>1
    <3> HIDE DEF e
    <3>2. /\ truth'[p].meta = [e.meta EXCEPT !.resource = data]
          /\ DOMAIN truth'[p] = DOMAIN e /\ truth'[p].own = e.own
      BY <2>6, <3>1 DEF e, MetaFields
    <3> QED BY <2>6, <3>1, <3>2 DEF e
  <2>8. MetaIs(truth', side, resources, copies')
    <3> SUFFICES ASSUME NEW q \in DOMAIN truth'
                 PROVE  /\ MetaFields \subseteq DOMAIN truth'[q]
                        /\ DOMAIN truth'[q].meta = {"finder", "resource"}
                        /\ truth'[q].own /\ Seen(q) => MetaOf(truth'[q].meta, q, side, resources, copies')
      BY DEF MetaIs
    <3>1. /\ MetaFields \subseteq DOMAIN truth[q] /\ DOMAIN truth[q].meta = {"finder", "resource"}
          /\ truth[q].own /\ Seen(q) => MetaOf(truth[q].meta, q, side, resources, copies)
      BY <2>3, <2>7 DEF MetaIs
    <3>2. CASE q # p
      <4>1. q \in DOMAIN resources => resources[q] # x /\ resources[q] \in DOMAIN copies
        BY <2>2, <2>3, <3>2
      <4> QED BY <2>4, <2>7, <3>1, <3>2, <4>1 DEF MetaOf
    <3>3. CASE q = p
      BY <2>2, <2>4, <2>7, <3>1, <3>3 DEF MetaOf
    <3> QED BY <3>2, <3>3
  <2> QED BY <1>2, <2>1, <2>5, <2>8 DEF SharedIInv
<1> QED BY <1>3, <1>4

LEMMA OpenShares ==
  ASSUME DesktopIInv, SharedIInv, ForksIInv
  PROVE  HeldIn(Open) /\ Shares(Open) /\ MetaKept(Open)
<1>1. /\ Open.forks = forks /\ Open.resources = resources /\ Open.copies = copies
      /\ Open.side = side /\ Open.truth = truth
  BY DEF Open
<1> QED BY <1>1, OpenHeld DEF Shares, MetaKept, DesktopIInv, SharedIInv

LEMMA BecomesShared ==
  ASSUME SharedIInv, NEW open, Shares(open), MetaKept(open), Becomes(open)
  PROVE  SharedIInv'
<1>1. /\ forks' = open.forks /\ resources' = open.resources /\ copies' = open.copies
      /\ side' = open.side /\ truth' = open.truth /\ host' = host
  BY DEF Becomes
<1> QED BY <1>1 DEF Shares, MetaKept, SharedIInv

LEMMA FlushForkShared ==
  ASSUME ForksIInv, DesktopIInv, SharedIInv, NEW s, NEW ref, NEW outcome \in Outcomes,
         FlushFork(s, ref, outcome)
  PROVE  SharedIInv'
<1> DEFINE x == forks[ref].copy
           p == forks[ref].rel
           done == Flushed(Open, x, outcome)
<1>1. ref \in DOMAIN forks /\ IF forks[ref].resource THEN Becomes(done) ELSE Becomes(Open)
  BY DEF FlushFork, Has
<1>2. HeldIn(Open) /\ Shares(Open) /\ MetaKept(Open)
  BY OpenShares
<1>3. CASE ~forks[ref].resource
  BY <1>1, <1>2, <1>3, BecomesShared
<1>4. CASE forks[ref].resource
  <2>1. Open.forks = forks /\ Open.resources = resources /\ Open.copies = copies
    BY DEF Open
  <2>2. p \in DOMAIN Open.resources /\ p \in DOMAIN host /\ x = Open.resources[p] /\ FolderIs(host)
    BY <1>1, <1>4, <2>1 DEF SharedIInv, Together, OnFiles, DesktopIInv
  <2>3. Parts(Open) /\ CopyOf(Open.resources, Open.copies)
    BY <1>2 DEF HeldIn, Held, CopyOf
  <2>4. done.forks = Open.forks /\ done.resources = Open.resources
    BY <2>3, FlushedHeld
  <2> HIDE DEF x, p, done
  <2>5. MetaKept(done)
    BY <1>2, <2>2, <2>3, FlushedMeta DEF done
  <2>6. Shares(done)
    BY <1>2, <2>4 DEF Shares
  <2> QED BY <1>1, <1>4, <2>5, <2>6, BecomesShared
<1> QED BY <1>3, <1>4

LEMMA CloseForkShared ==
  ASSUME ForksIInv, DesktopIInv, SharedIInv, NEW s, NEW ref, NEW outcome \in Outcomes,
         CloseFork(s, ref, outcome)
  PROVE  SharedIInv'
<1> DEFINE done == Closed(Open, ref, outcome)
<1>1. HeldIn(Open) /\ Shares(Open) /\ MetaKept(Open) /\ Open.forks = forks /\ FolderIs(host)
  BY OpenShares DEF Open, DesktopIInv
<1>2. Becomes(done) /\ ref \in DOMAIN Open.forks
  BY <1>1 DEF CloseFork, Has
<1>3. Shares(done) /\ MetaKept(done)
  BY <1>1, <1>2, ClosedShares
<1> HIDE DEF done
<1> QED BY <1>2, <1>3, BecomesShared

\* One fork closed after the other.
LEMMA AllClosedShares ==
  ASSUME ForksIInv, DesktopIInv, SharedIInv, NEW refs, NEW outcome \in Outcomes,
         NEW n \in Nat, DOMAIN refs = 1..n, \A i \in 1..n : refs[i] \in DOMAIN forks,
         \A i, j \in 1..n : refs[i] = refs[j] => i = j
  PROVE  Shares(AllClosed(Open, refs, outcome)) /\ MetaKept(AllClosed(Open, refs, outcome))
<1>1. PICK w : ClosesOneByOne(w, Open, refs, outcome, n)
  BY AllClosedSteps
<1> DEFINE Good == {k \in 0..n :
             /\ HeldIn(w[k]) /\ Shares(w[k]) /\ MetaKept(w[k])
             /\ DOMAIN w[k].forks = DOMAIN forks \ {refs[i] : i \in 1..k}}
<1>2. 0 \in Good
  <2>1. w[0] = Open
    BY <1>1 DEF ClosesOneByOne
  <2>2. HeldIn(Open) /\ Shares(Open) /\ MetaKept(Open) /\ Open.forks = forks
    BY OpenShares DEF Open
  <2>3. {refs[i] : i \in 1..0} = {}
    OBVIOUS
  <2> QED BY <2>1, <2>2, <2>3
<1>3. ASSUME NEW k \in 1..n, k - 1 \in Good PROVE k \in Good
  <2> DEFINE a == w[k - 1]
             b == w[k]
  <2>1. /\ HeldIn(a) /\ Shares(a) /\ MetaKept(a)
        /\ DOMAIN a.forks = DOMAIN forks \ {refs[i] : i \in 1..k - 1}
    BY <1>3
  <2>2. b = Closed(a, refs[k], outcome) /\ FolderIs(host)
    BY <1>1 DEF ClosesOneByOne, DesktopIInv
  <2> HIDE DEF a, b, Good
  <2>3. refs[k] \in DOMAIN a.forks
    BY <2>1
  <2>4. HeldIn(b) /\ b.forks = Fewer(a.forks, refs[k])
    BY <2>1, <2>2, <2>3, ClosedHeld
  <2>5. Shares(b) /\ MetaKept(b)
    BY <2>1, <2>2, <2>3, ClosedShares
  <2>6. {refs[i] : i \in 1..k} = {refs[i] : i \in 1..k - 1} \cup {refs[k]}
    OBVIOUS
  <2>7. DOMAIN b.forks = DOMAIN forks \ {refs[i] : i \in 1..k}
    BY <2>1, <2>4, <2>6 DEF Fewer
  <2> QED BY <2>4, <2>5, <2>7 DEF b, Good
<1>4. Good \in SUBSET (0..n)
  OBVIOUS
<1> HIDE DEF Good
<1>5. n \in Good
  BY <1>2, <1>3, <1>4, HoldsAtLast
<1>6. AllClosed(Open, refs, outcome) = w[n]
  BY <1>1 DEF ClosesOneByOne
<1> QED BY <1>5, <1>6 DEF Good

LEMMA CloseSessionShared ==
  ASSUME ForksIInv, DesktopIInv, SharedIInv, NEW s \in Sessions, NEW outcome \in Outcomes,
         CloseSession(s, outcome)
  PROVE  SharedIInv'
<1> DEFINE refs == SetToSeq(ForksOf(s))
           n == Cardinality(ForksOf(s))
           done == AllClosed(Open, refs, outcome)
<1>1. Becomes(done)
  BY DEF CloseSession, ForksOf
<1>2. IsFiniteSet(ForksOf(s))
  <2>1. IsFiniteSet(DOMAIN forks)
    BY HeldFinite DEF ForksIInv, Held
  <2> QED BY <2>1, FS_Subset DEF ForksOf
<1>3. /\ DOMAIN refs = 1..n /\ n \in Nat
      /\ \A i \in 1..n : refs[i] \in ForksOf(s)
      /\ \A i, j \in 1..n : refs[i] = refs[j] => i = j
  BY <1>2, InSeq
<1> HIDE DEF refs, n
<1>4. \A i \in 1..n : refs[i] \in DOMAIN forks
  BY <1>3 DEF ForksOf
<1>5. Shares(done) /\ MetaKept(done)
  BY <1>3, <1>4, AllClosedShares
<1> HIDE DEF done
<1> QED BY <1>1, <1>5, BecomesShared

-----------------------------------------------------------------------------
(* The calls of the desktop database, which leave them alone.              *)

LEMMA OnDesktopShared ==
  ASSUME DesktopIInv, SharedIInv, NEW at, NEW history, SameMeta(truth, history), OnDesktop(at, history)
  PROVE  SharedIInv'
<1>1. /\ truth' = Stamped(history, Resolved(ids, at), Named(at))
      /\ UNCHANGED <<host, side, forks, resources, copies>>
  BY DEF OnDesktop, forkVars
<1>2. SameMeta(truth, truth')
  BY <1>1, SameMetaStamped, SameMetaOn
<1>3. DataIs(host')
  BY <1>1 DEF SharedIInv
<1> QED BY <1>1, <1>2, <1>3, SameFolderSelf, StillShared

\* What is said of something else than the metadata.
LEMMA SameMetaBut ==
  ASSUME NEW h, NEW rel, NEW y
  PROVE  /\ SameMeta(h, [h EXCEPT ![rel].creators = y])
         /\ SameMeta(h, [h EXCEPT ![rel].comment = y])
<1>1. ASSUME NEW g, NEW field \in {"creators", "comment"}, DOMAIN g = DOMAIN h,
             \A p \in DOMAIN h : g[p] = h[p] \/ g[p] = [h[p] EXCEPT ![field] = y]
      PROVE  SameMeta(h, g)
  <2> SUFFICES ASSUME NEW p \in DOMAIN h, MetaFields \subseteq DOMAIN h[p]
               PROVE  /\ MetaFields \subseteq DOMAIN g[p] /\ g[p].meta = h[p].meta
                      /\ g[p].own => h[p].own
    BY <1>1 DEF SameMeta
  <2> DEFINE e == h[p]
  <2>1. g[p] = e \/ g[p] = [e EXCEPT ![field] = y]
    BY <1>1
  <2> HIDE DEF e
  <2> QED BY <1>1, <2>1 DEF e, MetaFields
<1> DEFINE a == [h EXCEPT ![rel].creators = y]
           b == [h EXCEPT ![rel].comment = y]
<1>2. DOMAIN a = DOMAIN h /\ \A p \in DOMAIN h : a[p] = h[p] \/ a[p] = [h[p] EXCEPT !["creators"] = y]
  OBVIOUS
<1>3. DOMAIN b = DOMAIN h /\ \A p \in DOMAIN h : b[p] = h[p] \/ b[p] = [h[p] EXCEPT !["comment"] = y]
  OBVIOUS
<1> HIDE DEF a, b
<1>4. SameMeta(h, a) /\ SameMeta(h, b)
  BY <1>1, <1>2, <1>3
<1> QED BY <1>4 DEF a, b

LEMMA DesktopShared ==
  ASSUME DesktopIInv, SharedIInv, DesktopCall
  PROVE  SharedIInv'
<1>1. CASE OpenDT
  <2>1. /\ DOMAIN truth' = DOMAIN truth
        /\ \A p \in DOMAIN truth : \/ truth'[p] = truth[p]
                                   \/ truth'[p] = [truth[p] EXCEPT !.creators = @ \cup {Metadata(p).finder}]
        /\ UNCHANGED <<host, side, forks, resources, copies>>
    BY <1>1 DEF OpenDT, forkVars
  <2>2. SameMeta(truth, truth')
    <3> SUFFICES ASSUME NEW p \in DOMAIN truth, MetaFields \subseteq DOMAIN truth[p]
                 PROVE  /\ MetaFields \subseteq DOMAIN truth'[p] /\ truth'[p].meta = truth[p].meta
                        /\ truth'[p].own => truth[p].own
      BY <2>1 DEF SameMeta
    <3> DEFINE e == truth[p]
               y == e.creators \cup {Metadata(p).finder}
    <3>1. truth'[p] = e \/ truth'[p] = [e EXCEPT !.creators = y]
      BY <2>1
    <3> HIDE DEF e, y
    <3> QED BY <3>1 DEF e, MetaFields
  <2>3. DataIs(host')
    BY <2>1 DEF SharedIInv
  <2> QED BY <2>1, <2>2, <2>3, SameFolderSelf, StillShared
<1>2. ASSUME NEW asked, NEW creator, AddAPPL(asked, creator)
      PROVE  SharedIInv'
  <2> DEFINE at == Resolve(asked)
             y == truth[Rel(at)].creators \cup {creator}
  <2>1. Refused(at) \/ OnDesktop(at, [truth EXCEPT ![Rel(at)].creators = y])
    BY <1>2 DEF AddAPPL
  <2> HIDE DEF at, y
  <2> QED BY <2>1, RefusedShared, SameMetaBut, OnDesktopShared
<1>3. ASSUME NEW asked, NEW creator, RemoveAPPL(asked, creator)
      PROVE  SharedIInv'
  <2> DEFINE at == Resolve(asked)
             y == truth[Rel(at)].creators \ {creator}
  <2>1. Refused(at) \/ OnDesktop(at, [truth EXCEPT ![Rel(at)].creators = y])
    BY <1>3 DEF RemoveAPPL
  <2> HIDE DEF at, y
  <2> QED BY <2>1, RefusedShared, SameMetaBut, OnDesktopShared
<1>4. ASSUME NEW asked, NEW comment, AddComment(asked, comment)
      PROVE  SharedIInv'
  <2> DEFINE at == Resolve(asked)
  <2>1. Refused(at) \/ OnDesktop(at, [truth EXCEPT ![Rel(at)].comment = comment])
    BY <1>4 DEF AddComment
  <2> HIDE DEF at
  <2> QED BY <2>1, RefusedShared, SameMetaBut, OnDesktopShared
<1> QED BY <1>1, <1>2, <1>3, <1>4 DEF DesktopCall

-----------------------------------------------------------------------------
LEMMA CatalogShared ==
  ASSUME ToldApart, RefusesBeside = {}, NumbersIInv, ForksIInv, DesktopIInv, SharedIInv, CatalogCall
  PROVE  SharedIInv'
<1>1. ASSUME NEW asked, GetFileDirParms(asked, TRUE)
      PROVE  SharedIInv'
  <2>1. \E numbers, named : OnlyNumbers(numbers, named)
    BY <1>1 DEF GetFileDirParms, Refused
  <2> QED BY <2>1, OnlyNumbersShared
<1>2. ASSUME NEW asked, OpenDir(asked)
      PROVE  SharedIInv'
  BY <1>2, RefusedShared DEF OpenDir
<1>3. ASSUME NEW asked, NEW kinds, NEW start, NEW count, Enumerate(asked, kinds, start, count)
      PROVE  SharedIInv'
  <2>1. \E numbers, named : OnlyNumbers(numbers, named)
    BY <1>3 DEF Enumerate
  <2> QED BY <2>1, OnlyNumbersShared
<1>4. AskedTo \subseteq Asked
  BY VolumeAssumption
<1> QED BY <1>1, <1>2, <1>3, <1>4, SetParmsShared, CreateFileShared, CreateDirShared, DeleteShared,
           RenameShared, MoveAndRenameShared DEF CatalogCall

LEMMA ForkShared ==
  ASSUME NumbersIInv, ForksIInv, DesktopIInv, SharedIInv, ForkCall
  PROVE  SharedIInv'
<1>1. ASSUME NEW s, NEW asked \in Asked, NEW resource \in BOOLEAN, NEW access,
             OpenFork(s, asked, resource, access)
      PROVE  SharedIInv'
  BY <1>1, OpenForkShared
<1>2. ASSUME NEW s, NEW ref, NEW offset \in -1..Longest, NEW fromEnd, NEW byte \in Bytes,
             Write(s, ref, offset, fromEnd, <<byte>>)
      PROVE  SharedIInv'
  <2> DEFINE data == DataOf(forks[ref])
             start == IF fromEnd THEN offset + Len(data) ELSE offset
             new == Written(data, start, <<byte>>)
  <2>1. ref \in DOMAIN forks /\ start >= 0 /\ Changed(ref, new)
    BY <1>2 DEF Write, Has
  <2>2. data \in Content /\ Len(data) \in Nat /\ Longest \in Nat
    BY <2>1, DataOfIs, ContentIs, FolderAssumption
  <2>3. start \in Nat /\ <<byte>> \in Seq(Bytes) /\ Len(new) <= Longest
    BY <2>1, <2>2 DEF Changed
  <2> HIDE DEF data, start
  <2>4. new \in Content
    BY <2>2, <2>3, WrittenIs
  <2> HIDE DEF new
  <2> QED BY <2>1, <2>4, ChangedShared
<1>3. ASSUME NEW s, NEW ref, NEW length \in 0..Longest, SetForkParms(s, ref, length)
      PROVE  SharedIInv'
  <2> DEFINE data == DataOf(forks[ref])
             new == Resized(data, length)
  <2>1. ref \in DOMAIN forks /\ Changed(ref, new)
    BY <1>3 DEF SetForkParms, Has
  <2>2. data \in Content /\ length \in Nat /\ length <= Longest
    BY <2>1, DataOfIs, FolderAssumption
  <2> HIDE DEF data
  <2>3. new \in Content
    BY <2>2, ResizedIs
  <2> HIDE DEF new
  <2> QED BY <2>1, <2>3, ChangedShared
<1> QED BY <1>1, <1>2, <1>3, FlushForkShared, CloseForkShared DEF ForkCall

LEMMA SessionShared ==
  ASSUME ForksIInv, DesktopIInv, SharedIInv, SessionCall
  PROVE  SharedIInv'
<1>1. ASSUME NEW s, OpenSession(s) \/ Login(s) \/ Logout(s)
      PROVE  SharedIInv'
  <2>1. UNCHANGED <<host, side, truth, forks, resources, copies>>
    BY <1>1 DEF OpenSession, Login, Logout, folderVars, forkVars
  <2> QED BY <2>1 DEF SharedIInv
<1> QED BY <1>1, CloseSessionShared DEF SessionCall

LEMMA InitShared ==
  ASSUME Init
  PROVE  SharedIInv
<1>1. IsTree(host)
  BY VolumeAssumption DEF Init
<1>2. /\ side = <<>> /\ forks = <<>> /\ resources = <<>> /\ copies = <<>>
      /\ truth = [p \in DOMAIN host |-> Untold(NoMeta, TRUE)]
  BY DEF Init
<1>3. DataIs(host)
  BY <1>1 DEF IsTree, DataIs
<1>4. DOMAIN side = {} /\ DOMAIN forks = {} /\ DOMAIN resources = {} /\ DOMAIN copies = {}
  BY <1>2
<1>5. \A p \in DOMAIN truth : truth[p].meta = NoMeta /\ MetaFields \subseteq DOMAIN truth[p]
  BY <1>2 DEF Untold, MetaFields
<1>6. DOMAIN NoMeta = {"finder", "resource"}
  BY DEF NoMeta
<1>7. MetaIs(truth, side, resources, copies)
  BY <1>4, <1>5, <1>6 DEF MetaIs, MetaOf, MetaIn
<1> QED BY <1>3, <1>4, <1>7 DEF SharedIInv, Together, Agree, OnFiles, CopiesAre, SidesAre

-----------------------------------------------------------------------------
(* What is read of a fork.                                                 *)

\* A read gives some of what there is from the offset on, and none at the end.
ReadsOn(bytes, data, offset) ==
  /\ bytes \in Seq(Bytes)
  /\ offset >= Len(data) => Len(bytes) = 0
  /\ offset < Len(data) => Len(bytes) >= 1 /\ offset + Len(bytes) <= Len(data)

LEMMA ReadGives ==
  ASSUME NEW ref, DataOf(forks[ref]) \in Content, NEW offset \in Nat, NEW newline
  PROVE  "read" \in forks[ref].access =>
           /\ ReadsOn(Read(ref, offset, QuantumSize, newline).bytes, DataOf(forks[ref]), offset)
           /\ newline \notin Bytes =>
                ((Read(ref, offset, QuantumSize, newline).result = "eofErr")
                   <=> offset + QuantumSize > Len(DataOf(forks[ref])))
<1> SUFFICES ASSUME "read" \in forks[ref].access
    PROVE  /\ ReadsOn(Read(ref, offset, QuantumSize, newline).bytes, DataOf(forks[ref]), offset)
           /\ newline \notin Bytes =>
                ((Read(ref, offset, QuantumSize, newline).result = "eofErr")
                   <=> offset + QuantumSize > Len(DataOf(forks[ref])))
  OBVIOUS
<1> DEFINE data == DataOf(forks[ref])
           l == Len(data)
           most == offset + QuantumSize
           last == IF most < l THEN most ELSE l
           bytes == SubSeq(data, offset + 1, last)
           ends == {i \in 1..Len(bytes) : bytes[i] = newline}
           read == Read(ref, offset, QuantumSize, newline)
<1>1. /\ l \in Nat /\ data \in Seq(Bytes) /\ \A i \in 1..l : data[i] \in Bytes
      /\ QuantumSize \in Nat \ {0} /\ most \in Nat /\ last \in Nat /\ last <= l
  BY ContentIs, VolumeAssumption
<1>2. read = IF ends # {} THEN [bytes |-> SubSeq(bytes, 1, Min(ends)), result |-> "noErr"]
             ELSE [bytes |-> bytes,
                   result |-> IF Len(bytes) < QuantumSize /\ offset + Len(bytes) >= l
                              THEN "eofErr" ELSE "noErr"]
  BY DEF Read
<1> HIDE DEF read, data
<1>3. /\ bytes \in Seq(Bytes) /\ Len(bytes) = IF offset + 1 <= last THEN last - offset ELSE 0
      /\ \A i \in 1..Len(bytes) : bytes[i] \in Bytes
  <2>1. \A i \in offset + 1 .. last : data[i] \in Bytes
    BY <1>1
  <2>2. offset + 1 \in Int /\ last \in Int
    BY <1>1
  <2> HIDE DEF last
  <2>3. /\ bytes \in Seq(Bytes)
        /\ Len(bytes) = IF offset + 1 <= last THEN last - (offset + 1) + 1 ELSE 0
    BY <2>1, <2>2, SubSeqProperties
  <2> HIDE DEF bytes
  <2> QED BY <2>2, <2>3, ElementOfSeq
<1>4. ReadsOn(bytes, data, offset)
  <2> HIDE DEF bytes, data
  <2>1. l = Len(data)
    OBVIOUS
  <2> HIDE DEF l
  <2>2. offset >= l => Len(bytes) = 0
    BY <1>1, <1>3
  <2>3. offset < l => Len(bytes) >= 1 /\ offset + Len(bytes) <= l
    BY <1>1, <1>3
  <2> QED BY <1>3, <2>1, <2>2, <2>3 DEF ReadsOn
<1>5. ReadsOn(read.bytes, data, offset)
  <2>1. CASE ends = {}
    <3> HIDE DEF ends, bytes
    <3>1. read.bytes = bytes
      BY <1>2, <2>1
    <3> QED BY <1>4, <3>1
  <2>2. CASE ends # {}
    <3> DEFINE m == Min(ends)
               line == SubSeq(bytes, 1, m)
    <3> HIDE DEF bytes
    <3>0. Len(bytes) \in Nat
      BY <1>3, LenProperties
    <3>1. ends \subseteq Nat /\ ends \subseteq 1..Len(bytes)
      OBVIOUS
    <3> HIDE DEF ends
    <3>2. \E i \in ends : \A j \in ends : i <= j
      BY <2>2, <3>1, LeastOf
    <3>3. m \in ends
      BY <3>2 DEF Min
    <3>4. Len(bytes) \in Nat /\ m \in Nat /\ 1 <= m /\ m <= Len(bytes)
      <4> HIDE DEF m
      <4>1. m \in 1..Len(bytes)
        BY <3>1, <3>3
      <4> QED BY <3>0, <4>1
    <3>5. read.bytes = line
      BY <1>2, <2>2
    <3> HIDE DEF m
    <3>6. line \in Seq(Bytes) /\ Len(line) = m
      <4>1. \A i \in 1..m : bytes[i] \in Bytes
        BY <1>3, <3>4
      <4>2. m \in Int /\ 1 \in Int
        BY <3>4
      <4>3. line \in Seq(Bytes) /\ Len(line) = IF 1 <= m THEN m - 1 + 1 ELSE 0
        BY <4>1, <4>2, SubSeqProperties
      <4> HIDE DEF line
      <4> QED BY <3>4, <4>3
    <3> HIDE DEF line
    <3>7. Len(data) \in Nat
      BY <1>1
    <3>8. offset < Len(data)
      BY <1>4, <3>4, <3>7 DEF ReadsOn
    <3> HIDE DEF l
    <3>9. offset + Len(line) <= Len(data)
      BY <1>4, <3>4, <3>6, <3>7, <3>8 DEF ReadsOn
    <3> QED BY <3>4, <3>5, <3>6, <3>7, <3>8, <3>9 DEF ReadsOn
  <2> QED BY <2>1, <2>2
<1>6. ASSUME newline \notin Bytes
      PROVE  (read.result = "eofErr") <=> most > l
  <2>1. ends = {}
    BY <1>3, <1>6
  <2> HIDE DEF ends
  <2>2. (read.result = "eofErr") <=> Len(bytes) < QuantumSize /\ offset + Len(bytes) >= l
    <3> HIDE DEF bytes, l
    <3> QED BY <1>2, <2>1
  <2> HIDE DEF bytes
  <2>3. l \in Nat /\ QuantumSize \in Nat \ {0}
    BY <1>1
  <2> HIDE DEF l
  <2> QED BY <1>3, <2>2, <2>3
<1> QED BY <1>5, <1>6 DEF data, read

ReadsOneByOne(w, ref, newline, n) ==
  /\ w[0] = <<>>
  /\ \A k \in 1..n : w[k] = w[k - 1] \o Read(ref, Len(w[k - 1]), QuantumSize, newline).bytes
  /\ ReadThrough(ref, newline) = w[n]

LEMMA ReadSteps ==
  ASSUME NEW ref, NEW newline
  PROVE  \E w : ReadsOneByOne(w, ref, newline, Longest + 1)
<1> DEFINE n == Longest + 1
           list == [i \in 1..n |-> i]
           One(x, y) == x \o Read(ref, Len(x), QuantumSize, newline).bytes
           IsFold(g) == g = [s \in SUBSET (1..n) |->
              IF s = {} THEN <<>> ELSE One(g[s \ {Max(s)}], list[Max(s)])]
           h == CHOOSE g : IsFold(g)
<1>1. ReadThrough(ref, newline) = h[1..n]
  BY DEF ReadThrough, FoldLeft, MapThenFoldSet
<1>2. n \in Nat
  BY FolderAssumption
<1> HIDE DEF n
<1>3. PICK g : Folds(g, "read", <<ref, newline>>, <<>>, list, n)
  BY <1>2, FoldExists
<1>4. \A x, y : Step("read", <<ref, newline>>, x, y) = One(x, y)
  BY DEF Step
<1> HIDE DEF One, list
<1>5. IsFold(g)
  BY <1>3, <1>4 DEF Folds
<1>6. IsFold(h)
  BY <1>5
<1> HIDE DEF h
<1>7. Folds(h, "read", <<ref, newline>>, <<>>, list, n)
  BY <1>4, <1>6 DEF Folds
<1>8. PICK w : Steps(w, "read", <<ref, newline>>, <<>>, list, n) /\ w[n] = h[1..n]
  BY <1>2, <1>7, FoldSteps
<1>9. w[0] = <<>> /\ \A k \in 1..n : w[k] = One(w[k - 1], list[k])
  BY <1>4, <1>8 DEF Steps
<1> QED BY <1>1, <1>8, <1>9 DEF ReadsOneByOne, One, n

\* Read from its start on, a fork is as long as it is.
LEMMA ReadThroughIs ==
  ASSUME NEW ref, DataOf(forks[ref]) \in Content, "read" \in forks[ref].access, NEW newline
  PROVE  Len(ReadThrough(ref, newline)) = Len(DataOf(forks[ref]))
<1> DEFINE n == Longest + 1
           data == DataOf(forks[ref])
           l == Len(data)
<1>1. n \in Nat /\ l \in Nat /\ l < n
  BY ContentIs, FolderAssumption
<1>2. PICK w : ReadsOneByOne(w, ref, newline, n)
  BY ReadSteps
<1> HIDE DEF n
<1> DEFINE Good == {k \in 0..n : w[k] \in Seq(Bytes) /\ Len(w[k]) <= l /\ (Len(w[k]) >= k \/ Len(w[k]) = l)}
<1>3. 0 \in Good
  <2>1. w[0] = <<>> /\ 0 \in 0..n
    BY <1>1, <1>2 DEF ReadsOneByOne
  <2>2. <<>> \in Seq(Bytes) /\ Len(<<>>) = 0
    OBVIOUS
  <2> HIDE DEF l
  <2>3. w[0] \in Seq(Bytes) /\ Len(w[0]) <= l /\ Len(w[0]) >= 0
    BY <1>1, <2>1, <2>2
  <2> QED BY <2>1, <2>3
<1>4. ASSUME NEW k \in 1..n, k - 1 \in Good PROVE k \in Good
  <2> DEFINE a == w[k - 1]
             b == Read(ref, Len(a), QuantumSize, newline).bytes
  <2>1. a \in Seq(Bytes) /\ Len(a) <= l /\ (Len(a) >= k - 1 \/ Len(a) = l)
    BY <1>4
  <2>2. w[k] = a \o b
    BY <1>2 DEF ReadsOneByOne
  <2> HIDE DEF a
  <2>3. Len(a) \in Nat
    BY <2>1, LenProperties
  <2>4. ReadsOn(b, data, Len(a))
    BY <2>3, ReadGives
  <2> HIDE DEF b, data
  <2>5. /\ b \in Seq(Bytes) /\ Len(b) \in Nat
        /\ Len(a) >= l => Len(b) = 0
        /\ Len(a) < l => Len(b) >= 1 /\ Len(a) + Len(b) <= l
    BY <2>4, LenProperties DEF ReadsOn
  <2>6. w[k] \in Seq(Bytes) /\ Len(w[k]) = Len(a) + Len(b)
    BY <2>1, <2>2, <2>5, ConcatProperties
  <2>7. k \in Nat /\ k \in 0..n
    BY <1>1
  <2> HIDE DEF l
  <2>8. Len(w[k]) <= l /\ (Len(w[k]) >= k \/ Len(w[k]) = l)
    BY <1>1, <2>1, <2>3, <2>5, <2>6, <2>7
  <2> QED BY <2>6, <2>7, <2>8
<1>5. Good \in SUBSET (0..n)
  OBVIOUS
<1>6. n \in Good
  <2> HIDE DEF Good
  <2> QED BY <1>1, <1>3, <1>4, <1>5, HoldsAtLast
<1>7. w[n] \in Seq(Bytes) /\ Len(w[n]) <= l /\ (Len(w[n]) >= n \/ Len(w[n]) = l)
  BY <1>6
<1>8. Len(w[n]) \in Nat
  BY <1>7, LenProperties
<1>9. Len(w[n]) = l
  <2> HIDE DEF l
  <2> QED BY <1>1, <1>7, <1>8
<1> QED BY <1>2, <1>9 DEF ReadsOneByOne, n

-----------------------------------------------------------------------------
(* What the invariant says of the properties.                              *)

LEMMA ForksShareIt ==
  ASSUME ForksIInv, DesktopIInv, SharedIInv
  PROVE  ForksAreShared
<1>1. ASSUME NEW r \in DOMAIN forks, forks[r].file # None
      PROVE  LET f == forks[r]
                 told == FileParms(f.file)
             IN  /\ f.rel = f.file /\ GetForkParms(r) = told
                 /\ f.resource => Shared(f.file) = f.copy /\ copies[f.copy].rel = f.file
                 /\ f.resource \in told.open
                 /\ "read" \in f.access => \A newline \in Bytes \cup {None} :
                      /\ Len(ReadThrough(r, newline)) = told.length[f.resource]
                      /\ \A offset \in 0..Longest :
                           (Read(r, offset, QuantumSize, None).result = "eofErr")
                             <=> offset + QuantumSize > told.length[f.resource]
  <2> DEFINE f == forks[r]
             told == FileParms(f.file)
  <2>1. f.file = f.rel /\ f.resource \in BOOLEAN
    BY DEF SharedIInv, Together, ForksIInv, Held
  <2>2. f.resource => /\ f.rel \in DOMAIN resources /\ resources[f.rel] = f.copy
                      /\ f.copy \in DOMAIN copies /\ copies[f.copy].rel = f.rel
    BY DEF SharedIInv, Together, ForksIInv, Held
  <2>3. f.copy \in DOMAIN copies => f.copy # None
    BY FolderAssumption DEF ForksIInv, Held
  <2>4. f.resource => Shared(f.file) = f.copy /\ copies[f.copy].rel = f.file
    BY <2>1, <2>2 DEF Shared
  <2>5. GetForkParms(r) = told
    BY <2>1 DEF GetForkParms
  <2>6. f.resource \in told.open
    BY <2>1 DEF FileParms, OpenForks
  <2>7. told.length[f.resource] = Len(DataOf(f))
    <3>1. told.length = [resource \in BOOLEAN |->
             IF resource THEN ResourceLength(f.file) ELSE Len(host[f.file].data)]
      BY DEF FileParms
    <3>2. CASE f.resource
      <4>1. ResourceLength(f.file) = Len(copies[f.copy].data)
        BY <2>2, <2>3, <2>4, <3>2 DEF ResourceLength
      <4> QED BY <2>1, <3>1, <3>2, <4>1 DEF DataOf
    <3>3. CASE ~f.resource
      BY <1>1, <2>1, <3>1, <3>3 DEF DataOf
    <3> QED BY <3>2, <3>3
  <2>8. DataOf(f) \in Content
    BY DataOfIs
  <2>9. None \notin Bytes
    BY FolderAssumption
  <2>10. ASSUME "read" \in f.access, NEW newline
         PROVE  /\ Len(ReadThrough(r, newline)) = Len(DataOf(f))
                /\ \A offset \in 0..Longest :
                     (Read(r, offset, QuantumSize, None).result = "eofErr")
                       <=> offset + QuantumSize > Len(DataOf(f))
    <3>1. Len(ReadThrough(r, newline)) = Len(DataOf(f))
      BY <2>8, <2>10, ReadThroughIs
    <3>2. ASSUME NEW offset \in 0..Longest
          PROVE  (Read(r, offset, QuantumSize, None).result = "eofErr")
                   <=> offset + QuantumSize > Len(DataOf(f))
      <4>1. offset \in Nat
        BY FolderAssumption
      <4> QED BY <2>8, <2>9, <2>10, <4>1, ReadGives
    <3> QED BY <3>1, <3>2
  <2> HIDE DEF told
  <2>11. "read" \in f.access => \A newline \in Bytes \cup {None} :
            /\ Len(ReadThrough(r, newline)) = told.length[f.resource]
            /\ \A offset \in 0..Longest :
                 (Read(r, offset, QuantumSize, None).result = "eofErr")
                   <=> offset + QuantumSize > told.length[f.resource]
    BY <2>7, <2>10
  <2> QED BY <2>1, <2>4, <2>5, <2>6, <2>11 DEF told
<1>2. OpenTogether
  BY <1>1 DEF OpenTogether
<1>3. DenyModesHold
  BY DEF DenyModesHold, SharedIInv, Agree, Together
<1> QED BY <1>2, <1>3 DEF ForksAreShared

LEMMA MetadataThere ==
  ASSUME ForksIInv, DesktopIInv, SharedIInv
  PROVE  MetadataFollows
<1> SUFFICES ASSUME NEW p \in DOMAIN truth, truth[p].own, ObjectThere(p)
             PROVE  /\ Metadata(p).finder = truth[p].meta.finder
                    /\ IF OpenFor(p) THEN copies[Shared(p)].data = truth[p].meta.resource
                       ELSE Metadata(p).resource = truth[p].meta.resource
  BY DEF MetadataFollows
<1>1. Seen(p)
  BY DEF ObjectThere, Seen
<1>2. MetaOf(truth[p].meta, p, side, resources, copies)
  BY <1>1 DEF SharedIInv, MetaIs
<1>3. OpenFor(p) <=> p \in DOMAIN resources
  BY DEF OpenFor, SharedIInv, Together
<1>4. p \in DOMAIN resources => Shared(p) = resources[p]
  BY DEF Shared
<1> QED BY <1>2, <1>3, <1>4 DEF MetaOf, Metadata

-----------------------------------------------------------------------------
IInv == NumbersIInv /\ ForksIInv

LEMMA Inductive == IInv /\ [Next]_vars => IInv'
<1> SUFFICES ASSUME NumbersIInv, ForksIInv, [Next]_vars
             PROVE  NumbersIInv' /\ ForksIInv'
  BY DEF IInv
<1>1. CASE CatalogCall
  BY <1>1, CatalogNumbers, CatalogForks
<1>2. CASE ForkCall
  BY <1>2, ForkNumbers, ForkForks
<1>3. CASE DesktopCall
  BY <1>3, DesktopNumbers, OtherForks
<1>4. CASE SessionCall
  <2>1. IsFiniteSet(DOMAIN forks)
    BY HeldFinite DEF ForksIInv, Held
  <2> QED BY <1>4, <2>1, SessionNumbers, SessionForks
<1>5. CASE HostActs
  BY <1>5, HostNumbers, OtherForks
<1>6. CASE UNCHANGED vars
  BY <1>6, StillNumbers, ForksStay DEF vars, forkVars
<1> QED BY <1>1, <1>2, <1>3, <1>4, <1>5, <1>6 DEF Next

LEMMA Initially == Init => IInv
  BY InitNumbers, InitForks DEF IInv

LEMMA DesktopInductive ==
  ToldApart /\ IInv /\ DesktopIInv /\ [Next]_vars => DesktopIInv'
<1> SUFFICES ASSUME ToldApart, NumbersIInv, ForksIInv, DesktopIInv, [Next]_vars
             PROVE  DesktopIInv'
  BY DEF IInv
<1>1. CASE CatalogCall
  BY <1>1, CatalogDesk
<1>2. CASE ForkCall
  BY <1>2, ForkDesk
<1>3. CASE DesktopCall
  BY <1>3, DesktopDesk
<1>4. CASE SessionCall
  <2>1. IsFiniteSet(DOMAIN forks)
    BY HeldFinite DEF ForksIInv, Held
  <2> QED BY <1>4, <2>1, SessionDesk
<1>5. CASE HostActs
  BY <1>5, HostDesk
<1>6. CASE UNCHANGED vars
  BY <1>6, SameDeskSelf, SameFolderSelf, StillDesk DEF vars, folderVars, deskVars
<1> QED BY <1>1, <1>2, <1>3, <1>4, <1>5, <1>6 DEF Next

\* The host takes nothing a session has open, and the AppleDouble files go with
\* what the server renames.
HostKeeps == ~HostTakesOpen /\ RefusesBeside = {}

LEMMA SharedInductive ==
  ToldApart /\ HostKeeps /\ IInv /\ DesktopIInv /\ SharedIInv /\ [Next]_vars => SharedIInv'
<1> SUFFICES ASSUME ToldApart, ~HostTakesOpen, RefusesBeside = {}, NumbersIInv, ForksIInv,
                    DesktopIInv, SharedIInv, [Next]_vars
             PROVE  SharedIInv'
  BY DEF IInv, HostKeeps
<1>1. CASE CatalogCall
  BY <1>1, CatalogShared
<1>2. CASE ForkCall
  BY <1>2, ForkShared
<1>3. CASE DesktopCall
  BY <1>3, DesktopShared
<1>4. CASE SessionCall
  BY <1>4, SessionShared
<1>5. CASE HostActs
  BY <1>5, HostShared
<1>6. CASE UNCHANGED vars
  BY <1>6 DEF vars, folderVars, forkVars, SharedIInv
<1> QED BY <1>1, <1>2, <1>3, <1>4, <1>5, <1>6 DEF Next

\* A number handed out leads to what it was given for, wherever that went.
THEOREM NumbersLeadThere == Spec => []IdsFollow
<1>1. IInv => IdsFollow
  BY NumbersFollow DEF IInv
<1> QED BY Initially, Inductive, <1>1, PTL DEF Spec

\* Who closes a session leaves no fork open, and the copies of the resource
\* forks are counted right.
THEOREM ForksAreClosed == Spec => []NothingLeftOpen
<1>1. IInv => NothingLeftOpen
  BY NothingOpen DEF IInv
<1> QED BY Initially, Inductive, <1>1, PTL DEF Spec

\* What the Finder keeps of a file goes with it: the machine is told the
\* comment and the applications it gave, wherever the file was moved to, if it
\* tells the names of a folder apart.
THEOREM DesktopIsTrue == ToldApart => (Spec => []DesktopFollows)
<1>1. ToldApart /\ Init => IInv /\ DesktopIInv
  BY Initially, InitDesk
<1>2. ToldApart /\ (IInv /\ DesktopIInv) /\ [Next]_vars => (IInv /\ DesktopIInv)'
  BY Inductive, DesktopInductive
<1>3. DesktopIInv => DesktopFollows
  BY DesktopTold
<1>4. ASSUME ToldApart PROVE Spec => []DesktopFollows
  BY <1>1, <1>2, <1>3, <1>4, PTL DEF Spec
<1> QED BY <1>4

\* Who has a fork of a file open shares it with the others who have: it has the
\* path the file went to, and is told and read as long as it is, whatever is
\* denied is denied, if the host keeps what is the server's and tells the names
\* of a folder apart.
THEOREM ForksShared == ToldApart /\ HostKeeps => (Spec => []ForksAreShared)
<1> DEFINE All == IInv /\ DesktopIInv /\ SharedIInv
<1>1. ToldApart /\ Init => All
  BY Initially, InitDesk, InitShared
<1>2. ToldApart /\ HostKeeps /\ All /\ [Next]_vars => All'
  BY Inductive, DesktopInductive, SharedInductive
<1>3. All => ForksAreShared
  BY ForksShareIt DEF IInv
<1> HIDE DEF All
<1>4. ASSUME ToldApart, HostKeeps PROVE Spec => []ForksAreShared
  BY <1>1, <1>2, <1>3, <1>4, PTL DEF Spec
<1> QED BY <1>4

\* The Finder information and the resource fork the machine wrote are beside
\* the file wherever it went, or in the copy that is open, under the same; a
\* rename of the AppleDouble file that fails goes unnoticed, and is left out
\* (HostKeeps).
THEOREM MetadataIsTrue == ToldApart /\ HostKeeps => (Spec => []MetadataFollows)
<1> DEFINE All == IInv /\ DesktopIInv /\ SharedIInv
<1>1. ToldApart /\ Init => All
  BY Initially, InitDesk, InitShared
<1>2. ToldApart /\ HostKeeps /\ All /\ [Next]_vars => All'
  BY Inductive, DesktopInductive, SharedInductive
<1>3. All => MetadataFollows
  BY MetadataThere DEF IInv
<1> HIDE DEF All
<1>4. ASSUME ToldApart, HostKeeps PROVE Spec => []MetadataFollows
  BY <1>1, <1>2, <1>3, <1>4, PTL DEF Spec
<1> QED BY <1>4

=============================================================================
