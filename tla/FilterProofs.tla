----------------------------- MODULE FilterProofs -----------------------------
(***************************************************************************)
(* Theorems about Filter, for any globs, any names and any filter file:    *)
(* globMatch takes globs for what they mean, stars at the end apart; the   *)
(* whitelist has a best match, and what decides for a function does not    *)
(* depend on the entries that come after it.                               *)
(***************************************************************************)
EXTENDS Filter, FiniteSetTheorems, SequenceTheorems,
        WellFoundedInduction, TLAPS

(* A non-empty set of naturals has a least element.                        *)
LEMMA Least ==
  ASSUME NEW T \in SUBSET Nat, T # {}
  PROVE  \E x \in T : \A y \in T : x <= y
  <1> DEFINE R == {ss \in Nat \X Nat : ss[1] < ss[2]}
  <1>1. IsWellFoundedOn(R, Nat)
    <2>1. R = OpToRel(<, Nat)
      BY DEF OpToRel
    <2> QED
      BY <2>1, NatLessThanWellFounded
  <1> HIDE DEF R
  <1>2. PICK x \in T : \A y \in T : ~(<<y, x>> \in R)
    <2> T \subseteq Nat
      OBVIOUS
    <2> QED
      BY <1>1, WFMin, Zenon
  <1>3. ASSUME NEW y \in T PROVE x <= y
    <2>1. x \in Nat /\ y \in Nat /\ <<y, x>> \notin R
      BY <1>2
    <2> QED
      BY <2>1 DEF R
  <1> QED
    BY <1>3

-----------------------------------------------------------------------------
(* globMatch.                                                              *)

(* What globMatch asks of the call in which i characters of the glob and j *)
(* of the name are behind.                                                 *)
Turn(glob, s, m, i, j) ==
  IF i = Len(glob) \/ j = Len(s)
  THEN \/ i = Len(glob) /\ j = Len(s)
       \/ i = Len(glob) - 1 /\ glob[i + 1] = Star
  ELSE IF glob[i + 1] = Star
  THEN m[<<i + 1, j + 1>>] \/ m[<<i, j + 1>>] \/ m[<<i + 1, j>>]
  ELSE glob[i + 1] = s[j + 1] /\ m[<<i + 1, j + 1>>]

(* The calls of globMatch.                                                 *)
Calls(glob, s, m) ==
  m = [p \in (0 .. Len(glob)) \X (0 .. Len(s)) |-> Turn(glob, s, m, p[1], p[2])]

(* globMatch is the first call, if there are such calls.                   *)
LEMMA GlobMatchIs ==
  ASSUME NEW glob, NEW s, NEW h, Calls(glob, s, h)
  PROVE  \E m : Calls(glob, s, m) /\ GlobMatch(glob, s) = m[<<0, 0>>]
  <1> DEFINE m == CHOOSE m : Calls(glob, s, m)
  <1>1. Calls(glob, s, m)
    OBVIOUS
  <1>2. GlobMatch(glob, s) = m[<<0, 0>>]
    BY DEF GlobMatch, Calls, Turn
  <1> QED
    BY <1>1, <1>2

(* There is one way only to answer all calls.                              *)
LEMMA CallsUnique ==
  ASSUME NEW glob \in Seq(Nat), NEW s \in Seq(Nat), NEW m, Calls(glob, s, m),
         NEW h, Calls(glob, s, h),
         NEW i \in 0 .. Len(glob), NEW j \in 0 .. Len(s)
  PROVE  m[<<i, j>>] = h[<<i, j>>]
  <1> DEFINE n == Len(glob)
             l == Len(s)
  <1>1. n \in Nat /\ l \in Nat
    OBVIOUS
  <1>2. /\ m = [p \in (0 .. n) \X (0 .. l) |-> Turn(glob, s, m, p[1], p[2])]
        /\ h = [p \in (0 .. n) \X (0 .. l) |-> Turn(glob, s, h, p[1], p[2])]
    BY DEF Calls
  <1>3. ASSUME NEW a \in 0 .. n, NEW b \in 0 .. l
        PROVE  m[<<a, b>>] = Turn(glob, s, m, a, b) /\ h[<<a, b>>] = Turn(glob, s, h, a, b)
    <2>1. <<a, b>> \in (0 .. n) \X (0 .. l)
      OBVIOUS
    <2> HIDE DEF n, l
    <2>2. m[<<a, b>>] = Turn(glob, s, m, a, b)
      BY <1>2, <2>1
    <2>3. h[<<a, b>>] = Turn(glob, s, h, a, b)
      BY <1>2, <2>1
    <2> QED
      BY <2>2, <2>3
  <1>4. ASSUME NEW a \in 0 .. n, NEW b \in 0 .. l,
               a # n /\ b # l =>
                 /\ m[<<a + 1, b + 1>>] = h[<<a + 1, b + 1>>] /\ m[<<a, b + 1>>] = h[<<a, b + 1>>]
                 /\ m[<<a + 1, b>>] = h[<<a + 1, b>>]
        PROVE  Turn(glob, s, m, a, b) = Turn(glob, s, h, a, b)
    BY <1>4 DEF Turn
  <1>5. i \in 0 .. n /\ j \in 0 .. l
    OBVIOUS
  <1> HIDE DEF n, l
  <1>6. SUFFICES ASSUME m[<<i, j>>] # h[<<i, j>>] PROVE FALSE
    OBVIOUS
  <1> DEFINE T == {k \in Nat : \E a \in 0 .. n, b \in 0 .. l :
                                 (n - a) + (l - b) = k /\ m[<<a, b>>] # h[<<a, b>>]}
  <1>7. (n - i) + (l - j) \in T
    <2>1. (n - i) + (l - j) \in Nat
      BY <1>1, <1>5
    <2> QED
      BY <2>1, <1>5, <1>6
  <1>8. PICK k \in T : \A y \in T : k <= y
    <2> T \subseteq Nat /\ T # {}
      BY <1>7
    <2> HIDE DEF T
    <2> QED
      BY Least
  <1>9. PICK a \in 0 .. n, b \in 0 .. l : (n - a) + (l - b) = k /\ m[<<a, b>>] # h[<<a, b>>]
    BY <1>8
  <1>10. ASSUME NEW c \in 0 .. n, NEW d \in 0 .. l, c + d > a + b PROVE m[<<c, d>>] = h[<<c, d>>]
    <2>1. (n - c) + (l - d) \in Nat /\ (n - c) + (l - d) < k
      BY <1>1, <1>9, <1>10
    <2>2. (n - c) + (l - d) \notin T
      <3> HIDE DEF T
      <3>1. k \in Nat
        BY <1>8 DEF T
      <3> QED
        BY <2>1, <1>8, <3>1
    <2> QED
      BY <2>1, <2>2
  <1>11. ASSUME a # n /\ b # l
         PROVE  /\ m[<<a + 1, b + 1>>] = h[<<a + 1, b + 1>>] /\ m[<<a, b + 1>>] = h[<<a, b + 1>>]
                /\ m[<<a + 1, b>>] = h[<<a + 1, b>>]
    <2>1. a + 1 \in 0 .. n /\ b + 1 \in 0 .. l
      BY <1>1, <1>11
    <2> HIDE DEF T
    <2>2. m[<<a + 1, b + 1>>] = h[<<a + 1, b + 1>>]
      BY <1>1, <2>1, <1>10
    <2>3. m[<<a, b + 1>>] = h[<<a, b + 1>>]
      BY <1>1, <2>1, <1>10
    <2>4. m[<<a + 1, b>>] = h[<<a + 1, b>>]
      BY <1>1, <2>1, <1>10
    <2> QED
      BY <2>2, <2>3, <2>4
  <1>12. Turn(glob, s, m, a, b) = Turn(glob, s, h, a, b)
    BY <1>4, <1>11
  <1> QED
    BY <1>3, <1>9, <1>12

(* to says where the i-th to n-th character of the glob end among the first*)
(* l of the name, if j of them are behind.                                 *)
Way(glob, s, n, l, i, j, to) ==
  /\ to \in [i .. n -> j .. l] /\ to[i] = j /\ to[n] = l
  /\ \A k \in i + 1 .. n :
       IF glob[k] = Star THEN to[k] >= to[k - 1]
       ELSE to[k] = to[k - 1] + 1 /\ s[to[k]] = glob[k]

(* What is left of the glob stands for what is left of the name.           *)
Rest(glob, s, n, l, i, j) == \E to : Way(glob, s, n, l, i, j, to)

(* A match is where all is left.                                           *)
LEMMA MatchesIsRest ==
  ASSUME NEW glob \in Seq(Nat), NEW s \in Seq(Nat)
  PROVE  Matches(glob, s) <=> Rest(glob, s, Len(glob), Len(s), 0, 0)
  <1>1. 0 + 1 = 1
    OBVIOUS
  <1>2. ASSUME NEW to \in [0 .. Len(glob) -> 0 .. Len(s)]
        PROVE  Way(glob, s, Len(glob), Len(s), 0, 0, to) <=>
                 /\ to[0] = 0 /\ to[Len(glob)] = Len(s)
                 /\ \A i \in 1 .. Len(glob) :
                      IF glob[i] = Star THEN to[i] >= to[i - 1]
                      ELSE to[i] = to[i - 1] + 1 /\ s[to[i]] = glob[i]
    BY <1>1, Zenon DEF Way
  <1>3. Matches(glob, s) => Rest(glob, s, Len(glob), Len(s), 0, 0)
    BY <1>2, Zenon DEF Matches, Rest
  <1>4. ASSUME Rest(glob, s, Len(glob), Len(s), 0, 0) PROVE Matches(glob, s)
    <2>1. PICK to : Way(glob, s, Len(glob), Len(s), 0, 0, to)
      BY <1>4 DEF Rest
    <2>2. to \in [0 .. Len(glob) -> 0 .. Len(s)]
      BY <2>1, Zenon DEF Way
    <2> QED
      BY <1>2, <2>1, <2>2, Zenon DEF Matches
  <1> QED
    BY <1>3, <1>4

(* Nothing of a glob is left only for nothing of the name.                 *)
LEMMA RestEnd ==
  ASSUME NEW glob, NEW s, NEW n \in Nat, NEW l \in Nat, NEW j \in 0 .. l
  PROVE  Rest(glob, s, n, l, n, j) <=> j = l
  <1>1. Rest(glob, s, n, l, n, j) => j = l
    BY DEF Rest, Way
  <1>2. ASSUME j = l PROVE Rest(glob, s, n, l, n, j)
    <2> DEFINE to == [k \in n .. n |-> l]
    <2>1. to \in [n .. n -> j .. l] /\ to[n] = l /\ n + 1 .. n = {}
      BY <1>2
    <2> HIDE DEF to
    <2>2. Way(glob, s, n, l, n, j, to)
      BY <2>1, <1>2 DEF Way
    <2> QED
      BY <2>2 DEF Rest
  <1> QED
    BY <1>1, <1>2

(* The steps of the glob go up.                                            *)
LEMMA WayUp ==
  ASSUME NEW glob, NEW s, NEW n \in Nat, NEW l \in Nat, NEW i \in 0 .. n,
         NEW j \in 0 .. l, NEW to, Way(glob, s, n, l, i, j, to), i < n,
         NEW k \in i + 1 .. n
  PROVE  to[k] \in to[i + 1] .. l
  <1> DEFINE T == {a \in Nat : a \in i + 1 .. n /\ to[a] \notin to[i + 1] .. l}
  <1>1. \A a \in i .. n : to[a] \in j .. l
    BY DEF Way
  <1>2. SUFFICES ASSUME to[k] \notin to[i + 1] .. l PROVE FALSE
    OBVIOUS
  <1>3. PICK a \in T : \A b \in T : a <= b
    <2> T \subseteq Nat /\ T # {}
      BY <1>2
    <2> HIDE DEF T
    <2> QED
      BY Least
  <1>4. a \in i + 1 .. n /\ to[a] \in j .. l
    BY <1>1
  <1>5. CASE a = i + 1
    BY <1>4, <1>5
  <1>6. CASE a # i + 1
    <2>1. a - 1 \in i + 1 .. n /\ a - 1 \notin T
      BY <1>3, <1>6
    <2>2. to[a - 1] \in to[i + 1] .. l
      BY <2>1
    <2>3. to[a] >= to[a - 1]
      <3>1. to[a - 1] \in j .. l /\ to[a] \in j .. l
        BY <1>1, <1>4, <2>1
      <3> QED
        BY <1>4, <3>1 DEF Way
    <2>4. to[i + 1] \in j .. l /\ to[a - 1] \in j .. l
      BY <1>1, <2>1
    <2> QED
      BY <1>3, <1>4, <2>2, <2>3, <2>4
  <1> QED
    BY <1>5, <1>6

(* The rest of a way.                                                      *)
LEMMA WayNext ==
  ASSUME NEW glob, NEW s, NEW n \in Nat, NEW l \in Nat, NEW i \in 0 .. n,
         NEW j \in 0 .. l, NEW to, Way(glob, s, n, l, i, j, to), i < n
  PROVE  /\ to[i + 1] \in j .. l
         /\ Rest(glob, s, n, l, i + 1, to[i + 1])
  <1> DEFINE up == [k \in i + 1 .. n |-> to[k]]
  <1>1. to[i + 1] \in j .. l
    BY DEF Way
  <1>2. up \in [i + 1 .. n -> to[i + 1] .. l] /\ up[i + 1] = to[i + 1] /\ up[n] = l
    <2>1. \A k \in i + 1 .. n : to[k] \in to[i + 1] .. l
      BY WayUp
    <2>2. to[n] = l
      BY DEF Way
    <2> QED
      BY <2>1, <2>2
  <1>3. ASSUME NEW k \in i + 2 .. n
        PROVE  IF glob[k] = Star THEN up[k] >= up[k - 1]
               ELSE up[k] = up[k - 1] + 1 /\ s[up[k]] = glob[k]
    <2>1. k \in i + 1 .. n /\ k - 1 \in i + 1 .. n
      OBVIOUS
    <2>2. up[k] = to[k] /\ up[k - 1] = to[k - 1]
      BY <2>1
    <2> HIDE DEF up
    <2> QED
      BY <2>1, <2>2 DEF Way
  <1> HIDE DEF up
  <1>4. (i + 1) + 1 = i + 2
    OBVIOUS
  <1>5. Way(glob, s, n, l, i + 1, to[i + 1], up)
    BY <1>2, <1>3, <1>4 DEF Way
  <1> QED
    BY <1>1, <1>5 DEF Rest

(* A way with one more character before it.                                *)
LEMMA WayBefore ==
  ASSUME NEW glob, NEW s, NEW n \in Nat, NEW l \in Nat, NEW i \in 0 .. n, i < n,
         NEW j \in 0 .. l, NEW b \in j .. l, NEW to,
         Way(glob, s, n, l, i + 1, b, to),
         IF glob[i + 1] = Star THEN b >= j ELSE b = j + 1 /\ s[b] = glob[i + 1]
  PROVE  Rest(glob, s, n, l, i, j)
  <1> DEFINE down == [k \in i .. n |-> IF k = i THEN j ELSE to[k]]
  <1>1. \A k \in i + 1 .. n : to[k] \in b .. l
    BY DEF Way
  <1>2. down \in [i .. n -> j .. l] /\ down[i] = j /\ down[n] = l
    <2>1. to[n] = l
      BY DEF Way
    <2>2. \A k \in i .. n : k # i => k \in i + 1 .. n
      OBVIOUS
    <2>3. \A k \in i .. n : (IF k = i THEN j ELSE to[k]) \in j .. l
      BY <1>1, <2>2
    <2> QED
      BY <2>1, <2>3
  <1>3. ASSUME NEW k \in i + 1 .. n
        PROVE  IF glob[k] = Star THEN down[k] >= down[k - 1]
               ELSE down[k] = down[k - 1] + 1 /\ s[down[k]] = glob[k]
    <2>1. CASE k = i + 1
      <3>1. down[k] = b /\ down[k - 1] = j
        BY <2>1 DEF Way
      <3> HIDE DEF down
      <3> QED
        BY <3>1, <2>1
    <2>2. CASE k # i + 1
      <3>1. k \in (i + 1) + 1 .. n
        BY <2>2
      <3>2. down[k] = to[k] /\ down[k - 1] = to[k - 1]
        BY <2>2
      <3> HIDE DEF down
      <3> QED
        BY <3>1, <3>2 DEF Way
    <2> QED
      BY <2>1, <2>2
  <1> HIDE DEF down
  <1>4. Way(glob, s, n, l, i, j, down)
    BY <1>2, <1>3 DEF Way
  <1> QED
    BY <1>4 DEF Rest

(* A way whose first character of the glob is a star can begin later.      *)
LEMMA WayLater ==
  ASSUME NEW glob, NEW s, NEW n \in Nat, NEW l \in Nat, NEW i \in 0 .. n, i < n,
         glob[i + 1] = Star,
         NEW j \in 0 .. l, NEW to, Way(glob, s, n, l, i, j, to), to[i + 1] > j
  PROVE  j < l /\ Rest(glob, s, n, l, i, j + 1)
  <1> DEFINE b == to[i + 1]
  <1>1. b \in j .. l /\ Rest(glob, s, n, l, i + 1, b)
    BY WayNext
  <1>2. b > j
    OBVIOUS
  <1> HIDE DEF b
  <1>3. j < l /\ b \in j + 1 .. l /\ j + 1 \in 0 .. l /\ b >= j + 1
    BY <1>1, <1>2
  <1>4. PICK up : Way(glob, s, n, l, i + 1, b, up)
    BY <1>1 DEF Rest
  <1>5. Rest(glob, s, n, l, i, j + 1)
    BY <1>3, <1>4, WayBefore
  <1> QED
    BY <1>3, <1>5

(* A star stands for nothing, or for a character and more.                 *)
LEMMA RestStar ==
  ASSUME NEW glob, NEW s, NEW n \in Nat, NEW l \in Nat, NEW i \in 0 .. n, i < n,
         NEW j \in 0 .. l, glob[i + 1] = Star
  PROVE  Rest(glob, s, n, l, i, j) <=>
           \/ Rest(glob, s, n, l, i + 1, j)
           \/ j < l /\ Rest(glob, s, n, l, i, j + 1)
  <1>1. ASSUME Rest(glob, s, n, l, i, j)
        PROVE  \/ Rest(glob, s, n, l, i + 1, j)
               \/ j < l /\ Rest(glob, s, n, l, i, j + 1)
    <2>1. PICK to : Way(glob, s, n, l, i, j, to)
      BY <1>1 DEF Rest
    <2>2. to[i + 1] \in j .. l /\ Rest(glob, s, n, l, i + 1, to[i + 1])
      BY <2>1, WayNext
    <2>3. CASE to[i + 1] = j
      BY <2>2, <2>3
    <2>4. CASE to[i + 1] > j
      BY <2>1, <2>4, WayLater
    <2> QED
      BY <2>2, <2>3, <2>4
  <1>2. ASSUME Rest(glob, s, n, l, i + 1, j) PROVE Rest(glob, s, n, l, i, j)
    <2>1. PICK to : Way(glob, s, n, l, i + 1, j, to)
      BY <1>2 DEF Rest
    <2>2. j \in j .. l /\ j >= j
      OBVIOUS
    <2> QED
      BY <2>1, <2>2, WayBefore
  <1>3. ASSUME j < l, Rest(glob, s, n, l, i, j + 1) PROVE Rest(glob, s, n, l, i, j)
    <2>1. PICK to : Way(glob, s, n, l, i, j + 1, to)
      BY <1>3 DEF Rest
    <2>2. j + 1 \in 0 .. l
      BY <1>3
    <2>3. to[i + 1] \in j + 1 .. l /\ Rest(glob, s, n, l, i + 1, to[i + 1])
      BY <2>1, <2>2, WayNext
    <2> DEFINE b == to[i + 1]
    <2>4. b \in j .. l /\ b >= j /\ Rest(glob, s, n, l, i + 1, b)
      BY <2>3
    <2> HIDE DEF b
    <2>5. PICK up : Way(glob, s, n, l, i + 1, b, up)
      BY <2>4 DEF Rest
    <2> QED
      BY <2>4, <2>5, WayBefore
  <1> QED
    BY <1>1, <1>2, <1>3

(* Any other character stands for itself.                                  *)
LEMMA RestLetter ==
  ASSUME NEW glob, NEW s, NEW n \in Nat, NEW l \in Nat, NEW i \in 0 .. n, i < n,
         NEW j \in 0 .. l, glob[i + 1] # Star
  PROVE  Rest(glob, s, n, l, i, j) <=>
           j < l /\ glob[i + 1] = s[j + 1] /\ Rest(glob, s, n, l, i + 1, j + 1)
  <1>1. ASSUME Rest(glob, s, n, l, i, j)
        PROVE  j < l /\ glob[i + 1] = s[j + 1] /\ Rest(glob, s, n, l, i + 1, j + 1)
    <2>1. PICK to : Way(glob, s, n, l, i, j, to)
      BY <1>1 DEF Rest
    <2>2. to[i + 1] \in j .. l /\ Rest(glob, s, n, l, i + 1, to[i + 1])
      BY <2>1, WayNext
    <2>3. i + 1 \in i + 1 .. n /\ (i + 1) - 1 = i
      OBVIOUS
    <2>4. to[i + 1] = to[i] + 1 /\ s[to[i + 1]] = glob[i + 1]
      BY <2>1, <2>3 DEF Way
    <2>5. to[i + 1] = j + 1
      BY <2>1, <2>4 DEF Way
    <2> QED
      BY <2>2, <2>4, <2>5
  <1>2. ASSUME j < l, glob[i + 1] = s[j + 1], Rest(glob, s, n, l, i + 1, j + 1)
        PROVE  Rest(glob, s, n, l, i, j)
    <2>1. PICK to : Way(glob, s, n, l, i + 1, j + 1, to)
      BY <1>2 DEF Rest
    <2>2. j + 1 \in j .. l
      BY <1>2
    <2> QED
      BY <1>2, <2>1, <2>2, WayBefore
  <1> QED
    BY <1>1, <1>2

(* At the end of the name only stars can be left.                          *)
LEMMA RestLast ==
  ASSUME NEW glob, NEW s, NEW n \in Nat, NEW l \in Nat, NEW i \in 0 .. n
  PROVE  Rest(glob, s, n, l, i, l) <=> \A k \in i + 1 .. n : glob[k] = Star
  <1>1. ASSUME Rest(glob, s, n, l, i, l), NEW k \in i + 1 .. n PROVE glob[k] = Star
    <2>1. PICK to : Way(glob, s, n, l, i, l, to)
      BY <1>1 DEF Rest
    <2>2. \A a \in i .. n : to[a] = l
      BY <2>1 DEF Way
    <2>3. to[k] = l /\ to[k - 1] = l
      BY <2>2
    <2> QED
      BY <2>1, <2>3 DEF Way
  <1>2. ASSUME \A k \in i + 1 .. n : glob[k] = Star
        PROVE  Rest(glob, s, n, l, i, l)
    <2> DEFINE to == [k \in i .. n |-> l]
    <2>1. to \in [i .. n -> l .. l] /\ to[i] = l /\ to[n] = l
      OBVIOUS
    <2>2. \A k \in i + 1 .. n : to[k] = l /\ to[k - 1] = l
      OBVIOUS
    <2> HIDE DEF to
    <2>3. Way(glob, s, n, l, i, l, to)
      BY <1>2, <2>1, <2>2 DEF Way
    <2> QED
      BY <2>3 DEF Rest
  <1> QED
    BY <1>1, <1>2

(* A glob that does not end in two stars matches what it stands for.       *)
LEMMA GlobMatchesExactly ==
  ASSUME NEW glob \in Seq(Nat), NEW s \in Seq(Nat), ~EndsInStars(glob)
  PROVE  GlobMatch(glob, s) <=> Matches(glob, s)
  <1> DEFINE n == Len(glob)
             l == Len(s)
             R(i, j) == Rest(glob, s, n, l, i, j)
             h == [p \in (0 .. n) \X (0 .. l) |-> R(p[1], p[2])]
  <1>1. n \in Nat /\ l \in Nat
    OBVIOUS
  <1>2. n >= 2 => glob[n] # Star \/ glob[n - 1] # Star
    BY DEF EndsInStars
  <1>3. ASSUME NEW i \in 0 .. n, NEW j \in 0 .. l
        PROVE  h[<<i, j>>] = R(i, j)
    <2> HIDE DEF R
    <2> QED
      OBVIOUS
  <1>4. ASSUME NEW i \in 0 .. n, NEW j \in 0 .. l
        PROVE  R(i, j) = Turn(glob, s, h, i, j)
    <2>1. R(i, j) \in BOOLEAN /\ Turn(glob, s, h, i, j) \in BOOLEAN
      <3>1. \A c \in 0 .. n, d \in 0 .. l : R(c, d) \in BOOLEAN
        BY DEF Rest
      <3>2. \A c \in 0 .. n, d \in 0 .. l : h[<<c, d>>] \in BOOLEAN
        BY <1>3, <3>1
      <3> HIDE DEF h, R
      <3>3. Turn(glob, s, h, i, j) \in BOOLEAN
        BY <1>1, <3>2 DEF Turn
      <3> QED
        BY <3>1, <3>3
    <2>0. SUFFICES R(i, j) <=> Turn(glob, s, h, i, j)
      <3> DEFINE x == R(i, j)
                 y == Turn(glob, s, h, i, j)
      <3>1. x \in BOOLEAN
        BY <2>1, Zenon
      <3>2. y \in BOOLEAN
        BY <2>1, Zenon
      <3>3. x <=> y
        BY <2>0, Zenon
      <3> HIDE DEF x, y
      <3>4. x = y
        BY <3>1, <3>2, <3>3, Zenon
      <3> QED
        BY <3>4 DEF x, y
    <2>2. CASE i = n
      <3>1. R(i, j) <=> j = l
        BY <1>1, <2>2, RestEnd
      <3> HIDE DEF h, R
      <3>2. Turn(glob, s, h, i, j) <=> j = l
        BY <1>1, <2>2 DEF Turn
      <3> QED
        BY <3>1, <3>2, Zenon
    <2>3. CASE i # n /\ j = l
      <3>1. R(i, j) <=> \A k \in i + 1 .. n : glob[k] = Star
        BY <1>1, <2>3, RestLast
      <3>2. (\A k \in i + 1 .. n : glob[k] = Star) <=> i = n - 1 /\ glob[i + 1] = Star
        <4>1. ASSUME \A k \in i + 1 .. n : glob[k] = Star
              PROVE  i = n - 1 /\ glob[i + 1] = Star
          <5>1. glob[i + 1] = Star /\ glob[n] = Star
            BY <1>1, <2>3, <4>1
          <5>2. ASSUME i # n - 1 PROVE FALSE
            <6>1. n - 1 \in i + 1 .. n /\ n >= 2
              BY <1>1, <2>3, <5>2
            <6> QED
              BY <1>2, <4>1, <5>1, <6>1
          <5> QED
            BY <5>1, <5>2
        <4>2. ASSUME i = n - 1, glob[i + 1] = Star, NEW k \in i + 1 .. n
              PROVE  glob[k] = Star
          <5>1. k = i + 1
            BY <1>1, <4>2
          <5> QED
            BY <4>2, <5>1
        <4> QED
          BY <4>1, <4>2
      <3> HIDE DEF h, R
      <3>3. Turn(glob, s, h, i, j) <=> i = n - 1 /\ glob[i + 1] = Star
        BY <1>1, <2>3 DEF Turn
      <3> QED
        BY <3>1, <3>2, <3>3, Zenon
    <2>4. CASE i # n /\ j # l
      <3>1. i + 1 \in 0 .. n /\ j + 1 \in 0 .. l /\ i < n /\ j < l
        BY <1>1, <2>4
      <3>2. CASE glob[i + 1] = Star
        <4>1. R(i, j) <=> R(i + 1, j) \/ R(i, j + 1)
          BY <1>1, <3>1, <3>2, RestStar
        <4>2. R(i, j + 1) <=> R(i + 1, j + 1) \/ (j + 1 < l /\ R(i, j + 2))
          <5>1. (j + 1) + 1 = j + 2
            OBVIOUS
          <5> QED
            BY <1>1, <3>1, <3>2, <5>1, RestStar
        <4>3. /\ h[<<i + 1, j>>] = R(i + 1, j) /\ h[<<i, j + 1>>] = R(i, j + 1)
              /\ h[<<i + 1, j + 1>>] = R(i + 1, j + 1)
          BY <1>3, <3>1
        <4> HIDE DEF h, R
        <4>4. Turn(glob, s, h, i, j)
                <=> R(i + 1, j + 1) \/ R(i, j + 1) \/ R(i + 1, j)
          BY <2>4, <3>2, <4>3 DEF Turn
        <4> QED
          BY <4>1, <4>2, <4>4, Zenon
      <3>3. CASE glob[i + 1] # Star
        <4>1. R(i, j) <=> glob[i + 1] = s[j + 1] /\ R(i + 1, j + 1)
          BY <1>1, <3>1, <3>3, RestLetter
        <4>2. h[<<i + 1, j + 1>>] = R(i + 1, j + 1)
          BY <1>3, <3>1
        <4> HIDE DEF h, R
        <4>3. Turn(glob, s, h, i, j) <=> glob[i + 1] = s[j + 1] /\ R(i + 1, j + 1)
          BY <2>4, <3>3, <4>2 DEF Turn
        <4> QED
          BY <4>1, <4>3, Zenon
      <3> QED
        BY <3>2, <3>3
    <2> QED
      BY <2>2, <2>3, <2>4
  <1>5. Calls(glob, s, h)
    <2>1. ASSUME NEW p \in (0 .. n) \X (0 .. l)
          PROVE  R(p[1], p[2]) = Turn(glob, s, h, p[1], p[2])
      BY <1>4
    <2>2. h = [p \in (0 .. n) \X (0 .. l) |-> Turn(glob, s, h, p[1], p[2])]
      <3> DEFINE t == [p \in (0 .. n) \X (0 .. l) |-> Turn(glob, s, h, p[1], p[2])]
      <3>1. ASSUME NEW p \in (0 .. n) \X (0 .. l) PROVE h[p] = t[p]
        BY <2>1
      <3>2. /\ h = [p \in (0 .. n) \X (0 .. l) |-> h[p]]
            /\ t = [p \in (0 .. n) \X (0 .. l) |-> t[p]]
        OBVIOUS
      <3> HIDE DEF h, t
      <3>3. h = t
        BY <3>1, <3>2
      <3> QED
        BY <3>3 DEF t
    <2> HIDE DEF h
    <2> QED
      BY <2>2 DEF Calls
  <1>6. PICK m : Calls(glob, s, m) /\ GlobMatch(glob, s) = m[<<0, 0>>]
    <2> HIDE DEF h
    <2> QED
      BY <1>5, GlobMatchIs
  <1>7. 0 \in 0 .. n /\ 0 \in 0 .. l
    BY <1>1
  <1>8. m[<<0, 0>>] = h[<<0, 0>>]
    <2> HIDE DEF h
    <2> QED
      BY <1>5, <1>6, <1>7, CallsUnique
  <1>9. Matches(glob, s) <=> R(0, 0)
    BY MatchesIsRest
  <1> QED
    BY <1>3, <1>6, <1>7, <1>8, <1>9

(* A sequence without its last element.                                    *)
LEMMA FrontIs ==
  ASSUME NEW S, NEW s \in Seq(S), s # <<>>
  PROVE  /\ Front1(s) \in Seq(S) /\ Len(Front1(s)) = Len(s) - 1
         /\ \A k \in 1 .. Len(s) - 1 : Front1(s)[k] = s[k]
  <1> DEFINE l == Len(s) - 1
  <1>1. l \in Nat /\ l <= Len(s)
    OBVIOUS
  <1>2. Front1(s) = SubSeq(s, 1, l)
    BY DEF Front1
  <1> HIDE DEF l
  <1>3. SubSeq(s, 1, l) \in Seq(S)
    BY <1>1
  <1>4. Len(SubSeq(s, 1, l)) = l
    BY <1>1
  <1>5. \A k \in 1 .. l : SubSeq(s, 1, l)[k] = s[k]
    BY <1>1
  <1> QED
    BY <1>2, <1>3, <1>4, <1>5 DEF l

(* Ways do not depend on what is behind them.                              *)
LEMMA FrontMatches ==
  ASSUME NEW glob \in Seq(Nat), glob # <<>>, NEW s \in Seq(Nat), s # <<>>
  PROVE  Matches(Front1(glob), Front1(s))
           <=> Rest(glob, s, Len(glob) - 1, Len(s) - 1, 0, 0)
  <1> DEFINE n == Len(glob) - 1
             l == Len(s) - 1
             g == Front1(glob)
             t == Front1(s)
  <1>1. n \in Nat /\ l \in Nat
    OBVIOUS
  <1>2. g \in Seq(Nat) /\ Len(g) = n /\ \A k \in 1 .. n : g[k] = glob[k]
    BY FrontIs
  <1>3. t \in Seq(Nat) /\ Len(t) = l /\ \A k \in 1 .. l : t[k] = s[k]
    BY FrontIs
  <1>4. Matches(g, t) <=> Rest(g, t, n, l, 0, 0)
    <2> HIDE DEF g, t, n, l
    <2> QED
      BY <1>2, <1>3, MatchesIsRest
  <1> HIDE DEF g, t, n, l
  <1>5. ASSUME NEW to PROVE Way(g, t, n, l, 0, 0, to) <=> Way(glob, s, n, l, 0, 0, to)
    <2>1. ASSUME to \in [0 .. n -> 0 .. l], NEW k \in 0 + 1 .. n
          PROVE  (IF g[k] = Star THEN to[k] >= to[k - 1]
                  ELSE to[k] = to[k - 1] + 1 /\ t[to[k]] = g[k])
                 <=> (IF glob[k] = Star THEN to[k] >= to[k - 1]
                      ELSE to[k] = to[k - 1] + 1 /\ s[to[k]] = glob[k])
      <3>1. g[k] = glob[k] /\ to[k] \in 0 .. l /\ to[k - 1] \in 0 .. l
        BY <1>1, <1>2, <2>1
      <3>2. to[k] = to[k - 1] + 1 => t[to[k]] = s[to[k]]
        BY <1>1, <1>3, <3>1
      <3> QED
        BY <3>1, <3>2
    <2> QED
      BY <2>1, Zenon DEF Way
  <1>6. Rest(g, t, n, l, 0, 0) <=> Rest(glob, s, n, l, 0, 0)
    BY <1>5, Zenon DEF Rest
  <1> QED
    BY <1>4, <1>6 DEF g, t, n, l

(* The calls of globMatch if the glob ends in two stars: with one star left*)
(* it is true, with two or more only if there is something left of the     *)
(* name.                                                                   *)
StarCalls(glob, s) ==
  [p \in (0 .. Len(glob)) \X (0 .. Len(s)) |->
     IF p[1] = Len(glob) THEN p[2] = Len(s)
     ELSE IF p[1] = Len(glob) - 1 THEN TRUE
     ELSE p[2] < Len(s) /\ Rest(glob, s, Len(glob) - 1, Len(s) - 1, p[1], p[2])]

LEMMA StarTurn ==
  ASSUME NEW glob \in Seq(Nat), NEW s \in Seq(Nat), s # <<>>, EndsInStars(glob),
         NEW i \in 0 .. Len(glob), NEW j \in 0 .. Len(s)
  PROVE  StarCalls(glob, s)[<<i, j>>] <=> Turn(glob, s, StarCalls(glob, s), i, j)
  <1> DEFINE n == Len(glob)
             l == Len(s)
             R(a, b) == Rest(glob, s, n - 1, l - 1, a, b)
             h == StarCalls(glob, s)
  <1>1. n \in Nat /\ l \in Nat /\ n >= 2 /\ l >= 1
    BY DEF EndsInStars
  <1>2. glob[n] = Star /\ glob[n - 1] = Star
    BY DEF EndsInStars
  <1>3. ASSUME NEW a \in 0 .. n, NEW b \in 0 .. l
        PROVE  h[<<a, b>>] = IF a = n THEN b = l ELSE IF a = n - 1 THEN TRUE ELSE b < l /\ R(a, b)
    <2>1. <<a, b>> \in (0 .. n) \X (0 .. l)
      OBVIOUS
    <2> HIDE DEF R
    <2> QED
      BY <2>1 DEF StarCalls, R
  <1>10. ASSUME NEW a \in 0 .. n, NEW b \in 0 .. l, a = n - 1
        PROVE  h[<<a, b>>] = TRUE
    <2>1. a # n
      BY <1>1, <1>10
    <2> HIDE DEF h, R
    <2> QED
      BY <1>3, <1>10, <2>1
  <1>4. i \in 0 .. n /\ j \in 0 .. l
    OBVIOUS
  <1>5. \/ i = n
        \/ i = n - 1
        \/ i < n - 1 /\ j = l
        \/ i < n - 1 /\ j < l
    BY <1>1
  <1>6. CASE i = n
    <2>1. h[<<i, j>>] <=> j = l
      BY <1>3, <1>6
    <2> HIDE DEF h, R
    <2>2. Turn(glob, s, h, i, j) <=> j = l
      BY <1>1, <1>6 DEF Turn
    <2> QED
      BY <2>1, <2>2 DEF h
  <1>7. CASE i = n - 1
    <2>1. h[<<i, j>>] = TRUE
      BY <1>1, <1>4, <1>7, <1>10
    <2>2. j # l => j + 1 \in 0 .. l
      BY <1>1
    <2>3. j # l => h[<<i, j + 1>>] = TRUE
      BY <1>1, <1>7, <1>10, <2>2
    <2>4. glob[i + 1] = Star /\ i # n
      BY <1>1, <1>2, <1>7
    <2> HIDE DEF h, R
    <2>5. Turn(glob, s, h, i, j)
      BY <1>7, <2>3, <2>4 DEF Turn
    <2> QED
      BY <2>1, <2>5 DEF h
  <1>8. CASE i < n - 1 /\ j = l
    <2>1. i # n /\ i # n - 1
      BY <1>1, <1>8
    <2>2. ~h[<<i, j>>]
      <3>1. h[<<i, j>>] <=> j < l /\ R(i, j)
        BY <1>3, <1>4, <2>1
      <3> HIDE DEF h, R
      <3> QED
        BY <1>1, <1>8, <3>1
    <2> HIDE DEF h, R
    <2>3. ~Turn(glob, s, h, i, j)
      BY <1>8, <2>1 DEF Turn
    <2> QED
      BY <2>2, <2>3 DEF h
  <1>9. CASE i < n - 1 /\ j < l
    <2>1. /\ i # n /\ i # n - 1 /\ j # l
          /\ i + 1 \in 0 .. n /\ j + 1 \in 0 .. l /\ i \in 0 .. n - 1 /\ i < n - 1
          /\ n - 1 \in Nat /\ l - 1 \in Nat /\ j \in 0 .. l - 1
      BY <1>1, <1>9
    <2>2. h[<<i, j>>] <=> R(i, j)
      BY <1>3, <1>9, <2>1
    <2>3. CASE glob[i + 1] = Star
      <3>1. Turn(glob, s, h, i, j)
              <=> h[<<i + 1, j + 1>>] \/ h[<<i, j + 1>>] \/ h[<<i + 1, j>>]
        <4> HIDE DEF h, R
        <4> QED
          BY <2>1, <2>3 DEF Turn
      <3>2. CASE i + 1 = n - 1
        <4>1. h[<<i + 1, j>>] = TRUE
          BY <1>4, <2>1, <3>2, <1>10
        <4>2. R(i, j)
          <5>1. Rest(glob, s, n - 1, l - 1, n - 1, l - 1)
            <6>1. l - 1 \in 0 .. l - 1
              BY <2>1
            <6> QED
              BY <2>1, <6>1, RestEnd
          <5>2. PICK to : Way(glob, s, n - 1, l - 1, i + 1, l - 1, to)
            BY <5>1, <3>2 DEF Rest
          <5>3. l - 1 \in j .. l - 1 /\ l - 1 >= j
            BY <2>1
          <5> QED
            BY <2>1, <2>3, <5>2, <5>3, WayBefore
        <4> QED
          BY <2>2, <3>1, <4>1, <4>2
      <3>3. CASE i + 1 # n - 1
        <4>1. R(i, j) <=> R(i + 1, j) \/ (j < l - 1 /\ R(i, j + 1))
          BY <2>1, <2>3, RestStar
        <4>2. j < l - 1 => (R(i + 1, j + 1) => R(i, j + 1))
          <5>1. ASSUME j < l - 1 PROVE j + 1 \in 0 .. l - 1
            BY <2>1, <5>1
          <5> QED
            BY <2>1, <2>3, <5>1, RestStar
        <4>3. i + 1 # n
          BY <2>1
        <4>4. h[<<i + 1, j>>] <=> R(i + 1, j)
          BY <1>3, <1>9, <2>1, <3>3, <4>3
        <4>5. h[<<i, j + 1>>] <=> j + 1 < l /\ R(i, j + 1)
          BY <1>3, <2>1
        <4>6. h[<<i + 1, j + 1>>] <=> j + 1 < l /\ R(i + 1, j + 1)
          BY <1>3, <2>1, <3>3, <4>3
        <4>7. j + 1 < l <=> j < l - 1
          BY <1>1, <2>1
        <4> HIDE DEF h, R
        <4> QED
          BY <2>2, <3>1, <4>1, <4>2, <4>4, <4>5, <4>6, <4>7 DEF h
      <3> QED
        BY <3>2, <3>3
    <2>4. CASE glob[i + 1] # Star
      <3>1. i + 1 # n - 1 /\ i + 1 # n
        BY <1>2, <2>1, <2>4
      <3>2. R(i, j) <=> j < l - 1 /\ glob[i + 1] = s[j + 1] /\ R(i + 1, j + 1)
        BY <2>1, <2>4, RestLetter
      <3>3. h[<<i + 1, j + 1>>] <=> j + 1 < l /\ R(i + 1, j + 1)
        BY <1>3, <2>1, <3>1
      <3>4. j + 1 < l <=> j < l - 1
        BY <1>1, <2>1
      <3> HIDE DEF h, R
      <3>5. Turn(glob, s, h, i, j) <=> glob[i + 1] = s[j + 1] /\ h[<<i + 1, j + 1>>]
        BY <2>1, <2>4 DEF Turn
      <3> QED
        BY <2>2, <3>2, <3>3, <3>4, <3>5 DEF h
    <2> QED
      BY <2>3, <2>4
  <1> QED
    BY <1>5, <1>6, <1>7, <1>8, <1>9

(* A glob that ends in two stars or more matches what it stands for without*)
(* its last star, if the name is not empty, and one character of its own.  *)
LEMMA GlobMatchesButLast ==
  ASSUME NEW glob \in Seq(Nat), NEW s \in Seq(Nat), s # <<>>, EndsInStars(glob)
  PROVE  GlobMatch(glob, s) <=> Matches(Front1(glob), Front1(s))
  <1> DEFINE n == Len(glob)
             l == Len(s)
             h == StarCalls(glob, s)
  <1>1. n \in Nat /\ l \in Nat /\ n >= 2 /\ l >= 1 /\ glob # <<>>
    BY DEF EndsInStars
  <1>2. h = [p \in (0 .. n) \X (0 .. l) |-> h[p]]
    BY DEF StarCalls
  <1>3. ASSUME NEW p \in (0 .. n) \X (0 .. l)
        PROVE  h[p] = Turn(glob, s, h, p[1], p[2])
    <2>1. p[1] \in 0 .. n /\ p[2] \in 0 .. l /\ p = <<p[1], p[2]>>
      OBVIOUS
    <2>2. h[p] <=> Turn(glob, s, h, p[1], p[2])
      <3> HIDE DEF h
      <3>1. \A i \in 0 .. n, j \in 0 .. l : h[<<i, j>>] <=> Turn(glob, s, h, i, j)
        BY StarTurn DEF h
      <3>2. h[<<p[1], p[2]>>] <=> Turn(glob, s, h, p[1], p[2])
        BY <2>1, <3>1
      <3> QED
        BY <2>1, <3>2, Zenon
    <2>3. \A q \in (0 .. n) \X (0 .. l) : h[q] \in BOOLEAN
      BY DEF StarCalls, Rest
    <2> HIDE DEF h, n, l
    <2>4. ASSUME NEW i \in 0 .. n, NEW j \in 0 .. l PROVE h[<<i, j>>] \in BOOLEAN
      <3>1. <<i, j>> \in (0 .. n) \X (0 .. l)
        OBVIOUS
      <3> QED
        BY <2>3, <3>1
    <2>5. Turn(glob, s, h, p[1], p[2]) \in BOOLEAN
      BY <1>1, <2>1, <2>4 DEF Turn, n, l
    <2> DEFINE x == h[p]
               y == Turn(glob, s, h, p[1], p[2])
    <2>6. x \in BOOLEAN
      BY <2>3, Zenon
    <2>7. y \in BOOLEAN
      BY <2>5, Zenon
    <2>8. x <=> y
      BY <2>2, Zenon
    <2> HIDE DEF x, y
    <2>9. x = y
      BY <2>6, <2>7, <2>8, Zenon
    <2> QED
      BY <2>9 DEF x, y
  <1>4. Calls(glob, s, h)
    <2> DEFINE t == [p \in (0 .. n) \X (0 .. l) |-> Turn(glob, s, h, p[1], p[2])]
    <2>1. ASSUME NEW p \in (0 .. n) \X (0 .. l) PROVE h[p] = t[p]
      BY <1>3
    <2>2. t = [p \in (0 .. n) \X (0 .. l) |-> t[p]]
      OBVIOUS
    <2> HIDE DEF h, t
    <2>3. h = t
      BY <1>2, <2>1, <2>2
    <2> QED
      BY <2>3 DEF Calls, t
  <1>5. PICK m : Calls(glob, s, m) /\ GlobMatch(glob, s) = m[<<0, 0>>]
    <2> HIDE DEF h
    <2> QED
      BY <1>4, GlobMatchIs
  <1>6. 0 \in 0 .. n /\ 0 \in 0 .. l
    BY <1>1
  <1>7. m[<<0, 0>>] = h[<<0, 0>>]
    <2> HIDE DEF h
    <2> QED
      BY <1>4, <1>5, <1>6, CallsUnique
  <1>8. CASE n = 2
    <2>1. h[<<0, 0>>] = Rest(glob, s, n - 1, l - 1, 0, 0)
      <3>1. <<0, 0>> \in (0 .. n) \X (0 .. l) /\ 0 # n /\ 0 # n - 1 /\ 0 < l
        BY <1>1, <1>6
      <3> QED
        BY <3>1 DEF StarCalls, Rest
    <2> QED
      BY <1>1, <1>5, <1>7, <2>1, FrontMatches
  <1>9. CASE n # 2
    <2>1. h[<<0, 0>>] = Rest(glob, s, n - 1, l - 1, 0, 0)
      <3>1. <<0, 0>> \in (0 .. n) \X (0 .. l) /\ 0 # n /\ 0 # n - 1 /\ 0 < l
        BY <1>1, <1>6
      <3> QED
        BY <3>1 DEF StarCalls, Rest
    <2> QED
      BY <1>1, <1>5, <1>7, <2>1, FrontMatches
  <1> QED
    BY <1>8, <1>9

-----------------------------------------------------------------------------
(* Blacklists.                                                             *)

(* The filter file is one that may be given, or none.                      *)
LEMMA FilterInv == Spec => [](filters \in LoadFilterData)
  <1>1. Init => filters \in LoadFilterData
    BY DEF Init, LoadFilterData
  <1>2. filters \in LoadFilterData /\ [Next]_filters => (filters \in LoadFilterData)'
    BY DEF Next, LoadFilterData
  <1> QED
    BY <1>1, <1>2, PTL DEF Spec

(* The sets of globs and names of a filter file.                           *)
LEMMA FilterTypes ==
  ASSUME NEW fl \in LoadFilterData
  PROVE  /\ fl.loaded \in BOOLEAN
         /\ fl.functionBlacklist \in SUBSET Seq(Nat)
         /\ fl.loaded =>
              /\ fl \in [loaded : {TRUE},
                         functionBlacklist : SUBSET Seq(Nat), fileBlacklist : SUBSET Seq(Nat),
                         fileWhitelist : SUBSET Seq(Nat),
                         functionFilters : {fl.functionFilters}, minimum : SUBSET Nat]
              /\ fl.functionFilters \in
                   [DOMAIN fl.functionFilters -> [events : SUBSET Events, arguments : SUBSET Nat]]
              /\ DOMAIN fl.functionFilters \in SUBSET Seq(Nat)
              /\ IsFiniteSet(DOMAIN fl.functionFilters)
         /\ ~fl.loaded => fl = Null
  <1>1. CASE fl = Null
    <2>1. Null.loaded = FALSE /\ Null.functionBlacklist = {}
      BY DEF Null
    <2> QED
      BY <1>1, <2>1
  <1>2. CASE fl \in FilterFiles
    <2>1. fl \in [loaded : {TRUE},
                  functionBlacklist : SUBSET Seq(Nat), fileBlacklist : SUBSET Seq(Nat),
                  fileWhitelist : SUBSET Seq(Nat),
                  functionFilters : {fl.functionFilters}, minimum : SUBSET Nat]
      BY <1>2, FilterAssumption, Zenon
    <2>2. /\ fl.functionFilters \in
               [DOMAIN fl.functionFilters -> [events : SUBSET Events, arguments : SUBSET Nat]]
          /\ DOMAIN fl.functionFilters \in SUBSET Seq(Nat)
          /\ IsFiniteSet(DOMAIN fl.functionFilters)
      BY <1>2, FilterAssumption, Zenon
    <2>3. fl.loaded = TRUE /\ fl.functionBlacklist \in SUBSET Seq(Nat)
      BY <2>1
    <2> QED
      BY <2>1, <2>2, <2>3
  <1> QED
    BY <1>1, <1>2 DEF LoadFilterData

(* A glob with a star before it.                                           *)
LEMMA StarBefore ==
  ASSUME NEW g \in Seq(Nat)
  PROVE  /\ AnyName \o g \in Seq(Nat) /\ Len(AnyName \o g) = Len(g) + 1
         /\ (AnyName \o g)[1] = Star
         /\ \A k \in 2 .. Len(g) + 1 : (AnyName \o g)[k] = g[k - 1]
  <1>1. AnyName \in Seq(Nat) /\ Len(AnyName) = 1 /\ AnyName[1] = Star
    BY DEF AnyName, Star
  <1> DEFINE n == Len(g)
             c == AnyName \o g
  <1>2. /\ c \in Seq(Nat) /\ Len(c) = 1 + n
        /\ \A i \in 1 .. 1 + n : c[i] = IF i <= 1 THEN AnyName[i] ELSE g[i - 1]
    <2>1. /\ c \in Seq(Nat) /\ Len(c) = Len(AnyName) + Len(g)
          /\ \A i \in 1 .. Len(AnyName) + Len(g) :
               c[i] = IF i <= Len(AnyName) THEN AnyName[i] ELSE g[i - Len(AnyName)]
      BY <1>1, ConcatProperties, Zenon
    <2> HIDE DEF c
    <2> QED
      BY <1>1, <2>1
  <1>3. n \in Nat
    OBVIOUS
  <1> HIDE DEF n, c
  <1>4. Len(c) = n + 1 /\ c[1] = Star
    BY <1>1, <1>2, <1>3
  <1>5. ASSUME NEW k \in 2 .. n + 1 PROVE c[k] = g[k - 1]
    BY <1>2, <1>3
  <1> QED
    BY <1>2, <1>4, <1>5 DEF n, c

LEMMA StarBeforeFront ==
  ASSUME NEW g \in Seq(Nat), EndsInStars(AnyName \o g)
  PROVE  Front1(AnyName \o g) = AnyName \o Front1(g)
  <1> DEFINE n == Len(g)
             c == AnyName \o g
             f == Front1(g)
             d == AnyName \o f
  <1>1. c \in Seq(Nat) /\ Len(c) = n + 1 /\ c[1] = Star /\ \A k \in 2 .. n + 1 : c[k] = g[k - 1]
    BY StarBefore
  <1>2. n \in Nat /\ n >= 1 /\ g # <<>> /\ c # <<>>
    BY <1>1 DEF EndsInStars
  <1>3. /\ f \in Seq(Nat) /\ Len(f) = n - 1 /\ \A k \in 1 .. n - 1 : f[k] = g[k]
    BY <1>2, FrontIs
  <1>4. /\ d \in Seq(Nat) /\ Len(d) = Len(f) + 1 /\ d[1] = Star
        /\ \A k \in 2 .. Len(f) + 1 : d[k] = f[k - 1]
    <2> HIDE DEF f
    <2> QED
      BY <1>3, StarBefore
  <1>5. /\ Front1(c) \in Seq(Nat) /\ Len(Front1(c)) = Len(c) - 1
        /\ \A k \in 1 .. Len(c) - 1 : Front1(c)[k] = c[k]
    <2> HIDE DEF c
    <2> QED
      BY <1>1, <1>2, FrontIs
  <1> HIDE DEF n, c, f, d
  <1>6. /\ Len(Front1(c)) = n /\ \A k \in 1 .. n : Front1(c)[k] = c[k]
    BY <1>1, <1>2, <1>5
  <1>7. Len(d) = n /\ \A k \in 2 .. n : d[k] = f[k - 1]
    BY <1>2, <1>3, <1>4
  <1>8. ASSUME NEW k \in 1 .. n PROVE Front1(c)[k] = d[k]
    <2>1. CASE k = 1
      BY <1>1, <1>2, <1>4, <1>6, <2>1
    <2>2. CASE k # 1
      <3>1. k \in 2 .. n /\ k \in 2 .. n + 1 /\ k - 1 \in 1 .. n - 1
        BY <1>2, <2>2
      <3>2. Front1(c)[k] = g[k - 1]
        BY <1>1, <1>6, <3>1
      <3>3. d[k] = g[k - 1]
        BY <1>3, <1>7, <3>1
      <3> QED
        BY <3>2, <3>3
    <2> QED
      BY <2>1, <2>2
  <1>9. Front1(c) = d
    BY <1>4, <1>5, <1>6, <1>7, <1>8, SeqEqual
  <1> QED
    BY <1>9 DEF c, d, f

(* A function is blacklisted if one of the globs matches the end of its    *)
(* name; only stars at the end of a glob, two or more, do not stand for the*)
(* empty string.                                                           *)
THEOREM BlacklistIsBySuffix == Spec => []BlacklistedBySuffix
  <1>1. ASSUME filters \in LoadFilterData PROVE BlacklistedBySuffix
    <2>1. SUFFICES ASSUME NEW name \in Names
                   PROVE  CheckFunctionBlacklist(filters, name) <=>
                            /\ filters.loaded
                            /\ \E g \in filters.functionBlacklist :
                                 IF EndsInStars(AnyName \o g)
                                 THEN Matches(AnyName \o Front1(g), Front1(name))
                                 ELSE Matches(AnyName \o g, name)
      BY Zenon DEF BlacklistedBySuffix
    <2>2. name \in Seq(Nat) /\ name # <<>>
      <3>1. name \in Seq(Nat \ {Star}) /\ name # <<>>
        BY FilterAssumption
      <3> QED
        BY <3>1
    <2>3. ASSUME NEW g \in filters.functionBlacklist
          PROVE  GlobMatch(AnyName \o g, name) <=>
                   IF EndsInStars(AnyName \o g)
                   THEN Matches(AnyName \o Front1(g), Front1(name))
                   ELSE Matches(AnyName \o g, name)
      <3>1. g \in Seq(Nat)
        BY <1>1, <2>3, FilterTypes
      <3>2. AnyName \o g \in Seq(Nat)
        BY <3>1, StarBefore
      <3>3. CASE EndsInStars(AnyName \o g)
        <4>1. Front1(AnyName \o g) = AnyName \o Front1(g)
          BY <3>1, <3>3, StarBeforeFront
        <4>2. GlobMatch(AnyName \o g, name) <=> Matches(Front1(AnyName \o g), Front1(name))
          BY <2>2, <3>2, <3>3, GlobMatchesButLast
        <4> QED
          BY <3>3, <4>1, <4>2, Zenon
      <3>4. CASE ~EndsInStars(AnyName \o g)
        <4>1. GlobMatch(AnyName \o g, name) <=> Matches(AnyName \o g, name)
          BY <2>2, <3>2, <3>4, GlobMatchesExactly
        <4> QED
          BY <3>4, <4>1, Zenon
      <3> QED
        BY <3>3, <3>4
    <2> QED
      BY <2>3, Zenon DEF CheckFunctionBlacklist, Listed
  <1> QED
    BY <1>1, FilterInv, PTL

-----------------------------------------------------------------------------
(* Whitelists.                                                             *)

(* The filter files that are loaded.                                       *)
IsFile(fl) ==
  /\ fl \in [loaded : {TRUE},
             functionBlacklist : SUBSET Seq(Nat), fileBlacklist : SUBSET Seq(Nat),
             fileWhitelist : SUBSET Seq(Nat),
             functionFilters : {fl.functionFilters}, minimum : SUBSET Nat]
  /\ fl.functionFilters \in
       [DOMAIN fl.functionFilters -> [events : SUBSET Events, arguments : SUBSET Nat]]
  /\ DOMAIN fl.functionFilters \in SUBSET Seq(Nat)
  /\ IsFiniteSet(DOMAIN fl.functionFilters)

LEMMA FileOrNone ==
  ASSUME NEW fl \in LoadFilterData, DOMAIN fl.functionFilters # {}
  PROVE  IsFile(fl)
  <1>1. fl.loaded \/ fl = Null
    BY FilterTypes, Zenon
  <1>2. fl # Null
    <2>1. DOMAIN Null.functionFilters = {}
      BY DEF Null
    <2> QED
      BY <2>1
  <1>3. fl.loaded
    BY <1>1, <1>2
  <1> QED
    BY <1>3, FilterTypes, Zenon DEF IsFile

(* What one more event changes of a filter file.                           *)
LEMMA OneMoreEvent ==
  ASSUME NEW fl, IsFile(fl), NEW g \in DOMAIN fl.functionFilters, NEW added \in Events
  PROVE  LET w == WithEvent(fl, g, added)
         IN /\ w.loaded = TRUE /\ w.functionBlacklist = fl.functionBlacklist
            /\ DOMAIN w.functionFilters = DOMAIN fl.functionFilters
            /\ \A h \in DOMAIN fl.functionFilters :
                 fl.functionFilters[h].events \subseteq w.functionFilters[h].events
  <1> DEFINE ff == fl.functionFilters
             more == [ff[g] EXCEPT !.events = ff[g].events \cup {added}]
             w == WithEvent(fl, g, added)
  <1>1. w = [fl EXCEPT !.functionFilters = [ff EXCEPT ![g] = more]]
    BY DEF WithEvent
  <1>2. ff \in [DOMAIN ff -> [events : SUBSET Events, arguments : SUBSET Nat]]
    BY DEF IsFile
  <1>3. more.events = ff[g].events \cup {added}
    <2>1. ff[g] \in [events : SUBSET Events, arguments : SUBSET Nat]
      BY <1>2
    <2> HIDE DEF ff
    <2> QED
      BY <2>1
  <1>4. fl \in [loaded : {TRUE},
                functionBlacklist : SUBSET Seq(Nat), fileBlacklist : SUBSET Seq(Nat),
                fileWhitelist : SUBSET Seq(Nat),
                functionFilters : {ff}, minimum : SUBSET Nat]
    BY DEF IsFile
  <1> HIDE DEF more, w
  <1>5. /\ w.loaded = TRUE /\ w.functionBlacklist = fl.functionBlacklist
        /\ w.functionFilters = [ff EXCEPT ![g] = more]
    BY <1>1, <1>4
  <1> HIDE DEF ff
  <1>6. DOMAIN [ff EXCEPT ![g] = more] = DOMAIN ff
    BY <1>2
  <1>7. ASSUME NEW h \in DOMAIN ff
        PROVE  ff[h].events \subseteq [ff EXCEPT ![g] = more][h].events
    <2>1. CASE h = g
      <3>1. [ff EXCEPT ![g] = more][h] = more
        BY <1>2, <1>7, <2>1
      <3> QED
        BY <1>3, <2>1, <3>1
    <2>2. CASE h # g
      <3>1. [ff EXCEPT ![g] = more][h] = ff[h]
        BY <1>2, <1>7, <2>2
      <3> QED
        BY <3>1
    <2> QED
      BY <2>1, <2>2
  <1> QED
    BY <1>5, <1>6, <1>7 DEF ff, w

(* The best match depends only on which entries there are.                 *)
LEMMA SameKeysSameMatch ==
  ASSUME NEW fl, NEW w, DOMAIN w.functionFilters = DOMAIN fl.functionFilters, NEW name
  PROVE  FindBestFunctionMatch(w, name) = FindBestFunctionMatch(fl, name)
  BY Zenon DEF FindBestFunctionMatch

(* More events in an entry never disable an event of a function.           *)
THEOREM AddedEventsOnlyAdd == Spec => []EventsOnlyAdd
  <1>1. ASSUME filters \in LoadFilterData PROVE EventsOnlyAdd
    <2>1. SUFFICES ASSUME NEW g \in DOMAIN filters.functionFilters,
                          NEW added \in Events, NEW event \in Events, NEW name \in Names,
                          CheckFunctionFilter(filters, name, event)
                   PROVE  CheckFunctionFilter(WithEvent(filters, g, added), name, event)
      BY Zenon DEF EventsOnlyAdd
    <2>2. IsFile(filters)
      BY <1>1, FileOrNone
    <2> DEFINE w == WithEvent(filters, g, added)
    <2>3. /\ w.loaded = TRUE /\ w.functionBlacklist = filters.functionBlacklist
          /\ DOMAIN w.functionFilters = DOMAIN filters.functionFilters
          /\ \A h \in DOMAIN filters.functionFilters :
               filters.functionFilters[h].events \subseteq w.functionFilters[h].events
      BY <2>2, OneMoreEvent
    <2>4. filters.loaded = TRUE
      BY <2>2 DEF IsFile
    <2> HIDE DEF w
    <2>5. ASSUME NEW n
          PROVE  CheckFunctionBlacklist(w, n) <=> CheckFunctionBlacklist(filters, n)
      BY <2>3, <2>4, Zenon DEF CheckFunctionBlacklist
    <2>6. ASSUME NEW n, Allows(filters, n, event) PROVE Allows(w, n, event)
      <3> DEFINE best == FindBestFunctionMatch(filters, n)
      <3>1. FindBestFunctionMatch(w, n) = best
        BY <2>3, SameKeysSameMatch
      <3> HIDE DEF best
      <3>2. CASE best \in DOMAIN filters.functionFilters
        <4>1. /\ BestEntry(filters, n) = filters.functionFilters[best]
              /\ BestEntry(w, n) = w.functionFilters[best]
          BY <2>3, <3>1, <3>2 DEF BestEntry, best
        <4> QED
          BY <2>3, <2>6, <3>2, <4>1 DEF Allows
      <3>3. CASE best \notin DOMAIN filters.functionFilters
        <4>1. BestEntry(filters, n) = BestEntry(w, n)
          BY <2>3, <3>1, <3>3, Zenon DEF BestEntry, best
        <4> QED
          BY <2>3, <2>6, <4>1, Zenon DEF Allows
      <3> QED
        BY <3>2, <3>3
    <2>7. CheckFunctionFilter(w, name, event)
      BY <2>1, <2>4, <2>5, <2>6, Zenon DEF CheckFunctionFilter
    <2> QED
      BY <2>7 DEF w
  <1> QED
    BY <1>1, FilterInv, PTL

-----------------------------------------------------------------------------
(* The order of the whitelist.                                             *)

(* i elements are common to both, and then a comes first.                  *)
Parts(a, b, i) ==
  /\ i \in 0 .. Len(a) /\ i <= Len(b) /\ \A j \in 1 .. i : a[j] = b[j]
  /\ \/ i = Len(a) /\ i < Len(b)
     \/ i < Len(a) /\ i < Len(b) /\ a[i + 1] < b[i + 1]

LEMMA PrecedesParts ==
  ASSUME NEW a, NEW b
  PROVE  Precedes(a, b) <=> \E i : Parts(a, b, i)
  BY Zenon DEF Precedes, Parts

(* Of two sequences only one precedes the other.                           *)
LEMMA PrecedesOneWay ==
  ASSUME NEW a \in Seq(Nat), NEW b \in Seq(Nat), Precedes(a, b)
  PROVE  ~Precedes(b, a)
  <1>1. PICK i : Parts(a, b, i)
    BY PrecedesParts
  <1>2. SUFFICES ASSUME NEW k, Parts(b, a, k) PROVE FALSE
    BY PrecedesParts
  <1>3. Len(a) \in Nat /\ Len(b) \in Nat
    OBVIOUS
  <1>4. i \in Nat /\ k \in Nat
    BY <1>1, <1>2, <1>3 DEF Parts
  <1>5. CASE i < k
    <2>1. i + 1 \in 1 .. k /\ i < Len(a) /\ i < Len(b)
      BY <1>2, <1>3, <1>4, <1>5 DEF Parts
    <2>2. a[i + 1] < b[i + 1] /\ b[i + 1] = a[i + 1]
      BY <1>1, <1>2, <2>1 DEF Parts
    <2>3. a[i + 1] \in Nat /\ b[i + 1] \in Nat
      BY <1>4, <2>1
    <2> QED
      BY <2>2, <2>3
  <1>6. CASE k < i
    <2>1. k + 1 \in 1 .. i /\ k < Len(a) /\ k < Len(b)
      BY <1>1, <1>3, <1>4, <1>6 DEF Parts
    <2>2. b[k + 1] < a[k + 1] /\ a[k + 1] = b[k + 1]
      BY <1>1, <1>2, <2>1 DEF Parts
    <2>3. a[k + 1] \in Nat /\ b[k + 1] \in Nat
      BY <1>4, <2>1
    <2> QED
      BY <2>2, <2>3
  <1>7. CASE i = k
    <2>1. i < Len(a) /\ i < Len(b) /\ a[i + 1] < b[i + 1] /\ b[i + 1] < a[i + 1]
      BY <1>1, <1>2, <1>3, <1>7 DEF Parts
    <2>2. a[i + 1] \in Nat /\ b[i + 1] \in Nat
      BY <1>4, <2>1
    <2> QED
      BY <2>1, <2>2
  <1> QED
    BY <1>4, <1>5, <1>6, <1>7

(* What precedes a sequence precedes all that the sequence precedes.       *)
LEMMA PrecedesThrough ==
  ASSUME NEW a \in Seq(Nat), NEW b \in Seq(Nat), NEW c \in Seq(Nat),
         Precedes(a, b), Precedes(b, c)
  PROVE  Precedes(a, c)
  <1>1. PICK i : Parts(a, b, i)
    BY PrecedesParts
  <1>2. PICK k : Parts(b, c, k)
    BY PrecedesParts
  <1>3. Len(a) \in Nat /\ Len(b) \in Nat /\ Len(c) \in Nat
    OBVIOUS
  <1>4. i \in Nat /\ k \in Nat
    BY <1>1, <1>2, <1>3 DEF Parts
  <1>5. CASE i < k
    <2>1. i + 1 \in 1 .. k /\ i < Len(b) /\ i < Len(c) /\ i \in 0 .. Len(a)
      BY <1>1, <1>2, <1>3, <1>4, <1>5 DEF Parts
    <2>2. b[i + 1] = c[i + 1] /\ \A j \in 1 .. i : a[j] = c[j]
      BY <1>1, <1>2, <1>4, <1>5, <2>1 DEF Parts
    <2>3. Parts(a, c, i)
      BY <1>1, <2>1, <2>2 DEF Parts
    <2> QED
      BY <2>3, PrecedesParts
  <1>6. CASE k < i
    <2>1. k + 1 \in 1 .. i /\ k < Len(a) /\ k < Len(b) /\ k < Len(c) /\ k \in 0 .. Len(a)
      BY <1>1, <1>2, <1>3, <1>4, <1>6 DEF Parts
    <2>2. a[k + 1] = b[k + 1] /\ \A j \in 1 .. k : a[j] = c[j]
      BY <1>1, <1>2, <1>4, <1>6, <2>1 DEF Parts
    <2>3. Parts(a, c, k)
      BY <1>2, <2>1, <2>2 DEF Parts
    <2> QED
      BY <2>3, PrecedesParts
  <1>7. CASE i = k
    <2>1. i \in 0 .. Len(a) /\ i < Len(b) /\ i < Len(c) /\ b[i + 1] < c[i + 1]
      BY <1>1, <1>2, <1>3, <1>7 DEF Parts
    <2>2. \A j \in 1 .. i : a[j] = c[j]
      BY <1>1, <1>2, <1>7 DEF Parts
    <2>3. b[i + 1] \in Nat /\ c[i + 1] \in Nat
      BY <1>4, <2>1
    <2>4. i # Len(a) => i < Len(a) /\ a[i + 1] < c[i + 1]
      <3>1. ASSUME i # Len(a) PROVE i < Len(a) /\ a[i + 1] < b[i + 1] /\ a[i + 1] \in Nat
        BY <1>1, <1>3, <1>4, <3>1 DEF Parts
      <3> QED
        BY <2>1, <2>3, <3>1
    <2>5. Parts(a, c, i)
      BY <2>1, <2>2, <2>4 DEF Parts
    <2> QED
      BY <2>5, PrecedesParts
  <1> QED
    BY <1>4, <1>5, <1>6, <1>7

(* Of two sequences that differ one precedes the other.                    *)
LEMMA PrecedesTotal ==
  ASSUME NEW a \in Seq(Nat), NEW b \in Seq(Nat), a # b
  PROVE  Precedes(a, b) \/ Precedes(b, a)
  <1> DEFINE Ends(p) == p > Len(a) \/ p > Len(b) \/ a[p] # b[p]
             T == {p \in Nat : p >= 1 /\ Ends(p)}
  <1>1. Len(a) \in Nat /\ Len(b) \in Nat
    OBVIOUS
  <1>2. Len(a) + 1 \in T
    BY <1>1
  <1>3. PICK d \in T : \A p \in T : d <= p
    <2> T \subseteq Nat /\ T # {}
      BY <1>2
    <2> HIDE DEF T
    <2> QED
      BY Least
  <1>4. d \in Nat /\ d >= 1 /\ Ends(d)
    BY <1>3
  <1>5. ASSUME NEW p \in 1 .. d - 1 PROVE p <= Len(a) /\ p <= Len(b) /\ a[p] = b[p]
    <2>1. p \in Nat /\ p >= 1 /\ p < d
      BY <1>4
    <2>2. p \notin T
      <3> HIDE DEF T
      <3> QED
        BY <1>3, <1>4, <2>1
    <2> QED
      BY <1>1, <2>1, <2>2
  <1> DEFINE i == d - 1
  <1>6. /\ i \in Nat /\ i + 1 = d /\ i <= Len(a) /\ i <= Len(b)
        /\ \A j \in 1 .. i : a[j] = b[j]
    <2>1. i \in Nat /\ i + 1 = d
      BY <1>4
    <2>2. i # 0 => i <= Len(a) /\ i <= Len(b)
      <3>1. i # 0 => i \in 1 .. d - 1
        BY <2>1
      <3> HIDE DEF i
      <3> QED
        BY <1>5, <3>1
    <2> QED
      BY <1>1, <1>5, <2>1, <2>2
  <1>7. Ends(i + 1)
    BY <1>4, <1>6
  <1> HIDE DEF i, T
  <1>8. CASE i = Len(a) /\ i = Len(b)
    <2>1. a = b
      BY <1>6, <1>8, SeqEqual
    <2> QED
      BY <2>1
  <1>9. CASE i = Len(a) /\ i < Len(b)
    <2>1. Parts(a, b, i)
      BY <1>1, <1>6, <1>9 DEF Parts
    <2> QED
      BY <2>1, PrecedesParts
  <1>10. CASE i < Len(a) /\ i = Len(b)
    <2>1. Parts(b, a, i)
      BY <1>1, <1>6, <1>10 DEF Parts
    <2> QED
      BY <2>1, PrecedesParts
  <1>11. CASE i < Len(a) /\ i < Len(b)
    <2>1. a[i + 1] \in Nat /\ b[i + 1] \in Nat /\ a[i + 1] # b[i + 1]
      BY <1>1, <1>6, <1>7, <1>11
    <2>2. a[i + 1] < b[i + 1] => Parts(a, b, i)
      BY <1>1, <1>6, <1>11 DEF Parts
    <2>3. b[i + 1] < a[i + 1] => Parts(b, a, i)
      BY <1>1, <1>6, <1>11 DEF Parts
    <2> QED
      BY <2>1, <2>2, <2>3, PrecedesParts
  <1> QED
    BY <1>1, <1>6, <1>8, <1>9, <1>10, <1>11

(* g comes before all others.                                              *)
IsFirst(g, S) == g \in S /\ \A h \in S \ {g} : Precedes(g, h)

(* A finite set of globs has a first one,                                  *)
LEMMA FirstExists ==
  ASSUME NEW S \in SUBSET Seq(Nat), IsFiniteSet(S), S # {}
  PROVE  \E g : IsFirst(g, S)
  <1> DEFINE Bad(n) == \E U \in SUBSET Seq(Nat) :
                         /\ IsFiniteSet(U) /\ U # {} /\ Cardinality(U) = n
                         /\ ~\E g : IsFirst(g, U)
             T == {n \in Nat : Bad(n)}
  <1>1. SUFFICES ASSUME T # {} PROVE FALSE
    <2>1. Cardinality(S) \in Nat
      BY FS_CardinalityType
    <2>2. Cardinality(S) \notin T
      BY <1>1
    <2>3. ~Bad(Cardinality(S))
      BY <2>1, <2>2
    <2> QED
      BY <2>3
  <1>2. PICK n \in T : \A m \in T : n <= m
    <2> T \subseteq Nat
      OBVIOUS
    <2> HIDE DEF T
    <2> QED
      BY <1>1, Least
  <1>3. PICK U \in SUBSET Seq(Nat) :
          /\ IsFiniteSet(U) /\ U # {} /\ Cardinality(U) = n
          /\ ~\E g : IsFirst(g, U)
    BY <1>2
  <1>4. PICK x : x \in U
    BY <1>3
  <1>5. /\ IsFiniteSet(U \ {x}) /\ Cardinality(U \ {x}) = n - 1
        /\ Cardinality(U \ {x}) \in Nat
    BY <1>3, <1>4, FS_RemoveElement, FS_CardinalityType
  <1>6. x \in Seq(Nat) /\ U \ {x} \in SUBSET Seq(Nat)
    BY <1>3, <1>4
  <1>7. CASE U \ {x} = {}
    <2>1. IsFirst(x, U)
      BY <1>4, <1>7 DEF IsFirst
    <2> QED
      BY <1>3, <2>1
  <1>8. CASE U \ {x} # {}
    <2>1. n - 1 \notin T
      <3>1. n \in Nat /\ n - 1 \in Nat
        BY <1>2, <1>5
      <3> HIDE DEF T
      <3> QED
        BY <1>2, <3>1
    <2>2. ~Bad(n - 1)
      BY <1>5, <2>1
    <2>3. PICK y : IsFirst(y, U \ {x})
      BY <1>5, <1>6, <1>8, <2>2
    <2>4. y \in U /\ y # x /\ y \in Seq(Nat)
      BY <1>3, <2>3 DEF IsFirst
    <2>5. CASE Precedes(y, x)
      <3>1. IsFirst(y, U)
        BY <2>3, <2>4, <2>5, Zenon DEF IsFirst
      <3> QED
        BY <1>3, <3>1
    <2>6. CASE Precedes(x, y)
      <3>1. ASSUME NEW h \in U \ {x} PROVE Precedes(x, h)
        <4>1. CASE h = y
          BY <2>6, <4>1
        <4>2. CASE h # y
          <5>1. Precedes(y, h) /\ h \in Seq(Nat)
            BY <1>3, <2>3, <4>2 DEF IsFirst
          <5> QED
            BY <1>6, <2>4, <2>6, <5>1, PrecedesThrough
        <4> QED
          BY <4>1, <4>2
      <3>2. IsFirst(x, U)
        BY <1>4, <3>1 DEF IsFirst
      <3> QED
        BY <1>3, <3>2
    <2> QED
      BY <1>6, <2>4, <2>5, <2>6, PrecedesTotal
  <1> QED
    BY <1>7, <1>8

(* which is the one First chooses, and no other.                           *)
LEMMA FirstIs ==
  ASSUME NEW S \in SUBSET Seq(Nat), IsFiniteSet(S), S # {}
  PROVE  /\ IsFirst(First(S), S)
         /\ \A g : IsFirst(g, S) => g = First(S)
  <1>1. \E g \in S : \A h \in S \ {g} : Precedes(g, h)
    BY FirstExists DEF IsFirst
  <1>2. IsFirst(First(S), S)
    <2>1. /\ First(S) \in S
          /\ \A h \in S \ {First(S)} : Precedes(First(S), h)
      BY <1>1, Zenon DEF First
    <2> QED
      BY <2>1 DEF IsFirst
  <1>3. ASSUME NEW g, IsFirst(g, S), g # First(S) PROVE FALSE
    <2>1. /\ g \in Seq(Nat) /\ First(S) \in Seq(Nat)
          /\ Precedes(g, First(S)) /\ Precedes(First(S), g)
      BY <1>2, <1>3 DEF IsFirst
    <2> QED
      BY <2>1, PrecedesOneWay
  <1> QED
    BY <1>2, <1>3

(* Without one that is not the first the first is the same.                *)
LEMMA FirstWithout ==
  ASSUME NEW S \in SUBSET Seq(Nat), IsFiniteSet(S), NEW g \in Seq(Nat),
         NEW h \in S, Precedes(h, g)
  PROVE  First(S \ {g}) = First(S) /\ First(S) \in S \ {g}
  <1>1. h \in Seq(Nat) /\ S # {}
    OBVIOUS
  <1>2. ~Precedes(g, h)
    BY <1>1, PrecedesOneWay
  <1>3. h # g
    BY <1>2
  <1>4. IsFirst(First(S), S)
    BY <1>1, FirstIs
  <1>5. First(S) # g
    BY <1>2, <1>3, <1>4 DEF IsFirst
  <1>6. IsFirst(First(S), S \ {g})
    BY <1>4, <1>5 DEF IsFirst
  <1>7. S \ {g} \in SUBSET Seq(Nat) /\ IsFiniteSet(S \ {g}) /\ S \ {g} # {}
    BY <1>3, FS_RemoveElement
  <1> QED
    BY <1>6, <1>7, FirstIs DEF IsFirst

-----------------------------------------------------------------------------
(* Entries that come later.                                                *)

(* The text "*" is matched by stars only.                                  *)
LEMMA StarsMatchStar ==
  ASSUME NEW g \in Seq(Nat), NEW k \in 1 .. Len(g), g[k] # Star
  PROVE  ~GlobMatch(g, AnyName)
  <1>1. AnyName \in Seq(Nat) /\ AnyName # <<>> /\ Len(AnyName) = 1 /\ AnyName[1] = Star
    BY DEF AnyName, Star
  <1>2. CASE ~EndsInStars(g)
    <2>1. SUFFICES ASSUME Matches(g, AnyName) PROVE FALSE
      BY <1>1, <1>2, GlobMatchesExactly
    <2>2. PICK to \in [0 .. Len(g) -> 0 .. Len(AnyName)] :
            \A i \in 1 .. Len(g) :
              IF g[i] = Star THEN to[i] >= to[i - 1]
              ELSE to[i] = to[i - 1] + 1 /\ AnyName[to[i]] = g[i]
      BY <2>1 DEF Matches
    <2>3. to[k] \in 0 .. 1 /\ to[k - 1] \in 0 .. 1
      <3>1. k \in 0 .. Len(g) /\ k - 1 \in 0 .. Len(g)
        OBVIOUS
      <3>2. to[k] \in 0 .. Len(AnyName) /\ to[k - 1] \in 0 .. Len(AnyName)
        BY <3>1
      <3> QED
        BY <1>1, <3>2
    <2>4. to[k] = to[k - 1] + 1 /\ AnyName[to[k]] = g[k]
      BY <2>2
    <2>5. to[k] = 1
      BY <2>3, <2>4
    <2> QED
      BY <1>1, <2>4, <2>5
  <1>3. CASE EndsInStars(g)
    <2>1. g # <<>> /\ k # Len(g)
      BY <1>3 DEF EndsInStars
    <2>2. SUFFICES ASSUME Matches(Front1(g), Front1(AnyName)) PROVE FALSE
      BY <1>1, <1>3, GlobMatchesButLast
    <2>3. Len(Front1(AnyName)) = 0
      <3>1. Len(Front1(AnyName)) = Len(AnyName) - 1
        BY <1>1, FrontIs
      <3> QED
        BY <1>1, <3>1
    <2>4. k \in 1 .. Len(Front1(g)) /\ Front1(g)[k] = g[k]
      <3>1. Len(Front1(g)) = Len(g) - 1 /\ k \in 1 .. Len(g) - 1
        BY <2>1, FrontIs
      <3> QED
        BY <2>1, <3>1, FrontIs
    <2>5. PICK to \in [0 .. Len(Front1(g)) -> 0 .. Len(Front1(AnyName))] :
            \A i \in 1 .. Len(Front1(g)) :
              IF Front1(g)[i] = Star THEN to[i] >= to[i - 1]
              ELSE to[i] = to[i - 1] + 1 /\ Front1(AnyName)[to[i]] = Front1(g)[i]
      BY <2>2 DEF Matches
    <2>6. to[k] = to[k - 1] + 1
      BY <2>4, <2>5
    <2>7. to[k] \in 0 .. 0 /\ to[k - 1] \in 0 .. 0
      <3>1. Len(Front1(g)) \in Nat
        BY <2>1, FrontIs
      <3>2. k \in 0 .. Len(Front1(g)) /\ k - 1 \in 0 .. Len(Front1(g))
        BY <2>4, <3>1
      <3> QED
        BY <2>3, <2>5, <3>2
    <2> QED
      BY <2>6, <2>7
  <1> QED
    BY <1>2, <1>3

(* What a filter file has without an entry.                                *)
LEMMA WithoutIs ==
  ASSUME NEW fl, IsFile(fl), NEW g \in DOMAIN fl.functionFilters
  PROVE  LET w == Without(fl, g)
         IN /\ w.loaded = TRUE /\ w.functionBlacklist = fl.functionBlacklist
            /\ DOMAIN w.functionFilters = DOMAIN fl.functionFilters \ {g}
            /\ \A k \in DOMAIN fl.functionFilters \ {g} :
                 w.functionFilters[k] = fl.functionFilters[k]
  <1> DEFINE ff == fl.functionFilters
             fewer == [k \in DOMAIN ff \ {g} |-> ff[k]]
             w == Without(fl, g)
  <1>1. w = [fl EXCEPT !.functionFilters = fewer]
    BY DEF Without
  <1>2. fl \in [loaded : {TRUE},
                functionBlacklist : SUBSET Seq(Nat), fileBlacklist : SUBSET Seq(Nat),
                fileWhitelist : SUBSET Seq(Nat),
                functionFilters : {ff}, minimum : SUBSET Nat]
    BY DEF IsFile
  <1>3. DOMAIN fewer = DOMAIN ff \ {g} /\ \A k \in DOMAIN ff \ {g} : fewer[k] = ff[k]
    OBVIOUS
  <1> HIDE DEF ff, fewer, w
  <1>4. w.loaded = TRUE /\ w.functionBlacklist = fl.functionBlacklist /\ w.functionFilters = fewer
    BY <1>1, <1>2
  <1> QED
    BY <1>3, <1>4 DEF ff, w

(* The globs other than "*" that match a name.                             *)
Matching(fl, name) ==
  {k \in DOMAIN fl.functionFilters \ {AnyName} : GlobMatch(k, name)}

LEMMA BestIs ==
  ASSUME NEW fl, NEW name
  PROVE  FindBestFunctionMatch(fl, name) =
           IF name \in DOMAIN fl.functionFilters THEN name
           ELSE IF Matching(fl, name) # {} THEN First(Matching(fl, name))
           ELSE IF AnyName \in DOMAIN fl.functionFilters THEN AnyName ELSE <<>>
  BY Zenon DEF FindBestFunctionMatch, Matching

(* An entry that the best match is not, and that is not the only one, can  *)
(* be left out.                                                            *)
LEMMA SameBestSameEntry ==
  ASSUME NEW fl, IsFile(fl), NEW g \in DOMAIN fl.functionFilters, NEW name,
         FindBestFunctionMatch(Without(fl, g), name) = FindBestFunctionMatch(fl, name),
         FindBestFunctionMatch(fl, name) # g
  PROVE  BestEntry(Without(fl, g), name) = BestEntry(fl, name)
  <1> DEFINE w == Without(fl, g)
             best == FindBestFunctionMatch(fl, name)
  <1>1. /\ DOMAIN w.functionFilters = DOMAIN fl.functionFilters \ {g}
        /\ \A k \in DOMAIN fl.functionFilters \ {g} :
             w.functionFilters[k] = fl.functionFilters[k]
    BY WithoutIs
  <1>2. FindBestFunctionMatch(w, name) = best /\ best # g
    OBVIOUS
  <1> HIDE DEF w, best
  <1>3. CASE best \in DOMAIN fl.functionFilters
    <2>1. best \in DOMAIN w.functionFilters /\ w.functionFilters[best] = fl.functionFilters[best]
      BY <1>1, <1>2, <1>3
    <2>2. BestEntry(fl, name) = fl.functionFilters[best]
      BY <1>3, Zenon DEF BestEntry, best
    <2>3. BestEntry(w, name) = w.functionFilters[best]
      BY <1>2, <2>1, Zenon DEF BestEntry
    <2> QED
      BY <2>1, <2>2, <2>3 DEF w
  <1>4. CASE best \notin DOMAIN fl.functionFilters
    <2>1. best \notin DOMAIN w.functionFilters
      BY <1>1, <1>4
    <2>2. BestEntry(fl, name) = [events |-> {}, arguments |-> {}]
      BY <1>4, Zenon DEF BestEntry, best
    <2>3. BestEntry(w, name) = [events |-> {}, arguments |-> {}]
      BY <1>2, <2>1, Zenon DEF BestEntry
    <2> QED
      BY <2>2, <2>3 DEF w
  <1> QED
    BY <1>3, <1>4

(* An entry that is neither the name, nor stars, nor the first in map order*)
(* that matches the name has no effect on it.                              *)
THEOREM LaterEntriesAreIdle == Spec => []LaterEntriesIdle
  <1>1. ASSUME filters \in LoadFilterData PROVE LaterEntriesIdle
    <2>1. SUFFICES ASSUME NEW name \in Names,
                          NEW g \in DOMAIN filters.functionFilters,
                          NEW h \in DOMAIN filters.functionFilters,
                          g # name, Precedes(h, g), h # AnyName,
                          Matches(h, name), ~EndsInStars(h),
                          \E i \in 1 .. Len(g) : g[i] # Star
                   PROVE  /\ \A event \in Events :
                               CheckFunctionFilter(filters, name, event)
                                 <=> CheckFunctionFilter(Without(filters, g), name, event)
                          /\ BestEntry(filters, name) = BestEntry(Without(filters, g), name)
      BY Zenon DEF LaterEntriesIdle
    <2> DEFINE w == Without(filters, g)
               K == DOMAIN filters.functionFilters
    <2>2. IsFile(filters)
      BY <1>1, FileOrNone
    <2>3. /\ w.loaded = TRUE /\ w.functionBlacklist = filters.functionBlacklist
          /\ DOMAIN w.functionFilters = K \ {g}
          /\ \A k \in K \ {g} : w.functionFilters[k] = filters.functionFilters[k]
      BY <2>2, WithoutIs
    <2>4. filters.loaded = TRUE /\ K \in SUBSET Seq(Nat) /\ IsFiniteSet(K)
      BY <2>2 DEF IsFile
    <2>5. g \in Seq(Nat) /\ h \in Seq(Nat) /\ name \in Seq(Nat) /\ name # <<>>
      <3>1. name \in Seq(Nat \ {Star}) /\ name # <<>>
        BY FilterAssumption
      <3> QED
        BY <2>4, <3>1
    <2>6. h # g
      BY <2>1, <2>5, PrecedesOneWay
    <2>7. g # AnyName /\ g # <<>> /\ ~GlobMatch(g, AnyName)
      <3>1. PICK k \in 1 .. Len(g) : g[k] # Star
        BY <2>1
      <3>2. ~GlobMatch(g, AnyName)
        BY <2>5, <3>1, StarsMatchStar
      <3>3. g # AnyName
        <4>1. \A i \in 1 .. Len(AnyName) : AnyName[i] = Star
          BY DEF AnyName
        <4> QED
          BY <3>1, <4>1
      <3>4. g # <<>>
        BY <3>1
      <3> QED
        BY <3>2, <3>3, <3>4
    <2> HIDE DEF w, K
    <2>8. ASSUME NEW n
          PROVE  /\ Matching(filters, n) \in SUBSET Seq(Nat)
                 /\ IsFiniteSet(Matching(filters, n))
                 /\ Matching(w, n) = Matching(filters, n) \ {g}
      <3>1. Matching(filters, n) \in SUBSET K
        BY DEF Matching, K
      <3>2. IsFiniteSet(Matching(filters, n))
        BY <2>4, <3>1, FS_Subset
      <3>3. Matching(w, n) = Matching(filters, n) \ {g}
        BY <2>3 DEF Matching, K
      <3> QED
        BY <2>4, <3>1, <3>2, <3>3
    (* What "*" has is what it had.                                        *)
    <2>9. /\ FindBestFunctionMatch(w, AnyName) = FindBestFunctionMatch(filters, AnyName)
          /\ FindBestFunctionMatch(filters, AnyName) # g
      <3>1. g \notin Matching(filters, AnyName)
        BY <2>7 DEF Matching
      <3>2. Matching(w, AnyName) = Matching(filters, AnyName)
        BY <2>8, <3>1
      <3>3. AnyName \in K <=> AnyName \in DOMAIN w.functionFilters
        BY <2>3, <2>7
      <3>4. Matching(filters, AnyName) # {} =>
              First(Matching(filters, AnyName)) \in Matching(filters, AnyName)
        BY <2>8, FirstIs DEF IsFirst
      <3>5. FindBestFunctionMatch(w, AnyName) = FindBestFunctionMatch(filters, AnyName)
        BY <3>2, <3>3, BestIs DEF K
      <3>6. FindBestFunctionMatch(filters, AnyName) # g
        BY <2>7, <3>1, <3>4, BestIs
      <3> QED
        BY <3>5, <3>6
    (* So is the best match of the name.                                   *)
    <2>10. /\ FindBestFunctionMatch(w, name) = FindBestFunctionMatch(filters, name)
           /\ FindBestFunctionMatch(filters, name) # g
      <3>1. h \in Matching(filters, name)
        <4>1. GlobMatch(h, name)
          BY <2>1, <2>5, GlobMatchesExactly
        <4> QED
          BY <2>1, <4>1 DEF Matching
      <3>2. /\ First(Matching(filters, name) \ {g}) = First(Matching(filters, name))
            /\ First(Matching(filters, name)) \in Matching(filters, name) \ {g}
        BY <2>1, <2>5, <2>8, <3>1, FirstWithout
      <3>3. Matching(w, name) # {} /\ Matching(filters, name) # {}
        BY <2>8, <3>2
      <3>4. name \in K <=> name \in DOMAIN w.functionFilters
        BY <2>1, <2>3
      <3>5. First(Matching(w, name)) = First(Matching(filters, name))
        BY <2>8, <3>2
      <3>6. FindBestFunctionMatch(w, name) = FindBestFunctionMatch(filters, name)
        BY <3>3, <3>4, <3>5, BestIs DEF K
      <3>7. FindBestFunctionMatch(filters, name) # g
        BY <2>1, <3>2, <3>3, BestIs
      <3> QED
        BY <3>6, <3>7
    <2>11. /\ BestEntry(w, AnyName) = BestEntry(filters, AnyName)
           /\ BestEntry(w, name) = BestEntry(filters, name)
      BY <2>2, <2>9, <2>10, SameBestSameEntry DEF w
    <2>12. DOMAIN w.functionFilters # {} /\ DOMAIN filters.functionFilters # {}
      BY <2>3, <2>6 DEF K
    <2>13. ASSUME NEW event \in Events
           PROVE  CheckFunctionFilter(filters, name, event)
                    <=> CheckFunctionFilter(w, name, event)
      <3>1. /\ Allows(w, AnyName, event) <=> Allows(filters, AnyName, event)
            /\ Allows(w, name, event) <=> Allows(filters, name, event)
        BY <2>11, <2>12, Zenon DEF Allows
      <3>2. \A n : CheckFunctionBlacklist(w, n) <=> CheckFunctionBlacklist(filters, n)
        BY <2>3, <2>4, Zenon DEF CheckFunctionBlacklist
      <3> QED
        BY <2>3, <2>4, <3>1, <3>2, Zenon DEF CheckFunctionFilter
    <2> QED
      BY <2>11, <2>13 DEF w
  <1> QED
    BY <1>1, FilterInv, PTL
===============================================================================
