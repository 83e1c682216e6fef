--------------------------- MODULE RepeaterProofs ---------------------------
(***************************************************************************)
(* Type correctness of the repeater, the consistency of its role and the   *)
(* edge rule, for every hop limit, window range, ring size and timeout.    *)
(* The first part, on what the operators on rings and on a repeater's      *)
(* record return, serves the badge the repeater runs in as well            *)
(* (ReceivePathProofs).                                                    *)
(*                                                                         *)
(* Keep is recursive, and the induction theorems of the library cannot be  *)
(* instantiated by the provers installed; the induction is done on least   *)
(* counterexamples instead, whose existence LeastNatural derives from the  *)
(* well-foundedness of the strict inclusion of finite sets.                *)
(***************************************************************************)
EXTENDS RepeaterHistory, SequenceTheorems, FiniteSetTheorems, WellFoundedInduction, TLAPS

(***************************************************************************)
(* A nonempty set of naturals has a least element.                         *)
(***************************************************************************)
LEMMA LeastNatural ==
  ASSUME NEW T \in SUBSET Nat, T # {}
  PROVE  \E n \in T : \A m \in T : n <= m
<1> DEFINE Below(n) == 0 .. n
           D == {Below(n) : n \in T}
<1>1. D \subseteq FiniteSubsetsOf(Nat)
  <2>1. ASSUME NEW n \in T PROVE Below(n) \in FiniteSubsetsOf(Nat)
    <3>1. n \in Int /\ 0 \in Int
      OBVIOUS
    <3>2. IsFiniteSet(0 .. n)
      BY <3>1, FS_Interval
    <3>3. 0 .. n \in SUBSET Nat
      OBVIOUS
    <3> QED BY <3>2, <3>3 DEF FiniteSubsetsOf
  <2> QED BY <2>1
<1>2. PICK x \in D : \A y \in D : ~ (<<y, x>> \in StrictSubsetOrdering(Nat))
  <2>1. IsWellFoundedOn(StrictSubsetOrdering(Nat), FiniteSubsetsOf(Nat))
    BY FS_StrictSubsetOrderingWellFounded
  <2>2. D # {}
    OBVIOUS
  <2> QED BY <1>1, <2>1, <2>2, WFMin
<1>3. PICK n \in T : x = Below(n)
  OBVIOUS
<1>4. ASSUME NEW m \in T, m < n PROVE FALSE
  <2>1. Below(m) \in D /\ Below(m) \subseteq Below(n) /\ n \in Below(n) /\ n \notin Below(m)
    BY <1>4
  <2>2. <<Below(m), Below(n)>> \in StrictSubsetOrdering(Nat)
    BY <2>1 DEF StrictSubsetOrdering
  <2> QED BY <1>2, <1>3, <2>1, <2>2
<1> QED BY <1>4

(***************************************************************************)
(* Min picks a member of a nonempty set of naturals.                       *)
(***************************************************************************)
LEMMA MinOfNaturals ==
  ASSUME NEW T \in SUBSET Nat, T # {}
  PROVE  Min(T) \in T
  BY LeastNatural DEF Min

-----------------------------------------------------------------------------
(***************************************************************************)
(* What Push does to a ring that is within its capacity: the new entry is  *)
(* last, and the others move up by one place only if the oldest fell out.  *)
(***************************************************************************)
LEMMA PushProperties ==
  ASSUME NEW S, NEW r \in Seq(S), NEW e \in S, NEW c \in Nat \ {0}, Len(r) <= c
  PROVE  /\ Push(r, e, c) \in Seq(S)
         /\ Len(Push(r, e, c)) = IF Len(r) = c THEN c ELSE Len(r) + 1
         /\ \A i \in 1 .. Len(Push(r, e, c)) :
              Push(r, e, c)[i] = IF i = Len(Push(r, e, c)) THEN e
                                 ELSE IF Len(r) = c THEN r[i + 1] ELSE r[i]
<1> DEFINE longer == Append(r, e)
<1>1. /\ longer \in Seq(S)
      /\ Len(longer) = Len(r) + 1
      /\ \A i \in 1 .. Len(r) : longer[i] = r[i]
      /\ longer[Len(r) + 1] = e
  BY AppendProperties
<1>2. CASE Len(r) = c
  <2>1. /\ Push(r, e, c) = Tail(longer)
        /\ longer # <<>>
    BY <1>1, <1>2 DEF Push
  <2>2. /\ Tail(longer) \in Seq(S)
        /\ Len(Tail(longer)) = Len(longer) - 1
        /\ \A i \in 1 .. Len(Tail(longer)) : Tail(longer)[i] = longer[i + 1]
    BY <1>1, <2>1, HeadTailProperties
  <2> QED BY <1>1, <1>2, <2>1, <2>2
<1>3. CASE Len(r) # c
  BY <1>1, <1>3 DEF Push
<1> QED BY <1>2, <1>3

(***************************************************************************)
(* With room left nothing moves: the entry comes after all that were there.*)
(***************************************************************************)
LEMMA PushWithRoom ==
  ASSUME NEW S, NEW r \in Seq(S), NEW e \in S, NEW c \in Nat \ {0}, Len(r) < c
  PROVE  /\ Push(r, e, c) \in Seq(S)
         /\ DOMAIN Push(r, e, c) = 1 .. Len(r) + 1
         /\ Push(r, e, c)[Len(r) + 1] = e
         /\ \A i \in 1 .. Len(r) : Push(r, e, c)[i] = r[i]
<1>1. /\ Append(r, e) \in Seq(S)
      /\ Len(Append(r, e)) = Len(r) + 1
      /\ \A i \in 1 .. Len(r) : Append(r, e)[i] = r[i]
      /\ Append(r, e)[Len(r) + 1] = e
  BY AppendProperties
<1>2. Push(r, e, c) = Append(r, e)
  <2>1. Len(r) # c
    BY LenProperties
  <2> QED BY <2>1 DEF Push
<1>3. DOMAIN Append(r, e) = 1 .. Len(r) + 1
  BY <1>1, LenProperties
<1> QED BY <1>1, <1>2, <1>3

(***************************************************************************)
(* RemoveAt takes one entry out of a ring.                                 *)
(***************************************************************************)
LEMMA RemoveAtType ==
  ASSUME NEW S, NEW s \in Seq(S), NEW i \in 1 .. Len(s)
  PROVE  RemoveAt(s, i) \in Seq(S) /\ Len(RemoveAt(s, i)) = Len(s) - 1
<1>1. Len(s) \in Nat /\ \A j \in 1 .. Len(s) : s[j] \in S
  BY LenProperties, ElementOfSeq
<1>2. SubSeq(s, 1, i - 1) \in Seq(S) /\ Len(SubSeq(s, 1, i - 1)) = i - 1
  <2>1. 1 \in Int /\ i - 1 \in Int /\ \A j \in 1 .. i - 1 : s[j] \in S
    BY <1>1
  <2> QED BY <2>1, SubSeqProperties
<1>3. SubSeq(s, i + 1, Len(s)) \in Seq(S) /\ Len(SubSeq(s, i + 1, Len(s))) = Len(s) - i
  <2>1. i + 1 \in Int /\ Len(s) \in Int /\ \A j \in i + 1 .. Len(s) : s[j] \in S
    BY <1>1
  <2> QED BY <1>1, <2>1, SubSeqProperties
<1> DEFINE a == SubSeq(s, 1, i - 1)
           b == SubSeq(s, i + 1, Len(s))
<1>4. RemoveAt(s, i) = a \o b
  BY DEF RemoveAt
<1> HIDE DEF a, b
<1>5. a \o b \in Seq(S) /\ Len(a \o b) = Len(a) + Len(b)
  BY <1>2, <1>3, ConcatProperties DEF a, b
<1>6. Len(a) = i - 1 /\ Len(b) = Len(s) - i /\ Len(s) \in Nat /\ i \in Nat
  BY <1>1, <1>2, <1>3 DEF a, b
<1> QED BY <1>4, <1>5, <1>6

-----------------------------------------------------------------------------
(***************************************************************************)
(* The table that Keep reads: f is the table of the first n places.        *)
(***************************************************************************)
Table(f, s, K, n) ==
  [i \in 0 .. n |-> IF i = 0 THEN <<>>
                    ELSE IF s[i] \in K THEN Append(f[i - 1], s[i])
                    ELSE f[i - 1]]

(***************************************************************************)
(* Every prefix of a ring has its table.                                   *)
(***************************************************************************)
LEMMA TableExists ==
  ASSUME NEW S, NEW s \in Seq(S), NEW K
  PROVE  \E f : f = Table(f, s, K, Len(s))
<1> DEFINE T == {n \in Nat : ~ \E f : f = Table(f, s, K, n)}
<1>1. SUFFICES T = {}
  BY LenProperties
<1>2. SUFFICES ASSUME T # {} PROVE FALSE
  OBVIOUS
<1>3. PICK n \in T : \A m \in T : n <= m
  BY <1>2, LeastNatural
<1>4. CASE n = 0
  <2> DEFINE f == [i \in 0 .. 0 |-> <<>>]
  <2>1. f = Table(f, s, K, 0)
    BY DEF Table
  <2> QED BY <1>4, <2>1
<1>5. CASE n # 0
  <2>1. n - 1 \in Nat /\ n - 1 \notin T
    BY <1>3, <1>5
  <2>2. PICK f : f = Table(f, s, K, n - 1)
    BY <2>1
  <2> DEFINE g == Table(f, s, K, n)
  <2>3. ASSUME NEW i \in 1 .. n PROVE g[i - 1] = f[i - 1]
    <3>1. i - 1 \in 0 .. n - 1 /\ i - 1 \in 0 .. n
      BY <2>1
    <3>2. f[i - 1] = Table(f, s, K, n - 1)[i - 1]
      BY <2>2
    <3> QED BY <3>1, <3>2 DEF Table
  <2>4. Table(g, s, K, n) = Table(f, s, K, n)
    <3> HIDE DEF g
    <3>1. ASSUME NEW i \in 0 .. n
          PROVE  Table(g, s, K, n)[i] = Table(f, s, K, n)[i]
      <4>1. CASE i = 0
        BY <4>1 DEF Table
      <4>2. CASE i # 0
        BY <2>3, <4>2 DEF Table
      <4> QED BY <4>1, <4>2
    <3> QED BY <3>1 DEF Table
  <2>5. g = Table(g, s, K, n)
    BY <2>4
  <2> QED BY <2>5
<1> QED BY <1>4, <1>5

(***************************************************************************)
(* Keep returns entries of its ring that belong to K, no more of them than *)
(* the ring has.                                                           *)
(***************************************************************************)
LEMMA KeepType ==
  ASSUME NEW S, NEW s \in Seq(S), NEW K
  PROVE  Keep(s, K) \in Seq(S \cap K) /\ Len(Keep(s, K)) <= Len(s)
<1> DEFINE f == CHOOSE g : g = Table(g, s, K, Len(s))
<1>1. Keep(s, K) = f[Len(s)]
  BY DEF Keep, Table
<1>2. f = Table(f, s, K, Len(s))
  BY TableExists
<1> HIDE DEF f
<1> DEFINE T == {i \in Nat : i <= Len(s) /\ ~ (f[i] \in Seq(S \cap K) /\ Len(f[i]) <= i)}
<1>3. Len(s) \in Nat
  BY LenProperties
<1>4. SUFFICES T = {}
  BY <1>1, <1>3
<1>5. SUFFICES ASSUME T # {} PROVE FALSE
  OBVIOUS
<1>6. PICK n \in T : \A m \in T : n <= m
  BY <1>5, LeastNatural
<1>7. n \in 0 .. Len(s)
  BY <1>3, <1>6
<1>8. f[n] = IF n = 0 THEN <<>> ELSE IF s[n] \in K THEN Append(f[n - 1], s[n]) ELSE f[n - 1]
  <2>1. f[n] = Table(f, s, K, Len(s))[n]
    BY <1>2
  <2> QED BY <1>7, <2>1 DEF Table
<1>9. CASE n = 0
  <2>1. f[n] = <<>>
    BY <1>8, <1>9
  <2>2. <<>> \in Seq(S \cap K) /\ Len(<<>>) = 0
    BY EmptySeq
  <2> QED BY <1>6, <1>9, <2>1, <2>2
<1>10. CASE n # 0
  <2>1. n - 1 \in Nat /\ n - 1 \notin T /\ n - 1 <= Len(s) /\ n \in 1 .. Len(s)
    BY <1>3, <1>6, <1>7, <1>10
  <2>2. f[n - 1] \in Seq(S \cap K) /\ Len(f[n - 1]) <= n - 1
    BY <2>1
  <2>3. s[n] \in S
    BY <2>1, ElementOfSeq
  <2>4. CASE s[n] \in K
    <3>1. f[n] = Append(f[n - 1], s[n])
      BY <1>8, <1>10, <2>4
    <3>2. s[n] \in S \cap K
      BY <2>3, <2>4
    <3>3. f[n] \in Seq(S \cap K) /\ Len(f[n]) = Len(f[n - 1]) + 1
      BY <2>2, <3>1, <3>2, AppendProperties
    <3> QED BY <1>6, <2>1, <2>2, <3>3, LenProperties
  <2>5. CASE s[n] \notin K
    <3>1. f[n] = f[n - 1]
      BY <1>8, <1>10, <2>5
    <3> QED BY <1>6, <2>1, <2>2, <3>1, LenProperties
  <2> QED BY <2>4, <2>5
<1> QED BY <1>9, <1>10

-----------------------------------------------------------------------------
(***************************************************************************)
(* t is made of entries of s, each of them taken at most once.             *)
(***************************************************************************)
Picks(t, s) ==
  \E h \in [DOMAIN t -> DOMAIN s] :
    /\ \A i \in DOMAIN t : t[i] = s[h[i]]
    /\ \A i, j \in DOMAIN t : h[i] = h[j] => i = j

(***************************************************************************)
(* The same, from the first n places of s.                                 *)
(***************************************************************************)
Taken(t, s, n) ==
  \E h \in [1 .. Len(t) -> 1 .. n] :
    /\ \A i \in 1 .. Len(t) : t[i] = s[h[i]]
    /\ \A i, j \in 1 .. Len(t) : h[i] = h[j] => i = j

(***************************************************************************)
(* Keep takes no entry twice.                                              *)
(***************************************************************************)
LEMMA KeepPicks ==
  ASSUME NEW S, NEW s \in Seq(S), NEW K
  PROVE  Picks(Keep(s, K), s)
<1> DEFINE f == CHOOSE g : g = Table(g, s, K, Len(s))
           T == {n \in Nat : n <= Len(s) /\ ~ (f[n] \in Seq(S) /\ Taken(f[n], s, n))}
<1>1. Keep(s, K) = f[Len(s)]
  BY DEF Keep, Table
<1>2. f = Table(f, s, K, Len(s))
  BY TableExists
<1> HIDE DEF f
<1>3. Len(s) \in Nat /\ DOMAIN s = 1 .. Len(s)
  BY LenProperties
<1>4. SUFFICES T = {}
  <2>1. f[Len(s)] \in Seq(S) /\ Taken(f[Len(s)], s, Len(s))
    BY <1>3, <1>4
  <2>2. DOMAIN f[Len(s)] = 1 .. Len(f[Len(s)])
    BY <2>1, LenProperties
  <2> DEFINE t == f[Len(s)]
  <2>3. Taken(t, s, Len(s)) /\ DOMAIN t = 1 .. Len(t)
    BY <2>1, <2>2
  <2>4. Keep(s, K) = t
    BY <1>1
  <2> HIDE DEF t
  <2>5. Picks(t, s)
    <3>1. /\ DOMAIN t = 1 .. Len(t) /\ DOMAIN s = 1 .. Len(s)
          /\ \E h \in [1 .. Len(t) -> 1 .. Len(s)] :
               /\ \A i \in 1 .. Len(t) : t[i] = s[h[i]]
               /\ \A i, j \in 1 .. Len(t) : h[i] = h[j] => i = j
      BY <1>3, <2>3 DEF Taken
    <3> QED BY <3>1, Zenon DEF Picks
  <2> QED BY <2>4, <2>5
<1>5. SUFFICES ASSUME T # {} PROVE FALSE
  OBVIOUS
<1>6. PICK n \in T : \A m \in T : n <= m
  BY <1>5, LeastNatural
<1>7. n \in 0 .. Len(s)
  BY <1>3, <1>6
<1>8. f[n] = IF n = 0 THEN <<>> ELSE IF s[n] \in K THEN Append(f[n - 1], s[n]) ELSE f[n - 1]
  <2>1. f[n] = Table(f, s, K, Len(s))[n]
    BY <1>2
  <2> QED BY <1>7, <2>1 DEF Table
<1>9. CASE n = 0
  <2>1. f[n] = <<>> /\ <<>> \in Seq(S) /\ Len(<<>>) = 0
    BY <1>8, <1>9, EmptySeq
  <2>2. Taken(<<>>, s, 0)
    <3>1. [i \in 1 .. 0 |-> i] \in [1 .. Len(<<>>) -> 1 .. 0]
      BY <2>1
    <3>2. 1 .. Len(<<>>) = {}
      BY <2>1
    <3> QED BY <3>1, <3>2 DEF Taken
  <2> QED BY <1>6, <1>9, <2>1, <2>2
<1>10. CASE n # 0
  <2> DEFINE t == f[n - 1]
  <2>1. n - 1 \in Nat /\ n - 1 \notin T /\ n - 1 <= Len(s) /\ n \in 1 .. Len(s)
    BY <1>3, <1>6, <1>7, <1>10
  <2>2. t \in Seq(S) /\ Taken(t, s, n - 1)
    BY <2>1
  <2>3. PICK h \in [1 .. Len(t) -> 1 .. n - 1] :
          /\ \A i \in 1 .. Len(t) : t[i] = s[h[i]]
          /\ \A i, j \in 1 .. Len(t) : h[i] = h[j] => i = j
    BY <2>2 DEF Taken
  <2>4. Len(t) \in Nat /\ s[n] \in S
    BY <2>1, <2>2, LenProperties, ElementOfSeq
  <2> HIDE DEF t
  <2>5. CASE s[n] \in K
    <3> DEFINE g == [i \in 1 .. Len(t) + 1 |-> IF i = Len(t) + 1 THEN n ELSE h[i]]
               u == Append(t, s[n])
    <3>1. f[n] = u
      BY <1>8, <1>10, <2>5 DEF t
    <3>2. /\ u \in Seq(S) /\ Len(u) = Len(t) + 1
          /\ \A i \in 1 .. Len(t) : u[i] = t[i]
          /\ u[Len(t) + 1] = s[n]
      BY <2>2, <2>4, AppendProperties DEF t
    <3> HIDE DEF u
    <3>3. \A i \in 1 .. Len(t) : i \in 1 .. Len(t) + 1 /\ i # Len(t) + 1 /\ h[i] \in 1 .. n - 1
      BY <2>3, <2>4
    <3>4. g \in [1 .. Len(u) -> 1 .. n]
      BY <2>1, <2>4, <3>2, <3>3
    <3>5. \A i \in 1 .. Len(u) : u[i] = s[g[i]]
      <4>1. ASSUME NEW i \in 1 .. Len(t) PROVE u[i] = s[g[i]]
        BY <2>3, <3>2, <3>3
      <4>2. u[Len(t) + 1] = s[g[Len(t) + 1]]
        BY <2>4, <3>2
      <4> HIDE DEF g
      <4> QED BY <2>4, <3>2, <4>1, <4>2
    <3>6. \A i, j \in 1 .. Len(u) : g[i] = g[j] => i = j
      BY <2>1, <2>3, <2>4, <3>2, <3>3
    <3> HIDE DEF g
    <3>7. Taken(u, s, n)
      BY <3>4, <3>5, <3>6 DEF Taken
    <3> QED BY <1>6, <3>1, <3>2, <3>7
  <2>6. CASE s[n] \notin K
    <3>1. f[n] = t
      BY <1>8, <1>10, <2>6 DEF t
    <3>2. h \in [1 .. Len(t) -> 1 .. n]
      BY <2>1, <2>3
    <3>3. Taken(t, s, n)
      BY <2>3, <3>2 DEF Taken
    <3> QED BY <1>6, <2>2, <3>1, <3>3 DEF t
  <2> QED BY <2>5, <2>6
<1> QED BY <1>9, <1>10

(***************************************************************************)
(* RemoveAt leaves every entry but the one at its place.                   *)
(***************************************************************************)
LEMMA RemoveAtEntries ==
  ASSUME NEW S, NEW s \in Seq(S), NEW k \in 1 .. Len(s),
         NEW i \in 1 .. Len(RemoveAt(s, k))
  PROVE  RemoveAt(s, k)[i] = s[IF i < k THEN i ELSE i + 1]
<1>1. Len(s) \in Nat /\ \A j \in 1 .. Len(s) : s[j] \in S
  BY LenProperties, ElementOfSeq
<1> DEFINE a == SubSeq(s, 1, k - 1)
           b == SubSeq(s, k + 1, Len(s))
<1>2. a \in Seq(S) /\ Len(a) = k - 1 /\ \A j \in 1 .. k - 1 : a[j] = s[j]
  <2>1. 1 \in Int /\ k - 1 \in Int /\ \A j \in 1 .. k - 1 : s[j] \in S
    BY <1>1
  <2> QED BY <2>1, SubSeqProperties
<1>3. b \in Seq(S) /\ Len(b) = Len(s) - k /\ \A j \in 1 .. Len(s) - k : b[j] = s[k + j]
  <2>1. k + 1 \in Int /\ Len(s) \in Int /\ \A j \in k + 1 .. Len(s) : s[j] \in S
    BY <1>1
  <2> QED BY <1>1, <2>1, SubSeqProperties
<1>4. RemoveAt(s, k) = a \o b
  BY DEF RemoveAt
<1>5. i \in 1 .. Len(s) - 1
  BY RemoveAtType
<1> HIDE DEF a, b
<1>6. (a \o b)[i] = IF i <= Len(a) THEN a[i] ELSE b[i - Len(a)]
  BY <1>1, <1>2, <1>3, <1>5, ConcatProperties
<1> QED BY <1>1, <1>2, <1>3, <1>4, <1>5, <1>6

LEMMA RemoveAtPicks ==
  ASSUME NEW S, NEW s \in Seq(S), NEW k \in 1 .. Len(s)
  PROVE  Picks(RemoveAt(s, k), s)
<1> DEFINE t == RemoveAt(s, k)
           h == [i \in DOMAIN t |-> IF i < k THEN i ELSE i + 1]
<1>1. /\ Len(s) \in Nat /\ DOMAIN s = 1 .. Len(s)
      /\ t \in Seq(S) /\ Len(t) = Len(s) - 1 /\ DOMAIN t = 1 .. Len(t)
  BY LenProperties, RemoveAtType
<1>2. \A i \in DOMAIN t : t[i] = s[h[i]]
  BY <1>1, RemoveAtEntries
<1> HIDE DEF t
<1>3. h \in [DOMAIN t -> DOMAIN s]
  BY <1>1
<1>4. \A i, j \in DOMAIN t : h[i] = h[j] => i = j
  BY <1>1
<1> HIDE DEF h
<1> QED BY <1>2, <1>3, <1>4 DEF Picks, t

(***************************************************************************)
(* A ring of distinct entries that lacks one of finitely many is shorter   *)
(* than they are many.                                                     *)
(***************************************************************************)
LEMMA RoomInRing ==
  ASSUME NEW S, IsFiniteSet(S), NEW s \in Seq(S), NEW e \in S, ~Holds(s, e),
         \A i, j \in DOMAIN s : s[i] = s[j] => i = j
  PROVE  Len(s) < Cardinality(S)
<1> DEFINE T == S \ {e}
           n == Len(s)
<1>1. n \in Nat /\ DOMAIN s = 1 .. n /\ s \in [1 .. n -> S]
  BY LenProperties
<1>2. IsFiniteSet(T) /\ Cardinality(T) = Cardinality(S) - 1
  BY FS_RemoveElement
<1>3. s \in Injection(1 .. n, T)
  <2>1. \A i \in 1 .. n : s[i] \in T
    BY <1>1 DEF Holds
  <2>2. s \in [1 .. n -> T]
    BY <1>1, <2>1
  <2>3. \A i, j \in 1 .. n : s[i] = s[j] => i = j
    BY <1>1
  <2> HIDE DEF T, n
  <2> QED BY <2>2, <2>3 DEF Injection, IsInjective
<1> HIDE DEF T, n
<1>4. Cardinality(1 .. n) <= Cardinality(T)
  BY <1>2, <1>3, FS_Injection
<1>5. Cardinality(1 .. n) = n
  <2>1. n \in Int /\ 1 \in Int
    BY <1>1
  <2>2. Cardinality(1 .. n) = IF 1 > n THEN 0 ELSE n - 1 + 1
    BY <2>1, FS_Interval
  <2> QED BY <1>1, <2>2
<1>6. Cardinality(S) \in Nat
  BY FS_CardinalityType
<1>7. n < Cardinality(S)
  BY <1>1, <1>2, <1>4, <1>5, <1>6
<1> QED BY <1>7 DEF n

-----------------------------------------------------------------------------
(***************************************************************************)
(* The repeater's record.  Its types and capacities.                       *)
(***************************************************************************)
Typed(r) ==
  /\ r \in Repeaters
  /\ Len(r.watches) <= WATCH_RING_SIZE
  /\ Len(r.recent) <= RECENT_HOP_MEMORY_SIZE
  /\ Len(r.tx_ring) <= TX_RING_SIZE

Gated(r) ==
  /\ r.gate = IF r.state \in Relaying
              THEN [enabled |-> TRUE, hop |-> r.output_hop] ELSE Closed
  /\ r.output_hop = 0 <=> r.state = LISTENING

(***************************************************************************)
(* The windows, but for the count that CountPeer may have brought to its   *)
(* limit in the middle of a call.                                          *)
(***************************************************************************)
Counting(r) ==
  /\ r.state = CANDIDATE => /\ r.target_frames \in CANDIDATE_FRAMES
                            /\ r.frames_in_state < r.target_frames
  /\ r.state = COOLDOWN => /\ r.target_frames \in COOLDOWN_FRAMES
                           /\ r.frames_in_state < r.target_frames
  /\ r.state \in {LISTENING, ACTIVE} => r.target_frames = 0 /\ r.frames_in_state = 0

PeerRecent(r) ==
  r.state = COOLDOWN => r.frames_since_peer < COOLDOWN_PEER_STOPPED_FRAMES

Steady(r) == Typed(r) /\ Gated(r) /\ Counting(r)
Sound(r) == Steady(r) /\ PeerRecent(r)

-----------------------------------------------------------------------------
(***************************************************************************)
(* Operations on one list leave the role alone.                            *)
(***************************************************************************)
LEMMA NewWatches ==
  ASSUME NEW r, Steady(r), NEW ws \in Seq(Watches), Len(ws) <= WATCH_RING_SIZE
  PROVE  /\ Steady([r EXCEPT !.watches = ws])
         /\ PeerRecent(r) => PeerRecent([r EXCEPT !.watches = ws])
  BY DEF Steady, Typed, Repeaters, Gated, Counting, PeerRecent

LEMMA NewRecent ==
  ASSUME NEW r, Sound(r), NEW fs \in Seq(Frames), Len(fs) <= RECENT_HOP_MEMORY_SIZE
  PROVE  Sound([r EXCEPT !.recent = fs])
  BY DEF Sound, Steady, Typed, Repeaters, Gated, Counting, PeerRecent

LEMMA ToCandidateSound ==
  ASSUME NEW r, Sound(r), r.state = LISTENING,
         NEW h \in 1 .. MAX_HOP_COUNT, NEW c \in CANDIDATE_FRAMES
  PROVE  Sound(ToCandidate(r, h, c))
<1> DEFINE q == ToCandidate(r, h, c)
<1>1. /\ q.state = CANDIDATE /\ q.target_frames = c /\ q.frames_in_state = 0
      /\ q.output_hop = h /\ q.gate = r.gate /\ q.watches = r.watches
      /\ q.recent = r.recent /\ q.tx_ring = r.tx_ring
  BY DEF ToCandidate, Sound, Steady, Typed, Repeaters
<1>2. c \in Nat \ {0} /\ h \in 0 .. MAX_HOP_COUNT /\ h # 0
  BY WindowAssumption, HopAssumption
<1>3. q \in Repeaters
  BY <1>2 DEF ToCandidate, Sound, Steady, Typed, Repeaters
<1> HIDE DEF q
<1>4. Typed(q)
  BY <1>1, <1>3 DEF Typed, Sound, Steady
<1>5. Gated(q)
  BY <1>1, <1>2 DEF Sound, Steady, Gated, Closed, Relaying, LISTENING, CANDIDATE, ACTIVE, COOLDOWN
<1>6. Counting(q) /\ PeerRecent(q)
  BY <1>1, <1>2 DEF Counting, PeerRecent, LISTENING, CANDIDATE, ACTIVE, COOLDOWN
<1> QED BY <1>4, <1>5, <1>6 DEF Sound, Steady, q

LEMMA ExpireWatchesSound ==
  ASSUME NEW r, Sound(r), NEW c \in CANDIDATE_FRAMES
  PROVE  Sound(ExpireWatches(r, c))
<1> DEFINE ws == Keep(r.watches, {w \in Watches : w.left > 0})
           swept == [r EXCEPT !.watches = ws]
<1>1. r.watches \in Seq(Watches) /\ Len(r.watches) <= WATCH_RING_SIZE
  BY DEF Sound, Steady, Typed, Repeaters
<1>2. ws \in Seq(Watches) /\ Len(ws) <= WATCH_RING_SIZE
  <2>1. /\ ws \in Seq(Watches \cap {w \in Watches : w.left > 0})
        /\ Len(ws) <= Len(r.watches)
    BY <1>1, KeepType
  <2>2. ws \in Seq(Watches)
    BY <2>1
  <2> QED BY <1>1, <2>1, <2>2, RingAssumption, LenProperties
<1>3. Sound(swept)
  BY <1>2, NewWatches DEF Sound
<1>4. CASE ExpiredHops(r) # {} /\ r.state = LISTENING
  <2>1. ExpiredHops(r) \subseteq 0 .. MAX_HOP_COUNT - 1
    <3>1. ASSUME NEW i \in DOMAIN r.watches PROVE r.watches[i].hop \in 0 .. MAX_HOP_COUNT - 1
      <4>1. r.watches[i] \in Watches
        BY <1>1, ElementOfSeq, LenProperties
      <4> QED BY <4>1 DEF Watches
    <3> QED BY <3>1 DEF ExpiredHops
  <2>2. Min(ExpiredHops(r)) \in 0 .. MAX_HOP_COUNT - 1
    <3>1. ExpiredHops(r) \in SUBSET Nat
      BY <2>1, HopAssumption
    <3> QED BY <1>4, <2>1, <3>1, MinOfNaturals
  <2> DEFINE h == Min(ExpiredHops(r)) + 1
  <2>3. h \in 1 .. MAX_HOP_COUNT
    BY <2>2, HopAssumption
  <2>4. ExpireWatches(r, c) = ToCandidate(swept, h, c)
    BY <1>4 DEF ExpireWatches
  <2>6. swept.state = LISTENING
    BY <1>4 DEF Sound, Steady, Typed, Repeaters
  <2> HIDE DEF h, swept
  <2> QED BY <1>3, <2>3, <2>4, <2>6, ToCandidateSound
<1>5. CASE ~ (ExpiredHops(r) # {} /\ r.state = LISTENING)
  BY <1>3, <1>5 DEF ExpireWatches
<1> QED BY <1>4, <1>5

LEMMA ResolveWatchCoverSteady ==
  ASSUME NEW r, Steady(r), NEW f \in Frames
  PROVE  Steady(ResolveWatchCover(r, f))
<1>1. r.watches \in Seq(Watches) /\ Len(r.watches) <= WATCH_RING_SIZE
  BY DEF Steady, Typed, Repeaters
<1>2. CASE Covered(r, f) = {}
  BY <1>2 DEF ResolveWatchCover
<1>3. CASE Covered(r, f) # {}
  <2> DEFINE i == Min(Covered(r, f))
             ws == RemoveAt(r.watches, i)
  <2>1. Len(r.watches) \in Nat /\ Covered(r, f) \subseteq 1 .. Len(r.watches)
    BY <1>1, LenProperties DEF Covered
  <2>2. i \in 1 .. Len(r.watches)
    <3>1. Covered(r, f) \in SUBSET Nat
      BY <2>1
    <3> QED BY <1>3, <2>1, <3>1, MinOfNaturals
  <2> HIDE DEF i
  <2>3. ws \in Seq(Watches) /\ Len(ws) = Len(r.watches) - 1
    BY <1>1, <2>2, RemoveAtType
  <2>4. Len(ws) <= WATCH_RING_SIZE
    BY <1>1, <2>1, <2>3, RingAssumption
  <2>5. ResolveWatchCover(r, f) = [r EXCEPT !.watches = ws]
    BY <1>3 DEF ResolveWatchCover, i
  <2> HIDE DEF ws
  <2> QED BY <2>3, <2>4, <2>5, NewWatches
<1> QED BY <1>2, <1>3

LEMMA CountPeerSteady ==
  ASSUME NEW r, Steady(r), NEW f \in Frames
  PROVE  Steady(CountPeer(r, f))
<1>1. ASSUME NEW n \in Nat PROVE Steady([r EXCEPT !.frames_since_peer = n])
  BY DEF Steady, Typed, Repeaters, Gated, Counting
<1>2. r.frames_since_peer + 1 \in Nat
  BY DEF Steady, Typed, Repeaters
<1>3. CountPeer(r, f) \in {r, [r EXCEPT !.frames_since_peer = 0],
                           [r EXCEPT !.frames_since_peer = r.frames_since_peer + 1]}
  BY DEF CountPeer
<1> QED BY <1>1, <1>2, <1>3

LEMMA AddWatchSound ==
  ASSUME NEW r, Sound(r), NEW f \in Frames
  PROVE  Sound(AddWatch(r, f))
<1>1. CASE f.hop < MAX_HOP_COUNT
  <2> DEFINE w == [key |-> f.key, hop |-> f.hop, left |-> PEER_WATCH]
             ws == Push(r.watches, w, WATCH_RING_SIZE)
  <2>1. w \in Watches
    BY <1>1, HopAssumption, TimeAssumption DEF Frames, Watches
  <2>2. r.watches \in Seq(Watches) /\ Len(r.watches) <= WATCH_RING_SIZE
    BY DEF Sound, Steady, Typed, Repeaters
  <2>3. Len(r.watches) \in Nat /\ WATCH_RING_SIZE \in Nat \ {0}
    BY <2>2, LenProperties, RingAssumption
  <2> HIDE DEF w
  <2>4. /\ ws \in Seq(Watches)
        /\ Len(ws) = IF Len(r.watches) = WATCH_RING_SIZE THEN WATCH_RING_SIZE
                     ELSE Len(r.watches) + 1
    BY <2>1, <2>2, <2>3, PushProperties
  <2>5. Len(ws) <= WATCH_RING_SIZE
    BY <2>2, <2>3, <2>4
  <2>6. AddWatch(r, f) = [r EXCEPT !.watches = ws]
    BY <1>1 DEF AddWatch, w
  <2> HIDE DEF ws
  <2> QED BY <2>4, <2>5, <2>6, NewWatches DEF Sound
<1>2. CASE ~ (f.hop < MAX_HOP_COUNT)
  BY <1>2 DEF AddWatch
<1> QED BY <1>1, <1>2

LEMMA CancelWatchesAboveSound ==
  ASSUME NEW r, Sound(r), NEW f \in Frames
  PROVE  Sound(CancelWatchesAbove(r, f))
<1> DEFINE K == {w \in Watches : ~(w.key = f.key /\ w.hop > f.hop)}
           ws == Keep(r.watches, K)
<1>1. r.watches \in Seq(Watches) /\ Len(r.watches) <= WATCH_RING_SIZE
  BY DEF Sound, Steady, Typed, Repeaters
<1>2. ws \in Seq(Watches \cap K) /\ Len(ws) <= Len(r.watches)
  BY <1>1, KeepType
<1>3. ws \in Seq(Watches)
  BY <1>2
<1>4. Len(ws) <= WATCH_RING_SIZE
  BY <1>1, <1>2, <1>3, RingAssumption, LenProperties
<1>5. CancelWatchesAbove(r, f) = [r EXCEPT !.watches = ws]
  BY DEF CancelWatchesAbove
<1> HIDE DEF ws
<1> QED BY <1>3, <1>4, <1>5, NewWatches DEF Sound

LEMMA NoteHopSound ==
  ASSUME NEW r, Sound(r), NEW f \in Frames
  PROVE  Sound(NoteHop(r, f))
<1> DEFINE places == {i \in DOMAIN r.recent : r.recent[i].key = f.key}
<1>1. r.recent \in Seq(Frames) /\ Len(r.recent) <= RECENT_HOP_MEMORY_SIZE
  BY DEF Sound, Steady, Typed, Repeaters
<1>2. Len(r.recent) \in Nat /\ RECENT_HOP_MEMORY_SIZE \in Nat \ {0}
  BY <1>1, LenProperties, RingAssumption
<1>3. CASE f.key \in Unsequenced
  BY <1>3, AddWatchSound DEF NoteHop
<1>4. CASE f.key \notin Unsequenced /\ places = {}
  <2> DEFINE fs == Push(r.recent, f, RECENT_HOP_MEMORY_SIZE)
  <2>1. /\ fs \in Seq(Frames)
        /\ Len(fs) = IF Len(r.recent) = RECENT_HOP_MEMORY_SIZE THEN RECENT_HOP_MEMORY_SIZE
                     ELSE Len(r.recent) + 1
    BY <1>1, <1>2, PushProperties
  <2>2. Len(fs) <= RECENT_HOP_MEMORY_SIZE
    BY <1>1, <1>2, <2>1
  <2>3. NoteHop(r, f) = AddWatch([r EXCEPT !.recent = fs], f)
    BY <1>4 DEF NoteHop
  <2> HIDE DEF fs
  <2> QED BY <2>1, <2>2, <2>3, NewRecent, AddWatchSound
<1>5. CASE f.key \notin Unsequenced /\ places # {}
  <2> DEFINE i == Min(places)
             fs == [r.recent EXCEPT ![i] = f]
  <2>1. i \in 1 .. Len(r.recent)
    <3>1. places \in SUBSET Nat /\ places \subseteq 1 .. Len(r.recent)
      BY <1>1, <1>2, LenProperties
    <3> QED BY <1>5, <3>1, MinOfNaturals
  <2> HIDE DEF i
  <2>2. fs \in Seq(Frames) /\ Len(fs) = Len(r.recent)
    BY <1>1, <2>1, ExceptSeq
  <2>3. NoteHop(r, f) \in {r, AddWatch(CancelWatchesAbove([r EXCEPT !.recent = fs], f), f)}
    BY <1>5 DEF NoteHop, i
  <2> HIDE DEF fs
  <2> QED BY <1>1, <2>2, <2>3, NewRecent, CancelWatchesAboveSound, AddWatchSound
<1> QED BY <1>3, <1>4, <1>5

-----------------------------------------------------------------------------
(***************************************************************************)
(* Frames: a relay touches the transmit ring only; whatever state handles  *)
(* the frame, the window it leaves open is not used up and the gate agrees *)
(* with the role.                                                          *)
(***************************************************************************)
LEMMA TransmitRelaySteady ==
  ASSUME NEW r, Steady(r), NEW f \in Frames, NEW duplicate \in BOOLEAN, NEW sent \in BOOLEAN
  PROVE  /\ Steady(TransmitRelay(r, f, duplicate, sent))
         /\ TransmitRelay(r, f, duplicate, sent).state = r.state
         /\ TransmitRelay(r, f, duplicate, sent).frames_in_state = r.frames_in_state
         /\ TransmitRelay(r, f, duplicate, sent).target_frames = r.target_frames
         /\ TransmitRelay(r, f, duplicate, sent).frames_since_peer = r.frames_since_peer
<1>1. CASE ~duplicate /\ f.hop + 1 = r.output_hop /\ sent
  <2> DEFINE e == [key |-> f.key, hop |-> f.hop + 1]
             tx == Push(r.tx_ring, e, TX_RING_SIZE)
  <2>1. r.tx_ring \in Seq(Relays) /\ Len(r.tx_ring) <= TX_RING_SIZE
    BY DEF Steady, Typed, Repeaters
  <2>2. Len(r.tx_ring) \in Nat /\ TX_RING_SIZE \in Nat \ {0}
    BY <2>1, LenProperties, RingAssumption
  <2>3. e \in Relays
    <3>1. r.output_hop \in 0 .. MAX_HOP_COUNT
      BY DEF Steady, Typed, Repeaters
    <3> QED BY <1>1, <3>1, HopAssumption DEF Frames, Relays
  <2> HIDE DEF e
  <2>4. /\ tx \in Seq(Relays)
        /\ Len(tx) = IF Len(r.tx_ring) = TX_RING_SIZE THEN TX_RING_SIZE
                     ELSE Len(r.tx_ring) + 1
    BY <2>1, <2>2, <2>3, PushProperties
  <2>5. Len(tx) <= TX_RING_SIZE
    BY <2>1, <2>2, <2>4
  <2>6. TransmitRelay(r, f, duplicate, sent) = [r EXCEPT !.idle = 0, !.tx_ring = tx]
    BY <1>1 DEF TransmitRelay, e
  <2> HIDE DEF tx
  <2>7. 0 \in 0 .. ACTIVE_IDLE_TIMEOUT
    BY TimeAssumption
  <2> QED BY <2>4, <2>5, <2>6, <2>7 DEF Steady, Typed, Repeaters, Gated, Counting
<1>2. CASE ~ (~duplicate /\ f.hop + 1 = r.output_hop /\ sent)
  BY <1>2 DEF TransmitRelay
<1> QED BY <1>1, <1>2

LEMMA ToListeningSound ==
  ASSUME NEW r, Steady(r)
  PROVE  Sound(ToListening(r))
<1>1. 0 \in 0 .. MAX_HOP_COUNT
  BY HopAssumption
<1> QED BY <1>1 DEF ToListening, Sound, Steady, Typed, Repeaters, Gated, Counting, PeerRecent,
     Closed, Gates, Relaying, LISTENING, CANDIDATE, ACTIVE, COOLDOWN

LEMMA ToActiveSound ==
  ASSUME NEW r, Steady(r), r.state # LISTENING
  PROVE  Sound(ToActive(r))
<1>1. 0 \in 0 .. ACTIVE_IDLE_TIMEOUT
  BY TimeAssumption
<1>2. r.output_hop # 0
  BY DEF Steady, Gated
<1>3. Typed(ToActive(r)) /\ Counting(ToActive(r)) /\ PeerRecent(ToActive(r))
  BY <1>1 DEF ToActive, Steady, Typed, Repeaters, Counting, PeerRecent, Gates,
     LISTENING, CANDIDATE, ACTIVE, COOLDOWN
<1>4. Gated(ToActive(r))
  BY <1>2 DEF ToActive, Steady, Typed, Repeaters, Gated, Relaying,
     LISTENING, CANDIDATE, ACTIVE, COOLDOWN
<1> QED BY <1>3, <1>4 DEF Sound, Steady

LEMMA ToCooldownSound ==
  ASSUME NEW r, Steady(r), r.state # LISTENING, NEW c \in COOLDOWN_FRAMES
  PROVE  Sound(ToCooldown(r, c))
<1>1. c \in Nat \ {0} /\ COOLDOWN_PEER_STOPPED_FRAMES \in Nat \ {0}
  BY WindowAssumption
<1>2. r.output_hop # 0
  BY DEF Steady, Gated
<1>3. Typed(ToCooldown(r, c)) /\ Counting(ToCooldown(r, c)) /\ PeerRecent(ToCooldown(r, c))
  <2>1. Typed(ToCooldown(r, c))
    BY <1>1 DEF ToCooldown, Steady, Typed, Repeaters, Gates
  <2>2. /\ ToCooldown(r, c).state = COOLDOWN /\ ToCooldown(r, c).target_frames = c
        /\ ToCooldown(r, c).frames_in_state = 0 /\ ToCooldown(r, c).frames_since_peer = 0
    BY DEF ToCooldown, Steady, Typed, Repeaters
  <2>3. Counting(ToCooldown(r, c)) /\ PeerRecent(ToCooldown(r, c))
    BY <1>1, <2>2 DEF Counting, PeerRecent, LISTENING, CANDIDATE, ACTIVE, COOLDOWN
  <2> QED BY <2>1, <2>3
<1>4. Gated(ToCooldown(r, c))
  BY <1>2 DEF ToCooldown, Steady, Typed, Repeaters, Gated, Relaying,
     LISTENING, CANDIDATE, ACTIVE, COOLDOWN
<1> QED BY <1>3, <1>4 DEF Sound, Steady

LEMMA CountFrameSteady ==
  ASSUME NEW r, Steady(r), r.state \in {CANDIDATE, COOLDOWN},
         ~ (r.frames_in_state + 1 >= r.target_frames)
  PROVE  /\ Steady(CountFrame(r))
         /\ CountFrame(r).state = r.state
         /\ CountFrame(r).frames_since_peer = r.frames_since_peer
<1>1. r.frames_in_state \in Nat /\ r.target_frames \in Nat
  BY DEF Steady, Typed, Repeaters
<1>2. Typed(CountFrame(r)) /\ CountFrame(r).frames_in_state = r.frames_in_state + 1
  <2>1. ASSUME NEW n \in Nat
        PROVE  /\ Typed([r EXCEPT !.frames_in_state = n])
               /\ [r EXCEPT !.frames_in_state = n].frames_in_state = n
    BY DEF Steady, Typed, Repeaters
  <2>2. r.frames_in_state + 1 \in Nat
    BY <1>1
  <2> QED BY <2>1, <2>2 DEF CountFrame
<1>3. /\ CountFrame(r).state = r.state /\ CountFrame(r).target_frames = r.target_frames
      /\ CountFrame(r).frames_since_peer = r.frames_since_peer
      /\ CountFrame(r).output_hop = r.output_hop /\ CountFrame(r).gate = r.gate
      /\ CountFrame(r).frames_in_state \in Nat
  BY <1>1 DEF CountFrame, Steady, Typed, Repeaters
<1>4. Gated(CountFrame(r))
  BY <1>3 DEF Steady, Gated
<1>5. Counting(CountFrame(r))
  BY <1>1, <1>2, <1>3 DEF Steady, Counting, LISTENING, CANDIDATE, ACTIVE, COOLDOWN
<1> QED BY <1>2, <1>3, <1>4, <1>5 DEF Steady

LEMMA OnFrameSound ==
  ASSUME NEW r, Steady(r), NEW f \in Frames, NEW duplicate \in BOOLEAN, NEW sent \in BOOLEAN,
         NEW hit \in BOOLEAN, NEW c \in COOLDOWN_FRAMES
  PROVE  Sound(OnFrame(r, f, duplicate, sent, hit, c))
<1> USE DEF LISTENING, CANDIDATE, ACTIVE, COOLDOWN
<1> DEFINE relayed == TransmitRelay(r, f, duplicate, sent)
<1>1. r.state \in {LISTENING, CANDIDATE, ACTIVE, COOLDOWN}
  BY DEF Steady, Typed, Repeaters
<1>2. /\ Steady(relayed) /\ relayed.state = r.state
      /\ relayed.frames_in_state = r.frames_in_state
      /\ relayed.target_frames = r.target_frames
      /\ relayed.frames_since_peer = r.frames_since_peer
  BY TransmitRelaySteady
<1> HIDE DEF relayed
<1>3. CASE r.state = LISTENING
  BY <1>3 DEF OnFrame, Sound, PeerRecent
<1>4. CASE r.state = CANDIDATE
  <2>1. OnFrame(r, f, duplicate, sent, hit, c) = OnFrameCandidate(r, f)
    BY <1>4 DEF OnFrame
  <2>2. CASE f.hop = r.output_hop
    BY <2>1, <2>2, ToListeningSound DEF OnFrameCandidate
  <2>3. CASE f.hop # r.output_hop /\ r.frames_in_state + 1 >= r.target_frames
    BY <1>4, <2>1, <2>3, ToActiveSound DEF OnFrameCandidate
  <2>4. CASE f.hop # r.output_hop /\ ~ (r.frames_in_state + 1 >= r.target_frames)
    BY <1>4, <2>1, <2>4, CountFrameSteady DEF OnFrameCandidate, Sound, PeerRecent
  <2> QED BY <2>2, <2>3, <2>4
<1>5. CASE r.state = ACTIVE
  <2>1. OnFrame(r, f, duplicate, sent, hit, c) = IF hit THEN ToCooldown(relayed, c) ELSE relayed
    BY <1>5 DEF OnFrame, OnFrameActive, relayed
  <2>2. Sound(relayed)
    BY <1>2, <1>5 DEF Sound, PeerRecent
  <2>3. Sound(ToCooldown(relayed, c))
    BY <1>2, <1>5, ToCooldownSound
  <2> QED BY <2>1, <2>2, <2>3
<1>6. CASE r.state = COOLDOWN
  <2>1. OnFrame(r, f, duplicate, sent, hit, c) =
          IF r.frames_since_peer >= COOLDOWN_PEER_STOPPED_FRAMES THEN ToActive(relayed)
          ELSE IF r.frames_in_state + 1 >= r.target_frames THEN ToListening(relayed)
          ELSE CountFrame(relayed)
    BY <1>6 DEF OnFrame, OnFrameCooldown, relayed
  <2>2. Sound(ToActive(relayed)) /\ Sound(ToListening(relayed))
    BY <1>2, <1>6, ToActiveSound, ToListeningSound
  <2>3. ASSUME ~ (r.frames_since_peer >= COOLDOWN_PEER_STOPPED_FRAMES),
               ~ (r.frames_in_state + 1 >= r.target_frames)
        PROVE  Sound(CountFrame(relayed))
    <3>1. /\ Steady(CountFrame(relayed))
          /\ CountFrame(relayed).frames_since_peer = r.frames_since_peer
      BY <1>2, <1>6, <2>3, CountFrameSteady
    <3>2. r.frames_since_peer \in Nat /\ COOLDOWN_PEER_STOPPED_FRAMES \in Nat
      BY WindowAssumption DEF Steady, Typed, Repeaters
    <3> QED BY <2>3, <3>1, <3>2 DEF Sound, PeerRecent
  <2> QED BY <2>1, <2>2, <2>3
<1> QED BY <1>1, <1>3, <1>4, <1>5, <1>6

-----------------------------------------------------------------------------
(***************************************************************************)
(* The entry points.                                                       *)
(***************************************************************************)
LEMMA OnAdmittedFrameSound ==
  ASSUME NEW r, Sound(r), NEW f \in Frames, NEW duplicate \in BOOLEAN, NEW sent \in BOOLEAN,
         NEW b \in CANDIDATE_FRAMES, NEW c \in COOLDOWN_FRAMES
  PROVE  Sound(OnAdmittedFrame(r, f, duplicate, sent, b, c))
<1> DEFINE swept   == ExpireWatches(r, b)
           counted == CountPeer(swept, f)
           covered == ResolveWatchCover(counted, f)
           handled == OnFrame(covered, f, duplicate, sent, PeerHit(r, f), c)
<1>1. Sound(swept)
  BY ExpireWatchesSound
<1>2. Steady(covered)
  <2>1. Steady(counted)
    BY <1>1, CountPeerSteady DEF Sound
  <2> HIDE DEF counted
  <2> QED BY <2>1, ResolveWatchCoverSteady
<1>3. Sound(handled)
  <2>1. PeerHit(r, f) \in BOOLEAN
    BY DEF PeerHit, Holds
  <2> HIDE DEF covered
  <2> QED BY <1>2, <2>1, OnFrameSound
<1>4. OnAdmittedFrame(r, f, duplicate, sent, b, c) = NoteHop(handled, f)
  BY DEF OnAdmittedFrame
<1> HIDE DEF handled
<1> QED BY <1>3, <1>4, NoteHopSound

LEMMA TickRepeaterSound ==
  ASSUME NEW r, Sound(r), NEW b \in CANDIDATE_FRAMES
  PROVE  Sound(TickRepeater(r, b))
<1> DEFINE swept == ExpireWatches(r, b)
<1>1. Sound(swept)
  BY ExpireWatchesSound
<1>2. TickRepeater(r, b) \in {swept, ToListening(swept)}
  BY DEF TickRepeater
<1> HIDE DEF swept
<1> QED BY <1>1, <1>2, ToListeningSound DEF Sound

LEMMA AgeSound ==
  ASSUME NEW r, Sound(r)
  PROVE  Sound(Age(r))
<1> DEFINE ws == [i \in DOMAIN r.watches |-> Countdown(r.watches[i])]
<1>1. /\ r.watches \in Seq(Watches) /\ Len(r.watches) <= WATCH_RING_SIZE
      /\ Len(r.watches) \in Nat /\ DOMAIN r.watches = 1 .. Len(r.watches)
      /\ \A i \in 1 .. Len(r.watches) : r.watches[i] \in Watches
  BY LenProperties, ElementOfSeq DEF Sound, Steady, Typed, Repeaters
<1>2. ASSUME NEW w \in Watches PROVE Countdown(w) \in Watches
  BY TimeAssumption DEF Countdown, Watches
<1>3. ws \in Seq(Watches) /\ Len(ws) = Len(r.watches)
  <2>1. ws \in [1 .. Len(r.watches) -> Watches]
    BY <1>1, <1>2
  <2> HIDE DEF ws
  <2> QED BY <1>1, <2>1, LenProperties
<1>4. Sound([r EXCEPT !.watches = ws])
  <2> HIDE DEF ws
  <2> QED BY <1>1, <1>3, NewWatches DEF Sound
<1>5. \E n \in 0 .. ACTIVE_IDLE_TIMEOUT :
        Age(r) = [[r EXCEPT !.watches = ws] EXCEPT !.idle = n]
  <2>1. r.idle \in 0 .. ACTIVE_IDLE_TIMEOUT
    BY DEF Sound, Steady, Typed, Repeaters
  <2> DEFINE n == IF r.idle < ACTIVE_IDLE_TIMEOUT THEN r.idle + 1 ELSE r.idle
  <2>2. n \in 0 .. ACTIVE_IDLE_TIMEOUT
    BY <2>1, TimeAssumption
  <2>3. Age(r) = [[r EXCEPT !.watches = ws] EXCEPT !.idle = n]
    BY DEF Age, Sound, Steady, Typed, Repeaters
  <2> QED BY <2>2, <2>3
<1> HIDE DEF ws
<1>6. ASSUME NEW q, Sound(q), NEW n \in 0 .. ACTIVE_IDLE_TIMEOUT
      PROVE  Sound([q EXCEPT !.idle = n])
  BY <1>6 DEF Sound, Steady, Typed, Repeaters, Gated, Counting, PeerRecent
<1> QED BY <1>4, <1>5, <1>6

LEMMA NewRepeaterSound == Sound(NewRepeater(Closed))
<1>1. /\ 0 \in 0 .. MAX_HOP_COUNT /\ ACTIVE_IDLE_TIMEOUT \in 0 .. ACTIVE_IDLE_TIMEOUT
      /\ 0 <= WATCH_RING_SIZE /\ 0 <= TX_RING_SIZE /\ 0 <= RECENT_HOP_MEMORY_SIZE
  BY HopAssumption, TimeAssumption, RingAssumption
<1>2. Typed(NewRepeater(Closed))
  BY <1>1, EmptySeq DEF NewRepeater, Typed, Repeaters, Closed, Gates
<1> QED BY <1>2 DEF NewRepeater, Sound, Steady, Gated, Counting, PeerRecent, Relaying,
     LISTENING, CANDIDATE, ACTIVE, COOLDOWN

-----------------------------------------------------------------------------
(***************************************************************************)
(* The transitions and the handling of a frame leave both lists alone.     *)
(***************************************************************************)
LEMMA ToListeningLists ==
  ASSUME NEW r, Steady(r)
  PROVE  /\ ToListening(r).watches = r.watches /\ ToListening(r).recent = r.recent
         /\ ToListening(r).state = LISTENING
  BY DEF ToListening, Steady, Typed, Repeaters

LEMMA ToActiveLists ==
  ASSUME NEW r, Steady(r)
  PROVE  /\ ToActive(r).watches = r.watches /\ ToActive(r).recent = r.recent
         /\ ToActive(r).state = ACTIVE
  BY DEF ToActive, Steady, Typed, Repeaters

LEMMA ToCooldownLists ==
  ASSUME NEW r, Steady(r), NEW c
  PROVE  /\ ToCooldown(r, c).watches = r.watches /\ ToCooldown(r, c).recent = r.recent
         /\ ToCooldown(r, c).state = COOLDOWN
  BY DEF ToCooldown, Steady, Typed, Repeaters

LEMMA CountFrameLists ==
  ASSUME NEW r, Steady(r)
  PROVE  /\ CountFrame(r).watches = r.watches /\ CountFrame(r).recent = r.recent
         /\ CountFrame(r).state = r.state /\ CountFrame(r).output_hop = r.output_hop
  BY DEF CountFrame, Steady, Typed, Repeaters

LEMMA TransmitRelayLists ==
  ASSUME NEW r, Steady(r), NEW f, NEW duplicate, NEW sent
  PROVE  /\ TransmitRelay(r, f, duplicate, sent).watches = r.watches
         /\ TransmitRelay(r, f, duplicate, sent).recent = r.recent
  BY DEF TransmitRelay, Steady, Typed, Repeaters

(***************************************************************************)
(* Handling a frame leaves both lists alone, and nobody becomes a          *)
(* candidate by it.                                                        *)
(***************************************************************************)
LEMMA OnFrameLists ==
  ASSUME NEW r, Steady(r), NEW f \in Frames, NEW duplicate \in BOOLEAN, NEW sent \in BOOLEAN,
         NEW hit \in BOOLEAN, NEW c \in COOLDOWN_FRAMES
  PROVE  LET q == OnFrame(r, f, duplicate, sent, hit, c)
         IN  /\ q.watches = r.watches /\ q.recent = r.recent
             /\ q.state = CANDIDATE => r.state = CANDIDATE /\ q.output_hop = r.output_hop
<1> USE DEF LISTENING, CANDIDATE, ACTIVE, COOLDOWN
<1> DEFINE t == TransmitRelay(r, f, duplicate, sent)
           q == OnFrame(r, f, duplicate, sent, hit, c)
<1>1. r.state \in {LISTENING, CANDIDATE, ACTIVE, COOLDOWN}
  BY DEF Steady, Typed, Repeaters
<1>2. Steady(t) /\ t.state = r.state /\ t.watches = r.watches /\ t.recent = r.recent
  BY TransmitRelaySteady, TransmitRelayLists
<1> HIDE DEF t
<1>3. CASE r.state = LISTENING
  BY <1>3 DEF OnFrame
<1>4. CASE r.state = CANDIDATE
  <2>1. q \in {ToListening(r), ToActive(r), CountFrame(r)}
    BY <1>4 DEF OnFrame, OnFrameCandidate
  <2> HIDE DEF q
  <2> QED BY <1>4, <2>1, ToListeningLists, ToActiveLists, CountFrameLists DEF q
<1>5. CASE r.state = ACTIVE
  <2>1. q \in {ToCooldown(t, c), t}
    BY <1>5 DEF OnFrame, OnFrameActive, t
  <2> HIDE DEF q
  <2> QED BY <1>2, <1>5, <2>1, ToCooldownLists DEF q
<1>6. CASE r.state = COOLDOWN
  <2>1. q \in {ToActive(t), ToListening(t), CountFrame(t)}
    BY <1>6 DEF OnFrame, OnFrameCooldown, t
  <2> HIDE DEF q
  <2> QED BY <1>2, <1>6, <2>1, ToListeningLists, ToActiveLists, CountFrameLists DEF q
<1> QED BY <1>1, <1>3, <1>4, <1>5, <1>6
-----------------------------------------------------------------------------
(***************************************************************************)
(* The watches a repeater keeps, in no order.  No call makes a watch but   *)
(* for the frame it is given, and that one has its whole time left.        *)
(***************************************************************************)
Watched(r) == {r.watches[i] : i \in DOMAIN r.watches}

LEMMA PicksWatched ==
  ASSUME NEW q, NEW r, Picks(q.watches, r.watches)
  PROVE  Watched(q) \subseteq Watched(r)
<1>1. PICK h \in [DOMAIN q.watches -> DOMAIN r.watches] :
        \A i \in DOMAIN q.watches : q.watches[i] = r.watches[h[i]]
  BY DEF Picks
<1> QED BY <1>1 DEF Watched

LEMMA KeptWatched ==
  ASSUME NEW q, NEW r, r.watches \in Seq(Watches), NEW K, q.watches = Keep(r.watches, K)
  PROVE  Watched(q) \subseteq Watched(r) \cap K
<1>1. Watched(q) \subseteq Watched(r)
  BY KeepPicks, PicksWatched
<1>2. q.watches \in Seq(Watches \cap K)
  BY KeepType
<1>3. \A i \in DOMAIN q.watches : q.watches[i] \in K
  BY <1>2, LenProperties, ElementOfSeq
<1> QED BY <1>1, <1>3 DEF Watched

LEMMA ExpireWatchesWatched ==
  ASSUME NEW r, Sound(r), NEW c \in CANDIDATE_FRAMES
  PROVE  Watched(ExpireWatches(r, c)) \subseteq {w \in Watched(r) : w.left > 0}
<1> DEFINE K == {w \in Watches : w.left > 0}
           p == [r EXCEPT !.watches = Keep(r.watches, K)]
           n == Min(ExpiredHops(r)) + 1
           q == ExpireWatches(r, c)
<1>1. r \in Repeaters /\ r.watches \in Seq(Watches)
  BY DEF Sound, Steady, Typed, Repeaters
<1>2. p.watches = Keep(r.watches, K)
  BY <1>1 DEF Repeaters
<1>3. ToCandidate(p, n, c).watches = p.watches
  BY <1>1 DEF ToCandidate, Repeaters
<1>4. q \in {p, ToCandidate(p, n, c)}
  BY DEF ExpireWatches
<1> HIDE DEF p, n, q, K
<1>5. q.watches = Keep(r.watches, K)
  BY <1>2, <1>3, <1>4
<1>6. Watched(q) \subseteq Watched(r) \cap K
  BY <1>1, <1>5, KeptWatched
<1> QED BY <1>6 DEF q, K

LEMMA ResolveWatchCoverWatched ==
  ASSUME NEW r, Steady(r), NEW f \in Frames
  PROVE  Watched(ResolveWatchCover(r, f)) \subseteq Watched(r)
<1>1. r \in Repeaters /\ r.watches \in Seq(Watches)
  BY DEF Steady, Typed, Repeaters
<1>2. CASE Covered(r, f) = {}
  BY <1>2 DEF ResolveWatchCover
<1>3. CASE Covered(r, f) # {}
  <2> DEFINE i == Min(Covered(r, f))
             q == ResolveWatchCover(r, f)
  <2>1. Len(r.watches) \in Nat /\ Covered(r, f) \subseteq 1 .. Len(r.watches)
    BY <1>1, LenProperties DEF Covered
  <2>2. i \in 1 .. Len(r.watches)
    <3>1. Covered(r, f) \in SUBSET Nat
      BY <2>1
    <3> QED BY <1>3, <2>1, <3>1, MinOfNaturals
  <2>3. q.watches = RemoveAt(r.watches, i)
    BY <1>1, <1>3 DEF ResolveWatchCover, Repeaters
  <2> HIDE DEF i, q
  <2>4. Picks(q.watches, r.watches)
    BY <1>1, <2>2, <2>3, RemoveAtPicks
  <2> QED BY <2>4, PicksWatched DEF q
<1> QED BY <1>2, <1>3

(***************************************************************************)
(* The watch that AddWatch would make.                                     *)
(***************************************************************************)
NewWatch(f) == [key |-> f.key, hop |-> f.hop, left |-> PEER_WATCH]

LEMMA AddWatchWatched ==
  ASSUME NEW r, Sound(r), NEW f \in Frames
  PROVE  Watched(AddWatch(r, f)) \subseteq Watched(r) \cup {NewWatch(f)}
<1> DEFINE w == NewWatch(f)
           old == r.watches
           q == AddWatch(r, f)
           c == WATCH_RING_SIZE
<1>1. CASE f.hop < MAX_HOP_COUNT
  <2>1. w \in Watches
    BY <1>1, HopAssumption, TimeAssumption DEF Frames, Watches, NewWatch
  <2>2. /\ old \in Seq(Watches) /\ Len(old) <= c /\ Len(old) \in Nat
        /\ c \in Nat \ {0}
    BY LenProperties, RingAssumption DEF Sound, Steady, Typed, Repeaters
  <2>0. DOMAIN old = 1 .. Len(old)
    BY <2>2, LenProperties
  <2>3. q.watches = Push(old, w, c)
    BY <1>1 DEF AddWatch, NewWatch, Sound, Steady, Typed, Repeaters
  <2>4. Watched(r) = {old[i] : i \in 1 .. Len(old)}
    BY <2>0 DEF Watched
  <2> DEFINE ws == Push(old, w, c)
  <2> HIDE DEF w, old, q, c
  <2>5. /\ ws \in Seq(Watches)
        /\ Len(ws) = IF Len(old) = c THEN c ELSE Len(old) + 1
        /\ \A i \in 1 .. Len(ws) :
             ws[i] = IF i = Len(ws) THEN w
                     ELSE IF Len(old) = c THEN old[i + 1] ELSE old[i]
    <3>1. /\ Push(old, w, c) \in Seq(Watches)
          /\ Len(Push(old, w, c)) = IF Len(old) = c THEN c ELSE Len(old) + 1
      BY <2>1, <2>2, PushProperties
    <3>2. \A i \in 1 .. Len(Push(old, w, c)) :
            Push(old, w, c)[i] = IF i = Len(Push(old, w, c)) THEN w
                                 ELSE IF Len(old) = c THEN old[i + 1] ELSE old[i]
      BY <2>1, <2>2, PushProperties
    <3> QED BY <3>1, <3>2
  <2> HIDE DEF ws
  <2>6. Len(ws) \in Nat /\ DOMAIN ws = 1 .. Len(ws)
    BY <2>5, LenProperties
  <2>7. ASSUME NEW i \in 1 .. Len(ws)
        PROVE  ws[i] \in {old[j] : j \in 1 .. Len(old)} \cup {w}
    <3>1. CASE i = Len(ws)
      BY <2>5, <3>1
    <3>2. CASE i # Len(ws) /\ Len(old) = c
      <4>1. i + 1 \in 1 .. Len(old)
        BY <2>2, <2>5, <2>6, <3>2
      <4> QED BY <2>5, <3>2, <4>1
    <3>3. CASE i # Len(ws) /\ Len(old) # c
      <4>1. Len(ws) = Len(old) + 1
        BY <2>5, <3>3
      <4>2. i \in 1 .. Len(old)
        <5>1. Len(old) \in Nat /\ i \in 1 .. Len(old) + 1 /\ i # Len(old) + 1
          BY <2>2, <3>3, <4>1
        <5> QED BY <5>1
      <4>3. ws[i] = old[i]
        BY <2>5, <3>3
      <4> QED BY <4>2, <4>3
    <3> QED BY <3>1, <3>2, <3>3
  <2>8. Watched(q) = {ws[i] : i \in 1 .. Len(ws)}
    BY <2>3, <2>6 DEF Watched, ws
  <2>9. Watched(q) \subseteq Watched(r) \cup {w}
    BY <2>4, <2>7, <2>8
  <2> QED BY <2>9 DEF q, w
<1>2. CASE ~ (f.hop < MAX_HOP_COUNT)
  BY <1>2 DEF AddWatch
<1> QED BY <1>1, <1>2

LEMMA NoteHopWatched ==
  ASSUME NEW r, Sound(r), NEW f \in Frames
  PROVE  Watched(NoteHop(r, f)) \subseteq Watched(r) \cup {NewWatch(f)}
<1> DEFINE places == {i \in DOMAIN r.recent : r.recent[i].key = f.key}
           grown == [r EXCEPT !.recent = Push(r.recent, f, RECENT_HOP_MEMORY_SIZE)]
           lowered == [r EXCEPT !.recent[Min(places)] = f]
<1>1. /\ r \in Repeaters /\ r.recent \in Seq(Frames) /\ r.watches \in Seq(Watches)
      /\ Len(r.recent) <= RECENT_HOP_MEMORY_SIZE /\ Len(r.recent) \in Nat
      /\ DOMAIN r.recent = 1 .. Len(r.recent) /\ RECENT_HOP_MEMORY_SIZE \in Nat \ {0}
  BY LenProperties, RingAssumption DEF Sound, Steady, Typed, Repeaters
<1>2. CASE f.key \in Unsequenced
  BY <1>2, AddWatchWatched DEF NoteHop
<1>3. CASE f.key \notin Unsequenced /\ places = {}
  <2> DEFINE fs == Push(r.recent, f, RECENT_HOP_MEMORY_SIZE)
  <2>1. /\ fs \in Seq(Frames)
        /\ Len(fs) = IF Len(r.recent) = RECENT_HOP_MEMORY_SIZE THEN RECENT_HOP_MEMORY_SIZE
                     ELSE Len(r.recent) + 1
    BY <1>1, PushProperties
  <2>2. Len(fs) <= RECENT_HOP_MEMORY_SIZE
    BY <1>1, <2>1
  <2>3. NoteHop(r, f) = AddWatch([r EXCEPT !.recent = fs], f)
    BY <1>3 DEF NoteHop
  <2> HIDE DEF fs
  <2>4. Sound([r EXCEPT !.recent = fs])
    BY <2>1, <2>2, NewRecent
  <2>5. Watched([r EXCEPT !.recent = fs]) = Watched(r)
    BY <1>1 DEF Watched, Repeaters
  <2> QED BY <2>3, <2>4, <2>5, AddWatchWatched
<1>4. CASE f.key \notin Unsequenced /\ places # {}
  <2> DEFINE i == Min(places)
             fs == [r.recent EXCEPT ![i] = f]
             lower == [r EXCEPT !.recent = fs]
             K == {w \in Watches : ~(w.key = f.key /\ w.hop > f.hop)}
             cut == CancelWatchesAbove(lower, f)
  <2>1. i \in 1 .. Len(r.recent)
    <3>1. places \in SUBSET Nat /\ places \subseteq 1 .. Len(r.recent)
      BY <1>1
    <3> QED BY <1>4, <3>1, MinOfNaturals
  <2>2. NoteHop(r, f) \in {r, AddWatch(cut, f)}
    BY <1>4 DEF NoteHop
  <2> HIDE DEF i
  <2>3. fs \in Seq(Frames) /\ Len(fs) = Len(r.recent)
    BY <1>1, <2>1, ExceptSeq
  <2> HIDE DEF fs
  <2>4. Sound(lower) /\ lower.watches = r.watches
    BY <1>1, <2>3, NewRecent DEF Repeaters
  <2>5. cut.watches = Keep(r.watches, K)
    BY <1>1, <2>4 DEF CancelWatchesAbove, Repeaters
  <2> HIDE DEF lower, K
  <2>6. Sound(cut)
    BY <2>4, CancelWatchesAboveSound
  <2> HIDE DEF cut
  <2>7. Watched(cut) \subseteq Watched(r)
    BY <1>1, <2>5, KeptWatched
  <2> QED BY <2>2, <2>6, <2>7, AddWatchWatched
<1> QED BY <1>2, <1>3, <1>4

(***************************************************************************)
(* An admitted frame: the watches left are old ones, or the frame's own.   *)
(***************************************************************************)
LEMMA OnAdmittedFrameWatched ==
  ASSUME NEW r, Sound(r), NEW f \in Frames, NEW duplicate \in BOOLEAN, NEW sent \in BOOLEAN,
         NEW b \in CANDIDATE_FRAMES, NEW c \in COOLDOWN_FRAMES
  PROVE  Watched(OnAdmittedFrame(r, f, duplicate, sent, b, c))
           \subseteq Watched(r) \cup {NewWatch(f)}
<1> DEFINE swept   == ExpireWatches(r, b)
           counted == CountPeer(swept, f)
           covered == ResolveWatchCover(counted, f)
           handled == OnFrame(covered, f, duplicate, sent, PeerHit(r, f), c)
<1>1. Sound(swept) /\ Watched(swept) \subseteq Watched(r)
  BY ExpireWatchesSound, ExpireWatchesWatched
<1> HIDE DEF swept
<1>2. Steady(counted) /\ Watched(counted) = Watched(swept)
  <2>1. Steady(counted)
    BY <1>1, CountPeerSteady DEF Sound
  <2>2. counted.watches = swept.watches
    BY <1>1 DEF CountPeer, Sound, Steady, Typed, Repeaters
  <2> HIDE DEF counted
  <2> QED BY <2>1, <2>2 DEF Watched
<1> HIDE DEF counted
<1>3. Steady(covered) /\ Watched(covered) \subseteq Watched(counted)
  BY <1>2, ResolveWatchCoverSteady, ResolveWatchCoverWatched
<1> HIDE DEF covered
<1>4. PeerHit(r, f) \in BOOLEAN
  BY DEF PeerHit, Holds
<1>5. Sound(handled) /\ Watched(handled) = Watched(covered)
  <2>1. Sound(handled)
    BY <1>3, <1>4, OnFrameSound
  <2>2. handled.watches = covered.watches
    BY <1>3, <1>4, OnFrameLists
  <2> HIDE DEF handled
  <2> QED BY <2>1, <2>2 DEF Watched
<1>6. OnAdmittedFrame(r, f, duplicate, sent, b, c) = NoteHop(handled, f)
  BY DEF OnAdmittedFrame, swept, counted, covered
<1> HIDE DEF handled
<1>7. Watched(NoteHop(handled, f)) \subseteq Watched(handled) \cup {NewWatch(f)}
  BY <1>5, NoteHopWatched
<1> QED BY <1>1, <1>2, <1>3, <1>5, <1>6, <1>7

(***************************************************************************)
(* The sweep leaves the watches that have time left.                       *)
(***************************************************************************)
LEMMA TickRepeaterWatched ==
  ASSUME NEW r, Sound(r), NEW b \in CANDIDATE_FRAMES
  PROVE  Watched(TickRepeater(r, b)) \subseteq {w \in Watched(r) : w.left > 0}
<1> DEFINE swept == ExpireWatches(r, b)
<1>1. Sound(swept) /\ Watched(swept) \subseteq {w \in Watched(r) : w.left > 0}
  BY ExpireWatchesSound, ExpireWatchesWatched
<1>2. TickRepeater(r, b) \in {swept, ToListening(swept)}
  BY DEF TickRepeater
<1> HIDE DEF swept
<1>3. Watched(ToListening(swept)) = Watched(swept)
  BY <1>1, ToListeningLists DEF Watched, Sound
<1> QED BY <1>1, <1>2, <1>3

(***************************************************************************)
(* Time runs for every watch.                                              *)
(***************************************************************************)
LEMMA AgeWatched ==
  ASSUME NEW r, Sound(r)
  PROVE  Watched(Age(r)) = {Countdown(w) : w \in Watched(r)}
<1> DEFINE q == Age(r)
<1>1. q.watches = [i \in DOMAIN r.watches |-> Countdown(r.watches[i])]
  BY DEF Age, Sound, Steady, Typed, Repeaters
<1> HIDE DEF q
<1>2. DOMAIN q.watches = DOMAIN r.watches
  BY <1>1
<1>3. \A i \in DOMAIN q.watches : q.watches[i] = Countdown(r.watches[i])
  BY <1>1
<1>4. Watched(q) = {Countdown(w) : w \in Watched(r)}
  BY <1>2, <1>3 DEF Watched
<1> QED BY <1>4 DEF q

-----------------------------------------------------------------------------
LEMMA RepeaterInductive == RepeaterSpec => []Sound(repeater)
<1>1. RepeaterInit => Sound(repeater)
  BY NewRepeaterSound DEF RepeaterInit
<1>2. Sound(repeater) /\ [RepeaterNext]_repeater => Sound(repeater)'
  <2> SUFFICES ASSUME Sound(repeater), [RepeaterNext]_repeater PROVE Sound(repeater')
    BY DEF Sound, Steady, Typed, Gated, Counting, PeerRecent
  <2>1. ASSUME NEW f \in Frames, AdmitFrame(f) PROVE Sound(repeater')
    BY <2>1, OnAdmittedFrameSound DEF AdmitFrame
  <2>2. CASE RepeaterTick
    BY <2>2, TickRepeaterSound DEF RepeaterTick
  <2>3. CASE RepeaterElapse
    BY <2>3, AgeSound DEF RepeaterElapse
  <2>4. CASE UNCHANGED repeater
    BY <2>4
  <2> QED BY <2>1, <2>2, <2>3, <2>4 DEF RepeaterNext
<1> QED BY <1>1, <1>2, PTL DEF RepeaterSpec

(***************************************************************************)
(* The rings keep to their sizes and every hop to the limit of the wire.   *)
(***************************************************************************)
THEOREM RepeaterTypeCorrect == RepeaterSpec => []RepeaterTypeOK
<1>1. Sound(repeater) => RepeaterTypeOK
  BY DEF Sound, Steady, Typed, RepeaterTypeOK
<1> QED BY <1>1, RepeaterInductive, PTL

(***************************************************************************)
(* The interrupt handler's gate always agrees with the repeater's role.    *)
(***************************************************************************)
THEOREM GateAlwaysFollowsRole == RepeaterSpec => []GateFollowsRole
<1>1. Sound(repeater) => GateFollowsRole
  BY DEF Sound, Steady, Gated, GateFollowsRole
<1> QED BY <1>1, RepeaterInductive, PTL

(***************************************************************************)
(* No call leaves an election or a cooldown open past its last frame.      *)
(***************************************************************************)
THEOREM WindowsNeverOverrun == RepeaterSpec => []WindowStillOpen
<1>1. Sound(repeater) => WindowStillOpen
  BY DEF Sound, Steady, Counting, PeerRecent, WindowStillOpen
<1> QED BY <1>1, RepeaterInductive, PTL

-----------------------------------------------------------------------------
(***************************************************************************)
(* The watches and the hop memory.  Two copies are the same when key and   *)
(* hop agree, whatever time a watch has left.                              *)
(***************************************************************************)
SameCopy(v, w) == v.key = w.key /\ v.hop = w.hop

(***************************************************************************)
(* q has the hop memory of r and some of its watches, none of them twice.  *)
(***************************************************************************)
Thinner(q, r) ==
  /\ q.recent = r.recent
  /\ \E h \in [DOMAIN q.watches -> DOMAIN r.watches] :
       /\ \A i \in DOMAIN q.watches : SameCopy(q.watches[i], r.watches[h[i]])
       /\ \A i, j \in DOMAIN q.watches : h[i] = h[j] => i = j

(***************************************************************************)
(* The hop memory holds each sequenced frame among the copies hs once, at  *)
(* the lowest hop it was heard at.                                         *)
(***************************************************************************)
HopsRecalled(r, hs) ==
  /\ hs \subseteq Frames
  /\ \A i \in DOMAIN r.recent : r.recent[i] \in hs /\ r.recent[i].key \notin Unsequenced
  /\ \A i, j \in DOMAIN r.recent : r.recent[i].key = r.recent[j].key => i = j
  /\ \A g \in hs : g.key \notin Unsequenced =>
       \E i \in DOMAIN r.recent : r.recent[i].key = g.key /\ r.recent[i].hop <= g.hop

(***************************************************************************)
(* Every watch on a sequenced frame is the only one, and agrees with the   *)
(* hop memory.                                                             *)
(***************************************************************************)
WatchesTraced(r) ==
  \A i \in DOMAIN r.watches : r.watches[i].key \notin Unsequenced =>
    /\ \E j \in DOMAIN r.recent : SameCopy(r.recent[j], r.watches[i])
    /\ \A j \in DOMAIN r.watches : r.watches[j].key = r.watches[i].key => j = i

(***************************************************************************)
(* No frame is watched whose cover was heard, but for those with a copy    *)
(* that came in late.                                                      *)
(***************************************************************************)
NotCovered(r, hs, late) ==
  \A i \in DOMAIN r.watches : \A g \in hs :
    r.watches[i].key \notin Unsequenced \cup late /\ g.key = r.watches[i].key
      => g.hop # r.watches[i].hop + 1

Informed(r, hs, late) == HopsRecalled(r, hs) /\ WatchesTraced(r) /\ NotCovered(r, hs, late)

LEMMA SameListsThinner ==
  ASSUME NEW q, NEW r, q.watches = r.watches, q.recent = r.recent
  PROVE  Thinner(q, r)
<1> DEFINE h == [i \in DOMAIN r.watches |-> i]
<1>1. h \in [DOMAIN q.watches -> DOMAIN r.watches]
  OBVIOUS
<1>2. \A i \in DOMAIN q.watches : SameCopy(q.watches[i], r.watches[h[i]])
  BY DEF SameCopy
<1>3. \A i, j \in DOMAIN q.watches : h[i] = h[j] => i = j
  OBVIOUS
<1> HIDE DEF h
<1> QED BY <1>1, <1>2, <1>3 DEF Thinner

LEMMA PicksThinner ==
  ASSUME NEW q, NEW r, Picks(q.watches, r.watches), q.recent = r.recent
  PROVE  Thinner(q, r)
<1>1. PICK h \in [DOMAIN q.watches -> DOMAIN r.watches] :
        /\ \A i \in DOMAIN q.watches : q.watches[i] = r.watches[h[i]]
        /\ \A i, j \in DOMAIN q.watches : h[i] = h[j] => i = j
  BY DEF Picks
<1>2. \A i \in DOMAIN q.watches : SameCopy(q.watches[i], r.watches[h[i]])
  BY <1>1 DEF SameCopy
<1> QED BY <1>1, <1>2 DEF Thinner

LEMMA ThinnerTransitive ==
  ASSUME NEW p, NEW q, NEW r, Thinner(p, q), Thinner(q, r)
  PROVE  Thinner(p, r)
<1>1. PICK g \in [DOMAIN p.watches -> DOMAIN q.watches] :
        /\ \A i \in DOMAIN p.watches : SameCopy(p.watches[i], q.watches[g[i]])
        /\ \A i, j \in DOMAIN p.watches : g[i] = g[j] => i = j
  BY DEF Thinner
<1>2. PICK h \in [DOMAIN q.watches -> DOMAIN r.watches] :
        /\ \A i \in DOMAIN q.watches : SameCopy(q.watches[i], r.watches[h[i]])
        /\ \A i, j \in DOMAIN q.watches : h[i] = h[j] => i = j
  BY DEF Thinner
<1> DEFINE k == [i \in DOMAIN p.watches |-> h[g[i]]]
<1>3. k \in [DOMAIN p.watches -> DOMAIN r.watches]
  BY <1>1, <1>2
<1>4. ASSUME NEW i \in DOMAIN p.watches PROVE SameCopy(p.watches[i], r.watches[k[i]])
  <2>1. g[i] \in DOMAIN q.watches
    BY <1>1
  <2>2. SameCopy(p.watches[i], q.watches[g[i]]) /\ SameCopy(q.watches[g[i]], r.watches[h[g[i]]])
    BY <1>1, <1>2, <2>1
  <2>3. k[i] = h[g[i]]
    OBVIOUS
  <2> HIDE DEF k
  <2> QED BY <2>2, <2>3 DEF SameCopy
<1>5. \A i, j \in DOMAIN p.watches : k[i] = k[j] => i = j
  BY <1>1, <1>2
<1> HIDE DEF k
<1> QED BY <1>3, <1>4, <1>5 DEF Thinner

(***************************************************************************)
(* What is known of the watches stays known when some of them go.          *)
(***************************************************************************)
LEMMA ThinnerInformed ==
  ASSUME NEW q, NEW r, Thinner(q, r), NEW hs, NEW late, Informed(r, hs, late)
  PROVE  Informed(q, hs, late)
<1>1. PICK h \in [DOMAIN q.watches -> DOMAIN r.watches] :
        /\ \A i \in DOMAIN q.watches : SameCopy(q.watches[i], r.watches[h[i]])
        /\ \A i, j \in DOMAIN q.watches : h[i] = h[j] => i = j
  BY DEF Thinner
<1>2. q.recent = r.recent
  BY DEF Thinner
<1>3. HopsRecalled(q, hs)
  BY <1>2 DEF Informed, HopsRecalled
<1>4. ASSUME NEW i \in DOMAIN q.watches
      PROVE  /\ h[i] \in DOMAIN r.watches
             /\ r.watches[h[i]].key = q.watches[i].key
             /\ r.watches[h[i]].hop = q.watches[i].hop
  BY <1>1 DEF SameCopy
<1>5. WatchesTraced(q)
  <2> SUFFICES ASSUME NEW i \in DOMAIN q.watches, q.watches[i].key \notin Unsequenced
               PROVE  /\ \E j \in DOMAIN q.recent : SameCopy(q.recent[j], q.watches[i])
                      /\ \A j \in DOMAIN q.watches : q.watches[j].key = q.watches[i].key => j = i
    BY DEF WatchesTraced
  <2>1. /\ \E j \in DOMAIN r.recent : SameCopy(r.recent[j], r.watches[h[i]])
        /\ \A j \in DOMAIN r.watches : r.watches[j].key = r.watches[h[i]].key => j = h[i]
    BY <1>4 DEF Informed, WatchesTraced
  <2>2. \E j \in DOMAIN q.recent : SameCopy(q.recent[j], q.watches[i])
    BY <1>2, <1>4, <2>1 DEF SameCopy
  <2>3. ASSUME NEW j \in DOMAIN q.watches, q.watches[j].key = q.watches[i].key PROVE j = i
    BY <1>1, <1>4, <2>1, <2>3
  <2> QED BY <2>2, <2>3
<1>6. NotCovered(q, hs, late)
  BY <1>4 DEF Informed, NotCovered
<1> QED BY <1>3, <1>5, <1>6 DEF Informed

(***************************************************************************)
(* Every call but NoteHop leaves the memory alone and only drops watches.  *)
(***************************************************************************)
LEMMA ExpireWatchesThinner ==
  ASSUME NEW r, Sound(r), NEW c \in CANDIDATE_FRAMES
  PROVE  Thinner(ExpireWatches(r, c), r)
<1> DEFINE ws == Keep(r.watches, {w \in Watches : w.left > 0})
           q == ExpireWatches(r, c)
<1>1. r \in Repeaters /\ r.watches \in Seq(Watches)
  BY DEF Sound, Steady, Typed, Repeaters
<1>2. Picks(ws, r.watches)
  BY <1>1, KeepPicks
<1>3. q.watches = ws /\ q.recent = r.recent
  <2> HIDE DEF ws
  <2> DEFINE p == [r EXCEPT !.watches = ws]
             n == Min(ExpiredHops(r)) + 1
  <2>1. p.watches = ws /\ p.recent = r.recent
    BY <1>1 DEF Repeaters
  <2>2. ToCandidate(p, n, c).watches = ws /\ ToCandidate(p, n, c).recent = r.recent
    BY <1>1 DEF ToCandidate, Repeaters
  <2>3. q \in {p, ToCandidate(p, n, c)}
    BY DEF ExpireWatches, ws
  <2> HIDE DEF p, n, q
  <2> QED BY <2>1, <2>2, <2>3
<1> HIDE DEF ws, q
<1>4. Thinner(q, r)
  BY <1>2, <1>3, PicksThinner
<1> QED BY <1>4 DEF q

LEMMA CountPeerThinner ==
  ASSUME NEW r, Steady(r), NEW f \in Frames
  PROVE  Thinner(CountPeer(r, f), r)
<1>1. /\ CountPeer(r, f).watches = r.watches
      /\ CountPeer(r, f).recent = r.recent
  BY DEF CountPeer, Steady, Typed, Repeaters
<1> QED BY <1>1, SameListsThinner

(***************************************************************************)
(* What CountPeer and a cover leave of the role.                           *)
(***************************************************************************)
LEMMA CountPeerRole ==
  ASSUME NEW r, Steady(r), NEW f \in Frames
  PROVE  /\ CountPeer(r, f).state = r.state
         /\ CountPeer(r, f).output_hop = r.output_hop
  BY DEF CountPeer, Steady, Typed, Repeaters

LEMMA ResolveWatchCoverRole ==
  ASSUME NEW r, Steady(r), NEW f \in Frames
  PROVE  /\ ResolveWatchCover(r, f).state = r.state
         /\ ResolveWatchCover(r, f).output_hop = r.output_hop
  BY DEF ResolveWatchCover, Steady, Typed, Repeaters

LEMMA ResolveWatchCoverThinner ==
  ASSUME NEW r, Steady(r), NEW f \in Frames
  PROVE  Thinner(ResolveWatchCover(r, f), r)
<1>1. r \in Repeaters /\ r.watches \in Seq(Watches)
  BY DEF Steady, Typed, Repeaters
<1>2. CASE Covered(r, f) = {}
  <2>1. ResolveWatchCover(r, f) = r
    BY <1>2 DEF ResolveWatchCover
  <2>2. Thinner(r, r)
    BY SameListsThinner
  <2> QED BY <2>1, <2>2
<1>3. CASE Covered(r, f) # {}
  <2> DEFINE i == Min(Covered(r, f))
             q == ResolveWatchCover(r, f)
  <2>1. Len(r.watches) \in Nat /\ Covered(r, f) \subseteq 1 .. Len(r.watches)
    BY <1>1, LenProperties DEF Covered
  <2>2. i \in 1 .. Len(r.watches)
    <3>1. Covered(r, f) \in SUBSET Nat
      BY <2>1
    <3> QED BY <1>3, <2>1, <3>1, MinOfNaturals
  <2>3. q.watches = RemoveAt(r.watches, i) /\ q.recent = r.recent
    BY <1>1, <1>3 DEF ResolveWatchCover, Repeaters
  <2> HIDE DEF i, q
  <2>4. Picks(q.watches, r.watches)
    BY <1>1, <2>2, <2>3, RemoveAtPicks
  <2>5. Thinner(q, r)
    BY <2>3, <2>4, PicksThinner
  <2> QED BY <2>5 DEF q
<1> QED BY <1>2, <1>3

(***************************************************************************)
(* A frame whose watch is the only one on it is not watched any more at    *)
(* the hop below, once it is heard as a cover.                             *)
(***************************************************************************)
LEMMA CoverIsResolved ==
  ASSUME NEW r, Steady(r), NEW f \in Frames, f.key \notin Unsequenced, WatchesTraced(r)
  PROVE  \A i \in DOMAIN ResolveWatchCover(r, f).watches :
           LET w == ResolveWatchCover(r, f).watches[i]
           IN  w.key = f.key => w.hop + 1 # f.hop
<1> DEFINE q == ResolveWatchCover(r, f)
<1>1. /\ r \in Repeaters /\ r.watches \in Seq(Watches)
      /\ Len(r.watches) \in Nat /\ DOMAIN r.watches = 1 .. Len(r.watches)
  BY LenProperties DEF Steady, Typed, Repeaters
<1>2. CASE Covered(r, f) = {}
  BY <1>2 DEF ResolveWatchCover, Covered
<1>3. CASE Covered(r, f) # {}
  <2> DEFINE k == Min(Covered(r, f))
             ws == RemoveAt(r.watches, k)
  <2>1. k \in Covered(r, f) /\ k \in 1 .. Len(r.watches)
    <3>1. Covered(r, f) \in SUBSET Nat /\ Covered(r, f) \subseteq 1 .. Len(r.watches)
      BY <1>1 DEF Covered
    <3> QED BY <1>3, <3>1, MinOfNaturals
  <2>2. q.watches = ws
    BY <1>1, <1>3 DEF ResolveWatchCover, Repeaters
  <2> HIDE DEF k
  <2>3. r.watches[k].key = f.key
    BY <2>1 DEF Covered
  <2>4. \A j \in 1 .. Len(r.watches) : r.watches[j].key = f.key => j = k
    BY <1>1, <2>1, <2>3 DEF WatchesTraced
  <2>5. ws \in Seq(Watches) /\ Len(ws) = Len(r.watches) - 1 /\ DOMAIN ws = 1 .. Len(ws)
    BY <1>1, <2>1, RemoveAtType, LenProperties
  <2>6. ASSUME NEW i \in DOMAIN ws PROVE ws[i].key # f.key
    <3>1. ws[i] = r.watches[IF i < k THEN i ELSE i + 1]
      BY <1>1, <2>1, <2>5, RemoveAtEntries
    <3>2. /\ (IF i < k THEN i ELSE i + 1) \in 1 .. Len(r.watches)
          /\ (IF i < k THEN i ELSE i + 1) # k
      BY <1>1, <2>1, <2>5
    <3> HIDE DEF ws
    <3> QED BY <2>4, <3>1, <3>2
  <2> HIDE DEF ws, q
  <2> QED BY <2>2, <2>6 DEF q
<1> QED BY <1>2, <1>3

(***************************************************************************)
(* A memory with room for all is never full when a frame is new to it: its *)
(* keys are distinct, and the new one is not among them.                   *)
(***************************************************************************)
LEMMA RoomForAnother ==
  ASSUME NEW r, Sound(r), NEW hs, HopsRecalled(r, hs), MemoryHoldsAll,
         NEW f \in Frames, f.key \notin Unsequenced,
         \A i \in DOMAIN r.recent : r.recent[i].key # f.key
  PROVE  Len(r.recent) < RECENT_HOP_MEMORY_SIZE
<1> DEFINE S == (Keys \ Unsequenced) \ {f.key}
           m == [i \in 1 .. Len(r.recent) |-> r.recent[i].key]
<1>1. /\ r.recent \in Seq(Frames) /\ Len(r.recent) \in Nat
      /\ DOMAIN r.recent = 1 .. Len(r.recent)
      /\ \A i \in 1 .. Len(r.recent) : r.recent[i] \in Frames
  BY LenProperties, ElementOfSeq DEF Sound, Steady, Typed, Repeaters
<1>2. f.key \in Keys \ Unsequenced
  BY DEF Frames
<1>3. IsFiniteSet(S) /\ Cardinality(S) = Cardinality(Keys \ Unsequenced) - 1
  BY <1>2, FS_RemoveElement DEF MemoryHoldsAll
<1>4. m \in Injection(1 .. Len(r.recent), S)
  <2>1. \A i \in 1 .. Len(r.recent) : r.recent[i].key \in S
    BY <1>1 DEF Frames, HopsRecalled
  <2>2. \A i, j \in 1 .. Len(r.recent) : r.recent[i].key = r.recent[j].key => i = j
    BY <1>1 DEF HopsRecalled
  <2> HIDE DEF S
  <2> QED BY <2>1, <2>2 DEF Injection, IsInjective
<1> HIDE DEF S, m
<1>5. Cardinality(1 .. Len(r.recent)) <= Cardinality(S)
  BY <1>3, <1>4, FS_Injection
<1>6. Cardinality(1 .. Len(r.recent)) = Len(r.recent)
  <2>1. Len(r.recent) \in Int /\ 1 \in Int
    BY <1>1
  <2>2. Cardinality(1 .. Len(r.recent)) =
          IF 1 > Len(r.recent) THEN 0 ELSE Len(r.recent) - 1 + 1
    BY <2>1, FS_Interval
  <2> QED BY <1>1, <2>2
<1>7. Cardinality(Keys \ Unsequenced) \in Nat /\ RECENT_HOP_MEMORY_SIZE \in Nat
  BY FS_CardinalityType, RingAssumption DEF MemoryHoldsAll
<1> QED BY <1>1, <1>3, <1>5, <1>6, <1>7 DEF MemoryHoldsAll

(***************************************************************************)
(* q has at most one watch more than r, and that for f: it is last, and    *)
(* the others stay in their order.                                         *)
(***************************************************************************)
Adds(q, r, f) ==
  \E n \in Nat, d \in {0, 1} :
    /\ DOMAIN q.watches = 1 .. n
    /\ \A i \in 1 .. n : \/ i = n /\ SameCopy(q.watches[i], f)
                         \/ i + d \in DOMAIN r.watches /\ q.watches[i] = r.watches[i + d]

LEMMA AddWatchAdds ==
  ASSUME NEW r, Sound(r), NEW f \in Frames
  PROVE  /\ AddWatch(r, f).recent = r.recent
         /\ AddWatch(r, f).state = r.state
         /\ AddWatch(r, f).output_hop = r.output_hop
         /\ Adds(AddWatch(r, f), r, f)
<1> DEFINE q == AddWatch(r, f)
<1>1. /\ r \in Repeaters /\ r.watches \in Seq(Watches) /\ Len(r.watches) <= WATCH_RING_SIZE
      /\ Len(r.watches) \in Nat /\ DOMAIN r.watches = 1 .. Len(r.watches)
      /\ WATCH_RING_SIZE \in Nat \ {0}
  BY LenProperties, RingAssumption DEF Sound, Steady, Typed, Repeaters
<1>2. CASE f.hop < MAX_HOP_COUNT
  <2> DEFINE w == [key |-> f.key, hop |-> f.hop, left |-> PEER_WATCH]
             ws == Push(r.watches, w, WATCH_RING_SIZE)
             n == Len(ws)
             d == IF Len(r.watches) = WATCH_RING_SIZE THEN 1 ELSE 0
  <2>1. w \in Watches /\ SameCopy(w, f)
    BY <1>2, HopAssumption, TimeAssumption DEF Frames, Watches, SameCopy
  <2>2. /\ q.watches = ws /\ q.recent = r.recent
        /\ q.state = r.state /\ q.output_hop = r.output_hop
    BY <1>1, <1>2 DEF AddWatch, Repeaters
  <2> HIDE DEF w, q
  <2>3. /\ ws \in Seq(Watches)
        /\ Len(ws) = IF Len(r.watches) = WATCH_RING_SIZE THEN WATCH_RING_SIZE
                     ELSE Len(r.watches) + 1
    BY <1>1, <2>1, PushProperties
  <2>4. ASSUME NEW i \in 1 .. Len(ws)
        PROVE  ws[i] = IF i = Len(ws) THEN w
                       ELSE IF Len(r.watches) = WATCH_RING_SIZE THEN r.watches[i + 1]
                       ELSE r.watches[i]
    <3> DEFINE c == WATCH_RING_SIZE
               old == r.watches
    <3>1. old \in Seq(Watches) /\ c \in Nat \ {0} /\ Len(old) <= c /\ w \in Watches
      BY <1>1, <2>1
    <3> HIDE DEF c, old
    <3>2. \A j \in 1 .. Len(Push(old, w, c)) :
            Push(old, w, c)[j] = IF j = Len(Push(old, w, c)) THEN w
                                 ELSE IF Len(old) = c THEN old[j + 1] ELSE old[j]
      BY <3>1, PushProperties
    <3>3. ws = Push(old, w, c)
      BY DEF c, old
    <3> QED BY <3>2, <3>3 DEF c, old
  <2>5. DOMAIN ws = 1 .. n /\ n \in Nat
    BY <2>3, LenProperties
  <2> HIDE DEF ws
  <2>6. ASSUME NEW i \in 1 .. n
        PROVE  \/ i = n /\ SameCopy(ws[i], f)
               \/ i + d \in DOMAIN r.watches /\ ws[i] = r.watches[i + d]
    <3>1. CASE i = n
      BY <2>1, <2>4, <3>1
    <3>2. CASE i # n
      BY <1>1, <2>3, <2>4, <2>5, <3>2
    <3> QED BY <3>1, <3>2
  <2>7. d \in {0, 1}
    OBVIOUS
  <2> HIDE DEF n, d
  <2>8. Adds(q, r, f)
    <3>1. DOMAIN q.watches = 1 .. n
      BY <2>2, <2>5
    <3>2. \A i \in 1 .. n : \/ i = n /\ SameCopy(q.watches[i], f)
                            \/ i + d \in DOMAIN r.watches /\ q.watches[i] = r.watches[i + d]
      BY <2>2, <2>6
    <3> QED BY <2>5, <2>7, <3>1, <3>2 DEF Adds
  <2> QED BY <2>2, <2>8 DEF q
<1>3. CASE ~ (f.hop < MAX_HOP_COUNT)
  <2>1. q = r
    BY <1>3 DEF AddWatch
  <2>2. \A i \in 1 .. Len(r.watches) :
          i + 0 \in DOMAIN r.watches /\ r.watches[i] = r.watches[i + 0]
    BY <1>1
  <2> HIDE DEF q
  <2>3. Adds(r, r, f)
    BY <1>1, <2>2 DEF Adds
  <2> QED BY <2>1, <2>3 DEF q
<1> QED BY <1>2, <1>3

(***************************************************************************)
(* A watch on a frame that is in the memory and not yet watched can be     *)
(* added.                                                                  *)
(***************************************************************************)
LEMMA AddWatchInformed ==
  ASSUME NEW r, Sound(r), NEW f \in Frames, NEW hs, NEW late, Informed(r, hs, late),
         f.key \notin Unsequenced =>
           /\ \E j \in DOMAIN r.recent : r.recent[j] = f
           /\ \A i \in DOMAIN r.watches : r.watches[i].key # f.key,
         f.key \notin Unsequenced \cup late =>
           \A g \in hs : g.key = f.key => g.hop # f.hop + 1
  PROVE  Informed(AddWatch(r, f), hs, late)
<1> DEFINE q == AddWatch(r, f)
<1>1. q.recent = r.recent /\ Adds(q, r, f)
  BY AddWatchAdds
<1> HIDE DEF q
<1>2. PICK n \in Nat, d \in {0, 1} :
        /\ DOMAIN q.watches = 1 .. n
        /\ \A i \in 1 .. n : \/ i = n /\ SameCopy(q.watches[i], f)
                             \/ i + d \in DOMAIN r.watches /\ q.watches[i] = r.watches[i + d]
  BY <1>1 DEF Adds
<1>3. HopsRecalled(q, hs)
  BY <1>1 DEF Informed, HopsRecalled
<1>4. WatchesTraced(q)
  <2> SUFFICES ASSUME NEW i \in 1 .. n, q.watches[i].key \notin Unsequenced
               PROVE  /\ \E j \in DOMAIN r.recent : SameCopy(r.recent[j], q.watches[i])
                      /\ \A j \in 1 .. n : q.watches[j].key = q.watches[i].key => j = i
    BY <1>1, <1>2 DEF WatchesTraced
  <2>1. CASE i = n /\ SameCopy(q.watches[i], f)
    <3>1. f.key \notin Unsequenced /\ q.watches[i].key = f.key
      BY <2>1 DEF SameCopy
    <3>2. \E j \in DOMAIN r.recent : SameCopy(r.recent[j], q.watches[i])
      BY <2>1, <3>1 DEF SameCopy
    <3>3. ASSUME NEW j \in 1 .. n, q.watches[j].key = q.watches[i].key PROVE j = i
      BY <1>2, <2>1, <3>1, <3>3
    <3> QED BY <3>2, <3>3
  <2>2. CASE i + d \in DOMAIN r.watches /\ q.watches[i] = r.watches[i + d]
    <3>1. /\ \E j \in DOMAIN r.recent : SameCopy(r.recent[j], q.watches[i])
          /\ \A j \in DOMAIN r.watches : r.watches[j].key = q.watches[i].key => j = i + d
      BY <2>2 DEF Informed, WatchesTraced
    <3>2. ASSUME NEW j \in 1 .. n, q.watches[j].key = q.watches[i].key PROVE j = i
      <4>1. CASE SameCopy(q.watches[j], f)
        BY <2>2, <3>2, <4>1 DEF SameCopy
      <4>2. CASE j + d \in DOMAIN r.watches /\ q.watches[j] = r.watches[j + d]
        BY <3>1, <3>2, <4>2
      <4> QED BY <1>2, <4>1, <4>2
    <3> QED BY <3>1, <3>2
  <2> QED BY <1>2, <2>1, <2>2
<1>5. NotCovered(q, hs, late)
  <2> SUFFICES ASSUME NEW i \in 1 .. n, NEW g \in hs,
                      q.watches[i].key \notin Unsequenced \cup late, g.key = q.watches[i].key
               PROVE  g.hop # q.watches[i].hop + 1
    BY <1>2 DEF NotCovered
  <2>1. CASE SameCopy(q.watches[i], f)
    BY <2>1 DEF SameCopy
  <2>2. CASE i + d \in DOMAIN r.watches /\ q.watches[i] = r.watches[i + d]
    BY <2>2 DEF Informed, NotCovered
  <2> QED BY <1>2, <2>1, <2>2
<1> QED BY <1>3, <1>4, <1>5 DEF Informed, q

(***************************************************************************)
(* The frames heard late, once f is heard among hs.                        *)
(***************************************************************************)
Late(f, hs) == {g.key : g \in {c \in hs : c.key = f.key /\ c.hop > f.hop}}

(***************************************************************************)
(* A frame that is new to the memory is entered last, and no watch is for  *)
(* it yet.                                                                 *)
(***************************************************************************)
LEMMA EnterHop ==
  ASSUME NEW r, Sound(r), NEW hs, NEW late, Informed(r, hs, late), MemoryHoldsAll,
         NEW f \in Frames, f.key \notin Unsequenced,
         \A i \in DOMAIN r.recent : r.recent[i].key # f.key
  PROVE  LET fs == Push(r.recent, f, RECENT_HOP_MEMORY_SIZE)
             q  == [r EXCEPT !.recent = fs]
         IN  /\ Sound(q)
             /\ Informed(q, hs \cup {f}, late)
             /\ \E j \in DOMAIN q.recent : q.recent[j] = f
             /\ \A j \in DOMAIN q.watches : q.watches[j].key # f.key
<1> DEFINE fs == Push(r.recent, f, RECENT_HOP_MEMORY_SIZE)
           n  == Len(r.recent) + 1
           q  == [r EXCEPT !.recent = fs]
<1>1. /\ r \in Repeaters /\ r.recent \in Seq(Frames) /\ Len(r.recent) \in Nat
      /\ DOMAIN r.recent = 1 .. Len(r.recent)
      /\ RECENT_HOP_MEMORY_SIZE \in Nat \ {0}
  BY LenProperties, RingAssumption DEF Sound, Steady, Typed, Repeaters
<1>2. Len(r.recent) < RECENT_HOP_MEMORY_SIZE
  BY RoomForAnother DEF Informed
<1>3. /\ fs \in Seq(Frames) /\ Len(fs) = n
      /\ DOMAIN fs = 1 .. n /\ fs[n] = f
      /\ \A i \in 1 .. Len(r.recent) : fs[i] = r.recent[i]
  <2>1. fs = Append(r.recent, f)
    BY <1>1, <1>2, AppendProperties DEF Push
  <2>2. Append(r.recent, f) \in Seq(Frames) /\ Len(Append(r.recent, f)) = n
    BY <1>1, AppendProperties
  <2> HIDE DEF n
  <2>3. DOMAIN Append(r.recent, f) = 1 .. n
    BY <2>2, LenProperties
  <2> QED BY <1>1, <2>1, <2>2, <2>3, AppendProperties DEF n
<1>4. Sound(q)
  <2>1. Len(fs) <= RECENT_HOP_MEMORY_SIZE
    BY <1>1, <1>2, <1>3
  <2> HIDE DEF fs
  <2> QED BY <1>3, <2>1, NewRecent
<1>5. q.recent = fs /\ q.watches = r.watches
  BY <1>1 DEF Repeaters
<1> HIDE DEF fs, q
<1>6. n \in 1 .. n /\ \A i \in 1 .. n : i # n => i \in 1 .. Len(r.recent)
  BY <1>1
<1>7. \A i \in 1 .. Len(r.recent) : i \in 1 .. n
  BY <1>1
<1> HIDE DEF n
<1>8. HopsRecalled(q, hs \cup {f})
  <2>1. \A i \in 1 .. n : fs[i] \in hs \cup {f} /\ fs[i].key \notin Unsequenced
    BY <1>1, <1>3, <1>6 DEF Informed, HopsRecalled
  <2>2. ASSUME NEW i \in 1 .. n, NEW j \in 1 .. n, fs[i].key = fs[j].key PROVE i = j
    <3>1. CASE i = n \/ j = n
      BY <1>1, <1>3, <1>6, <2>2, <3>1
    <3>2. CASE i # n /\ j # n
      BY <1>1, <1>3, <1>6, <2>2, <3>2 DEF Informed, HopsRecalled
    <3> QED BY <3>1, <3>2
  <2>3. ASSUME NEW g \in hs \cup {f}, g.key \notin Unsequenced
        PROVE  \E i \in 1 .. n : fs[i].key = g.key /\ fs[i].hop <= g.hop
    <3>1. CASE g = f
      <4>1. fs[n].key = g.key /\ fs[n].hop <= g.hop
        BY <1>3, <3>1 DEF Frames
      <4> QED BY <1>6, <4>1
    <3>2. CASE g \in hs
      BY <1>1, <1>3, <1>7, <2>3, <3>2 DEF Informed, HopsRecalled
    <3> QED BY <3>1, <3>2
  <2>4. hs \cup {f} \subseteq Frames
    BY DEF Informed, HopsRecalled
  <2> QED BY <1>3, <1>5, <2>1, <2>2, <2>3, <2>4 DEF HopsRecalled
<1>9. \A j \in DOMAIN q.watches : q.watches[j].key # f.key
  BY <1>5 DEF Informed, WatchesTraced, SameCopy
<1>10. WatchesTraced(q)
  <2> SUFFICES ASSUME NEW i \in DOMAIN r.watches, r.watches[i].key \notin Unsequenced
               PROVE  /\ \E j \in 1 .. n : SameCopy(fs[j], r.watches[i])
                      /\ \A j \in DOMAIN r.watches : r.watches[j].key = r.watches[i].key => j = i
    BY <1>3, <1>5 DEF WatchesTraced
  <2>1. PICK j \in 1 .. Len(r.recent) : SameCopy(r.recent[j], r.watches[i])
    BY <1>1 DEF Informed, WatchesTraced
  <2>2. j \in 1 .. n /\ SameCopy(fs[j], r.watches[i])
    BY <1>3, <1>7, <2>1
  <2>3. \A k \in DOMAIN r.watches : r.watches[k].key = r.watches[i].key => k = i
    BY DEF Informed, WatchesTraced
  <2> QED BY <2>2, <2>3
<1>11. NotCovered(q, hs \cup {f}, late)
  BY <1>5, <1>9 DEF Informed, NotCovered
<1>12. \E j \in DOMAIN q.recent : q.recent[j] = f
  BY <1>3, <1>5, <1>6
<1> QED BY <1>4, <1>8, <1>9, <1>10, <1>11, <1>12 DEF Informed, q, fs

(***************************************************************************)
(* r once it has heard closer in the frame that place p of its memory is   *)
(* for.                                                                    *)
(***************************************************************************)
Lowered(r, p, f) ==
  CancelWatchesAbove([r EXCEPT !.recent = [r.recent EXCEPT ![p] = f]], f)

(***************************************************************************)
(* A frame heard closer in takes its place in the memory and loses its     *)
(* watch at the outer hop.                                                 *)
(***************************************************************************)
LEMMA LowerHop ==
  ASSUME NEW r, Sound(r), NEW hs, NEW late, Informed(r, hs, late),
         NEW f \in Frames, f.key \notin Unsequenced,
         NEW p \in DOMAIN r.recent, r.recent[p].key = f.key, f.hop < r.recent[p].hop
  PROVE  /\ Sound(Lowered(r, p, f))
         /\ Informed(Lowered(r, p, f), hs \cup {f}, late \cup Late(f, hs))
         /\ \E j \in DOMAIN Lowered(r, p, f).recent : Lowered(r, p, f).recent[j] = f
         /\ \A j \in DOMAIN Lowered(r, p, f).watches : Lowered(r, p, f).watches[j].key # f.key
<1> DEFINE fs == [r.recent EXCEPT ![p] = f]
           K  == {w \in Watches : ~(w.key = f.key /\ w.hop > f.hop)}
           ws == Keep(r.watches, K)
           m  == [r EXCEPT !.recent = fs]
           q  == CancelWatchesAbove(m, f)
           t  == [r EXCEPT !.watches = ws]
<1>1. /\ r \in Repeaters /\ r.recent \in Seq(Frames) /\ Len(r.recent) \in Nat
      /\ DOMAIN r.recent = 1 .. Len(r.recent)
      /\ Len(r.recent) <= RECENT_HOP_MEMORY_SIZE
      /\ r.watches \in Seq(Watches)
  BY LenProperties DEF Sound, Steady, Typed, Repeaters
<1>2. ASSUME NEW i \in DOMAIN r.recent PROVE r.recent[i] \in Frames /\ r.recent[i].hop \in Int
  <2>1. r.recent[i] \in Frames
    BY <1>1, ElementOfSeq
  <2> QED BY <2>1 DEF Frames
<1>3. f.hop \in Int
  BY DEF Frames
<1>4. fs \in Seq(Frames) /\ Len(fs) = Len(r.recent)
  BY <1>1, ExceptSeq
<1>5. /\ DOMAIN fs = DOMAIN r.recent /\ fs[p] = f
      /\ \A i \in DOMAIN r.recent : i # p => fs[i] = r.recent[i]
  BY <1>1
<1>6. Sound(q)
  <2>1. Len(fs) <= RECENT_HOP_MEMORY_SIZE
    BY <1>1, <1>4
  <2> HIDE DEF fs
  <2>2. Sound(m)
    BY <1>4, <2>1, NewRecent
  <2> HIDE DEF m
  <2> QED BY <2>2, CancelWatchesAboveSound
<1>7. q.recent = fs /\ q.watches = ws
  <2>1. m \in [DOMAIN r -> {m[x] : x \in DOMAIN r}] /\ m.recent = fs /\ m.watches = r.watches
    BY <1>1 DEF Repeaters
  <2> HIDE DEF ws, fs
  <2> QED BY <1>1, <2>1 DEF CancelWatchesAbove, Repeaters, ws
<1>8. ws \in Seq(Watches \cap K) /\ Picks(ws, r.watches)
  BY <1>1, KeepType, KeepPicks
<1>9. t.watches = ws /\ t.recent = r.recent
  BY <1>1 DEF Repeaters
<1> HIDE DEF fs, ws, t
<1>10. Informed(t, hs, late)
  BY <1>8, <1>9, PicksThinner, ThinnerInformed
<1>11. ASSUME NEW i \in DOMAIN ws PROVE ws[i] \in K
  BY <1>8, LenProperties, ElementOfSeq
<1>12. ASSUME NEW i \in DOMAIN ws PROVE ws[i].key # f.key
  <2> SUFFICES ASSUME ws[i].key = f.key PROVE FALSE
    OBVIOUS
  <2>1. PICK j \in DOMAIN r.recent : r.recent[j].key = f.key /\ r.recent[j].hop = ws[i].hop
    BY <1>9, <1>10 DEF Informed, WatchesTraced, SameCopy
  <2>2. j = p
    BY <1>9, <1>10, <2>1 DEF Informed, HopsRecalled
  <2>3. ws[i].hop > f.hop
    BY <1>2, <1>3, <2>1, <2>2
  <2> QED BY <1>11, <2>3
<1> HIDE DEF K, q
<1>13. HopsRecalled(q, hs \cup {f})
  <2>1. \A i \in DOMAIN r.recent : r.recent[i] \in hs /\ r.recent[i].key \notin Unsequenced
    BY DEF Informed, HopsRecalled
  <2>2. \A i \in DOMAIN r.recent : fs[i].key = r.recent[i].key
    BY <1>5
  <2>3. \A i \in DOMAIN fs : fs[i] \in hs \cup {f} /\ fs[i].key \notin Unsequenced
    BY <1>5, <2>1, <2>2
  <2>4. \A i, j \in DOMAIN fs : fs[i].key = fs[j].key => i = j
    BY <1>5, <2>2 DEF Informed, HopsRecalled
  <2>5. hs \cup {f} \subseteq Frames
    BY DEF Informed, HopsRecalled
  <2>6. ASSUME NEW g \in hs \cup {f}, g.key \notin Unsequenced
        PROVE  \E i \in DOMAIN fs : fs[i].key = g.key /\ fs[i].hop <= g.hop
    <3>1. CASE g = f
      BY <1>5, <3>1 DEF Frames
    <3>2. CASE g \in hs
      <4>1. PICK i \in DOMAIN r.recent : r.recent[i].key = g.key /\ r.recent[i].hop <= g.hop
        BY <2>6, <3>2 DEF Informed, HopsRecalled
      <4>2. fs[i].hop <= r.recent[i].hop
        BY <1>5, <1>2, <1>3
      <4>3. fs[i].hop \in Int /\ r.recent[i].hop \in Int /\ g.hop \in Int
        BY <1>5, <1>2, <1>3, <2>5 DEF Frames
      <4> QED BY <1>5, <2>2, <4>1, <4>2, <4>3
    <3> QED BY <3>1, <3>2
  <2> QED BY <1>7, <2>3, <2>4, <2>5, <2>6 DEF HopsRecalled
<1>14. WatchesTraced(q)
  <2> SUFFICES ASSUME NEW i \in DOMAIN ws, ws[i].key \notin Unsequenced
               PROVE  /\ \E j \in DOMAIN fs : SameCopy(fs[j], ws[i])
                      /\ \A j \in DOMAIN ws : ws[j].key = ws[i].key => j = i
    BY <1>7 DEF WatchesTraced
  <2>1. /\ \E j \in DOMAIN r.recent : SameCopy(r.recent[j], ws[i])
        /\ \A j \in DOMAIN ws : ws[j].key = ws[i].key => j = i
    BY <1>9, <1>10 DEF Informed, WatchesTraced
  <2>2. PICK j \in DOMAIN r.recent : SameCopy(r.recent[j], ws[i])
    BY <2>1
  <2>3. j # p
    BY <1>12, <2>2 DEF SameCopy
  <2> QED BY <1>5, <2>1, <2>2, <2>3
<1>15. NotCovered(q, hs \cup {f}, late \cup Late(f, hs))
  BY <1>7, <1>9, <1>10, <1>12 DEF Informed, NotCovered
<1>16. \E j \in DOMAIN q.recent : q.recent[j] = f
  BY <1>5, <1>7
<1>17. \A j \in DOMAIN q.watches : q.watches[j].key # f.key
  BY <1>7, <1>12
<1> QED BY <1>6, <1>13, <1>14, <1>15, <1>16, <1>17 DEF Informed, Lowered, q, m, fs

(***************************************************************************)
(* NoteHop keeps the lists informed of one more copy, once the watch that  *)
(* the copy covers is resolved.                                            *)
(***************************************************************************)
LEMMA NoteHopInformed ==
  ASSUME NEW r, Sound(r), NEW hs, NEW late, Informed(r, hs, late), MemoryHoldsAll,
         NEW f \in Frames,
         f.key \notin Unsequenced =>
           \A i \in DOMAIN r.watches : r.watches[i].key = f.key => r.watches[i].hop + 1 # f.hop
  PROVE  Informed(NoteHop(r, f), hs \cup {f}, late \cup Late(f, hs))
<1> DEFINE places == {i \in DOMAIN r.recent : r.recent[i].key = f.key}
           after == late \cup Late(f, hs)
<1>1. /\ r.recent \in Seq(Frames) /\ Len(r.recent) \in Nat
      /\ DOMAIN r.recent = 1 .. Len(r.recent)
  BY LenProperties DEF Sound, Steady, Typed, Repeaters
<1>2. ASSUME NEW i \in DOMAIN r.recent PROVE r.recent[i] \in Frames /\ r.recent[i].hop \in Int
  <2>1. r.recent[i] \in Frames
    BY <1>1, ElementOfSeq
  <2> QED BY <2>1 DEF Frames
<1>3. f.hop \in Int
  BY DEF Frames
<1>4. CASE f.key \in Unsequenced
  <2>1. HopsRecalled(r, hs \cup {f})
    BY <1>4 DEF Informed, HopsRecalled
  <2>2. NotCovered(r, hs \cup {f}, after)
    BY <1>4 DEF Informed, NotCovered
  <2>3. Informed(r, hs \cup {f}, after)
    BY <2>1, <2>2 DEF Informed
  <2>4. NoteHop(r, f) = AddWatch(r, f)
    BY <1>4 DEF NoteHop
  <2> HIDE DEF after
  <2>5. Informed(AddWatch(r, f), hs \cup {f}, after)
    BY <1>4, <2>3, AddWatchInformed
  <2> QED BY <2>4, <2>5 DEF after
<1>5. CASE f.key \notin Unsequenced /\ places = {}
  <2> DEFINE q == [r EXCEPT !.recent = Push(r.recent, f, RECENT_HOP_MEMORY_SIZE)]
  <2>1. NoteHop(r, f) = AddWatch(q, f)
    BY <1>5 DEF NoteHop
  <2>2. /\ Sound(q) /\ Informed(q, hs \cup {f}, late)
        /\ \E j \in DOMAIN q.recent : q.recent[j] = f
        /\ \A j \in DOMAIN q.watches : q.watches[j].key # f.key
    BY <1>5, EnterHop
  <2> HIDE DEF q
  <2>3. \A g \in hs \cup {f} : g.key = f.key => g.hop # f.hop + 1
    <3>1. \A g \in hs : g.key # f.key
      BY <1>5 DEF Informed, HopsRecalled
    <3> QED BY <1>3, <3>1
  <2>4. Informed(AddWatch(q, f), hs \cup {f}, late)
    BY <2>2, <2>3, AddWatchInformed
  <2> HIDE DEF places
  <2> QED BY <2>1, <2>4 DEF Informed, NotCovered
<1>6. CASE f.key \notin Unsequenced /\ \E i \in places : f.hop < r.recent[i].hop
  <2> DEFINE p == Min(places)
             q == Lowered(r, p, f)
  <2>1. p \in places
    <3>1. places \in SUBSET Nat /\ places # {}
      BY <1>1, <1>6
    <3> QED BY <3>1, MinOfNaturals
  <2>2. NoteHop(r, f) = AddWatch(q, f)
    <3>1. places # {}
      BY <1>6
    <3> QED BY <1>6, <3>1 DEF NoteHop, Lowered
  <2> HIDE DEF p
  <2>3. f.hop < r.recent[p].hop
    BY <1>6, <2>1 DEF Informed, HopsRecalled
  <2>4. /\ Sound(q) /\ Informed(q, hs \cup {f}, after)
        /\ \E j \in DOMAIN q.recent : q.recent[j] = f
        /\ \A j \in DOMAIN q.watches : q.watches[j].key # f.key
    <3>1. p \in DOMAIN r.recent /\ r.recent[p].key = f.key /\ f.key \notin Unsequenced
      BY <1>6, <2>1
    <3> HIDE DEF places
    <3> QED BY <2>3, <3>1, LowerHop
  <2>5. f.key \in Late(f, hs)
    <3>1. r.recent[p] \in hs /\ r.recent[p].key = f.key /\ r.recent[p].hop > f.hop
      BY <1>2, <1>3, <2>1, <2>3 DEF Informed, HopsRecalled
    <3> QED BY <3>1 DEF Late
  <2> HIDE DEF q
  <2>6. f.key \in after
    BY <2>5
  <2> HIDE DEF after
  <2>7. Informed(AddWatch(q, f), hs \cup {f}, after)
    BY <2>4, <2>6, AddWatchInformed
  <2> QED BY <2>2, <2>7 DEF after
<1>7. CASE /\ f.key \notin Unsequenced /\ places # {}
           /\ ~ \E i \in places : f.hop < r.recent[i].hop
  <2>1. NoteHop(r, f) = r
    BY <1>7 DEF NoteHop
  <2>2. PICK p \in DOMAIN r.recent : r.recent[p].key = f.key /\ r.recent[p].hop <= f.hop
    <3>1. PICK p \in places : ~ (f.hop < r.recent[p].hop)
      BY <1>7
    <3> QED BY <1>2, <1>3, <3>1
  <2>3. HopsRecalled(r, hs \cup {f})
    BY <2>2 DEF Informed, HopsRecalled
  <2>4. NotCovered(r, hs \cup {f}, after)
    <3> SUFFICES ASSUME NEW i \in DOMAIN r.watches, NEW g \in hs \cup {f},
                        r.watches[i].key \notin Unsequenced \cup late, g.key = r.watches[i].key
                 PROVE  g.hop # r.watches[i].hop + 1
      BY DEF NotCovered
    <3>1. CASE g \in hs
      BY <3>1 DEF Informed, NotCovered
    <3>2. CASE g = f
      BY <1>7, <3>2
    <3> QED BY <3>1, <3>2
  <2> QED BY <2>1, <2>3, <2>4 DEF Informed
<1> QED BY <1>4, <1>5, <1>6, <1>7

LEMMA NoteHopRole ==
  ASSUME NEW r, Sound(r), NEW f \in Frames
  PROVE  /\ NoteHop(r, f).state = r.state
         /\ NoteHop(r, f).output_hop = r.output_hop
<1>1. r \in Repeaters
  BY DEF Sound, Steady, Typed
<1>2. ASSUME NEW q, q.state = r.state, q.output_hop = r.output_hop,
             q \in [DOMAIN r -> {q[x] : x \in DOMAIN r}]
      PROVE  /\ AddWatch(q, f).state = r.state
             /\ AddWatch(q, f).output_hop = r.output_hop
             /\ AddWatch(CancelWatchesAbove(q, f), f).state = r.state
             /\ AddWatch(CancelWatchesAbove(q, f), f).output_hop = r.output_hop
  BY <1>1, <1>2 DEF AddWatch, CancelWatchesAbove, Repeaters
<1>3. ASSUME NEW us
      PROVE  LET q == [r EXCEPT !.recent = us]
             IN  /\ q.state = r.state /\ q.output_hop = r.output_hop
                 /\ q \in [DOMAIN r -> {q[x] : x \in DOMAIN r}]
  BY <1>1 DEF Repeaters
<1>4. /\ AddWatch(r, f).state = r.state
      /\ AddWatch(r, f).output_hop = r.output_hop
  BY <1>1, <1>2 DEF Repeaters
<1> QED BY <1>2, <1>3, <1>4 DEF NoteHop

(***************************************************************************)
(* A whole call: the repeater is informed of one more copy.                *)
(***************************************************************************)
LEMMA OnAdmittedFrameInformed ==
  ASSUME NEW r, Sound(r), NEW hs, NEW late, Informed(r, hs, late), MemoryHoldsAll,
         NEW f \in Frames, NEW duplicate \in BOOLEAN, NEW sent \in BOOLEAN,
         NEW b \in CANDIDATE_FRAMES, NEW c \in COOLDOWN_FRAMES
  PROVE  Informed(OnAdmittedFrame(r, f, duplicate, sent, b, c), hs \cup {f}, late \cup Late(f, hs))
<1> DEFINE swept   == ExpireWatches(r, b)
           counted == CountPeer(swept, f)
           covered == ResolveWatchCover(counted, f)
           hit     == PeerHit(r, f)
           handled == OnFrame(covered, f, duplicate, sent, hit, c)
<1>1. hit \in BOOLEAN
  BY DEF PeerHit, Holds
<1>2. OnAdmittedFrame(r, f, duplicate, sent, b, c) = NoteHop(handled, f)
  BY DEF OnAdmittedFrame
<1>3. Sound(swept) /\ Steady(swept) /\ Informed(swept, hs, late)
  BY ExpireWatchesSound, ExpireWatchesThinner, ThinnerInformed DEF Sound
<1> HIDE DEF swept, hit
<1>4. Steady(counted) /\ Informed(counted, hs, late)
  BY <1>3, CountPeerSteady, CountPeerThinner, ThinnerInformed
<1> HIDE DEF counted
<1>5. Steady(covered) /\ Informed(covered, hs, late)
  BY <1>4, ResolveWatchCoverSteady, ResolveWatchCoverThinner, ThinnerInformed
<1>6. f.key \notin Unsequenced =>
        \A i \in DOMAIN covered.watches :
          covered.watches[i].key = f.key => covered.watches[i].hop + 1 # f.hop
  BY <1>4, CoverIsResolved DEF Informed
<1> HIDE DEF covered
<1>7. Sound(handled) /\ handled.watches = covered.watches /\ handled.recent = covered.recent
  BY <1>1, <1>5, OnFrameSound, OnFrameLists
<1> HIDE DEF handled
<1>8. Informed(handled, hs, late)
  BY <1>5, <1>7, SameListsThinner, ThinnerInformed
<1>9. f.key \notin Unsequenced =>
        \A i \in DOMAIN handled.watches :
          handled.watches[i].key = f.key => handled.watches[i].hop + 1 # f.hop
  BY <1>6, <1>7
<1> QED BY <1>2, <1>7, <1>8, <1>9, NoteHopInformed

LEMMA TickRepeaterThinner ==
  ASSUME NEW r, Sound(r), NEW b \in CANDIDATE_FRAMES
  PROVE  Thinner(TickRepeater(r, b), r)
<1> DEFINE swept == ExpireWatches(r, b)
<1>1. Sound(swept) /\ Steady(swept) /\ Thinner(swept, r)
  BY ExpireWatchesSound, ExpireWatchesThinner DEF Sound
<1>2. TickRepeater(r, b) \in {swept, ToListening(swept)}
  BY DEF TickRepeater
<1> HIDE DEF swept
<1>3. Thinner(ToListening(swept), swept)
  BY <1>1, ToListeningLists, SameListsThinner
<1> QED BY <1>1, <1>2, <1>3, ThinnerTransitive

LEMMA AgeThinner ==
  ASSUME NEW r, Sound(r)
  PROVE  Thinner(Age(r), r)
<1> DEFINE h == [i \in DOMAIN Age(r).watches |-> i]
<1>1. /\ r \in Repeaters /\ r.watches \in Seq(Watches)
      /\ \A i \in DOMAIN r.watches : r.watches[i] \in Watches
  BY LenProperties, ElementOfSeq DEF Sound, Steady, Typed, Repeaters
<1>2. /\ Age(r).recent = r.recent
      /\ Age(r).watches = [i \in DOMAIN r.watches |-> Countdown(r.watches[i])]
  BY <1>1 DEF Age, Repeaters
<1>3. DOMAIN Age(r).watches = DOMAIN r.watches
  BY <1>2
<1>4. ASSUME NEW w \in Watches PROVE SameCopy(Countdown(w), w)
  BY DEF Countdown, SameCopy, Watches
<1>5. \A i \in DOMAIN Age(r).watches : SameCopy(Age(r).watches[i], r.watches[h[i]])
  BY <1>1, <1>2, <1>3, <1>4
<1>6. /\ h \in [DOMAIN Age(r).watches -> DOMAIN r.watches]
      /\ \A i, j \in DOMAIN Age(r).watches : h[i] = h[j] => i = j
  BY <1>3
<1> HIDE DEF h
<1> QED BY <1>2, <1>5, <1>6 DEF Thinner

-----------------------------------------------------------------------------
(***************************************************************************)
(* The invariant of the repeater with its history.                         *)
(***************************************************************************)
HistoryInv ==
  /\ Sound(repeater)
  /\ MemoryHoldsAll => Informed(repeater, heard, inverted)

LEMMA HistoryInductive == HSpec => []HistoryInv
<1>1. HInit => HistoryInv
  <2> SUFFICES ASSUME HInit PROVE HistoryInv
    OBVIOUS
  <2>1. Sound(repeater)
    BY NewRepeaterSound DEF HInit, RepeaterInit
  <2>2. repeater.recent = <<>> /\ repeater.watches = <<>> /\ heard = {}
    BY DEF HInit, RepeaterInit, NewRepeater
  <2>3. DOMAIN repeater.recent = {} /\ DOMAIN repeater.watches = {}
    BY <2>2
  <2>4. Informed(repeater, heard, inverted)
    BY <2>2, <2>3 DEF Informed, HopsRecalled, WatchesTraced, NotCovered
  <2> QED BY <2>1, <2>4 DEF HistoryInv
<1>2. HistoryInv /\ [HNext]_historyVars => HistoryInv'
  <2> SUFFICES ASSUME HistoryInv, [HNext]_historyVars
               PROVE  /\ Sound(repeater')
                      /\ MemoryHoldsAll => Informed(repeater', heard', inverted')
    BY DEF HistoryInv, Sound, Steady, Typed, Gated, Counting, PeerRecent,
           MemoryHoldsAll, Informed, HopsRecalled, WatchesTraced, NotCovered, SameCopy
  <2>1. Sound(repeater)
    BY DEF HistoryInv
  <2>2. ASSUME NEW f \in Frames, HearFrame(f)
        PROVE  Sound(repeater') /\ (MemoryHoldsAll => Informed(repeater', heard', inverted'))
    <3>1. PICK duplicate \in BOOLEAN, sent \in BOOLEAN,
               b \in CANDIDATE_FRAMES, c \in COOLDOWN_FRAMES :
            repeater' = OnAdmittedFrame(repeater, f, duplicate, sent, b, c)
      BY <2>2 DEF HearFrame, AdmitFrame
    <3>2. heard' = heard \cup {f} /\ inverted' = inverted \cup Late(f, heard)
      BY <2>2 DEF HearFrame, Late
    <3>3. Sound(repeater')
      BY <2>1, <3>1, OnAdmittedFrameSound
    <3>4. MemoryHoldsAll => Informed(repeater', heard', inverted')
      BY <2>1, <3>1, <3>2, OnAdmittedFrameInformed DEF HistoryInv
    <3> QED BY <3>3, <3>4
  <2>3. ASSUME Sound(repeater'), Thinner(repeater', repeater), UNCHANGED <<heard, inverted>>
        PROVE  Sound(repeater') /\ (MemoryHoldsAll => Informed(repeater', heard', inverted'))
    BY <2>3, ThinnerInformed DEF HistoryInv
  <2>4. CASE RepeaterTick /\ UNCHANGED <<heard, inverted>>
    BY <2>1, <2>3, <2>4, TickRepeaterSound, TickRepeaterThinner DEF RepeaterTick
  <2>5. CASE RepeaterElapse /\ UNCHANGED <<heard, inverted>>
    BY <2>1, <2>3, <2>5, AgeSound, AgeThinner DEF RepeaterElapse
  <2>6. CASE UNCHANGED historyVars
    BY <2>1, <2>6 DEF historyVars, HistoryInv
  <2> QED BY <2>2, <2>4, <2>5, <2>6 DEF HNext
<1> QED BY <1>1, <1>2, PTL DEF HSpec

LEMMA LowestHopKnown == HistoryInv => WatchAtLowestHop
<1> SUFFICES ASSUME HistoryInv, MemoryHoldsAll, NEW i \in DOMAIN repeater.watches,
                    repeater.watches[i].key \notin Unsequenced
             PROVE  LET w == repeater.watches[i]
                    IN  /\ \E g \in heard : g.key = w.key /\ g.hop = w.hop
                        /\ \A g \in heard : g.key = w.key => w.hop <= g.hop
                        /\ \A j \in DOMAIN repeater.watches :
                             repeater.watches[j].key = w.key => j = i
  BY DEF WatchAtLowestHop
<1>1. PICK j \in DOMAIN repeater.recent : SameCopy(repeater.recent[j], repeater.watches[i])
  BY DEF HistoryInv, Informed, WatchesTraced
<1>2. repeater.recent[j] \in heard
  BY DEF HistoryInv, Informed, HopsRecalled
<1>3. ASSUME NEW g \in heard, g.key = repeater.watches[i].key
      PROVE  repeater.watches[i].hop <= g.hop
  <2>1. PICK k \in DOMAIN repeater.recent :
          repeater.recent[k].key = g.key /\ repeater.recent[k].hop <= g.hop
    BY <1>3 DEF HistoryInv, Informed, HopsRecalled
  <2>2. k = j
    BY <1>1, <1>3, <2>1 DEF HistoryInv, Informed, HopsRecalled, SameCopy
  <2> QED BY <1>1, <2>1, <2>2 DEF SameCopy
<1>4. \A k \in DOMAIN repeater.watches :
        repeater.watches[k].key = repeater.watches[i].key => k = i
  BY DEF HistoryInv, Informed, WatchesTraced
<1> QED BY <1>1, <1>2, <1>3, <1>4 DEF SameCopy

(***************************************************************************)
(* A sequenced frame has at most one watch, at the lowest hop it was heard *)
(* at, as long as the hop memory has room for all frames.                  *)
(***************************************************************************)
THEOREM WatchedAtLowestHop == HSpec => []WatchAtLowestHop
  BY LowestHopKnown, HistoryInductive, PTL

-----------------------------------------------------------------------------
(***************************************************************************)
(* Only an expired watch makes a candidate, and the badge then stands for  *)
(* the hop above the lowest one expired.                                   *)
(***************************************************************************)
LEMMA ExpireWatchesStands ==
  ASSUME NEW r, Sound(r), NEW c \in CANDIDATE_FRAMES, r.state = LISTENING,
         ExpireWatches(r, c).state = CANDIDATE
  PROVE  /\ ExpiredHops(r) # {}
         /\ ExpireWatches(r, c).output_hop = Min(ExpiredHops(r)) + 1
<1> DEFINE ws == Keep(r.watches, {w \in Watches : w.left > 0})
           p  == [r EXCEPT !.watches = ws]
           n  == Min(ExpiredHops(r)) + 1
<1>1. r \in Repeaters
  BY DEF Sound, Steady, Typed
<1>2. p.state = r.state /\ ToCandidate(p, n, c).output_hop = n
  BY <1>1 DEF ToCandidate, Repeaters
<1>3. ExpireWatches(r, c) = IF ExpiredHops(r) # {} THEN ToCandidate(p, n, c) ELSE p
  BY DEF ExpireWatches
<1> HIDE DEF p
<1> QED BY <1>2, <1>3 DEF LISTENING, CANDIDATE

LEMMA OnAdmittedFrameStands ==
  ASSUME NEW r, Sound(r), NEW f \in Frames, NEW duplicate \in BOOLEAN, NEW sent \in BOOLEAN,
         NEW b \in CANDIDATE_FRAMES, NEW c \in COOLDOWN_FRAMES, r.state = LISTENING,
         OnAdmittedFrame(r, f, duplicate, sent, b, c).state = CANDIDATE
  PROVE  /\ ExpiredHops(r) # {}
         /\ OnAdmittedFrame(r, f, duplicate, sent, b, c).output_hop = Min(ExpiredHops(r)) + 1
<1> DEFINE swept   == ExpireWatches(r, b)
           counted == CountPeer(swept, f)
           covered == ResolveWatchCover(counted, f)
           hit     == PeerHit(r, f)
           handled == OnFrame(covered, f, duplicate, sent, hit, c)
<1>1. hit \in BOOLEAN
  BY DEF PeerHit, Holds
<1>2. OnAdmittedFrame(r, f, duplicate, sent, b, c) = NoteHop(handled, f)
  BY DEF OnAdmittedFrame
<1>3. Steady(swept)
  BY ExpireWatchesSound DEF Sound
<1>4. swept.state = CANDIDATE =>
        ExpiredHops(r) # {} /\ swept.output_hop = Min(ExpiredHops(r)) + 1
  BY ExpireWatchesStands
<1> HIDE DEF swept, hit
<1>5. Steady(counted) /\ counted.state = swept.state /\ counted.output_hop = swept.output_hop
  BY <1>3, CountPeerSteady, CountPeerRole
<1> HIDE DEF counted
<1>6. /\ Steady(covered) /\ covered.state = counted.state
      /\ covered.output_hop = counted.output_hop
  BY <1>5, ResolveWatchCoverSteady, ResolveWatchCoverRole
<1> HIDE DEF covered
<1>7. /\ Sound(handled)
      /\ handled.state = CANDIDATE =>
           covered.state = CANDIDATE /\ handled.output_hop = covered.output_hop
  BY <1>1, <1>6, OnFrameSound, OnFrameLists
<1> HIDE DEF handled
<1>8. NoteHop(handled, f).state = handled.state /\ NoteHop(handled, f).output_hop = handled.output_hop
  BY <1>7, NoteHopRole
<1> QED BY <1>2, <1>4, <1>5, <1>6, <1>7, <1>8

LEMMA TickRepeaterStands ==
  ASSUME NEW r, Sound(r), NEW b \in CANDIDATE_FRAMES, r.state = LISTENING,
         TickRepeater(r, b).state = CANDIDATE
  PROVE  /\ ExpiredHops(r) # {}
         /\ TickRepeater(r, b).output_hop = Min(ExpiredHops(r)) + 1
<1> DEFINE swept == ExpireWatches(r, b)
<1>1. Steady(swept)
  BY ExpireWatchesSound DEF Sound
<1>2. swept.state = CANDIDATE =>
        ExpiredHops(r) # {} /\ swept.output_hop = Min(ExpiredHops(r)) + 1
  BY ExpireWatchesStands
<1>3. TickRepeater(r, b) \in {swept, ToListening(swept)}
  BY DEF TickRepeater
<1> HIDE DEF swept
<1>4. ToListening(swept).state = LISTENING
  BY <1>1, ToListeningLists
<1> QED BY <1>2, <1>3, <1>4 DEF LISTENING, CANDIDATE

LEMMA AgeRole ==
  ASSUME NEW r, Sound(r)
  PROVE  Age(r).state = r.state
  BY DEF Age, Sound, Steady, Typed, Repeaters

(***************************************************************************)
(* The edge rule: a badge that begins to stand for a hop has heard the     *)
(* frame it stands for neither at that hop nor closer in, unless a copy of *)
(* it came in after one from further out.                                  *)
(***************************************************************************)
THEOREM EdgeRuleHolds == HSpec => EdgeRuleInOrder
<1>1. ASSUME HistoryInv, [HNext]_historyVars, Standing
      PROVE  /\ ExpiredHops(repeater) # {}
             /\ repeater'.output_hop = Min(ExpiredHops(repeater)) + 1
  <2>1. Sound(repeater) /\ repeater.state = LISTENING /\ repeater'.state = CANDIDATE
    BY <1>1 DEF HistoryInv, Standing
  <2>2. ASSUME NEW f \in Frames, HearFrame(f)
        PROVE  /\ ExpiredHops(repeater) # {}
               /\ repeater'.output_hop = Min(ExpiredHops(repeater)) + 1
    BY <2>1, <2>2, OnAdmittedFrameStands DEF HearFrame, AdmitFrame
  <2>3. CASE RepeaterTick
    BY <2>1, <2>3, TickRepeaterStands DEF RepeaterTick
  <2>4. CASE RepeaterElapse
    BY <2>1, <2>4, AgeRole DEF RepeaterElapse, LISTENING, CANDIDATE
  <2>5. CASE UNCHANGED historyVars
    BY <2>1, <2>5 DEF historyVars, LISTENING, CANDIDATE
  <2> QED BY <1>1, <2>2, <2>3, <2>4, <2>5 DEF HNext
<1>2. ASSUME HistoryInv, [HNext]_historyVars, MemoryHoldsAll, Standing,
             \A w \in Vacancies(repeater, repeater'.output_hop) :
               w.key \notin inverted \cup Unsequenced
      PROVE  StandsAtVacantHop
  <2>1. \A i \in DOMAIN repeater.watches : repeater.watches[i] \in Watches
    BY <1>2, LenProperties, ElementOfSeq DEF HistoryInv, Sound, Steady, Typed, Repeaters
  <2>2. Min(ExpiredHops(repeater)) \in ExpiredHops(repeater)
    <3>1. ExpiredHops(repeater) \in SUBSET Nat
      BY <2>1, HopAssumption DEF ExpiredHops, Watches
    <3> QED BY <1>1, <1>2, <3>1, MinOfNaturals
  <2>3. PICK i \in DOMAIN repeater.watches :
          repeater.watches[i].left = 0 /\ repeater.watches[i].hop + 1 = repeater'.output_hop
    BY <1>1, <1>2, <2>2 DEF ExpiredHops
  <2> DEFINE w == repeater.watches[i]
  <2>4. w \in Vacancies(repeater, repeater'.output_hop)
    BY <2>3 DEF Vacancies
  <2>5. w.key \notin inverted \cup Unsequenced
    BY <1>2, <2>4
  <2>6. ASSUME NEW g \in heard, g.key = w.key
        PROVE  g.hop # w.hop + 1 /\ ~ (g.hop < w.hop)
    <3>1. g.hop # w.hop + 1
      BY <1>2, <2>5, <2>6 DEF HistoryInv, Informed, NotCovered
    <3>2. w.hop <= g.hop
      BY <1>2, <2>5, <2>6, LowestHopKnown DEF WatchAtLowestHop
    <3>3. w.hop \in Int /\ g.hop \in Int
      BY <1>2, <2>1 DEF HistoryInv, Informed, HopsRecalled, Frames, Watches
    <3> QED BY <3>1, <3>2, <3>3
  <2> QED BY <2>4, <2>6 DEF StandsAtVacantHop
<1>3. HistoryInv /\ [HNext]_historyVars =>
        [/\ MemoryHoldsAll
         /\ Standing
         /\ \A w \in Vacancies(repeater, repeater'.output_hop) :
              w.key \notin inverted \cup Unsequenced
         => StandsAtVacantHop]_historyVars
  BY <1>2
<1> QED BY <1>3, HistoryInductive, PTL DEF HSpec, EdgeRuleInOrder

=============================================================================
