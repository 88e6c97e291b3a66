----------------------- MODULE DerivativesCacheProofs -----------------------
(***************************************************************************)
(* Theorems of DerivativesCache for any number of callers, symbols and     *)
(* stripes and every value of the limits.                                  *)
(*                                                                         *)
(* Only and Touched are recursive functions: what they compute is shown by *)
(* induction, as the absence of a least counterexample (Least), for the    *)
(* library's induction theorems are about operators.                       *)
(***************************************************************************)
EXTENDS DerivativesCache, SequenceTheorems, WellFoundedInduction, TLAPS

\* Every set of natural numbers has a least one, if any.
LEMMA Least ==
    ASSUME NEW T \in SUBSET Nat, T # {}
    PROVE  \E n \in T : \A m \in T : n <= m
<1> DEFINE R == OpToRel(<, Nat)
<1>1. IsWellFoundedOn(R, Nat)
  BY NatLessThanWellFounded
<1>2. \A a, b \in Nat : a < b <=> <<a, b>> \in R
  BY DEF OpToRel
<1> HIDE DEF R
<1>3. PICK x \in T : \A y \in T : ~(<<y, x>> \in R)
  BY <1>1, WFMin, Zenon
<1>4. \A y \in T : ~(y < x)
  BY <1>2, <1>3
<1> QED
  BY <1>4

-----------------------------------------------------------------------------
(* Filtering a sequence.                                                   *)

TakeStep(take, s, T, k) ==
    IF k = 0 THEN <<>>
    ELSE IF s[k] \in T THEN Append(take[k - 1], s[k]) ELSE take[k - 1]

IsTake(take, s, T, n) == take = [k \in 0 .. n |-> TakeStep(take, s, T, k)]

LEMMA TakeExists ==
    ASSUME NEW s, NEW T, NEW n \in Nat
    PROVE  \E take : IsTake(take, s, T, n)
<1> DEFINE Bad == {m \in Nat : ~ \E take : IsTake(take, s, T, m)}
<1> SUFFICES ASSUME Bad # {} PROVE FALSE
  OBVIOUS
<1>1. PICK m \in Bad : \A k \in Bad : m <= k
  BY Least
<1>2. m # 0
  <2>1. IsTake([k \in 0 .. 0 |-> <<>>], s, T, 0)
    BY DEF IsTake, TakeStep
  <2> QED
    BY <2>1, <1>1
<1>3. m \in Nat \ {0} /\ m - 1 \in Nat
  BY <1>1, <1>2
<1>4. PICK g : IsTake(g, s, T, m - 1)
  BY <1>1, <1>3
<1> DEFINE h == [k \in 0 .. m |-> IF k < m THEN g[k] ELSE TakeStep(g, s, T, m)]
<1>5. \A k \in 0 .. m - 1 : g[k] = TakeStep(g, s, T, k)
  BY <1>4 DEF IsTake
<1>6. \A k \in 0 .. m : h[k] = TakeStep(h, s, T, k)
  <2> TAKE k \in 0 .. m
  <2>1. h[k] = TakeStep(g, s, T, k)
    BY <1>3, <1>5
  <2>2. k # 0 => h[k - 1] = g[k - 1]
    BY <1>3
  <2> HIDE DEF h
  <2> QED
    BY <2>1, <2>2 DEF TakeStep
<1>7. h = [k \in 0 .. m |-> TakeStep(h, s, T, k)]
  <2>1. h = [k \in 0 .. m |-> h[k]]
    BY <1>3
  <2> HIDE DEF h
  <2> QED
    BY <2>1, <1>6
<1> QED
  BY <1>7, <1>1 DEF IsTake

\* Only keeps of a sequence what is in the set, and nothing else.
LEMMA OnlyKeeps ==
    ASSUME NEW S, NEW s \in Seq(S), NEW T
    PROVE  /\ Only(s, T) \in Seq(S) /\ Len(Only(s, T)) <= Len(s)
           /\ ToSet(Only(s, T)) = ToSet(s) \cap T
           /\ IsInjective(s) => IsInjective(Only(s, T))
<1>1. Len(s) \in Nat /\ DOMAIN s = 1 .. Len(s) /\ \A i \in 1 .. Len(s) : s[i] \in S
  BY LenProperties, ElementOfSeq
<1> DEFINE take == CHOOSE take : IsTake(take, s, T, Len(s))
<1>2. IsTake(take, s, T, Len(s))
  BY <1>1, TakeExists
<1>3. Only(s, T) = take[Len(s)]
  BY DEF Only, IsTake, TakeStep
<1> HIDE DEF take
<1>4. \A k \in 0 .. Len(s) : take[k] = TakeStep(take, s, T, k)
  BY <1>2 DEF IsTake
<1> DEFINE Good(n) ==
              /\ take[n] \in Seq(S) /\ Len(take[n]) <= n
              /\ \A e : e \in ToSet(take[n]) <=> e \in T /\ \E i \in 1 .. n : s[i] = e
              /\ IsInjective(s) => IsInjective(take[n])
           Bad == {n \in 0 .. Len(s) : ~Good(n)}
<1>5. Good(0)
  <2>1. take[0] = <<>>
    BY <1>1, <1>4 DEF TakeStep
  <2> QED
    BY <2>1 DEF ToSet, IsInjective
<1>6. ASSUME NEW n \in 1 .. Len(s), Good(n - 1)
      PROVE  Good(n)
  <2> DEFINE t == take[n - 1]
  <2>1. /\ t \in Seq(S) /\ Len(t) \in Nat /\ Len(t) <= n - 1 /\ DOMAIN t = 1 .. Len(t)
        /\ \A e : e \in ToSet(t) <=> e \in T /\ \E i \in 1 .. n - 1 : s[i] = e
        /\ IsInjective(s) => IsInjective(t)
    BY <1>6, LenProperties
  <2>2. take[n] = IF s[n] \in T THEN Append(t, s[n]) ELSE t
    BY <1>1, <1>4 DEF TakeStep
  <2> HIDE DEF t
  <2>3. s[n] \in S /\ n \in Nat /\ n - 1 < n /\ n \notin 1 .. n - 1
    BY <1>1
  <2>4. CASE s[n] \notin T
    BY <2>1, <2>2, <2>3, <2>4
  <2>5. CASE s[n] \in T
    <3>1. /\ take[n] \in Seq(S) /\ Len(take[n]) = Len(t) + 1
          /\ DOMAIN take[n] = 1 .. Len(t) + 1
          /\ \A i \in 1 .. Len(t) : take[n][i] = t[i]
          /\ take[n][Len(t) + 1] = s[n]
      BY <2>1, <2>2, <2>3, <2>5, AppendProperties
    <3>2. ToSet(take[n]) = ToSet(t) \cup {s[n]}
      <4>1. \A e : e \in ToSet(take[n]) <=> \E i \in 1 .. Len(t) + 1 : take[n][i] = e
        BY <3>1 DEF ToSet
      <4>2. \A e : e \in ToSet(t) <=> \E i \in 1 .. Len(t) : t[i] = e
        BY <2>1 DEF ToSet
      <4> QED
        BY <4>1, <4>2, <3>1, <2>1
    <3>3. ASSUME IsInjective(s) PROVE IsInjective(take[n])
      <4>1. s[n] \notin ToSet(t)
        BY <2>1, <2>3, <1>1, <3>3 DEF IsInjective
      <4>2. \A i \in 1 .. Len(t) : t[i] # s[n]
        BY <4>1, <2>1 DEF ToSet
      <4> QED
        BY <4>2, <3>1, <2>1, <3>3 DEF IsInjective
    <3> QED
      BY <3>1, <3>2, <3>3, <2>1, <2>3, <2>5
  <2> QED
    BY <2>4, <2>5
<1> HIDE DEF Good
<1>7. Bad = {}
  <2> SUFFICES ASSUME Bad # {} PROVE FALSE
    OBVIOUS
  <2> Bad \in SUBSET Nat
    BY <1>1
  <2>1. PICK n \in Bad : \A k \in Bad : n <= k
    <3> HIDE DEF Bad
    <3> QED
      BY Least
  <2>2. n \in 1 .. Len(s) /\ n - 1 \in 0 .. Len(s) /\ n - 1 \notin Bad
    BY <2>1, <1>1, <1>5
  <2> QED
    BY <2>1, <2>2, <1>6
<1>8. Good(Len(s))
  BY <1>7, <1>1
<1> QED
  BY <1>8, <1>3, <1>1 DEF Good, ToSet

-----------------------------------------------------------------------------
(* Moving entries to the end.                                              *)

\* An entry moved to the end is neither lost nor doubled.
LEMMA MovedKeeps ==
    ASSUME NEW S, NEW s \in Seq(S), NEW p, NEW sym
    PROVE  /\ MovedToEnd(s, p, sym) \in Seq(S)
           /\ Len(MovedToEnd(s, p, sym)) = Len(s)
           /\ ToSet(MovedToEnd(s, p, sym)) = ToSet(s)
<1> DEFINE n == Len(s)
           m == MovedToEnd(s, p, sym)
<1>1. n \in Nat /\ DOMAIN s = 1 .. n /\ \A i \in 1 .. n : s[i] \in S
  BY LenProperties, ElementOfSeq
<1>2. CASE Find(s, p, sym) = {}
  BY <1>2 DEF MovedToEnd
<1>3. CASE Find(s, p, sym) # {}
  <2> DEFINE k == CHOOSE i \in DOMAIN s : KeyIs(s[i], p, sym)
  <2>1. k \in 1 .. n
    <3>1. \E i \in DOMAIN s : KeyIs(s[i], p, sym)
      BY <1>3 DEF Find, ToSet
    <3> QED
      BY <1>1, <3>1
  <2> DEFINE a == SubSeq(s, 1, k - 1)
             b == SubSeq(s, k + 1, n)
             t == a \o b
  <2>2. m = Append(t, s[k])
    BY <1>3 DEF MovedToEnd, RemoveAt
  <2> HIDE DEF k, m, n
  <2>3. k \in Nat \ {0} /\ k <= n
    BY <1>1, <2>1
  <2>4. a \in Seq(S) /\ Len(a) = k - 1 /\ \A i \in 1 .. k - 1 : a[i] = s[i]
    BY <1>1, <2>3, SubSeqProperties
  <2>5. b \in Seq(S) /\ Len(b) = n - k /\ \A i \in 1 .. n - k : b[i] = s[i + k]
    BY <1>1, <2>3, SubSeqProperties
  <2> HIDE DEF a, b
  <2>6. /\ t \in Seq(S) /\ Len(t) = n - 1
        /\ \A i \in 1 .. n - 1 : t[i] = IF i <= k - 1 THEN a[i] ELSE b[i - (k - 1)]
    <3>1. /\ t \in Seq(S) /\ Len(t) = Len(a) + Len(b)
          /\ \A i \in 1 .. Len(a) + Len(b) : t[i] = IF i <= Len(a) THEN a[i] ELSE b[i - Len(a)]
      BY <2>4, <2>5, ConcatProperties
    <3>2. Len(a) + Len(b) = n - 1
      BY <2>4, <2>5, <2>3, <1>1
    <3> QED
      BY <3>1, <3>2, <2>4
  <2> HIDE DEF t
  <2>7. /\ m \in Seq(S) /\ Len(m) = n
        /\ \A i \in 1 .. n - 1 : m[i] = t[i]
        /\ m[n] = s[k]
    <3>1. s[k] \in S
      BY <1>1, <2>1
    <3> QED
      BY <2>2, <2>6, <3>1, <1>1, AppendProperties
  <2>8. \A i \in 1 .. n - 1 : m[i] = IF i < k THEN s[i] ELSE s[i + 1]
    <3> TAKE i \in 1 .. n - 1
    <3>1. CASE i < k
      BY <3>1, <2>3, <2>4, <2>6, <2>7, <1>1
    <3>2. CASE ~(i < k)
      <4>1. i - (k - 1) \in 1 .. n - k /\ i - (k - 1) + k = i + 1 /\ ~(i <= k - 1)
        BY <3>2, <2>3, <1>1
      <4>2. m[i] = b[i - (k - 1)]
        BY <4>1, <2>6, <2>7
      <4> QED
        BY <4>1, <4>2, <2>5, <3>2
    <3> QED
      BY <3>1, <3>2
  <2>9. ToSet(m) = ToSet(s)
    <3>1. DOMAIN m = 1 .. n
      BY <2>7, LenProperties
    <3>2. ASSUME NEW e \in ToSet(m) PROVE e \in ToSet(s)
      <4>1. PICK i \in 1 .. n : e = m[i]
        BY <3>1 DEF ToSet
      <4>2. \E j \in 1 .. n : e = s[j]
        BY <4>1, <2>7, <2>8, <2>3, <1>1
      <4> QED
        BY <4>2, <1>1 DEF ToSet
    <3>3. ASSUME NEW e \in ToSet(s) PROVE e \in ToSet(m)
      <4>1. PICK i \in 1 .. n : e = s[i]
        BY <1>1 DEF ToSet
      <4>2. CASE i < k
        <5>1. i \in 1 .. n - 1 /\ e = m[i]
          BY <4>1, <4>2, <2>8, <2>3, <1>1
        <5> QED
          BY <5>1, <3>1, <1>1 DEF ToSet
      <4>3. CASE i = k
        <5>1. n \in 1 .. n /\ e = m[n]
          BY <4>1, <4>3, <2>7, <2>3, <1>1
        <5> QED
          BY <5>1, <3>1 DEF ToSet
      <4>4. CASE i > k
        <5>1. i - 1 \in 1 .. n - 1 /\ ~(i - 1 < k) /\ i - 1 + 1 = i
          BY <4>1, <4>4, <2>3, <1>1
        <5>2. e = m[i - 1] /\ i - 1 \in 1 .. n
          BY <4>1, <5>1, <2>8, <1>1
        <5> QED
          BY <5>2, <3>1 DEF ToSet
      <4> QED
        BY <4>1, <4>2, <4>3, <4>4, <2>3
    <3> QED
      BY <3>2, <3>3
  <2> QED
    BY <2>7, <2>9 DEF m, n
<1> QED
  BY <1>2, <1>3

TouchStep(touch, entries, s, providers, k) ==
    IF k = 0 THEN entries ELSE MovedToEnd(touch[k - 1], providers[k], s)

IsTouch(touch, entries, s, providers, n) ==
    touch = [k \in 0 .. n |-> TouchStep(touch, entries, s, providers, k)]

LEMMA TouchExists ==
    ASSUME NEW entries, NEW s, NEW providers, NEW n \in Nat
    PROVE  \E touch : IsTouch(touch, entries, s, providers, n)
<1> DEFINE Bad == {m \in Nat : ~ \E touch : IsTouch(touch, entries, s, providers, m)}
<1> SUFFICES ASSUME Bad # {} PROVE FALSE
  OBVIOUS
<1>1. PICK m \in Bad : \A k \in Bad : m <= k
  BY Least
<1>2. m # 0
  <2>1. IsTouch([k \in 0 .. 0 |-> entries], entries, s, providers, 0)
    BY DEF IsTouch, TouchStep
  <2> QED
    BY <2>1, <1>1
<1>3. m \in Nat \ {0} /\ m - 1 \in Nat
  BY <1>1, <1>2
<1>4. PICK g : IsTouch(g, entries, s, providers, m - 1)
  BY <1>1, <1>3
<1> DEFINE h == [k \in 0 .. m |-> IF k < m THEN g[k] ELSE TouchStep(g, entries, s, providers, m)]
<1>5. \A k \in 0 .. m - 1 : g[k] = TouchStep(g, entries, s, providers, k)
  BY <1>4 DEF IsTouch
<1>6. \A k \in 0 .. m : h[k] = TouchStep(h, entries, s, providers, k)
  <2> TAKE k \in 0 .. m
  <2>1. h[k] = TouchStep(g, entries, s, providers, k)
    BY <1>3, <1>5
  <2>2. k # 0 => h[k - 1] = g[k - 1]
    BY <1>3
  <2> HIDE DEF h
  <2> QED
    BY <2>1, <2>2 DEF TouchStep
<1>7. h = [k \in 0 .. m |-> TouchStep(h, entries, s, providers, k)]
  <2>1. h = [k \in 0 .. m |-> h[k]]
    BY <1>3
  <2> HIDE DEF h
  <2> QED
    BY <2>1, <1>6
<1> QED
  BY <1>7, <1>1 DEF IsTouch

\* A lookup changes the order of the entries and nothing else.
LEMMA TouchedKeeps ==
    ASSUME NEW S, NEW entries \in Seq(S), NEW s, NEW providers, Len(providers) \in Nat
    PROVE  /\ Touched(entries, s, providers) \in Seq(S)
           /\ Len(Touched(entries, s, providers)) = Len(entries)
           /\ ToSet(Touched(entries, s, providers)) = ToSet(entries)
<1> DEFINE touch == CHOOSE touch : IsTouch(touch, entries, s, providers, Len(providers))
<1>1. IsTouch(touch, entries, s, providers, Len(providers))
  BY TouchExists
<1>2. Touched(entries, s, providers) = touch[Len(providers)]
  BY DEF Touched, IsTouch, TouchStep
<1> HIDE DEF touch
<1>3. \A k \in 0 .. Len(providers) : touch[k] = TouchStep(touch, entries, s, providers, k)
  BY <1>1 DEF IsTouch
<1> DEFINE Good(k) == /\ touch[k] \in Seq(S) /\ Len(touch[k]) = Len(entries)
                      /\ ToSet(touch[k]) = ToSet(entries)
           Bad == {k \in 0 .. Len(providers) : ~Good(k)}
<1>4. Good(0)
  BY <1>3 DEF TouchStep
<1>5. ASSUME NEW k \in 1 .. Len(providers), Good(k - 1)
      PROVE  Good(k)
  <2>1. touch[k] = MovedToEnd(touch[k - 1], providers[k], s)
    BY <1>3 DEF TouchStep
  <2> QED
    BY <2>1, <1>5, MovedKeeps
<1> HIDE DEF Good
<1>6. Bad = {}
  <2> SUFFICES ASSUME Bad # {} PROVE FALSE
    OBVIOUS
  <2> Bad \in SUBSET Nat
    OBVIOUS
  <2>1. PICK k \in Bad : \A j \in Bad : k <= j
    <3> HIDE DEF Bad
    <3> QED
      BY Least
  <2>2. k \in 1 .. Len(providers) /\ k - 1 \in 0 .. Len(providers) /\ k - 1 \notin Bad
    BY <2>1, <1>4
  <2> QED
    BY <2>1, <2>2, <1>5
<1>7. Good(Len(providers))
  BY <1>6
<1> QED
  BY <1>7, <1>2 DEF Good

-----------------------------------------------------------------------------
(* The inductive invariant: a key has one entry, what a call has found was *)
(* live when it looked, what it has not found is still to be fetched, and  *)
(* what it still has to fetch is not there, or has expired, for whoever    *)
(* could put it waits for the stripe.                                      *)

OneEntryPerKey ==
    \A e, n \in ToSet(cache) : KeyIs(n, e.provider, e.symbol) => n = e

Builds(c) ==
    /\ looked[c] <= clock /\ IsInjective(todo[c])
    /\ phase[c] = "returned" => \A p \in ToSet(policy[c]) : parts[c][p] # NoTime
    /\ phase[c] # "idle" =>
          \A p \in Providers : parts[c][p] # NoTime => looked[c] < parts[c][p] + TTL
    /\ phase[c] \in Fetching =>
          /\ todo[c] # <<>>
          /\ \A p \in ToSet(policy[c]) : parts[c][p] = NoTime => p \in ToSet(todo[c])

Unfetched(c) ==
    phase[c] \in Fetching =>
        \A p \in ToSet(todo[c]) : \A e \in Find(cache, p, symbol[c]) : ~Live(e.put, clock)

CInv ==
    /\ CacheTypeOK /\ OneEntryPerKey
    /\ \A c \in Callers : Builds(c) /\ Unfetched(c)

LEMMA Constants ==
    /\ TTL \in Nat \ {0} /\ MaxEntries \in Nat \ {0} /\ MaxTime \in Nat
    /\ NoTime \notin 0 .. MaxTime /\ Nobody \notin Callers
    /\ \A s \in Symbols : StripeOf[s] \in Stripes
    /\ \A p \in Policies : p \in Seq(Providers) /\ IsInjective(p) /\ p # <<>>
BY CacheAssumption

-----------------------------------------------------------------------------
(* What a lookup and a put do to the cache.                                *)

LEMMA FoundIsThere ==
    ASSUME NEW entries \in Seq(Entry), NEW s, NEW providers
    PROVE  /\ Found(entries, s, providers) \in [Providers -> 0 .. MaxTime \cup {NoTime}]
           /\ \A p \in Providers : Found(entries, s, providers)[p] # NoTime =>
                 \E e \in Find(entries, p, s) : e.put = Found(entries, s, providers)[p]
           /\ \A p \in Providers \cap ToSet(providers) :
                 Found(entries, s, providers)[p] = NoTime => Find(entries, p, s) = {}
<1>1. \A e \in ToSet(entries) : e \in Entry
  BY DEF ToSet
<1>2. \A p : \A e \in Find(entries, p, s) : e.put \in 0 .. MaxTime
  BY <1>1 DEF Find, Entry
<1>3. \A p : Find(entries, p, s) # {} =>
        (CHOOSE e \in Find(entries, p, s) : TRUE) \in Find(entries, p, s)
  OBVIOUS
<1>4. \A p \in Providers : Found(entries, s, providers)[p] =
        IF p \in ToSet(providers) /\ Find(entries, p, s) # {}
        THEN (CHOOSE e \in Find(entries, p, s) : TRUE).put ELSE NoTime
  BY DEF Found
<1> QED
  BY <1>2, <1>3, <1>4, Constants DEF Found

LEMMA PurgedKeeps ==
    ASSUME NEW entries \in Seq(Entry), NEW now \in Nat
    PROVE  /\ Purged(entries, now) \in Seq(Entry)
           /\ Len(Purged(entries, now)) <= Len(entries)
           /\ ToSet(Purged(entries, now)) = {e \in ToSet(entries) : Live(e.put, now)}
BY OnlyKeeps DEF Purged

LEMMA LookupFinds ==
    ASSUME CInv, NEW c \in Callers, LookupAt(c, clock)
    PROVE  /\ cache' \in Seq(Entry) /\ Len(cache') <= MaxEntries
           /\ ToSet(cache') \subseteq ToSet(cache)
           /\ parts' \in [Callers -> [Providers -> 0 .. MaxTime \cup {NoTime}]]
           /\ looked' \in [Callers -> 0 .. MaxTime] /\ looked'[c] = clock
           /\ \A d \in Callers \ {c} : parts'[d] = parts[d] /\ looked'[d] = looked[d]
           /\ \A p \in Providers : parts'[c][p] # NoTime => clock < parts'[c][p] + TTL
           /\ \A p \in ToSet(policy[c]) : parts'[c][p] = NoTime =>
                 \A e \in Find(cache, p, symbol[c]) : ~Live(e.put, clock)
           /\ Missing(c) \in Seq(Providers) /\ IsInjective(Missing(c))
           /\ ToSet(Missing(c)) = {p \in ToSet(policy[c]) : parts'[c][p] = NoTime}
<1> DEFINE kept == Purged(cache, clock)
           sym == symbol[c]
           pol == policy[c]
<1>1. /\ cache \in Seq(Entry) /\ Len(cache) \in Nat /\ Len(cache) <= MaxEntries
      /\ clock \in 0 .. MaxTime /\ clock \in Nat
      /\ parts \in [Callers -> [Providers -> 0 .. MaxTime \cup {NoTime}]]
      /\ looked \in [Callers -> 0 .. MaxTime]
  BY Constants, LenProperties DEF CInv, CacheTypeOK
<1>2. pol \in Seq(Providers) /\ IsInjective(pol) /\ Len(pol) \in Nat
  BY Constants, LenProperties DEF CInv, CacheTypeOK
<1>3. \A p \in ToSet(pol) : p \in Providers
  BY <1>2 DEF ToSet
<1>4. /\ kept \in Seq(Entry) /\ Len(kept) \in Nat /\ Len(kept) <= Len(cache)
      /\ ToSet(kept) = {e \in ToSet(cache) : Live(e.put, clock)}
  BY <1>1, PurgedKeeps, LenProperties
<1>5. /\ cache' = Touched(kept, sym, pol)
      /\ parts' = [parts EXCEPT ![c] = Found(kept, sym, pol)]
      /\ looked' = [looked EXCEPT ![c] = clock]
  BY DEF LookupAt
<1> HIDE DEF kept, sym, pol
<1>6. /\ cache' \in Seq(Entry) /\ Len(cache') <= MaxEntries
      /\ ToSet(cache') \subseteq ToSet(cache)
  <2>1. cache' \in Seq(Entry) /\ Len(cache') = Len(kept) /\ ToSet(cache') = ToSet(kept)
    BY <1>2, <1>4, <1>5, TouchedKeeps
  <2> QED
    BY <2>1, <1>1, <1>4, Constants
<1>7. /\ parts' \in [Callers -> [Providers -> 0 .. MaxTime \cup {NoTime}]]
      /\ parts'[c] = Found(kept, sym, pol)
      /\ looked' \in [Callers -> 0 .. MaxTime] /\ looked'[c] = clock
      /\ \A d \in Callers \ {c} : parts'[d] = parts[d] /\ looked'[d] = looked[d]
  BY <1>1, <1>4, <1>5, FoundIsThere
<1>8. \A p \in Providers : parts'[c][p] # NoTime => clock < parts'[c][p] + TTL
  <2> SUFFICES ASSUME NEW p \in Providers, parts'[c][p] # NoTime
               PROVE  clock < parts'[c][p] + TTL
    OBVIOUS
  <2>1. PICK e \in Find(kept, p, sym) : e.put = parts'[c][p]
    BY <1>4, <1>7, FoundIsThere
  <2>2. Live(e.put, clock)
    BY <1>4 DEF Find
  <2> QED
    BY <2>1, <2>2 DEF Live
<1>9. \A p \in ToSet(pol) : parts'[c][p] = NoTime =>
         \A e \in Find(cache, p, sym) : ~Live(e.put, clock)
  <2> SUFFICES ASSUME NEW p \in ToSet(pol), parts'[c][p] = NoTime,
                      NEW e \in Find(cache, p, sym), Live(e.put, clock)
               PROVE  FALSE
    OBVIOUS
  <2>1. Find(kept, p, sym) = {}
    BY <1>3, <1>4, <1>7, FoundIsThere
  <2>2. e \in Find(kept, p, sym)
    BY <1>4 DEF Find
  <2> QED
    BY <2>1, <2>2
<1>10. /\ Missing(c) \in Seq(Providers) /\ IsInjective(Missing(c))
       /\ ToSet(Missing(c)) = {p \in ToSet(pol) : parts'[c][p] = NoTime}
  <2> DEFINE T == {p \in Providers : parts'[c][p] = NoTime}
  <2>1. Missing(c) = Only(pol, T)
    BY DEF Missing, pol
  <2> HIDE DEF T
  <2>2. /\ Only(pol, T) \in Seq(Providers) /\ IsInjective(Only(pol, T))
        /\ ToSet(Only(pol, T)) = ToSet(pol) \cap T
    BY <1>2, OnlyKeeps
  <2>3. ToSet(pol) \cap T = {p \in ToSet(pol) : parts'[c][p] = NoTime}
    BY <1>3 DEF T
  <2> QED
    BY <2>1, <2>2, <2>3
<1> QED
  BY <1>6, <1>7, <1>8, <1>9, <1>10 DEF sym, pol

\* A put leaves the one entry of its key, at most, and of the others live ones only.
LEMMA PutFits ==
    ASSUME NEW entries \in Seq(Entry), NEW p \in Providers, NEW s \in Symbols,
           NEW now \in 0 .. MaxTime
    PROVE  /\ Put(entries, p, s, now) \in Seq(Entry)
           /\ Len(Put(entries, p, s, now)) <= MaxEntries
           /\ \A e \in ToSet(Put(entries, p, s, now)) :
                 \/ e = [provider |-> p, symbol |-> s, put |-> now]
                 \/ e \in ToSet(entries) /\ ~KeyIs(e, p, s)
<1> DEFINE new == [provider |-> p, symbol |-> s, put |-> now]
           kept == Purged(entries, now)
           rest == Without(kept, p, s)
           all == Append(rest, new)
           n == Len(all)
<1>1. new \in Entry
  BY DEF Entry
<1>2. kept \in Seq(Entry) /\ ToSet(kept) \subseteq ToSet(entries)
  BY PurgedKeeps, Constants
<1> HIDE DEF kept
<1>3. rest \in Seq(Entry) /\ ToSet(rest) = ToSet(kept) \cap (ToSet(kept) \ Find(kept, p, s))
  BY <1>2, OnlyKeeps DEF Without
<1>4. \A e \in ToSet(rest) : e \in ToSet(entries) /\ ~KeyIs(e, p, s)
  BY <1>2, <1>3 DEF Find
<1> HIDE DEF rest, new
<1>5. /\ all \in Seq(Entry) /\ n = Len(rest) + 1 /\ Len(rest) \in Nat
      /\ \A i \in 1 .. Len(rest) : all[i] = rest[i]
      /\ all[Len(rest) + 1] = new
  BY <1>1, <1>3, AppendProperties, LenProperties
<1>6. \A i \in 1 .. n : all[i] \in Entry /\ (all[i] = new \/ all[i] \in ToSet(rest))
  <2>1. \A i \in 1 .. Len(rest) : rest[i] \in ToSet(rest)
    BY <1>3, LenProperties DEF ToSet
  <2>2. \A i \in 1 .. n : all[i] \in Entry
    BY <1>5, ElementOfSeq
  <2> QED
    BY <2>1, <2>2, <1>5
<1>7. Put(entries, p, s, now)
        = IF n > MaxEntries THEN SubSeq(all, n - MaxEntries + 1, n) ELSE all
  BY DEF Put, rest, kept, new
<1> HIDE DEF all, n
<1> DEFINE put == Put(entries, p, s, now)
<1>8. n \in Nat /\ n = Len(all)
  BY <1>5 DEF n
<1>9. /\ put \in Seq(Entry) /\ Len(put) <= MaxEntries
      /\ \A i \in 1 .. Len(put) : \E j \in 1 .. n : put[i] = all[j]
  <2>1. CASE n > MaxEntries
    <3>1. n - MaxEntries + 1 \in Int /\ n \in Int /\ n - (n - MaxEntries + 1) + 1 = MaxEntries
          /\ n - MaxEntries + 1 <= n /\ n - MaxEntries + 1 >= 1
      BY <2>1, <1>8, Constants
    <3>2. \A i \in n - MaxEntries + 1 .. n : all[i] \in Entry
      BY <3>1, <1>6, <1>8
    <3> DEFINE m == n - MaxEntries + 1
    <3>3. m \in Int /\ m <= n /\ m >= 1 /\ n - m + 1 = MaxEntries
      BY <3>1
    <3>4. put = SubSeq(all, m, n)
      BY <2>1, <1>7
    <3> HIDE DEF m, put
    <3>5. /\ put \in Seq(Entry) /\ Len(put) = MaxEntries
          /\ \A i \in 1 .. MaxEntries : put[i] = all[m + i - 1]
      <4>1. \A i \in m .. n : all[i] \in Entry
        BY <3>2 DEF m
      <4> QED
        BY <4>1, <3>3, <3>4, <1>8, SubSeqProperties
    <3>6. \A i \in 1 .. MaxEntries : m + i - 1 \in 1 .. n
      BY <3>3, <1>8, Constants
    <3> QED
      BY <3>5, <3>6, Constants
  <2>2. CASE ~(n > MaxEntries)
    <3>1. put = all
      BY <2>2, <1>7
    <3> HIDE DEF put
    <3> QED
      BY <2>2, <3>1, <1>5, <1>8, Constants
  <2> QED
    BY <2>1, <2>2
<1> HIDE DEF put
<1>10. ASSUME NEW e \in ToSet(put)
       PROVE  e = new \/ (e \in ToSet(entries) /\ ~KeyIs(e, p, s))
  <2>1. PICK i \in 1 .. Len(put) : e = put[i]
    BY <1>9, LenProperties DEF ToSet
  <2>2. PICK j \in 1 .. n : put[i] = all[j]
    BY <1>9
  <2>3. e = new \/ e \in ToSet(rest)
    BY <2>1, <2>2, <1>6
  <2> QED
    BY <2>3, <1>4
<1> QED
  BY <1>9, <1>10 DEF put, new

-----------------------------------------------------------------------------
(* The steps.                                                              *)

Inside == Fetching \cup {"taken"}

Holding == \A c \in Callers, l \in Stripes :
              holder[l] = c <=> phase[c] \in Inside /\ l = Stripe(c)

\* Two calls that fetch the same symbol are one.
LEMMA OneInside ==
    ASSUME CInv, NEW c \in Callers, NEW d \in Callers,
           phase[c] \in Inside, phase[d] \in Inside, symbol[c] = symbol[d]
    PROVE  c = d
<1>1. Stripe(c) \in Stripes /\ Stripe(c) = Stripe(d)
  BY Constants DEF CInv, CacheTypeOK, Stripe
<1> QED
  BY <1>1 DEF CInv, CacheTypeOK, Inside

\* A step of c that puts nothing takes nothing from the other calls.
LEMMA OthersKeep ==
    ASSUME CInv, NEW c \in Callers, NEW d \in Callers \ {c},
           UNCHANGED <<symbol, policy, clock>>,
           phase'[d] = phase[d], parts'[d] = parts[d], looked'[d] = looked[d],
           todo'[d] = todo[d], ToSet(cache') \subseteq ToSet(cache)
    PROVE  Builds(d)' /\ Unfetched(d)'
<1>1. Builds(d) /\ Unfetched(d)
  BY DEF CInv
<1>2. Builds(d)'
  BY <1>1 DEF Builds
<1>3. \A p : Find(cache', p, symbol[d]) \subseteq Find(cache, p, symbol[d])
  BY DEF Find
<1>4. Unfetched(d)'
  BY <1>1, <1>3 DEF Unfetched
<1> QED
  BY <1>2, <1>4

LEMMA LookKeeps ==
    ASSUME CInv, NEW c \in Callers, Look(c)
    PROVE  CInv' /\ ToSet(cache') \subseteq ToSet(cache)
<1>1. CacheTypeOK /\ OneEntryPerKey /\ Builds(c)
  BY DEF CInv
<1>2. /\ phase[c] = "idle" /\ LookupAt(c, clock)
      /\ Goto(c, IF Missing(c) = <<>> THEN "returned" ELSE "stripe")
      /\ UNCHANGED <<symbol, policy, start, todo, holder, registry, clock>>
  BY DEF Look
<1>3. /\ cache' \in Seq(Entry) /\ Len(cache') <= MaxEntries
      /\ ToSet(cache') \subseteq ToSet(cache)
      /\ parts' \in [Callers -> [Providers -> 0 .. MaxTime \cup {NoTime}]]
      /\ looked' \in [Callers -> 0 .. MaxTime] /\ looked'[c] = clock
      /\ \A d \in Callers \ {c} : parts'[d] = parts[d] /\ looked'[d] = looked[d]
      /\ \A p \in Providers : parts'[c][p] # NoTime => clock < parts'[c][p] + TTL
      /\ ToSet(Missing(c)) = {p \in ToSet(policy[c]) : parts'[c][p] = NoTime}
  BY <1>2, LookupFinds
<1>4. /\ phase' \in [Callers -> Phases] /\ phase'[c] \in {"returned", "stripe"}
      /\ \A d \in Callers \ {c} : phase'[d] = phase[d]
      /\ phase'[c] = "returned" => Missing(c) = <<>>
  BY <1>1, <1>2 DEF Goto, CacheTypeOK, Phases
<1>5. CacheTypeOK'
  <2>1. phase[c] \notin Inside /\ phase'[c] \notin Inside
    BY <1>2, <1>4 DEF Inside, Fetching, Requesting
  <2>2. Holding'
    BY <1>1, <1>2, <1>4, <2>1 DEF CacheTypeOK, Holding, Inside, Stripe
  <2> QED
    BY <1>1, <1>2, <1>3, <1>4, <2>2 DEF CacheTypeOK, Holding, Inside
<1>6. OneEntryPerKey'
  BY <1>1, <1>3 DEF OneEntryPerKey
<1>7. Builds(c)'
  <2>1. phase'[c] = "returned" => \A p \in ToSet(policy[c]) : parts'[c][p] # NoTime
    <3> SUFFICES ASSUME phase'[c] = "returned", NEW p \in ToSet(policy[c]), parts'[c][p] = NoTime
                 PROVE  FALSE
      OBVIOUS
    <3>1. p \in ToSet(<<>>)
      BY <1>3, <1>4
    <3> QED
      BY <3>1 DEF ToSet
  <2>2. phase'[c] \notin Fetching /\ looked'[c] <= clock'
    BY <1>1, <1>2, <1>3, <1>4 DEF Fetching, Requesting, CacheTypeOK
  <2> QED
    BY <1>1, <1>2, <1>3, <2>1, <2>2 DEF Builds
<1>8. Unfetched(c)'
  BY <1>4 DEF Unfetched, Fetching, Requesting
<1>9. \A d \in Callers \ {c} : Builds(d)' /\ Unfetched(d)'
  BY <1>2, <1>3, <1>4, OthersKeep
<1> QED
  BY <1>3, <1>5, <1>6, <1>7, <1>8, <1>9 DEF CInv

LEMMA TakeStripeKeeps ==
    ASSUME CInv, NEW c \in Callers, TakeStripe(c)
    PROVE  CInv' /\ UNCHANGED cache
<1>1. CacheTypeOK /\ OneEntryPerKey /\ Builds(c)
  BY DEF CInv
<1>2. /\ phase[c] = "stripe" /\ holder[Stripe(c)] = Nobody
      /\ holder' = [holder EXCEPT ![Stripe(c)] = c]
      /\ UNCHANGED <<symbol, policy, parts, looked, start, todo, cache, registry, clock>>
  BY DEF TakeStripe, cacheVars
<1>3. /\ phase' \in [Callers -> Phases] /\ phase'[c] = "taken"
      /\ \A d \in Callers \ {c} : phase'[d] = phase[d]
  BY <1>1 DEF TakeStripe, Goto, CacheTypeOK, Phases
<1>4. CacheTypeOK'
  <2>1. Stripe(c) \in Stripes
    BY <1>1, Constants DEF CacheTypeOK, Stripe
  <2>2. phase[c] \notin Inside /\ phase'[c] \in Inside
    BY <1>2, <1>3 DEF Inside, Fetching, Requesting
  <2>3. /\ holder' \in [Stripes -> Callers \cup {Nobody}]
        /\ holder'[Stripe(c)] = c
        /\ \A l \in Stripes \ {Stripe(c)} : holder'[l] = holder[l]
    BY <1>1, <1>2, <2>1 DEF CacheTypeOK
  <2>4. Holding'
    <3> SUFFICES ASSUME NEW d \in Callers, NEW l \in Stripes
                 PROVE  holder'[l] = d <=> phase'[d] \in Inside /\ l = Stripe(d)
      BY <1>2 DEF Holding, Stripe
    <3>1. holder[l] = d <=> phase[d] \in Inside /\ l = Stripe(d)
      BY <1>1 DEF CacheTypeOK, Inside
    <3>2. CASE d = c
      BY <3>1, <3>2, <2>2, <2>3
    <3>3. CASE d # c /\ l # Stripe(c)
      BY <3>1, <3>3, <2>3, <1>3
    <3>4. CASE d # c /\ l = Stripe(c)
      BY <3>1, <3>4, <2>3, <1>2, <1>3, Constants
    <3> QED
      BY <3>2, <3>3, <3>4
  <2> QED
    BY <1>1, <1>2, <1>3, <2>3, <2>4 DEF CacheTypeOK, Holding, Inside
<1>5. Builds(c)' /\ Unfetched(c)'
  BY <1>1, <1>2, <1>3 DEF Builds, Unfetched, Fetching, Requesting
<1>6. \A d \in Callers \ {c} : Builds(d)' /\ Unfetched(d)'
  BY <1>2, <1>3, OthersKeep
<1> QED
  BY <1>1, <1>2, <1>4, <1>5, <1>6 DEF CInv, OneEntryPerKey

\* A call under its stripe keeps it, or leaves and releases it.
LEMMA StaysOrLeaves ==
    ASSUME CacheTypeOK, NEW c \in Callers, phase[c] \in Inside, UNCHANGED symbol,
           \A d \in Callers \ {c} : phase'[d] = phase[d],
           \/ phase'[c] \in Inside /\ UNCHANGED holder
           \/ phase'[c] \notin Inside /\ Release(c)
    PROVE  Holding' /\ holder' \in [Stripes -> Callers \cup {Nobody}]
<1>1. Holding /\ holder \in [Stripes -> Callers \cup {Nobody}]
  BY DEF CacheTypeOK, Holding, Inside
<1>2. CASE phase'[c] \in Inside /\ UNCHANGED holder
  BY <1>1, <1>2 DEF Holding, Stripe
<1>3. CASE phase'[c] \notin Inside /\ Release(c)
  <2>1. Stripe(c) \in Stripes /\ holder[Stripe(c)] = c
    BY <1>1, Constants DEF CacheTypeOK, Stripe, Holding
  <2>2. /\ holder' \in [Stripes -> Callers \cup {Nobody}]
        /\ holder'[Stripe(c)] = Nobody
        /\ \A l \in Stripes \ {Stripe(c)} : holder'[l] = holder[l]
    BY <1>1, <1>3, <2>1 DEF Release
  <2>3. Holding'
    <3> SUFFICES ASSUME NEW d \in Callers, NEW l \in Stripes
                 PROVE  holder'[l] = d <=> phase'[d] \in Inside /\ l = Stripe(d)
      BY DEF Holding, Stripe
    <3>1. holder[l] = d <=> phase[d] \in Inside /\ l = Stripe(d)
      BY <1>1 DEF Holding
    <3>2. CASE l = Stripe(c)
      BY <3>1, <3>2, <2>1, <2>2, <1>3, Constants
    <3>3. CASE l # Stripe(c)
      BY <3>1, <3>3, <2>2, <1>3
    <3> QED
      BY <3>2, <3>3
  <2> QED
    BY <2>2, <2>3
<1> QED
  BY <1>2, <1>3

LEMMA LookAgainKeeps ==
    ASSUME CInv, NEW c \in Callers, LookAgain(c)
    PROVE  CInv' /\ ToSet(cache') \subseteq ToSet(cache)
<1>1. CacheTypeOK /\ OneEntryPerKey /\ Builds(c)
  BY DEF CInv
<1>2. /\ phase[c] = "taken" /\ LookupAt(c, clock)
      /\ todo' = [todo EXCEPT ![c] = Missing(c)]
      /\ start' = [start EXCEPT ![c] = clock]
      /\ UNCHANGED <<symbol, policy, registry, clock>>
  BY DEF LookAgain
<1>3. /\ cache' \in Seq(Entry) /\ Len(cache') <= MaxEntries
      /\ ToSet(cache') \subseteq ToSet(cache)
      /\ parts' \in [Callers -> [Providers -> 0 .. MaxTime \cup {NoTime}]]
      /\ looked' \in [Callers -> 0 .. MaxTime] /\ looked'[c] = clock
      /\ \A d \in Callers \ {c} : parts'[d] = parts[d] /\ looked'[d] = looked[d]
      /\ \A p \in Providers : parts'[c][p] # NoTime => clock < parts'[c][p] + TTL
      /\ \A p \in ToSet(policy[c]) : parts'[c][p] = NoTime =>
            \A e \in Find(cache, p, symbol[c]) : ~Live(e.put, clock)
      /\ Missing(c) \in Seq(Providers) /\ IsInjective(Missing(c))
      /\ ToSet(Missing(c)) = {p \in ToSet(policy[c]) : parts'[c][p] = NoTime}
  BY <1>2, LookupFinds
<1>4. /\ phase' \in [Callers -> Phases]
      /\ \A d \in Callers \ {c} : phase'[d] = phase[d]
      /\ \/ phase'[c] = "returned" /\ Missing(c) = <<>> /\ Release(c)
         \/ phase'[c] = "next" /\ Missing(c) # <<>> /\ UNCHANGED holder
  <2>1. phase \in [Callers -> Phases] /\ {"returned", "next"} \subseteq Phases
    BY <1>1 DEF CacheTypeOK, Phases, Fetching
  <2>0. todo'[c] = Missing(c)
    BY <1>1, <1>2 DEF CacheTypeOK
  <2>2. CASE Missing(c) = <<>>
    <3>1. Goto(c, "returned") /\ Release(c)
      BY <2>0, <2>2 DEF LookAgain
    <3> QED
      BY <2>1, <2>2, <3>1 DEF Goto
  <2>3. CASE Missing(c) # <<>>
    <3>1. Goto(c, "next") /\ UNCHANGED holder
      BY <2>0, <2>3 DEF LookAgain
    <3> QED
      BY <2>1, <2>3, <3>1 DEF Goto
  <2> QED
    BY <2>2, <2>3
<1>5. /\ todo'[c] = Missing(c)
      /\ \A d \in Callers \ {c} : todo'[d] = todo[d]
      /\ todo' \in [Callers -> Seq(Providers)]
      /\ start' \in [Callers -> 0 .. MaxTime]
  BY <1>1, <1>2, <1>3 DEF CacheTypeOK
<1>6. CacheTypeOK'
  <2>1. phase[c] \in Inside /\ (phase'[c] = "next" => phase'[c] \in Inside)
          /\ (phase'[c] = "returned" => phase'[c] \notin Inside)
    BY <1>2 DEF Inside, Fetching, Requesting
  <2>2. Holding' /\ holder' \in [Stripes -> Callers \cup {Nobody}]
    BY <1>1, <1>2, <1>4, <2>1, StaysOrLeaves
  <2> QED
    BY <1>1, <1>2, <1>3, <1>4, <1>5, <2>2 DEF CacheTypeOK, Holding, Inside
<1>7. OneEntryPerKey'
  BY <1>1, <1>3 DEF OneEntryPerKey
<1>8. Builds(c)'
  <2>1. Missing(c) = <<>> => \A p \in ToSet(policy[c]) : parts'[c][p] # NoTime
    <3>1. ToSet(<<>>) = {}
      BY DEF ToSet
    <3> QED
      BY <3>1, <1>3
  <2>2. looked'[c] <= clock' /\ "returned" \notin Fetching
    BY <1>1, <1>2, <1>3 DEF Fetching, Requesting, CacheTypeOK
  <2> QED
    BY <1>1, <1>2, <1>3, <1>4, <1>5, <2>1, <2>2 DEF Builds
<1>9. Unfetched(c)'
  <2>1. \A p : Find(cache', p, symbol[c]) \subseteq Find(cache, p, symbol[c])
    BY <1>3 DEF Find
  <2>2. \A p \in ToSet(Missing(c)) : \A e \in Find(cache, p, symbol[c]) : ~Live(e.put, clock)
    BY <1>3
  <2> QED
    BY <1>2, <1>5, <2>1, <2>2 DEF Unfetched
<1>10. \A d \in Callers \ {c} : Builds(d)' /\ Unfetched(d)'
  BY <1>2, <1>3, <1>4, <1>5, OthersKeep
<1> QED
  BY <1>3, <1>6, <1>7, <1>8, <1>9, <1>10 DEF CInv

LEMMA MovesKeeps ==
    ASSUME CInv, NEW c \in Callers, NEW from \in Fetching, NEW next \in Fetching,
           Moves(c, from, next), registry' \in [Providers -> 0 .. MaxTime \cup {NoTime}]
    PROVE  CInv' /\ UNCHANGED cache
<1>1. CacheTypeOK /\ OneEntryPerKey /\ Builds(c) /\ Unfetched(c)
  BY DEF CInv
<1>2. /\ phase[c] = from
      /\ UNCHANGED <<symbol, policy, parts, looked, start, todo, holder, cache, clock>>
  BY DEF Moves
<1>3. /\ phase' \in [Callers -> Phases] /\ phase'[c] = next
      /\ \A d \in Callers \ {c} : phase'[d] = phase[d]
  BY <1>1 DEF Moves, Goto, CacheTypeOK, Phases
<1>4. CacheTypeOK'
  <2>1. Holding'
    BY <1>1, <1>2, <1>3, StaysOrLeaves DEF Inside
  <2> QED
    BY <1>1, <1>2, <1>3, <2>1 DEF CacheTypeOK, Holding, Inside
<1>5. Builds(c)' /\ Unfetched(c)'
  BY <1>1, <1>2, <1>3 DEF Builds, Unfetched, Fetching, Requesting
<1>6. \A d \in Callers \ {c} : Builds(d)' /\ Unfetched(d)'
  BY <1>2, <1>3, OthersKeep
<1> QED
  BY <1>1, <1>2, <1>4, <1>5, <1>6 DEF CInv, OneEntryPerKey

LEMMA RaisesKeeps ==
    ASSUME CInv, NEW c \in Callers, Raises(c)
    PROVE  CInv' /\ UNCHANGED cache
<1>1. CacheTypeOK /\ OneEntryPerKey /\ Builds(c)
  BY DEF CInv
<1>2. /\ phase[c] = "resolve" /\ Release(c)
      /\ UNCHANGED <<symbol, policy, parts, looked, start, todo, cache, registry, clock>>
  BY DEF Raises, cacheVars
<1>3. /\ phase' \in [Callers -> Phases] /\ phase'[c] = "raised"
      /\ \A d \in Callers \ {c} : phase'[d] = phase[d]
  BY <1>1 DEF Raises, Goto, CacheTypeOK, Phases
<1>4. CacheTypeOK'
  <2>1. phase[c] \in Inside /\ phase'[c] \notin Inside
    BY <1>2, <1>3 DEF Inside, Fetching, Requesting
  <2>2. Holding' /\ holder' \in [Stripes -> Callers \cup {Nobody}]
    BY <1>1, <1>2, <1>3, <2>1, StaysOrLeaves
  <2> QED
    BY <1>1, <1>2, <1>3, <2>2 DEF CacheTypeOK, Holding, Inside
<1>5. Builds(c)' /\ Unfetched(c)'
  BY <1>1, <1>2, <1>3 DEF Builds, Unfetched, Fetching, Requesting
<1>6. \A d \in Callers \ {c} : Builds(d)' /\ Unfetched(d)'
  BY <1>2, <1>3, OthersKeep
<1> QED
  BY <1>1, <1>2, <1>4, <1>5, <1>6 DEF CInv, OneEntryPerKey

LEMMA TickKeeps ==
    ASSUME CInv, Tick
    PROVE  CInv' /\ UNCHANGED cache
<1>1. CacheTypeOK /\ OneEntryPerKey /\ clock \in 0 .. MaxTime
  BY DEF CInv, CacheTypeOK
<1>2. /\ clock < MaxTime /\ clock' = clock + 1
      /\ UNCHANGED <<phase, symbol, policy, parts, looked, start, todo, holder, cache, registry>>
  BY DEF Tick, callVars, cacheVars
<1>3. CacheTypeOK'
  <2>1. clock' \in 0 .. MaxTime
    BY <1>1, <1>2, Constants
  <2> QED
    BY <1>1, <1>2, <2>1 DEF CacheTypeOK, Stripe
<1>4. ASSUME NEW c \in Callers PROVE Builds(c)' /\ Unfetched(c)'
  <2>1. Builds(c) /\ Unfetched(c) /\ looked[c] \in 0 .. MaxTime
    BY <1>1 DEF CInv, CacheTypeOK
  <2>2. Builds(c)'
    BY <1>1, <1>2, <2>1 DEF Builds
  <2>3. \A p : \A e \in Find(cache, p, symbol[c]) : e.put \in 0 .. MaxTime
    <3>1. cache \in Seq(Entry) /\ DOMAIN cache = 1 .. Len(cache)
      BY <1>1, LenProperties DEF CacheTypeOK
    <3>2. \A i \in DOMAIN cache : cache[i] \in Entry
      BY <3>1, ElementOfSeq
    <3> QED
      BY <3>2 DEF Find, ToSet, Entry
  <2>4. \A p : \A e \in Find(cache, p, symbol[c]) : Live(e.put, clock') => Live(e.put, clock)
    BY <2>3, <1>1, <1>2, Constants DEF Live
  <2> QED
    BY <1>2, <2>1, <2>2, <2>4 DEF Unfetched
<1> QED
  BY <1>1, <1>2, <1>3, <1>4 DEF CInv, OneEntryPerKey

\* The first provider to be fetched, and the others.
LEMMA FirstAndRest ==
    ASSUME NEW s \in Seq(Providers), s # <<>>, IsInjective(s)
    PROVE  /\ Head(s) \in Providers /\ Tail(s) \in Seq(Providers) /\ IsInjective(Tail(s))
           /\ Head(s) \notin ToSet(Tail(s)) /\ ToSet(s) = {Head(s)} \cup ToSet(Tail(s))
<1> DEFINE n == Len(s)
           t == Tail(s)
<1>1. /\ n \in Nat /\ n > 0 /\ DOMAIN s = 1 .. n /\ \A i \in 1 .. n : s[i] \in Providers
      /\ Head(s) = s[1]
  BY LenProperties, ElementOfSeq, EmptySeq
<1>2. /\ t \in Seq(Providers) /\ Len(t) = n - 1 /\ \A i \in 1 .. n - 1 : t[i] = s[i + 1]
      /\ DOMAIN t = 1 .. n - 1
  BY HeadTailProperties, LenProperties
<1> HIDE DEF n, t
<1>3. \A i, j \in 1 .. n : s[i] = s[j] => i = j
  BY <1>1 DEF IsInjective
<1>4. IsInjective(t)
  <2> SUFFICES ASSUME NEW i \in 1 .. n - 1, NEW j \in 1 .. n - 1, t[i] = t[j]
               PROVE  i = j
    BY <1>2 DEF IsInjective
  <2>1. i + 1 \in 1 .. n /\ j + 1 \in 1 .. n /\ s[i + 1] = s[j + 1]
    BY <1>1, <1>2
  <2>2. i + 1 = j + 1
    BY <2>1, <1>3
  <2> QED
    BY <2>2
<1>5. s[1] \notin ToSet(t)
  <2> SUFFICES ASSUME NEW i \in 1 .. n - 1, t[i] = s[1] PROVE FALSE
    BY <1>2 DEF ToSet
  <2>1. i + 1 \in 1 .. n /\ 1 \in 1 .. n /\ s[i + 1] = s[1] /\ i + 1 # 1
    BY <1>1, <1>2
  <2> QED
    BY <2>1, <1>3
<1>6. ASSUME NEW p PROVE p \in ToSet(s) <=> p = s[1] \/ p \in ToSet(t)
  <2>1. p \in ToSet(s) <=> \E i \in 1 .. n : s[i] = p
    BY <1>1 DEF ToSet
  <2>2. p \in ToSet(t) <=> \E i \in 1 .. n - 1 : s[i + 1] = p
    BY <1>2 DEF ToSet
  <2>3. ASSUME NEW i \in 1 .. n, s[i] = p PROVE p = s[1] \/ \E j \in 1 .. n - 1 : s[j + 1] = p
    <3>1. CASE i = 1
      BY <2>3, <3>1
    <3>2. CASE i # 1
      <4>1. i - 1 \in 1 .. n - 1 /\ s[(i - 1) + 1] = p
        BY <2>3, <3>2, <1>1
      <4> QED
        BY <4>1
    <3> QED
      BY <3>1, <3>2
  <2>4. \A j \in 1 .. n - 1 : j + 1 \in 1 .. n
    BY <1>1
  <2>5. 1 \in 1 .. n
    BY <1>1
  <2> QED
    BY <2>1, <2>2, <2>3, <2>4, <2>5
<1> QED
  BY <1>1, <1>2, <1>4, <1>5, <1>6 DEF t

LEMMA PutSymbolKeeps ==
    ASSUME CInv, NEW c \in Callers, PutSymbol(c)
    PROVE  /\ CInv'
           /\ \A p \in Providers, s \in Symbols : LiveIsKept(p, s)
<1> DEFINE prov == Provider(c)
           sym == symbol[c]
           new == [provider |-> prov, symbol |-> sym, put |-> clock]
<1>1. CacheTypeOK /\ OneEntryPerKey /\ Builds(c) /\ Unfetched(c)
  BY DEF CInv
<1>2. /\ phase[c] = "put"
      /\ cache' = Put(cache, prov, sym, clock)
      /\ parts' = [parts EXCEPT ![c][prov] = clock]
      /\ todo' = [todo EXCEPT ![c] = Tail(@)]
      /\ UNCHANGED <<symbol, policy, looked, start, registry, clock>>
  BY DEF PutSymbol
<1>3. /\ todo[c] \in Seq(Providers) /\ todo[c] # <<>> /\ IsInjective(todo[c])
      /\ clock \in 0 .. MaxTime /\ looked[c] <= clock /\ looked[c] \in 0 .. MaxTime
      /\ sym \in Symbols
  BY <1>1, <1>2 DEF CacheTypeOK, Builds, Fetching
<1>4. /\ prov \in Providers /\ Tail(todo[c]) \in Seq(Providers)
      /\ IsInjective(Tail(todo[c])) /\ prov \notin ToSet(Tail(todo[c]))
      /\ ToSet(todo[c]) = {prov} \cup ToSet(Tail(todo[c]))
  BY <1>3, FirstAndRest DEF Provider
<1>5. /\ todo' \in [Callers -> Seq(Providers)] /\ todo'[c] = Tail(todo[c])
      /\ \A d \in Callers \ {c} : todo'[d] = todo[d]
  BY <1>1, <1>2, <1>4 DEF CacheTypeOK
<1>6. /\ parts' \in [Callers -> [Providers -> 0 .. MaxTime \cup {NoTime}]]
      /\ parts'[c][prov] = clock
      /\ \A p \in Providers \ {prov} : parts'[c][p] = parts[c][p]
      /\ \A d \in Callers \ {c} : parts'[d] = parts[d]
  BY <1>1, <1>2, <1>3, <1>4 DEF CacheTypeOK
<1>7. /\ phase' \in [Callers -> Phases]
      /\ \A d \in Callers \ {c} : phase'[d] = phase[d]
      /\ \/ phase'[c] = "returned" /\ todo'[c] = <<>> /\ Release(c)
         \/ phase'[c] = "next" /\ todo'[c] # <<>> /\ UNCHANGED holder
  <2>1. phase \in [Callers -> Phases] /\ {"returned", "next"} \subseteq Phases
    BY <1>1 DEF CacheTypeOK, Phases, Fetching
  <2>2. CASE todo'[c] = <<>>
    <3>1. Goto(c, "returned") /\ Release(c)
      BY <2>2 DEF PutSymbol
    <3> QED
      BY <2>1, <2>2, <3>1 DEF Goto
  <2>3. CASE todo'[c] # <<>>
    <3>1. Goto(c, "next") /\ UNCHANGED holder
      BY <2>3 DEF PutSymbol
    <3> QED
      BY <2>1, <2>3, <3>1 DEF Goto
  <2> QED
    BY <2>2, <2>3
<1>8. /\ cache' \in Seq(Entry) /\ Len(cache') <= MaxEntries
      /\ \A e \in ToSet(cache') :
            \/ e = new
            \/ e \in ToSet(cache) /\ ~KeyIs(e, prov, sym)
  <2>1. cache \in Seq(Entry)
    BY <1>1 DEF CacheTypeOK
  <2> QED
    BY <1>2, <1>3, <1>4, <2>1, PutFits
<1>9. CacheTypeOK'
  <2>1. phase[c] \in Inside /\ (phase'[c] = "next" => phase'[c] \in Inside)
          /\ (phase'[c] = "returned" => phase'[c] \notin Inside)
    BY <1>2 DEF Inside, Fetching, Requesting
  <2>2. Holding' /\ holder' \in [Stripes -> Callers \cup {Nobody}]
    BY <1>1, <1>2, <1>7, <2>1, StaysOrLeaves
  <2> QED
    BY <1>1, <1>2, <1>5, <1>6, <1>7, <1>8, <2>2 DEF CacheTypeOK, Holding, Inside
<1> HIDE DEF prov, sym
<1>10. OneEntryPerKey'
  <2> SUFFICES ASSUME NEW e \in ToSet(cache'), NEW n \in ToSet(cache'),
                      n.provider = e.provider, n.symbol = e.symbol
               PROVE  n = e
    BY DEF OneEntryPerKey, KeyIs
  <2>1. CASE e = new \/ n = new
    BY <2>1, <1>8 DEF KeyIs
  <2>2. CASE e # new /\ n # new
    BY <2>2, <1>1, <1>8 DEF OneEntryPerKey, KeyIs
  <2> QED
    BY <2>1, <2>2
<1>11. Builds(c)'
  <2>1. \A p \in ToSet(policy[c]) :
           parts'[c][p] = NoTime => p \in ToSet(todo'[c])
    <3> SUFFICES ASSUME NEW p \in ToSet(policy[c]), parts'[c][p] = NoTime
                 PROVE  p \in ToSet(todo'[c])
      OBVIOUS
    <3>1. p # prov
      BY <1>3, <1>6, Constants
    <3>2. p \in Providers
      BY <1>1 DEF CacheTypeOK, Providers
    <3>3. parts[c][p] = NoTime
      BY <1>6, <3>1, <3>2
    <3>4. p \in ToSet(todo[c])
      BY <1>1, <1>2, <3>3 DEF Builds, Fetching
    <3> QED
      BY <1>4, <1>5, <3>1, <3>4
  <2>2. todo'[c] = <<>> => \A p \in ToSet(policy[c]) : parts'[c][p] # NoTime
    <3>1. ToSet(<<>>) = {}
      BY DEF ToSet
    <3> QED
      BY <2>1, <3>1
  <2>3. \A p \in Providers : parts'[c][p] # NoTime => looked'[c] < parts'[c][p] + TTL
    <3> SUFFICES ASSUME NEW p \in Providers, parts'[c][p] # NoTime
                 PROVE  looked[c] < parts'[c][p] + TTL
      BY <1>2
    <3>1. CASE p = prov
      BY <3>1, <1>3, <1>6, Constants
    <3>2. CASE p # prov
      BY <3>2, <1>1, <1>2, <1>6 DEF Builds
    <3> QED
      BY <3>1, <3>2
  <2>4. looked'[c] <= clock' /\ "returned" \notin Fetching
    BY <1>2, <1>3 DEF Fetching, Requesting
  <2> QED
    BY <1>2, <1>4, <1>5, <1>7, <2>1, <2>2, <2>3, <2>4 DEF Builds
<1>12. Unfetched(c)'
  <2> SUFFICES ASSUME NEW p \in ToSet(Tail(todo[c])), NEW e \in Find(cache', p, sym)
               PROVE  ~Live(e.put, clock)
    BY <1>2, <1>5 DEF Unfetched, sym
  <2>1. e.provider = p /\ e \in ToSet(cache') /\ KeyIs(e, p, sym)
    BY DEF Find, KeyIs
  <2>2. p # prov /\ p \in ToSet(todo[c])
    BY <1>4
  <2>3. e \in ToSet(cache)
    BY <1>8, <2>1, <2>2
  <2>4. e \in Find(cache, p, sym)
    BY <2>1, <2>3 DEF Find
  <2> QED
    BY <1>1, <1>2, <2>2, <2>4 DEF Unfetched, Fetching, sym
<1>13. ASSUME NEW d \in Callers \ {c} PROVE Builds(d)' /\ Unfetched(d)'
  <2>1. Builds(d) /\ Unfetched(d)
    BY DEF CInv
  <2>2. Builds(d)'
    BY <1>2, <1>5, <1>6, <1>7, <2>1 DEF Builds
  <2>3. Unfetched(d)'
    <3> SUFFICES ASSUME phase[d] \in Fetching, NEW p \in ToSet(todo[d]),
                        NEW e \in Find(cache', p, symbol[d])
                 PROVE  ~Live(e.put, clock)
      BY <1>2, <1>5, <1>7 DEF Unfetched
    <3>1. symbol[d] # sym
      BY <1>2, OneInside DEF Inside, Fetching, sym
    <3>2. e \in ToSet(cache') /\ e.symbol = symbol[d] /\ KeyIs(e, p, symbol[d])
      BY DEF Find, KeyIs
    <3>3. e \in Find(cache, p, symbol[d])
      BY <1>8, <3>1, <3>2 DEF Find
    <3> QED
      BY <2>1, <3>3 DEF Unfetched
  <2> QED
    BY <2>2, <2>3
<1>14. CInv'
  BY <1>9, <1>10, <1>11, <1>12, <1>13 DEF CInv
<1>15. ASSUME NEW p \in Providers, NEW s \in Symbols PROVE LiveIsKept(p, s)
  <2> SUFFICES ASSUME NEW e \in Find(cache, p, s), NEW n \in Find(cache', p, s),
                      Live(e.put, clock)
               PROVE  n.put = e.put
    BY DEF LiveIsKept
  <2>1. /\ e \in ToSet(cache) /\ n \in ToSet(cache')
        /\ e.provider = p /\ e.symbol = s /\ n.provider = p /\ n.symbol = s
    BY DEF Find, KeyIs
  <2>2. n # new
    <3> SUFFICES ASSUME n = new PROVE FALSE
      OBVIOUS
    <3>1. p = prov /\ s = sym
      BY <2>1
    <3>2. prov \in ToSet(todo[c])
      BY <1>4
    <3> QED
      BY <1>1, <1>2, <3>1, <3>2 DEF Unfetched, Fetching, sym
  <2>3. n \in ToSet(cache)
    BY <1>8, <2>1, <2>2
  <2> QED
    BY <1>1, <2>1, <2>3 DEF OneEntryPerKey, KeyIs
<1> QED
  BY <1>14, <1>15

-----------------------------------------------------------------------------
(* The theorems.                                                           *)

LEMMA InitCInv == Init => CInv
<1> SUFFICES ASSUME Init PROVE CInv
  OBVIOUS
<1>1. 0 \in 0 .. MaxTime
  BY Constants
<1>2. <<>> \in Seq(Providers) /\ <<>> \in Seq(Entry) /\ Len(<<>>) = 0 /\ ToSet(<<>>) = {}
      /\ IsInjective(<<>>)
  BY DEF ToSet, IsInjective
<1>3. "idle" \in Phases /\ "idle" \notin Inside /\ "idle" \notin Fetching
  BY DEF Phases, Inside, Fetching, Requesting
<1>4. CacheTypeOK
  <2>1. Holding
    BY <1>3, Constants DEF Init, Holding
  <2> QED
    BY <1>1, <1>2, <1>3, <2>1, Constants DEF Init, CacheTypeOK, NoParts, Holding, Inside
<1>5. OneEntryPerKey
  BY <1>2 DEF Init, OneEntryPerKey
<1>6. \A c \in Callers : Builds(c) /\ Unfetched(c)
  BY <1>2, <1>3 DEF Init, Builds, Unfetched
<1> QED
  BY <1>4, <1>5, <1>6 DEF CInv

\* A step that only drops entries, or none, replaces nothing.
LEMMA DroppedIsKept ==
    ASSUME CInv, ToSet(cache') \subseteq ToSet(cache)
    PROVE  \A p \in Providers, s \in Symbols : LiveIsKept(p, s)
BY DEF CInv, OneEntryPerKey, LiveIsKept, Find, KeyIs

LEMMA CallStepKeeps ==
    ASSUME CInv, NEW c \in Callers, CallStep(c)
    PROVE  CInv' /\ \A p \in Providers, s \in Symbols : LiveIsKept(p, s)
<1>1. /\ registry \in [Providers -> 0 .. MaxTime \cup {NoTime}]
      /\ clock \in 0 .. MaxTime
  BY DEF CInv, CacheTypeOK
<1>2. CASE Look(c)
  BY <1>2, LookKeeps, DroppedIsKept
<1>3. CASE TakeStripe(c)
  BY <1>3, TakeStripeKeeps, DroppedIsKept
<1>4. CASE LookAgain(c)
  BY <1>4, LookAgainKeeps, DroppedIsKept
<1>5. ASSUME NEW from \in Fetching, NEW next \in Fetching, Moves(c, from, next),
             registry' \in [Providers -> 0 .. MaxTime \cup {NoTime}]
      PROVE  CInv' /\ \A p \in Providers, s \in Symbols : LiveIsKept(p, s)
  BY <1>5, MovesKeeps, DroppedIsKept
<1>6. {"next", "resolve", "registry", "funding", "funded", "interest", "put"} \subseteq Fetching
  BY DEF Fetching, Requesting
<1>7. CASE GetRegistry(c)
  <2>1. PICK next \in Fetching : Moves(c, "next", next)
    BY <1>6, <1>7 DEF GetRegistry
  <2>2. registry' \in [Providers -> 0 .. MaxTime \cup {NoTime}]
    BY <1>1, <1>7 DEF GetRegistry, PurgeRegistry
  <2> QED
    BY <1>5, <1>6, <2>1, <2>2
<1>8. ASSUME NEW ok \in BOOLEAN, RegistryReply(c, ok)
      PROVE  CInv' /\ \A p \in Providers, s \in Symbols : LiveIsKept(p, s)
  <2>1. PICK next \in Fetching : Moves(c, "registry", next)
    BY <1>6, <1>8 DEF RegistryReply
  <2>2. registry' \in [Providers -> 0 .. MaxTime \cup {NoTime}]
    BY <1>1, <1>8 DEF RegistryReply
  <2> QED
    BY <1>5, <1>6, <2>1, <2>2
<1>9. ASSUME NEW ok \in BOOLEAN, Resolve(c, ok)
      PROVE  CInv' /\ \A p \in Providers, s \in Symbols : LiveIsKept(p, s)
  <2>1. PICK next \in Fetching : Moves(c, "resolve", next)
    BY <1>6, <1>9 DEF Resolve
  <2> QED
    BY <1>1, <1>5, <1>6, <1>9, <2>1 DEF Resolve
<1>10. CASE FundingReply(c)
  BY <1>1, <1>5, <1>6, <1>10 DEF FundingReply
<1>11. CASE AskInterest(c)
  <2>1. PICK next \in Fetching : Moves(c, "funded", next)
    BY <1>6, <1>11 DEF AskInterest
  <2> QED
    BY <1>1, <1>5, <1>6, <1>11, <2>1 DEF AskInterest
<1>12. CASE InterestReply(c)
  BY <1>1, <1>5, <1>6, <1>12 DEF InterestReply
<1>13. CASE PutSymbol(c)
  BY <1>13, PutSymbolKeeps
<1>14. CASE Raises(c)
  BY <1>14, RaisesKeeps, DroppedIsKept
<1> QED
  BY <1>2, <1>3, <1>4, <1>7, <1>8, <1>9, <1>10, <1>11, <1>12, <1>13, <1>14 DEF CallStep

LEMMA NextKeeps ==
    CInv /\ [Next]_vars
        => CInv' /\ \A p \in Providers, s \in Symbols : LiveIsKept(p, s)
<1> SUFFICES ASSUME CInv, [Next]_vars
             PROVE  CInv' /\ \A p \in Providers, s \in Symbols : LiveIsKept(p, s)
  OBVIOUS
<1>1. ASSUME NEW c \in Callers, CallStep(c)
      PROVE  CInv' /\ \A p \in Providers, s \in Symbols : LiveIsKept(p, s)
  BY <1>1, CallStepKeeps
<1>2. CASE Tick
  BY <1>2, TickKeeps, DroppedIsKept
<1>3. CASE UNCHANGED vars
  <2>1. UNCHANGED <<phase, symbol, policy, parts, looked, start, todo, holder, cache, registry, clock>>
    BY <1>3 DEF vars, callVars, cacheVars
  <2>2. CInv'
    BY <2>1 DEF CInv, CacheTypeOK, OneEntryPerKey, Builds, Unfetched, Stripe
  <2> QED
    BY <2>1, <2>2, DroppedIsKept
<1> QED
  BY <1>1, <1>2, <1>3 DEF Next

LEMMA CacheInvariant == Spec => []CInv
<1>1. CInv /\ [Next]_vars => CInv'
  BY NextKeeps
<1> QED
  BY InitCInv, <1>1, PTL DEF Spec

\* The cache never holds more than SYMBOL_CACHE_MAX_ENTRIES entries, and the calls that
\* hold a stripe are exactly those that are under it (CacheTypeOK, of
\* get_raw_derivatives_bundle), for any number of calls, symbols and stripes.
THEOREM CacheTyped == Spec => []CacheTypeOK
<1>1. CInv => CacheTypeOK
  BY DEF CInv
<1> QED
  BY CacheInvariant, <1>1, PTL

\* A call returns a part for every provider it asked for, none of which had expired when
\* it last looked (BundleIsSound), whatever is evicted or expires meanwhile.
THEOREM CacheBundle == Spec => []BundleIsSound
<1>1. CInv => BundleIsSound
  BY DEF CInv, Builds, BundleIsSound
<1> QED
  BY CacheInvariant, <1>1, PTL

\* No put replaces an entry that is live (NothingIsFetchedTwice): the stripe and the
\* second lookup under it are enough, however many calls share a symbol.
THEOREM CacheFetchesOnce == Spec => NothingIsFetchedTwice
<1>1. CInv /\ [Next]_vars => [\A p \in Providers, s \in Symbols : LiveIsKept(p, s)]_vars
  BY NextKeeps
<1> QED
  BY CacheInvariant, <1>1, PTL DEF Spec, NothingIsFetchedTwice

\* _SYMBOL_CACHE has one entry per provider and symbol, although the model keeps a
\* sequence: the entries a lookup finds are the ones it would find in the dictionary.
THEOREM CacheIsADictionary == Spec => []OneEntryPerKey
<1>1. CInv => OneEntryPerKey
  BY DEF CInv
<1> QED
  BY CacheInvariant, <1>1, PTL

-----------------------------------------------------------------------------
(***************************************************************************)
(* The number of steps a call still has before it, at the most: seven for  *)
(* each provider to be fetched after the one under way, and those of that  *)
(* one by its phase; before the second lookup any provider may be missing. *)
(***************************************************************************)
PhaseLeft(f) ==
    CASE f = "next" -> 7
      [] f = "registry" -> 6
      [] f = "resolve" -> 5
      [] f = "funding" -> 4
      [] f = "funded" -> 3
      [] f = "interest" -> 2
      [] f = "put" -> 1
      [] f = "idle" -> 3
      [] f = "stripe" -> 2
      [] f = "taken" -> 1

Left(f, n, m) ==
    CASE f \in {"returned", "raised"} -> 0
      [] f \in Fetching -> 7 * (n - 1) + PhaseLeft(f)
      [] f \in {"idle", "stripe", "taken"} -> 7 * m + PhaseLeft(f)

StepsLeft(c) == Left(phase[c], Len(todo[c]), Len(policy[c]))

CountsDown(c) ==
    /\ StepsLeft(c) \in Nat /\ StepsLeft(c)' \in Nat /\ StepsLeft(c)' <= StepsLeft(c)
    /\ CallStep(c) => StepsLeft(c)' < StepsLeft(c)

LEMMA LeftType ==
    ASSUME NEW f \in Phases, NEW n \in Nat, NEW m \in Nat, f \in Fetching => n > 0
    PROVE  /\ Left(f, n, m) \in Nat
           /\ f \in {"returned", "raised"} => Left(f, n, m) = 0
           /\ f \in Fetching => Left(f, n, m) = 7 * (n - 1) + PhaseLeft(f)
           /\ f \in {"idle", "stripe", "taken"} => Left(f, n, m) = 7 * m + PhaseLeft(f)
<1>1. CASE f \in Fetching
  <2>1. PhaseLeft(f) \in 1 .. 7 /\ f \notin {"returned", "raised", "idle", "stripe", "taken"}
    BY <1>1 DEF Fetching, Requesting, PhaseLeft
  <2>2. Left(f, n, m) = 7 * (n - 1) + PhaseLeft(f)
    BY <1>1, <2>1 DEF Left
  <2> QED
    BY <1>1, <2>1, <2>2
<1>2. CASE f \in {"idle", "stripe", "taken"}
  <2>1. PhaseLeft(f) \in 1 .. 7 /\ f \notin Fetching \cup {"returned", "raised"}
    BY <1>2 DEF Fetching, Requesting, PhaseLeft
  <2>2. Left(f, n, m) = 7 * m + PhaseLeft(f)
    BY <1>2, <2>1 DEF Left
  <2> QED
    BY <1>2, <2>1, <2>2
<1>3. CASE f \in {"returned", "raised"}
  <2>1. f \notin Fetching \cup {"idle", "stripe", "taken"}
    BY <1>3 DEF Fetching, Requesting
  <2>2. Left(f, n, m) = 0
    BY <1>3, <2>1 DEF Left
  <2> QED
    BY <1>3, <2>1, <2>2
<1> QED
  BY <1>1, <1>2, <1>3 DEF Phases

LEMMA Lengths ==
    ASSUME CInv, NEW c \in Callers
    PROVE  /\ phase[c] \in Phases /\ Len(policy[c]) \in Nat /\ Len(todo[c]) \in Nat
           /\ phase[c] \in Fetching => Len(todo[c]) > 0
<1>1. /\ phase[c] \in Phases /\ policy[c] \in Policies /\ todo[c] \in Seq(Providers)
      /\ phase[c] \in Fetching => todo[c] # <<>>
  BY DEF CInv, CacheTypeOK, Builds
<1> QED
  BY <1>1, Constants, LenProperties, EmptySeq

LEMMA LengthsNext ==
    ASSUME CInv', NEW c \in Callers
    PROVE  /\ phase'[c] \in Phases /\ Len(policy'[c]) \in Nat /\ Len(todo'[c]) \in Nat
           /\ phase'[c] \in Fetching => Len(todo'[c]) > 0
<1>1. /\ phase'[c] \in Phases /\ policy'[c] \in Policies /\ todo'[c] \in Seq(Providers)
      /\ phase'[c] \in Fetching => todo'[c] # <<>>
  BY DEF CInv, CacheTypeOK, Builds
<1> QED
  BY <1>1, Constants, LenProperties, EmptySeq

\* A step of its own brings a call nearer to its end.
LEMMA OwnStep ==
    ASSUME CInv, CInv', NEW c \in Callers, CallStep(c)
    PROVE  StepsLeft(c)' < StepsLeft(c)
<1> DEFINE n == Len(todo[c])
           m == Len(policy[c])
<1>1. /\ phase \in [Callers -> Phases] /\ todo \in [Callers -> Seq(Providers)]
      /\ policy[c] \in Seq(Providers) /\ policy'[c] = policy[c]
  BY Constants DEF CInv, CacheTypeOK, CallStep, Look, TakeStripe, LookAgain, GetRegistry,
      RegistryReply, Resolve, FundingReply, AskInterest, InterestReply, PutSymbol, Raises, Moves
<1>2. /\ StepsLeft(c) \in Nat /\ m \in Nat /\ n \in Nat
      /\ phase[c] \in Fetching => n > 0 /\ StepsLeft(c) = 7 * (n - 1) + PhaseLeft(phase[c])
      /\ phase[c] \in {"idle", "stripe", "taken"} => StepsLeft(c) = 7 * m + PhaseLeft(phase[c])
  BY Lengths, LeftType DEF StepsLeft
<1>3. /\ Len(todo'[c]) \in Nat
      /\ phase'[c] \in Fetching =>
            StepsLeft(c)' = 7 * (Len(todo'[c]) - 1) + PhaseLeft(phase'[c])
      /\ phase'[c] \in {"idle", "stripe", "taken"} => StepsLeft(c)' = 7 * m + PhaseLeft(phase'[c])
      /\ phase'[c] \in {"returned", "raised"} => StepsLeft(c)' = 0
  <2> DEFINE k == Len(todo'[c])
             l == Len(policy'[c])
  <2>1. /\ phase'[c] \in Phases /\ l \in Nat /\ k \in Nat
        /\ phase'[c] \in Fetching => k > 0
    BY LengthsNext
  <2>2. StepsLeft(c)' = Left(phase'[c], k, l) /\ l = m
    BY <1>1 DEF StepsLeft, Left, PhaseLeft
  <2> HIDE DEF k, l
  <2>3. /\ phase'[c] \in Fetching => Left(phase'[c], k, l) = 7 * (k - 1) + PhaseLeft(phase'[c])
        /\ phase'[c] \in {"idle", "stripe", "taken"} =>
              Left(phase'[c], k, l) = 7 * l + PhaseLeft(phase'[c])
        /\ phase'[c] \in {"returned", "raised"} => Left(phase'[c], k, l) = 0
    BY <2>1, LeftType
  <2> HIDE DEF m
  <2> QED
    BY <2>1, <2>2, <2>3 DEF k
<1> HIDE DEF n, m
<1>4. CASE Look(c)
  BY <1>1, <1>2, <1>3, <1>4 DEF Look, Goto, PhaseLeft
<1>5. CASE TakeStripe(c)
  BY <1>1, <1>2, <1>3, <1>5 DEF TakeStripe, Goto, PhaseLeft
<1>6. CASE LookAgain(c)
  <2>1. phase[c] = "taken" /\ phase'[c] \in {"next", "returned"} /\ Len(todo'[c]) <= m
    <3>1. todo'[c] = Only(policy[c], {p \in Providers : parts'[c][p] = NoTime})
      BY <1>1, <1>6 DEF LookAgain, Missing
    <3>2. Len(todo'[c]) <= Len(policy[c])
      BY <1>1, <3>1, OnlyKeeps
    <3> QED
      BY <1>1, <1>6, <3>2 DEF LookAgain, Goto, m
  <2>2. "next" \in Fetching /\ PhaseLeft("next") = 7 /\ PhaseLeft("taken") = 1
    BY DEF PhaseLeft, Fetching
  <2>3. StepsLeft(c) = 7 * m + 1
    BY <1>2, <2>1, <2>2
  <2>4. phase'[c] = "next" => StepsLeft(c)' = 7 * (Len(todo'[c]) - 1) + 7
    BY <1>3, <2>2
  <2> QED
    BY <1>2, <1>3, <2>1, <2>3, <2>4
<1>7. ASSUME NEW from \in Fetching, NEW next \in Fetching, Moves(c, from, next),
             PhaseLeft(next) < PhaseLeft(from)
      PROVE  StepsLeft(c)' < StepsLeft(c)
  <2>1. phase[c] = from /\ phase'[c] = next /\ todo'[c] = todo[c]
    BY <1>1, <1>7 DEF Moves, Goto
  <2>2. PhaseLeft(from) \in Nat /\ PhaseLeft(next) \in Nat
    BY DEF PhaseLeft, Fetching, Requesting
  <2> QED
    BY <1>2, <1>3, <1>7, <2>1, <2>2 DEF n
<1>8. CASE PutSymbol(c)
  <2>1. /\ phase[c] = "put" /\ todo'[c] = Tail(todo[c])
        /\ phase'[c] \in {"next", "returned"}
    BY <1>1, <1>8 DEF PutSymbol, Goto
  <2>2. Len(todo'[c]) = n - 1
    BY <1>1, <1>2, <2>1, EmptySeq, HeadTailProperties DEF Fetching, n
  <2>3. /\ "next" \in Fetching /\ PhaseLeft("next") = 7
        /\ "put" \in Fetching /\ PhaseLeft("put") = 1
    BY DEF PhaseLeft, Fetching
  <2>4. n > 0 /\ StepsLeft(c) = 7 * (n - 1) + 1
    BY <1>2, <2>1, <2>3
  <2>5. phase'[c] = "next" => StepsLeft(c)' = 7 * (n - 1 - 1) + 7
    BY <1>3, <2>2, <2>3
  <2> QED
    BY <1>2, <1>3, <2>1, <2>4, <2>5
<1>9. CASE Raises(c)
  BY <1>1, <1>2, <1>3, <1>9 DEF Raises, Goto, PhaseLeft, Fetching
<1>10. {"next", "resolve", "registry", "funding", "funded", "interest", "put"} \subseteq Fetching
  BY DEF Fetching, Requesting
<1>11. CASE GetRegistry(c)
  BY <1>7, <1>10, <1>11 DEF GetRegistry, PhaseLeft
<1>12. ASSUME NEW ok \in BOOLEAN, RegistryReply(c, ok) \/ Resolve(c, ok)
       PROVE  StepsLeft(c)' < StepsLeft(c)
  BY <1>7, <1>10, <1>12 DEF RegistryReply, Resolve, PhaseLeft
<1>13. CASE FundingReply(c) \/ AskInterest(c) \/ InterestReply(c)
  BY <1>7, <1>10, <1>13 DEF FundingReply, AskInterest, InterestReply, PhaseLeft
<1> QED
  BY <1>4, <1>5, <1>6, <1>8, <1>9, <1>11, <1>12, <1>13 DEF CallStep

\* Every other step leaves it where it is.
LEMMA OthersStep ==
    ASSUME CInv, NEW c \in Callers, [Next]_vars, ~CallStep(c)
    PROVE  phase'[c] = phase[c] /\ todo'[c] = todo[c] /\ policy'[c] = policy[c]
<1>1. phase \in [Callers -> Phases] /\ todo \in [Callers -> Seq(Providers)]
  BY DEF CInv, CacheTypeOK
<1>2. CASE \E x \in Callers \ {c} : CallStep(x)
  <2> PICK x \in Callers \ {c} : CallStep(x)
    BY <1>2
  <2> QED
    BY <1>1 DEF CallStep, Look, TakeStripe, LookAgain, GetRegistry, RegistryReply, Resolve,
        FundingReply, AskInterest, InterestReply, PutSymbol, Raises, Moves, Goto
<1>3. CASE Tick \/ UNCHANGED vars
  BY <1>3 DEF Tick, vars, callVars
<1> QED
  BY <1>2, <1>3 DEF Next

\* get_raw_derivatives_bundle is done after finitely many steps of its own, whatever the
\* other calls and the clock do: each of its steps lowers a number that no other raises.
THEOREM CacheStepsRunOut == Spec => [][\A c \in Callers : CountsDown(c)]_vars
<1>1. ASSUME CInv, CInv', [Next]_vars, NEW c \in Callers
      PROVE  CountsDown(c)
  <2>1. StepsLeft(c) \in Nat
    BY <1>1, Lengths, LeftType DEF StepsLeft
  <2>2. ASSUME CallStep(c) PROVE StepsLeft(c)' < StepsLeft(c)
    BY <1>1, <2>2, OwnStep
  <2>3. ASSUME ~CallStep(c) PROVE StepsLeft(c)' = StepsLeft(c)
    <3>1. phase'[c] = phase[c] /\ todo'[c] = todo[c] /\ policy'[c] = policy[c]
      BY <1>1, <2>3, OthersStep
    <3> QED
      BY <3>1 DEF StepsLeft
  <2>4. StepsLeft(c)' \in Nat
    BY <1>1, LengthsNext, LeftType DEF StepsLeft
  <2> QED
    BY <2>1, <2>2, <2>3, <2>4 DEF CountsDown
<1>2. CInv /\ CInv' /\ [Next]_vars => [\A c \in Callers : CountsDown(c)]_vars
  BY <1>1
<1> QED
  BY CacheInvariant, <1>2, PTL DEF Spec
=============================================================================
