------------------------- MODULE LoginTrackerProofs -------------------------
(***************************************************************************)
(* What holds of the tracker of failed logins, for any number of logins in *)
(* flight, any store size, threshold and times.                            *)
(***************************************************************************)
EXTENDS LoginTrackerProperties, SumFacts

-----------------------------------------------------------------------------
(***************************************************************************)
(* The items of a sequence at some of its positions.                       *)
(***************************************************************************)

\* A set of numbers that is not empty has a least one.
LEMMA LeastNumber ==
  ASSUME NEW B, B \subseteq Nat, B # {}
  PROVE  \E n \in B : \A k \in Nat : k < n => k \notin B
  <1> PICK N \in B : TRUE
    OBVIOUS
  <1> DEFINE S == 1 .. N
             Upto(k) == 1 .. k
             Low == {k \in B : k <= N}
             Bad == {Upto(k) : k \in Low}
  <1>1. IsFiniteSet(S)
    BY FS_Interval
  <1>2. Bad \subseteq SUBSET S /\ Bad # {}
    <2>1. N \in Low
      OBVIOUS
    <2>2. \A k \in Low : Upto(k) \subseteq S
      OBVIOUS
    <2> HIDE DEF Upto, S, Low
    <2>. QED
      BY <2>1, <2>2
  <1>3. PICK T \in Bad : \A U \in SUBSET T : U # T => U \notin Bad
    <2> HIDE DEF Bad, S
    <2>. QED
      BY <1>1, <1>2, LeastSubset
  <1>4. PICK n \in Low : T = Upto(n)
    OBVIOUS
  <1>5. ASSUME NEW k \in Nat, k < n, k \in B PROVE FALSE
    <2>1. k \in Low
      BY <1>5
    <2>2. Upto(k) \in Bad
      BY <2>1
    <2>3. Upto(k) \in SUBSET T /\ Upto(k) # T
      <3>1. n \in Upto(n) /\ n \notin Upto(k) /\ Upto(k) \subseteq Upto(n)
        BY <1>5
      <3>. QED
        BY <1>4, <3>1
    <2>. QED
      BY <1>3, <2>2, <2>3
  <1>. QED
    BY <1>5

\* g collects, position by position, the items of s that are in I.
Collects(g, s, I, n) ==
  \A k \in 0 .. n :
    g[k] = IF k = 0 THEN <<>> ELSE IF k \in I THEN Append(g[k - 1], s[k]) ELSE g[k - 1]

\* There is such a g for every sequence.
LEMMA CollectionExists ==
  ASSUME NEW s, Len(s) \in Nat, NEW I
  PROVE  \E g : Collects(g, s, I, Len(s))
  <1> DEFINE B == {n \in 0 .. Len(s) : ~ \E g : Collects(g, s, I, n)}
  <1> SUFFICES ASSUME B # {} PROVE FALSE
    OBVIOUS
  <1>1. PICK n \in B : \A k \in Nat : k < n => k \notin B
    <2>1. B \subseteq Nat
      OBVIOUS
    <2> HIDE DEF B
    <2>. QED
      BY <2>1, LeastNumber
  <1>2. n \in 0 .. Len(s) /\ ~ \E g : Collects(g, s, I, n)
    OBVIOUS
  <1>3. CASE n = 0
    <2> DEFINE g == [k \in {0} |-> <<>>]
    <2>1. \A k \in 0 .. 0 : k = 0 /\ g[k] = <<>>
      OBVIOUS
    <2> HIDE DEF g
    <2>. QED
      BY <1>2, <1>3, <2>1 DEF Collects
  <1>4. CASE n # 0
    <2>1. n - 1 \in 0 .. Len(s) /\ n - 1 \in Nat /\ n - 1 < n
      BY <1>2, <1>4
    <2>2. PICK g : Collects(g, s, I, n - 1)
      BY <1>1, <2>1
    <2> DEFINE last == IF n \in I THEN Append(g[n - 1], s[n]) ELSE g[n - 1]
               h == [k \in 0 .. n |-> IF k = n THEN last ELSE g[k]]
    <2>3. h[n] = last /\ \A k \in 0 .. (n - 1) : h[k] = g[k]
      BY <1>2
    <2> HIDE DEF h
    <2>4. ASSUME NEW k \in 0 .. n
          PROVE  h[k] = IF k = 0 THEN <<>>
                        ELSE IF k \in I THEN Append(h[k - 1], s[k]) ELSE h[k - 1]
      <3>1. CASE k = n
        BY <1>2, <1>4, <2>3, <3>1
      <3>2. CASE k # n
        <4>1. k \in 0 .. (n - 1) /\ (k # 0 => k - 1 \in 0 .. (n - 1))
          BY <1>2, <3>2
        <4>. QED
          BY <2>2, <2>3, <4>1 DEF Collects
      <3>. QED
        BY <3>1, <3>2
    <2>5. Collects(h, s, I, n)
      BY <2>4 DEF Collects
    <2>. QED
      BY <1>2, <2>5
  <1>. QED
    BY <1>3, <1>4

\* And ItemsAt is its last value.
LEMMA ItemsAreCollected ==
  ASSUME NEW s, Len(s) \in Nat, NEW I
  PROVE  \E g : Collects(g, s, I, Len(s)) /\ ItemsAt(s, I) = g[Len(s)]
  <1> DEFINE upto == CHOOSE u : u = [n \in 0 .. Len(s) |->
                       IF n = 0 THEN <<>>
                       ELSE IF n \in I THEN Append(u[n - 1], s[n]) ELSE u[n - 1]]
  <1>1. ItemsAt(s, I) = upto[Len(s)]
    BY DEF ItemsAt
  <1>2. PICK g : Collects(g, s, I, Len(s))
    BY CollectionExists
  <1> DEFINE h == [n \in 0 .. Len(s) |-> g[n]]
  <1>3. h = [n \in 0 .. Len(s) |->
               IF n = 0 THEN <<>>
               ELSE IF n \in I THEN Append(h[n - 1], s[n]) ELSE h[n - 1]]
    <2>1. ASSUME NEW n \in 0 .. Len(s)
          PROVE  h[n] = IF n = 0 THEN <<>>
                        ELSE IF n \in I THEN Append(h[n - 1], s[n]) ELSE h[n - 1]
      <3>1. n # 0 => n - 1 \in 0 .. Len(s)
        OBVIOUS
      <3>2. h[n] = g[n] /\ (n # 0 => h[n - 1] = g[n - 1])
        BY <3>1
      <3> HIDE DEF h
      <3>. QED
        BY <1>2, <3>2 DEF Collects
    <2>. QED
      BY <2>1
  <1>4. upto = [n \in 0 .. Len(s) |->
                  IF n = 0 THEN <<>>
                  ELSE IF n \in I THEN Append(upto[n - 1], s[n]) ELSE upto[n - 1]]
    <2> HIDE DEF h
    <2>. QED
      BY <1>3
  <1>5. Collects(upto, s, I, Len(s))
    <2> HIDE DEF upto
    <2>. QED
      BY <1>4 DEF Collects
  <1>. QED
    BY <1>1, <1>5

\* t is made of the items of s at the positions in I up to n, in order.
Selects(t, s, I, n) ==
  /\ Len(t) <= n
  /\ \A a \in 1 .. Len(t) : \E i \in 1 .. n : i \in I /\ t[a] = s[i]
  /\ \A a, b \in 1 .. Len(t) : a < b =>
       \E i, j \in 1 .. n : i < j /\ i \in I /\ j \in I /\ t[a] = s[i] /\ t[b] = s[j]
  /\ \A i \in 1 .. n : i \in I => \E a \in 1 .. Len(t) : t[a] = s[i]
  /\ (\E i \in 1 .. n : i \notin I) => Len(t) < n
  /\ (\A i \in 1 .. n : i \in I) => Len(t) = n /\ \A i \in 1 .. n : t[i] = s[i]

\* One position more.
LEMMA SelectsNext ==
  ASSUME NEW S, NEW s \in Seq(S), NEW I, NEW n \in 1 .. Len(s),
         NEW t \in Seq(S), Selects(t, s, I, n - 1)
  PROVE  /\ n \in I => Append(t, s[n]) \in Seq(S) /\ Selects(Append(t, s[n]), s, I, n)
         /\ n \notin I => Selects(t, s, I, n)
  <1>1. ASSUME n \in I
        PROVE  Append(t, s[n]) \in Seq(S) /\ Selects(Append(t, s[n]), s, I, n)
    <2> DEFINE u == Append(t, s[n])
    <2>1. /\ u \in Seq(S) /\ Len(u) = Len(t) + 1 /\ u[Len(t) + 1] = s[n]
          /\ \A a \in 1 .. Len(t) : u[a] = t[a]
      OBVIOUS
    <2> HIDE DEF u
    <2>2. Len(t) \in Nat /\ Len(t) <= n - 1 /\ n \in Nat
      BY DEF Selects
    <2>3. Len(u) <= n
      BY <2>1, <2>2
    <2>4. \A a \in 1 .. Len(u) : a \in 1 .. Len(t) \/ a = Len(t) + 1
      BY <2>1, <2>2
    <2>5. ASSUME NEW a \in 1 .. Len(u)
          PROVE  \E i \in 1 .. n : i \in I /\ u[a] = s[i]
      <3>1. CASE a \in 1 .. Len(t)
        <4>1. PICK i \in 1 .. (n - 1) : i \in I /\ t[a] = s[i]
          BY <3>1 DEF Selects
        <4>. QED
          BY <2>1, <2>2, <3>1, <4>1
      <3>2. CASE a = Len(t) + 1
        BY <1>1, <2>1, <2>2, <3>2
      <3>. QED
        BY <2>4, <3>1, <3>2
    <2>6. ASSUME NEW a \in 1 .. Len(u), NEW b \in 1 .. Len(u), a < b
          PROVE  \E i, j \in 1 .. n :
                   i < j /\ i \in I /\ j \in I /\ u[a] = s[i] /\ u[b] = s[j]
      <3>1. a \in 1 .. Len(t)
        BY <2>1, <2>2, <2>6
      <3>2. CASE b \in 1 .. Len(t)
        <4>1. PICK i \in 1 .. (n - 1), j \in 1 .. (n - 1) :
                i < j /\ i \in I /\ j \in I /\ t[a] = s[i] /\ t[b] = s[j]
          BY <2>6, <3>1, <3>2 DEF Selects
        <4>. QED
          BY <2>1, <2>2, <3>1, <3>2, <4>1
      <3>3. CASE b = Len(t) + 1
        <4>1. PICK i \in 1 .. (n - 1) : i \in I /\ t[a] = s[i]
          BY <3>1 DEF Selects
        <4>2. i \in 1 .. n /\ n \in 1 .. n /\ i < n
          BY <2>2
        <4>. QED
          BY <1>1, <2>1, <3>1, <3>3, <4>1, <4>2
      <3>. QED
        BY <2>4, <3>2, <3>3
    <2>7. ASSUME NEW i \in 1 .. n, i \in I PROVE \E a \in 1 .. Len(u) : u[a] = s[i]
      <3>1. CASE i = n
        BY <2>1, <2>2, <3>1
      <3>2. CASE i # n
        <4>1. i \in 1 .. (n - 1)
          BY <2>2, <3>2
        <4>2. PICK a \in 1 .. Len(t) : t[a] = s[i]
          BY <2>7, <4>1 DEF Selects
        <4>. QED
          BY <2>1, <2>2, <4>2
      <3>. QED
        BY <3>1, <3>2
    <2>8. (\E i \in 1 .. n : i \notin I) => Len(u) < n
      <3>1. ASSUME NEW i \in 1 .. n, i \notin I PROVE Len(u) < n
        <4>1. i \in 1 .. (n - 1)
          BY <1>1, <2>2, <3>1
        <4>2. Len(t) < n - 1
          BY <3>1, <4>1 DEF Selects
        <4>. QED
          BY <2>1, <2>2, <4>2
      <3>. QED
        BY <3>1
    <2>9. ASSUME \A i \in 1 .. n : i \in I
          PROVE  Len(u) = n /\ \A i \in 1 .. n : u[i] = s[i]
      <3>1. \A i \in 1 .. (n - 1) : i \in I
        BY <2>2, <2>9
      <3>2. Len(t) = n - 1 /\ \A i \in 1 .. (n - 1) : t[i] = s[i]
        BY <3>1 DEF Selects
      <3>. QED
        BY <2>1, <2>2, <3>2
    <2>. QED
      BY <2>1, <2>3, <2>5, <2>6, <2>7, <2>8, <2>9 DEF Selects, u
  <1>2. ASSUME n \notin I
        PROVE  Selects(t, s, I, n)
    <2>1. Len(t) \in Nat /\ Len(t) <= n - 1 /\ n \in Nat
      BY DEF Selects
    <2>2. \A i \in 1 .. n : i \in I => i \in 1 .. (n - 1)
      BY <1>2, <2>1
    <2>3. 1 .. (n - 1) \subseteq 1 .. n
      BY <2>1
    <2>4. Len(t) <= n /\ Len(t) < n
      BY <2>1
    <2>5. ~ \A i \in 1 .. n : i \in I
      BY <1>2, <2>1
    <2>. QED
      BY <2>2, <2>3, <2>4, <2>5 DEF Selects
  <1>. QED
    BY <1>1, <1>2

\* ItemsAt selects: at the least position where it did not, the step above fails.
LEMMA ItemsAtSelects ==
  ASSUME NEW S, NEW s \in Seq(S), NEW I
  PROVE  ItemsAt(s, I) \in Seq(S) /\ Selects(ItemsAt(s, I), s, I, Len(s))
  <1>1. Len(s) \in Nat
    OBVIOUS
  <1>2. PICK g : Collects(g, s, I, Len(s)) /\ ItemsAt(s, I) = g[Len(s)]
    BY <1>1, ItemsAreCollected
  <1> DEFINE B == {n \in 0 .. Len(s) : ~ (g[n] \in Seq(S) /\ Selects(g[n], s, I, n))}
  <1> SUFFICES ASSUME B # {} PROVE FALSE
    BY <1>1, <1>2
  <1>3. PICK n \in B : \A k \in Nat : k < n => k \notin B
    <2>1. B \subseteq Nat
      OBVIOUS
    <2> HIDE DEF B
    <2>. QED
      BY <2>1, LeastNumber
  <1>4. n \in 0 .. Len(s) /\ ~ (g[n] \in Seq(S) /\ Selects(g[n], s, I, n))
    OBVIOUS
  <1>5. CASE n = 0
    <2>1. g[0] = <<>>
      BY <1>1, <1>2 DEF Collects
    <2>2. <<>> \in Seq(S) /\ Len(<<>>) = 0 /\ 1 .. 0 = {}
      OBVIOUS
    <2>3. Selects(<<>>, s, I, 0)
      BY <2>2 DEF Selects
    <2>. QED
      BY <1>4, <1>5, <2>1, <2>2, <2>3
  <1>6. CASE n # 0
    <2>1. n \in 1 .. Len(s) /\ n - 1 \in 0 .. Len(s) /\ n - 1 \in Nat /\ n - 1 < n
      BY <1>1, <1>4, <1>6
    <2>2. g[n - 1] \in Seq(S) /\ Selects(g[n - 1], s, I, n - 1)
      BY <1>3, <2>1
    <2>3. g[n] = IF n \in I THEN Append(g[n - 1], s[n]) ELSE g[n - 1]
      BY <1>2, <1>4, <1>6 DEF Collects
    <2>. QED
      BY <1>4, <2>1, <2>2, <2>3, SelectsNext
  <1>. QED
    BY <1>5, <1>6

-----------------------------------------------------------------------------
(***************************************************************************)
(* The invariant.  Guesses at an address go on after its lock only from    *)
(* logins that were in flight when it fell, and each of these guesses once.*)
(***************************************************************************)

GuessesLeft ==
  \A i \in DOMAIN entries :
    entries[i].count >= threshold =>
      /\ entries[i].left # NoLock
      /\ entries[i].count + Cardinality(InFlight(entries[i].email))
           < threshold + Cardinality(Session)

\* No lock without the threshold's failures.
LocksEarned ==
  \A i \in DOMAIN entries : entries[i].left # NoLock => entries[i].count >= threshold

TrackerInv == TypeOK /\ OldestFirst /\ GuessesLeft /\ LocksEarned

\* What the constants are.
LEMMA Constants ==
  /\ threshold \in Nat /\ threshold >= 1 /\ ttl_seconds \in Nat
  /\ max_accounts \in Nat /\ max_accounts >= 1
  /\ IsFiniteSet(Session) /\ Cardinality(Session) \in Nat
  <1>1. IsFiniteSet(Session) /\ Cardinality(Session) \in Nat
    BY TrackerAssumption, FS_CardinalityType
  <1>. QED
    BY <1>1, TrackerAssumption

\* The logins in flight at an address are some of the sessions.
LEMMA Flights ==
  ASSUME NEW email
  PROVE  /\ IsFiniteSet(InFlight(email)) /\ Cardinality(InFlight(email)) \in Nat
         /\ Cardinality(InFlight(email)) <= Cardinality(Session)
  <1>1. InFlight(email) \in SUBSET Session
    BY DEF InFlight
  <1> DEFINE F == InFlight(email)
  <1> HIDE DEF F
  <1>2. IsFiniteSet(F) /\ Cardinality(F) <= Cardinality(Session)
    BY <1>1, Constants, FS_Subset DEF F
  <1>3. Cardinality(F) \in Nat
    BY <1>2, FS_CardinalityType
  <1>. QED
    BY <1>2, <1>3 DEF F

\* What is said of a store, for the stores on the way to the next one.
Typed(s) ==
  /\ s \in Seq(Entry)
  /\ \A i, j \in DOMAIN s : s[i].email = s[j].email => i = j

Sorted(s) == \A i, j \in DOMAIN s : i < j => s[i].touched >= s[j].touched

\* What the fields of an entry are.
LEMMA EntryFields ==
  ASSUME lock_seconds \in LockTimes, NEW e \in Entry
  PROVE  /\ e.email \in Address /\ e.count \in Nat /\ e.count >= 1
         /\ e.touched \in Int /\ e.touched >= 0 /\ e.touched <= ttl_seconds
         /\ e.left \in Int /\ (e.left = NoLock \/ e.left \in 0 .. lock_seconds)
         /\ lock_seconds \in Int /\ lock_seconds >= 1
  <1>1. lock_seconds \in Nat /\ lock_seconds >= 1
    BY TrackerAssumption
  <1>2. /\ e.email \in Address /\ e.count \in Nat \ {0} /\ e.touched \in 0 .. ttl_seconds
        /\ e.left \in {NoLock} \cup (0 .. lock_seconds)
    BY DEF Entry
  <1>. QED
    BY <1>1, <1>2, Constants DEF NoLock

\* A selection of a store is a store, and each of its entries is one of it.
LEMMA SelectionTyped ==
  ASSUME NEW s, Typed(s), NEW I
  PROVE  /\ Typed(ItemsAt(s, I)) /\ Len(ItemsAt(s, I)) <= Len(s)
         /\ Selects(ItemsAt(s, I), s, I, Len(s))
         /\ Sorted(s) => Sorted(ItemsAt(s, I))
  <1> DEFINE t == ItemsAt(s, I)
  <1>1. s \in Seq(Entry) /\ DOMAIN s = 1 .. Len(s) /\ Len(s) \in Nat
    BY DEF Typed
  <1>2. t \in Seq(Entry) /\ Selects(t, s, I, Len(s))
    BY <1>1, ItemsAtSelects
  <1> HIDE DEF t
  <1>3. DOMAIN t = 1 .. Len(t) /\ Len(t) \in Nat
    BY <1>2
  <1>4. ASSUME NEW a \in DOMAIN t, NEW b \in DOMAIN t, a < b
        PROVE  t[a].email # t[b].email /\ (Sorted(s) => t[a].touched >= t[b].touched)
    <2>1. \A x, y \in 1 .. Len(t) : x < y =>
            \E i, j \in 1 .. Len(s) :
              i < j /\ i \in I /\ j \in I /\ t[x] = s[i] /\ t[y] = s[j]
      BY <1>2, Zenon DEF Selects
    <2>2. PICK i \in 1 .. Len(s), j \in 1 .. Len(s) : i < j /\ t[a] = s[i] /\ t[b] = s[j]
      BY <1>3, <1>4, <2>1
    <2>. QED
      BY <1>1, <2>2 DEF Typed, Sorted
  <1>5. \A a, b \in DOMAIN t : t[a].email = t[b].email => a = b
    BY <1>3, <1>4
  <1>6. Len(t) <= Len(s)
    BY <1>2 DEF Selects
  <1>7. Sorted(s) => Sorted(t)
    BY <1>4 DEF Sorted
  <1>. QED
    BY <1>2, <1>5, <1>6, <1>7 DEF Typed, t

\* Without an address: nobody else goes, and the address does.
LEMMA WithoutTyped ==
  ASSUME NEW s, Typed(s), NEW email
  PROVE  /\ Typed(Without(s, email)) /\ Len(Without(s, email)) <= Len(s)
         /\ Sorted(s) => Sorted(Without(s, email))
         /\ \A a \in DOMAIN Without(s, email) :
              \E i \in DOMAIN s : Without(s, email)[a] = s[i] /\ s[i].email # email
         /\ \A i \in DOMAIN s : s[i].email # email =>
              \E a \in DOMAIN Without(s, email) : Without(s, email)[a] = s[i]
         /\ (\E i \in DOMAIN s : s[i].email = email) => Len(Without(s, email)) < Len(s)
  <1> DEFINE I == {i \in DOMAIN s : s[i].email # email}
             t == ItemsAt(s, I)
  <1>1. Without(s, email) = t
    BY DEF Without
  <1>2. /\ Typed(t) /\ Len(t) <= Len(s) /\ Selects(t, s, I, Len(s))
        /\ Sorted(s) => Sorted(t)
    BY SelectionTyped
  <1>3. DOMAIN s = 1 .. Len(s) /\ DOMAIN t = 1 .. Len(t)
    <2> HIDE DEF t
    <2>. QED
      BY <1>2 DEF Typed
  <1> HIDE DEF t
  <1>4. \A a \in DOMAIN t : \E i \in DOMAIN s : t[a] = s[i] /\ s[i].email # email
    BY <1>2, <1>3 DEF Selects
  <1>5. \A i \in DOMAIN s : s[i].email # email => \E a \in DOMAIN t : t[a] = s[i]
    BY <1>2, <1>3 DEF Selects
  <1>6. (\E i \in DOMAIN s : s[i].email = email) => Len(t) < Len(s)
    BY <1>2, <1>3 DEF Selects
  <1>. QED
    BY <1>1, <1>2, <1>4, <1>5, <1>6

\* An entry put at the end.
LEMMA PutTyped ==
  ASSUME NEW s, Typed(s), NEW e \in Entry, lock_seconds \in LockTimes
  PROVE  /\ Typed(Put(s, e)) /\ Len(Put(s, e)) = Len(Without(s, e.email)) + 1
         /\ Sorted(s) /\ e.touched = 0 => Sorted(Put(s, e))
         /\ \A a \in DOMAIN Put(s, e) :
              \/ Put(s, e)[a] = e
              \/ \E i \in DOMAIN s : Put(s, e)[a] = s[i] /\ s[i].email # e.email
         /\ \A i \in DOMAIN s : s[i].email # e.email =>
              \E a \in DOMAIN Put(s, e) : Put(s, e)[a] = s[i]
  <1> DEFINE w == Without(s, e.email)
             t == Append(w, e)
  <1>1. Put(s, e) = t
    BY DEF Put
  <1>2. /\ Typed(w) /\ (Sorted(s) => Sorted(w))
        /\ \A a \in DOMAIN w : \E i \in DOMAIN s : w[a] = s[i] /\ s[i].email # e.email
        /\ \A i \in DOMAIN s : s[i].email # e.email => \E a \in DOMAIN w : w[a] = s[i]
    <2>1. \A email :
            /\ Typed(Without(s, email)) /\ (Sorted(s) => Sorted(Without(s, email)))
            /\ \A a \in DOMAIN Without(s, email) :
                 \E i \in DOMAIN s : Without(s, email)[a] = s[i] /\ s[i].email # email
            /\ \A i \in DOMAIN s : s[i].email # email =>
                 \E a \in DOMAIN Without(s, email) : Without(s, email)[a] = s[i]
      BY WithoutTyped
    <2>. QED
      BY <2>1, Zenon
  <1> HIDE DEF w
  <1>3. /\ t \in Seq(Entry) /\ Len(t) = Len(w) + 1 /\ t[Len(w) + 1] = e
        /\ \A a \in 1 .. Len(w) : t[a] = w[a]
        /\ DOMAIN w = 1 .. Len(w) /\ DOMAIN t = 1 .. (Len(w) + 1) /\ Len(w) \in Nat
    BY <1>2 DEF Typed
  <1> HIDE DEF t
  <1>4. \A a \in DOMAIN t : a = Len(w) + 1 \/ a \in DOMAIN w
    BY <1>3
  <1>5. \A a \in DOMAIN t :
          t[a] = e \/ \E i \in DOMAIN s : t[a] = s[i] /\ s[i].email # e.email
    BY <1>2, <1>3, <1>4
  <1>6. \A i \in DOMAIN s : s[i].email # e.email => \E a \in DOMAIN t : t[a] = s[i]
    BY <1>2, <1>3
  <1>7. \A a \in DOMAIN w : w[a].email # e.email
    BY <1>2
  <1>8. Typed(t)
    <2>1. ASSUME NEW a \in DOMAIN t, NEW b \in DOMAIN t, t[a].email = t[b].email
          PROVE  a = b
      <3>1. CASE a \in DOMAIN w /\ b \in DOMAIN w
        BY <1>2, <1>3, <2>1, <3>1 DEF Typed
      <3>2. CASE a \notin DOMAIN w \/ b \notin DOMAIN w
        BY <1>3, <1>4, <1>7, <2>1, <3>2
      <3>. QED
        BY <3>1, <3>2
    <2>. QED
      BY <1>3, <2>1 DEF Typed
  <1>9. ASSUME Sorted(s), e.touched = 0 PROVE Sorted(t)
    <2> SUFFICES ASSUME NEW a \in DOMAIN t, NEW b \in DOMAIN t, a < b
                 PROVE  t[a].touched >= t[b].touched
      BY DEF Sorted
    <2>1. a \in DOMAIN w
      BY <1>3
    <2>2. CASE b \in DOMAIN w
      BY <1>2, <1>3, <1>9, <2>1, <2>2 DEF Sorted
    <2>3. CASE b = Len(w) + 1
      <3>1. w[a] \in Entry
        BY <1>2, <1>3, <2>1 DEF Typed
      <3>2. w[a].touched \in Int /\ w[a].touched >= 0
        BY <3>1, EntryFields
      <3>. QED
        BY <1>3, <1>9, <2>1, <2>3, <3>2
    <2>. QED
      BY <1>4, <2>2, <2>3
  <1>. QED
    BY <1>1, <1>3, <1>5, <1>6, <1>8, <1>9 DEF w

\* There is one entry for an address that is tracked, so it is the entry.
LEMMA TheEntry ==
  ASSUME TypeOK, NEW i \in DOMAIN entries
  PROVE  Tracked(entries[i].email) /\ EntryOf(entries[i].email) = entries[i]
  <1> DEFINE email == entries[i].email
  <1>1. i \in Of(email)
    BY DEF Of
  <1>2. \A j \in Of(email) : j = i
    BY DEF Of, TypeOK
  <1> HIDE DEF email
  <1>3. Tracked(email) /\ EntryOf(email) = entries[i]
    BY <1>1, <1>2 DEF Tracked, EntryOf
  <1>. QED
    BY <1>3 DEF email

\* And an address that is tracked has one.
LEMMA TrackedEntry ==
  ASSUME NEW email, Tracked(email)
  PROVE  \E i \in DOMAIN entries : entries[i].email = email /\ EntryOf(email) = entries[i]
  BY DEF Tracked, EntryOf, Of

\* The invariant, as it is said of a store.
LEMMA StoreTyped ==
  ASSUME TrackerInv
  PROVE  /\ Typed(entries) /\ Sorted(entries)
         /\ DOMAIN entries = 1 .. Len(entries) /\ Len(entries) \in Nat
         /\ Len(entries) <= max_accounts
         /\ \A i \in DOMAIN entries : entries[i] \in Entry
  BY DEF TrackerInv, TypeOK, OldestFirst, Typed, Sorted

\* _evict makes room, and an active lock survives it unless it is the oldest
\* of a store full of entries that cannot expire.
LEMMA EvictTyped ==
  ASSUME TrackerInv
  PROVE  /\ Typed(_evict(entries)) /\ Sorted(_evict(entries))
         /\ Len(_evict(entries)) < max_accounts
         /\ \A a \in DOMAIN _evict(entries) :
              \E i \in DOMAIN entries : _evict(entries)[a] = entries[i]
         /\ \A i \in DOMAIN entries : Active(entries[i]) =>
              \/ \E a \in DOMAIN _evict(entries) : _evict(entries)[a] = entries[i]
              \/ /\ Len(entries) = max_accounts /\ i = 1
                 /\ \A j \in DOMAIN entries : ~ _expired(entries[j])
  <1> DEFINE I == {i \in DOMAIN entries : ~ _expired(entries[i])}
             fresh == ItemsAt(entries, I)
             n == Surplus(fresh)
             rest == SubSeq(fresh, n + 1, Len(fresh))
  <1>1. _evict(entries) = IF n <= 0 THEN fresh ELSE rest
    BY DEF _evict
  <1>2. /\ Typed(fresh) /\ Sorted(fresh) /\ Len(fresh) <= Len(entries)
        /\ Selects(fresh, entries, I, Len(entries))
    BY StoreTyped, SelectionTyped
  <1> HIDE DEF fresh
  <1>3. /\ fresh \in Seq(Entry) /\ DOMAIN fresh = 1 .. Len(fresh) /\ Len(fresh) \in Nat
        /\ n = Len(fresh) - max_accounts + 1
    BY <1>2 DEF Typed, Surplus
  <1>4. \A a \in DOMAIN fresh : \E i \in DOMAIN entries : fresh[a] = entries[i]
    BY <1>2, <1>3, StoreTyped DEF Selects
  <1>5. \A i \in DOMAIN entries : Active(entries[i]) => \E a \in DOMAIN fresh : fresh[a] = entries[i]
    BY <1>2, <1>3, StoreTyped DEF Selects, _expired
  <1> HIDE DEF n
  <1>6. CASE n <= 0
    BY <1>1, <1>2, <1>3, <1>4, <1>5, <1>6, Constants
  <1>7. CASE ~ (n <= 0)
    <2>1. n = 1 /\ Len(fresh) = max_accounts /\ Len(entries) = max_accounts
      <3>1. Len(fresh) <= Len(entries) /\ Len(entries) <= max_accounts
        BY <1>2, StoreTyped
      <3>2. Len(entries) \in Nat /\ Len(fresh) \in Nat /\ max_accounts \in Nat
        BY <1>3, StoreTyped, Constants
      <3>3. n = Len(fresh) - max_accounts + 1 /\ ~ (n <= 0)
        BY <1>3, <1>7
      <3>. QED
        BY <3>1, <3>2, <3>3
    <2>2. \A i \in DOMAIN entries : i \in I /\ fresh[i] = entries[i]
      <3>1. \A i \in 1 .. Len(entries) : i \in I
        <4>1. (\E i \in 1 .. Len(entries) : i \notin I) => Len(fresh) < Len(entries)
          BY <1>2, Zenon DEF Selects
        <4>2. ~ (Len(fresh) < Len(entries))
          BY <2>1, Constants
        <4>. QED
          BY <4>1, <4>2
      <3>2. \A i \in 1 .. Len(entries) : fresh[i] = entries[i]
        BY <1>2, <3>1 DEF Selects
      <3>. QED
        BY <3>1, <3>2, StoreTyped
    <2>3. /\ rest \in Seq(Entry) /\ Len(rest) = max_accounts - 1
          /\ DOMAIN rest = 1 .. (max_accounts - 1)
          /\ \A a \in 1 .. (max_accounts - 1) : rest[a] = fresh[a + 1]
      BY <1>3, <2>1, Constants
    <2>4. _evict(entries) = rest
      BY <1>1, <1>7
    <2> HIDE DEF rest
    <2>5. \A a \in DOMAIN rest : a \in Int /\ a + 1 \in DOMAIN fresh
      BY <1>3, <2>1, <2>3, Constants
    <2>6. Typed(rest)
      <3>1. ASSUME NEW a \in DOMAIN rest, NEW b \in DOMAIN rest, rest[a].email = rest[b].email
            PROVE  a = b
        <4>1. a + 1 = b + 1
          BY <1>2, <2>3, <2>5, <3>1 DEF Typed
        <4>. QED
          BY <2>5, <4>1
      <3>. QED
        BY <2>3, <3>1 DEF Typed
    <2>7. Sorted(rest)
      <3>1. ASSUME NEW a \in DOMAIN rest, NEW b \in DOMAIN rest, a < b
            PROVE  rest[a].touched >= rest[b].touched
        <4>1. a + 1 < b + 1
          BY <2>5, <3>1
        <4>. QED
          BY <1>2, <2>3, <2>5, <4>1 DEF Sorted
      <3>. QED
        BY <3>1 DEF Sorted
    <2>8. \A a \in DOMAIN rest : \E i \in DOMAIN entries : rest[a] = entries[i]
      BY <1>4, <2>3, <2>5
    <2>9. ASSUME NEW i \in DOMAIN entries, i # 1
          PROVE  \E a \in DOMAIN rest : rest[a] = entries[i]
      <3>1. i - 1 \in 1 .. (max_accounts - 1) /\ (i - 1) + 1 = i
        BY <2>1, <2>9, Constants, StoreTyped
      <3>. QED
        BY <2>2, <2>3, <3>1
    <2>10. \A j \in DOMAIN entries : ~ _expired(entries[j])
      BY <2>2
    <2>11. Len(rest) < max_accounts
      BY <2>3, Constants
    <2>. QED
      BY <2>1, <2>4, <2>6, <2>7, <2>8, <2>9, <2>10, <2>11
  <1>. QED
    BY <1>6, <1>7

\* What is kept of an old entry is still short of too many guesses.
LEMMA GuessesKept ==
  ASSUME TrackerInv, NEW i \in DOMAIN entries,
         NEW email, email = entries[i].email, InFlight(email)' \subseteq InFlight(email),
         NEW e, e.email = email, e.count = entries[i].count,
         entries[i].left # NoLock => e.left # NoLock, e.count >= threshold
  PROVE  /\ e.left # NoLock
         /\ e.count + Cardinality(InFlight(email)') < threshold + Cardinality(Session)
  <1> DEFINE F == InFlight(email)
             G == InFlight(email)'
  <1>2. IsFiniteSet(F) /\ Cardinality(F) \in Nat
    BY Flights
  <1>3. entries[i].left # NoLock /\ e.count + Cardinality(F) < threshold + Cardinality(Session)
    BY DEF TrackerInv, GuessesLeft
  <1>4. e.count \in Nat
    BY StoreTyped, EntryFields DEF TrackerInv, TypeOK
  <1> HIDE DEF F, G
  <1>5. Cardinality(G) \in Nat /\ Cardinality(G) <= Cardinality(F)
    <2>1. G \in SUBSET F
      BY DEF F, G
    <2>. QED
      BY <1>2, <2>1, FS_Subset, FS_CardinalityType
  <1>6. e.count + Cardinality(G) < threshold + Cardinality(Session)
    BY <1>2, <1>3, <1>4, <1>5, Constants
  <1>. QED
    BY <1>3, <1>6 DEF G


-----------------------------------------------------------------------------
(***************************************************************************)
(* Every step keeps the invariant.                                         *)
(***************************************************************************)

\* A store that is typed, sorted and within the bound is a good next store.
LEMMA NextStore ==
  ASSUME TrackerInv, lock_seconds' = lock_seconds, NEW t, entries' = t,
         Typed(t), Sorted(t), Len(t) <= max_accounts,
         req' \in [Session -> Address \cup {Idle}]
  PROVE  TypeOK' /\ OldestFirst'
  <1>1. Entry' = Entry
    BY DEF Entry
  <1>2. TypeOK'
    BY <1>1 DEF TrackerInv, TypeOK, Typed
  <1>3. OldestFirst'
    BY DEF OldestFirst, Sorted
  <1>. QED
    BY <1>2, <1>3

\* A store of old entries only, with nobody new in flight.
LEMMA OldGuesses ==
  ASSUME TrackerInv, \A email \in Address : InFlight(email)' \subseteq InFlight(email),
         NEW t, entries' = t, \A a \in DOMAIN t : \E i \in DOMAIN entries : t[a] = entries[i]
  PROVE  GuessesLeft'
  <1> SUFFICES ASSUME NEW a \in DOMAIN t, t[a].count >= threshold, NEW email, email = t[a].email
               PROVE  /\ t[a].left # NoLock
                      /\ t[a].count + Cardinality(InFlight(email)')
                           < threshold + Cardinality(Session)
    BY DEF GuessesLeft, InFlight
  <1>1. PICK i \in DOMAIN entries : t[a] = entries[i]
    OBVIOUS
  <1>2. email = entries[i].email /\ email \in Address
    BY <1>1, StoreTyped, EntryFields DEF TrackerInv, TypeOK
  <1>3. InFlight(email)' \subseteq InFlight(email)
    BY <1>2
  <1>. QED
    BY <1>1, <1>2, <1>3, GuessesKept

\* Old entries have earned their locks, and a new one has to.
LEMMA EarnedKept ==
  ASSUME TrackerInv, NEW t, entries' = t,
         \A a \in DOMAIN t : \/ \E i \in DOMAIN entries : t[a] = entries[i]
                             \/ t[a].left # NoLock => t[a].count >= threshold
  PROVE  LocksEarned'
  BY DEF TrackerInv, LocksEarned

\* Time ages every entry alike.
LEMMA TickKeeps ==
  ASSUME TrackerInv, Tick
  PROVE  TrackerInv'
  <1> DEFINE aged(e) == [e EXCEPT !.left    = IF @ \in {NoLock, 0} THEN @ ELSE @ - 1,
                                  !.touched = IF @ < ttl_seconds THEN @ + 1 ELSE @]
             t == [i \in DOMAIN entries |-> aged(entries[i])]
  <1>1. entries' = t /\ lock_seconds' = lock_seconds /\ req' = req
    BY DEF Tick
  <1>2. lock_seconds \in LockTimes
    BY DEF TrackerInv, TypeOK
  <1>3. ASSUME NEW e \in Entry
        PROVE  /\ aged(e) \in Entry /\ aged(e).email = e.email /\ aged(e).count = e.count
               /\ aged(e).touched = IF e.touched < ttl_seconds THEN e.touched + 1 ELSE e.touched
               /\ e.left # NoLock <=> aged(e).left # NoLock
    <2>1. /\ e.touched \in 0 .. ttl_seconds /\ e.left \in {NoLock} \cup (0 .. lock_seconds)
          /\ e = [email |-> e.email, count |-> e.count, left |-> e.left, touched |-> e.touched]
          /\ e.email \in Address /\ e.count \in Nat \ {0}
      BY DEF Entry
    <2>2. lock_seconds \in Int /\ lock_seconds >= 1 /\ ttl_seconds \in Nat
      BY <1>2, EntryFields, Constants
    <2> DEFINE left == IF e.left \in {NoLock, 0} THEN e.left ELSE e.left - 1
               touched == IF e.touched < ttl_seconds THEN e.touched + 1 ELSE e.touched
    <2>3. aged(e) = [email |-> e.email, count |-> e.count, left |-> left, touched |-> touched]
      <3>1. aged(e) = [e EXCEPT !.left = left, !.touched = touched]
        OBVIOUS
      <3> HIDE DEF aged, left, touched
      <3>. QED
        BY <2>1, <3>1
    <2>4. /\ left \in {NoLock} \cup (0 .. lock_seconds) /\ touched \in 0 .. ttl_seconds
          /\ (e.left # NoLock <=> left # NoLock)
      BY <2>1, <2>2 DEF NoLock
    <2> HIDE DEF left
    <2>. QED
      BY <2>1, <2>3, <2>4 DEF Entry
  <1> HIDE DEF aged
  <1>4. /\ DOMAIN t = DOMAIN entries /\ DOMAIN t = 1 .. Len(entries)
        /\ \A i \in DOMAIN t : entries[i] \in Entry /\ t[i] = aged(entries[i])
    BY StoreTyped
  <1>5. t \in Seq(Entry) /\ Len(t) = Len(entries)
    <2>1. \A i \in 1 .. Len(entries) : t[i] \in Entry
      BY <1>3, <1>4
    <2>2. t \in [1 .. Len(entries) -> Entry]
      BY <1>4, <2>1
    <2>3. Len(entries) \in Nat
      BY StoreTyped
    <2> HIDE DEF t
    <2>. QED
      BY <2>2, <2>3
  <1> HIDE DEF t
  <1>6. Typed(t)
    BY <1>3, <1>4, <1>5, StoreTyped DEF Typed
  <1>7. Sorted(t)
    <2> SUFFICES ASSUME NEW i \in DOMAIN t, NEW j \in DOMAIN t, i < j
                 PROVE  t[i].touched >= t[j].touched
      BY DEF Sorted
    <2> DEFINE x == entries[i].touched
               y == entries[j].touched
    <2>1. x >= y
      BY <1>4, StoreTyped DEF Sorted
    <2>2. x \in Int /\ y \in Int /\ x <= ttl_seconds /\ y <= ttl_seconds /\ ttl_seconds \in Int
      BY <1>2, <1>4, EntryFields, Constants
    <2>3. /\ t[i].touched = IF x < ttl_seconds THEN x + 1 ELSE x
          /\ t[j].touched = IF y < ttl_seconds THEN y + 1 ELSE y
      BY <1>3, <1>4
    <2> HIDE DEF x, y
    <2>. QED
      BY <2>1, <2>2, <2>3
  <1>8. req' \in [Session -> Address \cup {Idle}]
    BY <1>1 DEF TrackerInv, TypeOK
  <1>9. Len(t) <= max_accounts
    BY <1>5, StoreTyped
  <1>10. TypeOK' /\ OldestFirst'
    BY <1>1, <1>6, <1>7, <1>8, <1>9, NextStore
  <1>11. GuessesLeft'
    <2> SUFFICES ASSUME NEW i \in DOMAIN t, t[i].count >= threshold, NEW email, email = t[i].email
                 PROVE  /\ t[i].left # NoLock
                        /\ t[i].count + Cardinality(InFlight(email)')
                             < threshold + Cardinality(Session)
      BY <1>1 DEF GuessesLeft, InFlight
    <2>1. /\ i \in DOMAIN entries /\ email = entries[i].email /\ t[i].count = entries[i].count
          /\ entries[i].left # NoLock => t[i].left # NoLock
      BY <1>3, <1>4
    <2>2. InFlight(email)' \subseteq InFlight(email)
      BY <1>1 DEF InFlight
    <2>. QED
      BY <2>1, <2>2, GuessesKept
  <1>12. LocksEarned'
    <2>1. \A i \in DOMAIN t : t[i].left # NoLock => t[i].count >= threshold
      BY <1>3, <1>4 DEF TrackerInv, LocksEarned
    <2>. QED
      BY <1>1, <2>1, EarnedKept
  <1>. QED
    BY <1>10, <1>11, <1>12 DEF TrackerInv

\* The addresses that logins are verifying.
LEMMA SessionReads ==
  ASSUME TypeOK
  PROVE  /\ \A s \in Session : req[s] \in Address \cup {Idle}
         /\ \A s \in Session, v \in Address \cup {Idle} :
              /\ [req EXCEPT ![s] = v] \in [Session -> Address \cup {Idle}]
              /\ [req EXCEPT ![s] = v][s] = v
              /\ \A u \in Session : u # s => [req EXCEPT ![s] = v][u] = req[u]
  BY DEF TypeOK

\* A login that passes the check has no lock on its address, or one that has
\* run out: the guess it holds is the first after the lock, or before it.
LEMMA AttemptKeeps ==
  ASSUME TrackerInv, NEW s \in Session, Attempt(s)
  PROVE  TrackerInv'
  <1>1. TypeOK /\ OldestFirst /\ GuessesLeft
    BY DEF TrackerInv
  <1>2. PICK email \in Address :
          \/ entries' = entries /\ req' = req
          \/ /\ ~ Locked(email)
             /\ entries' = IF RanOut(email) THEN Forgotten(email) ELSE entries
             /\ req' = [req EXCEPT ![s] = email]
    BY DEF Attempt, OnRefused
  <1>3. lock_seconds' = lock_seconds /\ req[s] = Idle
    BY DEF Attempt
  <1>4. CASE entries' = entries /\ req' = req
    <2>1. TypeOK' /\ OldestFirst' /\ GuessesLeft'
      BY <1>1, <1>3, <1>4 DEF TypeOK, Entry, OldestFirst, GuessesLeft, InFlight
    <2>2. LocksEarned'
      BY <1>4, EarnedKept
    <2>. QED
      BY <2>1, <2>2 DEF TrackerInv
  <1>5. CASE /\ ~ Locked(email)
             /\ entries' = IF RanOut(email) THEN Forgotten(email) ELSE entries
             /\ req' = [req EXCEPT ![s] = email]
    <2> DEFINE t == IF RanOut(email) THEN Forgotten(email) ELSE entries
    <2>1. /\ Typed(t) /\ Sorted(t) /\ Len(t) <= max_accounts
          /\ \A a \in DOMAIN t : \E i \in DOMAIN entries :
               t[a] = entries[i] /\ (RanOut(email) => entries[i].email # email)
      <3>1. CASE RanOut(email)
        <4>1. /\ Typed(Forgotten(email)) /\ Sorted(Forgotten(email))
              /\ Len(Forgotten(email)) <= Len(entries)
              /\ \A a \in DOMAIN Forgotten(email) : \E i \in DOMAIN entries :
                   Forgotten(email)[a] = entries[i] /\ entries[i].email # email
          BY StoreTyped, WithoutTyped DEF Forgotten
        <4> DEFINE w == Forgotten(email)
        <4> HIDE DEF w
        <4>2. Typed(w) /\ Sorted(w) /\ Len(w) <= Len(entries) /\ t = w
          BY <3>1, <4>1 DEF w
        <4>3. Len(w) \in Nat
          BY <4>2 DEF Typed
        <4>4. Len(w) <= max_accounts
          BY <4>2, <4>3, StoreTyped, Constants
        <4>. QED
          BY <4>1, <4>2, <4>4 DEF w
      <3>2. CASE ~ RanOut(email)
        BY <3>2, StoreTyped
      <3>. QED
        BY <3>1, <3>2
    <2>2. entries' = t
      BY <1>5
    <2>3. \/ RanOut(email)
          \/ \A i \in DOMAIN entries : entries[i].email = email => entries[i].left = NoLock
      <3> SUFFICES ASSUME NEW i \in DOMAIN entries, entries[i].email = email, ~ RanOut(email)
                   PROVE  entries[i].left = NoLock
        OBVIOUS
      <3>1. Tracked(email) /\ EntryOf(email) = entries[i]
        BY <1>1, TheEntry
      <3>. QED
        BY <1>5, <3>1 DEF Locked, RanOut, Active
    <2> HIDE DEF t
    <2>4. req' \in [Session -> Address \cup {Idle}]
      BY <1>1, <1>5, SessionReads
    <2>5. TypeOK' /\ OldestFirst'
      BY <1>3, <2>1, <2>2, <2>4, NextStore
    <2>6. GuessesLeft'
      <3> SUFFICES ASSUME NEW a \in DOMAIN t, t[a].count >= threshold,
                          NEW address, address = t[a].email
                   PROVE  /\ t[a].left # NoLock
                          /\ t[a].count + Cardinality(InFlight(address)')
                               < threshold + Cardinality(Session)
        BY <2>2 DEF GuessesLeft, InFlight
      <3>1. PICK i \in DOMAIN entries :
              t[a] = entries[i] /\ (RanOut(email) => entries[i].email # email)
        BY <2>1
      <3>2. entries[i].left # NoLock
        BY <1>1, <3>1 DEF GuessesLeft
      <3>3. address # email
        BY <2>3, <3>1, <3>2
      <3>4. InFlight(address)' \subseteq InFlight(address)
        BY <1>1, <1>5, <3>3, SessionReads DEF InFlight
      <3>. QED
        BY <3>1, <3>4, GuessesKept
    <2>7. LocksEarned'
      BY <2>1, <2>2, EarnedKept
    <2>. QED
      BY <2>5, <2>6, <2>7 DEF TrackerInv
  <1>. QED
    BY <1>2, <1>4, <1>5


\* A login that ends leaves the flight, and nobody joins it.
LEMMA OneLands ==
  ASSUME TypeOK, NEW s \in Session, req[s] # Idle, req' = [req EXCEPT ![s] = Idle]
  PROVE  /\ req[s] \in Address /\ req'[s] = Idle
         /\ req' \in [Session -> Address \cup {Idle}]
         /\ \A email \in Address : InFlight(email)' \subseteq InFlight(email)
         /\ Cardinality(InFlight(req[s])) >= 1
         /\ \A email : email = req[s] =>
              Cardinality(InFlight(email)') = Cardinality(InFlight(email)) - 1
  <1>1. req[s] \in Address /\ req'[s] = Idle /\ req' \in [Session -> Address \cup {Idle}]
    BY SessionReads
  <1>2. \A email \in Address : InFlight(email)' \subseteq InFlight(email)
    BY SessionReads, TrackerAssumption DEF InFlight
  <1>3. ASSUME NEW email, email = req[s]
        PROVE  /\ Cardinality(InFlight(email)') = Cardinality(InFlight(email)) - 1
               /\ Cardinality(InFlight(email)) >= 1
    <2> DEFINE F == InFlight(email)
               G == InFlight(email)'
    <2>1. s \in F /\ G = F \ {s}
      <3>1. \A u \in Session : u # s => req'[u] = req[u]
        BY SessionReads
      <3>2. req'[s] # email /\ email \in Address
        BY <1>1, <1>3
      <3>. QED
        BY <1>3, <3>1, <3>2 DEF InFlight
    <2>2. IsFiniteSet(F) /\ Cardinality(F) \in Nat
      BY Flights
    <2> HIDE DEF F, G
    <2>3. IsFiniteSet(G) /\ Cardinality(G) = Cardinality(F) - 1
      BY <2>1, <2>2, FS_RemoveElement
    <2>4. Cardinality(G) \in Nat
      BY <2>3, FS_CardinalityType
    <2>. QED
      BY <2>2, <2>3, <2>4 DEF F, G
  <1>. QED
    BY <1>1, <1>2, <1>3

\* What record_failure leaves: the address at the end with one guess more, and
\* what it kept of the store before it.
Recorded(email, e, kept) ==
  /\ record_failure(email) = Put(kept, e)
  /\ e \in Entry /\ e.email = email /\ e.touched = 0
  /\ e.left = IF LocksAt(e.count) THEN lock_seconds ELSE NoLock
  /\ e.count = IF Tracked(email) THEN EntryOf(email).count + 1 ELSE 1
  /\ kept = IF Tracked(email) THEN entries ELSE _evict(entries)
  /\ Typed(kept) /\ Sorted(kept) /\ Len(Put(kept, e)) <= max_accounts
  /\ \A a \in DOMAIN kept : \E i \in DOMAIN entries : kept[a] = entries[i]

\* record_failure leaves that.
LEMMA FailureRecorded ==
  ASSUME TrackerInv, NEW email \in Address
  PROVE  \E e, kept : Recorded(email, e, kept)
  <1> DEFINE count == IF Tracked(email) THEN EntryOf(email).count + 1 ELSE 1
             kept == IF Tracked(email) THEN entries ELSE _evict(entries)
             e == [email |-> email, count |-> count, touched |-> 0,
                   left |-> IF LocksAt(count) THEN lock_seconds ELSE NoLock]
  <1>1. record_failure(email) = Put(kept, e)
    BY DEF record_failure
  <1>2. lock_seconds \in LockTimes
    BY DEF TrackerInv, TypeOK
  <1>3. count \in Nat \ {0}
    <2>1. CASE Tracked(email)
      <3>1. PICK i \in DOMAIN entries : EntryOf(email) = entries[i]
        BY <2>1, TrackedEntry
      <3>2. entries[i].count \in Nat
        BY <1>2, StoreTyped, EntryFields
      <3>. QED
        BY <2>1, <3>1, <3>2
    <2>2. CASE ~ Tracked(email)
      BY <2>2
    <2>. QED
      BY <2>1, <2>2
  <1>4. lock_seconds \in Nat /\ ttl_seconds \in Nat
    BY <1>2, TrackerAssumption
  <1> HIDE DEF count
  <1>5. /\ e.email = email /\ e.touched = 0 /\ e.count = count
        /\ e.left = IF LocksAt(count) THEN lock_seconds ELSE NoLock
    OBVIOUS
  <1>6. e \in Entry
    BY <1>3, <1>4 DEF Entry
  <1>7. /\ Typed(kept) /\ Sorted(kept)
        /\ \A a \in DOMAIN kept : \E i \in DOMAIN entries : kept[a] = entries[i]
    <2>1. CASE Tracked(email)
      BY <2>1, StoreTyped
    <2>2. CASE ~ Tracked(email)
      <3>1. kept = _evict(entries)
        BY <2>2
      <3>. QED
        BY <3>1, EvictTyped
    <2>. QED
      BY <2>1, <2>2
  <1>8. Len(Put(kept, e)) <= max_accounts
    <2>1. Len(Without(kept, email)) < max_accounts
      <3>1. CASE Tracked(email)
        <4>1. \E i \in DOMAIN entries : entries[i].email = email
          BY <3>1, TrackedEntry
        <4>2. Len(Without(entries, email)) < Len(entries) /\ Typed(Without(entries, email))
          BY <4>1, StoreTyped, WithoutTyped
        <4>3. Len(Without(entries, email)) \in Nat
          BY <4>2 DEF Typed
        <4>4. kept = entries
          BY <3>1
        <4> HIDE DEF kept
        <4>. QED
          BY <4>2, <4>3, <4>4, StoreTyped, Constants
      <3>2. CASE ~ Tracked(email)
        <4>1. kept = _evict(entries)
          BY <3>2
        <4>2. Len(kept) < max_accounts /\ Typed(kept)
          BY <4>1, EvictTyped
        <4> HIDE DEF kept
        <4>3. Len(Without(kept, email)) <= Len(kept) /\ Typed(Without(kept, email))
          BY <4>2, WithoutTyped
        <4>4. Len(Without(kept, email)) \in Nat /\ Len(kept) \in Nat
          BY <4>2, <4>3 DEF Typed
        <4>. QED
          BY <4>2, <4>3, <4>4, Constants
      <3>. QED
        BY <3>1, <3>2
    <2> HIDE DEF e, kept
    <2>2. Len(Put(kept, e)) = Len(Without(kept, email)) + 1 /\ Typed(Without(kept, email))
      BY <1>2, <1>5, <1>6, <1>7, PutTyped, WithoutTyped
    <2>3. Len(Without(kept, email)) \in Nat
      BY <2>2 DEF Typed
    <2>. QED
      BY <2>1, <2>2, <2>3, Constants
  <1>9. /\ e.count = IF Tracked(email) THEN EntryOf(email).count + 1 ELSE 1
        /\ kept = IF Tracked(email) THEN entries ELSE _evict(entries)
        /\ e.left = IF LocksAt(e.count) THEN lock_seconds ELSE NoLock
    BY <1>5 DEF count
  <1> HIDE DEF e, kept
  <1>10. Recorded(email, e, kept)
    BY <1>1, <1>5, <1>6, <1>7, <1>8, <1>9 DEF Recorded
  <1>. QED
    BY <1>10

\* A wrong password turns a login in flight into one guess more.
LEMMA WrongKeeps ==
  ASSUME TrackerInv, NEW s \in Session, Wrong(s)
  PROVE  TrackerInv'
  <1>1. /\ req[s] # Idle /\ req' = [req EXCEPT ![s] = Idle] /\ lock_seconds' = lock_seconds
        /\ entries' = record_failure(req[s]) /\ TypeOK /\ GuessesLeft
    BY DEF Wrong, Finish, TrackerInv
  <1>2. PICK email \in Address : email = req[s]
    BY <1>1, OneLands
  <1>3. PICK e, kept : Recorded(email, e, kept)
    BY <1>2, FailureRecorded
  <1> DEFINE t == Put(kept, e)
  <1>4. entries' = t /\ Len(t) <= max_accounts
    BY <1>1, <1>2, <1>3 DEF Recorded
  <1>5. /\ Typed(kept) /\ Sorted(kept) /\ e \in Entry /\ e.touched = 0 /\ e.email = email
        /\ lock_seconds \in LockTimes
    BY <1>1, <1>3 DEF Recorded, TypeOK
  <1>6. /\ Typed(t) /\ Sorted(t)
        /\ \A a \in DOMAIN t : t[a] = e \/ \E i \in DOMAIN kept : t[a] = kept[i]
    BY <1>5, PutTyped
  <1> HIDE DEF t
  <1>7. req' \in [Session -> Address \cup {Idle}]
    BY <1>1, OneLands
  <1>8. TypeOK' /\ OldestFirst'
    BY <1>1, <1>4, <1>6, <1>7, NextStore
  <1>9. GuessesLeft'
    <2> SUFFICES ASSUME NEW a \in DOMAIN t, t[a].count >= threshold,
                        NEW address, address = t[a].email
                 PROVE  /\ t[a].left # NoLock
                        /\ t[a].count + Cardinality(InFlight(address)')
                             < threshold + Cardinality(Session)
      BY <1>4 DEF GuessesLeft, InFlight
    <2>1. CASE \E i \in DOMAIN entries : t[a] = entries[i]
      <3>1. PICK i \in DOMAIN entries : t[a] = entries[i]
        BY <2>1
      <3>2. address \in Address /\ address = entries[i].email
        BY <1>5, <3>1, StoreTyped, EntryFields
      <3>3. InFlight(address)' \subseteq InFlight(address)
        BY <1>1, <3>2, OneLands
      <3>. QED
        BY <3>1, <3>2, <3>3, GuessesKept
    <2>2. CASE t[a] = e
      <3> DEFINE F == Cardinality(InFlight(email))
                 G == Cardinality(InFlight(email)')
      <3>1. address = email /\ F \in Nat /\ F >= 1 /\ F <= Cardinality(Session) /\ G = F - 1
        BY <1>1, <1>2, <1>5, <2>2, OneLands, Flights
      <3> HIDE DEF F, G
      <3>2. e.left # NoLock
        <4>1. LocksAt(e.count)
          BY <2>2 DEF LocksAt
        <4>. QED
          BY <1>3, <1>5, <4>1, EntryFields DEF Recorded, NoLock
      <3>3. e.count + G < threshold + Cardinality(Session)
        <4>1. CASE Tracked(email)
          <5>1. PICK i \in DOMAIN entries : entries[i].email = email /\ EntryOf(email) = entries[i]
            BY <4>1, TrackedEntry
          <5> DEFINE c == entries[i].count
          <5>2. e.count = c + 1
            BY <1>3, <4>1, <5>1 DEF Recorded
          <5>3. c \in Nat
            BY <1>5, StoreTyped, EntryFields
          <5>4. c >= threshold => c + F < threshold + Cardinality(Session)
            BY <1>1, <5>1 DEF GuessesLeft, F
          <5> HIDE DEF c
          <5>5. CASE c >= threshold
            BY <3>1, <5>2, <5>3, <5>4, <5>5, Constants
          <5>6. CASE ~ (c >= threshold)
            BY <3>1, <5>2, <5>3, <5>6, Constants
          <5>. QED
            BY <5>5, <5>6
        <4>2. CASE ~ Tracked(email)
          <5>1. e.count = 1
            BY <1>3, <4>2 DEF Recorded
          <5>. QED
            BY <3>1, <5>1, Constants
        <4>. QED
          BY <4>1, <4>2
      <3>. QED
        BY <2>2, <3>1, <3>2, <3>3 DEF G
    <2>3. \A i \in DOMAIN kept : \E j \in DOMAIN entries : kept[i] = entries[j]
      BY <1>3 DEF Recorded
    <2>. QED
      BY <1>6, <2>1, <2>2, <2>3
  <1>10. LocksEarned'
    <2>1. e.left # NoLock => e.count >= threshold
      BY <1>3 DEF Recorded, LocksAt
    <2>2. \A i \in DOMAIN kept : \E j \in DOMAIN entries : kept[i] = entries[j]
      BY <1>3 DEF Recorded
    <2>. QED
      BY <1>4, <1>6, <2>1, <2>2, EarnedKept
  <1>. QED
    BY <1>8, <1>9, <1>10 DEF TrackerInv

\* The right password forgets the address.
LEMMA RightKeeps ==
  ASSUME TrackerInv, NEW s \in Session, Right(s)
  PROVE  TrackerInv'
  <1>1. /\ req[s] # Idle /\ req' = [req EXCEPT ![s] = Idle] /\ lock_seconds' = lock_seconds
        /\ entries' = Without(entries, req[s]) /\ TypeOK
    BY DEF Right, Finish, TrackerInv, Forgotten
  <1> DEFINE t == Without(entries, req[s])
  <1>2. /\ Typed(t) /\ Sorted(t) /\ Len(t) <= Len(entries)
        /\ \A a \in DOMAIN t : \E i \in DOMAIN entries : t[a] = entries[i]
    BY StoreTyped, WithoutTyped
  <1>3. entries' = t
    BY <1>1
  <1> HIDE DEF t
  <1>4. Len(t) \in Nat
    BY <1>2 DEF Typed
  <1>5. Len(t) <= max_accounts
    BY <1>2, <1>4, StoreTyped, Constants
  <1>6. /\ req' \in [Session -> Address \cup {Idle}]
        /\ \A email \in Address : InFlight(email)' \subseteq InFlight(email)
    BY <1>1, OneLands
  <1>7. TypeOK' /\ OldestFirst'
    BY <1>1, <1>2, <1>3, <1>5, <1>6, NextStore
  <1>8. GuessesLeft' /\ LocksEarned'
    BY <1>2, <1>3, <1>6, OldGuesses, EarnedKept
  <1>. QED
    BY <1>7, <1>8 DEF TrackerInv

\* A login that ends without an answer of the tracker.
LEMMA DroppedKeeps ==
  ASSUME TrackerInv, NEW s \in Session, Dropped(s)
  PROVE  TrackerInv'
  <1>1. /\ req[s] # Idle /\ req' = [req EXCEPT ![s] = Idle] /\ lock_seconds' = lock_seconds
        /\ entries' = entries /\ TypeOK
    BY DEF Dropped, Finish, TrackerInv
  <1>2. /\ req' \in [Session -> Address \cup {Idle}]
        /\ \A email \in Address : InFlight(email)' \subseteq InFlight(email)
    BY <1>1, OneLands
  <1>3. TypeOK' /\ OldestFirst'
    BY <1>1, <1>2, StoreTyped, NextStore
  <1>4. GuessesLeft' /\ LocksEarned'
    BY <1>1, <1>2, OldGuesses, EarnedKept
  <1>. QED
    BY <1>3, <1>4 DEF TrackerInv

\* The empty store.
LEMMA TrackerStarts ==
  ASSUME Init
  PROVE  TrackerInv
  <1>1. entries = <<>> /\ Len(<<>>) = 0 /\ DOMAIN <<>> = {} /\ <<>> \in Seq(Entry)
    BY DEF Init
  <1>2. req \in [Session -> Address \cup {Idle}] /\ lock_seconds \in LockTimes
    BY DEF Init
  <1>3. Len(entries) <= max_accounts
    BY <1>1, Constants
  <1>. QED
    BY <1>1, <1>2, <1>3 DEF TrackerInv, TypeOK, OldestFirst, GuessesLeft, LocksEarned

\* Every step.
LEMMA TrackerKept ==
  ASSUME TrackerInv, [Next]_vars
  PROVE  TrackerInv'
  <1>1. CASE UNCHANGED vars
    BY <1>1 DEF vars, TrackerInv, TypeOK, OldestFirst, GuessesLeft, LocksEarned, InFlight,
                Entry
  <1>2. CASE Next
    <2>1. Tick \/ \E s \in Session : Attempt(s) \/ Wrong(s) \/ Right(s) \/ Dropped(s)
      BY <1>2 DEF Next
    <2>. QED
      BY <2>1, TickKeeps, AttemptKeeps, WrongKeeps, RightKeeps, DroppedKeeps
  <1>. QED
    BY <1>1, <1>2

-----------------------------------------------------------------------------
\* The store keeps its shape and its bound (FailedLoginTracker, _evict).
THEOREM StoreBounded == Spec => []TypeOK
  <1>1. TrackerInv => TypeOK
    BY DEF TrackerInv
  <1>. QED
    BY <1>1, TrackerStarts, TrackerKept, PTL DEF Spec

\* The store stays in the order of the last touch, so that what _evict takes
\* first is the oldest (record_failure).
THEOREM StoreInOrder == Spec => []OldestFirst
  <1>1. TrackerInv => OldestFirst
    BY DEF TrackerInv
  <1>. QED
    BY <1>1, TrackerStarts, TrackerKept, PTL DEF Spec

\* However logins interleave between is_locked and record_failure, an address
\* the store remembers is locked exactly from the threshold's failure on, and
\* each login that had passed the check by then adds one failure at most.
THEOREM LocksFall == Spec => []LockInTime
  <1>1. TrackerInv => LockInTime
    BY DEF TrackerInv, GuessesLeft, LocksEarned, LockInTime
  <1>. QED
    BY <1>1, TrackerStarts, TrackerKept, PTL DEF Spec

-----------------------------------------------------------------------------
(***************************************************************************)
(* What lifts a lock.                                                      *)
(***************************************************************************)

\* An active entry is a lock.
LEMMA StillLocked ==
  ASSUME TypeOK', NEW email, NEW a \in DOMAIN entries', entries'[a].email = email,
         Active(entries'[a])
  PROVE  Locked(email)'
  <1> DEFINE Same == {i \in DOMAIN entries' : entries'[i].email = email}
  <1>1. Of(email)' = Same
    BY DEF Of
  <1>2. a \in Same /\ \A j \in Same : j = a
    BY DEF TypeOK
  <1> HIDE DEF Same
  <1>3. Tracked(email)' /\ EntryOf(email)' = entries'[a]
    BY <1>1, <1>2 DEF Tracked, EntryOf
  <1>. QED
    BY <1>3 DEF Locked, Active

\* And a lock is an active entry.
LEMMA LockedEntry ==
  ASSUME NEW email, Locked(email)
  PROVE  \E i \in DOMAIN entries : /\ entries[i].email = email /\ EntryOf(email) = entries[i]
                                   /\ Active(entries[i])
  BY TrackedEntry DEF Locked

\* An entry for a locked address that a step copies keeps it locked.
LEMMA CopyLocked ==
  ASSUME TypeOK', NEW email, Locked(email), ~ Locked(email)', NEW t, entries' = t,
         NEW i \in DOMAIN entries, entries[i].email = email, Active(entries[i])
  PROVE  ~ \E a \in DOMAIN t : t[a] = entries[i]
  BY StillLocked

\* Time lifts a lock when it ends.
LEMMA TickLifts ==
  ASSUME TrackerInv, TypeOK', Tick, NEW email, Locked(email), ~ Locked(email)'
  PROVE  TimeIsUp(email)
  <1> USE DEF TimeIsUp
  <1>1. PICK i \in DOMAIN entries :
          entries[i].email = email /\ EntryOf(email) = entries[i] /\ Active(entries[i])
    BY LockedEntry
  <1>2. i \in DOMAIN entries' /\ req' = req
    BY DEF Tick
  <1>3. entries[i].left \in Int /\ entries[i].left >= 1
    BY <1>1, StoreTyped, EntryFields DEF TrackerInv, TypeOK, Active, NoLock
  <1>4. entries[i] \in Entry
    BY StoreTyped
  <1>5. entries'[i].email = email /\ entries'[i].left = entries[i].left - 1
    <2> DEFINE e == entries[i]
               left == IF e.left \in {NoLock, 0} THEN e.left ELSE e.left - 1
               touched == IF e.touched < ttl_seconds THEN e.touched + 1 ELSE e.touched
    <2>1. e = [email |-> e.email, count |-> e.count, left |-> e.left, touched |-> e.touched]
      BY <1>4 DEF Entry
    <2>2. entries'[i] = [e EXCEPT !.left = left, !.touched = touched]
      BY DEF Tick
    <2>3. left = e.left - 1
      BY <1>3 DEF NoLock
    <2> HIDE DEF left, touched, e
    <2>4. entries'[i].email = e.email /\ entries'[i].left = left
      BY <2>1, <2>2
    <2>. QED
      BY <1>1, <2>3, <2>4 DEF e
  <1>6. ~ Active(entries'[i])
    BY <1>2, <1>5, StillLocked
  <1>7. entries[i].left - 1 = 0
    BY <1>3, <1>5, <1>6 DEF Active, NoLock
  <1>. QED
    BY <1>1, <1>2, <1>3, <1>7

\* A submission lifts no lock: the locked address is not looked at, and
\* is_locked forgets no other.
LEMMA AttemptLifts ==
  ASSUME TrackerInv, TypeOK', NEW s \in Session, Attempt(s), NEW email, Locked(email)
  PROVE  Locked(email)'
  <1> SUFFICES ASSUME ~ Locked(email)' PROVE FALSE
    OBVIOUS
  <1>1. PICK i \in DOMAIN entries : entries[i].email = email /\ Active(entries[i])
    BY LockedEntry
  <1>2. PICK other \in Address :
          \/ entries' = entries
          \/ other # email /\ entries' = Without(entries, other)
    BY DEF Attempt, OnRefused, Forgotten
  <1>3. CASE entries' = entries
    BY <1>1, <1>3, CopyLocked
  <1>4. CASE other # email /\ entries' = Without(entries, other)
    <2> DEFINE t == Without(entries, other)
    <2>1. \E a \in DOMAIN t : t[a] = entries[i]
      BY <1>1, <1>4, StoreTyped, WithoutTyped
    <2>2. entries' = t
      BY <1>4
    <2> HIDE DEF t
    <2>. QED
      BY <1>1, <2>1, <2>2, CopyLocked
  <1>. QED
    BY <1>2, <1>3, <1>4

\* A wrong password at a locked address locks it anew.
LEMMA WrongLocks ==
  ASSUME TrackerInv, TypeOK', NEW s \in Session, Wrong(s), NEW email, Locked(email),
         req[s] = email
  PROVE  Locked(email)'
  <1>1. PICK i \in DOMAIN entries :
          entries[i].email = email /\ EntryOf(email) = entries[i] /\ Active(entries[i])
    BY LockedEntry
  <1>2. /\ req[s] # Idle /\ req' = [req EXCEPT ![s] = Idle] /\ TypeOK
        /\ entries' = record_failure(req[s]) /\ lock_seconds \in LockTimes
    BY DEF Wrong, Finish, TrackerInv, TypeOK
  <1>3. email \in Address
    BY <1>2, OneLands
  <1>4. PICK e, kept : Recorded(email, e, kept)
    BY <1>3, FailureRecorded
  <1>5. /\ entries' = Put(kept, e) /\ Typed(kept) /\ e \in Entry /\ e.email = email
        /\ e.count = entries[i].count + 1
    BY <1>1, <1>2, <1>4 DEF Recorded, Locked
  <1>6. entries[i].count \in Nat /\ entries[i].count >= threshold
    BY <1>1, <1>2, StoreTyped, EntryFields DEF TrackerInv, LocksEarned, Active
  <1>7. LocksAt(e.count)
    BY <1>5, <1>6, Constants DEF LocksAt
  <1>8. e.left = lock_seconds /\ lock_seconds \in Int /\ lock_seconds >= 1
    BY <1>2, <1>4, <1>5, <1>7, EntryFields DEF Recorded
  <1>9. Active(e)
    BY <1>8 DEF Active, NoLock
  <1> DEFINE w == Without(kept, email)  t == Append(w, e)
  <1>10. Typed(w)
    BY <1>2, <1>5, WithoutTyped
  <1>11. entries' = t
    BY <1>5 DEF Put
  <1> HIDE DEF w
  <1>12. Len(t) \in DOMAIN t /\ t[Len(t)] = e
    BY <1>5, <1>10 DEF Typed
  <1> HIDE DEF t
  <1>. QED
    BY <1>5, <1>9, <1>11, <1>12, StillLocked

\* A wrong password at another address pushes a lock out of a full store only.
LEMMA WrongLifts ==
  ASSUME TrackerInv, TypeOK', NEW s \in Session, Wrong(s), NEW email, Locked(email),
         ~ Locked(email)', req[s] # email
  PROVE  PushedOut(email)
  <1>1. PICK i \in DOMAIN entries : entries[i].email = email /\ Active(entries[i])
    BY LockedEntry
  <1>2. /\ req[s] # Idle /\ req' = [req EXCEPT ![s] = Idle] /\ TypeOK
        /\ entries' = record_failure(req[s])
    BY DEF Wrong, Finish, TrackerInv
  <1>3. PICK other \in Address : other = req[s]
    BY <1>2, OneLands
  <1>4. PICK e, kept : Recorded(other, e, kept)
    BY <1>3, FailureRecorded
  <1>5. /\ entries' = Put(kept, e) /\ Typed(kept) /\ e \in Entry /\ e.email = other
        /\ kept = IF Tracked(other) THEN entries ELSE _evict(entries)
        /\ lock_seconds \in LockTimes
    BY <1>2, <1>3, <1>4 DEF Recorded, TypeOK
  <1> DEFINE t == Put(kept, e)
  <1>6. \A k \in DOMAIN kept : kept[k].email # other => \E a \in DOMAIN t : t[a] = kept[k]
    BY <1>5, PutTyped
  <1> HIDE DEF t
  <1>7. ~ \E a \in DOMAIN t : t[a] = entries[i]
    BY <1>1, <1>5, CopyLocked DEF t
  <1>8. ~ \E k \in DOMAIN kept : kept[k] = entries[i]
    BY <1>1, <1>3, <1>6, <1>7
  <1>9. kept = _evict(entries)
    BY <1>5, <1>8
  <1>10. /\ Len(entries) = max_accounts /\ i = 1
         /\ \A j \in DOMAIN entries : ~ _expired(entries[j])
    BY <1>1, <1>8, <1>9, EvictTyped
  <1>11. ASSUME NEW j \in DOMAIN entries
         PROVE  Active(entries[j]) \/ entries[j].touched < ttl_seconds
    <2>1. entries[j].touched \in Int /\ ttl_seconds \in Int
      BY <1>5, StoreTyped, EntryFields, Constants
    <2>2. ~ _expired(entries[j])
      BY <1>10
    <2>. QED
      BY <2>1, <2>2 DEF _expired
  <1>12. req[s] \notin {email, Idle} /\ req'[s] = Idle /\ entries' = record_failure(req[s])
    BY <1>2, OneLands
  <1>. QED
    BY <1>1, <1>10, <1>11, <1>12 DEF PushedOut

\* The right password lifts the lock of its own address only.
LEMMA RightLifts ==
  ASSUME TrackerInv, TypeOK', NEW s \in Session, Right(s), NEW email, Locked(email),
         ~ Locked(email)'
  PROVE  RightFor(email)
  <1> SUFFICES ASSUME req[s] # email PROVE FALSE
    <2>1. req[s] # Idle /\ req' = [req EXCEPT ![s] = Idle] /\ entries' = Forgotten(req[s])
      BY DEF Right, Finish
    <2>2. req'[s] = Idle
      BY <2>1, OneLands DEF TrackerInv
    <2>. QED
      BY <2>1, <2>2 DEF RightFor
  <1>1. PICK i \in DOMAIN entries : entries[i].email = email /\ Active(entries[i])
    BY LockedEntry
  <1>0. PICK other : other = req[s] /\ other # email
    OBVIOUS
  <1> DEFINE t == Without(entries, other)
  <1>2. entries' = t
    BY <1>0 DEF Right, Finish, Forgotten
  <1>3. \E a \in DOMAIN t : t[a] = entries[i]
    <2>1. entries[i].email # other
      BY <1>0, <1>1
    <2>2. \A k \in DOMAIN entries : entries[k].email # other => \E a \in DOMAIN t : t[a] = entries[k]
      BY StoreTyped, WithoutTyped
    <2>. QED
      BY <2>1, <2>2
  <1> HIDE DEF t
  <1>. QED
    BY <1>1, <1>2, <1>3, CopyLocked

\* What lifts a lock is its end, a right password that was already past the
\* check, or a failure at another address that finds the store full and nothing
\* to expire; a refused attempt never does, nor a wrong password at the locked
\* address (is_locked, record_failure, _evict, reset).
THEOREM LocksLast == Spec => LockHolds
  <1>1. ASSUME TrackerInv, TrackerInv', [Next]_vars, NEW email \in Address, Released(email)
        PROVE  TimeIsUp(email) \/ RightFor(email) \/ PushedOut(email)
    <2>1. TypeOK /\ TypeOK' /\ Locked(email) /\ ~ Locked(email)'
      BY <1>1 DEF TrackerInv, Released
    <2>2. CASE Tick
      BY <1>1, <2>1, <2>2, TickLifts
    <2>3. CASE \E s \in Session : Attempt(s)
      BY <1>1, <2>1, <2>3, AttemptLifts
    <2>4. CASE \E s \in Session : Wrong(s)
      <3>1. PICK s \in Session : Wrong(s)
        BY <2>4
      <3>2. req[s] # email
        BY <1>1, <2>1, <3>1, WrongLocks
      <3>. QED
        BY <1>1, <2>1, <3>1, <3>2, WrongLifts
    <2>5. CASE \E s \in Session : Right(s)
      BY <1>1, <2>1, <2>5, RightLifts
    <2>6. CASE \E s \in Session : Dropped(s)
      <3>1. entries' = entries
        BY <2>6 DEF Dropped, Finish
      <3>. QED
        BY <1>1, <2>1, <3>1, LockedEntry, CopyLocked
    <2>7. CASE UNCHANGED vars
      <3>1. entries' = entries
        BY <2>7 DEF vars
      <3>. QED
        BY <1>1, <2>1, <3>1, LockedEntry, CopyLocked
    <2>8. \/ Tick \/ UNCHANGED vars
          \/ \E s \in Session : Attempt(s) \/ Wrong(s) \/ Right(s) \/ Dropped(s)
      BY <1>1 DEF Next
    <2>. QED
      BY <2>2, <2>3, <2>4, <2>5, <2>6, <2>7, <2>8
  <1>2. TrackerInv /\ TrackerInv' /\ [Next]_vars =>
          [\A email \in Address :
             Released(email) => TimeIsUp(email) \/ RightFor(email) \/ PushedOut(email)]_vars
    BY <1>1
  <1>. QED
    BY <1>2, TrackerStarts, TrackerKept, PTL DEF Spec, LockHolds

=============================================================================
