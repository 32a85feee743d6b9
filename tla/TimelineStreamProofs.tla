------------------------ MODULE TimelineStreamProofs ------------------------
(***************************************************************************)
(* The event bus under a timeline, for any number of server processes,     *)
(* subscribers and events: types, and that no subscriber misses an event   *)
(* it is owed.                                                             *)
(***************************************************************************)
EXTENDS TriChatTimeline, FiniteSetTheorems, SequenceTheorems, TLAPS

-----------------------------------------------------------------------------
(* Finite sets of numbers in their order *)

\* The number of smaller members numbers a finite set of naturals without gaps.
LEMMA RankIsOnto ==
    ASSUME NEW es \in SUBSET Nat, IsFiniteSet(es)
    PROVE  /\ Cardinality(es) \in Nat
           /\ \A e \in es : Cardinality({f \in es : f < e}) \in Nat
           /\ \A e \in es : Cardinality({f \in es : f < e}) \in 0 .. Cardinality(es) - 1
           /\ \A e, g \in es : e < g => Cardinality({f \in es : f < e}) < Cardinality({f \in es : f < g})
           /\ \A i \in 0 .. Cardinality(es) - 1 : \E e \in es : Cardinality({f \in es : f < e}) = i
<1> DEFINE below(e) == {f \in es : f < e}
           n == Cardinality(es)
           r == [e \in es |-> Cardinality(below(e))]
<1>1. n \in Nat /\ \A e \in es : e \in Nat
  BY FS_CardinalityType
<1>2. \A e \in es : IsFiniteSet(below(e)) /\ Cardinality(below(e)) \in Nat /\ Cardinality(below(e)) < n
  <2> TAKE e \in es
  <2> e \in Nat /\ ~(e < e)
    BY <1>1
  <2>1. below(e) \in SUBSET es /\ e \notin below(e)
    OBVIOUS
  <2> HIDE DEF below
  <2>2. IsFiniteSet(below(e)) /\ Cardinality(below(e)) <= n /\ n # Cardinality(below(e))
    BY <2>1, FS_Subset
  <2>3. QED BY <1>1, <2>2, FS_CardinalityType
<1>3. \A e, g \in es : e < g => Cardinality(below(e)) < Cardinality(below(g))
  <2> SUFFICES ASSUME NEW e \in es, NEW g \in es, e < g
               PROVE  Cardinality(below(e)) < Cardinality(below(g))
    OBVIOUS
  <2> /\ \A f \in es : f < e => f < g
      /\ ~(e < e)
    BY <1>1
  <2>1. below(e) \in SUBSET below(g) /\ e \in below(g) /\ e \notin below(e)
    OBVIOUS
  <2> HIDE DEF below
  <2>2. Cardinality(below(e)) <= Cardinality(below(g)) /\ Cardinality(below(g)) # Cardinality(below(e))
    BY <1>2, <2>1, FS_Subset
  <2>3. QED BY <1>2, <2>2
<1> HIDE DEF below
<1>4. r \in [es -> 0 .. n - 1]
  BY <1>1, <1>2
<1>5. \A e, g \in es : r[e] = r[g] => e = g
  BY <1>2, <1>3
<1>6. r \in Injection(es, 0 .. n - 1)
  BY <1>4, <1>5 DEF Injection, IsInjective
<1>7. IsFiniteSet(0 .. n - 1) /\ Cardinality(0 .. n - 1) = n
  <2>1. 0 \in Int /\ n - 1 \in Int
    BY <1>1
  <2>2. /\ IsFiniteSet(0 .. n - 1)
        /\ Cardinality(0 .. n - 1) = IF 0 > n - 1 THEN 0 ELSE n - 1 - 0 + 1
    BY <2>1, FS_Interval
  <2>3. QED BY <1>1, <2>2
<1>8. r \in Surjection(es, 0 .. n - 1)
  <2> HIDE DEF r
  <2>1. QED BY <1>6, <1>7, FS_Injection
<1>9. \A i \in 0 .. n - 1 : \E e \in es : Cardinality(below(e)) = i
  BY <1>8 DEF Surjection
<1>10. \A e \in es : Cardinality(below(e)) \in 0 .. n - 1
  BY <1>1, <1>2
<1>11. \A e \in es : Cardinality(below(e)) \in Nat
  BY <1>2
<1>12. QED BY <1>1, <1>3, <1>9, <1>10, <1>11 DEF below

\* A finite set of naturals that is not empty has a greatest member.
LEMMA GreatestExists ==
    ASSUME NEW es \in SUBSET Nat, IsFiniteSet(es), es # {}
    PROVE  \E m \in es : \A f \in es : f <= m
<1> DEFINE rank(e) == Cardinality({f \in es : f < e})
           n == Cardinality(es)
<1>1. n \in Nat /\ n # 0
  BY FS_CardinalityType, FS_EmptySet
<1>2. /\ \A e \in es : rank(e) \in 0 .. n - 1 /\ rank(e) \in Nat
      /\ \A e, g \in es : e < g => rank(e) < rank(g)
      /\ \A i \in 0 .. n - 1 : \E e \in es : rank(e) = i
  BY RankIsOnto
<1> HIDE DEF rank, n
<1>3. n - 1 \in 0 .. n - 1
  BY <1>1
<1>4. PICK m \in es : rank(m) = n - 1
  BY <1>2, <1>3
<1>5. \A f \in es : ~(m < f)
  <2> SUFFICES ASSUME NEW f \in es, m < f
               PROVE  FALSE
    OBVIOUS
  <2>1. rank(m) < rank(f) /\ rank(f) \in 0 .. n - 1
    BY <1>2
  <2>2. QED BY <1>1, <1>4, <2>1
<1>6. QED BY <1>5

\* A set of event_seqs is finite.
LEMMA IntervalSubset ==
    ASSUME NEW n \in Nat, NEW es \in SUBSET (1 .. n)
    PROVE  IsFiniteSet(es) /\ es \in SUBSET Nat
<1>1. IsFiniteSet(1 .. n)
  BY FS_Interval
<1>2. IsFiniteSet(es)
  BY <1>1, FS_Subset
<1>3. QED BY <1>2

-----------------------------------------------------------------------------
(* Sequences that rise *)

Rising(s) == \A i, j \in DOMAIN s : i < j => s[i] < s[j]

Holds(s, e) == \E i \in DOMAIN s : s[i] = e

\* A replay comes in the order of event_seq, every event once.
LEMMA InOrderRises ==
    ASSUME NEW n \in Nat, NEW es \in SUBSET (1 .. n)
    PROVE  /\ InOrder(es) \in Seq(es)
           /\ Rising(InOrder(es))
           /\ \A e \in es : Holds(InOrder(es), e)
<1> DEFINE rank(e) == Cardinality({f \in es : f < e})
           s == InOrder(es)
           k == Cardinality(es)
<1>1. IsFiniteSet(es) /\ es \in SUBSET Nat /\ \A e \in es : e \in Nat
  BY IntervalSubset
<1>2. k \in Nat
  BY <1>1, FS_CardinalityType
<1>3. /\ \A i \in 0 .. k - 1 : \E e \in es : rank(e) = i
      /\ \A e \in es : rank(e) \in 0 .. k - 1 /\ rank(e) \in Nat
      /\ \A e, g \in es : e < g => rank(e) < rank(g)
  BY <1>1, RankIsOnto
<1>4. s = [i \in 1 .. k |-> CHOOSE e \in es : rank(e) = i - 1]
  BY DEF InOrder
<1> HIDE DEF rank, s, k
<1>5. \A i \in 1 .. k : s[i] \in es /\ rank(s[i]) = i - 1
  <2> TAKE i \in 1 .. k
  <2>1. \E e \in es : rank(e) = i - 1
    <3>1. i - 1 \in 0 .. k - 1
      BY <1>2
    <3>2. QED BY <1>3, <3>1
  <2>2. s[i] = CHOOSE e \in es : rank(e) = i - 1
    BY <1>4
  <2>3. QED BY <2>1, <2>2
<1>6. s \in [1 .. k -> es]
  BY <1>4, <1>5
<1>7. s \in Seq(es)
  BY <1>2, <1>6, SeqDef
<1>8. \A i, j \in 1 .. k : i < j => s[i] < s[j]
  <2> SUFFICES ASSUME NEW i \in 1 .. k, NEW j \in 1 .. k, i < j
               PROVE  s[i] < s[j]
    OBVIOUS
  <2>1. s[i] \in es /\ s[j] \in es /\ rank(s[i]) = i - 1 /\ rank(s[j]) = j - 1
    BY <1>5
  <2>2. s[i] \in Nat /\ s[j] \in Nat
    BY <1>1, <2>1
  <2>3. s[j] < s[i] => rank(s[j]) < rank(s[i])
    BY <1>3, <2>1
  <2>4. rank(s[i]) < rank(s[j])
    BY <1>2, <2>1
  <2>5. QED BY <2>1, <2>2, <2>3, <2>4
<1>9. \A e \in es : \E i \in 1 .. k : s[i] = e
  <2> TAKE e \in es
  <2>1. rank(e) + 1 \in 1 .. k
    BY <1>2, <1>3
  <2> DEFINE g == s[rank(e) + 1]
  <2>2. g \in es /\ rank(g) = rank(e)
    BY <1>2, <1>3, <1>5, <2>1
  <2>3. g \in Nat /\ e \in Nat /\ rank(e) \in Nat
    BY <1>1, <1>3, <2>2
  <2> HIDE DEF g
  <2>4. (g < e => rank(g) < rank(e)) /\ (e < g => rank(e) < rank(g))
    BY <1>3, <2>2
  <2>5. ~(g < e) /\ ~(e < g)
    <3> ~(rank(e) < rank(e))
      BY <2>3
    <3> QED BY <2>2, <2>4
  <2>6. g = e
    BY <2>3, <2>5
  <2>7. QED BY <2>1, <2>6 DEF g
<1>10. DOMAIN s = 1 .. k
  BY <1>6
<1>11. QED BY <1>7, <1>8, <1>9, <1>10 DEF Rising, Holds, s

\* An event greater than all before it may be appended to what rises.
LEMMA AppendRises ==
    ASSUME NEW s \in Seq(Nat), NEW e \in Nat
    PROVE  /\ Append(s, e) \in Seq(Nat)
           /\ \A f : Holds(Append(s, e), f) <=> Holds(s, f) \/ f = e
           /\ Rising(s) /\ (\A i \in DOMAIN s : s[i] < e) => Rising(Append(s, e))
<1> DEFINE t == Append(s, e)
           n == Len(s)
<1>1. n \in Nat /\ DOMAIN s = 1 .. n /\ \A i \in 1 .. n : s[i] \in Nat
  BY LenProperties, ElementOfSeq
<1>2. /\ t \in Seq(Nat) /\ Len(t) = n + 1 /\ DOMAIN t = 1 .. n + 1
      /\ t[n + 1] = e
      /\ \A i \in 1 .. n : t[i] = s[i]
  OBVIOUS
<1> HIDE DEF t, n
<1>3. n + 1 \in 1 .. n + 1 /\ \A i \in 1 .. n + 1 : i \in 1 .. n \/ i = n + 1
  BY <1>1
<1>4. \A f : (\E i \in 1 .. n + 1 : t[i] = f) <=> (\E i \in 1 .. n : s[i] = f) \/ f = e
  <2>1. \A i \in 1 .. n : i \in 1 .. n + 1
    BY <1>1
  <2>2. QED BY <1>2, <1>3, <2>1
<1>5. ASSUME \A i, j \in 1 .. n : i < j => s[i] < s[j], \A i \in 1 .. n : s[i] < e,
             NEW i \in 1 .. n + 1, NEW j \in 1 .. n + 1, i < j
      PROVE  t[i] < t[j]
  <2>1. i \in 1 .. n
    BY <1>1, <1>5
  <2>2. CASE j \in 1 .. n
    BY <1>2, <1>5, <2>1, <2>2
  <2>3. CASE j = n + 1
    BY <1>2, <1>5, <2>1, <2>3
  <2>4. QED BY <1>3, <2>2, <2>3
<1>6. QED BY <1>1, <1>2, <1>4, <1>5 DEF Rising, Holds, t

\* What of the wire arrives makes what was read longer, in the order of the stream.
LEMMA PrefixOfStream ==
    ASSUME NEW S, NEW r \in Seq(S), NEW w \in Seq(S), NEW n \in 0 .. Len(w)
    PROVE  LET t == r \o SubSeq(w, 1, n)
               s == r \o w
           IN  /\ t \in Seq(S) /\ s \in Seq(S)
               /\ DOMAIN t \subseteq DOMAIN s /\ DOMAIN r \subseteq DOMAIN t
               /\ DOMAIN t = 1 .. Len(t) /\ Len(t) \in Nat
               /\ DOMAIN s = 1 .. Len(s) /\ Len(s) \in Nat
               /\ \A i \in DOMAIN t : t[i] = s[i]
               /\ \A i \in DOMAIN r : t[i] = r[i]
<1> DEFINE u == SubSeq(w, 1, n)
           t == r \o u
           s == r \o w
<1>1. /\ Len(r) \in Nat /\ DOMAIN r = 1 .. Len(r)
      /\ Len(w) \in Nat /\ DOMAIN w = 1 .. Len(w) /\ \A i \in 1 .. Len(w) : w[i] \in S
      /\ n \in Nat /\ n <= Len(w)
  BY LenProperties, ElementOfSeq
<1>2. u \in Seq(S) /\ Len(u) = n /\ \A i \in 1 .. n : u[i] = w[i]
  <2>1. \A i \in 1 .. n : w[i] \in S
    BY <1>1
  <2>2. 1 \in Int /\ n \in Int
    BY <1>1
  <2>3. /\ u \in Seq(S)
        /\ Len(u) = IF 1 <= n THEN n - 1 + 1 ELSE 0
        /\ \A i \in 1 .. n - 1 + 1 : u[i] = w[1 + i - 1]
    BY <2>1, <2>2, SubSeqProperties
  <2> HIDE DEF u
  <2>4. Len(u) = n
    BY <1>1, <2>3
  <2>5. \A i \in 1 .. n : u[i] = w[i]
    <3> TAKE i \in 1 .. n
    <3>1. i \in 1 .. n - 1 + 1 /\ 1 + i - 1 = i
      BY <1>1
    <3>2. QED BY <2>3, <3>1
  <2>6. QED BY <2>3, <2>4, <2>5
<1> HIDE DEF u
<1>3. /\ s \in Seq(S) /\ Len(s) = Len(r) + Len(w)
      /\ \A i \in 1 .. Len(r) + Len(w) : s[i] = IF i <= Len(r) THEN r[i] ELSE w[i - Len(r)]
  BY ConcatProperties
<1>4. /\ t \in Seq(S) /\ Len(t) = Len(r) + n
      /\ \A i \in 1 .. Len(r) + n : t[i] = IF i <= Len(r) THEN r[i] ELSE u[i - Len(r)]
  BY <1>2, ConcatProperties
<1>5. DOMAIN t = 1 .. Len(t) /\ DOMAIN s = 1 .. Len(s)
  BY <1>3, <1>4, LenProperties
<1> HIDE DEF s, t
<1>6. \A i \in 1 .. Len(r) + n : t[i] = s[i]
  <2> TAKE i \in 1 .. Len(r) + n
  <2>1. i \in 1 .. Len(r) + Len(w)
    BY <1>1
  <2>2. CASE i <= Len(r)
    BY <1>3, <1>4, <2>1, <2>2
  <2>3. CASE ~(i <= Len(r))
    <3>1. i - Len(r) \in 1 .. n
      BY <1>1, <2>3
    <3>2. QED BY <1>2, <1>3, <1>4, <2>1, <2>3, <3>1
  <2>4. QED BY <2>2, <2>3
<1>7. \A i \in 1 .. Len(r) : i \in 1 .. Len(r) + n /\ t[i] = r[i]
  BY <1>1, <1>4
<1>8. \A i \in 1 .. Len(r) + n : i \in 1 .. Len(r) + Len(w)
  BY <1>1
<1>9. Len(t) \in Nat /\ Len(s) \in Nat
  BY <1>1, <1>3, <1>4
<1>10. QED BY <1>1, <1>3, <1>4, <1>5, <1>6, <1>7, <1>8, <1>9 DEF s, t, u

\* Reading a frame moves it and leaves the stream what it was.
LEMMA ReadKeepsStream ==
    ASSUME NEW S, NEW r \in Seq(S), NEW w \in Seq(S), w # <<>>
    PROVE  /\ Append(r, Head(w)) \in Seq(S) /\ Tail(w) \in Seq(S)
           /\ Append(r, Head(w)) \o Tail(w) = r \o w
<1> DEFINE h == Append(r, Head(w))
           t == Tail(w)
<1>1. /\ Head(w) \in S /\ Head(w) = w[1] /\ t \in Seq(S) /\ Len(t) = Len(w) - 1
      /\ \A i \in 1 .. Len(t) : t[i] = w[i + 1]
      /\ Len(w) \in Nat /\ Len(w) # 0 /\ Len(r) \in Nat
  BY HeadTailProperties, EmptySeq, LenProperties
<1>2. h \in Seq(S) /\ Len(h) = Len(r) + 1 /\ h[Len(r) + 1] = w[1] /\ \A i \in 1 .. Len(r) : h[i] = r[i]
  BY <1>1
<1> HIDE DEF h, t
<1>3. /\ r \o w \in Seq(S) /\ Len(r \o w) = Len(r) + Len(w)
      /\ \A i \in 1 .. Len(r) + Len(w) : (r \o w)[i] = IF i <= Len(r) THEN r[i] ELSE w[i - Len(r)]
  BY ConcatProperties
<1>4. /\ h \o t \in Seq(S) /\ Len(h \o t) = Len(h) + Len(t)
      /\ \A i \in 1 .. Len(h) + Len(t) : (h \o t)[i] = IF i <= Len(h) THEN h[i] ELSE t[i - Len(h)]
  BY <1>1, <1>2, ConcatProperties
<1>5. Len(h) + Len(t) = Len(r) + Len(w)
  BY <1>1, <1>2
<1>6. \A i \in 1 .. Len(r) + Len(w) : (h \o t)[i] = (r \o w)[i]
  <2> TAKE i \in 1 .. Len(r) + Len(w)
  <2>1. CASE i <= Len(r)
    BY <1>1, <1>2, <1>3, <1>4, <1>5, <2>1
  <2>2. CASE i = Len(r) + 1
    BY <1>1, <1>2, <1>3, <1>4, <1>5, <2>2
  <2>3. CASE i > Len(r) + 1
    <3>1. /\ i - Len(h) \in 1 .. Len(t) /\ i - Len(h) + 1 = i - Len(r)
          /\ ~(i <= Len(h)) /\ ~(i <= Len(r))
      BY <1>1, <1>2, <2>3
    <3>2. (h \o t)[i] = t[i - Len(h)]
      BY <1>4, <1>5, <3>1
    <3>3. t[i - Len(h)] = w[i - Len(r)]
      BY <1>1, <3>1
    <3>4. (r \o w)[i] = w[i - Len(r)]
      BY <1>3, <3>1
    <3>5. QED BY <3>2, <3>3, <3>4
  <2>4. i <= Len(r) \/ i = Len(r) + 1 \/ i > Len(r) + 1
    BY <1>1
  <2>5. QED BY <2>1, <2>2, <2>3, <2>4
<1>7. h \o t = r \o w
  BY <1>3, <1>4, <1>5, <1>6, SeqEqual
<1>8. QED BY <1>1, <1>2, <1>7 DEF h, t

\* What is pushed comes last on the stream.
LEMMA SendExtendsStream ==
    ASSUME NEW S, NEW r \in Seq(S), NEW w \in Seq(S), NEW e \in S
    PROVE  Append(w, e) \in Seq(S) /\ r \o Append(w, e) = Append(r \o w, e)
<1>1. Append(w, e) \in Seq(S)
  OBVIOUS
<1>2. QED OBVIOUS

\* The cursor of a client is an upper bound of what it has read, and reached.
LEMMA CursorIsGreatest ==
    ASSUME NEW c \in Clients, received[c] \in Seq(EventSeqs)
    PROVE  /\ Cursor(c) \in 0 .. MaxEvents
           /\ \A i \in DOMAIN received[c] : received[c][i] <= Cursor(c)
           /\ Cursor(c) # 0 => \E i \in DOMAIN received[c] : received[c][i] = Cursor(c)
<1> DEFINE r == received[c]
           seen == {r[i] : i \in DOMAIN r}
<1>1. DOMAIN r = 1 .. Len(r) /\ Len(r) \in Nat /\ \A i \in DOMAIN r : r[i] \in EventSeqs
  BY LenProperties, ElementOfSeq
<1>2. CASE r = <<>>
  BY <1>2, MaxEventsAssumption DEF Cursor
<1>3. CASE r # <<>>
  <2>1. seen \in SUBSET (1 .. MaxEvents)
    BY <1>1 DEF EventSeqs
  <2>2. seen # {}
    <3>1. 1 \in DOMAIN r
      BY <1>1, <1>3, EmptySeq
    <3>2. QED BY <3>1
  <2>3. IsFiniteSet(seen) /\ seen \in SUBSET Nat
    <3> HIDE DEF seen
    <3>1. QED BY <2>1, IntervalSubset, MaxEventsAssumption
  <2>4. PICK m \in seen : \A f \in seen : f <= m
    <3> HIDE DEF seen
    <3>1. QED BY <2>2, <2>3, GreatestExists
  <2>5. Cursor(c) = CHOOSE s \in seen : \A i \in DOMAIN r : r[i] <= s
    BY <1>3 DEF Cursor
  <2>6. \A i \in DOMAIN r : r[i] <= m
    BY <2>4
  <2>7. Cursor(c) \in seen /\ \A i \in DOMAIN r : r[i] <= Cursor(c)
    <3> HIDE DEF seen
    <3>1. QED BY <2>4, <2>5, <2>6
  <2>8. Cursor(c) \in 0 .. MaxEvents
    BY <2>1, <2>7, MaxEventsAssumption
  <2>9. QED BY <2>7, <2>8
<1>4. QED BY <1>2, <1>3

-----------------------------------------------------------------------------
(* Types of the bus *)

\* Beyond the types: only a bus that runs may be bound to the socket path.
BusTyped ==
    /\ BusTypeOK
    /\ \A p \in Procs : bus[p].bound => bus[p].at = "running"

\* When connections end, what arrives of the wire was on it, and the others stay.
LEMMA DropEffect ==
    ASSUME BusTypeOK, NEW cs \in SUBSET Clients, \A c \in cs : link[c] # NoLink, Drop(cs)
    PROVE  /\ link' \in [Clients -> Link \cup {NoLink}]
           /\ received' \in [Clients -> Seq(EventSeqs)]
           /\ \A c \in Clients \ cs : link'[c] = link[c] /\ received'[c] = received[c]
           /\ \A c \in cs : /\ link'[c] = NoLink
                            /\ \E n \in 0 .. Len(link[c].wire) :
                                  received'[c] = received[c] \o SubSeq(link[c].wire, 1, n)
<1>1. PICK n \in [cs -> 0 .. MaxEvents] :
        /\ \A c \in cs : n[c] <= Len(link[c].wire)
        /\ received' = [c \in Clients |->
               IF c \in cs THEN received[c] \o SubSeq(link[c].wire, 1, n[c]) ELSE received[c]]
  BY DEF Drop, Arrived
<1>2. link' = [c \in Clients |-> IF c \in cs THEN NoLink ELSE link[c]]
  BY DEF Drop
<1>3. \A c \in cs : link[c].wire \in Seq(EventSeqs) /\ received[c] \in Seq(EventSeqs)
  BY DEF BusTypeOK, Link
<1>4. \A c \in cs : n[c] \in 0 .. Len(link[c].wire)
  BY <1>1, <1>3, MaxEventsAssumption, LenProperties
<1>5. \A c \in cs : received[c] \o SubSeq(link[c].wire, 1, n[c]) \in Seq(EventSeqs)
  <2> TAKE c \in cs
  <2>1. QED BY <1>3, <1>4, PrefixOfStream
<1>6. link' \in [Clients -> Link \cup {NoLink}]
  BY <1>2 DEF BusTypeOK
<1>7. received' \in [Clients -> Seq(EventSeqs)]
  BY <1>1, <1>5 DEF BusTypeOK
<1>8. \A c \in Clients \ cs : link'[c] = link[c] /\ received'[c] = received[c]
  BY <1>1, <1>2
<1>9. \A c \in cs : /\ link'[c] = NoLink
                    /\ received'[c] = received[c] \o SubSeq(link[c].wire, 1, n[c])
  BY <1>1, <1>2
<1>10. QED BY <1>4, <1>6, <1>7, <1>8, <1>9

\* Starting, stopping, binding and dying.
LEMMA BusControlTyped ==
    ASSUME BusTyped, NEW p \in Procs,
           Initialize(p) \/ StartBus(p) \/ Listen(p) \/ StopBus(p) \/ (BusCrash(p) /\ UNCHANGED unsent)
    PROVE  BusTyped'
<1> USE DEF BusTyped
<1>1. /\ bus \in [Procs -> Bus] /\ path \in Procs \cup {NoFile}
      /\ \A c \in Clients : link[c] # NoLink => link[c].to \in Procs
  BY DEF BusTypeOK, Link
<1>2. CASE Initialize(p) \/ StartBus(p)
  <2>1. /\ bus' \in [Procs -> Bus]
        /\ \A q \in Procs : bus'[q].bound = bus[q].bound
        /\ \A q \in Procs : q # p => bus'[q] = bus[q]
        /\ ~bus[p].bound
        /\ path' \in Procs \cup {NoFile}
        /\ UNCHANGED <<events, link, received, cut, foreign, unsent>>
    BY <1>1, <1>2 DEF Initialize, StartBus, Bus
  <2>2. QED BY <1>1, <2>1 DEF BusTypeOK
<1>3. CASE Listen(p)
  <2>1. /\ bus' \in [Procs -> Bus]
        /\ \A q \in Procs : q # p => bus'[q] = bus[q]
        /\ bus'[p].at = "running"
        /\ ~bus[p].bound
        /\ path' \in Procs \cup {NoFile}
        /\ UNCHANGED <<events, link, received, cut, foreign, unsent>>
    BY <1>1, <1>3 DEF Listen, Bus
  <2>2. QED BY <1>1, <2>1 DEF BusTypeOK
<1>4. CASE StopBus(p) \/ (BusCrash(p) /\ UNCHANGED unsent)
  <2> DEFINE off(at) == [at |-> at, bound |-> FALSE]
  <2>0. /\ bus' = [bus EXCEPT ![p] = off("idle")] \/ bus' = [bus EXCEPT ![p] = off("down")]
        /\ path' \in Procs \cup {NoFile}
        /\ Drop(ClientsOf(p))
        /\ UNCHANGED <<events, cut, foreign, unsent>>
    BY <1>1, <1>4 DEF StopBus, BusCrash
  <2>1. /\ bus' \in [Procs -> Bus]
        /\ \A q \in Procs : q # p => bus'[q] = bus[q]
        /\ ~bus'[p].bound
    <3>1. off("idle") \in Bus /\ off("down") \in Bus /\ ~off("idle").bound /\ ~off("down").bound
      BY DEF Bus
    <3> HIDE DEF off
    <3>2. QED BY <1>1, <2>0, <3>1
  <2>2. ClientsOf(p) \in SUBSET Clients /\ \A c \in ClientsOf(p) : link[c] # NoLink
    BY DEF ClientsOf
  <2>3. /\ link' \in [Clients -> Link \cup {NoLink}]
        /\ received' \in [Clients -> Seq(EventSeqs)]
        /\ \A c \in Clients \ ClientsOf(p) : link'[c] = link[c]
        /\ \A c \in ClientsOf(p) : link'[c] = NoLink
    BY <2>0, <2>2, DropEffect
  <2>4. \A c \in Clients : link'[c] # NoLink => link'[c] = link[c] /\ link[c].to # p
    BY <2>3 DEF ClientsOf
  <2>5. \A c \in Clients : link[c] # NoLink => link[c].to \in Procs
    BY DEF BusTypeOK, Link
  <2>6. QED BY <2>0, <2>1, <2>3, <2>4, <2>5 DEF BusTypeOK
<1>5. QED BY <1>2, <1>3, <1>4

\* An answered subscription.
LEMMA SubscribedLink ==
    ASSUME NEW l \in Link, NEW last, NEW w
    PROVE  [l EXCEPT !.subscribed = TRUE, !.since = last, !.wire = w]
              = [to |-> l.to, subscribed |-> TRUE, since |-> last, wire |-> w]
<1> DEFINE m == [l EXCEPT !.subscribed = TRUE, !.since = last, !.wire = w]
<1>1. l \in [{"to", "subscribed", "since", "wire"} -> {l.to, l.subscribed, l.since, l.wire}]
  BY DEF Link
<1>2. DOMAIN m = {"to", "subscribed", "since", "wire"}
  BY <1>1
<1>3. m.to = l.to /\ m.subscribed = TRUE /\ m.since = last /\ m.wire = w
  BY <1>1
<1>4. m = [f \in {"to", "subscribed", "since", "wire"} |-> m[f]]
  BY <1>1
<1> HIDE DEF m
<1>5. m = [to |-> l.to, subscribed |-> TRUE, since |-> last, wire |-> w]
  BY <1>2, <1>3, <1>4
<1>6. QED BY <1>5 DEF m

\* The events a client asks for, and what its subscription makes of them.
LEMMA SubscribeEffect ==
    ASSUME BusTypeOK, NEW c \in Clients, Subscribe(c)
    PROVE  \E replay \in SUBSET Newer(c, Cursor(c)), last \in 0 .. MaxEvents :
              /\ last = Cursor(c) \/ last \in replay
              /\ Cursor(c) <= last
              /\ \A e \in replay : e <= last
              /\ InOrder(replay) \in Seq(EventSeqs)
              /\ link' = [link EXCEPT ![c] = [to |-> link[c].to, subscribed |-> TRUE, since |-> last,
                                              wire |-> InOrder(replay)]]
              /\ cut' = [cut EXCEPT ![c] = cut[c] \cup (Newer(c, Cursor(c)) \ replay)]
<1> DEFINE since == Cursor(c)
           replay == ReplayOf(c, since)
           last == IF replay = {} THEN since ELSE CHOOSE e \in replay : \A f \in replay : f <= e
<1>1. /\ link[c] \in Link
      /\ link' = [link EXCEPT ![c].subscribed = TRUE, ![c].since = last, ![c].wire = InOrder(replay)]
      /\ cut' = [cut EXCEPT ![c] = cut[c] \cup (Newer(c, since) \ replay)]
  BY DEF Subscribe, BusTypeOK
<1>2. since \in 0 .. MaxEvents
  BY CursorIsGreatest DEF BusTypeOK
<1>3. replay \in SUBSET Newer(c, since)
  BY DEF ReplayOf
<1>4. Newer(c, since) \in SUBSET (1 .. Len(events)) /\ Len(events) \in Nat /\ Len(events) <= MaxEvents
      /\ \A e \in Newer(c, since) : e > since
  BY DEF Newer, BusTypeOK
<1> HIDE DEF replay, since
<1>5. last \in 0 .. MaxEvents /\ (last = since \/ last \in replay) /\ \A e \in replay : e <= last
  <2>1. CASE replay = {}
    BY <1>2, <2>1
  <2>2. CASE replay # {}
    <3>1. replay \in SUBSET (1 .. Len(events))
      BY <1>3, <1>4
    <3>2. IsFiniteSet(replay) /\ replay \in SUBSET Nat
      BY <1>4, <3>1, IntervalSubset
    <3>3. \E m \in replay : \A f \in replay : f <= m
      BY <2>2, <3>2, GreatestExists
    <3>4. last \in replay /\ \A f \in replay : f <= last
      BY <2>2, <3>3
    <3> HIDE DEF last
    <3>5. last \in 1 .. Len(events)
      BY <3>1, <3>4
    <3>6. QED BY <1>4, <3>4, <3>5, MaxEventsAssumption
  <2>3. QED BY <2>1, <2>2
<1> HIDE DEF last
<1>6. since <= last
  BY <1>2, <1>3, <1>4, <1>5
<1>7. InOrder(replay) \in Seq(EventSeqs)
  <2>1. replay \in SUBSET (1 .. Len(events))
    BY <1>3, <1>4
  <2>2. InOrder(replay) \in Seq(replay)
    BY <1>4, <2>1, InOrderRises
  <2>3. replay \subseteq EventSeqs
    BY <1>4, <2>1, MaxEventsAssumption DEF EventSeqs
  <2>4. QED BY <2>2, <2>3, SeqMonotonic
<1>8. link' = [link EXCEPT ![c] = [to |-> link[c].to, subscribed |-> TRUE, since |-> last,
                                   wire |-> InOrder(replay)]]
  <2>1. [link[c] EXCEPT !.subscribed = TRUE, !.since = last, !.wire = InOrder(replay)]
           = [to |-> link[c].to, subscribed |-> TRUE, since |-> last, wire |-> InOrder(replay)]
    BY <1>1, SubscribedLink
  <2>2. QED BY <1>1, <2>1 DEF BusTypeOK
<1>9. QED BY <1>1, <1>3, <1>5, <1>6, <1>7, <1>8 DEF since

\* Connections, subscriptions and what is read.
LEMMA SubscriberTyped ==
    ASSUME BusTyped, NEW c \in Clients, Connect(c) \/ Subscribe(c) \/ ReadFrame(c) \/ Disconnect(c)
    PROVE  BusTyped'
<1> USE DEF BusTyped
<1>0. /\ link \in [Clients -> Link \cup {NoLink}] /\ received \in [Clients -> Seq(EventSeqs)]
      /\ cut \in [Clients -> SUBSET EventSeqs] /\ foreign \in [Clients -> SUBSET EventSeqs]
      /\ \A k \in Clients : link[k] # NoLink => link[k] \in Link /\ link[k].to \in Procs
      /\ \A k \in Clients : link[k] # NoLink => bus[link[k].to].bound
  BY DEF BusTypeOK, Link
<1>1. CASE Connect(c)
  <2> DEFINE l == [to |-> path, subscribed |-> FALSE, since |-> 0, wire |-> <<>>]
  <2>1. /\ path \in Procs /\ bus[path].bound
        /\ link' = [link EXCEPT ![c] = l]
        /\ UNCHANGED <<events, path, bus, received, cut, foreign, unsent>>
    BY <1>1 DEF Connect, BusTypeOK
  <2>2. l \in Link /\ l.to = path
    <3>1. <<>> \in Seq(EventSeqs) /\ 0 \in 0 .. MaxEvents
      BY MaxEventsAssumption
    <3>2. QED BY <2>1, <3>1 DEF Link
  <2> HIDE DEF l
  <2>3. /\ link' \in [Clients -> Link \cup {NoLink}]
        /\ \A k \in Clients : link'[k] # NoLink => bus[link'[k].to].bound
    BY <1>0, <2>1, <2>2
  <2>4. QED BY <2>1, <2>3 DEF BusTypeOK
<1>2. CASE Subscribe(c)
  <2>1. PICK replay \in SUBSET Newer(c, Cursor(c)), last \in 0 .. MaxEvents :
              /\ InOrder(replay) \in Seq(EventSeqs)
              /\ link' = [link EXCEPT ![c] = [to |-> link[c].to, subscribed |-> TRUE, since |-> last,
                                              wire |-> InOrder(replay)]]
              /\ cut' = [cut EXCEPT ![c] = cut[c] \cup (Newer(c, Cursor(c)) \ replay)]
    BY <1>2, SubscribeEffect
  <2> DEFINE l == [to |-> link[c].to, subscribed |-> TRUE, since |-> last, wire |-> InOrder(replay)]
  <2>2. link[c] # NoLink /\ UNCHANGED <<events, path, bus, received, foreign, unsent>>
    BY <1>2 DEF Subscribe
  <2>3. l \in Link /\ l.to = link[c].to
    BY <1>0, <2>1, <2>2 DEF Link
  <2>4. Newer(c, Cursor(c)) \subseteq EventSeqs
    BY MaxEventsAssumption DEF Newer, EventSeqs, BusTypeOK
  <2>5. cut' \in [Clients -> SUBSET EventSeqs]
    BY <1>0, <2>1, <2>4
  <2>6. link' = [link EXCEPT ![c] = l]
    BY <2>1
  <2> HIDE DEF l
  <2>7. /\ link' \in [Clients -> Link \cup {NoLink}]
        /\ \A k \in Clients : link'[k] # NoLink => bus[link'[k].to].bound
    BY <1>0, <2>2, <2>3, <2>6
  <2>8. QED BY <2>2, <2>5, <2>7 DEF BusTypeOK
<1>3. CASE ReadFrame(c)
  <2> DEFINE l == [link[c] EXCEPT !.wire = Tail(link[c].wire)]
             r == Append(received[c], Head(link[c].wire))
  <2>1. /\ link[c] # NoLink /\ link[c].wire # <<>>
        /\ received' = [received EXCEPT ![c] = r]
        /\ link' = [link EXCEPT ![c] = l]
        /\ UNCHANGED <<events, path, bus, cut, foreign, unsent>>
    BY <1>3 DEF ReadFrame, BusTypeOK
  <2>2. link[c].wire \in Seq(EventSeqs) /\ received[c] \in Seq(EventSeqs)
    BY <1>0, <2>1 DEF Link
  <2>3. r \in Seq(EventSeqs) /\ Tail(link[c].wire) \in Seq(EventSeqs)
    BY <2>1, <2>2, ReadKeepsStream
  <2>4. l \in Link /\ l.to = link[c].to
    BY <1>0, <2>1, <2>3 DEF Link
  <2> HIDE DEF l, r
  <2>5. /\ link' \in [Clients -> Link \cup {NoLink}]
        /\ received' \in [Clients -> Seq(EventSeqs)]
        /\ \A k \in Clients : link'[k] # NoLink => bus[link'[k].to].bound
    BY <1>0, <2>1, <2>3, <2>4
  <2>6. QED BY <2>1, <2>5 DEF BusTypeOK
<1>4. CASE Disconnect(c)
  <2>1. /\ link[c] # NoLink /\ Drop({c}) /\ {c} \in SUBSET Clients
        /\ UNCHANGED <<events, path, bus, cut, foreign, unsent>>
    BY <1>4 DEF Disconnect
  <2>2. /\ link' \in [Clients -> Link \cup {NoLink}]
        /\ received' \in [Clients -> Seq(EventSeqs)]
        /\ \A k \in Clients \ {c} : link'[k] = link[k]
        /\ \A k \in {c} : link'[k] = NoLink
    BY <2>1, DropEffect
  <2>3. \A k \in Clients : link'[k] # NoLink => bus[link'[k].to].bound
    BY <1>0, <2>2
  <2>4. QED BY <2>1, <2>2, <2>3 DEF BusTypeOK
<1>5. QED BY <1>1, <1>2, <1>3, <1>4

\* Storing an event and pushing it.
LEMMA PublishingTyped ==
    ASSUME BusTyped, NEW p \in Procs,
           (\E type \in Types : AppendEvent(p, type)) \/ (\E e \in EventSeqs : BroadcastEvent(p, e))
    PROVE  BusTyped'
<1> USE DEF BusTyped
<1>0. /\ link \in [Clients -> Link \cup {NoLink}]
      /\ cut \in [Clients -> SUBSET EventSeqs] /\ foreign \in [Clients -> SUBSET EventSeqs]
      /\ \A k \in Clients : link[k] # NoLink => link[k] \in Link /\ link[k].to \in Procs
      /\ \A k \in Clients : link[k] # NoLink => bus[link[k].to].bound
      /\ events \in Seq([type : Types, by : Procs]) /\ Len(events) \in Nat
  BY DEF BusTypeOK, Link
<1>1. ASSUME NEW type \in Types, AppendEvent(p, type)
      PROVE  BusTyped'
  <2>1. /\ Len(events) + 1 \in EventSeqs
        /\ events' = Append(events, [type |-> type, by |-> p])
        /\ foreign' = [c \in Clients |->
               IF link[c] # NoLink /\ link[c].to # p /\ link[c].subscribed
               THEN foreign[c] \cup {Len(events) + 1} ELSE foreign[c]]
        /\ UNCHANGED <<path, bus, link, received, cut, unsent>>
    BY <1>0, <1>1, MaxEventsAssumption DEF AppendEvent, EventSeqs
  <2>2. [type |-> type, by |-> p] \in [type : Types, by : Procs]
    OBVIOUS
  <2>3. events' \in Seq([type : Types, by : Procs]) /\ Len(events') = Len(events) + 1
    BY <1>0, <2>1, <2>2
  <2>4. Len(events') <= MaxEvents
    BY <2>1, <2>3 DEF EventSeqs
  <2>5. foreign' \in [Clients -> SUBSET EventSeqs]
    BY <1>0, <2>1
  <2>6. QED BY <2>1, <2>3, <2>4, <2>5 DEF BusTypeOK
<1>2. ASSUME NEW e \in EventSeqs, BroadcastEvent(p, e)
      PROVE  BusTyped'
  <2> DEFINE sent(c) == [link[c] EXCEPT !.wire = Append(link[c].wire, e), !.since = e]
  <2>1. /\ \A c \in Clients : link'[c] = link[c] \/ (link[c] # NoLink /\ link'[c] = sent(c))
        /\ DOMAIN link' = Clients /\ link' = [c \in Clients |-> link'[c]]
        /\ UNCHANGED <<events, path, bus, received, cut, foreign, unsent>>
    BY <1>2 DEF BroadcastEvent, ClientsOf
  <2>2. \A c \in Clients : link[c] # NoLink => sent(c) \in Link /\ sent(c).to = link[c].to
    <3> SUFFICES ASSUME NEW c \in Clients, link[c] # NoLink
                 PROVE  sent(c) \in Link /\ sent(c).to = link[c].to
      OBVIOUS
    <3>1. link[c] \in Link /\ link[c].wire \in Seq(EventSeqs)
      BY <1>0 DEF Link
    <3>2. Append(link[c].wire, e) \in Seq(EventSeqs) /\ e \in 0 .. MaxEvents
      BY <3>1, MaxEventsAssumption DEF EventSeqs
    <3>3. QED BY <3>1, <3>2 DEF Link
  <2> HIDE DEF sent
  <2>3. \A c \in Clients : /\ link'[c] \in Link \cup {NoLink}
                           /\ link'[c] # NoLink => bus[link'[c].to].bound
    BY <1>0, <2>1, <2>2
  <2>4. link' \in [Clients -> Link \cup {NoLink}]
    BY <2>1, <2>3
  <2>5. QED BY <2>1, <2>3, <2>4 DEF BusTypeOK
<1>3. QED BY <1>1, <1>2

-----------------------------------------------------------------------------
(* Types of the thread *)

Answered(log, gone) == {u \in UserMessages(log, gone) : Responders(log, gone, u) # {}}

\* The latest turn is the greatest user message that is answered, with its consensus.
LEMMA LatestTurnIs ==
    ASSUME NEW log \in Seq(Message), NEW gone
    PROVE  /\ Answered(log, gone) \subseteq 1 .. Len(log)
           /\ Answered(log, gone) = {} => LatestTurn(log, gone) = NoTurn
           /\ Answered(log, gone) # {} =>
                 \E u \in Answered(log, gone) :
                    /\ \A v \in Answered(log, gone) : v <= u
                    /\ LatestTurn(log, gone) = [user |-> u, status |-> EvaluateConsensusTurn(log, gone, u)]
<1> DEFINE answered == Answered(log, gone)
<1>1. Len(log) \in Nat /\ DOMAIN log = 1 .. Len(log)
  BY LenProperties
<1>2. answered \in SUBSET (1 .. Len(log))
  BY <1>1 DEF Answered, UserMessages, Present
<1>3. CASE answered = {}
  BY <1>2, <1>3 DEF LatestTurn, Answered
<1>4. CASE answered # {}
  <2> DEFINE w == CHOOSE u \in answered : \A v \in answered : v <= u
  <2>1. LatestTurn(log, gone) = [user |-> w, status |-> EvaluateConsensusTurn(log, gone, w)]
    BY <1>4 DEF LatestTurn, Answered
  <2>2. w \in answered /\ \A v \in answered : v <= w
    <3> HIDE DEF answered
    <3>1. IsFiniteSet(answered) /\ answered \in SUBSET Nat
      BY <1>1, <1>2, IntervalSubset
    <3>2. \E u \in answered : \A v \in answered : v <= u
      BY <1>4, <3>1, GreatestExists
    <3>3. QED BY <3>2
  <2> HIDE DEF w
  <2>3. QED BY <1>2, <1>4, <2>1, <2>2
<1>5. QED BY <1>3, <1>4

\* The consensus a check reports is a turn.
LEMMA LatestTurnType ==
    ASSUME ThreadTypeOK
    PROVE  Latest \in Turn
<1>1. messages \in Seq(Message) /\ Len(messages) \in Nat /\ Len(messages) <= MaxMessages /\ MaxMessages \in Nat
  BY ThreadAssumption DEF ThreadTypeOK
<1>2. NoTurn \in Turn
  BY <1>1 DEF NoTurn, Turn
<1>3. \A u : EvaluateConsensusTurn(messages, pruned, u) \in {"incomplete", "consensus", "disagreement"}
  BY DEF EvaluateConsensusTurn
<1>4. \A u \in 1 .. Len(messages) : [user |-> u, status |-> EvaluateConsensusTurn(messages, pruned, u)] \in Turn
  BY <1>1, <1>3 DEF Turn
<1>5. QED BY <1>1, <1>2, <1>4, LatestTurnIs DEF Latest

\* What may be posted is a message.
LEMMA PostableType ==
    ASSUME ThreadTypeOK, NEW m \in Postable
    PROVE  m \in Message
<1>1. UserMessages(messages, pruned) \subseteq 1 .. MaxMessages
  BY ThreadAssumption DEF UserMessages, Present, ThreadTypeOK
<1>2. CASE m \in {[role |-> "user"], [role |-> "system"]}
  BY <1>2 DEF Message
<1>3. ASSUME NEW a \in Agents, NEW u \in UserMessages(messages, pruned), NEW z \in Answers,
             m = [role |-> "assistant", agent |-> a, reply |-> u, answer |-> z]
      PROVE  m \in Message
  BY <1>1, <1>3 DEF Message
<1>4. QED BY <1>2, <1>3 DEF Postable

\* Messages are appended and taken away from the front.
LEMMA ThreadTyped ==
    ASSUME ThreadTypeOK, (\E m \in Message : AppendMessage(m)) \/ (\E n \in 1 .. MaxMessages : PruneMessages(n))
    PROVE  ThreadTypeOK'
<1>1. messages \in Seq(Message) /\ Len(messages) \in Nat /\ pruned \in 0 .. Len(messages)
  BY DEF ThreadTypeOK
<1>2. ASSUME NEW m \in Message, AppendMessage(m)
      PROVE  ThreadTypeOK'
  <2>1. messages' \in Seq(Message) /\ Len(messages') = Len(messages) + 1 /\ pruned' = pruned
    BY <1>1, <1>2 DEF AppendMessage
  <2>2. Len(messages) < MaxMessages
    BY <1>2 DEF AppendMessage
  <2>3. QED BY <1>1, <2>1, <2>2, ThreadAssumption DEF ThreadTypeOK
<1>3. ASSUME NEW n \in 1 .. MaxMessages, PruneMessages(n)
      PROVE  ThreadTypeOK'
  <2>1. messages' = messages /\ pruned' = n /\ n \in 1 .. Len(messages)
    BY <1>1, <1>3 DEF PruneMessages, Present
  <2>2. QED BY <1>1, <2>1 DEF ThreadTypeOK
<1>4. QED BY <1>2, <1>3

-----------------------------------------------------------------------------
(* Types of the calls *)

Kinds == {"posts", "publishes", "controls", "prunes"}

\* The event a call has stored and not yet pushed.
Pending(p) ==
    IF call[p] # NoCall /\ call[p].at \in {"persist", "send", "send_alert"} THEN {call[p].event} ELSE {}

CallTyped ==
    /\ call \in [Procs -> Call \cup {NoCall}]
    /\ \A p \in Procs : call[p] # NoCall => bus[p].at \in {"idle", "running"}
    /\ \A p \in Procs : call[p] # NoCall => call[p].event <= Len(events)
    /\ \A p \in Procs : Pending(p) \subseteq 1 .. Len(events)

BudgetTyped ==
    /\ started \subseteq Procs /\ budget \in Budgets
    /\ used \in [Kinds -> Nat] /\ \A k \in Kinds : used[k] <= budget[k]
    /\ mishaps \in 0 .. budget.mishaps

FlipsTyped == flips \in Nat /\ otherFlips \in Nat /\ flips + otherFlips <= Len(messages)

TypeInv == BusTyped /\ ThreadTypeOK /\ CallTyped /\ BudgetTyped /\ FlipsTyped

\* The invariant of the proof says more than the type invariant.
LEMMA TypeInvImpliesTypeOK ==
    ASSUME TypeInv PROVE TypeOK
<1> USE DEF TypeInv
<1>1. BusTypeOK /\ ThreadTypeOK
  BY DEF BusTyped
<1>2. flips \in 0 .. MaxMessages /\ otherFlips \in 0 .. MaxMessages
  BY ThreadAssumption DEF FlipsTyped, ThreadTypeOK
<1>3. budget \in Budgets /\ \A k \in Kinds : budget[k] \in Nat
  BY BudgetsAssumption DEF BudgetTyped, Kinds
<1>4. \A k \in DOMAIN used : used[k] \in 0 .. budget[k]
  BY <1>3 DEF BudgetTyped
<1>5. QED BY <1>1, <1>2, <1>4 DEF TypeOK, CallTyped, BudgetTyped

\* It holds at the start.
LEMMA InitTypeInv ==
    ASSUME Init PROVE TypeInv
<1> USE DEF Init
<1>1. BusTyped
  <2>1. \A S : <<>> \in Seq(S) /\ Len(<<>>) = 0
    BY EmptySeq
  <2>2. QED BY <2>1, MaxEventsAssumption DEF BusInit, BusTyped, BusTypeOK, Bus
<1>2. ThreadTypeOK /\ FlipsTyped
  BY ThreadAssumption DEF ThreadInit, ThreadTypeOK, FlipsTyped
<1>3. CallTyped
  BY DEF CallTyped, Pending
<1>4. \A k \in Kinds : budget[k] \in Nat
  BY BudgetsAssumption DEF Kinds
<1>5. BudgetTyped
  <2>1. used \in [Kinds -> Nat] /\ \A k \in Kinds : used[k] = 0
    BY DEF Kinds
  <2>2. budget.mishaps \in Nat
    BY BudgetsAssumption
  <2>3. QED BY <1>4, <2>1, <2>2 DEF BudgetTyped
<1>6. QED BY <1>1, <1>2, <1>3, <1>5 DEF TypeInv

Places == {"append", "store", "send", "check", "alert", "send_alert", "persist"}

\* A call that moves on is a call, with its message, its first check and its event.
LEMMA CallFields ==
    ASSUME NEW x \in Call, NEW place \in Places
    PROVE  LET y == [x EXCEPT !.at = place] IN
           /\ y \in Call /\ y.at = place
           /\ y.event = x.event /\ y.before = x.before /\ y.message = x.message /\ y.tool = x.tool
           /\ y.persist = x.persist
BY DEF Call, Places

\* One process begins, moves or ends its call.
LEMMA CallSet ==
    ASSUME CallTyped, NEW p \in Procs, NEW x \in Call \cup {NoCall}, call' = [call EXCEPT ![p] = x],
           Len(events) \in Nat, Len(events') \in Nat, Len(events) <= Len(events'),
           \A q \in Procs : q # p /\ call[q] # NoCall => bus'[q].at = bus[q].at,
           x # NoCall => /\ bus'[p].at \in {"idle", "running"}
                         /\ x.event <= Len(events')
                         /\ x.at \in {"persist", "send", "send_alert"} => x.event \in 1 .. Len(events')
    PROVE  CallTyped'
<1> USE DEF CallTyped
<1>1. call' \in [Procs -> Call \cup {NoCall}] /\ call'[p] = x /\ \A q \in Procs : q # p => call'[q] = call[q]
  OBVIOUS
<1>2. \A q \in Procs : call'[q] # NoCall => bus'[q].at \in {"idle", "running"}
  BY <1>1
<1>3. \A q \in Procs : call[q] # NoCall => call[q].event \in Nat
  BY DEF Call
<1>4. \A q \in Procs : call'[q] # NoCall => call'[q].event <= Len(events')
  BY <1>1, <1>3
<1>5. \A q \in Procs : Pending(q)' \subseteq 1 .. Len(events')
  <2> SUFFICES ASSUME NEW q \in Procs PROVE Pending(q)' \subseteq 1 .. Len(events')
    OBVIOUS
  <2>1. CASE q = p
    BY <1>1, <2>1 DEF Pending
  <2>2. CASE q # p
    <3>1. Pending(q)' = Pending(q) /\ Pending(q) \subseteq 1 .. Len(events)
      BY <1>1, <2>2 DEF Pending
    <3>2. QED BY <3>1
  <2>3. QED BY <2>1, <2>2
<1>6. QED BY <1>1, <1>2, <1>4, <1>5

\* Calls wait while nothing of theirs changes.
LEMMA CallKept ==
    ASSUME CallTyped, UNCHANGED <<call, events>>,
           \A q \in Procs : call[q] # NoCall => bus'[q].at = bus[q].at
    PROVE  CallTyped'
BY DEF CallTyped, Pending

\* Bounds are kept.
LEMMA SpendTyped ==
    ASSUME BudgetTyped, NEW k \in Kinds, Spend(k) \/ UNCHANGED used, Mishap \/ UNCHANGED mishaps,
           UNCHANGED <<started, budget>>
    PROVE  BudgetTyped'
<1> USE DEF BudgetTyped
<1>1. budget.mishaps \in Nat /\ \A j \in Kinds : budget[j] \in Nat
  BY BudgetsAssumption DEF Kinds
<1>2. mishaps' \in 0 .. budget.mishaps
  BY <1>1 DEF Mishap
<1>3. used' \in [Kinds -> Nat] /\ \A j \in Kinds : used'[j] <= budget[j]
  BY <1>1 DEF Spend
<1>4. QED BY <1>2, <1>3

\* What a step leaves alone keeps its type.
LEMMA SameBusTyped ==
    ASSUME BusTyped, UNCHANGED busVars PROVE BusTyped'
BY DEF BusTyped, BusTypeOK, busVars

\* What a step leaves alone keeps its type.
LEMMA SameThreadTyped ==
    ASSUME ThreadTypeOK, UNCHANGED threadVars PROVE ThreadTypeOK'
BY DEF ThreadTypeOK, threadVars

\* Nothing but the call, its bounds and what went wrong changes.
LEMMA CallOnlyTyped ==
    ASSUME TypeInv, NEW p \in Procs, NEW x \in Call \cup {NoCall}, call' = [call EXCEPT ![p] = x],
           x # NoCall => /\ bus[p].at \in {"idle", "running"}
                         /\ x.event <= Len(events)
                         /\ x.at \in {"persist", "send", "send_alert"} => x.event \in 1 .. Len(events),
           NEW k \in Kinds, Spend(k) \/ UNCHANGED used, Mishap \/ UNCHANGED mishaps,
           UNCHANGED <<busVars, threadVars, flips, otherFlips, started, budget>>
    PROVE  TypeInv'
<1> USE DEF TypeInv
<1>1. Len(events) \in Nat /\ UNCHANGED <<events, bus>> /\ UNCHANGED messages
  BY DEF BusTyped, BusTypeOK, busVars, threadVars
<1>2. CallTyped'
  <2>1. /\ \A q \in Procs : q # p /\ call[q] # NoCall => bus'[q].at = bus[q].at
        /\ x # NoCall => /\ bus'[p].at \in {"idle", "running"}
                         /\ x.event <= Len(events')
                         /\ x.at \in {"persist", "send", "send_alert"} => x.event \in 1 .. Len(events')
        /\ Len(events') \in Nat /\ Len(events) <= Len(events')
    BY <1>1
  <2>2. QED BY <1>1, <2>1, CallSet
<1>3. BudgetTyped'
  BY SpendTyped
<1>4. FlipsTyped'
  BY <1>1 DEF FlipsTyped
<1>5. BusTyped' /\ ThreadTypeOK'
  BY SameBusTyped, SameThreadTyped
<1>6. QED BY <1>2, <1>3, <1>4, <1>5

\* A call begins.
LEMMA StartCallTyped ==
    ASSUME TypeInv, NEW p \in Procs, MessagePost(p) \/ Publish(p) \/ PublishTurnEvent(p)
    PROVE  TypeInv'
<1> USE DEF TypeInv
<1>1. bus[p].at \in {"idle", "running"} /\ Len(events) \in Nat
  BY DEF MessagePost, Publish, PublishTurnEvent, Ready, BusTyped, BusTypeOK
<1>2. {"posts", "publishes"} \subseteq Kinds /\ 0 \in 0 .. MaxEvents /\ NoTurn \in Turn
  BY MaxEventsAssumption, ThreadAssumption DEF Kinds, NoTurn, Turn
<1>3. CASE MessagePost(p)
  <2>1. PICK m \in Postable, before \in {NoTurn, Latest} :
          /\ call' = [call EXCEPT ![p] =
                [tool |-> "post", at |-> "append", message |-> m, type |-> "trichat.message_post",
                 persist |-> "no", event |-> 0, before |-> before]]
          /\ Mishap \/ UNCHANGED mishaps
    BY <1>3 DEF MessagePost
  <2> DEFINE x == [tool |-> "post", at |-> "append", message |-> m, type |-> "trichat.message_post",
                   persist |-> "no", event |-> 0, before |-> before]
  <2>2. m \in Message /\ before \in Turn
    BY <1>2, <2>1, PostableType, LatestTurnType
  <2>3. x \in Call /\ x.event = 0 /\ x.at = "append"
    BY <1>2, <2>2, TypesAssumption DEF Call
  <2>4. Spend("posts") /\ UNCHANGED <<busVars, threadVars, flips, otherFlips, started, budget>>
    BY <1>3 DEF MessagePost
  <2>5. call' = [call EXCEPT ![p] = x]
    BY <2>1
  <2> HIDE DEF x
  <2>6. x.event <= Len(events) /\ x.at \notin {"persist", "send", "send_alert"}
    BY <1>1, <2>3
  <2>7. QED BY <1>1, <1>2, <2>1, <2>3, <2>4, <2>5, <2>6, CallOnlyTyped
<1>4. CASE Publish(p) \/ PublishTurnEvent(p)
  <2>1. PICK m \in Postable, type \in Types, persist \in {"no", "yes", "invalid"} :
          call' = [call EXCEPT ![p] = PublishCall(m, type, persist)]
    <3>1. [role |-> "system"] \in Postable
      BY DEF Postable
    <3>2. QED BY <1>4, <3>1, TypesAssumption DEF Publish, PublishTurnEvent
  <2> DEFINE x == PublishCall(m, type, persist)
  <2>2. m \in Message
    BY PostableType
  <2>3. x \in Call /\ x.event = 0 /\ x.at = "store"
    BY <1>2, <2>2 DEF Call, PublishCall
  <2>4. Spend("publishes") /\ UNCHANGED <<busVars, threadVars, flips, otherFlips, started, budget, mishaps>>
    BY <1>4 DEF Publish, PublishTurnEvent
  <2>5. call' = [call EXCEPT ![p] = x]
    BY <2>1
  <2> HIDE DEF x
  <2>6. x.event <= Len(events) /\ x.at \notin {"persist", "send", "send_alert"}
    BY <1>1, <2>3
  <2>7. QED BY <1>1, <1>2, <2>3, <2>4, <2>5, <2>6, CallOnlyTyped
<1>5. QED BY <1>3, <1>4

\* A call in progress, and where it goes.
LEMMA InCallFacts ==
    ASSUME TypeInv, NEW p \in Procs, NEW place, InCall(p, place)
    PROVE  /\ call[p] \in Call /\ call[p] # NoCall /\ call[p].at = place
           /\ bus[p].at \in {"idle", "running"}
           /\ call[p].event \in 0 .. MaxEvents /\ call[p].event <= Len(events)
           /\ place \in {"persist", "send", "send_alert"} => call[p].event \in 1 .. Len(events)
           /\ call[p].message \in Message /\ call[p].type \in Types
           /\ \A to : Go(p, to) => call' = [call EXCEPT ![p] = [call[p] EXCEPT !.at = to]]
           /\ Len(events) \in Nat
<1>1. /\ call \in [Procs -> Call \cup {NoCall}] /\ call[p] # NoCall /\ call[p].at = place
      /\ bus[p].at \in {"idle", "running"} /\ call[p].event <= Len(events)
      /\ Pending(p) \subseteq 1 .. Len(events)
  BY DEF TypeInv, CallTyped, InCall
<1>2. call[p] \in Call
  BY <1>1
<1>3. call[p].event \in 0 .. MaxEvents /\ call[p].message \in Message /\ call[p].type \in Types
  BY <1>2 DEF Call
<1>4. place \in {"persist", "send", "send_alert"} => call[p].event \in 1 .. Len(events)
  BY <1>1 DEF Pending
<1>5. \A to : Go(p, to) => call' = [call EXCEPT ![p] = [call[p] EXCEPT !.at = to]]
  BY DEF Go
<1>6. Len(events) \in Nat
  BY DEF TypeInv, BusTyped, BusTypeOK
<1>7. QED BY <1>1, <1>2, <1>3, <1>4, <1>5, <1>6

\* A message is appended, and may be counted as a flip.
LEMMA AppendTyped ==
    ASSUME TypeInv, NEW m \in Message, AppendMessage(m),
           \/ flips' = flips + (IF Flips(m) THEN 1 ELSE 0) /\ otherFlips' = otherFlips
           \/ otherFlips' = otherFlips + (IF Flips(m) THEN 1 ELSE 0) /\ flips' = flips
    PROVE  ThreadTypeOK' /\ FlipsTyped'
<1> USE DEF TypeInv
<1>1. ThreadTypeOK'
  BY ThreadTyped
<1>2. messages \in Seq(Message) /\ messages' = Append(messages, m)
  BY DEF ThreadTypeOK, AppendMessage
<1>3. Len(messages) \in Nat /\ Len(messages') = Len(messages) + 1
  BY <1>2
<1>4. FlipsTyped'
  <2> DEFINE d == IF Flips(m) THEN 1 ELSE 0
  <2>1. d \in 0 .. 1
    OBVIOUS
  <2>2. \/ flips' = flips + d /\ otherFlips' = otherFlips
        \/ otherFlips' = otherFlips + d /\ flips' = flips
    OBVIOUS
  <2> HIDE DEF d
  <2>3. QED BY <1>3, <2>1, <2>2 DEF FlipsTyped
<1>5. QED BY <1>1, <1>4

\* The message of a post is committed.
LEMMA PostMessageTyped ==
    ASSUME TypeInv, NEW p \in Procs, PostMessage(p)
    PROVE  TypeInv'
<1> DEFINE x == [call[p] EXCEPT !.at = "store"]
<1>1. /\ call[p] \in Call /\ call[p].at = "append" /\ bus[p].at \in {"idle", "running"}
      /\ call[p].event <= Len(events) /\ call[p].message \in Message /\ Len(events) \in Nat
      /\ Go(p, "store") => call' = [call EXCEPT ![p] = x]
  BY InCallFacts DEF PostMessage
<1>2. x \in Call /\ x.event = call[p].event /\ x.at = "store"
  BY <1>1, CallFields DEF Places
<1> HIDE DEF x
<1>3. UNCHANGED <<busVars, otherFlips, started, budget, used>> /\ "posts" \in Kinds
  BY DEF PostMessage, Kinds
<1>4. UNCHANGED <<events, bus>>
  BY <1>3 DEF busVars
<1>5. CASE Mishap /\ Done(p) /\ UNCHANGED <<threadVars, flips>>
  BY <1>1, <1>3, <1>5, CallOnlyTyped DEF Done
<1>6. CASE /\ AppendMessage(call[p].message)
           /\ flips' = flips + (IF Flips(call[p].message) THEN 1 ELSE 0)
           /\ Go(p, "store") /\ UNCHANGED mishaps
  <2>1. ThreadTypeOK' /\ FlipsTyped'
    BY <1>1, <1>3, <1>6, AppendTyped
  <2>2. /\ call' = [call EXCEPT ![p] = x]
        /\ x.event <= Len(events') /\ x.at \notin {"persist", "send", "send_alert"}
        /\ Len(events') \in Nat /\ Len(events) <= Len(events')
        /\ bus'[p].at \in {"idle", "running"}
        /\ \A q \in Procs : q # p /\ call[q] # NoCall => bus'[q].at = bus[q].at
    BY <1>1, <1>2, <1>4, <1>6
  <2>3. CallTyped'
    BY <1>1, <1>2, <2>2, CallSet DEF TypeInv
  <2>4. BudgetTyped'
    BY <1>3, <1>6, SpendTyped DEF TypeInv
  <2>5. BusTyped'
    BY <1>3, SameBusTyped DEF TypeInv
  <2>6. QED BY <2>1, <2>3, <2>4, <2>5 DEF TypeInv
<1>7. QED BY <1>5, <1>6 DEF PostMessage

\* The message of a bus event is committed, or is not and its event stays behind.
LEMMA PersistMessageTyped ==
    ASSUME TypeInv, NEW p \in Procs, PersistMessage(p)
    PROVE  TypeInv'
<1> DEFINE x == [call[p] EXCEPT !.at = "send"]
           fails == Done(p) /\ unsent' = unsent \cup {call[p].event} /\ UNCHANGED <<threadVars, otherFlips>>
<1>1. /\ call[p] \in Call /\ call[p].at = "persist" /\ bus[p].at \in {"idle", "running"}
      /\ call[p].event <= Len(events) /\ call[p].message \in Message /\ Len(events) \in Nat
      /\ call[p].event \in 1 .. Len(events)
      /\ Go(p, "send") => call' = [call EXCEPT ![p] = x]
  BY InCallFacts DEF PersistMessage
<1>2. x \in Call /\ x.event = call[p].event /\ x.at = "send"
  BY <1>1, CallFields DEF Places
<1> HIDE DEF x
<1>3. UNCHANGED <<events, path, bus, link, received, cut, foreign, flips, started, budget, used>> /\ "posts" \in Kinds
  BY DEF PersistMessage, Kinds
<1>4. call[p].event \in EventSeqs
  BY <1>1, MaxEventsAssumption DEF EventSeqs, TypeInv, BusTyped, BusTypeOK
<1>5. CASE fails /\ (Mishap \/ UNCHANGED mishaps)
  <2>1. BusTyped'
    <3>1. unsent' \subseteq EventSeqs
      BY <1>4, <1>5 DEF TypeInv, BusTyped, BusTypeOK
    <3>2. QED BY <1>3, <3>1 DEF TypeInv, BusTyped, BusTypeOK
  <2>2. /\ call' = [call EXCEPT ![p] = NoCall] /\ NoCall \in Call \cup {NoCall}
        /\ Len(events') \in Nat /\ Len(events) <= Len(events')
        /\ \A q \in Procs : q # p /\ call[q] # NoCall => bus'[q].at = bus[q].at
    BY <1>1, <1>3, <1>5 DEF Done
  <2>3. CallTyped'
    BY <1>1, <2>2, CallSet DEF TypeInv
  <2>4. BudgetTyped'
    BY <1>3, <1>5, SpendTyped DEF TypeInv
  <2>5. ThreadTypeOK' /\ FlipsTyped'
    <3>1. UNCHANGED <<threadVars, messages, flips, otherFlips>>
      BY <1>3, <1>5 DEF threadVars
    <3>2. QED BY <3>1, SameThreadTyped DEF FlipsTyped, TypeInv
  <2>6. QED BY <2>1, <2>3, <2>4, <2>5 DEF TypeInv
<1>6. CASE /\ AppendMessage(call[p].message)
           /\ otherFlips' = otherFlips + (IF Flips(call[p].message) THEN 1 ELSE 0)
           /\ Go(p, "send") /\ UNCHANGED <<unsent, mishaps>>
  <2>1. ThreadTypeOK' /\ FlipsTyped'
    BY <1>1, <1>3, <1>6, AppendTyped
  <2>2. /\ call' = [call EXCEPT ![p] = x]
        /\ x.event <= Len(events') /\ x.event \in 1 .. Len(events')
        /\ Len(events') \in Nat /\ Len(events) <= Len(events')
        /\ bus'[p].at \in {"idle", "running"}
        /\ \A q \in Procs : q # p /\ call[q] # NoCall => bus'[q].at = bus[q].at
    BY <1>1, <1>2, <1>3, <1>6
  <2>3. CallTyped'
    BY <1>1, <1>2, <2>2, CallSet DEF TypeInv
  <2>4. BudgetTyped'
    BY <1>3, <1>6, SpendTyped DEF TypeInv
  <2>5. BusTyped'
    BY <1>3, <1>6, SameBusTyped DEF TypeInv, busVars
  <2>6. QED BY <2>1, <2>3, <2>4, <2>5 DEF TypeInv
<1>7. QED BY <1>5, <1>6 DEF PersistMessage

\* An event that is stored is the newest, and the call that stored it is on its way to push it.
LEMMA StoredEventTyped ==
    ASSUME TypeInv, NEW p \in Procs, NEW type \in Types, NEW place \in Places, call[p] \in Call,
           bus[p].at \in {"idle", "running"}, AppendEvent(p, type),
           call' = [call EXCEPT ![p].event = Len(events) + 1, ![p].at = place],
           UNCHANGED <<threadVars, flips, otherFlips, started, budget, used, mishaps>>
    PROVE  TypeInv'
<1> DEFINE x == [call[p] EXCEPT !.event = Len(events) + 1, !.at = place]
<1> USE DEF TypeInv
<1>1. /\ events \in Seq([type : Types, by : Procs]) /\ Len(events) \in Nat
      /\ events' = Append(events, [type |-> type, by |-> p]) /\ UNCHANGED bus
      /\ Len(events) + 1 \in 0 .. MaxEvents
  BY MaxEventsAssumption DEF AppendEvent, BusTyped, BusTypeOK
<1>2. Len(events') = Len(events) + 1
  BY <1>1
<1>3. x \in Call /\ x.event = Len(events) + 1 /\ x.at = place
  <2> DEFINE e == Len(events) + 1
  <2>1. e \in 0 .. MaxEvents
    BY <1>1
  <2> HIDE DEF e
  <2>2. LET y == [call[p] EXCEPT !.event = e, !.at = place] IN y \in Call /\ y.event = e /\ y.at = place
    BY <2>1 DEF Call, Places
  <2>3. QED BY <2>2 DEF e
<1>4. call' = [call EXCEPT ![p] = x]
  OBVIOUS
<1> HIDE DEF x
<1>5. /\ x.event <= Len(events') /\ x.event \in 1 .. Len(events')
      /\ Len(events') \in Nat /\ Len(events) <= Len(events')
      /\ bus'[p].at \in {"idle", "running"}
      /\ \A q \in Procs : q # p /\ call[q] # NoCall => bus'[q].at = bus[q].at
  BY <1>1, <1>2, <1>3
<1>6. CallTyped'
  BY <1>1, <1>3, <1>4, <1>5, CallSet
<1>7. BusTyped'
  BY PublishingTyped
<1>8. "posts" \in Kinds
  BY DEF Kinds
<1>9. BudgetTyped'
  BY <1>8, SpendTyped
<1>10. ThreadTypeOK' /\ FlipsTyped'
  <2>1. UNCHANGED messages
    BY DEF threadVars
  <2>2. QED BY <2>1, SameThreadTyped DEF FlipsTyped
<1>11. QED BY <1>6, <1>7, <1>9, <1>10

\* A call that moves on or ends, and nothing else.
LEMMA MoveTyped ==
    ASSUME TypeInv, NEW p \in Procs, NEW place \in Places, call[p] \in Call, bus[p].at \in {"idle", "running"},
           Done(p) \/ (Go(p, place) /\ place \notin {"persist", "send", "send_alert"}),
           Mishap \/ UNCHANGED mishaps,
           UNCHANGED <<busVars, threadVars, flips, otherFlips, started, budget, used>>
    PROVE  TypeInv'
<1> DEFINE x == [call[p] EXCEPT !.at = place]
<1>1. "posts" \in Kinds
  BY DEF Kinds
<1>2. CASE Done(p)
  BY <1>1, <1>2, CallOnlyTyped DEF Done
<1>3. CASE Go(p, place) /\ place \notin {"persist", "send", "send_alert"}
  <2>1. x \in Call /\ x.event = call[p].event /\ x.at = place
    BY CallFields
  <2>2. call' = [call EXCEPT ![p] = x]
    BY <1>3 DEF Go
  <2> HIDE DEF x
  <2>3. call[p] # NoCall => call[p].event <= Len(events)
    BY DEF TypeInv, CallTyped
  <2>4. call[p] # NoCall
    BY NoCallAssumption
  <2>5. QED BY <1>1, <1>3, <2>1, <2>2, <2>3, <2>4, CallOnlyTyped
<1>4. QED BY <1>2, <1>3

\* The event of a call is stored.
LEMMA StoreEventTyped ==
    ASSUME TypeInv, NEW p \in Procs, StoreEvent(p) \/ PublishAlert(p)
    PROVE  TypeInv'
<1>1. /\ call[p] \in Call /\ bus[p].at \in {"idle", "running"}
      /\ call[p].type \in Types /\ "consensus.alert" \in Types
  BY InCallFacts, TypesAssumption DEF StoreEvent, PublishAlert
<1>2. UNCHANGED <<threadVars, flips, otherFlips, started, budget, used>>
  BY DEF StoreEvent, PublishAlert
<1>3. \/ /\ \E type \in Types : AppendEvent(p, type)
         /\ \E place \in Places : call' = [call EXCEPT ![p].event = Len(events) + 1, ![p].at = place]
         /\ UNCHANGED mishaps
      \/ Mishap /\ UNCHANGED busVars /\ (Done(p) \/ Go(p, "check"))
  BY <1>1 DEF StoreEvent, PublishAlert, Places
<1>4. CASE /\ \E type \in Types : AppendEvent(p, type)
           /\ \E place \in Places : call' = [call EXCEPT ![p].event = Len(events) + 1, ![p].at = place]
           /\ UNCHANGED mishaps
  BY <1>1, <1>2, <1>4, StoredEventTyped
<1>5. CASE Mishap /\ UNCHANGED busVars /\ (Done(p) \/ Go(p, "check"))
  <2>1. "check" \in Places /\ "check" \notin {"persist", "send", "send_alert"}
    BY DEF Places
  <2>2. QED BY <1>1, <1>2, <1>5, <2>1, MoveTyped
<1>6. QED BY <1>3, <1>4, <1>5

\* The second check ends the call or goes on to the alert.
LEMMA CheckConsensusTyped ==
    ASSUME TypeInv, NEW p \in Procs, CheckConsensus(p)
    PROVE  TypeInv'
<1>1. call[p] \in Call /\ bus[p].at \in {"idle", "running"}
  BY InCallFacts DEF CheckConsensus
<1>2. "alert" \in Places /\ "alert" \notin {"persist", "send", "send_alert"}
  BY DEF Places
<1>3. /\ Done(p) \/ Go(p, "alert")
      /\ Mishap \/ UNCHANGED mishaps
      /\ UNCHANGED <<busVars, threadVars, flips, otherFlips, started, budget, used>>
  BY DEF CheckConsensus
<1>4. QED BY <1>1, <1>2, <1>3, MoveTyped

\* An event is pushed.
LEMMA SendEventTyped ==
    ASSUME TypeInv, NEW p \in Procs, SendEvent(p)
    PROVE  TypeInv'
<1> DEFINE x == [call[p] EXCEPT !.at = "check"]
<1> USE DEF TypeInv
<1>1. /\ call[p] \in Call /\ call[p] # NoCall /\ bus[p].at \in {"idle", "running"}
      /\ call[p].event \in 1 .. Len(events) /\ Len(events) \in Nat
      /\ Go(p, "check") => call' = [call EXCEPT ![p] = x]
  BY InCallFacts DEF SendEvent
<1>2. /\ BroadcastEvent(p, call[p].event) /\ (Done(p) \/ Go(p, "check"))
      /\ UNCHANGED <<threadVars, flips, otherFlips, started, budget, used, mishaps>>
  BY DEF SendEvent, AfterSend
<1>3. call[p].event \in EventSeqs
  BY <1>1, MaxEventsAssumption DEF EventSeqs, BusTyped, BusTypeOK
<1>4. BusTyped' /\ UNCHANGED <<events, bus>>
  BY <1>2, <1>3, PublishingTyped DEF BroadcastEvent
<1>5. x \in Call /\ x.event = call[p].event /\ x.at = "check"
  BY <1>1, CallFields DEF Places
<1> HIDE DEF x
<1>6. CallTyped'
  <2>1. PICK y \in {x, NoCall} : call' = [call EXCEPT ![p] = y]
    BY <1>1, <1>2 DEF Done
  <2>2. y \in Call \cup {NoCall}
    BY <1>5
  <2>3. y # NoCall => /\ bus'[p].at \in {"idle", "running"}
                      /\ y.event <= Len(events')
                      /\ y.at \in {"persist", "send", "send_alert"} => y.event \in 1 .. Len(events')
    BY <1>1, <1>4, <1>5
  <2>4. /\ \A q \in Procs : q # p /\ call[q] # NoCall => bus'[q].at = bus[q].at
        /\ Len(events') \in Nat /\ Len(events) <= Len(events')
    BY <1>1, <1>4
  <2>5. QED BY <1>1, <2>1, <2>2, <2>3, <2>4, CallSet
<1>7. "posts" \in Kinds
  BY DEF Kinds
<1>8. BudgetTyped'
  BY <1>2, <1>7, SpendTyped
<1>9. ThreadTypeOK' /\ FlipsTyped'
  <2>1. UNCHANGED messages
    BY <1>2 DEF threadVars
  <2>2. QED BY <1>2, <2>1, SameThreadTyped DEF FlipsTyped
<1>10. QED BY <1>4, <1>6, <1>8, <1>9

\* Where a bus changes, its process is in no call, or its call ends with it.
LEMMA BusStepTyped ==
    ASSUME TypeInv, NEW p \in Procs, TrichatBusControl(p) \/ Launch(p) \/ BindSocket(p) \/ Crash(p)
    PROVE  TypeInv'
<1> USE DEF TypeInv
<1>1. Initialize(p) \/ StartBus(p) \/ Listen(p) \/ StopBus(p) \/ (BusCrash(p) /\ UNCHANGED unsent)
  BY DEF TrichatBusControl, Launch, BindSocket, Crash
<1>2. BusTyped'
  BY <1>1, BusControlTyped
<1>3. UNCHANGED events /\ \A q \in Procs : q # p => bus'[q] = bus[q]
  BY <1>1 DEF Initialize, StartBus, Listen, StopBus, BusCrash, BusTyped, BusTypeOK
<1>4. Len(events) \in Nat /\ Len(events') \in Nat /\ Len(events) <= Len(events')
  BY <1>3 DEF BusTyped, BusTypeOK
<1>5. CallTyped'
  <2>1. CASE Crash(p)
    <3>1. call' = [call EXCEPT ![p] = NoCall] /\ NoCall \in Call \cup {NoCall}
      BY <2>1 DEF Crash, Done
    <3>2. QED BY <1>3, <1>4, <3>1, CallSet
  <2>2. CASE TrichatBusControl(p) \/ Launch(p) \/ BindSocket(p)
    <3>1. call[p] = NoCall /\ UNCHANGED call
      BY <2>2 DEF TrichatBusControl, Launch, BindSocket, Ready, Initialize, Listen, CallTyped, callVars
    <3>2. QED BY <1>3, <3>1, CallKept
  <2>3. QED BY <2>1, <2>2
<1>6. ThreadTypeOK' /\ FlipsTyped'
  <2>1. UNCHANGED <<threadVars, messages, flips, otherFlips>>
    BY DEF TrichatBusControl, Launch, BindSocket, Crash, threadVars, callVars
  <2>2. QED BY <2>1, SameThreadTyped DEF FlipsTyped
<1>7. BudgetTyped'
  <2>1. "controls" \in Kinds
    BY DEF Kinds
  <2>2. CASE Launch(p)
    BY <2>2 DEF Launch, BudgetTyped
  <2>3. CASE TrichatBusControl(p) \/ BindSocket(p) \/ Crash(p)
    <3>1. /\ Spend("controls") \/ UNCHANGED used
          /\ Mishap \/ UNCHANGED mishaps
          /\ UNCHANGED <<started, budget>>
      BY <2>3 DEF TrichatBusControl, BindSocket, Crash, callVars
    <3>2. QED BY <2>1, <3>1, SpendTyped
  <2>4. QED BY <2>2, <2>3
<1>8. QED BY <1>2, <1>5, <1>6, <1>7

\* Subscribers come, subscribe, read and go.
LEMMA SubscriberStepTyped ==
    ASSUME TypeInv, NEW c \in Clients, Subscriber(c) \/ ConnectionBreaks(c)
    PROVE  TypeInv'
<1> USE DEF TypeInv
<1>1. Connect(c) \/ Subscribe(c) \/ ReadFrame(c) \/ Disconnect(c)
  BY DEF Subscriber, ConnectionBreaks
<1>2. BusTyped'
  BY <1>1, SubscriberTyped
<1>3. UNCHANGED <<events, bus>>
  BY <1>1 DEF Connect, Subscribe, ReadFrame, Disconnect
<1>4. /\ UNCHANGED <<threadVars, call, flips, otherFlips, started, budget, used>>
      /\ Mishap \/ UNCHANGED mishaps
  BY DEF Subscriber, ConnectionBreaks, callVars
<1>5. CallTyped'
  BY <1>3, <1>4, CallKept
<1>6. "posts" \in Kinds
  BY DEF Kinds
<1>7. BudgetTyped'
  BY <1>4, <1>6, SpendTyped
<1>8. ThreadTypeOK' /\ FlipsTyped'
  <2>1. UNCHANGED messages
    BY <1>4 DEF threadVars
  <2>2. QED BY <1>4, <2>1, SameThreadTyped DEF FlipsTyped
<1>9. QED BY <1>2, <1>5, <1>7, <1>8

\* Messages are deleted.
LEMMA TrichatRetentionTyped ==
    ASSUME TypeInv, NEW p \in Procs, TrichatRetention(p)
    PROVE  TypeInv'
<1> USE DEF TypeInv
<1>1. /\ \E n \in 1 .. MaxMessages : PruneMessages(n)
      /\ Spend("prunes") /\ "prunes" \in Kinds
      /\ UNCHANGED <<busVars, call, flips, otherFlips, started, budget, mishaps>>
  BY DEF TrichatRetention, Kinds
<1>2. ThreadTypeOK' /\ UNCHANGED messages
  BY <1>1, ThreadTyped DEF PruneMessages
<1>3. BusTyped' /\ UNCHANGED <<events, bus>>
  BY <1>1, SameBusTyped DEF busVars
<1>4. CallTyped'
  BY <1>1, <1>3, CallKept
<1>5. BudgetTyped'
  BY <1>1, SpendTyped
<1>6. QED BY <1>1, <1>2, <1>3, <1>4, <1>5 DEF FlipsTyped

\* Every step keeps the types.
LEMMA TypeInvStep ==
    ASSUME TypeInv, [Next]_vars
    PROVE  TypeInv'
<1>1. CASE UNCHANGED vars
  <2>1. UNCHANGED <<busVars, threadVars, events, bus, messages, call, flips, otherFlips, started, budget, used, mishaps>>
    BY <1>1 DEF vars, busVars, threadVars, callVars
  <2>2. CallTyped'
    BY <2>1, CallKept DEF TypeInv
  <2>3. BudgetTyped' /\ FlipsTyped'
    BY <2>1 DEF TypeInv, BudgetTyped, FlipsTyped
  <2>4. BusTyped' /\ ThreadTypeOK'
    BY <2>1, SameBusTyped, SameThreadTyped DEF TypeInv
  <2>5. QED BY <2>2, <2>3, <2>4 DEF TypeInv
<1>2. ASSUME NEW p \in Procs, MessagePost(p) \/ Publish(p) \/ PublishTurnEvent(p) PROVE TypeInv'
  BY <1>2, StartCallTyped
<1>3. ASSUME NEW p \in Procs, PostMessage(p) PROVE TypeInv'
  BY <1>3, PostMessageTyped
<1>4. ASSUME NEW p \in Procs, StoreEvent(p) \/ PublishAlert(p) PROVE TypeInv'
  BY <1>4, StoreEventTyped
<1>5. ASSUME NEW p \in Procs, SendEvent(p) PROVE TypeInv'
  BY <1>5, SendEventTyped
<1>6. ASSUME NEW p \in Procs, CheckConsensus(p) PROVE TypeInv'
  BY <1>6, CheckConsensusTyped
<1>7. ASSUME NEW p \in Procs, PersistMessage(p) PROVE TypeInv'
  BY <1>7, PersistMessageTyped
<1>8. ASSUME NEW p \in Procs, TrichatBusControl(p) \/ Launch(p) \/ BindSocket(p) \/ Crash(p) PROVE TypeInv'
  BY <1>8, BusStepTyped
<1>9. ASSUME NEW p \in Procs, TrichatRetention(p) PROVE TypeInv'
  BY <1>9, TrichatRetentionTyped
<1>10. ASSUME NEW c \in Clients, Subscriber(c) \/ ConnectionBreaks(c) PROVE TypeInv'
  BY <1>10, SubscriberStepTyped
<1>11. QED BY <1>1, <1>2, <1>3, <1>4, <1>5, <1>6, <1>7, <1>8, <1>9, <1>10 DEF Next

\* The types hold in every behaviour.
LEMMA TimelineTypeInv == Spec => []TypeInv
<1>1. QED BY InitTypeInv, TypeInvStep, PTL DEF Spec

\* The rows, the connections, the calls and the counts of a timeline keep their types in
\* every behaviour: no event_seq beyond the last row is pushed, read or owed, only a call
\* on a live process is under way, and no more flips are counted than there are messages.
THEOREM TimelineTypeCorrect == Spec => []TypeOK
<1>1. TypeInv => TypeOK
  BY TypeInvImpliesTypeOK
<1>2. QED BY <1>1, TimelineTypeInv, PTL

-----------------------------------------------------------------------------
(* What a subscriber is owed *)

\* s is what a client has read and what is on its way to it, n the last event_seq, due the
\* events it must get, and pend those its process is about to push.  A subscription is
\* complete but for pend, which is still ahead of it; without one there are no gaps.
Served(s, sub, since, n, due, pend) ==
    /\ Rising(s) /\ \A i \in DOMAIN s : s[i] <= n
    /\ sub => /\ since <= n
              /\ \A i \in DOMAIN s : s[i] <= since
              /\ \A e \in pend : since < e
              /\ \A e \in due : Holds(s, e) \/ e \in pend
    /\ ~sub => \A e \in due, i \in DOMAIN s : e <= s[i] => Holds(s, e)

\* Events that are no longer due, and calls that end without leaving one that is.
LEMMA ServedStill ==
    ASSUME NEW s, NEW sub, NEW since, NEW n, NEW due, NEW pend, NEW due2, NEW pend2,
           Served(s, sub, since, n, due, pend), due2 \subseteq due,
           sub => pend2 \subseteq pend /\ \A e \in pend \ pend2 : e \notin due2
    PROVE  Served(s, sub, since, n, due2, pend2)
BY DEF Served

\* A new event is either about to be pushed to the subscription or not due.
LEMMA ServedStored ==
    ASSUME NEW n \in Nat, NEW s \in Seq(Nat), NEW sub, NEW since, NEW due, NEW pend, NEW due2, NEW pend2,
           Served(s, sub, since, n, due, pend),
           due2 \subseteq due \cup {n + 1},
           sub => /\ since \in Nat
                  /\ pend2 = pend \cup {n + 1} \/ (pend2 = pend /\ n + 1 \notin due2)
    PROVE  Served(s, sub, since, n + 1, due2, pend2)
<1>1. \A i \in DOMAIN s : s[i] \in Nat
  BY LenProperties, ElementOfSeq
<1>2. Rising(s) /\ \A i \in DOMAIN s : s[i] <= n /\ s[i] <= n + 1 /\ ~(n + 1 <= s[i])
  BY <1>1 DEF Served
<1>3. CASE sub
  <2>1. since <= n + 1 /\ since < n + 1 /\ \A i \in DOMAIN s : s[i] <= since
    BY <1>3 DEF Served
  <2>2. \A e \in pend2 : since < e
    BY <1>3, <2>1 DEF Served
  <2>3. \A e \in due2 : Holds(s, e) \/ e \in pend2
    BY <1>3 DEF Served
  <2>4. QED BY <1>2, <1>3, <2>1, <2>2, <2>3 DEF Served
<1>4. CASE ~sub
  <2>1. \A e \in due2, i \in DOMAIN s : e <= s[i] => Holds(s, e)
    BY <1>2, <1>4 DEF Served
  <2>2. QED BY <1>2, <1>4, <2>1 DEF Served
<1>5. QED BY <1>3, <1>4

\* The event of the call is pushed.
LEMMA ServedSent ==
    ASSUME NEW n \in Nat, NEW s \in Seq(Nat), NEW since \in Nat, NEW due, NEW e \in 1 .. n,
           Served(s, TRUE, since, n, due, {e})
    PROVE  Served(Append(s, e), TRUE, e, n, due, {})
<1> DEFINE t == Append(s, e)
<1>1. since < e /\ Rising(s) /\ (\A i \in DOMAIN s : s[i] <= since) /\ \A f \in due : Holds(s, f) \/ f = e
  BY DEF Served
<1>2. \A i \in DOMAIN s : s[i] \in Nat
  BY LenProperties, ElementOfSeq
<1>3. \A i \in DOMAIN s : s[i] < e
  BY <1>1, <1>2
<1>4. Rising(t) /\ \A f : Holds(t, f) <=> Holds(s, f) \/ f = e
  BY <1>1, <1>3, AppendRises
<1> HIDE DEF t
<1>5. \A i \in DOMAIN t : Holds(s, t[i]) \/ t[i] = e
  BY <1>4 DEF Holds
<1>6. \A i \in DOMAIN t : t[i] <= e
  <2> TAKE i \in DOMAIN t
  <2>1. CASE t[i] = e
    BY <2>1
  <2>2. CASE Holds(s, t[i])
    BY <1>2, <1>3, <2>2 DEF Holds
  <2>3. QED BY <1>5, <2>1, <2>2
<1>7. \A i \in DOMAIN t : t[i] <= n
  <2> TAKE i \in DOMAIN t
  <2>1. t[i] \in Nat
    BY <1>2, <1>5 DEF Holds
  <2>2. QED BY <1>6, <2>1
<1>8. \A f \in due : Holds(t, f)
  BY <1>1, <1>4
<1>9. Served(t, TRUE, e, n, due, {})
  BY <1>4, <1>6, <1>7, <1>8 DEF Served
<1>10. QED BY <1>9 DEF t

\* Of a stream that is cut off, the part that arrived has no gaps.
LEMMA ServedDropped ==
    ASSUME NEW n \in Nat, NEW s \in Seq(Nat), NEW t, NEW sub \in BOOLEAN, NEW since,
           NEW due \in SUBSET Nat, NEW pend, NEW k \in Nat, NEW any, NEW pend2,
           Served(s, sub, since, n, due, pend), sub => since \in Nat /\ pend \subseteq Nat,
           DOMAIN t = 1 .. k, DOMAIN t \subseteq DOMAIN s, \A i \in DOMAIN t : t[i] = s[i]
    PROVE  Served(t, FALSE, any, n, due, pend2)
<1>1. \A i \in DOMAIN s : i \in Nat /\ s[i] \in Nat
  BY LenProperties, ElementOfSeq
<1>2. Rising(t) /\ \A i \in DOMAIN t : t[i] <= n
  BY DEF Served, Rising
<1>3. ASSUME NEW e \in due, NEW i \in DOMAIN t, e <= t[i]
      PROVE  Holds(t, e)
  <2>1. s[i] \in Nat /\ e <= s[i] /\ e \in Nat /\ i \in DOMAIN s
    BY <1>1, <1>3
  <2>2. Holds(s, e)
    <3>1. CASE sub
      <4>1. s[i] <= since /\ (Holds(s, e) \/ since < e)
        BY <2>1, <3>1 DEF Served
      <4>2. QED BY <2>1, <3>1, <4>1
    <3>2. CASE ~sub
      BY <2>1, <3>2 DEF Served
    <3>3. QED BY <3>1, <3>2
  <2>3. PICK j \in DOMAIN s : s[j] = e
    BY <2>2 DEF Holds
  <2>4. ~(i < j)
    BY <2>1, <2>3 DEF Served, Rising
  <2>5. j \in Nat /\ i \in Nat /\ i \in 1 .. k /\ DOMAIN s = 1 .. Len(s)
    BY <1>1, <2>1, <2>3, LenProperties
  <2>6. j \in DOMAIN t
    BY <2>3, <2>4, <2>5
  <2>7. QED BY <2>3, <2>6 DEF Holds
<1>4. QED BY <1>2, <1>3 DEF Served

\* A subscription replays what came after the cursor.
LEMMA ServedReplayed ==
    ASSUME NEW n \in Nat, NEW r \in Seq(Nat), NEW any, NEW any2, NEW due \in SUBSET (1 .. n),
           Served(r, FALSE, any, n, due, any2),
           NEW cursor \in Nat, \A i \in DOMAIN r : r[i] <= cursor,
           cursor # 0 => \E i \in DOMAIN r : r[i] = cursor,
           NEW replay \in SUBSET (1 .. n), \A e \in replay : cursor < e,
           NEW due2 \in SUBSET due, \A e \in due2 : cursor < e => e \in replay,
           NEW last \in Nat, \A e \in replay : e <= last, cursor <= last, last = cursor \/ last \in replay
    PROVE  Served(r \o InOrder(replay), TRUE, last, n, due2, {})
<1> DEFINE w == InOrder(replay)
           s == r \o w
<1>1. w \in Seq(replay) /\ Rising(w) /\ \A e \in replay : Holds(w, e)
  BY InOrderRises
<1>2. w \in Seq(Nat) /\ DOMAIN w = 1 .. Len(w) /\ Len(w) \in Nat /\ \A i \in 1 .. Len(w) : w[i] \in replay
  <2>1. replay \subseteq Nat
    OBVIOUS
  <2> HIDE DEF w
  <2>2. QED BY <1>1, <2>1, SeqMonotonic, LenProperties, ElementOfSeq
<1> HIDE DEF w
<1>3. DOMAIN r = 1 .. Len(r) /\ Len(r) \in Nat /\ \A i \in 1 .. Len(r) : r[i] \in Nat
  BY LenProperties, ElementOfSeq
<1>4. /\ s \in Seq(Nat) /\ Len(s) = Len(r) + Len(w)
      /\ \A i \in 1 .. Len(r) + Len(w) : s[i] = IF i <= Len(r) THEN r[i] ELSE w[i - Len(r)]
  BY <1>2, ConcatProperties
<1>5. DOMAIN s = 1 .. Len(r) + Len(w)
  BY <1>4, LenProperties
<1> HIDE DEF s
<1>5a. \A e \in replay : e \in Nat /\ cursor < e
  OBVIOUS
<1>6. \A i \in DOMAIN s : /\ i \in Nat
                          /\ i <= Len(r) => i \in DOMAIN r /\ s[i] = r[i]
                          /\ ~(i <= Len(r)) => i - Len(r) \in DOMAIN w /\ s[i] = w[i - Len(r)]
  <2> TAKE i \in DOMAIN s
  <2>1. i \in Nat /\ i >= 1 /\ i <= Len(r) + Len(w) /\ i \in 1 .. Len(r) + Len(w)
    BY <1>2, <1>3, <1>5
  <2>2. ASSUME i <= Len(r)
        PROVE  i \in DOMAIN r /\ s[i] = r[i]
    BY <1>3, <1>4, <2>1, <2>2
  <2>3. ASSUME ~(i <= Len(r))
        PROVE  i - Len(r) \in DOMAIN w /\ s[i] = w[i - Len(r)]
    <3>1. i - Len(r) \in 1 .. Len(w)
      BY <1>2, <1>3, <2>1, <2>3
    <3>2. QED BY <1>2, <1>4, <2>1, <2>3, <3>1
  <2>4. QED BY <2>1, <2>2, <2>3
<1>7. /\ \A e : Holds(r, e) => Holds(s, e)
      /\ \A e : Holds(w, e) => Holds(s, e)
  <2>1. \A i \in DOMAIN r : i \in DOMAIN s /\ s[i] = r[i]
    BY <1>2, <1>3, <1>4, <1>5
  <2>2. \A i \in DOMAIN w : i + Len(r) \in DOMAIN s /\ s[i + Len(r)] = w[i]
    <3> TAKE i \in DOMAIN w
    <3>1. /\ i + Len(r) \in 1 .. Len(r) + Len(w) /\ ~(i + Len(r) <= Len(r))
          /\ i + Len(r) - Len(r) = i
      BY <1>2, <1>3
    <3> DEFINE j == i + Len(r)
    <3>2. s[j] = w[j - Len(r)]
      <4> HIDE DEF j
      <4>1. j \in 1 .. Len(r) + Len(w) /\ ~(j <= Len(r))
        BY <3>1 DEF j
      <4>2. QED BY <1>4, <4>1
    <3>3. j - Len(r) = i
      BY <1>2, <1>3
    <3>4. s[j] = w[i] /\ j \in DOMAIN s
      <4> HIDE DEF j
      <4>1. j \in 1 .. Len(r) + Len(w)
        BY <3>1 DEF j
      <4>2. QED BY <1>5, <3>2, <3>3, <4>1
    <3>5. QED BY <3>4
  <2>3. QED BY <2>1, <2>2 DEF Holds
<1>8. Rising(r) /\ \A i \in DOMAIN r : r[i] <= n
  BY DEF Served
<1>9. Rising(s)
  <2> SUFFICES ASSUME NEW i \in DOMAIN s, NEW j \in DOMAIN s, i < j
               PROVE  s[i] < s[j]
    BY DEF Rising
  <2>0. i \in Nat /\ j \in Nat
    BY <1>6
  <2>1. CASE j <= Len(r)
    <3>1. i <= Len(r)
      BY <1>3, <2>0, <2>1
    <3>2. i \in DOMAIN r /\ j \in DOMAIN r /\ s[i] = r[i] /\ s[j] = r[j]
      BY <1>6, <2>1, <3>1
    <3>3. QED BY <1>8, <3>2 DEF Rising
  <2>2. CASE i <= Len(r) /\ ~(j <= Len(r))
    <3>1. s[i] = r[i] /\ i \in DOMAIN r
      BY <1>6, <2>2
    <3>2. s[j] \in replay
      BY <1>2, <1>6, <2>2
    <3>3. r[i] \in Nat /\ r[i] <= cursor
      BY <1>3, <3>1
    <3>4. s[j] \in Nat /\ cursor < s[j]
      BY <1>5a, <3>2
    <3>5. QED BY <3>1, <3>3, <3>4
  <2>3. CASE ~(i <= Len(r)) /\ ~(j <= Len(r))
    <3>1. /\ i - Len(r) \in DOMAIN w /\ j - Len(r) \in DOMAIN w
          /\ s[i] = w[i - Len(r)] /\ s[j] = w[j - Len(r)]
      BY <1>6, <2>3
    <3>2. i - Len(r) < j - Len(r)
      BY <1>3, <2>0
    <3>3. QED BY <1>1, <3>1, <3>2 DEF Rising
  <2>4. i <= Len(r) \/ ~(j <= Len(r))
    BY <1>3, <2>0
  <2>5. QED BY <2>1, <2>2, <2>3, <2>4
<1>10. last <= n
  <2>1. cursor <= n
    BY <1>3, <1>8
  <2>2. QED BY <2>1
<1>11. \A i \in DOMAIN s : s[i] \in Nat /\ s[i] <= last
  <2> TAKE i \in DOMAIN s
  <2>1. CASE i \in DOMAIN r /\ s[i] = r[i]
    <3>1. r[i] \in Nat /\ r[i] <= cursor
      BY <1>3, <2>1
    <3>2. QED BY <2>1, <3>1
  <2>2. CASE i - Len(r) \in DOMAIN w /\ s[i] = w[i - Len(r)]
    <3>1. s[i] \in replay
      BY <1>2, <2>2
    <3>2. QED BY <1>5a, <3>1
  <2>3. QED BY <1>6, <2>1, <2>2
<1>12. \A i \in DOMAIN s : s[i] <= n
  BY <1>10, <1>11
<1>13. \A e \in due2 : Holds(s, e)
  <2> TAKE e \in due2
  <2>1. e \in due /\ e \in Nat /\ e # 0
    OBVIOUS
  <2>2. CASE cursor < e
    BY <1>1, <1>7, <2>2
  <2>3. CASE e <= cursor
    <3>1. PICK i \in DOMAIN r : r[i] = cursor
      BY <2>1, <2>3
    <3>2. Holds(r, e)
      BY <2>1, <2>3, <3>1 DEF Served
    <3>3. QED BY <1>7, <3>2
  <2>4. QED BY <2>1, <2>2, <2>3
<1>14. Served(s, TRUE, last, n, due2, {})
  BY <1>9, <1>10, <1>11, <1>12, <1>13 DEF Served
<1>15. QED BY <1>14 DEF s, w

-----------------------------------------------------------------------------
(* The invariant of the streams *)

\* What a client has read, and what is on its way to it.
Stream(c) == IF link[c] = NoLink THEN received[c] ELSE received[c] \o link[c].wire

Subscribed(c) == link[c] # NoLink /\ link[c].subscribed

Due(c) == {e \in 1 .. Len(events) : SubscriptionMatches(c, e) /\ e \notin Excused(c)}

ClientInv(c) ==
    /\ Served(Stream(c), Subscribed(c), link[c].since, Len(events), Due(c), Pending(link[c].to))
    /\ link[c] # NoLink /\ ~link[c].subscribed => link[c].wire = <<>>

StreamInv == \A c \in Clients : ClientInv(c)

\* Streams are sequences of event_seqs, and what was read is their beginning.
LEMMA StreamFacts ==
    ASSUME TypeInv, NEW c \in Clients
    PROVE  /\ received[c] \in Seq(EventSeqs) /\ Stream(c) \in Seq(EventSeqs) /\ Stream(c) \in Seq(Nat)
           /\ Len(events) \in Nat /\ Len(events) <= MaxEvents
           /\ Due(c) \in SUBSET (1 .. Len(events)) /\ Due(c) \in SUBSET Nat
           /\ Subscribed(c) \in BOOLEAN
           /\ link[c] \in Link \cup {NoLink}
           /\ link[c] # NoLink => /\ link[c].to \in Procs /\ link[c].subscribed \in BOOLEAN
                                  /\ link[c].since \in Nat /\ link[c].wire \in Seq(EventSeqs)
                                  /\ Stream(c) = received[c] \o link[c].wire
                                  /\ Pending(link[c].to) \subseteq Nat
           /\ link[c] = NoLink => Stream(c) = received[c]
<1>1. /\ received[c] \in Seq(EventSeqs) /\ Len(events) \in Nat /\ Len(events) <= MaxEvents
      /\ link[c] \in Link \cup {NoLink}
  BY DEF TypeInv, BusTyped, BusTypeOK
<1>2. link[c] # NoLink => /\ link[c].to \in Procs /\ link[c].subscribed \in BOOLEAN
                          /\ link[c].since \in 0 .. MaxEvents /\ link[c].wire \in Seq(EventSeqs)
  BY <1>1 DEF Link
<1>3. link[c] # NoLink => link[c].since \in Nat
  BY <1>2, MaxEventsAssumption
<1>4. link[c] # NoLink => Pending(link[c].to) \subseteq Nat
  BY <1>1, <1>2 DEF TypeInv, CallTyped
<1>5. Stream(c) \in Seq(EventSeqs)
  BY <1>1, <1>2, ConcatProperties DEF Stream
<1>6. EventSeqs \subseteq Nat
  BY MaxEventsAssumption DEF EventSeqs
<1>7. Stream(c) \in Seq(Nat)
  BY <1>5, <1>6, SeqMonotonic
<1>8. Due(c) \in SUBSET (1 .. Len(events)) /\ Due(c) \in SUBSET Nat
  BY <1>1 DEF Due
<1>9. Subscribed(c) \in BOOLEAN
  BY <1>2 DEF Subscribed
<1>10. QED BY <1>1, <1>2, <1>3, <1>4, <1>5, <1>7, <1>8, <1>9 DEF Stream

\* A client whose link and reading a step leaves alone, as calls end that owe it nothing.
LEMMA ClientStill ==
    ASSUME TypeInv, NEW c \in Clients, ClientInv(c),
           received'[c] = received[c], link'[c] = link[c], Len(events') = Len(events), Due(c)' \subseteq Due(c),
           \A p \in Procs : Subscribed(c) /\ link[c].to = p =>
               /\ \A e : e \in Pending(p)' => e \in Pending(p)
               /\ \A e : e \in Pending(p) /\ e \notin Pending(p)' => e \notin Due(c)'
    PROVE  ClientInv(c)'
<1>1. PICK p : p = link[c].to
  OBVIOUS
<1>1a. Subscribed(c) => p \in Procs
  BY <1>1, StreamFacts DEF Subscribed
<1>2. /\ Stream(c)' = Stream(c) /\ Subscribed(c)' = Subscribed(c) /\ link'[c].since = link[c].since
      /\ Pending(link[c].to)' = Pending(p)' /\ Pending(link[c].to) = Pending(p)
  BY <1>1 DEF Stream, Subscribed, Pending
<1>3. Subscribed(c) => Pending(p)' \subseteq Pending(p) /\ \A e \in Pending(p) \ Pending(p)' : e \notin Due(c)'
  BY <1>1, <1>1a
<1>4. Served(Stream(c), Subscribed(c), link[c].since, Len(events), Due(c), Pending(p))
  BY <1>2 DEF ClientInv
<1>5. Served(Stream(c), Subscribed(c), link[c].since, Len(events), Due(c)', Pending(p)')
  BY <1>3, <1>4, ServedStill
<1>6. Served(Stream(c), Subscribed(c), link[c].since, Len(events), Due(c), Pending(link[c].to))'
  BY <1>2, <1>5
<1>7. QED BY <1>6 DEF ClientInv

\* Nothing new is due while no event is stored.
LEMMA DueShrinks ==
    ASSUME UNCHANGED events, NEW c \in Clients, Excused(c) \subseteq Excused(c)'
    PROVE  Due(c)' \subseteq Due(c)
BY DEF Due, SubscriptionMatches

\* A step that leaves the bus alone, and ends no call before its push but one it notes as unsent.
LEMMA QuietStep ==
    ASSUME TypeInv, StreamInv, UNCHANGED <<events, link, received, cut, foreign>>, unsent \subseteq unsent',
           \A p \in Procs : \A e : e \in Pending(p)' => e \in Pending(p),
           \A p \in Procs : \A e : e \in Pending(p) /\ e \notin Pending(p)' => e \in unsent'
    PROVE  StreamInv'
<1> SUFFICES ASSUME NEW c \in Clients PROVE ClientInv(c)'
  BY DEF StreamInv
<1>1. ClientInv(c)
  BY DEF StreamInv
<1>2. Excused(c) \subseteq Excused(c)' /\ unsent' \subseteq Excused(c)'
  BY DEF Excused
<1>3. Due(c)' \subseteq Due(c)
  BY <1>2, DueShrinks
<1>4. \A e \in Due(c)' : e \notin unsent'
  BY <1>2 DEF Due
<1>5. received'[c] = received[c] /\ link'[c] = link[c] /\ Len(events') = Len(events)
  OBVIOUS
<1>6. QED BY <1>1, <1>3, <1>4, <1>5, ClientStill

\* Connections end, and the calls of processes nobody else listens to.
LEMMA ClientDropped ==
    ASSUME TypeInv, NEW c \in Clients, ClientInv(c), link[c] # NoLink, link'[c] = NoLink,
           NEW n \in 0 .. Len(link[c].wire), received'[c] = received[c] \o SubSeq(link[c].wire, 1, n),
           UNCHANGED <<events, cut, foreign, unsent>>
    PROVE  ClientInv(c)'
<1> DEFINE s == received[c] \o link[c].wire
           t == received[c] \o SubSeq(link[c].wire, 1, n)
<1>1. /\ received[c] \in Seq(EventSeqs) /\ link[c].wire \in Seq(EventSeqs) /\ Stream(c) = s
      /\ s \in Seq(Nat) /\ Len(events) \in Nat /\ Due(c) \in SUBSET Nat /\ Subscribed(c) \in BOOLEAN
      /\ link[c].since \in Nat /\ Pending(link[c].to) \subseteq Nat
  BY StreamFacts
<1>2. /\ DOMAIN t \subseteq DOMAIN s /\ DOMAIN t = 1 .. Len(t) /\ Len(t) \in Nat
      /\ \A i \in DOMAIN t : t[i] = s[i]
  <2> DEFINE r == received[c]
             w == link[c].wire
  <2>1. r \in Seq(EventSeqs) /\ w \in Seq(EventSeqs) /\ n \in 0 .. Len(w)
    BY <1>1
  <2> HIDE DEF r, w
  <2>2. LET tt == r \o SubSeq(w, 1, n)
            ss == r \o w
        IN  /\ DOMAIN tt \subseteq DOMAIN ss
            /\ DOMAIN tt = 1 .. Len(tt) /\ Len(tt) \in Nat
            /\ \A i \in DOMAIN tt : tt[i] = ss[i]
    BY <2>1, PrefixOfStream
  <2>3. QED BY <2>2 DEF r, w
<1>3. Stream(c)' = t /\ ~Subscribed(c)'
  BY DEF Stream, Subscribed
<1>4. Due(c)' \subseteq Due(c) /\ Due(c) \subseteq Due(c)'
  BY DEF Due, Excused, SubscriptionMatches
<1>5. Served(s, Subscribed(c), link[c].since, Len(events), Due(c), Pending(link[c].to))
  BY <1>1 DEF ClientInv
<1> HIDE DEF s, t
<1>6. \A any, pend2 : Served(t, FALSE, any, Len(events), Due(c), pend2)
  <2> DEFINE sub == Subscribed(c)
             since == link[c].since
             pend == Pending(link[c].to)
             due == Due(c)
             n2 == Len(events)
             k == Len(t)
  <2>1. /\ n2 \in Nat /\ s \in Seq(Nat) /\ sub \in BOOLEAN /\ due \in SUBSET Nat /\ k \in Nat
        /\ sub => since \in Nat /\ pend \subseteq Nat
        /\ DOMAIN t = 1 .. k /\ DOMAIN t \subseteq DOMAIN s /\ \A i \in DOMAIN t : t[i] = s[i]
        /\ Served(s, sub, since, n2, due, pend)
    BY <1>1, <1>2, <1>5
  <2> HIDE DEF sub, since, pend, due, n2, k
  <2>2. \A any, pend2 : Served(t, FALSE, any, n2, due, pend2)
    BY <2>1, ServedDropped
  <2>3. QED BY <2>2 DEF n2, due
<1>7. Due(c)' = Due(c) /\ Subscribed(c)' = FALSE
  BY <1>3, <1>4 DEF Subscribed
<1>8. Served(Stream(c), Subscribed(c), link[c].since, Len(events), Due(c), Pending(link[c].to))'
  BY <1>3, <1>6, <1>7
<1>9. QED BY <1>8 DEF ClientInv

\* Connections end and no event is stored.
LEMMA DropStep ==
    ASSUME TypeInv, StreamInv, NEW cs \in SUBSET Clients, \A c \in cs : link[c] # NoLink, Drop(cs),
           UNCHANGED <<events, cut, foreign, unsent>>,
           \A c \in Clients \ cs, p \in Procs : link[c] # NoLink /\ link[c].to = p =>
               \A e : e \in Pending(p)' <=> e \in Pending(p)
    PROVE  StreamInv'
<1>0. /\ \A c \in Clients \ cs : link'[c] = link[c] /\ received'[c] = received[c]
      /\ \A c \in cs : /\ link'[c] = NoLink
                       /\ \E n \in 0 .. Len(link[c].wire) :
                             received'[c] = received[c] \o SubSeq(link[c].wire, 1, n)
  <2>1. BusTypeOK
    BY DEF TypeInv, BusTyped
  <2>2. QED BY <2>1, DropEffect
<1> SUFFICES ASSUME NEW c \in Clients PROVE ClientInv(c)'
  BY DEF StreamInv
<1>1. ClientInv(c)
  BY DEF StreamInv
<1>2. CASE c \in cs
  <2>1. /\ link'[c] = NoLink
        /\ \E n \in 0 .. Len(link[c].wire) : received'[c] = received[c] \o SubSeq(link[c].wire, 1, n)
    BY <1>0, <1>2
  <2>2. QED BY <1>1, <1>2, <2>1, ClientDropped
<1>3. CASE c \notin cs
  <2>1. link'[c] = link[c] /\ received'[c] = received[c]
    BY <1>0, <1>3
  <2>2. Due(c)' \subseteq Due(c)
    BY DueShrinks DEF Excused
  <2>3. \A p \in Procs : Subscribed(c) /\ link[c].to = p =>
               /\ \A e : e \in Pending(p)' => e \in Pending(p)
               /\ \A e : e \in Pending(p) /\ e \notin Pending(p)' => e \notin Due(c)'
    BY <1>3 DEF Subscribed
  <2>4. QED BY <1>1, <2>1, <2>2, <2>3, ClientStill
<1>4. QED BY <1>2, <1>3

\* An event is stored: the subscriptions of this process wait for its push, for the others it
\* is foreign, and who has none yet has read nothing as late.
LEMMA StoredStep ==
    ASSUME TypeInv, StreamInv, NEW p \in Procs, NEW type, AppendEvent(p, type),
           Pending(p) = {}, Pending(p)' = {Len(events) + 1},
           \A q \in Procs : q # p => \A e : e \in Pending(q)' <=> e \in Pending(q)
    PROVE  StreamInv'
<1> SUFFICES ASSUME NEW c \in Clients PROVE ClientInv(c)'
  BY DEF StreamInv
<1> DEFINE n == Len(events)
<1>1. /\ Stream(c) \in Seq(Nat) /\ n \in Nat /\ link[c] \in Link \cup {NoLink}
      /\ link[c] # NoLink => link[c].since \in Nat
  BY StreamFacts
<1>2. /\ events' = Append(events, [type |-> type, by |-> p])
      /\ foreign' = [k \in Clients |->
             IF link[k] # NoLink /\ link[k].to # p /\ link[k].subscribed THEN foreign[k] \cup {n + 1} ELSE foreign[k]]
      /\ UNCHANGED <<path, bus, link, received, cut, unsent>>
  BY DEF AppendEvent
<1>3. Len(events') = n + 1 /\ \A e \in 1 .. n : events'[e] = events[e]
  <2>1. events \in Seq([type : Types, by : Procs])
    BY DEF TypeInv, BusTyped, BusTypeOK
  <2>2. QED BY <1>2, <2>1
<1>4. Excused(c) \subseteq Excused(c)'
  BY <1>2 DEF Excused
<1>5. Due(c)' \subseteq Due(c) \cup {n + 1}
  <2>1. \A e \in 1 .. n + 1 : e \in 1 .. n \/ e = n + 1
    BY <1>1
  <2>2. \A e \in 1 .. n : SubscriptionMatches(c, e)' => SubscriptionMatches(c, e)
    BY <1>3 DEF SubscriptionMatches
  <2> HIDE DEF n
  <2>3. Len(events') = n + 1 /\ Len(events) = n
    BY <1>3 DEF n
  <2>4. QED BY <1>4, <2>1, <2>2, <2>3 DEF Due
<1>6. PICK q : q = link[c].to
  OBVIOUS
<1>1a. Subscribed(c) => q \in Procs
  BY <1>6, StreamFacts DEF Subscribed
<1>7. /\ Stream(c)' = Stream(c) /\ Subscribed(c)' = Subscribed(c) /\ link'[c].since = link[c].since
      /\ Pending(link[c].to)' = Pending(q)' /\ Pending(link[c].to) = Pending(q)
  BY <1>2, <1>6 DEF Stream, Subscribed, Pending
<1>8. Subscribed(c) => /\ link[c].since \in Nat
                       /\ \/ Pending(q)' = Pending(q) \cup {n + 1}
                          \/ Pending(q)' = Pending(q) /\ n + 1 \notin Due(c)'
  <2>1. CASE q = p
    BY <1>1, <2>1 DEF Subscribed
  <2>2. CASE q # p
    <3>1. Subscribed(c) => n + 1 \in Excused(c)'
      BY <1>2, <1>6, <2>2 DEF Subscribed, Excused
    <3>2. Subscribed(c) => Pending(q)' = Pending(q)
      BY <1>1a, <2>2
    <3>3. QED BY <1>1, <3>1, <3>2 DEF Subscribed, Due
  <2>3. QED BY <2>1, <2>2
<1>9. Served(Stream(c), Subscribed(c), link[c].since, n, Due(c), Pending(q))
  BY <1>7 DEF ClientInv, StreamInv
<1>10. Served(Stream(c), Subscribed(c), link[c].since, n + 1, Due(c)', Pending(q)')
  <2> HIDE DEF n
  <2>1. QED BY <1>1, <1>5, <1>8, <1>9, ServedStored
<1>11. Served(Stream(c), Subscribed(c), link[c].since, Len(events), Due(c), Pending(link[c].to))'
  BY <1>3, <1>7, <1>10
<1>12. link'[c] # NoLink /\ ~link'[c].subscribed => link'[c].wire = <<>>
  BY <1>2 DEF StreamInv, ClientInv
<1>13. QED BY <1>11, <1>12 DEF ClientInv

\* The event of the call of p is pushed to the subscriptions of p, and of no other process.
LEMMA SentStep ==
    ASSUME TypeInv, StreamInv, NEW p \in Procs, NEW e \in EventSeqs, BroadcastEvent(p, e),
           Pending(p) = {e}, Pending(p)' = {},
           \A q \in Procs : q # p => \A f : f \in Pending(q)' <=> f \in Pending(q)
    PROVE  StreamInv'
<1> SUFFICES ASSUME NEW c \in Clients PROVE ClientInv(c)'
  BY DEF StreamInv
<1> DEFINE l == [link[c] EXCEPT !.wire = Append(link[c].wire, e), !.since = e]
<1>1. ClientInv(c)
  BY DEF StreamInv
<1>2. /\ Subscribed(c) /\ link[c].to = p /\ SubscriptionMatches(c, e) /\ e > link[c].since => link'[c] = l
      /\ ~(Subscribed(c) /\ link[c].to = p /\ SubscriptionMatches(c, e)) => link'[c] = link[c]
      /\ UNCHANGED <<events, path, bus, received, cut, foreign, unsent>>
  BY DEF BroadcastEvent, ClientsOf, Subscribed
<1>3. Due(c)' = Due(c)
  BY <1>2 DEF Due, Excused, SubscriptionMatches
<1>4. /\ received[c] \in Seq(EventSeqs) /\ Stream(c) \in Seq(Nat) /\ Len(events) \in Nat
      /\ link[c] \in Link \cup {NoLink}
      /\ link[c] # NoLink => /\ link[c].since \in Nat /\ link[c].wire \in Seq(EventSeqs)
                             /\ Stream(c) = received[c] \o link[c].wire
  BY StreamFacts
<1>5. e \in 1 .. Len(events)
  BY DEF TypeInv, CallTyped
<1>6. CASE ~Subscribed(c) \/ link[c].to # p
  <2>1. link'[c] = link[c]
    BY <1>2, <1>6
  <2>2. \A q \in Procs : Subscribed(c) /\ link[c].to = q =>
               /\ \A f : f \in Pending(q)' => f \in Pending(q)
               /\ \A f : f \in Pending(q) /\ f \notin Pending(q)' => f \notin Due(c)'
    BY <1>6
  <2>3. received'[c] = received[c] /\ Len(events') = Len(events) /\ Due(c)' \subseteq Due(c)
    BY <1>2, <1>3
  <2>4. QED BY <1>1, <2>1, <2>2, <2>3, ClientStill
<1>7. CASE Subscribed(c) /\ link[c].to = p
  <2>1. Served(Stream(c), TRUE, link[c].since, Len(events), Due(c), {e})
    BY <1>1, <1>7 DEF ClientInv, Subscribed
  <2>2. e > link[c].since
    BY <2>1, <1>4, <1>7 DEF Served, Subscribed
  <2>3. CASE SubscriptionMatches(c, e)
    <3>1. link'[c] = l /\ link[c] # NoLink /\ link[c] \in Link
      <4>1. link[c] # NoLink /\ link[c] \in Link
        BY <1>4, <1>7 DEF Subscribed
      <4> HIDE DEF l
      <4>2. link'[c] = l
        BY <1>2, <1>7, <2>2, <2>3
      <4>3. QED BY <4>1, <4>2
    <3>2. /\ l.to = p /\ l.subscribed = TRUE /\ l.since = e /\ l.wire = Append(link[c].wire, e) /\ l \in Link
      <4>1. Append(link[c].wire, e) \in Seq(EventSeqs)
        <5>1. link[c].wire \in Seq(EventSeqs)
          BY <1>4, <3>1
        <5>2. QED BY <5>1
      <4>2. e \in 0 .. MaxEvents
        BY MaxEventsAssumption DEF EventSeqs
      <4>3. QED BY <1>7, <3>1, <4>1, <4>2 DEF Link, Subscribed
    <3> HIDE DEF l
    <3>3. l # NoLink
      BY <3>2, NoLinkAssumption
    <3>4. Stream(c)' = Append(Stream(c), e)
      <4> DEFINE r == received[c]
                 w == link[c].wire
      <4>1. r \in Seq(EventSeqs) /\ w \in Seq(EventSeqs) /\ Stream(c) = r \o w
        BY <1>4, <3>1
      <4>2. Stream(c)' = r \o Append(w, e)
        BY <1>2, <3>1, <3>2, <3>3 DEF Stream
      <4> HIDE DEF r, w
      <4>3. r \o Append(w, e) = Append(r \o w, e)
        BY <4>1, SendExtendsStream
      <4>4. QED BY <4>1, <4>2, <4>3
    <3>5. Subscribed(c)' = TRUE /\ link'[c].since = e /\ Pending(link[c].to)' = Pending(p)'
      BY <3>1, <3>2, <3>3 DEF Subscribed, Pending
    <3>6. Served(Append(Stream(c), e), TRUE, e, Len(events), Due(c), {})
      <4> DEFINE n == Len(events)
                 s == Stream(c)
                 since == link[c].since
      <4>1. n \in Nat /\ s \in Seq(Nat) /\ since \in Nat /\ e \in 1 .. n /\ Served(s, TRUE, since, n, Due(c), {e})
        BY <1>4, <1>5, <2>1, <3>1
      <4> HIDE DEF n, s, since
      <4>2. Served(Append(s, e), TRUE, e, n, Due(c), {})
        BY <4>1, ServedSent
      <4>3. QED BY <4>2 DEF n, s
    <3>7. Served(Stream(c), Subscribed(c), link[c].since, Len(events), Due(c), Pending(link[c].to))'
      BY <1>2, <1>3, <3>4, <3>5, <3>6
    <3>8. ~(link'[c] # NoLink /\ ~link'[c].subscribed)
      BY <3>1, <3>2
    <3>9. QED BY <3>7, <3>8 DEF ClientInv
  <2>4. CASE ~SubscriptionMatches(c, e)
    <3>1. link'[c] = link[c]
      BY <1>2, <2>4
    <3>2. e \notin Due(c)'
      BY <1>3, <2>4 DEF Due
    <3>3. \A q \in Procs : Subscribed(c) /\ link[c].to = q =>
               /\ \A f : f \in Pending(q)' => f \in Pending(q)
               /\ \A f : f \in Pending(q) /\ f \notin Pending(q)' => f \notin Due(c)'
      BY <1>7, <3>2
    <3>4. received'[c] = received[c] /\ Len(events') = Len(events) /\ Due(c)' \subseteq Due(c)
      BY <1>2, <1>3
    <3>5. QED BY <1>1, <3>1, <3>3, <3>4, ClientStill
  <2>5. QED BY <2>3, <2>4
<1>8. QED BY <1>6, <1>7 DEF Subscribed

\* A connection that is new, or whose next frame is read, leaves the stream what it was.
LEMMA ClientMoved ==
    ASSUME NEW c \in Clients, ClientInv(c), Stream(c)' = Stream(c), Subscribed(c)' = Subscribed(c),
           Subscribed(c) => link'[c].since = link[c].since /\ link'[c].to = link[c].to,
           link'[c] # NoLink /\ ~link'[c].subscribed => link'[c].wire = <<>>,
           UNCHANGED <<events, cut, foreign, unsent, call>>
    PROVE  ClientInv(c)'
<1>1. Due(c)' = Due(c)
  BY DEF Due, Excused, SubscriptionMatches
<1>2. Subscribed(c) => Pending(link[c].to)' = Pending(link[c].to)
  BY DEF Pending
<1>3. QED BY <1>1, <1>2 DEF ClientInv, Served

\* A client subscribes.
LEMMA SubscribedStep ==
    ASSUME TypeInv, NEW c \in Clients, ClientInv(c), Subscribe(c), Pending(link[c].to) = {}, UNCHANGED call
    PROVE  ClientInv(c)'
<1> DEFINE n == Len(events)
           r == received[c]
           due == Due(c)
           cursor == Cursor(c)
<1>1. /\ link[c] # NoLink /\ ~link[c].subscribed /\ UNCHANGED <<events, path, bus, received, foreign, unsent>>
  BY DEF Subscribe
<1>2. PICK replay \in SUBSET Newer(c, cursor), last \in 0 .. MaxEvents :
              /\ last = cursor \/ last \in replay
              /\ cursor <= last
              /\ \A e \in replay : e <= last
              /\ InOrder(replay) \in Seq(EventSeqs)
              /\ link' = [link EXCEPT ![c] = [to |-> link[c].to, subscribed |-> TRUE, since |-> last,
                                              wire |-> InOrder(replay)]]
              /\ cut' = [cut EXCEPT ![c] = cut[c] \cup (Newer(c, cursor) \ replay)]
  BY SubscribeEffect DEF TypeInv, BusTyped
<1> DEFINE l == [to |-> link[c].to, subscribed |-> TRUE, since |-> last, wire |-> InOrder(replay)]
<1>3. /\ r \in Seq(EventSeqs) /\ n \in Nat /\ due \in SUBSET (1 .. n) /\ link[c].to \in Procs
      /\ Stream(c) = received[c] \o link[c].wire /\ Stream(c) \in Seq(Nat)
  BY <1>1, StreamFacts
<1>4. Stream(c) = r /\ r \in Seq(Nat)
  <2>1. link[c].wire = <<>>
    BY <1>1 DEF ClientInv
  <2>2. r \o <<>> = r
    BY <1>3, ConcatEmptySeq
  <2>3. QED BY <1>3, <2>1, <2>2
<1>5. Served(r, FALSE, link[c].since, n, due, {})
  <2>1. Served(Stream(c), Subscribed(c), link[c].since, Len(events), Due(c), Pending(link[c].to))
    BY DEF ClientInv
  <2>2. Subscribed(c) = FALSE
    BY <1>1 DEF Subscribed
  <2>3. QED BY <1>4, <2>1, <2>2
<1>6. /\ cursor \in Nat /\ \A i \in DOMAIN r : r[i] <= cursor
      /\ cursor # 0 => \E i \in DOMAIN r : r[i] = cursor
  BY <1>3, CursorIsGreatest, MaxEventsAssumption
<1>7. replay \in SUBSET (1 .. n) /\ (\A e \in replay : cursor < e) /\ last \in Nat
  BY <1>2, <1>3, <1>6, MaxEventsAssumption DEF Newer
<1>8. Due(c)' \in SUBSET due /\ \A e \in Due(c)' : cursor < e => e \in replay
  <2>1. Excused(c)' = Excused(c) \cup (Newer(c, cursor) \ replay)
    <3>1. cut'[c] = cut[c] \cup (Newer(c, cursor) \ replay)
      BY <1>2 DEF TypeInv, BusTyped, BusTypeOK
    <3> HIDE DEF cursor
    <3>2. QED BY <1>1, <3>1 DEF Excused
  <2>2. Due(c)' \subseteq due
    <3>1. Excused(c) \subseteq Excused(c)'
      BY <2>1
    <3>2. QED BY <1>1, <3>1, DueShrinks
  <2>3. ASSUME NEW e \in Due(c)', cursor < e
        PROVE  e \in replay
    <3>1. e \in 1 .. Len(events) /\ SubscriptionMatches(c, e) /\ e \notin Excused(c)'
      BY <1>1, <2>3 DEF Due, SubscriptionMatches
    <3>2. e \in Newer(c, cursor)
      BY <1>3, <1>6, <2>3, <3>1 DEF Newer
    <3> HIDE DEF cursor
    <3>3. QED BY <2>1, <3>1, <3>2
  <2>4. QED BY <2>2, <2>3
<1>9. Served(r \o InOrder(replay), TRUE, last, n, Due(c)', {})
  <2> DEFINE any == link[c].since
             due2 == Due(c)'
  <2>1. /\ Served(r, FALSE, any, n, due, {}) /\ r \in Seq(Nat) /\ n \in Nat /\ due \in SUBSET (1 .. n)
        /\ due2 \in SUBSET due /\ \A e \in due2 : cursor < e => e \in replay
    BY <1>3, <1>4, <1>5, <1>8
  <2> HIDE DEF n, r, due, cursor, any, due2
  <2>2. Served(r \o InOrder(replay), TRUE, last, n, due2, {})
    BY <1>2, <1>6, <1>7, <2>1, ServedReplayed
  <2>3. QED BY <2>2 DEF due2
<1>10. l \in Link /\ link' = [link EXCEPT ![c] = l]
  BY <1>2, <1>3 DEF Link
<1>11. l.to = link[c].to /\ l.subscribed = TRUE /\ l.since = last /\ l.wire = InOrder(replay)
  OBVIOUS
<1> HIDE DEF l
<1>12. link'[c] = l /\ l # NoLink
  BY <1>10, NoLinkAssumption DEF TypeInv, BusTyped, BusTypeOK
<1>13. Stream(c)' = r \o InOrder(replay) /\ Subscribed(c)' = TRUE /\ link'[c].since = last
  BY <1>1, <1>11, <1>12 DEF Stream, Subscribed
<1>14. Pending(link[c].to)' = {}
  BY <1>11, <1>12 DEF Pending
<1>15. Served(Stream(c), Subscribed(c), link[c].since, Len(events), Due(c), Pending(link[c].to))'
  BY <1>1, <1>9, <1>13, <1>14
<1>16. ~(link'[c] # NoLink /\ ~link'[c].subscribed)
  BY <1>11, <1>12
<1>17. QED BY <1>15, <1>16 DEF ClientInv

\* A call of p moves on or ends, and no event waits for its push in between.
LEMMA PendingKept ==
    ASSUME TypeInv, NEW p \in Procs, NEW x, call' = [call EXCEPT ![p] = x]
    PROVE  /\ \A q \in Procs : q # p => \A e : e \in Pending(q)' <=> e \in Pending(q)
           /\ call'[p] = x
           /\ x = NoCall \/ x.at \notin {"persist", "send", "send_alert"} => Pending(p)' = {}
           /\ x # NoCall /\ x.at \in {"persist", "send", "send_alert"} => Pending(p)' = {x.event}
           /\ call[p] = NoCall \/ call[p].at \notin {"persist", "send", "send_alert"} => Pending(p) = {}
           /\ call[p] # NoCall /\ call[p].at \in {"persist", "send", "send_alert"} => Pending(p) = {call[p].event}
BY DEF TypeInv, CallTyped, Pending

\* The calls that start, the first check, the messages that are posted, and failed statements.
LEMMA QuietCalls ==
    ASSUME TypeInv, StreamInv, NEW p \in Procs,
           \/ MessagePost(p) \/ Publish(p) \/ PublishTurnEvent(p) \/ PostMessage(p) \/ CheckConsensus(p)
           \/ UNCHANGED busVars /\ (StoreEvent(p) \/ PublishAlert(p))
    PROVE  StreamInv'
<1>1. UNCHANGED <<events, link, received, cut, foreign, unsent>>
  BY DEF MessagePost, Publish, PublishTurnEvent, PostMessage, CheckConsensus, busVars
<1>2. call[p] = NoCall \/ call[p].at \in {"append", "store", "check", "alert"}
  BY DEF MessagePost, Publish, PublishTurnEvent, PostMessage, CheckConsensus, StoreEvent, PublishAlert, Ready, InCall
<1>3. \E x : /\ call' = [call EXCEPT ![p] = x]
             /\ x = NoCall \/ x.at \notin {"persist", "send", "send_alert"}
  <2>1. CASE MessagePost(p)
    <3>1. PICK m, before :
            call' = [call EXCEPT ![p] =
                [tool |-> "post", at |-> "append", message |-> m, type |-> "trichat.message_post",
                 persist |-> "no", event |-> 0, before |-> before]]
      BY <2>1 DEF MessagePost
    <3> DEFINE x == [tool |-> "post", at |-> "append", message |-> m, type |-> "trichat.message_post",
                     persist |-> "no", event |-> 0, before |-> before]
    <3>2. x.at = "append" /\ call' = [call EXCEPT ![p] = x]
      BY <3>1
    <3> HIDE DEF x
    <3>3. QED BY <3>2
  <2>2. CASE Publish(p) \/ PublishTurnEvent(p)
    <3>1. PICK m, type, persist : call' = [call EXCEPT ![p] = PublishCall(m, type, persist)]
      BY <2>2 DEF Publish, PublishTurnEvent
    <3>2. PublishCall(m, type, persist).at = "store"
      BY DEF PublishCall
    <3>3. QED BY <3>1, <3>2
  <2>3. ASSUME call[p] # NoCall, NEW place \in {"store", "check", "alert"}, Go(p, place)
        PROVE  \E x : call' = [call EXCEPT ![p] = x] /\ x.at \notin {"persist", "send", "send_alert"}
    <3> DEFINE x == [call[p] EXCEPT !.at = place]
    <3>1. x.at = place /\ call' = [call EXCEPT ![p] = x]
      BY <2>3, CallFields DEF Go, TypeInv, CallTyped, Places
    <3> HIDE DEF x
    <3>2. QED BY <3>1
  <2>4. CASE PostMessage(p) \/ CheckConsensus(p)
    BY <2>3, <2>4 DEF PostMessage, CheckConsensus, Done, InCall
  <2>5. CASE UNCHANGED busVars /\ (StoreEvent(p) \/ PublishAlert(p))
    <3>1. Len(events') = Len(events) /\ events \in Seq([type : Types, by : Procs])
      BY <1>1 DEF TypeInv, BusTyped, BusTypeOK
    <3>2. \A type : ~AppendEvent(p, type)
      BY <1>1, <3>1 DEF AppendEvent
    <3>3. QED BY <2>3, <2>5, <3>2 DEF StoreEvent, PublishAlert, Done, InCall
  <2>6. QED BY <2>1, <2>2, <2>4, <2>5
<1>4. \A q \in Procs : \A e : e \in Pending(q)' <=> e \in Pending(q)
  BY <1>2, <1>3, PendingKept
<1>5. QED BY <1>1, <1>4, QuietStep

\* The message of a bus event is committed, or its event is excused.
LEMMA PersistMessageStream ==
    ASSUME TypeInv, StreamInv, NEW p \in Procs, PersistMessage(p)
    PROVE  StreamInv'
<1>1. UNCHANGED <<events, link, received, cut, foreign>>
  BY DEF PersistMessage
<1>2. /\ call[p] \in Call /\ call[p] # NoCall /\ call[p].at = "persist"
  BY InCallFacts DEF PersistMessage
<1>3. Pending(p) = {call[p].event}
  BY <1>2 DEF Pending
<1>4. CASE Go(p, "send") /\ UNCHANGED unsent
  <2> DEFINE x == [call[p] EXCEPT !.at = "send"]
  <2>1. x \in Call /\ x.at = "send" /\ x.event = call[p].event /\ call' = [call EXCEPT ![p] = x]
    BY <1>2, <1>4, CallFields DEF Go, Places
  <2>2. x # NoCall
    BY <2>1, NoCallAssumption
  <2> HIDE DEF x
  <2>3. \A q \in Procs : \A e : e \in Pending(q)' <=> e \in Pending(q)
    BY <1>3, <2>1, <2>2, PendingKept
  <2>4. QED BY <1>1, <1>4, <2>3, QuietStep
<1>5. CASE Done(p) /\ unsent' = unsent \cup {call[p].event}
  <2>1. call' = [call EXCEPT ![p] = NoCall]
    BY <1>5 DEF Done
  <2>2. /\ \A q \in Procs : q # p => \A e : e \in Pending(q)' <=> e \in Pending(q)
        /\ Pending(p)' = {}
    BY <2>1, PendingKept
  <2>3. /\ \A q \in Procs : \A e : e \in Pending(q)' => e \in Pending(q)
        /\ \A q \in Procs : \A e : e \in Pending(q) /\ e \notin Pending(q)' => e \in unsent'
        /\ unsent \subseteq unsent'
    BY <1>3, <1>5, <2>2
  <2>4. QED BY <1>1, <2>3, QuietStep
<1>6. QED BY <1>4, <1>5 DEF PersistMessage

\* An event is stored, of a call that pushes it next or persists its message before.
LEMMA StoreEventStream ==
    ASSUME TypeInv, StreamInv, NEW p \in Procs, StoreEvent(p) \/ PublishAlert(p)
    PROVE  StreamInv'
<1>1. CASE UNCHANGED busVars
  BY <1>1, QuietCalls
<1>2. ASSUME NEW type, NEW place \in {"send", "persist", "send_alert"}, AppendEvent(p, type),
             call' = [call EXCEPT ![p].event = Len(events) + 1, ![p].at = place]
      PROVE  StreamInv'
  <2>1. call[p] \in Call /\ call[p] # NoCall /\ call[p].at \in {"store", "alert"} /\ Len(events) \in Nat
    BY InCallFacts DEF StoreEvent, PublishAlert
  <2> DEFINE e == Len(events) + 1
             x == [call[p] EXCEPT !.event = e, !.at = place]
  <2>3. e \in 0 .. MaxEvents
    BY <1>2, <2>1 DEF AppendEvent
  <2>4. call' = [call EXCEPT ![p] = x]
    BY <1>2
  <2> HIDE DEF e
  <2>5. x \in Call /\ x.event = e /\ x.at = place
    BY <2>1, <2>3 DEF Call
  <2>6. x # NoCall
    BY <2>5, NoCallAssumption
  <2> HIDE DEF x
  <2>7. /\ \A q \in Procs : q # p => \A f : f \in Pending(q)' <=> f \in Pending(q)
        /\ Pending(p) = {} /\ Pending(p)' = {e}
    BY <2>1, <2>4, <2>5, <2>6, PendingKept
  <2>8. QED BY <1>2, <2>7, StoredStep DEF e
<1>3. CASE StoreEvent(p)
  <2> DEFINE place == IF call[p].persist = "no" THEN "send" ELSE "persist"
  <2>1. place \in {"send", "persist", "send_alert"}
    OBVIOUS
  <2>2. \/ UNCHANGED busVars
        \/ /\ AppendEvent(p, call[p].type)
           /\ call' = [call EXCEPT ![p].event = Len(events) + 1, ![p].at = place]
    BY <1>3 DEF StoreEvent
  <2> HIDE DEF place
  <2>3. QED BY <1>1, <1>2, <2>1, <2>2
<1>4. CASE PublishAlert(p)
  <2>1. \/ UNCHANGED busVars
        \/ /\ AppendEvent(p, "consensus.alert")
           /\ call' = [call EXCEPT ![p].event = Len(events) + 1, ![p].at = "send_alert"]
    BY <1>4 DEF PublishAlert
  <2>2. QED BY <1>1, <1>2, <2>1
<1>5. QED BY <1>3, <1>4

\* A call pushes its event.
LEMMA SendEventStream ==
    ASSUME TypeInv, StreamInv, NEW p \in Procs, SendEvent(p)
    PROVE  StreamInv'
<1> DEFINE e == call[p].event
<1>1. /\ call[p] \in Call /\ call[p] # NoCall /\ call[p].at \in {"send", "send_alert"}
      /\ e \in 1 .. Len(events)
  BY InCallFacts DEF SendEvent
<1>2. e \in EventSeqs
  BY <1>1, MaxEventsAssumption DEF EventSeqs, TypeInv, BusTyped, BusTypeOK
<1>3. BroadcastEvent(p, e) /\ (Done(p) \/ Go(p, "check"))
  BY DEF SendEvent, AfterSend
<1>4. \E x : call' = [call EXCEPT ![p] = x] /\ (x = NoCall \/ x.at \notin {"persist", "send", "send_alert"})
  <2> DEFINE x == [call[p] EXCEPT !.at = "check"]
  <2>1. x.at = "check"
    BY <1>1, CallFields DEF Places
  <2>2. CASE Go(p, "check")
    <3>1. call' = [call EXCEPT ![p] = x]
      BY <2>2 DEF Go
    <3> HIDE DEF x
    <3>2. QED BY <2>1, <3>1
  <2>3. CASE Done(p)
    BY <2>3 DEF Done
  <2>4. QED BY <1>3, <2>2, <2>3
<1>5. /\ \A q \in Procs : q # p => \A f : f \in Pending(q)' <=> f \in Pending(q)
      /\ Pending(p) = {e} /\ Pending(p)' = {}
  BY <1>1, <1>4, PendingKept
<1> HIDE DEF e
<1>6. QED BY <1>2, <1>3, <1>5, SentStep

\* A bus starts, is bound, stops or dies.
LEMMA BusStepStream ==
    ASSUME TypeInv, StreamInv, NEW p \in Procs, TrichatBusControl(p) \/ Launch(p) \/ BindSocket(p) \/ Crash(p)
    PROVE  StreamInv'
<1>1. CASE Initialize(p) \/ StartBus(p) \/ Listen(p)
  <2>1. UNCHANGED <<events, link, received, cut, foreign, unsent>>
    BY <1>1 DEF Initialize, StartBus, Listen
  <2>2. CASE UNCHANGED call
    <3>1. \A q \in Procs : \A e : e \in Pending(q)' <=> e \in Pending(q)
      BY <2>2 DEF Pending
    <3>2. QED BY <2>1, <3>1, QuietStep
  <2>3. CASE Crash(p)
    <3>1. bus'[p].at = "down" /\ bus[p].at # "down"
      BY <2>3 DEF Crash, BusCrash, TypeInv, BusTyped, BusTypeOK
    <3>2. bus'[p].at # "down"
      <4>1. bus \in [Procs -> Bus]
        BY DEF TypeInv, BusTyped, BusTypeOK
      <4>2. QED BY <1>1, <4>1 DEF Initialize, StartBus, Listen, Bus
    <3>3. QED BY <3>1, <3>2
  <2>4. QED BY <2>2, <2>3 DEF TrichatBusControl, Launch, BindSocket, callVars
<1>2. CASE (StopBus(p) /\ TrichatBusControl(p)) \/ Crash(p)
  <2>1. ClientsOf(p) \in SUBSET Clients /\ \A c \in ClientsOf(p) : link[c] # NoLink
    BY DEF ClientsOf
  <2>2. Drop(ClientsOf(p)) /\ UNCHANGED <<events, cut, foreign, unsent>>
    BY <1>2 DEF StopBus, Crash, BusCrash
  <2>3. \A q \in Procs : q # p => \A e : e \in Pending(q)' <=> e \in Pending(q)
    <3>1. UNCHANGED call \/ call' = [call EXCEPT ![p] = NoCall]
      BY <1>2 DEF TrichatBusControl, Crash, Done
    <3>2. CASE UNCHANGED call
      BY <3>2 DEF Pending
    <3>3. QED BY <3>1, <3>2, PendingKept
  <2>4. \A c \in Clients \ ClientsOf(p), q \in Procs : link[c] # NoLink /\ link[c].to = q => q # p
    BY DEF ClientsOf
  <2>5. \A c \in Clients \ ClientsOf(p), q \in Procs : link[c] # NoLink /\ link[c].to = q =>
            \A e : e \in Pending(q)' <=> e \in Pending(q)
    BY <2>3, <2>4
  <2>6. QED BY <2>1, <2>2, <2>5, DropStep
<1>3. QED BY <1>1, <1>2 DEF TrichatBusControl, Launch, BindSocket

\* Subscribers come, subscribe and read.
LEMMA SubscriberStream ==
    ASSUME TypeInv, StreamInv, NEW c \in Clients, Subscriber(c)
    PROVE  StreamInv'
<1>1. UNCHANGED call
  BY DEF Subscriber, callVars
<1>2. /\ link \in [Clients -> Link \cup {NoLink}] /\ received \in [Clients -> Seq(EventSeqs)]
      /\ cut \in [Clients -> SUBSET EventSeqs]
  BY DEF TypeInv, BusTyped, BusTypeOK
<1>3. /\ UNCHANGED <<events, foreign, unsent>>
      /\ \A k \in Clients : k # c => link'[k] = link[k] /\ received'[k] = received[k] /\ cut'[k] = cut[k]
  BY <1>2 DEF Subscriber, Connect, Subscribe, ReadFrame
<1>4. ASSUME NEW k \in Clients, k # c PROVE ClientInv(k)'
  <2>1. Excused(k) \subseteq Excused(k)'
    BY <1>3, <1>4 DEF Excused
  <2>2. Due(k)' \subseteq Due(k)
    BY <1>3, <2>1, DueShrinks
  <2>3. \A p \in Procs : Subscribed(k) /\ link[k].to = p =>
               /\ \A e : e \in Pending(p)' => e \in Pending(p)
               /\ \A e : e \in Pending(p) /\ e \notin Pending(p)' => e \notin Due(k)'
    BY <1>1 DEF Pending
  <2>4. ClientInv(k) /\ link'[k] = link[k] /\ received'[k] = received[k] /\ Len(events') = Len(events)
    BY <1>3, <1>4 DEF StreamInv
  <2>5. QED BY <2>2, <2>3, <2>4, ClientStill
<1>5. ClientInv(c)'
  <2>1. ClientInv(c) /\ received[c] \in Seq(EventSeqs)
    BY <1>2 DEF StreamInv
  <2>2. CASE Connect(c)
    <3> DEFINE l == [to |-> path, subscribed |-> FALSE, since |-> 0, wire |-> <<>>]
    <3>1. link[c] = NoLink /\ link'[c] = l /\ UNCHANGED <<events, received, cut, foreign, unsent>>
      BY <1>2, <2>2 DEF Connect
    <3>2. l.subscribed = FALSE /\ l.wire = <<>>
      OBVIOUS
    <3> HIDE DEF l
    <3>3. received[c] \o <<>> = received[c]
      BY <2>1, ConcatEmptySeq
    <3>4. Stream(c)' = Stream(c)
      BY <3>1, <3>2, <3>3 DEF Stream
    <3>5. Subscribed(c)' = FALSE /\ Subscribed(c) = FALSE
      BY <3>1, <3>2 DEF Subscribed
    <3>6. /\ Subscribed(c) => link'[c].since = link[c].since /\ link'[c].to = link[c].to
          /\ link'[c] # NoLink /\ ~link'[c].subscribed => link'[c].wire = <<>>
      BY <3>1, <3>2, <3>5
    <3>7. QED BY <1>1, <2>1, <3>1, <3>4, <3>5, <3>6, ClientMoved
  <2>3. CASE ReadFrame(c)
    <3> DEFINE w == link[c].wire
               r == received[c]
               l == [link[c] EXCEPT !.wire = Tail(w)]
    <3>1. /\ link[c] # NoLink /\ link[c] \in Link /\ w # <<>> /\ w \in Seq(EventSeqs)
          /\ link'[c] = l /\ received'[c] = Append(r, Head(w))
          /\ UNCHANGED <<events, cut, foreign, unsent>>
      BY <1>2, <2>3 DEF ReadFrame, Link
    <3>2. l.wire = Tail(w) /\ l.subscribed = link[c].subscribed /\ l.since = link[c].since /\ l.to = link[c].to
          /\ l \in Link
      <4>1. Tail(w) \in Seq(EventSeqs)
        BY <2>1, <3>1, ReadKeepsStream
      <4>2. QED BY <3>1, <4>1 DEF Link
    <3> HIDE DEF l
    <3>3. l # NoLink
      BY <3>2, NoLinkAssumption
    <3>4. Append(r, Head(w)) \o Tail(w) = r \o w
      BY <2>1, <3>1, ReadKeepsStream
    <3>5. Stream(c)' = Stream(c)
      BY <3>1, <3>2, <3>3, <3>4 DEF Stream
    <3>6. Subscribed(c)' = Subscribed(c)
      BY <3>1, <3>2, <3>3 DEF Subscribed
    <3>7. /\ Subscribed(c) => link'[c].since = link[c].since /\ link'[c].to = link[c].to
          /\ link'[c] # NoLink /\ ~link'[c].subscribed => link'[c].wire = <<>>
      BY <2>1, <3>1, <3>2 DEF ClientInv
    <3>8. QED BY <1>1, <2>1, <3>1, <3>5, <3>6, <3>7, ClientMoved
  <2>4. CASE link[c] # NoLink /\ call[link[c].to] = NoCall /\ Subscribe(c)
    <3>1. Pending(link[c].to) = {}
      BY <2>4 DEF Pending
    <3>2. QED BY <1>1, <2>1, <2>4, <3>1, SubscribedStep
  <2>5. QED BY <1>1, <1>2, <2>2, <2>3, <2>4 DEF Subscriber
<1>6. QED BY <1>4, <1>5 DEF StreamInv

\* A connection breaks.
LEMMA ConnectionBreaksStream ==
    ASSUME TypeInv, StreamInv, NEW c \in Clients, ConnectionBreaks(c)
    PROVE  StreamInv'
<1>1. {c} \in SUBSET Clients /\ \A k \in {c} : link[k] # NoLink
  BY DEF ConnectionBreaks, Disconnect
<1>2. Drop({c}) /\ UNCHANGED <<events, cut, foreign, unsent, call>>
  BY DEF ConnectionBreaks, Disconnect
<1>3. \A k \in Clients \ {c}, p \in Procs : link[k] # NoLink /\ link[k].to = p =>
          \A e : e \in Pending(p)' <=> e \in Pending(p)
  BY <1>2 DEF Pending
<1>4. QED BY <1>1, <1>2, <1>3, DropStep

\* Every step keeps what subscribers are owed.
LEMMA StreamInvStep ==
    ASSUME TypeInv, StreamInv, [Next]_vars
    PROVE  StreamInv'
<1>1. ASSUME UNCHANGED <<events, link, received, cut, foreign, unsent, call>> PROVE StreamInv'
  <2>1. \A q \in Procs : \A e : e \in Pending(q)' <=> e \in Pending(q)
    BY <1>1 DEF Pending
  <2>2. QED BY <1>1, <2>1, QuietStep
<1>2. CASE UNCHANGED vars
  BY <1>1, <1>2 DEF vars, busVars, callVars
<1>3. ASSUME NEW p \in Procs, TrichatRetention(p) PROVE StreamInv'
  BY <1>1, <1>3 DEF TrichatRetention, busVars
<1>4. ASSUME NEW p \in Procs,
             MessagePost(p) \/ Publish(p) \/ PublishTurnEvent(p) \/ PostMessage(p) \/ CheckConsensus(p)
      PROVE StreamInv'
  BY <1>4, QuietCalls
<1>5. ASSUME NEW p \in Procs, StoreEvent(p) \/ PublishAlert(p) PROVE StreamInv'
  BY <1>5, StoreEventStream
<1>6. ASSUME NEW p \in Procs, SendEvent(p) PROVE StreamInv'
  BY <1>6, SendEventStream
<1>7. ASSUME NEW p \in Procs, PersistMessage(p) PROVE StreamInv'
  BY <1>7, PersistMessageStream
<1>8. ASSUME NEW p \in Procs, TrichatBusControl(p) \/ Launch(p) \/ BindSocket(p) \/ Crash(p) PROVE StreamInv'
  BY <1>8, BusStepStream
<1>9. ASSUME NEW c \in Clients, Subscriber(c) PROVE StreamInv'
  BY <1>9, SubscriberStream
<1>10. ASSUME NEW c \in Clients, ConnectionBreaks(c) PROVE StreamInv'
  BY <1>10, ConnectionBreaksStream
<1>11. QED BY <1>2, <1>3, <1>4, <1>5, <1>6, <1>7, <1>8, <1>9, <1>10 DEF Next

\* Nobody is owed anything at the start.
LEMMA InitStreamInv ==
    ASSUME Init PROVE StreamInv
<1> SUFFICES ASSUME NEW c \in Clients PROVE ClientInv(c)
  BY DEF StreamInv
<1>1. link[c] = NoLink /\ received[c] = <<>> /\ Len(events) = 0
  BY DEF Init, BusInit
<1>2. Stream(c) = <<>> /\ ~Subscribed(c)
  BY <1>1 DEF Stream, Subscribed
<1>3. DOMAIN <<>> = {}
  OBVIOUS
<1>4. QED BY <1>1, <1>2, <1>3 DEF ClientInv, Served, Rising

\* What a client has read has no gaps, subscribed or not.
LEMMA ReadIsServed ==
    ASSUME TypeInv, StreamInv, NEW c \in Clients
    PROVE  Served(received[c], FALSE, 0, Len(events), Due(c), {})
<1> DEFINE n == Len(events)
           s == Stream(c)
           t == received[c]
           sub == Subscribed(c)
           since == link[c].since
           due == Due(c)
           pend == Pending(link[c].to)
           k == Len(t)
<1>1. /\ n \in Nat /\ s \in Seq(Nat) /\ sub \in BOOLEAN /\ due \in SUBSET Nat /\ t \in Seq(EventSeqs)
      /\ link[c] # NoLink => link[c].wire \in Seq(EventSeqs) /\ s = t \o link[c].wire /\ since \in Nat /\ pend \subseteq Nat
      /\ link[c] = NoLink => s = t
  BY StreamFacts
<1>2. Served(s, sub, since, n, due, pend) /\ (sub => link[c] # NoLink)
  BY DEF StreamInv, ClientInv, Subscribed
<1>3. k \in Nat /\ DOMAIN t = 1 .. k
  BY <1>1, LenProperties
<1>4. DOMAIN t \subseteq DOMAIN s /\ \A i \in DOMAIN t : t[i] = s[i]
  <2>1. CASE link[c] = NoLink
    BY <1>1, <2>1
  <2>2. CASE link[c] # NoLink
    <3> DEFINE w == link[c].wire
    <3>1. w \in Seq(EventSeqs) /\ s = t \o w /\ Len(w) \in Nat
      BY <1>1, <2>2, LenProperties
    <3> HIDE DEF w, t, s
    <3>2. /\ Len(t \o w) = Len(t) + Len(w) /\ t \o w \in Seq(EventSeqs)
          /\ \A i \in 1 .. Len(t) + Len(w) : (t \o w)[i] = IF i <= Len(t) THEN t[i] ELSE w[i - Len(t)]
      BY <1>1, <3>1, ConcatProperties
    <3>3. DOMAIN s = 1 .. Len(t) + Len(w)
      BY <3>1, <3>2, LenProperties
    <3>4. \A i \in 1 .. k : i \in 1 .. Len(t) + Len(w) /\ i <= Len(t)
      BY <1>3, <3>1
    <3>5. QED BY <1>3, <3>1, <3>2, <3>3, <3>4
  <2>3. QED BY <2>1, <2>2
<1> HIDE DEF n, s, t, sub, since, due, pend, k
<1>5. Served(t, FALSE, 0, n, due, {})
  BY <1>1, <1>2, <1>3, <1>4, ServedDropped
<1>6. QED BY <1>5 DEF t, n, due

\* A stream without gaps has none below the cursor.
LEMMA StreamInvSuffices ==
    ASSUME TypeInv, StreamInv PROVE SubscribersMissNothing
<1> SUFFICES ASSUME NEW c \in Clients
             PROVE  /\ \A i, j \in DOMAIN received[c] : i < j => received[c][i] < received[c][j]
                    /\ \A e \in 1 .. Len(events) :
                          e <= Cursor(c) /\ SubscriptionMatches(c, e) /\ e \notin Excused(c) =>
                              \E i \in DOMAIN received[c] : received[c][i] = e
  BY DEF SubscribersMissNothing
<1>1. Served(received[c], FALSE, 0, Len(events), Due(c), {})
  BY ReadIsServed
<1>2. ASSUME NEW e \in 1 .. Len(events), e <= Cursor(c), SubscriptionMatches(c, e), e \notin Excused(c)
      PROVE  Holds(received[c], e)
  <2>1. e \in Due(c)
    BY <1>2 DEF Due
  <2>2. received[c] \in Seq(EventSeqs) /\ Len(events) \in Nat
    BY StreamFacts
  <2>3. Cursor(c) # 0
    BY <1>2, <2>2
  <2>4. \E i \in DOMAIN received[c] : received[c][i] = Cursor(c)
    BY <2>2, <2>3, CursorIsGreatest
  <2>5. \E i \in DOMAIN received[c] : e <= received[c][i]
    BY <1>2, <2>4
  <2>6. QED BY <1>1, <2>1, <2>5 DEF Served
<1>3. QED BY <1>1, <1>2 DEF Served, Rising, Holds

\* A subscriber reads every event once, in rising order, and none it wants is missing up to
\* where it is, for any number of processes that publish, start, stop, steal the socket path
\* and crash, and any way its connections break.
THEOREM NoEventIsMissed == Spec => []SubscribersMissNothing
<1>1. Spec => []StreamInv
  <2>1. Init => StreamInv
    BY InitStreamInv
  <2>2. TypeInv /\ StreamInv /\ [Next]_vars => StreamInv'
    BY StreamInvStep
  <2>3. QED BY <2>1, <2>2, TimelineTypeInv, PTL DEF Spec
<1>2. TypeInv /\ StreamInv => SubscribersMissNothing
  BY StreamInvSuffices
<1>3. QED BY <1>1, <1>2, TimelineTypeInv, PTL

=============================================================================
