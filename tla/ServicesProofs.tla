---------------------------- MODULE ServicesProofs ----------------------------
(***************************************************************************)
(* Proofs about the four services that share nothing, and about MCServices,   *)
(* which explores each of them on its own.                                  *)
(*                                                                         *)
(* The cache, for any keys, callers, size and time to live.  Its operations   *)
(* work on the contents, so what they keep is stated once for any contents    *)
(* (GetKeeps, SetKeeps, RemoveKeeps); the invariant adds what was stored last *)
(* to what is held (HeldAsStored) and the key to every fetch (FetchHasKey).   *)
(*                                                                         *)
(* The arbitrage, for any number of calls, any quotes and configurations.     *)
(* On paper nothing is at the exchange (PaperInv).  Otherwise what a call      *)
(* knows of its legs is compared with what they are at the exchange, leg by    *)
(* leg (LegsKnown): those with a result, the one being submitted and those    *)
(* not yet sent.  The executor on paper is sound by itself (Kept): an order is *)
(* active once, recorded twice at most and then the second time as cancelled,  *)
(* whatever the sweep removes, which the proof follows order by order.         *)
(*                                                                         *)
(* The dispatcher, for any handlers: what an emission has called and will call *)
(* is as often as its handlers are subscribed (Balanced).                     *)
(*                                                                         *)
(* The feed, for any markets, books and bounds.  The updates on the wire lead  *)
(* from the books processed so far to the exchange's (Told), and each book kept *)
(* is in order and, as far as it is whole, what has been processed (Shelf).    *)
(***************************************************************************)
EXTENDS MCServices, FiniteSetTheorems, WellFoundedInduction, SequenceTheorems, TLAPS

-----------------------------------------------------------------------------
(* RemoveFirst of SequencesExt.                                             *)

LEMMA SmallestIsMember ==
  ASSUME NEW S \in SUBSET Nat, S # {}
  PROVE  Min(S) \in S /\ \A y \in S : Min(S) <= y
<1> DEFINE R == {ss \in Nat \X Nat : ss[1] < ss[2]}
<1>1. R = OpToRel(<, Nat)
  BY DEF OpToRel
<1>2. IsWellFoundedOn(R, Nat)
  BY <1>1, NatLessThanWellFounded
<1>3. PICK x \in S : \A y \in S : ~ (<<y, x>> \in R)
  BY <1>2, WFMin
<1>4. ASSUME NEW y \in S
      PROVE  x <= y
  <2>1. x \in Nat /\ y \in Nat /\ (y < x => <<y, x>> \in R)
    OBVIOUS
  <2> HIDE DEF R
  <2> QED
    BY <2>1, <1>3
<1> QED
  BY <1>4 DEF Min

\* r is s without what stands at its n-th place.
Drops(s, r, n) ==
  /\ n \in 1..Len(s) /\ Len(r) = Len(s) - 1
  /\ \A i \in 1..Len(r) : r[i] = IF i < n THEN s[i] ELSE s[i + 1]

LEMMA DropsAt ==
  ASSUME NEW S, NEW s \in Seq(S), NEW n \in 1..Len(s)
  PROVE  RemoveAt(s, n) \in Seq(S) /\ Drops(s, RemoveAt(s, n), n)
<1> DEFINE left == SubSeq(s, 1, n - 1)
           right == SubSeq(s, n + 1, Len(s))
<1>1. left \in Seq(S) /\ Len(left) = n - 1 /\ \A j \in 1..(n - 1) : left[j] = s[j]
  OBVIOUS
<1>2. /\ right \in Seq(S) /\ Len(right) = Len(s) - n
      /\ \A j \in 1..(Len(s) - n) : right[j] = s[n + j]
  OBVIOUS
<1>3. RemoveAt(s, n) = left \o right
  BY DEF RemoveAt
<1> HIDE DEF left, right
<1>4. /\ left \o right \in Seq(S) /\ Len(left \o right) = Len(left) + Len(right)
      /\ \A i \in 1..(Len(left) + Len(right)) : (left \o right)[i] =
           IF i <= Len(left) THEN left[i] ELSE right[i - Len(left)]
  BY <1>1, <1>2, ConcatProperties
<1>5. ASSUME NEW i \in 1..(Len(s) - 1)
      PROVE  (left \o right)[i] = IF i < n THEN s[i] ELSE s[i + 1]
  <2>1. CASE i < n
    BY <1>1, <1>2, <1>4, <2>1
  <2>2. CASE ~ (i < n)
    <3> DEFINE j == i - (n - 1)
    <3>1. j \in 1..(Len(s) - n) /\ n + j = i + 1
      BY <2>2
    <3>2. (left \o right)[i] = right[j]
      BY <1>1, <1>2, <1>4, <2>2
    <3>3. right[j] = s[n + j]
      BY <1>2, <3>1
    <3> QED
      BY <2>2, <3>1, <3>2, <3>3
  <2> QED
    BY <2>1, <2>2
<1>6. Len(left) + Len(right) = Len(s) - 1
  BY <1>1, <1>2
<1> DEFINE r == left \o right
<1>7. r \in Seq(S) /\ Len(r) = Len(s) - 1 /\ \A i \in 1..Len(r) : r[i] = IF i < n THEN s[i] ELSE s[i + 1]
  BY <1>4, <1>5, <1>6
<1> HIDE DEF r
<1>8. r \in Seq(S) /\ Drops(s, r, n)
  BY <1>7 DEF Drops
<1> QED
  BY <1>3, <1>8 DEF r

\* RemoveFirst takes out the first occurrence of e and nothing else.
LEMMA DropsFirst ==
  ASSUME NEW S, NEW s \in Seq(S), NEW e
  PROVE  /\ RemoveFirst(s, e) \in Seq(S)
         /\ \/ e \notin ToSet(s) /\ RemoveFirst(s, e) = s
            \/ \E n \in 1..Len(s) : s[n] = e /\ Drops(s, RemoveFirst(s, e), n)
<1>1. CASE ~ \E i \in 1..Len(s) : s[i] = e
  <2>1. RemoveFirst(s, e) = s
    BY <1>1 DEF RemoveFirst
  <2> QED
    BY <1>1, <2>1 DEF ToSet
<1>2. CASE \E i \in 1..Len(s) : s[i] = e
  <2> DEFINE I == {i \in 1..Len(s) : s[i] = e}
             n == Min(I)
  <2>1. I \in SUBSET Nat /\ I # {}
    BY <1>2
  <2>2. n \in I
    BY <2>1, SmallestIsMember
  <2>3. RemoveFirst(s, e) = RemoveAt(s, n)
    BY <1>2 DEF RemoveFirst, SelectInSeq
  <2>4. n \in 1..Len(s) /\ s[n] = e
    BY <2>2
  <2> HIDE DEF n, I
  <2> QED
    BY <2>3, <2>4, DropsAt
<1> QED
  BY <1>1, <1>2

\* Removing the first occurrence of a key leaves every other key in the list.
LEMMA RemovesOne ==
  ASSUME NEW s \in Seq(Keys), NEW k \in Keys
  PROVE  /\ removeFromLru(s, k) \in Seq(Keys)
         /\ \A x \in Range(s) : x # k => x \in Range(removeFromLru(s, k))
<1>1. CASE ~ \E i \in 1..Len(s) : s[i] = k
  BY <1>1 DEF removeFromLru, RemoveFirst
<1>2. CASE \E i \in 1..Len(s) : s[i] = k
  <2> DEFINE I == {i \in 1..Len(s) : s[i] = k}
             n == Min(I)
             left == SubSeq(s, 1, n - 1)
             right == SubSeq(s, n + 1, Len(s))
  <2>1. I \in SUBSET Nat /\ I # {}
    BY <1>2
  <2>2. n \in I
    BY <2>1, SmallestIsMember
  <2>3. removeFromLru(s, k) = left \o right
    BY <1>2 DEF removeFromLru, RemoveFirst, RemoveAt, SelectInSeq
  <2>4. n \in 1..Len(s) /\ s[n] = k
    BY <2>2
  <2> HIDE DEF n, I
  <2>5. left \in Seq(Keys) /\ Len(left) = n - 1 /\ \A j \in 1..(n - 1) : left[j] = s[j]
    BY <2>4
  <2>6. /\ right \in Seq(Keys) /\ Len(right) = Len(s) - n
        /\ \A j \in 1..(Len(s) - n) : right[j] = s[n + j]
    BY <2>4
  <2> HIDE DEF left, right
  <2>7. left \o right \in Seq(Keys) /\ Range(left \o right) = Range(left) \cup Range(right)
    BY <2>5, <2>6, ConcatProperties, RangeConcatenation
  <2>8. ASSUME NEW j \in 1..Len(s), s[j] # k
        PROVE  s[j] \in Range(left) \cup Range(right)
    <3>1. CASE j < n
      <4>1. j \in DOMAIN left /\ left[j] = s[j]
        BY <3>1, <2>4, <2>5
      <4> QED
        BY <4>1 DEF Range
    <3>2. CASE j > n
      <4>1. j - n \in DOMAIN right /\ right[j - n] = s[j]
        BY <3>2, <2>4, <2>6
      <4> QED
        BY <4>1 DEF Range
    <3> QED
      BY <3>1, <3>2, <2>4, <2>8
  <2>9. ASSUME NEW x \in Range(s), x # k
        PROVE  x \in Range(left) \cup Range(right)
    <3>1. PICK j \in 1..Len(s) : x = s[j]
      BY DEF Range
    <3> QED
      BY <3>1, <2>8, <2>9
  <2> QED
    BY <2>3, <2>7, <2>9
<1> QED
  BY <1>1, <1>2

-----------------------------------------------------------------------------
(* What the operations keep of any contents.                                *)

Contained(c) ==
  /\ c = [entries |-> c.entries, lru |-> c.lru]
  /\ DOMAIN c.entries \subseteq Keys
  /\ \A k \in DOMAIN c.entries : c.entries[k] \in [value : Value, expires : Nat]
  /\ c.lru \in Seq(Keys)
  /\ DOMAIN c.entries \subseteq Range(c.lru)

\* The entries of d are entries of c.
Keeps(d, c) == /\ DOMAIN d.entries \subseteq DOMAIN c.entries
               /\ \A k \in DOMAIN d.entries : d.entries[k] = c.entries[k]

LEMMA WithoutKeeps ==
  ASSUME NEW f, NEW k
  PROVE  /\ DOMAIN Without(f, k) = DOMAIN f \ {k}
         /\ \A x \in DOMAIN f \ {k} : Without(f, k)[x] = f[x]
BY DEF Without, Restrict

LEMMA RemoveKeeps ==
  ASSUME NEW c, Contained(c), NEW k \in Keys
  PROVE  /\ Contained(remove(c, k)) /\ Keeps(remove(c, k), c)
         /\ k \notin DOMAIN remove(c, k).entries
<1> DEFINE d == remove(c, k)
<1>1. d.entries = Without(c.entries, k) /\ d.lru = removeFromLru(c.lru, k)
      /\ d = [entries |-> d.entries, lru |-> d.lru]
  BY DEF remove
<1> HIDE DEF d
<1> DEFINE e == Without(c.entries, k)
<1>e. DOMAIN e = DOMAIN c.entries \ {k} /\ \A x \in DOMAIN e : e[x] = c.entries[x]
  BY WithoutKeeps
<1>f. d.entries = e
  BY <1>1
<1> HIDE DEF e
<1>2. DOMAIN d.entries = DOMAIN c.entries \ {k} /\ Keeps(d, c)
  BY <1>e, <1>f DEF Keeps
<1>3. d.lru \in Seq(Keys) /\ DOMAIN d.entries \subseteq Range(d.lru)
  BY <1>1, <1>2, RemovesOne DEF Contained
<1>4. Contained(d) /\ Keeps(d, c) /\ k \notin DOMAIN d.entries
  BY <1>1, <1>2, <1>3 DEF Contained, Keeps
<1> QED
  BY <1>4 DEF d

LEMMA AppendsToRange ==
  ASSUME NEW s \in Seq(Keys), NEW k \in Keys
  PROVE  /\ Append(s, k) \in Seq(Keys)
         /\ Range(Append(s, k)) = Range(s) \cup {k}
<1>1. Append(s, k) = s \o <<k>> /\ <<k>> \in Seq(Keys)
  BY AppendIsConcat
<1>2. Range(<<k>>) = {k}
  BY DEF Range
<1>3. Range(s \o <<k>>) = Range(s) \cup Range(<<k>>)
  BY <1>1, RangeConcatenation
<1> QED
  BY <1>1, <1>2, <1>3, AppendProperties

\* Moving a key to the end keeps every key in the list.
LEMMA MovesToEnd ==
  ASSUME NEW s \in Seq(Keys), NEW k \in Keys
  PROVE  moveToMru(s, k) \in Seq(Keys) /\ Range(s) \cup {k} \subseteq Range(moveToMru(s, k))
<1> DEFINE r == removeFromLru(s, k)
<1>1. r \in Seq(Keys) /\ \A x \in Range(s) : x # k => x \in Range(r)
  BY RemovesOne
<1>2. moveToMru(s, k) = Append(r, k)
  BY DEF moveToMru
<1> HIDE DEF r
<1> QED
  BY <1>1, <1>2, AppendsToRange

LEMMA GetKeeps ==
  ASSUME NEW c, Contained(c), NEW k \in Keys
  PROVE  Contained(get(c, k)) /\ Keeps(get(c, k), c)
<1>1. CASE k \notin DOMAIN c.entries
  BY <1>1 DEF get, Keeps
<1>2. CASE k \in DOMAIN c.entries /\ clock > c.entries[k].expires
  BY <1>2, RemoveKeeps DEF get
<1>3. CASE k \in DOMAIN c.entries /\ ~ (clock > c.entries[k].expires)
  <2>1. get(c, k) = [entries |-> c.entries, lru |-> moveToMru(c.lru, k)]
    BY <1>3 DEF get, Contained
  <2>2. c.lru \in Seq(Keys)
    BY DEF Contained
  <2> QED
    BY <2>1, <2>2, MovesToEnd DEF Contained, Keeps
<1> QED
  BY <1>1, <1>2, <1>3

LEMMA EvictKeeps ==
  ASSUME NEW c, Contained(c)
  PROVE  Contained(evictLRU(c)) /\ Keeps(evictLRU(c), c)
<1>1. CASE c.lru = <<>>
  BY <1>1 DEF evictLRU, Keeps
<1>2. CASE c.lru # <<>>
  <2> DEFINE h == Head(c.lru)
             t == Tail(c.lru)
  <2>1. evictLRU(c) = [entries |-> Without(c.entries, h), lru |-> t]
    BY <1>2 DEF evictLRU
  <2>2. c.lru \in Seq(Keys) /\ t \in Seq(Keys)
    BY <1>2, HeadTailProperties DEF Contained
  <2>3. Range(c.lru) \subseteq Range(t) \cup {h}
    <3> SUFFICES ASSUME NEW x \in Range(c.lru), x # h PROVE x \in Range(t)
      OBVIOUS
    <3>1. PICK i \in 1..Len(c.lru) : x = c.lru[i]
      BY <2>2 DEF Range
    <3>2. i # 1 /\ i - 1 \in 1..Len(t) /\ t[i - 1] = x
      BY <1>2, <2>2, <3>1
    <3>3. i - 1 \in DOMAIN t
      BY <2>2, <3>2
    <3> QED
      BY <3>2, <3>3 DEF Range
  <2> HIDE DEF h, t
  <2> DEFINE e == Without(c.entries, h)
  <2>4. DOMAIN e = DOMAIN c.entries \ {h} /\ \A x \in DOMAIN e : e[x] = c.entries[x]
    BY WithoutKeeps
  <2> HIDE DEF e
  <2>5. evictLRU(c) = [entries |-> e, lru |-> t]
    BY <2>1 DEF e
  <2> QED
    BY <2>2, <2>3, <2>4, <2>5 DEF Contained, Keeps
<1> QED
  BY <1>1, <1>2

\* What set leaves: the new entry and entries it was given.
LEMMA SetKeeps ==
  ASSUME NEW c, Contained(c), NEW k \in Keys, NEW v \in Value, clock \in Nat, Ttl \in Nat
  PROVE  /\ Contained(set(c, k, v, Ttl))
         /\ k \in DOMAIN set(c, k, v, Ttl).entries
         /\ set(c, k, v, Ttl).entries[k] = [value |-> v, expires |-> clock + Ttl]
         /\ \A x \in DOMAIN set(c, k, v, Ttl).entries :
              x # k => x \in DOMAIN c.entries /\ set(c, k, v, Ttl).entries[x] = c.entries[x]
<1> DEFINE room == IF Cardinality(DOMAIN c.entries) >= MaxSize THEN evictLRU(c) ELSE c
           base == IF has(c, k) THEN c ELSE room
           list == IF has(c, k) THEN moveToMru(c.lru, k) ELSE Append(room.lru, k)
           entry == [value |-> v, expires |-> clock + Ttl]
           held == [x \in DOMAIN base.entries \cup {k} |-> IF x = k THEN entry ELSE base.entries[x]]
           d == set(c, k, v, Ttl)
<1>1. Contained(room) /\ Keeps(room, c)
  BY EvictKeeps DEF Keeps
<1> HIDE DEF room
<1>2. Contained(base) /\ Keeps(base, c)
  BY <1>1 DEF Keeps
<1>3. list \in Seq(Keys) /\ Range(base.lru) \cup {k} \subseteq Range(list)
  <2>1. c.lru \in Seq(Keys) /\ room.lru \in Seq(Keys)
    BY <1>1 DEF Contained
  <2>2. CASE has(c, k)
    BY <2>1, <2>2, MovesToEnd
  <2>3. CASE ~ has(c, k)
    BY <2>1, <2>3, AppendsToRange
  <2> QED
    BY <2>2, <2>3
<1>4. d = [entries |-> held, lru |-> list]
  <2>1. /\ c = [entries |-> c.entries, lru |-> c.lru]
        /\ room = [entries |-> room.entries, lru |-> room.lru]
    BY <1>1 DEF Contained
  <2> DEFINE placed == IF has(c, k) THEN [c EXCEPT !.lru = moveToMru(@, k)]
                       ELSE [room EXCEPT !.lru = Append(@, k)]
  <2>2. d = [placed EXCEPT !.entries = [x \in DOMAIN @ \cup {k} |-> IF x = k THEN entry ELSE @[x]]]
    BY Zenon DEF set, room
  <2>3. placed = [entries |-> base.entries, lru |-> list]
    BY <2>1, Zenon
  <2> HIDE DEF placed, base, list, entry
  <2> QED
    BY <2>2, <2>3
<1>5. entry \in [value : Value, expires : Nat]
  OBVIOUS
<1> HIDE DEF base, list, entry, d
<1>6. /\ DOMAIN d.entries = DOMAIN base.entries \cup {k} /\ d.entries[k] = entry
      /\ \A x \in DOMAIN base.entries : x # k => d.entries[x] = base.entries[x]
  BY <1>4
<1>7. Contained(d)
  BY <1>2, <1>3, <1>4, <1>5, <1>6 DEF Contained
<1>8. /\ k \in DOMAIN d.entries /\ d.entries[k] = entry
      /\ \A x \in DOMAIN d.entries : x # k => x \in DOMAIN c.entries /\ d.entries[x] = c.entries[x]
  BY <1>2, <1>6 DEF Keeps
<1> QED
  BY <1>7, <1>8 DEF d, entry

-----------------------------------------------------------------------------
(* The invariant: what is held, and what is fetched.                        *)

\* What is held is what was stored last, for a time to live from then.
HeldAsStored ==
  \A k \in DOMAIN entries :
    /\ k \in DOMAIN stores
    /\ entries[k] = [value |-> stores[k].value, expires |-> stores[k].at + Ttl]

StoresTypeOK ==
  DOMAIN stores \subseteq Keys /\ \A k \in DOMAIN stores : stores[k] \in [value : Value, at : Nat]

ContentsInv == Contained(Contents) /\ StoresTypeOK /\ HeldAsStored

FetchHasKey == \A c \in Callers : callers[c].at # "ready" => callers[c].key \in Keys

FetchTypeOK ==
  /\ inFlight \in [Keys -> Callers \cup {NoCaller}]
  /\ callers \in [Callers -> [at : CallerState, key : Keys \cup {NoValue}, value : Value]]
  /\ sources \in [Keys -> Nat]

FetchInv == FetchTypeOK /\ FetchHasKey /\ OneFetch

CacheInv == clock \in Nat /\ ContentsInv /\ FetchInv

LEMMA InvImpliesSound == CacheInv => CacheSound
<1> SUFFICES ASSUME CacheInv PROVE CacheSound
  OBVIOUS
<1> USE DEF CacheInv, ContentsInv
<1>1. CacheTypeOK /\ Evictable
  BY DEF Contained, Contents, StoresTypeOK, FetchInv, FetchTypeOK, CacheTypeOK, Evictable
<1>2. HitIsFresh
  <2> SUFFICES ASSUME NEW k \in Keys, has(Contents, k)
               PROVE  /\ k \in DOMAIN stores /\ entries[k].value = stores[k].value
                      /\ clock <= stores[k].at + Ttl
    BY DEF HitIsFresh
  <2>1. k \in DOMAIN entries /\ clock <= entries[k].expires
    BY DEF has, Contents
  <2> QED
    BY <2>1 DEF HeldAsStored
<1> QED
  BY <1>1, <1>2 DEF CacheSound, FetchInv

LEMMA InitSound == CacheInit => CacheInv
<1> SUFFICES ASSUME CacheInit PROVE CacheInv
  OBVIOUS
<1> USE DEF CacheInit
<1>1. DOMAIN entries = {} /\ DOMAIN stores = {} /\ lruKeys \in Seq(Keys) /\ clock \in Nat
  OBVIOUS
<1>2. ContentsInv
  BY <1>1 DEF ContentsInv, Contained, Contents, StoresTypeOK, HeldAsStored
<1>3. FetchInv
  BY DEF FetchInv, FetchTypeOK, FetchHasKey, OneFetch, CallerState, Value
<1> QED
  BY <1>1, <1>2, <1>3 DEF CacheInv

-----------------------------------------------------------------------------
(* The contents under each kind of step.                                    *)

LEMMA ContentsUnchanged ==
  ASSUME ContentsInv, UNCHANGED <<entries, lruKeys, stores>>
  PROVE  ContentsInv'
BY DEF ContentsInv, Contained, Contents, StoresTypeOK, HeldAsStored

LEMMA ContentsGet ==
  ASSUME ContentsInv, NEW k \in Keys, Becomes(get(Contents, k)), stores' = stores
  PROVE  ContentsInv'
<1> DEFINE d == get(Contents, k)
<1>1. Contained(d) /\ Keeps(d, Contents)
  BY GetKeeps DEF ContentsInv
<1>2. entries' = d.entries /\ lruKeys' = d.lru
  BY DEF Becomes
<1> HIDE DEF d
<1>3. Contained(Contents)'
  BY <1>1, <1>2 DEF Contained, Contents
<1>4. HeldAsStored'
  BY <1>1, <1>2 DEF ContentsInv, HeldAsStored, Keeps, Contents
<1> QED
  BY <1>3, <1>4 DEF ContentsInv, StoresTypeOK

LEMMA ContentsRemoved ==
  ASSUME ContentsInv, NEW k \in Keys, Becomes(remove(Contents, k)), stores' = Without(stores, k)
  PROVE  ContentsInv'
<1> DEFINE d == remove(Contents, k)
<1>1. Contained(d) /\ Keeps(d, Contents) /\ k \notin DOMAIN d.entries
  BY RemoveKeeps DEF ContentsInv
<1>2. entries' = d.entries /\ lruKeys' = d.lru
  BY DEF Becomes
<1>3. DOMAIN stores' = DOMAIN stores \ {k} /\ \A x \in DOMAIN stores' : stores'[x] = stores[x]
  BY WithoutKeeps
<1> HIDE DEF d
<1>4. Contained(Contents)'
  BY <1>1, <1>2 DEF Contained, Contents
<1>5. HeldAsStored' /\ StoresTypeOK'
  BY <1>1, <1>2, <1>3 DEF ContentsInv, HeldAsStored, StoresTypeOK, Keeps, Contents
<1> QED
  BY <1>4, <1>5 DEF ContentsInv

LEMMA ContentsSet ==
  ASSUME ContentsInv, clock \in Nat, NEW k \in Keys, NEW v \in Value,
         Becomes(set(Contents, k, v, Ttl)), Stored(k, v)
  PROVE  ContentsInv'
<1> DEFINE d == set(Contents, k, v, Ttl)
<1>1. /\ Contained(d) /\ d.entries[k] = [value |-> v, expires |-> clock + Ttl]
      /\ \A x \in DOMAIN d.entries : x # k => /\ x \in DOMAIN Contents.entries
                                              /\ d.entries[x] = Contents.entries[x]
  BY SetKeeps, CacheAssumption DEF ContentsInv
<1>2. entries' = d.entries /\ lruKeys' = d.lru
  BY DEF Becomes
<1>3. /\ DOMAIN stores' = DOMAIN stores \cup {k} /\ stores'[k] = [value |-> v, at |-> clock]
      /\ \A x \in DOMAIN stores : x # k => stores'[x] = stores[x]
  BY DEF Stored
<1> HIDE DEF d
<1>4. Contained(Contents)'
  BY <1>1, <1>2 DEF Contained, Contents
<1>5. HeldAsStored'
  BY <1>1, <1>2, <1>3 DEF ContentsInv, HeldAsStored, Contents
<1>6. StoresTypeOK'
  BY <1>3 DEF ContentsInv, StoresTypeOK
<1> QED
  BY <1>4, <1>5, <1>6 DEF ContentsInv

LEMMA ContentsCleared ==
  ASSUME Becomes([entries |-> <<>>, lru |-> <<>>]), stores' = <<>>
  PROVE  ContentsInv'
<1>1. DOMAIN entries' = {} /\ DOMAIN stores' = {} /\ lruKeys' \in Seq(Keys)
  BY DEF Becomes
<1> QED
  BY <1>1 DEF ContentsInv, Contained, Contents, StoresTypeOK, HeldAsStored

-----------------------------------------------------------------------------
(* The fetches under each kind of step.                                     *)

LEMMA FetchUnchanged ==
  ASSUME FetchInv, UNCHANGED <<inFlight, callers, sources>>
  PROVE  FetchInv'
BY DEF FetchInv, FetchTypeOK, FetchHasKey, OneFetch

LEMMA FetchAsked ==
  ASSUME FetchInv, Contained(Contents), NEW c \in Callers, NEW k \in Keys, getOrFetch(c, k)
  PROVE  FetchInv'
<1> USE DEF FetchInv
<1>1. CASE has(Contents, k)
  <2>1. entries[k].value \in Value
    BY <1>1 DEF has, Contained, Contents
  <2>2. /\ callers' = [callers EXCEPT ![c] = [at |-> "ready", key |-> k, value |-> entries[k].value]]
        /\ inFlight' = inFlight /\ sources' = sources /\ callers[c].at = "ready"
    BY <1>1 DEF getOrFetch
  <2>3. FetchTypeOK'
    BY <2>1, <2>2 DEF FetchTypeOK, CallerState
  <2>4. FetchHasKey' /\ OneFetch'
    BY <2>2 DEF FetchTypeOK, FetchHasKey, OneFetch
  <2> QED
    BY <2>3, <2>4
<1>2. CASE ~has(Contents, k) /\ inFlight[k] # NoCaller
  <2>1. /\ callers' = [callers EXCEPT ![c] = [at |-> "waiting", key |-> k, value |-> NoValue]]
        /\ inFlight' = inFlight /\ sources' = sources /\ callers[c].at = "ready"
    BY <1>2 DEF getOrFetch
  <2>2. FetchTypeOK'
    BY <2>1 DEF FetchTypeOK, CallerState, Value
  <2>3. FetchHasKey' /\ OneFetch'
    BY <1>2, <2>1 DEF FetchTypeOK, FetchHasKey, OneFetch
  <2> QED
    BY <2>2, <2>3
<1>3. CASE ~has(Contents, k) /\ inFlight[k] = NoCaller
  <2>1. FetchTypeOK' /\ FetchHasKey'
    BY <1>3 DEF getOrFetch, FetchTypeOK, FetchHasKey, CallerState, Value
  <2>2. OneFetch'
    BY <1>3, CacheAssumption DEF getOrFetch, FetchTypeOK, FetchHasKey, OneFetch, CallerState
  <2> QED
    BY <2>1, <2>2
<1> QED
  BY <1>1, <1>2, <1>3

LEMMA FetchRead ==
  ASSUME FetchInv, NEW c \in Callers, FetchReads(c)
  PROVE  FetchInv'
<1> USE DEF FetchInv
<1>1. callers[c].key \in Keys /\ inFlight[callers[c].key] = c /\ sources[callers[c].key] \in Value
  BY DEF FetchReads, FetchHasKey, OneFetch, FetchTypeOK, Value
<1> DEFINE new == [callers[c] EXCEPT !.at = "read", !.value = sources[callers[c].key]]
<1>2. /\ new \in [at : CallerState, key : Keys \cup {NoValue}, value : Value]
      /\ new.key = callers[c].key /\ new.at = "read"
  BY <1>1 DEF FetchTypeOK, CallerState
<1>3. callers' = [callers EXCEPT ![c] = new] /\ UNCHANGED <<inFlight, sources>>
  BY DEF FetchReads, FetchTypeOK
<1> HIDE DEF new
<1>4. FetchTypeOK' /\ FetchHasKey'
  BY <1>1, <1>2, <1>3 DEF FetchTypeOK, FetchHasKey
<1>5. OneFetch'
  BY <1>1, <1>2, <1>3 DEF FetchTypeOK, OneFetch
<1> QED
  BY <1>4, <1>5

\* A fetch that ends, well or not.
LEMMA FetchEnded ==
  ASSUME FetchInv, NEW c \in Callers, callers[c].at \in {"fetching", "read"}, NEW v \in Value,
         callers' = Settled(c, callers[c].key, v),
         inFlight' = [inFlight EXCEPT ![callers[c].key] = NoCaller], sources' = sources
  PROVE  FetchInv'
<1> DEFINE k == callers[c].key
<1> USE DEF FetchInv
<1>1. k \in Keys /\ inFlight[k] = c
  BY DEF FetchHasKey, OneFetch
<1>2. FetchTypeOK' /\ FetchHasKey'
  BY <1>1 DEF Settled, FetchTypeOK, FetchHasKey, CallerState
<1>3. OneFetch'
  <2> SUFFICES ASSUME NEW d \in Callers
               PROVE  /\ callers'[d].at \in {"fetching", "read"} => inFlight'[callers'[d].key] = d
                      /\ callers'[d].at = "waiting" => inFlight'[callers'[d].key] # NoCaller
    BY DEF OneFetch
  <2>1. CASE d = c \/ (callers[d].at = "waiting" /\ callers[d].key = k)
    BY <2>1 DEF Settled
  <2>2. CASE ~ (d = c \/ (callers[d].at = "waiting" /\ callers[d].key = k))
    <3>1. callers'[d] = callers[d]
      BY <2>2 DEF Settled
    <3>2. callers[d].at \in {"fetching", "read", "waiting"} => callers[d].key \in Keys \ {k}
      BY <1>1, <2>2 DEF OneFetch, FetchHasKey
    <3> QED
      BY <1>1, <3>1, <3>2 DEF OneFetch, FetchTypeOK
  <2> QED
    BY <2>1, <2>2
<1> QED
  BY <1>2, <1>3

-----------------------------------------------------------------------------
(* The theorem.                                                            *)

\* Every step of the cache keeps the invariant.
LEMMA StepSound == CacheInv /\ [CacheNext]_cacheVars => CacheInv'
<1> SUFFICES ASSUME CacheInv, [CacheNext]_cacheVars PROVE CacheInv'
  OBVIOUS
<1> USE DEF CacheInv
<1>1. ASSUME NEW k \in Keys, Get(k) PROVE CacheInv'
  BY <1>1, ContentsGet, FetchUnchanged DEF Get
<1>2. ASSUME NEW k \in Keys, Set(k) PROVE CacheInv'
  <2>1. sources[k] \in Value
    BY DEF FetchInv, FetchTypeOK, Value
  <2> QED
    BY <1>2, <2>1, ContentsSet, FetchUnchanged DEF Set
<1>3. ASSUME NEW k \in Keys, delete(k) PROVE CacheInv'
  BY <1>3, ContentsRemoved, FetchUnchanged DEF delete
<1>4. CASE clear
  BY <1>4, ContentsCleared, FetchUnchanged DEF clear
<1>5. ASSUME NEW c \in Callers, NEW k \in Keys, getOrFetch(c, k) PROVE CacheInv'
  BY <1>5, ContentsGet, FetchAsked DEF getOrFetch, ContentsInv
<1>6. ASSUME NEW c \in Callers, FetchReads(c) PROVE CacheInv'
  BY <1>6, ContentsUnchanged, FetchRead DEF FetchReads
<1>7. ASSUME NEW c \in Callers, FetchReturns(c) PROVE CacheInv'
  <2>1. callers[c].key \in Keys /\ callers[c].value \in Value
    BY <1>7 DEF FetchReturns, FetchInv, FetchHasKey, FetchTypeOK
  <2>2. ContentsInv' /\ clock' \in Nat
    BY <1>7, <2>1, ContentsSet DEF FetchReturns
  <2>3. FetchInv'
    BY <1>7, <2>1, FetchEnded DEF FetchReturns
  <2> QED
    BY <2>2, <2>3
<1>8. ASSUME NEW c \in Callers, FetchFails(c) PROVE CacheInv'
  <2>1. ContentsInv' /\ clock' \in Nat
    BY <1>8, ContentsUnchanged DEF FetchFails
  <2>2. FetchInv'
    BY <1>8, FetchEnded DEF FetchFails, Value
  <2> QED
    BY <2>1, <2>2
<1>9. ASSUME NEW k \in Keys, SourceChanges(k) PROVE CacheInv'
  <2>1. FetchInv'
    BY <1>9 DEF SourceChanges, FetchInv, FetchTypeOK, FetchHasKey, OneFetch
  <2> QED
    BY <1>9, <2>1, ContentsUnchanged DEF SourceChanges
<1>10. CASE ClockTicks
  BY <1>10, ContentsUnchanged, FetchUnchanged DEF ClockTicks
<1>11. CASE UNCHANGED cacheVars
  BY <1>11, ContentsUnchanged, FetchUnchanged DEF cacheVars
<1> QED
  BY <1>1, <1>2, <1>3, <1>4, <1>5, <1>6, <1>7, <1>8, <1>9, <1>10, <1>11 DEF CacheNext

\* A hit is the value stored last, at most a time to live ago; what is held can be evicted; and
\* callers share one fetch per key (lib/cache/index.ts), for any number of keys and callers.
THEOREM CacheIsSound == CacheSpec => []CacheSound
<1>1. CacheInit => CacheInv
  BY InitSound
<1>2. CacheInv /\ [CacheNext]_cacheVars => CacheInv'
  BY StepSound
<1>3. CacheInv => CacheSound
  BY InvImpliesSound
<1> QED
  BY <1>1, <1>2, <1>3, PTL DEF CacheSpec

-----------------------------------------------------------------------------
(* The arbitrage executor.                                                 *)

Outcome == {"cancelled", "cancel_failed"}
LegResult(c) == [id : {c} \X {1, 2}, result : Answer]

Record(pc, opportunity, size, order, results, outcomes) ==
  [pc |-> pc, opportunity |-> opportunity, size |-> size, order |-> order,
   results |-> results, outcomes |-> outcomes]

\* The fields of a call, its outcomes no further than its results, each of its own leg.
Shape(c, k) ==
  /\ k = Record(k.pc, k.opportunity, k.size, k.order, k.results, k.outcomes)
  /\ k.results \in Seq(LegResult(c)) /\ k.outcomes \in Seq(Outcome)
  /\ Len(k.outcomes) <= Len(k.results) /\ Len(k.results) <= 2
  /\ \A i \in 1..Len(k.results) : k.results[i].id = <<c, i>>

\* Where a call is, its results and outcomes agree.
Progress(c, k) ==
  /\ k.pc = "new" => k.results = <<>> /\ k.outcomes = <<>>
  /\ k.pc = "submitting" => Len(k.results) < 2 /\ k.order = <<c, Len(k.results) + 1>>
  /\ k.pc = "cancelling" => Len(k.outcomes) < Len(k.results)

\* What accounts for a live order between two steps of its call.
Reported(k, leg) == leg \in 1..Len(k.outcomes) /\ k.outcomes[leg] = "cancel_failed"
Pending(k, leg) == Len(k.outcomes) < leg /\ leg <= Len(k.results)
Quiet(c, k) ==
  \A leg \in {1, 2} :
    /\ venue[<<c, leg>>] # "travelling"
    /\ IsLive(<<c, leg>>) => <<c, leg>> \in lost \/ Reported(k, leg) \/ Pending(k, leg)

\* What accounts for it at any time.
LegsKnown(c, k) ==
  \A leg \in {1, 2} :
    /\ venue[<<c, leg>>] = "travelling" =>
         k.pc = "submitting" /\ reply[c] = "waiting" /\ leg = Len(k.results) + 1
    /\ IsLive(<<c, leg>>) =>
         \/ <<c, leg>> \in lost
         \/ Reported(k, leg)
         \/ /\ Pending(k, leg) /\ k.pc # "failed"
            /\ ~ (k.pc = "cancelling" /\ reply[c] = "ok" /\ leg = Len(k.outcomes) + 1)
         \/ leg = Len(k.results) + 1 /\ k.pc = "submitting" /\ reply[c] \in FinalState

CallInv(c) == Shape(c, call[c]) /\ Progress(c, call[c]) /\ LegsKnown(c, call[c])

LiveInv ==
  /\ ~onPaper
  /\ DOMAIN call = Calls /\ reply \in [Calls -> Answer]
  /\ venue \in [Orders -> FinalState \cup {"none", "travelling"}]
  /\ \A c \in Calls : CallInv(c)

PaperInv == onPaper /\ venue = [o \in Orders |-> "none"]

ArbInv == PaperInv \/ LiveInv

\* What the assignments to a call make of its record.
LEMMA Updates ==
  ASSUME NEW k, NEW a,
         k = Record(k.pc, k.opportunity, k.size, k.order, k.results, k.outcomes)
  PROVE  /\ [k EXCEPT !.results = a] = Record(k.pc, k.opportunity, k.size, k.order, a, k.outcomes)
         /\ [k EXCEPT !.outcomes = a] = Record(k.pc, k.opportunity, k.size, k.order, k.results, a)
BY DEF Record

LEMMA InvCompletes == ArbInv => RollbackComplete
<1> SUFFICES ASSUME ArbInv, NEW c \in Calls, call[c].pc = "failed",
                    NEW leg \in {1, 2}, IsLive(<<c, leg>>)
             PROVE  \/ <<c, leg>> \in lost
                    \/ leg \in DOMAIN call[c].outcomes /\ call[c].outcomes[leg] = "cancel_failed"
  BY DEF RollbackComplete
<1>1. <<c, leg>> \in Orders
  BY DEF Orders
<1>2. CASE PaperInv
  BY <1>1, <1>2 DEF PaperInv, IsLive
<1>3. CASE LiveInv
  <2>1. LegsKnown(c, call[c]) /\ Shape(c, call[c])
    BY <1>3 DEF LiveInv, CallInv
  <2>2. <<c, leg>> \in lost \/ Reported(call[c], leg)
    BY <2>1 DEF LegsKnown
  <2> QED
    BY <2>1, <2>2 DEF Reported, Shape
<1> QED
  BY <1>2, <1>3 DEF ArbInv

LEMMA InitKnown == ArbInit => ArbInv
<1> SUFFICES ASSUME ArbInit PROVE ArbInv
  OBVIOUS
<1>1. CASE onPaper
  BY <1>1 DEF ArbInit, ArbInv, PaperInv
<1>2. CASE ~onPaper
  <2>1. /\ DOMAIN call = Calls /\ reply \in [Calls -> Answer]
        /\ venue \in [Orders -> FinalState \cup {"none", "travelling"}]
    BY DEF ArbInit, Answer
  <2>2. ASSUME NEW c \in Calls PROVE CallInv(c)
    <3>1. call[c] = NewCall
      BY DEF ArbInit
    <3>2. Shape(c, NewCall) /\ Progress(c, NewCall)
      BY DEF Shape, Progress, NewCall, Record
    <3>3. \A leg \in {1, 2} : venue[<<c, leg>>] = "none"
      BY DEF ArbInit, Orders
    <3> QED
      BY <3>1, <3>2, <3>3 DEF CallInv, LegsKnown, IsLive
  <2> QED
    BY <1>2, <2>1, <2>2 DEF ArbInv, LiveInv
<1> QED
  BY <1>1, <1>2

-----------------------------------------------------------------------------
(* On paper.                                                               *)

LEMMA PaperStep == PaperInv /\ [ArbNext]_arbVars => PaperInv'
<1> SUFFICES ASSUME PaperInv, [ArbNext]_arbVars PROVE PaperInv'
  OBVIOUS
<1> USE DEF PaperInv
<1>1. ASSUME NEW c \in Calls, NEW k, rollbackAndFail(c, k) PROVE UNCHANGED venue
  BY <1>1 DEF rollbackAndFail, cancels
<1>2. ASSUME NEW c \in Calls, NEW k, nextLeg(c, k) PROVE UNCHANGED venue
  BY <1>1, <1>2 DEF nextLeg, submits
<1>3. ASSUME NEW c \in Calls, NEW q \in Quotes, execute(c, q) PROVE PaperInv'
  BY <1>2, <1>3 DEF execute
<1>4. ASSUME NEW c \in Calls, legReturns(c) PROVE PaperInv'
  BY <1>1, <1>2, <1>4 DEF legReturns
<1>5. ASSUME NEW c \in Calls, cancelReturns(c) PROVE PaperInv'
  BY <1>1, <1>5 DEF cancelReturns
<1>6. ASSUME NEW c \in Calls, NEW leg \in {1, 2}, VenueAnswers(c, leg) \/ SubmitTimesOut(c, leg)
      PROVE  PaperInv'
  BY <1>6 DEF VenueAnswers, SubmitTimesOut, Orders
<1>7. ASSUME NEW c \in Calls, VenueCancels(c) PROVE PaperInv'
  BY <1>7 DEF VenueCancels
<1>8. ASSUME NEW o \in Orders, VenueFills(o) PROVE PaperInv'
  BY <1>8 DEF VenueFills, IsLive
<1>9. CASE Pass \/ UNCHANGED arbVars
  BY <1>9 DEF Pass, arbVars
<1> QED
  BY <1>3, <1>4, <1>5, <1>6, <1>7, <1>8, <1>9 DEF ArbNext

-----------------------------------------------------------------------------
(* At the exchange: one call moves, the others see nothing of it.            *)

LEMMA OthersKeep ==
  ASSUME LiveInv, NEW c \in Calls, onPaper' = onPaper, lost \subseteq lost',
         DOMAIN call' = Calls, \A d \in Calls \ {c} : call'[d] = call[d],
         reply' \in [Calls -> Answer], \A d \in Calls \ {c} : reply'[d] = reply[d],
         venue' \in [Orders -> FinalState \cup {"none", "travelling"}],
         \A d \in Calls \ {c}, leg \in {1, 2} : venue'[<<d, leg>>] = venue[<<d, leg>>],
         CallInv(c)'
  PROVE  LiveInv'
<1>1. ASSUME NEW d \in Calls \ {c} PROVE CallInv(d)'
  <2>1. CallInv(d) /\ call'[d] = call[d] /\ reply'[d] = reply[d]
    BY DEF LiveInv
  <2>2. \A leg \in {1, 2} : IsLive(<<d, leg>>)' <=> IsLive(<<d, leg>>)
    BY DEF IsLive
  <2>3. LegsKnown(d, call[d])'
    BY <2>1, <2>2 DEF CallInv, LegsKnown
  <2> QED
    BY <2>1, <2>3 DEF CallInv, Shape, Progress
<1> QED
  BY <1>1 DEF LiveInv

\* A rollback accounts for every order that was accounted for between two steps.
LEMMA RollbackKnown ==
  ASSUME LiveInv, NEW c \in Calls, NEW k, Shape(c, k), Quiet(c, k), rollbackAndFail(c, k),
         UNCHANGED <<onPaper, lost>>
  PROVE  LiveInv'
<1> USE DEF LiveInv
<1>1. CASE Len(k.outcomes) = Len(k.results)
  <2> DEFINE n == [k EXCEPT !.pc = "failed"]
  <2>1. /\ n.pc = "failed" /\ n.results = k.results /\ n.outcomes = k.outcomes
        /\ Shape(c, n)
    BY DEF Shape, Record
  <2>2. call' = [call EXCEPT ![c] = n] /\ reply' = [reply EXCEPT ![c] = "none"] /\ venue' = venue
    BY <1>1 DEF rollbackAndFail
  <2> HIDE DEF n
  <2>3. call'[c] = n
    BY <2>2
  <2>p. \A leg \in {1, 2} : ~Pending(k, leg)
    BY <1>1 DEF Pending, Shape
  <2>4. LegsKnown(c, n)'
    BY <2>p, <2>1, <2>2 DEF LegsKnown, Quiet, Reported, IsLive
  <2>5. CallInv(c)'
    BY <2>1, <2>3, <2>4 DEF CallInv, Progress
  <2> QED
    BY <2>2, <2>5, OthersKeep DEF Answer
<1>2. CASE Len(k.outcomes) # Len(k.results)
  <2> DEFINE n == [k EXCEPT !.pc = "cancelling"]
             id == k.results[Len(k.outcomes) + 1].id
  <2>1. /\ n.pc = "cancelling" /\ n.results = k.results /\ n.outcomes = k.outcomes
        /\ Shape(c, n)
    BY DEF Shape, Record
  <2>2. call' = [call EXCEPT ![c] = n] /\ venue' = venue
        /\ reply' = [reply EXCEPT ![c] = IF id \in active THEN "waiting" ELSE "error"]
    BY <1>2 DEF rollbackAndFail, cancels
  <2> HIDE DEF n, id
  <2>3. call'[c] = n /\ reply'[c] \in {"waiting", "error"} /\ reply' \in [Calls -> Answer]
    BY <2>2 DEF Answer
  <2>4. Progress(c, n)
    BY <1>2, <2>1 DEF Progress, Shape
  <2>5. LegsKnown(c, n)'
    BY <2>1, <2>2, <2>3 DEF LegsKnown, Quiet, Reported, Pending, IsLive
  <2>6. CallInv(c)'
    BY <2>1, <2>3, <2>4, <2>5 DEF CallInv, Shape, Progress
  <2> QED
    BY <2>2, <2>3, <2>6, OthersKeep
<1> QED
  BY <1>1, <1>2

\* So does the next submission.
LEMMA NextLegKnown ==
  ASSUME LiveInv, NEW c \in Calls, NEW k, Shape(c, k), Quiet(c, k), nextLeg(c, k),
         UNCHANGED <<onPaper, lost>>
  PROVE  LiveInv'
<1> USE DEF LiveInv
<1> DEFINE leg == Len(k.results) + 1
<1>1. CASE leg > 2
  <2> DEFINE n == [k EXCEPT !.pc = "ok"]
  <2>1. /\ n.pc = "ok" /\ n.results = k.results /\ n.outcomes = k.outcomes
        /\ Shape(c, n)
    BY DEF Shape, Record
  <2>2. call' = [call EXCEPT ![c] = n] /\ reply' = [reply EXCEPT ![c] = "none"] /\ venue' = venue
    BY <1>1 DEF nextLeg
  <2> HIDE DEF n
  <2>3. call'[c] = n
    BY <2>2
  <2>4. LegsKnown(c, n)'
    BY <2>1, <2>2 DEF LegsKnown, Quiet, Reported, Pending, IsLive
  <2>5. CallInv(c)'
    BY <2>1, <2>3, <2>4 DEF CallInv, Progress
  <2> QED
    BY <2>2, <2>5, OthersKeep DEF Answer
<1>2. CASE ~ (leg > 2) /\ LegPrice(k.opportunity, leg) <= 0
  BY <1>2, RollbackKnown DEF nextLeg
<1>3. CASE ~ (leg > 2) /\ ~ (LegPrice(k.opportunity, leg) <= 0)
  <2> DEFINE n == [k EXCEPT !.pc = "submitting", !.order = <<c, leg>>]
  <2>0. n = Record("submitting", k.opportunity, k.size, <<c, leg>>, k.results, k.outcomes)
    <3> DEFINE at == <<c, leg>>
               j == [k EXCEPT !.pc = "submitting"]
    <3>1. j = Record("submitting", k.opportunity, k.size, k.order, k.results, k.outcomes)
      BY DEF Shape, Record
    <3>2. n = [j EXCEPT !.order = at]
      OBVIOUS
    <3> HIDE DEF j, at, n
    <3>3. n = Record("submitting", k.opportunity, k.size, at, k.results, k.outcomes)
      BY <3>1, <3>2 DEF Record
    <3> QED
      BY <3>3 DEF at
  <2>1. /\ n.pc = "submitting" /\ n.order = <<c, leg>>
        /\ n.results = k.results /\ n.outcomes = k.outcomes
        /\ Shape(c, n)
    <3> HIDE DEF n, leg
    <3>1. /\ n.pc = "submitting" /\ n.order = <<c, leg>> /\ n.opportunity = k.opportunity
          /\ n.size = k.size /\ n.results = k.results /\ n.outcomes = k.outcomes
      BY <2>0 DEF Record
    <3> QED
      BY <2>0, <3>1 DEF Shape
  <2>2. /\ call' = [call EXCEPT ![c] = n] /\ reply' = [reply EXCEPT ![c] = "waiting"]
        /\ venue' = [venue EXCEPT ![<<c, leg>>] = "travelling"]
    BY <1>3 DEF nextLeg, NextId, submits
  <2>3. leg \in {1, 2}
    BY <1>3 DEF Shape
  <2> HIDE DEF n, leg
  <2>4. call'[c] = n /\ reply'[c] = "waiting" /\ reply' \in [Calls -> Answer]
    BY <2>2 DEF Answer
  <2>5. /\ venue' \in [Orders -> FinalState \cup {"none", "travelling"}]
        /\ venue'[<<c, leg>>] = "travelling"
        /\ \A o \in Orders : o # <<c, leg>> => venue'[o] = venue[o]
    BY <2>2, <2>3 DEF Orders
  <2>6. Progress(c, n)
    BY <2>1, <2>3 DEF Progress, leg, Shape
  <2>7. LegsKnown(c, n)'
    <3> SUFFICES ASSUME NEW l \in {1, 2}
                 PROVE  /\ venue'[<<c, l>>] = "travelling" => l = leg
                        /\ IsLive(<<c, l>>)' => \/ <<c, l>> \in lost \/ Reported(k, l) \/ Pending(k, l)
      BY <2>1, <2>4 DEF LegsKnown, leg, Reported, Pending
    <3>1. CASE l = leg
      BY <2>5, <3>1 DEF IsLive, FinalState
    <3>2. CASE l # leg
      <4>1. venue'[<<c, l>>] = venue[<<c, l>>]
        BY <2>3, <2>5, <3>2 DEF Orders
      <4> QED
        BY <4>1 DEF IsLive, Quiet
    <3> QED
      BY <3>1, <3>2
  <2>8. CallInv(c)'
    BY <2>1, <2>4, <2>6, <2>7 DEF CallInv, Shape, Progress
  <2>9. \A d \in Calls \ {c}, l \in {1, 2} : venue'[<<d, l>>] = venue[<<d, l>>]
    BY <2>5 DEF Orders
  <2> QED
    BY <2>2, <2>4, <2>5, <2>8, <2>9, OthersKeep
<1> QED
  BY <1>1, <1>2, <1>3

-----------------------------------------------------------------------------
(* The steps of a call.                                                     *)

LEMMA ExecuteKnown ==
  ASSUME LiveInv, NEW c \in Calls, NEW q \in Quotes, execute(c, q)
  PROVE  LiveInv'
<1> USE DEF LiveInv
<1> DEFINE opportunity == checkArbitrage(q, config.feeRate)
           size == calcOptimalSize(opportunity, config.maxExposure * config.safetyPct,
                                   100 * config.availableBalance)
           k == [NewCall EXCEPT !.opportunity = opportunity, !.size = size]
           refused == opportunity.net < config.minNetProfit \/ size = 0
<1>1. /\ call[c].pc = "new" /\ UNCHANGED <<onPaper, lost>>
      /\ IF refused
         THEN /\ call' = [call EXCEPT ![c] = [k EXCEPT !.pc = "refused"]]
              /\ UNCHANGED <<reply, venue>>
         ELSE nextLeg(c, k)
  BY DEF execute
<1> HIDE DEF opportunity, size, refused, k
<1>2. k = Record("new", opportunity, size, 0, <<>>, <<>>)
  <2> DEFINE j == [NewCall EXCEPT !.opportunity = opportunity]
  <2>1. j = Record("new", opportunity, 0, 0, <<>>, <<>>)
    BY DEF NewCall, Record
  <2>2. k = [j EXCEPT !.size = size]
    BY DEF k
  <2> HIDE DEF j
  <2> QED
    BY <2>1, <2>2 DEF Record
<1>3. Shape(c, k) /\ k.results = <<>> /\ k.outcomes = <<>>
  <2>1. /\ k.pc = "new" /\ k.opportunity = opportunity /\ k.size = size /\ k.order = 0
        /\ k.results = <<>> /\ k.outcomes = <<>>
    BY <1>2 DEF Record
  <2>2. Len(k.results) = 0 /\ Len(k.outcomes) = 0
        /\ k.results \in Seq(LegResult(c)) /\ k.outcomes \in Seq(Outcome)
    BY <2>1
  <2> QED
    BY <1>2, <2>1, <2>2 DEF Shape
<1>4. \A leg \in {1, 2} : venue[<<c, leg>>] # "travelling"
                          /\ (IsLive(<<c, leg>>) => <<c, leg>> \in lost)
  <2>1. Progress(c, call[c]) /\ LegsKnown(c, call[c]) /\ call[c].pc = "new"
    BY <1>1 DEF CallInv
  <2>2. Len(call[c].results) = 0 /\ Len(call[c].outcomes) = 0
    BY <2>1 DEF Progress
  <2> QED
    BY <2>1, <2>2 DEF LegsKnown, Reported, Pending
<1>5. CASE refused
  <2> DEFINE n == [k EXCEPT !.pc = "refused"]
  <2>1. n.pc = "refused" /\ n.results = <<>> /\ n.outcomes = <<>> /\ Shape(c, n)
    BY <1>2, <1>3 DEF Shape, Record
  <2>2. call' = [call EXCEPT ![c] = n] /\ UNCHANGED <<reply, venue>>
    BY <1>1, <1>5
  <2> HIDE DEF n
  <2>3. LegsKnown(c, call[c])'
    <3>1. venue' = venue /\ lost' = lost
      BY <1>1, <2>2
    <3> QED
      BY <1>4, <3>1 DEF LegsKnown, IsLive
  <2>4. Shape(c, call'[c]) /\ Progress(c, call'[c])
    BY <2>1, <2>2 DEF Progress
  <2>5. CallInv(c)'
    BY <2>3, <2>4 DEF CallInv, Shape, Progress
  <2> QED
    BY <1>1, <2>2, <2>5, OthersKeep
<1>6. CASE ~refused
  <2>1. Quiet(c, k)
    BY <1>4 DEF Quiet
  <2> QED
    BY <1>1, <1>3, <1>6, <2>1, NextLegKnown
<1> QED
  BY <1>5, <1>6

LEMMA LegReturnsKnown ==
  ASSUME LiveInv, NEW c \in Calls, legReturns(c)
  PROVE  LiveInv'
<1> USE DEF LiveInv
<1> DEFINE k == call[c]
<1>1. /\ k.pc = "submitting" /\ reply[c] \notin {"none", "waiting"}
      /\ UNCHANGED <<onPaper, lost>>
      /\ Shape(c, k) /\ Progress(c, k) /\ LegsKnown(c, k)
  BY DEF legReturns, CallInv
<1>2. CASE reply[c] = "error"
  <2>1. Quiet(c, k)
    BY <1>1, <1>2 DEF LegsKnown, Quiet, FinalState
  <2> QED
    BY <1>1, <1>2, <2>1, RollbackKnown DEF legReturns
<1>3. CASE reply[c] # "error"
  <2> DEFINE last == [id |-> k.order, result |-> reply[c]]
             n == [k EXCEPT !.results = Append(@, last)]
  <2>1. nextLeg(c, n)
    BY <1>3, Zenon DEF legReturns
  <2>2. last \in LegResult(c) /\ last.id = <<c, Len(k.results) + 1>>
    <3>1. Len(k.results) + 1 \in {1, 2} /\ k.order = <<c, Len(k.results) + 1>>
      BY <1>1 DEF Progress, Shape
    <3>2. k.order \in {c} \X {1, 2} /\ reply[c] \in Answer
      BY <3>1
    <3> QED
      BY <3>1, <3>2 DEF LegResult
  <2>3. /\ Append(k.results, last) \in Seq(LegResult(c))
        /\ Len(Append(k.results, last)) = Len(k.results) + 1
        /\ \A i \in 1..Len(k.results) : Append(k.results, last)[i] = k.results[i]
        /\ Append(k.results, last)[Len(k.results) + 1] = last
    BY <1>1, <2>2, AppendProperties DEF Shape
  <2> HIDE DEF last
  <2>4. n = Record(k.pc, k.opportunity, k.size, k.order, Append(k.results, last), k.outcomes)
    <3>1. \A a : [k EXCEPT !.results = a]
                   = Record(k.pc, k.opportunity, k.size, k.order, a, k.outcomes)
      BY <1>1, Updates DEF Shape
    <3> QED
      BY <3>1, Zenon
  <2> HIDE DEF n, k
  <2>5. n.results = Append(k.results, last) /\ n.outcomes = k.outcomes /\ n.pc = k.pc
    BY <2>4 DEF Record
  <2>6. Shape(c, n)
    <3>1. \A i \in 1..Len(n.results) : n.results[i].id = <<c, i>>
      BY <1>1, <2>2, <2>3, <2>5 DEF Shape
    <3>2. n = Record(n.pc, n.opportunity, n.size, n.order, n.results, n.outcomes)
      BY <2>4 DEF Record
    <3> QED
      BY <1>1, <2>3, <2>5, <3>1, <3>2 DEF Shape, Progress
  <2>7. Quiet(c, n)
    <3> SUFFICES ASSUME NEW leg \in {1, 2}
                 PROVE  /\ venue[<<c, leg>>] # "travelling"
                        /\ IsLive(<<c, leg>>) =>
                             <<c, leg>> \in lost \/ Reported(n, leg) \/ Pending(n, leg)
      BY DEF Quiet
    <3>1. venue[<<c, leg>>] # "travelling"
      BY <1>1 DEF LegsKnown
    <3>2. Len(k.results) \in Nat /\ Len(k.outcomes) \in Nat /\ Len(k.outcomes) <= Len(k.results)
      BY <1>1 DEF Shape
    <3>3. Reported(k, leg) => Reported(n, leg)
      BY <2>5 DEF Reported
    <3>4. Pending(k, leg) \/ leg = Len(k.results) + 1 => Pending(n, leg)
      BY <2>3, <2>5, <3>2 DEF Pending
    <3>5. IsLive(<<c, leg>>) => \/ <<c, leg>> \in lost \/ Reported(k, leg) \/ Pending(k, leg)
                                \/ leg = Len(k.results) + 1
      BY <1>1 DEF LegsKnown
    <3> QED
      BY <3>1, <3>3, <3>4, <3>5
  <2> QED
    BY <1>1, <2>1, <2>6, <2>7, NextLegKnown
<1> QED
  BY <1>2, <1>3

LEMMA CancelReturnsKnown ==
  ASSUME LiveInv, NEW c \in Calls, cancelReturns(c)
  PROVE  LiveInv'
<1> USE DEF LiveInv
<1> DEFINE k == call[c]
           said == IF reply[c] = "ok" THEN "cancelled" ELSE "cancel_failed"
           n == [k EXCEPT !.outcomes = Append(@, said)]
<1>1. /\ k.pc = "cancelling" /\ reply[c] \notin {"none", "waiting"}
      /\ UNCHANGED <<onPaper, lost>> /\ rollbackAndFail(c, n)
      /\ Shape(c, k) /\ Progress(c, k) /\ LegsKnown(c, k)
  BY DEF cancelReturns, CallInv
<1>2. said \in Outcome
  BY DEF Outcome
<1>3. /\ Append(k.outcomes, said) \in Seq(Outcome)
      /\ Len(Append(k.outcomes, said)) = Len(k.outcomes) + 1
      /\ \A i \in 1..Len(k.outcomes) : Append(k.outcomes, said)[i] = k.outcomes[i]
      /\ Append(k.outcomes, said)[Len(k.outcomes) + 1] = said
  BY <1>1, <1>2, AppendProperties DEF Shape
<1>4. n = Record(k.pc, k.opportunity, k.size, k.order, k.results, Append(k.outcomes, said))
  BY <1>1, Updates DEF Shape
<1>s. reply[c] # "ok" => said = "cancel_failed"
  OBVIOUS
<1> HIDE DEF n, k, said
<1>5. n.results = k.results /\ n.outcomes = Append(k.outcomes, said) /\ n.pc = k.pc
  BY <1>4 DEF Record
<1>6. Shape(c, n)
  <2>1. n = Record(n.pc, n.opportunity, n.size, n.order, n.results, n.outcomes)
    BY <1>4 DEF Record
  <2>2. Len(k.outcomes) + 1 <= Len(k.results)
    BY <1>1 DEF Shape, Progress
  <2> QED
    BY <1>1, <1>3, <1>5, <2>1, <2>2 DEF Shape
<1>7. Quiet(c, n)
  <2> SUFFICES ASSUME NEW leg \in {1, 2}
               PROVE  /\ venue[<<c, leg>>] # "travelling"
                      /\ IsLive(<<c, leg>>) =>
                           <<c, leg>> \in lost \/ Reported(n, leg) \/ Pending(n, leg)
    BY DEF Quiet
  <2>1. venue[<<c, leg>>] # "travelling"
    BY <1>1 DEF LegsKnown
  <2>2. Len(k.results) \in Nat /\ Len(k.outcomes) \in Nat /\ Len(k.outcomes) <= Len(k.results)
    BY <1>1 DEF Shape
  <2>3. Reported(k, leg) => Reported(n, leg)
    BY <1>3, <1>5, <2>2 DEF Reported
  <2>4. Pending(k, leg) => leg = Len(k.outcomes) + 1 \/ Pending(n, leg)
    BY <1>3, <1>5, <2>2 DEF Pending
  <2>5. leg = Len(k.outcomes) + 1 /\ reply[c] # "ok" => Reported(n, leg)
    BY <1>3, <1>5, <1>s, <2>2 DEF Reported
  <2>6. IsLive(<<c, leg>>) =>
          \/ <<c, leg>> \in lost \/ Reported(k, leg)
          \/ Pending(k, leg) /\ ~ (reply[c] = "ok" /\ leg = Len(k.outcomes) + 1)
    BY <1>1 DEF LegsKnown
  <2> QED
    BY <2>1, <2>3, <2>4, <2>5, <2>6
<1> QED
  BY <1>1, <1>6, <1>7, RollbackKnown

-----------------------------------------------------------------------------
(* The steps of the exchange.                                               *)

LEMMA AnswerKnown ==
  ASSUME LiveInv, NEW c \in Calls, NEW leg \in {1, 2}, VenueAnswers(c, leg)
  PROVE  LiveInv'
<1> USE DEF LiveInv
<1> DEFINE o == <<c, leg>>
<1>1. PICK answer \in FinalState \cup {"error"} :
        /\ reply' = [reply EXCEPT ![c] = answer]
        /\ venue' = [venue EXCEPT ![o] = IF answer = "error" THEN "none" ELSE answer]
  BY DEF VenueAnswers
<1>2. /\ UNCHANGED <<onPaper, call, lost>> /\ reply[c] = "waiting" /\ venue[o] = "travelling"
      /\ Shape(c, call[c]) /\ Progress(c, call[c]) /\ LegsKnown(c, call[c])
  BY DEF VenueAnswers, CallInv
<1>3. call[c].pc = "submitting" /\ leg = Len(call[c].results) + 1
  BY <1>2 DEF LegsKnown
<1>4. /\ o \in Orders /\ venue' \in [Orders -> FinalState \cup {"none", "travelling"}]
      /\ venue'[o] = IF answer = "error" THEN "none" ELSE answer
      /\ \A x \in Orders : x # o => venue'[x] = venue[x]
      /\ reply' \in [Calls -> Answer] /\ reply'[c] = answer
  BY <1>1 DEF Orders, Answer
<1>5. LegsKnown(c, call[c])'
  <2> SUFFICES ASSUME NEW l \in {1, 2}
               PROVE  /\ venue'[<<c, l>>] # "travelling"
                      /\ IsLive(<<c, l>>)' =>
                           \/ <<c, l>> \in lost \/ Reported(call[c], l) \/ Pending(call[c], l)
                           \/ l = leg /\ answer \in FinalState
    BY <1>2, <1>3, <1>4 DEF LegsKnown, Reported, Pending
  <2>1. CASE l = leg
    BY <1>4, <2>1 DEF IsLive, FinalState
  <2>2. CASE l # leg
    <3>1. venue'[<<c, l>>] = venue[<<c, l>>]
      BY <1>4, <2>2 DEF Orders
    <3> QED
      BY <1>2, <1>3, <2>2, <3>1 DEF IsLive, LegsKnown
  <2> QED
    BY <2>1, <2>2
<1>6. CallInv(c)'
  BY <1>2, <1>5 DEF CallInv, Shape, Progress
<1>7. \A d \in Calls \ {c}, l \in {1, 2} : venue'[<<d, l>>] = venue[<<d, l>>]
  BY <1>4 DEF Orders
<1> QED
  BY <1>1, <1>2, <1>4, <1>6, <1>7, OthersKeep

LEMMA TimeoutKnown ==
  ASSUME LiveInv, NEW c \in Calls, NEW leg \in {1, 2}, SubmitTimesOut(c, leg)
  PROVE  LiveInv'
<1> USE DEF LiveInv
<1> DEFINE o == <<c, leg>>
<1>1. PICK taken \in {"none", "open"} : venue' = [venue EXCEPT ![o] = taken]
  BY DEF SubmitTimesOut
<1>2. /\ UNCHANGED <<onPaper, call>> /\ lost' = lost \cup {o}
      /\ reply[c] = "waiting" /\ venue[o] = "travelling"
      /\ reply' = [reply EXCEPT ![c] = "error"]
      /\ Shape(c, call[c]) /\ Progress(c, call[c]) /\ LegsKnown(c, call[c])
  BY DEF SubmitTimesOut, CallInv
<1>3. call[c].pc = "submitting" /\ leg = Len(call[c].results) + 1
  BY <1>2 DEF LegsKnown
<1>4. /\ o \in Orders /\ venue' \in [Orders -> FinalState \cup {"none", "travelling"}]
      /\ venue'[o] = taken
      /\ \A x \in Orders : x # o => venue'[x] = venue[x]
      /\ reply' \in [Calls -> Answer] /\ reply'[c] = "error"
  BY <1>1, <1>2 DEF Orders, Answer, FinalState
<1>5. LegsKnown(c, call[c])'
  <2> SUFFICES ASSUME NEW l \in {1, 2}
               PROVE  /\ venue'[<<c, l>>] # "travelling"
                      /\ IsLive(<<c, l>>)' =>
                           <<c, l>> \in lost' \/ Reported(call[c], l) \/ Pending(call[c], l)
    BY <1>2, <1>3, <1>4 DEF LegsKnown, Reported, Pending
  <2>1. CASE l = leg
    BY <1>2, <1>4, <2>1 DEF IsLive
  <2>2. CASE l # leg
    <3>1. venue'[<<c, l>>] = venue[<<c, l>>]
      BY <1>4, <2>2 DEF Orders
    <3> QED
      BY <1>2, <1>3, <2>2, <3>1 DEF IsLive, LegsKnown
  <2> QED
    BY <2>1, <2>2
<1>6. CallInv(c)'
  BY <1>2, <1>5 DEF CallInv, Shape, Progress
<1>7. \A d \in Calls \ {c}, l \in {1, 2} : venue'[<<d, l>>] = venue[<<d, l>>]
  BY <1>4 DEF Orders
<1> QED
  BY <1>2, <1>4, <1>6, <1>7, OthersKeep

LEMMA VenueCancelsKnown ==
  ASSUME LiveInv, NEW c \in Calls, VenueCancels(c)
  PROVE  LiveInv'
<1> USE DEF LiveInv
<1> DEFINE leg == Len(call[c].outcomes) + 1
           o == <<c, leg>>
<1>1. /\ UNCHANGED <<onPaper, call, lost>> /\ reply[c] = "waiting" /\ call[c].pc = "cancelling"
      /\ Shape(c, call[c]) /\ Progress(c, call[c]) /\ LegsKnown(c, call[c])
  BY DEF VenueCancels, CallInv
<1>2. leg \in {1, 2} /\ leg \in 1..Len(call[c].results)
  BY <1>1 DEF Progress, Shape
<1>3. Cancelled(c) = o /\ o \in Orders
  BY <1>1, <1>2 DEF Cancelled, Shape, Orders
<1>4. \/ /\ IsLive(o) /\ venue' = [venue EXCEPT ![o] = "cancelled"]
         /\ \E answer \in {"ok", "error"} : reply' = [reply EXCEPT ![c] = answer]
      \/ reply' = [reply EXCEPT ![c] = "error"] /\ UNCHANGED venue
  BY <1>3 DEF VenueCancels
<1> HIDE DEF leg
<1>5. /\ venue' \in [Orders -> FinalState \cup {"none", "travelling"}]
      /\ reply' \in [Calls -> Answer] /\ reply'[c] \in {"ok", "error"}
      /\ \A d \in Calls \ {c} : reply'[d] = reply[d]
      /\ reply'[c] = "ok" => venue'[o] = "cancelled"
      /\ \A x \in Orders : venue'[x] = venue[x] \/ venue'[x] = "cancelled"
      /\ \A x \in Orders : x # o => venue'[x] = venue[x]
  BY <1>3, <1>4 DEF Answer, FinalState
<1>6. LegsKnown(c, call[c])'
  <2> SUFFICES ASSUME NEW l \in {1, 2}
               PROVE  /\ venue'[<<c, l>>] # "travelling"
                      /\ IsLive(<<c, l>>)' =>
                           \/ <<c, l>> \in lost \/ Reported(call[c], l)
                           \/ Pending(call[c], l) /\ ~ (reply'[c] = "ok" /\ l = leg)
    BY <1>1 DEF LegsKnown, Reported, Pending, leg
  <2>1. <<c, l>> \in Orders
    BY DEF Orders
  <2>2. venue[<<c, l>>] # "travelling"
        /\ (IsLive(<<c, l>>) => <<c, l>> \in lost \/ Reported(call[c], l) \/ Pending(call[c], l))
    BY <1>1 DEF LegsKnown
  <2>3. IsLive(<<c, l>>)' => IsLive(<<c, l>>) /\ ~ (reply'[c] = "ok" /\ l = leg)
    BY <1>5, <2>1 DEF IsLive
  <2> QED
    BY <1>5, <2>1, <2>2, <2>3
<1>7. CallInv(c)'
  BY <1>1, <1>6 DEF CallInv, Shape, Progress
<1>8. \A d \in Calls \ {c}, l \in {1, 2} : venue'[<<d, l>>] = venue[<<d, l>>]
  BY <1>5 DEF Orders
<1> QED
  BY <1>1, <1>5, <1>7, <1>8, OthersKeep

LEMMA FillKnown ==
  ASSUME LiveInv, NEW o \in Orders, VenueFills(o)
  PROVE  LiveInv'
<1> USE DEF LiveInv
<1>1. /\ UNCHANGED <<onPaper, call, reply, lost>> /\ IsLive(o)
      /\ venue' \in [Orders -> FinalState \cup {"none", "travelling"}]
      /\ \A x \in Orders : x # o => venue'[x] = venue[x]
      /\ venue'[o] \in {"partially_filled", "filled"}
  BY DEF VenueFills, FinalState
<1>2. ASSUME NEW c \in Calls PROVE CallInv(c)'
  <2>1. CallInv(c)
    OBVIOUS
  <2>2. \A leg \in {1, 2} : <<c, leg>> \in Orders
    BY DEF Orders
  <2>3. \A leg \in {1, 2} : /\ IsLive(<<c, leg>>)' => IsLive(<<c, leg>>)
                            /\ venue'[<<c, leg>>] = "travelling" => venue[<<c, leg>>] = "travelling"
    BY <1>1, <2>2 DEF IsLive
  <2>4. LegsKnown(c, call[c])'
    BY <1>1, <2>1, <2>3 DEF CallInv, LegsKnown, Reported, Pending
  <2> QED
    BY <1>1, <2>1, <2>4 DEF CallInv, Shape, Progress
<1> QED
  BY <1>1, <1>2

-----------------------------------------------------------------------------
(* The theorem.                                                            *)

LEMMA LiveStep == LiveInv /\ [ArbNext]_arbVars => LiveInv'
<1> SUFFICES ASSUME LiveInv, [ArbNext]_arbVars PROVE LiveInv'
  OBVIOUS
<1>1. CASE Pass
  BY <1>1 DEF Pass, LiveInv
<1>2. CASE UNCHANGED arbVars
  BY <1>2 DEF arbVars, LiveInv, CallInv, LegsKnown, Shape, Progress, IsLive, Reported, Pending
<1> QED
  BY <1>1, <1>2, ExecuteKnown, LegReturnsKnown, CancelReturnsKnown, AnswerKnown, TimeoutKnown,
     VenueCancelsKnown, FillKnown DEF ArbNext

\* However legs are refused, lost to a timeout or filled while they are cancelled, a failed
\* arbitrage leaves at the exchange only orders whose cancellation it reports as failed or whose
\* submission timed out (rollbackAndFail, market/arbitrage-executor.ts:156).
THEOREM RollbackIsComplete == ArbSpec => []RollbackComplete
<1>1. ArbInit => ArbInv
  BY InitKnown
<1>2. ArbInv /\ [ArbNext]_arbVars => ArbInv'
  BY PaperStep, LiveStep DEF ArbInv
<1>3. ArbInv => RollbackComplete
  BY InvCompletes
<1> QED
  BY <1>1, <1>2, <1>3, PTL DEF ArbSpec

-----------------------------------------------------------------------------
(* What an opportunity holds.                                              *)

\* What checkArbitrage finds: prices of both legs, unless it finds nothing.
Found == [type : {"none", "long", "short"}, net : Int, yes : Prices, no : Prices]

LEMMA EffectiveTyped ==
  ASSUME NEW q \in Quote
  PROVE  getEffectivePrices(q) \in [buyYes : Prices, buyNo : Prices, sellYes : Prices, sellNo : Prices]
<1>1. \A price \in Prices : Mirror(price) \in Prices
  BY PriceAssumption DEF Mirror, Prices, clampMirror, Higher, Lower
<1>2. \A a, b \in Prices : BestBuy(a, b) \in Prices /\ BestSale(a, b) \in Prices
  BY DEF BestBuy, BestSale, Higher, Lower
<1> QED
  BY <1>1, <1>2 DEF Quote, getEffectivePrices

LEMMA FoundTyped ==
  ASSUME NEW q \in Quote, NEW rate \in Nat
  PROVE  LET found == checkArbitrage(q, rate)
         IN  /\ found \in Found
             /\ found # NoOpportunity => found.yes \in 0..One /\ found.no \in 0..One
<1> DEFINE p == getEffectivePrices(q)
           long  == NetOf(One - (p.buyYes + p.buyNo), p.buyYes + p.buyNo, rate)
           short == NetOf((p.sellYes + p.sellNo) - One, p.sellYes + p.sellNo, rate)
           found == checkArbitrage(q, rate)
<1>4. /\ p.buyYes \in Prices /\ p.buyNo \in Prices /\ p.sellYes \in Prices /\ p.sellNo \in Prices
  BY EffectiveTyped
<1>5. /\ p.buyYes # NoPrice /\ p.buyNo # NoPrice =>
           p.buyYes \in 0..One /\ p.buyNo \in 0..One /\ long \in Int
      /\ p.sellYes # NoPrice /\ p.sellNo # NoPrice =>
           p.sellYes \in 0..One /\ p.sellNo \in 0..One /\ short \in Int
  <2>1. \A a, b \in 0..One : /\ NetOf(One - (a + b), a + b, rate) \in Int
                             /\ NetOf((a + b) - One, a + b, rate) \in Int
    <3>1. \A x, y \in Int : NetOf(x, y, rate) \in Int
      BY PriceAssumption DEF NetOf
    <3> QED
      BY <3>1, PriceAssumption
  <2> QED
    BY <1>4, <2>1 DEF Prices
<1> DEFINE Long == [type |-> "long", net |-> long, yes |-> p.buyYes, no |-> p.buyNo]
           Short == [type |-> "short", net |-> short, yes |-> p.sellYes, no |-> p.sellNo]
<1>6. \/ /\ found = Long /\ p.buyYes # NoPrice /\ p.buyNo # NoPrice
      \/ /\ found = Short /\ p.sellYes # NoPrice /\ p.sellNo # NoPrice
      \/ found = NoOpportunity
  BY Zenon DEF checkArbitrage
<1>7. NoOpportunity \in Found
  BY DEF NoOpportunity, Found, Prices
<1> HIDE DEF found, long, short, p
<1>8. CASE found = Long /\ p.buyYes # NoPrice /\ p.buyNo # NoPrice
  BY <1>4, <1>5, <1>8 DEF Found, found
<1>9. CASE found = Short /\ p.sellYes # NoPrice /\ p.sellNo # NoPrice
  BY <1>4, <1>5, <1>9 DEF Found, found
<1> QED
  BY <1>6, <1>7, <1>8, <1>9 DEF found

\* The size is a whole number of parts.
LEMMA SizeTyped ==
  ASSUME NEW found \in Found, found.yes \in 0..One, found.no \in 0..One,
         NEW exposure \in Nat, NEW balance \in Int
  PROVE  calcOptimalSize(found, exposure, balance) \in Nat
<1> DEFINE perUnit == found.yes + found.no
<1>1. perUnit \in Nat
  BY PriceAssumption
<1> HIDE DEF perUnit
<1>2. exposure * perUnit \in Nat
  BY <1>1
<1>3. \A a, b \in Nat : Lower(a, b) \in Nat
  BY DEF Lower
<1>4. CASE balance < 0 \/ perUnit = 0
  BY <1>4 DEF calcOptimalSize, perUnit
<1>5. CASE ~ (balance < 0 \/ perUnit = 0)
  <2>1. calcOptimalSize(found, exposure, balance) = Lower(exposure * perUnit, balance)
    BY <1>5 DEF calcOptimalSize, perUnit
  <2> QED
    BY <1>2, <1>3, <1>5, <2>1
<1> QED
  BY <1>4, <1>5

-----------------------------------------------------------------------------
(* Folds: what FoldLeft makes of a sequence, one place after the other.       *)

\* A set with 0 and the successor of each of its numbers has them all.
LEMMA AllNumbers ==
  ASSUME NEW S, 0 \in S, \A n \in Nat : n \in S => n + 1 \in S
  PROVE  \A n \in Nat : n \in S
<1> SUFFICES ASSUME Nat \ S # {} PROVE FALSE
  OBVIOUS
<1> DEFINE x == Min(Nat \ S)
<1>1. x \in Nat \ S /\ \A y \in Nat \ S : x <= y
  BY SmallestIsMember
<1> HIDE DEF x
<1>2. x - 1 \in Nat /\ x - 1 + 1 = x
  BY <1>1
<1> QED
  BY <1>1, <1>2

LEMMA GreatestIsMember ==
  ASSUME NEW n \in Nat, NEW T \in SUBSET (0..n), T # {}
  PROVE  Max(T) \in T /\ \A y \in T : y <= Max(T)
<1> DEFINE D == {n - x : x \in T}
<1>1. D \in SUBSET Nat /\ D # {}
  <2>1. \A x \in T : n - x \in Nat
    OBVIOUS
  <2> QED
    BY <2>1
<1>2. PICK d \in D : \A y \in D : d <= y
  BY <1>1, SmallestIsMember
<1>3. PICK x \in T : d = n - x
  BY <1>2
<1>4. ASSUME NEW y \in T PROVE x >= y
  <2>1. n - y \in D
    OBVIOUS
  <2> HIDE DEF D
  <2> QED
    BY <1>2, <1>3, <2>1
<1>5. \A y \in T : Max(T) \in T /\ Max(T) >= y
  BY <1>4, Zenon DEF Max
<1> QED
  BY <1>5

\* What FoldLeft makes of each set of the first n places, the step at a place being a function.
Folded(h, base, g, n) ==
  h = [t \in SUBSET (1..n) |-> IF t = {} THEN base ELSE g[<<Max(t), h[t \ {Max(t)}]>>]]

LEMMA FoldsExist ==
  ASSUME NEW States, NEW base \in States, NEW n \in Nat, NEW g \in [(1..n) \X States -> States]
  PROVE  \E h \in [SUBSET (1..n) -> States] : Folded(h, base, g, n)
<1> DEFINE Has(k) == k <= n => \E h \in [SUBSET (1..k) -> States] : Folded(h, base, g, k)
           K == {k \in Nat : Has(k)}
<1>1. 0 \in K
  <2> DEFINE h == [t \in SUBSET (1..0) |-> base]
  <2>1. h \in [SUBSET (1..0) -> States] /\ Folded(h, base, g, 0)
    BY DEF Folded
  <2> QED
    BY <2>1
<1>2. ASSUME NEW k \in Nat, k \in K PROVE k + 1 \in K
  <2>0. Has(k)
    BY <1>2
  <2> SUFFICES Has(k + 1)
    <3> HIDE DEF Has
    <3> QED
      OBVIOUS
  <2> SUFFICES ASSUME k + 1 <= n
               PROVE  \E h \in [SUBSET (1..(k + 1)) -> States] : Folded(h, base, g, k + 1)
    BY Zenon
  <2>1. PICK f \in [SUBSET (1..k) -> States] : Folded(f, base, g, k)
    <3>1. k <= n
      OBVIOUS
    <3> QED
      BY <2>0, <3>1, Zenon
  <2> DEFINE h == [t \in SUBSET (1..(k + 1)) |->
                     IF k + 1 \in t THEN g[<<k + 1, f[t \ {k + 1}]>>] ELSE f[t]]
             next(t) == IF t = {} THEN base ELSE g[<<Max(t), h[t \ {Max(t)}]>>]
  <2>2. ASSUME NEW t \in SUBSET (1..(k + 1)) PROVE h[t] = next(t) /\ h[t] \in States
    <3>1. CASE k + 1 \in t
      <4>1. Max(t) = k + 1
        <5>1. k + 1 \in Nat /\ t \in SUBSET (0..(k + 1)) /\ t # {}
          BY <3>1
        <5>2. Max(t) \in t /\ \A y \in t : y <= Max(t)
          BY <5>1, GreatestIsMember
        <5>3. Max(t) \in 1..(k + 1) /\ k + 1 <= Max(t)
          BY <3>1, <5>2
        <5> QED
          BY <5>3
      <4>2. t \ {k + 1} \in SUBSET (1..k) /\ t \ {k + 1} \in SUBSET (1..(k + 1))
        OBVIOUS
      <4>3. h[t \ {k + 1}] = f[t \ {k + 1}] /\ f[t \ {k + 1}] \in States
        BY <4>2
      <4>4. h[t] = g[<<k + 1, f[t \ {k + 1}]>>]
        BY <3>1
      <4>5. <<k + 1, f[t \ {k + 1}]>> \in (1..n) \X States
        BY <4>3
      <4> QED
        BY <3>1, <4>1, <4>3, <4>4, <4>5
    <3>2. CASE k + 1 \notin t
      <4>1. t \in SUBSET (1..k) /\ h[t] = f[t]
        BY <3>2
      <4>2. CASE t = {}
        BY <2>1, <4>1, <4>2 DEF Folded
      <4>3. CASE t # {}
        <5>1. t \ {Max(t)} \in SUBSET (1..k) /\ t \ {Max(t)} \in SUBSET (1..(k + 1))
          BY <4>1
        <5>2. h[t \ {Max(t)}] = f[t \ {Max(t)}]
          BY <5>1, <3>2
        <5>3. f[t] = g[<<Max(t), f[t \ {Max(t)}]>>]
          BY <2>1, <4>1, <4>3 DEF Folded
        <5> QED
          BY <4>1, <4>3, <5>2, <5>3
      <4> QED
        BY <4>2, <4>3
    <3> QED
      BY <3>1, <3>2
  <2>3. h = [t \in SUBSET (1..(k + 1)) |-> next(t)]
    BY <2>2, Zenon
  <2>4. h \in [SUBSET (1..(k + 1)) -> States]
    BY <2>2
  <2> HIDE DEF h
  <2> QED
    BY <2>3, <2>4 DEF Folded
<1>3. \A k \in Nat : k \in K
  <2> HIDE DEF K
  <2> QED
    BY <1>1, <1>2, AllNumbers
<1>4. Has(n) /\ n <= n
  <2> HIDE DEF Has
  <2> QED
    BY <1>3
<1> QED
  BY <1>4, Zenon

\* The states of such a fold, place by place.
LEMMA FoldSteps ==
  ASSUME NEW n \in Nat, NEW h, NEW i \in 1..n
  PROVE  /\ 1..i \in SUBSET (1..n) /\ 1..i # {} /\ Max(1..i) = i /\ (1..i) \ {i} = 1..(i - 1)
<1>1. 1..i \in SUBSET (0..n) /\ i \in 1..i
  OBVIOUS
<1>2. Max(1..i) \in 1..i /\ \A y \in 1..i : y <= Max(1..i)
  BY <1>1, GreatestIsMember
<1>3. Max(1..i) = i
  BY <1>1, <1>2
<1> QED
  BY <1>1, <1>3

-----------------------------------------------------------------------------
(* The executor on paper.                                                  *)

Entry == [id : Nat, at : Nat]
Fill == [id : Nat, result : FinalState]
Papers == [ratio : FillRatio, orderCounter : Nat, active : Seq(Entry), fills : Seq(Fill)]

\* An order is active once and counted; a record of an order that is active is its only one,
\* and a second record is of a cancellation and the last.
ActiveOnce(p) ==
  /\ \A i \in DOMAIN p.active : p.active[i].id <= p.orderCounter
  /\ \A i, j \in DOMAIN p.active : p.active[i].id = p.active[j].id => i = j
Recorded(p) ==
  /\ \A i \in DOMAIN p.fills : p.fills[i].id <= p.orderCounter
  /\ \A i, j \in DOMAIN p.fills : i < j /\ p.fills[i].id = p.fills[j].id =>
       /\ p.fills[j].result = "cancelled"
       /\ \A k \in DOMAIN p.active : p.active[k].id # p.fills[j].id
       /\ \A k \in DOMAIN p.fills : p.fills[k].id = p.fills[j].id => k \in {i, j}
Kept(p) == p \in Papers /\ ActiveOnce(p) /\ Recorded(p)

\* A record is added, and the first one may go.
LEMMA FillPushed ==
  ASSUME NEW f \in Seq(Fill), NEW id \in Nat, NEW result \in FinalState
  PROVE  /\ pushFill(f, id, result) \in Seq(Fill)
         /\ \E n \in Nat, m \in Nat :
              /\ Len(f) = n + m /\ Len(pushFill(f, id, result)) = n + 1
              /\ \A i \in 1..n : pushFill(f, id, result)[i] = f[i + m]
              /\ pushFill(f, id, result)[n + 1] = [id |-> id, result |-> result]
<1> DEFINE r == [id |-> id, result |-> result]
<1>0. r \in Fill /\ Len(f) \in Nat
  BY DEF Fill
<1>1. CASE f # <<>> /\ Len(f) >= MaxFillHistory
  <2> DEFINE t == Tail(f)
  <2>1. /\ t \in Seq(Fill) /\ Len(t) = Len(f) - 1 /\ Len(f) > 0
        /\ \A i \in 1..Len(t) : t[i] = f[i + 1]
    BY <1>1, HeadTailProperties
  <2>2. pushFill(f, id, result) = Append(t, r)
    BY <1>1 DEF pushFill
  <2> HIDE DEF t, r
  <2>3. /\ Append(t, r) \in Seq(Fill) /\ Len(Append(t, r)) = Len(t) + 1
        /\ \A i \in 1..Len(t) : Append(t, r)[i] = t[i]
        /\ Append(t, r)[Len(t) + 1] = r
    BY <1>0, <2>1
  <2>4. Len(t) \in Nat /\ 1 \in Nat /\ Len(f) = Len(t) + 1
    BY <1>0, <2>1
  <2> QED
    BY <2>1, <2>2, <2>3, <2>4 DEF r
<1>2. CASE ~ (f # <<>> /\ Len(f) >= MaxFillHistory)
  <2>1. pushFill(f, id, result) = Append(f, r)
    BY <1>2 DEF pushFill
  <2> HIDE DEF r
  <2>2. /\ Append(f, r) \in Seq(Fill) /\ Len(Append(f, r)) = Len(f) + 1
        /\ \A i \in 1..Len(f) : Append(f, r)[i] = f[i + 0]
        /\ Append(f, r)[Len(f) + 1] = r
    BY <1>0
  <2>3. 0 \in Nat /\ Len(f) = Len(f) + 0
    BY <1>0
  <2> QED
    BY <1>0, <2>1, <2>2, <2>3 DEF r
<1> QED
  BY <1>1, <1>2

\* An active order without a second record gets one, which is new or of a cancellation, and
\* is then active only if the record is its first.
LEMMA RecordKeeps ==
  ASSUME NEW p \in Papers, Recorded(p), NEW id \in Nat, NEW result \in FinalState, NEW q \in Papers,
         q.fills = pushFill(p.fills, id, result), p.orderCounter <= q.orderCounter, id <= q.orderCounter,
         \A i, j \in DOMAIN p.fills : p.fills[i].id = id /\ p.fills[j].id = id => i = j,
         \A i \in DOMAIN p.fills : p.fills[i].id = id =>
            result = "cancelled" /\ \A k \in DOMAIN q.active : q.active[k].id # id,
         \A k \in DOMAIN q.active : \/ q.active[k].id = id
                                    \/ \E l \in DOMAIN p.active : q.active[k].id = p.active[l].id
  PROVE  Recorded(q)
<1> DEFINE f == p.fills
           g == q.fills
<1>1. f \in Seq(Fill) /\ g \in Seq(Fill) /\ p.orderCounter \in Nat /\ q.orderCounter \in Nat
  BY DEF Papers
<1>2. PICK n \in Nat, m \in Nat :
        /\ Len(f) = n + m /\ Len(g) = n + 1 /\ \A i \in 1..n : g[i] = f[i + m]
        /\ g[n + 1] = [id |-> id, result |-> result]
  <2>1. g = pushFill(f, id, result)
    OBVIOUS
  <2> HIDE DEF f, g
  <2>2. \E n \in Nat, m \in Nat :
          /\ Len(f) = n + m /\ Len(pushFill(f, id, result)) = n + 1
          /\ \A i \in 1..n : pushFill(f, id, result)[i] = f[i + m]
          /\ pushFill(f, id, result)[n + 1] = [id |-> id, result |-> result]
    BY <1>1, FillPushed, Zenon
  <2> QED
    BY <2>1, <2>2, Zenon
<1>3. DOMAIN f = 1..(n + m) /\ DOMAIN g = 1..(n + 1)
  BY <1>1, <1>2
<1>4. \A i \in DOMAIN f : f[i].id <= p.orderCounter /\ f[i].id \in Nat
  <2>1. \A i \in DOMAIN f : f[i].id <= p.orderCounter
    BY DEF Recorded
  <2> HIDE DEF f
  <2>2. \A i \in DOMAIN f : f[i] \in Fill
    BY <1>1, ElementOfSeq
  <2> QED
    BY <2>1, <2>2 DEF Fill
<1>5. \A i, j \in DOMAIN f : i < j /\ f[i].id = f[j].id =>
        /\ f[j].result = "cancelled" /\ \A k \in DOMAIN p.active : p.active[k].id # f[j].id
        /\ \A k \in DOMAIN f : f[k].id = f[j].id => k \in {i, j}
  BY DEF Recorded
<1>5a. /\ \A i, j \in DOMAIN f : f[i].id = id /\ f[j].id = id => i = j
       /\ \A i \in DOMAIN f : f[i].id = id =>
            result = "cancelled" /\ \A k \in DOMAIN q.active : q.active[k].id # id
  OBVIOUS
<1> HIDE DEF f, g
<1>6. \A i \in 1..n : i + m \in DOMAIN f /\ g[i] = f[i + m]
  BY <1>2, <1>3
<1>7. g[n + 1].id = id /\ g[n + 1].result = result
  BY <1>2
<1>8. ASSUME NEW i \in DOMAIN g PROVE g[i].id <= q.orderCounter
  <2>1. CASE i \in 1..n
    BY <1>1, <1>4, <1>6, <2>1
  <2>2. CASE i = n + 1
    BY <1>7, <2>2
  <2> QED
    BY <1>3, <2>1, <2>2
<1>9. ASSUME NEW i \in DOMAIN g, NEW j \in DOMAIN g, i < j, g[i].id = g[j].id
      PROVE  /\ g[j].result = "cancelled" /\ \A k \in DOMAIN q.active : q.active[k].id # g[j].id
             /\ \A k \in DOMAIN g : g[k].id = g[j].id => k \in {i, j}
  <2>1. i \in 1..n
    BY <1>3, <1>9
  <2>2. CASE j \in 1..n
    <3>1. i + m \in DOMAIN f /\ j + m \in DOMAIN f /\ i + m < j + m /\ f[i + m].id = f[j + m].id
          /\ g[j] = f[j + m] /\ g[i] = f[i + m]
      BY <1>6, <1>9, <2>1, <2>2
    <3>2. f[j + m].id # id
      <4>1. i + m # j + m
        BY <1>9, <2>1, <2>2
      <4> QED
        BY <1>5a, <3>1, <4>1
    <3>3. /\ f[j + m].result = "cancelled" /\ \A k \in DOMAIN p.active : p.active[k].id # f[j + m].id
          /\ \A k \in DOMAIN f : f[k].id = f[j + m].id => k \in {i + m, j + m}
      BY <1>5, <3>1
    <3>4. ASSUME NEW k \in DOMAIN g, g[k].id = g[j].id PROVE k \in {i, j}
      <4>1. k \in 1..n
        BY <1>3, <1>7, <3>1, <3>2, <3>4
      <4>2. k + m \in {i + m, j + m}
        BY <1>6, <3>1, <3>3, <3>4, <4>1
      <4> QED
        BY <1>3, <4>1, <4>2
    <3> QED
      BY <3>1, <3>2, <3>3, <3>4
  <2>3. CASE j = n + 1
    <3>1. i + m \in DOMAIN f /\ f[i + m].id = id
      BY <1>6, <1>7, <1>9, <2>1, <2>3
    <3>2. ASSUME NEW k \in DOMAIN g, g[k].id = id PROVE k \in {i, j}
      <4>1. CASE k \in 1..n
        <5>1. k + m \in DOMAIN f /\ f[k + m].id = id
          BY <1>6, <3>2, <4>1
        <5>2. k + m = i + m
          BY <1>5a, <3>1, <5>1
        <5> QED
          BY <2>1, <4>1, <5>2
      <4> QED
        BY <1>3, <2>3, <4>1
    <3> QED
      BY <1>5a, <1>7, <2>3, <3>1, <3>2
  <2> QED
    BY <1>3, <2>2, <2>3
<1> QED
  BY <1>8, <1>9 DEF Recorded, g

\* An order taken from the active ones.
LEMMA ActiveDrops ==
  ASSUME NEW p \in Papers, ActiveOnce(p), NEW q \in Papers, NEW n,
         Drops(p.active, q.active, n), p.orderCounter = q.orderCounter
  PROVE  /\ ActiveOnce(q)
         /\ \A k \in DOMAIN q.active : /\ q.active[k].id # p.active[n].id
                                       /\ \E l \in DOMAIN p.active : q.active[k] = p.active[l]
         /\ \A l \in DOMAIN p.active : l # n => \E k \in DOMAIN q.active : q.active[k] = p.active[l]
<1> DEFINE a == p.active
           b == q.active
           up(i) == IF i < n THEN i ELSE i + 1
<1>1. a \in Seq(Entry) /\ b \in Seq(Entry)
  BY DEF Papers
<1>2. /\ \A i \in DOMAIN a : a[i].id <= q.orderCounter
      /\ \A i, j \in DOMAIN a : a[i].id = a[j].id => i = j
  BY DEF ActiveOnce
<1>3. Drops(a, b, n)
  OBVIOUS
<1> HIDE DEF a, b
<1>4. DOMAIN a = 1..Len(a) /\ DOMAIN b = 1..Len(b) /\ n \in 1..Len(a) /\ Len(b) = Len(a) - 1
      /\ Len(a) \in Nat
  BY <1>1, <1>3 DEF Drops
<1>5. \A i \in DOMAIN b : up(i) \in DOMAIN a /\ up(i) # n /\ b[i] = a[up(i)]
  BY <1>3, <1>4 DEF Drops
<1>6. \A i, j \in DOMAIN b : up(i) = up(j) => i = j
  BY <1>4
<1>7. ActiveOnce(q)
  <2>1. \A i \in DOMAIN b : b[i].id <= q.orderCounter
    BY <1>2, <1>5
  <2>2. ASSUME NEW i \in DOMAIN b, NEW j \in DOMAIN b, b[i].id = b[j].id PROVE i = j
    <3>1. up(i) = up(j)
      BY <1>2, <1>5, <2>2
    <3> QED
      BY <1>6, <3>1
  <2> QED
    BY <2>1, <2>2 DEF ActiveOnce, b
<1>8. ASSUME NEW k \in DOMAIN b
      PROVE  b[k].id # a[n].id /\ \E l \in DOMAIN a : b[k] = a[l]
  BY <1>2, <1>4, <1>5
<1>9. ASSUME NEW l \in DOMAIN a, l # n PROVE \E k \in DOMAIN b : b[k] = a[l]
  <2> DEFINE k == IF l < n THEN l ELSE l - 1
  <2>1. k \in DOMAIN b /\ up(k) = l
    BY <1>4, <1>9
  <2> QED
    BY <1>5, <2>1
<1> QED
  BY <1>7, <1>8, <1>9 DEF a, b

\* A swept order goes and is recorded, the others stay.
LEMMA SweepOneKeeps ==
  ASSUME NEW p, Kept(p), NEW n \in DOMAIN p.active, NEW t \in Int
  PROVE  LET q == sweepOrder(p, p.active[n], t)
         IN  /\ Kept(q) /\ q.orderCounter = p.orderCounter /\ q.ratio = p.ratio
             /\ \A l \in DOMAIN p.active : l # n => \E k \in DOMAIN q.active : q.active[k] = p.active[l]
<1> DEFINE o == p.active[n]
           q == sweepOrder(p, o, t)
           a == RemoveFirst(p.active, o)
           f == pushFill(p.fills, o.id, "cancelled")
<1>1. /\ p \in Papers /\ ActiveOnce(p) /\ Recorded(p) /\ p.active \in Seq(Entry) /\ p.fills \in Seq(Fill)
      /\ p.ratio \in FillRatio /\ p.orderCounter \in Nat
  BY DEF Kept, Papers
<1>2. o \in Entry /\ o.id \in Nat /\ o.at \in Nat
  <2>1. o \in Entry
    BY <1>1, ElementOfSeq
  <2> QED
    BY <2>1 DEF Entry
<1>3. CASE ~ (t - o.at > MaxOrderAge)
  <2>1. q = p
    BY <1>3 DEF sweepOrder
  <2> QED
    BY <2>1
<1>4. CASE t - o.at > MaxOrderAge
  <2>1. q = [p EXCEPT !.active = a, !.fills = f]
    BY <1>4, Zenon DEF sweepOrder
  <2>2. a \in Seq(Entry) /\ \E m \in 1..Len(p.active) : p.active[m] = o /\ Drops(p.active, a, m)
    <3>1. o \in ToSet(p.active)
      BY <1>1 DEF ToSet
    <3> QED
      BY <1>1, <3>1, DropsFirst
  <2>3. Drops(p.active, a, n)
    <3>1. PICK m \in 1..Len(p.active) : p.active[m] = o /\ Drops(p.active, a, m)
      BY <2>2
    <3>2. m = n
      BY <1>1, <3>1 DEF ActiveOnce
    <3> QED
      BY <3>1, <3>2
  <2>4. "cancelled" \in FinalState /\ f \in Seq(Fill)
    <3>1. "cancelled" \in FinalState
      BY DEF FinalState
    <3> QED
      BY <1>1, <1>2, <3>1, FillPushed
  <2>5. /\ q \in Papers /\ q.active = a /\ q.fills = f
        /\ q.orderCounter = p.orderCounter /\ q.ratio = p.ratio
    <3> HIDE DEF q, a, f
    <3> QED
      BY <1>1, <2>1, <2>2, <2>4 DEF Papers
  <2>6. /\ ActiveOnce(q)
        /\ \A k \in DOMAIN q.active : /\ q.active[k].id # o.id
                                      /\ \E l \in DOMAIN p.active : q.active[k] = p.active[l]
        /\ \A l \in DOMAIN p.active : l # n => \E k \in DOMAIN q.active : q.active[k] = p.active[l]
    <3> HIDE DEF q, a, f
    <3>1. Drops(p.active, q.active, n) /\ p.orderCounter = q.orderCounter
      BY <2>3, <2>5
    <3> QED
      BY <1>1, <2>5, <3>1, ActiveDrops DEF o
  <2>7. o.id <= p.orderCounter
    BY <1>1 DEF ActiveOnce
  <2>8. \A i, j \in DOMAIN p.fills : p.fills[i].id = o.id /\ p.fills[j].id = o.id => i = j
    <3> SUFFICES ASSUME NEW i \in DOMAIN p.fills, NEW j \in DOMAIN p.fills, i < j,
                        p.fills[i].id = o.id, p.fills[j].id = o.id
                 PROVE  FALSE
      <4>1. \A i, j \in DOMAIN p.fills : i < j \/ j < i \/ i = j
        BY <1>1
      <4> QED
        BY <4>1
    <3> QED
      BY <1>1 DEF Recorded
  <2>9. Recorded(q)
    <3> HIDE DEF q, a, o
    <3>1. q.fills = pushFill(p.fills, o.id, "cancelled") /\ p.orderCounter <= q.orderCounter
          /\ o.id <= q.orderCounter
      BY <1>1, <2>5, <2>7
    <3>2. \A k \in DOMAIN q.active : q.active[k].id = o.id
            \/ \E l \in DOMAIN p.active : q.active[k].id = p.active[l].id
      BY <2>6
    <3>3. \A i \in DOMAIN p.fills : p.fills[i].id = o.id =>
            "cancelled" = "cancelled" /\ \A k \in DOMAIN q.active : q.active[k].id # o.id
      BY <2>6
    <3> QED
      BY <1>1, <1>2, <2>4, <2>5, <2>8, <3>1, <3>2, <3>3, RecordKeeps
  <2> QED
    BY <2>5, <2>6, <2>9 DEF Kept
<1> QED
  BY <1>3, <1>4

LEMMA SweepOneTyped ==
  ASSUME NEW p \in Papers, NEW o \in Entry, NEW t
  PROVE  sweepOrder(p, o, t) \in Papers
<1> DEFINE a == RemoveFirst(p.active, o)
           f == pushFill(p.fills, o.id, "cancelled")
<1>1. a \in Seq(Entry)
  BY DropsFirst DEF Papers
<1>2. f \in Seq(Fill)
  <2>1. p.fills \in Seq(Fill) /\ o.id \in Nat /\ "cancelled" \in FinalState
    BY DEF Papers, Entry, FinalState
  <2> QED
    BY <2>1, FillPushed
<1> HIDE DEF a, f
<1>3. [p EXCEPT !.active = a, !.fills = f] \in Papers
  BY <1>1, <1>2 DEF Papers
<1>4. sweepOrder(p, o, t) = p \/ sweepOrder(p, o, t) = [p EXCEPT !.active = a, !.fills = f]
  BY Zenon DEF sweepOrder, a, f
<1> QED
  BY <1>3, <1>4

\* The sweep as a chain of states, one order after the other.
LEMMA SweepChain ==
  ASSUME NEW p \in Papers, NEW t \in Int, MaxOrderAge > 0
  PROVE  \E chain \in [0..Len(p.active) -> Papers] :
           /\ chain[0] = p /\ chain[Len(p.active)] = sweepStaleOrders(p, t)
           /\ \A i \in 1..Len(p.active) : chain[i] = sweepOrder(chain[i - 1], p.active[i], t)
<1> DEFINE a == p.active
           n == Len(a)
           Step(s, h) == IF s = {} THEN p ELSE sweepOrder(h[s \ {Max(s)}], a[Max(s)], t)
           Sweeps(h) == h = [s \in SUBSET (1..n) |-> Step(s, h)]
           iter == CHOOSE h : Sweeps(h)
           g == [x \in (1..n) \X Papers |-> sweepOrder(x[2], a[x[1]], t)]
<1>1. a \in Seq(Entry) /\ n \in Nat /\ DOMAIN a = 1..n
  BY DEF Papers
<1>2. sweepStaleOrders(p, t) = iter[1..n]
  BY <1>1, PaperAssumption DEF sweepStaleOrders, FoldLeft, MapThenFoldSet
<1>3. g \in [(1..n) \X Papers -> Papers]
  <2>1. \A i \in 1..n : a[i] \in Entry
    BY <1>1, ElementOfSeq
  <2>2. \A x \in (1..n) \X Papers : sweepOrder(x[2], a[x[1]], t) \in Papers
    BY <2>1, SweepOneTyped
  <2> QED
    BY <2>2
<1>4. \E h \in [SUBSET (1..n) -> Papers] : Sweeps(h)
  <2>1. PICK h \in [SUBSET (1..n) -> Papers] : Folded(h, p, g, n)
    <3> HIDE DEF g
    <3> QED
      BY <1>1, <1>3, FoldsExist
  <2>2. ASSUME NEW s \in SUBSET (1..n) PROVE h[s] = Step(s, h)
    <3>1. CASE s = {}
      BY <2>1, <3>1 DEF Folded
    <3>2. CASE s # {}
      <4>1. Max(s) \in 1..n
        <5>1. s \in SUBSET (0..n)
          OBVIOUS
        <5>2. Max(s) \in s
          BY <1>1, <3>2, <5>1, GreatestIsMember
        <5> QED
          BY <5>2
      <4>2. h[s] = g[<<Max(s), h[s \ {Max(s)}]>>]
        BY <2>1, <3>2 DEF Folded
      <4>3. h[s \ {Max(s)}] \in Papers
        BY <2>1
      <4> QED
        BY <3>2, <4>1, <4>2, <4>3
    <3> QED
      BY <3>1, <3>2
  <2>3. h = [s \in SUBSET (1..n) |-> Step(s, h)]
    BY <2>1, <2>2, Zenon
  <2> QED
    BY <2>3
<1>5. Sweeps(iter)
  BY <1>4, Zenon
<1> DEFINE chain == [i \in 0..n |-> iter[1..i]]
<1> HIDE DEF iter
<1>6. chain[0] = p /\ iter[1..0] = p
  <2>1. {} \in SUBSET (1..n) /\ 1..0 = {} /\ 0 \in 0..n
    BY <1>1
  <2>2. iter[{}] = Step({}, iter)
    BY <1>5, <2>1
  <2> QED
    BY <2>1, <2>2
<1>7. ASSUME NEW i \in 1..n PROVE iter[1..i] = sweepOrder(iter[1..(i - 1)], a[i], t)
  <2>1. /\ 1..i \in SUBSET (1..n) /\ 1..i # {} /\ Max(1..i) = i /\ (1..i) \ {i} = 1..(i - 1)
    BY <1>1, FoldSteps
  <2>2. iter[1..i] = Step(1..i, iter)
    BY <1>5, <2>1
  <2> QED
    BY <2>1, <2>2
<1>8. ASSUME NEW i \in 1..n PROVE chain[i] = sweepOrder(chain[i - 1], a[i], t)
  <2>1. i \in 0..n /\ i - 1 \in 0..n
    BY <1>1
  <2> QED
    BY <1>7, <2>1
<1>9. chain \in [0..n -> Papers]
  <2> DEFINE I == {i \in Nat : i <= n => iter[1..i] \in Papers}
  <2>1. 0 \in I
    BY <1>6
  <2>2. ASSUME NEW i \in Nat, i \in I PROVE i + 1 \in I
    <3> SUFFICES ASSUME i + 1 <= n PROVE iter[1..(i + 1)] \in Papers
      OBVIOUS
    <3>1. i + 1 \in 1..n /\ i + 1 - 1 = i /\ iter[1..i] \in Papers
      BY <1>1, <2>2
    <3>2. a[i + 1] \in Entry
      BY <1>1, <3>1, ElementOfSeq
    <3>3. iter[1..(i + 1)] = sweepOrder(iter[1..i], a[i + 1], t)
      BY <1>7, <3>1
    <3> QED
      BY <3>1, <3>2, <3>3, SweepOneTyped
  <2>3. \A i \in Nat : i \in I
    <3> HIDE DEF I
    <3> QED
      BY <2>1, <2>2, AllNumbers
  <2> QED
    BY <1>1, <2>3
<1>10. chain[n] = sweepStaleOrders(p, t)
  <2>1. n \in 0..n
    BY <1>1
  <2> QED
    BY <1>2, <2>1
<1> HIDE DEF chain
<1> QED
  BY <1>6, <1>8, <1>9, <1>10

\* The sweep keeps what is kept, whatever it removes.
LEMMA SweepKeeps ==
  ASSUME NEW p, Kept(p), NEW t \in Int
  PROVE  /\ Kept(sweepStaleOrders(p, t))
         /\ sweepStaleOrders(p, t).orderCounter = p.orderCounter
         /\ sweepStaleOrders(p, t).ratio = p.ratio
<1>1. CASE ~ (MaxOrderAge > 0)
  <2>1. MaxOrderAge <= 0
    BY <1>1, PaperAssumption
  <2>2. sweepStaleOrders(p, t) = p
    BY <2>1 DEF sweepStaleOrders
  <2> QED
    BY <2>2
<1>2. CASE MaxOrderAge > 0
  <2> DEFINE n == Len(p.active)
  <2>0. p \in Papers /\ n \in Nat /\ DOMAIN p.active = 1..n
    BY DEF Kept, Papers
  <2>1. PICK chain \in [0..n -> Papers] :
           /\ chain[0] = p /\ chain[n] = sweepStaleOrders(p, t)
           /\ \A i \in 1..n : chain[i] = sweepOrder(chain[i - 1], p.active[i], t)
    BY <1>2, <2>0, SweepChain
  <2> DEFINE Left(i) == \A l \in 1..n : l > i =>
                          \E k \in DOMAIN chain[i].active : chain[i].active[k] = p.active[l]
             Good(i) == /\ Kept(chain[i]) /\ chain[i].orderCounter = p.orderCounter
                        /\ chain[i].ratio = p.ratio /\ Left(i)
             I == {i \in Nat : i <= n => Good(i)}
  <2>2. 0 \in I
    BY <2>0, <2>1
  <2>3. ASSUME NEW i \in Nat, i \in I PROVE i + 1 \in I
    <3> SUFFICES ASSUME i + 1 <= n PROVE Good(i + 1)
      OBVIOUS
    <3> DEFINE q == chain[i]
               r == chain[i + 1]
    <3>1. i + 1 \in 1..n /\ i + 1 - 1 = i /\ i <= n /\ i + 1 > i
      BY <2>0
    <3>2. Kept(q) /\ q.orderCounter = p.orderCounter /\ q.ratio = p.ratio /\ Left(i)
      BY <2>3, <3>1
    <3>3. r = sweepOrder(q, p.active[i + 1], t)
      BY <2>1, <3>1
    <3>4. PICK k \in DOMAIN q.active : q.active[k] = p.active[i + 1]
      BY <3>1, <3>2
    <3>5. /\ Kept(r) /\ r.orderCounter = q.orderCounter /\ r.ratio = q.ratio
          /\ \A l \in DOMAIN q.active : l # k => \E m \in DOMAIN r.active : r.active[m] = q.active[l]
      <4> HIDE DEF q, r
      <4> QED
        BY <3>2, <3>3, <3>4, SweepOneKeeps
    <3>6. ASSUME NEW l \in 1..n, l > i + 1
          PROVE  \E m \in DOMAIN r.active : r.active[m] = p.active[l]
      <4>1. PICK j \in DOMAIN q.active : q.active[j] = p.active[l]
        BY <3>1, <3>2, <3>6
      <4>2. l # i + 1 /\ l \in DOMAIN p.active /\ i + 1 \in DOMAIN p.active
        BY <2>0, <3>1, <3>6
      <4>3. p.active[l] # p.active[i + 1]
        BY <4>2 DEF Kept, ActiveOnce
      <4>4. j # k
        BY <3>4, <4>1, <4>3
      <4> QED
        BY <3>5, <4>1, <4>4
    <3> QED
      BY <3>2, <3>5, <3>6
  <2>4. \A i \in Nat : i \in I
    <3> HIDE DEF I
    <3> QED
      BY <2>2, <2>3, AllNumbers
  <2>5. Good(n)
    BY <2>0, <2>4
  <2> QED
    BY <2>1, <2>5
<1> QED
  BY <1>1, <1>2

LEMMA SubmitKeeps ==
  ASSUME NEW p, Kept(p), NEW t \in Nat
  PROVE  Kept(paperSubmit(p, t))
<1> DEFINE w == sweepStaleOrders(p, t)
           id == w.orderCounter + 1
           o == [id |-> id, at |-> t]
           a == Append(w.active, o)
           f == pushFill(w.fills, id, ResultOf(w.ratio))
           q == paperSubmit(p, t)
<1>1. Kept(w)
  BY SweepKeeps
<1>2. q = [w EXCEPT !.orderCounter = id, !.active = a, !.fills = f]
  BY Zenon DEF paperSubmit
<1> HIDE DEF w
<1>3. /\ w \in Papers /\ ActiveOnce(w) /\ Recorded(w) /\ w.active \in Seq(Entry) /\ w.fills \in Seq(Fill)
      /\ w.ratio \in FillRatio /\ w.orderCounter \in Nat /\ id \in Nat /\ w.orderCounter < id
  BY <1>1 DEF Kept, Papers
<1>4. o \in Entry /\ o.id = id
  BY <1>3 DEF Entry
<1> HIDE DEF id, o
<1>5. /\ a \in Seq(Entry) /\ DOMAIN a = 1..(Len(w.active) + 1) /\ a[Len(w.active) + 1] = o
      /\ \A i \in 1..Len(w.active) : a[i] = w.active[i]
      /\ DOMAIN w.active = 1..Len(w.active) /\ Len(w.active) \in Nat
  BY <1>3, <1>4
<1>6. ResultOf(w.ratio) \in FinalState
  BY <1>3 DEF FillRatio, ResultOf, FinalState
<1>7. f \in Seq(Fill)
  BY <1>3, <1>6, FillPushed
<1> HIDE DEF q, a, f
<1>8. q \in Papers /\ q.active = a /\ q.fills = f /\ q.orderCounter = id
  BY <1>2, <1>3, <1>5, <1>7 DEF Papers
<1>9. ASSUME NEW i \in 1..Len(w.active) PROVE w.active[i].id \in Nat /\ w.active[i].id < id
  <2>1. w.active[i] \in Entry /\ w.active[i].id <= w.orderCounter
    BY <1>3, <1>5, ElementOfSeq DEF ActiveOnce
  <2> QED
    BY <1>3, <2>1 DEF Entry
<1>10. ActiveOnce(q)
  <2>1. \A i \in DOMAIN a : a[i].id <= id
    BY <1>3, <1>4, <1>5, <1>9
  <2>2. ASSUME NEW i \in DOMAIN a, NEW j \in DOMAIN a, a[i].id = a[j].id PROVE i = j
    <3>1. CASE i \in 1..Len(w.active) /\ j \in 1..Len(w.active)
      BY <1>3, <1>5, <2>2, <3>1 DEF ActiveOnce
    <3>2. CASE i \in 1..Len(w.active) /\ j = Len(w.active) + 1
      BY <1>3, <1>4, <1>5, <1>9, <2>2, <3>2
    <3>3. CASE i = Len(w.active) + 1 /\ j \in 1..Len(w.active)
      BY <1>3, <1>4, <1>5, <1>9, <2>2, <3>3
    <3> QED
      BY <1>5, <3>1, <3>2, <3>3
  <2> QED
    BY <1>8, <2>1, <2>2 DEF ActiveOnce
<1>11. \A i \in DOMAIN w.fills : w.fills[i].id # id
  <2> SUFFICES ASSUME NEW i \in DOMAIN w.fills PROVE w.fills[i].id # id
    OBVIOUS
  <2>1. w.fills[i] \in Fill /\ w.fills[i].id <= w.orderCounter
    BY <1>3, ElementOfSeq DEF Recorded
  <2> QED
    BY <1>3, <2>1 DEF Fill
<1>12. Recorded(q)
  <2>1. \A k \in DOMAIN q.active : \/ q.active[k].id = id
                                    \/ \E l \in DOMAIN w.active : q.active[k].id = w.active[l].id
    BY <1>4, <1>5, <1>8
  <2>2. q.fills = pushFill(w.fills, id, ResultOf(w.ratio)) /\ w.orderCounter <= q.orderCounter
        /\ id <= q.orderCounter
    BY <1>3, <1>8 DEF f
  <2> QED
    BY <1>3, <1>6, <1>8, <1>11, <2>1, <2>2, RecordKeeps
<1> QED
  BY <1>8, <1>10, <1>12 DEF Kept, q

LEMMA CancelKeeps ==
  ASSUME NEW p, Kept(p), NEW id
  PROVE  Kept(paperCancel(p, id))
<1> DEFINE a == RemoveFirstMatch(p.active, LAMBDA o : o.id = id)
           q == paperCancel(p, id)
           I == {i \in 1..Len(p.active) : p.active[i].id = id}
<1>1. /\ p \in Papers /\ ActiveOnce(p) /\ Recorded(p) /\ p.active \in Seq(Entry) /\ p.fills \in Seq(Fill)
      /\ p.ratio \in FillRatio /\ p.orderCounter \in Nat
  BY DEF Kept, Papers
<1>2. q = [p EXCEPT !.active = a]
  BY DEF paperCancel
<1>3. CASE I = {}
  <2>1. a = p.active
    BY <1>3 DEF RemoveFirstMatch
  <2>2. q = p
    BY <1>1, <1>2, <2>1 DEF Papers
  <2> QED
    BY <2>2 DEF q
<1>4. CASE I # {}
  <2>1. PICK n \in 1..Len(p.active) : a = RemoveAt(p.active, n)
    <3>1. I \in SUBSET Nat
      OBVIOUS
    <3>2. Min(I) \in I
      BY <1>4, <3>1, SmallestIsMember
    <3>3. \E i \in 1..Len(p.active) : p.active[i].id = id
      BY <1>4
    <3>4. a = RemoveAt(p.active, Min(I))
      BY <3>3, Zenon DEF RemoveFirstMatch, SelectInSeq
    <3> QED
      BY <3>2, <3>4
  <2>3. a \in Seq(Entry) /\ Drops(p.active, a, n)
    BY <1>1, <2>1, DropsAt
  <2> HIDE DEF a, q, I
  <2>4. q \in Papers /\ q.active = a /\ q.fills = p.fills /\ q.orderCounter = p.orderCounter
    BY <1>1, <1>2, <2>3 DEF Papers
  <2>5. /\ ActiveOnce(q)
        /\ \A k \in DOMAIN q.active : \E l \in DOMAIN p.active : q.active[k] = p.active[l]
    <3>1. Drops(p.active, q.active, n) /\ p.orderCounter = q.orderCounter
      BY <2>3, <2>4
    <3>2. p \in Papers /\ ActiveOnce(p) /\ q \in Papers
      BY <1>1, <2>4
    <3> HIDE DEF Papers
    <3>3. /\ ActiveOnce(q)
          /\ \A k \in DOMAIN q.active : /\ q.active[k].id # p.active[n].id
                                        /\ \E l \in DOMAIN p.active : q.active[k] = p.active[l]
          /\ \A l \in DOMAIN p.active : l # n => \E k \in DOMAIN q.active : q.active[k] = p.active[l]
      BY <3>1, <3>2, ActiveDrops
    <3> QED
      BY <3>3
  <2>6. Recorded(q)
    <3>1. ASSUME NEW x, \A k \in DOMAIN p.active : p.active[k].id # x
          PROVE  \A k \in DOMAIN q.active : q.active[k].id # x
      BY <2>5, <3>1
    <3>2. \A i \in DOMAIN q.fills : q.fills[i].id <= q.orderCounter
      BY <1>1, <2>4 DEF Recorded
    <3>3. \A i, j \in DOMAIN q.fills : i < j /\ q.fills[i].id = q.fills[j].id =>
            /\ q.fills[j].result = "cancelled"
            /\ \A k \in DOMAIN p.active : p.active[k].id # q.fills[j].id
            /\ \A k \in DOMAIN q.fills : q.fills[k].id = q.fills[j].id => k \in {i, j}
      BY <1>1, <2>4 DEF Recorded
    <3> QED
      BY <3>1, <3>2, <3>3, Zenon DEF Recorded
  <2> QED
    BY <2>4, <2>5, <2>6 DEF Kept, q
<1> QED
  BY <1>3, <1>4

LEMMA NewPaperKept ==
  ASSUME NEW ratio \in FillRatio
  PROVE  Kept(NewPaper(ratio))
<1>1. NewPaper(ratio) \in Papers
  BY DEF NewPaper, Papers, Entry, Fill
<1>2. NewPaper(ratio).active = <<>> /\ NewPaper(ratio).fills = <<>>
  BY DEF NewPaper
<1> QED
  BY <1>1, <1>2 DEF Kept, ActiveOnce, Recorded

\* What is kept bounds the records of each order.
LEMMA KeptSweptOnce ==
  ASSUME Kept(paper)
  PROVE  SweptOnce
<1> SUFFICES ASSUME NEW id \in 1..paper.orderCounter
             PROVE  LET records == {i \in DOMAIN paper.fills : paper.fills[i].id = id} IN
                    /\ Cardinality(records) <= 2
                    /\ \A i, j \in records :
                         i < j => paper.fills[j].result = "cancelled" /\ ~ paperIsActive(paper, id)
  BY DEF SweptOnce
<1> DEFINE records == {i \in DOMAIN paper.fills : paper.fills[i].id = id}
<1>1. /\ Recorded(paper) /\ paper.fills \in Seq(Fill) /\ paper.active \in Seq(Entry)
      /\ DOMAIN paper.fills = 1..Len(paper.fills)
  BY DEF Kept, Papers
<1>2. ASSUME NEW i \in records, NEW j \in records, i < j
      PROVE  /\ paper.fills[j].result = "cancelled" /\ records \subseteq {i, j}
             /\ \A k \in DOMAIN paper.active : paper.active[k].id # id
  BY <1>1, <1>2 DEF Recorded
<1>3. ASSUME NEW i, NEW j PROVE IsFiniteSet({i, j}) /\ Cardinality({i, j}) <= 2
  <2>1. IsFiniteSet({i}) /\ Cardinality({i}) = 1
    BY FS_Singleton
  <2>2. {i, j} = {i} \cup {j}
    OBVIOUS
  <2>3. IsFiniteSet({i} \cup {j}) /\ Cardinality({i} \cup {j}) = IF j \in {i} THEN 1 ELSE 2
    BY <2>1, FS_AddElement
  <2> QED
    BY <2>2, <2>3
<1>4. \E i, j : records \subseteq {i, j}
  <2>1. CASE \E i, j \in records : i < j
    BY <1>2, <2>1
  <2>2. CASE ~ \E i, j \in records : i < j
    <3>1. ASSUME NEW i \in records, NEW j \in records PROVE i = j
      <4>1. i \in Nat /\ j \in Nat /\ ~ (i < j) /\ ~ (j < i)
        BY <1>1, <2>2
      <4> QED
        BY <4>1
    <3> QED
      BY <3>1
  <2> QED
    BY <2>1, <2>2
<1>5. Cardinality(records) <= 2
  <2>1. PICK i, j : records \subseteq {i, j}
    BY <1>4
  <2> HIDE DEF records
  <2>2. IsFiniteSet({i, j}) /\ Cardinality({i, j}) <= 2
    BY <1>3
  <2>3. Cardinality(records) <= Cardinality({i, j}) /\ Cardinality(records) \in Nat
        /\ Cardinality({i, j}) \in Nat
    BY <2>1, <2>2, FS_Subset, FS_CardinalityType
  <2> QED
    BY <2>2, <2>3
<1>6. ASSUME \A k \in DOMAIN paper.active : paper.active[k].id # id
      PROVE  ~ paperIsActive(paper, id)
  BY <1>1, <1>6 DEF paperIsActive, ToSet
<1> QED
  BY <1>2, <1>5, <1>6

-----------------------------------------------------------------------------
(* The types of the arbitrage, and everything it accounts for.               *)

\* The ids an executor gives its orders, and a call with what it knows of them.
OrderIds == Nat \cup Orders
Result == [id : OrderIds, result : Answer]
CallRecord == [pc : CallPc, opportunity : Found, size : Nat, order : OrderIds,
               results : Seq(Result), outcomes : Seq(Outcome)]

Counted(k) ==
  /\ Len(k.outcomes) <= Len(k.results) /\ Len(k.results) <= 2
  /\ k.pc = "submitting" => Len(k.results) < 2
  /\ k.pc = "cancelling" => Len(k.outcomes) < Len(k.results)

\* A call between two steps.
Ready(k) == k \in CallRecord /\ Len(k.outcomes) <= Len(k.results) /\ Len(k.results) <= 2

CallsTyped ==
  /\ call \in [Calls -> CallRecord] /\ \A c \in Calls : Counted(call[c])
  /\ reply \in [Calls -> Answer]

ArbTyped ==
  /\ config \in Configs /\ create(config) /\ onPaper \in BOOLEAN /\ now \in 0..MaxTime
  /\ Kept(paper) /\ CallsTyped /\ lost \subseteq Orders /\ active \subseteq Orders

\* What may become of the orders on paper in a step.
PaperMoves == \/ paper' = paper \/ paper' = paperSubmit(paper, now)
              \/ \E id : paper' = paperCancel(paper, id)

LEMMA PaperMovesKeep ==
  ASSUME Kept(paper), now \in Nat, PaperMoves
  PROVE  Kept(paper)'
BY SubmitKeeps, CancelKeeps DEF PaperMoves

\* The calls after a step of one of them.
LEMMA OneCallTyped ==
  ASSUME CallsTyped, NEW c \in Calls, NEW n \in CallRecord, Counted(n), NEW r \in Answer,
         call' = [call EXCEPT ![c] = n], reply' = [reply EXCEPT ![c] = r]
  PROVE  CallsTyped'
BY DEF CallsTyped, Counted

LEMMA RollbackTyped ==
  ASSUME CallsTyped, NEW c \in Calls, NEW k, Ready(k), rollbackAndFail(c, k)
  PROVE  CallsTyped' /\ PaperMoves
<1>0. Len(k.outcomes) \in Nat /\ Len(k.results) \in Nat
  BY DEF Ready, CallRecord
<1>1. CASE Len(k.outcomes) = Len(k.results)
  <2> DEFINE n == [k EXCEPT !.pc = "failed"]
  <2>1. n \in CallRecord /\ Counted(n)
    BY DEF Ready, CallRecord, CallPc, Counted
  <2>2. call' = [call EXCEPT ![c] = n] /\ reply' = [reply EXCEPT ![c] = "none"] /\ paper' = paper
    BY <1>1 DEF rollbackAndFail
  <2>3. "none" \in Answer
    BY DEF Answer
  <2> HIDE DEF n
  <2> QED
    BY <2>1, <2>2, <2>3, OneCallTyped DEF PaperMoves
<1>2. CASE Len(k.outcomes) # Len(k.results)
  <2> DEFINE n == [k EXCEPT !.pc = "cancelling"]
             id == k.results[Len(k.outcomes) + 1].id
  <2>1. n \in CallRecord /\ Counted(n)
    BY <1>0, <1>2 DEF Ready, CallRecord, CallPc, Counted
  <2>2. call' = [call EXCEPT ![c] = n] /\ cancels(c, id)
    BY <1>2 DEF rollbackAndFail
  <2> HIDE DEF n, id
  <2>3. PICK r \in {"ok", "error", "waiting"} : reply' = [reply EXCEPT ![c] = r]
    BY <2>2, Zenon DEF cancels
  <2>4. r \in Answer
    BY DEF Answer
  <2>5. paper' = paper \/ paper' = paperCancel(paper, id)
    BY <2>2 DEF cancels
  <2> QED
    BY <2>1, <2>2, <2>3, <2>4, <2>5, OneCallTyped DEF PaperMoves
<1> QED
  BY <1>1, <1>2

LEMMA NextLegTyped ==
  ASSUME CallsTyped, Kept(paper), NEW c \in Calls, NEW k, Ready(k), nextLeg(c, k)
  PROVE  CallsTyped' /\ PaperMoves
<1> DEFINE leg == Len(k.results) + 1
<1>0. Len(k.outcomes) \in Nat /\ Len(k.results) \in Nat /\ leg \in 1..3
  BY DEF Ready, CallRecord
<1>1. CASE leg > 2
  <2> DEFINE n == [k EXCEPT !.pc = "ok"]
  <2>1. n \in CallRecord /\ Counted(n)
    BY DEF Ready, CallRecord, CallPc, Counted
  <2>2. call' = [call EXCEPT ![c] = n] /\ reply' = [reply EXCEPT ![c] = "none"] /\ paper' = paper
    BY <1>1 DEF nextLeg
  <2>3. "none" \in Answer
    BY DEF Answer
  <2> HIDE DEF n
  <2> QED
    BY <2>1, <2>2, <2>3, OneCallTyped DEF PaperMoves
<1>2. CASE ~ (leg > 2) /\ LegPrice(k.opportunity, leg) <= 0
  BY <1>2, RollbackTyped DEF nextLeg
<1>3. CASE ~ (leg > 2) /\ ~ (LegPrice(k.opportunity, leg) <= 0)
  <2> DEFINE id == NextId(c, leg)
             n == [k EXCEPT !.pc = "submitting", !.order = id]
  <2>1. call' = [call EXCEPT ![c] = n] /\ submits(c, leg)
    BY <1>3, Zenon DEF nextLeg
  <2>2. leg \in {1, 2} /\ Len(k.results) < 2
    BY <1>0, <1>3
  <2> HIDE DEF leg
  <2>3. paper.orderCounter + 1 \in Nat /\ paper.ratio \in FillRatio /\ <<c, leg>> \in Orders
    BY <2>2 DEF Kept, Papers, Orders
  <2>4. id \in OrderIds
    BY <2>3 DEF NextId, OrderIds
  <2> HIDE DEF id
  <2>5. n \in CallRecord /\ Counted(n)
    BY <2>2, <2>4 DEF Ready, CallRecord, CallPc, Counted
  <2>6. PICK r \in {"waiting", ResultOf(paper.ratio)} : reply' = [reply EXCEPT ![c] = r]
    BY <2>1, Zenon DEF submits
  <2>7. r \in Answer
    BY <2>3 DEF Answer, FinalState, ResultOf, FillRatio
  <2>8. paper' = paper \/ paper' = paperSubmit(paper, now)
    BY <2>1 DEF submits
  <2> HIDE DEF n
  <2> QED
    BY <2>1, <2>5, <2>6, <2>7, <2>8, OneCallTyped DEF PaperMoves
<1> QED
  BY <1>1, <1>2, <1>3

\* What execute hands to its first leg.
LEMMA ExecuteTyped ==
  ASSUME ArbTyped, NEW c \in Calls, NEW q \in Quotes, execute(c, q)
  PROVE  CallsTyped' /\ PaperMoves
<1> DEFINE found == checkArbitrage(q, config.feeRate)
           exposure == config.maxExposure * config.safetyPct
           balance == 100 * config.availableBalance
           size == calcOptimalSize(found, exposure, balance)
           k == [NewCall EXCEPT !.opportunity = found, !.size = size]
           refused == found.net < config.minNetProfit \/ size = 0
           n == [k EXCEPT !.pc = "refused"]
<1>1. found # NoOpportunity
  BY Zenon DEF execute
<1>1a. IF refused
       THEN /\ call' = [call EXCEPT ![c] = n]
            /\ UNCHANGED <<reply, paper, venue>>
       ELSE nextLeg(c, k)
  BY Zenon DEF execute
<1>2. /\ config.feeRate \in Nat /\ config.maxExposure \in Nat /\ config.safetyPct \in Nat
      /\ config.availableBalance \in Int /\ q \in Quote
  BY ArbAssumption, PriceAssumption DEF ArbTyped, create, Config
<1>3. found \in Found /\ found.yes \in 0..One /\ found.no \in 0..One
  <2> DEFINE r == config.feeRate
  <2>1. r \in Nat
    BY <1>2
  <2> HIDE DEF r
  <2>2. /\ checkArbitrage(q, r) \in Found
        /\ checkArbitrage(q, r) # NoOpportunity =>
             checkArbitrage(q, r).yes \in 0..One /\ checkArbitrage(q, r).no \in 0..One
    BY <1>2, <2>1, FoundTyped
  <2> QED
    BY <1>1, <2>2 DEF r
<1>4. exposure \in Nat /\ balance \in Int
  <2>1. \A a, b \in Nat : a * b \in Nat
    OBVIOUS
  <2> QED
    BY <1>2, <2>1
<1> HIDE DEF found, exposure, balance
<1>5. size \in Nat
  BY <1>2, <1>3, <1>4, SizeTyped
<1> HIDE DEF size
<1>6. k = [pc |-> "new", opportunity |-> found, size |-> size, order |-> 0,
           results |-> <<>>, outcomes |-> <<>>]
  <2> DEFINE j == [NewCall EXCEPT !.opportunity = found]
  <2>1. j = [pc |-> "new", opportunity |-> found, size |-> 0, order |-> 0,
             results |-> <<>>, outcomes |-> <<>>]
    BY DEF NewCall
  <2>2. k = [j EXCEPT !.size = size]
    OBVIOUS
  <2> HIDE DEF j
  <2> QED
    BY <2>1, <2>2
<1> HIDE DEF k
<1>7. Ready(k)
  BY <1>3, <1>5, <1>6 DEF Ready, CallRecord, CallPc, OrderIds
<1>8. CASE refused
  <2>1. n = [pc |-> "refused", opportunity |-> found, size |-> size, order |-> 0,
             results |-> <<>>, outcomes |-> <<>>]
    BY <1>6
  <2> HIDE DEF n
  <2>2. n \in CallRecord /\ Counted(n)
    BY <1>3, <1>5, <2>1 DEF CallRecord, CallPc, OrderIds, Counted
  <2>3. reply \in [Calls -> Answer] /\ CallsTyped
    BY DEF ArbTyped, CallsTyped
  <2>4. call' = [call EXCEPT ![c] = n] /\ reply' = [reply EXCEPT ![c] = reply[c]] /\ paper' = paper
    BY <1>1a, <1>8, <2>3
  <2>5. reply[c] \in Answer
    BY <2>3
  <2> QED
    BY <2>2, <2>3, <2>4, <2>5, OneCallTyped DEF PaperMoves
<1>9. CASE ~refused
  BY <1>1a, <1>7, <1>9, NextLegTyped DEF ArbTyped
<1> QED
  BY <1>8, <1>9

LEMMA LegReturnsTyped ==
  ASSUME ArbTyped, NEW c \in Calls, legReturns(c)
  PROVE  CallsTyped' /\ PaperMoves
<1> DEFINE k == call[c]
           last == [id |-> k.order, result |-> reply[c]]
           n == [k EXCEPT !.results = Append(@, last)]
<1>1. /\ k \in CallRecord /\ Counted(k) /\ reply[c] \in Answer /\ Len(k.results) \in Nat
      /\ Len(k.outcomes) \in Nat /\ CallsTyped /\ Kept(paper)
  <2>1. k \in CallRecord
    BY DEF ArbTyped, CallsTyped
  <2> QED
    BY <2>1 DEF ArbTyped, CallsTyped, CallRecord
<1>2. k.pc = "submitting"
  BY DEF legReturns
<1>3. CASE reply[c] = "error"
  <2>1. Ready(k)
    BY <1>1 DEF Ready, Counted
  <2>2. rollbackAndFail(c, k)
    BY <1>3 DEF legReturns
  <2> QED
    BY <1>1, <2>1, <2>2, RollbackTyped
<1>4. CASE reply[c] # "error"
  <2>1. nextLeg(c, n)
    BY <1>4, Zenon DEF legReturns
  <2>2. last \in Result
    BY <1>1 DEF CallRecord, Result
  <2> HIDE DEF last, k
  <2>3. /\ Append(k.results, last) \in Seq(Result)
        /\ Len(Append(k.results, last)) = Len(k.results) + 1
    BY <1>1, <2>2, AppendProperties DEF CallRecord
  <2>4. n \in CallRecord /\ n.results = Append(k.results, last) /\ n.outcomes = k.outcomes
    BY <1>1, <2>3 DEF CallRecord
  <2> HIDE DEF n
  <2>5. Ready(n)
    BY <1>1, <1>2, <2>3, <2>4 DEF Ready, Counted
  <2> QED
    BY <1>1, <2>1, <2>5, NextLegTyped
<1> QED
  BY <1>3, <1>4

LEMMA CancelReturnsTyped ==
  ASSUME ArbTyped, NEW c \in Calls, cancelReturns(c)
  PROVE  CallsTyped' /\ PaperMoves
<1> DEFINE k == call[c]
           said == IF reply[c] = "ok" THEN "cancelled" ELSE "cancel_failed"
           n == [k EXCEPT !.outcomes = Append(@, said)]
<1>1. /\ k \in CallRecord /\ Counted(k) /\ Len(k.results) \in Nat
      /\ Len(k.outcomes) \in Nat /\ CallsTyped
  <2>1. k \in CallRecord
    BY DEF ArbTyped, CallsTyped
  <2> QED
    BY <2>1 DEF ArbTyped, CallsTyped, CallRecord
<1>2. k.pc = "cancelling" /\ rollbackAndFail(c, n)
  BY Zenon DEF cancelReturns
<1>3. said \in Outcome
  BY DEF Outcome
<1> HIDE DEF said, k
<1>4. /\ Append(k.outcomes, said) \in Seq(Outcome)
      /\ Len(Append(k.outcomes, said)) = Len(k.outcomes) + 1
  BY <1>1, <1>3, AppendProperties DEF CallRecord
<1>5. n \in CallRecord /\ n.outcomes = Append(k.outcomes, said) /\ n.results = k.results
  BY <1>1, <1>4 DEF CallRecord
<1> HIDE DEF n
<1>6. Ready(n)
  BY <1>1, <1>2, <1>4, <1>5 DEF Ready, Counted
<1> QED
  BY <1>1, <1>2, <1>6, RollbackTyped

\* An answer comes from outside: no call moves.
LEMMA AnswerTyped ==
  ASSUME CallsTyped, NEW c \in Calls, NEW r \in Answer, call' = call,
         reply' = [reply EXCEPT ![c] = r], paper' = paper
  PROVE  CallsTyped' /\ PaperMoves
BY DEF CallsTyped, Counted, PaperMoves

LEMMA ArbTypedStep == ArbInv /\ ArbTyped /\ [ArbNext]_arbVars => ArbTyped'
<1> SUFFICES ASSUME ArbInv, ArbTyped, [ArbNext]_arbVars PROVE ArbTyped'
  OBVIOUS
<1> DEFINE Others == /\ UNCHANGED <<config, onPaper>> /\ now' \in 0..MaxTime
                     /\ (lost \subseteq Orders)' /\ (active \subseteq Orders)'
<1>0. /\ CallsTyped /\ lost \subseteq Orders /\ active \subseteq Orders /\ now \in 0..MaxTime
      /\ Kept(paper) /\ now \in Nat /\ onPaper \in BOOLEAN
  BY ArbAssumption DEF ArbTyped
<1>1. ASSUME CallsTyped', PaperMoves, Others PROVE ArbTyped'
  <2>1. Kept(paper)'
    BY <1>0, <1>1, PaperMovesKeep
  <2> QED
    BY <1>1, <2>1 DEF ArbTyped, create
<1>2. ASSUME NEW c \in Calls, NEW q \in Quotes, execute(c, q) PROVE ArbTyped'
  <2>1. Others
    BY <1>0, <1>2 DEF execute
  <2> QED
    BY <1>1, <1>2, <2>1, ExecuteTyped
<1>3. ASSUME NEW c \in Calls, legReturns(c) PROVE ArbTyped'
  <2>1. CASE onPaper
    <3>1. Others
      BY <1>0, <1>3, <2>1 DEF legReturns
    <3> QED
      BY <1>1, <1>3, <3>1, LegReturnsTyped
  <2>2. CASE ~onPaper
    <3>1. LiveInv
      BY <2>2 DEF ArbInv, PaperInv
    <3>2. call[c].pc = "submitting" /\ Progress(c, call[c]) /\ Shape(c, call[c])
      BY <1>3, <3>1 DEF legReturns, LiveInv, CallInv
    <3>3. call[c].order \in Orders
      <4>1. Len(call[c].results) + 1 \in {1, 2}
        BY <3>2 DEF Progress, Shape
      <4>2. <<c, Len(call[c].results) + 1>> \in Orders
        BY <4>1 DEF Orders
      <4> QED
        BY <3>2, <4>2 DEF Progress
    <3>4. Others
      BY <1>0, <1>3, <3>3 DEF legReturns
    <3> QED
      BY <1>1, <1>3, <3>4, LegReturnsTyped
  <2> QED
    BY <2>1, <2>2
<1>4. ASSUME NEW c \in Calls, cancelReturns(c) PROVE ArbTyped'
  <2>1. Others
    BY <1>0, <1>4 DEF cancelReturns
  <2> QED
    BY <1>1, <1>4, <2>1, CancelReturnsTyped
<1>5. ASSUME NEW c \in Calls, VenueCancels(c) PROVE ArbTyped'
  <2>1. Others /\ call' = call /\ paper' = paper
    BY <1>0, <1>5 DEF VenueCancels
  <2>2. PICK r \in {"ok", "error"} : reply' = [reply EXCEPT ![c] = r]
    BY <1>5 DEF VenueCancels
  <2>3. r \in Answer
    BY DEF Answer
  <2> QED
    BY <1>0, <1>1, <2>1, <2>2, <2>3, AnswerTyped
<1>6. ASSUME NEW c \in Calls, NEW leg \in {1, 2}, VenueAnswers(c, leg) PROVE ArbTyped'
  <2>1. Others /\ call' = call /\ paper' = paper
    BY <1>0, <1>6 DEF VenueAnswers
  <2>2. PICK r \in FinalState \cup {"error"} : reply' = [reply EXCEPT ![c] = r]
    BY <1>6 DEF VenueAnswers
  <2>3. r \in Answer
    BY DEF Answer
  <2> QED
    BY <1>0, <1>1, <2>1, <2>2, <2>3, AnswerTyped
<1>7. ASSUME NEW c \in Calls, NEW leg \in {1, 2}, SubmitTimesOut(c, leg) PROVE ArbTyped'
  <2>1. Others /\ call' = call /\ paper' = paper
    BY <1>0, <1>7 DEF SubmitTimesOut, Orders
  <2>2. reply' = [reply EXCEPT ![c] = "error"] /\ "error" \in Answer
    BY <1>7 DEF SubmitTimesOut, Answer
  <2> QED
    BY <1>0, <1>1, <2>1, <2>2, AnswerTyped
<1>8. ASSUME UNCHANGED <<config, onPaper, paper, call, reply, lost, active>>, now' \in 0..MaxTime
      PROVE  ArbTyped'
  <2>1. Others /\ CallsTyped' /\ PaperMoves
    BY <1>0, <1>8 DEF CallsTyped, Counted, PaperMoves
  <2> QED
    BY <1>1, <2>1
<1>9. ASSUME NEW o \in Orders, VenueFills(o) PROVE ArbTyped'
  BY <1>0, <1>8, <1>9 DEF VenueFills
<1>10. CASE Pass
  <2>1. now' \in 0..MaxTime
    BY <1>0, <1>10, ArbAssumption DEF Pass
  <2> QED
    BY <1>8, <1>10, <2>1 DEF Pass
<1>11. CASE UNCHANGED arbVars
  BY <1>0, <1>8, <1>11 DEF arbVars
<1> HIDE DEF Others
<1> QED
  BY <1>2, <1>3, <1>4, <1>5, <1>6, <1>7, <1>9, <1>10, <1>11 DEF ArbNext

LEMMA ArbTypedInit == ArbInit => ArbTyped
<1> SUFFICES ASSUME ArbInit PROVE ArbTyped
  OBVIOUS
<1>1. NewCall \in CallRecord /\ Counted(NewCall)
  BY DEF NewCall, CallRecord, CallPc, Found, NoOpportunity, Prices, OrderIds, Counted
<1>2. CallsTyped
  BY <1>1 DEF ArbInit, CallsTyped, Answer
<1>3. Kept(paper)
  BY NewPaperKept DEF ArbInit
<1> QED
  BY <1>2, <1>3, ArbAssumption DEF ArbInit, ArbTyped

LEMMA ArbAccounted == ArbInv /\ ArbTyped => LegsAccounted
<1> SUFFICES ASSUME ArbInv, ArbTyped PROVE LegsAccounted
  OBVIOUS
<1>1. venue \in [Orders -> FinalState \cup {"none", "travelling"}]
  BY DEF ArbInv, PaperInv, LiveInv
<1>2. ASSUME NEW c \in Calls
      PROVE  LET k == call[c] IN
             /\ k.pc \in CallPc /\ k.size \in Nat
             /\ Len(k.outcomes) <= Len(k.results) /\ Len(k.results) <= 2
             /\ Range(k.outcomes) \subseteq {"cancelled", "cancel_failed"}
  <2>1. call[c] \in CallRecord /\ Counted(call[c])
    BY DEF ArbTyped, CallsTyped
  <2>2. call[c].outcomes \in Seq(Outcome)
    BY <2>1 DEF CallRecord
  <2>3. Range(call[c].outcomes) \subseteq Outcome
    BY <2>2, ElementOfSeq DEF Range
  <2> QED
    BY <2>1, <2>3 DEF CallRecord, Counted, Outcome
<1>3. ArbTypeOK
  BY <1>1, <1>2 DEF ArbTyped, CallsTyped, ArbTypeOK
<1>4. SweptOnce
  BY KeptSweptOnce DEF ArbTyped
<1> QED
  BY <1>3, <1>4, InvCompletes DEF LegsAccounted

\* The orders of an arbitrage stay accounted for at the exchange and on paper, where an order is
\* recorded at most twice, the second time as cancelled (paper-executor.ts:155).
THEOREM LegsOfArbitrage == ArbSpec => []LegsAccounted
<1>1. ArbInit => ArbInv /\ ArbTyped
  BY InitKnown, ArbTypedInit
<1>2. ArbInv /\ ArbTyped /\ [ArbNext]_arbVars => (ArbInv /\ ArbTyped)'
  BY PaperStep, LiveStep, ArbTypedStep DEF ArbInv
<1> QED
  BY <1>1, <1>2, ArbAccounted, PTL DEF ArbSpec

-----------------------------------------------------------------------------
(* How often a sequence holds something.                                   *)

Places(s, x) == {i \in DOMAIN s : s[i] = x}
Occurs(s, x) == Cardinality(Places(s, x))

LEMMA OccursTyped ==
  ASSUME NEW S, NEW s \in Seq(S), NEW x
  PROVE  IsFiniteSet(Places(s, x)) /\ Occurs(s, x) \in Nat
<1>1. Places(s, x) \in SUBSET (1..Len(s)) /\ IsFiniteSet(1..Len(s))
  BY FS_Interval DEF Places
<1> QED
  BY <1>1, FS_Subset, FS_CardinalityType DEF Occurs

LEMMA OccursNowhere == \A x : Occurs(<<>>, x) = 0
  BY FS_EmptySet DEF Occurs, Places

LEMMA OccursAppended ==
  ASSUME NEW S, NEW s \in Seq(S), NEW e \in S, NEW x
  PROVE  Occurs(Append(s, e), x) = IF e = x THEN Occurs(s, x) + 1 ELSE Occurs(s, x)
<1> DEFINE n == Len(s) + 1
<1>1. /\ Append(s, e) \in Seq(S) /\ DOMAIN Append(s, e) = 1..n /\ Append(s, e)[n] = e
      /\ \A i \in 1..Len(s) : Append(s, e)[i] = s[i]
  OBVIOUS
<1>2. n \notin Places(s, x) /\ IsFiniteSet(Places(s, x))
  <2>1. n \notin Places(s, x)
    BY DEF Places
  <2> QED
    BY <2>1, OccursTyped
<1>3. CASE e = x
  <2>1. Places(Append(s, e), x) = Places(s, x) \cup {n}
    BY <1>1, <1>3 DEF Places
  <2> QED
    BY <1>2, <1>3, <2>1, FS_AddElement DEF Occurs
<1>4. CASE e # x
  <2>1. Places(Append(s, e), x) = Places(s, x)
    BY <1>1, <1>4 DEF Places
  <2> QED
    BY <1>4, <2>1 DEF Occurs
<1> QED
  BY <1>3, <1>4

LEMMA OccursDropped ==
  ASSUME NEW S, NEW s \in Seq(S), NEW r \in Seq(S), NEW n, Drops(s, r, n), NEW x
  PROVE  Occurs(r, x) = IF s[n] = x THEN Occurs(s, x) - 1 ELSE Occurs(s, x)
<1> DEFINE up(i) == IF i < n THEN i ELSE i + 1
           f == [i \in Places(r, x) |-> up(i)]
           T == Places(s, x) \ {n}
<1>1. n \in 1..Len(s) /\ Len(r) = Len(s) - 1 /\ DOMAIN r = 1..Len(r) /\ DOMAIN s = 1..Len(s)
  BY DEF Drops
<1>2. \A i \in 1..Len(r) : up(i) \in 1..Len(s) /\ up(i) # n /\ r[i] = s[up(i)]
  BY <1>1 DEF Drops
<1>3. f \in [Places(r, x) -> T]
  BY <1>1, <1>2 DEF Places
<1>4. \A i, j \in Places(r, x) : up(i) = up(j) => i = j
  BY <1>1 DEF Places
<1>5. ASSUME NEW j \in T
      PROVE  \E i \in Places(r, x) : f[i] = j
  <2> DEFINE i == IF j < n THEN j ELSE j - 1
  <2>1. j \in 1..Len(s) /\ j # n /\ s[j] = x
    BY <1>1 DEF Places
  <2>2. i \in 1..Len(r) /\ up(i) = j
    BY <1>1, <2>1
  <2>3. i \in Places(r, x)
    BY <1>1, <1>2, <2>1, <2>2 DEF Places
  <2> QED
    BY <2>2, <2>3
<1>6. f \in Bijection(Places(r, x), T)
  BY <1>3, <1>4, <1>5 DEF Bijection, Injection, Surjection, IsInjective
<1>7. Cardinality(T) = Occurs(r, x)
  BY <1>6, OccursTyped, FS_Bijection DEF ExistsBijection, Occurs
<1>8. n \in Places(s, x) <=> s[n] = x
  BY <1>1 DEF Places
<1> HIDE DEF T
<1>9. Cardinality(T) = IF n \in Places(s, x) THEN Occurs(s, x) - 1 ELSE Occurs(s, x)
  BY OccursTyped, FS_RemoveElement DEF T, Occurs
<1> QED
  BY <1>7, <1>8, <1>9

-----------------------------------------------------------------------------
(* The dispatcher.                                                          *)

Between(e, l, h, n) == e.least[l][h] <= n /\ n <= e.most[l][h]

\* What an emission has called and still has to call of its list is as often as the handlers'
\* subscriptions; the list of all types it will take as it is then.
Balanced(e, subs) ==
  \A h \in Handlers :
    /\ Between(e, e.list, h, e.called[e.list][h] + Occurs(e.todo, h))
    /\ IF e.list = "typed"
       THEN e.called["*"][h] = 0 /\ Between(e, "*", h, Occurs(subs["*"], h))
       ELSE Between(e, "typed", h, e.called["typed"][h])

EventInv == EventTypeOK /\ \A i \in DOMAIN stack : Balanced(stack[i], handlers[stack[i].channel])

LEMMA CountsAre ==
  ASSUME NEW s \in Seq(Handlers)
  PROVE  Counts(s) \in [Handlers -> Nat] /\ \A h \in Handlers : Counts(s)[h] = Occurs(s, h)
<1>1. \A h \in Handlers : Occurs(s, h) \in Nat
  BY OccursTyped
<1> QED
  BY <1>1 DEF Counts, Occurs, Places

LEMMA InitDelivers == EventInit => EventInv
<1> SUFFICES ASSUME EventInit PROVE EventInv
  OBVIOUS
<1>1. handlers \in [Channels -> Subscriptions] /\ stack = <<>> /\ edits \in 0..MaxEdits
  BY EventAssumption DEF EventInit, Subscriptions, Lists
<1> QED
  BY <1>1 DEF EventInv, EventTypeOK

LEMMA EmitKeeps ==
  ASSUME EventInv, NEW ch \in Channels, emit(ch)
  PROVE  EventInv'
<1> DEFINE e == [channel |-> ch, list |-> "typed", todo |-> handlers[ch]["typed"],
                 calling |-> NoHandler,
                 called |-> [l \in Lists |-> None],
                 least |-> [l \in Lists |-> Counts(handlers[ch][l])],
                 most |-> [l \in Lists |-> Counts(handlers[ch][l])]]
<1>1. stack' = Append(stack, e) /\ handlers' = handlers /\ edits' = edits
  BY DEF emit
<1>2. handlers[ch]["typed"] \in Seq(Handlers) /\ handlers[ch]["*"] \in Seq(Handlers)
  BY DEF EventInv, EventTypeOK, Subscriptions, Lists
<1>3. \A l \in Lists : /\ Counts(handlers[ch][l]) \in [Handlers -> Nat]
                       /\ \A h \in Handlers : Counts(handlers[ch][l])[h] = Occurs(handlers[ch][l], h)
  BY <1>2, CountsAre DEF Lists
<1>4. e \in Emission
  <2>1. None \in [Handlers -> Nat]
    BY DEF None
  <2>2. e.called \in Tally /\ e.least \in Tally /\ e.most \in Tally
    BY <1>3, <2>1 DEF Tally
  <2> QED
    BY <1>2, <2>2 DEF Emission, Lists
<1>5. Balanced(e, handlers[ch])
  <2> SUFFICES ASSUME NEW h \in Handlers
               PROVE  /\ Between(e, e.list, h, e.called[e.list][h] + Occurs(e.todo, h))
                      /\ e.called["*"][h] = 0 /\ Between(e, "*", h, Occurs(handlers[ch]["*"], h))
    BY DEF Balanced
  <2>1. Occurs(handlers[ch]["typed"], h) \in Nat /\ Occurs(handlers[ch]["*"], h) \in Nat
    BY <1>2, OccursTyped
  <2> QED
    BY <1>3, <2>1 DEF Between, Lists, None
<1> HIDE DEF e
<1>6. stack \in Seq(Emission)
  BY DEF EventInv, EventTypeOK
<1>7. /\ stack' \in Seq(Emission) /\ DOMAIN stack' = 1..(Len(stack) + 1)
      /\ stack'[Len(stack) + 1] = e /\ \A i \in 1..Len(stack) : stack'[i] = stack[i]
  BY <1>1, <1>4, <1>6, AppendProperties
<1>8. e.channel = ch
  BY DEF e
<1>9. ASSUME NEW i \in DOMAIN stack'
      PROVE  Balanced(stack'[i], handlers'[stack'[i].channel])
  BY <1>1, <1>5, <1>6, <1>7, <1>8 DEF EventInv
<1> QED
  BY <1>1, <1>7, <1>9 DEF EventInv, EventTypeOK

\* A change of the subscriptions is noted by every emission under way of the channel; the others
\* keep theirs.
LEMMA StackNoted ==
  ASSUME EventInv, NEW subs \in [Channels -> Subscriptions], NEW next, DOMAIN next = DOMAIN stack,
         \A i \in DOMAIN stack : /\ next[i] \in Emission /\ next[i].channel = stack[i].channel
                                 /\ Balanced(next[i], subs[stack[i].channel]),
         next = [i \in DOMAIN stack |-> next[i]],
         handlers' = subs, stack' = next, edits' \in 0..MaxEdits
  PROVE  EventInv'
<1>1. stack \in Seq(Emission) /\ DOMAIN stack = 1..Len(stack) /\ Len(stack) \in Nat
  BY DEF EventInv, EventTypeOK
<1>2. next \in [1..Len(stack) -> Emission]
  BY <1>1
<1>3. next \in Seq(Emission)
  BY <1>1, <1>2, SeqDef
<1> QED
  BY <1>3 DEF EventInv, EventTypeOK

LEMMA OnKeeps ==
  ASSUME EventInv, NEW ch \in Channels, NEW l \in Lists, NEW h \in Handlers, on(ch, l, h)
  PROVE  EventInv'
<1> DEFINE noted(e) == [e EXCEPT !.most[l][h] = @ + 1]
           next == [i \in DOMAIN stack |-> IF stack[i].channel = ch THEN noted(stack[i]) ELSE stack[i]]
           subs == [handlers EXCEPT ![ch][l] = Append(@, h)]
<1>1. stack' = next /\ handlers' = subs /\ edits' \in 0..MaxEdits
  BY EventAssumption DEF on, Noted, EventInv, EventTypeOK
<1>2. /\ handlers \in [Channels -> [Lists -> Seq(Handlers)]]
      /\ stack \in Seq(Emission)
  BY DEF EventInv, EventTypeOK, Subscriptions
<1>3. subs \in [Channels -> Subscriptions]
  BY <1>2 DEF Subscriptions
<1>4. ASSUME NEW k \in Lists, NEW x \in Handlers
      PROVE  /\ Occurs(handlers[ch][k], x) \in Nat
             /\ Occurs(subs[ch][k], x) = IF k = l /\ x = h THEN Occurs(handlers[ch][k], x) + 1
                                         ELSE Occurs(handlers[ch][k], x)
  <2>1. handlers[ch][k] \in Seq(Handlers)
    BY <1>2
  <2>2. subs[ch][k] = IF k = l THEN Append(handlers[ch][k], h) ELSE handlers[ch][k]
    BY <1>2
  <2> QED
    BY <2>1, <2>2, OccursTyped, OccursAppended
<1>5. \A c \in Channels : c # ch => subs[c] = handlers[c]
  BY <1>2
<1> HIDE DEF subs
<1>6. ASSUME NEW i \in DOMAIN stack
      PROVE  /\ next[i] \in Emission /\ next[i].channel = stack[i].channel
             /\ Balanced(next[i], subs[stack[i].channel])
  <2> DEFINE e == stack[i]
  <2>1. e \in Emission /\ Balanced(e, handlers[e.channel])
    BY <1>2, ElementOfSeq DEF EventInv
  <2> HIDE DEF e
  <2>2. CASE e.channel # ch
    <3>1. next[i] = e /\ e.channel \in Channels
      BY <2>1, <2>2 DEF e, Emission
    <3> QED
      BY <1>5, <2>1, <2>2, <3>1 DEF e
  <2>3. CASE e.channel = ch
    <3>1. next[i] = noted(e)
      BY <2>3 DEF e
    <3>2. e.most \in [Lists -> [Handlers -> Nat]] /\ e.least \in Tally /\ e.called \in Tally
          /\ e.list \in Lists /\ e.todo \in Seq(Handlers)
      BY <2>1 DEF Emission, Tally
    <3>3. noted(e) \in Emission
      <4> DEFINE row == [e.most[l] EXCEPT ![h] = e.most[l][h] + 1]
                 more == [e.most EXCEPT ![l] = row]
      <4>1. row \in [Handlers -> Nat]
        BY <3>2
      <4>2. noted(e) = [e EXCEPT !.most = more]
        OBVIOUS
      <4> HIDE DEF row
      <4>3. more \in Tally
        BY <3>2, <4>1 DEF Tally
      <4> HIDE DEF more
      <4> QED
        BY <2>1, <4>2, <4>3 DEF Emission
    <3>4. /\ noted(e).channel = e.channel /\ noted(e).list = e.list /\ noted(e).called = e.called
          /\ noted(e).todo = e.todo /\ noted(e).least = e.least
      BY <2>1 DEF Emission
    <3>5. ASSUME NEW k \in Lists, NEW x \in Handlers
          PROVE  noted(e).most[k][x] = IF k = l /\ x = h THEN e.most[k][x] + 1 ELSE e.most[k][x]
      BY <2>1, <3>2 DEF Emission
    <3>6. ASSUME NEW x \in Handlers
          PROVE  /\ Between(noted(e), e.list, x, e.called[e.list][x] + Occurs(e.todo, x))
                 /\ IF e.list = "typed"
                    THEN e.called["*"][x] = 0 /\ Between(noted(e), "*", x, Occurs(subs[ch]["*"], x))
                    ELSE Between(noted(e), "typed", x, e.called["typed"][x])
      <4>1. "*" \in Lists /\ "typed" \in Lists
        BY DEF Lists
      <4>2. \A k \in Lists : e.most[k][x] \in Nat /\ e.least[k][x] \in Nat /\ e.called[k][x] \in Nat
        BY <3>2 DEF Tally
      <4>3. Occurs(e.todo, x) \in Nat
        BY <3>2, OccursTyped
      <4>4. /\ Between(e, e.list, x, e.called[e.list][x] + Occurs(e.todo, x))
            /\ IF e.list = "typed"
               THEN e.called["*"][x] = 0 /\ Between(e, "*", x, Occurs(handlers[ch]["*"], x))
               ELSE Between(e, "typed", x, e.called["typed"][x])
        BY <2>1, <2>3 DEF Balanced
      <4>5. \A k \in Lists : noted(e).most[k][x] \in Nat /\ e.most[k][x] <= noted(e).most[k][x]
        BY <3>5, <4>2
      <4>6. Between(noted(e), e.list, x, e.called[e.list][x] + Occurs(e.todo, x))
        BY <3>2, <3>4, <4>2, <4>3, <4>4, <4>5 DEF Between
      <4>7. CASE e.list = "typed"
        <5>1. Between(noted(e), "*", x, Occurs(subs[ch]["*"], x))
          BY <1>4, <3>4, <3>5, <4>1, <4>2, <4>4, <4>7 DEF Between
        <5> QED
          BY <4>4, <4>6, <4>7, <5>1
      <4>8. CASE e.list # "typed"
        <5>1. Between(noted(e), "typed", x, e.called["typed"][x])
          BY <3>4, <4>1, <4>2, <4>4, <4>5, <4>8 DEF Between
        <5> QED
          BY <4>6, <4>8, <5>1
      <4> QED
        BY <4>7, <4>8
    <3>7. Balanced(noted(e), subs[ch])
      BY <3>4, <3>6 DEF Balanced
    <3> QED
      BY <2>3, <3>1, <3>3, <3>4, <3>7 DEF e
  <2> QED
    BY <2>2, <2>3
<1> HIDE DEF next
<1>7. DOMAIN next = DOMAIN stack /\ next = [i \in DOMAIN stack |-> next[i]]
  BY DEF next
<1> QED
  BY <1>1, <1>3, <1>6, <1>7, StackNoted

LEMMA OffKeeps ==
  ASSUME EventInv, NEW ch \in Channels, NEW l \in Lists, NEW h \in Handlers, off(ch, l, h)
  PROVE  EventInv'
<1> DEFINE noted(e) == [e EXCEPT !.least[l][h] = IF @ = 0 THEN 0 ELSE @ - 1]
           next == [i \in DOMAIN stack |-> IF stack[i].channel = ch THEN noted(stack[i]) ELSE stack[i]]
           subs == [handlers EXCEPT ![ch][l] = RemoveFirst(@, h)]
<1>1. stack' = next /\ handlers' = subs /\ edits' \in 0..MaxEdits
  BY EventAssumption DEF off, Noted, EventInv, EventTypeOK
<1>2. /\ handlers \in [Channels -> [Lists -> Seq(Handlers)]]
      /\ stack \in Seq(Emission)
  BY DEF EventInv, EventTypeOK, Subscriptions
<1> DEFINE s == handlers[ch][l]
           r == RemoveFirst(s, h)
<1>3. s \in Seq(Handlers) /\ h \in ToSet(s)
  BY <1>2 DEF off, Contains, ToSet
<1>4. r \in Seq(Handlers) /\ \E n \in 1..Len(s) : s[n] = h /\ Drops(s, r, n)
  <2> HIDE DEF s
  <2> QED
    BY <1>3, DropsFirst
<1>5. subs \in [Channels -> Subscriptions]
  BY <1>2, <1>4 DEF Subscriptions
<1>6. ASSUME NEW k \in Lists, NEW x \in Handlers
      PROVE  /\ Occurs(handlers[ch][k], x) \in Nat
             /\ Occurs(subs[ch][k], x) \in Nat
             /\ Occurs(subs[ch][k], x) = IF k = l /\ x = h THEN Occurs(handlers[ch][k], x) - 1
                                         ELSE Occurs(handlers[ch][k], x)
  <2>1. handlers[ch][k] \in Seq(Handlers) /\ subs[ch][k] \in Seq(Handlers)
    BY <1>2, <1>5 DEF Subscriptions
  <2>2. subs[ch][k] = IF k = l THEN r ELSE handlers[ch][k]
    BY <1>2
  <2>3. Occurs(r, x) = IF x = h THEN Occurs(s, x) - 1 ELSE Occurs(s, x)
    <3>1. PICK n \in 1..Len(s) : s[n] = h /\ Drops(s, r, n)
      BY <1>4
    <3> HIDE DEF s, r
    <3>2. Occurs(r, x) = IF s[n] = x THEN Occurs(s, x) - 1 ELSE Occurs(s, x)
      BY <1>3, <1>4, <3>1, OccursDropped
    <3> QED
      BY <3>1, <3>2
  <2>4. Occurs(handlers[ch][k], x) \in Nat /\ Occurs(subs[ch][k], x) \in Nat
    BY <2>1, OccursTyped
  <2>5. CASE k = l
    BY <2>2, <2>3, <2>4, <2>5
  <2>6. CASE k # l
    BY <2>2, <2>4, <2>6
  <2> QED
    BY <2>5, <2>6
<1>7. \A c \in Channels : c # ch => subs[c] = handlers[c]
  BY <1>2
<1> HIDE DEF subs, s, r
<1>8. ASSUME NEW i \in DOMAIN stack
      PROVE  /\ next[i] \in Emission /\ next[i].channel = stack[i].channel
             /\ Balanced(next[i], subs[stack[i].channel])
  <2> DEFINE e == stack[i]
  <2>1. e \in Emission /\ Balanced(e, handlers[e.channel])
    BY <1>2, ElementOfSeq DEF EventInv
  <2> HIDE DEF e
  <2>2. CASE e.channel # ch
    <3>1. next[i] = e /\ e.channel \in Channels
      BY <2>1, <2>2 DEF e, Emission
    <3> QED
      BY <1>7, <2>1, <2>2, <3>1 DEF e
  <2>3. CASE e.channel = ch
    <3>1. next[i] = noted(e)
      BY <2>3 DEF e
    <3>2. e.least \in [Lists -> [Handlers -> Nat]] /\ e.most \in Tally /\ e.called \in Tally
          /\ e.list \in Lists /\ e.todo \in Seq(Handlers)
      BY <2>1 DEF Emission, Tally
    <3>3. noted(e) \in Emission
      <4> DEFINE row == [e.least[l] EXCEPT ![h] = IF e.least[l][h] = 0 THEN 0 ELSE e.least[l][h] - 1]
                 less == [e.least EXCEPT ![l] = row]
      <4>1. e.least[l] \in [Handlers -> Nat]
        BY <3>2
      <4>2. row \in [Handlers -> Nat]
        BY <4>1
      <4>4. noted(e) = [e EXCEPT !.least = less]
        OBVIOUS
      <4> HIDE DEF row
      <4>3. less \in Tally
        BY <3>2, <4>2 DEF Tally
      <4> HIDE DEF less
      <4> QED
        BY <2>1, <4>3, <4>4 DEF Emission
    <3>4. /\ noted(e).channel = e.channel /\ noted(e).list = e.list /\ noted(e).called = e.called
          /\ noted(e).todo = e.todo /\ noted(e).most = e.most
      BY <2>1 DEF Emission
    <3>5. ASSUME NEW k \in Lists, NEW x \in Handlers
          PROVE  noted(e).least[k][x] = IF k = l /\ x = h /\ e.least[k][x] # 0
                                        THEN e.least[k][x] - 1 ELSE e.least[k][x]
      BY <2>1, <3>2 DEF Emission
    <3>6. ASSUME NEW x \in Handlers
          PROVE  /\ Between(noted(e), e.list, x, e.called[e.list][x] + Occurs(e.todo, x))
                 /\ IF e.list = "typed"
                    THEN e.called["*"][x] = 0 /\ Between(noted(e), "*", x, Occurs(subs[ch]["*"], x))
                    ELSE Between(noted(e), "typed", x, e.called["typed"][x])
      <4>1. "*" \in Lists /\ "typed" \in Lists
        BY DEF Lists
      <4>2. \A k \in Lists : e.most[k][x] \in Nat /\ e.least[k][x] \in Nat /\ e.called[k][x] \in Nat
        BY <3>2 DEF Tally
      <4>3. Occurs(e.todo, x) \in Nat
        BY <3>2, OccursTyped
      <4>4. /\ Between(e, e.list, x, e.called[e.list][x] + Occurs(e.todo, x))
            /\ IF e.list = "typed"
               THEN e.called["*"][x] = 0 /\ Between(e, "*", x, Occurs(handlers[ch]["*"], x))
               ELSE Between(e, "typed", x, e.called["typed"][x])
        BY <2>1, <2>3 DEF Balanced
      <4>5. \A k \in Lists : noted(e).least[k][x] \in Nat /\ noted(e).least[k][x] <= e.least[k][x]
        BY <3>5, <4>2
      <4>6. Between(noted(e), e.list, x, e.called[e.list][x] + Occurs(e.todo, x))
        BY <3>2, <3>4, <4>2, <4>3, <4>4, <4>5 DEF Between
      <4>7. CASE e.list = "typed"
        <5>1. Between(noted(e), "*", x, Occurs(subs[ch]["*"], x))
          BY <1>6, <3>4, <3>5, <4>1, <4>2, <4>4, <4>7 DEF Between
        <5> QED
          BY <4>4, <4>6, <4>7, <5>1
      <4>8. CASE e.list # "typed"
        <5>1. Between(noted(e), "typed", x, e.called["typed"][x])
          BY <3>4, <4>1, <4>2, <4>4, <4>5, <4>8 DEF Between
        <5> QED
          BY <4>6, <4>8, <5>1
      <4> QED
        BY <4>7, <4>8
    <3>7. Balanced(noted(e), subs[ch])
      BY <3>4, <3>6 DEF Balanced
    <3> QED
      BY <2>3, <3>1, <3>3, <3>4, <3>7 DEF e
  <2> QED
    BY <2>2, <2>3
<1> HIDE DEF next
<1>9. DOMAIN next = DOMAIN stack /\ next = [i \in DOMAIN stack |-> next[i]]
  BY DEF next
<1> QED
  BY <1>1, <1>5, <1>8, <1>9, StackNoted

LEMMA ClearKeeps ==
  ASSUME EventInv, clearHandlers
  PROVE  EventInv'
<1> DEFINE nobody == [l \in Lists |-> None]
           next == [i \in DOMAIN stack |-> [stack[i] EXCEPT !.least = nobody]]
           subs == [ch \in Channels |-> [l \in Lists |-> <<>>]]
<1>1. stack' = next /\ handlers' = subs /\ edits' \in 0..MaxEdits
  BY EventAssumption DEF clearHandlers, EventInv, EventTypeOK
<1>2. stack \in Seq(Emission)
  BY DEF EventInv, EventTypeOK
<1>3. subs \in [Channels -> Subscriptions]
  BY EmptySeq DEF Subscriptions
<1>4. nobody \in Tally /\ \A l \in Lists, h \in Handlers : nobody[l][h] = 0
  BY DEF Tally, None
<1>5. ASSUME NEW i \in DOMAIN stack
      PROVE  /\ next[i] \in Emission /\ next[i].channel = stack[i].channel
             /\ Balanced(next[i], subs[stack[i].channel])
  <2> DEFINE e == stack[i]
             d == next[i]
  <2>1. e \in Emission /\ Balanced(e, handlers[e.channel])
    BY <1>2, ElementOfSeq DEF EventInv
  <2>2. d = [e EXCEPT !.least = nobody]
    OBVIOUS
  <2> HIDE DEF e, d, nobody
  <2>3. /\ d \in Emission /\ d.channel = e.channel /\ d.list = e.list /\ d.called = e.called
        /\ d.todo = e.todo /\ d.most = e.most /\ d.least = nobody
    BY <1>4, <2>1, <2>2 DEF Emission
  <2>4. e.most \in Tally /\ e.called \in Tally /\ e.list \in Lists /\ e.todo \in Seq(Handlers)
        /\ e.channel \in Channels
    BY <2>1 DEF Emission
  <2>5. \A l \in Lists : subs[e.channel][l] = <<>>
    BY <2>4
  <2>6. ASSUME NEW x \in Handlers
        PROVE  /\ Between(d, d.list, x, d.called[d.list][x] + Occurs(d.todo, x))
               /\ IF d.list = "typed"
                  THEN d.called["*"][x] = 0 /\ Between(d, "*", x, Occurs(subs[e.channel]["*"], x))
                  ELSE Between(d, "typed", x, d.called["typed"][x])
    <3>1. "*" \in Lists /\ "typed" \in Lists
      BY DEF Lists
    <3>2. \A k \in Lists : e.most[k][x] \in Nat /\ e.called[k][x] \in Nat /\ nobody[k][x] = 0
      BY <1>4, <2>4 DEF Tally
    <3>3. Occurs(e.todo, x) \in Nat
      BY <2>4, OccursTyped
    <3>4. Occurs(subs[e.channel]["*"], x) = 0
      BY <2>5, <3>1, OccursNowhere
    <3>5. /\ Between(e, e.list, x, e.called[e.list][x] + Occurs(e.todo, x))
          /\ IF e.list = "typed" THEN e.called["*"][x] = 0
             ELSE Between(e, "typed", x, e.called["typed"][x])
      BY <2>1 DEF Balanced
    <3> HIDE DEF subs
    <3> QED
      BY <2>3, <2>4, <3>1, <3>2, <3>3, <3>4, <3>5 DEF Between
  <2>7. Balanced(d, subs[e.channel])
    BY <2>6 DEF Balanced
  <2> QED
    BY <2>3, <2>7 DEF e, d
<1> HIDE DEF next
<1>6. DOMAIN next = DOMAIN stack /\ next = [i \in DOMAIN stack |-> next[i]]
  BY DEF next
<1> QED
  BY <1>1, <1>3, <1>5, <1>6, StackNoted

\* The innermost emission goes on.
LEMMA InnerKeeps ==
  ASSUME EventInv, stack # <<>>, NEW e \in Emission, Inner(e), e.channel = Innermost.channel,
         Balanced(e, handlers[e.channel])
  PROVE  EventInv'
<1>1. /\ stack \in Seq(Emission) /\ Len(stack) \in Nat /\ Len(stack) \in 1..Len(stack)
      /\ DOMAIN stack = 1..Len(stack)
  BY DEF EventInv, EventTypeOK
<1>2. stack' = [stack EXCEPT ![Len(stack)] = e] /\ handlers' = handlers /\ edits' = edits
  BY DEF Inner
<1>3. /\ stack' \in Seq(Emission) /\ Len(stack') = Len(stack)
      /\ \A i \in 1..Len(stack) : stack'[i] = IF i = Len(stack) THEN e ELSE stack[i]
  BY <1>1, <1>2, ExceptSeq
<1>4. DOMAIN stack' = DOMAIN stack
  BY <1>2
<1>5. ASSUME NEW i \in DOMAIN stack'
      PROVE  Balanced(stack'[i], handlers'[stack'[i].channel])
  BY <1>1, <1>2, <1>3, <1>4 DEF EventInv
<1> QED
  BY <1>2, <1>3, <1>5 DEF EventInv, EventTypeOK

LEMMA InnermostTyped ==
  ASSUME EventInv, stack # <<>>
  PROVE  Innermost \in Emission /\ Balanced(Innermost, handlers[Innermost.channel])
<1>1. stack \in Seq(Emission) /\ Len(stack) \in 1..Len(stack) /\ DOMAIN stack = 1..Len(stack)
  BY DEF EventInv, EventTypeOK
<1> QED
  BY <1>1, ElementOfSeq DEF EventInv, Innermost, Last

LEMMA DispatchKeeps ==
  ASSUME EventInv, dispatchAll
  PROVE  EventInv'
<1> DEFINE e == Innermost
           h == Head(e.todo)
           calls == [e.called[e.list] EXCEPT ![h] = @ + 1]
           called == [e.called EXCEPT ![e.list] = calls]
           d == [e EXCEPT !.calling = h, !.todo = Tail(@), !.called = called]
<1>1. stack # <<>> /\ e.todo # <<>> /\ Inner(d)
  BY DEF dispatchAll
<1>2. e \in Emission /\ Balanced(e, handlers[e.channel])
  BY <1>1, InnermostTyped
<1> HIDE DEF e
<1>3. /\ e.todo \in Seq(Handlers) /\ e.list \in Lists /\ e.channel \in Channels
      /\ e.called \in [Lists -> [Handlers -> Nat]] /\ e.least \in Tally /\ e.most \in Tally
  BY <1>2 DEF Emission, Tally
<1>4. /\ h \in Handlers /\ Tail(e.todo) \in Seq(Handlers) /\ h = e.todo[1]
      /\ Drops(e.todo, Tail(e.todo), 1)
  <2>1. /\ h \in Handlers /\ Tail(e.todo) \in Seq(Handlers) /\ Len(Tail(e.todo)) = Len(e.todo) - 1
        /\ \A i \in 1..Len(Tail(e.todo)) : Tail(e.todo)[i] = e.todo[i + 1]
    BY <1>1, <1>3, HeadTailProperties
  <2>2. 1 \in 1..Len(e.todo) /\ h = e.todo[1]
    BY <1>1, <1>3
  <2> QED
    BY <2>1, <2>2 DEF Drops
<1> HIDE DEF h
<1>5. e.called[e.list] \in [Handlers -> Nat]
  BY <1>3
<1>6. /\ calls \in [Handlers -> Nat]
      /\ \A x \in Handlers : calls[x] = IF x = h THEN e.called[e.list][x] + 1 ELSE e.called[e.list][x]
  BY <1>4, <1>5
<1> HIDE DEF calls
<1>7. /\ called \in Tally /\ called[e.list] = calls
      /\ \A l \in Lists : l # e.list => called[l] = e.called[l]
  BY <1>3, <1>6 DEF Tally
<1> HIDE DEF called
<1>8. /\ d \in Emission /\ d.channel = e.channel /\ d.list = e.list /\ d.todo = Tail(e.todo)
      /\ d.called = called /\ d.least = e.least /\ d.most = e.most
  BY <1>2, <1>4, <1>7 DEF Emission
<1>9. ASSUME NEW x \in Handlers
      PROVE  /\ Between(d, d.list, x, d.called[d.list][x] + Occurs(d.todo, x))
             /\ IF d.list = "typed"
                THEN d.called["*"][x] = 0 /\ Between(d, "*", x, Occurs(handlers[d.channel]["*"], x))
                ELSE Between(d, "typed", x, d.called["typed"][x])
  <2>1. /\ Between(e, e.list, x, e.called[e.list][x] + Occurs(e.todo, x))
        /\ IF e.list = "typed"
           THEN e.called["*"][x] = 0 /\ Between(e, "*", x, Occurs(handlers[e.channel]["*"], x))
           ELSE Between(e, "typed", x, e.called["typed"][x])
    BY <1>2 DEF Balanced
  <2>2. Occurs(Tail(e.todo), x) = IF h = x THEN Occurs(e.todo, x) - 1 ELSE Occurs(e.todo, x)
    <3> DEFINE s == e.todo  r == Tail(e.todo)
    <3>0. s \in Seq(Handlers) /\ r \in Seq(Handlers) /\ Drops(s, r, 1)
      BY <1>3, <1>4
    <3> HIDE DEF s, r
    <3>1. Occurs(r, x) = IF s[1] = x THEN Occurs(s, x) - 1 ELSE Occurs(s, x)
      BY <3>0, OccursDropped
    <3> QED
      BY <1>4, <3>1 DEF s, r
  <2>3. Occurs(e.todo, x) \in Nat /\ e.called[e.list][x] \in Nat
    BY <1>3, <1>5, OccursTyped
  <2>4. calls[x] + Occurs(Tail(e.todo), x) = e.called[e.list][x] + Occurs(e.todo, x)
    BY <1>6, <2>2, <2>3
  <2>5. \A l \in Lists : l # e.list => called[l][x] = e.called[l][x]
    BY <1>7
  <2>6. "*" \in Lists /\ "typed" \in Lists /\ (e.list # "typed" => e.list = "*")
    BY <1>3 DEF Lists
  <2>7. Between(d, d.list, x, d.called[d.list][x] + Occurs(d.todo, x))
    BY <1>7, <1>8, <2>1, <2>4 DEF Between
  <2>8. CASE e.list = "typed"
    <3>1. called["*"][x] = 0
      BY <2>1, <2>5, <2>6, <2>8
    <3> QED
      BY <1>8, <2>1, <2>7, <2>8, <3>1 DEF Between
  <2>9. CASE e.list # "typed"
    <3>1. called["typed"][x] = e.called["typed"][x]
      BY <2>5, <2>6, <2>9
    <3> QED
      BY <1>8, <2>1, <2>7, <2>9, <3>1 DEF Between
  <2> QED
    BY <2>8, <2>9
<1>10. Balanced(d, handlers[d.channel])
  BY <1>9 DEF Balanced
<1> HIDE DEF d
<1> QED
  BY <1>1, <1>8, <1>10, InnerKeeps DEF e

LEMMA HandlerEndsKeeps ==
  ASSUME EventInv, HandlerEnds
  PROVE  EventInv'
<1> DEFINE e == Innermost
           d == [e EXCEPT !.calling = NoHandler]
<1>1. stack # <<>> /\ Inner(d)
  BY DEF HandlerEnds
<1>2. e \in Emission /\ Balanced(e, handlers[e.channel])
  BY <1>1, InnermostTyped
<1> HIDE DEF e
<1>3. /\ d \in Emission /\ d.channel = e.channel /\ d.list = e.list /\ d.todo = e.todo
      /\ d.called = e.called /\ d.least = e.least /\ d.most = e.most
  BY <1>2 DEF Emission
<1> HIDE DEF d
<1>4. Balanced(d, handlers[d.channel])
  BY <1>2, <1>3 DEF Balanced, Between
<1> QED
  BY <1>1, <1>3, <1>4, InnerKeeps DEF e

LEMMA DispatchAnyKeeps ==
  ASSUME EventInv, DispatchAny
  PROVE  EventInv'
<1> DEFINE e == Innermost
           d == [e EXCEPT !.list = "*", !.todo = handlers[e.channel]["*"]]
<1>1. stack # <<>> /\ e.todo = <<>> /\ e.list = "typed" /\ Inner(d)
  BY DEF DispatchAny
<1>2. e \in Emission /\ Balanced(e, handlers[e.channel])
  BY <1>1, InnermostTyped
<1> HIDE DEF e
<1>3. e.channel \in Channels /\ e.called \in Tally /\ handlers[e.channel]["*"] \in Seq(Handlers)
  BY <1>2 DEF Emission, EventInv, EventTypeOK, Subscriptions, Lists
<1>4. /\ d \in Emission /\ d.channel = e.channel /\ d.list = "*"
      /\ d.todo = handlers[e.channel]["*"]
      /\ d.called = e.called /\ d.least = e.least /\ d.most = e.most
  BY <1>2, <1>3 DEF Emission, Lists
<1> HIDE DEF d
<1>5. ASSUME NEW x \in Handlers
      PROVE  /\ Between(d, "*", x, d.called["*"][x] + Occurs(d.todo, x))
             /\ Between(d, "typed", x, d.called["typed"][x])
  <2>1. /\ Between(e, "typed", x, e.called["typed"][x] + Occurs(e.todo, x))
        /\ e.called["*"][x] = 0 /\ Between(e, "*", x, Occurs(handlers[e.channel]["*"], x))
    BY <1>1, <1>2 DEF Balanced
  <2>2. Occurs(e.todo, x) = 0 /\ Occurs(d.todo, x) \in Nat /\ e.called["typed"][x] \in Nat
    BY <1>1, <1>3, <1>4, OccursNowhere, OccursTyped DEF Tally, Lists
  <2> QED
    BY <1>4, <2>1, <2>2 DEF Between
<1>6. Balanced(d, handlers[d.channel])
  BY <1>4, <1>5 DEF Balanced
<1> QED
  BY <1>1, <1>4, <1>6, InnerKeeps DEF e

LEMMA EmitEndsKeeps ==
  ASSUME EventInv, EmitEnds
  PROVE  EventInv'
<1>1. stack' = Front(stack) /\ handlers' = handlers /\ edits' = edits /\ stack # <<>>
  BY DEF EmitEnds
<1>2. stack \in Seq(Emission) /\ Len(stack) \in Nat /\ DOMAIN stack = 1..Len(stack) /\ Len(stack) > 0
  BY <1>1 DEF EventInv, EventTypeOK
<1>3. /\ Front(stack) \in Seq(Emission) /\ Len(Front(stack)) = Len(stack) - 1
      /\ \A i \in 1..(Len(stack) - 1) : Front(stack)[i] = stack[i]
  BY <1>2 DEF Front
<1>4. DOMAIN stack' = 1..(Len(stack) - 1)
  BY <1>1, <1>2, <1>3
<1>5. ASSUME NEW i \in DOMAIN stack'
      PROVE  Balanced(stack'[i], handlers'[stack'[i].channel])
  <2>1. i \in DOMAIN stack /\ stack'[i] = stack[i]
    BY <1>1, <1>2, <1>3, <1>4
  <2> QED
    BY <1>1, <2>1 DEF EventInv
<1> QED
  BY <1>1, <1>3, <1>5 DEF EventInv, EventTypeOK

LEMMA EventStep == EventInv /\ [EventNext]_eventVars => EventInv'
<1> SUFFICES ASSUME EventInv, [EventNext]_eventVars PROVE EventInv'
  OBVIOUS
<1>1. CASE UNCHANGED eventVars
  BY <1>1 DEF eventVars, EventInv, EventTypeOK
<1>2. CASE EventNext
  BY <1>2, EmitKeeps, OnKeeps, OffKeeps, ClearKeeps, DispatchKeeps, HandlerEndsKeeps,
     DispatchAnyKeeps, EmitEndsKeeps DEF EventNext
<1> QED
  BY <1>1, <1>2

\* Only an emission that ends leaves the stack, and what it has called is as often as it had to.
LEMMA EndsDelivered ==
  ASSUME EventInv, EventNext, Len(stack') < Len(stack), NEW l \in Lists, NEW h \in Handlers
  PROVE  Innermost.called[l][h] \in Innermost.least[l][h]..Innermost.most[l][h]
<1>1. stack \in Seq(Emission) /\ Len(stack) \in Nat /\ DOMAIN stack = 1..Len(stack)
  BY DEF EventInv, EventTypeOK
<1>2. EmitEnds
  <2>1. ASSUME NEW ch \in Channels, emit(ch) PROVE FALSE
    BY <1>1, <2>1 DEF emit
  <2>2. ASSUME NEW next, DOMAIN next = DOMAIN stack, stack' = [i \in DOMAIN stack |-> next[i]]
        PROVE  FALSE
    <3>1. Len(stack') = Len(stack)
      BY <1>1, <2>2
    <3> QED
      BY <1>1, <3>1
  <2>3. ASSUME NEW ch \in Channels, NEW k \in Lists, NEW x \in Handlers, on(ch, k, x) PROVE FALSE
    <3> DEFINE next == [i \in DOMAIN stack |-> IF stack[i].channel = ch
                           THEN [stack[i] EXCEPT !.most[k][x] = @ + 1] ELSE stack[i]]
    <3>1. stack' = next
      BY <2>3 DEF on, Noted
    <3>2. DOMAIN next = DOMAIN stack /\ next = [i \in DOMAIN stack |-> next[i]]
      OBVIOUS
    <3> HIDE DEF next
    <3> QED
      BY <2>2, <3>1, <3>2
  <2>4. ASSUME NEW ch \in Channels, NEW k \in Lists, NEW x \in Handlers, off(ch, k, x) PROVE FALSE
    <3> DEFINE next == [i \in DOMAIN stack |-> IF stack[i].channel = ch
                           THEN [stack[i] EXCEPT !.least[k][x] = IF @ = 0 THEN 0 ELSE @ - 1] ELSE stack[i]]
    <3>1. stack' = next
      BY <2>4 DEF off, Noted
    <3>2. DOMAIN next = DOMAIN stack /\ next = [i \in DOMAIN stack |-> next[i]]
      OBVIOUS
    <3> HIDE DEF next
    <3> QED
      BY <2>2, <3>1, <3>2
  <2>5. ASSUME clearHandlers PROVE FALSE
    <3> DEFINE next == [i \in DOMAIN stack |-> [stack[i] EXCEPT !.least = [k \in Lists |-> None]]]
    <3>1. stack' = next
      BY <2>5 DEF clearHandlers
    <3>2. DOMAIN next = DOMAIN stack /\ next = [i \in DOMAIN stack |-> next[i]]
      OBVIOUS
    <3> HIDE DEF next
    <3> QED
      BY <2>2, <3>1, <3>2
  <2>6. ASSUME NEW e, Inner(e) PROVE FALSE
    <3>1. Len(stack') = Len(stack)
      BY <1>1, <2>6 DEF Inner
    <3> QED
      BY <1>1, <3>1
  <2>7. ~ dispatchAll /\ ~ HandlerEnds /\ ~ DispatchAny
    BY <2>6 DEF dispatchAll, HandlerEnds, DispatchAny
  <2> QED
    BY <2>1, <2>3, <2>4, <2>5, <2>7 DEF EventNext
<1> DEFINE e == Innermost
<1>3. stack # <<>> /\ e.todo = <<>> /\ e.list = "*"
  BY <1>2 DEF EmitEnds
<1>4. e \in Emission /\ Balanced(e, handlers[e.channel])
  BY <1>3, InnermostTyped
<1> HIDE DEF e
<1>5. Between(e, "*", h, e.called["*"][h] + Occurs(e.todo, h)) /\ Between(e, "typed", h, e.called["typed"][h])
  BY <1>3, <1>4 DEF Balanced
<1>6. /\ e.called \in [Lists -> [Handlers -> Nat]] /\ e.least \in [Lists -> [Handlers -> Nat]]
      /\ e.most \in [Lists -> [Handlers -> Nat]]
  BY <1>4 DEF Emission, Tally
<1>7. e.called[l][h] \in Nat /\ e.least[l][h] \in Nat /\ e.most[l][h] \in Nat
  BY <1>6
<1>8. Occurs(e.todo, h) = 0
  BY <1>3, OccursNowhere
<1>9. Between(e, l, h, e.called[l][h])
  BY <1>5, <1>7, <1>8 DEF Lists
<1> QED
  BY <1>7, <1>9 DEF Between, e

\* An emission calls each handler of its type and of all types as often as it was subscribed at
\* some time of the emission, whatever handlers subscribe, unsubscribe, clear or emit meanwhile
\* (emitDomain, events/event-dispatcher.ts).
THEOREM EventsDelivered == EventSpec => DeliveredOnce
<1>1. EventInv /\ [EventNext]_eventVars =>
        [Len(stack') < Len(stack) =>
           \A l \in Lists, h \in Handlers :
             Innermost.called[l][h] \in Innermost.least[l][h]..Innermost.most[l][h]]_stack
  BY EndsDelivered DEF eventVars
<1> QED
  BY <1>1, InitDelivers, EventStep, PTL DEF EventSpec, DeliveredOnce

\* The dispatcher keeps lists of handlers, and emissions nested no deeper than the bound.
THEOREM EventsTyped == EventSpec => []EventTypeOK
<1>1. EventInv => EventTypeOK
  BY DEF EventInv
<1> QED
  BY <1>1, InitDelivers, EventStep, PTL DEF EventSpec

-----------------------------------------------------------------------------
(* Sets of levels and their order.                                          *)

\* Levels of different prices.
Apart(X) == \A x, y \in X : x.price = y.price => x = y
LevelSets == {X \in SUBSET Level : IsFiniteSet(X) /\ Apart(X)}

\* A sequence of the levels of X whose prices fall, or rise.
Falls(s) == \A i, j \in DOMAIN s : i < j => Descending(s[i], s[j])
Rises(s) == \A i, j \in DOMAIN s : i < j => Ascending(s[i], s[j])

LEMMA PricesOfLevels ==
  ASSUME NEW X \in LevelSets
  PROVE  /\ \A x \in X : x.price \in Nat /\ x.size \in Nat
         /\ \A x, y \in X : x.price = y.price => x = y
         /\ IsFiniteSet(X) /\ Cardinality(X) \in Nat /\ X \subseteq Level
<1>1. X \subseteq Level /\ IsFiniteSet(X) /\ Apart(X)
  BY DEF LevelSets
<1>2. Cardinality(X) \in Nat
  BY <1>1, FS_CardinalityType
<1> QED
  BY <1>1, <1>2 DEF Apart, Level

\* The cheapest level goes last.
LEMMA FallingExists ==
  \A X \in LevelSets : \E s \in [1..Cardinality(X) -> X] : Falls(s)
<1> DEFINE Has(n) == \A X \in LevelSets :
                       Cardinality(X) = n => \E s \in [1..n -> X] : Falls(s)
           N == {n \in Nat : Has(n)}
<1>1. Has(0)
  <2> SUFFICES ASSUME NEW X \in LevelSets PROVE \E s \in [1..0 -> X] : Falls(s)
    OBVIOUS
  <2>1. <<>> \in [1..0 -> X] /\ Falls(<<>>)
    BY DEF Falls
  <2> QED
    BY <2>1
<1>2. ASSUME NEW n \in Nat, Has(n) PROVE Has(n + 1)
  <2> SUFFICES ASSUME NEW X \in LevelSets, Cardinality(X) = n + 1
               PROVE  \E s \in [1..(n + 1) -> X] : Falls(s)
    BY Zenon
  <2>1. /\ \A x \in X : x.price \in Nat
        /\ \A x, y \in X : x.price = y.price => x = y
        /\ IsFiniteSet(X) /\ X \subseteq Level
    BY PricesOfLevels
  <2>2. X # {}
    <3>1. Cardinality({}) = 0
      BY FS_EmptySet
    <3> QED
      BY <3>1
  <2> DEFINE P == {x.price : x \in X}
  <2>3. PICK p \in P : \A y \in P : p <= y
    <3>1. P \in SUBSET Nat /\ P # {}
      BY <2>1, <2>2
    <3> QED
      BY <3>1, SmallestIsMember
  <2>4. PICK low \in X : p = low.price
    BY <2>3
  <2>5. \A x \in X : low.price <= x.price
    BY <2>3, <2>4
  <2> DEFINE Y == X \ {low}
  <2>6. Y \in LevelSets /\ Cardinality(Y) = n
    <3>1. /\ IsFiniteSet(X \ {low})
          /\ Cardinality(X \ {low}) = IF low \in X THEN Cardinality(X) - 1 ELSE Cardinality(X)
      BY <2>1, FS_RemoveElement
    <3>2. Cardinality(Y) = n
      BY <3>1
    <3> QED
      BY <2>1, <3>1, <3>2 DEF LevelSets, Apart
  <2>7. PICK s \in [1..n -> Y] : Falls(s)
    <3> HIDE DEF Y
    <3> QED
      BY <1>2, <2>6
  <2> DEFINE t == [i \in 1..(n + 1) |-> IF i = n + 1 THEN low ELSE s[i]]
  <2>8. t \in [1..(n + 1) -> X]
    BY <2>4, <2>7
  <2>9. ASSUME NEW i \in 1..(n + 1), NEW j \in 1..(n + 1), i < j
        PROVE  t[i].price > t[j].price
    <3>1. i \in 1..n /\ t[i] = s[i] /\ s[i] \in Y
      BY <2>7, <2>9
    <3>2. CASE j = n + 1
      <4>1. t[j] = low /\ s[i] \in X /\ s[i] # low
        BY <3>1, <3>2
      <4>2. low.price <= s[i].price /\ low.price # s[i].price
            /\ low.price \in Nat /\ s[i].price \in Nat
        BY <2>1, <2>4, <2>5, <4>1
      <4> QED
        BY <3>1, <4>1, <4>2
    <3>3. CASE j \in 1..n
      BY <2>7, <2>9, <3>1, <3>3 DEF Falls, Descending
    <3> QED
      BY <3>2, <3>3
  <2>10. Falls(t)
    <3>1. DOMAIN t = 1..(n + 1)
      OBVIOUS
    <3> HIDE DEF t
    <3> QED
      BY <2>9, <3>1 DEF Falls, Descending
  <2> HIDE DEF t
  <2> QED
    BY <2>8, <2>10
<1>3. \A n \in Nat : n \in N
  <2> HIDE DEF Has
  <2>1. 0 \in N /\ \A n \in Nat : n \in N => n + 1 \in N
    BY <1>1, <1>2
  <2> HIDE DEF N
  <2> QED
    BY <2>1, AllNumbers
<1> SUFFICES ASSUME NEW X \in LevelSets PROVE \E s \in [1..Cardinality(X) -> X] : Falls(s)
  OBVIOUS
<1>4. Cardinality(X) \in Nat
  BY PricesOfLevels
<1>5. Has(Cardinality(X))
  BY <1>3, <1>4
<1> QED
  BY <1>5

\* The other way round they rise.
LEMMA RisingExists ==
  ASSUME NEW X \in LevelSets
  PROVE  \E s \in [1..Cardinality(X) -> X] : Rises(s)
<1> DEFINE n == Cardinality(X)
<1>1. n \in Nat /\ \A x \in X : x.price \in Nat
  BY PricesOfLevels
<1>2. PICK s \in [1..n -> X] : Falls(s)
  BY FallingExists
<1> HIDE DEF n
<1> DEFINE t == [i \in 1..n |-> s[n + 1 - i]]
<1>3. \A i \in 1..n : n + 1 - i \in 1..n
  BY <1>1
<1>4. t \in [1..n -> X]
  BY <1>2, <1>3
<1>5. ASSUME NEW i \in 1..n, NEW j \in 1..n, i < j PROVE t[i].price < t[j].price
  <2>1. n + 1 - j < n + 1 - i
    BY <1>1, <1>5
  <2>2. s[n + 1 - j].price > s[n + 1 - i].price
    BY <1>2, <1>3, <2>1 DEF Falls, Descending
  <2>3. s[n + 1 - j].price \in Nat /\ s[n + 1 - i].price \in Nat
    BY <1>1, <1>2, <1>3
  <2> QED
    BY <2>2, <2>3
<1>6. Rises(t)
  <2>1. DOMAIN t = 1..n
    OBVIOUS
  <2> HIDE DEF t
  <2> QED
    BY <1>5, <2>1 DEF Rises, Ascending
<1> HIDE DEF t
<1> QED
  BY <1>4, <1>6 DEF n

\* Different levels on every place are all levels.
LEMMA AllOnPlaces ==
  ASSUME NEW X, IsFiniteSet(X), NEW s \in [1..Cardinality(X) -> X],
         \A i, j \in 1..Cardinality(X) : i < j => s[i] # s[j]
  PROVE  s \in Seq(X) /\ ToSet(s) = X
<1> DEFINE n == Cardinality(X)
<1>1. n \in Nat
  BY FS_CardinalityType
<1>2. \A i, j \in 1..n : s[i] = s[j] => i = j
  <2>1. \A i, j \in 1..n : i < j \/ j < i \/ i = j
    BY <1>1
  <2> QED
    BY <2>1
<1>3. s \in Injection(1..n, X)
  BY <1>2 DEF Injection, IsInjective
<1>4. Cardinality(1..n) = n
  BY <1>1, FS_Interval
<1>5. s \in Surjection(1..n, X)
  BY <1>3, <1>4, FS_Injection
<1>6. s \in Seq(X) /\ DOMAIN s = 1..n
  BY <1>1
<1> QED
  BY <1>5, <1>6 DEF Surjection, ToSet

LEMMA Falling ==
  ASSUME NEW X \in LevelSets
  PROVE  /\ BestFirst(X, Descending) \in Seq(Level)
         /\ ToSet(BestFirst(X, Descending)) = X /\ Falls(BestFirst(X, Descending))
<1> DEFINE s == BestFirst(X, Descending)
           n == Cardinality(X)
<1>1. /\ \A x \in X : x.price \in Nat
      /\ IsFiniteSet(X) /\ X \subseteq Level
  BY PricesOfLevels
<1>2. s \in [1..n -> X] /\ Falls(s)
  <2>1. \E t \in [1..n -> X] : \A i, j \in DOMAIN t : i < j => Descending(t[i], t[j])
    BY FallingExists DEF Falls
  <2> QED
    BY <2>1, Zenon DEF BestFirst, Falls
<1> HIDE DEF s
<1>3. \A i, j \in 1..n : i < j => s[i] # s[j]
  BY <1>1, <1>2 DEF Falls, Descending
<1>4. s \in Seq(X) /\ ToSet(s) = X
  BY <1>1, <1>2, <1>3, AllOnPlaces
<1> QED
  BY <1>1, <1>2, <1>4 DEF s

LEMMA Rising ==
  ASSUME NEW X \in LevelSets
  PROVE  /\ BestFirst(X, Ascending) \in Seq(Level)
         /\ ToSet(BestFirst(X, Ascending)) = X /\ Rises(BestFirst(X, Ascending))
<1> DEFINE s == BestFirst(X, Ascending)
           n == Cardinality(X)
<1>1. /\ \A x \in X : x.price \in Nat
      /\ IsFiniteSet(X) /\ X \subseteq Level
  BY PricesOfLevels
<1>2. s \in [1..n -> X] /\ Rises(s)
  <2>1. \E t \in [1..n -> X] : \A i, j \in DOMAIN t : i < j => Ascending(t[i], t[j])
    BY RisingExists DEF Rises
  <2> QED
    BY <2>1, Zenon DEF BestFirst, Rises
<1> HIDE DEF s
<1>3. \A i, j \in 1..n : i < j => s[i] # s[j]
  BY <1>1, <1>2 DEF Rises, Ascending
<1>4. s \in Seq(X) /\ ToSet(s) = X
  BY <1>1, <1>2, <1>3, AllOnPlaces
<1> QED
  BY <1>1, <1>2, <1>4 DEF s

-----------------------------------------------------------------------------
(* Updates put into a set of levels.                                        *)

LEMMA PutApart ==
  ASSUME NEW X \in LevelSets, NEW l \in Level
  PROVE  Put(X, l) \in LevelSets
<1> DEFINE Y == {x \in X : x.price # l.price}
           Z == IF l.size = 0 THEN {} ELSE {l}
<1>1. IsFiniteSet(Y)
  BY FS_Subset DEF LevelSets
<1>2. IsFiniteSet(Z)
  BY FS_EmptySet, FS_Singleton
<1>3. Put(X, l) = Y \cup Z
  BY Zenon DEF Put
<1>4. IsFiniteSet(Y \cup Z)
  <2> HIDE DEF Y, Z
  <2> QED
    BY <1>1, <1>2, FS_Union
<1>5. Apart(Y \cup Z) /\ Y \cup Z \subseteq Level
  BY DEF LevelSets, Apart
<1> QED
  BY <1>3, <1>4, <1>5 DEF LevelSets

\* The sets an update goes through, level by level.
LEMMA PutChain ==
  ASSUME NEW X \in LevelSets, NEW u \in Seq(Level)
  PROVE  \E chain \in [0..Len(u) -> LevelSets] :
           /\ chain[0] = X /\ chain[Len(u)] = FoldLeft(Put, X, u)
           /\ \A i \in 1..Len(u) : chain[i] = Put(chain[i - 1], u[i])
<1> DEFINE n == Len(u)
           Step(s, h) == IF s = {} THEN X ELSE Put(h[s \ {Max(s)}], u[Max(s)])
           Puts(h) == h = [s \in SUBSET (1..n) |-> Step(s, h)]
           iter == CHOOSE h : Puts(h)
           g == [x \in (1..n) \X LevelSets |-> Put(x[2], u[x[1]])]
<1>1. n \in Nat /\ DOMAIN u = 1..n /\ \A i \in 1..n : u[i] \in Level
  BY ElementOfSeq
<1>2. FoldLeft(Put, X, u) = iter[1..n]
  BY <1>1 DEF FoldLeft, MapThenFoldSet
<1>3. g \in [(1..n) \X LevelSets -> LevelSets]
  <2>1. \A x \in (1..n) \X LevelSets : Put(x[2], u[x[1]]) \in LevelSets
    BY <1>1, PutApart
  <2> QED
    BY <2>1
<1>4. \E h \in [SUBSET (1..n) -> LevelSets] : Puts(h)
  <2>1. PICK h \in [SUBSET (1..n) -> LevelSets] : Folded(h, X, g, n)
    <3> HIDE DEF g
    <3> QED
      BY <1>1, <1>3, FoldsExist
  <2>2. ASSUME NEW s \in SUBSET (1..n) PROVE h[s] = Step(s, h)
    <3>1. CASE s = {}
      BY <2>1, <3>1 DEF Folded
    <3>2. CASE s # {}
      <4>1. Max(s) \in 1..n
        <5>1. s \in SUBSET (0..n)
          OBVIOUS
        <5>2. Max(s) \in s
          BY <1>1, <3>2, <5>1, GreatestIsMember
        <5> QED
          BY <5>2
      <4>2. h[s] = g[<<Max(s), h[s \ {Max(s)}]>>]
        BY <2>1, <3>2 DEF Folded
      <4>3. h[s \ {Max(s)}] \in LevelSets
        BY <2>1
      <4> QED
        BY <3>2, <4>1, <4>2, <4>3
    <3> QED
      BY <3>1, <3>2
  <2>3. h = [s \in SUBSET (1..n) |-> Step(s, h)]
    BY <2>1, <2>2, Zenon
  <2> QED
    BY <2>3
<1>5. Puts(iter)
  BY <1>4, Zenon
<1> DEFINE chain == [i \in 0..n |-> iter[1..i]]
<1> HIDE DEF iter
<1>6. chain[0] = X /\ iter[1..0] = X
  <2>1. {} \in SUBSET (1..n) /\ 1..0 = {} /\ 0 \in 0..n
    BY <1>1
  <2>2. iter[{}] = Step({}, iter)
    BY <1>5, <2>1
  <2> QED
    BY <2>1, <2>2
<1>7. ASSUME NEW i \in 1..n PROVE iter[1..i] = Put(iter[1..(i - 1)], u[i])
  <2>1. /\ 1..i \in SUBSET (1..n) /\ 1..i # {} /\ Max(1..i) = i /\ (1..i) \ {i} = 1..(i - 1)
    BY <1>1, FoldSteps
  <2>2. iter[1..i] = Step(1..i, iter)
    BY <1>5, <2>1
  <2> QED
    BY <2>1, <2>2
<1>8. ASSUME NEW i \in 1..n PROVE chain[i] = Put(chain[i - 1], u[i])
  <2>1. i \in 0..n /\ i - 1 \in 0..n
    BY <1>1
  <2> QED
    BY <1>7, <2>1
<1>9. chain \in [0..n -> LevelSets]
  <2> DEFINE I == {i \in Nat : i <= n => iter[1..i] \in LevelSets}
  <2>1. 0 \in I
    BY <1>6
  <2>2. ASSUME NEW i \in Nat, i \in I PROVE i + 1 \in I
    <3> SUFFICES ASSUME i + 1 <= n PROVE iter[1..(i + 1)] \in LevelSets
      OBVIOUS
    <3>1. i + 1 \in 1..n /\ i + 1 - 1 = i /\ iter[1..i] \in LevelSets
      BY <1>1, <2>2
    <3>2. iter[1..(i + 1)] = Put(iter[1..i], u[i + 1])
      BY <1>7, <3>1
    <3> QED
      BY <1>1, <3>1, <3>2, PutApart
  <2>3. \A i \in Nat : i \in I
    <3> HIDE DEF I
    <3> QED
      BY <2>1, <2>2, AllNumbers
  <2> QED
    BY <1>1, <2>3
<1>10. chain[n] = FoldLeft(Put, X, u)
  <2>1. n \in 0..n
    BY <1>1
  <2> QED
    BY <1>2, <2>1
<1> HIDE DEF chain
<1> QED
  BY <1>6, <1>8, <1>9, <1>10

\* One level is put in, and levels of a set without empty ones are added to a part of it.
LEMMA PutOnce ==
  ASSUME NEW X \in LevelSets, NEW l \in Level
  PROVE  FoldLeft(Put, X, <<l>>) = Put(X, l)
<1> DEFINE u == <<l>>
<1>1. u \in Seq(Level) /\ Len(u) = 1 /\ u[1] = l
  OBVIOUS
<1> HIDE DEF u
<1>2. PICK chain \in [0..Len(u) -> LevelSets] :
        /\ chain[0] = X /\ chain[Len(u)] = FoldLeft(Put, X, u)
        /\ \A i \in 1..Len(u) : chain[i] = Put(chain[i - 1], u[i])
  BY <1>1, PutChain
<1>3. 1 \in 1..Len(u) /\ 1 - 1 = 0
  BY <1>1
<1>4. chain[1] = Put(chain[0], u[1])
  BY <1>2, <1>3
<1>5. chain[1] = FoldLeft(Put, X, u)
  BY <1>1, <1>2
<1>6. FoldLeft(Put, X, u) = Put(X, l)
  BY <1>1, <1>2, <1>4, <1>5
<1> QED
  BY <1>6 DEF u

LEMMA PutNothing ==
  ASSUME NEW X \in LevelSets
  PROVE  FoldLeft(Put, X, <<>>) = X
<1> DEFINE u == <<>>
<1>1. u \in Seq(Level) /\ Len(u) = 0
  OBVIOUS
<1> HIDE DEF u
<1>2. PICK chain \in [0..Len(u) -> LevelSets] :
        chain[0] = X /\ chain[Len(u)] = FoldLeft(Put, X, u)
  BY <1>1, PutChain
<1>3. FoldLeft(Put, X, u) = X
  BY <1>1, <1>2
<1> QED
  BY <1>3 DEF u

LEMMA PutAll ==
  ASSUME NEW T \in LevelSets, \A l \in T : l.size # 0,
         NEW X \in SUBSET T, NEW u \in Seq(T), ToSet(u) = T
  PROVE  FoldLeft(Put, X, u) = T
<1>0. PICK n \in Nat : n = Len(u)
  OBVIOUS
<1>1. /\ u \in Seq(Level) /\ DOMAIN u = 1..n /\ \A i \in 1..n : u[i] \in T
      /\ T = {u[i] : i \in 1..n}
  <2>1. T \subseteq Level
    BY PricesOfLevels
  <2> QED
    BY <1>0, <2>1, ElementOfSeq DEF ToSet
<1>2. X \in LevelSets
  BY FS_Subset DEF LevelSets, Apart
<1>3. PICK chain \in [0..n -> LevelSets] :
        /\ chain[0] = X /\ chain[n] = FoldLeft(Put, X, u)
        /\ \A i \in 1..n : chain[i] = Put(chain[i - 1], u[i])
  BY <1>0, <1>1, <1>2, PutChain
<1>4. ASSUME NEW Y \in SUBSET T, NEW l \in T PROVE Put(Y, l) = Y \cup {l}
  <2>1. {x \in Y : x.price # l.price} = Y \ {l}
    BY DEF LevelSets, Apart
  <2> QED
    BY <2>1 DEF Put
<1> DEFINE First(i) == {u[j] : j \in 1..i}
           I == {i \in Nat : i <= n => chain[i] = X \cup First(i)}
<1>5. 0 \in I
  <2>1. First(0) = {} /\ chain[0] = X
    BY <1>3
  <2> HIDE DEF First
  <2> QED
    BY <2>1
<1>6. ASSUME NEW i \in Nat, i \in I PROVE i + 1 \in I
  <2> SUFFICES ASSUME i + 1 <= n PROVE chain[i + 1] = X \cup First(i + 1)
    OBVIOUS
  <2>0. i <= n
    OBVIOUS
  <2>1. i + 1 \in 1..n /\ i + 1 - 1 = i /\ chain[i] = X \cup First(i)
    BY <1>6, <2>0
  <2>2. X \cup First(i) \in SUBSET T
    <3>1. \A j \in 1..i : u[j] \in T
      BY <1>1, <2>0
    <3> QED
      BY <3>1
  <2>3. chain[i + 1] = X \cup First(i) \cup {u[i + 1]}
    <3>1. chain[i + 1] = Put(chain[i], u[i + 1])
      <4>1. PICK k \in 1..n : k = i + 1 /\ k - 1 = i
        BY <2>1
      <4>2. chain[k] = Put(chain[k - 1], u[k])
        BY <1>3
      <4> QED
        BY <4>1, <4>2
    <3>2. u[i + 1] \in T
      BY <1>1, <2>1
    <3> HIDE DEF First
    <3>3. Put(X \cup First(i), u[i + 1]) = X \cup First(i) \cup {u[i + 1]}
      BY <1>4, <2>2, <3>2
    <3> QED
      BY <2>1, <3>1, <3>3
  <2>4. First(i) \cup {u[i + 1]} = First(i + 1)
    <3>1. \A j \in 1..(i + 1) : j \in 1..i \/ j = i + 1
      OBVIOUS
    <3>2. 1..i \subseteq 1..(i + 1) /\ i + 1 \in 1..(i + 1)
      OBVIOUS
    <3> QED
      BY <3>1, <3>2
  <2> QED
    BY <2>3, <2>4
<1>7. \A i \in Nat : i \in I
  <2> HIDE DEF I
  <2> QED
    BY <1>5, <1>6, AllNumbers
<1>8. chain[n] = X \cup First(n)
  BY <1>7
<1> QED
  BY <1>1, <1>3, <1>8

LEMMA PutTyped ==
  ASSUME NEW X \in LevelSets, NEW u \in Seq(Level)
  PROVE  FoldLeft(Put, X, u) \in LevelSets
<1>1. PICK n \in Nat : n = Len(u)
  OBVIOUS
<1>2. PICK chain \in [0..n -> LevelSets] : chain[n] = FoldLeft(Put, X, u)
  BY <1>1, PutChain
<1> QED
  BY <1>1, <1>2

\* What a book holds, and a book that keeps its sides in order.
SortedBook(b) ==
  /\ b \in Book
  /\ ToSet(b.bids) \in LevelSets /\ Falls(b.bids)
  /\ ToSet(b.asks) \in LevelSets /\ Rises(b.asks)

LEMMA EmptySorted ==
  SortedBook(emptyBook) /\ ToSet(emptyBook.bids) = {} /\ ToSet(emptyBook.asks) = {}
<1>1. ToSet(<<>>) = {} /\ <<>> \in Seq(Level)
  BY DEF ToSet
<1>2. {} \in LevelSets
  BY FS_EmptySet DEF LevelSets, Apart
<1>3. Falls(<<>>) /\ Rises(<<>>)
  BY DEF Falls, Rises
<1>4. emptyBook.bids = <<>> /\ emptyBook.asks = <<>> /\ emptyBook \in Book
  BY <1>1 DEF emptyBook, Book
<1> QED
  BY <1>1, <1>2, <1>3, <1>4, Zenon DEF SortedBook

\* A delta keeps the sides in order and puts its levels into what they hold.
LEMMA DeltaApplied ==
  ASSUME NEW b, SortedBook(b), NEW d \in Book
  PROVE  /\ SortedBook(applyDelta(b, d))
         /\ ToSet(applyDelta(b, d).bids) = FoldLeft(Put, ToSet(b.bids), d.bids)
         /\ ToSet(applyDelta(b, d).asks) = FoldLeft(Put, ToSet(b.asks), d.asks)
<1>1. PICK X \in LevelSets : X = FoldLeft(Put, ToSet(b.bids), d.bids)
  BY PutTyped DEF SortedBook, Book
<1>2. PICK Y \in LevelSets : Y = FoldLeft(Put, ToSet(b.asks), d.asks)
  BY PutTyped DEF SortedBook, Book
<1>3. PICK s : s = BestFirst(X, Descending)
  OBVIOUS
<1>4. PICK t : t = BestFirst(Y, Ascending)
  OBVIOUS
<1>5. s \in Seq(Level) /\ ToSet(s) = X /\ Falls(s)
  BY <1>3, Falling
<1>6. t \in Seq(Level) /\ ToSet(t) = Y /\ Rises(t)
  BY <1>4, Rising
<1>7. mergeLevels(b.bids, d.bids, "bids") = s /\ mergeLevels(b.asks, d.asks, "asks") = t
  BY <1>1, <1>2, <1>3, <1>4 DEF mergeLevels, Updated
<1>8. b = [bids |-> b.bids, asks |-> b.asks]
  BY DEF SortedBook, Book
<1>9. applyDelta(b, d) = [bids |-> s, asks |-> t]
  <2>1. applyDelta(b, d) = [b EXCEPT !.bids = s, !.asks = t]
    BY <1>7, Zenon DEF applyDelta
  <2>2. [b EXCEPT !.bids = s] = [bids |-> s, asks |-> b.asks]
    BY <1>8
  <2>3. [b EXCEPT !.bids = s, !.asks = t] = [[b EXCEPT !.bids = s] EXCEPT !.asks = t]
    OBVIOUS
  <2>4. [[bids |-> s, asks |-> b.asks] EXCEPT !.asks = t] = [bids |-> s, asks |-> t]
    OBVIOUS
  <2> QED
    BY <2>1, <2>2, <2>3, <2>4
<1> QED
  BY <1>1, <1>2, <1>5, <1>6, <1>9 DEF SortedBook, Book

\* The elements of a finite set, in some order.
LEMMA Listed ==
  ASSUME NEW S, IsFiniteSet(S)
  PROVE  /\ SetToSeq(S) \in Seq(S) /\ Len(SetToSeq(S)) = Cardinality(S)
         /\ ToSet(SetToSeq(S)) = S
<1>1. PICK n \in Nat : n = Cardinality(S)
  BY FS_CardinalityType
<1>2. \E f \in [1..n -> S] : IsInjective(f)
  BY <1>1, FS_CardinalityType DEF ExistsBijection, Bijection, Injection
<1>3. PICK f : f = SetToSeq(S) /\ f \in [1..n -> S] /\ IsInjective(f)
  BY <1>1, <1>2 DEF SetToSeq
<1>4. \A i, j \in 1..n : i < j => f[i] # f[j]
  BY <1>3 DEF IsInjective
<1>5. f \in Seq(S) /\ ToSet(f) = S
  BY <1>1, <1>3, <1>4, AllOnPlaces
<1> QED
  BY <1>1, <1>3, <1>5

-----------------------------------------------------------------------------
(* The keys of the books, in the order of their last use.                   *)

Once(s) == s \in Seq(Markets) /\ IsInjective(s)

LEMMA DropOnce ==
  ASSUME NEW s, Once(s), NEW m
  PROVE  /\ Once(RemoveFirst(s, m)) /\ ToSet(RemoveFirst(s, m)) = ToSet(s) \ {m}
         /\ Len(RemoveFirst(s, m)) = IF m \in ToSet(s) THEN Len(s) - 1 ELSE Len(s)
<1> DEFINE r == RemoveFirst(s, m)
<1>1. s \in Seq(Markets) /\ DOMAIN s = 1..Len(s) /\ \A i, j \in 1..Len(s) : s[i] = s[j] => i = j
  BY DEF Once, IsInjective
<1>2. /\ r \in Seq(Markets)
      /\ \/ m \notin ToSet(s) /\ r = s
         \/ \E n \in 1..Len(s) : s[n] = m /\ Drops(s, r, n)
  BY <1>1, DropsFirst
<1> HIDE DEF r
<1>3. CASE m \notin ToSet(s) /\ r = s
  BY <1>1, <1>3 DEF Once, r, IsInjective
<1>4. ASSUME NEW n \in 1..Len(s), s[n] = m, Drops(s, r, n)
      PROVE  /\ Once(r) /\ ToSet(r) = ToSet(s) \ {m} /\ m \in ToSet(s) /\ Len(r) = Len(s) - 1
  <2>0. PICK l \in Nat : l = Len(r)
    BY <1>2
  <2>1. Len(s) = l + 1 /\ DOMAIN r = 1..l /\ l = Len(r)
    <3>1. Len(r) = Len(s) - 1 /\ Len(s) \in Nat
      BY <1>1, <1>4 DEF Drops
    <3>2. DOMAIN r = 1..Len(r)
      BY <1>2
    <3> QED
      BY <2>0, <3>1, <3>2
  <2>2. n \in 1..(l + 1) /\ \A i \in 1..l : r[i] = IF i < n THEN s[i] ELSE s[i + 1]
    BY <1>4, <2>1 DEF Drops
  <2>3. ASSUME NEW i \in 1..l, NEW j \in 1..l, r[i] = r[j] PROVE i = j
    BY <1>1, <2>1, <2>2, <2>3
  <2>4. ASSUME NEW i \in 1..l PROVE r[i] \in ToSet(s) \ {m}
    BY <1>1, <1>4, <2>1, <2>2 DEF ToSet
  <2>5. ASSUME NEW x \in ToSet(s), x # m PROVE x \in ToSet(r)
    <3>1. PICK j \in 1..(l + 1) : x = s[j]
      BY <1>1, <2>1 DEF ToSet
    <3>2. j # n
      BY <1>4, <2>5, <3>1
    <3>3. CASE j < n
      <4>1. j \in 1..l /\ r[j] = x
        BY <2>2, <3>1, <3>3
      <4> QED
        BY <2>1, <4>1 DEF ToSet
    <3>4. CASE j > n
      <4>1. PICK k \in 1..l : k = j - 1 /\ ~ (k < n) /\ k + 1 = j
        BY <2>2, <3>4
      <4>2. r[k] = x
        BY <2>2, <3>1, <4>1
      <4> QED
        BY <2>1, <4>2 DEF ToSet
    <3> QED
      BY <2>2, <3>2, <3>3, <3>4
  <2>6. ToSet(r) = ToSet(s) \ {m}
    BY <2>1, <2>4, <2>5 DEF ToSet
  <2>7. m \in ToSet(s)
    BY <1>1, <1>4 DEF ToSet
  <2>8. Once(r)
    BY <1>2, <2>1, <2>3 DEF Once, IsInjective
  <2> QED
    BY <2>1, <2>6, <2>7, <2>8
<1> QED
  BY <1>1, <1>2, <1>3, <1>4 DEF r

LEMMA Touched ==
  ASSUME NEW s, Once(s), NEW m \in Markets
  PROVE  /\ Once(touch(s, m)) /\ ToSet(touch(s, m)) = ToSet(s) \cup {m}
         /\ Len(touch(s, m)) = IF m \in ToSet(s) THEN Len(s) ELSE Len(s) + 1
<1>1. PICK r : r = RemoveFirst(s, m)
  OBVIOUS
<1>2. /\ Once(r) /\ ToSet(r) = ToSet(s) \ {m}
      /\ Len(r) = IF m \in ToSet(s) THEN Len(s) - 1 ELSE Len(s)
  BY <1>1, DropOnce
<1>3. r \in Seq(Markets) /\ Len(r) \in Nat /\ s \in Seq(Markets)
  BY <1>2 DEF Once
<1>4. PICK t : t = touch(s, m)
  OBVIOUS
<1>5. t = Append(r, m)
  BY <1>1, <1>4 DEF touch
<1>6. /\ t \in Seq(Markets) /\ Len(t) = Len(r) + 1 /\ DOMAIN t = 1..(Len(r) + 1)
      /\ \A i \in 1..Len(r) : t[i] = r[i]
      /\ t[Len(r) + 1] = m
  BY <1>3, <1>5
<1>7. \A i \in 1..Len(r) : r[i] # m
  <2>1. \A i \in 1..Len(r) : r[i] \in ToSet(r)
    BY <1>3 DEF ToSet
  <2> QED
    BY <1>2, <2>1
<1>8. \A i, j \in 1..Len(r) : r[i] = r[j] => i = j
  BY <1>2, <1>3 DEF Once, IsInjective
<1>9. \A i \in 1..(Len(r) + 1) : i \in 1..Len(r) \/ i = Len(r) + 1
  BY <1>3
<1>10. IsInjective(t)
  BY <1>6, <1>7, <1>8, <1>9 DEF IsInjective
<1>11. ToSet(t) = ToSet(r) \cup {m}
  <2>1. \A i \in 1..Len(r) : i \in 1..(Len(r) + 1)
    BY <1>3
  <2>2. Len(r) + 1 \in 1..(Len(r) + 1)
    BY <1>3
  <2>3. DOMAIN r = 1..Len(r)
    BY <1>3
  <2> QED
    BY <1>6, <1>9, <2>1, <2>2, <2>3 DEF ToSet
<1> QED
  BY <1>2, <1>3, <1>4, <1>6, <1>10, <1>11 DEF Once

\* At most as many keys stay as there may be books.
LEMMA Evicted ==
  ASSUME NEW s, Once(s)
  PROVE  /\ Once(evictIfNeeded(s)) /\ ToSet(evictIfNeeded(s)) \subseteq ToSet(s)
         /\ Len(evictIfNeeded(s)) <= MaxBooks
<1>1. PICK n \in Nat : n = Len(s)
  BY DEF Once
<1> DEFINE first == IF n > MaxBooks THEN n - MaxBooks + 1 ELSE 1
<1>2. PICK f \in 1..(n + 1) : f = first /\ n - f + 1 <= MaxBooks
  <2>1. MaxBooks \in Nat /\ MaxBooks # 0
    BY FeedAssumption
  <2>2. first \in 1..(n + 1) /\ n - first + 1 <= MaxBooks
    BY <2>1
  <2> QED
    BY <2>2
<1>3. PICK k : k = SubSeq(s, f, n)
  OBVIOUS
<1>4. s \in Seq(Markets) /\ \A i \in f..n : s[i] \in Markets
  BY <1>1, <1>2 DEF Once
<1>5. /\ k \in Seq(Markets) /\ Len(k) = n - f + 1
      /\ \A i \in 1..(n - f + 1) : k[i] = s[f + i - 1]
  <2>1. f \in Int /\ n \in Int
    BY <1>2
  <2>2. /\ SubSeq(s, f, n) \in Seq(Markets) /\ Len(SubSeq(s, f, n)) = IF f <= n THEN n - f + 1 ELSE 0
        /\ \A i \in 1..(n - f + 1) : SubSeq(s, f, n)[i] = s[f + i - 1]
    BY <1>4, <2>1, SubSeqProperties
  <2> QED
    BY <1>2, <1>3, <2>1, <2>2
<1>6. \A i, j \in 1..n : s[i] = s[j] => i = j
  BY <1>1 DEF Once, IsInjective
<1>7. DOMAIN k = 1..(n - f + 1) /\ \A i \in 1..(n - f + 1) : f + i - 1 \in 1..n
  BY <1>2, <1>5
<1>8. IsInjective(k)
  <2> SUFFICES ASSUME NEW i \in 1..(n - f + 1), NEW j \in 1..(n - f + 1), k[i] = k[j] PROVE i = j
    BY <1>7 DEF IsInjective
  <2>1. s[f + i - 1] = s[f + j - 1]
    BY <1>5
  <2>2. f + i - 1 = f + j - 1
    BY <1>6, <1>7, <2>1
  <2> QED
    BY <2>2
<1>9. ToSet(k) \subseteq ToSet(s)
  <2>1. DOMAIN s = 1..n
    BY <1>1, <1>4
  <2> QED
    BY <1>5, <1>7, <2>1 DEF ToSet
<1>10. evictIfNeeded(s) = k
  BY <1>1, <1>2, <1>3 DEF evictIfNeeded
<1> QED
  BY <1>2, <1>5, <1>8, <1>9, <1>10 DEF Once

-----------------------------------------------------------------------------
(* The exchange's books, from those after the updates processed to those now. *)

Held == {X \in LevelSets : \A x \in X : x.size # 0}
There == [bids : Held, asks : Held]
FeedUpdate == [kind : {"whole", "change", "gap"}, market : Markets, delta : Book, after : There]

\* What b holds becomes what a holds by the delta d.
Puts(b, d, a) == FoldLeft(Put, b.bids, d.bids) = a.bids /\ FoldLeft(Put, b.asks, d.asks) = a.asks

\* The books of the markets before and after the update u: a change is the delta it sends, and
\* a whole book is that of the market, whatever part of it is held.
Follows(b, u, a) ==
  /\ a = [b EXCEPT ![u.market] = u.after]
  /\ u.kind = "change" => Puts(b[u.market], u.delta, u.after)
  /\ u.kind = "whole" => /\ u.after = b[u.market]
                         /\ Puts(NoLevels, u.delta, u.after) /\ Puts(u.after, u.delta, u.after)

Story(h, w, from, to) ==
  /\ h \in [0..Len(w) -> [Markets -> There]]
  /\ h[0] = from /\ h[Len(w)] = to
  /\ \A i \in 1..Len(w) : Follows(h[i - 1], w[i], h[i])

\* The updates of w lead from the books of from to those of to.
Told(w, from, to) == \E h : Story(h, w, from, to)

LEMMA ToldNothing ==
  ASSUME NEW b \in [Markets -> There]
  PROVE  Told(<<>>, b, b)
<1> DEFINE h == [i \in 0..0 |-> b]
<1>1. Len(<<>>) = 0 /\ 1..0 = {}
  OBVIOUS
<1>2. h \in [0..0 -> [Markets -> There]] /\ h[0] = b
  OBVIOUS
<1> HIDE DEF h
<1>3. Story(h, <<>>, b, b)
  BY <1>1, <1>2 DEF Story
<1> QED
  BY <1>3 DEF Told

\* One more update.
LEMMA ToldMore ==
  ASSUME NEW w \in Seq(FeedUpdate), NEW from, NEW to, Told(w, from, to),
         NEW u \in FeedUpdate, NEW next \in [Markets -> There], Follows(to, u, next)
  PROVE  Told(Append(w, u), from, next)
<1>1. PICK h : Story(h, w, from, to)
  BY DEF Told
<1>2. PICK n \in Nat : n = Len(w)
  OBVIOUS
<1>3. PICK v : v = Append(w, u)
  OBVIOUS
<1>4. Len(v) = n + 1 /\ v[n + 1] = u /\ \A i \in 1..n : v[i] = w[i]
  BY <1>2, <1>3
<1> DEFINE g == [i \in 0..(n + 1) |-> IF i = n + 1 THEN next ELSE h[i]]
<1>5. /\ h \in [0..n -> [Markets -> There]] /\ h[0] = from /\ h[n] = to
      /\ \A i \in 1..n : Follows(h[i - 1], w[i], h[i])
  BY <1>1, <1>2 DEF Story
<1>6. g \in [0..(n + 1) -> [Markets -> There]] /\ g[0] = from /\ g[n + 1] = next
      /\ g[n] = to /\ \A i \in 0..n : g[i] = h[i]
  BY <1>5
<1> HIDE DEF g
<1>7. ASSUME NEW i \in 1..(n + 1) PROVE Follows(g[i - 1], v[i], g[i])
  <2>1. CASE i = n + 1
    <3>1. i - 1 = n
      BY <2>1
    <3> QED
      BY <1>4, <1>6, <2>1, <3>1
  <2>2. CASE i \in 1..n
    <3>1. i - 1 \in 0..n /\ i \in 0..n
      BY <2>2
    <3>2. g[i - 1] = h[i - 1] /\ g[i] = h[i] /\ v[i] = w[i]
      BY <1>4, <1>6, <2>2, <3>1
    <3>3. Follows(h[i - 1], w[i], h[i])
      BY <1>5, <2>2
    <3> QED
      BY <3>2, <3>3
  <2> QED
    BY <2>1, <2>2
<1>8. Story(g, v, from, next)
  BY <1>4, <1>6, <1>7 DEF Story
<1> QED
  BY <1>3, <1>8 DEF Told

\* All but the first one.
LEMMA ToldRest ==
  ASSUME NEW w \in Seq(FeedUpdate), w # <<>>, NEW from, NEW to, Told(w, from, to)
  PROVE  \E mid \in [Markets -> There] : Follows(from, Head(w), mid) /\ Told(Tail(w), mid, to)
<1>1. PICK h : Story(h, w, from, to)
  BY DEF Told
<1>2. PICK n \in Nat : n + 1 = Len(w)
  OBVIOUS
<1>3. PICK v : v = Tail(w)
  OBVIOUS
<1>4. Len(v) = n /\ Head(w) = w[1] /\ \A i \in 1..n : v[i] = w[i + 1]
  BY <1>2, <1>3
<1> DEFINE g == [i \in 0..n |-> h[i + 1]]
<1>5. /\ h \in [0..(n + 1) -> [Markets -> There]] /\ h[0] = from /\ h[n + 1] = to
      /\ \A i \in 1..(n + 1) : Follows(h[i - 1], w[i], h[i])
  BY <1>1, <1>2 DEF Story
<1>6. /\ g \in [0..n -> [Markets -> There]] /\ g[0] = h[1] /\ g[n] = to
      /\ \A i \in 0..n : g[i] = h[i + 1]
  <2>1. \A i \in 0..n : i + 1 \in 0..(n + 1)
    OBVIOUS
  <2>2. 0 \in 0..n /\ n \in 0..n /\ 0 + 1 = 1
    OBVIOUS
  <2> QED
    BY <1>5, <2>1, <2>2
<1> HIDE DEF g
<1>7. ASSUME NEW i \in 1..n PROVE Follows(g[i - 1], v[i], g[i])
  <2>1. i - 1 \in 0..n /\ i \in 0..n /\ i - 1 + 1 = i
    OBVIOUS
  <2>2. g[i - 1] = h[i] /\ g[i] = h[i + 1] /\ v[i] = w[i + 1]
    BY <1>4, <1>6, <2>1
  <2>3. PICK k \in 1..(n + 1) : k = i + 1 /\ k - 1 = i
    OBVIOUS
  <2>4. Follows(h[k - 1], w[k], h[k])
    BY <1>5
  <2> QED
    BY <2>2, <2>3, <2>4
<1>8. Story(g, v, h[1], to)
  BY <1>4, <1>6, <1>7 DEF Story
<1>9. Follows(from, w[1], h[1])
  <2>1. PICK k \in 1..(n + 1) : k = 1 /\ k - 1 = 0
    OBVIOUS
  <2>2. Follows(h[k - 1], w[k], h[k])
    BY <1>5
  <2> QED
    BY <1>5, <2>1, <2>2
<1>10. h[1] \in [Markets -> There]
  <2>1. 1 \in 0..(n + 1)
    OBVIOUS
  <2> QED
    BY <1>5, <2>1
<1> QED
  BY <1>3, <1>4, <1>8, <1>9, <1>10 DEF Told

\* Any of them may be lost.
LEMMA ToldGaps ==
  ASSUME NEW w \in Seq(FeedUpdate), NEW from, NEW to, Told(w, from, to)
  PROVE  LET v == [i \in DOMAIN w |-> [w[i] EXCEPT !.kind = "gap"]] IN
         v \in Seq(FeedUpdate) /\ Len(v) = Len(w) /\ Told(v, from, to)
<1> DEFINE v == [i \in DOMAIN w |-> [w[i] EXCEPT !.kind = "gap"]]
<1>1. PICK h : Story(h, w, from, to)
  BY DEF Told
<1>2. PICK n \in Nat : n = Len(w) /\ DOMAIN w = 1..n /\ \A i \in 1..n : w[i] \in FeedUpdate
  BY ElementOfSeq
<1>3. ASSUME NEW u \in FeedUpdate
      PROVE  /\ [u EXCEPT !.kind = "gap"] \in FeedUpdate
             /\ [u EXCEPT !.kind = "gap"].kind = "gap"
             /\ [u EXCEPT !.kind = "gap"].market = u.market
             /\ [u EXCEPT !.kind = "gap"].after = u.after
  BY DEF FeedUpdate
<1>4. \A i \in 1..n : /\ v[i] \in FeedUpdate /\ v[i].kind = "gap"
                      /\ v[i].market = w[i].market /\ v[i].after = w[i].after
  BY <1>2, <1>3
<1>5. v \in Seq(FeedUpdate) /\ Len(v) = n
  <2>1. v = [i \in 1..n |-> v[i]]
    BY <1>2
  <2> HIDE DEF v
  <2>2. [i \in 1..n |-> v[i]] \in Seq(FeedUpdate) /\ Len([i \in 1..n |-> v[i]]) = n
    BY <1>4, IsASeq
  <2> QED
    BY <2>1, <2>2
<1> HIDE DEF v
<1>6. /\ h \in [0..n -> [Markets -> There]] /\ h[0] = from /\ h[n] = to
      /\ \A i \in 1..n : Follows(h[i - 1], w[i], h[i])
  BY <1>1, <1>2 DEF Story
<1>7. ASSUME NEW i \in 1..n PROVE Follows(h[i - 1], v[i], h[i])
  <2>1. h[i] = [h[i - 1] EXCEPT ![w[i].market] = w[i].after]
    BY <1>6 DEF Follows
  <2>2. h[i] = [h[i - 1] EXCEPT ![v[i].market] = v[i].after]
    BY <1>4, <2>1
  <2>3. v[i].kind # "change" /\ v[i].kind # "whole"
    BY <1>4
  <2> QED
    BY <2>2, <2>3, Zenon DEF Follows
<1>8. Story(h, v, from, to)
  BY <1>5, <1>6, <1>7 DEF Story
<1> QED
  BY <1>2, <1>5, <1>8 DEF Told, v

\* Updates that change no book may follow.
LEMMA ToldAgain ==
  ASSUME NEW w \in Seq(FeedUpdate), NEW from, NEW to \in [Markets -> There], Told(w, from, to),
         NEW v \in Seq(FeedUpdate), \A i \in 1..Len(v) : Follows(to, v[i], to)
  PROVE  Told(w \o v, from, to)
<1>1. PICK h : Story(h, w, from, to)
  BY DEF Told
<1>2. PICK n \in Nat : n = Len(w)
  OBVIOUS
<1>3. PICK k \in Nat : k = Len(v)
  OBVIOUS
<1>4. PICK x : x = w \o v
  OBVIOUS
<1>5. Len(x) = n + k /\ \A i \in 1..(n + k) : x[i] = IF i <= n THEN w[i] ELSE v[i - n]
  BY <1>2, <1>3, <1>4
<1> DEFINE g == [i \in 0..(n + k) |-> IF i <= n THEN h[i] ELSE to]
<1>6. /\ h \in [0..n -> [Markets -> There]] /\ h[0] = from /\ h[n] = to
      /\ \A i \in 1..n : Follows(h[i - 1], w[i], h[i])
  BY <1>1, <1>2 DEF Story
<1>7. /\ g \in [0..(n + k) -> [Markets -> There]] /\ g[0] = from /\ g[n + k] = to
      /\ \A i \in 0..(n + k) : g[i] = IF i <= n THEN h[i] ELSE to
  <2>1. \A i \in 0..(n + k) : i <= n => i \in 0..n
    OBVIOUS
  <2>2. g \in [0..(n + k) -> [Markets -> There]]
    BY <1>6, <2>1
  <2>3. 0 \in 0..(n + k) /\ n + k \in 0..(n + k) /\ 0 <= n
    OBVIOUS
  <2>4. n + k <= n => n + k = n
    OBVIOUS
  <2> QED
    BY <1>6, <2>2, <2>3, <2>4
<1> HIDE DEF g
<1>8. ASSUME NEW i \in 1..(n + k) PROVE Follows(g[i - 1], x[i], g[i])
  <2>0. i - 1 \in 0..(n + k) /\ i \in 0..(n + k)
    OBVIOUS
  <2>1. CASE i <= n
    <3>1. i \in 1..n /\ i - 1 <= n
      BY <2>1
    <3>2. g[i - 1] = h[i - 1] /\ g[i] = h[i] /\ x[i] = w[i]
      BY <1>5, <1>7, <2>0, <2>1, <3>1
    <3>3. Follows(h[i - 1], w[i], h[i])
      BY <1>6, <3>1
    <3> QED
      BY <3>2, <3>3
  <2>2. CASE i > n
    <3>1. i - n \in 1..k /\ ~ (i <= n)
      BY <2>2
    <3>2. g[i] = to /\ x[i] = v[i - n]
      BY <1>5, <1>7, <2>0, <3>1
    <3>3. g[i - 1] = to
      <4>1. i - 1 <= n => i - 1 = n
        BY <2>2
      <4> QED
        BY <1>6, <1>7, <2>0, <4>1
    <3>4. Follows(to, v[i - n], to)
      BY <1>3, <3>1
    <3> QED
      BY <3>2, <3>3, <3>4
  <2> QED
    BY <2>1, <2>2
<1>9. Story(g, x, from, to)
  BY <1>5, <1>7, <1>8 DEF Story
<1> QED
  BY <1>4, <1>9 DEF Told

-----------------------------------------------------------------------------
(* The books kept.                                                          *)

\* The books of f are in order, of markets of all, and some of them agree with those of ref.
Shelf(f, all, agreeing, ref) ==
  /\ DOMAIN f \subseteq all /\ agreeing \subseteq DOMAIN f
  /\ \A m \in DOMAIN f : SortedBook(f[m])
  /\ \A m \in agreeing : ToSet(f[m].bids) = ref[m].bids /\ ToSet(f[m].asks) = ref[m].asks

OrderInv == Once(accessOrder) /\ ToSet(accessOrder) = DOMAIN books /\ Len(accessOrder) <= MaxBooks

WireInv == wire \in Seq(FeedUpdate) /\ Len(wire) <= MaxWire /\ Told(wire, reference, exchange)

MarketsInv ==
  /\ exchange \in [Markets -> There] /\ reference \in [Markets -> There]
  /\ subscribed \subseteq Markets /\ subscriptions \subseteq Markets /\ markets \subseteq Markets
  /\ IsFiniteSet(subscriptions) /\ moves \in 0..MaxMoves

FeedInv ==
  /\ MarketsInv /\ WireInv /\ OrderInv
  /\ Shelf(books, Markets, whole, reference)
  /\ Shelf(multiBooks, markets, multiWhole, reference)

\* Fewer books, or fewer that agree.
LEMMA FewerBooks ==
  ASSUME NEW f, NEW S, NEW A, NEW ref, Shelf(f, S, A, ref),
         NEW D \in SUBSET DOMAIN f, NEW T, D \subseteq T, NEW B \in SUBSET A, B \subseteq D
  PROVE  Shelf(Restrict(f, D), T, B, ref)
BY DEF Shelf, Restrict

\* An update is put into its book; the others stay as they are.
LEMMA ShelfApplied ==
  ASSUME NEW f, NEW S, NEW A, NEW ref \in [Markets -> There], Shelf(f, S, A, ref),
         NEW u \in FeedUpdate, u.kind # "gap", u.market \in S,
         NEW next, Follows(ref, u, next)
  PROVE  /\ Shelf(Applied(f, u), S, WholeAfter(A, f, u), next)
         /\ DOMAIN Applied(f, u) = DOMAIN f \cup {u.market}
<1>1. PICK m \in Markets : m = u.market
  BY DEF FeedUpdate
<1>2. PICK a \in There : a = u.after
  BY DEF FeedUpdate
<1>3. PICK b : b = IF m \in DOMAIN f THEN f[m] ELSE emptyBook
  OBVIOUS
<1>4. PICK c : c = applyDelta(b, u.delta)
  OBVIOUS
<1>5. PICK g : g = Applied(f, u)
  OBVIOUS
<1>6. g = [x \in DOMAIN f \cup {m} |-> IF x = m THEN c ELSE f[x]]
  BY <1>1, <1>3, <1>4, <1>5, Zenon DEF Applied
<1>7. DOMAIN g = DOMAIN f \cup {m} /\ g[m] = c /\ \A x \in DOMAIN f : x # m => g[x] = f[x]
  BY <1>6
<1>8. SortedBook(b) /\ (m \notin DOMAIN f => ToSet(b.bids) = {} /\ ToSet(b.asks) = {})
  BY <1>3, EmptySorted DEF Shelf
<1>9. /\ SortedBook(c)
      /\ ToSet(c.bids) = FoldLeft(Put, ToSet(b.bids), u.delta.bids)
      /\ ToSet(c.asks) = FoldLeft(Put, ToSet(b.asks), u.delta.asks)
  <2>1. u.delta \in Book
    BY DEF FeedUpdate
  <2> QED
    BY <1>4, <1>8, <2>1, DeltaApplied
<1>10. /\ next = [ref EXCEPT ![m] = a]
       /\ u.kind = "change" => Puts(ref[m], u.delta, a)
       /\ u.kind = "whole" => a = ref[m] /\ Puts(NoLevels, u.delta, a) /\ Puts(a, u.delta, a)
  BY <1>1, <1>2, Zenon DEF Follows
<1>11. next[m] = a /\ \A x \in Markets : x # m => next[x] = ref[x]
  BY <1>10
<1>12. PICK B : B = WholeAfter(A, f, u)
  OBVIOUS
<1>13. B = IF u.kind = "whole" /\ m \notin DOMAIN f THEN A \cup {m} ELSE A
  BY <1>1, <1>12, Zenon DEF WholeAfter
<1>14. B \subseteq DOMAIN g /\ DOMAIN g \subseteq S
  BY <1>1, <1>7, <1>13 DEF Shelf
<1>15. \A x \in DOMAIN g : SortedBook(g[x])
  BY <1>7, <1>9 DEF Shelf
<1>16. ASSUME m \in B
       PROVE  ToSet(c.bids) = a.bids /\ ToSet(c.asks) = a.asks
  <2>1. u.kind \in {"whole", "change"}
    BY DEF FeedUpdate
  <2>2. CASE m \in A
    <3>1. ToSet(b.bids) = ref[m].bids /\ ToSet(b.asks) = ref[m].asks
      BY <1>3, <2>2 DEF Shelf
    <3> QED
      BY <1>9, <1>10, <2>1, <3>1 DEF Puts
  <2>3. CASE m \notin A
    <3>1. u.kind = "whole" /\ m \notin DOMAIN f
      BY <1>13, <1>16, <2>3
    <3>2. ToSet(b.bids) = {} /\ ToSet(b.asks) = {}
      BY <1>8, <3>1
    <3> QED
      BY <1>9, <1>10, <3>1, <3>2 DEF Puts, NoLevels
  <2> QED
    BY <2>2, <2>3
<1>17. ASSUME NEW x \in B
       PROVE  ToSet(g[x].bids) = next[x].bids /\ ToSet(g[x].asks) = next[x].asks
  <2>1. CASE x = m
    BY <1>7, <1>11, <1>16, <1>17, <2>1
  <2>2. CASE x # m
    <3>1. x \in A /\ x \in DOMAIN f
      BY <1>13, <2>2 DEF Shelf
    <3>2. next[x] = ref[x]
      <4>1. x \in Markets => next[x] = ref[x]
        BY <1>11, <2>2
      <4>2. x \notin Markets => next[x] = ref[x]
        BY <1>10, <2>2
      <4> QED
        BY <4>1, <4>2
    <3> QED
      BY <1>7, <2>2, <3>1, <3>2 DEF Shelf
  <2> QED
    BY <2>1, <2>2
<1>18. Shelf(g, S, B, next)
  BY <1>14, <1>15, <1>17 DEF Shelf
<1> QED
  BY <1>1, <1>5, <1>7, <1>12, <1>18

-----------------------------------------------------------------------------
(* What the exchange sends.                                                 *)

LEMMA HeldPut ==
  ASSUME NEW X \in Held, NEW l \in Level
  PROVE  Put(X, l) \in Held
<1>1. X \in LevelSets /\ \A x \in X : x.size # 0
  BY DEF Held
<1>2. Put(X, l) \in LevelSets
  BY <1>1, PutApart
<1>3. \A x \in Put(X, l) : x.size # 0
  BY <1>1 DEF Put
<1> QED
  BY <1>2, <1>3 DEF Held

\* A level put into one side of a book, and its delta.
LEMMA MoveSent ==
  ASSUME NEW b \in There, NEW side \in {"bids", "asks"}, NEW l \in Level
  PROVE  LET a == [b EXCEPT ![side] = Put(b[side], l)]
             d == [emptyBook EXCEPT ![side] = <<l>>]
         IN  a \in There /\ d \in Book /\ Puts(b, d, a)
<1>1. b = [bids |-> b.bids, asks |-> b.asks] /\ b.bids \in Held /\ b.asks \in Held
  BY DEF There
<1>2. <<>> \in Seq(Level) /\ <<l>> \in Seq(Level)
  OBVIOUS
<1>3. /\ FoldLeft(Put, b.bids, <<>>) = b.bids /\ FoldLeft(Put, b.asks, <<>>) = b.asks
      /\ FoldLeft(Put, b.bids, <<l>>) = Put(b.bids, l)
      /\ FoldLeft(Put, b.asks, <<l>>) = Put(b.asks, l)
  <2>1. b.bids \in LevelSets /\ b.asks \in LevelSets
    BY <1>1 DEF Held
  <2> QED
    BY <2>1, PutNothing, PutOnce
<1>4. PICK P : P = Put(b.bids, l)
  OBVIOUS
<1>5. PICK Q : Q = Put(b.asks, l)
  OBVIOUS
<1>6. P \in Held /\ Q \in Held
  BY <1>1, <1>4, <1>5, HeldPut
<1>7. CASE side = "bids"
  <2>1. [b EXCEPT !["bids"] = P] = [bids |-> P, asks |-> b.asks]
    <3>1. [b EXCEPT !.bids = P] = [bids |-> P, asks |-> b.asks]
      BY <1>1
    <3> QED
      BY <3>1, Zenon
  <2>2. [emptyBook EXCEPT !["bids"] = <<l>>] = [bids |-> <<l>>, asks |-> <<>>]
    BY DEF emptyBook
  <2>3. b["bids"] = b.bids
    OBVIOUS
  <2>4. [bids |-> P, asks |-> b.asks] \in There /\ [bids |-> <<l>>, asks |-> <<>>] \in Book
    BY <1>1, <1>2, <1>6 DEF There, Book
  <2>5. Puts(b, [bids |-> <<l>>, asks |-> <<>>], [bids |-> P, asks |-> b.asks])
    BY <1>3, <1>4 DEF Puts
  <2>6. [b EXCEPT ![side] = Put(b[side], l)] = [bids |-> P, asks |-> b.asks]
    BY <1>4, <1>7, <2>1, <2>3, Zenon
  <2>7. [emptyBook EXCEPT ![side] = <<l>>] = [bids |-> <<l>>, asks |-> <<>>]
    BY <1>7, <2>2, Zenon
  <2> QED
    BY <2>4, <2>5, <2>6, <2>7, Zenon
<1>8. CASE side = "asks"
  <2>1. [b EXCEPT !["asks"] = Q] = [bids |-> b.bids, asks |-> Q]
    <3>1. [b EXCEPT !.asks = Q] = [bids |-> b.bids, asks |-> Q]
      BY <1>1
    <3> QED
      BY <3>1, Zenon
  <2>2. [emptyBook EXCEPT !["asks"] = <<l>>] = [bids |-> <<>>, asks |-> <<l>>]
    BY DEF emptyBook
  <2>3. b["asks"] = b.asks
    OBVIOUS
  <2>4. [bids |-> b.bids, asks |-> Q] \in There /\ [bids |-> <<>>, asks |-> <<l>>] \in Book
    BY <1>1, <1>2, <1>6 DEF There, Book
  <2>5. Puts(b, [bids |-> <<>>, asks |-> <<l>>], [bids |-> b.bids, asks |-> Q])
    BY <1>3, <1>5 DEF Puts
  <2>6. [b EXCEPT ![side] = Put(b[side], l)] = [bids |-> b.bids, asks |-> Q]
    BY <1>5, <1>8, <2>1, <2>3, Zenon
  <2>7. [emptyBook EXCEPT ![side] = <<l>>] = [bids |-> <<>>, asks |-> <<l>>]
    BY <1>8, <2>2, Zenon
  <2> QED
    BY <2>4, <2>5, <2>6, <2>7, Zenon
<1> QED
  BY <1>7, <1>8

\* A whole book is put into any part of it, and changes no market's.
LEMMA WholeSent ==
  ASSUME exchange \in [Markets -> There], NEW m \in Markets
  PROVE  WholeBook(m) \in FeedUpdate /\ Follows(exchange, WholeBook(m), exchange)
<1>1. PICK b \in There : b = exchange[m]
  OBVIOUS
<1>2. PICK s : s = SetToSeq(b.bids)
  OBVIOUS
<1>3. PICK t : t = SetToSeq(b.asks)
  OBVIOUS
<1>4. /\ b.bids \in LevelSets /\ (\A l \in b.bids : l.size # 0)
      /\ b.asks \in LevelSets /\ (\A l \in b.asks : l.size # 0)
  BY DEF There, Held
<1>5. /\ IsFiniteSet(b.bids) /\ b.bids \subseteq Level
      /\ IsFiniteSet(b.asks) /\ b.asks \subseteq Level
  BY <1>4, PricesOfLevels
<1>6. s \in Seq(b.bids) /\ ToSet(s) = b.bids /\ t \in Seq(b.asks) /\ ToSet(t) = b.asks
  BY <1>2, <1>3, <1>5, Listed
<1>7. /\ FoldLeft(Put, {}, s) = b.bids /\ FoldLeft(Put, b.bids, s) = b.bids
      /\ FoldLeft(Put, {}, t) = b.asks /\ FoldLeft(Put, b.asks, t) = b.asks
  <2>1. {} \in SUBSET b.bids /\ {} \in SUBSET b.asks
    OBVIOUS
  <2>2. b.bids \in SUBSET b.bids /\ b.asks \in SUBSET b.asks
    OBVIOUS
  <2>3. FoldLeft(Put, {}, s) = b.bids /\ FoldLeft(Put, b.bids, s) = b.bids
    BY <1>4, <1>6, <2>1, <2>2, PutAll
  <2>4. FoldLeft(Put, {}, t) = b.asks /\ FoldLeft(Put, b.asks, t) = b.asks
    BY <1>4, <1>6, <2>1, <2>2, PutAll
  <2> QED
    BY <2>3, <2>4
<1>8. PICK d : d = [bids |-> s, asks |-> t]
  OBVIOUS
<1>9. d \in Book /\ Puts(NoLevels, d, b) /\ Puts(b, d, b)
  <2>1. s \in Seq(Level) /\ t \in Seq(Level)
    BY <1>5, <1>6
  <2> QED
    BY <1>7, <1>8, <2>1 DEF Book, Puts, NoLevels
<1>10. PICK u : u = WholeBook(m)
  OBVIOUS
<1>11. u = [kind |-> "whole", market |-> m, delta |-> d, after |-> b]
  BY <1>1, <1>2, <1>3, <1>8, <1>10, Zenon DEF WholeBook, Update
<1>12. u \in FeedUpdate
  BY <1>9, <1>11 DEF FeedUpdate
<1>13. exchange = [exchange EXCEPT ![m] = b]
  BY <1>1
<1>14. u.kind = "whole" /\ u.market = m /\ u.delta = d /\ u.after = b
  BY <1>11
<1>15. u.kind # "change"
  BY <1>14
<1>16. Follows(exchange, u, exchange)
  BY <1>1, <1>9, <1>13, <1>14, <1>15, Zenon DEF Follows
<1> QED
  BY <1>10, <1>12, <1>16

-----------------------------------------------------------------------------
(* Every step keeps the invariant.                                          *)

LEMMA ExchangeMovesKeeps ==
  ASSUME FeedInv, NEW m \in Markets, NEW side \in {"bids", "asks"}, NEW l \in Level,
         NEW dropped \in BOOLEAN, ExchangeMoves(m, side, l, dropped)
  PROVE  FeedInv'
<1>1. PICK b \in There : b = exchange[m]
  BY DEF FeedInv, MarketsInv
<1>2. PICK d : d = [emptyBook EXCEPT ![side] = <<l>>]
  OBVIOUS
<1>3. PICK a : a = [b EXCEPT ![side] = Put(b[side], l)]
  OBVIOUS
<1>4. a \in There /\ d \in Book /\ Puts(b, d, a)
  BY <1>2, <1>3, MoveSent
<1> DEFINE others == {x \in exchange[m][side] : x.price # l.price}
<1>5. Put(b[side], l) = IF l.size = 0 THEN others ELSE others \cup {l}
  BY <1>1 DEF Put
<1> HIDE DEF others
<1>6. PICK kind \in {"gap", "change"} : kind = IF dropped \/ m \notin subscribed THEN "gap" ELSE "change"
  OBVIOUS
<1>7. PICK u : u = [kind |-> kind, market |-> m, delta |-> d, after |-> a]
  OBVIOUS
<1>8. a = [exchange[m] EXCEPT ![side] = IF l.size = 0 THEN others ELSE others \cup {l}]
  BY <1>1, <1>3, <1>5
<1>9. /\ moves < MaxMoves /\ Len(wire) < MaxWire /\ moves' = moves + 1
      /\ exchange' = [exchange EXCEPT ![m] = a] /\ wire' = Append(wire, u)
      /\ UNCHANGED <<subscribed, subscriptions, feed, multi, reference>>
  BY <1>2, <1>6, <1>7, <1>8, Zenon DEF ExchangeMoves, Update, others
<1>10. u \in FeedUpdate /\ u.kind = kind /\ u.market = m /\ u.delta = d /\ u.after = a
  BY <1>4, <1>7 DEF FeedUpdate
<1>11. exchange' \in [Markets -> There]
  BY <1>4, <1>9 DEF FeedInv, MarketsInv
<1>12. Follows(exchange, u, exchange')
  <2>1. u.kind # "whole"
    BY <1>10
  <2> QED
    BY <1>1, <1>4, <1>9, <1>10, <2>1, Zenon DEF Follows
<1>13. Told(wire', reference, exchange')
  BY <1>9, <1>10, <1>11, <1>12, ToldMore DEF FeedInv, WireInv
<1>14. wire' \in Seq(FeedUpdate) /\ Len(wire') <= MaxWire
  BY <1>9, <1>10, FeedAssumption DEF FeedInv, WireInv
<1>15. WireInv'
  BY <1>9, <1>13, <1>14 DEF WireInv
<1>16. MarketsInv'
  <2>1. moves' \in 0..MaxMoves
    BY <1>9, FeedAssumption DEF FeedInv, MarketsInv
  <2> QED
    BY <1>9, <1>11, <2>1 DEF FeedInv, MarketsInv, multi
<1>17. OrderInv' /\ Shelf(books, Markets, whole, reference)' /\ Shelf(multiBooks, markets, multiWhole, reference)'
  BY <1>9 DEF FeedInv, OrderInv, feed, multi
<1> QED
  BY <1>15, <1>16, <1>17 DEF FeedInv

LEMMA ReconnectsKeeps ==
  ASSUME FeedInv, Reconnects
  PROVE  FeedInv'
<1>1. PICK S : S = {WholeBook(m) : m \in subscriptions}
  OBVIOUS
<1>2. PICK v : v = [i \in DOMAIN wire |-> [wire[i] EXCEPT !.kind = "gap"]]
  OBVIOUS
<1>3. PICK s : s = SetToSeq(S)
  OBVIOUS
<1>4. /\ Len(wire) + Cardinality(subscriptions) <= MaxWire
      /\ subscribed' = subscriptions /\ wire' = v \o s
      /\ UNCHANGED <<exchange, subscriptions, feed, multi, reference, moves>>
  BY <1>1, <1>2, <1>3, Zenon DEF Reconnects
<1>5. exchange \in [Markets -> There] /\ subscriptions \subseteq Markets /\ IsFiniteSet(subscriptions)
  BY DEF FeedInv, MarketsInv
<1>6. \A m \in subscriptions : WholeBook(m) \in FeedUpdate /\ Follows(exchange, WholeBook(m), exchange)
  BY <1>5, WholeSent
<1>7. IsFiniteSet(S) /\ Cardinality(S) <= Cardinality(subscriptions) /\ Cardinality(S) \in Nat
  <2> DEFINE f == [m \in subscriptions |-> WholeBook(m)]
  <2>1. f \in Surjection(subscriptions, S)
    BY <1>1 DEF Surjection
  <2> HIDE DEF f
  <2>2. IsFiniteSet(S) /\ Cardinality(S) <= Cardinality(subscriptions)
    BY <1>5, <2>1, FS_Surjection
  <2> QED
    BY <2>2, FS_CardinalityType
<1>8. s \in Seq(S) /\ Len(s) = Cardinality(S) /\ \A i \in 1..Len(s) : s[i] \in S
  BY <1>3, <1>7, Listed, ElementOfSeq
<1>9. s \in Seq(FeedUpdate) /\ \A i \in 1..Len(s) : Follows(exchange, s[i], exchange)
  <2>1. S \subseteq FeedUpdate
    BY <1>1, <1>6
  <2>2. \A x \in S : Follows(exchange, x, exchange)
    BY <1>1, <1>6
  <2> QED
    BY <1>8, <2>1, <2>2
<1>10. v \in Seq(FeedUpdate) /\ Len(v) = Len(wire) /\ Told(v, reference, exchange)
  BY <1>2, ToldGaps DEF FeedInv, WireInv
<1>11. Told(wire', reference, exchange)
  BY <1>4, <1>5, <1>9, <1>10, ToldAgain
<1>12. wire' \in Seq(FeedUpdate) /\ Len(wire') <= MaxWire
  <2>1. wire' \in Seq(FeedUpdate) /\ Len(wire') = Len(v) + Len(s)
    BY <1>4, <1>9, <1>10, ConcatProperties
  <2>2. Len(wire) \in Nat /\ Cardinality(subscriptions) \in Nat
    BY <1>5, FS_CardinalityType DEF FeedInv, WireInv
  <2> QED
    BY <1>4, <1>7, <1>8, <1>10, <2>1, <2>2, FeedAssumption
<1>13. WireInv'
  BY <1>4, <1>11, <1>12 DEF WireInv
<1>14. MarketsInv'
  BY <1>4 DEF FeedInv, MarketsInv, multi
<1>15. OrderInv' /\ Shelf(books, Markets, whole, reference)' /\ Shelf(multiBooks, markets, multiWhole, reference)'
  BY <1>4 DEF FeedInv, OrderInv, feed, multi
<1> QED
  BY <1>13, <1>14, <1>15 DEF FeedInv

LEMMA AddMarketKeeps ==
  ASSUME FeedInv, NEW m \in Markets, NEW sent \in BOOLEAN, addMarket(m, sent)
  PROVE  FeedInv'
<1>1. exchange \in [Markets -> There]
  BY DEF FeedInv, MarketsInv
<1>2. PICK u : u = WholeBook(m)
  OBVIOUS
<1>3. u \in FeedUpdate /\ Follows(exchange, u, exchange)
  BY <1>1, <1>2, WholeSent
<1>4. /\ m \notin markets /\ Len(wire) < MaxWire
      /\ markets' = markets \cup {m} /\ subscriptions' = subscriptions \cup {m}
      /\ subscribed' = IF sent THEN subscribed \cup {m} ELSE subscribed
      /\ wire' = IF sent THEN Append(wire, u) ELSE wire
      /\ UNCHANGED <<exchange, moves, feed, multiBooks, multiWhole, reference>>
  BY <1>2, Zenon DEF addMarket
<1>5. Told(Append(wire, u), reference, exchange)
  BY <1>1, <1>3, ToldMore DEF FeedInv, WireInv
<1>6. Append(wire, u) \in Seq(FeedUpdate) /\ Len(Append(wire, u)) = Len(wire) + 1
  BY <1>3 DEF FeedInv, WireInv
<1>7. wire' \in Seq(FeedUpdate) /\ Len(wire') <= MaxWire /\ Told(wire', reference, exchange)
  BY <1>4, <1>5, <1>6, FeedAssumption DEF FeedInv, WireInv
<1>8. WireInv'
  BY <1>4, <1>7 DEF WireInv
<1>9. MarketsInv'
  <2>1. IsFiniteSet(subscriptions \cup {m})
    BY FS_AddElement DEF FeedInv, MarketsInv
  <2> QED
    BY <1>4, <2>1 DEF FeedInv, MarketsInv
<1>10. OrderInv' /\ Shelf(books, Markets, whole, reference)' /\ Shelf(multiBooks, markets, multiWhole, reference)'
  BY <1>4 DEF FeedInv, OrderInv, feed, Shelf
<1> QED
  BY <1>8, <1>9, <1>10 DEF FeedInv

LEMMA RemoveMarketKeeps ==
  ASSUME FeedInv, NEW m \in Markets, NEW sent \in BOOLEAN, removeMarket(m, sent)
  PROVE  FeedInv'
<1>1. PICK D : D = DOMAIN multiBooks \ {m}
  OBVIOUS
<1>2. /\ markets' = markets \ {m} /\ multiBooks' = Restrict(multiBooks, D)
      /\ multiWhole' = multiWhole \ {m}
      /\ \/ subscriptions' = {} /\ subscribed' = {}
         \/ subscriptions' = {} /\ subscribed' = subscribed
         \/ subscriptions' = subscriptions /\ subscribed' = subscribed
      /\ UNCHANGED <<exchange, moves, wire, feed, reference>>
  BY <1>1 DEF removeMarket, Forget
<1>3. MarketsInv'
  BY <1>2, FS_EmptySet DEF FeedInv, MarketsInv
<1>4. Shelf(multiBooks, markets, multiWhole, reference)'
  <2>1. Shelf(multiBooks, markets, multiWhole, reference)
    BY DEF FeedInv
  <2>2. /\ D \in SUBSET DOMAIN multiBooks /\ D \subseteq markets \ {m}
        /\ multiWhole \ {m} \in SUBSET multiWhole /\ multiWhole \ {m} \subseteq D
    BY <1>1, <2>1 DEF Shelf
  <2>3. Shelf(Restrict(multiBooks, D), markets \ {m}, multiWhole \ {m}, reference)
    BY <2>1, <2>2, FewerBooks
  <2> QED
    BY <1>2, <2>3
<1>5. WireInv' /\ OrderInv' /\ Shelf(books, Markets, whole, reference)'
  BY <1>2 DEF FeedInv, WireInv, OrderInv, feed
<1> QED
  BY <1>3, <1>4, <1>5 DEF FeedInv

LEMMA GetBookKeeps ==
  ASSUME FeedInv, NEW m \in Markets, getBook(m)
  PROVE  FeedInv'
<1>1. /\ m \in DOMAIN books /\ accessOrder' = touch(accessOrder, m)
      /\ UNCHANGED <<outside, subscriptions, wire, books, whole, multi, reference>>
  BY DEF getBook
<1>2. Once(accessOrder) /\ ToSet(accessOrder) = DOMAIN books /\ Len(accessOrder) <= MaxBooks
  BY DEF FeedInv, OrderInv
<1>3. OrderInv'
  <2>1. /\ Once(touch(accessOrder, m)) /\ ToSet(touch(accessOrder, m)) = DOMAIN books
        /\ Len(touch(accessOrder, m)) = Len(accessOrder)
    BY <1>1, <1>2, Touched
  <2> QED
    BY <1>1, <1>2, <2>1 DEF OrderInv
<1>4. /\ MarketsInv' /\ WireInv'
      /\ Shelf(books, Markets, whole, reference)' /\ Shelf(multiBooks, markets, multiWhole, reference)'
  BY <1>1 DEF FeedInv, MarketsInv, WireInv, outside, multi
<1> QED
  BY <1>3, <1>4 DEF FeedInv

LEMMA RemoveBookKeeps ==
  ASSUME FeedInv, NEW m \in Markets, removeBook(m)
  PROVE  FeedInv'
<1>1. PICK D : D = DOMAIN books \ {m}
  OBVIOUS
<1>2. /\ m \in DOMAIN books /\ books' = Restrict(books, D)
      /\ accessOrder' = RemoveFirst(accessOrder, m) /\ whole' = whole \ {m}
      /\ UNCHANGED <<outside, subscriptions, wire, multi, reference>>
  BY <1>1 DEF removeBook, Forget
<1>3. Once(accessOrder) /\ ToSet(accessOrder) = DOMAIN books /\ Len(accessOrder) <= MaxBooks
  BY DEF FeedInv, OrderInv
<1>4. OrderInv'
  <2>1. /\ Once(RemoveFirst(accessOrder, m)) /\ ToSet(RemoveFirst(accessOrder, m)) = D
        /\ Len(RemoveFirst(accessOrder, m)) = Len(accessOrder) - 1
    BY <1>1, <1>2, <1>3, DropOnce
  <2>2. Len(accessOrder) \in Nat
    BY <1>3 DEF Once
  <2>3. DOMAIN books' = D
    BY <1>2 DEF Restrict
  <2> QED
    BY <1>2, <1>3, <2>1, <2>2, <2>3, FeedAssumption DEF OrderInv
<1>5. Shelf(books, Markets, whole, reference)'
  <2>1. Shelf(books, Markets, whole, reference)
    BY DEF FeedInv
  <2>2. /\ D \in SUBSET DOMAIN books /\ D \subseteq Markets
        /\ whole \ {m} \in SUBSET whole /\ whole \ {m} \subseteq D
    BY <1>1, <2>1 DEF Shelf
  <2>3. Shelf(Restrict(books, D), Markets, whole \ {m}, reference)
    BY <2>1, <2>2, FewerBooks
  <2> QED
    BY <1>2, <2>3
<1>6. MarketsInv' /\ WireInv' /\ Shelf(multiBooks, markets, multiWhole, reference)'
  BY <1>2 DEF FeedInv, MarketsInv, WireInv, outside, multi
<1> QED
  BY <1>4, <1>5, <1>6 DEF FeedInv

\* The first update leaves the wire, and the reference follows it.
LEMMA UpdateLeaves ==
  ASSUME FeedInv, wire # <<>>
  PROVE  LET u == Head(wire)
             next == [reference EXCEPT ![u.market] = u.after]
         IN  /\ u \in FeedUpdate /\ next \in [Markets -> There] /\ Follows(reference, u, next)
             /\ Tail(wire) \in Seq(FeedUpdate) /\ Len(Tail(wire)) <= MaxWire
             /\ Told(Tail(wire), next, exchange)
<1>1. /\ wire \in Seq(FeedUpdate) /\ Len(wire) <= MaxWire /\ Told(wire, reference, exchange)
  BY DEF FeedInv, WireInv
<1>2. PICK u \in FeedUpdate : u = Head(wire)
  BY <1>1
<1>3. PICK next \in [Markets -> There] :
        Follows(reference, u, next) /\ Told(Tail(wire), next, exchange)
  BY <1>1, <1>2, ToldRest
<1>4. next = [reference EXCEPT ![u.market] = u.after]
  BY <1>3, Zenon DEF Follows
<1>5. Tail(wire) \in Seq(FeedUpdate) /\ Len(Tail(wire)) <= MaxWire
  BY <1>1, FeedAssumption
<1> QED
  BY <1>2, <1>3, <1>4, <1>5

LEMMA ProcessUpdateKeeps ==
  ASSUME FeedInv, ProcessUpdate
  PROVE  FeedInv'
<1>1. PICK u : u = Head(wire)
  OBVIOUS
<1>2. PICK next : next = [reference EXCEPT ![u.market] = u.after]
  OBVIOUS
<1>3. PICK t : t = touch(accessOrder, u.market)
  OBVIOUS
<1>4. PICK kept : kept = evictIfNeeded(t)
  OBVIOUS
<1>5. PICK f : f = Applied(books, u)
  OBVIOUS
<1>6. PICK A : A = WholeAfter(whole, books, u)
  OBVIOUS
<1>7. /\ wire # <<>> /\ u.kind # "gap" /\ wire' = Tail(wire) /\ reference' = next
      /\ books' = Restrict(f, ToSet(kept)) /\ accessOrder' = kept /\ whole' = A \cap ToSet(kept)
      /\ IF u.market \in markets
         THEN multiBooks' = Applied(multiBooks, u) /\ multiWhole' = WholeAfter(multiWhole, multiBooks, u)
         ELSE UNCHANGED <<multiBooks, multiWhole>>
      /\ UNCHANGED <<outside, subscriptions, markets>>
  BY <1>1, <1>2, <1>3, <1>4, <1>5, <1>6, Zenon DEF ProcessUpdate
<1>8. /\ u \in FeedUpdate /\ next \in [Markets -> There] /\ Follows(reference, u, next)
      /\ wire' \in Seq(FeedUpdate) /\ Len(wire') <= MaxWire /\ Told(wire', next, exchange)
  BY <1>1, <1>2, <1>7, UpdateLeaves
<1>9. /\ Shelf(books, Markets, whole, reference) /\ Shelf(multiBooks, markets, multiWhole, reference)
      /\ reference \in [Markets -> There] /\ u.market \in Markets
  BY <1>8 DEF FeedInv, MarketsInv, FeedUpdate
<1>10. Shelf(f, Markets, A, next) /\ DOMAIN f = DOMAIN books \cup {u.market}
  <2>1. /\ Shelf(Applied(books, u), Markets, WholeAfter(whole, books, u), next)
        /\ DOMAIN Applied(books, u) = DOMAIN books \cup {u.market}
    <3>1. /\ reference \in [Markets -> There] /\ Shelf(books, Markets, whole, reference)
          /\ u \in FeedUpdate /\ u.kind # "gap" /\ u.market \in Markets
          /\ Follows(reference, u, next)
      BY <1>7, <1>8, <1>9
    <3> QED
      BY <3>1, ShelfApplied
  <2> QED
    BY <1>5, <1>6, <2>1
<1>11. Once(accessOrder) /\ ToSet(accessOrder) = DOMAIN books
  BY DEF FeedInv, OrderInv
<1>12. Once(t) /\ ToSet(t) = DOMAIN f
  BY <1>3, <1>9, <1>10, <1>11, Touched
<1>13. Once(kept) /\ ToSet(kept) \subseteq DOMAIN f /\ Len(kept) <= MaxBooks
  BY <1>4, <1>12, Evicted
<1>14. OrderInv'
  <2>1. DOMAIN books' = ToSet(kept)
    BY <1>7 DEF Restrict
  <2> QED
    BY <1>7, <1>13, <2>1 DEF OrderInv
<1>15. Shelf(books, Markets, whole, reference)'
  <2>1. /\ ToSet(kept) \in SUBSET DOMAIN f /\ ToSet(kept) \subseteq Markets
        /\ A \cap ToSet(kept) \in SUBSET A /\ A \cap ToSet(kept) \subseteq ToSet(kept)
    BY <1>10, <1>13 DEF Shelf
  <2>2. Shelf(Restrict(f, ToSet(kept)), Markets, A \cap ToSet(kept), next)
    BY <1>10, <2>1, FewerBooks
  <2> QED
    BY <1>7, <2>2
<1>16. Shelf(multiBooks, markets, multiWhole, reference)'
  <2>1. CASE u.market \in markets
    <3>1. Shelf(Applied(multiBooks, u), markets, WholeAfter(multiWhole, multiBooks, u), next)
      BY <1>7, <1>8, <1>9, <2>1, ShelfApplied
    <3> QED
      BY <1>7, <2>1, <3>1
  <2>2. CASE u.market \notin markets
    <3>1. \A m \in multiWhole : m # u.market /\ m \in markets
      BY <1>9, <2>2 DEF Shelf
    <3>2. \A m \in multiWhole : next[m] = reference[m]
      BY <1>2, <1>9, <3>1 DEF FeedInv, MarketsInv
    <3>3. Shelf(multiBooks, markets, multiWhole, next)
      BY <1>9, <3>2 DEF Shelf
    <3> QED
      BY <1>7, <2>2, <3>3
  <2> QED
    BY <2>1, <2>2
<1>17. WireInv'
  BY <1>7, <1>8 DEF WireInv, outside
<1>18. MarketsInv'
  BY <1>7, <1>8 DEF FeedInv, MarketsInv, outside
<1> QED
  BY <1>14, <1>15, <1>16, <1>17, <1>18 DEF FeedInv

\* Books of other markets agree as before.
LEMMA OthersAgree ==
  ASSUME NEW f, NEW S, NEW A, NEW ref, Shelf(f, S, A, ref), NEW m, NEW a
  PROVE  Shelf(f, S, A \ {m}, [ref EXCEPT ![m] = a])
BY DEF Shelf

LEMMA GapPassesKeeps ==
  ASSUME FeedInv, GapPasses
  PROVE  FeedInv'
<1>1. PICK u : u = Head(wire)
  OBVIOUS
<1>2. PICK next : next = [reference EXCEPT ![u.market] = u.after]
  OBVIOUS
<1>3. /\ wire # <<>> /\ wire' = Tail(wire) /\ reference' = next
      /\ whole' = whole \ {u.market} /\ multiWhole' = multiWhole \ {u.market}
      /\ UNCHANGED <<outside, subscriptions, books, accessOrder, markets, multiBooks>>
  BY <1>1, <1>2, Zenon DEF GapPasses
<1>4. /\ u \in FeedUpdate /\ next \in [Markets -> There]
      /\ wire' \in Seq(FeedUpdate) /\ Len(wire') <= MaxWire /\ Told(wire', next, exchange)
  BY <1>1, <1>2, <1>3, UpdateLeaves
<1>5. /\ Shelf(books, Markets, whole \ {u.market}, next)
      /\ Shelf(multiBooks, markets, multiWhole \ {u.market}, next)
  BY <1>2, OthersAgree DEF FeedInv
<1>6. WireInv' /\ MarketsInv' /\ OrderInv'
  BY <1>3, <1>4 DEF FeedInv, WireInv, MarketsInv, OrderInv, outside
<1>7. Shelf(books, Markets, whole, reference)' /\ Shelf(multiBooks, markets, multiWhole, reference)'
  BY <1>3, <1>5
<1> QED
  BY <1>6, <1>7 DEF FeedInv

LEMMA FeedStep == FeedInv /\ [FeedNext]_feedVars => FeedInv'
<1> SUFFICES ASSUME FeedInv, [FeedNext]_feedVars PROVE FeedInv'
  OBVIOUS
<1>1. ASSUME NEW m \in Markets, NEW side \in {"bids", "asks"}, NEW price \in 1..2, NEW size \in {0, 2},
             NEW dropped \in BOOLEAN, ExchangeMoves(m, side, [price |-> price, size |-> size], dropped)
      PROVE  FeedInv'
  <2>0. price \in Nat /\ size \in Nat
    OBVIOUS
  <2>1. PICK l \in Level : l = [price |-> price, size |-> size]
    BY <2>0 DEF Level
  <2>2. ExchangeMoves(m, side, l, dropped)
    BY <1>1, <2>1
  <2> QED
    BY <2>2, ExchangeMovesKeeps
<1>2. ASSUME NEW m \in Markets, NEW sent \in BOOLEAN, addMarket(m, sent) \/ removeMarket(m, sent)
      PROVE  FeedInv'
  BY <1>2, AddMarketKeeps, RemoveMarketKeeps
<1>3. ASSUME NEW m \in Markets, getBook(m) \/ removeBook(m)
      PROVE  FeedInv'
  BY <1>3, GetBookKeeps, RemoveBookKeeps
<1>4. CASE UNCHANGED feedVars
  BY <1>4 DEF FeedInv, MarketsInv, WireInv, OrderInv, feedVars
<1> QED
  BY <1>1, <1>2, <1>3, <1>4, ReconnectsKeeps, ProcessUpdateKeeps, GapPassesKeeps, Zenon DEF FeedNext

LEMMA FeedStarts == FeedInit => FeedInv
<1> SUFFICES ASSUME FeedInit PROVE FeedInv
  OBVIOUS
<1>1. {} \in Held /\ NoLevels \in There
  <2>1. {} \in Held
    BY FS_EmptySet DEF Held, LevelSets, Apart
  <2> QED
    BY <2>1 DEF NoLevels, There
<1>2. exchange \in [Markets -> There] /\ reference = exchange /\ wire = <<>>
  BY <1>1 DEF FeedInit
<1>3. WireInv
  <2>1. Told(<<>>, exchange, exchange)
    BY <1>2, ToldNothing
  <2>2. <<>> \in Seq(FeedUpdate) /\ Len(<<>>) = 0
    OBVIOUS
  <2> QED
    BY <1>2, <2>1, <2>2, FeedAssumption DEF WireInv
<1>4. MarketsInv
  BY <1>2, FS_EmptySet, FeedAssumption DEF FeedInit, MarketsInv
<1>5. OrderInv
  <2>1. Once(<<>>) /\ ToSet(<<>>) = {} /\ Len(<<>>) = 0 /\ DOMAIN <<>> = {}
    BY DEF Once, IsInjective, ToSet
  <2> QED
    BY <2>1, FeedAssumption DEF FeedInit, OrderInv
<1>6. Shelf(books, Markets, whole, reference) /\ Shelf(multiBooks, markets, multiWhole, reference)
  BY DEF FeedInit, Shelf
<1> QED
  BY <1>3, <1>4, <1>5, <1>6 DEF FeedInv

LEMMA ShelfAgrees ==
  ASSUME NEW f, NEW S, NEW A, NEW ref, Shelf(f, S, A, ref)
  PROVE  \A m \in A : m \in DOMAIN f /\ IsBook(f[m], ref[m])
BY DEF Shelf, SortedBook, IsBook, IsSide, Falls, Rises

LEMMA FeedAgrees == FeedInv => FeedTypeOK /\ BookAgrees
<1> SUFFICES ASSUME FeedInv PROVE FeedTypeOK /\ BookAgrees
  OBVIOUS
<1>1. FeedTypeOK
  <2>1. exchange \in [Markets -> [bids : SUBSET Level, asks : SUBSET Level]]
    <3>1. There \subseteq [bids : SUBSET Level, asks : SUBSET Level]
      BY DEF There, Held, LevelSets
    <3> QED
      BY <3>1 DEF FeedInv, MarketsInv
  <2> QED
    BY <2>1 DEF FeedTypeOK, FeedInv, MarketsInv, WireInv, OrderInv, Once, Shelf, SortedBook
<1>2. IsInjective(accessOrder) /\ Range(accessOrder) = DOMAIN books
  BY DEF FeedInv, OrderInv, Once, Range, ToSet
<1>3. Cardinality(DOMAIN books) <= MaxBooks
  <2>1. PICK n \in Nat : n = Len(accessOrder) /\ DOMAIN accessOrder = 1..n /\ n <= MaxBooks
    BY DEF FeedInv, OrderInv, Once
  <2>2. accessOrder \in Surjection(1..n, DOMAIN books)
    BY <2>1 DEF FeedInv, OrderInv, Once, ToSet, Surjection
  <2>3. IsFiniteSet(1..n) /\ Cardinality(1..n) = n
    BY FS_Interval
  <2>4. IsFiniteSet(DOMAIN books) /\ Cardinality(DOMAIN books) <= n
    BY <2>2, <2>3, FS_Surjection
  <2>5. Cardinality(DOMAIN books) \in Nat
    BY <2>4, FS_CardinalityType
  <2> QED
    BY <2>1, <2>4, <2>5, FeedAssumption
<1> QED
  BY <1>1, <1>2, <1>3, ShelfAgrees DEF BookAgrees, FeedInv

\* A book that began with a whole one and lost no update is the exchange's, sorted, in the feed and
\* in the manager, and the feed keeps no more books than it may (websocket/market-feed.ts,
\* websocket/multi-market.ts), however connections break, markets come and go and books are read.
THEOREM BooksOfFeed == FeedSpec => [](FeedTypeOK /\ BookAgrees)
  BY FeedStarts, FeedStep, FeedAgrees, PTL DEF FeedSpec

-----------------------------------------------------------------------------
(* Larger orders: what filling them costs, level by level.                   *)

\* A number times another grows with it.
LEMMA ProductGrows ==
  ASSUME NEW n \in Nat, NEW x \in Int, NEW y \in Int, x <= y
  PROVE  n * x <= n * y /\ n * x \in Int /\ n * y \in Int
<1>1. PICK d \in Nat : y = x + d
  <2>1. y - x \in Nat /\ y = x + (y - x)
    OBVIOUS
  <2> QED
    BY <2>1
<1>2. n * y = n * x + n * d /\ n * d \in Nat /\ n * x \in Int
  BY <1>1
<1> QED
  BY <1>2

\* An order of a size filled at prices p from what the levels hold, and what its fills cost.
FillsUp(n, q, p, rest, cost, size) ==
  /\ rest \in [0..n -> Nat] /\ cost \in [0..n -> Int]
  /\ rest[0] = size /\ cost[0] = 0
  /\ \A i \in 1..n : /\ rest[i] = rest[i - 1] - Lower(rest[i - 1], q[i])
                     /\ cost[i] = cost[i - 1] + Lower(rest[i - 1], q[i]) * p[i]

\* After a level: the cost lies between what its fills are worth at the first price and at the
\* next one; until the smaller order is filled both have the same cost.
BothFill(n, p, less, more, a, x, b, y, i) ==
  /\ \A j \in (i + 1)..n : x[i] <= p[j] * (less - a[i])
  /\ n > 0 => p[1] * (less - a[i]) <= x[i]
  /\ a[i] <= less
  /\ a[i] > 0 => b[i] = a[i] + (more - less) /\ y[i] = x[i]
  /\ a[i] = 0 => x[i] * (more - b[i]) <= y[i] * less

\* What a level changes: r and s are left of the orders before it, r1 and s1 after it.
FillsBoth(less, more, q, p, r, x, s, y, r1, x1, s1, y1) ==
  /\ r1 = r - Lower(r, q) /\ x1 = x + Lower(r, q) * p
  /\ s1 = s - Lower(s, q) /\ y1 = y + Lower(s, q) * p
  /\ r <= less /\ x <= p * (less - r)
  /\ r > 0 => s = r + (more - less) /\ y = x
  /\ r = 0 => x * (more - s) <= y * less

LEMMA OneLevelMore ==
  ASSUME NEW less \in Nat, NEW more \in Nat, less < more,
         NEW r \in Nat, NEW x \in Int, NEW s \in Nat, NEW y \in Int, NEW q \in Nat, NEW p \in Int,
         NEW r1 \in Nat, NEW x1 \in Int, NEW s1 \in Nat, NEW y1 \in Int,
         FillsBoth(less, more, q, p, r, x, s, y, r1, x1, s1, y1)
  PROVE  /\ r1 > 0 => s1 = r1 + (more - less) /\ y1 = x1
         /\ r1 = 0 => x1 * (more - s1) <= y1 * less
<1>0. /\ r1 = r - Lower(r, q) /\ x1 = x + Lower(r, q) * p
      /\ s1 = s - Lower(s, q) /\ y1 = y + Lower(s, q) * p
      /\ r <= less /\ x <= p * (less - r)
      /\ r > 0 => s = r + (more - less) /\ y = x
      /\ r = 0 => x * (more - s) <= y * less
  BY DEF FillsBoth
<1>1. CASE r > 0 /\ r1 > 0
  <2>1. Lower(r, q) = q /\ Lower(s, q) = q
    BY <1>0, <1>1 DEF Lower
  <2> QED
    BY <1>0, <1>1, <2>1
<1>2. CASE r > 0 /\ r1 = 0
  <2>1. Lower(r, q) = r /\ r <= q
    BY <1>0, <1>2 DEF Lower
  <2>2. PICK e \in Nat : Lower(s, q) = r + e
    <3>1. Lower(s, q) - r \in Nat /\ Lower(s, q) = r + (Lower(s, q) - r)
      BY <1>0, <1>2, <2>1 DEF Lower
    <3> QED
      BY <3>1
  <2>3. more - s1 = less + e
    BY <1>0, <1>2, <2>2
  <2>4. PICK w \in Int : w = p * less
    OBVIOUS
  <2>5. x1 <= w
    <3>1. p * (less - r) = w - r * p /\ r * p \in Int
      BY <2>4
    <3> QED
      BY <1>0, <1>2, <2>1, <3>1
  <2>6. x1 * (less + e) = x1 * less + e * x1 /\ x1 * less \in Int /\ e * x1 \in Int
    OBVIOUS
  <2>7. y1 = x1 + e * p
    <3>1. (r + e) * p = r * p + e * p /\ r * p \in Int /\ e * p \in Int
      OBVIOUS
    <3> QED
      BY <1>0, <1>2, <2>1, <2>2, <3>1
  <2>8. y1 * less = x1 * less + e * w /\ e * w \in Int
    <3>1. PICK m \in Int : m = e * p
      OBVIOUS
    <3>2. (x1 + m) * less = x1 * less + m * less
      OBVIOUS
    <3>3. m * less = e * w
      BY <2>4, <3>1
    <3>4. y1 = x1 + m
      BY <2>7, <3>1
    <3> QED
      BY <3>2, <3>3, <3>4
  <2>9. e * x1 <= e * w
    BY <2>5, ProductGrows
  <2>10. x1 * (more - s1) = x1 * less + e * x1
    BY <2>3, <2>6
  <2>11. x1 * (more - s1) <= y1 * less
    BY <2>6, <2>8, <2>9, <2>10
  <2> QED
    BY <1>0, <1>2, <2>11
<1>3. CASE r = 0
  <2>1. Lower(r, q) = 0 /\ r1 = 0
    <3>1. Lower(r, q) = 0
      BY <1>0, <1>3 DEF Lower
    <3> QED
      BY <1>0, <1>3, <3>1
  <2>2. x1 = x
    BY <1>0, <2>1
  <2>3. PICK f \in Nat : f = Lower(s, q)
    BY DEF Lower
  <2>4. PICK w \in Int : w = p * less
    OBVIOUS
  <2>5. x <= w
    BY <1>0, <1>3, <2>4
  <2>6. f * x <= f * w /\ f * x \in Int /\ f * w \in Int
    BY <2>5, ProductGrows
  <2>7. more - s1 = (more - s) + f
    BY <1>0, <2>3
  <2>8. x * ((more - s) + f) = x * (more - s) + f * x /\ x * (more - s) \in Int
    OBVIOUS
  <2>9. y1 * less = y * less + f * w /\ y * less \in Int
    <3>1. PICK m \in Int : m = f * p
      OBVIOUS
    <3>2. (y + m) * less = y * less + m * less
      OBVIOUS
    <3>3. m * less = f * w
      BY <2>4, <3>1
    <3>4. y1 = y + m
      BY <1>0, <2>3, <3>1
    <3> QED
      BY <3>2, <3>3, <3>4
  <2>10. x1 * (more - s1) = x * (more - s) + f * x
    BY <2>2, <2>7, <2>8
  <2>11. x * (more - s) <= y * less
    BY <1>0, <1>3
  <2>12. x1 * (more - s1) <= y1 * less
    BY <2>6, <2>8, <2>9, <2>10, <2>11
  <2> QED
    BY <2>1, <2>12
<1> QED
  BY <1>1, <1>2, <1>3

\* Of prices that rise a larger order pays no less on average, and no order less than the first.
LEMMA LargerPaysMore ==
  ASSUME NEW n \in Nat, NEW q \in [1..n -> Nat], NEW p \in [1..n -> Int],
         \A i, j \in 1..n : i < j => p[i] <= p[j],
         NEW less \in Nat \ {0}, NEW more \in Nat, less < more,
         NEW a, NEW x, FillsUp(n, q, p, a, x, less),
         NEW b, NEW y, FillsUp(n, q, p, b, y, more),
         b[n] = 0
  PROVE  n > 0 /\ a[n] = 0 /\ x[n] * more <= y[n] * less /\ p[1] * less <= x[n]
<1> DEFINE B(i) == BothFill(n, p, less, more, a, x, b, y, i)
           I == {i \in Nat : i <= n => B(i)}
<1>1. 0 \in I
  <2>1. a[0] = less /\ x[0] = 0 /\ b[0] = more /\ y[0] = 0
    BY DEF FillsUp
  <2>2. \A j \in 1..n : x[0] <= p[j] * (less - a[0])
    BY <2>1
  <2>3. n > 0 => p[1] * (less - a[0]) <= x[0]
    BY <2>1
  <2>4. B(0)
    BY <2>1, <2>2, <2>3 DEF BothFill
  <2> QED
    BY <2>4
<1>2. ASSUME NEW i \in Nat, i \in I PROVE i + 1 \in I
  <2> SUFFICES ASSUME i + 1 <= n PROVE B(i + 1)
    OBVIOUS
  <2>1. i \in 0..n /\ B(i)
    BY <1>2
  <2>2. PICK k \in 1..n : k = i + 1 /\ k - 1 = i
    OBVIOUS
  <2>3. PICK r \in Nat : r = a[i]
    BY <2>1 DEF FillsUp
  <2>4. PICK u \in Int : u = x[i]
    BY <2>1 DEF FillsUp
  <2>5. PICK s \in Nat : s = b[i]
    BY <2>1 DEF FillsUp
  <2>6. PICK v \in Int : v = y[i]
    BY <2>1 DEF FillsUp
  <2>7. PICK r1 \in Nat : r1 = a[k]
    BY DEF FillsUp
  <2>8. PICK u1 \in Int : u1 = x[k]
    BY DEF FillsUp
  <2>9. PICK s1 \in Nat : s1 = b[k]
    BY DEF FillsUp
  <2>10. PICK v1 \in Int : v1 = y[k]
    BY DEF FillsUp
  <2>11. PICK h \in Nat : h = q[k]
    OBVIOUS
  <2>12. PICK c \in Int : c = p[k]
    OBVIOUS
  <2>13. /\ r1 = r - Lower(r, h) /\ u1 = u + Lower(r, h) * c
         /\ s1 = s - Lower(s, h) /\ v1 = v + Lower(s, h) * c
    BY <2>2, <2>3, <2>4, <2>5, <2>6, <2>7, <2>8, <2>9, <2>10, <2>11, <2>12 DEF FillsUp
  <2>14. /\ \A j \in k..n : u <= p[j] * (less - r)
         /\ p[1] * (less - r) <= u
    BY <2>1, <2>2, <2>3, <2>4 DEF BothFill
  <2>15. u <= c * (less - r)
    BY <2>12, <2>14
  <2>16. PICK f \in Nat : f = Lower(r, h) /\ f <= r
    BY DEF Lower
  <2>17. r1 = r - f /\ u1 = u + f * c
    BY <2>13, <2>16
  <2>18. r <= less
    BY <2>1, <2>3 DEF BothFill
  <2>19. less - r1 = (less - r) + f /\ less - r \in Nat /\ r1 <= less
    BY <2>16, <2>17, <2>18
  <2>20. r > 0 => s = r + (more - less) /\ v = u
    BY <2>1, <2>3, <2>4, <2>5, <2>6 DEF BothFill
  <2>21. r = 0 => u * (more - s) <= v * less
    BY <2>1, <2>3, <2>4, <2>5, <2>6 DEF BothFill
  <2>22. \A j \in (k + 1)..n : u1 <= p[j] * (less - r1)
    <3> SUFFICES ASSUME NEW j \in (k + 1)..n PROVE u1 <= p[j] * (less - r1)
      OBVIOUS
    <3>0. p[k] <= p[j] /\ j \in k..n /\ j \in 1..n
      OBVIOUS
    <3>1. PICK d \in Int : d = p[j] /\ c <= d /\ u <= d * (less - r)
      <4>1. u <= p[j] * (less - r) /\ p[j] \in Int
        BY <2>14, <3>0
      <4> QED
        BY <2>12, <3>0, <4>1
    <3>2. f * c <= f * d /\ f * c \in Int /\ f * d \in Int
      BY <3>1, ProductGrows
    <3>3. d * ((less - r) + f) = d * (less - r) + f * d /\ d * (less - r) \in Int
      OBVIOUS
    <3>4. d * (less - r1) = d * (less - r) + f * d
      BY <2>19, <3>3
    <3>5. u1 <= d * (less - r1)
      BY <2>17, <3>1, <3>2, <3>3, <3>4
    <3> QED
      BY <3>1, <3>5
  <2>23. p[1] * (less - r1) <= u1
    <3>1. PICK d \in Int : d = p[1] /\ d <= c
      <4>1. 1 = k \/ p[1] <= p[k]
        OBVIOUS
      <4> QED
        BY <2>12, <4>1
    <3>2. f * d <= f * c /\ f * c \in Int /\ f * d \in Int
      BY <3>1, ProductGrows
    <3>3. d * ((less - r) + f) = d * (less - r) + f * d /\ d * (less - r) \in Int
      OBVIOUS
    <3>4. d * (less - r1) = d * (less - r) + f * d
      BY <2>19, <3>3
    <3>5. d * (less - r) <= u
      BY <2>14, <3>1
    <3>6. d * (less - r1) <= u1
      BY <2>17, <3>2, <3>3, <3>4, <3>5
    <3> QED
      BY <3>1, <3>6
  <2>24. /\ r1 > 0 => s1 = r1 + (more - less) /\ v1 = u1
         /\ r1 = 0 => u1 * (more - s1) <= v1 * less
    <3>1. FillsBoth(less, more, h, c, r, u, s, v, r1, u1, s1, v1)
      BY <2>13, <2>15, <2>18, <2>20, <2>21, Zenon DEF FillsBoth
    <3>2. less \in Nat
      OBVIOUS
    <3> QED
      BY <3>1, <3>2, OneLevelMore, Zenon
  <2>25. B(k)
    BY <2>7, <2>8, <2>9, <2>10, <2>22, <2>23, <2>24, <2>19 DEF BothFill
  <2> QED
    BY <2>2, <2>25
<1>3. B(n)
  <2>1. \A i \in Nat : i \in I
    <3> HIDE DEF I
    <3> QED
      BY <1>1, <1>2, AllNumbers
  <2> QED
    BY <2>1
<1>4. PICK r \in Nat : r = a[n]
  BY DEF FillsUp
<1>5. a[n] = 0
  <2>1. a[n] > 0 => b[n] = a[n] + (more - less)
    BY <1>3 DEF BothFill
  <2> QED
    BY <1>4, <2>1
<1>6. n > 0
  BY <1>5 DEF FillsUp
<1>7. PICK u \in Int : u = x[n]
  BY DEF FillsUp
<1>8. PICK v \in Int : v = y[n]
  BY DEF FillsUp
<1>9. u * (more - 0) <= v * less /\ p[1] * (less - 0) <= u
  BY <1>3, <1>5, <1>6, <1>7, <1>8 DEF BothFill
<1> QED
  BY <1>5, <1>6, <1>7, <1>8, <1>9

\* What is left of an order while its levels are walked, and what the fills have cost.
Accs == [remaining : Nat, cost : Int]

LEMMA LevelFilled ==
  ASSUME NEW acc \in Accs, NEW l \in Level
  PROVE  /\ FillLevel(acc, l) \in Accs
         /\ FillLevel(acc, l).remaining = acc.remaining - Lower(acc.remaining, l.size)
         /\ FillLevel(acc, l).cost = acc.cost + Lower(acc.remaining, l.size) * l.price
<1>1. PICK r \in Nat : r = acc.remaining
  BY DEF Accs
<1>2. PICK q \in Nat : q = l.size
  BY DEF Level
<1>3. PICK p \in Nat : p = l.price
  BY DEF Level
<1>4. PICK c \in Int : c = acc.cost
  BY DEF Accs
<1>5. Min({r, q}) = Lower(r, q)
  <2>1. {r, q} \in SUBSET Nat /\ {r, q} # {}
    OBVIOUS
  <2>2. Min({r, q}) \in {r, q} /\ \A y \in {r, q} : Min({r, q}) <= y
    BY <2>1, SmallestIsMember
  <2> QED
    BY <2>2 DEF Lower
<1>6. PICK f \in Nat : f = Lower(r, q) /\ f <= r
  BY DEF Lower
<1>7. FillLevel(acc, l) = [remaining |-> r - f, cost |-> c + f * p]
  BY <1>1, <1>2, <1>3, <1>4, <1>5, <1>6 DEF FillLevel
<1>8. r - f \in Nat /\ c + f * p \in Int
  <2>1. f * p \in Int
    OBVIOUS
  <2> QED
    BY <1>6, <2>1
<1> QED
  BY <1>1, <1>2, <1>3, <1>4, <1>6, <1>7, <1>8 DEF Accs

LEMMA WalkChain ==
  ASSUME NEW size \in Nat, NEW u \in Seq(Level)
  PROVE  \E chain \in [0..Len(u) -> Accs] :
           /\ chain[0] = [remaining |-> size, cost |-> 0] /\ chain[Len(u)] = Walked(size, u)
           /\ \A i \in 1..Len(u) : chain[i] = FillLevel(chain[i - 1], u[i])
<1> DEFINE n == Len(u)
           X == [remaining |-> size, cost |-> 0]
           Step(s, h) == IF s = {} THEN X ELSE FillLevel(h[s \ {Max(s)}], u[Max(s)])
           Walks(h) == h = [s \in SUBSET (1..n) |-> Step(s, h)]
           iter == CHOOSE h : Walks(h)
           g == [x \in (1..n) \X Accs |-> FillLevel(x[2], u[x[1]])]
<1>1. n \in Nat /\ DOMAIN u = 1..n /\ (\A i \in 1..n : u[i] \in Level) /\ X \in Accs
  BY ElementOfSeq DEF Accs
<1>2. Walked(size, u) = iter[1..n]
  BY <1>1 DEF Walked, FoldLeft, MapThenFoldSet
<1> HIDE DEF X
<1>3. g \in [(1..n) \X Accs -> Accs]
  <2>1. \A x \in (1..n) \X Accs : FillLevel(x[2], u[x[1]]) \in Accs
    BY <1>1, LevelFilled
  <2> QED
    BY <2>1
<1>4. \E h \in [SUBSET (1..n) -> Accs] : Walks(h)
  <2>1. PICK h \in [SUBSET (1..n) -> Accs] : Folded(h, X, g, n)
    <3> HIDE DEF g
    <3> QED
      BY <1>1, <1>3, FoldsExist
  <2>2. ASSUME NEW s \in SUBSET (1..n) PROVE h[s] = Step(s, h)
    <3>1. CASE s = {}
      BY <2>1, <3>1 DEF Folded
    <3>2. CASE s # {}
      <4>1. Max(s) \in 1..n
        <5>1. s \in SUBSET (0..n)
          OBVIOUS
        <5>2. Max(s) \in s
          BY <1>1, <3>2, <5>1, GreatestIsMember
        <5> QED
          BY <5>2
      <4>2. h[s] = g[<<Max(s), h[s \ {Max(s)}]>>]
        BY <2>1, <3>2 DEF Folded
      <4>3. h[s \ {Max(s)}] \in Accs
        BY <2>1
      <4> QED
        BY <3>2, <4>1, <4>2, <4>3
    <3> QED
      BY <3>1, <3>2
  <2>3. h = [s \in SUBSET (1..n) |-> Step(s, h)]
    BY <2>1, <2>2, Zenon
  <2> QED
    BY <2>3
<1>5. Walks(iter)
  BY <1>4, Zenon
<1> DEFINE chain == [i \in 0..n |-> iter[1..i]]
<1> HIDE DEF iter
<1>6. chain[0] = X /\ iter[1..0] = X
  <2>1. {} \in SUBSET (1..n) /\ 1..0 = {} /\ 0 \in 0..n
    BY <1>1
  <2>2. iter[{}] = Step({}, iter)
    BY <1>5, <2>1
  <2> QED
    BY <2>1, <2>2
<1>7. ASSUME NEW i \in 1..n PROVE iter[1..i] = FillLevel(iter[1..(i - 1)], u[i])
  <2>1. /\ 1..i \in SUBSET (1..n) /\ 1..i # {} /\ Max(1..i) = i /\ (1..i) \ {i} = 1..(i - 1)
    BY <1>1, FoldSteps
  <2>2. iter[1..i] = Step(1..i, iter)
    BY <1>5, <2>1
  <2> QED
    BY <2>1, <2>2
<1>8. ASSUME NEW i \in 1..n PROVE chain[i] = FillLevel(chain[i - 1], u[i])
  <2>1. i \in 0..n /\ i - 1 \in 0..n
    BY <1>1
  <2> QED
    BY <1>7, <2>1
<1>9. chain \in [0..n -> Accs]
  <2> DEFINE I == {i \in Nat : i <= n => iter[1..i] \in Accs}
  <2>1. 0 \in I
    BY <1>1, <1>6
  <2>2. ASSUME NEW i \in Nat, i \in I PROVE i + 1 \in I
    <3> SUFFICES ASSUME i + 1 <= n PROVE iter[1..(i + 1)] \in Accs
      OBVIOUS
    <3>1. PICK k \in 1..n : k = i + 1 /\ k - 1 = i
      BY <1>1
    <3>2. iter[1..i] \in Accs
      BY <1>1, <2>2
    <3>3. iter[1..k] = FillLevel(iter[1..i], u[k])
      BY <1>7, <3>1
    <3> QED
      BY <1>1, <3>1, <3>2, <3>3, LevelFilled
  <2>3. \A i \in Nat : i \in I
    <3> HIDE DEF I
    <3> QED
      BY <2>1, <2>2, AllNumbers
  <2> QED
    BY <1>1, <2>3
<1>10. chain[n] = Walked(size, u)
  BY <1>1, <1>2
<1> HIDE DEF chain
<1> QED
  BY <1>6, <1>8, <1>9, <1>10 DEF X

LEMMA WalkTyped ==
  ASSUME NEW size \in Nat, NEW u \in Seq(Level)
  PROVE  Walked(size, u) \in Accs
<1>1. PICK n \in Nat : n = Len(u)
  OBVIOUS
<1>2. PICK chain \in [0..n -> Accs] : chain[n] = Walked(size, u)
  BY <1>1, WalkChain
<1> QED
  BY <1>1, <1>2

\* Sizes and prices of levels, the prices with a sign.
SidesAre(u, n, sign, q, p) ==
  /\ n = Len(u)
  /\ \A i \in 1..n : q[i] = u[i].size /\ p[i] = sign * u[i].price

\* Such a walk fills an order at the prices of the levels, or at those of the other sign.
LEMMA WalkFillsUp ==
  ASSUME NEW size \in Nat, NEW u \in Seq(Level), NEW n \in Nat, NEW sign \in Int,
         NEW q, NEW p, SidesAre(u, n, sign, q, p)
  PROVE  \E a, x : /\ FillsUp(n, q, p, a, x, size)
                   /\ a[n] = Walked(size, u).remaining /\ x[n] = sign * Walked(size, u).cost
<1>0. n = Len(u) /\ \A i \in 1..n : q[i] = u[i].size /\ p[i] = sign * u[i].price
  BY DEF SidesAre
<1>1. PICK chain \in [0..n -> Accs] :
        /\ chain[0] = [remaining |-> size, cost |-> 0] /\ chain[n] = Walked(size, u)
        /\ \A i \in 1..n : chain[i] = FillLevel(chain[i - 1], u[i])
  BY <1>0, WalkChain
<1>2. PICK a : a = [i \in 0..n |-> chain[i].remaining]
  OBVIOUS
<1>3. PICK x : x = [i \in 0..n |-> sign * chain[i].cost]
  OBVIOUS
<1>4. \A i \in 0..n : chain[i].remaining \in Nat /\ chain[i].cost \in Int
  BY <1>1 DEF Accs
<1>5. a \in [0..n -> Nat] /\ x \in [0..n -> Int]
  <2>1. \A i \in 0..n : sign * chain[i].cost \in Int
    BY <1>4
  <2> QED
    BY <1>2, <1>3, <1>4, <2>1
<1>6. 0 \in 0..n /\ n \in 0..n
  OBVIOUS
<1>7. a[0] = size /\ x[0] = 0
  <2>1. chain[0].remaining = size /\ chain[0].cost = 0
    BY <1>1
  <2> QED
    BY <1>2, <1>3, <1>6, <2>1
<1>8. ASSUME NEW i \in 1..n
      PROVE  /\ a[i] = a[i - 1] - Lower(a[i - 1], q[i])
             /\ x[i] = x[i - 1] + Lower(a[i - 1], q[i]) * p[i]
  <2>1. i \in 0..n /\ i - 1 \in 0..n
    OBVIOUS
  <2>2. PICK acc \in Accs : acc = chain[i - 1]
    BY <1>1, <2>1
  <2>3. PICK l \in Level : l = u[i]
    BY <1>0, ElementOfSeq
  <2>4. chain[i] = FillLevel(acc, l)
    BY <1>1, <2>2, <2>3
  <2>5. PICK f \in Nat : f = Lower(acc.remaining, l.size)
    BY DEF Accs, Level, Lower
  <2>6. PICK c \in Int : c = acc.cost
    BY DEF Accs
  <2>7. PICK m \in Int : m = l.price
    BY DEF Level
  <2>8. chain[i].remaining = acc.remaining - f /\ chain[i].cost = c + f * m
    BY <2>4, <2>5, <2>6, <2>7, LevelFilled
  <2>9. a[i - 1] = acc.remaining /\ q[i] = l.size
    BY <1>0, <1>2, <2>1, <2>2, <2>3
  <2>10. a[i] = a[i - 1] - Lower(a[i - 1], q[i])
    BY <1>2, <2>1, <2>5, <2>8, <2>9
  <2>11. x[i] = sign * (c + f * m) /\ x[i - 1] = sign * c /\ p[i] = sign * m
    BY <1>0, <1>3, <2>1, <2>2, <2>3, <2>6, <2>7, <2>8
  <2>12. sign * (c + f * m) = sign * c + f * (sign * m)
    OBVIOUS
  <2> QED
    BY <2>5, <2>9, <2>10, <2>11, <2>12
<1>9. FillsUp(n, q, p, a, x, size)
  BY <1>5, <1>7, <1>8 DEF FillsUp
<1>10. a[n] = Walked(size, u).remaining /\ x[n] = sign * Walked(size, u).cost
  BY <1>1, <1>2, <1>3, <1>6
<1> QED
  BY <1>9, <1>10

\* Of levels whose prices rise, or fall when the sign is -1, a larger order takes no better ones.
LEMMA WalksCompare ==
  ASSUME NEW u \in Seq(Level), NEW sign \in Int,
         \A i, j \in DOMAIN u : i < j => sign * u[i].price <= sign * u[j].price,
         NEW less \in Nat \ {0}, NEW more \in Nat, less < more, Walked(more, u).remaining = 0
  PROVE  /\ Walked(less, u) \in Accs /\ Walked(more, u) \in Accs
         /\ u # <<>> /\ Walked(less, u).remaining = 0
         /\ (sign * Walked(less, u).cost) * more <= (sign * Walked(more, u).cost) * less
         /\ (sign * u[1].price) * less <= sign * Walked(less, u).cost
<1>1. PICK n \in Nat : n = Len(u) /\ DOMAIN u = 1..n
  OBVIOUS
<1>2. PICK q : q = [i \in 1..n |-> u[i].size]
  OBVIOUS
<1>3. PICK p : p = [i \in 1..n |-> sign * u[i].price]
  OBVIOUS
<1>4. \A i \in 1..n : u[i].size \in Nat /\ sign * u[i].price \in Int
  <2>1. \A i \in 1..n : u[i] \in Level
    BY <1>1, ElementOfSeq
  <2>2. \A i \in 1..n : u[i].size \in Nat /\ u[i].price \in Nat
    BY <2>1 DEF Level
  <2> QED
    BY <2>2
<1>5. q \in [1..n -> Nat] /\ p \in [1..n -> Int] /\ \A i, j \in 1..n : i < j => p[i] <= p[j]
  BY <1>1, <1>2, <1>3, <1>4
<1>11. SidesAre(u, n, sign, q, p)
  BY <1>1, <1>2, <1>3 DEF SidesAre
<1>6. /\ less \in Nat /\ more \in Nat
      /\ Walked(less, u) \in Accs /\ Walked(more, u) \in Accs
  BY WalkTyped
<1>7. PICK a, x : /\ FillsUp(n, q, p, a, x, less)
                  /\ a[n] = Walked(less, u).remaining /\ x[n] = sign * Walked(less, u).cost
  BY <1>6, <1>11, WalkFillsUp
<1>8. PICK b, y : /\ FillsUp(n, q, p, b, y, more)
                  /\ b[n] = Walked(more, u).remaining /\ y[n] = sign * Walked(more, u).cost
  BY <1>6, <1>11, WalkFillsUp
<1>9. n > 0 /\ a[n] = 0 /\ x[n] * more <= y[n] * less /\ p[1] * less <= x[n]
  <2>1. b[n] = 0
    BY <1>8
  <2> QED
    BY <1>5, <1>7, <1>8, <2>1, LargerPaysMore
<1>10. u # <<>> /\ p[1] = sign * u[1].price
  BY <1>1, <1>3, <1>9
<1> QED
  BY <1>6, <1>7, <1>8, <1>9, <1>10

\* A larger order takes no better price on average, and none better than the best level's
\* (effectivePrice, market/orderbook.ts), in any sorted book.
THEOREM LargerOrdersCostMore ==
  ASSUME NEW b, SortedBook(b), NEW less \in Nat, NEW more \in Nat, NEW side \in {"buy", "sell"}
  PROVE  CostGrows(b, less, more, side)
<1> SUFFICES ASSUME 0 < less, less < more, effectiveCost(b, more, side) # Absent
             PROVE  LET one == effectiveCost(b, less, side)  other == effectiveCost(b, more, side) IN
                    /\ one # Absent
                    /\ IF side = "buy" THEN one * more <= other * less /\ bookAsk(b) * less <= one
                       ELSE other * less <= one * more /\ one <= bookBid(b) * less
  BY DEF CostGrows
<1>1. ASSUME NEW u \in Seq(Level), NEW sign \in {1, -1}, u = IF side = "buy" THEN b.asks ELSE b.bids,
             \A i, j \in DOMAIN u : i < j => sign * u[i].price <= sign * u[j].price
      PROVE  \E one, other \in Int :
               /\ one = effectiveCost(b, less, side) /\ other = effectiveCost(b, more, side) /\ u # <<>>
               /\ (sign * one) * more <= (sign * other) * less
               /\ (sign * u[1].price) * less <= sign * one
  <2>1. \A size \in Nat : effectiveCost(b, size, side) =
          IF size = 0 \/ Walked(size, u).remaining > 0 THEN Absent ELSE Walked(size, u).cost
    BY <1>1 DEF effectiveCost
  <2>2. less \in Nat \ {0} /\ more # 0 /\ sign \in Int
    OBVIOUS
  <2>3. PICK n \in Nat : n = Walked(more, u).remaining
    BY WalkTyped DEF Accs
  <2>4. Walked(more, u).remaining = 0
    BY <2>1, <2>3
  <2>5. /\ Walked(less, u) \in Accs /\ Walked(more, u) \in Accs
        /\ u # <<>> /\ Walked(less, u).remaining = 0
        /\ (sign * Walked(less, u).cost) * more <= (sign * Walked(more, u).cost) * less
        /\ (sign * u[1].price) * less <= sign * Walked(less, u).cost
    BY <1>1, <2>2, <2>4, WalksCompare
  <2>6. PICK one \in Int : one = Walked(less, u).cost
    BY <2>5 DEF Accs
  <2>7. PICK other \in Int : other = Walked(more, u).cost
    BY <2>5 DEF Accs
  <2>8. one = effectiveCost(b, less, side) /\ other = effectiveCost(b, more, side)
    BY <2>1, <2>2, <2>4, <2>5, <2>6, <2>7
  <2> QED
    BY <2>5, <2>6, <2>7, <2>8
<1>2. CASE side = "buy"
  <2>1. PICK u \in Seq(Level) : u = b.asks /\ Rises(u)
    BY DEF SortedBook, Book
  <2>2. \A i \in DOMAIN u : u[i].price \in Nat
    <3>1. \A i \in DOMAIN u : u[i] \in Level
      BY ElementOfSeq
    <3> QED
      BY <3>1 DEF Level
  <2>3. \A i, j \in DOMAIN u : i < j => 1 * u[i].price <= 1 * u[j].price
    BY <2>1, <2>2 DEF Rises, Ascending
  <2>4. PICK one, other \in Int :
          /\ one = effectiveCost(b, less, side) /\ other = effectiveCost(b, more, side) /\ u # <<>>
          /\ (1 * one) * more <= (1 * other) * less
          /\ (1 * u[1].price) * less <= 1 * one
    BY <1>1, <1>2, <2>1, <2>3
  <2>5. PICK p \in Nat : p = u[1].price /\ bookAsk(b) = p
    BY <2>1, <2>2, <2>4 DEF bookAsk
  <2>6. 1 * one = one /\ 1 * other = other /\ 1 * p = p
    OBVIOUS
  <2> QED
    BY <1>2, <2>4, <2>5, <2>6, AbsentAssumption
<1>3. CASE side = "sell"
  <2>1. PICK u \in Seq(Level) : u = b.bids /\ Falls(u)
    BY DEF SortedBook, Book
  <2>2. \A i \in DOMAIN u : u[i].price \in Nat
    <3>1. \A i \in DOMAIN u : u[i] \in Level
      BY ElementOfSeq
    <3> QED
      BY <3>1 DEF Level
  <2>3. \A i, j \in DOMAIN u : i < j => (-1) * u[i].price <= (-1) * u[j].price
    BY <2>1, <2>2 DEF Falls, Descending
  <2>4. PICK one, other \in Int :
          /\ one = effectiveCost(b, less, side) /\ other = effectiveCost(b, more, side) /\ u # <<>>
          /\ ((-1) * one) * more <= ((-1) * other) * less
          /\ ((-1) * u[1].price) * less <= (-1) * one
    BY <1>1, <1>3, <2>1, <2>3
  <2>5. PICK p \in Nat : p = u[1].price /\ bookBid(b) = p
    BY <2>1, <2>2, <2>4 DEF bookBid
  <2>6. PICK A \in Int : A = one * more /\ ((-1) * one) * more = -A
    OBVIOUS
  <2>7. PICK B \in Int : B = other * less /\ ((-1) * other) * less = -B
    OBVIOUS
  <2>8. PICK C \in Int : C = p * less /\ ((-1) * p) * less = -C
    OBVIOUS
  <2>9. -A <= -B /\ -C <= -one
    <3>1. ((-1) * p) * less <= (-1) * one
      BY <2>4, <2>5
    <3>2. (-1) * one = -one
      OBVIOUS
    <3>3. -C <= -one
      BY <2>8, <3>1, <3>2
    <3>4. -A <= -B
      BY <2>4, <2>6, <2>7
    <3> QED
      BY <3>3, <3>4
  <2>10. B <= A /\ one <= C
    BY ONLY <2>9, A \in Int, B \in Int, C \in Int, one \in Int
  <2> QED
    BY <1>3, <2>4, <2>5, <2>6, <2>7, <2>8, <2>10, AbsentAssumption
<1> QED
  BY <1>2, <1>3

LEMMA FeedCosts == FeedInv => CostsGrow
<1> SUFFICES ASSUME FeedInv, NEW book \in Range(books) \cup Range(multiBooks),
                    NEW less \in 1..3, NEW more \in 2..4, NEW side \in {"buy", "sell"}
             PROVE  CostGrows(book, less, more, side)
  BY DEF CostsGrow
<1>1. SortedBook(book)
  BY DEF FeedInv, Shelf, Range
<1>2. less \in Nat /\ more \in Nat
  OBVIOUS
<1> QED
  BY <1>1, <1>2, LargerOrdersCostMore

-----------------------------------------------------------------------------
(* The services together.                                                   *)

\* A behaviour of MCServices is one of each service.
LEMMA EachAsSpecified == Spec => ArbSpec /\ CacheSpec /\ FeedSpec /\ EventSpec
<1>1. Init => ArbInit /\ CacheInit /\ FeedInit /\ EventInit
  BY DEF Init
<1>2. [Next]_<<focus, arbVars, cacheVars, feedVars, eventVars>> =>
        [ArbNext]_arbVars /\ [CacheNext]_cacheVars /\ [FeedNext]_feedVars /\ [EventNext]_eventVars
  BY DEF Next
<1> QED
  BY <1>1, <1>2, PTL DEF Spec, ArbSpec, CacheSpec, FeedSpec, EventSpec

\* DeliveredOnce, of the services explored together (events/event-dispatcher.ts).
THEOREM EachEmissionDelivered == Spec => DeliveredOnce
  BY EventsDelivered, EachAsSpecified

\* LegsAccounted, of the services explored together (market/arbitrage-executor.ts).
THEOREM LegsAlwaysAccounted == Spec => []LegsAccounted
  BY LegsOfArbitrage, EachAsSpecified

\* BooksAgree, of the services explored together (websocket/market-feed.ts, market/orderbook.ts).
THEOREM BooksAlwaysAgree == Spec => []BooksAgree
<1>1. FeedSpec => []FeedInv
  BY FeedStarts, FeedStep, PTL DEF FeedSpec
<1>2. FeedSpec => []CostsGrow
  BY <1>1, FeedCosts, PTL
<1> QED
  BY <1>2, BooksOfFeed, EventsTyped, EachAsSpecified, PTL DEF BooksAgree
===============================================================================
