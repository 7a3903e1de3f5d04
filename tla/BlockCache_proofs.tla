--------------------------- MODULE BlockCache_proofs ---------------------------
(***************************************************************************)
(* Proofs about BlockCache and, at the end, about LruOrder.                *)
(***************************************************************************)
EXTENDS LruOrder, SequenceTheorems, TLAPS

-------------------------------------------------------------------------------
(* Lists of slots *)

\* The elements of <<e>> \o s.
LEMMA PushProperties ==
  ASSUME NEW S, NEW e \in S, NEW s \in Seq(S)
  PROVE  /\ <<e>> \o s \in Seq(S)
         /\ Len(<<e>> \o s) = Len(s) + 1
         /\ \A k \in 1 .. Len(s) + 1 :
               (<<e>> \o s)[k] = IF k = 1 THEN e ELSE s[k-1]
<1>1. <<e>> \in Seq(S) /\ Len(<<e>>) = 1 /\ <<e>>[1] = e
  OBVIOUS
<1>2. Len(s) \in Nat
  BY LenProperties
<1>3. /\ <<e>> \o s \in Seq(S)
      /\ Len(<<e>> \o s) = 1 + Len(s)
      /\ \A k \in 1 .. 1 + Len(s) :
            (<<e>> \o s)[k] = IF k <= 1 THEN <<e>>[k] ELSE s[k-1]
  BY <1>1, ConcatProperties
<1> QED BY <1>1, <1>2, <1>3

\* The elements of s without the i-th.
LEMMA RemoveAtProperties ==
  ASSUME NEW S, NEW s \in Seq(S), NEW i \in 1 .. Len(s)
  PROVE  /\ RemoveAt(s, i) \in Seq(S)
         /\ Len(RemoveAt(s, i)) = Len(s) - 1
         /\ \A k \in 1 .. Len(s) - 1 :
               RemoveAt(s, i)[k] = IF k < i THEN s[k] ELSE s[k+1]
<1> DEFINE l == SubSeq(s, 1, i-1)
           r == SubSeq(s, i+1, Len(s))
<1>1. Len(s) \in Nat /\ \A k \in 1 .. Len(s) : s[k] \in S
  BY LenProperties, ElementOfSeq
<1>2. /\ l \in Seq(S)
      /\ Len(l) = i - 1
      /\ \A k \in 1 .. i-1 : l[k] = s[k]
  <2>1. \A k \in 1 .. i-1 : s[k] \in S
    BY <1>1
  <2>2. /\ l \in Seq(S)
        /\ Len(l) = IF 1 <= i-1 THEN (i-1)-1+1 ELSE 0
        /\ \A k \in 1 .. (i-1)-1+1 : l[k] = s[1+k-1]
    BY <1>1, <2>1, SubSeqProperties
  <2> QED BY <1>1, <2>2
<1>3. /\ r \in Seq(S)
      /\ Len(r) = Len(s) - i
      /\ \A k \in 1 .. Len(s)-i : r[k] = s[i+k]
  <2>1. \A k \in i+1 .. Len(s) : s[k] \in S
    BY <1>1
  <2>2. /\ r \in Seq(S)
        /\ Len(r) = IF i+1 <= Len(s) THEN Len(s)-(i+1)+1 ELSE 0
        /\ \A k \in 1 .. Len(s)-(i+1)+1 : r[k] = s[(i+1)+k-1]
    BY <1>1, <2>1, SubSeqProperties
  <2> QED BY <1>1, <2>2
<1> HIDE DEF l, r
<1>4. /\ l \o r \in Seq(S)
      /\ Len(l \o r) = Len(l) + Len(r)
      /\ \A k \in 1 .. Len(l) + Len(r) :
            (l \o r)[k] = IF k <= Len(l) THEN l[k] ELSE r[k - Len(l)]
  BY <1>2, <1>3, ConcatProperties
<1>5. RemoveAt(s, i) = l \o r
  BY DEF RemoveAt, l, r
<1>6. ASSUME NEW k \in 1 .. Len(s) - 1
      PROVE  (l \o r)[k] = IF k < i THEN s[k] ELSE s[k+1]
  <2>0. k < i \/ k >= i
    BY <1>1
  <2>1. CASE k < i
    BY <1>1, <1>2, <1>3, <1>4, <2>1
  <2>2. CASE k >= i
    <3>1. /\ (l \o r)[k] = r[k - (i-1)]
          /\ k - (i-1) \in 1 .. Len(s) - i
      BY <1>1, <1>2, <1>3, <1>4, <2>2
    <3>2. r[k - (i-1)] = s[i + (k - (i-1))]
      BY <1>3, <3>1
    <3>3. i + (k - (i-1)) = k + 1 /\ ~(k < i)
      BY <1>1, <2>2
    <3> QED BY <3>1, <3>2, <3>3
  <2> QED BY <2>0, <2>1, <2>2
<1> QED BY <1>1, <1>2, <1>3, <1>4, <1>5, <1>6

\* Moving an element to the front permutes an injective list.
LEMMA MoveToFrontPermutes ==
  ASSUME NEW S, NEW s \in Seq(S), IsInjective(s), NEW i \in 1 .. Len(s)
  PROVE  /\ MoveToFront(s, i) \in Seq(S)
         /\ IsInjective(MoveToFront(s, i))
         /\ ToSet(MoveToFront(s, i)) = ToSet(s)
<1> DEFINE t == MoveToFront(s, i)
<1>0. Len(s) \in Nat /\ s[i] \in S
  BY LenProperties, ElementOfSeq
<1>1. /\ t \in Seq(S)
      /\ Len(t) = Len(s)
      /\ \A k \in 1 .. Len(s) :
           t[k] = IF k = 1 THEN s[i] ELSE IF k <= i THEN s[k-1] ELSE s[k]
  <2> DEFINE q == RemoveAt(s, i)
  <2>1. /\ q \in Seq(S) /\ Len(q) = Len(s) - 1
        /\ \A k \in 1 .. Len(s) - 1 : q[k] = IF k < i THEN s[k] ELSE s[k+1]
    BY RemoveAtProperties
  <2>2. t = <<s[i]>> \o q
    BY DEF MoveToFront
  <2> HIDE DEF q, t
  <2>3. /\ t \in Seq(S) /\ Len(t) = Len(q) + 1
        /\ \A k \in 1 .. Len(q) + 1 : t[k] = IF k = 1 THEN s[i] ELSE q[k-1]
    BY <1>0, <2>1, <2>2, PushProperties
  <2> QED BY <1>0, <2>1, <2>3
<1>2. DOMAIN t = 1 .. Len(s) /\ DOMAIN s = 1 .. Len(s)
  BY <1>1, LenProperties
<1> HIDE DEF t
<1>3. IsInjective(t)
  <2> DEFINE from(k) == IF k = 1 THEN i ELSE IF k <= i THEN k - 1 ELSE k
  <2> SUFFICES ASSUME NEW j \in 1 .. Len(s), NEW k \in 1 .. Len(s), t[j] = t[k]
               PROVE  j = k
    BY <1>2 DEF IsInjective
  <2>1. from(j) \in 1 .. Len(s) /\ from(k) \in 1 .. Len(s)
    BY <1>0
  <2>2. t[j] = s[from(j)] /\ t[k] = s[from(k)]
    BY <1>1
  <2>3. from(j) = from(k)
    <3> HIDE DEF from
    <3> QED BY <1>2, <2>1, <2>2 DEF IsInjective
  <2> QED BY <1>0, <2>3
<1>4. ToSet(t) \subseteq ToSet(s)
  <2> SUFFICES ASSUME NEW k \in 1 .. Len(s)
               PROVE  \E j \in 1 .. Len(s) : t[k] = s[j]
    BY <1>2 DEF ToSet
  <2> QED BY <1>0, <1>1
<1>5. ToSet(s) \subseteq ToSet(t)
  <2> SUFFICES ASSUME NEW j \in 1 .. Len(s)
               PROVE  \E k \in 1 .. Len(s) : t[k] = s[j]
    BY <1>2 DEF ToSet
  <2>1. CASE j = i
    BY <1>0, <1>1, <2>1
  <2>2. CASE j < i
    <3>1. j + 1 \in 1 .. Len(s) /\ t[j+1] = s[j]
      BY <1>0, <1>1, <2>2
    <3> QED BY <3>1
  <2>3. CASE j > i
    BY <1>0, <1>1, <2>3
  <2> QED BY <1>0, <2>1, <2>2, <2>3
<1> QED BY <1>1, <1>3, <1>4, <1>5 DEF t

\* Pushing a new element keeps a list injective.
LEMMA PushFresh ==
  ASSUME NEW S, NEW s \in Seq(S), IsInjective(s), NEW e \in S, e \notin ToSet(s)
  PROVE  /\ <<e>> \o s \in Seq(S)
         /\ IsInjective(<<e>> \o s)
         /\ ToSet(<<e>> \o s) = ToSet(s) \cup {e}
<1> DEFINE t == <<e>> \o s
<1>0. Len(s) \in Nat /\ DOMAIN s = 1 .. Len(s)
  BY LenProperties
<1>1. /\ t \in Seq(S) /\ Len(t) = Len(s) + 1
      /\ \A k \in 1 .. Len(s) + 1 : t[k] = IF k = 1 THEN e ELSE s[k-1]
  BY PushProperties
<1> HIDE DEF t
<1>2. DOMAIN t = 1 .. Len(s) + 1
  BY <1>1, LenProperties
<1>3. \A k \in 1 .. Len(s) : s[k] # e
  BY <1>0 DEF ToSet
<1>4. IsInjective(t)
  <2> SUFFICES ASSUME NEW a \in 1 .. Len(s) + 1, NEW b \in 1 .. Len(s) + 1,
                      a < b, t[a] = t[b]
               PROVE  FALSE
    BY <1>0, <1>2 DEF IsInjective
  <2>1. b - 1 \in 1 .. Len(s) /\ t[b] = s[b-1]
    BY <1>0, <1>1
  <2>2. CASE a = 1
    BY <1>0, <1>1, <1>3, <2>1, <2>2
  <2>3. CASE a # 1
    <3>1. a - 1 \in 1 .. Len(s) /\ t[a] = s[a-1] /\ a - 1 # b - 1
      BY <1>0, <1>1, <2>3
    <3> QED BY <1>0, <2>1, <3>1 DEF IsInjective
  <2> QED BY <2>2, <2>3
<1>5. ToSet(t) \subseteq ToSet(s) \cup {e}
  <2> SUFFICES ASSUME NEW k \in 1 .. Len(s) + 1, k # 1
               PROVE  \E j \in 1 .. Len(s) : t[k] = s[j]
    BY SMTT(30), <1>0, <1>1, <1>2 DEF ToSet
  <2> QED BY <1>0, <1>1
<1>6. ToSet(s) \cup {e} \subseteq ToSet(t)
  <2>1. e \in ToSet(t)
    <3>1. 1 \in DOMAIN t /\ t[1] = e
      BY <1>0, <1>1, <1>2
    <3> QED BY <3>1 DEF ToSet
  <2>2. ASSUME NEW j \in 1 .. Len(s)
        PROVE  s[j] \in ToSet(t)
    <3>1. j + 1 \in DOMAIN t /\ t[j+1] = s[j]
      BY <1>0, <1>1, <1>2
    <3> QED BY <3>1 DEF ToSet
  <2> QED BY <1>0, <2>1, <2>2 DEF ToSet
<1> QED BY <1>1, <1>4, <1>5, <1>6 DEF t

\* Dequeuing an injective list removes its head and nothing else.
LEMMA TailDropsHead ==
  ASSUME NEW S, NEW s \in Seq(S), IsInjective(s), s # <<>>
  PROVE  /\ Tail(s) \in Seq(S)
         /\ IsInjective(Tail(s))
         /\ Head(s) \in ToSet(s)
         /\ ToSet(Tail(s)) = ToSet(s) \ {Head(s)}
<1> DEFINE t == Tail(s)
<1>0. Len(s) \in Nat \ {0} /\ DOMAIN s = 1 .. Len(s) /\ Head(s) = s[1]
  BY LenProperties, EmptySeq
<1>1. /\ t \in Seq(S) /\ Len(t) = Len(s) - 1
      /\ \A k \in 1 .. Len(t) : t[k] = s[k+1]
  BY HeadTailProperties
<1> HIDE DEF t
<1>2. DOMAIN t = 1 .. Len(s) - 1
  BY <1>1, LenProperties
<1>3. IsInjective(t)
  <2> SUFFICES ASSUME NEW a \in 1 .. Len(s) - 1, NEW b \in 1 .. Len(s) - 1,
                      t[a] = t[b]
               PROVE  a = b
    BY <1>2 DEF IsInjective
  <2>1. /\ a + 1 \in 1 .. Len(s) /\ t[a] = s[a+1]
        /\ b + 1 \in 1 .. Len(s) /\ t[b] = s[b+1]
    BY <1>0, <1>1
  <2>2. a + 1 = b + 1
    BY <1>0, <2>1 DEF IsInjective
  <2> QED BY <2>2
<1>4. Head(s) \in ToSet(s)
  BY <1>0 DEF ToSet
<1>5. ToSet(t) \subseteq ToSet(s) \ {Head(s)}
  <2> SUFFICES ASSUME NEW k \in 1 .. Len(s) - 1
               PROVE  t[k] # s[1] /\ \E j \in 1 .. Len(s) : t[k] = s[j]
    BY <1>0, <1>2 DEF ToSet
  <2>1. t[k] = s[k+1] /\ k + 1 \in 1 .. Len(s)
    BY <1>0, <1>1
  <2> QED BY <1>0, <2>1 DEF IsInjective
<1>6. ToSet(s) \ {Head(s)} \subseteq ToSet(t)
  <2> SUFFICES ASSUME NEW j \in 1 .. Len(s), s[j] # s[1]
               PROVE  \E k \in 1 .. Len(s) - 1 : t[k] = s[j]
    BY <1>0, <1>2 DEF ToSet
  <2>1. j - 1 \in 1 .. Len(s) - 1 /\ t[j-1] = s[j]
    BY <1>0, <1>1
  <2> QED BY <2>1
<1> QED BY <1>1, <1>3, <1>4, <1>5, <1>6 DEF t
\* Moving the last element to the front permutes an injective list.
LEMMA RotateLast ==
  ASSUME NEW S, NEW s \in Seq(S), IsInjective(s), s # <<>>
  PROVE  /\ <<Last(s)>> \o Front(s) \in Seq(S)
         /\ IsInjective(<<Last(s)>> \o Front(s))
         /\ ToSet(<<Last(s)>> \o Front(s)) = ToSet(s)
         /\ Last(s) \in ToSet(s)
<1> DEFINE n == Len(s)
           f == Front(s)
           q == RemoveAt(s, n)
<1>1. n \in Nat \ {0} /\ n \in 1 .. Len(s) /\ DOMAIN s = 1 .. n
  BY LenProperties, EmptySeq
<1>2. f \in Seq(S) /\ Len(f) = n - 1 /\ \A k \in 1 .. n - 1 : f[k] = s[k]
  <2>1. \A k \in 1 .. n - 1 : s[k] \in S
    BY <1>1, ElementOfSeq
  <2>2. /\ f \in Seq(S)
        /\ Len(f) = IF 1 <= n-1 THEN (n-1)-1+1 ELSE 0
        /\ \A k \in 1 .. (n-1)-1+1 : f[k] = s[1+k-1]
    BY <1>1, <2>1, SubSeqProperties DEF Front
  <2> HIDE DEF n, f
  <2> QED BY <1>1, <2>2
<1>3. q \in Seq(S) /\ Len(q) = n - 1 /\ \A k \in 1 .. n - 1 : q[k] = s[k]
  <2>1. /\ q \in Seq(S) /\ Len(q) = n - 1
        /\ \A k \in 1 .. n - 1 : q[k] = IF k < n THEN s[k] ELSE s[k+1]
    BY <1>1, RemoveAtProperties
  <2> HIDE DEF n, q
  <2> QED BY <1>1, <2>1
<1>4. q = f
  <2> HIDE DEF n, f, q
  <2> QED BY <1>2, <1>3, SeqEqual
<1>5. <<Last(s)>> \o f = MoveToFront(s, n)
  BY <1>4 DEF MoveToFront, Last
<1>6. /\ MoveToFront(s, n) \in Seq(S)
      /\ IsInjective(MoveToFront(s, n))
      /\ ToSet(MoveToFront(s, n)) = ToSet(s)
  BY <1>1, MoveToFrontPermutes
<1>7. Last(s) \in ToSet(s)
  BY <1>1 DEF Last, ToSet
<1> QED BY <1>5, <1>6, <1>7

-------------------------------------------------------------------------------
(* Finding the slot of a block *)

LEMMA Positions == /\ NoPos \notin Pos
                   /\ NoFlush \notin 0 .. Capacity
                   /\ NoFlush \in 0 .. Capacity + 1
                   /\ 0 \in Pos
                   /\ \A p \in Pos : p \in 0 .. Capacity + 1 /\ p + 1 \in 0 .. Capacity
BY CacheAssumption DEF NoPos, NoFlush, Pos

LEMMA CounterType == TypeOK => NextCnt \in 0 .. FlushEvery + 1
BY CacheAssumption DEF TypeOK, NextCnt

\* What Hit, LoadFree and LoadEvict have in common: b gets the slot p, no
\* other block gets one, and a block that loses its slot is in the image.
LocateEffect(b, p) ==
  /\ /\ lru_list' \in Seq(Pos)
     /\ free_position' \in Seq(Pos)
     /\ lru_map' \in [Block -> Pos \cup {NoPos}]
     /\ image' \in [Block -> Data]
     /\ file' \in [Block -> Data]
     /\ cnt' \in 0 .. FlushEvery + 1
  /\ SlotsPartitioned'
  /\ ToSet(lru_list') = ToSet(lru_list) \cup {p}
  /\ ToSet(free_position') = ToSet(free_position) \ {p}
  /\ lru_map'[b] = p
  /\ lru_map[b] \in {p, NoPos}
  /\ image'[b] = image[b]
  /\ \A c \in Block \ {b} :
        /\ lru_map'[c] = lru_map[c] \/ lru_map'[c] = NoPos
        /\ lru_map'[c] # p
        /\ lru_map[c] = p \/ lru_map'[c] = lru_map[c]
        /\ lru_map'[c] = NoPos => image'[c] = Content[c]
        /\ lru_map'[c] # NoPos => image'[c] = image[c]
  /\ \A c \in Block : /\ image'[c] \in {image[c], Content[c]}
                      /\ file'[c] \in {file[c], image'[c]}

LEMMA HitEffect ==
  ASSUME IInv, NEW b \in Block, NEW p \in Pos, Hit(b, p)
  PROVE  LocateEffect(b, p)
<1> USE DEF IInv
<1>1. PICK i \in 1 .. Len(lru_list) : /\ lru_list[i] = p
                                      /\ lru_list' = MoveToFront(lru_list, i)
  BY DEF Hit
<1>2. lru_list \in Seq(Pos) /\ IsInjective(lru_list)
  BY DEF TypeOK, SlotsPartitioned
<1>3. /\ lru_list' \in Seq(Pos)
      /\ IsInjective(lru_list')
      /\ ToSet(lru_list') = ToSet(lru_list)
  BY <1>1, <1>2, MoveToFrontPermutes
<1>4. p \in ToSet(lru_list)
  BY <1>1, <1>2, LenProperties DEF ToSet
<1>5. UNCHANGED <<free_position, lru_map, image, file, cnt>> /\ lru_map[b] = p
  BY DEF Hit
<1>6. SlotsPartitioned'
  BY <1>3, <1>5 DEF SlotsPartitioned
<1>7. p \notin ToSet(free_position)
  BY <1>4 DEF SlotsPartitioned
<1>8. cache[p].block_idx = b
  BY <1>5, Positions DEF MapMatchesSlots, Cached
<1>9. ASSUME NEW c \in Block, c # b
      PROVE  /\ lru_map[c] # p
             /\ lru_map[c] = NoPos => image[c] = Content[c]
  BY <1>8, <1>9, Positions DEF MapMatchesSlots, Cached, Content
<1> QED BY <1>3, <1>4, <1>5, <1>6, <1>7, <1>9 DEF LocateEffect, TypeOK

LEMMA LoadFreeEffect ==
  ASSUME IInv, NEW b \in Block, NEW p \in Pos, LoadFree(b, p)
  PROVE  LocateEffect(b, p)
<1> USE DEF IInv
<1>1. /\ ~Cached(b)
      /\ free_position # <<>> /\ p = Head(free_position)
      /\ free_position' = Tail(free_position)
      /\ lru_list' = <<p>> \o lru_list
      /\ lru_map' = [lru_map EXCEPT ![b] = p]
      /\ file' = image /\ image' = image /\ cnt' = cnt
  BY DEF LoadFree, Disk_read_block
<1>2. /\ lru_list \in Seq(Pos) /\ IsInjective(lru_list)
      /\ free_position \in Seq(Pos) /\ IsInjective(free_position)
      /\ ToSet(lru_list) \cap ToSet(free_position) = {}
      /\ ToSet(lru_list) \cup ToSet(free_position) = Pos
  BY DEF TypeOK, SlotsPartitioned
<1>3. /\ free_position' \in Seq(Pos)
      /\ IsInjective(free_position')
      /\ p \in ToSet(free_position)
      /\ ToSet(free_position') = ToSet(free_position) \ {p}
  BY <1>1, <1>2, TailDropsHead
<1>4. /\ lru_list' \in Seq(Pos)
      /\ IsInjective(lru_list')
      /\ ToSet(lru_list') = ToSet(lru_list) \cup {p}
  BY <1>1, <1>2, <1>3, PushFresh
<1>5. SlotsPartitioned'
  BY <1>2, <1>3, <1>4 DEF SlotsPartitioned
<1>6. ASSUME NEW c \in Block, c # b
      PROVE  /\ lru_map'[c] = lru_map[c]
             /\ lru_map[c] # p
             /\ lru_map[c] = NoPos => image[c] = Content[c]
  <2>1. lru_map'[c] = lru_map[c]
    BY <1>1, <1>6 DEF TypeOK
  <2>2. lru_map[c] # p
    BY <1>2, <1>3, Positions DEF MapMatchesSlots, Cached
  <2> QED BY <2>1, <2>2 DEF Content, Cached
<1>7. lru_map' \in [Block -> Pos \cup {NoPos}] /\ lru_map'[b] = p
  BY <1>1 DEF TypeOK
<1> QED BY <1>1, <1>3, <1>4, <1>5, <1>6, <1>7 DEF LocateEffect, TypeOK, Cached

LEMMA LoadEvictEffect ==
  ASSUME IInv, NEW b \in Block, NEW p \in Pos, LoadEvict(b, p)
  PROVE  LocateEffect(b, p)
<1> USE DEF IInv
<1> DEFINE victim == cache[p]
           v == victim.block_idx
<1>1. /\ ~Cached(b)
      /\ free_position = <<>> /\ free_position' = free_position
      /\ lru_list # <<>> /\ p = Last(lru_list)
      /\ lru_list' = <<p>> \o Front(lru_list)
      /\ lru_map' = [lru_map EXCEPT ![v] = NoPos, ![b] = p]
      /\ \/ ~victim.dirty /\ image' = image /\ cnt' = cnt
         \/ /\ victim.dirty
            /\ image' = [image EXCEPT ![v] = victim.data]
            /\ cnt' = NextCnt
      /\ file' = image'
  BY DEF LoadEvict
<1>2. /\ lru_list \in Seq(Pos) /\ IsInjective(lru_list)
      /\ free_position \in Seq(Pos) /\ IsInjective(free_position)
  BY DEF TypeOK, SlotsPartitioned
<1>3. /\ lru_list' \in Seq(Pos)
      /\ IsInjective(lru_list')
      /\ ToSet(lru_list') = ToSet(lru_list)
      /\ p \in ToSet(lru_list)
  BY <1>1, <1>2, RotateLast
<1>4. SlotsPartitioned'
  BY <1>1, <1>3 DEF SlotsPartitioned
<1>5. p \notin ToSet(free_position)
  BY <1>3 DEF SlotsPartitioned
<1>6. v \in Block /\ lru_map[v] = p /\ victim.data \in Data /\ v # b
  BY <1>1, <1>3, Positions DEF MapMatchesSlots, TypeOK, Item, Cached
<1>7. image' \in [Block -> Data] /\ file' \in [Block -> Data]
  BY <1>1, <1>6 DEF TypeOK
<1>8. cnt' \in 0 .. FlushEvery + 1
  BY <1>1, CounterType DEF TypeOK
<1>9. /\ lru_map' \in [Block -> Pos \cup {NoPos}]
      /\ lru_map'[b] = p /\ lru_map'[v] = NoPos
      /\ \A c \in Block \ {b, v} : lru_map'[c] = lru_map[c]
  BY <1>1, <1>6 DEF TypeOK
<1>10. Content[v] = victim.data /\ image'[v] = victim.data
  <2>1. Content[v] = victim.data
    BY <1>6, Positions DEF Content, Cached
  <2>2. CASE victim.dirty
    BY <1>1, <1>6, <2>1, <2>2 DEF TypeOK
  <2>3. CASE ~victim.dirty
    BY <1>1, <1>6, <2>1, <2>3, Positions DEF CleanMatchesImage, Cached
  <2> QED BY <2>1, <2>2, <2>3
<1>11. \A c \in Block \ {v} : image'[c] = image[c]
  BY <1>1, <1>6 DEF TypeOK
<1>12. ASSUME NEW c \in Block \ {b, v}
       PROVE  lru_map[c] # p /\ (lru_map[c] = NoPos => image[c] = Content[c])
  BY <1>6, <1>12, Positions DEF MapMatchesSlots, Cached, Content
<1>13. ASSUME NEW c \in Block \ {b}
       PROVE  /\ lru_map'[c] = lru_map[c] \/ lru_map'[c] = NoPos
              /\ lru_map'[c] # p
              /\ lru_map[c] = p \/ lru_map'[c] = lru_map[c]
              /\ lru_map'[c] = NoPos => image'[c] = Content[c]
              /\ lru_map'[c] # NoPos => image'[c] = image[c]
  BY <1>6, <1>9, <1>10, <1>11, <1>12, Positions
<1>14. \A c \in Block : /\ image'[c] \in {image[c], Content[c]}
                        /\ file'[c] \in {file[c], image'[c]}
  BY <1>1, <1>10, <1>11
<1> QED BY <1>1, <1>3, <1>4, <1>5, <1>6, <1>7, <1>8, <1>9, <1>11, <1>13, <1>14
        DEF LocateEffect, Cached

LEMMA Locating ==
  ASSUME IInv, NEW b \in Block, NEW p \in Pos, Locate(b, p)
  PROVE  LocateEffect(b, p)
BY HitEffect, LoadFreeEffect, LoadEvictEffect DEF Locate
-------------------------------------------------------------------------------
(* Storing into the slot once it is found *)

\* What the slot found for b holds before the caller touches it.
LEMMA LocatedItem ==
  ASSUME IInv, NEW b \in Block, NEW p \in Pos, Locate(b, p)
  PROVE  /\ Located(b, p) \in Item
         /\ Located(b, p).block_idx = b
         /\ Located(b, p).data = Content[b]
         /\ ~Located(b, p).dirty => Located(b, p).data = image[b]
<1> USE DEF IInv
<1>1. CASE Cached(b)
  <2>1. lru_map[b] = p
    BY <1>1 DEF Locate, Hit, LoadFree, LoadEvict
  <2> QED BY <1>1, <2>1 DEF Located, Content, TypeOK, MapMatchesSlots,
                            CleanMatchesImage
<1>2. CASE ~Cached(b)
  BY <1>2 DEF Located, Content, Item, TypeOK
<1> QED BY <1>1, <1>2

\* Filling the located slot with (b, v) changes the content of b to v and of
\* no other block, and keeps what the invariant says of slots.
LEMMA StoreEffect ==
  ASSUME IInv, NEW b \in Block, NEW p \in Pos, LocateEffect(b, p),
         NEW it \in Item, it.block_idx = b, ~it.dirty => it.data = image[b],
         cache' = [cache EXCEPT ![p] = it]
  PROVE  /\ cache' \in [Pos -> Item]
         /\ Content' = [Content EXCEPT ![b] = it.data]
         /\ MapMatchesSlots'
         /\ CleanMatchesImage'
         /\ DirtyNamesBlock'
<1> USE DEF IInv
<1>1. cache' \in [Pos -> Item] /\ cache'[p] = it
  BY DEF TypeOK
<1>2. \A q \in Pos \ {p} : cache'[q] = cache[q]
  BY DEF TypeOK
<1>3. lru_map \in [Block -> Pos \cup {NoPos}] /\ lru_map' \in [Block -> Pos \cup {NoPos}]
  BY DEF TypeOK, LocateEffect
<1>4. lru_map'[b] = p /\ image'[b] = image[b]
  BY DEF LocateEffect
<1>5. ASSUME NEW c \in Block, c # b, lru_map'[c] # NoPos
      PROVE  /\ lru_map'[c] = lru_map[c] /\ lru_map'[c] \in Pos \ {p}
             /\ cache'[lru_map'[c]] = cache[lru_map[c]]
             /\ image'[c] = image[c]
  BY <1>2, <1>3, <1>5 DEF LocateEffect
<1>6. ASSUME NEW c \in Block, c # b, lru_map'[c] = NoPos
      PROVE  image'[c] = Content[c]
  BY <1>6 DEF LocateEffect
<1>7. Content' = [Content EXCEPT ![b] = it.data]
  <2>1. Content'[b] = it.data
    BY <1>1, <1>4, Positions DEF Content, Cached
  <2>2. ASSUME NEW c \in Block, c # b
        PROVE  Content'[c] = Content[c]
    <3>1. CASE lru_map'[c] = NoPos
      BY <1>6, <2>2, <3>1 DEF Content, Cached
    <3>2. CASE lru_map'[c] # NoPos
      BY <1>5, <2>2, <3>2 DEF Content, Cached
    <3> QED BY <3>1, <3>2
  <2>3. DOMAIN Content' = Block /\ DOMAIN Content = Block
    BY DEF Content
  <2> QED BY <2>1, <2>2, <2>3 DEF Content
<1>8. MapMatchesSlots'
  <2>1. ToSet(lru_list') = ToSet(lru_list) \cup {p}
    BY DEF LocateEffect
  <2>2. ToSet(free_position') = ToSet(free_position) \ {p}
    BY DEF LocateEffect
  <2>3. ToSet(lru_list) \subseteq Pos /\ ToSet(free_position) \subseteq Pos
    BY DEF SlotsPartitioned
  <2>4. ASSUME NEW c \in Block, lru_map'[c] # NoPos
        PROVE  lru_map'[c] \in ToSet(lru_list') /\ cache'[lru_map'[c]].block_idx = c
    <3>1. CASE c = b
      BY <1>1, <1>4, <2>1, <3>1
    <3>2. CASE c # b
      BY <1>5, <2>1, <2>4, <3>2 DEF MapMatchesSlots, Cached
    <3> QED BY <3>1, <3>2
  <2>5. ASSUME NEW q \in ToSet(lru_list')
        PROVE  cache'[q].block_idx \in Block /\ lru_map'[cache'[q].block_idx] = q
    <3>1. CASE q = p
      BY <1>1, <1>4, <3>1
    <3>2. CASE q # p
      <4>1. q \in ToSet(lru_list) /\ cache'[q] = cache[q]
        BY <1>2, <2>1, <2>3, <2>5, <3>2
      <4>2. cache[q].block_idx \in Block /\ lru_map[cache[q].block_idx] = q
        BY <4>1 DEF MapMatchesSlots
      <4>3. cache[q].block_idx # b
        <5>1. SUFFICES ASSUME cache[q].block_idx = b PROVE FALSE
          OBVIOUS
        <5>2. lru_map[b] = q /\ q # NoPos /\ q # p
          BY <2>3, <3>2, <4>1, <4>2, <5>1, Positions
        <5>3. lru_map[b] \in {p, NoPos}
          BY DEF LocateEffect
        <5> QED BY <5>2, <5>3
      <4> QED BY <3>2, <4>1, <4>2, <4>3 DEF LocateEffect
    <3> QED BY <3>1, <3>2
  <2>6. ASSUME NEW q \in ToSet(free_position')
        PROVE  cache'[q].block_idx = NoBlock
    BY <1>2, <2>2, <2>3, <2>6 DEF MapMatchesSlots
  <2> QED BY <2>4, <2>5, <2>6 DEF MapMatchesSlots, Cached
<1>9. CleanMatchesImage'
  <2> SUFFICES ASSUME NEW c \in Block, lru_map'[c] # NoPos, ~cache'[lru_map'[c]].dirty
               PROVE  cache'[lru_map'[c]].data = image'[c]
    BY DEF CleanMatchesImage, Cached
  <2>1. CASE c = b
    BY <1>1, <1>4, <2>1
  <2>2. CASE c # b
    BY <1>5, <2>2 DEF CleanMatchesImage, Cached
  <2> QED BY <2>1, <2>2
<1>10. DirtyNamesBlock'
  BY <1>1, <1>2, CacheAssumption DEF DirtyNamesBlock
<1> QED BY <1>1, <1>7, <1>8, <1>9, <1>10

\* What a crash may leave, when the stream and the file only move towards the
\* content.
LEMMA CrashStep ==
  ASSUME IInv, NEW b \in Block, NEW p \in Pos, LocateEffect(b, p),
         NEW v \in Data, Content' = [Content EXCEPT ![b] = v],
         recent' = [recent EXCEPT ![b] = @ \cup {v}]
                    \/ (recent' = recent /\ v = Content[b])
  PROVE  CrashKeepsRecent' /\ recent' \in [Block -> SUBSET Data]
<1> USE DEF IInv
<1>1. recent' \in [Block -> SUBSET Data]
  BY DEF TypeOK
<1>2. \A c \in Block : recent[c] \subseteq recent'[c]
  BY DEF TypeOK
<1>3. v \in recent'[b]
  BY DEF TypeOK, CrashKeepsRecent
<1>4. ASSUME NEW c \in Block
      PROVE  {file'[c], image'[c], Content'[c]} \subseteq recent'[c]
  <2>1. {file[c], image[c], Content[c]} \subseteq recent'[c]
    BY <1>2 DEF CrashKeepsRecent
  <2>2. {file'[c], image'[c]} \subseteq recent'[c]
    BY <2>1 DEF LocateEffect
  <2>3. Content'[c] \in recent'[c]
    <3>1. DOMAIN Content = Block
      BY DEF Content
    <3> QED BY <1>3, <2>1, <3>1
  <2> QED BY <2>2, <2>3
<1> QED BY <1>1, <1>4 DEF CrashKeepsRecent

-------------------------------------------------------------------------------
(* The actions *)

LEMMA ReadStep ==
  ASSUME IInv, NEW b \in Block, read_block(b)
  PROVE  IInv' /\ Content' = Content /\ reply' = Content[b]
<1>1. PICK p \in Pos : /\ Locate(b, p)
                       /\ cache' = [cache EXCEPT ![p] = Located(b, p)]
                       /\ reply' = Located(b, p).data
  BY DEF read_block
<1>2. flush_pos = NoFlush /\ flush_pos' = flush_pos /\ recent' = recent
  BY DEF read_block
<1>3. LocateEffect(b, p)
  BY <1>1, Locating
<1>4. /\ Located(b, p) \in Item
      /\ Located(b, p).block_idx = b
      /\ Located(b, p).data = Content[b]
      /\ ~Located(b, p).dirty => Located(b, p).data = image[b]
  BY <1>1, LocatedItem
<1>5. /\ cache' \in [Pos -> Item]
      /\ Content' = [Content EXCEPT ![b] = Located(b, p).data]
      /\ MapMatchesSlots'
      /\ CleanMatchesImage'
      /\ DirtyNamesBlock'
  BY <1>1, <1>3, <1>4, StoreEffect
<1>6. Content' = Content
  BY <1>4, <1>5 DEF Content
<1>7. Located(b, p).data \in Data
  BY <1>4 DEF Item
<1>8. CrashKeepsRecent' /\ recent' \in [Block -> SUBSET Data]
  BY <1>2, <1>3, <1>4, <1>5, <1>7, CrashStep
<1>9. TypeOK'
  BY <1>1, <1>2, <1>3, <1>5, <1>7, <1>8 DEF TypeOK, LocateEffect, IInv
<1>10. FlushedPrefixClean'
  BY <1>2, Positions DEF FlushedPrefixClean
<1> QED BY <1>1, <1>3, <1>4, <1>5, <1>6, <1>8, <1>9, <1>10 DEF IInv, LocateEffect

LEMMA WriteStep ==
  ASSUME IInv, NEW b \in Block, NEW v \in Data, write_block(b, v)
  PROVE  IInv' /\ Content' = [Content EXCEPT ![b] = v]
<1> DEFINE it == [data |-> v, block_idx |-> b, dirty |-> TRUE]
<1>1. PICK p \in Pos : Locate(b, p) /\ cache' = [cache EXCEPT ![p] = it]
  BY DEF write_block
<1>2. /\ flush_pos = NoFlush /\ flush_pos' = flush_pos /\ reply' = reply
      /\ recent' = [recent EXCEPT ![b] = @ \cup {v}]
  BY DEF write_block
<1>3. LocateEffect(b, p)
  BY <1>1, Locating
<1>4. it \in Item /\ it.block_idx = b /\ it.dirty /\ it.data = v
  BY DEF Item
<1> HIDE DEF it
<1>5. /\ cache' \in [Pos -> Item]
      /\ Content' = [Content EXCEPT ![b] = v]
      /\ MapMatchesSlots'
      /\ CleanMatchesImage'
      /\ DirtyNamesBlock'
  BY <1>1, <1>3, <1>4, StoreEffect
<1>6. CrashKeepsRecent' /\ recent' \in [Block -> SUBSET Data]
  BY <1>2, <1>3, <1>5, CrashStep
<1>7. TypeOK'
  BY <1>2, <1>3, <1>5, <1>6 DEF TypeOK, LocateEffect, IInv
<1>8. FlushedPrefixClean'
  BY <1>2, Positions DEF FlushedPrefixClean
<1> QED BY <1>3, <1>5, <1>6, <1>7, <1>8 DEF IInv, LocateEffect

\* Writing a slot back changes neither the content nor any other slot.
LEMMA WriteBackStep ==
  ASSUME IInv, NEW p \in Pos, WriteItemBack(p),
         UNCHANGED <<free_position, lru_list, lru_map, reply, recent>>
  PROVE  /\ Content' = Content
         /\ cache' \in [Pos -> Item] /\ image' \in [Block -> Data]
         /\ file' \in [Block -> Data] /\ cnt' \in 0 .. FlushEvery + 1
         /\ SlotsPartitioned' /\ MapMatchesSlots' /\ CleanMatchesImage'
         /\ CrashKeepsRecent' /\ DirtyNamesBlock'
         /\ \A q \in Pos : ~cache[q].dirty => ~cache'[q].dirty
         /\ ~cache'[p].dirty
<1> USE DEF IInv
<1> DEFINE c == cache[p].block_idx
<1>0. SlotsPartitioned'
  BY DEF SlotsPartitioned
<1>1. CASE ~cache[p].dirty
  <2>1. UNCHANGED <<cache, diskVars>>
    BY <1>1 DEF WriteItemBack
  <2> QED BY <1>0, <1>1, <2>1 DEF Content, Cached, MapMatchesSlots, TypeOK, diskVars,
             CleanMatchesImage, CrashKeepsRecent, DirtyNamesBlock
<1>2. CASE cache[p].dirty
  <2>1. c # NoBlock
    BY <1>2 DEF DirtyNamesBlock
  <2>2. /\ image' = [image EXCEPT ![c] = cache[p].data]
        /\ cnt' = NextCnt
        /\ file' = image' \/ file' = image
        /\ cache' = [cache EXCEPT ![p].dirty = FALSE]
    BY <1>2, <2>1 DEF WriteItemBack, Disk_write_block
  <2>3. p \in ToSet(lru_list) /\ c \in Block /\ lru_map[c] = p
    BY <2>1 DEF SlotsPartitioned, MapMatchesSlots
  <2>4. /\ cache' \in [Pos -> Item]
        /\ cache'[p].data = cache[p].data
        /\ cache'[p].block_idx = c
        /\ ~cache'[p].dirty
        /\ \A q \in Pos \ {p} : cache'[q] = cache[q]
    BY <2>2 DEF TypeOK, Item
  <2>5. cache[p].data \in Data
    BY DEF TypeOK, Item
  <2>6. /\ image' \in [Block -> Data] /\ file' \in [Block -> Data]
        /\ image'[c] = cache[p].data
        /\ \A d \in Block \ {c} : image'[d] = image[d]
    BY <2>2, <2>3, <2>5 DEF TypeOK
  <2>7. \A q \in Pos : /\ cache'[q].data = cache[q].data
                       /\ cache'[q].block_idx = cache[q].block_idx
    BY <2>4
  <2>8. ASSUME NEW d \in Block, lru_map[d] # NoPos
        PROVE  lru_map[d] \in Pos
    BY <2>8 DEF TypeOK
  <2>9. lru_map' = lru_map
    OBVIOUS
  <2>10. Content' = Content
    <3>1. ASSUME NEW d \in Block
          PROVE  Content'[d] = Content[d]
      BY <2>3, <2>6, <2>7, <2>8, <2>9, Positions DEF Content, Cached
    <3> QED BY <3>1 DEF Content
  <2>11. MapMatchesSlots'
    <3>1. ToSet(lru_list) \subseteq Pos /\ ToSet(free_position) \subseteq Pos
      BY DEF SlotsPartitioned
    <3> QED BY <2>7, <2>8, <2>9, <3>1 DEF MapMatchesSlots, Cached
  <2>12. CleanMatchesImage'
    <3> SUFFICES ASSUME NEW d \in Block, lru_map[d] # NoPos, ~cache'[lru_map[d]].dirty
                 PROVE  cache'[lru_map[d]].data = image'[d]
      BY <2>9 DEF CleanMatchesImage, Cached
    <3>1. CASE d = c
      BY <2>3, <2>4, <2>6, <3>1
    <3>2. CASE d # c
      <4>1. lru_map[d] # p
        BY <3>2 DEF MapMatchesSlots, Cached
      <4> QED BY <2>4, <2>6, <2>8, <3>2, <4>1 DEF CleanMatchesImage, Cached
    <3> QED BY <3>1, <3>2
  <2>13. CrashKeepsRecent'
    <3>1. cache[p].data = Content[c]
      BY <2>3, Positions DEF Content, Cached
    <3>2. \A d \in Block : image'[d] \in {image[d], Content[d]}
      BY <2>6, <3>1
    <3>3. \A d \in Block : file'[d] \in {image[d], image'[d]}
      BY <2>2
    <3> QED BY <2>10, <3>2, <3>3 DEF CrashKeepsRecent
  <2>14. DirtyNamesBlock'
    BY <2>4 DEF DirtyNamesBlock
  <2>15. cnt' \in 0 .. FlushEvery + 1
    BY <2>2, CounterType
  <2> QED BY <1>0, <2>4, <2>6, <2>10, <2>11, <2>12, <2>13, <2>14, <2>15
<1> QED BY <1>1, <1>2

LEMMA FlushBlockStep ==
  ASSUME IInv, NEW b \in Block, flushb(b)
  PROVE  IInv' /\ Content' = Content
<1>1. PICK p \in Pos : p = lru_map[b]
  BY DEF flushb, Cached, IInv, TypeOK
<1>2. /\ WriteItemBack(p)
      /\ UNCHANGED <<free_position, lru_list, lru_map, reply, recent>>
      /\ flush_pos = NoFlush /\ flush_pos' = flush_pos
  BY <1>1 DEF flushb
<1> QED BY <1>2, WriteBackStep, Positions DEF IInv, TypeOK, FlushedPrefixClean

LEMMA FlushItemStep ==
  ASSUME IInv, FlushItem
  PROVE  IInv' /\ Content' = Content
<1>1. /\ flush_pos \in Pos /\ WriteItemBack(flush_pos)
      /\ flush_pos' = flush_pos + 1
      /\ UNCHANGED <<free_position, lru_list, lru_map, reply, recent>>
  BY DEF FlushItem
<1>2. /\ Content' = Content
      /\ cache' \in [Pos -> Item] /\ image' \in [Block -> Data]
      /\ file' \in [Block -> Data] /\ cnt' \in 0 .. FlushEvery + 1
      /\ SlotsPartitioned' /\ MapMatchesSlots' /\ CleanMatchesImage'
      /\ CrashKeepsRecent' /\ DirtyNamesBlock'
      /\ \A q \in Pos : ~cache[q].dirty => ~cache'[q].dirty
      /\ ~cache'[flush_pos].dirty
  BY <1>1, WriteBackStep
<1>3. FlushedPrefixClean'
  <2> SUFFICES ASSUME NEW q \in Pos, q < flush_pos + 1
               PROVE  ~cache'[q].dirty
    BY <1>1 DEF FlushedPrefixClean
  <2>1. q < flush_pos \/ q = flush_pos
    BY <1>1 DEF Pos
  <2>2. flush_pos \in 0 .. Capacity
    BY <1>1, CacheAssumption DEF Pos
  <2> QED BY <1>2, <2>1, <2>2 DEF IInv, FlushedPrefixClean
<1>4. flush_pos' \in 0 .. Capacity + 1
  BY <1>1, CacheAssumption DEF Pos
<1> QED BY <1>1, <1>2, <1>3, <1>4 DEF IInv, TypeOK

LEMMA FlushStartStep ==
  ASSUME IInv, FlushStart
  PROVE  IInv' /\ Content' = Content
<1>1. UNCHANGED <<cacheVars, diskVars, reply, recent>> /\ flush_pos' = 0
  BY DEF FlushStart
<1>2. FlushedPrefixClean'
  BY <1>1 DEF FlushedPrefixClean, Pos
<1>3. Content' = Content
  BY <1>1 DEF Content, Cached, cacheVars, diskVars
<1>4. 0 \in 0 .. Capacity + 1
  BY CacheAssumption
<1> QED BY <1>1, <1>2, <1>3, <1>4
        DEF IInv, TypeOK, SlotsPartitioned, MapMatchesSlots, CleanMatchesImage,
            CrashKeepsRecent, DirtyNamesBlock, Cached, cacheVars, diskVars

\* When the scan is over every slot is clean, so image and content agree.
LEMMA FlushEndStep ==
  ASSUME IInv, FlushEnd
  PROVE  /\ IInv' /\ Content' = Content
         /\ recent' = [b \in Block |-> {Content[b]}]
         /\ file' = Content
<1> USE DEF IInv
<1>1. /\ flush_pos = Capacity /\ flush_pos' = NoFlush
      /\ file' = image
      /\ recent' = [b \in Block |-> {Content[b]}]
      /\ UNCHANGED <<cacheVars, reply, image, cnt>>
  BY DEF FlushEnd, Disk_sync
<1>2. UNCHANGED <<cache, free_position, lru_list, lru_map, image, cnt, reply>>
  BY <1>1 DEF cacheVars
<1>3. \A p \in Pos : ~cache[p].dirty
  <2>1. flush_pos \in 0 .. Capacity /\ \A p \in Pos : p < flush_pos
    BY <1>1, CacheAssumption DEF Pos
  <2> QED BY <2>1 DEF FlushedPrefixClean
<1>4. Content = image
  <2>1. ASSUME NEW b \in Block
        PROVE  Content[b] = image[b]
    BY <1>3 DEF Content, CleanMatchesImage, Cached, TypeOK
  <2>2. image \in [Block -> Data]
    BY DEF TypeOK
  <2> QED BY <2>1, <2>2 DEF Content
<1>5. Content' = Content
  BY <1>2 DEF Content, Cached
<1>6. CrashKeepsRecent'
  BY <1>1, <1>2, <1>4, <1>5 DEF CrashKeepsRecent
<1>7. recent' \in [Block -> SUBSET Data] /\ file' \in [Block -> Data]
  BY <1>1, <1>4 DEF TypeOK
<1>8. FlushedPrefixClean' /\ flush_pos' \in 0 .. Capacity + 1
  BY <1>1, Positions DEF FlushedPrefixClean
<1> QED BY <1>1, <1>2, <1>4, <1>5, <1>6, <1>7, <1>8
        DEF TypeOK, SlotsPartitioned, MapMatchesSlots, CleanMatchesImage,
            DirtyNamesBlock, Cached

\* A new process: a cache with no block in it, over an image file.
Fresh == /\ NewCache
         /\ image \in [Block -> Data] /\ file = image /\ cnt = 0
         /\ flush_pos = NoFlush /\ reply = NoReply
         /\ recent = [b \in Block |-> {image[b]}]

LEMMA FreshHolds == Fresh => IInv /\ Content = image
<1> SUFFICES ASSUME Fresh PROVE IInv /\ Content = image
  OBVIOUS
<1> USE DEF Fresh, NewCache
<1>1. \A p \in Pos : cache[p] = EmptySlot
  OBVIOUS
<1>2. cache \in [Pos -> Item]
  BY CacheAssumption DEF EmptySlot, Item
<1>3. free_position \in Seq(Pos) /\ Len(free_position) = Capacity
  <2>1. \A i \in 1 .. Capacity : i - 1 \in Pos
    BY CacheAssumption DEF Pos
  <2> QED BY <2>1, CacheAssumption, IsASeq
<1>4. DOMAIN free_position = 1 .. Capacity
  OBVIOUS
<1>5. ToSet(free_position) = Pos
  <2>1. ASSUME NEW p \in Pos
        PROVE  \E i \in 1 .. Capacity : free_position[i] = p
    <3>1. p + 1 \in 1 .. Capacity /\ (p + 1) - 1 = p
      BY CacheAssumption DEF Pos
    <3> QED BY <3>1
  <2>2. ASSUME NEW i \in 1 .. Capacity
        PROVE  free_position[i] \in Pos
    BY CacheAssumption DEF Pos
  <2> QED BY <1>4, <2>1, <2>2 DEF ToSet
<1>6. IsInjective(free_position)
  BY <1>4, CacheAssumption DEF IsInjective
<1>7. ToSet(lru_list) = {} /\ IsInjective(lru_list) /\ lru_list \in Seq(Pos)
  BY EmptySeq DEF ToSet, IsInjective
<1>8. SlotsPartitioned
  BY <1>5, <1>6, <1>7 DEF SlotsPartitioned
<1>9. \A b \in Block : ~Cached(b)
  BY DEF Cached
<1>10. Content = image
  BY <1>9 DEF Content
<1>11. MapMatchesSlots /\ CleanMatchesImage /\ DirtyNamesBlock
  BY <1>1, <1>5, <1>7, <1>9
     DEF MapMatchesSlots, CleanMatchesImage, DirtyNamesBlock, EmptySlot
<1>12. CrashKeepsRecent
  BY <1>10 DEF CrashKeepsRecent
<1>13. TypeOK
  BY <1>2, <1>3, <1>7, CacheAssumption DEF TypeOK, NoPos, NoFlush
<1>14. FlushedPrefixClean
  BY Positions DEF FlushedPrefixClean
<1> QED BY <1>8, <1>10, <1>11, <1>12, <1>13, <1>14 DEF IInv

LEMMA CrashesStep ==
  ASSUME IInv, Crash
  PROVE  /\ IInv' /\ Content' = file /\ reply' = NoReply
         /\ recent' = [b \in Block |-> {file[b]}]
<1>1. Fresh' /\ image' = file /\ reply' = NoReply
      /\ recent' = [b \in Block |-> {file[b]}]
  BY DEF Crash, Fresh, NewCache, IInv, TypeOK
<1>2. (Fresh => IInv /\ Content = image)'
  BY FreshHolds, PTL
<1> QED BY <1>1, <1>2

-------------------------------------------------------------------------------
(* The specification *)

\* Each step keeps the inductive invariant; the cache never loses track of a
\* block, whatever the device, its values and the capacity.
LEMMA Inductive == IInv /\ [Next]_vars => IInv'
<1> SUFFICES ASSUME IInv, [Next]_vars PROVE IInv'
  OBVIOUS
<1>1. ASSUME NEW b \in Block, read_block(b) PROVE IInv'
  BY <1>1, ReadStep
<1>2. ASSUME NEW b \in Block, NEW v \in Data, write_block(b, v) PROVE IInv'
  BY <1>2, WriteStep
<1>3. ASSUME NEW b \in Block, flushb(b) PROVE IInv'
  BY <1>3, FlushBlockStep
<1>4. CASE FlushStart
  BY <1>4, FlushStartStep
<1>5. CASE FlushItem
  BY <1>5, FlushItemStep
<1>6. CASE FlushEnd
  BY <1>6, FlushEndStep
<1>7. CASE Crash
  BY <1>7, CrashesStep
<1>8. CASE UNCHANGED vars
  BY <1>8 DEF IInv, TypeOK, SlotsPartitioned, MapMatchesSlots, CleanMatchesImage,
     CrashKeepsRecent, FlushedPrefixClean, DirtyNamesBlock, Content, Cached,
     vars, cacheVars, diskVars
<1> QED BY <1>1, <1>2, <1>3, <1>4, <1>5, <1>6, <1>7, <1>8 DEF Next

LEMMA InitHolds == Init => Fresh
BY DEF Init, Fresh

THEOREM Invariance == Spec => []IInv
<1>1. Init => IInv
  BY InitHolds, FreshHolds
<1> QED BY <1>1, Inductive, PTL DEF Spec

\* Every variable of the cache and of the disk keeps its type.
THEOREM TypeCorrect == Spec => []TypeOK
<1>1. IInv => TypeOK
  BY DEF IInv
<1> QED BY <1>1, Invariance, PTL

\* _lru_list, _free_postion, _lru_map and the slots agree with each other, so
\* none of the asserts of cache.hpp on them can fail.
THEOREM StructuresAgree == Spec => [](SlotsPartitioned /\ MapMatchesSlots)
<1>1. IInv => SlotsPartitioned /\ MapMatchesSlots
  BY DEF IInv
<1> QED BY <1>1, Invariance, PTL

\* No slot of the cache is lost or used twice.
THEOREM SlotsSplit == Spec => []SlotsPartitioned
<1>1. IInv => SlotsPartitioned
  BY DEF IInv
<1> QED BY <1>1, Invariance, PTL

\* No cached change is ever taken for clean.
THEOREM NoLostWrite == Spec => []CleanMatchesImage
<1>1. IInv => CleanMatchesImage
  BY DEF IInv
<1> QED BY <1>1, Invariance, PTL

\* The process may die at any step and leaves in each block of the file a
\* value the block had at or since the last completed flush.
THEOREM CrashSafe == Spec => []CrashKeepsRecent
<1>1. IInv => CrashKeepsRecent
  BY DEF IInv
<1> QED BY <1>1, Invariance, PTL

\* The LRU write-back cache over the buffered image file implements the
\* abstract block device, for every device size, capacity and contents.
THEOREM CacheImplementsDevice == Spec => ImplementsDevice
<1>1. Init => Device!Init
  <2> SUFFICES ASSUME Init PROVE Device!Init
    OBVIOUS
  <2>1. Content = image
    BY InitHolds, FreshHolds
  <2> QED BY <2>1 DEF Init, Device!Init
<1>2. IInv /\ [Next]_vars => [Device!Next]_Device!vars
  <2> SUFFICES ASSUME IInv, [Next]_vars PROVE [Device!Next]_Device!vars
    OBVIOUS
  <2>1. ASSUME NEW b \in Block, read_block(b) PROVE Device!Read(b)
    BY <2>1, ReadStep DEF Device!Read, read_block
  <2>2. ASSUME NEW b \in Block, NEW v \in Data, write_block(b, v)
        PROVE  Device!Write(b, v)
    BY <2>2, WriteStep DEF Device!Write, write_block
  <2>3. ASSUME NEW b \in Block, flushb(b) PROVE UNCHANGED Device!vars
    BY <2>3, FlushBlockStep DEF Device!vars, flushb
  <2>4. CASE FlushStart
    BY <2>4, FlushStartStep DEF Device!vars, FlushStart
  <2>5. CASE FlushItem
    BY <2>5, FlushItemStep DEF Device!vars, FlushItem
  <2>6. ASSUME FlushEnd PROVE Device!Sync
    BY <2>6, FlushEndStep DEF Device!Sync, FlushEnd
  <2>7. ASSUME Crash PROVE Device!Crash
    <3>1. /\ Content' = file /\ reply' = NoReply
          /\ recent' = [b \in Block |-> {file[b]}]
      BY <2>7, CrashesStep
    <3>2. file \in [Block -> Data] /\ \A b \in Block : file[b] \in recent[b]
      BY DEF IInv, TypeOK, CrashKeepsRecent
    <3> QED BY <3>1, <3>2 DEF Device!Crash
  <2>8. CASE UNCHANGED vars
    BY <2>8 DEF Device!vars, Content, Cached, vars, cacheVars, diskVars
  <2> QED BY <2>1, <2>2, <2>3, <2>4, <2>5, <2>6, <2>7, <2>8 DEF Next, Device!Next
<1> QED BY <1>1, <1>2, Invariance, PTL DEF Spec, ImplementsDevice, Device!Spec

-------------------------------------------------------------------------------
(* The order of a list *)

\* Two elements at different places of t were in that order in s, and are not
\* p; or the first is p.
OrderFrom(t, s, p) ==
  \A j, k \in DOMAIN t : j < k =>
    \/ t[j] = p /\ t[k] \in ToSet(s) \ {p}
    \/ \E m, n \in DOMAIN s : /\ m < n
                              /\ t[j] = s[m] /\ t[k] = s[n]
                              /\ s[m] # p /\ s[n] # p

LEMMA MoveToFrontOrder ==
  ASSUME NEW S, NEW s \in Seq(S), IsInjective(s), NEW i \in 1 .. Len(s)
  PROVE  OrderFrom(MoveToFront(s, i), s, s[i])
<1> DEFINE t == MoveToFront(s, i)
           q == RemoveAt(s, i)
           from(k) == IF k = 1 THEN i ELSE IF k <= i THEN k - 1 ELSE k
<1>1. Len(s) \in Nat /\ s[i] \in S /\ DOMAIN s = 1 .. Len(s)
  BY LenProperties, ElementOfSeq
<1>2. /\ q \in Seq(S) /\ Len(q) = Len(s) - 1
      /\ \A k \in 1 .. Len(s) - 1 : q[k] = IF k < i THEN s[k] ELSE s[k+1]
  BY RemoveAtProperties
<1>3. t = <<s[i]>> \o q
  BY DEF MoveToFront
<1> HIDE DEF q, t, from
<1>4. /\ t \in Seq(S) /\ Len(t) = Len(q) + 1
      /\ \A k \in 1 .. Len(q) + 1 : t[k] = IF k = 1 THEN s[i] ELSE q[k-1]
  <2>1. s[i] \in S /\ q \in Seq(S)
    BY <1>1, <1>2
  <2>2. /\ <<s[i]>> \o q \in Seq(S) /\ Len(<<s[i]>> \o q) = Len(q) + 1
        /\ \A k \in 1 .. Len(q) + 1 :
             (<<s[i]>> \o q)[k] = IF k = 1 THEN s[i] ELSE q[k-1]
    BY <2>1, PushProperties
  <2> QED BY <1>3, <2>2
<1>5. DOMAIN t = 1 .. Len(s)
  BY <1>1, <1>2, <1>4, LenProperties
<1>6. ASSUME NEW k \in 1 .. Len(s)
      PROVE  from(k) \in 1 .. Len(s) /\ t[k] = s[from(k)] /\ (from(k) = i <=> k = 1)
  BY <1>1, <1>2, <1>4 DEF from
<1> SUFFICES ASSUME NEW j \in 1 .. Len(s), NEW k \in 1 .. Len(s), j < k
             PROVE  \/ t[j] = s[i] /\ t[k] \in ToSet(s) \ {s[i]}
                    \/ \E m, n \in DOMAIN s : /\ m < n
                                              /\ t[j] = s[m] /\ t[k] = s[n]
                                              /\ s[m] # s[i] /\ s[n] # s[i]
  BY <1>5 DEF OrderFrom, t
<1>7. \A m \in 1 .. Len(s) : m # i => s[m] # s[i]
  BY <1>1 DEF IsInjective
<1>8. from(k) # i /\ s[from(k)] # s[i] /\ s[from(k)] \in ToSet(s)
  <2>1. k # 1
    OBVIOUS
  <2>2. from(k) # i /\ from(k) \in 1 .. Len(s)
    BY <1>6, <2>1
  <2> QED BY <1>1, <1>7, <2>2 DEF ToSet
<1>9. CASE j = 1
  BY <1>6, <1>8, <1>9
<1>10. CASE j # 1
  <2>1. from(j) < from(k)
    BY <1>10 DEF from
  <2>2. from(j) # i
    BY <1>6, <1>10
  <2> QED BY <1>1, <1>6, <1>7, <1>8, <2>1, <2>2
<1> QED BY <1>9, <1>10

LEMMA PushOrder ==
  ASSUME NEW S, NEW s \in Seq(S), NEW p \in S, p \notin ToSet(s)
  PROVE  OrderFrom(<<p>> \o s, s, p)
<1> DEFINE t == <<p>> \o s
<1>1. Len(s) \in Nat /\ DOMAIN s = 1 .. Len(s)
  BY LenProperties
<1>2. /\ t \in Seq(S) /\ Len(t) = Len(s) + 1
      /\ \A k \in 1 .. Len(s) + 1 : t[k] = IF k = 1 THEN p ELSE s[k-1]
  BY PushProperties
<1> HIDE DEF t
<1>3. DOMAIN t = 1 .. Len(s) + 1
  BY <1>2, LenProperties
<1>4. \A k \in 1 .. Len(s) : s[k] \in ToSet(s) /\ s[k] # p
  BY <1>1 DEF ToSet
<1> SUFFICES ASSUME NEW j \in 1 .. Len(s) + 1, NEW k \in 1 .. Len(s) + 1, j < k
             PROVE  \/ t[j] = p /\ t[k] \in ToSet(s) \ {p}
                    \/ \E m, n \in DOMAIN s : /\ m < n
                                              /\ t[j] = s[m] /\ t[k] = s[n]
                                              /\ s[m] # p /\ s[n] # p
  BY <1>3 DEF OrderFrom, t
<1>5. k - 1 \in 1 .. Len(s) /\ t[k] = s[k - 1]
  BY <1>1, <1>2
<1>6. CASE j = 1
  BY <1>2, <1>4, <1>5, <1>6
<1>7. CASE j # 1
  <2>1. j - 1 \in 1 .. Len(s) /\ t[j] = s[j - 1] /\ j - 1 < k - 1
    BY <1>1, <1>2, <1>7
  <2> QED BY <1>1, <1>4, <1>5, <2>1
<1> QED BY <1>6, <1>7

\* The last element moved to the front.
LEMMA RotateOrder ==
  ASSUME NEW S, NEW s \in Seq(S), IsInjective(s), s # <<>>
  PROVE  OrderFrom(<<Last(s)>> \o Front(s), s, Last(s))
<1> DEFINE n == Len(s)
           f == Front(s)
           q == RemoveAt(s, n)
<1>1. n \in Nat \ {0} /\ n \in 1 .. Len(s) /\ Last(s) = s[n]
  BY LenProperties, EmptySeq DEF Last
<1>2. f = q
  <2>1. f \in Seq(S) /\ Len(f) = n - 1 /\ \A k \in 1 .. n - 1 : f[k] = s[k]
    <3>1. \A k \in 1 .. n - 1 : s[k] \in S
      BY <1>1, ElementOfSeq
    <3>2. /\ f \in Seq(S)
          /\ Len(f) = IF 1 <= n-1 THEN (n-1)-1+1 ELSE 0
          /\ \A k \in 1 .. (n-1)-1+1 : f[k] = s[1+k-1]
      BY <1>1, <3>1, SubSeqProperties DEF Front
    <3> HIDE DEF n, f
    <3> QED BY <1>1, <3>2
  <2>2. q \in Seq(S) /\ Len(q) = n - 1 /\ \A k \in 1 .. n - 1 : q[k] = s[k]
    <3>1. /\ q \in Seq(S) /\ Len(q) = n - 1
          /\ \A k \in 1 .. n - 1 : q[k] = IF k < n THEN s[k] ELSE s[k+1]
      BY <1>1, RemoveAtProperties
    <3> HIDE DEF n, q
    <3> QED BY <1>1, <3>1
  <2> HIDE DEF n, f, q
  <2> QED BY <1>1, <2>1, <2>2, SeqEqual
<1>3. <<Last(s)>> \o f = MoveToFront(s, n)
  BY <1>1, <1>2 DEF MoveToFront
<1>4. OrderFrom(MoveToFront(s, n), s, s[n])
  BY <1>1, MoveToFrontOrder
<1> QED BY <1>1, <1>3, <1>4

-------------------------------------------------------------------------------
(* Accesses *)

\* How the list changes when b gets the slot p.
LEMMA ListEffect ==
  ASSUME IInv, NEW b \in Block, NEW p \in Pos, Locate(b, p)
  PROVE  OrderFrom(lru_list', lru_list, p)
<1>1. /\ lru_list \in Seq(Pos) /\ IsInjective(lru_list)
      /\ free_position \in Seq(Pos) /\ IsInjective(free_position)
      /\ ToSet(lru_list) \cap ToSet(free_position) = {}
  BY DEF IInv, TypeOK, SlotsPartitioned
<1>2. CASE Hit(b, p)
  <2>1. PICK i \in 1 .. Len(lru_list) : /\ lru_list[i] = p
                                        /\ lru_list' = MoveToFront(lru_list, i)
    BY <1>2 DEF Hit
  <2> QED BY <1>1, <2>1, MoveToFrontOrder
<1>3. CASE LoadFree(b, p)
  <2>1. free_position # <<>> /\ p = Head(free_position) /\ lru_list' = <<p>> \o lru_list
    BY <1>3 DEF LoadFree
  <2>2. p \notin ToSet(lru_list)
    BY <1>1, <2>1, TailDropsHead
  <2> QED BY <1>1, <2>1, <2>2, PushOrder
<1>4. CASE LoadEvict(b, p)
  <2>1. lru_list # <<>> /\ p = Last(lru_list) /\ lru_list' = <<p>> \o Front(lru_list)
    BY <1>4 DEF LoadEvict
  <2> QED BY <1>1, <2>1, RotateOrder
<1> QED BY <1>2, <1>3, <1>4 DEF Locate

\* A block that loses its slot was in the last of the list, and no slot is free.
LEMMA Victim ==
  ASSUME IInv, NEW b \in Block, NEW p \in Pos, Locate(b, p),
         NEW x \in Block, x # b, lru_map[x] # NoPos, lru_map'[x] = NoPos
  PROVE  /\ lru_map[x] = p /\ cache[p].block_idx = x
         /\ lru_list # <<>> /\ p = Last(lru_list)
         /\ free_position = <<>> /\ free_position' = <<>>
<1>1. LocateEffect(b, p)
  BY Locating
<1>2. lru_map[x] = p
  BY <1>1 DEF LocateEffect
<1>3. cache[p].block_idx = x /\ p \in ToSet(lru_list)
  BY <1>2 DEF IInv, MapMatchesSlots, Cached
<1>4. ~Hit(b, p)
  <2>1. Hit(b, p) => lru_map' = lru_map
    BY DEF Hit
  <2> QED BY <2>1
<1>5. ~LoadFree(b, p)
  <2>1. LoadFree(b, p) => p \in ToSet(free_position)
    BY TailDropsHead DEF LoadFree, IInv, TypeOK, SlotsPartitioned
  <2> QED BY <1>3, <2>1 DEF IInv, SlotsPartitioned
<1>6. LoadEvict(b, p)
  BY <1>4, <1>5 DEF Locate
<1> QED BY <1>2, <1>3, <1>6 DEF LoadEvict

LEMMA AccessKeepsOrder ==
  ASSUME IInv, HoldsMostRecent, later \subseteq Block \X Block,
         NEW b \in Block, NEW p \in Pos, Locate(b, p),
         NEW it, it.block_idx = b, cache' = [cache EXCEPT ![p] = it],
         later' = Touch(b)
  PROVE  HoldsMostRecent' /\ later' \subseteq Block \X Block
<1>1. LocateEffect(b, p) /\ OrderFrom(lru_list', lru_list, p)
  BY Locating, ListEffect
<1>2. /\ lru_list \in Seq(Pos) /\ lru_list' \in Seq(Pos)
      /\ lru_map \in [Block -> Pos \cup {NoPos}] /\ lru_map' \in [Block -> Pos \cup {NoPos}]
      /\ DOMAIN cache = Pos
  BY <1>1 DEF IInv, TypeOK, LocateEffect
<1>3. /\ cache'[p].block_idx = b
      /\ \A q \in Pos \ {p} : cache'[q] = cache[q]
  BY <1>2
<1>4. /\ DOMAIN lru_list = 1 .. Len(lru_list) /\ Len(lru_list) \in Nat
      /\ \A i \in DOMAIN lru_list : lru_list[i] \in ToSet(lru_list) /\ lru_list[i] \in Pos
      /\ \A i \in DOMAIN lru_list' : lru_list'[i] \in ToSet(lru_list')
  BY <1>2, LenProperties, ElementOfSeq DEF ToSet
<1>5. ASSUME NEW q \in ToSet(lru_list) \ {p}
      PROVE  /\ q \in Pos \ {p}
             /\ cache'[q].block_idx = cache[q].block_idx
             /\ cache[q].block_idx \in Block \ {b}
  <2>1. q \in Pos
    BY DEF IInv, SlotsPartitioned
  <2>2. cache[q].block_idx \in Block /\ lru_map[cache[q].block_idx] = q
    BY DEF IInv, MapMatchesSlots
  <2>3. lru_map[b] \in {p, NoPos}
    BY <1>1 DEF LocateEffect
  <2> QED BY <1>3, <2>1, <2>2, <2>3, Positions
<1>6. /\ \A x, y : <<x, y>> \in later /\ y # b => <<x, y>> \in later'
      /\ \A y \in Block \ {b} : <<b, y>> \in later'
  BY DEF Touch
<1>7. ASSUME NEW i \in DOMAIN lru_list', NEW j \in DOMAIN lru_list', i < j
      PROVE  <<Listed(i)', Listed(j)'>> \in later'
  <2>1. CASE lru_list'[i] = p /\ lru_list'[j] \in ToSet(lru_list) \ {p}
    BY <1>3, <1>5, <1>6, <2>1 DEF Listed
  <2>2. CASE \E m, n \in DOMAIN lru_list :
               /\ m < n
               /\ lru_list'[i] = lru_list[m] /\ lru_list'[j] = lru_list[n]
               /\ lru_list[m] # p /\ lru_list[n] # p
    <3>1. PICK m \in DOMAIN lru_list, n \in DOMAIN lru_list :
            /\ m < n
            /\ lru_list'[i] = lru_list[m] /\ lru_list'[j] = lru_list[n]
            /\ lru_list[m] # p /\ lru_list[n] # p
      BY <2>2
    <3>2. <<Listed(m), Listed(n)>> \in later
      BY <3>1 DEF HoldsMostRecent
    <3>3. Listed(i)' = Listed(m) /\ Listed(j)' = Listed(n) /\ Listed(n) # b
      BY <1>4, <1>5, <3>1 DEF Listed
    <3> QED BY <1>6, <3>2, <3>3
  <2> QED BY <1>1, <1>7, <2>1, <2>2 DEF OrderFrom
<1>8. ASSUME NEW x \in Block, lru_map'[x] = NoPos, NEW i \in DOMAIN lru_list'
      PROVE  <<Listed(i)', x>> \in later'
  <2>1. x # b
    BY <1>1, <1>8, Positions DEF LocateEffect
  <2>2. lru_list'[i] \in ToSet(lru_list) \cup {p}
    BY <1>1, <1>4 DEF LocateEffect
  <2>3. CASE lru_list'[i] = p
    BY <1>3, <1>6, <2>1, <2>3 DEF Listed
  <2>4. CASE lru_list'[i] # p
    <3>1. PICK m \in DOMAIN lru_list : lru_list'[i] = lru_list[m]
      BY <2>2, <2>4 DEF ToSet
    <3>2. Listed(i)' = Listed(m)
      BY <1>4, <1>5, <2>4, <3>1 DEF Listed
    <3>3. CASE lru_map[x] = NoPos
      <4>1. <<Listed(m), x>> \in later
        BY <3>3 DEF HoldsMostRecent, Cached
      <4> QED BY <1>6, <2>1, <3>2, <4>1
    <3>4. CASE lru_map[x] # NoPos
      <4>1. /\ cache[p].block_idx = x
            /\ lru_list # <<>> /\ p = Last(lru_list)
        BY <1>8, <2>1, <3>4, Victim
      <4>2. Len(lru_list) \in DOMAIN lru_list /\ lru_list[Len(lru_list)] = p
        BY <1>2, <1>4, <4>1, EmptySeq DEF Last
      <4>3. m < Len(lru_list) /\ Listed(Len(lru_list)) = x
        BY <1>4, <2>4, <3>1, <4>1, <4>2 DEF Listed
      <4>4. <<Listed(m), x>> \in later
        BY <4>2, <4>3 DEF HoldsMostRecent
      <4> QED BY <1>6, <2>1, <3>2, <4>4
    <3> QED BY <3>3, <3>4
  <2> QED BY <2>3, <2>4
<1>9. ASSUME NEW r \in later', ~(lru_map'[r[1]] # NoPos)
      PROVE  free_position' = <<>>
  <2>1. r[1] # b
    BY <1>1, <1>9, Positions DEF LocateEffect
  <2>2. r \in later
    BY <2>1 DEF Touch
  <2>3. CASE free_position = <<>>
    <3>1. ToSet(free_position') = {}
      BY <1>1, <2>3 DEF LocateEffect, ToSet
    <3>2. free_position' \in Seq(Pos)
      BY <1>1 DEF LocateEffect
    <3>3. DOMAIN free_position' = 1 .. Len(free_position') /\ Len(free_position') \in Nat
      BY <3>2, LenProperties
    <3>4. DOMAIN free_position' = {}
      BY <3>1 DEF ToSet
    <3>5. Len(free_position') = 0
      <4>1. 1 \notin 1 .. Len(free_position')
        BY <3>3, <3>4
      <4> QED BY <3>3, <4>1
    <3> QED BY <3>2, <3>5, EmptySeq
  <2>4. CASE free_position # <<>>
    <3>1. lru_map[r[1]] # NoPos
      BY <2>2, <2>4 DEF HoldsMostRecent, Cached
    <3>2. r[1] \in Block
      BY <2>2
    <3> QED BY <1>9, <2>1, <3>1, <3>2, Victim
  <2> QED BY <2>3, <2>4
<1>10. later' \subseteq Block \X Block
  BY DEF Touch
<1> QED BY <1>7, <1>8, <1>9, <1>10 DEF HoldsMostRecent, Cached

-------------------------------------------------------------------------------
(* The invariant is inductive *)

\* The inductive invariant.
LruInv == IInv /\ later \subseteq Block \X Block /\ HoldsMostRecent

LEMMA AccessKeeps ==
  ASSUME LruInv, NEW b \in Block, Access(b)
  PROVE  HoldsMostRecent' /\ later' \subseteq Block \X Block
<1>1. IInv /\ HoldsMostRecent /\ later \subseteq Block \X Block /\ later' = Touch(b)
  BY DEF LruInv, Access
<1>2. CASE read_block(b)
  <2>1. PICK p \in Pos : Locate(b, p) /\ cache' = [cache EXCEPT ![p] = Located(b, p)]
    BY <1>2 DEF read_block
  <2>2. Located(b, p).block_idx = b
    BY <1>1, <2>1, LocatedItem
  <2> QED BY <1>1, <2>1, <2>2, AccessKeepsOrder
<1>3. ASSUME NEW v \in Data, write_block(b, v)
      PROVE  HoldsMostRecent' /\ later' \subseteq Block \X Block
  <2> DEFINE it == [data |-> v, block_idx |-> b, dirty |-> TRUE]
  <2>1. PICK p \in Pos : Locate(b, p) /\ cache' = [cache EXCEPT ![p] = it]
    BY <1>3 DEF write_block
  <2>2. it.block_idx = b
    OBVIOUS
  <2> HIDE DEF it
  <2> QED BY <1>1, <2>1, <2>2, AccessKeepsOrder
<1> QED BY <1>2, <1>3 DEF Access

\* A step that moves no slot and renames none keeps the order.
LEMMA SameSlotsKeep ==
  ASSUME LruInv, UNCHANGED <<free_position, lru_list, lru_map, later>>,
         \A p \in Pos : cache'[p].block_idx = cache[p].block_idx
  PROVE  HoldsMostRecent' /\ later' \subseteq Block \X Block
<1>1. \A i \in DOMAIN lru_list : lru_list[i] \in Pos
  BY ElementOfSeq, LenProperties DEF LruInv, IInv, TypeOK
<1>2. \A i \in DOMAIN lru_list : Listed(i)' = Listed(i)
  BY <1>1 DEF Listed
<1>3. \A b : Cached(b)' <=> Cached(b)
  BY DEF Cached
<1> QED BY <1>2, <1>3 DEF LruInv, HoldsMostRecent

LEMMA WriteBackRenamesNone ==
  ASSUME IInv, NEW p \in Pos, WriteItemBack(p)
  PROVE  \A q \in Pos : cache'[q].block_idx = cache[q].block_idx
<1>1. cache \in [Pos -> Item]
  BY DEF IInv, TypeOK
<1>2. CASE cache' = cache
  BY <1>2
<1>3. CASE cache' = [cache EXCEPT ![p].dirty = FALSE]
  BY <1>1, <1>3 DEF Item
<1> QED BY <1>2, <1>3 DEF WriteItemBack

LEMMA MaintainKeeps ==
  ASSUME LruInv, Maintain
  PROVE  HoldsMostRecent' /\ later' \subseteq Block \X Block
<1>1. IInv /\ later' = later
  BY DEF LruInv, Maintain
<1>2. ASSUME NEW b \in Block, flushb(b)
      PROVE  HoldsMostRecent' /\ later' \subseteq Block \X Block
  <2>1. lru_map[b] \in Pos
    BY <1>1, <1>2 DEF flushb, Cached, IInv, TypeOK
  <2>2. \A q \in Pos : cache'[q].block_idx = cache[q].block_idx
    BY <1>1, <1>2, <2>1, WriteBackRenamesNone DEF flushb
  <2> QED BY <1>1, <1>2, <2>2, SameSlotsKeep DEF flushb
<1>3. CASE FlushItem
  <2>1. \A q \in Pos : cache'[q].block_idx = cache[q].block_idx
    BY <1>1, <1>3, WriteBackRenamesNone DEF FlushItem
  <2> QED BY <1>1, <1>3, <2>1, SameSlotsKeep DEF FlushItem
<1>4. CASE FlushStart \/ FlushEnd
  BY <1>1, <1>4, SameSlotsKeep DEF FlushStart, FlushEnd, cacheVars
<1> QED BY <1>2, <1>3, <1>4 DEF Maintain

LEMMA EmptyListHolds ==
  ASSUME lru_list = <<>>, later = {}
  PROVE  HoldsMostRecent /\ later \subseteq Block \X Block
BY DEF HoldsMostRecent

LEMMA RestartKeeps ==
  ASSUME Restart
  PROVE  HoldsMostRecent' /\ later' \subseteq Block \X Block
<1>1. lru_list' = <<>> /\ later' = {}
  BY DEF Restart, Crash
<1> QED BY <1>1 DEF HoldsMostRecent

\* Every step of the cache with its history is one of the cache, and keeps the
\* order.
LEMMA LruInductive == LruInv /\ [LruNext]_<<vars, later>> => LruInv'
<1> SUFFICES ASSUME LruInv, [LruNext]_<<vars, later>> PROVE LruInv'
  OBVIOUS
<1>1. IInv'
  <2>1. [Next]_vars
    BY DEF LruNext, Access, Maintain, Restart, Next
  <2> QED BY <2>1, Inductive DEF LruInv
<1>2. HoldsMostRecent' /\ later' \subseteq Block \X Block
  <2>1. CASE \E b \in Block : Access(b)
    BY <2>1, AccessKeeps
  <2>2. CASE Maintain
    BY <2>2, MaintainKeeps
  <2>3. CASE Restart
    BY <2>3, RestartKeeps
  <2>4. CASE UNCHANGED <<vars, later>>
    BY <2>4, SameSlotsKeep DEF vars, cacheVars
  <2> QED BY <2>1, <2>2, <2>3, <2>4 DEF LruNext
<1> QED BY <1>1, <1>2 DEF LruInv

LEMMA LruInitHolds == LruInit => LruInv
<1> SUFFICES ASSUME LruInit PROVE LruInv
  OBVIOUS
<1>1. IInv
  BY InitHolds, FreshHolds DEF LruInit
<1>2. lru_list = <<>> /\ later = {}
  BY DEF LruInit, Init, NewCache
<1> QED BY <1>1, <1>2, EmptyListHolds DEF LruInv

\* The cache holds the blocks accessed last, in the order of their last access:
\* every eviction takes the block unused the longest, and only when it must.
THEOREM EvictsLeastRecent == LruSpec => []HoldsMostRecent
<1>1. LruInv => HoldsMostRecent
  BY DEF LruInv
<1> QED BY <1>1, LruInitHolds, LruInductive, PTL DEF LruSpec
===============================================================================
