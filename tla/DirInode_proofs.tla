---------------------------- MODULE DirInode_proofs ----------------------------
(***************************************************************************)
(* Proofs about DirBlock and DirInode: for every block size, every set of  *)
(* names with their lengths and every sequence of calls, the records of a  *)
(* directory's blocks tile them, the dots stay, and the directory is a set *)
(* of entries (Directory).                                                 *)
(***************************************************************************)
EXTENDS DirInode, NatFacts, SequenceTheorems, FiniteSetTheorems

-------------------------------------------------------------------------------
(* Blocks *)

LEMMA EntrySizes ==
  /\ \A name \in FileName : EntSize(name) \in Nat /\ EntSize(name) >= 9
                            /\ 24 + EntSize(name) <= BLOCK_SIZE
  /\ EntSize(Dot) = 12 /\ EntSize(DotDot) = 12
  /\ BLOCK_SIZE \in Nat /\ BLOCK_SIZE > 24
<1>1. \A len \in Nat : ((len + 12) \div 4) * 4 \in Nat /\ ((len + 12) \div 4) * 4 >= 9
  OBVIOUS
<1>2. ASSUME NEW name \in FileName
      PROVE  EntSize(name) \in Nat /\ EntSize(name) >= 9 /\ 24 + EntSize(name) <= BLOCK_SIZE
  <2>1. NameLen[name] \in Nat
    BY NameAssumption
  <2>2. EntSize(name) = ((NameLen[name] + 12) \div 4) * 4
    BY <2>1 DEF EntSize
  <2> QED BY <1>1, <2>1, <2>2, NameAssumption
<1>3. Dot \in FileName /\ DotDot \in FileName
  BY DEF FileName
<1>4. EntSize(Dot) = 12 /\ EntSize(DotDot) = 12
  BY NameAssumption DEF EntSize
<1> QED BY <1>2, <1>3, <1>4, NameAssumption

\* What the type of a block says of its entries.
LEMMA BlockEntries ==
  ASSUME NEW I, NEW blk, IsBlock(blk, I), NEW o \in Starts(blk)
  PROVE  /\ o \in Nat /\ o < BLOCK_SIZE
         /\ blk[o] \in [inode : I, name : FileName, rec_len : 0 .. BLOCK_SIZE]
         /\ blk[o].inode \in I /\ blk[o].name \in FileName /\ blk[o].rec_len \in Nat
         /\ EntSize(blk[o].name) \in Nat /\ EntSize(blk[o].name) >= 9
BY EntrySizes DEF IsBlock, Offset

\* Every block of a directory starts with the dots, whatever follows them.
Led(blk) == 12 \in Starts(blk) /\ blk[0].name = Dot /\ blk[12].name = DotDot
WellFormed(blk, I) == IsBlock(blk, I) /\ Tiled(blk) /\ Led(blk)

\* A fresh block holds the dots and nothing else.
LEMMA FreshBlock ==
  ASSUME NEW I, NEW n \in I, NEW up \in I, NEW blk, blk = init_entry_block(n, up)
  PROVE  /\ WellFormed(blk, I) /\ Starts(blk) = {0, 12}
         /\ blk[0] = Entry(Dot, n, 12) /\ blk[12] = Entry(DotDot, up, BLOCK_SIZE - 12)
<1>1. /\ Starts(blk) = {0, 12}
      /\ blk[0] = [inode |-> n, name |-> Dot, rec_len |-> 12]
      /\ blk[12] = [inode |-> up, name |-> DotDot, rec_len |-> BLOCK_SIZE - 12]
      /\ blk = [o \in {0, 12} |-> blk[o]]
  BY DEF init_entry_block, Starts, Entry
<1>2. BLOCK_SIZE - 12 \in 0 .. BLOCK_SIZE /\ 12 \in 0 .. BLOCK_SIZE - 1 /\ 12 \in 0 .. BLOCK_SIZE
      /\ BLOCK_SIZE - 12 >= 12 /\ 12 + (BLOCK_SIZE - 12) = BLOCK_SIZE
  BY EntrySizes
<1>3. IsBlock(blk, I)
  <2>1. /\ blk[0] \in [inode : I, name : FileName, rec_len : 0 .. BLOCK_SIZE]
        /\ blk[12] \in [inode : I, name : FileName, rec_len : 0 .. BLOCK_SIZE]
    BY <1>1, <1>2 DEF FileName
  <2> QED BY <1>1, <1>2, <2>1 DEF IsBlock, Offset
<1>4. Tiled(blk)
  BY <1>1, <1>2, EntrySizes DEF Tiled, EndOf
<1> QED BY <1>1, <1>3, <1>4 DEF WellFormed, Led, Entry

\* A record that is cut in two tiles the block again, and the only entry that
\* is new is the one added.
LEMMA InsertEntry ==
  ASSUME NEW I, NEW blk, WellFormed(blk, I), NEW name \in FileName, NEW n \in I,
         NEW o \in Gaps(blk, name), NEW b, b = Insert(blk, o, name, n)
  PROVE  /\ WellFormed(b, I)
         /\ o + EntSize(blk[o].name) \notin Starts(blk)
         /\ Starts(b) = Starts(blk) \cup {o + EntSize(blk[o].name)}
         /\ b[o + EntSize(blk[o].name)].name = name
         /\ b[o + EntSize(blk[o].name)].inode = n
         /\ \A q \in Starts(blk) : b[q].name = blk[q].name /\ b[q].inode = blk[q].inode
<1> DEFINE e == EntSize(blk[o].name)
           r == blk[o].rec_len
           m == EntSize(name)
           new == o + e
<1>1. o \in Starts(blk) /\ r - e >= m
  BY DEF Gaps, Remain
<1>2. /\ o \in Nat /\ e \in Nat /\ e >= 9 /\ r \in Nat /\ m \in Nat /\ m >= 9
      /\ BLOCK_SIZE \in Nat
  BY <1>1, BlockEntries, EntrySizes DEF WellFormed
<1>3. /\ o + r \in Starts(blk) \cup {BLOCK_SIZE}
      /\ \A q \in Starts(blk) : q > o => q >= o + r
  BY <1>1 DEF WellFormed, Tiled, EndOf
<1>4. o + r <= BLOCK_SIZE
  <2>1. \A q \in Starts(blk) : q <= BLOCK_SIZE
    BY BlockEntries, EntrySizes DEF WellFormed
  <2> QED BY <1>2, <1>3, <2>1
<1>5. new \in Nat /\ new > o /\ new < o + r /\ new < BLOCK_SIZE /\ new + (r - e) = o + r
  BY <1>1, <1>2, <1>4
<1>6. new \notin Starts(blk)
  <2> SUFFICES ASSUME new \in Starts(blk) PROVE FALSE
    OBVIOUS
  <2>1. new >= o + r
    BY <1>3, <1>5
  <2> QED BY <1>2, <1>5, <2>1
<1>7. /\ Starts(b) = Starts(blk) \cup {new}
      /\ b = [q \in Starts(b) |-> b[q]]
      /\ b[o] = [blk[o] EXCEPT !.rec_len = e]
      /\ b[new] = [inode |-> n, name |-> name, rec_len |-> r - e]
      /\ \A q \in Starts(blk) : q # o => b[q] = blk[q]
  BY <1>1, <1>6 DEF Insert, Starts, Entry, Remain
<1>8. blk[o] \in [inode : I, name : FileName, rec_len : 0 .. BLOCK_SIZE]
  BY <1>1, BlockEntries DEF WellFormed
<1>9. b[o].name = blk[o].name /\ b[o].inode = blk[o].inode /\ b[o].rec_len = e
  BY <1>7, <1>8
<1> HIDE DEF e, r, m, new
<1>10. \A q \in Starts(blk) : b[q].name = blk[q].name /\ b[q].inode = blk[q].inode
  BY <1>7, <1>9
<1>11. IsBlock(b, I)
  <2>1. Starts(b) \subseteq Offset
    BY <1>2, <1>5, <1>7 DEF WellFormed, IsBlock, Offset
  <2>2. ASSUME NEW q \in Starts(b)
        PROVE  b[q] \in [inode : I, name : FileName, rec_len : 0 .. BLOCK_SIZE]
    <3>1. CASE q = o
      <4>1. e \in 0 .. BLOCK_SIZE
        BY <1>2, <1>4, <1>5 DEF new
      <4> QED BY <1>7, <1>8, <3>1, <4>1
    <3>2. CASE q = new
      <4>1. r - e \in 0 .. BLOCK_SIZE
        BY <1>1, <1>2, <1>4
      <4> QED BY <1>2, <1>7, <3>2, <4>1
    <3>3. CASE q \in Starts(blk) /\ q # o
      BY <1>7, <3>3 DEF WellFormed, IsBlock
    <3> QED BY <1>7, <3>1, <3>2, <3>3
  <2> QED BY <1>7, <2>1, <2>2 DEF IsBlock
<1>12. Tiled(b)
  <2>1. 0 \in Starts(b)
    BY <1>7 DEF WellFormed, Tiled
  <2>2. ASSUME NEW q \in Starts(b)
        PROVE  /\ b[q].rec_len >= EntSize(b[q].name)
               /\ q + b[q].rec_len \in Starts(b) \cup {BLOCK_SIZE}
               /\ \A p \in Starts(b) : p > q => p >= q + b[q].rec_len
    <3>1. CASE q = o
      <4>1. \A p \in Starts(b) : p > o => p >= new
        BY <1>2, <1>3, <1>5, <1>7, BlockEntries DEF WellFormed
      <4>2. EntSize(b[o].name) = e /\ b[o].rec_len = e /\ o + b[o].rec_len = new
        BY <1>9 DEF new, e
      <4>3. b[o].rec_len >= EntSize(b[o].name)
        BY <1>2, <4>2
      <4>4. o + b[o].rec_len \in Starts(b) \cup {BLOCK_SIZE}
        BY <1>7, <4>2
      <4>5. \A p \in Starts(b) : p > o => p >= o + b[o].rec_len
        BY <4>1, <4>2
      <4> QED BY <3>1, <4>3, <4>4, <4>5
    <3>2. CASE q = new
      <4>1. b[new].rec_len = r - e /\ b[new].name = name
        BY <1>7
      <4>2. \A p \in Starts(b) : p > new => p >= o + r
        BY <1>2, <1>3, <1>5, <1>7, BlockEntries DEF WellFormed
      <4>3. o + r \in Starts(b) \cup {BLOCK_SIZE}
        BY <1>3, <1>7
      <4> QED BY <1>1, <1>5, <3>2, <4>1, <4>2, <4>3 DEF m
    <3>3. CASE q \in Starts(blk) /\ q # o
      <4>1. /\ b[q] = blk[q]
            /\ b[q].rec_len >= EntSize(b[q].name)
            /\ q + b[q].rec_len \in Starts(b) \cup {BLOCK_SIZE}
            /\ \A p \in Starts(blk) : p > q => p >= q + b[q].rec_len
        BY <1>7, <3>3 DEF WellFormed, Tiled, EndOf
      <4>2. new > q => new >= q + b[q].rec_len
        <5>1. q \in Nat /\ b[q].rec_len \in Nat
          BY <3>3, <4>1, BlockEntries DEF WellFormed
        <5>2. CASE q < o
          BY <1>1, <1>2, <1>5, <4>1, <5>1, <5>2
        <5>3. CASE q > o
          <6>1. q >= o + r
            BY <1>3, <3>3, <5>3
          <6> QED BY <1>2, <1>5, <5>1, <6>1
        <5> QED BY <1>2, <3>3, <5>1, <5>2, <5>3
      <4> QED BY <1>7, <4>1, <4>2
    <3> QED BY <1>7, <3>1, <3>2, <3>3
  <2> QED BY <2>1, <2>2 DEF Tiled, EndOf
<1>13. Led(b)
  BY <1>7, <1>10 DEF WellFormed, Tiled, Led
<1> QED BY <1>6, <1>7, <1>10, <1>11, <1>12, <1>13 DEF WellFormed, new, e

\* Taking an entry out, but for the dots, leaves the block tiled, because the
\* entry met before it on the walk ends where it starts.
LEMMA UnlinkEntry ==
  ASSUME NEW I, NEW blk, WellFormed(blk, I), NEW o \in Starts(blk) \ {0, 12},
         NEW b, b = Unlinked(blk, o)
  PROVE  /\ WellFormed(b, I)
         /\ Starts(b) = Starts(blk) \ {o}
         /\ \A q \in Starts(b) : b[q].name = blk[q].name /\ b[q].inode = blk[q].inode
<1> DEFINE p == Preceding(blk, o)
           r == blk[o].rec_len
<1>1. /\ \A q \in Starts(blk) : q \in Nat /\ q < BLOCK_SIZE /\ blk[q].rec_len \in Nat
      /\ \A q \in Starts(blk) : blk[q].rec_len >= 9
      /\ BLOCK_SIZE \in Nat
  <2>1. ASSUME NEW q \in Starts(blk) PROVE blk[q].rec_len >= 9
    BY BlockEntries DEF WellFormed, Tiled
  <2> QED BY <2>1, BlockEntries, EntrySizes DEF WellFormed
<1>2. p \in Starts(blk) /\ p < o /\ \A q \in Starts(blk) : q < o => q <= p
  <2> DEFINE S == {q \in Starts(blk) : q < o}
  <2>1. S \in SUBSET Nat /\ 0 \in S /\ \A q \in S : q <= o
    BY <1>1 DEF WellFormed, Tiled
  <2>2. o \in Nat
    BY <1>1
  <2>3. p = Max(S)
    BY DEF Preceding
  <2> HIDE DEF S
  <2>4. p \in S /\ \A q \in S : q <= p
    BY <2>1, <2>2, <2>3, MaxIsGreatest
  <2> QED BY <2>4 DEF S
<1>3. p + blk[p].rec_len = o
  <2>1. /\ p + blk[p].rec_len \in Starts(blk) \cup {BLOCK_SIZE}
        /\ o >= p + blk[p].rec_len
    BY <1>2 DEF WellFormed, Tiled, EndOf
  <2>2. CASE p + blk[p].rec_len < o
    BY <1>1, <1>2, <2>1, <2>2
  <2> QED BY <1>1, <1>2, <2>1, <2>2
<1>4. /\ o + r \in Starts(blk) \cup {BLOCK_SIZE}
      /\ \A q \in Starts(blk) : q > o => q >= o + r
      /\ o + r <= BLOCK_SIZE
  <2>1. /\ o + r \in Starts(blk) \cup {BLOCK_SIZE}
        /\ \A q \in Starts(blk) : q > o => q >= o + r
    BY DEF WellFormed, Tiled, EndOf
  <2> QED BY <1>1, <2>1
<1>5. blk[p] \in [inode : I, name : FileName, rec_len : 0 .. BLOCK_SIZE]
  BY <1>2, BlockEntries DEF WellFormed
<1>6. /\ Starts(b) = Starts(blk) \ {o}
      /\ b = [q \in Starts(b) |-> b[q]]
      /\ b[p] = [blk[p] EXCEPT !.rec_len = @ + r]
      /\ \A q \in Starts(b) : q # p => b[q] = blk[q]
  BY <1>1, <1>2 DEF Unlinked, Starts
<1>7. b[p].name = blk[p].name /\ b[p].inode = blk[p].inode /\ b[p].rec_len = blk[p].rec_len + r
  BY <1>5, <1>6
<1>8. \A q \in Starts(b) : b[q].name = blk[q].name /\ b[q].inode = blk[q].inode
  BY <1>6, <1>7
<1>9. p + b[p].rec_len = o + r /\ p \in Starts(b) /\ r \in Nat /\ o \in Nat /\ p \in Nat
  BY <1>1, <1>2, <1>3, <1>6, <1>7
<1> HIDE DEF p, r
<1>10. IsBlock(b, I)
  <2>1. Starts(b) \subseteq Offset
    BY <1>6 DEF WellFormed, IsBlock
  <2>2. ASSUME NEW q \in Starts(b)
        PROVE  b[q] \in [inode : I, name : FileName, rec_len : 0 .. BLOCK_SIZE]
    <3>1. CASE q = p
      <4>1. blk[p].rec_len + r \in 0 .. BLOCK_SIZE
        BY <1>1, <1>2, <1>3, <1>4, <1>9
      <4> QED BY <1>5, <1>6, <3>1, <4>1
    <3>2. CASE q # p
      BY <1>6, <3>2 DEF WellFormed, IsBlock
    <3> QED BY <3>1, <3>2
  <2> QED BY <1>6, <2>1, <2>2 DEF IsBlock
<1>11. Tiled(b)
  <2>1. 0 \in Starts(b)
    BY <1>6 DEF WellFormed, Tiled
  <2>2. ASSUME NEW q \in Starts(b)
        PROVE  /\ b[q].rec_len >= EntSize(b[q].name)
               /\ q + b[q].rec_len \in Starts(b) \cup {BLOCK_SIZE}
               /\ \A x \in Starts(b) : x > q => x >= q + b[q].rec_len
    <3>1. CASE q = p
      <4>1. b[p].rec_len >= EntSize(b[p].name)
        <5>1. blk[p].rec_len >= EntSize(blk[p].name) /\ EntSize(blk[p].name) \in Nat
          BY <1>2, BlockEntries DEF WellFormed, Tiled
        <5>2. EntSize(b[p].name) = EntSize(blk[p].name)
          BY <1>7
        <5> QED BY <1>1, <1>2, <1>7, <1>9, <5>1, <5>2
      <4>2. p + b[p].rec_len \in Starts(b) \cup {BLOCK_SIZE}
        <5>1. o + r # o
          BY <1>1, <1>9 DEF r
        <5> QED BY <1>4, <1>6, <1>9, <5>1
      <4>3. ASSUME NEW x \in Starts(b), x > p PROVE x >= p + b[p].rec_len
        <5>1. x \in Starts(blk) /\ x # o /\ x \in Nat
          BY <1>1, <1>6
        <5>2. x > o
          BY <1>2, <1>9, <4>3, <5>1
        <5> QED BY <1>4, <1>9, <5>1, <5>2
      <4> QED BY <3>1, <4>1, <4>2, <4>3
    <3>2. CASE q # p
      <4>1. /\ b[q] = blk[q] /\ q \in Starts(blk)
            /\ b[q].rec_len >= EntSize(b[q].name)
            /\ q + b[q].rec_len \in Starts(blk) \cup {BLOCK_SIZE}
            /\ \A x \in Starts(blk) : x > q => x >= q + b[q].rec_len
        BY <1>6, <3>2 DEF WellFormed, Tiled, EndOf
      <4>2. q + b[q].rec_len # o
        <5> SUFFICES ASSUME q + b[q].rec_len = o PROVE FALSE
          OBVIOUS
        <5>1. q < o /\ q \in Nat /\ blk[q].rec_len \in Nat /\ blk[q].rec_len >= 9
          BY <1>1, <1>9, <4>1
        <5>2. q < p
          BY <1>2, <1>9, <3>2, <4>1, <5>1
        <5>3. p >= o
          BY <1>2, <4>1, <5>2
        <5> QED BY <1>2, <1>9, <5>3
      <4> QED BY <1>6, <4>1, <4>2
    <3> QED BY <3>1, <3>2
  <2> QED BY <2>1, <2>2 DEF Tiled, EndOf
<1>12. Led(b)
  BY <1>6, <1>8 DEF WellFormed, Tiled, Led
<1> QED BY <1>6, <1>8, <1>10, <1>11, <1>12 DEF WellFormed

-------------------------------------------------------------------------------
(* Listings: what get_inode_all_entry meets and keeps *)

\* The walk of a block meets each of its entries once, by offset, after the dots.
EntryOf(I) == [inode : I, name : FileName, rec_len : 0 .. BLOCK_SIZE]

Visits(w, at, blk) ==
  /\ at \in [1 .. Len(w) -> Starts(blk)] /\ \A i \in 1 .. Len(w) : w[i] = blk[at[i]]
  /\ \A i, j \in 1 .. Len(w) : at[i] = at[j] => i = j
  /\ \A o \in Starts(blk) : \E i \in 1 .. Len(w) : at[i] = o

LEMMA RecordEnds ==
  ASSUME NEW I, NEW blk, WellFormed(blk, I), NEW o \in Starts(blk)
  PROVE  /\ o \in 0 .. BLOCK_SIZE - 1 /\ EndOf(blk, o) \in Nat
         /\ EndOf(blk, o) > o /\ EndOf(blk, o) <= BLOCK_SIZE
         /\ EndOf(blk, o) \in Starts(blk) \cup {BLOCK_SIZE}
         /\ \A q \in Starts(blk) : q > o => q >= EndOf(blk, o)
         /\ blk[o] \in EntryOf(I)
<1>1. /\ o \in Nat /\ o < BLOCK_SIZE /\ blk[o].rec_len \in Nat /\ blk[o].rec_len >= 9
      /\ blk[o] \in EntryOf(I)
  BY BlockEntries DEF WellFormed, Tiled, EntryOf
<1>2. /\ EndOf(blk, o) = o + blk[o].rec_len
      /\ EndOf(blk, o) \in Starts(blk) \cup {BLOCK_SIZE}
      /\ \A q \in Starts(blk) : q > o => q >= EndOf(blk, o)
  BY DEF WellFormed, Tiled, EndOf
<1>3. EndOf(blk, o) <= BLOCK_SIZE
  BY <1>2, BlockEntries, EntrySizes DEF WellFormed
<1> QED BY <1>1, <1>2, <1>3, EntrySizes

WalkFrom(f, blk, D) ==
  f = [o \in D |-> IF o = BLOCK_SIZE THEN <<>> ELSE <<blk[o]>> \o f[EndOf(blk, o)]]

LEMMA WalkExists ==
  ASSUME NEW I, NEW blk, WellFormed(blk, I)
  PROVE  \E f : WalkFrom(f, blk, Starts(blk) \cup {BLOCK_SIZE})
<1> DEFINE E == EntryOf(I)
           D(k) == {o \in Starts(blk) \cup {BLOCK_SIZE} : o >= BLOCK_SIZE - k}
           P(k) == \E f \in [D(k) -> Seq(E)] : WalkFrom(f, blk, D(k))
           S == {k \in 0 .. BLOCK_SIZE : P(k)}
<1>1. BLOCK_SIZE \in Nat /\ \A o \in Starts(blk) : o \in 0 .. BLOCK_SIZE - 1
  BY RecordEnds, EntrySizes
<1>2. 0 \in S
  <2> DEFINE f == [o \in {BLOCK_SIZE} |-> <<>>]
  <2>1. D(0) = {BLOCK_SIZE}
    BY <1>1
  <2> HIDE DEF D
  <2>2. f \in [D(0) -> Seq(E)] /\ WalkFrom(f, blk, D(0))
    BY <2>1 DEF WalkFrom
  <2> HIDE DEF f
  <2>3. P(0)
    BY <2>2
  <2> HIDE DEF P
  <2> QED BY <1>1, <2>3
<1>3. ASSUME NEW k \in 0 .. BLOCK_SIZE - 1, k \in S PROVE k + 1 \in S
  <2>1. PICK f \in [D(k) -> Seq(E)] : WalkFrom(f, blk, D(k))
    BY <1>3
  <2> DEFINE h == [o \in D(k + 1) |-> IF o \in D(k) THEN f[o] ELSE <<blk[o]>> \o f[EndOf(blk, o)]]
  <2>2. \A o \in D(k) : o \in D(k + 1)
    BY <1>1
  <2>3. ASSUME NEW o \in D(k + 1), o \notin D(k)
        PROVE  o \in Starts(blk) /\ EndOf(blk, o) \in D(k) /\ o # BLOCK_SIZE
    <3>1. o \in Starts(blk) /\ o = BLOCK_SIZE - (k + 1) /\ o # BLOCK_SIZE
      BY <1>1, <2>3
    <3> QED BY <1>1, <3>1, RecordEnds
  <2>4. \A o \in D(k) : o # BLOCK_SIZE => o \in Starts(blk) /\ EndOf(blk, o) \in D(k)
    BY <1>1, RecordEnds
  <2> HIDE DEF D
  <2>5. h \in [D(k + 1) -> Seq(E)]
    <3> SUFFICES ASSUME NEW o \in D(k + 1), o \notin D(k)
                 PROVE  <<blk[o]>> \o f[EndOf(blk, o)] \in Seq(E)
      OBVIOUS
    <3>1. blk[o] \in E /\ f[EndOf(blk, o)] \in Seq(E)
      BY <2>3, RecordEnds
    <3> HIDE DEF E
    <3>2. <<blk[o]>> \in Seq(E)
      BY <3>1
    <3> QED BY <3>1, <3>2, ConcatProperties
  <2>6. ASSUME NEW o \in D(k + 1)
        PROVE  h[o] = IF o = BLOCK_SIZE THEN <<>> ELSE <<blk[o]>> \o h[EndOf(blk, o)]
    <3>1. CASE o \in D(k)
      <4>1. f[o] = IF o = BLOCK_SIZE THEN <<>> ELSE <<blk[o]>> \o f[EndOf(blk, o)]
        BY <2>1, <3>1 DEF WalkFrom
      <4>2. o # BLOCK_SIZE => h[EndOf(blk, o)] = f[EndOf(blk, o)]
        BY <2>2, <2>4, <3>1
      <4>3. h[o] = f[o]
        BY <3>1
      <4> HIDE DEF h
      <4> QED BY <4>1, <4>2, <4>3
    <3>2. CASE o \notin D(k)
      <4>1. h[EndOf(blk, o)] = f[EndOf(blk, o)] /\ o # BLOCK_SIZE
        BY <2>2, <2>3, <3>2
      <4>2. h[o] = <<blk[o]>> \o f[EndOf(blk, o)]
        BY <3>2
      <4> HIDE DEF h
      <4> QED BY <4>1, <4>2
    <3> QED BY <3>1, <3>2
  <2>7. WalkFrom(h, blk, D(k + 1))
    <3> HIDE DEF h
    <3>1. h = [o \in D(k + 1) |-> h[o]]
      BY <2>5
    <3> QED BY <2>6, <3>1 DEF WalkFrom
  <2> HIDE DEF h
  <2>8. P(k + 1)
    BY <2>5, <2>7
  <2> HIDE DEF P
  <2> QED BY <1>1, <2>8
<1>4. BLOCK_SIZE \in S
  <2> HIDE DEF S
  <2> QED BY <1>1, <1>2, <1>3, RangeInduction
<1>5. D(BLOCK_SIZE) = Starts(blk) \cup {BLOCK_SIZE}
  BY <1>1
<1>6. PICK f \in [D(BLOCK_SIZE) -> Seq(E)] : WalkFrom(f, blk, D(BLOCK_SIZE))
  BY <1>4
<1> QED BY <1>5, <1>6

LEMMA WalkVisits ==
  ASSUME NEW I, NEW blk, WellFormed(blk, I), NEW w, w = Walk(blk)
  PROVE  /\ w \in Seq(EntryOf(I)) /\ Len(w) >= 2
         /\ \E at : Visits(w, at, blk) /\ at[1] = 0 /\ at[2] = 12
<1> DEFINE E == EntryOf(I)
           D == Starts(blk) \cup {BLOCK_SIZE}
           from == CHOOSE f : WalkFrom(f, blk, D)
<1>1. WalkFrom(from, blk, D)
  BY WalkExists
<1>2. w = from[0]
  BY DEF Walk, WalkFrom
<1> HIDE DEF from
<1>3. /\ from[BLOCK_SIZE] = <<>>
      /\ \A o \in Starts(blk) : from[o] = <<blk[o]>> \o from[EndOf(blk, o)]
  <2>1. \A o \in Starts(blk) : o # BLOCK_SIZE
    BY RecordEnds, EntrySizes
  <2> QED BY <1>1, <2>1 DEF WalkFrom
<1>4. BLOCK_SIZE \in Nat /\ \A o \in Starts(blk) : o \in 0 .. BLOCK_SIZE - 1
  BY RecordEnds, EntrySizes
<1> DEFINE Up(o) == {q \in Starts(blk) : q >= o}
           Met(o, x, at) ==
             /\ x \in Seq(E) /\ at \in [1 .. Len(x) -> Up(o)]
             /\ \A i \in 1 .. Len(x) : x[i] = blk[at[i]]
             /\ \A i, j \in 1 .. Len(x) : i < j => at[i] < at[j]
             /\ \A q \in Up(o) : \E i \in 1 .. Len(x) : at[i] = q
           P(o) == \E at : Met(o, from[o], at)
           S == {k \in 0 .. BLOCK_SIZE : \A o \in D : o >= BLOCK_SIZE - k => P(o)}
<1>5. P(BLOCK_SIZE)
  <2> DEFINE x == <<>>
             at == [i \in 1 .. 0 |-> 0]
  <2>1. x \in Seq(E) /\ Len(x) = 0 /\ Up(BLOCK_SIZE) = {} /\ 1 .. 0 = {}
    BY <1>4
  <2>2. Met(BLOCK_SIZE, x, at)
    BY <2>1
  <2> HIDE DEF Met, at
  <2> QED BY <1>3, <2>2
<1>6. ASSUME NEW o \in Starts(blk), P(EndOf(blk, o)) PROVE P(o)
  <2> DEFINE e == EndOf(blk, o)
             x == from[e]
             y == from[o]
  <2>1. PICK at : Met(e, x, at)
    BY <1>6
  <2>2. /\ e \in Nat /\ e > o /\ o \in Nat /\ blk[o] \in E
        /\ \A q \in Starts(blk) : q > o => q >= e
    BY RecordEnds
  <2>3. y = <<blk[o]>> \o x
    BY <1>3
  <2> HIDE DEF e, x, y, E
  <2>4. x \in Seq(E) /\ Len(x) \in Nat
    BY <2>1, LenProperties
  <2>5. /\ y \in Seq(E) /\ Len(y) = Len(x) + 1 /\ y[1] = blk[o]
        /\ \A i \in 1 .. Len(x) : y[i + 1] = x[i]
    <3> DEFINE z == <<blk[o]>>
    <3>1. z \in Seq(E) /\ Len(z) = 1 /\ z[1] = blk[o]
      BY <2>2
    <3> HIDE DEF z
    <3>2. /\ z \o x \in Seq(E) /\ Len(z \o x) = Len(z) + Len(x)
          /\ \A i \in 1 .. Len(z) + Len(x) :
               (z \o x)[i] = IF i <= Len(z) THEN z[i] ELSE x[i - Len(z)]
      BY <2>4, <3>1, ConcatProperties
    <3>3. y = z \o x
      BY <2>3 DEF z
    <3>4. y[1] = blk[o]
      <4>1. 1 \in 1 .. Len(z) + Len(x)
        BY <2>4, <3>1
      <4> QED BY <3>1, <3>2, <3>3, <4>1
    <3>5. ASSUME NEW i \in 1 .. Len(x) PROVE y[i + 1] = x[i]
      <4>1. i + 1 \in 1 .. Len(z) + Len(x) /\ ~(i + 1 <= Len(z)) /\ (i + 1) - Len(z) = i
        BY <2>4, <3>1
      <4> QED BY <3>2, <3>3, <4>1
    <3> QED BY <2>4, <3>1, <3>2, <3>3, <3>4, <3>5
  <2> DEFINE to == [i \in 1 .. Len(y) |-> IF i = 1 THEN o ELSE at[i - 1]]
  <2>6. \A i \in 1 .. Len(x) : at[i] \in Starts(blk) /\ at[i] >= e /\ at[i] \in Nat /\ x[i] = blk[at[i]]
    BY <1>4, <2>1
  <2>7. to[1] = o /\ \A i \in 1 .. Len(x) : to[i + 1] = at[i]
    BY <2>4, <2>5
  <2>8. \A i \in 1 .. Len(y) : i = 1 \/ (i - 1 \in 1 .. Len(x) /\ i = (i - 1) + 1)
    BY <2>4, <2>5
  <2>9. to \in [1 .. Len(y) -> Up(o)]
    <3>1. ASSUME NEW i \in 1 .. Len(y) PROVE to[i] \in Up(o)
      <4>1. CASE i = 1
        BY <2>2, <2>7, <4>1
      <4>2. CASE i # 1
        <5>1. i - 1 \in 1 .. Len(x) /\ i = (i - 1) + 1
          BY <2>8, <4>2
        <5>2. to[i] = at[i - 1]
          BY <2>7, <5>1
        <5>3. at[i - 1] \in Starts(blk) /\ at[i - 1] >= e /\ at[i - 1] \in Nat
          BY <2>6, <5>1
        <5> QED BY <2>2, <5>2, <5>3
      <4> QED BY <4>1, <4>2
    <3> QED BY <3>1
  <2> HIDE DEF to
  <2>10. ASSUME NEW i \in 1 .. Len(y) PROVE y[i] = blk[to[i]]
    <3>1. CASE i = 1
      BY <2>5, <2>7, <3>1
    <3>2. CASE i # 1
      <4>1. i - 1 \in 1 .. Len(x) /\ i = (i - 1) + 1
        BY <2>8, <3>2
      <4>2. to[i] = at[i - 1] /\ y[i] = x[i - 1]
        BY <2>5, <2>7, <4>1
      <4> QED BY <2>6, <4>1, <4>2
    <3> QED BY <3>1, <3>2
  <2>11. ASSUME NEW i \in 1 .. Len(y), NEW j \in 1 .. Len(y), i < j PROVE to[i] < to[j]
    <3>1. j - 1 \in 1 .. Len(x) /\ to[j] = at[j - 1]
      BY <2>7, <2>8, <2>11
    <3>2. CASE i = 1
      BY <2>2, <2>6, <2>7, <3>1, <3>2
    <3>3. CASE i # 1
      <4>1. i - 1 \in 1 .. Len(x) /\ to[i] = at[i - 1] /\ i - 1 < j - 1
        BY <2>7, <2>8, <2>11, <3>3
      <4> QED BY <2>1, <3>1, <4>1
    <3> QED BY <3>2, <3>3
  <2>12. ASSUME NEW q \in Up(o) PROVE \E i \in 1 .. Len(y) : to[i] = q
    <3>1. CASE q = o
      BY <2>4, <2>5, <2>7, <3>1
    <3>2. CASE q # o
      <4>1. q \in Up(e)
        BY <1>4, <2>2, <3>2
      <4>2. PICK i \in 1 .. Len(x) : at[i] = q
        <5> HIDE DEF Up
        <5> QED BY <2>1, <4>1
      <4>3. i + 1 \in 1 .. Len(y)
        BY <2>4, <2>5
      <4> QED BY <2>7, <4>2, <4>3
    <3> QED BY <3>1, <3>2
  <2>13. Met(o, y, to)
    BY <2>5, <2>9, <2>10, <2>11, <2>12
  <2> HIDE DEF Met
  <2> QED BY <2>13 DEF y
<1> HIDE DEF P
<1>7. 0 \in S
  BY <1>4, <1>5
<1>8. ASSUME NEW k \in 0 .. BLOCK_SIZE - 1, k \in S PROVE k + 1 \in S
  <2>1. k + 1 \in 0 .. BLOCK_SIZE
    BY <1>4
  <2>2. ASSUME NEW o \in D, o >= BLOCK_SIZE - (k + 1) PROVE P(o)
    <3>1. CASE o = BLOCK_SIZE
      BY <1>5, <3>1
    <3>2. CASE o # BLOCK_SIZE
      <4>1. EndOf(blk, o) \in D /\ EndOf(blk, o) \in Nat /\ EndOf(blk, o) > o /\ o \in Nat
        BY <3>2, RecordEnds
      <4>2. P(EndOf(blk, o))
        BY <1>4, <1>8, <2>2, <4>1
      <4> QED BY <1>6, <3>2, <4>2
    <3> QED BY <3>1, <3>2
  <2> QED BY <2>1, <2>2
<1>9. 0 \in Starts(blk) /\ 12 \in Starts(blk) /\ EndOf(blk, 0) = 12
  <2>1. 0 \in Starts(blk) /\ 12 \in Starts(blk) /\ blk[0].rec_len >= EntSize(Dot)
    BY DEF WellFormed, Tiled, Led
  <2>2. blk[0].rec_len \in Nat /\ EndOf(blk, 0) = blk[0].rec_len
    BY <2>1, BlockEntries DEF EndOf, WellFormed
  <2>3. 12 >= EndOf(blk, 0)
    BY <2>1, RecordEnds
  <2> QED BY <2>1, <2>2, <2>3, EntrySizes
<1>10. P(0)
  <2>1. BLOCK_SIZE \in S
    <3> HIDE DEF S
    <3> QED BY <1>4, <1>7, <1>8, RangeInduction
  <2> QED BY <1>4, <1>9, <2>1
<1>11. PICK at : Met(0, w, at)
  BY <1>2, <1>10 DEF P
<1>12. Len(w) \in Nat /\ w \in Seq(E) /\ at \in [1 .. Len(w) -> Starts(blk)]
  BY <1>11, LenProperties
<1>13. \A i \in 1 .. Len(w) : at[i] \in Starts(blk) /\ at[i] \in Nat
  BY <1>4, <1>12
<1>14. \A o \in Starts(blk) : \E i \in 1 .. Len(w) : at[i] = o
  <2>1. \A o \in Starts(blk) : o \in Up(0)
    BY <1>4
  <2> HIDE DEF Up
  <2> QED BY <1>11, <2>1
<1>15. (\E i \in 1 .. Len(w) : at[i] = 0) /\ \E i \in 1 .. Len(w) : at[i] = 12
  BY <1>9, <1>14
<1>16. \A i, j \in 1 .. Len(w) : i < j => at[i] < at[j]
  BY <1>11
<1>17. at[1] = 0 /\ Len(w) >= 2
  BY <1>12, <1>13, <1>15, <1>16
<1>18. at[2] = 12
  <2>1. 2 \in 1 .. Len(w) /\ at[2] > 0
    BY <1>12, <1>16, <1>17
  <2>2. at[2] >= 12
    BY <1>9, <1>13, <2>1, RecordEnds
  <2> QED BY <1>13, <1>15, <1>16, <1>17, <2>1, <2>2
<1>19. Visits(w, at, blk)
  <2>1. \A i, j \in 1 .. Len(w) : at[i] = at[j] => i = j
    BY <1>12, <1>13, <1>16
  <2> QED BY <1>11, <1>12, <1>14, <2>1 DEF Visits
<1> QED BY <1>12, <1>17, <1>18, <1>19

\* The entries of a sequence of blocks, block after block.
Covers(all, at, bs, n, I) ==
  /\ all \in Seq(EntryOf(I)) /\ Len(all) >= 2 * n
  /\ at \in [1 .. Len(all) -> (1 .. n) \X Offset]
  /\ \A i \in 1 .. Len(all) : /\ at[i][2] \in Starts(bs[at[i][1]])
                              /\ all[i] = bs[at[i][1]][at[i][2]]
  /\ \A i, j \in 1 .. Len(all) : at[i] = at[j] => i = j
  /\ \A k \in 1 .. n : \A o \in Starts(bs[k]) : \E i \in 1 .. Len(all) : at[i] = <<k, o>>
  /\ n > 0 => at[1] = <<1, 0>> /\ at[2] = <<1, 12>>
  /\ Len(all) >= 3 => at[3][1] = 1 \/ at[3] = <<2, 0>>

LEMMA NoBlocks ==
  ASSUME NEW I, NEW bs
  PROVE  \E at : Covers(<<>>, at, bs, 0, I)
<1> DEFINE at == [i \in 1 .. 0 |-> <<1, 0>>]
<1>1. 1 .. 0 = {} /\ <<>> \in Seq(EntryOf(I)) /\ Len(<<>>) = 0
  OBVIOUS
<1>2. Covers(<<>>, at, bs, 0, I)
  BY <1>1 DEF Covers
<1> HIDE DEF at
<1> QED BY <1>2

LEMMA OneMoreBlock ==
  ASSUME NEW I, NEW bs, NEW n \in Nat, WellFormed(bs[n + 1], I),
         NEW all, NEW at, Covers(all, at, bs, n, I),
         NEW more, more = all \o Walk(bs[n + 1])
  PROVE  \E to : Covers(more, to, bs, n + 1, I)
<1> DEFINE m == n + 1
           w == Walk(bs[m])
           a == Len(all)
           E == EntryOf(I)
<1>1. w \in Seq(E) /\ Len(w) >= 2 /\ Len(w) \in Nat
  BY WalkVisits, LenProperties
<1>2. PICK by : Visits(w, by, bs[m]) /\ by[1] = 0 /\ by[2] = 12
  BY WalkVisits
<1>3. all \in Seq(E) /\ a \in Nat /\ a >= 2 * n
  BY LenProperties DEF Covers
<1>4. /\ \A i \in 1 .. a : /\ at[i] \in (1 .. n) \X Offset /\ at[i][2] \in Starts(bs[at[i][1]])
                           /\ all[i] = bs[at[i][1]][at[i][2]]
      /\ \A i, j \in 1 .. a : at[i] = at[j] => i = j
      /\ \A k \in 1 .. n : \A o \in Starts(bs[k]) : \E i \in 1 .. a : at[i] = <<k, o>>
      /\ n > 0 => at[1] = <<1, 0>> /\ at[2] = <<1, 12>>
      /\ a >= 3 => at[3][1] = 1 \/ at[3] = <<2, 0>>
  BY DEF Covers
<1>5. /\ \A i \in 1 .. Len(w) : by[i] \in Starts(bs[m]) /\ w[i] = bs[m][by[i]]
      /\ \A i, j \in 1 .. Len(w) : by[i] = by[j] => i = j
      /\ \A o \in Starts(bs[m]) : \E i \in 1 .. Len(w) : by[i] = o
  BY <1>2 DEF Visits
<1>6. \A o \in Starts(bs[m]) : o \in Offset
  BY RecordEnds DEF Offset
<1>7. more = all \o w
  OBVIOUS
<1> HIDE DEF w, a, E, m
<1>8. /\ more \in Seq(E) /\ Len(more) = a + Len(w)
      /\ \A i \in 1 .. a : more[i] = all[i]
      /\ \A i \in 1 .. Len(w) : more[a + i] = w[i]
  <2>1. /\ all \o w \in Seq(E) /\ Len(all \o w) = Len(all) + Len(w)
        /\ \A i \in 1 .. Len(all) + Len(w) :
             (all \o w)[i] = IF i <= Len(all) THEN all[i] ELSE w[i - Len(all)]
    BY <1>1, <1>3, ConcatProperties
  <2>2. ASSUME NEW i \in 1 .. a PROVE more[i] = all[i]
    <3>1. i \in 1 .. Len(all) + Len(w) /\ i <= Len(all)
      BY <1>1, <1>3 DEF a
    <3> QED BY <1>7, <2>1, <3>1
  <2>3. ASSUME NEW i \in 1 .. Len(w) PROVE more[a + i] = w[i]
    <3>1. a + i \in 1 .. Len(all) + Len(w) /\ ~(a + i <= Len(all)) /\ (a + i) - Len(all) = i
      BY <1>1, <1>3 DEF a
    <3> QED BY <1>7, <2>1, <3>1
  <2> QED BY <1>7, <2>1, <2>2, <2>3 DEF a
<1> DEFINE to == [i \in 1 .. Len(more) |-> IF i <= a THEN at[i] ELSE <<m, by[i - a]>>]
<1>9. /\ \A i \in 1 .. a : to[i] = at[i]
      /\ \A i \in 1 .. Len(w) : to[a + i] = <<m, by[i]>>
      /\ to = [i \in 1 .. Len(more) |-> to[i]]
  BY <1>1, <1>3, <1>8
<1>10. \A i \in 1 .. Len(more) : i \in 1 .. a \/ \E j \in 1 .. Len(w) : i = a + j
  <2>1. ASSUME NEW i \in 1 .. Len(more), ~(i <= a) PROVE i - a \in 1 .. Len(w) /\ i = a + (i - a)
    BY <1>1, <1>3, <1>8, <2>1
  <2> QED BY <1>3, <2>1
<1> HIDE DEF to
<1>11. ASSUME NEW i \in 1 .. Len(more)
       PROVE  /\ to[i] \in (1 .. m) \X Offset /\ to[i][2] \in Starts(bs[to[i][1]])
              /\ more[i] = bs[to[i][1]][to[i][2]]
  <2>1. CASE i \in 1 .. a
    <3>1. to[i] = at[i] /\ more[i] = all[i] /\ at[i] \in (1 .. n) \X Offset
      BY <1>4, <1>8, <1>9, <2>1
    <3>2. to[i] \in (1 .. m) \X Offset
      BY <3>1 DEF m
    <3> QED BY <1>4, <2>1, <3>1, <3>2
  <2>2. ASSUME NEW j \in 1 .. Len(w), i = a + j
        PROVE  /\ to[i] \in (1 .. m) \X Offset /\ to[i][2] \in Starts(bs[to[i][1]])
               /\ more[i] = bs[to[i][1]][to[i][2]]
    <3>1. to[i] = <<m, by[j]>> /\ more[i] = w[j]
      BY <1>8, <1>9, <2>2
    <3>2. m \in 1 .. m
      BY DEF m
    <3> QED BY <1>5, <1>6, <3>1, <3>2, SMTT(30)
  <2> QED BY <1>10, <2>1, <2>2
<1>12. ASSUME NEW i \in 1 .. Len(more), NEW j \in 1 .. Len(more), to[i] = to[j] PROVE i = j
  <2>1. \A x \in 1 .. a, y \in 1 .. Len(w) : to[x] # to[a + y]
    <3> SUFFICES ASSUME NEW x \in 1 .. a, NEW y \in 1 .. Len(w), to[x] = to[a + y] PROVE FALSE
      OBVIOUS
    <3>1. at[x] = <<m, by[y]>> /\ at[x] \in (1 .. n) \X Offset
      BY <1>4, <1>9
    <3>2. m \in 1 .. n
      BY <3>1
    <3> QED BY <3>2 DEF m
  <2>2. CASE i \in 1 .. a /\ j \in 1 .. a
    <3>1. at[i] = at[j]
      BY <1>9, <1>12, <2>2
    <3> QED BY <1>4, <2>2, <3>1
  <2>3. ASSUME NEW x \in 1 .. Len(w), NEW y \in 1 .. Len(w), i = a + x, j = a + y PROVE i = j
    <3>1. to[a + x] = <<m, by[x]>> /\ to[a + y] = <<m, by[y]>> /\ to[a + x] = to[a + y]
      BY <1>9, <1>12, <2>3
    <3> QED BY <1>5, <2>3, <3>1
  <2> QED BY <1>10, <1>12, <2>1, <2>2, <2>3
<1>13. ASSUME NEW k \in 1 .. m, NEW o \in Starts(bs[k])
       PROVE  \E i \in 1 .. Len(more) : to[i] = <<k, o>>
  <2>1. CASE k \in 1 .. n
    <3>1. PICK i \in 1 .. a : at[i] = <<k, o>>
      BY <1>4, <2>1
    <3>2. i \in 1 .. Len(more)
      BY <1>1, <1>3, <1>8
    <3> QED BY <1>9, <3>1, <3>2
  <2>2. CASE k = m
    <3>1. PICK i \in 1 .. Len(w) : by[i] = o
      BY <1>5, <2>2
    <3>2. a + i \in 1 .. Len(more)
      BY <1>1, <1>3, <1>8
    <3> QED BY <1>9, <2>2, <3>1, <3>2
  <2> QED BY <2>1, <2>2 DEF m
<1>14. to[1] = <<1, 0>> /\ to[2] = <<1, 12>>
  <2>1. CASE n > 0
    <3>1. 1 \in 1 .. a /\ 2 \in 1 .. a
      BY <1>3, <2>1
    <3> QED BY <1>4, <1>9, <2>1, <3>1
  <2>2. CASE n = 0
    <3>1. a = 0
      <4>1. \A i \in 1 .. a : at[i][1] \in 1 .. 0
        BY <1>4, <2>2
      <4> QED BY <1>3, <4>1
    <3>2. m = 1 /\ 1 \in 1 .. Len(w) /\ 2 \in 1 .. Len(w) /\ a + 1 = 1 /\ a + 2 = 2
      BY <1>1, <2>2, <3>1 DEF m
    <3>3. to[a + 1] = <<m, by[1]>> /\ to[a + 2] = <<m, by[2]>>
      BY <1>9, <3>2
    <3> QED BY <1>2, <3>2, <3>3
  <2> QED BY <2>1, <2>2
<1>15. Len(more) >= 3 => to[3][1] = 1 \/ to[3] = <<2, 0>>
  <2>1. CASE a >= 3
    <3>1. 3 \in 1 .. a
      BY <1>3, <2>1
    <3>2. to[3] = at[3]
      BY <1>9, <3>1
    <3> QED BY <1>4, <2>1, <3>2
  <2>2. CASE n = 0
    <3>1. m = 1
      BY <2>2 DEF m
    <3>2. Len(more) >= 3 => 3 \in 1 .. Len(more)
      BY <1>1, <1>3, <1>8
    <3>3. Len(more) >= 3 => to[3] \in (1 .. m) \X Offset
      BY <1>11, <3>2
    <3> QED BY <3>1, <3>3
  <2>3. CASE n > 0 /\ a < 3
    <3>1. n = 1 /\ a = 2 /\ m = 2 /\ a + 1 = 3 /\ 1 \in 1 .. Len(w)
      BY <1>1, <1>3, <2>3 DEF m
    <3> QED BY <1>2, <1>9, <3>1
  <2> QED BY <1>3, <2>1, <2>2, <2>3
<1>16. Covers(more, to, bs, m, I)
  <2>1. to \in [1 .. Len(more) -> (1 .. m) \X Offset]
    BY <1>9, <1>11
  <2>2. Len(more) >= 2 * m
    BY <1>1, <1>3, <1>8 DEF m
  <2> QED BY <1>8, <1>11, <1>12, <1>13, <1>14, <1>15, <2>1, <2>2 DEF Covers, E
<1> QED BY <1>16 DEF m

LEMMA FlatCovers ==
  ASSUME NEW I, NEW n \in Nat, NEW bs, DOMAIN bs = 1 .. n, \A k \in 1 .. n : WellFormed(bs[k], I),
         NEW all, all = FlattenSeq([k \in DOMAIN bs |-> Walk(bs[k])])
  PROVE  \E at : Covers(all, at, bs, n, I)
<1> DEFINE ws == [k \in 1 .. n |-> Walk(bs[k])]
           T == Seq(EntryOf(I))
           F(f) == f = [i \in 1 .. n |-> IF i = 1 THEN ws[i] ELSE f[i - 1] \o ws[i]]
           flat == CHOOSE f : F(f)
<1>1. /\ ws \in Seq(T) /\ Len(ws) = n /\ \A k \in 1 .. n : ws[k] = Walk(bs[k]) /\ ws[k] \in T
  <2>1. \A k \in 1 .. n : Walk(bs[k]) \in T
    BY WalkVisits
  <2> HIDE DEF T
  <2>2. ws \in [1 .. n -> T]
    BY <2>1
  <2> HIDE DEF ws
  <2>3. ws \in Seq(T) /\ Len(ws) = n
    BY <2>2, SeqDef, LenProperties
  <2> QED BY <2>1, <2>3 DEF ws
<1>2. all = IF n = 0 THEN ws ELSE flat[n]
  BY <1>1 DEF FlattenSeq
<1> HIDE DEF ws
<1>3. CASE n = 0
  <2>1. all = <<>>
    BY <1>1, <1>2, <1>3, EmptySeq
  <2> QED BY <1>3, <2>1, NoBlocks
<1>4. CASE n # 0
  <2> DEFINE step == [ti \in T \X (1 .. n) |-> ti[1] \o ws[ti[2]]]
  <2>1. step \in [T \X (1 .. n) -> T] /\ <<>> \in T
    <3>1. \A t \in T, i \in 1 .. n : t \o ws[i] \in T
      BY <1>1, ConcatProperties
    <3>2. <<>> \in T /\ \A ti \in T \X (1 .. n) : ti[1] \in T /\ ti[2] \in 1 .. n
      OBVIOUS
    <3> HIDE DEF T
    <3> QED BY <3>1, <3>2
  <2>2. PICK g : Stepwise(g, T, <<>>, step, n)
    BY <2>1, NumberedSteps
  <2>3. /\ g \in [0 .. n -> T] /\ g[0] = <<>>
        /\ \A k \in 0 .. n - 1 : g[k + 1] = step[<<g[k], k + 1>>]
    BY <2>2 DEF Stepwise
  <2>4. \A k \in 0 .. n - 1 : g[k + 1] = g[k] \o ws[k + 1]
    <3> HIDE DEF T
    <3>1. \A k \in 0 .. n - 1 : k + 1 \in 1 .. n /\ g[k] \in T
      BY <2>3
    <3> QED BY <2>3, <3>1
  <2> HIDE DEF step
  <2> DEFINE f == [i \in 1 .. n |-> g[i]]
  <2>5. F(f)
    <3>1. ASSUME NEW i \in 1 .. n
          PROVE  g[i] = IF i = 1 THEN ws[i] ELSE f[i - 1] \o ws[i]
      <4>1. i - 1 \in 0 .. n - 1 /\ (i - 1) + 1 = i
        OBVIOUS
      <4>2. g[i] = g[i - 1] \o ws[i]
        BY <2>4, <4>1
      <4>3. CASE i = 1
        <5>1. g[i - 1] = <<>> /\ ws[i] \in T
          BY <1>1, <2>3, <4>3
        <5> QED BY <4>2, <4>3, <5>1, ConcatEmptySeq
      <4>4. CASE i # 1
        <5>1. i - 1 \in 1 .. n
          BY <4>4
        <5> QED BY <4>2, <4>4, <5>1
      <4> QED BY <4>3, <4>4
    <3> QED BY <3>1
  <2>6. F(flat)
    <3> HIDE DEF F, f
    <3> QED BY <2>5
  <2>7. flat[1] = ws[1] /\ \A k \in 1 .. n - 1 : flat[k + 1] = flat[k] \o ws[k + 1]
    <3> HIDE DEF flat
    <3>1. \A i \in 1 .. n : flat[i] = IF i = 1 THEN ws[i] ELSE flat[i - 1] \o ws[i]
      BY <2>6
    <3>2. 1 \in 1 .. n
      BY <1>4
    <3>3. \A k \in 1 .. n - 1 : k + 1 \in 1 .. n /\ k + 1 # 1 /\ (k + 1) - 1 = k
      OBVIOUS
    <3> QED BY <3>1, <3>2, <3>3
  <2> HIDE DEF F, flat
  <2> DEFINE h == [k \in 0 .. n |-> IF k = 0 THEN <<>> ELSE flat[k]]
             P(k) == \E at : Covers(h[k], at, bs, k, I)
             S == {k \in 0 .. n : P(k)}
  <2>8. \A k \in 0 .. n - 1 : h[k + 1] = h[k] \o Walk(bs[k + 1])
    <3> SUFFICES ASSUME NEW k \in 0 .. n - 1 PROVE h[k + 1] = h[k] \o Walk(bs[k + 1])
      OBVIOUS
    <3>1. k + 1 \in 1 .. n /\ ws[k + 1] = Walk(bs[k + 1]) /\ ws[k + 1] \in T
      BY <1>1
    <3>2. CASE k = 0
      <4>1. h[k + 1] = ws[k + 1] /\ h[k] = <<>>
        BY <2>7, <3>2
      <4> QED BY <3>1, <4>1, ConcatEmptySeq
    <3>3. CASE k # 0
      <4>1. k \in 1 .. n - 1
        BY <3>3
      <4>2. h[k + 1] = flat[k + 1] /\ h[k] = flat[k]
        BY <3>3
      <4> QED BY <2>7, <3>1, <4>1, <4>2
    <3> QED BY <3>2, <3>3
  <2>9. h[0] = <<>> /\ h[n] = all
    BY <1>2, <1>4
  <2> HIDE DEF h
  <2>10. 0 \in S
    BY <2>9, NoBlocks
  <2>11. ASSUME NEW k \in 0 .. n - 1, k \in S PROVE k + 1 \in S
    <3>1. PICK at : Covers(h[k], at, bs, k, I)
      BY <2>11
    <3>2. k \in Nat /\ k + 1 \in 0 .. n /\ WellFormed(bs[k + 1], I)
      OBVIOUS
    <3>3. P(k + 1)
      BY <2>8, <3>1, <3>2, OneMoreBlock
    <3> QED BY <3>2, <3>3
  <2>12. n \in S
    <3> HIDE DEF S
    <3>1. \A k \in 0 .. n : k \in S
      BY <2>10, <2>11, RangeInduction
    <3> QED BY <3>1
  <2> QED BY <2>9, <2>12
<1> QED BY <1>3, <1>4

\* Of a sequence of entries, the first three and those with names of their own.
IsDot(e) == e.name \in {Dot, DotDot}

Picks(ret, of, all, k) ==
  /\ of \in [1 .. Len(ret) -> 1 .. k] /\ \A j \in 1 .. Len(ret) : ret[j] = all[of[j]]
  /\ \A i, j \in 1 .. Len(ret) : of[i] = of[j] => i = j
  /\ \A i \in 1 .. k : (\E j \in 1 .. Len(ret) : of[j] = i) <=> i <= 3 \/ ~IsDot(all[i])
  /\ \A i \in 1 .. 3 : i <= k => i <= Len(ret) /\ of[i] = i
  /\ \A j \in 1 .. Len(ret) : j > 3 => of[j] > 3

LEMMA OneMorePick ==
  ASSUME NEW E, NEW all \in Seq(E), NEW k \in Nat, k + 1 <= Len(all),
         NEW ret \in Seq(E), NEW of, Picks(ret, of, all, k),
         NEW more, more = IF Len(ret) > 2 /\ IsDot(all[k + 1]) THEN ret ELSE Append(ret, all[k + 1])
  PROVE  \E to : Picks(more, to, all, k + 1)
<1> DEFINE m == k + 1
           a == Len(ret)
<1>1. a \in Nat /\ m \in Nat /\ m \in 1 .. Len(all) /\ all[m] \in E /\ k < m
  BY LenProperties
<1>2. /\ \A j \in 1 .. a : of[j] \in 1 .. k /\ ret[j] = all[of[j]]
      /\ \A i, j \in 1 .. a : of[i] = of[j] => i = j
      /\ \A i \in 1 .. k : (\E j \in 1 .. a : of[j] = i) <=> i <= 3 \/ ~IsDot(all[i])
      /\ \A i \in 1 .. 3 : i <= k => i <= a /\ of[i] = i
      /\ \A j \in 1 .. a : j > 3 => of[j] > 3
      /\ of \in [1 .. a -> 1 .. k]
  BY DEF Picks
<1> HIDE DEF m
<1>3. \A i \in 1 .. m : i \in 1 .. k \/ i = m
  BY <1>1 DEF m
<1>4. k >= 3 => a >= 3
  BY <1>1, <1>2
<1>5. k < 3 => a = k
  <2> SUFFICES ASSUME k < 3 PROVE a = k
    OBVIOUS
  <2>1. k <= a
    BY <1>1, <1>2
  <2>2. ASSUME a > k PROVE FALSE
    <3>1. k + 1 \in 1 .. a /\ of[k + 1] \in 1 .. k
      BY <1>1, <1>2, <2>2
    <3>2. of[k + 1] \in 1 .. a /\ of[of[k + 1]] = of[k + 1] /\ of[k + 1] # k + 1
      BY <1>1, <1>2, <2>1, <3>1
    <3> QED BY <1>2, <3>1, <3>2
  <2> QED BY <1>1, <2>1, <2>2
<1>6. CASE a > 2 /\ IsDot(all[m])
  <2>1. more = ret /\ m > 3
    BY <1>1, <1>5, <1>6 DEF m
  <2>2. of \in [1 .. a -> 1 .. m]
    BY <1>1, <1>2 DEF m
  <2>3. ASSUME NEW i \in 1 .. m
        PROVE  (\E j \in 1 .. a : of[j] = i) <=> i <= 3 \/ ~IsDot(all[i])
    <3>1. CASE i = m
      <4>1. \A j \in 1 .. a : of[j] # m
        BY <1>1, <1>2
      <4> QED BY <1>1, <1>6, <2>1, <3>1, <4>1
    <3> QED BY <1>2, <1>3, <3>1
  <2>4. \A i \in 1 .. 3 : i <= m => i <= a /\ of[i] = i
    BY <1>1, <1>2, <2>1 DEF m
  <2>5. Picks(more, of, all, m)
    BY <1>2, <2>1, <2>2, <2>3, <2>4 DEF Picks
  <2> QED BY <2>5 DEF m
<1>7. CASE ~(a > 2 /\ IsDot(all[m]))
  <2>1. more = Append(ret, all[m])
    BY <1>7 DEF m
  <2>2. /\ Len(more) = a + 1 /\ more[a + 1] = all[m]
        /\ \A j \in 1 .. a : more[j] = ret[j]
    BY <1>1, <2>1, AppendProperties
  <2> DEFINE to == [j \in 1 .. a + 1 |-> IF j = a + 1 THEN m ELSE of[j]]
  <2>3. to[a + 1] = m /\ \A j \in 1 .. a : to[j] = of[j]
    BY <1>1
  <2>4. \A j \in 1 .. a + 1 : j \in 1 .. a \/ j = a + 1
    BY <1>1
  <2>5. to \in [1 .. a + 1 -> 1 .. m]
    <3>1. \A j \in 1 .. a : of[j] \in 1 .. m
      BY <1>1, <1>2 DEF m
    <3>2. m \in 1 .. m
      BY <1>1
    <3> HIDE DEF m
    <3> QED BY <2>4, <3>1, <3>2
  <2> HIDE DEF to, a
  <2>6. \A j \in 1 .. a + 1 : more[j] = all[to[j]]
    BY <1>2, <2>2, <2>3, <2>4
  <2>7. ASSUME NEW i \in 1 .. a + 1, NEW j \in 1 .. a + 1, to[i] = to[j] PROVE i = j
    <3>1. \A x \in 1 .. a : to[x] # m
      BY <1>1, <1>2, <2>3
    <3> QED BY <1>2, <2>3, <2>4, <2>7, <3>1
  <2>8. ASSUME NEW i \in 1 .. m
        PROVE  (\E j \in 1 .. a + 1 : to[j] = i) <=> i <= 3 \/ ~IsDot(all[i])
    <3>1. CASE i = m
      <4>1. m <= 3 \/ ~IsDot(all[m])
        BY <1>1, <1>4, <1>7 DEF m
      <4>2. a + 1 \in 1 .. a + 1 /\ to[a + 1] = i
        BY <1>1, <2>3, <3>1
      <4> QED BY <3>1, <4>1, <4>2
    <3>2. CASE i \in 1 .. k
      <4>1. i # m
        BY <1>1, <3>2
      <4>2. (\E j \in 1 .. a : of[j] = i) <=> \E j \in 1 .. a + 1 : to[j] = i
        <5>1. \A j \in 1 .. a : j \in 1 .. a + 1
          BY <1>1
        <5> QED BY <2>3, <2>4, <4>1, <5>1
      <4> QED BY <1>2, <3>2, <4>2
    <3> QED BY <1>3, <3>1, <3>2
  <2>9. ASSUME NEW i \in 1 .. 3, i <= m PROVE i <= a + 1 /\ to[i] = i
    <3>1. CASE i = m
      <4>1. a = k /\ i = a + 1
        BY <1>1, <1>5, <3>1 DEF m
      <4> QED BY <1>1, <2>3, <3>1, <4>1
    <3>2. CASE i # m
      <4>1. i <= k /\ i <= a /\ i \in 1 .. a /\ of[i] = i
        BY <1>1, <1>2, <2>9, <3>2 DEF m
      <4> QED BY <1>1, <2>3, <4>1
    <3> QED BY <3>1, <3>2
  <2>10. ASSUME NEW j \in 1 .. a + 1, j > 3 PROVE to[j] > 3
    <3>1. CASE j = a + 1
      <4>1. m > 3
        BY <1>1, <1>5, <2>10, <3>1 DEF m
      <4> QED BY <2>3, <3>1, <4>1
    <3> QED BY <1>2, <2>3, <2>4, <2>10, <3>1
  <2>11. Picks(more, to, all, m)
    BY <2>2, <2>5, <2>6, <2>7, <2>8, <2>9, <2>10, SMTT(30) DEF Picks
  <2> QED BY <2>11 DEF m
<1> QED BY <1>6, <1>7 DEF m

\* What get_inode_all_entry keeps of the entries it meets.
KeptOf(all) ==
  FoldLeft(LAMBDA ret, e : IF Len(ret) > 2 /\ e.name \in {Dot, DotDot}
                           THEN ret ELSE Append(ret, e), <<>>, all)

LEMMA ListingPicks ==
  ASSUME NEW E, NEW all \in Seq(E), NEW ret, ret = KeptOf(all)
  PROVE  ret \in Seq(E) /\ \E of : Picks(ret, of, all, Len(all))
<1> DEFINE T == Seq(E)
           n == Len(all)
           op(r, e) == IF Len(r) > 2 /\ e.name \in {Dot, DotDot} THEN r ELSE Append(r, e)
           step == [ri \in T \X (1 .. n) |-> op(ri[1], all[ri[2]])]
           F(f) == f = [s \in SUBSET (1 .. n) |-> IF s = {} THEN <<>>
                                                  ELSE op(f[s \ {Max(s)}], all[Max(s)])]
           iter == CHOOSE f : F(f)
<1>1. n \in Nat /\ DOMAIN all = 1 .. n /\ \A i \in 1 .. n : all[i] \in E
  BY LenProperties
<1>2. ret = iter[1 .. n]
  BY <1>1 DEF KeptOf, FoldLeft, MapThenFoldSet
<1> HIDE DEF n
<1>3. step \in [T \X (1 .. n) -> T] /\ <<>> \in T
  <2>1. \A r \in T, i \in 1 .. n : op(r, all[i]) \in T
    BY <1>1, AppendProperties
  <2>2. \A ri \in T \X (1 .. n) : ri[1] \in T /\ ri[2] \in 1 .. n
    OBVIOUS
  <2> QED BY <2>1, <2>2
<1>4. ASSUME NEW s \in SUBSET (1 .. n), s # {} PROVE Max(s) \in 1 .. n
  <2>1. s \in SUBSET Nat /\ \A y \in s : y <= n
    BY <1>1
  <2>2. Max(s) \in s
    BY <1>1, <1>4, <2>1, MaxIsGreatest
  <2> QED BY <2>2
<1>5. F(iter)
  <2>1. PICK f \in [SUBSET (1 .. n) -> T] : PrefixStep(f, <<>>, step, n)
    BY <1>1, <1>3, PrefixRecursion
  <2>2. F(f)
    <3>1. ASSUME NEW s \in SUBSET (1 .. n), s # {}
          PROVE  step[<<f[s \ {Max(s)}], Max(s)>>] = op(f[s \ {Max(s)}], all[Max(s)])
      <4>1. Max(s) \in 1 .. n /\ f[s \ {Max(s)}] \in T
        BY <1>4, <3>1
      <4> QED BY <4>1
    <3> HIDE DEF step, op
    <3> QED BY <2>1, <3>1 DEF PrefixStep
  <2> HIDE DEF F
  <2> QED BY <2>2
<1> HIDE DEF iter
<1>6. SetSteps(iter, T, <<>>, step, n)
  <2>1. {} \in SUBSET (1 .. n)
    OBVIOUS
  <2>2. iter[{}] = <<>>
    BY <1>5, <2>1
  <2>3. ASSUME NEW s \in (SUBSET (1 .. n)) \ {{}}, iter[s \ {Max(s)}] \in T
        PROVE  iter[s] = step[<<iter[s \ {Max(s)}], Max(s)>>]
    <3>1. Max(s) \in 1 .. n /\ iter[s] = op(iter[s \ {Max(s)}], all[Max(s)])
      BY <1>4, <1>5, <2>3
    <3> QED BY <2>3, <3>1
  <2> QED BY <2>2, <2>3 DEF SetSteps
<1>7. PICK g : Stepwise(g, T, <<>>, step, n) /\ iter[1 .. n] = g[n]
  <2> DEFINE none == <<>>
  <2>1. n \in Nat /\ none \in T /\ step \in [T \X (1 .. n) -> T] /\ SetSteps(iter, T, none, step, n)
    BY <1>1, <1>3, <1>6
  <2>2. \E g : Stepwise(g, T, none, step, n) /\ EndsAs(iter, g, n)
    <3> HIDE DEF T, step, none, op, F
    <3> QED BY <2>1, PrefixValues
  <2> HIDE DEF T, step
  <2> QED BY <2>2 DEF EndsAs
<1>8. /\ \A k \in 0 .. n : g[k] \in T
      /\ g[0] = <<>> /\ \A k \in 0 .. n - 1 : g[k + 1] = op(g[k], all[k + 1])
  <2>1. /\ g \in [0 .. n -> T] /\ g[0] = <<>>
        /\ \A k \in 0 .. n - 1 : g[k + 1] = step[<<g[k], k + 1>>]
    BY <1>7 DEF Stepwise
  <2>2. \A k \in 0 .. n - 1 : k + 1 \in 1 .. n /\ k \in 0 .. n
    BY <1>1
  <2> HIDE DEF T, op
  <2>3. ASSUME NEW k \in 0 .. n - 1 PROVE g[k + 1] = op(g[k], all[k + 1])
    <3>1. k + 1 \in 1 .. n /\ g[k] \in T
      BY <2>1, <2>2
    <3> QED BY <2>1, <3>1
  <2> QED BY <2>1, <2>3
<1> HIDE DEF step, F
<1> DEFINE P(k) == \E of : Picks(g[k], of, all, k)
           S == {k \in 0 .. n : P(k)}
<1>9. 0 \in S
  <2> DEFINE of == [j \in 1 .. 0 |-> 0]
  <2>1. Len(<<>>) = 0 /\ 1 .. 0 = {}
    OBVIOUS
  <2>2. Picks(<<>>, of, all, 0)
    BY <2>1 DEF Picks
  <2> HIDE DEF of
  <2> QED BY <1>1, <1>8, <2>2
<1>10. ASSUME NEW k \in 0 .. n - 1, k \in S PROVE k + 1 \in S
  <2>1. PICK of : Picks(g[k], of, all, k)
    BY <1>10
  <2>2. k \in Nat /\ k + 1 \in 0 .. n /\ k + 1 <= Len(all) /\ g[k] \in Seq(E)
    BY <1>1, <1>8 DEF n
  <2>3. g[k + 1] = IF Len(g[k]) > 2 /\ IsDot(all[k + 1]) THEN g[k] ELSE Append(g[k], all[k + 1])
    BY <1>8 DEF IsDot
  <2>4. P(k + 1)
    BY <2>1, <2>2, <2>3, OneMorePick
  <2> QED BY <2>2, <2>4
<1>11. n \in S
  <2> HIDE DEF S
  <2>1. \A k \in 0 .. n : k \in S
    BY <1>1, <1>9, <1>10, RangeInduction
  <2> QED BY <1>1, <2>1
<1> QED BY <1>1, <1>2, <1>7, <1>8, <1>11 DEF n

\* What get_inode_all_entry lists of well-formed blocks: entries of the blocks,
\* none of them twice; the dots of the first block first; every entry with a
\* name of its own; and of the other dots at most one, at the third place.
Lists(ret, at, bs, n) ==
  /\ \A i \in 1 .. Len(ret) : /\ at[i] \in (1 .. n) \X Offset /\ at[i][2] \in Starts(bs[at[i][1]])
                              /\ ret[i] = bs[at[i][1]][at[i][2]]
  /\ \A i, j \in 1 .. Len(ret) : at[i] = at[j] => i = j
  /\ \A k \in 1 .. n : \A o \in Starts(bs[k]) :
       ~IsDot(bs[k][o]) => \E i \in 1 .. Len(ret) : at[i] = <<k, o>>
  /\ n > 0 => Len(ret) >= 2 /\ at[1] = <<1, 0>> /\ at[2] = <<1, 12>>
  /\ \A i \in 1 .. Len(ret) : i > 2 /\ IsDot(ret[i]) => i = 3 /\ (at[3][1] = 1 \/ at[3] = <<2, 0>>)

LEMMA Listed ==
  ASSUME NEW I, NEW n \in Nat, NEW bs, DOMAIN bs = 1 .. n, \A k \in 1 .. n : WellFormed(bs[k], I),
         NEW ret, ret = get_inode_all_entry(bs)
  PROVE  ret \in Seq(EntryOf(I)) /\ \E at : Lists(ret, at, bs, n)
<1> DEFINE all == FlattenSeq([k \in DOMAIN bs |-> Walk(bs[k])])
           E == EntryOf(I)
<1>1. PICK by : Covers(all, by, bs, n, I)
  BY FlatCovers
<1>2. ret = KeptOf(all)
  BY DEF get_inode_all_entry, KeptOf
<1> HIDE DEF all
<1>3. /\ all \in Seq(E) /\ Len(all) \in Nat /\ Len(all) >= 2 * n
      /\ by \in [1 .. Len(all) -> (1 .. n) \X Offset]
      /\ \A i \in 1 .. Len(all) : /\ by[i][2] \in Starts(bs[by[i][1]])
                                  /\ all[i] = bs[by[i][1]][by[i][2]]
      /\ \A i, j \in 1 .. Len(all) : by[i] = by[j] => i = j
      /\ \A k \in 1 .. n : \A o \in Starts(bs[k]) : \E i \in 1 .. Len(all) : by[i] = <<k, o>>
      /\ n > 0 => by[1] = <<1, 0>> /\ by[2] = <<1, 12>>
      /\ Len(all) >= 3 => by[3][1] = 1 \/ by[3] = <<2, 0>>
  BY <1>1, LenProperties DEF Covers
<1>4. ret \in Seq(E) /\ \E of : Picks(ret, of, all, Len(all))
  BY <1>2, <1>3, ListingPicks
<1>5. PICK of : Picks(ret, of, all, Len(all))
  BY <1>4
<1>6. /\ Len(ret) \in Nat
      /\ \A j \in 1 .. Len(ret) : of[j] \in 1 .. Len(all) /\ ret[j] = all[of[j]]
      /\ \A i, j \in 1 .. Len(ret) : of[i] = of[j] => i = j
      /\ \A i \in 1 .. Len(all) : (\E j \in 1 .. Len(ret) : of[j] = i) <=> i <= 3 \/ ~IsDot(all[i])
      /\ \A i \in 1 .. 3 : i <= Len(all) => i <= Len(ret) /\ of[i] = i
      /\ \A j \in 1 .. Len(ret) : j > 3 => of[j] > 3
  BY <1>4, <1>5, LenProperties DEF Picks
<1> HIDE DEF E
<1> DEFINE at == [j \in 1 .. Len(ret) |-> by[of[j]]]
<1>7. ASSUME NEW j \in 1 .. Len(ret)
      PROVE  /\ at[j] \in (1 .. n) \X Offset /\ at[j][2] \in Starts(bs[at[j][1]])
             /\ ret[j] = bs[at[j][1]][at[j][2]]
  <2>1. of[j] \in 1 .. Len(all) /\ at[j] = by[of[j]] /\ ret[j] = all[of[j]]
    BY <1>6
  <2> HIDE DEF at
  <2> QED BY <1>3, <2>1, SMTT(30)
<1>8. ASSUME NEW i \in 1 .. Len(ret), NEW j \in 1 .. Len(ret), at[i] = at[j] PROVE i = j
  BY <1>3, <1>6, <1>8
<1>9. ASSUME NEW k \in 1 .. n, NEW o \in Starts(bs[k]), ~IsDot(bs[k][o])
      PROVE  \E j \in 1 .. Len(ret) : at[j] = <<k, o>>
  <2>1. PICK i \in 1 .. Len(all) : by[i] = <<k, o>>
    BY <1>3
  <2>2. all[i] = bs[k][o]
    BY <1>3, <2>1
  <2>3. PICK j \in 1 .. Len(ret) : of[j] = i
    BY <1>6, <1>9, <2>2
  <2> QED BY <2>1, <2>3
<1>10. n > 0 => Len(ret) >= 2 /\ at[1] = <<1, 0>> /\ at[2] = <<1, 12>>
  <2> SUFFICES ASSUME n > 0 PROVE Len(ret) >= 2 /\ at[1] = <<1, 0>> /\ at[2] = <<1, 12>>
    OBVIOUS
  <2>1. 1 <= Len(all) /\ 2 <= Len(all)
    BY <1>3
  <2>2. 1 <= Len(ret) /\ of[1] = 1 /\ 2 <= Len(ret) /\ of[2] = 2
    BY <1>6, <2>1
  <2>3. at[1] = by[1] /\ at[2] = by[2]
    <3>1. 1 \in 1 .. Len(ret) /\ 2 \in 1 .. Len(ret)
      BY <1>6, <2>2
    <3> QED BY <2>2, <3>1
  <2> QED BY <1>3, <2>2, <2>3
<1>11. ASSUME NEW i \in 1 .. Len(ret), i > 2, IsDot(ret[i])
       PROVE  i = 3 /\ (at[3][1] = 1 \/ at[3] = <<2, 0>>)
  <2>1. of[i] \in 1 .. Len(all) /\ of[i] <= 3
    <3>1. of[i] \in 1 .. Len(all) /\ ret[i] = all[of[i]]
      BY <1>6
    <3>2. \E j \in 1 .. Len(ret) : of[j] = of[i]
      OBVIOUS
    <3> QED BY <1>6, <1>11, <3>1, <3>2
  <2>2. i = 3
    BY <1>6, <1>11, <2>1
  <2>3. 3 <= Len(all)
    <3>1. of[3] # 1 /\ of[3] # 2
      <4>1. 1 <= Len(all)
        BY <1>3, <2>1
      <4>2. of[1] = 1 /\ 1 \in 1 .. Len(ret)
        BY <1>6, <4>1
      <4>3. 2 <= Len(all) => of[2] = 2 /\ 2 \in 1 .. Len(ret)
        BY <1>6
      <4> QED BY <1>3, <1>6, <2>1, <2>2, <4>2, <4>3
    <3> QED BY <1>3, <2>1, <2>2, <3>1
  <2>4. of[3] = 3 /\ at[3] = by[3]
    BY <1>6, <2>2, <2>3
  <2> QED BY <1>3, <2>2, <2>3, <2>4
<1> HIDE DEF at
<1>12. Lists(ret, at, bs, n)
  BY <1>7, <1>8, <1>9, <1>10, <1>11 DEF Lists
<1> QED BY <1>4, <1>12 DEF E

-------------------------------------------------------------------------------
(* The directory *)

Good(blk) == WellFormed(blk, Ino) /\ Leads(blk)

LEMMA GoodFresh ==
  /\ Good(init_entry_block(self, father))
  /\ Starts(init_entry_block(self, father)) = {0, 12}
<1> DEFINE blk == init_entry_block(self, father)
<1>1. self \in Ino /\ father \in Ino
  BY DEF Ino
<1>2. /\ WellFormed(blk, Ino) /\ Starts(blk) = {0, 12}
      /\ blk[0] = Entry(Dot, self, 12) /\ blk[12] = Entry(DotDot, father, BLOCK_SIZE - 12)
  BY <1>1, FreshBlock
<1> HIDE DEF blk
<1>3. Leads(blk)
  BY <1>2, NameAssumption DEF Leads, Entry
<1> QED BY <1>2, <1>3 DEF Good, blk

LEMMA GoodInsert ==
  ASSUME NEW blk, Good(blk), NEW name \in Name, NEW n \in Child, NEW o \in Gaps(blk, name),
         NEW b, b = Insert(blk, o, name, n)
  PROVE  /\ Good(b)
         /\ o + EntSize(blk[o].name) \notin Starts(blk)
         /\ Starts(b) = Starts(blk) \cup {o + EntSize(blk[o].name)}
         /\ b[o + EntSize(blk[o].name)].name = name
         /\ b[o + EntSize(blk[o].name)].inode = n
         /\ \A q \in Starts(blk) : b[q].name = blk[q].name /\ b[q].inode = blk[q].inode
<1> DEFINE new == o + EntSize(blk[o].name)
<1>1. name \in FileName /\ n \in Ino /\ WellFormed(blk, Ino)
  BY DEF FileName, Ino, Good
<1>2. /\ WellFormed(b, Ino) /\ new \notin Starts(blk) /\ Starts(b) = Starts(blk) \cup {new}
      /\ b[new].name = name /\ b[new].inode = n
      /\ \A q \in Starts(blk) : b[q].name = blk[q].name /\ b[q].inode = blk[q].inode
  BY <1>1, InsertEntry
<1> HIDE DEF new
<1>3. new \notin {0, 12} /\ name # Dot /\ name # DotDot
  BY <1>1, <1>2, NameAssumption DEF WellFormed, Tiled, Led
<1>4. Leads(b)
  BY <1>2, <1>3 DEF Good, Leads
<1> QED BY <1>2, <1>4 DEF Good, new

LEMMA GoodUnlink ==
  ASSUME NEW blk, Good(blk), NEW o \in Starts(blk) \ {0, 12}, NEW b, b = Unlinked(blk, o)
  PROVE  /\ Good(b)
         /\ Starts(b) = Starts(blk) \ {o}
         /\ \A q \in Starts(b) : b[q].name = blk[q].name /\ b[q].inode = blk[q].inode
<1>1. /\ WellFormed(b, Ino) /\ Starts(b) = Starts(blk) \ {o}
      /\ \A q \in Starts(b) : b[q].name = blk[q].name /\ b[q].inode = blk[q].inode
  BY UnlinkEntry DEF Good
<1>2. Leads(b)
  BY <1>1 DEF Good, Leads
<1> QED BY <1>1, <1>2 DEF Good

AllGood == /\ blocks \in Seq(ToSet(blocks)) /\ blocks # <<>>
           /\ Len(blocks) <= EXT2_DIRECT_BLOCKS + 1
           /\ \A k \in DOMAIN blocks : Good(blocks[k])

LEMMA InvariantParts ==
  IInv <=> AllGood /\ OneEntryEach /\ failed \in {"none", "no_entry", "dot", "range"}
BY DEF IInv, TypeOK, BlocksTiled, DotsLead, AllGood, Good, WellFormed, Led, Leads, Tiled

\* Entries of inodes of Child are those with a name other than the dots.
LEMMA ChildNamed ==
  ASSUME NEW blk, Good(blk), NEW o \in Starts(blk)
  PROVE  /\ blk[o].name \in Name <=> o \notin {0, 12}
         /\ blk[o].inode \in Child <=> o \notin {0, 12}
<1>1. blk[o].name \in FileName
  BY BlockEntries DEF Good, WellFormed
<1> QED BY <1>1, NameAssumption, InodeAssumption DEF Good, Leads, FileName

\* An entry of the directory is one of its blocks' entries behind the dots.
EntryAt(name, n, k, o) == /\ o \in Starts(blocks[k]) \ {0, 12}
                          /\ blocks[k][o].name = name /\ blocks[k][o].inode = n
EntriesListed ==
  \A name, n : <<name, n>> \in entries <=> \E k \in DOMAIN blocks : \E o : EntryAt(name, n, k, o)

LEMMA EntriesAre == AllGood => EntriesListed
<1> SUFFICES ASSUME AllGood, NEW name, NEW n
             PROVE  <<name, n>> \in entries <=>
                       \E k \in DOMAIN blocks : \E o : EntryAt(name, n, k, o)
  BY DEF EntriesListed
<1>1. ASSUME NEW k \in DOMAIN blocks
      PROVE  <<name, n>> \in EntriesOf(blocks[k]) <=> \E o : EntryAt(name, n, k, o)
  <2>1. \A o \in Starts(blocks[k]) : blocks[k][o].name \in Name <=> o \notin {0, 12}
    BY ChildNamed DEF AllGood
  <2> QED BY <2>1 DEF EntriesOf, EntryAt
<1>2. <<name, n>> \in entries <=> \E k \in DOMAIN blocks : <<name, n>> \in EntriesOf(blocks[k])
  BY DEF entries
<1> QED BY <1>1, <1>2

LEMMA EntriesArePairs == \A e \in entries : e = <<e[1], e[2]>>
BY DEF entries, EntriesOf

\* An inode without an entry is in no block.
LEMMA Unnamed ==
  ASSUME AllGood, NEW n \in Child, \A e \in entries : e[2] # n
  PROVE  \A k \in DOMAIN blocks : \A o \in Starts(blocks[k]) : blocks[k][o].inode # n
<1> SUFFICES ASSUME NEW k \in DOMAIN blocks, NEW o \in Starts(blocks[k]), blocks[k][o].inode = n
             PROVE  FALSE
  OBVIOUS
<1>1. o \notin {0, 12}
  BY ChildNamed DEF AllGood
<1>2. <<blocks[k][o].name, n>> \in entries
  BY <1>1, EntriesAre DEF EntriesListed, EntryAt
<1> QED BY <1>2

\* Block k is replaced by b (or b is appended), which holds the entries of blk
\* and one more, for inode n.
LEMMA GrowBlocks ==
  ASSUME AllGood, OneEntryEach, NEW n \in Child, NEW name \in Name, \A e \in entries : e[2] # n,
         NEW b, Good(b), NEW new \in Starts(b) \ {0, 12},
         b[new].name = name, b[new].inode = n,
         NEW k \in DOMAIN blocks', blocks'[k] = b,
         AllGood', DOMAIN blocks' = DOMAIN blocks \cup {k},
         \A j \in DOMAIN blocks : j # k => blocks'[j] = blocks[j],
         \A q \in Starts(b) \ {0, 12, new} :
            k \in DOMAIN blocks /\ q \in Starts(blocks[k])
            /\ b[q].name = blocks[k][q].name /\ b[q].inode = blocks[k][q].inode,
         k \in DOMAIN blocks => Starts(blocks[k]) \subseteq Starts(b) \ {new}
  PROVE  OneEntryEach' /\ entries' = entries \cup {<<name, n>>}
<1>1. \A j \in DOMAIN blocks : \A o \in Starts(blocks[j]) : blocks[j][o].inode # n
  BY Unnamed
<1>2. OneEntryEach'
  <2> SUFFICES ASSUME NEW i \in DOMAIN blocks', NEW j \in DOMAIN blocks',
                      NEW o \in Starts(blocks'[i]), NEW q \in Starts(blocks'[j]),
                      blocks'[i][o].inode \in Child, blocks'[i][o].inode = blocks'[j][q].inode
               PROVE  i = j /\ o = q
    BY DEF OneEntryEach
  <2>1. o \notin {0, 12} /\ q \notin {0, 12}
    BY ChildNamed DEF AllGood
  <2>2. \/ i = k /\ o = new
        \/ /\ i \in DOMAIN blocks /\ o \in Starts(blocks[i])
           /\ blocks'[i][o].inode = blocks[i][o].inode
    BY <2>1
  <2>3. \/ j = k /\ q = new
        \/ /\ j \in DOMAIN blocks /\ q \in Starts(blocks[j])
           /\ blocks'[j][q].inode = blocks[j][q].inode
    BY <2>1
  <2> QED BY <1>1, <2>2, <2>3 DEF OneEntryEach
<1>3. ASSUME NEW nm, NEW m
      PROVE  <<nm, m>> \in entries' <=> <<nm, m>> \in entries \/ (nm = name /\ m = n)
  <2>1. <<nm, m>> \in entries' <=> \E j \in DOMAIN blocks' : \E o : EntryAt(nm, m, j, o)'
    <3>1. (AllGood => EntriesListed)'
      BY EntriesAre, PTL
    <3> QED BY <3>1 DEF EntriesListed, EntryAt
  <2>2. <<nm, m>> \in entries <=> \E j \in DOMAIN blocks : \E o : EntryAt(nm, m, j, o)
    BY EntriesAre DEF EntriesListed
  <2>3. ASSUME NEW j \in DOMAIN blocks, NEW o, EntryAt(nm, m, j, o)
        PROVE  j \in DOMAIN blocks' /\ EntryAt(nm, m, j, o)'
    BY <2>3 DEF EntryAt
  <2>4. ASSUME NEW j \in DOMAIN blocks', NEW o, EntryAt(nm, m, j, o)'
        PROVE  \/ nm = name /\ m = n
               \/ j \in DOMAIN blocks /\ EntryAt(nm, m, j, o)
    BY <2>4 DEF EntryAt
  <2>5. EntryAt(name, n, k, new)'
    BY DEF EntryAt
  <2> QED BY <2>1, <2>2, <2>3, <2>4, <2>5
<1>4. \A e \in entries' : e = <<e[1], e[2]>>
  <2>1. (\A e \in entries : e = <<e[1], e[2]>>)'
    BY EntriesArePairs, PTL
  <2> QED BY <2>1
<1>5. entries' = entries \cup {<<name, n>>}
  BY <1>3, <1>4, EntriesArePairs
<1> QED BY <1>2, <1>5

\* The entry of inode n at offset o of block k goes, and nothing else.
LEMMA ShrinkBlocks ==
  ASSUME AllGood, OneEntryEach, NEW n \in Child,
         NEW k \in DOMAIN blocks, NEW o \in Starts(blocks[k]) \ {0, 12}, blocks[k][o].inode = n,
         NEW b, blocks'[k] = b, Starts(b) = Starts(blocks[k]) \ {o},
         \A q \in Starts(b) : b[q].name = blocks[k][q].name /\ b[q].inode = blocks[k][q].inode,
         AllGood', DOMAIN blocks' = DOMAIN blocks,
         \A j \in DOMAIN blocks : j # k => blocks'[j] = blocks[j]
  PROVE  /\ OneEntryEach'
         /\ \E e \in entries : e[2] = n
         /\ entries' = {e \in entries : e[2] # n}
<1>1. ASSUME NEW j \in DOMAIN blocks, NEW q \in Starts(blocks'[j])
      PROVE  /\ q \in Starts(blocks[j])
             /\ blocks'[j][q].inode = blocks[j][q].inode
             /\ blocks'[j][q].name = blocks[j][q].name
  BY <1>1
<1>2. OneEntryEach'
  BY <1>1 DEF OneEntryEach
<1>3. <<blocks[k][o].name, n>> \in entries
  BY EntriesAre DEF EntriesListed, EntryAt
<1>4. ASSUME NEW nm, NEW m
      PROVE  <<nm, m>> \in entries' <=> <<nm, m>> \in entries /\ m # n
  <2>1. <<nm, m>> \in entries' <=> \E j \in DOMAIN blocks' : \E q : EntryAt(nm, m, j, q)'
    <3>1. (AllGood => EntriesListed)'
      BY EntriesAre, PTL
    <3> QED BY <3>1 DEF EntriesListed, EntryAt
  <2>2. <<nm, m>> \in entries <=> \E j \in DOMAIN blocks : \E q : EntryAt(nm, m, j, q)
    BY EntriesAre DEF EntriesListed
  <2>3. ASSUME NEW j \in DOMAIN blocks, NEW q, EntryAt(nm, m, j, q)'
        PROVE  EntryAt(nm, m, j, q) /\ m # n
    <3>1. EntryAt(nm, m, j, q)
      BY <1>1, <2>3 DEF EntryAt
    <3>2. ASSUME m = n PROVE FALSE
      <4>1. blocks[j][q].inode = blocks[k][o].inode /\ q \in Starts(blocks[j])
        BY <3>1, <3>2 DEF EntryAt
      <4>2. j = k /\ q = o
        BY <4>1 DEF OneEntryEach
      <4> QED BY <2>3, <4>2 DEF EntryAt
    <3> QED BY <3>1, <3>2
  <2>4. ASSUME NEW j \in DOMAIN blocks, NEW q, EntryAt(nm, m, j, q), m # n
        PROVE  EntryAt(nm, m, j, q)'
    BY <2>4 DEF EntryAt
  <2> QED BY <2>1, <2>2, <2>3, <2>4
<1>5. (\A e \in entries : e = <<e[1], e[2]>>)'
  BY EntriesArePairs, PTL
<1>6. entries' = {e \in entries : e[2] # n}
  BY <1>4, <1>5, EntriesArePairs
<1> QED BY <1>2, <1>3, <1>6

LEMMA OverItsRange ==
  ASSUME NEW T, NEW s \in Seq(T)
  PROVE  /\ Len(s) \in Nat /\ DOMAIN s = 1 .. Len(s) /\ s \in [1 .. Len(s) -> T]
         /\ s \in Seq(ToSet(s))
<1>1. PICK n \in Nat : s \in [1 .. n -> T]
  BY SeqDef
<1>2. s \in [1 .. n -> ToSet(s)]
  BY <1>1 DEF ToSet
<1> QED BY <1>1, <1>2, SeqDef

LEMMA Replaced ==
  ASSUME NEW s, s \in Seq(ToSet(s)), s # <<>>, NEW k \in DOMAIN s, NEW b
  PROVE  LET t == [s EXCEPT ![k] = b] IN
         /\ t \in Seq(ToSet(t)) /\ t # <<>>
         /\ DOMAIN t = DOMAIN s /\ Len(t) = Len(s)
         /\ t[k] = b /\ \A j \in DOMAIN s : j # k => t[j] = s[j]
<1> DEFINE T == ToSet(s)
           t == [s EXCEPT ![k] = b]
<1> HIDE DEF T
<1>1. PICK n \in Nat : s \in [1 .. n -> T]
  BY SeqDef DEF T
<1>2. t \in [1 .. n -> T \cup {b}]
  BY <1>1
<1>3. /\ DOMAIN t = DOMAIN s
      /\ t[k] = b /\ \A j \in DOMAIN s : j # k => t[j] = s[j]
  BY <1>1
<1> HIDE DEF t
<1>4. t \in Seq(T \cup {b})
  BY <1>2, SeqDef
<1>5. t \in Seq(ToSet(t))
  BY <1>4, OverItsRange
<1>6. t # <<>> /\ Len(t) = Len(s)
  BY <1>1, <1>3, <1>5, OverItsRange
<1> QED BY <1>3, <1>5, <1>6 DEF t

LEMMA Appended ==
  ASSUME NEW s, s \in Seq(ToSet(s)), NEW b
  PROVE  LET t == Append(s, b) IN
         /\ t \in Seq(ToSet(t)) /\ t # <<>>
         /\ DOMAIN t = DOMAIN s \cup {Len(s) + 1} /\ Len(s) + 1 \notin DOMAIN s
         /\ Len(s) \in Nat /\ Len(t) = Len(s) + 1
         /\ t[Len(s) + 1] = b /\ \A j \in DOMAIN s : t[j] = s[j]
<1> DEFINE T == ToSet(s)
           t == Append(s, b)
<1> HIDE DEF T
<1>1. s \in Seq(T \cup {b}) /\ b \in T \cup {b}
  BY SeqDef DEF T
<1>2. /\ t \in Seq(T \cup {b}) /\ Len(t) = Len(s) + 1
      /\ \A j \in 1 .. Len(s) : t[j] = s[j]
      /\ t[Len(s) + 1] = b
  BY <1>1, AppendProperties
<1> HIDE DEF t
<1>3. /\ Len(s) \in Nat /\ DOMAIN s = 1 .. Len(s) /\ DOMAIN t = 1 .. Len(t)
      /\ t \in Seq(ToSet(t))
  BY <1>1, <1>2, OverItsRange
<1>4. t # <<>>
  BY <1>2, <1>3
<1> QED BY <1>2, <1>3, <1>4 DEF t

-------------------------------------------------------------------------------
(* The actions *)

LEMMA AddStep ==
  ASSUME IInv, NEW name \in Name, NEW n \in Child, add_entry_to_inode(name, n)
  PROVE  IInv' /\ (entries' = entries \/ entries' = entries \cup {<<name, n>>})
<1> DEFINE roomy == {k \in DOMAIN blocks : Gaps(blocks[k], name) # {}}
<1>1. AllGood /\ OneEntryEach /\ (\A e \in entries : e[2] # n)
      /\ failed \in {"none", "no_entry", "dot", "range"}
  BY InvariantParts DEF add_entry_to_inode
<1>2. ASSUME NEW blk, Good(blk), Gaps(blk, name) # {}, NEW b, b = add_entry(blk, name, n)
      PROVE  \E o \in Gaps(blk, name) : b = Insert(blk, o, name, n)
  <2>1. Gaps(blk, name) \in SUBSET Nat
    BY <1>2, BlockEntries DEF Gaps, Good, WellFormed
  <2>2. Min(Gaps(blk, name)) \in Gaps(blk, name)
    BY <1>2, <2>1, MinIsLeast
  <2> QED BY <1>2, <2>2 DEF add_entry
<1>3. CASE roomy # {} /\ blocks' = [blocks EXCEPT ![Min(roomy)] = add_entry(@, name, n)]
           /\ failed' = failed
  <2> DEFINE k == Min(roomy)
             b == add_entry(blocks[k], name, n)
  <2>1. k \in roomy /\ k \in DOMAIN blocks
    <3>1. roomy \in SUBSET Nat
      BY <1>1 DEF AllGood
    <3> QED BY <1>3, <3>1, MinIsLeast
  <2>2. blocks' = [blocks EXCEPT ![k] = b]
    BY <1>3, <2>1
  <2>3. PICK o \in Gaps(blocks[k], name) : b = Insert(blocks[k], o, name, n)
    BY <1>1, <1>2, <2>1 DEF AllGood
  <2> HIDE DEF k, b, roomy
  <2> DEFINE new == o + EntSize(blocks[k][o].name)
  <2>4. /\ Good(b) /\ new \notin Starts(blocks[k]) /\ Starts(b) = Starts(blocks[k]) \cup {new}
        /\ b[new].name = name /\ b[new].inode = n
        /\ \A q \in Starts(blocks[k]) : b[q].name = blocks[k][q].name
                                        /\ b[q].inode = blocks[k][q].inode
    BY <1>1, <2>1, <2>3, GoodInsert DEF AllGood
  <2> HIDE DEF new
  <2>5. 0 \in Starts(blocks[k]) /\ 12 \in Starts(blocks[k])
    BY <1>1, <2>1 DEF AllGood, Good, WellFormed, Tiled, Leads
  <2>6. /\ blocks' \in Seq(ToSet(blocks')) /\ blocks' # <<>>
        /\ DOMAIN blocks' = DOMAIN blocks /\ Len(blocks') = Len(blocks)
        /\ blocks'[k] = b /\ \A j \in DOMAIN blocks : j # k => blocks'[j] = blocks[j]
    <3>1. blocks \in Seq(ToSet(blocks)) /\ blocks # <<>>
      BY <1>1 DEF AllGood
    <3>2. k \in DOMAIN blocks
      BY <2>1
    <3> DEFINE s == blocks
               t == [s EXCEPT ![k] = b]
    <3>3. /\ t \in Seq(ToSet(t)) /\ t # <<>>
          /\ DOMAIN t = DOMAIN s /\ Len(t) = Len(s)
          /\ t[k] = b /\ \A j \in DOMAIN s : j # k => t[j] = s[j]
      BY <3>1, <3>2, Replaced
    <3>4. blocks' = t
      BY <2>2
    <3> HIDE DEF t
    <3> QED BY <3>3, <3>4
  <2>7. AllGood'
    <3>1. \A j \in DOMAIN blocks' : Good(blocks'[j])
      BY <1>1, <2>4, <2>6 DEF AllGood
    <3>2. Len(blocks') <= EXT2_DIRECT_BLOCKS + 1
      BY <1>1, <2>6 DEF AllGood
    <3> QED BY <2>6, <3>1, <3>2 DEF AllGood, Good, WellFormed, Led, IsBlock, Tiled, Leads
  <2>8. OneEntryEach' /\ entries' = entries \cup {<<name, n>>}
    BY <1>1, <2>1, <2>4, <2>5, <2>6, <2>7, GrowBlocks
  <2> QED BY <1>1, <1>3, <2>7, <2>8 DEF IInv, TypeOK, BlocksTiled, DotsLead, AllGood, Good, WellFormed
<1>4. CASE roomy = {} /\ ~PastDirect /\ failed' = failed
           /\ blocks' = Append(blocks, add_entry(init_entry_block(self, father), name, n))
  <2> DEFINE fresh == init_entry_block(self, father)
             k == Len(blocks) + 1
             b == add_entry(fresh, name, n)
  <2>1. blocks' = Append(blocks, b) /\ Len(blocks) <= EXT2_DIRECT_BLOCKS
    BY <1>1, <1>4, DirectAssumption, OverItsRange DEF PastDirect, AllGood
  <2>2. Good(fresh) /\ Starts(fresh) = {0, 12}
    BY GoodFresh DEF Good
  <2>3. Gaps(fresh, name) # {}
    <3>1. fresh[12].rec_len = BLOCK_SIZE - 12 /\ fresh[12].name = DotDot
      BY DEF init_entry_block, Entry
    <3>2. name \in FileName /\ EntSize(name) \in Nat /\ 24 + EntSize(name) <= BLOCK_SIZE
      BY EntrySizes DEF FileName
    <3>3. Remain(fresh, 12) >= EntSize(name)
      BY <3>1, <3>2, EntrySizes DEF Remain
    <3> QED BY <2>2, <3>3 DEF Gaps
  <2> HIDE DEF fresh
  <2>4. PICK o \in Gaps(fresh, name) : b = Insert(fresh, o, name, n)
    BY <1>2, <2>2, <2>3
  <2> HIDE DEF b
  <2> DEFINE new == o + EntSize(fresh[o].name)
  <2>5. /\ Good(b) /\ new \notin {0, 12} /\ Starts(b) = {0, 12} \cup {new}
        /\ b[new].name = name /\ b[new].inode = n
    BY <2>2, <2>4, GoodInsert
  <2> HIDE DEF new
  <2>6. /\ blocks' \in Seq(ToSet(blocks')) /\ blocks' # <<>>
        /\ DOMAIN blocks' = DOMAIN blocks \cup {k} /\ k \notin DOMAIN blocks
        /\ Len(blocks) \in Nat /\ Len(blocks') = Len(blocks) + 1
        /\ blocks'[k] = b /\ \A j \in DOMAIN blocks : blocks'[j] = blocks[j]
    <3>1. blocks \in Seq(ToSet(blocks)) /\ blocks # <<>>
      BY <1>1 DEF AllGood
    <3> QED BY <2>1, <3>1, Appended
  <2> HIDE DEF k
  <2>7. AllGood'
    <3>1. \A j \in DOMAIN blocks' : Good(blocks'[j])
      BY <1>1, <2>5, <2>6 DEF AllGood
    <3>2. Len(blocks') <= EXT2_DIRECT_BLOCKS + 1
      BY <2>1, <2>6, DirectAssumption
    <3> QED BY <2>6, <3>1, <3>2 DEF AllGood, Good, WellFormed, Led, IsBlock, Tiled, Leads
  <2>8. OneEntryEach' /\ entries' = entries \cup {<<name, n>>}
    BY <1>1, <2>5, <2>6, <2>7, GrowBlocks
  <2> QED BY <1>1, <1>4, <2>7, <2>8 DEF IInv, TypeOK, BlocksTiled, DotsLead, AllGood, Good, WellFormed
<1>5. CASE Astray
  BY <1>5 DEF IInv, TypeOK, BlocksTiled, DotsLead, OneEntryEach, entries, Astray
<1> QED BY <1>3, <1>4, <1>5 DEF add_entry_to_inode

\* Freeing an inode takes its entry out; an assert that fails leaves the
\* directory as it was.
LEMMA FreeStep ==
  ASSUME IInv, NEW n \in Ino, free_entry_to_inode(n)
  PROVE  /\ IInv'
         /\ \/ entries' = entries
            \/ n \in Child /\ (\E e \in entries : e[2] = n) /\ entries' = {e \in entries : e[2] # n}
<1> DEFINE naming == {k \in DOMAIN blocks : Naming(blocks[k], n) # {}}
           k == Min(naming)
<1>1. AllGood /\ OneEntryEach
  BY InvariantParts
<1>2. CASE blocks' = blocks /\ failed' \in {"no_entry", "dot", "range"}
  BY <1>2 DEF IInv, TypeOK, BlocksTiled, DotsLead, OneEntryEach, entries
<1>3. CASE /\ naming # {} /\ ~FreesDot(blocks[k], n)
           /\ blocks' = [blocks EXCEPT ![k] = free(@, n)] /\ failed' = failed
  <2> DEFINE blk == blocks[k]
             o == Min(Naming(blk, n))
             b == Unlinked(blk, o)
  <2>1. k \in naming
    <3>1. naming \in SUBSET Nat
      BY <1>1, OverItsRange DEF AllGood
    <3> QED BY <1>3, <3>1, MinIsLeast
  <2>2. k \in DOMAIN blocks /\ Good(blk)
    BY <1>1, <2>1 DEF AllGood
  <2>3. o \in Starts(blk) /\ blk[o].inode = n
    <3>1. Naming(blk, n) \in SUBSET Nat
      BY <2>2, BlockEntries DEF Naming, Good, WellFormed
    <3>2. o \in Naming(blk, n)
      BY <2>1, <3>1, MinIsLeast
    <3> QED BY <3>2 DEF Naming
  <2>4. blocks' = [blocks EXCEPT ![k] = b]
    BY <1>3, <2>2 DEF free
  <2>5. o \notin {0, 12}
    BY <1>3, <2>2, <2>3 DEF FreesDot, Good, Leads
  <2> HIDE DEF k, naming, o
  <2>6. n \in Child
    BY <2>2, <2>3, <2>5, ChildNamed
  <2>7. /\ Good(b) /\ Starts(b) = Starts(blk) \ {o}
        /\ \A q \in Starts(b) : b[q].name = blk[q].name /\ b[q].inode = blk[q].inode
    BY <2>2, <2>3, <2>5, GoodUnlink
  <2> HIDE DEF b
  <2>8. /\ blocks' \in Seq(ToSet(blocks')) /\ blocks' # <<>>
        /\ DOMAIN blocks' = DOMAIN blocks /\ Len(blocks') = Len(blocks)
        /\ blocks'[k] = b /\ \A j \in DOMAIN blocks : j # k => blocks'[j] = blocks[j]
    <3>1. blocks \in Seq(ToSet(blocks)) /\ blocks # <<>>
      BY <1>1 DEF AllGood
    <3> QED BY <2>2, <2>4, <3>1, Replaced
  <2>9. AllGood'
    <3>1. \A j \in DOMAIN blocks' : Good(blocks'[j])
      BY <1>1, <2>7, <2>8 DEF AllGood
    <3>2. Len(blocks') <= EXT2_DIRECT_BLOCKS + 1
      BY <1>1, <2>8 DEF AllGood
    <3> QED BY <2>8, <3>1, <3>2 DEF AllGood, Good, WellFormed, Led, IsBlock, Tiled, Leads
  <2>10. /\ OneEntryEach'
         /\ \E e \in entries : e[2] = n
         /\ entries' = {e \in entries : e[2] # n}
    BY <1>1, <2>2, <2>3, <2>5, <2>6, <2>7, <2>8, <2>9, ShrinkBlocks
  <2>11. IInv'
    BY <1>3, <2>9, <2>10 DEF IInv, TypeOK, BlocksTiled, DotsLead, AllGood, Good, WellFormed
  <2> QED BY <2>6, <2>10, <2>11
<1> QED BY <1>2, <1>3 DEF free_entry_to_inode, Astray

-------------------------------------------------------------------------------
(* The specification *)

LEMMA InitStep == Init => IInv /\ entries = {}
<1> SUFFICES ASSUME Init PROVE IInv /\ entries = {}
  OBVIOUS
<1> DEFINE fresh == init_entry_block(self, father)
<1>1. blocks = <<fresh>> /\ failed = "none"
  BY DEF Init
<1>2. Good(fresh) /\ Starts(fresh) = {0, 12}
  BY GoodFresh DEF Good
<1> HIDE DEF fresh
<1>3. DOMAIN blocks = {1} /\ blocks[1] = fresh /\ blocks # <<>>
  BY <1>1
<1>4. AllGood
  <2>1. blocks \in Seq({fresh})
    BY <1>1
  <2>2. blocks \in Seq(ToSet(blocks)) /\ Len(blocks) = 1
    BY <1>1, <2>1, OverItsRange
  <2> QED BY <1>2, <1>3, <2>2, DirectAssumption DEF AllGood
<1>5. OneEntryEach
  <2>1. \A o \in Starts(fresh) : fresh[o].inode \notin Child
    BY <1>2, ChildNamed
  <2> QED BY <1>3, <2>1 DEF OneEntryEach
<1>6. \A name, n : <<name, n>> \notin entries
  BY <1>2, <1>3, <1>4, EntriesAre DEF EntriesListed, EntryAt
<1>7. entries = {}
  BY <1>6, EntriesArePairs
<1> QED BY <1>1, <1>4, <1>5, <1>7, InvariantParts

LEMMA NextStep == IInv /\ [Next]_vars => IInv' /\ [Dir!Next]_entries
<1> SUFFICES ASSUME IInv, [Next]_vars PROVE IInv' /\ [Dir!Next]_entries
  OBVIOUS
<1>1. ASSUME NEW name \in Name, NEW n \in Child, add_entry_to_inode(name, n)
      PROVE  IInv' /\ [Dir!Next]_entries
  BY <1>1, AddStep DEF Dir!Next, Dir!Add
<1>2. ASSUME NEW n \in Ino, free_entry_to_inode(n)
      PROVE  IInv' /\ [Dir!Next]_entries
  BY <1>2, FreeStep DEF Dir!Next, Dir!Free
<1>3. CASE UNCHANGED vars
  BY <1>3 DEF IInv, TypeOK, BlocksTiled, DotsLead, OneEntryEach, entries, vars
<1>4. CASE list_entries
  BY <1>4 DEF list_entries, Astray, IInv, TypeOK, BlocksTiled, DotsLead, OneEntryEach, entries
<1> QED BY <1>1, <1>2, <1>3, <1>4 DEF Next

THEOREM Invariance == Spec => []IInv
<1>1. Init => IInv
  BY InitStep
<1>2. IInv /\ [Next]_vars => IInv'
  BY NextStep
<1> QED BY <1>1, <1>2, PTL DEF Spec

\* The type invariant.
THEOREM TypeCorrect == Spec => []TypeOK
<1>1. IInv => TypeOK
  BY DEF IInv
<1> QED BY <1>1, Invariance, PTL

\* "Sum of rec_len is BLOCK_SIZE." for every block of every directory, after
\* any adds and frees: walks end, and the asserts of add_entry hold.
THEOREM RecordsTile == Spec => []BlocksTiled
<1>1. IInv => BlocksTiled
  BY DEF IInv
<1> QED BY <1>1, Invariance, PTL

\* The dots lead every block for ever, and no inode gets two entries.
THEOREM EntriesInOrder == Spec => [](DotsLead /\ OneEntryEach)
<1>1. IInv => DotsLead /\ OneEntryEach
  BY DEF IInv
<1> QED BY <1>1, Invariance, PTL

\* A set each of whose members is given by exactly one index of D.
LEMMA Counted ==
  ASSUME NEW D, IsFiniteSet(D), NEW T, NEW f \in [D -> T],
         \A i, j \in D : f[i] = f[j] => i = j, \A t \in T : \E i \in D : f[i] = t
  PROVE  IsFiniteSet(T) /\ Cardinality(D) = Cardinality(T)
<1>1. f \in Bijection(D, T)
  BY DEF Bijection, Injection, Surjection, IsInjective
<1> QED BY <1>1, FS_Bijection DEF ExistsBijection

\* Where the entries of a listing are: the dots at the first two places and, in
\* front of the entries of a second block, "." once more; then every entry of the
\* directory once.
Named(listing, i, name, n) == listing[i].name = name /\ listing[i].inode = n
Dots(listing) == {1, 2} \cup {i \in {3} : i \in DOMAIN listing /\ IsDot(listing[i])}

LEMMA ListingPlaces ==
  ASSUME IInv, NEW listing, listing = get_inode_all_entry(blocks)
  PROVE  /\ listing \in Seq(EntryOf(Ino)) /\ Len(listing) >= 2
         /\ Named(listing, 1, Dot, self) /\ Named(listing, 2, DotDot, father)
         /\ \A i \in DOMAIN listing \ {1, 2} : IsDot(listing[i]) => i = 3 /\ Named(listing, i, Dot, self)
         /\ \A i \in DOMAIN listing \ Dots(listing) : <<listing[i].name, listing[i].inode>> \in entries
         /\ \A e \in entries : \E i \in DOMAIN listing \ Dots(listing) : Named(listing, i, e[1], e[2])
         /\ \A i, j \in DOMAIN listing \ Dots(listing) : listing[i].inode = listing[j].inode => i = j
<1> DEFINE n == Len(blocks)
<1>1. /\ AllGood /\ OneEntryEach /\ n \in Nat /\ n > 0 /\ DOMAIN blocks = 1 .. n
      /\ \A k \in 1 .. n : Good(blocks[k]) /\ WellFormed(blocks[k], Ino)
  <2>1. AllGood /\ OneEntryEach
    BY InvariantParts
  <2>2. n \in Nat /\ DOMAIN blocks = 1 .. n
    BY <2>1, LenProperties DEF AllGood
  <2>3. n # 0
    BY <2>1, EmptySeq DEF AllGood
  <2> HIDE DEF n
  <2>4. n > 0
    BY <2>2, <2>3
  <2>5. \A k \in 1 .. n : Good(blocks[k])
    BY <2>1, <2>2 DEF AllGood
  <2> QED BY <2>1, <2>2, <2>4, <2>5 DEF Good
<1> HIDE DEF n
<1>2. listing \in Seq(EntryOf(Ino)) /\ \E at : Lists(listing, at, blocks, n)
  BY <1>1, Listed
<1>3. PICK at : Lists(listing, at, blocks, n)
  BY <1>2
<1>4. /\ Len(listing) \in Nat /\ DOMAIN listing = 1 .. Len(listing)
      /\ \A i \in DOMAIN listing : /\ at[i] \in (1 .. n) \X Offset /\ at[i][2] \in Starts(blocks[at[i][1]])
                                   /\ listing[i] = blocks[at[i][1]][at[i][2]]
      /\ \A i, j \in DOMAIN listing : at[i] = at[j] => i = j
      /\ \A k \in 1 .. n : \A o \in Starts(blocks[k]) :
           ~IsDot(blocks[k][o]) => \E i \in DOMAIN listing : at[i] = <<k, o>>
      /\ Len(listing) >= 2 /\ at[1] = <<1, 0>> /\ at[2] = <<1, 12>>
      /\ \A i \in DOMAIN listing : i > 2 /\ IsDot(listing[i]) => i = 3 /\ (at[3][1] = 1 \/ at[3] = <<2, 0>>)
  <2>1. Len(listing) \in Nat /\ DOMAIN listing = 1 .. Len(listing)
    BY <1>2, LenProperties
  <2> DEFINE D == 1 .. Len(listing)
  <2>2. /\ \A i \in D : /\ at[i] \in (1 .. n) \X Offset /\ at[i][2] \in Starts(blocks[at[i][1]])
                        /\ listing[i] = blocks[at[i][1]][at[i][2]]
        /\ \A i, j \in D : at[i] = at[j] => i = j
        /\ \A k \in 1 .. n : \A o \in Starts(blocks[k]) :
             ~IsDot(blocks[k][o]) => \E i \in D : at[i] = <<k, o>>
    BY <1>3 DEF Lists
  <2>3. /\ Len(listing) >= 2 /\ at[1] = <<1, 0>> /\ at[2] = <<1, 12>>
        /\ \A i \in D : i > 2 /\ IsDot(listing[i]) => i = 3 /\ (at[3][1] = 1 \/ at[3] = <<2, 0>>)
    BY <1>1, <1>3 DEF Lists
  <2>4. DOMAIN listing = D /\ Len(listing) \in Nat
    BY <2>1
  <2> HIDE DEF D
  <2> QED BY <2>2, <2>3, <2>4
<1>5. ASSUME NEW k \in 1 .. n, NEW o \in Starts(blocks[k])
      PROVE  /\ o = 0 => blocks[k][o].name = Dot /\ blocks[k][o].inode = self
             /\ o = 12 => blocks[k][o].name = DotDot /\ blocks[k][o].inode = father
             /\ IsDot(blocks[k][o]) => o = 0 \/ o = 12
             /\ IsDot(blocks[k][o]) <=> o \in {0, 12}
  BY <1>1 DEF Good, Leads, IsDot
<1>6. 1 \in DOMAIN listing /\ 2 \in DOMAIN listing
  BY <1>4
<1>7. Named(listing, 1, Dot, self) /\ Named(listing, 2, DotDot, father)
  <2>1. listing[1] = blocks[1][0] /\ 0 \in Starts(blocks[1]) /\ listing[2] = blocks[1][12] /\ 12 \in Starts(blocks[1])
    BY <1>4, <1>6
  <2>2. 1 \in 1 .. n
    BY <1>1
  <2> QED BY <1>5, <2>1, <2>2 DEF Named
<1>8. ASSUME NEW i \in DOMAIN listing \ {1, 2}, IsDot(listing[i])
      PROVE  i = 3 /\ Named(listing, i, Dot, self)
  <2>1. i > 2
    BY <1>4
  <2>2. i = 3 /\ (at[3][1] = 1 \/ at[3] = <<2, 0>>)
    BY <1>4, <1>8, <2>1
  <2>3. at[3] \in (1 .. n) \X Offset /\ at[3][2] \in Starts(blocks[at[3][1]]) /\ listing[3] = blocks[at[3][1]][at[3][2]]
    BY <1>4, <2>2
  <2>4. at[3][2] \in {0, 12}
    BY <1>5, <1>8, <2>2, <2>3
  <2>5. at[3] # <<1, 0>> /\ at[3] # <<1, 12>>
    <3>1. 3 \in DOMAIN listing /\ 3 # 1 /\ 3 # 2
      BY <2>2
    <3> QED BY <1>4, <1>6, <3>1
  <2>6. at[3] = <<2, 0>>
    BY <2>2, <2>3, <2>4, <2>5
  <2> QED BY <1>5, <2>2, <2>3, <2>6 DEF Named
<1>9. ASSUME NEW i \in DOMAIN listing
      PROVE  i \in Dots(listing) <=> IsDot(listing[i])
  BY <1>7, <1>8 DEF Dots, Named, IsDot
<1>10. ASSUME NEW i \in DOMAIN listing \ Dots(listing)
       PROVE  /\ at[i] \in (1 .. n) \X Offset /\ at[i][2] \in Starts(blocks[at[i][1]]) \ {0, 12}
              /\ listing[i] = blocks[at[i][1]][at[i][2]]
  BY <1>4, <1>5, <1>9
<1>11. ASSUME NEW i \in DOMAIN listing \ Dots(listing)
       PROVE  <<listing[i].name, listing[i].inode>> \in entries
  <2>1. EntryAt(listing[i].name, listing[i].inode, at[i][1], at[i][2])
    BY <1>10 DEF EntryAt
  <2> QED BY <1>1, <1>10, <2>1, EntriesAre DEF EntriesListed
<1>12. ASSUME NEW e \in entries
       PROVE  \E i \in DOMAIN listing \ Dots(listing) : Named(listing, i, e[1], e[2])
  <2>1. e = <<e[1], e[2]>>
    BY EntriesArePairs
  <2>2. PICK k \in 1 .. n : \E o : EntryAt(e[1], e[2], k, o)
    BY <1>1, <2>1, EntriesAre DEF EntriesListed
  <2>3. PICK o : EntryAt(e[1], e[2], k, o)
    BY <2>2
  <2>4. o \in Starts(blocks[k]) /\ ~IsDot(blocks[k][o])
    BY <1>5, <2>3 DEF EntryAt
  <2>5. PICK i \in DOMAIN listing : at[i] = <<k, o>>
    BY <1>4, <2>4
  <2>6. listing[i] = blocks[k][o]
    BY <1>4, <2>5
  <2> QED BY <1>9, <2>3, <2>4, <2>6 DEF EntryAt, Named
<1>13. ASSUME NEW i \in DOMAIN listing \ Dots(listing), NEW j \in DOMAIN listing \ Dots(listing),
              listing[i].inode = listing[j].inode
       PROVE  i = j
  <2>1. blocks[at[i][1]][at[i][2]].inode \in Child
    BY <1>1, <1>10, ChildNamed
  <2>2. at[i][1] = at[j][1] /\ at[i][2] = at[j][2]
    BY <1>1, <1>10, <1>13, <2>1 DEF OneEntryEach
  <2>3. at[i] = at[j]
    BY <1>10, <2>2
  <2> QED BY <1>4, <2>3
<1> QED BY <1>2, <1>4, <1>7, <1>8, <1>11, <1>12, <1>13

LEMMA ListingCounts == IInv => ListingExact
<1> SUFFICES ASSUME IInv PROVE ListingExact
  OBVIOUS
<1> DEFINE listing == get_inode_all_entry(blocks)
           D == DOMAIN listing
           At(name, n) == {i \in D : listing[i].name = name /\ listing[i].inode = n}
           Rest == D \ Dots(listing)
<1>1. /\ listing \in Seq(EntryOf(Ino)) /\ Len(listing) >= 2
      /\ Named(listing, 1, Dot, self) /\ Named(listing, 2, DotDot, father)
      /\ \A i \in D \ {1, 2} : IsDot(listing[i]) => i = 3 /\ Named(listing, i, Dot, self)
      /\ \A i \in Rest : <<listing[i].name, listing[i].inode>> \in entries
      /\ \A e \in entries : \E i \in Rest : Named(listing, i, e[1], e[2])
      /\ \A i, j \in Rest : listing[i].inode = listing[j].inode => i = j
  BY ListingPlaces
<1>2. Len(listing) \in Nat /\ D = 1 .. Len(listing)
  BY <1>1, LenProperties
<1> HIDE DEF listing
<1>3. Dot # DotDot /\ \A e \in entries : e[1] # Dot /\ e[1] # DotDot /\ e = <<e[1], e[2]>>
  <2>1. \A e \in entries : e[1] \in Name /\ e = <<e[1], e[2]>>
    BY DEF entries, EntriesOf
  <2> QED BY <2>1, NameAssumption
<1>4. 1 \in D /\ 2 \in D /\ IsFiniteSet(D) /\ Cardinality(D) = Len(listing)
  BY <1>1, <1>2, FS_Interval
<1>5. \A i \in Rest : ~IsDot(listing[i])
  BY <1>1 DEF Dots
<1>6. ASSUME NEW e \in entries PROVE Cardinality(At(e[1], e[2])) = 1
  <2>1. PICK i \in Rest : Named(listing, i, e[1], e[2])
    BY <1>1
  <2>2. ASSUME NEW j \in At(e[1], e[2]) PROVE j = i
    <3>1. listing[j].name # Dot /\ listing[j].name # DotDot /\ listing[j].inode = listing[i].inode
      BY <1>3, <2>1 DEF Named
    <3>2. j \in Rest
      BY <1>1, <3>1 DEF Dots, IsDot, Named
    <3> QED BY <1>1, <3>1, <3>2
  <2>3. At(e[1], e[2]) = {i}
    BY <2>1, <2>2 DEF Named
  <2> QED BY <2>3, FS_Singleton
<1>7. Cardinality(At(DotDot, father)) = 1
  <2>1. At(DotDot, father) = {2}
    BY <1>1, <1>3, <1>4 DEF Named, IsDot
  <2> QED BY <2>1, FS_Singleton
<1> DEFINE third == {i \in {3} : i \in D /\ IsDot(listing[i])}
<1>8. At(Dot, self) = {1} \cup third /\ Dots(listing) = At(Dot, self) \cup {2} /\ 2 \notin At(Dot, self)
  BY <1>1, <1>3, <1>4 DEF Named, IsDot, Dots
<1>9. Cardinality(At(Dot, self)) \in {1, 2} /\ IsFiniteSet(At(Dot, self))
  <2>1. third = {} \/ third = {3}
    OBVIOUS
  <2>2. IsFiniteSet({1}) /\ Cardinality({1}) = 1
    BY FS_Singleton
  <2>3. CASE third = {}
    <3>1. At(Dot, self) = {1}
      BY <1>8, <2>3
    <3> QED BY <2>2, <3>1
  <2>4. CASE third = {3}
    <3>1. At(Dot, self) = {1} \cup {3}
      BY <1>8, <2>4
    <3>2. IsFiniteSet({1} \cup {3}) /\ Cardinality({1} \cup {3}) = 2
      BY <2>2, FS_AddElement
    <3> QED BY <3>1, <3>2
  <2> QED BY <2>1, <2>3, <2>4
<1>10. IsFiniteSet(Dots(listing)) /\ Cardinality(Dots(listing)) = Cardinality(At(Dot, self)) + 1
  BY <1>8, <1>9, FS_AddElement
<1>11. IsFiniteSet(Rest) /\ Cardinality(Rest) = Cardinality(entries)
  <2> DEFINE f == [i \in Rest |-> <<listing[i].name, listing[i].inode>>]
  <2>1. IsFiniteSet(Rest)
    BY <1>4, FS_Difference
  <2>2. f \in [Rest -> entries] /\ \A i, j \in Rest : f[i] = f[j] => i = j
    BY <1>1
  <2>3. ASSUME NEW e \in entries PROVE \E i \in Rest : f[i] = e
    <3>1. PICK i \in Rest : Named(listing, i, e[1], e[2])
      BY <1>1
    <3> QED BY <1>3, <3>1 DEF Named
  <2> HIDE DEF f
  <2> QED BY <2>1, <2>2, <2>3, Counted
<1>12. Len(listing) = Cardinality(entries) + 1 + Cardinality(At(Dot, self))
  <2>1. D = Rest \cup Dots(listing) /\ Rest \cap Dots(listing) = {}
    BY <1>4, <1>8
  <2>2. Cardinality(D) = Cardinality(Rest) + Cardinality(Dots(listing)) - Cardinality({})
    BY <1>10, <1>11, <2>1, FS_Union
  <2>3. Cardinality({}) = 0 /\ Cardinality(Rest) \in Nat
    BY <1>11, FS_EmptySet, FS_CardinalityType
  <2> QED BY <1>4, <1>9, <1>10, <1>11, <2>2, <2>3
<1> QED BY <1>6, <1>7, <1>9, <1>12 DEF ListingExact, listing

\* As long as the blocks of a directory are direct ones, a listing names every
\* entry exactly once, ".." once, and "." once or twice.
THEOREM ListingIsExact == Spec => []ListingExact
<1>1. IInv => ListingExact
  BY ListingCounts
<1> QED BY <1>1, Invariance, PTL

\* The blocks of a directory implement a set of entries.
THEOREM DirInodeImplementsDirectory == Spec => ImplementsDirectory
<1>1. Init => Dir!Init
  BY InitStep DEF Dir!Init
<1>2. IInv /\ [Next]_vars => [Dir!Next]_entries
  BY NextStep
<1> QED BY <1>1, <1>2, Invariance, PTL DEF Spec, ImplementsDirectory, Dir!Spec
===============================================================================
