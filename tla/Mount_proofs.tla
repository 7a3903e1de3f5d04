------------------------------ MODULE Mount_proofs ------------------------------
(***************************************************************************)
(* Proofs about Mount: for every layout of the disk, every foreign image   *)
(* and any number of crashes, what a format promises of the image it made. *)
(***************************************************************************)
EXTENDS Mount, NatFacts, SequenceTheorems, TLAPS

-------------------------------------------------------------------------------
(* The layout of the disk *)

LEMMA Sizes ==
  /\ full_group_count \in Nat /\ full_group_count >= 2
  /\ GroupSteps \in Nat /\ GroupSteps >= 4
  /\ full_group_count * GroupSteps \in Nat
  /\ full_group_count * GroupSteps >= 1
  /\ 0 \in A!Group
<1>1. \A f, s \in Nat : f >= 2 /\ s >= 4 => f * s \in Nat /\ f * s >= 1
  OBVIOUS
<1>2. GroupSteps \in Nat /\ GroupSteps >= 4
  BY MountAssumption DEF GroupSteps
<1> QED BY <1>1, <1>2, MountAssumption DEF A!Group

\* Division undoes a numbering within groups.
LEMMA DivMod ==
  ASSUME NEW s \in Nat \ {0}, NEW g \in Nat, NEW o \in 0 .. s - 1
  PROVE  (g * s + o) \div s = g /\ (g * s + o) % s = o
OBVIOUS

LEMMA DivModRange ==
  ASSUME NEW s \in Nat \ {0}, NEW f \in Nat, NEW n \in 0 .. f * s - 1
  PROVE  n \div s \in 0 .. f - 1 /\ n % s \in 0 .. s - 1 /\ n = (n \div s) * s + (n % s)
<1>1. n \in Nat /\ n < f * s
  OBVIOUS
<1>2. n \div s \in Nat /\ n % s \in 0 .. s - 1 /\ n = (n \div s) * s + (n % s)
  BY <1>1
<1>3. n \div s < f
  BY <1>1, <1>2
<1> QED BY <1>2, <1>3

\* The bit of a block, found by its number, is the block's.
LEMMA BlockAddress ==
  ASSUME NEW b \in A!DataBlock
  PROVE  /\ b # 0
         /\ A!GroupOf(b) \in A!Group
         /\ A!Offset(b) \in A!BlockBit
<1>1. PICK g \in A!Group, o \in reserved .. blocks_per_group - 1 :
        b = A!get_group_index(g) + o
  BY DEF A!DataBlock
<1>2. blocks_per_group \in Nat \ {0} /\ g \in Nat /\ o \in 0 .. blocks_per_group - 1
  BY MountAssumption DEF A!Group
<1>3. b # 0 /\ b - 1 = g * blocks_per_group + o
  BY <1>1, <1>2 DEF A!get_group_index
<1>4. A!GroupOf(b) = g /\ A!Offset(b) = o
  BY <1>2, <1>3, DivMod DEF A!GroupOf, A!Offset
<1> QED BY <1>2, <1>3, <1>4 DEF A!BlockBit

LEMMA BallocsFindsDataBlock ==
  ASSUME \A g \in A!Group : /\ block_bitmap[g] \subseteq A!BlockBit
                            /\ 0 .. reserved - 1 \subseteq block_bitmap[g],
         A!ballocs(block_bitmap, 0) # A!EXT2M_I_BLOCK_END
  PROVE  A!ballocs(block_bitmap, 0) \in A!DataBlock
<1> DEFINE hits == {k \in 0 .. full_group_count - 2 :
                      A!ClearBits(block_bitmap, A!Visited(0, k)) # {}}
           k == A!Min(hits)
           i == A!Visited(0, k)
           o == A!Min(A!ClearBits(block_bitmap, i))
<1>1. hits # {} /\ A!ballocs(block_bitmap, 0) = A!get_group_index(i) + o
  BY DEF A!ballocs, A!EXT2M_I_BLOCK_END
<1>min. ASSUME NEW S PROVE A!Min(S) = Min(S)
  BY Zenon DEF A!Min, Min
<1>2. k \in 0 .. full_group_count - 2 /\ A!ClearBits(block_bitmap, i) # {}
  <2>1. hits \in SUBSET Nat
    OBVIOUS
  <2>2. k \in hits
    BY <1>1, <1>min, <2>1, MinIsLeast
  <2> QED BY <2>2
<1> HIDE DEF k
<1>3. i \in A!Group
  <2>1. \A f \in Nat \ {0}, x \in Nat : x % f \in 0 .. f - 1
    OBVIOUS
  <2>2. full_group_count \in Nat \ {0} /\ 0 + k \in Nat
    BY <1>2, Sizes
  <2> QED BY <2>1, <2>2 DEF A!Visited, A!Group
<1>4. o \in reserved .. blocks_per_group - 1
  <2>1. A!ClearBits(block_bitmap, i) \in SUBSET Nat
    BY DEF A!ClearBits, A!BlockBit
  <2>2. o \in A!ClearBits(block_bitmap, i)
    BY <1>2, <1>min, <2>1, MinIsLeast
  <2>3. o \in 0 .. blocks_per_group - 1 /\ o \notin 0 .. reserved - 1
    BY <1>3, <2>2 DEF A!ClearBits, A!BlockBit
  <2> QED BY <2>3, MountAssumption
<1> QED BY <1>1, <1>3, <1>4 DEF A!DataBlock

-------------------------------------------------------------------------------
(* The steps of format *)

\* The step of the first sync, and the last step, also a sync.
Half == full_group_count * GroupSteps + 2
Last == Half + 5

LEMMA Positions ==
  /\ Half \in Nat /\ Half >= 3 /\ Last \in Nat /\ Last = Half + 5
  /\ \A g \in A!Group : (g + 1) * GroupSteps + 1 \in Nat /\ (g + 1) * GroupSteps + 1 < Half
<1>1. ASSUME NEW g \in A!Group
      PROVE  (g + 1) * GroupSteps + 1 \in Nat /\ (g + 1) * GroupSteps + 1 < Half
  <2>1. \A f, h, s \in Nat : h <= f => h * s \in Nat /\ f * s \in Nat /\ h * s <= f * s
    OBVIOUS
  <2>2. g + 1 \in Nat /\ g + 1 <= full_group_count
    BY Sizes DEF A!Group
  <2>3. (g + 1) * GroupSteps \in Nat /\ (g + 1) * GroupSteps <= full_group_count * GroupSteps
    BY <2>1, <2>2, Sizes
  <2> QED BY <2>3, Sizes DEF Half
<1> QED BY <1>1, Sizes DEF Half, Last

LEMMA SeqOfFunction ==
  ASSUME NEW S, NEW n \in Nat, NEW s \in [1 .. n -> S]
  PROVE  s \in Seq(S) /\ Len(s) = n
OBVIOUS

LEMMA FormatSteps ==
  /\ Len(Format) = Last
  /\ DOMAIN Format = 1 .. Last
  /\ \A i \in 1 .. Half - 1 : Format[i] = Layout[i]
  /\ Format[Half] = Step("sync", Super)
  /\ Format[Half + 1] = Step("root_bit", InodeBitmap(0))
  /\ Format[Half + 2] = Step("ballocs", Super)
  /\ Format[Half + 3] = Step("dots", Super)
  /\ Format[Half + 4] = Step("root", Table(0))
  /\ Format[Last] = Step("sync", Super)
<1> DEFINE n == full_group_count * GroupSteps + 1
           sync == <<Step("sync", Super)>>
           S == {Layout[i] : i \in 1 .. n} \cup {sync[1]} \cup {Root[i] : i \in 1 .. 5}
<1>1. Layout \in Seq(S) /\ Len(Layout) = n
  <2>1. n \in Nat
    BY Sizes
  <2>2. DOMAIN Layout = 1 .. n /\ Layout = [i \in 1 .. n |-> Layout[i]]
    BY DEF Layout
  <2>3. Layout \in [1 .. n -> S]
    BY <2>2
  <2> HIDE DEF n, S
  <2> QED BY <2>1, <2>2, <2>3
<1>2. sync \in Seq(S) /\ Len(sync) = 1
  OBVIOUS
<1>3. Root \in Seq(S) /\ Len(Root) = 5
  <2>1. DOMAIN Root = 1 .. 5 /\ Len(Root) = 5 /\ Root \in [1 .. 5 -> S]
    BY DEF Root
  <2> HIDE DEF S
  <2> QED BY <2>1, SeqOfFunction
<1>4. n \in Nat /\ Half = n + 1 /\ Last = n + 6
  BY Sizes DEF Half, Last
<1> HIDE DEF n, S
<1>5. DEFINE front == Layout \o sync
<1>6. /\ front \in Seq(S) /\ Len(front) = n + 1
      /\ \A i \in 1 .. n : front[i] = Layout[i]
      /\ front[n + 1] = sync[1]
  BY <1>1, <1>2, <1>4, ConcatProperties
<1>7. Format = front \o Root
  BY DEF Format
<1> HIDE DEF front
<1>8. /\ Len(Format) = n + 6 /\ Format \in Seq(S)
      /\ \A i \in 1 .. n + 1 : Format[i] = front[i]
      /\ \A i \in n + 2 .. n + 6 : Format[i] = Root[i - (n + 1)]
  <2>1. /\ front \o Root \in Seq(S) /\ Len(front \o Root) = (n + 1) + 5
        /\ \A i \in 1 .. (n + 1) + 5 :
             (front \o Root)[i] = IF i <= n + 1 THEN front[i] ELSE Root[i - (n + 1)]
    <3>1. front \o Root \in Seq(S) /\ Len(front \o Root) = Len(front) + Len(Root)
      BY <1>3, <1>6, ConcatProperties
    <3>2. \A i \in 1 .. Len(front) + Len(Root) :
            (front \o Root)[i] = IF i <= Len(front) THEN front[i] ELSE Root[i - Len(front)]
      BY <1>3, <1>6, ConcatProperties
    <3> QED BY <1>3, <1>6, <3>1, <3>2
  <2> QED BY <1>4, <1>7, <2>1
<1>9. ASSUME NEW i \in 1 .. 5
      PROVE  Format[Half + i] = Root[i]
  <2>1. Half + i \in n + 2 .. n + 6 /\ (Half + i) - (n + 1) = i
    BY <1>4
  <2> QED BY <1>8, <2>1
<1>10. DOMAIN Format = 1 .. Last
  BY <1>4, <1>8
<1>11. Format[Half] = Step("sync", Super)
  BY <1>4, <1>6, <1>8
<1>12. Half + 5 = Last
  BY <1>4
<1> HIDE DEF sync
<1>13. /\ Format[Half + 1] = Step("root_bit", InodeBitmap(0))
       /\ Format[Half + 2] = Step("ballocs", Super)
       /\ Format[Half + 3] = Step("dots", Super)
       /\ Format[Half + 4] = Step("root", Table(0))
       /\ Format[Half + 5] = Step("sync", Super)
  BY <1>9 DEF Root
<1> QED BY <1>4, <1>6, <1>8, <1>10, <1>11, <1>12, <1>13

LEMMA FormatBegins == Format[1] = Step("magic", Super)
<1>1. Layout[1] = Step("magic", Super)
  BY Sizes DEF Layout
<1> QED BY <1>1, FormatSteps, Positions

\* Between the first step and the first sync, a step zeroes a block of a
\* group, or it is the last of the group and adds bits to its bitmap.
LEMMA LayoutStep ==
  ASSUME NEW i \in 2 .. Half - 1
  PROVE  \E g \in A!Group :
           \/ \E b \in A!DataBlock : Format[i] = Step("zero", Data(b))
           \/ Format[i] \in {Step("zero", InodeBitmap(g)), Step("zero", Table(g))}
           \/ /\ Format[i] = Step("reserve", Bitmap(g))
              /\ i = (g + 1) * GroupSteps + 1
<1> DEFINE g == (i - 2) \div GroupSteps
           k == (i - 2) % GroupSteps
<1>1. i - 2 \in 0 .. full_group_count * GroupSteps - 1 /\ GroupSteps \in Nat \ {0}
  BY Sizes DEF Half
<1>2. g \in 0 .. full_group_count - 1 /\ k \in 0 .. GroupSteps - 1 /\ i - 2 = g * GroupSteps + k
  BY <1>1, DivModRange, Sizes
<1>3. Format[i] = GroupStep(g, k)
  <2>1. i # 1 /\ i \in 1 .. full_group_count * GroupSteps + 1 /\ i \in 1 .. Half - 1
    BY Sizes, Positions DEF Half
  <2>2. Layout[i] = GroupStep(g, k)
    BY <2>1 DEF Layout
  <2> QED BY <2>1, <2>2, FormatSteps
<1> HIDE DEF g, k
<1>4. g \in A!Group
  BY <1>2 DEF A!Group
<1>5. CASE k = 0 \/ k = 1
  BY <1>3, <1>4, <1>5 DEF GroupStep
<1>6. CASE k > 1 /\ k < GroupSteps - 1
  <2> DEFINE o == reserved + (k - 2)
  <2>1. o \in reserved .. blocks_per_group - 1
    BY <1>2, <1>6, MountAssumption DEF GroupSteps
  <2>2. A!get_group_index(g) + reserved + (k - 2) = A!get_group_index(g) + o
    <3>1. A!get_group_index(g) \in Nat
      BY <1>4, MountAssumption DEF A!get_group_index, A!Group
    <3> QED BY <3>1, <1>2, MountAssumption
  <2>3. A!get_group_index(g) + reserved + (k - 2) \in A!DataBlock
    BY <1>4, <2>1, <2>2 DEF A!DataBlock
  <2> QED BY <1>2, <1>3, <1>4, <1>6, <2>3, Sizes DEF GroupStep
<1>7. CASE k = GroupSteps - 1
  <2>1. GroupStep(g, k) = Step("reserve", Bitmap(g))
    BY <1>2, <1>7, Sizes DEF GroupStep
  <2>2. i = (g + 1) * GroupSteps + 1
    <3>1. \A x, s \in Nat : (x + 1) * s = x * s + s
      OBVIOUS
    <3>2. g \in Nat /\ GroupSteps \in Nat
      BY <1>2, Sizes
    <3>3. g * GroupSteps \in Nat
      BY <3>2
    <3> QED BY <1>2, <1>7, <3>1, <3>2, <3>3
  <2> QED BY <1>3, <1>4, <2>1, <2>2
<1> QED BY <1>2, <1>5, <1>6, <1>7, Sizes

\* The step at the end of group g is the one that marks its metadata.
LEMMA ReserveStep ==
  ASSUME NEW g \in A!Group
  PROVE  Format[(g + 1) * GroupSteps + 1] = Step("reserve", Bitmap(g))
<1> DEFINE i == (g + 1) * GroupSteps + 1
           k == GroupSteps - 1
<1>1. g \in Nat /\ GroupSteps \in Nat \ {0} /\ k \in 0 .. GroupSteps - 1
  BY Sizes DEF A!Group
<1>2. i - 2 = g * GroupSteps + k /\ i # 1
  <2>1. \A x, s \in Nat : s >= 4 => (x + 1) * s = x * s + s /\ x * s \in Nat
    OBVIOUS
  <2> QED BY <1>1, <2>1, Sizes
<1>3. (i - 2) \div GroupSteps = g /\ (i - 2) % GroupSteps = k
  BY <1>1, <1>2, DivMod
<1>4. i \in 1 .. full_group_count * GroupSteps + 1 /\ i \in 1 .. Half - 1
  <2>1. i \in Nat /\ i >= 1
    BY <1>1
  <2> QED BY <2>1, Positions, Sizes DEF Half
<1>5. Format[i] = GroupStep(g, k)
  BY <1>2, <1>3, <1>4, FormatSteps DEF Layout
<1>6. GroupStep(g, k) = Step("reserve", Bitmap(g))
  BY Sizes DEF GroupStep
<1> QED BY <1>5, <1>6

-------------------------------------------------------------------------------
(* The inductive invariant *)

\* What format has done when it reaches a step, in its own view.
Done ==
  pc \in 1 .. Last =>
    /\ pc > 1 => content[Super]
    /\ \A g \in A!Group :
         pc > (g + 1) * GroupSteps + 1 => 0 .. reserved - 1 \subseteq content[Bitmap(g)]
    /\ pc > Half + 1 => 2 \in content[InodeBitmap(0)]
    /\ pc > Half + 2 => /\ root \in A!DataBlock
                        /\ A!Offset(root) \in content[Bitmap(A!GroupOf(root))]
    /\ pc > Half + 3 => content[Data(root)] = Dots
    /\ pc > Half + 4 => content[Table(0)] = root

\* What the first sync leaves in the image; the block bitmaps are those until
\* a block is allocated.
Halfway ==
  pc \in Half + 1 .. Last =>
    /\ stable[Super]
    /\ Protected(stable)
    /\ pc <= Half + 2 => \A g \in A!Group : stable[Bitmap(g)] = content[Bitmap(g)]

LaidOut == laid_out => Protected(content) /\ Protected(stable)

Completed ==
  completed => /\ pc \in {0, Last + 1}
               /\ stable = content
               /\ content[Super] /\ HasRoot(content) /\ Protected(content)

\* Without a crash, the image is not mounted before a format was completed,
\* except after one that aborted.
Uncrashed ==
  crashes = 0 /\ ~completed /\ pc \in {0, Last + 1} =>
    \/ pc = 0 /\ ~content[Super]
    \/ A!ballocs(block_bitmap, 0) = A!EXT2M_I_BLOCK_END

IInv == TypeOK /\ Done /\ Halfway /\ LaidOut /\ Completed /\ Uncrashed
-------------------------------------------------------------------------------
(* Blocks *)

LEMMA BlocksExist ==
  /\ Super \in Block
  /\ \A g \in A!Group : Bitmap(g) \in Block /\ InodeBitmap(g) \in Block /\ Table(g) \in Block
  /\ \A b \in A!DataBlock : Data(b) \in Block
BY DEF Block

\* The name of a block tells its kind and its place.
LEMMA BlockNames ==
  /\ Super[1] = "super"
  /\ \A g : Bitmap(g)[1] = "block_bitmap" /\ Bitmap(g)[2] = g
  /\ \A g : InodeBitmap(g)[1] = "inode_bitmap" /\ InodeBitmap(g)[2] = g
  /\ \A g : Table(g)[1] = "inode_table" /\ Table(g)[2] = g
  /\ \A b : Data(b)[1] = "data" /\ Data(b)[2] = b
BY DEF Super, Bitmap, InodeBitmap, Table, Data

LEMMA ValuesOf ==
  /\ Values(Super) = BOOLEAN
  /\ \A g : Values(Bitmap(g)) = SUBSET A!BlockBit
  /\ \A g : Values(InodeBitmap(g)) = SUBSET {2}
  /\ \A g : Values(Table(g)) = {Zero, Junk} \cup A!DataBlock
  /\ \A b : Values(Data(b)) = {Zero, Junk, Dots}
BY BlockNames DEF Values

\* A write changes one block.
LEMMA OneBlock ==
  ASSUME Device(content), NEW b \in Block, NEW v \in Values(b),
         content' = [content EXCEPT ![b] = v]
  PROVE  /\ Device(content')
         /\ content'[b] = v
         /\ \A c \in Block : c # b => content'[c] = content[c]
BY DEF Device

-------------------------------------------------------------------------------
(* The steps of format, by their place *)

LEMMA StepFields == \A op, block : Step(op, block).op = op /\ Step(op, block).block = block
BY DEF Step

LEMMA Places ==
  /\ At("sync") => pc \in {Half, Last}
  /\ At("ballocs") => pc = Half + 2
  /\ At("magic") => pc = 1
  /\ At("zero") => pc \in 2 .. Half - 1
  /\ At("reserve") => pc \in 2 .. Half - 1
  /\ At("root_bit") => pc = Half + 1
  /\ At("dots") => pc = Half + 3
  /\ At("root") => pc = Half + 4
<1> SUFFICES ASSUME pc \in 1 .. Last
             PROVE  /\ Format[pc].op = "sync" => pc \in {Half, Last}
                    /\ Format[pc].op = "ballocs" => pc = Half + 2
                    /\ Format[pc].op = "magic" => pc = 1
                    /\ Format[pc].op = "zero" => pc \in 2 .. Half - 1
                    /\ Format[pc].op = "reserve" => pc \in 2 .. Half - 1
                    /\ Format[pc].op = "root_bit" => pc = Half + 1
                    /\ Format[pc].op = "dots" => pc = Half + 3
                    /\ Format[pc].op = "root" => pc = Half + 4
  BY FormatSteps DEF At
<1>1. CASE pc = 1
  BY <1>1, FormatBegins DEF Step
<1>2. CASE pc \in 2 .. Half - 1
  <2>1. Format[pc].op \in {"zero", "reserve"}
    BY <1>2, LayoutStep, StepFields
  <2> QED BY <1>2, <2>1
<1>3. CASE pc = Half
  BY <1>3, FormatSteps DEF Step
<1>4. CASE pc = Half + 1
  BY <1>4, FormatSteps DEF Step
<1>5. CASE pc = Half + 2
  BY <1>5, FormatSteps DEF Step
<1>6. CASE pc = Half + 3
  BY <1>6, FormatSteps DEF Step
<1>7. CASE pc = Half + 4
  BY <1>7, FormatSteps DEF Step
<1>8. CASE pc = Last
  BY <1>8, FormatSteps DEF Step
<1>9. \/ pc = 1 \/ pc \in 2 .. Half - 1 \/ pc = Half \/ pc = Half + 1 \/ pc = Half + 2
      \/ pc = Half + 3 \/ pc = Half + 4 \/ pc = Last
  BY Positions
<1> QED BY <1>1, <1>2, <1>3, <1>4, <1>5, <1>6, <1>7, <1>8, <1>9

\* What a write of format can be.
LEMMA Writes ==
  ASSUME WriteNext
  PROVE
    \/ pc = 1 /\ content' = [content EXCEPT ![Super] = TRUE]
    \/ /\ pc \in 2 .. Half - 1
       /\ \E g \in A!Group :
            \/ \E b \in A!DataBlock : content' = [content EXCEPT ![Data(b)] = Zero]
            \/ content' = [content EXCEPT ![InodeBitmap(g)] = {}]
            \/ content' = [content EXCEPT ![Table(g)] = Zero]
            \/ /\ pc = (g + 1) * GroupSteps + 1
               /\ content' = [content EXCEPT ![Bitmap(g)] = content[Bitmap(g)] \cup 0 .. reserved - 1]
    \/ /\ pc = Half + 1
       /\ content' = [content EXCEPT ![InodeBitmap(0)] = content[InodeBitmap(0)] \cup {2}]
    \/ pc = Half + 3 /\ content' = [content EXCEPT ![Data(root)] = Dots]
    \/ pc = Half + 4 /\ content' = [content EXCEPT ![Table(0)] = root]
<1> DEFINE b == Format[pc].block
<1>1. CASE Write("magic", b, TRUE)
  <2>1. pc = 1
    BY <1>1, Places DEF Write
  <2>2. b = Super
    BY <2>1, FormatBegins DEF Step
  <2> QED BY <1>1, <2>1, <2>2 DEF Write
<1>2. CASE Write("zero", b, IF b[1] = "inode_bitmap" THEN {} ELSE Zero)
  <2>1. pc \in 2 .. Half - 1 /\ Format[pc].op = "zero"
    BY <1>2, Places DEF Write, At
  <2>2. PICK g \in A!Group :
          \/ \E c \in A!DataBlock : Format[pc] = Step("zero", Data(c))
          \/ Format[pc] \in {Step("zero", InodeBitmap(g)), Step("zero", Table(g))}
          \/ Format[pc] = Step("reserve", Bitmap(g))
    BY <2>1, LayoutStep
  <2>3. b \in {Data(c) : c \in A!DataBlock} \cup {InodeBitmap(g), Table(g)}
    BY <2>1, <2>2, StepFields
  <2>4. content' = [content EXCEPT ![b] = IF b[1] = "inode_bitmap" THEN {} ELSE Zero]
    BY <1>2 DEF Write
  <2> HIDE DEF b
  <2>5. CASE b = InodeBitmap(g)
    BY <2>1, <2>4, <2>5, BlockNames
  <2>6. CASE b = Table(g)
    BY <2>1, <2>4, <2>6, BlockNames
  <2>7. CASE \E c \in A!DataBlock : b = Data(c)
    BY <2>1, <2>4, <2>7, BlockNames, Sizes
  <2> QED BY <2>3, <2>5, <2>6, <2>7
<1>3. CASE Write("reserve", b, content[b] \cup 0 .. reserved - 1)
  <2>1. pc \in 2 .. Half - 1 /\ Format[pc].op = "reserve"
    BY <1>3, Places DEF Write, At
  <2>2. PICK g \in A!Group : b = Bitmap(g) /\ pc = (g + 1) * GroupSteps + 1
    BY <2>1, LayoutStep, StepFields
  <2>3. content' = [content EXCEPT ![b] = content[b] \cup 0 .. reserved - 1]
    BY <1>3 DEF Write
  <2> HIDE DEF b
  <2> QED BY <2>1, <2>2, <2>3
<1>4. CASE Write("root_bit", b, content[b] \cup {2})
  <2>1. pc = Half + 1
    BY <1>4, Places DEF Write
  <2>2. b = InodeBitmap(0)
    BY <2>1, FormatSteps DEF Step
  <2> QED BY <1>4, <2>1, <2>2 DEF Write
<1>5. CASE Write("dots", Data(root), Dots)
  BY <1>5, Places DEF Write
<1>6. CASE Write("root", b, root)
  <2>1. pc = Half + 4
    BY <1>6, Places DEF Write
  <2>2. b = Table(0)
    BY <2>1, FormatSteps DEF Step
  <2> QED BY <1>6, <2>1, <2>2 DEF Write
<1> QED BY <1>1, <1>2, <1>3, <1>4, <1>5, <1>6 DEF WriteNext

LEMMA WritePlace ==
  ASSUME WriteNext, completed \in BOOLEAN
  PROVE  /\ pc \in 1 .. Last /\ pc \notin {Half, Half + 2, Last}
         /\ pc' = pc + 1
         /\ laid_out' = (laid_out \/ pc = Half + 1)
         /\ completed' = completed
         /\ UNCHANGED <<stable, root, crashes>>
<1>1. pc \in 1 .. Last
  BY FormatSteps DEF WriteNext
<1>2. PICK op \in {"magic", "zero", "reserve", "root_bit", "dots", "root"} :
        /\ At(op)
        /\ pc' = pc + 1
        /\ laid_out' = (laid_out \/ op = "root_bit")
        /\ completed' = (completed \/ pc = Len(Format))
        /\ UNCHANGED <<stable, root, crashes>>
  BY DEF WriteNext, Write
<1>3. pc \notin {Half, Half + 2, Last} /\ (pc = Half + 1 <=> op = "root_bit")
  <2>1. op = "root_bit" => pc = Half + 1
    BY <1>2, Places
  <2>2. pc = Half + 1 => Format[pc].op = "root_bit"
    BY FormatSteps DEF Step
  <2>3. op # "sync" /\ op # "ballocs" /\ Format[pc].op = op
    BY <1>2 DEF At
  <2>4. pc \in {Half, Last} => Format[pc].op = "sync"
    BY FormatSteps DEF Step
  <2>5. pc = Half + 2 => Format[pc].op = "ballocs"
    BY FormatSteps DEF Step
  <2> QED BY <2>1, <2>2, <2>3, <2>4, <2>5
<1> QED BY <1>1, <1>2, <1>3, FormatSteps

LEMMA EndsOfGroups ==
  \A g \in A!Group : /\ (g + 1) * GroupSteps + 1 \in Nat
                    /\ (g + 1) * GroupSteps + 1 < Half
                    /\ (g + 1) * GroupSteps + 1 > 1
<1>1. \A h, s \in Nat : h >= 1 /\ s >= 1 => h * s + 1 > 1
  OBVIOUS
<1>2. \A g \in A!Group : g + 1 \in Nat /\ g + 1 >= 1
  BY Sizes DEF A!Group
<1> QED BY <1>1, <1>2, Sizes, Positions

\* At the end of its group, the bits of the blocks in front of its data are set.
LEMMA ReserveWrites ==
  ASSUME WriteNext, NEW g \in A!Group, pc = (g + 1) * GroupSteps + 1
  PROVE  content' = [content EXCEPT ![Bitmap(g)] = content[Bitmap(g)] \cup 0 .. reserved - 1]
<1>1. Format[pc].op = "reserve" /\ Format[pc].block = Bitmap(g)
  BY ReserveStep, StepFields
<1>2. \A op : At(op) => op = "reserve"
  BY <1>1 DEF At
<1> QED BY <1>1, <1>2 DEF WriteNext, Write

\* What a write of the first half does, and what it does not.
LEMMA FirstHalfWrites ==
  ASSUME Device(content), WriteNext, pc < Half, pc \in Nat
  PROVE  /\ Device(content')
         /\ (pc = 1 \/ content[Super] => content'[Super])
         /\ \A g \in A!Group :
              /\ content[Bitmap(g)] \subseteq content'[Bitmap(g)]
              /\ pc = (g + 1) * GroupSteps + 1 => 0 .. reserved - 1 \subseteq content'[Bitmap(g)]
<1> DEFINE Goal == /\ Device(content')
                   /\ (pc = 1 \/ content[Super] => content'[Super])
                   /\ \A g \in A!Group : content[Bitmap(g)] \subseteq content'[Bitmap(g)]
<1>1. ASSUME pc = 1, content' = [content EXCEPT ![Super] = TRUE]
      PROVE  Goal
  <2>1. Device(content') /\ content'[Super] = TRUE
        /\ \A c \in Block : c # Super => content'[c] = content[c]
    BY <1>1, OneBlock, BlocksExist, ValuesOf
  <2>2. \A g \in A!Group : content'[Bitmap(g)] = content[Bitmap(g)]
    BY <2>1, BlocksExist, BlockNames
  <2> QED BY <2>1, <2>2
<1>2. ASSUME NEW b \in Block, NEW v \in Values(b), content' = [content EXCEPT ![b] = v],
             pc # 1, b # Super, \A g \in A!Group : b # Bitmap(g)
      PROVE  Goal
  <2>1. Device(content') /\ \A c \in Block : c # b => content'[c] = content[c]
    BY <1>2, OneBlock
  <2> QED BY <1>2, <2>1, BlocksExist
<1>3. ASSUME pc \in 2 .. Half - 1, NEW h \in A!Group,
             \/ \E b \in A!DataBlock : content' = [content EXCEPT ![Data(b)] = Zero]
             \/ content' = [content EXCEPT ![InodeBitmap(h)] = {}]
             \/ content' = [content EXCEPT ![Table(h)] = Zero]
      PROVE  Goal
  <2>1. pc # 1
    BY <1>3
  <2>2. ASSUME NEW b \in A!DataBlock, content' = [content EXCEPT ![Data(b)] = Zero]
        PROVE  Goal
    <3>1. /\ Data(b) \in Block /\ Zero \in Values(Data(b)) /\ Data(b) # Super
          /\ \A g \in A!Group : Data(b) # Bitmap(g)
      BY BlocksExist, BlockNames, ValuesOf
    <3> HIDE DEF Goal
    <3> QED BY <1>2, <2>1, <2>2, <3>1
  <2>3. ASSUME content' = [content EXCEPT ![InodeBitmap(h)] = {}]
        PROVE  Goal
    <3>1. /\ InodeBitmap(h) \in Block /\ {} \in Values(InodeBitmap(h)) /\ InodeBitmap(h) # Super
          /\ \A g \in A!Group : InodeBitmap(h) # Bitmap(g)
      BY BlocksExist, BlockNames, ValuesOf
    <3> HIDE DEF Goal
    <3> QED BY <1>2, <2>1, <2>3, <3>1
  <2>4. ASSUME content' = [content EXCEPT ![Table(h)] = Zero]
        PROVE  Goal
    <3>1. /\ Table(h) \in Block /\ Zero \in Values(Table(h)) /\ Table(h) # Super
          /\ \A g \in A!Group : Table(h) # Bitmap(g)
      BY BlocksExist, BlockNames, ValuesOf
    <3> HIDE DEF Goal
    <3> QED BY <1>2, <2>1, <2>4, <3>1
  <2> HIDE DEF Goal
  <2> QED BY <1>3, <2>2, <2>3, <2>4
<1>4. ASSUME NEW h \in A!Group,
             content' = [content EXCEPT ![Bitmap(h)] = content[Bitmap(h)] \cup 0 .. reserved - 1]
      PROVE  /\ Device(content') /\ content'[Super] = content[Super]
             /\ content'[Bitmap(h)] = content[Bitmap(h)] \cup 0 .. reserved - 1
             /\ \A g \in A!Group : g # h => content'[Bitmap(g)] = content[Bitmap(g)]
  <2>1. 0 .. reserved - 1 \subseteq A!BlockBit
    BY MountAssumption DEF A!BlockBit
  <2>2. content[Bitmap(h)] \cup 0 .. reserved - 1 \in Values(Bitmap(h))
    BY <2>1, BlocksExist, ValuesOf DEF Device
  <2>3. /\ Device(content')
        /\ content'[Bitmap(h)] = content[Bitmap(h)] \cup 0 .. reserved - 1
        /\ \A c \in Block : c # Bitmap(h) => content'[c] = content[c]
    BY <1>4, <2>2, OneBlock, BlocksExist
  <2> QED BY <2>3, BlocksExist, BlockNames
<1>5. Goal
  <2>1. ASSUME NEW h \in A!Group, pc \in 2 .. Half - 1,
               content' = [content EXCEPT ![Bitmap(h)] = content[Bitmap(h)] \cup 0 .. reserved - 1]
        PROVE  Goal
    <3>1. /\ Device(content') /\ content'[Super] = content[Super]
          /\ content'[Bitmap(h)] = content[Bitmap(h)] \cup 0 .. reserved - 1
          /\ \A g \in A!Group : g # h => content'[Bitmap(g)] = content[Bitmap(g)]
      BY <1>4, <2>1
    <3> QED BY <2>1, <3>1
  <2> HIDE DEF Goal
  <2> QED BY <1>1, <1>3, <2>1, Writes, Positions
<1>6. ASSUME NEW g \in A!Group, pc = (g + 1) * GroupSteps + 1
      PROVE  0 .. reserved - 1 \subseteq content'[Bitmap(g)]
  <2>1. content' = [content EXCEPT ![Bitmap(g)] = content[Bitmap(g)] \cup 0 .. reserved - 1]
    BY <1>6, ReserveWrites
  <2> QED BY <1>4, <2>1
<1> QED BY <1>5, <1>6

\* What a write of the second half does, and what it does not.
LEMMA SecondHalfWrites ==
  ASSUME Device(content), WriteNext, pc > Half, pc \in Nat,
         pc > Half + 2 => root \in A!DataBlock
  PROVE  /\ Device(content')
         /\ content'[Super] = content[Super]
         /\ \A g \in A!Group : content'[Bitmap(g)] = content[Bitmap(g)]
         /\ pc = Half + 1 \/ 2 \in content[InodeBitmap(0)] => 2 \in content'[InodeBitmap(0)]
         /\ pc = Half + 3 => content'[Data(root)] = Dots
         /\ pc = Half + 4 => /\ content'[Data(root)] = content[Data(root)]
                            /\ content'[Table(0)] = root
<1> USE Positions, Sizes
<1>1. CASE /\ pc = Half + 1
           /\ content' = [content EXCEPT ![InodeBitmap(0)] = content[InodeBitmap(0)] \cup {2}]
  <2>1. content[InodeBitmap(0)] \cup {2} \in Values(InodeBitmap(0))
    BY BlocksExist, ValuesOf DEF Device
  <2>2. /\ Device(content')
        /\ content'[InodeBitmap(0)] = content[InodeBitmap(0)] \cup {2}
        /\ \A c \in Block : c # InodeBitmap(0) => content'[c] = content[c]
    BY <1>1, <2>1, OneBlock, BlocksExist
  <2> QED BY <1>1, <2>2, BlocksExist, BlockNames
<1>2. CASE pc = Half + 3 /\ content' = [content EXCEPT ![Data(root)] = Dots]
  <2>1. Data(root) \in Block /\ Dots \in Values(Data(root))
    BY <1>2, BlocksExist, ValuesOf
  <2>2. /\ Device(content')
        /\ content'[Data(root)] = Dots
        /\ \A c \in Block : c # Data(root) => content'[c] = content[c]
    BY <1>2, <2>1, OneBlock
  <2> QED BY <1>2, <2>2, BlocksExist, BlockNames
<1>3. CASE pc = Half + 4 /\ content' = [content EXCEPT ![Table(0)] = root]
  <2>1. Table(0) \in Block /\ root \in Values(Table(0)) /\ Data(root) \in Block
    BY <1>3, BlocksExist, ValuesOf
  <2>2. /\ Device(content')
        /\ content'[Table(0)] = root
        /\ \A c \in Block : c # Table(0) => content'[c] = content[c]
    BY <1>3, <2>1, OneBlock
  <2> QED BY <1>3, <2>1, <2>2, BlocksExist, BlockNames
<1>4. pc \notin 1 .. Half
  OBVIOUS
<1> QED BY <1>1, <1>2, <1>3, <1>4, Writes

-------------------------------------------------------------------------------
(* The invariant is inductive *)

\* An image as it is found satisfies the invariant.
THEOREM InitIInv == Init => IInv
<1> SUFFICES ASSUME Init PROVE IInv
  OBVIOUS
<1>1. PICK bits \in ForeignBits, old \in {Zero, Junk} :
        content = [b \in Block |-> CASE b = Super -> FALSE
                                     [] b = Bitmap(0) -> bits
                                     [] b # Bitmap(0) /\ b[1] \in {"block_bitmap", "inode_bitmap"} -> {}
                                     [] OTHER -> old]
  BY DEF Init
<1>2. content[Super] = FALSE
  BY <1>1, BlocksExist, BlockNames
<1>3. Device(content)
  <2>1. bits \subseteq A!BlockBit
    BY MountAssumption DEF A!BlockBit
  <2> SUFFICES ASSUME NEW b \in Block PROVE content[b] \in Values(b)
    BY <1>1 DEF Device
  <2>2. CASE b = Super
    BY <1>2, <2>2, ValuesOf
  <2>3. CASE b = Bitmap(0)
    <3>1. b # Super
      BY <2>3, BlockNames
    <3>2. content[b] = bits
      BY <1>1, <2>3, <3>1
    <3> QED BY <2>1, <2>3, <3>2, ValuesOf
  <2>4. CASE b # Super /\ b # Bitmap(0)
    <3>1. \/ b[1] \in {"block_bitmap", "inode_bitmap"}
          \/ b[1] \in {"inode_table", "data"}
      BY <2>4, BlockNames DEF Block
    <3>2. CASE b[1] \in {"block_bitmap", "inode_bitmap"}
      BY <1>1, <2>4, <3>2 DEF Values
    <3>3. CASE b[1] \in {"inode_table", "data"}
      BY <1>1, <2>4, <3>3, BlockNames DEF Values
    <3> QED BY <3>1, <3>2, <3>3
  <2> QED BY <2>2, <2>3, <2>4
<1>4. TypeOK
  <2>1. /\ stable = content /\ pc = 0 /\ root = 0 /\ crashes = 0
        /\ laid_out = FALSE /\ completed = FALSE
    BY DEF Init
  <2>2. pc \in 0 .. Len(Format) + 1 /\ crashes \in 0 .. MaxCrashes
    BY <2>1, MountAssumption, FormatSteps, Positions
  <2>3. root \in {0} \cup A!DataBlock /\ laid_out \in BOOLEAN /\ completed \in BOOLEAN
    BY <2>1
  <2>4. Device(stable)
    BY <1>3, <2>1
  <2> QED BY <1>3, <2>2, <2>3, <2>4 DEF TypeOK
<1>5. Done /\ Halfway /\ LaidOut /\ Completed /\ Uncrashed
  BY <1>2, Positions DEF Init, Done, Halfway, LaidOut, Completed, Uncrashed
<1> QED BY <1>4, <1>5 DEF IInv

\* From the first sync on, the bitmaps are marked.
LEMMA MarkedFromHalf ==
  ASSUME Done, pc \in Half .. Last
  PROVE  Protected(content) /\ content[Super]
BY EndsOfGroups, Positions DEF Done, Protected

\* A format that is at work is not completed.
LEMMA NotYetCompleted == Completed /\ pc \in 1 .. Last => ~completed
BY Positions DEF Completed

LEMMA CheckKeeps == IInv /\ Check => IInv'
<1> SUFFICES ASSUME IInv, Check PROVE IInv'
  OBVIOUS
<1>1. /\ pc = 0 /\ UNCHANGED <<content, stable, root, crashes, laid_out, completed>>
      /\ \/ content[Super] /\ pc' = Last + 1
         \/ ~content[Super] /\ pc' = 1
  BY FormatSteps DEF Check, check_is_ext2_format
<1>2. TypeOK'
  BY <1>1, FormatSteps, Positions DEF IInv, TypeOK
<1>3. Done' /\ Halfway'
  BY <1>1, EndsOfGroups, Positions DEF Done, Halfway
<1>4. LaidOut' /\ Completed'
  BY <1>1, Positions DEF IInv, LaidOut, Completed, Protected, HasRoot
<1>5. Uncrashed'
  BY <1>1, Positions DEF IInv, Uncrashed, block_bitmap
<1> QED BY <1>2, <1>3, <1>4, <1>5 DEF IInv

LEMMA WriteKeeps == IInv /\ WriteNext => IInv'
<1> SUFFICES ASSUME IInv, WriteNext PROVE IInv'
  OBVIOUS
<1>1. /\ pc \in 1 .. Last /\ pc \notin {Half, Half + 2, Last}
      /\ pc' = pc + 1
      /\ laid_out' = (laid_out \/ pc = Half + 1)
      /\ completed' = completed
      /\ UNCHANGED <<stable, root, crashes>>
  BY WritePlace DEF IInv, TypeOK
<1>2. ~completed /\ Device(content) /\ Device(stable)
  BY <1>1, NotYetCompleted DEF IInv, TypeOK
<1>3. Completed' /\ Uncrashed'
  BY <1>1, <1>2, Positions DEF Completed, Uncrashed
<1>4. CASE pc < Half
  <2>1. /\ Device(content')
        /\ (pc = 1 \/ content[Super] => content'[Super])
        /\ \A g \in A!Group :
             /\ content[Bitmap(g)] \subseteq content'[Bitmap(g)]
             /\ pc = (g + 1) * GroupSteps + 1 => 0 .. reserved - 1 \subseteq content'[Bitmap(g)]
    BY <1>1, <1>2, <1>4, FirstHalfWrites, Positions
  <2>2. TypeOK'
    BY <1>1, <1>2, <2>1, FormatSteps, Positions DEF IInv, TypeOK
  <2>3. Done'
    <3>1. content'[Super]
      BY <1>1, <2>1, Positions DEF IInv, Done
    <3>2. ASSUME NEW g \in A!Group, pc + 1 > (g + 1) * GroupSteps + 1
          PROVE  0 .. reserved - 1 \subseteq content'[Bitmap(g)]
      <4>1. CASE pc = (g + 1) * GroupSteps + 1
        BY <2>1, <4>1
      <4>2. CASE pc > (g + 1) * GroupSteps + 1
        BY <1>1, <2>1, <4>2 DEF IInv, Done
      <4> QED BY <1>1, <3>2, <4>1, <4>2, EndsOfGroups, Positions
    <3> QED BY <1>1, <1>4, <3>1, <3>2, Positions DEF Done
  <2>4. Halfway'
    BY <1>1, <1>4, Positions DEF Halfway
  <2>5. LaidOut'
    <3>1. laid_out' => laid_out
      <4>1. pc # Half + 1
        BY <1>1, <1>4, Positions
      <4> QED BY <1>1, <4>1, Zenon
    <3>2. Protected(content) => Protected(content')
      BY <2>1 DEF Protected
    <3>3. Protected(stable) => Protected(stable')
      BY <1>1 DEF Protected
    <3> QED BY <3>1, <3>2, <3>3 DEF IInv, LaidOut
  <2> QED BY <1>3, <2>2, <2>3, <2>4, <2>5 DEF IInv
<1>5. CASE pc > Half
  <2>1. /\ Device(content')
        /\ content'[Super] = content[Super]
        /\ \A g \in A!Group : content'[Bitmap(g)] = content[Bitmap(g)]
        /\ pc = Half + 1 \/ 2 \in content[InodeBitmap(0)] => 2 \in content'[InodeBitmap(0)]
        /\ pc = Half + 3 => content'[Data(root)] = Dots
        /\ pc = Half + 4 => /\ content'[Data(root)] = content[Data(root)]
                           /\ content'[Table(0)] = root
    <3>1. pc > Half + 2 => root \in A!DataBlock
      BY <1>1 DEF IInv, Done
    <3> QED BY <1>1, <1>2, <1>5, <3>1, SecondHalfWrites, Positions
  <2>2. TypeOK'
    BY <1>1, <1>2, <2>1, FormatSteps, Positions DEF IInv, TypeOK
  <2>3. Protected(content) /\ content[Super] /\ Protected(content')
    BY <1>1, <1>5, <2>1, MarkedFromHalf, Positions DEF IInv, Protected
  <2>4. Done'
    <3>1. /\ content'[Super]
          /\ \A g \in A!Group : 0 .. reserved - 1 \subseteq content'[Bitmap(g)]
      BY <2>1, <2>3 DEF Protected
    <3>2. 2 \in content'[InodeBitmap(0)]
      BY <1>1, <1>5, <2>1, Positions DEF IInv, Done
    <3>3. pc + 1 > Half + 2 =>
            /\ root \in A!DataBlock
            /\ A!Offset(root) \in content'[Bitmap(A!GroupOf(root))]
      BY <1>1, <1>5, <2>1, BlockAddress, Positions DEF IInv, Done
    <3>4. /\ pc + 1 > Half + 3 => content'[Data(root)] = Dots
          /\ pc + 1 > Half + 4 => content'[Table(0)] = root
      BY <1>1, <1>5, <2>1, Positions DEF IInv, Done
    <3> QED BY <1>1, <3>1, <3>2, <3>3, <3>4 DEF Done
  <2>5. Halfway'
    BY <1>1, <1>5, <2>1, Positions DEF IInv, Halfway
  <2>6. LaidOut'
    <3>1. Protected(stable)
      BY <1>1, <1>5, Positions DEF IInv, Halfway
    <3> QED BY <1>1, <2>3, <3>1 DEF LaidOut
  <2> QED BY <1>3, <2>2, <2>4, <2>5, <2>6 DEF IInv
<1> QED BY <1>1, <1>4, <1>5, Positions

LEMMA BallocsKeeps == IInv /\ Ballocs => IInv'
<1> SUFFICES ASSUME IInv, Ballocs PROVE IInv'
  OBVIOUS
<1> DEFINE b == A!ballocs(block_bitmap, 0)
<1>1. /\ pc = Half + 2 /\ pc' = Half + 3 /\ b # A!EXT2M_I_BLOCK_END /\ root' = b
      /\ content' = [content EXCEPT ![Bitmap(A!GroupOf(b))] =
                       content[Bitmap(A!GroupOf(b))] \cup {A!Offset(b)}]
      /\ UNCHANGED <<stable, crashes, laid_out, completed>>
  BY Places, Positions DEF Ballocs, BitOf
<1>2. ~completed /\ Device(content) /\ Device(stable) /\ Protected(content) /\ content[Super]
  BY <1>1, NotYetCompleted, MarkedFromHalf, Positions DEF IInv, TypeOK
<1>3. b \in A!DataBlock
  <2>1. \A g \in A!Group : block_bitmap[g] = content[Bitmap(g)]
    BY DEF block_bitmap, Bitmap, A!Group
  <2>2. \A g \in A!Group : content[Bitmap(g)] \subseteq A!BlockBit
    BY <1>2, BlocksExist, ValuesOf DEF Device
  <2> QED BY <1>1, <1>2, <2>1, <2>2, BallocsFindsDataBlock DEF Protected
<1> HIDE DEF b
<1>4. A!GroupOf(b) \in A!Group /\ A!Offset(b) \in A!BlockBit
  BY <1>3, BlockAddress
<1> DEFINE c == Bitmap(A!GroupOf(b))
<1>5. /\ Device(content') /\ content'[c] = content[c] \cup {A!Offset(b)}
      /\ \A d \in Block : d # c => content'[d] = content[d]
  <2>1. c \in Block /\ content[c] \cup {A!Offset(b)} \in Values(c)
    BY <1>2, <1>4, BlocksExist, ValuesOf DEF Device
  <2> HIDE DEF c
  <2>2. content' = [content EXCEPT ![c] = content[c] \cup {A!Offset(b)}]
    BY <1>1 DEF c
  <2> QED BY <1>2, <2>1, <2>2, OneBlock
<1>6. /\ content'[Super] = content[Super]
      /\ content'[InodeBitmap(0)] = content[InodeBitmap(0)]
      /\ \A g \in A!Group : content[Bitmap(g)] \subseteq content'[Bitmap(g)]
  <2>1. Super # c /\ InodeBitmap(0) # c
    BY BlockNames
  <2> HIDE DEF c
  <2> QED BY <1>5, <2>1, BlocksExist, Sizes
<1>7. TypeOK'
  BY <1>1, <1>2, <1>3, <1>5, FormatSteps, Positions DEF IInv, TypeOK
<1>8. Protected(content')
  BY <1>2, <1>6 DEF Protected
<1>9. Done'
  <2>1. 2 \in content'[InodeBitmap(0)]
    BY <1>1, <1>6, Positions DEF IInv, Done
  <2>2. A!Offset(b) \in content'[Bitmap(A!GroupOf(b))]
    BY <1>5
  <2>3. /\ content'[Super]
        /\ \A g \in A!Group : 0 .. reserved - 1 \subseteq content'[Bitmap(g)]
    BY <1>2, <1>6, <1>8 DEF Protected
  <2>4. root' \in A!DataBlock /\ A!Offset(root') \in content'[Bitmap(A!GroupOf(root'))]
    BY <1>1, <1>3, <2>2
  <2>5. ~(pc' > Half + 3) /\ ~(pc' > Half + 4)
    BY <1>1, Positions
  <2> QED BY <2>1, <2>3, <2>4, <2>5 DEF Done
<1>10. Halfway'
  BY <1>1, Positions DEF IInv, Halfway
<1>11. LaidOut'
  BY <1>1, <1>8 DEF IInv, LaidOut
<1>12. Completed' /\ Uncrashed'
  BY <1>1, <1>2, Positions DEF Completed, Uncrashed
<1> QED BY <1>7, <1>9, <1>10, <1>11, <1>12 DEF IInv

LEMMA SyncKeeps == IInv /\ Sync => IInv'
<1> SUFFICES ASSUME IInv, Sync PROVE IInv'
  OBVIOUS
<1>1. /\ pc \in {Half, Last} /\ pc' = pc + 1 /\ stable' = content
      /\ completed' = (completed \/ pc = Last)
      /\ UNCHANGED <<content, root, crashes, laid_out>>
  BY Places, FormatSteps DEF Sync
<1>2. ~completed /\ Protected(content) /\ content[Super]
  BY <1>1, NotYetCompleted, MarkedFromHalf, Positions DEF IInv
<1>3. TypeOK'
  BY <1>1, FormatSteps, Positions DEF IInv, TypeOK
<1>4. LaidOut'
  BY <1>1, <1>2 DEF LaidOut
<1>5. CASE pc = Half
  <2>1. Done'
    BY <1>1, <1>2, <1>5, Positions DEF Done, Protected
  <2>2. Halfway'
    BY <1>1, <1>2, <1>5, Positions DEF Halfway
  <2>3. Completed' /\ Uncrashed'
    <3>1. pc' \notin {0, Last + 1} /\ pc # Last
      BY <1>1, <1>5, Positions
    <3>2. ~completed'
      BY <1>1, <1>2, <3>1, Zenon
    <3> QED BY <3>1, <3>2 DEF Completed, Uncrashed
  <2> QED BY <1>3, <1>4, <2>1, <2>2, <2>3 DEF IInv
<1>6. CASE pc = Last
  <2>1. Done' /\ Halfway'
    BY <1>1, <1>6, Positions DEF Done, Halfway
  <2>2. HasRoot(content)
    BY <1>6, Positions DEF IInv, Done, HasRoot
  <2>3. Completed' /\ Uncrashed'
    <3>1. completed' /\ pc' = Last + 1 /\ content' = content /\ stable' = content'
      BY <1>1, <1>6
    <3>2. content'[Super] /\ HasRoot(content') /\ Protected(content')
      BY <1>2, <2>2, <3>1
    <3> QED BY <3>1, <3>2 DEF Completed, Uncrashed
  <2> QED BY <1>3, <1>4, <2>1, <2>3 DEF IInv
<1> QED BY <1>1, <1>5, <1>6

LEMMA EvictKeeps == IInv /\ Evict => IInv'
<1> SUFFICES ASSUME IInv, Evict PROVE IInv'
  OBVIOUS
<1>1. PICK b \in Block : stable[b] # content[b] /\ stable' = [stable EXCEPT ![b] = content[b]]
  BY DEF Evict
<1>2. UNCHANGED <<content, pc, root, crashes, laid_out, completed>>
  BY DEF Evict
<1>3. /\ DOMAIN stable' = Block
      /\ \A c \in Block : stable'[c] = stable[c] \/ stable'[c] = content[c]
  BY <1>1 DEF IInv, TypeOK, Device
<1>4. TypeOK'
  <2>1. Device(stable')
    BY <1>3 DEF IInv, TypeOK, Device
  <2> QED BY <1>2, <2>1 DEF IInv, TypeOK
<1>5. Done'
  BY <1>2 DEF IInv, Done
<1>6. Protected(content) /\ Protected(stable) => Protected(stable')
  BY <1>3, BlocksExist DEF Protected
<1>7. Halfway'
  <2>1. CASE pc \in Half + 1 .. Last
    <3>1. Protected(content) /\ content[Super] /\ Protected(stable) /\ stable[Super]
      BY <2>1, MarkedFromHalf, Positions DEF IInv, Halfway
    <3>2. stable'[Super] /\ Protected(stable')
      BY <1>3, <1>6, <3>1, BlocksExist
    <3> QED BY <1>2, <1>3, <3>2, BlocksExist DEF IInv, Halfway
  <2> QED BY <1>2, <2>1 DEF Halfway
<1>8. LaidOut'
  BY <1>2, <1>6 DEF IInv, LaidOut
<1>9. Completed'
  BY <1>1, <1>2 DEF IInv, Completed
<1>10. Uncrashed'
  BY <1>2 DEF IInv, Uncrashed, block_bitmap
<1> QED BY <1>4, <1>5, <1>7, <1>8, <1>9, <1>10 DEF IInv

LEMMA RestartKeeps == IInv /\ (Abort \/ Crash) => IInv'
<1> SUFFICES ASSUME IInv, Abort \/ Crash PROVE IInv'
  OBVIOUS
<1>1. /\ content' = stable /\ pc' = 0 /\ root' = 0
      /\ UNCHANGED <<stable, laid_out, completed>>
  BY DEF Abort, Crash, Restart
<1>2. crashes \in 0 .. MaxCrashes /\ crashes' \in 0 .. MaxCrashes
  BY MountAssumption DEF IInv, TypeOK, Abort, Crash
<1>3. TypeOK'
  BY <1>1, <1>2, FormatSteps, Positions DEF IInv, TypeOK
<1>4. Done' /\ Halfway'
  BY <1>1, Positions DEF Done, Halfway
<1>5. LaidOut' /\ Completed'
  BY <1>1 DEF IInv, LaidOut, Completed, Protected, HasRoot
<1>6. Uncrashed'
  <2>1. CASE Crash
    <3>1. crashes' # 0
      BY <1>2, <2>1 DEF Crash
    <3> QED BY <3>1 DEF Uncrashed
  <2>2. CASE Abort
    <3>1. pc = Half + 2 /\ A!ballocs(block_bitmap, 0) = A!EXT2M_I_BLOCK_END
      BY <2>2, Places DEF Abort
    <3>2. \A g \in A!Group : stable[Bitmap(g)] = content[Bitmap(g)]
      BY <3>1, Positions DEF IInv, Halfway
    <3>3. block_bitmap' = block_bitmap
      BY <1>1, <3>2 DEF block_bitmap, Bitmap, A!Group
    <3>4. A!ballocs(block_bitmap', 0) = A!EXT2M_I_BLOCK_END
      BY <3>1, <3>3
    <3> QED BY <3>4 DEF Uncrashed
  <2> QED BY <2>1, <2>2
<1> QED BY <1>3, <1>4, <1>5, <1>6 DEF IInv

\* Every step keeps the invariant.
THEOREM NextIInv == IInv /\ [Next]_vars => IInv'
<1> SUFFICES ASSUME IInv, [Next]_vars PROVE IInv'
  OBVIOUS
<1>1. CASE Check
  BY <1>1, CheckKeeps
<1>2. CASE WriteNext
  BY <1>2, WriteKeeps
<1>3. CASE Ballocs
  BY <1>3, BallocsKeeps
<1>4. CASE Sync
  BY <1>4, SyncKeeps
<1>5. CASE Abort \/ Crash
  BY <1>5, RestartKeeps
<1>6. CASE Evict
  BY <1>6, EvictKeeps
<1>7. CASE UNCHANGED vars
  <2>1. UNCHANGED <<content, stable, pc, root, crashes, laid_out, completed>>
    BY <1>7 DEF vars
  <2>2. TypeOK' /\ Done' /\ Halfway' /\ LaidOut' /\ Completed'
    BY <2>1 DEF IInv, TypeOK, Done, Halfway, LaidOut, Completed, Protected, HasRoot
  <2>3. Uncrashed'
    BY <2>1 DEF IInv, Uncrashed, block_bitmap
  <2> QED BY <2>2, <2>3 DEF IInv
<1> QED BY <1>1, <1>2, <1>3, <1>4, <1>5, <1>6, <1>7 DEF Next, Mounting

\* The invariant holds in every behaviour.
THEOREM Invariance == Spec => []IInv
BY InitIInv, NextIInv, PTL DEF Spec

-------------------------------------------------------------------------------
(* What a format promises *)

\* Type correctness.
THEOREM TypeCorrect == Spec => []TypeOK
<1>1. IInv => TypeOK
  BY DEF IInv
<1> QED BY <1>1, Invariance, PTL

\* Once a format is past its first half, no crash makes a mounted image of it
\* whose metadata ballocs could give away.
THEOREM MetadataStaysProtected == Spec => []MetadataProtected
<1>1. IInv => MetadataProtected
  BY DEF IInv, LaidOut, MetadataProtected
<1> QED BY <1>1, Invariance, PTL

\* A format that ran to its end is there for good.
THEOREM CompletedForGood == Spec => []FormattedForGood
<1>1. IInv => FormattedForGood
  BY FormatSteps DEF IInv, Completed, FormattedForGood
<1> QED BY <1>1, Invariance, PTL

\* Only a crash, or a disk that was full, leaves an image mounted that no format
\* completed.
THEOREM OnlyCrashHalves == Spec => []HalfOnlyAfterCrash
<1>1. IInv => HalfOnlyAfterCrash
  BY FormatSteps, Positions DEF IInv, TypeOK, Uncrashed, HalfOnlyAfterCrash, Mounted
<1> QED BY <1>1, Invariance, PTL
===============================================================================
