----------------------------- MODULE PMMProofs -----------------------------
(***************************************************************************)
(* Proofs about the buddy allocator of module PMM, for every number of     *)
(* frames, every set of usable frames and every maximal order.             *)
(***************************************************************************)
EXTENDS PMM, FiniteSetTheorems, TLAPS

-----------------------------------------------------------------------------
(* Arithmetic of aligned blocks.                                           *)

\* Distinct multiples of s are at least s apart.
LEMMA MulStep ==
    ASSUME NEW a \in Nat, NEW c \in Nat, NEW s \in Nat, a < c
    PROVE  a * s + s <= c * s
<1>1. PICK d \in Nat : c = a + 1 + d
  BY c - a - 1 \in Nat
<1>2. c * s = a * s + s + d * s
  BY <1>1
<1>3. d * s >= 0
  OBVIOUS
<1> QED BY <1>2, <1>3

\* Division with remainder.
LEMMA DivMod ==
    ASSUME NEW p \in Nat, NEW s \in Nat \ {0}
    PROVE  /\ p \div s \in Nat
           /\ p % s \in 0 .. (s - 1)
           /\ p = (p \div s) * s + (p % s)
OBVIOUS

\* Division of a multiple.
LEMMA MulDiv ==
    ASSUME NEW a \in Nat, NEW s \in Nat \ {0}
    PROVE  (a * s) \div s = a /\ (a * s) % s = 0
<1> DEFINE p == a * s
           d == p \div s
           r == p % s
<1>1. p \in Nat
  OBVIOUS
<1>2. d \in Nat /\ r \in 0 .. (s - 1) /\ p = d * s + r
  BY <1>1, DivMod
<1> HIDE DEF d, r
<1>3. CASE a < d
  BY <1>2, <1>3, MulStep
<1>4. CASE d < a
  BY <1>2, <1>4, MulStep
<1>5. a = d
  BY <1>2, <1>3, <1>4
<1>6. r = 0
  BY <1>2, <1>5
<1> QED BY <1>5, <1>6 DEF d, r

\* The sizes of blocks.
LEMMA SizeFacts ==
    ASSUME NEW k \in Orders
    PROVE  /\ k \in Nat /\ k + 1 \in 0 .. MaxOrder /\ k \in 0 .. MaxOrder
           /\ BlockSize[k] \in Nat \ {0}
           /\ BlockSize[k + 1] = 2 * BlockSize[k]
           /\ BlockSize[k + 1] \in Nat \ {0}
BY SizeAssumption, BlockSizeAssumption DEF Orders

\* Aligned frames are the multiples of the block size.
LEMMA AlignedForm ==
    ASSUME NEW p \in Nat, NEW k \in 0 .. MaxOrder, Aligned(p, k)
    PROVE  \E a \in Nat : p = a * BlockSize[k]
<1> DEFINE s == BlockSize[k]
<1>1. s \in Nat \ {0}
  BY SizeAssumption, BlockSizeAssumption
<1>2. p % s = 0
  BY DEF Aligned
<1> HIDE DEF s
<1>3. p \div s \in Nat /\ p = (p \div s) * s + (p % s)
  BY <1>1, DivMod
<1>4. p = (p \div s) * s
  BY <1>1, <1>2, <1>3
<1> QED BY <1>3, <1>4 DEF s

LEMMA AlignedMul ==
    ASSUME NEW a \in Nat, NEW k \in 0 .. MaxOrder
    PROVE  Aligned(a * BlockSize[k], k)
<1>1. BlockSize[k] \in Nat \ {0}
  BY SizeAssumption, BlockSizeAssumption
<1> QED BY <1>1, MulDiv DEF Aligned

\* The bit that tells the two halves of a block apart.
LEMMA UpperHalfForm ==
    ASSUME NEW k \in Orders, NEW a \in Nat
    PROVE  UpperHalf(a * BlockSize[k], k) <=> a % 2 = 1
<1>1. BlockSize[k] \in Nat \ {0}
  BY SizeFacts
<1>2. (a * BlockSize[k]) \div BlockSize[k] = a
  BY <1>1, MulDiv
<1> QED BY <1>2 DEF UpperHalf

\* A block and its buddy are the two halves of a block of the next order.
LEMMA BuddyHalves ==
    ASSUME NEW p \in Nat, NEW k \in Orders, Aligned(p, k)
    PROVE  LET b == Buddy(p, k)
               h == Combined(p, k)
               s == BlockSize[k] IN
           /\ b \in Nat /\ h \in Nat
           /\ Aligned(b, k) /\ Aligned(h, k + 1)
           /\ (p = h /\ b = h + s) \/ (p = h + s /\ b = h)
<1> DEFINE s == BlockSize[k]
<1>1. s \in Nat \ {0} /\ BlockSize[k + 1] = 2 * s /\ k \in 0 .. MaxOrder /\ k + 1 \in 0 .. MaxOrder
  BY SizeFacts
<1>2. PICK a \in Nat : p = a * s
  BY <1>1, AlignedForm
<1>3. UpperHalf(p, k) <=> a % 2 = 1
  BY <1>2, UpperHalfForm
<1> HIDE DEF s
<1>4. CASE a % 2 = 0
  <2>1. PICK c \in Nat : a = 2 * c
    BY <1>4, DivMod, a \div 2 \in Nat
  <2>2. Buddy(p, k) = p + s /\ Combined(p, k) = p
    BY <1>3, <1>4 DEF Buddy, Combined, s
  <2>3. p = c * (2 * s) /\ p + s = (2 * c + 1) * s /\ p + s \in Nat
    BY <1>1, <1>2, <2>1
  <2>4. Aligned(p + s, k)
    BY <1>1, <2>3, AlignedMul, 2 * c + 1 \in Nat DEF s
  <2>5. Aligned(p, k + 1)
    BY <1>1, <2>3, AlignedMul
  <2> QED BY <2>2, <2>3, <2>4, <2>5 DEF s
<1>5. CASE a % 2 = 1
  <2>1. PICK c \in Nat : a = 2 * c + 1
    BY <1>5, DivMod, a \div 2 \in Nat
  <2>2. Buddy(p, k) = p - s /\ Combined(p, k) = p - s
    BY <1>3, <1>5 DEF Buddy, Combined, s
  <2>3. p - s = c * (2 * s) /\ p - s = (2 * c) * s /\ p - s \in Nat /\ p = (p - s) + s
    BY <1>1, <1>2, <2>1
  <2>4. Aligned(p - s, k)
    BY <1>1, <2>3, AlignedMul, 2 * c \in Nat DEF s
  <2>5. Aligned(p - s, k + 1)
    BY <1>1, <2>3, AlignedMul
  <2> QED BY <2>2, <2>3, <2>4, <2>5 DEF s
<1> QED BY <1>4, <1>5

\* The first half of a block of order k + 1 has the other half as buddy.
LEMMA SplitHalves ==
    ASSUME NEW p \in Nat, NEW k \in Orders, Aligned(p, k + 1)
    PROVE  /\ Aligned(p, k)
           /\ Buddy(p, k) = p + BlockSize[k]
           /\ Aligned(p + BlockSize[k], k)
<1> DEFINE s == BlockSize[k]
<1>1. s \in Nat \ {0} /\ BlockSize[k + 1] = 2 * s /\ k \in 0 .. MaxOrder /\ k + 1 \in 0 .. MaxOrder
  BY SizeFacts
<1>2. PICK c \in Nat : p = c * (2 * s)
  BY <1>1, AlignedForm
<1> HIDE DEF s
<1>3. p = (2 * c) * s /\ p + s = (2 * c + 1) * s /\ 2 * c \in Nat /\ 2 * c + 1 \in Nat
  BY <1>1, <1>2
<1>4. Aligned(p, k) /\ Aligned(p + s, k)
  BY <1>1, <1>3, AlignedMul DEF s
<1>5. ~UpperHalf(p, k)
  <2>1. (2 * c) % 2 # 1
    OBVIOUS
  <2> QED BY <1>3, <2>1, UpperHalfForm DEF s
<1> QED BY <1>4, <1>5 DEF Buddy, s

\* Aligned blocks are nested or disjoint.
LEMMA Nested ==
    ASSUME NEW h \in Nat, NEW i \in 0 .. MaxOrder, Aligned(h, i),
           NEW q \in Nat, NEW j \in 0 .. MaxOrder, Aligned(q, j),
           i <= j, NEW x \in Span(h, i), x \in Span(q, j)
    PROVE  Span(h, i) \subseteq Span(q, j)
<1> DEFINE u == BlockSize[i]
           v == BlockSize[j]
<1>1. u \in Nat \ {0} /\ v \in Nat \ {0}
  BY SizeAssumption, BlockSizeAssumption
<1>2. PICK d \in Nat : v = d * u
  <2>1. i \in 0 .. j
    BY SizeAssumption
  <2>2. \E d \in 1 .. v : v = d * u
    BY <2>1, DivisibleAssumption
  <2> QED BY <1>1, <2>2
<1>3. PICK a \in Nat : h = a * u
  BY AlignedForm
<1>4. PICK b \in Nat : q = b * v
  BY AlignedForm
<1>5. h <= x /\ x < h + u /\ q <= x /\ x < q + v /\ x \in Nat
  BY <1>1 DEF Span
<1> HIDE DEF u, v
<1> DEFINE e == b * d
<1>6. e \in Nat /\ q = e * u /\ q + v = (e + d) * u /\ e + d \in Nat
  BY <1>1, <1>2, <1>4
<1> HIDE DEF e
<1>7. ~(a < e)
  BY <1>1, <1>3, <1>5, <1>6, MulStep
<1>8. e * u <= a * u
  BY <1>1, <1>6, <1>7, MulStep
<1>9. a < e + d
  <2>1. SUFFICES ASSUME e + d <= a
                 PROVE  (e + d) * u <= a * u
    BY <1>1, <1>3, <1>5, <1>6
  <2> QED BY <1>1, <1>6, <2>1, MulStep
<1>10. a * u + u <= (e + d) * u
  BY <1>1, <1>6, <1>9, MulStep
<1>11. q <= h /\ h + u <= q + v
  BY <1>3, <1>6, <1>8, <1>10
<1> QED BY <1>1, <1>4, <1>6, <1>11 DEF Span, u, v

\* Only the two halves of a block start inside it and are aligned to half its size.
LEMMA HalfHeads ==
    ASSUME NEW q \in Nat, NEW k \in Orders, Aligned(q, k + 1),
           NEW x \in Span(q, k + 1), Aligned(x, k)
    PROVE  x = q \/ x = q + BlockSize[k]
<1> DEFINE s == BlockSize[k]
<1>1. s \in Nat \ {0} /\ BlockSize[k + 1] = 2 * s /\ k \in 0 .. MaxOrder /\ k + 1 \in 0 .. MaxOrder
  BY SizeFacts
<1>2. PICK c \in Nat : q = c * (2 * s)
  BY <1>1, AlignedForm
<1>3. q <= x /\ x < q + 2 * s /\ x \in Nat
  BY <1>1 DEF Span
<1>4. PICK a \in Nat : x = a * s
  BY <1>1, <1>3, AlignedForm
<1> HIDE DEF s
<1>5. q = (2 * c) * s /\ q + s = (2 * c + 1) * s /\ q + 2 * s = (2 * c + 2) * s
  BY <1>1, <1>2
<1>6. ~(a < 2 * c)
  BY <1>1, <1>3, <1>4, <1>5, MulStep
<1>7. ~(2 * c + 1 < a)
  BY <1>1, <1>3, <1>4, <1>5, MulStep
<1>8. a = 2 * c \/ a = 2 * c + 1
  BY <1>6, <1>7
<1> QED BY <1>4, <1>5, <1>8 DEF s

\* The frames of a block.
LEMMA SpanCard ==
    ASSUME NEW p \in Nat, NEW k \in 0 .. MaxOrder
    PROVE  /\ IsFiniteSet(Span(p, k))
           /\ Cardinality(Span(p, k)) = BlockSize[k]
           /\ p \in Span(p, k)
<1>1. BlockSize[k] \in Nat \ {0}
  BY SizeAssumption, BlockSizeAssumption
<1> DEFINE e == p + BlockSize[k] - 1
<1>2. p \in Int /\ e \in Int /\ p <= e /\ e - p + 1 = BlockSize[k]
  BY <1>1
<1>3. Span(p, k) = p .. e
  BY DEF Span
<1> HIDE DEF e
<1>4. /\ IsFiniteSet(p .. e)
      /\ Cardinality(p .. e) = IF p > e THEN 0 ELSE e - p + 1
  BY <1>2, FS_Interval
<1>5. ~(p > e)
  BY <1>2
<1>6. p \in p .. e
  BY <1>2
<1> QED BY <1>2, <1>3, <1>4, <1>5, <1>6

\* A block is the union of its halves.
LEMMA SpanHalves ==
    ASSUME NEW p \in Nat, NEW k \in Orders
    PROVE  /\ Span(p, k + 1) = Span(p, k) \cup Span(p + BlockSize[k], k)
           /\ Span(p, k) \cap Span(p + BlockSize[k], k) = {}
<1>1. BlockSize[k] \in Nat \ {0} /\ BlockSize[k + 1] = 2 * BlockSize[k]
  BY SizeFacts
<1> QED BY <1>1 DEF Span

-----------------------------------------------------------------------------
(* Sets of disjoint blocks.                                                *)

DisjointBlocks(B) ==
    \A b, c \in B : b # c => Span(b[1], b[2]) \cap Span(c[1], c[2]) = {}

\* A block of memory is a first frame and an order, and is not empty.
LEMMA BlockFacts ==
    ASSUME NEW b \in Pages \X Orders
    PROVE  /\ b = <<b[1], b[2]>>
           /\ b[1] \in Pages /\ b[1] \in Nat
           /\ b[2] \in Orders /\ b[2] \in 0 .. MaxOrder
           /\ b[1] \in Span(b[1], b[2])
<1>1. b = <<b[1], b[2]>> /\ b[1] \in Pages /\ b[2] \in Orders
  OBVIOUS
<1>2. b[1] \in Nat /\ b[2] \in 0 .. MaxOrder
  BY <1>1, SizeAssumption DEF Pages, Orders
<1> QED BY <1>1, <1>2, SpanCard

\* Cutting a block in two keeps the blocks disjoint and the frames covered.
LEMMA Subdivide ==
    ASSUME NEW B, B \subseteq Pages \X Orders, DisjointBlocks(B),
           NEW z \in B, NEW x \in Pages \X Orders, NEW y \in Pages \X Orders,
           Span(z[1], z[2]) = Span(x[1], x[2]) \cup Span(y[1], y[2]),
           Span(x[1], x[2]) \cap Span(y[1], y[2]) = {}
    PROVE  /\ DisjointBlocks((B \ {z}) \cup {x, y})
           /\ x \notin B \ {z} /\ y \notin B \ {z} /\ x # y
           /\ Covered((B \ {z}) \cup {x, y}) = Covered(B)
<1>1. x[1] \in Span(x[1], x[2]) /\ y[1] \in Span(y[1], y[2])
  BY BlockFacts
<1>2. ASSUME NEW b \in B \ {z}
      PROVE  /\ Span(b[1], b[2]) \cap Span(x[1], x[2]) = {}
             /\ Span(b[1], b[2]) \cap Span(y[1], y[2]) = {}
  BY <1>2 DEF DisjointBlocks
<1>3. x # y /\ x \notin B \ {z} /\ y \notin B \ {z}
  BY <1>1, <1>2
<1>4. DisjointBlocks((B \ {z}) \cup {x, y})
  BY <1>2 DEF DisjointBlocks
<1>5. Covered((B \ {z}) \cup {x, y}) = Covered(B)
  BY DEF Covered
<1> QED BY <1>3, <1>4, <1>5

\* Joining two blocks keeps the blocks disjoint and the frames covered.
LEMMA Join ==
    ASSUME NEW B, B \subseteq Pages \X Orders, DisjointBlocks(B),
           NEW x \in B, NEW y \in B, NEW z \in Pages \X Orders,
           Span(z[1], z[2]) = Span(x[1], x[2]) \cup Span(y[1], y[2])
    PROVE  /\ DisjointBlocks((B \ {x, y}) \cup {z})
           /\ z \notin B \ {x, y}
           /\ Covered((B \ {x, y}) \cup {z}) = Covered(B)
<1>1. z[1] \in Span(z[1], z[2])
  BY BlockFacts
<1>2. ASSUME NEW b \in B \ {x, y}
      PROVE  Span(b[1], b[2]) \cap Span(z[1], z[2]) = {}
  BY <1>2 DEF DisjointBlocks
<1>3. z \notin B \ {x, y}
  BY <1>1, <1>2
<1>4. DisjointBlocks((B \ {x, y}) \cup {z})
  BY <1>2 DEF DisjointBlocks
<1>5. Covered((B \ {x, y}) \cup {z}) = Covered(B)
  BY DEF Covered
<1> QED BY <1>3, <1>4, <1>5

\* Adding a disjoint block adds its size to the number of frames covered.
LEMMA CoveredCard ==
    ASSUME NEW B, B \subseteq Pages \X Orders, NEW b \in Pages \X Orders,
           b \notin B, DisjointBlocks(B \cup {b}), Span(b[1], b[2]) \subseteq Pages
    PROVE  /\ Cardinality(Covered(B)) \in Nat
           /\ Cardinality(Covered(B \cup {b})) = Cardinality(Covered(B)) + BlockSize[b[2]]
<1> DEFINE C == Covered(B)
           S == Span(b[1], b[2])
<1>1. IsFiniteSet(Pages)
  BY SizeAssumption, FS_Interval DEF Pages
<1>2. C \subseteq Pages /\ IsFiniteSet(C)
  BY <1>1, FS_Subset DEF Covered
<1>3. IsFiniteSet(S) /\ Cardinality(S) = BlockSize[b[2]]
  BY BlockFacts, SpanCard
<1>4. C \cap S = {}
  BY DEF Covered, DisjointBlocks
<1>5. Covered(B \cup {b}) = C \cup S
  BY DEF Covered
<1>6. Cardinality(C \cup S) = Cardinality(C) + Cardinality(S) - Cardinality(C \cap S)
  BY <1>2, <1>3, FS_Union
<1>7. Cardinality(C \cap S) = 0
  BY <1>4, FS_EmptySet
<1>8. Cardinality(C) \in Nat /\ Cardinality(S) \in Nat
  BY <1>2, <1>3, FS_CardinalityType
<1> HIDE DEF C, S
<1>9. Cardinality(C \cup S) = Cardinality(C) + Cardinality(S)
  BY <1>6, <1>7, <1>8
<1>10. Cardinality(Covered(B \cup {b})) = Cardinality(C) + BlockSize[b[2]]
  BY <1>3, <1>5, <1>9
<1> QED BY <1>8, <1>10 DEF C

-----------------------------------------------------------------------------
(* The inductive invariant.                                                *)

\* What the invariant says of every block.
LEMMA BlocksOK ==
    ASSUME IInv
    PROVE  /\ Blocks \subseteq Pages \X Orders
           /\ DisjointBlocks(Blocks)
           /\ \A b \in Blocks : Span(b[1], b[2]) \subseteq Pages
           /\ pc # "idle" => page \in Pages /\ <<page, cur>> \in Blocks
<1>1. held \subseteq Pages \X Orders /\ FreeBlocks \subseteq Pages \X Orders
  BY DEF IInv, TypeOK, FreeBlocks
<1>2. \A b \in Blocks : Span(b[1], b[2]) \subseteq Pages
  BY UsableAssumption DEF IInv, WellPlaced
<1>3. ASSUME pc # "idle"
      PROVE  page \in Pages /\ cur \in Orders /\ <<page, cur>> \in Blocks
  <2>1. <<page, cur>> \in Blocks /\ cur \in Orders /\ page \in Nat
    BY <1>3, SizeAssumption DEF IInv, TypeOK, Blocks, InHand, Pages
  <2>2. cur \in 0 .. MaxOrder
    BY <2>1, SizeFacts
  <2>3. page \in Span(page, cur)
    BY <2>1, <2>2, SpanCard
  <2> QED BY <1>2, <2>1, <2>3
<1>4. Blocks \subseteq Pages \X Orders
  BY <1>1, <1>3 DEF Blocks, InHand
<1>5. DisjointBlocks(Blocks)
  BY DEF IInv, NoOverlap, DisjointBlocks
<1> QED BY <1>2, <1>3, <1>4, <1>5

\* Blocks that start at the same frame are the same block.
LEMMA SameHead ==
    ASSUME IInv, NEW b \in Blocks, NEW c \in Blocks,
           b[1] \in Span(c[1], c[2])
    PROVE  b = c
<1>1. b \in Pages \X Orders
  BY BlocksOK
<1>2. b[1] \in Span(b[1], b[2])
  BY <1>1, BlockFacts
<1> QED BY <1>2, BlocksOK DEF DisjointBlocks

LEMMA InitIInv == Init => IInv
<1> SUFFICES ASSUME Init PROVE IInv
  OBVIOUS
<1>1. 0 \in Orders /\ BlockSize[0] = 1 /\ Usable \subseteq Pages
  BY SizeAssumption, BlockSizeAssumption, UsableAssumption DEF Orders
<1>2. FreeBlocks = {} /\ InHand = {} /\ Blocks = Usable \X {0}
  BY <1>1 DEF Init, FreeBlocks, InHand, Blocks
<1>3. \A p \in Pages : Span(p, 0) = {p} /\ Aligned(p, 0)
  BY <1>1 DEF Span, Pages, Aligned
<1>4. TypeOK
  BY <1>1 DEF Init, TypeOK
<1>5. NoOverlap
  <2>1. ASSUME NEW b \in Blocks, NEW c \in Blocks, b # c
        PROVE  Span(b[1], b[2]) \cap Span(c[1], c[2]) = {}
    <3>1. /\ b = <<b[1], 0>> /\ b[1] \in Pages /\ b[2] = 0
          /\ c = <<c[1], 0>> /\ c[1] \in Pages /\ c[2] = 0
      BY <1>1, <1>2
    <3>2. b[1] # c[1]
      BY <2>1, <3>1
    <3> QED BY <1>3, <3>1, <3>2
  <2> QED BY <1>2, <2>1 DEF NoOverlap
<1>6. NoLeak
  <2>1. ASSUME NEW q \in Pages
        PROVE  (\E b \in Usable \X {0} : q \in Span(b[1], b[2])) <=> q \in Usable
    <3>1. ASSUME q \in Usable
          PROVE  \E b \in Usable \X {0} : q \in Span(b[1], b[2])
      <4>1. <<q, 0>> \in Usable \X {0} /\ q \in Span(q, 0)
        BY <1>3, <3>1
      <4> QED BY <4>1
    <3>2. ASSUME NEW b \in Usable \X {0}, q \in Span(b[1], b[2])
          PROVE  q \in Usable
      BY <1>1, <1>3, <3>2
    <3> QED BY <3>1, <3>2
  <2> QED BY <1>1, <1>2, <2>1 DEF NoLeak, Covered
<1>7. ExactAccounting
  <2>1. Covered({}) = {}
    BY DEF Covered
  <2> QED BY <1>2, <2>1, FS_EmptySet DEF ExactAccounting, Init
<1>8. WellPlaced
  BY <1>1, <1>2, <1>3 DEF WellPlaced
<1>9. Marked
  BY <1>1 DEF Marked, Init
<1>10. StaleShadowed /\ LoopOK
  BY DEF StaleShadowed, LoopOK, Init
<1> QED BY <1>4, <1>5, <1>6, <1>7, <1>8, <1>9, <1>10 DEF IInv

\* Steps that move one block between a caller, a freelist and a loop.
LEMMA MoveBlock ==
    ASSUME IInv, Blocks' = Blocks
    PROVE  /\ NoLeak' /\ WellPlaced'
           /\ DisjointBlocks(Blocks)'
<1>1. NoLeak'
  BY DEF IInv, NoLeak
<1>2. WellPlaced'
  BY DEF IInv, WellPlaced
<1>3. DisjointBlocks(Blocks)'
  BY BlocksOK
<1> QED BY <1>1, <1>2, <1>3

LEMMA AllocBeginIInv ==
    ASSUME IInv, NEW k \in Orders, AllocBegin(k)
    PROVE  IInv'
<1>0. PICK c \in k .. (MaxOrder - 1) : \E p \in freelist[c] :
         /\ list_remove(c, p)
         /\ page' = p /\ cur' = c /\ want' = k
  BY DEF AllocBegin
<1>1. PICK p \in freelist[c] :
         /\ list_remove(c, p)
         /\ page' = p /\ cur' = c /\ want' = k
  BY <1>0
<1>2. c \in Orders /\ k <= c /\ p \in Pages /\ <<p, c>> \in FreeBlocks
  BY SizeAssumption DEF Orders, IInv, TypeOK, FreeBlocks
<1>3. freelist' = [freelist EXCEPT ![c] = @ \ {p}]
  BY <1>1, <1>2 DEF IInv, TypeOK, list_remove
<1>4. /\ pc = "idle" /\ pc' = "split"
      /\ UNCHANGED <<order, is_free, free_phys_pages, held, todo>>
  BY DEF AllocBegin
<1>5. /\ FreeBlocks' = FreeBlocks \ {<<p, c>>}
      /\ InHand = {} /\ InHand' = {<<p, c>>}
  <2>1. InHand = {} /\ InHand' = {<<p, c>>}
    BY <1>1, <1>4 DEF InHand
  <2>2. ASSUME NEW b \in Pages \X Orders
        PROVE  b[1] \in freelist'[b[2]] <=> b[1] \in freelist[b[2]] /\ b # <<p, c>>
    BY <1>2, <1>3 DEF IInv, TypeOK
  <2> QED BY <2>1, <2>2 DEF FreeBlocks
<1>6. Blocks' = Blocks /\ (FreeBlocks \cup InHand)' = FreeBlocks \cup InHand
  BY <1>2, <1>4, <1>5 DEF Blocks
<1>7. TypeOK'
  BY <1>1, <1>2, <1>3, <1>4 DEF IInv, TypeOK
<1>8. NoOverlap'
  BY <1>2, <1>4, <1>5, <1>6, MoveBlock DEF IInv, NoOverlap, DisjointBlocks
<1>9. ExactAccounting'
  BY <1>4, <1>6 DEF IInv, ExactAccounting
<1>10. Marked'
  BY <1>2, <1>3, <1>4 DEF IInv, TypeOK, Marked
<1>11. StaleShadowed'
  BY <1>1, <1>2, <1>3, <1>4, <1>6 DEF IInv, TypeOK, StaleShadowed
<1>12. LoopOK'
  BY <1>1, <1>2, <1>4 DEF LoopOK
<1> QED BY <1>6, <1>7, <1>8, <1>9, <1>10, <1>11, <1>12, MoveBlock DEF IInv

LEMMA AllocEndIInv ==
    ASSUME IInv, AllocEnd
    PROVE  IInv'
<1> DEFINE z == <<page, cur>>
<1>1. /\ pc = "split" /\ pc' = "idle" /\ cur = want
      /\ order' = [order EXCEPT ![page] = want]
      /\ is_free' = [is_free EXCEPT ![page] = FALSE]
      /\ free_phys_pages' = free_phys_pages - BlockSize[want]
      /\ held' = held \cup {z}
      /\ page' = 0 /\ cur' = 0 /\ want' = 0
      /\ UNCHANGED <<freelist, todo>>
  BY DEF AllocEnd
<1>2. page \in Pages /\ cur \in Orders /\ z \in Blocks /\ z \in Pages \X Orders
  BY <1>1, BlocksOK DEF IInv, TypeOK
<1>3. FreeBlocks' = FreeBlocks /\ InHand = {z} /\ InHand' = {}
  BY <1>1 DEF FreeBlocks, InHand
<1>4. Blocks' = Blocks
  BY <1>1, <1>3 DEF Blocks
<1>5. z \notin held /\ z \notin FreeBlocks
  BY <1>3 DEF IInv, NoOverlap
<1>6. Cardinality(Covered(FreeBlocks)) \in Nat
      /\ Cardinality(Covered(FreeBlocks \cup {z})) = Cardinality(Covered(FreeBlocks)) + BlockSize[cur]
  <2>1. FreeBlocks \cup {z} \subseteq Blocks
    BY <1>2 DEF Blocks
  <2>2. DisjointBlocks(FreeBlocks \cup {z}) /\ Span(z[1], z[2]) \subseteq Pages
    BY <1>2, <2>1, BlocksOK DEF DisjointBlocks
  <2>3. FreeBlocks \subseteq Pages \X Orders
    BY DEF FreeBlocks
  <2>4. z[2] = cur
    OBVIOUS
  <2> HIDE DEF z
  <2> QED BY <1>2, <1>5, <2>2, <2>3, <2>4, CoveredCard
<1>7. ExactAccounting' /\ free_phys_pages' \in Nat
  <2>1. free_phys_pages = Cardinality(Covered(FreeBlocks)) + BlockSize[cur]
    BY <1>3, <1>6 DEF IInv, ExactAccounting
  <2>2. BlockSize[cur] \in Nat
    BY <1>2, SizeFacts
  <2>3. free_phys_pages' = Cardinality(Covered(FreeBlocks))
    BY <1>1, <1>6, <2>1, <2>2
  <2>4. (FreeBlocks \cup InHand)' = FreeBlocks
    BY <1>3
  <2> QED BY <1>6, <2>3, <2>4 DEF ExactAccounting
<1>8. TypeOK'
  BY <1>1, <1>2, <1>7, SizeAssumption DEF IInv, TypeOK, Orders
<1>9. NoOverlap'
  BY <1>1, <1>3, <1>4, <1>5, MoveBlock DEF IInv, NoOverlap, DisjointBlocks
<1>10. Marked'
  <2>1. ASSUME NEW b \in Blocks, b # z
        PROVE  b[1] # page
    <3>1. page \in Span(page, cur)
      BY <1>2, BlockFacts
    <3> QED BY <1>2, <2>1, <3>1, SameHead
  <2>2. ASSUME NEW b \in held'
        PROVE  ~is_free'[b[1]] /\ order'[b[1]] = b[2]
    <3>1. CASE b = z
      BY <1>1, <1>2, <3>1 DEF IInv, TypeOK
    <3>2. CASE b # z
      BY <1>1, <1>2, <2>1, <3>2 DEF IInv, TypeOK, Marked, Blocks
    <3> QED BY <3>1, <3>2
  <2>3. ASSUME NEW k \in Orders, NEW p \in freelist'[k]
        PROVE  is_free'[p] /\ order'[p] = k
    <3>1. p \in Pages /\ <<p, k>> \in FreeBlocks
      BY <1>1, <2>3 DEF IInv, TypeOK, FreeBlocks
    <3>2. p # page
      BY <1>5, <2>1, <3>1 DEF Blocks
    <3> QED BY <1>1, <2>3, <3>1, <3>2 DEF IInv, TypeOK, Marked
  <2> QED BY <2>2, <2>3 DEF Marked
<1>11. StaleShadowed'
  BY <1>1, <1>2, <1>4 DEF IInv, TypeOK, StaleShadowed
<1>12. LoopOK'
  BY <1>1 DEF LoopOK
<1> QED BY <1>4, <1>7, <1>8, <1>9, <1>10, <1>11, <1>12, MoveBlock DEF IInv

LEMMA FreeIInv ==
    ASSUME IInv, NEW p \in Pages, NEW k \in Orders, Free(p, k)
    PROVE  IInv'
<1> DEFINE z == <<p, k>>
<1>1. z \in held /\ z \in Blocks /\ ~is_free[p] /\ order[p] = k
  BY DEF Free, IInv, Marked, Blocks
<1>2. /\ pc = "idle" /\ pc' = "merge" /\ page' = p /\ cur' = k
      /\ is_free' = [is_free EXCEPT ![p] = TRUE]
      /\ free_phys_pages' = free_phys_pages + BlockSize[k]
      /\ held' = held \ {z}
      /\ todo' = todo \ {p}
      /\ UNCHANGED <<order, freelist, want>>
  BY <1>1 DEF Free, FreeBegin
<1>3. FreeBlocks' = FreeBlocks /\ InHand = {} /\ InHand' = {z}
  BY <1>2 DEF FreeBlocks, InHand
<1>4. Blocks' = Blocks
  BY <1>1, <1>2, <1>3 DEF Blocks
<1>5. z \notin FreeBlocks
  BY <1>1 DEF IInv, NoOverlap
<1>6. Cardinality(Covered(FreeBlocks)) \in Nat
      /\ Cardinality(Covered(FreeBlocks \cup {z})) = Cardinality(Covered(FreeBlocks)) + BlockSize[k]
  <2>1. FreeBlocks \cup {z} \subseteq Blocks
    BY <1>1 DEF Blocks
  <2>2. DisjointBlocks(FreeBlocks \cup {z}) /\ Span(z[1], z[2]) \subseteq Pages
    BY <1>1, <2>1, BlocksOK DEF DisjointBlocks
  <2>3. FreeBlocks \subseteq Pages \X Orders
    BY DEF FreeBlocks
  <2>4. z[2] = k /\ z \in Pages \X Orders
    OBVIOUS
  <2> HIDE DEF z
  <2> QED BY <1>5, <2>2, <2>3, <2>4, CoveredCard
<1>7. ExactAccounting' /\ free_phys_pages' \in Nat
  <2>1. free_phys_pages = Cardinality(Covered(FreeBlocks))
    <3>1. FreeBlocks \cup InHand = FreeBlocks
      BY <1>3
    <3> QED BY <3>1 DEF IInv, ExactAccounting
  <2>2. (FreeBlocks \cup InHand)' = FreeBlocks \cup {z}
    BY <1>3
  <2>3. BlockSize[k] \in Nat
    BY SizeFacts
  <2>4. free_phys_pages' = Cardinality(Covered(FreeBlocks \cup {z})) /\ free_phys_pages' \in Nat
    <3> HIDE DEF z
    <3> QED BY <1>2, <1>6, <2>1, <2>3
  <2> QED BY <2>2, <2>4 DEF ExactAccounting
<1>8. TypeOK'
  BY <1>2, <1>7 DEF IInv, TypeOK
<1>9. NoOverlap'
  BY <1>1, <1>2, <1>3, <1>4, <1>5, MoveBlock DEF IInv, NoOverlap, DisjointBlocks
<1>10. Marked'
  <2>1. ASSUME NEW b \in Blocks, b # z
        PROVE  b[1] # p
    <3>1. p \in Span(p, k)
      BY BlockFacts, z \in Pages \X Orders
    <3> QED BY <1>1, <2>1, <3>1, SameHead
  <2>2. ASSUME NEW b \in held'
        PROVE  ~is_free'[b[1]] /\ order'[b[1]] = b[2]
    BY <1>2, <2>1 DEF IInv, TypeOK, Marked, Blocks
  <2>3. ASSUME NEW j \in Orders, NEW q \in freelist'[j]
        PROVE  is_free'[q] /\ order'[q] = j
    BY <1>2 DEF IInv, TypeOK, Marked
  <2> QED BY <2>2, <2>3 DEF Marked
<1>11. StaleShadowed'
  <2>1. Aligned(p, k)
    BY <1>1 DEF IInv, WellPlaced
  <2> QED BY <1>1, <1>2, <1>4, <2>1 DEF IInv, TypeOK, StaleShadowed
<1>12. LoopOK'
  BY <1>1, <1>2 DEF LoopOK, Orders
<1> QED BY <1>4, <1>7, <1>8, <1>9, <1>10, <1>11, <1>12, MoveBlock DEF IInv

LEMMA FreeEndIInv ==
    ASSUME IInv, FreeEnd
    PROVE  IInv'
<1> DEFINE z == <<page, cur>>
<1>1. /\ pc = "merge" /\ pc' = "idle"
      /\ order' = [order EXCEPT ![page] = cur]
      /\ is_free' = [is_free EXCEPT ![page] = TRUE]
      /\ freelist' = [freelist EXCEPT ![cur] = @ \cup {page}]
      /\ page' = 0 /\ cur' = 0
      /\ UNCHANGED <<free_phys_pages, held, todo, want>>
  BY DEF FreeEnd, list_add
<1>2. page \in Pages /\ cur \in Orders /\ z \in Blocks /\ z \in Pages \X Orders
  BY <1>1, BlocksOK DEF IInv, TypeOK
<1>3. FreeBlocks' = FreeBlocks \cup {z} /\ InHand = {z} /\ InHand' = {}
  <2>1. InHand = {z} /\ InHand' = {}
    BY <1>1 DEF InHand
  <2>2. ASSUME NEW b \in Pages \X Orders
        PROVE  b[1] \in freelist'[b[2]] <=> b[1] \in freelist[b[2]] \/ b = z
    BY <1>1, <1>2 DEF IInv, TypeOK
  <2> QED BY <1>2, <2>1, <2>2 DEF FreeBlocks
<1>4. Blocks' = Blocks /\ (FreeBlocks \cup InHand)' = FreeBlocks \cup InHand
  BY <1>1, <1>3 DEF Blocks
<1>5. z \notin held /\ z \notin FreeBlocks
  BY <1>3 DEF IInv, NoOverlap
<1>6. TypeOK'
  BY <1>1, <1>2, SizeAssumption DEF IInv, TypeOK, Orders
<1>7. NoOverlap'
  BY <1>1, <1>3, <1>4, <1>5, MoveBlock DEF IInv, NoOverlap, DisjointBlocks
<1>8. ExactAccounting'
  BY <1>1, <1>4 DEF IInv, ExactAccounting
<1>9. Marked'
  <2>1. ASSUME NEW b \in Blocks, b # z
        PROVE  b[1] # page
    <3>1. page \in Span(page, cur)
      BY <1>2, BlockFacts
    <3> QED BY <1>2, <2>1, <3>1, SameHead
  <2>2. ASSUME NEW b \in held'
        PROVE  ~is_free'[b[1]] /\ order'[b[1]] = b[2]
    BY <1>1, <1>2, <1>5, <2>1 DEF IInv, TypeOK, Marked, Blocks
  <2>3. ASSUME NEW k \in Orders, NEW p \in freelist'[k]
        PROVE  is_free'[p] /\ order'[p] = k
    <3>1. p \in Pages /\ <<p, k>> \in FreeBlocks'
      BY <1>1, <1>2, <2>3 DEF IInv, TypeOK, FreeBlocks
    <3>2. CASE <<p, k>> = z
      BY <1>1, <1>2, <3>2 DEF IInv, TypeOK
    <3>3. CASE <<p, k>> # z
      <4>1. p # page /\ p \in freelist[k]
        BY <1>3, <2>1, <3>1, <3>3 DEF Blocks, FreeBlocks
      <4> QED BY <1>1, <3>1, <4>1 DEF IInv, TypeOK, Marked
    <3> QED BY <3>2, <3>3
  <2> QED BY <2>2, <2>3 DEF Marked
<1>10. StaleShadowed'
  <2>1. Aligned(page, cur)
    BY <1>2 DEF IInv, WellPlaced
  <2>2. ASSUME NEW p \in Pages, is_free'[p]
        PROVE  /\ Aligned(p, order'[p])
               /\ \/ p \in freelist'[order'[p]]
                  \/ \E b \in Blocks : order'[p] < b[2] /\ p \in Span(b[1], b[2])
    <3>1. CASE p = page
      BY <1>1, <1>2, <2>1, <3>1 DEF IInv, TypeOK
    <3>2. CASE p # page
      BY <1>1, <1>2, <2>2, <3>2 DEF IInv, TypeOK, StaleShadowed
    <3> QED BY <3>1, <3>2
  <2> QED BY <1>4, <2>2 DEF StaleShadowed
<1>11. LoopOK'
  BY <1>1 DEF LoopOK
<1> QED BY <1>4, <1>6, <1>7, <1>8, <1>9, <1>10, <1>11, MoveBlock DEF IInv

LEMMA SplitIInv ==
    ASSUME IInv, Split
    PROVE  IInv'
<1> DEFINE c == cur - 1
           q == Buddy(page, c)
           z == <<page, cur>>
           x == <<page, c>>
           y == <<q, c>>
<1>1. /\ pc = "split" /\ pc' = "split" /\ cur > want /\ cur' = c /\ page' = page
      /\ order' = [order EXCEPT ![q] = c]
      /\ is_free' = [is_free EXCEPT ![q] = TRUE]
      /\ freelist' = [freelist EXCEPT ![c] = @ \cup {q}]
      /\ UNCHANGED <<free_phys_pages, held, todo, want>>
  BY DEF Split, list_add
<1>2. page \in Pages /\ cur \in Orders /\ z \in Blocks /\ z \in Pages \X Orders
  BY <1>1, BlocksOK DEF IInv, TypeOK
<1>3. c \in Orders /\ c + 1 = cur /\ page \in Nat /\ c \in Nat
  BY <1>1, <1>2, SizeAssumption DEF IInv, TypeOK, Orders, Pages
<1>4. Aligned(page, cur) /\ Span(page, cur) \subseteq Usable
  BY <1>2 DEF IInv, WellPlaced
<1>5. /\ Aligned(page, c) /\ Aligned(q, c) /\ q = page + BlockSize[c]
      /\ Span(page, cur) = Span(page, c) \cup Span(q, c)
      /\ Span(page, c) \cap Span(q, c) = {}
  <2> HIDE DEF c
  <2> QED BY <1>3, <1>4, SplitHalves, SpanHalves
<1>6. q \in Pages /\ x \in Pages \X Orders /\ y \in Pages \X Orders
      /\ q \in Span(q, c) /\ q # page
  <2>1. BlockSize[c] \in Nat \ {0} /\ c \in 0 .. MaxOrder
    BY <1>3, SizeFacts
  <2>2. q \in Nat /\ q # page
    BY <1>3, <1>5, <2>1
  <2>3. q \in Span(q, c)
    BY <2>1, <2>2, SpanCard
  <2>4. q \in Pages
    BY <1>4, <1>5, <2>3, UsableAssumption
  <2> QED BY <1>2, <1>3, <2>2, <2>3, <2>4
<1>7. FreeBlocks' = FreeBlocks \cup {y} /\ InHand = {z} /\ InHand' = {x}
  <2>1. InHand = {z} /\ InHand' = {x}
    BY <1>1 DEF InHand
  <2>2. ASSUME NEW b \in Pages \X Orders
        PROVE  b[1] \in freelist'[b[2]] <=> b[1] \in freelist[b[2]] \/ b = y
    BY <1>1, <1>3 DEF IInv, TypeOK
  <2> QED BY <1>6, <2>1, <2>2 DEF FreeBlocks
<1>8. z \notin held /\ z \notin FreeBlocks
  BY <1>7 DEF IInv, NoOverlap
<1>9. /\ Blocks' = (Blocks \ {z}) \cup {x, y}
      /\ (FreeBlocks \cup InHand)' = ((FreeBlocks \cup InHand) \ {z}) \cup {x, y}
  BY <1>1, <1>7, <1>8 DEF Blocks
<1>10. /\ z[1] = page /\ z[2] = cur /\ x[1] = page /\ x[2] = c /\ y[1] = q /\ y[2] = c
  OBVIOUS
<1> HIDE DEF c, q, x, y, z
<1>11. /\ DisjointBlocks((Blocks \ {z}) \cup {x, y})
       /\ x \notin Blocks \ {z} /\ y \notin Blocks \ {z} /\ x # y
       /\ Covered((Blocks \ {z}) \cup {x, y}) = Covered(Blocks)
  BY <1>2, <1>5, <1>6, <1>10, BlocksOK, Subdivide
<1>12. Covered(((FreeBlocks \cup InHand) \ {z}) \cup {x, y}) = Covered(FreeBlocks \cup InHand)
  <2> DEFINE F == FreeBlocks \cup InHand
  <2>1. F \subseteq Blocks /\ z \in F
    BY <1>7 DEF Blocks
  <2>2. F \subseteq Pages \X Orders /\ DisjointBlocks(F)
    BY <2>1, BlocksOK DEF DisjointBlocks
  <2> HIDE DEF F
  <2>3. Covered((F \ {z}) \cup {x, y}) = Covered(F)
    BY <1>5, <1>6, <1>10, <2>1, <2>2, Subdivide
  <2> QED BY <2>3 DEF F
<1>13. TypeOK'
  BY <1>1, <1>3, <1>6 DEF IInv, TypeOK
<1>14. NoOverlap'
  <2>1. held \cup FreeBlocks \subseteq Blocks \ {z}
    BY <1>8 DEF Blocks
  <2>2. held' \cap FreeBlocks' = {} /\ InHand' \cap (held' \cup FreeBlocks') = {}
    BY <1>1, <1>7, <1>11, <2>1 DEF IInv, NoOverlap
  <2> QED BY <1>9, <1>11, <2>2 DEF NoOverlap, DisjointBlocks
<1>15. NoLeak'
  BY <1>9, <1>11 DEF IInv, NoLeak
<1>16. ExactAccounting'
  BY <1>1, <1>9, <1>12 DEF IInv, ExactAccounting
<1>17. WellPlaced'
  BY <1>4, <1>5, <1>9, <1>10 DEF IInv, WellPlaced
<1>18. Marked'
  <2>1. ASSUME NEW b \in Blocks, b # z
        PROVE  b[1] # q
    BY <1>2, <1>5, <1>6, <1>10, <2>1, SameHead
  <2>2. ASSUME NEW b \in held'
        PROVE  ~is_free'[b[1]] /\ order'[b[1]] = b[2]
    BY <1>1, <1>6, <1>8, <2>1 DEF IInv, TypeOK, Marked, Blocks
  <2>3. ASSUME NEW k \in Orders, NEW p \in freelist'[k]
        PROVE  is_free'[p] /\ order'[p] = k
    <3>1. p \in Pages /\ <<p, k>> \in FreeBlocks'
      BY <1>13 DEF TypeOK, FreeBlocks
    <3>2. CASE <<p, k>> = y
      BY <1>1, <1>3, <1>6, <3>2 DEF IInv, TypeOK, y
    <3>3. CASE <<p, k>> # y
      <4>1. <<p, k>> \in FreeBlocks /\ p \in freelist[k]
        BY <1>7, <3>1, <3>3 DEF FreeBlocks
      <4>2. p # q
        BY <1>8, <2>1, <4>1 DEF Blocks
      <4> QED BY <1>1, <3>1, <4>1, <4>2 DEF IInv, TypeOK, Marked
    <3> QED BY <3>2, <3>3
  <2> QED BY <2>2, <2>3 DEF Marked
<1>19. StaleShadowed'
  <2>1. ASSUME NEW p \in Pages, is_free'[p]
        PROVE  /\ Aligned(p, order'[p])
               /\ \/ p \in freelist'[order'[p]]
                  \/ p = page
                  \/ \E b \in Blocks' : order'[p] < b[2] /\ p \in Span(b[1], b[2])
    <3>1. CASE p = q
      BY <1>1, <1>3, <1>5, <1>6, <3>1 DEF IInv, TypeOK
    <3>2. CASE p # q
      <4>1. is_free[p] /\ order'[p] = order[p] /\ order[p] \in Orders /\ order[p] \in Nat
        BY <1>1, <1>6, <2>1, <3>2, SizeFacts DEF IInv, TypeOK
      <4>2. Aligned(p, order[p])
        BY <4>1 DEF IInv, StaleShadowed
      <4>3. CASE p \in freelist[order[p]]
        BY <1>1, <1>3, <4>1, <4>2, <4>3 DEF IInv, TypeOK
      <4>4. CASE p = page
        BY <4>1, <4>2, <4>4
      <4>5. ASSUME NEW b \in Blocks, order[p] < b[2], p \in Span(b[1], b[2])
            PROVE  p = page \/ \E d \in Blocks' : order[p] < d[2] /\ p \in Span(d[1], d[2])
        <5>1. CASE b # z
          BY <1>9, <4>5, <5>1
        <5>2. CASE b = z /\ order[p] = c
          BY <1>3, <1>4, <1>5, <1>10, <3>2, <4>2, <4>5, <5>2, HalfHeads
        <5>3. CASE b = z /\ order[p] # c
          <6>1. order[p] < c
            BY <1>3, <1>10, <4>1, <4>5, <5>3
          <6> QED BY <1>5, <1>9, <1>10, <4>5, <5>3, <6>1
        <5> QED BY <5>1, <5>2, <5>3
      <4> QED BY <4>1, <4>2, <4>3, <4>4, <4>5 DEF IInv, StaleShadowed
    <3> QED BY <3>1, <3>2
  <2> QED BY <1>1, <2>1 DEF StaleShadowed
<1>20. LoopOK'
  BY <1>1, <1>3 DEF LoopOK, IInv, TypeOK, Orders
<1> QED BY <1>13, <1>14, <1>15, <1>16, <1>17, <1>18, <1>19, <1>20 DEF IInv

\* The buddy the coalescing loop unlinks is on the freelist of its order: a
\* stale descriptor would lie in a larger block, which would also contain the
\* block in hand.
LEMMA MergeableListed ==
    ASSUME IInv, pc = "merge", Mergeable
    PROVE  /\ Buddy(page, cur) \in Pages
           /\ Buddy(page, cur) \in freelist[cur]
<1> DEFINE q == Buddy(page, cur)
           h == Combined(page, cur)
           z == <<page, cur>>
<1>1. page \in Pages /\ cur \in Orders /\ z \in Blocks /\ page \in Nat
  BY BlocksOK, SizeAssumption DEF IInv, TypeOK, Pages
<1>2. cur + 1 \in 0 .. MaxOrder /\ cur \in 0 .. MaxOrder /\ cur \in Nat
      /\ BlockSize[cur] \in Nat \ {0}
  BY <1>1, SizeFacts
<1>3. Aligned(page, cur)
  BY <1>1 DEF IInv, WellPlaced
<1>4. /\ q \in Nat /\ h \in Nat /\ Aligned(q, cur) /\ Aligned(h, cur + 1)
      /\ (page = h /\ q = h + BlockSize[cur]) \/ (page = h + BlockSize[cur] /\ q = h)
  BY <1>1, <1>3, BuddyHalves
<1>5. q < NumPages /\ is_free[q] /\ order[q] = cur
  BY DEF Mergeable
<1>6. q \in Pages /\ q # page
  BY <1>2, <1>4, <1>5, SizeAssumption DEF Pages
<1>7. page \in Span(h, cur + 1) /\ q \in Span(h, cur + 1)
  <2>1. BlockSize[cur + 1] = 2 * BlockSize[cur]
    BY <1>1, SizeFacts
  <2> QED BY <1>1, <1>2, <1>4, <2>1 DEF Span
<1>8. ASSUME NEW b \in Blocks, cur < b[2], q \in Span(b[1], b[2])
      PROVE  FALSE
  <2>1. b \in Pages \X Orders /\ Aligned(b[1], b[2])
    BY BlocksOK DEF IInv, WellPlaced
  <2>2. b[1] \in Nat /\ b[2] \in 0 .. MaxOrder
    BY <2>1, BlockFacts
  <2>3. cur + 1 <= b[2]
    BY <1>2, <1>8, <2>2, SizeAssumption
  <2>4. Span(h, cur + 1) \subseteq Span(b[1], b[2])
    BY <1>2, <1>4, <1>7, <1>8, <2>1, <2>2, <2>3, Nested
  <2>5. page \in Span(b[1], b[2])
    BY <1>7, <2>4
  <2>6. b = z
    BY <1>1, <2>5, SameHead
  <2> QED BY <1>2, <1>8, <2>6
<1> HIDE DEF q
<1>9. q \in freelist[cur]
  BY <1>5, <1>6, <1>8 DEF IInv, StaleShadowed
<1> QED BY <1>6, <1>9 DEF q

LEMMA MergeIInv ==
    ASSUME IInv, Merge
    PROVE  IInv'
<1> DEFINE q == Buddy(page, cur)
           h == Combined(page, cur)
           x == <<page, cur>>
           y == <<q, cur>>
           z == <<h, cur + 1>>
<1>1. /\ pc = "merge" /\ pc' = "merge" /\ Mergeable
      /\ is_free' = [is_free EXCEPT ![q] = FALSE]
      /\ page' = h /\ cur' = cur + 1
      /\ UNCHANGED <<order, free_phys_pages, held, todo, want>>
  BY DEF Merge
<1>2. q \in Pages /\ q \in freelist[cur]
  BY <1>1, MergeableListed
<1>3. freelist' = [freelist EXCEPT ![cur] = @ \ {q}]
  <2>1. freelist' = [freelist EXCEPT ![cur] = IF q \in @ THEN @ \ {q} ELSE {}]
    BY DEF Merge, list_remove
  <2>2. freelist \in [Orders -> SUBSET Pages] /\ cur \in Orders
    BY DEF IInv, TypeOK
  <2> HIDE DEF q
  <2> QED BY <1>2, <2>1, <2>2
<1>4. page \in Pages /\ cur \in Orders /\ x \in Blocks /\ page \in Nat
  BY <1>1, BlocksOK, SizeAssumption DEF IInv, TypeOK, Pages
<1>5. cur + 1 \in Orders /\ cur \in Nat /\ BlockSize[cur] \in Nat \ {0}
  BY <1>1, <1>4, SizeFacts, SizeAssumption DEF Mergeable, Orders
<1>6. Aligned(page, cur) /\ Span(page, cur) \subseteq Usable
  BY <1>4 DEF IInv, WellPlaced
<1>7. /\ q \in Nat /\ h \in Nat /\ Aligned(q, cur) /\ Aligned(h, cur + 1)
      /\ (page = h /\ q = h + BlockSize[cur]) \/ (page = h + BlockSize[cur] /\ q = h)
  BY <1>4, <1>6, BuddyHalves
<1>8. q # page /\ h \in Pages
  BY <1>2, <1>4, <1>5, <1>7
<1> HIDE DEF q, h
<1>9. Span(h, cur + 1) = Span(page, cur) \cup Span(q, cur)
  <2>1. Span(h, cur + 1) = Span(h, cur) \cup Span(h + BlockSize[cur], cur)
    BY <1>4, <1>7, SpanHalves
  <2> QED BY <1>7, <2>1
<1>10. y \in FreeBlocks /\ y \in Blocks /\ x # y
  BY <1>2, <1>4, <1>8 DEF FreeBlocks, Blocks
<1>11. Span(q, cur) \subseteq Usable
  BY <1>10 DEF IInv, WellPlaced
<1>12. FreeBlocks' = FreeBlocks \ {y} /\ InHand = {x} /\ InHand' = {z}
  <2>1. InHand = {x} /\ InHand' = {z}
    BY <1>1 DEF InHand
  <2>2. ASSUME NEW b \in Pages \X Orders
        PROVE  b[1] \in freelist'[b[2]] <=> b[1] \in freelist[b[2]] /\ b # y
    BY <1>3, <1>4 DEF IInv, TypeOK
  <2> QED BY <2>1, <2>2 DEF FreeBlocks
<1>13. x \notin held /\ x \notin FreeBlocks /\ y \notin held
  BY <1>10, <1>12 DEF IInv, NoOverlap
<1>14. /\ Blocks' = (Blocks \ {x, y}) \cup {z}
       /\ (FreeBlocks \cup InHand)' = ((FreeBlocks \cup InHand) \ {x, y}) \cup {z}
  BY <1>1, <1>12, <1>13 DEF Blocks
<1>15. /\ z[1] = h /\ z[2] = cur + 1 /\ x[1] = page /\ x[2] = cur /\ y[1] = q /\ y[2] = cur
       /\ z \in Pages \X Orders
  BY <1>5, <1>8
<1> HIDE DEF x, y, z
<1>16. /\ DisjointBlocks((Blocks \ {x, y}) \cup {z})
       /\ z \notin Blocks \ {x, y}
       /\ Covered((Blocks \ {x, y}) \cup {z}) = Covered(Blocks)
  <2>1. Blocks \subseteq Pages \X Orders /\ DisjointBlocks(Blocks)
    BY BlocksOK
  <2>2. Span(z[1], z[2]) = Span(x[1], x[2]) \cup Span(y[1], y[2])
    BY <1>9, <1>15
  <2> QED BY <1>4, <1>10, <1>15, <2>1, <2>2, Join
<1>17. Covered(((FreeBlocks \cup InHand) \ {x, y}) \cup {z}) = Covered(FreeBlocks \cup InHand)
  <2> DEFINE F == FreeBlocks \cup InHand
  <2>1. F \subseteq Blocks /\ x \in F /\ y \in F
    BY <1>10, <1>12 DEF Blocks
  <2>2. F \subseteq Pages \X Orders /\ DisjointBlocks(F)
    BY <2>1, BlocksOK DEF DisjointBlocks
  <2> HIDE DEF F
  <2>3. Covered((F \ {x, y}) \cup {z}) = Covered(F)
    BY <1>9, <1>15, <2>1, <2>2, Join
  <2> QED BY <2>3 DEF F
<1>18. TypeOK'
  BY <1>1, <1>2, <1>3, <1>4, <1>5, <1>8 DEF IInv, TypeOK
<1>19. NoOverlap'
  <2>1. held \cup (FreeBlocks \ {y}) \subseteq Blocks \ {x, y}
    BY <1>13 DEF Blocks
  <2>2. held' \cap FreeBlocks' = {} /\ InHand' \cap (held' \cup FreeBlocks') = {}
    BY <1>1, <1>12, <1>16, <2>1 DEF IInv, NoOverlap
  <2> QED BY <1>14, <1>16, <2>2 DEF NoOverlap, DisjointBlocks
<1>20. NoLeak'
  BY <1>14, <1>16 DEF IInv, NoLeak
<1>21. ExactAccounting'
  BY <1>1, <1>14, <1>17 DEF IInv, ExactAccounting
<1>22. WellPlaced'
  BY <1>6, <1>7, <1>9, <1>11, <1>14, <1>15 DEF IInv, WellPlaced
<1>23. Marked'
  <2>1. ASSUME NEW b \in Blocks, b # y
        PROVE  b[1] # q
    <3>1. y \in Pages \X Orders
      BY <1>10, BlocksOK
    <3>2. q \in Span(q, cur)
      BY <1>15, <3>1, BlockFacts
    <3> QED BY <1>10, <1>15, <2>1, <3>2, SameHead
  <2>2. ASSUME NEW b \in held'
        PROVE  ~is_free'[b[1]] /\ order'[b[1]] = b[2]
    BY <1>1, <1>2, <1>13, <2>1 DEF IInv, TypeOK, Marked, Blocks
  <2>3. ASSUME NEW k \in Orders, NEW p \in freelist'[k]
        PROVE  is_free'[p] /\ order'[p] = k
    <3>1. p \in Pages /\ <<p, k>> \in FreeBlocks'
      BY <1>18 DEF TypeOK, FreeBlocks
    <3>2. <<p, k>> \in FreeBlocks /\ <<p, k>> # y /\ p \in freelist[k]
      BY <1>12, <3>1 DEF FreeBlocks
    <3>3. p # q
      BY <2>1, <3>2 DEF Blocks
    <3> QED BY <1>1, <3>1, <3>2, <3>3 DEF IInv, TypeOK, Marked
  <2> QED BY <2>2, <2>3 DEF Marked
<1>24. StaleShadowed'
  <2>1. ASSUME NEW p \in Pages, is_free'[p]
        PROVE  /\ Aligned(p, order[p])
               /\ \/ p \in freelist'[order[p]]
                  \/ p = page'
                  \/ \E b \in Blocks' : order[p] < b[2] /\ p \in Span(b[1], b[2])
    <3>1. p # q /\ is_free[p] /\ order[p] \in Orders /\ order[p] \in Nat
      BY <1>1, <1>2, <2>1, SizeFacts DEF IInv, TypeOK
    <3>2. Aligned(p, order[p])
      BY <3>1 DEF IInv, StaleShadowed
    <3>3. CASE p \in freelist[order[p]]
      BY <1>3, <1>4, <3>1, <3>2, <3>3 DEF IInv, TypeOK
    <3>4. CASE p = page
      <4>1. order[page] <= cur
        BY <1>1, <3>1, <3>4 DEF IInv, LoopOK
      <4>2. page \in Span(h, cur + 1)
        <5>1. page \in Span(page, cur)
          BY <1>4, <1>5, SpanCard, SizeFacts
        <5> QED BY <1>9, <5>1
      <4>3. order[page] < cur + 1
        BY <1>5, <3>1, <3>4, <4>1
      <4> QED BY <1>14, <1>15, <3>2, <3>4, <4>2, <4>3
    <3>5. ASSUME NEW b \in Blocks, order[p] < b[2], p \in Span(b[1], b[2])
          PROVE  \E d \in Blocks' : order[p] < d[2] /\ p \in Span(d[1], d[2])
      <4>1. CASE b # x /\ b # y
        BY <1>14, <3>5, <4>1
      <4>2. CASE b = x \/ b = y
        <5>1. order[p] < cur + 1 /\ p \in Span(h, cur + 1)
          BY <1>5, <1>9, <1>15, <3>1, <3>5, <4>2
        <5> QED BY <1>14, <1>15, <5>1
      <4> QED BY <4>1, <4>2
    <3> QED BY <3>1, <3>2, <3>3, <3>4, <3>5 DEF IInv, StaleShadowed
  <2> QED BY <1>1, <2>1 DEF StaleShadowed
<1>25. LoopOK'
  <2>1. ASSUME is_free'[h]
        PROVE  order[h] <= cur
    <3>1. h = page
      BY <1>1, <1>2, <1>7, <1>8, <2>1 DEF IInv, TypeOK
    <3>2. is_free[page]
      BY <1>1, <1>2, <1>4, <2>1, <3>1 DEF IInv, TypeOK
    <3> QED BY <1>1, <3>1, <3>2 DEF IInv, LoopOK
  <2>2. order[h] \in Nat
    BY <1>8, SizeFacts DEF IInv, TypeOK
  <2> QED BY <1>1, <1>5, <2>1, <2>2 DEF LoopOK
<1> QED BY <1>18, <1>19, <1>20, <1>21, <1>22, <1>23, <1>24, <1>25 DEF IInv

\* A failed allocation only makes the OOM victim's frames due to be freed.
LEMMA AllocFailIInv ==
    ASSUME IInv, NEW k \in Orders, AllocFail(k)
    PROVE  IInv'
<1>1. /\ todo' \subseteq Pages
      /\ UNCHANGED <<order, is_free, freelist, free_phys_pages, held, pc, page, cur, want>>
  BY DEF AllocFail
<1>2. FreeBlocks' = FreeBlocks /\ InHand' = InHand /\ Blocks' = Blocks
  BY <1>1 DEF FreeBlocks, InHand, Blocks
<1> QED BY <1>1, <1>2 DEF IInv, TypeOK, NoOverlap, NoLeak, ExactAccounting,
                          WellPlaced, Marked, StaleShadowed, LoopOK

LEMMA StutterIInv ==
    ASSUME IInv, UNCHANGED vars
    PROVE  IInv'
<1>1. UNCHANGED <<order, is_free, freelist, free_phys_pages, held, todo, pc, page, cur, want>>
  BY DEF vars
<1>2. FreeBlocks' = FreeBlocks /\ InHand' = InHand /\ Blocks' = Blocks
  BY <1>1 DEF FreeBlocks, InHand, Blocks
<1> QED BY <1>1, <1>2 DEF IInv, TypeOK, NoOverlap, NoLeak, ExactAccounting,
                          WellPlaced, Marked, StaleShadowed, LoopOK

\* Every call, and every iteration of the two loops, preserves the invariant.
LEMMA NextIInv == IInv /\ [Next]_vars => IInv'
<1> SUFFICES ASSUME IInv, [Next]_vars
             PROVE  IInv'
  OBVIOUS
<1>1. ASSUME NEW k \in Orders, AllocBegin(k) PROVE IInv'
  BY <1>1, AllocBeginIInv
<1>2. ASSUME NEW k \in Orders, AllocFail(k) PROVE IInv'
  BY <1>2, AllocFailIInv
<1>3. CASE Split
  BY <1>3, SplitIInv
<1>4. CASE AllocEnd
  BY <1>4, AllocEndIInv
<1>5. ASSUME NEW p \in Pages, NEW k \in Orders, Free(p, k) PROVE IInv'
  BY <1>5, FreeIInv
<1>6. CASE Merge
  BY <1>6, MergeIInv
<1>7. CASE FreeEnd
  BY <1>7, FreeEndIInv
<1>8. CASE UNCHANGED vars
  BY <1>8, StutterIInv
<1> QED BY <1>1, <1>2, <1>3, <1>4, <1>5, <1>6, <1>7, <1>8 DEF Next

LEMMA Invariance == Spec => []IInv
<1>1. Init => IInv
  BY InitIInv
<1>2. IInv /\ [Next]_vars => IInv'
  BY NextIInv
<1> QED BY <1>1, <1>2, PTL DEF Spec

\* The allocator's variables keep their types; in particular free_phys_pages,
\* a uint64_t from which sizes are subtracted, never goes below zero.
THEOREM Types == Spec => []TypeOK
<1>1. IInv => TypeOK
  BY DEF IInv
<1> QED BY <1>1, Invariance, PTL

\* pmm_alloc_pages never hands out a frame that another caller, a freelist or
\* a running split or merge already has.
THEOREM Exclusive == Spec => []NoOverlap
<1>1. IInv => NoOverlap
  BY DEF IInv
<1> QED BY <1>1, Invariance, PTL

\* pmm_free_pages and the split loop never lose a usable frame, and frames
\* outside the usable regions are never handed out.
THEOREM Complete == Spec => []NoLeak
<1>1. IInv => NoLeak
  BY DEF IInv
<1> QED BY <1>1, Invariance, PTL

\* free_phys_pages is exactly the number of frames no caller holds.
THEOREM Accounting == Spec => []ExactAccounting
<1>1. IInv => ExactAccounting
  BY DEF IInv
<1> QED BY <1>1, Invariance, PTL

\* The coalescing loop of pmm_free_pages never unlinks a page that is not on
\* the freelist it is unlinked from.
THEOREM Unlinking == Spec => MergeUnlinksListed
<1>1. IInv /\ [Next]_vars => [Merge => Buddy(page, cur) \in freelist[cur]]_vars
  BY MergeableListed DEF Merge
<1> QED BY <1>1, Invariance, PTL DEF Spec, MergeUnlinksListed
=============================================================================
